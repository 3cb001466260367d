------------------------- MODULE ConversationProofs -------------------------
(***************************************************************************)
(* Proofs about the two directions of a conversation with a controller:    *)
(* PacketStream, what is read from it, for every set of packets and every  *)
(* division into pieces, and ControllerAnswers, what it is answered, for   *)
(* every number of threads and of changes to the tables.                   *)
(***************************************************************************)
EXTENDS PacketStream, ControllerAnswers, TLAPS

-----------------------------------------------------------------------------
(* PacketStream: types.                                                    *)

Records == [first : Nat, size : Nat, declared : Nat, intact : BOOLEAN, genuine : BOOLEAN]

Named(p, first) == [first |-> first, size |-> p.size, declared |-> p.declared,
                    intact |-> p.intact, genuine |-> p.genuine]

StreamTypeOK ==
  /\ written \in Seq(Records)
  /\ length \in Nat /\ closed \in BOOLEAN
  /\ arrived \in 0..length /\ taken \in 0..arrived
  /\ reading \in Receiving \cup {"idle", "check", "refused"}
  /\ want \in Nat /\ got \in Nat /\ start \in Nat
  /\ accepted \in Seq(Nat)
  /\ cause \in Causes /\ torn \in BOOLEAN

LEMMA RestIsAWord ==
  ASSUME NEW n \in Nat
  PROVE  RestOfPacket(n) \in 0..(Word - 1)
  <1>1. n - ContinueDataTransferLen \in Int
    BY DEF ContinueDataTransferLen
  <1>2. \A x \in Int : x % Word \in 0..(Word - 1)
    BY WordAssumption, SMT DEF BeginDataTransferLen
  <1> QED BY <1>1, <1>2 DEF RestOfPacket

\* Below a word the length in a packet can be recovered from what recv is asked for.
LEMMA RestIsTheRest ==
  ASSUME NEW n \in 0..(Word - 1)
  PROVE  /\ n >= ContinueDataTransferLen => RestOfPacket(n) = n - ContinueDataTransferLen
         /\ n < ContinueDataTransferLen =>
              RestOfPacket(n) = n - ContinueDataTransferLen + Word
  <1> DEFINE L == n - ContinueDataTransferLen
  <1>1. \A x \in 0..(Word - 1) : x % Word = x
    BY WordAssumption, SMT DEF BeginDataTransferLen
  <1>2. \A x \in (-3)..(-1) : x % Word = x + Word
    BY WordAssumption, SMT DEF BeginDataTransferLen
  <1>3. n >= ContinueDataTransferLen => L \in 0..(Word - 1)
    BY WordAssumption DEF ContinueDataTransferLen
  <1>4. n < ContinueDataTransferLen => L \in (-3)..(-1)
    BY DEF ContinueDataTransferLen
  <1> HIDE DEF L
  <1>5. n >= ContinueDataTransferLen => L % Word = L
    BY <1>1, <1>3
  <1>6. n < ContinueDataTransferLen => L % Word = L + Word
    BY <1>2, <1>4
  <1> QED BY <1>5, <1>6 DEF L, RestOfPacket

\* What an append leaves and what it adds.
LEMMA Appended ==
  ASSUME NEW S, NEW s \in Seq(S), NEW e \in S
  PROVE  /\ Append(s, e) \in Seq(S)
         /\ Len(Append(s, e)) = Len(s) + 1
         /\ \A i \in 1..Len(s) : Append(s, e)[i] = s[i]
         /\ Append(s, e)[Len(s) + 1] = e
  OBVIOUS

LEMMA InitStreamTypeOK == StreamInit => StreamTypeOK
  <1>1. <<>> \in Seq(Records) /\ <<>> \in Seq(Nat)
    OBVIOUS
  <1> SUFFICES ASSUME StreamInit PROVE StreamTypeOK
    OBVIOUS
  <1>2. written \in Seq(Records) /\ accepted \in Seq(Nat)
    BY <1>1, Zenon DEF StreamInit
  <1>3. length = 4 /\ arrived = 0 /\ taken = 0 /\ want = 4 /\ got = 0 /\ start = 0
    BY DEF StreamInit, BeginDataTransferLen
  <1>4. /\ reading \in Receiving \cup {"idle", "check", "refused"}
        /\ cause \in Causes /\ torn \in BOOLEAN /\ closed \in BOOLEAN
    BY Zenon DEF StreamInit, Receiving, Causes
  <1> QED BY <1>2, <1>3, <1>4 DEF StreamTypeOK

LEMMA NextStreamTypeOK == StreamTypeOK /\ [StreamNext]_streamVars => StreamTypeOK'
  <1> SUFFICES ASSUME StreamTypeOK, [StreamNext]_streamVars PROVE StreamTypeOK'
    OBVIOUS
  <1> USE DEF StreamTypeOK, Receiving, Causes, stream, call, Refuse
  <1>1. ASSUME NEW p \in Packets, Write(p) PROVE StreamTypeOK'
    <2>1. Named(p, length) \in Records
      BY PacketsAssumption DEF Named, Records, ContinueDataTransferLen
    <2>2. written' = Append(written, Named(p, length))
      BY <1>1 DEF Write, Named
    <2>3. written' \in Seq(Records)
      BY <2>1, <2>2, Appended
    <2>4. p.size \in Nat
      BY PacketsAssumption DEF ContinueDataTransferLen
    <2> QED BY <1>1, <2>3, <2>4 DEF Write
  <1>2. CASE Close
    BY <1>2 DEF Close
  <1>3. CASE Arrive
    BY <1>3 DEF Arrive
  <1>4. CASE Recv
    <2>1. taken' \in 0..arrived /\ UNCHANGED <<stream, start, accepted>>
      BY <1>4 DEF Recv, TakeUpTo
    <2>2. got' \in Nat /\ want' \in Nat
      <3>1. ASSUME NEW i \in DOMAIN written
            PROVE  RestOfPacket(written[i].declared) \in Nat
        <4>1. written[i].declared \in Nat
          <5>1. written[i] \in Records
            BY <3>1
          <5> QED BY <5>1, Zenon DEF Records
        <4> HIDE DEF StreamTypeOK
        <4> QED BY RestIsAWord, <4>1, WordAssumption
      <3> QED BY <1>4, <3>1 DEF Recv, TakeUpTo, Received, StartRecv
    <2>3. /\ reading' \in Receiving \cup {"idle", "check", "refused"}
          /\ cause' \in Causes /\ torn' \in BOOLEAN
      BY <1>4 DEF Recv, TakeUpTo, Received, StartRecv
    <2> QED BY <2>1, <2>2, <2>3
  <1>5. CASE RecvEnd
    BY <1>5 DEF RecvEnd
  <1>6. CASE RecvFails
    BY <1>6 DEF RecvFails
  <1>7. CASE StartPacket
    BY <1>7 DEF StartPacket, StartRecv, ContinueDataTransferLen
  <1>8. CASE CheckCrc
    <2>1. Append(accepted, start) \in Seq(Nat)
      BY Appended
    <2> QED BY <1>8, <2>1 DEF CheckCrc
  <1>9. CASE UNCHANGED streamVars
    BY <1>9 DEF streamVars
  <1> QED
    BY <1>1, <1>2, <1>3, <1>4, <1>5, <1>6, <1>7, <1>8, <1>9 DEF StreamNext, Receive

\* Every variable of the stream keeps its type: recv never takes bytes that have
\* not arrived, and what it is asked for is a count whatever a length says.
THEOREM StreamTypeCorrect == StreamSpec => []StreamTypeOK
  BY InitStreamTypeOK, NextStreamTypeOK, PTL DEF StreamSpec
-----------------------------------------------------------------------------
(* PacketStream: where the reader is.  The packets lie behind the header,  *)
(* one behind the other; between two packets the reader stands at the      *)
(* first byte of one; inside a packet its counters say how far it is.      *)

\* First byte behind the first n packets.
Boundary(n) == IF n = 0 THEN BeginDataTransferLen ELSE End(written[n])

FromPackets ==
  \A i \in 1..Len(written) : \E p \in Packets : written[i] = Named(p, written[i].first)

Consecutive ==
  /\ \A n \in 1..Len(written) : written[n].first = Boundary(n - 1)
  /\ length = Boundary(Len(written))

Disjoint ==
  /\ \A i, j \in 1..Len(written) : i < j => End(written[i]) <= written[j].first
  /\ \A i \in 1..Len(written) :
       BeginDataTransferLen <= written[i].first /\ End(written[i]) <= length

\* What recieve_data_packet has returned true for.
AcceptedInOrder ==
  /\ Len(accepted) <= Len(written)
  /\ \A i \in 1..Len(accepted) :
       accepted[i] = written[i].first /\ WellFormed(written[i])

AtBoundary   == start = Boundary(Len(accepted))
Announced    == RestOfPacket(written[Len(accepted) + 1].declared)
InsideLength == got < want /\ (got > 0 => torn)

Position ==
  /\ reading = "header" =>
       /\ accepted = <<>> /\ want = BeginDataTransferLen
       /\ taken = got /\ InsideLength
  /\ reading = "idle" => taken = Boundary(Len(accepted))
  /\ reading = "length" =>
       /\ AtBoundary /\ want = ContinueDataTransferLen
       /\ taken = start + got /\ InsideLength
  /\ reading = "body" =>
       /\ AtBoundary /\ Len(accepted) < Len(written)
       /\ want = Announced /\ got < want
       /\ taken = start + ContinueDataTransferLen + got
  /\ reading = "check" =>
       /\ AtBoundary /\ Len(accepted) < Len(written)
       /\ taken = start + ContinueDataTransferLen + Announced

Layout    == FromPackets /\ Consecutive /\ Disjoint
Reader    == AcceptedInOrder /\ Position /\ GoodPacketIsReadUnlessTorn
StreamInv == Layout /\ Reader

\* What Packets says of a packet in the stream.
LEMMA RecordFacts ==
  ASSUME StreamTypeOK, FromPackets, NEW i \in 1..Len(written)
  PROVE  /\ written[i].first \in Nat
         /\ written[i].size \in ContinueDataTransferLen..(Word - 1)
         /\ written[i].declared \in 0..(Word - 1)
         /\ End(written[i]) = written[i].first + written[i].size
         /\ WellFormed(written[i]) => written[i].size > ContinueDataTransferLen
  <1>1. PICK p \in Packets : written[i] = Named(p, written[i].first)
    BY DEF FromPackets
  <1>2. written[i] \in Records
    BY DEF StreamTypeOK
  <1>3. written[i].first \in Nat
    BY <1>2, Zenon DEF Records
  <1>4. /\ written[i].size = p.size /\ written[i].declared = p.declared
        /\ written[i].intact = p.intact
    BY <1>1 DEF Named
  <1> QED BY <1>3, <1>4, PacketsAssumption DEF End, WellFormed

LEMMA InitLayout == StreamInit => Layout
  BY DEF StreamInit, Layout, FromPackets, Consecutive, Disjoint, Boundary

\* The bytes of a new packet go behind all that are there.
LEMMA WriteLayout ==
  ASSUME StreamTypeOK, Layout, NEW p \in Packets, Write(p)
  PROVE  Layout' /\ \A n \in 0..Len(written) : Boundary(n)' = Boundary(n)
  <1>0. PICK N \in Nat : N = Len(written)
    BY DEF StreamTypeOK
  <1> DEFINE new == Named(p, length)
  <1>1. /\ Len(written') = N + 1
        /\ \A i \in 1..N : written'[i] = written[i]
        /\ written'[N + 1] = new
    <2>1. new \in Records
      BY PacketsAssumption DEF StreamTypeOK, Named, Records, ContinueDataTransferLen
    <2>2. written' = Append(written, new)
      BY DEF Write, Named
    <2>3. written \in Seq(Records)
      BY DEF StreamTypeOK
    <2> HIDE DEF new
    <2> QED BY <1>0, <2>1, <2>2, <2>3, Appended
  <1>2. /\ new.first = length /\ new.size = p.size
        /\ new.declared = p.declared /\ new.intact = p.intact /\ new.genuine = p.genuine
    BY DEF Named
  <1>3. length' = length + p.size /\ length \in Nat /\ p.size \in 3..(Word - 1)
    BY PacketsAssumption DEF Write, StreamTypeOK, ContinueDataTransferLen
  <1>4. \A n \in 0..N : Boundary(n)' = Boundary(n)
    BY <1>0, <1>1 DEF Boundary, End
  <1>5. \A i \in 1..N : /\ written[i].first \in Nat /\ End(written[i]) \in Nat
                         /\ written[i].first <= End(written[i])
    <2> TAKE i \in 1..N
    <2> QED BY <1>0, RecordFacts DEF Layout, ContinueDataTransferLen
  <1> HIDE DEF new
  <1>6. FromPackets'
    <2>1. \A i \in 1..N : \E q \in Packets : written'[i] = Named(q, written'[i].first)
      BY <1>0, <1>1, Zenon DEF Layout, FromPackets
    <2>2. written'[N + 1] = Named(p, written'[N + 1].first)
      BY <1>0, <1>1, <1>2 DEF new
    <2>3. \A i \in 1..(N + 1) : i \in 1..N \/ i = N + 1
      BY <1>0, <1>1
    <2> QED BY <1>0, <1>1, <2>1, <2>2, <2>3, Zenon DEF FromPackets
  <1>7. Consecutive'
    <2>1. \A n \in 1..N : written'[n].first = Boundary(n - 1)'
      BY <1>0, <1>1, <1>4 DEF Layout, Consecutive
    <2>2. length = Boundary(N)' /\ written'[N + 1].first = length
      BY <1>0, <1>1, <1>2, <1>4 DEF Layout, Consecutive
    <2>3. length' = Boundary(N + 1)'
      BY <1>0, <1>1, <1>2, <1>3 DEF Boundary, End
    <2>4. \A n \in 1..(N + 1) : written'[n].first = Boundary(n - 1)'
      <3> TAKE n \in 1..(N + 1)
      <3>1. CASE n \in 1..N
        BY <2>1, <3>1
      <3>2. CASE n = N + 1
        BY <1>0, <1>1, <2>2, <3>2
      <3> QED BY <1>0, <1>1, <3>1, <3>2
    <2> QED BY <1>0, <1>1, <2>3, <2>4 DEF Consecutive
  <1>8. Disjoint'
    <2>1. \A i \in 1..N : /\ BeginDataTransferLen <= written'[i].first
                          /\ End(written'[i]) = End(written[i])
                          /\ End(written'[i]) <= length
      BY <1>0, <1>1 DEF Layout, Disjoint
    <2>2. /\ BeginDataTransferLen <= length
          /\ End(written'[N + 1]) = length'
      <3>1. BeginDataTransferLen <= Boundary(N)
        <4>1. CASE N = 0
          BY <4>1 DEF Boundary, BeginDataTransferLen
        <4>2. CASE N # 0
          <5>1. N \in 1..N /\ Boundary(N) = End(written[N])
            BY <1>0, <4>2 DEF Boundary
          <5>2. BeginDataTransferLen <= written[N].first
            BY <1>0, <5>1 DEF Layout, Disjoint
          <5> QED BY <1>5, <5>1, <5>2 DEF BeginDataTransferLen
        <4> QED BY <4>1, <4>2
      <3> QED BY <1>0, <1>1, <1>2, <1>3, <3>1 DEF Layout, Consecutive, End
    <2>3. \A i, j \in 1..(N + 1) : i < j => End(written'[i]) <= written'[j].first
      <3> TAKE i, j \in 1..(N + 1)
      <3>1. CASE j \in 1..N
        BY <1>0, <1>1, <3>1 DEF Layout, Disjoint
      <3>2. CASE j = N + 1
        BY <1>0, <1>1, <1>2, <2>1, <3>2
      <3> QED BY <1>0, <1>1, <3>1, <3>2
    <2>4. \A i \in 1..(N + 1) :
            BeginDataTransferLen <= written'[i].first /\ End(written'[i]) <= length'
      <3> TAKE i \in 1..(N + 1)
      <3>1. CASE i \in 1..N
        BY <1>3, <1>5, <2>1, <3>1
      <3>2. CASE i = N + 1
        BY <1>0, <1>1, <1>2, <1>3, <2>2, <3>2
      <3> QED BY <1>0, <1>1, <3>1, <3>2
    <2> QED BY <1>0, <1>1, <2>3, <2>4 DEF Disjoint
  <1> QED BY <1>0, <1>4, <1>6, <1>7, <1>8 DEF Layout

LEMMA NextLayout == StreamTypeOK /\ Layout /\ [StreamNext]_streamVars => Layout'
  <1> SUFFICES ASSUME StreamTypeOK, Layout, [StreamNext]_streamVars PROVE Layout'
    OBVIOUS
  <1>1. ASSUME NEW p \in Packets, Write(p) PROVE Layout'
    BY <1>1, WriteLayout
  <1>2. CASE UNCHANGED <<written, length>>
    BY <1>2, Zenon DEF Layout, FromPackets, Consecutive, Disjoint, Boundary
  <1> QED BY <1>1, <1>2
      DEF StreamNext, Close, Arrive, Receive, Recv, TakeUpTo, RecvEnd, RecvFails,
          StartPacket, CheckCrc, streamVars, stream

\* Where the packet the reader is at lies, and that no other begins there.
LEMMA NextPacket ==
  ASSUME StreamTypeOK, Layout, NEW n \in 0..Len(written)
  PROVE  /\ Boundary(n) \in BeginDataTransferLen..length
         /\ Boundary(n) < length => n < Len(written)
         /\ n < Len(written) =>
              /\ written[n + 1].first = Boundary(n)
              /\ Boundary(n + 1) = End(written[n + 1])
              /\ End(written[n + 1]) \in Nat /\ End(written[n + 1]) <= length
              /\ Boundary(n) + ContinueDataTransferLen <= End(written[n + 1])
              /\ \A i \in 1..Len(written) : written[i].first = Boundary(n) => i = n + 1
  <1>1. Len(written) \in Nat /\ length \in Nat
    BY DEF StreamTypeOK
  <1>2. \A i \in 1..Len(written) : /\ written[i].first \in Nat /\ End(written[i]) \in Nat
                                   /\ written[i].first + 3 <= End(written[i])
    <2> TAKE i \in 1..Len(written)
    <2> QED BY RecordFacts DEF Layout, ContinueDataTransferLen
  <1>3. Boundary(n) \in BeginDataTransferLen..length
    <2>1. CASE n = 0
      <3>1. CASE Len(written) = 0
        BY <1>1, <2>1, <3>1 DEF Boundary, Layout, Consecutive, BeginDataTransferLen
      <3>2. CASE Len(written) > 0
        BY <1>1, <1>2, <2>1, <3>2 DEF Boundary, Layout, Disjoint, BeginDataTransferLen
      <3> QED BY <1>1, <3>1, <3>2
    <2>2. CASE n > 0
      BY <1>1, <1>2, <2>2 DEF Boundary, Layout, Disjoint, BeginDataTransferLen
    <2> QED BY <2>1, <2>2
  <1>4. Boundary(n) < length => n < Len(written)
    BY <1>1, <1>3 DEF Layout, Consecutive
  <1>5. ASSUME n < Len(written)
        PROVE  /\ written[n + 1].first = Boundary(n)
               /\ Boundary(n + 1) = End(written[n + 1])
               /\ End(written[n + 1]) \in Nat /\ End(written[n + 1]) <= length
               /\ Boundary(n) + ContinueDataTransferLen <= End(written[n + 1])
    <2>1. n + 1 \in 1..Len(written) /\ n + 1 - 1 = n
      BY <1>1, <1>5
    <2>2. written[n + 1].first = Boundary(n)
      BY <2>1 DEF Layout, Consecutive
    <2> QED BY <1>2, <2>1, <2>2 DEF Boundary, Layout, Disjoint, ContinueDataTransferLen
  <1>6. ASSUME n < Len(written), NEW i \in 1..Len(written), written[i].first = Boundary(n)
        PROVE  i = n + 1
    <2>1. n + 1 \in 1..Len(written)
      BY <1>1, <1>6
    <2>2. CASE i < n + 1
      <3>1. End(written[i]) <= written[n + 1].first
        BY <2>1, <2>2 DEF Layout, Disjoint
      <3> QED BY <1>2, <1>5, <1>6, <2>1, <3>1
    <2>3. CASE n + 1 < i
      <3>1. End(written[n + 1]) <= written[i].first
        BY <2>1, <2>3 DEF Layout, Disjoint
      <3> QED BY <1>2, <1>5, <1>6, <2>1, <3>1
    <2> QED BY <1>1, <2>2, <2>3
  <1> QED BY <1>3, <1>4, <1>5, <1>6

\* What recieve_data_packet asks recv for behind the length of a packet.
LEMMA RestOfRecord ==
  ASSUME StreamTypeOK, Layout, NEW i \in 1..Len(written)
  PROVE  /\ RestOfPacket(written[i].declared) \in 0..(Word - 1)
         /\ WellFormed(written[i]) =>
              /\ RestOfPacket(written[i].declared) = written[i].size - ContinueDataTransferLen
              /\ RestOfPacket(written[i].declared) > 0
         /\ RestOfPacket(written[i].declared) = written[i].size - ContinueDataTransferLen
              => written[i].declared = written[i].size
  <1> DEFINE d == written[i].declared  s == written[i].size  r == RestOfPacket(d)
  <1>1. /\ d \in 0..(Word - 1) /\ s \in ContinueDataTransferLen..(Word - 1)
        /\ WellFormed(written[i]) => d = s /\ s > ContinueDataTransferLen
    BY RecordFacts DEF Layout, WellFormed
  <1>2. r \in 0..(Word - 1)
    <2>1. d \in Nat
      BY <1>1
    <2> HIDE DEF d
    <2> QED BY <2>1, RestIsAWord
  <1>3. /\ d >= ContinueDataTransferLen => r = d - ContinueDataTransferLen
        /\ d < ContinueDataTransferLen => r = d - ContinueDataTransferLen + Word
    BY <1>1, RestIsTheRest
  <1> HIDE DEF d, s, r
  <1>4. /\ WellFormed(written[i]) => r = s - ContinueDataTransferLen /\ r > 0
        /\ r = s - ContinueDataTransferLen => d = s
    BY <1>1, <1>2, <1>3, WordAssumption DEF ContinueDataTransferLen, BeginDataTransferLen
  <1> QED BY <1>2, <1>4 DEF d, s, r

LEMMA InitReader == StreamInit => Reader
  BY DEF StreamInit, Reader, AcceptedInOrder, Position, InsideLength,
         GoodPacketIsReadUnlessTorn, BeginDataTransferLen

\* A packet more in the stream changes nothing for those before it.
LEMMA WriteReader ==
  ASSUME StreamTypeOK, StreamInv, NEW p \in Packets, Write(p)
  PROVE  Reader'
  <1>0. PICK N \in Nat : N = Len(written)
    BY DEF StreamTypeOK
  <1>1. PICK n \in 0..N : n = Len(accepted)
    BY <1>0 DEF StreamTypeOK, StreamInv, Reader, AcceptedInOrder
  <1> DEFINE new == Named(p, length)
  <1>2. /\ Len(written') = N + 1
        /\ \A i \in 1..N : written'[i] = written[i]
        /\ written'[N + 1].first = length /\ written'[N + 1].size = p.size
    <2>1. new \in Records
      BY PacketsAssumption DEF StreamTypeOK, Named, Records, ContinueDataTransferLen
    <2>2. written' = Append(written, new) /\ written \in Seq(Records)
      BY DEF Write, Named, StreamTypeOK
    <2>3. new.first = length /\ new.size = p.size
      BY DEF Named
    <2> HIDE DEF new
    <2> QED BY <1>0, <2>1, <2>2, <2>3, Appended
  <1> HIDE DEF new
  <1>3. /\ UNCHANGED <<arrived, taken, reading, want, got, start, accepted, cause, torn>>
        /\ length' = length + p.size /\ p.size \in 3..(Word - 1)
    BY PacketsAssumption DEF Write, call, ContinueDataTransferLen
  <1>4. \A m \in 0..N : Boundary(m)' = Boundary(m)
    BY <1>0, WriteLayout DEF StreamInv
  <1>5. AcceptedInOrder'
    <2>1. Len(accepted') = n /\ Len(written') = N + 1
      BY <1>1, <1>2, <1>3
    <2>2. \A i \in 1..n : accepted'[i] = written'[i].first /\ WellFormed(written'[i])
      BY <1>0, <1>1, <1>2, <1>3 DEF StreamInv, Reader, AcceptedInOrder
    <2> QED BY <1>1, <2>1, <2>2 DEF AcceptedInOrder
  <1>6. Position'
    <2>1. AtBoundary => AtBoundary'
      BY <1>1, <1>3, <1>4 DEF AtBoundary
    <2>2. n < N => Announced' = Announced
      BY <1>1, <1>2, <1>3 DEF Announced
    <2>3. Boundary(Len(accepted))' = Boundary(Len(accepted))
      BY <1>1, <1>3, <1>4
    <2> QED BY <1>0, <1>1, <1>2, <1>3, <2>1, <2>2, <2>3
            DEF StreamInv, Reader, Position, InsideLength
  <1>7. GoodPacketIsReadUnlessTorn'
    <2> SUFFICES ASSUME reading' = "refused", n < N + 1, WellFormed(written'[n + 1])
                 PROVE  \/ arrived' < End(written'[n + 1])
                        \/ cause' = "overread" /\ (torn' \/ arrived' > End(written'[n + 1]))
      BY <1>1, <1>2, <1>3 DEF GoodPacketIsReadUnlessTorn
    <2>1. CASE n < N
      BY <1>0, <1>1, <1>2, <1>3, <2>1 DEF StreamInv, Reader, GoodPacketIsReadUnlessTorn
    <2>2. CASE n = N
      <3>1. End(written'[n + 1]) = length + p.size
        BY <1>2, <2>2 DEF End
      <3> QED BY <1>3, <3>1 DEF StreamTypeOK
    <2> QED BY <1>1, <2>1, <2>2
  <1> QED BY <1>5, <1>6, <1>7 DEF Reader

\* One ::recv: inside the header or a length it can only overread after a piece
\* that ended there; inside a body it overreads when bytes behind it are there.
LEMMA RecvReader ==
  ASSUME StreamTypeOK, StreamInv, Recv
  PROVE  Reader'
  <1>0. PICK N \in Nat : N = Len(written)
    BY DEF StreamTypeOK
  <1>1. PICK n \in 0..N : n = Len(accepted)
    BY <1>0 DEF StreamTypeOK, StreamInv, Reader, AcceptedInOrder
  <1>2. UNCHANGED <<written, length, arrived, start, accepted>>
    BY DEF Recv, TakeUpTo, stream
  <1>3. /\ arrived \in Nat /\ length \in Nat /\ taken \in Nat /\ want \in Nat /\ got \in Nat
        /\ arrived <= length /\ torn \in BOOLEAN
    BY DEF StreamTypeOK
  <1>4. PICK piece \in 1..want :
          /\ taken' = taken + piece /\ taken' <= arrived
          /\ \/ /\ got + piece < want /\ got' = got + piece
                /\ torn' = (torn \/ reading # "body")
                /\ UNCHANGED <<reading, want, cause>>
             \/ got + piece = want /\ Received /\ UNCHANGED torn
             \/ got + piece > want /\ Refuse("overread") /\ UNCHANGED <<call, torn>>
    <2> DEFINE piece == IF arrived - taken < want THEN arrived - taken ELSE want
    <2>1. want > 0
      BY <1>3 DEF Recv, TakeUpTo, Receiving, StreamInv, Reader, Position, InsideLength
    <2>2. taken < arrived
      BY DEF Recv, TakeUpTo
    <2>3. piece \in 1..want /\ taken + piece <= arrived
      BY <1>3, <2>1, <2>2
    <2> QED BY <2>3 DEF Recv, TakeUpTo
  <1>5. AcceptedInOrder'
    BY <1>2, Zenon DEF StreamInv, Reader, AcceptedInOrder
  <1>6. /\ AtBoundary' <=> AtBoundary
        /\ Announced' = Announced
        /\ Boundary(Len(accepted))' = Boundary(n)
    BY <1>1, <1>2 DEF AtBoundary, Announced, Boundary
  <1>7. reading \in Receiving
    BY DEF Recv, TakeUpTo
  <1>8. CASE got + piece < want
    <2>1. /\ got' = got + piece /\ got' < want' /\ taken' = taken + piece
          /\ torn' = (torn \/ reading # "body") /\ UNCHANGED <<reading, want, cause>>
      BY <1>3, <1>4, <1>8
    <2>2. Position'
      <3>1. CASE reading = "header"
        BY <1>2, <1>3, <1>4, <2>1, <3>1
           DEF StreamInv, Reader, Position, InsideLength, StreamTypeOK
      <3>2. CASE reading = "length"
        <4>1. reading' = "length" /\ AtBoundary' /\ want' = ContinueDataTransferLen
          BY <1>6, <2>1, <3>2 DEF StreamInv, Reader, Position
        <4>2. taken' = start' + got'
          BY <1>2, <1>3, <1>4, <2>1, <3>2 DEF StreamInv, Reader, Position, StreamTypeOK
        <4>3. InsideLength'
          BY <2>1, <3>2 DEF InsideLength
        <4> QED BY <4>1, <4>2, <4>3 DEF Position
      <3>3. CASE reading = "body"
        <4>1. reading' = "body" /\ AtBoundary' /\ Len(accepted') < Len(written')
              /\ want' = Announced'
          BY <1>2, <1>6, <2>1, <3>3 DEF StreamInv, Reader, Position
        <4>2. taken' = start' + ContinueDataTransferLen + got'
          BY <1>2, <1>3, <1>4, <2>1, <3>3
             DEF StreamInv, Reader, Position, StreamTypeOK, ContinueDataTransferLen
        <4> QED BY <2>1, <4>1, <4>2 DEF Position
      <3> QED BY <1>7, <3>1, <3>2, <3>3 DEF Receiving
    <2>3. GoodPacketIsReadUnlessTorn'
      BY <1>7, <2>1 DEF GoodPacketIsReadUnlessTorn, Receiving
    <2> QED BY <1>5, <2>2, <2>3 DEF Reader
  <1>9. CASE got + piece = want
    <2>0. Received /\ UNCHANGED torn
      BY <1>3, <1>4, <1>9
    <2>1. CASE reading = "header"
      <3>1. reading' = "idle" /\ UNCHANGED <<call, cause>>
        BY <2>0, <2>1 DEF Received
      <3>2. n = 0 /\ taken' = BeginDataTransferLen
        BY <1>1, <1>3, <1>4, <1>9, <2>1
           DEF StreamInv, Reader, Position
      <3>3. taken' = Boundary(n)
        BY <3>2 DEF Boundary
      <3> QED BY <1>5, <1>6, <3>1, <3>3 DEF Reader, Position, GoodPacketIsReadUnlessTorn
    <2>2. CASE reading = "length"
      <3>1. start = Boundary(n) /\ taken' = start + ContinueDataTransferLen
        BY <1>1, <1>3, <1>4, <1>9, <2>2
           DEF StreamInv, Reader, Position, AtBoundary, ContinueDataTransferLen, StreamTypeOK
      <3>2. Boundary(n) \in Nat /\ Boundary(n) < length
        BY <1>0, <1>3, <1>4, <3>1, NextPacket
           DEF StreamInv, ContinueDataTransferLen, BeginDataTransferLen
      <3>3. /\ n < N /\ \A i \in 1..N : written[i].first = Boundary(n) => i = n + 1
        BY <1>0, <3>2, NextPacket DEF StreamInv
      <3>4. PICK i \in DOMAIN written :
              written[i].first = start /\ StartRecv("body", RestOfPacket(written[i].declared))
        BY <2>0, <2>2 DEF Received
      <3>5. i = n + 1
        BY <1>0, <3>1, <3>3, <3>4 DEF StreamTypeOK
      <3>6. RestOfPacket(written[i].declared) = Announced /\ Announced \in Nat
        <4>1. RestOfPacket(written[i].declared) \in 0..(Word - 1)
          BY <1>0, <1>1, <3>3, <3>5, RestOfRecord DEF StreamInv
        <4> QED BY <1>1, <3>5, <4>1, WordAssumption DEF Announced
      <3>7. CASE Announced = 0
        <4>1. reading' = "refused"
          BY <3>4, <3>6, <3>7 DEF StartRecv, Refuse
        <4>2. ~ WellFormed(written[n + 1])
          <5>1. n + 1 \in 1..Len(written)
            BY <1>0, <1>1, <3>3
          <5>2. RestOfPacket(written[n + 1].declared) = 0
            BY <3>5, <3>6, <3>7
          <5> QED BY <5>1, <5>2, RestOfRecord DEF StreamInv
        <4> QED BY <1>1, <1>2, <1>5, <4>1, <4>2
                DEF Reader, Position, GoodPacketIsReadUnlessTorn, WellFormed
      <3>8. CASE Announced # 0
        <4>1. reading' = "body" /\ want' = Announced /\ got' = 0
          BY <3>4, <3>6, <3>8 DEF StartRecv
        <4>2. start' + ContinueDataTransferLen + 0 = taken'
          BY <1>2, <3>1, <3>2 DEF ContinueDataTransferLen
        <4>3. 0 < Announced
          BY <3>6, <3>8
        <4> QED BY <1>0, <1>1, <1>2, <1>5, <1>6, <3>1, <3>3, <4>1, <4>2, <4>3
                DEF Reader, Position, GoodPacketIsReadUnlessTorn, AtBoundary
      <3> QED BY <3>7, <3>8
    <2>3. CASE reading = "body"
      <3>1. reading' = "check"
        BY <2>0, <2>3 DEF Received
      <3>2. /\ AtBoundary /\ n < N
            /\ taken' = start + ContinueDataTransferLen + Announced
        BY <1>0, <1>1, <1>3, <1>4, <1>9, <2>3
           DEF StreamInv, Reader, Position, StreamTypeOK, ContinueDataTransferLen
      <3> QED BY <1>0, <1>1, <1>2, <1>5, <1>6, <3>1, <3>2
              DEF Reader, Position, GoodPacketIsReadUnlessTorn
    <2> QED BY <1>7, <2>1, <2>2, <2>3 DEF Receiving
  <1>10. CASE got + piece > want
    <2>1. reading' = "refused" /\ cause' = "overread" /\ UNCHANGED torn
      BY <1>3, <1>4, <1>10 DEF Refuse
    <2>2. ASSUME reading # "body" PROVE torn
      BY <1>3, <1>4, <1>7, <1>10, <2>2
         DEF StreamInv, Reader, Position, InsideLength, Receiving
    <2>3. ASSUME reading = "body", n < N, WellFormed(written[n + 1])
          PROVE  arrived > End(written[n + 1])
      <3>1. /\ want = RestOfPacket(written[n + 1].declared) /\ start = Boundary(n)
            /\ taken = start + ContinueDataTransferLen + got
        BY <1>1, <2>3 DEF StreamInv, Reader, Position, Announced, AtBoundary
      <3>2. /\ want = written[n + 1].size - ContinueDataTransferLen
            /\ written[n + 1].size \in Nat
            /\ End(written[n + 1]) = Boundary(n) + written[n + 1].size
        <4>1. n + 1 \in 1..Len(written)
          BY <1>0, <1>1, <2>3
        <4>2. want = written[n + 1].size - ContinueDataTransferLen
          BY <2>3, <3>1, <4>1, RestOfRecord DEF StreamInv
        <4>3. /\ written[n + 1].size \in Nat
              /\ End(written[n + 1]) = written[n + 1].first + written[n + 1].size
          BY <4>1, RecordFacts DEF StreamInv, Layout, ContinueDataTransferLen
        <4>4. written[n + 1].first = Boundary(n)
          BY <1>0, <2>3, NextPacket DEF StreamInv
        <4> QED BY <4>2, <4>3, <4>4
      <3>3. /\ start \in Nat /\ taken + piece <= arrived /\ piece \in Nat
            /\ got + piece > want
        BY <1>3, <1>4, <1>10 DEF StreamTypeOK
      <3> HIDE DEF StreamTypeOK
      <3> QED BY <1>3, <3>1, <3>2, <3>3 DEF ContinueDataTransferLen
    <2>4. GoodPacketIsReadUnlessTorn'
      BY <1>0, <1>1, <1>2, <2>1, <2>2, <2>3
         DEF GoodPacketIsReadUnlessTorn, WellFormed, End
    <2> QED BY <1>5, <2>1, <2>4 DEF Reader, Position
  <1> QED BY <1>3, <1>4, <1>8, <1>9, <1>10

\* As long as recv waits for bytes of a well formed packet, not all were taken.
LEMMA PacketIsIncomplete ==
  ASSUME StreamTypeOK, StreamInv, reading \in Receiving,
         Len(accepted) < Len(written), WellFormed(written[Len(accepted) + 1])
  PROVE  taken < End(written[Len(accepted) + 1])
  <1>1. PICK n \in Nat : n = Len(accepted) /\ n + 1 \in 1..Len(written) /\ n \in 0..Len(written)
    BY DEF StreamTypeOK
  <1>2. PICK e \in Nat : /\ e = End(written[n + 1])
                         /\ Boundary(n) \in Nat /\ BeginDataTransferLen <= Boundary(n)
                         /\ Boundary(n) + ContinueDataTransferLen <= e
                         /\ written[n + 1].first = Boundary(n)
    <2>1. /\ End(written[n + 1]) \in Nat
          /\ Boundary(n) \in BeginDataTransferLen..length
          /\ Boundary(n) + ContinueDataTransferLen <= End(written[n + 1])
          /\ written[n + 1].first = Boundary(n)
      BY <1>1, NextPacket DEF StreamInv
    <2>2. Boundary(n) \in Nat /\ BeginDataTransferLen <= Boundary(n)
      BY <2>1 DEF BeginDataTransferLen, StreamTypeOK
    <2> QED BY <2>1, <2>2
  <1>3. taken \in Nat /\ got \in Nat /\ want \in Nat /\ start \in Nat
    BY DEF StreamTypeOK
  <1>4. CASE reading = "header"
    <2>1. taken < BeginDataTransferLen
      BY <1>3, <1>4 DEF StreamInv, Reader, Position, InsideLength
    <2> QED BY <1>1, <1>2, <1>3, <2>1 DEF BeginDataTransferLen, ContinueDataTransferLen
  <1>5. CASE reading = "length"
    BY <1>1, <1>2, <1>3, <1>5 DEF StreamInv, Reader, Position, InsideLength, AtBoundary,
                                  ContinueDataTransferLen
  <1>6. CASE reading = "body"
    <2>1. /\ taken = Boundary(n) + ContinueDataTransferLen + got /\ got < want
          /\ want = RestOfPacket(written[n + 1].declared)
      BY <1>1, <1>6 DEF StreamInv, Reader, Position, AtBoundary, Announced
    <2>2. want = written[n + 1].size - ContinueDataTransferLen
      BY <1>1, <2>1, RestOfRecord DEF StreamInv
    <2>3. written[n + 1].size \in Nat /\ e = Boundary(n) + written[n + 1].size
      BY <1>1, <1>2, RecordFacts DEF StreamInv, Layout, ContinueDataTransferLen
    <2>4. taken < e
      <3>1. PICK b \in Nat, z \in Nat :
              b = Boundary(n) /\ z = written[n + 1].size /\ e = b + z
        BY <1>2, <2>3
      <3>2. taken = b + 3 + got /\ got < z - 3
        BY <2>1, <2>2, <3>1 DEF ContinueDataTransferLen
      <3>3. e = b + z
        BY <3>1
      <3>4. got \in Nat
        BY <1>3
      <3>5. b + 3 + got < b + z
        BY <3>2, <3>4
      <3> QED BY <3>2, <3>3, <3>5
    <2> QED BY <1>1, <1>2, <2>4
  <1> QED BY <1>1, <1>2, <1>4, <1>5, <1>6 DEF Receiving

\* The end of the stream and silence find the packet unfinished.
LEMMA StopReader ==
  ASSUME StreamTypeOK, StreamInv, RecvEnd \/ RecvFails
  PROVE  Reader'
  <1>1. /\ UNCHANGED <<written, length, arrived, taken, start, accepted, torn>>
        /\ reading \in Receiving /\ reading' = "refused"
        /\ taken = arrived
    BY DEF RecvEnd, RecvFails, Refuse, stream, StreamTypeOK
  <1>2. AcceptedInOrder' /\ Position'
    BY <1>1 DEF StreamInv, Reader, AcceptedInOrder, Position, WellFormed
  <1>3. GoodPacketIsReadUnlessTorn'
    <2> SUFFICES ASSUME Len(accepted) < Len(written),
                        WellFormed(written[Len(accepted) + 1])
                 PROVE  arrived < End(written[Len(accepted) + 1])
      BY <1>1 DEF GoodPacketIsReadUnlessTorn, WellFormed, End
    <2> QED BY <1>1, PacketIsIncomplete
  <1> QED BY <1>2, <1>3 DEF Reader

LEMMA StartReader ==
  ASSUME StreamTypeOK, StreamInv, StartPacket
  PROVE  Reader'
  <1>1. /\ UNCHANGED <<written, taken, accepted, torn>>
        /\ reading = "idle" /\ reading' = "length" /\ start' = taken
        /\ want' = ContinueDataTransferLen /\ got' = 0
    BY DEF StartPacket, StartRecv, stream, ContinueDataTransferLen
  <1>2. AcceptedInOrder'
    BY <1>1 DEF StreamInv, Reader, AcceptedInOrder, WellFormed
  <1>3. AtBoundary'
    BY <1>1 DEF StreamInv, Reader, Position, AtBoundary, Boundary
  <1>4. taken' = start' + got' /\ InsideLength'
    BY <1>1 DEF InsideLength, StreamTypeOK, ContinueDataTransferLen
  <1> QED BY <1>1, <1>2, <1>3, <1>4 DEF Reader, Position, GoodPacketIsReadUnlessTorn

\* The buffer is a packet exactly when its length was its size; a well formed
\* one is accepted, and what is accepted is one.
LEMMA CheckReader ==
  ASSUME StreamTypeOK, StreamInv, CheckCrc
  PROVE  Reader'
  <1>1. PICK n \in Nat : n = Len(accepted) /\ n + 1 \in 1..Len(written) /\ n \in 0..Len(written)
    BY DEF CheckCrc, StreamTypeOK, StreamInv, Reader, Position
  <1>2. /\ written[n + 1].first = Boundary(n) /\ Boundary(n + 1) = End(written[n + 1])
        /\ \A i \in 1..Len(written) : written[i].first = Boundary(n) => i = n + 1
    BY <1>1, NextPacket DEF StreamInv
  <1>3. /\ start = Boundary(n)
        /\ taken = start + ContinueDataTransferLen + RestOfPacket(written[n + 1].declared)
    BY <1>1 DEF CheckCrc, StreamInv, Reader, Position, AtBoundary, Announced
  <1>4. /\ RestOfPacket(written[n + 1].declared) \in Nat
        /\ written[n + 1].first \in Nat /\ written[n + 1].size \in Nat
        /\ End(written[n + 1]) = written[n + 1].first + written[n + 1].size
    <2>1. RestOfPacket(written[n + 1].declared) \in 0..(Word - 1)
      BY <1>1, RestOfRecord DEF StreamInv
    <2>2. /\ written[n + 1].first \in Nat
          /\ written[n + 1].size \in ContinueDataTransferLen..(Word - 1)
          /\ End(written[n + 1]) = written[n + 1].first + written[n + 1].size
      BY <1>1, RecordFacts DEF StreamInv, Layout
    <2> QED BY <2>1, <2>2, WordAssumption DEF ContinueDataTransferLen
  <1>5. \A i \in InBuffer : i = n + 1
    BY <1>1, <1>2, <1>3 DEF InBuffer, StreamTypeOK
  <1>6. /\ n + 1 \in InBuffer => End(written[n + 1]) = taken
        /\ End(written[n + 1]) = taken => n + 1 \in InBuffer
    BY <1>1, <1>2, <1>3 DEF InBuffer, StreamTypeOK
  <1>0. PICK f \in Nat, z \in Nat, r \in Nat :
          /\ f = Boundary(n) /\ z = written[n + 1].size
          /\ r = RestOfPacket(written[n + 1].declared)
          /\ taken = f + 3 + r /\ End(written[n + 1]) = f + z
    BY <1>2, <1>3, <1>4 DEF ContinueDataTransferLen
  <1>7. UNCHANGED <<written, length, arrived, taken, start, torn>> /\ reading = "check"
    BY DEF CheckCrc, stream
  <1>8. CASE \E i \in InBuffer : written[i].intact
    <2>1. accepted' = Append(accepted, start) /\ reading' = "idle"
      BY <1>8 DEF CheckCrc
    <2>2. End(written[n + 1]) = taken /\ written[n + 1].intact
      BY <1>5, <1>6, <1>8
    <2>3. WellFormed(written[n + 1])
      <3>1. RestOfPacket(written[n + 1].declared) = written[n + 1].size - ContinueDataTransferLen
        <4>1. r = z - 3
          BY <1>0, <2>2
        <4> QED BY <1>0, <4>1 DEF ContinueDataTransferLen
      <3>2. written[n + 1].declared = written[n + 1].size
        BY <1>1, <3>1, RestOfRecord DEF StreamInv
      <3> QED BY <2>2, <3>2 DEF WellFormed
    <2>4. /\ Len(accepted') = n + 1 /\ accepted'[n + 1] = start
          /\ \A i \in 1..n : accepted'[i] = accepted[i]
      BY <1>1, <2>1, Appended DEF StreamTypeOK
    <2>5. AcceptedInOrder'
      <3>1. \A i \in 1..n : accepted'[i] = written[i].first /\ WellFormed(written[i])
        BY <1>1, <2>4 DEF StreamInv, Reader, AcceptedInOrder
      <3>2. accepted'[n + 1] = written[n + 1].first
        BY <1>2, <1>3, <2>4
      <3>3. \A i \in 1..(n + 1) : accepted'[i] = written[i].first /\ WellFormed(written[i])
        <4> TAKE i \in 1..(n + 1)
        <4> QED BY <1>1, <2>3, <3>1, <3>2
      <3>4. n + 1 <= Len(written)
        BY <1>1
      <3> QED BY <1>7, <2>4, <3>3, <3>4 DEF AcceptedInOrder, WellFormed
    <2>6. taken' = Boundary(Len(accepted))'
      BY <1>2, <1>7, <2>2, <2>4 DEF Boundary
    <2> QED BY <2>1, <2>5, <2>6 DEF Reader, Position, GoodPacketIsReadUnlessTorn
  <1>9. CASE ~ \E i \in InBuffer : written[i].intact
    <2>1. accepted' = accepted /\ reading' = "refused"
      BY <1>9 DEF CheckCrc, Refuse
    <2>2. ~ WellFormed(written[n + 1])
      <3> SUFFICES ASSUME WellFormed(written[n + 1]) PROVE FALSE
        OBVIOUS
      <3>1. RestOfPacket(written[n + 1].declared) = written[n + 1].size - ContinueDataTransferLen
        BY <1>1, RestOfRecord DEF StreamInv
      <3>2. End(written[n + 1]) = taken
        <4>1. r = z - 3
          BY <1>0, <3>1 DEF ContinueDataTransferLen
        <4> QED BY <1>0, <4>1
      <3> QED BY <1>6, <1>9, <3>2 DEF WellFormed
    <2>3. AcceptedInOrder' /\ Position'
      BY <1>7, <2>1 DEF StreamInv, Reader, AcceptedInOrder, Position, WellFormed
    <2>4. GoodPacketIsReadUnlessTorn'
      BY <1>1, <1>7, <2>1, <2>2 DEF GoodPacketIsReadUnlessTorn, WellFormed
    <2> QED BY <2>3, <2>4 DEF Reader
  <1> QED BY <1>8, <1>9

LEMMA NextReader == StreamTypeOK /\ StreamInv /\ [StreamNext]_streamVars => Reader'
  <1> SUFFICES ASSUME StreamTypeOK, StreamInv, [StreamNext]_streamVars PROVE Reader'
    OBVIOUS
  <1>1. ASSUME NEW p \in Packets, Write(p) PROVE Reader'
    BY <1>1, WriteReader
  <1>2. CASE Close \/ Arrive
    <2>1. /\ UNCHANGED <<written, length, taken, reading, want, got, start, accepted, cause, torn>>
          /\ arrived' = arrived \/ reading # "refused"
      BY <1>2 DEF Close, Arrive, call
    <2>2. AcceptedInOrder' /\ Position'
      BY <2>1, Zenon DEF StreamInv, Reader, AcceptedInOrder, Position, AtBoundary, Boundary,
                         Announced, InsideLength
    <2>3. GoodPacketIsReadUnlessTorn'
      BY <2>1 DEF StreamInv, Reader, GoodPacketIsReadUnlessTorn
    <2> QED BY <2>2, <2>3 DEF Reader
  <1>3. CASE Receive
    BY <1>3, RecvReader, StopReader DEF Receive
  <1>4. CASE StartPacket
    BY <1>4, StartReader
  <1>5. CASE CheckCrc
    BY <1>5, CheckReader
  <1>6. CASE UNCHANGED streamVars
    BY <1>6, Zenon DEF streamVars, stream, call, StreamInv, Reader, AcceptedInOrder, Position,
       AtBoundary, Boundary, Announced, InsideLength, GoodPacketIsReadUnlessTorn
  <1> QED BY <1>1, <1>2, <1>3, <1>4, <1>5, <1>6 DEF StreamNext

LEMMA StreamInvariant == StreamSpec => [](StreamTypeOK /\ StreamInv)
  <1>1. StreamInit => StreamTypeOK /\ StreamInv
    BY InitStreamTypeOK, InitLayout, InitReader DEF StreamInv
  <1>2. StreamTypeOK /\ StreamInv /\ [StreamNext]_streamVars => (StreamTypeOK /\ StreamInv)'
    BY NextStreamTypeOK, NextLayout, NextReader DEF StreamInv
  <1> QED BY <1>1, <1>2, PTL DEF StreamSpec

\* recieve_data_packet returns true for the first packets of the stream, each
\* once and in their order, and only for those whose CRC is right and whose
\* length is the number of their bytes, however the stream is cut into pieces.
THEOREM AcceptedAreWellFormed == StreamSpec => []AcceptedInOrder
  BY StreamInvariant, PTL DEF StreamInv, Reader

\* For packets in which the CRC finds every change, what is accepted is what the
\* controller wrote.
THEOREM AcceptedAreGenuine ==
  ASSUME \A p \in Packets : p.intact => p.genuine
  PROVE  StreamSpec => []AcceptedAsWritten
  <1>1. StreamTypeOK /\ StreamInv => AcceptedAsWritten
    <2> SUFFICES ASSUME StreamTypeOK, StreamInv PROVE AcceptedAsWritten
      OBVIOUS
    <2>1. AcceptedInOrder
      BY DEF StreamInv, Reader
    <2>2. ASSUME NEW i \in 1..Len(accepted) PROVE written[i].genuine
      <3>1. i \in 1..Len(written) /\ written[i].intact
        BY <2>1 DEF AcceptedInOrder, WellFormed, StreamTypeOK
      <3>2. PICK p \in Packets : written[i] = Named(p, written[i].first)
        BY <3>1 DEF StreamInv, Layout, FromPackets
      <3>3. written[i].intact = p.intact /\ written[i].genuine = p.genuine
        BY <3>2 DEF Named
      <3> QED BY <3>1, <3>3
    <2> QED BY <2>1, <2>2 DEF AcceptedAsWritten, AcceptedInOrder, StreamTypeOK
  <1> QED BY <1>1, StreamInvariant, PTL

\* A well formed packet that is next is refused only if it is not all there, or
\* if recv took too much in one of the two ways GoodPacketIsReadUnlessTorn names.
THEOREM GoodPacketsAreRead == StreamSpec => []GoodPacketIsReadUnlessTorn
  BY StreamInvariant, PTL DEF StreamInv, Reader

\* While recv waits for the rest of a length and bytes are there, they are of a
\* packet the controller has begun there: the reader is never out of step.
InStep ==
  reading = "length" /\ taken < arrived => \E i \in DOMAIN written : written[i].first = start

THEOREM ReaderIsInStep == StreamSpec => []InStep
  <1>1. StreamTypeOK /\ StreamInv => InStep
    <2> SUFFICES ASSUME StreamTypeOK, StreamInv, reading = "length", taken < arrived
                 PROVE  \E i \in DOMAIN written : written[i].first = start
      BY DEF InStep
    <2>1. PICK n \in 0..Len(written) : n = Len(accepted)
      BY DEF StreamTypeOK, StreamInv, Reader, AcceptedInOrder
    <2>2. start = Boundary(n) /\ start < length
      BY <2>1 DEF StreamTypeOK, StreamInv, Reader, Position, AtBoundary
    <2>3. n + 1 \in DOMAIN written /\ written[n + 1].first = start
      BY <2>1, <2>2, NextPacket DEF StreamInv, StreamTypeOK
    <2> QED BY <2>3
  <1> QED BY <1>1, StreamInvariant, PTL

\* A packet is at most two calls of recv, and a ::recv nears the count of its
\* call or ends it; what arrives meanwhile takes nothing of that back.
\* ReadingEnds needs only that the calls of ::recv return.
RecvCountsDown ==
  /\ Receive =>
       \/ reading' = reading /\ want' = want /\ got < got' /\ got' < want'
       \/ reading = "length" /\ reading' = "body"
       \/ reading' \notin Receiving
  /\ (\E p \in Packets : Write(p)) \/ Close \/ Arrive => UNCHANGED <<reading, call>>

\* recv is always asked for bytes it has not got yet, so every ::recv that
\* returns some is a step towards the end of the call, for every length a packet
\* can announce.
THEOREM CallsOfRecvCountDown == StreamSpec => [][RecvCountsDown]_streamVars
  <1>1. ASSUME StreamTypeOK, StreamInv, Recv
        PROVE  \/ reading' = reading /\ want' = want /\ got < got' /\ got' < want'
               \/ reading = "length" /\ reading' = "body"
               \/ reading' \notin Receiving
    <2> DEFINE piece == IF arrived - taken < want THEN arrived - taken ELSE want
    <2>1. /\ arrived \in Nat /\ taken \in Nat /\ want \in Nat /\ got \in Nat
          /\ taken < arrived /\ reading \in Receiving
      BY <1>1 DEF StreamTypeOK, Recv, TakeUpTo
    <2>2. got < want
      <3>1. BeginDataTransferLen = 4 /\ ContinueDataTransferLen = 3
        BY DEF BeginDataTransferLen, ContinueDataTransferLen
      <3> QED BY <1>1, <2>1, <3>1
              DEF StreamInv, Reader, Position, InsideLength, Receiving
    <2>3. piece \in 1..want
      BY <2>1, <2>2
    <2>4. \/ got + piece < want /\ got' = got + piece /\ UNCHANGED <<reading, want>>
          \/ Received
          \/ Refuse("overread")
      BY <1>1 DEF Recv, TakeUpTo
    <2> HIDE DEF piece
    <2>5. CASE got + piece < want /\ got' = got + piece /\ UNCHANGED <<reading, want>>
      BY <2>1, <2>3, <2>5
    <2>6. CASE Received
      BY <2>6 DEF Received, StartRecv, Refuse, Receiving
    <2>7. CASE Refuse("overread")
      BY <2>7 DEF Refuse, Receiving
    <2> QED BY <2>4, <2>5, <2>6, <2>7
  <1>2. StreamTypeOK /\ StreamInv => [RecvCountsDown]_streamVars
    <2>1. RecvEnd \/ RecvFails => reading' \notin Receiving
      BY DEF RecvEnd, RecvFails, Refuse, Receiving
    <2>2. \A p \in Packets : Write(p) => UNCHANGED <<reading, call>>
      BY DEF Write, call
    <2>3. Close \/ Arrive => UNCHANGED <<reading, call>>
      BY DEF Close, Arrive, call
    <2> QED BY <1>1, <2>1, <2>2, <2>3 DEF RecvCountsDown, Receive
  <1> QED BY <1>2, StreamInvariant, PTL

-----------------------------------------------------------------------------
(* ControllerAnswers: types.                                               *)

Contents == [field : {"none", "clock", "fone", "zones", "gsm"}, state : Nat]
Packed   == [Bytes -> Contents]

OptionsSteps == {"idle", "fone", "zones", "gsm", "send", "undefined"}

AnswersTypeOK ==
  /\ db \in Nat \ {0}
  /\ view \in 0..db
  /\ explicit \in BOOLEAN /\ autocommit \in BOOLEAN
  /\ configured \in Nat
  /\ pc \in [Sockets -> OptionsSteps]
  /\ RetBuff \in [Sockets -> Packed]
  /\ ended \subseteq Sockets

LEMMA SeenIsAState == ASSUME AnswersTypeOK PROVE Seen \in Nat \ {0} /\ Seen <= db
  BY DEF AnswersTypeOK, Seen

LEMMA OfIsContent ==
  ASSUME NEW f \in {"clock", "fone", "zones", "gsm"}, NEW s \in Nat
  PROVE  Of(f, s) \in Contents /\ Of(f, s).field = f /\ Of(f, s).state = s
  BY DEF Of, Contents

LEMMA ZeroIsContent == Zero \in Contents /\ Zero.field = "none" /\ Zero.state = 0
  BY DEF Zero, Contents

\* The packets after a thread has put content into some bytes of its own.
LEMMA PutBytes ==
  ASSUME AnswersTypeOK, NEW t \in Sockets, NEW bytes, NEW c \in Contents, Put(t, bytes, c)
  PROVE  /\ RetBuff' \in [Sockets -> Packed]
         /\ \A u \in Sockets \ {t} : RetBuff'[u] = RetBuff[u]
         /\ \A b \in Bytes : RetBuff'[t][b] = IF b \in bytes THEN c ELSE RetBuff[t][b]
  <1> DEFINE new == [b \in Bytes |-> IF b \in bytes THEN c ELSE RetBuff[t][b]]
  <1>1. new \in Packed
    <2>1. RetBuff[t] \in Packed
      BY DEF AnswersTypeOK
    <2> QED BY <2>1 DEF Packed
  <1>2. RetBuff' = [RetBuff EXCEPT ![t] = new]
    BY DEF Put
  <1>3. \A b \in Bytes : new[b] = IF b \in bytes THEN c ELSE RetBuff[t][b]
    OBVIOUS
  <1>4. RetBuff \in [Sockets -> Packed]
    BY DEF AnswersTypeOK
  <1> HIDE DEF new
  <1>5. RetBuff'[t] = new /\ \A u \in Sockets \ {t} : RetBuff'[u] = RetBuff[u]
    BY <1>2, <1>4
  <1>6. RetBuff' \in [Sockets -> Packed]
    BY <1>1, <1>2, <1>4
  <1> QED BY <1>3, <1>5, <1>6

\* ... and after it has cleared its packet.
LEMMA Cleared ==
  ASSUME AnswersTypeOK, NEW t \in Sockets,
         RetBuff' = [RetBuff EXCEPT ![t] = [b \in Bytes |-> Zero]]
  PROVE  /\ RetBuff' \in [Sockets -> Packed]
         /\ \A u \in Sockets \ {t} : RetBuff'[u] = RetBuff[u]
         /\ \A b \in Bytes : RetBuff'[t][b] = Zero
  <1>1. [b \in Bytes |-> Zero] \in Packed
    BY ZeroIsContent, Zenon DEF Packed
  <1>2. RetBuff \in [Sockets -> Packed]
    BY DEF AnswersTypeOK
  <1> QED BY <1>1, <1>2

-----------------------------------------------------------------------------
(* What a thread's packet holds at its step, and what a step does to it.   *)

AllZero(t)  == \A b \in Bytes : RetBuff[t][b] = Zero
\* The number takes the first bytes of its field.
FoneIsPrefix(t) ==
  /\ \A b \in Fone : RetBuff[t][b].field \in {"none", "fone"}
  /\ \A b, c \in Fone : b < c /\ RetBuff[t][c].field = "fone" => RetBuff[t][b].field = "fone"
TimeIsPut(t) == /\ \A b \in Time  : RetBuff[t][b].field = "clock"
                /\ \A b \in Zones : RetBuff[t][b].field = "zones"
GsmIsPut(t)  == \A b \in Gsm : RetBuff[t][b].field = "gsm"

Fields(t) ==
  /\ pc[t] \in {"idle", "fone"} => AllZero(t)
  /\ pc[t] \in {"zones", "gsm", "send"} => FoneIsPrefix(t)
  /\ pc[t] \in {"gsm", "send"} => TimeIsPut(t)
  /\ pc[t] = "send" => GsmIsPut(t)

\* What an undisturbed thread has read is what the session's transaction sees.
InTransaction == ~ autocommit \/ explicit
InOneView(t)  == \A b \in Bytes : RetBuff[t][b].state \in {0, view}
Viewed(t)     == t \notin ended /\ InTransaction => InOneView(t)

AnswersInv == AnswersTypeOK /\ \A t \in Sockets : Fields(t) /\ Viewed(t)

\* A SELECT neither ends a transaction nor moves its view, once it has one.
LEMMA ViewStays ==
  ASSUME AnswersTypeOK, UNCHANGED db, Reads \/ UNCHANGED session
  PROVE  /\ view' \in 0..db'
         /\ UNCHANGED <<explicit, autocommit>>
         /\ InTransaction /\ view # 0 => view' = view
         /\ InTransaction /\ Reads => view' = Seen
  <1>1. CASE Reads
    BY <1>1, SeenIsAState DEF Reads, Seen, AnswersTypeOK, InTransaction
  <1>2. CASE UNCHANGED session /\ ~ Reads
    BY <1>2 DEF session, AnswersTypeOK
  <1> QED BY <1>1, <1>2

\* A step of one thread that reads the tables or leaves the session alone.
LEMMA ThreadStep ==
  ASSUME AnswersInv, NEW t \in Sockets, NEW step \in OptionsSteps,
         UNCHANGED <<db, configured>>, Reads \/ UNCHANGED session, UNCHANGED ended,
         Goto(t, step),
         RetBuff' \in [Sockets -> Packed],
         \A u \in Sockets \ {t} : RetBuff'[u] = RetBuff[u],
         InTransaction => \A b \in Bytes : \/ RetBuff'[t][b] = RetBuff[t][b]
                                           \/ RetBuff'[t][b].state \in {0, view'},
         Fields(t)'
  PROVE  AnswersInv'
  <1>1. pc' = [pc EXCEPT ![t] = step] /\ pc' \in [Sockets -> OptionsSteps]
    BY DEF Goto, AnswersInv, AnswersTypeOK
  <1>2. AnswersTypeOK'
    BY <1>1, ViewStays DEF AnswersInv, AnswersTypeOK
  <1>3. \A u \in Sockets \ {t} : pc'[u] = pc[u]
    BY <1>1 DEF AnswersInv, AnswersTypeOK
  <1>4. ASSUME NEW u \in Sockets \ {t} PROVE Fields(u)'
    <2>1. pc'[u] = pc[u] /\ RetBuff'[u] = RetBuff[u] /\ Fields(u)
      BY <1>3 DEF AnswersInv
    <2>2. /\ AllZero(u)' = AllZero(u) /\ FoneIsPrefix(u)' = FoneIsPrefix(u)
          /\ TimeIsPut(u)' = TimeIsPut(u) /\ GsmIsPut(u)' = GsmIsPut(u)
      BY <2>1 DEF AllZero, FoneIsPrefix, TimeIsPut, GsmIsPut
    <2> QED BY <2>1, <2>2 DEF Fields
  <1>5. ASSUME NEW u \in Sockets PROVE Viewed(u)'
    <2> SUFFICES ASSUME u \notin ended, InTransaction, NEW b \in Bytes
                 PROVE  RetBuff'[u][b].state \in {0, view'}
      BY ViewStays DEF AnswersInv, Viewed, InOneView, InTransaction
    <2>1. RetBuff[u][b].state \in {0, view}
      BY DEF AnswersInv, Viewed, InOneView
    <2>2. view # 0 => view' = view
      BY ViewStays DEF AnswersInv
    <2>3. RetBuff'[u][b] = RetBuff[u][b] \/ RetBuff'[u][b].state \in {0, view'}
      BY <1>1
    <2> QED BY <2>1, <2>2, <2>3
  <1> QED BY <1>2, <1>4, <1>5 DEF AnswersInv

\* A handler that fails has an empty packet again, whether it has read or not.
LEMMA FailKeeps ==
  ASSUME AnswersInv, NEW t \in Sockets, Fail(t), UNCHANGED <<db, configured>>
  PROVE  AnswersInv'
  <1>1. /\ RetBuff' = [RetBuff EXCEPT ![t] = [b \in Bytes |-> Zero]]
        /\ Goto(t, "idle") /\ UNCHANGED ended /\ (Reads \/ UNCHANGED session)
    BY DEF Fail, Throws
  <1>2. /\ RetBuff' \in [Sockets -> Packed]
        /\ \A u \in Sockets \ {t} : RetBuff'[u] = RetBuff[u]
        /\ \A b \in Bytes : RetBuff'[t][b] = Zero
    BY <1>1, Cleared DEF AnswersInv
  <1>3. pc'[t] = "idle"
    BY <1>1 DEF Goto, AnswersInv, AnswersTypeOK
  <1>4. Fields(t)'
    BY <1>2, <1>3, ZeroIsContent DEF Fields, AllZero
  <1>5. \A b \in Bytes : RetBuff'[t][b].state \in {0, view'}
    BY <1>2, ZeroIsContent
  <1>6. "idle" \in OptionsSteps
    BY DEF OptionsSteps
  <1> QED BY <1>1, <1>2, <1>4, <1>5, <1>6, ThreadStep

\* The number, of either origin, put into an empty packet.
LEMMA FoneIsPut ==
  ASSUME AnswersInv, NEW t \in Sockets, pc[t] = "fone", NEW n \in Nat, NEW state \in Nat,
         PutFone(t, n, state), UNCHANGED <<db, configured, ended>>,
         (UNCHANGED session /\ state = 0) \/ (Reads /\ state = Seen)
  PROVE  AnswersInv'
  <1>0. AnswersTypeOK /\ AllZero(t) /\ pc \in [Sockets -> OptionsSteps]
    BY DEF AnswersInv, Fields, AnswersTypeOK
  <1>1. CASE PhoneNumOffset + n > Length
    <2>1. Goto(t, "undefined") /\ RetBuff' = RetBuff
      BY <1>1 DEF PutFone
    <2>2. pc'[t] = "undefined"
      BY <1>0, <2>1 DEF Goto
    <2>3. Fields(t)'
      BY <2>2 DEF Fields
    <2> QED BY <1>0, <2>1, <2>3, ThreadStep DEF AnswersTypeOK, OptionsSteps
  <1>2. CASE ~ (PhoneNumOffset + n > Length)
    <2> DEFINE bytes == PhoneNumOffset..(PhoneNumOffset + n - 1)
    <2>1. Goto(t, "zones") /\ Put(t, bytes, Of("fone", state))
      BY <1>2 DEF PutFone
    <2>2. /\ Of("fone", state) \in Contents
          /\ Of("fone", state).field = "fone" /\ Of("fone", state).state = state
      BY OfIsContent
    <2>3. /\ RetBuff' \in [Sockets -> Packed]
          /\ \A u \in Sockets \ {t} : RetBuff'[u] = RetBuff[u]
          /\ \A b \in Bytes : RetBuff'[t][b] = IF b \in bytes THEN Of("fone", state)
                                                              ELSE RetBuff[t][b]
      <3> HIDE DEF bytes
      <3> QED BY <1>0, <2>1, <2>2, PutBytes
    <2>4. pc'[t] = "zones"
      BY <1>0, <2>1 DEF Goto
    <2>5. \A b \in Bytes : /\ b \in bytes => RetBuff'[t][b].field = "fone"
                           /\ b \notin bytes => RetBuff'[t][b].field = "none"
      BY <1>0, <2>2, <2>3, ZeroIsContent DEF AllZero
    <2>6. FoneIsPrefix(t)'
      <3>1. \A b \in Fone : b \in Bytes /\ b \in Nat /\ PhoneNumOffset <= b
        BY DEF Fone, Bytes, Length, PhoneNumOffset
      <3>2. \A b, c \in Fone : b < c /\ c \in bytes => b \in bytes
        BY <3>1 DEF PhoneNumOffset
      <3> HIDE DEF bytes
      <3> QED BY <2>5, <3>1, <3>2 DEF FoneIsPrefix
    <2>7. Fields(t)'
      BY <2>4, <2>6 DEF Fields
    <2>8. InTransaction => \A b \in Bytes : \/ RetBuff'[t][b] = RetBuff[t][b]
                                            \/ RetBuff'[t][b].state \in {0, view'}
      BY <1>0, <2>2, <2>3, ViewStays
    <2> HIDE DEF bytes
    <2> QED BY <2>1, <2>3, <2>7, <2>8, ThreadStep DEF OptionsSteps
  <1> QED BY <1>1, <1>2

LEMMA SelectFoneKeeps ==
  ASSUME AnswersInv, NEW t \in Sockets, SelectFone(t)
  PROVE  AnswersInv'
  <1>1. CASE configured > 0 /\ PutFone(t, configured, 0) /\ Intact /\ UNCHANGED <<session, ended>>
    BY <1>1, FoneIsPut DEF SelectFone, AnswersInv, AnswersTypeOK
  <1>2. ASSUME Reads, UNCHANGED ended, NEW n \in FoneLengths \ {0}, PutFone(t, n, Seen)
        PROVE  AnswersInv'
    <2>1. n \in Nat /\ Seen \in Nat
      BY LengthsAssumption, SeenIsAState DEF AnswersInv
    <2> QED BY <1>2, <2>1, FoneIsPut DEF SelectFone
  <1>3. CASE Fail(t)
    BY <1>3, FailKeeps DEF SelectFone
  <1> QED BY <1>1, <1>2, <1>3 DEF SelectFone

\* The fields behind the number's and before it are no bytes of it.
LEMMA FieldsAreDisjoint ==
  /\ Time \subseteq Bytes /\ Zones \subseteq Bytes /\ Fone \subseteq Bytes /\ Gsm \subseteq Bytes
  /\ Time \cap Zones = {} /\ Fone \cap (Time \cup Zones) = {}
  /\ Gsm \cap (Time \cup Zones \cup Fone) = {}
  BY DEF Time, Zones, Fone, Gsm, Bytes, Length, PhoneNumOffset

LEMMA SelectZonesKeeps ==
  ASSUME AnswersInv, NEW t \in Sockets, SelectZones(t)
  PROVE  AnswersInv'
  <1>0. AnswersTypeOK /\ FoneIsPrefix(t) /\ pc \in [Sockets -> OptionsSteps]
    BY DEF AnswersInv, Fields, AnswersTypeOK, SelectZones
  <1> DEFINE clock == Of("clock", 0)
             zones == Of("zones", Seen)
             new   == [b \in Bytes |-> CASE b \in Time  -> clock
                                         [] b \in Zones -> zones
                                         [] OTHER       -> RetBuff[t][b]]
  <1>1. CASE Fail(t)
    BY <1>1, FailKeeps DEF SelectZones
  <1>2. CASE /\ Reads /\ Intact /\ UNCHANGED ended
             /\ Goto(t, "gsm") /\ RetBuff' = [RetBuff EXCEPT ![t] = new]
    <2>1. /\ clock \in Contents /\ clock.field = "clock" /\ clock.state = 0
          /\ zones \in Contents /\ zones.field = "zones" /\ zones.state = Seen
      BY <1>0, OfIsContent, SeenIsAState
    <2> HIDE DEF clock, zones
    <2>2. /\ \A b \in Time  : new[b] = clock
          /\ \A b \in Zones : new[b] = zones
          /\ \A b \in Bytes \ (Time \cup Zones) : new[b] = RetBuff[t][b]
      BY FieldsAreDisjoint
    <2>3. new \in Packed
      <3>1. RetBuff[t] \in [Bytes -> Contents]
        BY <1>0 DEF AnswersTypeOK, Packed
      <3> QED BY <2>1, <3>1 DEF Packed
    <2> HIDE DEF new
    <2>4. /\ RetBuff' \in [Sockets -> Packed] /\ RetBuff'[t] = new
          /\ \A u \in Sockets \ {t} : RetBuff'[u] = RetBuff[u]
      BY <1>0, <1>2, <2>3 DEF AnswersTypeOK
    <2>5. pc'[t] = "gsm"
      BY <1>0, <1>2 DEF Goto
    <2>6. TimeIsPut(t)' /\ FoneIsPrefix(t)'
      <3>1. \A b \in Fone : RetBuff'[t][b] = RetBuff[t][b]
        BY <2>2, <2>4, FieldsAreDisjoint
      <3>2. FoneIsPrefix(t)'
        BY <1>0, <3>1 DEF FoneIsPrefix
      <3> QED BY <2>1, <2>2, <2>4, <3>2 DEF TimeIsPut
    <2>7. Fields(t)'
      BY <2>5, <2>6 DEF Fields
    <2>8. InTransaction => \A b \in Bytes : \/ RetBuff'[t][b] = RetBuff[t][b]
                                            \/ RetBuff'[t][b].state \in {0, view'}
      <3>1. UNCHANGED db
        BY DEF SelectZones
      <3>2. InTransaction => view' = Seen
        BY <1>0, <1>2, <3>1, ViewStays
      <3> QED BY <2>1, <2>2, <2>4, <3>2
    <2> QED BY <1>2, <2>4, <2>7, <2>8, ThreadStep DEF SelectZones, OptionsSteps
  <1> QED BY <1>1, <1>2 DEF SelectZones

LEMMA SelectGsmKeeps ==
  ASSUME AnswersInv, NEW t \in Sockets, SelectGsm(t)
  PROVE  AnswersInv'
  <1>0. /\ AnswersTypeOK /\ FoneIsPrefix(t) /\ TimeIsPut(t)
        /\ pc \in [Sockets -> OptionsSteps]
    BY DEF AnswersInv, Fields, AnswersTypeOK, SelectGsm
  <1> DEFINE gsm == Of("gsm", Seen)
  <1>1. CASE Fail(t)
    BY <1>1, FailKeeps DEF SelectGsm
  <1>2. CASE /\ Reads /\ Intact /\ UNCHANGED ended
             /\ Goto(t, "send") /\ Put(t, Gsm, gsm)
    <2>1. gsm \in Contents /\ gsm.field = "gsm" /\ gsm.state = Seen
      BY <1>0, OfIsContent, SeenIsAState
    <2> HIDE DEF gsm
    <2>2. /\ RetBuff' \in [Sockets -> Packed]
          /\ \A u \in Sockets \ {t} : RetBuff'[u] = RetBuff[u]
          /\ \A b \in Bytes : RetBuff'[t][b] = IF b \in Gsm THEN gsm ELSE RetBuff[t][b]
      BY <1>0, <1>2, <2>1, PutBytes
    <2>3. pc'[t] = "send"
      BY <1>0, <1>2 DEF Goto
    <2>4. \A b \in Time \cup Zones \cup Fone : RetBuff'[t][b] = RetBuff[t][b]
      BY <2>2, FieldsAreDisjoint
    <2>5. FoneIsPrefix(t)'
      BY <1>0, <2>4 DEF FoneIsPrefix
    <2>6. TimeIsPut(t)'
      BY <1>0, <2>4 DEF TimeIsPut
    <2>7. GsmIsPut(t)'
      BY <2>1, <2>2, FieldsAreDisjoint DEF GsmIsPut
    <2>8. Fields(t)'
      BY <2>3, <2>5, <2>6, <2>7 DEF Fields
    <2>9. InTransaction => \A b \in Bytes : \/ RetBuff'[t][b] = RetBuff[t][b]
                                            \/ RetBuff'[t][b].state \in {0, view'}
      <3>1. UNCHANGED db
        BY DEF SelectGsm
      <3>2. InTransaction => view' = Seen
        BY <1>0, <1>2, <3>1, ViewStays
      <3> QED BY <2>1, <2>2, <3>2
    <2> QED BY <1>2, <2>2, <2>8, <2>9, ThreadStep DEF SelectGsm, OptionsSteps
  <1> QED BY <1>1, <1>2 DEF SelectGsm

LEMMA SendKeeps ==
  ASSUME AnswersInv, NEW t \in Sockets, SendOptions(t)
  PROVE  AnswersInv'
  <1>1. /\ RetBuff' = [RetBuff EXCEPT ![t] = [b \in Bytes |-> Zero]]
        /\ Goto(t, "idle") /\ UNCHANGED <<db, configured, ended>> /\ UNCHANGED session
    BY DEF SendOptions
  <1>2. /\ RetBuff' \in [Sockets -> Packed]
        /\ \A u \in Sockets \ {t} : RetBuff'[u] = RetBuff[u]
        /\ \A b \in Bytes : RetBuff'[t][b] = Zero
    BY <1>1, Cleared DEF AnswersInv
  <1>3. pc'[t] = "idle"
    BY <1>1 DEF Goto, AnswersInv, AnswersTypeOK
  <1>4. Fields(t)'
    BY <1>2, <1>3, ZeroIsContent DEF Fields, AllZero
  <1>5. \A b \in Bytes : RetBuff'[t][b].state \in {0, view'}
    BY <1>2, ZeroIsContent
  <1> QED BY <1>1, <1>2, <1>4, <1>5, ThreadStep DEF OptionsSteps

\* A packet that is begun is empty: of any view.
LEMMA StartKeeps ==
  ASSUME AnswersInv, NEW t \in Sockets, StartOptions(t)
  PROVE  AnswersInv'
  <1>1. /\ pc[t] = "idle" /\ pc' = [pc EXCEPT ![t] = "fone"] /\ ended' = ended \ {t}
        /\ UNCHANGED <<db, configured, RetBuff, view, explicit, autocommit>>
    BY DEF StartOptions, Goto, session
  <1>2. AnswersTypeOK'
    BY <1>1 DEF AnswersInv, AnswersTypeOK, OptionsSteps
  <1>3. AllZero(t)
    BY <1>1 DEF AnswersInv, Fields
  <1>4. ASSUME NEW u \in Sockets PROVE Fields(u)'
    <2>1. /\ AllZero(u)' = AllZero(u) /\ FoneIsPrefix(u)' = FoneIsPrefix(u)
          /\ TimeIsPut(u)' = TimeIsPut(u) /\ GsmIsPut(u)' = GsmIsPut(u)
      BY <1>1 DEF AllZero, FoneIsPrefix, TimeIsPut, GsmIsPut
    <2>2. CASE u = t
      BY <1>1, <1>3, <2>1, <2>2 DEF Fields, AnswersInv, AnswersTypeOK
    <2>3. CASE u # t
      BY <1>1, <2>1, <2>3 DEF Fields, AnswersInv, AnswersTypeOK
    <2> QED BY <2>2, <2>3
  <1>5. ASSUME NEW u \in Sockets PROVE Viewed(u)'
    <2>1. CASE u = t
      BY <1>1, <1>3, <2>1, ZeroIsContent DEF Viewed, InOneView, AllZero
    <2>2. CASE u # t
      BY <1>1, <2>2 DEF AnswersInv, Viewed, InOneView, InTransaction
    <2> QED BY <2>1, <2>2
  <1> QED BY <1>2, <1>4, <1>5 DEF AnswersInv

\* Steps that leave the packets alone: they read, or count every thread among
\* those whose transaction has ended, or change the tables.
LEMMA OthersKeep ==
  ASSUME AnswersInv, UNCHANGED <<configured, answers>>,
         \/ UNCHANGED <<db, ended>> /\ (Reads \/ UNCHANGED session)
         \/ /\ UNCHANGED db /\ view' = 0 /\ ended' = Sockets
            /\ explicit' \in BOOLEAN /\ autocommit' \in BOOLEAN
         \/ db' = db + 1 /\ UNCHANGED session /\ UNCHANGED ended
  PROVE  AnswersInv'
  <1>1. pc' = pc /\ RetBuff' = RetBuff
    BY DEF answers
  <1>2. ASSUME NEW u \in Sockets PROVE Fields(u)'
    BY <1>1 DEF AnswersInv, Fields, AllZero, FoneIsPrefix, TimeIsPut, GsmIsPut
  <1>3. CASE UNCHANGED <<db, ended>> /\ (Reads \/ UNCHANGED session)
    <2>1. AnswersTypeOK'
      BY <1>1, <1>3, ViewStays DEF AnswersInv, AnswersTypeOK
    <2>2. ASSUME NEW u \in Sockets PROVE Viewed(u)'
      <3>1. UNCHANGED <<explicit, autocommit, ended>>
        BY <1>3, ViewStays DEF AnswersInv
      <3>2. InTransaction /\ view # 0 => view' = view
        BY <1>3, ViewStays DEF AnswersInv
      <3>3. Viewed(u)
        BY DEF AnswersInv
      <3> QED BY <1>1, <3>1, <3>2, <3>3 DEF Viewed, InOneView, InTransaction
    <2> QED BY <1>2, <2>1, <2>2 DEF AnswersInv
  <1>4. CASE /\ UNCHANGED db /\ view' = 0 /\ ended' = Sockets
             /\ explicit' \in BOOLEAN /\ autocommit' \in BOOLEAN
    BY <1>1, <1>2, <1>4 DEF AnswersInv, AnswersTypeOK, Viewed
  <1>5. CASE db' = db + 1 /\ UNCHANGED session /\ UNCHANGED ended
    BY <1>1, <1>2, <1>5 DEF AnswersInv, AnswersTypeOK, Viewed, InOneView, InTransaction, session
  <1> QED BY <1>3, <1>4, <1>5

LEMMA InitAnswers == Init => AnswersInv
  <1> SUFFICES ASSUME Init PROVE AnswersInv
    OBVIOUS
  <1>1. [b \in Bytes |-> Zero] \in Packed
    BY ZeroIsContent, Zenon DEF Packed
  <1>2. RetBuff \in [Sockets -> Packed] /\ \A t \in Sockets : AllZero(t)
    BY <1>1 DEF Init, AllZero
  <1>3. AnswersTypeOK
    <2>1. explicit \in BOOLEAN /\ autocommit \in BOOLEAN
      BY Zenon DEF Init
    <2>2. db \in Nat \ {0} /\ view \in 0..db /\ configured \in Nat /\ ended \subseteq Sockets
      BY LengthsAssumption DEF Init, Load
    <2>3. pc \in [Sockets -> OptionsSteps]
      BY DEF Init, OptionsSteps
    <2> QED BY <1>2, <2>1, <2>2, <2>3 DEF AnswersTypeOK
  <1>4. ASSUME NEW t \in Sockets PROVE Fields(t)
    BY <1>2 DEF Init, Fields
  <1>5. ASSUME NEW t \in Sockets PROVE Viewed(t)
    BY <1>2, ZeroIsContent DEF Viewed, InOneView, AllZero
  <1> QED BY <1>3, <1>4, <1>5 DEF AnswersInv

LEMMA NextAnswers == AnswersInv /\ [Next]_vars => AnswersInv'
  <1> SUFFICES ASSUME AnswersInv, [Next]_vars PROVE AnswersInv'
    OBVIOUS
  <1>1. ASSUME NEW t \in Sockets, Options(t) PROVE AnswersInv'
    BY <1>1, StartKeeps, SelectFoneKeeps, SelectZonesKeeps, SelectGsmKeeps, SendKeeps DEF Options
  <1>2. ASSUME NEW t \in Sockets, Monitoring(t) PROVE AnswersInv'
    BY <1>2, OthersKeep DEF Monitoring
  <1>3. CASE Change
    BY <1>3, OthersKeep DEF Change
  <1>4. CASE LoseConnection
    BY <1>4, OthersKeep DEF LoseConnection
  <1>5. CASE Energy
    BY <1>5, OthersKeep DEF Energy, Ends, AnswersInv, AnswersTypeOK
  <1>6. CASE Invoce
    <2>1. CASE ScheduledBegin
      BY <2>1, OthersKeep DEF ScheduledBegin, Ends, Throws, AnswersInv, AnswersTypeOK
    <2>2. CASE ScheduledSelect
      BY <2>2, OthersKeep DEF ScheduledSelect, Throws
    <2>3. CASE ScheduledEnd
      BY <2>3, OthersKeep DEF ScheduledEnd, Ends, Throws, AnswersInv, AnswersTypeOK
    <2> QED BY <1>6, <2>1, <2>2, <2>3 DEF Invoce
  <1>7. CASE UNCHANGED vars
    BY <1>7, OthersKeep DEF vars
  <1> QED BY <1>1, <1>2, <1>3, <1>4, <1>5, <1>6, <1>7 DEF Next

LEMMA AnswersInvariant == Spec => []AnswersInv
  BY InitAnswers, NextAnswers, PTL DEF Spec

\* The session never sees a state of the tables they have not had, and every
\* variable of the answers keeps its type.
THEOREM AnswersTypeCorrect == Spec => []AnswersTypeOK
  BY AnswersInvariant, PTL DEF AnswersInv

\* However many controllers ask and changes are made, the parts of an options
\* packet are of one state of the tables unless something in OneState's list
\* came between its SELECTs.
THEOREM OptionsAreOfOneState == Spec => []OneState
  <1>1. AnswersInv => OneState
    BY DEF AnswersInv, Viewed, InOneView, InTransaction, OneState
  <1> QED BY <1>1, AnswersInvariant, PTL

\* A number of any length the packet has room for leaves the fields around its
\* own whole.
THEOREM OptionsAreWhole == Spec => []FieldsAreWhole
  <1>1. AnswersInv => FieldsAreWhole
    BY DEF AnswersInv, Fields, FoneIsPrefix, TimeIsPut, GsmIsPut, FieldsAreWhole
  <1> QED BY <1>1, AnswersInvariant, PTL
=============================================================================
