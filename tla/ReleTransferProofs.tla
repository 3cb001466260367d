------------------------- MODULE ReleTransferProofs -------------------------
(***************************************************************************)
(* Proofs about ReleTransfer for every size of packet, word and result.    *)
(***************************************************************************)
EXTENDS ReleTransfer, TLAPS

USE BatchAssumption, WordAssumption, RowsAssumption

LEMMA ModuloIsAWord == ASSUME NEW x \in Int PROVE x % Word \in 0..(Word - 1)
  BY SMT

LEMMA ModuloOfAWord == ASSUME NEW x \in 0..(Word - 1) PROVE x % Word = x
  BY SMT

\* Lists of rows: what Append builds.
LEMMA AppendKeepsType ==
  ASSUME NEW S, NEW s \in Seq(S), NEW e \in S
  PROVE  Append(s, e) \in Seq(S)
  OBVIOUS

LEMMA InitTypeOK == Init => TypeOK
  BY DEF Init, TypeOK, Steps, Final

LEMMA NextTypeOK == TypeOK /\ [Next]_vars => TypeOK'
  <1> SUFFICES ASSUME TypeOK, [Next]_vars PROVE TypeOK'
    OBVIOUS
  <1> USE DEF TypeOK, Steps, Final, counters
  <1>1. CASE Select
    BY <1>1 DEF Select
  <1>2. CASE NextBatch
    <2> DEFINE rows == IF ((recIncrem + 1) * Batch) % Word < nRecords
                         THEN Batch
                         ELSE (nRecords - recIncrem * Batch) % Word
    <2>1. recIncrem * Batch \in Int
      BY SMT
    <2>2. (nRecords - recIncrem * Batch) % Word \in 0..(Word - 1)
      <3>1. nRecords - recIncrem * Batch \in Int
        BY <2>1
      <3> QED BY <3>1, ModuloIsAWord
    <2>3. rows \in 0..(Word - 1)
      BY <2>2
    <2> HIDE DEF rows
    <2>4. SizePacket(rows)
      BY <1>2 DEF NextBatch, rows
    <2> QED BY <2>3, <2>4 DEF SizePacket
  <1>3. CASE FetchRow
    <2>1. (recIncrem + 1) % Word \in 0..(Word - 1)
      <3>1. recIncrem + 1 \in Int
        OBVIOUS
      <3> QED BY <3>1, ModuloIsAWord
    <2>2. fetched' \in 1..MaxRows /\ fetched' = fetched + 1
      BY <1>3 DEF FetchRow
    <2>3. Append(packet, fetched + 1) \in Seq(1..MaxRows)
      BY <2>2, AppendKeepsType
    <2>4. packet' \in Seq(1..MaxRows) /\ recIncrem' \in 0..(Word - 1) /\ pc' \in Steps
      BY <1>3, <2>1, <2>3 DEF FetchRow
    <2>5. UNCHANGED <<result, nRecords, nrec, nrecmax, sent, answer>>
      BY <1>3 DEF FetchRow
    <2> QED BY <2>2, <2>4, <2>5
  <1>4. CASE FetchNull
    BY <1>4 DEF FetchNull
  <1>5. CASE Send
    <2> DEFINE Packets == [room : 0..(Word - 1), rows : Seq(1..MaxRows)]
               full    == [room |-> nrecmax, rows |-> packet]
    <2>1. full \in Packets /\ sent \in Seq(Packets)
      OBVIOUS
    <2>2. sent' = Append(sent, full) \/ sent' = sent
      BY <1>5, Zenon DEF Send
    <2> HIDE DEF Packets, full
    <2>3. sent' \in Seq(Packets)
      <3>1. Append(sent, full) \in Seq(Packets)
        BY <2>1, AppendKeepsType, Zenon
      <3> QED BY <2>1, <2>2, <3>1, Zenon
    <2>4. pc' \in Steps /\ UNCHANGED <<result, nRecords, fetched, counters, packet, answer>>
      BY <1>5 DEF Send
    <2> QED BY <2>3, <2>4 DEF Packets
  <1>6. CASE Answer
    BY <1>6 DEF Answer
  <1>7. CASE EndOfBatch
    <2>1. (nrec + Batch) % Word \in 0..(Word - 1)
      <3>1. nrec + Batch \in Int
        OBVIOUS
      <3> QED BY <3>1, ModuloIsAWord
    <2> QED BY <1>7, <2>1 DEF EndOfBatch
  <1>8. CASE UNCHANGED vars
    BY <1>8 DEF vars
  <1> QED BY <1>1, <1>2, <1>3, <1>4, <1>5, <1>6, <1>7, <1>8 DEF Next

\* Every variable of the handler keeps its type; the counters stay words
\* although their differences wrap.
THEOREM TypeCorrect == Spec => []TypeOK
  BY InitTypeOK, NextTypeOK, PTL DEF Spec

-----------------------------------------------------------------------------
(* A result smaller than a packet: where the handler is says what has been *)
(* fetched, packed and sent.                                               *)

Small == nRecords < Batch
Whole == [room |-> nRecords, rows |-> [i \in 1..nRecords |-> i]]

Untouched == recIncrem = 0 /\ nrec = 0 /\ sent = <<>> /\ answer = "none"
Packed    == Len(packet) = fetched /\ \A i \in 1..fetched : packet[i] = i
Waiting   == nrecmax = nRecords /\ nrec = 0 /\ sent = <<>> /\ answer = "none"

SmallInv ==
  /\ pc = "select" => Untouched /\ fetched = 0
  /\ pc = "batch" /\ Small => Untouched /\ fetched = 0 /\ result = "rows"
  /\ pc = "fetch" /\ Small => Waiting /\ Packed /\ result = "rows"
  /\ pc = "send" /\ Small => Waiting /\ Packed /\ fetched = nRecords
  /\ pc \in {"answer", "next"} /\ Small => nrec = 0
  /\ pc \in {"answer", "next", "done"} /\ Small => sent = <<>> \/ sent = <<Whole>>
  /\ SmallTransferIsSafe

LEMMA InitSmall == Init => SmallInv
  BY DEF Init, SmallInv, Untouched, SmallTransferIsSafe

LEMMA NextSmall == TypeOK /\ SmallInv /\ [Next]_vars => SmallInv'
  <1> SUFFICES ASSUME TypeOK, SmallInv, [Next]_vars PROVE SmallInv'
    OBVIOUS
  <1> USE DEF SmallInv, Small, Whole, SmallTransferIsSafe, counters
  <1>1. CASE Select
    BY <1>1 DEF Select, Untouched
  <1>2. CASE NextBatch
    <2>1. nRecords \in 0..MaxRows /\ 0 * Batch = 0
      BY DEF TypeOK
    <2>2. ASSUME Small PROVE SizePacket(nRecords)
      <3>1. recIncrem = 0
        BY <1>2, <2>2 DEF NextBatch, SizePacket, Untouched
      <3>2. ((recIncrem + 1) * Batch) % Word = Batch
        BY <3>1, ModuloOfAWord
      <3>3. (nRecords - recIncrem * Batch) % Word = nRecords
        BY <2>1, <3>1, ModuloOfAWord
      <3> QED BY <1>2, <2>1, <2>2, <3>2, <3>3 DEF NextBatch
    <2>3. CASE Small
      BY <2>1, <2>2, <2>3 DEF SizePacket, Untouched, Waiting, Packed
    <2>4. CASE ~ Small
      BY <1>2, <2>1, <2>4 DEF NextBatch, SizePacket
    <2> QED BY <2>3, <2>4
  <1>3. CASE FetchRow
    <2>1. CASE Small
      <3>1. /\ Len(packet) = fetched /\ nrecmax = nRecords
            /\ fetched \in 0..nRecords /\ nRecords \in 0..MaxRows
            /\ fetched < nRecords /\ packet \in Seq(1..MaxRows)
        BY <1>3, <2>1 DEF FetchRow, Waiting, Packed, TypeOK
      <3>2. LengthFor(nrecmax) = 18 + 4 * nrecmax
        <4>1. 18 + 4 * nrecmax \in 0..(Word - 1)
          BY <2>1, <3>1
        <4> QED BY <4>1, ModuloOfAWord DEF LengthFor
      <3>3. SlotEnd(Len(packet) + 1) <= LengthFor(nrecmax)
        BY <3>1, <3>2 DEF SlotEnd
      <3>4. packet' = Append(packet, fetched + 1) /\ fetched' = fetched + 1
        BY <1>3, <3>3 DEF FetchRow
      <3>5. Packed'
        BY <1>3, <2>1, <3>1, <3>4 DEF Packed, FetchRow
      <3> QED BY <1>3, <2>1, <3>3, <3>5 DEF FetchRow, Waiting
    <2>2. CASE ~ Small
      BY <1>3, <2>2 DEF FetchRow, TypeOK
    <2> QED BY <2>1, <2>2
  <1>4. CASE FetchNull
    BY <1>4 DEF FetchNull, Waiting, Packed, TypeOK
  <1>5. CASE Send
    <2>1. CASE Small
      <3>1. packet = [i \in 1..nRecords |-> i]
        BY <1>5, <2>1 DEF Send, Waiting, Packed, TypeOK
      <3> QED BY <1>5, <2>1, <3>1 DEF Send, Waiting
    <2>2. CASE ~ Small
      BY <1>5, <2>2 DEF Send
    <2> QED BY <2>1, <2>2
  <1>6. CASE Answer
    <2>1. pc = "answer" /\ UNCHANGED <<nRecords, nrec, sent>>
      BY <1>6 DEF Answer
    <2>2. \/ pc' = "next"
          \/ pc' = "undefined" /\ answer' \in {"misfit", "cut"}
      BY <1>6 DEF Answer
    <2>3. CASE pc' = "next"
      BY <2>1, <2>3
    <2>4. CASE pc' = "undefined" /\ answer' \in {"misfit", "cut"}
      BY <2>4
    <2> QED BY <2>2, <2>3, <2>4
  <1>7. CASE EndOfBatch
    <2>1. Small => nrec = 0 /\ Batch % Word = Batch
      BY <1>7, ModuloOfAWord DEF EndOfBatch, TypeOK
    <2>2. pc = "next" /\ pc' \in {"batch", "done"} /\ UNCHANGED <<nRecords, sent>>
      BY <1>7 DEF EndOfBatch
    <2>3. Small => pc' = "done"
      BY <1>7, <2>1 DEF EndOfBatch, TypeOK
    <2> QED BY <2>2, <2>3
  <1>8. CASE UNCHANGED vars
    BY <1>8 DEF vars, Untouched, Waiting, Packed
  <1> QED BY <1>1, <1>2, <1>3, <1>4, <1>5, <1>6, <1>7, <1>8 DEF Next

\* Every result with fewer rows than a packet holds is transferred inside
\* RetBuff and without touching a freed result, if the answer has the length of
\* an energy packet: a shorter one is read behind its end.
THEOREM SmallTransfersAreSafe == Spec => []SmallTransferIsSafe
  <1>1. SmallInv => SmallTransferIsSafe
    BY DEF SmallInv
  <1> QED BY InitSmall, NextSmall, TypeCorrect, <1>1, PTL DEF Spec

\* Such a result is sent completely and in order, or not at all.
THEOREM SmallTransfersAreComplete == Spec => []AllRowsOrNone
  <1>1. SmallInv => AllRowsOrNone
    BY DEF SmallInv, AllRowsOrNone, Small, Whole
  <1> QED BY InitSmall, NextSmall, TypeCorrect, <1>1, PTL DEF Spec

-----------------------------------------------------------------------------
(* A result of any size.  One larger than a packet fills the first and     *)
(* runs over it; one of exactly Batch rows is sent, and a second packet    *)
(* behind it, without rows and, since its size has wrapped, with room for  *)
(* none of a legal size.                                                   *)

\* The first packet, before and after its rows are in it.
First(room) ==
  /\ nrec = 0 /\ fetched = recIncrem /\ Len(packet) = fetched
  /\ fetched <= Batch
  /\ nRecords <= Batch => room = nRecords
  /\ nRecords > Batch => room = Batch

\* The packet behind a full one.
Second == nrec = Batch /\ nRecords = Batch /\ fetched = Batch /\ recIncrem = Batch

\* Room of a packet without rows: none, or more than a legal packet has.
Oversized(room) == room = 0 \/ room > Batch

SlotInv ==
  /\ pc = "select" => fetched = 0 /\ recIncrem = 0 /\ nrec = 0
  /\ pc = "batch" => \/ Second
                     \/ fetched = 0 /\ recIncrem = 0 /\ nrec = 0
  /\ pc \in {"fetch", "send"} =>
       \/ First(nrecmax)
       \/ Second /\ packet = <<>> /\ Oversized(nrecmax)
  /\ pc = "send" => fetched = nRecords
  /\ pc \in {"answer", "next"} =>
       fetched = nRecords /\ recIncrem = fetched /\ ((nrec = 0 /\ fetched <= Batch) \/ Second)
  /\ NoEmptySlot

\* A result larger than a packet: no packet of it is sent.
LargeIsUnsent == nRecords > Batch => sent = <<>>

LEMMA InitSlots == Init => SlotInv
  BY DEF Init, SlotInv, NoEmptySlot

\* The room of the first packet, and of the one behind a full one.
LEMMA FirstRoom ==
  ASSUME TypeOK, recIncrem = 0
  PROVE  /\ ((recIncrem + 1) * Batch) % Word = Batch
         /\ (nRecords - recIncrem * Batch) % Word = nRecords
  <1>1. (recIncrem + 1) * Batch = Batch /\ nRecords - recIncrem * Batch = nRecords
    BY DEF TypeOK
  <1>2. Batch \in 0..(Word - 1) /\ nRecords \in 0..(Word - 1)
    BY DEF TypeOK
  <1>3. Batch % Word = Batch /\ nRecords % Word = nRecords
    BY <1>2, ModuloOfAWord
  <1> QED BY <1>1, <1>3

LEMMA SecondRoom ==
  ASSUME Second
  PROVE  /\ ((recIncrem + 1) * Batch) % Word >= nRecords
         /\ Oversized((nRecords - recIncrem * Batch) % Word)
  <1>1. Batch * Batch \in Nat /\ Batch * Batch >= Batch /\ Batch * Batch + Batch < Word
    BY SquareAssumption
  <1>2. ((recIncrem + 1) * Batch) % Word = Batch * Batch + Batch
    <2>1. (recIncrem + 1) * Batch = Batch * Batch + Batch
      BY DEF Second
    <2> QED BY <1>1, <2>1, ModuloOfAWord
  <1>3. (nRecords - recIncrem * Batch) % Word = (Batch - Batch * Batch) % Word
    BY DEF Second
  <1>4. CASE Batch * Batch = Batch
    BY <1>1, <1>2, <1>3, <1>4, ModuloOfAWord DEF Second, Oversized
  <1>5. CASE Batch * Batch > Batch
    <2>1. (Batch - Batch * Batch) % Word = Word + Batch - Batch * Batch
      <3> DEFINE x == Batch - Batch * Batch
      <3>1. x \in Int /\ x < 0 /\ x + Word > 0
        BY <1>1, <1>5
      <3> HIDE DEF x
      <3>2. x % Word = x + Word
        BY <3>1, SMT
      <3> QED BY <3>2, <1>1 DEF x
    <2> QED BY <1>1, <1>2, <1>3, <2>1 DEF Second, Oversized
  <1> QED BY <1>1, <1>4, <1>5

LEMMA NextSlots == TypeOK /\ SlotInv /\ [Next]_vars => SlotInv'
  <1> SUFFICES ASSUME TypeOK, SlotInv, [Next]_vars PROVE SlotInv'
    OBVIOUS
  <1> USE DEF SlotInv, counters
  <1>1. CASE Select
    BY <1>1 DEF Select, NoEmptySlot
  <1>2. CASE NextBatch
    <2>1. CASE Second
      <3>1. SizePacket((nRecords - recIncrem * Batch) % Word)
        BY <1>2, <2>1, SecondRoom DEF NextBatch, TypeOK
      <3> QED BY <2>1, <3>1, SecondRoom DEF SizePacket, Second, NoEmptySlot
    <2>2. CASE ~ Second
      <3>1. recIncrem = 0 /\ fetched = 0 /\ nrec = 0
        BY <1>2, <2>2 DEF NextBatch, SizePacket
      <3>2. SizePacket(IF Batch < nRecords THEN Batch ELSE nRecords)
        BY <1>2, <3>1, FirstRoom DEF NextBatch
      <3> QED BY <3>1, <3>2 DEF SizePacket, First, NoEmptySlot, TypeOK
    <2> QED BY <2>1, <2>2
  <1>3. CASE FetchRow
    <2>1. First(nrecmax) /\ fetched < nRecords
      BY <1>3 DEF FetchRow, Second
    <2>2. LengthFor(nrecmax) = 18 + 4 * nrecmax /\ nrecmax <= Batch
      <3>1. nrecmax <= Batch /\ 18 + 4 * nrecmax \in 0..(Word - 1)
        BY <2>1 DEF First, TypeOK
      <3> QED BY <3>1, ModuloOfAWord DEF LengthFor
    <2>3. CASE SlotEnd(Len(packet) + 1) <= LengthFor(nrecmax)
      <3>1. fetched + 1 <= nrecmax
        BY <2>1, <2>2, <2>3 DEF First, SlotEnd, TypeOK
      <3>2. (recIncrem + 1) % Word = recIncrem + 1
        BY <2>1, <2>2, <3>1, ModuloOfAWord DEF First, TypeOK
      <3>3. /\ fetched' = fetched + 1 /\ recIncrem' = recIncrem + 1
            /\ packet' = Append(packet, fetched + 1)
            /\ UNCHANGED <<pc, nRecords, nrec, nrecmax, sent>>
        BY <1>3, <2>3, <3>2 DEF FetchRow
      <3>4. First(nrecmax)'
        BY <2>1, <2>2, <3>1, <3>3 DEF First, TypeOK
      <3> QED BY <1>3, <3>3, <3>4 DEF FetchRow, NoEmptySlot
    <2>4. CASE ~ (SlotEnd(Len(packet) + 1) <= LengthFor(nrecmax))
      BY <1>3, <2>4 DEF FetchRow, NoEmptySlot
    <2> QED BY <2>3, <2>4
  <1>4. CASE FetchNull
    BY <1>4 DEF FetchNull, First, Second, NoEmptySlot
  <1>5. CASE Send
    <2> DEFINE full == [room |-> nrecmax, rows |-> packet]
    <2>1. nrecmax <= Batch => Len(packet) = nrecmax
      BY <1>5 DEF Send, First, Second, Oversized, TypeOK
    <2>2. ASSUME sent' = Append(sent, full) PROVE NoEmptySlot'
      BY <2>1, <2>2 DEF NoEmptySlot, TypeOK
    <2>3. NoEmptySlot'
      BY <1>5, <2>2 DEF Send, NoEmptySlot
    <2>4. pc' \in {"answer", "next"} /\ UNCHANGED <<nRecords, fetched, recIncrem, nrec>>
      BY <1>5 DEF Send
    <2>5. fetched = nRecords /\ recIncrem = fetched /\ ((nrec = 0 /\ fetched <= Batch) \/ Second)
      BY <1>5 DEF Send, First, Second
    <2> QED BY <2>3, <2>4, <2>5 DEF Second
  <1>6. CASE Answer
    BY <1>6 DEF Answer, Second, NoEmptySlot
  <1>7. CASE EndOfBatch
    <2>1. (nrec + Batch) % Word = nrec + Batch
      <3>1. nrec + Batch \in 0..(Word - 1)
        BY <1>7 DEF EndOfBatch, Second
      <3> QED BY <3>1, ModuloOfAWord
    <2> QED BY <1>7, <2>1 DEF EndOfBatch, Second, NoEmptySlot, TypeOK
  <1>8. CASE UNCHANGED vars
    BY <1>8 DEF vars, First, Second, NoEmptySlot
  <1> QED BY <1>1, <1>2, <1>3, <1>4, <1>5, <1>6, <1>7, <1>8 DEF Next

\* Whatever the number of rows, a packet of legal size has a row in every slot.
THEOREM SlotsAreFilled == Spec => []NoEmptySlot
  <1>1. SlotInv => NoEmptySlot
    BY DEF SlotInv
  <1> QED BY InitSlots, NextSlots, TypeCorrect, <1>1, PTL DEF Spec

\* A result of more rows than a packet holds does not reach the controller at
\* all: the handler writes behind RetBuff before it has a packet to send.
THEOREM LargeResultsAreNotSent == Spec => []LargeIsUnsent
  <1> DEFINE Inv == (pc = "select" => sent = <<>>) /\ LargeIsUnsent
  <1> USE DEF LargeIsUnsent
  <1>1. Init => Inv
    BY DEF Init
  <1>2. TypeOK /\ SlotInv /\ Inv /\ [Next]_vars => Inv'
    <2> SUFFICES ASSUME TypeOK, SlotInv, Inv, [Next]_vars PROVE Inv'
      OBVIOUS
    <2>1. CASE Send
      <3>1. ~ (nRecords > Batch)
        BY <2>1 DEF Send, SlotInv, First, Second, TypeOK
      <3> QED BY <2>1, <3>1 DEF Send
    <2>2. CASE Select \/ NextBatch
      BY <2>2 DEF Select, NextBatch, SizePacket
    <2>3. CASE FetchRow \/ FetchNull \/ Answer \/ EndOfBatch
      BY <2>3 DEF FetchRow, FetchNull, Answer, EndOfBatch
    <2>4. CASE UNCHANGED vars
      BY <2>4 DEF vars
    <2> QED BY <2>1, <2>2, <2>3, <2>4 DEF Next
  <1>3. Inv => LargeIsUnsent
    OBVIOUS
  <1> QED BY InitSlots, NextSlots, TypeCorrect, <1>1, <1>2, <1>3, PTL DEF Spec
-----------------------------------------------------------------------------
(* A transfer ends: at most so many steps are left of it.                  *)

\* No more rows are fetched than there are.
FetchedInv == fetched <= nRecords /\ (pc = "select" => fetched = 0)

PassLeft == IF nrec = 0 THEN 10 ELSE 0
RowsLeft == nRecords - fetched

StepsLeft ==
  CASE pc = "select" -> MaxRows + 16
    [] pc = "batch"  -> PassLeft + RowsLeft + 5
    [] pc = "fetch"  -> PassLeft + RowsLeft + 4
    [] pc = "send"   -> PassLeft + RowsLeft + 3
    [] pc = "answer" -> PassLeft + RowsLeft + 2
    [] pc = "next"   -> PassLeft + RowsLeft + 1
    [] OTHER         -> 0

CountsDown == StepsLeft' \in Nat /\ StepsLeft' < StepsLeft

\* Whatever the result and the controller's answers, every step of the handler
\* brings the transfer nearer to its end, which is at most MaxRows + 16 steps
\* away: after two packets nrec has passed the number of rows or the handler has
\* left the loop.  TransferEnds needs only that the steps are taken.
THEOREM TransfersCountDown == Spec => [][CountsDown]_vars
  <1>1. Init => FetchedInv
    BY DEF Init, FetchedInv
  <1>2. TypeOK /\ FetchedInv /\ [Next]_vars => FetchedInv'
    <2> SUFFICES ASSUME TypeOK, FetchedInv, [Next]_vars PROVE FetchedInv'
      OBVIOUS
    <2> USE DEF FetchedInv, TypeOK
    <2>1. CASE Select
      BY <2>1 DEF Select
    <2>2. CASE FetchRow
      BY <2>2 DEF FetchRow
    <2>3. CASE NextBatch \/ FetchNull \/ Send \/ Answer \/ EndOfBatch
      BY <2>3 DEF NextBatch, SizePacket, FetchNull, Send, Answer, EndOfBatch
    <2>4. CASE UNCHANGED vars
      BY <2>4 DEF vars
    <2> QED BY <2>1, <2>2, <2>3, <2>4 DEF Next
  <1>3. TypeOK /\ SlotInv /\ FetchedInv /\ [Next]_vars => [CountsDown]_vars
    <2> SUFFICES ASSUME TypeOK, SlotInv, FetchedInv, Next PROVE CountsDown
      OBVIOUS
    <2>1. /\ nRecords \in 0..MaxRows /\ fetched \in 0..MaxRows /\ nrec \in 0..(Word - 1)
          /\ fetched <= nRecords
      BY DEF TypeOK, FetchedInv
    <2> USE DEF CountsDown, StepsLeft
    <2>2. CASE Select
      <3>1. pc = "select" /\ pc' \in {"batch", "done"}
        BY <2>2 DEF Select
      <3>2. fetched' = 0 /\ nRecords' \in 0..MaxRows
        BY <2>1, <2>2, <3>1 DEF Select, FetchedInv
      <3>3. RowsLeft' \in 0..MaxRows /\ PassLeft' \in {0, 10}
        <4> HIDE DEF StepsLeft, CountsDown
        <4>1. PICK r \in 0..MaxRows : nRecords' = r
          BY <3>2
        <4>2. RowsLeft' = r
          <5>1. RowsLeft' = r - 0
            BY <3>2, <4>1 DEF RowsLeft
          <5>2. r \in Int
            OBVIOUS
          <5> QED BY <5>1, <5>2
        <4> QED BY <4>2 DEF PassLeft
      <3> HIDE DEF RowsLeft, PassLeft
      <3>4. MaxRows \in Nat
        OBVIOUS
      <3> QED BY <3>1, <3>3, <3>4
    <2>0. RowsLeft \in Nat /\ PassLeft \in {0, 10}
      BY <2>1 DEF RowsLeft, PassLeft
    <2>3. CASE NextBatch
      <3>1. RowsLeft' = RowsLeft /\ PassLeft' = PassLeft
        BY <2>3 DEF NextBatch, SizePacket, RowsLeft, PassLeft
      <3>2. pc = "batch" /\ pc' \in {"fetch", "done", "aborted"}
        BY <2>3 DEF NextBatch, SizePacket
      <3> QED BY <2>0, <3>1, <3>2
    <2>4. CASE FetchRow
      <3>1. RowsLeft' \in Nat /\ RowsLeft' = RowsLeft - 1 /\ PassLeft' = PassLeft
        BY <2>1, <2>4 DEF FetchRow, RowsLeft, PassLeft
      <3>2. pc = "fetch" /\ pc' \in {"fetch", "undefined"}
        BY <2>4 DEF FetchRow
      <3> QED BY <2>0, <3>1, <3>2
    <2>5. CASE FetchNull
      <3>1. RowsLeft' = RowsLeft /\ PassLeft' = PassLeft
        BY <2>5 DEF FetchNull, counters, RowsLeft, PassLeft
      <3>2. pc = "fetch" /\ pc' \in {"send", "undefined"}
        BY <2>5 DEF FetchNull
      <3> QED BY <2>0, <3>1, <3>2
    <2>6. CASE Send \/ Answer
      <3>1. RowsLeft' = RowsLeft /\ PassLeft' = PassLeft
        BY <2>6 DEF Send, Answer, counters, RowsLeft, PassLeft
      <3>2. \/ pc = "send" /\ pc' \in {"answer", "next"}
            \/ pc = "answer" /\ pc' \in {"next", "undefined"}
        BY <2>6 DEF Send, Answer
      <3> QED BY <2>0, <3>1, <3>2
    <2>7. CASE EndOfBatch
      <3>1. fetched = nRecords /\ ((nrec = 0 /\ fetched <= Batch) \/ Second)
        BY <2>7 DEF EndOfBatch, SlotInv
      <3>2. Batch \in 1..(Word - 1) /\ 2 * Batch \in 0..(Word - 1)
        OBVIOUS
      <3>3. CASE nrec = 0
        <4>1. nrec + Batch \in 0..(Word - 1) /\ nrec + Batch = Batch
          BY <3>2, <3>3
        <4>2. nrec' = Batch
          BY <2>7, <4>1, ModuloOfAWord DEF EndOfBatch
        <4> QED BY <2>1, <2>7, <3>2, <3>3, <4>2 DEF EndOfBatch, RowsLeft, PassLeft
      <3>4. CASE Second
        <4>1. nrec + Batch \in 0..(Word - 1)
          BY <3>2, <3>4 DEF Second
        <4>2. nrec' = nrec + Batch
          BY <2>7, <4>1, ModuloOfAWord DEF EndOfBatch
        <4>3. nrec' > nRecords
          BY <3>2, <3>4, <4>2 DEF Second
        <4> QED BY <2>1, <2>7, <4>3 DEF EndOfBatch, RowsLeft, PassLeft
      <3> QED BY <3>1, <3>3, <3>4
    <2> QED BY <2>2, <2>3, <2>4, <2>5, <2>6, <2>7 DEF Next
  <1> QED BY InitSlots, NextSlots, TypeCorrect, <1>1, <1>2, <1>3, PTL DEF Spec
=============================================================================
