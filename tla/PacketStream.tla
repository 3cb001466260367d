---------------------------- MODULE PacketStream ----------------------------
(***************************************************************************)
(* What a controller writes reaches the daemon as a stream of bytes in     *)
(* pieces of any size.  generic_socket::recv reads a number of bytes from  *)
(* it and recieve_data_packet a packet: three bytes with its length, then  *)
(* the rest, with a CRC over all of it.                                    *)
(*                                                                         *)
(* A byte is its position in the stream; a packet is the stretch it takes. *)
(***************************************************************************)
EXTENDS Integers, Sequences

CONSTANTS
  Packets,     \* what may reach the daemon for a packet: records
  MaxPackets,  \* bound: packets written on one connection
  Word         \* 2^16: PacketDataLength is a uint16_t

BeginDataTransferLen    == 4
ContinueDataTransferLen == 3

\* size: bytes written; declared: the length in its second and third byte;
\* intact: the CRC at its end is right; genuine: no byte was changed on the way.
\* A packet of nothing but a length is never well formed: its CRC would be the
\* length, and 3 is the CRC of no byte.
ASSUME WordAssumption == Word \in Nat /\ Word > BeginDataTransferLen
ASSUME PacketsAssumption ==
  \A p \in Packets : /\ p.size \in ContinueDataTransferLen..(Word - 1)
                     /\ p.declared \in 0..(Word - 1)
                     /\ p.intact \in BOOLEAN /\ p.genuine \in BOOLEAN
                     /\ p.intact /\ p.declared = p.size => p.size > ContinueDataTransferLen

VARIABLES
  written,   \* the packets the controller has written, with their first byte
  length,    \* bytes it has written, the header among them
  closed,    \* it has closed the connection
  arrived,   \* bytes that have reached the socket
  taken,     \* bytes ::recv has returned
  reading,   \* the call of recv the thread is in, or what came of the packet
  want,      \* bytes_to_receive_count
  got,       \* received_bytes_count
  start,     \* first byte of the packet being read
  accepted,  \* packets for which recieve_data_packet returned true
  cause,     \* why reading stopped
  torn       \* a piece ended inside the header or inside a length

stream     == <<written, length, closed, arrived>>
call       == <<want, got>>
streamVars == <<stream, taken, reading, call, start, accepted, cause, torn>>

Receiving == {"header", "length", "body"}
Causes    == {"none", "silence", "closed", "overread", "empty", "crc"}

WellFormed(p) == p.intact /\ p.declared = p.size
End(p)        == p.first + p.size

-----------------------------------------------------------------------------
(* The controller and the network.                                         *)

Write(p) ==
  /\ ~ closed
  /\ Len(written) < MaxPackets
  /\ written' = Append(written, [first |-> length, size |-> p.size,
                                 declared |-> p.declared, intact |-> p.intact,
                                 genuine |-> p.genuine])
  /\ length' = length + p.size
  /\ UNCHANGED <<closed, arrived, taken, reading, call, start, accepted, cause, torn>>

Close ==
  /\ ~ closed
  /\ closed' = TRUE
  /\ UNCHANGED <<written, length, arrived, taken, reading, call, start, accepted, cause, torn>>

Arrive ==
  /\ reading # "refused"
  /\ arrived' \in (arrived + 1)..length
  /\ UNCHANGED <<written, length, closed, taken, reading, call, start, accepted, cause, torn>>

-----------------------------------------------------------------------------
(* generic_socket::recv.                                                   *)

Refuse(why) == reading' = "refused" /\ cause' = why

\* Calls recv for count bytes; no bytes is an exception.
StartRecv(step, count) ==
  /\ want' = count
  /\ got' = 0
  /\ IF count = 0 THEN Refuse("empty") ELSE reading' = step /\ UNCHANGED cause

\* PacketDataLength: the bytes behind the three read, modulo a uint16_t.
RestOfPacket(declared) == (declared - ContinueDataTransferLen) % Word

\* The caller's next step once recv has returned want bytes.
Received ==
  \/ reading = "header" /\ reading' = "idle" /\ UNCHANGED <<call, cause>>
  \/ reading = "length" /\ \E i \in DOMAIN written :
                         /\ written[i].first = start
                         /\ StartRecv("body", RestOfPacket(written[i].declared))
  \/ reading = "body" /\ reading' = "check" /\ UNCHANGED <<call, cause>>

\* One ::recv that finds bytes takes what there is, up to count of them.
TakeUpTo(count) ==
  /\ reading \in Receiving
  /\ taken < arrived
  /\ LET piece == IF arrived - taken < count THEN arrived - taken ELSE count
         all   == got + piece
     IN  /\ taken' = taken + piece
         /\ \/ /\ all < want
               /\ got' = all
               /\ torn' = (torn \/ reading # "body")
               /\ UNCHANGED <<reading, want, cause>>
            \/ /\ all = want
               /\ Received
               /\ UNCHANGED torn
            \/ /\ all > want
               /\ Refuse("overread")
               /\ UNCHANGED <<call, torn>>
  /\ UNCHANGED <<stream, start, accepted>>

\* Mutant: a fixed buffer is read whatever the count.
RecvFillsBuffer == TakeUpTo(16)

\* Every ::recv of the loop is given the whole count, not what is missing: the
\* second of them may return bytes behind those recv was asked for.
Recv == TakeUpTo(want)

\* Mutant: the end of the stream does not leave the loop.
RecvEndLoops ==
  /\ reading \in Receiving
  /\ closed /\ taken = length
  /\ UNCHANGED streamVars

\* ::recv returns 0: the loop is left, the count is not reached.
RecvEnd ==
  /\ reading \in Receiving
  /\ closed /\ taken = length
  /\ Refuse("closed")
  /\ UNCHANGED <<stream, taken, call, start, accepted, torn>>

\* SO_RCVTIMEO passes without a byte, or the connection breaks: -1.
RecvFails ==
  /\ reading \in Receiving
  /\ taken = arrived
  /\ ~ (closed /\ taken = length)
  /\ Refuse("silence")
  /\ UNCHANGED <<stream, taken, call, start, accepted, torn>>

-----------------------------------------------------------------------------
(* recieve_data_packet.                                                    *)

StartPacket ==
  /\ reading = "idle"
  /\ start' = taken
  /\ StartRecv("length", ContinueDataTransferLen)
  /\ UNCHANGED <<stream, taken, accepted, torn>>

\* The packet the buffer holds, if it holds one and no byte more.
InBuffer == {i \in DOMAIN written : written[i].first = start /\ End(written[i]) = taken}

\* Mutant: the CRC is computed and not compared.
CheckCrcIgnored ==
  /\ reading = "check"
  /\ accepted' = Append(accepted, start)
  /\ reading' = "idle"
  /\ UNCHANGED <<stream, taken, call, start, cause, torn>>

\* The CRC is right when the buffer is one packet, as it was written.  (There
\* are always more than two bytes: the length alone has three.)
CheckCrc ==
  /\ reading = "check"
  /\ IF \E i \in InBuffer : written[i].intact
       THEN /\ accepted' = Append(accepted, start)
            /\ reading' = "idle"
            /\ UNCHANGED cause
       ELSE /\ Refuse("crc")
            /\ UNCHANGED accepted
  /\ UNCHANGED <<stream, taken, call, start, torn>>

-----------------------------------------------------------------------------
\* The controller connects and writes the header, '#', its number, a code.
StreamInit ==
  /\ written = <<>>
  /\ length = BeginDataTransferLen
  /\ closed = FALSE
  /\ arrived = 0
  /\ taken = 0
  /\ reading = "header"
  /\ want = BeginDataTransferLen
  /\ got = 0
  /\ start = 0
  /\ accepted = <<>>
  /\ cause = "none"
  /\ torn = FALSE

Receive == Recv \/ RecvEnd \/ RecvFails

StreamNext ==
  \/ \E p \in Packets : Write(p)
  \/ Close \/ Arrive
  \/ Receive \/ StartPacket \/ CheckCrc

StreamSpec     == StreamInit /\ [][StreamNext]_streamVars
\* SO_RCVTIMEO bounds a ::recv that finds nothing, and the thread is running.
FairStreamSpec == StreamSpec /\ WF_streamVars(Receive) /\ WF_streamVars(CheckCrc)

-----------------------------------------------------------------------------
(* Properties.                                                             *)

\* However the stream is cut into pieces, the packets recieve_data_packet
\* returns true for are the first ones the controller wrote, each once, in
\* their order, and each as it was written: for the changes Packets holds, the
\* CRC finds them out.
AcceptedAsWritten ==
  /\ Len(accepted) <= Len(written)
  /\ \A i \in DOMAIN accepted :
       accepted[i] = written[i].first /\ written[i].genuine

\* A good packet that is the next to be read is refused only if it has not
\* arrived completely, or if recv took too much: for which a piece has to end
\* inside the header or its length, or bytes behind the packet to be there.
GoodPacketIsReadUnlessTorn ==
  reading = "refused" /\ Len(accepted) < Len(written) =>
    LET p == written[Len(accepted) + 1]
    IN  WellFormed(p) =>
          \/ arrived < End(p)
          \/ cause = "overread" /\ (torn \/ arrived > End(p))

\* Reading ends: recv neither waits nor loops for ever, whatever the length
\* says and whether or not the controller goes on.
ReadingEnds == reading \in Receiving ~> reading \notin Receiving
=============================================================================
