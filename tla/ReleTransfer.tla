---------------------------- MODULE ReleTransfer ----------------------------
(***************************************************************************)
(* SendToClientRele: the relay states that changed, read with one SELECT,  *)
(* go to the controller in packets of at most Batch rows.  The controller  *)
(* answers a packet with an energy packet, which ReceiveEnergy stores      *)
(* through the same writer, that is, through the one the rows are still    *)
(* fetched from.                                                           *)
(*                                                                         *)
(* A row is its number in the result: what is encoded of it needs no       *)
(* state.  Its Abonent is never NULL, the WHERE clause compares it.        *)
(***************************************************************************)
EXTENDS Integers, Sequences

CONSTANTS
  Batch,    \* rows in a full packet (120)
  Word,     \* 2^32: RecIncrem, nrecmax, nrec and Length are uint32_t
  MaxRows   \* bound: rows the SELECT returns

ASSUME BatchAssumption == Batch \in Nat \ {0}
ASSUME WordAssumption  == Word \in Nat /\ 18 + 4 * Batch < Word
\* The rows of a packet behind a full one, 120 * 121, are counted in a word.
ASSUME SquareAssumption == Batch * (Batch + 1) < Word
ASSUME RowsAssumption  == MaxRows \in Nat /\ MaxRows + Batch < Word

VARIABLES
  pc,         \* the next step of the handler
  result,     \* mResult of the writer: "rows" of the SELECT or "null"
  nRecords,   \* NumRows() after the SELECT
  fetched,    \* rows FetchRow has returned
  recIncrem,  \* RecIncrem
  nrec,       \* nrec
  nrecmax,    \* nrecmax
  packet,     \* the rows in RetBuff, by slot
  sent,       \* packets sent: rows they have room for, rows in them
  answer      \* the last answer: "none", "accepted", "refused", "misfit", "cut"

counters == <<recIncrem, nrec, nrecmax>>
vars     == <<pc, result, nRecords, fetched, counters, packet, sent, answer>>

\* "undefined": memory outside RetBuff was written, or bytes outside an answer
\* or a result that is gone were read.  "aborted": an exception nothing catches.
Final == {"done", "undefined", "aborted"}
Steps == Final \cup {"select", "batch", "fetch", "send", "answer", "next"}

\* Length: 16 bytes before the slots, 4 bytes a slot, 2 of CRC.
LengthFor(rows) == (18 + 4 * rows) % Word
SlotEnd(slot)   == 16 + 4 * slot

-----------------------------------------------------------------------------
Init ==
  /\ pc = "select"
  /\ result = "null"
  /\ nRecords = 0
  /\ fetched = 0
  /\ recIncrem = 0 /\ nrec = 0 /\ nrecmax = 0
  /\ packet = <<>>
  /\ sent = <<>>
  /\ answer = "none"

\* No writer or a failed statement ends the handler with a log line.
Select ==
  /\ pc = "select"
  /\ \/ /\ pc' = "done"
        /\ UNCHANGED <<result, nRecords>>
     \/ /\ pc' = "batch"
        /\ nRecords' \in 0..MaxRows
        /\ result' = "rows"
  /\ UNCHANGED <<fetched, counters, packet, sent, answer>>

\* The head of the loop: how many rows this packet holds, and RetBuff resized
\* to it.  A resize beyond a full packet may find no memory, and bad_alloc is
\* not an electricity_meter::exception.  localtime_r may fail.
SizePacket(rows) ==
  /\ pc = "batch"
  /\ nrecmax' = rows
  /\ packet' = <<>>
  /\ \/ pc' \in {"fetch", "done"}
     \/ rows > Batch /\ pc' = "aborted"
  /\ UNCHANGED <<result, nRecords, fetched, recIncrem, nrec, sent, answer>>

\* Mutant: a packet too many is subtracted.
NextBatchSubtractsTwice ==
  SizePacket(IF ((recIncrem + 1) * Batch) % Word < nRecords
               THEN Batch
               ELSE (nRecords - (recIncrem + 1) * Batch) % Word)

\* Mutant: room for one row more than there are.
NextBatchOneMore ==
  SizePacket(IF ((recIncrem + 1) * Batch) % Word < nRecords
               THEN Batch
               ELSE (nRecords - recIncrem * Batch + 1) % Word)

NextBatch ==
  SizePacket(IF ((recIncrem + 1) * Batch) % Word < nRecords
               THEN Batch
               ELSE (nRecords - recIncrem * Batch) % Word)

\* Mutant: testing for a first row takes it from the result.
FetchRowLosesFirst ==
  /\ pc = "fetch"
  /\ result = "rows"
  /\ fetched < nRecords
  /\ fetched' = fetched + 1
  /\ packet' = IF fetched = 0 THEN packet ELSE Append(packet, fetched + 1)
  /\ recIncrem' = (recIncrem + 1) % Word
  /\ UNCHANGED <<pc, result, nRecords, nrec, nrecmax, sent, answer>>

\* The inner loop puts every row FetchRow returns into the next slot, whether
\* or not RetBuff has one.
FetchRow ==
  /\ pc = "fetch"
  /\ result = "rows"
  /\ fetched < nRecords
  /\ fetched' = fetched + 1
  /\ IF SlotEnd(Len(packet) + 1) <= LengthFor(nrecmax)
       THEN /\ packet' = Append(packet, fetched + 1)
            /\ recIncrem' = (recIncrem + 1) % Word
            /\ UNCHANGED pc
       ELSE /\ pc' = "undefined"
            /\ UNCHANGED <<packet, recIncrem>>
  /\ UNCHANGED <<result, nRecords, nrec, nrecmax, sent, answer>>

\* FetchRow returns NULL at the end of the rows.  mysql_fetch_row of a result
\* that is gone dereferences it.
FetchNull ==
  /\ pc = "fetch"
  /\ \/ result = "rows" /\ fetched = nRecords /\ pc' = "send"
     \/ result = "null" /\ pc' = "undefined"
  /\ UNCHANGED <<result, nRecords, fetched, counters, packet, sent, answer>>

\* A failed send is logged; an answer is awaited only if there were rows.
Send ==
  /\ pc = "send"
  /\ \/ /\ sent' = Append(sent, [room |-> nrecmax, rows |-> packet])
        /\ pc' = IF nRecords > 0 THEN "answer" ELSE "next"
     \/ /\ pc' = "next"
        /\ UNCHANGED sent
  /\ UNCHANGED <<result, nRecords, fetched, counters, packet, answer>>

\* recieve_data_packet, whose result is ignored, and ReceiveEnergy.  Of a
\* packet with the length of an energy packet, its CRC right ("accepted") or
\* wrong ("refused"), the first record's BEGIN replaces the result of the
\* writer; one without a valid date or record leaves it.  "misfit" is a whole
\* packet of another length: that it is too short is only logged, and the date
\* and the last record are read all the same, behind its end.  A packet that
\* was cut off has not even the header.
Answer ==
  /\ pc = "answer"
  /\ \/ /\ answer' \in {"accepted", "refused"}
        /\ result' \in {"null", result}
        /\ pc' = "next"
     \/ /\ answer' = "misfit"
        /\ result' \in {"null", result}
        /\ pc' \in {"next", "undefined"}
     \/ /\ answer' = "cut"
        /\ pc' \in {"next", "undefined"}
        /\ UNCHANGED result
  /\ UNCHANGED <<nRecords, fetched, counters, packet, sent>>

\* Mutant: the number of packets is not advanced.
EndOfBatchRepeats ==
  /\ pc = "next"
  /\ pc' = IF nrec <= nRecords THEN "batch" ELSE "done"
  /\ UNCHANGED <<result, nRecords, fetched, counters, packet, sent, answer>>

\* nrec += 120; while (nrec <= NRecords).
EndOfBatch ==
  /\ pc = "next"
  /\ nrec' = (nrec + Batch) % Word
  /\ pc' = IF nrec' <= nRecords THEN "batch" ELSE "done"
  /\ UNCHANGED <<result, nRecords, fetched, recIncrem, nrecmax, packet, sent, answer>>

Next ==
  \/ Select \/ NextBatch \/ FetchRow \/ FetchNull \/ Send \/ Answer \/ EndOfBatch

Spec     == Init /\ [][Next]_vars
\* The handler's own thread; recv and send have timeouts.
FairSpec == Spec /\ WF_vars(Next)

-----------------------------------------------------------------------------
(* Properties.                                                             *)

TypeOK ==
  /\ pc \in Steps
  /\ result \in {"rows", "null"}
  /\ nRecords \in 0..MaxRows
  /\ fetched \in 0..MaxRows
  /\ recIncrem \in 0..(Word - 1)
  /\ nrec \in 0..(Word - 1)
  /\ nrecmax \in 0..(Word - 1)
  /\ packet \in Seq(1..MaxRows)
  /\ sent \in Seq([room : 0..(Word - 1), rows : Seq(1..MaxRows)])
  /\ answer \in {"none", "accepted", "refused", "misfit", "cut"}

\* Nothing undefined happens and nothing escapes for a result that fits one
\* packet with room to spare, as long as the controller's answer has the length
\* of an energy packet, its CRC right or wrong: the slots stay inside RetBuff and
\* no row is fetched from the result ReceiveEnergy has freed.  A result of
\* exactly Batch rows is not among them.
SmallTransferIsSafe ==
  pc \in {"undefined", "aborted"} => nRecords >= Batch \/ answer \in {"misfit", "cut"}

\* Such a result goes out in one packet with every row in it once, in the
\* order of the result, or not at all.
AllRowsOrNone ==
  pc = "done" /\ nRecords < Batch =>
    sent = <<>> \/ sent = <<[room |-> nRecords, rows |-> [i \in 1..nRecords |-> i]]>>

\* A packet of legal size has no slot without a row, which the controller
\* would take for an abonent 0.
NoEmptySlot ==
  \A i \in DOMAIN sent : sent[i].room <= Batch => Len(sent[i].rows) = sent[i].room

\* The transfer of any result ends: nrec passes the number of rows.
TransferEnds == <>(pc \in Final)
=============================================================================
