-------------------------- MODULE SharedConnection --------------------------
(***************************************************************************)
(* Every thread of the daemon writes through one MySQL connection.  The    *)
(* mutex of my_sql_writer::ExecuteSQL makes single statements atomic; the  *)
(* BEGIN ... COMMIT blocks of the handlers are not.  This module           *)
(* interleaves, statement by statement,                                    *)
(*   - the socket threads in ReceiveEnergy, ReceivePower and ReceiveAlarm, *)
(*   - the scheduled thread in scheduled_action_read_data::invoce,         *)
(* with lost connections, refused statements, failed calls and SIGTERM.    *)
(*                                                                         *)
(* A unit of work <<t, n>> is the n-th thing thread t writes in one        *)
(* try/catch of the source: one record of an energy packet, one power      *)
(* sample, one alarm, one scheduled call.  The records of a packet are     *)
(* numbered one after the other, so that unit is the index of its loop.    *)
(***************************************************************************)
EXTENDS MySqlSession

CONSTANTS
  Sockets,     \* threads running socket_thread_function
  Scheduler,   \* the thread running scheduled_actions::thread_function
  MaxUnits,    \* bound: units of work of one thread
  MaxFaults    \* faults are counted up to here, and go on; 0: there are none

ASSUME ThreadsAssumption == Scheduler \notin Sockets
\* AbortNeedsTwoFaults has to tell one fault from two.
ASSUME BoundsAssumption  == MaxUnits \in Nat /\ MaxFaults \in Nat \ {1}

Threads == Sockets \cup {Scheduler}
Units   == Threads \X (1..MaxUnits)

\* Tables written inside a BEGIN ... COMMIT block, and those written without
\* a BEGIN of their own.
BlockTables == {"e10", "enmonitor", "a2", "monitor"}
Tables      == BlockTables \cup {"power", "alarm"}
Rows        == [thread : Threads, unit : 1..MaxUnits, table : Tables]

VARIABLES
  db,       \* the session, see MySqlSession
  link,     \* "up" | "down": the TCP connection under it
  pc,       \* per thread: the statement it is about to execute
  unit,     \* per thread: the unit it is at, or will be at next
  last,     \* per thread: the last unit of the packet it is decoding
  daemon,   \* "running" | "exited" (SIGTERM) | "aborted" (std::terminate)
  faults,   \* lost connections plus ExecuteSQL calls that threw
  \* History, read by the properties only:
  executed,       \* rows whose statement returned without an exception
  stored,         \* units whose COMMIT returned without an exception
  failed,         \* units the thread rolled back
  unmatched,      \* units with an UPDATE that found no row
  committedOver,  \* units open while another thread executed BEGIN or COMMIT
  rolledOver,     \* units open while another thread executed ROLLBACK
  cutOff          \* units open while the server rolled the transaction back

outcome == <<stored, failed, unmatched>>
loop    == <<unit, last>>
blame   == <<committedOver, rolledOver, cutOff>>
vars    == <<db, link, pc, loop, daemon, faults, executed, outcome, blame>>

\* A unit is open from the moment it may have something in the session until
\* its COMMIT or ROLLBACK is over.
OpenSteps == {"e10", "enmonitor", "a2", "select", "clear", "calling",
              "commit", "rollback"}
Steps     == OpenSteps \cup {"idle", "next", "begin", "power", "alarm"}

Current(t)     == <<t, unit[t]>>
UnitOf(row)    == <<row.thread, row.unit>>
OpenUnits      == {Current(t) : t \in {u \in Threads : pc[u] \in OpenSteps}}
Row(t, table)  == [thread |-> t, unit |-> unit[t], table |-> table]

-----------------------------------------------------------------------------
(* ExecuteSQL.  It either returns with the statement's effect in the       *)
(* session or throws; a step of a handler is one call and the branch the   *)
(* handler takes on its result.                                            *)

At(t, step)   == daemon = "running" /\ pc[t] = step
Goto(t, step) == pc' = [pc EXCEPT ![t] = step]

\* A statement can fail any number of times.
Fault ==
  /\ MaxFaults > 0
  /\ faults' = IF faults < MaxFaults THEN faults + 1 ELSE faults

\* mysql_ping found or re-established the connection, the statement ran.
Returns(after) == /\ db' = after
                  /\ link' = "up"
                  /\ UNCHANGED <<faults, cutOff>>

\* mysql_ping failed, or the connection broke before the client had the
\* answer: then the server may have executed the statement all the same.
Unreachable(after) ==
  /\ Fault
  /\ link' = "down"
  /\ \/ link = "down" /\ UNCHANGED <<db, cutOff>>
     \/ /\ \E seen \in {db, after} : db' = AfterDisconnect(seen)
        /\ cutOff' = cutOff \cup OpenUnits

\* The server answered the statement with an error: the statement has no
\* effect.  The transaction stays as it was, or is rolled back (a deadlock).
Refused ==
  /\ Fault
  /\ link' = "up"
  /\ \/ UNCHANGED <<db, cutOff>>
     \/ /\ db' = AfterRollback(db)
        /\ cutOff' = cutOff \cup OpenUnits

Throws(after) == Unreachable(after) \/ Refused

\* The end of the loop's body, i += NRec.
EndUnit(t) ==
  /\ unit' = [unit EXCEPT ![t] = unit[t] + 1]
  /\ Goto(t, IF t = Scheduler THEN "idle" ELSE "next")
  /\ UNCHANGED last

\* A packet of energy records, power samples or alarms.
StartPacket(t) ==
  /\ t \in Sockets
  /\ At(t, "idle")
  /\ \E n \in unit[t]..MaxUnits : last' = [last EXCEPT ![t] = n]
  /\ Goto(t, "next")
  /\ UNCHANGED <<db, link, unit, daemon, faults, executed, outcome, blame>>

\* The head of the loop.  A record that fails validation (a negative Abonent,
\* an impossible date) or finds no writer is passed over before any statement.
NextRecord(t) ==
  /\ At(t, "next")
  /\ \/ unit[t] > last[t] /\ Goto(t, "idle") /\ UNCHANGED loop
     \/ /\ unit[t] <= last[t]
        /\ \/ \E step \in {"begin", "power", "alarm"} : Goto(t, step) /\ UNCHANGED loop
           \/ EndUnit(t)
  /\ UNCHANGED <<db, link, daemon, faults, executed, outcome, blame>>

\* try_invoce() found the interval elapsed and entered invoce().
StartCall(t) ==
  /\ t = Scheduler
  /\ At(t, "idle")
  /\ unit[t] <= MaxUnits
  /\ Goto(t, "begin")
  /\ UNCHANGED <<db, link, loop, daemon, faults, executed, outcome, blame>>

\* Mutant: the BEGIN is missing.
BeginMissing(t) ==
  /\ At(t, "begin")
  /\ Goto(t, IF t = Scheduler THEN "select" ELSE "e10")
  /\ UNCHANGED <<db, link, loop, daemon, faults, executed, outcome, blame>>

Begin(t) ==
  /\ At(t, "begin")
  /\ \/ /\ Returns(AfterBegin(db))
        /\ Goto(t, IF t = Scheduler THEN "select" ELSE "e10")
        /\ committedOver' = committedOver \cup OpenUnits
     \/ /\ Throws(AfterBegin(db))
        /\ Goto(t, "rollback")
        /\ UNCHANGED committedOver
  /\ UNCHANGED <<loop, daemon, executed, outcome, rolledOver>>

\* A write of row Row(t, pc[t]): one INSERT or UPDATE.  next is where the
\* handler goes when the call returns, caught where it goes when it throws.
Write(t, table, next, caught) ==
  /\ \/ /\ Returns(AfterWrite(db, Row(t, table)))
        /\ executed' = executed \cup {Row(t, table)}
        /\ \E step \in next : Goto(t, step)
     \/ /\ Throws(AfterWrite(db, Row(t, table)))
        /\ Goto(t, caught)
        /\ UNCHANGED executed
  /\ UNCHANGED <<loop, daemon, outcome, committedOver, rolledOver>>

\* An UPDATE that finds no row returns all the same; that is logged.
FindsNoRow(t, next) ==
  /\ Returns(db)
  /\ Goto(t, next)
  /\ unmatched' = unmatched \cup {Current(t)}
  /\ UNCHANGED <<loop, daemon, executed, stored, failed, committedOver, rolledOver>>

\* Energy: e10 always; enmonitor only for a reading of the first half hour of
\* a month, in a try/catch that swallows its failure; then a2.
InsertE10(t) ==
  At(t, "e10") /\ Write(t, "e10", {"enmonitor", "a2"}, "rollback")

InsertEnmonitor(t) ==
  At(t, "enmonitor") /\ Write(t, "enmonitor", {"a2"}, "a2")

\* Mutant: the update has a try/catch of its own, as enmonitor's insert has.
UpdateA2Swallows(t) ==
  /\ At(t, "a2")
  /\ Write(t, "a2", {"commit"}, "commit") \/ FindsNoRow(t, "commit")

UpdateA2(t) ==
  /\ At(t, "a2")
  /\ Write(t, "a2", {"commit"}, "rollback") \/ FindsNoRow(t, "commit")

InsertPower(t) ==
  At(t, "power") /\ Write(t, "power", {"commit"}, "rollback")

\* Mutant: the alarm is inserted outside the try block.
InsertAlarmUncaught(t) ==
  /\ At(t, "alarm")
  /\ \/ /\ Returns(AfterWrite(db, Row(t, "alarm")))
        /\ executed' = executed \cup {Row(t, "alarm")}
        /\ Goto(t, "commit")
        /\ UNCHANGED daemon
     \/ /\ Throws(AfterWrite(db, Row(t, "alarm")))
        /\ daemon' = "aborted"
        /\ UNCHANGED <<pc, executed>>
  /\ UNCHANGED <<loop, outcome, committedOver, rolledOver>>

InsertAlarm(t) ==
  At(t, "alarm") /\ Write(t, "alarm", {"commit"}, "rollback")

\* find_controller_to_call: no row with CountPoint > 0 makes invoce return
\* with the transaction still open; an empty FoneBS or Abonent throws.
SelectController(t) ==
  /\ At(t, "select")
  /\ \/ Returns(db) /\ EndUnit(t)
     \/ /\ Returns(db)
        /\ \E step \in {"clear", "rollback"} : Goto(t, step)
        /\ UNCHANGED loop
     \/ Throws(db) /\ Goto(t, "rollback") /\ UNCHANGED loop
  /\ UNCHANGED <<daemon, executed, outcome, committedOver, rolledOver>>

ClearCountPoint(t) ==
  /\ At(t, "clear")
  /\ Write(t, "monitor", {"calling"}, "rollback") \/ FindsNoRow(t, "calling")

\* The modem dials and the thread sleeps call_to_controller_time seconds; the
\* mutex is free all the while.  Any modem exception leads to the catch.
CallController(t) ==
  /\ At(t, "calling")
  /\ \E step \in {"commit", "rollback"} : Goto(t, step)
  /\ UNCHANGED <<db, link, loop, daemon, faults, executed, outcome, blame>>

\* Mutant: success is recorded although the COMMIT threw.
CommitUnchecked(t) ==
  /\ At(t, "commit")
  /\ Returns(AfterCommit(db)) \/ Throws(AfterCommit(db))
  /\ EndUnit(t)
  /\ stored' = stored \cup {Current(t)}
  /\ committedOver' = committedOver \cup (OpenUnits \ {Current(t)})
  /\ UNCHANGED <<daemon, executed, failed, unmatched, rolledOver>>

Commit(t) ==
  /\ At(t, "commit")
  /\ \/ /\ Returns(AfterCommit(db))
        /\ EndUnit(t)
        /\ stored' = stored \cup {Current(t)}
        /\ committedOver' = committedOver \cup (OpenUnits \ {Current(t)})
     \/ /\ Throws(AfterCommit(db))
        /\ Goto(t, "rollback")
        /\ UNCHANGED <<loop, stored, committedOver>>
  /\ UNCHANGED <<daemon, executed, failed, unmatched, rolledOver>>

\* Mutant: the catch block logs and takes the next record.
RollbackMissing(t) ==
  /\ At(t, "rollback")
  /\ failed' = failed \cup {Current(t)}
  /\ EndUnit(t)
  /\ UNCHANGED <<db, link, daemon, faults, executed, stored, unmatched, blame>>

\* Mutant: continue without the i += NRec before it.
RollbackKeepsIndex(t) ==
  /\ At(t, "rollback")
  /\ failed' = failed \cup {Current(t)}
  /\ Goto(t, IF t = Scheduler THEN "idle" ELSE "next")
  /\ \/ /\ Returns(AfterRollback(db))
        /\ rolledOver' = rolledOver \cup (OpenUnits \ {Current(t)})
        /\ UNCHANGED daemon
     \/ /\ Unreachable(AfterRollback(db))
        /\ UNCHANGED <<daemon, rolledOver>>
  /\ UNCHANGED <<loop, executed, stored, unmatched, committedOver>>

\* The ROLLBACK of the catch blocks.  invoce has an outer catch for what it
\* throws, and so has SendToClientRele for the energy packet it decodes
\* (reciever.cpp:1155); anywhere else in a socket thread nothing catches it
\* and the process aborts.  A server that can be reached does not refuse
\* ROLLBACK.
Rollback(t) ==
  /\ At(t, "rollback")
  /\ failed' = failed \cup {Current(t)}
  /\ EndUnit(t)
  /\ \/ /\ Returns(AfterRollback(db))
        /\ rolledOver' = rolledOver \cup (OpenUnits \ {Current(t)})
        /\ UNCHANGED daemon
     \/ /\ Unreachable(AfterRollback(db))
        /\ \/ UNCHANGED daemon
           \/ t \in Sockets /\ daemon' = "aborted"
        /\ UNCHANGED rolledOver
  /\ UNCHANGED <<executed, stored, unmatched, committedOver>>

-----------------------------------------------------------------------------
(* The environment.                                                        *)

LoseConnection ==
  /\ daemon = "running"
  /\ link = "up"
  /\ Fault
  /\ link' = "down"
  /\ db' = AfterDisconnect(db)
  /\ cutOff' = cutOff \cup OpenUnits
  /\ UNCHANGED <<pc, loop, daemon, executed, outcome, committedOver, rolledOver>>

\* signal_handler calls exit(0); the session closes and the server rolls back.
Sigterm ==
  /\ daemon = "running"
  /\ daemon' = "exited"
  /\ link' = "down"
  /\ db' = AfterDisconnect(db)
  /\ cutOff' = cutOff \cup OpenUnits
  /\ UNCHANGED <<pc, loop, faults, executed, outcome, committedOver, rolledOver>>

-----------------------------------------------------------------------------
Init ==
  /\ db = ConnectedSession
  /\ link = "up"
  /\ pc = [t \in Threads |-> "idle"]
  /\ unit = [t \in Threads |-> 1]
  /\ last = [t \in Threads |-> 0]
  /\ daemon = "running"
  /\ faults = 0
  /\ executed = {}
  /\ stored = {} /\ failed = {} /\ unmatched = {}
  /\ committedOver = {} /\ rolledOver = {} /\ cutOff = {}

EnergyStep(t) == InsertE10(t) \/ InsertEnmonitor(t) \/ UpdateA2(t)
CallStep(t)   == SelectController(t) \/ ClearCountPoint(t) \/ CallController(t)
EndStep(t)    == Commit(t) \/ Rollback(t)

\* A thread inside a packet or a call takes its next step.
Work(t) ==
  \/ NextRecord(t) \/ Begin(t) \/ EnergyStep(t) \/ InsertPower(t) \/ InsertAlarm(t)
  \/ CallStep(t) \/ EndStep(t)

Next ==
  \/ \E t \in Threads : Work(t) \/ StartPacket(t) \/ StartCall(t)
  \/ LoseConnection
  \/ Sigterm

Spec     == Init /\ [][Next]_vars
\* A detached pthread is never suspended by the program, neither a statement
\* nor a sleep lasts for ever, and a modem call does only if the modem never
\* stops sending (ModemPort!InvoceEnds).
FairSpec == Spec /\ \A t \in Threads : WF_vars(Work(t))

-----------------------------------------------------------------------------
(* Properties.                                                             *)

TypeOK ==
  /\ db \in Session(Rows)
  /\ link \in {"up", "down"}
  /\ pc \in [Threads -> Steps]
  /\ unit \in [Threads -> 1..(MaxUnits + 1)] /\ last \in [Threads -> 0..MaxUnits]
  /\ daemon \in {"running", "exited", "aborted"}
  /\ faults \in 0..MaxFaults
  /\ executed \subseteq Rows
  /\ stored \subseteq Units /\ failed \subseteq Units /\ unmatched \subseteq Units
  /\ committedOver \subseteq Units /\ rolledOver \subseteq Units
  /\ cutOff \subseteq Units

Ended      == stored \cup failed
Interfered == committedOver \cup rolledOver \cup cutOff
WrittenBy(u) == {row \in executed : UnitOf(row) = u}

\* Whichever way the handlers are left, no row stays behind in the session
\* for a later transaction of another thread to commit or to lose: a pending
\* row belongs to the unit its thread has open.  Every catch block therefore
\* has to end the transaction (reciever.cpp:413-419, 511-515, 659-663), and
\* the early return of invoce, which does not, has to come before its UPDATE.
NothingLeftPending ==
  \A row \in db.pending : UnitOf(row) \in OpenUnits

\* A unit whose COMMIT returned is in the database whatever the other threads
\* did meanwhile, a BEGIN or COMMIT in the middle of it included; only another
\* thread's ROLLBACK or a lost connection takes rows away from it.
StoredIsDurable ==
  \A u \in stored \ (rolledOver \cup cutOff) : WrittenBy(u) \subseteq db.committed

\* What a BEGIN ... COMMIT block wrote becomes durable before its own COMMIT
\* only through a transaction statement of another thread or a lost
\* connection (the reconnected session is in autocommit mode).
NotStoredLeavesNothing ==
  \A row \in db.committed :
    row.table \in BlockTables /\ UnitOf(row) \notin stored
      => UnitOf(row) \in Interfered

\* Once the handling of an energy record is over and nobody interfered, the
\* journal e10 and the current readings a2 both have the reading or neither
\* has, and enmonitor has no reading the journal lacks, although a failed
\* insert into enmonitor is swallowed (reciever.cpp:364-383).  Only an abonent
\* a2 has no row of is in e10 alone: its UPDATE finds nothing, which is logged
\* and committed (reciever.cpp:403-412).
TablesAgree ==
  \A u \in Ended \ Interfered :
    LET Has(table) == \E row \in db.committed : UnitOf(row) = u /\ row.table = table
    IN  /\ Has("a2") => Has("e10")
        /\ Has("e10") => Has("a2") \/ u \in unmatched
        /\ Has("enmonitor") => Has("e10")

\* One failed statement never brings the daemon down: on the side of the
\* database std::terminate needs a statement that throws and then the ROLLBACK
\* of its catch block throwing as well, for which one outage is enough.
AbortNeedsTwoFaults == daemon = "aborted" => faults >= 2

\* The comment of the log line in invoce's catch block, "DB transaction has
\* been rolled back!" (scheduled_action_read_data.cpp:156): a call that failed
\* leaves no trace, so its CountPoint is still set and it is tried again.
RolledBackCallLeavesNothing ==
  \A row \in db.committed : row.table = "monitor" => UnitOf(row) \notin failed

\* A packet, or a call, comes to its end or the daemon stops, although every
\* statement of it may fail, again and again: each way through the body of the
\* loop, the catch block included, moves on to the next record (i += NRec
\* before continue, reciever.cpp:417), so that none is tried for ever.
UnitsEnd ==
  \A t \in Threads : pc[t] # "idle" ~> pc[t] = "idle" \/ daemon # "running"
=============================================================================
