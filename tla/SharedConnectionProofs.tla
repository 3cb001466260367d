----------------------- MODULE SharedConnectionProofs -----------------------
(***************************************************************************)
(* Proofs of the safety properties of SharedConnection, for any sets of    *)
(* socket threads and any bounds.                                          *)
(***************************************************************************)
EXTENDS SharedConnection, TLAPS

\* The steps at which a thread can have uncommitted rows in the session.
DirtySteps == {"enmonitor", "a2", "calling", "commit", "rollback"}

\* The steps that write a table of a BEGIN ... COMMIT block.
BlockWrites == {"e10", "enmonitor", "a2", "select", "clear"}

\* The steps inside a unit.
Busy == Steps \ {"idle", "next"}

\* A thread at work is in its last unit at most.
BusyHasUnit == \A t \in Threads : pc[t] \in Busy => unit[t] <= MaxUnits

\* A disconnected session has nothing pending.
DownIsEmpty == link = "down" => db.pending = {}

\* A pending row is of the current unit of a thread that has written and not
\* yet ended its transaction.  This is what makes NothingLeftPending inductive.
PendingIsDirty ==
  \A row \in db.pending : /\ row.unit = unit[row.thread]
                          /\ pc[row.thread] \in DirtySteps

\* Only the scheduled thread runs the steps of a call.
CallSteps == \A t \in Threads : pc[t] \in {"select", "clear", "calling"} => t = Scheduler

\* What AbortNeedsTwoFaults needs: a socket thread rolls back after a fault.
RollbackHasFault ==
  \A t \in Threads : t # Scheduler /\ pc[t] = "rollback" => faults >= 1

\* An ended unit is in the past of its thread.
EndedIsPast == \A u \in stored \cup failed : u[2] < unit[u[1]]

StoredNotFailed == stored \cap failed = {}

\* A row that was written is still somewhere unless its unit was rolled back
\* or lost.  This is what makes StoredIsDurable inductive.
ExecutedIsKept ==
  \A row \in executed :
    \/ row \in db.pending \cup db.committed
    \/ UnitOf(row) \in rolledOver \cup cutOff \cup failed

\* Inside a block the transaction is open unless somebody interfered.
BlockIsExplicit ==
  \A t \in Threads :
    pc[t] \in BlockWrites => db.explicit \/ Current(t) \in Interfered

\* What is in the database was written by a statement that returned.
WrittenIsExecuted ==
  /\ db.pending \subseteq executed
  /\ \A row \in db.committed :
       row.table \in BlockTables => row \in executed \/ UnitOf(row) \in cutOff

\* e10 comes before enmonitor and a2, and a2 follows unless the unit fails
\* or a2 has no row for it.
EnergyOrder ==
  /\ \A t \in Threads : pc[t] \in {"enmonitor", "a2"} => Row(t, "e10") \in executed
  /\ \A row \in executed :
       row.table \in {"enmonitor", "a2"} => [row EXCEPT !.table = "e10"] \in executed
  /\ \A row \in executed :
       row.table = "e10" =>
         \/ [row EXCEPT !.table = "a2"] \in executed
         \/ UnitOf(row) \in failed \cup unmatched
         \/ row.unit = unit[row.thread] /\ pc[row.thread] \in {"enmonitor", "a2", "rollback"}

-----------------------------------------------------------------------------
(* Type correctness.                                                       *)

TypeInv == TypeOK /\ BusyHasUnit

USE DEF At

\* The statements keep the session a session.
LEMMA SessionTypes ==
  ASSUME NEW s \in Session(Rows)
  PROVE  /\ AfterBegin(s) \in Session(Rows)
         /\ AfterCommit(s) \in Session(Rows)
         /\ AfterRollback(s) \in Session(Rows)
         /\ AfterDisconnect(s) \in Session(Rows)
         /\ \A row \in Rows : AfterWrite(s, row) \in Session(Rows)
  BY DEF Session, AfterBegin, AfterCommit, AfterRollback, AfterWrite, AfterDisconnect

LEMMA OpenUnitsType == ASSUME TypeInv PROVE OpenUnits \subseteq Units
  BY BoundsAssumption
     DEF TypeInv, TypeOK, BusyHasUnit, Busy, OpenUnits, Current, Units, Threads, Steps, OpenSteps

LEMMA CurrentType ==
  ASSUME TypeInv, NEW t \in Threads, pc[t] \in Busy
  PROVE  /\ Current(t) \in Units
         /\ \A table \in Tables : Row(t, table) \in Rows
  BY BoundsAssumption
     DEF TypeInv, TypeOK, BusyHasUnit, Current, Units, Row, Rows

\* A call of ExecuteSQL keeps the types of what it changes.
LEMMA CallTypes ==
  ASSUME TypeInv, NEW after \in Session(Rows), Returns(after) \/ Throws(after)
  PROVE  /\ db' \in Session(Rows)
         /\ link' \in {"up", "down"}
         /\ faults' \in 0..MaxFaults
         /\ cutOff' \subseteq Units
  <1>1. CASE Returns(after)
    BY <1>1 DEF TypeInv, TypeOK, Returns
  <1>2. CASE Unreachable(after)
    <2>1. faults' \in 0..MaxFaults /\ link' \in {"up", "down"}
      BY <1>2, BoundsAssumption DEF TypeInv, TypeOK, Unreachable, Fault
    <2>2. db' \in Session(Rows)
      BY <1>2, SessionTypes DEF TypeInv, TypeOK, Unreachable
    <2>3. cutOff' \subseteq Units
      BY <1>2, OpenUnitsType DEF TypeInv, TypeOK, Unreachable
    <2> QED BY <2>1, <2>2, <2>3
  <1>3. CASE Refused
    <2>1. faults' \in 0..MaxFaults /\ link' \in {"up", "down"}
      BY <1>3, BoundsAssumption DEF TypeInv, TypeOK, Refused, Fault
    <2>2. db' \in Session(Rows)
      BY <1>3, SessionTypes DEF TypeInv, TypeOK, Refused
    <2>3. cutOff' \subseteq Units
      BY <1>3, OpenUnitsType DEF TypeInv, TypeOK, Refused
    <2> QED BY <2>1, <2>2, <2>3
  <1> QED BY <1>1, <1>2, <1>3 DEF Throws

\* A step inside a unit leaves its thread inside it.
LEMMA WriteTypes ==
  ASSUME TypeInv, NEW t \in Threads, pc[t] \in Busy, NEW table \in Tables,
         NEW next \in SUBSET Busy, NEW caught \in Busy,
         Write(t, table, next, caught)
  PROVE  TypeInv'
  <1>1. AfterWrite(db, Row(t, table)) \in Session(Rows) /\ Row(t, table) \in Rows
    BY SessionTypes, CurrentType DEF TypeInv, TypeOK
  <1>2. /\ db' \in Session(Rows) /\ link' \in {"up", "down"}
        /\ faults' \in 0..MaxFaults /\ cutOff' \subseteq Units
    BY <1>1, CallTypes DEF Write
  <1>3. pc' \in [Threads -> Steps] /\ \E step \in Busy : Goto(t, step)
    BY DEF Write, Goto, TypeInv, TypeOK, Busy
  <1>4. executed' \subseteq Rows
    BY <1>1 DEF Write, TypeInv, TypeOK
  <1> QED BY <1>2, <1>3, <1>4 DEF Write, Goto, TypeInv, TypeOK, BusyHasUnit, outcome, loop

LEMMA FindsNoRowTypes ==
  ASSUME TypeInv, NEW t \in Threads, pc[t] \in Busy, NEW next \in Busy, FindsNoRow(t, next)
  PROVE  TypeInv'
  <1>1. Current(t) \in Units
    BY CurrentType
  <1>2. pc' \in [Threads -> Steps]
    BY DEF FindsNoRow, Goto, TypeInv, TypeOK, Busy
  <1> QED BY <1>1, <1>2 DEF FindsNoRow, Returns, Goto, TypeInv, TypeOK, BusyHasUnit, loop

\* The end of a unit takes its thread out of it.
LEMMA EndUnitTypes ==
  ASSUME TypeInv, NEW t \in Threads, unit[t] <= MaxUnits, EndUnit(t)
  PROVE  /\ unit' \in [Threads -> 1..(MaxUnits + 1)] /\ last' \in [Threads -> 0..MaxUnits]
         /\ pc' \in [Threads -> Steps]
         /\ BusyHasUnit'
  BY BoundsAssumption
     DEF TypeInv, TypeOK, EndUnit, Goto, BusyHasUnit, Busy, Steps, OpenSteps

LEMMA WorkTypes == ASSUME TypeInv, NEW t \in Threads, Work(t) PROVE TypeInv'
  <1> USE DEF Steps, OpenSteps, Busy
  <1>0. pc[t] \in Busy => unit[t] <= MaxUnits
    BY DEF TypeInv, BusyHasUnit
  <1>1. CASE Begin(t)
    <2>1. AfterBegin(db) \in Session(Rows)
      BY SessionTypes DEF TypeInv, TypeOK
    <2>2. /\ db' \in Session(Rows) /\ link' \in {"up", "down"}
          /\ faults' \in 0..MaxFaults /\ cutOff' \subseteq Units
      BY <1>1, <2>1, CallTypes DEF Begin
    <2>3. pc' \in [Threads -> Steps]
      BY <1>1 DEF Begin, Goto, TypeInv, TypeOK
    <2>4. committedOver' \subseteq Units
      BY <1>1, OpenUnitsType DEF Begin, TypeInv, TypeOK
    <2> QED BY <1>1, <2>2, <2>3, <2>4
            DEF Begin, Goto, TypeInv, TypeOK, BusyHasUnit, outcome, loop
  <1>2. CASE EnergyStep(t)
    BY <1>2, WriteTypes, FindsNoRowTypes
       DEF EnergyStep, InsertE10, InsertEnmonitor, UpdateA2, Tables, BlockTables
  <1>3. CASE InsertPower(t) \/ InsertAlarm(t)
    BY <1>3, WriteTypes DEF InsertPower, InsertAlarm, Tables, BlockTables
  <1>4. CASE SelectController(t)
    <2>1. /\ db' \in Session(Rows) /\ link' \in {"up", "down"}
          /\ faults' \in 0..MaxFaults /\ cutOff' \subseteq Units
      BY <1>4, CallTypes DEF SelectController, TypeInv, TypeOK
    <2>2. /\ unit' \in [Threads -> 1..(MaxUnits + 1)] /\ last' \in [Threads -> 0..MaxUnits]
          /\ pc' \in [Threads -> Steps]
          /\ BusyHasUnit'
      <3>1. CASE EndUnit(t)
        BY <1>0, <1>4, <3>1, EndUnitTypes DEF SelectController
      <3>2. CASE UNCHANGED loop /\ \E step \in {"clear", "rollback"} : Goto(t, step)
        BY <1>4, <3>2 DEF SelectController, Goto, TypeInv, TypeOK, BusyHasUnit, loop
      <3> QED BY <1>4, <3>1, <3>2 DEF SelectController
    <2> QED BY <1>4, <2>1, <2>2 DEF SelectController, TypeInv, TypeOK, outcome
  <1>5. CASE ClearCountPoint(t)
    BY <1>5, WriteTypes, FindsNoRowTypes DEF ClearCountPoint, Tables, BlockTables
  <1>6. CASE CallController(t)
    BY <1>6 DEF CallController, Goto, TypeInv, TypeOK, BusyHasUnit, outcome, blame, loop
  <1>7. CASE Commit(t)
    <2>1. AfterCommit(db) \in Session(Rows)
      BY SessionTypes DEF TypeInv, TypeOK
    <2>2. /\ db' \in Session(Rows) /\ link' \in {"up", "down"}
          /\ faults' \in 0..MaxFaults /\ cutOff' \subseteq Units
      BY <1>7, <2>1, CallTypes DEF Commit
    <2>3. /\ unit' \in [Threads -> 1..(MaxUnits + 1)] /\ last' \in [Threads -> 0..MaxUnits]
          /\ pc' \in [Threads -> Steps]
          /\ BusyHasUnit'
      <3>1. CASE EndUnit(t)
        BY <1>0, <1>7, <3>1, EndUnitTypes DEF Commit
      <3>2. CASE UNCHANGED loop /\ Goto(t, "rollback")
        BY <1>7, <3>2 DEF Commit, Goto, TypeInv, TypeOK, BusyHasUnit, loop
      <3> QED BY <1>7, <3>1, <3>2 DEF Commit
    <2>4. committedOver' \subseteq Units /\ stored' \subseteq Units
      BY <1>7, OpenUnitsType, CurrentType DEF Commit, TypeInv, TypeOK
    <2> QED BY <1>7, <2>2, <2>3, <2>4 DEF Commit, TypeInv, TypeOK
  <1>8. CASE Rollback(t)
    <2>1. AfterRollback(db) \in Session(Rows)
      BY SessionTypes DEF TypeInv, TypeOK
    <2>2. /\ db' \in Session(Rows) /\ link' \in {"up", "down"}
          /\ faults' \in 0..MaxFaults /\ cutOff' \subseteq Units
      BY <1>8, <2>1, CallTypes DEF Rollback, Throws
    <2>3. /\ unit' \in [Threads -> 1..(MaxUnits + 1)] /\ last' \in [Threads -> 0..MaxUnits]
          /\ pc' \in [Threads -> Steps]
          /\ BusyHasUnit'
      BY <1>0, <1>8, EndUnitTypes DEF Rollback
    <2>4. /\ rolledOver' \subseteq Units /\ failed' \subseteq Units
          /\ daemon' \in {"running", "exited", "aborted"}
      BY <1>8, OpenUnitsType, CurrentType DEF Rollback, TypeInv, TypeOK
    <2> QED BY <1>8, <2>2, <2>3, <2>4 DEF Rollback, TypeInv, TypeOK
  <1>9. CASE NextRecord(t)
    <2>1. last[t] <= MaxUnits
      BY BoundsAssumption DEF TypeInv, TypeOK
    <2>2. /\ unit' \in [Threads -> 1..(MaxUnits + 1)] /\ last' \in [Threads -> 0..MaxUnits]
          /\ pc' \in [Threads -> Steps]
          /\ BusyHasUnit'
      <3>1. CASE unit[t] <= last[t] /\ EndUnit(t)
        <4>1. unit[t] <= MaxUnits
          BY <2>1, <3>1, BoundsAssumption DEF TypeInv, TypeOK
        <4> QED BY <3>1, <4>1, EndUnitTypes
      <3>2. CASE UNCHANGED loop /\ Goto(t, "idle")
        BY <1>9, <3>2 DEF Goto, TypeInv, TypeOK, BusyHasUnit, loop
      <3>3. CASE /\ UNCHANGED loop /\ unit[t] <= last[t]
                 /\ \E step \in {"begin", "power", "alarm"} : Goto(t, step)
        BY <1>9, <2>1, <3>3, BoundsAssumption DEF Goto, TypeInv, TypeOK, BusyHasUnit, loop
      <3> QED BY <1>9, <3>1, <3>2, <3>3 DEF NextRecord
    <2> QED BY <1>9, <2>2 DEF NextRecord, TypeInv, TypeOK, outcome, blame
  <1> QED BY <1>1, <1>2, <1>3, <1>4, <1>5, <1>6, <1>7, <1>8, <1>9 DEF Work, CallStep, EndStep

LEMMA TypeStep == TypeInv /\ [Next]_vars => TypeInv'
  <1> SUFFICES ASSUME TypeInv, [Next]_vars PROVE TypeInv'
    OBVIOUS
  <1>1. ASSUME NEW t \in Threads, Work(t) PROVE TypeInv'
    BY <1>1, WorkTypes
  <1>2. ASSUME NEW t \in Threads, StartPacket(t) \/ StartCall(t) PROVE TypeInv'
    <2>1. CASE StartPacket(t)
      <3>1. last' \in [Threads -> 0..MaxUnits]
        BY <2>1, BoundsAssumption DEF StartPacket, TypeInv, TypeOK
      <3> QED BY <2>1, <3>1 DEF StartPacket, Goto, TypeInv, TypeOK, BusyHasUnit, Busy,
                 outcome, blame, Steps, OpenSteps
    <2>2. CASE StartCall(t)
      BY <2>2 DEF StartCall, Goto, TypeInv, TypeOK, BusyHasUnit, Busy, outcome, blame, loop,
         Steps, OpenSteps
    <2> QED BY <1>2, <2>1, <2>2
  <1>3. CASE LoseConnection \/ Sigterm
    <2>1. db' \in Session(Rows)
      BY <1>3, SessionTypes DEF LoseConnection, Sigterm, TypeInv, TypeOK
    <2>2. cutOff' \subseteq Units
      BY <1>3, OpenUnitsType DEF LoseConnection, Sigterm, TypeInv, TypeOK
    <2> QED BY <1>3, <2>1, <2>2, BoundsAssumption
            DEF LoseConnection, Sigterm, Fault, TypeInv, TypeOK, BusyHasUnit, outcome, loop
  <1>4. CASE UNCHANGED vars
    BY <1>4 DEF TypeInv, TypeOK, BusyHasUnit, vars, outcome, blame, loop
  <1> QED BY <1>1, <1>2, <1>3, <1>4 DEF Next

\* Every reachable state is well typed.
THEOREM TypeCorrect == Spec => []TypeOK
  <1>1. Init => TypeInv
    BY BoundsAssumption
       DEF Init, TypeInv, TypeOK, BusyHasUnit, Busy, Session, ConnectedSession, Steps, OpenSteps
  <1>2. TypeInv => TypeOK
    BY DEF TypeInv
  <1> QED BY <1>1, <1>2, TypeStep, PTL DEF Spec

-----------------------------------------------------------------------------
(* Pending rows.  One lemma per kind of step: the step of a thread at work *)
(* and the steps of everything else.                                       *)

PendingInv == TypeInv /\ DownIsEmpty /\ PendingIsDirty


\* What the statements do to the parts of a session.
LEMMA SessionEffects ==
  ASSUME NEW s \in Session(Rows)
  PROVE  /\ AfterBegin(s).pending = {} /\ AfterBegin(s).explicit
         /\ AfterBegin(s).committed = s.committed \cup s.pending
         /\ AfterCommit(s).pending = {}
         /\ AfterCommit(s).committed = s.committed \cup s.pending
         /\ AfterRollback(s).pending = {}
         /\ AfterRollback(s).committed = s.committed
         /\ AfterDisconnect(s).pending = {}
         /\ AfterDisconnect(s).committed = s.committed
  BY DEF Session, AfterBegin, AfterCommit, AfterRollback, AfterDisconnect

LEMMA WriteEffects ==
  ASSUME NEW s \in Session(Rows), NEW row \in Rows
  PROVE  LET w == AfterWrite(s, row)
         IN  /\ w \in Session(Rows)
             /\ w.explicit = s.explicit
             /\ s.pending \subseteq w.pending /\ w.pending \subseteq s.pending \cup {row}
             /\ s.committed \subseteq w.committed /\ w.committed \subseteq s.committed \cup {row}
             /\ row \in w.pending \/ row \in w.committed
             /\ s.explicit => w.committed = s.committed
  BY DEF Session, AfterWrite

\* A call that throws adds nothing to the pending rows.
LEMMA PendingThrows ==
  ASSUME PendingInv, NEW after \in Session(Rows), Throws(after)
  PROVE  DownIsEmpty' /\ db'.pending \subseteq db.pending
  BY SessionEffects DEF PendingInv, TypeInv, TypeOK, DownIsEmpty, Throws, Unreachable, Refused

LEMMA PendingWrite ==
  ASSUME PendingInv, NEW t \in Threads, NEW table \in Tables,
         NEW next \in SUBSET DirtySteps, NEW caught \in DirtySteps,
         pc[t] \in Busy, Write(t, table, next, caught)
  PROVE  DownIsEmpty' /\ PendingIsDirty'
  <1> DEFINE row == Row(t, table)
  <1>1. db.pending \subseteq Rows /\ row \in Rows /\ row.thread = t /\ row.unit = unit[t]
    BY CurrentType DEF PendingInv, TypeInv, TypeOK, Session, Row
  <1>2. DownIsEmpty' /\ db'.pending \subseteq db.pending \cup {row}
    BY <1>1 DEF Write, PendingInv, DownIsEmpty, Returns, Throws, Unreachable, Refused,
       AfterWrite, AfterRollback, AfterDisconnect, TypeInv, TypeOK, Session
  <1>3. \E step \in DirtySteps : Goto(t, step)
    BY DEF Write
  <1>4. \A r \in db'.pending : r.unit = unit'[r.thread] /\ pc'[r.thread] \in DirtySteps
    BY <1>1, <1>2, <1>3
       DEF Write, Goto, PendingInv, PendingIsDirty, TypeInv, TypeOK, Rows, loop
  <1> QED BY <1>2, <1>4 DEF PendingIsDirty

\* A thread without pending rows may go anywhere.
LEMMA PendingMove ==
  ASSUME PendingInv, NEW t \in Threads, db'.pending \subseteq db.pending,
         \/ pc[t] \notin DirtySteps
         \/ db'.pending = {}
         \/ UNCHANGED unit /\ pc'[t] \in DirtySteps,
         \A u \in Threads \ {t} : unit'[u] = unit[u] /\ pc'[u] = pc[u]
  PROVE  PendingIsDirty'
  <1>1. ASSUME NEW row \in db'.pending
        PROVE  row.unit = unit'[row.thread] /\ pc'[row.thread] \in DirtySteps
    <2>1. row \in db.pending /\ row.thread \in Threads
      BY DEF PendingInv, TypeInv, TypeOK, Session, Rows
    <2>2. row.unit = unit[row.thread] /\ pc[row.thread] \in DirtySteps
      BY <2>1 DEF PendingInv, PendingIsDirty
    <2> QED BY <2>1, <2>2
  <1> QED BY <1>1 DEF PendingIsDirty

\* What the end of a unit leaves alone.
LEMMA EndUnitMoves ==
  ASSUME TypeInv, NEW t \in Threads,
         EndUnit(t) \/ (UNCHANGED loop /\ \E step \in Steps : Goto(t, step))
  PROVE  \A u \in Threads \ {t} : unit'[u] = unit[u] /\ pc'[u] = pc[u]
  BY DEF EndUnit, Goto, TypeInv, TypeOK, loop

LEMMA PendingWork ==
  ASSUME PendingInv, NEW t \in Threads, Work(t)
  PROVE  DownIsEmpty' /\ PendingIsDirty'
  <1>0. db \in Session(Rows) /\ TypeInv /\ DownIsEmpty /\ pc \in [Threads -> Steps]
    BY DEF PendingInv, TypeInv, TypeOK
  <1> USE DEF DirtySteps, Busy, Steps, OpenSteps
  <1>1. CASE Begin(t)
    <2>1. /\ DownIsEmpty' /\ db'.pending \subseteq db.pending
          /\ UNCHANGED loop /\ \E step \in Steps : Goto(t, step)
      BY <1>0, <1>1, PendingThrows, SessionTypes, SessionEffects
         DEF Begin, Returns, DownIsEmpty
    <2> QED BY <1>0, <1>1, <2>1, PendingMove, EndUnitMoves DEF Begin
  <1>2. CASE EnergyStep(t) \/ InsertPower(t) \/ InsertAlarm(t) \/ ClearCountPoint(t)
    <2>1. ASSUME NEW table \in Tables, NEW next \in SUBSET DirtySteps, NEW caught \in DirtySteps,
                 pc[t] \in Busy, Write(t, table, next, caught)
          PROVE  DownIsEmpty' /\ PendingIsDirty'
      BY <2>1, PendingWrite
    <2>2. ASSUME pc[t] \in {"a2", "clear"}, NEW next \in {"commit", "calling"}, FindsNoRow(t, next)
          PROVE  DownIsEmpty' /\ PendingIsDirty'
      <3>1. /\ DownIsEmpty' /\ UNCHANGED <<db, unit>>
            /\ Goto(t, next) /\ pc'[t] \in DirtySteps
        BY <1>0, <2>2 DEF FindsNoRow, Returns, Goto, DownIsEmpty, loop
      <3>2. \A u \in Threads \ {t} : unit'[u] = unit[u] /\ pc'[u] = pc[u]
        BY <1>0, <3>1 DEF Goto
      <3> QED BY <3>1, <3>2, PendingMove
    <2> QED BY <1>2, <2>1, <2>2 DEF EnergyStep, InsertE10, InsertEnmonitor, UpdateA2,
       InsertPower, InsertAlarm, ClearCountPoint, Tables, BlockTables
  <1>3. CASE SelectController(t)
    <2>1. /\ DownIsEmpty' /\ db'.pending \subseteq db.pending
          /\ EndUnit(t) \/ (UNCHANGED loop /\ \E step \in Steps : Goto(t, step))
      BY <1>0, <1>3, PendingThrows DEF SelectController, Returns, DownIsEmpty
    <2> QED BY <1>0, <1>3, <2>1, PendingMove, EndUnitMoves DEF SelectController
  <1>4. CASE CallController(t)
    <2>1. /\ UNCHANGED <<db, link, loop>> /\ \E step \in Steps : Goto(t, step)
          /\ pc'[t] \in DirtySteps
      BY <1>0, <1>4 DEF CallController, Goto
    <2> QED BY <1>0, <2>1, PendingMove, EndUnitMoves DEF DownIsEmpty, loop
  <1>5. CASE Commit(t)
    <2>1. /\ DownIsEmpty' /\ db'.pending \subseteq db.pending
          /\ \/ db'.pending = {} /\ EndUnit(t)
             \/ UNCHANGED loop /\ Goto(t, "rollback")
      BY <1>0, <1>5, PendingThrows, SessionTypes, SessionEffects
         DEF Commit, Returns, DownIsEmpty
    <2>2. Goto(t, "rollback") => pc'[t] \in DirtySteps
      BY <1>0 DEF Goto
    <2> QED BY <1>0, <2>1, <2>2, PendingMove, EndUnitMoves DEF loop
  <1>6. CASE Rollback(t)
    <2>1. DownIsEmpty' /\ db'.pending \subseteq db.pending /\ EndUnit(t)
      BY <1>0, <1>6, PendingThrows, SessionTypes, SessionEffects
         DEF Rollback, Returns, Throws, DownIsEmpty
    <2>2. /\ AfterRollback(db) \in Session(Rows)
          /\ AfterRollback(db).pending = {} /\ AfterDisconnect(db).pending = {}
          /\ AfterDisconnect(AfterRollback(db)).pending = {}
      BY <1>0, SessionTypes, SessionEffects
    <2>3. CASE Returns(AfterRollback(db))
      BY <1>0, <2>1, <2>2, <2>3, PendingMove, EndUnitMoves DEF Returns
    <2>4. CASE Unreachable(AfterRollback(db))
      <3>1. db'.pending = {}
        BY <1>0, <2>2, <2>4 DEF Unreachable, DownIsEmpty
      <3> QED BY <1>0, <2>1, <3>1, PendingMove, EndUnitMoves
    <2> QED BY <1>6, <2>1, <2>3, <2>4 DEF Rollback
  <1>7. CASE NextRecord(t)
    <2>1. /\ UNCHANGED <<db, link>> /\ pc[t] \notin DirtySteps
          /\ EndUnit(t) \/ (UNCHANGED loop /\ \E step \in Steps : Goto(t, step))
      BY <1>7 DEF NextRecord
    <2> QED BY <1>0, <2>1, PendingMove, EndUnitMoves DEF DownIsEmpty
  <1> QED BY <1>1, <1>2, <1>3, <1>4, <1>5, <1>6, <1>7 DEF Work, CallStep, EndStep

LEMMA PendingStep == PendingInv /\ [Next]_vars => PendingInv'
  <1> SUFFICES ASSUME PendingInv, [Next]_vars PROVE DownIsEmpty' /\ PendingIsDirty'
    BY TypeStep DEF PendingInv
  <1>0. db.pending \subseteq Rows /\ pc \in [Threads -> Steps]
    BY DEF PendingInv, TypeInv, TypeOK, Session
  <1>1. ASSUME NEW t \in Threads, Work(t) PROVE DownIsEmpty' /\ PendingIsDirty'
    BY <1>1, PendingWork
  <1>2. ASSUME NEW t \in Threads, StartPacket(t) \/ StartCall(t)
        PROVE  DownIsEmpty' /\ PendingIsDirty'
    BY <1>0, <1>2 DEF StartPacket, StartCall, Goto, PendingInv, DownIsEmpty,
       PendingIsDirty, DirtySteps, Rows, loop
  <1>3. CASE LoseConnection \/ Sigterm
    BY <1>3 DEF LoseConnection, Sigterm, DownIsEmpty, PendingIsDirty, AfterDisconnect,
       PendingInv, TypeInv, TypeOK, Session
  <1>4. CASE UNCHANGED vars
    BY <1>4 DEF vars, loop, PendingInv, DownIsEmpty, PendingIsDirty
  <1> QED BY <1>1, <1>2, <1>3, <1>4 DEF Next

\* No row outlives the handler that wrote it in the session.
THEOREM NothingIsLeftPending == Spec => []NothingLeftPending
  <1>1. Init => PendingInv
    BY BoundsAssumption DEF Init, PendingInv, TypeInv, TypeOK, BusyHasUnit, Busy, Session,
       ConnectedSession, Steps, OpenSteps, DownIsEmpty, PendingIsDirty
  <1>2. PendingInv => NothingLeftPending
    BY DEF PendingInv, PendingIsDirty, NothingLeftPending, TypeInv, TypeOK, Session, Rows,
       UnitOf, OpenUnits, Current, DirtySteps, OpenSteps
  <1> QED BY <1>1, <1>2, PendingStep, PTL DEF Spec

-----------------------------------------------------------------------------
(* Faults.                                                                 *)

FaultInv == TypeInv /\ CallSteps /\ RollbackHasFault /\ AbortNeedsTwoFaults

LEMMA FaultStep == FaultInv /\ [Next]_vars => FaultInv'
  <1> SUFFICES ASSUME FaultInv, [Next]_vars
               PROVE  CallSteps' /\ RollbackHasFault' /\ AbortNeedsTwoFaults'
    BY TypeStep DEF FaultInv
  <1> USE DEF FaultInv, TypeInv, TypeOK, CallSteps, RollbackHasFault, AbortNeedsTwoFaults
  <1>1. ASSUME NEW t \in Threads, Work(t)
        PROVE  CallSteps' /\ RollbackHasFault' /\ AbortNeedsTwoFaults'
    <2> USE <1>1 DEF Goto, Returns, Throws, Unreachable, Refused, Fault, EndUnit, outcome, blame
    <2>1. CASE Begin(t)
      BY <2>1, BoundsAssumption DEF Begin
    <2>2. CASE EnergyStep(t) \/ InsertPower(t) \/ InsertAlarm(t) \/ ClearCountPoint(t)
      BY <2>2, BoundsAssumption DEF EnergyStep, InsertE10, InsertEnmonitor, UpdateA2,
         InsertPower, InsertAlarm, ClearCountPoint, Write, FindsNoRow
    <2>3. CASE SelectController(t) \/ CallController(t)
      BY <2>3, BoundsAssumption DEF SelectController, CallController
    <2>4. CASE Commit(t)
      BY <2>4, BoundsAssumption DEF Commit
    <2>5. CASE Rollback(t)
      BY <2>5, BoundsAssumption, ThreadsAssumption DEF Rollback
    <2>6. CASE NextRecord(t)
      BY <2>6 DEF NextRecord
    <2> QED BY <2>1, <2>2, <2>3, <2>4, <2>5, <2>6 DEF Work, CallStep, EndStep
  <1>2. ASSUME NEW t \in Threads, StartPacket(t) \/ StartCall(t)
        PROVE  CallSteps' /\ RollbackHasFault' /\ AbortNeedsTwoFaults'
    BY <1>2 DEF StartPacket, StartCall, Goto
  <1>3. CASE LoseConnection \/ Sigterm
    BY <1>3, BoundsAssumption DEF LoseConnection, Sigterm, Fault
  <1>4. CASE UNCHANGED vars
    BY <1>4 DEF vars
  <1> QED BY <1>1, <1>2, <1>3, <1>4 DEF Next

\* One failure does not abort the daemon.
THEOREM OneFaultDoesNotAbort == Spec => []AbortNeedsTwoFaults
  <1>1. Init => FaultInv
    BY BoundsAssumption DEF Init, FaultInv, TypeInv, TypeOK, BusyHasUnit, Busy, Session,
       ConnectedSession, Steps, OpenSteps, CallSteps, RollbackHasFault, AbortNeedsTwoFaults
  <1>2. FaultInv => AbortNeedsTwoFaults
    BY DEF FaultInv
  <1> QED BY <1>1, <1>2, FaultStep, PTL DEF Spec

-----------------------------------------------------------------------------
(* Durability.                                                             *)

PastInv == TypeInv /\ EndedIsPast /\ StoredNotFailed

LEMMA PastStep == PastInv /\ [Next]_vars => PastInv'
  <1> SUFFICES ASSUME PastInv, [Next]_vars PROVE EndedIsPast' /\ StoredNotFailed'
    BY TypeStep DEF PastInv
  <1> USE DEF PastInv, EndedIsPast, StoredNotFailed
  <1>0. /\ unit \in [Threads -> 1..(MaxUnits + 1)] /\ MaxUnits \in Nat
        /\ stored \subseteq Units /\ failed \subseteq Units
    BY BoundsAssumption DEF TypeInv, TypeOK
  <1>1. ASSUME NEW t \in Threads, Work(t) PROVE EndedIsPast' /\ StoredNotFailed'
    <2> USE <1>0, <1>1
    <2>1. CASE UNCHANGED <<unit, stored, failed>>
      BY <2>1
    <2>2. CASE Commit(t) /\ EndUnit(t) /\ stored' = stored \cup {Current(t)}
      BY <2>2 DEF Commit, EndUnit, Units, Current
    <2>3. CASE Rollback(t)
      BY <2>3 DEF Rollback, EndUnit, Units, Current
    <2>4. CASE (SelectController(t) \/ NextRecord(t)) /\ EndUnit(t)
      BY <2>4 DEF SelectController, NextRecord, EndUnit, Units, outcome
    <2>5. CASE Begin(t) \/ EnergyStep(t) \/ InsertPower(t) \/ InsertAlarm(t)
      BY <2>1, <2>5 DEF Begin, EnergyStep, InsertE10, InsertEnmonitor, UpdateA2, InsertPower,
         InsertAlarm, Write, FindsNoRow, outcome, loop
    <2>6. CASE CallStep(t) \/ NextRecord(t)
      BY <2>1, <2>4, <2>6 DEF CallStep, SelectController, ClearCountPoint, CallController,
         NextRecord, Write, FindsNoRow, outcome, loop
    <2>7. CASE Commit(t)
      BY <2>1, <2>2, <2>7 DEF Commit, loop
    <2> QED BY <2>3, <2>5, <2>6, <2>7 DEF Work, EndStep
  <1>2. ASSUME NEW t \in Threads, StartPacket(t) \/ StartCall(t)
        PROVE  EndedIsPast' /\ StoredNotFailed'
    BY <1>2 DEF StartPacket, StartCall, outcome, loop
  <1>3. CASE LoseConnection \/ Sigterm \/ UNCHANGED vars
    BY <1>3 DEF LoseConnection, Sigterm, vars, outcome, loop
  <1> QED BY <1>1, <1>2, <1>3 DEF Next

KeptInv == PendingInv /\ PastInv /\ ExecutedIsKept

LEMMA PendingAreOpen ==
  PendingInv => \A row \in db.pending : UnitOf(row) \in OpenUnits
  BY DEF PendingInv, PendingIsDirty, TypeInv, TypeOK, Session, Rows, UnitOf, OpenUnits,
     Current, DirtySteps, OpenSteps

\* What a call that throws takes from the session is recorded in cutOff.
LEMMA KeptByThrow ==
  ASSUME PendingInv, NEW after \in Session(Rows), db.committed \subseteq after.committed,
         Throws(after)
  PROVE  /\ cutOff \subseteq cutOff'
         /\ \A row \in db.pending \cup db.committed :
              row \in db'.pending \cup db'.committed \/ UnitOf(row) \in cutOff'
  BY PendingAreOpen, SessionEffects
     DEF PendingInv, TypeInv, TypeOK, Throws, Unreachable, Refused

LEMMA KeptWrite ==
  ASSUME KeptInv, NEW t \in Threads, NEW table \in Tables, NEW next, NEW caught,
         pc[t] \in Busy, Write(t, table, next, caught)
  PROVE  ExecutedIsKept'
  <1> DEFINE after == AfterWrite(db, Row(t, table))
  <1>0. db \in Session(Rows) /\ Row(t, table) \in Rows
    BY CurrentType DEF KeptInv, PendingInv, TypeInv, TypeOK
  <1>1. /\ after \in Session(Rows)
        /\ db.committed \subseteq after.committed
        /\ db.pending \subseteq after.pending
        /\ Row(t, table) \in after.pending \cup after.committed
    BY <1>0, WriteEffects
  <1>2. UNCHANGED <<rolledOver, failed>>
    BY DEF Write, outcome
  <1>3. CASE Returns(after) /\ executed' = executed \cup {Row(t, table)}
    BY <1>1, <1>2, <1>3 DEF Returns, KeptInv, ExecutedIsKept, UnitOf
  <1>4. CASE Throws(after) /\ UNCHANGED executed
    BY <1>1, <1>2, <1>4, KeptByThrow DEF KeptInv, ExecutedIsKept, UnitOf
  <1> QED BY <1>3, <1>4 DEF Write

\* An UPDATE that finds no row changes neither the session nor what was written.
LEMMA NoRowIsQuiet ==
  ASSUME NEW t \in Threads, NEW next, FindsNoRow(t, next)
  PROVE  UNCHANGED <<db, loop, executed, stored, failed, blame>> /\ Goto(t, next)
  BY DEF FindsNoRow, Returns, blame

LEMMA KeptWork == ASSUME KeptInv, NEW t \in Threads, Work(t) PROVE ExecutedIsKept'
  <1>0. db \in Session(Rows) /\ PendingInv
    BY DEF KeptInv, PendingInv, TypeInv, TypeOK
  <1> USE DEF KeptInv, ExecutedIsKept
  <1>1. CASE Begin(t)
    <2>1. /\ AfterBegin(db) \in Session(Rows) /\ UNCHANGED <<executed, failed, rolledOver>>
          /\ AfterBegin(db).committed = db.pending \cup db.committed
      BY <1>0, <1>1, SessionTypes, SessionEffects DEF Begin, outcome
    <2>2. CASE Returns(AfterBegin(db))
      BY <2>1, <2>2 DEF Returns
    <2>3. CASE Throws(AfterBegin(db))
      BY <1>0, <2>1, <2>3, KeptByThrow
    <2> QED BY <1>1, <2>2, <2>3 DEF Begin
  <1>2. CASE EnergyStep(t) \/ InsertPower(t) \/ InsertAlarm(t) \/ ClearCountPoint(t)
    <2>1. ASSUME NEW next, FindsNoRow(t, next) PROVE ExecutedIsKept'
      BY <2>1, NoRowIsQuiet DEF blame
    <2> QED BY <1>2, <2>1, KeptWrite DEF EnergyStep, InsertE10, InsertEnmonitor, UpdateA2,
       InsertPower, InsertAlarm, ClearCountPoint, Tables, BlockTables, Busy, Steps, OpenSteps
  <1>3. CASE SelectController(t)
    <2>1. UNCHANGED <<executed, failed, rolledOver>>
      BY <1>3 DEF SelectController, outcome
    <2> QED BY <1>0, <1>3, <2>1, KeptByThrow DEF SelectController, Returns
  <1>4. CASE CallController(t)
    BY <1>4 DEF CallController, outcome, blame
  <1>5. CASE Commit(t)
    <2>1. /\ AfterCommit(db) \in Session(Rows) /\ UNCHANGED <<executed, failed, rolledOver>>
          /\ AfterCommit(db).committed = db.pending \cup db.committed
      BY <1>0, <1>5, SessionTypes, SessionEffects DEF Commit
    <2> QED BY <1>0, <1>5, <2>1, KeptByThrow DEF Commit, Returns
  <1>6. CASE Rollback(t)
    <2>1. /\ AfterRollback(db) \in Session(Rows) /\ UNCHANGED executed
          /\ failed \cup {Current(t)} = failed'
          /\ AfterRollback(db).committed = db.committed
          /\ db.committed \subseteq AfterRollback(db).committed
      BY <1>0, <1>6, SessionTypes, SessionEffects DEF Rollback
    <2>2. CASE Returns(AfterRollback(db)) /\ rolledOver' = rolledOver \cup (OpenUnits \ {Current(t)})
      BY <1>0, <2>1, <2>2, PendingAreOpen DEF Returns
    <2>3. CASE Unreachable(AfterRollback(db)) /\ UNCHANGED rolledOver
      BY <1>0, <2>1, <2>3, KeptByThrow DEF Throws
    <2> QED BY <1>6, <2>2, <2>3 DEF Rollback
  <1>7. CASE NextRecord(t)
    BY <1>7 DEF NextRecord, outcome, blame
  <1> QED BY <1>1, <1>2, <1>3, <1>4, <1>5, <1>6, <1>7 DEF Work, CallStep, EndStep

LEMMA KeptStep == KeptInv /\ [Next]_vars => KeptInv'
  <1> SUFFICES ASSUME KeptInv, [Next]_vars PROVE ExecutedIsKept'
    BY PendingStep, PastStep DEF KeptInv
  <1>1. ASSUME NEW t \in Threads, Work(t) PROVE ExecutedIsKept'
    BY <1>1, KeptWork
  <1>2. ASSUME NEW t \in Threads, StartPacket(t) \/ StartCall(t) PROVE ExecutedIsKept'
    BY <1>2 DEF StartPacket, StartCall, KeptInv, ExecutedIsKept, outcome, blame
  <1>3. CASE LoseConnection \/ Sigterm
    <2>1. db \in Session(Rows) /\ \A row \in db.pending : UnitOf(row) \in OpenUnits
      BY PendingAreOpen DEF KeptInv, PendingInv, TypeInv, TypeOK
    <2> QED BY <1>3, <2>1, SessionEffects
            DEF LoseConnection, Sigterm, KeptInv, ExecutedIsKept, outcome
  <1>4. CASE UNCHANGED vars
    BY <1>4 DEF vars, KeptInv, ExecutedIsKept, outcome, blame
  <1> QED BY <1>1, <1>2, <1>3, <1>4 DEF Next

LEMMA KeptInit == Init => KeptInv
  BY BoundsAssumption DEF Init, KeptInv, PendingInv, PastInv, TypeInv, TypeOK, BusyHasUnit, Busy,
     Session, ConnectedSession, Steps, OpenSteps, DownIsEmpty, PendingIsDirty, EndedIsPast,
     StoredNotFailed, ExecutedIsKept

LEMMA KeptIsDurable == KeptInv => StoredIsDurable
  <1> SUFFICES ASSUME KeptInv, NEW u \in stored \ (rolledOver \cup cutOff),
                      NEW row \in executed, UnitOf(row) = u
               PROVE  row \in db.committed
    BY DEF StoredIsDurable, WrittenBy
  <1>1. row \in db.pending \cup db.committed
    BY DEF KeptInv, PastInv, StoredNotFailed, ExecutedIsKept
  <1>2. ASSUME row \in db.pending PROVE FALSE
    <2>1. row.unit = unit[row.thread] /\ row.thread \in Threads
      BY <1>2 DEF KeptInv, PendingInv, PendingIsDirty, TypeInv, TypeOK, Session, Rows
    <2>2. row.unit < unit[row.thread]
      BY DEF KeptInv, PastInv, EndedIsPast, UnitOf
    <2> QED BY <2>1, <2>2, BoundsAssumption DEF KeptInv, PastInv, TypeInv, TypeOK
  <1> QED BY <1>1, <1>2

\* A stored unit survives everything but a ROLLBACK or a lost connection.
THEOREM StoredUnitsAreDurable == Spec => []StoredIsDurable
  BY KeptInit, KeptStep, KeptIsDurable, PTL DEF Spec

-----------------------------------------------------------------------------
(* Isolation.                                                              *)

IsolationInv == PendingInv /\ BlockIsExplicit /\ NotStoredLeavesNothing

\* What a call that throws can make durable.
LEMMA CommittedByThrow ==
  ASSUME db \in Session(Rows), NEW after \in Session(Rows), Throws(after),
         NEW row \in db'.committed, row \notin db.committed
  PROVE  row \in after.committed /\ OpenUnits \subseteq cutOff'
  BY SessionEffects DEF Throws, Unreachable, Refused

\* A call that throws leaves the transaction open, or cuts every open unit off.
LEMMA ExplicitByThrow ==
  ASSUME db \in Session(Rows), NEW after \in Session(Rows), Throws(after)
  PROVE  cutOff \subseteq cutOff' /\ (db'.explicit = db.explicit \/ OpenUnits \subseteq cutOff')
  BY DEF Throws, Unreachable, Refused

LEMMA IsolationWrite ==
  ASSUME IsolationInv, NEW t \in Threads, NEW table \in Tables,
         NEW next \in SUBSET (Steps \ {"e10", "select", "clear"}),
         NEW caught \in Steps \ {"e10", "select", "clear"},
         pc[t] \in Busy, Write(t, table, next, caught),
         table \in BlockTables => pc[t] \in BlockWrites,
         \A step \in next \cup {caught} :
           step \in {"enmonitor", "a2"} => table \in BlockTables
  PROVE  BlockIsExplicit' /\ NotStoredLeavesNothing'
  <1> DEFINE new == Row(t, table)
             after == AfterWrite(db, new)
  <1>0. /\ db \in Session(Rows) /\ new \in Rows /\ UnitOf(new) = Current(t) /\ new.table = table
        /\ pc \in [Threads -> Steps] /\ UNCHANGED <<unit, stored, failed, committedOver, rolledOver>>
    BY CurrentType DEF IsolationInv, PendingInv, TypeInv, TypeOK, Row, UnitOf, Current, Write, outcome, loop
  <1>1. /\ after \in Session(Rows) /\ after.explicit = db.explicit
        /\ after.committed \subseteq db.committed \cup {new}
        /\ db.explicit => after.committed = db.committed
    BY <1>0, WriteEffects
  <1>2. cutOff \subseteq cutOff' /\ (db'.explicit = db.explicit \/ OpenUnits \subseteq cutOff')
    BY <1>0, <1>1, ExplicitByThrow DEF Write, Returns
  <1>3. \A row \in db'.committed \ db.committed : row = new /\ ~ db.explicit
    BY <1>0, <1>1, CommittedByThrow DEF Write, Returns
  <1>4. NotStoredLeavesNothing'
    BY <1>0, <1>2, <1>3 DEF IsolationInv, NotStoredLeavesNothing, BlockIsExplicit, Interfered
  <1>5. BlockIsExplicit'
    <2> SUFFICES ASSUME NEW u \in Threads, pc'[u] \in BlockWrites
                 PROVE  db'.explicit \/ Current(u) \in Interfered'
      BY <1>0 DEF BlockIsExplicit, Current
    <2>1. pc[u] \in BlockWrites
      BY <1>0 DEF Write, Goto, BlockWrites
    <2>2. Current(u) \in OpenUnits
      BY <2>1 DEF OpenUnits, BlockWrites, OpenSteps
    <2>3. db.explicit \/ Current(u) \in Interfered
      BY <2>1 DEF IsolationInv, BlockIsExplicit
    <2>4. Interfered \subseteq Interfered' /\ cutOff' \subseteq Interfered'
      BY <1>0, <1>2 DEF Interfered
    <2> QED BY <1>2, <2>2, <2>3, <2>4
  <1> QED BY <1>4, <1>5

LEMMA IsolationWork ==
  ASSUME IsolationInv, NEW t \in Threads, Work(t)
  PROVE  BlockIsExplicit' /\ NotStoredLeavesNothing'
  <1>0. /\ db \in Session(Rows) /\ pc \in [Threads -> Steps]
        /\ unit \in [Threads -> 1..(MaxUnits + 1)]
        /\ \A row \in db.pending : UnitOf(row) \in OpenUnits
        /\ \A u \in Threads : pc[u] \in BlockWrites => Current(u) \in OpenUnits
    BY PendingAreOpen DEF IsolationInv, PendingInv, TypeInv, TypeOK, OpenUnits, BlockWrites, OpenSteps
  <1> USE DEF IsolationInv, Interfered
  <1>1. CASE Begin(t)
    <2>1. /\ AfterBegin(db) \in Session(Rows) /\ AfterBegin(db).explicit
          /\ AfterBegin(db).committed = db.committed \cup db.pending
          /\ UNCHANGED <<unit, stored, failed, rolledOver>>
      BY <1>0, <1>1, SessionTypes, SessionEffects DEF Begin, outcome, loop
    <2>2. CASE /\ Returns(AfterBegin(db))
               /\ committedOver' = committedOver \cup OpenUnits
      <3>1. BlockIsExplicit'
        BY <2>1, <2>2 DEF Returns, BlockIsExplicit
      <3>2. NotStoredLeavesNothing'
        <4> SUFFICES ASSUME NEW row \in db'.committed, row.table \in BlockTables,
                            UnitOf(row) \notin stored
                     PROVE  UnitOf(row) \in committedOver' \cup rolledOver \cup cutOff
          BY <2>1, <2>2 DEF Returns, NotStoredLeavesNothing, UnitOf
        <4>1. row \in db.committed \/ row \in db.pending
          BY <2>1, <2>2 DEF Returns
        <4> QED BY <1>0, <2>2, <4>1 DEF NotStoredLeavesNothing
      <3> QED BY <3>1, <3>2
    <2>3. CASE /\ Throws(AfterBegin(db)) /\ Goto(t, "rollback") /\ UNCHANGED committedOver
      <3>1. NotStoredLeavesNothing'
        BY <1>0, <2>1, <2>3, CommittedByThrow, ExplicitByThrow DEF NotStoredLeavesNothing
      <3>2. BlockIsExplicit'
        BY <1>0, <2>1, <2>3, ExplicitByThrow DEF BlockIsExplicit, Goto, BlockWrites, Current
      <3> QED BY <3>1, <3>2
    <2> QED BY <1>1, <2>2, <2>3 DEF Begin
  <1>2. CASE EnergyStep(t) \/ InsertPower(t) \/ InsertAlarm(t) \/ ClearCountPoint(t)
    <2>1. ASSUME NEW next \in {"commit", "calling"}, FindsNoRow(t, next)
          PROVE  BlockIsExplicit' /\ NotStoredLeavesNothing'
      <3>1. UNCHANGED <<db, unit, stored, failed, blame>> /\ Goto(t, next)
        BY <2>1, NoRowIsQuiet DEF loop
      <3> QED BY <1>0, <3>1
              DEF Goto, BlockWrites, BlockIsExplicit, NotStoredLeavesNothing, blame, Current
    <2> QED BY <1>2, <2>1, IsolationWrite
            DEF EnergyStep, InsertE10, InsertEnmonitor, UpdateA2, InsertPower, InsertAlarm,
                ClearCountPoint, Tables, BlockTables, BlockWrites, Busy, Steps, OpenSteps
  <1>3. CASE SelectController(t)
    <2>1. UNCHANGED <<stored, failed, committedOver, rolledOver>>
      BY <1>3 DEF SelectController, outcome
    <2>2. /\ pc[t] \in BlockWrites
          /\ \A u \in Threads :
               pc'[u] \in BlockWrites => pc[u] \in BlockWrites /\ unit'[u] = unit[u]
      BY <1>0, <1>3 DEF SelectController, EndUnit, Goto, BlockWrites, loop
    <2>3. CASE Returns(db)
      BY <2>1, <2>2, <2>3 DEF Returns, BlockIsExplicit, NotStoredLeavesNothing, Current
    <2>4. CASE Throws(db)
      <3>1. NotStoredLeavesNothing'
        BY <1>0, <2>1, <2>4, CommittedByThrow, ExplicitByThrow DEF NotStoredLeavesNothing
      <3>2. BlockIsExplicit'
        BY <1>0, <2>1, <2>2, <2>4, ExplicitByThrow DEF BlockIsExplicit, Current
      <3> QED BY <3>1, <3>2
    <2> QED BY <1>3, <2>3, <2>4 DEF SelectController
  <1>4. CASE CallController(t)
    BY <1>0, <1>4 DEF CallController, Goto, BlockWrites, BlockIsExplicit, NotStoredLeavesNothing,
       outcome, blame, loop, Current
  <1>5. CASE Commit(t)
    <2>1. /\ AfterCommit(db) \in Session(Rows)
          /\ AfterCommit(db).committed = db.committed \cup db.pending
          /\ UNCHANGED <<failed, rolledOver>>
      BY <1>0, <1>5, SessionTypes, SessionEffects DEF Commit
    <2>2. \A u \in Threads : pc'[u] \in BlockWrites =>
             u # t /\ pc[u] \in BlockWrites /\ unit'[u] = unit[u]
      BY <1>0, <1>5 DEF Commit, EndUnit, Goto, BlockWrites, loop
    <2>3. CASE /\ Returns(AfterCommit(db)) /\ stored' = stored \cup {Current(t)}
               /\ committedOver' = committedOver \cup (OpenUnits \ {Current(t)})
      <3>1. \A u \in Threads : u # t => Current(u) # Current(t)
        BY DEF Current
      <3> QED BY <1>0, <1>5, <2>1, <2>2, <2>3, <3>1
              DEF Commit, Returns, BlockIsExplicit, NotStoredLeavesNothing, Current
    <2>4. CASE Throws(AfterCommit(db)) /\ UNCHANGED <<stored, committedOver>>
      <3>1. NotStoredLeavesNothing'
        BY <1>0, <2>1, <2>4, CommittedByThrow, ExplicitByThrow DEF NotStoredLeavesNothing
      <3>2. BlockIsExplicit'
        BY <1>0, <2>1, <2>2, <2>4, ExplicitByThrow DEF BlockIsExplicit, Current
      <3> QED BY <3>1, <3>2
    <2> QED BY <1>5, <2>3, <2>4 DEF Commit
  <1>6. CASE Rollback(t)
    <2>1. /\ AfterRollback(db) \in Session(Rows)
          /\ AfterRollback(db).committed = db.committed
          /\ UNCHANGED <<stored, committedOver>>
      BY <1>0, <1>6, SessionTypes, SessionEffects DEF Rollback
    <2>2. \A u \in Threads : pc'[u] \in BlockWrites =>
             Current(u) # Current(t) /\ pc[u] \in BlockWrites /\ unit'[u] = unit[u]
      BY <1>0, <1>6 DEF Rollback, EndUnit, Goto, BlockWrites, Current
    <2>3. CASE /\ Returns(AfterRollback(db))
               /\ rolledOver' = rolledOver \cup (OpenUnits \ {Current(t)})
      BY <1>0, <1>6, <2>1, <2>2, <2>3
         DEF Rollback, Returns, BlockIsExplicit, NotStoredLeavesNothing, Current
    <2>4. CASE Unreachable(AfterRollback(db)) /\ UNCHANGED rolledOver
      <3>1. NotStoredLeavesNothing'
        BY <1>0, <2>1, <2>4, CommittedByThrow, ExplicitByThrow DEF NotStoredLeavesNothing, Throws
      <3>2. BlockIsExplicit'
        BY <1>0, <2>1, <2>2, <2>4, ExplicitByThrow DEF BlockIsExplicit, Current, Throws
      <3> QED BY <3>1, <3>2
    <2> QED BY <1>6, <2>3, <2>4 DEF Rollback
  <1>7. CASE NextRecord(t)
    BY <1>0, <1>7 DEF NextRecord, EndUnit, Goto, BlockWrites, BlockIsExplicit,
       NotStoredLeavesNothing, outcome, blame, loop, Current
  <1> QED BY <1>1, <1>2, <1>3, <1>4, <1>5, <1>6, <1>7 DEF Work, CallStep, EndStep

LEMMA IsolationStep == IsolationInv /\ [Next]_vars => IsolationInv'
  <1> SUFFICES ASSUME IsolationInv, [Next]_vars PROVE BlockIsExplicit' /\ NotStoredLeavesNothing'
    BY PendingStep DEF IsolationInv
  <1>0. db \in Session(Rows) /\ pc \in [Threads -> Steps]
    BY DEF IsolationInv, PendingInv, TypeInv, TypeOK
  <1> USE DEF IsolationInv, BlockIsExplicit, NotStoredLeavesNothing, Interfered, Current
  <1>1. ASSUME NEW t \in Threads, Work(t) PROVE BlockIsExplicit' /\ NotStoredLeavesNothing'
    BY <1>1, IsolationWork
  <1>2. ASSUME NEW t \in Threads, StartPacket(t) \/ StartCall(t)
        PROVE  BlockIsExplicit' /\ NotStoredLeavesNothing'
    BY <1>0, <1>2 DEF StartPacket, StartCall, Goto, BlockWrites, outcome, blame, loop
  <1>3. CASE LoseConnection \/ Sigterm
    <2>1. \A u \in Threads : pc[u] \in BlockWrites => Current(u) \in OpenUnits
      BY DEF OpenUnits, BlockWrites, OpenSteps
    <2> QED BY <1>0, <1>3, <2>1, SessionEffects DEF LoseConnection, Sigterm, outcome, loop
  <1>4. CASE UNCHANGED vars
    BY <1>4 DEF vars, outcome, blame, loop
  <1> QED BY <1>1, <1>2, <1>3, <1>4 DEF Next

LEMMA IsolationInit == Init => IsolationInv
  BY BoundsAssumption DEF Init, IsolationInv, PendingInv, TypeInv, TypeOK, BusyHasUnit, Busy,
     Session, ConnectedSession, Steps, OpenSteps, DownIsEmpty, PendingIsDirty,
     BlockIsExplicit, BlockWrites, NotStoredLeavesNothing

\* A block becomes durable before its COMMIT only through interference.
THEOREM UnstoredUnitsLeaveNothing == Spec => []NotStoredLeavesNothing
  BY IsolationInit, IsolationStep, PTL DEF Spec, IsolationInv

-----------------------------------------------------------------------------
(* Agreement of the tables of a reading.                                   *)

ExecutedInv == PendingInv /\ WrittenIsExecuted

LEMMA ExecutedWrite ==
  ASSUME ExecutedInv, NEW t \in Threads, NEW table \in Tables, NEW next, NEW caught,
         pc[t] \in Busy, Write(t, table, next, caught),
         table \in BlockTables => pc[t] \in BlockWrites
  PROVE  WrittenIsExecuted'
  <1> DEFINE new == Row(t, table)
             after == AfterWrite(db, new)
  <1>0. db \in Session(Rows) /\ new \in Rows /\ UnitOf(new) = Current(t) /\ new.table = table
    BY CurrentType DEF ExecutedInv, PendingInv, TypeInv, TypeOK, Row, UnitOf, Current
  <1>1. /\ after \in Session(Rows)
        /\ after.pending \subseteq db.pending \cup {new}
        /\ after.committed \subseteq db.committed \cup {new}
    BY <1>0, WriteEffects
  <1>2. CASE Returns(after) /\ executed' = executed \cup {new}
    BY <1>1, <1>2 DEF Returns, ExecutedInv, WrittenIsExecuted, UnitOf
  <1>3. CASE Throws(after) /\ UNCHANGED executed
    <2>1. db'.pending \subseteq db.pending /\ cutOff \subseteq cutOff'
      BY <1>0, <1>1, <1>3, PendingThrows, ExplicitByThrow DEF ExecutedInv
    <2>2. \A row \in db'.committed \ db.committed : row = new /\ OpenUnits \subseteq cutOff'
      BY <1>0, <1>1, <1>3, CommittedByThrow
    <2>3. table \in BlockTables => Current(t) \in OpenUnits
      BY DEF OpenUnits, BlockWrites, OpenSteps
    <2> QED BY <1>0, <1>3, <2>1, <2>2, <2>3 DEF ExecutedInv, WrittenIsExecuted, UnitOf
  <1> QED BY <1>2, <1>3 DEF Write

\* Any other call makes at most the pending rows durable.
LEMMA ExecutedCall ==
  ASSUME ExecutedInv, NEW after \in Session(Rows), UNCHANGED executed,
         Returns(after) \/ Throws(after), after.pending \subseteq db.pending,
         after.committed \subseteq db.committed \cup db.pending
  PROVE  WrittenIsExecuted'
  <1>0. db \in Session(Rows)
    BY DEF ExecutedInv, PendingInv, TypeInv, TypeOK
  <1>1. db'.pending \subseteq db.pending /\ cutOff \subseteq cutOff'
    BY <1>0, PendingThrows, ExplicitByThrow DEF ExecutedInv, Returns
  <1>2. db'.committed \subseteq db.committed \cup db.pending
    BY <1>0, CommittedByThrow DEF Returns
  <1> QED BY <1>1, <1>2 DEF ExecutedInv, WrittenIsExecuted, UnitOf

LEMMA ExecutedStep == ExecutedInv /\ [Next]_vars => ExecutedInv'
  <1> SUFFICES ASSUME ExecutedInv, [Next]_vars PROVE WrittenIsExecuted'
    BY PendingStep DEF ExecutedInv
  <1>0. db \in Session(Rows)
    BY DEF ExecutedInv, PendingInv, TypeInv, TypeOK
  <1>1. ASSUME NEW t \in Threads, Work(t) PROVE WrittenIsExecuted'
    <2>1. CASE Begin(t)
      <3>1. /\ AfterBegin(db) \in Session(Rows)
            /\ AfterBegin(db).pending = {}
            /\ AfterBegin(db).committed = db.committed \cup db.pending
        BY <1>0, SessionTypes, SessionEffects
      <3>2. UNCHANGED executed /\ (Returns(AfterBegin(db)) \/ Throws(AfterBegin(db)))
        BY <2>1 DEF Begin
      <3> QED BY <3>1, <3>2, ExecutedCall
    <2>2. CASE EnergyStep(t) \/ InsertPower(t) \/ InsertAlarm(t) \/ ClearCountPoint(t)
      <3>1. ASSUME NEW next, FindsNoRow(t, next) PROVE WrittenIsExecuted'
        BY <3>1, NoRowIsQuiet DEF ExecutedInv, WrittenIsExecuted, blame, UnitOf
      <3> QED BY <2>2, <3>1, ExecutedWrite DEF EnergyStep, InsertE10, InsertEnmonitor, UpdateA2,
         InsertPower, InsertAlarm, ClearCountPoint, Tables, BlockTables, BlockWrites,
         Busy, Steps, OpenSteps
    <2>3. CASE SelectController(t)
      BY <1>0, <2>3, ExecutedCall DEF SelectController
    <2>4. CASE CallController(t)
      BY <2>4 DEF CallController, ExecutedInv, WrittenIsExecuted, blame, UnitOf
    <2>5. CASE Commit(t)
      <3>1. /\ AfterCommit(db) \in Session(Rows)
            /\ AfterCommit(db).pending = {}
            /\ AfterCommit(db).committed = db.committed \cup db.pending
        BY <1>0, SessionTypes, SessionEffects
      <3>2. UNCHANGED executed /\ (Returns(AfterCommit(db)) \/ Throws(AfterCommit(db)))
        BY <2>5 DEF Commit
      <3> QED BY <3>1, <3>2, ExecutedCall
    <2>6. CASE Rollback(t)
      BY <1>0, <2>6, ExecutedCall, SessionTypes, SessionEffects DEF Rollback, Throws
    <2>7. CASE NextRecord(t)
      BY <2>7 DEF NextRecord, ExecutedInv, WrittenIsExecuted, blame, UnitOf
    <2> QED BY <1>1, <2>1, <2>2, <2>3, <2>4, <2>5, <2>6, <2>7 DEF Work, CallStep, EndStep
  <1>2. ASSUME NEW t \in Threads, StartPacket(t) \/ StartCall(t) PROVE WrittenIsExecuted'
    BY <1>2 DEF StartPacket, StartCall, ExecutedInv, WrittenIsExecuted, blame, UnitOf
  <1>3. CASE LoseConnection \/ Sigterm
    BY <1>0, <1>3, SessionEffects DEF LoseConnection, Sigterm, ExecutedInv, WrittenIsExecuted, UnitOf
  <1>4. CASE UNCHANGED vars
    BY <1>4 DEF vars, ExecutedInv, WrittenIsExecuted, blame, UnitOf
  <1> QED BY <1>1, <1>2, <1>3, <1>4 DEF Next

OrderInv == TypeInv /\ EnergyOrder

LEMMA OrderStep == OrderInv /\ [Next]_vars => OrderInv'
  <1> SUFFICES ASSUME OrderInv, [Next]_vars PROVE EnergyOrder'
    BY TypeStep DEF OrderInv
  <1>0. /\ pc \in [Threads -> Steps] /\ unit \in [Threads -> 1..(MaxUnits + 1)]
        /\ executed \subseteq Rows
    BY DEF OrderInv, TypeInv, TypeOK
  <1> USE DEF OrderInv, EnergyOrder
  <1>1. ASSUME NEW t \in Threads, Work(t) PROVE EnergyOrder'
    <2> USE <1>0, <1>1
    <2>1. CASE InsertE10(t)
      BY <2>1, CurrentType DEF InsertE10, Write, Goto, outcome, loop, Row, Rows, UnitOf, Tables,
         BlockTables, Busy, Steps, OpenSteps
    <2>2. CASE InsertEnmonitor(t)
      BY <2>2 DEF InsertEnmonitor, Write, Goto, outcome, loop, Row, Rows, UnitOf
    <2>3. CASE UpdateA2(t)
      <3>1. CASE Write(t, "a2", {"commit"}, "rollback")
        BY <2>3, <3>1 DEF UpdateA2, Write, Goto, outcome, loop, Row, Rows, UnitOf
      <3>2. CASE FindsNoRow(t, "commit")
        BY <2>3, <3>2 DEF FindsNoRow, Goto, outcome, loop, Row, Rows, UnitOf, Current
      <3> QED BY <2>3, <3>1, <3>2 DEF UpdateA2
    <2>4. CASE InsertPower(t) \/ InsertAlarm(t) \/ ClearCountPoint(t)
      <3>1. CASE InsertPower(t) \/ InsertAlarm(t)
        BY <3>1 DEF InsertPower, InsertAlarm, Write, Goto, outcome, loop, Row, Rows, UnitOf
      <3>2. CASE ClearCountPoint(t) /\ Write(t, "monitor", {"calling"}, "rollback")
        BY <3>2 DEF ClearCountPoint, Write, Goto, outcome, loop, Row, Rows, UnitOf
      <3>3. CASE ClearCountPoint(t) /\ FindsNoRow(t, "calling")
        BY <3>3 DEF ClearCountPoint, FindsNoRow, Goto, outcome, loop, Row, Rows, UnitOf, Current
      <3> QED BY <2>4, <3>1, <3>2, <3>3 DEF ClearCountPoint
    <2>5. CASE Begin(t) \/ SelectController(t) \/ CallController(t) \/ NextRecord(t)
      <3>1. UNCHANGED <<executed, outcome>> /\ pc[t] \notin {"enmonitor", "a2", "rollback"}
        BY <2>5 DEF Begin, SelectController, CallController, NextRecord
      <3>2. \A u \in Threads : pc'[u] \in {"enmonitor", "a2"} => pc'[u] = pc[u] /\ unit'[u] = unit[u]
        BY <2>5 DEF Begin, SelectController, CallController, NextRecord, EndUnit, Goto, loop
      <3>3. \A u \in Threads : pc[u] \in {"enmonitor", "a2", "rollback"} =>
               pc'[u] = pc[u] /\ unit'[u] = unit[u]
        BY <2>5, <3>1 DEF Begin, SelectController, CallController, NextRecord, EndUnit, Goto, loop
      <3> QED BY <3>1, <3>2, <3>3 DEF outcome, Row, Rows, UnitOf
    <2>6. CASE Commit(t)
      BY <2>6 DEF Commit, EndUnit, Goto, loop, Row, Rows, UnitOf
    <2>7. CASE Rollback(t)
      BY <2>7 DEF Rollback, EndUnit, Goto, Row, Rows, UnitOf, Current
    <2> QED BY <2>1, <2>2, <2>3, <2>4, <2>5, <2>6, <2>7 DEF Work, EnergyStep, CallStep, EndStep
  <1>2. ASSUME NEW t \in Threads, StartPacket(t) \/ StartCall(t) PROVE EnergyOrder'
    BY <1>0, <1>2 DEF StartPacket, StartCall, Goto, outcome, loop, Row, Rows, UnitOf
  <1>3. CASE LoseConnection \/ Sigterm \/ UNCHANGED vars
    BY <1>3 DEF LoseConnection, Sigterm, vars, outcome, loop, Row, UnitOf
  <1> QED BY <1>1, <1>2, <1>3 DEF Next

AgreementInv == KeptInv /\ IsolationInv /\ ExecutedInv /\ OrderInv

LEMMA AgreementInit == Init => AgreementInv
  BY KeptInit, IsolationInit
     DEF AgreementInv, Init, ExecutedInv, WrittenIsExecuted, OrderInv, EnergyOrder,
         KeptInv, PendingInv, ConnectedSession

LEMMA InvariantsAgree == AgreementInv => TablesAgree
  <1> SUFFICES ASSUME AgreementInv, NEW u \in Ended \ Interfered
               PROVE  LET Has(table) == \E row \in db.committed :
                                           UnitOf(row) = u /\ row.table = table
                      IN  /\ Has("a2") => Has("e10")
                          /\ Has("e10") => Has("a2") \/ u \in unmatched
                          /\ Has("enmonitor") => Has("e10")
    BY DEF TablesAgree
  <1> DEFINE RowIn(table) == [thread |-> u[1], unit |-> u[2], table |-> table]
             Has(table) == \E row \in db.committed : UnitOf(row) = u /\ row.table = table
  <1>0. /\ db.committed \subseteq Rows /\ executed \subseteq Rows
        /\ stored \subseteq Units /\ failed \subseteq Units
    BY DEF AgreementInv, OrderInv, TypeInv, TypeOK, Session
  <1>1. CASE u \in failed
    <2>1. u \notin stored
      BY <1>1 DEF AgreementInv, KeptInv, PastInv, StoredNotFailed
    <2>2. ~ Has("e10") /\ ~ Has("a2") /\ ~ Has("enmonitor")
      BY <2>1 DEF AgreementInv, IsolationInv, NotStoredLeavesNothing, BlockTables
    <2> QED BY <2>2
  <1>2. CASE u \in stored
    <2>0. u \notin failed /\ u \in Units
      BY <1>0, <1>2 DEF AgreementInv, KeptInv, PastInv, StoredNotFailed
    <2>1. ASSUME NEW row \in Rows, UnitOf(row) = u
          PROVE  row = RowIn(row.table)
      BY <2>1 DEF Rows, UnitOf
    <2>2. ASSUME NEW table \in {"e10", "a2", "enmonitor"}
          PROVE  Has(table) <=> RowIn(table) \in executed
      <3>1. ASSUME Has(table) PROVE RowIn(table) \in executed
        <4>1. PICK row \in db.committed : UnitOf(row) = u /\ row.table = table
          BY <3>1
        <4>2. row \in executed
          BY <4>1 DEF AgreementInv, ExecutedInv, WrittenIsExecuted, BlockTables, Interfered
        <4> QED BY <1>0, <2>1, <4>1, <4>2
      <3>2. ASSUME RowIn(table) \in executed PROVE Has(table)
        <4>1. UnitOf(RowIn(table)) = u /\ RowIn(table).table = table
          BY <2>0 DEF UnitOf, Units
        <4>2. RowIn(table) \in db.committed
          BY <1>2, <3>2, <4>1, KeptIsDurable
             DEF AgreementInv, StoredIsDurable, WrittenBy, Interfered
        <4> QED BY <4>1, <4>2
      <3> QED BY <3>1, <3>2
    <2>3. RowIn("a2") \in executed \/ RowIn("enmonitor") \in executed => RowIn("e10") \in executed
      BY DEF AgreementInv, OrderInv, EnergyOrder
    <2>4. RowIn("e10") \in executed => RowIn("a2") \in executed \/ u \in unmatched
      <3>1. u[2] # unit[u[1]]
        BY <1>2, <2>0, BoundsAssumption
           DEF AgreementInv, KeptInv, PastInv, EndedIsPast, TypeInv, TypeOK, Units
      <3>2. UnitOf(RowIn("e10")) = u
        BY <2>0 DEF UnitOf, Units
      <3> QED BY <2>0, <3>1, <3>2 DEF AgreementInv, OrderInv, EnergyOrder
    <2> QED BY <2>2, <2>3, <2>4
  <1> QED BY <1>1, <1>2 DEF Ended

\* Undisturbed, the tables of a reading agree, as far as a2 has a row for it.
THEOREM TablesOfAReadingAgree == Spec => []TablesAgree
  <1>1. AgreementInv /\ [Next]_vars => AgreementInv'
    BY KeptStep, IsolationStep, ExecutedStep, OrderStep DEF AgreementInv
  <1> QED BY <1>1, AgreementInit, InvariantsAgree, PTL DEF Spec
=============================================================================
