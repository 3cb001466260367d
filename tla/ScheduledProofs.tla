-------------------------- MODULE ScheduledProofs --------------------------
(***************************************************************************)
(* Proofs about the scheduled actions: about CallQueue, for any number of  *)
(* rows, controllers, requests and faults, what becomes of a row whose     *)
(* call failed, and of one whose call was committed; about                 *)
(* ScheduledActions, for any number of threads, starts and stops, what     *)
(* start_actions says when it refuses.  That it starts only one thread is  *)
(* no theorem.                                                             *)
(***************************************************************************)
EXTENDS CallQueue, ScheduledActions, TLAPS

USE RowsAssumption, BoundsAssumption, BoundAssumption

\* The steps between find_controller_to_call and the end of the transaction.
InCall == {"calling", "commit", "rollback"}

\* BEGIN holds, so that no UPDATE of the call is committed by itself.
BegunInv ==
  pc \in {"select", "clear", "calling", "commit"} /\ ~ disturbed => explicit

\* The row of an undisturbed call is in the table until COMMIT.
KeptInv ==
  /\ pc \in {"clear"} \cup InCall /\ row \in Rows /\ ~ disturbed => row \in table
  /\ pc = "select" => row = 0
  /\ pc = "clear" => row \in table
  /\ pc \in {"calling", "commit"} => row \in Rows
  /\ failed => pc = "idle"

\* A committed row that is in the table was put back; so is the row of the
\* call in progress, if the session still sees it.
ServedInv ==
  /\ served \cap table \subseteq again
  /\ pc \in {"calling", "commit"} /\ row \in Requested => row \in again

IInv ==
  /\ TypeOK
  /\ PendingOnlyInCall
  /\ BegunInv
  /\ KeptInv
  /\ FailedCallIsKept
  /\ ServedInv

\* TypeOK in parts, one for each prover.
TypeSets   == table \subseteq Rows /\ pending \subseteq Rows /\ again \subseteq Rows /\ served \subseteq Rows
TypeFlags  == explicit \in BOOLEAN /\ autocommit \in BOOLEAN /\ disturbed \in BOOLEAN /\ failed \in BOOLEAN
TypeCounts == row \in 0..NRows /\ requests \in 0..MaxRequests /\ faults \in 0..MaxFaults

LEMMA IInvInit == Init => IInv
  <1> SUFFICES ASSUME Init PROVE IInv
    OBVIOUS
  <1>1. TypeOK
    <2>a. TypeSets
      BY DEF Init, TypeOK, TypeSets
    <2>b. TypeFlags
      BY DEF Init, TypeOK, TypeFlags
    <2>c. TypeCounts
      BY DEF Init, TypeOK, TypeCounts, Rows
    <2>d. pc \in Steps
      BY DEF Init, TypeOK, Steps
    <2> QED BY <2>a, <2>b, <2>c, <2>d DEF TypeOK, TypeSets, TypeFlags, TypeCounts
  <1>2. PendingOnlyInCall /\ BegunInv /\ KeptInv /\ FailedCallIsKept /\ ServedInv
    BY DEF Init, PendingOnlyInCall, BegunInv, KeptInv, FailedCallIsKept, ServedInv, Requested, InCall
  <1> QED BY <1>1, <1>2 DEF IInv

-----------------------------------------------------------------------------
(* scheduled_action_read_data::invoce.                                     *)

LEMMA BeginStep == ASSUME IInv, Begin PROVE IInv'
  <1> USE DEF IInv
  <1>1. TypeOK'
    <2>a. TypeSets'
      BY DEF Begin, Throws, Intact, Catch, Lost, Commits, Undoes, session, TypeOK, TypeSets
    <2>b. TypeFlags'
      BY DEF Begin, Throws, Intact, Catch, Lost, Commits, Undoes, session, TypeOK, TypeFlags
    <2>c. TypeCounts'
      BY DEF Begin, Throws, Intact, Catch, Lost, Commits, Undoes, session, TypeOK, TypeCounts, Rows
    <2>d. pc' \in Steps
      BY DEF Begin, Throws, Intact, Catch, Lost, Commits, Undoes, session, TypeOK, Steps
    <2> QED BY <2>a, <2>b, <2>c, <2>d DEF TypeOK, TypeSets, TypeFlags, TypeCounts
  <1>2. table' \subseteq table /\ pending' = {}
    BY DEF Begin, TypeOK, PendingOnlyInCall, Throws, Lost, Commits, Undoes, session, Intact
  <1>3. row' = 0 /\ ~ failed' /\ again' = again /\ served' = served
    BY DEF Begin
  <1>4. pc' = "rollback" \/ (pc' = "select" /\ explicit')
    BY DEF Begin, Catch
  <1>5. PendingOnlyInCall' /\ BegunInv' /\ KeptInv' /\ FailedCallIsKept'
    BY <1>2, <1>3, <1>4 DEF PendingOnlyInCall, BegunInv, KeptInv, FailedCallIsKept, Rows
  <1>6. ServedInv'
    BY <1>2, <1>3, <1>4 DEF ServedInv
  <1> QED BY <1>1, <1>5, <1>6

LEMMA SelectStep == ASSUME IInv, Select PROVE IInv'
  <1> USE DEF IInv
  <1>1. CASE Requested = {} /\ pc' = "idle" /\ Intact /\ UNCHANGED <<session, row>>
    BY <1>1 DEF Select, TypeOK, PendingOnlyInCall, BegunInv, KeptInv, FailedCallIsKept,
                ServedInv, Requested, Steps, Intact, session, history, InCall
  <1>2. CASE /\ row' \in Requested
             /\ pc' = IF row' \in Phoned THEN "clear" ELSE "rollback"
             /\ Intact /\ UNCHANGED session
    <2>1. row' \in table /\ table' = table /\ pending' = pending
      BY <1>2 DEF Requested, session
    <2>2. TypeOK'
      <3>a. TypeSets'
        BY <1>2, <2>1 DEF Select, Intact, session, history, Rows, TypeOK, TypeSets
      <3>b. TypeFlags'
        BY <1>2, <2>1 DEF Select, Intact, session, history, Rows, TypeOK, TypeFlags
      <3>c. TypeCounts'
        BY <1>2, <2>1 DEF Select, Intact, session, history, Rows, TypeOK, TypeCounts, Rows
      <3>d. pc' \in Steps
        BY <1>2, <2>1 DEF Select, Intact, session, history, Rows, TypeOK, Steps
      <3> QED BY <3>a, <3>b, <3>c, <3>d DEF TypeOK, TypeSets, TypeFlags, TypeCounts
    <2>3. pc = "select" /\ UNCHANGED <<explicit, history>> /\ pc' \in {"clear", "rollback"}
      BY <1>2 DEF Select, session
    <2> QED
      BY <2>1, <2>2, <2>3 DEF PendingOnlyInCall, BegunInv, KeptInv, FailedCallIsKept,
                ServedInv, Requested, history, InCall
  <1>3. CASE Throws(Undoes) /\ Catch /\ UNCHANGED row
    <2>1. table' = table /\ pending' = {}
      BY <1>3 DEF Select, Throws, Undoes, Lost, session, PendingOnlyInCall
    <2>2. TypeOK'
      <3>a. TypeSets'
        BY <1>3 DEF Select, Throws, Undoes, Lost, Catch, session, history, TypeOK, TypeSets
      <3>b. TypeFlags'
        BY <1>3 DEF Select, Throws, Undoes, Lost, Catch, session, history, TypeOK, TypeFlags
      <3>c. TypeCounts'
        BY <1>3 DEF Select, Throws, Undoes, Lost, Catch, session, history, TypeOK, TypeCounts, Rows
      <3>d. pc' \in Steps
        BY <1>3 DEF Select, Throws, Undoes, Lost, Catch, session, history, TypeOK, Steps
      <3> QED BY <3>a, <3>b, <3>c, <3>d DEF TypeOK, TypeSets, TypeFlags, TypeCounts
    <2> QED
      BY <1>3, <2>1, <2>2 DEF Select, Catch, PendingOnlyInCall, BegunInv, KeptInv,
                FailedCallIsKept, ServedInv, Requested, history, Rows, InCall
  <1> QED BY <1>1, <1>2, <1>3 DEF Select

LEMMA ClearStep == ASSUME IInv, Clear PROVE IInv'
  <1> USE DEF IInv
  <1>1. pc = "clear" /\ row \in table /\ pending = {} /\ row \in Rows
    BY DEF Clear, KeptInv, PendingOnlyInCall, TypeOK
  <1>2. SameAbonent(row) \subseteq Rows
    BY DEF SameAbonent, Requested, TypeOK
  <1>3. row \in SameAbonent(row)
    BY <1>1 DEF SameAbonent, Requested
  <1>4. again' = again \ {row} /\ served' = served \ {row} /\ UNCHANGED <<row, disturbed, failed>>
    BY DEF Clear
  <1>5. ~ failed
    BY <1>1 DEF KeptInv
  <1>6. CASE Intact /\ Update /\ pc' = "calling" /\ UNCHANGED <<explicit, autocommit>>
    <2>1. TypeOK'
      <3>a. TypeSets'
        BY <1>2, <1>6 DEF Clear, Intact, Update, TypeOK, TypeSets
      <3>b. TypeFlags'
        BY <1>2, <1>6 DEF Clear, Intact, Update, TypeOK, TypeFlags
      <3>c. TypeCounts'
        BY <1>2, <1>6 DEF Clear, Intact, Update, TypeOK, TypeCounts, Rows
      <3>d. pc' \in Steps
        BY <1>2, <1>6 DEF Clear, Intact, Update, TypeOK, Steps
      <3> QED BY <3>a, <3>b, <3>c, <3>d DEF TypeOK, TypeSets, TypeFlags, TypeCounts
    <2>2. table' \subseteq table /\ row \notin Requested'
      BY <1>3, <1>6 DEF Update, Requested
    <2>3. ~ disturbed => table' = table
      BY <1>1, <1>6 DEF Update, BegunInv
    <2>4. BegunInv' /\ KeptInv'
      BY <1>1, <1>4, <1>5, <1>6, <2>3 DEF BegunInv, KeptInv, InCall
    <2>5. PendingOnlyInCall' /\ FailedCallIsKept'
      BY <1>4, <1>5, <1>6 DEF PendingOnlyInCall, FailedCallIsKept
    <2>6. ServedInv'
      BY <1>4, <1>6, <2>2 DEF ServedInv
    <2> QED BY <2>1, <2>4, <2>5, <2>6
  <1>7. CASE Throws(UpdateUnanswered) /\ Catch
    <2>1. TypeOK'
      <3>a. TypeSets'
        BY <1>2, <1>7 DEF Clear, Throws, UpdateUnanswered, Lost, Undoes, Catch, session, TypeOK, TypeSets
      <3>b. TypeFlags'
        BY <1>2, <1>7 DEF Clear, Throws, UpdateUnanswered, Lost, Undoes, Catch, session, TypeOK, TypeFlags
      <3>c. TypeCounts'
        BY <1>2, <1>7 DEF Clear, Throws, UpdateUnanswered, Lost, Undoes, Catch, session, TypeOK, TypeCounts, Rows
      <3>d. pc' \in Steps
        BY <1>2, <1>7 DEF Clear, Throws, UpdateUnanswered, Lost, Undoes, Catch, session, TypeOK, Steps
      <3> QED BY <3>a, <3>b, <3>c, <3>d DEF TypeOK, TypeSets, TypeFlags, TypeCounts
    <2>2. table' \subseteq table /\ (~ disturbed => table' = table)
      BY <1>1, <1>7 DEF Throws, UpdateUnanswered, Lost, Undoes, session, BegunInv
    <2>3. pc' = "rollback"
      BY <1>7 DEF Catch
    <2>4. BegunInv' /\ KeptInv' /\ PendingOnlyInCall' /\ FailedCallIsKept'
      BY <1>1, <1>4, <1>5, <2>2, <2>3 DEF BegunInv, KeptInv, PendingOnlyInCall, FailedCallIsKept, InCall
    <2>5. ServedInv'
      BY <1>4, <2>2, <2>3 DEF ServedInv
    <2> QED BY <2>1, <2>4, <2>5
  <1> QED BY <1>6, <1>7 DEF Clear

LEMMA CallStep == ASSUME IInv, Call PROVE IInv'
  BY DEF IInv, Call, TypeOK, PendingOnlyInCall, BegunInv, KeptInv, FailedCallIsKept,
         ServedInv, Requested, Steps, session, history, InCall

LEMMA CommitStep == ASSUME IInv, Commit PROVE IInv'
  <1> USE DEF IInv
  <1>1. pc = "commit" /\ ~ failed /\ ~ failed'
    BY DEF Commit, KeptInv
  <1>2. again' = again /\ row' = row
    BY DEF Commit
  <1>3. CASE /\ Intact /\ Commits
             /\ explicit' = FALSE /\ pc' = "idle"
             /\ served' = served \cup {row}
             /\ UNCHANGED autocommit
    <2>0. row \in Rows
      BY <1>1 DEF KeptInv
    <2>1. TypeOK'
      <3>a. TypeSets'
        BY <1>3, <2>0 DEF Commit, Intact, Commits, TypeOK, TypeSets
      <3>b. TypeFlags'
        BY <1>3, <2>0 DEF Commit, Intact, Commits, TypeOK, TypeFlags
      <3>c. TypeCounts'
        BY <1>3, <2>0 DEF Commit, Intact, Commits, TypeOK, TypeCounts, Rows
      <3>d. pc' \in Steps
        BY <1>3, <2>0 DEF Commit, Intact, Commits, TypeOK, Steps
      <3> QED BY <3>a, <3>b, <3>c, <3>d DEF TypeOK, TypeSets, TypeFlags, TypeCounts
    <2>2. table' = table \ pending /\ pending' = {}
      BY <1>3 DEF Commits
    <2>3. ServedInv'
      BY <1>1, <1>2, <1>3, <2>2 DEF ServedInv, Requested
    <2> QED
      BY <1>1, <1>3, <2>1, <2>2, <2>3 DEF PendingOnlyInCall, BegunInv, KeptInv, FailedCallIsKept, InCall
  <1>4. CASE Throws(Commits) /\ Catch /\ UNCHANGED served
    <2>1. table' \subseteq table
      BY <1>4 DEF Throws, Commits, Undoes, Lost, session
    <2>2. pc' = "rollback" /\ disturbed'
      BY <1>4 DEF Commit, Catch
    <2>3. TypeOK'
      <3>a. TypeSets'
        BY <1>4 DEF Commit, Throws, Commits, Undoes, Lost, Catch, session, TypeOK, TypeSets
      <3>b. TypeFlags'
        BY <1>4 DEF Commit, Throws, Commits, Undoes, Lost, Catch, session, TypeOK, TypeFlags
      <3>c. TypeCounts'
        BY <1>4 DEF Commit, Throws, Commits, Undoes, Lost, Catch, session, TypeOK, TypeCounts, Rows
      <3>d. pc' \in Steps
        BY <1>4 DEF Commit, Throws, Commits, Undoes, Lost, Catch, session, TypeOK, Steps
      <3> QED BY <3>a, <3>b, <3>c, <3>d DEF TypeOK, TypeSets, TypeFlags, TypeCounts
    <2>4. ServedInv'
      BY <1>2, <1>4, <2>1, <2>2 DEF ServedInv
    <2> QED
      BY <1>1, <2>2, <2>3, <2>4 DEF PendingOnlyInCall, BegunInv, KeptInv, FailedCallIsKept, InCall
  <1> QED BY <1>3, <1>4 DEF Commit

LEMMA RollbackStep == ASSUME IInv, Rollback PROVE IInv'
  <1> USE DEF IInv
  <1>1. TypeOK'
    <2>a. TypeSets'
      BY DEF Rollback, Undoes, Intact, TypeOK, TypeSets
    <2>b. TypeFlags'
      BY DEF Rollback, Undoes, Intact, TypeOK, TypeFlags
    <2>c. TypeCounts'
      BY DEF Rollback, Undoes, Intact, TypeOK, TypeCounts, Rows
    <2>d. pc' \in Steps
      BY DEF Rollback, Undoes, Intact, TypeOK, Steps
    <2> QED BY <2>a, <2>b, <2>c, <2>d DEF TypeOK, TypeSets, TypeFlags, TypeCounts
  <1>2. PendingOnlyInCall' /\ BegunInv' /\ KeptInv' /\ FailedCallIsKept' /\ ServedInv'
    BY DEF Rollback, Undoes, PendingOnlyInCall, BegunInv, KeptInv, FailedCallIsKept, ServedInv, InCall
  <1> QED BY <1>1, <1>2

-----------------------------------------------------------------------------
(* Everybody else.                                                         *)

LEMMA RequestStep == ASSUME IInv, NEW r \in Rows, Request(r) PROVE IInv'
  <1> USE DEF IInv
  <1>1. TypeOK'
    <2>a. TypeSets'
      BY DEF Request, TypeOK, TypeSets
    <2>b. TypeFlags'
      BY DEF Request, TypeOK, TypeFlags
    <2>c. TypeCounts'
      BY DEF Request, TypeOK, TypeCounts, Rows
    <2>d. pc' \in Steps
      BY DEF Request, TypeOK, Steps
    <2> QED BY <2>a, <2>b, <2>c, <2>d DEF TypeOK, TypeSets, TypeFlags, TypeCounts
  <1>2. PendingOnlyInCall' /\ BegunInv' /\ KeptInv' /\ FailedCallIsKept'
    BY DEF Request, PendingOnlyInCall, BegunInv, KeptInv, FailedCallIsKept
  <1>3. ServedInv'
    BY DEF Request, ServedInv, Requested
  <1> QED BY <1>1, <1>2, <1>3

LEMMA ElsewhereStep == ASSUME IInv, CommitElsewhere \/ UndoElsewhere PROVE IInv'
  <1> USE DEF IInv
  <1>1. TypeOK'
    <2>a. TypeSets'
      BY DEF CommitElsewhere, UndoElsewhere, Commits, Undoes, TypeOK, TypeSets
    <2>b. TypeFlags'
      BY DEF CommitElsewhere, UndoElsewhere, Commits, Undoes, TypeOK, TypeFlags
    <2>c. TypeCounts'
      <3>1. CASE CommitElsewhere
        BY <3>1 DEF CommitElsewhere, TypeOK, TypeCounts
      <3>2. CASE UndoElsewhere
        BY <3>2 DEF UndoElsewhere, TypeOK, TypeCounts
      <3> QED BY <3>1, <3>2
    <2>d. pc' \in Steps
      BY DEF CommitElsewhere, UndoElsewhere, Commits, Undoes, TypeOK, Steps
    <2> QED BY <2>a, <2>b, <2>c, <2>d DEF TypeOK, TypeSets, TypeFlags, TypeCounts
  <1>2. disturbed' /\ pending' = {} /\ UNCHANGED <<pc, row, failed>>
    BY DEF CommitElsewhere, UndoElsewhere, Commits, Undoes
  <1>3. pc = "clear" => table' = table
    BY DEF CommitElsewhere, UndoElsewhere, Commits, Undoes, PendingOnlyInCall, TypeOK
  <1>4. PendingOnlyInCall' /\ BegunInv' /\ KeptInv' /\ FailedCallIsKept'
    BY <1>2, <1>3 DEF PendingOnlyInCall, BegunInv, KeptInv, FailedCallIsKept
  <1>5. ServedInv'
    BY DEF CommitElsewhere, UndoElsewhere, Commits, Undoes, ServedInv, Requested
  <1> QED BY <1>1, <1>4, <1>5

LEMMA IInvStep == IInv /\ [Next]_vars => IInv'
  <1> SUFFICES ASSUME IInv, [Next]_vars PROVE IInv'
    OBVIOUS
  <1>1. CASE UNCHANGED vars
    BY <1>1 DEF vars, session, history, IInv, TypeOK, PendingOnlyInCall, BegunInv, KeptInv,
                FailedCallIsKept, ServedInv, Requested
  <1> QED BY <1>1, BeginStep, SelectStep, ClearStep, CallStep, CommitStep, RollbackStep,
             RequestStep, ElsewhereStep DEF Next, Invoce

LEMMA IInvAlways == Spec => []IInv
  BY IInvInit, IInvStep, PTL DEF Spec

-----------------------------------------------------------------------------
\* Every variable keeps its type.
THEOREM TypeCorrect == Spec => []TypeOK
  <1>1. IInv => TypeOK
    BY DEF IInv
  <1> QED BY <1>1, IInvAlways, PTL

\* The session's uncommitted CountPoint = 0 is always that of a call between
\* its UPDATE and the end of its transaction.
THEOREM PendingIsOfTheCall == Spec => []PendingOnlyInCall
  <1>1. IInv => PendingOnlyInCall
    BY DEF IInv
  <1> QED BY <1>1, IInvAlways, PTL

\* The row of a call that failed undisturbed is in the table when invoce ends.
THEOREM FailedCallsAreKept == Spec => []FailedCallIsKept
  <1>1. IInv => FailedCallIsKept
    BY DEF IInv
  <1> QED BY <1>1, IInvAlways, PTL

\* A row whose call was committed is taken again only after it was put back.
THEOREM ServedAreNotRepeated == Spec => []ServedIsNotRepeated
  <1>1. IInv => ServedIsNotRepeated
    BY DEF IInv, KeptInv, ServedInv, ServedIsNotRepeated
  <1> QED BY <1>1, IInvAlways, PTL

-----------------------------------------------------------------------------
(* The thread of the actions.  RefusalIsTrue is inductive: a thread leaves *)
(* its loop only after it has read the flag.                               *)

ActionsInv == ActionsTypeOK /\ RefusalIsTrue

LEMMA ActionsInvInit == ActionsInit => ActionsInv
  <1> SUFFICES ASSUME ActionsInit PROVE ActionsInv
    OBVIOUS
  <1>1. at \in [Threads -> ThreadSteps] /\ calls \in 0..MaxCalls
    BY DEF ActionsInit, ThreadSteps
  <1> QED BY <1>1 DEF ActionsInit, ActionsInv, ActionsTypeOK, RefusalIsTrue

LEMMA CallerStep ==
  ASSUME ActionsInv, Start \/ StartRefused \/ Stop \/ Elapse
  PROVE  ActionsInv'
  <1> USE DEF ActionsInv, ActionsTypeOK, RefusalIsTrue
  <1>1. CASE Start
    BY <1>1 DEF Start, Goto, ThreadSteps
  <1>2. CASE StartRefused
    BY <1>2 DEF StartRefused
  <1>3. CASE Stop
    BY <1>3 DEF Stop
  <1>4. CASE Elapse
    BY <1>4 DEF Elapse
  <1> QED BY <1>1, <1>2, <1>3, <1>4

\* A thread leaves its loop only while the flag is set, and sets it to false
\* only to enter the loop.
LEMMA ThreadStep ==
  ASSUME ActionsInv, NEW t \in Threads, Run(t)
  PROVE  ActionsInv'
  <1>1. ASSUME NEW step \in Looping, at[t] \in Looping, Goto(t, step), UNCHANGED m_stop_flag
        PROVE  RefusalIsTrue'
    BY <1>1 DEF ActionsInv, ActionsTypeOK, RefusalIsTrue, Goto
  <1> USE DEF ActionsInv, ActionsTypeOK, Goto, ThreadSteps, Looping
  <1>2. CASE Enter(t)
    BY <1>2 DEF Enter, RefusalIsTrue
  <1>3. CASE Try(t)
    BY <1>1, <1>3 DEF Try
  <1>4. CASE Stamp(t)
    BY <1>1, <1>4 DEF Stamp
  <1>5. CASE CallInvoce(t)
    BY <1>1, <1>5 DEF CallInvoce
  <1>6. CASE Sleep(t)
    BY <1>1, <1>6 DEF Sleep
  <1>7. ASSUME NEW test \in Looping, NEW next \in Looping, Test(t, test, next)
        PROVE  ActionsInv'
    <2>1. CASE m_stop_flag
      BY <1>7, <2>1 DEF Test, RefusalIsTrue
    <2>2. CASE ~ m_stop_flag
      BY <1>1, <1>7, <2>2 DEF Test
    <2> QED BY <2>1, <2>2
  <1> QED BY <1>2, <1>3, <1>4, <1>5, <1>6, <1>7 DEF Run

LEMMA ActionsInvStep == ActionsInv /\ [ActionsNext]_actionsVars => ActionsInv'
  <1> SUFFICES ASSUME ActionsInv, [ActionsNext]_actionsVars PROVE ActionsInv'
    OBVIOUS
  <1>1. CASE UNCHANGED actionsVars
    BY <1>1 DEF actionsVars, ActionsInv, ActionsTypeOK, RefusalIsTrue
  <1> QED BY <1>1, CallerStep, ThreadStep DEF ActionsNext

LEMMA ActionsInvAlways == ActionsSpec => []ActionsInv
  BY ActionsInvInit, ActionsInvStep, PTL DEF ActionsSpec

\* Every variable keeps its type.
THEOREM ActionsTypeCorrect == ActionsSpec => []ActionsTypeOK
  <1>1. ActionsInv => ActionsTypeOK
    BY DEF ActionsInv
  <1> QED BY <1>1, ActionsInvAlways, PTL

\* start_actions never refuses while no thread of scheduled_actions is at work.
THEOREM RefusalsAreTrue == ActionsSpec => []RefusalIsTrue
  <1>1. ActionsInv => RefusalIsTrue
    BY DEF ActionsInv
  <1> QED BY <1>1, ActionsInvAlways, PTL
=============================================================================
