-------------------------- MODULE SqlWritersProofs --------------------------
(***************************************************************************)
(* Proofs about SqlWriters, for any set of identifiers and any bounds: the *)
(* safety properties, and that it implements SerialStatements.             *)
(***************************************************************************)
EXTENDS SqlWriters, TLAPS

\* Exactly the holder of the mutex is inside ExecuteSQL's critical section.
MutualExclusion == \A t \in Ids : pc[t] \in Critical <=> mutex = t

\* A thread past get_thread_mySQL_writer has a writer and, once it has asked
\* for something, a statement.
HasWriter == \A t \in Ids : pc[t] \notin {"none", "start"} => t \in writers
HasStatement ==
  \A t \in Ids : pc[t] \in Critical \cup {"waiting", "returned", "threw"} => asked[t] >= 1

\* The result on the connection is the one the holder is about to store.
ReplyOfHolder ==
  /\ reply # None => \E t \in Ids : pc[t] = "store"
  /\ \A t \in Ids : pc[t] = "store" => reply = Statement(t)
  /\ \A t \in Ids : pc[t] \in {"store", "count"} =>
       affected = Statement(t) /\ Statement(t) \in done

\* What the writer holds at each step of a call.
ResultsByStep ==
  \A t \in Ids :
    /\ pc[t] \in {"waiting", "ping", "query", "store", "threw"} =>
         mResult[t] = None /\ mAffected[t] = None
    /\ pc[t] = "count" => mResult[t] \in {Statement(t), None} /\ mAffected[t] = None
    /\ t \notin writers => mResult[t] = None /\ mAffected[t] = None

\* A statement is executed after it was asked for, and once.
DoneWasAsked ==
  /\ \A s \in done : s[2] <= asked[s[1]]
  /\ \A t \in Ids : pc[t] \in {"waiting", "ping", "query"} => Statement(t) \notin done

IInv == /\ TypeOK /\ MutualExclusion /\ HasWriter /\ HasStatement /\ ReplyOfHolder
        /\ ResultsByStep /\ OwnAnswers /\ DoneWasAsked /\ NoWildDelete

-----------------------------------------------------------------------------
(* The inductive invariant.                                                *)

LEMMA IInvInit == Init => IInv
  <1> SUFFICES ASSUME Init PROVE IInv
    OBVIOUS
  <1>1. TypeOK
    <2>1. pc \in [Ids -> Steps] /\ asked \in [Ids -> 0..MaxStatements] /\ threads \in 0..MaxThreads
      BY BoundsAssumption DEF Init, Steps
    <2>2. mResult \in [Ids -> Statements \cup {None}] /\ mAffected \in [Ids -> Statements \cup {None}]
      BY DEF Init
    <2> QED BY <2>1, <2>2 DEF Init, TypeOK
  <1>2. \A t \in Ids : pc[t] = "none" /\ mutex # t
    BY NoneAssumption DEF Init
  <1> QED BY <1>1, <1>2
          DEF Init, IInv, MutualExclusion, HasWriter, HasStatement, ReplyOfHolder,
              ResultsByStep, OwnAnswers, DoneWasAsked, NoWildDelete, Critical

LEMMA IInvStep == IInv /\ [Next]_vars => IInv'
  <1> SUFFICES ASSUME IInv, [Next]_vars PROVE IInv'
    OBVIOUS
  <1> USE NoneAssumption, BoundsAssumption
      DEF IInv, TypeOK, MutualExclusion, HasWriter, HasStatement, ReplyOfHolder,
          ResultsByStep, OwnAnswers, DoneWasAsked, NoWildDelete, Steps, Critical, Outside,
          Statement, Statements, Goto, Leave, connection, results
  <1>1. ASSUME NEW t \in Ids, CreateThread(t) PROVE IInv'
    BY <1>1 DEF CreateThread
  <1>2. ASSUME NEW t \in Ids, GetWriter(t) PROVE IInv'
    BY <1>2 DEF GetWriter
  <1>3. ASSUME NEW t \in Ids, Release(t) PROVE IInv'
    BY <1>3 DEF Release
  <1>4. ASSUME NEW t \in Ids, ReturnEarly(t) PROVE IInv'
    BY <1>4 DEF ReturnEarly
  <1>5. ASSUME NEW t \in Ids, Ask(t) PROVE IInv'
    BY <1>5 DEF Ask
  <1>6. ASSUME NEW t \in Ids, Lock(t) PROVE IInv'
    BY <1>6 DEF Lock
  <1>7. ASSUME NEW t \in Ids, Ping(t) PROVE IInv'
    BY <1>7 DEF Ping
  <1>8. ASSUME NEW t \in Ids, Query(t) PROVE IInv'
    BY <1>8 DEF Query
  <1>9. ASSUME NEW t \in Ids, Store(t) PROVE IInv'
    BY <1>9 DEF Store
  <1>10. ASSUME NEW t \in Ids, Count(t) PROVE IInv'
    BY <1>10 DEF Count
  <1>11. CASE UNCHANGED vars
    BY <1>11 DEF vars
  <1> QED BY <1>1, <1>2, <1>3, <1>4, <1>5, <1>6, <1>7, <1>8, <1>9, <1>10, <1>11 DEF Next, Executing

\* Every reachable state is well typed.
THEOREM TypeCorrect == Spec => []TypeOK
  BY IInvInit, IInvStep, PTL DEF Spec, IInv

\* What a thread reads through its writer is about its own last statement.
THEOREM AnswersAreOwn == Spec => []OwnAnswers
  BY IInvInit, IInvStep, PTL DEF Spec, IInv

\* No thread finds another thread's result on the connection.
THEOREM ConnectionInSync == Spec => []InSync
  <1>1. IInv => InSync
    BY NoneAssumption DEF IInv, MutualExclusion, ReplyOfHolder, InSync, Critical
  <1> QED BY <1>1, IInvInit, IInvStep, PTL DEF Spec

\* release_thread_mySQL_writer never deletes what the map does not hold.
THEOREM ReleaseIsHarmless == Spec => []NoWildDelete
  BY IInvInit, IInvStep, PTL DEF Spec, IInv

-----------------------------------------------------------------------------
(* SqlWriters implements SerialStatements.                                 *)

LEMMA InitRefines == Init => Serial!Init
  BY DEF Init, Serial!Init, CallOf, Critical, InFlight

\* Only the holder of the mutex has a statement in flight.
LEMMA OneInFlight ==
  ASSUME IInv, NEW t \in Ids, mutex = t \/ mutex = None
  PROVE  InFlight = IF mutex = t /\ pc[t] \in {"store", "count"} THEN {Statement(t)} ELSE {}
  BY NoneAssumption DEF IInv, MutualExclusion, InFlight, Critical

LEMMA StepRefines == IInv /\ IInv' /\ [Next]_vars => [Serial!Next]_(Serial!vars)
  <1> SUFFICES ASSUME IInv, IInv', [Next]_vars PROVE [Serial!Next]_(Serial!vars)
    OBVIOUS
  <1> USE DEF Serial!vars, CallOf, Goto, Leave, connection, results, Critical, Outside
  <1>0. /\ pc \in [Ids -> Steps] /\ asked \in [Ids -> 0..MaxStatements]
        /\ mResult \in [Ids -> Statements \cup {None}]
    BY DEF IInv, TypeOK
  <1>1. ASSUME NEW t \in Ids, CreateThread(t) \/ GetWriter(t)
        PROVE  UNCHANGED Serial!vars
    <2>1. InFlight' = InFlight
      BY <1>0, <1>1 DEF CreateThread, GetWriter, InFlight, Statement
    <2>2. UNCHANGED <<mResult, mAffected>>
      BY <1>0, <1>1 DEF CreateThread, GetWriter, IInv, ResultsByStep, TypeOK
    <2> QED BY <1>0, <1>1, <2>1, <2>2 DEF CreateThread, GetWriter
  <1>2. ASSUME NEW t \in Ids, Release(t) \/ ReturnEarly(t)
        PROVE  Serial!Forget(t)
    <2>1. InFlight' = InFlight
      BY <1>0, <1>2 DEF Release, ReturnEarly, InFlight, Statement
    <2> QED BY <1>0, <1>2, <2>1 DEF Release, ReturnEarly, Serial!Forget
  <1>3. ASSUME NEW t \in Ids, Ask(t)
        PROVE  Serial!Ask(t)
    <2>1. InFlight' = InFlight
      BY <1>0, <1>3 DEF Ask, InFlight, Statement
    <2> QED BY <1>0, <1>3, <2>1 DEF Ask, Serial!Ask
  <1>4. ASSUME NEW t \in Ids, Lock(t) \/ (Ping(t) /\ UNCHANGED mutex)
        PROVE  UNCHANGED Serial!vars
    <2>1. InFlight' = InFlight
      BY <1>0, <1>4 DEF Lock, Ping, InFlight, Statement
    <2> QED BY <1>0, <1>4, <2>1, NoneAssumption DEF Lock, Ping, IInv, MutualExclusion
  <1>5. ASSUME NEW t \in Ids, Ping(t), mutex' # mutex
        PROVE  Serial!Throw(t)
    <2>1. InFlight' = InFlight
      BY <1>0, <1>5 DEF Ping, InFlight, Statement
    <2> QED BY <1>0, <1>5, <2>1 DEF Ping, Serial!Throw
  <1>6. ASSUME NEW t \in Ids, Query(t)
        PROVE  UNCHANGED Serial!vars \/ Serial!Throw(t)
    <2>1. mutex = t /\ InFlight = {}
      BY <1>6, OneInFlight DEF Query, IInv, MutualExclusion
    <2>2. Statement(t) \notin done /\ asked' = asked
      BY <1>6 DEF Query, IInv, DoneWasAsked
    <2>3. CASE Goto(t, "store")
      <3>1. InFlight' = {Statement(t)} /\ done' = done \cup {Statement(t)}
        BY <1>0, <1>6, <2>1, <2>3 DEF Query, InFlight, Statement, IInv, MutualExclusion
      <3> QED BY <1>0, <1>6, <2>1, <2>2, <2>3, <3>1 DEF Query
    <2>4. CASE Leave(t, "threw")
      <3>1. InFlight' = {}
        BY <1>0, <1>6, <2>1, <2>4 DEF Query, InFlight, Statement, IInv, MutualExclusion
      <3>2. done' \in {done, done \cup {Statement(t)}} /\ Serial!Statement(t) = Statement(t)
        BY <1>6, <2>4 DEF Query, Serial!Statement, Statement
      <3> QED BY <1>0, <1>6, <2>1, <2>4, <3>1, <3>2 DEF Query, Serial!Throw
    <2> QED BY <1>6, <2>3, <2>4 DEF Query
  <1>7. ASSUME NEW t \in Ids, Store(t)
        PROVE  UNCHANGED Serial!vars
    <2>1. InFlight' = InFlight
      BY <1>0, <1>7 DEF Store, InFlight, Statement
    <2>2. mResult[t] = None
      BY <1>7 DEF Store, IInv, ResultsByStep
    <2> QED BY <1>0, <1>7, <2>1, <2>2 DEF Store
  <1>8. ASSUME NEW t \in Ids, Count(t)
        PROVE  Serial!Return(t)
    <2>1. /\ mutex = t /\ InFlight = {Statement(t)} /\ affected = Statement(t)
          /\ Statement(t) \in done /\ mResult[t] \in {Statement(t), None}
      BY <1>8, OneInFlight DEF Count, IInv, MutualExclusion, ReplyOfHolder, ResultsByStep
    <2>2. InFlight' = {}
      BY <1>0, <1>8, <2>1 DEF Count, InFlight, Statement, IInv, MutualExclusion
    <2>3. Serial!Statement(t) = Statement(t)
      BY DEF Serial!Statement, Statement
    <2> QED BY <1>0, <1>8, <2>1, <2>2, <2>3 DEF Count, Serial!Return
  <1>9. CASE UNCHANGED vars
    BY <1>9 DEF vars, InFlight, Statement
  <1> QED BY <1>1, <1>2, <1>3, <1>4, <1>5, <1>6, <1>7, <1>8, <1>9
          DEF Next, Executing, Ping, Serial!Next

\* To the handlers the writers are the serial ones of SerialStatements.
THEOREM WritersAreSerial == Spec => SerialSpec
  BY InitRefines, IInvInit, IInvStep, StepRefines, PTL DEF Spec, SerialSpec, Serial!Spec
=============================================================================
