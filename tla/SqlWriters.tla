----------------------------- MODULE SqlWriters -----------------------------
(***************************************************************************)
(* my_sql_writer and mysql_writer_factory: one MYSQL connection and one    *)
(* mutex shared by all threads, and a map from pthread_self() to the       *)
(* writer the thread executes its statements through.                      *)
(*                                                                         *)
(* A pthread identifier outlives its thread: the system gives it to a      *)
(* later one.  The writers in the map are keyed by identifiers.            *)
(***************************************************************************)
EXTENDS Naturals

CONSTANTS
  Ids,             \* pthread identifiers
  None,            \* no holder, no statement
  MaxThreads,      \* bound: threads created
  MaxStatements    \* bound: statements asked for under one identifier

ASSUME NoneAssumption == None \notin Ids /\ None \notin Ids \X (1..MaxStatements)
ASSUME BoundsAssumption == MaxThreads \in Nat /\ MaxStatements \in Nat

Statements == Ids \X (1..MaxStatements)

VARIABLES
  mutex,      \* m_mutex: the identifier holding it, or None
  reply,      \* the statement whose result waits on the connection, or None
  affected,   \* the statement mysql_affected_rows of the connection is about
  pc,         \* per identifier: where its thread is
  threads,    \* threads created so far
  asked,      \* per identifier: calls of ExecuteSQL so far
  writers,    \* identifiers that are keys of m_writers
  mResult,    \* per identifier: the statement whose rows its writer holds
  mAffected,  \* per identifier: the statement mAffectedRows is about
  done,       \* statements the server has executed
  wild        \* release deleted m_writers.end()->second: undefined behaviour

connection == <<reply, affected>>
results    == <<mResult, mAffected>>
vars       == <<mutex, connection, pc, threads, asked, writers, results, done, wild>>

\* "start": before get_thread_mySQL_writer; "returned", "threw": outside
\* ExecuteSQL; "waiting": in pthread_mutex_lock; the rest: in ExecuteSQL with
\* the mutex held, named after the next call.
Critical == {"ping", "query", "store", "count"}
Outside  == {"ready", "returned", "threw"}
Steps    == {"none", "start", "waiting"} \cup Outside \cup Critical

Statement(t) == <<t, asked[t]>>
Goto(t, step) == pc' = [pc EXCEPT ![t] = step]

-----------------------------------------------------------------------------
(* mysql_writer_factory.                                                   *)

\* pthread_create gives the new thread an identifier no live thread has.
CreateThread(t) ==
  /\ pc[t] = "none"
  /\ threads < MaxThreads
  /\ threads' = threads + 1
  /\ Goto(t, "start")
  /\ UNCHANGED <<mutex, connection, asked, writers, results, done, wild>>

\* Mutant: a writer that cannot be created is not noticed.
GetWriterUnchecked(t) ==
  /\ pc[t] = "start"
  /\ mutex = None
  /\ Goto(t, "ready")
  /\ writers' \in {writers, writers \cup {t}}
  /\ UNCHANGED <<mutex, connection, threads, asked, results, done, wild>>

\* Under the mutex: find the writer of this identifier or make one.  A writer
\* an earlier thread left behind is taken over as it is.  When the entry
\* cannot be created the caller logs, does not release and is over.
GetWriter(t) ==
  /\ pc[t] = "start"
  /\ mutex = None
  /\ \/ /\ t \in writers
        /\ Goto(t, "ready")
        /\ UNCHANGED <<writers, results>>
     \/ /\ t \notin writers
        /\ Goto(t, "ready")
        /\ writers' = writers \cup {t}
        /\ mResult' = [mResult EXCEPT ![t] = None]
        /\ mAffected' = [mAffected EXCEPT ![t] = None]
     \/ /\ t \notin writers
        /\ Goto(t, "none")
        /\ UNCHANGED <<writers, results>>
  /\ UNCHANGED <<mutex, connection, threads, asked, done, wild>>

\* The test is inverted (== m_writers.end()): a writer that is there stays,
\* and one that is not there is deleted.  A socket thread ends; the scheduled
\* thread comes back for the next invoce.
Release(t) ==
  /\ pc[t] \in Outside
  /\ mutex = None
  /\ wild' = (wild \/ t \notin writers)
  /\ \E step \in {"none", "start"} : Goto(t, step)
  /\ UNCHANGED <<mutex, connection, threads, asked, writers, results, done>>

\* invoce has nothing to do: it returns before the release.
ReturnEarly(t) ==
  /\ pc[t] = "returned"
  /\ Goto(t, "start")
  /\ UNCHANGED <<mutex, connection, threads, asked, writers, results, done, wild>>

-----------------------------------------------------------------------------
(* my_sql_writer::ExecuteSQL.                                              *)

\* Mutant: the previous result is kept until the new one replaces it.
AskKeepsResult(t) ==
  /\ pc[t] \in Outside
  /\ asked[t] < MaxStatements
  /\ asked' = [asked EXCEPT ![t] = asked[t] + 1]
  /\ Goto(t, "waiting")
  /\ UNCHANGED <<mutex, connection, threads, writers, results, done, wild>>

\* mysql_free_result and the two resets come before the mutex: the writer is
\* this thread's alone.
Ask(t) ==
  /\ pc[t] \in Outside
  /\ asked[t] < MaxStatements
  /\ asked' = [asked EXCEPT ![t] = asked[t] + 1]
  /\ mResult' = [mResult EXCEPT ![t] = None]
  /\ mAffected' = [mAffected EXCEPT ![t] = None]
  /\ Goto(t, "waiting")
  /\ UNCHANGED <<mutex, connection, threads, writers, done, wild>>

\* Mutant: statements are not serialised.
LockMissing(t) ==
  /\ pc[t] = "waiting"
  /\ Goto(t, "ping")
  /\ UNCHANGED <<mutex, connection, threads, asked, writers, results, done, wild>>

Lock(t) ==
  /\ pc[t] = "waiting"
  /\ mutex = None
  /\ mutex' = t
  /\ Goto(t, "ping")
  /\ UNCHANGED <<connection, threads, asked, writers, results, done, wild>>

\* Every exit from the critical section unlocks first.
Leave(t, step) == mutex' = None /\ Goto(t, step)

\* Mutant: the error path throws with the mutex held.
PingKeepsMutex(t) ==
  /\ pc[t] = "ping"
  /\ \E step \in {"query", "threw"} : Goto(t, step)
  /\ UNCHANGED <<mutex, connection, threads, asked, writers, results, done, wild>>

Ping(t) ==
  /\ pc[t] = "ping"
  /\ \/ Goto(t, "query") /\ UNCHANGED mutex
     \/ Leave(t, "threw")
  /\ UNCHANGED <<connection, threads, asked, writers, results, done, wild>>

\* With an unread result on the connection mysql_query is refused ("Commands
\* out of sync").  A statement that failed may have been executed.
Query(t) ==
  /\ pc[t] = "query"
  /\ \/ /\ reply = None
        /\ reply' = Statement(t)
        /\ affected' = Statement(t)
        /\ done' = done \cup {Statement(t)}
        /\ Goto(t, "store")
        /\ UNCHANGED mutex
     \/ /\ Leave(t, "threw")
        /\ done' \in {done, done \cup {Statement(t)}}
        /\ affected' = None
        /\ UNCHANGED reply
  /\ UNCHANGED <<threads, asked, writers, results, wild>>

\* Mutant: the mutex is released before mysql_affected_rows.
StoreUnlocks(t) ==
  /\ pc[t] = "store"
  /\ reply' = None
  /\ \E answer \in {reply, None} : mResult' = [mResult EXCEPT ![t] = answer]
  /\ Leave(t, "count")
  /\ UNCHANGED <<affected, threads, asked, writers, mAffected, done, wild>>

\* mysql_store_result; its failure is not told apart from a statement without
\* rows.
Store(t) ==
  /\ pc[t] = "store"
  /\ reply' = None
  /\ \E answer \in {reply, None} : mResult' = [mResult EXCEPT ![t] = answer]
  /\ Goto(t, "count")
  /\ UNCHANGED <<mutex, affected, threads, asked, writers, mAffected, done, wild>>

\* mysql_affected_rows and pthread_mutex_unlock.
Count(t) ==
  /\ pc[t] = "count"
  /\ mAffected' = [mAffected EXCEPT ![t] = affected]
  /\ Leave(t, "returned")
  /\ UNCHANGED <<connection, threads, asked, writers, mResult, done, wild>>

-----------------------------------------------------------------------------
Init ==
  /\ mutex = None
  /\ reply = None /\ affected = None
  /\ pc = [t \in Ids |-> "none"]
  /\ threads = 0
  /\ asked = [t \in Ids |-> 0]
  /\ writers = {}
  /\ mResult = [t \in Ids |-> None]
  /\ mAffected = [t \in Ids |-> None]
  /\ done = {}
  /\ wild = FALSE

Executing(t) == Lock(t) \/ Ping(t) \/ Query(t) \/ Store(t) \/ Count(t)

Next == \E t \in Ids :
  \/ CreateThread(t) \/ GetWriter(t) \/ Release(t) \/ ReturnEarly(t)
  \/ Ask(t) \/ Executing(t)

Spec     == Init /\ [][Next]_vars
\* Nothing but the scheduler of the system delays a thread that is not
\* waiting for the mutex, and libmysqlclient's calls time out; the mutex is
\* not a fair one, so a waiting thread is only promised it while it is free.
FairSpec == Spec /\ \A t \in Ids : WF_vars(Executing(t))

-----------------------------------------------------------------------------
(* Properties.                                                             *)

TypeOK ==
  /\ mutex \in Ids \cup {None}
  /\ reply \in Statements \cup {None} /\ affected \in Statements \cup {None}
  /\ pc \in [Ids -> Steps]
  /\ threads \in 0..MaxThreads
  /\ asked \in [Ids -> 0..MaxStatements]
  /\ writers \subseteq Ids
  /\ mResult \in [Ids -> Statements \cup {None}]
  /\ mAffected \in [Ids -> Statements \cup {None}]
  /\ done \subseteq Statements
  /\ wild \in BOOLEAN

\* After a call returned, the rows and the count a thread reads through its
\* writer are of the statement it just executed, and the server executed it:
\* NumRows() != 1 in the handlers is about their own UPDATE.  After a call
\* that threw there are neither: no handler goes on with an earlier result.
OwnAnswers ==
  \A t \in Ids :
    /\ pc[t] = "returned" => /\ mResult[t] \in {Statement(t), None}
                             /\ mAffected[t] = Statement(t)
                             /\ Statement(t) \in done
    /\ pc[t] = "threw" => mResult[t] = None /\ mAffected[t] = None

\* mysql_query is never refused because another thread has not yet fetched
\* its result: the connection is in sync whenever a thread may query it.
InSync == \A t \in Ids : pc[t] \in {"ping", "query"} => reply = None

\* The inverted test of release_thread_mySQL_writer never finds its condition
\* true: whoever releases is still a key of the map.
NoWildDelete == ~ wild

\* The thread that holds the mutex gives it back on every path through
\* ExecuteSQL, the two that throw included; otherwise every thread and the
\* factory wait for ever.
MutexIsFreedAgain == mutex # None ~> mutex = None

\* The call a thread is in, as its caller sees it.
CallOf(step) == IF step \in Critical \cup {"waiting"} THEN "asked"
                ELSE IF step \in {"returned", "threw"} THEN step ELSE "none"

\* Statements executed whose call has not returned yet.
InFlight == {Statement(t) : t \in {u \in Ids : pc[u] \in {"store", "count"}}}

Serial == INSTANCE SerialStatements WITH
  call    <- [t \in Ids |-> CallOf(pc[t])],
  rows    <- [t \in Ids |-> IF pc[t] = "count" THEN None ELSE mResult[t]],
  counted <- mAffected,
  done    <- done \ InFlight

\* To the handlers the writers are the abstract ones: each statement takes
\* effect at one moment of its call, whatever the other threads execute, and
\* its answer comes back to the thread that asked.
SerialSpec == Serial!Spec
=============================================================================
