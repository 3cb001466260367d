----------------------------- MODULE CallQueue -----------------------------
(***************************************************************************)
(* The rows of the table monitor with CountPoint > 0 are a queue: the      *)
(* scheduled thread takes the first in the order of the table, sets its    *)
(* CountPoint to 0 and calls its controller; if that fails the ROLLBACK    *)
(* puts the row back where it was.  The transaction lives in the session   *)
(* all threads share, so statements of others end it in the middle; what   *)
(* they write themselves is in SharedConnection.                           *)
(***************************************************************************)
EXTENDS Naturals

CONSTANTS
  NRows,        \* rows of monitor, 1 the one "limit 0,1" returns first
  Abonent,      \* per row: Abonent; two rows can have the same
  Phoned,       \* rows whose FoneBS and Abonent are not empty
  MaxRequests,  \* bound: times a CountPoint is set
  MaxFaults     \* bound: statements that throw, and transactions undone

Rows == 1..NRows

ASSUME RowsAssumption == NRows \in Nat /\ Phoned \subseteq Rows /\ DOMAIN Abonent = Rows
ASSUME BoundsAssumption == MaxRequests \in Nat /\ MaxFaults \in Nat

VARIABLES
  table,       \* rows with CountPoint > 0, as committed
  pending,     \* rows whose CountPoint = 0 the session has not committed
  explicit,    \* the session is between BEGIN and COMMIT or ROLLBACK
  autocommit,  \* its mode: off after connect(), on after a reconnection
  pc,          \* the thread's next step in invoce
  row,         \* the row find_controller_to_call returned
  requests,    \* CountPoints set so far
  faults,      \* throwing statements and undone transactions so far
  \* History, read by the properties only:
  disturbed,   \* another thread or a lost connection ended the transaction
  again,       \* rows put back during their call: undone or set once more
  failed,      \* the last invoce ended in its catch block
  served       \* rows whose call was committed since they were last set or taken

session == <<table, pending, explicit, autocommit>>
history == <<disturbed, again, failed, served>>
vars    == <<session, pc, row, requests, faults, history>>

Steps == {"idle", "select", "clear", "calling", "commit", "rollback"}

\* What a SELECT of the session finds.
Requested == table \ pending

\* The rows "where Abonent = ... and CountPoint > 0" is about.
SameAbonent(r) == {q \in Requested : Abonent[q] = Abonent[r]}

-----------------------------------------------------------------------------
(* The session.                                                            *)

\* The server executes BEGIN, COMMIT or ROLLBACK.
Commits == table' = table \ pending /\ pending' = {}
Undoes  == UNCHANGED table /\ pending' = {}

\* The connection is gone; the next statement finds a new session.
Lost == explicit' = FALSE /\ autocommit' = TRUE

\* A statement throws: the server refused it, or the connection is lost with
\* the statement executed (its effect is done) or not.
Throws(done) ==
  /\ faults < MaxFaults
  /\ faults' = faults + 1
  /\ \/ UNCHANGED session
     \/ Lost /\ (Undoes \/ done)

Intact == UNCHANGED faults

Catch == pc' = "rollback"

-----------------------------------------------------------------------------
(* scheduled_action_read_data::invoce.                                     *)

\* Mutant: no BEGIN; the session's mode is trusted to open the transaction.
BeginMissing ==
  /\ pc = "idle"
  /\ pc' = "select" /\ row' = 0
  /\ disturbed' = FALSE /\ failed' = FALSE
  /\ UNCHANGED <<session, requests, faults, again, served>>

\* try_invoce found the interval elapsed; BEGIN.
Begin ==
  /\ pc = "idle"
  /\ disturbed' = FALSE /\ failed' = FALSE
  /\ \/ /\ Intact /\ Commits
        /\ explicit' = TRUE /\ pc' = "select"
        /\ UNCHANGED autocommit
     \/ Throws(Commits) /\ Catch
  /\ row' = 0
  /\ UNCHANGED <<requests, again, served>>

\* Mutant: the row that waits longest in the table is not the first taken.
SelectLast ==
  /\ pc = "select"
  /\ row' \in Requested
  /\ \A q \in Requested : row' >= q
  /\ pc' = IF row' \in Phoned THEN "clear" ELSE "rollback"
  /\ UNCHANGED <<session, requests, faults, history>>

\* find_controller_to_call, "limit 0,1".  Without a row invoce returns, and
\* leaves the transaction open; an empty FoneBS or Abonent throws.
Select ==
  /\ pc = "select"
  /\ \/ /\ Requested = {}
        /\ pc' = "idle"
        /\ Intact /\ UNCHANGED <<session, row>>
     \/ /\ row' \in Requested
        /\ \A q \in Requested : row' <= q
        /\ pc' = IF row' \in Phoned THEN "clear" ELSE "rollback"
        /\ Intact /\ UNCHANGED session
     \/ Throws(Undoes) /\ Catch /\ UNCHANGED row
  /\ UNCHANGED <<requests, history>>

Update ==
  IF autocommit /\ ~ explicit
  THEN table' = table \ SameAbonent(row) /\ UNCHANGED pending
  ELSE pending' = pending \cup SameAbonent(row) /\ UNCHANGED table

\* The same statement whose answer is lost with the connection.
UpdateUnanswered ==
  /\ pending' = {}
  /\ table' = IF autocommit /\ ~ explicit THEN table \ SameAbonent(row) ELSE table

\* Mutant: the row is left as it is.
ClearNothing ==
  /\ pc = "clear"
  /\ pc' = "calling"
  /\ again' = again \ {row} /\ served' = served \ {row}
  /\ UNCHANGED <<session, row, requests, faults, disturbed, failed>>

\* update monitor set CountPoint = 0 where Abonent = ... and CountPoint > 0.
Clear ==
  /\ pc = "clear"
  /\ \/ /\ Intact /\ Update
        /\ pc' = "calling"
        /\ UNCHANGED <<explicit, autocommit>>
     \/ Throws(UpdateUnanswered) /\ Catch
  /\ again' = again \ {row} /\ served' = served \ {row}
  /\ UNCHANGED <<row, requests, disturbed, failed>>

\* The modem: a call that is answered, or taken for one, or an exception.
Call ==
  /\ pc = "calling"
  /\ pc' \in {"commit", "rollback"}
  /\ UNCHANGED <<session, row, requests, faults, history>>

Commit ==
  /\ pc = "commit"
  /\ \/ /\ Intact /\ Commits
        /\ explicit' = FALSE /\ pc' = "idle"
        /\ served' = served \cup {row}
        /\ UNCHANGED autocommit
     \/ Throws(Commits) /\ Catch /\ UNCHANGED served
  /\ disturbed' = (disturbed \/ pc' = "rollback")
  /\ UNCHANGED <<row, requests, again, failed>>

\* Mutant: the catch block logs and does not roll back.
RollbackMissing ==
  /\ pc = "rollback"
  /\ failed' = TRUE /\ pc' = "idle"
  /\ UNCHANGED <<session, row, requests, faults, disturbed, again, served>>

\* A server that can be reached does not refuse ROLLBACK; one that cannot has
\* rolled back with the connection.
Rollback ==
  /\ pc = "rollback"
  /\ Undoes
  /\ explicit' = FALSE
  /\ failed' = TRUE /\ pc' = "idle"
  /\ \/ Intact /\ UNCHANGED autocommit
     \/ faults < MaxFaults /\ faults' = faults + 1 /\ autocommit' = TRUE
  /\ UNCHANGED <<row, requests, disturbed, again, served>>

-----------------------------------------------------------------------------
(* Everybody else.                                                         *)

\* The operator's program sets CountPoint; it waits for the lock on a row this
\* session has an uncommitted UPDATE of.
Request(r) ==
  /\ requests < MaxRequests
  /\ r \notin pending
  /\ requests' = requests + 1
  /\ table' = table \cup {r}
  /\ served' = served \ {r}
  /\ again' = IF pc \in {"calling", "commit"} THEN again \cup {r} ELSE again \ {r}
  /\ UNCHANGED <<pending, explicit, autocommit, pc, row, faults, disturbed, failed>>

\* A socket thread's BEGIN or COMMIT.
CommitElsewhere ==
  /\ Commits
  /\ explicit' \in BOOLEAN
  /\ disturbed' = TRUE
  /\ UNCHANGED <<autocommit, pc, row, requests, faults, again, failed, served>>

\* A socket thread's ROLLBACK, or the connection is lost.
UndoElsewhere ==
  /\ faults < MaxFaults
  /\ faults' = faults + 1
  /\ Undoes
  /\ explicit' = FALSE
  /\ autocommit' \in {autocommit, TRUE}
  /\ disturbed' = TRUE /\ again' = again \cup pending
  /\ UNCHANGED <<pc, row, requests, failed, served>>

-----------------------------------------------------------------------------
Init ==
  /\ table = {} /\ pending = {}
  /\ explicit = FALSE /\ autocommit = FALSE
  /\ pc = "idle" /\ row = 0
  /\ requests = 0 /\ faults = 0
  /\ disturbed = FALSE /\ failed = FALSE
  /\ again = {} /\ served = {}

Invoce == Begin \/ Select \/ Clear \/ Call \/ Commit \/ Rollback

Next ==
  \/ Invoce
  \/ CommitElsewhere \/ UndoElsewhere
  \/ \E r \in Rows : Request(r)

Spec == Init /\ [][Next]_vars
\* thread_function comes back to invoce; no statement lasts for ever, and a call
\* does only if the modem never stops sending (ModemPort!InvoceEnds).
FairSpec == Spec /\ WF_vars(Invoce)

-----------------------------------------------------------------------------
(* Properties.                                                             *)

TypeOK ==
  /\ table \subseteq Rows /\ pending \subseteq Rows
  /\ explicit \in BOOLEAN /\ autocommit \in BOOLEAN
  /\ pc \in Steps /\ row \in 0..NRows
  /\ requests \in 0..MaxRequests /\ faults \in 0..MaxFaults
  /\ disturbed \in BOOLEAN /\ failed \in BOOLEAN
  /\ again \subseteq Rows /\ served \subseteq Rows

\* The session has an uncommitted CountPoint = 0 only while invoce is between
\* its UPDATE and the end of its transaction: no later BEGIN of any thread can
\* commit the UPDATE of a call that failed.
PendingOnlyInCall == pending # {} => pc \in {"calling", "commit", "rollback"}

\* A call that failed leaves its row to be called again, unless statements of
\* another thread or a lost connection came between (see
\* SharedConnection!RolledBackCallLeavesNothing for when they do).
FailedCallIsKept ==
  failed /\ row \in Rows /\ ~ disturbed => row \in table

\* When COMMIT has returned the row is not taken before it is set again, unless
\* it was set, or its UPDATE undone, in the middle of the call.
ServedIsNotRepeated ==
  pc = "clear" /\ row \in served => row \in again

\* A row waits for ever only behind a call that fails again and again, its own
\* or that of a row before it in the table: the queue has no other way to
\* stand still, and a row with an empty number is such a call.
WaitsOnlyForFailures ==
  \A r \in Rows :
    <>[](r \in table) => \E q \in 1..r : []<>(pc = "rollback" /\ row = q)
=============================================================================
