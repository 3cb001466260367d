-------------------------- MODULE SerialStatements --------------------------
(***************************************************************************)
(* What my_sql_writer promises the handlers: a call of ExecuteSQL either   *)
(* throws or returns, at one moment the server executes the statement, and *)
(* what the caller then reads through its writer is about that statement.  *)
(*                                                                         *)
(* A statement is <<t, n>>, the n-th that thread identifier t asks for.    *)
(***************************************************************************)
EXTENDS Naturals

CONSTANTS
  Ids,            \* pthread identifiers
  None,           \* no statement
  MaxStatements   \* bound: statements asked for under one identifier

VARIABLES
  call,     \* per identifier: "none" | "asked" | "returned" | "threw"
  asked,    \* per identifier: statements asked for so far
  done,     \* statements the server has executed
  rows,     \* per identifier: the statement whose rows FetchRow gives
  counted   \* per identifier: the statement NumRows is about

vars == <<call, asked, done, rows, counted>>

Statement(t) == <<t, asked[t]>>

Init ==
  /\ call = [t \in Ids |-> "none"]
  /\ asked = [t \in Ids |-> 0]
  /\ done = {}
  /\ rows = [t \in Ids |-> None]
  /\ counted = [t \in Ids |-> None]

Ask(t) ==
  /\ call[t] # "asked"
  /\ asked[t] < MaxStatements
  /\ call' = [call EXCEPT ![t] = "asked"]
  /\ asked' = [asked EXCEPT ![t] = asked[t] + 1]
  /\ rows' = [rows EXCEPT ![t] = None]
  /\ counted' = [counted EXCEPT ![t] = None]
  /\ UNCHANGED done

\* A statement without rows, or whose rows were lost on the way, has none.
Return(t) ==
  /\ call[t] = "asked"
  /\ call' = [call EXCEPT ![t] = "returned"]
  /\ done' = done \cup {Statement(t)}
  /\ \E answer \in {Statement(t), None} : rows' = [rows EXCEPT ![t] = answer]
  /\ counted' = [counted EXCEPT ![t] = Statement(t)]
  /\ UNCHANGED asked

\* The caller cannot tell whether the server executed the statement.
Throw(t) ==
  /\ call[t] = "asked"
  /\ call' = [call EXCEPT ![t] = "threw"]
  /\ done' \in {done, done \cup {Statement(t)}}
  /\ UNCHANGED <<asked, rows, counted>>

\* The thread is over; its identifier may be another thread's later.
Forget(t) ==
  /\ call[t] # "asked"
  /\ call' = [call EXCEPT ![t] = "none"]
  /\ UNCHANGED <<asked, done, rows, counted>>

Next == \E t \in Ids : Ask(t) \/ Return(t) \/ Throw(t) \/ Forget(t)

Spec == Init /\ [][Next]_vars
=============================================================================
