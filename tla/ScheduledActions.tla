-------------------------- MODULE ScheduledActions --------------------------
(***************************************************************************)
(* scheduled_actions: start_actions makes a detached thread that tries     *)
(* every action and sleeps; stop_actions and the thread share one flag.    *)
(* scheduled_action::try_invoce invokes an action once its interval is     *)
(* over.  main calls start_actions once; here one caller uses the class as *)
(* its interface allows, a start and a stop at any time.                   *)
(*                                                                         *)
(* The flag is a plain bool.  It is read between calls the compiler cannot *)
(* see into, so each test reads the value last written.                    *)
(***************************************************************************)
EXTENDS Naturals

CONSTANTS
  Threads,   \* threads start_actions may create
  MaxCalls   \* bound: calls of start_actions and stop_actions

ASSUME BoundAssumption == MaxCalls \in Nat

VARIABLES
  m_stop_flag,
  due,     \* m_interval_between_invoc has passed since m_time_of_prev_invoc
  at,      \* per thread: its step in thread_function and try_invoce
  calls    \* calls of start_actions and stop_actions so far

actionsVars == <<m_stop_flag, due, at, calls>>

\* "while" and "after" are the two tests of the flag.
Looping == {"while", "try", "stamp", "invoce", "after", "sleep"}
ThreadSteps   == Looping \cup {"none", "created"}

Goto(t, step) == at' = [at EXCEPT ![t] = step]

-----------------------------------------------------------------------------
(* The caller.                                                             *)

\* A start that is not refused; pthread_create may fail, which is logged.
Start ==
  /\ calls < MaxCalls
  /\ calls' = calls + 1
  /\ m_stop_flag
  /\ \/ \E t \in Threads : at[t] = "none" /\ Goto(t, "created")
     \/ UNCHANGED at
  /\ UNCHANGED <<m_stop_flag, due>>

\* "Actions thread is already started. Call stop_actions first."
StartRefused ==
  /\ calls < MaxCalls
  /\ calls' = calls + 1
  /\ ~ m_stop_flag
  /\ UNCHANGED <<m_stop_flag, due, at>>

\* stop_actions.
Stop ==
  /\ calls < MaxCalls
  /\ calls' = calls + 1
  /\ m_stop_flag' = TRUE
  /\ UNCHANGED <<due, at>>

-----------------------------------------------------------------------------
(* thread_function and try_invoce.                                         *)

\* Mutant: the thread can end between clearing the flag and its loop.
EnterAfterLoop(t) ==
  /\ at[t] = "created"
  /\ m_stop_flag' = FALSE
  /\ \E step \in {"while", "none"} : Goto(t, step)
  /\ UNCHANGED <<due, calls>>

\* The new thread itself clears the flag.
Enter(t) ==
  /\ at[t] = "created"
  /\ m_stop_flag' = FALSE
  /\ Goto(t, "while")
  /\ UNCHANGED <<due, calls>>

\* Mutant: the thread goes on whatever the flag.
TestOnce(t, test, next) ==
  /\ at[t] = test
  /\ Goto(t, next)
  /\ UNCHANGED <<m_stop_flag, due, calls>>

\* A test of the flag: the thread ends, or goes on with next.
Test(t, test, next) ==
  /\ at[t] = test
  /\ Goto(t, IF m_stop_flag THEN "none" ELSE next)
  /\ UNCHANGED <<m_stop_flag, due, calls>>

\* The only action, scheduled_action_read_data: is its interval over?
Try(t) ==
  /\ at[t] = "try"
  /\ Goto(t, IF due THEN "stamp" ELSE "after")
  /\ UNCHANGED <<m_stop_flag, due, calls>>

\* m_time_of_prev_invoc = time(NULL), before the call.
Stamp(t) ==
  /\ at[t] = "stamp"
  /\ due' = FALSE
  /\ Goto(t, "invoce")
  /\ UNCHANGED <<m_stop_flag, calls>>

\* invoce returns whatever becomes of the call, see CallQueue.
CallInvoce(t) ==
  /\ at[t] = "invoce"
  /\ Goto(t, "after")
  /\ UNCHANGED <<m_stop_flag, due, calls>>

Sleep(t) ==
  /\ at[t] = "sleep"
  /\ Goto(t, "while")
  /\ UNCHANGED <<m_stop_flag, due, calls>>

\* Time passes.
Elapse ==
  /\ ~ due
  /\ due' = TRUE
  /\ UNCHANGED <<m_stop_flag, at, calls>>

-----------------------------------------------------------------------------
\* The constructors; scheduled_action_read_data waits for one interval.
ActionsInit ==
  /\ m_stop_flag = TRUE
  /\ due = FALSE
  /\ at = [t \in Threads |-> "none"]
  /\ calls = 0

Run(t) ==
  \/ Enter(t) \/ Try(t) \/ Stamp(t) \/ CallInvoce(t) \/ Sleep(t)
  \/ Test(t, "while", "try") \/ Test(t, "after", "sleep")

ActionsNext ==
  \/ Start \/ StartRefused \/ Stop \/ Elapse
  \/ \E t \in Threads : Run(t)

ActionsSpec == ActionsInit /\ [][ActionsNext]_actionsVars

\* invoce ends (CallQueue, ModemPort) and so does a sleep.
FairActionsSpec == ActionsSpec /\ \A t \in Threads : WF_actionsVars(Run(t))

-----------------------------------------------------------------------------
(* Properties.                                                             *)

ActionsTypeOK ==
  /\ m_stop_flag \in BOOLEAN /\ due \in BOOLEAN
  /\ at \in [Threads -> ThreadSteps]
  /\ calls \in 0..MaxCalls

\* A start is refused with "already started" only while a thread is in its
\* loop, and one that has not seen a stop: however starts and stops and the
\* threads they make and end overlap.
RefusalIsTrue == ~ m_stop_flag => \E t \in Threads : at[t] \in Looping

\* A stop ends every thread there is, unless a thread created but not yet
\* running clears the flag again.
StopIsObeyed ==
  m_stop_flag ~> \/ ~ m_stop_flag
                 \/ \A t \in Threads : at[t] = "none"
=============================================================================
