------------------------------- MODULE Daemon -------------------------------
(***************************************************************************)
(* The processes of the program and the init script that starts and stops  *)
(* them.  A process forks, locks its pid file, records its pid in it and   *)
(* goes on to serve; the script's start-stop-daemon finds a process by     *)
(* that file, or by its executable.  The lock is on the file, the name of  *)
(* the file is what do_stop removes.  Scripts run one after the other or,  *)
(* when two people or a supervisor call them, together.                    *)
(***************************************************************************)
EXTENDS Naturals

CONSTANTS
  NPids,      \* pids are 1..NPids
  Shorts,     \* pids up to this one have fewer digits than the others
  Scripts,    \* runs of /etc/init.d/electricity_meter
  MaxFaults   \* bound: forks, loads and connects that fail, and crashes

ASSUME PidsAssumption == NPids \in Nat /\ Shorts \in Nat
ASSUME BoundAssumption == MaxFaults \in Nat

Pids   == 1..NPids
Inodes == 1..(NPids + 1)  \* files that were the pid file and are still open
Empty  == 0               \* what a pid file without a pid names
Mixed  == NPids + 1       \* and one that holds digits of two

VARIABLES
  proc,     \* per pid: where the process is in daemonize and main
  file,     \* per pid: the inode it has open as lock file, 0 for none
  path,     \* the inode PIDFILE names, 0 for none
  content,  \* per inode: the pid it can be read as
  port,     \* the process that listens on the TCP port, 0 for none
  pc,       \* per script: its next step
  restart,  \* scripts that are to start when they have stopped
  faults,   \* faults so far
  together  \* history: a script took a step while another was at work

files == <<file, path, content>>
script == <<pc, restart, together>>
vars  == <<proc, files, port, script, faults>>

\* "free": there is no such process.
Unlocked == {"forked", "opened"}
Locked   == {"locked", "recorded", "calling", "serving", "exiting"}
States   == {"free"} \cup Unlocked \cup Locked

Starting == {"test", "launch"}
Stopping == {"term", "await", "scan", "gone", "rm"}

Alive   == {p \in Pids : proc[p] # "free"}
Holders == {p \in Pids : proc[p] \in Locked}

\* Inodes no process has open; a file without a name and an opener is gone.
Unused == {i \in Inodes : \A p \in Pids : file[p] # i}

\* The process the pid file names, if it runs.
ByFile == {p \in Alive : path # 0 /\ content[path] = p}

-----------------------------------------------------------------------------
(* A process: daemonize and main.                                          *)

Fault == faults < MaxFaults /\ faults' = faults + 1

Step(p, from, to) == proc[p] = from /\ proc' = [proc EXCEPT ![p] = to]

\* Processes end; the system takes their locks and the port.
End(ps) ==
  /\ proc' = [p \in Pids |-> IF p \in ps THEN "free" ELSE proc[p]]
  /\ file' = [p \in Pids |-> IF p \in ps THEN 0 ELSE file[p]]
  /\ port' = IF port \in ps THEN 0 ELSE port
  /\ UNCHANGED <<path, content>>

\* Mutant: without O_CREAT.
OpenFileExisting(p) ==
  /\ proc[p] = "forked"
  /\ IF path = 0
     THEN End({p})
     ELSE /\ proc' = [proc EXCEPT ![p] = "opened"]
          /\ file' = [file EXCEPT ![p] = path]
          /\ UNCHANGED <<path, content, port>>
  /\ UNCHANGED <<script, faults>>

\* open(lock_file_name, O_RDWR|O_CREAT).
OpenFile(p) ==
  /\ Step(p, "forked", "opened")
  /\ IF path # 0
     THEN path' = path /\ UNCHANGED content
     ELSE /\ path' \in Unused
          /\ \A i \in Unused : path' <= i
          /\ content' = [content EXCEPT ![path'] = Empty]
  /\ file' = [file EXCEPT ![p] = path']
  /\ UNCHANGED <<port, script, faults>>

\* Mutant: what lockf returns is not looked at.
LockUnchecked(p) ==
  /\ Step(p, "opened", "locked")
  /\ UNCHANGED <<files, port, script, faults>>

\* lockf(F_TLOCK).
Lock(p) ==
  /\ proc[p] = "opened"
  /\ IF \E q \in Holders : file[q] = file[p]
     THEN End({p})
     ELSE proc' = [proc EXCEPT ![p] = "locked"] /\ UNCHANGED <<files, port>>
  /\ UNCHANGED <<script, faults>>

\* The pid is written over what is there; digits behind it stay.
Over(old, p) == IF old > Shorts /\ p <= Shorts THEN Mixed ELSE p

RecordPid(p) ==
  /\ Step(p, "locked", "recorded")
  /\ content' = [content EXCEPT ![file[p]] = Over(content[file[p]], p)]
  /\ UNCHANGED <<file, path, port, script, faults>>

\* signal(SIGTERM, signal_handler), load_configuration, connect and
\* start_actions; what they throw ends main.
Prepare(p) ==
  /\ \/ Step(p, "recorded", "calling") /\ UNCHANGED faults
     \/ Step(p, "recorded", "exiting") /\ Fault
  /\ UNCHANGED <<files, port, script>>

\* Mutant: the address is shared.
StartRecieveShared(p) ==
  /\ Step(p, "calling", "serving")
  /\ port' = p
  /\ UNCHANGED <<files, script, faults>>

\* start_recieve: without the port main returns.
StartRecieve(p) ==
  /\ \/ port = 0 /\ Step(p, "calling", "serving") /\ port' = p
     \/ port # 0 /\ Step(p, "calling", "exiting") /\ UNCHANGED port
  /\ UNCHANGED <<files, script, faults>>

\* exit() runs the destructors under threads that go on; it may never end.
Exit(p) ==
  /\ proc[p] = "exiting"
  /\ End({p})
  /\ UNCHANGED <<script, faults>>

Crash(p) ==
  /\ p \in Alive
  /\ End({p})
  /\ Fault
  /\ UNCHANGED script

-----------------------------------------------------------------------------
(* The script.                                                             *)

Goto(s, step) ==
  /\ pc' = [pc EXCEPT ![s] = step]
  /\ together' = (together \/ \E t \in Scripts \ {s} : pc[t] # "idle")

Return(s) == Goto(s, "idle") /\ restart' = restart \ {s}

Signalled(ps) == proc' = [p \in Pids |-> IF p \in ps THEN "exiting" ELSE proc[p]]

Call(s) ==
  /\ pc[s] = "idle"
  /\ \/ Goto(s, "test") /\ UNCHANGED restart
     \/ Goto(s, "term") /\ restart' \in {restart, restart \cup {s}}
  /\ UNCHANGED <<proc, files, port, faults>>

\* do_start: start-stop-daemon --start --test; 1, already running.
Test(s) ==
  /\ pc[s] = "test"
  /\ IF ByFile = {} THEN Goto(s, "launch") /\ UNCHANGED restart ELSE Return(s)
  /\ UNCHANGED <<proc, files, port, faults>>

\* The same without --test: it ends with the parent, 0, which does not wait
\* for the child; 2, a process is running by now, or fork failed.
Launch(s) ==
  /\ pc[s] = "launch"
  /\ \/ /\ ByFile = {}
        /\ \E p \in Pids \ Alive : Step(p, "free", "forked")
        /\ UNCHANGED faults
     \/ ByFile # {} /\ UNCHANGED <<proc, faults>>
     \/ Fault /\ UNCHANGED proc
  /\ Return(s)
  /\ UNCHANGED <<files, port>>

\* do_stop: TERM to the process the file names.  It ends one that does not
\* catch it yet.
Term(s) ==
  /\ pc[s] = "term"
  /\ LET deaf == {p \in ByFile : proc[p] \in Unlocked \cup {"locked", "recorded"}}
     IN  IF ByFile = deaf
         THEN End(deaf) /\ Goto(s, "scan")
         ELSE Signalled(ByFile) /\ UNCHANGED <<files, port>> /\ Goto(s, "await")
  /\ UNCHANGED <<restart, faults>>

\* Within 30 seconds it ends, or KILL ends what the file names then.
Await(s) ==
  /\ pc[s] = "await"
  /\ \/ ByFile = {} /\ UNCHANGED <<proc, files, port>>
     \/ End(ByFile)
  /\ Goto(s, "scan")
  /\ UNCHANGED <<restart, faults>>

\* Mutant: do_stop has one start-stop-daemon; what the file does not name is
\* left alone.
ScanNothing(s) ==
  /\ pc[s] = "scan"
  /\ Goto(s, "rm")
  /\ UNCHANGED <<proc, files, port, restart, faults>>

\* Every process of the executable: signal 0, and after 30 seconds KILL.
Scan(s) ==
  /\ pc[s] = "scan"
  /\ \/ Alive = {} /\ UNCHANGED <<proc, files, port>>
     \/ End(Alive)
  /\ Goto(s, "gone")
  /\ UNCHANGED <<restart, faults>>

\* Mutant: do_stop waits until there is none, however long it takes.
GoneWaits(s) ==
  /\ pc[s] = "gone"
  /\ Alive = {}
  /\ Goto(s, "rm")
  /\ UNCHANGED <<proc, files, port, restart, faults>>

\* start-stop-daemon's result: 2 when there is one 5 seconds later.
Gone(s) ==
  /\ pc[s] = "gone"
  /\ IF Alive = {} THEN Goto(s, "rm") /\ UNCHANGED restart ELSE Return(s)
  /\ UNCHANGED <<proc, files, port, faults>>

\* rm -f $PIDFILE; do_start follows in a restart.
Rm(s) ==
  /\ pc[s] = "rm"
  /\ path' = 0
  /\ IF s \in restart
     THEN Goto(s, "test") /\ restart' = restart \ {s}
     ELSE Return(s)
  /\ UNCHANGED <<proc, file, content, port, faults>>

-----------------------------------------------------------------------------
Init ==
  /\ proc = [p \in Pids |-> "free"]
  /\ file = [p \in Pids |-> 0] /\ path = 0
  /\ content = [i \in Inodes |-> Empty]
  /\ port = 0
  /\ pc = [s \in Scripts |-> "idle"] /\ restart = {}
  /\ faults = 0
  /\ together = FALSE

Run(p) ==
  \/ OpenFile(p) \/ Lock(p) \/ RecordPid(p)
  \/ Prepare(p) \/ StartRecieve(p)

Work(s) ==
  \/ Test(s) \/ Launch(s)
  \/ Term(s) \/ Await(s) \/ Scan(s) \/ Gone(s) \/ Rm(s)

Next ==
  \/ \E p \in Pids : Run(p) \/ Exit(p) \/ Crash(p)
  \/ \E s \in Scripts : Call(s) \/ Work(s)

Spec == Init /\ [][Next]_vars
\* Processes and scripts go on; an exit() need not end.
FairSpec ==
  /\ Spec
  /\ \A p \in Pids : WF_vars(Run(p))
  /\ \A s \in Scripts : WF_vars(Work(s))

-----------------------------------------------------------------------------
(* Properties.                                                             *)

TypeOK ==
  /\ proc \in [Pids -> States]
  /\ file \in [Pids -> Inodes \cup {0}] /\ path \in Inodes \cup {0}
  /\ content \in [Inodes -> Pids \cup {Empty, Mixed}]
  /\ port \in Pids \cup {0}
  /\ pc \in [Scripts -> {"idle"} \cup Starting \cup Stopping]
  /\ restart \subseteq Scripts
  /\ faults \in 0..MaxFaults /\ together \in BOOLEAN

OneHolder == \A p, q \in Holders : p = q

\* "first instance continues" (main.cpp:80): of the processes started one at
\* most is past the lock, whatever crashed, started and stopped before; until
\* two scripts run together, when do_stop can remove a file just locked.
FirstInstanceContinues == ~ together => OneHolder

\* When do_stop removes the pid file, no process is left that could hold its
\* lock: with scripts one at a time the name and the lock stay together, also
\* when the file names nobody or another process.
StoppedMeansNone == ~ together => \A s \in Scripts : pc[s] = "rm" => Alive = {}

\* A process that has got to serving keeps the port against every other:
\* TCP data are taken by one process even where the lock does not hold.
OneServes == \A p, q \in Pids : proc[p] = "serving" /\ proc[q] = "serving" => p = q

\* do_stop comes to its end, also with a process whose exit() hangs and with
\* others started under it.
StopEnds == \A s \in Scripts : pc[s] \in Stopping ~> pc[s] \notin Stopping

\* Without faults a start ends with a process that serves, unless a stop comes:
\* the loser of the lock ends only because the winner goes on.
StartedIsServed ==
  (\E p \in Pids : proc[p] = "forked") ~>
    \/ \E p \in Pids : proc[p] = "serving"
    \/ \E s \in Scripts : pc[s] \in Stopping
    \/ faults > 0
=============================================================================
