---------------------------- MODULE DaemonProofs ----------------------------
(***************************************************************************)
(* Proofs about Daemon, for any number of pids, scripts and faults.  Until *)
(* two scripts run together the lock is what "first instance continues"    *)
(* takes it for: all who opened the pid file opened the one its path       *)
(* names, because do_stop removes the path when no process is left.        *)
(***************************************************************************)
EXTENDS Daemon, TLAPS

USE PidsAssumption, BoundAssumption

\* TypeOK in parts.
TypeFiles == file \in [Pids -> Inodes \cup {0}] /\ path \in Inodes \cup {0}
TypeContent == content \in [Inodes -> Pids \cup {Empty, Mixed}]
TypeScript ==
  /\ pc \in [Scripts -> {"idle"} \cup Starting \cup Stopping] /\ restart \subseteq Scripts
  /\ together \in BOOLEAN
TypeProc == proc \in [Pids -> States]
TypePort == port \in Pids \cup {0}
TypeFaults == faults \in 0..MaxFaults

TypeInv == TypeFiles /\ TypeContent /\ TypeScript /\ TypeProc /\ TypePort /\ TypeFaults

LEMMA PidsAreNumbers == Pids \subseteq Nat /\ Inodes \subseteq Nat /\ 0 \notin Inodes /\ 0 \notin Pids
  BY DEF Pids, Inodes

LEMMA TypeInvInit == Init => TypeInv
  <1> SUFFICES ASSUME Init PROVE TypeInv
    OBVIOUS
  <1>1. TypeFiles /\ TypeContent
    BY DEF Init, TypeFiles, TypeContent
  <1>2. TypeScript /\ TypeProc
    BY DEF Init, TypeScript, TypeProc, States
  <1>3. TypePort /\ TypeFaults
    BY DEF Init, TypePort, TypeFaults
  <1> QED BY <1>1, <1>2, <1>3 DEF TypeInv

LEMMA EndTyped ==
  ASSUME TypeInv, NEW ps, ps \subseteq Pids, End(ps)
  PROVE  TypeFiles' /\ TypeContent' /\ TypeProc' /\ TypePort'
  BY DEF TypeInv, End, TypeFiles, TypeContent, TypeProc, TypePort, States

\* What the pid file can be read as after a write.
LEMMA OverTyped ==
  ASSUME NEW old, NEW p \in Pids
  PROVE  Over(old, p) \in Pids \cup {Mixed}
  BY DEF Over

-----------------------------------------------------------------------------
(* Types are kept.                                                         *)

LEMMA RunTyped == ASSUME TypeInv, NEW p \in Pids, Run(p) PROVE TypeInv'
  <1> USE DEF TypeInv
  <1>1. CASE OpenFile(p)
    <2>1. path' \in Inodes
      BY <1>1 DEF OpenFile, Unused, TypeFiles
    <2>2. TypeFiles'
      BY <1>1, <2>1 DEF OpenFile, TypeFiles
    <2>3. TypeContent'
      BY <1>1 DEF OpenFile, TypeContent
    <2>4. TypeProc' /\ TypePort' /\ TypeFaults' /\ TypeScript'
      BY <1>1 DEF OpenFile, Step, TypeProc, TypePort, TypeFaults, TypeScript, script, States, Unlocked
    <2> QED BY <2>2, <2>3, <2>4
  <1>2. CASE Lock(p)
    <2>1. TypeFaults' /\ TypeScript'
      BY <1>2 DEF Lock, TypeFaults, TypeScript, script
    <2>2. CASE End({p})
      BY <2>1, <2>2, EndTyped
    <2>3. CASE proc' = [proc EXCEPT ![p] = "locked"] /\ UNCHANGED <<files, port>>
      BY <2>1, <2>3 DEF TypeProc, TypeFiles, TypeContent, TypePort, files, States, Locked
    <2> QED BY <1>2, <2>2, <2>3 DEF Lock
  <1>3. CASE RecordPid(p)
    <2>1. TypeContent'
      BY <1>3, OverTyped DEF RecordPid, TypeContent
    <2>2. TypeFiles' /\ TypeProc' /\ TypePort' /\ TypeFaults' /\ TypeScript'
      BY <1>3 DEF RecordPid, Step, TypeFiles, TypeProc, TypePort, TypeFaults, TypeScript, script, States, Locked
    <2> QED BY <2>1, <2>2
  <1>4. CASE Prepare(p)
    <2>1. TypeProc' /\ TypeFiles' /\ TypeContent' /\ TypePort' /\ TypeScript'
      BY <1>4 DEF Prepare, Step, TypeProc, TypeFiles, TypeContent, TypePort, TypeScript, files, script, States, Locked
    <2>2. TypeFaults'
      BY <1>4 DEF Prepare, Fault, TypeFaults
    <2> QED BY <2>1, <2>2
  <1>5. CASE StartRecieve(p)
    BY <1>5 DEF StartRecieve, Step, TypeProc, TypeFiles, TypeContent, TypePort, TypeScript, TypeFaults,
                files, script, States, Locked
  <1> QED BY <1>1, <1>2, <1>3, <1>4, <1>5 DEF Run

LEMMA EndsTyped == ASSUME TypeInv, NEW p \in Pids, Exit(p) \/ Crash(p) PROVE TypeInv'
  <1>1. End({p})
    BY DEF Exit, Crash
  <1>2. TypeFiles' /\ TypeContent' /\ TypeProc' /\ TypePort'
    BY <1>1, EndTyped
  <1>3. TypeScript' /\ TypeFaults'
    BY DEF Exit, Crash, Fault, TypeInv, TypeScript, TypeFaults, script
  <1> QED BY <1>2, <1>3 DEF TypeInv

LEMMA ScriptTyped ==
  ASSUME TypeInv, NEW s \in Scripts, Call(s) \/ Work(s)
  PROVE  TypeInv'
  <1>1. ByFile \subseteq Pids /\ Alive \subseteq Pids
    BY DEF ByFile, Alive
  <1>2. TypeScript'
    BY DEF Call, Work, Test, Launch, Term, Await, Scan, Gone, Rm, Goto, Return,
           TypeInv, TypeScript, Starting, Stopping
  <1>3. TypeFaults'
    BY DEF Call, Work, Test, Launch, Term, Await, Scan, Gone, Rm, Fault, TypeInv, TypeFaults
  <1>4. CASE UNCHANGED <<proc, port, file, content>> /\ path' \in {path, 0}
    BY <1>2, <1>3, <1>4 DEF TypeInv, TypeFiles, TypeContent, TypeProc, TypePort
  <1>5. ASSUME NEW ps, ps \subseteq Pids, End(ps)
        PROVE  TypeInv'
    BY <1>2, <1>3, <1>5, EndTyped DEF TypeInv
  <1>6. ASSUME Signalled(ByFile), UNCHANGED <<files, port>>
        PROVE  TypeInv'
    BY <1>2, <1>3, <1>6 DEF Signalled, files, TypeInv, TypeFiles, TypeContent, TypeProc, TypePort,
                States, Locked
  <1>7. CASE Call(s) \/ Test(s) \/ Gone(s) \/ Rm(s)
    BY <1>4, <1>7 DEF Call, Test, Gone, Rm, files
  <1>8. CASE Launch(s)
    BY <1>2, <1>3, <1>8 DEF Launch, Step, files, TypeInv, TypeFiles, TypeContent, TypeProc, TypePort,
                States, Unlocked
  <1>9. CASE Term(s)
    <2> DEFINE deaf == {p \in ByFile : proc[p] \in Unlocked \cup {"locked", "recorded"}}
    <2>1. deaf \subseteq Pids
      BY <1>1
    <2> QED BY <1>5, <1>6, <1>9, <2>1 DEF Term
  <1>10. CASE Await(s) \/ Scan(s)
    BY <1>1, <1>4, <1>5, <1>10 DEF Await, Scan, files
  <1> QED BY <1>7, <1>8, <1>9, <1>10 DEF Work

LEMMA TypeInvStep == TypeInv /\ [Next]_vars => TypeInv'
  <1> SUFFICES ASSUME TypeInv, [Next]_vars PROVE TypeInv'
    OBVIOUS
  <1>1. CASE UNCHANGED vars
    BY <1>1 DEF vars, files, script, TypeInv, TypeFiles, TypeContent, TypeScript, TypeProc,
                TypePort, TypeFaults
  <1> QED BY <1>1, RunTyped, EndsTyped, ScriptTyped DEF Next

\* Every variable keeps its type.
THEOREM TypeCorrect == Spec => []TypeOK
  <1>1. TypeInv => TypeOK
    BY DEF TypeInv, TypeOK, TypeFiles, TypeContent, TypeScript, TypeProc, TypePort, TypeFaults
  <1> QED BY <1>1, TypeInvInit, TypeInvStep, PTL DEF Spec

-----------------------------------------------------------------------------
(* One script at a time.                                                   *)

OneScript == \A s, t \in Scripts : pc[s] # "idle" /\ pc[t] # "idle" => s = t

NoneLeft == \A s \in Scripts : pc[s] \in {"gone", "rm"} => Alive = {}

\* Who opened the pid file has the one the path names.
SameFile ==
  \A p \in Pids : proc[p] \notin {"free", "forked"} => path # 0 /\ file[p] = path

SerialInv == TypeInv /\ OneScript /\ NoneLeft /\ SameFile /\ OneHolder

LEMMA SerialInvInit == Init => SerialInv
  <1> SUFFICES ASSUME Init PROVE SerialInv
    OBVIOUS
  <1>1. OneScript /\ NoneLeft
    BY DEF Init, OneScript, NoneLeft
  <1>2. SameFile /\ OneHolder
    BY DEF Init, SameFile, OneHolder, Holders, Locked
  <1> QED BY <1>1, <1>2, TypeInvInit DEF SerialInv

\* The end of processes disturbs nothing.
LEMMA EndSerial ==
  ASSUME SerialInv, NEW ps \in SUBSET Pids, End(ps)
  PROVE  SameFile' /\ OneHolder' /\ Alive' = Alive \ ps
  <1>1. proc \in [Pids -> States] /\ file \in [Pids -> Inodes \cup {0}]
    BY DEF SerialInv, TypeInv, TypeProc, TypeFiles
  <1>2. \A p \in Pids : proc'[p] = IF p \in ps THEN "free" ELSE proc[p]
    BY DEF End
  <1>3. \A p \in Pids : p \notin ps => file'[p] = file[p]
    BY DEF End
  <1>4. SameFile'
    BY <1>2, <1>3 DEF SerialInv, SameFile, End
  <1>5. Holders' \subseteq Holders
    BY <1>2 DEF Holders, Locked
  <1>6. Alive' = Alive \ ps
    BY <1>2 DEF Alive
  <1> QED BY <1>4, <1>5, <1>6 DEF SerialInv, OneHolder

\* A process at work keeps do_stop from the steps behind its scan.
LEMMA RunScript ==
  ASSUME SerialInv, NEW p \in Alive, UNCHANGED script
  PROVE  OneScript' /\ NoneLeft'
  BY DEF SerialInv, OneScript, NoneLeft, script

\* A process that stays on its side of the lock, with its file.
LEMMA StepSerial ==
  ASSUME SerialInv, NEW p \in Pids, NEW from, NEW to, Step(p, from, to),
         from \notin {"free", "forked"}, from \in Locked, to \in Locked,
         UNCHANGED <<file, path>>
  PROVE  SameFile' /\ OneHolder'
  <1>1. proc \in [Pids -> States]
    BY DEF SerialInv, TypeInv, TypeProc
  <1>2. \A q \in Pids : proc'[q] = IF q = p THEN to ELSE proc[q]
    BY <1>1 DEF Step
  <1>3. Holders' = Holders
    BY <1>2 DEF Holders, Step
  <1>4. SameFile'
    BY <1>2 DEF SerialInv, SameFile, Step
  <1> QED BY <1>3, <1>4 DEF SerialInv, OneHolder

LEMMA RunSerial == ASSUME SerialInv, NEW p \in Pids, Run(p) PROVE SerialInv'
  <1>t. TypeInv /\ TypeInv' /\ proc \in [Pids -> States] /\ file \in [Pids -> Inodes \cup {0}]
    BY RunTyped DEF SerialInv, TypeInv, TypeProc, TypeFiles
  <1>a. p \in Alive /\ UNCHANGED script
    BY DEF Run, OpenFile, Lock, RecordPid, Prepare, StartRecieve, Step, Alive
  <1>b. OneScript' /\ NoneLeft'
    BY <1>a, RunScript
  <1>1. CASE OpenFile(p)
    <2>1. proc[p] = "forked" /\ \A q \in Pids : proc'[q] = IF q = p THEN "opened" ELSE proc[q]
      BY <1>1, <1>t DEF OpenFile, Step
    <2>2. \A q \in Pids : file'[q] = IF q = p THEN path' ELSE file[q]
      BY <1>1, <1>t DEF OpenFile
    <2>3. path' # 0 /\ (path # 0 => path' = path)
      BY <1>1, PidsAreNumbers DEF OpenFile, Unused
    <2>4. SameFile'
      BY <2>1, <2>2, <2>3 DEF SerialInv, SameFile
    <2>5. Holders' = Holders
      BY <2>1 DEF Holders, Locked
    <2> QED BY <1>t, <1>b, <2>4, <2>5 DEF SerialInv, OneHolder
  <1>2. CASE Lock(p)
    <2>1. proc[p] = "opened" /\ file[p] = path
      BY <1>2 DEF Lock, SerialInv, SameFile
    <2>2. CASE End({p})
      BY <1>t, <1>b, <2>2, EndSerial DEF SerialInv
    <2>3. CASE /\ ~ \E q \in Holders : file[q] = file[p]
               /\ proc' = [proc EXCEPT ![p] = "locked"] /\ UNCHANGED <<files, port>>
      <3>1. \A q \in Pids : proc'[q] = IF q = p THEN "locked" ELSE proc[q]
        BY <1>t, <2>3
      <3>2. SameFile'
        BY <2>1, <2>3, <3>1 DEF SerialInv, SameFile, files
      <3>3. Holders = {}
        BY <2>1, <2>3 DEF SerialInv, SameFile, Holders, Locked
      <3>4. Holders' \subseteq {p}
        BY <3>1, <3>3 DEF Holders
      <3> QED BY <1>t, <1>b, <3>2, <3>4 DEF SerialInv, OneHolder
    <2> QED BY <1>2, <2>2, <2>3 DEF Lock
  <1>3. CASE RecordPid(p)
    <2>1. SameFile' /\ OneHolder'
      BY <1>3, StepSerial DEF RecordPid, Locked
    <2> QED BY <1>t, <1>b, <2>1 DEF SerialInv
  <1>4. CASE Prepare(p)
    <2>1. SameFile' /\ OneHolder'
      BY <1>4, StepSerial DEF Prepare, Locked, files
    <2> QED BY <1>t, <1>b, <2>1 DEF SerialInv
  <1>5. CASE StartRecieve(p)
    <2>1. SameFile' /\ OneHolder'
      BY <1>5, StepSerial DEF StartRecieve, Locked, files
    <2> QED BY <1>t, <1>b, <2>1 DEF SerialInv
  <1> QED BY <1>1, <1>2, <1>3, <1>4, <1>5 DEF Run

LEMMA EndsSerial == ASSUME SerialInv, NEW p \in Pids, Exit(p) \/ Crash(p) PROVE SerialInv'
  <1>1. End({p}) /\ UNCHANGED script /\ p \in Alive
    BY DEF Exit, Crash, Alive
  <1>2. OneScript' /\ NoneLeft'
    BY <1>1, RunScript
  <1>3. SameFile' /\ OneHolder'
    BY <1>1, EndSerial
  <1>4. TypeInv'
    BY EndsTyped DEF SerialInv
  <1> QED BY <1>2, <1>3, <1>4 DEF SerialInv

\* The script at work is the only one.
LEMMA GotoSerial ==
  ASSUME SerialInv, NEW s \in Scripts, \A t \in Scripts : pc[t] # "idle" => t = s,
         NEW step, Goto(s, step), step \in {"gone", "rm"} => Alive' = {}
  PROVE  OneScript' /\ NoneLeft'
  <1>1. \A t \in Scripts : pc'[t] = IF t = s THEN step ELSE pc[t]
    BY DEF Goto, SerialInv, TypeInv, TypeScript
  <1>2. \A t \in Scripts : t # s => pc[t] = "idle"
    OBVIOUS
  <1> QED BY <1>1, <1>2 DEF OneScript, NoneLeft

LEMMA ScriptSerial ==
  ASSUME ~ together', SerialInv, NEW s \in Scripts, Call(s) \/ Work(s)
  PROVE  SerialInv'
  <1>t. TypeInv' /\ TypeInv /\ proc \in [Pids -> States]
    BY ScriptTyped DEF SerialInv, TypeInv, TypeProc
  <1>a. \A t \in Scripts : pc[t] # "idle" => t = s
    <2>1. PICK step : Goto(s, step)
      BY DEF Call, Work, Test, Launch, Term, Await, Scan, Gone, Rm, Return
    <2> QED BY <2>1 DEF Goto
  <1>b. ByFile \in SUBSET Pids /\ Alive \in SUBSET Pids
    BY DEF ByFile, Alive
  <1>c. ASSUME NEW step, Goto(s, step), step \in {"gone", "rm"} => Alive' = {},
               SameFile', OneHolder'
        PROVE  SerialInv'
    BY <1>t, <1>a, <1>c, GotoSerial DEF SerialInv
  <1>d. ASSUME UNCHANGED <<proc, file, path>> PROVE SameFile' /\ OneHolder' /\ Alive' = Alive
    BY <1>d DEF SerialInv, SameFile, OneHolder, Holders, Alive
  <1>1. CASE Call(s)
    BY <1>1, <1>c, <1>d DEF Call, files
  <1>2. CASE Test(s)
    BY <1>2, <1>c, <1>d DEF Test, files, Return
  <1>3. CASE Launch(s)
    <2>1. Goto(s, "idle") /\ UNCHANGED <<file, path>>
      BY <1>3 DEF Launch, Return, files
    <2>2. CASE UNCHANGED proc
      BY <1>c, <1>d, <2>1, <2>2
    <2>3. ASSUME NEW p \in Pids, Step(p, "free", "forked")
          PROVE  SerialInv'
      <3>1. \A q \in Pids : proc'[q] = IF q = p THEN "forked" ELSE proc[q]
        BY <1>t, <2>3 DEF Step
      <3>2. SameFile'
        BY <2>1, <3>1 DEF SerialInv, SameFile
      <3>3. Holders' \subseteq Holders
        BY <3>1 DEF Holders, Locked
      <3>4. OneHolder'
        BY <3>3 DEF SerialInv, OneHolder
      <3> QED BY <1>c, <2>1, <3>2, <3>4
    <2> QED BY <1>3, <2>2, <2>3 DEF Launch
  <1>4. CASE Term(s)
    <2> DEFINE deaf == {p \in ByFile : proc[p] \in Unlocked \cup {"locked", "recorded"}}
    <2>1. CASE End(deaf) /\ Goto(s, "scan")
      <3>1. deaf \in SUBSET Pids
        BY <1>b
      <3> QED BY <1>c, <2>1, <3>1, EndSerial
    <2>2. CASE ByFile # deaf /\ Signalled(ByFile) /\ UNCHANGED <<files, port>> /\ Goto(s, "await")
      <3>1. \A p \in ByFile : proc[p] \in Locked
        <4>1. \A p, q \in ByFile : p = q
          BY DEF ByFile
        <4>2. PICK q \in ByFile : q \notin deaf
          BY <2>2
        <4>3. proc[q] \in Locked
          BY <1>t, <1>b, <4>2 DEF States, Unlocked, ByFile, Alive
        <4> QED BY <4>1, <4>2, <4>3
      <3>2. \A p \in Pids : proc'[p] = IF p \in ByFile THEN "exiting" ELSE proc[p]
        BY <2>2 DEF Signalled
      <3>3. Holders' = Holders
        BY <1>b, <3>1, <3>2 DEF Holders, Locked
      <3>4. SameFile'
        BY <2>2, <3>1, <3>2 DEF SerialInv, SameFile, files, Locked
      <3>5. OneHolder'
        BY <3>3 DEF SerialInv, OneHolder
      <3> QED BY <1>c, <2>2, <3>4, <3>5
    <2> QED BY <1>4, <2>1, <2>2 DEF Term
  <1>5. CASE Await(s)
    <2>1. SameFile' /\ OneHolder'
      BY <1>5, <1>b, <1>d, EndSerial DEF Await, files
    <2> QED BY <1>5, <1>c, <2>1 DEF Await
  <1>6. CASE Scan(s)
    <2>1. CASE Alive = {} /\ UNCHANGED <<proc, files, port>>
      BY <1>6, <2>1, <1>c, <1>d DEF Scan, files
    <2>2. CASE End(Alive)
      <3>1. SameFile' /\ OneHolder' /\ Alive' = {}
        BY <1>b, <2>2, EndSerial
      <3> QED BY <1>6, <1>c, <3>1 DEF Scan
    <2> QED BY <1>6, <2>1, <2>2 DEF Scan
  <1>7. CASE Gone(s)
    BY <1>7, <1>c, <1>d DEF Gone, files, Return
  <1>8. CASE Rm(s)
    <2>1. Alive = {} /\ Alive' = {}
      BY <1>8 DEF Rm, SerialInv, NoneLeft, Alive
    <2>2. SameFile' /\ OneHolder'
      BY <1>t, <2>1 DEF Alive, SameFile, OneHolder, Holders, Locked
    <2> QED BY <1>8, <1>c, <2>1, <2>2 DEF Rm, Return
  <1> QED BY <1>1, <1>2, <1>3, <1>4, <1>5, <1>6, <1>7, <1>8 DEF Work

\* The two together: a history without overlapping scripts stays one.
IInv == TypeInv /\ (~ together => SerialInv)

LEMMA TogetherStays == TypeInv /\ [Next]_vars /\ together => together'
  <1> SUFFICES ASSUME TypeInv, [Next]_vars, together PROVE together'
    OBVIOUS
  <1>1. CASE UNCHANGED vars
    BY <1>1 DEF vars, script
  <1>2. ASSUME NEW p \in Pids, Run(p) \/ Exit(p) \/ Crash(p)
        PROVE  together'
    BY <1>2 DEF Run, Exit, Crash, OpenFile, Lock, RecordPid, Prepare, StartRecieve, script
  <1>3. ASSUME NEW s \in Scripts, Call(s) \/ Work(s)
        PROVE  together'
    <2>1. PICK step : Goto(s, step)
      BY <1>3 DEF Call, Work, Test, Launch, Term, Await, Scan, Gone, Rm, Return
    <2> QED BY <2>1 DEF Goto
  <1> QED BY <1>1, <1>2, <1>3 DEF Next

LEMMA IInvStep == IInv /\ [Next]_vars => IInv'
  <1> SUFFICES ASSUME IInv, [Next]_vars PROVE IInv'
    OBVIOUS
  <1>1. TypeInv'
    BY TypeInvStep DEF IInv
  <1>2. ASSUME ~ together' PROVE SerialInv'
    <2>1. SerialInv
      BY <1>2, TogetherStays DEF IInv
    <2>2. CASE UNCHANGED vars
      BY <1>1, <2>1, <2>2 DEF vars, files, script, SerialInv, OneScript, NoneLeft, SameFile,
                  OneHolder, Holders, Alive
    <2> QED BY <1>2, <2>1, <2>2, RunSerial, EndsSerial, ScriptSerial DEF Next
  <1> QED BY <1>1, <1>2 DEF IInv

LEMMA IInvAlways == Spec => []IInv
  <1>1. Init => IInv
    BY SerialInvInit, TypeInvInit DEF IInv
  <1> QED BY <1>1, IInvStep, PTL DEF Spec

\* Until two scripts run together at most one process is past the lock.
THEOREM FirstContinues == Spec => []FirstInstanceContinues
  <1>1. IInv => FirstInstanceContinues
    BY DEF IInv, SerialInv, FirstInstanceContinues
  <1> QED BY <1>1, IInvAlways, PTL

\* Until then no process is left when do_stop removes the file.
THEOREM StoppedLeavesNone == Spec => []StoppedMeansNone
  <1>1. IInv => StoppedMeansNone
    BY DEF IInv, SerialInv, NoneLeft, StoppedMeansNone
  <1> QED BY <1>1, IInvAlways, PTL

-----------------------------------------------------------------------------
(* Any scripts: the port.                                                  *)

PortInv == \A p \in Pids : proc[p] = "serving" => port = p

LEMMA PortEnds ==
  ASSUME TypeInv, PortInv, NEW ps \in SUBSET Pids, End(ps)
  PROVE  PortInv'
  BY PidsAreNumbers DEF PortInv, End, TypeInv, TypeProc

LEMMA PortInvStep == TypeInv /\ PortInv /\ [Next]_vars => PortInv'
  <1> SUFFICES ASSUME TypeInv, PortInv, [Next]_vars PROVE PortInv'
    OBVIOUS
  <1>t. proc \in [Pids -> States]
    BY DEF TypeInv, TypeProc
  <1>0. ASSUME NEW p \in Pids, NEW from, NEW to, Step(p, from, to), to # "serving", UNCHANGED port
        PROVE  PortInv'
    BY <1>0, <1>t DEF Step, PortInv
  <1>1. CASE UNCHANGED vars
    BY <1>1 DEF vars, PortInv
  <1>2. ASSUME NEW p \in Pids, Run(p) \/ Exit(p) \/ Crash(p)
        PROVE  PortInv'
    <2>1. CASE StartRecieve(p)
      <3>1. CASE port = 0 /\ Step(p, "calling", "serving") /\ port' = p
        BY <3>1, <1>t, PidsAreNumbers DEF Step, PortInv
      <3>2. CASE Step(p, "calling", "exiting") /\ UNCHANGED port
        BY <3>2, <1>0
      <3> QED BY <2>1, <3>1, <3>2 DEF StartRecieve
    <2>2. CASE OpenFile(p) \/ RecordPid(p) \/ Prepare(p)
      BY <2>2, <1>0 DEF OpenFile, RecordPid, Prepare
    <2>3. CASE Lock(p) /\ proc' = [proc EXCEPT ![p] = "locked"] /\ UNCHANGED port
      BY <2>3, <1>t DEF PortInv
    <2>4. CASE End({p})
      BY <2>4, PortEnds
    <2> QED BY <1>2, <2>1, <2>2, <2>3, <2>4 DEF Run, Lock, Exit, Crash
  <1>3. ASSUME NEW s \in Scripts, Call(s) \/ Work(s)
        PROVE  PortInv'
    <2>1. ByFile \in SUBSET Pids /\ Alive \in SUBSET Pids
      BY DEF ByFile, Alive
    <2>2. CASE UNCHANGED <<proc, port>>
      BY <2>2 DEF PortInv
    <2>3. CASE Launch(s)
      BY <2>2, <2>3, <1>0 DEF Launch
    <2>4. CASE Term(s)
      <3> DEFINE deaf == {p \in ByFile : proc[p] \in Unlocked \cup {"locked", "recorded"}}
      <3>1. deaf \in SUBSET Pids
        BY <2>1
      <3>2. CASE End(deaf)
        BY <3>1, <3>2, PortEnds
      <3>3. CASE Signalled(ByFile) /\ UNCHANGED port
        BY <3>3 DEF Signalled, PortInv
      <3> QED BY <2>4, <3>2, <3>3 DEF Term
    <2>5. CASE Await(s) \/ Scan(s)
      BY <2>1, <2>2, <2>5, PortEnds DEF Await, Scan
    <2> QED BY <1>3, <2>2, <2>3, <2>4, <2>5 DEF Call, Work, Test, Gone, Rm
  <1> QED BY <1>1, <1>2, <1>3 DEF Next

\* At most one process serves, also where two are past the lock.
THEOREM OneProcessServes == Spec => []OneServes
  <1>1. Init => PortInv
    BY DEF Init, PortInv
  <1>2. PortInv => OneServes
    BY DEF PortInv, OneServes
  <1> QED BY <1>1, <1>2, TypeInvInit, TypeInvStep, PortInvStep, PTL DEF Spec
=============================================================================
