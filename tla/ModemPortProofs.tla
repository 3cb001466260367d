-------------------------- MODULE ModemPortProofs --------------------------
(***************************************************************************)
(* Proofs about ModemPort, for any number of failing calls: the port is    *)
(* opened and closed once per call, send and recv find it open, and a      *)
(* modem whose call was committed has its ATH to come.                     *)
(***************************************************************************)
EXTENDS ModemPort, SequenceTheorems, TLAPS

USE ModemAssumption, FaultsAssumption

Output == Commands \cup {"part"}

\* TypeOK in parts, one for each prover.
TypeLine  == out \in Seq(Output) /\ got \subseteq Answers /\ in \subseteq Answers
TypeModem == busy \in Commands \cup {"junk", "none"} /\ junk \in BOOLEAN /\ cut \in BOOLEAN
TypeStep  == pc \in Steps /\ command \in Commands /\ handle \in {"none", "port"}
TypeCount == descriptors \in Nat /\ faults \in 0..MaxFaults

\* The steps at which the port is open whatever happened before.
PortSteps == {"setup", "write", "flush", "read", "answer", "commit", "close"}

\* One descriptor for a handle, none without; idle keeps no handle.
HandleInv ==
  /\ descriptors = IF handle = "port" THEN 1 ELSE 0
  /\ pc \in PortSteps => handle = "port"
  /\ pc \in {"idle", "open", "caught", "dead"} => handle = "none"

NoDial(i) == \A j \in DOMAIN out : j > i => out[j] # "ATD"

\* Behind the ATH in the output there is no ATD; without an ATH the modem has
\* nothing to end.
Ended ==
  \/ \E i \in DOMAIN out : out[i] = "ATH" /\ NoDial(i)
  \/ busy # "ATD" /\ NoDial(0)

\* From the write of ATH on.
StopInv ==
  (\/ pc = "flush" /\ command = "ATH"
   \/ pc \in {"commit", "close"}) /\ ~ cut => Ended

IInv == TypeLine /\ TypeModem /\ TypeStep /\ TypeCount /\ HandleInv /\ StopInv

LEMMA IInvInit == Init => IInv
  <1> SUFFICES ASSUME Init PROVE IInv
    OBVIOUS
  <1>1. TypeLine
    BY DEF Init, TypeLine
  <1>2. TypeModem /\ TypeStep
    BY DEF Init, TypeModem, TypeStep, Steps, Commands
  <1>3. TypeCount /\ HandleInv
    BY DEF Init, TypeCount, HandleInv, PortSteps
  <1>4. StopInv
    BY DEF Init, StopInv
  <1> QED BY <1>1, <1>2, <1>3, <1>4 DEF IInv

\* What a flush leaves is again an output.
LEMMA KeptIsOutput ==
  ASSUME out \in Seq(Output)
  PROVE  Kept \subseteq Seq(Output)
  <1>1. ASSUME NEW n \in 0..Len(out)
        PROVE  SubSeq(out, 1, n) \in Seq(Output)
    <2>1. \A i \in 1..n : out[i] \in Output
      BY <1>1
    <2> QED BY <2>1, <1>1, SubSeqProperties
  <1>2. ASSUME NEW n \in 0..(Len(out) - 1)
        PROVE  Append(SubSeq(out, 1, n), "part") \in Seq(Output)
    <2>1. n \in 0..Len(out)
      BY <1>2
    <2>2. SubSeq(out, 1, n) \in Seq(Output)
      BY <1>1, <2>1
    <2> QED BY <2>2 DEF Output
  <1> QED BY <1>1, <1>2 DEF Kept

LEMMA ClosedIsOutput ==
  ASSUME ClosePort, got \subseteq Answers, got' = got
  PROVE  TypeLine'
  <1>1. <<>> \in Seq(Output)
    BY EmptySeq
  <1> QED BY <1>1 DEF ClosePort, TypeLine

\* An unfinished call, or one with its output as it was, says nothing new.
LEMMA StopKept ==
  ASSUME StopInv, UNCHANGED <<out, busy>>, cut => cut',
         \/ pc' \notin {"flush", "commit", "close"}
         \/ pc = "flush" /\ command = "ATH" /\ pc' = "commit"
         \/ pc = "commit" /\ pc' = "close"
  PROVE  StopInv'
  BY DEF StopInv, Ended, NoDial

-----------------------------------------------------------------------------
LEMMA InitStep == ASSUME IInv, Invoce \/ Open \/ Setup PROVE IInv'
  <1> USE DEF IInv
  <1>1. TypeLine'
    <2>1. CASE Invoce \/ Open
      BY <2>1 DEF Invoce, Open, TypeLine, line
    <2>2. CASE Setup /\ ClosePort
      BY <2>2, ClosedIsOutput DEF Setup, TypeLine
    <2>3. CASE Setup /\ UNCHANGED line
      BY <2>3 DEF Setup, TypeLine, line
    <2>4. CASE Setup /\ in' = {} /\ out' \in Kept
      BY <2>4, KeptIsOutput DEF Setup, TypeLine
    <2> QED BY <2>1, <2>2, <2>3, <2>4 DEF Setup
  <1>2. TypeModem'
    BY DEF Invoce, Open, Setup, TypeModem, modem
  <1>3. TypeStep' /\ TypeCount' /\ HandleInv'
    <2>1. TypeStep'
      BY DEF Invoce, Open, Setup, ClosePort, port, line, Intact, Fault, Throw, TypeStep, HandleInv, Steps, Commands
    <2>2. HandleInv'
      BY DEF Invoce, Open, Setup, ClosePort, port, line, Intact, Fault, Throw, HandleInv, TypeStep, PortSteps
    <2>3. descriptors' \in Nat
      BY <2>2 DEF HandleInv
    <2>4. faults' \in 0..MaxFaults
      BY DEF Invoce, Open, Setup, ClosePort, port, line, Intact, Fault, Throw, TypeCount
    <2> QED BY <2>1, <2>2, <2>3, <2>4 DEF TypeCount
  <1>4. StopInv'
    BY DEF Invoce, Open, Setup, StopInv, Throw
  <1> QED BY <1>1, <1>2, <1>3, <1>4

LEMMA WriteStep == ASSUME IInv, Write PROVE IInv'
  <1> USE DEF IInv
  <1>0. pc = "write" /\ handle = "port"
    BY DEF Write, HandleInv, PortSteps
  <1>1. TypeLine'
    BY DEF Write, TypeLine, TypeStep, Output, line
  <1>2. TypeModem'
    BY DEF Write, TypeModem, modem
  <1>3. TypeStep' /\ TypeCount' /\ HandleInv'
    BY DEF Write, TypeStep, TypeCount, HandleInv, port, Intact, Fault, Throw, Steps, PortSteps
  <1>4. StopInv'
    <2>1. CASE pc' = "flush" /\ command = "ATH" /\ out' = Append(out, command)
      <3> PICK n \in Nat : n = Len(out) + 1
        BY DEF TypeLine
      <3>1. DOMAIN out' = 1..n /\ n \in 1..n /\ out'[n] = "ATH"
        BY <2>1 DEF TypeLine
      <3>2. NoDial(n)'
        BY <3>1 DEF NoDial
      <3> QED BY <3>1, <3>2 DEF StopInv, Ended
    <2>2. CASE pc' = "flush" /\ command # "ATH"
      BY <2>2 DEF Write, StopInv
    <2>3. CASE pc' = "unwind"
      BY <2>3 DEF StopInv
    <2> QED BY <1>0, <2>1, <2>2, <2>3 DEF Write, Throw
  <1> QED BY <1>1, <1>2, <1>3, <1>4

LEMMA FlushStep == ASSUME IInv, Flush PROVE IInv'
  <1> USE DEF IInv
  <1>1. TypeLine'
    <2>1. CASE ClosePort
      BY <2>1, ClosedIsOutput DEF Flush, TypeLine
    <2>2. CASE in' = {} /\ out' \in Kept
      BY <2>2, KeptIsOutput DEF Flush, TypeLine
    <2> QED BY <2>1, <2>2 DEF Flush
  <1>2. TypeModem'
    BY DEF Flush, TypeModem, modem
  <1>3. TypeStep' /\ TypeCount' /\ HandleInv'
    <2>1. TypeStep'
      BY DEF Flush, ClosePort, port, Intact, Fault, Throw, TypeStep, HandleInv, Steps, Commands
    <2>2. HandleInv'
      BY DEF Flush, ClosePort, port, Intact, Fault, Throw, HandleInv, TypeStep, PortSteps
    <2>3. descriptors' \in Nat
      BY <2>2 DEF HandleInv
    <2>4. faults' \in 0..MaxFaults
      BY DEF Flush, ClosePort, port, Intact, Fault, Throw, TypeCount
    <2> QED BY <2>1, <2>2, <2>3, <2>4 DEF TypeCount
  <1>4. StopInv'
    <2>1. CASE pc' = "commit" /\ command = "ATH" /\ cut' = (cut \/ out' # out)
      <3>1. CASE out' = out
        BY <2>1, <3>1, StopKept DEF Flush, modem
      <3>2. CASE out' # out
        BY <2>1, <3>2 DEF StopInv
      <3> QED BY <3>1, <3>2
    <2>2. CASE pc' \in {"read", "unwind"}
      BY <2>2 DEF StopInv
    <2> QED BY <2>1, <2>2 DEF Flush, Throw
  <1> QED BY <1>1, <1>2, <1>3, <1>4

LEMMA ReadStep == ASSUME IInv, ReadBytes \/ ReadEnds PROVE IInv'
  <1> USE DEF IInv
  <1>1. TypeLine' /\ TypeModem'
    BY DEF ReadBytes, ReadEnds, TypeLine, TypeModem, modem, line
  <1>2. TypeStep' /\ TypeCount' /\ HandleInv'
    <2>1. CASE ReadBytes
      BY <2>1 DEF ReadBytes, TypeStep, TypeCount, HandleInv, port
    <2>2. CASE ReadEnds
      BY <2>2 DEF ReadEnds, TypeStep, TypeCount, HandleInv, port, Throw, Intact, Fault, Steps, PortSteps
    <2> QED BY <2>1, <2>2
  <1>3. StopInv'
    BY DEF ReadBytes, ReadEnds, StopInv, Throw
  <1> QED BY <1>1, <1>2, <1>3

LEMMA AnswerStep == ASSUME IInv, AnswerToAT \/ AnswerToATD \/ AnswerToCERR PROVE IInv'
  <1> USE DEF IInv
  <1>1. TypeLine' /\ TypeModem'
    BY DEF AnswerToAT, AnswerToATD, AnswerToCERR, TypeLine, TypeModem, modem, line
  <1>2. pc = "answer" /\ pc' \in {"write", "unwind"} /\ command' \in {command} \cup Commands
    BY DEF AnswerToAT, AnswerToATD, AnswerToCERR, Send, Throw, Commands
  <1>3. UNCHANGED <<port, faults>>
    BY DEF AnswerToAT, AnswerToATD, AnswerToCERR
  <1>4. TypeStep' /\ TypeCount' /\ HandleInv'
    BY <1>2, <1>3 DEF TypeStep, TypeCount, HandleInv, port, Steps, PortSteps
  <1>5. StopInv'
    BY <1>2 DEF StopInv
  <1> QED BY <1>1, <1>4, <1>5

LEMMA EndStep == ASSUME IInv, Commit \/ Close \/ Unwind \/ Catch PROVE IInv'
  <1> USE DEF IInv
  <1>1. TypeLine'
    <2>1. CASE ClosePort /\ UNCHANGED got
      BY <2>1, ClosedIsOutput DEF TypeLine
    <2>2. CASE UNCHANGED <<line, got>>
      BY <2>2 DEF TypeLine, line
    <2> QED BY <2>1, <2>2 DEF Commit, Close, Unwind, Catch
  <1>4. TypeModem'
    BY DEF Commit, Close, Unwind, Catch, TypeModem, modem
  <1>2. TypeStep' /\ TypeCount' /\ HandleInv'
    <2>1. TypeStep'
      BY DEF Commit, Close, Unwind, Catch, ClosePort, port, Intact, Fault, Throw, TypeStep, HandleInv, Steps, Commands
    <2>2. HandleInv'
      BY DEF Commit, Close, Unwind, Catch, ClosePort, port, Intact, Fault, Throw, HandleInv, TypeStep, PortSteps
    <2>3. descriptors' \in Nat
      BY <2>2 DEF HandleInv
    <2>4. faults' \in 0..MaxFaults
      BY DEF Commit, Close, Unwind, Catch, ClosePort, port, Intact, Fault, Throw, TypeCount
    <2> QED BY <2>1, <2>2, <2>3, <2>4 DEF TypeCount
  <1>3. StopInv'
    <2>1. CASE Commit /\ pc' = "close"
      BY <2>1, StopKept DEF Commit, line, modem
    <2>2. CASE pc' \in {"unwind", "idle", "caught", "dead"}
      BY <2>2 DEF StopInv
    <2> QED BY <2>1, <2>2 DEF Commit, Close, Unwind, Catch, Throw
  <1> QED BY <1>1, <1>2, <1>3, <1>4

-----------------------------------------------------------------------------
\* The modem takes the commands in the order of the output, and answers leave
\* them alone.
LEMMA ReceiveStep == ASSUME IInv, Receive PROVE IInv'
  <1> USE DEF IInv
  <1>0. out \in Seq(Output) /\ out # <<>> /\ out' = Tail(out)
    BY DEF Receive, TypeLine
  <1>a. /\ Head(out) = out[1] /\ out[1] \in Output
        /\ out' \in Seq(Output) /\ Len(out') = Len(out) - 1 /\ Len(out) >= 1
        /\ \A i \in 1..Len(out') : out'[i] = out[i + 1]
    BY <1>0, HeadTailProperties
  <1>1. TypeLine'
    BY <1>a DEF Receive, TypeLine, Answers
  <1>2. TypeModem'
    BY <1>a DEF Receive, TypeModem, Output
  <1>3. TypeStep' /\ TypeCount' /\ HandleInv'
    BY DEF Receive, TypeStep, TypeCount, HandleInv, port
  <1>4. ASSUME Ended PROVE Ended'
    <2>1. ASSUME NEW i \in DOMAIN out, out[i] = "ATH", NoDial(i) PROVE Ended'
      <3>1. CASE i = 1
        <4>1. NoDial(0)'
          BY <1>a, <1>0, <2>1, <3>1 DEF NoDial
        <4>2. busy' # "ATD"
          BY <1>a, <2>1, <3>1 DEF Receive
        <4> QED BY <4>1, <4>2 DEF Ended
      <3>2. CASE i # 1
        <4>1. i - 1 \in DOMAIN out' /\ out'[i - 1] = "ATH"
          BY <1>a, <1>0, <2>1, <3>2
        <4>2. NoDial(i - 1)'
          BY <1>a, <1>0, <2>1, <3>2 DEF NoDial
        <4> QED BY <4>1, <4>2 DEF Ended
      <3> QED BY <3>1, <3>2
    <2>2. ASSUME busy # "ATD", NoDial(0) PROVE Ended'
      <3>1. NoDial(0)'
        BY <1>a, <1>0, <2>2 DEF NoDial
      <3>2. out[1] # "ATD"
        BY <1>a, <1>0, <2>2 DEF NoDial
      <3>3. busy' # "ATD"
        BY <1>a, <2>2, <3>2 DEF Receive
      <3> QED BY <3>1, <3>3 DEF Ended
    <2> QED BY <1>4, <2>1, <2>2 DEF Ended
  <1>5. StopInv'
    BY <1>4 DEF StopInv, Receive
  <1> QED BY <1>1, <1>2, <1>3, <1>5

LEMMA ReplyStep == ASSUME IInv, Reply PROVE IInv'
  <1> USE DEF IInv
  <1>1. \A c : AnswersTo(c) \subseteq Answers
    BY DEF AnswersTo, Answers
  <1>2. TypeLine' /\ TypeModem'
    BY <1>1 DEF Reply, TypeLine, TypeModem
  <1>3. TypeStep' /\ TypeCount' /\ HandleInv'
    BY DEF Reply, TypeStep, TypeCount, HandleInv, port
  <1>4. StopInv'
    BY DEF Reply, StopInv, Ended, NoDial
  <1> QED BY <1>2, <1>3, <1>4

LEMMA UnaskedStep == ASSUME IInv, Unasked PROVE IInv'
  <1> USE DEF IInv
  <1>1. TypeLine'
    BY DEF Unasked, TypeLine, Answers
  <1>2. TypeModem' /\ TypeStep' /\ TypeCount' /\ HandleInv'
    BY DEF Unasked, TypeModem, TypeStep, TypeCount, HandleInv, port, modem
  <1>3. StopInv'
    BY DEF Unasked, StopInv, Ended, NoDial, modem
  <1> QED BY <1>1, <1>2, <1>3

LEMMA IInvStep == IInv /\ [Next]_vars => IInv'
  <1> SUFFICES ASSUME IInv, [Next]_vars PROVE IInv'
    OBVIOUS
  <1>1. CASE UNCHANGED vars
    BY <1>1 DEF vars, port, line, modem, IInv, TypeLine, TypeModem, TypeStep, TypeCount,
                HandleInv, StopInv, Ended, NoDial
  <1> QED BY <1>1, InitStep, WriteStep, FlushStep, ReadStep, AnswerStep, EndStep,
             ReceiveStep, ReplyStep, UnaskedStep DEF Next, Program

LEMMA IInvAlways == Spec => []IInv
  BY IInvInit, IInvStep, PTL DEF Spec

-----------------------------------------------------------------------------
\* Every variable keeps its type.
THEOREM TypeCorrect == Spec => []TypeOK
  <1>1. IInv => TypeOK
    BY DEF IInv, TypeLine, TypeModem, TypeStep, TypeCount, TypeOK, Output
  <1> QED BY <1>1, IInvAlways, PTL

\* No call leaves the port open, or closes it twice.
THEOREM PortIsReleased == Spec => []PortReleased
  <1>1. IInv => PortReleased
    BY DEF IInv, HandleInv, PortReleased
  <1> QED BY <1>1, IInvAlways, PTL

\* The two tests marked "impossible" never succeed.
THEOREM PortIsAlwaysOpen == Spec => []PortIsOpen
  <1>1. IInv => PortIsOpen
    BY DEF IInv, HandleInv, PortIsOpen, PortSteps
  <1> QED BY <1>1, IInvAlways, PTL

\* A modem that is calling after COMMIT has the ATH before it.
THEOREM CommittedCallsAreStopped == Spec => []CommittedCallIsStopped
  <1>1. IInv => CommittedCallIsStopped
    <2> SUFFICES ASSUME IInv, pc = "close", ~ cut,
                        busy = "ATD" \/ \E i \in DOMAIN out : out[i] = "ATD"
                 PROVE  \E i \in DOMAIN out : out[i] = "ATH"
      BY DEF CommittedCallIsStopped
    <2>1. Ended
      BY DEF IInv, StopInv
    <2>2. \A j \in DOMAIN out : j > 0
      BY DEF IInv, TypeLine
    <2> QED BY <2>1, <2>2 DEF Ended, NoDial
  <1> QED BY <1>1, IInvAlways, PTL
-----------------------------------------------------------------------------
(* A call ends: at most so many steps of the program are left of it, but   *)
(* for one read more whenever bytes come.  The commands come in the order  *)
(* AT, ATD, and ATH or AT+CERR, none twice.                                *)

CommandsLeft == CASE command = "AT" -> 30 [] command = "ATD" -> 20 [] OTHER -> 10

StepsLeft ==
  CASE pc = "open"   -> 41
    [] pc = "setup"  -> 40
    [] pc = "write"  -> CommandsLeft + 4
    [] pc = "flush"  -> CommandsLeft + 3
    [] pc = "read"   -> CommandsLeft + 2
    [] pc = "answer" -> CommandsLeft + 1
    [] pc = "commit" -> 4
    [] pc = "close"  -> 3
    [] pc = "unwind" -> 2
    [] pc = "caught" -> 1
    [] OTHER         -> 0

\* A read that finds bytes empties the input.
ReadsLeft == IF in = {} THEN 0 ELSE 1
Left      == StepsLeft + ReadsLeft

CountsDown ==
  /\ Program => Left' \in Nat /\ Left' < Left
  /\ (Receive \/ Reply \/ Unasked) /\ Left' > Left =>
       Left' = Left + 1 /\ in = {} /\ in' # {}

LeftInv == StepsLeft \in Nat /\ ReadsLeft \in {0, 1}

LEMMA LeftIsNat == LeftInv
  <1>1. CommandsLeft \in {10, 20, 30}
    BY DEF CommandsLeft
  <1>2. PICK n \in {10, 20, 30} : n = CommandsLeft
    BY <1>1
  <1> QED BY <1>2 DEF LeftInv, StepsLeft, ReadsLeft

\* Every step of the program but a read that finds bytes goes forward.
LEMMA StepsCountDown ==
  ASSUME TypeOK, Program
  PROVE  \/ ReadBytes /\ StepsLeft' = StepsLeft
         \/ StepsLeft' < StepsLeft /\ in' \in {in, {}}
  <1>1. pc \in Steps /\ command \in Commands
    BY DEF TypeOK
  <1> USE DEF StepsLeft, CommandsLeft, Throw
  <1>2. CASE ReadBytes
    <2>1. pc' = pc /\ command' = command
      BY <1>2 DEF ReadBytes
    <2> QED BY <1>2, <2>1
  <1>3. ASSUME ~ ReadBytes PROVE in' \in {in, {}}
    BY <1>3 DEF Program, Open, Setup, Write, Flush, ReadEnds, AnswerToAT, AnswerToATD,
       AnswerToCERR, Commit, Close, Unwind, Catch, ClosePort, line
  <1>4. ASSUME ~ ReadBytes PROVE StepsLeft' < StepsLeft
    <2>1. CASE Open \/ Setup
      BY <1>1, <2>1 DEF Open, Setup, Commands
    <2>2. CASE Write \/ Flush \/ ReadEnds
      <3>1. PICK n \in {10, 20, 30} : n = CommandsLeft /\ n = CommandsLeft'
        BY <1>1, <2>2 DEF Write, Flush, ReadEnds
      <3> HIDE DEF CommandsLeft
      <3>2. CASE Write
        BY <3>1, <3>2 DEF Write
      <3>3. CASE Flush
        <4>1. pc = "flush" /\ pc' \in {"commit", "read", "unwind"}
          BY <3>3 DEF Flush
        <4>2. StepsLeft = n + 3
          BY <3>1, <4>1
        <4>3. StepsLeft' = n + 2 \/ StepsLeft' = 4 \/ StepsLeft' = 2
          BY <3>1, <4>1
        <4> HIDE DEF StepsLeft
        <4>4. n \in Nat /\ n >= 10
          OBVIOUS
        <4> QED BY <4>2, <4>3, <4>4
      <3>4. CASE ReadEnds
        <4>1. pc = "read" /\ pc' \in {"answer", "unwind"}
          BY <3>4 DEF ReadEnds
        <4>2. StepsLeft = n + 2
          BY <3>1, <4>1
        <4>3. StepsLeft' = n + 1 \/ StepsLeft' = 2
          BY <3>1, <4>1
        <4> HIDE DEF StepsLeft
        <4>4. n \in Nat /\ n >= 10
          OBVIOUS
        <4> QED BY <4>2, <4>3, <4>4
      <3> QED BY <2>2, <3>2, <3>3, <3>4
    <2>3. CASE AnswerToAT \/ AnswerToATD \/ AnswerToCERR
      <3>1. CASE AnswerToAT
        BY <3>1 DEF AnswerToAT, Send
      <3>2. CASE AnswerToATD
        <4>1. /\ pc = "answer" /\ command = "ATD"
              /\ \/ pc' = "write" /\ command' \in {"ATH", "AT+CERR"}
                 \/ pc' = "unwind"
          BY <3>2 DEF AnswerToATD, Send
        <4>2. StepsLeft = 21
          BY <4>1
        <4>3. StepsLeft' = 14 \/ StepsLeft' = 2
          BY <4>1
        <4> HIDE DEF StepsLeft
        <4> QED BY <4>2, <4>3
      <3>3. CASE AnswerToCERR
        BY <3>3 DEF AnswerToCERR
      <3> QED BY <2>3, <3>1, <3>2, <3>3
    <2>4. CASE Commit \/ Close \/ Unwind \/ Catch
      BY <2>4 DEF Commit, Close, Unwind, Catch
    <2> QED BY <1>4, <2>1, <2>2, <2>3, <2>4 DEF Program
  <1> QED BY <1>2, <1>3, <1>4

\* However the modem answers, or if it does not, every step of the program
\* brings a call nearer to its end, and nothing takes a step back but bytes that
\* come to a port with none: a call is at most 42 steps and one more for each
\* time that happens.  A modem that never stops sending is all that keeps recv()
\* from its end, and InvoceEnds needs only that the steps are taken.
THEOREM CallsCountDown == Spec => [][CountsDown]_vars
  <1>0. LeftInv /\ LeftInv'
    BY LeftIsNat, PTL
  <1>1. TypeOK /\ [Next]_vars => [CountsDown]_vars
    <2> SUFFICES ASSUME TypeOK, Next PROVE CountsDown
      OBVIOUS
    <2>0. PICK s \in Nat, u \in Nat, q \in {0, 1}, r \in {0, 1} :
            s = StepsLeft /\ u = StepsLeft' /\ q = ReadsLeft /\ r = ReadsLeft'
      BY <1>0 DEF LeftInv
    <2>a. Left = s + q /\ Left' = u + r
      BY <2>0 DEF Left
    <2>1. ASSUME Program PROVE Left' \in Nat /\ Left' < Left
      <3>1. CASE ReadBytes /\ StepsLeft' = StepsLeft
        <4>1. q = 1 /\ r = 0
          BY <2>0, <3>1 DEF ReadBytes, ReadsLeft
        <4>2. u = s
          BY <2>0, <3>1
        <4> QED BY <2>a, <4>1, <4>2
      <3>2. CASE StepsLeft' < StepsLeft /\ in' \in {in, {}}
        <4>1. r = q \/ r = 0
          BY <2>0, <3>2 DEF ReadsLeft
        <4>2. u < s
          BY <2>0, <3>2
        <4> QED BY <2>a, <4>1, <4>2
      <3>3. \/ ReadBytes /\ StepsLeft' = StepsLeft
            \/ StepsLeft' < StepsLeft /\ in' \in {in, {}}
        BY <2>1, StepsCountDown
      <3> QED BY <3>1, <3>2, <3>3
    <2>2. ASSUME Receive \/ Reply \/ Unasked, Left' > Left
          PROVE  Left' = Left + 1 /\ in = {} /\ in' # {}
      <3>1. u = s
        <4>1. pc' = pc /\ command' = command
          BY <2>2 DEF Receive, Reply, Unasked
        <4>2. StepsLeft' = StepsLeft
          BY <4>1 DEF StepsLeft, CommandsLeft
        <4> QED BY <2>0, <4>2
      <3>2. q = 0 /\ r = 1
        BY <2>a, <2>2, <3>1
      <3>3. in = {} /\ in' # {}
        BY <2>0, <3>2 DEF ReadsLeft
      <3> QED BY <2>a, <3>1, <3>2, <3>3
    <2> QED BY <2>1, <2>2 DEF CountsDown
  <1> QED BY <1>1, TypeCorrect, PTL DEF Spec
=============================================================================
