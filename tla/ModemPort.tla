----------------------------- MODULE ModemPort -----------------------------
(***************************************************************************)
(* The serial port in one call of invoce after another, and the modem      *)
(* behind it.  invoce creates a modem object, init() opens the port and    *)
(* sends AT, then come ATD, perhaps AT+CERR, and ATH; the destructor       *)
(* closes the port, at the end of the block or while an exception passes.  *)
(* send() writes, waits m_delay_useconds and discards what the port has    *)
(* not sent and what it has received.  The modem executes one command at a *)
(* time; the next one ends a call it is making.                            *)
(***************************************************************************)
EXTENDS Naturals, Sequences

CONSTANTS
  Verbose,    \* FALSE: the modem is in ATV0 and answers with numbers
  MaxFaults   \* bound: calls of the operating system or of MySQL that fail

ASSUME ModemAssumption == Verbose \in BOOLEAN
ASSUME FaultsAssumption == MaxFaults \in Nat

Commands == {"AT", "ATD", "AT+CERR", "ATH"}
\* "other" is an error or an echo, "report" the numbers AT+CERR is answered with.
Answers  == {"OK", "NO ANSWER", "NO CARRIER", "other", "report"}

VARIABLES
  handle,       \* m_port_handle: "none" (-1) or "port"
  descriptors,  \* the process's descriptors of the port
  pc,           \* the thread's next step
  command,      \* the command it is at
  got,          \* the buffer of the last recv(): the answers in it
  faults,       \* failed calls so far
  out,          \* the port's output: commands, "part" for one cut short
  in,           \* the port's input: the answers in it
  busy,         \* what the modem executes: a command, "junk" or "none"
  junk,         \* the modem has a part of a command and no end of line
  cut           \* history: a flush cut a command of this call

port  == <<handle, descriptors>>
line  == <<out, in>>
modem == <<busy, junk>>
vars  == <<port, pc, command, got, faults, line, modem, cut>>

Steps == {"idle", "open", "setup", "write", "flush", "read", "answer",
          "commit", "close", "unwind", "caught", "dead"}

-----------------------------------------------------------------------------
(* Helpers.                                                                *)

Intact == UNCHANGED faults
Fault  == faults < MaxFaults /\ faults' = faults + 1

Throw == pc' = "unwind"

\* close(); it drops what the port holds.  The descriptor is gone even when it
\* fails.
ClosePort ==
  /\ handle' = "none"
  /\ descriptors' = descriptors - 1
  /\ out' = <<>> /\ in' = {}

Send(c) == command' = c /\ pc' = "write"

\* What is left of the output when a flush discards the rest: bytes in the
\* UART are sent, so a command can end in the middle.
Kept ==
  {SubSeq(out, 1, n) : n \in 0..Len(out)}
    \cup {Append(SubSeq(out, 1, n), "part") : n \in 0..(Len(out) - 1)}

\* modem_buffer.find(text).
Found(text) == Verbose /\ text \in got

-----------------------------------------------------------------------------
(* modem::init.                                                            *)

\* find_controller_to_call found a row; the modem object is created.
Invoce ==
  /\ pc = "idle"
  /\ handle' = "none"
  /\ pc' = "open" /\ command' = "AT" /\ got' = {}
  /\ cut' = FALSE
  /\ UNCHANGED <<descriptors, faults, line, modem>>

Open ==
  /\ pc = "open"
  /\ \/ /\ Intact
        /\ handle' = "port" /\ descriptors' = descriptors + 1
        /\ pc' = "setup"
     \/ Fault /\ Throw /\ UNCHANGED port
  /\ UNCHANGED <<command, got, line, modem, cut>>

\* Mutant: a failure in init() after open() forgets the handle.
SetupForgets ==
  /\ pc = "setup"
  /\ \/ Intact /\ pc' = "write" /\ UNCHANGED <<port, line>>
     \/ Fault /\ Throw /\ handle' = "none" /\ UNCHANGED <<descriptors, line>>
  /\ UNCHANGED <<command, got, modem, cut>>

\* fcntl throws with the port open, tcgetattr to tcflush close it first.
Setup ==
  /\ pc = "setup"
  /\ \/ /\ Intact
        /\ in' = {} /\ out' \in Kept
        /\ pc' = "write"
        /\ UNCHANGED port
     \/ Fault /\ Throw /\ UNCHANGED <<port, line>>
     \/ Fault /\ Throw /\ ClosePort
  /\ UNCHANGED <<command, got, modem, cut>>

-----------------------------------------------------------------------------
(* modem::send, up to and after the usleep(), and modem::recv.             *)

Write ==
  /\ pc = "write"
  /\ got' = {}
  /\ \/ handle = "none" /\ Throw /\ Intact /\ UNCHANGED line
     \/ /\ handle = "port"
        /\ \/ Intact /\ out' = Append(out, command) /\ pc' = "flush"
           \/ Fault /\ Throw /\ UNCHANGED out
        /\ UNCHANGED in
  /\ UNCHANGED <<port, command, modem, cut>>

Flush ==
  /\ pc = "flush"
  /\ \/ /\ Intact
        /\ in' = {} /\ out' \in Kept
        /\ pc' = IF command = "ATH" THEN "commit" ELSE "read"
        /\ cut' = (cut \/ out' # out)
        /\ UNCHANGED port
     \/ Fault /\ Throw /\ ClosePort /\ UNCHANGED cut
  /\ UNCHANGED <<command, got, modem>>

\* recv() appends what comes for as long as something comes.
ReadBytes ==
  /\ pc = "read" /\ handle = "port"
  /\ in # {}
  /\ got' = got \cup in /\ in' = {}
  /\ UNCHANGED <<port, pc, command, faults, out, modem, cut>>

\* Mutant: recv() goes on until there is something.
ReadEndsWithSomething ==
  /\ pc = "read" /\ handle = "port"
  /\ in = {} /\ got # {}
  /\ pc' = "answer"
  /\ UNCHANGED <<port, command, got, faults, line, modem, cut>>

\* A VTIME without a byte ends it, or a read that fails: the answer, or more of
\* it, may come later.
ReadEnds ==
  /\ pc = "read"
  /\ \/ handle = "none" /\ Throw /\ Intact
     \/ /\ handle = "port" /\ pc' = "answer"
        /\ (in = {} /\ Intact) \/ Fault
  /\ UNCHANGED <<port, command, got, line, modem, cut>>

-----------------------------------------------------------------------------
(* What init and invoce make of an answer.                                 *)

\* "OK" or "0"; a late report that ends in 0 is taken for it.
AnswerToAT ==
  /\ pc = "answer" /\ command = "AT"
  /\ \/ got \cap {"OK", "report"} # {} /\ Send("ATD")
     \/ "OK" \notin got /\ Throw /\ UNCHANGED command
  /\ UNCHANGED <<port, got, faults, line, modem, cut>>

\* Mutant: a silent modem needs no ATH.
AnswerToATDLeavesIt ==
  /\ pc = "answer" /\ command = "ATD"
  /\ \/ got = {} /\ pc' = "commit" /\ UNCHANGED command
     \/ Found("OK") /\ Send("ATH")
     \/ got # {} /\ ~ Found("OK") /\ Throw /\ UNCHANGED command
  /\ UNCHANGED <<port, got, faults, line, modem, cut>>

AnswerToATD ==
  /\ pc = "answer" /\ command = "ATD"
  /\ LET done == got = {} \/ Found("OK") \/ Found("NO ANSWER")
     IN  \/ done /\ Send("ATH")
         \/ ~ done /\ Found("NO CARRIER") /\ Send("AT+CERR")
         \/ ~ done /\ ~ Found("NO CARRIER") /\ Throw /\ UNCHANGED command
  /\ UNCHANGED <<port, got, faults, line, modem, cut>>

\* It is for the log; the call has failed.
AnswerToCERR ==
  /\ pc = "answer" /\ command = "AT+CERR"
  /\ Throw
  /\ UNCHANGED <<port, command, got, faults, line, modem, cut>>

\* COMMIT, and the pause after the call.
Commit ==
  /\ pc = "commit"
  /\ \/ Intact /\ pc' = "close"
     \/ Fault /\ Throw
  /\ UNCHANGED <<port, command, got, line, modem, cut>>

-----------------------------------------------------------------------------
(* modem::~modem and the catch block.                                      *)

\* The end of the block: what the destructor throws is caught.
Close ==
  /\ pc = "close"
  /\ ClosePort
  /\ \/ Intact /\ pc' = "idle"
     \/ Fault /\ pc' = "caught"
  /\ UNCHANGED <<command, got, modem, cut>>

\* While an exception passes it is not: std::terminate.
Unwind ==
  /\ pc = "unwind"
  /\ \/ handle = "none" /\ Intact /\ pc' = "caught" /\ UNCHANGED <<port, line>>
     \/ /\ handle = "port" /\ ClosePort
        /\ \/ Intact /\ pc' = "caught"
           \/ Fault /\ pc' = "dead"
  /\ UNCHANGED <<command, got, modem, cut>>

\* ROLLBACK.
Catch ==
  /\ pc = "caught"
  /\ pc' = "idle"
  /\ UNCHANGED <<port, command, got, faults, line, modem, cut>>

-----------------------------------------------------------------------------
(* The modem, at any time.                                                 *)

\* It receives the next of the output; with ATE1 it echoes it.
Receive ==
  /\ out # <<>>
  /\ out' = Tail(out)
  /\ \/ Head(out) = "part" /\ junk' = TRUE /\ UNCHANGED busy
     \/ /\ Head(out) # "part"
        /\ busy' = IF junk THEN "junk" ELSE Head(out)
        /\ junk' = FALSE
  /\ in' \in {in, in \cup {"other"}}
  /\ UNCHANGED <<port, pc, command, got, faults, cut>>

AnswersTo(c) ==
  CASE c \in {"AT", "ATH"} -> {"OK"}
    [] c = "ATD"           -> Answers \ {"report"}
    [] c = "AT+CERR"       -> {"report"}
    [] OTHER               -> {"other"}

\* A port that is not open drops the answer.
Reply ==
  /\ busy # "none"
  /\ \E a \in AnswersTo(busy) : in' = IF descriptors = 0 THEN {} ELSE in \cup {a}
  /\ busy' = "none"
  /\ UNCHANGED <<port, pc, command, got, faults, out, junk, cut>>

\* Bytes nobody asked for: RING, or noise on the line.
Unasked ==
  /\ descriptors # 0
  /\ in' = in \cup {"other"}
  /\ UNCHANGED <<port, pc, command, got, faults, out, modem, cut>>

-----------------------------------------------------------------------------
Init ==
  /\ handle = "none" /\ descriptors = 0
  /\ pc = "idle" /\ command = "AT" /\ got = {}
  /\ faults = 0
  /\ out = <<>> /\ in = {}
  /\ busy = "none" /\ junk = FALSE
  /\ cut = FALSE

Program ==
  \/ Open \/ Setup \/ Write \/ Flush \/ ReadBytes \/ ReadEnds
  \/ AnswerToAT \/ AnswerToATD \/ AnswerToCERR
  \/ Commit \/ Close \/ Unwind \/ Catch

Next == Invoce \/ Program \/ Receive \/ Reply \/ Unasked

Spec == Init /\ [][Next]_vars
\* No call of the thread blocks for ever: a read ends after VTIME, a close
\* after the port's closing time.  The modem need not answer, nor be quiet.
FairSpec == Spec /\ WF_vars(Program)

-----------------------------------------------------------------------------
(* Properties.                                                             *)

TypeOK ==
  /\ handle \in {"none", "port"} /\ descriptors \in Nat
  /\ pc \in Steps /\ command \in Commands
  /\ got \subseteq Answers /\ in \subseteq Answers
  /\ faults \in 0..MaxFaults
  /\ out \in Seq(Commands \cup {"part"})
  /\ busy \in Commands \cup {"junk", "none"} /\ junk \in BOOLEAN
  /\ cut \in BOOLEAN

\* Whatever fails and wherever, the port is closed, once, when the exception
\* has left the block or invoce has ended: the next call can open it.
PortReleased == pc \in {"idle", "caught"} => descriptors = 0

\* "impossible": send and recv never find the port closed.
PortIsOpen ==
  pc \in {"write", "flush", "read"} => handle = "port" /\ descriptors = 1

\* After COMMIT the modem is not left calling: the command that ends its call
\* has reached it or is in the port, unless a flush cut a command.
CommittedCallIsStopped ==
  LET Sent(c) == \E i \in DOMAIN out : out[i] = c
  IN  pc = "close" /\ ~ cut /\ (busy = "ATD" \/ Sent("ATD")) => Sent("ATH")

\* invoce comes to its end, whatever the modem answers or does not.  The one
\* thing that keeps it is a recv() in which bytes nobody asked for come again
\* and again: the loop of read() has no bound of its own (modem.cpp:329-332).
InvoceEnds ==
  \/ <>[](pc = "read") /\ []<><<Unasked>>_vars
  \/ pc = "open" ~> pc \in {"idle", "dead"}
=============================================================================
