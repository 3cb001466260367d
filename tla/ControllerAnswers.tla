------------------------- MODULE ControllerAnswers -------------------------
(***************************************************************************)
(* What SendToClientOptions and SendToClientMonitoring answer a controller *)
(* from tables that an operator's program changes.  The options are three  *)
(* SELECTs in the session all threads share.  With autocommit off a SELECT *)
(* opens a transaction that goes on seeing the tables as they were, until  *)
(* whichever thread sends BEGIN, COMMIT or ROLLBACK; the session that      *)
(* follows a lost connection has autocommit on and sees every change.      *)
(***************************************************************************)
EXTENDS Naturals

CONSTANTS
  Sockets,      \* threads that serve a controller
  FoneLengths,  \* lengths the operator's FoneServer may have
  Configured,   \* lengths server_phone_number may have in the configuration
  MaxChanges,   \* bound: transactions of the operator's program
  MaxFaults     \* bound: statements that throw, and lost connections

ASSUME LengthsAssumption == FoneLengths \subseteq Nat /\ Configured \subseteq Nat
ASSUME BoundsAssumption == MaxChanges \in Nat /\ MaxFaults \in Nat

VARIABLES
  db,          \* the state of the tables: 1, and one more with each change
  view,        \* the state the session's transaction sees, 0 before it reads
  explicit,    \* the session is between BEGIN and COMMIT or ROLLBACK
  autocommit,  \* its mode: off after connect(), on after a reconnection
  configured,  \* length of the configured server_phone_number, 0: none
  pc,          \* per socket: its thread's next step
  RetBuff,     \* per socket: the packet, what each byte is of
  scheduled,   \* the scheduled thread's next step
  faults,      \* throwing statements and lost connections so far
  ended        \* history: sockets whose transaction another thread or a lost
               \* connection has ended since they began their packet

session == <<view, explicit, autocommit>>
answers == <<pc, RetBuff>>
vars    == <<db, session, configured, answers, scheduled, faults, ended>>

Length == 32
Bytes  == 5..(Length - 3)  \* without the code, the length, the number, the CRC
Time   == 5..8
Zones  == 9..14
PhoneNumOffset == 15
Gsm    == {27, 28}
Fone   == PhoneNumOffset..26

\* A byte not written is 0; "clock" and a configured number are of no state.
Zero  == [field |-> "none", state |-> 0]
Of(field, state) == [field |-> field, state |-> state]

-----------------------------------------------------------------------------
(* The session.                                                            *)

\* What a SELECT sees.
Seen == IF view = 0 THEN db ELSE view

Reads ==
  /\ view' = IF autocommit /\ ~ explicit THEN 0 ELSE Seen
  /\ UNCHANGED <<explicit, autocommit>>

\* BEGIN (begun), COMMIT or ROLLBACK.
Ends(begun) ==
  /\ view' = 0 /\ explicit' = begun
  /\ ended' = Sockets
  /\ UNCHANGED autocommit

Intact == UNCHANGED faults

\* A statement that throws: the server refused it.
Throws == faults < MaxFaults /\ faults' = faults + 1 /\ UNCHANGED <<session, ended>>

\* The connection goes, now, or with the next statement, which throws or finds
\* it re-opened by mysql_ping.
LoseConnection ==
  /\ faults < MaxFaults /\ faults' = faults + 1
  /\ view' = 0 /\ explicit' = FALSE /\ autocommit' = TRUE
  /\ ended' = Sockets
  /\ UNCHANGED <<db, configured, answers, scheduled>>

\* The operator's program commits.
Change ==
  /\ db <= MaxChanges
  /\ db' = db + 1
  /\ UNCHANGED <<session, configured, answers, scheduled, faults, ended>>

-----------------------------------------------------------------------------
(* SendToClientOptions and SendToClientMonitoring.                         *)

Goto(t, step) == pc' = [pc EXCEPT ![t] = step]

Put(t, bytes, content) ==
  RetBuff' = [RetBuff EXCEPT ![t] =
                [b \in Bytes |-> IF b \in bytes THEN content ELSE RetBuff[t][b]]]

\* A row that is missing or NULL, and a statement that throws: nothing is sent.
Fail(t) ==
  /\ Goto(t, "idle")
  /\ RetBuff' = [RetBuff EXCEPT ![t] = [b \in Bytes |-> Zero]]
  /\ \/ Intact /\ Reads /\ UNCHANGED ended
     \/ Throws

StartOptions(t) ==
  /\ pc[t] = "idle"
  /\ Goto(t, "fone")
  /\ ended' = ended \ {t}
  /\ UNCHANGED <<db, session, configured, RetBuff, scheduled, faults>>

\* More digits than the packet has bytes go behind it, which is undefined.
PutFone(t, n, state) ==
  IF PhoneNumOffset + n > Length
  THEN Goto(t, "undefined") /\ UNCHANGED RetBuff
  ELSE /\ Goto(t, "zones")
       /\ Put(t, PhoneNumOffset..(PhoneNumOffset + n - 1), Of("fone", state))

\* The number of the configuration, or of the first row of monitor.
SelectFone(t) ==
  /\ pc[t] = "fone"
  /\ \/ configured > 0 /\ PutFone(t, configured, 0) /\ Intact /\ UNCHANGED <<session, ended>>
     \/ /\ configured = 0
        /\ \/ Reads /\ Intact /\ UNCHANGED ended
              /\ \E n \in FoneLengths \ {0} : PutFone(t, n, Seen)
           \/ Fail(t)
  /\ UNCHANGED <<db, configured, scheduled>>

\* Mutant: the options are read from the tables as they are now.
SelectZonesCommits(t) ==
  /\ pc[t] = "zones"
  /\ \/ /\ view' = 0 /\ UNCHANGED <<explicit, autocommit, ended>> /\ Intact
        /\ Goto(t, "gsm")
        /\ Put(t, Zones, Of("zones", db))
     \/ Fail(t)
  /\ UNCHANGED <<db, configured, scheduled>>

\* The clock; then the month's row of tz.
SelectZones(t) ==
  /\ pc[t] = "zones"
  /\ \/ /\ Reads /\ Intact /\ UNCHANGED ended
        /\ Goto(t, "gsm")
        /\ RetBuff' = [RetBuff EXCEPT ![t] =
             [b \in Bytes |-> CASE b \in Time  -> Of("clock", 0)
                                [] b \in Zones -> Of("zones", Seen)
                                [] OTHER       -> RetBuff[t][b]]]
     \/ Fail(t)
  /\ UNCHANGED <<db, configured, scheduled>>

\* Mutant: the bytes are counted from one.
SelectGsmFromOne(t) ==
  /\ pc[t] = "gsm"
  /\ \/ /\ Reads /\ Intact /\ UNCHANGED ended
        /\ Goto(t, "send")
        /\ Put(t, {26, 27}, Of("gsm", Seen))
     \/ Fail(t)
  /\ UNCHANGED <<db, configured, scheduled>>

\* The controller's row of gsm.
SelectGsm(t) ==
  /\ pc[t] = "gsm"
  /\ \/ /\ Reads /\ Intact /\ UNCHANGED ended
        /\ Goto(t, "send")
        /\ Put(t, Gsm, Of("gsm", Seen))
     \/ Fail(t)
  /\ UNCHANGED <<db, configured, scheduled>>

\* All of the packet in one send, or an exception and nothing.
SendOptions(t) ==
  /\ pc[t] = "send"
  /\ Goto(t, "idle")
  /\ RetBuff' = [RetBuff EXCEPT ![t] = [b \in Bytes |-> Zero]]
  /\ UNCHANGED <<db, session, configured, scheduled, faults, ended>>

\* One SELECT, of the first row of monitor, and one send.
Monitoring(t) ==
  /\ pc[t] = "idle"
  /\ Reads
  /\ UNCHANGED <<db, configured, answers, scheduled, faults, ended>>

-----------------------------------------------------------------------------
(* Statements of the other handlers that end the transaction.              *)

\* Mutant: BEGIN is left to the UPDATE, when there is a controller to call.
ScheduledBeginLater ==
  /\ scheduled = "idle"
  /\ scheduled' = "select"
  /\ UNCHANGED <<db, session, configured, answers, faults, ended>>

\* The scheduled thread, once in an interval.
ScheduledBegin ==
  /\ scheduled = "idle"
  /\ \/ Ends(TRUE) /\ Intact /\ scheduled' = "select"
     \/ Throws /\ scheduled' = "end"
  /\ UNCHANGED <<db, configured, answers>>

\* Without a controller to call invoce returns, the transaction open.
ScheduledSelect ==
  /\ scheduled = "select"
  /\ \/ Reads /\ Intact /\ UNCHANGED ended /\ scheduled' \in {"idle", "end"}
     \/ Throws /\ scheduled' = "end"
  /\ UNCHANGED <<db, configured, answers>>

\* COMMIT or ROLLBACK; what the last throws is caught.
ScheduledEnd ==
  /\ scheduled = "end"
  /\ scheduled' = "idle"
  /\ \/ Ends(FALSE) /\ Intact
     \/ Throws
  /\ UNCHANGED <<db, configured, answers>>

\* ReceiveEnergy, in another thread: BEGIN; COMMIT or ROLLBACK.
Energy ==
  /\ \E begun \in BOOLEAN : Ends(begun)
  /\ UNCHANGED <<db, configured, answers, scheduled, faults>>

-----------------------------------------------------------------------------
\* load_configuration, once, before start_recieve.
Load == configured \in Configured

Init ==
  /\ db = 1
  /\ view = 0 /\ explicit = FALSE /\ autocommit = FALSE
  /\ Load
  /\ pc = [t \in Sockets |-> "idle"]
  /\ RetBuff = [t \in Sockets |-> [b \in Bytes |-> Zero]]
  /\ scheduled = "idle"
  /\ faults = 0
  /\ ended = {}

Options(t) ==
  StartOptions(t) \/ SelectFone(t) \/ SelectZones(t) \/ SelectGsm(t) \/ SendOptions(t)

Invoce == ScheduledBegin \/ ScheduledSelect \/ ScheduledEnd

Next ==
  \/ Change \/ LoseConnection \/ Invoce \/ Energy
  \/ \E t \in Sockets : Options(t) \/ Monitoring(t)

Spec == Init /\ [][Next]_vars
\* The scheduled thread runs as long as the process; controllers need not call.
FairSpec == Spec /\ WF_vars(Invoce)

-----------------------------------------------------------------------------
(* Properties.                                                             *)

\* The parts of one options packet are of one state of the tables, although
\* three statements read them while the operator's program writes: unless
\* another thread's BEGIN, COMMIT or ROLLBACK or a lost connection came between
\* them, or the session is one mysql_ping has opened, outside a BEGIN.
OneState ==
  \A t \in Sockets :
    pc[t] = "send" /\ t \notin ended /\ (~ autocommit \/ explicit) =>
      \A b, c \in Bytes :
        LET s == RetBuff[t][b].state  u == RetBuff[t][c].state
        IN  s # 0 /\ u # 0 => s = u

\* Whatever the length of the number, short of undefined behaviour, it takes no
\* byte of the other fields, and they take none of its first twelve.
FieldsAreWhole ==
  \A t \in Sockets : pc[t] = "send" =>
    /\ \A b \in Time  : RetBuff[t][b].field = "clock"
    /\ \A b \in Zones : RetBuff[t][b].field = "zones"
    /\ \A b \in Gsm   : RetBuff[t][b].field = "gsm"
    /\ \A b, c \in Fone : b < c /\ RetBuff[t][c].field = "fone" => RetBuff[t][b].field = "fone"
    /\ \A b \in Fone  : RetBuff[t][b].field \in {"none", "fone"}

\* What the operator's program changes reaches the controllers: from some time
\* on every SELECT sees it, although the session may read all the time and no
\* controller reports anything.  It is the scheduled thread's BEGIN, sent even
\* when there is nobody to call, that ends the old view.
ChangeIsSeen == \A v \in 1..(MaxChanges + 1) : db = v ~> [](Seen >= v)
=============================================================================
