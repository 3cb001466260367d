-------------------------- MODULE ConnectionThread --------------------------
(***************************************************************************)
(* The listener and the threads of the connections.  start_recieve accepts *)
(* a connection, allocates a generic_socket around its descriptor and      *)
(* hands the pointer to a detached thread; socket_thread_function talks to *)
(* the controller and deletes the socket, which closes the descriptor.     *)
(*                                                                         *)
(* A socket object is its descriptor: both are made and destroyed in one   *)
(* step.  A descriptor's number is used again once it is closed.  What the *)
(* handlers write is in SharedConnection, what they read in PacketStream   *)
(* and ReleTransfer; here each is the branches it can take.                *)
(***************************************************************************)
EXTENDS Sequences, FiniteSets

CONSTANTS
  Controllers,  \* connections controllers make, each once
  Threads,      \* threads the system can run for them at a time
  Fds,          \* descriptors left for accepted connections
  None          \* no descriptor, no connection

ASSUME NoneAssumption == None \notin Controllers /\ None \notin Fds

VARIABLES
  acceptor,  \* start_recieve: "starting" | "accepting" | "creating" | "returned"
  accepted,  \* accepted_socket; it keeps its value when accept throws
  queue,     \* the backlog of the listening socket
  waiting,   \* connections not made yet
  table,     \* per descriptor: the connection it is open on, or None
  pc,        \* per thread: its next step in socket_thread_function
  sock,      \* per thread: the socket it was given
  code,      \* per thread: BufHeader[3]
  fits,      \* per thread: its packet has the bytes its handler reads
  holding,   \* threads between get_ and release_thread_mySQL_writer
  daemon,    \* "running", or why the process ended
  \* History, read by the properties only:
  mine,      \* per thread: the connection it was created for
  lost,      \* descriptors whose pthread_create failed
  unpaired   \* a writer was released that had not been got

listener == <<acceptor, accepted, queue, waiting>>
report   == <<code, fits>>
history  == <<mine, lost, unpaired>>
vars     == <<listener, table, pc, sock, report, holding, daemon, history>>

Codes == {"TIMER", "RING", "ALARM", "other"}

\* Steps at which the thread has its socket, and those before and after.
Talking == {"start", "header", "answer", "packet", "store", "reles", "pause", "delete"}
Steps   == Talking \cup {"none", "dropped"}
Ends    == {"notListening", "shortReport", "failedRollback"}

Running       == daemon = "running"
At(t, step)   == Running /\ pc[t] = step
Goto(t, step) == pc' = [pc EXCEPT ![t] = step]
Served(f)     == {t \in Threads : pc[t] \in Talking /\ sock[t] = f}

-----------------------------------------------------------------------------
(* start_recieve.                                                          *)

\* server_socket::initialize; when it fails start_recieve returns and with it
\* main: the process is over, the scheduled thread with it.
Initialize ==
  /\ acceptor = "starting"
  /\ \/ acceptor' = "accepting" /\ UNCHANGED daemon
     \/ acceptor' = "returned" /\ daemon' = "notListening"
  /\ UNCHANGED <<accepted, queue, waiting, table, pc, sock, report, holding, history>>

Connect(c) ==
  /\ Running /\ acceptor # "starting"
  /\ c \in waiting
  /\ waiting' = waiting \ {c}
  /\ queue' = Append(queue, c)
  /\ UNCHANGED <<acceptor, accepted, table, pc, sock, report, holding, daemon, history>>

AcceptInto(f) ==
  /\ Running /\ acceptor = "accepting"
  /\ queue # <<>> /\ table[f] = None
  /\ table' = [table EXCEPT ![f] = Head(queue)]
  /\ queue' = Tail(queue)
  /\ accepted' = f
  /\ acceptor' = "creating"
  /\ UNCHANGED <<waiting, pc, sock, report, holding, daemon, history>>

\* Mutant: when accept throws, the loop body goes on to pthread_create.
AcceptFallsThrough ==
  \/ \E f \in Fds : AcceptInto(f)
  \/ /\ Running /\ acceptor = "accepting"
     /\ accepted # None
     /\ acceptor' = "creating"
     /\ UNCHANGED <<accepted, queue, waiting, table, pc, sock, report, holding, daemon, history>>

\* server_socket::accept.  It throws when SO_RCVTIMEO passes without a
\* connection or no descriptor is left; then nothing changes, accepted_socket
\* included, and "continue" takes the loop back to accept at once.
Accept == \E f \in Fds : AcceptInto(f)

CreateThread(t) ==
  /\ Running /\ acceptor = "creating"
  /\ pc[t] = "none"
  /\ sock' = [sock EXCEPT ![t] = accepted]
  /\ mine' = [mine EXCEPT ![t] = table[accepted]]
  /\ Goto(t, "start")
  /\ acceptor' = "accepting"
  /\ UNCHANGED <<accepted, queue, waiting, table, report, holding, daemon, lost, unpaired>>

\* Mutant: a failed pthread_create leaves the loop.
CreateFailsReturns ==
  /\ Running /\ acceptor = "creating"
  /\ lost' = lost \cup {accepted}
  /\ acceptor' = "returned"
  /\ UNCHANGED <<accepted, queue, waiting, table, pc, sock, report, holding, daemon, mine, unpaired>>

\* pthread_create fails: the error is logged, the socket is not deleted.
CreateFails ==
  /\ Running /\ acceptor = "creating"
  /\ lost' = lost \cup {accepted}
  /\ acceptor' = "accepting"
  /\ UNCHANGED <<accepted, queue, waiting, table, pc, sock, report, holding, daemon, mine, unpaired>>

-----------------------------------------------------------------------------
(* socket_thread_function.                                                 *)

\* delete (socket): ~generic_socket shuts the connection down and closes it.
DeleteSocket(t) ==
  /\ table' = [table EXCEPT ![sock[t]] = None]
  /\ sock' = [sock EXCEPT ![t] = None]

Release(t) ==
  /\ holding' = holding \ {t}
  /\ unpaired' = (unpaired \/ t \notin holding)

\* Mutant: a thread without a writer leaves through the common end.
GetWriterFailsToEnd(t) ==
  /\ At(t, "start")
  /\ \/ Goto(t, "header") /\ holding' = holding \cup {t}
     \/ Goto(t, "pause") /\ UNCHANGED holding
  /\ UNCHANGED <<listener, table, sock, report, daemon, history>>

\* Without a writer the thread deletes its socket and releases nothing.
GetWriter(t) ==
  /\ At(t, "start")
  /\ \/ /\ Goto(t, "header")
        /\ holding' = holding \cup {t}
        /\ UNCHANGED <<table, sock>>
     \/ /\ Goto(t, "none")
        /\ DeleteSocket(t)
        /\ UNCHANGED holding
  /\ UNCHANGED <<listener, report, daemon, history>>

\* BufHeader[3] chooses the branch; without '#' there is none.
ReadHeader(t) ==
  /\ At(t, "header")
  /\ \E c \in Codes :
       /\ code' = [code EXCEPT ![t] = c]
       /\ Goto(t, CASE c \in {"TIMER", "RING"} -> "answer"
                    [] c = "ALARM"             -> "packet"
                    [] OTHER                   -> "pause")
  /\ UNCHANGED <<listener, table, sock, fits, holding, daemon, history>>

\* Mutant: the socket of a header that does not come is not deleted.
HeaderFailsKeepsSocket(t) ==
  /\ At(t, "header")
  /\ Goto(t, "dropped")
  /\ UNCHANGED <<listener, table, sock, report, holding, daemon, history>>

\* No header in time, or localtime_r fails: delete, then release.
HeaderFails(t) ==
  /\ At(t, "header")
  /\ DeleteSocket(t)
  /\ Goto(t, "dropped")
  /\ UNCHANGED <<listener, report, holding, daemon, history>>

ReleaseAfterDelete(t) ==
  /\ At(t, "dropped")
  /\ Release(t)
  /\ Goto(t, "none")
  /\ UNCHANGED <<listener, table, sock, report, daemon, mine, lost>>

\* SendToClientOptions or SendToClientMonitoring, whose result is ignored.
Answer(t) ==
  /\ At(t, "answer")
  /\ Goto(t, "packet")
  /\ UNCHANGED <<listener, table, sock, report, holding, daemon, history>>

\* Mutant: a packet that cannot be read is asked for again.
ReceivePacketAgain(t) ==
  /\ At(t, "packet")
  /\ \/ /\ Goto(t, "store")
        /\ \E enough \in BOOLEAN : fits' = [fits EXCEPT ![t] = enough]
     \/ Goto(t, "answer") /\ UNCHANGED fits
  /\ UNCHANGED <<listener, table, sock, code, holding, daemon, history>>

\* recieve_data_packet; a packet it returns true for can have any length.
ReceivePacket(t) ==
  /\ At(t, "packet")
  /\ \/ /\ Goto(t, "store")
        /\ \E enough \in BOOLEAN : fits' = [fits EXCEPT ![t] = enough]
     \/ Goto(t, "pause") /\ UNCHANGED fits
  /\ UNCHANGED <<listener, table, sock, code, holding, daemon, history>>

\* What follows ReceiveEnergy, ReceivePower or ReceiveAlarm: only a TIMER's
\* packet that repeats the header's number is answered, with relay states.
Stored(t) ==
  /\ \/ code[t] = "TIMER" /\ Goto(t, "reles")
     \/ Goto(t, "pause")
  /\ UNCHANGED daemon

Terminate(why) == daemon' = why /\ UNCHANGED pc

\* A packet with fewer bytes than the handler reads: ReceivePower and
\* ReceiveAlarm throw what nothing catches; ReceiveEnergy reads behind the
\* vector, which may do anything a read can.
Store(t) ==
  /\ At(t, "store")
  /\ \/ (fits[t] \/ code[t] = "TIMER") /\ Stored(t)
     \/ ~ fits[t] /\ Terminate("shortReport")
     \/ fits[t] /\ Terminate("failedRollback")
  /\ UNCHANGED <<listener, table, sock, report, holding, history>>

\* SendToClientRele; its statements can throw where nothing catches only
\* inside ReceiveEnergy, within a try.
SendReles(t) ==
  /\ At(t, "reles")
  /\ Goto(t, "pause")
  /\ UNCHANGED <<listener, table, sock, report, holding, daemon, history>>

\* sleep (20) and release_thread_mySQL_writer.
Pause(t) ==
  /\ At(t, "pause")
  /\ Release(t)
  /\ Goto(t, "delete")
  /\ UNCHANGED <<listener, table, sock, report, daemon, mine, lost>>

Delete(t) ==
  /\ At(t, "delete")
  /\ DeleteSocket(t)
  /\ Goto(t, "none")
  /\ UNCHANGED <<listener, report, holding, daemon, history>>

-----------------------------------------------------------------------------
Init ==
  /\ acceptor = "starting" /\ accepted = None
  /\ queue = <<>> /\ waiting = Controllers
  /\ table = [f \in Fds |-> None]
  /\ pc = [t \in Threads |-> "none"]
  /\ sock = [t \in Threads |-> None]
  /\ code = [t \in Threads |-> "other"]
  /\ fits = [t \in Threads |-> FALSE]
  /\ holding = {}
  /\ daemon = "running"
  /\ mine = [t \in Threads |-> None]
  /\ lost = {}
  /\ unpaired = FALSE

Create == CreateFails \/ \E t \in Threads : CreateThread(t)

Serve(t) ==
  \/ GetWriter(t) \/ ReadHeader(t) \/ HeaderFails(t) \/ ReleaseAfterDelete(t)
  \/ Answer(t) \/ ReceivePacket(t) \/ Store(t) \/ SendReles(t)
  \/ Pause(t) \/ Delete(t)

Next ==
  \/ Initialize \/ Accept \/ Create
  \/ \E c \in Controllers : Connect(c)
  \/ \E t \in Threads : Serve(t)

Spec == Init /\ [][Next]_vars

\* Time-outs bound every call of recv and send and every statement, a sleep
\* ends, and the loop of start_recieve calls accept again at once.
FairSpec == /\ Spec /\ WF_vars(Accept) /\ WF_vars(Create)
            /\ \A t \in Threads : WF_vars(Serve(t))

-----------------------------------------------------------------------------
(* Properties.                                                             *)

TypeOK ==
  /\ acceptor \in {"starting", "accepting", "creating", "returned"}
  /\ accepted \in Fds \cup {None}
  /\ queue \in Seq(Controllers) /\ waiting \subseteq Controllers
  /\ table \in [Fds -> Controllers \cup {None}]
  /\ pc \in [Threads -> Steps]
  /\ sock \in [Threads -> Fds \cup {None}]
  /\ code \in [Threads -> Codes] /\ fits \in [Threads -> BOOLEAN]
  /\ holding \subseteq Threads
  /\ daemon \in Ends \cup {"running"}
  /\ mine \in [Threads -> Controllers \cup {None}]
  /\ lost \subseteq Fds
  /\ unpaired \in BOOLEAN

\* While a thread uses its socket the descriptor is open on the connection the
\* thread was created for, and no other thread has that socket: accepted_socket
\* is one pointer for all of them, and numbers of closed descriptors come back.
OwnConnection ==
  \A t \in Threads : pc[t] \in Talking =>
    /\ sock[t] # None /\ mine[t] # None
    /\ table[sock[t]] = mine[t]
    /\ Served(sock[t]) = {t}

\* An open descriptor is about to be given to a thread, or has one that will
\* close it, on every way through socket_thread_function; the exception is one
\* whose pthread_create failed.
NoneForgotten ==
  \A f \in Fds : table[f] # None =>
    \/ f \in lost
    \/ acceptor = "creating" /\ accepted = f
    \/ Served(f) # {}

\* release_thread_mySQL_writer, whose test is inverted, is called only by a
\* thread whose get_thread_mySQL_writer returned, and once for it.
ReleasesArePaired == ~ unpaired

\* A connection that reaches the backlog is accepted, however many threads
\* keep their descriptors through their pauses, unless failures of
\* pthread_create have used all descriptors up.
QueuedIsAccepted ==
  \A c \in Controllers :
    (\E i \in DOMAIN queue : queue[i] = c)
      ~> \/ \A i \in DOMAIN queue : queue[i] # c
         \/ lost = Fds \/ ~ Running

\* Whatever the controller does or leaves out, its connection is closed.
AcceptedIsClosed ==
  \A f \in Fds : table[f] # None ~> table[f] = None \/ f \in lost \/ ~ Running

\* The message "BufPacket size must be ==" (reciever.cpp:466) is for the log,
\* as every exception's: a report of the wrong size must not end the daemon.
ShortReportIsLogged == daemon # "shortReport"
=============================================================================
