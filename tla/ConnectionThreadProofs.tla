----------------------- MODULE ConnectionThreadProofs -----------------------
(***************************************************************************)
(* Proofs about ConnectionThread, for any controllers, threads and         *)
(* descriptors: every socket has one thread and is closed by it, and       *)
(* writers are released by the threads that got them.                      *)
(***************************************************************************)
EXTENDS ConnectionThread, TLAPS

USE NoneAssumption

\* The socket of a talking thread is open on its connection, and neither given
\* away nor about to be given to another thread.
Bound ==
  \A t \in Threads : pc[t] \in Talking =>
    /\ sock[t] \in Fds /\ mine[t] \in Controllers
    /\ table[sock[t]] = mine[t]
    /\ sock[t] \notin lost
    /\ acceptor = "creating" => accepted # sock[t]

OneEach ==
  \A t, u \in Threads :
    pc[t] \in Talking /\ pc[u] \in Talking /\ sock[t] = sock[u] => t = u

\* What start_recieve is about to hand over is open and still its own.
Given ==
  acceptor = "creating" =>
    accepted \in Fds /\ table[accepted] \in Controllers /\ accepted \notin lost

LostIsOpen == \A f \in lost : table[f] # None

Kept ==
  \A f \in Fds : table[f] # None =>
    \/ f \in lost
    \/ acceptor = "creating" /\ accepted = f
    \/ \E t \in Threads : pc[t] \in Talking /\ sock[t] = f

Sockets == Bound /\ OneEach /\ Given /\ LostIsOpen /\ Kept

\* A thread holds a writer exactly between these steps.
WriterSteps == {"header", "answer", "packet", "store", "reles", "pause", "dropped"}
Holders == \A t \in Threads : t \in holding <=> pc[t] \in WriterSteps

IInv == TypeOK /\ Sockets /\ Holders /\ ReleasesArePaired

-----------------------------------------------------------------------------
(* Type correctness.                                                       *)

LEMMA HeadAndTail ==
  ASSUME NEW S, NEW s \in Seq(S), s # <<>>
  PROVE  Head(s) \in S /\ Tail(s) \in Seq(S)
  OBVIOUS

LEMMA AppendKeepsType ==
  ASSUME NEW S, NEW s \in Seq(S), NEW e \in S
  PROVE  Append(s, e) \in Seq(S)
  OBVIOUS

LEMMA InitType == Init => TypeOK
  <1> SUFFICES ASSUME Init PROVE TypeOK
    OBVIOUS
  <1>1. queue \in Seq(Controllers)
    BY DEF Init
  <1>2. /\ table \in [Fds -> Controllers \cup {None}]
        /\ pc \in [Threads -> Steps]
        /\ sock \in [Threads -> Fds \cup {None}]
        /\ mine \in [Threads -> Controllers \cup {None}]
    BY DEF Init, Steps, Talking
  <1>3. code \in [Threads -> Codes] /\ fits \in [Threads -> BOOLEAN]
    BY DEF Init, Codes
  <1> QED BY <1>1, <1>2, <1>3 DEF Init, TypeOK, Ends

LEMMA ServeType ==
  ASSUME TypeOK, NEW t \in Threads, Serve(t)
  PROVE  TypeOK'
  <1> USE DEF TypeOK, At, Goto, Running, Steps, Talking
  <1>1. CASE GetWriter(t)
    BY <1>1 DEF GetWriter, DeleteSocket, listener, report, history
  <1>2. CASE ReadHeader(t)
    <2>1. PICK c \in Codes : /\ code' = [code EXCEPT ![t] = c]
                             /\ Goto(t, CASE c \in {"TIMER", "RING"} -> "answer"
                                          [] c = "ALARM"             -> "packet"
                                          [] OTHER                   -> "pause")
      BY <1>2 DEF ReadHeader
    <2>2. pc' \in [Threads -> Steps]
      BY <2>1 DEF Codes
    <2> QED BY <1>2, <2>1, <2>2 DEF ReadHeader, listener, history
  <1>3. CASE HeaderFails(t)
    BY <1>3 DEF HeaderFails, DeleteSocket, listener, report, history
  <1>4. CASE ReleaseAfterDelete(t)
    BY <1>4 DEF ReleaseAfterDelete, Release, listener, report
  <1>5. CASE Answer(t)
    BY <1>5 DEF Answer, listener, report, history
  <1>6. CASE ReceivePacket(t)
    BY <1>6 DEF ReceivePacket, listener, history
  <1>7. CASE Store(t)
    BY <1>7 DEF Store, Stored, Terminate, Ends, listener, report, history
  <1>8. CASE SendReles(t)
    BY <1>8 DEF SendReles, listener, report, history
  <1>9. CASE Pause(t)
    BY <1>9 DEF Pause, Release, listener, report
  <1>10. CASE Delete(t)
    BY <1>10 DEF Delete, DeleteSocket, listener, report, history
  <1> QED BY <1>1, <1>2, <1>3, <1>4, <1>5, <1>6, <1>7, <1>8, <1>9, <1>10 DEF Serve

LEMMA ListenType ==
  ASSUME TypeOK, Sockets,
         \/ Initialize \/ Accept \/ Create \/ \E c \in Controllers : Connect(c)
  PROVE  TypeOK'
  <1> USE DEF TypeOK, Running
  <1>1. CASE Initialize
    BY <1>1 DEF Initialize, report, history, Ends
  <1>2. CASE Accept
    <2>1. PICK f \in Fds : AcceptInto(f)
      BY <1>2 DEF Accept
    <2>2. Head(queue) \in Controllers /\ Tail(queue) \in Seq(Controllers)
      BY <2>1, HeadAndTail DEF AcceptInto
    <2> QED BY <2>1, <2>2 DEF AcceptInto, report, history
  <1>3. CASE CreateFails
    BY <1>3 DEF CreateFails, Sockets, Given, report
  <1>4. ASSUME NEW t \in Threads, CreateThread(t) PROVE TypeOK'
    BY <1>4 DEF CreateThread, Goto, Steps, Talking, Sockets, Given, report
  <1>5. ASSUME NEW c \in Controllers, Connect(c) PROVE TypeOK'
    <2>1. queue' \in Seq(Controllers)
      BY <1>5, AppendKeepsType DEF Connect
    <2> QED BY <1>5, <2>1 DEF Connect, report, history
  <1> QED BY <1>1, <1>2, <1>3, <1>4, <1>5 DEF Create

-----------------------------------------------------------------------------
(* A thread's step is of one of two kinds: it goes on with its socket, or  *)
(* closes it.                                                              *)

LEMMA TalkingGoesOn ==
  ASSUME TypeOK, Sockets, NEW t \in Threads, NEW step \in Talking,
         pc[t] \in Talking, pc' = [pc EXCEPT ![t] = step],
         UNCHANGED <<acceptor, accepted, table, sock, mine, lost>>
  PROVE  Sockets'
  <1>1. \A u \in Threads : pc'[u] \in Talking <=> pc[u] \in Talking
    BY DEF TypeOK
  <1> QED BY <1>1 DEF Sockets, Bound, OneEach, Given, LostIsOpen, Kept

LEMMA SocketIsClosed ==
  ASSUME TypeOK, Sockets, NEW t \in Threads, NEW step, step \notin Talking,
         pc[t] \in Talking, pc' = [pc EXCEPT ![t] = step],
         DeleteSocket(t),
         UNCHANGED <<acceptor, accepted, mine, lost>>
  PROVE  Sockets'
  <1>1. \A u \in Threads : pc'[u] \in Talking <=> u # t /\ pc[u] \in Talking
    BY DEF TypeOK
  <1>2. \A u \in Threads : u # t => sock'[u] = sock[u]
    BY DEF DeleteSocket, TypeOK
  <1>3. sock[t] \in Fds
    BY DEF Sockets, Bound
  <1>4. \A f \in Fds : table'[f] = IF f = sock[t] THEN None ELSE table[f]
    BY <1>3 DEF DeleteSocket, TypeOK
  <1>5. \A u \in Threads : u # t /\ pc[u] \in Talking => sock[u] # sock[t]
    BY DEF Sockets, OneEach
  <1>6. Bound'
    BY <1>1, <1>2, <1>4, <1>5 DEF Sockets, Bound
  <1>7. OneEach'
    BY <1>1, <1>2 DEF Sockets, OneEach
  <1>8. Given' /\ LostIsOpen'
    BY <1>3, <1>4 DEF Sockets, Bound, Given, LostIsOpen, TypeOK
  <1>9. Kept'
    BY <1>1, <1>2, <1>4 DEF Sockets, Kept
  <1> QED BY <1>6, <1>7, <1>8, <1>9 DEF Sockets

\* A step after the socket was deleted changes nothing about sockets.
LEMMA NotTalking ==
  ASSUME TypeOK, Sockets, NEW t \in Threads, NEW step, step \notin Talking,
         pc[t] \notin Talking, pc' = [pc EXCEPT ![t] = step],
         UNCHANGED <<acceptor, accepted, table, sock, mine, lost>>
  PROVE  Sockets'
  <1>1. \A u \in Threads : pc'[u] \in Talking <=> pc[u] \in Talking
    BY DEF TypeOK
  <1> QED BY <1>1 DEF Sockets, Bound, OneEach, Given, LostIsOpen, Kept

LEMMA ServeSockets ==
  ASSUME TypeOK, Sockets, NEW t \in Threads, Serve(t)
  PROVE  Sockets'
  <1> USE DEF At, Goto, Talking
  <1>1. CASE GetWriter(t)
    <2>1. CASE pc' = [pc EXCEPT ![t] = "header"] /\ UNCHANGED <<table, sock>>
      BY <1>1, <2>1, TalkingGoesOn DEF GetWriter, listener, history
    <2>2. CASE pc' = [pc EXCEPT ![t] = "none"] /\ DeleteSocket(t)
      BY <1>1, <2>2, SocketIsClosed DEF GetWriter, listener, history
    <2> QED BY <1>1, <2>1, <2>2 DEF GetWriter
  <1>2. CASE ReadHeader(t)
    <2>1. \E step \in {"answer", "packet", "pause"} : pc' = [pc EXCEPT ![t] = step]
      BY <1>2 DEF ReadHeader, Codes
    <2> QED BY <1>2, <2>1, TalkingGoesOn DEF ReadHeader, listener, history
  <1>3. CASE HeaderFails(t)
    BY <1>3, SocketIsClosed DEF HeaderFails, listener, history
  <1>4. CASE ReleaseAfterDelete(t)
    BY <1>4, NotTalking DEF ReleaseAfterDelete, listener
  <1>5. CASE Answer(t)
    BY <1>5, TalkingGoesOn DEF Answer, listener, history
  <1>6. CASE ReceivePacket(t)
    <2>1. \E step \in {"store", "pause"} : pc' = [pc EXCEPT ![t] = step]
      BY <1>6 DEF ReceivePacket
    <2> QED BY <1>6, <2>1, TalkingGoesOn DEF ReceivePacket, listener, history
  <1>7. CASE Store(t)
    <2>1. CASE UNCHANGED pc
      BY <1>7, <2>1 DEF Store, listener, history, Sockets, Bound, OneEach,
                        Given, LostIsOpen, Kept
    <2>2. CASE Stored(t)
      <3>1. \E step \in {"reles", "pause"} : pc' = [pc EXCEPT ![t] = step]
        BY <2>2 DEF Stored
      <3> QED BY <1>7, <3>1, TalkingGoesOn DEF Store, listener, history
    <2> QED BY <1>7, <2>1, <2>2 DEF Store, Terminate
  <1>8. CASE SendReles(t)
    BY <1>8, TalkingGoesOn DEF SendReles, listener, history
  <1>9. CASE Pause(t)
    BY <1>9, TalkingGoesOn DEF Pause, listener
  <1>10. CASE Delete(t)
    BY <1>10, SocketIsClosed DEF Delete, listener, history
  <1> QED BY <1>1, <1>2, <1>3, <1>4, <1>5, <1>6, <1>7, <1>8, <1>9, <1>10 DEF Serve

-----------------------------------------------------------------------------
(* The listener's steps.                                                   *)

LEMMA ListenSockets ==
  ASSUME TypeOK, Sockets,
         \/ Initialize \/ Accept \/ Create \/ \E c \in Controllers : Connect(c)
  PROVE  Sockets'
  <1>1. CASE Initialize
    BY <1>1 DEF Initialize, history, Sockets, Bound, OneEach, Given, LostIsOpen, Kept
  <1>2. CASE Accept
    <2>1. PICK f \in Fds : AcceptInto(f)
      BY <1>2 DEF Accept
    <2>2. Head(queue) \in Controllers
      BY <2>1, HeadAndTail DEF AcceptInto, TypeOK
    <2>3. \A g \in Fds : table'[g] = IF g = f THEN Head(queue) ELSE table[g]
      BY <2>1 DEF AcceptInto, TypeOK
    <2>4. \A t \in Threads : pc[t] \in Talking => sock[t] # f
      BY <2>1 DEF AcceptInto, Sockets, Bound
    <2>5. f \notin lost
      BY <2>1 DEF AcceptInto, Sockets, LostIsOpen
    <2>6. Bound' /\ OneEach'
      BY <2>1, <2>3, <2>4 DEF AcceptInto, history, Sockets, Bound, OneEach
    <2>7. Given' /\ LostIsOpen'
      BY <2>1, <2>2, <2>3, <2>5 DEF AcceptInto, history, Sockets, Given, LostIsOpen, TypeOK
    <2>8. Kept'
      BY <2>1, <2>3 DEF AcceptInto, history, Sockets, Kept
    <2> QED BY <2>6, <2>7, <2>8 DEF Sockets
  <1>3. CASE CreateFails
    BY <1>3 DEF CreateFails, Sockets, Bound, OneEach, Given, LostIsOpen, Kept
  <1>4. ASSUME NEW t \in Threads, CreateThread(t) PROVE Sockets'
    <2>1. pc[t] \notin Talking
      BY <1>4 DEF CreateThread, Talking
    <2>2. \A u \in Threads : /\ pc'[u] \in Talking <=> u = t \/ pc[u] \in Talking
                             /\ sock'[u] = IF u = t THEN accepted ELSE sock[u]
                             /\ mine'[u] = IF u = t THEN table[accepted] ELSE mine[u]
      BY <1>4 DEF CreateThread, Goto, Talking, TypeOK
    <2>3. Bound'
      BY <1>4, <2>2 DEF CreateThread, Sockets, Bound, Given
    <2>4. OneEach'
      BY <1>4, <2>1, <2>2 DEF CreateThread, Sockets, Bound, OneEach
    <2>5. Given' /\ LostIsOpen'
      BY <1>4 DEF CreateThread, Sockets, Given, LostIsOpen
    <2>6. Kept'
      BY <1>4, <2>1, <2>2 DEF CreateThread, Sockets, Kept
    <2> QED BY <2>3, <2>4, <2>5, <2>6 DEF Sockets
  <1>5. ASSUME NEW c \in Controllers, Connect(c) PROVE Sockets'
    BY <1>5 DEF Connect, history, Sockets, Bound, OneEach, Given, LostIsOpen, Kept
  <1> QED BY <1>1, <1>2, <1>3, <1>4, <1>5 DEF Create

-----------------------------------------------------------------------------
(* Writers.                                                                *)

LEMMA ServeWriters ==
  ASSUME TypeOK, Holders, ReleasesArePaired, NEW t \in Threads, Serve(t)
  PROVE  Holders' /\ ReleasesArePaired'
  <1> USE DEF TypeOK, Holders, ReleasesArePaired, At, Goto, WriterSteps
  <1>1. CASE GetWriter(t)
    BY <1>1 DEF GetWriter, history
  <1>2. CASE ReadHeader(t)
    <2>1. \E step \in {"answer", "packet", "pause"} : pc' = [pc EXCEPT ![t] = step]
      BY <1>2 DEF ReadHeader, Codes
    <2> QED BY <1>2, <2>1 DEF ReadHeader, history
  <1>3. CASE HeaderFails(t)
    BY <1>3 DEF HeaderFails, history
  <1>4. CASE ReleaseAfterDelete(t)
    BY <1>4 DEF ReleaseAfterDelete, Release
  <1>5. CASE Answer(t)
    BY <1>5 DEF Answer, history
  <1>6. CASE ReceivePacket(t)
    BY <1>6 DEF ReceivePacket, history
  <1>7. CASE Store(t)
    BY <1>7 DEF Store, Stored, Terminate, history
  <1>8. CASE SendReles(t)
    BY <1>8 DEF SendReles, history
  <1>9. CASE Pause(t)
    BY <1>9 DEF Pause, Release
  <1>10. CASE Delete(t)
    BY <1>10 DEF Delete, history
  <1> QED BY <1>1, <1>2, <1>3, <1>4, <1>5, <1>6, <1>7, <1>8, <1>9, <1>10 DEF Serve

LEMMA ListenWriters ==
  ASSUME TypeOK, Holders, ReleasesArePaired,
         \/ Initialize \/ Accept \/ Create \/ \E c \in Controllers : Connect(c)
  PROVE  Holders' /\ ReleasesArePaired'
  BY DEF TypeOK, Holders, ReleasesArePaired, Initialize, Accept, AcceptInto, Create,
         CreateFails, CreateThread, Connect, Goto, WriterSteps, history

-----------------------------------------------------------------------------
(* The inductive invariant and its theorems.                               *)

LEMMA IInvInit == Init => IInv
  <1> SUFFICES ASSUME Init PROVE IInv
    OBVIOUS
  <1>1. \A t \in Threads : pc[t] = "none"
    BY DEF Init
  <1>2. Sockets
    BY <1>1 DEF Init, Sockets, Bound, OneEach, Given, LostIsOpen, Kept, Talking
  <1>3. Holders /\ ReleasesArePaired
    BY <1>1 DEF Init, Holders, ReleasesArePaired, WriterSteps
  <1> QED BY <1>2, <1>3, InitType DEF IInv

LEMMA IInvStep == IInv /\ [Next]_vars => IInv'
  <1> SUFFICES ASSUME IInv, [Next]_vars PROVE IInv'
    OBVIOUS
  <1>1. ASSUME NEW t \in Threads, Serve(t) PROVE IInv'
    BY <1>1, ServeType, ServeSockets, ServeWriters DEF IInv
  <1>2. CASE Initialize \/ Accept \/ Create \/ \E c \in Controllers : Connect(c)
    BY <1>2, ListenType, ListenSockets, ListenWriters DEF IInv
  <1>3. CASE UNCHANGED vars
    BY <1>3 DEF vars, listener, report, history, IInv, TypeOK, Sockets, Bound, OneEach,
                Given, LostIsOpen, Kept, Holders, ReleasesArePaired
  <1> QED BY <1>1, <1>2, <1>3 DEF Next

LEMMA IInvAlways == Spec => []IInv
  BY IInvInit, IInvStep, PTL DEF Spec

\* Every variable of the listener and its threads keeps its type.
THEOREM TypeCorrect == Spec => []TypeOK
  <1>1. IInv => TypeOK
    BY DEF IInv
  <1> QED BY <1>1, IInvAlways, PTL

\* For any number of controllers, threads and descriptors, no two threads share
\* a socket and each talks to the controller it was created for, although all
\* get it through one pointer and descriptors are used again.
THEOREM ThreadsKeepTheirConnection == Spec => []OwnConnection
  <1>1. IInv => OwnConnection
    <2> SUFFICES ASSUME IInv, NEW t \in Threads, pc[t] \in Talking
                 PROVE  /\ sock[t] # None /\ mine[t] # None
                        /\ table[sock[t]] = mine[t]
                        /\ Served(sock[t]) = {t}
      BY DEF OwnConnection
    <2>1. sock[t] \in Fds /\ mine[t] \in Controllers /\ table[sock[t]] = mine[t]
      BY DEF IInv, Sockets, Bound
    <2>2. Served(sock[t]) = {t}
      BY DEF IInv, Sockets, OneEach, Served
    <2> QED BY <2>1, <2>2
  <1> QED BY <1>1, IInvAlways, PTL

\* The only way to leave a descriptor open for ever is a failed pthread_create.
THEOREM DescriptorsAreKept == Spec => []NoneForgotten
  <1>1. IInv => NoneForgotten
    BY DEF IInv, Sockets, Kept, NoneForgotten, Served
  <1> QED BY <1>1, IInvAlways, PTL

\* Every release is of a writer the thread got before.
THEOREM ReleasesFollowGets == Spec => []ReleasesArePaired
  <1>1. IInv => ReleasesArePaired
    BY DEF IInv
  <1> QED BY <1>1, IInvAlways, PTL
=============================================================================
