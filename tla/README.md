# Verification of the electricity meter server

The program under `src/srcs/electricity_meter` is a Linux daemon. Controllers of
electricity meters connect to it over TCP, send readings, power samples and
alarms, and take back options, relay states and the wish to be read out. The
daemon keeps everything in a MySQL database, and now and then dials a controller
through a GSM modem so that it calls back. This directory holds TLA+ models of
the parts that are hard to test, TLC runs over small instances and TLAPS proofs
for all of them.

## Inventory

| Component | State | Operations | Interacts by |
|---|---|---|---|
| Handlers (`reciever.cpp`: `ReceiveEnergy`, `ReceivePower`, `ReceiveAlarm`; `scheduled_action_read_data::invoce`) | none of their own; rows in `e10`, `enmonitor`, `a2`, `power`, `alarm`, `monitor` | decode a packet, one try/catch per record, `BEGIN` ... `COMMIT`/`ROLLBACK` | statements through the thread's writer, all in one MySQL session |
| SQL writers (`my_sql_writer`, `mysql_writer_factory`) | one connection, one mutex, map from `pthread_self()` to writers; per writer the last result and count | `ExecuteSQL`, `FetchRow`, `NumRows`, `get_`/`release_thread_mySQL_writer`, `connect` | mutex shared by all threads; `mysql_ping` reconnects |
| Packet stream (`generic_socket`, `recieve_data_packet`) | socket, byte stream | `send`, `recv`, length and CRC of a packet | called by the connection threads |
| Relay states (`SendToClientRele`) | the rows of one SELECT, batch counters | batches of at most 120 rows, each answered by an energy packet | shares its writer with `ReceiveEnergy` |
| Options and monitoring answers (`SendToClientOptions`, `SendToClientMonitoring`) | none | read a few rows, encode them | socket, writer |
| Connection threads and listener (`reciever::start_recieve`, `socket_thread_function`, `server_socket`) | listening socket, one detached thread and one `generic_socket` per connection | accept, dispatch on the header, release and delete | the thread owns the accepted socket |
| Scheduled actions (`scheduled_action(s)`) | stop flag, time of the last invocation, rows of `monitor` with `CountPoint > 0` | start, stop, `try_invoce`, call one controller | one detached thread, modem, writer |
| Modem (`modem`) | port handle | open and initialise, send, receive, close | the scheduled thread only |
| Daemon process (`main.cpp`, `etc/init.d`) | lock file with the pid, signal handlers | daemonize, connect, start, exit on SIGTERM | init script |
| Packet CRC (`CRC16`) | two tables | one byte after another through a register | called by `recieve_data_packet` and the senders |
| Configurator, logger, exceptions | options read once; none | `load_configuration`; one line to syslog | read by everybody |

Behaviours that are hard here, and the property each calls for:

* Threads interleave *statements*, not transactions: the mutex of `ExecuteSQL`
  covers one statement, the session is one for all. A `BEGIN`, `COMMIT` or
  `ROLLBACK` of one thread ends the transaction another has open. What is left
  of atomicity and durability has to be stated exactly.
* The connection is lost in the middle of a block and `mysql_ping` quietly opens
  a new session, in autocommit mode and outside the transaction.
* A statement throws, the `ROLLBACK` in the catch block throws as well, and
  but for one place nothing in a socket thread catches that.
* SIGTERM calls `exit(0)` from the handler while detached threads run.
* Thread identifiers are used again and writers are never erased; so are
  descriptors, and the listener keeps one pointer for all accepted sockets.
* With autocommit off a SELECT opens a transaction that goes on seeing the old
  tables until *some* thread sends BEGIN, COMMIT or ROLLBACK.
* A name of a file and a lock on it are different things, and an init script
  removes the one while a process may get the other.
* A transaction stays open while a modem call lasts a minute.
* Every statement of a record can fail, always: the loop over the records must
  still move on.
* What comes from outside decides how long loops last: the modem's bytes those of
  `recv`, the packet's length those of the handlers.
* Counters of batches and of bytes are unsigned and differences of them wrap.

`PROJECT.json` lists each of them at its line under `hazards`.

## Plan

Ordered by how much of the daemon's correctness depends on it. All of it is done.

1. `MySqlSession`, `SharedConnection` and its proofs: transactions on the shared
   session.
2. `SqlWriters`, the abstract `SerialStatements`, and the proof that one
   implements the other: what makes a single statement atomic.
3. `ReleTransfer`: the batches of `SendToClientRele`; proofs for small results.
4. `PacketStream` with `Crc16`: `recv` and `recieve_data_packet` over a stream that
   arrives in pieces and with bytes changed.
5. `ConnectionThread`: lifetimes of threads, sockets and writers, exceptions that
   escape a thread.
6. `ScheduledActions` and `CallQueue`: the scheduled thread and the queue of
   controllers to call.
7. `ModemPort` and `Daemon`: the serial port and the modem behind it; lock file,
   signals and the init script.
8. `ControllerAnswers`: what the options sent to a controller are made of.

How the modules share the system: `SqlWriters` justifies one action per statement
in `SharedConnection`, `CallQueue` and `ControllerAnswers`. `SharedConnection` has
what the threads write to one another's transactions; `CallQueue` keeps only the
scheduled thread and turns the others into `CommitElsewhere` and `UndoElsewhere`.
`ModemPort` opens up the action `Call` of `CallQueue`, `PacketStream` the step
`packet` of `ConnectionThread`. `Daemon` has all of that as one state, `serving`.

Worth adding: the refinement of `CallQueue` by `SharedConnection`.

## Transactions on the shared session

`MySqlSession` is what the daemon relies on the server for: a session is a
record of its autocommit mode, whether `BEGIN` was the last transaction
statement, and its pending and durable rows. `ConnectedSession` is what
`mysql_writer_factory::connect` leaves (autocommit off); `AfterDisconnect` is the
session a reconnect opens, for which `mysql_autocommit` is not called again.

`SharedConnection` interleaves the handlers statement by statement. A *unit of
work* is what one try/catch of the source covers: a record of an energy packet,
a power sample, an alarm, a scheduled call. A packet is units `unit[t]` to
`last[t]`: `unit[t]` is the index of its loop, and the only action that advances
it is `EndUnit`, the `i+=NRec` of each way through the body. `pc[t]` is the
statement thread `t` executes next:

| `pc` | code |
|---|---|
| `next` | the head of the loop; a record that fails validation or finds no writer goes back to it with the index advanced (reciever.cpp:270-335) |
| `begin`, `e10`, `enmonitor`, `a2` | the four statements of `ReceiveEnergy` (reciever.cpp:337-410) |
| `power`, `alarm` | the INSERTs of `ReceivePower` and `ReceiveAlarm`, which have no `BEGIN` of their own |
| `select`, `clear`, `calling` | `find_controller_to_call` and the modem call of `invoce` |
| `commit`, `rollback` | the end of the try block and of the catch block |

One action is one call of `ExecuteSQL` and the branch taken on its result. A
call returns with its effect (`Returns`), or throws: the server refused it
(`Refused`), which leaves the transaction as it was or, on a deadlock, rolls it
back; or it could not be reached, before or after it executed the statement
(`Unreachable`). An UPDATE that finds no row returns like any other
(`FindsNoRow`). `LoseConnection` drops the session at any moment, `Sigterm` ends
the process. All of these happen any number of times: `faults` counts them up to
`MaxFaults` and stays there. That a single statement is atomic is what
`SqlWriters` shows.

The variables after `faults` are history for the properties: which statements
returned, which units were stored or failed, which had an UPDATE that found no row
(`unmatched`), and which were open while another thread ended the transaction
(`committedOver`, `rolledOver`), or while the connection went or the server
rolled the transaction back (`cutOff`). They say precisely what each guarantee depends on:

* `NothingLeftPending` - no row outlives its handler in the session.
* `StoredIsDurable` - only another thread's `ROLLBACK`, a lost connection or a
  deadlock takes rows from a stored unit. Another thread's `COMMIT` does not.
* `NotStoredLeavesNothing` - rows of a block become durable before its `COMMIT`
  only through another thread or a lost connection.
* `TablesAgree` - of a reading whose handling nobody interfered with, whatever
  statements failed in it, `e10` has what `a2` and `enmonitor` have, and `a2` has
  what `e10` has unless it has no row of the abonent: an UPDATE that finds none is
  logged and committed (reciever.cpp:403-412), and the reading is in `e10` alone.
* `AbortNeedsTwoFaults` - one call of `ExecuteSQL` that throws never terminates the
  daemon; the `ROLLBACK` throwing as well can. One outage makes both throw.
* `UnitsEnd` - a packet and a call end although every statement fails, always: the
  catch block moves on to the next record as the other paths do.

Bounds: a socket thread and the scheduled one, `MaxUnits` units each: one unit
each, so that every pair of blocks overlaps in every way, in both roles. Faults
are not bounded; they are counted to two (`MaxFaults`), the number
`AbortNeedsTwoFaults` has to tell from one, so a record that always fails is a
behaviour of the run. More threads and units are in the proofs, which hold for any
number of them. `CHECK_DEADLOCK` is off because SIGTERM, `std::terminate` and the
bounds end behaviours.

Fairness: `WF_vars(Work(t))`, a thread in the middle of a unit takes its next
step while the daemon runs. Nothing in the code suspends a thread for ever: the
statements fail or return, the sleeps end, and so do the modem's reads unless it
never stops sending (see *The modem*). No fairness is
assumed of new connections, of faults, or of the scheduler entering `invoce`.

`SharedConnectionRolledBack.cfg` is a run TLC must find violated. The catch
block of `invoce` reports "DB transaction has been rolled back!", and the UPDATE
that clears `CountPoint` is logged as being "under DB transaction"; with one
energy record arriving during the call the record's `BEGIN` has committed the
UPDATE, the `ROLLBACK` undoes nothing and the controller is not called again.

## Single statements

`SqlWriters` models `ExecuteSQL` call by call (free the old result, lock, ping,
query, store, affected rows, unlock) for threads whose identifiers the system
uses again, with `m_writers` keyed by them. `reply` and `affected` are the parts
of the `MYSQL` structure all threads share. The inverted test of
`release_thread_mySQL_writer` is modelled as written: a writer that is found
stays for the next thread with the identifier, one that is not found is deleted
through `end()` (`wild`). The scheduled thread's early return, which skips the
release, is an action of its own.

`SerialStatements` is the promise: a call returns or throws, the statement
executes at one moment of it, and what is read through the writer afterwards is
about it. The refinement mapping hides a statement that is executed and not yet
returned (`InFlight`) and the rows it has stored so far.

* `OwnAnswers` - after a return the rows and the count are of the thread's own
  last statement, after a throw there are none.
* `InSync` - nobody queries while a result is unread on the connection.
* `NoWildDelete` - the inverted test never deletes.
* `MutexIsFreedAgain` - every path through `ExecuteSQL` unlocks.
* `SerialSpec` - the refinement.

Bounds: two identifiers and three threads, so that an identifier is used again
while the other is in a call, and two statements per identifier, so that a second
call meets the leftovers of the first. Fairness: weak, per thread, of the
steps of `ExecuteSQL`; `Lock` is among them, so nothing is assumed of who gets a
contended mutex, and `MutexIsFreedAgain` speaks only of its being freed.

## Relay states

`ReleTransfer` is the loop of `SendToClientRele`, with its four counters as the
code has them: `recIncrem` counts rows and is used as if it counted packets, the
inner loop fetches every row there is, and a difference of two counters wraps at
`Word`. What follows when the rows do not fit is a state of its own:
`undefined` (a write behind `RetBuff`, a row of a freed result, a read of a packet
that is not there) or `aborted` (`bad_alloc` leaves the thread). The answer of
the controller goes to `ReceiveEnergy`, whose first `BEGIN` frees the result the
rows come from. An answer of another length than an energy packet's (`misfit`) is
decoded like the rest: that it is too short is only logged (reciever.cpp:202-213),
and its date and last record are read behind its end.

* `SmallTransferIsSafe`, `AllRowsOrNone` - a result with fewer rows than a packet
  holds is sent completely and in order or not at all, and neither overruns nor
  aborts, unless the answer is cut off or a `misfit`. 120 rows are already one too
  many.
* `NoEmptySlot` - a packet of legal size has no slot without a row. (That of a
  result with more rows than one holds nothing is sent at all is proved.)
* `TransferEnds` - `nrec` passes the number of rows.

Bounds: packets of three rows and up to eight rows, so that a result is less
than a packet, fills one, and needs three; `Word` is 2^16, TLC's integers being
too short for 2^32. Fairness: the handler's thread runs; `send` and `recv` have
time-outs.

## The packet stream

`PacketStream` has a controller that writes a header and packets and may close at
any time, a network that delivers any number of bytes at a time, and the reader.
A byte is its position, so that what the buffer holds is a stretch of the stream.
Each `::recv` asks for the whole count again, as the code does. A packet is its
size, the length it declares, whether its CRC is right (`intact`) and whether it
is as the controller wrote it (`genuine`). `reading` is the call of `recv` the
thread is in, or what came of the packet.

A packet that is nothing but its length would be refused however good it is, as
`recv` is then asked for no bytes. It cannot be good: 3, as the two bytes 0 and 3,
is the CRC of no single byte. `PacketsAssumption` says so, and `MCPacketStream`
evaluates it with `Crc16` for all 256 bytes.

`Crc16` has the two tables and the loop of `CRC16`. Its assumption
`TablesAreModbus` compares all 256 entries with eight shifts by the polynomial
A001: the tables were typed in by hand. `MCPacketStream` computes the packets of
the run with it, so that `intact` is what the code finds out of real bytes.

* `AcceptedAsWritten` - the packets accepted are the first ones written, each
  once, in order, whole and with no byte changed on the way.
  What the reader rests on for the last is that the CRC finds the changes.
* `GoodPacketIsReadUnlessTorn` - a good packet that has arrived is refused only
  when a piece ended inside the header or a length, or when the next packet was
  already there behind it. This is the exact price of the second `::recv`.
* `ReadingEnds` - no call of `recv` lasts for ever.

Bounds: two packets; good ones of six bytes, ones with nothing behind the length
or a length below three, and ones with changed bytes: the first byte changed to
anything, or two neighbours behind the length, one to anything and the other to
one of seven values. Changed packets differ in nothing else the reader looks at,
so that those whose CRC is wrong are one packet. All divisions into pieces;
`Word` is 32, more than all bytes together. Fairness: the time-out of the socket
ends a `::recv` that finds nothing, and the thread runs.

## Listener and connection threads

`ConnectionThread` models `start_recieve`, `server_socket` and
`socket_thread_function`. A `generic_socket` is its descriptor (both are made and
destroyed in one step); `table` says which connection a descriptor is open on,
`accepted` is the one pointer `start_recieve` keeps. Numbers of closed descriptors
come back. `pc[t]` runs through the function:

| `pc` | code (reciever.cpp) |
|---|---|
| `start`, `header` | `get_thread_mySQL_writer` (1186), header and clock (1203-1223) |
| `answer`, `packet`, `store`, `reles` | the branches of `BufHeader[3]` (1224-1290) |
| `pause`, `delete` | the common end: `sleep (20)`, release, `delete` |
| `dropped` | the way out after a bad header, which deletes first and then releases |

What a handler does with the tables is elsewhere; here it is the branches it can
take, two of which leave the thread with an exception nothing catches and end
the daemon: a packet too short for `ReceivePower` or `ReceiveAlarm`, and a
`ROLLBACK` that throws. One too short for `ReceiveEnergy` is read behind its end,
which may end the daemon as well.

* `OwnConnection` - a thread talks over its own connection and shares its
  descriptor with nobody.
* `NoneForgotten` - a descriptor is open only while somebody will close it; the
  exception is a failed `pthread_create`, which the code does leak (`lost`).
* `ReleasesArePaired` - the release with the inverted test is never called without
  a get: this is what `SqlWriters!NoWildDelete` rests on.
* `QueuedIsAccepted`, `AcceptedIsClosed` - whatever controllers do, connections are
  accepted and closed.

Bounds: three connections, two descriptors, two threads, so that both limits are
reached and a descriptor and a thread are used again. Fairness: the accept loop,
and each thread; time-outs bound `recv` and `send`, `sleep` ends. None for
controllers. The process or the connections end, hence no deadlock check.

`ConnectionThreadShort.cfg` must be violated: the message "BufPacket size must be
==" is never logged, the exception ends the daemon.

## Scheduled actions

`ScheduledActions` models `start_actions`, `stop_actions`, `thread_function` and
`try_invoce`, with a caller that uses the class as its interface allows. The two
tests of `m_stop_flag` and its assignment by the *new* thread are steps of their
own.

* `RefusalIsTrue` - "already started" is said only while a thread is in its loop.
* `StopIsObeyed` - a stop ends every thread, unless a thread created before and
  not running yet clears the flag again.

Bounds: three threads, six calls: one thread created, one running and one at its
end at the same time. Fairness: each thread. `main` makes one call; that two
starts in a row make two threads is under *Disagreements*.

## The queue of controllers to call

`CallQueue` is `invoce` and `find_controller_to_call` seen from the rows of
`monitor`. `table` holds the rows with `CountPoint > 0` as committed, `pending`
those an UPDATE has cleared in the open transaction. A SELECT takes the first row
(`limit 0,1`), the UPDATE clears all rows of its `Abonent`. Other threads end the
transaction at any moment; the operator's program sets a `CountPoint` unless the
row is locked. `Throws` is a statement refused, or the connection lost before or
after it was executed. A SELECT is taken to see the committed rows; how far its
view can be behind is in `ControllerAnswers`.

* `PendingOnlyInCall` - nothing is left open for a later BEGIN to commit.
* `FailedCallIsKept` - an undisturbed call that fails leaves its row.
* `ServedIsNotRepeated` - a committed call is not made again unless the row was
  set or put back in the middle of it.
* `WaitsOnlyForFailures` - a row waits for ever only behind a call that fails
  again and again, its own or of a row before it. One such call does stop the
  queue: the code has no other order.

Bounds: three rows of two controllers, the second without a number (its call
always fails), four requests, two faults: a row can be set again during its
call, and a fault can meet a fault. Fairness: `Invoce`, as the thread comes back
to it once a minute; `ModemPort` shows that the call ends unless the modem never
stops sending.

## The modem

`ModemPort` is one call of `invoce` after another on the serial port: the handle
and the process's descriptors, the output and the input the driver holds, and a
modem that executes one command at a time and answers, or not, whenever it likes.
`send` discards both directions a moment after it has written (`modem.cpp:294`):
`Kept` is what can be left of the output, whole commands and perhaps a part of
one. `recv` is a loop (`ReadBytes`, `ReadEnds`): it takes what comes and is left only
when a read fails or `VTIME` passes without a byte. Bytes nobody asked for, a RING
or noise, come at any time (`Unasked`). The next command to reach a modem that is dialling ends the call. `close`
in the destructor can fail; while an exception passes, what it throws is
`std::terminate` (`dead`).

* `PortReleased` - the port is closed exactly once on every path.
* `CommittedCallIsStopped` - after `COMMIT` the modem is not left calling, unless a
  flush cut a command.
* `InvoceEnds` - whatever the modem answers or does not, with one exception that
  the code has: bytes nobody asked for that come again and again keep a `recv`, as
  its loop has no bound of its own (`modem.cpp:329-332`). Without the exception TLC
  finds that loop.

Bounds: two failing system calls, the second while the first unwinds. What comes
to the port is a set of kinds of answer, so that it comes any number of times.
Fairness: the thread only; the modem need not answer, nor be quiet. A modem
that answers with numbers (`Verbose` FALSE) and `PortIsOpen` are in the proofs.

## The process and its init script

`Daemon` has processes (`proc[p]`: forked, file opened, locked, pid recorded,
preparing, serving, exiting) and runs of `/etc/init.d/electricity_meter`. The lock
is on a file (`file[p]`, an inode), the script removes a name (`path`). `content`
is the pid a file can be read as: a short pid written over a longer one is
`Mixed`, as the file is not truncated. `start-stop-daemon` finds a process by
file, or by executable in the second half of `do_stop`; `--retry` is TERM and,
when time is over, KILL. A process that has got TERM runs destructors under
threads that go on and may end or not. Scripts can run together; `together`
remembers that they did.

* `FirstInstanceContinues` - until scripts overlap, at most one process is past
  the lock, whatever crashed before.
* `StoppedMeansNone` - until scripts overlap, `do_stop` removes the name only when
  no process is left.
* `OneServes` - one process serves the port, overlapping scripts or not.
* `StopEnds`, `StartedIsServed` - a stop ends although `exit()` need not; a start
  ends with a process that serves, unless there was a fault or a stop.

Bounds: two pids, one short and one long, two scripts, one fault. Two processes
are enough for every pair to meet at the lock, the file and the port. Fairness:
processes before they serve, and scripts; none for `Exit`.

## What a controller is told

`ControllerAnswers` is `SendToClientOptions` and `SendToClientMonitoring` in the
shared session beside an operator's program that changes the tables. The state
of the tables is a number, `view` the one the session's transaction sees. It rests
on InnoDB's REPEATABLE READ, the server's default: the first read of a
transaction fixes what later reads see. `RetBuff` says for each byte of the
packet which field it is of and which state it was read from.

* `OneState` - the parts of a packet are of one state of the tables, unless
  another thread ended the transaction between the SELECTs, or the session is
  one `mysql_ping` opened.
* `FieldsAreWhole` - a phone number, of whatever length, takes no byte of the
  other fields that is not written again afterwards.
* `ChangeIsSeen` - what the operator changes reaches the controllers, although no
  thread that only reads ends a transaction: it is the scheduled thread's BEGIN,
  sent even when there is nobody to call, that does.

Bounds: two controllers, two changes, two faults; numbers of 12, 14 and 18 digits:
one that fits, one that reaches into the next field, one that leaves the packet
(`undefined`, the thread goes no further). Fairness: the scheduled thread. Left
out: the formats of the clock and of `atoi`'s results; digits are of the field,
whatever they are.

## Proofs

Eight modules hold the theorems, for every value of the components' constants.
Six are about one component each; `ScheduledProofs` is about `CallQueue` and
`ScheduledActions`, `ConversationProofs` about `PacketStream` and
`ControllerAnswers`. A module can extend two components only if they share no
name, which is why the step of a thread is `at` in `ScheduledActions` and `reading`
in `PacketStream`, and why their specifications are called `ActionsSpec` and
`StreamSpec`.

The proofs assume only what the components assume of their constants: the
scheduled thread is not a socket thread; `None` is no identifier, statement,
connection or descriptor; bounds are naturals, rows and pids are numbers; a full
packet's length and the square of its rows are words; sizes and lengths of packets
are words. One theorem, `AcceptedAreGenuine`, has a hypothesis of its own, that the
CRC finds every change among `Packets`: no CRC finds all changes there can be.
Every module proves type correctness and every safety property of the passing
runs of its components.

The invariants of `SharedConnection` are proved separately, each group on top of
the type invariant (`TypeInv`, which adds that what a thread works on is one of
`Units`):

* `PendingInv` - a disconnected session has no pending rows, and a pending row is
  of the current unit of a thread between its first write and the end of its
  block. `NothingLeftPending` alone is not inductive: the step from `select`
  back to `idle` needs that a thread there has written nothing.
* `FaultInv` - a socket thread that rolls back has seen a fault.
* `KeptInv` - a written row is in the session or durable unless its unit was
  rolled back, rolled over or cut off; the index of a thread has passed every unit
  that has ended. A stored unit is then not pending, hence durable.
* `IsolationInv` - inside a block the transaction is explicit unless somebody
  interfered; this excludes writes in autocommit mode, the one way to
  durability without a `COMMIT`.
* `ExecutedInv`, `OrderInv` - durable rows of undisturbed units were written by
  calls that returned, and in the order of the code, an `e10` row being followed by
  one of `a2` or by an UPDATE that found none; with the two above they give
  `TablesAgree`.

`SqlWritersProofs` has one inductive invariant, `IInv`: the holder of the mutex
is the thread in the critical section, the reply on the connection is the
holder's, results by step of the call, a writer for every thread past the
factory, and statements not executed before their query. The refinement proof
has one step per action under it.

`ReleTransferProofs` strengthens `SmallTransferIsSafe` to `SmallInv`, which says
for each step of the handler what has been fetched, packed and sent of a small
result. The safety property alone says nothing of the counters from which the
room in the packet is computed. `SlotInv` is for results of any size: the first
packet has room for the rows there are, or for `Batch` of them; behind a packet
that was exactly full (`Second`) there is another one, with room for no rows or
for more than a legal packet has, as `(nRecords - recIncrem * Batch) % Word` has
wrapped; and no third. That the wrapped number is so large is `SquareAssumption`,
120 * 121 < 2^32. `LargeResultsAreNotSent` is what is left of the batches: with more
rows than one packet holds the first one is overrun before it is sent.

`ConnectionThreadProofs` has `IInv`: `Sockets` says which thread each open
descriptor belongs to (`Bound`, `OneEach`), that the one in `accepted` belongs to
none yet (`Given`), and that a lost one stays open and is never handed out
(`LostIsOpen`, `Kept`); `Holders` says that a thread holds a writer exactly between
its get and its release. `OwnConnection` alone is not inductive: that `CreateThread`
hands out a fresh descriptor needs `Given`.

`ScheduledProofs` needs nothing beyond the type invariant for `ScheduledActions`:
`RefusalIsTrue` is inductive, since a thread leaves its loop only after it has
read the flag. It strengthens the three properties of `CallQueue` with `BegunInv` (an undisturbed
call is between BEGIN and its end, so that the UPDATE cannot commit itself),
`KeptInv` (its row is in the table until COMMIT) and `ServedInv` (a committed row
that is in the table was put back).

`ConversationProofs` has two invariants. `StreamInv` is a `Layout` of the stream,
which no step of the reader touches (packets lie one behind the other, from the
header on, and each is one of `Packets`), and the `Reader` in it. The reader's
`Position` is tied to `accepted`: between packets it stands at the boundary behind
the last one it has accepted, inside a packet its counters say how far it is from
there, and an unfinished header or length means `torn`. From that a length is
always the length of the next packet (`ReaderIsInStep`), `recv` in a body asks for
exactly the rest of a well formed packet, and every way to stop finds the packet
incomplete. The packet in the buffer has a right CRC *and* as many bytes as it
declares (`AcceptedAreWellFormed`): the second because the subtraction on a
`uint16_t` can be undone. `AnswersInv` says per thread what its packet holds at
each step (`Fields`), and that an undisturbed thread inside a transaction has read
only what `view` is (`Viewed`). `OneState` alone speaks of finished packets only
and says nothing of the view the next SELECT will use. Steps are grouped by what
they do to the session: read in it, leave it alone, or end its transaction, which
puts every thread among `ended`.

`ModemPortProofs` has `HandleInv` (descriptors and handle agree at every step) and
`StopInv`: from the write of ATH on there is an ATH in the output behind every
ATD, or the modem has nothing to end.

`DaemonProofs` proves `SerialInv` for as long as scripts have not overlapped:
`OneScript`, `NoneLeft` (after its scan a script finds no process), `SameFile`
(who opened the pid file has the one the path names) and `OneHolder`. `OneServes`
rests on `PortInv` alone, which does not ask for the scripts.

Three theorems are the part of a liveness property that is within reach: each names
a quantity every step brings down, so that what is left to TLC is that steps are
taken. `TransfersCountDown`: a transfer of `SendToClientRele` is at most
`MaxRows` + 16 steps whatever the controller answers, since after two packets `nrec`
has passed the rows or the handler has left the loop (`FetchedInv` and `SlotInv`).
`CallsCountDown`: a call of `invoce` is at most 42 steps of the program, and one more
for each time bytes come to a port that holds none: whatever the modem answers or
does not, only sending without end prolongs a call without end.
`CallsOfRecvCountDown`: every `::recv` that finds bytes brings its call nearer to the
count, is the last of the length or ends the reading, for every length a packet
can announce; `ReadingEnds` then needs only that each `::recv` returns.

Only model-checked: the liveness properties (`UnitsEnd`, `MutexIsFreedAgain`,
`TransferEnds`, `ReadingEnds`, `QueuedIsAccepted`, `AcceptedIsClosed`,
`StopIsObeyed`, `WaitsOnlyForFailures`, `InvoceEnds`, `StopEnds`,
`StartedIsServed`, `ChangeIsSeen`), which depend on fairness and `ENABLED`, out of
the prover's reach. What a fold computes (the CRC) cannot be proved by induction
with the provers at hand: `TablesAreModbus` and that 3 is the CRC of no byte are
evaluated, and that the CRC finds the changes of the run's packets is checked.

## Disagreements

Two are runs that must be violated, `SharedConnectionRolledBack` and
`ConnectionThreadShort`. Others met on the way, without a run of their own:

* `start_actions` refuses a second start by `m_stop_flag`
  (scheduled_actions.cpp:67), which the new thread clears (99): two starts in a
  row make two threads.
* "modem is still calling and we need to stop it"
  (scheduled_action_read_data.cpp:135) is said of a silent modem; the flush of
  `send` (modem.cpp:294) discards answers as well.
* `init` accepts a modem that answers with numbers (modem.cpp:242), `invoce` looks
  for words only (scheduled_action_read_data.cpp:97): such a modem's answered
  calls all fail.
* The pid is written into a lock file that is opened without truncation
  (main.cpp:77, 83).
* `do_stop` removes the pid file another instance may have locked by then
  (init.d:79), and `do_start` does not wait for the pid to be recorded.
* The comment that `FetchRow` "takes on next iteration (RecIncrem = 1,2,3,4) next
  record" (reciever.cpp:1051) does not hold: `RecIncrem` counts rows (1126), and
  from 120 rows on the size of the next packet wraps.
* `SendToClientRele` decodes an answer `recieve_data_packet` refused (1151).
* "the packet is too short!" (reciever.cpp:205) is logged, and the packet decoded all
  the same: bytes 5 to 10 are read behind its end (217-257).
* "affected ... rows" (reciever.cpp:408) is logged as an ERROR when `a2` has no row of
  the abonent, and the transaction committed all the same (412).
* `recv` of the modem waits "until new data arrives" (modem.cpp:331) without any
  bound: a modem that does not stop sending keeps the scheduled thread.
* `PacketDataLength < 0` (145) is never true of a `uint16_t`.
* Even parity sets every bit but PARODD, and the character size is never cleared
  (modem.cpp:155, 187).
* `pause_after_call_to_controller` is read from `config`, not `config.scheduled`
  where the XML has it (configurator.cpp:167): it is always 30.
* A phone number of more than 12 digits runs into the next fields of the options
  packet (reciever.cpp:813).

## Not modelled

`mysql_writer_factory::connect` runs once, before any thread, and either connects
within ten tries or ends the program; the session it leaves is in `MySqlSession`,
its failure in `Daemon`. What the destructors `exit()` runs do to live threads is
undefined; `Daemon` lets such a process end or hang. `stop_recieve` is called by
nobody. Of the options `load_configuration` reads only the phone number is
modelled: the others are passed on as they are, and the arithmetic of `modem::init`
on the line's flags has no state. Conversions of the fields of readings, power
samples and alarms are left out, as no property is about them. Memory exhaustion
(an allocation that throws under the mutex) is left out. The logger forwards
lines to syslog, `packets_processor` is an empty stub, the makefile and `monitrc`
are stock files.
