# A model of YiboServer in TLA+

These modules describe the concurrent core of the server in this repository, the
logging service beside it and the scripts that run both, precisely enough to be
model-checked by TLC and, for eight of them, proved with TLAPS for every size of the
instance. Every definition is translated from the code under `src/`
and `include/` (`PROJECT.json` names the lines); what belongs to the kernel, the
network, a library or a peer is modelled from how the code uses it and marked as
external there.

- [The system](#the-system)
- [The modules](#the-modules)
- [What the runs show](#what-the-runs-show)
- [Bounds](#bounds)
- [Fairness](#fairness)
- [What is proved](#what-is-proved)
- [Where the code falls short of its documentation](#where-the-code-falls-short-of-its-documentation)
- [What is not modelled](#what-is-not-modelled)
- [Plan](#plan)

## The system

| component | state | operations | correct if |
|---|---|---|---|
| `CThreadPool` (`concurrent/ThreadPool`) | `m_workers`, `m_tasks`, `m_stop`, a mutex, a condition variable | `Start`, `AddTask`, `Stop`, the worker loop, the destructor | an accepted task runs exactly once, nobody sleeps over work, Stop drains and returns |
| `CServer` (`server/Server`) and `main` | `m_clients`, `m_running`, the epoll instance, the pool | `Init`, `Run`, `HandleEvent` and its task, `Stop` | a descriptor number never means two connections, a request is handled once, closed connections are dropped, Stop ends |
| `Trace` and `CLoggerServer` (`logger/`) | per-thread socket and sequence number; the service's socket, epoll instance, writer | `Trace` with three attempts, `Start`, `EventLoop`, `HandleLogData`, `Stop` | an acknowledgement is for the right message, lines keep their order, `Trace` returns |
| `LogInfo`, `LogWriter` | the open file, its stream buffer, its size and age | `Serialize`, `Deserialize`, `Write`, `Rotate` | what is logged is what was traced, whole and once; rotation loses nothing |
| database clients | one connection, a mutex | `Connect`, `Exec`, transactions, `Close` | transactions are atomic, exclusive and end |
| `CHttpParser`, `UrlParser`, `CEdoyunPlayerServer` | one request at a time | parsing, routing, `HandleLogin` and the other handlers | a whole request is understood and answered, part of one is refused, a login is earned |
| service scripts (`scripts/*.sh`) | two PID files | start, stop, restart, status | a daemon is never started twice nor lost track of, stop leaves none |
| `CSocket`, `CEpoll` | descriptors, the interest list | accept, send and receive, add, delete, wait | as part of their users |
| `CProcess` (`concurrent/Process`) with the IPC branch of `CServer` | `m_pid` and `m_fd` of each object; descriptor tables and socket queues in the kernel | `CreateSubProcess`, moves, destructor, `SendFD`, `RecvFD`, `ReceiveFD` | a descriptor is owned once, a worker holds nothing of another's, a connection is where it was sent, the end of the dispatcher is seen |
| `CThread` | a `std::thread` | start, join | not modelled |
| configuration, `Result`, `Optional`, hashes, time, strings | none shared | pure functions | not modelled |

The server thread waits in epoll, accepts connections and hands a task to the
pool for each readable one; the task receives, calls the business logic (which
asks the database and sends one response, if it can be encoded) or, at the end of the stream, takes
the connection out of epoll and `m_clients`. Any thread may call `Trace`, which
sends a datagram to the service, a process of its own, and waits up to 100 ms for
each of three acknowledgements. `main` stops the server on a signal: pool first,
then epoll, then the join of the server thread. The scripts know both processes
by their PID files only.

The hard behaviours are those between these parts: notifications that are sent
outside the mutex; level-triggered events that queue several tasks for one
request; descriptor numbers that are reused while old tasks still hold them;
blocking `recv` in pool threads; a stop while all this goes on; datagrams and
acknowledgements that are lost or late; a log file that is buffered, rotated and
reopened around kills of the service; descriptors that `fork` copies into workers
that were not meant to have them; transactions that are several calls on a
connection everybody shares; TCP segments that do not respect requests; daemons
that die between two commands of a script. `PROJECT.json` lists them one by one,
with the line where each bites and the properties aimed at it.

## The modules

| module | models | how it corresponds to the code |
|---|---|---|
| `TaskExecutor` | what the pool promises | accepted tasks start in order, finish once, and a Stop that returns leaves none; no threads, mutex or notifications |
| `ThreadPool` | `CThreadPool` | one action per critical section: `Lock`, `Wait`, `Take`, `Run`, `Exit` of a worker, `CallAddTask`, `Emplace`, `NotifyOne` of a client, `SetStop`, `NotifyAll`, `Join` of the owner. The wait set of the condition variable is the threads at "asleep"; wakeups may be spurious. `Executor` is the refinement mapping |
| `Server` | `CServer`, `main`, the pool at the level of `TaskExecutor`, epoll, accept and the peers | the server thread's program counter walks through `Run` and `HandleEvent`, each worker's through the task. `Open` says which connections have a `shared_ptr` left: the last one closes the descriptor, whose number is then free. `Add` may fail on an open epoll instance, which the code ignores: `refused` remembers whom it left in `m_clients` only. `Received` may end without a response: `unanswered` remembers who waits in vain |
| `RudpLog` | `Trace` in each thread, the network, `CLoggerServer` | the edge-triggered socket is read once per event; `edge` is its place in epoll's ready list. A kill keeps a prefix of the lines the stream had buffered |
| `LogInfo` | the wire format of a record | `Serialize` and `Deserialize` over sequences of bytes; `Record` gives the fields the ranges of their C++ types |
| `LogWriter` | `HandleLogData` from the bytes on, `LogWriter` | files are named by the second they are opened in; `Rotate` closes, reopens for appending and may fail |
| `Database` | both clients | a method holds the mutex for the whole of its body: one call is one step. `BACKEND` tells what BEGIN does inside a transaction |
| `HttpParser` | `CHttpParser`, `UrlParser` | operators on texts; a separator, a digit or a word is one symbol |
| `PlayerService` | `CEdoyunPlayerServer` behind one connection | a Recv returns any part of the stream that is not read yet, and is parsed on its own. `Escapes` says what `m_db` is: where names are not escaped (SQLite), a name with an apostrophe makes a query of which nothing is said: it selects anything (`Selected`) |
| `HandOver` | what descriptor passing promises | an open connection is with the processes that accepted it or were sent it and at the ends it is queued at, nowhere else; no numbers, tables, `fork` or objects |
| `Process` | `CProcess` in a dispatcher and its workers, the branch of `HandleEvent` that receives descriptors | a descriptor table per process, a queue per end of a pair; `SocketPair`, `Fork`, `Adopt` are the steps of `CreateSubProcess` in the dispatcher, `Start` what the child does before `m_func`. `Promise` is the refinement mapping to `HandOver` |
| `Services` | the scripts and the daemons they run | an operator's program counter walks through the shell functions, a command at a time |
| `MC*` | instances for TLC | |
| `ThreadPoolProofs`, `ServerProofs`, `RudpLogProofs`, `DatabaseProofs`, `ProcessProofs`, `LogWriterProofs`, `PlayerServiceProofs`, `ServicesProofs` | theorems | |

Definitions whose comment begins with "Fault" are not part of any specification:
each is one definition of its module with a plausible mistake in it. Putting it
in the place of the definition makes one property fail, which shows that the
property depends on that line of the code (`PROJECT.json`, "mutants").

`Server` uses the pool through `TaskExecutor`'s behaviour (a FIFO, workers that
take, a flag, a Stop that drains), which `ThreadPool` is proved to implement, so
that the mutex and the notifications need not be interleaved with the sockets.
`Process` takes a worker's clients as numbers in a set, with one step to drop one;
`Server` has the steps between.
`RudpLog` sees a log as lines and lets a rotation fail at any write; `LogWriter`
looks inside: bytes, files, sizes and times, with a network that loses nothing.

## What the runs show

| run | question | answer |
|---|---|---|
| `pool` | can a task be lost, run twice, or sleep in the queue? does Stop drain and return? | `ExactlyOnce`, `NoLostWakeup`, `AcceptedTaskRuns`, `StopTerminates` hold, and `ImplementsExecutor`: every behaviour is one of the abstract executor |
| `server_safety` | can a late task touch the connection that was given the number of its own? can a request be handled twice? | no (`OneOwnerPerFd`, `RequestHandledOnce`): the captured `shared_ptr` keeps the descriptor open as long as a task may use its number; map and epoll agree, unless `epoll_ctl` has failed (`ClientsRegistered`) |
| `server_patient` | are closed connections dropped, requests answered, and does Stop end? | yes, if peers do not keep a connection for ever on which nothing is due, even with a single worker. Excepted are connections `epoll_ctl` refused (and everybody, once such connections hold all numbers: `Exhausted`) and requests the business code leaves without a response (`unanswered`) |
| `server_stuck` | and without that condition? | a violation, see below |
| `server_stop_throws` | is Stop graceful? | a violation, see below |
| `rudp` | can an acknowledgement be taken for another's? can retransmission reorder lines? does Trace return? | no, no, yes (`AckedWasReceived`, `PerThreadOrder`, `BoundedCopies`, `TraceReturns`), across losses, a kill and a stop of the service |
| `rudp_ack` | is an acknowledged message in the log? | a violation, see below |
| `log_files` | is what is logged what was traced? | yes: a record cut at the size of the receive buffer is left out, never logged in part (`NothingInvented`); the others are in the files once and in order, through rotations, reopening of the same file and restarts (`Complete`), unless the service is killed; FATAL records survive that as well (`FatalIsStored`) |
| `db_threads` | are transactions of threads that share an SQLite client atomic, exclusive, and do they end? | yes; rows written or read outside of them are durable and committed as long as no other thread is inside one (`PlainDurable`, `ReadCommitted`) |
| `http` | does it matter how TCP cuts the stream? | a request that arrives whole, with whatever behind it, is understood as it was meant; one that arrives in part is answered 400, never taken for a shorter one; 200 is the answer to health checks and correctly signed logins only, a login under a name with an apostrophe excepted, and a whole request has no answer only if the answer would repeat text that is not UTF-8 (`AnswerIsEarned`) |
| `fd_passing` | does every connection stay with those it was sent to, and nobody else, through forks, moves, destructors and deaths? does a worker learn that its dispatcher is gone? | yes: objects own their ends (`EndsAreOwned`), a worker has its own end and exactly the connections it was sent (`WorkerHoldsItsOwn`), every behaviour is one of `HandOver` (`ImplementsHandOver`), the end of the stream is seen (`EndIsSeen`) |
| `services` | can the scripts lose a daemon? | not one operator: `Tracked`, `OneInstance`, `StopLeavesNone`, `ScriptsEnd`, whatever the daemons do |

`PlainDurable` and `ReadCommitted` state their exception through the history
variable `exposed`. The exception is real: on the shared connection a row that
one thread writes with a plain `Exec` while another is inside a transaction
belongs to that transaction and disappears with its rollback, and a SELECT sees
rows that are not committed.

`PartIsRefused` has a price that the run makes visible: the rest of a request
that arrives in two segments is parsed as a request of its own. As a rule that is
refused as well; a rest that begins with the space behind the method passes for a
request without one and is answered by its path, since routing never looks at the
method. A second request in the same segment is dropped without an answer.

## Bounds

- `pool`: two workers and two clients are the fewest in which a notification
  meets the wrong worker; two tasks fill and empty the queue while the pool is
  started, stopped and destroyed. The proofs cover every size.
- `server_*`: two connections over two descriptor numbers, so that the first
  number is reused while tasks of its old owner are queued; two workers for the
  safety properties, so that two tasks of one connection run at once; two
  requests per connection. `MaxTasks` bounds the queue, which the code does not:
  with two places one request is queued twice. `server_patient` has one worker,
  the hardest case for progress, one place in the queue and one request; its
  liveness properties speak of one of the two connections (`Watched`), since the
  two are alike, and the other one is there to be in the way.
- `rudp`: one calling thread with two messages (sequence numbers and sockets are
  per thread, so threads meet only in the service's queue), two attempts instead
  of three (a late acknowledgement of the first message during the second needs
  one retransmission), two datagrams in the service's buffer (the second stays
  behind the edge of the first), one kill, one stop. `rudp_ack` has three.
- `log_files`: bytes of six values and lengths of four such bytes; records of
  every kind (with a dump, FATAL, one too long for the buffer), four of them; a
  file is left after four units of length or after one second, three seconds,
  two starts: rotations in the same second and in different ones, and restarts
  of both kinds, occur.
- `db_threads`: two threads, three rows (two of a transaction and one beside it), one
  crash.
- `http`: ten requests that differ in what the parsers and handlers look at,
  each followed by another, cut at every symbol; a name with an apostrophe on a
  database that does not escape it. Names of headers are written as the parser
  looks them up: that it minds their case (`CHttpParser.cpp:154`) does not show. A cut inside a word,
  or between `\r` and `\n`, is not distinguished from one beside it.
- `fd_passing`: two workers, the fewest in which one inherits the pair of another;
  two objects, so that one is moved over the other; one connection, which may be
  in several tables and queues; three descriptor numbers, which a pair and a
  connection fill, so that numbers are reused and a message arrives for which
  there is none; one message in flight at each end.
- `services`: four scripts in a row, so that each can meet what any three others
  left behind; two polls instead of ten.

## Fairness

- Threads that can take a step are scheduled: weak fairness for each worker, the
  server thread, `main` once it has been told to stop, and the owner of the pool
  inside `Stop`. In `ThreadPool` the mutex is fair to those who wait for it again
  and again (strong fairness of `Lock`): `std::mutex` does not promise that, but no
  thread holds it for longer than a push or a pop. Tasks return. Nothing obliges
  anybody to call `AddTask` or `Stop`.
- `Server` needs more for progress, and says so: in `PatientSpec` a peer that is
  not waiting for a response, or waits for one that no thread is working on any
  more, closes its connection sooner or later. Nothing in the code makes it (there
  is no timeout), which is what `server_stuck` shows. It is not obliged to
  while its request is unread, queued or handled: those the server must get to.
- `Trace` goes on because `RecvFrom` times out after 100 ms; the network promises
  nothing. The event loop of the service is a thread.
- `Database`: a thread that started a transaction ends it, as every caller in
  the tests does.
- `Services`: a script that runs goes on. Daemons promise nothing.
- `Process`: a worker that has been forked gets to `m_func`, and its event loop
  goes on receiving. Nothing obliges the dispatcher to anything.

`http` and `log_files` ask for safety only.

## What is proved

TLAPS checks these for every value of the constants that satisfies the
assumptions named in the modules. Where a property counts threads (`ThreadPool`,
`Server`) they are finitely many; connections, requests, tasks, messages, rows
and objects need not be. Inductive invariants were checked by TLC, as
far as it can evaluate them, before they were proved.

`ThreadPoolProofs`, from `ThreadPoolAssumption`:

- `TypeCorrect`: `TypeOK`. It is inductive by itself.
- `Invariance`: the inductive invariant `IInv`. `ExactlyOnce` is not inductive: it
  needs that the mutex is where the program counters say (`MutexInv`), that a
  task under way to the queue is with one client only and in no queue
  (`OfferInv`), and that workers leave only when the flag is set and the queue
  empty (`WorkerInv`), and what the owner knows at each step of Stop (`OwnerInv`).
- `ExactlyOnceCorrect`, `NoSleeperCorrect`, `StopDrainsCorrect` follow from `IInv`.
- `NoLostWakeupCorrect`: the count of queued tasks against notifications and
  workers on their way; a pop and a push change both sides by one.
- `Refinement`: `Spec => ImplementsExecutor`. Initial states map to initial
  states; `Take` is the executor's Begin, `Run` its End, `Emplace` its Submit, `SetStop`
  its Close, and everything else a stutter.

`ServerProofs`, from `ServerAssumption`:

- `TypeCorrect`, with `HoldInv`: who is about to use a connection has one.
- `OneOwnerPerFdCorrect`, from `FdInv`: a connection has no number while it waits
  to be accepted, gets one that no open connection has, and keeps it as long as
  a `shared_ptr` refers to it. The lemma behind it (`RefStep`) is that no step but
  accept makes a reference to a connection that has none.
- `ClientsRegisteredCorrect`, from `FdInv` and `MapInv`: what accept has returned
  is known to nobody else until it is in the map and in epoll, and a worker that
  is about to erase has taken its connection out of epoll. That `Del` by number
  takes out this connection and no other is `FdInv` again. What is in the map and
  not in epoll was refused by an open epoll instance: the theorem says that there is
  no other way.
- `RequestHandledOnceCorrect`: the count of workers with a request of a connection,
  and the unread one, against the response that is due to the peer. It needs that
  who waits for nothing is not among the unanswered (`AwaitingInv`).

`RudpLogProofs`, from `RudpLogAssumption`:

- `TypeCorrect`.
- `AckedWasReceivedCorrect`, from `AckInv`: an acknowledgement, under way or in the
  socket of a caller, is of a message of this caller that the service has taken.
- `PerThreadOrderCorrect`, from `OrderInv`: read from the log over the hand of the
  loop, the socket and the network to the call in progress, the messages of one
  thread do not decrease; losses, kills and copies only leave some out.
- `BoundedCopiesCorrect`, from `CopiesInv`: the copies of a message in the network,
  the socket, the hand of the loop and the log, against the attempts made.

`DatabaseProofs`, from `DatabaseAssumption`, for SQLite where it matters:

- `TypeCorrect` for either engine.
- `AtomicCorrect`, `OneTransactionCorrect`, `PlainDurableCorrect` and
  `ReadCommittedCorrect`, from an `IInv` that ties what is staged on the connection
  to the one thread inside the transaction and to the rows exposed to it.

`ProcessProofs`, from `ProcessAssumption` (a process has no
descriptor that `CloseInheritedFds` would not reach):

- `TypeCorrect`, `EndsAreOwnedCorrect`, `WorkerHoldsItsOwnCorrect`, together, since
  each needs the others: `ProcInv` (who does not exist has nothing, who serves has
  its end), `CreateInv` (what `CreateSubProcess` holds at each of its steps) and
  `FreshInv` (no end before its pair is made, no connection before it is accepted).
- `HandOverImplemented`: `Spec => ImplementsHandOver`. `SendFD`, `Receive`,
  `ReceiveTruncated`, `Accept` and the closes are HandOver's Send, Take, Refuse,
  Enter and Release; ends of processes and of ends are Lose; fork, the start of a
  worker and moves change nothing that HandOver speaks of. That needs `QueueInv`:
  nothing waits at an end nobody has.

`LogWriterProofs`, from `LogInfoAssumption` (a byte has at least two values) and
`LogWriterAssumption` (what is traced are records whose fields have their C++ types,
with texts shorter than 2^32 bytes; the bounds are numbers):

- `CodecCorrect`: `Deserialize` returns from the bytes of `Serialize` the record they
  were made of, and fails on any beginning of them. The fields lie where `Serialize`
  put them (`SerializeFields`); an integer that fits into its bytes is read back
  (`ReadValAt`), a text that is there whole too (`ReadStrAt`), and one that was cut
  is not (`ReadStrCut`: the length survives the cut or the length itself is cut).
- `PacketHandled`, the lemma between codec and writer: the service writes the record
  of a packet that fits into its buffer, exactly as it was traced, and ignores the
  others. It replaces bytes by records in everything below.
- `TypeCorrect`, together with the rest of `IInv`: no file younger than the open one
  holds anything (`Kept`), so that what leaves the buffer lies behind all that is
  stored, whatever was rotated, even into the same file (`StoredGrows`).
- `NothingIsInvented`; `NothingIsLost`: `Complete`; `FatalRecordsAreStored`: no line in
  the buffer is FATAL (`Kept`), hence neither is one that a kill tears or drops.

`PlayerServiceProofs`, from `HttpParserAssumption` (a `size_t` holds a digit) and
`PlayerServiceAssumption`: peers write sequences of well-formed requests (`Request`:
words, which no separator is part of; any number of parameters; a body of less than
ten symbols, so that its length is one digit), and the paths the server knows are
UTF-8. The table, the words that are not UTF-8, those with an apostrophe, whether
the client escapes them and what the database makes of a query are arbitrary.

- The lemma `ServiceInvariant` carries the other three from state to state: the last
  answer is to a part of the stream as it is now, since a request is only ever
  appended (`WrittenOn`, `PartStays`).
- `RequestsAreRead` (`WholeIsParsed`), from `ParserWhole`; `CutRequestsAreRefused`
  (`PartIsRefused`), from `ParserPart`. Both read a text by position: a parameter
  is four symbols long, so that a request has each of its symbols at a known place
  (`RenderParts`, `Spelled`), in the stream too (`Placed`, `Arrived`), and what
  `Find` finds is known. A cut is before the end of the request line
  (`RequestLineCut`), before the empty line (`HeadersCut`, which needs that no
  earlier line is empty) or in a body whose length has arrived (`BodyRead`). The
  length itself cannot be cut: the parser waits for the empty line behind it.
- `AnswersAreEarned` (`AnswerIsEarned`), from `UrlParamIs` (a parameter of the URL is
  the last one of its name in the request), `LoginAnswer` and `Routed`. A login whose
  name was not escaped and needed it is excepted (`IsLookedUp`): of that one the
  theorem would be false.

`Shift`, `ReadVal`, `Number` and `FlattenSeq` are recursive functions. That a function
with their recursion exists is proved, not assumed (`Recursion`, `TextsExist`), from
the theorem of the library that the naturals are well-founded, applied to sets
(`SetInduction`): the library's induction theorems take an operator, which the provers
cannot instantiate. `Number` is proved for one digit (`OneDigit`), which
is what the requests of the run have too: longer ones, and the overflow of `size_t`
that the code does not test for, are modelled but not reached.

`ServicesProofs`, from `ServicesAssumption`:

- `TypeCorrect` for any number of operators.
- `TrackedCorrect`, `OneInstanceCorrect`, `StopLeavesNoneCorrect` for one (`OneOperator`):
  `HoldInv` says that what a script found out about a service still holds when it
  acts on it, which a second operator would break.

Only model-checked: liveness under fairness (all `~>` properties, among them that
`Trace`, scripts and `Stop` return) and whatever speaks of ENABLED, which are out of
the prover's reach. Every invariant of a passing run is a theorem.

## Where the code falls short of its documentation

Each is a run that TLC ends with a counterexample.

- `server_stop_throws`: `HandleEvent` calls `AddTask` without a handler
  (`Server.cpp:151`). If the pool is stopped while a batch of events is being
  handled, the exception leaves the server thread: `std::terminate` in what
  `main.cpp` calls a graceful shutdown.
- `server_stuck`: a level-triggered event is reported again while its task is
  queued; the second task finds nothing and blocks in `recv` (`Server.cpp:153`)
  until the peer sends or leaves. As many idle peers as threads stop the server,
  and `Stop` with it.
- `rudp_ack`: the acknowledgement is sent before the record is decoded and
  written (`LoggerServer.cpp:133`), and the errors of both are ignored.

Seen while modelling, without a run:

- START TRANSACTION on the shared MySQL connection commits the half of a
  transaction another thread has open (`MysqlClient.cpp:128`). `Database` has it
  (`BACKEND`); the run is on SQLite, where the statement fails instead.
- `send` is called without `MSG_NOSIGNAL` (`Socket.cpp:191`, `Process.cpp:124`) and
  nobody ignores SIGPIPE: a second response to a peer that has left, or a `SendFD`
  to a worker that has died, ends the process; `Process.h:46` promises an error.
- A second `CreateSubProcess` on one object overwrites `m_fd` (`Process.cpp:84`)
  without closing it, although `Process.h:17` speaks of RAII: that worker never
  sees the end of its stream. `EndsAreOwned` excepts these ends (`leaked`).
- The failure of `m_epoll.Add` is ignored (`Server.cpp:133`): with ENOMEM or ENOSPC
  the client is in `m_clients` and gets no event any more. It is neither served nor
  closed, not even after its peer has left, and its number is not used again until
  the server ends. `Server` has it; its properties except such clients (`refused`).
- `DatabaseClient.h:39` calls `Escape` "SQL转义" (SQL escaping); its body returns the
  text as it is, and only the MySQL client overrides it (`MysqlClient.cpp:152`). On
  SQLite, `HandleLogin` therefore makes another query than it means of a name with an
  apostrophe (`EdoyunPlayerServer.cpp:121`): such users cannot log in as they should,
  and which row is compared is not the server's choice. `PlayerService` has it
  (`Escapes`, `Selected`). How MySQL compares names (its default ignores case) is
  part of the table, not of the model.
- Tests expect a login at `/api` to succeed (`test_business.cpp:48`, expecting 200 at
  line 63; `test_http_server_integration.cpp:67` and 114; `test_end_to_end.cpp:116`
  and 187). The router knows `/login` and `/api/login` only
  (`EdoyunPlayerServer.cpp:53`) and answers 404, as `AnswerIsEarned` says.
- Nobody waits for children: they stay as zombies.
- `CloseInheritedFds` stops at 1023; a dispatcher with a higher limit passes the
  rest on to its workers.
- A response that would repeat text that is not UTF-8 (`EdoyunPlayerServer.cpp:198`,
  the path of a 404; the name or the time of a login) is never sent: `json::dump` throws, and the
  `packaged_task` of the pool keeps the exception. In `Server` the peer is then
  `unanswered`.
- A `Stop` that comes before `Run` has set `m_running` (`Server.cpp:28`) is
  overwritten; `StopCompletes` is stated for the others. `CServer::m_running` is
  a plain `bool` written by one thread and read by another.
- `RecvFrom` is called once per edge of an edge-triggered socket
  (`LoggerServer.cpp:107`): of two datagrams that arrive together the second is
  read only when a third arrives.
- `main.cpp` passes the name of the MySQL database as "database", and `Connect`
  looks for "db": the MySQL backend does not start. It prints "Using default
  configuration" (line 101) and returns 1.
- `README.md:60` calls the pool work-stealing; it has one queue. Line 59 calls
  logging asynchronous; `Trace` waits for up to 300 ms.
- Two loggers can bind the same UDP port (`SO_REUSEADDR`): nothing but the PID
  file keeps a second one away.

## What is not modelled

- `CThread`, a wrapper, and `CProcess::SwitchDaemon`, which nobody calls. `main` sets
  no process: the IPC branch is modelled in `Process`, not in `Server`.
- Contents of responses and SQL texts, `Field` and `Table`, configuration files,
  hashes, times, string utilities: sequential, without shared state.
- Errors of `send` (a response that does not get through to an open peer is as good
  as none, which `Received` has), a full disk, a clock that is set back, copies of
  datagrams made by the network, datagrams of one thread that overtake each other.
- A second call of `CHttpParser::Parser` on one object: no caller does it.
- A SIGKILL that fails: the daemons belong to the operator who runs the scripts.
- Reuse of PIDs: a PID file that names somebody else's process. `Services` may have several operators, but what it promises holds
  for one: two starts that meet between the test of the PID file and the echo
  (`logger_service.sh:46`) start a daemon twice.
- A `CLoggerServer::Start` that fails half way: its only caller exits.
- Vendored code.

## Plan

Done: every module above, and the proofs of all safety properties of `ThreadPool`,
`Server`, `RudpLog`, `Database`, `Process`, `LogWriter`, `PlayerService` and `Services`.
What is left, in the order of what it would add:

1. Bodies of any length in `PlayerService`: a request would carry several digits, and
   `Number` would have to be proved the inverse of how they are written.
2. `Server` with requests that are not waited for, and SIGPIPE on the second
   response to a peer that has left; its liveness properties would then speak of
   servers that nobody has brought down.
3. `Services` with reuse of PIDs, and the weaker promise that holds for several
   operators.
