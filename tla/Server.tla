------------------------------- MODULE Server -------------------------------
(***************************************************************************)
(* CServer (server/Server.cpp) with the main thread that stops it          *)
(* (main.cpp), the threads of its pool, the epoll instance and the peers.  *)
(*                                                                         *)
(* The pool is taken at the level of TaskExecutor, which ThreadPool is     *)
(* proved to implement: a queue, threads that take tasks from its head, a  *)
(* flag after which nothing is accepted, and a Stop that returns when      *)
(* every thread has left.  A connection (a CSocket object) is open as long *)
(* as some shared_ptr refers to it, and its descriptor number is free for  *)
(* the next accept as soon as none does.                                   *)
(***************************************************************************)
EXTENDS Naturals, Sequences, FiniteSets, Functions

CONSTANTS
  Conns,        \* connections peers may open, each once
  Fds,          \* descriptor numbers the kernel hands out
  Workers,      \* threads of the pool
  Listener,     \* the listening socket, as an epoll event
  NoConn, NoFd,
  MaxRequests,  \* requests a peer sends on one connection
  MaxTasks,     \* bound on the queue of the pool, which the code does not have
  Watched       \* connections whose liveness is checked: they are all alike, one does

ASSUME ServerAssumption ==
  /\ NoConn \notin Conns
  /\ NoFd \notin Fds
  /\ Listener \notin Fds \cup {NoFd}
  /\ IsFiniteSet(Workers)
  /\ MaxRequests \in Nat
  /\ MaxTasks \in Nat
  /\ Watched \subseteq Conns

VARIABLES
  \* main thread
  mainpc,     \* where main is
  \* server thread
  looppc,     \* where Run and HandleEvent are
  m_running,
  batch,      \* events of the last WaitEvents still to be handled
  cur,        \* the shared_ptr HandleEvent holds in a local variable
  m_clients,  \* descriptor number -> connection, NoConn where absent
  \* kernel
  fdOf,       \* descriptor number of each accepted connection
  epoll,      \* connections registered with m_epoll
  epollOpen,
  backlog,    \* connections waiting to be accepted
  refused,    \* history: clients an open m_epoll failed to register
  \* pool
  m_tasks, m_stop,
  wpc,        \* where each worker is in the task it runs
  wconn,      \* the client captured by the task it runs
  \* peers
  peer,       \* "new", "open" or "closed", as the peer sees it
  sent,       \* requests it has sent
  inbox,      \* a request lies unread in the server's socket
  awaiting,   \* the peer waits for a response
  unanswered, \* history: of those, the ones no response is due to any more
  crashed     \* std::terminate has been called

mainVars == <<mainpc>>
loopVars == <<looppc, m_running, batch, cur, m_clients>>
kernelVars == <<fdOf, epoll, epollOpen, backlog, refused>>
poolVars == <<m_tasks, m_stop, wpc, wconn>>
peerVars == <<peer, sent, inbox, awaiting, unanswered>>
vars == <<mainVars, loopVars, kernelVars, poolVars, peerVars, crashed>>

\* Fault: the task captures a plain pointer.
ReferencedByMapOnly(c) ==
  \/ c \in Range(m_clients)
  \/ c = cur

\* shared_ptrs to a connection: m_clients, queued tasks, running tasks and
\* the local variable of HandleEvent.
Referenced(c) ==
  \/ c \in Range(m_clients)
  \/ c \in Range(m_tasks)
  \/ c \in Range(wconn)
  \/ c = cur

Open(c) == fdOf[c] # NoFd /\ Referenced(c)

FreeFds == Fds \ {fdOf[c] : c \in {d \in Conns : Open(d)}}

\* A registration lasts until it is deleted or the socket is closed.
Registered(c) == Open(c) /\ c \in epoll

Readable(c) == inbox[c] \/ peer[c] = "closed"

Init ==
  /\ mainpc = "wait"
  /\ looppc = "start" /\ m_running = FALSE /\ batch = {} /\ cur = NoConn
  /\ m_clients = [fd \in Fds |-> NoConn]
  /\ fdOf = [c \in Conns |-> NoFd]
  /\ epoll = {} /\ epollOpen = TRUE /\ backlog = {} /\ refused = {}
  /\ m_tasks = <<>> /\ m_stop = FALSE
  /\ wpc = [w \in Workers |-> "idle"]
  /\ wconn = [w \in Workers |-> NoConn]
  /\ peer = [c \in Conns |-> "new"]
  /\ sent = [c \in Conns |-> 0]
  /\ inbox = [c \in Conns |-> FALSE]
  /\ awaiting = [c \in Conns |-> FALSE]
  /\ unanswered = {}
  /\ crashed = FALSE

-----------------------------------------------------------------------------
(* Peers: each sends a request, waits for the response before the next, and *)
(* closes whenever it likes.                                                *)

PeerConnect(c) ==
  /\ peer[c] = "new"
  /\ peer' = [peer EXCEPT ![c] = "open"]
  /\ backlog' = backlog \cup {c}
  /\ UNCHANGED <<mainVars, loopVars, fdOf, epoll, epollOpen, refused, poolVars, sent, inbox, awaiting, unanswered, crashed>>

PeerSend(c) ==
  /\ peer[c] = "open"
  /\ ~awaiting[c]
  /\ sent[c] < MaxRequests
  /\ sent' = [sent EXCEPT ![c] = @ + 1]
  /\ inbox' = [inbox EXCEPT ![c] = TRUE]
  /\ awaiting' = [awaiting EXCEPT ![c] = TRUE]
  /\ UNCHANGED <<mainVars, loopVars, kernelVars, poolVars, peer, unanswered, crashed>>

PeerClose(c) ==
  /\ peer[c] = "open"
  /\ peer' = [peer EXCEPT ![c] = "closed"]
  /\ awaiting' = [awaiting EXCEPT ![c] = @ /\ c \notin unanswered]
  /\ unanswered' = unanswered \ {c}
  /\ UNCHANGED <<mainVars, loopVars, kernelVars, poolVars, sent, inbox, crashed>>

-----------------------------------------------------------------------------
(* CServer::Run, in the server thread.                                      *)

Goto(l) == looppc' = l

RunStart ==
  /\ looppc = "start"
  /\ m_running' = TRUE
  /\ Goto("test")
  /\ UNCHANGED <<mainVars, batch, cur, m_clients, kernelVars, poolVars, peerVars, crashed>>

Test ==
  /\ looppc = "test"
  /\ Goto(IF m_running THEN "wait" ELSE "exited")
  /\ UNCHANGED <<mainVars, m_running, batch, cur, m_clients, kernelVars, poolVars, peerVars, crashed>>

Ready ==
  {fdOf[c] : c \in {d \in Conns : Registered(d) /\ Readable(d)}}
    \cup (IF backlog # {} THEN {Listener} ELSE {})

\* Level-triggered: everything that is readable now.  A timeout and the
\* error of a closed epoll instance both lead back to the test.
WaitEvents ==
  /\ looppc = "wait"
  /\ IF epollOpen /\ Ready # {}
       THEN batch' = Ready /\ Goto("batch")
       ELSE batch' = {} /\ Goto("test")
  /\ UNCHANGED <<mainVars, m_running, cur, m_clients, kernelVars, poolVars, peerVars, crashed>>

EndOfBatch ==
  /\ looppc = "batch" /\ batch = {}
  /\ Goto("test")
  /\ UNCHANGED <<mainVars, m_running, batch, cur, m_clients, kernelVars, poolVars, peerVars, crashed>>

\* HandleEvent for the listener.  accept blocks if the queue is empty and
\* fails if no descriptor is left; the failure is dropped.
Accept ==
  /\ looppc = "batch" /\ Listener \in batch
  /\ backlog # {}
  /\ batch' = batch \ {Listener}
  /\ IF FreeFds = {}
       THEN Goto("batch") /\ UNCHANGED <<cur, fdOf, backlog>>
       ELSE \E c \in backlog, fd \in FreeFds :
              /\ cur' = c
              /\ fdOf' = [fdOf EXCEPT ![c] = fd]
              /\ backlog' = backlog \ {c}
              /\ Goto("insert")
  /\ UNCHANGED <<mainVars, m_running, m_clients, epoll, epollOpen, refused, poolVars, peerVars, crashed>>

\* Fault: the entry is never made, only the registration.
InsertSkipped ==
  /\ looppc = "insert"
  /\ Goto("add")
  /\ UNCHANGED <<mainVars, m_running, batch, cur, m_clients, kernelVars, poolVars, peerVars, crashed>>

Insert ==
  /\ looppc = "insert"
  /\ m_clients' = [m_clients EXCEPT ![fdOf[cur]] = cur]
  /\ Goto("add")
  /\ UNCHANGED <<mainVars, m_running, batch, cur, kernelVars, poolVars, peerVars, crashed>>

\* m_epoll.Add, whose failure is ignored: on a closed instance it fails, on an
\* open one it may (ENOMEM, ENOSPC).  Connected does nothing.
Add ==
  /\ looppc = "add"
  /\ \/ /\ epollOpen
        /\ epoll' = epoll \cup {cur}
        /\ UNCHANGED refused
     \/ /\ refused' = IF epollOpen THEN refused \cup {cur} ELSE refused
        /\ UNCHANGED epoll
  /\ cur' = NoConn
  /\ Goto("batch")
  /\ UNCHANGED <<mainVars, m_running, batch, m_clients, fdOf, epollOpen, backlog, poolVars, peerVars, crashed>>

\* Fault: the missing client is not noticed.
LookupUnchecked ==
  /\ looppc = "batch"
  /\ \E fd \in batch \ {Listener} :
       /\ batch' = batch \ {fd}
       /\ cur' = m_clients[fd]
       /\ Goto("submit")
  /\ UNCHANGED <<mainVars, m_running, m_clients, kernelVars, poolVars, peerVars, crashed>>

\* HandleEvent for a descriptor: look the client up under m_mutex.
Lookup ==
  /\ looppc = "batch"
  /\ \E fd \in batch \ {Listener} :
       /\ batch' = batch \ {fd}
       /\ cur' = m_clients[fd]
       /\ Goto(IF m_clients[fd] = NoConn THEN "batch" ELSE "submit")
  /\ UNCHANGED <<mainVars, m_running, m_clients, kernelVars, poolVars, peerVars, crashed>>

\* m_pool.AddTask.  Nothing between here and the thread function catches
\* what a stopped pool throws.
Submit ==
  /\ looppc = "submit" /\ ~m_stop
  /\ Len(m_tasks) < MaxTasks
  /\ m_tasks' = Append(m_tasks, cur)
  /\ Goto("leave")
  /\ UNCHANGED <<mainVars, m_running, batch, cur, m_clients, kernelVars, m_stop, wpc, wconn, peerVars, crashed>>

SubmitThrows ==
  /\ looppc = "submit" /\ m_stop
  /\ crashed' = TRUE
  /\ UNCHANGED <<mainVars, loopVars, kernelVars, poolVars, peerVars>>

\* HandleEvent returns and lets go of its shared_ptr.
Leave ==
  /\ looppc = "leave"
  /\ cur' = NoConn
  /\ Goto("batch")
  /\ UNCHANGED <<mainVars, m_running, batch, m_clients, kernelVars, poolVars, peerVars, crashed>>

Loop ==
  \/ RunStart \/ Test \/ WaitEvents \/ EndOfBatch
  \/ Accept \/ Insert \/ Add
  \/ Lookup \/ Submit \/ SubmitThrows \/ Leave

-----------------------------------------------------------------------------
(* The task, in a thread of the pool.                                       *)

WorkerGoto(w, l) == wpc' = [wpc EXCEPT ![w] = l]

Take(w) ==
  /\ wpc[w] = "idle" /\ m_tasks # <<>>
  /\ WorkerGoto(w, "recv")
  /\ wconn' = [wconn EXCEPT ![w] = Head(m_tasks)]
  /\ m_tasks' = Tail(m_tasks)
  /\ UNCHANGED <<mainVars, loopVars, kernelVars, m_stop, peerVars, crashed>>

\* Fault: the data stays in the socket (MSG_PEEK).
RecvDataPeek(w) ==
  /\ wpc[w] = "recv" /\ inbox[wconn[w]]
  /\ WorkerGoto(w, "received")
  /\ UNCHANGED <<mainVars, loopVars, kernelVars, m_tasks, m_stop, wconn, peerVars, crashed>>

\* client->Recv on a blocking socket returns data ...
RecvData(w) ==
  /\ wpc[w] = "recv" /\ inbox[wconn[w]]
  /\ inbox' = [inbox EXCEPT ![wconn[w]] = FALSE]
  /\ WorkerGoto(w, "received")
  /\ UNCHANGED <<mainVars, loopVars, kernelVars, m_tasks, m_stop, wconn, peer, sent, awaiting, unanswered, crashed>>

\* ... or the end of the stream, or the error of a reset connection, which
\* discards what was unread.
RecvClosed(w) ==
  /\ wpc[w] = "recv" /\ peer[wconn[w]] = "closed"
  /\ inbox' = [inbox EXCEPT ![wconn[w]] = FALSE]
  /\ WorkerGoto(w, "del")
  /\ UNCHANGED <<mainVars, loopVars, kernelVars, m_tasks, m_stop, wconn, peer, sent, awaiting, unanswered, crashed>>

\* m_business->Received sends one response, whose failure is ignored, or none:
\* MakeResponse throws on words that are not UTF-8, and the packaged_task that
\* runs the task keeps the exception, which nobody asks it for.
Received(w) ==
  /\ wpc[w] = "received"
  /\ \/ /\ awaiting' = [awaiting EXCEPT ![wconn[w]] = FALSE]
        /\ UNCHANGED unanswered
     \/ /\ peer[wconn[w]] = "open"
        /\ unanswered' = unanswered \cup {wconn[w]}
        /\ UNCHANGED awaiting
  /\ WorkerGoto(w, "end")
  /\ UNCHANGED <<mainVars, loopVars, kernelVars, m_tasks, m_stop, wconn, peer, sent, inbox, crashed>>

\* m_epoll.Del(fd) takes out whatever is registered under that number.
Del(w) ==
  /\ wpc[w] = "del"
  /\ epoll' = IF epollOpen
                THEN epoll \ {c \in Conns : Open(c) /\ fdOf[c] = fdOf[wconn[w]]}
                ELSE epoll
  /\ WorkerGoto(w, "erase")
  /\ UNCHANGED <<mainVars, loopVars, fdOf, epollOpen, backlog, refused, m_tasks, m_stop, wconn, peerVars, crashed>>

\* Fault: the entry stays behind.
EraseForgotten(w) ==
  /\ wpc[w] = "erase"
  /\ WorkerGoto(w, "end")
  /\ UNCHANGED <<mainVars, loopVars, kernelVars, m_tasks, m_stop, wconn, peerVars, crashed>>

Erase(w) ==
  /\ wpc[w] = "erase"
  /\ LET fd == fdOf[wconn[w]] IN
       m_clients' = IF m_clients[fd] = wconn[w]
                      THEN [m_clients EXCEPT ![fd] = NoConn]
                      ELSE m_clients
  /\ refused' = refused \ {wconn[w]}
  /\ WorkerGoto(w, "end")
  /\ UNCHANGED <<mainVars, looppc, m_running, batch, cur, fdOf, epoll, epollOpen, backlog, m_tasks, m_stop, wconn, peerVars, crashed>>

\* The task and the shared_ptr it captured are destroyed.
EndTask(w) ==
  /\ wpc[w] = "end"
  /\ wconn' = [wconn EXCEPT ![w] = NoConn]
  /\ WorkerGoto(w, "idle")
  /\ UNCHANGED <<mainVars, loopVars, kernelVars, m_tasks, m_stop, peerVars, crashed>>

WorkerExit(w) ==
  /\ wpc[w] = "idle" /\ m_stop /\ m_tasks = <<>>
  /\ WorkerGoto(w, "exited")
  /\ UNCHANGED <<mainVars, loopVars, kernelVars, m_tasks, m_stop, wconn, peerVars, crashed>>

Worker(w) ==
  \/ Take(w) \/ RecvData(w) \/ RecvClosed(w) \/ Received(w)
  \/ Del(w) \/ Erase(w) \/ EndTask(w) \/ WorkerExit(w)

-----------------------------------------------------------------------------
(* The main thread: the signal flag, CServer::Stop and the join.            *)

MainGoto(from, to) == mainpc = from /\ mainpc' = to

\* g_running is found FALSE; Stop begins.
ShutDown ==
  /\ MainGoto("wait", "stopPool")
  /\ m_running' = FALSE
  /\ UNCHANGED <<looppc, batch, cur, m_clients, kernelVars, poolVars, peerVars, crashed>>

\* Fault: the threads are joined without having been told.
StopPoolSilently ==
  /\ MainGoto("stopPool", "joinPool")
  /\ UNCHANGED <<loopVars, kernelVars, poolVars, peerVars, crashed>>

StopPool ==
  /\ MainGoto("stopPool", "joinPool")
  /\ m_stop' = TRUE
  /\ UNCHANGED <<loopVars, kernelVars, m_tasks, wpc, wconn, peerVars, crashed>>

PoolJoined ==
  /\ MainGoto("joinPool", "closeEpoll")
  /\ \A w \in Workers : wpc[w] = "exited"
  /\ UNCHANGED <<loopVars, kernelVars, poolVars, peerVars, crashed>>

CloseEpoll ==
  /\ MainGoto("closeEpoll", "joinLoop")
  /\ epollOpen' = FALSE
  /\ epoll' = {} /\ refused' = {}
  /\ UNCHANGED <<loopVars, fdOf, backlog, poolVars, peerVars, crashed>>

LoopJoined ==
  /\ MainGoto("joinLoop", "done")
  /\ looppc = "exited"
  /\ UNCHANGED <<loopVars, kernelVars, poolVars, peerVars, crashed>>

MainStep == StopPool \/ PoolJoined \/ CloseEpoll \/ LoopJoined

-----------------------------------------------------------------------------
Peer(c) == PeerConnect(c) \/ PeerSend(c) \/ PeerClose(c)

Next ==
  /\ ~crashed
  /\ \/ \E c \in Conns : Peer(c)
     \/ Loop
     \/ \E w \in Workers : Worker(w)
     \/ ShutDown \/ MainStep

Spec == Init /\ [][Next]_vars

(* Threads are scheduled.  Nothing obliges a peer to do anything, nor the   *)
(* user to stop the server.                                                 *)
Fairness ==
  /\ WF_vars(~crashed /\ Loop)
  /\ \A w \in Workers : WF_vars(~crashed /\ Worker(w))
  /\ WF_vars(~crashed /\ MainStep)

FairSpec == Spec /\ Fairness

\* Peers that wait for a response as long as it is being worked on, but do
\* not keep a connection for ever on which nothing is due any more.
LeavingPeers ==
  \A c \in Conns :
    WF_vars(~crashed /\ (awaiting[c] => c \in unanswered) /\ PeerClose(c))

PatientSpec == FairSpec /\ LeavingPeers

-----------------------------------------------------------------------------
(* Properties.                                                              *)

\* Every variable has its type; in particular only connections are queued.
TypeOK ==
  /\ mainpc \in {"wait", "stopPool", "joinPool", "closeEpoll", "joinLoop", "done"}
  /\ looppc \in {"start", "test", "wait", "batch", "insert", "add", "submit", "leave", "exited"}
  /\ m_running \in BOOLEAN /\ m_stop \in BOOLEAN /\ epollOpen \in BOOLEAN /\ crashed \in BOOLEAN
  /\ batch \subseteq Fds \cup {Listener}
  /\ cur \in Conns \cup {NoConn}
  /\ m_clients \in [Fds -> Conns \cup {NoConn}]
  /\ fdOf \in [Conns -> Fds \cup {NoFd}]
  /\ epoll \subseteq Conns /\ backlog \subseteq Conns
  /\ refused \subseteq Conns /\ unanswered \subseteq Conns
  /\ m_tasks \in Seq(Conns)
  /\ wpc \in [Workers -> {"idle", "recv", "received", "del", "erase", "end", "exited"}]
  /\ wconn \in [Workers -> Conns \cup {NoConn}]
  /\ peer \in [Conns -> {"new", "open", "closed"}]
  /\ sent \in [Conns -> 0 .. MaxRequests]
  /\ inbox \in [Conns -> BOOLEAN] /\ awaiting \in [Conns -> BOOLEAN]

\* Descriptor numbers are reused, but never while a task that captured the
\* old number is queued or running: the epoll.Del(fd) and the erase of a
\* late task cannot hit the connection that got the number next.
OneOwnerPerFd ==
  \A c \in (Range(m_tasks) \cup Range(wconn)) \ {NoConn}, d \in Conns :
    Open(d) /\ fdOf[d] = fdOf[c] => d = c

\* m_clients and the epoll interest list agree, but for the moments between
\* the two updates of an accept or of a clean-up: no connection stays
\* registered without an entry; and one that is in the map without being
\* registered, which no event will ever concern, is so because epoll_ctl
\* failed, never because of an order in which accepts, clean-ups and reused
\* numbers meet.
ClientsRegistered ==
  epollOpen =>
    /\ \A c \in Conns : Registered(c) => m_clients[fdOf[c]] = c
    /\ \A fd \in Fds : LET c == m_clients[fd] IN
         c # NoConn =>
           /\ fdOf[c] = fd
           /\ \/ Registered(c)
              \/ c \in refused
              \/ looppc = "add" /\ cur = c
              \/ \E w \in Workers : wpc[w] = "erase" /\ wconn[w] = c

\* Level-triggered polling queues several tasks for one request; still at
\* most one of them gets it, and none gets a request that was answered.
RequestHandledOnce ==
  \A c \in Conns :
    LET copies == Cardinality({w \in Workers : wpc[w] = "received" /\ wconn[w] = c})
                    + (IF inbox[c] THEN 1 ELSE 0)
        due    == IF awaiting[c] /\ c \notin unanswered THEN 1 ELSE 0
    IN  IF peer[c] = "open" THEN copies = due ELSE copies <= due

Running == mainpc = "wait"

\* Connections epoll_ctl refused keep their numbers for ever: the server can
\* run out of them.
Exhausted == \A fd \in Fds : m_clients[fd] \in refused

\* A connection its peer has closed is eventually dropped: descriptor, entry
\* and queued tasks.  One that is not registered never is.
ClosedIsDropped ==
  \A c \in Watched :
    peer[c] = "closed" ~>
      (~Open(c) /\ c \notin backlog) \/ c \in refused \/ Exhausted \/ ~Running

\* A request is eventually answered, or at least handed to the business code,
\* as long as the server runs and its peer waits.  One of a connection that is
\* not registered may never be.
RequestAnswered ==
  \A c \in Watched :
    awaiting[c] ~>
      \/ ~awaiting[c] \/ c \in unanswered \/ peer[c] = "closed"
      \/ c \in refused \/ Exhausted \/ ~Running

\* A Stop that finds the loop running completes (one that overtakes the server
\* thread on its way into Run is overwritten by it, and never does): the pool is joined, then the server thread.
StopCompletes ==
  (mainpc = "stopPool" /\ looppc # "start" /\ ~m_running) ~> mainpc = "done" \/ crashed

\* Shutting down does not bring the process down by an uncaught exception.
StopIsGraceful == ~crashed
=============================================================================
