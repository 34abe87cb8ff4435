------------------------------ MODULE Process ------------------------------
(***************************************************************************)
(* CProcess (concurrent/Process.cpp): a dispatcher forks workers and hands *)
(* them open connections over socket pairs; a worker runs CServer, which   *)
(* receives them (Server.cpp, the first branch of HandleEvent).            *)
(*                                                                         *)
(* The kernel's part is modelled as it matters: a table of descriptors in  *)
(* each process, copied by fork; a queue of connections at each end of a   *)
(* pair, which are open while they are queued; the lowest free number for  *)
(* what is opened; SIGPIPE, which nobody ignores, for a sender whose peer  *)
(* is gone.  Processes may exit or be killed at any step.                  *)
(***************************************************************************)
EXTENDS Naturals, Sequences, FiniteSets, Functions

CONSTANTS
  Parent,      \* the dispatcher
  Kids,        \* processes that fork yields
  Pid,         \* the pid each gets; fork hands them out in order
  Objs,        \* variables of type CProcess in the dispatcher
  Conns,       \* connections, each accepted once
  Fds,         \* descriptor numbers a process may use, standard streams apart
  Limit,       \* the first number CloseInheritedFds does not close: 1024
  None,
  MaxInFlight  \* bound on the queue of an end; sendmsg blocks beyond it

Procs == Kids \cup {Parent}

\* The dispatcher's end of the pair it shares with a worker, and the worker's.
Up(k) == <<"up", k>>
Down(k) == <<"down", k>>

Ends == {"up", "down"} \X Kids

Other(e) == IF e[1] = "up" THEN Down(e[2]) ELSE Up(e[2])

Files == Conns \cup Ends

\* By default a process has at most 1024 descriptors, numbered from 0.
ASSUME ProcessAssumption ==
  /\ Limit \in Nat
  /\ Fds \subseteq 3 .. Limit - 1
  /\ Pid \in [Kids -> Nat] /\ Parent \notin Kids
  /\ Conns \cap Ends = {} /\ Conns \cap Procs = {} /\ Procs \cap Ends = {}
  /\ None \notin Files \cup Fds \cup Kids \cup Objs
  /\ MaxInFlight \in Nat

VARIABLES
  proc,    \* "none", "forked" (until m_func is called), "running" or "exited"
  table,   \* what each descriptor number of each process refers to
  queue,   \* connections sent to each end and not received yet
  obj,     \* m_pid and m_fd of each CProcess variable of the dispatcher
  create,  \* the call of CreateSubProcess in progress
  m_fd,    \* m_fd in each worker
  clients, \* keys of m_clients in each worker
  told,    \* workers that have been told that the stream has ended
  opened,  \* connections accepted so far
  leaked   \* ends whose number a further CreateSubProcess has overwritten

kernelVars == <<proc, table, queue>>
objVars == <<obj, create, leaked>>
workerVars == <<m_fd, clients>>
vars == <<kernelVars, objVars, workerVars, told, opened>>

NoChild == [pid |-> None, fd |-> None]

Idle == [step |-> "idle", obj |-> None, kid |-> None, fds |-> <<None, None>>]

Init ==
  /\ proc = [p \in Procs |-> IF p = Parent THEN "running" ELSE "none"]
  /\ table = [p \in Procs |-> [n \in Fds |-> None]]
  /\ queue = [e \in Ends |-> <<>>]
  /\ obj = [o \in Objs |-> NoChild]
  /\ create = Idle
  /\ m_fd = [k \in Kids |-> None]
  /\ clients = [k \in Kids |-> {}]
  /\ told = {} /\ opened = {} /\ leaked = {}

-----------------------------------------------------------------------------
(* The kernel.                                                              *)

Running(p) == proc[p] = "running"

Has(p, f) == \E n \in Fds : table[p][n] = f

\* Some process has the file open.
Held(f) == \E p \in Procs : Has(p, f)

Free(p) == {n \in Fds : table[p][n] = None}

Lowest(S, n) == n \in S /\ \A m \in S : n <= m

\* The tables become t; what was queued at an end that nobody has is gone.
SetTables(t) ==
  /\ table' = t
  /\ queue' = [e \in Ends |-> IF \E p \in Procs, n \in Fds : t[p][n] = e THEN queue[e] ELSE <<>>]

Close(p, n) == SetTables([table EXCEPT ![p][n] = None])

\* The process ends, by itself or by a signal.
Terminate(p) ==
  /\ SetTables([table EXCEPT ![p] = [n \in Fds |-> None]])
  /\ proc' = [proc EXCEPT ![p] = "exited"]
  /\ IF p = Parent
       THEN /\ obj' = [o \in Objs |-> NoChild] /\ create' = Idle /\ leaked' = {}
            /\ UNCHANGED <<workerVars, told>>
       ELSE /\ m_fd' = [m_fd EXCEPT ![p] = None] /\ clients' = [clients EXCEPT ![p] = {}]
            /\ told' = told \ {p}
            /\ UNCHANGED objVars
  /\ UNCHANGED opened

Exit(p) == proc[p] \in {"forked", "running"} /\ Terminate(p)

-----------------------------------------------------------------------------
(* CreateSubProcess, in one thread of the dispatcher.  If socketpair fails  *)
(* nothing has changed.                                                     *)

SocketPair(o, k) ==
  /\ Running(Parent) /\ create = Idle /\ proc[k] = "none"
  /\ \A j \in Kids : proc[j] = "none" => Pid[k] <= Pid[j]
  /\ \E a, b \in Fds :
       /\ Lowest(Free(Parent), a) /\ Lowest(Free(Parent) \ {a}, b)
       /\ table' = [table EXCEPT ![Parent] = [@ EXCEPT ![a] = Up(k), ![b] = Down(k)]]
       /\ create' = [step |-> "fork", obj |-> o, kid |-> k, fds |-> <<a, b>>]
  /\ UNCHANGED <<proc, queue, obj, leaked, workerVars, told, opened>>

\* The worker's m_fd is set here, before anything of it can be seen.
Fork ==
  /\ create.step = "fork"
  /\ proc' = [proc EXCEPT ![create.kid] = "forked"]
  /\ table' = [table EXCEPT ![create.kid] = table[Parent]]
  /\ m_fd' = [m_fd EXCEPT ![create.kid] = create.fds[2]]
  /\ create' = [create EXCEPT !.step = "adopt"]
  /\ UNCHANGED <<queue, obj, leaked, clients, told, opened>>

ForkFails ==
  /\ create.step = "fork"
  /\ SetTables([table EXCEPT ![Parent] =
                  [@ EXCEPT ![create.fds[1]] = None, ![create.fds[2]] = None]])
  /\ create' = Idle
  /\ UNCHANGED <<proc, obj, leaked, workerVars, told, opened>>

\* The object may have had a child before: its m_fd is not closed.
Adopt ==
  /\ create.step = "adopt"
  /\ Close(Parent, create.fds[2])
  /\ obj' = [obj EXCEPT ![create.obj] = [pid |-> create.kid, fd |-> create.fds[1]]]
  /\ LET old == obj[create.obj].fd IN
       leaked' = IF old = None THEN leaked ELSE leaked \cup {table[Parent][old]}
  /\ create' = Idle
  /\ UNCHANGED <<proc, workerVars, told, opened>>

\* Fault: only the dispatcher's end of the own pair is closed.
StartWithInherited(k) ==
  /\ proc[k] = "forked"
  /\ proc' = [proc EXCEPT ![k] = "running"]
  /\ SetTables([table EXCEPT ![k] = [n \in Fds |-> IF @[n] = Up(k) THEN None ELSE @[n]]])
  /\ UNCHANGED <<objVars, workerVars, told, opened>>

\* Fault: pairs are closed, the connections open at the fork are not.
StartWithConnections(k) ==
  /\ proc[k] = "forked"
  /\ proc' = [proc EXCEPT ![k] = "running"]
  /\ LET closed(n) == table[k][n] \in Ends /\ n # m_fd[k]
     IN  SetTables([table EXCEPT ![k] = [n \in Fds |-> IF closed(n) THEN None ELSE @[n]]])
  /\ UNCHANGED <<objVars, workerVars, told, opened>>

\* What CloseInheritedFds closes.
Inherited(k) == {n \in Fds : n \in 3 .. Limit - 1 /\ n # m_fd[k]}

\* The child closes fds[0] and what it has inherited; m_func is called.
Start(k) ==
  /\ proc[k] = "forked"
  /\ proc' = [proc EXCEPT ![k] = "running"]
  /\ LET closed(n) == n \in Inherited(k) \/ table[k][n] = Up(k)
     IN  SetTables([table EXCEPT ![k] = [n \in Fds |-> IF closed(n) THEN None ELSE @[n]]])
  /\ UNCHANGED <<objVars, workerVars, told, opened>>

-----------------------------------------------------------------------------
(* The life of CProcess objects; the one CreateSubProcess runs on is left   *)
(* alone meanwhile.                                                         *)

InUse(o) == create.obj = o

Destroy(o) ==
  /\ ~InUse(o) /\ obj[o].fd # None
  /\ Close(Parent, obj[o].fd)
  /\ obj' = [obj EXCEPT ![o] = NoChild]
  /\ UNCHANGED <<proc, create, leaked, workerVars, told, opened>>

\* Fault: the source keeps its m_fd.
MoveCopying(from, to) ==
  /\ from # to /\ ~InUse(from) /\ ~InUse(to) /\ obj[from].fd # None
  /\ IF obj[to].fd = None THEN UNCHANGED <<table, queue>> ELSE Close(Parent, obj[to].fd)
  /\ obj' = [obj EXCEPT ![to] = obj[from]]
  /\ UNCHANGED <<proc, create, leaked, workerVars, told, opened>>

\* Move assignment, and, onto an object without child, move construction.  From
\* an object without child it is what Destroy(to) is.
Move(from, to) ==
  /\ from # to /\ ~InUse(from) /\ ~InUse(to) /\ obj[from].fd # None
  /\ IF obj[to].fd = None THEN UNCHANGED <<table, queue>> ELSE Close(Parent, obj[to].fd)
  /\ obj' = [obj EXCEPT ![to] = obj[from], ![from] = NoChild]
  /\ UNCHANGED <<proc, create, leaked, workerVars, told, opened>>

-----------------------------------------------------------------------------
(* SendFD and RecvFD, in the dispatcher and in workers.                     *)

\* The numbers a process calls them with.
Sockets(p) == IF p = Parent THEN {obj[o].fd : o \in Objs} \ {None} ELSE {m_fd[p]}

\* Fault: a number that is not open is sent as well.
SendFDUnchecked(p) ==
  /\ Running(p)
  /\ \E s \in Sockets(p), n \in Fds :
       LET to == Other(table[p][s]) IN
       /\ Held(to) /\ Len(queue[to]) < MaxInFlight
       /\ queue' = [queue EXCEPT ![to] = Append(@, table[p][n])]
  /\ UNCHANGED <<proc, table, objVars, workerVars, told, opened>>

\* sendmsg duplicates the descriptor into the queue of the other end.
SendFD(p) ==
  /\ Running(p)
  /\ \E s \in Sockets(p), n \in Fds :
       LET to == Other(table[p][s]) IN
       /\ table[p][n] \in Conns
       /\ Held(to) /\ Len(queue[to]) < MaxInFlight
       /\ queue' = [queue EXCEPT ![to] = Append(@, table[p][n])]
  /\ UNCHANGED <<proc, table, objVars, workerVars, told, opened>>

\* No flag of sendmsg keeps SIGPIPE away: SendFD does not return.
SendFDKills(p) ==
  /\ Running(p)
  /\ \E s \in Sockets(p) : ~Held(Other(table[p][s]))
  /\ \E n \in Fds : table[p][n] \in Conns
  /\ Terminate(p)

\* A worker enters what it has received into m_clients and epoll.
Connected(p, n) ==
  clients' = IF p = Parent THEN clients ELSE [clients EXCEPT ![p] = @ \cup {n}]

\* recvmsg installs the descriptor.
Receive(p, s) ==
  LET e == table[p][s] IN
  /\ Running(p) /\ queue[e] # <<>>
  /\ \E n \in Fds :
       /\ Lowest(Free(p), n)
       /\ table' = [table EXCEPT ![p][n] = Head(queue[e])]
       /\ Connected(p, n)
  /\ queue' = [queue EXCEPT ![e] = Tail(@)]
  /\ UNCHANGED <<proc, objVars, m_fd, told, opened>>

\* Without a free number the message arrives, but not the descriptor.
ReceiveTruncated(p, s) ==
  LET e == table[p][s] IN
  /\ Running(p) /\ queue[e] # <<>> /\ Free(p) = {}
  /\ queue' = [queue EXCEPT ![e] = Tail(@)]
  /\ UNCHANGED <<proc, table, objVars, workerVars, told, opened>>

\* recvmsg returns 0 at the end of the stream, again and again.
ReceiveNothing(p, s) ==
  LET e == table[p][s] IN
  /\ Running(p) /\ queue[e] = <<>> /\ ~Held(Other(e))
  /\ told' = told \cup ({p} \ {Parent})
  /\ UNCHANGED <<kernelVars, objVars, workerVars, opened>>

RecvFD(p) ==
  \E s \in Sockets(p) : Receive(p, s) \/ ReceiveTruncated(p, s) \/ ReceiveNothing(p, s)

-----------------------------------------------------------------------------
(* What the callers do with connections.                                    *)

Accept(c) ==
  /\ Running(Parent) /\ c \notin opened
  /\ \E n \in Fds :
       /\ Lowest(Free(Parent), n)
       /\ table' = [table EXCEPT ![Parent][n] = c]
  /\ opened' = opened \cup {c}
  /\ UNCHANGED <<proc, queue, objVars, workerVars, told>>

CloseConn(n) ==
  /\ Running(Parent) /\ table[Parent][n] \in Conns
  /\ Close(Parent, n)
  /\ UNCHANGED <<proc, objVars, workerVars, told, opened>>

\* A task of CServer takes the client out of epoll and m_clients, and the last
\* shared_ptr closes it (Server has the steps between).
DropClient(k, n) ==
  /\ Running(k) /\ n \in clients[k]
  /\ clients' = [clients EXCEPT ![k] = @ \ {n}]
  /\ Close(k, n)
  /\ UNCHANGED <<proc, objVars, m_fd, told, opened>>

-----------------------------------------------------------------------------
Dispatcher ==
  \/ \E o \in Objs : Destroy(o) \/ (\E k \in Kids : SocketPair(o, k)) \/ (\E d \in Objs : Move(o, d))
  \/ Fork \/ ForkFails \/ Adopt
  \/ \E c \in Conns : Accept(c)
  \/ \E n \in Fds : CloseConn(n)

Worker(k) == Start(k) \/ \E n \in Fds : DropClient(k, n)

Next ==
  \/ Dispatcher
  \/ \E k \in Kids : Worker(k)
  \/ \E p \in Procs : SendFD(p) \/ SendFDKills(p) \/ RecvFD(p) \/ Exit(p)

Spec == Init /\ [][Next]_vars

\* Processes are scheduled, and the event loop of a worker goes on.  Nothing
\* obliges the dispatcher to anything.
Fairness == \A k \in Kids : WF_vars(Start(k)) /\ WF_vars(RecvFD(k))

FairSpec == Spec /\ Fairness

-----------------------------------------------------------------------------
(* Properties.                                                              *)

\* Every variable has its type.
TypeOK ==
  /\ proc \in [Procs -> {"none", "forked", "running", "exited"}]
  /\ table \in [Procs -> [Fds -> Files \cup {None}]]
  /\ queue \in [Ends -> Seq(Conns)]
  /\ obj \in [Objs -> [pid : Kids \cup {None}, fd : Fds \cup {None}]]
  /\ create \in [step : {"fork", "adopt"}, obj : Objs, kid : Kids, fds : Fds \X Fds] \cup {Idle}
  /\ m_fd \in [Kids -> Fds \cup {None}]
  /\ clients \in [Kids -> SUBSET Fds]
  /\ told \subseteq Kids /\ leaked \subseteq Ends /\ opened \subseteq Conns

\* The ends the dispatcher has open are those its objects own, one each, with
\* the pid of the worker at the other end; apart from the pair that is being
\* made and from ends whose number a second CreateSubProcess on the same object
\* has overwritten.  So a destructor closes what is its own and nothing else.
EndsAreOwned ==
  /\ \A o \in Objs :
       /\ (obj[o].fd = None) = (obj[o].pid = None)
       /\ obj[o].fd # None => table[Parent][obj[o].fd] = Up(obj[o].pid)
       /\ \A d \in Objs : obj[o].fd # None /\ obj[o].fd = obj[d].fd => o = d
  /\ \A n \in Fds :
       table[Parent][n] \in Ends \ leaked =>
         \/ \E o \in Objs : obj[o].fd = n
         \/ n \in {create.fds[1], create.fds[2]}

\* A worker that serves holds its own end and what it was sent, no more: of the
\* pairs none but its own end, and as connections exactly its clients, so none
\* that the dispatcher had open when it forked.
WorkerHoldsItsOwn ==
  \A k \in Kids : Running(k) =>
    /\ \A n \in Fds : table[k][n] \in Ends => n = m_fd[k] /\ table[k][n] = Down(k)
    /\ \A n \in Fds : table[k][n] \in Conns <=> n \in clients[k]

\* The places of a connection: processes that serve and have it open (a copy in
\* a process that is just being forked is closed before m_func sees it), and
\* ends it is queued at.
Places(c) ==
  {p \in Procs : Running(p) /\ Has(p, c)} \cup {e \in Ends : c \in Range(queue[e])}

ClosedEnds ==
  {Up(k) : k \in {j \in Kids : proc[j] # "none" /\ ~Has(Parent, Up(j))}}
    \cup {Down(k) : k \in {j \in Kids : proc[j] = "exited"}}

\* Who reads what is queued at an end, and who queues it.
Reader == [e \in Ends |-> IF e[1] = "up" THEN Parent ELSE e[2]]
Writer == [e \in Ends |-> Reader[Other(e)]]

Promise == INSTANCE HandOver WITH
  Entry <- Parent,
  seen <- opened,
  holders <- [c \in Conns |-> Places(c)],
  closed <- ClosedEnds

\* Connections are with those that accepted or were sent them, and are lost only
\* by a close of their holder, its end, or the end they wait at: the steps of
\* fork, moves, destructors and crashes neither leak nor drop any.
ImplementsHandOver == Promise!Spec

\* A worker whose dispatcher has closed its end, or has died, learns of it: no
\* process forked in between keeps the end open.
EndIsSeen ==
  \A k \in Kids :
    Running(k) /\ ~Has(Parent, Up(k)) ~> k \in told \/ proc[k] = "exited"
=============================================================================
