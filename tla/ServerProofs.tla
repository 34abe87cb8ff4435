---------------------------- MODULE ServerProofs ----------------------------
(***************************************************************************)
(* For any number of connections, descriptor numbers, workers and requests: *)
(* a late task never touches the connection that got the number next, the  *)
(* map and the epoll instance agree, and a request is handled once.        *)
(***************************************************************************)
EXTENDS Server, FiniteSetTheorems, TLAPS

\* Whoever is about to use a connection has one.
HoldInv ==
  /\ looppc \in {"insert", "add", "submit"} => cur \in Conns
  /\ \A w \in Workers : wpc[w] \notin {"idle", "exited"} => wconn[w] \in Conns

\* A connection gets its number when it is accepted, once, and keeps it to
\* itself while anything refers to it.
FdInv ==
  /\ \A c \in Conns : Referenced(c) => fdOf[c] # NoFd
  /\ \A c \in backlog : fdOf[c] = NoFd
  /\ \A c \in Conns : peer[c] = "new" => fdOf[c] = NoFd /\ c \notin backlog
  /\ \A c, d \in Conns : Referenced(c) /\ Referenced(d) /\ fdOf[c] = fdOf[d] => c = d

\* The map is by number; what accept has just returned is known to nobody else;
\* a worker that is about to erase has taken its connection out of epoll.
MapInv ==
  /\ \A fd \in Fds : m_clients[fd] # NoConn => fdOf[m_clients[fd]] = fd
  /\ \A c \in epoll : fdOf[c] # NoFd
  /\ ~epollOpen => epoll = {}
  /\ looppc \in {"insert", "add"} => cur \notin Range(m_tasks) \cup Range(wconn) \cup epoll
  /\ looppc = "insert" => cur \notin Range(m_clients)
  /\ looppc = "add" => m_clients[fdOf[cur]] = cur
  /\ \A w \in Workers : wpc[w] = "erase" => wconn[w] \notin epoll

\* The inductive invariant.
IInv == TypeOK /\ HoldInv /\ FdInv /\ MapInv /\ ClientsRegistered

-----------------------------------------------------------------------------
(* Types.                                                                   *)

\* A queue after a push, and after a pop.
LEMMA QueueFacts ==
  ASSUME NEW S, NEW s \in Seq(S)
  PROVE  /\ Range(s) \subseteq S
         /\ \A e \in S : Append(s, e) \in Seq(S) /\ Range(Append(s, e)) \subseteq Range(s) \cup {e}
         /\ s # <<>> => /\ Head(s) \in Range(s) /\ Head(s) \in S /\ Tail(s) \in Seq(S)
                        /\ Range(Tail(s)) \subseteq Range(s)
<1>1. Range(s) \subseteq S
  BY DEF Range
<1>2. ASSUME NEW e \in S
      PROVE  Append(s, e) \in Seq(S) /\ Range(Append(s, e)) \subseteq Range(s) \cup {e}
  <2> DEFINE a == Append(s, e)
  <2>1. /\ Len(s) \in Nat /\ DOMAIN s = 1 .. Len(s) /\ DOMAIN a = 1 .. Len(s) + 1 /\ a \in Seq(S)
        /\ a[Len(s) + 1] = e /\ \A i \in 1 .. Len(s) : a[i] = s[i]
    OBVIOUS
  <2> HIDE DEF a
  <2>2. \A x \in Range(a) : x \in Range(s) \cup {e}
    <3> TAKE x \in Range(a)
    <3>1. PICK i \in 1 .. Len(s) + 1 : x = a[i]
      BY <2>1 DEF Range
    <3> QED
      BY <2>1, <3>1 DEF Range
  <2> QED
    BY <2>1, <2>2 DEF a
<1>3. ASSUME s # <<>>
      PROVE  /\ Head(s) \in Range(s) /\ Head(s) \in S /\ Tail(s) \in Seq(S)
             /\ Range(Tail(s)) \subseteq Range(s)
  <2> DEFINE t == Tail(s)
  <2>1. /\ Len(s) \in Nat /\ Len(s) > 0 /\ DOMAIN s = 1 .. Len(s) /\ DOMAIN t = 1 .. Len(s) - 1
        /\ t \in Seq(S) /\ Head(s) = s[1] /\ Head(s) \in S
        /\ \A i \in 1 .. Len(s) - 1 : t[i] = s[i + 1] /\ i + 1 \in DOMAIN s
    BY <1>3
  <2> HIDE DEF t
  <2>2. Head(s) \in Range(s)
    <3>1. 1 \in DOMAIN s
      BY <2>1
    <3> QED
      BY <2>1, <3>1 DEF Range
  <2>3. Range(t) \subseteq Range(s)
    BY <2>1 DEF Range
  <2> QED
    BY <2>1, <2>2, <2>3 DEF t
<1> QED
  BY <1>1, <1>2, <1>3

\* Nothing is connected at first.
LEMMA InitInv == Init => IInv
<1> SUFFICES ASSUME Init PROVE IInv
  OBVIOUS
<1>1. <<>> \in Seq(Conns) /\ Range(<<>>) = {}
  BY DEF Range
<1>2. TypeOK
  <2>1. /\ inbox \in [Conns -> BOOLEAN] /\ awaiting \in [Conns -> BOOLEAN]
        /\ sent \in [Conns -> 0 .. MaxRequests]
    BY ServerAssumption DEF Init
  <2>2. /\ m_clients \in [Fds -> Conns \cup {NoConn}] /\ fdOf \in [Conns -> Fds \cup {NoFd}]
        /\ wconn \in [Workers -> Conns \cup {NoConn}]
        /\ wpc \in [Workers -> {"idle", "recv", "received", "del", "erase", "end", "exited"}]
        /\ peer \in [Conns -> {"new", "open", "closed"}]
    BY DEF Init
  <2> QED
    BY <1>1, <2>1, <2>2 DEF Init, TypeOK
<1>3. \A c \in Conns : ~Referenced(c)
  BY <1>1, ServerAssumption DEF Init, Referenced, Range
<1>4. HoldInv /\ FdInv
  BY <1>3 DEF Init, HoldInv, FdInv
<1>5. MapInv
  BY <1>1 DEF Init, MapInv
<1>6. ClientsRegistered
  BY <1>3 DEF Init, ClientsRegistered, Registered, Open
<1> QED
  BY <1>2, <1>4, <1>5, <1>6 DEF IInv

\* Every step keeps the types, and gives a connection to whoever needs one.
LEMMA TypeStep == TypeOK /\ HoldInv /\ [Next]_vars => TypeOK' /\ HoldInv'
<1> SUFFICES ASSUME TypeOK, HoldInv, [Next]_vars PROVE TypeOK' /\ HoldInv'
  OBVIOUS
<1> USE ServerAssumption
<1>1. ASSUME NEW c \in Conns, Peer(c) PROVE TypeOK' /\ HoldInv'
  <2>1. sent[c] \in 0 .. MaxRequests /\ (sent[c] < MaxRequests => sent[c] + 1 \in 0 .. MaxRequests)
    BY DEF TypeOK
  <2>2. CASE PeerConnect(c)
    BY <2>2 DEF PeerConnect, TypeOK, HoldInv, mainVars, loopVars, poolVars
  <2>4. CASE PeerClose(c)
    BY <2>4 DEF PeerClose, TypeOK, HoldInv, mainVars, loopVars, kernelVars, poolVars
  <2>3. CASE PeerSend(c)
    BY <2>1, <2>3 DEF PeerSend, TypeOK, HoldInv, mainVars, loopVars, kernelVars, poolVars
  <2> QED
    BY <1>1, <2>2, <2>3, <2>4 DEF Peer
<1>2. ASSUME RunStart \/ Test \/ EndOfBatch \/ Leave \/ SubmitThrows PROVE TypeOK' /\ HoldInv'
  <2>1. CASE RunStart
    BY <2>1 DEF RunStart, Goto, TypeOK, HoldInv, mainVars, loopVars, kernelVars, poolVars, peerVars
  <2>2. CASE Test
    BY <2>2 DEF Test, Goto, TypeOK, HoldInv, mainVars, loopVars, kernelVars, poolVars, peerVars
  <2>3. CASE EndOfBatch
    BY <2>3 DEF EndOfBatch, Goto, TypeOK, HoldInv, mainVars, loopVars, kernelVars, poolVars, peerVars
  <2>4. CASE Leave
    BY <2>4 DEF Leave, Goto, TypeOK, HoldInv, mainVars, loopVars, kernelVars, poolVars, peerVars
  <2>5. CASE SubmitThrows
    BY <2>5 DEF SubmitThrows, Goto, TypeOK, HoldInv, mainVars, loopVars, kernelVars, poolVars, peerVars
  <2> QED
    BY <1>2, <2>1, <2>2, <2>3, <2>4, <2>5
<1>3. ASSUME WaitEvents PROVE TypeOK' /\ HoldInv'
  <2>1. Ready \subseteq Fds \cup {Listener}
    <3>1. \A c \in Conns : Registered(c) => fdOf[c] \in Fds
      BY DEF Registered, Open, TypeOK
    <3> QED
      BY <3>1 DEF Ready
  <2> QED
    BY <1>3, <2>1 DEF WaitEvents, Goto, TypeOK, HoldInv, mainVars, kernelVars, poolVars, peerVars
<1>4. ASSUME Accept PROVE TypeOK' /\ HoldInv'
  <2>1. FreeFds \subseteq Fds
    BY DEF FreeFds
  <2>2. CASE FreeFds = {}
    BY <1>4, <2>2 DEF Accept, Goto, TypeOK, HoldInv, mainVars, poolVars, peerVars
  <2>3. CASE FreeFds # {}
    <3>1. PICK c \in backlog, fd \in FreeFds :
            /\ cur' = c /\ fdOf' = [fdOf EXCEPT ![c] = fd] /\ backlog' = backlog \ {c}
            /\ looppc' = "insert" /\ batch' = batch \ {Listener}
      BY <1>4, <2>3 DEF Accept, Goto
    <3>2. UNCHANGED <<mainVars, m_running, m_clients, epoll, epollOpen, refused, poolVars, peerVars, crashed>>
      BY <1>4 DEF Accept
    <3>3. c \in Conns /\ fdOf' \in [Conns -> Fds \cup {NoFd}]
      BY <2>1, <3>1 DEF TypeOK
    <3> QED
      BY <3>1, <3>2, <3>3 DEF TypeOK, HoldInv, mainVars, poolVars, peerVars
  <2> QED
    BY <2>2, <2>3
<1>5. ASSUME Insert PROVE TypeOK' /\ HoldInv'
  BY <1>5 DEF Insert, Goto, TypeOK, HoldInv, mainVars, kernelVars, poolVars, peerVars
<1>6. ASSUME Add PROVE TypeOK' /\ HoldInv'
  BY <1>6 DEF Add, Goto, TypeOK, HoldInv, mainVars, poolVars, peerVars
<1>7. ASSUME Lookup PROVE TypeOK' /\ HoldInv'
  BY <1>7 DEF Lookup, Goto, TypeOK, HoldInv, mainVars, kernelVars, poolVars, peerVars
<1>8. ASSUME Submit PROVE TypeOK' /\ HoldInv'
  <2>1. Append(m_tasks, cur) \in Seq(Conns)
    BY <1>8, QueueFacts DEF Submit, TypeOK, HoldInv
  <2> QED
    BY <1>8, <2>1 DEF Submit, Goto, TypeOK, HoldInv, mainVars, kernelVars, peerVars
<1>9. ASSUME NEW w \in Workers, Take(w) PROVE TypeOK' /\ HoldInv'
  <2>1. Head(m_tasks) \in Conns /\ Tail(m_tasks) \in Seq(Conns)
    BY <1>9, QueueFacts DEF Take, TypeOK
  <2> QED
    BY <1>9, <2>1 DEF Take, WorkerGoto, TypeOK, HoldInv, mainVars, loopVars, kernelVars, peerVars
<1>10. ASSUME NEW w \in Workers, RecvData(w) \/ RecvClosed(w) \/ Received(w) PROVE TypeOK' /\ HoldInv'
  <2>1. /\ wconn[w] \in Conns /\ wconn' = wconn
        /\ wpc' \in [Workers -> {"idle", "recv", "received", "del", "erase", "end", "exited"}]
        /\ \A v \in Workers : wpc'[v] \in {"idle", "exited"} \/ wpc[v] \notin {"idle", "exited"}
    BY <1>10 DEF RecvData, RecvClosed, Received, WorkerGoto, TypeOK, HoldInv
  <2>2. inbox' \in [Conns -> BOOLEAN] /\ awaiting' \in [Conns -> BOOLEAN] /\ unanswered' \subseteq Conns
    BY <1>10, <2>1 DEF RecvData, RecvClosed, Received, TypeOK
  <2>3. UNCHANGED <<mainVars, loopVars, kernelVars, m_tasks, m_stop, peer, sent, crashed>>
    BY <1>10 DEF RecvData, RecvClosed, Received
  <2> QED
    BY <2>1, <2>2, <2>3 DEF TypeOK, HoldInv, mainVars, loopVars, kernelVars
<1>11. ASSUME NEW w \in Workers, Del(w) \/ EndTask(w) \/ WorkerExit(w) PROVE TypeOK' /\ HoldInv'
  <2>1. CASE Del(w)
    BY <2>1 DEF Del, WorkerGoto, TypeOK, HoldInv, mainVars, loopVars, kernelVars, peerVars
  <2>2. CASE EndTask(w)
    BY <2>2 DEF EndTask, WorkerGoto, TypeOK, HoldInv, mainVars, loopVars, kernelVars, peerVars
  <2>3. CASE WorkerExit(w)
    BY <2>3 DEF WorkerExit, WorkerGoto, TypeOK, HoldInv, mainVars, loopVars, kernelVars, peerVars
  <2> QED
    BY <1>11, <2>1, <2>2, <2>3
<1>12. ASSUME NEW w \in Workers, Erase(w) PROVE TypeOK' /\ HoldInv'
  <2>1. m_clients' \in [Fds -> Conns \cup {NoConn}] /\ refused' \subseteq Conns
    BY <1>12 DEF Erase, TypeOK
  <2>2. /\ wconn' = wconn /\ wpc[w] = "erase"
        /\ wpc' \in [Workers -> {"idle", "recv", "received", "del", "erase", "end", "exited"}]
        /\ \A v \in Workers : wpc'[v] \in {"idle", "exited"} \/ wpc[v] \notin {"idle", "exited"}
    BY <1>12 DEF Erase, WorkerGoto, TypeOK
  <2>3. UNCHANGED <<mainpc, looppc, m_running, batch, cur, fdOf, epoll, epollOpen, backlog, m_tasks, m_stop,
                    peer, sent, inbox, awaiting, unanswered, crashed>>
    BY <1>12 DEF Erase, mainVars, peerVars
  <2> QED
    BY <2>1, <2>2, <2>3 DEF TypeOK, HoldInv
<1>13. ASSUME ShutDown \/ MainStep PROVE TypeOK' /\ HoldInv'
  <2>1. CASE ShutDown
    BY <2>1 DEF ShutDown, MainGoto, TypeOK, HoldInv, loopVars, kernelVars, poolVars, peerVars
  <2>2. CASE StopPool
    BY <2>2 DEF StopPool, MainGoto, TypeOK, HoldInv, loopVars, kernelVars, poolVars, peerVars
  <2>3. CASE PoolJoined
    BY <2>3 DEF PoolJoined, MainGoto, TypeOK, HoldInv, loopVars, kernelVars, poolVars, peerVars
  <2>4. CASE CloseEpoll
    BY <2>4 DEF CloseEpoll, MainGoto, TypeOK, HoldInv, loopVars, kernelVars, poolVars, peerVars
  <2>5. CASE LoopJoined
    BY <2>5 DEF LoopJoined, MainGoto, TypeOK, HoldInv, loopVars, kernelVars, poolVars, peerVars
  <2> QED
    BY <1>13, <2>1, <2>2, <2>3, <2>4, <2>5 DEF MainStep
<1>14. CASE UNCHANGED vars
  BY <1>14 DEF vars, TypeOK, HoldInv, mainVars, loopVars, kernelVars, poolVars, peerVars
<1> QED
  BY <1>1, <1>2, <1>3, <1>4, <1>5, <1>6, <1>7, <1>8, <1>9, <1>10, <1>11, <1>12, <1>13, <1>14
  DEF Next, Loop, Worker

\* Every variable keeps its type; only connections are queued (Server.cpp,
\* HandleEvent: a client that is not found is not submitted).
THEOREM TypeCorrect == Spec => []TypeOK
<1>1. Init => TypeOK /\ HoldInv
  BY InitInv DEF IInv
<1> QED
  BY <1>1, TypeStep, PTL DEF Spec

-----------------------------------------------------------------------------
(* Numbers.                                                                 *)

\* No step but a successful accept makes a reference to a connection that had
\* none, or gives a number.
LEMMA RefStep ==
  ASSUME TypeOK, HoldInv, [Next]_vars, ~(Accept /\ FreeFds # {})
  PROVE  fdOf' = fdOf /\ \A c \in Conns : Referenced(c)' => Referenced(c)
<1>1. ASSUME UNCHANGED <<m_clients, m_tasks, wconn, fdOf>>, cur' = cur \/ cur' = NoConn
      PROVE  fdOf' = fdOf /\ \A c \in Conns : Referenced(c)' => Referenced(c)
  BY <1>1, ServerAssumption DEF Referenced
<1>2. ASSUME NEW c \in Conns, Peer(c) PROVE UNCHANGED <<m_clients, m_tasks, wconn, fdOf, cur>>
  BY <1>2 DEF Peer, PeerConnect, PeerSend, PeerClose, loopVars, kernelVars, poolVars
<1>3. ASSUME RunStart \/ Test \/ WaitEvents \/ EndOfBatch \/ Add \/ SubmitThrows \/ Leave
      PROVE  UNCHANGED <<m_clients, m_tasks, wconn, fdOf>> /\ (cur' = cur \/ cur' = NoConn)
  BY <1>3 DEF RunStart, Test, WaitEvents, EndOfBatch, Add, SubmitThrows, Leave,
     loopVars, kernelVars, poolVars
<1>4. ASSUME Accept, FreeFds = {} PROVE UNCHANGED <<m_clients, m_tasks, wconn, fdOf, cur>>
  BY <1>4 DEF Accept, poolVars
<1>5. CASE Insert
  <2>1. UNCHANGED <<m_tasks, wconn, fdOf, cur>> /\ Range(m_clients') \subseteq Range(m_clients) \cup {cur}
    BY <1>5 DEF Insert, kernelVars, poolVars, Range, TypeOK
  <2> QED
    BY <2>1 DEF Referenced
<1>6. CASE Lookup
  <2>1. UNCHANGED <<m_clients, m_tasks, wconn, fdOf>>
    BY <1>6 DEF Lookup, kernelVars, poolVars
  <2>2. PICK fd \in batch \ {Listener} : cur' = m_clients[fd]
    BY <1>6 DEF Lookup
  <2>3. fd \in Fds /\ cur' \in Range(m_clients)
    BY <2>2 DEF TypeOK, Range
  <2> QED
    BY <2>1, <2>3 DEF Referenced
<1>7. CASE Submit
  <2>1. UNCHANGED <<m_clients, wconn, fdOf, cur>> /\ m_tasks' = Append(m_tasks, cur) /\ cur \in Conns
    BY <1>7 DEF Submit, kernelVars, HoldInv
  <2>2. Range(m_tasks') \subseteq Range(m_tasks) \cup {cur}
    BY <2>1, QueueFacts DEF TypeOK
  <2> QED
    BY <2>1, <2>2 DEF Referenced
<1>8. ASSUME NEW w \in Workers, Take(w)
      PROVE  fdOf' = fdOf /\ \A c \in Conns : Referenced(c)' => Referenced(c)
  <2>1. /\ UNCHANGED <<m_clients, fdOf, cur>>
        /\ m_tasks' = Tail(m_tasks) /\ wconn' = [wconn EXCEPT ![w] = Head(m_tasks)]
        /\ m_tasks # <<>>
    BY <1>8 DEF Take, loopVars, kernelVars
  <2>2. Range(m_tasks') \subseteq Range(m_tasks) /\ Head(m_tasks) \in Range(m_tasks)
    BY <2>1, QueueFacts DEF TypeOK
  <2>3. Range(wconn') \subseteq Range(wconn) \cup {Head(m_tasks)}
    BY <2>1 DEF Range, TypeOK
  <2> QED
    BY <2>1, <2>2, <2>3 DEF Referenced
<1>9. ASSUME NEW w \in Workers,
             RecvData(w) \/ RecvClosed(w) \/ Received(w) \/ Del(w) \/ WorkerExit(w)
      PROVE  UNCHANGED <<m_clients, m_tasks, wconn, fdOf, cur>>
  BY <1>9 DEF RecvData, RecvClosed, Received, Del, WorkerExit, loopVars, kernelVars
<1>10. ASSUME NEW w \in Workers, Erase(w) \/ EndTask(w)
       PROVE  fdOf' = fdOf /\ \A c \in Conns : Referenced(c)' => Referenced(c)
  <2>1. UNCHANGED <<m_tasks, fdOf, cur>>
    BY <1>10 DEF Erase, EndTask, loopVars, kernelVars
  <2>2. Range(m_clients') \subseteq Range(m_clients) \cup {NoConn}
    BY <1>10 DEF Erase, EndTask, loopVars, Range, TypeOK
  <2>3. Range(wconn') \subseteq Range(wconn) \cup {NoConn}
    BY <1>10 DEF Erase, EndTask, Range, TypeOK
  <2> QED
    BY <2>1, <2>2, <2>3, ServerAssumption DEF Referenced
<1>11. ASSUME ShutDown \/ MainStep \/ UNCHANGED vars
       PROVE  UNCHANGED <<m_clients, m_tasks, wconn, fdOf, cur>>
  BY <1>11 DEF ShutDown, MainStep, StopPool, PoolJoined, CloseEpoll, LoopJoined,
     loopVars, kernelVars, poolVars, vars
<1> QED
  BY <1>1, <1>2, <1>3, <1>4, <1>5, <1>6, <1>7, <1>8, <1>9, <1>10, <1>11 DEF Next, Loop, Worker

\* A connection that is newly accepted was not referred to, and gets a number
\* that no open connection has.
LEMMA AcceptFacts ==
  ASSUME TypeOK, FdInv, Accept, FreeFds # {}
  PROVE  /\ cur' \in backlog /\ cur' \in Conns /\ backlog' = backlog \ {cur'}
         /\ fdOf[cur'] = NoFd /\ ~Referenced(cur')
         /\ fdOf'[cur'] \in Fds /\ \A d \in Conns \ {cur'} : fdOf'[d] = fdOf[d]
         /\ \A d \in Conns : Referenced(d) => fdOf'[cur'] # fdOf[d]
         /\ \A d \in Conns : Referenced(d)' => Referenced(d) \/ d = cur'
         /\ UNCHANGED <<m_clients, m_tasks, wpc, wconn, epoll, epollOpen, refused, peer>>
         /\ looppc' = "insert"
<1>1. PICK c \in backlog, fd \in FreeFds :
        cur' = c /\ fdOf' = [fdOf EXCEPT ![c] = fd] /\ backlog' = backlog \ {c} /\ looppc' = "insert"
  BY DEF Accept, Goto
<1>2. UNCHANGED <<m_clients, m_tasks, wpc, wconn, epoll, epollOpen, refused, peer>>
  BY DEF Accept, poolVars, peerVars
<1>3. c \in Conns /\ fd \in Fds /\ fdOf[c] = NoFd /\ ~Referenced(c)
  BY DEF TypeOK, FdInv, FreeFds
<1>4. \A d \in Conns : Referenced(d) => fd # fdOf[d]
  BY DEF FreeFds, Open, FdInv
<1>5. \A d \in Conns : Referenced(d)' => Referenced(d) \/ d = c
  BY <1>1, <1>2 DEF Referenced
<1>6. fdOf'[c] = fd /\ \A d \in Conns \ {c} : fdOf'[d] = fdOf[d]
  BY <1>1, <1>3 DEF TypeOK
<1> QED
  BY <1>1, <1>2, <1>3, <1>4, <1>5, <1>6

\* A connection comes into the accept queue once, before it has a number.
LEMMA BacklogStep ==
  ASSUME TypeOK, [Next]_vars
  PROVE  /\ \A c \in backlog' : c \in backlog \/ (peer[c] = "new" /\ peer'[c] # "new" /\ c \in Conns)
         /\ \A c \in Conns : peer'[c] = "new" => peer[c] = "new"
<1>1. ASSUME NEW c \in Conns, Peer(c)
      PROVE  /\ \A d \in backlog' : d \in backlog \/ (peer[d] = "new" /\ peer'[d] # "new" /\ d \in Conns)
             /\ \A d \in Conns : peer'[d] = "new" => peer[d] = "new"
  BY <1>1 DEF Peer, PeerConnect, PeerSend, PeerClose, kernelVars, TypeOK
<1>2. ASSUME Loop \/ ShutDown \/ MainStep \/ UNCHANGED vars
      PROVE  backlog' \subseteq backlog /\ peer' = peer
  BY <1>2 DEF Loop, RunStart, Test, WaitEvents, EndOfBatch, Accept, Insert, Add, Lookup, Submit,
     SubmitThrows, Leave, ShutDown, MainStep, StopPool, PoolJoined, CloseEpoll, LoopJoined,
     kernelVars, peerVars, vars
<1>3. ASSUME NEW w \in Workers, Worker(w) PROVE backlog' = backlog /\ peer' = peer
  BY <1>3 DEF Worker, Take, RecvData, RecvClosed, Received, Del, Erase, EndTask, WorkerExit,
     kernelVars, peerVars
<1> QED
  BY <1>1, <1>2, <1>3 DEF Next

\* Every step leaves each number with one connection.
LEMMA FdStep == TypeOK /\ HoldInv /\ FdInv /\ [Next]_vars => FdInv'
<1> SUFFICES ASSUME TypeOK, HoldInv, FdInv, [Next]_vars PROVE FdInv'
  OBVIOUS
<1>1. CASE Accept /\ FreeFds # {}
  <2>1. \A c \in Conns : Referenced(c)' => fdOf'[c] # NoFd
    BY <1>1, AcceptFacts, ServerAssumption DEF FdInv
  <2>2. \A c \in backlog' : fdOf'[c] = NoFd
    BY <1>1, AcceptFacts DEF FdInv, TypeOK
  <2>3. \A c \in Conns : peer'[c] = "new" => fdOf'[c] = NoFd /\ c \notin backlog'
    BY <1>1, AcceptFacts DEF FdInv
  <2>4. \A c, d \in Conns : Referenced(c)' /\ Referenced(d)' /\ fdOf'[c] = fdOf'[d] => c = d
    BY <1>1, AcceptFacts DEF FdInv
  <2> QED
    BY <2>1, <2>2, <2>3, <2>4 DEF FdInv
<1>2. CASE ~(Accept /\ FreeFds # {})
  <2>1. fdOf' = fdOf /\ \A c \in Conns : Referenced(c)' => Referenced(c)
    BY <1>2, RefStep
  <2>2. /\ \A c \in backlog' : fdOf[c] = NoFd
        /\ \A c \in Conns : peer'[c] = "new" => fdOf[c] = NoFd /\ c \notin backlog'
    BY BacklogStep DEF FdInv
  <2> QED
    BY <2>1, <2>2 DEF FdInv
<1> QED
  BY <1>1, <1>2

\* The number a task has captured belongs to its connection for as long as the
\* task is queued or running, whatever else the server accepts (Server.cpp,
\* HandleEvent: the task captures the shared_ptr with the number).
THEOREM OneOwnerPerFdCorrect == Spec => []OneOwnerPerFd
<1> DEFINE Inv == TypeOK /\ HoldInv /\ FdInv
<1>1. Init => Inv
  BY InitInv DEF IInv
<1>2. Inv /\ [Next]_vars => Inv'
  BY TypeStep, FdStep
<1>3. Inv => OneOwnerPerFd
  <2> SUFFICES ASSUME Inv, NEW c \in (Range(m_tasks) \cup Range(wconn)) \ {NoConn}, NEW d \in Conns,
                      Open(d), fdOf[d] = fdOf[c]
               PROVE  d = c
    BY DEF OneOwnerPerFd
  <2>1. c \in Conns /\ Referenced(c)
    BY QueueFacts DEF Referenced, Range, TypeOK
  <2> QED
    BY <2>1 DEF Open, FdInv
<1> QED
  BY <1>1, <1>2, <1>3, PTL DEF Spec

-----------------------------------------------------------------------------
(* The map and the epoll instance.                                          *)

\* What is in the map is open, under its own number.
LEMMA EntryFacts ==
  ASSUME TypeOK, FdInv, MapInv, NEW fd \in Fds, m_clients[fd] # NoConn
  PROVE  m_clients[fd] \in Conns /\ Open(m_clients[fd]) /\ fdOf[m_clients[fd]] = fd
<1>1. m_clients[fd] \in Conns /\ m_clients[fd] \in Range(m_clients)
  BY DEF TypeOK, Range
<1> QED
  BY <1>1 DEF Open, Referenced, FdInv, MapInv

\* Whoever is about to use a connection keeps it open.
LEMMA HeldIsOpen ==
  ASSUME TypeOK, HoldInv, FdInv
  PROVE  /\ looppc \in {"insert", "add"} => Open(cur) /\ fdOf[cur] \in Fds
         /\ \A w \in Workers : wpc[w] \in {"del", "erase"} => Open(wconn[w]) /\ fdOf[wconn[w]] \in Fds
<1>1. ASSUME looppc \in {"insert", "add"} PROVE Open(cur) /\ fdOf[cur] \in Fds
  <2>1. cur \in Conns /\ Referenced(cur)
    BY <1>1 DEF HoldInv, Referenced
  <2> QED
    BY <2>1 DEF Open, FdInv, TypeOK
<1>2. ASSUME NEW w \in Workers, wpc[w] \in {"del", "erase"}
      PROVE  Open(wconn[w]) /\ fdOf[wconn[w]] \in Fds
  <2>1. wconn[w] \in Conns /\ Referenced(wconn[w])
    BY <1>2 DEF HoldInv, Referenced, Range, TypeOK
  <2> QED
    BY <2>1 DEF Open, FdInv, TypeOK
<1> QED
  BY <1>1, <1>2

\* What the steps have in common that change neither the map nor, but for the
\* end of it, the epoll instance.
LEMMA OtherStep ==
  ASSUME TypeOK, HoldInv, [Next]_vars, ~(Accept /\ FreeFds # {}), ~Insert, ~Add,
         \A w \in Workers : ~Del(w) /\ ~Erase(w)
  PROVE  /\ UNCHANGED <<m_clients, fdOf>>
         /\ \/ UNCHANGED <<epoll, epollOpen, refused>>
            \/ epoll' = {} /\ ~epollOpen'
         /\ looppc' \in {"insert", "add"} => looppc' = looppc /\ cur' = cur
         /\ looppc = "add" => looppc' = "add"
         /\ \/ Range(m_tasks') \cup Range(wconn') \subseteq Range(m_tasks) \cup Range(wconn) \cup {NoConn}
            \/ looppc' \notin {"insert", "add"}
         /\ \A w \in Workers : (wpc'[w] = "erase" <=> wpc[w] = "erase")
                               /\ (wpc'[w] = "erase" => wconn'[w] = wconn[w])
<1> DEFINE Goal == /\ UNCHANGED <<m_clients, fdOf>>
                   /\ \/ UNCHANGED <<epoll, epollOpen, refused>>
                      \/ epoll' = {} /\ ~epollOpen'
                   /\ looppc' \in {"insert", "add"} => looppc' = looppc /\ cur' = cur
                   /\ looppc = "add" => looppc' = "add"
                   /\ \/ Range(m_tasks') \cup Range(wconn')
                           \subseteq Range(m_tasks) \cup Range(wconn) \cup {NoConn}
                      \/ looppc' \notin {"insert", "add"}
                   /\ \A w \in Workers : (wpc'[w] = "erase" <=> wpc[w] = "erase")
                                         /\ (wpc'[w] = "erase" => wconn'[w] = wconn[w])
<1>1. ASSUME UNCHANGED <<m_clients, fdOf, m_tasks, wconn, wpc>>, UNCHANGED <<looppc, cur>>,
             UNCHANGED <<epoll, epollOpen, refused>> \/ (epoll' = {} /\ ~epollOpen')
      PROVE  Goal
  BY <1>1
<1>2. ASSUME UNCHANGED <<m_clients, fdOf, wconn, wpc, epoll, epollOpen, refused>>,
             looppc # "add", looppc' \notin {"insert", "add"}
      PROVE  Goal
  BY <1>2
<1>3. ASSUME NEW w \in Workers, UNCHANGED <<m_clients, fdOf, epoll, epollOpen, refused, looppc, cur>>,
             Range(m_tasks') \cup Range(wconn') \subseteq Range(m_tasks) \cup Range(wconn) \cup {NoConn},
             wpc[w] # "erase", wpc'[w] # "erase",
             \A v \in Workers \ {w} : wpc'[v] = wpc[v] /\ wconn'[v] = wconn[v]
      PROVE  Goal
  BY <1>3
<1>4. ASSUME NEW c \in Conns, Peer(c) PROVE Goal
  BY <1>1, <1>4 DEF Peer, PeerConnect, PeerSend, PeerClose, loopVars, kernelVars, poolVars
<1>5. ASSUME RunStart \/ Test \/ WaitEvents \/ EndOfBatch \/ Lookup \/ Submit \/ Leave PROVE Goal
  <2>1. UNCHANGED <<m_clients, fdOf, wconn, wpc, epoll, epollOpen, refused>>
    BY <1>5 DEF RunStart, Test, WaitEvents, EndOfBatch, Lookup, Submit, Leave, kernelVars, poolVars
  <2>2. looppc # "add" /\ looppc' \notin {"insert", "add"}
    BY <1>5 DEF RunStart, Test, WaitEvents, EndOfBatch, Lookup, Submit, Leave, Goto
  <2> QED
    BY <1>2, <2>1, <2>2
<1>6. ASSUME SubmitThrows \/ ShutDown \/ MainStep \/ UNCHANGED vars PROVE Goal
  BY <1>1, <1>6 DEF SubmitThrows, ShutDown, MainStep, StopPool, PoolJoined, CloseEpoll, LoopJoined,
     loopVars, kernelVars, poolVars, vars
<1>7. ASSUME Accept PROVE Goal
  <2>1. UNCHANGED <<m_clients, fdOf, wconn, wpc, epoll, epollOpen, refused>>
        /\ looppc = "batch" /\ looppc' = "batch"
    BY <1>7 DEF Accept, Goto, poolVars
  <2> QED
    BY <1>2, <2>1
<1>8. ASSUME NEW w \in Workers, Take(w) PROVE Goal
  <2>1. /\ UNCHANGED <<m_clients, fdOf, epoll, epollOpen, refused, looppc, cur>>
        /\ m_tasks' = Tail(m_tasks) /\ wconn' = [wconn EXCEPT ![w] = Head(m_tasks)]
        /\ m_tasks # <<>> /\ wpc[w] = "idle" /\ wpc' = [wpc EXCEPT ![w] = "recv"]
    BY <1>8 DEF Take, WorkerGoto, loopVars, kernelVars
  <2>2. Range(m_tasks') \subseteq Range(m_tasks) /\ Head(m_tasks) \in Range(m_tasks)
    BY <2>1, QueueFacts DEF TypeOK
  <2>3. Range(wconn') \subseteq Range(wconn) \cup {Head(m_tasks)}
    BY <2>1 DEF Range, TypeOK
  <2>4. wpc'[w] # "erase" /\ \A v \in Workers \ {w} : wpc'[v] = wpc[v] /\ wconn'[v] = wconn[v]
    BY <2>1 DEF TypeOK
  <2> QED
    BY <1>3, <2>1, <2>2, <2>3, <2>4
<1>9. ASSUME NEW w \in Workers, RecvData(w) \/ RecvClosed(w) \/ Received(w) \/ EndTask(w) \/ WorkerExit(w)
      PROVE  Goal
  <2>1. /\ UNCHANGED <<m_clients, fdOf, epoll, epollOpen, refused, looppc, cur, m_tasks>>
        /\ wpc[w] # "erase"
        /\ \E l \in {"received", "del", "end", "idle", "exited"} : wpc' = [wpc EXCEPT ![w] = l]
        /\ wconn' = wconn \/ wconn' = [wconn EXCEPT ![w] = NoConn]
    BY <1>9 DEF RecvData, RecvClosed, Received, EndTask, WorkerExit, WorkerGoto, loopVars, kernelVars
  <2>2. Range(wconn') \subseteq Range(wconn) \cup {NoConn}
    BY <2>1 DEF Range, TypeOK
  <2>3. wpc'[w] # "erase" /\ \A v \in Workers \ {w} : wpc'[v] = wpc[v] /\ wconn'[v] = wconn[v]
    BY <2>1 DEF TypeOK
  <2> QED
    BY <1>3, <2>1, <2>2, <2>3
<1> HIDE DEF Goal
<1>10. Goal
  BY <1>4, <1>5, <1>6, <1>7, <1>8, <1>9 DEF Next, Loop, Worker
<1> QED
  BY <1>10 DEF Goal

\* Every step keeps the map by number and the epoll instance in accord with it,
\* as far as the two are meant to be.
LEMMA MapStep ==
  TypeOK /\ HoldInv /\ FdInv /\ MapInv /\ ClientsRegistered /\ [Next]_vars
    => MapInv' /\ ClientsRegistered'
<1> SUFFICES ASSUME TypeOK, HoldInv, FdInv, MapInv, ClientsRegistered, [Next]_vars
             PROVE  MapInv' /\ ClientsRegistered'
  OBVIOUS
<1>1. TypeOK' /\ HoldInv' /\ FdInv'
  BY TypeStep, FdStep
<1> USE ServerAssumption
\* Open is all that registration needs beside the interest list.
<1>2. ASSUME MapInv',
             epollOpen' =>
               /\ \A c \in Conns : Open(c)' /\ c \in epoll' => m_clients'[fdOf'[c]] = c
               /\ \A fd \in Fds : m_clients'[fd] # NoConn =>
                    \/ m_clients'[fd] \in epoll' \cup refused'
                    \/ looppc' = "add" /\ cur' = m_clients'[fd]
                    \/ \E w \in Workers : wpc'[w] = "erase" /\ wconn'[w] = m_clients'[fd]
      PROVE  MapInv' /\ ClientsRegistered'
  <2>1. \A fd \in Fds : m_clients'[fd] # NoConn =>
          (Open(m_clients[fd]) /\ fdOf[m_clients[fd]] = fd)'
    <3>1. \A fd \in Fds : m_clients'[fd] # NoConn =>
            m_clients'[fd] \in Conns /\ m_clients'[fd] \in Range(m_clients')
      BY <1>1 DEF TypeOK, Range
    <3> QED
      BY <1>1, <1>2, <3>1 DEF Open, Referenced, FdInv, MapInv
  <2> QED
    BY <1>2, <2>1 DEF ClientsRegistered, Registered
\* The same, before the step.
<1>3. epollOpen =>
        /\ \A c \in Conns : Open(c) /\ c \in epoll => m_clients[fdOf[c]] = c
        /\ \A fd \in Fds : m_clients[fd] # NoConn =>
             \/ m_clients[fd] \in epoll \cup refused
             \/ looppc = "add" /\ cur = m_clients[fd]
             \/ \E w \in Workers : wpc[w] = "erase" /\ wconn[w] = m_clients[fd]
  BY DEF ClientsRegistered, Registered
<1>4. ~(Accept /\ FreeFds # {}) => fdOf' = fdOf /\ \A c \in Conns : Open(c)' => Open(c)
  BY RefStep DEF Open
<1>5. CASE Accept /\ FreeFds # {}
  <2>1. /\ UNCHANGED <<m_clients, m_tasks, wpc, wconn, epoll, epollOpen, refused>>
        /\ looppc' = "insert" /\ cur' \in Conns
        /\ fdOf[cur'] = NoFd /\ ~Referenced(cur') /\ fdOf'[cur'] \in Fds
        /\ \A d \in Conns \ {cur'} : fdOf'[d] = fdOf[d] /\ (Referenced(d)' => Referenced(d))
    BY <1>5, AcceptFacts
  <2>2. looppc = "batch"
    BY <1>5 DEF Accept
  <2>3. cur' \notin epoll
    BY <2>1 DEF MapInv
  <2>4. \A fd \in Fds : m_clients[fd] # NoConn => m_clients[fd] \in Conns \ {cur'} /\ fdOf'[m_clients[fd]] = fd
    <3>1. \A fd \in Fds : m_clients[fd] # NoConn =>
            m_clients[fd] \in Conns /\ m_clients[fd] # cur' /\ fdOf[m_clients[fd]] = fd
      BY <2>1, EntryFacts DEF Open
    <3> QED
      BY <2>1, <3>1
  <2>5. MapInv'
    <3>1. \A c \in epoll : fdOf'[c] # NoFd
      BY <2>1, <2>3 DEF MapInv, TypeOK
    <3> QED
      BY <2>1, <2>3, <2>4, <3>1 DEF MapInv, Referenced
  <2>6. \A c \in Conns : Open(c)' /\ c \in epoll' => Open(c) /\ c \in epoll /\ fdOf'[c] = fdOf[c]
    BY <2>1, <2>3 DEF Open
  <2> QED
    BY <1>2, <1>3, <2>1, <2>2, <2>5, <2>6
<1>6. CASE Insert
  <2>1. /\ UNCHANGED <<m_tasks, wpc, wconn, epoll, epollOpen, refused, cur, fdOf>>
        /\ m_clients' = [m_clients EXCEPT ![fdOf[cur]] = cur]
        /\ looppc = "insert" /\ looppc' = "add" /\ cur \in Conns /\ fdOf[cur] \in Fds /\ Open(cur)
    BY <1>6, HeldIsOpen DEF Insert, Goto, kernelVars, poolVars, HoldInv
  <2>2. MapInv'
    BY <2>1 DEF MapInv, TypeOK
  <2>3. \A c \in Conns : Open(c) /\ c \in epoll => fdOf[c] # fdOf[cur]
    BY <2>1 DEF Open, FdInv, MapInv
  <2> QED
    BY <1>2, <1>3, <1>4, <1>6, <2>1, <2>2, <2>3 DEF TypeOK, Accept
<1>7. CASE Add
  <2>1. /\ UNCHANGED <<m_clients, m_tasks, wpc, wconn, epollOpen, fdOf>>
        /\ \/ epollOpen /\ epoll' = epoll \cup {cur} /\ refused' = refused
           \/ epoll' = epoll /\ refused' = IF epollOpen THEN refused \cup {cur} ELSE refused
        /\ looppc = "add" /\ looppc' = "batch" /\ cur \in Conns /\ fdOf[cur] \in Fds
        /\ m_clients[fdOf[cur]] = cur
    BY <1>7, HeldIsOpen DEF Add, Goto, poolVars, HoldInv, MapInv
  <2>2. MapInv'
    <3>1. \A w \in Workers : wpc[w] = "erase" => wconn[w] # cur
      BY <2>1 DEF MapInv, Range, TypeOK
    <3> QED
      BY <2>1, <3>1 DEF MapInv
  <2> QED
    BY <1>2, <1>3, <1>4, <1>7, <2>1, <2>2 DEF Accept
<1>8. ASSUME NEW w \in Workers, Del(w) PROVE MapInv' /\ ClientsRegistered'
  <2>1. /\ UNCHANGED <<m_clients, m_tasks, wconn, epollOpen, refused, fdOf, looppc, cur>>
        /\ epoll' = IF epollOpen
                      THEN epoll \ {c \in Conns : Open(c) /\ fdOf[c] = fdOf[wconn[w]]}
                      ELSE epoll
        /\ wpc[w] = "del" /\ wpc' = [wpc EXCEPT ![w] = "erase"]
        /\ wconn[w] \in Conns /\ Open(wconn[w])
    BY <1>8, HeldIsOpen DEF Del, WorkerGoto, loopVars, HoldInv
  <2>2. \A c \in Conns : Open(c) /\ fdOf[c] = fdOf[wconn[w]] => c = wconn[w]
    BY <2>1 DEF Open, FdInv
  <2>3. epoll' = epoll \ {wconn[w]}
    BY <2>1, <2>2 DEF MapInv, TypeOK
  <2>4. wpc'[w] = "erase" /\ \A v \in Workers \ {w} : wpc'[v] = wpc[v]
    BY <2>1 DEF TypeOK
  <2>5. MapInv'
    BY <2>1, <2>3, <2>4 DEF MapInv
  <2>6. \A v \in Workers : wpc[v] = "erase" => wpc'[v] = "erase"
    BY <2>4
  <2>7. \A c \in Conns : Open(c)' => Open(c)
    BY <1>4, <1>8, <2>1 DEF Del, Open, Referenced, loopVars
  <2>8. epollOpen => \A n \in Fds : m_clients[n] # NoConn =>
          \/ m_clients[n] \in epoll' \cup refused
          \/ looppc = "add" /\ cur = m_clients[n]
          \/ \E v \in Workers : wpc'[v] = "erase" /\ wconn[v] = m_clients[n]
    BY <1>3, <2>3, <2>4, <2>6
  <2> QED
    BY <1>2, <1>3, <2>1, <2>3, <2>5, <2>7, <2>8
<1>9. ASSUME NEW w \in Workers, Erase(w) PROVE MapInv' /\ ClientsRegistered'
  <2> DEFINE fd == fdOf[wconn[w]]
  <2>1. /\ UNCHANGED <<m_tasks, wconn, epoll, epollOpen, fdOf, looppc, cur>>
        /\ m_clients' = IF m_clients[fd] = wconn[w]
                          THEN [m_clients EXCEPT ![fd] = NoConn]
                          ELSE m_clients
        /\ refused' = refused \ {wconn[w]}
        /\ wpc[w] = "erase" /\ wpc' = [wpc EXCEPT ![w] = "end"]
        /\ wconn[w] \in Conns /\ fd \in Fds
    BY <1>9, HeldIsOpen DEF Erase, WorkerGoto, kernelVars, HoldInv
  <2>2. wpc'[w] # "erase" /\ \A v \in Workers \ {w} : wpc'[v] = wpc[v]
    BY <2>1 DEF TypeOK
  <2>3. \A n \in Fds : /\ m_clients'[n] \in {m_clients[n], NoConn}
                       /\ m_clients'[n] # wconn[w]
                       /\ m_clients[n] # wconn[w] => m_clients'[n] = m_clients[n]
    BY <2>1 DEF TypeOK, MapInv
  <2>4. wconn[w] \notin epoll /\ wconn[w] \in Range(wconn)
    BY <2>1 DEF MapInv, Range, TypeOK
  <2>5. looppc \in {"insert", "add"} => cur # wconn[w]
    BY <2>4 DEF MapInv
  <2>6. looppc \in {"insert", "add"} => fdOf[cur] \in Fds
    BY HeldIsOpen
  <2>7. Range(m_clients') \subseteq Range(m_clients) \cup {NoConn}
    BY <2>1 DEF Range, TypeOK
  <2>8. looppc \in {"insert", "add"} => cur # NoConn
    BY DEF HoldInv
  <2>9. MapInv'
    <3>1. \A n \in Fds : m_clients'[n] # NoConn => fdOf[m_clients'[n]] = n
      BY <2>3 DEF MapInv
    <3>2. looppc = "add" => m_clients'[fdOf[cur]] = cur
      BY <2>3, <2>5, <2>6 DEF MapInv
    <3>3. looppc = "insert" => cur \notin Range(m_clients')
      BY <2>7, <2>8 DEF MapInv
    <3> QED
      BY <2>1, <2>2, <3>1, <3>2, <3>3 DEF MapInv
  <2>10. \A c \in Conns : Open(c) /\ c \in epoll => fdOf[c] \in Fds /\ c # wconn[w]
    BY <2>4 DEF Open, TypeOK
  <2>11. \A c \in Conns : Open(c)' => Open(c)
    BY <1>9, RefStep DEF Erase, Accept, Open, kernelVars
  <2>12. epollOpen => \A n \in Fds : m_clients'[n] # NoConn =>
           \/ m_clients'[n] \in epoll \cup refused'
           \/ looppc = "add" /\ cur = m_clients'[n]
           \/ \E v \in Workers : wpc'[v] = "erase" /\ wconn[v] = m_clients'[n]
    <3> SUFFICES ASSUME epollOpen, NEW n \in Fds, m_clients'[n] # NoConn
                 PROVE  \/ m_clients'[n] \in epoll \cup refused'
                        \/ looppc = "add" /\ cur = m_clients'[n]
                        \/ \E v \in Workers : wpc'[v] = "erase" /\ wconn[v] = m_clients'[n]
      OBVIOUS
    <3>1. m_clients'[n] = m_clients[n] /\ m_clients[n] # wconn[w]
      BY <2>3
    <3>2. CASE \E v \in Workers : wpc[v] = "erase" /\ wconn[v] = m_clients[n]
      BY <2>2, <3>1, <3>2
    <3>3. CASE m_clients[n] \in epoll \cup refused
      BY <2>1, <3>1, <3>3
    <3> QED
      BY <1>3, <3>1, <3>2, <3>3
  <2>13. epollOpen => \A c \in Conns : Open(c) /\ c \in epoll => m_clients'[fdOf[c]] = c
    BY <1>3, <2>3, <2>10
  <2> HIDE DEF fd
  <2> QED
    BY <1>2, <2>1, <2>9, <2>11, <2>12, <2>13
<1>10. CASE ~(Accept /\ FreeFds # {}) /\ ~Insert /\ ~Add /\ \A w \in Workers : ~Del(w) /\ ~Erase(w)
  <2>1. /\ UNCHANGED <<m_clients, fdOf>>
        /\ \/ UNCHANGED <<epoll, epollOpen, refused>>
           \/ epoll' = {} /\ ~epollOpen'
        /\ looppc' \in {"insert", "add"} => looppc' = looppc /\ cur' = cur
        /\ looppc = "add" => looppc' = "add"
        /\ \/ Range(m_tasks') \cup Range(wconn') \subseteq Range(m_tasks) \cup Range(wconn) \cup {NoConn}
           \/ looppc' \notin {"insert", "add"}
        /\ \A w \in Workers : (wpc'[w] = "erase" <=> wpc[w] = "erase")
                              /\ (wpc'[w] = "erase" => wconn'[w] = wconn[w])
    BY <1>10, OtherStep
  <2>2. looppc \in {"insert", "add"} => cur \in Conns
    BY DEF HoldInv
  <2>3. MapInv'
    BY <2>1, <2>2 DEF MapInv
  <2> QED
    BY <1>2, <1>3, <1>4, <1>10, <2>1, <2>3
<1> QED
  BY <1>5, <1>6, <1>7, <1>8, <1>9, <1>10

\* The inductive invariant.
LEMMA Invariance == Spec => []IInv
<1>1. IInv /\ [Next]_vars => IInv'
  BY TypeStep, FdStep, MapStep DEF IInv
<1> QED
  BY InitInv, <1>1, PTL DEF Spec

\* m_clients and the interest list agree, but for the moments between the two
\* updates of an accept (Server.cpp:129-133) or of a clean-up (lines 157-163).
THEOREM ClientsRegisteredCorrect == Spec => []ClientsRegistered
<1>1. IInv => ClientsRegistered
  BY DEF IInv
<1> QED
  BY Invariance, <1>1, PTL

-----------------------------------------------------------------------------
(* Requests.                                                                *)

\* Workers that have received a request of c and not answered it yet.
Busy(c) == {w \in Workers : wpc[w] = "received" /\ wconn[w] = c}

BusyCount(c) == Cardinality(Busy(c))

\* A peer that has not connected waits for nothing; one that got no response
\* still does.
AwaitingInv ==
  /\ \A c \in Conns : peer[c] = "new" => ~awaiting[c]
  /\ \A c \in unanswered : awaiting[c]

\* RequestHandledOnce, by connection.
Handled(c) ==
  LET copies == BusyCount(c) + (IF inbox[c] THEN 1 ELSE 0)
      due    == IF awaiting[c] /\ c \notin unanswered THEN 1 ELSE 0
  IN  IF peer[c] = "open" THEN copies = due ELSE copies <= due

\* The two forms are the same, before and after a step.
LEMMA ByConnection ==
  /\ RequestHandledOnce <=> \A c \in Conns : Handled(c)
  /\ RequestHandledOnce' <=> \A c \in Conns : Handled(c)'
BY DEF RequestHandledOnce, Handled, BusyCount, Busy

\* Counting workers.
LEMMA BusyFacts ==
  \A c \in Conns : /\ BusyCount(c) \in Nat
                   /\ \A w \in Workers : w \in Busy(c) => BusyCount(c) > 0
<1> TAKE c \in Conns
<1>1. IsFiniteSet(Busy(c))
  BY ServerAssumption, FS_Subset DEF Busy
<1> QED
  BY <1>1, FS_CardinalityType, FS_EmptySet DEF BusyCount

\* A worker that receives, and one that answers, count for one connection.
LEMMA BusyStep ==
  ASSUME TypeOK, NEW w \in Workers, wconn' = wconn, wconn[w] \in Conns,
         \A v \in Workers \ {w} : wpc'[v] = wpc[v]
  PROVE  /\ \A c \in Conns \ {wconn[w]} : BusyCount(c)' = BusyCount(c)
         /\ wpc[w] # "received" /\ wpc'[w] = "received" =>
              BusyCount(wconn[w])' = BusyCount(wconn[w]) + 1
         /\ wpc[w] = "received" /\ wpc'[w] # "received" =>
              BusyCount(wconn[w])' = BusyCount(wconn[w]) - 1
<1> DEFINE b == wconn[w]
<1>1. \A c \in Conns \ {b} : Busy(c)' = Busy(c)
  BY DEF Busy
<1>2. IsFiniteSet(Busy(b))
  BY ServerAssumption, FS_Subset DEF Busy
<1>3. ASSUME wpc[w] # "received", wpc'[w] = "received"
      PROVE  BusyCount(b)' = BusyCount(b) + 1
  <2>1. Busy(b)' = Busy(b) \cup {w} /\ w \notin Busy(b)
    BY <1>3 DEF Busy
  <2> QED
    BY <1>2, <2>1, FS_AddElement DEF BusyCount
<1>4. ASSUME wpc[w] = "received", wpc'[w] # "received"
      PROVE  BusyCount(b)' = BusyCount(b) - 1
  <2>1. Busy(b)' = Busy(b) \ {w} /\ w \in Busy(b)
    BY <1>4 DEF Busy
  <2> QED
    BY <1>2, <2>1, FS_RemoveElement DEF BusyCount
<1> QED
  BY <1>1, <1>3, <1>4 DEF BusyCount

\* No step but the receipt of a request and the answer changes who is busy.
LEMMA NotBusyStep ==
  ASSUME TypeOK, [Next]_vars, \A w \in Workers : ~RecvData(w) /\ ~Received(w)
  PROVE  \A c \in Conns : BusyCount(c)' = BusyCount(c)
<1>1. ASSUME \A v \in Workers : /\ wpc'[v] = "received" <=> wpc[v] = "received"
                                /\ wpc[v] = "received" => wconn'[v] = wconn[v]
      PROVE  \A c \in Conns : BusyCount(c)' = BusyCount(c)
  <2>1. \A c \in Conns : Busy(c)' = Busy(c)
    BY <1>1 DEF Busy
  <2> QED
    BY <2>1 DEF BusyCount
<1>2. ASSUME NEW c \in Conns, Peer(c) PROVE UNCHANGED <<wpc, wconn>>
  BY <1>2 DEF Peer, PeerConnect, PeerSend, PeerClose, poolVars
<1>3. ASSUME Loop \/ ShutDown \/ MainStep \/ UNCHANGED vars PROVE UNCHANGED <<wpc, wconn>>
  BY <1>3 DEF Loop, RunStart, Test, WaitEvents, EndOfBatch, Accept, Insert, Add, Lookup, Submit,
     SubmitThrows, Leave, ShutDown, MainStep, StopPool, PoolJoined, CloseEpoll, LoopJoined,
     poolVars, vars
<1>4. ASSUME NEW w \in Workers, Worker(w)
      PROVE  \A v \in Workers : /\ wpc'[v] = "received" <=> wpc[v] = "received"
                                /\ wpc[v] = "received" => wconn'[v] = wconn[v]
  <2>1. /\ wpc[w] # "received"
        /\ \E l \in {"recv", "del", "erase", "end", "idle", "exited"} : wpc' = [wpc EXCEPT ![w] = l]
        /\ \/ wconn' = wconn
           \/ wconn' = [wconn EXCEPT ![w] = NoConn]
           \/ wconn' = [wconn EXCEPT ![w] = Head(m_tasks)]
    BY <1>4 DEF Worker, Take, RecvClosed, Del, Erase, EndTask, WorkerExit, WorkerGoto
  <2> QED
    BY <2>1 DEF TypeOK
<1> QED
  BY <1>1, <1>2, <1>3, <1>4 DEF Next

\* Every step leaves each request with one worker at most.
LEMMA HandledStep ==
  TypeOK /\ HoldInv /\ RequestHandledOnce /\ AwaitingInv /\ [Next]_vars
    => RequestHandledOnce' /\ AwaitingInv'
<1> SUFFICES ASSUME TypeOK, HoldInv, \A c \in Conns : Handled(c), AwaitingInv, [Next]_vars
             PROVE  (\A c \in Conns : Handled(c)') /\ AwaitingInv'
  BY ByConnection
<1> USE BusyFacts
<1>1. ASSUME UNCHANGED <<peer, inbox, awaiting, unanswered>>, \A w \in Workers : ~RecvData(w) /\ ~Received(w)
      PROVE  (\A c \in Conns : Handled(c)') /\ AwaitingInv'
  BY <1>1, NotBusyStep DEF Handled, AwaitingInv
<1>2. ASSUME NEW d \in Conns, Peer(d)
      PROVE  (\A c \in Conns : Handled(c)') /\ AwaitingInv'
  <2>1. \A c \in Conns : BusyCount(c)' = BusyCount(c)
    <3>1. UNCHANGED <<wpc, wconn>>
      BY <1>2 DEF Peer, PeerConnect, PeerSend, PeerClose, poolVars
    <3> QED
      BY <3>1 DEF BusyCount, Busy
  <2>2. CASE PeerConnect(d)
    BY <2>1, <2>2 DEF PeerConnect, Handled, AwaitingInv, TypeOK
  <2>3. CASE PeerSend(d)
    BY <2>1, <2>3 DEF PeerSend, Handled, AwaitingInv, TypeOK
  <2>4. CASE PeerClose(d)
    BY <2>1, <2>4 DEF PeerClose, Handled, AwaitingInv, TypeOK
  <2> QED
    BY <1>2, <2>2, <2>3, <2>4 DEF Peer
<1>3. ASSUME NEW w \in Workers, RecvData(w)
      PROVE  (\A c \in Conns : Handled(c)') /\ AwaitingInv'
  <2>1. /\ UNCHANGED <<wconn, peer, awaiting, unanswered>> /\ inbox' = [inbox EXCEPT ![wconn[w]] = FALSE]
        /\ inbox[wconn[w]] /\ wconn[w] \in Conns
        /\ wpc[w] = "recv" /\ wpc' = [wpc EXCEPT ![w] = "received"]
    BY <1>3 DEF RecvData, WorkerGoto, HoldInv
  <2>2. wpc'[w] = "received" /\ \A v \in Workers \ {w} : wpc'[v] = wpc[v]
    BY <2>1 DEF TypeOK
  <2>3. /\ \A c \in Conns \ {wconn[w]} : BusyCount(c)' = BusyCount(c)
        /\ BusyCount(wconn[w])' = BusyCount(wconn[w]) + 1
    BY <2>1, <2>2, BusyStep
  <2>4. ASSUME NEW c \in Conns PROVE Handled(c)'
    <3>1. Handled(c) /\ BusyCount(c) \in Nat
      BY <2>3
    <3>2. CASE c = wconn[w]
      <4>1. inbox[c] /\ ~inbox'[c] /\ BusyCount(c)' = BusyCount(c) + 1
        BY <2>1, <2>3, <3>2 DEF TypeOK
      <4> QED
        BY <2>1, <3>1, <4>1 DEF Handled
    <3>3. CASE c # wconn[w]
      <4>1. inbox'[c] = inbox[c] /\ BusyCount(c)' = BusyCount(c)
        BY <2>1, <2>3, <3>3 DEF TypeOK
      <4> QED
        BY <2>1, <3>1, <4>1 DEF Handled
    <3> QED
      BY <3>2, <3>3
  <2> QED
    BY <2>1, <2>4 DEF AwaitingInv
<1>4. ASSUME NEW w \in Workers, Received(w)
      PROVE  (\A c \in Conns : Handled(c)') /\ AwaitingInv'
  <2>1. /\ UNCHANGED <<wconn, peer, inbox>>
        /\ \/ awaiting' = [awaiting EXCEPT ![wconn[w]] = FALSE] /\ unanswered' = unanswered
           \/ awaiting' = awaiting /\ unanswered' = unanswered \cup {wconn[w]}
        /\ wconn[w] \in Conns
        /\ wpc[w] = "received" /\ wpc' = [wpc EXCEPT ![w] = "end"]
    BY <1>4 DEF Received, WorkerGoto, HoldInv
  <2>2. wpc'[w] # "received" /\ \A v \in Workers \ {w} : wpc'[v] = wpc[v]
    BY <2>1 DEF TypeOK
  <2>3. /\ \A c \in Conns \ {wconn[w]} : BusyCount(c)' = BusyCount(c)
        /\ BusyCount(wconn[w])' = BusyCount(wconn[w]) - 1
    BY <2>1, <2>2, BusyStep
  <2>4. BusyCount(wconn[w]) > 0
    BY <2>1 DEF Busy
  <2>5. ASSUME NEW c \in Conns PROVE Handled(c)'
    <3>1. Handled(c) /\ BusyCount(c) \in Nat
      BY <2>3, <2>4
    <3>2. CASE c = wconn[w]
      <4>1. /\ ~(awaiting'[c] /\ c \notin unanswered')
            /\ BusyCount(c) > 0 /\ BusyCount(c)' = BusyCount(c) - 1
        BY <2>1, <2>3, <2>4, <3>2 DEF TypeOK
      <4>2. awaiting[c] /\ c \notin unanswered /\ ~inbox[c] /\ BusyCount(c) = 1
        BY <3>1, <4>1 DEF Handled, TypeOK
      <4> QED
        BY <2>1, <4>1, <4>2 DEF Handled
    <3>3. CASE c # wconn[w]
      <4>1. /\ awaiting'[c] = awaiting[c] /\ (c \in unanswered' <=> c \in unanswered)
            /\ BusyCount(c)' = BusyCount(c)
        BY <2>1, <2>3, <3>3 DEF TypeOK
      <4> QED
        BY <2>1, <3>1, <4>1 DEF Handled
    <3> QED
      BY <3>2, <3>3
  <2>6. awaiting[wconn[w]] /\ peer[wconn[w]] # "new"
    <3>1. Handled(wconn[w]) /\ BusyCount(wconn[w]) \in Nat
      BY <2>1
    <3>2. awaiting[wconn[w]]
      BY <2>4, <3>1 DEF Handled
    <3> QED
      BY <2>1, <3>2 DEF AwaitingInv
  <2>7. AwaitingInv'
    <3>1. CASE awaiting' = awaiting /\ unanswered' = unanswered \cup {wconn[w]}
      BY <2>1, <2>6, <3>1 DEF AwaitingInv
    <3>2. CASE awaiting' = [awaiting EXCEPT ![wconn[w]] = FALSE] /\ unanswered' = unanswered
      <4>1. wconn[w] \notin unanswered
        <5>1. Handled(wconn[w]) /\ BusyCount(wconn[w]) \in Nat
          BY <2>1
        <5> QED
          BY <2>4, <5>1 DEF Handled
      <4> QED
        BY <2>1, <3>2, <4>1 DEF AwaitingInv, TypeOK
    <3> QED
      BY <2>1, <3>1, <3>2
  <2> QED
    BY <2>5, <2>7
<1>5. ASSUME NEW w \in Workers, RecvClosed(w)
      PROVE  (\A c \in Conns : Handled(c)') /\ AwaitingInv'
  <2>1. /\ UNCHANGED <<peer, awaiting, unanswered>> /\ inbox' = [inbox EXCEPT ![wconn[w]] = FALSE]
        /\ wpc[w] = "recv" /\ peer[wconn[w]] = "closed" /\ wconn[w] \in Conns
        /\ UNCHANGED wconn /\ wpc' = [wpc EXCEPT ![w] = "del"]
    BY <1>5 DEF RecvClosed, WorkerGoto, HoldInv
  <2>2. \A v \in Workers : wpc'[v] = "received" <=> wpc[v] = "received"
    BY <2>1 DEF TypeOK
  <2>3. \A c \in Conns : Busy(c)' = Busy(c)
    BY <2>1, <2>2 DEF Busy
  <2>4. \A c \in Conns : BusyCount(c)' = BusyCount(c)
    BY <2>3 DEF BusyCount
  <2>5. ASSUME NEW c \in Conns PROVE Handled(c)'
    BY <2>1, <2>4 DEF Handled, TypeOK
  <2> QED
    BY <2>1, <2>5 DEF AwaitingInv
<1>6. ASSUME Loop \/ ShutDown \/ MainStep \/ UNCHANGED vars
      PROVE  UNCHANGED <<peer, inbox, awaiting, unanswered, wpc>>
  BY <1>6 DEF Loop, RunStart, Test, WaitEvents, EndOfBatch, Accept, Insert, Add, Lookup, Submit,
     SubmitThrows, Leave, ShutDown, MainStep, StopPool, PoolJoined, CloseEpoll, LoopJoined,
     peerVars, poolVars, vars
<1>7. ASSUME NEW w \in Workers, Take(w) \/ Del(w) \/ Erase(w) \/ EndTask(w) \/ WorkerExit(w)
      PROVE  UNCHANGED <<peer, inbox, awaiting, unanswered>>
  BY <1>7 DEF Take, Del, Erase, EndTask, WorkerExit, peerVars
<1>8. CASE \E w \in Workers : RecvData(w) \/ Received(w)
  BY <1>3, <1>4, <1>8
<1> QED
  BY <1>1, <1>2, <1>5, <1>6, <1>7, <1>8 DEF Next, Worker

\* However often the loop queues a task for it, a request is received by one
\* worker, which answers it before the peer sends the next (Server.cpp,
\* HandleEvent; level-triggered polling).
THEOREM RequestHandledOnceCorrect == Spec => []RequestHandledOnce
<1> DEFINE Inv == TypeOK /\ HoldInv /\ RequestHandledOnce /\ AwaitingInv
<1>1. Init => Inv
  <2> SUFFICES ASSUME Init PROVE Inv
    OBVIOUS
  <2>1. \A c \in Conns : Busy(c) = {}
    BY DEF Init, Busy
  <2>2. \A c \in Conns : BusyCount(c) = 0
    BY <2>1, FS_EmptySet DEF BusyCount
  <2>3. RequestHandledOnce
    BY <2>2, ByConnection DEF Init, Handled
  <2> QED
    BY <2>3, InitInv DEF IInv, Init, AwaitingInv
<1>2. Inv /\ [Next]_vars => Inv'
  BY TypeStep, HandledStep
<1> QED
  BY <1>1, <1>2, PTL DEF Spec
=============================================================================
