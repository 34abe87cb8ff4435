--------------------------- MODULE ProcessProofs ---------------------------
(***************************************************************************)
(* For any number of workers, objects, connections and descriptors: the    *)
(* dispatcher's objects own its ends of the socket pairs, a worker holds   *)
(* nothing of another's, and descriptor passing keeps HandOver's promise.  *)
(***************************************************************************)
EXTENDS Process, TLAPS

\* A process that does not exist has nothing, one that serves has its end.
ProcInv ==
  /\ proc[Parent] \in {"running", "exited"}
  /\ ~Running(Parent) =>
       /\ create = Idle /\ \A o \in Objs : obj[o] = NoChild
       /\ \A n \in Fds : table[Parent][n] = None
  /\ \A k \in Kids :
       IF proc[k] \in {"forked", "running"}
         THEN m_fd[k] \in Fds /\ table[k][m_fd[k]] = Down(k)
         ELSE \A n \in Fds : table[k][n] = None

\* What CreateSubProcess knows at each of its steps.
CreateInv ==
  create # Idle =>
    /\ Running(Parent)
    /\ create.fds[1] # create.fds[2]
    /\ table[Parent][create.fds[1]] = Up(create.kid)
    /\ table[Parent][create.fds[2]] = Down(create.kid)
    /\ \A o \in Objs : obj[o].pid # create.kid
    /\ (create.step = "fork") = (proc[create.kid] = "none")

\* The pair of a worker is known to the CreateSubProcess that makes it only.
PairIsNew(k) ==
  \A p \in Procs, n \in Fds :
    table[p][n] \in {Up(k), Down(k)} =>
      p = Parent /\ create.kid = k /\ n \in {create.fds[1], create.fds[2]}

\* Nobody has an end of a pair before it is made, nor a connection before it
\* is accepted.
FreshInv ==
  /\ \A o \in Objs : obj[o].pid # None => proc[obj[o].pid] # "none"
  /\ \A k \in Kids : proc[k] = "none" =>
       queue[Up(k)] = <<>> /\ queue[Down(k)] = <<>> /\ PairIsNew(k)
  /\ \A c \in Conns \ opened : ~Held(c) /\ \A e \in Ends : c \notin Range(queue[e])

\* Only a worker that serves has clients.
NotServing == \A k \in Kids : ~Running(k) => clients[k] = {}

\* The inductive invariant, together with NotServing.
IInv ==
  /\ TypeOK /\ ProcInv /\ CreateInv /\ FreshInv
  /\ EndsAreOwned /\ WorkerHoldsItsOwn

-----------------------------------------------------------------------------
(* Ends, sequences.                                                         *)

\* The names of the ends are distinct, and Other goes back and forth.
LEMMA EndNames ==
  ASSUME NEW k \in Kids, NEW j \in Kids
  PROVE  /\ Up(k) \in Ends /\ Down(k) \in Ends /\ Up(k) # Down(j)
         /\ (Up(k) = Up(j)) = (k = j) /\ (Down(k) = Down(j)) = (k = j)
         /\ Other(Up(k)) = Down(k) /\ Other(Down(k)) = Up(k)
  BY DEF Up, Down, Ends, Other

\* The values of the constants do not mix.
LEMMA Distinct ==
  /\ None \notin Ends /\ None \notin Conns /\ None \notin Fds /\ None \notin Kids /\ None \notin Objs
  /\ Parent \notin Kids
  /\ \A c \in Conns : c \notin Ends
  /\ \A p \in Procs : p \notin Ends /\ p \notin Conns
  BY ProcessAssumption DEF Files

\* Append and Tail keep a sequence a sequence, and its elements.
LEMMA QueueFacts ==
  ASSUME NEW q \in Seq(Conns), NEW c \in Conns
  PROVE  /\ Append(q, c) \in Seq(Conns)
         /\ Range(Append(q, c)) = Range(q) \cup {c}
         /\ Range(<<>>) = {}
         /\ q # <<>> => /\ Tail(q) \in Seq(Conns) /\ Head(q) \in Conns
                        /\ Range(q) = Range(Tail(q)) \cup {Head(q)}
<1>1. Range(Append(q, c)) = Range(q) \cup {c}
  <2> DEFINE a == Append(q, c)
  <2>1. /\ Len(a) = Len(q) + 1 /\ DOMAIN a = 1 .. Len(q) + 1 /\ DOMAIN q = 1 .. Len(q)
        /\ Len(q) \in Nat /\ a[Len(q) + 1] = c
        /\ \A i \in 1 .. Len(q) : a[i] = q[i]
    OBVIOUS
  <2> HIDE DEF a
  <2>2. ASSUME NEW x \in Range(a) PROVE x \in Range(q) \cup {c}
    <3>1. PICK i \in 1 .. Len(q) + 1 : x = a[i]
      BY <2>1 DEF Range
    <3> QED
      BY <2>1, <3>1 DEF Range
  <2>3. ASSUME NEW x \in Range(q) PROVE x \in Range(a)
    <3>1. PICK i \in 1 .. Len(q) : x = q[i]
      BY <2>1 DEF Range
    <3>2. i \in DOMAIN a /\ a[i] = x
      BY <2>1, <3>1
    <3> QED
      BY <3>2 DEF Range
  <2>4. c \in Range(a)
    <3>1. Len(q) + 1 \in DOMAIN a
      BY <2>1
    <3> QED
      BY <2>1, <3>1 DEF Range
  <2>5. Range(a) = Range(q) \cup {c}
    BY <2>2, <2>3, <2>4
  <2> QED
    BY <2>5 DEF a
<1>2. ASSUME q # <<>> PROVE Range(q) = Range(Tail(q)) \cup {Head(q)}
  <2>1. \A i \in DOMAIN q : i = 1 \/ (i - 1 \in DOMAIN Tail(q) /\ Tail(q)[i - 1] = q[i])
    BY <1>2
  <2>2. \A i \in DOMAIN Tail(q) : i + 1 \in DOMAIN q /\ Tail(q)[i] = q[i + 1]
    BY <1>2
  <2>3. 1 \in DOMAIN q /\ Head(q) = q[1]
    BY <1>2
  <2>4. \A x \in Range(q) : x \in Range(Tail(q)) \cup {Head(q)}
    <3> TAKE x \in Range(q)
    <3>1. PICK i \in DOMAIN q : x = q[i]
      BY DEF Range
    <3> QED
      BY <2>1, <2>3, <3>1 DEF Range
  <2>5. \A x \in Range(Tail(q)) : x \in Range(q)
    <3> TAKE x \in Range(Tail(q))
    <3>1. PICK i \in DOMAIN Tail(q) : x = Tail(q)[i]
      BY DEF Range
    <3> QED
      BY <2>2, <3>1 DEF Range
  <2>6. Head(q) \in Range(q)
    BY <2>3 DEF Range
  <2> QED
    BY <2>4, <2>5, <2>6
<1>3. Range(<<>>) = {}
  BY DEF Range
<1> QED
  BY <1>1, <1>2, <1>3

-----------------------------------------------------------------------------
(* Types.                                                                   *)

\* The initial state is well typed.
LEMMA InitType == Init => TypeOK
<1> SUFFICES ASSUME Init PROVE TypeOK
  OBVIOUS
<1>1. obj \in [Objs -> [pid : Kids \cup {None}, fd : Fds \cup {None}]]
  BY DEF Init, NoChild
<1>2. queue \in [Ends -> Seq(Conns)]
  BY DEF Init
<1> QED
  BY <1>1, <1>2 DEF Init, TypeOK

\* SetTables yields well-typed tables and queues.
LEMMA SetTablesType ==
  ASSUME TypeOK, NEW t \in [Procs -> [Fds -> Files \cup {None}]], SetTables(t)
  PROVE  /\ table' = t /\ queue' \in [Ends -> Seq(Conns)]
         /\ \A e \in Ends : queue'[e] = queue[e] \/ queue'[e] = <<>>
  BY DEF SetTables, TypeOK

\* A process calls SendFD and RecvFD on an end of its own.
LEMMA SocketFacts ==
  ASSUME TypeOK, ProcInv, EndsAreOwned, NEW p \in Procs, Running(p), NEW s \in Sockets(p)
  PROVE  /\ s \in Fds /\ table[p][s] \in Ends
         /\ p = Parent => \E k \in Kids : table[p][s] = Up(k)
         /\ p # Parent => p \in Kids /\ table[p][s] = Down(p)
<1>1. CASE p = Parent
  <2>1. PICK o \in Objs : s = obj[o].fd /\ s # None
    BY <1>1 DEF Sockets
  <2>2. obj[o].pid \in Kids /\ table[p][s] = Up(obj[o].pid) /\ s \in Fds
    BY <1>1, <2>1 DEF EndsAreOwned, TypeOK
  <2> QED
    BY <1>1, <2>2, EndNames
<1>2. CASE p # Parent
  BY <1>2, EndNames DEF Sockets, ProcInv, Procs, Running
<1> QED
  BY <1>1, <1>2

\* Types are preserved; a process uses its own ends only.
LEMMA TypeStep == TypeOK /\ ProcInv /\ EndsAreOwned /\ [Next]_vars => TypeOK'
<1> SUFFICES ASSUME TypeOK, ProcInv, EndsAreOwned, [Next]_vars PROVE TypeOK'
  OBVIOUS
<1> USE DEF kernelVars, objVars, workerVars
<1>0. Parent \in Procs /\ Kids \subseteq Procs /\ NoChild \in [pid : Kids \cup {None}, fd : Fds \cup {None}]
      /\ \A k \in Kids : Up(k) \in Files /\ Down(k) \in Files
  BY EndNames DEF Procs, NoChild, Files
<1>1. ASSUME NEW p \in Procs, Terminate(p) PROVE TypeOK'
  <2>1. /\ table' \in [Procs -> [Fds -> Files \cup {None}]]
        /\ queue' \in [Ends -> Seq(Conns)]
    <3>1. [table EXCEPT ![p] = [n \in Fds |-> None]] \in [Procs -> [Fds -> Files \cup {None}]]
      BY DEF TypeOK
    <3> QED
      BY <1>1, <3>1, SetTablesType DEF Terminate
  <2>2. /\ proc' \in [Procs -> {"none", "forked", "running", "exited"}]
        /\ opened' \subseteq Conns
    BY <1>1 DEF Terminate, TypeOK
  <2>3. CASE p = Parent
    BY <1>0, <1>1, <2>1, <2>2, <2>3 DEF Terminate, TypeOK
  <2>4. CASE p # Parent
    <3>1. p \in Kids
      BY <2>4 DEF Procs
    <3> QED
      BY <1>1, <2>1, <2>2, <2>4, <3>1 DEF Terminate, TypeOK
  <2> QED
    BY <2>3, <2>4
<1>2. ASSUME NEW p \in Procs, NEW n \in Fds, Close(p, n)
      PROVE  table' \in [Procs -> [Fds -> Files \cup {None}]] /\ queue' \in [Ends -> Seq(Conns)]
  <2>1. [table EXCEPT ![p][n] = None] \in [Procs -> [Fds -> Files \cup {None}]]
    BY DEF TypeOK
  <2> QED
    BY <1>2, <2>1, SetTablesType DEF Close
<1>3. CASE Dispatcher
  <2>1. ASSUME NEW o \in Objs, Destroy(o) PROVE TypeOK'
    BY <1>0, <1>2, <2>1 DEF Destroy, TypeOK
  <2>2. ASSUME NEW o \in Objs, NEW k \in Kids, SocketPair(o, k) PROVE TypeOK'
    BY <1>0, <2>2 DEF SocketPair, TypeOK
  <2>3. ASSUME NEW o \in Objs, NEW d \in Objs, Move(o, d) PROVE TypeOK'
    <3>1. table' \in [Procs -> [Fds -> Files \cup {None}]] /\ queue' \in [Ends -> Seq(Conns)]
      BY <1>0, <1>2, <2>3 DEF Move, TypeOK
    <3> QED
      BY <1>0, <2>3, <3>1 DEF Move, TypeOK
  <2>4. CASE Fork
    <3>1. /\ create \in [step : {"fork", "adopt"}, obj : Objs, kid : Kids, fds : Fds \X Fds]
          /\ create.kid \in Kids /\ create.fds[2] \in Fds
      BY <2>4 DEF Fork, TypeOK, Idle
    <3>2. create' \in [step : {"fork", "adopt"}, obj : Objs, kid : Kids, fds : Fds \X Fds]
      BY <2>4, <3>1 DEF Fork
    <3> QED
      BY <1>0, <2>4, <3>1, <3>2 DEF Fork, TypeOK
  <2>5. CASE ForkFails
    <3>1. create.fds[1] \in Fds /\ create.fds[2] \in Fds
      BY <2>5 DEF ForkFails, TypeOK, Idle
    <3>2. [table EXCEPT ![Parent] = [@ EXCEPT ![create.fds[1]] = None, ![create.fds[2]] = None]]
            \in [Procs -> [Fds -> Files \cup {None}]]
      BY <1>0, <3>1 DEF TypeOK
    <3>3. table' \in [Procs -> [Fds -> Files \cup {None}]] /\ queue' \in [Ends -> Seq(Conns)]
      BY <2>5, <3>2, SetTablesType DEF ForkFails
    <3> QED
      BY <2>5, <3>3 DEF ForkFails, TypeOK
  <2>6. CASE Adopt
    <3>1. create.fds \in Fds \X Fds /\ create.kid \in Kids /\ create.obj \in Objs
      BY <2>6 DEF Adopt, TypeOK, Idle
    <3>2. table' \in [Procs -> [Fds -> Files \cup {None}]] /\ queue' \in [Ends -> Seq(Conns)]
      BY <1>0, <1>2, <2>6, <3>1 DEF Adopt
    <3>3. obj' \in [Objs -> [pid : Kids \cup {None}, fd : Fds \cup {None}]]
      BY <2>6, <3>1 DEF Adopt, TypeOK
    <3>4. leaked' \subseteq Ends
      BY <2>6, <3>1, EndNames DEF Adopt, EndsAreOwned, TypeOK
    <3> QED
      BY <2>6, <3>2, <3>3, <3>4 DEF Adopt, TypeOK
  <2>7. ASSUME NEW c \in Conns, Accept(c) PROVE TypeOK'
    BY <1>0, <2>7 DEF Accept, TypeOK, Files
  <2>8. ASSUME NEW n \in Fds, CloseConn(n) PROVE TypeOK'
    BY <1>0, <1>2, <2>8 DEF CloseConn, TypeOK
  <2> QED
    BY <1>3, <2>1, <2>2, <2>3, <2>4, <2>5, <2>6, <2>7, <2>8 DEF Dispatcher
<1>4. ASSUME NEW k \in Kids, Start(k) PROVE TypeOK'
  <2> DEFINE closed(n) == n \in Inherited(k) \/ table[k][n] = Up(k)
             t == [table EXCEPT ![k] = [n \in Fds |-> IF closed(n) THEN None ELSE @[n]]]
  <2>1. t \in [Procs -> [Fds -> Files \cup {None}]]
    BY <1>0 DEF TypeOK
  <2>2. SetTables(t)
    BY <1>4 DEF Start
  <2>3. table' \in [Procs -> [Fds -> Files \cup {None}]] /\ queue' \in [Ends -> Seq(Conns)]
    BY <2>1, <2>2, SetTablesType
  <2> QED
    BY <1>0, <1>4, <2>3 DEF Start, TypeOK
<1>5. ASSUME NEW k \in Kids, NEW n \in Fds, DropClient(k, n) PROVE TypeOK'
  BY <1>0, <1>2, <1>5 DEF DropClient, TypeOK
<1>6. ASSUME NEW p \in Procs, SendFD(p) PROVE TypeOK'
  <2>1. PICK s \in Sockets(p), n \in Fds :
          /\ table[p][n] \in Conns
          /\ queue' = [queue EXCEPT ![Other(table[p][s])] = Append(@, table[p][n])]
    BY <1>6 DEF SendFD
  <2>2. Other(table[p][s]) \in Ends
    BY <1>6, SocketFacts, EndNames DEF SendFD
  <2>3. queue' \in [Ends -> Seq(Conns)]
    BY <2>1, <2>2 DEF TypeOK
  <2> QED
    BY <1>6, <2>3 DEF SendFD, TypeOK
<1>7. ASSUME NEW p \in Procs, RecvFD(p) PROVE TypeOK'
  <2>1. PICK s \in Sockets(p) : Receive(p, s) \/ ReceiveTruncated(p, s) \/ ReceiveNothing(p, s)
    BY <1>7 DEF RecvFD
  <2> DEFINE e == table[p][s]
  <2>2. e \in Ends /\ s \in Fds
    BY <2>1, SocketFacts DEF Receive, ReceiveTruncated, ReceiveNothing
  <2>3. queue[e] \in Seq(Conns) /\ (queue[e] # <<>> => Head(queue[e]) \in Conns /\ Tail(queue[e]) \in Seq(Conns))
    BY <2>2 DEF TypeOK
  <2>4. p # Parent => p \in Kids
    BY DEF Procs
  <2>5. CASE Receive(p, s)
    BY <2>2, <2>3, <2>4, <2>5 DEF Receive, Connected, TypeOK, Files
  <2>6. CASE ReceiveTruncated(p, s)
    BY <2>2, <2>3, <2>6 DEF ReceiveTruncated, TypeOK
  <2>7. CASE ReceiveNothing(p, s)
    BY <2>4, <2>7 DEF ReceiveNothing, TypeOK
  <2> QED
    BY <2>1, <2>5, <2>6, <2>7
<1>8. CASE UNCHANGED vars
  BY <1>8 DEF vars, TypeOK
<1> QED
  BY <1>0, <1>1, <1>3, <1>4, <1>5, <1>6, <1>7, <1>8 DEF Next, Worker, SendFDKills, Exit

-----------------------------------------------------------------------------
(* The inductive invariant.                                                 *)

\* There is nothing before the first step.
LEMMA InitInv == Init => IInv
<1> SUFFICES ASSUME Init PROVE IInv
  OBVIOUS
<1>0. Parent \in Procs /\ Kids \subseteq Procs /\ Parent \notin Kids
  BY Distinct DEF Procs
<1>1. ProcInv /\ CreateInv /\ WorkerHoldsItsOwn
  BY <1>0 DEF Init, ProcInv, CreateInv, WorkerHoldsItsOwn, Running
<1>2. EndsAreOwned
  BY <1>0, Distinct DEF Init, EndsAreOwned, NoChild
<1>3. \A f \in Files : ~Held(f)
  BY Distinct DEF Init, Held, Has, Files
<1>4. \A e \in Ends : queue[e] = <<>> /\ Range(queue[e]) = {}
  BY DEF Init, Range
<1>5. FreshInv
  <2>1. \A k \in Kids : PairIsNew(k)
    BY <1>3, EndNames DEF PairIsNew, Held, Has, Files
  <2> QED
    BY <1>3, <1>4, <2>1, EndNames DEF Init, FreshInv, NoChild, Files
<1> QED
  BY <1>1, <1>2, <1>5, InitType DEF IInv

\* What is fresh stays fresh when descriptors are closed and nothing else
\* happens to processes, connections and objects.
LEMMA CloseKeepsFresh ==
  ASSUME TypeOK, TypeOK', FreshInv,
         \A e \in Ends : queue'[e] = queue[e] \/ queue'[e] = <<>>,
         \A p \in Procs, n \in Fds : table'[p][n] = table[p][n] \/ table'[p][n] = None,
         opened' = opened,
         \A o \in Objs : obj'[o].pid # None => proc'[obj'[o].pid] # "none",
         \A k \in Kids : proc'[k] = "none" => proc[k] = "none" /\ PairIsNew(k)'
  PROVE  FreshInv'
<1>1. \A f \in Files : Held(f)' => Held(f)
  BY Distinct DEF Held, Has, Files
<1>2. Range(<<>>) = {}
  BY DEF Range
<1>3. ASSUME NEW k \in Kids, proc'[k] = "none"
      PROVE  queue'[Up(k)] = <<>> /\ queue'[Down(k)] = <<>> /\ PairIsNew(k)'
  BY <1>3, EndNames DEF FreshInv
<1>4. ASSUME NEW c \in Conns \ opened' PROVE ~Held(c)' /\ \A e \in Ends : c \notin Range(queue'[e])
  BY <1>1, <1>2, <1>4 DEF FreshInv, Files
<1> QED
  BY <1>3, <1>4 DEF FreshInv

\* A step that changes nothing but which connections are open where.
ConnsOnly ==
  /\ UNCHANGED <<proc, obj, create, m_fd, leaked>>
  /\ \A p \in Procs, n \in Fds :
       table'[p][n] # table[p][n] =>
         Running(p) /\ table[p][n] \notin Ends /\ table'[p][n] \in Conns \cup {None}

\* Such a step does not touch the ends and their owners.
LEMMA ConnsOnlyKeeps ==
  ASSUME IInv, ConnsOnly
  PROVE  /\ ProcInv' /\ CreateInv' /\ EndsAreOwned'
         /\ \A k \in Kids : PairIsNew(k)' = PairIsNew(k)
         /\ \A k \in Kids : Running(k)' =>
              \A n \in Fds : table'[k][n] \in Ends => n = m_fd'[k] /\ table'[k][n] = Down(k)
<1> USE Distinct DEF IInv, ConnsOnly
<1>0. Parent \in Procs /\ Kids \subseteq Procs
  BY DEF Procs
<1>1. \A p \in Procs, n \in Fds, e \in Ends : (table'[p][n] = e) = (table[p][n] = e)
  OBVIOUS
<1>2. ProcInv'
  <2>1. \A p \in Procs : ~Running(p) => \A n \in Fds : table'[p][n] = table[p][n]
    OBVIOUS
  <2>2. \A k \in Kids : proc[k] \in {"forked", "running"} => table'[k][m_fd[k]] = Down(k)
    BY <1>0, <1>1, EndNames DEF ProcInv
  <2> QED
    BY <1>0, <2>1, <2>2 DEF ProcInv, Running
<1>3. CreateInv'
  <2>1. create # Idle => create.kid \in Kids /\ create.fds \in Fds \X Fds
    BY DEF TypeOK, Idle
  <2>2. create # Idle => table'[Parent][create.fds[1]] = Up(create.kid)
                         /\ table'[Parent][create.fds[2]] = Down(create.kid)
    BY <1>0, <1>1, <2>1, EndNames DEF CreateInv
  <2> QED
    BY <2>2 DEF CreateInv, Running
<1>4. EndsAreOwned'
  <2>1. \A o \in Objs : obj[o].fd # None => obj[o].fd \in Fds /\ obj[o].pid \in Kids
    BY DEF EndsAreOwned, TypeOK
  <2>2. \A o \in Objs : obj[o].fd # None => table'[Parent][obj[o].fd] = Up(obj[o].pid)
    BY <1>0, <1>1, <2>1, EndNames DEF EndsAreOwned
  <2> QED
    BY <1>0, <1>1, <2>2 DEF EndsAreOwned
<1>5. \A k \in Kids : PairIsNew(k)' = PairIsNew(k)
  BY <1>1, EndNames DEF PairIsNew
<1>6. \A k \in Kids : Running(k)' =>
        \A n \in Fds : table'[k][n] \in Ends => n = m_fd'[k] /\ table'[k][n] = Down(k)
  BY <1>0, <1>1 DEF WorkerHoldsItsOwn, Running
<1> QED
  BY <1>2, <1>3, <1>4, <1>5, <1>6

\* SendFD queues a connection that its sender has open.
LEMMA SendFDInv == ASSUME IInv, NEW p \in Procs, SendFD(p) PROVE IInv'
<1> USE Distinct
<1>1. PICK s \in Sockets(p), n \in Fds :
        /\ table[p][n] \in Conns /\ Held(Other(table[p][s]))
        /\ queue' = [queue EXCEPT ![Other(table[p][s])] = Append(@, table[p][n])]
  BY DEF SendFD
<1> DEFINE to == Other(table[p][s])
           c == table[p][n]
<1>2. to \in Ends /\ c \in opened /\ c \in Conns
  <2>1. to \in Ends
    BY SocketFacts, EndNames DEF SendFD, IInv
  <2>2. Held(c)
    BY <1>1 DEF Held, Has
  <2> QED
    BY <1>1, <2>1, <2>2 DEF IInv, FreshInv
<1>3. TypeOK'
  BY TypeStep DEF IInv, Next
<1>4. ConnsOnly
  BY DEF SendFD, ConnsOnly, objVars, workerVars
<1>5. \A e \in Ends : e # to => queue'[e] = queue[e]
  BY <1>1 DEF IInv, TypeOK
<1>6. queue'[to] = Append(queue[to], c) /\ Range(queue'[to]) = Range(queue[to]) \cup {c}
  BY <1>1, <1>2, QueueFacts DEF IInv, TypeOK
<1>7. FreshInv'
  <2>1. ASSUME NEW k \in Kids, proc[k] = "none" PROVE queue'[Up(k)] = <<>> /\ queue'[Down(k)] = <<>>
    <3>1. to # Up(k) /\ to # Down(k)
      <4>1. PICK j \in Kids : (table[p][s] = Up(j) \/ table[p][s] = Down(j)) /\ proc[j] # "none"
        <5>1. CASE p = Parent
          <6>1. PICK o \in Objs : s = obj[o].fd /\ s # None
            BY <5>1 DEF Sockets
          <6>2. obj[o].pid \in Kids /\ table[p][s] = Up(obj[o].pid) /\ proc[obj[o].pid] # "none"
            BY <5>1, <6>1 DEF IInv, EndsAreOwned, TypeOK, FreshInv
          <6> QED
            BY <6>2
        <5>2. CASE p # Parent
          <6>1. p \in Kids /\ table[p][s] = Down(p) /\ proc[p] = "running"
            BY <5>2, SocketFacts DEF SendFD, Running, IInv
          <6> QED
            BY <6>1
        <5> QED
          BY <5>1, <5>2
      <4> QED
        BY <2>1, <4>1, EndNames
    <3> QED
      BY <1>5, <2>1, <3>1, EndNames DEF IInv, FreshInv
  <2>2. \A d \in Conns \ opened : \A e \in Ends : d \notin Range(queue'[e])
    BY <1>2, <1>5, <1>6 DEF IInv, FreshInv
  <2>3. /\ UNCHANGED <<table, obj, create, proc, opened>>
        /\ \A f \in Files : Held(f)' = Held(f)
        /\ \A k \in Kids : PairIsNew(k)' = PairIsNew(k)
    BY DEF SendFD, objVars, Held, Has, PairIsNew
  <2> QED
    BY <2>1, <2>2, <2>3, EndNames DEF IInv, FreshInv, Files
<1>8. WorkerHoldsItsOwn'
  BY DEF SendFD, objVars, workerVars, IInv, WorkerHoldsItsOwn, Running
<1> QED
  BY <1>3, <1>4, <1>7, <1>8, ConnsOnlyKeeps DEF IInv

\* RecvFD installs a connection under a free number, or nothing.
LEMMA RecvFDInv == ASSUME IInv, NEW p \in Procs, RecvFD(p) PROVE IInv'
<1> USE Distinct
<1>1. PICK s \in Sockets(p) : Receive(p, s) \/ ReceiveTruncated(p, s) \/ ReceiveNothing(p, s)
  BY DEF RecvFD
<1> DEFINE e == table[p][s]
<1>2. e \in Ends /\ s \in Fds /\ Running(p)
  BY <1>1, SocketFacts DEF Receive, ReceiveTruncated, ReceiveNothing, IInv
<1>3. TypeOK'
  BY TypeStep DEF IInv, Next
<1>4. queue[e] \in Seq(Conns)
  BY <1>2 DEF IInv, TypeOK
<1>5. ASSUME queue[e] # <<>>, queue' = [queue EXCEPT ![e] = Tail(@)], UNCHANGED <<obj, create, proc, opened>>,
             ConnsOnly, \A f \in Files : Held(f)' => Held(f) \/ f = Head(queue[e])
      PROVE  FreshInv'
  <2>1. Head(queue[e]) \in Conns /\ Range(queue[e]) = Range(Tail(queue[e])) \cup {Head(queue[e])}
    BY <1>4, <1>5, QueueFacts
  <2>2. Head(queue[e]) \in opened
    BY <1>2, <2>1 DEF IInv, FreshInv
  <2>3. \A d \in Ends : Range(queue'[d]) \subseteq Range(queue[d])
    BY <1>2, <1>5, <2>1 DEF IInv, TypeOK
  <2>4. \A k \in Kids : proc[k] = "none" => queue'[Up(k)] = <<>> /\ queue'[Down(k)] = <<>>
    BY <1>2, <1>5, EndNames DEF IInv, FreshInv, TypeOK
  <2> QED
    BY <1>5, <2>1, <2>2, <2>3, <2>4, ConnsOnlyKeeps DEF IInv, FreshInv, Files
<1>6. CASE Receive(p, s)
  <2>1. PICK n \in Fds : /\ table[p][n] = None
                        /\ table' = [table EXCEPT ![p][n] = Head(queue[e])]
                        /\ Connected(p, n)
    BY <1>6 DEF Receive, Lowest, Free
  <2>2. Head(queue[e]) \in Conns
    BY <1>4, <1>6, QueueFacts DEF Receive
  <2>3. \A q \in Procs, m \in Fds :
          table'[q][m] = IF q = p /\ m = n THEN Head(queue[e]) ELSE table[q][m]
    BY <2>1 DEF IInv, TypeOK
  <2>4. ConnsOnly
    BY <1>2, <1>6, <2>1, <2>2, <2>3 DEF Receive, ConnsOnly, objVars
  <2>5. FreshInv'
    <3>1. \A f \in Files : Held(f)' => Held(f) \/ f = Head(queue[e])
      BY <2>3 DEF Held, Has
    <3> QED
      BY <1>5, <1>6, <2>4, <3>1 DEF Receive, objVars
  <2>6. WorkerHoldsItsOwn'
    <3>1. ASSUME NEW k \in Kids, Running(k)' PROVE \A m \in Fds : table'[k][m] \in Conns <=> m \in clients'[k]
      <4>1. Running(k) /\ k \in Procs
        BY <1>6, <3>1 DEF Receive, Running, Procs
      <4>2. \A m \in Fds : table[k][m] \in Conns <=> m \in clients[k]
        BY <4>1 DEF IInv, WorkerHoldsItsOwn, TypeOK
      <4>3. clients'[k] = IF k = p THEN clients[k] \cup {n} ELSE clients[k]
        BY <2>1, Distinct DEF Connected, IInv, TypeOK
      <4>4. CASE k = p
        BY <2>2, <2>3, <4>1, <4>2, <4>3, <4>4
      <4>5. CASE k # p
        BY <2>3, <4>1, <4>2, <4>3, <4>5
      <4> QED
        BY <4>4, <4>5
    <3> QED
      BY <2>4, <3>1, ConnsOnlyKeeps DEF WorkerHoldsItsOwn
  <2> QED
    BY <1>3, <2>4, <2>5, <2>6, ConnsOnlyKeeps DEF IInv
<1>7. CASE ReceiveTruncated(p, s)
  <2>1. ConnsOnly
    BY <1>7 DEF ReceiveTruncated, ConnsOnly, objVars, workerVars
  <2>2. FreshInv'
    <3>1. \A f \in Files : Held(f)' => Held(f)
      BY <1>7 DEF ReceiveTruncated, Held, Has
    <3> QED
      BY <1>5, <1>7, <2>1, <3>1 DEF ReceiveTruncated, objVars
  <2>3. WorkerHoldsItsOwn'
    BY <1>7 DEF ReceiveTruncated, objVars, workerVars, IInv, WorkerHoldsItsOwn, Running
  <2> QED
    BY <1>3, <2>1, <2>2, <2>3, ConnsOnlyKeeps DEF IInv
<1>8. CASE ReceiveNothing(p, s)
  BY <1>3, <1>8 DEF ReceiveNothing, kernelVars, objVars, workerVars, IInv, ProcInv, CreateInv, FreshInv,
       EndsAreOwned, WorkerHoldsItsOwn, Running, Held, Has, PairIsNew
<1> QED
  BY <1>1, <1>6, <1>7, <1>8

\* A descriptor closed by Close is gone, the others are as they were.
LEMMA CloseFacts ==
  ASSUME TypeOK, NEW p \in Procs, NEW n \in Fds, Close(p, n)
  PROVE  /\ \A e \in Ends : queue'[e] = queue[e] \/ queue'[e] = <<>>
         /\ \A q \in Procs, m \in Fds :
              table'[q][m] = IF q = p /\ m = n THEN None ELSE table[q][m]
<1> DEFINE t == [table EXCEPT ![p][n] = None]
<1>1. t \in [Procs -> [Fds -> Files \cup {None}]]
  BY DEF TypeOK
<1>2. SetTables(t)
  BY DEF Close
<1>3. table' = t
  BY <1>2 DEF SetTables
<1>4. \A q \in Procs, m \in Fds : t[q][m] = IF q = p /\ m = n THEN None ELSE table[q][m]
  BY DEF TypeOK
<1> QED
  BY <1>1, <1>2, <1>3, <1>4, SetTablesType

\* Connections are accepted under a free number, and closed.
LEMMA ConnInv ==
  ASSUME IInv,
         \/ \E c \in Conns : Accept(c)
         \/ \E n \in Fds : CloseConn(n)
         \/ \E k \in Kids, n \in Fds : DropClient(k, n)
  PROVE  IInv'
<1> USE Distinct
<1>0. Parent \in Procs /\ Kids \subseteq Procs
  BY DEF Procs
<1>1. TypeOK'
  BY TypeStep DEF IInv, Next, Dispatcher, Worker
<1>2. ASSUME NEW c \in Conns, Accept(c) PROVE IInv'
  <2>1. PICK n \in Fds : table[Parent][n] = None /\ table' = [table EXCEPT ![Parent][n] = c]
    BY <1>2 DEF Accept, Lowest, Free
  <2>2. \A q \in Procs, m \in Fds : table'[q][m] = IF q = Parent /\ m = n THEN c ELSE table[q][m]
    BY <2>1 DEF IInv, TypeOK
  <2>3. ConnsOnly
    BY <1>2, <2>1, <2>2 DEF Accept, ConnsOnly, objVars, workerVars
  <2>4. FreshInv'
    <3>1. \A f \in Files : Held(f)' => Held(f) \/ f = c
      BY <2>2 DEF Held, Has
    <3> QED
      BY <1>2, <2>3, <3>1, ConnsOnlyKeeps DEF Accept, objVars, IInv, FreshInv, Files
  <2>5. WorkerHoldsItsOwn'
    <3>1. \A k \in Kids : \A m \in Fds : table'[k][m] = table[k][m]
      BY <1>0, <2>2
    <3> QED
      BY <1>2, <3>1 DEF Accept, workerVars, IInv, WorkerHoldsItsOwn, Running, TypeOK
  <2> QED
    BY <1>1, <2>3, <2>4, <2>5, ConnsOnlyKeeps DEF IInv
<1>3. ASSUME NEW n \in Fds, CloseConn(n) PROVE IInv'
  <2>0. TypeOK /\ FreshInv /\ Close(Parent, n)
    BY <1>3 DEF CloseConn, IInv
  <2>1. \A q \in Procs, m \in Fds : table'[q][m] = IF q = Parent /\ m = n THEN None ELSE table[q][m]
    BY <1>0, <2>0, CloseFacts
  <2>2. ConnsOnly
    BY <1>3, <2>1 DEF CloseConn, ConnsOnly, objVars, workerVars
  <2>3. FreshInv'
    <3>1. \A e \in Ends : queue'[e] = queue[e] \/ queue'[e] = <<>>
      BY <1>0, <2>0, CloseFacts
    <3>2. UNCHANGED <<proc, obj, create, opened>>
      BY <1>3 DEF CloseConn, objVars
    <3> QED
      BY <1>1, <2>0, <2>1, <2>2, <3>1, <3>2, CloseKeepsFresh, ConnsOnlyKeeps DEF FreshInv
  <2>4. WorkerHoldsItsOwn'
    <3>1. \A k \in Kids : \A m \in Fds : table'[k][m] = table[k][m]
      BY <1>0, <2>1
    <3> QED
      BY <1>3, <3>1 DEF CloseConn, workerVars, objVars, IInv, WorkerHoldsItsOwn, Running, TypeOK
  <2> QED
    BY <1>1, <2>2, <2>3, <2>4, ConnsOnlyKeeps DEF IInv
<1>4. ASSUME NEW k \in Kids, NEW n \in Fds, DropClient(k, n) PROVE IInv'
  <2>0. TypeOK /\ FreshInv /\ Close(k, n) /\ k \in Procs
    BY <1>0, <1>4 DEF DropClient, IInv
  <2>1. \A q \in Procs, m \in Fds : table'[q][m] = IF q = k /\ m = n THEN None ELSE table[q][m]
    BY <2>0, CloseFacts
  <2>2. table[k][n] \in Conns
    BY <1>4 DEF DropClient, IInv, WorkerHoldsItsOwn
  <2>3. ConnsOnly
    BY <1>4, <2>1, <2>2 DEF DropClient, ConnsOnly, objVars
  <2>4. FreshInv'
    <3>1. \A e \in Ends : queue'[e] = queue[e] \/ queue'[e] = <<>>
      BY <2>0, CloseFacts
    <3>2. UNCHANGED <<proc, obj, create, opened>>
      BY <1>4 DEF DropClient, objVars
    <3> QED
      BY <1>1, <2>0, <2>1, <2>3, <3>1, <3>2, CloseKeepsFresh, ConnsOnlyKeeps DEF FreshInv
  <2>5. WorkerHoldsItsOwn'
    <3>1. ASSUME NEW j \in Kids, Running(j)' PROVE \A m \in Fds : table'[j][m] \in Conns <=> m \in clients'[j]
      <4>1. Running(j) /\ j \in Procs
        BY <1>0, <1>4, <3>1 DEF DropClient, Running
      <4>2. \A m \in Fds : table[j][m] \in Conns <=> m \in clients[j]
        BY <4>1 DEF IInv, WorkerHoldsItsOwn, TypeOK
      <4>3. clients'[j] = IF j = k THEN clients[j] \ {n} ELSE clients[j]
        BY <1>4 DEF DropClient, IInv, TypeOK
      <4> QED
        BY <2>1, <4>1, <4>2, <4>3
    <3> QED
      BY <2>3, <3>1, ConnsOnlyKeeps DEF WorkerHoldsItsOwn
  <2> QED
    BY <1>1, <2>3, <2>4, <2>5, ConnsOnlyKeeps DEF IInv
<1> QED
  BY <1>2, <1>3, <1>4

\* The end of a process leaves nothing of it behind.
LEMMA TerminateInv ==
  ASSUME IInv, NEW p \in Procs, proc[p] \in {"forked", "running"}, Terminate(p), TypeOK'
  PROVE  IInv'
<1> USE Distinct
<1>0. Parent \in Procs /\ Kids \subseteq Procs /\ (p # Parent => p \in Kids)
  BY DEF Procs
<1> DEFINE t == [table EXCEPT ![p] = [n \in Fds |-> None]]
<1>1. /\ t \in [Procs -> [Fds -> Files \cup {None}]] /\ SetTables(t) /\ table' = t
      /\ \A q \in Procs, n \in Fds : table'[q][n] = IF q = p THEN None ELSE table[q][n]
  BY DEF Terminate, SetTables, IInv, TypeOK
<1>2. /\ \A q \in Procs : proc'[q] = IF q = p THEN "exited" ELSE proc[q]
      /\ \A k \in Kids : k # p => m_fd'[k] = m_fd[k] /\ clients'[k] = clients[k]
      /\ p # Parent => UNCHANGED <<obj, create, leaked>>
      /\ p = Parent => create' = Idle /\ \A o \in Objs : obj'[o] = NoChild
  BY <1>0 DEF Terminate, objVars, workerVars, IInv, TypeOK
<1>3. ProcInv'
  <2>1. \A k \in Kids :
          IF proc'[k] \in {"forked", "running"}
            THEN m_fd'[k] \in Fds /\ table'[k][m_fd'[k]] = Down(k)
            ELSE \A n \in Fds : table'[k][n] = None
    BY <1>0, <1>1, <1>2 DEF IInv, ProcInv
  <2>2. CASE p = Parent
    BY <1>1, <1>2, <2>1, <2>2 DEF ProcInv, Running
  <2>3. CASE p # Parent
    BY <1>0, <1>1, <1>2, <2>1, <2>3 DEF IInv, ProcInv, Running
  <2> QED
    BY <2>2, <2>3
<1>4. CreateInv'
  <2>1. CASE p = Parent
    BY <1>2, <2>1 DEF CreateInv
  <2>2. CASE p # Parent
    <3>1. create # Idle => create.kid \in Kids /\ create.fds \in Fds \X Fds
      BY DEF IInv, TypeOK, Idle
    <3> QED
      BY <1>0, <1>1, <1>2, <2>2, <3>1 DEF IInv, CreateInv, Running
  <2> QED
    BY <2>1, <2>2
<1>5. FreshInv'
  <2>1. \A o \in Objs : obj'[o].pid # None => proc'[obj'[o].pid] # "none"
    <3>1. CASE p = Parent
      BY <1>2, <3>1 DEF NoChild
    <3>2. CASE p # Parent
      BY <1>0, <1>2, <3>2 DEF IInv, TypeOK, FreshInv
    <3> QED
      BY <3>1, <3>2
  <2>2. ASSUME NEW k \in Kids, proc'[k] = "none" PROVE proc[k] = "none" /\ PairIsNew(k)'
    <3>1. proc[k] = "none" /\ PairIsNew(k)
      BY <1>0, <1>2, <2>2 DEF IInv, FreshInv
    <3>2. \A q \in Procs, n \in Fds : table'[q][n] \in {Up(k), Down(k)} => q # p /\ table'[q][n] = table[q][n]
      BY <1>1, EndNames
    <3> QED
      BY <1>2, <3>1, <3>2 DEF PairIsNew
  <2>3. opened' = opened
    BY DEF Terminate
  <2>4. \A q \in Procs, n \in Fds : table'[q][n] = table[q][n] \/ table'[q][n] = None
    BY <1>1
  <2>5. \A e \in Ends : queue'[e] = queue[e] \/ queue'[e] = <<>>
    <3> HIDE DEF t
    <3> QED
      BY <1>1, SetTablesType DEF IInv
  <2> QED
    BY <2>1, <2>2, <2>3, <2>4, <2>5, CloseKeepsFresh DEF IInv
<1>6. EndsAreOwned'
  <2>1. CASE p = Parent
    BY <1>0, <1>1, <1>2, <2>1 DEF EndsAreOwned, NoChild
  <2>2. CASE p # Parent
    <3>1. \A n \in Fds : table'[Parent][n] = table[Parent][n]
      BY <1>0, <1>1, <2>2
    <3>2. \A o \in Objs : obj[o].fd # None => obj[o].fd \in Fds
      BY DEF IInv, TypeOK
    <3> QED
      BY <1>2, <2>2, <3>1, <3>2 DEF IInv, EndsAreOwned
  <2> QED
    BY <2>1, <2>2
<1>7. WorkerHoldsItsOwn'
  <2>1. \A k \in Kids : Running(k)' => k # p /\ Running(k)
    BY <1>0, <1>2 DEF Running
  <2>2. \A k \in Kids : clients[k] \subseteq Fds
    BY DEF IInv, TypeOK
  <2> QED
    BY <1>0, <1>1, <1>2, <2>1, <2>2 DEF IInv, WorkerHoldsItsOwn
<1> QED
  BY <1>3, <1>4, <1>5, <1>6, <1>7 DEF IInv

\* A destructor and a move close what the object owned, and nobody else did.
LEMMA ObjectInv ==
  ASSUME IInv, TypeOK',
         \/ \E o \in Objs : Destroy(o)
         \/ \E from \in Objs, to \in Objs : Move(from, to)
  PROVE  IInv'
<1> USE Distinct
<1>0. Parent \in Procs /\ Kids \subseteq Procs
  BY DEF Procs
<1>1. ASSUME NEW o \in Objs, obj[o].fd # None
      PROVE  /\ Running(Parent) /\ obj[o].fd \in Fds /\ obj[o].pid \in Kids
             /\ table[Parent][obj[o].fd] = Up(obj[o].pid)
             /\ create # Idle => obj[o].fd # create.fds[1] /\ obj[o].fd # create.fds[2]
  <2>1. obj[o].fd \in Fds /\ obj[o].pid \in Kids /\ table[Parent][obj[o].fd] = Up(obj[o].pid)
    BY <1>1 DEF IInv, TypeOK, EndsAreOwned
  <2>2. Running(Parent)
    BY <1>1 DEF IInv, ProcInv, NoChild
  <2>3. create # Idle => create.kid \in Kids
    BY DEF IInv, TypeOK, Idle
  <2> QED
    BY <2>1, <2>2, <2>3, EndNames DEF IInv, CreateInv
<1>2. ASSUME NEW n \in Fds \cup {None},
             UNCHANGED <<proc, create, leaked, m_fd, clients, opened>>,
             \E o \in Objs : obj[o].fd = n,
             \A q \in Procs, m \in Fds : table'[q][m] = IF q = Parent /\ m = n THEN None ELSE table[q][m],
             \A e \in Ends : queue'[e] = queue[e] \/ queue'[e] = <<>>,
             \A o \in Objs : obj'[o] = NoChild \/ \E d \in Objs : obj'[o] = obj[d]
      PROVE  ProcInv' /\ CreateInv' /\ FreshInv' /\ WorkerHoldsItsOwn'
  <2>1. n # None => Running(Parent) /\ (create # Idle => n # create.fds[1] /\ n # create.fds[2])
    BY <1>1, <1>2
  <2>2. \A k \in Kids : \A m \in Fds : table'[k][m] = table[k][m]
    BY <1>0, <1>2
  <2>3. ProcInv'
    BY <1>0, <1>2, <2>1, <2>2 DEF IInv, ProcInv, Running, NoChild
  <2>4. CreateInv'
    <3>1. create # Idle => create.kid \in Kids /\ create.fds \in Fds \X Fds
      BY DEF IInv, TypeOK, Idle
    <3> QED
      BY <1>0, <1>2, <2>1, <3>1 DEF IInv, CreateInv, Running, NoChild
  <2>5. FreshInv'
    <3>1. \A k \in Kids : proc'[k] = "none" => proc[k] = "none" /\ PairIsNew(k)'
      BY <1>2, EndNames DEF IInv, FreshInv, PairIsNew
    <3>2. \A o \in Objs : obj'[o].pid # None => proc'[obj'[o].pid] # "none"
      BY <1>2 DEF IInv, FreshInv, NoChild
    <3>3. \A q \in Procs, m \in Fds : table'[q][m] = table[q][m] \/ table'[q][m] = None
      BY <1>2
    <3> QED
      BY <1>2, <3>1, <3>2, <3>3, CloseKeepsFresh DEF IInv
  <2>6. WorkerHoldsItsOwn'
    <3>1. \A k \in Kids : clients[k] \subseteq Fds /\ (Running(k)' = Running(k))
      BY <1>2 DEF IInv, TypeOK, Running
    <3>2. m_fd' = m_fd /\ clients' = clients
      BY <1>2
    <3> QED
      BY <2>2, <3>1, <3>2 DEF IInv, WorkerHoldsItsOwn
  <2> QED
    BY <2>3, <2>4, <2>5, <2>6
<1>3. ASSUME NEW o \in Objs, Destroy(o) PROVE IInv'
  <2>1. obj[o].fd \in Fds /\ Close(Parent, obj[o].fd)
    BY <1>1, <1>3 DEF Destroy
  <2>2. /\ \A e \in Ends : queue'[e] = queue[e] \/ queue'[e] = <<>>
        /\ \A q \in Procs, m \in Fds : table'[q][m] = IF q = Parent /\ m = obj[o].fd THEN None ELSE table[q][m]
    BY <1>0, <2>1, CloseFacts DEF IInv
  <2>3. \A d \in Objs : obj'[d] = IF d = o THEN NoChild ELSE obj[d]
    BY <1>3 DEF Destroy, IInv, TypeOK
  <2>4. UNCHANGED <<proc, create, leaked, m_fd, clients, opened>>
    BY <1>3 DEF Destroy, workerVars
  <2>5. ProcInv' /\ CreateInv' /\ FreshInv' /\ WorkerHoldsItsOwn'
    BY <1>2, <2>1, <2>2, <2>3, <2>4
  <2>6. EndsAreOwned'
    <3>1. \A d \in Objs : d # o => obj[d].fd # obj[o].fd
      BY <1>3 DEF Destroy, IInv, EndsAreOwned
    <3>2. \A d \in Objs : obj[d].fd # None => obj[d].fd \in Fds
      BY DEF IInv, TypeOK
    <3>3. \A m \in Fds : table'[Parent][m] = IF m = obj[o].fd THEN None ELSE table[Parent][m]
      BY <1>0, <2>2
    <3> QED
      BY <2>3, <2>4, <3>1, <3>2, <3>3 DEF IInv, EndsAreOwned, NoChild
  <2> QED
    BY <2>5, <2>6 DEF IInv
<1>4. ASSUME NEW from \in Objs, NEW to \in Objs, Move(from, to) PROVE IInv'
  <2> DEFINE n == obj[to].fd
  <2>1. from # to /\ obj[from].fd # None /\ n \in Fds \cup {None}
    BY <1>4 DEF Move, IInv, TypeOK
  <2>2. /\ \A e \in Ends : queue'[e] = queue[e] \/ queue'[e] = <<>>
        /\ \A q \in Procs, m \in Fds : table'[q][m] = IF q = Parent /\ m = n THEN None ELSE table[q][m]
    <3>1. CASE n = None
      <4>1. table' = table /\ queue' = queue
        BY <1>4, <3>1 DEF Move
      <4> QED
        BY <3>1, <4>1 DEF IInv, TypeOK
    <3>2. CASE n # None
      BY <1>0, <1>4, <2>1, <3>2, CloseFacts DEF Move, IInv
    <3> QED
      BY <3>1, <3>2
  <2>3. \A d \in Objs : obj'[d] = IF d = to THEN obj[from] ELSE IF d = from THEN NoChild ELSE obj[d]
    BY <1>4, <2>1 DEF Move, IInv, TypeOK
  <2>4. UNCHANGED <<proc, create, leaked, m_fd, clients, opened>>
    BY <1>4 DEF Move, workerVars
  <2>5. ProcInv' /\ CreateInv' /\ FreshInv' /\ WorkerHoldsItsOwn'
    BY <1>2, <2>1, <2>2, <2>3, <2>4
  <2>6. EndsAreOwned'
    <3>1. \A d \in Objs : d # to /\ obj[d].fd # None => obj[d].fd # n
      BY DEF IInv, EndsAreOwned
    <3>2. \A d \in Objs : obj[d].fd # None => obj[d].fd \in Fds
      BY DEF IInv, TypeOK
    <3>3. \A m \in Fds : table'[Parent][m] = IF m = n THEN None ELSE table[Parent][m]
      BY <1>0, <2>2
    <3> QED
      BY <2>1, <2>3, <2>4, <3>1, <3>2, <3>3 DEF IInv, EndsAreOwned, NoChild
  <2> QED
    BY <2>5, <2>6 DEF IInv
<1> QED
  BY <1>3, <1>4

\* A pair is made under two free numbers.
LEMMA SocketPairInv ==
  ASSUME IInv, TypeOK', NEW o \in Objs, NEW k \in Kids, SocketPair(o, k) PROVE IInv'
<1> USE Distinct
<1>0. Parent \in Procs /\ Kids \subseteq Procs
  BY DEF Procs
<1>1. PICK a \in Fds, b \in Fds :
        /\ a # b /\ table[Parent][a] = None /\ table[Parent][b] = None
        /\ table' = [table EXCEPT ![Parent] = [@ EXCEPT ![a] = Up(k), ![b] = Down(k)]]
        /\ create' = [step |-> "fork", obj |-> o, kid |-> k, fds |-> <<a, b>>]
  BY DEF SocketPair, Lowest, Free
<1>2. /\ \A q \in Procs, n \in Fds :
           table'[q][n] = IF q = Parent /\ n = a THEN Up(k)
                          ELSE IF q = Parent /\ n = b THEN Down(k) ELSE table[q][n]
      /\ \A j \in Kids, n \in Fds : table'[j][n] = table[j][n]
  BY <1>0, <1>1 DEF IInv, TypeOK
<1>3. /\ UNCHANGED <<proc, queue, obj, leaked, m_fd, clients, opened>>
      /\ Running(Parent) /\ create = Idle /\ proc[k] = "none"
  BY DEF SocketPair, workerVars
<1>4. create' # Idle /\ create'.fds[1] = a /\ create'.fds[2] = b /\ create'.kid = k
  BY <1>1 DEF Idle
<1>5. ProcInv'
  BY <1>2, <1>3 DEF IInv, ProcInv, Running
<1>6. CreateInv'
  <2>1. \A d \in Objs : obj[d].pid # k
    BY <1>3 DEF IInv, FreshInv
  <2> QED
    BY <1>0, <1>1, <1>2, <1>3, <1>4, <2>1 DEF CreateInv, Running
<1>7. FreshInv'
  <2>1. ASSUME NEW j \in Kids, proc[j] = "none" PROVE PairIsNew(j)'
    <3>1. \A q \in Procs, n \in Fds : table[q][n] \notin {Up(j), Down(j)}
      BY <1>3, <2>1 DEF IInv, FreshInv, PairIsNew, Idle
    <3> QED
      BY <1>2, <1>4, <3>1, EndNames DEF PairIsNew
  <2>2. \A c \in Conns : Held(c)' => Held(c)
    BY <1>2, EndNames DEF Held, Has
  <2> QED
    BY <1>3, <2>1, <2>2 DEF IInv, FreshInv
<1>8. EndsAreOwned'
  <2>1. ASSUME NEW d \in Objs, obj[d].fd # None
        PROVE  /\ obj[d].fd \in Fds /\ obj[d].fd # a /\ obj[d].fd # b
               /\ table'[Parent][obj[d].fd] = table[Parent][obj[d].fd]
    <3>1. obj[d].fd \in Fds /\ obj[d].pid \in Kids /\ table[Parent][obj[d].fd] = Up(obj[d].pid)
      BY <2>1 DEF IInv, TypeOK, EndsAreOwned
    <3>2. table[Parent][obj[d].fd] # None
      BY <3>1, EndNames
    <3> QED
      BY <1>0, <1>1, <1>2, <3>1, <3>2
  <2>2. \A n \in Fds : table'[Parent][n] \in Ends \ leaked => n \in {a, b} \/ table[Parent][n] \in Ends \ leaked
    BY <1>0, <1>2
  <2>3. \A n \in Fds : table[Parent][n] \in Ends \ leaked => \E d \in Objs : obj[d].fd = n
    BY <1>3 DEF IInv, EndsAreOwned, Idle
  <2>4. \A d \in Objs :
          /\ (obj[d].fd = None) = (obj[d].pid = None)
          /\ obj[d].fd # None => table[Parent][obj[d].fd] = Up(obj[d].pid)
          /\ \A g \in Objs : obj[d].fd # None /\ obj[d].fd = obj[g].fd => d = g
    BY DEF IInv, EndsAreOwned
  <2> QED
    BY <1>3, <1>4, <2>1, <2>2, <2>3, <2>4 DEF EndsAreOwned
<1>9. WorkerHoldsItsOwn'
  <2>1. \A j \in Kids : clients[j] \subseteq Fds
    BY DEF IInv, TypeOK
  <2> QED
    BY <1>2, <1>3, <2>1 DEF IInv, WorkerHoldsItsOwn, Running
<1> QED
  BY <1>5, <1>6, <1>7, <1>8, <1>9 DEF IInv

\* The types of the call in progress.
LEMMA CreateType ==
  ASSUME TypeOK, create # Idle
  PROVE  /\ create.kid \in Kids /\ create.obj \in Objs
         /\ create.fds[1] \in Fds /\ create.fds[2] \in Fds
         /\ create.step \in {"fork", "adopt"}
  BY DEF TypeOK

\* The child starts with a copy of the table, m_fd among it.
LEMMA ForkInv == ASSUME IInv, TypeOK', Fork PROVE IInv'
<1> USE Distinct
<1> DEFINE k == create.kid
<1>0. Parent \in Procs /\ Kids \subseteq Procs
  BY DEF Procs
<1>1. create # Idle /\ create.step = "fork"
  BY DEF Fork, Idle
<1>2. k \in Kids /\ proc[k] = "none" /\ Running(Parent) /\ k # Parent
  BY <1>1, CreateType DEF IInv, CreateInv
<1>3. /\ \A q \in Procs : proc'[q] = IF q = k THEN "forked" ELSE proc[q]
      /\ \A q \in Procs, n \in Fds : table'[q][n] = IF q = k THEN table[Parent][n] ELSE table[q][n]
      /\ \A j \in Kids : m_fd'[j] = IF j = k THEN create.fds[2] ELSE m_fd[j]
      /\ UNCHANGED <<queue, obj, leaked, clients, opened>>
  BY <1>0, <1>2 DEF Fork, IInv, TypeOK
<1>4. /\ create'.step = "adopt" /\ create'.kid = k /\ create'.fds = create.fds /\ create'.obj = create.obj
  <2>1. create \in [step : {"fork", "adopt"}, obj : Objs, kid : Kids, fds : Fds \X Fds]
    BY <1>1 DEF IInv, TypeOK
  <2> QED
    BY <2>1 DEF Fork
<1>5. /\ create.fds[1] \in Fds /\ create.fds[2] \in Fds /\ create.fds[1] # create.fds[2]
      /\ table[Parent][create.fds[1]] = Up(k) /\ table[Parent][create.fds[2]] = Down(k)
      /\ \A o \in Objs : obj[o].pid # k
  BY <1>1, CreateType DEF IInv, CreateInv
<1>6. ProcInv'
  BY <1>0, <1>2, <1>3, <1>4, <1>5 DEF IInv, ProcInv, Running
<1>7. CreateInv'
  BY <1>0, <1>2, <1>3, <1>4, <1>5 DEF CreateInv, Running
<1>8. FreshInv'
  <2>1. ASSUME NEW j \in Kids, proc'[j] = "none" PROVE queue'[Up(j)] = <<>> /\ queue'[Down(j)] = <<>> /\ PairIsNew(j)'
    <3>1. j # k /\ proc[j] = "none"
      BY <1>0, <1>3, <2>1
    <3>2. \A q \in Procs, n \in Fds : table[q][n] \notin {Up(j), Down(j)}
      BY <3>1 DEF IInv, FreshInv, PairIsNew
    <3> QED
      BY <1>0, <1>3, <3>1, <3>2 DEF IInv, FreshInv, PairIsNew
  <2>2. \A c \in Conns : Held(c)' => Held(c)
    BY <1>0, <1>3 DEF Held, Has
  <2>3. \A o \in Objs : obj'[o].pid # None => proc'[obj'[o].pid] # "none"
    BY <1>0, <1>3 DEF IInv, FreshInv, TypeOK
  <2> QED
    BY <1>3, <2>1, <2>2, <2>3 DEF IInv, FreshInv
<1>9. EndsAreOwned'
  <2>1. \A n \in Fds : table'[Parent][n] = table[Parent][n]
    BY <1>0, <1>2, <1>3
  <2>2. \A o \in Objs : obj[o].fd # None => obj[o].fd \in Fds
    BY DEF IInv, TypeOK
  <2> QED
    BY <1>3, <1>4, <2>1, <2>2 DEF IInv, EndsAreOwned
<1>10. WorkerHoldsItsOwn'
  <2>1. \A j \in Kids : clients[j] \subseteq Fds /\ (Running(j)' => j # k /\ Running(j))
    BY <1>0, <1>3 DEF IInv, TypeOK, Running
  <2> QED
    BY <1>0, <1>3, <2>1 DEF IInv, WorkerHoldsItsOwn
<1> QED
  BY <1>6, <1>7, <1>8, <1>9, <1>10 DEF IInv

\* The worker closes what it has inherited.
LEMMA StartInv == ASSUME IInv, NotServing, TypeOK', NEW k \in Kids, Start(k) PROVE IInv'
<1> USE Distinct
<1>0. Parent \in Procs /\ Kids \subseteq Procs
  BY DEF Procs
<1> DEFINE closed(n) == n \in Inherited(k) \/ table[k][n] = Up(k)
           t == [table EXCEPT ![k] = [n \in Fds |-> IF closed(n) THEN None ELSE @[n]]]
<1>1. t \in [Procs -> [Fds -> Files \cup {None}]] /\ SetTables(t)
  BY <1>0 DEF Start, IInv, TypeOK
<1>2. /\ table' = t
      /\ \A e \in Ends : queue'[e] = queue[e] \/ queue'[e] = <<>>
  <2> HIDE DEF t
  <2> QED
    BY <1>1, SetTablesType DEF IInv
<1>3. \A q \in Procs, n \in Fds :
        table'[q][n] = IF q = k /\ n # m_fd[k] THEN None ELSE table[q][n]
  <2>1. \A n \in Fds : (n \in Inherited(k)) = (n # m_fd[k])
    BY ProcessAssumption DEF Inherited
  <2>2. table[k][m_fd[k]] # Up(k)
    BY EndNames DEF Start, IInv, ProcInv
  <2> QED
    BY <1>0, <1>2, <2>1, <2>2 DEF IInv, TypeOK
<1>4. /\ proc[k] = "forked"
      /\ \A q \in Procs : proc'[q] = IF q = k THEN "running" ELSE proc[q]
      /\ UNCHANGED <<obj, create, leaked, m_fd, clients, opened>>
  BY <1>0 DEF Start, objVars, workerVars, IInv, TypeOK
<1>5. m_fd[k] \in Fds /\ table[k][m_fd[k]] = Down(k)
  BY <1>4 DEF IInv, ProcInv
<1>6. ProcInv'
  BY <1>0, <1>3, <1>4 DEF IInv, ProcInv, Running
<1>7. CreateInv'
  <2>1. \A n \in Fds : table'[Parent][n] = table[Parent][n]
    BY <1>0, <1>3
  <2>2. proc'[Parent] = proc[Parent] /\ \A j \in Kids : (proc'[j] = "none") = (proc[j] = "none")
    BY <1>0, <1>4
  <2> QED
    BY <1>4, <2>1, <2>2, CreateType DEF IInv, CreateInv, Running
<1>8. FreshInv'
  <2>1. \A j \in Kids : proc'[j] = "none" => proc[j] = "none" /\ PairIsNew(j)'
    BY <1>0, <1>3, <1>4, EndNames DEF IInv, FreshInv, PairIsNew
  <2>2. \A o \in Objs : obj'[o].pid # None => proc'[obj'[o].pid] # "none"
    BY <1>0, <1>4 DEF IInv, FreshInv, TypeOK
  <2>3. \A q \in Procs, n \in Fds : table'[q][n] = table[q][n] \/ table'[q][n] = None
    BY <1>3
  <2> QED
    BY <1>2, <1>4, <2>1, <2>2, <2>3, CloseKeepsFresh DEF IInv
<1>9. EndsAreOwned'
  <2>1. \A n \in Fds : table'[Parent][n] = table[Parent][n]
    BY <1>0, <1>3
  <2>2. \A o \in Objs : obj[o].fd # None => obj[o].fd \in Fds
    BY DEF IInv, TypeOK
  <2> QED
    BY <1>4, <2>1, <2>2 DEF IInv, EndsAreOwned
<1>10. WorkerHoldsItsOwn'
  <2>1. ASSUME NEW j \in Kids, j # k, Running(j)'
        PROVE  /\ \A n \in Fds : table'[j][n] \in Ends => n = m_fd'[j] /\ table'[j][n] = Down(j)
               /\ \A n \in Fds : table'[j][n] \in Conns <=> n \in clients'[j]
    <3>1. Running(j) /\ clients[j] \subseteq Fds /\ \A n \in Fds : table'[j][n] = table[j][n]
      BY <1>0, <1>3, <1>4, <2>1 DEF IInv, TypeOK, Running
    <3> QED
      BY <1>4, <3>1 DEF IInv, WorkerHoldsItsOwn
  <2>2. /\ \A n \in Fds : table'[k][n] \in Ends => n = m_fd'[k] /\ table'[k][n] = Down(k)
        /\ \A n \in Fds : table'[k][n] \in Conns <=> n \in clients'[k]
    <3>1. clients'[k] = {}
      BY <1>4, <1>5 DEF NotServing, Running
    <3>2. \A n \in Fds : table'[k][n] \notin Conns /\ (table'[k][n] \in Ends => n = m_fd'[k] /\ table'[k][n] = Down(k))
      BY <1>0, <1>3, <1>4, <1>5, EndNames
    <3> QED
      BY <3>1, <3>2
  <2> QED
    BY <2>1, <2>2 DEF WorkerHoldsItsOwn
<1> QED
  BY <1>6, <1>7, <1>8, <1>9, <1>10 DEF IInv

\* Without a child both numbers of the pair are closed again.
LEMMA ForkFailsInv == ASSUME IInv, TypeOK', ForkFails PROVE IInv'
<1> USE Distinct
<1>0. Parent \in Procs /\ Kids \subseteq Procs /\ create # Idle
  BY DEF Procs, ForkFails, Idle
<1> DEFINE a == create.fds[1]
           b == create.fds[2]
           t == [table EXCEPT ![Parent] = [@ EXCEPT ![a] = None, ![b] = None]]
<1>1. a \in Fds /\ b \in Fds /\ Running(Parent)
  BY <1>0, CreateType DEF IInv, CreateInv
<1>2. t \in [Procs -> [Fds -> Files \cup {None}]] /\ SetTables(t)
  BY <1>0, <1>1 DEF ForkFails, IInv, TypeOK
<1>3. table' = t /\ \A e \in Ends : queue'[e] = queue[e] \/ queue'[e] = <<>>
  <2> HIDE DEF t
  <2> QED
    BY <1>2, SetTablesType DEF IInv
<1>4. /\ \A q \in Procs, n \in Fds : table'[q][n] = IF q = Parent /\ n \in {a, b} THEN None ELSE table[q][n]
      /\ \A j \in Kids, n \in Fds : table'[j][n] = table[j][n]
  BY <1>0, <1>1, <1>3 DEF IInv, TypeOK
<1>5. create' = Idle /\ UNCHANGED <<proc, obj, leaked, m_fd, clients, opened>>
  BY DEF ForkFails, workerVars
<1>6. ProcInv' /\ CreateInv'
  BY <1>0, <1>1, <1>4, <1>5 DEF IInv, ProcInv, CreateInv, Running
<1>7. FreshInv'
  <2>1. \A k \in Kids : proc'[k] = "none" => proc[k] = "none" /\ PairIsNew(k)'
    BY <1>4, <1>5, EndNames DEF IInv, FreshInv, PairIsNew
  <2>2. \A o \in Objs : obj'[o].pid # None => proc'[obj'[o].pid] # "none"
    BY <1>5 DEF IInv, FreshInv
  <2>3. \A q \in Procs, n \in Fds : table'[q][n] = table[q][n] \/ table'[q][n] = None
    BY <1>4
  <2> QED
    BY <1>3, <1>5, <2>1, <2>2, <2>3, CloseKeepsFresh DEF IInv
<1>8. EndsAreOwned'
  <2>1. ASSUME NEW d \in Objs, obj[d].fd # None
        PROVE  table'[Parent][obj[d].fd] = table[Parent][obj[d].fd]
    <3>1. /\ obj[d].fd \in Fds /\ obj[d].pid \in Kids /\ table[Parent][obj[d].fd] = Up(obj[d].pid)
          /\ obj[d].pid # create.kid /\ create.kid \in Kids
          /\ table[Parent][a] = Up(create.kid) /\ table[Parent][b] = Down(create.kid)
      BY <1>0, <2>1, CreateType DEF IInv, TypeOK, EndsAreOwned, CreateInv
    <3>2. obj[d].fd # a /\ obj[d].fd # b
      BY <3>1, EndNames
    <3> QED
      BY <1>0, <1>4, <3>1, <3>2
  <2>2. \A n \in Fds : table'[Parent][n] \in Ends \ leaked => n \notin {a, b} /\ table[Parent][n] \in Ends \ leaked
    BY <1>0, <1>4
  <2> QED
    BY <1>5, <2>1, <2>2 DEF IInv, EndsAreOwned
<1>9. WorkerHoldsItsOwn'
  <2>1. \A j \in Kids : clients[j] \subseteq Fds
    BY DEF IInv, TypeOK
  <2> QED
    BY <1>4, <1>5, <2>1 DEF IInv, WorkerHoldsItsOwn, Running
<1> QED
  BY <1>6, <1>7, <1>8, <1>9 DEF IInv

\* The object gets the dispatcher's end; the end it may have had is leaked.
LEMMA AdoptInv == ASSUME IInv, TypeOK', Adopt PROVE IInv'
<1> USE Distinct
<1>0. Parent \in Procs /\ Kids \subseteq Procs /\ create # Idle /\ create.step = "adopt"
  BY DEF Procs, Adopt, Idle
<1> DEFINE a == create.fds[1]
           b == create.fds[2]
           k == create.kid
           x == create.obj
<1>1. /\ a \in Fds /\ b \in Fds /\ k \in Kids /\ x \in Objs /\ Running(Parent) /\ a # b
      /\ table[Parent][a] = Up(k) /\ table[Parent][b] = Down(k) /\ proc[k] # "none"
      /\ \A o \in Objs : obj[o].pid # k
  BY <1>0, CreateType DEF IInv, CreateInv
<1>2. Close(Parent, b) /\ create' = Idle /\ UNCHANGED <<proc, m_fd, clients, opened>>
  BY DEF Adopt, workerVars
<1>3. /\ \A e \in Ends : queue'[e] = queue[e] \/ queue'[e] = <<>>
      /\ \A q \in Procs, n \in Fds : table'[q][n] = IF q = Parent /\ n = b THEN None ELSE table[q][n]
  BY <1>0, <1>1, <1>2, CloseFacts DEF IInv
<1>4. \A o \in Objs : obj'[o] = IF o = x THEN [pid |-> k, fd |-> a] ELSE obj[o]
  BY <1>1 DEF Adopt, IInv, TypeOK
<1>5. \A j \in Kids, n \in Fds : table'[j][n] = table[j][n]
  BY <1>0, <1>3
<1>6. ProcInv' /\ CreateInv'
  BY <1>0, <1>1, <1>2, <1>5 DEF IInv, ProcInv, CreateInv, Running
<1>7. FreshInv'
  <2>1. \A j \in Kids : proc'[j] = "none" => proc[j] = "none" /\ PairIsNew(j)'
    <3>1. \A j \in Kids, q \in Procs, n \in Fds : proc[j] = "none" => table[q][n] \notin {Up(j), Down(j)}
      BY <1>1, EndNames DEF IInv, FreshInv, PairIsNew
    <3> QED
      BY <1>2, <1>3, <3>1, EndNames DEF PairIsNew
  <2>2. \A o \in Objs : obj'[o].pid # None => proc'[obj'[o].pid] # "none"
    BY <1>1, <1>2, <1>4 DEF IInv, FreshInv
  <2>3. \A q \in Procs, n \in Fds : table'[q][n] = table[q][n] \/ table'[q][n] = None
    BY <1>3
  <2> QED
    BY <1>2, <1>3, <2>1, <2>2, <2>3, CloseKeepsFresh DEF IInv
<1>8. EndsAreOwned'
  <2>1. ASSUME NEW d \in Objs, obj[d].fd # None
        PROVE  /\ obj[d].fd \in Fds /\ obj[d].fd # a
               /\ table'[Parent][obj[d].fd] = table[Parent][obj[d].fd]
    <3>1. /\ obj[d].fd \in Fds /\ obj[d].pid \in Kids /\ table[Parent][obj[d].fd] = Up(obj[d].pid)
          /\ obj[d].pid # k
      BY <1>1, <2>1 DEF IInv, TypeOK, EndsAreOwned
    <3>2. obj[d].fd # a /\ obj[d].fd # b
      BY <1>1, <3>1, EndNames
    <3> QED
      BY <1>0, <1>3, <3>1, <3>2
  <2>2. table'[Parent][a] = Up(k)
    BY <1>0, <1>1, <1>3
  <2>3. ASSUME NEW d \in Objs
        PROVE  /\ (obj'[d].fd = None) = (obj'[d].pid = None)
               /\ obj'[d].fd # None => table'[Parent][obj'[d].fd] = Up(obj'[d].pid)
               /\ \A g \in Objs : obj'[d].fd # None /\ obj'[d].fd = obj'[g].fd => d = g
    BY <1>1, <1>4, <2>1, <2>2 DEF IInv, EndsAreOwned
  <2>4. ASSUME NEW n \in Fds, table'[Parent][n] \in Ends \ leaked' PROVE \E o \in Objs : obj'[o].fd = n
    <3>1. n # b /\ table[Parent][n] \in Ends \ leaked'
      BY <1>0, <1>3, <2>4
    <3>2. leaked \subseteq leaked' /\ (obj[x].fd # None => table[Parent][obj[x].fd] \in leaked')
      BY DEF Adopt
    <3>3. n = a \/ \E o \in Objs : obj[o].fd = n
      BY <3>1, <3>2 DEF IInv, EndsAreOwned
    <3>4. CASE n = a
      BY <1>1, <1>4, <3>4
    <3>5. CASE \E o \in Objs : obj[o].fd = n
      <4>1. PICK o \in Objs : obj[o].fd = n
        BY <3>5
      <4>2. o # x
        BY <3>1, <3>2, <4>1
      <4> QED
        BY <1>4, <4>1, <4>2
    <3> QED
      BY <3>3, <3>4, <3>5
  <2> QED
    BY <2>3, <2>4 DEF EndsAreOwned
<1>9. WorkerHoldsItsOwn'
  <2>1. \A j \in Kids : clients[j] \subseteq Fds
    BY DEF IInv, TypeOK
  <2> QED
    BY <1>2, <1>5, <2>1 DEF IInv, WorkerHoldsItsOwn, Running
<1> QED
  BY <1>6, <1>7, <1>8, <1>9 DEF IInv

\* Clients are entered and dropped by workers that serve, and go with them.
LEMMA NotServingStep == IInv /\ NotServing /\ [Next]_vars => NotServing'
<1> SUFFICES ASSUME IInv, NotServing, [Next]_vars PROVE NotServing'
  OBVIOUS
<1> USE Distinct DEF IInv, NotServing, Running, kernelVars, objVars, workerVars
<1>0. Parent \in Procs /\ Kids \subseteq Procs
  BY DEF Procs
<1>1. CASE Dispatcher
  <2>1. clients' = clients /\ (proc' = proc \/ Fork)
    BY <1>1 DEF Dispatcher, Destroy, SocketPair, Move, Fork, ForkFails, Adopt, Accept, CloseConn
  <2>2. ASSUME Fork, NEW k \in Kids, proc'[k] # "running" PROVE clients'[k] = {}
    <3>1. create # Idle /\ create.step = "fork"
      BY <2>2 DEF Fork, Idle
    <3>2. create.kid \in Kids /\ proc[create.kid] = "none"
      BY <3>1, CreateType DEF CreateInv
    <3> QED
      BY <1>0, <2>1, <2>2, <3>2 DEF Fork, TypeOK
  <2> QED
    BY <2>1, <2>2
<1>2. ASSUME NEW j \in Kids, Worker(j) PROVE NotServing'
  BY <1>0, <1>2 DEF Worker, Start, DropClient, TypeOK
<1>3. ASSUME NEW p \in Procs, SendFD(p) PROVE NotServing'
  BY <1>3 DEF SendFD
<1>4. ASSUME NEW p \in Procs, RecvFD(p) PROVE NotServing'
  BY <1>0, <1>4 DEF RecvFD, Receive, ReceiveTruncated, ReceiveNothing, Connected, TypeOK
<1>5. ASSUME NEW p \in Procs, Terminate(p) PROVE NotServing'
  BY <1>0, <1>5 DEF Terminate, TypeOK
<1> QED
  BY <1>1, <1>2, <1>3, <1>4, <1>5 DEF Next, SendFDKills, Exit, vars

\* No step leaves the invariant.
LEMMA InvStep == IInv /\ NotServing /\ [Next]_vars => (IInv /\ NotServing)'
<1> SUFFICES ASSUME IInv, NotServing, [Next]_vars PROVE IInv'
  BY NotServingStep DEF IInv
<1>1. TypeOK'
  BY TypeStep DEF IInv
<1>2. CASE Dispatcher
  BY <1>1, <1>2, SocketPairInv, ObjectInv, ForkInv, ForkFailsInv, AdoptInv, ConnInv DEF Dispatcher
<1>3. ASSUME NEW k \in Kids, Worker(k) PROVE IInv'
  BY <1>1, <1>3, StartInv, ConnInv DEF Worker
<1>4. ASSUME NEW p \in Procs, SendFD(p) \/ RecvFD(p) PROVE IInv'
  BY <1>4, SendFDInv, RecvFDInv
<1>5. ASSUME NEW p \in Procs, SendFDKills(p) \/ Exit(p) PROVE IInv'
  BY <1>1, <1>5, TerminateInv DEF SendFDKills, Exit, Running
<1>6. CASE UNCHANGED vars
  BY <1>1, <1>6 DEF vars, kernelVars, objVars, workerVars, IInv, ProcInv, CreateInv, FreshInv, PairIsNew,
     EndsAreOwned, WorkerHoldsItsOwn, Running, Held, Has
<1> QED
  BY <1>2, <1>3, <1>4, <1>5, <1>6 DEF Next

\* The inductive invariant holds in every reachable state.
THEOREM Invariant == Spec => [](IInv /\ NotServing)
<1>1. Init => IInv /\ NotServing
  BY InitInv DEF Init, NotServing
<1> QED
  BY <1>1, InvStep, PTL DEF Spec

\* Every variable has its type: what is queued at an end is a connection.
THEOREM TypeCorrect == Spec => []TypeOK
<1>1. IInv => TypeOK
  BY DEF IInv
<1> QED
  BY <1>1, Invariant, PTL

\* The dispatcher's objects own its ends of the socket pairs, one each.
THEOREM EndsAreOwnedCorrect == Spec => []EndsAreOwned
<1>1. IInv => EndsAreOwned
  BY DEF IInv
<1> QED
  BY <1>1, Invariant, PTL

\* A worker that serves has its end and its connections, nothing of another's.
THEOREM WorkerHoldsItsOwnCorrect == Spec => []WorkerHoldsItsOwn
<1>1. IInv => WorkerHoldsItsOwn
  BY DEF IInv
<1> QED
  BY <1>1, Invariant, PTL

-----------------------------------------------------------------------------
(* Descriptor passing keeps its promise: every step of Process is a step    *)
(* of HandOver, or changes nothing that HandOver speaks of.                 *)


\* Nothing waits at an end that nobody has.
QueueInv == \A e \in Ends : queue[e] # <<>> => Held(e)

\* The ends, and who reads and writes them.
LEMMA EndFacts ==
  /\ \A e \in Ends : \E k \in Kids : e = Up(k) \/ e = Down(k)
  /\ \A k \in Kids : /\ Reader[Up(k)] = Parent /\ Reader[Down(k)] = k
                     /\ Writer[Up(k)] = k /\ Writer[Down(k)] = Parent
<1>1. \A e \in Ends : \E k \in Kids : e = Up(k) \/ e = Down(k)
  BY DEF Ends, Up, Down
<1>2. \A k \in Kids : Reader[Up(k)] = Parent /\ Reader[Down(k)] = k
  BY DEF Ends, Up, Down, Reader
<1> QED
  BY <1>1, <1>2, EndNames DEF Writer

\* What is queued survives a change of tables where the end does.
LEMMA Cut ==
  ASSUME NEW t, SetTables(t)
  PROVE  \A e \in Ends : queue'[e] = IF Held(e)' THEN queue[e] ELSE <<>>
  BY DEF SetTables, Held, Has

\* A new entry in a table takes the place of none.
LEMMA StillHeld ==
  ASSUME \A p \in Procs, n \in Fds : table'[p][n] = table[p][n] \/ table[p][n] = None
  PROVE  \A f \in Files : Held(f) => Held(f)'
  BY Distinct, ProcessAssumption DEF Held, Has, Files

\* QueueInv is kept: a sender looks for a reader first, and what an end has
\* queued goes with the last that has it.
LEMMA QueueInvStep == IInv /\ QueueInv /\ [Next]_vars => QueueInv'
<1> SUFFICES ASSUME IInv, QueueInv, [Next]_vars PROVE QueueInv'
  OBVIOUS
<1> USE DEF QueueInv, kernelVars
<1>0. Parent \in Procs /\ Kids \subseteq Procs /\ Ends \subseteq Files
  BY DEF Procs, Files
<1>1. ASSUME NEW t, SetTables(t) PROVE QueueInv'
  BY <1>1, Cut
<1>2. ASSUME \A p \in Procs, n \in Fds : table'[p][n] = table[p][n] \/ table[p][n] = None,
             \A e \in Ends : queue'[e] # <<>> => Held(e)
      PROVE  QueueInv'
  BY <1>0, <1>2, StillHeld
<1>3. CASE Dispatcher
  <2>1. ASSUME NEW o \in Objs, NEW k \in Kids, SocketPair(o, k) PROVE QueueInv'
    <3>1. PICK a \in Fds, b \in Fds :
            /\ table[Parent][a] = None /\ table[Parent][b] = None
            /\ table' = [table EXCEPT ![Parent] = [@ EXCEPT ![a] = Up(k), ![b] = Down(k)]]
      BY <2>1 DEF SocketPair, Lowest, Free
    <3> QED
      BY <1>0, <1>2, <2>1, <3>1 DEF SocketPair, IInv, TypeOK
  <2>2. CASE Fork
    <3>1. create.kid \in Kids /\ \A n \in Fds : table[create.kid][n] = None
      BY <2>2, CreateType DEF Fork, Idle, IInv, CreateInv, ProcInv
    <3> QED
      BY <1>0, <1>2, <2>2, <3>1 DEF Fork, IInv, TypeOK
  <2>3. ASSUME NEW c \in Conns, Accept(c) PROVE QueueInv'
    BY <1>0, <1>2, <2>3 DEF Accept, Lowest, Free, IInv, TypeOK
  <2> QED
    BY <1>1, <1>2, <1>3, <2>1, <2>2, <2>3 DEF Dispatcher, Destroy, Move, ForkFails, Adopt, CloseConn, Close
<1>4. ASSUME NEW k \in Kids, Worker(k) PROVE QueueInv'
  BY <1>1, <1>4 DEF Worker, Start, DropClient, Close
<1>5. ASSUME NEW p \in Procs, SendFD(p) PROVE QueueInv'
  BY <1>2, <1>5 DEF SendFD, IInv, TypeOK
<1>6. ASSUME NEW p \in Procs, RecvFD(p) PROVE QueueInv'
  <2>1. PICK s \in Sockets(p) : Receive(p, s) \/ ReceiveTruncated(p, s) \/ ReceiveNothing(p, s)
    BY <1>6 DEF RecvFD
  <2>2. CASE Receive(p, s)
    <3>1. \A e \in Ends : queue'[e] # <<>> => Held(e)
      BY <2>2 DEF Receive, IInv, TypeOK
    <3> QED
      BY <1>2, <2>2, <3>1 DEF Receive, Lowest, Free, IInv, TypeOK
  <2>3. CASE ReceiveTruncated(p, s) \/ ReceiveNothing(p, s)
    BY <1>2, <2>3 DEF ReceiveTruncated, ReceiveNothing, IInv, TypeOK
  <2> QED
    BY <2>1, <2>2, <2>3
<1>7. ASSUME NEW p \in Procs, Terminate(p) PROVE QueueInv'
  BY <1>1, <1>7 DEF Terminate
<1>8. CASE UNCHANGED vars
  BY <1>8 DEF vars, Held, Has
<1> QED
  BY <1>3, <1>4, <1>5, <1>6, <1>7, <1>8 DEF Next, SendFDKills, Exit

-----------------------------------------------------------------------------
(* The steps of the promise.                                                *)

\* Which ends are closed.
ClosedMeans ==
  /\ ClosedEnds \subseteq Ends
  /\ \A k \in Kids : /\ Up(k) \in ClosedEnds <=> proc[k] # "none" /\ ~Has(Parent, Up(k))
                     /\ Down(k) \in ClosedEnds <=> proc[k] = "exited"

\* A process or an end is a place of a connection, and which.
PlacesMean(c) ==
  /\ Places(c) \subseteq Procs \cup Ends
  /\ \A p \in Procs : p \in Places(c) <=> Running(p) /\ Has(p, c)
  /\ \A e \in Ends : e \in Places(c) <=> c \in Range(queue[e])

\* Which ends are closed, before and after a step.
LEMMA ClosedFacts == ClosedMeans /\ ClosedMeans'
  BY EndNames DEF ClosedEnds, ClosedMeans

\* The places of a connection, before and after a step.
LEMMA PlaceFacts == ASSUME NEW c \in Conns PROVE PlacesMean(c) /\ PlacesMean(c)'
  BY Distinct DEF Places, PlacesMean

\* The processes are those that the promise speaks of.
LEMMA ProcsRead == Procs = Promise!Processes
<1>1. \A k \in Kids : Down(k) \in Ends /\ Reader[Down(k)] = k
  BY EndFacts, EndNames
<1>2. \A e \in Ends : Reader[e] \in Procs
  BY EndFacts DEF Procs
<1> QED
  BY <1>1, <1>2 DEF Procs, Promise!Processes

\* A step that opens nothing for a process that serves, and queues nothing.
LEMMA LoseStep ==
  ASSUME IInv, IInv', NEW gone \in {{}} \cup {{p} : p \in Procs},
         \A e \in Ends : queue'[e] = queue[e] \/ (queue'[e] = <<>> /\ ~Held(e)'),
         opened' = opened,
         \A p \in Procs, c \in Conns :
           Running(p)' /\ Has(p, c)' <=> Running(p) /\ Has(p, c) /\ p \notin gone,
         \A k \in Kids : /\ proc[k] # "none" => proc'[k] # "none"
                         /\ proc[k] = "exited" => proc'[k] = "exited"
                         /\ proc[k] # "none" /\ ~Has(Parent, Up(k)) => ~Has(Parent, Up(k))'
  PROVE  Promise!Next
<1>0. Parent \in Procs /\ Kids \subseteq Procs /\ Range(<<>>) = {}
  BY DEF Procs, Range
<1>1. ClosedEnds \subseteq ClosedEnds'
  <2>1. \A k \in Kids : /\ Up(k) \in ClosedEnds => Up(k) \in ClosedEnds'
                        /\ Down(k) \in ClosedEnds => Down(k) \in ClosedEnds'
    BY ClosedFacts DEF ClosedMeans
  <2> QED
    BY <2>1, ClosedFacts, EndFacts DEF ClosedMeans
<1>2. ASSUME NEW e \in Ends, queue[e] # <<>>, ~Held(e)' PROVE e \in ClosedEnds'
  <2>1. PICK k \in Kids : e = Up(k) \/ e = Down(k)
    BY EndFacts
  <2>2. proc[k] # "none"
    BY <1>2, <2>1 DEF IInv, FreshInv
  <2>3. CASE e = Up(k)
    <3>1. ~Has(Parent, Up(k))'
      BY <1>0, <1>2, <2>3 DEF Held
    <3> QED
      BY <2>2, <2>3, <3>1, ClosedFacts DEF ClosedMeans
  <2>4. CASE e = Down(k)
    <3>1. proc'[k] \notin {"forked", "running"}
      BY <1>0, <1>2, <2>4 DEF IInv, ProcInv, Held, Has
    <3>2. proc'[k] = "exited"
      BY <1>0, <2>2, <3>1 DEF IInv, TypeOK
    <3> QED
      BY <2>4, <3>2, ClosedFacts DEF ClosedMeans
  <2> QED
    BY <2>1, <2>3, <2>4
<1>3. ASSUME NEW c \in Conns
      PROVE  /\ Places(c)' \subseteq Places(c) \ gone
             /\ Places(c) \ Places(c)' \subseteq gone \cup ClosedEnds'
  <2>1. \A p \in Procs : p \in Places(c)' <=> p \in Places(c) \ gone
    BY PlaceFacts DEF PlacesMean
  <2>2. \A e \in Ends : (e \in Places(c)' => e \in Places(c) \ gone)
                        /\ (e \in Places(c) \ Places(c)' => e \in ClosedEnds')
    <3> TAKE e \in Ends
    <3>1. e \notin gone
      BY Distinct
    <3>2. e \in Places(c) <=> c \in Range(queue[e])
      BY PlaceFacts DEF PlacesMean
    <3>3. e \in Places(c)' <=> c \in Range(queue'[e])
      BY PlaceFacts DEF PlacesMean
    <3> QED
      BY <1>0, <1>2, <3>1, <3>2, <3>3
  <2> QED
    BY <2>1, <2>2, PlaceFacts DEF PlacesMean
<1>4. [c \in Conns |-> Places(c)]' \in [Conns -> SUBSET (Ends \cup Promise!Processes)]
  BY ProcsRead, PlaceFacts DEF PlacesMean
<1>5. \A c \in Conns : [d \in Conns |-> Places(d)][c] = Places(c)
                       /\ [d \in Conns |-> Places(d)]'[c] = Places(c)'
  OBVIOUS
<1>6. Promise!Lose(gone)
  BY <1>1, <1>3, <1>4, <1>5 DEF Promise!Lose
<1> QED
  BY <1>6, ProcsRead DEF Promise!Next

\* A step that moves, closes or makes ends, and does not touch connections.
LEMMA EndsStep ==
  ASSUME IInv, IInv', UNCHANGED <<proc, opened>>,
         \A e \in Ends : queue'[e] = queue[e] \/ (queue'[e] = <<>> /\ ~Held(e)'),
         \A p \in Procs, n \in Fds :
           table'[p][n] # table[p][n] => table[p][n] \notin Conns /\ table'[p][n] \notin Conns,
         \A k \in Kids, n \in Fds :
           proc[k] # "none" /\ table'[Parent][n] = Up(k) => table[Parent][n] = Up(k)
  PROVE  Promise!Next
<1> DEFINE gone == {}
<1>0. gone \in {{}} \cup {{p} : p \in Procs}
  OBVIOUS
<1>1. \A p \in Procs, c \in Conns : Running(p)' /\ Has(p, c)' <=> Running(p) /\ Has(p, c) /\ p \notin gone
  BY DEF Running, Has
<1>2. \A k \in Kids : proc[k] # "none" /\ ~Has(Parent, Up(k)) => ~Has(Parent, Up(k))'
  BY DEF Has
<1> HIDE DEF gone
<1> QED
  BY <1>0, <1>1, <1>2, LoseStep

\* CreateSubProcess, destructors and moves are steps of the promise.
LEMMA DispatcherStep ==
  ASSUME IInv, IInv', QueueInv',
         \/ \E o \in Objs, k \in Kids : SocketPair(o, k)
         \/ \E o \in Objs : Destroy(o) \/ \E d \in Objs : Move(o, d)
         \/ Fork \/ ForkFails \/ Adopt
  PROVE  Promise!Next
<1> USE Distinct
<1>0. Parent \in Procs /\ Kids \subseteq Procs /\ \A k \in Kids : Up(k) \notin Conns /\ Down(k) \notin Conns
  BY EndNames DEF Procs
<1>1. ASSUME NEW o \in Objs, NEW k \in Kids, SocketPair(o, k) PROVE Promise!Next
  <2>1. PICK a \in Fds, b \in Fds :
          /\ table[Parent][a] = None /\ table[Parent][b] = None
          /\ table' = [table EXCEPT ![Parent] = [@ EXCEPT ![a] = Up(k), ![b] = Down(k)]]
    BY <1>1 DEF SocketPair, Lowest, Free
  <2>2. \A q \in Procs, n \in Fds :
          table'[q][n] = table[q][n] \/ (table[q][n] = None /\ table'[q][n] \in {Up(k), Down(k)})
    BY <1>0, <2>1 DEF IInv, TypeOK
  <2>3. UNCHANGED <<proc, opened, queue>> /\ proc[k] = "none"
    BY <1>1 DEF SocketPair
  <2>4. \A j \in Kids, n \in Fds :
           proc[j] # "none" /\ table'[Parent][n] = Up(j) => table[Parent][n] = Up(j)
    BY <1>0, <2>2, <2>3, EndNames
  <2> QED
    BY <1>0, <2>2, <2>3, <2>4, EndsStep
<1>2. ASSUME NEW S, UNCHANGED <<proc, opened>>,
             \A e \in Ends : queue'[e] = queue[e] \/ (queue'[e] = <<>> /\ ~Held(e)'),
             \A n \in S : n \in Fds => table[Parent][n] \in Ends,
             \A q \in Procs, n \in Fds : table'[q][n] = IF q = Parent /\ n \in S THEN None ELSE table[q][n]
      PROVE  Promise!Next
  <2>1. \A q \in Procs, n \in Fds :
          table'[q][n] # table[q][n] => table[q][n] \notin Conns /\ table'[q][n] \notin Conns
    BY <1>2
  <2>2. \A k \in Kids, n \in Fds : table'[Parent][n] = Up(k) => table[Parent][n] = Up(k)
    BY <1>0, <1>2, EndNames
  <2> QED
    BY <1>2, <2>1, <2>2, EndsStep
<1>3. ASSUME NEW n \in Fds, Close(Parent, n), table[Parent][n] \in Ends, UNCHANGED <<proc, opened>>
      PROVE  Promise!Next
  <2>1. \A q \in Procs, m \in Fds : table'[q][m] = IF q = Parent /\ m \in {n} THEN None ELSE table[q][m]
    BY <1>0, <1>3, CloseFacts DEF IInv
  <2>2. \A e \in Ends : queue'[e] = queue[e] \/ (queue'[e] = <<>> /\ ~Held(e)')
    BY <1>3, Cut DEF Close
  <2> QED
    BY <1>2, <1>3, <2>1, <2>2
<1>4. ASSUME NEW o \in Objs, obj[o].fd # None PROVE obj[o].fd \in Fds /\ table[Parent][obj[o].fd] \in Ends
  <2>1. obj[o].fd \in Fds /\ obj[o].pid \in Kids /\ table[Parent][obj[o].fd] = Up(obj[o].pid)
    BY <1>4 DEF IInv, TypeOK, EndsAreOwned
  <2> QED
    BY <2>1, EndNames
<1>5. ASSUME NEW o \in Objs, Destroy(o) PROVE Promise!Next
  BY <1>3, <1>4, <1>5 DEF Destroy
<1>6. ASSUME NEW o \in Objs, NEW d \in Objs, Move(o, d) PROVE Promise!Next
  <2>1. CASE obj[d].fd = None
    <3>1. UNCHANGED <<proc, opened, table, queue>>
      BY <1>6, <2>1 DEF Move
    <3> QED
      BY <3>1, EndsStep
  <2>2. CASE obj[d].fd # None
    BY <1>3, <1>4, <1>6, <2>2 DEF Move
  <2> QED
    BY <2>1, <2>2
<1>7. CASE Adopt
  <2>1. create.fds[2] \in Fds /\ table[Parent][create.fds[2]] \in Ends
    BY <1>7, CreateType, EndNames DEF Adopt, Idle, IInv, CreateInv
  <2> QED
    BY <1>3, <1>7, <2>1 DEF Adopt
<1>8. CASE ForkFails
  <2> DEFINE a == create.fds[1]
             b == create.fds[2]
             S == {a, b}
  <2>1. a \in Fds /\ b \in Fds /\ table[Parent][a] \in Ends /\ table[Parent][b] \in Ends
    BY <1>8, CreateType, EndNames DEF ForkFails, Idle, IInv, CreateInv
  <2>2. /\ table' = [table EXCEPT ![Parent] = [@ EXCEPT ![a] = None, ![b] = None]]
        /\ \A e \in Ends : queue'[e] = queue[e] \/ (queue'[e] = <<>> /\ ~Held(e)')
    BY <1>8, Cut DEF ForkFails, SetTables
  <2>3. \A q \in Procs, n \in Fds : table'[q][n] = IF q = Parent /\ n \in S THEN None ELSE table[q][n]
    BY <1>0, <2>1, <2>2 DEF IInv, TypeOK
  <2>4. UNCHANGED <<proc, opened>>
    BY <1>8 DEF ForkFails
  <2>5. \A n \in S : n \in Fds => table[Parent][n] \in Ends
    BY <2>1
  <2>6. \A e \in Ends : queue'[e] = queue[e] \/ (queue'[e] = <<>> /\ ~Held(e)')
    BY <2>2
  <2> HIDE DEF S
  <2> QED
    BY <1>2, <2>3, <2>4, <2>5, <2>6, Zenon
<1>9. CASE Fork
  <2> DEFINE k == create.kid
             gone == {}
  <2>1. create # Idle /\ create.step = "fork"
    BY <1>9 DEF Fork, Idle
  <2>2. /\ k \in Kids /\ proc[k] = "none" /\ Has(Parent, Up(k)) /\ k # Parent
    BY <2>1, CreateType DEF IInv, CreateInv, Has
  <2>3. /\ \A q \in Procs : proc'[q] = IF q = k THEN "forked" ELSE proc[q]
        /\ \A q \in Procs, n \in Fds : q # k => table'[q][n] = table[q][n]
        /\ UNCHANGED <<queue, opened>>
    BY <1>0, <1>9, <2>2 DEF Fork, IInv, TypeOK
  <2>4. \A q \in Procs, c \in Conns : Running(q)' /\ Has(q, c)' <=> Running(q) /\ Has(q, c) /\ q \notin gone
    BY <1>0, <2>2, <2>3 DEF Running, Has
  <2>5. \A j \in Kids : Has(Parent, Up(j))' => Has(Parent, Up(j))
    BY <1>0, <2>2, <2>3 DEF Has
  <2>6. gone \in {{}} \cup {{p} : p \in Procs}
    OBVIOUS
  <2>7. \A j \in Kids : (proc[j] # "none" => proc'[j] # "none") /\ (proc[j] = "exited" => proc'[j] = "exited")
    BY <1>0, <2>2, <2>3
  <2> HIDE DEF gone
  <2> QED
    BY <2>3, <2>4, <2>5, <2>6, <2>7, LoseStep
<1> QED
  BY <1>1, <1>5, <1>6, <1>7, <1>8, <1>9

\* A worker starts with no connection, and a process that ends loses all.
LEMMA ProcessStep ==
  ASSUME IInv, IInv',
         \/ \E k \in Kids : Start(k)
         \/ \E p \in Procs : proc[p] \in {"forked", "running"} /\ Terminate(p)
  PROVE  Promise!Next
<1> USE Distinct
<1>0. Parent \in Procs /\ Kids \subseteq Procs
  BY DEF Procs
<1> DEFINE none == {}
<1>1. none \in {{}} \cup {{p} : p \in Procs}
  OBVIOUS
<1>2. ASSUME NEW k \in Kids, Start(k) PROVE Promise!Next
  <2>1. /\ proc[k] = "forked" /\ opened' = opened
        /\ \A q \in Procs : proc'[q] = IF q = k THEN "running" ELSE proc[q]
        /\ \A e \in Ends : queue'[e] = queue[e] \/ (queue'[e] = <<>> /\ ~Held(e)')
    BY <1>0, <1>2, Cut DEF Start, IInv, TypeOK
  <2>2. /\ \A q \in Procs, n \in Fds : q # k => table'[q][n] = table[q][n]
        /\ \A n \in Fds : table'[k][n] \in {None, Down(k)}
    <3>1. \A n \in Fds : (n \in Inherited(k)) = (n # m_fd[k])
      BY ProcessAssumption DEF Inherited
    <3>2. table[k][m_fd[k]] = Down(k)
      BY <2>1 DEF IInv, ProcInv
    <3>3. table' = [table EXCEPT ![k] = [n \in Fds |->
                      IF n \in Inherited(k) \/ table[k][n] = Up(k) THEN None ELSE @[n]]]
      BY <1>2 DEF Start, SetTables
    <3> QED
      BY <1>0, <3>1, <3>2, <3>3 DEF IInv, TypeOK
  <2>3. \A q \in Procs, c \in Conns : Running(q)' /\ Has(q, c)' <=> Running(q) /\ Has(q, c) /\ q \notin none
    BY <1>0, <2>1, <2>2, EndNames DEF Running, Has
  <2>4. \A j \in Kids : Has(Parent, Up(j))' => Has(Parent, Up(j))
    BY <1>0, <2>2 DEF Has
  <2>5. \A j \in Kids : (proc[j] # "none" => proc'[j] # "none") /\ (proc[j] = "exited" => proc'[j] = "exited")
    BY <1>0, <2>1
  <2> HIDE DEF none
  <2> QED
    BY <1>1, <2>1, <2>3, <2>4, <2>5, LoseStep
<1>3. ASSUME NEW p \in Procs, proc[p] \in {"forked", "running"}, Terminate(p) PROVE Promise!Next
  <2> DEFINE gone == IF Running(p) THEN {p} ELSE {}
  <2>1. /\ opened' = opened
        /\ \A q \in Procs : proc'[q] = IF q = p THEN "exited" ELSE proc[q]
        /\ \A e \in Ends : queue'[e] = queue[e] \/ (queue'[e] = <<>> /\ ~Held(e)')
    BY <1>3, Cut DEF Terminate, IInv, TypeOK
  <2>2. \A q \in Procs, n \in Fds : table'[q][n] = IF q = p THEN None ELSE table[q][n]
    BY <1>3 DEF Terminate, SetTables, IInv, TypeOK
  <2>3. \A q \in Procs, c \in Conns : Running(q)' /\ Has(q, c)' <=> Running(q) /\ Has(q, c) /\ q \notin gone
    BY <2>1, <2>2 DEF Running, Has
  <2>4. \A j \in Kids : Has(Parent, Up(j))' => Has(Parent, Up(j))
    BY <1>0, <2>2, EndNames DEF Has
  <2>5. \A j \in Kids : (proc[j] # "none" => proc'[j] # "none") /\ (proc[j] = "exited" => proc'[j] = "exited")
    BY <1>0, <2>1
  <2>6. gone \in {{}} \cup {{q} : q \in Procs}
    OBVIOUS
  <2> HIDE DEF gone
  <2> QED
    BY <2>1, <2>3, <2>4, <2>5, <2>6, LoseStep
<1> QED
  BY <1>2, <1>3

\* What a step that changes nothing but connections leaves as it is.
LEMMA ClosedSame ==
  ASSUME ConnsOnly PROVE ClosedEnds' = ClosedEnds /\ \A e \in Ends : Held(e)' = Held(e)
<1>0. Parent \in Procs
  BY DEF Procs
<1>1. \A p \in Procs, n \in Fds, e \in Ends : (table'[p][n] = e) = (table[p][n] = e)
  BY Distinct DEF ConnsOnly
<1>2. \A p \in Procs, e \in Ends : Has(p, e)' = Has(p, e)
  BY <1>1 DEF Has
<1> QED
  BY <1>0, <1>2, EndNames DEF ClosedEnds, Held, ConnsOnly

\* An accepted connection enters.
LEMMA AcceptStep ==
  ASSUME IInv, NEW c \in Conns, Accept(c) PROVE Promise!Next
<1> USE Distinct
<1>0. Parent \in Procs
  BY DEF Procs
<1>1. PICK n \in Fds : table[Parent][n] = None /\ table' = [table EXCEPT ![Parent][n] = c]
  BY DEF Accept, Lowest, Free
<1>2. \A q \in Procs, m \in Fds : table'[q][m] = IF q = Parent /\ m = n THEN c ELSE table[q][m]
  BY <1>1 DEF IInv, TypeOK
<1>3. UNCHANGED <<proc, queue>> /\ Running(Parent) /\ c \notin opened /\ opened' = opened \cup {c}
  BY DEF Accept
<1>4. ConnsOnly
  BY <1>2, <1>1, <1>3 DEF Accept, ConnsOnly, objVars, workerVars
<1>5. Places(c)' = {Parent}
  <2>1. ~Held(c) /\ \A e \in Ends : c \notin Range(queue[e])
    BY <1>3 DEF IInv, FreshInv
  <2>2. \A q \in Procs : Running(q)' /\ Has(q, c)' <=> q = Parent
    BY <1>0, <1>2, <1>3, <2>1 DEF Running, Held, Has
  <2> QED
    BY <1>0, <1>3, <2>1, <2>2, PlaceFacts DEF PlacesMean
<1>6. ASSUME NEW d \in Conns, d # c PROVE Places(d)' = Places(d)
  <2>1. \A q \in Procs : Running(q)' /\ Has(q, d)' <=> Running(q) /\ Has(q, d)
    BY <1>2, <1>1, <1>3, <1>6 DEF Running, Has
  <2> QED
    BY <1>3, <2>1, PlaceFacts DEF PlacesMean
<1>7. Promise!Enter(c)
  BY <1>3, <1>4, <1>5, <1>6, ClosedSame DEF Promise!Enter
<1> QED
  BY <1>7 DEF Promise!Next

\* SendFD is a step of the promise.
LEMMA SendStep ==
  ASSUME IInv, NEW p \in Procs, SendFD(p) PROVE Promise!Next
<1> USE Distinct
<1>1. PICK s \in Sockets(p), n \in Fds :
        /\ table[p][n] \in Conns
        /\ queue' = [queue EXCEPT ![Other(table[p][s])] = Append(@, table[p][n])]
  BY DEF SendFD
<1> DEFINE to == Other(table[p][s])
           c == table[p][n]
<1>2. to \in Ends /\ Writer[to] = p
  <2>1. Running(p)
    BY DEF SendFD
  <2> QED
    BY <2>1, SocketFacts, EndNames, EndFacts DEF IInv
<1>3. UNCHANGED <<proc, table, opened>> /\ ConnsOnly /\ Running(p)
  BY DEF SendFD, ConnsOnly, objVars, workerVars
<1>4. \A e \in Ends : Range(queue'[e]) = IF e = to THEN Range(queue[e]) \cup {c} ELSE Range(queue[e])
  BY <1>1, <1>2, QueueFacts DEF IInv, TypeOK
<1>5. \A d \in Conns, q \in Procs : Running(q)' /\ Has(q, d)' <=> Running(q) /\ Has(q, d)
  BY <1>3 DEF Running, Has
<1>6. ASSUME NEW d \in Conns PROVE Places(d)' = IF d = c THEN Places(d) \cup {to} ELSE Places(d)
  <2>1. Places(d) \subseteq Procs \cup Ends /\ Places(d)' \subseteq Procs \cup Ends
    BY PlaceFacts DEF PlacesMean
  <2>2. \A q \in Procs : q \in Places(d)' <=> q \in Places(d)
    BY <1>5, PlaceFacts DEF PlacesMean
  <2>3. \A e \in Ends : e \in Places(d)' <=> e \in Places(d) \/ (e = to /\ d = c)
    BY <1>4, PlaceFacts DEF PlacesMean
  <2> HIDE DEF to, c
  <2> QED
    BY <1>2, <2>1, <2>2, <2>3
<1>7. p \in Places(c)
  BY <1>1, <1>3, PlaceFacts DEF PlacesMean, Has
<1>8. Promise!Send(to, c)
  BY <1>1, <1>2, <1>3, <1>6, <1>7, ClosedSame DEF Promise!Send
<1> QED
  BY <1>1, <1>2, <1>8 DEF Promise!Next

\* RecvFD takes what is first in the queue, or refuses it.
LEMMA RecvStep ==
  ASSUME IInv, IInv', NEW p \in Procs, RecvFD(p) PROVE Promise!Next \/ UNCHANGED Promise!vars
<1> USE Distinct
<1>1. PICK s \in Sockets(p) : Receive(p, s) \/ ReceiveTruncated(p, s) \/ ReceiveNothing(p, s)
  BY DEF RecvFD
<1> DEFINE e == table[p][s]
<1>2. e \in Ends /\ s \in Fds /\ Running(p) /\ Reader[e] = p /\ e \notin ClosedEnds
  <2>1. Running(p)
    BY <1>1 DEF Receive, ReceiveTruncated, ReceiveNothing
  <2>2. e \in Ends /\ s \in Fds /\ Reader[e] = p
    BY <2>1, SocketFacts, EndFacts, EndNames DEF IInv
  <2>3. e \notin ClosedEnds
    <3>1. CASE p = Parent
      <4>1. PICK k \in Kids : e = Up(k)
        BY <2>1, <3>1, SocketFacts DEF IInv
      <4> QED
        BY <2>2, <3>1, <4>1, ClosedFacts DEF ClosedMeans, Has
    <3>2. CASE p # Parent
      <4>1. p \in Kids /\ e = Down(p)
        BY <2>1, <3>2, SocketFacts DEF IInv
      <4> QED
        BY <2>1, <4>1, ClosedFacts DEF ClosedMeans, Running
    <3> QED
      BY <3>1, <3>2
  <2> QED
    BY <2>1, <2>2, <2>3
<1>3. ASSUME NEW c \in Conns, c = Head(queue[e]), queue[e] # <<>>, queue' = [queue EXCEPT ![e] = Tail(@)]
      PROVE  /\ e \in Places(c)
             /\ \A d \in Conns, x \in Ends :
                  x \in Places(d)' <=> x \in Places(d) /\ ~(x = e /\ d = c /\ c \notin Range(Tail(queue[e])))
  <2>1. Range(queue[e]) = Range(Tail(queue[e])) \cup {c}
    BY <1>2, <1>3, QueueFacts DEF IInv, TypeOK
  <2>2. \A x \in Ends : queue'[x] = IF x = e THEN Tail(queue[e]) ELSE queue[x]
    BY <1>3 DEF IInv, TypeOK
  <2> QED
    BY <1>2, <1>3, <2>1, <2>2, PlaceFacts DEF PlacesMean
<1>31. ASSUME queue[e] # <<>> PROVE Head(queue[e]) \in Conns
  BY <1>2, <1>31, QueueFacts DEF IInv, TypeOK
<1>4. CASE Receive(p, s)
  <2>0. PICK c \in Conns : c = Head(queue[e])
    BY <1>4, <1>31 DEF Receive
  <2>1. PICK n \in Fds : table[p][n] = None /\ table' = [table EXCEPT ![p][n] = c]
    BY <1>4, <2>0 DEF Receive, Lowest, Free
  <2>2. /\ queue[e] # <<>> /\ queue' = [queue EXCEPT ![e] = Tail(@)] /\ UNCHANGED <<proc, opened>>
        /\ \A q \in Procs, m \in Fds : table'[q][m] = IF q = p /\ m = n THEN c ELSE table[q][m]
    BY <1>4, <2>1 DEF Receive, IInv, TypeOK
  <2>3. ConnsOnly /\ e \in Places(c)
    BY <1>2, <1>3, <1>4, <2>0, <2>1, <2>2 DEF Receive, ConnsOnly, objVars
  <2>4. ASSUME NEW d \in Conns, NEW q \in Procs
        PROVE  q \in Places(d)' <=> q \in Places(d) \/ (q = p /\ d = c)
    <3>1. Running(q)' /\ Has(q, d)' <=> (Running(q) /\ Has(q, d)) \/ (q = p /\ d = c)
      BY <1>2, <2>1, <2>2 DEF Running, Has
    <3> QED
      BY <3>1, PlaceFacts DEF PlacesMean
  <2> DEFINE rest == IF c \in Range(Tail(queue[e])) THEN Places(c) ELSE Places(c) \ {e}
  <2>5. \A d \in Conns : Places(d) \subseteq Procs \cup Ends /\ Places(d)' \subseteq Procs \cup Ends
    BY PlaceFacts DEF PlacesMean
  <2>6. Places(c)' = rest \cup {Reader[e]}
    <3>1. \A q \in Procs : q \in Places(c)' <=> q \in Places(c) \/ q = p
      BY <2>3, <2>4
    <3>2. \A x \in Ends : x \in Places(c)' <=> x \in rest
      BY <1>3, <2>0, <2>2
    <3>3. e \notin Procs
      BY <1>2
    <3> QED
      BY <1>2, <2>3, <2>5, <3>1, <3>2, <3>3
  <2>61. ASSUME NEW d \in Conns, d # c PROVE Places(d)' = Places(d)
    <3>1. \A x \in Procs : x \in Places(d)' <=> x \in Places(d)
      BY <2>4, <2>61
    <3>2. \A x \in Ends : x \in Places(d)' <=> x \in Places(d)
      BY <1>3, <2>0, <2>2, <2>61
    <3> QED
      BY <2>5, <3>1, <3>2
  <2>7. rest \in {Places(c), Places(c) \ {e}}
    OBVIOUS
  <2> HIDE DEF rest
  <2>8. Promise!Take(e, c)
    <3>1. \A d \in Conns : Places(d)' = IF d = c THEN rest \cup {Reader[e]} ELSE Places(d)
      BY <2>6, <2>61
    <3>2. e \in Places(c) \ ClosedEnds /\ ClosedEnds' = ClosedEnds /\ UNCHANGED opened
      BY <1>2, <2>2, <2>3, ClosedSame
    <3>3. /\ [d \in Conns |-> Places(d)][c] = Places(c)
          /\ [d \in Conns |-> Places(d)]' = [[d \in Conns |-> Places(d)] EXCEPT ![c] = rest \cup {Reader[e]}]
      BY <2>3, <3>1
    <3> QED
      BY <2>7, <3>2, <3>3 DEF Promise!Take
  <2> QED
    BY <1>2, <2>3, <2>8 DEF Promise!Next
<1>5. CASE ReceiveTruncated(p, s)
  <2>0. PICK c \in Conns : c = Head(queue[e])
    BY <1>5, <1>31 DEF ReceiveTruncated
  <2>1. /\ queue[e] # <<>> /\ queue' = [queue EXCEPT ![e] = Tail(@)] /\ UNCHANGED <<proc, opened, table>> /\ ConnsOnly
    BY <1>5 DEF ReceiveTruncated, ConnsOnly, objVars, workerVars
  <2>2. \A d \in Conns, q \in Procs : q \in Places(d)' <=> q \in Places(d)
    BY <2>1, PlaceFacts DEF PlacesMean, Running, Has
  <2>3. e \in Places(c)
    BY <1>3, <2>0, <2>1
  <2>31. \A d \in Conns, x \in Ends :
          x \in Places(d)' <=> x \in Places(d) /\ ~(x = e /\ d = c /\ c \notin Range(Tail(queue[e])))
    BY <1>3, <2>0, <2>1
  <2>32. \A d \in Conns : Places(d) \subseteq Procs \cup Ends /\ Places(d)' \subseteq Procs \cup Ends
    BY PlaceFacts DEF PlacesMean
  <2>4. CASE c \in Range(Tail(queue[e]))
    <3>1. \A d \in Conns : Places(d)' = Places(d)
      BY <2>2, <2>4, <2>31, <2>32
    <3> QED
      BY <2>1, <3>1, ClosedSame DEF Promise!vars
  <2>5. CASE c \notin Range(Tail(queue[e]))
    <3>1. \A d \in Conns : Places(d)' = IF d = c THEN Places(d) \ {e} ELSE Places(d)
      BY <1>2, <2>2, <2>31, <2>32, <2>5
    <3>2. Promise!Refuse(e, c)
      BY <1>2, <2>1, <2>3, <3>1, ClosedSame DEF Promise!Refuse
    <3> QED
      BY <1>2, <2>3, <3>2 DEF Promise!Next
  <2> QED
    BY <2>4, <2>5
<1>6. CASE ReceiveNothing(p, s)
  <2>1. UNCHANGED <<proc, table, queue, opened>>
    BY <1>6 DEF ReceiveNothing, kernelVars
  <2>2. \A d \in Conns : Places(d)' = Places(d)
    BY <2>1 DEF Places, Running, Has
  <2>3. ClosedEnds' = ClosedEnds
    BY <2>1 DEF ClosedEnds, Has
  <2> QED
    BY <2>1, <2>2, <2>3 DEF Promise!vars
<1> QED
  BY <1>1, <1>4, <1>5, <1>6

\* A process closes one of its connections, and may have it open once more.
LEMMA ReleaseStep ==
  ASSUME IInv, QueueInv, NEW p \in Procs, Running(p), NEW n \in Fds, Close(p, n),
         table[p][n] \in Conns, UNCHANGED <<proc, obj, create, m_fd, leaked, opened>>
  PROVE  Promise!Next \/ UNCHANGED Promise!vars
<1> USE Distinct
<1>0. PICK c \in Conns : c = table[p][n]
  OBVIOUS
<1>1. \A q \in Procs, m \in Fds : table'[q][m] = IF q = p /\ m = n THEN None ELSE table[q][m]
  BY CloseFacts DEF IInv
<1>2. ConnsOnly
  BY <1>1 DEF ConnsOnly
<1>3. \A e \in Ends : queue'[e] = queue[e]
  BY <1>2, ClosedSame, Cut DEF QueueInv, Close
<1>4. \A d \in Conns, q \in Procs : q # p \/ d # c => (q \in Places(d)' <=> q \in Places(d))
  <2>1. \A d \in Conns, q \in Procs : q # p \/ d # c => (Running(q)' /\ Has(q, d)' <=> Running(q) /\ Has(q, d))
    BY <1>0, <1>1 DEF Running, Has
  <2> QED
    BY <2>1, PlaceFacts DEF PlacesMean
<1>5. \A d \in Conns, e \in Ends : e \in Places(d)' <=> e \in Places(d)
  BY <1>3, PlaceFacts DEF PlacesMean
<1>6. p \in Places(c)
  BY <1>0, PlaceFacts DEF PlacesMean, Has
<1>7. /\ \A d \in Conns : Places(d) \subseteq Procs \cup Ends /\ Places(d)' \subseteq Procs \cup Ends
       /\ p \notin Ends
  BY PlaceFacts DEF PlacesMean
<1>8. CASE p \in Places(c)'
  <2>1. \A d \in Conns : Places(d)' = Places(d)
    BY <1>4, <1>5, <1>6, <1>8, <1>7
  <2> QED
    BY <1>2, <2>1, ClosedSame DEF Promise!vars
<1>9. CASE p \notin Places(c)'
  <2>1. \A d \in Conns : Places(d)' = IF d = c THEN Places(d) \ {p} ELSE Places(d)
    BY <1>4, <1>5, <1>9, <1>7
  <2>2. Promise!Release(p, c)
    BY <1>2, <2>1, ClosedSame DEF Promise!Release
  <2> QED
    BY <2>2, ProcsRead DEF Promise!Next
<1> QED
  BY <1>8, <1>9

-----------------------------------------------------------------------------
\* The initial states map to the initial state.
LEMMA InitMaps == Init => Promise!Init
<1> SUFFICES ASSUME Init PROVE Promise!Init
  OBVIOUS
<1>1. \A c \in Conns : Places(c) = {}
  <2>1. \A p \in Procs, c \in Conns : ~Has(p, c)
    BY Distinct DEF Init, Has
  <2>2. \A c \in Conns, e \in Ends : c \notin Range(queue[e])
    BY DEF Init, Range
  <2> QED
    BY <2>1, <2>2 DEF Places
<1>2. ClosedEnds = {}
  BY Distinct DEF Init, ClosedEnds, Procs
<1> QED
  BY <1>1, <1>2 DEF Init, Promise!Init

\* Every step maps to a step or to none.
LEMMA StepMaps ==
  ASSUME IInv, NotServing, QueueInv, [Next]_vars PROVE [Promise!Next]_(Promise!vars)
<1>1. IInv' /\ QueueInv'
  BY InvStep, QueueInvStep
<1>2. ASSUME NEW n \in Fds, CloseConn(n) PROVE Promise!Next \/ UNCHANGED Promise!vars
  <2>1. Parent \in Procs
    BY DEF Procs
  <2> QED
    BY <1>2, <2>1, ReleaseStep DEF CloseConn, objVars, workerVars
<1>3. ASSUME NEW k \in Kids, NEW n \in Fds, DropClient(k, n) PROVE Promise!Next \/ UNCHANGED Promise!vars
  <2>1. k \in Procs /\ table[k][n] \in Conns
    BY <1>3 DEF Procs, DropClient, IInv, WorkerHoldsItsOwn
  <2> QED
    BY <1>3, <2>1, ReleaseStep DEF DropClient, objVars
<1>4. CASE Dispatcher
  BY <1>1, <1>2, <1>4, DispatcherStep, AcceptStep DEF Dispatcher
<1>5. ASSUME NEW k \in Kids, Worker(k) PROVE Promise!Next \/ UNCHANGED Promise!vars
  BY <1>1, <1>3, <1>5, ProcessStep DEF Worker
<1>6. ASSUME NEW p \in Procs, SendFD(p) \/ SendFDKills(p) \/ RecvFD(p) \/ Exit(p)
      PROVE  Promise!Next \/ UNCHANGED Promise!vars
  BY <1>1, <1>6, SendStep, RecvStep, ProcessStep DEF SendFDKills, Exit, Running
<1>7. CASE UNCHANGED vars
  BY <1>7 DEF vars, kernelVars, Promise!vars, Places, ClosedEnds, Running, Has
<1> QED
  BY <1>4, <1>5, <1>6, <1>7 DEF Next

\* Descriptor passing implements HandOver: a connection is with the processes
\* that accepted or were sent it and at the ends it waits at, and is lost only
\* by a close of its holder or of such an end.
THEOREM HandOverImplemented == Spec => ImplementsHandOver
<1>1. Init => QueueInv
  BY DEF Init, QueueInv
<1>2. Spec => []QueueInv
  BY <1>1, Invariant, QueueInvStep, PTL DEF Spec
<1> QED
  BY <1>2, Invariant, InitMaps, StepMaps, PTL DEF Spec, ImplementsHandOver, Promise!Spec
=============================================================================
