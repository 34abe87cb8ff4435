-------------------------- MODULE ThreadPoolProofs --------------------------
(***************************************************************************)
(* Proofs about ThreadPool for any finite number of workers and clients    *)
(* and any set of tasks.                                                   *)
(***************************************************************************)
EXTENDS ThreadPool, SequenceTheorems, FiniteSetTheorems, TLAPS

-----------------------------------------------------------------------------
(* The type invariant.                                                      *)

\* Every variable keeps its type, and each kind of thread stays at the
\* program points of its own code (CThreadPool as a whole).
THEOREM TypeCorrect == Spec => []TypeOK
<1>1. Init => TypeOK
  <2> SUFFICES ASSUME Init PROVE TypeOK
    OBVIOUS
  <2>1. m_tasks \in Seq(Tasks) /\ runs \in [Tasks -> Nat]
    BY DEF Init
  <2>2. pc \in [Threads -> PCs] /\ task \in [Threads -> Tasks \cup {NoTask}]
    BY DEF Init, PCs
  <2>3. /\ \A w \in Workers : pc[w] = "unborn"
        /\ \A c \in Clients \cup {Owner} : pc[c] = "idle"
    BY ThreadPoolAssumption DEF Init, Threads
  <2> QED
    BY <2>1, <2>2, <2>3 DEF Init, TypeOK
<1>2. TypeOK /\ [Next]_vars => TypeOK'
  <2> SUFFICES ASSUME TypeOK, [Next]_vars PROVE TypeOK'
    OBVIOUS
  <2> USE ThreadPoolAssumption DEF TypeOK, Threads, PCs
  <2>1. ASSUME NEW th \in Threads, Lock(th) PROVE TypeOK'
    BY <2>1 DEF Lock
  <2>2. ASSUME NEW w \in Workers, Wait(w) PROVE TypeOK'
    BY <2>2 DEF Wait, Unlock
  <2>3. ASSUME NEW w \in Workers, SpuriousWakeup(w) PROVE TypeOK'
    BY <2>3 DEF SpuriousWakeup
  <2>4. ASSUME NEW w \in Workers, Exit(w) PROVE TypeOK'
    BY <2>4 DEF Exit, Unlock
  <2>5. ASSUME NEW w \in Workers, Take(w) PROVE TypeOK'
    <3>1. Head(m_tasks) \in Tasks /\ Tail(m_tasks) \in Seq(Tasks)
      BY <2>5, HeadTailProperties DEF Take
    <3> QED BY <2>5, <3>1 DEF Take, Unlock
  <2>6. ASSUME NEW w \in Workers, Run(w) PROVE TypeOK'
    BY <2>6 DEF Run
  <2>7. ASSUME NEW c \in Clients, NEW t \in Tasks, CallAddTask(c, t) PROVE TypeOK'
    BY <2>7 DEF CallAddTask
  <2>8. ASSUME NEW c \in Clients, Emplace(c) PROVE TypeOK'
    BY <2>8 DEF Emplace, Unlock
  <2>9. ASSUME NEW c \in Clients, Throw(c) PROVE TypeOK'
    BY <2>9 DEF Throw, Unlock
  <2>10. ASSUME NEW c \in Clients, NotifyOne(c) PROVE TypeOK'
    BY <2>10 DEF NotifyOne, Asleep
  <2>11. ASSUME NEW w \in Workers, Launch(w) PROVE TypeOK'
    BY <2>11 DEF Launch
  <2>12. CASE CallStop
    BY <2>12 DEF CallStop
  <2>13. CASE SetStop
    BY <2>13 DEF SetStop, Unlock
  <2>14. CASE NotifyAll
    BY <2>14 DEF NotifyAll, Asleep
  <2>15. ASSUME NEW w \in Workers, Join(w) PROVE TypeOK'
    BY <2>15 DEF Join
  <2>16. CASE StopReturns
    BY <2>16 DEF StopReturns
  <2>17. CASE Destroy
    BY <2>17 DEF Destroy
  <2>18. CASE UNCHANGED vars
    BY <2>18 DEF vars
  <2> QED
    BY <2>1, <2>2, <2>3, <2>4, <2>5, <2>6, <2>7, <2>8, <2>9, <2>10, <2>11, <2>12,
       <2>13, <2>14, <2>15, <2>16, <2>17, <2>18 DEF Next, Worker, Client, OwnerStep
<1> QED
  BY <1>1, <1>2, PTL DEF Spec

-----------------------------------------------------------------------------
(* The inductive invariant.                                                 *)

\* The mutex is held by exactly the thread inside a critical section.
MutexInv == \A th \in Threads : pc[th] = "locked" <=> m_mutex = th

\* Each call of AddTask still under way offers a task of its own.
OfferInv ==
  /\ \A c \in Clients : pc[c] \in {"lock", "locked"} => future[task[c]] = "offered"
  /\ \A c, d \in Clients :
       /\ pc[c] \in {"lock", "locked"} /\ pc[d] \in {"lock", "locked"}
       /\ task[c] = task[d]
       => c = d

\* Threads run only once launched, leave only a stopped and empty pool, and
\* are joined only when they have left.
WorkerInv ==
  /\ \A w \in Workers : pc[w] = "unborn" <=> w \notin m_workers
  /\ \A w \in Workers : pc[w] = "exited" => m_stop /\ m_tasks = <<>>
  /\ \A w \in joined : pc[w] = "exited"

\* Where the owner is tells how far the stop has gone.
OwnerInv ==
  /\ pc[Owner] \in {"notify", "join", "gone"} => m_stop
  /\ \A t \in Tasks : future[t] = "broken" => pc[Owner] = "gone" /\ m_workers = {}

IInv ==
  /\ TypeOK
  /\ MutexInv
  /\ OfferInv
  /\ WorkerInv
  /\ OwnerInv
  /\ ExactlyOnce
  /\ NoSleeperAfterStop

\* Appending a new element to a queue without duplicates.
LEMMA AppendDistinct ==
  ASSUME NEW S, NEW q \in Seq(S), NEW e \in S,
         \A i, j \in DOMAIN q : q[i] = q[j] => i = j,
         e \notin {q[i] : i \in DOMAIN q}
  PROVE  LET r == Append(q, e)
         IN  /\ \A i, j \in DOMAIN r : r[i] = r[j] => i = j
             /\ {r[i] : i \in DOMAIN r} = {q[i] : i \in DOMAIN q} \cup {e}
<1> DEFINE r == Append(q, e)
<1>1. /\ r \in Seq(S) /\ Len(r) = Len(q) + 1 /\ Len(q) \in Nat
      /\ \A i \in 1 .. Len(q) : r[i] = q[i]
      /\ r[Len(q) + 1] = e
      /\ DOMAIN q = 1 .. Len(q) /\ DOMAIN r = 1 .. Len(q) + 1
  BY AppendProperties, LenProperties
<1> HIDE DEF r
<1>2. \A i, j \in DOMAIN r : r[i] = r[j] => i = j
  BY <1>1
<1>3. {r[i] : i \in DOMAIN r} = {q[i] : i \in DOMAIN q} \cup {e}
  BY <1>1
<1> QED
  BY <1>2, <1>3 DEF r

\* Popping the head of a queue without duplicates.
LEMMA TailDistinct ==
  ASSUME NEW S, NEW q \in Seq(S), q # <<>>,
         \A i, j \in DOMAIN q : q[i] = q[j] => i = j
  PROVE  LET r == Tail(q)
         IN  /\ Head(q) \in S
             /\ Head(q) \in {q[i] : i \in DOMAIN q}
             /\ \A i, j \in DOMAIN r : r[i] = r[j] => i = j
             /\ {r[i] : i \in DOMAIN r} = {q[i] : i \in DOMAIN q} \ {Head(q)}
<1> DEFINE r == Tail(q)
<1>1. /\ r \in Seq(S) /\ Len(r) = Len(q) - 1 /\ Len(q) \in Nat /\ Len(q) > 0
      /\ \A i \in 1 .. Len(r) : r[i] = q[i + 1]
      /\ DOMAIN q = 1 .. Len(q) /\ DOMAIN r = 1 .. Len(q) - 1
      /\ Head(q) \in S /\ Head(q) = q[1]
  BY HeadTailProperties, LenProperties, EmptySeq
<1> HIDE DEF r
<1>2. \A i, j \in DOMAIN r : r[i] = r[j] => i = j
  BY <1>1
<1>3. \A i \in DOMAIN q : i # 1 => i - 1 \in DOMAIN r /\ r[i - 1] = q[i]
  BY <1>1
<1>4. {r[i] : i \in DOMAIN r} = {q[i] : i \in DOMAIN q} \ {q[1]}
  <2>1. ASSUME NEW i \in DOMAIN r
        PROVE  i + 1 \in DOMAIN q /\ r[i] = q[i + 1] /\ q[i + 1] # q[1]
    BY <1>1
  <2>2. ASSUME NEW i \in DOMAIN q, q[i] # q[1]
        PROVE  q[i] \in {r[k] : k \in DOMAIN r}
    BY <1>3, <2>2
  <2> QED
    BY <2>1, <2>2
<1> QED
  BY <1>1, <1>2, <1>4 DEF r

-----------------------------------------------------------------------------
\* A step that moves no task and starts or ends no execution keeps the
\* account of the tasks.
LEMMA SameHolders ==
  ASSUME ExactlyOnce, UNCHANGED <<m_tasks, task, future, runs>>,
         \A u \in Workers : pc'[u] = "run" <=> pc[u] = "run"
  PROVE  ExactlyOnce'
<1>1. /\ m_tasks' = m_tasks /\ task' = task /\ future' = future /\ runs' = runs
      /\ Queued' = Queued
  BY DEF Queued
<1>2. \A t \in Tasks : Held(t)' <=> Held(t)
  BY <1>1 DEF Held
<1>3. \A v, w \in Workers : pc'[v] = "run" /\ pc'[w] = "run" /\ task'[v] = task'[w] => v = w
  BY <1>1 DEF ExactlyOnce
<1> QED
  BY <1>1, <1>2, <1>3 DEF ExactlyOnce

\* Every step keeps the inductive invariant.
THEOREM Inductive == IInv /\ TypeOK' /\ [Next]_vars => IInv'
<1> SUFFICES ASSUME IInv, TypeOK', [Next]_vars PROVE IInv'
  OBVIOUS
<1> USE ThreadPoolAssumption
<1>1. ASSUME NEW th \in Threads, Lock(th) PROVE IInv'
  <2>1. MutexInv' /\ OfferInv'
    BY <1>1 DEF Lock, IInv, TypeOK, MutexInv, OfferInv, Threads
  <2>2. WorkerInv' /\ OwnerInv'
    BY <1>1 DEF Lock, IInv, TypeOK, WorkerInv, OwnerInv, OfferInv, Threads
  <2>3. ExactlyOnce'
    BY <1>1 DEF Lock, IInv, TypeOK, OfferInv, ExactlyOnce, Held, Queued, Threads
  <2>4. NoSleeperAfterStop'
    BY <1>1 DEF Lock, IInv, TypeOK, OwnerInv, NoSleeperAfterStop, Asleep, Threads
  <2> QED BY <2>1, <2>2, <2>3, <2>4 DEF IInv
<1>2. ASSUME NEW w \in Workers, Wait(w) PROVE IInv'
  <2>1. MutexInv' /\ OfferInv'
    BY <1>2 DEF Wait, Unlock, IInv, TypeOK, MutexInv, OfferInv, Threads
  <2>2. WorkerInv' /\ OwnerInv'
    BY <1>2 DEF Wait, Unlock, IInv, TypeOK, WorkerInv, OwnerInv, OfferInv, Threads
  <2>3. ExactlyOnce'
    BY <1>2 DEF Wait, Unlock, IInv, TypeOK, OfferInv, ExactlyOnce, Held, Queued, Threads
  <2>4. NoSleeperAfterStop'
    BY <1>2 DEF Wait, Unlock, IInv, TypeOK, OwnerInv, NoSleeperAfterStop, Asleep, Threads
  <2> QED BY <2>1, <2>2, <2>3, <2>4 DEF IInv
<1>3. ASSUME NEW w \in Workers, SpuriousWakeup(w) PROVE IInv'
  <2>1. MutexInv' /\ OfferInv'
    BY <1>3 DEF SpuriousWakeup, IInv, TypeOK, MutexInv, OfferInv, Threads
  <2>2. WorkerInv' /\ OwnerInv'
    BY <1>3 DEF SpuriousWakeup, IInv, TypeOK, WorkerInv, OwnerInv, OfferInv, Threads
  <2>3. ExactlyOnce'
    <3>1. \A u \in Workers : pc'[u] = "run" <=> pc[u] = "run"
      BY <1>3 DEF SpuriousWakeup, IInv, TypeOK, WorkerInv, Threads
    <3> QED BY <1>3, <3>1, SameHolders DEF SpuriousWakeup, IInv
  <2>4. NoSleeperAfterStop'
    BY <1>3 DEF SpuriousWakeup, IInv, TypeOK, OwnerInv, NoSleeperAfterStop, Asleep, Threads
  <2> QED BY <2>1, <2>2, <2>3, <2>4 DEF IInv
<1>4. ASSUME NEW w \in Workers, Exit(w) PROVE IInv'
  <2>1. MutexInv' /\ OfferInv'
    BY <1>4 DEF Exit, Unlock, IInv, TypeOK, MutexInv, OfferInv, Threads
  <2>2. WorkerInv' /\ OwnerInv'
    BY <1>4 DEF Exit, Unlock, IInv, TypeOK, WorkerInv, OwnerInv, OfferInv, Threads
  <2>3. ExactlyOnce'
    BY <1>4 DEF Exit, Unlock, IInv, TypeOK, OfferInv, ExactlyOnce, Held, Queued, Threads
  <2>4. NoSleeperAfterStop'
    BY <1>4 DEF Exit, Unlock, IInv, TypeOK, OwnerInv, NoSleeperAfterStop, Asleep, Threads
  <2> QED BY <2>1, <2>2, <2>3, <2>4 DEF IInv
<1>5. ASSUME NEW w \in Workers, Take(w) PROVE IInv'
  <2>1. MutexInv' /\ OfferInv'
    BY <1>5 DEF Take, Unlock, IInv, TypeOK, MutexInv, OfferInv, Threads
  <2>2. WorkerInv' /\ OwnerInv'
    BY <1>5 DEF Take, Unlock, IInv, TypeOK, WorkerInv, OwnerInv, OfferInv, Threads
  <2>3. ExactlyOnce'
    <3> DEFINE h == Head(m_tasks)
    <3>1. /\ h \in Tasks /\ h \in Queued
          /\ \A i, j \in DOMAIN m_tasks' : m_tasks'[i] = m_tasks'[j] => i = j
          /\ Queued' = Queued \ {h}
      <4>1. /\ m_tasks \in Seq(Tasks) /\ m_tasks # <<>>
            /\ \A i, j \in DOMAIN m_tasks : m_tasks[i] = m_tasks[j] => i = j
            /\ m_tasks' = Tail(m_tasks)
        BY <1>5 DEF Take, IInv, TypeOK, ExactlyOnce
      <4>2. /\ h \in Tasks /\ h \in {m_tasks[i] : i \in DOMAIN m_tasks}
            /\ \A i, j \in DOMAIN Tail(m_tasks) :
                 Tail(m_tasks)[i] = Tail(m_tasks)[j] => i = j
            /\ {Tail(m_tasks)[i] : i \in DOMAIN Tail(m_tasks)}
                 = {m_tasks[i] : i \in DOMAIN m_tasks} \ {h}
        BY <4>1, TailDistinct
      <4> HIDE DEF h
      <4> QED BY <4>1, <4>2 DEF Queued
    <3>2. /\ pc[w] = "locked" /\ pc' = [pc EXCEPT ![w] = "run"]
          /\ task' = [task EXCEPT ![w] = h]
          /\ UNCHANGED <<future, runs>>
      BY <1>5 DEF Take, Unlock
    <3> HIDE DEF h
    <3>3. \A t \in Tasks : Held(t)' <=> Held(t) \/ t = h
      BY <3>1, <3>2 DEF IInv, TypeOK, Held, Threads
    <3>4. \A t \in Tasks : /\ future'[t] = "pending" <=> (t \in Queued)' \/ Held(t)'
                           /\ ~((t \in Queued)' /\ Held(t)')
      BY <3>1, <3>2, <3>3 DEF IInv, ExactlyOnce
    <3>5. ASSUME NEW u \in Workers, NEW v \in Workers, pc'[u] = "run", pc'[v] = "run",
                 task'[u] = task'[v]
          PROVE  u = v
      <4>1. ~Held(h)
        BY <3>1 DEF IInv, ExactlyOnce
      <4> QED BY <3>2, <3>5, <4>1 DEF IInv, TypeOK, ExactlyOnce, Held, Threads
    <3> QED BY <3>1, <3>2, <3>4, <3>5 DEF IInv, ExactlyOnce
  <2>4. NoSleeperAfterStop'
    BY <1>5 DEF Take, Unlock, IInv, TypeOK, OwnerInv, NoSleeperAfterStop, Asleep, Threads
  <2> QED BY <2>1, <2>2, <2>3, <2>4 DEF IInv
<1>6. ASSUME NEW w \in Workers, Run(w) PROVE IInv'
  <2>1. MutexInv' /\ OfferInv'
    <3>1. future[task[w]] = "pending"
      BY <1>6 DEF Run, IInv, TypeOK, ExactlyOnce, Held
    <3>2. MutexInv'
      BY <1>6 DEF Run, IInv, TypeOK, MutexInv, Threads
    <3>3. OfferInv'
      BY <1>6, <3>1 DEF Run, IInv, TypeOK, OfferInv, Threads
    <3> QED BY <3>2, <3>3
  <2>2. WorkerInv' /\ OwnerInv'
    BY <1>6 DEF Run, IInv, TypeOK, WorkerInv, OwnerInv, OfferInv, Threads
  <2>3. ExactlyOnce'
    BY <1>6 DEF Run, IInv, TypeOK, OfferInv, ExactlyOnce, Held, Queued, Threads
  <2>4. NoSleeperAfterStop'
    BY <1>6 DEF Run, IInv, TypeOK, OwnerInv, NoSleeperAfterStop, Asleep, Threads
  <2> QED BY <2>1, <2>2, <2>3, <2>4 DEF IInv
<1>7. ASSUME NEW c \in Clients, NEW t \in Tasks, CallAddTask(c, t) PROVE IInv'
  <2>1. MutexInv' /\ OfferInv'
    BY <1>7 DEF CallAddTask, IInv, TypeOK, MutexInv, OfferInv, Threads
  <2>2. WorkerInv' /\ OwnerInv'
    BY <1>7 DEF CallAddTask, IInv, TypeOK, WorkerInv, OwnerInv, OfferInv, Threads
  <2>3. ExactlyOnce'
    BY <1>7 DEF CallAddTask, IInv, TypeOK, OfferInv, ExactlyOnce, Held, Queued, Threads
  <2>4. NoSleeperAfterStop'
    BY <1>7 DEF CallAddTask, IInv, TypeOK, OwnerInv, NoSleeperAfterStop, Asleep, Threads
  <2> QED BY <2>1, <2>2, <2>3, <2>4 DEF IInv
<1>8. ASSUME NEW c \in Clients, Emplace(c) PROVE IInv'
  <2>1. MutexInv' /\ OfferInv'
    BY <1>8 DEF Emplace, Unlock, IInv, TypeOK, MutexInv, OfferInv, Threads
  <2>2. WorkerInv' /\ OwnerInv'
    BY <1>8 DEF Emplace, Unlock, IInv, TypeOK, WorkerInv, OwnerInv, OfferInv, Threads
  <2>3. ExactlyOnce'
    <3> DEFINE e == task[c]
    <3>1. /\ e \in Tasks /\ future[e] = "offered" /\ c \notin Workers
          /\ pc' = [pc EXCEPT ![c] = "notify"] /\ task' = [task EXCEPT ![c] = NoTask]
          /\ future' = [future EXCEPT ![e] = "pending"]
          /\ m_tasks' = Append(m_tasks, e) /\ runs' = runs
      BY <1>8 DEF Emplace, Unlock, IInv, TypeOK, OfferInv
    <3> HIDE DEF e
    <3>2. e \notin Queued /\ ~Held(e) /\ runs[e] = 0
      BY <3>1 DEF IInv, ExactlyOnce
    <3>3. /\ \A i, j \in DOMAIN m_tasks' : m_tasks'[i] = m_tasks'[j] => i = j
          /\ Queued' = Queued \cup {e}
      <4>1. /\ m_tasks \in Seq(Tasks)
            /\ \A i, j \in DOMAIN m_tasks : m_tasks[i] = m_tasks[j] => i = j
            /\ e \notin {m_tasks[i] : i \in DOMAIN m_tasks}
        BY <3>2 DEF IInv, TypeOK, ExactlyOnce, Queued
      <4> QED BY <3>1, <4>1, AppendDistinct DEF Queued
    <3>4. \A w \in Workers : pc'[w] = pc[w] /\ task'[w] = task[w]
      BY <3>1 DEF IInv, TypeOK, Threads
    <3>5. \A t \in Tasks : Held(t)' <=> Held(t)
      BY <3>4 DEF Held
    <3>6. \A t \in Tasks : t # e => future'[t] = future[t]
      BY <3>1 DEF IInv, TypeOK
    <3>7. future'[e] = "pending"
      BY <3>1 DEF IInv, TypeOK
    <3> QED BY <3>1, <3>2, <3>3, <3>4, <3>5, <3>6, <3>7 DEF IInv, ExactlyOnce
  <2>4. NoSleeperAfterStop'
    BY <1>8 DEF Emplace, Unlock, IInv, TypeOK, OwnerInv, NoSleeperAfterStop, Asleep, Threads
  <2> QED BY <2>1, <2>2, <2>3, <2>4 DEF IInv
<1>9. ASSUME NEW c \in Clients, Throw(c) PROVE IInv'
  <2>1. MutexInv' /\ OfferInv'
    BY <1>9 DEF Throw, Unlock, IInv, TypeOK, MutexInv, OfferInv, Threads
  <2>2. WorkerInv' /\ OwnerInv'
    BY <1>9 DEF Throw, Unlock, IInv, TypeOK, WorkerInv, OwnerInv, OfferInv, Threads
  <2>3. ExactlyOnce'
    BY <1>9 DEF Throw, Unlock, IInv, TypeOK, OfferInv, ExactlyOnce, Held, Queued, Threads
  <2>4. NoSleeperAfterStop'
    BY <1>9 DEF Throw, Unlock, IInv, TypeOK, OwnerInv, NoSleeperAfterStop, Asleep, Threads
  <2> QED BY <2>1, <2>2, <2>3, <2>4 DEF IInv
<1>10. ASSUME NEW c \in Clients, NotifyOne(c) PROVE IInv'
  <2>1. /\ \A th \in Threads \ {c} :
              \/ pc'[th] = pc[th]
              \/ th \in Workers /\ pc[th] = "asleep" /\ pc'[th] = "lock"
        /\ pc[c] = "notify" /\ pc'[c] = "idle"
    BY <1>10 DEF NotifyOne, Asleep, IInv, TypeOK, Threads
  <2>2. UNCHANGED <<m_workers, m_tasks, m_stop, m_mutex, task, future, runs, joined>>
    BY <1>10 DEF NotifyOne
  <2> HIDE DEF NotifyOne
  <2>3. MutexInv' /\ OfferInv'
    BY <2>1, <2>2 DEF IInv, MutexInv, OfferInv, Threads
  <2>4. WorkerInv' /\ OwnerInv'
    <3>1. pc'[Owner] = pc[Owner]
      BY <2>1 DEF Threads
    <3>2. WorkerInv'
      BY <2>1, <2>2 DEF IInv, TypeOK, WorkerInv, Threads
    <3> QED BY <2>2, <3>1, <3>2 DEF IInv, OwnerInv
  <2>5. ExactlyOnce'
    <3>1. \A u \in Workers : pc'[u] = "run" <=> pc[u] = "run"
      BY <2>1 DEF Threads
    <3> QED BY <2>2, <3>1, SameHolders DEF IInv
  <2>6. NoSleeperAfterStop'
    BY <2>1, <2>2 DEF IInv, NoSleeperAfterStop, Asleep, Threads
  <2> QED BY <2>3, <2>4, <2>5, <2>6 DEF IInv
<1>11. ASSUME NEW w \in Workers, Launch(w) PROVE IInv'
  <2>1. MutexInv' /\ OfferInv'
    <3>1. pc[w] = "unborn"
      BY <1>11 DEF Launch, IInv, WorkerInv
    <3> QED BY <1>11, <3>1 DEF Launch, IInv, TypeOK, MutexInv, OfferInv, Threads
  <2>2. WorkerInv' /\ OwnerInv'
    BY <1>11 DEF Launch, IInv, TypeOK, WorkerInv, OwnerInv, OfferInv, Threads
  <2>3. ExactlyOnce'
    <3>1. \A u \in Workers : pc'[u] = "run" <=> pc[u] = "run"
      BY <1>11 DEF Launch, IInv, TypeOK, WorkerInv, Threads
    <3> QED BY <1>11, <3>1, SameHolders DEF Launch, IInv
  <2>4. NoSleeperAfterStop'
    BY <1>11 DEF Launch, IInv, TypeOK, OwnerInv, NoSleeperAfterStop, Asleep, Threads
  <2> QED BY <2>1, <2>2, <2>3, <2>4 DEF IInv
<1>12. CASE CallStop
  <2>1. MutexInv' /\ OfferInv'
    BY <1>12 DEF CallStop, IInv, TypeOK, MutexInv, OfferInv, Threads
  <2>2. WorkerInv' /\ OwnerInv'
    BY <1>12 DEF CallStop, IInv, TypeOK, WorkerInv, OwnerInv, OfferInv, Threads
  <2>3. ExactlyOnce'
    <3>1. \A u \in Workers : pc'[u] = "run" <=> pc[u] = "run"
      BY <1>12 DEF CallStop, IInv, TypeOK, WorkerInv, Threads
    <3> QED BY <1>12, <3>1, SameHolders DEF CallStop, IInv
  <2>4. NoSleeperAfterStop'
    BY <1>12 DEF CallStop, IInv, TypeOK, OwnerInv, NoSleeperAfterStop, Asleep, Threads
  <2> QED BY <2>1, <2>2, <2>3, <2>4 DEF IInv
<1>13. CASE SetStop
  <2>1. MutexInv' /\ OfferInv'
    BY <1>13 DEF SetStop, Unlock, IInv, TypeOK, MutexInv, OfferInv, Threads
  <2>2. WorkerInv' /\ OwnerInv'
    BY <1>13 DEF SetStop, Unlock, IInv, TypeOK, WorkerInv, OwnerInv, OfferInv, Threads
  <2>3. ExactlyOnce'
    BY <1>13 DEF SetStop, Unlock, IInv, TypeOK, OfferInv, ExactlyOnce, Held, Queued, Threads
  <2>4. NoSleeperAfterStop'
    BY <1>13 DEF SetStop, Unlock, IInv, TypeOK, OwnerInv, NoSleeperAfterStop, Asleep, Threads
  <2> QED BY <2>1, <2>2, <2>3, <2>4 DEF IInv
<1>14. CASE NotifyAll
  <2>1. MutexInv' /\ OfferInv'
    BY <1>14 DEF NotifyAll, Asleep, IInv, TypeOK, MutexInv, OfferInv, Threads
  <2>2. WorkerInv' /\ OwnerInv'
    BY <1>14 DEF NotifyAll, Asleep, IInv, TypeOK, WorkerInv, OwnerInv, OfferInv, Threads
  <2>3. ExactlyOnce'
    BY <1>14 DEF NotifyAll, Asleep, IInv, TypeOK, OfferInv, ExactlyOnce, Held, Queued, Threads
  <2>4. NoSleeperAfterStop'
    BY <1>14 DEF NotifyAll, IInv, TypeOK, OwnerInv, NoSleeperAfterStop, Asleep, Threads
  <2> QED BY <2>1, <2>2, <2>3, <2>4 DEF IInv
<1>15. ASSUME NEW w \in Workers, Join(w) PROVE IInv'
  <2>1. MutexInv' /\ OfferInv'
    BY <1>15 DEF Join, IInv, TypeOK, MutexInv, OfferInv, Threads
  <2>2. WorkerInv' /\ OwnerInv'
    BY <1>15 DEF Join, IInv, TypeOK, WorkerInv, OwnerInv, OfferInv, Threads
  <2>3. ExactlyOnce'
    BY <1>15 DEF Join, IInv, TypeOK, OfferInv, ExactlyOnce, Held, Queued, Threads
  <2>4. NoSleeperAfterStop'
    BY <1>15 DEF Join, IInv, TypeOK, OwnerInv, NoSleeperAfterStop, Asleep, Threads
  <2> QED BY <2>1, <2>2, <2>3, <2>4 DEF IInv
<1>16. CASE StopReturns
  <2>1. MutexInv' /\ OfferInv'
    BY <1>16 DEF StopReturns, IInv, TypeOK, MutexInv, OfferInv, Threads
  <2>2. WorkerInv' /\ OwnerInv'
    BY <1>16 DEF StopReturns, IInv, TypeOK, WorkerInv, OwnerInv, OfferInv, Threads
  <2>3. ExactlyOnce'
    <3>1. \A u \in Workers : pc'[u] = "run" <=> pc[u] = "run"
      BY <1>16 DEF StopReturns, IInv, TypeOK, WorkerInv, Threads
    <3> QED BY <1>16, <3>1, SameHolders DEF StopReturns, IInv
  <2>4. NoSleeperAfterStop'
    BY <1>16 DEF StopReturns, IInv, TypeOK, OwnerInv, NoSleeperAfterStop, Asleep, Threads
  <2> QED BY <2>1, <2>2, <2>3, <2>4 DEF IInv
<1>17. CASE Destroy
  <2>1. /\ pc' = [pc EXCEPT ![Owner] = "gone"] /\ pc[Owner] = "join"
        /\ m_tasks' = <<>> /\ joined = m_workers
        /\ future' = [t \in Tasks |-> IF t \in Queued THEN "broken" ELSE future[t]]
        /\ \A c \in Clients : pc[c] = "idle"
        /\ UNCHANGED <<m_workers, m_stop, m_mutex, task, runs, joined>>
    BY <1>17 DEF Destroy
  <2>2. \A th \in Threads \ {Owner} : pc'[th] = pc[th]
    BY <2>1 DEF IInv, TypeOK
  <2>3. pc'[Owner] = "gone"
    BY <2>1 DEF IInv, TypeOK, Threads
  <2>4. MutexInv' /\ OfferInv'
    BY <2>1, <2>2, <2>3 DEF IInv, MutexInv, OfferInv, Threads
  <2>5. WorkerInv'
    BY <2>1, <2>2 DEF IInv, TypeOK, WorkerInv, Threads
  <2>6. OwnerInv'
    <3>1. m_stop
      BY <2>1 DEF IInv, OwnerInv
    <3>2. ASSUME NEW t \in Tasks, t \in Queued PROVE m_workers = {}
      BY <2>1, <3>2 DEF IInv, TypeOK, WorkerInv, Queued
    <3> QED BY <2>1, <2>3, <3>1, <3>2 DEF IInv, OwnerInv
  <2>7. ExactlyOnce'
    <3>1. Queued' = {} /\ DOMAIN m_tasks' = {}
      BY <2>1 DEF Queued
    <3>2. \A w \in Workers : pc'[w] = pc[w] /\ task'[w] = task[w]
      BY <2>1, <2>2 DEF Threads
    <3>3. \A t \in Tasks : Held(t)' <=> Held(t)
      BY <3>2 DEF Held
    <3> QED BY <2>1, <3>1, <3>2, <3>3 DEF IInv, ExactlyOnce
  <2>8. NoSleeperAfterStop'
    BY <2>1, <2>2 DEF IInv, NoSleeperAfterStop, Asleep, Threads
  <2> QED BY <2>4, <2>5, <2>6, <2>7, <2>8 DEF IInv
<1>18. CASE UNCHANGED vars
  <2>1. MutexInv' /\ OfferInv'
    BY <1>18 DEF vars, IInv, TypeOK, MutexInv, OfferInv, Threads
  <2>2. WorkerInv' /\ OwnerInv'
    BY <1>18 DEF vars, IInv, TypeOK, WorkerInv, OwnerInv, OfferInv, Threads
  <2>3. ExactlyOnce'
    BY <1>18 DEF vars, IInv, TypeOK, OfferInv, ExactlyOnce, Held, Queued, Threads
  <2>4. NoSleeperAfterStop'
    BY <1>18 DEF vars, IInv, TypeOK, OwnerInv, NoSleeperAfterStop, Asleep, Threads
  <2> QED BY <2>1, <2>2, <2>3, <2>4 DEF IInv
<1> QED
  BY <1>1, <1>2, <1>3, <1>4, <1>5, <1>6, <1>7, <1>8, <1>9, <1>10, <1>11, <1>12, <1>13, <1>14, <1>15, <1>16, <1>17, <1>18
     DEF Next, Worker, Client, OwnerStep

-----------------------------------------------------------------------------
(* What follows from the inductive invariant.                               *)

\* The inductive invariant holds initially and hence always.
THEOREM Invariance == Spec => []IInv
<1>1. Init /\ TypeOK => IInv
  <2> SUFFICES ASSUME Init, TypeOK PROVE IInv
    OBVIOUS
  <2>1. /\ \A w \in Workers : pc[w] = "unborn"
        /\ \A c \in Clients \cup {Owner} : pc[c] = "idle"
    BY ThreadPoolAssumption DEF Init, Threads
  <2>2. MutexInv /\ OfferInv /\ WorkerInv /\ OwnerInv
    BY <2>1, ThreadPoolAssumption DEF Init, MutexInv, OfferInv, WorkerInv, OwnerInv, Threads
  <2>3. ExactlyOnce
    <3>1. DOMAIN m_tasks = {} /\ Queued = {} /\ \A t \in Tasks : ~Held(t)
      BY <2>1 DEF Init, Queued, Held
    <3> QED BY <2>1, <3>1 DEF Init, ExactlyOnce
  <2>4. NoSleeperAfterStop
    BY DEF Init, NoSleeperAfterStop
  <2> QED BY <2>2, <2>3, <2>4 DEF IInv
<1> QED
  BY <1>1, Inductive, TypeCorrect, PTL DEF Spec

\* CThreadPool runs every accepted task once: push, pop and execution under
\* any interleaving neither lose nor repeat one.
THEOREM ExactlyOnceCorrect == Spec => []ExactlyOnce
<1>1. IInv => ExactlyOnce
  BY DEF IInv
<1> QED
  BY <1>1, Invariance, PTL

\* After the notify_all of CThreadPool::Stop no worker sleeps on m_cond.
THEOREM NoSleeperCorrect == Spec => []NoSleeperAfterStop
<1>1. IInv => NoSleeperAfterStop
  BY DEF IInv
<1> QED
  BY <1>1, Invariance, PTL

\* When CThreadPool::Stop has joined the threads of a pool that has some,
\* every task that AddTask accepted has run.
THEOREM StopDrainsCorrect == Spec => []StopDrains
<1>1. IInv => StopDrains
  <2> SUFFICES ASSUME IInv, m_stop, m_workers # {}, joined = m_workers, NEW t \in Tasks
               PROVE  future[t] \notin {"pending", "broken"}
    BY DEF StopDrains
  <2>1. future[t] # "broken"
    BY DEF IInv, OwnerInv
  <2>2. m_tasks = <<>>
    BY DEF IInv, TypeOK, WorkerInv
  <2>3. t \notin Queued
    BY <2>2 DEF Queued
  <2>4. ~Held(t)
    BY DEF IInv, TypeOK, WorkerInv, Held
  <2> QED
    BY <2>1, <2>3, <2>4 DEF IInv, ExactlyOnce
<1> QED
  BY <1>1, Invariance, PTL

-----------------------------------------------------------------------------
(* No lost wakeup: an argument by counting.                                 *)

\* The two sets counted are finite, and a larger one counts for more.
LEMMA Counts ==
  ASSUME NEW S, NEW T, IsFiniteSet(T), S \subseteq T
  PROVE  /\ IsFiniteSet(S)
         /\ Cardinality(S) \in Nat /\ Cardinality(T) \in Nat
         /\ Cardinality(S) <= Cardinality(T)
BY FS_Subset, FS_CardinalityType

\* The sets of workers and calls that NoLostWakeup counts are finite, so that
\* their cardinalities are numbers.
LEMMA FiniteCounts ==
  /\ IsFiniteSet(Notifying) /\ Cardinality(Notifying) \in Nat
  /\ IsFiniteSet(Coming) /\ Cardinality(Coming) \in Nat
<1>1. Notifying \subseteq Clients /\ Coming \subseteq Workers
  BY DEF Notifying, Coming
<1> QED
  BY <1>1, Counts, ThreadPoolAssumption

\* A step that leaves the queue as it is, drops no notification and turns no
\* worker back keeps the count, unless it puts a worker to sleep.
LEMMA CountKept ==
  ASSUME NoLostWakeup, Len(m_tasks) \in Nat,
         m_tasks' = m_tasks, Asleep' \subseteq Asleep,
         Notifying \subseteq Notifying', Coming \subseteq Coming'
  PROVE  NoLostWakeup'
<1>1. /\ IsFiniteSet(Notifying') /\ IsFiniteSet(Coming')
      /\ Cardinality(Notifying') \in Nat /\ Cardinality(Coming') \in Nat
  <2>1. Notifying' \subseteq Clients /\ Coming' \subseteq Workers
    BY DEF Notifying, Coming
  <2> QED BY <2>1, Counts, ThreadPoolAssumption
<1>2. /\ Cardinality(Notifying) <= Cardinality(Notifying')
      /\ Cardinality(Coming) <= Cardinality(Coming')
  BY <1>1, Counts
<1>3. CASE Asleep' = {}
  BY <1>3 DEF NoLostWakeup
<1>4. CASE Asleep' # {}
  <2>1. Len(m_tasks) <= Cardinality(Notifying) + Cardinality(Coming)
    BY <1>4 DEF NoLostWakeup
  <2> QED BY <1>1, <1>2, <2>1, FiniteCounts DEF NoLostWakeup
<1> QED BY <1>3, <1>4

\* As long as a worker of CThreadPool sleeps, every queued task has a
\* notify_one still to come or a worker on its way to the queue.
THEOREM NoLostWakeupCorrect == Spec => []NoLostWakeup
<1>1. Init => NoLostWakeup
  BY ThreadPoolAssumption DEF Init, NoLostWakeup, Asleep, Threads
<1>2. TypeOK /\ TypeOK' /\ NoLostWakeup /\ [Next]_vars => NoLostWakeup'
  <2> SUFFICES ASSUME TypeOK, TypeOK', NoLostWakeup, [Next]_vars PROVE NoLostWakeup'
    OBVIOUS
  <2> DEFINE N == Cardinality(Notifying)
             C == Cardinality(Coming)
  <2>0. /\ Len(m_tasks) \in Nat /\ Len(m_tasks') \in Nat /\ Len(<<>>) = 0
        /\ N \in Nat /\ C \in Nat
    BY FiniteCounts, LenProperties, EmptySeq DEF TypeOK
  <2>a. N' \in Nat /\ C' \in Nat
    <3>1. Notifying' \subseteq Clients /\ Coming' \subseteq Workers
      BY DEF Notifying, Coming
    <3> QED BY <3>1, Counts, ThreadPoolAssumption
  <2> USE ThreadPoolAssumption
  <2>1. ASSUME NEW th \in Threads, Lock(th) PROVE NoLostWakeup'
    <3>1. Asleep' \subseteq Asleep /\ Notifying \subseteq Notifying' /\ Coming \subseteq Coming'
      BY <2>1 DEF Lock, TypeOK, Threads, Asleep, Notifying, Coming
    <3> QED BY <2>0, <2>1, <3>1, CountKept DEF Lock
  <2>2. ASSUME NEW w \in Workers, Wait(w) \/ Exit(w) PROVE NoLostWakeup'
    BY <2>0, <2>a, <2>2 DEF Wait, Exit, NoLostWakeup
  <2>3. ASSUME NEW w \in Workers, SpuriousWakeup(w) \/ Run(w) \/ Launch(w) PROVE NoLostWakeup'
    <3>1. Asleep' \subseteq Asleep /\ Notifying \subseteq Notifying' /\ Coming \subseteq Coming'
      BY <2>3 DEF SpuriousWakeup, Run, Launch, TypeOK, Threads, Asleep, Notifying, Coming
    <3> QED BY <2>0, <2>3, <3>1, CountKept DEF SpuriousWakeup, Run, Launch
  <2>4. ASSUME NEW w \in Workers, Take(w) PROVE NoLostWakeup'
    <3>1. Len(m_tasks') = Len(m_tasks) - 1
      BY <2>4, HeadTailProperties DEF Take, TypeOK
    <3>2. /\ Asleep' = Asleep /\ Notifying' = Notifying
          /\ Coming' = Coming \ {w} /\ w \in Coming
      BY <2>4 DEF Take, Unlock, TypeOK, Threads, Asleep, Notifying, Coming
    <3>3. C' = C - 1
      BY <3>2, FiniteCounts, FS_RemoveElement
    <3>4. N' = N
      BY <3>2
    <3> HIDE DEF N, C
    <3> QED BY <2>0, <3>1, <3>2, <3>3, <3>4 DEF NoLostWakeup, N, C
  <2>5. ASSUME NEW c \in Clients, NEW t \in Tasks, CallAddTask(c, t) PROVE NoLostWakeup'
    <3>1. Asleep' \subseteq Asleep /\ Notifying \subseteq Notifying' /\ Coming \subseteq Coming'
      BY <2>5 DEF CallAddTask, TypeOK, Threads, Asleep, Notifying, Coming
    <3> QED BY <2>0, <2>5, <3>1, CountKept DEF CallAddTask
  <2>6. ASSUME NEW c \in Clients, Emplace(c) PROVE NoLostWakeup'
    <3>1. Len(m_tasks') = Len(m_tasks) + 1
      BY <2>6, AppendProperties DEF Emplace, Unlock, TypeOK
    <3>2. /\ Asleep' = Asleep /\ Coming' = Coming
          /\ Notifying' = Notifying \cup {c} /\ c \notin Notifying
      BY <2>6 DEF Emplace, Unlock, TypeOK, Threads, Asleep, Notifying, Coming
    <3>3. N' = N + 1
      BY <3>2, FiniteCounts, FS_AddElement
    <3>4. C' = C
      BY <3>2
    <3> QED BY <2>0, <3>1, <3>2, <3>3, <3>4 DEF NoLostWakeup
  <2>7. ASSUME NEW c \in Clients, Throw(c) PROVE NoLostWakeup'
    <3>1. Asleep' \subseteq Asleep /\ Notifying \subseteq Notifying' /\ Coming \subseteq Coming'
      BY <2>7 DEF Throw, Unlock, TypeOK, Threads, Asleep, Notifying, Coming
    <3> QED BY <2>0, <2>7, <3>1, CountKept DEF Throw
  <2>8. ASSUME NEW c \in Clients, NotifyOne(c) PROVE NoLostWakeup'
    <3>1. CASE Asleep = {}
      <4>1. Asleep' = {}
        BY <2>8, <3>1 DEF NotifyOne, TypeOK, Threads, Asleep
      <4> QED BY <4>1 DEF NoLostWakeup
    <3>2. CASE Asleep # {}
      <4>1. PICK w \in Asleep : pc' = [pc EXCEPT ![c] = "idle", ![w] = "lock"]
        BY <2>8, <3>2 DEF NotifyOne
      <4>2. w \in Workers /\ pc[w] = "asleep" /\ c \in Threads /\ w \in Threads /\ w # c
        BY DEF Asleep, Threads
      <4>3. /\ pc'[c] = "idle" /\ pc'[w] = "lock"
            /\ \A th \in Threads \ {c, w} : pc'[th] = pc[th]
        BY <4>1, <4>2 DEF TypeOK
      <4>4. /\ Notifying' = Notifying \ {c} /\ c \in Notifying
            /\ Coming' = Coming \cup {w} /\ w \notin Coming
        BY <2>8, <4>2, <4>3 DEF NotifyOne, Notifying, Coming, Threads
      <4>5. N' = N - 1 /\ C' = C + 1
        BY <4>4, FiniteCounts, FS_RemoveElement, FS_AddElement
      <4>6. m_tasks' = m_tasks
        BY <2>8 DEF NotifyOne
      <4> QED BY <2>0, <3>2, <4>5, <4>6 DEF NoLostWakeup
    <3> QED BY <3>1, <3>2
  <2>9. CASE CallStop \/ SetStop \/ StopReturns
    <3>1. Asleep' \subseteq Asleep /\ Notifying \subseteq Notifying' /\ Coming \subseteq Coming'
      BY <2>9 DEF CallStop, SetStop, Unlock, StopReturns, TypeOK, Threads, Asleep, Notifying, Coming
    <3> QED BY <2>0, <2>9, <3>1, CountKept DEF CallStop, SetStop, StopReturns
  <2>10. CASE NotifyAll
    <3>1. Asleep' = {}
      BY <2>10 DEF NotifyAll, Threads, Asleep
    <3> QED BY <3>1 DEF NoLostWakeup
  <2>11. CASE Destroy
    BY <2>0, <2>a, <2>11 DEF Destroy, NoLostWakeup
  <2>12. ASSUME NEW w \in Workers, Join(w) PROVE NoLostWakeup'
    BY <2>12 DEF Join, NoLostWakeup, Asleep, Notifying, Coming
  <2>13. CASE UNCHANGED vars
    BY <2>13 DEF vars, NoLostWakeup, Asleep, Notifying, Coming
  <2> QED
    BY <2>1, <2>2, <2>3, <2>4, <2>5, <2>6, <2>7, <2>8, <2>9, <2>10, <2>11, <2>12, <2>13
       DEF Next, Worker, Client, OwnerStep
<1> QED
  BY <1>1, <1>2, TypeCorrect, PTL DEF Spec

-----------------------------------------------------------------------------
(* CThreadPool implements the abstract executor.                            *)

\* What the abstract executor sees of the state.
Active == {t \in Tasks : Held(t)}
In(f) == {t \in Tasks : future[t] = f}
CallerOf(p) == CASE p = "idle" -> "free" [] p = "gone" -> "gone" [] OTHER -> "closing"

\* A step that changes nothing the abstract executor sees.
LEMMA Stutter ==
  ASSUME UNCHANGED <<m_tasks, m_stop, m_workers>>, Active' = Active,
         In("ready")' = In("ready"), In("refused")' = In("refused"),
         In("broken")' = In("broken"),
         CallerOf(pc[Owner])' = CallerOf(pc[Owner])
  PROVE  UNCHANGED Executor!avars
BY DEF Executor!avars, Active, In, CallerOf

\* Workers that neither start nor end a task leave the active ones alone.
LEMMA SameActive ==
  ASSUME \A w \in Workers : pc'[w] = "run" <=> pc[w] = "run", task' = task
  PROVE  Active' = Active
BY DEF Active, Held

\* Every behaviour of CThreadPool is one of the abstract executor: tasks
\* start in the order of acceptance, none is accepted once stopping has
\* begun, and Stop returns only with nothing active or left behind.
THEOREM Refinement == Spec => ImplementsExecutor
<1>1. Init => Executor!AInit
  <2> SUFFICES ASSUME Init PROVE Executor!AInit
    OBVIOUS
  <2>1. /\ \A w \in Workers : pc[w] = "unborn"
        /\ pc[Owner] = "idle"
    BY ThreadPoolAssumption DEF Init, Threads
  <2> QED BY <2>1 DEF Init, Executor!AInit, Held
<1>2. IInv /\ IInv' /\ [Next]_vars => [Executor!ANext]_(Executor!avars)
  <2> SUFFICES ASSUME IInv, IInv', [Next]_vars
               PROVE  [Executor!ANext]_(Executor!avars)
    OBVIOUS
  <2> USE ThreadPoolAssumption
  <2>1. ASSUME NEW th \in Threads, Lock(th) PROVE UNCHANGED Executor!avars
    <3>1. /\ \A u \in Workers : pc'[u] = "run" <=> pc[u] = "run"
          /\ CallerOf(pc[Owner])' = CallerOf(pc[Owner])
      BY <2>1 DEF Lock, IInv, TypeOK, Threads, CallerOf
    <3> QED BY <2>1, <3>1, SameActive, Stutter DEF Lock, In
  <2>2. ASSUME NEW w \in Workers, Wait(w) \/ SpuriousWakeup(w) \/ Exit(w)
        PROVE  UNCHANGED Executor!avars
    <3>1. /\ \A v \in Workers : pc'[v] = "run" <=> pc[v] = "run"
          /\ CallerOf(pc[Owner])' = CallerOf(pc[Owner])
      BY <2>2 DEF Wait, SpuriousWakeup, Exit, Unlock, IInv, TypeOK, Threads, CallerOf
    <3> QED BY <2>2, <3>1, SameActive, Stutter DEF Wait, SpuriousWakeup, Exit, In
  <2>3. ASSUME NEW w \in Workers, Take(w) PROVE Executor!Begin
    <3>1. /\ w \in m_workers /\ pc'[Owner] = pc[Owner]
      BY <2>3 DEF Take, Unlock, IInv, TypeOK, WorkerInv, Threads
    <3>2. Head(m_tasks) \in Tasks
      BY <2>3, HeadTailProperties DEF Take, IInv, TypeOK
    <3>3. Active' = Active \cup {Head(m_tasks)}
      BY <2>3, <3>2 DEF Take, Unlock, IInv, TypeOK, Threads, Active, Held
    <3> QED BY <2>3, <3>1, <3>3 DEF Take, Executor!Begin, Active
  <2>4. ASSUME NEW w \in Workers, Run(w) PROVE \E t \in Tasks : Executor!End(t)
    <3> DEFINE t == task[w]
    <3>1. /\ t \in Tasks /\ pc'[Owner] = pc[Owner]
          /\ \A v \in Workers \ {w} : pc'[v] = pc[v] /\ task'[v] = task[v]
          /\ pc[w] = "run" /\ pc'[w] = "lock"
          /\ future' = [future EXCEPT ![t] = "ready"]
          /\ UNCHANGED <<m_tasks, m_stop, m_workers>>
      BY <2>4 DEF Run, IInv, TypeOK, Threads
    <3>2. Held(t) /\ future[t] = "pending"
      BY <3>1 DEF IInv, ExactlyOnce, Held
    <3>3. \A v \in Workers : pc[v] = "run" /\ task[v] = t => v = w
      BY <3>1 DEF IInv, ExactlyOnce
    <3> HIDE DEF t
    <3>4. Active' = Active \ {t}
      <4>1. ASSUME NEW u \in Tasks PROVE Held(u)' <=> Held(u) /\ u # t
        BY <3>1, <3>3 DEF Held, t
      <4> QED BY <4>1 DEF Active
    <3>5. In("ready")' = In("ready") \cup {t}
      BY <3>1 DEF In, IInv, TypeOK
    <3>6. In("refused")' = In("refused") /\ In("broken")' = In("broken")
      BY <3>1, <3>2 DEF In, IInv, TypeOK
    <3>7. t \in Active
      BY <3>1, <3>2 DEF Active
    <3> QED BY <3>1, <3>4, <3>5, <3>6, <3>7 DEF Executor!End, Active, In
  <2>5. ASSUME NEW c \in Clients, NEW t \in Tasks, CallAddTask(c, t)
        PROVE  UNCHANGED Executor!avars
    <3>1. /\ \A w \in Workers : pc'[w] = pc[w] /\ task'[w] = task[w]
          /\ CallerOf(pc[Owner])' = CallerOf(pc[Owner])
      BY <2>5 DEF CallAddTask, IInv, TypeOK, Threads, CallerOf
    <3>2. Active' = Active
      BY <3>1 DEF Active, Held
    <3>3. /\ In("ready")' = In("ready") /\ In("refused")' = In("refused")
          /\ In("broken")' = In("broken")
      BY <2>5 DEF CallAddTask, In, IInv, TypeOK
    <3> QED BY <2>5, <3>1, <3>2, <3>3, Stutter DEF CallAddTask
  <2>6. ASSUME NEW c \in Clients, Emplace(c) PROVE \E t \in Tasks : Executor!Submit(t)
    <3> DEFINE t == task[c]
    <3>1. /\ t \in Tasks /\ future[t] = "offered" /\ ~m_stop
          /\ pc'[Owner] = pc[Owner]
          /\ \A w \in Workers : pc'[w] = pc[w] /\ task'[w] = task[w]
          /\ future' = [future EXCEPT ![t] = "pending"]
          /\ m_tasks' = Append(m_tasks, t)
          /\ UNCHANGED <<m_stop, m_workers>>
      BY <2>6 DEF Emplace, Unlock, IInv, TypeOK, OfferInv, Threads
    <3> HIDE DEF t
    <3>2. Active' = Active
      BY <3>1 DEF Active, Held
    <3>3. /\ In("ready")' = In("ready") /\ In("refused")' = In("refused")
          /\ In("broken")' = In("broken")
      BY <3>1 DEF In, IInv, TypeOK
    <3>4. Executor!Fresh(t)
      <4>1. t \notin Queued /\ ~Held(t)
        BY <3>1 DEF IInv, ExactlyOnce
      <4> QED BY <3>1, <4>1 DEF Executor!Fresh, Executor!Waiting, Queued
    <3> QED BY <3>1, <3>2, <3>3, <3>4 DEF Executor!Submit, Active, In
  <2>7. ASSUME NEW c \in Clients, Throw(c) PROVE \E t \in Tasks : Executor!Refuse(t)
    <3> DEFINE t == task[c]
    <3>1. /\ t \in Tasks /\ future[t] = "offered" /\ m_stop
          /\ pc'[Owner] = pc[Owner]
          /\ \A w \in Workers : pc'[w] = pc[w] /\ task'[w] = task[w]
          /\ future' = [future EXCEPT ![t] = "refused"]
          /\ UNCHANGED <<m_tasks, m_stop, m_workers>>
      BY <2>7 DEF Throw, Unlock, IInv, TypeOK, OfferInv, Threads
    <3> HIDE DEF t
    <3>2. Active' = Active
      BY <3>1 DEF Active, Held
    <3>3. /\ In("ready")' = In("ready") /\ In("refused")' = In("refused") \cup {t}
          /\ In("broken")' = In("broken")
      BY <3>1 DEF In, IInv, TypeOK
    <3>4. Executor!Fresh(t)
      <4>1. t \notin Queued /\ ~Held(t)
        BY <3>1 DEF IInv, ExactlyOnce
      <4> QED BY <3>1, <4>1 DEF Executor!Fresh, Executor!Waiting, Queued
    <3> QED BY <3>1, <3>2, <3>3, <3>4 DEF Executor!Refuse, Active, In
  <2>8. ASSUME NEW c \in Clients, NotifyOne(c) PROVE UNCHANGED Executor!avars
    <3>1. /\ \A u \in Workers : pc'[u] = "run" <=> pc[u] = "run"
          /\ pc'[Owner] = pc[Owner]
      BY <2>8 DEF NotifyOne, Asleep, IInv, TypeOK, Threads
    <3> QED BY <2>8, <3>1, SameActive, Stutter DEF NotifyOne, In, CallerOf
  <2>9. ASSUME NEW w \in Workers, Launch(w) PROVE Executor!Hire
    <3>1. pc[w] = "unborn"
      BY <2>9 DEF Launch, IInv, WorkerInv
    <3>2. /\ \A v \in Workers : pc'[v] = "run" <=> pc[v] = "run"
          /\ pc'[Owner] = pc[Owner]
      BY <2>9, <3>1 DEF Launch, IInv, TypeOK, Threads
    <3>3. Active' = Active
      BY <2>9, <3>2, SameActive DEF Launch
    <3> QED BY <2>9, <3>2, <3>3 DEF Launch, Executor!Hire, Active
  <2>10. CASE CallStop
    <3>1. /\ \A u \in Workers : pc'[u] = "run" <=> pc[u] = "run"
          /\ pc'[Owner] = "lock"
      BY <2>10 DEF CallStop, IInv, TypeOK, Threads
    <3>2. Active' = Active
      BY <2>10, <3>1, SameActive DEF CallStop
    <3>3. Executor!CallClose
      BY <2>10, <3>1, <3>2 DEF CallStop, Executor!CallClose, Active
    <3> QED BY <3>3 DEF Executor!ANext
  <2>11. CASE SetStop
    <3>1. /\ \A u \in Workers : pc'[u] = "run" <=> pc[u] = "run"
          /\ pc'[Owner] = "notify" /\ pc[Owner] = "locked"
      BY <2>11 DEF SetStop, Unlock, IInv, TypeOK, Threads
    <3>2. Active' = Active
      BY <2>11, <3>1, SameActive DEF SetStop
    <3>3. Executor!Close
      BY <2>11, <3>1, <3>2 DEF SetStop, Executor!Close, Active
    <3> QED BY <3>3 DEF Executor!ANext
  <2>12. CASE NotifyAll
    <3>1. /\ \A u \in Workers : pc'[u] = "run" <=> pc[u] = "run"
          /\ pc'[Owner] = "join" /\ pc[Owner] = "notify"
      BY <2>12 DEF NotifyAll, Asleep, IInv, TypeOK, Threads
    <3>2. UNCHANGED Executor!avars
      BY <2>12, <3>1, SameActive, Stutter DEF NotifyAll, In, CallerOf
    <3> QED BY <3>2
  <2>13. ASSUME NEW w \in Workers, Join(w) PROVE UNCHANGED Executor!avars
    BY <2>13, SameActive, Stutter DEF Join, In, CallerOf
  <2>14. ASSUME pc[Owner] = "join", joined = m_workers
         PROVE  m_stop /\ Active = {} /\ (m_workers # {} => m_tasks = <<>>)
    <3>1. m_stop
      BY <2>14 DEF IInv, OwnerInv
    <3>2. \A w \in Workers : pc[w] # "run"
      BY <2>14 DEF IInv, TypeOK, WorkerInv
    <3>3. m_workers # {} => m_tasks = <<>>
      BY <2>14 DEF IInv, TypeOK, WorkerInv
    <3> QED BY <3>1, <3>2, <3>3 DEF Active, Held
  <2>15. CASE StopReturns
    <3>1. /\ \A u \in Workers : pc'[u] = "run" <=> pc[u] = "run"
          /\ pc'[Owner] = "idle" /\ pc[Owner] = "join"
      BY <2>15 DEF StopReturns, IInv, TypeOK, Threads
    <3>2. Active' = Active
      BY <2>15, <3>1, SameActive DEF StopReturns
    <3>3. Executor!ReturnFromClose
      BY <2>14, <2>15, <3>1, <3>2
         DEF StopReturns, Executor!ReturnFromClose, Executor!Drained, Active
    <3> QED BY <3>3 DEF Executor!ANext
  <2>16. CASE Destroy
    <3>1. /\ \A u \in Workers : pc'[u] = "run" <=> pc[u] = "run"
          /\ pc'[Owner] = "gone" /\ pc[Owner] = "join"
      BY <2>16 DEF Destroy, IInv, TypeOK, Threads
    <3>2. Active' = Active
      BY <2>16, <3>1, SameActive DEF Destroy
    <3>3. \A t \in Queued : t \in Tasks /\ future[t] = "pending"
      <4>1. ASSUME NEW t \in Queued PROVE t \in Tasks
        BY ElementOfSeq, LenProperties DEF Queued, IInv, TypeOK
      <4> QED BY <4>1 DEF IInv, ExactlyOnce
    <3>4. /\ In("ready")' = In("ready") /\ In("refused")' = In("refused")
          /\ In("broken")' = In("broken") \cup Queued
      BY <2>16, <3>3 DEF Destroy, In
    <3>5. Executor!Dissolve
      BY <2>14, <2>16, <3>1, <3>2, <3>4
         DEF Destroy, Executor!Dissolve, Executor!Drained, Executor!Waiting, Active, In, Queued
    <3> QED BY <3>5 DEF Executor!ANext
  <2>17. CASE UNCHANGED vars
    BY <2>17, SameActive, Stutter DEF vars, In, CallerOf
  <2> QED
    BY <2>1, <2>2, <2>3, <2>4, <2>5, <2>6, <2>7, <2>8, <2>9, <2>10, <2>11, <2>12, <2>13,
       <2>15, <2>16, <2>17
       DEF Next, Worker, Client, OwnerStep, Executor!ANext
<1> QED
  BY <1>1, <1>2, Invariance, PTL DEF Spec, ImplementsExecutor, Executor!ASpec
=============================================================================
