----------------------------- MODULE ThreadPool -----------------------------
(***************************************************************************)
(* CThreadPool (include/concurrent/ThreadPool.h, concurrent/ThreadPool.cpp)*)
(* at the granularity of its mutex and its condition variable: every       *)
(* acquisition of m_mutex, every critical section, every notification made *)
(* after the unlock, and every join is a step of its own.                  *)
(*                                                                         *)
(* One thread (Owner) constructs, starts, stops and destroys the pool;     *)
(* Clients are the other threads that call AddTask.                        *)
(***************************************************************************)
EXTENDS Naturals, Sequences, FiniteSets

CONSTANTS
  Workers,   \* the threads Start can create
  Clients,   \* threads that call AddTask
  Owner,     \* the thread that calls Start, Stop and the destructor
  Tasks,     \* one element per call of AddTask
  NoTask, NoThread

ASSUME ThreadPoolAssumption ==
  /\ IsFiniteSet(Workers)
  /\ IsFiniteSet(Clients)
  /\ Workers \cap Clients = {}
  /\ Owner \notin Workers \cup Clients
  /\ NoThread \notin Workers \cup Clients \cup {Owner}
  /\ NoTask \notin Tasks

Threads == Workers \cup Clients \cup {Owner}

VARIABLES
  m_workers,  \* elements of the vector of std::thread
  m_tasks,    \* the queue
  m_stop,     \* the flag
  m_mutex,    \* holder of the mutex, or NoThread
  pc,         \* where each thread is
  task,       \* the task a worker has popped, or a client is adding
  future,     \* state of the std::future of each task
  runs,       \* how many times each task has been invoked
  joined      \* threads of m_workers that have been joined

vars == <<m_workers, m_tasks, m_stop, m_mutex, pc, task, future, runs, joined>>

\* The tasks in the queue.
Queued == {m_tasks[i] : i \in DOMAIN m_tasks}

\* The wait set of m_cond.
Asleep == {w \in Workers : pc[w] = "asleep"}

Init ==
  /\ m_workers = {}
  /\ m_tasks = <<>>
  /\ m_stop = FALSE
  /\ m_mutex = NoThread
  /\ pc = [th \in Threads |-> IF th \in Workers THEN "unborn" ELSE "idle"]
  /\ task = [th \in Threads |-> NoTask]
  /\ future = [t \in Tasks |-> "none"]
  /\ runs = [t \in Tasks |-> 0]
  /\ joined = {}

-----------------------------------------------------------------------------
(* LockGuard / UniqueLock on m_mutex, by any thread that is about to enter  *)
(* a critical section; cond.wait reacquires through here as well.           *)
Lock(th) ==
  /\ pc[th] = "lock"
  /\ m_mutex = NoThread
  /\ m_mutex' = th
  /\ pc' = [pc EXCEPT ![th] = "locked"]
  /\ UNCHANGED <<m_workers, m_tasks, m_stop, task, future, runs, joined>>

(* Leaving the critical section: the mutex is released in the same step as  *)
(* the last thing done under it.                                            *)
Unlock(th, next) ==
  /\ pc[th] = "locked"
  /\ m_mutex' = NoThread
  /\ pc' = [pc EXCEPT ![th] = next]

-----------------------------------------------------------------------------
(* The worker loop.                                                         *)

\* m_cond.wait: the predicate is false, release the mutex and sleep at once.
Wait(w) ==
  /\ ~m_stop /\ m_tasks = <<>>
  /\ Unlock(w, "asleep")
  /\ UNCHANGED <<m_workers, m_tasks, m_stop, task, future, runs, joined>>

\* A waiter may wake with nobody having notified it; it tests again.
SpuriousWakeup(w) ==
  /\ pc[w] = "asleep"
  /\ pc' = [pc EXCEPT ![w] = "lock"]
  /\ UNCHANGED <<m_workers, m_tasks, m_stop, m_mutex, task, future, runs, joined>>

\* Fault: a wait that m_stop has ended is taken for a task: front() of an
\* empty queue yields none.
ExitForgotten(w) ==
  /\ m_stop /\ m_tasks = <<>>
  /\ Unlock(w, "run")
  /\ task' = [task EXCEPT ![w] = NoTask]
  /\ UNCHANGED <<m_workers, m_tasks, m_stop, future, runs, joined>>

Exit(w) ==
  /\ m_stop /\ m_tasks = <<>>
  /\ Unlock(w, "exited")
  /\ UNCHANGED <<m_workers, m_tasks, m_stop, task, future, runs, joined>>

\* Fault: front() without pop().
TakeWithoutPop(w) ==
  /\ m_tasks # <<>>
  /\ Unlock(w, "run")
  /\ task' = [task EXCEPT ![w] = Head(m_tasks)]
  /\ UNCHANGED <<m_workers, m_tasks, m_stop, future, runs, joined>>

\* Fault: a stack instead of a queue.
TakeNewest(w) ==
  /\ m_tasks # <<>>
  /\ Unlock(w, "run")
  /\ task' = [task EXCEPT ![w] = m_tasks[Len(m_tasks)]]
  /\ m_tasks' = SubSeq(m_tasks, 1, Len(m_tasks) - 1)
  /\ UNCHANGED <<m_workers, m_stop, future, runs, joined>>

Take(w) ==
  /\ m_tasks # <<>>
  /\ Unlock(w, "run")
  /\ task' = [task EXCEPT ![w] = Head(m_tasks)]
  /\ m_tasks' = Tail(m_tasks)
  /\ UNCHANGED <<m_workers, m_stop, future, runs, joined>>

\* task() outside the lock; the packaged_task stores the result or the
\* exception, so the future becomes ready in either case.
Run(w) ==
  /\ pc[w] = "run"
  /\ runs' = [runs EXCEPT ![task[w]] = @ + 1]
  /\ future' = [future EXCEPT ![task[w]] = "ready"]
  /\ task' = [task EXCEPT ![w] = NoTask]
  /\ pc' = [pc EXCEPT ![w] = "lock"]
  /\ UNCHANGED <<m_workers, m_tasks, m_stop, m_mutex, joined>>

Worker(w) == Wait(w) \/ SpuriousWakeup(w) \/ Exit(w) \/ Take(w) \/ Run(w)

-----------------------------------------------------------------------------
(* AddTask.                                                                 *)

\* Calling a destroyed pool is outside the contract.
CallAddTask(c, t) ==
  /\ pc[c] = "idle"
  /\ pc[Owner] # "gone"
  /\ future[t] = "none"
  /\ future' = [future EXCEPT ![t] = "offered"]
  /\ task' = [task EXCEPT ![c] = t]
  /\ pc' = [pc EXCEPT ![c] = "lock"]
  /\ UNCHANGED <<m_workers, m_tasks, m_stop, m_mutex, runs, joined>>

\* Fault: notify only when the queue was empty before.
EmplaceNotifyIfEmpty(c) ==
  /\ ~m_stop
  /\ Unlock(c, IF m_tasks = <<>> THEN "notify" ELSE "idle")
  /\ m_tasks' = Append(m_tasks, task[c])
  /\ future' = [future EXCEPT ![task[c]] = "pending"]
  /\ task' = [task EXCEPT ![c] = NoTask]
  /\ UNCHANGED <<m_workers, m_stop, runs, joined>>

\* Fault: no notification at all.
EmplaceSilently(c) ==
  /\ ~m_stop
  /\ Unlock(c, "idle")
  /\ m_tasks' = Append(m_tasks, task[c])
  /\ future' = [future EXCEPT ![task[c]] = "pending"]
  /\ task' = [task EXCEPT ![c] = NoTask]
  /\ UNCHANGED <<m_workers, m_stop, runs, joined>>

Emplace(c) ==
  /\ ~m_stop
  /\ Unlock(c, "notify")
  /\ m_tasks' = Append(m_tasks, task[c])
  /\ future' = [future EXCEPT ![task[c]] = "pending"]
  /\ task' = [task EXCEPT ![c] = NoTask]
  /\ UNCHANGED <<m_workers, m_stop, runs, joined>>

\* throw std::runtime_error
Throw(c) ==
  /\ m_stop
  /\ Unlock(c, "idle")
  /\ future' = [future EXCEPT ![task[c]] = "refused"]
  /\ task' = [task EXCEPT ![c] = NoTask]
  /\ UNCHANGED <<m_workers, m_tasks, m_stop, runs, joined>>

\* notify_one wakes one waiter, if there is one.
NotifyOne(c) ==
  /\ pc[c] = "notify"
  /\ IF Asleep = {}
       THEN pc' = [pc EXCEPT ![c] = "idle"]
       ELSE \E w \in Asleep : pc' = [pc EXCEPT ![c] = "idle", ![w] = "lock"]
  /\ UNCHANGED <<m_workers, m_tasks, m_stop, m_mutex, task, future, runs, joined>>

Client(c) ==
  \/ \E t \in Tasks : CallAddTask(c, t)
  \/ Emplace(c) \/ Throw(c) \/ NotifyOne(c)

-----------------------------------------------------------------------------
(* Start, Stop and the destructor.                                          *)

\* One iteration of the loop in Start: Start(n) is n of these.
Launch(w) ==
  /\ pc[Owner] = "idle"
  /\ w \notin m_workers
  /\ m_workers' = m_workers \cup {w}
  /\ pc' = [pc EXCEPT ![w] = "lock"]
  /\ UNCHANGED <<m_tasks, m_stop, m_mutex, task, future, runs, joined>>

CallStop ==
  /\ pc[Owner] = "idle"
  /\ pc' = [pc EXCEPT ![Owner] = "lock"]
  /\ UNCHANGED <<m_workers, m_tasks, m_stop, m_mutex, task, future, runs, joined>>

SetStop ==
  /\ m_stop' = TRUE
  /\ Unlock(Owner, "notify")
  /\ UNCHANGED <<m_workers, m_tasks, task, future, runs, joined>>

\* Fault: notify_one in place of notify_all.
NotifyAllAsOne ==
  /\ pc[Owner] = "notify"
  /\ IF Asleep = {}
       THEN pc' = [pc EXCEPT ![Owner] = "join"]
       ELSE \E w \in Asleep : pc' = [pc EXCEPT ![Owner] = "join", ![w] = "lock"]
  /\ UNCHANGED <<m_workers, m_tasks, m_stop, m_mutex, task, future, runs, joined>>

NotifyAll ==
  /\ pc[Owner] = "notify"
  /\ pc' = [th \in Threads |->
              IF th = Owner THEN "join" ELSE IF th \in Asleep THEN "lock" ELSE pc[th]]
  /\ UNCHANGED <<m_workers, m_tasks, m_stop, m_mutex, task, future, runs, joined>>

Join(w) ==
  /\ pc[Owner] = "join"
  /\ w \in m_workers \ joined
  /\ pc[w] = "exited"
  /\ joined' = joined \cup {w}
  /\ UNCHANGED <<m_workers, m_tasks, m_stop, m_mutex, pc, task, future, runs>>

\* The loop over m_workers is over: Stop returns to its caller ...
StopReturns ==
  /\ pc[Owner] = "join"
  /\ joined = m_workers
  /\ pc' = [pc EXCEPT ![Owner] = "idle"]
  /\ UNCHANGED <<m_workers, m_tasks, m_stop, m_mutex, task, future, runs, joined>>

\* ... or to the destructor, after which the members go: a task still queued
\* breaks its promise.  Nobody may be inside AddTask by then.
Destroy ==
  /\ pc[Owner] = "join"
  /\ joined = m_workers
  /\ \A c \in Clients : pc[c] = "idle"
  /\ pc' = [pc EXCEPT ![Owner] = "gone"]
  /\ m_tasks' = <<>>
  /\ future' = [t \in Tasks |-> IF t \in Queued THEN "broken" ELSE future[t]]
  /\ UNCHANGED <<m_workers, m_stop, m_mutex, task, runs, joined>>

OwnerStep ==
  \/ CallStop \/ SetStop \/ NotifyAll \/ StopReturns \/ Destroy
  \/ \E w \in Workers : Launch(w) \/ Join(w)

-----------------------------------------------------------------------------
Next ==
  \/ \E th \in Threads : Lock(th)
  \/ \E w \in Workers : Worker(w)
  \/ \E c \in Clients : Client(c)
  \/ OwnerStep

Spec == Init /\ [][Next]_vars

(* Threads are scheduled, the mutex starves nobody and every task returns;  *)
(* nobody is obliged to call AddTask, Start or Stop, and no wakeup is       *)
(* promised but the notified ones.                                          *)
Fairness ==
  /\ \A th \in Threads : SF_vars(Lock(th))
  /\ \A w \in Workers : WF_vars(Wait(w) \/ Exit(w) \/ Take(w) \/ Run(w))
  /\ \A c \in Clients : WF_vars(Emplace(c) \/ Throw(c) \/ NotifyOne(c))
  /\ WF_vars(SetStop \/ NotifyAll)
  /\ WF_vars(StopReturns)
  /\ \A w \in Workers : WF_vars(Join(w))

FairSpec == Spec /\ Fairness

-----------------------------------------------------------------------------
(* Properties.                                                              *)

PCs == {"unborn", "idle", "lock", "locked", "asleep", "run", "exited",
        "notify", "join", "gone"}

\* Every variable has its type; workers, clients and the owner are only at
\* the program points of their own code, and no worker comes out of the wait
\* to run nothing.
TypeOK ==
  /\ m_workers \subseteq Workers
  /\ m_tasks \in Seq(Tasks)
  /\ m_stop \in BOOLEAN
  /\ m_mutex \in Threads \cup {NoThread}
  /\ pc \in [Threads -> PCs]
  /\ \A w \in Workers : pc[w] \in {"unborn", "lock", "locked", "asleep", "run", "exited"}
  /\ \A c \in Clients : pc[c] \in {"idle", "lock", "locked", "notify"}
  /\ pc[Owner] \in {"idle", "lock", "locked", "notify", "join", "gone"}
  /\ task \in [Threads -> Tasks \cup {NoTask}]
  /\ \A w \in Workers : pc[w] = "run" => task[w] \in Tasks
  /\ \A c \in Clients : pc[c] \in {"lock", "locked"} => task[c] \in Tasks
  /\ future \in [Tasks -> {"none", "offered", "pending", "ready", "refused", "broken"}]
  /\ runs \in [Tasks -> Nat]
  /\ joined \subseteq m_workers

\* Some worker is executing t.
Held(t) == \E w \in Workers : pc[w] = "run" /\ task[w] = t

\* A task whose AddTask returned is in exactly one place - once in the queue,
\* or in the hands of one worker - until it has run, and then never again: no
\* interleaving of pushes, pops and wakeups loses or repeats one.
ExactlyOnce ==
  /\ \A i, j \in DOMAIN m_tasks : m_tasks[i] = m_tasks[j] => i = j
  /\ \A v, w \in Workers : pc[v] = "run" /\ pc[w] = "run" /\ task[v] = task[w] => v = w
  /\ \A t \in Tasks :
       /\ future[t] = "pending" <=> t \in Queued \/ Held(t)
       /\ ~(t \in Queued /\ Held(t))
       /\ runs[t] = (IF future[t] = "ready" THEN 1 ELSE 0)

\* Notifications still to be sent, and workers on their way to the queue.
Notifying == {c \in Clients : pc[c] = "notify"}
Coming == {w \in Workers : pc[w] \in {"lock", "locked"}}

\* No lost wakeup, counted: as long as a worker sleeps, each queued task has
\* a notification still to be sent or a worker on its way to the queue, so no
\* worker sleeps while there is work nobody is coming for.
NoLostWakeup ==
  Asleep # {} => Len(m_tasks) <= Cardinality(Notifying) + Cardinality(Coming)

\* "Graceful" stop: once Stop has joined every thread of a pool that had any,
\* no task that AddTask accepted is still to run, and none was dropped.
StopDrains ==
  m_stop /\ m_workers # {} /\ joined = m_workers =>
    \A t \in Tasks : future[t] \notin {"pending", "broken"}

\* Nobody can hang in Stop: once the flag is set and notify_all has been
\* called no worker is in the wait set, and none enters it again.
NoSleeperAfterStop ==
  m_stop /\ pc[Owner] # "notify" => Asleep = {}

\* An accepted task eventually runs (or dies with the pool) when the pool
\* has a thread, whatever the order of notifications.
AcceptedTaskRuns ==
  \A t \in Tasks : (future[t] = "pending" /\ m_workers # {}) ~> future[t] # "pending"

\* Stop always returns (tasks that return assumed): no join waits for a
\* worker that sleeps.
StopTerminates ==
  pc[Owner] = "lock" ~> pc[Owner] \in {"idle", "gone"}

-----------------------------------------------------------------------------
(* The refinement of the abstract executor.                                 *)
Executor == INSTANCE TaskExecutor WITH
  pending   <- m_tasks,
  active    <- {t \in Tasks : Held(t)},
  completed <- {t \in Tasks : future[t] = "ready"},
  refused   <- {t \in Tasks : future[t] = "refused"},
  dropped   <- {t \in Tasks : future[t] = "broken"},
  staffed   <- m_workers # {},
  closing   <- m_stop,
  caller    <- CASE pc[Owner] = "idle" -> "free"
                 [] pc[Owner] = "gone" -> "gone"
                 [] OTHER -> "closing"

\* Every behaviour of the pool is one of the abstract executor's: tasks start
\* in the order of acceptance, and Stop returns only with nothing left.
ImplementsExecutor == Executor!ASpec
=============================================================================
