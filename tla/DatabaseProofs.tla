--------------------------- MODULE DatabaseProofs ---------------------------
(***************************************************************************)
(* On SQLite, transactions of any number of threads that share one client  *)
(* are atomic, for any rows, across crashes, Close and failed statements.  *)
(***************************************************************************)
EXTENDS Database, TLAPS

\* A thread has a transaction to end.
Busy(th) == state[th] # "idle"

\* The strengthening of Atomic that every step preserves: at most one thread
\* is busy; while the connection is in a transaction its rows are staged, and
\* a busy thread without one has lost its connection; idle threads hold no
\* unit; a row in the database was put there by a call that is accounted for,
\* and rows given up are not even staged.
IInv ==
  /\ TypeOK
  /\ OneTransaction
  /\ Atomic
  /\ PlainDurable /\ ReadCommitted
  /\ inTx => conn = "open" /\ \A th \in Threads : unit[th] \subseteq staged
  /\ ~inTx => staged = {} /\ \A th \in Threads : Busy(th) => conn # "open"
  /\ \A th \in Threads : Busy(th) \/ unit[th] = {}
  /\ undone \cap staged = {}
  /\ stored \cup staged \subseteq Used

\* The bound on crashes, apart from the names of the engines.
LEMMA BoundIsNat == MaxCrashes \in Nat
  BY DatabaseAssumption

\* The initial state is well typed.
LEMMA InitType == Init => TypeOK
<1> SUFFICES ASSUME Init PROVE TypeOK
  OBVIOUS
<1>1. crashes \in 0 .. MaxCrashes
  BY BoundIsNat DEF Init
<1>2. state \in [Threads -> {"idle", "open", "failed"}] /\ unit \in [Threads -> SUBSET Rows]
  BY DEF Init
<1>3. conn = "none" /\ inTx \in BOOLEAN
  BY DEF Init
<1> QED
  BY <1>1, <1>2, <1>3 DEF Init, TypeOK

\* The type invariant is inductive on its own, on either engine.
LEMMA TypeStep == TypeOK /\ [Next]_vars => TypeOK'
<1> SUFFICES ASSUME TypeOK, [Next]_vars PROVE TypeOK'
  OBVIOUS
<1> USE DEF TypeOK, connVars, historyVars, vars
<1>1. CASE Connect \/ ConnectFails \/ Close
  BY <1>1 DEF Connect, ConnectFails, Close, Abandon
<1>2. CASE Crash
  <2>1. crashes' \in 0 .. MaxCrashes
    BY <1>2, BoundIsNat DEF Crash
  <2>2. state' \in [Threads -> {"idle", "open", "failed"}] /\ unit' \in [Threads -> SUBSET Rows]
    BY <1>2 DEF Crash
  <2>3. undone' \subseteq Rows
    BY <1>2 DEF Crash
  <2> QED
    BY <1>2, <2>1, <2>2, <2>3 DEF Crash, Abandon
<1>3. ASSUME NEW th \in Threads, Thread(th) PROVE TypeOK'
  <2>1. ASSUME NEW r \in Rows, ExecPlain(th, r) \/ Exec(th, r) PROVE TypeOK'
    BY <2>1 DEF ExecPlain, Exec, Insert, Expose
  <2>2. CASE StartTransaction(th)
    BY <2>2 DEF StartTransaction
  <2>3. CASE ExecFails(th) \/ CommitFails(th)
    BY <2>3 DEF ExecFails, CommitFails
  <2>4. CASE Query(th)
    BY <2>4 DEF Query, Expose
  <2>5. CASE CommitTransaction(th)
    BY <2>5 DEF CommitTransaction
  <2>6. CASE RollbackTransaction(th)
    BY <2>6 DEF RollbackTransaction, Abandon
  <2>7. CASE RollbackFails(th)
    BY <2>7 DEF RollbackFails
  <2> QED
    BY <1>3, <2>1, <2>2, <2>3, <2>4, <2>5, <2>6, <2>7 DEF Thread, Finish
<1>4. CASE UNCHANGED vars
  BY <1>4
<1> QED
  BY <1>1, <1>2, <1>3, <1>4 DEF Next

\* Types hold in every reachable state, whatever the constants.
THEOREM TypeCorrect == Spec => []TypeOK
  BY InitType, TypeStep, PTL DEF Spec

\* Nothing is written, and nobody busy, before the first step.
LEMMA InitStrong == Init => IInv
<1> SUFFICES ASSUME Init PROVE IInv
  OBVIOUS
<1>1. TypeOK
  BY InitType
<1> QED
  BY <1>1 DEF Init, IInv, OneTransaction, Atomic, PlainDurable, ReadCommitted, Busy, Used

\* Every step of the client on SQLite preserves the strengthened invariant.
LEMMA StrongStep ==
  ASSUME BACKEND = "sqlite3"
  PROVE  IInv /\ [Next]_vars => IInv'
<1> SUFFICES ASSUME IInv, [Next]_vars PROVE IInv'
  OBVIOUS
<1>0. TypeOK'
  BY TypeStep DEF IInv
<1> USE DEF IInv, OneTransaction, Atomic, PlainDurable, ReadCommitted, Busy
<1>1. CASE Connect \/ ConnectFails \/ Close
  BY <1>0, <1>1 DEF Connect, ConnectFails, Close, Abandon, TypeOK, Used, connVars, historyVars
<1>2. CASE Crash
  BY <1>0, <1>2 DEF Crash, Abandon, TypeOK, Used
<1>3. ASSUME NEW th \in Threads, Thread(th) PROVE IInv'
  <2>1. ASSUME NEW r \in Rows, ExecPlain(th, r) PROVE IInv'
    <3>1. r \notin Used /\ Used' = Used \cup {r}
      BY <2>1 DEF ExecPlain, Insert, Fresh, Used
    <3> QED
      BY <1>0, <2>1, <3>1 DEF ExecPlain, Insert, Expose, Usable, Used
  <2>2. ASSUME NEW r \in Rows, Exec(th, r) PROVE IInv'
    <3>1. inTx /\ staged' = staged \cup {r} /\ UNCHANGED <<conn, inTx, stored, state>>
      BY <2>2 DEF Exec, Insert, Usable
    <3>2. UNCHANGED <<plain, kept, undone, seen, exposed>>
      BY <2>2 DEF Exec, historyVars
    <3>3. unit' = [unit EXCEPT ![th] = @ \cup {r}]
      BY <2>2 DEF Exec
    <3>4. r \notin Used
      BY <2>2 DEF Exec, Insert, Fresh
    <3>5. Used' = Used \cup {r}
      BY <3>2, <3>3 DEF Used, TypeOK
    <3>6. r \notin stored /\ r \notin undone
      BY <3>4 DEF Used
    <3>7. \A t \in Threads : unit'[t] \subseteq unit[t] \cup {r} /\ (t # th => unit'[t] = unit[t])
      BY <3>3 DEF TypeOK
    <3>8. state[th] = "open"
      BY <2>2 DEF Exec
    <3> QED
      BY <1>0, <3>1, <3>2, <3>5, <3>6, <3>7, <3>8
  <2>3. CASE StartTransaction(th)
    BY <1>0, <2>3, BACKEND = "sqlite3" DEF StartTransaction, Usable, TypeOK, Used, historyVars
  <2>4. CASE ExecFails(th) \/ CommitFails(th)
    BY <1>0, <2>4 DEF ExecFails, CommitFails, TypeOK, Used, connVars, historyVars
  <2>5. CASE Query(th)
    BY <1>0, <2>5 DEF Query, Expose, Used, connVars
  <2>6. CASE CommitTransaction(th)
    <3>1. Used' = Used
      BY <2>6 DEF CommitTransaction, Used, TypeOK
    <3>2. inTx
      BY <2>6, BACKEND = "sqlite3" DEF CommitTransaction, Endable
    <3>3. \A t \in Threads : t # th => ~Busy(t) /\ unit[t] = {}
      BY <2>6 DEF CommitTransaction
    <3> QED
      BY <1>0, <2>6, <3>1, <3>2, <3>3 DEF CommitTransaction, TypeOK
  <2>7. CASE RollbackTransaction(th)
    <3>1. Used' = Used
      BY <2>7 DEF RollbackTransaction, Used, TypeOK
    <3>3. \A t \in Threads : t # th => ~Busy(t) /\ unit[t] = {}
      BY <2>7 DEF RollbackTransaction
    <3> QED
      BY <1>0, <2>7, <3>1, <3>3 DEF RollbackTransaction, Abandon, TypeOK
  <2>8. CASE RollbackFails(th)
    <3>1. Used' = Used
      BY <2>8 DEF RollbackFails, Used, TypeOK
    <3>2. ~inTx
      BY <2>8 DEF RollbackFails, Endable, Usable
    <3>3. \A t \in Threads : t # th => ~Busy(t) /\ unit[t] = {}
      BY <2>8 DEF RollbackFails
    <3> QED
      BY <1>0, <2>8, <3>1, <3>2, <3>3 DEF RollbackFails, TypeOK, connVars
  <2> QED
    BY <1>3, <2>1, <2>2, <2>3, <2>4, <2>5, <2>6, <2>7, <2>8 DEF Thread, Finish
<1>4. CASE UNCHANGED vars
  BY <1>0, <1>4 DEF vars, connVars, historyVars, Used
<1> QED
  BY <1>1, <1>2, <1>3, <1>4 DEF Next

\* Atomicity on SQLite: whatever the threads interleave, a unit is stored as
\* a whole when its CommitTransaction returns Ok, and not at all otherwise.
THEOREM AtomicCorrect ==
  ASSUME BACKEND = "sqlite3"
  PROVE  Spec => []Atomic
<1>1. IInv => Atomic
  BY DEF IInv
<1>2. IInv /\ [Next]_vars => IInv'
  BY StrongStep
<1> QED
  BY <1>1, <1>2, InitStrong, PTL DEF Spec

\* On SQLite no two threads are inside a transaction, and none is orphaned.
THEOREM OneTransactionCorrect ==
  ASSUME BACKEND = "sqlite3"
  PROVE  Spec => []OneTransaction
<1>1. IInv => OneTransaction
  BY DEF IInv
<1>2. IInv /\ [Next]_vars => IInv'
  BY StrongStep
<1> QED
  BY <1>1, <1>2, InitStrong, PTL DEF Spec

\* On SQLite a row written by itself is durable once Exec has returned, as
\* long as no other thread was inside a transaction at that moment.
THEOREM PlainDurableCorrect ==
  ASSUME BACKEND = "sqlite3"
  PROVE  Spec => []PlainDurable
<1>1. IInv => PlainDurable
  BY DEF IInv
<1>2. IInv /\ [Next]_vars => IInv'
  BY StrongStep
<1> QED
  BY <1>1, <1>2, InitStrong, PTL DEF Spec

\* On SQLite a thread reads uncommitted rows of others only while they are
\* inside a transaction: none is left behind by a failed one.
THEOREM ReadCommittedCorrect ==
  ASSUME BACKEND = "sqlite3"
  PROVE  Spec => []ReadCommitted
<1>1. IInv => ReadCommitted
  BY DEF IInv
<1>2. IInv /\ [Next]_vars => IInv'
  BY StrongStep
<1> QED
  BY <1>1, <1>2, InitStrong, PTL DEF Spec
=============================================================================
