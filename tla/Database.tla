------------------------------ MODULE Database ------------------------------
(***************************************************************************)
(* CSqlite3Client (database/Sqlite3Client.cpp) and CMysqlClient            *)
(* (database/MysqlClient.cpp): one connection, shared by every thread that *)
(* holds the client.  Every method takes the client's mutex for the whole  *)
(* of its body, so one call is one step; what the mutex does not cover is  *)
(* the time between two calls, and a transaction is several calls.         *)
(*                                                                         *)
(* Threads write rows, either one by one or between StartTransaction and   *)
(* CommitTransaction or RollbackTransaction.  They look at every Result:   *)
(* whoever could not start a transaction does not go on with it, whoever   *)
(* meets an error inside one rolls it back.  The engines are modelled by   *)
(* what BEGIN, COMMIT, ROLLBACK and INSERT do on one connection.           *)
(***************************************************************************)
EXTENDS FiniteSets, Naturals

CONSTANTS
  Threads,     \* threads that share the client
  Rows,        \* rows they write, each once
  BACKEND,     \* "sqlite3" or "mysql"
  MaxCrashes   \* times the process is killed

ASSUME DatabaseAssumption ==
  /\ BACKEND \in {"sqlite3", "mysql"}
  /\ MaxCrashes \in Nat

VARIABLES
  conn,     \* m_db / m_conn: "none" (nullptr), "open", or "unlinked"
  inTx,     \* the connection is inside a transaction
  stored,   \* rows that are durable
  staged,   \* rows written inside the connection's transaction
  state,    \* of each thread: "idle", "open" (in a transaction) or "failed"
  unit,     \* rows each thread has written in its transaction
  plain,    \* rows written outside of one, Exec having returned Ok
  kept,     \* rows of units whose CommitTransaction returned Ok
  undone,   \* rows of units given up
  seen,     \* rows a SELECT returned to a thread that had not just written them
  exposed,  \* plain or seen rows met by another thread's transaction
  crashes

connVars == <<conn, inTx, stored, staged>>
historyVars == <<plain, kept, undone, seen, exposed>>
vars == <<connVars, state, unit, historyVars, crashes>>

Used == plain \cup kept \cup undone \cup UNION {unit[th] : th \in Threads}
Fresh == Rows \ Used

Init ==
  /\ conn = "none"
  /\ inTx = FALSE /\ stored = {} /\ staged = {}
  /\ state = [th \in Threads |-> "idle"]
  /\ unit = [th \in Threads |-> {}]
  /\ plain = {} /\ kept = {} /\ undone = {} /\ seen = {} /\ exposed = {}
  /\ crashes = 0

-----------------------------------------------------------------------------
(* Connect and Close.                                                       *)

\* What becomes of an open transaction when its connection goes away.
Abandon == inTx' = FALSE /\ staged' = {} /\ UNCHANGED stored

\* main connects before it starts the threads, and nothing in the program
\* reconnects under a running transaction.
Connect ==
  /\ \A th \in Threads : state[th] = "idle"
  /\ conn' = "open"
  /\ Abandon
  /\ UNCHANGED <<state, unit, historyVars, crashes>>

\* Fault: the failing SQLite client keeps the handle sqlite3_open gave it.
ConnectKeepsHandle ==
  /\ \A th \in Threads : state[th] = "idle"
  /\ conn' \in {"none", "unlinked"}
  /\ Abandon
  /\ UNCHANGED <<state, unit, historyVars, crashes>>

\* A failing sqlite3_open leaves the client without a handle; a missing path is
\* noticed before that, and changes nothing.  The MySQL client can fail with
\* its handle allocated: when a parameter is missing it returns between
\* mysql_init and mysql_real_connect.
ConnectFails ==
  /\ \A th \in Threads : state[th] = "idle"
  /\ conn' \in (IF BACKEND = "mysql" THEN {"none", "unlinked"} ELSE {"none", conn})
  /\ Abandon
  /\ UNCHANGED <<state, unit, historyVars, crashes>>

Close ==
  /\ conn # "none"
  /\ conn' = "none"
  /\ Abandon
  /\ UNCHANGED <<state, unit, historyVars, crashes>>

-----------------------------------------------------------------------------
(* Exec(sql).  It fails without effect if there is no connection, or for    *)
(* reasons of the engine; IsConnected only tests the pointer.               *)

Usable == conn = "open"

\* INSERT: durable at once, unless the connection is inside a transaction.
Insert(r) ==
  /\ Usable
  /\ r \in Fresh
  /\ IF inTx
       THEN staged' = staged \cup {r} /\ UNCHANGED stored
       ELSE stored' = stored \cup {r} /\ UNCHANGED staged
  /\ UNCHANGED <<conn, inTx>>

\* r is written or read while another thread is inside a transaction.
Expose(th, r) ==
  exposed' = IF \E t \in Threads \ {th} : state[t] # "idle"
               THEN exposed \cup {r} ELSE exposed

ExecPlain(th, r) ==
  /\ state[th] = "idle"
  /\ Insert(r)
  /\ plain' = plain \cup {r}
  /\ Expose(th, r)
  /\ UNCHANGED <<state, unit, kept, undone, seen, crashes>>

Exec(th, r) ==
  /\ state[th] = "open"
  /\ Insert(r)
  /\ unit' = [unit EXCEPT ![th] = @ \cup {r}]
  /\ UNCHANGED <<state, historyVars, crashes>>

ExecFails(th) ==
  /\ state[th] = "open"
  /\ state' = [state EXCEPT ![th] = "failed"]
  /\ UNCHANGED <<connVars, unit, historyVars, crashes>>

\* Exec(sql, table): the first row of the result, whoever wrote it.
Query(th) ==
  /\ Usable
  /\ \E r \in (stored \cup staged) \ unit[th] : seen' = seen \cup {r} /\ Expose(th, r)
  /\ UNCHANGED <<connVars, state, unit, plain, kept, undone, crashes>>

-----------------------------------------------------------------------------
(* Transactions.                                                            *)

\* Fault: the error of a second BEGIN is not reported.
StartTransactionUnchecked(th) ==
  /\ state[th] = "idle"
  /\ Usable
  /\ inTx' = TRUE
  /\ state' = [state EXCEPT ![th] = "open"]
  /\ UNCHANGED <<conn, stored, staged, unit, historyVars, crashes>>

\* SQLite refuses a BEGIN inside a transaction.  MySQL commits the one that
\* is open and starts another.
StartTransaction(th) ==
  /\ state[th] = "idle"
  /\ Usable
  /\ BACKEND = "sqlite3" => ~inTx
  /\ inTx' = TRUE
  /\ stored' = stored \cup staged /\ staged' = {}
  /\ state' = [state EXCEPT ![th] = "open"]
  /\ UNCHANGED <<conn, unit, historyVars, crashes>>

\* Outside a transaction COMMIT and ROLLBACK are errors in SQLite and do
\* nothing in MySQL.
Endable == Usable /\ (inTx \/ BACKEND = "mysql")

CommitTransaction(th) ==
  /\ state[th] = "open"
  /\ Endable
  /\ stored' = stored \cup staged /\ staged' = {}
  /\ inTx' = FALSE
  /\ state' = [state EXCEPT ![th] = "idle"]
  /\ kept' = kept \cup unit[th]
  /\ unit' = [unit EXCEPT ![th] = {}]
  /\ UNCHANGED <<conn, plain, undone, seen, exposed, crashes>>

\* Fault: the caller leaves the transaction open after a failed COMMIT.
CommitAbandoned(th) ==
  /\ state[th] = "open"
  /\ state' = [state EXCEPT ![th] = "idle"]
  /\ undone' = undone \cup unit[th]
  /\ unit' = [unit EXCEPT ![th] = {}]
  /\ UNCHANGED <<connVars, plain, kept, seen, exposed, crashes>>

\* COMMIT may fail (the file is locked by another process, the disk is full)
\* and then leaves the transaction open.
CommitFails(th) ==
  /\ state[th] = "open"
  /\ state' = [state EXCEPT ![th] = "failed"]
  /\ UNCHANGED <<connVars, unit, historyVars, crashes>>

\* Fault: COMMIT where ROLLBACK was meant.
RollbackKeeps(th) ==
  /\ state[th] \in {"open", "failed"}
  /\ Endable
  /\ stored' = stored \cup staged /\ staged' = {}
  /\ inTx' = FALSE
  /\ state' = [state EXCEPT ![th] = "idle"]
  /\ undone' = undone \cup unit[th]
  /\ unit' = [unit EXCEPT ![th] = {}]
  /\ UNCHANGED <<conn, plain, kept, seen, exposed, crashes>>

RollbackTransaction(th) ==
  /\ state[th] \in {"open", "failed"}
  /\ Endable
  /\ Abandon
  /\ state' = [state EXCEPT ![th] = "idle"]
  /\ undone' = undone \cup unit[th]
  /\ unit' = [unit EXCEPT ![th] = {}]
  /\ UNCHANGED <<conn, plain, kept, seen, exposed, crashes>>

\* Nothing to roll back any more: the connection is gone.
RollbackFails(th) ==
  /\ state[th] \in {"open", "failed"}
  /\ ~Endable
  /\ state' = [state EXCEPT ![th] = "idle"]
  /\ undone' = undone \cup unit[th]
  /\ unit' = [unit EXCEPT ![th] = {}]
  /\ UNCHANGED <<connVars, plain, kept, seen, exposed, crashes>>

\* The process dies and comes back.
Crash ==
  /\ crashes < MaxCrashes
  /\ crashes' = crashes + 1
  /\ conn' = "none"
  /\ Abandon
  /\ state' = [th \in Threads |-> "idle"]
  /\ undone' = undone \cup UNION {unit[th] : th \in Threads}
  /\ unit' = [th \in Threads |-> {}]
  /\ UNCHANGED <<plain, kept, seen, exposed>>

-----------------------------------------------------------------------------
Finish(th) ==
  CommitTransaction(th) \/ CommitFails(th) \/ RollbackTransaction(th) \/ RollbackFails(th)

Thread(th) ==
  \/ \E r \in Rows : ExecPlain(th, r) \/ Exec(th, r)
  \/ StartTransaction(th) \/ ExecFails(th) \/ Query(th)
  \/ Finish(th)

Next ==
  \/ Connect \/ ConnectFails \/ Close \/ Crash
  \/ \E th \in Threads : Thread(th)

Spec == Init /\ [][Next]_vars

(* A thread that has started a transaction ends it.                         *)
FairSpec == Spec /\ \A th \in Threads : WF_vars(Finish(th))

-----------------------------------------------------------------------------
(* Properties.                                                              *)

\* Every variable has its type, and the SQLite client never holds a handle
\* that is not open.
TypeOK ==
  /\ conn \in {"none", "open", "unlinked"}
  /\ conn = "unlinked" => BACKEND = "mysql"
  /\ inTx \in BOOLEAN
  /\ stored \subseteq Rows /\ staged \subseteq Rows
  /\ state \in [Threads -> {"idle", "open", "failed"}]
  /\ unit \in [Threads -> SUBSET Rows]
  /\ plain \subseteq Rows /\ kept \subseteq Rows /\ undone \subseteq Rows
  /\ seen \subseteq Rows /\ exposed \subseteq Rows
  /\ crashes \in 0 .. MaxCrashes

\* Atomicity: the rows of a committed unit are all stored; of a unit that is
\* still open, or was given up or cut short by a crash or a Close, none is.
Atomic ==
  /\ kept \subseteq stored
  /\ undone \cap stored = {}
  /\ \A th \in Threads : unit[th] \cap stored = {}

\* At most one thread is inside a transaction, and the connection is inside
\* one only while a thread is that will end it: no transaction is orphaned.
OneTransaction ==
  /\ \A s, t \in Threads : state[s] # "idle" /\ state[t] # "idle" => s = t
  /\ inTx => \E th \in Threads : state[th] # "idle"

\* Durability: a row written outside any transaction of its writer is stored
\* once Exec has returned Ok, unless another thread was inside a transaction.
PlainDurable == plain \ exposed \subseteq stored

\* Isolation: what a SELECT returned of the work of others was committed,
\* with the same exception.
ReadCommitted == seen \ exposed \subseteq stored

\* Every transaction ends, so that the others can start theirs.
TransactionEnds == inTx ~> ~inTx
=============================================================================
