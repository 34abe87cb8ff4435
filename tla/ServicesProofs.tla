--------------------------- MODULE ServicesProofs ---------------------------
(***************************************************************************)
(* For any number of polls and scripts: scripts that are run one after     *)
(* another never lose a daemon nor start it twice, and a stop leaves none, *)
(* whenever daemons die.  The types hold for any number of operators.      *)
(***************************************************************************)
EXTENDS Services, TLAPS

Starting == {"start", "spawn", "echo", "verify"}
Stopping == {"stop", "term", "poll", "kill"}

\* A function that runs was called by the script, on a service.
CallInv ==
  \A o \in Operators : pc[o] \notin {"idle", "call"} =>
    /\ todo[o] # <<>>
    /\ pc[o] \in Starting => Head(todo[o])[1] = "start"
    /\ pc[o] \in Stopping => Head(todo[o])[1] = "stop"
    /\ pc[o] = "status" => Head(todo[o])[1] = "status"

\* What a script holds in PID between the commands that use it is a process of
\* the service it works on.
PidInv ==
  \A o \in Operators :
    /\ pc[o] \in {"echo", "verify", "term", "poll", "kill"} =>
         pid[o] # NoPid /\ kind[pid[o]] = Service(o)
    /\ pc[o] = "poll" => polls[o] < Polls

\* The processes of service s that live.
LiveOf(s) == {p \in live : kind[p] = s}

\* What a single operator's script may rely on: nobody else has touched the
\* service since it looked.
HoldInv ==
  \A o \in Operators :
    /\ pc[o] = "spawn" => LiveOf(Service(o)) = {}
    /\ pc[o] = "echo" => LiveOf(Service(o)) \subseteq {pid[o]}
    /\ pc[o] \in {"verify", "term", "poll", "kill"} => file[Service(o)] = pid[o]

\* One script at a time.
OneOperator == \A o, p \in Operators : o = p

\* The inductive invariant of one operator.
IInv == TypeOK /\ CallInv /\ PidInv /\ HoldInv /\ Tracked

-----------------------------------------------------------------------------
(* Calls and returns.                                                       *)

\* What is left of a script is a script.
LEMMA RestIsScript ==
  ASSUME NEW S, NEW s \in Seq(S)
  PROVE  SubSeq(s, 3, Len(s)) \in Seq(S) /\ (s # <<>> => Head(s) \in S /\ Tail(s) \in Seq(S))
OBVIOUS

\* Return gives control back to the script, with what is left of it.
LEMMA ReturnFacts ==
  ASSUME TypeOK, CallInv, NEW o \in Operators, NEW ok, pc[o] \notin {"idle", "call"}, Return(o, ok)
  PROVE  /\ pc' = [pc EXCEPT ![o] = "call"]
         /\ todo' \in [Operators -> Seq({"start", "stop", "status"} \X Services)]
         /\ \A p \in Operators \ {o} : todo'[p] = todo[p]
<1> DEFINE Calls == {"start", "stop", "status"} \X Services
<1>1. todo[o] \in Seq(Calls) /\ todo[o] # <<>>
  BY DEF TypeOK, CallInv
<1>2. SubSeq(todo[o], 3, Len(todo[o])) \in Seq(Calls) /\ Tail(todo[o]) \in Seq(Calls) /\ <<>> \in Seq(Calls)
  BY <1>1, RestIsScript
<1>3. PICK rest \in Seq(Calls) : todo' = [todo EXCEPT ![o] = rest]
  BY <1>2 DEF Return
<1>4. todo' \in [Operators -> Seq(Calls)]
  BY <1>3 DEF TypeOK
<1>5. \A p \in Operators \ {o} : todo'[p] = todo[p]
  BY <1>3 DEF TypeOK
<1> QED
  BY <1>4, <1>5 DEF Return, Goto

\* The service a script works on is one.
LEMMA ServiceFacts ==
  ASSUME TypeOK, CallInv, NEW o \in Operators, pc[o] \notin {"idle", "call"}
  PROVE  Service(o) \in Services
<1>1. Head(todo[o]) \in {"start", "stop", "status"} \X Services
  BY RestIsScript DEF TypeOK, CallInv
<1> QED
  BY <1>1 DEF Service

\* Nothing runs at first.
LEMMA InitInv == Init => IInv
<1> SUFFICES ASSUME Init PROVE IInv
  OBVIOUS
<1>1. kind \in Seq(Services) /\ live \subseteq DOMAIN kind
  BY DEF Init
<1>2. /\ file \in [Services -> {NoPid} \cup DOMAIN kind]
      /\ pid \in [Operators -> {NoPid} \cup DOMAIN kind]
      /\ todo \in [Operators -> Seq({"start", "stop", "status"} \X Services)]
  BY DEF Init
<1>3. polls \in [Operators -> 0 .. Polls] /\ runs \in 0 .. MaxRuns
  BY ServicesAssumption DEF Init
<1>4. TypeOK
  BY <1>1, <1>2, <1>3 DEF Init, TypeOK
<1> QED
  BY <1>4 DEF Init, IInv, CallInv, PidInv, HoldInv, Tracked

\* The scripts are sequences of calls, and none is empty.
LEMMA ScriptFacts == \A s \in Scripts : s \in Seq({"start", "stop", "status"} \X Services)
<1> DEFINE Calls == {"start", "stop", "status"} \X Services
<1>1. \A verb \in {"start", "stop", "status"}, s \in Services : <<verb, s>> \in Calls
  OBVIOUS
<1> HIDE DEF Calls
<1>2. \A a, b, c \in Calls : /\ <<a>> \in Seq(Calls) /\ <<a, b>> \in Seq(Calls) /\ <<a, b, c>> \in Seq(Calls)
  OBVIOUS
<1>3. \A s, t \in Seq(Calls) : s \o t \in Seq(Calls)
  OBVIOUS
<1>4. ShowStatus \in Seq(Calls)
  BY <1>1, <1>2 DEF ShowStatus, Services
<1>5. StartAll \in Seq(Calls)
  <2>1. <<<<"status", "logger">>, <<"start", "logger">>, <<"start", "main">>>> \in Seq(Calls)
    BY <1>1, <1>2 DEF Services
  <2> QED
    BY <1>3, <1>4, <2>1 DEF StartAll
<1>6. StopAll \in Seq(Calls) /\ Restart \in Seq(Calls)
  BY <1>1, <1>2 DEF StopAll, Restart, Services
<1>7. \A verb \in {"start", "stop", "status"} : <<<<verb, "logger">>>> \in Seq(Calls)
  BY <1>1, <1>2 DEF Services
<1> QED
  BY <1>4, <1>5, <1>6, <1>7 DEF Scripts, Calls

\* Every step keeps types, calls and PIDs, for any number of operators.
LEMMA TypeStep == TypeOK /\ CallInv /\ PidInv /\ [Next]_vars => TypeOK' /\ CallInv' /\ PidInv'
<1> SUFFICES ASSUME TypeOK, CallInv, PidInv, [Next]_vars PROVE TypeOK' /\ CallInv' /\ PidInv'
  OBVIOUS
<1> USE ServicesAssumption
<1> DEFINE Calls == {"start", "stop", "status"} \X Services
<1>1. ASSUME NEW o \in Operators, RunScript(o) PROVE TypeOK' /\ CallInv' /\ PidInv'
  <2>1. PICK s \in Scripts : todo' = [todo EXCEPT ![o] = s]
    BY <1>1 DEF RunScript
  <2>2. s \in Seq(Calls)
    BY ScriptFacts
  <2>3. runs' \in 0 .. MaxRuns
    BY <1>1 DEF RunScript, TypeOK
  <2>4. TypeOK'
    BY <1>1, <2>1, <2>2, <2>3 DEF RunScript, Goto, TypeOK
  <2>5. CallInv' /\ PidInv'
    BY <1>1, <2>1 DEF RunScript, Goto, TypeOK, CallInv, PidInv, Service, Starting, Stopping
  <2> QED
    BY <2>4, <2>5
<1>2. ASSUME NEW o \in Operators, Call(o) PROVE TypeOK' /\ CallInv' /\ PidInv'
  <2>1. todo[o] # <<>> => Head(todo[o])[1] \in {"start", "stop", "status"}
    <3>1. todo[o] # <<>> => Head(todo[o]) \in Calls
      BY RestIsScript DEF TypeOK
    <3> QED
      BY <3>1
  <2>2. TypeOK'
    BY <1>2, <2>1 DEF Call, Goto, TypeOK
  <2>3. CallInv' /\ PidInv'
    BY <1>2, <2>1 DEF Call, Goto, TypeOK, CallInv, PidInv, Service, Starting, Stopping
  <2> QED
    BY <2>2, <2>3
<1>3. ASSUME NEW o \in Operators, CheckRunning(o) PROVE TypeOK' /\ CallInv' /\ PidInv'
  <2>1. Service(o) \in Services
    BY <1>3, ServiceFacts DEF CheckRunning
  <2>2. CASE Return(o, TRUE) /\ UNCHANGED file
    <3>1. /\ pc' = [pc EXCEPT ![o] = "call"] /\ todo' \in [Operators -> Seq(Calls)]
          /\ \A p \in Operators \ {o} : todo'[p] = todo[p]
      BY <1>3, <2>2, ReturnFacts DEF CheckRunning
    <3> QED
      BY <1>3, <2>2, <3>1 DEF CheckRunning, TypeOK, CallInv, PidInv, Service, Starting, Stopping
  <2>3. CASE Goto(o, "spawn") /\ UNCHANGED todo /\ Remove(Service(o))
    BY <1>3, <2>1, <2>3 DEF CheckRunning, Goto, Remove, TypeOK, CallInv, PidInv, Service, Starting, Stopping
  <2> QED
    BY <1>3, <2>2, <2>3 DEF CheckRunning
<1>4. ASSUME NEW o \in Operators, Spawn(o) PROVE TypeOK' /\ CallInv' /\ PidInv'
  <2>1. Service(o) \in Services
    BY <1>4, ServiceFacts DEF Spawn
  <2>2. /\ kind' = Append(kind, Service(o)) /\ kind' \in Seq(Services)
        /\ Len(kind) \in Nat /\ Len(kind') = Len(kind) + 1
        /\ DOMAIN kind = 1 .. Len(kind) /\ DOMAIN kind' = 1 .. Len(kind')
        /\ kind'[Len(kind')] = Service(o)
        /\ \A p \in DOMAIN kind : p \in DOMAIN kind' /\ kind'[p] = kind[p]
    BY <1>4, <2>1 DEF Spawn, TypeOK
  <2>3. Len(kind') \in DOMAIN kind' /\ Len(kind') # NoPid
    BY <2>2 DEF NoPid
  <2>4. /\ live' \subseteq DOMAIN kind' /\ file' \in [Services -> {NoPid} \cup DOMAIN kind']
        /\ pid' \in [Operators -> {NoPid} \cup DOMAIN kind']
        /\ pc' = [pc EXCEPT ![o] = "echo"] /\ pid'[o] = Len(kind')
        /\ \A p \in Operators \ {o} : pid'[p] = pid[p]
        /\ UNCHANGED <<file, todo, polls, runs>>
    BY <1>4, <2>2, <2>3 DEF Spawn, TypeOK, Goto
  <2>5. TypeOK'
    BY <2>2, <2>4 DEF TypeOK
  <2>6. CallInv'
    BY <1>4, <2>4 DEF Spawn, TypeOK, CallInv, Starting, Stopping
  <2>7. PidInv'
    <3> SUFFICES ASSUME NEW p \in Operators
                 PROVE  /\ pc'[p] \in {"echo", "verify", "term", "poll", "kill"} =>
                             pid'[p] # NoPid /\ kind'[pid'[p]] = Service(p)
                        /\ pc'[p] = "poll" => polls[p] < Polls
      BY <2>4 DEF PidInv, Service
    <3>1. CASE p = o
      BY <2>2, <2>3, <2>4, <3>1 DEF TypeOK
    <3>2. CASE p # o
      <4>1. pc'[p] = pc[p] /\ pid'[p] = pid[p] /\ (pid[p] # NoPid => kind'[pid[p]] = kind[pid[p]])
        BY <2>2, <2>4, <3>2 DEF TypeOK
      <4> QED
        BY <4>1 DEF PidInv
    <3> QED
      BY <3>1, <3>2
  <2> QED
    BY <2>5, <2>6, <2>7
<1>5. ASSUME NEW o \in Operators, SavePid(o) PROVE TypeOK' /\ CallInv' /\ PidInv'
  <2>1. Service(o) \in Services
    BY <1>5, ServiceFacts DEF SavePid
  <2>2. pid[o] \in DOMAIN kind /\ kind[pid[o]] = Service(o)
    BY <1>5 DEF SavePid, PidInv, TypeOK
  <2> QED
    BY <1>5, <2>1, <2>2 DEF SavePid, Goto, TypeOK, CallInv, PidInv, Service, Starting, Stopping
<1>6. ASSUME NEW o \in Operators, NEW ok, pc[o] \notin {"idle", "call"}, Return(o, ok),
             UNCHANGED <<kind, runs>>, live' \subseteq live,
             file' = file \/ Remove(Service(o)),
             pid' = pid, polls' = polls
      PROVE  TypeOK' /\ CallInv' /\ PidInv'
  <2>1. /\ pc' = [pc EXCEPT ![o] = "call"] /\ todo' \in [Operators -> Seq(Calls)]
        /\ \A p \in Operators \ {o} : todo'[p] = todo[p]
    BY <1>6, ReturnFacts
  <2>2. Service(o) \in Services
    BY <1>6, ServiceFacts
  <2>3. /\ file' \in [Services -> {NoPid} \cup DOMAIN kind]
        /\ \A s \in Services : file'[s] # NoPid => kind[file'[s]] = s
    BY <1>6, <2>2 DEF Remove, TypeOK
  <2>4. TypeOK'
    BY <1>6, <2>1, <2>3 DEF TypeOK
  <2> QED
    BY <1>6, <2>1, <2>4 DEF TypeOK, CallInv, PidInv, Service, Starting, Stopping
<1>7. ASSUME NEW o \in Operators, Verify(o) \/ Status(o) \/ ForceKill(o)
      PROVE  TypeOK' /\ CallInv' /\ PidInv'
  <2>1. pc[o] \notin {"idle", "call"}
    BY <1>7 DEF Verify, Status, ForceKill
  <2>2. /\ UNCHANGED <<kind, runs>> /\ live' \subseteq live /\ pid' = pid /\ polls' = polls
        /\ file' = file \/ Remove(Service(o))
    BY <1>7 DEF Verify, Status, ForceKill
  <2>3. PICK ok : Return(o, ok)
    BY <1>7, Zenon DEF Verify, Status, ForceKill
  <2> QED
    BY <1>6, <2>1, <2>2, <2>3
<1>8. ASSUME NEW o \in Operators, FindRunning(o) PROVE TypeOK' /\ CallInv' /\ PidInv'
  <2>1. CASE Remove(Service(o)) /\ Return(o, TRUE) /\ UNCHANGED pid
    BY <1>6, <1>8, <2>1 DEF FindRunning
  <2>2. CASE /\ Running(Service(o)) /\ pid' = [pid EXCEPT ![o] = file[Service(o)]]
             /\ Goto(o, "term") /\ UNCHANGED <<file, todo>>
    <3>1. Service(o) \in Services
      BY <1>8, ServiceFacts DEF FindRunning
    <3>2. file[Service(o)] \in DOMAIN kind /\ file[Service(o)] # NoPid /\ kind[file[Service(o)]] = Service(o)
      <4>1. file[Service(o)] \in DOMAIN kind /\ DOMAIN kind = 1 .. Len(kind) /\ Len(kind) \in Nat
        BY <2>2, <3>1 DEF Running, TypeOK
      <4> QED
        BY <3>1, <4>1 DEF TypeOK, NoPid
    <3> QED
      BY <1>8, <2>2, <3>2 DEF FindRunning, Goto, TypeOK, CallInv, PidInv, Service, Starting, Stopping
  <2> QED
    BY <1>8, <2>1, <2>2 DEF FindRunning
<1>9. ASSUME NEW o \in Operators, Terminate(o) PROVE TypeOK' /\ CallInv' /\ PidInv'
  <2>1. 0 \in 0 .. Polls /\ 0 < Polls
    OBVIOUS
  <2> QED
    BY <1>9, <2>1 DEF Terminate, Goto, TypeOK, CallInv, PidInv, Service, Starting, Stopping
<1>10. ASSUME NEW o \in Operators, Poll(o) PROVE TypeOK' /\ CallInv' /\ PidInv'
  <2>1. CASE Remove(Service(o)) /\ Return(o, TRUE) /\ UNCHANGED polls
    BY <1>6, <1>10, <2>1 DEF Poll
  <2>2. CASE /\ polls' = [polls EXCEPT ![o] = @ + 1]
             /\ Goto(o, IF polls'[o] = Polls THEN "kill" ELSE "poll")
             /\ UNCHANGED <<file, todo>>
    <3>1. polls[o] \in 0 .. Polls /\ polls[o] < Polls
      BY <1>10 DEF Poll, PidInv, TypeOK
    <3>2. polls[o] + 1 \in 0 .. Polls /\ (polls[o] + 1 # Polls => polls[o] + 1 < Polls)
      BY <3>1
    <3>3. polls' \in [Operators -> 0 .. Polls] /\ polls'[o] = polls[o] + 1
          /\ \A p \in Operators \ {o} : polls'[p] = polls[p]
      BY <2>2, <3>2 DEF TypeOK
    <3>4. TypeOK'
      BY <1>10, <2>2, <3>3 DEF Poll, Goto, TypeOK
    <3>5. /\ pc[o] = "poll" /\ pc'[o] \in {"poll", "kill"}
          /\ pc'[o] = "poll" => polls'[o] < Polls
          /\ \A p \in Operators \ {o} : pc'[p] = pc[p]
      BY <1>10, <2>2, <3>2, <3>3 DEF Poll, Goto, TypeOK
    <3>6. UNCHANGED <<kind, pid, todo>>
      BY <1>10, <2>2 DEF Poll
    <3>7. CallInv'
      BY <3>5, <3>6 DEF CallInv, Starting, Stopping
    <3>8. PidInv'
      BY <3>3, <3>5, <3>6 DEF PidInv, Service
    <3> QED
      BY <3>4, <3>7, <3>8
  <2> QED
    BY <1>10, <2>1, <2>2 DEF Poll
<1>11. ASSUME NEW p \in live, Die(p) PROVE TypeOK' /\ CallInv' /\ PidInv'
  BY <1>11 DEF Die, TypeOK, CallInv, PidInv, Service
<1>12. CASE UNCHANGED vars
  BY <1>12 DEF vars, TypeOK, CallInv, PidInv, Service
<1> QED
  BY <1>1, <1>2, <1>3, <1>4, <1>5, <1>7, <1>8, <1>9, <1>10, <1>11, <1>12 DEF Next, Step

\* PID files name processes of their service, and scripts keep to their
\* program, for any number of operators (scripts/*.sh).
THEOREM TypeCorrect == Spec => []TypeOK
<1>1. Init => TypeOK /\ CallInv /\ PidInv
  BY InitInv DEF IInv
<1> QED
  BY <1>1, TypeStep, PTL DEF Spec

-----------------------------------------------------------------------------
(* One script at a time.                                                    *)

\* Where Tracked and HoldInv hold, a service whose PID file names nobody alive
\* has no process, unless its PID is about to be written; then there is one.
LEMMA NoneLives ==
  ASSUME Tracked, NEW s, file[s] \notin live,
         \A o \in Operators : pc[o] # "echo"
  PROVE  LiveOf(s) = {}
BY DEF Tracked, LiveOf

\* Every step of a single operator, and every death, keeps daemons tracked.
LEMMA HoldStep ==
  ASSUME OneOperator, IInv, [Next]_vars
  PROVE  HoldInv' /\ Tracked'
<1> USE DEF IInv
<1>1. ASSUME NEW o \in Operators PROVE \A p \in Operators : p = o
  BY <1>1 DEF OneOperator
<1>2. ASSUME NEW o \in Operators, RunScript(o) \/ Call(o) PROVE HoldInv' /\ Tracked'
  <2>1. pc[o] # "echo" /\ pc'[o] \notin {"spawn", "echo", "verify", "term", "poll", "kill"}
    <3>1. todo[o] # <<>> => Head(todo[o])[1] \in {"start", "stop", "status"}
      <4>1. todo[o] # <<>> => Head(todo[o]) \in {"start", "stop", "status"} \X Services
        BY RestIsScript DEF TypeOK
      <4> QED
        BY <4>1
    <3> QED
      BY <1>2, <3>1 DEF RunScript, Call, Goto, TypeOK
  <2>2. UNCHANGED <<kind, live, file>>
    BY <1>2 DEF RunScript, Call
  <2> QED
    BY <1>1, <2>1, <2>2 DEF HoldInv, Tracked
<1>3. ASSUME NEW o \in Operators, pc[o] \notin {"idle", "call", "echo"}, pc'[o] = "call",
             kind' = kind, live' \subseteq live,
             file' = file \/ (Remove(Service(o)) /\ \A p \in live' : kind[p] # Service(o))
      PROVE  HoldInv' /\ Tracked'
  <2>1. HoldInv'
    BY <1>1, <1>3 DEF HoldInv
  <2>2. ASSUME NEW p \in live' PROVE file'[kind'[p]] = p
    <3>1. file[kind[p]] = p /\ kind[p] \in Services
      BY <1>1, <1>3 DEF Tracked, TypeOK
    <3> QED
      BY <1>3, <3>1 DEF Remove, TypeOK
  <2> QED
    BY <2>1, <2>2 DEF Tracked
<1>4. ASSUME NEW o \in Operators, CheckRunning(o) \/ FindRunning(o) \/ Status(o)
      PROVE  HoldInv' /\ Tracked'
  <2>1. /\ pc[o] \notin {"idle", "call", "echo"} /\ UNCHANGED <<kind, live>>
        /\ \A p \in Operators : pc[p] # "echo"
    BY <1>1, <1>4 DEF CheckRunning, FindRunning, Status
  <2>2. ~Running(Service(o)) => \A p \in live : kind[p] # Service(o)
    BY <2>1, NoneLives DEF Running, LiveOf
  <2>3. CASE pc'[o] = "call"
    <3>1. file' = file \/ (Remove(Service(o)) /\ ~Running(Service(o)))
      BY <1>4, <2>3 DEF CheckRunning, FindRunning, Status, Goto, TypeOK
    <3> QED
      BY <1>3, <2>1, <2>2, <2>3, <3>1
  <2>4. CASE pc'[o] # "call"
    <3>1. \/ /\ ~Running(Service(o)) /\ pc'[o] = "spawn" /\ Remove(Service(o))
             /\ UNCHANGED <<todo, pid>>
          \/ /\ pid' = [pid EXCEPT ![o] = file[Service(o)]] /\ pc'[o] = "term"
             /\ UNCHANGED <<file, todo>>
      BY <1>4, <2>4 DEF CheckRunning, FindRunning, Status, Goto, Return, TypeOK
    <3>2. Service(o) \in Services
      BY <2>1, ServiceFacts
    <3>3. \A p \in live : file[kind[p]] = p /\ kind[p] \in Services
      BY <2>1 DEF Tracked, TypeOK
    <3>4. CASE ~Running(Service(o)) /\ pc'[o] = "spawn" /\ Remove(Service(o)) /\ UNCHANGED <<todo, pid>>
      <4>1. HoldInv'
        BY <1>1, <2>1, <2>2, <3>4 DEF HoldInv, LiveOf, Service
      <4>2. Tracked'
        BY <2>1, <2>2, <3>2, <3>3, <3>4 DEF Remove, Tracked, TypeOK
      <4> QED
        BY <4>1, <4>2
    <3>5. CASE /\ pid' = [pid EXCEPT ![o] = file[Service(o)]] /\ pc'[o] = "term"
               /\ UNCHANGED <<file, todo>>
      <4>1. HoldInv'
        BY <1>1, <3>5 DEF HoldInv, Service, TypeOK
      <4>2. Tracked'
        BY <2>1, <3>3, <3>5 DEF Tracked
      <4> QED
        BY <4>1, <4>2
    <3> QED
      BY <3>1, <3>4, <3>5
  <2> QED
    BY <2>3, <2>4
<1>5. ASSUME NEW o \in Operators, Spawn(o) PROVE HoldInv' /\ Tracked'
  <2>1. Service(o) \in Services /\ pc[o] = "spawn" /\ pc' = [pc EXCEPT ![o] = "echo"]
    BY <1>5, ServiceFacts DEF Spawn, Goto
  <2>2. /\ Len(kind) \in Nat /\ Len(kind') = Len(kind) + 1 /\ kind'[Len(kind')] = Service(o)
        /\ DOMAIN kind = 1 .. Len(kind) /\ \A p \in DOMAIN kind : kind'[p] = kind[p]
    BY <1>5, <2>1 DEF Spawn, TypeOK
  <2>3. /\ live' = live \cup {Len(kind')} /\ pid'[o] = Len(kind') /\ pc'[o] = "echo"
        /\ UNCHANGED <<file, todo>>
    BY <1>5, <2>1 DEF Spawn, TypeOK
  <2>4. \A p \in live : kind'[p] = kind[p] /\ kind[p] # Service(o) /\ file[kind[p]] = p
    BY <1>1, <2>1, <2>2 DEF HoldInv, LiveOf, Tracked, TypeOK
  <2>5. HoldInv'
    BY <1>1, <2>2, <2>3, <2>4 DEF HoldInv, LiveOf, Service
  <2>6. Tracked'
    BY <2>2, <2>3, <2>4 DEF Tracked
  <2> QED
    BY <2>5, <2>6
<1>6. ASSUME NEW o \in Operators, SavePid(o) PROVE HoldInv' /\ Tracked'
  <2>1. Service(o) \in Services /\ pc[o] = "echo"
    BY <1>6, ServiceFacts DEF SavePid
  <2>2. /\ pc'[o] = "verify" /\ UNCHANGED <<kind, live, todo, pid>>
        /\ file'[Service(o)] = pid[o] /\ \A s \in Services \ {Service(o)} : file'[s] = file[s]
    BY <1>6, <2>1 DEF SavePid, Goto, TypeOK
  <2>3. HoldInv'
    BY <1>1, <2>2 DEF HoldInv, Service
  <2>4. ASSUME NEW p \in live PROVE file'[kind[p]] = p
    <3>1. CASE kind[p] = Service(o)
      BY <2>1, <2>2, <3>1 DEF HoldInv, LiveOf
    <3>2. CASE kind[p] # Service(o)
      <4>1. kind[p] \in Services /\ (file[kind[p]] = p \/ pid[o] = p)
        BY <1>1 DEF Tracked, TypeOK
      <4>2. kind[pid[o]] = Service(o)
        BY <2>1 DEF PidInv
      <4> QED
        BY <2>2, <3>2, <4>1, <4>2
    <3> QED
      BY <3>1, <3>2
  <2> QED
    BY <2>2, <2>3, <2>4 DEF Tracked
<1>7. ASSUME NEW o \in Operators, Terminate(o) PROVE HoldInv' /\ Tracked'
  BY <1>1, <1>7 DEF Terminate, Goto, HoldInv, Tracked, Service, TypeOK
<1>8. ASSUME NEW o \in Operators, Verify(o) \/ Poll(o) \/ ForceKill(o)
      PROVE  HoldInv' /\ Tracked'
  <2>1. /\ pc[o] \in {"verify", "poll", "kill"} /\ UNCHANGED <<kind, pid>>
        /\ live' \subseteq live /\ file[Service(o)] = pid[o]
        /\ \A p \in Operators : pc[p] # "echo"
    BY <1>1, <1>8 DEF Verify, Poll, ForceKill, HoldInv
  <2>2. \A p \in live : kind[p] = Service(o) => p = pid[o]
    BY <2>1 DEF Tracked
  <2>3. CASE pc'[o] = "call"
    <3>1. file' = file \/ (Remove(Service(o)) /\ pid[o] \notin live')
      BY <1>8, <2>3 DEF Verify, Poll, ForceKill
    <3> QED
      BY <1>3, <2>1, <2>2, <2>3, <3>1
  <2>4. CASE pc'[o] # "call"
    <3>1. pc'[o] \in {"poll", "kill"} /\ UNCHANGED <<file, todo, live>>
      BY <1>8, <2>4 DEF Verify, Poll, ForceKill, Goto, Return, TypeOK
    <3>2. HoldInv'
      BY <1>1, <2>1, <3>1 DEF HoldInv, Service
    <3>3. Tracked'
      BY <2>1, <3>1 DEF Tracked
    <3> QED
      BY <3>2, <3>3
  <2> QED
    BY <2>3, <2>4
<1>9. ASSUME NEW p \in live, Die(p) PROVE HoldInv' /\ Tracked'
  BY <1>9 DEF Die, HoldInv, Tracked, LiveOf, Service
<1>10. CASE UNCHANGED vars
  BY <1>10 DEF vars, HoldInv, Tracked, LiveOf, Service
<1> QED
  BY <1>2, <1>4, <1>5, <1>6, <1>7, <1>8, <1>9, <1>10 DEF Next, Step

\* The inductive invariant.
THEOREM Invariance == OneOperator => (Spec => []IInv)
<1> SUFFICES ASSUME OneOperator PROVE Spec => []IInv
  OBVIOUS
<1>1. Init => IInv
  BY InitInv
<1>2. IInv /\ [Next]_vars => IInv'
  BY TypeStep, HoldStep DEF IInv
<1> QED
  BY <1>1, <1>2, PTL DEF Spec

\* A single operator's scripts do not lose a daemon, whenever daemons die
\* (start_all.sh, stop_all.sh, logger_service.sh: PID files).
THEOREM TrackedCorrect == OneOperator => (Spec => []Tracked)
<1> SUFFICES ASSUME OneOperator PROVE Spec => []Tracked
  OBVIOUS
<1>1. IInv => Tracked
  BY DEF IInv
<1> QED
  BY <1>1, Invariance, PTL

\* They do not start a service twice (CheckRunning: start_all.sh, check of the
\* PID file; logger_service.sh, start_logger).
THEOREM OneInstanceCorrect == OneOperator => (Spec => []OneInstance)
<1> SUFFICES ASSUME OneOperator PROVE Spec => []OneInstance
  OBVIOUS
<1>1. IInv => OneInstance
  <2> SUFFICES ASSUME IInv, NEW p \in live, NEW q \in live, kind[p] = kind[q] PROVE p = q
    BY DEF OneInstance
  <2>1. CASE file[kind[p]] = p /\ file[kind[q]] = q
    BY <2>1
  <2>2. ASSUME NEW o \in Operators, pc[o] = "echo", pid[o] \in {p, q} PROVE p = q
    <3>1. kind[pid[o]] = Service(o)
      BY <2>2 DEF IInv, PidInv
    <3> QED
      BY <2>2, <3>1 DEF IInv, HoldInv, LiveOf
  <2> QED
    BY <2>1, <2>2 DEF IInv, Tracked
<1> QED
  BY <1>1, Invariance, PTL

\* When a stop returns the service is gone (stop_all.sh, logger_service.sh: after
\* ten polls SIGKILL).
THEOREM StopLeavesNoneCorrect == OneOperator => (Spec => StopLeavesNone)
<1> SUFFICES ASSUME OneOperator PROVE Spec => StopLeavesNone
  OBVIOUS
<1> DEFINE Gone ==
      \A o \in Operators :
        pc[o] \in {"stop", "poll", "kill"} /\ pc'[o] = "call" =>
          \A p \in live' : kind[p] # Service(o)
<1>1. IInv /\ [Next]_vars => [Gone]_vars
  <2> SUFFICES ASSUME IInv, Next, NEW o \in Operators,
                      pc[o] \in {"stop", "poll", "kill"}, pc'[o] = "call",
                      NEW p \in live', kind[p] = Service(o)
               PROVE  FALSE
    BY DEF vars
  <2>1. \A r \in Operators : r = o
    BY DEF OneOperator
  <2>2. FindRunning(o) \/ Poll(o) \/ ForceKill(o)
    BY <2>1 DEF Next, Step, RunScript, Call, CheckRunning, Spawn, SavePid, Verify, Terminate, Status, Die
  <2>3. p \in live /\ file[kind[p]] = p
    BY <2>1, <2>2 DEF IInv, Tracked, FindRunning, Poll, ForceKill
  <2>4. CASE FindRunning(o)
    BY <2>3, <2>4 DEF FindRunning, Running, Goto, IInv, TypeOK
  <2>5. CASE Poll(o) \/ ForceKill(o)
    <3>1. file[Service(o)] = pid[o]
      BY <2>5 DEF Poll, ForceKill, IInv, HoldInv
    <3>2. pid[o] \notin live'
      BY <2>5 DEF Poll, ForceKill, Goto, IInv, TypeOK
    <3> QED
      BY <2>3, <3>1, <3>2
  <2> QED
    BY <2>2, <2>4, <2>5
<1> QED
  BY <1>1, Invariance, PTL DEF Spec, StopLeavesNone
=============================================================================
