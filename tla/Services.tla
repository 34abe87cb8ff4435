------------------------------ MODULE Services ------------------------------
(***************************************************************************)
(* The service scripts (scripts/start_all.sh, stop_all.sh,                 *)
(* logger_service.sh): operators start and stop two daemons that they know *)
(* by PID files only.  A step is a command of a script; the test of a PID  *)
(* file, the ps on what it names and the rm of a stale file are one step.  *)
(* A daemon may die at any moment, as soon as it is started as well, and   *)
(* may ignore SIGTERM.  PIDs are not reused.                               *)
(***************************************************************************)
EXTENDS Naturals, Sequences, FiniteSets

CONSTANTS
  Operators,  \* who runs scripts, each one script at a time
  Polls,      \* times ps is run after SIGTERM: 10
  MaxRuns     \* bound on the scripts run

ASSUME ServicesAssumption == Polls \in Nat \ {0} /\ MaxRuns \in Nat

VARIABLES
  kind,  \* the service every process spawned so far is of; a PID is an index
  live,  \* PIDs that ps finds
  file,  \* contents of the PID file of each service
  pc,    \* command each operator's script runs next
  todo,  \* <<function, service>> calls its script still has to make
  pid,   \* its variable PID
  polls, \* its loop counter
  runs   \* scripts run so far

vars == <<kind, live, file, pc, todo, pid, polls, runs>>

Services == {"logger", "main"}

NoPid == 0   \* there is no PID file

\* start_all.sh status; of the main application it only looks at the PID file.
ShowStatus == <<<<"status", "logger">>>>

\* start_all.sh
StartAll == <<<<"status", "logger">>, <<"start", "logger">>, <<"start", "main">>>> \o ShowStatus

\* stop_all.sh
StopAll == <<<<"stop", "main">>, <<"stop", "logger">>>>

\* logger_service.sh restart
Restart == <<<<"stop", "logger">>, <<"start", "logger">>>>

\* These, and logger_service.sh start, stop and status.
Scripts ==
  {StartAll, ShowStatus, StopAll, Restart}
    \cup {<<<<verb, "logger">>>> : verb \in {"start", "stop", "status"}}

Init ==
  /\ kind = <<>> /\ live = {}
  /\ file = [s \in Services |-> NoPid]
  /\ pc = [o \in Operators |-> "idle"]
  /\ todo = [o \in Operators |-> <<>>]
  /\ pid = [o \in Operators |-> NoPid]
  /\ polls = [o \in Operators |-> 0]
  /\ runs = 0

-----------------------------------------------------------------------------
(* Control of a script.                                                     *)

Service(o) == Head(todo[o])[2]

Running(s) == file[s] \in live

Goto(o, label) == pc' = [pc EXCEPT ![o] = label]

Remove(s) == file' = [file EXCEPT ![s] = NoPid]

RunScript(o) ==
  /\ pc[o] = "idle" /\ runs < MaxRuns
  /\ \E script \in Scripts : todo' = [todo EXCEPT ![o] = script]
  /\ runs' = runs + 1
  /\ Goto(o, "call")
  /\ UNCHANGED <<kind, live, file, pid, polls>>

\* The next function of the script, or its end.
Call(o) ==
  /\ pc[o] = "call"
  /\ Goto(o, IF todo[o] = <<>> THEN "idle" ELSE Head(todo[o])[1])
  /\ UNCHANGED <<kind, live, file, todo, pid, polls, runs>>

\* A function returns.  start_all.sh does not start a logger whose status is
\* good, and exits as soon as a start fails.
Return(o, ok) ==
  /\ Goto(o, "call")
  /\ todo' = [todo EXCEPT ![o] =
       LET verb == Head(todo[o])[1]
       IN  IF verb = "status" /\ ok THEN SubSeq(todo[o], 3, Len(todo[o]))
           ELSE IF verb = "start" /\ ~ok THEN <<>>
           ELSE Tail(todo[o])]

-----------------------------------------------------------------------------
(* start_logger, start_main_app.                                            *)

\* Fault: ps is not run, every PID file counts as stale.
CheckFileOnly(o) ==
  /\ pc[o] = "start"
  /\ Goto(o, "spawn") /\ UNCHANGED todo
  /\ Remove(Service(o))
  /\ UNCHANGED <<kind, live, pid, polls, runs>>

CheckRunning(o) ==
  /\ pc[o] = "start"
  /\ \/ Running(Service(o)) /\ Return(o, TRUE) /\ UNCHANGED file
     \/ ~Running(Service(o)) /\ Goto(o, "spawn") /\ UNCHANGED todo /\ Remove(Service(o))
  /\ UNCHANGED <<kind, live, pid, polls, runs>>

\* nohup "$BIN" ... &
Spawn(o) ==
  /\ pc[o] = "spawn"
  /\ kind' = Append(kind, Service(o))
  /\ live' = live \cup {Len(kind')}
  /\ pid' = [pid EXCEPT ![o] = Len(kind')]
  /\ Goto(o, "echo")
  /\ UNCHANGED <<file, todo, polls, runs>>

SavePid(o) ==
  /\ pc[o] = "echo"
  /\ file' = [file EXCEPT ![Service(o)] = pid[o]]
  /\ Goto(o, "verify")
  /\ UNCHANGED <<kind, live, todo, pid, polls, runs>>

\* After a second.
Verify(o) ==
  /\ pc[o] = "verify"
  /\ IF pid[o] \in live THEN UNCHANGED file ELSE Remove(Service(o))
  /\ Return(o, pid[o] \in live)
  /\ UNCHANGED <<kind, live, pid, polls, runs>>

-----------------------------------------------------------------------------
(* stop_logger, stop_main_app.                                              *)

FindRunning(o) ==
  /\ pc[o] = "stop"
  /\ \/ /\ Running(Service(o))
        /\ pid' = [pid EXCEPT ![o] = file[Service(o)]]
        /\ Goto(o, "term") /\ UNCHANGED <<file, todo>>
     \/ /\ ~Running(Service(o))
        /\ Remove(Service(o)) /\ Return(o, TRUE) /\ UNCHANGED pid
  /\ UNCHANGED <<kind, live, polls, runs>>

\* kill -TERM: the daemon may go, now or later, or not.
Terminate(o) ==
  /\ pc[o] = "term"
  /\ polls' = [polls EXCEPT ![o] = 0]
  /\ Goto(o, "poll")
  /\ UNCHANGED <<kind, live, file, todo, pid, runs>>

\* Fault: the loop has no end.
PollForever(o) ==
  /\ pc[o] = "poll"
  /\ \/ /\ pid[o] \notin live
        /\ Remove(Service(o)) /\ Return(o, TRUE) /\ UNCHANGED polls
     \/ /\ pid[o] \in live
        /\ UNCHANGED <<file, todo, pc, polls>>
  /\ UNCHANGED <<kind, live, pid, runs>>

Poll(o) ==
  /\ pc[o] = "poll"
  /\ \/ /\ pid[o] \notin live
        /\ Remove(Service(o)) /\ Return(o, TRUE) /\ UNCHANGED polls
     \/ /\ pid[o] \in live
        /\ polls' = [polls EXCEPT ![o] = @ + 1]
        /\ Goto(o, IF polls'[o] = Polls THEN "kill" ELSE "poll")
        /\ UNCHANGED <<file, todo>>
  /\ UNCHANGED <<kind, live, pid, runs>>

\* Fault: a daemon that did not go is forgotten.
GiveUp(o) ==
  /\ pc[o] = "kill"
  /\ Remove(Service(o)) /\ Return(o, TRUE)
  /\ UNCHANGED <<kind, live, pid, polls, runs>>

ForceKill(o) ==
  /\ pc[o] = "kill"
  /\ live' = live \ {pid[o]}
  /\ Remove(Service(o)) /\ Return(o, TRUE)
  /\ UNCHANGED <<kind, pid, polls, runs>>

-----------------------------------------------------------------------------
(* status_logger.                                                           *)

\* Fault: the PID file is taken away whatever ps says.
StatusRemoves(o) ==
  /\ pc[o] = "status"
  /\ Remove(Service(o)) /\ Return(o, Running(Service(o)))
  /\ UNCHANGED <<kind, live, pid, polls, runs>>

Status(o) ==
  /\ pc[o] = "status"
  /\ IF Running(Service(o)) THEN UNCHANGED file ELSE Remove(Service(o))
  /\ Return(o, Running(Service(o)))
  /\ UNCHANGED <<kind, live, pid, polls, runs>>

-----------------------------------------------------------------------------

\* A daemon exits: it could not start, it has crashed, or it heeds a SIGTERM and
\* has stopped gracefully.
Die(p) ==
  /\ live' = live \ {p}
  /\ UNCHANGED <<kind, file, pc, todo, pid, polls, runs>>

Step(o) ==
  \/ Call(o)
  \/ CheckRunning(o) \/ Spawn(o) \/ SavePid(o) \/ Verify(o)
  \/ FindRunning(o) \/ Terminate(o) \/ Poll(o) \/ ForceKill(o)
  \/ Status(o)

Next ==
  \/ \E o \in Operators : RunScript(o) \/ Step(o)
  \/ \E p \in live : Die(p)

Spec == Init /\ [][Next]_vars

\* A script that has been started goes on.
FairSpec == Spec /\ \A o \in Operators : WF_vars(Step(o))

-----------------------------------------------------------------------------
(* Properties.  Tracked, OneInstance and StopLeavesNone are for scripts run *)
(* one after another: one operator.                                         *)

\* The variables stay in their ranges; a PID file names a process of its
\* service, and only spawned processes live.
TypeOK ==
  /\ kind \in Seq(Services) /\ live \subseteq DOMAIN kind
  /\ file \in [Services -> {NoPid} \cup DOMAIN kind]
  /\ \A s \in Services : file[s] # NoPid => kind[file[s]] = s
  /\ pc \in [Operators -> {"idle", "call", "start", "spawn", "echo", "verify", "stop",
                           "term", "poll", "kill", "status"}]
  /\ todo \in [Operators -> Seq({"start", "stop", "status"} \X Services)]
  /\ pid \in [Operators -> {NoPid} \cup DOMAIN kind]
  /\ polls \in [Operators -> 0 .. Polls]
  /\ runs \in 0 .. MaxRuns

\* A daemon that is alive can be found through its PID file, except between
\* its start and the echo into that file.
Tracked ==
  \A p \in live :
    file[kind[p]] = p \/ \E o \in Operators : pc[o] = "echo" /\ pid[o] = p

\* No service is started twice.
OneInstance == \A p, q \in live : kind[p] = kind[q] => p = q

\* When a stop returns, with whatever message, the service is gone.
StopLeavesNone ==
  [][\A o \in Operators :
       pc[o] \in {"stop", "poll", "kill"} /\ pc'[o] = "call" =>
         \A p \in live' : kind[p] # Service(o)]_vars

\* Scripts come to an end, also if a daemon does not react to SIGTERM.
ScriptsEnd == \A o \in Operators : pc[o] # "idle" ~> pc[o] = "idle"
=============================================================================
