---------------------------- MODULE TaskExecutor ----------------------------
(***************************************************************************)
(* What a user of CThreadPool may rely on, without threads, locks, wait    *)
(* sets or program counters: an accepted task is started in the order of   *)
(* acceptance and runs once, nothing is accepted once closing has begun,   *)
(* and a call that closes the executor returns only when everything that   *)
(* was accepted has run, provided somebody was ever hired to run it.       *)
(***************************************************************************)
EXTENDS Sequences

CONSTANT Tasks

VARIABLES
  pending,    \* accepted tasks not yet started, oldest first
  active,     \* tasks being executed
  completed,  \* tasks whose execution ended
  refused,    \* tasks turned down because the executor was closing
  dropped,    \* tasks accepted and thrown away with the executor
  staffed,    \* somebody has been hired to run tasks
  closing,    \* no more tasks are accepted
  caller      \* "free", "closing" (inside the closing call) or "gone"

avars == <<pending, active, completed, refused, dropped, staffed, closing, caller>>

Waiting == {pending[i] : i \in DOMAIN pending}
Fresh(t) == t \notin Waiting \cup active \cup completed \cup refused \cup dropped

AInit ==
  /\ pending = <<>>
  /\ active = {} /\ completed = {} /\ refused = {} /\ dropped = {}
  /\ staffed = FALSE /\ closing = FALSE
  /\ caller = "free"

Hire ==
  /\ caller = "free"
  /\ staffed' = TRUE
  /\ UNCHANGED <<pending, active, completed, refused, dropped, closing, caller>>

Submit(t) ==
  /\ ~closing
  /\ Fresh(t)
  /\ pending' = Append(pending, t)
  /\ UNCHANGED <<active, completed, refused, dropped, staffed, closing, caller>>

Refuse(t) ==
  /\ closing
  /\ Fresh(t)
  /\ refused' = refused \cup {t}
  /\ UNCHANGED <<pending, active, completed, dropped, staffed, closing, caller>>

Begin ==
  /\ staffed
  /\ pending # <<>>
  /\ active' = active \cup {Head(pending)}
  /\ pending' = Tail(pending)
  /\ UNCHANGED <<completed, refused, dropped, staffed, closing, caller>>

End(t) ==
  /\ t \in active
  /\ active' = active \ {t}
  /\ completed' = completed \cup {t}
  /\ UNCHANGED <<pending, refused, dropped, staffed, closing, caller>>

CallClose ==
  /\ caller = "free"
  /\ caller' = "closing"
  /\ UNCHANGED <<pending, active, completed, refused, dropped, staffed, closing>>

Close ==
  /\ caller = "closing"
  /\ closing' = TRUE
  /\ UNCHANGED <<pending, active, completed, refused, dropped, staffed, caller>>

\* Nothing accepted is left behind, unless nobody was ever hired.
Drained ==
  /\ active = {}
  /\ staffed => pending = <<>>

ReturnFromClose ==
  /\ caller = "closing" /\ closing
  /\ Drained
  /\ caller' = "free"
  /\ UNCHANGED <<pending, active, completed, refused, dropped, staffed, closing>>

Dissolve ==
  /\ caller = "closing" /\ closing
  /\ Drained
  /\ caller' = "gone"
  /\ pending' = <<>>
  /\ dropped' = dropped \cup Waiting
  /\ UNCHANGED <<active, completed, refused, staffed, closing>>

ANext ==
  \/ Hire \/ Begin \/ CallClose \/ Close \/ ReturnFromClose \/ Dissolve
  \/ \E t \in Tasks : Submit(t) \/ Refuse(t) \/ End(t)

ASpec == AInit /\ [][ANext]_avars
=============================================================================
