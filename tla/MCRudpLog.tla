----------------------------- MODULE MCRudpLog -----------------------------
(* Instances of RudpLog for TLC. *)
EXTENDS RudpLog, TLC

\* No message, or the first one of every thread, is too long.
Short == {}
LongFirst == Callers \X {1}
=============================================================================
