----------------------------- MODULE MCProcess -----------------------------
(* Instances of Process for TLC.                                            *)
EXTENDS Process, TLC

CONSTANTS k1, k2

MCPid == k1 :> 1 @@ k2 :> 2

MCFds == 3 .. Limit - 1
=============================================================================
