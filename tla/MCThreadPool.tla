---------------------------- MODULE MCThreadPool ----------------------------
(* An instance of ThreadPool for TLC.  No symmetry: the run has liveness.   *)
EXTENDS ThreadPool
=============================================================================
