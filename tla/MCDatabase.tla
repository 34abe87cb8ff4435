----------------------------- MODULE MCDatabase -----------------------------
(* An instance of Database for TLC: two threads that share an SQLite client. *)
EXTENDS Database
=============================================================================
