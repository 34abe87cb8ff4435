------------------------------ MODULE HandOver ------------------------------
(***************************************************************************)
(* What passing descriptors promises (CProcess): an open connection is     *)
(* with the processes that accepted it or were sent it, and on its way at  *)
(* the ends of the socket pairs it was sent to, and nowhere else.  Nothing *)
(* is said of descriptor numbers, tables, fork or objects.                 *)
(***************************************************************************)
CONSTANTS
  Conns,   \* connections
  Entry,   \* the process that accepts them
  Ends,    \* ends of socket pairs
  Reader,  \* the process that reads an end
  Writer   \* the process that writes to what is read there

VARIABLES
  seen,    \* connections accepted so far
  holders, \* processes and ends each connection is with
  closed   \* ends that their reader has closed for good

vars == <<seen, holders, closed>>

Processes == {Entry} \cup {Reader[e] : e \in Ends}

Init == seen = {} /\ holders = [c \in Conns |-> {}] /\ closed = {}

Enter(c) ==
  /\ c \notin seen
  /\ seen' = seen \cup {c}
  /\ holders' = [holders EXCEPT ![c] = {Entry}]
  /\ UNCHANGED closed

Send(e, c) ==
  /\ Writer[e] \in holders[c]
  /\ holders' = [holders EXCEPT ![c] = @ \cup {e}]
  /\ UNCHANGED <<seen, closed>>

\* A further copy may be on its way at the same end.
Take(e, c) ==
  /\ e \in holders[c] \ closed
  /\ \E rest \in {holders[c], holders[c] \ {e}} :
       holders' = [holders EXCEPT ![c] = rest \cup {Reader[e]}]
  /\ UNCHANGED <<seen, closed>>

\* The reader has no number left for it.
Refuse(e, c) ==
  /\ e \in holders[c] \ closed
  /\ holders' = [holders EXCEPT ![c] = @ \ {e}]
  /\ UNCHANGED <<seen, closed>>

Release(p, c) ==
  /\ holders' = [holders EXCEPT ![c] = @ \ {p}]
  /\ UNCHANGED <<seen, closed>>

\* What is lost is lost with the processes in gone, which end, or waited at ends
\* that are closed.
Lose(gone) ==
  /\ closed \subseteq closed'
  /\ \A c \in Conns :
       /\ holders'[c] \subseteq holders[c] \ gone
       /\ holders[c] \ holders'[c] \subseteq gone \cup closed'
  /\ holders' \in [Conns -> SUBSET (Ends \cup Processes)]
  /\ UNCHANGED seen

Next ==
  \/ \E c \in Conns :
       \/ Enter(c)
       \/ \E e \in Ends : Send(e, c) \/ Take(e, c) \/ Refuse(e, c)
       \/ \E p \in Processes : Release(p, c)
  \/ \E gone \in {{}} \cup {{p} : p \in Processes} : Lose(gone)

Spec == Init /\ [][Next]_vars
=============================================================================
