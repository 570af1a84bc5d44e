--------------------------- MODULE MCQueueCustody ---------------------------
(***************************************************************************)
(* QueueCustody with two cats.  Turns and cats have no identity of their   *)
(* own: they are symmetric.                                                *)
(***************************************************************************)
EXTENDS QueueCustody, TLC

CONSTANTS c1, c2, t1, t2

\* One thing goes wrong in a behaviour: an operation of the store fails, or the process dies.
OneMishap == faults + crashes <= 1

\* At most two operations wait for the entry's lock, and one after the mishap.
ShortQueue == Len(jobs) + faults + crashes <= 2

\* The user takes the message back only before the mishap, which may be that this fails.
EarlyRemove == faults + crashes > 0 => \A i \in DOMAIN jobs : jobs[i].do # "remove"

Symmetry == Permutations(Cats) \cup Permutations(Turns)
=============================================================================
