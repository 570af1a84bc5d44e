---------------------------- MODULE MCQueueDispatch ----------------------------
EXTENDS QueueDispatch, TLC
CONSTANTS e1, e2, e3, c1, c2, s1, s2, a1, a2, a3
\* Two cats; a batch of two for c1 and an entry for both cats, c1 first.
MCTargetsOf == [e \in Entries |-> IF e = e3 THEN Cats ELSE {c1}]
MCRank == [e \in Entries |-> [c \in Cats |-> IF c = c1 THEN 0 ELSE 1]]
AttemptSymmetry == Permutations(Attempts)
\* The two entries of the batch are alike.
TwinSymmetry == AttemptSymmetry \union Permutations({e1, e2})
\* To bound the search, an execution from outside runs beside the first entry only,
\* and beside two what settles after a stop or a failure before the start, and a
\* turn whose slot was released.
Enqueued == {e \in Entries : row[e].status # "absent"}
Bounded ==
  /\ \A c \in Cats : tracker[c] = External => Cardinality(Enqueued) <= 1
  /\ \A a \in Attempts :
        \/ att[a].phase \in {"stopped", "failing", "dropped"}
        \/ att[a].phase = "running" /\ ~Owns(a) /\ tracker[att[a].lead] = a
        => Cardinality(Enqueued) <= 2
=============================================================================
