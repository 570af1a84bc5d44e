------------------------------ MODULE OneShotWake ------------------------------
(***************************************************************************)
(* What a hold promises its cat and its user.  A wake that is set is       *)
(* spent once: it wakes the cat, or it ends without.  Until then it may be *)
(* run by hand, never twice at a time; once it is spent nothing runs it.   *)
(* A user may take it back as long as it has not woken the cat and nothing *)
(* runs, and from then on nothing runs either.  Who edits the wake while   *)
(* one of these is going on is outside the promise.                        *)
(***************************************************************************)
VARIABLES
    wake,        \* "unborn", then "set", then "woken" or "ended"
    cancelled,   \* the user was told that nothing will run
    busy,        \* the cat is being woken, or the wake is run by hand
    disturbed    \* the wake was edited in the middle of something

vars == <<wake, cancelled, busy, disturbed>>

Init == wake = "unborn" /\ ~cancelled /\ ~busy /\ ~disturbed

Set ==
    /\ wake = "unborn" /\ wake' = "set"
    /\ UNCHANGED <<cancelled, busy, disturbed>>

Run ==
    /\ wake = "set" /\ ~cancelled /\ ~busy
    /\ busy' = TRUE
    /\ wake' \in {"set", "woken"}
    /\ UNCHANGED <<cancelled, disturbed>>

\* A run is over.  A run that is cut short by the end of the server is over as well.
Finish ==
    /\ busy /\ ~busy'
    /\ UNCHANGED <<wake, cancelled, disturbed>>

\* Taken back, overtaken by what it waits for, missed, or spent beside a run by hand.
End ==
    /\ wake = "set" /\ wake' = "ended"
    /\ UNCHANGED <<cancelled, busy, disturbed>>

\* That the user takes it back may be heard after it ended.
Cancel ==
    /\ wake \in {"set", "ended"} /\ ~busy
    /\ cancelled' = TRUE
    /\ UNCHANGED <<wake, busy, disturbed>>

Disturb ==
    /\ disturbed'
    /\ disturbed \/ UNCHANGED <<wake, cancelled, busy>>

Next == Set \/ Run \/ Finish \/ End \/ Cancel \/ Disturb

Spec == Init /\ [][Next]_vars
=============================================================================
