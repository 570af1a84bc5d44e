------------------------------ MODULE WaitingLine ------------------------------
(***************************************************************************)
(* What a session lock promises.  The callers that want a session stand in *)
(* a line, and whoever is at its head has the session.  A caller joins at  *)
(* the end, once; it leaves when it is done or gives up, and others may    *)
(* take out only the revocable ones, any number in one step.  Nobody       *)
(* overtakes, nobody is passed over, and a free session has no line.       *)
(***************************************************************************)
CONSTANTS
    Callers,
    SessionOf,    \* the session a caller wants
    Revocable     \* the callers that others may take out of their line

VARIABLES
    line,     \* the callers that stand in a line
    ahead,    \* caller -> those that stand before it in its line
    gone      \* the callers that have left, or never joined and never will

vars == <<line, ahead, gone>>

Init ==
    /\ line = {}
    /\ ahead = [r \in Callers |-> {}]
    /\ gone = {}

Join(r) ==
    /\ r \notin line \union gone
    /\ line' = line \union {r}
    /\ ahead' = [ahead EXCEPT ![r] = {q \in line : SessionOf[q] = SessionOf[r]}]
    /\ UNCHANGED gone

Leave(leaving) ==
    /\ leaving \cap gone = {}
    /\ line' = line \ leaving
    /\ ahead' = [r \in Callers |-> IF r \in leaving THEN {} ELSE ahead[r] \ leaving]
    /\ gone' = gone \union leaving

Next ==
    \/ \E r \in Callers : Join(r) \/ Leave({r})
    \/ \E leaving \in SUBSET Revocable : Leave(leaving)

Spec == Init /\ [][Next]_vars

\* Who has a session: the head of its line.
AtHead(s) == {r \in line : SessionOf[r] = s /\ ahead[r] = {}}
=============================================================================
