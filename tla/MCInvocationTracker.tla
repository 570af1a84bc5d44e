-------------------------- MODULE MCInvocationTracker --------------------------
(***************************************************************************)
(* Two cats; a batch of both, a batch of one and a single run, owned by    *)
(* one user: every pair of them competes for a slot.                       *)
(***************************************************************************)
EXTENDS InvocationTracker, TLC

CONSTANTS codex, opus, alice, x1, x2, x3

Targets == (x1 :> {codex, opus}) @@ (x2 :> {codex}) @@ (x3 :> {codex})

MCTargetsOf == [r \in Runs |-> Targets[r]]
MCUserOf == [r \in Runs |-> alice]

\* What a route was told and what was stopped are read by no action and, of the
\* run's properties, by TypeOK only: states that differ in them alone are explored
\* once.
MCView == <<slot, deleting, sealing, admitted, parked, gate, phase, doneCats>>
=============================================================================
