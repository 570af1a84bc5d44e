---------------------------- MODULE MCSessionMutex ----------------------------
(***************************************************************************)
(* Four requests on two sessions: three agent-owned ones of two executions *)
(* and two cats, and one string-only caller that no scope reaches.         *)
(***************************************************************************)
EXTENDS SessionMutex, TLC

CONSTANTS r1, r2, r3, r4, s1, s2, e1, e2, t1, u1, codex, opus

MCRequests == {r1, r2, r3, r4}
MCSessionOf == (r1 :> s1) @@ (r2 :> s1) @@ (r3 :> s1) @@ (r4 :> s2)

Agent(cat, e) == [thread |-> t1, user |-> u1, cat |-> cat, execution |-> e]

MCOwnerOf == (r1 :> Agent(codex, e1)) @@ (r2 :> Agent(codex, e2))
             @@ (r3 :> NoOwner) @@ (r4 :> Agent(opus, e1))

MCScopes == {[thread |-> t1, user |-> u1, cat |-> AnyCat],
             [thread |-> t1, user |-> u1, cat |-> codex]}
=============================================================================
