---------------------------- MODULE SessionChain ----------------------------
(***************************************************************************)
(* The chain of sessions of one conversation (a user, a thread, a cat):    *)
(* which session is current, how a session is sealed and by whom its seal  *)
(* is completed, how a user restores an earlier one, and the approval of a *)
(* hand-over a cat proposed, which seals the session it was proposed in.   *)
(*                                                                         *)
(* The records, the pointer to the current session and the proposals are   *)
(* in Redis and survive a crash; the operations in flight and the queue of *)
(* continuations do not.  An action is at most one write to a record.      *)
(***************************************************************************)
EXTENDS Naturals, FiniteSets

CONSTANTS
  Finalizers,   \* calls of finalize that may be in flight together
  Reapers,      \* reapers: the periodic sweep, the sweep before an invocation
  Proposals,
  MaxSessions,  \* bound on the sessions of the chain
  MaxRestores,  \* bound on restores
  MaxFaults     \* bound on crashes and failed operations

ASSUME OpsAssumption == Finalizers \cap Reapers = {}
ASSUME BoundsAssumption == {MaxSessions, MaxRestores, MaxFaults} \subseteq Nat

Sessions == 1..MaxSessions     \* in the order of their creation
Ops == Finalizers \cup Reapers

VARIABLES
  status, reason,   \* of each session
  pointer,          \* the session the owner's active index names, or 0
  op,               \* the terminal write each operation has in flight
  busy,             \* the cat has running work in the thread
  replacing,        \* a run has sealed its session and is to create another
  unseal,           \* the restore in flight: its target and the session it displaces
  proposal, note,   \* the proposals, and the hand-over note on each session
  txn,              \* where the approval or recovery of each proposal is
  queued,           \* proposals whose continuation is in the queue
  faults, restores, \* counters of the bounds
  accepted,         \* history: proposals whose seal was accepted
  restored,         \* history: sessions restored by a user
  superseded,       \* history: active sessions that lost the pointer to another
  overlooked        \* history: sessions restored under a terminal write in flight

chain == <<status, reason, pointer>>
handoff == <<proposal, note, txn, queued>>
history == <<accepted, restored, superseded, overlooked>>
runner == <<busy, replacing>>
vars == <<chain, op, runner, unseal, handoff, faults, restores, history>>

NoSession == 0
Idle == [session |-> NoSession, step |-> "idle"]
NoRestore == [target |-> NoSession, displaces |-> NoSession]
NoProposal == [status |-> "none", session |-> NoSession, sealed |-> FALSE]

Init ==
  /\ status = [s \in Sessions |-> "none"] /\ reason = [s \in Sessions |-> "none"]
  /\ pointer = NoSession /\ op = [o \in Ops |-> Idle]
  /\ busy = FALSE /\ replacing = FALSE /\ unseal = NoRestore
  /\ proposal = [p \in Proposals |-> NoProposal] /\ note = [s \in Sessions |-> {}]
  /\ txn = [p \in Proposals |-> "idle"] /\ queued = {}
  /\ faults = 0 /\ restores = 0
  /\ accepted = {} /\ restored = {} /\ superseded = {} /\ overlooked = {}

-----------------------------------------------------------------------------
(* The store.                                                              *)

Active == {s \in Sessions : status[s] = "active"}

\* getActive: the session the index names if it is active, else the newest active one.
Current ==
  IF pointer \in Active THEN pointer
  ELSE IF Active = {} THEN NoSession
  ELSE CHOOSE s \in Active : \A t \in Active : t <= s

\* create without reuse: a new record, active and named by the index.
Create ==
  \E s \in Sessions :
    /\ status[s] = "none" /\ \A t \in Sessions : t < s => status[t] # "none"
    /\ status' = [status EXCEPT ![s] = "active"]
    /\ pointer' = s
    /\ superseded' = superseded \cup ({pointer} \cap Active)
    /\ UNCHANGED reason

\* getOrCreateActive; getActive repairs the index on the way.
GetOrCreate ==
  IF Current = NoSession THEN Create
  ELSE pointer' = Current /\ UNCHANGED <<status, reason, superseded>>

\* requestSeal is accepted of an active record only.
CanSeal(s) == status[s] = "active"

\* transitionToSealing: the index goes with it, if it names this record.
SealingAs(s, why) ==
  /\ status' = [status EXCEPT ![s] = "sealing"]
  /\ reason' = [reason EXCEPT ![s] = why]
  /\ pointer' = IF pointer = s THEN NoSession ELSE pointer

-----------------------------------------------------------------------------
(* Runs of the cat.                                                        *)

\* A run starts, for a message or for a continuation.
StartRun ==
  /\ ~busy /\ busy' = TRUE
  /\ queued' \in {queued} \cup {queued \ {p} : p \in queued}
  /\ UNCHANGED <<chain, op, replacing, unseal, proposal, note, txn, faults, restores, history>>

\* A run looks for its session: before its launch, under the lock, and at session_init.
Resolve ==
  /\ busy
  /\ GetOrCreate
  /\ UNCHANGED <<op, runner, unseal, handoff, faults, restores, accepted, restored, overlooked>>

\* The run completes, or is stopped and leaves the cat free while it goes on.
EndRun ==
  /\ busy /\ busy' = FALSE
  /\ UNCHANGED <<chain, op, replacing, unseal, handoff, faults, restores, history>>

\* A hook, a threshold, the circuit breaker or the user's seal route.
RequestSeal(s) ==
  /\ CanSeal(s)
  /\ SealingAs(s, "other")
  /\ UNCHANGED <<op, runner, unseal, handoff, faults, restores, history>>

\* A run seals the current session because it goes on in another one: its provider has
\* replaced the session, or the new prompt does not fit into it.
SealToReplace ==
  /\ busy /\ ~replacing /\ Current # NoSession
  /\ SealingAs(Current, "other")
  /\ replacing' = TRUE
  /\ UNCHANGED <<op, busy, unseal, handoff, faults, restores, history>>

\* ... and creates that other one, after the awaits in between.
Replace ==
  /\ replacing /\ replacing' = FALSE
  /\ Create
  /\ UNCHANGED <<op, busy, unseal, handoff, faults, restores, accepted, restored, overlooked>>

-----------------------------------------------------------------------------
(* SessionSealer: what completes a seal.                                   *)

Take(o, s) == op' = [op EXCEPT ![o] = [session |-> s, step |-> "seen"]]

\* finalize reads the record and flushes the transcript.  Whoever had its seal request
\* accepted calls it, and others do who find the session sealing.
Finalize(f, s) ==
  /\ op[f] = Idle /\ status[s] = "sealing"
  /\ Take(f, s)
  /\ UNCHANGED <<chain, runner, unseal, handoff, faults, restores, history>>

\* Faulty: the sweep sees the sessions of hand-overs only.
ReapHandedOver(r, s) ==
  /\ op[r] = Idle /\ status[s] = "sealing" /\ note[s] # {}
  /\ Take(r, s)
  /\ UNCHANGED <<chain, runner, unseal, handoff, faults, restores, history>>

\* reconcileStuck, reconcileAllStuck read the record, which has been sealing for five minutes.
Reap(r, s) ==
  /\ op[r] = Idle /\ status[s] = "sealing"
  /\ Take(r, s)
  /\ UNCHANGED <<chain, runner, unseal, handoff, faults, restores, history>>

\* Faulty: the index is cleared whatever it names.
UnlinkAny(o) ==
  /\ op[o].step = "seen"
  /\ op' = [op EXCEPT ![o].step = "unlinked"]
  /\ pointer' = NoSession
  /\ UNCHANGED <<status, reason, runner, unseal, handoff, faults, restores, history>>

\* update() first takes the record out of the index ...
Unlink(o) ==
  /\ op[o].step = "seen"
  /\ op' = [op EXCEPT ![o].step = "unlinked"]
  /\ pointer' = IF pointer = op[o].session THEN NoSession ELSE pointer
  /\ UNCHANGED <<status, reason, runner, unseal, handoff, faults, restores, history>>

\* Faulty: the operation keeps its record.
WriteAndKeep(o) ==
  LET s == op[o].session IN
    /\ op[o].step = "unlinked"
    /\ op' = [op EXCEPT ![o].step = "idle"]
    /\ status' = [status EXCEPT ![s] = "sealed"]
    /\ reason' = IF o \in Reapers THEN [reason EXCEPT ![s] = "reaped"] ELSE reason
    /\ UNCHANGED <<pointer, runner, unseal, handoff, faults, restores, history>>

\* ... and then writes its status, whatever it is by now.
Write(o) ==
  LET s == op[o].session IN
    /\ op[o].step = "unlinked"
    /\ op' = [op EXCEPT ![o] = Idle]
    /\ status' = [status EXCEPT ![s] = "sealed"]
    /\ reason' = IF o \in Reapers THEN [reason EXCEPT ![s] = "reaped"] ELSE reason
    /\ UNCHANGED <<pointer, runner, unseal, handoff, faults, restores, history>>

\* The store fails under it: the session stays as it is.
Fail(o) ==
  /\ op[o] # Idle /\ faults < MaxFaults
  /\ op' = [op EXCEPT ![o] = Idle]
  /\ faults' = faults + 1
  /\ UNCHANGED <<chain, runner, unseal, handoff, restores, history>>

-----------------------------------------------------------------------------
(* POST /api/sessions/:sessionId/unseal.                                   *)

\* The target is sealed, the cat has no work, and the user confirmed the current session.
PrepareRestore(s) ==
  /\ unseal = NoRestore /\ restores < MaxRestores
  /\ status[s] = "sealed" /\ ~busy /\ queued = {}
  /\ unseal' = [target |-> s, displaces |-> Current]
  /\ pointer' = Current
  /\ restores' = restores + 1
  /\ UNCHANGED <<status, reason, op, runner, handoff, faults, history>>

\* restoreActiveSession compares what it was told with what it finds.
AsConfirmed ==
  /\ status[unseal.target] = "sealed"
  /\ pointer = unseal.displaces
  /\ pointer # NoSession => status[pointer] = "active"

Restore ==
  LET t == unseal.target  d == unseal.displaces IN
    /\ unseal # NoRestore /\ unseal' = NoRestore
    /\ IF AsConfirmed
       THEN /\ status' = [s \in Sessions |-> IF s = t THEN "active"
                                            ELSE IF s = d THEN "sealing" ELSE status[s]]
            /\ reason' = [s \in Sessions |-> IF s = t THEN "none"
                                            ELSE IF s = d THEN "other" ELSE reason[s]]
            /\ pointer' = t
            /\ restored' = restored \cup {t}
            /\ overlooked' = overlooked \cup {s \in {t} : \E o \in Ops : op[o].session = s}
       ELSE UNCHANGED <<chain, restored, overlooked>>
    /\ UNCHANGED <<op, runner, handoff, faults, restores, accepted, superseded>>

-----------------------------------------------------------------------------
(* The hand-over a cat proposes and its owner approves.                    *)

At(p, here, there) == txn[p] = here /\ txn' = [txn EXCEPT ![p] = there]

\* One proposal at a time for the session the cat is running in.
Propose(p) ==
  /\ busy /\ proposal[p] = NoProposal /\ Current # NoSession
  /\ \A q \in Proposals :
       proposal[q].session = Current => proposal[q].status \notin {"pending", "approving"}
  /\ proposal' = [proposal EXCEPT ![p] = [status |-> "pending", session |-> Current, sealed |-> FALSE]]
  /\ pointer' = Current
  /\ UNCHANGED <<status, reason, op, runner, unseal, note, txn, queued, faults, restores, history>>

Reject(p) ==
  /\ proposal[p].status = "pending"
  /\ proposal' = [proposal EXCEPT ![p].status = "rejected"]
  /\ UNCHANGED <<chain, op, runner, unseal, note, txn, queued, faults, restores, history>>

\* approveSessionHandoff claims the proposal ...
Claim(p) ==
  /\ proposal[p].status = "pending"
  /\ At(p, "idle", "claimed")
  /\ proposal' = [proposal EXCEPT ![p].status = "approving"]
  /\ UNCHANGED <<chain, op, runner, unseal, note, queued, faults, restores, history>>

\* ... makes sure that its session is still the current one ...
Check(p) ==
  LET s == proposal[p].session IN
    /\ At(p, "claimed", IF status[s] = "active" /\ Current = s THEN "checked" ELSE "expire")
    /\ pointer' = Current
    /\ UNCHANGED <<status, reason, op, runner, unseal, proposal, note, queued,
                   faults, restores, history>>

\* ... leaves its note on the record ...
LeaveNote(p) ==
  LET s == proposal[p].session IN
    /\ At(p, "checked", "noted")
    /\ note' = [note EXCEPT ![s] = {p}]
    /\ UNCHANGED <<chain, op, runner, unseal, proposal, queued, faults, restores, history>>

\* Faulty: the answer to the request is not looked at.
SealSourceUnheard(p) ==
  LET s == proposal[p].session IN
    /\ At(p, "noted", "accepted")
    /\ IF CanSeal(s)
       THEN SealingAs(s, "handoff") /\ accepted' = accepted \cup {p}
       ELSE UNCHANGED <<chain, accepted>>
    /\ UNCHANGED <<op, runner, unseal, proposal, note, queued, faults, restores,
                   restored, superseded, overlooked>>

\* ... and requests the seal: the commit point.
SealSource(p) ==
  LET s == proposal[p].session IN
    /\ At(p, "noted", IF CanSeal(s) THEN "accepted" ELSE "expire")
    /\ IF CanSeal(s)
       THEN SealingAs(s, "handoff") /\ accepted' = accepted \cup {p}
       ELSE UNCHANGED <<chain, accepted>>
    /\ UNCHANGED <<op, runner, unseal, proposal, note, queued, faults, restores,
                   restored, superseded, overlooked>>

\* The checkpoint that says so is a write of its own.
Checkpoint(p) ==
  /\ At(p, "accepted", "recorded")
  /\ proposal' = [proposal EXCEPT ![p].sealed = TRUE]
  /\ UNCHANGED <<chain, op, runner, unseal, note, queued, faults, restores, history>>

\* The continuation is keyed by the proposal: enqueued once while it waits.
Enqueue(p) ==
  /\ At(p, "recorded", "enqueued")
  /\ queued' = queued \cup {p}
  /\ UNCHANGED <<chain, op, runner, unseal, proposal, note, faults, restores, history>>

\* finalizeApproval; the route then calls Finalize.
Approve(p) ==
  /\ At(p, "enqueued", "idle")
  /\ proposal' = [proposal EXCEPT ![p].status = "approved"]
  /\ UNCHANGED <<chain, op, runner, unseal, note, queued, faults, restores, history>>

Expire(p) ==
  /\ At(p, "expire", "idle")
  /\ proposal' = [proposal EXCEPT ![p].status = "expired"]
  /\ UNCHANGED <<chain, op, runner, unseal, note, queued, faults, restores, history>>

\* Faulty: without its checkpoint the seal has not happened.
SealedByNobody(p) == FALSE

\* The seal is this proposal's: its reason and the note on the record say so.
SealedByHandoff(p) ==
  LET s == proposal[p].session IN
    /\ status[s] \in {"sealing", "sealed"}
    /\ reason[s] = "handoff" /\ note[s] = {p}

\* recoverStaleHandoffProposal: the owner approves again what a crash or a failure left.
Recover(p) ==
  /\ proposal[p].status = "approving"
  /\ At(p, "idle", CASE proposal[p].sealed   -> "recorded"
                     [] ~proposal[p].sealed /\ SealedByHandoff(p)  -> "accepted"
                     [] ~proposal[p].sealed /\ ~SealedByHandoff(p) -> "expire")
  /\ UNCHANGED <<chain, op, runner, unseal, proposal, note, queued, faults, restores, history>>

\* The store fails under an approval: it throws, and the proposal stays 'approving'.
Throw(p) ==
  /\ txn[p] # "idle" /\ faults < MaxFaults
  /\ txn' = [txn EXCEPT ![p] = "idle"]
  /\ faults' = faults + 1
  /\ UNCHANGED <<chain, op, runner, unseal, proposal, note, queued, restores, history>>

\* What is in memory is gone.
Crash ==
  /\ faults < MaxFaults
  /\ faults' = faults + 1
  /\ op' = [o \in Ops |-> Idle] /\ busy' = FALSE /\ replacing' = FALSE /\ unseal' = NoRestore
  /\ txn' = [p \in Proposals |-> "idle"] /\ queued' = {}
  /\ UNCHANGED <<chain, proposal, note, restores, history>>

Run == StartRun \/ Resolve \/ EndRun \/ SealToReplace \/ Replace
Seal ==
  \/ \E s \in Sessions :
       RequestSeal(s) \/ PrepareRestore(s)
         \/ (\E f \in Finalizers : Finalize(f, s)) \/ (\E r \in Reapers : Reap(r, s))
  \/ \E o \in Ops : Unlink(o) \/ Write(o) \/ Fail(o)
  \/ Restore
Handoff ==
  \E p \in Proposals :
    \/ Propose(p) \/ Reject(p) \/ Claim(p) \/ Check(p) \/ LeaveNote(p) \/ SealSource(p)
    \/ Checkpoint(p) \/ Enqueue(p) \/ Approve(p) \/ Expire(p) \/ Recover(p) \/ Throw(p)

Next == Run \/ Seal \/ Handoff \/ Crash
Spec == Init /\ [][Next]_vars

\* Every sweep of a reaper looks at each session, and the store answers.
FairSpec ==
  /\ Spec
  /\ \A s \in Sessions : SF_vars(\E r \in Reapers : Reap(r, s))
  /\ \A o \in Ops : WF_vars(Unlink(o)) /\ WF_vars(Write(o))

-----------------------------------------------------------------------------
Statuses == {"none", "active", "sealing", "sealed"}
Reasons == {"none", "other", "handoff", "reaped"}
OpStates == [session : Sessions \cup {NoSession}, step : {"idle", "seen", "unlinked"}]
ProposalStatuses == {"none", "pending", "approving", "approved", "expired", "rejected"}
Steps == {"idle", "claimed", "checked", "noted", "accepted", "recorded", "enqueued", "expire"}

\* The type of the state.  The chain has no gap, and an operation in flight has a session.
TypeOK ==
  /\ status \in [Sessions -> Statuses] /\ reason \in [Sessions -> Reasons]
  /\ \A s, t \in Sessions : t < s /\ status[s] # "none" => status[t] # "none"
  /\ pointer \in Sessions \cup {NoSession}
  /\ op \in [Ops -> OpStates]
  /\ \A o \in Ops : op[o] = Idle \/ (op[o].step # "idle" /\ op[o].session # NoSession
                                     /\ status[op[o].session] # "none")
  /\ busy \in BOOLEAN /\ replacing \in BOOLEAN
  /\ unseal \in [target : Sessions \cup {NoSession}, displaces : Sessions \cup {NoSession}]
  /\ proposal \in [Proposals -> [status : ProposalStatuses, session : Sessions \cup {NoSession},
                                 sealed : BOOLEAN]]
  /\ note \in [Sessions -> SUBSET Proposals]
  /\ txn \in [Proposals -> Steps] /\ queued \subseteq Proposals
  /\ faults \in 0..MaxFaults /\ restores \in 0..MaxRestores
  /\ accepted \subseteq Proposals
  /\ restored \subseteq Sessions /\ superseded \subseteq Sessions /\ overlooked \subseteq Sessions

\* A session that is active is the one the index names: no late write of a seal takes the index
\* from a newer session.  Not so for one that lost the index to a session created beside it, or
\* that was restored while a write that had seen it sealing was in flight.
ActiveIsNamed ==
  \A s \in Sessions : status[s] = "active" => s = pointer \/ s \in superseded \/ s \in overlooked

\* A session ends only by a seal somebody asked for, never by the late end of an older seal
\* (restoring a session wipes the reason of its seal), and no seal is completed twice over.
SealHasReason ==
  \A s \in Sessions :
    (reason[s] = "none") # (status[s] \in {"sealing", "sealed"}) \/ s \in overlooked

\* An approval that was interrupted is not given up once its session is sealed, unless a
\* reaper has put its own reason in the place of the hand-over's, or the user restored it.
CommitKept ==
  \A p \in Proposals :
    LET s == proposal[p].session IN
      proposal[p].status = "expired" /\ p \in accepted => reason[s] = "reaped" \/ s \in restored

\* A hand-over is reported as approved, and goes on in a new session, only if its own request
\* sealed the old one: not if a hook or the user sealed it in the middle of the approval.
HandedOverWasSealed ==
  \A p \in Proposals : proposal[p].status = "approved" \/ p \in queued => p \in accepted

\* A session that is being sealed comes to be sealed, whatever becomes of those who sealed it.
SealingEnds ==
  \A s \in Sessions : status[s] = "sealing" ~> status[s] # "sealing"

\* What the recovery says of itself (sessionHandoffApprove.ts): a proposal is expired only
\* before its session is sealed, so that no half-sealed orphan is possible.
NoHalfSealedOrphan ==
  \A p \in Proposals :
    LET s == proposal[p].session IN
      proposal[p].status = "expired" /\ p \in accepted =>
        s \in restored \/ status[s] = "active"

\* What the replacement of a session says of itself (invoke-single-cat.ts): there are never
\* two active records.
OneActive == Cardinality(Active) <= 1

=============================================================================
