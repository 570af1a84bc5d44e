--------------------------- MODULE InvocationTracker ---------------------------
(***************************************************************************)
(* The process-level registry of who executes which cat of a thread:       *)
(* invocation/InvocationTracker.ts.  The module is one thread of it; the   *)
(* threads of the code share nothing but the map.                          *)
(*                                                                         *)
(* A run is one call of the start family together with the route that made *)
(* it.  The controller that call returned is the run's handle: the slot's  *)
(* own AbortController for start() and tryStartThread() (the runs of       *)
(* `Single'), the gate shared by the batch for startAll() and              *)
(* tryStartThreadAll().  The code compares handles by identity, so a slot  *)
(* names the run it belongs to.                                            *)
(***************************************************************************)
EXTENDS Integers, FiniteSets

CONSTANTS
    Cats,
    Users,
    Runs,
    Single,      \* the runs started by start() or tryStartThread()
    TargetsOf,   \* run -> the cats it was started for
    UserOf,      \* run -> the user who owns it
    NoSlot

ASSUME TrackerAssumption ==
    /\ Single \subseteq Runs
    /\ TargetsOf \in [Runs -> SUBSET Cats \ {{}}]
    /\ \A r \in Single : \E c \in Cats : TargetsOf[r] = {c}
    /\ UserOf \in [Runs -> Users]

VARIABLES
    slot,       \* active: cat -> its ActiveInvocation, or NoSlot
    deleting,   \* the delete guard of the thread is held
    sealing,    \* the cats whose session-seal guard is held
    admitted,   \* the runs that hold an execution admission
    parked,     \* run -> the seals whose release it waits for
    gate,       \* run -> abort reason of its handle, "open" before
    phase,      \* run -> where its route is
    final,      \* run -> what resolveFinalStatus told its route
    doneCats,   \* <<run, cat>>: the route retired this cat itself
    stopped     \* <<run, cat>>: a cancel operation tombstoned this slot

vars == <<slot, deleting, sealing, admitted, parked, gate, phase, final,
          doneCats, stopped>>

locks == <<deleting, sealing, admitted, parked>>
history == <<doneCats, stopped>>

Reasons == {"preempted", "user_cancel", "cancel_all"}
Phases == {"idle", "refused", "running", "routed", "resolved", "finished", "lost"}
Live == {"running", "routed", "resolved"}     \* the route has not returned
Finals == {"none", "succeeded", "canceled", "canceled_by_user"}

\* kind: the slot's controller is the run's handle ("own"), the handle is the
\* gate of its batch ("batch"), or routeSerial claimed it for a hand-over
\* under that gate ("a2a").  bound: the slot carries the run's executionId.
Slots == [run : Runs, kind : {"own", "batch", "a2a"}, bound : BOOLEAN,
          state : {"active", "canceled"}, tornDown : BOOLEAN]

\* A slot that is not there is not an invocation: `undefined' in the code.
ASSUME NoSlotAssumption == NoSlot \notin Slots

TypeOK ==
    /\ slot \in [Cats -> Slots \union {NoSlot}]
    /\ deleting \in BOOLEAN
    /\ sealing \in SUBSET Cats
    /\ admitted \in SUBSET Runs
    /\ parked \in [Runs -> SUBSET Cats]
    /\ gate \in [Runs -> Reasons \union {"open"}]
    /\ phase \in [Runs -> Phases]
    /\ final \in [Runs -> Finals]
    /\ doneCats \in SUBSET (Runs \X Cats)
    /\ stopped \in SUBSET (Runs \X Cats)

Init ==
    /\ slot = [c \in Cats |-> NoSlot]
    /\ deleting = FALSE
    /\ sealing = {}
    /\ admitted = {}
    /\ parked = [r \in Runs |-> {}]
    /\ gate = [r \in Runs |-> "open"]
    /\ phase = [r \in Runs |-> "idle"]
    /\ final = [r \in Runs |-> "none"]
    /\ doneCats = {}
    /\ stopped = {}

-----------------------------------------------------------------------------
Occupied(c) == slot[c] # NoSlot

Active(c) == Occupied(c) /\ slot[c].state = "active"      \* has(thread, cat)

Tombstone(c) == Occupied(c) /\ slot[c].state = "canceled"

ThreadBusy == \E c \in Cats : Active(c)                   \* has(thread)

HasPendingTeardown(c) == Tombstone(c) /\ ~slot[c].tornDown

HasAdmission(c) == \E r \in admitted : c \in TargetsOf[r]

BelongsTo(c, r) == Occupied(c) /\ slot[c].run = r

NewSlot(r, kind, bound) ==
    [run |-> r, kind |-> kind, bound |-> bound, state |-> "active",
     tornDown |-> FALSE]

\* abort() of a controller keeps the reason of its first call.
Aborted(runs, reason) ==
    [r \in Runs |-> IF r \in runs /\ gate[r] = "open" /\ phase[r] \in Live THEN reason ELSE gate[r]]

\* The runs whose handle is the own controller of one of these slots.
OwnedBy(cats) == {slot[c].run : c \in {d \in cats : Occupied(d) /\ slot[d].kind = "own"}}

\* tombstoneCanceledInvocation, for a set of slots.
Tombstoned(cats) ==
    [c \in Cats |-> IF c \in cats THEN [slot[c] EXCEPT !.state = "canceled"]
                                  ELSE slot[c]]

StoppedWith(cats) ==
    stopped \union {<<slot[c].run, c>> : c \in {d \in cats : phase[slot[d].run] \in Live}}

-----------------------------------------------------------------------------
KindOf(r) == IF r \in Single THEN "own" ELSE "batch"

\* The start family writes one fresh slot per target, over whatever is there,
\* and aborts the controllers it overwrites.
Install(r, bound) ==
    /\ slot' = [c \in Cats |-> IF c \in TargetsOf[r]
                               THEN NewSlot(r, KindOf(r), bound)
                               ELSE slot[c]]
    /\ gate' = Aborted(OwnedBy(TargetsOf[r]), "preempted")
    /\ phase' = [phase EXCEPT ![r] = "running"]
    /\ UNCHANGED <<locks, final, history>>

\* start() and startAll() answer a thread that is being deleted with a
\* controller that is aborted already and leave no slot behind.
Refuse(r) ==
    /\ phase' = [phase EXCEPT ![r] = "refused"]
    /\ UNCHANGED <<slot, locks, gate, final, history>>

Start(r) ==
    /\ r \in Single
    /\ phase[r] = "idle"
    /\ IF deleting \/ TargetsOf[r] \cap sealing # {}
         THEN Refuse(r)
         ELSE Install(r, TRUE)

\* tryStartThread and tryStartThreadAll: null leaves the caller where it was.
TryStartThread(r) ==
    /\ phase[r] = "idle"
    /\ parked[r] = {}
    /\ r \notin admitted
    /\ ~deleting
    /\ TargetsOf[r] \cap sealing = {}
    /\ ~ThreadBusy
    /\ Install(r, FALSE)

StartAll(r) ==
    /\ r \notin Single
    /\ phase[r] = "idle"
    /\ parked[r] = {}
    /\ TargetsOf[r] \cap sealing = {}
    /\ IF deleting THEN Refuse(r) ELSE Install(r, TRUE)

\* startAll() met a seal: the caller parks on every seal of its targets.
WaitForSeal(r) ==
    /\ phase[r] = "idle"
    /\ parked[r] = {}
    /\ r \notin admitted
    /\ TargetsOf[r] \cap sealing # {}
    /\ parked' = [parked EXCEPT ![r] = TargetsOf[r] \cap sealing]
    /\ UNCHANGED <<slot, deleting, sealing, admitted, gate, phase, final, history>>

\* acquireExecutionAdmission, past its waiting loop.
Admit(r) ==
    /\ phase[r] = "idle"
    /\ parked[r] = {}
    /\ r \notin admitted
    /\ ~deleting
    /\ TargetsOf[r] \cap sealing = {}
    /\ admitted' = admitted \union {r}
    /\ UNCHANGED <<slot, deleting, sealing, parked, gate, phase, final, history>>

\* The finally block of the caller; it may not have published a slot.
ReleaseAdmission(r) ==
    /\ r \in admitted
    /\ admitted' = admitted \ {r}
    /\ UNCHANGED <<slot, deleting, sealing, parked, gate, phase, final, history>>

BindExecutionId(r) ==
    /\ phase[r] = "running"
    /\ slot' = [c \in Cats |-> IF c \in TargetsOf[r] /\ BelongsTo(c, r)
                               THEN [slot[c] EXCEPT !.bound = TRUE]
                               ELSE slot[c]]
    /\ UNCHANGED <<locks, gate, phase, final, history>>

\* routeSerial claims the slot of a cat its chain hands over to.  The slot
\* gets a controller of its own; a tombstone is replaced.
TrackExternalSlot(r, c) ==
    /\ phase[r] = "running"
    /\ ~deleting
    /\ c \notin sealing
    /\ ~Active(c)
    /\ slot' = [slot EXCEPT ![c] = NewSlot(r, "a2a", TRUE)]
    /\ doneCats' = doneCats \ {<<r, c>>}
    /\ stopped' = stopped \ {<<r, c>>}
    /\ UNCHANGED <<locks, gate, phase, final>>

-----------------------------------------------------------------------------
GuardDelete ==
    /\ ~deleting
    /\ ~ThreadBusy
    /\ admitted = {}
    /\ deleting' = TRUE
    /\ UNCHANGED <<slot, sealing, admitted, parked, gate, phase, final, history>>

ReleaseDelete ==
    /\ deleting
    /\ deleting' = FALSE
    /\ UNCHANGED <<slot, sealing, admitted, parked, gate, phase, final, history>>

\* Broken form: an execution that is admitted but has no slot yet is missed.
SealPastAdmission(c) ==
    /\ ~deleting
    /\ c \notin sealing
    /\ ~Active(c) /\ ~HasPendingTeardown(c)
    /\ sealing' = sealing \union {c}
    /\ UNCHANGED <<slot, deleting, admitted, parked, gate, phase, final, history>>

\* Broken form: a tombstone no longer holds the seal back.
SealPastTeardown(c) ==
    /\ ~deleting
    /\ c \notin sealing
    /\ ~Active(c) /\ ~HasAdmission(c)
    /\ sealing' = sealing \union {c}
    /\ UNCHANGED <<slot, deleting, admitted, parked, gate, phase, final, history>>

GuardSessionSeal(c) ==
    /\ ~deleting
    /\ c \notin sealing
    /\ ~HasAdmission(c)
    /\ ~Active(c)
    /\ ~HasPendingTeardown(c)
    /\ sealing' = sealing \union {c}
    /\ UNCHANGED <<slot, deleting, admitted, parked, gate, phase, final, history>>

\* Broken form: the flag is dropped, the callers that wait for it are not woken.
ReleaseSealSilently(c) ==
    /\ c \in sealing
    /\ sealing' = sealing \ {c}
    /\ UNCHANGED <<slot, deleting, admitted, parked, gate, phase, final, history>>

ReleaseSessionSeal(c) ==
    /\ c \in sealing
    /\ sealing' = sealing \ {c}
    /\ parked' = [r \in Runs |-> parked[r] \ {c}]
    /\ UNCHANGED <<slot, deleting, admitted, gate, phase, final, history>>

-----------------------------------------------------------------------------
\* Broken form: the abort carries no reason.
CancelWithoutReason(c, u) ==
    /\ Occupied(c)
    /\ UserOf[slot[c].run] = u
    /\ slot' = Tombstoned({c})
    /\ gate' = Aborted(OwnedBy({c}), "none")
    /\ stopped' = StoppedWith({c})
    /\ UNCHANGED <<locks, phase, final, doneCats>>

\* cancel(): the cat's own controller only.  It answers a tombstone again.
Cancel(c, u) ==
    /\ Occupied(c)
    /\ UserOf[slot[c].run] = u
    /\ slot' = Tombstoned({c})
    /\ gate' = Aborted(OwnedBy({c}), "user_cancel")
    /\ stopped' = StoppedWith({c})
    /\ UNCHANGED <<locks, phase, final, doneCats>>

\* cancelAll(): every active slot of the user, and the gates of their batches.
CancelAll(u) ==
    LET cats == {c \in Cats : Active(c) /\ UserOf[slot[c].run] = u}
    IN  /\ cats # {}
        /\ slot' = Tombstoned(cats)
        /\ gate' = Aborted({slot[c].run : c \in cats}, "cancel_all")
        /\ stopped' = StoppedWith(cats)
        /\ UNCHANGED <<locks, phase, final, doneCats>>

\* cancelInvocation(): the batches the anchors belong to, tombstones included.
CancelInvocation(anchors, u) ==
    LET mine == {c \in Cats : Occupied(c) /\ UserOf[slot[c].run] = u}
        batches == {slot[c].run : c \in {d \in mine \cap anchors : slot[d].kind # "own"}}
        cats == {c \in mine : c \in anchors
                              \/ (slot[c].kind # "own" /\ slot[c].run \in batches)}
    IN  /\ cats # {}
        /\ slot' = Tombstoned(cats)
        /\ gate' = Aborted(batches \union OwnedBy(cats), "preempted")
        /\ stopped' = StoppedWith(cats)
        /\ UNCHANGED <<locks, phase, final, doneCats>>

-----------------------------------------------------------------------------
\* Broken form: the slot is retired whoever owns it by now.
CompleteSlotByCat(r, c) ==
    /\ phase[r] = "running"
    /\ c \in TargetsOf[r]
    /\ slot' = IF Active(c) THEN [slot EXCEPT ![c] = NoSlot] ELSE slot
    /\ doneCats' = doneCats \union {<<r, c>>}
    /\ UNCHANGED <<locks, gate, phase, final, stopped>>

\* completeSlot(): the route saw a cat's terminal message.  A tombstone stays
\* and its teardown is not over.
CompleteSlot(r, c) ==
    /\ phase[r] = "running"
    /\ BelongsTo(c, r)
    /\ slot' = IF Active(c) THEN [slot EXCEPT ![c] = NoSlot] ELSE slot
    /\ doneCats' = doneCats \union {<<r, c>>}
    /\ UNCHANGED <<locks, gate, phase, final, stopped>>

FinalStatus(r) ==
    CASE gate[r] \in {"user_cancel", "cancel_all"} -> "canceled_by_user"
      [] gate[r] = "preempted" -> "canceled"
      [] OTHER -> IF \A c \in TargetsOf[r] : Tombstone(c)
                  THEN "canceled_by_user" ELSE "succeeded"

\* Only the callers of startAll() and tryStartThreadAll() ask.
ResolveFinalStatus(r) ==
    /\ r \notin Single
    /\ phase[r] = "routed"
    /\ final' = [final EXCEPT ![r] = FinalStatus(r)]
    /\ phase' = [phase EXCEPT ![r] = "resolved"]
    /\ UNCHANGED <<slot, locks, gate, history>>

\* What the complete family does to a set of slots: an active one goes, a
\* tombstone stays with its teardown marked done.
Retired(cats) ==
    [c \in Cats |-> IF c \notin cats \/ ~Occupied(c) THEN slot[c]
                    ELSE IF Active(c) THEN NoSlot
                    ELSE [slot[c] EXCEPT !.tornDown = TRUE]]

\* routeSerial's finally block retires the slots it claimed for hand-overs.
CompleteA2ASlots(r) ==
    LET claimed == {c \in Cats : BelongsTo(c, r) /\ slot[c].kind = "a2a"}
    IN  /\ phase[r] = "running"
        /\ slot' = Retired(claimed)
        /\ doneCats' = doneCats \union {<<r, c>> : c \in claimed}
        /\ phase' = [phase EXCEPT ![r] = "routed"]
        /\ UNCHANGED <<locks, gate, final, stopped>>

\* The route is over: its handle and what it remembered are garbage.
Gone(r, how) ==
    /\ phase' = [phase EXCEPT ![r] = how]
    /\ gate' = [gate EXCEPT ![r] = "open"]
    /\ final' = [final EXCEPT ![r] = "none"]
    /\ doneCats' = {d \in doneCats : d[1] # r}
    /\ stopped' = {d \in stopped : d[1] # r}

\* The finally block of the route's caller.  complete() compares the slot's
\* own controller, completeAll() the gate of the batch as well.
CompleteAll(r) ==
    /\ phase[r] \in {"routed", "resolved"}
    /\ slot' = Retired({c \in TargetsOf[r] :
                          BelongsTo(c, r) /\ (r \in Single => slot[c].kind = "own")})
    /\ Gone(r, "finished")
    /\ UNCHANGED locks

\* The route never returns: its provider died.
Lose(r) ==
    /\ phase[r] \in Live
    /\ Gone(r, "lost")
    /\ UNCHANGED <<slot, locks>>

\* Late cleanup and the reaper name the execution they proved terminal.
CompleteByExecutionId(r, c) ==
    /\ phase[r] \in {"finished", "lost"}
    /\ BelongsTo(c, r) /\ slot[c].bound /\ Active(c)
    /\ slot' = [slot EXCEPT ![c] = NoSlot]
    /\ UNCHANGED <<locks, gate, phase, final, history>>

ReleaseTerminalByExecutionId(r, c) ==
    /\ phase[r] \in {"finished", "lost"}
    /\ BelongsTo(c, r) /\ slot[c].bound
    /\ slot' = [slot EXCEPT ![c] = NoSlot]
    /\ UNCHANGED <<locks, gate, phase, final, history>>

-----------------------------------------------------------------------------
RunStep(r) ==
    \/ Start(r) \/ TryStartThread(r) \/ StartAll(r) \/ WaitForSeal(r)
    \/ Admit(r) \/ ReleaseAdmission(r) \/ BindExecutionId(r)
    \/ ResolveFinalStatus(r) \/ CompleteAll(r) \/ CompleteA2ASlots(r) \/ Lose(r)

SlotStep(r, c) ==
    \/ TrackExternalSlot(r, c) \/ CompleteSlot(r, c)
    \/ CompleteByExecutionId(r, c) \/ ReleaseTerminalByExecutionId(r, c)

GuardStep ==
    \/ GuardDelete \/ ReleaseDelete
    \/ \E c \in Cats : GuardSessionSeal(c) \/ ReleaseSessionSeal(c)

CancelStep ==
    \E u \in Users :
        \/ CancelAll(u)
        \/ \E c \in Cats : Cancel(c, u)
        \/ \E anchors \in SUBSET Cats \ {{}} : CancelInvocation(anchors, u)

Next ==
    \/ \E r \in Runs : RunStep(r) \/ \E c \in Cats : SlotStep(r, c)
    \/ GuardStep
    \/ CancelStep

Spec == Init /\ [][Next]_vars

\* The seal route releases its guard in a finally block.
Fairness == \A c \in Cats : WF_vars(ReleaseSessionSeal(c))

FairSpec == Spec /\ Fairness

-----------------------------------------------------------------------------
\* While a session is sealed nobody executes on it: no slot is active, no
\* canceled provider is still tearing down under a tombstone, and no execution
\* is admitted between its durable work and its slot (#1313).
SealExclusive ==
    \A c \in sealing : ~Active(c) /\ ~HasPendingTeardown(c) /\ ~HasAdmission(c)

\* A thread is deleted only while nothing executes on it or is admitted to.
DeleteExclusive == deleting => ~ThreadBusy /\ admitted = {}

\* The two guards exclude execution, seal by cat and delete by thread.
GuardsExclude == SealExclusive /\ DeleteExclusive

\* An execution that holds an admission is never told "no" when it publishes
\* its slots (QueueProcessor logs an error if it is).
AdmissionPublishes ==
    \A r \in admitted : ~deleting /\ TargetsOf[r] \cap sealing = {}

\* A caller waits only for seals that are held: a release between the check
\* and the wait, or one that woke nobody, would park it for ever.
ParkedOnHeldSeal == \A r \in Runs : parked[r] \subseteq sealing

\* An active slot disappears only when its own route retires it or when its
\* execution was proved terminal: late cleanup of an older run never removes
\* the run that replaced it.
ReplacementKeptStep ==
    \A c \in Cats : Active(c) /\ slot'[c] = NoSlot =>
        \/ <<slot[c].run, c>> \in doneCats'
        \/ phase'[slot[c].run] \in {"finished", "lost"}

ReplacementKept == [][ReplacementKeptStep]_vars

\* A cancellation is visible until the slot is taken over or its execution was
\* proved terminal.
TombstoneKeptStep ==
    \A c \in Cats : Tombstone(c) /\ slot'[c] = NoSlot =>
        phase[slot[c].run] \in {"finished", "lost"}

TombstoneKept == [][TombstoneKeptStep]_vars

\* Late cleanup of an older run takes neither the run that replaced it nor the
\* trace of a cancellation.
LateCleanupHarmless == [][ReplacementKeptStep /\ TombstoneKeptStep]_vars

\* Stopping one cat of a batch stops that cat: the gate of a batch fires only
\* in a step that leaves none of its cats running.
BatchGateStep ==
    \A r \in Runs \ Single : gate[r] = "open" /\ gate'[r] # "open" =>
        \A c \in Cats : BelongsTo(c, r) => ~Active(c)'

SingleCancelIsolated == [][BatchGateStep]_vars

\* Whoever parks on a seal is woken.
ParkedWakes == \A r \in Runs : parked[r] # {} ~> parked[r] = {}

-----------------------------------------------------------------------------
\* resolveFinalStatus: "succeeded" means "at least one cat ran to completion".
SucceededRanToCompletion ==
    [][\A r \in Runs : final[r] = "none" /\ final'[r] = "succeeded" =>
          \E c \in TargetsOf[r] : <<r, c>> \notin stopped]_vars

\* resolveFinalStatus: "canceled_by_user" means the invocation was canceled as
\* a whole, or every target cat by cat.
CanceledWasCanceled ==
    [][\A r \in Runs : final[r] = "none" /\ final'[r] = "canceled_by_user" =>
          gate[r] # "open" \/ \E c \in TargetsOf[r] : <<r, c>> \in stopped]_vars

\* guardSessionSeal: Stop and then Seal must wait until the route of the
\* stopped invocation has called complete().
SealWaitsForTeardown ==
    \A c \in sealing, r \in Runs :
        <<r, c>> \in stopped => phase[r] \notin Live
=============================================================================
