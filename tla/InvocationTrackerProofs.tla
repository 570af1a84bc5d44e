------------------------ MODULE InvocationTrackerProofs ------------------------
(***************************************************************************)
(* Proofs about InvocationTracker, for any cats, users, runs and targets.  *)
(*                                                                         *)
(* The guards exclude each other by what every operation checks in the one *)
(* tick it runs in.  SealExclusive, DeleteExclusive and AdmissionPublishes *)
(* are inductive together: a start may write a slot because no seal and no *)
(* delete guard is held, and a guard may be taken because no slot is       *)
(* active and no admission is held.                                        *)
(***************************************************************************)
EXTENDS InvocationTracker, TLAPS

IInv ==
    /\ TypeOK
    /\ SealExclusive
    /\ DeleteExclusive
    /\ AdmissionPublishes
    /\ ParkedOnHeldSeal

Guards == SealExclusive /\ DeleteExclusive /\ AdmissionPublishes /\ ParkedOnHeldSeal

LEMMA InitIInv == Init => IInv
  BY TrackerAssumption
  DEF Init, IInv, TypeOK, SealExclusive, DeleteExclusive, AdmissionPublishes,
      ParkedOnHeldSeal, ThreadBusy, Active, Occupied, HasPendingTeardown,
      Tombstone, HasAdmission, Phases, Finals

\* Aborting controllers changes no guard and keeps the type of the gates.
LEMMA AbortedType ==
    ASSUME TypeOK, NEW runs, NEW reason \in Reasons
    PROVE  Aborted(runs, reason) \in [Runs -> Reasons \union {"open"}]
  BY DEF Aborted, TypeOK

LEMMA TombstonedType ==
    ASSUME TypeOK, NEW cats \in SUBSET {c \in Cats : Occupied(c)}
    PROVE  /\ Tombstoned(cats) \in [Cats -> Slots \union {NoSlot}]
           /\ StoppedWith(cats) \in SUBSET (Runs \X Cats)
<1>1. \A c \in cats : /\ slot[c] \in Slots
                      /\ [slot[c] EXCEPT !.state = "canceled"] \in Slots
  BY DEF TypeOK, Occupied, Slots
<1>2. Tombstoned(cats) \in [Cats -> Slots \union {NoSlot}]
  BY <1>1 DEF Tombstoned, TypeOK
<1>3. \A c \in cats : <<slot[c].run, c>> \in Runs \X Cats
  BY <1>1 DEF Slots
<1>4. StoppedWith(cats) \in SUBSET (Runs \X Cats)
  BY <1>3 DEF StoppedWith, TypeOK
<1> QED BY <1>2, <1>4

\* A step that installs or claims slots only where no guard is held.
LEMMA InstallIInv ==
    ASSUME IInv, NEW r \in Runs, NEW bound \in BOOLEAN, Install(r, bound),
           ~deleting, TargetsOf[r] \cap sealing = {}
    PROVE  IInv'
<1> USE TrackerAssumption
<1>1. NewSlot(r, KindOf(r), bound) \in Slots
  BY DEF NewSlot, KindOf, Slots
<1>2. slot' \in [Cats -> Slots \union {NoSlot}]
  BY <1>1 DEF Install, IInv, TypeOK
<1>3. gate' \in [Runs -> Reasons \union {"open"}]
  BY AbortedType DEF Install, IInv, Reasons
<1>4. TypeOK'
  BY <1>2, <1>3 DEF Install, locks, history, IInv, TypeOK, Phases
<1>5. \A c \in Cats : c \notin TargetsOf[r] => slot'[c] = slot[c]
  BY DEF Install
<1>6. SealExclusive'
  BY <1>5 DEF Install, locks, IInv, TypeOK, SealExclusive, Active, Occupied,
              HasPendingTeardown, Tombstone, HasAdmission
<1>7. Guards'
  BY <1>6 DEF Guards, Install, locks, IInv, DeleteExclusive, AdmissionPublishes,
              ParkedOnHeldSeal
<1> QED BY <1>4, <1>7 DEF IInv, Guards

LEMMA RefuseIInv ==
    ASSUME IInv, NEW r \in Runs, Refuse(r)
    PROVE  IInv'
  BY DEF Refuse, locks, history, IInv, TypeOK, SealExclusive, DeleteExclusive,
         AdmissionPublishes, ParkedOnHeldSeal, ThreadBusy, Active, Occupied,
         HasPendingTeardown, Tombstone, HasAdmission, Phases

\* A step that leaves the guards alone, makes no cat active that was not, and
\* opens no teardown on an idle cat keeps every guard.
LEMMA GuardsKept ==
    ASSUME IInv, UNCHANGED locks,
           \A c \in Cats : Active(c)' => Active(c),
           \A c \in Cats : HasPendingTeardown(c)' => Active(c) \/ HasPendingTeardown(c)
    PROVE  Guards'
<1>1. SealExclusive'
  BY DEF locks, IInv, TypeOK, SealExclusive, HasAdmission
<1>2. DeleteExclusive'
  BY DEF locks, IInv, DeleteExclusive, ThreadBusy
<1>3. AdmissionPublishes' /\ ParkedOnHeldSeal'
  BY DEF locks, IInv, AdmissionPublishes, ParkedOnHeldSeal
<1> QED BY <1>1, <1>2, <1>3 DEF Guards

\* The same for a step that leaves the slots alone.
LEMMA SlotsKept ==
    ASSUME UNCHANGED slot
    PROVE  /\ \A c \in Cats : Active(c)' <=> Active(c)
           /\ \A c \in Cats : HasPendingTeardown(c)' <=> HasPendingTeardown(c)
           /\ ThreadBusy' <=> ThreadBusy
  BY DEF Active, Occupied, HasPendingTeardown, Tombstone, ThreadBusy

LEMMA TombstonedIInv ==
    ASSUME IInv, NEW cats \in SUBSET {c \in Cats : Occupied(c)},
           NEW runs, NEW reason \in Reasons,
           slot' = Tombstoned(cats),
           gate' = Aborted(runs, reason),
           stopped' = StoppedWith(cats),
           UNCHANGED <<locks, phase, final, doneCats>>
    PROVE  IInv'
<1>1. TypeOK'
  BY AbortedType, TombstonedType DEF IInv, TypeOK, locks
<1>2. ASSUME NEW c \in Cats
      PROVE  /\ Active(c)' => Active(c)
             /\ HasPendingTeardown(c)' => Active(c) \/ HasPendingTeardown(c)
  <2>1. CASE c \in cats
    <3>1. slot[c] \in Slots /\ slot[c] # NoSlot
      BY <2>1 DEF IInv, TypeOK, Occupied
    <3>2. slot'[c] = [slot[c] EXCEPT !.state = "canceled"]
      BY <2>1 DEF Tombstoned
    <3>3. slot'[c].state = "canceled" /\ slot'[c].tornDown = slot[c].tornDown
      BY <3>1, <3>2 DEF Slots
    <3> QED BY <3>1, <3>3
            DEF Slots, Active, Occupied, HasPendingTeardown, Tombstone
  <2>2. CASE c \notin cats
    <3>1. slot'[c] = slot[c]
      BY <2>2 DEF Tombstoned
    <3> QED BY <3>1 DEF Active, Occupied, HasPendingTeardown, Tombstone
  <2> QED BY <2>1, <2>2
<1>3. Guards'
  <2>1. UNCHANGED locks OBVIOUS
  <2> QED BY <1>2, <2>1, GuardsKept
<1> QED BY <1>1, <1>3 DEF IInv, Guards

LEMMA CancelIInv ==
    ASSUME IInv, CancelStep
    PROVE  IInv'
<1>1. PICK u \in Users :
        \/ CancelAll(u)
        \/ \E c \in Cats : Cancel(c, u)
        \/ \E anchors \in SUBSET Cats \ {{}} : CancelInvocation(anchors, u)
  BY DEF CancelStep
<1>2. CASE CancelAll(u)
  <2> DEFINE cats == {c \in Cats : Active(c) /\ UserOf[slot[c].run] = u}
  <2>1. cats \in SUBSET {c \in Cats : Occupied(c)}
    BY DEF Active
  <2>2. "cancel_all" \in Reasons
    BY DEF Reasons
  <2> QED BY <1>2, <2>1, <2>2, TombstonedIInv DEF CancelAll
<1>3. ASSUME NEW c \in Cats, Cancel(c, u) PROVE IInv'
  <2>1. {c} \in SUBSET {d \in Cats : Occupied(d)}
    BY <1>3 DEF Cancel
  <2>2. "user_cancel" \in Reasons
    BY DEF Reasons
  <2> QED BY <1>3, <2>1, <2>2, TombstonedIInv DEF Cancel
<1>4. ASSUME NEW anchors \in SUBSET Cats \ {{}}, CancelInvocation(anchors, u)
      PROVE  IInv'
  <2> DEFINE mine == {c \in Cats : Occupied(c) /\ UserOf[slot[c].run] = u}
             batches == {slot[c].run : c \in {d \in mine \cap anchors :
                                               slot[d].kind # "own"}}
             cats == {c \in mine : c \in anchors
                            \/ (slot[c].kind # "own" /\ slot[c].run \in batches)}
  <2>1. cats \in SUBSET {c \in Cats : Occupied(c)}
    OBVIOUS
  <2>2. "preempted" \in Reasons
    BY DEF Reasons
  <2>3. /\ slot' = Tombstoned(cats)
        /\ gate' = Aborted(batches \union OwnedBy(cats), "preempted")
        /\ stopped' = StoppedWith(cats)
        /\ UNCHANGED <<locks, phase, final, doneCats>>
    BY <1>4 DEF CancelInvocation
  <2> HIDE DEF cats, batches
  <2> QED BY <2>1, <2>2, <2>3, TombstonedIInv
<1> QED BY <1>1, <1>2, <1>3, <1>4

\* Retiring, claiming and binding slots.
LEMMA SlotStepIInv ==
    ASSUME IInv, NEW r \in Runs, NEW c \in Cats, SlotStep(r, c)
    PROVE  IInv'
<1>1. CASE TrackExternalSlot(r, c)
  <2>1. NewSlot(r, "a2a", TRUE) \in Slots
    BY DEF NewSlot, Slots
  <2>2. TypeOK'
    BY <1>1, <2>1 DEF TrackExternalSlot, IInv, TypeOK, locks
  <2>3. \A d \in Cats : d # c => slot'[d] = slot[d]
    BY <1>1 DEF TrackExternalSlot, IInv, TypeOK
  <2>4. SealExclusive'
    BY <1>1, <2>3 DEF TrackExternalSlot, locks, IInv, TypeOK, SealExclusive,
        Active, Occupied, HasPendingTeardown, Tombstone, HasAdmission
  <2>5. DeleteExclusive' /\ AdmissionPublishes' /\ ParkedOnHeldSeal'
    BY <1>1 DEF TrackExternalSlot, locks, IInv, DeleteExclusive,
        AdmissionPublishes, ParkedOnHeldSeal
  <2> QED BY <2>2, <2>4, <2>5 DEF IInv
<1>2. CASE CompleteSlot(r, c) \/ CompleteByExecutionId(r, c)
             \/ ReleaseTerminalByExecutionId(r, c)
  <2>1. /\ slot' = slot \/ slot' = [slot EXCEPT ![c] = NoSlot]
        /\ UNCHANGED <<locks, gate, phase, final, stopped>>
        /\ doneCats' \in SUBSET (Runs \X Cats)
    BY <1>2 DEF CompleteSlot, CompleteByExecutionId,
        ReleaseTerminalByExecutionId, IInv, TypeOK, history
  <2>2. TypeOK'
    BY <2>1 DEF IInv, TypeOK, locks
  <2>3. \A d \in Cats : slot'[d] = slot[d] \/ slot'[d] = NoSlot
    BY <2>1 DEF IInv, TypeOK
  <2>4. /\ \A d \in Cats : Active(d)' => Active(d)
        /\ \A d \in Cats : HasPendingTeardown(d)' => HasPendingTeardown(d)
    BY <2>3 DEF Active, Occupied, HasPendingTeardown, Tombstone
  <2>5. UNCHANGED locks
    BY <2>1
  <2>6. Guards'
    BY <2>4, <2>5, GuardsKept
  <2> QED BY <2>2, <2>6 DEF IInv, Guards
<1> QED BY <1>1, <1>2 DEF SlotStep

LEMMA RetiredKeeps ==
    ASSUME IInv, NEW cats
    PROVE  /\ Retired(cats) \in [Cats -> Slots \union {NoSlot}]
           /\ slot' = Retired(cats) =>
                /\ \A c \in Cats : Active(c)' => Active(c)
                /\ \A c \in Cats : HasPendingTeardown(c)' => HasPendingTeardown(c)
<1>1. ASSUME NEW c \in Cats
      PROVE  /\ Retired(cats)[c] \in Slots \union {NoSlot}
             /\ \/ Retired(cats)[c] = slot[c]
                \/ Retired(cats)[c] = NoSlot
                \/ /\ Tombstone(c)
                   /\ Retired(cats)[c] # NoSlot
                   /\ Retired(cats)[c].state = "canceled"
                   /\ Retired(cats)[c].tornDown
  <2>1. slot[c] \in Slots \union {NoSlot}
    BY DEF IInv, TypeOK
  <2>2. CASE c \in cats /\ Active(c)
    BY <2>2 DEF Retired, Active
  <2>3. CASE c \in cats /\ Occupied(c) /\ ~Active(c)
    <3>1. slot[c] \in Slots /\ slot[c].state = "canceled" /\ Tombstone(c)
      BY <2>1, <2>3 DEF Active, Tombstone, Occupied, Slots
    <3>2. Retired(cats)[c] = [slot[c] EXCEPT !.tornDown = TRUE]
      BY <2>3 DEF Retired
    <3>3. /\ [slot[c] EXCEPT !.tornDown = TRUE] \in Slots
          /\ [slot[c] EXCEPT !.tornDown = TRUE].state = "canceled"
          /\ [slot[c] EXCEPT !.tornDown = TRUE].tornDown
      BY <3>1 DEF Slots
    <3> QED BY <3>1, <3>2, <3>3
  <2>4. CASE c \notin cats \/ ~Occupied(c)
    BY <2>1, <2>4 DEF Retired
  <2> QED BY <2>2, <2>3, <2>4
<1>2. Retired(cats) \in [Cats -> Slots \union {NoSlot}]
  <2>1. /\ DOMAIN Retired(cats) = Cats
        /\ Retired(cats) = [c \in Cats |-> Retired(cats)[c]]
    BY DEF Retired
  <2> QED BY <1>1, <2>1
<1>3. ASSUME slot' = Retired(cats), NEW c \in Cats
      PROVE  /\ Active(c)' => Active(c)
             /\ HasPendingTeardown(c)' => HasPendingTeardown(c)
  BY <1>1, <1>3 DEF Active, Occupied, HasPendingTeardown, Tombstone
<1> QED BY <1>2, <1>3

LEMMA GoneType ==
    ASSUME TypeOK, NEW r \in Runs, NEW how \in {"finished", "lost"},
           Gone(r, how)
    PROVE  /\ phase' \in [Runs -> Phases]
           /\ gate' \in [Runs -> Reasons \union {"open"}]
           /\ final' \in [Runs -> Finals]
           /\ doneCats' \in SUBSET (Runs \X Cats)
           /\ stopped' \in SUBSET (Runs \X Cats)
  BY DEF Gone, TypeOK, Phases, Finals

LEMMA RunStepIInv ==
    ASSUME IInv, NEW r \in Runs, RunStep(r)
    PROVE  IInv'
<1>1. CASE Start(r)
  BY <1>1, InstallIInv, RefuseIInv DEF Start
<1>2. CASE TryStartThread(r)
  BY <1>2, InstallIInv DEF TryStartThread
<1>3. CASE StartAll(r)
  BY <1>3, InstallIInv, RefuseIInv DEF StartAll
<1>4. CASE WaitForSeal(r) \/ Admit(r) \/ ReleaseAdmission(r)
  <2>0. ThreadBusy' <=> ThreadBusy
    BY <1>4, SlotsKept DEF WaitForSeal, Admit, ReleaseAdmission
  <2>1. TypeOK'
    BY <1>4 DEF WaitForSeal, Admit, ReleaseAdmission, history, IInv, TypeOK
  <2>2. SealExclusive'
    BY <1>4 DEF WaitForSeal, Admit, ReleaseAdmission, IInv, TypeOK,
        SealExclusive, Active, Occupied, HasPendingTeardown, Tombstone,
        HasAdmission
  <2>3. DeleteExclusive'
    BY <1>4, <2>0 DEF WaitForSeal, Admit, ReleaseAdmission, IInv,
        DeleteExclusive
  <2>4. AdmissionPublishes'
    BY <1>4 DEF WaitForSeal, Admit, ReleaseAdmission, IInv, AdmissionPublishes
  <2>5. ParkedOnHeldSeal'
    BY <1>4 DEF WaitForSeal, Admit, ReleaseAdmission, IInv, TypeOK,
        ParkedOnHeldSeal
  <2> QED BY <2>1, <2>2, <2>3, <2>4, <2>5 DEF IInv
<1>5. CASE BindExecutionId(r)
  <2>1. ASSUME NEW c \in Cats, Occupied(c)
        PROVE  /\ [slot[c] EXCEPT !.bound = TRUE] \in Slots
               /\ [slot[c] EXCEPT !.bound = TRUE].state = slot[c].state
               /\ [slot[c] EXCEPT !.bound = TRUE].tornDown = slot[c].tornDown
    BY <2>1 DEF IInv, TypeOK, Slots, Occupied
  <2>2. slot' \in [Cats -> Slots \union {NoSlot}]
    BY <1>5, <2>1 DEF BindExecutionId, BelongsTo, IInv, TypeOK
  <2>3. TypeOK'
    BY <1>5, <2>2 DEF BindExecutionId, IInv, TypeOK, locks, history
  <2>4. ASSUME NEW c \in Cats
        PROVE  /\ Active(c)' => Active(c)
               /\ HasPendingTeardown(c)' => HasPendingTeardown(c)
    <3>1. \/ slot'[c] = slot[c]
          \/ Occupied(c) /\ slot'[c] = [slot[c] EXCEPT !.bound = TRUE]
      BY <1>5 DEF BindExecutionId, BelongsTo
    <3> QED BY <2>1, <3>1 DEF Active, HasPendingTeardown, Tombstone, Occupied
  <2>5. UNCHANGED locks
    BY <1>5 DEF BindExecutionId
  <2>6. Guards'
    BY <2>4, <2>5, GuardsKept
  <2> QED BY <2>3, <2>6 DEF IInv, Guards
<1>6. CASE ResolveFinalStatus(r) \/ Lose(r)
  <2>1. UNCHANGED locks /\ UNCHANGED slot
    BY <1>6 DEF ResolveFinalStatus, Lose
  <2>2. FinalStatus(r) \in Finals
    BY DEF FinalStatus, Finals
  <2>3. TypeOK'
    BY <1>6, <2>1, <2>2, GoneType
    DEF ResolveFinalStatus, Lose, IInv, TypeOK, locks, history, Phases
  <2>4. Guards'
    BY <2>1, SlotsKept, GuardsKept
  <2> QED BY <2>3, <2>4 DEF IInv, Guards
<1>7. CASE CompleteAll(r)
  <2>1. UNCHANGED locks /\ Gone(r, "finished")
    BY <1>7 DEF CompleteAll
  <2>2. PICK cats : slot' = Retired(cats)
    BY <1>7 DEF CompleteAll
  <2>3. TypeOK'
    BY <2>1, <2>2, GoneType, RetiredKeeps DEF IInv, TypeOK, locks
  <2>4. Guards'
    BY <2>1, <2>2, RetiredKeeps, GuardsKept
  <2> QED BY <2>3, <2>4 DEF IInv, Guards
<1>8. CASE CompleteA2ASlots(r)
  <2>1. /\ UNCHANGED locks /\ UNCHANGED <<gate, final, stopped>>
        /\ phase' = [phase EXCEPT ![r] = "routed"]
        /\ doneCats' \in SUBSET (Runs \X Cats)
    BY <1>8 DEF CompleteA2ASlots, IInv, TypeOK
  <2>2. PICK cats : slot' = Retired(cats)
    BY <1>8 DEF CompleteA2ASlots
  <2>3. TypeOK'
    BY <2>1, <2>2, RetiredKeeps DEF IInv, TypeOK, locks, Phases
  <2>4. Guards'
    BY <2>1, <2>2, RetiredKeeps, GuardsKept
  <2> QED BY <2>3, <2>4 DEF IInv, Guards
<1> QED BY <1>1, <1>2, <1>3, <1>4, <1>5, <1>6, <1>7, <1>8 DEF RunStep

LEMMA GuardStepIInv ==
    ASSUME IInv, GuardStep
    PROVE  IInv'
<1>1. CASE GuardDelete \/ ReleaseDelete
  <2>0. ThreadBusy' <=> ThreadBusy
    BY <1>1, SlotsKept DEF GuardDelete, ReleaseDelete
  <2>1. TypeOK'
    BY <1>1 DEF GuardDelete, ReleaseDelete, history, IInv, TypeOK
  <2>2. SealExclusive' /\ ParkedOnHeldSeal'
    BY <1>1 DEF GuardDelete, ReleaseDelete, IInv, TypeOK, SealExclusive,
        ParkedOnHeldSeal, Active, Occupied, HasPendingTeardown, Tombstone,
        HasAdmission
  <2>3. DeleteExclusive' /\ AdmissionPublishes'
    BY <1>1, <2>0 DEF GuardDelete, ReleaseDelete, IInv, DeleteExclusive,
        AdmissionPublishes
  <2> QED BY <2>1, <2>2, <2>3 DEF IInv
<1>2. ASSUME NEW c \in Cats, GuardSessionSeal(c) \/ ReleaseSessionSeal(c)
      PROVE  IInv'
  <2>0. ThreadBusy' <=> ThreadBusy
    BY <1>2, SlotsKept DEF GuardSessionSeal, ReleaseSessionSeal
  <2>1. TypeOK'
    BY <1>2 DEF GuardSessionSeal, ReleaseSessionSeal, history, IInv, TypeOK
  <2>2. SealExclusive'
    BY <1>2 DEF GuardSessionSeal, ReleaseSessionSeal, IInv, SealExclusive,
        Active, Occupied, HasPendingTeardown, Tombstone, HasAdmission
  <2>3. DeleteExclusive'
    BY <1>2, <2>0 DEF GuardSessionSeal, ReleaseSessionSeal, IInv,
        DeleteExclusive
  <2>4. AdmissionPublishes'
    BY <1>2 DEF GuardSessionSeal, ReleaseSessionSeal, IInv, TypeOK,
        AdmissionPublishes, HasAdmission
  <2>5. ParkedOnHeldSeal'
    BY <1>2 DEF GuardSessionSeal, ReleaseSessionSeal, IInv, TypeOK,
        ParkedOnHeldSeal
  <2> QED BY <2>1, <2>2, <2>3, <2>4, <2>5 DEF IInv
<1> QED BY <1>1, <1>2 DEF GuardStep

LEMMA NextIInv == IInv /\ [Next]_vars => IInv'
<1> SUFFICES ASSUME IInv, [Next]_vars PROVE IInv'
  OBVIOUS
<1>1. CASE UNCHANGED vars
  BY <1>1 DEF vars, IInv, TypeOK, SealExclusive, DeleteExclusive,
      AdmissionPublishes, ParkedOnHeldSeal, ThreadBusy, Active, Occupied,
      HasPendingTeardown, Tombstone, HasAdmission
<1> QED BY <1>1, RunStepIInv, SlotStepIInv, GuardStepIInv, CancelIInv DEF Next

\* Every reachable state satisfies the inductive invariant.
THEOREM Invariance == Spec => []IInv
  BY InitIInv, NextIInv, PTL DEF Spec

\* The state of InvocationTracker.ts keeps its types.
THEOREM TypeCorrect == Spec => []TypeOK
<1>1. IInv => TypeOK BY DEF IInv
<1> QED BY <1>1, Invariance, PTL

\* A session is sealed only while nothing runs, tears down or is admitted on it.
THEOREM SealExcludesExecution == Spec => []SealExclusive
<1>1. IInv => SealExclusive BY DEF IInv
<1> QED BY <1>1, Invariance, PTL

\* A thread is deleted only while nothing runs on it or is admitted to it.
THEOREM DeleteExcludesExecution == Spec => []DeleteExclusive
<1>1. IInv => DeleteExclusive BY DEF IInv
<1> QED BY <1>1, Invariance, PTL

\* The guards of the seal and of the delete exclude execution.
THEOREM GuardsExcludeExecution == Spec => []GuardsExclude
  BY SealExcludesExecution, DeleteExcludesExecution, PTL DEF GuardsExclude

\* Nobody is parked on a seal that is no longer held.
THEOREM ParkedIsHeld == Spec => []ParkedOnHeldSeal
<1>1. IInv => ParkedOnHeldSeal BY DEF IInv
<1> QED BY <1>1, Invariance, PTL

\* An admitted execution can always publish its slots.
THEOREM AdmissionAlwaysPublishes == Spec => []AdmissionPublishes
<1>1. IInv => AdmissionPublishes BY DEF IInv
<1> QED BY <1>1, Invariance, PTL
-----------------------------------------------------------------------------
(***************************************************************************)
(* What may become of a slot in one step.  It stays; it changes and keeps  *)
(* its run and kind; a fresh invocation is written over it; or it goes,    *)
(* and then either its own route retired it while it was active, or its    *)
(* execution had been proved terminal.                                     *)
(***************************************************************************)
Replaced(c) ==
    \E r \in Runs, kind \in {"own", "batch", "a2a"} :
        /\ slot'[c] \in Slots
        /\ slot'[c].run = r /\ slot'[c].kind = kind
        /\ kind = "own" => r \in Single

Updated(c) ==
    /\ slot[c] \in Slots
    /\ slot'[c] \in Slots
    /\ slot'[c].run = slot[c].run /\ slot'[c].kind = slot[c].kind

Vacated(c) ==
    /\ slot'[c] = NoSlot
    /\ \/ /\ Active(c)
          /\ \/ <<slot[c].run, c>> \in doneCats'
             \/ phase'[slot[c].run] \in {"finished", "lost"}
       \/ /\ phase[slot[c].run] \in {"finished", "lost"}
          /\ UNCHANGED phase

Fate(c) == slot'[c] = slot[c] \/ Updated(c) \/ Replaced(c) \/ Vacated(c)

LEMMA InstallFate ==
    ASSUME TypeOK, NEW r \in Runs, NEW bound \in BOOLEAN, Install(r, bound),
           NEW c \in Cats
    PROVE  Fate(c)
<1>1. CASE c \in TargetsOf[r]
  <2>1. slot'[c] = NewSlot(r, KindOf(r), bound)
    BY <1>1 DEF Install
  <2>2. KindOf(r) \in {"own", "batch", "a2a"} /\ (KindOf(r) = "own" => r \in Single)
    BY DEF KindOf
  <2>3. slot'[c] \in Slots /\ slot'[c].run = r /\ slot'[c].kind = KindOf(r)
    BY <2>1, <2>2 DEF NewSlot, Slots
  <2> QED BY <2>2, <2>3 DEF Fate, Replaced
<1>2. CASE c \notin TargetsOf[r]
  BY <1>2 DEF Install, Fate
<1> QED BY <1>1, <1>2

LEMMA TombstonedFate ==
    ASSUME TypeOK, NEW cats, \A d \in cats : Occupied(d),
           slot' = Tombstoned(cats), NEW c \in Cats
    PROVE  Fate(c)
<1>1. CASE c \in cats
  <2>1. slot[c] \in Slots /\ slot'[c] = [slot[c] EXCEPT !.state = "canceled"]
    BY <1>1 DEF Tombstoned, TypeOK, Occupied
  <2> QED BY <2>1 DEF Slots, Fate, Updated
<1>2. CASE c \notin cats
  BY <1>2 DEF Tombstoned, Fate
<1> QED BY <1>1, <1>2

\* A set of slots of one run is retired: the run is recorded as their end.
LEMMA RetiredFate ==
    ASSUME TypeOK, NEW r \in Runs, NEW cats, \A d \in cats : BelongsTo(d, r),
           slot' = Retired(cats), NEW c \in Cats,
           c \in cats => \/ <<r, c>> \in doneCats'
                         \/ phase'[r] \in {"finished", "lost"}
    PROVE  Fate(c)
<1>1. CASE c \notin cats \/ ~Occupied(c)
  BY <1>1 DEF Retired, Fate
<1>2. CASE c \in cats /\ Active(c)
  <2>1. slot'[c] = NoSlot /\ slot[c].run = r
    BY <1>2 DEF Retired, BelongsTo, Active
  <2> QED BY <1>2, <2>1 DEF Fate, Vacated
<1>3. CASE c \in cats /\ Occupied(c) /\ ~Active(c)
  <2>1. slot[c] \in Slots /\ slot'[c] = [slot[c] EXCEPT !.tornDown = TRUE]
    BY <1>3 DEF Retired, TypeOK, Occupied
  <2> QED BY <2>1 DEF Slots, Fate, Updated
<1> QED BY <1>1, <1>2, <1>3

LEMMA CancelFate ==
    ASSUME TypeOK, CancelStep, NEW c \in Cats
    PROVE  Fate(c)
<1>1. PICK u \in Users :
        \/ CancelAll(u)
        \/ \E d \in Cats : Cancel(d, u)
        \/ \E anchors \in SUBSET Cats \ {{}} : CancelInvocation(anchors, u)
  BY DEF CancelStep
<1>2. \E cats : (\A d \in cats : Occupied(d)) /\ slot' = Tombstoned(cats)
  BY <1>1, Zenon DEF CancelAll, Cancel, CancelInvocation, Active
<1> QED BY <1>2, TombstonedFate

LEMMA RunStepFate ==
    ASSUME TypeOK, NEW r \in Runs, RunStep(r), NEW c \in Cats
    PROVE  Fate(c)
<1>1. CASE Start(r) \/ TryStartThread(r) \/ StartAll(r)
  <2>1. Install(r, TRUE) \/ Install(r, FALSE) \/ UNCHANGED slot
    BY <1>1 DEF Start, TryStartThread, StartAll, Refuse
  <2> QED BY <2>1, InstallFate DEF Fate
<1>2. CASE WaitForSeal(r) \/ Admit(r) \/ ReleaseAdmission(r)
             \/ ResolveFinalStatus(r) \/ Lose(r)
  BY <1>2 DEF WaitForSeal, Admit, ReleaseAdmission, ResolveFinalStatus, Lose, Fate
<1>3. CASE BindExecutionId(r)
  <2>1. CASE c \in TargetsOf[r] /\ BelongsTo(c, r)
    <3>1. slot[c] \in Slots /\ slot'[c] = [slot[c] EXCEPT !.bound = TRUE]
      BY <1>3, <2>1 DEF BindExecutionId, BelongsTo, Occupied, TypeOK
    <3> QED BY <3>1 DEF Slots, Fate, Updated
  <2>2. CASE ~(c \in TargetsOf[r] /\ BelongsTo(c, r))
    BY <1>3, <2>2 DEF BindExecutionId, Fate
  <2> QED BY <2>1, <2>2
<1>4. CASE CompleteAll(r)
  <2> DEFINE cats == {d \in TargetsOf[r] :
                        BelongsTo(d, r) /\ (r \in Single => slot[d].kind = "own")}
  <2>1. slot' = Retired(cats) /\ phase' = [phase EXCEPT ![r] = "finished"]
    BY <1>4 DEF CompleteAll, Gone
  <2>2. phase'[r] \in {"finished", "lost"}
    BY <2>1 DEF TypeOK
  <2>3. \A d \in cats : BelongsTo(d, r)
    OBVIOUS
  <2> HIDE DEF cats
  <2> QED BY <2>1, <2>2, <2>3, RetiredFate
<1>5. CASE CompleteA2ASlots(r)
  <2> DEFINE claimed == {d \in Cats : BelongsTo(d, r) /\ slot[d].kind = "a2a"}
  <2>1. /\ slot' = Retired(claimed)
        /\ doneCats' = doneCats \union {<<r, d>> : d \in claimed}
    BY <1>5 DEF CompleteA2ASlots
  <2>2. \A d \in claimed : BelongsTo(d, r)
    OBVIOUS
  <2>3. c \in claimed => <<r, c>> \in doneCats'
    BY <2>1
  <2> HIDE DEF claimed
  <2> QED BY <2>1, <2>2, <2>3, RetiredFate
<1> QED BY <1>1, <1>2, <1>3, <1>4, <1>5 DEF RunStep

LEMMA SlotStepFate ==
    ASSUME TypeOK, NEW r \in Runs, NEW d \in Cats, SlotStep(r, d), NEW c \in Cats
    PROVE  Fate(c)
<1>1. CASE TrackExternalSlot(r, d)
  <2>1. slot' = [slot EXCEPT ![d] = NewSlot(r, "a2a", TRUE)]
    BY <1>1 DEF TrackExternalSlot
  <2>2. CASE c = d
    <3>1. slot'[c] = NewSlot(r, "a2a", TRUE)
      BY <2>1, <2>2 DEF TypeOK
    <3>2. slot'[c] \in Slots /\ slot'[c].run = r /\ slot'[c].kind = "a2a"
      BY <3>1 DEF NewSlot, Slots
    <3> QED BY <3>2 DEF Fate, Replaced
  <2>3. CASE c # d
    BY <2>1, <2>3 DEF Fate, TypeOK
  <2> QED BY <2>2, <2>3
<1>2. CASE CompleteSlot(r, d)
  <2>1. CASE c = d /\ Active(d)
    <3>1. slot'[c] = NoSlot /\ slot[c].run = r /\ <<r, c>> \in doneCats'
      BY <1>2, <2>1 DEF CompleteSlot, BelongsTo, TypeOK
    <3> QED BY <2>1, <3>1 DEF Fate, Vacated
  <2>2. CASE ~(c = d /\ Active(d))
    BY <1>2, <2>2 DEF CompleteSlot, Fate, TypeOK
  <2> QED BY <2>1, <2>2
<1>3. CASE CompleteByExecutionId(r, d) \/ ReleaseTerminalByExecutionId(r, d)
  <2>1. /\ slot' = [slot EXCEPT ![d] = NoSlot] /\ UNCHANGED phase
        /\ slot[d].run = r /\ phase[r] \in {"finished", "lost"}
    BY <1>3 DEF CompleteByExecutionId, ReleaseTerminalByExecutionId, BelongsTo
  <2>2. CASE c = d
    BY <2>1, <2>2 DEF Fate, Vacated, TypeOK
  <2>3. CASE c # d
    BY <2>1, <2>3 DEF Fate, TypeOK
  <2> QED BY <2>2, <2>3
<1> QED BY <1>1, <1>2, <1>3 DEF SlotStep

LEMMA EveryFate ==
    ASSUME TypeOK, Next, NEW c \in Cats
    PROVE  Fate(c)
<1>1. CASE GuardStep
  BY <1>1 DEF GuardStep, GuardDelete, ReleaseDelete, GuardSessionSeal,
              ReleaseSessionSeal, Fate
<1> QED BY <1>1, RunStepFate, SlotStepFate, CancelFate DEF Next

-----------------------------------------------------------------------------
\* Late cleanup of an older run takes neither the run that replaced it nor the
\* trace of a cancellation: an active slot goes by its own route or after its
\* execution was proved terminal, a tombstone only after that.
THEOREM LateCleanupIsHarmless == Spec => LateCleanupHarmless
<1>1. ASSUME IInv, Next, NEW c \in Cats, Occupied(c), slot'[c] = NoSlot
      PROVE  Vacated(c)
  <2>1. Fate(c) /\ slot[c] \in Slots
    BY <1>1, EveryFate DEF IInv, TypeOK, Occupied
  <2> QED BY <1>1, <2>1, NoSlotAssumption DEF Fate, Updated, Replaced, Occupied
<1>2. IInv /\ [Next]_vars => [ReplacementKeptStep /\ TombstoneKeptStep]_vars
  <2> SUFFICES ASSUME IInv, Next PROVE ReplacementKeptStep /\ TombstoneKeptStep
    OBVIOUS
  <2>1. ReplacementKeptStep
    BY <1>1 DEF ReplacementKeptStep, Vacated, Active
  <2>2. TombstoneKeptStep
    BY <1>1 DEF TombstoneKeptStep, Vacated, Active, Tombstone
  <2> QED BY <2>1, <2>2
<1> QED BY <1>2, Invariance, PTL DEF Spec, LateCleanupHarmless

\* Only the runs of start() and tryStartThread() own the controller of a slot.
OwnSlots == \A c \in Cats : Occupied(c) /\ slot[c].kind = "own" => slot[c].run \in Single

THEOREM OwnersAreSingle == Spec => []OwnSlots
<1>1. Init => OwnSlots
  BY DEF Init, OwnSlots, Occupied
<1>2. IInv /\ OwnSlots /\ [Next]_vars => OwnSlots'
  <2>1. CASE UNCHANGED vars
    BY <2>1 DEF vars, OwnSlots, Occupied
  <2>2. ASSUME IInv, OwnSlots, Next, NEW c \in Cats
        PROVE  Occupied(c)' /\ slot'[c].kind = "own" => slot'[c].run \in Single
    <3>1. Fate(c)
      BY <2>2, EveryFate DEF IInv
    <3> QED BY <2>2, <3>1, NoSlotAssumption
            DEF Fate, Updated, Replaced, Vacated, OwnSlots, Occupied
  <2> QED BY <2>1, <2>2 DEF OwnSlots, Occupied
<1> QED BY <1>1, <1>2, Invariance, PTL DEF Spec

\* Stopping one cat of a batch stops that cat: the gate a batch shares fires
\* only in a step that leaves none of its cats running.
THEOREM SingleCancelIsIsolated == Spec => SingleCancelIsolated
<1>1. ASSUME IInv, OwnSlots, Next, NEW r \in Runs \ Single,
             gate[r] = "open", gate'[r] # "open",
             NEW c \in Cats, BelongsTo(c, r)
      PROVE  ~Active(c)'
  <2>1. \A cats \in SUBSET Cats : r \notin OwnedBy(cats)
    BY <1>1 DEF OwnedBy, OwnSlots
  <2>2. \A runs, reason : gate' = Aborted(runs, reason) => r \in runs
    BY <1>1 DEF Aborted
  <2>3. slot[c] \in Slots /\ slot[c].run = r /\ slot[c].kind # "own"
    BY <1>1 DEF BelongsTo, Occupied, OwnSlots, IInv, TypeOK
  <2>4. ~(\E q \in Runs, bound \in BOOLEAN : Install(q, bound))
    BY <2>1, <2>2, TrackerAssumption DEF Install
  <2>5. \A q \in Runs, how \in {"finished", "lost"} : ~Gone(q, how)
    BY <1>1 DEF Gone, IInv, TypeOK
  <2>6. ~\E q \in Runs : RunStep(q)
    BY <1>1, <2>4, <2>5
    DEF RunStep, Start, TryStartThread, StartAll, Refuse, WaitForSeal, Admit,
        ReleaseAdmission, BindExecutionId, ResolveFinalStatus, CompleteAll,
        CompleteA2ASlots, Lose
  <2>7. ~\E q \in Runs, d \in Cats : SlotStep(q, d)
    BY <1>1 DEF SlotStep, TrackExternalSlot, CompleteSlot, CompleteByExecutionId,
        ReleaseTerminalByExecutionId
  <2>8. ~GuardStep
    BY <1>1 DEF GuardStep, GuardDelete, ReleaseDelete, GuardSessionSeal,
        ReleaseSessionSeal
  <2>9. \A cats : slot' = Tombstoned(cats) /\ (Active(c) => c \in cats) => ~Active(c)'
    <3> SUFFICES ASSUME NEW cats, slot' = Tombstoned(cats), Active(c) => c \in cats
                 PROVE  ~Active(c)'
      OBVIOUS
    <3>1. CASE c \in cats
      <4>1. slot'[c] = [slot[c] EXCEPT !.state = "canceled"]
        BY <3>1 DEF Tombstoned
      <4> QED BY <2>3, <4>1 DEF Slots, Active
    <3>2. CASE c \notin cats
      <4>1. slot'[c] = slot[c]
        BY <3>2 DEF Tombstoned
      <4> QED BY <3>2, <4>1 DEF Active, Occupied
    <3> QED BY <3>1, <3>2
  <2>10. PICK u \in Users :
           \/ CancelAll(u)
           \/ \E d \in Cats : Cancel(d, u)
           \/ \E anchors \in SUBSET Cats \ {{}} : CancelInvocation(anchors, u)
    BY <1>1, <2>6, <2>7, <2>8 DEF Next, CancelStep
  <2>11. CASE CancelAll(u)
    <3> DEFINE cats == {d \in Cats : Active(d) /\ UserOf[slot[d].run] = u}
    <3>1. slot' = Tombstoned(cats) /\ gate' = Aborted({slot[d].run : d \in cats}, "cancel_all")
      BY <2>11 DEF CancelAll
    <3>2. UserOf[r] = u
      BY <2>2, <3>1
    <3>3. Active(c) => c \in cats
      BY <2>3, <3>2
    <3> HIDE DEF cats
    <3> QED BY <2>9, <3>1, <3>3
  <2>12. ASSUME NEW d \in Cats, Cancel(d, u) PROVE FALSE
    BY <2>1, <2>2, <2>12 DEF Cancel
  <2>13. ASSUME NEW anchors \in SUBSET Cats \ {{}}, CancelInvocation(anchors, u)
         PROVE  ~Active(c)'
    <3> DEFINE mine == {d \in Cats : Occupied(d) /\ UserOf[slot[d].run] = u}
               batches == {slot[d].run : d \in {e \in mine \cap anchors :
                                                 slot[e].kind # "own"}}
               cats == {d \in mine : d \in anchors
                            \/ (slot[d].kind # "own" /\ slot[d].run \in batches)}
    <3>1. /\ slot' = Tombstoned(cats)
          /\ gate' = Aborted(batches \union OwnedBy(cats), "preempted")
      BY <2>13 DEF CancelInvocation
    <3>2. cats \in SUBSET Cats
      OBVIOUS
    <3>3. r \in batches
      <4> HIDE DEF cats, batches
      <4> QED BY <2>1, <2>2, <3>1, <3>2
    <3>4. UserOf[r] = u
      BY <3>3
    <3>5. c \in cats
      BY <1>1, <2>3, <3>3, <3>4 DEF BelongsTo
    <3> HIDE DEF cats, batches
    <3> QED BY <2>9, <3>1, <3>5
  <2> QED BY <2>10, <2>11, <2>12, <2>13
<1>2. IInv /\ OwnSlots /\ [Next]_vars => [BatchGateStep]_vars
  BY <1>1 DEF BatchGateStep
<1> QED BY <1>2, Invariance, OwnersAreSingle, PTL DEF Spec, SingleCancelIsolated
=============================================================================
