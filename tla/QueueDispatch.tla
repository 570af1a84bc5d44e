----------------------------- MODULE QueueDispatch -----------------------------
(***************************************************************************)
(* The message queue of one user in one thread (InvocationQueue), the      *)
(* dispatcher that executes it (QueueProcessor) and the steer routes that  *)
(* preempt a cat for chosen entries (routes/queue.ts).                     *)
(*                                                                         *)
(* An entry is queued, claimed by an attempt ("processing"), and requeued  *)
(* or removed when the attempt ends.  An attempt holds the processing slot *)
(* of its lead cat from its claim on, and the invocation tracker's slots   *)
(* of all its cats while it runs.  A steer reserves one entry or a batch,  *)
(* stops what the cat does, and claims the whole reservation at once.  The *)
(* user's stop frees the cat's processing slot whoever holds it.           *)
(*                                                                         *)
(* One action is one synchronous turn: every await is a place where the    *)
(* other actions run.  Left out: the comparator's order (a claim may take  *)
(* any entry it may order first), what is durable (a durable write appears *)
(* as its success or its failure), pauses, other users, agent entries.     *)
(***************************************************************************)
EXTENDS Integers, FiniteSets

CONSTANTS Entries, Cats, Steers, Attempts,
          TargetsOf,     \* the targetCats of an entry when it is enqueued
          Rank,          \* the place of a cat in the entry's targetCats
          MaxBatch,      \* MAX_QUEUE_DEPTH
          External,      \* an invocation that did not come from the queue
          SlowWrites,    \* may the write of a claim outlast the reaper's TTL?
          Stops,         \* the cats whose work the user stops
          None

ASSUME QueueAssumption ==
    /\ TargetsOf \in [Entries -> SUBSET Cats]
    /\ \A e \in Entries : TargetsOf[e] # {}
    /\ Rank \in [Entries -> [Cats -> Nat]]
    /\ MaxBatch \in Nat
    /\ SlowWrites \in BOOLEAN
    /\ Stops \subseteq Cats
    /\ None \notin Entries \union Cats \union Steers \union Attempts
    /\ External \notin Attempts \union {None}

VARIABLES
    row,      \* the queue entries
    book,     \* exactSteerReservations: the bookkeeping of each steer
    route,    \* where the route of each steer stands
    slot,     \* processingSlots, per cat
    tracker,  \* the active slots of the InvocationTracker, per cat
    att,      \* the executions startReservedEntry began
    scan,     \* a tryExecuteNextAcrossUsers loop in progress
    clear     \* entries a clear-queue request has yet to look at

vars == <<row, book, route, slot, tracker, att, scan, clear>>

NoSlot == [by |-> None, barrier |-> FALSE]
NoBook == [phase |-> "none", target |-> None, primary |-> None, members |-> {},
           snap |-> [e \in Entries |-> {}]]
NoAttempt == [phase |-> "unused", entry |-> None, batch |-> {}, cats |-> {},
              lead |-> None, res |-> None, caller |-> None, ok |-> {}, todo |-> {}]

Row == [status : {"absent", "queued", "processing", "gone"},
        targets : SUBSET Cats, res : Steers \union {None}]
Book == [phase : {"none", "reserved", "preempting", "activated"},
         target : Cats \union {None}, primary : Entries \union {None},
         members : SUBSET Entries, snap : [Entries -> SUBSET Cats]]
Slot == [by : Attempts \union {None}, barrier : BOOLEAN]
Attempt == [phase : {"unused", "persisting", "restoring", "creating", "parked", "running",
                     "ending", "stopped", "failing", "completing", "done", "dropped"},
            entry : Entries \union {None}, batch : SUBSET Entries,
            cats : SUBSET Cats, lead : Cats \union {None}, res : Steers \union {None},
            caller : Steers \union {None}, ok : SUBSET Cats, todo : SUBSET Entries]

\* The state is well formed; an entry in the queue is for some cat.
TypeOK ==
    /\ row \in [Entries -> Row]
    /\ book \in [Steers -> Book]
    /\ route \in [Steers -> [pc : {"idle", "persisting", "retiring", "preempted",
                                   "starting", "done"},
                             retires : Attempts \union {None}]]
    /\ slot \in [Cats -> Slot]
    /\ tracker \in [Cats -> Attempts \union {External, None}]
    /\ att \in [Attempts -> Attempt]
    /\ scan \in [on : BOOLEAN, busy : SUBSET Cats]
    /\ clear \in SUBSET Entries
    /\ \A e \in Entries : row[e].status \in {"queued", "processing"} => row[e].targets # {}

Init ==
    /\ row = [e \in Entries |-> [status |-> "absent", targets |-> TargetsOf[e], res |-> None]]
    /\ book = [s \in Steers |-> NoBook]
    /\ route = [s \in Steers |-> [pc |-> "idle", retires |-> None]]
    /\ slot = [c \in Cats |-> NoSlot]
    /\ tracker = [c \in Cats |-> None]
    /\ att = [a \in Attempts |-> NoAttempt]
    /\ scan = [on |-> FALSE, busy |-> {}]
    /\ clear = {}

-----------------------------------------------------------------------------
\* What the queue answers.

Queued(e) == row[e].status = "queued"
Processing(e) == row[e].status = "processing"

\* targetCats[0]
First(e) == CHOOSE c \in row[e].targets : \A d \in row[e].targets : Rank[e][c] <= Rank[e][d]

CatBusy(c) == slot[c] # NoSlot \/ tracker[c] # None

\* Every entry of the reservation is still queued under it.
Intact(s) ==
    /\ book[s].phase # "none"
    /\ \A e \in book[s].members : Queued(e) /\ row[e].res = s

\* peekActivatedExactSteerReservation
Claimable(s) == Intact(s) /\ book[s].phase = "activated"

\* hasUnsettledExactSteerReservation
Unsettled(e) ==
    \E s \in Steers : book[s].phase \in {"reserved", "preempting"} /\ e \in book[s].members

Carried(a) == {att[a].entry} \union att[a].batch

\* The attempt still owns the slot it reserved.
Owns(a) == slot[att[a].lead] = [by |-> a, barrier |-> FALSE]

\* resolveProcessingGroupAcrossUsers: the rows that stand or fall with e, none
\* if e is not processing or its reservation no longer adds up.
Group(e) ==
    IF ~Processing(e) THEN {}
    ELSE IF row[e].res = None THEN {e}
    ELSE LET s == row[e].res
         IN  IF /\ book[s].phase # "none"
                /\ \A m \in book[s].members : Processing(m) /\ row[m].res = s
             THEN book[s].members ELSE {}

\* releaseExactUserBatch: what is still queued gets its snapshot back.
RowsReleased(S) ==
    [e \in Entries |->
        IF Queued(e) /\ row[e].res \in S /\ book[row[e].res].phase # "none"
        THEN [status |-> "queued", targets |-> book[row[e].res].snap[e], res |-> None]
        ELSE row[e]]
Drop(S) == [s \in Steers |-> IF s \in S THEN NoBook ELSE book[s]]

WithStatus(E, status) ==
    [e \in Entries |-> IF e \in E THEN [row[e] EXCEPT !.status = status] ELSE row[e]]

-----------------------------------------------------------------------------
\* The user's own requests.

Enqueue(e) ==
    /\ row[e].status = "absent"
    /\ row' = [row EXCEPT ![e].status = "queued"]
    /\ UNCHANGED <<book, route, slot, tracker, att, scan, clear>>

\* DELETE an entry: a reservation it is part of is given up first.
Withdraw(e) ==
    /\ Queued(e) /\ ~Unsettled(e)
    /\ row' = [RowsReleased({row[e].res} \ {None}) EXCEPT ![e].status = "gone"]
    /\ book' = Drop({row[e].res} \ {None})
    /\ UNCHANGED <<route, slot, tracker, att, scan, clear>>

\* DELETE the queue: refused while a steer is under way.  All reservations are
\* given up and the first queued entry is removed; the others follow one await
\* at a time.  Entries at work are passed over.
ClearQueue ==
    LET S == {row[e].res : e \in {x \in Entries : Queued(x) \/ Processing(x)}} \ {None}
    IN  /\ clear = {}
        /\ ~ \E e \in Entries : Unsettled(e)
        /\ book' = Drop(S)
        /\ \/ \E e \in Entries :
                /\ Queued(e)
                /\ row' = [RowsReleased(S) EXCEPT ![e].status = "gone"]
                /\ clear' = {x \in Entries : Queued(x) \/ Processing(x)} \ {e}
           \/ /\ ~ \E e \in Entries : Queued(e)
              /\ UNCHANGED <<row, clear>>
        /\ UNCHANGED <<route, slot, tracker, att, scan>>

ClearOne(e) ==
    /\ e \in clear
    /\ clear' = clear \ {e}
    /\ row' = IF Queued(e) THEN WithStatus({e}, "gone") ELSE row
    /\ UNCHANGED <<book, route, slot, tracker, att, scan>>

\* An invocation the queue knows nothing of takes an idle thread, and ends.
ExternalStart(c) ==
    /\ \A d \in Cats : tracker[d] = None
    /\ slot[c] = NoSlot
    /\ tracker' = [tracker EXCEPT ![c] = External]
    /\ UNCHANGED <<row, book, route, slot, att, scan, clear>>

ExternalEnd(c) ==
    /\ tracker[c] = External
    /\ tracker' = [tracker EXCEPT ![c] = None]
    /\ UNCHANGED <<row, book, route, slot, att, scan, clear>>

\* The user stops a cat at work: the tracker's slot is cancelled and the
\* processing slot deleted, in one turn and whoever owns it.
Stop(c) ==
    /\ tracker[c] # None
    /\ tracker' = [tracker EXCEPT ![c] = None]
    /\ slot' = [slot EXCEPT ![c] = NoSlot]
    /\ UNCHANGED <<row, book, route, att, scan, clear>>

\* releaseSlot after a stop that found nothing at work but a leftover of an
\* earlier run (its record, its session lock), or a force reset: the tracker was
\* looked at before an await, and a turn of the same user may have begun since.
ReleaseSlot(c) ==
    /\ slot[c] # NoSlot
    /\ slot' = [slot EXCEPT ![c] = NoSlot]
    /\ UNCHANGED <<row, book, route, tracker, att, scan, clear>>

-----------------------------------------------------------------------------
\* Claims: the rows become processing and the lead cat's slot is reserved in
\* one turn; the caller then awaits the write of the claimed rows.
Claim(a, e, batch, c, caller) ==
    /\ att[a].phase = "unused"
    /\ row' = WithStatus({e} \union batch, "processing")
    /\ att' = [att EXCEPT ![a] = [phase |-> "persisting", entry |-> e, batch |-> batch,
                                  cats |-> row[e].targets, lead |-> c, res |-> row[e].res,
                                  caller |-> caller, ok |-> {}, todo |-> {}]]
    /\ slot' = [slot EXCEPT ![c] = [by |-> a, barrier |-> FALSE]]
    /\ UNCHANGED <<tracker, clear>>

ClaimReservation(s, a, caller) ==
    LET p == book[s].primary
    IN  Claim(a, p, book[s].members \ {p}, First(p), caller)

\* processNext: an activated reservation goes first; a busy cat starts nothing.
StartReservation(s, a) ==
    /\ Claimable(s) /\ ~CatBusy(First(book[s].primary))
    /\ ClaimReservation(s, a, None)
    /\ UNCHANGED <<book, route, scan>>

StartReserved(e, a) ==                 \* does not look at the reservation
    /\ ~ \E s \in Steers : Claimable(s)
    /\ Queued(e) /\ ~CatBusy(First(e))
    /\ Claim(a, e, {}, First(e), None)
    /\ UNCHANGED <<book, route, scan>>

StartEntry(e, a) ==
    /\ ~ \E s \in Steers : Claimable(s)
    /\ Queued(e) /\ row[e].res = None /\ ~CatBusy(First(e))
    /\ Claim(a, e, {}, First(e), None)
    /\ UNCHANGED <<book, route, scan>>

-----------------------------------------------------------------------------
\* tryExecuteNextAcrossUsers, run when an invocation completes or a pause
\* elapses: one synchronous loop that learns the busy cats on its way.
Offered(s) == Claimable(s) /\ book[s].target \notin scan.busy

BeginScan ==
    /\ \E e \in Entries : Queued(e)
    /\ scan' = [on |-> TRUE, busy |-> {}]
    /\ UNCHANGED <<row, book, route, slot, tracker, att, clear>>

EndScan == scan' = [on |-> FALSE, busy |-> {}]

ScanSkips(c) ==
    /\ scan' = [scan EXCEPT !.busy = @ \union {c}]
    /\ UNCHANGED <<row, book, route, slot, tracker, att, clear>>

ScanReservation(s, a) ==
    /\ Offered(s)
    /\ LET c == First(book[s].primary)
       IN  IF CatBusy(c)
           THEN ScanSkips(c)
           ELSE ClaimReservation(s, a, None) /\ EndScan /\ UNCHANGED <<book, route>>

\* Entries of cats known to be busy are passed over; one whose cat turns out
\* to be busy is put back.
ScanEntry(e, a) ==
    /\ ~ \E s \in Steers : Offered(s)
    /\ Queued(e) /\ row[e].res = None /\ First(e) \notin scan.busy
    /\ IF CatBusy(First(e))
       THEN ScanSkips(First(e))
       ELSE Claim(a, e, {}, First(e), None) /\ EndScan /\ UNCHANGED <<book, route>>

ScanFindsNothing ==
    /\ ~ \E s \in Steers : Offered(s)
    /\ ~ \E e \in Entries : Queued(e) /\ row[e].res = None /\ First(e) \notin scan.busy
    /\ EndScan
    /\ UNCHANGED <<row, book, route, slot, tracker, att, clear>>

-----------------------------------------------------------------------------
\* The steer routes.
Goto(s, pc) == route' = [route EXCEPT ![s].pc = pc]

Eligible(e) == Queued(e) /\ row[e].res = None

\* reserveExactUserEntry (one entry) and reserveExactUserBatch (single-target
\* entries of one cat); the route then awaits the write of the reserved rows.
Reserve(s, E, p) ==
    /\ route[s].pc = "idle"
    /\ p \in E /\ \A e \in E : Eligible(e)
    /\ E # {p} => /\ Cardinality(E) <= MaxBatch
                  /\ \A e \in E : row[e].targets = {First(p)}
    /\ row' = [e \in Entries |-> IF e \in E THEN [row[e] EXCEPT !.res = s] ELSE row[e]]
    /\ book' = [book EXCEPT ![s] = [phase |-> "reserved", target |-> First(p), primary |-> p,
                                    members |-> E, snap |-> [e \in Entries |-> row[e].targets]]]
    /\ Goto(s, "persisting")
    /\ UNCHANGED <<slot, tracker, att, scan, clear>>

\* Every failure of a steer ends here.
GiveUp(s) ==
    /\ row' = RowsReleased({s})
    /\ book' = Drop({s})
    /\ Goto(s, "done")

ReservationNotWritten(s) ==
    /\ route[s].pc = "persisting"
    /\ GiveUp(s)
    /\ UNCHANGED <<slot, tracker, att, scan, clear>>

\* beginExactSteerPreemption, then preemptSteerTarget up to its first await: a
\* turn at work is stopped and its slot freed; an execution that has not
\* started its turn is barred from doing so; a free cat needs nothing.
Preempt(s) ==
    LET c == book[s].target
        inFlight == \E e \in Entries : Processing(e) /\ First(e) = c
        owner == slot[c].by
    IN  /\ route[s].pc = "persisting"
        /\ UNCHANGED <<att, scan, clear>>
        /\ \/ /\ ~(Intact(s) /\ book[s].phase = "reserved")
              /\ GiveUp(s)
              /\ UNCHANGED <<slot, tracker>>
           \/ /\ Intact(s) /\ book[s].phase = "reserved"
              /\ \/ /\ tracker[c] # None
                    /\ tracker' = [tracker EXCEPT ![c] = None]
                    /\ slot' = [slot EXCEPT ![c] = NoSlot]
                    /\ book' = [book EXCEPT ![s].phase = "preempting"]
                    /\ Goto(s, "preempted")
                    /\ UNCHANGED row
                 \/ /\ tracker[c] = None /\ ~inFlight
                    /\ book' = [book EXCEPT ![s].phase = "preempting"]
                    /\ Goto(s, "preempted")
                    /\ UNCHANGED <<row, slot, tracker>>
                 \/ /\ tracker[c] = None /\ inFlight
                    /\ owner # None /\ Group(att[owner].entry) # {}
                    /\ slot' = [slot EXCEPT ![c].barrier = TRUE]
                    /\ book' = [book EXCEPT ![s].phase = "preempting"]
                    /\ route' = [route EXCEPT ![s] = [pc |-> "retiring", retires |-> owner]]
                    /\ UNCHANGED <<row, tracker>>
                 \/ /\ tracker[c] = None /\ inFlight
                    /\ owner = None \/ (owner # None /\ Group(att[owner].entry) = {})
                    /\ GiveUp(s)
                    /\ UNCHANGED <<slot, tracker>>

\* The barred execution's messages and custody are terminal in the store:
\* commitPreparedPrestartRetirements removes its rows and lifts the barrier,
\* if both are as they were.
CommitRetirement(s) ==
    LET c == book[s].target
        a == route[s].retires
        group == Group(att[a].entry)
        owned == row[att[a].entry].res
    IN  /\ route[s].pc = "retiring"
        /\ IF slot[c] = [by |-> a, barrier |-> TRUE] /\ group # {}
           THEN /\ row' = WithStatus(group, "gone")
                /\ book' = Drop({owned} \ {None})
                /\ slot' = [slot EXCEPT ![c] = NoSlot]
                /\ Goto(s, "preempted")
           ELSE GiveUp(s) /\ UNCHANGED slot
        /\ UNCHANGED <<tracker, att, scan, clear>>

\* A write fails: the barrier stays for the next steer.
RetirementNotWritten(s) ==
    /\ route[s].pc = "retiring"
    /\ GiveUp(s)
    /\ UNCHANGED <<slot, tracker, att, scan, clear>>

\* activateExactSteerReservation and processExactSteerReservation.
StartSteered(s, a) ==
    /\ route[s].pc = "preempted"
    /\ Intact(s) /\ book[s].phase = "preempting"
    /\ ~CatBusy(First(book[s].primary))
    /\ book' = [book EXCEPT ![s].phase = "activated"]
    /\ ClaimReservation(s, a, s)
    /\ Goto(s, "starting")
    /\ UNCHANGED scan

SteerNotStarted(s) ==
    /\ route[s].pc = "preempted"
    /\ ~(Intact(s) /\ book[s].phase = "preempting" /\ ~CatBusy(First(book[s].primary)))
    /\ GiveUp(s)
    /\ UNCHANGED <<slot, tracker, att, scan, clear>>

-----------------------------------------------------------------------------
\* The life of an attempt: startReservedEntry and executeEntry.
Phase(a, phase) == att' = [att EXCEPT ![a].phase = phase]

FreeSlot(a) == slot' = [slot EXCEPT ![att[a].lead] = NoSlot]   \* whoever owns it

\* releaseProcessingSlot compares identities.
FreeOwnSlot(a) == slot' = IF Owns(a) THEN [slot EXCEPT ![att[a].lead] = NoSlot] ELSE slot

\* The claimed rows are written: the execution starts and the caller answers.
StartWritten(a) ==
    /\ att[a].phase = "persisting"
    /\ Phase(a, "creating")
    /\ route' = [s \in Steers |-> IF s = att[a].caller THEN [route[s] EXCEPT !.pc = "done"]
                                  ELSE route[s]]
    /\ UNCHANGED <<row, book, slot, tracker, scan, clear>>

\* They are not: the claim is undone, for a reservation as long as its
\* bookkeeping is there, and the restored rows are written.
StartNotWritten(a) ==
    LET s == att[a].res
        undone == IF s = None THEN {att[a].entry}
                  ELSE {e \in book[s].members : book[s].phase # "none" /\ row[e].res = s}
    IN  /\ att[a].phase = "persisting"
        /\ row' = WithStatus({e \in undone : Processing(e)}, "queued")
        /\ FreeOwnSlot(a)
        /\ Phase(a, "restoring")
        /\ UNCHANGED <<book, route, tracker, scan, clear>>

\* That write done or failed, a steer gives its reservation up.
StartRejected(a) ==
    /\ att[a].phase = "restoring"
    /\ Phase(a, "done")
    /\ IF att[a].caller = None THEN UNCHANGED <<row, book, route>> ELSE GiveUp(att[a].caller)
    /\ UNCHANGED <<slot, tracker, scan, clear>>

CanStartLead(a) == Owns(a) /\ tracker[att[a].lead] = None     \* one cat is looked at

\* canStartReservedTargetSet
CanStart(a) ==
    /\ Owns(a)
    /\ \A c \in att[a].cats : tracker[c] = None /\ (slot[c] = NoSlot \/ c = att[a].lead)

StartAll(a) ==
    tracker' = [c \in Cats |-> IF c \in att[a].cats THEN a ELSE tracker[c]]

\* Queued user entries for the same cats that may be answered along with this one.
Matching(a) ==
    IF att[a].res # None THEN {}
    ELSE {e \in Entries : Queued(e) /\ row[e].res = None /\ row[e].targets = att[a].cats}

LeaveReplacedKeepsSlot(a, batch) ==    \* the completion handler is forgotten
    /\ att' = [att EXCEPT ![a].phase = "done", ![a].batch = batch]
    /\ UNCHANGED <<slot, tracker>>

\* Leaving because the reservation was "replaced": no row is settled.
LeaveReplaced(a, batch) ==
    /\ att' = [att EXCEPT ![a].phase = "done", ![a].batch = batch]
    /\ FreeOwnSlot(a)
    /\ UNCHANGED tracker

Start(a, batch) ==
    /\ att' = [att EXCEPT ![a].phase = "running", ![a].batch = batch]
    /\ StartAll(a)
    /\ UNCHANGED slot

\* The InvocationRecord exists: the slot is checked, matching entries join, and
\* the turn starts on all cats, or parks behind a session seal.
Launch(a, extra) ==
    /\ att[a].phase = "creating"
    /\ UNCHANGED <<book, route, scan, clear>>
    /\ \/ /\ ~Owns(a) /\ extra = {}
          /\ LeaveReplaced(a, att[a].batch)
          /\ UNCHANGED row
       \/ /\ Owns(a) /\ extra \subseteq Matching(a)
          /\ row' = WithStatus(extra, "processing")
          /\ \/ ~CanStart(a) /\ LeaveReplaced(a, att[a].batch \union extra)
             \/ CanStart(a) /\ Start(a, att[a].batch \union extra)
             \/ /\ CanStart(a)
                /\ att' = [att EXCEPT ![a].phase = "parked", ![a].batch = @ \union extra]
                /\ UNCHANGED <<slot, tracker>>

\* The seal is over.
Unpark(a) ==
    /\ att[a].phase = "parked"
    /\ IF CanStart(a) THEN Start(a, att[a].batch) ELSE LeaveReplaced(a, att[a].batch)
    /\ UNCHANGED <<row, book, route, scan, clear>>

\* It does not come to that: a fence or the creation of the record fails, or the
\* record is a duplicate, or the carrier was terminalized before.  Such an exit
\* does not ask whether the attempt still owns its slot.
Fail(a) ==
    /\ att[a].phase \in {"creating", "parked"}
    /\ att' = [att EXCEPT ![a].phase = "failing", ![a].todo = Carried(a)]
    /\ UNCHANGED <<row, book, route, slot, tracker, scan, clear>>

\* The turn ends; ok are the cats that answered, none if it failed.  The tracker
\* is left; the rows follow, one await at a time.
Finish(a, ok, stopped) ==
    /\ att[a].phase = "running"
    /\ ok \subseteq {c \in att[a].cats : tracker[c] = a}
    /\ stopped => ok = {}
    /\ tracker' = [c \in Cats |-> IF tracker[c] = a THEN None ELSE tracker[c]]
    /\ att' = [att EXCEPT ![a].phase = IF stopped THEN "stopped" ELSE "ending",
                         ![a].ok = ok, ![a].todo = Carried(a)]
    /\ UNCHANGED <<row, book, route, slot, scan, clear>>

\* settleAttemptQueueEntry, for the entry and then for each of its batch: what is
\* processing is queued again (after a success as staging for its receipts), or
\* removed, if the user stopped the turn and the withdrawal is written, or the
\* exit before the start counted as a success.
Settle(a, e, end) ==
    /\ att[a].phase \in {"ending", "stopped", "failing"} /\ e \in att[a].todo
    /\ att[a].entry \in att[a].todo => e = att[a].entry
    /\ att[a].phase = "ending" => end = "queued"
    /\ row' = IF Processing(e) THEN WithStatus({e}, end) ELSE row
    /\ att' = [att EXCEPT ![a].todo = @ \ {e}]
    /\ UNCHANGED <<book, route, slot, tracker, scan, clear>>

\* The slot is freed; without it the completion has no further effect.
Release(a) ==
    /\ att[a].phase \in {"ending", "stopped", "failing"} /\ att[a].todo = {}
    /\ FreeOwnSlot(a)
    /\ Phase(a, IF Owns(a) THEN "completing"
                ELSE IF att[a].phase = "failing" THEN "dropped" ELSE "done")
    /\ UNCHANGED <<row, book, route, tracker, scan, clear>>

CompleteKeepsEmptied(a, seen) ==       \* an entry without targets stays queued
    /\ att[a].phase = "completing"
    /\ seen \subseteq {e \in Entries : Queued(e) /\ row[e].targets \intersect att[a].ok # {}}
    /\ row' = [e \in Entries |-> IF e \in seen THEN [row[e] EXCEPT !.targets = @ \ att[a].ok]
                                 ELSE row[e]]
    /\ Phase(a, "done")
    /\ UNCHANGED <<book, route, slot, tracker, scan, clear>>

\* onInvocationComplete, up to the next dispatch: the queued entries whose body
\* the answering cats have seen lose these targets, and bookkeeping nobody
\* refers to any more is pruned.
Complete(a, seen) ==
    LET left(e) == row[e].targets \ att[a].ok
        after == [e \in Entries |->
                    IF e \in seen
                    THEN [status |-> IF left(e) = {} THEN "gone" ELSE "queued",
                          targets |-> left(e), res |-> row[e].res]
                    ELSE row[e]]
        s == att[a].res
    IN  /\ att[a].phase = "completing"
        /\ seen \subseteq {e \in Entries : Queued(e) /\ row[e].targets \intersect att[a].ok # {}}
        /\ row' = after
        /\ book' = IF \E e \in Entries : after[e].res = s /\ after[e].status \in {"queued", "processing"}
                   THEN book ELSE Drop({s} \ {None})
        /\ Phase(a, "done")
        /\ UNCHANGED <<route, slot, tracker, scan, clear>>

ReapKeepsSlot(a) ==                    \* the execution is not fenced off
    /\ att[a].phase \in {"creating", "parked", "failing"}
    /\ Owns(a) /\ tracker[att[a].lead] = None
    /\ row' = IF Processing(att[a].entry) THEN WithStatus({att[a].entry}, "queued") ELSE row
    /\ UNCHANGED <<book, route, slot, tracker, att, scan, clear>>

\* reapStalePrestartReservations: an execution that never started its turn
\* outlives its TTL.
Reap(a) ==
    /\ \/ att[a].phase \in {"creating", "parked", "failing"}
       \/ SlowWrites /\ att[a].phase = "persisting"
    /\ Owns(a) /\ tracker[att[a].lead] = None
    /\ slot' = [slot EXCEPT ![att[a].lead] = NoSlot]
    /\ row' = IF Processing(att[a].entry) THEN WithStatus({att[a].entry}, "queued") ELSE row
    /\ UNCHANGED <<book, route, tracker, att, scan, clear>>

-----------------------------------------------------------------------------
\* A scan is one turn of the event loop: nothing else runs until it ends.
ScanStep ==
    \/ \E a \in Attempts : \/ \E s \in Steers : ScanReservation(s, a)
                           \/ \E e \in Entries : ScanEntry(e, a)
    \/ ScanFindsNothing

UserStep ==
    \/ \E e \in Entries : Enqueue(e) \/ Withdraw(e) \/ ClearOne(e)
    \/ ClearQueue
    \/ \E c \in Cats : ExternalStart(c) \/ ExternalEnd(c)
    \/ \E c \in Stops : Stop(c) \/ ReleaseSlot(c)

SteerStep(s) ==
    \/ \E E \in SUBSET Entries, p \in Entries : Reserve(s, E, p)
    \/ ReservationNotWritten(s) \/ Preempt(s)
    \/ CommitRetirement(s) \/ RetirementNotWritten(s)
    \/ \E a \in Attempts : StartSteered(s, a)
    \/ SteerNotStarted(s)

DispatchStep(a) ==
    \/ \E s \in Steers : StartReservation(s, a)
    \/ \E e \in Entries : StartEntry(e, a)
    \/ StartWritten(a) \/ StartNotWritten(a) \/ StartRejected(a)
    \/ \E extra \in SUBSET Entries : Launch(a, extra)
    \/ Unpark(a) \/ Fail(a)
    \/ \E ok \in SUBSET Cats, stopped \in BOOLEAN : Finish(a, ok, stopped)
    \/ \E e \in Entries, end \in {"queued", "gone"} : Settle(a, e, end)
    \/ Release(a)
    \/ \E seen \in SUBSET Entries : Complete(a, seen)
    \/ Reap(a)

Next ==
    \/ scan.on /\ ScanStep
    \/ /\ ~scan.on
       /\ \/ UserStep
          \/ BeginScan
          \/ \E s \in Steers : SteerStep(s)
          \/ \E a \in Attempts : DispatchStep(a)

Spec == Init /\ [][Next]_vars

-----------------------------------------------------------------------------
\* An attempt that may execute its rows, now or once its start goes through.
Live(a) ==
    \/ att[a].phase = "running"
    \/ att[a].phase \in {"persisting", "creating", "parked"} /\ Owns(a)

\* An attempt failed before its start without owning its slot any more, and
\* settles the entry, or has done so, as if it were still its own.
LateFailure(e) ==
    \E a \in Attempts :
        /\ e \in Carried(a)
        /\ \/ att[a].phase = "failing" /\ ~Owns(a)
           \/ att[a].phase = "dropped"

\* A queued message is executed by one attempt at a time: whatever steers,
\* stops, reapers, clears, failed starts and scans do, what a live attempt
\* carries is processing (or gone), and no second live attempt carries it.  The
\* code does not guarantee it for the entries of a late failure, which are
\* excepted: SettledByOwner below is what they violate.
EntryRunByOne ==
    \A a \in Attempts : Live(a) =>
        \A e \in Carried(a) :
            \/ LateFailure(e)
            \/ /\ row[e].status \in {"processing", "gone"}
               /\ \A b \in Attempts : Live(b) /\ b # a => e \notin Carried(b)

\* The turn of a cat is backed by the cat's processing slot until the tracker
\* forgets it: neither a stale completion, nor the reaper, a retirement or an
\* undone claim ever takes the slot of a turn.  Only releaseSlot can, which does
\* not ask whose slot it is.
TurnStep ==
    \A a \in Attempts :
        LET c == att'[a].lead
        IN  att'[a].phase = "running" /\ tracker'[c] = a =>
                Owns(a)' \/ (att[a].phase = "running" /\ ~Owns(a)) \/ ReleaseSlot(c)
TurnKeepsSlot == [][TurnStep]_vars

\* No cat is kept busy by an execution that is over: whichever way an attempt
\* goes (not written, replaced, failed, settled), its slot goes with it or is
\* behind a barrier.
SlotIsLive ==
    \A c \in Cats : slot[c].by # None /\ ~slot[c].barrier =>
        /\ att[slot[c].by].phase \in {"persisting", "creating", "parked", "running",
                                      "ending", "stopped", "failing"}
        /\ att[slot[c].by].lead = c

\* A reservation is claimed as a whole, by nobody before its steer activated it,
\* and an ordinary claim never takes a member out of it.
ReservedStep ==
    \A e \in Entries : Queued(e) /\ row'[e].status = "processing" /\ row[e].res # None =>
        LET s == row[e].res
        IN  /\ book'[s].phase = "activated"
            /\ \A m \in book[s].members : Queued(m) /\ row'[m].status = "processing"
ReservedFence == [][ReservedStep]_vars

-----------------------------------------------------------------------------
\* What the code says of itself.

\* QueueProcessor: the settlement is skipped "after durable retirement barrier
\* replaced the attempt": whatever is processing is carried by an attempt that
\* has still to settle it.
ProcessingIsCarried ==
    \A e \in Entries : Processing(e) =>
        \E a \in Attempts : att[a].phase \notin {"unused", "done", "dropped"} /\ e \in Carried(a)

\* QueueProcessor: an attempt that was replaced "skip[s] stale Queue settlement":
\* a row is settled by the attempt whose claim it is under.
SettledByOwner ==
    [][\A a, b \in Attempts, e \in Entries :
          /\ e \in att[a].todo \ att'[a].todo /\ row'[e] # row[e]
          /\ b # a /\ Live(b)
          => e \notin Carried(b)]_vars

\* routes/queue.ts: a group behind a barrier "remains visible and recoverable":
\* a barrier nobody retires at the moment has rows the next steer can retire.
BarrierIsRecoverable ==
    \A c \in Cats : slot[c].barrier =>
        \/ \E s \in Steers : route[s] = [pc |-> "retiring", retires |-> slot[c].by]
        \/ Group(att[slot[c].by].entry) # {}

\* QueueProcessor: exact evidence consumes answered targets "immediately after
\* executeEntry returns"; nobody starts them again while it does.
AnsweredNotRestarted ==
    \A a, b \in Attempts :
        Live(a) /\ att[b].phase \in {"ending", "completing"} /\ Carried(a) \intersect Carried(b) # {}
            => att[a].cats \intersect att[b].ok = {}

\* QueueProcessor: the scan "skip[s] entries whose target slot is busy".
ScanSkipsBusy ==
    scan.on => \A s \in Steers : Offered(s) => First(book[s].primary) \notin scan.busy

\* InvocationQueue: restoring a snapshot never rolls back "a later concurrent
\* Queue update": a target once answered does not come back.
AnsweredStaysAnswered ==
    [][\A e \in Entries : row'[e].targets \subseteq row[e].targets]_vars

\* InvocationQueue: bookkeeping is dropped "once no live Queue entry references
\* the reservation".
BookedWhileReferenced ==
    \A e \in Entries : Queued(e) /\ row[e].res # None => book[row[e].res].phase # "none"
=============================================================================
