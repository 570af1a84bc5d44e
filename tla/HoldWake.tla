------------------------------ MODULE HoldWake ------------------------------
(***************************************************************************)
(* The wake of a cat that holds the ball: one one-shot task of             *)
(* TaskRunnerV2, from its creation to its run, against everybody who may   *)
(* end it first: a user's durable cancellation (WaitTerminationService), a *)
(* withdrawal, an event that satisfies the wait, pause and resume of the   *)
(* schedule panel, the manual trigger, and a restart of the server.        *)
(*                                                                         *)
(* Durable are the definition of the task (SQLite) and the record of its   *)
(* termination (Redis); timers, runs and reservations are in memory.  The  *)
(* wake of a managed command, whose carrier survives the run, is left out. *)
(***************************************************************************)
EXTENDS Naturals, FiniteSets

CONSTANTS
  Requests,     \* HTTP requests to cancel the wake
  NoRequest,
  MaxDefers,    \* deferrals while the thread is busy (10 in the code)
  MaxPatches,   \* pauses and resumes considered
  MaxCrashes    \* crashes considered

ASSUME RequestsAssumption == NoRequest \notin Requests
ASSUME BoundsAssumption == {MaxDefers, MaxPatches, MaxCrashes} \subseteq Nat

VARIABLES
  row,          \* the stored definition
  past,         \* its fireAt is over
  record,       \* the termination by the user is stored
  boot,         \* how far the server has come up
  registered,   \* the runner knows the task
  armed,        \* a timer will look at it
  running,      \* the runner's flag: a pipeline of it is running
  runs,         \* the pipelines that really run, by what started them
  reservation,  \* the request that holds the cancellation reservation
  deferred,     \* the timer went off behind the reservation
  defers,       \* deferrals so far
  paused,       \* the scheduler is paused globally
  request,      \* where a cancellation stands
  fired,        \* history: runs started by the timer
  meddled,      \* history: a pause or resume, or the start, met a cancellation or a run
  patches, crashes

stored == <<row, past, record>>
runner == <<registered, armed, running, runs, reservation, deferred, defers>>
ghosts == <<fired, meddled, patches, crashes>>
vars == <<stored, boot, runner, paused, request, ghosts>>

Init ==
  /\ row = "unborn" /\ past = FALSE /\ record = FALSE
  /\ boot = "up"
  /\ registered = FALSE /\ armed = FALSE /\ running = FALSE
  /\ runs = [k \in {"timer", "manual"} |-> 0]
  /\ reservation = NoRequest /\ deferred = FALSE /\ defers = 0
  /\ paused = FALSE
  /\ request = [r \in Requests |-> "idle"]
  /\ fired = 0 /\ meddled = FALSE /\ patches = 0 /\ crashes = 0

Pending == row = "enabled"
Reserved == reservation # NoRequest
InFlight == runs["timer"] + runs["manual"]

-----------------------------------------------------------------------------
\* The runner's books.
Register ==
  /\ registered' = TRUE
  /\ IF boot = "up" /\ ~registered
     THEN armed' = TRUE /\ running' = FALSE
     ELSE UNCHANGED <<armed, running>>
  /\ UNCHANGED <<runs, reservation, deferred, defers>>

\* unregister forgets the timer, the flag and the reservation; a pipeline at work goes on.
Unregister ==
  IF registered
  THEN /\ registered' = FALSE /\ armed' = FALSE /\ running' = FALSE
       /\ reservation' = NoRequest /\ deferred' = FALSE
       /\ UNCHANGED <<runs, defers>>
  ELSE UNCHANGED runner

\* The hold is stored and registered in one turn, under an id of its own.
Hold ==
  /\ boot = "up" /\ row = "unborn"
  /\ row' = "enabled"
  /\ Register
  /\ UNCHANGED <<past, record, boot, paused, request, ghosts>>

Pass ==
  /\ Pending /\ ~past
  /\ past' = TRUE
  /\ UNCHANGED <<row, record, boot, runner, paused, request, ghosts>>

SwitchGlobally ==
  /\ boot # "down"
  /\ paused' = ~paused
  /\ UNCHANGED <<stored, boot, runner, request, ghosts>>

-----------------------------------------------------------------------------
\* The pipeline of the task.  It is admitted if no cancellation holds the wake, and runs if no other does.
Begin(kind) ==
  /\ running' = TRUE
  /\ runs' = [runs EXCEPT ![kind] = @ + 1]
  /\ fired' = IF kind = "timer" THEN fired + 1 ELSE fired

\* A one-shot task retires when its pipeline is through: definition and registration go.
Retire ==
  /\ row' = "none"
  /\ registered' = FALSE /\ armed' = FALSE /\ reservation' = NoRequest /\ deferred' = FALSE

\* The timer's callback: behind a reservation it leaves a mark; a busy thread defers it, a limited
\* number of times; a scheduler switched off is asked again later; a wake that meets a manual run is
\* spent.  (The callback would also drop a wake whose definition is switched off: TimersAreLive.)
TickBehindReservation ==
  /\ Reserved
  /\ armed' = FALSE /\ deferred' = TRUE
  /\ UNCHANGED <<stored, registered, running, runs, reservation, defers, ghosts>>

TickDeferred ==
  /\ ~Reserved /\ defers < MaxDefers
  /\ defers' = defers + 1
  /\ past' = FALSE
  /\ UNCHANGED <<row, record, registered, armed, running, runs, reservation, deferred, ghosts>>

TickPaused ==
  /\ ~Reserved /\ paused
  /\ defers' = 0
  /\ UNCHANGED <<stored, registered, armed, running, runs, reservation, deferred, ghosts>>

TickOverlapping ==
  /\ ~Reserved /\ ~paused /\ running
  /\ Retire
  /\ running' = FALSE /\ defers' = 0
  /\ UNCHANGED <<past, record, runs, ghosts>>

TickRuns ==
  /\ ~Reserved /\ ~paused /\ ~running
  /\ Begin("timer")
  /\ armed' = FALSE /\ defers' = 0
  /\ UNCHANGED <<stored, registered, reservation, deferred, meddled, patches, crashes>>

Tick ==
  /\ armed /\ past
  /\ \/ TickBehindReservation \/ TickDeferred \/ TickPaused \/ TickOverlapping \/ TickRuns
  /\ UNCHANGED <<boot, paused, request>>

\* POST /api/schedule/tasks/:id/trigger.
Trigger ==
  /\ boot # "down" /\ registered /\ ~Reserved /\ ~running
  /\ Begin("manual")
  /\ UNCHANGED <<stored, boot, registered, armed, reservation, deferred, defers, paused, request,
                 meddled, patches, crashes>>

\* Faulty: the end of a pipeline is counted whether one is running or not.
EndManualUncounted ==
  /\ registered
  /\ runs' = [runs EXCEPT !["manual"] = @ - 1]
  /\ running' = FALSE
  /\ UNCHANGED <<stored, boot, registered, armed, reservation, deferred, defers, paused, request, ghosts>>

EndManual ==
  /\ runs["manual"] > 0
  /\ runs' = [runs EXCEPT !["manual"] = @ - 1]
  /\ running' = FALSE
  /\ UNCHANGED <<stored, boot, registered, armed, reservation, deferred, defers, paused, request, ghosts>>

EndTimer ==
  /\ runs["timer"] > 0
  /\ runs' = [runs EXCEPT !["timer"] = @ - 1]
  /\ running' = FALSE
  /\ Retire
  /\ UNCHANGED <<past, record, boot, defers, paused, request, ghosts>>

-----------------------------------------------------------------------------
\* The ends of a hold that need no reservation: a user message, the holder's next hold or a deletion
\* removes it, an event it waits for leaves a tombstone.
Withdraw ==
  /\ boot # "down" /\ row \in {"enabled", "disabled"}
  /\ row' = "none"
  /\ Unregister
  /\ UNCHANGED <<past, record, boot, paused, request, ghosts>>

RetireByEvent ==
  /\ boot # "down" /\ Pending
  /\ row' = "retired"
  /\ Unregister
  /\ UNCHANGED <<past, record, boot, paused, request, ghosts>>

\* PATCH /api/schedule/tasks/:id.  It unregisters and registers whatever is going on: a cancellation, a
\* run, or the recovery of a server that just came up.
Delicate == record \/ Reserved \/ InFlight > 0 \/ boot \in {"listening", "recovered"}

Pause ==
  /\ boot # "down" /\ row \in {"enabled", "disabled"} /\ patches < MaxPatches
  /\ row' = "disabled"
  /\ Unregister
  /\ meddled' = (meddled \/ Delicate)
  /\ patches' = patches + 1
  /\ UNCHANGED <<past, record, boot, paused, request, fired, crashes>>

Resume ==
  /\ boot # "down" /\ row \in {"enabled", "disabled"} /\ patches < MaxPatches
  /\ row' = "enabled"
  /\ Register
  /\ meddled' = (meddled \/ Delicate)
  /\ patches' = patches + 1
  /\ UNCHANGED <<past, record, boot, paused, request, fired, crashes>>

-----------------------------------------------------------------------------
\* cancelByUser.  It looks for a record and for a pending hold, and awaits the thread's owner.
Ask(r) ==
  /\ boot # "down" /\ request[r] = "idle" /\ row # "unborn"
  /\ request' = [request EXCEPT ![r] =
       CASE record -> "repeating"
         [] ~record /\ Pending -> "asking"
         [] OTHER -> "refused"]
  /\ UNCHANGED <<stored, boot, runner, paused, ghosts>>

\* The reservation: the task must be known, not running and nobody else's.
Reserve(r) ==
  /\ request[r] = "asking"
  /\ IF registered /\ ~running /\ ~Reserved
     THEN reservation' = r /\ request' = [request EXCEPT ![r] = "committing"]
     ELSE request' = [request EXCEPT ![r] = "refused"] /\ UNCHANGED reservation
  /\ UNCHANGED <<stored, boot, registered, armed, running, runs, deferred, defers, paused, ghosts>>

\* The record is stored; whether the server hears of it is another matter.
Commit(r) ==
  /\ request[r] = "committing"
  /\ record' = TRUE
  /\ request' = [request EXCEPT ![r] = "committed"]
  /\ UNCHANGED <<row, past, boot, runner, paused, ghosts>>

CommitFails(r) ==
  /\ request[r] \in {"committing", "committed", "repeating"}
  /\ request' = [request EXCEPT ![r] = IF @ = "repeating" THEN "refused" ELSE "failed"]
  /\ UNCHANGED <<stored, boot, runner, paused, ghosts>>

\* cleanupProjection: a pending hold is unregistered and removed.
CleanUp ==
  IF Pending THEN row' = "none" /\ Unregister ELSE UNCHANGED <<row, runner>>

CommitHeard(r) ==
  /\ request[r] \in {"committed", "repeating"}
  /\ CleanUp
  /\ request' = [request EXCEPT ![r] = "applied"]
  /\ UNCHANGED <<past, record, boot, paused, ghosts>>

\* Faulty: the timer that went off meanwhile is not set again.
ReleaseWithoutTimer(r) ==
  IF reservation = r
  THEN /\ reservation' = NoRequest /\ deferred' = FALSE
       /\ UNCHANGED <<registered, armed, running, runs, defers>>
  ELSE UNCHANGED runner

\* releaseOnceCancellation: by its token only, and a timer that went off meanwhile is set again.
Release(r) ==
  IF reservation = r
  THEN /\ reservation' = NoRequest /\ deferred' = FALSE
       /\ armed' = (armed \/ (deferred /\ boot = "up"))
       /\ UNCHANGED <<registered, running, runs, defers>>
  ELSE UNCHANGED runner

\* Faulty: a failed commit is taken for one that did not happen.
ReconcileBlindly(r) ==
  /\ request[r] = "failed"
  /\ Release(r) /\ request' = [request EXCEPT ![r] = "refused"] /\ UNCHANGED row
  /\ UNCHANGED <<past, record, boot, paused, ghosts>>

\* After a failed commit the store is asked.  If it cannot tell, the reservation stays until a restart.
Reconcile(r) ==
  /\ request[r] = "failed"
  /\ \/ request' = [request EXCEPT ![r] = "unknown"] /\ UNCHANGED <<row, runner>>
     \/ /\ request' = [request EXCEPT ![r] = "refused"]
        /\ IF record THEN CleanUp ELSE Release(r) /\ UNCHANGED row
  /\ UNCHANGED <<past, record, boot, paused, ghosts>>

-----------------------------------------------------------------------------
\* The server dies and comes up again.  It serves requests before it is through with its recovery.
Crash ==
  /\ boot # "down" /\ crashes < MaxCrashes
  /\ boot' = "down"
  /\ registered' = FALSE /\ armed' = FALSE /\ running' = FALSE
  /\ runs' = [k \in {"timer", "manual"} |-> 0]
  /\ reservation' = NoRequest /\ deferred' = FALSE /\ defers' = 0
  /\ request' = [r \in Requests |-> IF request[r] \in {"idle", "applied"} THEN request[r] ELSE "refused"]
  /\ crashes' = crashes + 1
  /\ UNCHANGED <<stored, paused, fired, meddled, patches>>

Listen ==
  /\ boot = "down"
  /\ boot' = "listening"
  /\ UNCHANGED <<stored, runner, paused, request, ghosts>>

\* recoverExecutionProjections: what was terminated is cleaned up before it can be hydrated.
Recover ==
  /\ boot = "listening"
  /\ boot' = "recovered"
  /\ IF record THEN CleanUp ELSE UNCHANGED <<row, runner>>
  /\ UNCHANGED <<past, record, paused, request, ghosts>>

\* Faulty: a wake whose time is over is hydrated and will run.
HydrateMissed ==
  /\ boot = "recovered"
  /\ boot' = "hydrated"
  /\ IF Pending THEN Register ELSE UNCHANGED runner
  /\ UNCHANGED <<stored, paused, request, ghosts>>

\* hydrateDynamic: a wake whose time is over has been missed, and is removed.
Hydrate ==
  /\ boot = "recovered"
  /\ boot' = "hydrated"
  /\ CASE Pending /\ past -> row' = "none" /\ UNCHANGED runner
       [] Pending /\ ~past -> Register /\ UNCHANGED row
       [] OTHER -> UNCHANGED <<row, runner>>
  /\ UNCHANGED <<past, record, paused, request, ghosts>>

\* start: every known task gets its timer, and its flag is reset.
Start ==
  /\ boot = "hydrated"
  /\ boot' = "up"
  /\ armed' = registered
  /\ running' = (running /\ ~registered)
  /\ meddled' = (meddled \/ InFlight > 0)
  /\ UNCHANGED <<stored, registered, runs, reservation, deferred, defers, paused, request,
                 fired, patches, crashes>>

Next ==
  \/ Hold \/ Pass \/ SwitchGlobally \/ Tick \/ Trigger \/ EndManual \/ EndTimer
  \/ Withdraw \/ RetireByEvent \/ Pause \/ Resume
  \/ \E r \in Requests : Ask(r) \/ Reserve(r) \/ Commit(r) \/ CommitFails(r) \/ CommitHeard(r) \/ Reconcile(r)
  \/ Crash \/ Listen \/ Recover \/ Hydrate \/ Start

Spec == Init /\ [][Next]_vars

\* Time passes, timers go off, Redis answers, and a server that died is started again.  Nothing says
\* that a run ends: the pipeline's timeout bounds its reported outcome, not the execution it waits for.
FairSpec ==
  /\ Spec
  /\ WF_vars(Pass) /\ WF_vars(Tick)
  /\ \A r \in Requests :
       WF_vars(Reserve(r) \/ Commit(r) \/ CommitFails(r) \/ CommitHeard(r) \/ Reconcile(r))
  /\ WF_vars(Listen \/ Recover \/ Hydrate \/ Start)

-----------------------------------------------------------------------------
TypeOK ==
  /\ row \in {"unborn", "none", "enabled", "disabled", "retired"}
  /\ past \in BOOLEAN /\ record \in BOOLEAN /\ paused \in BOOLEAN /\ meddled \in BOOLEAN
  /\ registered \in BOOLEAN /\ armed \in BOOLEAN /\ running \in BOOLEAN /\ deferred \in BOOLEAN
  /\ boot \in {"down", "listening", "recovered", "hydrated", "up"}
  /\ runs \in [{"timer", "manual"} -> Nat]
  /\ reservation \in Requests \cup {NoRequest}
  /\ request \in [Requests -> {"idle", "asking", "committing", "committed", "repeating", "failed",
                               "applied", "refused", "unknown"}]
  /\ defers \in Nat /\ fired \in Nat /\ patches \in Nat /\ crashes \in Nat

\* No timer is left for a wake that was paused or that an event satisfied: definition and registration
\* change in one turn everywhere, and the callback's own look at the definition is never needed.
TimersAreLive == armed => row \notin {"unborn", "disabled", "retired"}

Begins == runs'["timer"] > runs["timer"] \/ runs'["manual"] > runs["manual"]

\* A cancellation that is stored holds, against the timer, the manual trigger, a lost answer of the
\* store and a restart at any point: no run starts after it, as long as the schedule panel leaves
\* the wake alone while it is being cancelled.
CancelHolds == [][Begins => ~record \/ meddled]_vars

\* What the comment at the reservation promises without that proviso.
CancelAlwaysHolds == [][Begins => ~record]_vars

\* The reservation and the run exclude each other: a user who is told that the wake is cancelled
\* has not been woken, nor is a run under way.
OneWinner == record /\ ~meddled => fired = 0 /\ runs["timer"] = 0 /\ runs["manual"] = 0

\* The timer wakes the cat at most once, also if the server dies during the run.
WokenOnce == ~meddled => fired <= 1

\* Cancelled or woken, and woken once.
CancelledOrWokenOnce == OneWinner /\ WokenOnce

\* What has become of the wake.  A run counts when the timer starts it, so that a cat whose server
\* died in the middle was woken.
Fate(times, definition) ==
  CASE times > 0 -> "woken"
    [] times = 0 /\ definition = "unborn" -> "unborn"
    [] times = 0 /\ definition \in {"enabled", "disabled"} -> "set"
    [] OTHER -> "ended"

Wake == INSTANCE OneShotWake
          WITH wake <- Fate(fired, row), cancelled <- record, busy <- InFlight > 0, disturbed <- meddled

\* The task, its runner, the termination store and the boot sequence together are a one-shot wake: it
\* is spent once, no run meets another one or a cancellation, and none starts for a wake that was
\* withdrawn, retired or missed, through lost answers of the store and restarts at any point.
IsOneShotWake == Wake!Spec

\* A stored hold does not wait for ever: the timer starts its run, or it is cancelled, missed, spent
\* beside a manual run or switched off, also if that manual run hangs; unless the store left the server
\* in doubt about its cancellation or the scheduler is switched off again and again.
HoldEnds ==
  <>[]~paused => (Pending ~> \/ ~Pending \/ runs["timer"] > 0
                             \/ \E r \in Requests : request[r] = "unknown")
=============================================================================
