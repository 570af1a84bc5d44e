# Cat Café: TLA+ models of the invocation core

Cat Café (Clowder AI) is a platform in which a user and several AI agents ("cats", each backed by
a CLI provider) work in threads. A message becomes an *invocation*: it is queued, claimed, given
the slots of its target cats, routed serially or in parallel, executed by provider processes that
resume CLI sessions, and retired. This directory models the part of the server that decides **who
executes, who waits, who is stopped and who is told what**; it is a single Node.js process, so the
concurrency is that of callbacks and `await`s between handlers, not of threads.

Source paths below are relative to `src/packages/api/src/`; `agents/` stands for
`domains/cats/services/agents/`.

## 1. Inventory

| component | source | state it keeps | operations | what is hard |
|---|---|---|---|---|
| Session lock | `agents/invocation/SessionMutex.ts` | holder and waiters per CLI session | acquire (with AbortSignal), release closure, forceReleaseByScope | stale release after a force release, abort of a queued waiter, lost wakeup |
| Invocation tracker | `agents/invocation/InvocationTracker.ts` | one slot per (thread, cat), delete and seal guards, admissions, seal waiters | start family, cancel family, complete family, guards, bind | replacement of a slot under a running route, tombstones, seal against admission |
| Cancel custody | `infrastructure/websocket/SocketManager.ts`, `routes/queue.ts`, `agents/invocation/invoke-single-cat.ts` | none of its own: the order in which the Stop handlers use tracker and lock | Stop one cat, Stop all | a stopped runner still holds its session |
| Invocation queue | `agents/invocation/InvocationQueue.ts` | the queued entries of a thread, exact-steer reservations, tombstones | enqueue, claim, steer reserve/commit/activate/claim/release, settle | order, multi-step reservations over entries that change meanwhile |
| Queue processor | `agents/invocation/QueueProcessor.ts` | processing and paused slots, pre-start reservations, chain state | drain, start, pause, resume, execute, retire | reserve against `await`, drain signal lost |
| Multi-mention | `agents/routing/MultiMentionOrchestrator.ts`, `routes/callback-multi-mention-routes.ts` | requests, responses, timers, completion hooks | create, answer, time out, post the result | timer racing the last answer, a retried call, entries that never answer |
| Worklist | `agents/routing/WorklistRegistry.ts` | the chain of cats a route still runs | push, unregister | late callback of a replaced route |
| Message custody | `agents/invocation/QueuedMessageCustodyCoordinator.ts`, `QueuedMessageCustodyStartupReconciler.ts`, `domains/cats/services/stores/ports/queued-message-custody.ts` | the durable record of a queued message: who it is pending for, who read it, who answered | expose, commit, withdraw, project the row, reconcile after a restart | row and record change at different times, over failures and crashes |
| Session chain and hand-over | `domains/cats/services/session/*`, `stores/redis/RedisSessionChainStore.ts` | session records, active index, proposals | request and finalise a seal, restore, propose, approve, recover | late terminal write, crash between two durable steps |
| Session continuation | `agents/invocation/SessionContinuationCoordinator.ts` | one pending capsule per cat of a thread | consume, restore, replace | a capsule consumed by a run that dies |
| Message delivery | `agents/invocation/MessageDeliveryService.ts` | none | broadcast or queue | enqueue fails after the decision |
| Recovery | `agents/invocation/StartupReconciler.ts`, `InvocationOwnerReaper.ts`, `ZombieTerminalRecovery.ts` | invocation records | sweep at start, reap stale owners | restart between record and slot, late terminal event |
| Hold wakes | `domains/ball-custody/WaitTerminationService.ts`, `infrastructure/scheduler/TaskRunnerV2.ts` (one-shot tasks) | definition, termination record, timer, reservation | hold, wake, cancel, pause, resume, recover | the timer against a cancellation being stored, restart |
| Cron tasks | `infrastructure/scheduler/TaskRunnerV2.ts` (cron) | timer, next slot, slot fired last, running flag | register, tick, look (watchdog), stop | host sleep, early timers, runs longer than a slot |
| Ball custody | `domains/ball-custody/` | who holds the ball of a work item, leases of action successors | hand over, wait, complete | out-of-order events, replacement |
| Scheduler stores | `infrastructure/scheduler/RunLedger.ts` and others | run ledger, emissions, global control | one statement each | - |
| Messaging ledger | `domains/messaging/` | idempotency claims, event stream | append, send | retries, duplicates |
| Freshness, approvals, memory, connectors, plugins, limb, the other domains | `domains/*`, `infrastructure/*` | Redis, SQLite | mostly storage and policy | persistence, external services |
| Web, shared types, MCP server, finance | `packages/*` | UI state | rendering, tool wrappers | outside the server |


How they interact. A message reaches `routes/messages.ts` (an immediate execution on an idle
thread) or the queue. The **queue processor** claims entries of the **queue**, reserves the
processing slot of the lead cat, and starts the turn on the **tracker**, which owns the abort
controllers and answers "is this cat busy". `routeSerial`/`routeParallel` run the cats of the turn
and grow the **worklist** while they run; `invokeSingleCat` takes the **session lock** for each CLI
session it resumes, and reports back to the tracker by completion calls. The Stop, Seal, Steer and
Clear handlers act on all of these at once, from the outside. Everything is in-memory state of one
process plus durable rows in Redis; an `await` between two reads of the shared state is where two
handlers can interleave, and that is what the models are about. PROJECT.json lists under "hazards"
each place where this bites, with the properties that would notice.

What makes each part correct:

- *Session lock*: one holder, who is alive; nobody is skipped or forgotten; a stale token frees
  nothing; who came first goes first.
- *Tracker*: a guard (delete, seal) and an execution exclude each other, also across the gap between
  admission and publication; late cleanup of an old run leaves its successor alone; the final status
  of a run is about that run.
- *Stop*: it frees the sessions of the dead and never hands a live session to a second runner.
- *Queue*: a message is executed by one attempt at a time, each claim is settled, a reservation is
  claimed whole and by its steer only, a turn keeps its cat and an execution that is over gives it up,
  an answered target is not asked again.
- *Multi-mention*: one request per idempotency key; a posted result is the last word; a request ends.
- *Message custody*: no target of an accepted message is lost between row, record and turn; what is
  answered is not started again, also after a crash; the row stays one the store accepts.
- *Session chain*: the index names the active session; a seal that was begun is completed; a
  hand-over goes on only if its own request sealed the old session.
- *Hold wakes*: cancelled or run, once, and ended at last. *Cron*: a slot fires at most once, a task
  never falls off its schedule.

## 2. Plan

The modules, in the order in which they were written; all of them are in place.

| # | module | models | composes | proofs |
|---|---|---|---|---|
| 1 | `SessionMutex`, `WaitingLine` | session lock, and what it promises | - | `SessionMutexProofs` |
| 2 | `InvocationTracker` | tracker | - | `InvocationTrackerProofs` |
| 3 | `CancelCustody` | Stop handlers | 1 and 2, by INSTANCE | `SessionMutexProofs` |
| 4 | `QueueDispatch` | queue, dispatch, steer | tracker as its slot map | `QueueDispatchProofs` |
| 5 | `MultiMention` | questions to several cats | queue entries as carriers | `MultiMentionProofs` |
| 6 | `HoldWake`, `OneShotWake` | one-shot wakes and their cancellation, and what a hold promises | scheduler, termination store, boot order | `HoldWakeProofs` |
| 7 | `CronTask` | cron chain and watchdog | - | `CronTaskProofs` |
| 8 | `SessionChain` | seal, restore, hand-over | chain store, sealer, reapers, approval | `SessionChainProofs` |
| 9 | `QueueCustody` | durable custody of a queued message | queue row, record, turns, startup | `QueueCustodyProofs` |

A model of the context epochs was planned and dropped: nothing in the repository constructs
`ContextEpochOwner` outside its tests. What is worth stating next: an order of settlements under
which a message for several cats survives two failures, which the code does not have (section 4).

## 3. The models

In every module an action is one synchronous turn of the event loop: the code from one `await` (or
from the entry of a handler) to the next. Durable writes are not modelled as data; a write is the
choice between its success and its failure at the `await` it happens in. Definitions whose names say
what they get wrong (`ReleaseWithoutDrain`, `SealPastAdmission`, ...) are faulty variants that are not
part of the specification; each property is known to reject at least one of them.

### 3.1 SessionMutex

`held[s]` is the holder of session `s` and `waiters[s]` its queue, ordered by `arrival`; `status` is
what the caller's promise did; `aborted` are the fired signals. `Acquire` has the three paths of the
method (already aborted, free, contended); `Abort` is the listener `onAbort`; `Release` is the
closure, which frees the lock only if its token (here: the request itself) is the holder;
`ForceRelease` is `forceReleaseByScope` with its survivors and the executions it must preserve. A
request is an acquisition, so a second acquisition by the same caller is another request.

`HandOver` says who may take a lock: a release closure frees that of its own acquisition and nothing
else, so the closure of a caller that was force-released leaves its successor alone; a step that runs no
closure and takes a lock is a force release, which takes locks of its scope only and answers every waiter
of that scope.

`WaitingLine` is the abstract specification: callers join the end of their session's line once, leave it
for good, and only the revocable (agent-owned) ones are taken out by others. Its state is computed from
that of the lock: in the line are the holder and the waiters, the holder ahead of all and the others by
arrival; gone are those that were answered and those whose lock was taken, although their closure has
yet to run. `IsWaitingLine` says that the lock implements it and that the holder is the head of the
line in every state, which makes a stale closure a stutter and a hand-over the departure of the head.

### 3.2 InvocationTracker

One thread. `slot[c]` is the `ActiveInvocation` of a cat: whose run, its kind (own controller,
batch controller, late-tracked a2a slot), whether its executionId is bound, active or canceled
tombstone, and whether the teardown has ended. `deleting`, `sealing`, `admitted` and `parked` are the
guards, the admissions and the waiters for a seal. `gate[r]` is the abort controller of the run,
`phase`, `final` the life of its route. `doneCats` and `stopped` are history used by properties
only. The start family (`Start`, `TryStartThread`, `StartAll`, `TrackExternalSlot`) overwrites slots and
aborts what it overwrites; the cancel family leaves tombstones; the complete family removes what
belongs to the caller. Slot age and the listing of stale slots change nothing and are left out.

### 3.3 CancelCustody

The tracker and the lock as instances over the same runs, with a runner between them: dispatched,
bound to an execution, acquiring, holding, releasing, ending, or lost without its finally block.
`StopCat` and `StopAll` are the two handlers: the tracker's cancellation, then, in the same turn,
`forceReleaseByScope` with the executions the tracker reported as preserved. A run is a single cat;
batches are the tracker's own subject. A run takes one lock here; `invokeSingleCat` (1775-1803) acquires
up to two in a fixed order, that of its policy key and that of its runtime key, and releases both in its
finally block. What Stop does to the dispatcher (`releaseSlot`) is in `QueueDispatch`; `clearPause` is not
modelled.

A runner that is lost runs neither finally block, and the Stop that follows does not free its session:
the tracker still lists the run as the execution it has just stopped, and the force release preserves it.
`DeadRunRecovered` says by whom it is freed: by a user who presses Stop all again, since `cancelAll` names
active slots only; and by one who presses Stop on the cat again after the reaper has proved the run
terminal, which empties the slot (`cancel` names the execution of a tombstone as often as it is asked).
Each half has the fairness it needs as its premise.

### 3.4 QueueDispatch

`row[e]` is a queue entry (status, remaining targets, exact-steer reservation); `book[s]` the
bookkeeping of a reservation with its phase, members and target snapshot; `route[s]` where the HTTP
handler of the steer stands; `slot[c]` `processingSlots` with the retirement barrier; `tracker[c]` whose turn
runs on the cat; `att[a]` one execution from its claim to its completion handler; `scan` the cross-user
loop in progress; `clear` the tail of a clear request.

An attempt goes `persisting` (claim taken, write awaited) - `creating` (fences inspected, record being
created) - `running`, perhaps by way of `parked` (behind a session seal) - `ending` or, if the user
stopped it, `stopped` (tracker left, rows being settled) - `completing` (slot freed) - `done`. `todo` are
the rows still to be settled: `executeEntry` awaits before the first (5544) and around each (5547,
5608-5617), so other actions run between the settlements of one attempt. Two more ways lead out:
`persisting` - `restoring` - `done` when the write of the claim fails, and `creating` or `parked` -
`failing` when it does not come to a turn (a retirement fence that cannot be read or says terminalized,
3811-3855; a record that cannot be created, 4042; a duplicate, 4053-4083). A scan is the one loop that
takes several steps within a turn; while `scan.on` holds nothing else moves.

**Late failures.** The exits of `Fail` lie before the first check of the slot, none of them sets
`processingReservationReplaced`, and the finally block settles the rows without asking whose they are. An
attempt that was reaped meanwhile and fails then puts the row of its successor back into the queue (or
removes it, after a fence that counts as success): `SettledByOwner` states the opposite and is violated
under `MCQueueLate.cfg`, by a claim, the reaper, a second claim of the row, and the failing first attempt.
`EntryRunByOne` therefore excepts the entries of a `LateFailure`, an attempt that failed without its slot
and has not left or has left so (`dropped`); for all other entries it says that one attempt at a time has
them, and that they are processing or gone.

**Stop and releaseSlot.** `Stop(c)` is the user's stop of a cat the tracker has at work: its slot in the
tracker is canceled and the processing slot deleted in one turn, whoever holds it (`SocketManager.ts` 333
and 368, `routes/queue.ts` 503 and 1304; for a whole batch, the canceled cats one by one). `ReleaseSlot(c)` is
the same deletion without a cancellation: of a leftover record (1267) or lock (1281), for which the route
looked at the tracker before an `await`, and of a force reset (1433) after its record writes;
`canReleaseSlotForUser` lets it pass when the cat is at work for the same user. `releaseSlot`
(`QueueProcessor.ts:3075`) does not ask whose slot it is. So a turn may lose its slot to it, and an attempt
before its start is then treated as replaced: its rows stay `processing`, one more way to what
`queue_orphan` shows. `TurnKeepsSlot` says that nothing else takes a turn's slot as long as the tracker
knows the turn, `SlotIsLive` that every way out of an attempt gives its slot up, so that no cat is blocked
by an execution that is over. `Stops` are the cats that are stopped; a stop is a step of `Preempt` as
well, for the steer.

Abstractions, and why they keep what the properties tell apart: the comparator's order is dropped
(any entry it may put first may be claimed; properties hold for every order); what an answer has seen
is any subset of the queued entries (`seen`), which stands for receipts of exposure; whether a row is
bound to durable custody decides in the code which way it is settled, and is a choice here (`end`); failed
durable writes of a user's withdrawal, pauses, agent and connector entries (with the `releaseSlot` of
`callback-a2a-trigger.ts:389`) and other users are left out. `SlowWrites` says whether the reaper's TTL may
pass while the write of a claim is pending. It is FALSE in all runs: with TRUE, the roll-back of
`StartNotWritten` requeues rows that a successor has claimed since (it checks the rows, not the ownership
of the slot), and `EntryRunByOne` fails. So that property rests on claim writes being faster than the slot
TTL (`processingSlotTtlMs`, 75 minutes by default, so a practical assumption, though nothing in the code
enforces it).

### 3.5 MultiMention

`call[c]` is the HTTP handler of a call, `status` and `response` the request it created, `carrier` the
queue entries that take the question to its targets, `hook` the completion hooks, `timer` the timeout,
`result` the post of the aggregate. `Arrive` is the handler up to its first `await` (freshness gate,
action admission), `Create` what follows it, with the enqueuing of the targets up to the depth limit.
An entry ends answered or not (skipped, withdrawn, canceled); only the hook of an answered one
reports. The hook is used up by the first turn that ends, but the entry need not be: after a failure or a
preemption it is rolled back to the queue (`Settled`, `queue-entry-settlement.ts` 46-50), and may run again
with nobody to report to. `ResultIsFinal` says that such turns, and the timer, change nothing of a result
once its post has begun, which then has an entry for every target; a request that times out posts
nothing at all (section 4). `Others` are the cats for which agent entries of other origin are considered. What follows from the code and is kept: a target that is named twice counts twice and
answers once, so its request ends by the timer only; a result whose append fails is lost; a restart
forgets requests and hooks while the entries survive (there is nothing to recover, so it is left out).
The legacy `dispatchToTarget` for a server without a queue is not modelled.

### 3.6 HoldWake

One wake: its stored definition `row`, the stored termination `record`, and the runner's `registered`,
`armed`, `running`, `reservation`, `deferred`. A cancellation goes `asking` - (reserve) `committing` -
`committed` or `failed` - `applied`, `refused` or `unknown`; its commit may fail before or after the
write. `Tick` is the timer's callback with its four exits in their order. `boot` follows `index.ts`: the
server listens (line 5329) before terminations are recovered (6185), definitions hydrated (6190) and
timers started (6604), so requests meet a runner that knows nothing yet. The history variable
`meddled` marks a pause or resume that met a cancellation, a run or that window: properties that
hold only without it say so. The callback's own look at the definition (`suppressRetiredHoldWake`) is
shown to be unreachable by `TimersAreLive`. Left out: wakes of managed commands, interval tasks,
the suppression of self echoes, and what the run ledger stores.

`OneShotWake` is the abstract specification: a wake that is set is spent once, by waking the cat or
otherwise; it may be run by hand before, never twice at a time; once it is spent or taken back nothing runs
it. `IsOneShotWake` says that task, runner, termination store and boot sequence together implement it. The
mapping reads the definition and the count of the timer's runs (`Fate`), not the definition alone: after a
crash in the middle of a run the definition is still there, though the cat was woken. Where
`meddled` becomes true the abstract wake is `disturbed`, and then nothing is promised any more.

### 3.7 CronTask

Time is a counter, a schedule a set of slots. `timer` is the pending `setTimeout` with the object it was
set for (a registration that replaces another makes a new object), its slot and whether it fires or is a
chunk of a delay beyond the 32-bit limit; `nextSlot` and `slotFired` are the watchdog's; `running` is the
overlap guard. Time may pass without timers going off (a host that sleeps), and a timer may go off
`Drift` early. There are two guards against the early timer, the slot that is marked as fired and the next
slot computed after it; the model has both. `overtaken` marks a registration under a run in flight.
The grids reach beyond `MaxTime + Drift`, so that there is always a next slot.

### 3.8 SessionChain

The records of one (user, thread, cat): `status`, `reason` and the owner's index `pointer`. A terminal write
is two steps after it has seen the session sealing (`Unlink`, `Write`), as in
`RedisSessionChainStore.update`; finalizers and reapers hold one each, and anybody may call `finalize`
at any time while a session seals. `RequestSeal`, `SealToReplace` and `Replace` are the invocation's,
`PrepareRestore` and `Restore` the user's. A proposal goes through `txn`: claimed, checked, noted,
accepted (its seal), recorded (the checkpoint), enqueued, approved; `Recover` and `Expire` are what is
made of one that was interrupted. Assumptions: proposing is atomic; a live approval is not taken for a
stale one (30 s); `getActive` (read, scan, SET) is one step; one index. Left out: capacity, expiry and
eviction of records, the indexes by CLI session, the hooks after a seal (which may run twice), the age of
five minutes a reaper waits (it may come at any time), and the runtime session reaper. A crash loses
the queue of continuations, which is in memory, also of an approval that is done.

### 3.9 QueueCustody

`row` is the queue's entry of one message, `custody` its record, `jobs` the operations that wait for the
entry's lock in order, `turn[t]` a turn of the cats: its children, its verdict, and the cat whose settlement it
has in `hand`, with the snapshot it would put back. What a child of a turn came to, and `replied`, are
durable and survive `Crash`. The row changes at once; every `persist`, commit and withdrawal is appended to
`jobs` and carried out later, refused by the store (`Acceptable`), or failed before or after its write
(`Write`). A turn dispatched from the row goes `starting` - `ensuring` - `running` - `returning` - `settling` -
`over`; a turn for something else begins, for the message, when its cat reads it. `Recover` and
`Restore` are the startup reconciliation.

Abstractions: the message is accepted in one step (`messages.ts` appends and enqueues with an `await`
between); attempts, failures and notices per target, reminders, steer, retry and recall are left out, and
rows of several messages or carriers per target; what `executeEntry` does between its guards is
one step each; `Reconcile` takes snapshot, reads and compare-and-set as one (the code retries three
times, and what is left of the race is a fault); a row whose turn finds the record terminal stops at `Ensure`;
the user's Stop of a turn for something else is, for the message, its failure.

## 4. The runs

| run | question | instance |
|---|---|---|
| `session_mutex` | safety and liveness of the lock, and that it is a waiting line | 4 requests: on one session two executions of a cat and a caller without owner, on another a second cat; 2 scopes |
| `tracker` | guards, admissions, late cleanup, waking of whoever waits for a seal | 2 cats, a single run and a two-cat batch of one user |
| `cancel_custody` | Stop against runners at work and lost | 3 runs of 2 cats, two of them on one session |
| `queue_dispatch` | who runs an entry, who holds a cat and until when, batches and collection at start | two one-cat entries of a batch, a two-cat entry, 1 steer, 2 attempts, stops of 1 cat |
| `multi_mention` | one request per key, final results, an end | 3 cats, 3 calls: a asks b and c, retries with the same key, b asks a; depth 3 |
| `hold_wake` | cancelled or woken, once, at last; that it is a one-shot wake | 2 cancellations, 1 deferral, 3 pauses or resumes, 2 crashes |
| `cron_task` | one run per slot, on schedule for ever | a dense and a sparse schedule, 6 ticks, early by 1, delays of at most 2, 2 registrations |
| `session_chain` | the index, the seal's end, the hand-over | 2 sessions, 1 finalizer, 1 reaper, 1 proposal, 1 restore, 1 fault |
| `queue_custody` | no target lost, no answered cat started | 2 cats, 2 turns, one failed operation or one crash |

The bounds are the smallest in which the interesting encounters happen. For the lock: a holder, a
waiter that is evicted or aborts, and one behind it; a second session shows that a scope reaches
across. For the tracker: two runs are what every replacement, late cleanup and wrong lookup takes,
and two cats what a batch takes. Its run has a view that leaves out `final` and `stopped`, which no action reads. For the queue: an attempt and its successor, a two-cat entry that makes a
start depend on a slot nobody reserved, and twins that are started together; two overlapping steers
have been explored apart (`MCQueueBatch.cfg`), as have three attempts. To bound the search
(`Bounded`), an execution from outside runs beside the first entry that was enqueued only, and beside at
most two entries what settles after a stop or a failure before the start, and a turn whose slot was
released; one cat is stopped. Attempts and the twins are interchangeable (`TwinSymmetry`, in runs with
safety properties only). `MaxBatch` is the depth limit of
the queue, never reached. For a question: the retry, and a target that is a caller. For the wake: one
cancellation whose answer is lost and one that repeats it, and a server that dies during the
recovery from a death. For cron: both timers late and early, a chunked delay, a replaced definition; time
6 lets three slots of the dense schedule pass under one run. For the chain: the session that is
sealed and its successor. For custody: `OneMishap` allows one failed operation or one crash, which is the
assumption under which `NothingLost` holds, `ShortQueue` at most two operations at the lock before
the mishap, which leaves one to overtake and one to be overtaken, and one after it, and `EarlyRemove`
lets the user take the message back only before the mishap, which may be that this fails. Deadlock checking is off, since a finite number of
requests, runs and attempts comes to an end.

The type invariant is one property per module; the others join what belongs together: `LockIsLive` is a
live holder and no lost wakeup, `GuardsExclude` the seal and the delete guard, `CancelledOrWokenOnce` the
winner of cancellation and run and the single wake, `FiredOnce` one run per slot and none for a slot
merged into a later run.

Fairness, and why the code gives it. `SessionMutex`: a running caller releases (the finally block of
`invokeSingleCat`, provided the provider ends). `InvocationTracker`: a seal guard is released (the finally
block of the seal route). `MultiMention`: the timer of a request goes off. `HoldWake`: time passes,
timers go off, Redis answers or fails, and a dead server is started again; a cancellation whose outcome
the store left unknown, and a scheduler switched off for ever, are exceptions of `HoldEnds`. `CronTask`:
time passes, timers go off, the watchdog looks. That a run ends is *not* assumed of either: the timeout of
`execute-pipeline.ts` (235) bounds the outcome that is reported, while the pipeline goes on to await the
executions themselves (275), and its gate (173) has no bound. So `HoldEnds` asks for the start of the run
and no more, and `CatchesUp` says that a slot that is due is run or skipped behind a run whatever becomes of
runs, and is left behind only if runs end, which is the premise of its second half: a run that hangs keeps
the flag, the watchdog passes the task over, and the task does not fire again until a restart.
`CancelCustody`: nothing, but for the premises of `DeadRunRecovered` (a user who presses Stop again, the
reaper that comes to the dead run).
`SessionChain`: every sweep of a reaper looks at each sealing session (strong fairness per session: the
sweep is periodic and the state may come and go between two looks), and the store answers. Nothing
else is fair: no fairness of acquires, starts or user actions, and no liveness is claimed for the queue.

### Where the code disagrees with what it says

Each of these is a run that must find a violation; PROJECT.json quotes the line in question.

| run | what happens |
|---|---|
| `queue_orphan` | a start turned away because a secondary cat is busy leaves its rows `processing` |
| `seal_orphan` | a reaper overwrites the reason of a seal, and the recovery of the hand-over that sealed the session expires it as 'pre-commit' |
| `custody_wedge` | one of two cats answers and its turn fails: the row that is built again forgets who is handled, the store refuses it from then on, and the other cat is not started until a restart |

More statements of the modules are violated and have no run of their own; the configuration named
with each shows the trace.

| statement | configuration | what happens |
|---|---|---|
| `SucceededRanToCompletion` (tracker) | `MCTrackerVerdict` | a stopped batch reports `succeeded`, because a replacement occupies the slot it looks up |
| `SealWaitsForTeardown` (tracker) | `MCTrackerSeal` | Stop, new run, completion, Seal: sealed while the stopped provider still tears down |
| `CanceledWasCanceled` (tracker) | in `MCTrackerVerdict` | an undisturbed batch reports `canceled_by_user`, by another run's tombstone |
| `NoConcurrentResume` (Stop) | `MCCustodyResume` | Stop on a cat, then Stop all: the session of a runner in teardown is freed and resumed twice |
| `ScanSkipsBusy` (queue) | `MCQueueScan` | a scan is offered the same busy reservation for ever, inside one turn |
| `BookedWhileReferenced` (queue) | `MCQueueBook` | Clear forgets the reservation of rows at work; when they come back no claim takes them |
| `BarrierIsRecoverable` (queue) | in `MCQueueOrphan` | a steer bars a claim whose write then fails, and nothing lifts the barrier |
| `SettledByOwner` (queue) | `MCQueueLate` | an attempt that was reaped fails before its start and requeues the row under its successor |
| `AnsweredNotRestarted` (queue) | in `MCQueueOrphan` | an answered entry, staged as `queued`, is dispatched again before it is consumed |
| `AnsweredStaysAnswered` (queue) | in `MCQueueOrphan` | giving up a reservation restores targets answered since |
| `TimeoutReturnsAnswers` (multi-mention) | `MCMentionTimeout` | F086 (lines 87, 104, 259, 264) promises the initiator the answers that came in time, and `flushResult` (606) can render the gaps, but the timer posts nothing |
| `NoCascade` (multi-mention) | in `MCMentionTimeout` | a caller becomes a target between its guard and its request |
| `CancelAlwaysHolds` (wake) | `MCHoldFence` | `unregister` drops the reservation: a wake paused and resumed in the schedule panel while its cancellation is being stored runs after it, though `TaskRunnerV2.ts:281` says that 'exactly one side can win this reservation boundary' |
| `ReplacementRuns` (cron) | `MCCronStale` | the end of a run schedules the object it ran for, which was replaced meanwhile; the watchdog, which looks up the registered one, sets it right |
| `OneActive` (chain) | `MCTwoActive` | a run that replaces its session creates the record without looking for an active one |
| `AnsweredNotRunAgain` (custody) | `MCCustodyRerun` | a row is dispatched while an answer to it is being settled, and is set back under the turn that starts: the cat runs again after its answer is durable |
| `AnsweredStaysAnswered` (custody) | `MCCustodyStays` | a snapshot is put back over a row that executes; a handled cat is exposed again |
| `NothingLost` (custody) | `MCCustodyLost` | with two failed commits that overlap (or three turns and none) snapshots are put back in the wrong order, and a target is recorded as handled that was not, or is in no row |

Two more, seen in the code while modelling: pausing and resuming a wake, or registering a cron task anew,
during a run resets the flag that keeps two runs apart (the properties except such runs); and a chunked
timer that ends after its slot has passed, because the host slept, schedules from the clock, so that the
slot is lost unless the watchdog looked first.

## 5. The proofs

The modules named `...Proofs` prove of all nine models what holds for every set of callers,
cats, users, runs, entries, steers, attempts, calls, requests, schedules, proposals and turns, and every
bound. The assumptions are the named ones of the modules: types of the constants and nothing about sizes,
that what stands for "none" (slot, holder, request) is not one of those there are, that an operation
is a finalizer's or a reaper's, and that a schedule has no last slot that the clock could pass; the theorems
about the queue also assume `~SlowWrites`, as an explicit hypothesis.

*Session lock.* The inductive invariant joins the five parts that the run checks separately. They need
each other: that a hand-over gives the lock to a pending caller needs `QueueIsPending`, that nobody
waits on a free session needs every operation that frees a lock to drain its queue in the same step,
and first come first served needs `ArrivalOrder`. The choice of the oldest waiter is a lemma
(`DrainNextIsOldest`), from the well-foundedness of the naturals. `HandOver` and
`FirstComeFirstServed` are action properties that follow from the invariant step by step; for `HandOver`,
that a closure which ends frees its own session and no other is read off `Release`, which compares holders.

That the lock implements `WaitingLine` (`LockIsWaitingLine`) needs more than either: each operation is
matched with a join, a departure or a stutter (`Joins`, `Leaves`, `Declines`), and a departure keeps the
order of those who stay because the new holder came before everybody who still waits (`OrderKept`, from
`FirstComeStep`). `HeadHolds` is where `NoLostWakeup` is needed: a line without a holder would have a head.

*Stop handlers.* `CancelCustody` runs on the lock and the tracker, and its two theorems are in the lock's
proof module. A Stop does in one step what the lock knows as several: it fires signals and force
releases a scope. So the lock's theorems do not carry over; `LockOwned` says again what must hold
of it, and `StopKeepsLockLive` that it holds beside runners that die and leave their lock behind. The other
half of `StopInv` joins the slot of a run to its place at the lock: a runner asks only once its route was
started (`AskedAfterStart`), and while it waits for or holds its session its slot, if it still is its own,
carries the execution that a Stop preserves (`ClaimIsBound`). This makes a Stop spare the run at work
(`StopSparesActiveRun`). The counterpart, that the session of a lost run is recovered, is a liveness
property (`DeadRunRecovered`) and stays with TLC. The hypothesis is `CustodyAssumption`: each
run has a cat, and what stands for "none" or "any" is not one of them.

*Tracker.* `SealExclusive`, `DeleteExclusive` and `AdmissionPublishes` are inductive only together, with
`ParkedOnHeldSeal`: an install is harmless because no guard is held, and a guard may be taken because
nothing is active or admitted. Lemmas factor what most steps have in common (`GuardsKept`: a step that
leaves the guards alone and makes nothing busy keeps them; `RetiredKeeps`; `TombstonedIInv`).

`LateCleanupHarmless` is about what may become of a slot in one step, which `Fate` lists: it stays, is
updated by its own run, is written over by another, or goes, and then for one of two reasons
(`EveryFate`). The proof uses that a missing slot is not an invocation (`NoSlotAssumption`). From the same
lemma follows `OwnersAreSingle`: only a run of `start()` owns the controller of a slot. So the controller a
batch shares fires only in `cancelAll` and `cancelInvocation`, which tombstone every slot of the batch in
the same step: `SingleCancelIsolated`, which is proved and not a property of a run.

*Queue.* That no entry is run by two attempts is not inductive: between claim and start an attempt can
lose its slot to a steer, to a retirement or to the reaper, and its failed write can still put rows
back. The invariant therefore speaks of three things. `CatsInv`: a slot names an attempt that claimed it
and is still about its work (`SlotsClaimed`), and the tracker names attempts that run, whose slot is theirs
or was released (`TurnsRun`). `RowsInv`: what an attempt keeps (its claim is being written, it holds its slot
before its turn, it runs, or it has this row still to settle: `KeptBy`) is at work or gone, and no two keep
the same row, unless somebody failed late over it (`KeptRows`); an attempt whose claim is being written and that lost its slot has
nothing left to undo, since the retirement removed its row or the bookkeeping of its reservation
(`UnwrittenClaims`). The second part fails with slow writes, which is where the hypothesis enters: the
reaper would free the slot and requeue the row while the write is pending whose failure undoes the claim
once more. The exception needs that a late failure stays one (`LateStays`): otherwise an entry could
come back under the promise with two attempts that carry it. `QueueInv`: a reservation has bookkeeping
only once its route has begun, and nothing live is without targets, so that `targetCats[0]` exists. Two
frame lemmas carry most of the steps: `QuietIInv` for steps of users and routes that touch only queued
rows, `RowsAfterStep` and `CatsAfterStep` for one attempt's move; `ClaimIInv` is shared by the five ways to
claim, `FreeCat` by all that empty a slot from outside. `SlotsAreLive` is `SlotsClaimed` read for slots
without a barrier; it does not need the exception, and `TurnsKeepSlots` follows step by step
(`SlotsShrink`, `OwnerHolds`), as does `ReservationsFenced` from `BooksOpen` (the primary is a member).

*Multi-mention.* The code decides that a request is complete by comparing a number of answers with a
number of names. That this means an answer of every target, and so that a result which is posted has no
gap for a later turn to fill (`ResultsAreFinal`), is a counting argument: only targets answer
(`RequestOK`), each once, and no list has more targets than names (`TargetsCount`, `FullCount`, from the
theorems on finite sets and surjections). `CallFirst` joins a request to the handler that created it, which
is why two calls with one key never both pass the lookup.

*Hold wakes.* That a stored cancellation and a run exclude each other is not inductive, since the record is
stored several steps after the reservation was taken, and the server may die in between. The invariant
says where the wake may be meanwhile: `Fence` (a reservation means that nothing has started; a request that
is about to commit holds the reservation or the wake is gone; what is recorded can only be gone,
reserved, or waiting for the recovery that comes before hydration), `Fired` (the timer's only run is under way
or over, or died with the server and will be found missed) and `Flag` (the flag is right as long as nobody
meddled). `Books` holds whatever the schedule panel does. `CancelHolds` follows step by step.

That it implements `OneShotWake` (`HoldIsOneShotWake`) is more: a run must also not start for a wake that was
withdrawn, retired by an event, missed or spent. `MayStart` gathers what a timer or a trigger finds when
it passes its guards: nothing started, nothing stored, nothing running. `LeavesAside` sorts the other
steps, almost all of which leave the promise alone or end the wake; that the end of the timer's run does not
look like another end needs that its runs are counted (`Counted`). `Meddling` shows that the schedule
panel and the start change nothing that is promised except to disturb it.

*Cron.* `Ahead` says that the next slot lies after every run or was already fired, and that the pending timer is
for that slot; `Marked` that every slot that ran is marked as fired; `Solo` that the one run in flight is of the
registered object and known to the flag, unless a registration overtook a run. Together they give
`FiredOnce`: the early timer finds its slot marked, the watchdog finds the slot the timer would fire.
`ArmFacts` states what scheduling does, for any schedule with a slot left (`GridsAssumption`).

*Session chain.* The invariant has two halves. `ChainInv`: a terminal write that is in flight meets a
session that is sealing or sealed, unless a restore came in between (`WritesMeetSeals`), which is what
`ActiveIsNamed` needs of its exceptions. `HandoffInv` follows an approval: a session has one open proposal
(`OneOpen`), its reason is not a hand-over's until this approval's seal was accepted (`NotYetSealed`), what
is done only afterwards implies that it was (`OnlyAfterSeal`, `OnlyBeforeSeal`), and an accepted seal stands
until the user restores the session (`SealStands`). Recovery looks at the reason and the note of the session
and not at the approval, so `CommitKept` and `HandedOverWasSealed` need all of these: with two open
proposals one could take the other's seal for its own.

*Message custody.* `TypeOK` is not inductive, since the restart builds the row from the record: the record
must be one the store accepts (`RecordFits`), and what waits at the lock must be rows (`FitJobs`). That an
executing row has a turn (`RowIsCarried`) needs that a turn has one start and waits for it (`StartsFit`), also
when the start fails after its write, and that snapshots that are put back are not executing (`FitTurns`).
That no answered cat is started is, within one process, the store's refusal; across a crash it
needs that nothing that survives brings back a cat whose turn died after it answered: `NoGhost` for rows,
operations and snapshots, `PendingAlive` for the record once the restart has looked at it.
`OutcomesStand` (an outcome, once recorded, is never undone) follows from the two ways in which the
record changes, a store operation and the restart; it marks the border of what is violated as
`AnsweredStaysAnswered`, where a cat that is handled *without* an outcome comes back. These theorems hold
with any number of failed operations and crashes.

What `NothingLost` says beyond `RowIsCarried` takes a second invariant, `HandsFit`: what a turn
that settles holds in its hands fits the step it is at. On it rests `Accounts`: rows that are stored, about to be stored,
or kept as snapshots to be put back never claim a target the record would then forget. So
`TargetsAccounted` holds for any cats, turns, failures and crashes (`NoTargetIsForgotten`): each cat
is answered, withdrawn or pending. That a pending one is also in somebody's hands holds for a
message with one addressee, whatever fails and however often (`NothingOfOneIsLost`, the whole of
`NothingLost`): by `OneForAll` the row, an operation that waits or a settlement that can be put back still
has its cat. The hypothesis `OneAddressee` is not a convenience: with two addressees
two failures that overlap, or three turns and none, lose a target (section 4), and with
two turns and one mishap `NothingLost` is checked by `MCQueueCustody` and not proved.

Only model-checked: liveness (`WaiterAnswered`, `DeadRunRecovered`, `ParkedWakes`, `TargetIsFreed`, `HoldEnds`, `CatchesUp`,
`SealingEnds`; liveness under fairness is out of the prover's reach), and `NothingLost` for a message with
several addressees, but for the parts `RowIsCarried` and `TargetsAccounted`. The violation runs are
counterexamples and need no proof.

## 6. Not modelled

PROJECT.json lists every component with the reason. In short:

- *Next to the core, and with state of their own*: the worklist of a route call and the pending
  capsule of a session (its hazard is listed), the sweep of invocation records at the start and
  the probes for dead owners, the ball custody reducer and the leases of action successors, the
  freshness aggregate, and the idempotency claims of plugin messages. Their operations are single
  synchronous steps or single scripts of the store; what races among their callers goes through the
  tracker, the queue and the scheduler, which are modelled.
- *Provider streams and prompt assembly* (`route-serial.ts`, `route-parallel.ts`, the providers): of them the
  models keep who runs, who ends how, and who holds which session.
- *Stores* are assumed atomic per operation; HTTP parsing and authorisation, connectors, memory and
  retrieval, and the product domains carry no protocol between concurrent actors that the models
  could tell apart from sequential code; web client, MCP server and shared types lie outside the server.
- *Context epochs and presentation*: nothing constructs them outside their tests.
