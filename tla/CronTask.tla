------------------------------ MODULE CronTask ------------------------------
(***************************************************************************)
(* One cron task of TaskRunnerV2: the timer chain that wakes it, the       *)
(* watchdog that looks for slots the timers missed while the host slept,   *)
(* runs that outlast their slot, manual runs, a definition that is         *)
(* replaced, shutdown and restart.                                         *)
(*                                                                         *)
(* Time is a counter; a host that sleeps is one on which time passes and   *)
(* no timer goes off.  A timer may go off a little before its time, and a  *)
(* delay that setTimeout cannot hold is served in chunks.                  *)
(***************************************************************************)
EXTENDS Naturals, FiniteSets

CONSTANTS
  Grids,      \* the schedules a definition may have: sets of slots
  Drift,      \* how early a timer may go off
  MaxDelay,   \* the longest delay of a timer
  MaxTime,    \* bound on time
  MaxTasks    \* bound on registrations

ASSUME BoundsAssumption == {Drift, MaxDelay, MaxTime, MaxTasks} \subseteq Nat
\* A schedule has no last slot that the clock could pass.
ASSUME GridsAssumption ==
  \A g \in Grids : g \subseteq Nat \ {0} /\ \E s \in g : s > MaxTime + Drift

\* Every registration creates an object of its own, with the schedule of its definition.
Tasks == [id : 1..MaxTasks, grid : Grids]
None == [id |-> 0, grid |-> {}]

VARIABLES
  now,
  phase,        \* the runner: booting, started or stopped
  task,         \* the registered object, or None
  timer,        \* the pending timer: its object, its slot, when, and whether it fires or looks again
  nextSlot,     \* the slot the watchdog compares with, 0 if there is none
  slotFired,    \* the slot fired last, 0 if there is none
  running,      \* the flag of the overlap guard
  runs,         \* the runs of slots in flight
  manual,       \* manual runs in flight
  ran,          \* history: slots that ran since the registration
  ranAt,        \* history: when the last run of a slot started
  overtaken,    \* history: a registration met a run of an earlier one
  tasks         \* history: registrations so far

flight == <<runs, manual>>
history == <<ran, ranAt, overtaken, tasks>>
vars == <<now, phase, task, timer, nextSlot, slotFired, running, flight, history>>

Idle == [task |-> None, slot |-> 0, at |-> 0, fires |-> FALSE]

Init ==
  /\ now = 0 /\ phase = "booting"
  /\ task = None /\ timer = Idle /\ nextSlot = 0 /\ slotFired = 0 /\ running = FALSE
  /\ runs = {} /\ manual = 0
  /\ ran = {} /\ ranAt = 0 /\ overtaken = FALSE /\ tasks = 0

Registered == task # None
Armed == timer # Idle
Due == now + Drift >= timer.at

Pass ==
  /\ now < MaxTime
  /\ now' = now + 1
  /\ UNCHANGED <<phase, task, timer, nextSlot, slotFired, running, flight, history>>

-----------------------------------------------------------------------------
\* Faulty: slots that passed are made up for one by one.
NextSlotFromFired(grid, fired) ==
  {s \in grid : s > fired /\ \A u \in grid : u > fired => s <= u}

\* computeNextCronSlot: the first slot after the present and after the slot fired last.
NextSlotOf(grid, fired) ==
  {s \in grid : s > now /\ s > fired /\ \A u \in grid : u > now /\ u > fired => s <= u}

\* scheduleCronTick: next slot and timer are replaced.
Arm(t, fired) ==
  \E s \in NextSlotOf(t.grid, fired) :
    /\ nextSlot' = s
    /\ timer' = IF s <= now + MaxDelay
                THEN [task |-> t, slot |-> s, at |-> s, fires |-> TRUE]
                ELSE [task |-> t, slot |-> s, at |-> now + MaxDelay, fires |-> FALSE]

\* Faulty: a runner that is not started schedules all the same.
ArmAlways(t, fired) == Arm(t, fired)

ArmIfStarted(t, fired) ==
  IF phase = "started" THEN Arm(t, fired) ELSE UNCHANGED <<nextSlot, timer>>

\* The definition is registered under its id; on a started runner it is scheduled at once.
Register(g) ==
  /\ ~Registered /\ tasks < MaxTasks
  /\ tasks' = tasks + 1
  /\ task' = [id |-> tasks + 1, grid |-> g]
  /\ IF Armed THEN UNCHANGED <<nextSlot, timer>> ELSE ArmIfStarted(task', 0)
  /\ running' = FALSE
  /\ ran' = {} /\ overtaken' = (overtaken \/ runs # {} \/ manual > 0)
  /\ UNCHANGED <<now, phase, slotFired, flight, ranAt>>

\* Faulty: the timer of the old object stays.
UnregisterKeepsTimer ==
  /\ Registered
  /\ task' = None /\ nextSlot' = 0 /\ slotFired' = 0 /\ running' = FALSE
  /\ UNCHANGED <<now, phase, timer, flight, history>>

\* unregister clears the timer and the books; a run in flight goes on.
Unregister ==
  /\ Registered
  /\ task' = None /\ timer' = Idle /\ nextSlot' = 0 /\ slotFired' = 0 /\ running' = FALSE
  /\ UNCHANGED <<now, phase, flight, history>>

\* start: a task known by then gets its timer, and its flag is reset.
Start ==
  /\ phase = "booting"
  /\ phase' = "started"
  /\ IF Registered
     THEN Arm(task, slotFired) /\ running' = FALSE
     ELSE UNCHANGED <<nextSlot, timer, running>>
  /\ overtaken' = (overtaken \/ manual > 0)
  /\ UNCHANGED <<now, task, slotFired, flight, ran, ranAt, tasks>>

-----------------------------------------------------------------------------
\* fireCronSlot of object t.  A slot that was fired only schedules the next one; a slot that meets a
\* run is skipped and counts as fired; the others run.
SlotIsOld(t, s) ==
  /\ s <= slotFired
  /\ ArmIfStarted(t, slotFired)
  /\ UNCHANGED <<slotFired, running, flight, history>>

SlotOverlaps(t, s) ==
  /\ s > slotFired /\ running
  /\ slotFired' = s
  /\ ArmIfStarted(t, s)
  /\ UNCHANGED <<running, flight, history>>

SlotRuns(t, s) ==
  /\ s > slotFired /\ ~running
  /\ slotFired' = s
  /\ running' = TRUE
  /\ runs' = runs \cup {[task |-> t, slot |-> s]}
  /\ ran' = ran \cup {s} /\ ranAt' = now
  /\ UNCHANGED <<nextSlot, manual, overtaken, tasks>>

TimerFires ==
  /\ Armed /\ timer.fires /\ Due /\ Registered
  /\ \/ SlotIsOld(timer.task, timer.slot)
     \/ SlotOverlaps(timer.task, timer.slot)
     \/ SlotRuns(timer.task, timer.slot) /\ timer' = Idle
  /\ UNCHANGED <<now, phase, task>>

\* A long delay is served in chunks: at the end of one the task is scheduled anew.
TimerLooksAgain ==
  /\ Armed /\ ~timer.fires /\ Due
  /\ ArmIfStarted(timer.task, slotFired)
  /\ UNCHANGED <<now, phase, task, slotFired, running, flight, history>>

\* checkCronMisfires: a slot that is due and was not fired is fired, for the registered object.  The
\* timer stays.
Watchdog ==
  /\ phase = "started" /\ Registered /\ nextSlot # 0 /\ nextSlot <= now /\ nextSlot > slotFired
  /\ \/ SlotOverlaps(task, nextSlot)
     \/ SlotRuns(task, nextSlot) /\ UNCHANGED timer
  /\ UNCHANGED <<now, phase, task>>

\* Faulty: the chain is not continued.
EndRunForGood(r) ==
  /\ runs' = runs \ {r}
  /\ running' = FALSE
  /\ UNCHANGED <<nextSlot, timer, now, phase, task, slotFired, manual, history>>

\* The run of a slot is over; the object that ran is scheduled again if its id is registered.
EndRun(r) ==
  /\ runs' = runs \ {r}
  /\ running' = FALSE
  /\ IF Registered THEN ArmIfStarted(r.task, slotFired) ELSE UNCHANGED <<nextSlot, timer>>
  /\ UNCHANGED <<now, phase, task, slotFired, manual, history>>

\* Faulty: the flag is not looked at.
TriggerReentrant ==
  /\ Registered
  /\ running' = TRUE /\ manual' = manual + 1
  /\ UNCHANGED <<now, phase, task, timer, nextSlot, slotFired, runs, history>>

Trigger ==
  /\ Registered /\ ~running
  /\ running' = TRUE /\ manual' = manual + 1
  /\ UNCHANGED <<now, phase, task, timer, nextSlot, slotFired, runs, history>>

\* Faulty: an end is counted whether a run is in flight or not.
EndManualUncounted ==
  /\ running
  /\ manual' = manual - 1 /\ running' = FALSE
  /\ UNCHANGED <<now, phase, task, timer, nextSlot, slotFired, runs, history>>

EndManual ==
  /\ manual > 0
  /\ manual' = manual - 1 /\ running' = FALSE
  /\ UNCHANGED <<now, phase, task, timer, nextSlot, slotFired, runs, history>>

-----------------------------------------------------------------------------
Stop ==
  /\ phase = "started"
  /\ phase' = "stopped"
  /\ timer' = Idle /\ nextSlot' = 0 /\ slotFired' = 0
  /\ UNCHANGED <<now, task, running, flight, history>>

\* The process ends and comes up again: it remembers nothing, and registers from the store.
Crash ==
  /\ phase' = "booting"
  /\ task' = None /\ timer' = Idle /\ nextSlot' = 0 /\ slotFired' = 0 /\ running' = FALSE
  /\ runs' = {} /\ manual' = 0
  /\ overtaken' = FALSE
  /\ UNCHANGED <<now, ran, ranAt, tasks>>

Next ==
  \/ Pass \/ Unregister \/ Start \/ TimerFires \/ TimerLooksAgain \/ Watchdog
  \/ Trigger \/ EndManual \/ Stop \/ Crash
  \/ \E g \in Grids : Register(g)
  \/ \E r \in runs : EndRun(r)

Spec == Init /\ [][Next]_vars

\* Time passes, timers go off and the watchdog looks.  Nothing says that a run ends: the pipeline's
\* timeout bounds its reported outcome, not the gate nor the executions it waits for.
FairSpec ==
  /\ Spec
  /\ WF_vars(Pass) /\ WF_vars(TimerFires) /\ WF_vars(TimerLooksAgain) /\ WF_vars(Watchdog)

-----------------------------------------------------------------------------
Timers == [task : Tasks \cup {None}, slot : Nat, at : Nat, fires : BOOLEAN]

TypeOK ==
  /\ now \in Nat /\ phase \in {"booting", "started", "stopped"}
  /\ task \in Tasks \cup {None} /\ timer \in Timers
  /\ nextSlot \in Nat /\ slotFired \in Nat /\ running \in BOOLEAN
  /\ runs \subseteq [task : Tasks, slot : Nat] /\ manual \in Nat
  /\ ran \subseteq Nat /\ ranAt \in Nat /\ overtaken \in BOOLEAN /\ tasks \in 0..MaxTasks

\* A task that is registered with a started runner never falls off the schedule: a timer will look at
\* it, or a run in flight will schedule it when it is over.  Otherwise nothing is pending, also if a
\* run outlives the shutdown.
OnSchedule ==
  IF phase = "started" /\ Registered
  THEN nextSlot # 0 /\ (Armed \/ runs # {})
  ELSE ~Armed /\ nextSlot = 0

Starting == runs' \ runs

\* Timer, early timer and watchdog run a slot at most once between them.
SlotOnce == [][\A r \in Starting : r.slot \notin ran]_vars

\* Slots that passed while the host slept or a run was long are merged: once a run has started, no slot
\* that was due by then is run, not even after the task is registered anew.
MergedOnce == [][\A r \in Starting : r.slot > ranAt]_vars

\* A slot is run once, and nothing that was due when a run started is made up for.
FiredOnce == [][\A r \in Starting : r.slot \notin ran /\ r.slot > ranAt]_vars

\* The overlap guard: a task has one run at a time, unless it was registered anew under a run.
NoReentry == ~overtaken => Cardinality(runs) + manual <= 1

\* What runs is the registered definition, unless it replaced another one under a run.
CurrentRuns == [][\A r \in Starting : r.task = task \/ overtaken]_vars

\* What the projection of a cat's life settings promises: a definition that replaced another is the
\* one that runs.
ReplacementRuns == [][\A r \in Starting : r.task = task]_vars

SlotIsDue == phase = "started" /\ Registered /\ nextSlot <= now

\* A slot that is due is run, or skipped behind a run, whatever becomes of the runs; and as long as
\* runs end, it does not stay the next one.  (A run that hangs keeps its slot the next one and the
\* flag set: the watchdog passes the task over, and nothing fires until a restart.)
CatchesUp ==
  /\ SlotIsDue ~> (~SlotIsDue \/ nextSlot <= slotFired)
  /\ WF_vars(\E r \in runs : EndRun(r)) => (SlotIsDue ~> ~SlotIsDue)
=============================================================================
