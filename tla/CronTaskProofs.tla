--------------------------- MODULE CronTaskProofs ---------------------------
(***************************************************************************)
(* Proofs about CronTask, for any schedules, any drift and any bounds.     *)
(*                                                                         *)
(* The slot the watchdog sees and the slot of the timer are one, and it is *)
(* either fired or later than every run so far; what has run since the     *)
(* registration is not later than the slot fired last.  As long as no      *)
(* definition replaced another under a run, the object of the timer and of *)
(* the run in flight is the registered one.                                *)
(***************************************************************************)
EXTENDS CronTask, FiniteSetTheorems, TLAPS

\* The slot that is next was fired or lies after every run, and the timer is for that slot.
Ahead ==
  /\ ranAt <= now
  /\ nextSlot > ranAt \/ nextSlot <= slotFired
  /\ Armed => timer.slot = nextSlot /\ timer.task \in Tasks

Marked == Registered /\ phase # "stopped" => \A s \in ran : s <= slotFired

\* One run at a time, of the registered object, known to the overlap guard.
Solo ==
  /\ \/ runs = {} /\ manual \in {0, 1}
     \/ manual = 0 /\ \E r \in runs : runs = {r}
  /\ Registered => /\ runs # {} \/ manual > 0 => running
                   /\ \A r \in runs : r.task = task
  /\ Armed => timer.task = task

Quiet == phase = "booting" => runs = {}

IInv == TypeOK /\ OnSchedule /\ Ahead /\ Marked /\ Quiet /\ (~overtaken => Solo)

\* What scheduling an object does, whatever the schedule: the next slot lies after the present and
\* after the slot fired last, and a timer for the object is pending.
LEMMA ArmFacts ==
  ASSUME now \in Nat, NEW t \in Tasks \cup {None}, NEW f \in Nat, Arm(t, f)
  PROVE  /\ nextSlot' \in Nat /\ nextSlot' > now /\ nextSlot' > f
         /\ timer' \in Timers /\ timer' # Idle
         /\ timer'.slot = nextSlot' /\ timer'.task = t /\ t \in Tasks
<1>1. PICK s \in NextSlotOf(t.grid, f) :
        /\ nextSlot' = s
        /\ timer' = IF s <= now + MaxDelay
                    THEN [task |-> t, slot |-> s, at |-> s, fires |-> TRUE]
                    ELSE [task |-> t, slot |-> s, at |-> now + MaxDelay, fires |-> FALSE]
  BY DEF Arm
<1>2. t.grid \subseteq Nat
  BY GridsAssumption DEF Tasks, None
<1>3. s \in Nat /\ s > now /\ s > f
  BY <1>1, <1>2 DEF NextSlotOf
<1>4. timer' \in Timers /\ timer'.slot = s /\ timer'.task = t
  BY <1>1, <1>3, BoundsAssumption DEF Timers
<1>5. timer' # Idle
  BY <1>3, <1>4 DEF Idle
<1>6. t \in Tasks
  BY <1>1 DEF NextSlotOf, None
<1> QED BY <1>1, <1>3, <1>4, <1>5, <1>6

LEMMA InitIInv == Init => IInv
<1> SUFFICES ASSUME Init PROVE IInv OBVIOUS
<1> USE DEF Init
<1>1. TypeOK
  <2>1. tasks \in 0..MaxTasks BY BoundsAssumption
  <2>2. timer \in Timers BY DEF Timers, Idle
  <2> QED BY <2>1, <2>2 DEF TypeOK
<1>2. OnSchedule /\ Ahead /\ Marked /\ Quiet /\ Solo
  BY DEF OnSchedule, Ahead, Marked, Quiet, Solo, Registered, Armed
<1> QED BY <1>1, <1>2 DEF IInv

LEMMA PassIInv ==
  ASSUME IInv, Pass
  PROVE  IInv'
<1> USE DEF Pass, flight, history
<1>1. TypeOK'
  <2>1. now' \in Nat /\ nextSlot' \in Nat /\ slotFired' \in Nat /\ manual' \in Nat
    BY DEF IInv, TypeOK
  <2>2. ran' \subseteq Nat /\ ranAt' \in Nat /\ tasks' \in 0..MaxTasks
    BY BoundsAssumption DEF IInv, TypeOK
  <2>3. runs' \subseteq [task : Tasks, slot : Nat]
    BY DEF IInv, TypeOK
  <2>4. task' \in Tasks \cup {None} /\ timer' \in Timers
    BY DEF IInv, TypeOK
  <2>5. phase' \in {"booting", "started", "stopped"} /\ running' \in BOOLEAN /\ overtaken' \in BOOLEAN
    BY DEF IInv, TypeOK
  <2> QED BY <2>1, <2>2, <2>3, <2>4, <2>5 DEF TypeOK
<1>2. OnSchedule'
  BY DEF IInv, TypeOK, OnSchedule, Quiet, Registered, Armed
<1>3. Ahead'
  BY DEF IInv, TypeOK, OnSchedule, Ahead, Registered, Armed
<1>4. Marked'
  BY DEF IInv, TypeOK, OnSchedule, Marked, Registered, Armed
<1>5. Quiet'
  BY DEF IInv, TypeOK, OnSchedule, Quiet, Registered, Armed
<1>6. ASSUME ~overtaken' PROVE Solo'
  BY <1>6 DEF IInv, TypeOK, OnSchedule, Quiet, Solo, Registered, Armed
<1> QED BY <1>1, <1>2, <1>3, <1>4, <1>5, <1>6 DEF IInv

LEMMA UnregisterIInv ==
  ASSUME IInv, Unregister
  PROVE  IInv'
<1> USE DEF Unregister, flight, history
<1>1. Idle \in Timers
  BY DEF Idle, Timers
<1>2. TypeOK'
  <2>1. now' \in Nat /\ nextSlot' \in Nat /\ slotFired' \in Nat /\ manual' \in Nat
    BY <1>1 DEF IInv, TypeOK
  <2>2. ran' \subseteq Nat /\ ranAt' \in Nat /\ tasks' \in 0..MaxTasks
    BY <1>1, BoundsAssumption DEF IInv, TypeOK
  <2>3. runs' \subseteq [task : Tasks, slot : Nat]
    BY <1>1 DEF IInv, TypeOK
  <2>4. task' \in Tasks \cup {None} /\ timer' \in Timers
    BY <1>1 DEF IInv, TypeOK
  <2>5. phase' \in {"booting", "started", "stopped"} /\ running' \in BOOLEAN /\ overtaken' \in BOOLEAN
    BY <1>1 DEF IInv, TypeOK
  <2> QED BY <2>1, <2>2, <2>3, <2>4, <2>5 DEF TypeOK
<1>3. OnSchedule'
  BY <1>1 DEF IInv, TypeOK, OnSchedule, Quiet, Registered, Armed
<1>4. Ahead'
  BY <1>1 DEF IInv, TypeOK, OnSchedule, Ahead, Registered, Armed
<1>5. Marked'
  BY <1>1 DEF IInv, TypeOK, OnSchedule, Marked, Registered, Armed
<1>6. Quiet'
  BY <1>1 DEF IInv, TypeOK, OnSchedule, Quiet, Registered, Armed
<1>7. ASSUME ~overtaken' PROVE Solo'
  BY <1>7, <1>1 DEF IInv, TypeOK, OnSchedule, Quiet, Solo, Registered, Armed
<1> QED BY <1>2, <1>3, <1>4, <1>5, <1>6, <1>7 DEF IInv

LEMMA StopIInv ==
  ASSUME IInv, Stop
  PROVE  IInv'
<1> USE DEF Stop, flight, history
<1>1. Idle \in Timers
  BY DEF Idle, Timers
<1>2. TypeOK'
  <2>1. now' \in Nat /\ nextSlot' \in Nat /\ slotFired' \in Nat /\ manual' \in Nat
    BY <1>1 DEF IInv, TypeOK
  <2>2. ran' \subseteq Nat /\ ranAt' \in Nat /\ tasks' \in 0..MaxTasks
    BY <1>1, BoundsAssumption DEF IInv, TypeOK
  <2>3. runs' \subseteq [task : Tasks, slot : Nat]
    BY <1>1 DEF IInv, TypeOK
  <2>4. task' \in Tasks \cup {None} /\ timer' \in Timers
    BY <1>1 DEF IInv, TypeOK
  <2>5. phase' \in {"booting", "started", "stopped"} /\ running' \in BOOLEAN /\ overtaken' \in BOOLEAN
    BY <1>1 DEF IInv, TypeOK
  <2> QED BY <2>1, <2>2, <2>3, <2>4, <2>5 DEF TypeOK
<1>3. OnSchedule'
  BY <1>1 DEF IInv, TypeOK, OnSchedule, Quiet, Registered, Armed
<1>4. Ahead'
  BY <1>1 DEF IInv, TypeOK, OnSchedule, Ahead, Registered, Armed
<1>5. Marked'
  BY <1>1 DEF IInv, TypeOK, OnSchedule, Marked, Registered, Armed
<1>6. Quiet'
  BY <1>1 DEF IInv, TypeOK, OnSchedule, Quiet, Registered, Armed
<1>7. ASSUME ~overtaken' PROVE Solo'
  BY <1>7, <1>1 DEF IInv, TypeOK, OnSchedule, Quiet, Solo, Registered, Armed
<1> QED BY <1>2, <1>3, <1>4, <1>5, <1>6, <1>7 DEF IInv

LEMMA CrashIInv ==
  ASSUME IInv, Crash
  PROVE  IInv'
<1> USE DEF Crash, flight, history
<1>1. Idle \in Timers
  BY DEF Idle, Timers
<1>2. TypeOK'
  <2>1. now' \in Nat /\ nextSlot' \in Nat /\ slotFired' \in Nat /\ manual' \in Nat
    BY <1>1 DEF IInv, TypeOK
  <2>2. ran' \subseteq Nat /\ ranAt' \in Nat /\ tasks' \in 0..MaxTasks
    BY <1>1, BoundsAssumption DEF IInv, TypeOK
  <2>3. runs' \subseteq [task : Tasks, slot : Nat]
    BY <1>1 DEF IInv, TypeOK
  <2>4. task' \in Tasks \cup {None} /\ timer' \in Timers
    BY <1>1 DEF IInv, TypeOK
  <2>5. phase' \in {"booting", "started", "stopped"} /\ running' \in BOOLEAN /\ overtaken' \in BOOLEAN
    BY <1>1 DEF IInv, TypeOK
  <2> QED BY <2>1, <2>2, <2>3, <2>4, <2>5 DEF TypeOK
<1>3. OnSchedule'
  BY <1>1 DEF IInv, TypeOK, OnSchedule, Quiet, Registered, Armed
<1>4. Ahead'
  BY <1>1 DEF IInv, TypeOK, OnSchedule, Ahead, Registered, Armed
<1>5. Marked'
  BY <1>1 DEF IInv, TypeOK, OnSchedule, Marked, Registered, Armed
<1>6. Quiet'
  BY <1>1 DEF IInv, TypeOK, OnSchedule, Quiet, Registered, Armed
<1>7. ASSUME ~overtaken' PROVE Solo'
  BY <1>7, <1>1 DEF IInv, TypeOK, OnSchedule, Quiet, Solo, Registered, Armed
<1> QED BY <1>2, <1>3, <1>4, <1>5, <1>6, <1>7 DEF IInv

LEMMA TriggerIInv ==
  ASSUME IInv, Trigger
  PROVE  IInv'
<1> USE DEF Trigger, flight, history
<1>1. TypeOK'
  <2>1. now' \in Nat /\ nextSlot' \in Nat /\ slotFired' \in Nat /\ manual' \in Nat
    BY DEF IInv, TypeOK
  <2>2. ran' \subseteq Nat /\ ranAt' \in Nat /\ tasks' \in 0..MaxTasks
    BY BoundsAssumption DEF IInv, TypeOK
  <2>3. runs' \subseteq [task : Tasks, slot : Nat]
    BY DEF IInv, TypeOK
  <2>4. task' \in Tasks \cup {None} /\ timer' \in Timers
    BY DEF IInv, TypeOK
  <2>5. phase' \in {"booting", "started", "stopped"} /\ running' \in BOOLEAN /\ overtaken' \in BOOLEAN
    BY DEF IInv, TypeOK
  <2> QED BY <2>1, <2>2, <2>3, <2>4, <2>5 DEF TypeOK
<1>2. OnSchedule'
  BY DEF IInv, TypeOK, OnSchedule, Quiet, Registered, Armed
<1>3. Ahead'
  BY DEF IInv, TypeOK, OnSchedule, Ahead, Registered, Armed
<1>4. Marked'
  BY DEF IInv, TypeOK, OnSchedule, Marked, Registered, Armed
<1>5. Quiet'
  BY DEF IInv, TypeOK, OnSchedule, Quiet, Registered, Armed
<1>6. ASSUME ~overtaken' PROVE Solo'
  BY <1>6 DEF IInv, TypeOK, OnSchedule, Quiet, Solo, Registered, Armed
<1> QED BY <1>1, <1>2, <1>3, <1>4, <1>5, <1>6 DEF IInv

LEMMA EndManualIInv ==
  ASSUME IInv, EndManual
  PROVE  IInv'
<1> USE DEF EndManual, flight, history
<1>1. TypeOK'
  <2>1. now' \in Nat /\ nextSlot' \in Nat /\ slotFired' \in Nat /\ manual' \in Nat
    BY DEF IInv, TypeOK
  <2>2. ran' \subseteq Nat /\ ranAt' \in Nat /\ tasks' \in 0..MaxTasks
    BY BoundsAssumption DEF IInv, TypeOK
  <2>3. runs' \subseteq [task : Tasks, slot : Nat]
    BY DEF IInv, TypeOK
  <2>4. task' \in Tasks \cup {None} /\ timer' \in Timers
    BY DEF IInv, TypeOK
  <2>5. phase' \in {"booting", "started", "stopped"} /\ running' \in BOOLEAN /\ overtaken' \in BOOLEAN
    BY DEF IInv, TypeOK
  <2> QED BY <2>1, <2>2, <2>3, <2>4, <2>5 DEF TypeOK
<1>2. OnSchedule'
  BY DEF IInv, TypeOK, OnSchedule, Quiet, Registered, Armed
<1>3. Ahead'
  BY DEF IInv, TypeOK, OnSchedule, Ahead, Registered, Armed
<1>4. Marked'
  BY DEF IInv, TypeOK, OnSchedule, Marked, Registered, Armed
<1>5. Quiet'
  BY DEF IInv, TypeOK, OnSchedule, Quiet, Registered, Armed
<1>6. ASSUME ~overtaken' PROVE Solo'
  BY <1>6 DEF IInv, TypeOK, OnSchedule, Quiet, Solo, Registered, Armed
<1> QED BY <1>1, <1>2, <1>3, <1>4, <1>5, <1>6 DEF IInv

LEMMA EndRunIInv ==
  ASSUME IInv, NEW r \in runs, EndRun(r)
  PROVE  IInv'
<1> USE DEF EndRun, ArmIfStarted, flight, history
<1>1. r.task \in Tasks /\ slotFired \in Nat /\ now \in Nat
  BY DEF IInv, TypeOK
<1>2. phase = "started" /\ Registered =>
       /\ nextSlot' \in Nat /\ nextSlot' > now /\ nextSlot' > slotFired
       /\ timer' \in Timers /\ timer' # Idle
       /\ timer'.slot = nextSlot' /\ timer'.task = r.task /\ timer'.task \in Tasks
  BY <1>1, ArmFacts DEF EndRun, ArmIfStarted
<1>3. TypeOK'
  <2>1. now' \in Nat /\ nextSlot' \in Nat /\ slotFired' \in Nat /\ manual' \in Nat
    BY <1>1, <1>2 DEF IInv, TypeOK
  <2>2. ran' \subseteq Nat /\ ranAt' \in Nat /\ tasks' \in 0..MaxTasks
    BY <1>1, <1>2, BoundsAssumption DEF IInv, TypeOK
  <2>3. runs' \subseteq [task : Tasks, slot : Nat]
    BY <1>1, <1>2 DEF IInv, TypeOK
  <2>4. task' \in Tasks \cup {None} /\ timer' \in Timers
    BY <1>1, <1>2 DEF IInv, TypeOK
  <2>5. phase' \in {"booting", "started", "stopped"} /\ running' \in BOOLEAN /\ overtaken' \in BOOLEAN
    BY <1>1, <1>2 DEF IInv, TypeOK
  <2> QED BY <2>1, <2>2, <2>3, <2>4, <2>5 DEF TypeOK
<1>4. OnSchedule'
  BY <1>1, <1>2 DEF IInv, TypeOK, OnSchedule, Quiet, Registered, Armed
<1>5. Ahead'
  BY <1>1, <1>2 DEF IInv, TypeOK, OnSchedule, Ahead, Registered, Armed
<1>6. Marked'
  BY <1>1, <1>2 DEF IInv, TypeOK, OnSchedule, Marked, Registered, Armed
<1>7. Quiet'
  BY <1>1, <1>2 DEF IInv, TypeOK, OnSchedule, Quiet, Registered, Armed
<1>8. ASSUME ~overtaken' PROVE Solo'
  BY <1>8, <1>1, <1>2 DEF IInv, TypeOK, OnSchedule, Quiet, Solo, Registered, Armed
<1> QED BY <1>3, <1>4, <1>5, <1>6, <1>7, <1>8 DEF IInv

LEMMA StartIInv ==
  ASSUME IInv, Start
  PROVE  IInv'
<1> USE DEF Start, flight, history
<1>1. task \in Tasks \cup {None} /\ slotFired \in Nat /\ now \in Nat
  BY DEF IInv, TypeOK
<1>2. Registered =>
       /\ nextSlot' \in Nat /\ nextSlot' > now /\ nextSlot' > slotFired
       /\ timer' \in Timers /\ timer' # Idle
       /\ timer'.slot = nextSlot' /\ timer'.task = task /\ timer'.task \in Tasks
  BY <1>1, ArmFacts DEF Start
<1>3. TypeOK'
  <2>1. now' \in Nat /\ nextSlot' \in Nat /\ slotFired' \in Nat /\ manual' \in Nat
    BY <1>1, <1>2 DEF IInv, TypeOK
  <2>2. ran' \subseteq Nat /\ ranAt' \in Nat /\ tasks' \in 0..MaxTasks
    BY <1>1, <1>2, BoundsAssumption DEF IInv, TypeOK
  <2>3. runs' \subseteq [task : Tasks, slot : Nat]
    BY <1>1, <1>2 DEF IInv, TypeOK
  <2>4. task' \in Tasks \cup {None} /\ timer' \in Timers
    BY <1>1, <1>2 DEF IInv, TypeOK
  <2>5. phase' \in {"booting", "started", "stopped"} /\ running' \in BOOLEAN /\ overtaken' \in BOOLEAN
    BY <1>1, <1>2 DEF IInv, TypeOK
  <2> QED BY <2>1, <2>2, <2>3, <2>4, <2>5 DEF TypeOK
<1>4. OnSchedule'
  BY <1>1, <1>2 DEF IInv, TypeOK, OnSchedule, Quiet, Registered, Armed
<1>5. Ahead'
  BY <1>1, <1>2 DEF IInv, TypeOK, OnSchedule, Ahead, Registered, Armed
<1>6. Marked'
  BY <1>1, <1>2 DEF IInv, TypeOK, OnSchedule, Marked, Registered, Armed
<1>7. Quiet'
  BY <1>1, <1>2 DEF IInv, TypeOK, OnSchedule, Quiet, Registered, Armed
<1>8. ASSUME ~overtaken' PROVE Solo'
  BY <1>8, <1>1, <1>2 DEF IInv, TypeOK, OnSchedule, Quiet, Solo, Registered, Armed
<1> QED BY <1>3, <1>4, <1>5, <1>6, <1>7, <1>8 DEF IInv

LEMMA RegisterIInv ==
  ASSUME IInv, NEW g \in Grids, Register(g)
  PROVE  IInv'
<1> USE DEF Register, ArmIfStarted, flight, history
<1>1. task' \in Tasks /\ task' # None /\ now \in Nat /\ ~Armed
  BY BoundsAssumption DEF IInv, TypeOK, OnSchedule, Tasks, None, Registered
<1>2. phase = "started" =>
       /\ nextSlot' \in Nat /\ nextSlot' > now /\ nextSlot' > 0
       /\ timer' \in Timers /\ timer' # Idle
       /\ timer'.slot = nextSlot' /\ timer'.task = task' /\ timer'.task \in Tasks
  BY <1>1, ArmFacts DEF Register, ArmIfStarted
<1>3. TypeOK'
  <2>1. now' \in Nat /\ nextSlot' \in Nat /\ slotFired' \in Nat /\ manual' \in Nat
    BY <1>1, <1>2 DEF IInv, TypeOK
  <2>2. ran' \subseteq Nat /\ ranAt' \in Nat /\ tasks' \in 0..MaxTasks
    BY <1>1, <1>2, BoundsAssumption DEF IInv, TypeOK
  <2>3. runs' \subseteq [task : Tasks, slot : Nat]
    BY <1>1, <1>2 DEF IInv, TypeOK
  <2>4. task' \in Tasks \cup {None} /\ timer' \in Timers
    BY <1>1, <1>2 DEF IInv, TypeOK
  <2>5. phase' \in {"booting", "started", "stopped"} /\ running' \in BOOLEAN /\ overtaken' \in BOOLEAN
    BY <1>1, <1>2 DEF IInv, TypeOK
  <2> QED BY <2>1, <2>2, <2>3, <2>4, <2>5 DEF TypeOK
<1>4. OnSchedule'
  BY <1>1, <1>2 DEF IInv, TypeOK, OnSchedule, Quiet, Registered, Armed
<1>5. Ahead'
  BY <1>1, <1>2 DEF IInv, TypeOK, OnSchedule, Ahead, Registered, Armed
<1>6. Marked'
  BY <1>1, <1>2 DEF IInv, TypeOK, OnSchedule, Marked, Registered, Armed
<1>7. Quiet'
  BY <1>1, <1>2 DEF IInv, TypeOK, OnSchedule, Quiet, Registered, Armed
<1>8. ASSUME ~overtaken' PROVE Solo'
  BY <1>8, <1>1, <1>2 DEF IInv, TypeOK, OnSchedule, Quiet, Solo, Registered, Armed
<1> QED BY <1>3, <1>4, <1>5, <1>6, <1>7, <1>8 DEF IInv

LEMMA SlotIsOldIInv ==
  ASSUME IInv, NEW t \in Tasks \cup {None}, NEW s \in Nat, SlotIsOld(t, s), UNCHANGED <<now, phase, task>>, s = nextSlot, phase = "started", Registered, ~overtaken => t = task
  PROVE  IInv'
<1> USE DEF SlotIsOld, ArmIfStarted, flight, history
<1>1. slotFired \in Nat /\ now \in Nat
  BY DEF IInv, TypeOK
<1>2.  /\ nextSlot' \in Nat /\ nextSlot' > now /\ nextSlot' > slotFired
       /\ timer' \in Timers /\ timer' # Idle
       /\ timer'.slot = nextSlot' /\ timer'.task = t /\ timer'.task \in Tasks
  BY <1>1, ArmFacts DEF SlotIsOld, ArmIfStarted
<1>3. TypeOK'
  <2>1. now' \in Nat /\ nextSlot' \in Nat /\ slotFired' \in Nat /\ manual' \in Nat
    BY <1>1, <1>2 DEF IInv, TypeOK
  <2>2. ran' \subseteq Nat /\ ranAt' \in Nat /\ tasks' \in 0..MaxTasks
    BY <1>1, <1>2, BoundsAssumption DEF IInv, TypeOK
  <2>3. runs' \subseteq [task : Tasks, slot : Nat]
    BY <1>1, <1>2 DEF IInv, TypeOK
  <2>4. task' \in Tasks \cup {None} /\ timer' \in Timers
    BY <1>1, <1>2 DEF IInv, TypeOK
  <2>5. phase' \in {"booting", "started", "stopped"} /\ running' \in BOOLEAN /\ overtaken' \in BOOLEAN
    BY <1>1, <1>2 DEF IInv, TypeOK
  <2> QED BY <2>1, <2>2, <2>3, <2>4, <2>5 DEF TypeOK
<1>4. OnSchedule'
  BY <1>1, <1>2 DEF IInv, TypeOK, OnSchedule, Quiet, Registered, Armed
<1>5. Ahead'
  BY <1>1, <1>2 DEF IInv, TypeOK, OnSchedule, Ahead, Registered, Armed
<1>6. Marked'
  BY <1>1, <1>2 DEF IInv, TypeOK, OnSchedule, Marked, Registered, Armed
<1>7. Quiet'
  BY <1>1, <1>2 DEF IInv, TypeOK, OnSchedule, Quiet, Registered, Armed
<1>8. ASSUME ~overtaken' PROVE Solo'
  BY <1>8, <1>1, <1>2 DEF IInv, TypeOK, OnSchedule, Quiet, Solo, Registered, Armed
<1> QED BY <1>3, <1>4, <1>5, <1>6, <1>7, <1>8 DEF IInv

LEMMA LooksAgainIInv ==
  ASSUME IInv, NEW t \in Tasks \cup {None}, ArmIfStarted(t, slotFired), UNCHANGED <<now, phase, task, slotFired, running, flight, history>>, phase = "started", Registered, ~overtaken => t = task
  PROVE  IInv'
<1> USE DEF ArmIfStarted, flight, history
<1>1. slotFired \in Nat /\ now \in Nat
  BY DEF IInv, TypeOK
<1>2.  /\ nextSlot' \in Nat /\ nextSlot' > now /\ nextSlot' > slotFired
       /\ timer' \in Timers /\ timer' # Idle
       /\ timer'.slot = nextSlot' /\ timer'.task = t /\ timer'.task \in Tasks
  BY <1>1, ArmFacts DEF ArmIfStarted
<1>3. TypeOK'
  <2>1. now' \in Nat /\ nextSlot' \in Nat /\ slotFired' \in Nat /\ manual' \in Nat
    BY <1>1, <1>2 DEF IInv, TypeOK
  <2>2. ran' \subseteq Nat /\ ranAt' \in Nat /\ tasks' \in 0..MaxTasks
    BY <1>1, <1>2, BoundsAssumption DEF IInv, TypeOK
  <2>3. runs' \subseteq [task : Tasks, slot : Nat]
    BY <1>1, <1>2 DEF IInv, TypeOK
  <2>4. task' \in Tasks \cup {None} /\ timer' \in Timers
    BY <1>1, <1>2 DEF IInv, TypeOK
  <2>5. phase' \in {"booting", "started", "stopped"} /\ running' \in BOOLEAN /\ overtaken' \in BOOLEAN
    BY <1>1, <1>2 DEF IInv, TypeOK
  <2> QED BY <2>1, <2>2, <2>3, <2>4, <2>5 DEF TypeOK
<1>4. OnSchedule'
  BY <1>1, <1>2 DEF IInv, TypeOK, OnSchedule, Quiet, Registered, Armed
<1>5. Ahead'
  BY <1>1, <1>2 DEF IInv, TypeOK, OnSchedule, Ahead, Registered, Armed
<1>6. Marked'
  BY <1>1, <1>2 DEF IInv, TypeOK, OnSchedule, Marked, Registered, Armed
<1>7. Quiet'
  BY <1>1, <1>2 DEF IInv, TypeOK, OnSchedule, Quiet, Registered, Armed
<1>8. ASSUME ~overtaken' PROVE Solo'
  BY <1>8, <1>1, <1>2 DEF IInv, TypeOK, OnSchedule, Quiet, Solo, Registered, Armed
<1> QED BY <1>3, <1>4, <1>5, <1>6, <1>7, <1>8 DEF IInv

LEMMA SlotOverlapsIInv ==
  ASSUME IInv, NEW t \in Tasks \cup {None}, NEW s \in Nat, SlotOverlaps(t, s), UNCHANGED <<now, phase, task>>, s = nextSlot, phase = "started", Registered, ~overtaken => t = task
  PROVE  IInv'
<1> USE DEF SlotOverlaps, ArmIfStarted, flight, history
<1>1. slotFired \in Nat /\ now \in Nat
  BY DEF IInv, TypeOK
<1>2.  /\ nextSlot' \in Nat /\ nextSlot' > now /\ nextSlot' > s
       /\ timer' \in Timers /\ timer' # Idle
       /\ timer'.slot = nextSlot' /\ timer'.task = t /\ timer'.task \in Tasks
  BY <1>1, ArmFacts DEF SlotOverlaps, ArmIfStarted
<1>3. TypeOK'
  <2>1. now' \in Nat /\ nextSlot' \in Nat /\ slotFired' \in Nat /\ manual' \in Nat
    BY <1>1, <1>2 DEF IInv, TypeOK
  <2>2. ran' \subseteq Nat /\ ranAt' \in Nat /\ tasks' \in 0..MaxTasks
    BY <1>1, <1>2, BoundsAssumption DEF IInv, TypeOK
  <2>3. runs' \subseteq [task : Tasks, slot : Nat]
    BY <1>1, <1>2 DEF IInv, TypeOK
  <2>4. task' \in Tasks \cup {None} /\ timer' \in Timers
    BY <1>1, <1>2 DEF IInv, TypeOK
  <2>5. phase' \in {"booting", "started", "stopped"} /\ running' \in BOOLEAN /\ overtaken' \in BOOLEAN
    BY <1>1, <1>2 DEF IInv, TypeOK
  <2> QED BY <2>1, <2>2, <2>3, <2>4, <2>5 DEF TypeOK
<1>4. OnSchedule'
  BY <1>1, <1>2 DEF IInv, TypeOK, OnSchedule, Quiet, Registered, Armed
<1>5. Ahead'
  BY <1>1, <1>2 DEF IInv, TypeOK, OnSchedule, Ahead, Registered, Armed
<1>6. Marked'
  BY <1>1, <1>2 DEF IInv, TypeOK, OnSchedule, Marked, Registered, Armed
<1>7. Quiet'
  BY <1>1, <1>2 DEF IInv, TypeOK, OnSchedule, Quiet, Registered, Armed
<1>8. ASSUME ~overtaken' PROVE Solo'
  BY <1>8, <1>1, <1>2 DEF IInv, TypeOK, OnSchedule, Quiet, Solo, Registered, Armed
<1> QED BY <1>3, <1>4, <1>5, <1>6, <1>7, <1>8 DEF IInv

LEMMA SlotRunsIInv ==
  ASSUME IInv, NEW t \in Tasks, NEW s \in Nat, SlotRuns(t, s), timer' \in {timer, Idle}, UNCHANGED <<now, phase, task>>, s = nextSlot, phase = "started", Registered, ~overtaken => t = task
  PROVE  IInv'
<1> USE DEF SlotRuns, flight, history
<1>1. Idle \in Timers
  BY DEF Idle, Timers
<1>2. TypeOK'
  <2>1. now' \in Nat /\ nextSlot' \in Nat /\ slotFired' \in Nat /\ manual' \in Nat
    BY <1>1 DEF IInv, TypeOK
  <2>2. ran' \subseteq Nat /\ ranAt' \in Nat /\ tasks' \in 0..MaxTasks
    BY <1>1, BoundsAssumption DEF IInv, TypeOK
  <2>3. runs' \subseteq [task : Tasks, slot : Nat]
    BY <1>1 DEF IInv, TypeOK
  <2>4. task' \in Tasks \cup {None} /\ timer' \in Timers
    BY <1>1 DEF IInv, TypeOK
  <2>5. phase' \in {"booting", "started", "stopped"} /\ running' \in BOOLEAN /\ overtaken' \in BOOLEAN
    BY <1>1 DEF IInv, TypeOK
  <2> QED BY <2>1, <2>2, <2>3, <2>4, <2>5 DEF TypeOK
<1>3. OnSchedule'
  BY <1>1 DEF IInv, TypeOK, OnSchedule, Quiet, Registered, Armed
<1>4. Ahead'
  BY <1>1 DEF IInv, TypeOK, OnSchedule, Ahead, Registered, Armed
<1>5. Marked'
  BY <1>1 DEF IInv, TypeOK, OnSchedule, Marked, Registered, Armed
<1>6. Quiet'
  BY <1>1 DEF IInv, TypeOK, OnSchedule, Quiet, Registered, Armed
<1>7. ASSUME ~overtaken' PROVE Solo'
  BY <1>7, <1>1 DEF IInv, TypeOK, OnSchedule, Quiet, Solo, Registered, Armed
<1> QED BY <1>2, <1>3, <1>4, <1>5, <1>6, <1>7 DEF IInv

LEMMA NextIInv == IInv /\ [Next]_vars => IInv'
<1> SUFFICES ASSUME IInv, [Next]_vars PROVE IInv'
  OBVIOUS
<1>0. Armed => /\ phase = "started" /\ Registered
               /\ timer.task \in Tasks /\ timer.slot = nextSlot /\ timer.slot \in Nat
               /\ ~overtaken => timer.task = task
  BY DEF IInv, TypeOK, Timers, OnSchedule, Ahead, Solo
<1>1. CASE TimerFires
  <2>1. CASE SlotIsOld(timer.task, timer.slot)
    BY <1>0, <1>1, <2>1, SlotIsOldIInv DEF TimerFires
  <2>2. CASE SlotOverlaps(timer.task, timer.slot)
    BY <1>0, <1>1, <2>2, SlotOverlapsIInv DEF TimerFires
  <2>3. CASE SlotRuns(timer.task, timer.slot) /\ timer' = Idle
    BY <1>0, <1>1, <2>3, SlotRunsIInv DEF TimerFires
  <2> QED BY <1>1, <2>1, <2>2, <2>3 DEF TimerFires
<1>2. CASE TimerLooksAgain
  BY <1>0, <1>2, LooksAgainIInv DEF TimerLooksAgain
<1>3. CASE Watchdog
  <2>1. task \in Tasks /\ nextSlot \in Nat
    BY <1>3 DEF Watchdog, IInv, TypeOK, Registered
  <2>2. CASE SlotOverlaps(task, nextSlot)
    BY <1>3, <2>1, <2>2, SlotOverlapsIInv DEF Watchdog
  <2>3. CASE SlotRuns(task, nextSlot) /\ UNCHANGED timer
    BY <1>3, <2>1, <2>3, SlotRunsIInv DEF Watchdog
  <2> QED BY <1>3, <2>2, <2>3 DEF Watchdog
<1>4. CASE UNCHANGED vars
  BY <1>4 DEF vars, flight, history, IInv, TypeOK, OnSchedule, Ahead, Marked, Quiet, Solo, Registered, Armed
<1> QED
  BY <1>1, <1>2, <1>3, <1>4, PassIInv, UnregisterIInv, StopIInv, CrashIInv, TriggerIInv, EndManualIInv,
     EndRunIInv, StartIInv, RegisterIInv
  DEF Next

THEOREM Invariance == Spec => []IInv
<1> QED BY InitIInv, NextIInv, PTL DEF Spec

\* Type correctness of the task and its books.
THEOREM TypeCorrect == Spec => []TypeOK
<1>1. IInv => TypeOK BY DEF IInv
<1> QED BY <1>1, Invariance, PTL

\* A task of a started runner is always on the schedule; nothing is pending for any other.
THEOREM StaysOnSchedule == Spec => []OnSchedule
<1>1. IInv => OnSchedule BY DEF IInv
<1> QED BY <1>1, Invariance, PTL

\* The overlap guard keeps the runs of a task apart unless it is registered anew under one.
THEOREM RunsApart == Spec => []NoReentry
<1>1. IInv => NoReentry
  <2> SUFFICES ASSUME IInv, ~overtaken PROVE Cardinality(runs) + manual <= 1
    BY DEF NoReentry
  <2>1. CASE runs = {} /\ manual \in {0, 1}
    BY <2>1, FS_EmptySet
  <2>2. CASE manual = 0 /\ \E r \in runs : runs = {r}
    <3>1. PICK r \in runs : runs = {r}
      BY <2>2
    <3>2. Cardinality(runs) = 1
      BY <3>1, FS_Singleton
    <3> QED BY <2>2, <3>2
  <2> QED BY <2>1, <2>2 DEF IInv, Solo
<1> QED BY <1>1, Invariance, PTL

\* Where a run comes from: the timer or the watchdog, for the slot that is next and was not fired.
LEMMA StartFacts ==
  ASSUME IInv, [Next]_vars, NEW r \in Starting
  PROVE  /\ phase = "started" /\ Registered
         /\ r.slot = nextSlot /\ nextSlot > slotFired
         /\ ~overtaken => r.task = task
<1> USE DEF Starting
<1>1. CASE TimerFires
  <2>1. SlotRuns(timer.task, timer.slot)
    BY <1>1 DEF TimerFires, SlotIsOld, SlotOverlaps, flight
  <2>2. r = [task |-> timer.task, slot |-> timer.slot] /\ timer.slot > slotFired
    BY <2>1 DEF SlotRuns
  <2> QED BY <1>1, <2>2 DEF TimerFires, IInv, OnSchedule, Ahead, Solo
<1>2. CASE Watchdog
  <2>1. SlotRuns(task, nextSlot)
    BY <1>2 DEF Watchdog, SlotOverlaps, flight
  <2>2. r = [task |-> task, slot |-> nextSlot] /\ nextSlot > slotFired
    BY <2>1 DEF SlotRuns
  <2> QED BY <1>2, <2>2 DEF Watchdog
<1>3. CASE UNCHANGED vars
  BY <1>3 DEF vars, flight
<1>4. ASSUME NEW q \in runs, EndRun(q) PROVE FALSE
  BY <1>4 DEF EndRun
<1>5. ASSUME NEW g \in Grids, Register(g) PROVE FALSE
  BY <1>5 DEF Register, flight
<1> QED
  BY <1>1, <1>2, <1>3, <1>4, <1>5
  DEF Next, Pass, Unregister, Start, TimerLooksAgain, Trigger, EndManual, Stop, Crash, flight

\* A slot runs at most once in a registration.
THEOREM RunsOnce == Spec => SlotOnce
<1>1. IInv /\ [Next]_vars => [\A r \in Starting : r.slot \notin ran]_vars
  <2> SUFFICES ASSUME IInv, [Next]_vars, NEW r \in Starting PROVE r.slot \notin ran
    OBVIOUS
  <2>1. phase = "started" /\ Registered /\ r.slot > slotFired /\ r.slot \in Nat
    BY StartFacts DEF IInv, TypeOK
  <2>2. \A s \in ran : s <= slotFired
    BY <2>1 DEF IInv, Marked
  <2> QED BY <2>1, <2>2 DEF IInv, TypeOK
<1> QED BY <1>1, Invariance, PTL DEF Spec, SlotOnce

\* Slots that were due when a run started are never run.
THEOREM MergesLate == Spec => MergedOnce
<1>1. IInv /\ [Next]_vars => [\A r \in Starting : r.slot > ranAt]_vars
  <2> SUFFICES ASSUME IInv, [Next]_vars, NEW r \in Starting PROVE r.slot > ranAt
    OBVIOUS
  <2>1. r.slot = nextSlot /\ nextSlot > slotFired
    BY StartFacts
  <2> QED BY <2>1 DEF IInv, TypeOK, Ahead
<1> QED BY <1>1, Invariance, PTL DEF Spec, MergedOnce

\* Slots run once, and late ones are merged.
THEOREM FiresOnce == Spec => FiredOnce
<1>1. [\A r \in Starting : r.slot \notin ran]_vars /\ [\A r \in Starting : r.slot > ranAt]_vars
        => [\A r \in Starting : r.slot \notin ran /\ r.slot > ranAt]_vars
  OBVIOUS
<1> QED BY <1>1, RunsOnce, MergesLate, PTL DEF SlotOnce, MergedOnce, FiredOnce

\* What runs is the registered definition, unless it replaced one under a run.
THEOREM RunsCurrent == Spec => CurrentRuns
<1>1. IInv /\ [Next]_vars => [\A r \in Starting : r.task = task \/ overtaken]_vars
  <2> SUFFICES ASSUME IInv, [Next]_vars, NEW r \in Starting, ~overtaken PROVE r.task = task
    OBVIOUS
  <2> QED BY StartFacts
<1> QED BY <1>1, Invariance, PTL DEF Spec, CurrentRuns
=============================================================================
