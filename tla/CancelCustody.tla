----------------------------- MODULE CancelCustody -----------------------------
(***************************************************************************)
(* Stopping a cat while its CLI session is in use: the tracker, the        *)
(* session lock and the runners between them.                              *)
(*                                                                         *)
(* A run executes one cat.  Its runner (invokeSingleCat) takes the lock of *)
(* the cat's CLI session, resumes the session, and releases the lock in    *)
(* its finally block; only then does its route complete the slot.  The     *)
(* cancel handlers of SocketManager and of the queue routes stop the slot  *)
(* in the tracker and, in the same tick, force-release the locks of the    *)
(* scope they stopped, except those of the executions the tracker says it  *)
(* just stopped.                                                           *)
(***************************************************************************)
EXTENDS Integers, FiniteSets

CONSTANTS Cats, Runs, CatOf, Thread, User, AnyCat, NoSlot, NoOwner, None

VARIABLES slot, deleting, sealing, admitted, parked, gate, phase, final,
          doneCats, stopped,                                     \* the tracker
          held, waiters, arrival, arrivals, status, aborted      \* the lock

Tracker == INSTANCE InvocationTracker
             WITH Users <- {User}, Single <- {},
                  TargetsOf <- [r \in Runs |-> {CatOf[r]}],
                  UserOf <- [r \in Runs |-> User]

\* The key of a cat's lock is the CLI session of the cat in the thread.
Mutex == INSTANCE SessionMutex
           WITH Requests <- Runs, Sessions <- Cats, SessionOf <- CatOf,
                OwnerOf <- [r \in Runs |-> [thread |-> Thread, user |-> User,
                                            cat |-> CatOf[r], execution |-> r]],
                Scopes <- [thread : {Thread}, user : {User}, cat : Cats \union {AnyCat}],
                Executions <- Runs

\* A scope without a catId names no cat, every acquisition has an owner, and a
\* slot or a lock that is not there is not one.
ASSUME CustodyAssumption ==
    /\ CatOf \in [Runs -> Cats]
    /\ AnyCat \notin Cats
    /\ None \notin Runs
    /\ NoSlot \notin Tracker!Slots
    /\ NoOwner \notin [thread : {Thread}, user : {User}, cat : Cats, execution : Runs]

trackerVars == <<slot, deleting, sealing, admitted, parked, gate, phase, final,
                 doneCats, stopped>>
mutexVars == <<held, waiters, arrival, arrivals, status, aborted>>
vars == <<trackerVars, mutexVars>>

Init == Tracker!Init /\ Mutex!Init

-----------------------------------------------------------------------------
Scope(cat) == [thread |-> Thread, user |-> User, cat |-> cat]

\* An idle thread is claimed; what is overwritten is at most a tombstone, whose
\* controller fired when it was stopped.
Dispatch(r) ==
    /\ Tracker!TryStartThread(r)
    /\ UNCHANGED mutexVars

\* The InvocationRecord exists: the slot learns the run's executionId, and the
\* route starts.
Bind(r) ==
    /\ Tracker!BindExecutionId(r)
    /\ slot' # slot
    /\ UNCHANGED mutexVars

\* The runner asks for the session of its cat, queues behind another run, or
\* finds its signal fired.
AcquireSession(r) ==
    /\ phase[r] = "running"
    /\ Tracker!BelongsTo(CatOf[r], r) => slot[CatOf[r]].bound
    /\ Mutex!Acquire(r)
    /\ UNCHANGED trackerVars

\* The runner's finally block.
ReleaseSession(r) ==
    /\ phase[r] = "running"
    /\ Mutex!Release(r)
    /\ UNCHANGED trackerVars

\* The route ends once its runner did.
EndRoute(r) ==
    /\ status[r] \in {"finished", "rejected"}
    /\ Tracker!CompleteA2ASlots(r) \/ Tracker!CompleteAll(r)
    /\ UNCHANGED mutexVars

\* The provider dies without a word: neither finally block runs.
LoseRunner(r) ==
    /\ status[r] = "running"
    /\ Tracker!Lose(r)
    /\ UNCHANGED mutexVars

Reap(r) ==
    /\ Tracker!ReleaseTerminalByExecutionId(r, CatOf[r])
    /\ UNCHANGED mutexVars

-----------------------------------------------------------------------------
\* abort() reaches the runner in the same tick: one that queues for its session
\* leaves the queue, as every waiter of the scope does.
ForceRelease(cat, preserved, fired) ==
    /\ Mutex!ForceReleaseByScope(Scope(cat), preserved)
    /\ aborted' = aborted \union fired

\* The executions the tracker reports for the slots it stopped.
Executions(cats) == {slot[c].run : c \in {d \in cats : slot[d].bound}}

\* Broken form: the lock is left to whoever holds it.
StopCatKeepsLock(c) ==
    /\ slot[c] # NoSlot
    /\ Tracker!Cancel(c, User)
    /\ aborted' = aborted \union {slot[c].run}
    /\ UNCHANGED <<held, waiters, arrival, arrivals, status>>

\* Broken form: the executions just stopped are not preserved.
StopAllForgetsExecutions ==
    /\ \E c \in Cats : Tracker!Active(c)
    /\ Tracker!CancelAll(User)
    /\ ForceRelease(AnyCat, {}, {slot[c].run : c \in {d \in Cats : Tracker!Active(d)}})

\* Stop on one cat.  cancel() names the execution of a tombstone again; a cat
\* without a slot leaves only the lock to recover.
StopCat(c) ==
    IF slot[c] = NoSlot
    THEN /\ ForceRelease(c, {}, {})
         /\ UNCHANGED trackerVars
    ELSE /\ Tracker!Cancel(c, User)
         /\ ForceRelease(c, Executions({c}), {slot[c].run})

\* Stop all.  cancelAll() names the executions of active slots.
StopAll ==
    LET active == {c \in Cats : Tracker!Active(c)}
    IN  /\ IF active = {} THEN UNCHANGED trackerVars ELSE Tracker!CancelAll(User)
        /\ ForceRelease(AnyCat, Executions(active), {slot[c].run : c \in active})

Next ==
    \/ \E r \in Runs : \/ Dispatch(r) \/ Bind(r) \/ AcquireSession(r) \/ ReleaseSession(r)
                       \/ EndRoute(r) \/ LoseRunner(r) \/ Reap(r)
    \/ \E c \in Cats : StopCat(c)
    \/ StopAll

Spec == Init /\ [][Next]_vars

-----------------------------------------------------------------------------
\* Who resumes a session now: runners between acquire() and their finally.
Resuming(c) ==
    {r \in Runs : CatOf[r] = c /\ status[r] = "running" /\ phase[r] = "running"}

\* A run that has not been stopped keeps its session: a Stop takes locks from
\* runners that are gone or stopped before, never from the one at work.
ActiveRunKeepsSession ==
    [][\A c \in Cats : held[c] # None /\ held'[c] # held[c] =>
          \/ status'[held[c]] = "finished"
          \/ ~(Tracker!BelongsTo(c, held[c]) /\ Tracker!Active(c))]_vars

\* The session of a dead provider is recovered.  Neither finally block of a lost
\* run ever runs, and the first Stop preserves its lock, because the tracker
\* still lists the run as the execution it has just stopped.  The lock comes free
\* for a user who presses Stop all again; and for one who presses Stop on the cat
\* again once the reaper has proved the run terminal.
SessionsRecovered ==
    \A r \in Runs :
        (held[CatOf[r]] = r /\ phase[r] = "lost") ~> held[CatOf[r]] # r

DeadRunRecovered ==
    /\ WF_vars(StopAll) => SessionsRecovered
    /\ (\A c \in Cats : WF_vars(StopCat(c))) /\ (\A r \in Runs : WF_vars(Reap(r)))
         => SessionsRecovered

\* invokeSingleCat (F118): "the same cliSessionId must not be resumed by two
\* conversations concurrently".
NoConcurrentResume == \A c \in Cats : Cardinality(Resuming(c)) <= 1
=============================================================================
