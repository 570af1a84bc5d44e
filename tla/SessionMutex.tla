----------------------------- MODULE SessionMutex -----------------------------
(***************************************************************************)
(* The process-level lock that serialises `resume' of one CLI session      *)
(* (F118): invocation/SessionMutex.ts.  A request is one call of           *)
(* acquire(); it stands for the caller's promise, for the release closure  *)
(* it is handed, and for the per-acquisition token (a Symbol in the code)  *)
(* that tells this acquisition's closure from any other.                   *)
(*                                                                         *)
(* A queue of waiters is the set of its members with the order they came   *)
(* in (`arrival'); the code keeps the same order in an array.              *)
(***************************************************************************)
EXTENDS Integers, FiniteSets

CONSTANTS
    Requests,     \* calls of acquire()
    Sessions,     \* the keys that are locked
    SessionOf,    \* the key a request asks for
    OwnerOf,      \* its SessionLockOwner, or NoOwner for a string-only caller
    Scopes,       \* the scopes a reset or a cancel may name
    Executions,   \* parent execution identities
    AnyCat,       \* the catId of a scope that names none
    NoOwner,
    None          \* no holder

ASSUME RequestAssumption ==
    /\ SessionOf \in [Requests -> Sessions]
    /\ None \notin Requests
    /\ \A r \in Requests :
         OwnerOf[r] # NoOwner => OwnerOf[r].execution \in Executions

VARIABLES
    held,      \* session -> the request whose token the lock carries, or None
    waiters,   \* session -> the requests queued behind the holder
    arrival,   \* request -> its place in the order of queueing
    arrivals,  \* how many requests have queued so far
    status,    \* request -> what its caller has seen of it
    aborted    \* requests whose AbortSignal has fired

vars == <<held, waiters, arrival, arrivals, status, aborted>>

Statuses == {"idle", "waiting", "running", "finished", "rejected"}

TypeOK ==
    /\ held \in [Sessions -> Requests \union {None}]
    /\ waiters \in [Sessions -> SUBSET Requests]
    /\ arrival \in [Requests -> Nat]
    /\ arrivals \in Nat
    /\ status \in [Requests -> Statuses]
    /\ aborted \in SUBSET Requests

Init ==
    /\ held = [s \in Sessions |-> None]
    /\ waiters = [s \in Sessions |-> {}]
    /\ arrival = [r \in Requests |-> 0]
    /\ arrivals = 0
    /\ status = [r \in Requests |-> "idle"]
    /\ aborted = {}

-----------------------------------------------------------------------------
\* matchesScope: a string-only lock has no owner and matches no scope.
Matches(r, scope) ==
    /\ OwnerOf[r] # NoOwner
    /\ OwnerOf[r].thread = scope.thread
    /\ OwnerOf[r].user = scope.user
    /\ scope.cat \in {AnyCat, OwnerOf[r].cat}

IsOldest(r, queue) ==
    /\ r \in queue
    /\ \A q \in queue : arrival[r] <= arrival[q]

\* Resolving a promise that is already settled tells its caller nothing.
Resolved(r) == IF status[r] = "waiting" THEN "running" ELSE status[r]

\* Broken form: the waiter that came last is served.
DrainNewest(queue) ==
    IF queue = {} THEN None
    ELSE CHOOSE r \in queue : \A q \in queue : arrival[r] >= arrival[q]

\* drainNext: who holds a session once its holder is gone and `queue' waits.
DrainNext(queue) ==
    IF queue = {} THEN None ELSE CHOOSE r \in queue : IsOldest(r, queue)

-----------------------------------------------------------------------------
\* Broken forms of the operations below, each the slip a change could make;
\* every property is violated by one of them.
ReleaseWithoutToken(r) ==     \* the closure frees whatever holder it finds
    LET s == SessionOf[r]
        next == DrainNext(waiters[s])
    IN  /\ status[r] = "running"
        /\ held' = [held EXCEPT ![s] = next]
        /\ waiters' = [waiters EXCEPT ![s] = @ \ {next}]
        /\ status' = [q \in Requests |-> CASE q = r -> "finished"
                                          [] q = next -> Resolved(q)
                                          [] OTHER -> status[q]]
        /\ UNCHANGED <<arrival, arrivals, aborted>>

ReleaseWithoutDrain(r) ==     \* the lock is freed, the queue not woken
    /\ status[r] = "running"
    /\ held' = IF held[SessionOf[r]] = r
                 THEN [held EXCEPT ![SessionOf[r]] = None] ELSE held
    /\ status' = [status EXCEPT ![r] = "finished"]
    /\ UNCHANGED <<waiters, arrival, arrivals, aborted>>

ReleasePassesQueue(r) ==      \* the queue itself becomes the holder
    /\ status[r] = "running"
    /\ held' = [held EXCEPT ![SessionOf[r]] = waiters[SessionOf[r]]]
    /\ status' = [status EXCEPT ![r] = "finished"]
    /\ UNCHANGED <<waiters, arrival, arrivals, aborted>>

\* acquire() with a signal that has fired throws before anything else.
AcquireAborted(r) ==
    /\ status[r] = "idle"
    /\ r \in aborted
    /\ status' = [status EXCEPT ![r] = "rejected"]
    /\ UNCHANGED <<held, waiters, arrival, arrivals, aborted>>

AcquireFree(r) ==
    /\ status[r] = "idle"
    /\ r \notin aborted
    /\ held[SessionOf[r]] = None
    /\ held' = [held EXCEPT ![SessionOf[r]] = r]
    /\ status' = [status EXCEPT ![r] = "running"]
    /\ UNCHANGED <<waiters, arrival, arrivals, aborted>>

AcquireContended(r) ==
    /\ status[r] = "idle"
    /\ r \notin aborted
    /\ held[SessionOf[r]] # None
    /\ waiters' = [waiters EXCEPT ![SessionOf[r]] = @ \union {r}]
    /\ arrival' = [arrival EXCEPT ![r] = arrivals + 1]
    /\ arrivals' = arrivals + 1
    /\ status' = [status EXCEPT ![r] = "waiting"]
    /\ UNCHANGED <<held, aborted>>

\* The signal fires.  Only a queued waiter still listens: the listener is
\* removed when the waiter is resolved or force-released.
Abort(r) ==
    /\ r \notin aborted
    /\ aborted' = aborted \union {r}
    /\ IF status[r] = "waiting"
         THEN /\ waiters' = [waiters EXCEPT ![SessionOf[r]] = @ \ {r}]
              /\ status' = [status EXCEPT ![r] = "rejected"]
         ELSE UNCHANGED <<waiters, status>>
    /\ UNCHANGED <<held, arrival, arrivals>>

\* The holder's closure: it frees the lock only while the lock still carries
\* its token, and hands it to the waiter that came first.
Release(r) ==
    LET s == SessionOf[r]
        next == DrainNext(waiters[s])
    IN  /\ status[r] = "running"
        /\ IF held[s] # r
             THEN /\ status' = [status EXCEPT ![r] = "finished"]
                  /\ UNCHANGED <<held, waiters>>
             ELSE /\ held' = [held EXCEPT ![s] = next]
                  /\ waiters' = [waiters EXCEPT ![s] = @ \ {next}]
                  /\ status' = [q \in Requests |->
                                  CASE q = r -> "finished"
                                    [] q = next -> Resolved(q)
                                    [] OTHER -> status[q]]
        /\ UNCHANGED <<arrival, arrivals, aborted>>

\* forceReleaseByScope: every queued request in scope is rejected, then every
\* holder in scope that no preserved execution owns loses its lock to the
\* oldest survivor.
Survivors(scope) ==
    [s \in Sessions |-> {r \in waiters[s] : ~Matches(r, scope)}]

Evicted(scope, preserved) ==
    {s \in Sessions : /\ held[s] # None
                      /\ Matches(held[s], scope)
                      /\ OwnerOf[held[s]].execution \notin preserved}

ForceReleaseByScope(scope, preserved) ==
    LET left == Survivors(scope)
        evicted == Evicted(scope, preserved)
        next == [s \in evicted |-> DrainNext(left[s])]
    IN  /\ held' = [s \in Sessions |->
                      IF s \in evicted THEN next[s] ELSE held[s]]
        /\ waiters' = [s \in Sessions |->
                         IF s \in evicted THEN left[s] \ {next[s]}
                                          ELSE left[s]]
        /\ status' = [r \in Requests |->
             LET s == SessionOf[r]
             IN  CASE r \in waiters[s] \ left[s] -> "rejected"
                   [] s \in evicted /\ r \in left[s] /\ next[s] = r -> Resolved(r)
                   [] OTHER -> status[r]]
        /\ UNCHANGED <<arrival, arrivals>>

ForceRelease(scope, preserved) ==
    ForceReleaseByScope(scope, preserved) /\ UNCHANGED aborted

-----------------------------------------------------------------------------
Acquire(r) == AcquireAborted(r) \/ AcquireFree(r) \/ AcquireContended(r)

Next ==
    \/ \E r \in Requests : Acquire(r) \/ Abort(r) \/ Release(r)
    \/ \E scope \in Scopes, preserved \in SUBSET Executions :
         ForceRelease(scope, preserved)

Spec == Init /\ [][Next]_vars

\* invokeSingleCat runs every closure it was handed in its finally block.
Fairness == \A r \in Requests : WF_vars(Release(r))

FairSpec == Spec /\ Fairness

-----------------------------------------------------------------------------
\* Whoever holds a lock is a caller that has not released yet, on its own
\* session: a lock whose closure already ran, or that went to an aborted or
\* rejected waiter, would never be freed again.
HolderIsLive ==
    \A s \in Sessions : held[s] # None =>
        /\ SessionOf[held[s]] = s
        /\ status[held[s]] = "running"

\* A queue holds exactly the callers whose acquire() is still pending.
QueueIsPending ==
    \A r \in Requests, s \in Sessions :
        r \in waiters[s] <=> (status[r] = "waiting" /\ SessionOf[r] = s)

\* Nobody waits for a free lock: acquire() and every hand-over leave no waiter
\* behind that no later release would wake.
NoLostWakeup ==
    \A s \in Sessions : waiters[s] # {} => held[s] # None

\* The lock neither strands on a settled caller nor lets its waiters sleep in
\* front of it: whoever waits depends on a release that will come.
LockIsLive == HolderIsLive /\ NoLostWakeup

\* A queue is a sequence: no two of its members came at the same moment.
ArrivalOrder ==
    \A s \in Sessions : \A r \in waiters[s] :
        /\ arrival[r] <= arrivals
        /\ \A q \in waiters[s] : arrival[q] = arrival[r] => q = r

\* What a step takes away, and whose release closure it runs.
Losing == {s \in Sessions : held[s] # None /\ held'[s] # held[s]}

Ends(r) == status[r] = "running" /\ status'[r] = "finished"

\* Who may hold the lock next: a release closure takes the lock of its own
\* acquisition and no other, so the closure of a caller that was force-released
\* leaves its successor alone; and without a closure only a force release takes
\* locks, all of them in its scope, and it answers every waiter of that scope.
HandOverStep ==
    Losing # {} =>
        \/ \E r \in Requests : Ends(r) /\ held[SessionOf[r]] = r /\ Losing = {SessionOf[r]}
        \/ /\ \A r \in Requests : ~Ends(r)
           /\ \E scope \in Scopes :
                /\ \A s \in Losing : Matches(held[s], scope)
                /\ \A r \in Requests : status[r] = "waiting" /\ Matches(r, scope) =>
                                         status'[r] = "rejected"

HandOver == [][HandOverStep]_vars

\* The lock goes to the waiter that came first among those still waiting.
FirstComeStep ==
    \A s \in Sessions :
        held'[s] # held[s] /\ held'[s] \in waiters[s] =>
          \A q \in waiters[s] \ {held'[s]} :
            status'[q] = "waiting" => arrival[held'[s]] < arrival[q]

FirstComeFirstServed == [][FirstComeStep]_vars

-----------------------------------------------------------------------------
\* The lock seen as a line of callers: the holder, then who waits, in the order
\* of arrival.  A caller that lost its lock to a force release is gone, though
\* its closure has yet to run.
InLine == {r \in Requests : status[r] = "waiting" \/ held[SessionOf[r]] = r}

Before(q, r) ==
    /\ q # r /\ SessionOf[q] = SessionOf[r]
    /\ \/ held[SessionOf[r]] = q
       \/ status[q] = "waiting" /\ status[r] = "waiting" /\ arrival[q] < arrival[r]

Line == INSTANCE WaitingLine
          WITH Callers <- Requests,
               Revocable <- {r \in Requests : OwnerOf[r] # NoOwner},
               line <- InLine,
               ahead <- [r \in Requests |-> IF r \in InLine
                                            THEN {q \in InLine : Before(q, r)}
                                            ELSE {}],
               gone <- {r \in Requests : status[r] # "idle"} \ InLine

\* The holder is the head of its line, and a free session has no line.
HolderIsHead ==
    \A s \in Sessions : Line!AtHead(s) = {held[s]} \ {None}

\* The lock is a waiting line: acquire() joins at the end, a release, a signal
\* or a force release takes callers out, the next in line has the session in
\* the same step, and the closure of a caller that is no longer in the line
\* changes nothing.
IsWaitingLine == Line!Spec /\ []HolderIsHead

\* An acquire() that queues is answered: it is granted or rejected.
WaiterAnswered ==
    \A r \in Requests : status[r] = "waiting" ~> status[r] # "waiting"
=============================================================================
