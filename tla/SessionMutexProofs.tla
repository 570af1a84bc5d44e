-------------------------- MODULE SessionMutexProofs --------------------------
(***************************************************************************)
(* Proofs about SessionMutex, for any set of requests, sessions and scopes.*)
(*                                                                         *)
(* The inductive invariant joins the five parts that the runs check one by *)
(* one: they need each other.  That the lock goes to a pending caller      *)
(* needs the queue to hold pending callers only, and that a hand-over      *)
(* leaves nobody behind needs the chosen waiter to be a member of it.      *)
(* The last part is about CancelCustody, which puts the lock to use.       *)
(***************************************************************************)
EXTENDS SessionMutex, WellFoundedInduction, TLAPS

IInv ==
    /\ TypeOK
    /\ HolderIsLive
    /\ QueueIsPending
    /\ NoLostWakeup
    /\ ArrivalOrder

\* A queue that is not empty has a member that came before all others.
LEMMA OldestExists ==
    ASSUME NEW callers, arrival \in [callers -> Nat],
           NEW queue, queue \subseteq callers, queue # {}
    PROVE  \E r \in queue : \A q \in queue : arrival[r] <= arrival[q]
<1> DEFINE less == OpToRel(<, Nat)
           T == {arrival[r] : r \in queue}
<1>1. T \subseteq Nat /\ T # {}
  OBVIOUS
<1>2. PICK x \in T : \A y \in T : ~(<<y, x>> \in less)
  <2> HIDE DEF T
  <2> QED BY <1>1, NatLessThanWellFounded, WFMin
<1>3. PICK r \in queue : x = arrival[r]
  OBVIOUS
<1>4. ASSUME NEW q \in queue PROVE arrival[r] <= arrival[q]
  <2>1. arrival[q] \in T /\ arrival[q] \in Nat /\ arrival[r] \in Nat
    OBVIOUS
  <2>2. ~(<<arrival[q], arrival[r]>> \in less)
    BY <1>2, <1>3, <2>1
  <2>3. ~(arrival[q] < arrival[r])
    BY <2>1, <2>2 DEF OpToRel
  <2> QED BY <2>1, <2>3
<1> QED BY <1>4

\* It is the one a hand-over picks; an empty queue yields no holder.
LEMMA DrainNextIsOldest ==
    ASSUME NEW queue, queue \subseteq Requests,
           arrival \in [Requests -> Nat]
    PROVE  /\ queue = {} => DrainNext(queue) = None
           /\ queue # {} => IsOldest(DrainNext(queue), queue)
<1>1. queue = {} => DrainNext(queue) = None
  BY DEF DrainNext
<1>2. ASSUME queue # {} PROVE IsOldest(DrainNext(queue), queue)
  <2>1. PICK r \in queue : IsOldest(r, queue)
    BY <1>2, OldestExists DEF IsOldest
  <2> QED BY <1>2, <2>1 DEF DrainNext
<1> QED BY <1>1, <1>2

LEMMA InitIInv == Init => IInv
  BY RequestAssumption
  DEF Init, IInv, TypeOK, HolderIsLive, QueueIsPending, NoLostWakeup,
      ArrivalOrder, Statuses

LEMMA AcquireAbortedIInv ==
    ASSUME IInv, NEW r \in Requests, AcquireAborted(r)
    PROVE  IInv'
  BY RequestAssumption
  DEF AcquireAborted, IInv, TypeOK, HolderIsLive, QueueIsPending,
      NoLostWakeup, ArrivalOrder, Statuses

LEMMA AcquireFreeIInv ==
    ASSUME IInv, NEW r \in Requests, AcquireFree(r)
    PROVE  IInv'
<1> USE RequestAssumption DEF AcquireFree, IInv
<1>1. TypeOK' BY DEF TypeOK, Statuses
<1>2. HolderIsLive' BY DEF TypeOK, HolderIsLive
<1>3. QueueIsPending' BY DEF TypeOK, QueueIsPending
<1>4. NoLostWakeup' BY DEF TypeOK, NoLostWakeup
<1>5. ArrivalOrder' BY DEF TypeOK, ArrivalOrder
<1> QED BY <1>1, <1>2, <1>3, <1>4, <1>5

LEMMA AcquireContendedIInv ==
    ASSUME IInv, NEW r \in Requests, AcquireContended(r)
    PROVE  IInv'
<1> USE RequestAssumption
    DEF AcquireContended, IInv
<1>1. TypeOK'
  <2>1. /\ SessionOf[r] \in Sessions
        /\ waiters' \in [Sessions -> SUBSET Requests]
    BY DEF TypeOK
  <2>2. arrivals' \in Nat /\ arrivals + 1 \in Nat
    BY DEF TypeOK
  <2>3. arrival' \in [Requests -> Nat]
    BY <2>2 DEF TypeOK
  <2>4. status' \in [Requests -> Statuses]
    BY DEF TypeOK, Statuses
  <2> QED BY <2>1, <2>2, <2>3, <2>4 DEF TypeOK
<1>2. HolderIsLive' BY DEF TypeOK, HolderIsLive
<1>3. QueueIsPending' BY DEF TypeOK, QueueIsPending
<1>4. NoLostWakeup' BY DEF TypeOK, NoLostWakeup
<1>5. ArrivalOrder'
  <2>1. /\ arrivals \in Nat /\ arrivals' = arrivals + 1
        /\ arrival'[r] = arrivals + 1
        /\ \A q \in Requests : q # r => arrival'[q] = arrival[q]
        /\ \A q \in Requests : arrival[q] \in Nat
        /\ \A z \in Sessions : /\ waiters[z] \subseteq Requests
                               /\ waiters'[z] \subseteq waiters[z] \union {r}
                               /\ r \notin waiters[z]
    BY DEF TypeOK, QueueIsPending
  <2> QED BY <2>1 DEF ArrivalOrder
<1> QED BY <1>1, <1>2, <1>3, <1>4, <1>5

LEMMA AbortIInv ==
    ASSUME IInv, NEW r \in Requests, Abort(r)
    PROVE  IInv'
<1> USE RequestAssumption DEF Abort, IInv
<1>1. TypeOK' BY DEF TypeOK, Statuses
<1>2. HolderIsLive' BY DEF TypeOK, HolderIsLive
<1>3. QueueIsPending' BY DEF TypeOK, QueueIsPending
<1>4. NoLostWakeup' BY DEF TypeOK, NoLostWakeup
<1>5. ArrivalOrder' BY DEF TypeOK, ArrivalOrder
<1> QED BY <1>1, <1>2, <1>3, <1>4, <1>5

LEMMA ReleaseIInv ==
    ASSUME IInv, NEW r \in Requests, Release(r)
    PROVE  IInv'
<1> DEFINE s == SessionOf[r]
           next == DrainNext(waiters[s])
<1> USE RequestAssumption
<1>0. /\ s \in Sessions
      /\ waiters[s] \subseteq Requests
      /\ waiters[s] = {} => next = None
      /\ waiters[s] # {} => next \in waiters[s]
  BY DrainNextIsOldest DEF IInv, TypeOK, IsOldest
<1>1. CASE held[s] # r
  BY <1>0, <1>1
  DEF Release, IInv, TypeOK, HolderIsLive, QueueIsPending, NoLostWakeup,
      ArrivalOrder, Statuses
<1>2. CASE held[s] = r
  <2>1. /\ status[r] = "running"
        /\ held' = [held EXCEPT ![s] = next]
        /\ waiters' = [waiters EXCEPT ![s] = @ \ {next}]
        /\ status' = [q \in Requests |-> CASE q = r -> "finished"
                                          [] q = next -> Resolved(q)
                                          [] OTHER -> status[q]]
        /\ UNCHANGED <<arrival, arrivals, aborted>>
    BY <1>2 DEF Release
  <2>2. next # None => /\ next \in waiters[s]
                       /\ next \in Requests
                       /\ next # r
                       /\ status[next] = "waiting"
                       /\ SessionOf[next] = s
    BY <1>0, <2>1 DEF IInv, QueueIsPending
  <2> HIDE DEF s, next
  <2>3. /\ status' \in [Requests -> Statuses]
        /\ status'[r] = "finished"
        /\ next # None => status'[next] = "running"
        /\ \A q \in Requests : q # r /\ q # next => status'[q] = status[q]
    BY <2>1, <2>2 DEF Resolved, IInv, TypeOK, Statuses
  <2>4. /\ held' \in [Sessions -> Requests \union {None}]
        /\ waiters' \in [Sessions -> SUBSET Requests]
        /\ held'[s] = next
        /\ waiters'[s] = waiters[s] \ {next}
        /\ \A z \in Sessions : z # s => /\ held'[z] = held[z]
                                        /\ waiters'[z] = waiters[z]
    BY <1>0, <2>1, <2>2 DEF IInv, TypeOK
  <2>5. TypeOK'
    BY <2>1, <2>3, <2>4 DEF IInv, TypeOK
  <2>6. HolderIsLive'
    BY <2>2, <2>3, <2>4, <1>0 DEF IInv, TypeOK, HolderIsLive, s
  <2>7. QueueIsPending'
    <3> SUFFICES ASSUME NEW q \in Requests, NEW z \in Sessions
                 PROVE  q \in waiters'[z]
                          <=> (status'[q] = "waiting" /\ SessionOf[q] = z)
      BY DEF QueueIsPending
    <3> QED BY <1>0, <2>1, <2>2, <2>3, <2>4 DEF IInv, QueueIsPending, s
  <2>8. NoLostWakeup'
    BY <1>0, <2>2, <2>4 DEF IInv, NoLostWakeup, TypeOK
  <2>9. ArrivalOrder'
    BY <1>0, <2>1, <2>4 DEF IInv, ArrivalOrder, TypeOK
  <2> QED BY <2>5, <2>6, <2>7, <2>8, <2>9 DEF IInv
<1> QED BY <1>1, <1>2

\* What a force release does to one session and to one request.
LEMMA ForceReleaseEffect ==
    ASSUME IInv, NEW scope \in Scopes, NEW preserved \in SUBSET Executions,
           ForceRelease(scope, preserved),
           NEW s \in Sessions
    PROVE  LET left == Survivors(scope)[s]
               next == DrainNext(left)
           IN  /\ left = {r \in waiters[s] : ~Matches(r, scope)}
               /\ s \in Evicted(scope, preserved) =>
                    /\ held[s] # None /\ Matches(held[s], scope)
                    /\ OwnerOf[held[s]].execution \notin preserved
                    /\ held'[s] = next
                    /\ waiters'[s] = left \ {next}
                    /\ left = {} => next = None
                    /\ left # {} => IsOldest(next, left) /\ status[next] = "waiting"
               /\ s \notin Evicted(scope, preserved) =>
                    /\ held'[s] = held[s]
                    /\ waiters'[s] = left
<1> DEFINE left == Survivors(scope)[s]
           next == DrainNext(left)
<1>1. left = {r \in waiters[s] : ~Matches(r, scope)}
  BY DEF Survivors
<1>2. left \subseteq Requests /\ arrival \in [Requests -> Nat]
  BY <1>1 DEF IInv, TypeOK
<1>3. /\ left = {} => next = None
      /\ left # {} => IsOldest(next, left)
  <2> HIDE DEF left
  <2> QED BY <1>2, DrainNextIsOldest
<1>4. s \in Evicted(scope, preserved) =>
        held'[s] = next /\ waiters'[s] = left \ {next}
  BY DEF ForceRelease, ForceReleaseByScope
<1>5. s \in Evicted(scope, preserved) =>
        /\ held[s] # None /\ Matches(held[s], scope)
        /\ OwnerOf[held[s]].execution \notin preserved
  BY DEF Evicted
<1>6. s \notin Evicted(scope, preserved) =>
        held'[s] = held[s] /\ waiters'[s] = left
  BY DEF ForceRelease, ForceReleaseByScope
<1>7. left # {} => status[next] = "waiting"
  BY <1>1, <1>2, <1>3 DEF IsOldest, IInv, QueueIsPending
<1> QED BY <1>1, <1>3, <1>4, <1>5, <1>6, <1>7

LEMMA ForceReleaseStatus ==
    ASSUME IInv, NEW scope \in Scopes, NEW preserved \in SUBSET Executions,
           ForceRelease(scope, preserved),
           NEW r \in Requests
    PROVE  LET s == SessionOf[r]
           IN  status'[r] =
                 IF r \in waiters[s] /\ Matches(r, scope) THEN "rejected"
                 ELSE IF r \in waiters[s] /\ r \notin waiters'[s] THEN "running"
                 ELSE status[r]
<1> DEFINE s == SessionOf[r]
           left == Survivors(scope)
           next == [z \in Evicted(scope, preserved) |-> DrainNext(left[z])]
<1>1. s \in Sessions
  BY RequestAssumption
<1>2. status'[r] = CASE r \in waiters[s] \ left[s] -> "rejected"
                     [] s \in Evicted(scope, preserved) /\ r \in left[s]
                          /\ next[s] = r -> Resolved(r)
                     [] OTHER -> status[r]
  BY DEF ForceRelease, ForceReleaseByScope
<1>3. r \in waiters[s] => status[r] = "waiting"
  BY <1>1 DEF IInv, QueueIsPending
<1>4. left[s] = {q \in waiters[s] : ~Matches(q, scope)}
  BY <1>1, ForceReleaseEffect
<1>5. r \in left[s] => (r \notin waiters'[s] <=>
                         s \in Evicted(scope, preserved) /\ next[s] = r)
  BY <1>1, ForceReleaseEffect
<1> HIDE DEF left, next, s
<1> QED BY <1>2, <1>3, <1>4, <1>5 DEF Resolved, s

LEMMA ForceReleaseIInv ==
    ASSUME IInv, NEW scope \in Scopes, NEW preserved \in SUBSET Executions,
           ForceRelease(scope, preserved)
    PROVE  IInv'
<1> DEFINE E == Evicted(scope, preserved)
<1>1. /\ DOMAIN held' = Sessions /\ DOMAIN waiters' = Sessions
      /\ held' = [s \in Sessions |-> held'[s]]
      /\ waiters' = [s \in Sessions |-> waiters'[s]]
      /\ status' = [r \in Requests |-> status'[r]]
      /\ UNCHANGED <<arrival, arrivals, aborted>>
  BY DEF ForceRelease, ForceReleaseByScope
<1>2. ASSUME NEW s \in Sessions
      PROVE  /\ waiters'[s] \subseteq waiters[s]
             /\ \A r \in waiters'[s] : ~Matches(r, scope)
             /\ held'[s] \in Requests \union {None}
             /\ held'[s] = None => waiters'[s] = {}
             /\ held'[s] # held[s] /\ held'[s] # None =>
                  /\ held'[s] \in waiters[s] \ waiters'[s]
                  /\ ~Matches(held'[s], scope)
             /\ \A r \in waiters[s] : r \notin waiters'[s] =>
                  Matches(r, scope) \/ r = held'[s]
  <2>1. CASE s \in E
    <3>1. held'[s] = None => Survivors(scope)[s] = {}
      BY <2>1, ForceReleaseEffect, RequestAssumption DEF IsOldest, IInv, TypeOK
    <3> QED BY <2>1, <3>1, ForceReleaseEffect DEF IsOldest, IInv, TypeOK
  <2>2. CASE s \notin E
    BY <2>2, ForceReleaseEffect DEF IInv, TypeOK, NoLostWakeup
  <2> QED BY <2>1, <2>2
<1>3. TypeOK'
  <2>1. \A r \in Requests : status'[r] \in Statuses
    BY ForceReleaseStatus DEF IInv, TypeOK, Statuses
  <2>2. \A s \in Sessions : waiters'[s] \in SUBSET Requests
    BY <1>2 DEF IInv, TypeOK
  <2>3. held' \in [Sessions -> Requests \union {None}]
    BY <1>1, <1>2
  <2>4. waiters' \in [Sessions -> SUBSET Requests]
    BY <1>1, <2>2
  <2>5. status' \in [Requests -> Statuses]
    BY <1>1, <2>1
  <2> QED BY <1>1, <2>3, <2>4, <2>5 DEF IInv, TypeOK
<1>4. QueueIsPending'
  <2> SUFFICES ASSUME NEW r \in Requests, NEW s \in Sessions
               PROVE  r \in waiters'[s]
                        <=> (status'[r] = "waiting" /\ SessionOf[r] = s)
    BY DEF QueueIsPending
  <2>1. r \in waiters[s] <=> (status[r] = "waiting" /\ SessionOf[r] = s)
    BY DEF IInv, QueueIsPending
  <2>2. CASE SessionOf[r] = s
    <3>1. status'[r] = IF r \in waiters[s] /\ Matches(r, scope) THEN "rejected"
                       ELSE IF r \in waiters[s] /\ r \notin waiters'[s] THEN "running"
                       ELSE status[r]
      BY <2>2, ForceReleaseStatus
    <3> QED BY <1>2, <2>1, <2>2, <3>1
  <2>3. CASE SessionOf[r] # s
    BY <1>2, <2>1, <2>3
  <2> QED BY <2>2, <2>3
<1>5. HolderIsLive'
  <2> SUFFICES ASSUME NEW s \in Sessions, held'[s] # None
               PROVE  SessionOf[held'[s]] = s /\ status'[held'[s]] = "running"
    BY DEF HolderIsLive
  <2> DEFINE h == held'[s]
  <2>0. h \in Requests
    BY <1>2
  <2>1. CASE h = held[s]
    <3>1. SessionOf[h] = s /\ status[h] = "running"
      BY <2>1 DEF IInv, HolderIsLive
    <3>2. h \notin waiters[s]
      BY <2>0, <3>1 DEF IInv, QueueIsPending
    <3> QED BY <2>0, <3>1, <3>2, ForceReleaseStatus
  <2>2. CASE h # held[s]
    <3>1. h \in waiters[s] \ waiters'[s] /\ ~Matches(h, scope)
      BY <1>2, <2>2
    <3>2. SessionOf[h] = s
      BY <2>0, <3>1 DEF IInv, QueueIsPending
    <3> QED BY <2>0, <3>1, <3>2, ForceReleaseStatus
  <2> QED BY <2>1, <2>2
<1>6. NoLostWakeup'
  BY <1>2 DEF NoLostWakeup
<1>7. ArrivalOrder'
  BY <1>1, <1>2 DEF IInv, ArrivalOrder
<1> QED BY <1>3, <1>4, <1>5, <1>6, <1>7 DEF IInv

LEMMA NextIInv == IInv /\ [Next]_vars => IInv'
<1> SUFFICES ASSUME IInv, [Next]_vars PROVE IInv'
  OBVIOUS
<1>1. ASSUME NEW r \in Requests, Acquire(r) PROVE IInv'
  BY <1>1, AcquireAbortedIInv, AcquireFreeIInv, AcquireContendedIInv DEF Acquire
<1>2. ASSUME NEW r \in Requests, Abort(r) PROVE IInv'
  BY <1>2, AbortIInv
<1>3. ASSUME NEW r \in Requests, Release(r) PROVE IInv'
  BY <1>3, ReleaseIInv
<1>4. ASSUME NEW scope \in Scopes, NEW preserved \in SUBSET Executions,
             ForceRelease(scope, preserved)
      PROVE IInv'
  BY <1>4, ForceReleaseIInv
<1>5. CASE UNCHANGED vars
  BY <1>5 DEF vars, IInv, TypeOK, HolderIsLive, QueueIsPending, NoLostWakeup,
              ArrivalOrder
<1> QED BY <1>1, <1>2, <1>3, <1>4, <1>5 DEF Next

-----------------------------------------------------------------------------
LEMMA StepHandsOver == IInv /\ [Next]_vars => HandOverStep
<1> SUFFICES ASSUME IInv, [Next]_vars, NEW s \in Losing
             PROVE  \/ \E r \in Requests : /\ Ends(r) /\ held[SessionOf[r]] = r
                                           /\ Losing = {SessionOf[r]}
                    \/ /\ \A r \in Requests : ~Ends(r)
                       /\ \E scope \in Scopes :
                            /\ \A z \in Losing : Matches(held[z], scope)
                            /\ \A r \in Requests :
                                 status[r] = "waiting" /\ Matches(r, scope) =>
                                   status'[r] = "rejected"
  BY DEF HandOverStep
<1>0. /\ held \in [Sessions -> Requests \union {None}]
      /\ status \in [Requests -> Statuses]
      /\ s \in Sessions /\ held[s] # None /\ held'[s] # held[s]
  BY DEF IInv, TypeOK, Losing
<1>1. ASSUME NEW r \in Requests, Acquire(r) \/ Abort(r) PROVE FALSE
  BY <1>0, <1>1, RequestAssumption
  DEF Acquire, AcquireAborted, AcquireFree, AcquireContended, Abort
<1>2. ASSUME NEW r \in Requests, Release(r)
      PROVE  Ends(r) /\ held[SessionOf[r]] = r /\ Losing = {SessionOf[r]}
  <2>1. held[SessionOf[r]] = r /\ s = SessionOf[r]
    BY <1>0, <1>2, RequestAssumption DEF Release
  <2>2. \A z \in Sessions \ {SessionOf[r]} : held'[z] = held[z]
    BY <1>0, <1>2, RequestAssumption DEF Release
  <2>3. Ends(r)
    BY <1>0, <1>2 DEF Release, Ends
  <2> QED BY <2>1, <2>2, <2>3 DEF Losing
<1>3. ASSUME NEW scope \in Scopes, NEW preserved \in SUBSET Executions,
             ForceRelease(scope, preserved)
      PROVE  /\ \A r \in Requests : ~Ends(r)
             /\ \A z \in Losing : Matches(held[z], scope)
             /\ \A r \in Requests : status[r] = "waiting" /\ Matches(r, scope) =>
                                      status'[r] = "rejected"
  <2>1. \A r \in Requests : ~Ends(r)
    BY <1>3, ForceReleaseStatus DEF Ends
  <2>2. \A z \in Losing : Matches(held[z], scope)
    BY <1>3, ForceReleaseEffect DEF Losing
  <2>3. \A r \in Requests : status[r] = "waiting" /\ Matches(r, scope) =>
                              status'[r] = "rejected"
    <3>1. \A r \in Requests : status[r] = "waiting" => r \in waiters[SessionOf[r]]
      BY RequestAssumption DEF IInv, QueueIsPending
    <3> QED BY <1>3, <3>1, ForceReleaseStatus
  <2> QED BY <2>1, <2>2, <2>3
<1>4. CASE UNCHANGED vars
  BY <1>0, <1>4 DEF vars
<1> QED BY <1>1, <1>2, <1>3, <1>4 DEF Next

LEMMA StepServesFirst == IInv /\ [Next]_vars => FirstComeStep
<1> SUFFICES ASSUME IInv, [Next]_vars, NEW s \in Sessions,
                    held'[s] # held[s], held'[s] \in waiters[s],
                    NEW q \in waiters[s] \ {held'[s]},
                    status'[q] = "waiting"
             PROVE  arrival[held'[s]] < arrival[q]
  BY DEF FirstComeStep
<1> DEFINE h == held'[s]
<1>0. /\ waiters[s] \subseteq Requests
      /\ arrival \in [Requests -> Nat]
      /\ held \in [Sessions -> Requests \union {None}]
      /\ arrival[h] # arrival[q]
      /\ SessionOf[q] = s /\ SessionOf[h] = s
  BY DEF IInv, TypeOK, ArrivalOrder, QueueIsPending
<1>1. SUFFICES ASSUME ~(arrival[h] <= arrival[q]) PROVE FALSE
  BY <1>0
<1>2. ASSUME NEW r \in Requests, Acquire(r) \/ Abort(r) PROVE FALSE
  BY <1>0, <1>2, RequestAssumption
  DEF Acquire, AcquireAborted, AcquireFree, AcquireContended, Abort, IInv,
      NoLostWakeup
<1>3. ASSUME NEW r \in Requests, Release(r) PROVE FALSE
  <2>1. held[s] = r /\ SessionOf[r] = s /\ h = DrainNext(waiters[s])
    BY <1>0, <1>3, RequestAssumption DEF Release, IInv, HolderIsLive
  <2>2. IsOldest(h, waiters[s])
    BY <1>0, <2>1, DrainNextIsOldest
  <2> QED BY <1>1, <2>2 DEF IsOldest
<1>4. ASSUME NEW scope \in Scopes, NEW preserved \in SUBSET Executions,
             ForceRelease(scope, preserved)
      PROVE  FALSE
  <2>1. s \in Evicted(scope, preserved)
    BY <1>4, ForceReleaseEffect
  <2>2. q \in Survivors(scope)[s]
    <3>1. q \in Requests /\ SessionOf[q] = s
      BY <1>0
    <3>2. ~Matches(q, scope)
      BY <1>4, <3>1, ForceReleaseStatus
    <3> QED BY <1>4, <3>2, ForceReleaseEffect
  <2>3. IsOldest(h, Survivors(scope)[s])
    BY <1>4, <2>1, <2>2, ForceReleaseEffect
  <2> QED BY <1>1, <2>2, <2>3 DEF IsOldest
<1>5. CASE UNCHANGED vars
  BY <1>5 DEF vars
<1> QED BY <1>2, <1>3, <1>4, <1>5 DEF Next

\* Every reachable state of the lock satisfies the inductive invariant.
THEOREM Invariance == Spec => []IInv
  BY InitIInv, NextIInv, PTL DEF Spec

\* The state of SessionMutex.ts keeps its types.
THEOREM TypeCorrect == Spec => []TypeOK
<1>1. IInv => TypeOK BY DEF IInv
<1> QED BY <1>1, Invariance, PTL

\* The lock is always held by a caller that still has to release it.
THEOREM HolderAlwaysLive == Spec => []HolderIsLive
<1>1. IInv => HolderIsLive BY DEF IInv
<1> QED BY <1>1, Invariance, PTL

\* No release, abort or force release leaves a waiter in front of a free lock.
THEOREM NoWakeupLost == Spec => []NoLostWakeup
<1>1. IInv => NoLostWakeup BY DEF IInv
<1> QED BY <1>1, Invariance, PTL

\* Whoever waits depends on a release that will come.
THEOREM LockStaysLive == Spec => []LockIsLive
  BY HolderAlwaysLive, NoWakeupLost, PTL DEF LockIsLive

\* A queue holds exactly the callers whose acquire() is pending, in an order
\* without ties.
THEOREM QueuesInOrder == Spec => [](QueueIsPending /\ ArrivalOrder)
<1>1. IInv => QueueIsPending /\ ArrivalOrder BY DEF IInv
<1> QED BY <1>1, Invariance, PTL

\* A release closure frees the lock of its own acquisition and no other, and
\* whatever else takes a lock is a force release whose scope has the holder: a
\* stale closure never displaces the successor, and a string-only caller is
\* never displaced.
THEOREM LockHandsOver == Spec => HandOver
<1>1. IInv /\ [Next]_vars => [HandOverStep]_vars
  BY StepHandsOver
<1> QED BY <1>1, Invariance, PTL DEF Spec, HandOver

\* A lock that is handed over goes to the waiter that came first.
THEOREM FirstComeServed == Spec => FirstComeFirstServed
<1>1. IInv /\ [Next]_vars => [FirstComeStep]_vars
  BY StepServesFirst
<1> QED BY <1>1, Invariance, PTL DEF Spec, FirstComeFirstServed
-----------------------------------------------------------------------------
(***************************************************************************)
(* The lock implements WaitingLine.  An operation of the lock joins one    *)
(* caller, takes callers out of their lines, or does nothing there; what   *)
(* is left to show is that those who stay keep their order, which for the  *)
(* new holder is that it came before everybody who still waits.            *)
(***************************************************************************)
AheadOf == [r \in Requests |-> IF r \in InLine THEN {q \in InLine : Before(q, r)} ELSE {}]

Departed == {r \in Requests : status[r] # "idle"} \ InLine

Agents == {r \in Requests : OwnerOf[r] # NoOwner}

LEMMA InitLine == Init => Line!Init
  BY RequestAssumption DEF Init, Line!Init, InLine

\* A caller that joins is behind everybody who is in its line already.
LEMMA Joins ==
    ASSUME IInv, NEW r \in Requests, AcquireFree(r) \/ AcquireContended(r)
    PROVE  Line!Join(r)
<1> DEFINE s == SessionOf[r]
<1>0. s \in Sessions /\ None \notin Requests
  BY RequestAssumption
<1>1. /\ status[r] = "idle" /\ held[s] # r
      /\ status' = [status EXCEPT ![r] = IF held[s] = None THEN "running" ELSE "waiting"]
      /\ held' = [held EXCEPT ![s] = IF held[s] = None THEN r ELSE held[s]]
      /\ \A q \in Requests : q # r => arrival'[q] = arrival[q]
      /\ held[s] # None => arrival'[r] = arrivals + 1
  BY <1>0 DEF AcquireFree, AcquireContended, IInv, TypeOK, HolderIsLive
<1>2. \A q \in Requests : status[q] = "waiting" /\ SessionOf[q] = s
                            => held[s] # None /\ arrival[q] < arrivals + 1
  <2> TAKE q \in Requests
  <2>1. arrival[q] \in Nat /\ arrivals \in Nat
    BY DEF IInv, TypeOK
  <2> QED BY <1>0, <2>1 DEF IInv, QueueIsPending, NoLostWakeup, ArrivalOrder
<1>3. /\ r \notin InLine /\ r \notin Departed
      /\ InLine' = InLine \union {r}
      /\ Departed' = Departed
  BY <1>0, <1>1 DEF InLine, Departed, IInv, TypeOK
<1>4. ASSUME NEW q \in Requests, NEW p \in Requests
      PROVE  q \in AheadOf'[p] <=> IF p = r THEN q \in InLine /\ SessionOf[q] = s
                                            ELSE q \in AheadOf[p]
  BY <1>0, <1>1, <1>2, <1>3 DEF AheadOf, Before, InLine, IInv, TypeOK
<1>5. AheadOf' = [AheadOf EXCEPT ![r] = {q \in InLine : SessionOf[q] = SessionOf[r]}]
  <2>1. ASSUME NEW p \in Requests
        PROVE  AheadOf'[p] = IF p = r THEN {q \in InLine : SessionOf[q] = SessionOf[r]}
                                      ELSE AheadOf[p]
    <3>1. AheadOf'[p] \subseteq Requests /\ AheadOf[p] \subseteq Requests
      BY DEF AheadOf, InLine
    <3>2. InLine \subseteq Requests
      BY DEF InLine
    <3> QED BY <1>4, <3>1, <3>2
  <2> QED BY <2>1 DEF AheadOf
<1> QED BY <1>3, <1>5 DEF Line!Join, AheadOf, Departed

\* A step that gives a lock to nobody but the waiter that came first, and makes
\* nobody wait, keeps the order of those who stay: the old holder leaves, and the
\* new one was before everybody who still waits.
LEMMA OrderKept ==
    ASSUME IInv, IInv', FirstComeStep, UNCHANGED arrival,
           \A r \in Requests : status'[r] = "waiting" => status[r] = "waiting",
           \A s \in Sessions : held'[s] \in {held[s], None} \union waiters[s]
    PROVE  /\ InLine' \subseteq InLine
           /\ \A q \in InLine', r \in InLine' : Before(q, r)' <=> Before(q, r)
<1>0. /\ \A r \in Requests : SessionOf[r] \in Sessions /\ r # None
      /\ \A r \in Requests : arrival[r] \in Nat
      /\ InLine \subseteq Requests /\ InLine' \subseteq Requests
  BY RequestAssumption DEF InLine, IInv, TypeOK
<1>1. \A r \in Requests : r \in waiters[SessionOf[r]] <=> status[r] = "waiting"
  BY <1>0 DEF IInv, QueueIsPending
<1>2. InLine' \subseteq InLine
  BY <1>0, <1>1 DEF InLine
<1>3. ASSUME NEW q \in InLine', NEW r \in InLine', q # r, SessionOf[q] = SessionOf[r]
      PROVE  Before(q, r)' <=> Before(q, r)
  <2> DEFINE s == SessionOf[r]
  <2>0. s \in Sessions /\ q \in Requests /\ r \in Requests /\ q \in InLine /\ r \in InLine
    BY <1>0, <1>2
  <2>1. /\ held[s] # None => status[held[s]] = "running"
        /\ held'[s] # None => status'[held'[s]] = "running"
    BY <2>0 DEF IInv, HolderIsLive
  <2>2. CASE held'[s] = held[s]
    BY <1>0, <1>3, <2>0, <2>1, <2>2 DEF InLine, Before
  <2>3. CASE held'[s] # held[s]
    <3>1. status[q] = "waiting" /\ status[r] = "waiting"
      BY <1>0, <1>3, <2>0, <2>1, <2>3 DEF InLine
    <3>2. q \in waiters[s] /\ r \in waiters[s]
      BY <1>1, <1>3, <2>0, <3>1
    <3>3. CASE held'[s] = q
      <4>1. status'[r] = "waiting"
        BY <1>3, <2>0, <3>3 DEF InLine
      <4>2. arrival[q] < arrival[r]
        BY <1>3, <2>0, <2>3, <3>2, <3>3, <4>1 DEF FirstComeStep
      <4> QED BY <1>3, <3>1, <3>3, <4>2 DEF Before
    <3>4. CASE held'[s] = r
      <4>1. status'[q] = "waiting" /\ status'[r] = "running"
        BY <1>0, <1>3, <2>0, <2>1, <3>4 DEF InLine
      <4>2. arrival[r] < arrival[q]
        BY <1>3, <2>0, <2>3, <3>2, <3>4, <4>1 DEF FirstComeStep
      <4>3. held[s] # q
        BY <1>0, <2>0, <2>1, <3>1
      <4> QED BY <1>0, <1>3, <2>0, <3>4, <4>1, <4>2, <4>3 DEF Before
    <3>5. CASE held'[s] # q /\ held'[s] # r
      BY <1>0, <1>3, <2>0, <2>1, <3>1, <3>5 DEF InLine, Before
    <3> QED BY <3>3, <3>4, <3>5
  <2> QED BY <2>2, <2>3
<1>4. \A q \in InLine', r \in InLine' : Before(q, r)' <=> Before(q, r)
  BY <1>3 DEF Before
<1> QED BY <1>2, <1>4

\* Whoever leaves goes for good, and the others stay in their order.
LEMMA Leaves ==
    ASSUME IInv, IInv', FirstComeStep, UNCHANGED arrival,
           \A r \in Requests : /\ status'[r] = "waiting" => status[r] = "waiting"
                               /\ status'[r] = "idle" <=> status[r] = "idle",
           \A s \in Sessions : held'[s] \in {held[s], None} \union waiters[s]
    PROVE  \E leaving : leaving = InLine \ InLine' /\ Line!Leave(leaving)
<1>0. PICK leaving : leaving = InLine \ InLine'
  OBVIOUS
<1>1. /\ InLine' \subseteq InLine
      /\ \A q \in InLine', r \in InLine' : Before(q, r)' <=> Before(q, r)
  BY OrderKept
<1>2. \A r \in InLine : status[r] # "idle"
  BY RequestAssumption DEF InLine, IInv, TypeOK, HolderIsLive
<1>3. /\ leaving \cap Departed = {}
      /\ InLine' = InLine \ leaving
      /\ Departed' = Departed \union leaving
  BY <1>0, <1>1, <1>2 DEF Departed, InLine
<1>4. ASSUME NEW r \in Requests
      PROVE  AheadOf'[r] = IF r \in leaving THEN {} ELSE AheadOf[r] \ leaving
  <2>1. CASE r \in InLine'
    BY <1>0, <1>1, <2>1 DEF AheadOf, InLine
  <2>2. CASE r \notin InLine'
    BY <1>0, <2>2 DEF AheadOf
  <2> QED BY <2>1, <2>2
<1>5. AheadOf' = [r \in Requests |-> IF r \in leaving THEN {} ELSE AheadOf[r] \ leaving]
  BY <1>4 DEF AheadOf
<1>6. Line!Leave(leaving)
  BY <1>3, <1>5 DEF Line!Leave, AheadOf, Departed
<1> QED BY <1>0, <1>6

\* acquire() with a signal that has fired: the caller never joins.
LEMMA Declines ==
    ASSUME IInv, NEW r \in Requests, AcquireAborted(r)
    PROVE  Line!Leave({r})
<1>1. /\ status[r] = "idle" /\ status' = [status EXCEPT ![r] = "rejected"]
      /\ UNCHANGED <<held, arrival>>
      /\ r \in Requests /\ SessionOf[r] \in Sessions /\ held[SessionOf[r]] # r
  BY RequestAssumption DEF AcquireAborted, IInv, HolderIsLive
<1>2. /\ r \notin InLine /\ r \notin Departed
      /\ InLine' = InLine /\ Departed' = Departed \union {r}
  BY <1>1 DEF InLine, Departed, IInv, TypeOK
<1>3. ASSUME NEW p \in Requests
      PROVE  AheadOf'[p] = IF p \in {r} THEN {} ELSE AheadOf[p] \ {r}
  <2>1. CASE p \in InLine
    <3>1. \A q \in InLine : Before(q, p)' <=> Before(q, p)
      BY <1>1, <1>2, <2>1 DEF Before, InLine, IInv, TypeOK
    <3> QED BY <1>2, <2>1, <3>1 DEF AheadOf
  <2>2. CASE p \notin InLine
    BY <1>2, <2>2 DEF AheadOf
  <2> QED BY <2>1, <2>2
<1>4. AheadOf' = [p \in Requests |-> IF p \in {r} THEN {} ELSE AheadOf[p] \ {r}]
  BY <1>3 DEF AheadOf
<1> QED BY <1>2, <1>4 DEF Line!Leave, AheadOf, Departed

\* One caller leaves, or none, or only agents do.
LEMMA LeaveIsStep ==
    ASSUME NEW r \in Requests, NEW leaving, Line!Leave(leaving),
           leaving \subseteq {r} \/ leaving \subseteq Agents
    PROVE  Line!Next
<1>1. leaving = {r} \/ leaving \in SUBSET Agents
  OBVIOUS
<1> QED BY <1>1 DEF Line!Next, Agents

LEMMA LineStep == IInv /\ IInv' /\ Next => Line!Next
<1> SUFFICES ASSUME IInv, IInv', Next PROVE Line!Next
  OBVIOUS
<1>0. /\ \A r \in Requests : SessionOf[r] \in Sessions /\ r # None
      /\ FirstComeStep
  BY RequestAssumption, StepServesFirst
<1>1. ASSUME NEW r \in Requests, Acquire(r) PROVE Line!Next
  BY <1>1, Joins, Declines DEF Acquire, Line!Next
<1>2. ASSUME NEW r \in Requests, Abort(r) PROVE Line!Next
  <2>1. /\ UNCHANGED <<held, arrival>>
        /\ \A q \in Requests : /\ status'[q] = "waiting" => status[q] = "waiting"
                               /\ status'[q] = "idle" <=> status[q] = "idle"
                               /\ q # r => status'[q] = status[q]
    BY <1>2 DEF Abort, IInv, TypeOK
  <2>2. PICK leaving : leaving = InLine \ InLine' /\ Line!Leave(leaving)
    BY <1>0, <2>1, Leaves
  <2>3. leaving \subseteq {r}
    BY <2>1, <2>2 DEF InLine
  <2> QED BY <2>2, <2>3, LeaveIsStep
<1>3. ASSUME NEW r \in Requests, Release(r) PROVE Line!Next
  <2> DEFINE s == SessionOf[r]
             next == DrainNext(waiters[s])
  <2>1. /\ s \in Sessions
        /\ \/ next = None
           \/ next \in waiters[s] /\ next \in Requests /\ SessionOf[next] = s
    BY <1>0, DrainNextIsOldest DEF IInv, TypeOK, IsOldest, QueueIsPending
  <2>2. /\ UNCHANGED arrival
        /\ status'[r] = "finished" /\ status[r] = "running"
        /\ held' = [held EXCEPT ![s] = IF held[s] = r THEN next ELSE @]
        /\ \A q \in Requests : q # r =>
             \/ status'[q] = status[q]
             \/ held[s] = r /\ q = next /\ status'[q] = Resolved(q)
    <3>1. CASE held[s] = r
      <4>1. /\ status[r] = "running" /\ UNCHANGED arrival
            /\ held' = [held EXCEPT ![s] = next]
            /\ status' = [q \in Requests |-> CASE q = r -> "finished"
                                              [] q = next -> Resolved(q)
                                              [] OTHER -> status[q]]
        BY <1>3, <3>1 DEF Release
      <4> HIDE DEF next, s
      <4>2. held' = [held EXCEPT ![s] = IF held[s] = r THEN next ELSE @]
        BY <3>1, <4>1 DEF IInv, TypeOK
      <4>3. status'[r] = "finished"
        <5>1. next # r
          BY <1>0, <2>1, <4>1 DEF IInv, QueueIsPending
        <5> QED BY <4>1, <5>1
      <4>4. ASSUME NEW q \in Requests, q # r
            PROVE  status'[q] = status[q] \/ (q = next /\ status'[q] = Resolved(q))
        BY <4>1, <4>4 DEF Resolved
      <4> QED BY <3>1, <4>1, <4>2, <4>3, <4>4
    <3>2. CASE held[s] # r
      BY <1>3, <2>1, <3>2 DEF Release, IInv, TypeOK
    <3> QED BY <3>1, <3>2
  <2> HIDE DEF next
  <2>3. \A q \in Requests : /\ status'[q] = "waiting" => status[q] = "waiting"
                            /\ status'[q] = "idle" <=> status[q] = "idle"
    BY <2>2 DEF Resolved
  <2>4. \A z \in Sessions : held'[z] \in {held[z], None} \union waiters[z]
    BY <2>1, <2>2 DEF IInv, TypeOK
  <2>5. PICK leaving : leaving = InLine \ InLine' /\ Line!Leave(leaving)
    BY <1>0, <2>2, <2>3, <2>4, Leaves
  <2>6. ASSUME NEW q \in InLine, q # r PROVE q \in InLine'
    <3>1. q \in Requests /\ SessionOf[q] \in Sessions
      BY <1>0 DEF InLine
    <3>2. CASE held[SessionOf[q]] = q
      BY <2>2, <2>6, <3>1, <3>2 DEF InLine, IInv, TypeOK
    <3>3. CASE status[q] = "waiting"
      <4>1. status'[q] = "waiting" \/ (held[s] = r /\ q = next)
        BY <2>2, <2>6, <3>1, <3>3
      <4>2. held[s] = r /\ q = next => held'[SessionOf[q]] = q
        BY <1>0, <2>1, <2>2, <3>1 DEF IInv, TypeOK
      <4> QED BY <3>1, <4>1, <4>2 DEF InLine
    <3> QED BY <2>6, <3>2, <3>3 DEF InLine
  <2>7. leaving \subseteq {r}
    BY <2>5, <2>6
  <2> QED BY <2>5, <2>7, LeaveIsStep
<1>4. ASSUME NEW scope \in Scopes, NEW preserved \in SUBSET Executions,
             ForceRelease(scope, preserved)
      PROVE  Line!Next
  <2>1. UNCHANGED arrival
    BY <1>4 DEF ForceRelease, ForceReleaseByScope
  <2>2. \A q \in Requests :
          LET s == SessionOf[q]
          IN  /\ q \in waiters[s] <=> status[q] = "waiting"
              /\ status'[q] = IF q \in waiters[s] /\ Matches(q, scope) THEN "rejected"
                              ELSE IF q \in waiters[s] /\ q \notin waiters'[s] THEN "running"
                              ELSE status[q]
    BY <1>0, <1>4, ForceReleaseStatus DEF IInv, QueueIsPending
  <2>3. \A q \in Requests : /\ status'[q] = "waiting" => status[q] = "waiting"
                            /\ status'[q] = "idle" <=> status[q] = "idle"
    BY <2>2
  <2>4. \A s \in Sessions : held'[s] \in {held[s], None} \union waiters[s]
    BY <1>4, ForceReleaseEffect DEF IsOldest
  <2>5. PICK leaving : leaving = InLine \ InLine' /\ Line!Leave(leaving)
    BY <1>0, <2>1, <2>3, <2>4, Leaves
  <2>6. ASSUME NEW q \in InLine, q \notin InLine' PROVE Matches(q, scope)
    <3> DEFINE s == SessionOf[q]
    <3>0. q \in Requests /\ s \in Sessions
      BY <1>0 DEF InLine
    <3>1. CASE held[s] = q
      <4>1. held'[s] # held[s]
        BY <2>6, <3>0, <3>1 DEF InLine
      <4> QED BY <1>4, <3>0, <3>1, <4>1, ForceReleaseEffect
    <3>2. CASE held[s] # q
      <4>1. q \in waiters[s] /\ q \notin waiters'[s] /\ held'[s] # q
        BY <2>2, <2>6, <3>0, <3>2 DEF InLine, IInv, QueueIsPending
      <4> QED BY <1>4, <3>0, <4>1, ForceReleaseEffect
    <3> QED BY <3>1, <3>2
  <2>7. leaving \subseteq Agents
    BY <2>5, <2>6 DEF Agents, Matches, InLine
  <2> QED BY <2>5, <2>7 DEF Line!Next, Agents
<1> QED BY <1>1, <1>2, <1>3, <1>4 DEF Next

\* The holder is ahead of everybody in its line, and nobody waits without one.
LEMMA HeadHolds == IInv => HolderIsHead
<1> SUFFICES ASSUME IInv, NEW s \in Sessions
             PROVE  Line!AtHead(s) = {held[s]} \ {None}
  BY DEF HolderIsHead
<1>1. Line!AtHead(s) = {r \in InLine : SessionOf[r] = s /\ AheadOf[r] = {}}
  BY DEF Line!AtHead, AheadOf
<1>2. /\ \A r \in Requests : r # None /\ SessionOf[r] \in Sessions
      /\ held[s] # None => /\ held[s] \in Requests /\ SessionOf[held[s]] = s
                           /\ status[held[s]] = "running"
  BY RequestAssumption DEF IInv, TypeOK, HolderIsLive
<1>3. ASSUME NEW r \in InLine, SessionOf[r] = s, r # held[s]
      PROVE  held[s] # None /\ held[s] \in AheadOf[r]
  <2>1. r \in Requests /\ r \in waiters[s]
    BY <1>2, <1>3 DEF InLine, IInv, QueueIsPending
  <2>2. held[s] # None
    BY <2>1 DEF IInv, NoLostWakeup
  <2> QED BY <1>2, <1>3, <2>1, <2>2 DEF AheadOf, InLine, Before
<1>4. held[s] # None => held[s] \in InLine /\ AheadOf[held[s]] = {}
  <2>1. held[s] # None => \A q \in InLine : ~Before(q, held[s])
    BY <1>2 DEF Before
  <2> QED BY <1>2, <2>1 DEF AheadOf, InLine
<1>5. None \notin InLine
  BY <1>2 DEF InLine
<1> QED BY <1>1, <1>2, <1>3, <1>4, <1>5

\* The lock of a session is a waiting line whose head is the holder.
THEOREM LockIsWaitingLine == Spec => IsWaitingLine
<1>1. IInv /\ IInv' /\ [Next]_vars => [Line!Next]_Line!vars
  <2>1. UNCHANGED vars => UNCHANGED Line!vars
    BY DEF vars, Line!vars, InLine, Before
  <2> QED BY <2>1, LineStep
<1>2. Spec => Line!Spec
  BY <1>1, InitLine, Invariance, PTL DEF Spec, Line!Spec
<1>3. Spec => []HolderIsHead
  BY HeadHolds, Invariance, PTL
<1> QED BY <1>2, <1>3 DEF IsWaitingLine

-----------------------------------------------------------------------------
(***************************************************************************)
(* The Stop handlers, which use the lock beside the invocation tracker:    *)
(* CancelCustody, for any cats and runs.  Its assumptions on the constants *)
(* are hypotheses of its theorems.                                         *)
(***************************************************************************)
CONSTANTS Cats, Runs, CatOf, Thread, User, NoSlot

VARIABLES slot, deleting, sealing, admitted, parked, gate, phase, final,
          doneCats, stopped

Stop == INSTANCE CancelCustody

StopTypes ==
    /\ Stop!Mutex!TypeOK
    /\ slot \in [Cats -> Stop!Tracker!Slots \union {NoSlot}]
    /\ phase \in [Runs -> Stop!Tracker!Phases]

\* The invariants of the lock, written out: a Stop fires a signal and releases
\* a scope in one step, which SessionMutex has as two.
LockOwned ==
    /\ \A c \in Cats : /\ held[c] # None => CatOf[held[c]] = c /\ status[held[c]] = "running"
                       /\ waiters[c] # {} => held[c] # None
    /\ \A r \in Runs, c \in Cats :
         r \in waiters[c] <=> status[r] = "waiting" /\ CatOf[r] = c

\* A runner asks for its session only once its route was started ...
AskedAfterStart == \A r \in Runs : status[r] # "idle" => phase[r] # "idle"

\* ... and its slot carries the executionId a Stop preserves.
Claims == {"waiting", "running"}

ClaimIsBound ==
    \A r \in Runs :
        status[r] \in Claims /\ Stop!Tracker!BelongsTo(CatOf[r], r)
          => slot[CatOf[r]].bound

StopInv == StopTypes /\ LockOwned /\ AskedAfterStart /\ ClaimIsBound

\* What the tracker's operations do to the slots and the phases.
SlotsKeepRuns ==
    /\ slot' \in [Cats -> Stop!Tracker!Slots \union {NoSlot}]
    /\ phase' \in [Runs -> Stop!Tracker!Phases]
    /\ \A r \in Runs : phase[r] # "idle" => phase'[r] # "idle"
    /\ \A c \in Cats, r \in Runs :
         slot'[c] # NoSlot /\ slot'[c].run = r =>
           \/ phase[r] = "idle"
           \/ /\ slot[c] # NoSlot /\ slot[c].run = r
              /\ slot[c].bound => slot'[c].bound

\* What the lock's operations do to its callers, but for acquire().
CallersKeepClaims ==
    /\ Stop!Mutex!TypeOK'
    /\ LockOwned'
    /\ \A r \in Runs : /\ status'[r] # "idle" => status[r] # "idle"
                       /\ status'[r] \in Claims => status[r] \in Claims

LEMMA KeepsStopInv ==
    ASSUME StopInv, Stop!CustodyAssumption, SlotsKeepRuns, CallersKeepClaims
    PROVE  StopInv'
<1> USE DEF StopInv
<1>1. StopTypes'
  BY DEF StopTypes, SlotsKeepRuns, CallersKeepClaims
<1>2. AskedAfterStart'
  BY DEF AskedAfterStart, SlotsKeepRuns, CallersKeepClaims
<1>3. ClaimIsBound'
  <2> SUFFICES ASSUME NEW r \in Runs, status'[r] \in Claims,
                      slot'[CatOf[r]] # NoSlot, slot'[CatOf[r]].run = r
               PROVE  slot'[CatOf[r]].bound
    BY DEF ClaimIsBound, Stop!Tracker!BelongsTo, Stop!Tracker!Occupied
  <2>1. CatOf[r] \in Cats
    BY DEF Stop!CustodyAssumption
  <2>2. status[r] \in Claims /\ phase[r] # "idle"
    BY DEF CallersKeepClaims, AskedAfterStart, Claims
  <2> QED BY <2>1, <2>2 DEF SlotsKeepRuns, ClaimIsBound,
             Stop!Tracker!BelongsTo, Stop!Tracker!Occupied
<1> QED BY <1>1, <1>2, <1>3 DEF CallersKeepClaims

LEMMA NothingKeepsClaims ==
    ASSUME StopInv, UNCHANGED Stop!mutexVars
    PROVE  CallersKeepClaims
  BY DEF StopInv, StopTypes, CallersKeepClaims, Stop!mutexVars, LockOwned,
         Stop!Mutex!TypeOK

LEMMA NothingKeepsRuns ==
    ASSUME StopInv, UNCHANGED Stop!trackerVars
    PROVE  SlotsKeepRuns
  BY DEF StopInv, StopTypes, SlotsKeepRuns, Stop!trackerVars

LEMMA DispatchKeepsRuns ==
    ASSUME StopInv, Stop!CustodyAssumption, NEW r \in Runs, Stop!Dispatch(r)
    PROVE  SlotsKeepRuns
  BY DEF StopInv, StopTypes, SlotsKeepRuns, Stop!Dispatch, Stop!Tracker!TryStartThread,
         Stop!Tracker!Install, Stop!Tracker!NewSlot, Stop!Tracker!Slots, Stop!Tracker!KindOf,
         Stop!CustodyAssumption, Stop!Tracker!Phases

LEMMA BindKeepsRuns ==
    ASSUME StopInv, NEW r \in Runs, Stop!Bind(r)
    PROVE  SlotsKeepRuns
  BY DEF StopInv, StopTypes, SlotsKeepRuns, Stop!Bind, Stop!Tracker!BindExecutionId,
         Stop!Tracker!BelongsTo, Stop!Tracker!Occupied, Stop!Tracker!Slots

LEMMA EndRouteKeepsRuns ==
    ASSUME StopInv, NEW r \in Runs, Stop!EndRoute(r)
    PROVE  SlotsKeepRuns
<1> DEFINE claimed == {c \in Cats : Stop!Tracker!BelongsTo(c, r) /\ slot[c].kind = "a2a"}
           targets == {c \in {CatOf[r]} : Stop!Tracker!BelongsTo(c, r)}
<1>1. \/ slot' = Stop!Tracker!Retired(claimed) /\ phase' = [phase EXCEPT ![r] = "routed"]
      \/ slot' = Stop!Tracker!Retired(targets) /\ phase' = [phase EXCEPT ![r] = "finished"]
  BY DEF Stop!EndRoute, Stop!Tracker!CompleteA2ASlots, Stop!Tracker!CompleteAll,
         Stop!Tracker!Gone
<1> HIDE DEF claimed, targets
<1>2. ASSUME NEW retired, slot' = Stop!Tracker!Retired(retired)
      PROVE  /\ slot' \in [Cats -> Stop!Tracker!Slots \union {NoSlot}]
             /\ \A c \in Cats : slot'[c] # NoSlot =>
                  /\ slot[c] # NoSlot /\ slot'[c].run = slot[c].run
                  /\ slot'[c].bound = slot[c].bound
  BY <1>2 DEF StopInv, StopTypes, Stop!Tracker!Retired, Stop!Tracker!Active,
     Stop!Tracker!Occupied, Stop!Tracker!Slots
<1>3. /\ phase' \in [Runs -> Stop!Tracker!Phases]
      /\ \A q \in Runs : phase[q] # "idle" => phase'[q] # "idle"
  BY <1>1 DEF StopInv, StopTypes, Stop!Tracker!Phases
<1> QED BY <1>1, <1>2, <1>3 DEF SlotsKeepRuns

LEMMA LoseKeepsRuns ==
    ASSUME StopInv, NEW r \in Runs, Stop!LoseRunner(r)
    PROVE  SlotsKeepRuns
  BY DEF StopInv, StopTypes, SlotsKeepRuns, Stop!LoseRunner, Stop!Tracker!Lose,
         Stop!Tracker!Gone, Stop!Tracker!Phases

LEMMA ReapKeepsRuns ==
    ASSUME StopInv, NEW r \in Runs, Stop!Reap(r)
    PROVE  SlotsKeepRuns
  BY DEF StopInv, StopTypes, SlotsKeepRuns, Stop!Reap,
         Stop!Tracker!ReleaseTerminalByExecutionId

LEMMA CancelKeepsRuns ==
    ASSUME StopInv, NEW c \in Cats, Stop!Tracker!Cancel(c, User)
    PROVE  SlotsKeepRuns
  BY DEF StopInv, StopTypes, SlotsKeepRuns, Stop!Tracker!Cancel, Stop!Tracker!Tombstoned,
         Stop!Tracker!Occupied, Stop!Tracker!Slots

LEMMA CancelAllKeepsRuns ==
    ASSUME StopInv, Stop!Tracker!CancelAll(User)
    PROVE  SlotsKeepRuns
  BY DEF StopInv, StopTypes, SlotsKeepRuns, Stop!Tracker!CancelAll, Stop!Tracker!Tombstoned,
         Stop!Tracker!Active, Stop!Tracker!Occupied, Stop!Tracker!Slots

\* drainNext hands the lock to a member of the queue, if it has one.
LEMMA StopDrainsQueue ==
    ASSUME NEW queue, queue \subseteq Runs, arrival \in [Runs -> Nat]
    PROVE  IF queue = {} THEN Stop!Mutex!DrainNext(queue) = None
                         ELSE Stop!Mutex!DrainNext(queue) \in queue
<1>1. CASE queue = {}
  BY <1>1 DEF Stop!Mutex!DrainNext
<1>2. CASE queue # {}
  <2>1. PICK r \in queue : Stop!Mutex!IsOldest(r, queue)
    BY <1>2, OldestExists DEF Stop!Mutex!IsOldest
  <2> QED BY <1>2, <2>1 DEF Stop!Mutex!DrainNext
<1> QED BY <1>1, <1>2

LEMMA ReleaseKeepsClaims ==
    ASSUME StopInv, Stop!CustodyAssumption, NEW r \in Runs, Stop!Mutex!Release(r)
    PROVE  CallersKeepClaims /\ status'[r] = "finished"
<1> DEFINE s == CatOf[r]
           next == Stop!Mutex!DrainNext(waiters[s])
<1>1. /\ s \in Cats
      /\ waiters[s] \subseteq Runs
      /\ arrival \in [Runs -> Nat]
  BY DEF StopInv, StopTypes, Stop!Mutex!TypeOK, Stop!CustodyAssumption
<1>2. IF waiters[s] = {} THEN next = None ELSE next \in waiters[s]
  BY <1>1, StopDrainsQueue
<1>3. next \in Runs \union {None} /\ (next \in Runs => next \in waiters[s])
  BY <1>1, <1>2 DEF Stop!CustodyAssumption
<1>4. CASE held[s] # r
  <2>1. UNCHANGED <<held, waiters, arrival, arrivals, aborted>>
    BY <1>4 DEF Stop!Mutex!Release
  <2>2. status[r] = "running" /\ status' = [status EXCEPT ![r] = "finished"]
    BY <1>4 DEF Stop!Mutex!Release
  <2> QED BY <2>1, <2>2, <1>4, <1>1
      DEF StopInv, StopTypes, Stop!Mutex!TypeOK, LockOwned, CallersKeepClaims, Claims,
          Stop!Mutex!Statuses, Stop!CustodyAssumption
<1>5. CASE held[s] = r
  <2>1. /\ held' = [held EXCEPT ![s] = next]
        /\ waiters' = [waiters EXCEPT ![s] = @ \ {next}]
        /\ status' = [q \in Runs |-> CASE q = r -> "finished"
                                       [] q = next -> Stop!Mutex!Resolved(q)
                                       [] OTHER -> status[q]]
        /\ UNCHANGED <<arrival, arrivals, aborted>>
        /\ status[r] = "running"
    BY <1>5 DEF Stop!Mutex!Release
  <2> HIDE DEF next, s
  <2>2. r \notin waiters[s] /\ next # r
    BY <1>1, <1>2, <2>1, <1>5 DEF StopInv, LockOwned, s, Stop!CustodyAssumption
  <2>3. \A q \in Runs : status'[q] = IF q = r THEN "finished"
                                     ELSE IF q = next THEN "running" ELSE status[q]
    BY <1>1, <1>3, <2>1, <2>2 DEF StopInv, LockOwned, Stop!Mutex!Resolved
  <2>4. Stop!Mutex!TypeOK'
    BY <1>1, <1>3, <2>1, <2>3 DEF StopInv, StopTypes, Stop!Mutex!TypeOK, Stop!Mutex!Statuses
  <2>5. LockOwned'
    BY <1>1, <1>2, <1>3, <2>1, <2>2, <2>3, <1>5
    DEF StopInv, StopTypes, Stop!Mutex!TypeOK, LockOwned, s, Stop!CustodyAssumption
  <2>6. \A q \in Runs : /\ status'[q] # "idle" => status[q] # "idle"
                        /\ status'[q] \in Claims => status[q] \in Claims
    BY <1>1, <1>3, <2>1, <2>3 DEF StopInv, LockOwned, Claims
  <2> QED BY <2>3, <2>4, <2>5, <2>6 DEF CallersKeepClaims
<1> QED BY <1>4, <1>5

\* forceReleaseByScope, in the scopes a Stop names: who waited in scope is
\* rejected, and a session goes to the survivors only if its holder was in
\* scope and is not preserved.
LEMMA StopForceRelease ==
    ASSUME StopInv, Stop!CustodyAssumption, NEW cat, NEW preserved,
           NEW fired \in SUBSET Runs, Stop!ForceRelease(cat, preserved, fired)
    PROVE  /\ CallersKeepClaims
           /\ \A c \in Cats :
                IF cat \in {AnyCat, c}
                THEN /\ waiters'[c] = {}
                     /\ held'[c] = IF held[c] \in preserved THEN held[c] ELSE None
                ELSE waiters'[c] = waiters[c] /\ held'[c] = held[c]
<1> DEFINE scope == Stop!Scope(cat)
           left == Stop!Mutex!Survivors(scope)
           evicted == Stop!Mutex!Evicted(scope, preserved)
<1>1. /\ CatOf \in [Runs -> Cats]
      /\ held \in [Cats -> Runs \union {None}]
      /\ waiters \in [Cats -> SUBSET Runs]
      /\ arrival \in [Runs -> Nat] /\ arrivals \in Nat
      /\ status \in [Runs -> Stop!Mutex!Statuses]
      /\ None \notin Runs
  BY DEF StopInv, StopTypes, Stop!Mutex!TypeOK, Stop!CustodyAssumption
<1>2. ASSUME NEW r \in Runs
      PROVE  Stop!Mutex!Matches(r, scope) <=> cat \in {AnyCat, CatOf[r]}
  BY <1>1 DEF Stop!Mutex!Matches, Stop!Scope, Stop!CustodyAssumption
<1>3. ASSUME NEW c \in Cats
      PROVE  left[c] = IF cat \in {AnyCat, c} THEN {} ELSE waiters[c]
  BY <1>1, <1>2 DEF Stop!Mutex!Survivors, StopInv, LockOwned
<1>4. ASSUME NEW c \in Cats
      PROVE  c \in evicted <=> /\ held[c] # None /\ cat \in {AnyCat, c}
                               /\ held[c] \notin preserved
  BY <1>1, <1>2 DEF Stop!Mutex!Evicted, StopInv, LockOwned
<1>5. /\ held' = [c \in Cats |-> IF c \in evicted THEN Stop!Mutex!DrainNext(left[c])
                                                  ELSE held[c]]
      /\ waiters' = [c \in Cats |-> IF c \in evicted
                                     THEN left[c] \ {Stop!Mutex!DrainNext(left[c])}
                                     ELSE left[c]]
      /\ status' = [r \in Runs |->
            CASE r \in waiters[CatOf[r]] \ left[CatOf[r]] -> "rejected"
              [] CatOf[r] \in evicted /\ r \in left[CatOf[r]]
                   /\ Stop!Mutex!DrainNext(left[CatOf[r]]) = r -> Stop!Mutex!Resolved(r)
              [] OTHER -> status[r]]
      /\ UNCHANGED <<arrival, arrivals>>
      /\ aborted' = aborted \union fired
  BY DEF Stop!ForceRelease, Stop!Mutex!ForceReleaseByScope
<1> HIDE DEF scope, left, evicted
<1>6. Stop!Mutex!DrainNext({}) = None
  BY DEF Stop!Mutex!DrainNext
<1>7. ASSUME NEW c \in Cats
      PROVE  IF cat \in {AnyCat, c}
             THEN /\ waiters'[c] = {}
                  /\ held'[c] = IF held[c] \in preserved THEN held[c] ELSE None
             ELSE waiters'[c] = waiters[c] /\ held'[c] = held[c]
  BY <1>3, <1>4, <1>5, <1>6
<1>8. ASSUME NEW r \in Runs
      PROVE  /\ status'[r] = IF r \in waiters[CatOf[r]] /\ cat \in {AnyCat, CatOf[r]}
                             THEN "rejected" ELSE status[r]
  <2>1. CatOf[r] \in Cats
    BY <1>1
  <2>2. CASE cat \in {AnyCat, CatOf[r]}
    BY <2>1, <2>2, <1>3, <1>5
  <2>3. CASE cat \notin {AnyCat, CatOf[r]}
    BY <2>1, <2>3, <1>3, <1>4, <1>5
  <2> QED BY <2>2, <2>3
<1>9. Stop!Mutex!TypeOK'
  <2>1. held' \in [Cats -> Runs \union {None}]
    BY <1>1, <1>5, <1>7
  <2>2. waiters' \in [Cats -> SUBSET Runs]
    BY <1>1, <1>5, <1>7
  <2>3. status' \in [Runs -> Stop!Mutex!Statuses]
    BY <1>1, <1>5, <1>8 DEF Stop!Mutex!Statuses
  <2> QED BY <1>1, <1>5, <2>1, <2>2, <2>3 DEF StopInv, StopTypes, Stop!Mutex!TypeOK
<1>10. LockOwned'
  BY <1>1, <1>7, <1>8 DEF StopInv, LockOwned
<1>11. \A r \in Runs : /\ status'[r] # "idle" => status[r] # "idle"
                       /\ status'[r] \in Claims => status[r] \in Claims
  BY <1>1, <1>8 DEF StopInv, LockOwned, Claims
<1> QED BY <1>7, <1>9, <1>10, <1>11 DEF CallersKeepClaims

LEMMA AcquireStopInv ==
    ASSUME StopInv, Stop!CustodyAssumption, NEW r \in Runs, Stop!AcquireSession(r)
    PROVE  StopInv'
<1>1. StopTypes'
  BY DEF StopInv, StopTypes, Stop!AcquireSession, Stop!trackerVars, Stop!Mutex!TypeOK,
     Stop!Mutex!Acquire, Stop!Mutex!AcquireAborted, Stop!Mutex!AcquireFree,
     Stop!Mutex!AcquireContended, Stop!Mutex!Statuses, Stop!CustodyAssumption
<1>2. LockOwned'
  BY DEF StopInv, StopTypes, LockOwned, Stop!AcquireSession, Stop!Mutex!TypeOK,
     Stop!Mutex!Acquire, Stop!Mutex!AcquireAborted, Stop!Mutex!AcquireFree,
     Stop!Mutex!AcquireContended, Stop!CustodyAssumption
<1>3. /\ phase[r] = "running" /\ UNCHANGED <<slot, phase>>
      /\ Stop!Tracker!BelongsTo(CatOf[r], r) => slot[CatOf[r]].bound
      /\ \A q \in Runs \ {r} : status'[q] = status[q]
  BY DEF StopInv, StopTypes, Stop!AcquireSession, Stop!trackerVars, Stop!Mutex!TypeOK,
     Stop!Mutex!Acquire, Stop!Mutex!AcquireAborted, Stop!Mutex!AcquireFree,
     Stop!Mutex!AcquireContended
<1>4. AskedAfterStart'
  BY <1>3 DEF StopInv, AskedAfterStart
<1>5. ClaimIsBound'
  BY <1>3 DEF StopInv, ClaimIsBound, Stop!Tracker!BelongsTo, Stop!Tracker!Occupied
<1> QED BY <1>1, <1>2, <1>4, <1>5 DEF StopInv

\* The executions a Stop preserves, and the runs it aborts.
LEMMA StopCatParts ==
    ASSUME StopInv, Stop!CustodyAssumption, NEW c \in Cats, Stop!StopCat(c)
    PROVE  /\ SlotsKeepRuns
           /\ \E preserved, fired \in SUBSET Runs :
                /\ Stop!ForceRelease(c, preserved, fired)
                /\ preserved = {r \in Runs : Stop!Tracker!BelongsTo(c, r) /\ slot[c].bound}
<1>1. CASE slot[c] = NoSlot
  <2>1. SlotsKeepRuns
    BY <1>1, NothingKeepsRuns DEF Stop!StopCat
  <2>2. Stop!ForceRelease(c, {}, {})
    BY <1>1 DEF Stop!StopCat
  <2>3. {} = {r \in Runs : Stop!Tracker!BelongsTo(c, r) /\ slot[c].bound}
    BY <1>1 DEF Stop!Tracker!BelongsTo, Stop!Tracker!Occupied
  <2> QED BY <2>1, <2>2, <2>3
<1>2. CASE slot[c] # NoSlot
  <2>1. SlotsKeepRuns
    BY <1>2, CancelKeepsRuns DEF Stop!StopCat
  <2>2. Stop!ForceRelease(c, Stop!Executions({c}), {slot[c].run})
    BY <1>2 DEF Stop!StopCat
  <2>3. slot[c].run \in Runs /\ slot[c].bound \in BOOLEAN
    BY <1>2 DEF StopInv, StopTypes, Stop!Tracker!Slots
  <2>4. Stop!Executions({c})
          = {r \in Runs : Stop!Tracker!BelongsTo(c, r) /\ slot[c].bound}
    BY <1>2, <2>3 DEF Stop!Executions, Stop!Tracker!BelongsTo, Stop!Tracker!Occupied
  <2>5. Stop!Executions({c}) \in SUBSET Runs /\ {slot[c].run} \in SUBSET Runs
    BY <2>3, <2>4
  <2> QED BY <2>1, <2>2, <2>4, <2>5
<1> QED BY <1>1, <1>2

LEMMA StopAllParts ==
    ASSUME StopInv, Stop!CustodyAssumption, Stop!StopAll
    PROVE  /\ SlotsKeepRuns
           /\ \E preserved, fired \in SUBSET Runs :
                /\ Stop!ForceRelease(AnyCat, preserved, fired)
                /\ \A c \in Cats, r \in Runs :
                     /\ Stop!Tracker!Active(c) /\ slot[c].bound
                     /\ Stop!Tracker!BelongsTo(c, r)
                     => r \in preserved
<1> DEFINE active == {c \in Cats : Stop!Tracker!Active(c)}
           preserved == Stop!Executions(active)
           fired == {slot[c].run : c \in active}
<1>1. SlotsKeepRuns
  BY NothingKeepsRuns, CancelAllKeepsRuns DEF Stop!StopAll
<1>2. Stop!ForceRelease(AnyCat, preserved, fired)
  BY DEF Stop!StopAll
<1>3. \A c \in active : slot[c].run \in Runs
  BY DEF StopInv, StopTypes, Stop!Tracker!Slots, Stop!Tracker!Active, Stop!Tracker!Occupied
<1>4. preserved \in SUBSET Runs /\ fired \in SUBSET Runs
  BY <1>3 DEF Stop!Executions
<1>5. ASSUME NEW c \in Cats, NEW r \in Runs,
             Stop!Tracker!Active(c), slot[c].bound, Stop!Tracker!BelongsTo(c, r)
      PROVE  r \in preserved
  BY <1>5 DEF Stop!Executions, Stop!Tracker!BelongsTo
<1> HIDE DEF preserved, fired
<1> QED BY <1>1, <1>2, <1>4, <1>5

LEMMA StopInvStep == Stop!CustodyAssumption /\ StopInv /\ [Stop!Next]_Stop!vars => StopInv'
<1> SUFFICES ASSUME Stop!CustodyAssumption, StopInv, [Stop!Next]_Stop!vars
             PROVE  StopInv'
  OBVIOUS
<1>1. ASSUME NEW r \in Runs, Stop!Dispatch(r) PROVE StopInv'
  BY <1>1, DispatchKeepsRuns, NothingKeepsClaims, KeepsStopInv DEF Stop!Dispatch
<1>2. ASSUME NEW r \in Runs, Stop!Bind(r) PROVE StopInv'
  BY <1>2, BindKeepsRuns, NothingKeepsClaims, KeepsStopInv DEF Stop!Bind
<1>3. ASSUME NEW r \in Runs, Stop!AcquireSession(r) PROVE StopInv'
  BY <1>3, AcquireStopInv
<1>4. ASSUME NEW r \in Runs, Stop!ReleaseSession(r) PROVE StopInv'
  BY <1>4, NothingKeepsRuns, ReleaseKeepsClaims, KeepsStopInv DEF Stop!ReleaseSession
<1>5. ASSUME NEW r \in Runs, Stop!EndRoute(r) PROVE StopInv'
  BY <1>5, EndRouteKeepsRuns, NothingKeepsClaims, KeepsStopInv DEF Stop!EndRoute
<1>6. ASSUME NEW r \in Runs, Stop!LoseRunner(r) PROVE StopInv'
  BY <1>6, LoseKeepsRuns, NothingKeepsClaims, KeepsStopInv DEF Stop!LoseRunner
<1>7. ASSUME NEW r \in Runs, Stop!Reap(r) PROVE StopInv'
  BY <1>7, ReapKeepsRuns, NothingKeepsClaims, KeepsStopInv DEF Stop!Reap
<1>8. ASSUME NEW c \in Cats, Stop!StopCat(c) PROVE StopInv'
  BY <1>8, StopCatParts, StopForceRelease, KeepsStopInv
<1>9. ASSUME Stop!StopAll PROVE StopInv'
  BY <1>9, StopAllParts, StopForceRelease, KeepsStopInv
<1>10. CASE UNCHANGED Stop!vars
  BY <1>10, NothingKeepsRuns, NothingKeepsClaims, KeepsStopInv DEF Stop!vars
<1> QED BY <1>1, <1>2, <1>3, <1>4, <1>5, <1>6, <1>7, <1>8, <1>9, <1>10 DEF Stop!Next

LEMMA StopInitInv == Stop!CustodyAssumption /\ Stop!Init => StopInv
  BY DEF Stop!CustodyAssumption, Stop!Init, Stop!Tracker!Init, Stop!Mutex!Init, StopInv,
     StopTypes, Stop!Mutex!TypeOK, Stop!Mutex!Statuses, Stop!Tracker!Phases, LockOwned,
     AskedAfterStart, ClaimIsBound, Claims, Stop!Tracker!BelongsTo, Stop!Tracker!Occupied

LEMMA StopInvariance ==
    ASSUME Stop!CustodyAssumption
    PROVE  Stop!Spec => []StopInv
  BY StopInitInv, StopInvStep, PTL DEF Stop!Spec

\* Stopping runs beside the lock leaves it live: it is held by a runner that will
\* release it, and nobody queues for a session that is free.
THEOREM StopKeepsLockLive ==
    ASSUME Stop!CustodyAssumption
    PROVE  Stop!Spec => []Stop!Mutex!LockIsLive
<1>1. StopInv => Stop!Mutex!LockIsLive
  BY DEF StopInv, LockOwned, Stop!Mutex!LockIsLive, Stop!Mutex!HolderIsLive,
     Stop!Mutex!NoLostWakeup
<1> QED BY <1>1, StopInvariance, PTL

\* A Stop takes a session from a runner that is gone or was stopped before,
\* never from the one at work: its slot names its execution by the time it asks
\* for the lock, so the force release spares it.
THEOREM StopSparesActiveRun ==
    ASSUME Stop!CustodyAssumption
    PROVE  Stop!Spec => Stop!ActiveRunKeepsSession
<1>1. ASSUME StopInv, [Stop!Next]_Stop!vars, NEW c \in Cats,
             held[c] # None, held'[c] # held[c]
      PROVE  \/ status'[held[c]] = "finished"
             \/ ~(Stop!Tracker!BelongsTo(c, held[c]) /\ Stop!Tracker!Active(c))
  <2>0. /\ held[c] \in Runs /\ CatOf[held[c]] = c /\ status[held[c]] = "running"
        /\ Stop!Tracker!BelongsTo(c, held[c]) => slot[c].bound
    BY <1>1 DEF StopInv, StopTypes, Stop!Mutex!TypeOK, LockOwned, ClaimIsBound, Claims
  <2>1. CASE UNCHANGED held
    BY <1>1, <2>1
  <2>2. ASSUME NEW r \in Runs, Stop!AcquireSession(r) PROVE FALSE
    BY <1>1, <2>2 DEF Stop!AcquireSession, Stop!Mutex!Acquire, Stop!Mutex!AcquireAborted,
       Stop!Mutex!AcquireFree, Stop!Mutex!AcquireContended, StopInv, StopTypes,
       Stop!Mutex!TypeOK, Stop!CustodyAssumption
  <2>3. ASSUME NEW r \in Runs, Stop!ReleaseSession(r) PROVE status'[held[c]] = "finished"
    <3>1. held[c] = r
      BY <1>1, <2>0, <2>3 DEF Stop!ReleaseSession, Stop!Mutex!Release, StopInv, StopTypes,
         Stop!Mutex!TypeOK, Stop!CustodyAssumption
    <3> QED BY <1>1, <2>3, <3>1, ReleaseKeepsClaims DEF Stop!ReleaseSession
  <2>4. ASSUME NEW d \in Cats, Stop!StopCat(d)
        PROVE  ~Stop!Tracker!BelongsTo(c, held[c])
    <3>1. PICK preserved, fired \in SUBSET Runs :
            /\ Stop!ForceRelease(d, preserved, fired)
            /\ preserved = {r \in Runs : Stop!Tracker!BelongsTo(d, r) /\ slot[d].bound}
      BY <1>1, <2>4, StopCatParts
    <3>2. c = d /\ held[c] \notin preserved
      BY <1>1, <3>1, StopForceRelease DEF Stop!CustodyAssumption
    <3> QED BY <2>0, <3>1, <3>2
  <2>5. ASSUME Stop!StopAll
        PROVE  ~(Stop!Tracker!BelongsTo(c, held[c]) /\ Stop!Tracker!Active(c))
    <3>1. PICK preserved, fired \in SUBSET Runs :
            /\ Stop!ForceRelease(AnyCat, preserved, fired)
            /\ \A b \in Cats, r \in Runs :
                 /\ Stop!Tracker!Active(b) /\ slot[b].bound
                 /\ Stop!Tracker!BelongsTo(b, r)
                 => r \in preserved
      BY <1>1, <2>5, StopAllParts
    <3>2. held[c] \notin preserved
      BY <1>1, <3>1, StopForceRelease
    <3> QED BY <2>0, <3>1, <3>2
  <2>6. CASE \E r \in Runs : \/ Stop!Dispatch(r) \/ Stop!Bind(r) \/ Stop!EndRoute(r)
                            \/ Stop!LoseRunner(r) \/ Stop!Reap(r)
    <3>1. UNCHANGED held
      BY <2>6 DEF Stop!Dispatch, Stop!Bind, Stop!EndRoute, Stop!LoseRunner, Stop!Reap,
         Stop!mutexVars
    <3> QED BY <2>1, <3>1
  <2>7. CASE UNCHANGED Stop!vars
    BY <2>1, <2>7 DEF Stop!vars, Stop!mutexVars
  <2> QED BY <1>1, <2>2, <2>3, <2>4, <2>5, <2>6, <2>7 DEF Stop!Next
<1>2. StopInv /\ [Stop!Next]_Stop!vars =>
        [\A c \in Cats : held[c] # None /\ held'[c] # held[c] =>
            \/ status'[held[c]] = "finished"
            \/ ~(Stop!Tracker!BelongsTo(c, held[c]) /\ Stop!Tracker!Active(c))]_Stop!vars
  BY <1>1
<1> QED BY <1>2, StopInvariance, PTL DEF Stop!Spec, Stop!ActiveRunKeepsSession
=============================================================================
