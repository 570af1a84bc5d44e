-------------------------- MODULE QueueCustodyProofs --------------------------
(***************************************************************************)
(* Proofs about QueueCustody: for any cats, turns, failures of the store   *)
(* and crashes.                                                            *)
(***************************************************************************)
EXTENDS QueueCustody, SequenceTheorems, TLAPS

-----------------------------------------------------------------------------
(* The inductive invariant. *)

\* A turn that is dead has answered for c, and the record can tell.
Buried(c) == \E d \in Turns : turn[d].phase = "dead" /\ <<c, d>> \in custody.exposed \cap replied

\* r is not for a cat that a dead turn answered, and has no exposure to a dead turn that the
\* record has not: to store r, or to execute it, brings no such cat back.
NoGhost(r) ==
  /\ \A c \in r.targets : ~Buried(c)
  /\ \A c \in Cats, d \in Turns :
       (<<c, d>> \in r.exposed /\ turn[d].phase = "dead") => <<c, d>> \in custody.exposed

\* A row that is not there is for nobody.
FitRows == {r \in Row : (r.status = "absent" => r.targets = {}) /\ NoGhost(r)}

\* What a settlement keeps to put back is not being executed; a turn keeps nothing before it.
FitTurns ==
  {u \in Turn : /\ u.hand.snap \in FitRows /\ u.hand.snap.status # "processing"
                /\ u.phase = "idle" => u.hand = NoHand}

\* What an operation stores is a row; what the failure of a removal puts back was queued; a turn
\* that gives the row back, withdraws or settles is through.
Past == {"returning", "settling", "over", "dead"}
Late == {"withdraw", "stage", "mark", "handle", "respond", "detached"}
FitJobs ==
  {j \in Job :
     /\ j.do \in Persists => j.row.status # "absent"
     /\ j.do = "remove" => j.row.status = "queued"
     /\ j.row.status # "absent" => NoGhost(j.row)
     /\ j.do \in Late => j.by \in Turns /\ turn[j.by].phase \in Past}

\* A turn has one start, which is for its cats and which it waits for.
Starts(s) == {s[i] : i \in {i \in DOMAIN s : s[i].do = "start"}}
Once(s) ==
  \A i, k \in DOMAIN s : (s[i].do = "start" /\ s[k].do = "start" /\ s[i].by = s[k].by) => i = k
StartsFit ==
  /\ Once(jobs)
  /\ \A j \in Starts(jobs) : /\ j.by \in Turns /\ turn[j.by].phase = "starting"
                             /\ turn[j.by].cats = j.row.targets

\* Nothing of a process outlives it.
DownIsEmpty ==
  up # "up" => /\ row = NoRow /\ jobs = <<>>
               /\ \A t \in Turns : turn[t].phase \in {"idle", "dead"} /\ turn[t].hand = NoHand

\* Once the restart has looked at the record, it has nothing pending that a dead turn answered.
PendingAlive == up # "down" => \A c \in custody.pending : ~Buried(c)

\* The store never holds a record that contradicts itself.
RecordFits == Acceptable(custody)

\* The process: the queue, the operations that wait and the turns.
ProcessOK ==
  /\ row \in FitRows /\ jobs \in Seq(FitJobs) /\ turn \in [Turns -> FitTurns]
  /\ StartsFit /\ RowIsCarried

\* What is durable, and the counters.
DurableOK ==
  /\ custody \in Custody /\ replied \subseteq Exposures /\ up \in {"down", "reconciled", "up"}
  /\ faults \in 0..MaxFaults /\ crashes \in 0..MaxCrashes
  /\ RecordFits

IInv == ProcessOK /\ DurableOK /\ DownIsEmpty /\ PendingAlive
-----------------------------------------------------------------------------
(* Operations in a sequence, and starts among them. *)

LEMMA QueueKeeps ==
  ASSUME NEW S, NEW s \in Seq(S), NEW e \in S
  PROVE  /\ Append(s, e) \in Seq(S)
         /\ s # <<>> => /\ Head(s) \in S /\ Tail(s) \in Seq(S)
                        /\ Append(Tail(s), e) \in Seq(S)
  OBVIOUS

LEMMA StartsOfAppend ==
  ASSUME NEW s \in Seq(Job), NEW e \in Job
  PROVE  /\ e.do # "start" => Starts(Append(s, e)) = Starts(s) /\ (Once(s) => Once(Append(s, e)))
         /\ e.do = "start" =>
              /\ Starts(Append(s, e)) = Starts(s) \cup {e}
              /\ (Once(s) /\ \A j \in Starts(s) : j.by # e.by) => Once(Append(s, e))
<1> DEFINE a == Append(s, e)
<1>1. /\ DOMAIN a = DOMAIN s \cup {Len(s) + 1} /\ Len(s) + 1 \notin DOMAIN s
      /\ \A i \in DOMAIN s : a[i] = s[i]
      /\ a[Len(s) + 1] = e
  OBVIOUS
<1> HIDE DEF a
<1>2. e.do # "start" => Starts(a) = Starts(s) /\ (Once(s) => Once(a))
  BY <1>1 DEF Starts, Once
<1>3. e.do = "start" => Starts(a) = Starts(s) \cup {e}
  BY <1>1 DEF Starts
<1>4. (e.do = "start" /\ Once(s) /\ \A j \in Starts(s) : j.by # e.by) => Once(a)
  BY <1>1 DEF Starts, Once
<1> QED BY <1>2, <1>3, <1>4 DEF a

LEMMA StartsOfTail ==
  ASSUME NEW s \in Seq(Job), s # <<>>, Once(s)
  PROVE  /\ Once(Tail(s)) /\ Starts(Tail(s)) \subseteq Starts(s)
         /\ Head(s).do = "start" =>
              Head(s) \in Starts(s) /\ \A j \in Starts(Tail(s)) : j.by # Head(s).by
<1> DEFINE r == Tail(s)
<1>1. /\ 1 \in DOMAIN s /\ s[1] = Head(s)
      /\ \A i \in DOMAIN r : i + 1 \in DOMAIN s /\ r[i] = s[i + 1] /\ i \in Nat /\ i + 1 # 1
  OBVIOUS
<1>2. \A i, k \in DOMAIN r : i + 1 = k + 1 => i = k
  BY <1>1
<1> HIDE DEF r
<1>3. Once(r)
  BY <1>1, <1>2 DEF Once
<1>4. Starts(r) \subseteq Starts(s)
  BY <1>1 DEF Starts
<1>5. Head(s).do = "start" => Head(s) \in Starts(s) /\ \A j \in Starts(r) : j.by # Head(s).by
  BY <1>1 DEF Starts, Once
<1> QED BY <1>3, <1>4, <1>5 DEF r

-----------------------------------------------------------------------------
(* Rows and turns that fit. *)

LEMMA Empties ==
  /\ NoRow \in Row /\ Unseen \in [Cats -> Turns \cup {None}]
  /\ NoRow \in FitRows
  /\ NoHand \in [cat : Cats \cup {None}, snap : Row, step : Steps]
  /\ NoTurn \in FitTurns
<1>1. NoRow \in Row /\ Unseen \in [Cats -> Turns \cup {None}]
  BY DEF NoRow, Row, Unseen
<1>2. NoRow \in FitRows /\ NoRow.status # "processing"
  BY <1>1 DEF FitRows, NoRow, NoGhost
<1>3. NoHand \in [cat : Cats \cup {None}, snap : Row, step : Steps] /\ NoHand.snap = NoRow
  BY <1>1 DEF NoHand, Steps
<1>4. NoTurn \in Turn /\ NoTurn.hand = NoHand
  BY <1>3 DEF NoTurn, Turn
<1> QED BY <1>1, <1>2, <1>3, <1>4 DEF FitTurns

\* What is done to a row that fits leaves one that fits.
LEMMA RowsKept ==
  ASSUME NEW r \in FitRows
  PROVE  /\ [r EXCEPT !.status = "queued"] \in FitRows
         /\ [r EXCEPT !.status = "processing"] \in FitRows
         /\ \A c \in Cats, t \in Turns :
              (c \in r.targets /\ turn[t].phase # "dead")
                => [r EXCEPT !.seen[c] = t, !.exposed = @ \cup {<<c, t>>}] \in FitRows
         /\ \A c \in Cats, t \in Turns :
              r.status = "queued" =>
                /\ [r EXCEPT !.seen[c] = IF @ = t THEN None ELSE @] \in FitRows
                /\ [r EXCEPT !.targets = @ \ {c}, !.handled = @ \cup {c}, !.seen[c] = None]
                     \in FitRows
<1>1. r \in Row /\ (r.status = "absent" => r.targets = {}) /\ NoGhost(r)
  BY DEF FitRows
<1>2. [r EXCEPT !.status = "queued"] \in FitRows
  BY <1>1 DEF FitRows, Row, NoGhost
<1>3. [r EXCEPT !.status = "processing"] \in FitRows
  BY <1>1 DEF FitRows, Row, NoGhost
<1>4. ASSUME NEW c \in Cats, NEW t \in Turns, c \in r.targets, turn[t].phase # "dead"
      PROVE  [r EXCEPT !.seen[c] = t, !.exposed = @ \cup {<<c, t>>}] \in FitRows
  <2> DEFINE n == [r EXCEPT !.seen[c] = t, !.exposed = @ \cup {<<c, t>>}]
  <2>1. n.status = r.status /\ n.targets = r.targets /\ n.exposed = r.exposed \cup {<<c, t>>}
    BY <1>1 DEF Row
  <2>2. n \in Row
    <3>1. <<c, t>> \in Exposures
      BY DEF Exposures
    <3>2. [r.seen EXCEPT ![c] = t] \in [Cats -> Turns \cup {None}]
      BY <1>1 DEF Row
    <3> QED BY <1>1, <3>1, <3>2 DEF Row
  <2> HIDE DEF n
  <2>3. n \in FitRows
    BY <1>1, <1>4, <2>1, <2>2 DEF FitRows, NoGhost
  <2> QED BY <2>3 DEF n
<1>5. ASSUME NEW c \in Cats, NEW t \in Turns, r.status = "queued"
      PROVE  [r EXCEPT !.seen[c] = IF @ = t THEN None ELSE @] \in FitRows
  BY <1>1, <1>5 DEF FitRows, Row, NoGhost
<1>6. ASSUME NEW c \in Cats, r.status = "queued"
      PROVE  [r EXCEPT !.targets = @ \ {c}, !.handled = @ \cup {c}, !.seen[c] = None] \in FitRows
  BY <1>1, <1>6 DEF FitRows, Row, NoGhost
<1> QED BY <1>2, <1>3, <1>4, <1>5, <1>6
Phases == {"idle", "starting", "ensuring", "running", "returning", "settling", "over", "dead"}
Verdicts == {"none", "stopped", "succeeded", "failed"}
Ends == {"none", "exposing", "running", "succeeded", "failed"}

\* What is done to a turn that fits leaves one that fits.
LEMMA TurnsKept ==
  ASSUME NEW u \in FitTurns
  PROVE  /\ \A p \in Phases \ {"idle"} : [u EXCEPT !.phase = p] \in FitTurns
         /\ \A v \in Verdicts : /\ [u EXCEPT !.verdict = v] \in FitTurns
                                /\ Settling(u, v) \in FitTurns
                                /\ [u EXCEPT !.phase = "returning", !.verdict = v] \in FitTurns
         /\ \A c \in Cats, h \in Ends : [u EXCEPT !.child[c] = h] \in FitTurns
         /\ \A p \in Phases : Remains(u, p) \in FitTurns
<1>1. /\ u \in Turn /\ u.hand.snap \in FitRows /\ u.hand.snap.status # "processing"
      /\ u.phase = "idle" => u.hand = NoHand
  BY DEF FitTurns
<1>2. ASSUME NEW p \in Phases \ {"idle"} PROVE [u EXCEPT !.phase = p] \in FitTurns
  BY <1>1 DEF FitTurns, Turn, Phases
<1>3. ASSUME NEW v \in Verdicts
      PROVE  /\ [u EXCEPT !.verdict = v] \in FitTurns
             /\ [u EXCEPT !.phase = "settling", !.verdict = v, !.todo = u.cats] \in FitTurns
             /\ [u EXCEPT !.phase = "returning", !.verdict = v] \in FitTurns
  BY <1>1 DEF FitTurns, Turn, Verdicts
<1>4. ASSUME NEW c \in Cats, NEW h \in Ends PROVE [u EXCEPT !.child[c] = h] \in FitTurns
  BY <1>1 DEF FitTurns, Turn, Ends
<1>5. ASSUME NEW p \in Phases PROVE Remains(u, p) \in FitTurns
  <2> DEFINE left == [c \in Cats |-> IF u.child[c] \in {"exposing", "running"} THEN "failed"
                                    ELSE u.child[c]]
  <2>1. left \in [Cats -> Ends]
    BY <1>1 DEF Turn, Ends
  <2> HIDE DEF left
  <2>2. [NoTurn EXCEPT !.phase = p, !.child = left] \in FitTurns
    <3>1. NoTurn \in Turn /\ NoTurn.hand = NoHand
      BY Empties DEF FitTurns, NoTurn
    <3>2. NoTurn.hand.snap \in FitRows /\ NoTurn.hand.snap.status # "processing"
      BY <3>1, Empties DEF NoHand, NoRow
    <3> HIDE DEF NoTurn
    <3> QED BY <2>1, <3>1, <3>2 DEF FitTurns, Turn, Ends, Phases
  <2> QED BY <2>2 DEF Remains, left
<1> QED BY <1>2, <1>3, <1>4, <1>5 DEF Settling

LEMMA HandsKept ==
  ASSUME NEW u \in FitTurns, u.phase # "idle"
  PROVE  /\ \A s \in Steps : /\ [u EXCEPT !.hand.step = s] \in FitTurns
                             /\ [u EXCEPT !.hand.step = s, !.hand.snap = NoRow] \in FitTurns
         /\ \A c \in Cats, r \in FitRows, s \in Steps :
              r.status # "processing" =>
                [u EXCEPT !.hand = [cat |-> c, snap |-> r, step |-> s]] \in FitTurns
         /\ \A c \in Cats, s \in Steps :
              [u EXCEPT !.hand = [NoHand EXCEPT !.cat = c, !.step = s]] \in FitTurns
         /\ \A c : [u EXCEPT !.todo = @ \ {c}, !.hand = NoHand] \in FitTurns
<1>1. /\ u \in Turn /\ u.hand.snap \in FitRows /\ u.hand.snap.status # "processing"
      /\ u.phase = "idle" => u.hand = NoHand
  BY DEF FitTurns
<1>2. NoRow \in Row /\ NoRow \in FitRows /\ NoRow.status # "processing"
  BY Empties DEF NoRow
<1>3. FitRows \subseteq Row
  BY DEF FitRows
<1> HIDE DEF FitRows, NoRow, Row
<1>4. ASSUME NEW s \in Steps
      PROVE  /\ [u EXCEPT !.hand.step = s] \in FitTurns
             /\ [u EXCEPT !.hand.step = s, !.hand.snap = NoRow] \in FitTurns
  BY <1>1, <1>2 DEF FitTurns, Turn
<1>5. ASSUME NEW h \in [cat : Cats \cup {None}, snap : Row, step : Steps],
             h.snap \in FitRows, h.snap.status # "processing"
      PROVE  [u EXCEPT !.hand = h] \in FitTurns
  BY <1>1, <1>5 DEF FitTurns, Turn
<1>6. ASSUME NEW c \in Cats, NEW r \in FitRows, NEW s \in Steps, r.status # "processing"
      PROVE  [u EXCEPT !.hand = [cat |-> c, snap |-> r, step |-> s]] \in FitTurns
  <2> DEFINE h == [cat |-> c, snap |-> r, step |-> s]
  <2>1. h \in [cat : Cats \cup {None}, snap : Row, step : Steps] /\ h.snap = r
    BY <1>3
  <2> HIDE DEF h
  <2>2. [u EXCEPT !.hand = h] \in FitTurns
    BY <1>5, <1>6, <2>1
  <2> QED BY <2>2 DEF h
<1>7. ASSUME NEW c \in Cats, NEW s \in Steps
      PROVE  [u EXCEPT !.hand = [NoHand EXCEPT !.cat = c, !.step = s]] \in FitTurns
  <2> DEFINE h == [NoHand EXCEPT !.cat = c, !.step = s]
  <2>1. h \in [cat : Cats \cup {None}, snap : Row, step : Steps] /\ h.snap = NoRow
    BY <1>2 DEF NoHand
  <2> HIDE DEF h
  <2>2. [u EXCEPT !.hand = h] \in FitTurns
    BY <1>2, <1>5, <2>1
  <2> QED BY <2>2 DEF h
<1>8. ASSUME NEW c PROVE [u EXCEPT !.todo = @ \ {c}, !.hand = NoHand] \in FitTurns
  BY <1>1, <1>2 DEF FitTurns, Turn, NoHand, Steps
<1> QED BY <1>4, <1>6, <1>7, <1>8

-----------------------------------------------------------------------------
(* What the operations do to the record. *)

LEMMA RecordOps ==
  ASSUME custody \in Custody
  PROVE  /\ \A r \in Row : r.status # "absent" => Projection(r) \in Custody
         /\ \A c, t : Matches(c, t) => c \in Cats /\ Settled(c) \in Custody
         /\ \A targets \in SUBSET Cats : Withdrawal(targets) \in Custody
<1>1. ASSUME NEW r \in Row, r.status # "absent" PROVE Projection(r) \in Custody
  BY <1>1 DEF Projection, Custody, Row
<1>2. ASSUME NEW c, NEW t, Matches(c, t) PROVE c \in Cats /\ Settled(c) \in Custody
  <2>1. c \in Cats
    BY <1>2 DEF Matches, Custody
  <2>2. custody.handled \cup {c} \in SUBSET Cats /\ custody.outcome \cup {c} \in SUBSET Cats
        /\ [custody.seen EXCEPT ![c] = None] \in [Cats -> Turns \cup {None}]
    BY <2>1 DEF Custody
  <2> QED BY <2>1, <2>2 DEF Settled, Custody
<1>3. ASSUME NEW targets \in SUBSET Cats PROVE Withdrawal(targets) \in Custody
  BY DEF Withdrawal, Custody
<1> QED BY <1>1, <1>2, <1>3

\* An operation adds exposures to the record, and none to a dead turn; it makes nothing pending
\* that a dead turn answered, and takes no outcome back.
LEMMA RecordKept ==
  ASSUME custody \in Custody, NEW j \in FitJobs
  PROVE  /\ After(j) \in Custody
         /\ custody.exposed \subseteq After(j).exposed
         /\ \A c \in Cats, d \in Turns :
              (<<c, d>> \in After(j).exposed /\ turn[d].phase = "dead") => <<c, d>> \in custody.exposed
         /\ \A c \in After(j).pending : c \in custody.pending \/ ~Buried(c)
         /\ custody.outcome \subseteq After(j).outcome
<1>0. j \in Job /\ j.row \in Row /\ (j.do \in Persists => j.row.status # "absent" /\ NoGhost(j.row))
  BY DEF FitJobs, Job
<1>1. CASE After(j) = custody
  BY <1>1
<1>2. CASE j.do \in Persists /\ After(j) = Projection(j.row)
  <2>1. After(j) \in Custody
    BY <1>0, <1>2, RecordOps
  <2>2. /\ After(j).exposed = custody.exposed \cup j.row.exposed
        /\ After(j).pending = j.row.targets /\ After(j).outcome = custody.outcome
    BY <1>2 DEF Projection, Custody
  <2> QED BY <1>0, <1>2, <2>1, <2>2 DEF NoGhost
<1>3. CASE After(j) = Withdrawal(j.row.targets)
  <2>1. j.row.targets \in SUBSET Cats
    BY <1>0 DEF Row
  <2>2. /\ After(j).exposed = custody.exposed
        /\ After(j).pending \subseteq custody.pending /\ After(j).outcome = custody.outcome
    BY <1>3 DEF Withdrawal, Custody
  <2> QED BY <1>3, <2>1, <2>2, RecordOps
<1>4. CASE Matches(j.cat, j.by) /\ After(j) = Settled(j.cat)
  <2>1. /\ After(j).exposed = custody.exposed
        /\ After(j).pending \subseteq custody.pending /\ custody.outcome \subseteq After(j).outcome
    BY <1>4 DEF Settled, Custody
  <2> QED BY <1>4, <2>1, RecordOps
<1> QED BY <1>1, <1>2, <1>3, <1>4 DEF After

-----------------------------------------------------------------------------
(* What no step but a crash or a restart does. *)

\* The record is left alone or changed by the operation at the head.
StoreStep ==
  \/ custody' = custody
  \/ jobs # <<>> /\ custody' = After(Head(jobs)) /\ Acceptable(custody')
\* No turn dies, or comes back when it is through; a dead turn does not answer.
TurnStep ==
  \A t \in Turns : /\ turn'[t].phase = "dead" => turn[t].phase = "dead"
                   /\ turn[t].phase \in Past => turn'[t].phase \in Past
ReplyStep == \A c \in Cats, d \in Turns : <<c, d>> \in replied' \ replied => turn[d].phase # "dead"
Quiet == up = "up" /\ up' = up /\ StoreStep /\ TurnStep /\ ReplyStep

\* What fits still fits after it.
LEMMA StillFits ==
  ASSUME IInv, Quiet
  PROVE  /\ FitRows \subseteq FitRows' /\ FitTurns \subseteq FitTurns' /\ FitJobs \subseteq FitJobs'
         /\ custody' \in Custody /\ RecordFits' /\ PendingAlive' /\ DownIsEmpty'
<1> USE DEF IInv, ProcessOK, DurableOK
<1>1. jobs # <<>> => Head(jobs) \in FitJobs
  OBVIOUS
<1>2. /\ custody' \in Custody /\ custody.exposed \subseteq custody'.exposed
      /\ \A c \in Cats, d \in Turns :
           (<<c, d>> \in custody'.exposed /\ turn[d].phase = "dead") => <<c, d>> \in custody.exposed
      /\ \A c \in custody'.pending : c \in custody.pending \/ ~Buried(c)
  BY <1>1, RecordKept DEF Quiet, StoreStep
<1>3. \A c \in Cats : Buried(c)' => Buried(c)
  BY <1>2 DEF Quiet, TurnStep, ReplyStep, Buried
<1>4. \A r \in Row : NoGhost(r) => NoGhost(r)'
  <2> SUFFICES ASSUME NEW r \in Row, NoGhost(r) PROVE NoGhost(r)'
    OBVIOUS
  <2>1. \A c \in r.targets : c \in Cats /\ ~Buried(c)
    BY DEF NoGhost, Row
  <2> QED BY <1>2, <1>3, <2>1 DEF NoGhost, Quiet, TurnStep
<1>5. FitRows \subseteq FitRows'
  BY <1>4 DEF FitRows
<1>6. FitTurns \subseteq FitTurns'
  BY <1>5 DEF FitTurns
<1>7. FitJobs \subseteq FitJobs'
  BY <1>4 DEF FitJobs, Job, Quiet, TurnStep
<1>8. RecordFits' /\ PendingAlive' /\ DownIsEmpty'
  <2>1. RecordFits'
    BY DEF RecordFits, Acceptable, Quiet, StoreStep
  <2>2. PendingAlive'
    BY <1>2, <1>3 DEF PendingAlive, Quiet, Custody
  <2> QED BY <2>1, <2>2 DEF DownIsEmpty, Quiet
<1> QED BY <1>2, <1>5, <1>6, <1>7, <1>8

\* The starts that wait still fit when no turn that starts is touched and none is added.
LEMMA StartsKept ==
  ASSUME IInv,
         \A t \in Turns : turn[t].phase = "starting" =>
                            turn'[t].phase = "starting" /\ turn'[t].cats = turn[t].cats,
         NEW e \in Job, e.do # "start",
         \/ jobs' = jobs \/ jobs' = Append(jobs, e)
         \/ jobs # <<>> /\ (jobs' = Tail(jobs) \/ jobs' = Append(Tail(jobs), e))
  PROVE  StartsFit'
<1>1. jobs \in Seq(Job)
  <2>1. FitJobs \subseteq Job /\ jobs \in Seq(FitJobs)
    BY DEF FitJobs, IInv, ProcessOK
  <2> HIDE DEF FitJobs
  <2> QED BY <2>1, SeqMonotonic
<1>2. Once(jobs) /\ \A j \in Starts(jobs) : /\ j.by \in Turns /\ turn[j.by].phase = "starting"
                                            /\ turn[j.by].cats = j.row.targets
  BY DEF IInv, ProcessOK, StartsFit
<1>3. jobs # <<>> => /\ Tail(jobs) \in Seq(Job) /\ Once(Tail(jobs))
                     /\ Starts(Tail(jobs)) \subseteq Starts(jobs)
  BY <1>1, <1>2, StartsOfTail
<1>4. Once(jobs') /\ Starts(jobs') \subseteq Starts(jobs)
  <2>1. Once(Append(jobs, e)) /\ Starts(Append(jobs, e)) = Starts(jobs)
    BY <1>1, <1>2, StartsOfAppend
  <2>2. ASSUME jobs # <<>>
        PROVE  Once(Append(Tail(jobs), e)) /\ Starts(Append(Tail(jobs), e)) \subseteq Starts(jobs)
    <3>1. Tail(jobs) \in Seq(Job) /\ Once(Tail(jobs))
      BY <1>3, <2>2
    <3>2. Once(Append(Tail(jobs), e)) /\ Starts(Append(Tail(jobs), e)) = Starts(Tail(jobs))
      BY <3>1, StartsOfAppend
    <3> QED BY <1>3, <2>2, <3>2
  <2> QED BY <1>2, <1>3, <2>1, <2>2, Zenon
<1>5. \A j \in Starts(jobs') : /\ j.by \in Turns /\ turn'[j.by].phase = "starting"
                               /\ turn'[j.by].cats = j.row.targets
  BY <1>2, <1>4
<1> QED BY <1>4, <1>5 DEF StartsFit, Once, Starts
-----------------------------------------------------------------------------
(* Steps of one turn. *)

Executing == {"starting", "ensuring", "running"}

\* All of the invariant but the counters.
Sound == ProcessOK /\ custody \in Custody /\ RecordFits /\ DownIsEmpty /\ PendingAlive

\* What may become of a turn u: v.  One that executes the row goes on doing so if it carries it.
Follows(u, v) ==
  /\ v.phase = "dead" => u.phase = "dead"
  /\ u.phase \in Past => v.phase \in Past
  /\ u.phase = "starting" => v.phase = "starting" /\ v.cats = u.cats
Carries(u, v) == (u.own /\ u.phase \in Executing) => (v.own /\ v.phase \in Executing)

\* An operation that turn t, which becomes v, may put into the queue.
Fits(e, t, v) ==
  /\ e \in Job /\ e.do # "start"
  /\ e.do \in Persists => e.row.status # "absent"
  /\ e.do = "remove" => e.row.status = "queued"
  /\ e.row.status # "absent" => e.row \in FitRows
  /\ e.do \in Late => e.by = t /\ v.phase \in Past

LEMMA Kept ==
  ASSUME IInv, Quiet, turn' \in [Turns -> FitTurns], row' \in FitRows, StartsFit', RowIsCarried',
         NEW e \in FitJobs',
         \/ jobs' = jobs \/ jobs' = Append(jobs, e)
         \/ jobs # <<>> /\ (jobs' = Tail(jobs) \/ jobs' = Append(Tail(jobs), e))
  PROVE  Sound'
<1>1. /\ FitRows \subseteq FitRows' /\ FitTurns \subseteq FitTurns' /\ FitJobs \subseteq FitJobs'
      /\ custody' \in Custody /\ RecordFits' /\ PendingAlive' /\ DownIsEmpty'
  BY StillFits
<1>2. jobs' \in Seq(FitJobs')
  <2>1. jobs \in Seq(FitJobs)
    BY DEF IInv, ProcessOK
  <2> HIDE DEF FitJobs
  <2>2. jobs \in Seq(FitJobs')
    BY <1>1, <2>1, SeqMonotonic
  <2>3. /\ Append(jobs, e) \in Seq(FitJobs')
        /\ jobs # <<>> => Tail(jobs) \in Seq(FitJobs') /\ Append(Tail(jobs), e) \in Seq(FitJobs')
    BY <2>2, QueueKeeps
  <2> QED BY <2>2, <2>3
<1>3. row' \in FitRows' /\ turn' \in [Turns -> FitTurns']
  BY <1>1
<1> QED BY <1>1, <1>2, <1>3 DEF Sound, ProcessOK

LEMMA TurnGoes ==
  ASSUME IInv, up = "up", up' = up, StoreStep, ReplyStep, StartsFit',
         NEW t \in Turns, NEW u \in FitTurns, turn' = [turn EXCEPT ![t] = u],
         u.phase = "dead" => turn[t].phase = "dead", turn[t].phase \in Past => u.phase \in Past,
         row' \in FitRows,
         row'.status = "processing" => row.status = "processing" /\ Carries(turn[t], u),
         NEW e, Fits(e, t, u),
         \/ jobs' = jobs \/ jobs' = Append(jobs, e)
         \/ jobs # <<>> /\ (jobs' = Tail(jobs) \/ jobs' = Append(Tail(jobs), e))
  PROVE  Sound'
<1>1. turn \in [Turns -> FitTurns] /\ RowIsCarried
  BY DEF IInv, ProcessOK
<1>2. turn'[t] = u /\ \A d \in Turns \ {t} : turn'[d] = turn[d]
  BY <1>1
<1>3. turn' \in [Turns -> FitTurns]
  BY <1>1
<1>4. Quiet
  BY <1>2 DEF Quiet, TurnStep
<1>5. RowIsCarried'
  <2> SUFFICES ASSUME row'.status = "processing"
               PROVE  \E d \in Turns : turn'[d].own /\ turn'[d].phase \in Executing
    BY DEF RowIsCarried, Executing
  <2>1. PICK d \in Turns : turn[d].own /\ turn[d].phase \in Executing
    BY <1>1 DEF RowIsCarried, Executing
  <2>2. CASE d = t
    BY <1>2, <2>1, <2>2, Zenon DEF Carries
  <2>3. CASE d # t
    BY <1>2, <2>1, <2>3, Zenon
  <2> QED BY <2>2, <2>3
<1>6. e \in FitJobs'
  <2>1. e.row.status # "absent" => NoGhost(e.row)'
    <3>1. FitRows \subseteq FitRows'
      BY <1>4, StillFits
    <3> QED BY <3>1 DEF FitRows, Fits
  <2> QED BY <1>2, <2>1 DEF FitJobs, Fits, Late
<1> QED BY <1>3, <1>4, <1>5, <1>6, Kept

\* A turn that starts waits for its start to be stored.
Waits == \A t \in Turns : turn[t].phase = "starting" => turn'[t].phase = "starting"
Goes == Sound' /\ Waits

LEMMA TurnMoves ==
  ASSUME IInv, up = "up", up' = up, StoreStep, ReplyStep,
         NEW t \in Turns, NEW u \in FitTurns, turn' = [turn EXCEPT ![t] = u], Follows(turn[t], u),
         row' \in FitRows,
         row'.status = "processing" => row.status = "processing" /\ Carries(turn[t], u),
         NEW e, Fits(e, t, u),
         \/ jobs' = jobs \/ jobs' = Append(jobs, e)
         \/ jobs # <<>> /\ (jobs' = Tail(jobs) \/ jobs' = Append(Tail(jobs), e))
  PROVE  Goes
<1>1. turn \in [Turns -> FitTurns]
  BY DEF IInv, ProcessOK
<1>2. \A d \in Turns : turn[d].phase = "starting" =>
                         turn'[d].phase = "starting" /\ turn'[d].cats = turn[d].cats
  BY <1>1 DEF Follows
<1>3. e \in Job /\ e.do # "start"
  BY DEF Fits
<1>4. StartsFit'
  BY <1>2, <1>3, StartsKept
<1>5. (u.phase = "dead" => turn[t].phase = "dead") /\ (turn[t].phase \in Past => u.phase \in Past)
  BY DEF Follows
<1> QED BY <1>2, <1>4, <1>5, TurnGoes DEF Goes, Waits

LEMMA NothingNew ==
  ASSUME NEW t, NEW u PROVE \E e : Fits(e, t, u)
<1> DEFINE r == [NoRow EXCEPT !.status = "queued"]
<1>1. r \in FitRows /\ r \in Row /\ r.status = "queued"
  BY Empties, RowsKept DEF FitRows, NoRow
<1> HIDE DEF r
<1>2. Fits(NewJob("read", None, None, r), t, u)
  BY <1>1 DEF Fits, NewJob, Job, Persists, Late
<1> QED BY <1>2

\* A step of a turn that puts no operation into the queue.
LEMMA TurnMovesAlone ==
  ASSUME IInv, up = "up", up' = up, StoreStep, ReplyStep,
         NEW t \in Turns, NEW u \in FitTurns, turn' = [turn EXCEPT ![t] = u], Follows(turn[t], u),
         row' \in FitRows,
         row'.status = "processing" => row.status = "processing" /\ Carries(turn[t], u),
         jobs' = jobs \/ (jobs # <<>> /\ jobs' = Tail(jobs))
  PROVE  Goes
  BY NothingNew, TurnMoves

\* A step that touches no turn.
LEMMA TurnsStay ==
  ASSUME IInv, up = "up", up' = up, StoreStep, ReplyStep, turn' = turn,
         row' \in FitRows, row'.status = "processing" => row.status = "processing",
         NEW e, Fits(e, None, NoTurn),
         \/ jobs' = jobs \/ jobs' = Append(jobs, e)
         \/ jobs # <<>> /\ (jobs' = Tail(jobs) \/ jobs' = Append(Tail(jobs), e))
  PROVE  Goes
<1>1. turn' \in [Turns -> FitTurns] /\ RowIsCarried'
  BY DEF IInv, ProcessOK, RowIsCarried
<1>2. Quiet
  BY DEF Quiet, TurnStep
<1>3. e \in FitJobs'
  <2>1. e.row.status # "absent" => NoGhost(e.row)'
    <3>1. FitRows \subseteq FitRows'
      BY <1>2, StillFits
    <3> QED BY <3>1 DEF FitRows, Fits
  <2> QED BY <2>1 DEF FitJobs, Fits, Late, NoTurn, Past
<1>4. StartsFit'
  BY StartsKept DEF Fits
<1> QED BY <1>1, <1>2, <1>3, <1>4, Kept DEF Goes, Waits
-----------------------------------------------------------------------------
(* The actions, by what they touch. *)

LEMMA Parts ==
  ASSUME IInv
  PROVE  /\ row \in FitRows /\ row \in Row
         /\ \A t \in Turns : /\ turn[t] \in FitTurns /\ turn[t] \in Turn
                             /\ turn[t].hand.snap \in FitRows
                             /\ turn[t].hand.snap.status # "processing"
         /\ jobs # <<>> => Head(jobs) \in FitJobs /\ Head(jobs) \in Job
<1>1. row \in FitRows /\ jobs \in Seq(FitJobs) /\ turn \in [Turns -> FitTurns]
  BY DEF IInv, ProcessOK
<1>2. FitRows \subseteq Row /\ FitJobs \subseteq Job
  BY DEF FitRows, FitJobs
<1>3. \A t \in Turns : /\ turn[t] \in FitTurns /\ turn[t] \in Turn
                       /\ turn[t].hand.snap \in FitRows
                       /\ turn[t].hand.snap.status # "processing"
  BY <1>1 DEF FitTurns
<1> HIDE DEF FitJobs
<1>4. jobs # <<>> => Head(jobs) \in FitJobs
  BY <1>1
<1> QED BY <1>1, <1>2, <1>3, <1>4

LEMMA Stores ==
  ASSUME IInv, NEW do, NEW t, NEW ok, Write(do, t, ok)
  PROVE  /\ StoreStep /\ jobs # <<>> /\ Head(jobs) \in FitJobs /\ Head(jobs) \in Job
         /\ Head(jobs).do = do /\ Head(jobs).by = t
  BY Parts DEF Write, StoreStep

\* The steps of a turn that touch neither the row nor the queue.
LEMMA TurnAlone ==
  ASSUME IInv, up = "up", NEW t \in Turns, NEW c,
         \/ /\ c \in Cats
            /\ \/ EndChild(t, c, "succeeded") \/ EndChild(t, c, "failed") \/ PassOver(t, c)
               \/ Respond(t, c)
         \/ Stop(t) \/ Finish(t)
  PROVE  Goes
<1> DEFINE v == turn[t]
<1>0. /\ row \in FitRows /\ v \in FitTurns /\ v \in Turn
      /\ UNCHANGED <<row, custody, jobs, replied, up>>
  BY Parts DEF EndChild, PassOver, Respond, Stop, Finish
<1>1. StoreStep /\ ReplyStep
  BY <1>0 DEF StoreStep, ReplyStep
<1>2. ASSUME NEW u \in FitTurns, turn' = [turn EXCEPT ![t] = u], Follows(v, u),
             row.status = "processing" => Carries(v, u)
      PROVE  Goes
  BY <1>0, <1>1, <1>2, TurnMovesAlone
<1>3. ASSUME NEW h \in {"succeeded", "failed"}, c \in Cats, EndChild(t, c, h) PROVE Goes
  <2> DEFINE w == [v EXCEPT !.child[c] = h]
  <2>1. w \in FitTurns /\ w.phase = "running" /\ v.phase = "running" /\ w.own = v.own
    BY <1>0, <1>3, TurnsKept DEF EndChild, Ends, Turn
  <2>2. CASE v.own
    <3>1. turn' = [turn EXCEPT ![t] = w]
      BY <1>3, <2>1, <2>2 DEF EndChild
    <3>2. Follows(v, w) /\ Carries(v, w)
      BY <2>1 DEF Follows, Carries, Past, Executing
    <3> QED BY <1>2, <2>1, <3>1, <3>2
  <2>3. CASE ~v.own
    <3>1. turn' = [turn EXCEPT ![t] = Settling(w, h)]
      BY <1>3, <2>1, <2>3 DEF EndChild
    <3>2. Settling(w, h) \in FitTurns
      BY <2>1, TurnsKept DEF Verdicts
    <3>3. Settling(w, h).phase = "settling"
      BY <2>1 DEF Settling, FitTurns, Turn
    <3>4. Follows(v, Settling(w, h)) /\ Carries(v, Settling(w, h))
      BY <2>1, <2>3, <3>3 DEF Follows, Carries, Past
    <3> QED BY <1>2, <3>1, <3>2, <3>4
  <2> QED BY <2>2, <2>3
<1>4. CASE PassOver(t, c)
  <2> DEFINE w == [v EXCEPT !.todo = @ \ {c}, !.hand = NoHand]
             u == IF w.todo = {} THEN Remains(w, "over") ELSE w
  <2>1. w \in FitTurns /\ w.phase = "settling" /\ v.phase = "settling"
    BY <1>0, <1>4, HandsKept DEF PassOver, Free, Turn
  <2>2. u \in FitTurns /\ u.phase \in {"settling", "over"}
    BY <2>1, TurnsKept DEF Phases, Remains, NoTurn
  <2>3. turn' = [turn EXCEPT ![t] = u]
    BY <1>4 DEF PassOver, Drop
  <2>4. Follows(v, u) /\ Carries(v, u)
    BY <2>1, <2>2 DEF Follows, Carries, Past, Executing
  <2> QED BY <1>2, <2>2, <2>3, <2>4
<1>5. CASE c \in Cats /\ Respond(t, c)
  <2> DEFINE u == [v EXCEPT !.hand = [NoHand EXCEPT !.cat = c, !.step = "answered"]]
  <2>1. u \in FitTurns /\ u.phase = v.phase /\ v.phase = "settling"
    BY <1>0, <1>5, HandsKept DEF Respond, Open, Free, Steps, Turn
  <2>2. turn' = [turn EXCEPT ![t] = u]
    BY <1>5 DEF Respond
  <2>3. Follows(v, u) /\ Carries(v, u)
    BY <2>1 DEF Follows, Carries, Past, Executing
  <2> QED BY <1>2, <2>1, <2>2, <2>3
<1>6. CASE Stop(t)
  <2> DEFINE u == [v EXCEPT !.verdict = "stopped"]
  <2>1. u \in FitTurns /\ u.phase = v.phase /\ u.own = v.own /\ v.phase = "running"
    BY <1>0, <1>6, TurnsKept DEF Stop, Verdicts, Turn
  <2>2. turn' = [turn EXCEPT ![t] = u]
    BY <1>6 DEF Stop
  <2>3. Follows(v, u) /\ Carries(v, u)
    BY <2>1 DEF Follows, Carries, Past, Executing
  <2> QED BY <1>2, <2>1, <2>2, <2>3
<1>7. CASE Finish(t)
  <2> DEFINE u == Settling(v, Verdict(t))
  <2>1. Verdict(t) \in Verdicts
    BY DEF Verdict, Verdicts
  <2>2. u \in FitTurns /\ u.phase = "settling" /\ v.phase = "running"
    BY <1>0, <1>7, <2>1, TurnsKept DEF Finish, Ended, Settling, Turn
  <2>3. turn' = [turn EXCEPT ![t] = u] /\ row.status # "processing"
    BY <1>7 DEF Finish
  <2>4. Follows(v, u)
    BY <2>2 DEF Follows, Past
  <2> QED BY <1>2, <2>2, <2>3, <2>4
<1> QED BY <1>3, <1>4, <1>5, <1>6, <1>7
\* A settlement goes on, or is done with a cat.
LEMMA Hands ==
  ASSUME IInv, NEW t \in Turns, turn[t].phase # "idle"
  PROVE  /\ \A step \in Steps : To(t, step) =>
              \E u \in FitTurns : /\ turn' = [turn EXCEPT ![t] = u]
                                  /\ Follows(turn[t], u) /\ Carries(turn[t], u)
         /\ \A c : Drop(t, c) =>
              \E u \in FitTurns : /\ turn' = [turn EXCEPT ![t] = u] /\ u.phase \in {turn[t].phase, "over"}
                                  /\ turn[t].phase \in Past => Follows(turn[t], u) /\ Carries(turn[t], u)
<1> DEFINE v == turn[t]
<1>0. v \in FitTurns /\ v \in Turn
  BY Parts
<1>1. ASSUME NEW step \in Steps, To(t, step)
      PROVE  \E u \in FitTurns : /\ turn' = [turn EXCEPT ![t] = u]
                                 /\ Follows(turn[t], u) /\ Carries(turn[t], u)
  <2> DEFINE u == [v EXCEPT !.hand.step = step, !.hand.snap = NoRow]
  <2>1. u \in FitTurns /\ u.phase = v.phase /\ u.own = v.own /\ u.cats = v.cats
    BY <1>0, HandsKept DEF Turn
  <2>2. turn' = [turn EXCEPT ![t] = u]
    BY <1>1 DEF To
  <2>3. Follows(v, u) /\ Carries(v, u)
    BY <2>1 DEF Follows, Carries
  <2> HIDE DEF u
  <2> QED BY <2>1, <2>2, <2>3
<1>2. ASSUME NEW c, Drop(t, c)
      PROVE  \E u \in FitTurns : /\ turn' = [turn EXCEPT ![t] = u] /\ u.phase \in {turn[t].phase, "over"}
                                 /\ turn[t].phase \in Past => Follows(turn[t], u) /\ Carries(turn[t], u)
  <2> DEFINE w == [v EXCEPT !.todo = @ \ {c}, !.hand = NoHand]
             u == IF w.todo = {} THEN Remains(w, "over") ELSE w
  <2>1. w \in FitTurns /\ w.phase = v.phase
    BY <1>0, HandsKept DEF Turn
  <2>2. u \in FitTurns /\ u.phase \in {v.phase, "over"}
    BY <2>1, TurnsKept DEF Phases, Remains, NoTurn
  <2>3. turn' = [turn EXCEPT ![t] = u]
    BY <1>2 DEF Drop
  <2>4. v.phase \in Past => Follows(v, u) /\ Carries(v, u)
    BY <2>2 DEF Follows, Carries, Past, Executing
  <2> HIDE DEF u
  <2> QED BY <2>2, <2>3, <2>4
<1> QED BY <1>1, <1>2

\* An operation of a turn has come to its end.
LEMMA TurnHears ==
  ASSUME IInv, up = "up", NEW t \in Turns, NEW c, NEW ok \in BOOLEAN,
         \/ c \in Cats /\ Exposed(t, c)
         \/ Staged(t) \/ Committed(t, ok) \/ Responded(t, ok)
         \/ Detached(t) \/ Marked(t)
  PROVE  Goes
<1> DEFINE v == turn[t]
<1>0. /\ row \in FitRows /\ v \in FitTurns /\ v \in Turn /\ v.hand.snap \in FitRows
      /\ v.hand.snap.status # "processing"
      /\ up' = up /\ replied' = replied /\ jobs' = Tail(jobs)
  BY Parts DEF Exposed, Staged, Committed, Responded, Detached, Marked
<1>1. ReplyStep
  BY <1>0 DEF ReplyStep
<1>2. ASSUME Staged(t) \/ Committed(t, ok) \/ Responded(t, ok) \/ Detached(t) \/ Marked(t)
      PROVE  \E do \in Late, k \in BOOLEAN : Write(do, t, k)
  BY <1>2, Zenon DEF Staged, Committed, Responded, Detached, Marked, Late
<1>3. StoreStep /\ jobs # <<>>
  <2>1. Exposed(t, c) => \E k \in BOOLEAN : Write("expose", t, k)
    BY Zenon DEF Exposed
  <2> QED BY <1>2, <2>1, Stores
<1>4. (Staged(t) \/ Committed(t, ok) \/ Responded(t, ok) \/ Detached(t) \/ Marked(t))
        => v.phase \in Past /\ v.phase # "idle"
  BY <1>2, Stores DEF FitJobs, Past
<1>5. ASSUME NEW u \in FitTurns, turn' = [turn EXCEPT ![t] = u], Follows(v, u),
             row' = row \/ row' = v.hand.snap, row' = row => Carries(v, u)
      PROVE  Goes
  <2>1. row' \in FitRows
    BY <1>0, <1>5
  <2>2. row'.status = "processing" => row.status = "processing" /\ Carries(v, u)
    BY <1>0, <1>5
  <2> QED BY <1>0, <1>1, <1>3, <1>5, <2>1, <2>2, TurnMovesAlone
<1>6. CASE c \in Cats /\ Exposed(t, c)
  <2>1. PICK h \in Ends : turn' = [turn EXCEPT ![t].child[c] = h]
    BY <1>6 DEF Exposed, Ends
  <2> DEFINE u == [v EXCEPT !.child[c] = h]
  <2>2. u \in FitTurns /\ u.phase = v.phase /\ u.own = v.own /\ u.cats = v.cats
    BY <1>6, <1>0, TurnsKept DEF Turn
  <2>3. turn' = [turn EXCEPT ![t] = u] /\ row' = row
    BY <1>6, <2>1 DEF Exposed
  <2>4. Follows(v, u) /\ Carries(v, u)
    BY <2>2 DEF Follows, Carries
  <2> QED BY <1>5, <2>2, <2>3, <2>4
<1>7. CASE Staged(t)
  <2> DEFINE u == Settling(v, v.verdict)
  <2>1. u \in FitTurns /\ u.phase = "settling"
    BY <1>0, TurnsKept DEF Verdicts, Turn, Settling
  <2>2. turn' = [turn EXCEPT ![t] = u] /\ row' = row
    BY <1>7 DEF Staged
  <2>3. Follows(v, u) /\ Carries(v, u)
    BY <1>4, <1>7, <2>1 DEF Follows, Carries, Past, Executing
  <2> QED BY <1>5, <2>1, <2>2, <2>3
<1>8. CASE Committed(t, ok) \/ Responded(t, ok) \/ Detached(t)
  <2>1. \E step \in Steps : To(t, step)
    BY <1>8 DEF Committed, Responded, Detached, Steps
  <2>2. row' = row \/ row' = v.hand.snap
    BY <1>8 DEF Committed, Responded, Detached
  <2> QED BY <1>4, <1>5, <1>8, <2>1, <2>2, Hands
<1>9. CASE Marked(t)
  <2>1. \E d : Drop(t, d)
    BY <1>9 DEF Marked
  <2>2. row' = row /\ v.phase \in Past
    BY <1>4, <1>9 DEF Marked
  <2> QED BY <1>4, <1>5, <1>9, <2>1, <2>2, Hands
<1> QED BY <1>6, <1>7, <1>8, <1>9
\* A cat sees the message: its exposure is put into the row and into the queue.
LEMMA SeenFits ==
  ASSUME IInv, NEW t \in Turns, NEW c \in Cats, c \in row.targets, turn[t].phase # "dead",
         NEW do \in {"expose", "read"}, NEW x, NEW v
  PROVE  /\ SeenBy(c, t) \in FitRows /\ SeenBy(c, t).status = row.status
         /\ Fits(NewJob(do, t, c, SeenBy(c, t)), x, v)
<1>1. SeenBy(c, t) \in FitRows /\ row \in FitRows
  BY Parts, RowsKept DEF SeenBy
<1>2. SeenBy(c, t).status = row.status /\ row.status # "absent" /\ SeenBy(c, t) \in Row
  BY <1>1 DEF FitRows, Row, SeenBy
<1> HIDE DEF SeenBy
<1> QED BY <1>1, <1>2 DEF Fits, NewJob, Job, Persists, Late

LEMMA TurnSees ==
  ASSUME IInv, up = "up", NEW t \in Turns, NEW c \in Cats, Expose(t, c) \/ Read(t, c)
  PROVE  Goes
<1> DEFINE v == turn[t]
<1>0. /\ row \in FitRows /\ v \in FitTurns /\ v \in Turn
      /\ custody' = custody /\ replied' = replied /\ up' = up
  BY Parts DEF Expose, Read
<1>1. StoreStep /\ ReplyStep
  BY <1>0 DEF StoreStep, ReplyStep
<1>2. CASE Expose(t, c) /\ c \in row.targets
  <2> DEFINE u == [v EXCEPT !.child[c] = "exposing"]
             e == NewJob("expose", t, c, SeenBy(c, t))
  <2>1. u \in FitTurns /\ u.phase = v.phase /\ u.own = v.own /\ v.phase = "running"
    BY <1>0, <1>2, TurnsKept DEF Expose, Ends, Turn
  <2>2. turn' = [turn EXCEPT ![t] = u] /\ row' = SeenBy(c, t) /\ jobs' = Append(jobs, e)
    BY <1>2 DEF Expose
  <2>3. Follows(v, u) /\ Carries(v, u)
    BY <2>1 DEF Follows, Carries, Past
  <2>4. row' \in FitRows /\ row'.status = row.status /\ Fits(e, t, u)
    BY <1>2, <2>1, <2>2, SeenFits
  <2> HIDE DEF u, e
  <2> QED BY <1>0, <1>1, <2>1, <2>2, <2>3, <2>4, TurnMoves
<1>3. CASE Expose(t, c) /\ c \notin row.targets
  <2> DEFINE u == [v EXCEPT !.child[c] = "running"]
  <2>1. u \in FitTurns /\ u.phase = v.phase /\ u.own = v.own /\ v.phase = "running"
    BY <1>0, <1>3, TurnsKept DEF Expose, Ends, Turn
  <2>2. turn' = [turn EXCEPT ![t] = u] /\ row' = row /\ jobs' = jobs
    BY <1>3 DEF Expose
  <2>3. Follows(v, u) /\ Carries(v, u)
    BY <2>1 DEF Follows, Carries, Past
  <2> QED BY <1>0, <1>1, <2>1, <2>2, <2>3, TurnMovesAlone
<1>4. CASE Read(t, c)
  <2> DEFINE e == NewJob("read", t, c, SeenBy(c, t))
             u == [NoTurn EXCEPT !.phase = "running", !.cats = {c}, !.child[c] = "running"]
  <2>1. /\ v.phase \in {"idle", "running"} /\ row.status = "queued" /\ c \in row.targets
        /\ row' = SeenBy(c, t) /\ jobs' = Append(jobs, e)
    BY <1>4 DEF Read
  <2>2. row' \in FitRows /\ row'.status = "queued" /\ \A x, y : Fits(e, x, y)
    BY <2>1, SeenFits
  <2>3. CASE v.phase = "idle" /\ turn' = [turn EXCEPT ![t] = u]
    <3>1. NoTurn \in FitTurns /\ NoTurn \in Turn
      BY Empties DEF FitTurns
    <3>2. u \in FitTurns /\ u.phase = "running"
      <4> HIDE DEF NoTurn
      <4> QED BY <3>1 DEF FitTurns, Turn
    <3>3. Follows(v, u)
      BY <2>3, <3>2 DEF Follows, Past
    <3> HIDE DEF u, e
    <3> QED BY <1>0, <1>1, <2>1, <2>2, <2>3, <3>2, <3>3, TurnMoves
  <2>4. CASE turn' = turn
    <3> HIDE DEF e
    <3> QED BY <1>0, <1>1, <2>1, <2>2, <2>4, TurnsStay
  <2> QED BY <1>4, <2>3, <2>4 DEF Read
<1> QED BY <1>2, <1>3, <1>4

\* A turn of the row ends, or looks at the record before it runs.
LEMMA TurnEnds ==
  ASSUME IInv, up = "up", NEW t \in Turns, Ensure(t) \/ GiveBack(t) \/ Withdraw(t)
  PROVE  Goes
<1> DEFINE v == turn[t]
<1>0. /\ row \in FitRows /\ row \in Row /\ v \in FitTurns /\ v \in Turn
      /\ custody' = custody /\ replied' = replied /\ up' = up
      /\ v.phase \in {"ensuring", "running"}
  BY Parts DEF Ensure, GiveBack, Withdraw, Ended
<1>1. StoreStep /\ ReplyStep
  BY <1>0 DEF StoreStep, ReplyStep
<1>2. Requeued \in FitRows /\ Requeued \in Row /\ Requeued.status = "queued"
  BY <1>0, RowsKept DEF Requeued, FitRows, Row
<1>3. CASE Ensure(t) /\ row.status # "absent" /\ Active
  <2> DEFINE u == [v EXCEPT !.phase = "running"]
  <2>1. u \in FitTurns /\ u.phase = "running" /\ u.own = v.own
    BY <1>0, TurnsKept DEF Phases, Turn
  <2>2. turn' = [turn EXCEPT ![t] = u] /\ row' = row /\ jobs' = jobs
    BY <1>3 DEF Ensure
  <2>3. Follows(v, u) /\ Carries(v, u)
    BY <1>0, <2>1 DEF Follows, Carries, Past, Executing
  <2> QED BY <1>0, <1>1, <2>1, <2>2, <2>3, TurnMovesAlone
<1>4. CASE Ensure(t) /\ ~(row.status # "absent" /\ Active)
  <2>1. PICK h \in Verdicts : turn' = [turn EXCEPT ![t] = Settling(v, h)]
    BY <1>4 DEF Ensure, Verdicts
  <2> DEFINE u == Settling(v, h)
  <2>2. u \in FitTurns /\ u.phase = "settling"
    BY <1>0, TurnsKept DEF Settling, Turn
  <2>3. row' \in FitRows /\ row'.status # "processing" /\ jobs' = jobs
    BY <1>0, <1>2, <1>4 DEF Ensure
  <2>4. Follows(v, u)
    BY <1>0, <2>2 DEF Follows, Past
  <2> HIDE DEF u
  <2> QED BY <1>0, <1>1, <2>1, <2>2, <2>3, <2>4, TurnMovesAlone DEF u
<1>5. CASE GiveBack(t)
  <2> DEFINE u == [v EXCEPT !.phase = "returning", !.verdict = Verdict(t)]
             e == NewJob("stage", t, None, Requeued)
  <2>1. Verdict(t) \in Verdicts
    BY DEF Verdict, Verdicts
  <2>2. u \in FitTurns /\ u.phase = "returning"
    BY <1>0, <2>1, TurnsKept DEF Turn
  <2>3. turn' = [turn EXCEPT ![t] = u] /\ row' = Requeued /\ jobs' = Append(jobs, e)
    BY <1>5 DEF GiveBack
  <2>4. Follows(v, u)
    BY <1>0, <2>2 DEF Follows, Past
  <2>5. Fits(e, t, u)
    BY <1>2, <2>2 DEF Fits, NewJob, Job, Persists, Late, Past
  <2> HIDE DEF u, e
  <2> QED BY <1>0, <1>1, <1>2, <2>2, <2>3, <2>4, <2>5, TurnMoves
<1>6. CASE Withdraw(t)
  <2> DEFINE u == [v EXCEPT !.phase = "returning"]
             r == IF row.status = "processing" THEN row ELSE [NoRow EXCEPT !.targets = v.cats]
             e == NewJob("withdraw", t, None, r)
  <2>1. u \in FitTurns /\ u.phase = "returning"
    BY <1>0, TurnsKept DEF Phases, Turn
  <2>2. turn' = [turn EXCEPT ![t] = u] /\ jobs' = Append(jobs, e)
        /\ row' \in {row, NoRow} /\ row'.status # "processing"
    BY <1>6 DEF Withdraw, NoRow
  <2>3. row' \in FitRows
    BY <1>0, <2>2, Empties
  <2>4. Follows(v, u)
    BY <1>0, <2>1 DEF Follows, Past
  <2>5. r \in Row /\ (r.status # "absent" => r \in FitRows)
    BY <1>0, Empties DEF NoRow, Row, Turn
  <2> HIDE DEF r
  <2>6. Fits(e, t, u)
    BY <2>1, <2>5 DEF Fits, NewJob, Job, Persists, Late, Past
  <2> HIDE DEF u, e
  <2> QED BY <1>0, <1>1, <2>1, <2>2, <2>3, <2>4, <2>6, TurnMoves
<1> QED BY <1>3, <1>4, <1>5, <1>6
\* A withdrawal has been stored, or its row comes back.
LEMMA TurnWithdrew ==
  ASSUME IInv, up = "up", NEW t \in Turns, NEW ok \in BOOLEAN, Withdrawn(t, ok)
  PROVE  Goes
<1> DEFINE v == turn[t]
           r == Head(jobs).row
           back == [r EXCEPT !.status = "queued"]
<1>0. /\ row \in FitRows /\ v \in FitTurns /\ v \in Turn /\ replied' = replied /\ up' = up
      /\ Write("withdraw", t, ok)
  BY Parts DEF Withdrawn
<1>1. StoreStep /\ ReplyStep
  BY <1>0, Stores DEF ReplyStep
<1>2. /\ jobs # <<>> /\ r \in Row /\ v.phase \in Past /\ (r.status # "absent" => NoGhost(r))
  <2>1. jobs # <<>> /\ Head(jobs) \in FitJobs /\ Head(jobs).do = "withdraw" /\ Head(jobs).by = t
    BY <1>0, Stores
  <2> QED BY <2>1 DEF FitJobs, Job, Late
<1>3. CASE ok \/ r.status = "absent"
  <2> DEFINE u == Settling(v, "stopped")
  <2>1. u \in FitTurns /\ u.phase = "settling"
    BY <1>0, TurnsKept DEF Verdicts, Settling, Turn
  <2>2. turn' = [turn EXCEPT ![t] = u] /\ row' = row /\ jobs' = Tail(jobs)
    BY <1>3 DEF Withdrawn
  <2>3. Follows(v, u) /\ Carries(v, u)
    BY <1>2, <2>1 DEF Follows, Carries, Past, Executing
  <2> QED BY <1>0, <1>1, <1>2, <2>1, <2>2, <2>3, TurnMovesAlone
<1>4. CASE ~(ok \/ r.status = "absent")
  <2> DEFINE e == NewJob("stage", t, None, back)
  <2>1. r \in FitRows
    BY <1>2, <1>4 DEF FitRows
  <2>2. back \in FitRows /\ back \in Row /\ back.status = "queued"
    BY <1>2, <2>1, RowsKept DEF Row
  <2> HIDE DEF back
  <2>3. row' \in FitRows /\ (row'.status = "processing" => row.status = "processing")
    BY <1>0, <1>4, <2>2 DEF Withdrawn, back
  <2>4. jobs' = Append(Tail(jobs), e) /\ turn' = [turn EXCEPT ![t] = v]
    <3>1. turn \in [Turns -> FitTurns]
      BY DEF IInv, ProcessOK
    <3> QED BY <1>4, <3>1 DEF Withdrawn, back
  <2>5. Fits(e, t, v)
    BY <1>2, <2>2 DEF Fits, NewJob, Job, Persists, Late
  <2>6. Follows(v, v) /\ Carries(v, v)
    BY DEF Follows, Carries
  <2> HIDE DEF e
  <2> QED BY <1>0, <1>1, <1>2, <2>3, <2>4, <2>5, <2>6, TurnMoves
<1> QED BY <1>3, <1>4

\* A row that is built again is for cats that are pending in the record.
LEMMA RebuiltFits == ASSUME IInv, up = "up" PROVE Rebuilt \in FitRows /\ Rebuilt.status # "processing"
<1>1. CASE ~Active \/ custody.status = "processing"
  BY <1>1, Empties DEF Rebuilt, NoRow
<1>2. CASE ~(~Active \/ custody.status = "processing")
  <2> DEFINE n == [status |-> "queued", targets |-> custody.pending,
                   seen |-> [c \in Cats |-> IF c \in custody.pending THEN row.seen[c] ELSE None],
                   exposed |-> {e \in row.exposed : e[1] \in custody.pending},
                   handled |-> row.handled \cap custody.pending]
  <2>1. row \in Row /\ NoGhost(row) /\ custody \in Custody
    BY Parts DEF IInv, DurableOK, FitRows
  <2>2. n \in Row
    BY <2>1 DEF Row, Custody
  <2>3. /\ n.targets = custody.pending /\ n.exposed \subseteq row.exposed /\ n.status = "queued"
        /\ \A c \in custody.pending : ~Buried(c)
    BY DEF IInv, PendingAlive
  <2> HIDE DEF n
  <2>4. n \in FitRows
    BY <2>1, <2>2, <2>3 DEF FitRows, NoGhost
  <2> QED BY <1>2, <2>3, <2>4 DEF Rebuilt, n
<1> QED BY <1>1, <1>2

\* The steps of a settlement.
LEMMA TurnSettles ==
  ASSUME IInv, up = "up", NEW t \in Turns, NEW c,
         \/ c \in Cats /\ (TakeHandled(t, c) \/ Detach(t, c) \/ MarkFailed(t, c))
         \/ CheckHandled(t) \/ CommitAnswer(t) \/ Reconcile(t)
  PROVE  Goes
<1> DEFINE v == turn[t]
<1>0. /\ row \in FitRows /\ row \in Row /\ v \in FitTurns /\ v \in Turn
      /\ v.hand.snap \in FitRows /\ v.hand.snap.status # "processing"
      /\ custody' = custody /\ replied' = replied /\ up' = up
      /\ v.phase = "settling"
  BY Parts DEF TakeHandled, CheckHandled, CommitAnswer, Reconcile, Detach, MarkFailed, At, With,
               Comes, Open, Free
<1>1. StoreStep /\ ReplyStep
  BY <1>0 DEF StoreStep, ReplyStep
<1>2. \A u : u.phase = "settling" => Follows(v, u) /\ Carries(v, u)
  BY <1>0 DEF Follows, Carries, Past, Executing
<1>3. \A u \in FitTurns : u.phase = "over" => Follows(v, u) /\ Carries(v, u)
  BY <1>0 DEF Follows, Carries, Past, Executing
<1>4. CASE c \in Cats /\ TakeHandled(t, c)
  <2> DEFINE u == [v EXCEPT !.hand = [cat |-> c, snap |-> row, step |-> "taken"]]
             n == [row EXCEPT !.targets = @ \ {c}, !.handled = @ \cup {c}, !.seen[c] = None]
  <2>1. row.status = "queued" /\ turn' = [turn EXCEPT ![t] = u] /\ row' \in {NoRow, n} /\ jobs' = jobs
    <3>1. turn' = [turn EXCEPT ![t] = u]
      BY <1>4 DEF TakeHandled
    <3>2. row.status = "queued" /\ row' \in {NoRow, n} /\ jobs' = jobs
      BY <1>4 DEF TakeHandled, Handles, Bound
    <3> QED BY <3>1, <3>2
  <2>2. u \in FitTurns /\ u.phase = "settling"
    BY <1>4, <1>0, <2>1, HandsKept DEF Steps, Turn
  <2>3. n \in FitRows /\ n.status = "queued"
    BY <1>4, <1>0, <2>1, RowsKept DEF Row
  <2>4. NoRow \in FitRows /\ NoRow.status = "absent"
    BY Empties DEF NoRow
  <2> HIDE DEF u, n
  <2>5. row' \in FitRows /\ row'.status # "processing"
    BY <2>1, <2>3, <2>4
  <2> QED BY <1>0, <1>1, <1>2, <2>1, <2>2, <2>5, TurnMovesAlone
<1>5. ASSUME NEW step \in Steps, To(t, step), row' \in FitRows,
             row'.status = "processing" => row.status = "processing",
             jobs' = jobs
      PROVE  Goes
  BY <1>0, <1>1, <1>5, Hands, TurnMovesAlone
<1>6. \A do \in {"handle", "respond", "detached"} :
        \A u, d : (u.phase \in Past /\ d \in Cats \cup {v.hand.cat})
                   => Fits(NewJob(do, t, d, NoRow), t, u)
  BY <1>0, Empties DEF Fits, NewJob, Job, Persists, Late, NoRow, Turn
<1>7. "settling" \in Past /\ v.phase \in Past
  BY <1>0 DEF Past
<1>8. CASE CheckHandled(t)
  <2>1. CASE jobs' = Append(jobs, NewJob("handle", t, v.hand.cat, NoRow))
             /\ turn' = [turn EXCEPT ![t].hand.step = "commit"] /\ row' = row
    <3> DEFINE u == [v EXCEPT !.hand.step = "commit"]
    <3>1. u \in FitTurns /\ u.phase = "settling" /\ turn' = [turn EXCEPT ![t] = u]
      BY <1>0, <2>1, HandsKept DEF Steps, Turn
    <3> HIDE DEF u
    <3> QED BY <1>0, <1>1, <1>2, <1>6, <1>7, <2>1, <3>1, TurnMoves
  <2>2. CASE To(t, "detach") /\ row' = v.hand.snap /\ jobs' = jobs
    BY <1>0, <1>5, <2>2 DEF Steps
  <2> QED BY <1>8, <2>1, <2>2 DEF CheckHandled
<1>9. CASE CommitAnswer(t)
  <2>1. jobs' = Append(jobs, NewJob("respond", t, v.hand.cat, NoRow)) /\ row' = row
        /\ To(t, "respond") /\ "respond" \in Steps
    BY <1>9 DEF CommitAnswer, Steps
  <2>2. PICK u \in FitTurns : turn' = [turn EXCEPT ![t] = u] /\ Follows(v, u) /\ Carries(v, u)
    BY <1>0, <2>1, Hands
  <2>3. u.phase \in Past
    BY <1>7, <2>2 DEF Follows
  <2> QED BY <1>0, <1>1, <1>6, <2>1, <2>2, <2>3, TurnMoves
<1>10. CASE Reconcile(t)
  <2>1. To(t, "detach") /\ "detach" \in Steps /\ jobs' = jobs
    BY <1>10 DEF Reconcile, Steps
  <2>2. row' \in {row, Rebuilt}
    BY <1>10 DEF Reconcile
  <2> QED BY <1>0, <1>5, <2>1, <2>2, RebuiltFits
<1>11. CASE c \in Cats /\ Detach(t, c)
  <2> DEFINE u == [v EXCEPT !.hand = [NoHand EXCEPT !.cat = c, !.step = "late"]]
  <2>1. u \in FitTurns /\ u.phase = "settling"
    BY <1>11, <1>0, HandsKept DEF Steps, Turn
  <2>2. turn' = [turn EXCEPT ![t] = u] /\ row' = row
        /\ jobs' = Append(jobs, NewJob("detached", t, c, NoRow))
    BY <1>11 DEF Detach
  <2> HIDE DEF u
  <2> QED BY <1>11, <1>0, <1>1, <1>2, <1>6, <1>7, <2>1, <2>2, TurnMoves
<1>12. CASE c \in Cats /\ MarkFailed(t, c) /\ Returns(t, c)
  <2> DEFINE u == [v EXCEPT !.hand = [NoHand EXCEPT !.cat = c, !.step = "persist"]]
             n == [row EXCEPT !.seen[c] = IF @ = t THEN None ELSE @]
             e == NewJob("mark", t, c, n)
  <2>1. u \in FitTurns /\ u.phase = "settling"
    BY <1>12, <1>0, HandsKept DEF Steps, Turn
  <2>2. turn' = [turn EXCEPT ![t] = u] /\ row' = n /\ jobs' = Append(jobs, e)
    BY <1>12 DEF MarkFailed
  <2>3. row.status = "queued"
    BY <1>12 DEF Returns
  <2>4. n \in FitRows /\ n \in Row /\ n.status = "queued"
    <3>1. n \in FitRows
      BY <1>12, <1>0, <2>3, RowsKept
    <3>2. n.status = "queued"
      BY <1>0, <2>3 DEF Row
    <3> QED BY <3>1, <3>2 DEF FitRows
  <2> HIDE DEF n
  <2>5. Fits(e, t, u)
    BY <1>12, <2>1, <2>4 DEF Fits, NewJob, Job, Persists, Late, Past
  <2> HIDE DEF u, e
  <2> QED BY <1>0, <1>1, <1>2, <2>1, <2>2, <2>4, <2>5, TurnMoves
<1>13. CASE c \in Cats /\ MarkFailed(t, c) /\ ~Returns(t, c)
  <2>1. Drop(t, c) /\ row' = row /\ jobs' = jobs
    BY <1>13 DEF MarkFailed
  <2>2. PICK u \in FitTurns : turn' = [turn EXCEPT ![t] = u] /\ Follows(v, u) /\ Carries(v, u)
    <3>1. v.phase \in Past
      BY <1>0 DEF Past
    <3> QED BY <1>0, <2>1, <3>1, Hands
  <2> QED BY <1>0, <1>1, <2>1, <2>2, TurnMovesAlone
<1> QED BY <1>4, <1>8, <1>9, <1>10, <1>11, <1>12, <1>13
\* The steps that touch no turn.
LEMMA QueueAlone ==
  ASSUME IInv, up = "up", NEW ok \in BOOLEAN, NEW t, NEW c,
         \/ t \in Turns /\ (Reply(t, c) \/ ReadStored(t))
         \/ RolledBack \/ Remove \/ Removed(ok)
  PROVE  Goes
<1>0. row \in FitRows /\ row \in Row /\ turn' = turn /\ up' = up
  BY Parts DEF Reply, ReadStored, RolledBack, Remove, Removed
<1>1. ASSUME StoreStep, ReplyStep, row' \in FitRows, row'.status = "processing" => row.status = "processing",
             jobs' = jobs \/ (jobs # <<>> /\ jobs' = Tail(jobs))
      PROVE  Goes
  BY <1>0, <1>1, NothingNew, TurnsStay
<1>2. CASE t \in Turns /\ Reply(t, c)
  <2>1. StoreStep /\ row' = row /\ jobs' = jobs
    BY <1>2 DEF Reply, StoreStep
  <2>2. ReplyStep
    BY <1>2 DEF Reply, ReplyStep
  <2> QED BY <1>0, <1>1, <2>1, <2>2
<1>3. CASE (t \in Turns /\ ReadStored(t)) \/ RolledBack
  <2>1. \E do, k, by : Write(do, by, k)
    BY <1>3, Zenon DEF ReadStored, RolledBack
  <2>2. StoreStep /\ jobs # <<>>
    BY <2>1, Stores
  <2>3. row' = row /\ jobs' = Tail(jobs) /\ ReplyStep
    BY <1>3 DEF ReadStored, RolledBack, ReplyStep
  <2> QED BY <1>0, <1>1, <2>2, <2>3
<1>4. CASE Remove
  <2> DEFINE e == NewJob("remove", None, None, row)
  <2>1. StoreStep /\ ReplyStep /\ row' = NoRow /\ jobs' = Append(jobs, e) /\ row.status = "queued"
    BY <1>4 DEF Remove, StoreStep, ReplyStep
  <2>2. row' \in FitRows /\ row'.status # "processing"
    BY <2>1, Empties DEF NoRow
  <2>3. Fits(e, None, NoTurn)
    BY <1>0, <2>1 DEF Fits, NewJob, Job, Persists, Late
  <2> HIDE DEF e
  <2> QED BY <1>0, <2>1, <2>2, <2>3, TurnsStay
<1>5. CASE Removed(ok)
  <2>1. /\ StoreStep /\ jobs # <<>> /\ Head(jobs) \in FitJobs /\ Head(jobs) \in Job
        /\ Head(jobs).do = "remove"
    BY <1>5, Stores DEF Removed
  <2>2. Head(jobs).row \in FitRows /\ Head(jobs).row.status = "queued"
    BY <2>1 DEF FitJobs, FitRows, Job
  <2>3. row' \in {row, Head(jobs).row} /\ jobs' = Tail(jobs) /\ ReplyStep
    BY <1>5 DEF Removed, ReplyStep
  <2> QED BY <1>0, <1>1, <2>1, <2>2, <2>3
<1> QED BY <1>2, <1>3, <1>4, <1>5

-----------------------------------------------------------------------------
(* The start of the row's turn. *)

\* The row is started for the cats it is for, which no dead turn answered.
LEMMA DispatchKeeps ==
  ASSUME IInv, NEW t \in Turns, Dispatch(t)
  PROVE  Sound'
<1> DEFINE v == turn[t]
           n == [row EXCEPT !.status = "processing"]
           e == NewJob("start", t, None, n)
           u == [NoTurn EXCEPT !.phase = "starting", !.own = TRUE, !.cats = row.targets]
<1>0. /\ row \in FitRows /\ row \in Row /\ v.phase = "idle" /\ row' = n /\ jobs' = Append(jobs, e)
      /\ turn' = [turn EXCEPT ![t] = u] /\ up = "up"
      /\ custody' = custody /\ replied' = replied /\ up' = up
  BY Parts DEF Dispatch
<1>1. n \in FitRows /\ n \in Row /\ n.targets = row.targets /\ n.status = "processing"
  BY <1>0, RowsKept DEF FitRows, Row
<1>2. u \in FitTurns /\ u.phase = "starting" /\ u.cats = row.targets
  <2>1. NoTurn \in FitTurns /\ NoTurn \in Turn
    BY Empties DEF FitTurns
  <2> HIDE DEF NoTurn
  <2> QED BY <1>0, <2>1 DEF FitTurns, Turn, Row
<1>3. u.own = TRUE
  BY DEF NoTurn
<1> HIDE DEF n, u
<1>4. turn \in [Turns -> FitTurns] /\ jobs \in Seq(FitJobs) /\ StartsFit
  BY DEF IInv, ProcessOK
<1>5. turn' \in [Turns -> FitTurns] /\ turn'[t] = u /\ \A d \in Turns \ {t} : turn'[d] = turn[d]
  BY <1>0, <1>2, <1>4
<1>6. Quiet
  BY <1>0, <1>2, <1>5 DEF Quiet, StoreStep, ReplyStep, TurnStep, Past
<1>7. /\ FitRows \subseteq FitRows' /\ FitTurns \subseteq FitTurns' /\ FitJobs \subseteq FitJobs'
      /\ custody' \in Custody /\ RecordFits' /\ PendingAlive' /\ DownIsEmpty'
  BY <1>6, StillFits
<1>8. e \in Job /\ e.do = "start" /\ e.by = t /\ e.row = n
  BY <1>1 DEF NewJob, Job, Persists
<1> HIDE DEF e
<1>9. \A r \in FitRows : NoGhost(r)'
  BY <1>7 DEF FitRows
<1>10. e \in FitJobs'
  BY <1>1, <1>8, <1>9 DEF FitJobs, Persists, Late
<1>11. jobs' \in Seq(FitJobs')
  <2> HIDE DEF FitJobs
  <2>1. jobs \in Seq(FitJobs')
    BY <1>4, <1>7, SeqMonotonic
  <2> QED BY <1>0, <1>10, <2>1, QueueKeeps
<1>12. StartsFit'
  <2>1. jobs \in Seq(Job)
    <3>1. FitJobs \subseteq Job
      BY DEF FitJobs
    <3> HIDE DEF FitJobs
    <3> QED BY <1>4, <3>1, SeqMonotonic
  <2>2. \A j \in Starts(jobs) : /\ j.by \in Turns /\ j.by # t /\ turn[j.by].phase = "starting"
                                /\ turn[j.by].cats = j.row.targets
    BY <1>0, <1>4 DEF StartsFit
  <2>3. Once(jobs') /\ Starts(jobs') = Starts(jobs) \cup {e}
    BY <1>0, <1>4, <1>8, <2>1, <2>2, StartsOfAppend DEF StartsFit
  <2>4. \A j \in Starts(jobs') : /\ j.by \in Turns /\ turn'[j.by].phase = "starting"
                                 /\ turn'[j.by].cats = j.row.targets
    BY <1>1, <1>2, <1>5, <1>8, <2>2, <2>3
  <2> QED BY <2>3, <2>4 DEF StartsFit, Once, Starts
<1>13. RowIsCarried'
  BY <1>2, <1>3, <1>5, Zenon DEF RowIsCarried
<1>14. row' \in FitRows' /\ turn' \in [Turns -> FitTurns']
  BY <1>0, <1>1, <1>5, <1>7
<1> QED BY <1>7, <1>11, <1>12, <1>13, <1>14 DEF Sound, ProcessOK
\* The start has been stored, or could not be: there is no other start of the turn.
LEMMA StartOver ==
  ASSUME IInv, up = "up", NEW t \in Turns, Started(t) \/ NotStarted(t)
  PROVE  Sound'
<1> DEFINE v == turn[t]
<1>0. /\ row \in FitRows /\ row \in Row /\ v \in FitTurns /\ v \in Turn
      /\ replied' = replied /\ up' = up
  BY Parts DEF Started, NotStarted
<1>1. /\ StoreStep /\ jobs # <<>> /\ Head(jobs).do = "start" /\ Head(jobs).by = t
      /\ ReplyStep
  BY <1>0, Stores DEF Started, NotStarted, ReplyStep
<1>2. jobs \in Seq(Job) /\ StartsFit
  <2>1. FitJobs \subseteq Job /\ jobs \in Seq(FitJobs) /\ StartsFit
    BY DEF FitJobs, IInv, ProcessOK
  <2> HIDE DEF FitJobs
  <2> QED BY <2>1, SeqMonotonic
<1>3. /\ Once(Tail(jobs)) /\ Tail(jobs) \in Seq(Job)
      /\ \A j \in Starts(Tail(jobs)) : /\ j.by \in Turns \ {t} /\ turn[j.by].phase = "starting"
                                       /\ turn[j.by].cats = j.row.targets
      /\ v.phase = "starting"
  <2>1. Head(jobs) \in Starts(jobs) /\ Once(Tail(jobs)) /\ Starts(Tail(jobs)) \subseteq Starts(jobs)
        /\ \A j \in Starts(Tail(jobs)) : j.by # t
    BY <1>1, <1>2, StartsOfTail DEF StartsFit
  <2>2. Tail(jobs) \in Seq(Job)
    BY <1>1, <1>2
  <2> QED BY <1>1, <1>2, <2>1, <2>2 DEF StartsFit
<1>4. ASSUME NEW s, Once(s), Starts(s) = Starts(Tail(jobs)), jobs' = s,
             NEW u, turn' = [turn EXCEPT ![t] = u]
      PROVE  StartsFit'
  <2>1. turn \in [Turns -> FitTurns]
    BY DEF IInv, ProcessOK
  <2>2. \A j \in Starts(s) : /\ j.by \in Turns /\ turn'[j.by].phase = "starting"
                             /\ turn'[j.by].cats = j.row.targets
    BY <1>3, <1>4, <2>1
  <2> QED BY <1>4, <2>2 DEF StartsFit, Once, Starts
<1>5. CASE Started(t)
  <2> DEFINE u == [v EXCEPT !.phase = "ensuring"]
  <2>1. u \in FitTurns /\ u.phase = "ensuring" /\ u.own = v.own
    BY <1>0, TurnsKept DEF Phases, Turn
  <2>2. turn' = [turn EXCEPT ![t] = u] /\ row' = row /\ jobs' = Tail(jobs)
    BY <1>5 DEF Started
  <2> HIDE DEF u
  <2>3. StartsFit'
    BY <1>3, <1>4, <2>2
  <2>4. Carries(v, u)
    BY <2>1 DEF Carries, Executing
  <2>5. v.phase \notin Past
    BY <1>3 DEF Past
  <2> QED BY <1>0, <1>1, <2>1, <2>2, <2>3, <2>4, <2>5, NothingNew, TurnGoes
<1>6. CASE NotStarted(t)
  <2> DEFINE u == Remains(v, "over")
             e == NewJob("rollback", None, None, Requeued)
  <2>1. u \in FitTurns /\ u.phase = "over"
    BY <1>0, TurnsKept DEF Phases, Remains, NoTurn
  <2>2. turn' = [turn EXCEPT ![t] = u]
    BY <1>6 DEF NotStarted
  <2>3. Requeued \in FitRows /\ Requeued \in Row /\ Requeued.status = "queued"
    BY <1>0, RowsKept DEF Requeued, FitRows, Row
  <2>4. Fits(e, t, u) /\ e \in Job /\ e.do # "start"
    BY <2>1, <2>3 DEF Fits, NewJob, Job, Persists, Late
  <2>5. row' \in FitRows /\ row'.status # "processing"
    BY <1>0, <1>6, <2>3 DEF NotStarted
  <2>6. jobs' = Tail(jobs) \/ jobs' = Append(Tail(jobs), e)
    BY <1>6 DEF NotStarted
  <2> HIDE DEF u, e
  <2>7. StartsFit'
    <3>1. Once(Append(Tail(jobs), e)) /\ Starts(Append(Tail(jobs), e)) = Starts(Tail(jobs))
      BY <1>3, <2>4, StartsOfAppend
    <3> QED BY <1>3, <1>4, <2>2, <2>6, <3>1
  <2>8. u.phase # "dead" /\ u.phase \in Past
    BY <2>1 DEF Past
  <2> QED BY <1>0, <1>1, <2>1, <2>2, <2>4, <2>5, <2>6, <2>7, <2>8, TurnGoes
<1> QED BY <1>5, <1>6
-----------------------------------------------------------------------------
(* The process dies and starts again. *)

\* The process has nothing in its hands.
Empty ==
  /\ row = NoRow /\ jobs = <<>>
  /\ turn \in [Turns -> Turn] /\ \A t \in Turns : turn[t].hand = NoHand

\* Then it fits, whatever turns are dead.
LEMMA EmptyFits == Empty => ProcessOK
<1> SUFFICES ASSUME Empty PROVE ProcessOK
  OBVIOUS
<1> USE DEF Empty
<1>1. NoRow \in FitRows /\ NoRow.status = "absent" /\ NoHand.snap = NoRow
  BY Empties DEF NoRow, NoHand
<1>2. \A t \in Turns : turn[t] \in FitTurns
  BY <1>1 DEF FitTurns
<1>3. jobs \in Seq(FitJobs)
  BY EmptySeq
<1>4. StartsFit
  BY DEF StartsFit, Starts, Once
<1> QED BY <1>1, <1>2, <1>3, <1>4 DEF ProcessOK, RowIsCarried

LEMMA CrashKeeps ==
  ASSUME IInv, Crash
  PROVE  Sound'
<1>1. /\ row' = NoRow /\ jobs' = <<>> /\ up' = "down" /\ custody' = custody
      /\ turn' = [t \in Turns |-> IF turn[t].phase = "idle" THEN turn[t] ELSE Remains(turn[t], "dead")]
  BY DEF Crash
<1>2. \A t \in Turns : turn[t] \in FitTurns
  BY Parts
<1>3. ASSUME NEW t \in Turns
      PROVE  turn'[t] \in Turn /\ turn'[t].hand = NoHand /\ turn'[t].phase \in {"idle", "dead"}
  <2>1. CASE turn[t].phase = "idle"
    BY <1>1, <1>2, <2>1 DEF FitTurns
  <2>2. CASE turn[t].phase # "idle"
    <3>1. turn'[t] = Remains(turn[t], "dead")
      BY <1>1, <2>2
    <3>2. Remains(turn[t], "dead") \in FitTurns
      BY <1>2, TurnsKept DEF Phases
    <3>3. Remains(turn[t], "dead").hand = NoHand /\ Remains(turn[t], "dead").phase = "dead"
      BY DEF Remains, NoTurn
    <3> QED BY <3>1, <3>2, <3>3 DEF FitTurns
  <2> QED BY <2>1, <2>2
<1>4. turn' \in [Turns -> Turn] /\ \A t \in Turns : turn'[t].hand = NoHand
  BY <1>1, <1>3
<1>5. ProcessOK'
  <2>1. Empty'
    BY <1>1, <1>4 DEF Empty
  <2> QED BY <2>1, EmptyFits, PTL
<1>6. DownIsEmpty' /\ PendingAlive'
  BY <1>1, <1>3 DEF DownIsEmpty, PendingAlive
<1>7. custody' \in Custody /\ RecordFits'
  BY <1>1 DEF IInv, DurableOK, RecordFits, Acceptable
<1> QED BY <1>5, <1>6, <1>7 DEF Sound

\* The restart settles what a dead turn answered: nothing of it is pending.
LEMMA RecoverKeeps ==
  ASSUME IInv, Recover
  PROVE  Sound'
<1> DEFINE done == Answered \cup Witnessed
<1>1. /\ up = "down" /\ up' = "reconciled" /\ custody \in Custody /\ Acceptable(custody)
      /\ UNCHANGED <<row, jobs, turn, replied>>
  BY DEF Recover, IInv, DurableOK, RecordFits
<1>2. /\ row = NoRow /\ jobs = <<>> /\ turn \in [Turns -> FitTurns]
      /\ \A t \in Turns : turn[t].phase \in {"idle", "dead"} /\ turn[t].hand = NoHand
  BY <1>1 DEF IInv, ProcessOK, DownIsEmpty
<1>3. turn' \in [Turns -> Turn]
  BY <1>1, <1>2 DEF FitTurns
<1>4. ProcessOK'
  <2>1. Empty'
    BY <1>1, <1>2, <1>3 DEF Empty
  <2> QED BY <2>1, EmptyFits, PTL
<1>5. DownIsEmpty'
  BY <1>1, <1>2 DEF DownIsEmpty
<1>6. done \subseteq custody.pending /\ Answered \subseteq done /\ custody.pending \subseteq Cats
  BY <1>1 DEF Answered, Witnessed, Custody
<1>7. /\ custody' \in Custody /\ RecordFits'
      /\ custody'.exposed = custody.exposed /\ custody'.pending \subseteq custody.pending \ Answered
  <2> HIDE DEF done
  <2>1. CASE ~Active
    <3>1. custody' = custody
      BY <2>1 DEF Recover
    <3> QED BY <1>1, <2>1, <3>1 DEF RecordFits, Acceptable, Active
  <2>2. CASE Active
    <3>1. custody' = [custody EXCEPT !.status = "queued", !.pending = custody.pending \ done,
                        !.seen = Unseen, !.handled = @ \cup done, !.outcome = @ \cup done]
      BY <2>2 DEF Recover, done
    <3>2. custody' \in Custody
      BY <1>1, <1>6, <3>1, Empties DEF Custody
    <3>3. /\ custody'.pending = custody.pending \ done /\ custody'.handled = custody.handled \cup done
          /\ custody'.withdrawn = custody.withdrawn /\ custody'.outcome = custody.outcome \cup done
          /\ custody'.exposed = custody.exposed
      BY <1>1, <3>1 DEF Custody
    <3> QED BY <1>1, <1>6, <3>2, <3>3 DEF RecordFits, Acceptable
  <2> QED BY <2>1, <2>2
<1>8. PendingAlive'
  BY <1>1, <1>6, <1>7 DEF PendingAlive, Buried, Answered
<1> QED BY <1>4, <1>5, <1>7, <1>8 DEF Sound

\* The row that a restart puts into the queue is for what is pending in the record.
LEMMA RestoreKeeps ==
  ASSUME IInv, Restore
  PROVE  Sound'
<1> DEFINE n == [status |-> "queued", targets |-> custody.pending, seen |-> custody.seen,
                 exposed |-> custody.exposed, handled |-> custody.handled]
<1>1. /\ up = "reconciled" /\ up' = "up" /\ custody \in Custody /\ Acceptable(custody)
      /\ UNCHANGED <<custody, jobs, turn, replied>> /\ row' \in {NoRow, n}
      /\ \A c \in custody.pending : ~Buried(c)
  BY DEF Restore, IInv, DurableOK, RecordFits, PendingAlive
<1>2. /\ jobs = <<>> /\ turn \in [Turns -> FitTurns] /\ StartsFit
  BY <1>1 DEF IInv, ProcessOK, DownIsEmpty
<1>3. n \in FitRows
  <2>1. n \in Row
    BY <1>1 DEF Row, Custody
  <2>2. n.status = "queued" /\ n.targets = custody.pending /\ n.exposed = custody.exposed
    OBVIOUS
  <2> HIDE DEF n
  <2> QED BY <1>1, <2>1, <2>2 DEF FitRows, NoGhost
<1>4. row' \in FitRows /\ row'.status # "processing"
  BY <1>1, <1>3, Empties DEF NoRow
<1> HIDE DEF n
<1>5. FitRows' = FitRows /\ FitTurns' = FitTurns
  BY <1>1 DEF FitRows, FitTurns, NoGhost, Buried
<1>6. ProcessOK'
  <2>1. jobs' \in Seq(FitJobs')
    BY <1>1, <1>2, EmptySeq
  <2>2. StartsFit'
    BY <1>1, <1>2 DEF StartsFit, Starts, Once
  <2> QED BY <1>1, <1>2, <1>4, <1>5, <2>1, <2>2 DEF ProcessOK, RowIsCarried
<1>7. DownIsEmpty' /\ PendingAlive' /\ RecordFits' /\ custody' \in Custody
  BY <1>1 DEF DownIsEmpty, PendingAlive, Buried, RecordFits, Acceptable
<1> QED BY <1>6, <1>7 DEF Sound
-----------------------------------------------------------------------------
(* The invariant is inductive. *)

LEMMA InitIInv == Init => IInv
<1> SUFFICES ASSUME Init PROVE IInv
  OBVIOUS
<1> USE DEF Init
<1>1. row \in Row /\ row.status = "queued" /\ row.targets = Cats /\ row.exposed = {}
  BY Empties DEF NoRow, Row
<1>2. custody \in Custody /\ custody.exposed = {} /\ Acceptable(custody)
  BY Empties DEF Custody, Acceptable
<1>3. row \in FitRows
  BY <1>1, <1>2 DEF FitRows, NoGhost, Buried
<1>4. jobs \in Seq(FitJobs) /\ StartsFit
  BY EmptySeq DEF StartsFit, Starts, Once
<1>5. turn \in [Turns -> FitTurns]
  BY Empties
<1>6. ProcessOK
  BY <1>1, <1>3, <1>4, <1>5 DEF ProcessOK, RowIsCarried
<1>7. DurableOK
  <2>1. MaxFaults \in Nat /\ MaxCrashes \in Nat
    BY BoundsAssumption
  <2> QED BY <1>2, <2>1 DEF DurableOK, RecordFits
<1> QED BY <1>2, <1>6, <1>7 DEF IInv, DownIsEmpty, PendingAlive, Buried

\* While the server is down nothing but a restart, or a crash, happens.
LEMMA DownIsQuiet ==
  ASSUME IInv, Next, up # "up"
  PROVE  Crash \/ Recover \/ Restore
<1>1. /\ row = NoRow /\ jobs = <<>> /\ \A t \in Turns : turn[t].phase \in {"idle", "dead"}
  BY DEF IInv, DownIsEmpty
<1>2. \A do, t, ok : ~Write(do, t, ok)
  BY <1>1 DEF Write
<1>3. ASSUME NEW t \in Turns, NEW c, NEW ok
      PROVE  /\ ~Exposed(t, c) /\ ~Started(t) /\ ~NotStarted(t) /\ ~ReadStored(t) /\ ~Staged(t)
             /\ ~Detached(t) /\ ~Marked(t) /\ ~Withdrawn(t, ok) /\ ~Committed(t, ok)
             /\ ~Responded(t, ok) /\ ~RolledBack /\ ~Removed(ok)
  BY <1>2, Zenon DEF Exposed, Started, NotStarted, ReadStored, Staged, Detached, Marked, Withdrawn,
                     Committed, Responded, RolledBack, Removed
<1>4. ASSUME NEW t \in Turns, NEW c
      PROVE  /\ ~Expose(t, c) /\ ~Read(t, c) /\ ~Reply(t, c) /\ ~Ensure(t) /\ ~Stop(t) /\ ~Dispatch(t)
             /\ ~EndChild(t, c, "succeeded") /\ ~EndChild(t, c, "failed")
  BY <1>1 DEF Expose, Read, Reply, Ensure, Stop, Dispatch, EndChild
<1>5. ASSUME NEW t \in Turns, NEW c
      PROVE  /\ ~Finish(t) /\ ~GiveBack(t) /\ ~Withdraw(t) /\ ~PassOver(t, c) /\ ~TakeHandled(t, c)
             /\ ~Respond(t, c) /\ ~Detach(t, c) /\ ~MarkFailed(t, c) /\ ~CheckHandled(t)
             /\ ~CommitAnswer(t) /\ ~Reconcile(t) /\ ~Remove
  BY <1>1 DEF Finish, GiveBack, Withdraw, PassOver, TakeHandled, Respond, Detach, MarkFailed,
              CheckHandled, CommitAnswer, Reconcile, Remove, Ended, Comes, Open, Free, At, With
<1>6. (\A ok : ~Removed(ok)) /\ ~RolledBack /\ ~Remove
  BY <1>2 DEF Removed, RolledBack, Remove
<1> QED BY <1>3, <1>4, <1>5, <1>6, Zenon DEF Next
\* What every step does to the record, the answers and the counters.
Durably ==
  /\ StoreStep \/ Recover
  /\ replied' = replied \/ \E t \in Turns, c \in Cats : replied' = replied \cup {<<c, t>>}
  /\ up' = up \/ up' \in {"down", "reconciled", "up"}
  /\ faults' = faults \/ (faults < MaxFaults /\ faults' = faults + 1)
  /\ crashes' = crashes \/ (crashes < MaxCrashes /\ crashes' = crashes + 1)

LEMMA EveryStep ==
  ASSUME IInv, Next
  PROVE  Durably
<1>1. ASSUME NEW do, NEW t, NEW ok, Write(do, t, ok), UNCHANGED <<replied, up, crashes>>
      PROVE  Durably
  <2>1. StoreStep
    BY <1>1, Stores
  <2>2. faults' = faults \/ (faults < MaxFaults /\ faults' = faults + 1)
    BY <1>1 DEF Write
  <2> QED BY <1>1, <2>1, <2>2 DEF Durably
<1>2. ASSUME UNCHANGED <<custody, replied, up, crashes>>,
             faults' = faults \/ (faults < MaxFaults /\ faults' = faults + 1)
      PROVE  Durably
  BY <1>2 DEF StoreStep, Durably
<1>3. ASSUME NEW t, NEW c, NEW ok,
             \/ Exposed(t, c) \/ Started(t) \/ NotStarted(t) \/ ReadStored(t) \/ Staged(t)
             \/ Detached(t) \/ Marked(t) \/ Withdrawn(t, ok) \/ Committed(t, ok) \/ Responded(t, ok)
             \/ RolledBack \/ Removed(ok)
      PROVE  Durably
  <2>1. \E do, by, k : Write(do, by, k)
    BY <1>3, Zenon DEF Exposed, Started, NotStarted, ReadStored, Staged, Detached, Marked, Withdrawn,
                       Committed, Responded, RolledBack, Removed
  <2>2. UNCHANGED <<replied, up, crashes>>
    BY <1>3 DEF Exposed, Started, NotStarted, ReadStored, Staged, Detached, Marked, Withdrawn,
                Committed, Responded, RolledBack, Removed
  <2> QED BY <1>1, <2>1, <2>2
<1>4. ASSUME NEW t, NEW c,
             \/ Expose(t, c) \/ Read(t, c) \/ EndChild(t, c, "succeeded") \/ EndChild(t, c, "failed")
             \/ PassOver(t, c) \/ TakeHandled(t, c) \/ Respond(t, c) \/ Detach(t, c) \/ MarkFailed(t, c)
             \/ Dispatch(t) \/ Ensure(t) \/ Stop(t) \/ Finish(t) \/ GiveBack(t) \/ Withdraw(t)
             \/ CommitAnswer(t) \/ Remove
      PROVE  Durably
  BY <1>2, <1>4
  DEF Expose, Read, EndChild, PassOver, TakeHandled, Respond, Detach, MarkFailed, Dispatch, Ensure,
      Stop, Finish, GiveBack, Withdraw, CommitAnswer, Remove
<1>5. ASSUME NEW t, CheckHandled(t) \/ Reconcile(t)
      PROVE  Durably
  <2>1. UNCHANGED <<custody, replied, up, crashes>>
    BY <1>5 DEF CheckHandled, Reconcile
  <2>2. faults' = faults \/ (faults < MaxFaults /\ faults' = faults + 1)
    <3>1. CASE CheckHandled(t)
      BY <3>1 DEF CheckHandled
    <3>2. CASE Reconcile(t)
      BY <3>2 DEF Reconcile
    <3> QED BY <1>5, <3>1, <3>2
  <2> QED BY <1>2, <2>1, <2>2
<1>6. ASSUME NEW t \in Turns, NEW c \in Cats, Reply(t, c)
      PROVE  Durably
  BY <1>6 DEF Reply, Durably, StoreStep
<1>7. CASE Crash \/ Recover \/ Restore
  BY <1>7 DEF Crash, Recover, Restore, Durably, StoreStep
<1> QED BY <1>3, <1>4, <1>5, <1>6, <1>7, Zenon DEF Next

\* The steps of a server that is up, but the start of a turn and a crash.
LEMMA UpGoes ==
  ASSUME IInv, Next, up = "up"
  PROVE  \/ Goes \/ Crash \/ Recover \/ Restore
         \/ \E t \in Turns : Dispatch(t) \/ Started(t) \/ NotStarted(t)
<1>0. TRUE \in BOOLEAN
  OBVIOUS
<1>1. ASSUME NEW t \in Turns, NEW c \in Cats,
             \/ Expose(t, c) \/ Exposed(t, c) \/ Read(t, c) \/ Reply(t, c)
             \/ EndChild(t, c, "succeeded") \/ EndChild(t, c, "failed")
             \/ PassOver(t, c) \/ TakeHandled(t, c) \/ Respond(t, c) \/ Detach(t, c)
             \/ MarkFailed(t, c)
      PROVE  Goes
  BY <1>0, <1>1, TurnAlone, TurnHears, TurnSees, TurnSettles, QueueAlone, Zenon
<1>2. ASSUME NEW t \in Turns, NEW ok \in BOOLEAN,
             \/ Ensure(t) \/ ReadStored(t) \/ Stop(t) \/ Finish(t) \/ GiveBack(t) \/ Withdraw(t)
             \/ Staged(t) \/ CheckHandled(t) \/ CommitAnswer(t) \/ Reconcile(t) \/ Detached(t)
             \/ Marked(t) \/ Withdrawn(t, ok) \/ Committed(t, ok) \/ Responded(t, ok)
      PROVE  Goes
  BY <1>2, TurnAlone, TurnHears, TurnEnds, TurnWithdrew, TurnSettles, QueueAlone, Zenon
<1>3. CASE RolledBack \/ Remove \/ \E ok \in BOOLEAN : Removed(ok)
  BY <1>0, <1>3, QueueAlone, Zenon
<1> QED BY <1>0, <1>1, <1>2, <1>3, Zenon DEF Next

\* Every step of the process.
LEMMA NextSound ==
  ASSUME IInv, Next
  PROVE  Sound'
<1>1. CASE up # "up"
  BY <1>1, DownIsQuiet, CrashKeeps, RecoverKeeps, RestoreKeeps
<1>2. CASE up = "up"
  BY <1>2, UpGoes, CrashKeeps, RecoverKeeps, RestoreKeeps, DispatchKeeps, StartOver DEF Goes
<1> QED BY <1>1, <1>2

LEMMA NextIInv == IInv /\ [Next]_vars => IInv'
<1> SUFFICES ASSUME IInv, [Next]_vars PROVE IInv'
  OBVIOUS
<1>1. CASE Next
  <2>1. Sound'
    BY <1>1, NextSound
  <2>2. Durably
    BY <1>1, EveryStep
  <2>3. /\ replied \subseteq Exposures /\ up \in {"down", "reconciled", "up"}
        /\ faults \in 0..MaxFaults /\ crashes \in 0..MaxCrashes
    BY DEF IInv, DurableOK
  <2>4. replied' \subseteq Exposures
    BY <2>2, <2>3 DEF Durably, Exposures
  <2>5. up' \in {"down", "reconciled", "up"}
    BY <2>2, <2>3 DEF Durably
  <2>6. faults' \in 0..MaxFaults /\ crashes' \in 0..MaxCrashes
    <3>1. MaxFaults \in Nat /\ MaxCrashes \in Nat
      BY BoundsAssumption
    <3> QED BY <2>2, <2>3, <3>1 DEF Durably
  <2> QED BY <2>1, <2>4, <2>5, <2>6 DEF Sound, IInv, DurableOK
<1>2. CASE UNCHANGED vars
  <2>1. UNCHANGED <<row, custody, jobs, turn, replied, up, faults, crashes>>
    BY <1>2 DEF vars
  <2>2. \A c : Buried(c)' <=> Buried(c)
    BY <2>1 DEF Buried
  <2>3. \A r : NoGhost(r)' <=> NoGhost(r)
    BY <2>1, <2>2 DEF NoGhost
  <2>4. FitRows' = FitRows
    BY <2>3 DEF FitRows
  <2>5. FitTurns' = FitTurns
    BY <2>4 DEF FitTurns
  <2>6. FitJobs' = FitJobs
    BY <2>1, <2>3 DEF FitJobs
  <2>7. ProcessOK'
    BY <2>1, <2>4, <2>5, <2>6 DEF IInv, ProcessOK, StartsFit, Once, Starts, RowIsCarried
  <2>8. DurableOK' /\ DownIsEmpty' /\ PendingAlive'
    BY <2>1, <2>2 DEF IInv, DurableOK, RecordFits, Acceptable, DownIsEmpty, PendingAlive
  <2> QED BY <2>7, <2>8 DEF IInv
<1> QED BY <1>1, <1>2
-----------------------------------------------------------------------------
\* Every reachable state satisfies the inductive invariant.
THEOREM Invariance == Spec => []IInv
  BY InitIInv, NextIInv, PTL DEF Spec

\* The row, the record, the operations that wait and the turns keep their types.
THEOREM TypeCorrect == Spec => []TypeOK
<1>1. IInv => TypeOK
  <2> SUFFICES ASSUME IInv PROVE TypeOK
    OBVIOUS
  <2>1. row \in FitRows /\ jobs \in Seq(FitJobs) /\ turn \in [Turns -> FitTurns]
    BY DEF IInv, ProcessOK
  <2>2. FitRows \subseteq Row /\ FitJobs \subseteq Job /\ FitTurns \subseteq Turn
    BY DEF FitRows, FitJobs, FitTurns
  <2> HIDE DEF FitRows, FitJobs, FitTurns
  <2>3. row \in Row /\ jobs \in Seq(Job) /\ turn \in [Turns -> Turn]
    BY <2>1, <2>2, SeqMonotonic
  <2> QED BY <2>3 DEF IInv, DurableOK, TypeOK
<1> QED BY <1>1, Invariance, PTL

\* A row that is being executed is never stuck: a turn of the row executes it.
THEOREM RowsAreCarried == Spec => []RowIsCarried
<1>1. IInv => RowIsCarried BY DEF IInv, ProcessOK
<1> QED BY <1>1, Invariance, PTL

\* The step that lets a turn run is the one that has stored its start.
LEMMA OnlyStarted ==
  ASSUME IInv, Next, NEW t \in Turns, turn[t].phase = "starting", turn'[t].phase = "ensuring"
  PROVE  Started(t)
<1>1. turn \in [Turns -> FitTurns]
  BY DEF IInv, ProcessOK
<1>2. up = "up"
  BY <1>1 DEF IInv, DownIsEmpty
<1>3. ASSUME NEW d \in Turns, NEW u, turn' = [turn EXCEPT ![d] = u], d # t
      PROVE  FALSE
  BY <1>1, <1>3
<1>4. ~Crash /\ ~Recover /\ ~Restore
  <2>1. turn'[t].phase # "dead" /\ up # "down" /\ up # "reconciled"
    BY <1>2
  <2>2. ASSUME Crash PROVE FALSE
    <3>1. turn'[t] = Remains(turn[t], "dead")
      BY <2>2 DEF Crash
    <3> QED BY <2>1, <3>1 DEF Remains, NoTurn
  <2> QED BY <2>1, <2>2 DEF Recover, Restore
<1>5. PICK d \in Turns : Dispatch(d) \/ Started(d) \/ NotStarted(d)
  BY <1>2, <1>4, UpGoes DEF Goes, Waits
<1>6. d = t
  <2>1. \E u : turn' = [turn EXCEPT ![d] = u]
    BY <1>5 DEF Dispatch, Started, NotStarted
  <2> QED BY <1>3, <2>1
<1>7. ~Dispatch(t)
  BY DEF Dispatch
<1>8. ASSUME NotStarted(t) PROVE FALSE
  <2>1. turn'[t] = Remains(turn[t], "over")
    BY <1>1, <1>8 DEF NotStarted
  <2> QED BY <2>1 DEF Remains, NoTurn
<1> QED BY <1>5, <1>6, <1>7, <1>8

\* A start that is stored is for cats that have no outcome and that no dead turn answered: the
\* store would have refused it, and nothing that could store or restore such a row survives.
THEOREM AnswersStandAtStart == Spec => AnsweredNotStarted
<1> DEFINE A == \A t \in Turns :
                  (turn[t].phase = "starting" /\ turn'[t].phase = "ensuring" /\ Active)
                    => \A c \in turn[t].cats :
                         /\ c \notin custody.outcome
                         /\ \A d \in Turns :
                              turn[d].phase = "dead" => <<c, d>> \notin custody.exposed \cap replied
<1>1. IInv /\ [Next]_vars => [A]_vars
  <2> SUFFICES ASSUME IInv, Next, NEW t \in Turns, turn[t].phase = "starting",
                      turn'[t].phase = "ensuring", Active, NEW c \in turn[t].cats
               PROVE  c \notin custody.outcome /\ ~Buried(c)
    BY DEF Buried
  <2> DEFINE j == Head(jobs)
  <2>1. Started(t)
    BY OnlyStarted
  <2>2. Write("start", t, TRUE)
    BY <2>1 DEF Started
  <2>3. jobs # <<>> /\ j \in FitJobs /\ j.do = "start" /\ j.by = t /\ Acceptable(After(j))
    BY <2>2, Stores DEF Write
  <2>4. After(j) = Projection(j.row) /\ j.row.status # "absent" /\ NoGhost(j.row)
    BY <2>3 DEF After, Persists, FitJobs
  <2>5. j.row.targets = turn[t].cats
    <3>1. jobs \in Seq(Job) /\ StartsFit
      <4>1. jobs \in Seq(FitJobs) /\ FitJobs \subseteq Job /\ StartsFit
        BY DEF IInv, ProcessOK, FitJobs
      <4> HIDE DEF FitJobs
      <4> QED BY <4>1, SeqMonotonic
    <3>2. j \in Starts(jobs)
      BY <2>3, <3>1, StartsOfTail DEF StartsFit
    <3> QED BY <2>3, <3>1, <3>2 DEF StartsFit
  <2>6. c \notin custody.outcome
    <3>1. /\ After(j).pending = j.row.targets /\ After(j).handled = j.row.handled
          /\ After(j).outcome = custody.outcome
      BY <2>4 DEF Projection, IInv, DurableOK, Custody
    <3> QED BY <2>3, <2>5, <3>1 DEF Acceptable
  <2> QED BY <2>4, <2>5, <2>6 DEF NoGhost
<1> QED BY <1>1, Invariance, PTL DEF Spec, AnsweredNotStarted

\* The outcome of a target is final: once the record has it, it stays, the target stays handled
\* and is never pending again.  (That a target is handled without an outcome is not: see
\* AnsweredStaysAnswered.)
OutcomesStand ==
  [][\A c \in custody.outcome :
       c \in custody'.outcome \cap custody'.handled /\ c \notin custody'.pending]_vars

THEOREM OutcomesAreFinal == Spec => OutcomesStand
<1> DEFINE A == \A c \in custody.outcome :
                  c \in custody'.outcome \cap custody'.handled /\ c \notin custody'.pending
<1>1. IInv /\ [Next]_vars => [A]_vars
  <2> SUFFICES ASSUME IInv, Next PROVE A
    OBVIOUS
  <2>1. custody \in Custody
    BY DEF IInv, DurableOK
  <2>2. custody.outcome \subseteq custody'.outcome
    <3>1. CASE StoreStep
      BY <2>1, <3>1, Parts, RecordKept DEF StoreStep
    <3>2. CASE Recover
      BY <2>1, <3>2 DEF Recover, Custody
    <3> QED BY <3>1, <3>2, EveryStep DEF Durably
  <2>3. Acceptable(custody)'
    BY NextIInv DEF IInv, DurableOK, RecordFits
  <2> QED BY <2>2, <2>3 DEF Acceptable
<1> QED BY <1>1, Invariance, PTL DEF Spec, OutcomesStand
-----------------------------------------------------------------------------
(* What waits, and who waits for it. *)

\* The operations that wait for the lock.
InQueue(s) == {s[i] : i \in DOMAIN s}

\* Those that a settlement waits for, and the step at which it does.
Asking == {"handle", "respond", "detached", "mark"}
AskStep(do) ==
  CASE do = "handle" -> "commit" [] do = "respond" -> "respond" [] do = "detached" -> "late"
    [] OTHER -> "persist"
AskSteps == {"commit", "respond", "late", "persist"}
AskedOnce(s) ==
  \A i, k \in DOMAIN s : (s[i].do \in Asking /\ s[k].do \in Asking /\ s[i].by = s[k].by) => i = k

\* A settlement that holds something is under way; what it took out of the queue it has kept; and
\* it waits for at most one operation, at the step of that operation.
HandsFit ==
  /\ \A t \in Turns :
       /\ turn[t].phase # "settling" => turn[t].hand = NoHand
       /\ turn[t].hand.step \in {"taken", "commit"} => turn[t].hand.snap.status # "absent"
  /\ AskedOnce(jobs)
  /\ \A j \in InQueue(jobs) :
       j.do \in Asking => j.by \in Turns /\ turn[j.by].hand.step = AskStep(j.do)

LEMMA QueueOfAppend ==
  ASSUME NEW s \in Seq(Job), NEW e \in Job
  PROVE  /\ Append(s, e) \in Seq(Job) /\ InQueue(Append(s, e)) = InQueue(s) \cup {e}
         /\ (AskedOnce(s) /\ (e.do \in Asking => \A j \in InQueue(s) : j.do \in Asking => j.by # e.by))
              => AskedOnce(Append(s, e))
<1> DEFINE a == Append(s, e)
<1>1. /\ DOMAIN a = DOMAIN s \cup {Len(s) + 1} /\ Len(s) + 1 \notin DOMAIN s
      /\ \A i \in DOMAIN s : a[i] = s[i]
      /\ a[Len(s) + 1] = e /\ a \in Seq(Job)
  OBVIOUS
<1> HIDE DEF a
<1>2. InQueue(a) = InQueue(s) \cup {e}
  BY <1>1 DEF InQueue
<1>3. (AskedOnce(s) /\ (e.do \in Asking => \A j \in InQueue(s) : j.do \in Asking => j.by # e.by))
        => AskedOnce(a)
  BY <1>1 DEF InQueue, AskedOnce
<1> QED BY <1>1, <1>2, <1>3 DEF a

LEMMA QueueOfTail ==
  ASSUME NEW s \in Seq(Job), s # <<>>
  PROVE  /\ Tail(s) \in Seq(Job) /\ InQueue(s) = {Head(s)} \cup InQueue(Tail(s))
         /\ AskedOnce(s) =>
              /\ AskedOnce(Tail(s))
              /\ Head(s).do \in Asking =>
                   \A j \in InQueue(Tail(s)) : j.do \in Asking => j.by # Head(s).by
<1> DEFINE r == Tail(s)
<1>1. /\ 1 \in DOMAIN s /\ s[1] = Head(s) /\ r \in Seq(Job)
      /\ \A i \in DOMAIN r : i + 1 \in DOMAIN s /\ r[i] = s[i + 1] /\ i \in Nat /\ i + 1 # 1
      /\ \A i \in DOMAIN s : i = 1 \/ (i - 1 \in DOMAIN r /\ r[i - 1] = s[i])
  OBVIOUS
<1>2. \A i, k \in DOMAIN r : i + 1 = k + 1 => i = k
  BY <1>1
<1> HIDE DEF r
<1>3. InQueue(s) = {Head(s)} \cup InQueue(r)
  BY <1>1 DEF InQueue
<1>4. ASSUME AskedOnce(s) PROVE AskedOnce(r)
  <2> SUFFICES ASSUME NEW i \in DOMAIN r, NEW k \in DOMAIN r,
                      r[i].do \in Asking, r[k].do \in Asking, r[i].by = r[k].by
               PROVE  i = k
    BY DEF AskedOnce
  <2>1. i + 1 \in DOMAIN s /\ k + 1 \in DOMAIN s /\ r[i] = s[i + 1] /\ r[k] = s[k + 1]
    BY <1>1
  <2>2. i + 1 = k + 1
    BY <1>4, <2>1 DEF AskedOnce
  <2> QED BY <1>2, <2>2
<1>5. ASSUME AskedOnce(s), Head(s).do \in Asking, NEW j \in InQueue(r), j.do \in Asking
      PROVE  j.by # Head(s).by
  <2>1. PICK i \in DOMAIN r : r[i] = j
    BY DEF InQueue
  <2> QED BY <1>1, <1>5, <2>1 DEF AskedOnce
<1> QED BY <1>1, <1>3, <1>4, <1>5 DEF r

LEMMA JobsAreJobs ==
  ASSUME IInv
  PROVE  jobs \in Seq(Job) /\ \A j \in InQueue(jobs) : j \in FitJobs /\ j \in Job /\ j.row \in Row
<1>1. FitJobs \subseteq Job /\ jobs \in Seq(FitJobs) /\ \A j \in Job : j.row \in Row
  BY DEF FitJobs, IInv, ProcessOK, Job
<1> HIDE DEF FitJobs
<1>2. jobs \in Seq(Job)
  BY <1>1, SeqMonotonic
<1> QED BY <1>1, <1>2 DEF InQueue

\* Row s is row r, or r executed or read since.
SameFor(r, s) ==
  \/ s = r
  \/ r.status # "absent" /\ s.status # "absent" /\ s.targets = r.targets /\ s.handled = r.handled

\* No settlement goes on.
HandsStay ==
  \A t \in Turns : /\ turn'[t].hand = turn[t].hand
                   /\ turn'[t].phase # "settling" => turn[t].hand = NoHand

\* A step that neither takes the row out of the queue or puts one in, nor goes on with a settlement.
Stored == Persists \ {"mark"}
Calm ==
  /\ StoreStep /\ SameFor(row, row') /\ up' = up /\ HandsStay
  /\ \E e \in Job :
       /\ e.do \in Stored /\ SameFor(row, e.row)
       /\ \/ jobs' = jobs \/ jobs' = Append(jobs, e)
          \/ /\ jobs # <<>> /\ Head(jobs).do \in Stored
             /\ jobs' = Tail(jobs) \/ jobs' = Append(Tail(jobs), e)

LEMMA RowStored ==
  ASSUME row \in Row
  PROVE  \E e \in Job : e.do \in Stored /\ SameFor(row, e.row)
<1> DEFINE e == NewJob("read", None, None, row)
<1>1. e \in Job /\ e.do = "read" /\ e.row = row
  BY DEF NewJob, Job, Persists
<1> HIDE DEF e
<1> QED BY <1>1 DEF Stored, Persists, SameFor

\* Turn t goes on, its settlement does not.
LEMMA CalmTurn ==
  ASSUME IInv, HandsFit, StoreStep, up' = up, SameFor(row, row'),
         NEW t \in Turns, NEW u, turn' = [turn EXCEPT ![t] = u], u.hand = turn[t].hand,
         u.phase = turn[t].phase \/ u.phase = "settling" \/ turn[t].hand = NoHand,
         \/ jobs' = jobs
         \/ jobs # <<>> /\ Head(jobs).do \in Stored /\ jobs' = Tail(jobs)
         \/ \E e \in Job : /\ e.do \in Stored /\ SameFor(row, e.row)
                           /\ \/ jobs' = Append(jobs, e)
                              \/ jobs # <<>> /\ Head(jobs).do \in Stored /\ jobs' = Append(Tail(jobs), e)
  PROVE  Calm
<1>1. turn \in [Turns -> FitTurns] /\ row \in Row
  BY Parts DEF IInv, ProcessOK
<1>2. \A d \in Turns : /\ turn'[d].hand = turn[d].hand
                       /\ turn'[d].phase # "settling" => turn[d].hand = NoHand
  BY <1>1 DEF HandsFit
<1>3. \E e \in Job : e.do \in Stored /\ SameFor(row, e.row)
  BY <1>1, RowStored
<1> QED BY <1>2, <1>3 DEF Calm, HandsStay

LEMMA CalmStored ==
  ASSUME IInv, NEW do \in Stored, NEW t, NEW ok, Write(do, t, ok)
  PROVE  StoreStep /\ jobs # <<>> /\ Head(jobs).do \in Stored
  BY Stores

LEMMA SameRows ==
  ASSUME NEW r \in Row
  PROVE  /\ SameFor(r, r)
         /\ r.status # "absent" =>
              /\ SameFor(r, [r EXCEPT !.status = "queued"])
              /\ SameFor(r, [r EXCEPT !.status = "processing"])
              /\ \A c, t : SameFor(r, [r EXCEPT !.seen[c] = t, !.exposed = @ \cup {<<c, t>>}])
              /\ \A c, t : SameFor(r, [r EXCEPT !.seen[c] = IF @ = t THEN None ELSE @])
  BY DEF SameFor, Row

LEMMA CalmAlone ==
  ASSUME IInv, HandsFit, up = "up", NEW t \in Turns, NEW c,
         \/ EndChild(t, c, "succeeded") \/ EndChild(t, c, "failed") \/ PassOver(t, c)
         \/ Stop(t) \/ Finish(t) \/ Reply(t, c)
  PROVE  Calm
<1> DEFINE v == turn[t]
<1>1. /\ turn \in [Turns -> FitTurns] /\ v \in Turn /\ row \in Row
      /\ UNCHANGED <<row, custody, jobs, up>>
  BY Parts DEF IInv, ProcessOK, EndChild, PassOver, Stop, Finish, Reply
<1>2. StoreStep /\ SameFor(row, row')
  BY <1>1 DEF StoreStep, SameFor
<1>3. ASSUME NEW u, turn' = [turn EXCEPT ![t] = u], u.hand = v.hand,
             u.phase = v.phase \/ u.phase = "settling" \/ v.hand = NoHand
      PROVE  Calm
  BY <1>1, <1>2, <1>3, CalmTurn
<1>4. ASSUME NEW how \in {"succeeded", "failed"}, EndChild(t, c, how) PROVE Calm
  <2> DEFINE w == [v EXCEPT !.child[c] = how]
             u == IF w.own THEN w ELSE Settling(w, how)
  <2>1. turn' = [turn EXCEPT ![t] = u]
    BY <1>4 DEF EndChild
  <2>2. w.hand = v.hand /\ w.phase = v.phase
    BY <1>1, <1>4 DEF Turn
  <2>3. Settling(w, how).hand = v.hand /\ Settling(w, how).phase = "settling"
    BY <1>1, <2>2 DEF Settling, Turn
  <2> HIDE DEF w
  <2>4. u.hand = v.hand /\ (u.phase = v.phase \/ u.phase = "settling")
    BY <2>2, <2>3
  <2> QED BY <1>3, <2>1, <2>4
<1>5. CASE PassOver(t, c)
  <2> DEFINE w == [v EXCEPT !.todo = @ \ {c}, !.hand = NoHand]
             u == IF w.todo = {} THEN Remains(w, "over") ELSE w
  <2>1. turn' = [turn EXCEPT ![t] = u] /\ v.hand = NoHand
    BY <1>5 DEF PassOver, Drop, Free
  <2>2. u.hand = NoHand
    BY <1>1 DEF Turn, Remains, NoTurn
  <2> QED BY <1>3, <2>1, <2>2
<1>6. CASE Stop(t)
  BY <1>1, <1>3, <1>6 DEF Stop, Turn
<1>7. CASE Finish(t)
  BY <1>1, <1>3, <1>7 DEF Finish, Settling, Turn
<1>8. CASE Reply(t, c)
  BY <1>1, <1>3, <1>8 DEF Reply
<1> QED BY <1>4, <1>5, <1>6, <1>7, <1>8

LEMMA CalmChild ==
  ASSUME IInv, HandsFit, up = "up", NEW t \in Turns, NEW c \in Cats,
         Expose(t, c) \/ Exposed(t, c) \/ Read(t, c)
  PROVE  Calm
<1> DEFINE v == turn[t]
<1>1. /\ turn \in [Turns -> FitTurns] /\ v \in Turn /\ row \in FitRows /\ row \in Row /\ up' = up
      /\ v.phase # "settling" => v.hand = NoHand
  BY Parts DEF IInv, ProcessOK, HandsFit, Expose, Exposed, Read
<1>2. (c \in row.targets) =>
        row.status # "absent" /\ SameFor(row, SeenBy(c, t)) /\ SeenBy(c, t) \in Row
  <2>1. ASSUME c \in row.targets PROVE row.status # "absent"
    BY <1>1, <2>1 DEF FitRows
  <2>2. SeenBy(c, t) \in Row
    <3>1. <<c, t>> \in Exposures
      BY DEF Exposures
    <3>2. [row.seen EXCEPT ![c] = t] \in [Cats -> Turns \cup {None}]
      BY <1>1 DEF Row
    <3> QED BY <1>1, <3>1, <3>2 DEF SeenBy, Row
  <2> QED BY <1>1, <2>1, <2>2, SameRows DEF SeenBy
<1>3. CASE Expose(t, c)
  <2>1. UNCHANGED custody /\ v.phase = "running"
    BY <1>3 DEF Expose
  <2>2. CASE c \in row.targets
    <3> DEFINE e == NewJob("expose", t, c, SeenBy(c, t))
               u == [v EXCEPT !.child[c] = "exposing"]
    <3>1. row' = SeenBy(c, t) /\ jobs' = Append(jobs, e) /\ turn' = [turn EXCEPT ![t] = u]
      BY <1>3, <2>2 DEF Expose
    <3>2. e \in Job /\ e.do \in Stored /\ e.row = SeenBy(c, t)
      BY <1>2, <2>2 DEF NewJob, Job, Stored, Persists
    <3>3. u.hand = v.hand
      BY <1>1 DEF Turn
    <3> QED BY <1>1, <1>2, <2>1, <2>2, <3>1, <3>2, <3>3, CalmTurn DEF StoreStep
  <2>3. CASE c \notin row.targets
    <3>1. /\ turn' = [turn EXCEPT ![t] = [v EXCEPT !.child[c] = "running"]]
          /\ UNCHANGED <<row, jobs>>
      BY <1>3, <2>3 DEF Expose
    <3>2. [v EXCEPT !.child[c] = "running"].hand = v.hand
      BY <1>1 DEF Turn
    <3> QED BY <1>1, <2>1, <3>1, <3>2, SameRows, CalmTurn DEF StoreStep
  <2> QED BY <2>2, <2>3
<1>4. CASE Exposed(t, c)
  <2>1. PICK ok \in BOOLEAN :
          /\ Write("expose", t, ok)
          /\ turn' = [turn EXCEPT ![t].child[c] = IF ok /\ turn[t].verdict = "none"
                                                 THEN "running" ELSE "failed"]
    BY <1>4 DEF Exposed
  <2>2. PICK h : h = IF ok /\ v.verdict = "none" THEN "running" ELSE "failed"
    OBVIOUS
  <2> DEFINE u == [v EXCEPT !.child[c] = h]
  <2>3. turn' = [turn EXCEPT ![t] = u] /\ u.hand = v.hand /\ u.phase = v.phase
    BY <1>1, <2>1, <2>2 DEF Turn
  <2>4. row' = row /\ jobs' = Tail(jobs)
    BY <1>4 DEF Exposed
  <2>5. StoreStep /\ jobs # <<>> /\ Head(jobs).do \in Stored
    BY <2>1, CalmStored DEF Stored, Persists
  <2> HIDE DEF u
  <2> QED BY <1>1, <2>3, <2>4, <2>5, SameRows, CalmTurn
<1>5. CASE Read(t, c)
  <2> DEFINE e == NewJob("read", t, c, SeenBy(c, t))
             w == [NoTurn EXCEPT !.phase = "running", !.cats = {c}, !.child[c] = "running"]
  <2>1. /\ row' = SeenBy(c, t) /\ jobs' = Append(jobs, e) /\ UNCHANGED custody
        /\ c \in row.targets
        /\ \/ turn' = [turn EXCEPT ![t] = w] /\ v.phase = "idle"
           \/ turn' = turn
    BY <1>5 DEF Read
  <2>2. e \in Job /\ e.do \in Stored /\ e.row = SeenBy(c, t)
    BY <1>2, <2>1 DEF NewJob, Job, Stored, Persists
  <2>3. w.hand = NoHand
    BY DEF NoTurn
  <2> HIDE DEF e, w
  <2>4. PICK u : /\ turn' = [turn EXCEPT ![t] = u] /\ u.hand = v.hand
                 /\ u.phase = v.phase \/ v.hand = NoHand
    <3>1. CASE turn' = turn
      BY <1>1, <3>1
    <3>2. CASE turn' = [turn EXCEPT ![t] = w] /\ v.phase = "idle"
      BY <1>1, <2>3, <3>2
    <3> QED BY <2>1, <3>1, <3>2
  <2>5. SameFor(row, row') /\ SameFor(row, e.row) /\ StoreStep
    BY <1>2, <2>1, <2>2 DEF StoreStep
  <2> QED BY <1>1, <2>1, <2>2, <2>4, <2>5, CalmTurn
<1> QED BY <1>3, <1>4, <1>5

LEMMA CalmStart ==
  ASSUME IInv, HandsFit, up = "up", NEW t \in Turns, Dispatch(t) \/ Started(t) \/ NotStarted(t)
  PROVE  Calm
<1> DEFINE v == turn[t]
<1>1. /\ turn \in [Turns -> FitTurns] /\ v \in Turn /\ row \in Row /\ up' = up
      /\ v.phase # "settling" => v.hand = NoHand
  BY Parts DEF IInv, ProcessOK, HandsFit, Dispatch, Started, NotStarted
<1>2. CASE Dispatch(t)
  <2> DEFINE r == [row EXCEPT !.status = "processing"]
             e == NewJob("start", t, None, r)
             u == [NoTurn EXCEPT !.phase = "starting", !.own = TRUE, !.cats = row.targets]
  <2>1. /\ row' = r /\ jobs' = Append(jobs, e) /\ turn' = [turn EXCEPT ![t] = u]
        /\ UNCHANGED custody /\ row.status # "absent" /\ v.phase = "idle"
    BY <1>2 DEF Dispatch
  <2>2. r \in Row /\ SameFor(row, r)
    BY <1>1, <2>1, SameRows DEF Row
  <2>3. e \in Job /\ e.do \in Stored /\ e.row = r
    BY <2>2 DEF NewJob, Job, Stored, Persists
  <2>4. u.hand = NoHand
    BY DEF NoTurn
  <2> HIDE DEF e, u, r
  <2> QED BY <1>1, <2>1, <2>2, <2>3, <2>4, CalmTurn DEF StoreStep
<1>3. CASE Started(t) \/ NotStarted(t)
  <2>1. StoreStep /\ jobs # <<>> /\ Head(jobs).do \in Stored
    BY <1>3, CalmStored DEF Started, NotStarted, Stored, Persists
  <2>2. v.phase = "starting"
    <3>1. jobs \in Seq(Job) /\ StartsFit
      BY JobsAreJobs DEF IInv, ProcessOK
    <3>2. Head(jobs).do = "start" /\ Head(jobs).by = t
      BY <1>3 DEF Started, NotStarted, Write
    <3>3. Head(jobs) \in Starts(jobs)
      BY <2>1, <3>1, <3>2, StartsOfTail DEF StartsFit
    <3> QED BY <3>1, <3>2, <3>3 DEF StartsFit
  <2>3. CASE Started(t)
    <3>1. [v EXCEPT !.phase = "ensuring"].hand = v.hand
      BY <1>1 DEF Turn
    <3>2. turn' = [turn EXCEPT ![t] = [v EXCEPT !.phase = "ensuring"]] /\ row' = row /\ jobs' = Tail(jobs)
      BY <2>3 DEF Started
    <3> QED BY <1>1, <2>1, <2>2, <3>1, <3>2, SameRows, CalmTurn
  <2>4. CASE NotStarted(t)
    <3> DEFINE e == NewJob("rollback", None, None, Requeued)
    <3>1. turn' = [turn EXCEPT ![t] = Remains(v, "over")] /\ Remains(v, "over").hand = NoHand
      BY <2>4 DEF NotStarted, Remains, NoTurn
    <3>2. \/ row' = row /\ jobs' = Tail(jobs)
          \/ row.status = "processing" /\ row' = Requeued /\ jobs' = Append(Tail(jobs), e)
      BY <2>4 DEF NotStarted
    <3>3. Requeued \in Row /\ (row.status = "processing" => SameFor(row, Requeued))
      BY <1>1, SameRows DEF Requeued, Row
    <3>4. e \in Job /\ e.do \in Stored /\ e.row = Requeued
      <4>1. "rollback" \in Stored
        BY DEF Stored, Persists
      <4> QED BY <3>3, <4>1 DEF NewJob, Job, Persists
    <3> HIDE DEF e
    <3> QED BY <1>1, <2>1, <2>2, <3>1, <3>2, <3>3, <3>4, SameRows, CalmTurn
  <2> QED BY <1>3, <2>3, <2>4
<1> QED BY <1>2, <1>3

LEMMA CalmEnd ==
  ASSUME IInv, HandsFit, up = "up", NEW t \in Turns,
         Ensure(t) \/ GiveBack(t) \/ Staged(t) \/ ReadStored(t)
  PROVE  Calm
<1> DEFINE v == turn[t]
<1>1. /\ turn \in [Turns -> FitTurns] /\ v \in Turn /\ row \in Row /\ up' = up
      /\ v.phase # "settling" => v.hand = NoHand
  BY Parts DEF IInv, ProcessOK, HandsFit, Ensure, GiveBack, Staged, ReadStored
<1>2. Requeued \in Row /\ (row.status = "processing" => SameFor(row, Requeued)) /\ SameFor(row, row)
  BY <1>1, SameRows DEF Requeued, Row
<1>3. \A w \in Verdicts : Settling(v, w).hand = v.hand /\ Settling(v, w).phase = "settling"
  BY <1>1 DEF Settling, Turn
<1>4. CASE Ensure(t)
  <2>1. /\ UNCHANGED <<custody, jobs>> /\ v.phase = "ensuring"
        /\ row' = row \/ (row.status = "processing" /\ row' = Requeued)
    BY <1>4 DEF Ensure
  <2>2. [v EXCEPT !.phase = "running"].hand = v.hand
    BY <1>1 DEF Turn
  <2>3. \/ turn' = [turn EXCEPT ![t] = [v EXCEPT !.phase = "running"]]
        \/ \E w \in Verdicts : turn' = [turn EXCEPT ![t] = Settling(v, w)]
    BY <1>4 DEF Ensure, Verdicts
  <2> QED BY <1>1, <1>2, <1>3, <2>1, <2>2, <2>3, CalmTurn DEF StoreStep
<1>5. CASE GiveBack(t)
  <2> DEFINE e == NewJob("stage", t, None, Requeued)
             u == [v EXCEPT !.phase = "returning", !.verdict = Verdict(t)]
  <2>1. /\ row' = Requeued /\ jobs' = Append(jobs, e) /\ turn' = [turn EXCEPT ![t] = u]
        /\ UNCHANGED custody /\ row.status = "processing" /\ v.phase = "running"
    BY <1>5 DEF GiveBack, Ended
  <2>2. e \in Job /\ e.do \in Stored /\ e.row = Requeued
    BY <1>2 DEF NewJob, Job, Stored, Persists
  <2>3. u.hand = v.hand
    BY <1>1 DEF Turn
  <2> HIDE DEF e, u
  <2> QED BY <1>1, <1>2, <2>1, <2>2, <2>3, CalmTurn DEF StoreStep
<1>6. CASE Staged(t)
  <2>1. StoreStep /\ jobs # <<>> /\ Head(jobs).do \in Stored
    BY <1>6, CalmStored DEF Staged, Stored, Persists
  <2>2. row' = row /\ jobs' = Tail(jobs) /\ turn' = [turn EXCEPT ![t] = Settling(v, v.verdict)]
    BY <1>6 DEF Staged
  <2>3. v.verdict \in Verdicts
    BY <1>1 DEF Turn, Verdicts
  <2> QED BY <1>1, <1>2, <1>3, <2>1, <2>2, <2>3, CalmTurn
<1>7. CASE ReadStored(t)
  <2>1. StoreStep /\ jobs # <<>> /\ Head(jobs).do \in Stored
    BY <1>7, CalmStored DEF ReadStored, Stored, Persists
  <2>2. row' = row /\ jobs' = Tail(jobs) /\ turn' = [turn EXCEPT ![t] = v]
    BY <1>1, <1>7 DEF ReadStored
  <2> QED BY <1>1, <1>2, <2>1, <2>2, CalmTurn
<1> QED BY <1>4, <1>5, <1>6, <1>7

LEMMA CalmRollback ==
  ASSUME IInv, HandsFit, RolledBack
  PROVE  Calm
<1>1. PICK ok \in BOOLEAN : Write("rollback", None, ok)
  BY DEF RolledBack
<1>2. StoreStep /\ jobs # <<>> /\ Head(jobs).do \in Stored
  BY <1>1, CalmStored DEF Stored, Persists
<1>3. row' = row /\ jobs' = Tail(jobs) /\ turn' = turn /\ up' = up
  BY DEF RolledBack
<1>4. HandsStay
  BY <1>3 DEF HandsStay, HandsFit
<1>5. \E e \in Job : e.do \in Stored /\ SameFor(row, e.row)
  BY Parts, RowStored
<1> QED BY <1>2, <1>3, <1>4, <1>5 DEF Calm, SameFor

-----------------------------------------------------------------------------
(* The other steps of a server that is up. *)

Removing == {"withdraw", "remove"}

\* The row is taken out of the queue, into the operation that withdraws it; a turn that has lost
\* its row withdraws without it.
TakesOut ==
  /\ UNCHANGED <<custody, up>> /\ HandsStay
  /\ \E e \in Job : /\ e.do \in Removing /\ jobs' = Append(jobs, e)
                    /\ \/ row.status # "absent" /\ row' = NoRow /\ e.row = row
                       \/ row' = row /\ e.row.status = "absent"

\* The withdrawal is stored, or its row is put back unless there is one.
PutsBack ==
  /\ StoreStep /\ up' = up /\ HandsStay /\ jobs # <<>> /\ Head(jobs).do \in Removing
  /\ \/ /\ row' = row /\ jobs' = Tail(jobs)
        /\ Head(jobs).row.status # "absent" => row.status # "absent" \/ custody' = After(Head(jobs))
     \/ /\ Head(jobs).row.status # "absent"
        /\ IF row.status = "absent" THEN SameFor(Head(jobs).row, row') ELSE row' = row
        /\ \/ jobs' = Tail(jobs)
           \/ \E e \in Job : /\ e.do \in Stored /\ SameFor(Head(jobs).row, e.row)
                             /\ jobs' = Append(Tail(jobs), e)

\* The settlement of turn t goes on, with h in its hands: it asks for an operation, hears of one
\* or neither.
Settles(t, h) ==
  /\ StoreStep /\ up' = up
  /\ turn[t].phase = "settling" /\ \A d \in Turns \ {t} : turn'[d] = turn[d]
  /\ turn'[t].hand = h /\ (turn'[t].phase # "settling" => h = NoHand)
  /\ \/ UNCHANGED <<custody, jobs>> /\ turn[t].hand.step \notin AskSteps
     \/ /\ UNCHANGED custody /\ turn[t].hand.step \notin AskSteps
        /\ \E e \in Job : /\ e.do \in Asking /\ e.by = t /\ h.step = AskStep(e.do)
                          /\ e.row = NoRow \/ e.row = row'
                          /\ jobs' = Append(jobs, e)
     \/ /\ jobs # <<>> /\ Head(jobs).do \in Asking /\ Head(jobs).by = t /\ jobs' = Tail(jobs)

\* The row stays; or the target that succeeded is taken from it, kept, put back or stored; or
\* an answer is stored and the row built again.
Plain(t, h) ==
  /\ SameFor(row, row') /\ h.snap = NoRow
  /\ turn[t].hand.step \notin {"taken", "commit"} /\ h.step \notin {"taken", "commit", "reconcile"}
Takes(h) ==
  /\ h.step = "taken" /\ h.snap = row /\ row.status # "absent" /\ UNCHANGED custody
  /\ \E c \in row.targets :
       row' = IF row.targets = {c} THEN NoRow
              ELSE [row EXCEPT !.targets = @ \ {c}, !.handled = @ \cup {c}, !.seen[c] = None]
Keeps(t, h) ==
  /\ turn[t].hand.step = "taken" /\ h.step = "commit" /\ h.snap = turn[t].hand.snap
  /\ UNCHANGED <<row, custody>>
GivesBack(t, h) ==
  /\ turn[t].hand.step \in {"taken", "commit"} /\ row' = turn[t].hand.snap
  /\ h.snap = NoRow /\ h.step = "detach"
Commits(h) ==
  /\ row' = row /\ \E c \in Cats : custody' = Settled(c)
  /\ h.snap = NoRow /\ h.step \in {"detach", "reconcile"}
Rebuilds(t, h) ==
  /\ turn[t].hand.step = "reconcile" /\ row.status # "absent" /\ row' = Rebuilt
  /\ UNCHANGED custody /\ h.snap = NoRow /\ h.step = "detach"
SettlesSo(t, h) ==
  /\ Settles(t, h)
  /\ \/ Plain(t, h) \/ Takes(h) \/ Keeps(t, h) \/ GivesBack(t, h) \/ Commits(h)
     \/ Rebuilds(t, h)

LEMMA OutSteps ==
  ASSUME IInv, HandsFit, up = "up", NEW t, (t \in Turns /\ Withdraw(t)) \/ Remove
  PROVE  TakesOut
<1> DEFINE v == turn[t]
<1>1. /\ turn \in [Turns -> FitTurns] /\ (t \in Turns => v \in Turn) /\ row \in Row
      /\ UNCHANGED <<custody, up>>
      /\ \A d \in Turns : turn[d].phase # "settling" => turn[d].hand = NoHand
  BY Parts DEF IInv, ProcessOK, HandsFit, Withdraw, Remove
<1>2. CASE t \in Turns /\ Withdraw(t)
  <2> DEFINE r == IF row.status = "processing" THEN row ELSE [NoRow EXCEPT !.targets = v.cats]
             e == NewJob("withdraw", t, None, r)
             u == [v EXCEPT !.phase = "returning"]
  <2>1. /\ row' = (IF row.status = "processing" THEN NoRow ELSE row)
        /\ jobs' = Append(jobs, e) /\ turn' = [turn EXCEPT ![t] = u] /\ v.phase = "running"
    BY <1>2 DEF Withdraw, Ended
  <2>2. r \in Row /\ (row.status # "processing" => r.status = "absent")
    <3>1. [NoRow EXCEPT !.targets = v.cats] \in Row
      BY <1>1, <1>2, Empties DEF Row, Turn
    <3>2. [NoRow EXCEPT !.targets = v.cats].status = "absent"
      BY DEF NoRow
    <3> QED BY <1>1, <3>1, <3>2
  <2> HIDE DEF r
  <2>3. e \in Job /\ e.do = "withdraw" /\ e.row = r
    BY <1>2, <2>2 DEF NewJob, Job
  <2>4. u.hand = v.hand /\ v.hand = NoHand
    BY <1>1, <1>2, <2>1 DEF Turn
  <2> HIDE DEF u
  <2>5. HandsStay
    BY <1>1, <2>1, <2>4 DEF HandsStay
  <2>6. CASE row.status = "processing"
    <3>1. r = row
      BY <2>6 DEF r
    <3> QED BY <1>1, <2>1, <2>3, <2>5, <2>6, <3>1 DEF TakesOut, Removing
  <2>7. CASE row.status # "processing"
    BY <1>1, <2>1, <2>2, <2>3, <2>5, <2>7 DEF TakesOut, Removing
  <2> QED BY <2>6, <2>7
<1>3. CASE Remove
  <2> DEFINE e == NewJob("remove", None, None, row)
  <2>1. /\ row' = NoRow /\ row.status # "absent" /\ jobs' = Append(jobs, e) /\ turn' = turn
    BY <1>3 DEF Remove
  <2>2. e \in Job /\ e.do = "remove" /\ e.row = row
    BY <1>1 DEF NewJob, Job
  <2>3. HandsStay
    BY <1>1, <2>1 DEF HandsStay
  <2> QED BY <1>1, <2>1, <2>2, <2>3 DEF TakesOut, Removing
<1> QED BY <1>2, <1>3

LEMMA BackSteps ==
  ASSUME IInv, HandsFit, up = "up", NEW t, NEW ok \in BOOLEAN,
         (t \in Turns /\ Withdrawn(t, ok)) \/ Removed(ok)
  PROVE  PutsBack
<1> DEFINE v == turn[t]
           j == Head(jobs)
<1>1. /\ turn \in [Turns -> FitTurns] /\ (t \in Turns => v \in Turn) /\ row \in Row /\ up' = up
      /\ \A d \in Turns : turn[d].phase # "settling" => turn[d].hand = NoHand
  BY Parts DEF IInv, ProcessOK, HandsFit, Withdrawn, Removed
<1>2. /\ StoreStep /\ jobs # <<>> /\ j.do \in Removing /\ j \in FitJobs /\ j \in Job
      /\ j.do = "remove" => j.row.status = "queued"
      /\ ok => custody' = After(j)
  BY Stores DEF Withdrawn, Removed, Removing, Write, FitJobs
<1>3. j.row \in Row
  BY <1>2 DEF Job
<1>4. CASE t \in Turns /\ Withdrawn(t, ok)
  <2> DEFINE restored == [j.row EXCEPT !.status = "queued"]
             e == NewJob("stage", t, None, restored)
             u == Settling(v, "stopped")
  <2>1. HandsStay
    <3>1. turn' = [turn EXCEPT ![t] = u] \/ turn' = turn
      BY <1>4 DEF Withdrawn
    <3>2. u.hand = v.hand /\ u.phase = "settling"
      BY <1>1 DEF Settling, Turn
    <3> HIDE DEF u
    <3> QED BY <1>1, <3>1, <3>2 DEF HandsStay
  <2>2. CASE ok \/ j.row.status = "absent"
    <3>1. row' = row /\ jobs' = Tail(jobs)
      BY <1>4, <2>2 DEF Withdrawn
    <3> QED BY <1>1, <1>2, <2>1, <2>2, <3>1 DEF PutsBack
  <2>3. CASE ~(ok \/ j.row.status = "absent")
    <3>1. /\ row' = (IF row.status = "absent" THEN restored ELSE row)
          /\ jobs' = Append(Tail(jobs), e)
      BY <1>4, <2>3 DEF Withdrawn
    <3>2. restored \in Row /\ SameFor(j.row, restored)
      BY <1>3, <2>3, SameRows DEF Row
    <3> HIDE DEF restored
    <3>3. e \in Job /\ e.do \in Stored /\ e.row = restored
      <4>1. "stage" \in Stored
        BY DEF Stored, Persists
      <4> QED BY <1>4, <3>2, <4>1 DEF NewJob, Job, Persists
    <3> HIDE DEF e
    <3> QED BY <1>1, <1>2, <2>1, <2>3, <3>1, <3>2, <3>3 DEF PutsBack
  <2> QED BY <2>2, <2>3
<1>5. CASE Removed(ok)
  <2>1. /\ row' = (IF ok \/ row.status # "absent" THEN row ELSE j.row)
        /\ jobs' = Tail(jobs) /\ turn' = turn
    BY <1>5 DEF Removed
  <2>2. HandsStay
    BY <1>1, <2>1 DEF HandsStay
  <2>3. SameFor(j.row, j.row) /\ j.row.status = "queued"
    BY <1>2, <1>5, Stores DEF SameFor, Removed
  <2>4. CASE ok \/ row.status # "absent"
    BY <1>1, <1>2, <2>1, <2>2, <2>4 DEF PutsBack
  <2>5. CASE ~ok /\ row.status = "absent"
    BY <1>1, <1>2, <2>1, <2>2, <2>3, <2>5 DEF PutsBack
  <2> QED BY <2>4, <2>5
<1> QED BY <1>4, <1>5

-----------------------------------------------------------------------------
(* The steps of a settlement. *)

\* It goes on without the queue.
LEMMA SettlesAlone ==
  ASSUME IInv, up = "up", UNCHANGED <<custody, jobs, up>>,
         NEW t \in Turns, turn[t].phase = "settling", turn[t].hand.step \notin AskSteps,
         NEW u, turn' = [turn EXCEPT ![t] = u], u.phase # "settling" => u.hand = NoHand
  PROVE  Settles(t, u.hand)
<1>1. turn \in [Turns -> FitTurns]
  BY DEF IInv, ProcessOK
<1>2. StoreStep
  BY DEF StoreStep
<1> QED BY <1>1, <1>2 DEF Settles

\* It asks for an operation.
LEMMA SettlesAsking ==
  ASSUME IInv, up = "up", UNCHANGED <<custody, up>>,
         NEW t \in Turns, turn[t].phase = "settling", turn[t].hand.step \notin AskSteps,
         NEW u, turn' = [turn EXCEPT ![t] = u], u.phase = "settling",
         NEW do \in Asking, NEW c \in Cats \cup {None}, NEW r \in Row, r = NoRow \/ r = row',
         jobs' = Append(jobs, NewJob(do, t, c, r)), u.hand.step = AskStep(do)
  PROVE  Settles(t, u.hand)
<1> DEFINE e == NewJob(do, t, c, r)
<1>1. turn \in [Turns -> FitTurns]
  BY DEF IInv, ProcessOK
<1>2. StoreStep
  BY DEF StoreStep
<1>3. e \in Job /\ e.do = do /\ e.by = t /\ e.row = r
  BY DEF NewJob, Job, Asking, Persists
<1> HIDE DEF e
<1>4. jobs' = Append(jobs, e)
  BY DEF e
<1> QED BY <1>1, <1>2, <1>3, <1>4 DEF Settles

\* It hears of the one it waits for.
LEMMA SettlesHearing ==
  ASSUME IInv, HandsFit, up = "up", up' = up,
         NEW t \in Turns, NEW do \in Asking, NEW ok, Write(do, t, ok), jobs' = Tail(jobs)
  PROVE  /\ turn[t].hand.step = AskStep(do) /\ turn[t].phase = "settling"
         /\ jobs # <<>> /\ Head(jobs) \in Job /\ Head(jobs).do = do
         /\ \A u : (turn' = [turn EXCEPT ![t] = u] /\ (u.phase # "settling" => u.hand = NoHand))
                  => Settles(t, u.hand)
<1>1. turn \in [Turns -> FitTurns]
  BY DEF IInv, ProcessOK
<1>2. StoreStep /\ jobs # <<>> /\ Head(jobs) \in Job /\ Head(jobs).do = do /\ Head(jobs).by = t
  BY Stores
<1>3. Head(jobs) \in InQueue(jobs)
  BY <1>2, JobsAreJobs, QueueOfTail
<1>4. turn[t].hand.step = AskStep(do)
  BY <1>2, <1>3 DEF HandsFit
<1>5. turn[t].phase = "settling"
  BY <1>4 DEF HandsFit, NoHand, AskStep
<1> QED BY <1>1, <1>2, <1>4, <1>5 DEF Settles

\* The turn that goes on, or is done with a cat.
LEMMA HandOf ==
  ASSUME IInv, NEW t \in Turns, turn[t].phase = "settling"
  PROVE  /\ \A step : To(t, step) =>
              \E u : /\ turn' = [turn EXCEPT ![t] = u] /\ u.phase = "settling"
                     /\ u.hand.step = step /\ u.hand.snap = NoRow
         /\ \A c : Drop(t, c) => \E u : turn' = [turn EXCEPT ![t] = u] /\ u.hand = NoHand
         /\ \A h : LET u == [turn[t] EXCEPT !.hand = h] IN u.phase = "settling" /\ u.hand = h
<1> DEFINE v == turn[t]
<1>1. v \in Turn
  BY Parts
<1>2. ASSUME NEW step, To(t, step)
      PROVE  \E u : /\ turn' = [turn EXCEPT ![t] = u] /\ u.phase = "settling"
                    /\ u.hand.step = step /\ u.hand.snap = NoRow
  <2> DEFINE u == [v EXCEPT !.hand.step = step, !.hand.snap = NoRow]
  <2>1. u.phase = "settling" /\ u.hand.step = step /\ u.hand.snap = NoRow
    BY <1>1 DEF Turn
  <2>2. turn' = [turn EXCEPT ![t] = u]
    BY <1>2 DEF To
  <2> HIDE DEF u
  <2> QED BY <2>1, <2>2
<1>3. ASSUME NEW c, Drop(t, c)
      PROVE  \E u : turn' = [turn EXCEPT ![t] = u] /\ u.hand = NoHand
  <2> DEFINE w == [v EXCEPT !.todo = @ \ {c}, !.hand = NoHand]
             u == IF w.todo = {} THEN Remains(w, "over") ELSE w
  <2>1. turn' = [turn EXCEPT ![t] = u]
    BY <1>3 DEF Drop
  <2>2. u.hand = NoHand
    BY <1>1 DEF Turn, Remains, NoTurn
  <2> HIDE DEF u
  <2> QED BY <2>1, <2>2
<1>4. ASSUME NEW h
      PROVE  [v EXCEPT !.hand = h].phase = "settling" /\ [v EXCEPT !.hand = h].hand = h
  BY <1>1 DEF Turn
<1> QED BY <1>2, <1>3, <1>4

LEMMA NoHands ==
  /\ NoHand.snap = NoRow /\ NoHand.step = "none" /\ NoHand.step \notin AskSteps
  /\ NoHand.step \notin {"taken", "commit"}
  BY DEF NoHand, AskSteps

LEMMA SettlesTaking ==
  ASSUME IInv, HandsFit, up = "up", NEW t \in Turns, NEW c,
         TakeHandled(t, c) \/ CheckHandled(t)
  PROVE  \E h : SettlesSo(t, h)
<1> DEFINE v == turn[t]
<1>1. /\ v.phase = "settling" /\ UNCHANGED <<custody, up>>
  BY DEF TakeHandled, CheckHandled, Open, Free, At
<1>2. CASE TakeHandled(t, c)
  <2> DEFINE h == [cat |-> c, snap |-> row, step |-> "taken"]
             u == [v EXCEPT !.hand = h]
  <2>1. /\ turn' = [turn EXCEPT ![t] = u] /\ UNCHANGED jobs /\ v.hand = NoHand
        /\ c \in row.targets /\ row.status # "absent"
        /\ row' = IF row.targets = {c} THEN NoRow
                  ELSE [row EXCEPT !.targets = @ \ {c}, !.handled = @ \cup {c}, !.seen[c] = None]
    BY <1>2 DEF TakeHandled, Handles, Bound, Open, Free
  <2>2. h.step = "taken" /\ h.snap = row
    OBVIOUS
  <2> HIDE DEF h
  <2>3. u.phase = "settling" /\ u.hand = h
    BY <1>1, HandOf
  <2> HIDE DEF u
  <2>4. Settles(t, h)
    BY <1>1, <2>1, <2>3, NoHands, SettlesAlone
  <2>5. Takes(h)
    BY <1>1, <2>1, <2>2 DEF Takes
  <2> QED BY <2>4, <2>5 DEF SettlesSo
<1>3. CASE CheckHandled(t)
  <2>1. v.hand.step = "taken" /\ v.hand.step \notin AskSteps
    BY <1>3 DEF CheckHandled, At, AskSteps
  <2>2. CASE /\ jobs' = Append(jobs, NewJob("handle", t, v.hand.cat, NoRow)) /\ UNCHANGED row
             /\ turn' = [turn EXCEPT ![t].hand.step = "commit"]
    <3> DEFINE u == [v EXCEPT !.hand.step = "commit"]
    <3>1. v \in Turn
      BY Parts
    <3>2. turn' = [turn EXCEPT ![t] = u]
      BY <2>2
    <3>3. /\ u.phase = "settling" /\ u.hand.step = "commit" /\ u.hand.snap = v.hand.snap
          /\ v.hand.cat \in Cats \cup {None}
      BY <1>1, <3>1 DEF Turn
    <3>4. "handle" \in Asking /\ AskStep("handle") = "commit"
      BY DEF Asking, AskStep
    <3> HIDE DEF u
    <3>5. Settles(t, u.hand)
      BY <1>1, <2>1, <2>2, <3>2, <3>3, <3>4, Empties, SettlesAsking
    <3>6. Keeps(t, u.hand)
      BY <1>1, <2>1, <2>2, <3>3 DEF Keeps
    <3> QED BY <3>5, <3>6 DEF SettlesSo
  <2>3. CASE row' = v.hand.snap /\ To(t, "detach") /\ UNCHANGED jobs
    <3>1. PICK u : /\ turn' = [turn EXCEPT ![t] = u] /\ u.phase = "settling"
                   /\ u.hand.step = "detach" /\ u.hand.snap = NoRow
      BY <1>1, <2>3, HandOf
    <3>2. Settles(t, u.hand)
      BY <1>1, <2>1, <2>3, <3>1, SettlesAlone
    <3>3. GivesBack(t, u.hand)
      BY <2>1, <2>3, <3>1 DEF GivesBack
    <3> QED BY <3>2, <3>3 DEF SettlesSo
  <2> QED BY <1>3, <2>2, <2>3 DEF CheckHandled
<1> QED BY <1>2, <1>3

LEMMA SettlesCommitting ==
  ASSUME IInv, HandsFit, up = "up", NEW t \in Turns, NEW ok \in BOOLEAN,
         Committed(t, ok) \/ Responded(t, ok)
  PROVE  \E h : SettlesSo(t, h)
<1> DEFINE v == turn[t]
           j == Head(jobs)
<1>1. ASSUME NEW do \in {"handle", "respond"}, Write(do, t, ok), ok, Matches(j.cat, t)
      PROVE  \E c \in Cats : custody' = Settled(c)
  <2>1. custody' = After(j) /\ j.do = do /\ j.by = t
    BY <1>1 DEF Write
  <2>2. After(j) = Settled(j.cat)
    BY <1>1, <2>1 DEF After, Persists
  <2>3. j.cat \in Cats
    BY <1>1, RecordOps DEF IInv, DurableOK
  <2> QED BY <2>1, <2>2, <2>3
<1>2. CASE Committed(t, ok)
  <2>1. /\ Write("handle", t, ok) /\ jobs' = Tail(jobs) /\ To(t, "detach") /\ up' = up
        /\ row' = IF ok /\ Matches(j.cat, t) THEN row ELSE v.hand.snap
    BY <1>2 DEF Committed
  <2>2. "handle" \in Asking /\ AskStep("handle") = "commit"
    BY DEF Asking, AskStep
  <2>3. /\ v.hand.step = "commit" /\ v.phase = "settling"
        /\ \A u : (turn' = [turn EXCEPT ![t] = u] /\ (u.phase # "settling" => u.hand = NoHand))
                 => Settles(t, u.hand)
    BY <2>1, <2>2, SettlesHearing
  <2>4. PICK u : /\ turn' = [turn EXCEPT ![t] = u] /\ u.phase = "settling"
                 /\ u.hand.step = "detach" /\ u.hand.snap = NoRow
    BY <2>1, <2>3, HandOf
  <2>5. Settles(t, u.hand)
    BY <2>3, <2>4
  <2>6. CASE ok /\ Matches(j.cat, t)
    BY <1>1, <2>1, <2>4, <2>5, <2>6 DEF SettlesSo, Commits
  <2>7. CASE ~(ok /\ Matches(j.cat, t))
    BY <2>1, <2>3, <2>4, <2>5, <2>7 DEF SettlesSo, GivesBack
  <2> QED BY <2>6, <2>7
<1>3. CASE Responded(t, ok)
  <2> DEFINE step == IF ok /\ Matches(j.cat, t) THEN "reconcile" ELSE "detach"
  <2>1. /\ Write("respond", t, ok) /\ jobs' = Tail(jobs) /\ To(t, step) /\ up' = up /\ row' = row
    BY <1>3 DEF Responded
  <2>2. "respond" \in Asking /\ AskStep("respond") = "respond"
    BY DEF Asking, AskStep
  <2>3. /\ v.phase = "settling" /\ v.hand.step = "respond"
        /\ \A u : (turn' = [turn EXCEPT ![t] = u] /\ (u.phase # "settling" => u.hand = NoHand))
                 => Settles(t, u.hand)
    BY <2>1, <2>2, SettlesHearing
  <2>4. PICK u : /\ turn' = [turn EXCEPT ![t] = u] /\ u.phase = "settling"
                 /\ u.hand.step = step /\ u.hand.snap = NoRow
    BY <2>1, <2>3, HandOf
  <2>5. Settles(t, u.hand)
    BY <2>3, <2>4
  <2>6. CASE ok /\ Matches(j.cat, t)
    BY <1>1, <2>1, <2>4, <2>5, <2>6 DEF SettlesSo, Commits
  <2>7. CASE ~(ok /\ Matches(j.cat, t))
    BY <2>1, <2>3, <2>4, <2>5, <2>7 DEF SettlesSo, Plain, SameFor
  <2> QED BY <2>6, <2>7
<1> QED BY <1>2, <1>3

LEMMA SettlesAnswer ==
  ASSUME IInv, HandsFit, up = "up", NEW t \in Turns, NEW c,
         Respond(t, c) \/ CommitAnswer(t) \/ Reconcile(t)
  PROVE  \E h : SettlesSo(t, h)
<1> DEFINE v == turn[t]
<1>1. /\ v.phase = "settling" /\ UNCHANGED <<custody, up>> /\ SameFor(row, row) /\ v \in Turn
  BY Parts DEF Respond, CommitAnswer, Reconcile, Open, Free, At, SameFor
<1>2. CASE Respond(t, c)
  <2> DEFINE h == [NoHand EXCEPT !.cat = c, !.step = "answered"]
             u == [v EXCEPT !.hand = h]
  <2>1. /\ turn' = [turn EXCEPT ![t] = u] /\ UNCHANGED <<row, jobs>> /\ v.hand = NoHand
    BY <1>2 DEF Respond, Open, Free
  <2>2. h.step = "answered" /\ h.snap = NoRow
    BY DEF NoHand
  <2> HIDE DEF h
  <2>3. u.phase = "settling" /\ u.hand = h
    BY <1>1, HandOf
  <2> HIDE DEF u
  <2>4. Settles(t, h)
    BY <1>1, <2>1, <2>3, NoHands, SettlesAlone
  <2>5. Plain(t, h)
    BY <1>1, <2>1, <2>2, NoHands DEF Plain
  <2> QED BY <2>4, <2>5 DEF SettlesSo
<1>3. CASE CommitAnswer(t)
  <2>1. /\ v.hand.step = "answered" /\ v.hand.step \notin AskSteps /\ To(t, "respond") /\ row' = row
        /\ jobs' = Append(jobs, NewJob("respond", t, v.hand.cat, NoRow))
        /\ v.hand.cat \in Cats \cup {None}
    BY <1>1, <1>3 DEF CommitAnswer, At, AskSteps, Turn
  <2>2. PICK u : /\ turn' = [turn EXCEPT ![t] = u] /\ u.phase = "settling"
                 /\ u.hand.step = "respond" /\ u.hand.snap = NoRow
    BY <1>1, <2>1, HandOf
  <2>3. "respond" \in Asking /\ AskStep("respond") = "respond"
    BY DEF Asking, AskStep
  <2>4. Settles(t, u.hand)
    BY <1>1, <2>1, <2>2, <2>3, Empties, SettlesAsking
  <2>5. Plain(t, u.hand)
    BY <1>1, <2>1, <2>2 DEF Plain
  <2> QED BY <2>4, <2>5 DEF SettlesSo
<1>4. CASE Reconcile(t)
  <2>1. /\ v.hand.step = "reconcile" /\ v.hand.step \notin AskSteps /\ To(t, "detach")
        /\ UNCHANGED jobs
        /\ row' = row \/ (row.status # "absent" /\ row' = Rebuilt)
    BY <1>4 DEF Reconcile, At, AskSteps
  <2>2. PICK u : /\ turn' = [turn EXCEPT ![t] = u] /\ u.phase = "settling"
                 /\ u.hand.step = "detach" /\ u.hand.snap = NoRow
    BY <1>1, <2>1, HandOf
  <2>3. Settles(t, u.hand)
    BY <1>1, <2>1, <2>2, SettlesAlone
  <2>4. Plain(t, u.hand) \/ Rebuilds(t, u.hand)
    BY <1>1, <2>1, <2>2 DEF Plain, Rebuilds
  <2> QED BY <2>3, <2>4 DEF SettlesSo
<1> QED BY <1>2, <1>3, <1>4

LEMMA SettlesLate ==
  ASSUME IInv, HandsFit, up = "up", NEW t \in Turns, NEW c,
         (c \in Cats /\ (Detach(t, c) \/ MarkFailed(t, c))) \/ Detached(t) \/ Marked(t)
  PROVE  \E h : SettlesSo(t, h)
<1> DEFINE v == turn[t]
<1>1. /\ up' = up /\ SameFor(row, row) /\ v \in Turn /\ row \in Row
  BY Parts DEF Detach, Detached, MarkFailed, Marked, SameFor
<1>2. ASSUME Comes(t, c) \/ With(t, c, "detach") \/ With(t, c, "mark")
      PROVE  /\ v.phase = "settling" /\ v.hand.step \notin AskSteps
             /\ v.hand.step \notin {"taken", "commit"}
  BY <1>2, NoHands DEF Comes, Open, Free, With, At, AskSteps
<1>3. ASSUME NEW step, step \in {"late", "persist"}
      PROVE  LET h == [NoHand EXCEPT !.cat = c, !.step = step] IN h.step = step /\ h.snap = NoRow
  BY DEF NoHand
<1>4. CASE c \in Cats /\ Detach(t, c)
  <2> DEFINE h == [NoHand EXCEPT !.cat = c, !.step = "late"]
             u == [v EXCEPT !.hand = h]
  <2>1. /\ v.phase = "settling" /\ v.hand.step \notin AskSteps /\ UNCHANGED <<row, custody>>
        /\ v.hand.step \notin {"taken", "commit"}
        /\ turn' = [turn EXCEPT ![t] = u]
        /\ jobs' = Append(jobs, NewJob("detached", t, c, NoRow))
    BY <1>2, <1>4 DEF Detach
  <2>2. h.step = "late" /\ h.snap = NoRow
    BY <1>3
  <2> HIDE DEF h
  <2>3. u.phase = "settling" /\ u.hand = h
    BY <2>1, HandOf
  <2> HIDE DEF u
  <2>4. "detached" \in Asking /\ AskStep("detached") = "late"
    BY DEF Asking, AskStep
  <2>5. Settles(t, u.hand)
    BY <1>1, <1>4, <2>1, <2>2, <2>3, <2>4, Empties, SettlesAsking
  <2>6. Plain(t, u.hand)
    BY <1>1, <2>1, <2>2, <2>3 DEF Plain
  <2> QED BY <2>5, <2>6 DEF SettlesSo
<1>5. CASE Detached(t)
  <2>1. PICK ok \in BOOLEAN : Write("detached", t, ok)
    BY <1>5 DEF Detached
  <2>2. /\ jobs' = Tail(jobs) /\ To(t, "mark") /\ row' = row
        /\ "detached" \in Asking /\ AskStep("detached") = "late"
    BY <1>5 DEF Detached, Asking, AskStep
  <2>3. /\ v.phase = "settling" /\ v.hand.step = "late"
        /\ \A u : (turn' = [turn EXCEPT ![t] = u] /\ (u.phase # "settling" => u.hand = NoHand))
                 => Settles(t, u.hand)
    BY <1>1, <2>1, <2>2, SettlesHearing
  <2>4. PICK u : /\ turn' = [turn EXCEPT ![t] = u] /\ u.phase = "settling"
                 /\ u.hand.step = "mark" /\ u.hand.snap = NoRow
    BY <2>2, <2>3, HandOf
  <2>5. Settles(t, u.hand) /\ Plain(t, u.hand)
    BY <1>1, <2>2, <2>3, <2>4 DEF Plain
  <2> QED BY <2>5 DEF SettlesSo
<1>6. CASE c \in Cats /\ MarkFailed(t, c)
  <2>1. /\ v.phase = "settling" /\ v.hand.step \notin AskSteps /\ custody' = custody
        /\ v.hand.step \notin {"taken", "commit"}
    BY <1>2, <1>6 DEF MarkFailed
  <2>2. CASE Returns(t, c)
    <3> DEFINE r == [row EXCEPT !.seen[c] = IF @ = t THEN None ELSE @]
               h == [NoHand EXCEPT !.cat = c, !.step = "persist"]
               u == [v EXCEPT !.hand = h]
    <3>1. /\ row' = r /\ jobs' = Append(jobs, NewJob("mark", t, c, r))
          /\ turn' = [turn EXCEPT ![t] = u] /\ row.status # "absent"
      BY <1>6, <2>2 DEF MarkFailed, Returns
    <3>2. r \in Row /\ SameFor(row, r)
      BY <1>1, <3>1, SameRows DEF Row
    <3> HIDE DEF r
    <3>3. h.step = "persist" /\ h.snap = NoRow
      BY <1>3
    <3> HIDE DEF h
    <3>4. u.phase = "settling" /\ u.hand = h
      BY <2>1, HandOf
    <3> HIDE DEF u
    <3>5. "mark" \in Asking /\ AskStep("mark") = "persist"
      BY DEF Asking, AskStep
    <3>6. Settles(t, u.hand)
      BY <1>1, <1>6, <2>1, <3>1, <3>2, <3>3, <3>4, <3>5, SettlesAsking
    <3>7. Plain(t, u.hand)
      BY <2>1, <3>1, <3>2, <3>3, <3>4 DEF Plain
    <3> QED BY <3>6, <3>7 DEF SettlesSo
  <2>3. CASE ~Returns(t, c)
    <3>1. Drop(t, c) /\ UNCHANGED <<row, jobs>>
      BY <1>6, <2>3 DEF MarkFailed
    <3>2. PICK u : turn' = [turn EXCEPT ![t] = u] /\ u.hand = NoHand
      BY <2>1, <3>1, HandOf
    <3>3. Settles(t, u.hand)
      BY <1>1, <2>1, <3>1, <3>2, SettlesAlone
    <3>4. Plain(t, u.hand)
      BY <1>1, <2>1, <3>1, <3>2, NoHands DEF Plain
    <3> QED BY <3>3, <3>4 DEF SettlesSo
  <2> QED BY <2>2, <2>3
<1>7. CASE Marked(t)
  <2>1. PICK ok \in BOOLEAN : Write("mark", t, ok)
    BY <1>7 DEF Marked
  <2>2. /\ jobs' = Tail(jobs) /\ Drop(t, v.hand.cat) /\ row' = row
        /\ "mark" \in Asking /\ AskStep("mark") = "persist"
    BY <1>7 DEF Marked, Asking, AskStep
  <2>3. /\ v.phase = "settling" /\ v.hand.step = "persist"
        /\ \A u : (turn' = [turn EXCEPT ![t] = u] /\ (u.phase # "settling" => u.hand = NoHand))
                 => Settles(t, u.hand)
    BY <1>1, <2>1, <2>2, SettlesHearing
  <2>4. PICK u : turn' = [turn EXCEPT ![t] = u] /\ u.hand = NoHand
    BY <2>2, <2>3, HandOf
  <2>5. Settles(t, u.hand) /\ Plain(t, u.hand)
    BY <1>1, <2>2, <2>3, <2>4, NoHands DEF Plain
  <2> QED BY <2>5 DEF SettlesSo
<1> QED BY <1>4, <1>5, <1>6, <1>7

\* What a step may be.
LEMMA Kinds ==
  ASSUME IInv, HandsFit, Next
  PROVE  \/ up = "up" /\ (Calm \/ TakesOut \/ PutsBack \/ \E t \in Turns : \E h : SettlesSo(t, h))
         \/ Crash \/ Recover \/ Restore
<1> DEFINE K == Calm \/ TakesOut \/ PutsBack \/ \E t \in Turns : \E h : SettlesSo(t, h)
<1>1. CASE up # "up"
  BY <1>1, DownIsQuiet
<1>2. ASSUME up = "up", NEW t \in Turns, NEW c \in Cats,
             \/ Expose(t, c) \/ Exposed(t, c) \/ Read(t, c) \/ Reply(t, c)
             \/ EndChild(t, c, "succeeded") \/ EndChild(t, c, "failed")
             \/ PassOver(t, c) \/ TakeHandled(t, c) \/ Respond(t, c) \/ Detach(t, c)
             \/ MarkFailed(t, c)
      PROVE  K
  BY <1>2, CalmAlone, CalmChild, SettlesTaking, SettlesAnswer, SettlesLate, Zenon
<1>3. ASSUME up = "up", NEW t \in Turns, NEW ok \in BOOLEAN,
             \/ Dispatch(t) \/ Started(t) \/ NotStarted(t) \/ Ensure(t) \/ ReadStored(t)
             \/ GiveBack(t) \/ Withdraw(t) \/ Staged(t)
             \/ Withdrawn(t, ok) \/ Committed(t, ok) \/ Responded(t, ok)
      PROVE  K
  BY <1>3, CalmStart, CalmEnd, OutSteps, BackSteps, SettlesCommitting, Zenon
<1>4. ASSUME up = "up", NEW t \in Turns,
             \/ Stop(t) \/ Finish(t) \/ CheckHandled(t) \/ CommitAnswer(t) \/ Reconcile(t)
             \/ Detached(t) \/ Marked(t)
      PROVE  K
  BY <1>4, CalmAlone, SettlesTaking, SettlesAnswer, SettlesLate, Zenon
<1>5. ASSUME up = "up", RolledBack \/ Remove \/ \E ok \in BOOLEAN : Removed(ok)
      PROVE  K
  BY <1>5, CalmRollback, OutSteps, BackSteps, Zenon
<1>6. TRUE \in BOOLEAN
  OBVIOUS
<1> QED BY <1>1, <1>2, <1>3, <1>4, <1>5, <1>6, Zenon DEF Next

-----------------------------------------------------------------------------
(* What settlements hold fits, at every step. *)

LEMMA NobodyAsks ==
  ASSUME IInv, HandsFit, HandsStay, AskedOnce(jobs)',
         \A j \in InQueue(jobs') : j.do \in Asking => j \in InQueue(jobs)
  PROVE  HandsFit'
<1>1. \A j \in InQueue(jobs') : j.do \in Asking => j.by \in Turns /\ turn'[j.by].hand.step = AskStep(j.do)
  BY DEF HandsFit, HandsStay
<1>2. \A t \in Turns :
        /\ turn'[t].phase # "settling" => turn'[t].hand = NoHand
        /\ turn'[t].hand.step \in {"taken", "commit"} => turn'[t].hand.snap.status # "absent"
  BY DEF HandsFit, HandsStay
<1> QED BY <1>1, <1>2 DEF HandsFit, AskedOnce, InQueue

LEMMA NotAsked == \A do \in Stored \cup Removing : do \notin Asking
  BY DEF Stored, Removing, Persists, Asking

\* What may happen to the queue.
LEMMA QueueMoves ==
  ASSUME IInv, HandsFit, NEW e \in Job, e.do \notin Asking,
         \/ jobs' = jobs \/ jobs' = Append(jobs, e)
         \/ jobs # <<>> /\ (jobs' = Tail(jobs) \/ jobs' = Append(Tail(jobs), e))
  PROVE  AskedOnce(jobs)' /\ \A j \in InQueue(jobs') : j.do \in Asking => j \in InQueue(jobs)
<1>1. jobs \in Seq(Job) /\ AskedOnce(jobs)
  BY JobsAreJobs DEF HandsFit
<1>2. \A s \in Seq(Job) : AskedOnce(s) => AskedOnce(Append(s, e)) /\ InQueue(Append(s, e)) = InQueue(s) \cup {e}
  BY QueueOfAppend
<1>3. jobs # <<>> => /\ Tail(jobs) \in Seq(Job) /\ AskedOnce(Tail(jobs))
                     /\ InQueue(Tail(jobs)) \subseteq InQueue(jobs)
  BY <1>1, QueueOfTail
<1>4. CASE jobs' = jobs
  BY <1>1, <1>4
<1>5. CASE jobs' = Append(jobs, e)
  BY <1>1, <1>2, <1>5
<1>6. CASE jobs # <<>> /\ jobs' = Tail(jobs)
  BY <1>3, <1>6
<1>7. CASE jobs # <<>> /\ jobs' = Append(Tail(jobs), e)
  BY <1>2, <1>3, <1>7
<1> QED BY <1>4, <1>5, <1>6, <1>7

LEMMA SettlesFit ==
  ASSUME IInv, HandsFit, NEW t \in Turns, NEW h, Settles(t, h),
         h.step \in {"taken", "commit"} => h.snap.status # "absent"
  PROVE  HandsFit'
<1>1. /\ jobs \in Seq(Job) /\ AskedOnce(jobs)
      /\ \A j \in InQueue(jobs) : j.do \in Asking => j.by \in Turns /\ turn[j.by].hand.step = AskStep(j.do)
  BY JobsAreJobs DEF HandsFit
<1>2. \A d \in Turns :
        /\ turn'[d].phase # "settling" => turn'[d].hand = NoHand
        /\ turn'[d].hand.step \in {"taken", "commit"} => turn'[d].hand.snap.status # "absent"
  BY DEF HandsFit, Settles
<1>3. \A do : AskStep(do) \in AskSteps
  BY DEF AskStep, AskSteps
<1>4. ASSUME turn[t].hand.step \notin AskSteps, NEW j \in InQueue(jobs), j.do \in Asking
      PROVE  j.by # t /\ j.by \in Turns /\ turn'[j.by].hand.step = AskStep(j.do)
  BY <1>1, <1>3, <1>4 DEF Settles
<1>5. /\ AskedOnce(jobs')
      /\ \A j \in InQueue(jobs') : j.do \in Asking => j.by \in Turns /\ turn'[j.by].hand.step = AskStep(j.do)
  <2>1. CASE UNCHANGED jobs /\ turn[t].hand.step \notin AskSteps
    BY <1>1, <1>4, <2>1
  <2>2. ASSUME turn[t].hand.step \notin AskSteps,
               NEW e \in Job, e.do \in Asking, e.by = t, h.step = AskStep(e.do), jobs' = Append(jobs, e)
        PROVE  <1>5!1 /\ <1>5!2
    <3>1. InQueue(jobs') = InQueue(jobs) \cup {e} /\ AskedOnce(jobs')
      BY <1>1, <1>4, <2>2, QueueOfAppend
    <3>2. turn'[t].hand.step = AskStep(e.do)
      BY <2>2 DEF Settles
    <3> QED BY <1>4, <2>2, <3>1, <3>2
  <2>3. CASE jobs # <<>> /\ Head(jobs).do \in Asking /\ Head(jobs).by = t /\ jobs' = Tail(jobs)
    <3>1. /\ AskedOnce(jobs') /\ InQueue(jobs') \subseteq InQueue(jobs)
          /\ \A j \in InQueue(jobs') : j.do \in Asking => j.by # t
      BY <1>1, <2>3, QueueOfTail
    <3> QED BY <1>1, <3>1 DEF Settles
  <2> QED BY <2>1, <2>2, <2>3 DEF Settles
<1> QED BY <1>2, <1>5 DEF HandsFit, AskedOnce, InQueue

LEMMA RestartsEmpty ==
  ASSUME IInv, Crash \/ Recover \/ Restore
  PROVE  jobs' = <<>> /\ \A t \in Turns : turn'[t].hand = NoHand
<1>1. \A t \in Turns : turn[t] \in FitTurns
  BY Parts
<1>2. CASE Crash
  <2>1. \A t \in Turns : turn'[t] = IF turn[t].phase = "idle" THEN turn[t] ELSE Remains(turn[t], "dead")
    BY <1>2 DEF Crash
  <2>2. \A t \in Turns : Remains(turn[t], "dead").hand = NoHand
    BY DEF Remains, NoTurn
  <2> QED BY <1>1, <1>2, <2>1, <2>2 DEF Crash, FitTurns
<1>3. CASE Recover \/ Restore
  BY <1>3 DEF Recover, Restore, IInv, DownIsEmpty
<1> QED BY <1>2, <1>3

LEMMA NextHandsFit == IInv /\ HandsFit /\ [Next]_vars => HandsFit'
<1> SUFFICES ASSUME IInv, HandsFit, [Next]_vars PROVE HandsFit'
  OBVIOUS
<1>1. CASE UNCHANGED vars
  BY <1>1 DEF vars, HandsFit, AskedOnce, InQueue
<1>2. CASE Calm
  <2>1. PICK e \in Job : /\ e.do \in Stored
                         /\ \/ jobs' = jobs \/ jobs' = Append(jobs, e)
                            \/ jobs # <<>> /\ (jobs' = Tail(jobs) \/ jobs' = Append(Tail(jobs), e))
    BY <1>2 DEF Calm
  <2> QED BY <1>2, <2>1, NotAsked, QueueMoves, NobodyAsks DEF Calm
<1>3. CASE TakesOut
  <2>1. PICK e \in Job : e.do \in Removing /\ jobs' = Append(jobs, e)
    BY <1>3 DEF TakesOut
  <2> QED BY <1>3, <2>1, NotAsked, QueueMoves, NobodyAsks DEF TakesOut
<1>4. CASE PutsBack
  <2>1. \E e \in Job : e.do \in Stored /\ jobs # <<>> /\ (jobs' = Tail(jobs) \/ jobs' = Append(Tail(jobs), e))
    BY <1>4, Parts, RowStored DEF PutsBack
  <2> QED BY <1>4, <2>1, NotAsked, QueueMoves, NobodyAsks DEF PutsBack
<1>5. ASSUME NEW t \in Turns, NEW h, SettlesSo(t, h) PROVE HandsFit'
  <2>1. h.step \in {"taken", "commit"} => h.snap.status # "absent"
    BY <1>5 DEF SettlesSo, Plain, Takes, Keeps, GivesBack, Commits, Rebuilds, HandsFit
  <2> QED BY <1>5, <2>1, SettlesFit DEF SettlesSo
<1>6. CASE Crash \/ Recover \/ Restore
  <2>1. jobs' = <<>> /\ \A t \in Turns : turn'[t].hand = NoHand
    BY <1>6, RestartsEmpty
  <2> QED BY <2>1, NoHands DEF HandsFit, AskedOnce, InQueue, NoHand
<1> QED BY <1>1, <1>2, <1>3, <1>4, <1>5, <1>6, Kinds

LEMMA HandsInvariance == Spec => [](IInv /\ HandsFit)
<1>1. Init => HandsFit
  <2> SUFFICES ASSUME Init PROVE HandsFit
    OBVIOUS
  <2>1. jobs = <<>> /\ \A t \in Turns : turn[t].hand = NoHand
    BY DEF Init, NoTurn
  <2> QED BY <2>1, NoHands DEF HandsFit, AskedOnce, InQueue, NoHand
<1> QED BY <1>1, InitIInv, NextIInv, NextHandsFit, PTL DEF Spec

-----------------------------------------------------------------------------
(* No target is forgotten. *)

\* Row r tells of every target that record k does not tell of; or it has forgotten an outcome,
\* and the store accepts nothing of it.
Covers(r, k) == Cats \subseteq r.targets \cup r.handled \cup k.withdrawn \cup k.outcome
Forgets(r, k) == ~(k.outcome \subseteq r.targets \cup r.handled)
HonestTo(k, r) == r.status # "absent" => Covers(r, k) \/ Forgets(r, k)
Honest(r) == HonestTo(custody, r)

\* Every row is honest, the queue's and those that something may still store or put back.  Where
\* a row is about to be built again there is an outcome, which such a row forgets.
Accounts ==
  /\ TargetsAccounted
  /\ Honest(row) /\ \A j \in InQueue(jobs) : Honest(j.row)
  /\ \A t \in Turns : /\ Honest(turn[t].hand.snap)
                      /\ turn[t].hand.step = "reconcile" => custody.outcome # {}

LEMMA HonestRows ==
  ASSUME NEW k
  PROVE  /\ HonestTo(k, NoRow)
         /\ \A r, s : HonestTo(k, r) /\ SameFor(r, s) => HonestTo(k, s)
         /\ \A r \in Row : \A c \in r.targets :
              HonestTo(k, r) =>
                HonestTo(k, [r EXCEPT !.targets = @ \ {c}, !.handled = @ \cup {c}, !.seen[c] = None])
<1>1. HonestTo(k, NoRow)
  BY DEF HonestTo, NoRow
<1>2. ASSUME NEW r, NEW s, HonestTo(k, r), SameFor(r, s) PROVE HonestTo(k, s)
  BY <1>2 DEF HonestTo, SameFor, Covers, Forgets
<1>3. ASSUME NEW r \in Row, NEW c \in r.targets, HonestTo(k, r)
      PROVE  HonestTo(k, [r EXCEPT !.targets = @ \ {c}, !.handled = @ \cup {c}, !.seen[c] = None])
  <2> DEFINE s == [r EXCEPT !.targets = @ \ {c}, !.handled = @ \cup {c}, !.seen[c] = None]
  <2>1. s.status = r.status /\ s.targets = r.targets \ {c} /\ s.handled = r.handled \cup {c}
    BY DEF Row
  <2> HIDE DEF s
  <2>2. s.targets \cup s.handled = r.targets \cup r.handled
    BY <1>3, <2>1
  <2>3. HonestTo(k, s)
    BY <1>3, <2>1, <2>2 DEF HonestTo, Covers, Forgets
  <2> QED BY <2>3 DEF s
<1> QED BY <1>1, <1>2, <1>3

\* Outcomes stay, and what is no longer withdrawn has one.
LEMMA RecordMoves ==
  ASSUME IInv, StoreStep \/ Recover
  PROVE  /\ custody.outcome \subseteq custody'.outcome
         /\ custody.withdrawn \subseteq custody'.withdrawn \cup custody'.outcome
<1>1. custody \in Custody
  BY DEF IInv, DurableOK
<1>2. CASE Recover
  BY <1>1, <1>2 DEF Recover, Custody
<1>3. CASE StoreStep
  <2>1. CASE custody' = custody
    BY <2>1
  <2>2. CASE custody' = Projection(Head(jobs).row)
    BY <1>1, <2>2 DEF Projection, Custody
  <2>3. CASE custody' = Withdrawal(Head(jobs).row.targets)
    BY <1>1, <2>3 DEF Withdrawal, Custody
  <2>4. CASE custody' = Settled(Head(jobs).cat)
    BY <1>1, <2>4 DEF Settled, Custody
  <2> QED BY <1>3, <2>1, <2>2, <2>3, <2>4 DEF StoreStep, After
<1> QED BY <1>2, <1>3

LEMMA StaysHonest ==
  ASSUME IInv, StoreStep \/ Recover
  PROVE  \A r : Honest(r) => HonestTo(custody', r)
  BY RecordMoves DEF Honest, HonestTo, Covers, Forgets

\* What the store accepts of an honest row accounts for every target.
LEMMA StaysAccounted ==
  ASSUME IInv, Accounts, StoreStep \/ Recover
  PROVE  TargetsAccounted'
<1> DEFINE j == Head(jobs)
<1>1. custody \in Custody /\ Acceptable(custody) /\ TargetsAccounted
  BY DEF IInv, DurableOK, RecordFits, Accounts
<1>2. CASE Recover
  <2>1. Answered \cup Witnessed \subseteq custody.pending
    BY DEF Answered, Witnessed
  <2>2. \/ custody' = custody
        \/ /\ custody'.pending = custody.pending \ (Answered \cup Witnessed)
           /\ custody'.handled = custody.handled \cup (Answered \cup Witnessed)
           /\ custody'.withdrawn = custody.withdrawn
    BY <1>1, <1>2 DEF Recover, Custody
  <2> QED BY <1>1, <2>1, <2>2 DEF TargetsAccounted
<1>3. CASE custody' = custody
  BY <1>1, <1>3 DEF TargetsAccounted
<1>4. CASE jobs # <<>> /\ custody' = After(j) /\ Acceptable(custody')
  <2>1. j \in FitJobs /\ j \in Job /\ j \in InQueue(jobs)
    BY <1>4, Parts, JobsAreJobs, QueueOfTail
  <2>2. CASE j.do \in Persists /\ After(j) = Projection(j.row)
    <3>1. /\ custody'.pending = j.row.targets /\ custody'.handled = j.row.handled
          /\ custody'.withdrawn = custody.withdrawn /\ custody'.outcome = custody.outcome
      BY <1>1, <1>4, <2>2 DEF Projection, Custody
    <3>2. Covers(j.row, custody) \/ Forgets(j.row, custody)
      BY <2>1, <2>2 DEF Accounts, Honest, HonestTo, FitJobs
    <3>3. custody.outcome \subseteq j.row.handled
      BY <1>4, <3>1 DEF Acceptable
    <3>4. Cats \subseteq j.row.targets \cup j.row.handled \cup custody.withdrawn
      BY <3>2, <3>3 DEF Covers, Forgets
    <3>5. j.row.targets \subseteq Cats /\ j.row.handled \subseteq Cats /\ custody.withdrawn \subseteq Cats
      BY <1>1, <2>1 DEF Job, Row, Custody
    <3> QED BY <3>1, <3>4, <3>5 DEF TargetsAccounted
  <2>3. CASE After(j) = Withdrawal(j.row.targets)
    <3>1. /\ custody'.pending = custody.pending \ j.row.targets
          /\ custody'.handled = custody.handled
          /\ custody'.withdrawn = custody.withdrawn \cup (custody.pending \cap j.row.targets)
      BY <1>1, <1>4, <2>3 DEF Withdrawal, Custody
    <3> QED BY <1>1, <3>1 DEF TargetsAccounted
  <2>4. CASE Matches(j.cat, j.by) /\ After(j) = Settled(j.cat)
    <3>1. j.cat \in Cats
      BY <1>1, <2>4, RecordOps
    <3>2. /\ custody'.pending = custody.pending \ {j.cat}
          /\ custody'.handled = custody.handled \cup {j.cat}
          /\ custody'.withdrawn = custody.withdrawn \ {j.cat}
      BY <1>1, <1>4, <2>4 DEF Settled, Custody
    <3> QED BY <1>1, <3>1, <3>2 DEF TargetsAccounted
  <2>5. CASE After(j) = custody
    BY <1>3, <1>4, <2>5
  <2> QED BY <2>2, <2>3, <2>4, <2>5 DEF After
<1> QED BY <1>2, <1>3, <1>4 DEF StoreStep

LEMMA Accounted ==
  ASSUME IInv, Accounts, StoreStep \/ Recover,
         HonestTo(custody', row'), \A j \in InQueue(jobs') : HonestTo(custody', j.row),
         \A t \in Turns : /\ HonestTo(custody', turn'[t].hand.snap)
                          /\ turn'[t].hand.step = "reconcile" => custody'.outcome # {}
  PROVE  Accounts'
<1>1. TargetsAccounted'
  BY StaysAccounted
<1>2. Honest(row)'
  BY DEF Honest, HonestTo, Covers, Forgets
<1>3. (\A j \in InQueue(jobs) : Honest(j.row))'
  BY DEF Honest, HonestTo, Covers, Forgets, InQueue
<1>4. (\A t \in Turns : Honest(turn[t].hand.snap))'
  BY DEF Honest, HonestTo, Covers, Forgets
<1>5. (\A t \in Turns : turn[t].hand.step = "reconcile" => custody.outcome # {})'
  OBVIOUS
<1> QED BY <1>1, <1>2, <1>3, <1>4, <1>5 DEF Accounts

\* The row that is built again where there is an outcome is without it.
LEMMA RebuiltForgets ==
  ASSUME IInv, custody.outcome # {}
  PROVE  HonestTo(custody, Rebuilt)
<1>1. custody \in Custody /\ Acceptable(custody)
  BY DEF IInv, DurableOK, RecordFits
<1>2. Rebuilt.status # "absent" =>
        Rebuilt.targets = custody.pending /\ Rebuilt.handled \subseteq custody.pending
  BY DEF Rebuilt, NoRow
<1> QED BY <1>1, <1>2 DEF HonestTo, Forgets, Acceptable

LEMMA SettlesHonest ==
  ASSUME IInv, HandsFit, Accounts, NEW t \in Turns, NEW h, SettlesSo(t, h)
  PROVE  Accounts'
<1>1. /\ StoreStep /\ \A d \in Turns \ {t} : turn'[d] = turn[d]
      /\ turn'[t].hand = h /\ row \in Row
  BY Parts DEF SettlesSo, Settles
<1>2. \A r : Honest(r) => HonestTo(custody', r)
  BY <1>1, StaysHonest
<1>3. /\ Honest(row) /\ Honest(turn[t].hand.snap) /\ HonestTo(custody', NoRow)
      /\ turn[t].hand.step = "reconcile" => custody.outcome # {}
  BY HonestRows DEF Accounts
<1>4. HonestTo(custody', row')
  <2>1. CASE SameFor(row, row')
    BY <1>2, <1>3, <2>1, HonestRows
  <2>2. CASE Takes(h)
    <3>1. PICK c \in row.targets :
            row' = IF row.targets = {c} THEN NoRow
                   ELSE [row EXCEPT !.targets = @ \ {c}, !.handled = @ \cup {c}, !.seen[c] = None]
      BY <2>2 DEF Takes
    <3>2. c \in Cats
      BY <1>1 DEF Row
    <3> QED BY <1>1, <1>2, <1>3, <3>1, <3>2, HonestRows
  <2>3. CASE GivesBack(t, h)
    BY <1>2, <1>3, <2>3 DEF GivesBack
  <2>4. CASE Rebuilds(t, h)
    BY <1>3, <2>4, RebuiltForgets DEF Rebuilds
  <2> QED BY <2>1, <2>2, <2>3, <2>4 DEF SettlesSo, Plain, Keeps, Commits, SameFor
<1>5. HonestTo(custody', h.snap)
  BY <1>2, <1>3 DEF SettlesSo, Plain, Takes, Keeps, GivesBack, Commits, Rebuilds
<1>6. h.step = "reconcile" => custody'.outcome # {}
  <2>1. \A c : Settled(c).outcome # {}
    BY DEF Settled, IInv, DurableOK, Custody
  <2> QED BY <2>1 DEF SettlesSo, Plain, Takes, Keeps, GivesBack, Commits, Rebuilds
<1>7. \A j \in InQueue(jobs') : HonestTo(custody', j.row)
  <2>1. \A j \in InQueue(jobs) : HonestTo(custody', j.row)
    BY <1>2 DEF Accounts
  <2>2. jobs \in Seq(Job)
    BY JobsAreJobs
  <2>3. ASSUME NEW e \in Job, e.row = NoRow \/ e.row = row', jobs' = Append(jobs, e)
        PROVE  <1>7
    <3>1. InQueue(jobs') = InQueue(jobs) \cup {e}
      BY <2>2, <2>3, QueueOfAppend
    <3> QED BY <1>3, <1>4, <2>1, <2>3, <3>1
  <2>4. CASE jobs # <<>> /\ jobs' = Tail(jobs)
    BY <2>1, <2>2, <2>4, QueueOfTail
  <2> QED BY <2>1, <2>3, <2>4 DEF SettlesSo, Settles
<1>8. \A d \in Turns : /\ HonestTo(custody', turn'[d].hand.snap)
                       /\ turn'[d].hand.step = "reconcile" => custody'.outcome # {}
  <2>1. \A d \in Turns \ {t} : /\ HonestTo(custody', turn'[d].hand.snap)
                               /\ turn'[d].hand.step = "reconcile" => custody'.outcome # {}
    <3>1. ASSUME NEW d \in Turns \ {t}
          PROVE  /\ Honest(turn[d].hand.snap) /\ turn'[d] = turn[d]
                 /\ turn[d].hand.step = "reconcile" => custody.outcome # {}
      BY <1>1 DEF Accounts
    <3> QED BY <1>1, <1>2, <3>1, RecordMoves
  <2>2. /\ HonestTo(custody', turn'[t].hand.snap)
        /\ turn'[t].hand.step = "reconcile" => custody'.outcome # {}
    BY <1>1, <1>5, <1>6
  <2> QED BY <2>1, <2>2
<1> QED BY <1>1, <1>4, <1>7, <1>8, Accounted

LEMMA NextAccounts == IInv /\ HandsFit /\ Accounts /\ [Next]_vars => Accounts'
<1> SUFFICES ASSUME IInv, HandsFit, Accounts, [Next]_vars PROVE Accounts'
  OBVIOUS
<1>1. CASE UNCHANGED vars
  BY <1>1 DEF vars, Accounts, TargetsAccounted, Honest, HonestTo, Covers, Forgets, InQueue
<1>2. ASSUME HandsStay, StoreStep
      PROVE  \A t \in Turns : /\ HonestTo(custody', turn'[t].hand.snap)
                              /\ turn'[t].hand.step = "reconcile" => custody'.outcome # {}
  BY <1>2, StaysHonest, RecordMoves DEF HandsStay, Accounts
<1>3. /\ jobs \in Seq(Job) /\ Honest(row) /\ \A j \in InQueue(jobs) : Honest(j.row)
      /\ \A k : HonestTo(k, NoRow)
  BY JobsAreJobs, HonestRows DEF Accounts
<1>4. ASSUME StoreStep, NEW e \in Job, HonestTo(custody', e.row),
             \/ jobs' = jobs \/ jobs' = Append(jobs, e)
             \/ jobs # <<>> /\ (jobs' = Tail(jobs) \/ jobs' = Append(Tail(jobs), e))
      PROVE  \A j \in InQueue(jobs') : HonestTo(custody', j.row)
  <2>1. \A j \in InQueue(jobs) : HonestTo(custody', j.row)
    BY <1>3, <1>4, StaysHonest
  <2>2. \A s \in Seq(Job) : InQueue(Append(s, e)) = InQueue(s) \cup {e}
    BY QueueOfAppend
  <2>3. jobs # <<>> => Tail(jobs) \in Seq(Job) /\ InQueue(Tail(jobs)) \subseteq InQueue(jobs)
    BY <1>3, QueueOfTail
  <2>4. InQueue(jobs') \subseteq InQueue(jobs) \cup {e}
    BY <1>3, <1>4, <2>2, <2>3
  <2> QED BY <1>4, <2>1, <2>4
<1>5. CASE Calm
  <2>1. PICK e \in Job : /\ SameFor(row, e.row)
                         /\ \/ jobs' = jobs \/ jobs' = Append(jobs, e)
                            \/ jobs # <<>> /\ (jobs' = Tail(jobs) \/ jobs' = Append(Tail(jobs), e))
    BY <1>5 DEF Calm
  <2>2. StoreStep /\ HandsStay /\ SameFor(row, row')
    BY <1>5 DEF Calm
  <2>3. HonestTo(custody', row)
    BY <1>3, <2>2, StaysHonest
  <2>4. HonestTo(custody', row') /\ HonestTo(custody', e.row)
    BY <2>1, <2>2, <2>3, HonestRows
  <2> QED BY <1>2, <1>4, <2>1, <2>2, <2>4, Accounted
<1>6. CASE TakesOut
  <2>1. PICK e \in Job : /\ jobs' = Append(jobs, e)
                         /\ \/ row' = NoRow /\ e.row = row
                            \/ row' = row /\ e.row.status = "absent"
    BY <1>6 DEF TakesOut
  <2>2. StoreStep /\ HandsStay
    BY <1>6 DEF TakesOut, StoreStep
  <2>3. HonestTo(custody', row)
    BY <1>3, <2>2, StaysHonest
  <2>4. HonestTo(custody', row') /\ HonestTo(custody', e.row)
    BY <1>3, <2>1, <2>3 DEF HonestTo
  <2> QED BY <1>2, <1>4, <2>1, <2>2, <2>4, Accounted
<1>7. CASE PutsBack
  <2> DEFINE j == Head(jobs)
  <2>1. StoreStep /\ HandsStay /\ jobs # <<>>
    BY <1>7 DEF PutsBack
  <2>2. HonestTo(custody', row) /\ HonestTo(custody', j.row)
    BY <1>3, <2>1, StaysHonest, QueueOfTail
  <2>3. HonestTo(custody', row')
    BY <1>7, <2>2, HonestRows DEF PutsBack
  <2>4. PICK e \in Job : /\ HonestTo(custody', e.row)
                         /\ jobs' = Tail(jobs) \/ jobs' = Append(Tail(jobs), e)
    <3>1. CASE jobs' = Tail(jobs)
      BY <2>1, <2>2, <3>1, Parts
    <3>2. ASSUME NEW e \in Job, SameFor(j.row, e.row), jobs' = Append(Tail(jobs), e)
          PROVE  \E i \in Job : /\ HonestTo(custody', i.row)
                                /\ jobs' = Tail(jobs) \/ jobs' = Append(Tail(jobs), i)
      BY <2>2, <3>2, HonestRows
    <3>3. jobs' = Tail(jobs) \/ \E e \in Job : SameFor(j.row, e.row) /\ jobs' = Append(Tail(jobs), e)
      BY <1>7 DEF PutsBack
    <3> QED BY <3>1, <3>2, <3>3
  <2> QED BY <1>2, <1>4, <2>1, <2>3, <2>4, Accounted
<1>8. ASSUME NEW t \in Turns, NEW h, SettlesSo(t, h) PROVE Accounts'
  BY <1>8, SettlesHonest
<1>9. CASE Crash \/ Recover \/ Restore
  <2>1. /\ jobs' = <<>> /\ \A t \in Turns : turn'[t].hand = NoHand
    BY <1>9, RestartsEmpty
  <2>2. StoreStep \/ Recover
    BY <1>9 DEF Crash, Restore, StoreStep
  <2>3. HonestTo(custody', row')
    <3>1. CASE Crash \/ Recover
      BY <1>3, <3>1 DEF Crash, Recover, IInv, DownIsEmpty
    <3>2. CASE Restore
      <4>1. row' = NoRow \/ (row'.targets = custody.pending /\ row'.handled = custody.handled)
        BY <3>2 DEF Restore
      <4>2. TargetsAccounted /\ custody' = custody
        BY <3>2 DEF Restore, Accounts
      <4> QED BY <1>3, <4>1, <4>2 DEF HonestTo, Covers, TargetsAccounted
    <3> QED BY <1>9, <3>1, <3>2
  <2>4. \A j \in InQueue(jobs') : HonestTo(custody', j.row)
    BY <2>1 DEF InQueue
  <2>5. \A t \in Turns : /\ HonestTo(custody', turn'[t].hand.snap)
                         /\ turn'[t].hand.step = "reconcile" => custody'.outcome # {}
    BY <1>3, <2>1, NoHands
  <2> QED BY <2>2, <2>3, <2>4, <2>5, Accounted
<1> QED BY <1>1, <1>5, <1>6, <1>7, <1>8, <1>9, Kinds

\* No target is ever forgotten: whatever fails, and however often the process dies, each cat the
\* message was for is answered, withdrawn or pending in the record.
THEOREM NoTargetIsForgotten == Spec => []TargetsAccounted
<1>1. Init => Accounts
  <2> SUFFICES ASSUME Init PROVE Accounts
    OBVIOUS
  <2>1. jobs = <<>> /\ \A t \in Turns : turn[t].hand = NoHand
    BY DEF Init, NoTurn
  <2>2. row.targets = Cats /\ TargetsAccounted
    BY DEF Init, NoRow, TargetsAccounted
  <2>3. Honest(row) /\ Honest(NoRow)
    BY <2>2, HonestRows DEF Honest, HonestTo, Covers
  <2>4. InQueue(jobs) = {}
    BY <2>1 DEF InQueue
  <2>5. \A t \in Turns : turn[t].hand.snap = NoRow /\ turn[t].hand.step # "reconcile"
    BY <2>1, NoHands
  <2> QED BY <2>2, <2>3, <2>4, <2>5 DEF Accounts
<1>2. Accounts => TargetsAccounted
  BY DEF Accounts
<1> QED BY <1>1, <1>2, HandsInvariance, NextAccounts, PTL DEF Spec

-----------------------------------------------------------------------------
(* A message for one cat. *)

OneAddressee == \E c : Cats = {c}

\* A row is for all of the message's cats.
Whole(r) == r.status # "absent" => r.targets = Cats

\* The row is in the queue, in an operation that withdraws it, or in the hands of a settlement
\* that took it out as handled.
InReach ==
  \/ row.status # "absent"
  \/ \E j \in InQueue(jobs) : j.do \in Removing /\ j.row.status # "absent"
  \/ \E t \in Turns : turn[t].hand.step \in {"taken", "commit"}

\* For one cat every row is whole; once an answer is stored nothing is pending; and what is
\* pending is in reach.
OneForAll ==
  /\ Whole(row) /\ \A j \in InQueue(jobs) : Whole(j.row)
  /\ \A t \in Turns : /\ Whole(turn[t].hand.snap)
                      /\ turn[t].hand.step = "reconcile" => ~Active
  /\ up = "up" /\ Active => InReach

LEMMA WholeRows ==
  /\ Whole(NoRow)
  /\ \A r, s : Whole(r) /\ SameFor(r, s) => Whole(s)
  BY DEF Whole, NoRow, SameFor

\* A terminal record stays terminal; for one cat, to settle it ends the record, as does to
\* withdraw a whole row.
LEMMA RecordEnds ==
  ASSUME IInv, OneAddressee
  PROVE  /\ StoreStep \/ Recover => (Active' => Active)
         /\ \A c \in Cats : custody' = Settled(c) => ~Active'
         /\ \A j \in Job : (j.do \in Removing /\ j.row.targets = Cats /\ custody' = After(j)) => ~Active'
         /\ Active => custody.pending = Cats
<1>1. custody \in Custody
  BY DEF IInv, DurableOK
<1>2. StoreStep \/ Recover => (Active' => Active)
  <2>1. CASE Recover
    BY <2>1 DEF Recover, Active
  <2>2. CASE custody' = custody
    BY <2>2 DEF Active
  <2>3. ASSUME jobs # <<>>, custody' = After(Head(jobs)), ~Active PROVE ~Active'
    <3>1. After(Head(jobs)) \in {custody, Settled(Head(jobs).cat)}
      BY <2>3 DEF After
    <3>2. Settled(Head(jobs).cat).pending \subseteq custody.pending
      BY <1>1 DEF Settled, Custody
    <3> QED BY <2>3, <3>1, <3>2 DEF Active
  <2> QED BY <2>1, <2>2, <2>3 DEF StoreStep
<1>3. ASSUME NEW c \in Cats, custody' = Settled(c) PROVE ~Active'
  <2>1. Settled(c).pending = custody.pending \ {c}
    BY <1>1 DEF Settled, Custody
  <2>2. custody.pending \subseteq {c}
    BY <1>1 DEF OneAddressee, Custody
  <2> QED BY <1>3, <2>1, <2>2 DEF Active
<1>4. ASSUME NEW j \in Job, j.do \in Removing, j.row.targets = Cats, custody' = After(j) PROVE ~Active'
  <2>1. After(j) = IF Active THEN Withdrawal(Cats) ELSE custody
    BY <1>4 DEF After, Removing, Persists
  <2>2. Withdrawal(Cats).pending = custody.pending \ Cats /\ custody.pending \subseteq Cats
    BY <1>1 DEF Withdrawal, Custody
  <2> QED BY <1>4, <2>1, <2>2 DEF Active
<1>5. Active => custody.pending = Cats
  BY <1>1 DEF Active, OneAddressee, Custody
<1> QED BY <1>2, <1>3, <1>4, <1>5

LEMMA AllForOne ==
  ASSUME Whole(row'), \A j \in InQueue(jobs') : Whole(j.row),
         \A t \in Turns : /\ Whole(turn'[t].hand.snap)
                          /\ turn'[t].hand.step = "reconcile" => ~Active',
         up' = "up" /\ Active' => InReach'
  PROVE  OneForAll'
<1>1. Whole(row)' /\ (\A j \in InQueue(jobs) : Whole(j.row))'
  BY DEF Whole, InQueue
<1>2. (\A t \in Turns : Whole(turn[t].hand.snap))'
  BY DEF Whole
<1>3. (\A t \in Turns : turn[t].hand.step = "reconcile" => ~Active)'
  OBVIOUS
<1> QED BY <1>1, <1>2, <1>3 DEF OneForAll

LEMMA SettlesOne ==
  ASSUME IInv, HandsFit, OneAddressee, OneForAll, NEW t \in Turns, NEW h, SettlesSo(t, h)
  PROVE  OneForAll'
<1>1. /\ StoreStep /\ \A d \in Turns \ {t} : turn'[d] = turn[d]
      /\ turn'[t].hand = h /\ up' = up /\ turn \in [Turns -> FitTurns]
  BY DEF SettlesSo, Settles, IInv, ProcessOK
<1>2. /\ Whole(row) /\ Whole(turn[t].hand.snap) /\ Whole(NoRow)
      /\ \A j \in InQueue(jobs) : Whole(j.row)
      /\ turn[t].hand.step = "reconcile" => ~Active
      /\ Active' => Active
  BY <1>1, WholeRows, RecordEnds DEF OneForAll
<1>3. Whole(row')
  <2>1. CASE SameFor(row, row')
    BY <1>2, <2>1, WholeRows
  <2>2. CASE Takes(h)
    <3>1. PICK c \in row.targets : row.targets = {c} => row' = NoRow
      BY <2>2 DEF Takes
    <3>2. row.targets = {c}
      BY <1>2, <2>2 DEF Takes, Whole, OneAddressee
    <3> QED BY <1>2, <3>1, <3>2
  <2>3. CASE GivesBack(t, h)
    BY <1>2, <2>3 DEF GivesBack
  <2>4. CASE Rebuilds(t, h)
    BY <1>2, <2>4 DEF Rebuilds, Rebuilt
  <2> QED BY <2>1, <2>2, <2>3, <2>4 DEF SettlesSo, Plain, Keeps, Commits, SameFor
<1>4. Whole(h.snap)
  BY <1>2 DEF SettlesSo, Plain, Takes, Keeps, GivesBack, Commits, Rebuilds
<1>5. h.step = "reconcile" => ~Active'
  <2>1. (\E c \in Cats : custody' = Settled(c)) => ~Active'
    BY RecordEnds
  <2> QED BY <2>1 DEF SettlesSo, Plain, Takes, Keeps, GivesBack, Commits, Rebuilds
<1>6. /\ \A j \in InQueue(jobs') : Whole(j.row)
      /\ \A j \in InQueue(jobs) : j.do \in Asking \/ j \in InQueue(jobs')
  <2>1. jobs \in Seq(Job)
    BY JobsAreJobs
  <2>2. ASSUME NEW e \in Job, e.row = NoRow \/ e.row = row', jobs' = Append(jobs, e)
        PROVE  <1>6
    <3>1. InQueue(jobs') = InQueue(jobs) \cup {e}
      BY <2>1, <2>2, QueueOfAppend
    <3> QED BY <1>2, <1>3, <2>2, <3>1
  <2>3. CASE jobs # <<>> /\ Head(jobs).do \in Asking /\ jobs' = Tail(jobs)
    <3>1. InQueue(jobs) = {Head(jobs)} \cup InQueue(jobs')
      BY <2>1, <2>3, QueueOfTail
    <3> QED BY <1>2, <2>3, <3>1
  <2>4. CASE jobs' = jobs
    BY <1>2, <2>4
  <2> QED BY <2>2, <2>3, <2>4 DEF SettlesSo, Settles
<1>7. \A d \in Turns : /\ Whole(turn'[d].hand.snap)
                       /\ turn'[d].hand.step = "reconcile" => ~Active'
  <2>1. ASSUME NEW d \in Turns \ {t}
        PROVE  Whole(turn'[d].hand.snap) /\ (turn'[d].hand.step = "reconcile" => ~Active')
    BY <1>1, <1>2 DEF OneForAll
  <2>2. Whole(turn'[t].hand.snap) /\ (turn'[t].hand.step = "reconcile" => ~Active')
    BY <1>1, <1>4, <1>5
  <2> QED BY <2>1, <2>2
<1>8. up' = "up" /\ Active' => InReach'
  <2> SUFFICES ASSUME up' = "up", Active' PROVE InReach'
    OBVIOUS
  <2>1. CASE Takes(h) \/ Keeps(t, h)
    <3>1. turn'[t].hand.step \in {"taken", "commit"}
      BY <1>1, <2>1 DEF Takes, Keeps
    <3> QED BY <3>1 DEF InReach
  <2>2. CASE GivesBack(t, h)
    <3>1. row'.status # "absent"
      BY <2>2 DEF GivesBack, HandsFit
    <3> QED BY <3>1 DEF InReach
  <2>3. CASE Commits(h)
    BY <2>3, RecordEnds DEF Commits
  <2>4. CASE Rebuilds(t, h)
    BY <1>2, <2>4 DEF Rebuilds
  <2>5. CASE Plain(t, h)
    <3>1. InReach
      BY <1>1, <1>2 DEF OneForAll
    <3>2. row.status # "absent" => row'.status # "absent"
      BY <2>5 DEF Plain, SameFor
    <3>3. ASSUME NEW j \in InQueue(jobs), j.do \in Removing PROVE j \in InQueue(jobs')
      BY <1>6, <3>3, NotAsked
    <3>4. ASSUME NEW d \in Turns, turn[d].hand.step \in {"taken", "commit"}
          PROVE  turn'[d].hand.step \in {"taken", "commit"}
      BY <1>1, <2>5, <3>4 DEF Plain
    <3>5. (\E j \in InQueue(jobs) : j.do \in Removing /\ j.row.status # "absent") => InReach'
      BY <3>3 DEF InReach, InQueue
    <3>6. (\E d \in Turns : turn[d].hand.step \in {"taken", "commit"}) => InReach'
      BY <3>4 DEF InReach
    <3>7. row.status # "absent" => InReach'
      BY <3>2 DEF InReach
    <3> QED BY <3>1, <3>5, <3>6, <3>7 DEF InReach
  <2> QED BY <2>1, <2>2, <2>3, <2>4, <2>5 DEF SettlesSo
<1> QED BY <1>3, <1>6, <1>7, <1>8, AllForOne

LEMMA NextOneForAll ==
  ASSUME OneAddressee
  PROVE  IInv /\ HandsFit /\ OneForAll /\ [Next]_vars => OneForAll'
<1> SUFFICES ASSUME IInv, HandsFit, OneForAll, [Next]_vars PROVE OneForAll'
  OBVIOUS
<1>1. CASE UNCHANGED vars
  BY <1>1 DEF vars, OneForAll, Whole, InReach, InQueue, Active
<1>2. /\ jobs \in Seq(Job) /\ Whole(row) /\ Whole(NoRow) /\ \A j \in InQueue(jobs) : Whole(j.row)
  BY JobsAreJobs, WholeRows DEF OneForAll
<1>3. ASSUME StoreStep \/ Recover PROVE Active' => Active
  BY <1>3, RecordEnds
<1>4. ASSUME HandsStay, StoreStep
      PROVE  /\ \A t \in Turns : /\ Whole(turn'[t].hand.snap)
                                 /\ turn'[t].hand.step = "reconcile" => ~Active'
             /\ (\E t \in Turns : turn[t].hand.step \in {"taken", "commit"}) => InReach'
  BY <1>3, <1>4 DEF HandsStay, OneForAll, InReach
<1>5. ASSUME NEW e \in Job, Whole(e.row),
             \/ jobs' = jobs \/ jobs' = Append(jobs, e)
             \/ jobs # <<>> /\ (jobs' = Tail(jobs) \/ jobs' = Append(Tail(jobs), e))
      PROVE  /\ \A j \in InQueue(jobs') : Whole(j.row)
             /\ \A j \in InQueue(jobs) : j \in InQueue(jobs') \/ (jobs # <<>> /\ j = Head(jobs))
             /\ jobs' = Append(jobs, e) => e \in InQueue(jobs')
             /\ jobs' \in {jobs, Append(jobs, e)} => InQueue(jobs) \subseteq InQueue(jobs')
  <2>1. \A s \in Seq(Job) : InQueue(Append(s, e)) = InQueue(s) \cup {e}
    BY QueueOfAppend
  <2>2. jobs # <<>> => Tail(jobs) \in Seq(Job) /\ InQueue(jobs) = {Head(jobs)} \cup InQueue(Tail(jobs))
    BY <1>2, QueueOfTail
  <2>3. CASE jobs' = jobs
    BY <1>2, <2>1, <2>3
  <2>4. CASE jobs' = Append(jobs, e)
    BY <1>2, <1>5, <2>1, <2>4
  <2>5. CASE jobs # <<>> /\ jobs' = Tail(jobs) /\ jobs' \notin {jobs, Append(jobs, e)}
    BY <1>2, <2>2, <2>5
  <2>6. CASE jobs # <<>> /\ jobs' = Append(Tail(jobs), e) /\ jobs' \notin {jobs, Append(jobs, e)}
    BY <1>2, <1>5, <2>1, <2>2, <2>6
  <2> QED BY <1>5, <2>3, <2>4, <2>5, <2>6
\* What of the reach survives where no settlement goes on.
<1>6. ASSUME HandsStay, StoreStep, up' = up, up' = "up", Active',
             row.status # "absent" => InReach',
             \A j \in InQueue(jobs) : (j.do \in Removing /\ j.row.status # "absent") => InReach'
      PROVE  InReach'
  <2>1. InReach
    BY <1>3, <1>6 DEF OneForAll
  <2> QED BY <1>4, <1>6, <2>1 DEF InReach
<1>7. CASE Calm
  <2>1. PICK e \in Job :
          /\ SameFor(row, e.row)
          /\ \/ jobs' = jobs \/ jobs' = Append(jobs, e)
             \/ /\ jobs # <<>> /\ Head(jobs).do \in Stored
                /\ jobs' = Tail(jobs) \/ jobs' = Append(Tail(jobs), e)
    BY <1>7 DEF Calm
  <2>2. StoreStep /\ HandsStay /\ SameFor(row, row') /\ up' = up
    BY <1>7 DEF Calm
  <2>3. Whole(e.row) /\ Whole(row')
    BY <1>2, <2>1, <2>2, WholeRows
  <2>4. /\ \A j \in InQueue(jobs') : Whole(j.row)
        /\ \A j \in InQueue(jobs) : j.do \in Removing => j \in InQueue(jobs')
    <3>1. \A do \in Removing : do \notin Stored
      BY DEF Removing, Stored, Persists
    <3> QED BY <1>5, <2>1, <2>3, <3>1
  <2>5. /\ row.status # "absent" => InReach'
        /\ \A j \in InQueue(jobs) : (j.do \in Removing /\ j.row.status # "absent") => InReach'
    BY <2>2, <2>4 DEF SameFor, InReach, InQueue
  <2> QED BY <1>4, <1>6, <2>2, <2>3, <2>4, <2>5, AllForOne
<1>8. CASE TakesOut
  <2>1. PICK e \in Job : /\ e.do \in Removing /\ jobs' = Append(jobs, e)
                         /\ \/ row.status # "absent" /\ row' = NoRow /\ e.row = row
                            \/ row' = row /\ e.row.status = "absent"
    BY <1>8 DEF TakesOut
  <2>2. StoreStep /\ HandsStay /\ up' = up
    BY <1>8 DEF TakesOut, StoreStep
  <2>3. Whole(e.row) /\ Whole(row')
    BY <1>2, <2>1 DEF Whole
  <2>4. /\ \A j \in InQueue(jobs') : Whole(j.row)
        /\ InQueue(jobs) \subseteq InQueue(jobs') /\ e \in InQueue(jobs')
    BY <1>5, <2>1, <2>3
  <2>5. /\ row.status # "absent" => InReach'
        /\ \A j \in InQueue(jobs) : (j.do \in Removing /\ j.row.status # "absent") => InReach'
    BY <2>1, <2>4 DEF InReach, InQueue
  <2> QED BY <1>4, <1>6, <2>2, <2>3, <2>4, <2>5, AllForOne
<1>9. CASE PutsBack
  <2> DEFINE j == Head(jobs)
  <2>1. StoreStep /\ HandsStay /\ jobs # <<>> /\ up' = up /\ j.do \in Removing
    BY <1>9 DEF PutsBack
  <2>2. Whole(j.row) /\ j \in Job
    BY <1>2, <2>1, Parts, QueueOfTail
  <2>3. PICK e \in Job : /\ SameFor(j.row, e.row)
                         /\ jobs' = Tail(jobs) \/ jobs' = Append(Tail(jobs), e)
    <3>1. SameFor(j.row, j.row)
      BY DEF SameFor
    <3> QED BY <1>9, <2>2, <3>1 DEF PutsBack
  <2>4. Whole(e.row) /\ Whole(row')
    BY <1>2, <1>9, <2>2, <2>3, WholeRows DEF PutsBack
  <2>5. /\ \A i \in InQueue(jobs') : Whole(i.row)
        /\ \A i \in InQueue(jobs) : i \in InQueue(jobs') \/ i = j
    BY <1>5, <2>1, <2>3, <2>4
  <2>6. row.status # "absent" => row'.status # "absent"
    BY <1>9 DEF PutsBack
  <2>7. ASSUME Active', j.row.status # "absent" PROVE row'.status # "absent"
    <3>1. custody' # After(j)
      BY <2>1, <2>2, <2>7, RecordEnds DEF Whole
    <3> QED BY <1>9, <2>7, <3>1 DEF PutsBack, SameFor
  <2>8. ASSUME Active'
        PROVE  /\ row.status # "absent" => InReach'
               /\ \A i \in InQueue(jobs) : (i.do \in Removing /\ i.row.status # "absent") => InReach'
    BY <2>5, <2>6, <2>7, <2>8 DEF InReach, InQueue
  <2> QED BY <1>4, <1>6, <2>1, <2>4, <2>5, <2>8, AllForOne
<1>10. ASSUME NEW t \in Turns, NEW h, SettlesSo(t, h) PROVE OneForAll'
  BY <1>10, SettlesOne
<1>11. CASE Crash \/ Recover \/ Restore
  <2>1. jobs' = <<>> /\ \A t \in Turns : turn'[t].hand = NoHand
    BY <1>11, RestartsEmpty
  <2>2. \A i \in InQueue(jobs') : Whole(i.row)
    BY <2>1 DEF InQueue
  <2>3. \A t \in Turns : /\ Whole(turn'[t].hand.snap)
                         /\ turn'[t].hand.step = "reconcile" => ~Active'
    BY <1>2, <2>1, NoHands
  <2>4. CASE Crash \/ Recover
    <3>1. row' = NoRow /\ up' # "up"
      BY <2>4 DEF Crash, Recover, IInv, DownIsEmpty
    <3> QED BY <1>2, <2>2, <2>3, <3>1, AllForOne
  <2>5. CASE Restore
    <3>1. /\ ~Active => row' = NoRow /\ ~Active'
          /\ Active => row'.status # "absent" /\ row'.targets = custody.pending
      BY <2>5 DEF Restore, Active
    <3>2. Active => custody.pending = Cats
      BY RecordEnds
    <3> QED BY <1>2, <2>2, <2>3, <3>1, <3>2, AllForOne DEF Whole, InReach
  <2> QED BY <1>11, <2>4, <2>5
<1> QED BY <1>1, <1>7, <1>8, <1>9, <1>10, <1>11, Kinds

\* A message for one cat is never lost, whatever fails and however often the process dies: while
\* it is pending a server that is up has its row, or is about to settle or put it back.  (For more
\* cats two failures that overlap are enough to lose one: see the runs.)
THEOREM NothingOfOneIsLost == ASSUME OneAddressee PROVE Spec => []NothingLost
<1>1. Init => OneForAll
  <2> SUFFICES ASSUME Init PROVE OneForAll
    OBVIOUS
  <2>1. jobs = <<>> /\ \A t \in Turns : turn[t].hand = NoHand
    BY DEF Init, NoTurn
  <2>2. row.targets = Cats /\ row.status = "queued"
    BY DEF Init, NoRow
  <2>3. InQueue(jobs) = {}
    BY <2>1 DEF InQueue
  <2> QED BY <2>1, <2>2, <2>3, NoHands, WholeRows DEF OneForAll, Whole, InReach
<1>2. IInv /\ HandsFit /\ OneForAll /\ TargetsAccounted => NothingLost
  <2> SUFFICES ASSUME IInv, HandsFit, OneForAll, up = "up", NEW c \in custody.pending
               PROVE  \/ c \in row.targets
                      \/ \E i \in DOMAIN jobs : c \in jobs[i].row.targets
                      \/ \E t \in Turns : c \in turn[t].hand.snap.targets
    BY DEF NothingLost, IInv, ProcessOK
  <2>1. c \in Cats /\ InReach
    BY DEF OneForAll, Active, IInv, DurableOK, Custody
  <2>2. CASE row.status # "absent"
    BY <2>1, <2>2 DEF OneForAll, Whole
  <2>3. ASSUME NEW j \in InQueue(jobs), j.row.status # "absent"
        PROVE  \E i \in DOMAIN jobs : c \in jobs[i].row.targets
    BY <2>1, <2>3 DEF OneForAll, Whole, InQueue
  <2>4. ASSUME NEW t \in Turns, turn[t].hand.step \in {"taken", "commit"}
        PROVE  c \in turn[t].hand.snap.targets
    BY <2>1, <2>4 DEF OneForAll, Whole, HandsFit
  <2> QED BY <2>1, <2>2, <2>3, <2>4 DEF InReach
<1> QED BY <1>1, <1>2, HandsInvariance, NextOneForAll, NoTargetIsForgotten, PTL DEF Spec
=============================================================================
