----------------------------- MODULE QueueCustody -----------------------------
(***************************************************************************)
(* The custody of one queued message: its row in the in-memory queue, its  *)
(* durable record beside the message, and what each turn of a cat that     *)
(* meets it does to the two (QueueProcessor, InvocationQueue,              *)
(* QueuedMessageCustodyCoordinator), over crashes and the restart's        *)
(* reconciliation (QueuedMessageCustodyStartupReconciler).                 *)
(*                                                                         *)
(* The message is addressed to all of Cats.  A turn executes the row for   *)
(* all the cats it is still for, or is a turn of one cat for something     *)
(* else that reads the queued message in passing.  Either answers it.      *)
(*                                                                         *)
(* The row changes at once; the record changes later, by operations that   *)
(* take turns at the entry's lock, and the store refuses a record that     *)
(* contradicts itself.  One action is one synchronous step: every await is *)
(* a place where other actions run.                                        *)
(***************************************************************************)
EXTENDS Naturals, Sequences, FiniteSets

CONSTANTS
  Cats,       \* the cats the message is addressed to
  Turns,
  None,
  MaxFaults,  \* bound on failed operations of the store
  MaxCrashes  \* bound on crashes

ASSUME NoneAssumption == None \notin Turns \cup Cats
ASSUME BoundsAssumption == {MaxFaults, MaxCrashes} \subseteq Nat

VARIABLES
  row,      \* the entry of the in-memory queue
  custody,  \* the durable record
  jobs,     \* operations on the record that wait for the entry's lock, in order
  turn,     \* the turns; what became of each child of a turn is durable
  replied,  \* durable: the cats and turns that posted an answer to the message
  up,       \* the server: down, reconciled, or up
  faults, crashes

vars == <<row, custody, jobs, turn, replied, up, faults, crashes>>

Unseen == [c \in Cats |-> None]
NoRow == [status |-> "absent", targets |-> {}, seen |-> Unseen, exposed |-> {},
          handled |-> {}]
NoHand == [cat |-> None, step |-> "none", snap |-> NoRow]
NoTurn == [phase |-> "idle", own |-> FALSE, cats |-> {}, verdict |-> "none",
           child |-> [c \in Cats |-> "none"], todo |-> {}, hand |-> NoHand]

Exposures == Cats \X Turns
Row == [status : {"absent", "queued", "processing"}, targets : SUBSET Cats,
        seen : [Cats -> Turns \cup {None}], exposed : SUBSET Exposures, handled : SUBSET Cats]
Custody == [status : {"queued", "processing"}, pending : SUBSET Cats,
            seen : [Cats -> Turns \cup {None}], exposed : SUBSET Exposures,
            handled : SUBSET Cats, withdrawn : SUBSET Cats, outcome : SUBSET Cats]
Persists == {"start", "rollback", "expose", "read", "stage", "mark"}
Job == [do : Persists \cup {"withdraw", "remove", "handle", "respond", "detached"},
        by : Turns \cup {None}, cat : Cats \cup {None}, row : Row]
Steps == {"none", "taken", "commit", "answered", "respond", "reconcile", "detach", "late", "mark",
          "persist"}
Turn == [phase : {"idle", "starting", "ensuring", "running", "returning", "settling", "over",
                  "dead"},
         own : BOOLEAN, cats : SUBSET Cats,
         verdict : {"none", "stopped", "succeeded", "failed"},
         child : [Cats -> {"none", "exposing", "running", "succeeded", "failed"}],
         todo : SUBSET Cats,
         hand : [cat : Cats \cup {None}, snap : Row, step : Steps]]

\* The state is well formed.
TypeOK ==
  /\ row \in Row /\ custody \in Custody
  /\ jobs \in Seq(Job) /\ turn \in [Turns -> Turn]
  /\ replied \subseteq Exposures /\ up \in {"down", "reconciled", "up"}
  /\ faults \in 0..MaxFaults /\ crashes \in 0..MaxCrashes

\* The message has just been accepted: queued, and its record stored with it.
Init ==
  /\ row = [NoRow EXCEPT !.status = "queued", !.targets = Cats]
  /\ custody = [status |-> "queued", pending |-> Cats, seen |-> Unseen, exposed |-> {},
                handled |-> {}, withdrawn |-> {}, outcome |-> {}]
  /\ jobs = <<>> /\ turn = [t \in Turns |-> NoTurn] /\ replied = {} /\ up = "up"
  /\ faults = 0 /\ crashes = 0

-----------------------------------------------------------------------------
(* The record and its store. *)

\* The record is active, and not terminal, while a target is pending.
Active == custody.pending # {}

\* Mutant: an outcome may be without its target being handled.
AcceptableUnwitnessed(k) ==
  /\ k.pending \cap (k.handled \cup k.withdrawn) = {}
  /\ k.handled \cap k.withdrawn = {}
\* What the store accepts (assertQueuedMessageCustody).
Acceptable(k) ==
  /\ k.pending \cap (k.handled \cup k.withdrawn) = {}
  /\ k.handled \cap k.withdrawn = {}
  /\ k.outcome \subseteq k.handled

\* The record as the row r has it; outcomes and withdrawals are the record's own.
Projection(r) ==
  [custody EXCEPT !.status = r.status, !.pending = r.targets, !.seen = r.seen,
                  !.exposed = @ \cup r.exposed, !.handled = r.handled]

\* c's part is done by turn t if c saw the message last in t, or was withdrawn and had read it in t.
Matches(c, t) ==
  \/ c \in custody.pending /\ custody.seen[c] = t
  \/ c \in custody.withdrawn /\ ~Active /\ <<c, t>> \in custody.exposed

Settled(c) ==
  [custody EXCEPT !.status = "queued", !.pending = @ \ {c}, !.handled = @ \cup {c},
                  !.withdrawn = @ \ {c}, !.seen[c] = None, !.outcome = @ \cup {c}]

Withdrawal(targets) ==
  [custody EXCEPT !.status = "queued", !.pending = @ \ targets,
                  !.withdrawn = @ \cup (custody.pending \cap targets)]

\* The record after operation j; a terminal record is left as it is, but by late success.
After(j) ==
  CASE j.do \in Persists /\ Active -> Projection(j.row)
    [] j.do \in {"withdraw", "remove"} /\ Active -> Withdrawal(j.row.targets)
    [] j.do \in {"handle", "respond"} /\ Matches(j.cat, j.by) -> Settled(j.cat)
    [] /\ j.do = "detached" /\ Matches(j.cat, j.by)
       /\ ~Active \/ j.cat \notin row.targets -> Settled(j.cat)
    [] OTHER -> custody

NewJob(do, t, c, r) == [do |-> do, by |-> t, cat |-> c, row |-> r]

\* The operation at the head is carried out, refused by the store, or fails; a failure
\* may come after the write.
Write(do, t, ok) ==
  /\ jobs # <<>> /\ Head(jobs).do = do /\ Head(jobs).by = t
  /\ LET next == After(Head(jobs)) IN
     \/ ok /\ Acceptable(next) /\ custody' = next /\ UNCHANGED faults
     \/ ~ok /\ ~Acceptable(next) /\ UNCHANGED <<custody, faults>>
     \/ /\ ~ok /\ Acceptable(next) /\ faults < MaxFaults /\ faults' = faults + 1
        /\ custody' \in {custody, next}

-----------------------------------------------------------------------------
(* A turn, up to its end. *)

\* Some turn of ts has c and is under way.
Executes(ts, c) ==
  \E t \in ts : /\ c \in turn[t].cats
                /\ turn[t].phase \in {"starting", "ensuring", "running", "returning"}
Busy(c) == Executes(Turns, c)
Requeued == [row EXCEPT !.status = "queued"]
\* Mutant: the exposure is recorded with its fields swapped.
SeenBySwapped(c, t) == [row EXCEPT !.seen[c] = t, !.exposed = @ \cup {<<t, c>>}]
SeenBy(c, t) == [row EXCEPT !.seen[c] = t, !.exposed = @ \cup {<<c, t>>}]

\* What is left of a turn: what its children came to, which is durable.
Remains(u, phase) ==
  [NoTurn EXCEPT !.phase = phase,
                 !.child = [c \in Cats |-> IF u.child[c] \in {"exposing", "running"}
                                           THEN "failed" ELSE u.child[c]]]
Settling(u, verdict) == [u EXCEPT !.phase = "settling", !.verdict = verdict, !.todo = u.cats]

\* The queue starts its row for the cats it is still for.
Dispatch(t) ==
  /\ up = "up" /\ turn[t].phase = "idle"
  /\ row.status = "queued" /\ \A c \in row.targets : ~Busy(c)
  /\ row' = [row EXCEPT !.status = "processing"]
  /\ jobs' = Append(jobs, NewJob("start", t, None, row'))
  /\ turn' = [turn EXCEPT ![t] = [NoTurn EXCEPT !.phase = "starting", !.own = TRUE,
                                                !.cats = row.targets]]
  /\ UNCHANGED <<custody, replied, up, faults, crashes>>

Started(t) ==
  /\ Write("start", t, TRUE)
  /\ jobs' = Tail(jobs)
  /\ turn' = [turn EXCEPT ![t].phase = "ensuring"]
  /\ UNCHANGED <<row, replied, up, crashes>>

\* The start could not be stored: the row is given back.
NotStarted(t) ==
  /\ Write("start", t, FALSE)
  /\ IF row.status = "processing"
     THEN row' = Requeued /\ jobs' = Append(Tail(jobs), NewJob("rollback", None, None, Requeued))
     ELSE jobs' = Tail(jobs) /\ UNCHANGED row
  /\ turn' = [turn EXCEPT ![t] = Remains(@, "over")]
  /\ UNCHANGED <<replied, up, crashes>>

RolledBack ==
  /\ \E ok \in BOOLEAN : Write("rollback", None, ok)
  /\ jobs' = Tail(jobs)
  /\ UNCHANGED <<row, turn, replied, up, crashes>>

\* The turn looks at the record before it runs: not if it is terminal, nor if the row is gone.
Ensure(t) ==
  /\ turn[t].phase = "ensuring"
  /\ IF row.status # "absent" /\ Active
     THEN /\ turn' = [turn EXCEPT ![t].phase = "running"]
          /\ UNCHANGED row
     ELSE /\ turn' = [turn EXCEPT ![t] = Settling(@, IF row.status = "absent" THEN "stopped"
                                                     ELSE "failed")]
          /\ row' = IF row.status = "processing" THEN Requeued ELSE row
  /\ UNCHANGED <<custody, jobs, replied, up, faults, crashes>>

\* A child puts the message into its prompt and stores that it has, before its cat runs.
Expose(t, c) ==
  /\ turn[t].own /\ turn[t].phase = "running" /\ c \in turn[t].cats /\ turn[t].child[c] = "none"
  /\ IF c \in row.targets
     THEN /\ row' = SeenBy(c, t)
          /\ jobs' = Append(jobs, NewJob("expose", t, c, row'))
          /\ turn' = [turn EXCEPT ![t].child[c] = "exposing"]
     ELSE /\ turn' = [turn EXCEPT ![t].child[c] = "running"]
          /\ UNCHANGED <<row, jobs>>
  /\ UNCHANGED <<custody, replied, up, faults, crashes>>

Exposed(t, c) ==
  /\ jobs # <<>> /\ Head(jobs).cat = c
  /\ \E ok \in BOOLEAN :
       /\ Write("expose", t, ok)
       /\ turn' = [turn EXCEPT ![t].child[c] = IF ok /\ turn[t].verdict = "none"
                                              THEN "running" ELSE "failed"]
  /\ jobs' = Tail(jobs)
  /\ UNCHANGED <<row, replied, up, crashes>>

\* A running cat reads the queued message (get_thread_context): in a turn for something else,
\* which is of no interest before it does, or in a turn of the row when the row is back.
Read(t, c) ==
  /\ up = "up" /\ row.status = "queued" /\ c \in row.targets
  /\ \/ /\ turn[t].phase = "idle" /\ ~Busy(c)
        /\ turn' = [turn EXCEPT ![t] = [NoTurn EXCEPT !.phase = "running", !.cats = {c},
                                                      !.child[c] = "running"]]
     \/ /\ turn[t].phase = "running" /\ turn[t].child[c] = "running"
        /\ <<c, t>> \notin custody.exposed
        /\ \A i \in DOMAIN jobs : <<jobs[i].do, jobs[i].by>> # <<"read", t>>
        /\ UNCHANGED turn
  /\ row' = SeenBy(c, t)
  /\ jobs' = Append(jobs, NewJob("read", t, c, row'))
  /\ UNCHANGED <<custody, replied, up, faults, crashes>>

ReadStored(t) ==
  /\ \E ok \in BOOLEAN : Write("read", t, ok)
  /\ jobs' = Tail(jobs)
  /\ UNCHANGED <<row, turn, replied, up, crashes>>

\* A cat that has the message posts an answer to it.
Reply(t, c) ==
  /\ turn[t].phase = "running" /\ turn[t].child[c] = "running"
  /\ <<c, t>> \in custody.exposed \ replied
  /\ replied' = replied \cup {<<c, t>>}
  /\ UNCHANGED <<row, custody, jobs, turn, up, faults, crashes>>

\* A child ends; a turn for something else ends with it.
EndChild(t, c, how) ==
  /\ turn[t].phase = "running" /\ turn[t].child[c] = "running"
  /\ LET u == [turn[t] EXCEPT !.child[c] = how]
     IN turn' = [turn EXCEPT ![t] = IF u.own THEN u ELSE Settling(u, how)]
  /\ UNCHANGED <<row, custody, jobs, replied, up, faults, crashes>>

\* The user stops the row's turn: how its children end no longer matters to its verdict.  (To
\* stop another turn is, for the message, to have it fail.)
Stop(t) ==
  /\ turn[t].own /\ turn[t].phase = "running" /\ turn[t].verdict = "none"
  /\ turn' = [turn EXCEPT ![t].verdict = "stopped"]
  /\ UNCHANGED <<row, custody, jobs, replied, up, faults, crashes>>

Ended(t) ==
  /\ turn[t].phase = "running"
  /\ \A c \in turn[t].cats : turn[t].child[c] \in {"succeeded", "failed"}
Verdict(t) ==
  IF turn[t].verdict = "stopped" THEN "stopped"
  ELSE IF \E c \in turn[t].cats : turn[t].child[c] = "succeeded" THEN "succeeded" ELSE "failed"

\* The end of a turn that has lost its row.
Finish(t) ==
  /\ Ended(t) /\ row.status # "processing" /\ Verdict(t) # "stopped"
  /\ turn' = [turn EXCEPT ![t] = Settling(@, Verdict(t))]
  /\ UNCHANGED <<row, custody, jobs, replied, up, faults, crashes>>

\* The end of the row's turn: the row goes back to the queue to be settled.
GiveBack(t) ==
  /\ Ended(t) /\ row.status = "processing" /\ Verdict(t) # "stopped"
  /\ row' = Requeued
  /\ jobs' = Append(jobs, NewJob("stage", t, None, Requeued))
  /\ turn' = [turn EXCEPT ![t].phase = "returning", ![t].verdict = Verdict(t)]
  /\ UNCHANGED <<custody, replied, up, faults, crashes>>

\* A stopped turn takes the row out and withdraws its targets.
Withdraw(t) ==
  /\ Ended(t) /\ Verdict(t) = "stopped"
  /\ LET held == row.status = "processing" IN
     /\ row' = IF held THEN NoRow ELSE row
     /\ jobs' = Append(jobs, NewJob("withdraw", t, None,
                                   IF held THEN row ELSE [NoRow EXCEPT !.targets = turn[t].cats]))
  /\ turn' = [turn EXCEPT ![t].phase = "returning"]
  /\ UNCHANGED <<custody, replied, up, faults, crashes>>

\* A withdrawal that could not be stored puts the row back, unless one is there.
Withdrawn(t, ok) ==
  /\ Write("withdraw", t, ok)
  /\ LET removed == Head(jobs).row
         restored == [removed EXCEPT !.status = "queued"] IN
     IF ok \/ removed.status = "absent"
     THEN /\ jobs' = Tail(jobs) /\ UNCHANGED row
          /\ turn' = [turn EXCEPT ![t] = Settling(@, "stopped")]
     ELSE /\ row' = IF row.status = "absent" THEN restored ELSE row
          /\ jobs' = Append(Tail(jobs), NewJob("stage", t, None, restored))
          /\ UNCHANGED turn
  /\ UNCHANGED <<replied, up, crashes>>

Staged(t) ==
  /\ \E ok \in BOOLEAN : Write("stage", t, ok)
  /\ jobs' = Tail(jobs)
  /\ turn' = [turn EXCEPT ![t] = Settling(@, @.verdict)]
  /\ UNCHANGED <<row, replied, up, crashes>>

-----------------------------------------------------------------------------
(* What a turn leaves behind it is settled, one cat after the other. *)

Succeeded(u) == {c \in u.cats : u.child[c] = "succeeded"}
\* The cats a settlement may take next: of a success, first those that succeeded.
Turnable(u) ==
  IF u.verdict = "succeeded" /\ u.todo \cap Succeeded(u) # {}
  THEN u.todo \cap Succeeded(u) ELSE u.todo
Free(t) == turn[t].phase = "settling" /\ turn[t].hand = NoHand
At(t, step) == turn[t].phase = "settling" /\ turn[t].hand.step = step
\* The settlement goes on with the cat it has, or is done with c.
To(t, step) == turn' = [turn EXCEPT ![t].hand.step = step, ![t].hand.snap = NoRow]
Drop(t, c) ==
  LET u == [turn[t] EXCEPT !.todo = @ \ {c}, !.hand = NoHand]
  IN turn' = [turn EXCEPT ![t] = IF u.todo = {} THEN Remains(u, "over") ELSE u]

\* The row is queued for c, which saw it last in t.
Bound(t, c) == row.status = "queued" /\ c \in row.targets /\ row.seen[c] = t
Outcome(t, c) == turn[t].verdict = "succeeded" /\ turn[t].child[c] = "succeeded"
\* What there is to settle for c: a success in the row, an answer before a failure, or what
\* the record alone still has.
Handles(t, c) == Bound(t, c) /\ Outcome(t, c)
Answers(t, c) == Bound(t, c) /\ turn[t].verdict # "succeeded" /\ <<c, t>> \in replied
Lingers(t, c) ==
  /\ <<c, t>> \in custody.exposed /\ c \in custody.pending \cup custody.withdrawn
  /\ Outcome(t, c) \/ (turn[t].verdict # "succeeded" /\ <<c, t>> \in replied)
\* The turn comes to c; a failure not if another turn has the cat by now (PassOver).
Open(t, c) ==
  /\ Free(t) /\ c \in Turnable(turn[t])
  /\ turn[t].verdict # "succeeded" =>
       \A d \in Turns \ {t} : c \in turn[d].cats => turn[d].phase \notin {"ensuring", "running"}
Comes(t, c) == Open(t, c) /\ ~Handles(t, c) /\ ~Answers(t, c)
\* The turn has come to the given step with c.
With(t, c, step) == At(t, step) /\ turn[t].hand.cat = c

\* A failure passes over a cat that another turn executes; one that is being set up or taken
\* down it may see or not.
PassOver(t, c) ==
  /\ Free(t) /\ c \in Turnable(turn[t]) /\ turn[t].verdict # "succeeded"
  /\ Executes(Turns \ {t}, c)
  /\ Drop(t, c)
  /\ UNCHANGED <<row, custody, jobs, replied, up, faults, crashes>>

\* The row loses the target that succeeded, and itself if it was the last.
TakeHandled(t, c) ==
  /\ Open(t, c) /\ Handles(t, c)
  /\ row' = IF row.targets = {c} THEN NoRow
            ELSE [row EXCEPT !.targets = @ \ {c}, !.handled = @ \cup {c}, !.seen[c] = None]
  /\ turn' = [turn EXCEPT ![t].hand = [cat |-> c, snap |-> row, step |-> "taken"]]
  /\ UNCHANGED <<custody, jobs, replied, up, faults, crashes>>

\* The record is looked at: a terminal or unreadable one puts the row back.
CheckHandled(t) ==
  /\ At(t, "taken")
  /\ \/ /\ Active
        /\ jobs' = Append(jobs, NewJob("handle", t, turn[t].hand.cat, NoRow))
        /\ turn' = [turn EXCEPT ![t].hand.step = "commit"]
        /\ UNCHANGED <<row, faults>>
     \/ /\ Active => faults < MaxFaults
        /\ faults' = IF Active THEN faults + 1 ELSE faults
        /\ row' = turn[t].hand.snap
        /\ To(t, "detach") /\ UNCHANGED jobs
  /\ UNCHANGED <<custody, replied, up, crashes>>

\* A success that was not stored puts the row back as it was.
Committed(t, ok) ==
  /\ Write("handle", t, ok)
  /\ row' = IF ok /\ Matches(Head(jobs).cat, t) THEN row ELSE turn[t].hand.snap
  /\ jobs' = Tail(jobs)
  /\ To(t, "detach")
  /\ UNCHANGED <<replied, up, crashes>>

\* Before a failure returns the message to the queue, an answer to it is looked for.
Respond(t, c) ==
  /\ Open(t, c) /\ Answers(t, c)
  /\ turn' = [turn EXCEPT ![t].hand = [NoHand EXCEPT !.cat = c, !.step = "answered"]]
  /\ UNCHANGED <<row, custody, jobs, replied, up, faults, crashes>>

CommitAnswer(t) ==
  /\ At(t, "answered")
  /\ jobs' = Append(jobs, NewJob("respond", t, turn[t].hand.cat, NoRow))
  /\ To(t, "respond")
  /\ UNCHANGED <<row, custody, replied, up, faults, crashes>>

Responded(t, ok) ==
  /\ Write("respond", t, ok)
  /\ jobs' = Tail(jobs)
  /\ To(t, IF ok /\ Matches(Head(jobs).cat, t) THEN "reconcile" ELSE "detach")
  /\ UNCHANGED <<row, replied, up, crashes>>

\* The row is built again from what the record has pending, or is removed: also if the record
\* says that the row is being executed.
Rebuilt ==
  IF ~Active \/ custody.status = "processing" THEN NoRow
  ELSE [status |-> "queued", targets |-> custody.pending,
        seen |-> [c \in Cats |-> IF c \in custody.pending THEN row.seen[c] ELSE None],
        exposed |-> {e \in row.exposed : e[1] \in custody.pending},
        handled |-> row.handled \cap custody.pending]
Reconcile(t) ==
  /\ At(t, "reconcile")
  /\ \/ row' = (IF row.status = "absent" THEN row ELSE Rebuilt) /\ UNCHANGED faults
     \/ faults < MaxFaults /\ faults' = faults + 1 /\ UNCHANGED row
  /\ To(t, "detach")
  /\ UNCHANGED <<custody, jobs, replied, up, crashes>>

\* What a turn has done with a message that has left the queue is settled on the record alone.
Detach(t, c) ==
  /\ (Comes(t, c) \/ With(t, c, "detach")) /\ Lingers(t, c)
  /\ jobs' = Append(jobs, NewJob("detached", t, c, NoRow))
  /\ turn' = [turn EXCEPT ![t].hand = [NoHand EXCEPT !.cat = c, !.step = "late"]]
  /\ UNCHANGED <<row, custody, replied, up, faults, crashes>>

Detached(t) ==
  /\ \E ok \in BOOLEAN : Write("detached", t, ok)
  /\ jobs' = Tail(jobs) /\ To(t, "mark")
  /\ UNCHANGED <<row, replied, up, crashes>>

\* A failure lets go of the row; the row's own turn also of a cat that never saw it.
Returns(t, c) ==
  /\ ~Outcome(t, c) /\ row.status = "queued" /\ c \in row.targets
  /\ row.seen[c] = t \/ (turn[t].own /\ turn[t].verdict # "succeeded")
MarkFailed(t, c) ==
  /\ \/ (Comes(t, c) \/ With(t, c, "detach")) /\ ~Lingers(t, c)
     \/ With(t, c, "mark")
  /\ IF Returns(t, c)
     THEN /\ row' = [row EXCEPT !.seen[c] = IF @ = t THEN None ELSE @]
          /\ jobs' = Append(jobs, NewJob("mark", t, c, row'))
          /\ turn' = [turn EXCEPT ![t].hand = [NoHand EXCEPT !.cat = c, !.step = "persist"]]
     ELSE Drop(t, c) /\ UNCHANGED <<row, jobs>>
  /\ UNCHANGED <<custody, replied, up, faults, crashes>>

Marked(t) ==
  /\ \E ok \in BOOLEAN : Write("mark", t, ok)
  /\ jobs' = Tail(jobs) /\ Drop(t, turn[t].hand.cat)
  /\ UNCHANGED <<row, replied, up, crashes>>

-----------------------------------------------------------------------------
(* The user takes the message back; the process dies and starts again. *)

Remove ==
  /\ up = "up" /\ row.status = "queued"
  /\ row' = NoRow
  /\ jobs' = Append(jobs, NewJob("remove", None, None, row))
  /\ UNCHANGED <<custody, turn, replied, up, faults, crashes>>

\* Mutant: the row is not put back when the withdrawal could not be stored.
RemovedForGood(ok) ==
  /\ Write("remove", None, ok)
  /\ jobs' = Tail(jobs)
  /\ UNCHANGED <<row, turn, replied, up, crashes>>

Removed(ok) ==
  /\ Write("remove", None, ok)
  /\ row' = IF ok \/ row.status # "absent" THEN row ELSE Head(jobs).row
  /\ jobs' = Tail(jobs)
  /\ UNCHANGED <<turn, replied, up, crashes>>

Crash ==
  /\ up # "down" /\ crashes < MaxCrashes /\ crashes' = crashes + 1
  /\ up' = "down" /\ row' = NoRow /\ jobs' = <<>>
  /\ turn' = [t \in Turns |-> IF turn[t].phase = "idle" THEN turn[t] ELSE Remains(turn[t], "dead")]
  /\ UNCHANGED <<custody, replied, faults>>

\* A restart settles on the record what turns of the past answered, or saw and completed.
Answered == {c \in custody.pending : \E t \in Turns : <<c, t>> \in custody.exposed \cap replied}
Witnessed ==
  {c \in custody.pending : \E t \in Turns : /\ custody.seen[c] = t /\ <<c, t>> \in custody.exposed
                                           /\ turn[t].child[c] = "succeeded"}
Recover ==
  /\ up = "down" /\ up' = "reconciled"
  /\ LET done == Answered \cup Witnessed
         left == custody.pending \ done
     IN custody' = IF ~Active THEN custody
                   ELSE [custody EXCEPT !.status = "queued", !.pending = left, !.seen = Unseen,
                           !.handled = @ \cup done, !.outcome = @ \cup done]
  /\ UNCHANGED <<row, jobs, turn, replied, faults, crashes>>

\* The row of what is still pending is put into the queue.
Restore ==
  /\ up = "reconciled" /\ up' = "up"
  /\ row' = IF ~Active THEN NoRow
            ELSE [status |-> "queued", targets |-> custody.pending, seen |-> custody.seen,
                  exposed |-> custody.exposed, handled |-> custody.handled]
  /\ UNCHANGED <<custody, jobs, turn, replied, faults, crashes>>

Next ==
  \/ \E t \in Turns, c \in Cats :
       \/ Expose(t, c) \/ Exposed(t, c) \/ Read(t, c) \/ Reply(t, c)
       \/ EndChild(t, c, "succeeded") \/ EndChild(t, c, "failed")
       \/ PassOver(t, c) \/ TakeHandled(t, c) \/ Respond(t, c) \/ Detach(t, c) \/ MarkFailed(t, c)
  \/ \E t \in Turns :
       \/ Dispatch(t) \/ Started(t) \/ NotStarted(t) \/ Ensure(t) \/ ReadStored(t)
       \/ Stop(t) \/ Finish(t) \/ GiveBack(t) \/ Withdraw(t) \/ Staged(t)
       \/ CheckHandled(t) \/ CommitAnswer(t) \/ Reconcile(t) \/ Detached(t) \/ Marked(t)
       \/ \E ok \in BOOLEAN : Withdrawn(t, ok) \/ Committed(t, ok) \/ Responded(t, ok)
  \/ RolledBack \/ Remove \/ Crash \/ Recover \/ Restore
  \/ \E ok \in BOOLEAN : Removed(ok)

Spec == Init /\ [][Next]_vars
-----------------------------------------------------------------------------
\* A row that is being executed has a turn that executes it, so that it is not stuck.
RowIsCarried ==
  row.status = "processing" =>
    \E t \in Turns : turn[t].own /\ turn[t].phase \in {"starting", "ensuring", "running"}

\* Every target is answered, withdrawn or pending in the record.
TargetsAccounted == custody.pending \cup custody.handled \cup custody.withdrawn = Cats

\* A target is never lost.  It is accounted for in the record; while the server is up, what is
\* pending is in the queue, in an operation that waits, in the hands of a turn or done by one,
\* which a restart finds; and a row that is being executed is not stuck.
NothingLost ==
  /\ TargetsAccounted
  /\ up = "up" =>
       \A c \in custody.pending :
         \/ c \in row.targets
         \/ \E i \in DOMAIN jobs : c \in jobs[i].row.targets \cup {jobs[i].cat}
         \/ \E t \in Turns :
              \/ c \in turn[t].hand.snap.targets \cup {turn[t].hand.cat}
              \/ turn[t].own /\ c \in turn[t].cats /\ turn[t].phase \notin {"over", "dead"}
              \/ /\ <<c, t>> \in custody.exposed
                 /\ turn[t].child[c] = "succeeded" \/ <<c, t>> \in replied
  /\ RowIsCarried

\* A turn is not started for a cat whose answer is settled, nor for one that a dead turn answered:
\* neither a row put back late nor a restart brings it back.
AnsweredNotStarted ==
  [][\A t \in Turns :
       (turn[t].phase = "starting" /\ turn'[t].phase = "ensuring" /\ Active)
         => \A c \in turn[t].cats :
              /\ c \notin custody.outcome
              /\ \A d \in Turns :
                   turn[d].phase = "dead" => <<c, d>> \notin custody.exposed \cap replied]_vars

\* When no operation waits and no settlement is under way, the store accepts the row as it is: the
\* queue can start it.  It does not always: a row that is built again after an answer was settled
\* forgets who is handled, and the store then refuses all that is made of it.
QueuedIsStorable ==
  (/\ up = "up" /\ row.status = "queued" /\ Active /\ jobs = <<>>
   /\ \A t \in Turns : turn[t].phase # "settling")
    => Acceptable(Projection(row))

\* What is durably answered is never run again for the queue.  This is what the comment on
\* settleExactSourceResponsesBeforeFailure promises; the code does not keep it.
AnsweredNotRunAgain ==
  [][\A t \in Turns, c \in Cats :
       (turn[t].own /\ turn[t].child[c] # "running" /\ turn'[t].child[c] = "running")
         => c \notin custody.outcome]_vars

\* The answer of a cat stands: a target that the record has as handled stays so.  It does not: a
\* snapshot is put back over a row that has gone on.
AnsweredStaysAnswered == [][custody.handled \subseteq custody'.handled]_vars
=============================================================================
