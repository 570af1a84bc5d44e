---------------------------- MODULE MultiMention ----------------------------
(***************************************************************************)
(* A cat asks several cats the same question at once (F086): POST          *)
(* /api/callbacks/multi-mention, the requests kept by                      *)
(* MultiMentionOrchestrator, the queue entries that carry the question to  *)
(* its targets, the completion hooks that bring the answers back, the      *)
(* timer, and the post of the aggregated result.  One thread; the carrier  *)
(* is the invocation queue (the direct dispatch is the fallback of a       *)
(* server without one).                                                    *)
(*                                                                         *)
(* A call is one HTTP request, and a request of the orchestrator is named  *)
(* by the call that created it.  Its status 'pending' lasts no longer than *)
(* the turn that creates it, and nothing in the server reports 'failed'.   *)
(***************************************************************************)
EXTENDS Naturals, FiniteSets, Sequences

CONSTANTS
  Calls,          \* HTTP requests to the route
  Cats,
  CallerOf,       \* the cat whose turn makes the call
  KeyOf,          \* the idempotency key of the call, or NoKey
  NoKey,
  TargetsOf,      \* the targets of the call, in their order
  Others,         \* the cats that agent entries of other origin are considered for
  MaxDepth        \* agent entries a thread may hold (10 in the code)

ASSUME CallsAssumption ==
  /\ CallerOf \in [Calls -> Cats]
  /\ TargetsOf \in [Calls -> Seq(Cats) \ {<<>>}]
  /\ \A c \in Calls : c \in DOMAIN KeyOf
  /\ Others \subseteq Cats
  /\ MaxDepth \in Nat

VARIABLES
  call,      \* where the HTTP handler of a call stands
  status,    \* status of the request a call created
  response,  \* response[c][t]: what the request of c holds for target t
  carrier,   \* carrier[c][t]: the queue entry that takes c's question to t
  hook,      \* hook[c][t]: a completion hook is registered for that entry
  timer,     \* the timeout of the request is scheduled
  result,    \* the post of the aggregated result
  other      \* other[t]: an agent entry for t that is not a question

vars == <<call, status, response, carrier, hook, timer, result, other>>

Init ==
  /\ call = [c \in Calls |-> "idle"]
  /\ status = [c \in Calls |-> "none"]
  /\ response = [c \in Calls |-> [t \in Cats |-> "none"]]
  /\ carrier = [c \in Calls |-> [t \in Cats |-> "none"]]
  /\ hook = [c \in Calls |-> [t \in Cats |-> FALSE]]
  /\ timer = [c \in Calls |-> FALSE]
  /\ result = [c \in Calls |-> "none"]
  /\ other = [t \in Cats |-> "none"]

Targets(c) == {TargetsOf[c][i] : i \in DOMAIN TargetsOf[c]}
Live(c) == status[c] \in {"running", "partial"}

\* The anti-cascade question: is the cat a target of a request in progress?
IsActiveTarget(t) == \E c \in Calls : Live(c) /\ t \in Targets(c)

\* The request that holds the idempotency key of a call.
Keyed(c) == {d \in Calls : KeyOf[c] # NoKey /\ KeyOf[d] = KeyOf[c] /\ status[d] # "none"}

HasQueuedAgent(t) == other[t] = "queued" \/ \E c \in Calls : carrier[c][t] = "queued"
Depth ==
  Cardinality({p \in Calls \X Cats : carrier[p[1]][p[2]] \in {"queued", "processing"}})
    + Cardinality({t \in Cats : other[t] # "none"})

\* Targets that get an entry: in their order, none twice, none with an agent entry queued already,
\* until the thread is at its limit.
Enqueued(c) ==
  LET first == {i \in DOMAIN TargetsOf[c] :
                  /\ ~HasQueuedAgent(TargetsOf[c][i])
                  /\ \A j \in 1..(i - 1) : TargetsOf[c][j] # TargetsOf[c][i]}
  IN  {TargetsOf[c][i] : i \in {k \in first : Depth + Cardinality({j \in first : j < k}) < MaxDepth}}

-----------------------------------------------------------------------------
\* The handler as far as its first await: the anti-cascade guard.
Arrive(c) ==
  /\ call[c] = "idle"
  /\ call' = [call EXCEPT ![c] = IF IsActiveTarget(CallerOf[c]) THEN "refused" ELSE "checked"]
  /\ UNCHANGED <<status, response, carrier, hook, timer, result, other>>

\* The freshness gate or the action admission turns the call away.
Held(c) ==
  /\ call[c] = "checked"
  /\ call' = [call EXCEPT ![c] = "refused"]
  /\ UNCHANGED <<status, response, carrier, hook, timer, result, other>>

\* The rest of the handler: a replayed key answers with the request it has; otherwise the request is
\* created and started, its timer scheduled and its targets enqueued, all in one turn.
Replay(c) ==
  /\ call[c] = "checked"
  /\ Keyed(c) # {}
  /\ call' = [call EXCEPT ![c] = "answered"]
  /\ UNCHANGED <<status, response, carrier, hook, timer, result, other>>

Start(c) ==
  /\ call' = [call EXCEPT ![c] = "answered"]
  /\ status' = [status EXCEPT ![c] = "running"]
  /\ timer' = [timer EXCEPT ![c] = TRUE]
  /\ carrier' = [carrier EXCEPT ![c] = [t \in Cats |-> IF t \in Enqueued(c) THEN "queued" ELSE "none"]]
  /\ hook' = [hook EXCEPT ![c] = [t \in Cats |-> t \in Enqueued(c)]]
  /\ UNCHANGED <<response, result, other>>

\* Faulty: a request is created and never started.
CreatePending(c) ==
  /\ call[c] = "checked"
  /\ Keyed(c) = {}
  /\ call' = [call EXCEPT ![c] = "answered"]
  /\ status' = [status EXCEPT ![c] = "pending"]
  /\ UNCHANGED <<response, carrier, hook, timer, result, other>>

\* Faulty: the key is looked up before the awaits of the handler instead of after them.
CreateOnStaleKey(c) == call[c] = "checked" /\ Start(c)

Create(c) ==
  /\ call[c] = "checked"
  /\ Keyed(c) = {}
  /\ Start(c)

-----------------------------------------------------------------------------
\* The queue at work: an entry starts when its cat is free.
CatIsFree(t) == other[t] # "processing" /\ \A c \in Calls : carrier[c][t] # "processing"

StartEntry(c, t) ==
  /\ carrier[c][t] = "queued"
  /\ CatIsFree(t)
  /\ carrier' = [carrier EXCEPT ![c][t] = "processing"]
  /\ UNCHANGED <<call, status, response, hook, timer, result, other>>

\* The user removes a queued entry, clears the queue or recalls it: its hook goes with it.
Withdraw(c, t) ==
  /\ carrier[c][t] = "queued"
  /\ carrier' = [carrier EXCEPT ![c][t] = "gone"]
  /\ hook' = [hook EXCEPT ![c][t] = FALSE]
  /\ UNCHANGED <<call, status, response, timer, result, other>>

\* What becomes of an entry when its turn ends: it is consumed after a success or a user's cancel, and
\* rolled back to the queue after a failure or a preemption.  Its hook is spent either way.
Settled == {"gone", "queued"}

\* The turn of an entry ends without an answer: canceled, or its claim was lost to a replay, or its hook
\* was spent by an earlier turn.
EndUnanswered(c, t) ==
  /\ carrier[c][t] = "processing"
  /\ \E end \in Settled : carrier' = [carrier EXCEPT ![c][t] = end]
  /\ hook' = [hook EXCEPT ![c][t] = FALSE]
  /\ UNCHANGED <<call, status, response, timer, result, other>>

\* recordResponse takes the first answer of a target, as long as the request is live.
Accepts(c, t) == Live(c) /\ t \in Targets(c) /\ response[c][t] = "none"
Answered(c) == {t \in Cats : response[c][t] # "none"}

\* Faulty: complete one answer early.
StatusOneShort(c, t) ==
  CASE ~Accepts(c, t) -> status[c]
    [] Accepts(c, t) /\ Cardinality(Answered(c) \cup {t}) + 1 >= Len(TargetsOf[c]) -> "done"
    [] OTHER -> "partial"

\* The request is complete when it holds as many answers as targets were named.
StatusWith(c, t) ==
  CASE ~Accepts(c, t) -> status[c]
    [] Accepts(c, t) /\ Cardinality(Answered(c) \cup {t}) >= Len(TargetsOf[c]) -> "done"
    [] OTHER -> "partial"

\* The completion hook of an entry brings its answer (or the text of its error), once.
Respond(c, t, stops, posts) ==
  /\ carrier[c][t] = "processing"
  /\ hook[c][t]
  /\ \E end \in Settled : carrier' = [carrier EXCEPT ![c][t] = end]
  /\ hook' = [hook EXCEPT ![c][t] = FALSE]
  /\ response' = IF Accepts(c, t) THEN [response EXCEPT ![c][t] = "received"] ELSE response
  /\ status' = [status EXCEPT ![c] = StatusWith(c, t)]
  /\ timer' = IF stops THEN [timer EXCEPT ![c] = FALSE] ELSE timer
  /\ result' = IF posts THEN [result EXCEPT ![c] = "posting"] ELSE result
  /\ UNCHANGED <<call, other>>

\* Faulty: a result is posted only if it completes a partial one.
RespondPartialOnly(c, t) ==
  LET done == StatusWith(c, t) = "done" IN Respond(c, t, done, done /\ status[c] = "partial")

\* Faulty: any answer stops the timer.
RespondStopsTimer(c, t) == Respond(c, t, TRUE, StatusWith(c, t) = "done")

\* The last answer stops the timer and starts the post of the result.
EndAnswered(c, t) ==
  LET done == StatusWith(c, t) = "done" IN Respond(c, t, done, done)

\* The timer: whoever has not answered is marked, and the request is over.  Nothing is posted.
TimerFires(c) ==
  /\ timer[c]
  /\ timer' = [timer EXCEPT ![c] = FALSE]
  /\ IF Live(c)
     THEN /\ status' = [status EXCEPT ![c] = "timeout"]
          /\ response' = [response EXCEPT ![c] =
               [t \in Cats |-> IF t \in Targets(c) \ Answered(c) THEN "timeout" ELSE @[t]]]
     ELSE UNCHANGED <<status, response>>
  /\ UNCHANGED <<call, carrier, hook, result, other>>

\* flushResult: the append is awaited, and nobody catches its failure.
PostResult(c) ==
  /\ result[c] = "posting"
  /\ \E outcome \in {"posted", "lost"} : result' = [result EXCEPT ![c] = outcome]
  /\ UNCHANGED <<call, status, response, carrier, hook, timer, other>>

\* Other agent entries of the thread come and go.
OtherEntry(t) ==
  /\ \/ other[t] = "none" /\ other' = [other EXCEPT ![t] = "queued"]
     \/ other[t] = "queued" /\ CatIsFree(t) /\ other' = [other EXCEPT ![t] = "processing"]
     \/ other[t] # "none" /\ other' = [other EXCEPT ![t] = "none"]
  /\ UNCHANGED <<call, status, response, carrier, hook, timer, result>>

Next ==
  \/ \E c \in Calls : Arrive(c) \/ Held(c) \/ Replay(c) \/ Create(c) \/ TimerFires(c) \/ PostResult(c)
  \/ \E c \in Calls, t \in Cats :
       StartEntry(c, t) \/ Withdraw(c, t) \/ EndUnanswered(c, t) \/ EndAnswered(c, t)
  \/ \E t \in Others : OtherEntry(t)

Spec == Init /\ [][Next]_vars

\* The timer of a request goes off unless it is stopped.
FairSpec == Spec /\ \A c \in Calls : WF_vars(TimerFires(c))

-----------------------------------------------------------------------------
TypeOK ==
  /\ call \in [Calls -> {"idle", "checked", "refused", "answered"}]
  /\ status \in [Calls -> {"none", "running", "partial", "done", "timeout"}]
  /\ response \in [Calls -> [Cats -> {"none", "received", "timeout"}]]
  /\ carrier \in [Calls -> [Cats -> {"none", "queued", "processing", "gone"}]]
  /\ hook \in [Calls -> [Cats -> BOOLEAN]]
  /\ timer \in [Calls -> BOOLEAN]
  /\ result \in [Calls -> {"none", "posting", "posted", "lost"}]
  /\ other \in [Cats -> {"none", "queued", "processing"}]

\* A retried call creates no second request, although the handler awaits the freshness gate and the
\* action admission between its entry and the lookup of its key: two calls with one key never both
\* have a request, and so no target is asked twice.
OneRequestPerKey ==
  \A c, d \in Calls :
    c # d /\ KeyOf[c] # NoKey /\ KeyOf[c] = KeyOf[d] => status[c] = "none" \/ status[d] = "none"

\* The aggregated result is the last word on a request: when its post begins there is an entry for
\* every target, and neither the timer nor the hook of a late or repeated turn changes one afterwards,
\* while the post is being stored or later.
ResultStep ==
  \A c \in Calls : result'[c] # "none" =>
    /\ \A t \in Targets(c) : response'[c][t] # "none"
    /\ result[c] # "none" => response'[c] = response[c] /\ status'[c] = status[c]

ResultIsFinal == [][ResultStep]_vars

\* An answer that is the last one is not lost between the hook and the post: when all targets have
\* answered (and none was named twice), the result is on its way, whether it is one answer or several.
AnsweredIsPosted ==
  \A c \in Calls :
    /\ status[c] # "none"
    /\ Len(TargetsOf[c]) = Cardinality(Targets(c))
    /\ \A t \in Targets(c) : response[c][t] = "received"
    => result[c] # "none"

\* A cat that is asked is not barred from asking for ever: whatever becomes of the entries (skipped,
\* withdrawn, canceled), the request it is a target of comes to an end.
TargetIsFreed == \A t \in Cats : IsActiveTarget(t) ~> ~IsActiveTarget(t)

\* Answers that arrived in time go back to the initiator when the time is up (F086: "已有回答回流给发起者").
TimeoutReturnsAnswers ==
  \A c \in Calls : status[c] = "timeout" /\ (\E t \in Targets(c) : response[c][t] = "received") =>
    result[c] # "none"

\* Nobody starts a question while being a target of one (F086: "被 @ 猫禁止再 @ 其他猫").
NoCascade ==
  [][\A c \in Calls : status[c] = "none" /\ status'[c] # "none" => ~IsActiveTarget(CallerOf[c])]_vars
=============================================================================
