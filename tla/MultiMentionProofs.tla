------------------------- MODULE MultiMentionProofs -------------------------
(***************************************************************************)
(* Proofs about MultiMention, for any calls, cats, keys and target lists.  *)
(*                                                                         *)
(* That a result has no gap is a counting argument: the code compares a    *)
(* number of answers with a number of names.  It is sound since only       *)
(* targets answer, each once, and no list has more targets than names.     *)
(***************************************************************************)
EXTENDS MultiMention, FiniteSetTheorems, TLAPS

\* What a request holds, by its status: nothing before it exists, some answers of targets while it is
\* live, all of them and a result when it is done, too few of them when its time is up.
Received(c) == {t \in Cats : response[c][t] = "received"}

RequestOK(c) ==
  /\ \A t \in Cats : response[c][t] # "none" => t \in Targets(c) /\ status[c] # "none"
  /\ Live(c) => Received(c) = Answered(c)
  /\ status[c] \in {"running", "partial", "timeout"} => ~(Cardinality(Received(c)) >= Len(TargetsOf[c]))
  /\ status[c] = "done" => \A t \in Targets(c) : response[c][t] = "received"
  /\ status[c] = "done" <=> result[c] # "none"

RequestsOK == \A c \in Calls : RequestOK(c)

CallFirst == \A c \in Calls : status[c] # "none" => call[c] = "answered"

IInv == TypeOK /\ CallFirst /\ OneRequestPerKey /\ RequestsOK

\* A list names at least as many places as cats.
LEMMA TargetsCount ==
  ASSUME NEW c \in Calls
  PROVE  /\ Targets(c) \subseteq Cats
         /\ IsFiniteSet(Targets(c))
         /\ Cardinality(Targets(c)) \in Nat
         /\ Len(TargetsOf[c]) \in Nat
         /\ Len(TargetsOf[c]) > 0
         /\ Cardinality(Targets(c)) <= Len(TargetsOf[c])
<1> DEFINE s == TargetsOf[c]
           n == Len(s)
<1>1. s \in Seq(Cats) /\ s # <<>>
  BY CallsAssumption
<1>2. n \in Nat /\ n > 0 /\ DOMAIN s = 1..n
  BY <1>1
<1>3. Targets(c) \subseteq Cats
  BY <1>1 DEF Targets
<1>4. s \in Surjection(1..n, Targets(c))
  BY <1>1, <1>2 DEF Targets, Surjection
<1>5. ExistsSurjection(1..n, Targets(c))
  BY <1>4 DEF ExistsSurjection
<1>6. IsFiniteSet(Targets(c))
  BY <1>2, <1>5, FS_NatSurjection
<1>7. Cardinality(Targets(c)) <= n
  BY <1>2, <1>5, FS_SurjCardinalityBound
<1> QED BY <1>2, <1>3, <1>6, <1>7, FS_CardinalityType

\* The last answer: as many answers as names means an answer of every target.
LEMMA FullCount ==
  ASSUME NEW c \in Calls, NEW A, A \subseteq Targets(c), Cardinality(A) >= Len(TargetsOf[c])
  PROVE  A = Targets(c)
<1>1. /\ IsFiniteSet(A) /\ Cardinality(A) <= Cardinality(Targets(c))
      /\ Cardinality(Targets(c)) = Cardinality(A) => Targets(c) = A
  BY TargetsCount, FS_Subset
<1>2. Cardinality(A) \in Nat
  BY <1>1, FS_CardinalityType
<1> QED BY <1>1, <1>2, TargetsCount

LEMMA InitIInv == Init => IInv
<1> SUFFICES ASSUME Init PROVE IInv OBVIOUS
<1>1. TypeOK BY DEF Init, TypeOK
<1>2. OneRequestPerKey /\ CallFirst BY DEF Init, OneRequestPerKey, CallFirst
<1>3. RequestsOK BY DEF Init, RequestsOK, RequestOK, Live
<1> QED BY <1>1, <1>2, <1>3 DEF IInv

\* A step that leaves a request alone keeps what holds of it.
LEMMA SameRequest ==
  ASSUME NEW d \in Calls, RequestOK(d),
         status'[d] = status[d], response'[d] = response[d],
         result'[d] # "none" <=> result[d] # "none"
  PROVE  RequestOK(d)'
<1>1. Received(d)' = Received(d) /\ Answered(d)' = Answered(d) /\ Targets(d)' = Targets(d)
  BY DEF Received, Answered, Targets
<1> QED BY <1>1 DEF RequestOK, Live

LEMMA QuietIInv ==
  ASSUME IInv, TypeOK', UNCHANGED <<status, response, result>>,
         \A c \in Calls : call[c] = "answered" => call'[c] = "answered"
  PROVE  IInv'
<1>1. OneRequestPerKey' /\ CallFirst' BY DEF IInv, OneRequestPerKey, CallFirst
<1>2. RequestsOK' BY SameRequest DEF IInv, RequestsOK
<1> QED BY <1>1, <1>2 DEF IInv

LEMMA CreateIInv ==
  ASSUME IInv, NEW c \in Calls, Create(c)
  PROVE  IInv'
<1> USE DEF Create, Start
<1>0. status[c] = "none"
  BY DEF IInv, CallFirst
<1>1. TypeOK'
  BY DEF IInv, TypeOK
<1>2. OneRequestPerKey'
  BY DEF IInv, TypeOK, OneRequestPerKey, Keyed
<1>3. CallFirst'
  BY DEF IInv, TypeOK, CallFirst
<1>4. RequestOK(c)'
  <2>1. \A t \in Cats : response[c][t] = "none"
    BY <1>0 DEF IInv, RequestsOK, RequestOK
  <2>2. result[c] = "none" /\ status'[c] = "running"
    BY <1>0 DEF IInv, TypeOK, RequestsOK, RequestOK
  <2>3. Received(c)' = {} /\ Answered(c)' = {}
    BY <2>1 DEF Received, Answered
  <2> QED BY <2>1, <2>2, <2>3, FS_EmptySet, TargetsCount DEF RequestOK, Live
<1>5. ASSUME NEW d \in Calls, d # c PROVE RequestOK(d)'
  BY <1>5, SameRequest DEF IInv, TypeOK, RequestsOK
<1> QED BY <1>1, <1>2, <1>3, <1>4, <1>5 DEF IInv, RequestsOK

\* The answer that is taken: it is the last one exactly when every target has answered.
LEMMA AnswerIInv ==
  ASSUME IInv, NEW c \in Calls, NEW t \in Cats, EndAnswered(c, t), Accepts(c, t)
  PROVE  RequestOK(c)'
<1> DEFINE A == Answered(c) \cup {t}
<1>1. /\ Live(c) /\ t \in Targets(c) /\ response[c][t] = "none"
      /\ Received(c) = Answered(c)
      /\ \A u \in Cats : response[c][u] # "none" => u \in Targets(c)
      /\ result[c] = "none"
  BY DEF Accepts, IInv, RequestsOK, RequestOK, Live
<1>2. /\ response' = [response EXCEPT ![c][t] = "received"]
      /\ status' = [status EXCEPT ![c] = StatusWith(c, t)]
      /\ result' = IF StatusWith(c, t) = "done" THEN [result EXCEPT ![c] = "posting"] ELSE result
  BY DEF EndAnswered, Respond
<1>3. /\ response'[c] = [response[c] EXCEPT ![t] = "received"]
      /\ status'[c] = StatusWith(c, t)
      /\ \A u \in Cats : response'[c][u] = IF u = t THEN "received" ELSE response[c][u]
  BY <1>2 DEF IInv, TypeOK
<1>4. Received(c)' = A /\ Answered(c)' = A
  BY <1>1, <1>3 DEF Received, Answered
<1>5. A \subseteq Targets(c)
  BY <1>1 DEF Answered
<1>6. CASE Cardinality(A) >= Len(TargetsOf[c])
  <2>1. StatusWith(c, t) = "done"
    BY <1>6 DEF StatusWith
  <2>2. A = Targets(c)
    BY <1>5, <1>6, FullCount
  <2>3. result'[c] = "posting"
    BY <1>2, <2>1 DEF IInv, TypeOK
  <2>4. \A u \in Targets(c) : response'[c][u] = "received"
    BY <1>4, <2>2, TargetsCount DEF Received
  <2> QED BY <1>1, <1>3, <1>4, <1>5, <2>1, <2>3, <2>4 DEF RequestOK, Live, Answered, Targets
<1>7. CASE ~(Cardinality(A) >= Len(TargetsOf[c]))
  <2>1. StatusWith(c, t) = "partial"
    BY <1>7 DEF StatusWith
  <2>2. result'[c] = "none"
    BY <1>1, <1>2, <2>1
  <2> QED BY <1>1, <1>3, <1>4, <1>5, <1>7, <2>1, <2>2 DEF RequestOK, Live, Answered, Targets
<1> QED BY <1>6, <1>7

LEMMA EndAnsweredIInv ==
  ASSUME IInv, NEW c \in Calls, NEW t \in Cats, EndAnswered(c, t)
  PROVE  IInv'
<1> USE DEF EndAnswered, Respond
<1>1. TypeOK'
  <2>1. PICK end \in Settled : carrier' = [carrier EXCEPT ![c][t] = end]
    OBVIOUS
  <2>2. carrier' \in [Calls -> [Cats -> {"none", "queued", "processing", "gone"}]]
    BY <2>1 DEF IInv, TypeOK, Settled
  <2> QED BY <2>2 DEF IInv, TypeOK, StatusWith
<1>2. CASE Accepts(c, t)
  <2>1. status[c] # "none" /\ StatusWith(c, t) # "none"
    BY <1>2 DEF Accepts, Live, StatusWith
  <2>2. OneRequestPerKey'
    BY <2>1 DEF IInv, TypeOK, OneRequestPerKey
  <2>3. CallFirst'
    BY <2>1 DEF IInv, TypeOK, CallFirst
  <2>4. ASSUME NEW d \in Calls, d # c PROVE RequestOK(d)'
    BY <2>4, SameRequest DEF IInv, TypeOK, RequestsOK
  <2> QED BY <1>1, <1>2, <2>2, <2>3, <2>4, AnswerIInv DEF IInv, RequestsOK
<1>3. CASE ~Accepts(c, t)
  <2>1. StatusWith(c, t) = status[c]
    BY <1>3 DEF StatusWith
  <2>2. UNCHANGED <<status, response, call>>
    BY <1>3, <2>1 DEF IInv, TypeOK
  <2>3. \A d \in Calls : result'[d] # "none" <=> result[d] # "none"
    BY <2>1 DEF IInv, TypeOK, RequestsOK, RequestOK
  <2>4. OneRequestPerKey' /\ CallFirst'
    BY <2>2 DEF IInv, OneRequestPerKey, CallFirst
  <2>5. ASSUME NEW d \in Calls PROVE RequestOK(d)'
    <3>1. status'[d] = status[d] /\ response'[d] = response[d] /\ RequestOK(d)
      BY <2>2 DEF IInv, RequestsOK
    <3> QED BY ONLY <2>3, <3>1, SameRequest
  <2> QED BY <1>1, <2>4, <2>5 DEF IInv, RequestsOK
<1> QED BY <1>2, <1>3

LEMMA TimerFiresIInv ==
  ASSUME IInv, NEW c \in Calls, TimerFires(c)
  PROVE  IInv'
<1> USE DEF TimerFires
<1>1. TypeOK'
  <2>1. response' \in [Calls -> [Cats -> {"none", "received", "timeout"}]]
    <3>1. response \in [Calls -> [Cats -> {"none", "received", "timeout"}]]
      BY DEF IInv, TypeOK
    <3> DEFINE r == [t \in Cats |-> IF t \in Targets(c) \ Answered(c) THEN "timeout" ELSE response[c][t]]
    <3>2. r \in [Cats -> {"none", "received", "timeout"}]
      BY <3>1
    <3> HIDE DEF r
    <3>3. CASE Live(c)
      <4>1. response' = [response EXCEPT ![c] = r]
        BY <3>3 DEF r
      <4> QED BY <3>1, <3>2, <4>1
    <3>4. CASE ~Live(c)
      BY <3>1, <3>4
    <3> QED BY <3>3, <3>4
  <2>2. status' \in [Calls -> {"none", "running", "partial", "done", "timeout"}]
    BY DEF IInv, TypeOK
  <2> QED BY <2>1, <2>2 DEF IInv, TypeOK
<1>2. CASE Live(c)
  <2>1. status[c] # "none" /\ status'[c] = "timeout"
    BY <1>2 DEF Live, IInv, TypeOK
  <2>0. \A d \in Calls : status'[d] # "none" <=> status[d] # "none"
    BY <1>2, <2>1 DEF IInv, TypeOK
  <2>2. OneRequestPerKey'
    BY ONLY <2>0, IInv DEF IInv, OneRequestPerKey
  <2>3. CallFirst'
    BY <2>0 DEF IInv, CallFirst
  <2>4. \A u \in Cats : response'[c][u] =
          IF u \in Targets(c) \ Answered(c) THEN "timeout" ELSE response[c][u]
    BY <1>2 DEF IInv, TypeOK
  <2>5. Received(c)' = Received(c)
    BY <2>4 DEF Received, Answered
  <2>6. ~(Cardinality(Received(c)) >= Len(TargetsOf[c])) /\ result[c] = "none"
    BY <1>2 DEF IInv, RequestsOK, RequestOK, Live
  <2>7. \A u \in Cats : response'[c][u] # "none" => u \in Targets(c)
    BY <2>4 DEF IInv, RequestsOK, RequestOK
  <2>8. RequestOK(c)'
    BY <2>1, <2>5, <2>6, <2>7 DEF RequestOK, Live, Targets
  <2>9. ASSUME NEW d \in Calls, d # c PROVE RequestOK(d)'
    BY <2>9, SameRequest DEF IInv, TypeOK, RequestsOK
  <2> QED BY <1>1, <2>2, <2>3, <2>8, <2>9 DEF IInv, RequestsOK
<1>3. CASE ~Live(c)
  BY <1>1, <1>3, QuietIInv DEF IInv
<1> QED BY <1>2, <1>3

LEMMA PostResultIInv ==
  ASSUME IInv, NEW c \in Calls, PostResult(c)
  PROVE  IInv'
<1> USE DEF PostResult
<1>1. TypeOK'
  BY DEF IInv, TypeOK
<1>2. \A d \in Calls : result'[d] # "none" <=> result[d] # "none"
  BY DEF IInv, TypeOK
<1>3. OneRequestPerKey' /\ CallFirst'
  BY DEF IInv, OneRequestPerKey, CallFirst
<1>4. ASSUME NEW d \in Calls PROVE RequestOK(d)'
  BY <1>2, SameRequest DEF IInv, RequestsOK
<1> QED BY <1>1, <1>3, <1>4 DEF IInv, RequestsOK

LEMMA NextIInv == IInv /\ [Next]_vars => IInv'
<1> SUFFICES ASSUME IInv, [Next]_vars PROVE IInv'
  OBVIOUS
<1>1. ASSUME NEW c \in Calls, Arrive(c) \/ Held(c) \/ Replay(c) PROVE IInv'
  <2>1. TypeOK' BY <1>1 DEF Arrive, Held, Replay, IInv, TypeOK
  <2>2. UNCHANGED <<status, response, result>> BY <1>1 DEF Arrive, Held, Replay
  <2>3. \A d \in Calls : call[d] = "answered" => call'[d] = "answered"
    BY <1>1 DEF Arrive, Held, Replay, IInv, TypeOK
  <2> QED BY <2>1, <2>2, <2>3, QuietIInv
<1>2. ASSUME NEW c \in Calls, NEW t \in Cats,
             StartEntry(c, t) \/ Withdraw(c, t) \/ EndUnanswered(c, t)
      PROVE  IInv'
  <2>1. TypeOK'
    <3>1. CASE StartEntry(c, t) BY <3>1 DEF StartEntry, IInv, TypeOK
    <3>2. CASE Withdraw(c, t) BY <3>2 DEF Withdraw, IInv, TypeOK
    <3>3. CASE EndUnanswered(c, t)
      <4>1. PICK end \in Settled : carrier' = [carrier EXCEPT ![c][t] = end]
        BY <3>3 DEF EndUnanswered
      <4>2. carrier' \in [Calls -> [Cats -> {"none", "queued", "processing", "gone"}]]
        BY <4>1 DEF IInv, TypeOK, Settled
      <4> QED BY <3>3, <4>2 DEF EndUnanswered, IInv, TypeOK
    <3> QED BY <1>2, <3>1, <3>2, <3>3
  <2>2. UNCHANGED <<call, status, response, result>>
    BY <1>2 DEF StartEntry, Withdraw, EndUnanswered
  <2> QED BY <2>1, <2>2, QuietIInv
<1>3. ASSUME NEW t \in Others, OtherEntry(t) PROVE IInv'
  <2>1. TypeOK' BY <1>3, CallsAssumption DEF OtherEntry, IInv, TypeOK
  <2>2. UNCHANGED <<call, status, response, result>> BY <1>3 DEF OtherEntry
  <2> QED BY <2>1, <2>2, QuietIInv
<1>4. CASE UNCHANGED vars
  <2>1. TypeOK' BY <1>4 DEF vars, IInv, TypeOK
  <2>2. UNCHANGED <<call, status, response, result>> BY <1>4 DEF vars
  <2> QED BY <2>1, <2>2, QuietIInv
<1> QED BY <1>1, <1>2, <1>3, <1>4, CreateIInv, EndAnsweredIInv, TimerFiresIInv, PostResultIInv DEF Next

THEOREM Invariance == Spec => []IInv
<1>1. Init => IInv BY InitIInv
<1>2. IInv /\ [Next]_vars => IInv' BY NextIInv
<1> QED BY <1>1, <1>2, PTL DEF Spec

\* Type correctness of the multi-mention bookkeeping, for any calls and cats.
THEOREM TypeCorrect == Spec => []TypeOK
<1>1. IInv => TypeOK BY DEF IInv
<1> QED BY <1>1, Invariance, PTL

\* Two calls with one idempotency key never both create a request, however their handlers interleave.
THEOREM KeysAreUnique == Spec => []OneRequestPerKey
<1>1. IInv => OneRequestPerKey BY DEF IInv
<1> QED BY <1>1, Invariance, PTL

\* A result that is on its way belongs to a request that is done, and a done request takes no more.
LEMMA StepKeepsResult == IInv /\ IInv' /\ [Next]_vars => ResultStep
<1> SUFFICES ASSUME IInv, IInv', [Next]_vars, NEW c \in Calls, result'[c] # "none"
             PROVE  /\ \A t \in Targets(c) : response'[c][t] # "none"
                    /\ result[c] # "none" => response'[c] = response[c] /\ status'[c] = status[c]
  BY DEF ResultStep
<1>1. \A t \in Targets(c) : response'[c][t] # "none"
  <2>1. status'[c] = "done" /\ Targets(c)' = Targets(c)
    BY DEF IInv, RequestsOK, RequestOK, Targets
  <2> QED BY <2>1 DEF IInv, RequestsOK, RequestOK
<1>2. ASSUME result[c] # "none"
      PROVE  response'[c] = response[c] /\ status'[c] = status[c]
  <2>1. status[c] = "done" /\ ~Live(c)
    BY <1>2 DEF IInv, RequestsOK, RequestOK, Live
  <2>2. CASE UNCHANGED <<status, response>>
    BY <2>2
  <2>3. ASSUME NEW d \in Calls, Create(d) PROVE response'[c] = response[c] /\ status'[c] = status[c]
    <3>1. status[d] = "none"
      BY <2>3 DEF Create, IInv, CallFirst
    <3> QED BY <2>1, <2>3, <3>1 DEF Create, Start, IInv, TypeOK
  <2>4. ASSUME NEW d \in Calls, NEW t \in Cats, EndAnswered(d, t)
        PROVE  response'[c] = response[c] /\ status'[c] = status[c]
    <3>1. c = d => ~Accepts(d, t) /\ StatusWith(d, t) = status[d]
      BY <2>1 DEF Accepts, StatusWith
    <3> QED BY <2>4, <3>1 DEF EndAnswered, Respond, IInv, TypeOK
  <2>5. ASSUME NEW d \in Calls, TimerFires(d)
        PROVE  response'[c] = response[c] /\ status'[c] = status[c]
    <3>1. CASE Live(d)
      <4>1. c # d
        BY <2>1, <3>1
      <4> QED BY <2>5, <3>1, <4>1 DEF TimerFires, IInv, TypeOK
    <3>2. CASE ~Live(d)
      BY <2>5, <3>2 DEF TimerFires
    <3> QED BY <3>1, <3>2
  <2>6. CASE UNCHANGED vars
    BY <2>2, <2>6 DEF vars
  <2>7. ASSUME NEW d \in Calls, Arrive(d) \/ Held(d) \/ Replay(d) \/ PostResult(d)
        PROVE  UNCHANGED <<status, response>>
    BY <2>7 DEF Arrive, Held, Replay, PostResult
  <2>8. ASSUME NEW d \in Calls, NEW t \in Cats,
               StartEntry(d, t) \/ Withdraw(d, t) \/ EndUnanswered(d, t)
        PROVE  UNCHANGED <<status, response>>
    BY <2>8 DEF StartEntry, Withdraw, EndUnanswered
  <2>9. ASSUME NEW t \in Others, OtherEntry(t) PROVE UNCHANGED <<status, response>>
    BY <2>9 DEF OtherEntry
  <2> QED BY <2>2, <2>3, <2>4, <2>5, <2>6, <2>7, <2>8, <2>9 DEF Next
<1> QED BY <1>1, <1>2

\* The aggregated result has an entry for every target and is final: no timer and no late or repeated
\* turn changes what was aggregated, for any calls, cats and lists.
THEOREM ResultsAreFinal == Spec => ResultIsFinal
<1>1. IInv /\ IInv' /\ [Next]_vars => [ResultStep]_vars
  BY StepKeepsResult
<1> QED BY <1>1, Invariance, PTL DEF Spec, ResultIsFinal

\* When every target has answered the result is being posted, if no target was named twice.
THEOREM AnswersArePosted == Spec => []AnsweredIsPosted
<1>1. ASSUME IInv PROVE AnsweredIsPosted
  <2> SUFFICES ASSUME NEW c \in Calls, status[c] # "none",
                      Len(TargetsOf[c]) = Cardinality(Targets(c)),
                      \A t \in Targets(c) : response[c][t] = "received"
               PROVE  result[c] # "none"
    BY DEF AnsweredIsPosted
  <2>0. \A t \in Cats : response[c][t] = "received" => t \in Targets(c)
    BY <1>1 DEF IInv, RequestsOK, RequestOK
  <2>1. Received(c) = Targets(c)
    BY <2>0, TargetsCount DEF Received
  <2>2. Cardinality(Received(c)) >= Len(TargetsOf[c])
    BY <2>1, TargetsCount
  <2> QED BY <1>1, <2>2 DEF IInv, TypeOK, RequestsOK, RequestOK
<1> QED BY <1>1, Invariance, PTL
=============================================================================
