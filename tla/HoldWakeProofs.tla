--------------------------- MODULE HoldWakeProofs ---------------------------
(***************************************************************************)
(* Proofs about HoldWake, for any set of requests and any bounds.          *)
(*                                                                         *)
(* None of the properties is inductive: that no run meets a cancellation   *)
(* rests on where the wake is known (its definition, its registration, its *)
(* timer) in every phase of the server's life, and on what a request that  *)
(* is about to commit may rely on.                                         *)
(***************************************************************************)
EXTENDS HoldWake, TLAPS

Gone == row \in {"none", "retired"} /\ ~registered

\* Timer, registration and reservation, whatever the schedule panel does.
Books ==
  /\ armed => registered /\ boot = "up"
  /\ boot = "down" => ~registered
  /\ Reserved => registered
  /\ registered => row \in {"enabled", "none"}

\* Before it is hydrated a wake is not known; when it is known, its flag is right.
Flag ==
  /\ registered => row = "enabled"
  /\ boot \in {"down", "listening", "recovered"} => ~registered /\ InFlight = 0
  /\ InFlight <= 1
  /\ registered /\ InFlight > 0 => running
  /\ row = "unborn" => fired = 0 /\ InFlight = 0 /\ ~record

\* The timer has started its only run: it is under way, it is over, or it died with the server and
\* will be found missed.
Fired ==
  fired > 0 =>
    /\ fired = 1
    /\ \/ Gone
       \/ registered /\ ~armed /\ past /\ boot = "up" /\ runs["timer"] = 1
       \/ boot \in {"down", "listening", "recovered"} /\ past /\ row = "enabled"

\* Nothing has been started, nor can be: the wake is gone or the cancellation holds it.
Cancelled == fired = 0 /\ InFlight = 0

\* Where the wake may be once its cancellation is stored.
Settled ==
  /\ Cancelled
  /\ registered => Reserved
  /\ \/ Gone
     \/ registered
     \/ boot \in {"down", "listening"} /\ row = "enabled"

Fence ==
  /\ Reserved => Cancelled
  /\ record => Settled
  /\ \A r \in Requests : request[r] = "committing" => Cancelled /\ (reservation = r \/ Gone)

IInv == TypeOK /\ Books /\ (~meddled => Flag /\ Fired /\ Fence)

Stages == {"idle", "asking", "committing", "committed", "repeating", "failed", "applied", "refused", "unknown"}

Rows == {"unborn", "none", "enabled", "disabled", "retired"}
Boots == {"down", "listening", "recovered", "hydrated", "up"}

LEMMA InitIInv == Init => IInv
<1> SUFFICES ASSUME Init PROVE IInv OBVIOUS
<1>1. TypeOK BY DEF Init, TypeOK
<1>2. Books BY DEF Init, Books, Reserved
<1>3. Flag /\ Fired /\ Fence BY DEF Init, Flag, Fired, Fence, Cancelled, Reserved, InFlight
<1> QED BY <1>1, <1>2, <1>3 DEF IInv

LEMMA HoldIInv ==
  ASSUME IInv, Hold
  PROVE  IInv'
<1> USE DEF Hold, Register, stored, runner, ghosts
<1>1. TypeOK'
  <2>1. runs' \in [{"timer", "manual"} -> Nat]
    BY DEF IInv, TypeOK
  <2>2. request' \in [Requests -> Stages]
    BY DEF IInv, TypeOK, Stages
  <2>3. reservation' \in Requests \cup {NoRequest}
    BY DEF IInv, TypeOK
  <2>4. {defers, fired, patches, crashes}' \subseteq Nat
    BY DEF IInv, TypeOK
  <2>5. {past, record, paused, meddled, registered, armed, running, deferred}' \subseteq BOOLEAN
    BY DEF IInv, TypeOK
  <2>6. row' \in Rows /\ boot' \in Boots
    BY DEF IInv, TypeOK, Rows, Boots
  <2> QED BY <2>1, <2>2, <2>3, <2>4, <2>5, <2>6 DEF TypeOK, Stages, Rows, Boots
<1>2. Books'
  BY RequestsAssumption DEF IInv, TypeOK, Books, Reserved, Pending
<1>3. ASSUME ~meddled' PROVE Flag' /\ Fired' /\ Fence'
  <2>1. ~meddled /\ Flag /\ Fired /\ Fence
    BY <1>3 DEF IInv, TypeOK
  <2>2. Flag'
    BY <1>3, <2>1, RequestsAssumption DEF IInv, TypeOK, Books, Flag, Fired, Fence, Reserved, Pending, InFlight, Gone, Cancelled
  <2>3. Fired'
    BY <1>3, <2>1, RequestsAssumption DEF IInv, TypeOK, Books, Flag, Fired, Fence, Reserved, Pending, InFlight, Gone, Cancelled
  <2>4. (Reserved => Cancelled)'
    BY <1>3, <2>1, RequestsAssumption DEF IInv, TypeOK, Books, Flag, Fired, Fence, Reserved, Pending, InFlight, Gone, Cancelled
  <2>5. (record => Settled)'
    BY <1>3, <2>1, RequestsAssumption DEF IInv, TypeOK, Books, Flag, Fired, Fence, Settled, Reserved, Pending, InFlight, Gone, Cancelled
  <2>6. \A q \in Requests : (request[q] = "committing" => Cancelled /\ (reservation = q \/ Gone))'
    BY <1>3, <2>1, RequestsAssumption DEF IInv, TypeOK, Books, Flag, Fired, Fence, Reserved, Pending, InFlight, Gone, Cancelled
  <2> QED BY <2>2, <2>3, <2>4, <2>5, <2>6 DEF Fence
<1> QED BY <1>1, <1>2, <1>3 DEF IInv

LEMMA PassIInv ==
  ASSUME IInv, Pass
  PROVE  IInv'
<1> USE DEF Pass, stored, runner, ghosts
<1>1. TypeOK'
  <2>1. runs' \in [{"timer", "manual"} -> Nat]
    BY DEF IInv, TypeOK
  <2>2. request' \in [Requests -> Stages]
    BY DEF IInv, TypeOK, Stages
  <2>3. reservation' \in Requests \cup {NoRequest}
    BY DEF IInv, TypeOK
  <2>4. {defers, fired, patches, crashes}' \subseteq Nat
    BY DEF IInv, TypeOK
  <2>5. {past, record, paused, meddled, registered, armed, running, deferred}' \subseteq BOOLEAN
    BY DEF IInv, TypeOK
  <2>6. row' \in Rows /\ boot' \in Boots
    BY DEF IInv, TypeOK, Rows, Boots
  <2> QED BY <2>1, <2>2, <2>3, <2>4, <2>5, <2>6 DEF TypeOK, Stages, Rows, Boots
<1>2. Books'
  BY RequestsAssumption DEF IInv, TypeOK, Books, Reserved, Pending
<1>3. ASSUME ~meddled' PROVE Flag' /\ Fired' /\ Fence'
  <2>1. ~meddled /\ Flag /\ Fired /\ Fence
    BY <1>3 DEF IInv, TypeOK
  <2>2. Flag'
    BY <1>3, <2>1, RequestsAssumption DEF IInv, TypeOK, Books, Flag, Fired, Fence, Reserved, Pending, InFlight, Gone, Cancelled
  <2>3. Fired'
    BY <1>3, <2>1, RequestsAssumption DEF IInv, TypeOK, Books, Flag, Fired, Fence, Reserved, Pending, InFlight, Gone, Cancelled
  <2>4. (Reserved => Cancelled)'
    BY <1>3, <2>1, RequestsAssumption DEF IInv, TypeOK, Books, Flag, Fired, Fence, Reserved, Pending, InFlight, Gone, Cancelled
  <2>5. (record => Settled)'
    BY <1>3, <2>1, RequestsAssumption DEF IInv, TypeOK, Books, Flag, Fired, Fence, Settled, Reserved, Pending, InFlight, Gone, Cancelled
  <2>6. \A q \in Requests : (request[q] = "committing" => Cancelled /\ (reservation = q \/ Gone))'
    BY <1>3, <2>1, RequestsAssumption DEF IInv, TypeOK, Books, Flag, Fired, Fence, Reserved, Pending, InFlight, Gone, Cancelled
  <2> QED BY <2>2, <2>3, <2>4, <2>5, <2>6 DEF Fence
<1> QED BY <1>1, <1>2, <1>3 DEF IInv

LEMMA SwitchGloballyIInv ==
  ASSUME IInv, SwitchGlobally
  PROVE  IInv'
<1> USE DEF SwitchGlobally, stored, runner, ghosts
<1>1. TypeOK'
  <2>1. runs' \in [{"timer", "manual"} -> Nat]
    BY DEF IInv, TypeOK
  <2>2. request' \in [Requests -> Stages]
    BY DEF IInv, TypeOK, Stages
  <2>3. reservation' \in Requests \cup {NoRequest}
    BY DEF IInv, TypeOK
  <2>4. {defers, fired, patches, crashes}' \subseteq Nat
    BY DEF IInv, TypeOK
  <2>5. {past, record, paused, meddled, registered, armed, running, deferred}' \subseteq BOOLEAN
    BY DEF IInv, TypeOK
  <2>6. row' \in Rows /\ boot' \in Boots
    BY DEF IInv, TypeOK, Rows, Boots
  <2> QED BY <2>1, <2>2, <2>3, <2>4, <2>5, <2>6 DEF TypeOK, Stages, Rows, Boots
<1>2. Books'
  BY RequestsAssumption DEF IInv, TypeOK, Books, Reserved, Pending
<1>3. ASSUME ~meddled' PROVE Flag' /\ Fired' /\ Fence'
  <2>1. ~meddled /\ Flag /\ Fired /\ Fence
    BY <1>3 DEF IInv, TypeOK
  <2>2. Flag'
    BY <1>3, <2>1, RequestsAssumption DEF IInv, TypeOK, Books, Flag, Fired, Fence, Reserved, Pending, InFlight, Gone, Cancelled
  <2>3. Fired'
    BY <1>3, <2>1, RequestsAssumption DEF IInv, TypeOK, Books, Flag, Fired, Fence, Reserved, Pending, InFlight, Gone, Cancelled
  <2>4. (Reserved => Cancelled)'
    BY <1>3, <2>1, RequestsAssumption DEF IInv, TypeOK, Books, Flag, Fired, Fence, Reserved, Pending, InFlight, Gone, Cancelled
  <2>5. (record => Settled)'
    BY <1>3, <2>1, RequestsAssumption DEF IInv, TypeOK, Books, Flag, Fired, Fence, Settled, Reserved, Pending, InFlight, Gone, Cancelled
  <2>6. \A q \in Requests : (request[q] = "committing" => Cancelled /\ (reservation = q \/ Gone))'
    BY <1>3, <2>1, RequestsAssumption DEF IInv, TypeOK, Books, Flag, Fired, Fence, Reserved, Pending, InFlight, Gone, Cancelled
  <2> QED BY <2>2, <2>3, <2>4, <2>5, <2>6 DEF Fence
<1> QED BY <1>1, <1>2, <1>3 DEF IInv

LEMMA TickBehindReservationIInv ==
  ASSUME IInv, armed, past, TickBehindReservation, UNCHANGED <<boot, paused, request>>
  PROVE  IInv'
<1> USE DEF TickBehindReservation, stored, runner, ghosts
<1>1. TypeOK'
  <2>1. runs' \in [{"timer", "manual"} -> Nat]
    BY DEF IInv, TypeOK
  <2>2. request' \in [Requests -> Stages]
    BY DEF IInv, TypeOK, Stages
  <2>3. reservation' \in Requests \cup {NoRequest}
    BY DEF IInv, TypeOK
  <2>4. {defers, fired, patches, crashes}' \subseteq Nat
    BY DEF IInv, TypeOK
  <2>5. {past, record, paused, meddled, registered, armed, running, deferred}' \subseteq BOOLEAN
    BY DEF IInv, TypeOK
  <2>6. row' \in Rows /\ boot' \in Boots
    BY DEF IInv, TypeOK, Rows, Boots
  <2> QED BY <2>1, <2>2, <2>3, <2>4, <2>5, <2>6 DEF TypeOK, Stages, Rows, Boots
<1>2. Books'
  BY RequestsAssumption DEF IInv, TypeOK, Books, Reserved, Pending
<1>3. ASSUME ~meddled' PROVE Flag' /\ Fired' /\ Fence'
  <2>1. ~meddled /\ Flag /\ Fired /\ Fence
    BY <1>3 DEF IInv, TypeOK
  <2>2. Flag'
    BY <1>3, <2>1, RequestsAssumption DEF IInv, TypeOK, Books, Flag, Fired, Fence, Reserved, Pending, InFlight, Gone, Cancelled
  <2>3. Fired'
    BY <1>3, <2>1, RequestsAssumption DEF IInv, TypeOK, Books, Flag, Fired, Fence, Reserved, Pending, InFlight, Gone, Cancelled
  <2>4. (Reserved => Cancelled)'
    BY <1>3, <2>1, RequestsAssumption DEF IInv, TypeOK, Books, Flag, Fired, Fence, Reserved, Pending, InFlight, Gone, Cancelled
  <2>5. (record => Settled)'
    BY <1>3, <2>1, RequestsAssumption DEF IInv, TypeOK, Books, Flag, Fired, Fence, Settled, Reserved, Pending, InFlight, Gone, Cancelled
  <2>6. \A q \in Requests : (request[q] = "committing" => Cancelled /\ (reservation = q \/ Gone))'
    BY <1>3, <2>1, RequestsAssumption DEF IInv, TypeOK, Books, Flag, Fired, Fence, Reserved, Pending, InFlight, Gone, Cancelled
  <2> QED BY <2>2, <2>3, <2>4, <2>5, <2>6 DEF Fence
<1> QED BY <1>1, <1>2, <1>3 DEF IInv

LEMMA TickDeferredIInv ==
  ASSUME IInv, armed, past, TickDeferred, UNCHANGED <<boot, paused, request>>
  PROVE  IInv'
<1> USE DEF TickDeferred, stored, runner, ghosts
<1>1. TypeOK'
  <2>1. runs' \in [{"timer", "manual"} -> Nat]
    BY DEF IInv, TypeOK
  <2>2. request' \in [Requests -> Stages]
    BY DEF IInv, TypeOK, Stages
  <2>3. reservation' \in Requests \cup {NoRequest}
    BY DEF IInv, TypeOK
  <2>4. {defers, fired, patches, crashes}' \subseteq Nat
    BY DEF IInv, TypeOK
  <2>5. {past, record, paused, meddled, registered, armed, running, deferred}' \subseteq BOOLEAN
    BY DEF IInv, TypeOK
  <2>6. row' \in Rows /\ boot' \in Boots
    BY DEF IInv, TypeOK, Rows, Boots
  <2> QED BY <2>1, <2>2, <2>3, <2>4, <2>5, <2>6 DEF TypeOK, Stages, Rows, Boots
<1>2. Books'
  BY RequestsAssumption DEF IInv, TypeOK, Books, Reserved, Pending
<1>3. ASSUME ~meddled' PROVE Flag' /\ Fired' /\ Fence'
  <2>1. ~meddled /\ Flag /\ Fired /\ Fence
    BY <1>3 DEF IInv, TypeOK
  <2>2. Flag'
    BY <1>3, <2>1, RequestsAssumption DEF IInv, TypeOK, Books, Flag, Fired, Fence, Reserved, Pending, InFlight, Gone, Cancelled
  <2>3. Fired'
    BY <1>3, <2>1, RequestsAssumption DEF IInv, TypeOK, Books, Flag, Fired, Fence, Reserved, Pending, InFlight, Gone, Cancelled
  <2>4. (Reserved => Cancelled)'
    BY <1>3, <2>1, RequestsAssumption DEF IInv, TypeOK, Books, Flag, Fired, Fence, Reserved, Pending, InFlight, Gone, Cancelled
  <2>5. (record => Settled)'
    BY <1>3, <2>1, RequestsAssumption DEF IInv, TypeOK, Books, Flag, Fired, Fence, Settled, Reserved, Pending, InFlight, Gone, Cancelled
  <2>6. \A q \in Requests : (request[q] = "committing" => Cancelled /\ (reservation = q \/ Gone))'
    BY <1>3, <2>1, RequestsAssumption DEF IInv, TypeOK, Books, Flag, Fired, Fence, Reserved, Pending, InFlight, Gone, Cancelled
  <2> QED BY <2>2, <2>3, <2>4, <2>5, <2>6 DEF Fence
<1> QED BY <1>1, <1>2, <1>3 DEF IInv

LEMMA TickPausedIInv ==
  ASSUME IInv, armed, past, TickPaused, UNCHANGED <<boot, paused, request>>
  PROVE  IInv'
<1> USE DEF TickPaused, stored, runner, ghosts
<1>1. TypeOK'
  <2>1. runs' \in [{"timer", "manual"} -> Nat]
    BY DEF IInv, TypeOK
  <2>2. request' \in [Requests -> Stages]
    BY DEF IInv, TypeOK, Stages
  <2>3. reservation' \in Requests \cup {NoRequest}
    BY DEF IInv, TypeOK
  <2>4. {defers, fired, patches, crashes}' \subseteq Nat
    BY DEF IInv, TypeOK
  <2>5. {past, record, paused, meddled, registered, armed, running, deferred}' \subseteq BOOLEAN
    BY DEF IInv, TypeOK
  <2>6. row' \in Rows /\ boot' \in Boots
    BY DEF IInv, TypeOK, Rows, Boots
  <2> QED BY <2>1, <2>2, <2>3, <2>4, <2>5, <2>6 DEF TypeOK, Stages, Rows, Boots
<1>2. Books'
  BY RequestsAssumption DEF IInv, TypeOK, Books, Reserved, Pending
<1>3. ASSUME ~meddled' PROVE Flag' /\ Fired' /\ Fence'
  <2>1. ~meddled /\ Flag /\ Fired /\ Fence
    BY <1>3 DEF IInv, TypeOK
  <2>2. Flag'
    BY <1>3, <2>1, RequestsAssumption DEF IInv, TypeOK, Books, Flag, Fired, Fence, Reserved, Pending, InFlight, Gone, Cancelled
  <2>3. Fired'
    BY <1>3, <2>1, RequestsAssumption DEF IInv, TypeOK, Books, Flag, Fired, Fence, Reserved, Pending, InFlight, Gone, Cancelled
  <2>4. (Reserved => Cancelled)'
    BY <1>3, <2>1, RequestsAssumption DEF IInv, TypeOK, Books, Flag, Fired, Fence, Reserved, Pending, InFlight, Gone, Cancelled
  <2>5. (record => Settled)'
    BY <1>3, <2>1, RequestsAssumption DEF IInv, TypeOK, Books, Flag, Fired, Fence, Settled, Reserved, Pending, InFlight, Gone, Cancelled
  <2>6. \A q \in Requests : (request[q] = "committing" => Cancelled /\ (reservation = q \/ Gone))'
    BY <1>3, <2>1, RequestsAssumption DEF IInv, TypeOK, Books, Flag, Fired, Fence, Reserved, Pending, InFlight, Gone, Cancelled
  <2> QED BY <2>2, <2>3, <2>4, <2>5, <2>6 DEF Fence
<1> QED BY <1>1, <1>2, <1>3 DEF IInv

LEMMA TickOverlappingIInv ==
  ASSUME IInv, armed, past, TickOverlapping, UNCHANGED <<boot, paused, request>>
  PROVE  IInv'
<1> USE DEF TickOverlapping, Retire, stored, runner, ghosts
<1>1. TypeOK'
  <2>1. runs' \in [{"timer", "manual"} -> Nat]
    BY DEF IInv, TypeOK
  <2>2. request' \in [Requests -> Stages]
    BY DEF IInv, TypeOK, Stages
  <2>3. reservation' \in Requests \cup {NoRequest}
    BY DEF IInv, TypeOK
  <2>4. {defers, fired, patches, crashes}' \subseteq Nat
    BY DEF IInv, TypeOK
  <2>5. {past, record, paused, meddled, registered, armed, running, deferred}' \subseteq BOOLEAN
    BY DEF IInv, TypeOK
  <2>6. row' \in Rows /\ boot' \in Boots
    BY DEF IInv, TypeOK, Rows, Boots
  <2> QED BY <2>1, <2>2, <2>3, <2>4, <2>5, <2>6 DEF TypeOK, Stages, Rows, Boots
<1>2. Books'
  BY RequestsAssumption DEF IInv, TypeOK, Books, Reserved, Pending
<1>3. ASSUME ~meddled' PROVE Flag' /\ Fired' /\ Fence'
  <2>1. ~meddled /\ Flag /\ Fired /\ Fence
    BY <1>3 DEF IInv, TypeOK
  <2>2. Flag'
    BY <1>3, <2>1, RequestsAssumption DEF IInv, TypeOK, Books, Flag, Fired, Fence, Reserved, Pending, InFlight, Gone, Cancelled
  <2>3. Fired'
    BY <1>3, <2>1, RequestsAssumption DEF IInv, TypeOK, Books, Flag, Fired, Fence, Reserved, Pending, InFlight, Gone, Cancelled
  <2>4. (Reserved => Cancelled)'
    BY <1>3, <2>1, RequestsAssumption DEF IInv, TypeOK, Books, Flag, Fired, Fence, Reserved, Pending, InFlight, Gone, Cancelled
  <2>5. (record => Settled)'
    BY <1>3, <2>1, RequestsAssumption DEF IInv, TypeOK, Books, Flag, Fired, Fence, Settled, Reserved, Pending, InFlight, Gone, Cancelled
  <2>6. \A q \in Requests : (request[q] = "committing" => Cancelled /\ (reservation = q \/ Gone))'
    BY <1>3, <2>1, RequestsAssumption DEF IInv, TypeOK, Books, Flag, Fired, Fence, Reserved, Pending, InFlight, Gone, Cancelled
  <2> QED BY <2>2, <2>3, <2>4, <2>5, <2>6 DEF Fence
<1> QED BY <1>1, <1>2, <1>3 DEF IInv

LEMMA TickRunsIInv ==
  ASSUME IInv, armed, past, TickRuns, UNCHANGED <<boot, paused, request>>
  PROVE  IInv'
<1> USE DEF TickRuns, Begin, stored, runner, ghosts
<1>1. TypeOK'
  <2>1. runs' \in [{"timer", "manual"} -> Nat]
    BY DEF IInv, TypeOK
  <2>2. request' \in [Requests -> Stages]
    BY DEF IInv, TypeOK, Stages
  <2>3. reservation' \in Requests \cup {NoRequest}
    BY DEF IInv, TypeOK
  <2>4. {defers, fired, patches, crashes}' \subseteq Nat
    BY DEF IInv, TypeOK
  <2>5. {past, record, paused, meddled, registered, armed, running, deferred}' \subseteq BOOLEAN
    BY DEF IInv, TypeOK
  <2>6. row' \in Rows /\ boot' \in Boots
    BY DEF IInv, TypeOK, Rows, Boots
  <2> QED BY <2>1, <2>2, <2>3, <2>4, <2>5, <2>6 DEF TypeOK, Stages, Rows, Boots
<1>2. Books'
  BY RequestsAssumption DEF IInv, TypeOK, Books, Reserved, Pending
<1>3. ASSUME ~meddled' PROVE Flag' /\ Fired' /\ Fence'
  <2>1. ~meddled /\ Flag /\ Fired /\ Fence
    BY <1>3 DEF IInv, TypeOK
  <2>2. Flag'
    BY <1>3, <2>1, RequestsAssumption DEF IInv, TypeOK, Books, Flag, Fired, Fence, Reserved, Pending, InFlight, Gone, Cancelled
  <2>3. Fired'
    BY <1>3, <2>1, RequestsAssumption DEF IInv, TypeOK, Books, Flag, Fired, Fence, Reserved, Pending, InFlight, Gone, Cancelled
  <2>4. (Reserved => Cancelled)'
    BY <1>3, <2>1, RequestsAssumption DEF IInv, TypeOK, Books, Flag, Fired, Fence, Reserved, Pending, InFlight, Gone, Cancelled
  <2>5. (record => Settled)'
    BY <1>3, <2>1, RequestsAssumption DEF IInv, TypeOK, Books, Flag, Fired, Fence, Settled, Reserved, Pending, InFlight, Gone, Cancelled
  <2>6. \A q \in Requests : (request[q] = "committing" => Cancelled /\ (reservation = q \/ Gone))'
    BY <1>3, <2>1, RequestsAssumption DEF IInv, TypeOK, Books, Flag, Fired, Fence, Reserved, Pending, InFlight, Gone, Cancelled
  <2> QED BY <2>2, <2>3, <2>4, <2>5, <2>6 DEF Fence
<1> QED BY <1>1, <1>2, <1>3 DEF IInv

LEMMA TriggerIInv ==
  ASSUME IInv, Trigger
  PROVE  IInv'
<1> USE DEF Trigger, Begin, stored, runner, ghosts
<1>1. TypeOK'
  <2>1. runs' \in [{"timer", "manual"} -> Nat]
    BY DEF IInv, TypeOK
  <2>2. request' \in [Requests -> Stages]
    BY DEF IInv, TypeOK, Stages
  <2>3. reservation' \in Requests \cup {NoRequest}
    BY DEF IInv, TypeOK
  <2>4. {defers, fired, patches, crashes}' \subseteq Nat
    BY DEF IInv, TypeOK
  <2>5. {past, record, paused, meddled, registered, armed, running, deferred}' \subseteq BOOLEAN
    BY DEF IInv, TypeOK
  <2>6. row' \in Rows /\ boot' \in Boots
    BY DEF IInv, TypeOK, Rows, Boots
  <2> QED BY <2>1, <2>2, <2>3, <2>4, <2>5, <2>6 DEF TypeOK, Stages, Rows, Boots
<1>2. Books'
  BY RequestsAssumption DEF IInv, TypeOK, Books, Reserved, Pending
<1>3. ASSUME ~meddled' PROVE Flag' /\ Fired' /\ Fence'
  <2>1. ~meddled /\ Flag /\ Fired /\ Fence
    BY <1>3 DEF IInv, TypeOK
  <2>2. Flag'
    BY <1>3, <2>1, RequestsAssumption DEF IInv, TypeOK, Books, Flag, Fired, Fence, Reserved, Pending, InFlight, Gone, Cancelled
  <2>3. Fired'
    BY <1>3, <2>1, RequestsAssumption DEF IInv, TypeOK, Books, Flag, Fired, Fence, Reserved, Pending, InFlight, Gone, Cancelled
  <2>4. (Reserved => Cancelled)'
    BY <1>3, <2>1, RequestsAssumption DEF IInv, TypeOK, Books, Flag, Fired, Fence, Reserved, Pending, InFlight, Gone, Cancelled
  <2>5. (record => Settled)'
    BY <1>3, <2>1, RequestsAssumption DEF IInv, TypeOK, Books, Flag, Fired, Fence, Settled, Reserved, Pending, InFlight, Gone, Cancelled
  <2>6. \A q \in Requests : (request[q] = "committing" => Cancelled /\ (reservation = q \/ Gone))'
    BY <1>3, <2>1, RequestsAssumption DEF IInv, TypeOK, Books, Flag, Fired, Fence, Reserved, Pending, InFlight, Gone, Cancelled
  <2> QED BY <2>2, <2>3, <2>4, <2>5, <2>6 DEF Fence
<1> QED BY <1>1, <1>2, <1>3 DEF IInv

LEMMA EndManualIInv ==
  ASSUME IInv, EndManual
  PROVE  IInv'
<1> USE DEF EndManual, stored, runner, ghosts
<1>1. TypeOK'
  <2>1. runs' \in [{"timer", "manual"} -> Nat]
    BY DEF IInv, TypeOK
  <2>2. request' \in [Requests -> Stages]
    BY DEF IInv, TypeOK, Stages
  <2>3. reservation' \in Requests \cup {NoRequest}
    BY DEF IInv, TypeOK
  <2>4. {defers, fired, patches, crashes}' \subseteq Nat
    BY DEF IInv, TypeOK
  <2>5. {past, record, paused, meddled, registered, armed, running, deferred}' \subseteq BOOLEAN
    BY DEF IInv, TypeOK
  <2>6. row' \in Rows /\ boot' \in Boots
    BY DEF IInv, TypeOK, Rows, Boots
  <2> QED BY <2>1, <2>2, <2>3, <2>4, <2>5, <2>6 DEF TypeOK, Stages, Rows, Boots
<1>2. Books'
  BY RequestsAssumption DEF IInv, TypeOK, Books, Reserved, Pending
<1>3. ASSUME ~meddled' PROVE Flag' /\ Fired' /\ Fence'
  <2>1. ~meddled /\ Flag /\ Fired /\ Fence
    BY <1>3 DEF IInv, TypeOK
  <2>2. Flag'
    BY <1>3, <2>1, RequestsAssumption DEF IInv, TypeOK, Books, Flag, Fired, Fence, Reserved, Pending, InFlight, Gone, Cancelled
  <2>3. Fired'
    BY <1>3, <2>1, RequestsAssumption DEF IInv, TypeOK, Books, Flag, Fired, Fence, Reserved, Pending, InFlight, Gone, Cancelled
  <2>4. (Reserved => Cancelled)'
    BY <1>3, <2>1, RequestsAssumption DEF IInv, TypeOK, Books, Flag, Fired, Fence, Reserved, Pending, InFlight, Gone, Cancelled
  <2>5. (record => Settled)'
    BY <1>3, <2>1, RequestsAssumption DEF IInv, TypeOK, Books, Flag, Fired, Fence, Settled, Reserved, Pending, InFlight, Gone, Cancelled
  <2>6. \A q \in Requests : (request[q] = "committing" => Cancelled /\ (reservation = q \/ Gone))'
    BY <1>3, <2>1, RequestsAssumption DEF IInv, TypeOK, Books, Flag, Fired, Fence, Reserved, Pending, InFlight, Gone, Cancelled
  <2> QED BY <2>2, <2>3, <2>4, <2>5, <2>6 DEF Fence
<1> QED BY <1>1, <1>2, <1>3 DEF IInv

LEMMA EndTimerIInv ==
  ASSUME IInv, EndTimer
  PROVE  IInv'
<1> USE DEF EndTimer, Retire, stored, runner, ghosts
<1>1. TypeOK'
  <2>1. runs' \in [{"timer", "manual"} -> Nat]
    BY DEF IInv, TypeOK
  <2>2. request' \in [Requests -> Stages]
    BY DEF IInv, TypeOK, Stages
  <2>3. reservation' \in Requests \cup {NoRequest}
    BY DEF IInv, TypeOK
  <2>4. {defers, fired, patches, crashes}' \subseteq Nat
    BY DEF IInv, TypeOK
  <2>5. {past, record, paused, meddled, registered, armed, running, deferred}' \subseteq BOOLEAN
    BY DEF IInv, TypeOK
  <2>6. row' \in Rows /\ boot' \in Boots
    BY DEF IInv, TypeOK, Rows, Boots
  <2> QED BY <2>1, <2>2, <2>3, <2>4, <2>5, <2>6 DEF TypeOK, Stages, Rows, Boots
<1>2. Books'
  BY RequestsAssumption DEF IInv, TypeOK, Books, Reserved, Pending
<1>3. ASSUME ~meddled' PROVE Flag' /\ Fired' /\ Fence'
  <2>1. ~meddled /\ Flag /\ Fired /\ Fence
    BY <1>3 DEF IInv, TypeOK
  <2>2. Flag'
    BY <1>3, <2>1, RequestsAssumption DEF IInv, TypeOK, Books, Flag, Fired, Fence, Reserved, Pending, InFlight, Gone, Cancelled
  <2>3. Fired'
    BY <1>3, <2>1, RequestsAssumption DEF IInv, TypeOK, Books, Flag, Fired, Fence, Reserved, Pending, InFlight, Gone, Cancelled
  <2>4. (Reserved => Cancelled)'
    BY <1>3, <2>1, RequestsAssumption DEF IInv, TypeOK, Books, Flag, Fired, Fence, Reserved, Pending, InFlight, Gone, Cancelled
  <2>5. (record => Settled)'
    BY <1>3, <2>1, RequestsAssumption DEF IInv, TypeOK, Books, Flag, Fired, Fence, Settled, Reserved, Pending, InFlight, Gone, Cancelled
  <2>6. \A q \in Requests : (request[q] = "committing" => Cancelled /\ (reservation = q \/ Gone))'
    BY <1>3, <2>1, RequestsAssumption DEF IInv, TypeOK, Books, Flag, Fired, Fence, Reserved, Pending, InFlight, Gone, Cancelled
  <2> QED BY <2>2, <2>3, <2>4, <2>5, <2>6 DEF Fence
<1> QED BY <1>1, <1>2, <1>3 DEF IInv

LEMMA WithdrawIInv ==
  ASSUME IInv, Withdraw
  PROVE  IInv'
<1> USE DEF Withdraw, Unregister, stored, runner, ghosts
<1>1. TypeOK'
  <2>1. runs' \in [{"timer", "manual"} -> Nat]
    BY DEF IInv, TypeOK
  <2>2. request' \in [Requests -> Stages]
    BY DEF IInv, TypeOK, Stages
  <2>3. reservation' \in Requests \cup {NoRequest}
    BY DEF IInv, TypeOK
  <2>4. {defers, fired, patches, crashes}' \subseteq Nat
    BY DEF IInv, TypeOK
  <2>5. {past, record, paused, meddled, registered, armed, running, deferred}' \subseteq BOOLEAN
    BY DEF IInv, TypeOK
  <2>6. row' \in Rows /\ boot' \in Boots
    BY DEF IInv, TypeOK, Rows, Boots
  <2> QED BY <2>1, <2>2, <2>3, <2>4, <2>5, <2>6 DEF TypeOK, Stages, Rows, Boots
<1>2. Books'
  BY RequestsAssumption DEF IInv, TypeOK, Books, Reserved, Pending
<1>3. ASSUME ~meddled' PROVE Flag' /\ Fired' /\ Fence'
  <2>1. ~meddled /\ Flag /\ Fired /\ Fence
    BY <1>3 DEF IInv, TypeOK
  <2>2. Flag'
    BY <1>3, <2>1, RequestsAssumption DEF IInv, TypeOK, Books, Flag, Fired, Fence, Reserved, Pending, InFlight, Gone, Cancelled
  <2>3. Fired'
    BY <1>3, <2>1, RequestsAssumption DEF IInv, TypeOK, Books, Flag, Fired, Fence, Reserved, Pending, InFlight, Gone, Cancelled
  <2>4. (Reserved => Cancelled)'
    BY <1>3, <2>1, RequestsAssumption DEF IInv, TypeOK, Books, Flag, Fired, Fence, Reserved, Pending, InFlight, Gone, Cancelled
  <2>5. (record => Settled)'
    BY <1>3, <2>1, RequestsAssumption DEF IInv, TypeOK, Books, Flag, Fired, Fence, Settled, Reserved, Pending, InFlight, Gone, Cancelled
  <2>6. \A q \in Requests : (request[q] = "committing" => Cancelled /\ (reservation = q \/ Gone))'
    BY <1>3, <2>1, RequestsAssumption DEF IInv, TypeOK, Books, Flag, Fired, Fence, Reserved, Pending, InFlight, Gone, Cancelled
  <2> QED BY <2>2, <2>3, <2>4, <2>5, <2>6 DEF Fence
<1> QED BY <1>1, <1>2, <1>3 DEF IInv

LEMMA RetireByEventIInv ==
  ASSUME IInv, RetireByEvent
  PROVE  IInv'
<1> USE DEF RetireByEvent, Unregister, stored, runner, ghosts
<1>1. TypeOK'
  <2>1. runs' \in [{"timer", "manual"} -> Nat]
    BY DEF IInv, TypeOK
  <2>2. request' \in [Requests -> Stages]
    BY DEF IInv, TypeOK, Stages
  <2>3. reservation' \in Requests \cup {NoRequest}
    BY DEF IInv, TypeOK
  <2>4. {defers, fired, patches, crashes}' \subseteq Nat
    BY DEF IInv, TypeOK
  <2>5. {past, record, paused, meddled, registered, armed, running, deferred}' \subseteq BOOLEAN
    BY DEF IInv, TypeOK
  <2>6. row' \in Rows /\ boot' \in Boots
    BY DEF IInv, TypeOK, Rows, Boots
  <2> QED BY <2>1, <2>2, <2>3, <2>4, <2>5, <2>6 DEF TypeOK, Stages, Rows, Boots
<1>2. Books'
  BY RequestsAssumption DEF IInv, TypeOK, Books, Reserved, Pending
<1>3. ASSUME ~meddled' PROVE Flag' /\ Fired' /\ Fence'
  <2>1. ~meddled /\ Flag /\ Fired /\ Fence
    BY <1>3 DEF IInv, TypeOK
  <2>2. Flag'
    BY <1>3, <2>1, RequestsAssumption DEF IInv, TypeOK, Books, Flag, Fired, Fence, Reserved, Pending, InFlight, Gone, Cancelled
  <2>3. Fired'
    BY <1>3, <2>1, RequestsAssumption DEF IInv, TypeOK, Books, Flag, Fired, Fence, Reserved, Pending, InFlight, Gone, Cancelled
  <2>4. (Reserved => Cancelled)'
    BY <1>3, <2>1, RequestsAssumption DEF IInv, TypeOK, Books, Flag, Fired, Fence, Reserved, Pending, InFlight, Gone, Cancelled
  <2>5. (record => Settled)'
    BY <1>3, <2>1, RequestsAssumption DEF IInv, TypeOK, Books, Flag, Fired, Fence, Settled, Reserved, Pending, InFlight, Gone, Cancelled
  <2>6. \A q \in Requests : (request[q] = "committing" => Cancelled /\ (reservation = q \/ Gone))'
    BY <1>3, <2>1, RequestsAssumption DEF IInv, TypeOK, Books, Flag, Fired, Fence, Reserved, Pending, InFlight, Gone, Cancelled
  <2> QED BY <2>2, <2>3, <2>4, <2>5, <2>6 DEF Fence
<1> QED BY <1>1, <1>2, <1>3 DEF IInv

LEMMA PauseIInv ==
  ASSUME IInv, Pause
  PROVE  IInv'
<1> USE DEF Pause, Unregister, Delicate, stored, runner, ghosts
<1>1. TypeOK'
  <2>1. runs' \in [{"timer", "manual"} -> Nat]
    BY DEF IInv, TypeOK
  <2>2. request' \in [Requests -> Stages]
    BY DEF IInv, TypeOK, Stages
  <2>3. reservation' \in Requests \cup {NoRequest}
    BY DEF IInv, TypeOK
  <2>4. {defers, fired, patches, crashes}' \subseteq Nat
    BY DEF IInv, TypeOK
  <2>5. {past, record, paused, meddled, registered, armed, running, deferred}' \subseteq BOOLEAN
    BY DEF IInv, TypeOK
  <2>6. row' \in Rows /\ boot' \in Boots
    BY DEF IInv, TypeOK, Rows, Boots
  <2> QED BY <2>1, <2>2, <2>3, <2>4, <2>5, <2>6 DEF TypeOK, Stages, Rows, Boots
<1>2. Books'
  BY RequestsAssumption DEF IInv, TypeOK, Books, Reserved, Pending
<1>3. ASSUME ~meddled' PROVE Flag' /\ Fired' /\ Fence'
  <2>1. ~meddled /\ Flag /\ Fired /\ Fence
    BY <1>3 DEF IInv, TypeOK
  <2>2. Flag'
    BY <1>3, <2>1, RequestsAssumption DEF IInv, TypeOK, Books, Flag, Fired, Fence, Reserved, Pending, InFlight, Gone, Cancelled
  <2>3. Fired'
    BY <1>3, <2>1, RequestsAssumption DEF IInv, TypeOK, Books, Flag, Fired, Fence, Reserved, Pending, InFlight, Gone, Cancelled
  <2>4. (Reserved => Cancelled)'
    BY <1>3, <2>1, RequestsAssumption DEF IInv, TypeOK, Books, Flag, Fired, Fence, Reserved, Pending, InFlight, Gone, Cancelled
  <2>5. (record => Settled)'
    BY <1>3, <2>1, RequestsAssumption DEF IInv, TypeOK, Books, Flag, Fired, Fence, Settled, Reserved, Pending, InFlight, Gone, Cancelled
  <2>6. \A q \in Requests : (request[q] = "committing" => Cancelled /\ (reservation = q \/ Gone))'
    BY <1>3, <2>1, RequestsAssumption DEF IInv, TypeOK, Books, Flag, Fired, Fence, Reserved, Pending, InFlight, Gone, Cancelled
  <2> QED BY <2>2, <2>3, <2>4, <2>5, <2>6 DEF Fence
<1> QED BY <1>1, <1>2, <1>3 DEF IInv

LEMMA ResumeIInv ==
  ASSUME IInv, Resume
  PROVE  IInv'
<1> USE DEF Resume, Register, Delicate, stored, runner, ghosts
<1>1. TypeOK'
  <2>1. runs' \in [{"timer", "manual"} -> Nat]
    BY DEF IInv, TypeOK
  <2>2. request' \in [Requests -> Stages]
    BY DEF IInv, TypeOK, Stages
  <2>3. reservation' \in Requests \cup {NoRequest}
    BY DEF IInv, TypeOK
  <2>4. {defers, fired, patches, crashes}' \subseteq Nat
    BY DEF IInv, TypeOK
  <2>5. {past, record, paused, meddled, registered, armed, running, deferred}' \subseteq BOOLEAN
    BY DEF IInv, TypeOK
  <2>6. row' \in Rows /\ boot' \in Boots
    BY DEF IInv, TypeOK, Rows, Boots
  <2> QED BY <2>1, <2>2, <2>3, <2>4, <2>5, <2>6 DEF TypeOK, Stages, Rows, Boots
<1>2. Books'
  BY RequestsAssumption DEF IInv, TypeOK, Books, Reserved, Pending
<1>3. ASSUME ~meddled' PROVE Flag' /\ Fired' /\ Fence'
  <2>1. ~meddled /\ Flag /\ Fired /\ Fence
    BY <1>3 DEF IInv, TypeOK
  <2>2. Flag'
    BY <1>3, <2>1, RequestsAssumption DEF IInv, TypeOK, Books, Flag, Fired, Fence, Reserved, Pending, InFlight, Gone, Cancelled
  <2>3. Fired'
    BY <1>3, <2>1, RequestsAssumption DEF IInv, TypeOK, Books, Flag, Fired, Fence, Reserved, Pending, InFlight, Gone, Cancelled
  <2>4. (Reserved => Cancelled)'
    BY <1>3, <2>1, RequestsAssumption DEF IInv, TypeOK, Books, Flag, Fired, Fence, Reserved, Pending, InFlight, Gone, Cancelled
  <2>5. (record => Settled)'
    BY <1>3, <2>1, RequestsAssumption DEF IInv, TypeOK, Books, Flag, Fired, Fence, Settled, Reserved, Pending, InFlight, Gone, Cancelled
  <2>6. \A q \in Requests : (request[q] = "committing" => Cancelled /\ (reservation = q \/ Gone))'
    BY <1>3, <2>1, RequestsAssumption DEF IInv, TypeOK, Books, Flag, Fired, Fence, Reserved, Pending, InFlight, Gone, Cancelled
  <2> QED BY <2>2, <2>3, <2>4, <2>5, <2>6 DEF Fence
<1> QED BY <1>1, <1>2, <1>3 DEF IInv

LEMMA AskIInv ==
  ASSUME IInv, NEW r \in Requests, Ask(r)
  PROVE  IInv'
<1> USE DEF Ask, stored, runner, ghosts
<1>1. TypeOK'
  <2>1. runs' \in [{"timer", "manual"} -> Nat]
    BY DEF IInv, TypeOK
  <2>2. request' \in [Requests -> Stages]
    BY DEF IInv, TypeOK, Stages
  <2>3. reservation' \in Requests \cup {NoRequest}
    BY DEF IInv, TypeOK
  <2>4. {defers, fired, patches, crashes}' \subseteq Nat
    BY DEF IInv, TypeOK
  <2>5. {past, record, paused, meddled, registered, armed, running, deferred}' \subseteq BOOLEAN
    BY DEF IInv, TypeOK
  <2>6. row' \in Rows /\ boot' \in Boots
    BY DEF IInv, TypeOK, Rows, Boots
  <2> QED BY <2>1, <2>2, <2>3, <2>4, <2>5, <2>6 DEF TypeOK, Stages, Rows, Boots
<1>2. Books'
  BY RequestsAssumption DEF IInv, TypeOK, Books, Reserved, Pending
<1>3. ASSUME ~meddled' PROVE Flag' /\ Fired' /\ Fence'
  <2>1. ~meddled /\ Flag /\ Fired /\ Fence
    BY <1>3 DEF IInv, TypeOK
  <2>2. Flag'
    BY <1>3, <2>1, RequestsAssumption DEF IInv, TypeOK, Books, Flag, Fired, Fence, Reserved, Pending, InFlight, Gone, Cancelled
  <2>3. Fired'
    BY <1>3, <2>1, RequestsAssumption DEF IInv, TypeOK, Books, Flag, Fired, Fence, Reserved, Pending, InFlight, Gone, Cancelled
  <2>4. (Reserved => Cancelled)'
    BY <1>3, <2>1, RequestsAssumption DEF IInv, TypeOK, Books, Flag, Fired, Fence, Reserved, Pending, InFlight, Gone, Cancelled
  <2>5. (record => Settled)'
    BY <1>3, <2>1, RequestsAssumption DEF IInv, TypeOK, Books, Flag, Fired, Fence, Settled, Reserved, Pending, InFlight, Gone, Cancelled
  <2>6. \A q \in Requests : (request[q] = "committing" => Cancelled /\ (reservation = q \/ Gone))'
    BY <1>3, <2>1, RequestsAssumption DEF IInv, TypeOK, Books, Flag, Fired, Fence, Reserved, Pending, InFlight, Gone, Cancelled
  <2> QED BY <2>2, <2>3, <2>4, <2>5, <2>6 DEF Fence
<1> QED BY <1>1, <1>2, <1>3 DEF IInv

LEMMA ReserveIInv ==
  ASSUME IInv, NEW r \in Requests, Reserve(r)
  PROVE  IInv'
<1> USE DEF Reserve, stored, runner, ghosts
<1>1. TypeOK'
  <2>1. runs' \in [{"timer", "manual"} -> Nat]
    BY DEF IInv, TypeOK
  <2>2. request' \in [Requests -> Stages]
    BY DEF IInv, TypeOK, Stages
  <2>3. reservation' \in Requests \cup {NoRequest}
    BY DEF IInv, TypeOK
  <2>4. {defers, fired, patches, crashes}' \subseteq Nat
    BY DEF IInv, TypeOK
  <2>5. {past, record, paused, meddled, registered, armed, running, deferred}' \subseteq BOOLEAN
    BY DEF IInv, TypeOK
  <2>6. row' \in Rows /\ boot' \in Boots
    BY DEF IInv, TypeOK, Rows, Boots
  <2> QED BY <2>1, <2>2, <2>3, <2>4, <2>5, <2>6 DEF TypeOK, Stages, Rows, Boots
<1>2. Books'
  BY RequestsAssumption DEF IInv, TypeOK, Books, Reserved, Pending
<1>3. ASSUME ~meddled' PROVE Flag' /\ Fired' /\ Fence'
  <2>1. ~meddled /\ Flag /\ Fired /\ Fence
    BY <1>3 DEF IInv, TypeOK
  <2>2. Flag'
    BY <1>3, <2>1, RequestsAssumption DEF IInv, TypeOK, Books, Flag, Fired, Fence, Reserved, Pending, InFlight, Gone, Cancelled
  <2>3. Fired'
    BY <1>3, <2>1, RequestsAssumption DEF IInv, TypeOK, Books, Flag, Fired, Fence, Reserved, Pending, InFlight, Gone, Cancelled
  <2>4. (Reserved => Cancelled)'
    BY <1>3, <2>1, RequestsAssumption DEF IInv, TypeOK, Books, Flag, Fired, Fence, Reserved, Pending, InFlight, Gone, Cancelled
  <2>5. (record => Settled)'
    BY <1>3, <2>1, RequestsAssumption DEF IInv, TypeOK, Books, Flag, Fired, Fence, Settled, Reserved, Pending, InFlight, Gone, Cancelled
  <2>6. \A q \in Requests : (request[q] = "committing" => Cancelled /\ (reservation = q \/ Gone))'
    BY <1>3, <2>1, RequestsAssumption DEF IInv, TypeOK, Books, Flag, Fired, Fence, Reserved, Pending, InFlight, Gone, Cancelled
  <2> QED BY <2>2, <2>3, <2>4, <2>5, <2>6 DEF Fence
<1> QED BY <1>1, <1>2, <1>3 DEF IInv

LEMMA CommitIInv ==
  ASSUME IInv, NEW r \in Requests, Commit(r)
  PROVE  IInv'
<1> USE DEF Commit, stored, runner, ghosts
<1>1. TypeOK'
  <2>1. runs' \in [{"timer", "manual"} -> Nat]
    BY DEF IInv, TypeOK
  <2>2. request' \in [Requests -> Stages]
    BY DEF IInv, TypeOK, Stages
  <2>3. reservation' \in Requests \cup {NoRequest}
    BY DEF IInv, TypeOK
  <2>4. {defers, fired, patches, crashes}' \subseteq Nat
    BY DEF IInv, TypeOK
  <2>5. {past, record, paused, meddled, registered, armed, running, deferred}' \subseteq BOOLEAN
    BY DEF IInv, TypeOK
  <2>6. row' \in Rows /\ boot' \in Boots
    BY DEF IInv, TypeOK, Rows, Boots
  <2> QED BY <2>1, <2>2, <2>3, <2>4, <2>5, <2>6 DEF TypeOK, Stages, Rows, Boots
<1>2. Books'
  BY RequestsAssumption DEF IInv, TypeOK, Books, Reserved, Pending
<1>3. ASSUME ~meddled' PROVE Flag' /\ Fired' /\ Fence'
  <2>1. ~meddled /\ Flag /\ Fired /\ Fence
    BY <1>3 DEF IInv, TypeOK
  <2>2. Flag'
    BY <1>3, <2>1, RequestsAssumption DEF IInv, TypeOK, Books, Flag, Fired, Fence, Reserved, Pending, InFlight, Gone, Cancelled
  <2>3. Fired'
    BY <1>3, <2>1, RequestsAssumption DEF IInv, TypeOK, Books, Flag, Fired, Fence, Reserved, Pending, InFlight, Gone, Cancelled
  <2>4. (Reserved => Cancelled)'
    BY <1>3, <2>1, RequestsAssumption DEF IInv, TypeOK, Books, Flag, Fired, Fence, Reserved, Pending, InFlight, Gone, Cancelled
  <2>5. (record => Settled)'
    BY <1>3, <2>1, RequestsAssumption DEF IInv, TypeOK, Books, Flag, Fired, Fence, Settled, Reserved, Pending, InFlight, Gone, Cancelled
  <2>6. \A q \in Requests : (request[q] = "committing" => Cancelled /\ (reservation = q \/ Gone))'
    BY <1>3, <2>1, RequestsAssumption DEF IInv, TypeOK, Books, Flag, Fired, Fence, Reserved, Pending, InFlight, Gone, Cancelled
  <2> QED BY <2>2, <2>3, <2>4, <2>5, <2>6 DEF Fence
<1> QED BY <1>1, <1>2, <1>3 DEF IInv

LEMMA CommitFailsIInv ==
  ASSUME IInv, NEW r \in Requests, CommitFails(r)
  PROVE  IInv'
<1> USE DEF CommitFails, stored, runner, ghosts
<1>1. TypeOK'
  <2>1. runs' \in [{"timer", "manual"} -> Nat]
    BY DEF IInv, TypeOK
  <2>2. request' \in [Requests -> Stages]
    BY DEF IInv, TypeOK, Stages
  <2>3. reservation' \in Requests \cup {NoRequest}
    BY DEF IInv, TypeOK
  <2>4. {defers, fired, patches, crashes}' \subseteq Nat
    BY DEF IInv, TypeOK
  <2>5. {past, record, paused, meddled, registered, armed, running, deferred}' \subseteq BOOLEAN
    BY DEF IInv, TypeOK
  <2>6. row' \in Rows /\ boot' \in Boots
    BY DEF IInv, TypeOK, Rows, Boots
  <2> QED BY <2>1, <2>2, <2>3, <2>4, <2>5, <2>6 DEF TypeOK, Stages, Rows, Boots
<1>2. Books'
  BY RequestsAssumption DEF IInv, TypeOK, Books, Reserved, Pending
<1>3. ASSUME ~meddled' PROVE Flag' /\ Fired' /\ Fence'
  <2>1. ~meddled /\ Flag /\ Fired /\ Fence
    BY <1>3 DEF IInv, TypeOK
  <2>2. Flag'
    BY <1>3, <2>1, RequestsAssumption DEF IInv, TypeOK, Books, Flag, Fired, Fence, Reserved, Pending, InFlight, Gone, Cancelled
  <2>3. Fired'
    BY <1>3, <2>1, RequestsAssumption DEF IInv, TypeOK, Books, Flag, Fired, Fence, Reserved, Pending, InFlight, Gone, Cancelled
  <2>4. (Reserved => Cancelled)'
    BY <1>3, <2>1, RequestsAssumption DEF IInv, TypeOK, Books, Flag, Fired, Fence, Reserved, Pending, InFlight, Gone, Cancelled
  <2>5. (record => Settled)'
    BY <1>3, <2>1, RequestsAssumption DEF IInv, TypeOK, Books, Flag, Fired, Fence, Settled, Reserved, Pending, InFlight, Gone, Cancelled
  <2>6. \A q \in Requests : (request[q] = "committing" => Cancelled /\ (reservation = q \/ Gone))'
    BY <1>3, <2>1, RequestsAssumption DEF IInv, TypeOK, Books, Flag, Fired, Fence, Reserved, Pending, InFlight, Gone, Cancelled
  <2> QED BY <2>2, <2>3, <2>4, <2>5, <2>6 DEF Fence
<1> QED BY <1>1, <1>2, <1>3 DEF IInv

LEMMA CommitHeardIInv ==
  ASSUME IInv, NEW r \in Requests, CommitHeard(r)
  PROVE  IInv'
<1> USE DEF CommitHeard, CleanUp, Unregister, stored, runner, ghosts
<1>1. TypeOK'
  <2>1. runs' \in [{"timer", "manual"} -> Nat]
    BY DEF IInv, TypeOK
  <2>2. request' \in [Requests -> Stages]
    BY DEF IInv, TypeOK, Stages
  <2>3. reservation' \in Requests \cup {NoRequest}
    BY DEF IInv, TypeOK
  <2>4. {defers, fired, patches, crashes}' \subseteq Nat
    BY DEF IInv, TypeOK
  <2>5. {past, record, paused, meddled, registered, armed, running, deferred}' \subseteq BOOLEAN
    BY DEF IInv, TypeOK
  <2>6. row' \in Rows /\ boot' \in Boots
    BY DEF IInv, TypeOK, Rows, Boots
  <2> QED BY <2>1, <2>2, <2>3, <2>4, <2>5, <2>6 DEF TypeOK, Stages, Rows, Boots
<1>2. Books'
  BY RequestsAssumption DEF IInv, TypeOK, Books, Reserved, Pending
<1>3. ASSUME ~meddled' PROVE Flag' /\ Fired' /\ Fence'
  <2>1. ~meddled /\ Flag /\ Fired /\ Fence
    BY <1>3 DEF IInv, TypeOK
  <2>2. Flag'
    BY <1>3, <2>1, RequestsAssumption DEF IInv, TypeOK, Books, Flag, Fired, Fence, Reserved, Pending, InFlight, Gone, Cancelled
  <2>3. Fired'
    BY <1>3, <2>1, RequestsAssumption DEF IInv, TypeOK, Books, Flag, Fired, Fence, Reserved, Pending, InFlight, Gone, Cancelled
  <2>4. (Reserved => Cancelled)'
    BY <1>3, <2>1, RequestsAssumption DEF IInv, TypeOK, Books, Flag, Fired, Fence, Reserved, Pending, InFlight, Gone, Cancelled
  <2>5. (record => Settled)'
    BY <1>3, <2>1, RequestsAssumption DEF IInv, TypeOK, Books, Flag, Fired, Fence, Settled, Reserved, Pending, InFlight, Gone, Cancelled
  <2>6. \A q \in Requests : (request[q] = "committing" => Cancelled /\ (reservation = q \/ Gone))'
    BY <1>3, <2>1, RequestsAssumption DEF IInv, TypeOK, Books, Flag, Fired, Fence, Reserved, Pending, InFlight, Gone, Cancelled
  <2> QED BY <2>2, <2>3, <2>4, <2>5, <2>6 DEF Fence
<1> QED BY <1>1, <1>2, <1>3 DEF IInv

LEMMA ReconcileIInv ==
  ASSUME IInv, NEW r \in Requests, Reconcile(r)
  PROVE  IInv'
<1> USE DEF Reconcile, CleanUp, Unregister, Release, stored, runner, ghosts
<1>1. TypeOK'
  <2>1. runs' \in [{"timer", "manual"} -> Nat]
    BY DEF IInv, TypeOK
  <2>2. request' \in [Requests -> Stages]
    BY DEF IInv, TypeOK, Stages
  <2>3. reservation' \in Requests \cup {NoRequest}
    BY DEF IInv, TypeOK
  <2>4. {defers, fired, patches, crashes}' \subseteq Nat
    BY DEF IInv, TypeOK
  <2>5. {past, record, paused, meddled, registered, armed, running, deferred}' \subseteq BOOLEAN
    BY DEF IInv, TypeOK
  <2>6. row' \in Rows /\ boot' \in Boots
    BY DEF IInv, TypeOK, Rows, Boots
  <2> QED BY <2>1, <2>2, <2>3, <2>4, <2>5, <2>6 DEF TypeOK, Stages, Rows, Boots
<1>2. Books'
  BY RequestsAssumption DEF IInv, TypeOK, Books, Reserved, Pending
<1>3. ASSUME ~meddled' PROVE Flag' /\ Fired' /\ Fence'
  <2>1. ~meddled /\ Flag /\ Fired /\ Fence
    BY <1>3 DEF IInv, TypeOK
  <2>2. Flag'
    BY <1>3, <2>1, RequestsAssumption DEF IInv, TypeOK, Books, Flag, Fired, Fence, Reserved, Pending, InFlight, Gone, Cancelled
  <2>3. Fired'
    BY <1>3, <2>1, RequestsAssumption DEF IInv, TypeOK, Books, Flag, Fired, Fence, Reserved, Pending, InFlight, Gone, Cancelled
  <2>4. (Reserved => Cancelled)'
    BY <1>3, <2>1, RequestsAssumption DEF IInv, TypeOK, Books, Flag, Fired, Fence, Reserved, Pending, InFlight, Gone, Cancelled
  <2>5. (record => Settled)'
    BY <1>3, <2>1, RequestsAssumption DEF IInv, TypeOK, Books, Flag, Fired, Fence, Settled, Reserved, Pending, InFlight, Gone, Cancelled
  <2>6. \A q \in Requests : (request[q] = "committing" => Cancelled /\ (reservation = q \/ Gone))'
    BY <1>3, <2>1, RequestsAssumption DEF IInv, TypeOK, Books, Flag, Fired, Fence, Reserved, Pending, InFlight, Gone, Cancelled
  <2> QED BY <2>2, <2>3, <2>4, <2>5, <2>6 DEF Fence
<1> QED BY <1>1, <1>2, <1>3 DEF IInv

LEMMA CrashIInv ==
  ASSUME IInv, Crash
  PROVE  IInv'
<1> USE DEF Crash, stored, runner, ghosts
<1>1. TypeOK'
  <2>1. runs' \in [{"timer", "manual"} -> Nat]
    BY DEF IInv, TypeOK
  <2>2. request' \in [Requests -> Stages]
    BY DEF IInv, TypeOK, Stages
  <2>3. reservation' \in Requests \cup {NoRequest}
    BY DEF IInv, TypeOK
  <2>4. {defers, fired, patches, crashes}' \subseteq Nat
    BY DEF IInv, TypeOK
  <2>5. {past, record, paused, meddled, registered, armed, running, deferred}' \subseteq BOOLEAN
    BY DEF IInv, TypeOK
  <2>6. row' \in Rows /\ boot' \in Boots
    BY DEF IInv, TypeOK, Rows, Boots
  <2> QED BY <2>1, <2>2, <2>3, <2>4, <2>5, <2>6 DEF TypeOK, Stages, Rows, Boots
<1>2. Books'
  BY RequestsAssumption DEF IInv, TypeOK, Books, Reserved, Pending
<1>3. ASSUME ~meddled' PROVE Flag' /\ Fired' /\ Fence'
  <2>1. ~meddled /\ Flag /\ Fired /\ Fence
    BY <1>3 DEF IInv, TypeOK
  <2>2. Flag'
    BY <1>3, <2>1, RequestsAssumption DEF IInv, TypeOK, Books, Flag, Fired, Fence, Reserved, Pending, InFlight, Gone, Cancelled
  <2>3. Fired'
    BY <1>3, <2>1, RequestsAssumption DEF IInv, TypeOK, Books, Flag, Fired, Fence, Reserved, Pending, InFlight, Gone, Cancelled
  <2>4. (Reserved => Cancelled)'
    BY <1>3, <2>1, RequestsAssumption DEF IInv, TypeOK, Books, Flag, Fired, Fence, Reserved, Pending, InFlight, Gone, Cancelled
  <2>5. (record => Settled)'
    BY <1>3, <2>1, RequestsAssumption DEF IInv, TypeOK, Books, Flag, Fired, Fence, Settled, Reserved, Pending, InFlight, Gone, Cancelled
  <2>6. \A q \in Requests : (request[q] = "committing" => Cancelled /\ (reservation = q \/ Gone))'
    BY <1>3, <2>1, RequestsAssumption DEF IInv, TypeOK, Books, Flag, Fired, Fence, Reserved, Pending, InFlight, Gone, Cancelled
  <2> QED BY <2>2, <2>3, <2>4, <2>5, <2>6 DEF Fence
<1> QED BY <1>1, <1>2, <1>3 DEF IInv

LEMMA ListenIInv ==
  ASSUME IInv, Listen
  PROVE  IInv'
<1> USE DEF Listen, stored, runner, ghosts
<1>1. TypeOK'
  <2>1. runs' \in [{"timer", "manual"} -> Nat]
    BY DEF IInv, TypeOK
  <2>2. request' \in [Requests -> Stages]
    BY DEF IInv, TypeOK, Stages
  <2>3. reservation' \in Requests \cup {NoRequest}
    BY DEF IInv, TypeOK
  <2>4. {defers, fired, patches, crashes}' \subseteq Nat
    BY DEF IInv, TypeOK
  <2>5. {past, record, paused, meddled, registered, armed, running, deferred}' \subseteq BOOLEAN
    BY DEF IInv, TypeOK
  <2>6. row' \in Rows /\ boot' \in Boots
    BY DEF IInv, TypeOK, Rows, Boots
  <2> QED BY <2>1, <2>2, <2>3, <2>4, <2>5, <2>6 DEF TypeOK, Stages, Rows, Boots
<1>2. Books'
  BY RequestsAssumption DEF IInv, TypeOK, Books, Reserved, Pending
<1>3. ASSUME ~meddled' PROVE Flag' /\ Fired' /\ Fence'
  <2>1. ~meddled /\ Flag /\ Fired /\ Fence
    BY <1>3 DEF IInv, TypeOK
  <2>2. Flag'
    BY <1>3, <2>1, RequestsAssumption DEF IInv, TypeOK, Books, Flag, Fired, Fence, Reserved, Pending, InFlight, Gone, Cancelled
  <2>3. Fired'
    BY <1>3, <2>1, RequestsAssumption DEF IInv, TypeOK, Books, Flag, Fired, Fence, Reserved, Pending, InFlight, Gone, Cancelled
  <2>4. (Reserved => Cancelled)'
    BY <1>3, <2>1, RequestsAssumption DEF IInv, TypeOK, Books, Flag, Fired, Fence, Reserved, Pending, InFlight, Gone, Cancelled
  <2>5. (record => Settled)'
    BY <1>3, <2>1, RequestsAssumption DEF IInv, TypeOK, Books, Flag, Fired, Fence, Settled, Reserved, Pending, InFlight, Gone, Cancelled
  <2>6. \A q \in Requests : (request[q] = "committing" => Cancelled /\ (reservation = q \/ Gone))'
    BY <1>3, <2>1, RequestsAssumption DEF IInv, TypeOK, Books, Flag, Fired, Fence, Reserved, Pending, InFlight, Gone, Cancelled
  <2> QED BY <2>2, <2>3, <2>4, <2>5, <2>6 DEF Fence
<1> QED BY <1>1, <1>2, <1>3 DEF IInv

LEMMA RecoverIInv ==
  ASSUME IInv, Recover
  PROVE  IInv'
<1> USE DEF Recover, CleanUp, Unregister, stored, runner, ghosts
<1>1. TypeOK'
  <2>1. runs' \in [{"timer", "manual"} -> Nat]
    BY DEF IInv, TypeOK
  <2>2. request' \in [Requests -> Stages]
    BY DEF IInv, TypeOK, Stages
  <2>3. reservation' \in Requests \cup {NoRequest}
    BY DEF IInv, TypeOK
  <2>4. {defers, fired, patches, crashes}' \subseteq Nat
    BY DEF IInv, TypeOK
  <2>5. {past, record, paused, meddled, registered, armed, running, deferred}' \subseteq BOOLEAN
    BY DEF IInv, TypeOK
  <2>6. row' \in Rows /\ boot' \in Boots
    BY DEF IInv, TypeOK, Rows, Boots
  <2> QED BY <2>1, <2>2, <2>3, <2>4, <2>5, <2>6 DEF TypeOK, Stages, Rows, Boots
<1>2. Books'
  BY RequestsAssumption DEF IInv, TypeOK, Books, Reserved, Pending
<1>3. ASSUME ~meddled' PROVE Flag' /\ Fired' /\ Fence'
  <2>1. ~meddled /\ Flag /\ Fired /\ Fence
    BY <1>3 DEF IInv, TypeOK
  <2>2. Flag'
    BY <1>3, <2>1, RequestsAssumption DEF IInv, TypeOK, Books, Flag, Fired, Fence, Reserved, Pending, InFlight, Gone, Cancelled
  <2>3. Fired'
    BY <1>3, <2>1, RequestsAssumption DEF IInv, TypeOK, Books, Flag, Fired, Fence, Reserved, Pending, InFlight, Gone, Cancelled
  <2>4. (Reserved => Cancelled)'
    BY <1>3, <2>1, RequestsAssumption DEF IInv, TypeOK, Books, Flag, Fired, Fence, Reserved, Pending, InFlight, Gone, Cancelled
  <2>5. (record => Settled)'
    BY <1>3, <2>1, RequestsAssumption DEF IInv, TypeOK, Books, Flag, Fired, Fence, Settled, Reserved, Pending, InFlight, Gone, Cancelled
  <2>6. \A q \in Requests : (request[q] = "committing" => Cancelled /\ (reservation = q \/ Gone))'
    BY <1>3, <2>1, RequestsAssumption DEF IInv, TypeOK, Books, Flag, Fired, Fence, Reserved, Pending, InFlight, Gone, Cancelled
  <2> QED BY <2>2, <2>3, <2>4, <2>5, <2>6 DEF Fence
<1> QED BY <1>1, <1>2, <1>3 DEF IInv

LEMMA HydrateIInv ==
  ASSUME IInv, Hydrate
  PROVE  IInv'
<1> USE DEF Hydrate, Register, stored, runner, ghosts
<1>1. TypeOK'
  <2>1. runs' \in [{"timer", "manual"} -> Nat]
    BY DEF IInv, TypeOK
  <2>2. request' \in [Requests -> Stages]
    BY DEF IInv, TypeOK, Stages
  <2>3. reservation' \in Requests \cup {NoRequest}
    BY DEF IInv, TypeOK
  <2>4. {defers, fired, patches, crashes}' \subseteq Nat
    BY DEF IInv, TypeOK
  <2>5. {past, record, paused, meddled, registered, armed, running, deferred}' \subseteq BOOLEAN
    BY DEF IInv, TypeOK
  <2>6. row' \in Rows /\ boot' \in Boots
    BY DEF IInv, TypeOK, Rows, Boots
  <2> QED BY <2>1, <2>2, <2>3, <2>4, <2>5, <2>6 DEF TypeOK, Stages, Rows, Boots
<1>2. Books'
  BY RequestsAssumption DEF IInv, TypeOK, Books, Reserved, Pending
<1>3. ASSUME ~meddled' PROVE Flag' /\ Fired' /\ Fence'
  <2>1. ~meddled /\ Flag /\ Fired /\ Fence
    BY <1>3 DEF IInv, TypeOK
  <2>2. Flag'
    BY <1>3, <2>1, RequestsAssumption DEF IInv, TypeOK, Books, Flag, Fired, Fence, Reserved, Pending, InFlight, Gone, Cancelled
  <2>3. Fired'
    BY <1>3, <2>1, RequestsAssumption DEF IInv, TypeOK, Books, Flag, Fired, Fence, Reserved, Pending, InFlight, Gone, Cancelled
  <2>4. (Reserved => Cancelled)'
    BY <1>3, <2>1, RequestsAssumption DEF IInv, TypeOK, Books, Flag, Fired, Fence, Reserved, Pending, InFlight, Gone, Cancelled
  <2>5. (record => Settled)'
    BY <1>3, <2>1, RequestsAssumption DEF IInv, TypeOK, Books, Flag, Fired, Fence, Settled, Reserved, Pending, InFlight, Gone, Cancelled
  <2>6. \A q \in Requests : (request[q] = "committing" => Cancelled /\ (reservation = q \/ Gone))'
    BY <1>3, <2>1, RequestsAssumption DEF IInv, TypeOK, Books, Flag, Fired, Fence, Reserved, Pending, InFlight, Gone, Cancelled
  <2> QED BY <2>2, <2>3, <2>4, <2>5, <2>6 DEF Fence
<1> QED BY <1>1, <1>2, <1>3 DEF IInv

LEMMA StartIInv ==
  ASSUME IInv, Start
  PROVE  IInv'
<1> USE DEF Start, stored, runner, ghosts
<1>1. TypeOK'
  <2>1. runs' \in [{"timer", "manual"} -> Nat]
    BY DEF IInv, TypeOK
  <2>2. request' \in [Requests -> Stages]
    BY DEF IInv, TypeOK, Stages
  <2>3. reservation' \in Requests \cup {NoRequest}
    BY DEF IInv, TypeOK
  <2>4. {defers, fired, patches, crashes}' \subseteq Nat
    BY DEF IInv, TypeOK
  <2>5. {past, record, paused, meddled, registered, armed, running, deferred}' \subseteq BOOLEAN
    BY DEF IInv, TypeOK
  <2>6. row' \in Rows /\ boot' \in Boots
    BY DEF IInv, TypeOK, Rows, Boots
  <2> QED BY <2>1, <2>2, <2>3, <2>4, <2>5, <2>6 DEF TypeOK, Stages, Rows, Boots
<1>2. Books'
  BY RequestsAssumption DEF IInv, TypeOK, Books, Reserved, Pending
<1>3. ASSUME ~meddled' PROVE Flag' /\ Fired' /\ Fence'
  <2>1. ~meddled /\ Flag /\ Fired /\ Fence
    BY <1>3 DEF IInv, TypeOK
  <2>2. Flag'
    BY <1>3, <2>1, RequestsAssumption DEF IInv, TypeOK, Books, Flag, Fired, Fence, Reserved, Pending, InFlight, Gone, Cancelled
  <2>3. Fired'
    BY <1>3, <2>1, RequestsAssumption DEF IInv, TypeOK, Books, Flag, Fired, Fence, Reserved, Pending, InFlight, Gone, Cancelled
  <2>4. (Reserved => Cancelled)'
    BY <1>3, <2>1, RequestsAssumption DEF IInv, TypeOK, Books, Flag, Fired, Fence, Reserved, Pending, InFlight, Gone, Cancelled
  <2>5. (record => Settled)'
    BY <1>3, <2>1, RequestsAssumption DEF IInv, TypeOK, Books, Flag, Fired, Fence, Settled, Reserved, Pending, InFlight, Gone, Cancelled
  <2>6. \A q \in Requests : (request[q] = "committing" => Cancelled /\ (reservation = q \/ Gone))'
    BY <1>3, <2>1, RequestsAssumption DEF IInv, TypeOK, Books, Flag, Fired, Fence, Reserved, Pending, InFlight, Gone, Cancelled
  <2> QED BY <2>2, <2>3, <2>4, <2>5, <2>6 DEF Fence
<1> QED BY <1>1, <1>2, <1>3 DEF IInv

LEMMA NextIInv == IInv /\ [Next]_vars => IInv'
<1> SUFFICES ASSUME IInv, [Next]_vars PROVE IInv'
  OBVIOUS
<1>1. CASE Tick
  BY <1>1, TickBehindReservationIInv, TickDeferredIInv, TickPausedIInv, TickOverlappingIInv, TickRunsIInv DEF Tick
<1>2. CASE UNCHANGED vars
  BY <1>2 DEF vars, stored, runner, ghosts, IInv, TypeOK, Books, Flag, Fired, Fence, Settled, Reserved,
     InFlight, Gone, Cancelled
<1> QED
  BY <1>1, <1>2, HoldIInv, PassIInv, SwitchGloballyIInv, TriggerIInv, EndManualIInv, EndTimerIInv, WithdrawIInv, RetireByEventIInv, PauseIInv, ResumeIInv, AskIInv, ReserveIInv, CommitIInv, CommitFailsIInv, CommitHeardIInv, ReconcileIInv, CrashIInv, ListenIInv, RecoverIInv, HydrateIInv, StartIInv
  DEF Next

THEOREM Invariance == Spec => []IInv
<1> QED BY InitIInv, NextIInv, PTL DEF Spec

\* Type correctness of the wake, its runner and its cancellations.
THEOREM TypeCorrect == Spec => []TypeOK
<1>1. IInv => TypeOK BY DEF IInv
<1> QED BY <1>1, Invariance, PTL

\* No timer is left for a definition that is switched off: the callback's own check is redundant.
THEOREM TimersLive == Spec => []TimersAreLive
<1>1. IInv => TimersAreLive BY DEF IInv, Books, TimersAreLive
<1> QED BY <1>1, Invariance, PTL

\* A cancellation that is stored and a run exclude each other, for any number of requests and crashes.
THEOREM CancelOrRun == Spec => []OneWinner
<1>1. IInv => OneWinner
  BY DEF IInv, TypeOK, Fence, Settled, Cancelled, InFlight, OneWinner
<1> QED BY <1>1, Invariance, PTL

\* The timer starts at most one run of a wake, for any number of crashes.
THEOREM RunsOnce == Spec => []WokenOnce
<1>1. IInv => WokenOnce BY DEF IInv, TypeOK, Fired, WokenOnce
<1> QED BY <1>1, Invariance, PTL

\* The wake is cancelled or it wakes the cat, once.
THEOREM CancelledOrOnce == Spec => []CancelledOrWokenOnce
  BY CancelOrRun, RunsOnce, PTL DEF CancelledOrWokenOnce

\* No run starts after the cancellation is stored.
THEOREM CancellationHolds == Spec => CancelHolds
<1>1. IInv /\ [Next]_vars => [Begins => ~record \/ meddled]_vars
  <2>a. SUFFICES ASSUME IInv, Next, Begins, record, ~meddled PROVE FALSE
    BY DEF vars
  <2> USE DEF stored, runner, ghosts
  <2>0. /\ runs \in [{"timer", "manual"} -> Nat]
        /\ runs["timer"] \in Nat /\ runs["manual"] \in Nat
        /\ runs'["timer"] > runs["timer"] \/ runs'["manual"] > runs["manual"]
    BY <2>a DEF IInv, TypeOK, Begins
  <2>1. registered => Reserved
    BY <2>a DEF IInv, Fence, Settled
  <2>2. ~Trigger
    BY <2>1 DEF Trigger
  <2>3. ~Tick
    <3>1. ~(armed /\ TickRuns)
      BY <2>1, <2>a DEF IInv, Books, TickRuns
    <3>2. ~(TickBehindReservation \/ TickDeferred \/ TickPaused)
      BY <2>0 DEF TickBehindReservation, TickDeferred, TickPaused
    <3>3. ~TickOverlapping
      BY <2>0 DEF TickOverlapping
    <3> QED BY <3>1, <3>2, <3>3 DEF Tick
  <2>4. ~Hold
    BY <2>0 DEF Hold, Register
  <2>5. ~Pass
    BY <2>0 DEF Pass
  <2>6. ~SwitchGlobally
    BY <2>0 DEF SwitchGlobally
  <2>7. ~EndManual
    BY <2>0 DEF EndManual
  <2>8. ~EndTimer
    BY <2>0 DEF EndTimer, Retire
  <2>9. ~Withdraw
    BY <2>0 DEF Withdraw, Unregister
  <2>10. ~RetireByEvent
    BY <2>0 DEF RetireByEvent, Unregister
  <2>11. ~Pause
    BY <2>0 DEF Pause, Unregister
  <2>12. ~Resume
    BY <2>0 DEF Resume, Register
  <2>13. ~Crash
    BY <2>0 DEF Crash
  <2>14. ~Listen
    BY <2>0 DEF Listen
  <2>15. ~Recover
    BY <2>0 DEF Recover, CleanUp, Unregister
  <2>16. ~Hydrate
    BY <2>0 DEF Hydrate, Register
  <2>17. ~Start
    BY <2>0 DEF Start
  <2>18. \A r \in Requests : ~Ask(r)
    BY <2>0 DEF Ask
  <2>19. \A r \in Requests : ~Reserve(r)
    BY <2>0 DEF Reserve
  <2>20. \A r \in Requests : ~Commit(r)
    BY <2>0 DEF Commit
  <2>21. \A r \in Requests : ~CommitFails(r)
    BY <2>0 DEF CommitFails
  <2>22. \A r \in Requests : ~CommitHeard(r)
    BY <2>0 DEF CommitHeard, CleanUp, Unregister
  <2>23. \A r \in Requests : ~Reconcile(r)
    BY <2>0 DEF Reconcile, CleanUp, Unregister, Release
  <2> QED BY <2>a, <2>2, <2>3, <2>4, <2>5, <2>6, <2>7, <2>8, <2>9, <2>10, <2>11, <2>12, <2>13, <2>14, <2>15, <2>16, <2>17, <2>18, <2>19, <2>20, <2>21, <2>22, <2>23 DEF Next
<1> QED BY <1>1, Invariance, PTL DEF Spec, CancelHolds

-----------------------------------------------------------------------------
(* The wake is a one-shot wake. *)

\* What has become of the wake, without the order of the cases.
LEMMA Fates ==
  /\ \A n \in Nat : \A r : n > 0 => Fate(n, r) = "woken"
  /\ Fate(0, "unborn") = "unborn"
  /\ \A r \in {"enabled", "disabled"} : Fate(0, r) = "set"
  /\ \A r \in {"none", "retired"} : Fate(0, r) = "ended"
  BY DEF Fate

\* What the promise does not speak of.
Aside == UNCHANGED <<fired, record, meddled, runs>>

\* Who looks after the wake, and does not start or end a run, ends the wake or leaves it.
LEMMA AsideStep ==
  ASSUME IInv, Aside,
         \/ row' = row
         \/ row \in {"enabled", "disabled"} /\ row' \in {"enabled", "disabled", "none", "retired"}
  PROVE  [Wake!Next]_Wake!vars
<1>1. UNCHANGED <<record, meddled, InFlight>>
  BY DEF Aside, InFlight
<1>2. \/ Fate(fired, row)' = Fate(fired, row)
      \/ Fate(fired, row) = "set" /\ Fate(fired, row)' = "ended"
  <2>1. fired' = fired /\ fired \in Nat
    BY DEF IInv, TypeOK, Aside
  <2>2. CASE fired > 0
    BY <2>1, <2>2, Fates
  <2>3. CASE fired = 0
    BY <2>1, <2>3, Fates
  <2> QED BY <2>1, <2>2, <2>3
<1> QED BY <1>1, <1>2 DEF Wake!Next, Wake!End, Wake!vars

\* The timer's runs are counted.
Counted == runs["timer"] <= fired

LEMMA NextCounted ==
  ASSUME TypeOK, Counted, [Next]_vars
  PROVE  Counted'
<1> USE DEF stored, runner, ghosts
<1>1. /\ runs \in [{"timer", "manual"} -> Nat] /\ fired \in Nat
      /\ runs["timer"] \in Nat /\ runs["manual"] \in Nat /\ runs["timer"] <= fired
  BY DEF TypeOK, Counted
<1>2. CASE UNCHANGED <<runs, fired>>
  BY <1>1, <1>2 DEF Counted
<1>3. CASE TickRuns \/ Trigger
  BY <1>1, <1>3 DEF TickRuns, Trigger, Begin, Counted
<1>4. CASE EndManual \/ EndTimer
  BY <1>1, <1>4 DEF EndManual, EndTimer, Counted
<1>5. CASE Crash
  BY <1>1, <1>5 DEF Crash, Counted
<1>6. CASE Tick
  <2>1. TickRuns \/ UNCHANGED <<runs, fired>>
    BY <1>6 DEF Tick, TickBehindReservation, TickDeferred, TickPaused, TickOverlapping
  <2> QED BY <1>2, <1>3, <2>1
<1>7. Hold \/ Pass \/ SwitchGlobally \/ Listen \/ Start => UNCHANGED <<runs, fired>>
  BY DEF Hold, Register, Pass, SwitchGlobally, Listen, Start
<1>8. Withdraw \/ RetireByEvent \/ Pause \/ Resume => UNCHANGED <<runs, fired>>
  BY DEF Withdraw, RetireByEvent, Pause, Resume, Register, Unregister
<1>9. Recover \/ Hydrate => UNCHANGED <<runs, fired>>
  BY DEF Recover, Hydrate, CleanUp, Register, Unregister
<1>10. ASSUME NEW r \in Requests,
              Ask(r) \/ Reserve(r) \/ Commit(r) \/ CommitFails(r) \/ CommitHeard(r) \/ Reconcile(r)
       PROVE  UNCHANGED <<runs, fired>>
  <2>1. Ask(r) \/ Reserve(r) \/ Commit(r) \/ CommitFails(r) => UNCHANGED <<runs, fired>>
    BY DEF Ask, Reserve, Commit, CommitFails
  <2>2. CommitHeard(r) => UNCHANGED <<runs, fired>>
    BY DEF CommitHeard, CleanUp, Unregister
  <2>3. Reconcile(r) => UNCHANGED <<runs, fired>>
    BY DEF Reconcile, CleanUp, Unregister, Release
  <2> QED BY <1>10, <2>1, <2>2, <2>3
<1>11. CASE UNCHANGED vars
  BY <1>2, <1>11 DEF vars
<1> QED BY <1>2, <1>3, <1>4, <1>5, <1>6, <1>7, <1>8, <1>9, <1>10, <1>11 DEF Next

\* The steps that touch what is promised, one by one, as long as nobody meddled.
LEMMA HoldSets ==
  ASSUME IInv, ~meddled, Hold
  PROVE  Wake!Set
<1>1. fired = 0 /\ row = "unborn" /\ row' = "enabled" /\ UNCHANGED <<fired, record, meddled, runs>>
  BY DEF Hold, Register, IInv, Flag, ghosts
<1>2. UNCHANGED InFlight
  BY <1>1 DEF InFlight
<1> QED BY <1>1, <1>2, Fates DEF Wake!Set

\* What is known, not held and not flagged can be started: it is set, not taken back, and nothing runs.
LEMMA MayStart ==
  ASSUME IInv, ~meddled, registered, ~Reserved, ~running
  PROVE  fired = 0 /\ row = "enabled" /\ ~record /\ InFlight = 0
<1>1. row = "enabled" /\ ~record
  BY DEF IInv, Flag, Fence, Settled
<1>2. InFlight = 0
  BY DEF IInv, TypeOK, Flag, InFlight
<1>3. boot \notin {"down", "listening", "recovered"}
  BY DEF IInv, Flag
<1>4. runs["timer"] = 0
  BY <1>2 DEF IInv, TypeOK, InFlight
<1>5. fired = 0
  BY <1>3, <1>4 DEF IInv, TypeOK, Fired, Gone
<1> QED BY <1>1, <1>2, <1>5

LEMMA StartsRun ==
  ASSUME IInv, ~meddled, (armed /\ TickRuns) \/ Trigger
  PROVE  Wake!Run
<1>1. registered /\ ~Reserved /\ ~running
  BY DEF IInv, Books, TickRuns, Trigger
<1>2. fired = 0 /\ row = "enabled" /\ ~record /\ InFlight = 0
  BY <1>1, MayStart
<1>3. /\ UNCHANGED <<row, record, meddled>>
      /\ runs \in [{"timer", "manual"} -> Nat] /\ runs["timer"] \in Nat /\ runs["manual"] \in Nat
      /\ \/ fired' = 1 /\ runs' = [runs EXCEPT !["timer"] = @ + 1]
         \/ fired' = 0 /\ runs' = [runs EXCEPT !["manual"] = @ + 1]
  BY <1>2 DEF TickRuns, Trigger, Begin, stored, IInv, TypeOK
<1>4. InFlight' > 0
  BY <1>3 DEF InFlight
<1>5. Fate(fired, row) = "set" /\ Fate(fired, row)' \in {"set", "woken"}
  BY <1>2, <1>3, Fates
<1> QED BY <1>2, <1>3, <1>4, <1>5 DEF Wake!Run

LEMMA EndsRun ==
  ASSUME IInv, Counted, ~meddled, EndManual \/ EndTimer
  PROVE  Wake!Finish
<1>1. /\ runs \in [{"timer", "manual"} -> Nat] /\ runs["timer"] \in Nat /\ runs["manual"] \in Nat
      /\ fired \in Nat /\ runs["timer"] + runs["manual"] <= 1
  BY DEF IInv, TypeOK, Flag, InFlight
<1>2. UNCHANGED <<fired, record, meddled>>
  BY DEF EndManual, EndTimer, stored, ghosts
<1>3. InFlight > 0 /\ ~(InFlight' > 0)
  BY <1>1 DEF EndManual, EndTimer, InFlight
<1>4. row' = row \/ fired > 0
  BY <1>1 DEF EndManual, EndTimer, stored, Counted
<1>5. UNCHANGED Fate(fired, row)
  BY <1>1, <1>2, <1>4, Fates
<1> QED BY <1>2, <1>3, <1>5 DEF Wake!Finish

LEMMA CommitCancels ==
  ASSUME IInv, ~meddled, NEW r \in Requests, Commit(r)
  PROVE  Wake!Cancel
<1>1. UNCHANGED <<row, fired, meddled, runs>> /\ record' = TRUE
  BY DEF Commit, runner, ghosts
<1>2. fired = 0 /\ InFlight = 0 /\ (reservation = r \/ Gone)
  BY DEF Commit, IInv, Fence, Cancelled
<1>3. row \in {"enabled", "none", "retired"}
  BY <1>2, RequestsAssumption DEF IInv, Flag, Books, Reserved, Gone
<1>4. UNCHANGED <<InFlight, Fate(fired, row)>>
  BY <1>1 DEF InFlight
<1>5. Fate(fired, row) \in {"set", "ended"}
  BY <1>2, <1>3, Fates
<1> QED BY <1>1, <1>2, <1>4, <1>5 DEF Wake!Cancel

LEMMA CrashEndsRun ==
  ASSUME Crash
  PROVE  Wake!Finish \/ UNCHANGED Wake!vars
<1>1. UNCHANGED <<row, record, fired, meddled>> /\ ~(InFlight' > 0)
  BY DEF Crash, stored, InFlight
<1> QED BY <1>1 DEF Wake!Finish, Wake!vars

LEMMA LeavesAside ==
  ASSUME IInv, ~meddled', Next
  PROVE  \/ Aside /\ \/ row' = row
                     \/ row \in {"enabled", "disabled"}
                          /\ row' \in {"enabled", "disabled", "none", "retired"}
         \/ Hold \/ (armed /\ TickRuns) \/ Trigger \/ EndManual \/ EndTimer \/ Crash
         \/ \E r \in Requests : Commit(r)
<1> DEFINE Known == {"enabled", "disabled"}
           Ends == row \in Known /\ row' \in Known \cup {"none", "retired"}
           Leaves == Aside /\ (row' = row \/ Ends)
<1> USE DEF stored, runner, ghosts, Aside
<1>1. Pass \/ SwitchGlobally \/ Listen => Leaves
  BY DEF Pass, SwitchGlobally, Listen
<1>2. Start => Leaves
  BY DEF IInv, TypeOK, Start
<1>3. Tick => Leaves \/ (armed /\ TickRuns)
  <2>1. armed => row \in {"enabled", "none"}
    BY DEF IInv, Books
  <2>2. armed /\ TickOverlapping => Leaves
    BY <2>1 DEF TickOverlapping, Retire
  <2>3. TickBehindReservation \/ TickDeferred \/ TickPaused => Leaves
    BY DEF TickBehindReservation, TickDeferred, TickPaused
  <2> QED BY <2>2, <2>3 DEF Tick
<1>4. Withdraw \/ RetireByEvent => Leaves
  BY DEF Withdraw, RetireByEvent, Pending, Unregister
<1>5. Pause \/ Resume => Leaves
  BY DEF IInv, TypeOK, Pause, Resume, Register, Unregister
<1>6. Recover => Leaves
  BY DEF Recover, CleanUp, Pending, Unregister
<1>7. Hydrate => Leaves
  BY DEF Hydrate, Pending, Register
<1>8. ASSUME NEW r \in Requests PROVE
        /\ Ask(r) \/ Reserve(r) \/ CommitFails(r) => Leaves
        /\ CommitHeard(r) => Leaves
        /\ Reconcile(r) => Leaves
  <2>1. Ask(r) \/ Reserve(r) \/ CommitFails(r) => Leaves
    BY DEF Ask, Reserve, CommitFails
  <2>2. CommitHeard(r) => Leaves
    BY DEF CommitHeard, CleanUp, Pending, Unregister
  <2>3. Reconcile(r) => Leaves
    BY DEF Reconcile, CleanUp, Pending, Unregister, Release
  <2> QED BY <2>1, <2>2, <2>3
<1> HIDE DEF Leaves
<1>9. \/ Leaves \/ Hold \/ (armed /\ TickRuns) \/ Trigger \/ EndManual \/ EndTimer \/ Crash
      \/ \E r \in Requests : Commit(r)
  BY <1>1, <1>2, <1>3, <1>4, <1>5, <1>6, <1>7, <1>8 DEF Next
<1> QED BY <1>9 DEF Leaves

\* Whoever meddles leaves the rest of the promise alone, and it is never forgotten.
LEMMA Meddling ==
  ASSUME TypeOK, Next, meddled \/ meddled'
  PROVE  Wake!Disturb
<1> USE DEF stored, runner, ghosts
<1>1. Pause \/ Resume \/ Start \/ UNCHANGED meddled
  <2>1. Tick => UNCHANGED meddled
    BY DEF Tick, TickBehindReservation, TickDeferred, TickPaused, TickOverlapping, TickRuns
  <2>2. Hold \/ Pass \/ SwitchGlobally \/ Trigger \/ EndManual \/ EndTimer => UNCHANGED meddled
    BY DEF Hold, Pass, SwitchGlobally, Trigger, EndManual, EndTimer
  <2>3. Withdraw \/ RetireByEvent \/ Crash \/ Listen \/ Recover \/ Hydrate => UNCHANGED meddled
    BY DEF Withdraw, RetireByEvent, Crash, Listen, Recover, Hydrate
  <2>4. \A r \in Requests :
          Ask(r) \/ Reserve(r) \/ Commit(r) \/ CommitFails(r) \/ CommitHeard(r) \/ Reconcile(r)
            => UNCHANGED meddled
    BY DEF Ask, Reserve, Commit, CommitFails, CommitHeard, Reconcile
  <2> QED BY <2>1, <2>2, <2>3, <2>4 DEF Next
<1>2. ASSUME Pause \/ Resume \/ Start PROVE UNCHANGED <<Fate(fired, row), record, InFlight>>
  <2>1. UNCHANGED <<fired, record, runs>>
    BY <1>2 DEF Pause, Resume, Start, Register, Unregister
  <2>2. row' = row \/ {row, row'} \subseteq {"enabled", "disabled"}
    BY <1>2 DEF Pause, Resume, Start
  <2>3. UNCHANGED Fate(fired, row)
    <3>1. CASE row' = row
      BY <2>1, <3>1
    <3>2. CASE {row, row'} \subseteq {"enabled", "disabled"}
      <4>1. fired \in Nat
        BY DEF TypeOK
      <4>2. CASE fired > 0
        BY <2>1, <4>1, <4>2, Fates
      <4>3. CASE fired = 0
        BY <2>1, <3>2, <4>3, Fates
      <4> QED BY <4>1, <4>2, <4>3
    <3> QED BY <2>2, <3>1, <3>2
  <2> QED BY <2>1, <2>3 DEF InFlight
<1>3. meddled => meddled'
  BY <1>1 DEF TypeOK, Pause, Resume, Start
<1> QED BY <1>1, <1>2, <1>3 DEF Wake!Disturb

\* A hold's wake is spent once, by a run, a cancellation or another end, and no run meets another one,
\* a cancellation or the end: the task, its runner, the store of the terminations and the boot
\* sequence implement OneShotWake, for any requests and bounds.
THEOREM HoldIsOneShotWake == Spec => IsOneShotWake
<1>1. Init => Wake!Init
  BY Fates DEF Init, Wake!Init, InFlight
<1>2. IInv /\ Counted /\ [Next]_vars => [Wake!Next]_Wake!vars
  <2> SUFFICES ASSUME IInv, Counted, [Next]_vars PROVE [Wake!Next]_Wake!vars
    OBVIOUS
  <2>1. CASE UNCHANGED vars
    BY <2>1 DEF vars, stored, ghosts, runner, Wake!vars, InFlight
  <2>2. CASE Next /\ (meddled \/ meddled')
    <3>1. TypeOK
      BY DEF IInv
    <3> QED BY <2>2, <3>1, Meddling DEF Wake!Next
  <2>3. CASE Next /\ ~meddled /\ ~meddled'
    <3>1. \/ Aside /\ \/ row' = row
                      \/ row \in {"enabled", "disabled"}
                           /\ row' \in {"enabled", "disabled", "none", "retired"}
          \/ Hold \/ (armed /\ TickRuns) \/ Trigger \/ EndManual \/ EndTimer \/ Crash
          \/ \E r \in Requests : Commit(r)
      BY <2>3, LeavesAside
    <3> QED BY <2>3, <3>1, AsideStep, HoldSets, StartsRun, EndsRun, CommitCancels, CrashEndsRun DEF Wake!Next
  <2> QED BY <2>1, <2>2, <2>3
<1>3. Init => Counted
  BY DEF Init, Counted
<1>4. Spec => []Counted
  <2>1. IInv /\ Counted /\ [Next]_vars => Counted'
    BY NextCounted DEF IInv
  <2> QED BY <1>3, <2>1, Invariance, PTL DEF Spec
<1> QED BY <1>1, <1>2, <1>4, Invariance, PTL DEF Spec, Wake!Spec, IsOneShotWake
=============================================================================
