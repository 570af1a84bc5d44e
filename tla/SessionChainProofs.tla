-------------------------- MODULE SessionChainProofs --------------------------
(***************************************************************************)
(* Proofs about SessionChain, for any finalizers, reapers and proposals    *)
(* and any bounds.                                                         *)
(*                                                                         *)
(* The invariant has two halves.  Of the chain it says what a terminal     *)
(* write that is still in flight may find: a session that is being sealed, *)
(* or one that was restored under it.  Of the hand-over it says, step by   *)
(* step, what an approval knows of the seal it asked for; the recovery     *)
(* relies on the reason and the note of the session, so that it matters    *)
(* that no other proposal is open on the session meanwhile.                *)
(***************************************************************************)
EXTENDS SessionChain, WellFoundedInduction, TLAPS

\* A restore in flight has a target.
RestoreOK == unseal.target = NoSession => unseal = NoRestore

\* The reason of a seal is there from its request to its restore.
ReasonKept ==
  \A s \in Sessions : status[s] \in {"none", "active"} => reason[s] = "none"

\* A terminal write meets what it saw, unless a restore came in between.
WritesMeetSeals ==
  \A o \in Ops : op[o] # Idle =>
    status[op[o].session] \in {"sealing", "sealed"} \/ op[o].session \in overlooked

ChainInv == RestoreOK /\ ReasonKept /\ WritesMeetSeals /\ ActiveIsNamed /\ SealHasReason

Open(p) == proposal[p].status \in {"pending", "approving"}

\* A proposal has a session, and an approval under way a proposal that was claimed.
ProposalOK ==
  \A p \in Proposals :
    /\ proposal[p].status # "none" => proposal[p].session # NoSession
    /\ txn[p] # "idle" => proposal[p].status = "approving"

\* A session has at most one open proposal, and until the seal is its own it is no hand-over's.
OneOpen ==
  \A p, q \in Proposals :
    Open(p) /\ Open(q) /\ proposal[p].session = proposal[q].session => p = q
NotYetSealed ==
  \A p \in Proposals : Open(p) /\ p \notin accepted => reason[proposal[p].session] # "handoff"

\* What is done only after the seal was accepted, and what only before.
OnlyAfterSeal ==
  \A p \in Proposals :
    (\/ txn[p] \in {"accepted", "recorded", "enqueued"} \/ proposal[p].sealed
     \/ proposal[p].status = "approved" \/ p \in queued)
      => p \in accepted
OnlyBeforeSeal ==
  \A p \in accepted :
    /\ proposal[p].status \in {"approving", "approved", "expired"}
    /\ txn[p] \notin {"claimed", "checked", "noted"}

\* An accepted seal stands, with its reason or a reaper's, until the user restores the session.
SealStands ==
  \A p \in accepted :
    LET s == proposal[p].session IN
      s \in restored \/ (status[s] \in {"sealing", "sealed"} /\ reason[s] \in {"handoff", "reaped"})

\* The note on the record is the one of the approval under way.
NoteStands ==
  \A p \in Proposals :
    txn[p] = "noted" \/ (p \in accepted /\ Open(p)) => note[proposal[p].session] = {p}

\* An approval whose seal was accepted is given up only for a reaper or a restore.
GivenUp ==
  \A p \in accepted :
    LET s == proposal[p].session IN
      txn[p] = "expire" \/ proposal[p].status = "expired" => reason[s] = "reaped" \/ s \in restored

HandoffInv ==
  /\ ProposalOK /\ OneOpen /\ NotYetSealed /\ OnlyAfterSeal /\ OnlyBeforeSeal
  /\ SealStands /\ NoteStands /\ GivenUp

IInv == TypeOK /\ ChainInv /\ HandoffInv

\* The type invariant in the two halves, and what is left of it.
ChainTypeOK ==
  /\ status \in [Sessions -> Statuses] /\ reason \in [Sessions -> Reasons]
  /\ \A s, t \in Sessions : t < s /\ status[s] # "none" => status[t] # "none"
  /\ pointer \in Sessions \cup {NoSession}
  /\ op \in [Ops -> OpStates]
  /\ \A o \in Ops : op[o] = Idle \/ (op[o].step # "idle" /\ op[o].session # NoSession
                                     /\ status[op[o].session] # "none")
  /\ unseal \in [target : Sessions \cup {NoSession}, displaces : Sessions \cup {NoSession}]
  /\ restored \subseteq Sessions /\ superseded \subseteq Sessions /\ overlooked \subseteq Sessions
HandoffTypeOK ==
  /\ proposal \in [Proposals -> [status : ProposalStatuses, session : Sessions \cup {NoSession},
                                 sealed : BOOLEAN]]
  /\ note \in [Sessions -> SUBSET Proposals]
  /\ txn \in [Proposals -> Steps] /\ queued \subseteq Proposals /\ accepted \subseteq Proposals
BoundsOK ==
  busy \in BOOLEAN /\ replacing \in BOOLEAN /\ faults \in 0..MaxFaults /\ restores \in 0..MaxRestores

ChainOK == ChainTypeOK /\ ChainInv
HandoffOK == HandoffTypeOK /\ HandoffInv

LEMMA Halves == IInv <=> ChainOK /\ HandoffOK /\ BoundsOK
  BY DEF IInv, TypeOK, ChainOK, HandoffOK, ChainTypeOK, HandoffTypeOK, BoundsOK

LEMMA InitIInv == Init => IInv
<1> SUFFICES ASSUME Init PROVE IInv OBVIOUS
<1>1. ChainOK
  BY DEF Init, ChainOK, ChainTypeOK, ChainInv, Statuses, Reasons, OpStates, Idle, NoSession, NoRestore,
         RestoreOK, ReasonKept, WritesMeetSeals, ActiveIsNamed, SealHasReason
<1>2. HandoffTypeOK
  BY DEF Init, HandoffTypeOK, NoProposal, NoSession, ProposalStatuses, Steps
<1>3. HandoffInv
  BY DEF Init, HandoffInv, NoProposal, ProposalOK, OneOpen, NotYetSealed, OnlyAfterSeal,
         OnlyBeforeSeal, SealStands, NoteStands, GivenUp, Open
<1>4. BoundsOK
  <2>1. MaxFaults \in Nat /\ MaxRestores \in Nat
    BY BoundsAssumption
  <2>2. faults \in 0..MaxFaults /\ restores \in 0..MaxRestores
    BY <2>1 DEF Init
  <2>3. busy \in BOOLEAN /\ replacing \in BOOLEAN
    BY Zenon DEF Init
  <2> QED BY <2>2, <2>3 DEF BoundsOK
<1> QED BY <1>1, <1>2, <1>3, <1>4, Halves DEF HandoffOK

-----------------------------------------------------------------------------
(* The current session, and what the steps on the chain do.                *)

\* getActive finds an active session if there is one: its own, or the newest.
LEMMA CurrentIsActive ==
  ASSUME ChainTypeOK
  PROVE  /\ Active = {} => Current = NoSession
         /\ Active # {} => Current \in Active
         /\ pointer \in Active => Current = pointer
<1>1. ASSUME Active # {} PROVE \E s \in Active : \A t \in Active : t <= s
  <2> DEFINE Below == {MaxSessions - s : s \in Active}
  <2>1. /\ MaxSessions \in Nat
        /\ \A s \in Active : s \in 1..MaxSessions
    BY BoundsAssumption DEF Active, Sessions
  <2>2. Below \subseteq Nat /\ Below # {}
    BY <1>1, <2>1
  <2>3. PICK x \in Below : \A y \in Below : <<y, x>> \notin OpToRel(<, Nat)
    <3> HIDE DEF Below
    <3> QED BY <2>2, NatLessThanWellFounded, WFMin
  <2>4. PICK s \in Active : x = MaxSessions - s
    OBVIOUS
  <2>5. ASSUME NEW t \in Active PROVE t <= s
    <3>1. MaxSessions - t \in Below /\ MaxSessions - t \in Nat /\ MaxSessions - s \in Nat
      BY <2>1
    <3>2. ~(MaxSessions - t < MaxSessions - s)
      BY <2>3, <2>4, <3>1 DEF OpToRel
    <3> QED BY <2>1, <3>1, <3>2
  <2> QED BY <2>5
<1>2. Active = {} => pointer \notin Active
  OBVIOUS
<1> QED BY <1>1, <1>2 DEF Current

\* The repair of the index keeps the chain in order.
LEMMA RepairKeepsChain ==
  ASSUME ChainOK, pointer' = Current \/ pointer' = pointer,
         UNCHANGED <<status, reason, op, unseal, restored, superseded, overlooked>>
  PROVE  ChainOK'
<1>1. Current \in Sessions \cup {NoSession}
  BY CurrentIsActive DEF ChainOK, Active
<1>2. ChainTypeOK'
  BY <1>1 DEF ChainOK, ChainTypeOK
<1>3. ActiveIsNamed'
  BY CurrentIsActive DEF ChainOK, ChainInv, ActiveIsNamed, Active
<1> QED BY <1>2, <1>3 DEF ChainOK, ChainInv, RestoreOK, ReasonKept, WritesMeetSeals, SealHasReason

\* A new session takes the index; the one that had it is superseded.
LEMMA CreateKeepsChain ==
  ASSUME ChainOK, Create, UNCHANGED <<op, unseal, restored, overlooked>>
  PROVE  ChainOK'
<1>1. PICK s \in Sessions :
        /\ status[s] = "none" /\ \A t \in Sessions : t < s => status[t] # "none"
        /\ status' = [status EXCEPT ![s] = "active"]
        /\ pointer' = s
        /\ superseded' = superseded \cup ({pointer} \cap Active)
        /\ UNCHANGED reason
  BY DEF Create
<1>2. /\ status \in [Sessions -> Statuses] /\ reason \in [Sessions -> Reasons]
      /\ status'[s] = "active"
      /\ \A t \in Sessions \ {s} : status'[t] = status[t]
      /\ \A o \in Ops : op[o] # Idle => op[o].session \in Sessions \ {s}
  BY <1>1 DEF ChainOK, ChainTypeOK, OpStates, NoSession
<1>3. ChainTypeOK'
  <2>1. status' \in [Sessions -> Statuses]
    BY <1>1, <1>2 DEF Statuses
  <2>2. \A u, t \in Sessions : t < u /\ status'[u] # "none" => status'[t] # "none"
    <3> SUFFICES ASSUME NEW u \in Sessions, NEW t \in Sessions, t < u, status'[u] # "none"
                 PROVE  status'[t] # "none"
      OBVIOUS
    <3>1. \A v, w \in Sessions : w < v /\ status[v] # "none" => status[w] # "none"
      BY DEF ChainOK, ChainTypeOK
    <3>2. CASE u = s
      BY <1>1, <1>2, <3>2
    <3>3. CASE u # s
      BY <1>2, <3>1, <3>3
    <3> QED BY <3>2, <3>3
  <2>3. superseded' \subseteq Sessions
    BY <1>1 DEF ChainOK, ChainTypeOK, Active
  <2>4. \A o \in Ops : op[o] = Idle \/ status'[op[o].session] # "none"
    BY <1>2 DEF ChainOK, ChainTypeOK
  <2> QED BY <1>1, <2>1, <2>2, <2>3, <2>4 DEF ChainOK, ChainTypeOK
<1>4. ReasonKept' /\ SealHasReason' /\ RestoreOK'
  BY <1>1, <1>2 DEF ChainOK, ChainInv, ReasonKept, SealHasReason, RestoreOK
<1>5. WritesMeetSeals'
  BY <1>2 DEF ChainOK, ChainInv, WritesMeetSeals
<1>6. ActiveIsNamed'
  BY <1>1, <1>2 DEF ChainOK, ChainInv, ActiveIsNamed, Active
<1> QED BY <1>3, <1>4, <1>5, <1>6 DEF ChainOK, ChainInv

LEMMA GetOrCreateKeepsChain ==
  ASSUME ChainOK, GetOrCreate, UNCHANGED <<op, unseal, restored, overlooked>>
  PROVE  ChainOK'
  BY CreateKeepsChain, RepairKeepsChain DEF GetOrCreate

\* An accepted seal takes the session out of the index.
LEMMA SealingKeepsChain ==
  ASSUME ChainOK, NEW s \in Sessions, CanSeal(s), NEW why \in {"other", "handoff"}, SealingAs(s, why),
         UNCHANGED <<op, unseal, restored, superseded, overlooked>>
  PROVE  ChainOK'
<1>1. /\ status \in [Sessions -> Statuses] /\ reason \in [Sessions -> Reasons]
      /\ status'[s] = "sealing" /\ reason'[s] = why
      /\ \A t \in Sessions \ {s} : status'[t] = status[t] /\ reason'[t] = reason[t]
      /\ \A t \in Sessions : status'[t] = "none" <=> status[t] = "none"
  BY DEF ChainOK, ChainTypeOK, SealingAs, CanSeal
<1>2. \A o \in Ops : op[o] # Idle => op[o].session \in Sessions
  BY DEF ChainOK, ChainTypeOK, OpStates
<1>3. ChainTypeOK'
  <2>1. status' \in [Sessions -> Statuses] /\ reason' \in [Sessions -> Reasons]
    BY <1>1 DEF SealingAs, Statuses, Reasons
  <2>2. pointer' \in Sessions \cup {NoSession}
    BY DEF SealingAs, ChainOK, ChainTypeOK
  <2>3. \A o \in Ops : op[o] = Idle \/ status'[op[o].session] # "none"
    BY <1>1, <1>2 DEF ChainOK, ChainTypeOK
  <2> QED BY <1>1, <2>1, <2>2, <2>3 DEF ChainOK, ChainTypeOK
<1>4. ReasonKept' /\ SealHasReason' /\ RestoreOK'
  BY <1>1 DEF ChainOK, ChainInv, ReasonKept, SealHasReason, RestoreOK
<1>5. WritesMeetSeals'
  BY <1>1, <1>2 DEF ChainOK, ChainInv, WritesMeetSeals
<1>6. ActiveIsNamed'
  BY <1>1 DEF ChainOK, ChainInv, ActiveIsNamed, SealingAs
<1> QED BY <1>3, <1>4, <1>5, <1>6 DEF ChainOK, ChainInv

\* An operation that takes a sealing session in hand, goes on with it or gives it up.
LEMMA OpKeepsChain ==
  ASSUME ChainOK, NEW o \in Ops, NEW new \in OpStates, op' = [op EXCEPT ![o] = new],
         \/ new = Idle
         \/ /\ new.step # "idle" /\ new.session # NoSession
            /\ \/ status[new.session] = "sealing"
               \/ op[o] # Idle /\ new.session = op[o].session,
         \/ UNCHANGED pointer
         \/ op[o] # Idle /\ pointer = op[o].session /\ pointer' = NoSession,
         UNCHANGED <<status, reason, unseal, restored, superseded, overlooked>>
  PROVE  ChainOK'
<1>1. op \in [Ops -> OpStates] /\ op'[o] = new /\ \A q \in Ops \ {o} : op'[q] = op[q]
  BY DEF ChainOK, ChainTypeOK
<1>2. ChainTypeOK'
  <2>1. op' \in [Ops -> OpStates] /\ pointer' \in Sessions \cup {NoSession}
    BY <1>1 DEF ChainOK, ChainTypeOK
  <2>2. \A q \in Ops : op'[q] = Idle \/ (op'[q].step # "idle" /\ op'[q].session # NoSession
                                         /\ status'[op'[q].session] # "none")
    BY <1>1 DEF ChainOK, ChainTypeOK
  <2> QED BY <2>1, <2>2 DEF ChainOK, ChainTypeOK
<1>3. WritesMeetSeals'
  BY <1>1 DEF ChainOK, ChainInv, WritesMeetSeals
<1>4. ActiveIsNamed'
  BY DEF ChainOK, ChainInv, ActiveIsNamed, WritesMeetSeals
<1> QED BY <1>2, <1>3, <1>4 DEF ChainOK, ChainInv, RestoreOK, ReasonKept, SealHasReason

\* A terminal write, on whatever has become of the session.
LEMMA WriteKeepsChain ==
  ASSUME ChainOK, NEW o \in Ops, Write(o)
  PROVE  ChainOK'
<1> DEFINE s == op[o].session
<1>1. /\ status \in [Sessions -> Statuses] /\ reason \in [Sessions -> Reasons]
      /\ op \in [Ops -> OpStates] /\ op[o] # Idle /\ s \in Sessions /\ status[s] # "none"
      /\ status[s] \in {"sealing", "sealed"} \/ s \in overlooked
  BY DEF Write, Idle, ChainOK, ChainTypeOK, ChainInv, WritesMeetSeals, OpStates
<1>2. /\ status' = [status EXCEPT ![s] = "sealed"]
      /\ reason' = (IF o \in Reapers THEN [reason EXCEPT ![s] = "reaped"] ELSE reason)
      /\ op' = [op EXCEPT ![o] = Idle]
      /\ UNCHANGED <<pointer, unseal, restored, superseded, overlooked>>
  BY DEF Write, history
<1> HIDE DEF s
<1>3. /\ status'[s] = "sealed" /\ \A t \in Sessions \ {s} : status'[t] = status[t]
      /\ reason'[s] = reason[s] \/ reason'[s] = "reaped"
      /\ \A t \in Sessions \ {s} : reason'[t] = reason[t]
      /\ \A q \in Ops : op'[q] = Idle \/ op'[q] = op[q]
  BY <1>1, <1>2
<1>4. ChainTypeOK'
  <2>1. status' \in [Sessions -> Statuses] /\ reason' \in [Sessions -> Reasons]
    BY <1>1, <1>2 DEF Statuses, Reasons
  <2>2. op' \in [Ops -> OpStates]
    BY <1>1, <1>2 DEF Idle, OpStates
  <2>3. \A q \in Ops : op'[q] = Idle \/ (op'[q].step # "idle" /\ op'[q].session # NoSession
                                         /\ status'[op'[q].session] # "none")
    BY <1>1, <1>3 DEF ChainOK, ChainTypeOK, OpStates
  <2>4. \A u, t \in Sessions : t < u /\ status'[u] # "none" => status'[t] # "none"
    BY <1>1, <1>3 DEF ChainOK, ChainTypeOK
  <2> QED BY <1>2, <2>1, <2>2, <2>3, <2>4 DEF ChainOK, ChainTypeOK
<1>5. ReasonKept' /\ SealHasReason' /\ RestoreOK'
  BY <1>1, <1>2, <1>3 DEF ChainOK, ChainInv, ReasonKept, SealHasReason, RestoreOK
<1>6. WritesMeetSeals'
  BY <1>1, <1>2, <1>3 DEF ChainOK, ChainTypeOK, ChainInv, WritesMeetSeals, OpStates
<1>7. ActiveIsNamed'
  BY <1>2, <1>3 DEF ChainOK, ChainInv, ActiveIsNamed
<1> QED BY <1>4, <1>5, <1>6, <1>7 DEF ChainOK, ChainInv

\* The restore that finds what was confirmed.
LEMMA RestoreKeepsChain ==
  ASSUME ChainOK, Restore
  PROVE  ChainOK'
<1> DEFINE t == unseal.target
           d == unseal.displaces
<1>0. /\ unseal \in [target : Sessions \cup {NoSession}, displaces : Sessions \cup {NoSession}]
      /\ unseal # NoRestore /\ t \in Sessions /\ d \in Sessions \cup {NoSession}
      /\ unseal' = NoRestore
      /\ UNCHANGED <<op, superseded>>
  BY DEF Restore, ChainOK, ChainTypeOK, ChainInv, RestoreOK
<1>1. CASE ~AsConfirmed
  <2>1. UNCHANGED <<status, reason, pointer, restored, overlooked>>
    BY <1>1 DEF Restore, chain
  <2>2. ChainTypeOK'
    BY <1>0, <2>1 DEF ChainOK, ChainTypeOK, NoRestore
  <2> QED BY <1>0, <2>1, <2>2
          DEF ChainOK, ChainInv, RestoreOK, ReasonKept, WritesMeetSeals, ActiveIsNamed, SealHasReason
<1>2. CASE AsConfirmed
  <2>1. /\ status' = [s \in Sessions |-> IF s = t THEN "active"
                                         ELSE IF s = d THEN "sealing" ELSE status[s]]
        /\ reason' = [s \in Sessions |-> IF s = t THEN "none"
                                         ELSE IF s = d THEN "other" ELSE reason[s]]
        /\ pointer' = t
        /\ restored' = restored \cup {t}
        /\ overlooked' = overlooked \cup {s \in {t} : \E o \in Ops : op[o].session = s}
    BY <1>2 DEF Restore
  <2>2. /\ status[t] = "sealed" /\ pointer = d
        /\ d \in Sessions => status[d] = "active" /\ d # t
    BY <1>0, <1>2 DEF AsConfirmed, NoSession, Sessions
  <2> HIDE DEF t, d
  <2>3. /\ status \in [Sessions -> Statuses] /\ reason \in [Sessions -> Reasons]
        /\ \A s \in Sessions : status'[s] = "none" <=> status[s] = "none"
    BY <2>1, <2>2 DEF ChainOK, ChainTypeOK
  <2>4. ChainTypeOK'
    <3>1. status' \in [Sessions -> Statuses] /\ reason' \in [Sessions -> Reasons]
      BY <2>1, <2>3 DEF Statuses, Reasons
    <3>2. restored' \subseteq Sessions /\ overlooked' \subseteq Sessions
      BY <1>0, <2>1 DEF ChainOK, ChainTypeOK
    <3>3. \A o \in Ops : op'[o] = Idle \/ (op'[o].step # "idle" /\ op'[o].session # NoSession
                                           /\ status'[op'[o].session] # "none")
      BY <1>0, <2>3 DEF ChainOK, ChainTypeOK, OpStates
    <3>4. \A u, v \in Sessions : v < u /\ status'[u] # "none" => status'[v] # "none"
      BY <2>3 DEF ChainOK, ChainTypeOK
    <3> QED BY <1>0, <2>1, <3>1, <3>2, <3>3, <3>4 DEF ChainOK, ChainTypeOK, NoRestore
  <2>5. ReasonKept' /\ RestoreOK' /\ SealHasReason'
    BY <1>0, <2>1 DEF ChainOK, ChainInv, ReasonKept, RestoreOK, SealHasReason
  <2>6. WritesMeetSeals'
    <3> SUFFICES ASSUME NEW o \in Ops, op[o] # Idle, op[o].session \notin overlooked'
                 PROVE  status'[op[o].session] \in {"sealing", "sealed"}
      BY <1>0 DEF WritesMeetSeals
    <3>1. op[o].session \in Sessions /\ op[o].session # t
      BY <2>1 DEF ChainOK, ChainTypeOK, OpStates
    <3>2. status[op[o].session] \in {"sealing", "sealed"}
      BY <2>1 DEF ChainOK, ChainInv, WritesMeetSeals
    <3> QED BY <2>1, <3>1, <3>2
  <2>7. ActiveIsNamed'
    BY <1>0, <2>1, <2>2 DEF ChainOK, ChainInv, ActiveIsNamed
  <2> QED BY <2>4, <2>5, <2>6, <2>7 DEF ChainOK, ChainInv
<1> QED BY <1>1, <1>2

-----------------------------------------------------------------------------
(* The hand-over, under the steps of the chain.                            *)

LEMMA OpenHasSession ==
  ASSUME HandoffOK, NEW p \in Proposals
  PROVE  Open(p) \/ p \in accepted \/ txn[p] # "idle" => proposal[p].session \in Sessions
  BY DEF HandoffOK, HandoffTypeOK, HandoffInv, ProposalOK, OnlyBeforeSeal, Open, NoSession

\* A step of the chain makes no hand-over's reason, and takes one only to a restore or a reaper.
LEMMA ChainStepKeepsHandoff ==
  ASSUME HandoffOK, UNCHANGED <<proposal, note, accepted>>, queued' \subseteq queued,
         txn' = txn \/ txn' = [p \in Proposals |-> "idle"],
         restored \subseteq restored',
         \A s \in Sessions : reason'[s] = "handoff" => reason[s] = "handoff",
         \A s \in Sessions :
           status[s] \in {"sealing", "sealed"} /\ reason[s] \in {"handoff", "reaped"} =>
             \/ s \in restored'
             \/ /\ status'[s] \in {"sealing", "sealed"} /\ reason'[s] \in {"handoff", "reaped"}
                /\ reason[s] = "reaped" => reason'[s] = "reaped"
  PROVE  HandoffOK'
<1>1. \A p \in Proposals : txn'[p] = txn[p] \/ txn'[p] = "idle"
  OBVIOUS
<1>2. HandoffTypeOK'
  BY DEF HandoffOK, HandoffTypeOK, Steps
<1>3. ProposalOK' /\ OneOpen' /\ OnlyBeforeSeal' /\ NoteStands'
  BY <1>1 DEF HandoffOK, HandoffTypeOK, HandoffInv, ProposalOK, OneOpen, OnlyBeforeSeal, NoteStands, Open
<1>3a. OnlyAfterSeal'
  BY <1>1 DEF HandoffOK, HandoffInv, OnlyAfterSeal
<1>4. NotYetSealed'
  BY OpenHasSession DEF HandoffOK, HandoffInv, NotYetSealed, Open
<1>5. ASSUME NEW p \in accepted
      PROVE  LET s == proposal[p].session IN
               \/ s \in restored'
               \/ /\ status'[s] \in {"sealing", "sealed"} /\ reason'[s] \in {"handoff", "reaped"}
                  /\ reason[s] = "reaped" => reason'[s] = "reaped"
  BY OpenHasSession DEF HandoffOK, HandoffTypeOK, HandoffInv, SealStands
<1>6. SealStands'
  BY <1>5 DEF SealStands
<1>7. GivenUp'
  BY <1>1, <1>5 DEF HandoffOK, HandoffTypeOK, HandoffInv, GivenUp
<1> QED BY <1>2, <1>3, <1>3a, <1>4, <1>6, <1>7 DEF HandoffOK, HandoffInv

\* A session that is sealed for another reason was active, and had none.
LEMMA SealingKeepsHandoff ==
  ASSUME ChainOK, HandoffOK, NEW s \in Sessions, CanSeal(s), SealingAs(s, "other"),
         UNCHANGED <<handoff, accepted, restored>>
  PROVE  HandoffOK'
<1>1. /\ status \in [Sessions -> Statuses] /\ reason \in [Sessions -> Reasons]
      /\ status[s] = "active" /\ reason'[s] = "other"
      /\ \A t \in Sessions \ {s} : status'[t] = status[t] /\ reason'[t] = reason[t]
  BY DEF ChainOK, ChainTypeOK, SealingAs, CanSeal
<1> QED BY <1>1, ChainStepKeepsHandoff DEF handoff

LEMMA CreateKeepsHandoff ==
  ASSUME ChainOK, HandoffOK, Create, UNCHANGED <<handoff, accepted, restored>>
  PROVE  HandoffOK'
<1>1. PICK s \in Sessions :
        status[s] = "none" /\ status' = [status EXCEPT ![s] = "active"] /\ UNCHANGED reason
  BY DEF Create
<1>2. \A t \in Sessions : t # s => status'[t] = status[t]
  BY <1>1 DEF ChainOK, ChainTypeOK
<1> QED BY <1>1, <1>2, ChainStepKeepsHandoff DEF handoff

LEMMA StillKeepsHandoff ==
  ASSUME HandoffOK, UNCHANGED <<status, reason, proposal, note, accepted, restored>>,
         queued' \subseteq queued, txn' = txn \/ txn' = [p \in Proposals |-> "idle"]
  PROVE  HandoffOK'
  BY ChainStepKeepsHandoff

LEMMA WriteKeepsHandoff ==
  ASSUME ChainOK, HandoffOK, NEW o \in Ops, Write(o)
  PROVE  HandoffOK'
<1> DEFINE s == op[o].session
<1>1. /\ status \in [Sessions -> Statuses] /\ reason \in [Sessions -> Reasons]
      /\ s \in Sessions
  BY DEF Write, Idle, ChainOK, ChainTypeOK, OpStates
<1>2. /\ status' = [status EXCEPT ![s] = "sealed"]
      /\ reason' = (IF o \in Reapers THEN [reason EXCEPT ![s] = "reaped"] ELSE reason)
      /\ UNCHANGED <<handoff, accepted, restored>>
  BY DEF Write, history
<1> HIDE DEF s
<1>3. /\ status'[s] = "sealed" /\ \A t \in Sessions \ {s} : status'[t] = status[t]
      /\ reason'[s] = reason[s] \/ reason'[s] = "reaped"
      /\ \A t \in Sessions \ {s} : reason'[t] = reason[t]
  BY <1>1, <1>2
<1> QED BY <1>2, <1>3, ChainStepKeepsHandoff DEF handoff

LEMMA RestoreKeepsHandoff ==
  ASSUME ChainOK, HandoffOK, Restore
  PROVE  HandoffOK'
<1> DEFINE t == unseal.target
           d == unseal.displaces
<1>0. UNCHANGED <<handoff, accepted>>
  BY DEF Restore
<1>1. CASE ~AsConfirmed
  BY <1>0, <1>1, StillKeepsHandoff DEF Restore, chain, handoff
<1>2. CASE AsConfirmed
  <2>1. /\ status' = [s \in Sessions |-> IF s = t THEN "active"
                                         ELSE IF s = d THEN "sealing" ELSE status[s]]
        /\ reason' = [s \in Sessions |-> IF s = t THEN "none"
                                         ELSE IF s = d THEN "other" ELSE reason[s]]
        /\ restored' = restored \cup {t}
    BY <1>2 DEF Restore
  <2>2. d \in Sessions => status[d] = "active"
    BY <1>2 DEF AsConfirmed, NoSession, Sessions
  <2> HIDE DEF t, d
  <2> QED BY <1>0, <2>1, <2>2, ChainStepKeepsHandoff DEF handoff
<1> QED BY <1>1, <1>2

-----------------------------------------------------------------------------
(* The steps of an approval.                                               *)

\* A step of one proposal that leaves the session, the note and the seals alone.
LEMMA ProposalStep ==
  ASSUME HandoffOK, NEW p \in Proposals,
         NEW new \in [status : ProposalStatuses, session : Sessions \cup {NoSession}, sealed : BOOLEAN],
         NEW there \in Steps,
         proposal' = [proposal EXCEPT ![p] = new], txn' = [txn EXCEPT ![p] = there],
         queued' \subseteq queued \cup {p}, p \in queued' => p \in queued \cup accepted,
         new.session = proposal[p].session,
         UNCHANGED <<status, reason, note, accepted, restored>>,
         new.status \in {"pending", "approving"} => Open(p),
         new.status # "none" => new.session # NoSession,
         there # "idle" => new.status = "approving",
         there \in {"accepted", "recorded", "enqueued"} \/ new.status = "approved" => p \in accepted,
         new.sealed => p \in accepted,
         p \in accepted => /\ new.status \in {"approving", "approved", "expired"}
                           /\ there \notin {"claimed", "checked", "noted"},
         there # "noted",
         p \in accepted /\ (there = "expire" \/ new.status = "expired") =>
           \/ txn[p] = "expire" \/ proposal[p].status = "expired"
           \/ Open(p) /\ ~SealedByHandoff(p)
  PROVE  HandoffOK'
<1>1. /\ proposal'[p] = new /\ \A q \in Proposals \ {p} : proposal'[q] = proposal[q]
      /\ txn'[p] = there /\ \A q \in Proposals \ {p} : txn'[q] = txn[q]
      /\ \A q \in Proposals : proposal'[q].session = proposal[q].session
      /\ \A q \in Proposals : Open(q)' => Open(q)
  BY DEF HandoffOK, HandoffTypeOK, Open
<1>2. HandoffTypeOK'
  BY DEF HandoffOK, HandoffTypeOK
<1>3. ProposalOK'
  BY <1>1 DEF HandoffOK, HandoffInv, ProposalOK
<1>4. OneOpen' /\ NotYetSealed'
  BY <1>1 DEF HandoffOK, HandoffInv, OneOpen, NotYetSealed
<1>5. OnlyAfterSeal'
  <2> SUFFICES ASSUME NEW q \in Proposals, q \notin accepted
               PROVE  /\ txn'[q] \notin {"accepted", "recorded", "enqueued"}
                      /\ ~proposal'[q].sealed
                      /\ proposal'[q].status # "approved" /\ q \notin queued'
    BY DEF OnlyAfterSeal
  <2>1. CASE q = p
    BY <1>1, <2>1 DEF HandoffOK, HandoffInv, OnlyAfterSeal
  <2>2. CASE q # p
    BY <1>1, <2>2 DEF HandoffOK, HandoffInv, OnlyAfterSeal
  <2> QED BY <2>1, <2>2
<1>6. OnlyBeforeSeal'
  BY <1>1 DEF HandoffOK, HandoffTypeOK, HandoffInv, OnlyBeforeSeal
<1>7. SealStands'
  BY <1>1 DEF HandoffOK, HandoffTypeOK, HandoffInv, SealStands
<1>8. NoteStands'
  BY <1>1 DEF HandoffOK, HandoffInv, NoteStands
<1>9. GivenUp'
  <2> SUFFICES ASSUME NEW q \in accepted, txn'[q] = "expire" \/ proposal'[q].status = "expired"
               PROVE  LET s == proposal[q].session IN reason[s] = "reaped" \/ s \in restored
    BY <1>1 DEF HandoffOK, HandoffTypeOK, GivenUp
  <2>1. CASE q # p
    BY <1>1, <2>1 DEF HandoffOK, HandoffTypeOK, HandoffInv, GivenUp
  <2>2. CASE q = p /\ (txn[p] = "expire" \/ proposal[p].status = "expired")
    BY <2>2 DEF HandoffOK, HandoffInv, GivenUp
  <2>3. CASE q = p /\ txn[p] # "expire" /\ proposal[p].status # "expired"
    <3>1. LET s == proposal[p].session IN
            s \in restored \/ (status[s] \in {"sealing", "sealed"} /\ reason[s] \in {"handoff", "reaped"})
      BY <2>3 DEF HandoffOK, HandoffInv, SealStands
    <3>2. Open(p) => note[proposal[p].session] = {p}
      BY <2>3 DEF HandoffOK, HandoffInv, NoteStands
    <3> QED BY <1>1, <2>3, <3>1, <3>2 DEF SealedByHandoff
  <2> QED BY <2>1, <2>2, <2>3
<1> QED BY <1>2, <1>3, <1>4, <1>5, <1>6, <1>7, <1>8, <1>9 DEF HandoffOK, HandoffInv

\* A proposal is made in the session the cat is in: active, and so without a reason.
LEMMA ProposeKeepsHandoff ==
  ASSUME ChainOK, HandoffOK, NEW p \in Proposals, Propose(p)
  PROVE  HandoffOK'
<1> DEFINE new == [status |-> "pending", session |-> Current, sealed |-> FALSE]
<1>1. Current \in Sessions /\ status[Current] = "active" /\ reason[Current] = "none"
  <2>1. Current \in Active
    BY CurrentIsActive DEF Propose, ChainOK
  <2> QED BY <2>1 DEF Active, ChainOK, ChainInv, ReasonKept
<1>2. /\ proposal' = [proposal EXCEPT ![p] = new]
      /\ UNCHANGED <<status, reason, note, txn, queued, accepted, restored>>
      /\ proposal[p] = NoProposal
      /\ \A q \in Proposals : proposal[q].session = Current => ~Open(q)
  BY DEF Propose, history, Open
<1>3. new \in [status : ProposalStatuses, session : Sessions \cup {NoSession}, sealed : BOOLEAN]
  BY <1>1 DEF ProposalStatuses
<1>4. /\ p \notin accepted /\ txn[p] = "idle" /\ p \notin queued
  BY <1>2 DEF HandoffOK, HandoffInv, ProposalOK, OnlyBeforeSeal, OnlyAfterSeal, NoProposal
<1>5. /\ proposal'[p] = new /\ \A q \in Proposals \ {p} : proposal'[q] = proposal[q]
      /\ new.status = "pending" /\ new.session = Current /\ new.sealed = FALSE
      /\ \A q \in Proposals \ {p} : Open(q)' <=> Open(q)
  BY <1>2 DEF HandoffOK, HandoffTypeOK, Open
<1> HIDE DEF new
<1>6. HandoffTypeOK'
  BY <1>2, <1>3 DEF HandoffOK, HandoffTypeOK
<1>7. ProposalOK'
  BY <1>1, <1>2, <1>4, <1>5 DEF HandoffOK, HandoffInv, ProposalOK, NoSession, Sessions
<1>8. OneOpen'
  BY <1>2, <1>5 DEF HandoffOK, HandoffInv, OneOpen
<1>9. NotYetSealed'
  BY <1>1, <1>2, <1>5 DEF HandoffOK, HandoffInv, NotYetSealed
<1>10. OnlyAfterSeal'
  <2> SUFFICES ASSUME NEW q \in Proposals, q \notin accepted
               PROVE  /\ txn'[q] \notin {"accepted", "recorded", "enqueued"}
                      /\ ~proposal'[q].sealed
                      /\ proposal'[q].status # "approved" /\ q \notin queued'
    BY <1>2 DEF OnlyAfterSeal
  <2>1. CASE q = p
    BY <1>2, <1>4, <1>5, <2>1
  <2>2. CASE q # p
    BY <1>2, <1>5, <2>2 DEF HandoffOK, HandoffInv, OnlyAfterSeal
  <2> QED BY <2>1, <2>2
<1>11. OnlyBeforeSeal' /\ SealStands'
  BY <1>2, <1>4, <1>5 DEF HandoffOK, HandoffTypeOK, HandoffInv, OnlyBeforeSeal, SealStands
<1>12. NoteStands'
  BY <1>2, <1>4, <1>5 DEF HandoffOK, HandoffInv, NoteStands
<1>13. GivenUp'
  BY <1>2, <1>4, <1>5 DEF HandoffOK, HandoffTypeOK, HandoffInv, GivenUp
<1> QED BY <1>6, <1>7, <1>8, <1>9, <1>10, <1>11, <1>12, <1>13 DEF HandoffOK, HandoffInv

\* The note goes on the record before the seal is requested; nobody else has one to leave.
LEMMA LeaveNoteKeepsHandoff ==
  ASSUME HandoffOK, NEW p \in Proposals, LeaveNote(p)
  PROVE  HandoffOK'
<1> DEFINE s == proposal[p].session
<1>1. /\ txn[p] = "checked" /\ txn' = [txn EXCEPT ![p] = "noted"]
      /\ note' = [note EXCEPT ![s] = {p}]
      /\ UNCHANGED <<status, reason, proposal, queued, accepted, restored>>
  BY DEF LeaveNote, At, chain, history
<1>2. /\ txn'[p] = "noted" /\ \A q \in Proposals \ {p} : txn'[q] = txn[q]
      /\ note'[s] = {p} /\ \A u \in Sessions \ {s} : note'[u] = note[u]
      /\ p \notin accepted /\ Open(p) /\ s \in Sessions
  BY <1>1, OpenHasSession DEF HandoffOK, HandoffTypeOK, HandoffInv, OnlyBeforeSeal, ProposalOK, Open
<1> HIDE DEF s
<1>3. HandoffTypeOK'
  BY <1>1 DEF HandoffOK, HandoffTypeOK, Steps
<1>4. ProposalOK' /\ OneOpen' /\ NotYetSealed'
  BY <1>1, <1>2 DEF HandoffOK, HandoffInv, ProposalOK, OneOpen, NotYetSealed, Open
<1>5. OnlyAfterSeal'
  BY <1>1, <1>2 DEF HandoffOK, HandoffInv, OnlyAfterSeal
<1>6. OnlyBeforeSeal' /\ SealStands' /\ GivenUp'
  BY <1>1, <1>2 DEF HandoffOK, HandoffTypeOK, HandoffInv, OnlyBeforeSeal, SealStands, GivenUp
<1>7. NoteStands'
  <2> SUFFICES ASSUME NEW q \in Proposals, q # p, txn[q] = "noted" \/ (q \in accepted /\ Open(q))
               PROVE  note'[proposal[q].session] = {q}
    BY <1>1, <1>2 DEF NoteStands, Open, s
  <2>1. Open(q) /\ proposal[q].session \in Sessions
    BY OpenHasSession DEF HandoffOK, HandoffInv, ProposalOK, Open
  <2>2. proposal[q].session # s
    BY <1>2, <2>1 DEF HandoffOK, HandoffInv, OneOpen, s
  <2> QED BY <1>2, <2>1, <2>2 DEF HandoffOK, HandoffInv, NoteStands
<1> QED BY <1>3, <1>4, <1>5, <1>6, <1>7 DEF HandoffOK, HandoffInv

\* The seal is requested: accepted it is this proposal's, since no other is open on the session.
LEMMA SealSourceKeepsHandoff ==
  ASSUME ChainOK, HandoffOK, NEW p \in Proposals, SealSource(p)
  PROVE  HandoffOK'
<1> DEFINE s == proposal[p].session
<1>1. /\ txn[p] = "noted" /\ UNCHANGED <<proposal, note, queued, restored>>
      /\ p \notin accepted /\ Open(p) /\ s \in Sessions /\ note[s] = {p}
      /\ proposal[p].status = "approving"
  BY OpenHasSession
  DEF SealSource, At, HandoffOK, HandoffInv, OnlyBeforeSeal, ProposalOK, NoteStands, Open
<1>2. CASE ~CanSeal(s)
  <2>1. /\ proposal' = [proposal EXCEPT ![p] = proposal[p]] /\ txn' = [txn EXCEPT ![p] = "expire"]
        /\ UNCHANGED <<status, reason, accepted>>
    BY <1>1, <1>2 DEF SealSource, At, chain, HandoffOK, HandoffTypeOK
  <2>2. proposal[p] \in [status : ProposalStatuses, session : Sessions \cup {NoSession}, sealed : BOOLEAN]
        /\ "expire" \in Steps /\ (proposal[p].sealed => p \in accepted)
    BY DEF HandoffOK, HandoffTypeOK, Steps, HandoffInv, OnlyAfterSeal
  <2>3. s # NoSession
    BY <1>1 DEF Sessions, NoSession
  <2> QED BY <1>1, <2>1, <2>2, <2>3, ProposalStep
<1>3. CASE CanSeal(s)
  <2>1. /\ txn' = [txn EXCEPT ![p] = "accepted"] /\ accepted' = accepted \cup {p}
        /\ SealingAs(s, "handoff")
    BY <1>3 DEF SealSource, At
  <2>2. /\ txn'[p] = "accepted" /\ \A q \in Proposals \ {p} : txn'[q] = txn[q]
        /\ status'[s] = "sealing" /\ reason'[s] = "handoff"
        /\ \A u \in Sessions \ {s} : status'[u] = status[u] /\ reason'[u] = reason[u]
        /\ status[s] = "active" /\ reason[s] = "none"
    BY <1>1, <1>3, <2>1
    DEF SealingAs, CanSeal, ChainOK, ChainTypeOK, ChainInv, ReasonKept, HandoffOK, HandoffTypeOK
  <2>3. \A q \in accepted : q # p /\ proposal[q].session \in Sessions
    BY <1>1, OpenHasSession DEF HandoffOK, HandoffTypeOK
  <2> HIDE DEF s
  <2>4. HandoffTypeOK'
    BY <1>1, <2>1 DEF HandoffOK, HandoffTypeOK, Steps
  <2>5. ProposalOK' /\ OneOpen'
    BY <1>1, <2>2 DEF HandoffOK, HandoffInv, ProposalOK, OneOpen, Open
  <2>6. NotYetSealed'
    <3> SUFFICES ASSUME NEW q \in Proposals, Open(q), q \notin accepted, q # p
                 PROVE  reason'[proposal[q].session] # "handoff"
      BY <1>1, <2>1 DEF NotYetSealed, Open
    <3>1. proposal[q].session \in Sessions \ {s}
      BY <1>1, OpenHasSession DEF HandoffOK, HandoffInv, OneOpen, s
    <3> QED BY <2>2, <3>1 DEF HandoffOK, HandoffInv, NotYetSealed
  <2>7. OnlyAfterSeal'
    BY <1>1, <2>1, <2>2 DEF HandoffOK, HandoffInv, OnlyAfterSeal
  <2>8. OnlyBeforeSeal'
    BY <1>1, <2>1, <2>2, <2>3 DEF HandoffOK, HandoffTypeOK, HandoffInv, OnlyBeforeSeal
  <2>9. SealStands'
    <3> SUFFICES ASSUME NEW q \in accepted
                 PROVE  LET u == proposal[q].session IN
                          \/ u \in restored
                          \/ status'[u] \in {"sealing", "sealed"} /\ reason'[u] \in {"handoff", "reaped"}
      BY <1>1, <2>1, <2>2 DEF SealStands, s
    <3> QED BY <2>2, <2>3 DEF HandoffOK, HandoffInv, SealStands
  <2>10. NoteStands'
    BY <1>1, <2>1, <2>2 DEF HandoffOK, HandoffInv, NoteStands, Open, s
  <2>11. GivenUp'
    <3> SUFFICES ASSUME NEW q \in accepted, txn[q] = "expire" \/ proposal[q].status = "expired"
                 PROVE  LET u == proposal[q].session IN reason'[u] = "reaped" \/ u \in restored
      BY <1>1, <2>1, <2>2, <2>3 DEF GivenUp, HandoffOK, HandoffTypeOK
    <3> QED BY <2>2, <2>3 DEF HandoffOK, HandoffInv, GivenUp
  <2> QED BY <2>4, <2>5, <2>6, <2>7, <2>8, <2>9, <2>10, <2>11 DEF HandoffOK, HandoffInv
<1> QED BY <1>2, <1>3

ApprovalStep(p) ==
  \/ Reject(p) \/ Claim(p) \/ Check(p) \/ Checkpoint(p) \/ Enqueue(p)
  \/ Approve(p) \/ Expire(p) \/ Recover(p) \/ Throw(p)

\* The other steps of an approval write the proposal alone.
LEMMA ApprovalKeepsHandoff ==
  ASSUME HandoffOK, NEW p \in Proposals, ApprovalStep(p)
  PROVE  HandoffOK'
<1> DEFINE Records == [status : ProposalStatuses, session : Sessions \cup {NoSession}, sealed : BOOLEAN]
<1>1. /\ proposal[p] \in Records /\ txn[p] \in Steps
      /\ proposal[p].status \in ProposalStatuses /\ proposal[p].sealed \in BOOLEAN
      /\ proposal[p].session \in Sessions \cup {NoSession}
      /\ proposal = [proposal EXCEPT ![p] = proposal[p]] /\ txn = [txn EXCEPT ![p] = txn[p]]
  BY DEF HandoffOK, HandoffTypeOK
<1>2. /\ UNCHANGED <<status, reason, note, accepted, restored>>
      /\ queued' \subseteq queued \cup {p} /\ (p \in queued' => p \in queued \cup accepted)
  BY DEF ApprovalStep, Reject, Claim, Check, Checkpoint, Enqueue, Approve, Expire, Recover, Throw, At,
         chain, history, HandoffOK, HandoffInv, OnlyAfterSeal
<1>3. /\ proposal[p].status # "none" => proposal[p].session # NoSession
      /\ txn[p] # "idle" => proposal[p].status = "approving"
      /\ txn[p] \in {"accepted", "recorded", "enqueued"} => p \in accepted
      /\ proposal[p].sealed => p \in accepted
      /\ proposal[p].status = "approved" => p \in accepted
      /\ p \in accepted => /\ proposal[p].status \in {"approving", "approved", "expired"}
                           /\ txn[p] \notin {"claimed", "checked", "noted"}
  BY DEF HandoffOK, HandoffInv, ProposalOK, OnlyAfterSeal, OnlyBeforeSeal
<1>4. CASE Reject(p)
  <2> DEFINE new == [proposal[p] EXCEPT !.status = "rejected"]
  <2>1. /\ proposal' = [proposal EXCEPT ![p] = new] /\ txn' = [txn EXCEPT ![p] = txn[p]]
        /\ proposal[p].status = "pending" /\ txn[p] = "idle"
    BY <1>1, <1>3, <1>4 DEF Reject
  <2>2. new \in Records /\ new.status = "rejected" /\ new.session = proposal[p].session
        /\ new.sealed = proposal[p].sealed
    BY <1>1 DEF ProposalStatuses
  <2> HIDE DEF new
  <2> QED BY <1>1, <1>2, <1>3, <2>1, <2>2, ProposalStep DEF Open
<1>5. CASE Claim(p)
  <2> DEFINE new == [proposal[p] EXCEPT !.status = "approving"]
  <2>1. /\ proposal' = [proposal EXCEPT ![p] = new] /\ txn' = [txn EXCEPT ![p] = "claimed"]
        /\ proposal[p].status = "pending" /\ "claimed" \in Steps
    BY <1>5 DEF Claim, At, Steps
  <2>2. new \in Records /\ new.status = "approving" /\ new.session = proposal[p].session
        /\ new.sealed = proposal[p].sealed
    BY <1>1 DEF ProposalStatuses
  <2> HIDE DEF new
  <2> QED BY <1>1, <1>2, <1>3, <2>1, <2>2, ProposalStep DEF Open
<1>6. CASE Check(p)
  <2>1. PICK there \in {"checked", "expire"} :
          txn[p] = "claimed" /\ txn' = [txn EXCEPT ![p] = there]
    BY <1>6 DEF Check, At
  <2>2. proposal' = [proposal EXCEPT ![p] = proposal[p]] /\ there \in Steps
    BY <1>1, <1>6 DEF Check, Steps
  <2> QED BY <1>1, <1>2, <1>3, <2>1, <2>2, ProposalStep DEF Open
<1>7. CASE Checkpoint(p)
  <2> DEFINE new == [proposal[p] EXCEPT !.sealed = TRUE]
  <2>1. /\ proposal' = [proposal EXCEPT ![p] = new] /\ txn' = [txn EXCEPT ![p] = "recorded"]
        /\ txn[p] = "accepted" /\ "recorded" \in Steps
    BY <1>7 DEF Checkpoint, At, Steps
  <2>2. new \in Records /\ new.status = proposal[p].status /\ new.session = proposal[p].session
    BY <1>1
  <2> HIDE DEF new
  <2> QED BY <1>1, <1>2, <1>3, <2>1, <2>2, ProposalStep DEF Open
<1>8. CASE Enqueue(p)
  <2>1. /\ proposal' = [proposal EXCEPT ![p] = proposal[p]] /\ txn' = [txn EXCEPT ![p] = "enqueued"]
        /\ txn[p] = "recorded" /\ "enqueued" \in Steps
    BY <1>1, <1>8 DEF Enqueue, At, Steps
  <2> QED BY <1>1, <1>2, <1>3, <2>1, ProposalStep DEF Open
<1>9. CASE Approve(p)
  <2> DEFINE new == [proposal[p] EXCEPT !.status = "approved"]
  <2>1. /\ proposal' = [proposal EXCEPT ![p] = new] /\ txn' = [txn EXCEPT ![p] = "idle"]
        /\ txn[p] = "enqueued" /\ "idle" \in Steps
    BY <1>9 DEF Approve, At, Steps
  <2>2. new \in Records /\ new.status = "approved" /\ new.session = proposal[p].session
        /\ new.sealed = proposal[p].sealed
    BY <1>1 DEF ProposalStatuses
  <2> HIDE DEF new
  <2> QED BY <1>1, <1>2, <1>3, <2>1, <2>2, ProposalStep DEF Open
<1>10. CASE Expire(p)
  <2> DEFINE new == [proposal[p] EXCEPT !.status = "expired"]
  <2>1. /\ proposal' = [proposal EXCEPT ![p] = new] /\ txn' = [txn EXCEPT ![p] = "idle"]
        /\ txn[p] = "expire" /\ "idle" \in Steps
    BY <1>10 DEF Expire, At, Steps
  <2>2. new \in Records /\ new.status = "expired" /\ new.session = proposal[p].session
        /\ new.sealed = proposal[p].sealed
    BY <1>1 DEF ProposalStatuses
  <2> HIDE DEF new
  <2> QED BY <1>1, <1>2, <1>3, <2>1, <2>2, ProposalStep DEF Open
<1>11. CASE Recover(p)
  <2>1. PICK there \in Steps :
          /\ txn[p] = "idle" /\ txn' = [txn EXCEPT ![p] = there]
          /\ proposal[p].status = "approving"
          /\ \/ there = "recorded" /\ proposal[p].sealed
             \/ there = "accepted" /\ SealedByHandoff(p)
             \/ there = "expire" /\ ~SealedByHandoff(p)
    BY <1>1, <1>11 DEF Recover, At, Steps
  <2>2. proposal' = [proposal EXCEPT ![p] = proposal[p]]
    BY <1>1, <1>11 DEF Recover
  <2>3. SealedByHandoff(p) => p \in accepted
    BY <2>1 DEF SealedByHandoff, HandoffOK, HandoffInv, NotYetSealed, Open
  <2> QED BY <1>1, <1>2, <1>3, <2>1, <2>2, <2>3, ProposalStep DEF Open
<1>12. CASE Throw(p)
  <2>1. /\ proposal' = [proposal EXCEPT ![p] = proposal[p]] /\ txn' = [txn EXCEPT ![p] = "idle"]
        /\ "idle" \in Steps
    BY <1>1, <1>12 DEF Throw, Steps
  <2> QED BY <1>1, <1>2, <1>3, <2>1, ProposalStep DEF Open
<1> QED BY <1>4, <1>5, <1>6, <1>7, <1>8, <1>9, <1>10, <1>11, <1>12 DEF ApprovalStep

-----------------------------------------------------------------------------
(* Every step keeps the invariant.                                         *)

LEMMA RunKeeps ==
  ASSUME ChainOK, HandoffOK, Run
  PROVE  ChainOK' /\ HandoffOK'
<1>1. CASE StartRun \/ EndRun
  <2>1. UNCHANGED <<status, reason, pointer, op, unseal, restored, superseded, overlooked, accepted,
                    proposal, note, txn>> /\ queued' \subseteq queued
    BY <1>1 DEF StartRun, EndRun, chain, history, handoff
  <2> QED BY <2>1, RepairKeepsChain, StillKeepsHandoff
<1>2. CASE Resolve
  <2>1. GetOrCreate /\ UNCHANGED <<op, unseal, handoff, restored, overlooked, accepted>>
    BY <1>2 DEF Resolve
  <2>2. HandoffOK'
    <3>1. CASE Create
      BY <2>1, <3>1, CreateKeepsHandoff
    <3>2. CASE UNCHANGED <<status, reason>>
      BY <2>1, <3>2, StillKeepsHandoff DEF handoff
    <3> QED BY <2>1, <3>1, <3>2 DEF GetOrCreate
  <2> QED BY <2>1, <2>2, GetOrCreateKeepsChain
<1>3. CASE SealToReplace
  <2>1. Current \in Sessions /\ CanSeal(Current)
    BY <1>3, CurrentIsActive DEF SealToReplace, ChainOK, Active, CanSeal
  <2>2. SealingAs(Current, "other")
        /\ UNCHANGED <<op, unseal, handoff, restored, superseded, overlooked, accepted>>
    BY <1>3 DEF SealToReplace, history
  <2> QED BY <2>1, <2>2, SealingKeepsChain, SealingKeepsHandoff
<1>4. CASE Replace
  <2>1. Create /\ UNCHANGED <<op, unseal, handoff, restored, overlooked, accepted>>
    BY <1>4 DEF Replace
  <2> QED BY <2>1, CreateKeepsChain, CreateKeepsHandoff
<1> QED BY <1>1, <1>2, <1>3, <1>4 DEF Run

LEMMA SealKeeps ==
  ASSUME ChainOK, HandoffOK, Seal
  PROVE  ChainOK' /\ HandoffOK'
<1>0. /\ Idle \in OpStates
      /\ op \in [Ops -> OpStates]
      /\ \A o \in Ops : op[o] \in OpStates
  BY DEF Idle, NoSession, OpStates, ChainOK, ChainTypeOK
<1>1. ASSUME NEW s \in Sessions, RequestSeal(s) PROVE ChainOK' /\ HandoffOK'
  BY <1>1, SealingKeepsChain, SealingKeepsHandoff DEF RequestSeal, history
<1>2. ASSUME NEW s \in Sessions, PrepareRestore(s) PROVE ChainOK' /\ HandoffOK'
  <2>1. /\ unseal' = [target |-> s, displaces |-> Current] /\ pointer' = Current
        /\ UNCHANGED <<status, reason, op, handoff, restored, superseded, overlooked, accepted>>
    BY <1>2 DEF PrepareRestore, history
  <2>2. Current \in Sessions \cup {NoSession}
    BY CurrentIsActive DEF ChainOK, Active
  <2>3. ChainTypeOK' /\ RestoreOK'
    BY <2>1, <2>2 DEF ChainOK, ChainTypeOK, RestoreOK, NoSession, Sessions
  <2>4. ActiveIsNamed'
    BY <2>1, CurrentIsActive DEF ChainOK, ChainInv, ActiveIsNamed, Active
  <2>5. ChainOK'
    BY <2>1, <2>3, <2>4 DEF ChainOK, ChainInv, ReasonKept, WritesMeetSeals, SealHasReason
  <2> QED BY <2>1, <2>5, StillKeepsHandoff DEF handoff
<1>3. ASSUME NEW o \in Ops, NEW s \in Sessions, status[s] = "sealing", Take(o, s),
             UNCHANGED <<chain, unseal, handoff, history>>
      PROVE  ChainOK' /\ HandoffOK'
  <2> DEFINE new == [session |-> s, step |-> "seen"]
  <2>1. new \in OpStates /\ new.session = s /\ new.step = "seen" /\ s # NoSession
    BY DEF OpStates, NoSession, Sessions
  <2>2. op' = [op EXCEPT ![o] = new]
    BY <1>3 DEF Take
  <2> HIDE DEF new
  <2>3. ChainOK'
    BY <1>3, <2>1, <2>2, OpKeepsChain DEF chain, history
  <2> QED BY <1>3, <2>3, StillKeepsHandoff DEF chain, handoff, history
<1>4. ASSUME NEW s \in Sessions, NEW o \in Ops, Finalize(o, s) \/ Reap(o, s)
      PROVE  ChainOK' /\ HandoffOK'
  BY <1>3, <1>4 DEF Finalize, Reap
<1>5. ASSUME NEW o \in Ops, Unlink(o) PROVE ChainOK' /\ HandoffOK'
  <2> DEFINE new == [op[o] EXCEPT !.step = "unlinked"]
  <2>1. /\ op[o] # Idle /\ op[o].session # NoSession
        /\ new \in OpStates /\ new.session = op[o].session /\ new.step = "unlinked"
    BY <1>0, <1>5 DEF Unlink, Idle, OpStates, ChainOK, ChainTypeOK
  <2>2. /\ op' = [op EXCEPT ![o] = new]
        /\ UNCHANGED pointer \/ (pointer = op[o].session /\ pointer' = NoSession)
        /\ UNCHANGED <<status, reason, unseal, handoff, history>>
    BY <1>5 DEF Unlink
  <2> HIDE DEF new
  <2>3. ChainOK'
    BY <2>1, <2>2, OpKeepsChain DEF history
  <2> QED BY <2>2, <2>3, StillKeepsHandoff DEF handoff, history
<1>6. ASSUME NEW o \in Ops, Write(o) PROVE ChainOK' /\ HandoffOK'
  BY <1>6, WriteKeepsChain, WriteKeepsHandoff
<1>7. ASSUME NEW o \in Ops, Fail(o) PROVE ChainOK' /\ HandoffOK'
  <2>1. op' = [op EXCEPT ![o] = Idle] /\ UNCHANGED <<chain, unseal, handoff, history>>
    BY <1>7 DEF Fail
  <2>2. ChainOK'
    BY <1>0, <2>1, OpKeepsChain DEF chain, history
  <2> QED BY <2>1, <2>2, StillKeepsHandoff DEF chain, handoff, history
<1>8. ASSUME Restore PROVE ChainOK' /\ HandoffOK'
  BY <1>8, RestoreKeepsChain, RestoreKeepsHandoff
<1> QED BY <1>1, <1>2, <1>4, <1>5, <1>6, <1>7, <1>8 DEF Seal, Ops

LEMMA HandoffKeeps ==
  ASSUME ChainOK, HandoffOK, Handoff
  PROVE  ChainOK' /\ HandoffOK'
<1> SUFFICES ASSUME NEW p \in Proposals,
                    ApprovalStep(p) \/ Propose(p) \/ LeaveNote(p) \/ SealSource(p)
             PROVE  ChainOK' /\ HandoffOK'
  BY DEF Handoff, ApprovalStep
<1>1. CASE SealSource(p) /\ CanSeal(proposal[p].session)
  <2>1. proposal[p].session \in Sessions
    BY <1>1, OpenHasSession DEF SealSource, At
  <2> QED BY <1>1, <2>1, SealingKeepsChain, SealSourceKeepsHandoff DEF SealSource
<1>2. CASE ApprovalStep(p) \/ Propose(p) \/ LeaveNote(p)
             \/ (SealSource(p) /\ ~CanSeal(proposal[p].session))
  <2>1. /\ pointer' = Current \/ pointer' = pointer
        /\ UNCHANGED <<status, reason, op, unseal, restored, superseded, overlooked>>
    BY <1>2 DEF ApprovalStep, Propose, LeaveNote, SealSource, Reject, Claim, Check, Checkpoint,
                Enqueue, Approve, Expire, Recover, Throw, chain, history
  <2>2. HandoffOK'
    BY <1>2, ApprovalKeepsHandoff, ProposeKeepsHandoff, LeaveNoteKeepsHandoff, SealSourceKeepsHandoff
  <2> QED BY <2>1, <2>2, RepairKeepsChain
<1> QED BY <1>1, <1>2

LEMMA CrashKeeps ==
  ASSUME ChainOK, HandoffOK, Crash
  PROVE  ChainOK' /\ HandoffOK'
<1>1. /\ op' = [o \in Ops |-> Idle] /\ unseal' = NoRestore
      /\ txn' = [p \in Proposals |-> "idle"] /\ queued' = {}
      /\ UNCHANGED <<status, reason, pointer, proposal, note, restored, superseded, overlooked, accepted>>
  BY DEF Crash, chain, history
<1>2. ChainTypeOK'
  BY <1>1 DEF ChainOK, ChainTypeOK, Idle, NoRestore, NoSession, OpStates
<1>3. ChainInv'
  BY <1>1 DEF ChainOK, ChainInv, RestoreOK, ReasonKept, WritesMeetSeals, ActiveIsNamed, SealHasReason
<1> QED BY <1>1, <1>2, <1>3, StillKeepsHandoff DEF ChainOK

LEMMA BoundsKept ==
  ASSUME BoundsOK, Next
  PROVE  BoundsOK'
<1>1. faults' \in 0..MaxFaults /\ restores' \in 0..MaxRestores
  <2>1. MaxFaults \in Nat /\ MaxRestores \in Nat
    BY BoundsAssumption
  <2>2. /\ faults' = faults \/ (faults < MaxFaults /\ faults' = faults + 1)
        /\ restores' = restores \/ (restores < MaxRestores /\ restores' = restores + 1)
    BY DEF Next, Run, Seal, Handoff, StartRun, Resolve, EndRun, SealToReplace, Replace, RequestSeal,
           PrepareRestore, Finalize, Reap, Unlink, Write, Fail, Restore, Propose, Reject, Claim, Check,
           LeaveNote, SealSource, Checkpoint, Enqueue, Approve, Expire, Recover, Throw, Crash
  <2>3. faults \in 0..MaxFaults /\ restores \in 0..MaxRestores
    BY Zenon DEF BoundsOK
  <2> QED BY <2>1, <2>2, <2>3
<1>2. /\ busy' = busy \/ busy' = TRUE \/ busy' = FALSE
      /\ replacing' = replacing \/ replacing' = TRUE \/ replacing' = FALSE
  BY Zenon
  DEF Next, Run, Seal, Handoff, StartRun, Resolve, EndRun, SealToReplace, Replace, RequestSeal, runner,
      PrepareRestore, Finalize, Reap, Unlink, Write, Fail, Restore, Propose, Reject, Claim, Check,
      LeaveNote, SealSource, Checkpoint, Enqueue, Approve, Expire, Recover, Throw, Crash
<1>3. busy' \in BOOLEAN /\ replacing' \in BOOLEAN
  BY <1>2, Zenon DEF BoundsOK
<1> QED BY <1>1, <1>3 DEF BoundsOK

LEMMA NextIInv == IInv /\ [Next]_vars => IInv'
<1> SUFFICES ASSUME IInv, [Next]_vars PROVE IInv'
  OBVIOUS
<1>0. ChainOK /\ HandoffOK /\ BoundsOK
  BY Halves
<1>1. CASE Next
  <2>1. ChainOK' /\ HandoffOK'
    BY <1>0, <1>1, RunKeeps, SealKeeps, HandoffKeeps, CrashKeeps DEF Next
  <2>2. BoundsOK'
    BY <1>0, <1>1, BoundsKept
  <2> QED BY <2>1, <2>2, Halves, PTL
<1>2. CASE UNCHANGED vars
  <2>1. UNCHANGED <<status, reason, pointer, op, unseal, restored, superseded, overlooked, accepted,
                    proposal, note, txn, queued, busy, replacing, faults, restores>>
    BY <1>2 DEF vars, chain, handoff, history, runner
  <2>2. ChainOK' /\ HandoffOK'
    BY <1>0, <2>1, RepairKeepsChain, StillKeepsHandoff
  <2>3. BoundsOK'
    BY <1>0, <2>1, Zenon DEF BoundsOK
  <2> QED BY <2>2, <2>3, Halves, PTL
<1> QED BY <1>1, <1>2

-----------------------------------------------------------------------------
\* Every reachable state satisfies the inductive invariant.
THEOREM Invariance == Spec => []IInv
  BY InitIInv, NextIInv, PTL DEF Spec

\* The chain, its operations and its proposals keep their types; the chain has no gap.
THEOREM TypeCorrect == Spec => []TypeOK
<1>1. IInv => TypeOK BY DEF IInv
<1> QED BY <1>1, Invariance, PTL

\* An active session is the one the index names, or one that lost it in a way that is recorded:
\* to a session created beside it, or by a restore under a terminal write.
THEOREM ActiveStaysNamed == Spec => []ActiveIsNamed
<1>1. IInv => ActiveIsNamed BY DEF IInv, ChainInv
<1> QED BY <1>1, Invariance, PTL

\* A session that is sealed was asked to be, unless it was restored under a terminal write.
THEOREM SealsHaveReasons == Spec => []SealHasReason
<1>1. IInv => SealHasReason BY DEF IInv, ChainInv
<1> QED BY <1>1, Invariance, PTL

\* An approval whose seal was accepted is expired only after a reaper overwrote the reason of the
\* seal or the user restored the session.
THEOREM CommitsKept == Spec => []CommitKept
<1>1. IInv => CommitKept
  BY DEF IInv, HandoffInv, GivenUp, CommitKept
<1> QED BY <1>1, Invariance, PTL

\* A proposal is approved, and its continuation queued, only after its own seal was accepted.
THEOREM HandoversSealed == Spec => []HandedOverWasSealed
<1>1. IInv => HandedOverWasSealed
  BY DEF IInv, HandoffInv, OnlyAfterSeal, HandedOverWasSealed
<1> QED BY <1>1, Invariance, PTL
=============================================================================
