-------------------------- MODULE QueueDispatchProofs --------------------------
(***************************************************************************)
(* Proofs about QueueDispatch, for any entries, cats, steers and attempts, *)
(* under the assumption that the write of a claim ends before the reaper's *)
(* TTL does (~SlowWrites).                                                 *)
(*                                                                         *)
(* EntryRunByOne is not inductive: a claim is undone, and a row settled,   *)
(* by attempts that are not live any more.  KeptRows says of everything an *)
(* attempt executes, or has still to undo or to settle, that it is its     *)
(* own, unless a late failure is at it; UnwrittenClaims that the undoing   *)
(* of a claim does not go beyond it.                                       *)
(***************************************************************************)
EXTENDS QueueDispatch, WellFoundedInduction, TLAPS

\* The phases in which an attempt may hold its slot.
Held == {"persisting", "creating", "parked", "running", "ending", "stopped", "failing"}

\* What the attempt executes, may yet execute, or has still to undo or settle.
KeptBy(a) ==
    {e \in Carried(a) :
        \/ att[a].phase \in {"persisting", "running"}
        \/ att[a].phase \in {"creating", "parked"} /\ Owns(a)
        \/ /\ att[a].phase \in {"ending", "stopped"} \/ (att[a].phase = "failing" /\ Owns(a))
           /\ e \in att[a].todo}

\* The attempt failed before its start, not owning its slot any more.
Late(a) == (att[a].phase = "failing" /\ ~Owns(a)) \/ att[a].phase = "dropped"

AttemptsClaim ==
    \A a \in Attempts :
        /\ att[a].phase # "unused" => att[a].entry \in Entries /\ att[a].lead \in Cats
        /\ att[a].todo \subseteq Carried(a)

SlotsClaimed ==
    \A c \in Cats :
        IF slot[c].by = None THEN slot[c] = NoSlot
        ELSE /\ att[slot[c].by].phase # "unused" /\ att[slot[c].by].lead = c
             /\ slot[c].barrier \/ att[slot[c].by].phase \in Held

TurnsRun ==
    \A c \in Cats :
        /\ tracker[c] \in Attempts => att[tracker[c]].phase = "running"
        /\ tracker[c] # None => slot[c] \in {NoSlot, [by |-> tracker[c], barrier |-> FALSE]}

KeptRows ==
    \A a \in Attempts : \A e \in KeptBy(a) :
        \/ LateFailure(e)
        \/ /\ row[e].status \in {"processing", "gone"}
           /\ \A b \in Attempts : b # a => e \notin KeptBy(b)

Unwritten(a) ==
    att[a].phase = "persisting" /\ att[a].res # None =>
        /\ route[att[a].res].pc # "idle"
        /\ book[att[a].res].phase # "none" => book[att[a].res].members \subseteq Carried(a)

UnwrittenClaims == \A a \in Attempts : Unwritten(a)

BooksOpen ==
    \A s \in Steers : book[s].phase # "none" =>
        /\ route[s].pc # "idle"
        /\ book[s].primary \in book[s].members
        /\ \A e \in Entries : book[s].snap[e] = {} => row[e].status = "gone"

EmptyIsGone == \A e \in Entries : row[e].targets = {} => row[e].status = "gone"

RoutesRetire ==
    \A s \in Steers : route[s].pc = "retiring" =>
        route[s].retires \in Attempts /\ att[route[s].retires].phase # "unused"

\* What concerns who holds a cat, what concerns who holds a row, and what
\* concerns the queue alone.
CatsInv == AttemptsClaim /\ SlotsClaimed /\ TurnsRun /\ RoutesRetire
RowsInv == KeptRows /\ UnwrittenClaims
QueueInv == BooksOpen /\ EmptyIsGone

IInv == TypeOK /\ CatsInv /\ RowsInv /\ QueueInv

LEMMA InitIInv == Init => IInv
<1> SUFFICES ASSUME Init PROVE IInv
  OBVIOUS
<1> USE QueueAssumption DEF Init
<1>1. TypeOK
  BY DEF TypeOK, Row, Book, Slot, Attempt, NoSlot, NoBook, NoAttempt
<1>2. CatsInv
  BY DEF CatsInv, AttemptsClaim, SlotsClaimed, TurnsRun, RoutesRetire, NoSlot, NoAttempt
<1>3. RowsInv
  BY DEF RowsInv, KeptRows, UnwrittenClaims, Unwritten, KeptBy, NoAttempt
<1>4. QueueInv
  BY DEF QueueInv, BooksOpen, EmptyIsGone, NoBook
<1> QED BY <1>1, <1>2, <1>3, <1>4 DEF IInv

-----------------------------------------------------------------------------
\* targetCats[0] is one of the targets.
LEMMA FirstIsTarget ==
    ASSUME TypeOK, NEW e \in Entries, row[e].targets # {}
    PROVE  First(e) \in row[e].targets /\ First(e) \in Cats
<1> DEFINE less == OpToRel(<, Nat)
           T == {Rank[e][c] : c \in row[e].targets}
<1>1. row[e].targets \subseteq Cats
  BY DEF TypeOK, Row
<1>2. \A c \in Cats : Rank[e][c] \in Nat
  BY QueueAssumption
<1>3. T \subseteq Nat /\ T # {}
  BY <1>1, <1>2
<1>4. PICK x \in T : \A y \in T : ~(<<y, x>> \in less)
  <2> HIDE DEF T
  <2> QED BY <1>3, NatLessThanWellFounded, WFMin
<1>5. PICK c \in row[e].targets : x = Rank[e][c]
  BY <1>4
<1>6. ASSUME NEW d \in row[e].targets PROVE Rank[e][c] <= Rank[e][d]
  <2>1. Rank[e][d] \in T /\ Rank[e][d] \in Nat /\ Rank[e][c] \in Nat
    BY <1>1, <1>2
  <2>2. ~(<<Rank[e][d], Rank[e][c]>> \in less)
    BY <1>4, <1>5, <2>1
  <2>3. ~(Rank[e][d] < Rank[e][c])
    BY <2>1, <2>2 DEF OpToRel
  <2> QED BY <2>1, <2>3
<1>7. First(e) \in row[e].targets
  BY <1>6 DEF First
<1> QED BY <1>1, <1>7

\* Changing the status of some rows.
LEMMA WithStatusRows ==
    ASSUME TypeOK, NEW E,
           NEW st \in {"absent", "queued", "processing", "gone"}
    PROVE  /\ WithStatus(E, st) \in [Entries -> Row]
           /\ \A e \in Entries :
                 /\ WithStatus(E, st)[e].status = IF e \in E THEN st ELSE row[e].status
                 /\ WithStatus(E, st)[e].targets = row[e].targets
                 /\ WithStatus(E, st)[e].res = row[e].res
                 /\ e \notin E => WithStatus(E, st)[e] = row[e]
  BY DEF WithStatus, TypeOK, Row

\* Releasing reservations touches queued rows only, and none is left without
\* targets.
LEMMA RowsReleasedRows ==
    ASSUME TypeOK, BooksOpen, EmptyIsGone, NEW S \in SUBSET Steers
    PROVE  /\ RowsReleased(S) \in [Entries -> Row]
           /\ \A e \in Entries :
                 /\ RowsReleased(S)[e].status = row[e].status
                 /\ RowsReleased(S)[e].targets = {} => row[e].status = "gone"
                 /\ ~Queued(e) => RowsReleased(S)[e] = row[e]
<1>1. ASSUME NEW e \in Entries, Queued(e), row[e].res \in S, book[row[e].res].phase # "none"
      PROVE  book[row[e].res].snap[e] \in SUBSET Cats /\ book[row[e].res].snap[e] # {}
  <2>1. row[e].res \in Steers
    BY <1>1
  <2>2. book[row[e].res] \in Book
    BY <2>1 DEF TypeOK
  <2>3. book[row[e].res].snap[e] \in SUBSET Cats
    BY <2>2 DEF Book
  <2>4. book[row[e].res].snap[e] = {} => row[e].status = "gone"
    BY <1>1, <2>1 DEF BooksOpen
  <2> QED BY <1>1, <2>3, <2>4 DEF Queued
<1>2. RowsReleased(S) \in [Entries -> Row]
  BY <1>1, QueueAssumption DEF RowsReleased, TypeOK, Row
<1>3. ASSUME NEW e \in Entries
      PROVE  /\ RowsReleased(S)[e].status = row[e].status
             /\ RowsReleased(S)[e].targets = {} => row[e].status = "gone"
             /\ ~Queued(e) => RowsReleased(S)[e] = row[e]
  BY <1>1 DEF RowsReleased, TypeOK, Row, EmptyIsGone, Queued
<1> QED BY <1>2, <1>3

LEMMA DropBooks ==
    ASSUME TypeOK, NEW S
    PROVE  /\ Drop(S) \in [Steers -> Book]
           /\ \A s \in Steers : Drop(S)[s].phase # "none" => s \notin S /\ Drop(S)[s] = book[s]
  BY QueueAssumption DEF Drop, TypeOK, Book, NoBook

-----------------------------------------------------------------------------
\* Steps that claim nothing and put nothing back: rows are not requeued, no row
\* starts processing, and a steer under way keeps its bookkeeping or loses it.
RowsQuiet ==
    \A e \in Entries :
        /\ row[e].status \in {"processing", "gone"} => row'[e].status \in {"processing", "gone"}
        /\ row[e].status = "gone" => row'[e].status = "gone"
        /\ row'[e].status = "processing" => row[e].status = "processing" /\ row'[e].res = row[e].res

BooksQuiet ==
    \A s \in Steers :
        /\ route[s].pc # "idle" => route'[s].pc # "idle"
        /\ route[s].pc # "idle" /\ book'[s].phase # "none" =>
              book[s].phase # "none" /\ book'[s].members = book[s].members

RowsSafe ==
    \A e \in Entries :
        /\ row'[e].targets = {} => row'[e].status = "gone"
        /\ row[e].status = "gone" => row'[e].status = "gone"

BooksShrink ==
    \A s \in Steers :
        /\ route[s].pc # "idle" => route'[s].pc # "idle"
        /\ book'[s].phase # "none" =>
              /\ book[s].phase # "none"
              /\ book'[s].members = book[s].members
              /\ book'[s].primary = book[s].primary
              /\ book'[s].snap = book[s].snap

LEMMA CatsKept ==
    ASSUME CatsInv, UNCHANGED <<slot, tracker, att>>,
           \A s \in Steers : route'[s].pc = "retiring" => route'[s] = route[s]
    PROVE  CatsInv'
  BY DEF CatsInv, AttemptsClaim, SlotsClaimed, TurnsRun, RoutesRetire, Carried

\* An unwritten claim goes no further as long as its attempt is left alone.
LEMMA UnwrittenOne ==
    ASSUME TypeOK, NEW a \in Attempts, Unwritten(a), BooksQuiet,
           att'[a].phase = "persisting" => att'[a] = att[a]
    PROVE  Unwritten(a)'
<1> SUFFICES ASSUME att'[a].phase = "persisting", att'[a].res # None
             PROVE  /\ route'[att'[a].res].pc # "idle"
                    /\ book'[att'[a].res].phase # "none" =>
                          book'[att'[a].res].members \subseteq Carried(a)'
  BY DEF Unwritten
<1>1. att'[a] = att[a] /\ att[a].res \in Steers
  BY DEF TypeOK, Attempt
<1>2. Carried(a)' = Carried(a)
  BY <1>1 DEF Carried
<1> QED BY <1>1, <1>2 DEF Unwritten, BooksQuiet

\* An attempt the step leaves alone keeps what it kept, or less if it lost its slot.
LEMMA LeftAlone ==
    ASSUME NEW a \in Attempts, att'[a] = att[a],
           att[a].phase # "unused" /\ Owns(a)' => Owns(a)
    PROVE  /\ Carried(a)' = Carried(a)
           /\ KeptBy(a)' \subseteq KeptBy(a)
           /\ Late(a) => Late(a)'
<1>1. Carried(a)' = Carried(a)
  BY DEF Carried
<1>2. KeptBy(a)' \subseteq KeptBy(a)
  BY <1>1 DEF KeptBy
<1>3. Late(a) => Late(a)'
  BY DEF Late
<1> QED BY <1>1, <1>2, <1>3

\* No attempt keeps more than before, what is kept is not requeued, and what is
\* late remains late.
LEMMA KeptRowsKept ==
    ASSUME KeptRows,
           \A a \in Attempts :
               /\ KeptBy(a)' \subseteq KeptBy(a)
               /\ Late(a) => Late(a)' /\ Carried(a) \subseteq Carried(a)'
               /\ \A e \in KeptBy(a)' : row[e].status \in {"processing", "gone"} =>
                                             row'[e].status \in {"processing", "gone"}
    PROVE  KeptRows'
<1>1. \A e : LateFailure(e) => LateFailure(e)'
  BY DEF LateFailure, Late
<1> SUFFICES ASSUME NEW a \in Attempts, NEW e \in KeptBy(a)', ~LateFailure(e)'
             PROVE  /\ row'[e].status \in {"processing", "gone"}
                    /\ \A b \in Attempts : b # a => e \notin KeptBy(b)'
  BY DEF KeptRows
<1>2. /\ row[e].status \in {"processing", "gone"}
      /\ \A b \in Attempts : b # a => e \notin KeptBy(b)
  BY <1>1 DEF KeptRows
<1> QED BY <1>2

\* Whatever is carried is an entry.
LEMMA CarriedEntries ==
    ASSUME TypeOK, AttemptsClaim, NEW a \in Attempts, att[a].phase # "unused"
    PROVE  Carried(a) \subseteq Entries
  BY DEF Carried, AttemptsClaim, TypeOK, Attempt

LEMMA KeptEntries ==
    ASSUME TypeOK, AttemptsClaim, NEW a \in Attempts
    PROVE  KeptBy(a) \subseteq Entries /\ KeptBy(a) \subseteq Carried(a)
  BY CarriedEntries DEF KeptBy

LEMMA RowsKept ==
    ASSUME TypeOK, AttemptsClaim, RowsInv, UNCHANGED att, RowsQuiet, BooksQuiet,
           \A a \in Attempts : att[a].phase # "unused" /\ Owns(a)' => Owns(a)
    PROVE  RowsInv'
<1>1. \A a \in Attempts : /\ Carried(a)' = Carried(a)
                          /\ KeptBy(a)' \subseteq KeptBy(a)
                          /\ Late(a) => Late(a)'
  BY LeftAlone
<1>2. \A a \in Attempts : KeptBy(a) \subseteq Entries
  BY KeptEntries
<1>3. KeptRows'
  BY <1>1, <1>2, KeptRowsKept DEF RowsInv, RowsQuiet
<1>4. UnwrittenClaims'
  BY UnwrittenOne DEF RowsInv, UnwrittenClaims
<1> QED BY <1>3, <1>4 DEF RowsInv

LEMMA QueueKept ==
    ASSUME QueueInv, RowsSafe, BooksShrink
    PROVE  QueueInv'
  BY DEF QueueInv, RowsSafe, BooksShrink, BooksOpen, EmptyIsGone

LEMMA BooksShrinkQuietly ==
    ASSUME BooksShrink PROVE BooksQuiet
  BY DEF BooksShrink, BooksQuiet

\* Dropping bookkeeping only shrinks it.
LEMMA DropShrinks ==
    ASSUME TypeOK, NEW S, book' = Drop(S),
           \A s \in Steers : route[s].pc # "idle" => route'[s].pc # "idle"
    PROVE  BooksShrink
  BY DropBooks DEF BooksShrink

\* A quiet step of the queue.
LEMMA QuietIInv ==
    ASSUME IInv, UNCHANGED <<slot, tracker, att>>, TypeOK',
           RowsQuiet, RowsSafe, BooksShrink,
           \A s \in Steers : route'[s].pc = "retiring" => route'[s] = route[s]
    PROVE  IInv'
<1>1. CatsInv'
  BY CatsKept DEF IInv
<1>2. RowsInv'
  BY RowsKept, BooksShrinkQuietly DEF IInv, CatsInv, Owns
<1>3. QueueInv'
  BY QueueKept DEF IInv
<1> QED BY <1>1, <1>2, <1>3 DEF IInv

-----------------------------------------------------------------------------
LEMMA EnqueueIInv ==
    ASSUME IInv, NEW e \in Entries, Enqueue(e)
    PROVE  IInv'
<1>1. TypeOK'
  BY DEF Enqueue, IInv, QueueInv, EmptyIsGone, TypeOK, Row
<1>2. RowsQuiet /\ RowsSafe /\ BooksShrink
  BY DEF Enqueue, IInv, QueueInv, EmptyIsGone, TypeOK, Row, RowsQuiet, RowsSafe, BooksShrink
<1> QED BY <1>1, <1>2, QuietIInv DEF Enqueue

LEMMA WithdrawIInv ==
    ASSUME IInv, NEW e \in Entries, Withdraw(e)
    PROVE  IInv'
<1> DEFINE S == {row[e].res} \ {None}
<1>1. S \in SUBSET Steers
  BY DEF IInv, TypeOK, Row
<1> HIDE DEF S
<1>2. row' = [RowsReleased(S) EXCEPT ![e].status = "gone"] /\ book' = Drop(S) /\ Queued(e)
  BY DEF Withdraw, S
<1> DEFINE R == RowsReleased(S)
<1>3. /\ R \in [Entries -> Row]
      /\ \A x \in Entries : /\ R[x].status = row[x].status
                            /\ R[x].targets = {} => row[x].status = "gone"
                            /\ ~Queued(x) => R[x] = row[x]
  BY <1>1, RowsReleasedRows DEF IInv, QueueInv
<1> HIDE DEF R
<1>4. row' = [R EXCEPT ![e].status = "gone"]
  BY <1>2 DEF R
<1>5. /\ row' \in [Entries -> Row]
      /\ row'[e].status = "gone"
      /\ \A x \in Entries : x # e => row'[x] = R[x]
  BY <1>3, <1>4 DEF Row
<1>6. RowsQuiet /\ RowsSafe
  BY <1>2, <1>3, <1>5 DEF RowsQuiet, RowsSafe, Queued
<1>7. BooksShrink
  BY <1>2, DropShrinks DEF Withdraw, IInv
<1>8. TypeOK'
  <2>1. book' \in [Steers -> Book]
    BY <1>2, DropBooks DEF IInv
  <2>2. UNCHANGED <<route, slot, tracker, att, scan, clear>>
    BY DEF Withdraw
  <2>3. TypeOK
    BY DEF IInv
  <2> QED BY <1>5, <1>6, <2>1, <2>2, <2>3 DEF TypeOK, RowsSafe
<1> QED BY <1>6, <1>7, <1>8, QuietIInv DEF Withdraw

LEMMA ClearOneIInv ==
    ASSUME IInv, NEW e \in Entries, ClearOne(e)
    PROVE  IInv'
<1>1. /\ row' \in [Entries -> Row]
      /\ \A x \in Entries : row'[x] = row[x] \/ (row'[x].status = "gone" /\ Queued(x))
  BY WithStatusRows DEF ClearOne, IInv, TypeOK, Queued
<1>2. RowsQuiet /\ RowsSafe
  BY <1>1 DEF RowsQuiet, RowsSafe, Queued, IInv, QueueInv, EmptyIsGone
<1>3. BooksShrink
  BY DEF ClearOne, BooksShrink
<1>4. TypeOK'
  BY <1>1, <1>2 DEF ClearOne, IInv, TypeOK, RowsSafe
<1> QED BY <1>2, <1>3, <1>4, QuietIInv DEF ClearOne

LEMMA ClearQueueIInv ==
    ASSUME IInv, ClearQueue
    PROVE  IInv'
<1> DEFINE S == {row[e].res : e \in {x \in Entries : Queued(x) \/ Processing(x)}} \ {None}
           R == RowsReleased(S)
<1>1. S \in SUBSET Steers
  BY DEF IInv, TypeOK, Row
<1>2. /\ book' = Drop(S)
      /\ clear' \in SUBSET Entries
      /\ \/ row' = row
         \/ \E e \in Entries : Queued(e) /\ row' = [R EXCEPT ![e].status = "gone"]
  BY DEF ClearQueue, IInv, TypeOK
<1> HIDE DEF S
<1>3. /\ R \in [Entries -> Row]
      /\ \A x \in Entries : /\ R[x].status = row[x].status
                            /\ R[x].targets = {} => row[x].status = "gone"
                            /\ ~Queued(x) => R[x] = row[x]
  BY <1>1, RowsReleasedRows DEF IInv, QueueInv
<1> HIDE DEF R
<1>4. row' \in [Entries -> Row] /\ RowsQuiet /\ RowsSafe
  <2>1. CASE row' = row
    BY <2>1 DEF RowsQuiet, RowsSafe, IInv, QueueInv, EmptyIsGone, TypeOK
  <2>2. ASSUME NEW e \in Entries, Queued(e), row' = [R EXCEPT ![e].status = "gone"]
        PROVE  row' \in [Entries -> Row] /\ RowsQuiet /\ RowsSafe
    <3>1. /\ row' \in [Entries -> Row]
          /\ row'[e].status = "gone"
          /\ \A x \in Entries : x # e => row'[x] = R[x]
      BY <1>3, <2>2 DEF Row
    <3> QED BY <1>3, <2>2, <3>1 DEF RowsQuiet, RowsSafe, Queued
  <2> QED BY <1>2, <2>1, <2>2
<1>5. BooksShrink
  BY <1>2, DropShrinks DEF ClearQueue, IInv
<1>6. TypeOK'
  BY <1>2, <1>4, DropBooks DEF ClearQueue, IInv, TypeOK, RowsSafe
<1> QED BY <1>4, <1>5, <1>6, QuietIInv DEF ClearQueue

LEMMA ExternalIInv ==
    ASSUME IInv, NEW c \in Cats, ExternalStart(c) \/ ExternalEnd(c)
    PROVE  IInv'
<1> USE QueueAssumption
<1> USE DEF ExternalStart, ExternalEnd
<1>1. TypeOK'
  BY DEF IInv, TypeOK
<1>2. CatsInv'
  <2>1. (AttemptsClaim /\ SlotsClaimed /\ RoutesRetire)'
    BY DEF IInv, CatsInv, AttemptsClaim, SlotsClaimed, RoutesRetire, Carried
  <2>2. TurnsRun'
    <3> SUFFICES ASSUME NEW d \in Cats
                 PROVE  /\ tracker'[d] \in Attempts => att[tracker'[d]].phase = "running"
                        /\ tracker'[d] # None =>
                              slot[d] \in {NoSlot, [by |-> tracker'[d], barrier |-> FALSE]}
      BY DEF TurnsRun
    <3>1. CASE d # c
      BY <3>1 DEF IInv, TypeOK, CatsInv, TurnsRun
    <3>2. CASE d = c /\ ExternalStart(c)
      BY <3>2 DEF IInv, TypeOK
    <3>3. CASE d = c /\ ExternalEnd(c)
      BY <3>3 DEF IInv, TypeOK
    <3> QED BY <3>1, <3>2, <3>3
  <2> QED BY <2>1, <2>2 DEF CatsInv
<1>3. RowsInv'
  <2>1. RowsQuiet /\ BooksQuiet
    BY DEF RowsQuiet, BooksQuiet
  <2> QED BY <2>1, RowsKept DEF IInv, CatsInv, Owns
<1>4. QueueInv'
  BY DEF IInv, QueueInv, BooksOpen, EmptyIsGone
<1> QED BY <1>1, <1>2, <1>3, <1>4 DEF IInv

\* Bookkeeping of the scan alone.
LEMMA ScanOnlyIInv ==
    ASSUME IInv, UNCHANGED <<row, book, route, slot, tracker, att, clear>>,
           scan' \in [on : BOOLEAN, busy : SUBSET Cats]
    PROVE  IInv'
<1>1. RowsQuiet /\ RowsSafe /\ BooksShrink
  BY DEF RowsQuiet, RowsSafe, BooksShrink, IInv, QueueInv, EmptyIsGone
<1>2. TypeOK'
  BY DEF IInv, TypeOK
<1> QED BY <1>1, <1>2, QuietIInv

-----------------------------------------------------------------------------
\* A claim of queued rows for an idle cat.
LEMMA ClaimIInv ==
    ASSUME IInv, NEW a \in Attempts, NEW e \in Entries, NEW batch \in SUBSET Entries,
           NEW c \in Cats, NEW caller \in Steers \union {None},
           Claim(a, e, batch, c, caller),
           \A x \in {e} \union batch : Queued(x),
           ~CatBusy(c),
           row[e].res # None => /\ book[row[e].res].phase # "none"
                                /\ book[row[e].res].members \subseteq {e} \union batch,
           BooksShrink,
           \A s \in Steers : route'[s].pc = "retiring" => route'[s] = route[s],
           book' \in [Steers -> Book],
           route' \in [Steers -> [pc : {"idle", "persisting", "retiring", "preempted",
                                        "starting", "done"},
                                  retires : Attempts \union {None}]],
           scan' \in [on : BOOLEAN, busy : SUBSET Cats]
    PROVE  IInv'
<1> USE QueueAssumption
<1> DEFINE E == {e} \union batch
           rec == [phase |-> "persisting", entry |-> e, batch |-> batch,
                   cats |-> row[e].targets, lead |-> c, res |-> row[e].res,
                   caller |-> caller, ok |-> {}, todo |-> {}]
<1>1. TypeOK /\ att[a].phase = "unused"
  BY DEF IInv, Claim
<1>2. /\ row' \in [Entries -> Row]
      /\ \A x \in Entries : /\ x \in E => row'[x].status = "processing"
                            /\ row'[x].targets = row[x].targets
                            /\ row'[x].res = row[x].res
                            /\ x \notin E => row'[x] = row[x]
  BY <1>1, WithStatusRows DEF Claim
<1>3. rec \in Attempt /\ rec.phase = "persisting" /\ rec.lead = c /\ rec.entry = e
        /\ rec.batch = batch /\ rec.res = row[e].res /\ rec.todo = {}
  BY <1>1 DEF Attempt, TypeOK, Row
<1> HIDE DEF rec
<1>4. /\ att' = [att EXCEPT ![a] = rec]
      /\ att'[a] = rec /\ att' \in [Attempts -> Attempt]
      /\ \A b \in Attempts : b # a => att'[b] = att[b]
  BY <1>1, <1>3 DEF Claim, TypeOK, rec
<1>5. /\ slot' \in [Cats -> Slot]
      /\ slot'[c] = [by |-> a, barrier |-> FALSE] /\ slot'[c].by = a
      /\ \A d \in Cats : d # c => slot'[d] = slot[d]
  BY <1>1 DEF Claim, TypeOK, Slot
<1>6. slot[c] = NoSlot /\ slot[c].by = None /\ tracker[c] = None /\ tracker' = tracker
  BY DEF CatBusy, Claim, NoSlot
<1>7. \A d \in Cats : slot[d].by # a
  BY <1>1 DEF IInv, CatsInv, SlotsClaimed
<1>8. TypeOK'
  <2>1. \A x \in Entries : row'[x].status \in {"queued", "processing"} => row'[x].targets # {}
    <3> SUFFICES ASSUME NEW x \in Entries, row'[x].status \in {"queued", "processing"}
                 PROVE  row[x].targets # {}
      BY <1>2
    <3>1. CASE x \in E
      BY <1>1, <3>1 DEF TypeOK, Queued
    <3>2. CASE x \notin E
      BY <1>1, <1>2, <3>2 DEF TypeOK
    <3> QED BY <3>1, <3>2
  <2> QED BY <1>1, <1>2, <1>4, <1>5, <2>1 DEF TypeOK, Claim
<1>9. Carried(a)' = E
  BY <1>3, <1>4 DEF Carried
<1>10. ASSUME NEW b \in Attempts, b # a
       PROVE  /\ att'[b] = att[b] /\ Carried(b)' = Carried(b)
              /\ KeptBy(b)' \subseteq KeptBy(b)
              /\ Late(b) => Late(b)'
  <2>1. att[b].phase # "unused" /\ Owns(b)' => Owns(b)
    <3>1. att[b].phase # "unused" => att[b].lead \in Cats
      BY DEF IInv, CatsInv, AttemptsClaim
    <3>2. att'[b] = att[b]
      BY <1>4, <1>10
    <3> QED BY <1>5, <1>10, <3>1, <3>2 DEF Owns
  <2> QED BY <1>4, <1>10, <2>1, LeftAlone
<1>11. CatsInv'
  <2>1. AttemptsClaim'
    <3> SUFFICES ASSUME NEW b \in Attempts
                 PROVE  /\ att'[b].phase # "unused" =>
                              att'[b].entry \in Entries /\ att'[b].lead \in Cats
                        /\ att'[b].todo \subseteq Carried(b)'
      BY DEF AttemptsClaim
    <3>1. CASE b = a
      BY <1>3, <1>4, <3>1
    <3>2. CASE b # a
      BY <1>10, <3>2 DEF AttemptsClaim, IInv, CatsInv
    <3> QED BY <3>1, <3>2
  <2>2. SlotsClaimed'
    <3> SUFFICES ASSUME NEW d \in Cats
                 PROVE  IF slot'[d].by = None THEN slot'[d] = NoSlot
                        ELSE /\ att'[slot'[d].by].phase # "unused" /\ att'[slot'[d].by].lead = d
                             /\ slot'[d].barrier \/ att'[slot'[d].by].phase \in Held
      BY DEF SlotsClaimed
    <3>1. CASE d = c
      BY <1>3, <1>4, <1>5, <3>1 DEF Held
    <3>2. CASE d # c
      <4>1. slot'[d] = slot[d] /\ slot[d].by \in Attempts \union {None} /\ slot[d].by # a
        BY <1>1, <1>5, <1>7, <3>2 DEF TypeOK, Slot
      <4> QED BY <1>4, <4>1 DEF IInv, CatsInv, SlotsClaimed
    <3> QED BY <3>1, <3>2
  <2>3. TurnsRun'
    <3>1. \A d \in Cats : tracker[d] \in Attempts => tracker[d] # a
      BY <1>1 DEF IInv, CatsInv, TurnsRun
    <3> QED BY <1>4, <1>5, <1>6, <3>1 DEF IInv, CatsInv, TurnsRun
  <2>4. RoutesRetire'
    BY <1>3, <1>4 DEF IInv, CatsInv, RoutesRetire
  <2> QED BY <2>1, <2>2, <2>3, <2>4 DEF CatsInv
<1>12. KeptRows'
  <2>1. ASSUME NEW x, LateFailure(x) PROVE LateFailure(x)'
    <3>1. PICK w \in Attempts : x \in Carried(w) /\ Late(w)
      BY <2>1 DEF LateFailure, Late
    <3>2. w # a
      BY <1>1, <3>1 DEF Late
    <3>3. x \in Carried(w)' /\ Late(w)'
      BY <1>10, <3>1, <3>2
    <3> QED BY <3>3 DEF LateFailure, Late
  <2>2. KeptBy(a)' \subseteq E
    BY <1>9 DEF KeptBy
  <2> SUFFICES ASSUME NEW b \in Attempts, NEW x \in KeptBy(b)', ~LateFailure(x)'
               PROVE  /\ row'[x].status \in {"processing", "gone"}
                      /\ \A d \in Attempts : d # b => x \notin KeptBy(d)'
    BY DEF KeptRows
  <2>3. ~LateFailure(x)
    BY <2>1
  <2>4. CASE b = a
    <3>1. x \in E /\ x \in Entries
      BY <2>2, <2>4
    <3>2. \A d \in Attempts : x \notin KeptBy(d)
      BY <2>3, <3>1 DEF IInv, RowsInv, KeptRows, Queued
    <3> QED BY <1>2, <1>10, <2>4, <3>1, <3>2
  <2>5. CASE b # a
    <3>1. x \in KeptBy(b) /\ x \in Entries
      BY <1>1, <1>10, <2>5, KeptEntries DEF IInv, CatsInv
    <3>2. row[x].status \in {"processing", "gone"} /\ \A d \in Attempts : d # b => x \notin KeptBy(d)
      BY <2>3, <3>1 DEF IInv, RowsInv, KeptRows
    <3>3. x \notin E
      BY <3>2 DEF Queued
    <3> QED BY <1>2, <1>10, <2>2, <3>1, <3>2, <3>3
  <2> QED BY <2>4, <2>5
<1>13. UnwrittenClaims'
  <2> SUFFICES ASSUME NEW b \in Attempts PROVE Unwritten(b)'
    BY DEF UnwrittenClaims
  <2>1. CASE b = a
    <3>1. row[e].res # None => row[e].res \in Steers
      BY <1>1 DEF TypeOK, Row
    <3>2. row[e].res # None => /\ route'[row[e].res].pc # "idle"
                               /\ book'[row[e].res].phase # "none" =>
                                     book'[row[e].res].members \subseteq E
      BY <3>1 DEF BooksShrink, IInv, QueueInv, BooksOpen
    <3> QED BY <1>3, <1>4, <1>9, <2>1, <3>2 DEF Unwritten
  <2>2. CASE b # a
    BY <1>1, <1>10, <2>2, BooksShrinkQuietly, UnwrittenOne DEF IInv, RowsInv, UnwrittenClaims
  <2> QED BY <2>1, <2>2
<1>14. QueueInv'
  <2>1. RowsSafe
    BY <1>2 DEF RowsSafe, IInv, QueueInv, EmptyIsGone, Queued
  <2> QED BY <2>1, QueueKept DEF IInv
<1> QED BY <1>8, <1>11, <1>12, <1>13, <1>14 DEF IInv, RowsInv

\* A reservation that is intact is claimed whole.
LEMMA WholeReservation ==
    ASSUME IInv, NEW s \in Steers, Intact(s)
    PROVE  LET p == book[s].primary
           IN  /\ p \in Entries
               /\ book[s].members \in SUBSET Entries
               /\ {p} \union (book[s].members \ {p}) = book[s].members
               /\ \A x \in book[s].members : Queued(x) /\ row[x].res = s
               /\ row[p].res = s
               /\ First(p) \in Cats
<1>1. /\ book[s].primary \in book[s].members
      /\ book[s].members \in SUBSET Entries
      /\ \A x \in book[s].members : Queued(x) /\ row[x].res = s
  BY DEF IInv, TypeOK, Book, QueueInv, BooksOpen, Intact
<1>2. First(book[s].primary) \in Cats
  BY <1>1, FirstIsTarget DEF IInv, TypeOK, Queued
<1> QED BY <1>1, <1>2

LEMMA ClaimReservationIInv ==
    ASSUME IInv, NEW s \in Steers, NEW a \in Attempts, NEW caller \in Steers \union {None},
           Intact(s), ~CatBusy(First(book[s].primary)), ClaimReservation(s, a, caller),
           BooksShrink,
           \A t \in Steers : route'[t].pc = "retiring" => route'[t] = route[t],
           book' \in [Steers -> Book],
           route' \in [Steers -> [pc : {"idle", "persisting", "retiring", "preempted",
                                        "starting", "done"},
                                  retires : Attempts \union {None}]],
           scan' \in [on : BOOLEAN, busy : SUBSET Cats]
    PROVE  IInv'
<1> DEFINE p == book[s].primary
           batch == book[s].members \ {p}
<1>1. /\ p \in Entries /\ batch \in SUBSET Entries /\ First(p) \in Cats
      /\ {p} \union batch = book[s].members
      /\ \A x \in {p} \union batch : Queued(x)
      /\ row[p].res = s
  BY WholeReservation
<1>2. Claim(a, p, batch, First(p), caller)
  BY DEF ClaimReservation
<1>3. book[s].phase # "none"
  BY DEF Intact
<1> HIDE DEF p, batch
<1>4. ~CatBusy(First(p))
  BY DEF p
<1> QED BY <1>1, <1>2, <1>3, <1>4, ClaimIInv

LEMMA ClaimEntryIInv ==
    ASSUME IInv, NEW e \in Entries, NEW a \in Attempts,
           Queued(e), row[e].res = None, ~CatBusy(First(e)),
           Claim(a, e, {}, First(e), None),
           UNCHANGED <<book, route>>,
           scan' \in [on : BOOLEAN, busy : SUBSET Cats]
    PROVE  IInv'
<1>1. First(e) \in Cats
  BY FirstIsTarget DEF IInv, TypeOK, Queued
<1>2. BooksShrink
  BY DEF BooksShrink
<1>3. /\ book' \in [Steers -> Book]
      /\ route' \in [Steers -> [pc : {"idle", "persisting", "retiring", "preempted",
                                        "starting", "done"},
                                  retires : Attempts \union {None}]]
  BY DEF IInv, TypeOK
<1>4. \A x \in {e} \union {} : Queued(x)
  OBVIOUS
<1> QED BY <1>1, <1>2, <1>3, <1>4, ClaimIInv

LEMMA StartReservationIInv ==
    ASSUME IInv, NEW s \in Steers, NEW a \in Attempts, StartReservation(s, a)
    PROVE  IInv'
<1>1. BooksShrink
  BY DEF StartReservation, BooksShrink
<1>2. UNCHANGED <<book, route, scan>>
  BY DEF StartReservation
<1> QED BY <1>1, <1>2, ClaimReservationIInv DEF StartReservation, Claimable, IInv, TypeOK

LEMMA StartEntryIInv ==
    ASSUME IInv, NEW e \in Entries, NEW a \in Attempts, StartEntry(e, a)
    PROVE  IInv'
  BY ClaimEntryIInv DEF StartEntry, IInv, TypeOK

\* The phase of a reservation moves on.
LEMMA BookPhase ==
    ASSUME TypeOK, NEW s \in Steers, NEW ph \in {"reserved", "preempting", "activated"},
           book[s].phase # "none", book' = [book EXCEPT ![s].phase = ph],
           \A t \in Steers : route[t].pc # "idle" => route'[t].pc # "idle"
    PROVE  book' \in [Steers -> Book] /\ BooksShrink
<1>1. book[s] \in Book
  BY DEF TypeOK
<1> DEFINE b == [book[s] EXCEPT !.phase = ph]
<1>2. /\ b \in Book
      /\ b.members = book[s].members /\ b.primary = book[s].primary /\ b.snap = book[s].snap
  BY <1>1 DEF Book
<1>3. book' = [book EXCEPT ![s] = b]
  OBVIOUS
<1> HIDE DEF b
<1>4. book' \in [Steers -> Book]
  BY <1>2, <1>3 DEF TypeOK
<1>5. BooksShrink
  BY <1>2, <1>3 DEF BooksShrink, TypeOK
<1> QED BY <1>4, <1>5

LEMMA StartSteeredIInv ==
    ASSUME IInv, NEW s \in Steers, NEW a \in Attempts, StartSteered(s, a)
    PROVE  IInv'
<1>1. TypeOK
  BY DEF IInv
<1>2. book' = [book EXCEPT ![s].phase = "activated"]
  BY DEF StartSteered
<1>3. route' = [route EXCEPT ![s].pc = "starting"]
  BY DEF StartSteered, Goto
<1>4. /\ route' \in [Steers -> [pc : {"idle", "persisting", "retiring", "preempted",
                                        "starting", "done"},
                                  retires : Attempts \union {None}]]
      /\ \A t \in Steers : route'[t].pc = "retiring" => route'[t] = route[t]
      /\ \A t \in Steers : route[t].pc # "idle" => route'[t].pc # "idle"
  BY <1>1, <1>3 DEF TypeOK
<1>5. book' \in [Steers -> Book] /\ BooksShrink
  BY <1>1, <1>2, <1>4, BookPhase DEF StartSteered, Intact
<1>6. scan' \in [on : BOOLEAN, busy : SUBSET Cats]
  BY <1>1 DEF TypeOK, StartSteered
<1> QED BY <1>4, <1>5, <1>6, ClaimReservationIInv DEF StartSteered

LEMMA ScanIInv ==
    ASSUME IInv, ScanStep
    PROVE  IInv'
<1>1. ASSUME NEW c \in Cats, ScanSkips(c) PROVE IInv'
  BY <1>1, ScanOnlyIInv DEF ScanSkips, IInv, TypeOK
<1>2. EndScan => scan' \in [on : BOOLEAN, busy : SUBSET Cats]
  BY DEF EndScan
<1>3. ASSUME NEW a \in Attempts, NEW s \in Steers, ScanReservation(s, a) PROVE IInv'
  <2>1. Intact(s)
    BY <1>3 DEF ScanReservation, Offered, Claimable
  <2>2. First(book[s].primary) \in Cats
    BY <2>1, WholeReservation
  <2>3. CASE CatBusy(First(book[s].primary))
    BY <1>1, <1>3, <2>2, <2>3 DEF ScanReservation
  <2>4. CASE ~CatBusy(First(book[s].primary))
    <3>1. ClaimReservation(s, a, None) /\ EndScan /\ UNCHANGED <<book, route>>
      BY <1>3, <2>4 DEF ScanReservation
    <3>2. BooksShrink
      BY <3>1 DEF BooksShrink
    <3> QED BY <1>2, <2>1, <2>4, <3>1, <3>2, ClaimReservationIInv DEF IInv, TypeOK
  <2> QED BY <2>3, <2>4
<1>4. ASSUME NEW a \in Attempts, NEW e \in Entries, ScanEntry(e, a) PROVE IInv'
  <2>1. Queued(e) /\ row[e].res = None
    BY <1>4 DEF ScanEntry
  <2>2. First(e) \in Cats
    BY <2>1, FirstIsTarget DEF IInv, TypeOK, Queued
  <2>3. CASE CatBusy(First(e))
    BY <1>1, <1>4, <2>2, <2>3 DEF ScanEntry
  <2>4. CASE ~CatBusy(First(e))
    BY <1>2, <1>4, <2>1, <2>4, ClaimEntryIInv DEF ScanEntry
  <2> QED BY <2>3, <2>4
<1>5. ASSUME ScanFindsNothing PROVE IInv'
  BY <1>2, <1>5, ScanOnlyIInv DEF ScanFindsNothing
<1> QED BY <1>3, <1>4, <1>5 DEF ScanStep

-----------------------------------------------------------------------------
RouteStates == [pc : {"idle", "persisting", "retiring", "preempted", "starting", "done"},
                retires : Attempts \union {None}]

LEMMA GiveUpFacts ==
    ASSUME TypeOK, QueueInv, NEW s \in Steers, GiveUp(s)
    PROVE  /\ row' \in [Entries -> Row] /\ book' \in [Steers -> Book]
           /\ route' \in [Steers -> RouteStates]
           /\ RowsQuiet /\ RowsSafe /\ BooksShrink
           /\ \A t \in Steers : route'[t].pc = "retiring" => route'[t] = route[t]
<1>1. row' = RowsReleased({s}) /\ book' = Drop({s}) /\ route' = [route EXCEPT ![s].pc = "done"]
  BY DEF GiveUp, Goto
<1>2. /\ route' \in [Steers -> RouteStates]
      /\ \A t \in Steers : route'[t].pc = "retiring" => route'[t] = route[t]
      /\ \A t \in Steers : route[t].pc # "idle" => route'[t].pc # "idle"
  BY <1>1 DEF TypeOK, RouteStates
<1>3. book' \in [Steers -> Book] /\ BooksShrink
  BY <1>1, <1>2, DropBooks, DropShrinks
<1>4. {s} \in SUBSET Steers
  OBVIOUS
<1>5. /\ row' \in [Entries -> Row]
      /\ \A e \in Entries :
            /\ row'[e].status = row[e].status
            /\ row'[e].targets = {} => row[e].status = "gone"
            /\ ~Queued(e) => row'[e] = row[e]
  BY <1>1, <1>4, RowsReleasedRows DEF QueueInv
<1>6. RowsQuiet /\ RowsSafe
  BY <1>5 DEF RowsQuiet, RowsSafe, Queued
<1> QED BY <1>2, <1>3, <1>5, <1>6

LEMMA GiveUpIInv ==
    ASSUME IInv, NEW s \in Steers, GiveUp(s), UNCHANGED <<slot, tracker, att, scan, clear>>
    PROVE  IInv'
<1>1. /\ row' \in [Entries -> Row] /\ book' \in [Steers -> Book]
      /\ route' \in [Steers -> RouteStates]
      /\ RowsQuiet /\ RowsSafe /\ BooksShrink
      /\ \A t \in Steers : route'[t].pc = "retiring" => route'[t] = route[t]
  BY GiveUpFacts DEF IInv
<1>2. TypeOK'
  BY <1>1 DEF IInv, TypeOK, RowsSafe, RouteStates
<1> QED BY <1>1, <1>2, QuietIInv

LEMMA ReserveIInv ==
    ASSUME IInv, NEW s \in Steers, NEW E \in SUBSET Entries, NEW p \in Entries, Reserve(s, E, p)
    PROVE  IInv'
<1> DEFINE b == [phase |-> "reserved", target |-> First(p), primary |-> p,
                 members |-> E, snap |-> [e \in Entries |-> row[e].targets]]
<1>1. TypeOK /\ route[s].pc = "idle" /\ p \in E /\ (\A e \in E : Queued(e))
  BY DEF IInv, Reserve, Eligible
<1>2. First(p) \in Cats
  BY <1>1, FirstIsTarget DEF TypeOK, Queued
<1>3. /\ b \in Book /\ b.primary = p /\ b.members = E
      /\ \A e \in Entries : b.snap[e] = row[e].targets
  BY <1>1, <1>2 DEF Book, TypeOK, Row
<1>4. book' = [book EXCEPT ![s] = b]
  BY DEF Reserve
<1> HIDE DEF b
<1>5. /\ row' \in [Entries -> Row]
      /\ \A e \in Entries : /\ row'[e].status = row[e].status
                            /\ row'[e].targets = row[e].targets
                            /\ e \notin E => row'[e] = row[e]
  BY <1>1 DEF Reserve, TypeOK, Row
<1>6. /\ route' \in [Steers -> RouteStates]
      /\ route'[s].pc = "persisting"
      /\ \A t \in Steers : t # s => route'[t] = route[t]
  BY <1>1 DEF Reserve, Goto, TypeOK, RouteStates
<1>7. book' \in [Steers -> Book]
  BY <1>1, <1>3, <1>4 DEF TypeOK
<1>8. TypeOK'
  BY <1>1, <1>5, <1>6, <1>7 DEF Reserve, TypeOK, RouteStates
<1>9. RowsQuiet
  BY <1>1, <1>5 DEF RowsQuiet, Queued
<1>10. BooksQuiet
  BY <1>1, <1>4, <1>6 DEF BooksQuiet, TypeOK
<1>11. CatsInv'
  BY <1>6, CatsKept DEF Reserve, IInv
<1>12. RowsInv'
  BY <1>9, <1>10, RowsKept DEF Reserve, IInv, CatsInv, Owns
<1>13. QueueInv'
  <2>1. EmptyIsGone'
    BY <1>5 DEF IInv, QueueInv, EmptyIsGone
  <2>2. ASSUME NEW t \in Steers, book'[t].phase # "none"
        PROVE  /\ route'[t].pc # "idle"
               /\ book'[t].primary \in book'[t].members
               /\ \A e \in Entries : book'[t].snap[e] = {} => row'[e].status = "gone"
    <3>1. CASE t = s
      BY <1>1, <1>3, <1>4, <1>5, <1>6, <3>1 DEF IInv, QueueInv, EmptyIsGone, TypeOK
    <3>2. CASE t # s
      <4>1. book'[t] = book[t] /\ route'[t] = route[t]
        BY <1>1, <1>4, <1>6, <3>2 DEF TypeOK
      <4> QED BY <1>5, <2>2, <4>1 DEF IInv, QueueInv, BooksOpen
    <3> QED BY <3>1, <3>2
  <2> QED BY <2>1, <2>2 DEF QueueInv, BooksOpen
<1> QED BY <1>8, <1>11, <1>12, <1>13 DEF IInv

\* Freeing the slot of a cat, and with it the cat if a turn is at work there.
LEMMA FreeCat ==
    ASSUME IInv, NEW c \in Cats,
           slot' = [slot EXCEPT ![c] = NoSlot],
           tracker' \in {tracker, [tracker EXCEPT ![c] = None]},
           UNCHANGED att,
           \A s \in Steers : route'[s].pc = "retiring" => route'[s] = route[s],
           RowsQuiet, BooksQuiet
    PROVE  CatsInv' /\ RowsInv'
<1> USE QueueAssumption
<1>1. /\ TypeOK
      /\ \A d \in Cats : d # c => slot'[d] = slot[d]
      /\ \A d \in Cats : tracker'[d] \in {tracker[d], None}
      /\ slot'[c] = NoSlot /\ slot'[c].by = None
  BY DEF IInv, TypeOK, NoSlot
<1>2. CatsInv'
  <2>1. AttemptsClaim' /\ RoutesRetire'
    BY DEF IInv, CatsInv, AttemptsClaim, RoutesRetire, Carried
  <2>2. SlotsClaimed'
    BY <1>1 DEF IInv, CatsInv, SlotsClaimed
  <2>3. TurnsRun'
    BY <1>1 DEF IInv, CatsInv, TurnsRun
  <2> QED BY <2>1, <2>2, <2>3 DEF CatsInv
<1>3. ASSUME NEW a \in Attempts, att[a].phase # "unused", Owns(a)' PROVE Owns(a)
  <2>1. att[a].lead \in Cats
    BY <1>3 DEF IInv, CatsInv, AttemptsClaim
  <2> QED BY <1>1, <1>3, <2>1 DEF Owns
<1>4. RowsInv'
  BY <1>1, <1>3, RowsKept DEF IInv, CatsInv
<1> QED BY <1>2, <1>4

\* The user's stop: neither the queue nor any attempt learns of it.
LEMMA StopIInv ==
    ASSUME IInv, NEW c \in Cats, Stop(c) \/ ReleaseSlot(c)
    PROVE  IInv'
<1> USE QueueAssumption
<1>1. /\ slot' = [slot EXCEPT ![c] = NoSlot]
      /\ tracker' \in {tracker, [tracker EXCEPT ![c] = None]}
      /\ UNCHANGED <<row, book, route, att, scan, clear>>
  BY DEF Stop, ReleaseSlot
<1>2. RowsQuiet /\ BooksQuiet /\ RowsSafe /\ BooksShrink
  BY <1>1 DEF RowsQuiet, BooksQuiet, RowsSafe, BooksShrink, IInv, QueueInv, EmptyIsGone
<1>3. CatsInv' /\ RowsInv'
  BY <1>1, <1>2, FreeCat
<1>4. TypeOK'
  <2>1. slot' \in [Cats -> Slot] /\ tracker' \in [Cats -> Attempts \union {External, None}]
    BY <1>1 DEF IInv, TypeOK, Slot, NoSlot
  <2> QED BY <1>1, <2>1 DEF IInv, TypeOK
<1> QED BY <1>2, <1>3, <1>4, QueueKept DEF IInv

\* Barring an execution that has not started its turn.
LEMMA BarSlot ==
    ASSUME IInv, NEW c \in Cats, tracker[c] = None,
           slot[c].by # None,
           slot' = [slot EXCEPT ![c].barrier = TRUE],
           UNCHANGED <<tracker, att, row>>,
           BooksQuiet
    PROVE  AttemptsClaim' /\ SlotsClaimed' /\ TurnsRun' /\ RowsInv'
<1> USE QueueAssumption
<1>1. /\ TypeOK
      /\ \A d \in Cats : slot'[d].by = slot[d].by /\ (d # c => slot'[d] = slot[d])
      /\ slot'[c].barrier = TRUE
  BY DEF IInv, TypeOK, Slot
<1>2. AttemptsClaim' /\ SlotsClaimed' /\ TurnsRun'
  <2>1. AttemptsClaim'
    BY DEF IInv, CatsInv, AttemptsClaim, Carried
  <2>2. SlotsClaimed'
    BY <1>1 DEF IInv, CatsInv, SlotsClaimed
  <2>3. TurnsRun'
    BY <1>1 DEF IInv, CatsInv, TurnsRun
  <2> QED BY <2>1, <2>2, <2>3
<1>3. ASSUME NEW a \in Attempts, att[a].phase # "unused", Owns(a)' PROVE Owns(a)
  <2>1. att[a].lead \in Cats /\ slot'[att[a].lead] = [by |-> a, barrier |-> FALSE]
    BY <1>3 DEF IInv, CatsInv, AttemptsClaim, Owns
  <2>2. att[a].lead # c
    BY <1>1, <2>1
  <2> QED BY <1>1, <2>1, <2>2 DEF Owns
<1>4. RowsInv'
  <2>1. RowsQuiet
    BY DEF RowsQuiet
  <2> QED BY <1>1, <1>3, <2>1, RowsKept DEF IInv, CatsInv
<1> QED BY <1>2, <1>4

LEMMA PreemptIInv ==
    ASSUME IInv, NEW s \in Steers, Preempt(s)
    PROVE  IInv'
<1> USE QueueAssumption
<1> DEFINE c == book[s].target
           inFlight == \E e \in Entries : Processing(e) /\ First(e) = c
           owner == slot[c].by
<1>1. TypeOK /\ route[s].pc = "persisting" /\ UNCHANGED <<att, scan, clear>>
  BY DEF Preempt, IInv
<1>2. CASE GiveUp(s) /\ UNCHANGED <<slot, tracker>>
  BY <1>1, <1>2, GiveUpIInv
<1> DEFINE Moves == /\ book[s].phase # "none"
                    /\ book' = [book EXCEPT ![s].phase = "preempting"]
                    /\ \A t \in Steers : route[t].pc # "idle" => route'[t].pc # "idle"
<1>3. ASSUME Moves PROVE book' \in [Steers -> Book] /\ BooksShrink /\ BooksQuiet
  BY <1>1, <1>3, BookPhase, BooksShrinkQuietly
<1>4. UNCHANGED row => RowsQuiet /\ RowsSafe
  BY DEF RowsQuiet, RowsSafe, IInv, QueueInv, EmptyIsGone
<1>5. ASSUME Goto(s, "preempted")
      PROVE  /\ route' \in [Steers -> RouteStates]
             /\ \A t \in Steers : route'[t].pc = "retiring" => route'[t] = route[t]
             /\ \A t \in Steers : route[t].pc # "idle" => route'[t].pc # "idle"
  BY <1>1, <1>5 DEF Goto, TypeOK, RouteStates
<1>6. CASE /\ tracker[c] # None
           /\ book[s].phase = "reserved"
           /\ tracker' = [tracker EXCEPT ![c] = None]
           /\ slot' = [slot EXCEPT ![c] = NoSlot]
           /\ book' = [book EXCEPT ![s].phase = "preempting"]
           /\ Goto(s, "preempted")
           /\ UNCHANGED row
  <2>1. book' \in [Steers -> Book] /\ BooksShrink /\ BooksQuiet
    BY <1>3, <1>5, <1>6
  <2>2. /\ slot' \in [Cats -> Slot]
        /\ tracker' \in [Cats -> Attempts \union {External, None}]
    BY <1>1, <1>6 DEF TypeOK, Slot, NoSlot
  <2>3. TypeOK'
    BY <1>1, <1>5, <1>6, <2>1, <2>2 DEF TypeOK, RouteStates
  <2>4. CASE c \in Cats
    <3>1. CatsInv' /\ RowsInv'
      <4> HIDE DEF c
      <4> QED BY <1>1, <1>4, <1>5, <1>6, <2>1, <2>4, FreeCat
    <3>2. QueueInv'
      BY <1>4, <1>6, <2>1, QueueKept DEF IInv
    <3> QED BY <2>3, <3>1, <3>2 DEF IInv
  <2>5. CASE c \notin Cats
    <3>1. UNCHANGED <<slot, tracker>>
      BY <1>1, <1>6, <2>2, <2>5 DEF TypeOK
    <3> QED BY <1>1, <1>4, <1>5, <1>6, <2>1, <2>3, <3>1, QuietIInv
  <2> QED BY <2>4, <2>5
<1>7. CASE /\ book[s].phase = "reserved"
           /\ book' = [book EXCEPT ![s].phase = "preempting"]
           /\ Goto(s, "preempted")
           /\ UNCHANGED <<row, slot, tracker>>
  <2>1. book' \in [Steers -> Book] /\ BooksShrink
    BY <1>3, <1>5, <1>7
  <2>2. TypeOK'
    BY <1>1, <1>5, <1>7, <2>1 DEF TypeOK, RouteStates
  <2> QED BY <1>1, <1>4, <1>5, <1>7, <2>1, <2>2, QuietIInv
<1>8. CASE /\ tracker[c] = None /\ inFlight
           /\ book[s].phase = "reserved"
           /\ owner # None
           /\ slot' = [slot EXCEPT ![c].barrier = TRUE]
           /\ book' = [book EXCEPT ![s].phase = "preempting"]
           /\ route' = [route EXCEPT ![s] = [pc |-> "retiring", retires |-> owner]]
           /\ UNCHANGED <<row, tracker>>
  <2>1. c \in Cats
    <3>1. PICK e \in Entries : Processing(e) /\ First(e) = c
      BY <1>8
    <3> QED BY <1>1, <3>1, FirstIsTarget DEF TypeOK, Processing
  <2>2. owner \in Attempts /\ att[owner].phase # "unused"
    BY <1>1, <1>8, <2>1 DEF IInv, CatsInv, SlotsClaimed, TypeOK, Slot
  <2> HIDE DEF c, owner
  <2>3. /\ route' \in [Steers -> RouteStates]
        /\ route'[s] = [pc |-> "retiring", retires |-> owner]
        /\ \A t \in Steers : t # s => route'[t] = route[t]
        /\ \A t \in Steers : route[t].pc # "idle" => route'[t].pc # "idle"
    BY <1>1, <1>8, <2>2 DEF TypeOK, RouteStates
  <2>4. book' \in [Steers -> Book] /\ BooksShrink /\ BooksQuiet
    BY <1>3, <1>8, <2>3
  <2>5. slot' \in [Cats -> Slot]
    <3>1. slot[c] \in Slot
      BY <1>1, <2>1 DEF TypeOK
    <3>2. [slot[c] EXCEPT !.barrier = TRUE] \in Slot
      BY <3>1 DEF Slot
    <3>3. slot' = [slot EXCEPT ![c] = [slot[c] EXCEPT !.barrier = TRUE]]
      BY <1>8
    <3> QED BY <1>1, <3>2, <3>3 DEF TypeOK
  <2>6. TypeOK'
    BY <1>1, <1>8, <2>3, <2>4, <2>5 DEF TypeOK, RouteStates
  <2>7. AttemptsClaim' /\ SlotsClaimed' /\ TurnsRun' /\ RowsInv'
    BY <1>1, <1>8, <2>1, <2>4, BarSlot DEF owner
  <2>8. RoutesRetire'
    BY <1>1, <2>2, <2>3 DEF IInv, CatsInv, RoutesRetire
  <2>9. QueueInv'
    BY <1>4, <1>8, <2>4, QueueKept DEF IInv
  <2> QED BY <2>6, <2>7, <2>8, <2>9 DEF IInv, CatsInv
<1> QED BY <1>2, <1>6, <1>7, <1>8 DEF Preempt

\* The rows of a barred execution are removed and its slot freed.
LEMMA CommitRetirementIInv ==
    ASSUME IInv, NEW s \in Steers, CommitRetirement(s)
    PROVE  IInv'
<1> USE QueueAssumption
<1> DEFINE c == book[s].target
           a == route[s].retires
           group == Group(att[a].entry)
           owned == row[att[a].entry].res
<1>1. TypeOK /\ route[s].pc = "retiring" /\ UNCHANGED <<tracker, att, scan, clear>>
  BY DEF CommitRetirement, IInv
<1>2. CASE GiveUp(s) /\ UNCHANGED slot
  BY <1>1, <1>2, GiveUpIInv
<1>3. CASE /\ slot[c] = [by |-> a, barrier |-> TRUE] /\ group # {}
           /\ row' = WithStatus(group, "gone")
           /\ book' = Drop({owned} \ {None})
           /\ slot' = [slot EXCEPT ![c] = NoSlot]
           /\ Goto(s, "preempted")
  <2>1. /\ row' \in [Entries -> Row]
        /\ \A e \in Entries : /\ e \in group => row'[e].status = "gone"
                              /\ row'[e].targets = row[e].targets
                              /\ e \notin group => row'[e] = row[e]
    <3> HIDE DEF group
    <3> QED BY <1>1, <1>3, WithStatusRows
  <2> HIDE DEF group
  <2>2. RowsQuiet /\ RowsSafe
    BY <2>1 DEF RowsQuiet, RowsSafe, IInv, QueueInv, EmptyIsGone
  <2>3. /\ route' \in [Steers -> RouteStates]
        /\ \A t \in Steers : route'[t].pc = "retiring" => route'[t] = route[t]
        /\ \A t \in Steers : route[t].pc # "idle" => route'[t].pc # "idle"
    BY <1>1, <1>3 DEF Goto, TypeOK, RouteStates
  <2>4. book' \in [Steers -> Book] /\ BooksShrink /\ BooksQuiet
    <3> HIDE DEF owned
    <3> QED BY <1>1, <1>3, <2>3, DropBooks, DropShrinks, BooksShrinkQuietly
  <2>5. slot' \in [Cats -> Slot]
    BY <1>1, <1>3 DEF TypeOK, Slot, NoSlot
  <2>6. TypeOK'
    BY <1>1, <2>1, <2>2, <2>3, <2>4, <2>5 DEF TypeOK, RouteStates, RowsSafe
  <2>7. QueueInv'
    BY <2>2, <2>4, QueueKept DEF IInv
  <2>8. CASE c \notin Cats
    <3>1. UNCHANGED slot
      BY <1>1, <1>3, <2>5, <2>8 DEF TypeOK
    <3> QED BY <1>1, <2>2, <2>3, <2>4, <2>6, <3>1, QuietIInv
  <2>9. CASE c \in Cats
    <3> HIDE DEF c, a
    <3>1. CatsInv' /\ RowsInv'
      BY <1>1, <1>3, <2>2, <2>3, <2>4, <2>9, FreeCat
    <3> QED BY <2>6, <2>7, <3>1 DEF IInv
  <2> QED BY <2>8, <2>9
<1> QED BY <1>1, <1>2, <1>3 DEF CommitRetirement

LEMMA SteerStepIInv ==
    ASSUME IInv, NEW s \in Steers, SteerStep(s)
    PROVE  IInv'
<1>1. ASSUME NEW E \in SUBSET Entries, NEW p \in Entries, Reserve(s, E, p) PROVE IInv'
  BY <1>1, ReserveIInv
<1>2. CASE ReservationNotWritten(s) \/ RetirementNotWritten(s) \/ SteerNotStarted(s)
  BY <1>2, GiveUpIInv DEF ReservationNotWritten, RetirementNotWritten, SteerNotStarted
<1> QED BY <1>1, <1>2, PreemptIInv, CommitRetirementIInv, StartSteeredIInv DEF SteerStep

-----------------------------------------------------------------------------
\* A step of one attempt: it frees at most the slot it owns, gives up its slot
\* before it is over, and if it failed late goes on as such.
AttemptStep(a) ==
    /\ att[a].phase # "unused" /\ att'[a].phase # "unused"
    /\ att'[a].lead = att[a].lead /\ att'[a].entry = att[a].entry
    /\ att'[a].todo \subseteq Carried(a)'
    /\ \A b \in Attempts : b # a => att'[b] = att[b]
    /\ \/ slot' = slot /\ (Owns(a) => att'[a].phase \in Held)
       \/ Owns(a) /\ slot' = [slot EXCEPT ![att[a].lead] = NoSlot]
    /\ Late(a) => Late(a)' /\ Carried(a) \subseteq Carried(a)'

\* An attempt in one of these phases is in the middle of its life.
Begun == Held \union {"restoring", "completing", "done", "dropped"}

LEMMA PhaseMoves ==
    ASSUME TypeOK, NEW a \in Attempts, NEW ph \in Begun, Phase(a, ph)
    PROVE  /\ att' \in [Attempts -> Attempt]
           /\ att'[a].phase = ph
           /\ att'[a].lead = att[a].lead /\ att'[a].entry = att[a].entry
           /\ att'[a].todo = att[a].todo /\ Carried(a)' = Carried(a)
           /\ \A b \in Attempts : b # a => att'[b] = att[b]
<1> DEFINE r == [att[a] EXCEPT !.phase = ph]
<1>1. att[a] \in Attempt
  BY DEF TypeOK
<1>2. /\ r \in Attempt /\ r.phase = ph /\ r.lead = att[a].lead /\ r.entry = att[a].entry
      /\ r.batch = att[a].batch /\ r.todo = att[a].todo
  BY <1>1 DEF Attempt, Begun, Held
<1>3. att' = [att EXCEPT ![a] = r]
  BY DEF Phase
<1> HIDE DEF r
<1> QED BY <1>2, <1>3 DEF TypeOK, Carried

LEMMA BatchMoves ==
    ASSUME TypeOK, AttemptsClaim, NEW a \in Attempts, NEW ph \in Begun,
           NEW extra \in SUBSET Entries,
           att' = [att EXCEPT ![a].phase = ph, ![a].batch = att[a].batch \union extra]
    PROVE  /\ att' \in [Attempts -> Attempt]
           /\ att'[a].phase = ph
           /\ att'[a].lead = att[a].lead /\ att'[a].entry = att[a].entry
           /\ att'[a].todo = att[a].todo /\ Carried(a)' = Carried(a) \union extra
           /\ \A b \in Attempts : b # a => att'[b] = att[b]
<1> DEFINE batch == att[a].batch \union extra
           r == [att[a] EXCEPT !.phase = ph]
           q == [r EXCEPT !.batch = batch]
<1>1. att[a] \in Attempt
  BY DEF TypeOK
<1>2. /\ r \in Attempt /\ r.phase = ph /\ r.lead = att[a].lead /\ r.entry = att[a].entry
      /\ r.todo = att[a].todo
  BY <1>1 DEF Attempt, Begun, Held
<1>3. att' = [att EXCEPT ![a] = q]
  BY DEF TypeOK
<1>4. batch \in SUBSET Entries
  BY <1>1 DEF Attempt
<1> HIDE DEF r, batch
<1>5. /\ q \in Attempt /\ q.phase = ph /\ q.lead = att[a].lead /\ q.entry = att[a].entry
      /\ q.batch = batch /\ q.todo = att[a].todo
  BY <1>2, <1>4 DEF Attempt
<1> HIDE DEF q
<1> QED BY <1>3, <1>5 DEF TypeOK, Carried, batch

\* The attempt moves on and has these rows left to settle.
LEMMA TodoMoves ==
    ASSUME TypeOK, NEW a \in Attempts, NEW ph \in Begun, NEW ok \in SUBSET Cats,
           NEW todo \in SUBSET Entries,
           att' = [att EXCEPT ![a].phase = ph, ![a].ok = ok, ![a].todo = todo]
    PROVE  /\ att' \in [Attempts -> Attempt]
           /\ att'[a].phase = ph
           /\ att'[a].lead = att[a].lead /\ att'[a].entry = att[a].entry
           /\ att'[a].todo = todo /\ Carried(a)' = Carried(a)
           /\ \A b \in Attempts : b # a => att'[b] = att[b]
<1> DEFINE r == [att[a] EXCEPT !.phase = ph]
           q == [r EXCEPT !.ok = ok]
           p == [q EXCEPT !.todo = todo]
<1>1. att[a] \in Attempt
  BY DEF TypeOK
<1>2. /\ r \in Attempt /\ r.phase = ph /\ r.lead = att[a].lead /\ r.entry = att[a].entry
      /\ r.batch = att[a].batch
  BY <1>1 DEF Attempt, Begun, Held
<1>3. att' = [att EXCEPT ![a] = p]
  BY DEF TypeOK
<1> HIDE DEF r
<1>4. /\ q \in Attempt /\ q.phase = ph /\ q.lead = att[a].lead /\ q.entry = att[a].entry
      /\ q.batch = att[a].batch
  BY <1>2 DEF Attempt
<1> HIDE DEF q
<1>5. /\ p \in Attempt /\ p.phase = ph /\ p.lead = att[a].lead /\ p.entry = att[a].entry
      /\ p.batch = att[a].batch /\ p.todo = todo
  BY <1>4 DEF Attempt
<1> HIDE DEF p
<1>6. /\ att' \in [Attempts -> Attempt] /\ att'[a] = p
      /\ \A b \in Attempts : b # a => att'[b] = att[b]
  <2>1. att \in [Attempts -> Attempt] /\ p \in Attempt /\ att' = [att EXCEPT ![a] = p]
    BY <1>3, <1>5 DEF TypeOK
  <2>2. att' \in [Attempts -> Attempt]
    BY <2>1
  <2>3. att'[a] = p
    BY <2>1
  <2>4. \A b \in Attempts : b # a => att'[b] = att[b]
    BY <2>1
  <2> QED BY <2>2, <2>3, <2>4
<1> QED BY <1>5, <1>6 DEF Carried

LEMMA FreeOwnSlotFacts ==
    ASSUME TypeOK, NEW a \in Attempts, FreeOwnSlot(a)
    PROVE  /\ slot' \in [Cats -> Slot]
           /\ \/ slot' = slot /\ ~Owns(a)
              \/ Owns(a) /\ slot' = [slot EXCEPT ![att[a].lead] = NoSlot]
  BY QueueAssumption DEF FreeOwnSlot, TypeOK, Slot, NoSlot

\* Only an attempt that is not over owns its slot.
LEMMA OwnerHolds ==
    ASSUME CatsInv, NEW a \in Attempts, att[a].phase # "unused", Owns(a)
    PROVE  att[a].phase \in Held
<1>1. att[a].lead \in Cats /\ slot[att[a].lead] = [by |-> a, barrier |-> FALSE]
  BY DEF CatsInv, AttemptsClaim, Owns
<1> QED BY <1>1, QueueAssumption DEF CatsInv, SlotsClaimed

\* A step of one attempt takes a slot to be free or leaves it.
LEMMA SlotsShrink ==
    ASSUME TypeOK, NEW a \in Attempts, AttemptStep(a), NEW c \in Cats
    PROVE  slot'[c] = slot[c] \/ (slot'[c] = NoSlot /\ slot[c] = [by |-> a, barrier |-> FALSE])
  BY DEF AttemptStep, Owns, TypeOK

\* What such a step leaves to the others.
LEMMA OthersKeep ==
    ASSUME TypeOK, AttemptsClaim, NEW a \in Attempts, AttemptStep(a),
           NEW b \in Attempts, b # a
    PROVE  /\ att'[b] = att[b] /\ Carried(b)' = Carried(b)
           /\ KeptBy(b)' \subseteq KeptBy(b)
           /\ Late(b) => Late(b)'
<1>1. att'[b] = att[b]
  BY DEF AttemptStep
<1>2. ASSUME att[b].phase # "unused", Owns(b)' PROVE Owns(b)
  <2>1. att[b].lead \in Cats
    BY <1>2 DEF AttemptsClaim
  <2>2. slot'[att[b].lead] = [by |-> b, barrier |-> FALSE]
    BY <1>1, <1>2 DEF Owns
  <2>3. slot'[att[b].lead] # NoSlot
    BY <2>2, QueueAssumption DEF NoSlot
  <2> QED BY <2>1, <2>2, <2>3, SlotsShrink DEF Owns
<1> QED BY <1>1, <1>2, LeftAlone

LEMMA LateStays ==
    ASSUME TypeOK, AttemptsClaim, NEW a \in Attempts, AttemptStep(a), NEW e, LateFailure(e)
    PROVE  LateFailure(e)'
<1>1. PICK b \in Attempts : e \in Carried(b) /\ Late(b)
  BY DEF LateFailure, Late
<1>2. e \in Carried(b)' /\ Late(b)'
  <2>1. CASE b = a
    BY <1>1, <2>1 DEF AttemptStep
  <2>2. CASE b # a
    BY <1>1, <2>2, OthersKeep
  <2> QED BY <2>1, <2>2
<1> QED BY <1>2 DEF LateFailure, Late

\* Who holds the cats after a step of an attempt, whether or not it starts its
\* turn: the slots come first.
LEMMA SlotsAfterStep ==
    ASSUME IInv, NEW a \in Attempts, AttemptStep(a),
           \A s \in Steers : route'[s].pc = "retiring" => route'[s] = route[s]
    PROVE  AttemptsClaim' /\ SlotsClaimed' /\ RoutesRetire'
<1> USE QueueAssumption
<1>1. TypeOK /\ att[a].lead \in Cats
  BY DEF IInv, CatsInv, AttemptsClaim, AttemptStep
<1>2. AttemptsClaim'
  <2> SUFFICES ASSUME NEW b \in Attempts
               PROVE  /\ att'[b].phase # "unused" =>
                            att'[b].entry \in Entries /\ att'[b].lead \in Cats
                      /\ att'[b].todo \subseteq Carried(b)'
    BY DEF AttemptsClaim
  <2>1. CASE b = a
    BY <2>1 DEF IInv, CatsInv, AttemptsClaim, AttemptStep
  <2>2. CASE b # a
    BY <1>1, <2>2, OthersKeep DEF IInv, CatsInv, AttemptsClaim
  <2> QED BY <2>1, <2>2
<1>3. SlotsClaimed'
  <2> SUFFICES ASSUME NEW c \in Cats
               PROVE  IF slot'[c].by = None THEN slot'[c] = NoSlot
                      ELSE /\ att'[slot'[c].by].phase # "unused" /\ att'[slot'[c].by].lead = c
                           /\ slot'[c].barrier \/ att'[slot'[c].by].phase \in Held
    BY DEF SlotsClaimed
  <2>1. CASE slot'[c] = NoSlot
    BY <2>1 DEF NoSlot
  <2>2. CASE slot'[c] = slot[c] /\ slot[c].by = None
    BY <2>2 DEF IInv, CatsInv, SlotsClaimed
  <2>3. CASE slot'[c] = slot[c] /\ slot[c] # NoSlot /\ slot[c].by # None
    <3>1. /\ slot[c].by \in Attempts
          /\ att[slot[c].by].phase # "unused" /\ att[slot[c].by].lead = c
          /\ slot[c].barrier \/ att[slot[c].by].phase \in Held
      BY <1>1, <2>3 DEF TypeOK, Slot, IInv, CatsInv, SlotsClaimed
    <3>2. CASE slot[c].by # a
      BY <2>3, <3>1, <3>2 DEF AttemptStep
    <3>3. CASE slot[c].by = a /\ slot[c].barrier
      BY <2>3, <3>1, <3>3 DEF AttemptStep
    <3>4. CASE slot[c].by = a /\ ~slot[c].barrier
      <4>1. Owns(a)
        <5>1. slot[c] = [by |-> a, barrier |-> FALSE]
          BY <1>1, <3>4 DEF TypeOK, Slot
        <5> QED BY <3>1, <3>4, <5>1 DEF Owns
      <4>2. slot' = slot
        BY <1>1, <2>3, <3>1, <3>4 DEF AttemptStep, TypeOK
      <4>3. slot # [slot EXCEPT ![att[a].lead] = NoSlot]
        BY <1>1, <2>3, <3>1, <3>4 DEF TypeOK
      <4> QED BY <2>3, <3>1, <3>4, <4>1, <4>2, <4>3 DEF AttemptStep
    <3> QED BY <3>1, <3>2, <3>3, <3>4
  <2>4. slot[c] = NoSlot => slot[c].by = None
    BY DEF NoSlot
  <2> QED BY <1>1, <2>1, <2>2, <2>3, <2>4, SlotsShrink
<1>4. RoutesRetire'
  BY DEF IInv, CatsInv, RoutesRetire, AttemptStep
<1> QED BY <1>2, <1>3, <1>4

\* The step starts no turn.
LEMMA CatsAfterStep ==
    ASSUME IInv, NEW a \in Attempts, AttemptStep(a),
           att'[a].phase # "running",
           \/ att[a].phase # "running" /\ tracker' = tracker
           \/ tracker' = [c \in Cats |-> IF tracker[c] = a THEN None ELSE tracker[c]],
           \A s \in Steers : route'[s].pc = "retiring" => route'[s] = route[s]
    PROVE  CatsInv'
<1> USE QueueAssumption
<1>1. TypeOK
  BY DEF IInv
<1>2. \A c \in Cats : tracker'[c] \in {None, tracker[c]} /\ tracker'[c] # a
  BY <1>1 DEF IInv, CatsInv, TurnsRun, TypeOK
<1>3. TurnsRun'
  <2> SUFFICES ASSUME NEW c \in Cats
               PROVE  /\ tracker'[c] \in Attempts => att'[tracker'[c]].phase = "running"
                      /\ tracker'[c] # None =>
                            slot'[c] \in {NoSlot, [by |-> tracker'[c], barrier |-> FALSE]}
    BY DEF TurnsRun
  <2>1. tracker'[c] # None => tracker'[c] = tracker[c] /\ tracker[c] # a
    BY <1>2
  <2>2. tracker'[c] \in Attempts => att'[tracker'[c]].phase = "running"
    BY <2>1 DEF IInv, CatsInv, TurnsRun, AttemptStep
  <2> QED BY <1>1, <2>1, <2>2, SlotsShrink DEF IInv, CatsInv, TurnsRun
<1> QED BY <1>3, SlotsAfterStep DEF CatsInv

\* A turn starts: its cats were all free.
LEMMA CatsAfterStart ==
    ASSUME IInv, NEW a \in Attempts, AttemptStep(a),
           CanStart(a), StartAll(a), UNCHANGED <<slot, route>>,
           att'[a].phase = "running"
    PROVE  CatsInv'
<1>1. \A c \in Cats : IF c \in att[a].cats
                      THEN /\ tracker'[c] = a /\ tracker[c] = None
                           /\ slot[c] \in {NoSlot, [by |-> a, barrier |-> FALSE]}
                      ELSE tracker'[c] = tracker[c]
  BY DEF StartAll, CanStart, Owns
<1>2. TurnsRun'
  <2> SUFFICES ASSUME NEW c \in Cats
               PROVE  /\ tracker'[c] \in Attempts => att'[tracker'[c]].phase = "running"
                      /\ tracker'[c] # None =>
                            slot[c] \in {NoSlot, [by |-> tracker'[c], barrier |-> FALSE]}
    BY DEF TurnsRun
  <2>1. CASE c \in att[a].cats
    BY <1>1, <2>1
  <2>2. CASE c \notin att[a].cats
    BY <1>1, <2>2 DEF IInv, CatsInv, TurnsRun, AttemptStep
  <2> QED BY <2>1, <2>2
<1> QED BY <1>2, SlotsAfterStep DEF CatsInv

\* Who holds the rows after a step of an attempt: it may do what it likes with
\* its own rows once it no longer keeps them, and takes only what nobody keeps.
LEMMA RowsAfterStep ==
    ASSUME IInv, NEW a \in Attempts, AttemptStep(a), BooksQuiet,
           att'[a].phase # "persisting",
           \A b \in Attempts, e \in Entries :
               b # a /\ e \in KeptBy(b) /\ ~LateFailure(e) /\ ~LateFailure(e)' =>
               (row[e].status \in {"processing", "gone"} =>
                   row'[e].status \in {"processing", "gone"}),
           \A e \in KeptBy(a)' : ~LateFailure(e) =>
               /\ row'[e].status \in {"processing", "gone"}
               /\ \A b \in Attempts : b # a => e \notin KeptBy(b)
    PROVE  RowsInv'
<1>1. TypeOK /\ AttemptsClaim
  BY DEF IInv, CatsInv
<1>2. \A b \in Attempts : b # a => KeptBy(b)' \subseteq KeptBy(b)
  BY <1>1, OthersKeep
<1>3. KeptRows'
  <2> SUFFICES ASSUME NEW b \in Attempts, NEW e \in KeptBy(b)', ~LateFailure(e)'
               PROVE  /\ row'[e].status \in {"processing", "gone"}
                      /\ \A d \in Attempts : d # b => e \notin KeptBy(d)'
    BY DEF KeptRows
  <2>1. ~LateFailure(e)
    BY <1>1, LateStays
  <2>2. CASE b = a
    BY <1>2, <2>1, <2>2
  <2>3. CASE b # a
    <3>1. e \in KeptBy(b) /\ e \in Entries
      BY <1>1, <1>2, <2>3, KeptEntries
    <3>2. /\ row[e].status \in {"processing", "gone"}
          /\ \A d \in Attempts : d # b => e \notin KeptBy(d)
      BY <2>1, <3>1 DEF IInv, RowsInv, KeptRows
    <3>3. e \notin KeptBy(a)'
      BY <2>1, <2>3, <3>1
    <3> QED BY <1>2, <2>1, <2>3, <3>1, <3>2, <3>3
  <2> QED BY <2>2, <2>3
<1>4. ASSUME NEW b \in Attempts PROVE Unwritten(b)'
  <2>1. CASE b = a
    BY <2>1 DEF Unwritten
  <2>2. CASE b # a
    BY <1>1, <2>2, UnwrittenOne DEF IInv, RowsInv, UnwrittenClaims, AttemptStep
  <2> QED BY <2>1, <2>2
<1> QED BY <1>3, <1>4 DEF RowsInv, UnwrittenClaims

LEMMA StartWrittenIInv ==
    ASSUME IInv, NEW a \in Attempts, StartWritten(a)
    PROVE  IInv'
<1>1. TypeOK /\ att[a].phase = "persisting" /\ UNCHANGED <<row, book, slot, tracker, scan, clear>>
  BY DEF IInv, StartWritten
<1>2. /\ att' \in [Attempts -> Attempt]
      /\ att'[a].phase = "creating"
      /\ att'[a].lead = att[a].lead /\ att'[a].entry = att[a].entry
      /\ att'[a].todo = att[a].todo /\ Carried(a)' = Carried(a)
      /\ \A b \in Attempts : b # a => att'[b] = att[b]
  BY <1>1, PhaseMoves DEF StartWritten, Begun, Held
<1>3. /\ route' \in [Steers -> RouteStates]
      /\ \A s \in Steers : route'[s].pc = "retiring" => route'[s] = route[s]
      /\ \A s \in Steers : route[s].pc # "idle" => route'[s].pc # "idle"
  BY <1>1 DEF StartWritten, TypeOK, RouteStates
<1>4. AttemptStep(a)
  BY <1>1, <1>2 DEF AttemptStep, Late, Held, IInv, CatsInv, AttemptsClaim
<1>5. TypeOK'
  BY <1>1, <1>2, <1>3 DEF TypeOK, RouteStates
<1>6. CatsInv'
  BY <1>1, <1>2, <1>3, <1>4, CatsAfterStep
<1>7. BooksShrink /\ RowsSafe /\ BooksQuiet
  BY <1>1, <1>3, BooksShrinkQuietly DEF BooksShrink, RowsSafe, IInv, QueueInv, EmptyIsGone
<1>8. KeptBy(a)' \subseteq KeptBy(a)
  BY <1>1, <1>2 DEF KeptBy
<1>9. RowsInv'
  BY <1>1, <1>2, <1>4, <1>7, <1>8, RowsAfterStep DEF IInv, RowsInv, KeptRows
<1> QED BY <1>5, <1>6, <1>7, <1>9, QueueKept DEF IInv

\* An attempt that undoes its claim undoes nobody else's.
LEMMA StartNotWrittenIInv ==
    ASSUME IInv, NEW a \in Attempts, StartNotWritten(a)
    PROVE  IInv'
<1> DEFINE s == att[a].res
           undone == IF s = None THEN {att[a].entry}
                     ELSE {e \in book[s].members : book[s].phase # "none" /\ row[e].res = s}
           X == {e \in undone : Processing(e)}
<1>1. TypeOK /\ att[a].phase = "persisting" /\ UNCHANGED <<book, route, tracker, scan, clear>>
  BY DEF IInv, StartNotWritten
<1>2. /\ att' \in [Attempts -> Attempt]
      /\ att'[a].phase = "restoring"
      /\ att'[a].lead = att[a].lead /\ att'[a].entry = att[a].entry
      /\ att'[a].todo = att[a].todo /\ Carried(a)' = Carried(a)
      /\ \A b \in Attempts : b # a => att'[b] = att[b]
  BY <1>1, PhaseMoves DEF StartNotWritten, Begun
<1>3. /\ slot' \in [Cats -> Slot]
      /\ \/ slot' = slot /\ ~Owns(a)
         \/ Owns(a) /\ slot' = [slot EXCEPT ![att[a].lead] = NoSlot]
  BY <1>1, FreeOwnSlotFacts DEF StartNotWritten
<1>4. row' = WithStatus(X, "queued")
  BY DEF StartNotWritten
<1>5. X \subseteq KeptBy(a)
  BY <1>1 DEF IInv, RowsInv, UnwrittenClaims, Unwritten, KeptBy, Carried
<1>6. \A e \in X : Processing(e)
  OBVIOUS
<1>7. \A b \in Attempts, e \in X : b # a /\ ~LateFailure(e) => e \notin KeptBy(b)
  BY <1>5 DEF IInv, RowsInv, KeptRows
<1> HIDE DEF X
<1>8. /\ row' \in [Entries -> Row]
      /\ \A e \in Entries : /\ e \in X => row'[e].status = "queued"
                            /\ row'[e].targets = row[e].targets
                            /\ row'[e].res = row[e].res
                            /\ e \notin X => row'[e] = row[e]
  BY <1>1, <1>4, WithStatusRows
<1>9. AttemptStep(a)
  BY <1>1, <1>2, <1>3 DEF AttemptStep, Late, IInv, CatsInv, AttemptsClaim
<1>10. CatsInv'
  BY <1>1, <1>2, <1>9, CatsAfterStep
<1>11. BooksShrink /\ RowsSafe /\ BooksQuiet
  <2>1. BooksShrink
    BY <1>1 DEF BooksShrink
  <2>2. RowsSafe
    BY <1>6, <1>8 DEF RowsSafe, IInv, QueueInv, EmptyIsGone, Processing
  <2> QED BY <2>1, <2>2, BooksShrinkQuietly
<1>12. TypeOK'
  <2>1. \A e \in Entries : row'[e].status \in {"queued", "processing"} => row'[e].targets # {}
    BY <1>11 DEF RowsSafe
  <2> QED BY <1>1, <1>2, <1>3, <1>8, <2>1 DEF TypeOK
<1>13. KeptBy(a)' = {}
  BY <1>2 DEF KeptBy
<1>14. RowsInv'
  <2>1. \A b \in Attempts, e \in Entries :
           b # a /\ e \in KeptBy(b) /\ ~LateFailure(e) => row'[e] = row[e]
    BY <1>7, <1>8
  <2> QED BY <1>2, <1>9, <1>11, <1>13, <2>1, RowsAfterStep
<1> QED BY <1>10, <1>11, <1>12, <1>14, QueueKept DEF IInv

LEMMA StartRejectedIInv ==
    ASSUME IInv, NEW a \in Attempts, StartRejected(a)
    PROVE  IInv'
<1>1. TypeOK /\ att[a].phase = "restoring" /\ UNCHANGED <<slot, tracker, scan, clear>>
  BY DEF IInv, StartRejected
<1>2. /\ att' \in [Attempts -> Attempt]
      /\ att'[a].phase = "done"
      /\ att'[a].lead = att[a].lead /\ att'[a].entry = att[a].entry
      /\ att'[a].todo = att[a].todo /\ Carried(a)' = Carried(a)
      /\ \A b \in Attempts : b # a => att'[b] = att[b]
  BY <1>1, PhaseMoves DEF StartRejected, Begun
<1>3. /\ row' \in [Entries -> Row] /\ book' \in [Steers -> Book]
      /\ route' \in [Steers -> RouteStates]
      /\ RowsQuiet /\ RowsSafe /\ BooksShrink
      /\ \A t \in Steers : route'[t].pc = "retiring" => route'[t] = route[t]
  <2>1. CASE att[a].caller = None
    BY <1>1, <2>1 DEF StartRejected, IInv, TypeOK, RouteStates, RowsQuiet, RowsSafe,
                      BooksShrink, QueueInv, EmptyIsGone
  <2>2. CASE att[a].caller # None
    <3>1. att[a].caller \in Steers /\ GiveUp(att[a].caller)
      BY <1>1, <2>2 DEF StartRejected, TypeOK, Attempt
    <3> QED BY <3>1, GiveUpFacts DEF IInv
  <2> QED BY <2>1, <2>2
<1>4. ~Owns(a)
  BY <1>1, OwnerHolds DEF IInv, Held
<1>5. AttemptStep(a)
  BY <1>1, <1>2, <1>4 DEF AttemptStep, Late, IInv, CatsInv, AttemptsClaim
<1>6. TypeOK'
  <2>1. \A e \in Entries : row'[e].status \in {"queued", "processing"} => row'[e].targets # {}
    BY <1>3 DEF RowsSafe
  <2> QED BY <1>1, <1>2, <1>3, <2>1 DEF TypeOK, RouteStates
<1>7. CatsInv'
  BY <1>1, <1>2, <1>3, <1>5, CatsAfterStep
<1>8. KeptBy(a)' = {} /\ BooksQuiet
  BY <1>2, <1>3, BooksShrinkQuietly DEF KeptBy
<1>9. RowsInv'
  BY <1>2, <1>3, <1>5, <1>8, RowsAfterStep DEF RowsQuiet
<1> QED BY <1>3, <1>6, <1>7, <1>9, QueueKept DEF IInv

\* Further queued rows join an attempt that still owns its slot.
LEMMA RowsJoin ==
    ASSUME IInv, NEW a \in Attempts, AttemptStep(a), att[a].phase = "creating", Owns(a),
           NEW extra \in SUBSET Matching(a), row' = WithStatus(extra, "processing"),
           UNCHANGED <<book, route>>,
           att'[a].phase # "persisting",
           Carried(a)' = Carried(a) \union extra
    PROVE  RowsInv' /\ QueueInv' /\ row' \in [Entries -> Row] /\ RowsSafe
<1>1. TypeOK
  BY DEF IInv
<1>2. extra \subseteq Entries /\ \A e \in extra : Queued(e)
  BY DEF Matching
<1>3. /\ row' \in [Entries -> Row]
      /\ \A e \in Entries : /\ e \in extra => row'[e].status = "processing"
                            /\ row'[e].targets = row[e].targets
                            /\ row'[e].res = row[e].res
                            /\ e \notin extra => row'[e] = row[e]
  BY <1>1, WithStatusRows
<1>4. Carried(a) \subseteq KeptBy(a) /\ KeptBy(a)' \subseteq Carried(a) \union extra
  BY DEF KeptBy
<1>5. \A b \in Attempts, e \in extra : e \in KeptBy(b) => LateFailure(e)
  BY <1>2 DEF IInv, RowsInv, KeptRows, Queued
<1>6. Carried(a) \subseteq Entries
  BY <1>1, CarriedEntries DEF IInv, CatsInv
<1>7. RowsSafe /\ BooksShrink /\ BooksQuiet
  <2>1. RowsSafe
    BY <1>2, <1>3 DEF RowsSafe, IInv, QueueInv, EmptyIsGone, Queued
  <2>2. BooksShrink
    BY DEF BooksShrink
  <2> QED BY <2>1, <2>2, BooksShrinkQuietly
<1>8. ASSUME NEW e \in KeptBy(a)', ~LateFailure(e)
      PROVE  /\ row'[e].status \in {"processing", "gone"}
             /\ \A b \in Attempts : b # a => e \notin KeptBy(b)
  <2>1. CASE e \in extra
    BY <1>2, <1>3, <1>5, <1>8, <2>1
  <2>2. CASE e \notin extra
    <3>1. e \in KeptBy(a) /\ e \in Entries
      BY <1>4, <1>6, <2>2
    <3> QED BY <1>3, <1>8, <2>2, <3>1 DEF IInv, RowsInv, KeptRows
  <2> QED BY <2>1, <2>2
<1>9. \A b \in Attempts, e \in Entries :
         b # a /\ e \in KeptBy(b) /\ ~LateFailure(e) => row'[e] = row[e]
  BY <1>3, <1>5
<1>10. RowsInv'
  BY <1>7, <1>8, <1>9, RowsAfterStep
<1> QED BY <1>3, <1>7, <1>10, QueueKept DEF IInv

\* An attempt that leaves or goes on without touching the queue.
LEMMA RowsStay ==
    ASSUME IInv, NEW a \in Attempts, AttemptStep(a), UNCHANGED <<row, book, route>>,
           att'[a].phase # "persisting",
           KeptBy(a)' \subseteq KeptBy(a)
    PROVE  RowsInv' /\ QueueInv' /\ RowsSafe
<1>1. RowsSafe /\ BooksShrink /\ BooksQuiet
  BY BooksShrinkQuietly DEF RowsSafe, BooksShrink, IInv, QueueInv, EmptyIsGone
<1>2. \A e \in KeptBy(a)' : ~LateFailure(e) =>
         /\ row[e].status \in {"processing", "gone"}
         /\ \A b \in Attempts : b # a => e \notin KeptBy(b)
  BY DEF IInv, RowsInv, KeptRows
<1>3. RowsInv'
  BY <1>1, <1>2, RowsAfterStep
<1> QED BY <1>1, <1>3, QueueKept DEF IInv

\* Leaving as "replaced": the attempt is over and its slot, if its own, free.
LEMMA LeaveReplacedFacts ==
    ASSUME IInv, NEW a \in Attempts, att[a].phase \in {"creating", "parked"},
           NEW extra \in SUBSET Entries, LeaveReplaced(a, att[a].batch \union extra),
           UNCHANGED route
    PROVE  /\ att' \in [Attempts -> Attempt]
           /\ att'[a].phase = "done" /\ Carried(a)' = Carried(a) \union extra
           /\ AttemptStep(a) /\ CatsInv' /\ tracker' = tracker /\ slot' \in [Cats -> Slot]
           /\ KeptBy(a)' = {}
<1>1. TypeOK /\ AttemptsClaim
  BY DEF IInv, CatsInv
<1>2. /\ att' \in [Attempts -> Attempt]
      /\ att'[a].phase = "done"
      /\ att'[a].lead = att[a].lead /\ att'[a].entry = att[a].entry
      /\ att'[a].todo = att[a].todo /\ Carried(a)' = Carried(a) \union extra
      /\ \A b \in Attempts : b # a => att'[b] = att[b]
  BY <1>1, BatchMoves DEF LeaveReplaced, Begun
<1>3. /\ slot' \in [Cats -> Slot] /\ tracker' = tracker
      /\ \/ slot' = slot /\ ~Owns(a)
         \/ Owns(a) /\ slot' = [slot EXCEPT ![att[a].lead] = NoSlot]
  BY <1>1, FreeOwnSlotFacts DEF LeaveReplaced
<1>4. AttemptStep(a)
  BY <1>1, <1>2, <1>3 DEF AttemptStep, Late, AttemptsClaim
<1>5. CatsInv'
  BY <1>2, <1>3, <1>4, CatsAfterStep
<1>6. KeptBy(a)' = {}
  BY <1>2 DEF KeptBy
<1> QED BY <1>2, <1>3, <1>4, <1>5, <1>6

LEMMA LaunchIInv ==
    ASSUME IInv, NEW a \in Attempts, NEW extra \in SUBSET Entries, Launch(a, extra)
    PROVE  IInv'
<1>1. /\ TypeOK /\ AttemptsClaim
      /\ att[a].phase = "creating" /\ UNCHANGED <<book, route, scan, clear>>
  BY DEF IInv, CatsInv, Launch
<1>2. CASE ~Owns(a) /\ LeaveReplaced(a, att[a].batch) /\ UNCHANGED row
  <2>1. att[a].batch = att[a].batch \union {} /\ {} \in SUBSET Entries
    OBVIOUS
  <2>2. /\ att' \in [Attempts -> Attempt] /\ att'[a].phase = "done"
        /\ AttemptStep(a) /\ CatsInv' /\ tracker' = tracker /\ slot' \in [Cats -> Slot]
        /\ KeptBy(a)' = {}
    BY <1>1, <1>2, <2>1, LeaveReplacedFacts
  <2>3. RowsInv' /\ QueueInv'
    BY <1>1, <1>2, <2>2, RowsStay
  <2>4. TypeOK'
    BY <1>1, <1>2, <2>2 DEF TypeOK
  <2> QED BY <2>2, <2>3, <2>4 DEF IInv
<1>3. ASSUME Owns(a), extra \subseteq Matching(a), row' = WithStatus(extra, "processing"),
             att' \in [Attempts -> Attempt], att'[a].phase # "persisting",
             Carried(a)' = Carried(a) \union extra,
             AttemptStep(a), CatsInv', slot' \in [Cats -> Slot],
             tracker' \in [Cats -> Attempts \union {External, None}]
      PROVE  IInv'
  <2>1. RowsInv' /\ QueueInv' /\ row' \in [Entries -> Row] /\ RowsSafe
    BY <1>1, <1>3, RowsJoin
  <2>2. \A e \in Entries : row'[e].status \in {"queued", "processing"} => row'[e].targets # {}
    BY <2>1 DEF RowsSafe
  <2>3. TypeOK'
    BY <1>1, <1>3, <2>1, <2>2 DEF TypeOK
  <2> QED BY <1>3, <2>1, <2>3 DEF IInv
<1>4. CASE /\ Owns(a) /\ extra \subseteq Matching(a)
           /\ row' = WithStatus(extra, "processing")
           /\ LeaveReplaced(a, att[a].batch \union extra)
  <2>1. /\ att' \in [Attempts -> Attempt] /\ att'[a].phase = "done"
        /\ Carried(a)' = Carried(a) \union extra /\ AttemptStep(a) /\ CatsInv'
        /\ tracker' = tracker /\ slot' \in [Cats -> Slot]
    BY <1>1, <1>4, LeaveReplacedFacts
  <2> QED BY <1>1, <1>3, <1>4, <2>1 DEF TypeOK
<1>5. ASSUME NEW ph \in {"running", "parked"}, slot' = slot,
             att' = [att EXCEPT ![a].phase = ph, ![a].batch = att[a].batch \union extra]
      PROVE  /\ att' \in [Attempts -> Attempt] /\ att'[a].phase = ph
             /\ Carried(a)' = Carried(a) \union extra /\ AttemptStep(a)
  <2>1. /\ att' \in [Attempts -> Attempt]
        /\ att'[a].phase = ph
        /\ att'[a].lead = att[a].lead /\ att'[a].entry = att[a].entry
        /\ att'[a].todo = att[a].todo /\ Carried(a)' = Carried(a) \union extra
        /\ \A b \in Attempts : b # a => att'[b] = att[b]
    BY <1>1, <1>5, BatchMoves DEF Begun, Held
  <2>2. AttemptStep(a)
    BY <1>1, <1>5, <2>1 DEF AttemptStep, Late, Held, AttemptsClaim
  <2> QED BY <2>1, <2>2
<1>6. CASE /\ Owns(a) /\ extra \subseteq Matching(a) /\ CanStart(a)
           /\ row' = WithStatus(extra, "processing")
           /\ Start(a, att[a].batch \union extra)
  <2>1. /\ att' \in [Attempts -> Attempt] /\ att'[a].phase = "running"
        /\ Carried(a)' = Carried(a) \union extra /\ AttemptStep(a)
    BY <1>5, <1>6 DEF Start
  <2>2. CatsInv'
    BY <1>1, <1>6, <2>1, CatsAfterStart DEF Start
  <2>3. /\ tracker' \in [Cats -> Attempts \union {External, None}]
        /\ slot' \in [Cats -> Slot]
    BY <1>1, <1>6 DEF Start, StartAll, TypeOK
  <2> QED BY <1>3, <1>6, <2>1, <2>2, <2>3
<1>7. CASE /\ Owns(a) /\ extra \subseteq Matching(a)
           /\ row' = WithStatus(extra, "processing")
           /\ att' = [att EXCEPT ![a].phase = "parked", ![a].batch = @ \union extra]
           /\ UNCHANGED <<slot, tracker>>
  <2>1. /\ att' \in [Attempts -> Attempt] /\ att'[a].phase = "parked"
        /\ Carried(a)' = Carried(a) \union extra /\ AttemptStep(a)
    BY <1>5, <1>7
  <2>2. CatsInv'
    BY <1>1, <1>7, <2>1, CatsAfterStep
  <2> QED BY <1>1, <1>3, <1>7, <2>1, <2>2 DEF TypeOK
<1> QED BY <1>2, <1>4, <1>6, <1>7 DEF Launch

LEMMA UnparkIInv ==
    ASSUME IInv, NEW a \in Attempts, Unpark(a)
    PROVE  IInv'
<1>1. /\ TypeOK /\ AttemptsClaim
      /\ att[a].phase = "parked" /\ UNCHANGED <<row, book, route, scan, clear>>
  BY DEF IInv, CatsInv, Unpark
<1>2. att[a].batch = att[a].batch \union {} /\ {} \in SUBSET Entries
  OBVIOUS
<1>3. CASE CanStart(a) /\ Start(a, att[a].batch)
  <2>1. /\ att' \in [Attempts -> Attempt]
        /\ att'[a].phase = "running"
        /\ att'[a].lead = att[a].lead /\ att'[a].entry = att[a].entry
        /\ att'[a].todo = att[a].todo /\ Carried(a)' = Carried(a) \union {}
        /\ \A b \in Attempts : b # a => att'[b] = att[b]
    BY <1>1, <1>2, <1>3, BatchMoves DEF Start, Begun, Held
  <2>2. AttemptStep(a)
    BY <1>1, <1>3, <2>1 DEF AttemptStep, Start, Late, Held, AttemptsClaim
  <2>3. CatsInv'
    BY <1>1, <1>3, <2>1, <2>2, CatsAfterStart DEF Start
  <2>4. KeptBy(a)' \subseteq KeptBy(a)
    BY <1>1, <1>3, <2>1 DEF KeptBy, CanStart
  <2>5. RowsInv' /\ QueueInv'
    BY <1>1, <2>1, <2>2, <2>4, RowsStay
  <2>6. TypeOK'
    BY <1>1, <1>3, <2>1 DEF TypeOK, Start, StartAll
  <2> QED BY <2>3, <2>5, <2>6 DEF IInv
<1>4. CASE LeaveReplaced(a, att[a].batch)
  <2>1. /\ att' \in [Attempts -> Attempt] /\ att'[a].phase = "done"
        /\ AttemptStep(a) /\ CatsInv' /\ tracker' = tracker /\ slot' \in [Cats -> Slot]
        /\ KeptBy(a)' = {}
    BY <1>1, <1>2, <1>4, LeaveReplacedFacts
  <2>2. RowsInv' /\ QueueInv'
    BY <1>1, <2>1, RowsStay
  <2>3. TypeOK'
    BY <1>1, <2>1 DEF TypeOK
  <2> QED BY <2>1, <2>2, <2>3 DEF IInv
<1> QED BY <1>3, <1>4 DEF Unpark

\* An attempt that fails before its start has its rows left to settle.
LEMMA FailIInv ==
    ASSUME IInv, NEW a \in Attempts, Fail(a)
    PROVE  IInv'
<1>1. /\ TypeOK /\ AttemptsClaim /\ att[a].phase \in {"creating", "parked"}
      /\ UNCHANGED <<row, book, route, slot, tracker, scan, clear>>
  BY DEF IInv, CatsInv, Fail
<1>2. Carried(a) \in SUBSET Entries
  BY <1>1, CarriedEntries
<1>3. att[a].ok \in SUBSET Cats
  BY <1>1 DEF TypeOK, Attempt
<1>4. att' = [att EXCEPT ![a].phase = "failing", ![a].ok = att[a].ok, ![a].todo = Carried(a)]
  BY <1>1 DEF Fail, TypeOK, Attempt
<1>5. /\ att' \in [Attempts -> Attempt]
      /\ att'[a].phase = "failing"
      /\ att'[a].lead = att[a].lead /\ att'[a].entry = att[a].entry
      /\ att'[a].todo = Carried(a) /\ Carried(a)' = Carried(a)
      /\ \A b \in Attempts : b # a => att'[b] = att[b]
  BY <1>1, <1>2, <1>3, <1>4, TodoMoves DEF Begun, Held
<1>6. AttemptStep(a)
  BY <1>1, <1>5 DEF AttemptStep, Late, Held
<1>7. CatsInv'
  BY <1>1, <1>5, <1>6, CatsAfterStep
<1>8. KeptBy(a)' \subseteq KeptBy(a)
  BY <1>1, <1>5 DEF KeptBy, Owns
<1>9. RowsInv' /\ QueueInv'
  BY <1>1, <1>5, <1>6, <1>8, RowsStay
<1>10. TypeOK'
  BY <1>1, <1>5 DEF TypeOK
<1> QED BY <1>7, <1>9, <1>10 DEF IInv

LEMMA FinishIInv ==
    ASSUME IInv, NEW a \in Attempts, NEW ok \in SUBSET Cats, NEW stopped \in BOOLEAN,
           Finish(a, ok, stopped)
    PROVE  IInv'
<1> DEFINE ph == IF stopped THEN "stopped" ELSE "ending"
<1>1. /\ TypeOK /\ AttemptsClaim /\ att[a].phase = "running"
      /\ UNCHANGED <<row, book, route, slot, scan, clear>>
  BY DEF IInv, CatsInv, Finish
<1>2. Carried(a) \in SUBSET Entries
  BY <1>1, CarriedEntries
<1>3. /\ att' = [att EXCEPT ![a].phase = ph, ![a].ok = ok, ![a].todo = Carried(a)]
      /\ ph \in {"stopped", "ending"}
  BY DEF Finish
<1> HIDE DEF ph
<1>4. /\ att' \in [Attempts -> Attempt]
      /\ att'[a].phase = ph
      /\ att'[a].lead = att[a].lead /\ att'[a].entry = att[a].entry
      /\ att'[a].todo = Carried(a) /\ Carried(a)' = Carried(a)
      /\ \A b \in Attempts : b # a => att'[b] = att[b]
  BY <1>1, <1>2, <1>3, TodoMoves DEF Begun, Held
<1>5. AttemptStep(a)
  BY <1>1, <1>3, <1>4 DEF AttemptStep, Late, Held
<1>6. tracker' = [c \in Cats |-> IF tracker[c] = a THEN None ELSE tracker[c]]
  BY DEF Finish
<1>7. CatsInv'
  BY <1>1, <1>3, <1>4, <1>5, <1>6, CatsAfterStep
<1>8. KeptBy(a)' \subseteq KeptBy(a)
  BY <1>1, <1>4 DEF KeptBy
<1>9. RowsInv' /\ QueueInv'
  BY <1>1, <1>3, <1>4, <1>5, <1>8, RowsStay
<1>10. TypeOK'
  <2>1. tracker' \in [Cats -> Attempts \union {External, None}]
    BY <1>1, <1>6 DEF TypeOK
  <2> QED BY <1>1, <1>4, <2>1 DEF TypeOK
<1> QED BY <1>7, <1>9, <1>10 DEF IInv

\* A row is settled by the attempt that keeps it, or by a late failure.
LEMMA SettleIInv ==
    ASSUME IInv, NEW a \in Attempts, NEW e \in Entries, NEW end \in {"queued", "gone"},
           Settle(a, e, end)
    PROVE  IInv'
<1> DEFINE X == {x \in {e} : Processing(x)}
<1>1. /\ TypeOK /\ AttemptsClaim /\ att[a].phase \in {"ending", "stopped", "failing"}
      /\ e \in att[a].todo /\ e \in Carried(a)
      /\ UNCHANGED <<book, route, slot, tracker, scan, clear>>
  BY DEF IInv, CatsInv, AttemptsClaim, Settle
<1>2. att[a].todo \ {e} \in SUBSET Entries /\ att[a].ok \in SUBSET Cats
  BY <1>1 DEF TypeOK, Attempt
<1>3. att' = [att EXCEPT ![a].phase = att[a].phase, ![a].ok = att[a].ok,
                         ![a].todo = att[a].todo \ {e}]
  BY <1>1 DEF Settle, TypeOK, Attempt
<1>4. /\ att' \in [Attempts -> Attempt]
      /\ att'[a].phase = att[a].phase
      /\ att'[a].lead = att[a].lead /\ att'[a].entry = att[a].entry
      /\ att'[a].todo = att[a].todo \ {e} /\ Carried(a)' = Carried(a)
      /\ \A b \in Attempts : b # a => att'[b] = att[b]
  BY <1>1, <1>2, <1>3, TodoMoves DEF Begun, Held
<1>5. AttemptStep(a)
  BY <1>1, <1>4 DEF AttemptStep, Late, Held, Owns, AttemptsClaim
<1>6. CatsInv'
  BY <1>1, <1>4, <1>5, CatsAfterStep
<1>7. /\ row' \in [Entries -> Row]
      /\ \A x \in Entries : /\ row'[x].targets = row[x].targets
                            /\ row'[x] = row[x] \/ (x = e /\ row[x].status = "processing")
  <2>1. CASE Processing(e)
    BY <1>1, <2>1, WithStatusRows DEF Settle, Processing
  <2>2. CASE ~Processing(e)
    BY <1>1, <2>2 DEF Settle, TypeOK
  <2> QED BY <2>1, <2>2
<1>8. BooksShrink /\ RowsSafe /\ BooksQuiet
  <2>1. BooksShrink
    BY <1>1 DEF BooksShrink
  <2>2. RowsSafe
    BY <1>7 DEF RowsSafe, IInv, QueueInv, EmptyIsGone
  <2> QED BY <2>1, <2>2, BooksShrinkQuietly
<1>9. TypeOK'
  <2>1. \A x \in Entries : row'[x].status \in {"queued", "processing"} => row'[x].targets # {}
    BY <1>8 DEF RowsSafe
  <2> QED BY <1>1, <1>4, <1>7, <2>1 DEF TypeOK
<1>10. \A b \in Attempts : b # a /\ e \in KeptBy(b) => LateFailure(e)
  <2>1. CASE e \in KeptBy(a)
    BY <2>1 DEF IInv, RowsInv, KeptRows
  <2>2. CASE e \notin KeptBy(a)
    <3>1. att[a].phase = "failing" /\ ~Owns(a)
      BY <1>1, <2>2 DEF KeptBy
    <3> QED BY <1>1, <3>1 DEF LateFailure
  <2> QED BY <2>1, <2>2
<1>11. KeptBy(a)' \subseteq KeptBy(a) /\ e \notin KeptBy(a)'
  BY <1>1, <1>4 DEF KeptBy, Owns
<1>12. ASSUME NEW x \in KeptBy(a)', ~LateFailure(x)
       PROVE  /\ row'[x].status \in {"processing", "gone"}
              /\ \A b \in Attempts : b # a => x \notin KeptBy(b)
  <2>1. x \in KeptBy(a) /\ x # e /\ x \in Entries
    BY <1>1, <1>11, KeptEntries
  <2> QED BY <1>7, <1>12, <2>1 DEF IInv, RowsInv, KeptRows
<1>13. RowsInv'
  <2>1. \A b \in Attempts, x \in Entries :
           b # a /\ x \in KeptBy(b) /\ ~LateFailure(x) => row'[x] = row[x]
    BY <1>7, <1>10
  <2> QED BY <1>1, <1>4, <1>5, <1>8, <1>12, <2>1, RowsAfterStep
<1> QED BY <1>6, <1>8, <1>9, <1>13, QueueKept DEF IInv

LEMMA ReleaseIInv ==
    ASSUME IInv, NEW a \in Attempts, Release(a)
    PROVE  IInv'
<1> DEFINE ph == IF Owns(a) THEN "completing"
                 ELSE IF att[a].phase = "failing" THEN "dropped" ELSE "done"
<1>1. /\ TypeOK /\ AttemptsClaim /\ att[a].phase \in {"ending", "stopped", "failing"}
      /\ UNCHANGED <<row, book, route, tracker, scan, clear>>
  BY DEF IInv, CatsInv, Release
<1>2. /\ Phase(a, ph) /\ ph \in Begun /\ ph \in {"completing", "dropped", "done"}
      /\ att[a].phase = "failing" /\ ~Owns(a) => ph = "dropped"
  BY DEF Release, Begun
<1> HIDE DEF ph
<1>3. /\ att' \in [Attempts -> Attempt]
      /\ att'[a].phase = ph
      /\ att'[a].lead = att[a].lead /\ att'[a].entry = att[a].entry
      /\ att'[a].todo = att[a].todo /\ Carried(a)' = Carried(a)
      /\ \A b \in Attempts : b # a => att'[b] = att[b]
  BY <1>1, <1>2, PhaseMoves
<1>4. /\ slot' \in [Cats -> Slot]
      /\ \/ slot' = slot /\ ~Owns(a)
         \/ Owns(a) /\ slot' = [slot EXCEPT ![att[a].lead] = NoSlot]
  BY <1>1, FreeOwnSlotFacts DEF Release
<1>5. AttemptStep(a)
  BY <1>1, <1>2, <1>3, <1>4 DEF AttemptStep, Late, AttemptsClaim
<1>6. CatsInv'
  BY <1>1, <1>2, <1>3, <1>5, CatsAfterStep
<1>7. KeptBy(a)' = {}
  BY <1>2, <1>3 DEF KeptBy
<1>8. RowsInv' /\ QueueInv'
  BY <1>1, <1>2, <1>3, <1>5, <1>7, RowsStay
<1>9. TypeOK'
  BY <1>1, <1>3, <1>4 DEF TypeOK
<1> QED BY <1>6, <1>8, <1>9 DEF IInv

LEMMA CompleteIInv ==
    ASSUME IInv, NEW a \in Attempts, NEW seen \in SUBSET Entries, Complete(a, seen)
    PROVE  IInv'
<1>1. TypeOK /\ att[a].phase = "completing" /\ UNCHANGED <<route, slot, tracker, scan, clear>>
  BY DEF IInv, Complete
<1>2. /\ att' \in [Attempts -> Attempt]
      /\ att'[a].phase = "done"
      /\ att'[a].lead = att[a].lead /\ att'[a].entry = att[a].entry
      /\ att'[a].todo = att[a].todo /\ Carried(a)' = Carried(a)
      /\ \A b \in Attempts : b # a => att'[b] = att[b]
  BY <1>1, PhaseMoves DEF Complete, Begun
<1>3. \A e \in seen : Queued(e)
  BY DEF Complete
<1>4. row' = [e \in Entries |->
                IF e \in seen
                THEN [status |-> IF row[e].targets \ att[a].ok = {} THEN "gone" ELSE "queued",
                      targets |-> row[e].targets \ att[a].ok, res |-> row[e].res]
                ELSE row[e]]
  BY DEF Complete
<1>5. /\ row' \in [Entries -> Row]
      /\ \A e \in Entries :
            IF e \in seen
            THEN /\ row'[e].status = IF row'[e].targets = {} THEN "gone" ELSE "queued"
                 /\ row[e].status = "queued"
            ELSE row'[e] = row[e]
  BY <1>1, <1>3, <1>4 DEF TypeOK, Row, Queued
<1>6. RowsQuiet /\ RowsSafe
  BY <1>5 DEF RowsQuiet, RowsSafe, IInv, QueueInv, EmptyIsGone
<1>7. book' = book \/ book' = Drop({att[a].res} \ {None})
  BY DEF Complete
<1>8. book' \in [Steers -> Book] /\ BooksShrink
  <2>1. CASE book' = book
    BY <1>1, <2>1 DEF TypeOK, BooksShrink
  <2>2. CASE book' = Drop({att[a].res} \ {None})
    BY <1>1, <2>2, DropBooks, DropShrinks
  <2> QED BY <1>7, <2>1, <2>2
<1>9. AttemptStep(a)
  <2>1. ~Owns(a)
    BY <1>1, OwnerHolds DEF IInv, Held
  <2> QED BY <1>1, <1>2, <2>1 DEF AttemptStep, Late, IInv, CatsInv, AttemptsClaim
<1>10. CatsInv'
  BY <1>1, <1>2, <1>9, CatsAfterStep
<1>11. KeptBy(a)' = {} /\ BooksQuiet
  BY <1>2, <1>8, BooksShrinkQuietly DEF KeptBy
<1>12. RowsInv'
  BY <1>2, <1>6, <1>9, <1>11, RowsAfterStep DEF RowsQuiet
<1>13. TypeOK'
  <2>1. \A e \in Entries : row'[e].status \in {"queued", "processing"} => row'[e].targets # {}
    BY <1>6 DEF RowsSafe
  <2> QED BY <1>1, <1>2, <1>5, <1>8, <2>1 DEF TypeOK
<1> QED BY <1>6, <1>8, <1>10, <1>12, <1>13, QueueKept DEF IInv

\* The reaper requeues a row of an attempt that kept it, and fences the attempt
\* off in the same step.
LEMMA ReapIInv ==
    ASSUME IInv, ~SlowWrites, NEW a \in Attempts, Reap(a)
    PROVE  IInv'
<1>1. /\ TypeOK /\ att[a].phase \in {"creating", "parked", "failing"} /\ Owns(a)
      /\ UNCHANGED <<book, route, tracker, att, scan, clear>>
  BY DEF IInv, Reap
<1>2. row' = row \/ row' = WithStatus({att[a].entry}, "queued")
  BY DEF Reap
<1>3. att[a].entry \in Entries /\ att[a].lead \in Cats
  BY <1>1 DEF IInv, CatsInv, AttemptsClaim
<1>4. /\ row' \in [Entries -> Row]
      /\ \A e \in Entries :
            /\ row'[e].targets = row[e].targets
            /\ row'[e] = row[e] \/ (e = att[a].entry /\ row[e].status = "processing")
  <2>1. CASE Processing(att[a].entry)
    <3>1. row' = WithStatus({att[a].entry}, "queued")
      BY <2>1 DEF Reap
    <3> QED BY <1>1, <2>1, <3>1, WithStatusRows DEF Processing
  <2>2. CASE ~Processing(att[a].entry)
    BY <1>1, <2>2 DEF Reap, TypeOK
  <2> QED BY <2>1, <2>2
<1>5. slot' = [slot EXCEPT ![att[a].lead] = NoSlot] /\ slot' \in [Cats -> Slot]
  BY <1>1, QueueAssumption DEF Reap, TypeOK, Slot, NoSlot
<1>6. AttemptStep(a)
  BY <1>1, <1>5 DEF AttemptStep, Late, IInv, CatsInv, AttemptsClaim, Carried
<1>7. CatsInv'
  BY <1>1, <1>6, CatsAfterStep
<1>8. BooksShrink /\ RowsSafe /\ BooksQuiet
  <2>1. BooksShrink
    BY <1>1 DEF BooksShrink
  <2>2. RowsSafe
    BY <1>4 DEF RowsSafe, IInv, QueueInv, EmptyIsGone
  <2> QED BY <2>1, <2>2, BooksShrinkQuietly
<1>9. TypeOK'
  <2>1. \A e \in Entries : row'[e].status \in {"queued", "processing"} => row'[e].targets # {}
    BY <1>8 DEF RowsSafe
  <2> QED BY <1>1, <1>4, <1>5, <2>1 DEF TypeOK
<1>10. KeptBy(a)' = {}
  <2>1. ~Owns(a)'
    BY <1>1, <1>3, <1>5, QueueAssumption DEF TypeOK, NoSlot, Owns
  <2> QED BY <1>1, <2>1 DEF KeptBy
<1>11. \A b \in Attempts, e \in Entries :
          b # a /\ e \in KeptBy(b) /\ e = att[a].entry => LateFailure(e) \/ LateFailure(e)'
  <2> SUFFICES ASSUME NEW b \in Attempts, NEW e \in Entries,
                      b # a, e \in KeptBy(b), e = att[a].entry
               PROVE  LateFailure(e) \/ LateFailure(e)'
    OBVIOUS
  <2>1. CASE e \in KeptBy(a)
    BY <2>1 DEF IInv, RowsInv, KeptRows
  <2>2. CASE e \notin KeptBy(a)
    <3>1. att[a].phase = "failing"
      BY <1>1, <2>2 DEF KeptBy, Carried
    <3>2. ~Owns(a)'
      BY <1>1, <1>3, <1>5, QueueAssumption DEF TypeOK, NoSlot, Owns
    <3> QED BY <1>1, <3>1, <3>2 DEF LateFailure, Carried
  <2> QED BY <2>1, <2>2
<1>12. RowsInv'
  <2>1. \A b \in Attempts, e \in Entries :
           b # a /\ e \in KeptBy(b) /\ ~LateFailure(e) /\ ~LateFailure(e)' => row'[e] = row[e]
    BY <1>4, <1>11
  <2> QED BY <1>1, <1>6, <1>8, <1>10, <2>1, RowsAfterStep DEF RowsSafe
<1> QED BY <1>7, <1>8, <1>9, <1>12, QueueKept DEF IInv

-----------------------------------------------------------------------------
LEMMA UserStepIInv ==
    ASSUME IInv, UserStep
    PROVE  IInv'
<1>1. ASSUME NEW c \in Stops, Stop(c) \/ ReleaseSlot(c) PROVE IInv'
  BY <1>1, StopIInv, QueueAssumption
<1> QED BY <1>1, EnqueueIInv, WithdrawIInv, ClearOneIInv, ClearQueueIInv, ExternalIInv
        DEF UserStep

LEMMA DispatchStepIInv ==
    ASSUME IInv, ~SlowWrites, NEW a \in Attempts, DispatchStep(a)
    PROVE  IInv'
<1>1. CASE (\E s \in Steers : StartReservation(s, a)) \/ (\E e \in Entries : StartEntry(e, a))
  BY <1>1, StartReservationIInv, StartEntryIInv
<1>2. CASE StartWritten(a) \/ StartNotWritten(a) \/ StartRejected(a)
  BY <1>2, StartWrittenIInv, StartNotWrittenIInv, StartRejectedIInv
<1>3. CASE (\E extra \in SUBSET Entries : Launch(a, extra)) \/ Unpark(a) \/ Fail(a)
  BY <1>3, LaunchIInv, UnparkIInv, FailIInv
<1>4. CASE \/ \E ok \in SUBSET Cats, stopped \in BOOLEAN : Finish(a, ok, stopped)
           \/ \E e \in Entries, end \in {"queued", "gone"} : Settle(a, e, end)
  BY <1>4, FinishIInv, SettleIInv
<1>5. CASE Release(a) \/ (\E seen \in SUBSET Entries : Complete(a, seen)) \/ Reap(a)
  BY <1>5, ReleaseIInv, CompleteIInv, ReapIInv
<1> QED BY <1>1, <1>2, <1>3, <1>4, <1>5 DEF DispatchStep

LEMMA NextIInv ==
    ASSUME ~SlowWrites, IInv, [Next]_vars
    PROVE  IInv'
<1>1. CASE Next
  <2>1. CASE BeginScan
    BY <2>1, ScanOnlyIInv DEF BeginScan, IInv, TypeOK
  <2> QED BY <1>1, <2>1, ScanIInv, UserStepIInv, SteerStepIInv, DispatchStepIInv DEF Next
<1>2. CASE UNCHANGED vars
  <2>1. UNCHANGED <<row, book, route, slot, tracker, att, scan, clear>>
    BY <1>2 DEF vars
  <2> QED BY <2>1, ScanOnlyIInv DEF IInv, TypeOK
<1> QED BY <1>1, <1>2

\* The custody invariant of the queue.
THEOREM Invariance == ASSUME ~SlowWrites PROVE Spec => []IInv
<1>1. IInv /\ [Next]_vars => IInv'
  BY NextIInv
<1> QED BY InitIInv, <1>1, PTL DEF Spec

\* The state of the queue is well formed in every reachable state.
THEOREM TypeCorrect == ASSUME ~SlowWrites PROVE Spec => []TypeOK
<1>1. IInv => TypeOK
  BY DEF IInv
<1> QED BY <1>1, Invariance, PTL

\* A queued message is executed by one attempt at a time, whatever steers,
\* stops, reapers, clears, failed writes and scans do, unless an attempt that
\* had lost its slot failed over it before its start (executeEntry).
THEOREM OneAttemptPerEntry == ASSUME ~SlowWrites PROVE Spec => []EntryRunByOne
<1>1. ASSUME NEW a \in Attempts, Live(a) PROVE Carried(a) \subseteq KeptBy(a)
  BY <1>1 DEF Live, KeptBy
<1>2. IInv => EntryRunByOne
  BY <1>1 DEF IInv, RowsInv, KeptRows, EntryRunByOne
<1> QED BY <1>2, Invariance, PTL

\* No cat is kept busy by an execution that is over: every way out of
\* startReservedEntry and executeEntry gives the slot up or leaves it behind a
\* barrier (processingSlots).
THEOREM SlotsAreLive == ASSUME ~SlowWrites PROVE Spec => []SlotIsLive
<1>1. IInv => SlotIsLive
  <2> SUFFICES ASSUME IInv, NEW c \in Cats, slot[c].by # None, ~slot[c].barrier
               PROVE  /\ att[slot[c].by].phase \in Held
                      /\ att[slot[c].by].lead = c
    BY DEF SlotIsLive, Held
  <2> QED BY DEF IInv, CatsInv, SlotsClaimed
<1> QED BY <1>1, Invariance, PTL

-----------------------------------------------------------------------------
\* A step that takes no slot from under a registered turn and starts none.
TurnsLeft ==
    /\ \A a \in Attempts : att'[a].phase = "running" => att'[a] = att[a]
    /\ \A c \in Cats : tracker'[c] \in {tracker[c], None, External}
    /\ \A c \in Cats, a \in Attempts :
          tracker[c] = a /\ tracker'[c] = a /\ slot[c] = [by |-> a, barrier |-> FALSE] =>
              slot'[c] = slot[c]

LEMMA TurnsLeftKeepSlots ==
    ASSUME IInv, TurnsLeft
    PROVE  TurnStep
<1> SUFFICES ASSUME NEW a \in Attempts, att'[a].phase = "running", tracker'[att'[a].lead] = a,
                    Owns(a)
             PROVE  Owns(a)'
  BY DEF TurnStep, TurnsLeft
<1>1. att'[a] = att[a] /\ att[a].lead \in Cats
  BY DEF TurnsLeft, IInv, CatsInv, AttemptsClaim
<1>2. tracker[att[a].lead] = a
  BY <1>1, QueueAssumption DEF TurnsLeft
<1> QED BY <1>1, <1>2 DEF TurnsLeft, Owns

\* A turn starts on the slot of its own.
LEMMA StartKeepsSlots ==
    ASSUME IInv, NEW a \in Attempts, CanStart(a), UNCHANGED slot,
           att'[a].lead = att[a].lead,
           \A b \in Attempts : b # a => att'[b] = att[b]
    PROVE  TurnStep
<1> SUFFICES ASSUME NEW b \in Attempts, att'[b].phase = "running",
                    b = a \/ (b # a /\ ~(att[b].phase = "running" /\ ~Owns(b)))
             PROVE  Owns(b)'
  BY DEF TurnStep
<1>1. CASE b = a
  BY <1>1 DEF CanStart, Owns
<1>2. CASE b # a
  BY <1>2 DEF Owns
<1> QED BY <1>1, <1>2

LEMMA ClaimKeepsTurns ==
    ASSUME IInv, NEW a \in Attempts, NEW e, NEW batch, NEW c, NEW caller,
           Claim(a, e, batch, c, caller), ~CatBusy(c)
    PROVE  TurnsLeft
<1>1. /\ tracker' = tracker /\ (c \in Cats => tracker[c] = None)
      /\ \A d \in Cats : d # c => slot'[d] = slot[d]
  BY DEF Claim, CatBusy, IInv, TypeOK
<1>2. \A b \in Attempts : att'[b] = att[b] \/ att'[b].phase = "persisting"
  BY DEF Claim, IInv, TypeOK
<1> QED BY <1>1, <1>2, QueueAssumption DEF TurnsLeft

\* An attempt that is not running frees no slot but its own.
LEMMA FreeOwnKeepsTurns ==
    ASSUME IInv, NEW a \in Attempts, att[a].phase \notin {"unused", "running"},
           FreeOwnSlot(a) \/ (Owns(a) /\ slot' = [slot EXCEPT ![att[a].lead] = NoSlot]),
           UNCHANGED tracker,
           att'[a].phase # "running",
           \A b \in Attempts : b # a => att'[b] = att[b]
    PROVE  TurnsLeft
<1>1. \A c \in Cats : slot'[c] = slot[c] \/ slot[c] = [by |-> a, barrier |-> FALSE]
  BY DEF FreeOwnSlot, Owns, IInv, TypeOK
<1>2. \A c \in Cats : tracker[c] # a
  BY DEF IInv, CatsInv, TurnsRun
<1> QED BY <1>1, <1>2 DEF TurnsLeft

LEMMA UserKeepsTurns ==
    ASSUME IInv, UserStep
    PROVE  TurnStep
<1>1. CASE UNCHANGED <<slot, tracker, att>>
  BY <1>1, TurnsLeftKeepSlots DEF TurnsLeft
<1>2. CASE (\E e \in Entries : Enqueue(e) \/ Withdraw(e) \/ ClearOne(e)) \/ ClearQueue
  BY <1>1, <1>2 DEF Enqueue, Withdraw, ClearOne, ClearQueue
<1>3. ASSUME NEW c \in Cats, ExternalStart(c) \/ ExternalEnd(c) PROVE TurnStep
  <2>1. TurnsLeft
    BY <1>3 DEF ExternalStart, ExternalEnd, TurnsLeft, IInv, TypeOK
  <2> QED BY <2>1, TurnsLeftKeepSlots
<1>4. ASSUME NEW c \in Cats, Stop(c) PROVE TurnStep
  <2>1. TurnsLeft
    BY <1>4, QueueAssumption DEF Stop, TurnsLeft, IInv, TypeOK
  <2> QED BY <2>1, TurnsLeftKeepSlots
<1>5. ASSUME NEW c \in Cats, ReleaseSlot(c) PROVE TurnStep
  <2> SUFFICES ASSUME NEW a \in Attempts, att[a].phase = "running", att[a].lead # c, Owns(a)
               PROVE  Owns(a)'
    BY <1>5 DEF TurnStep, ReleaseSlot
  <2>1. att[a].lead \in Cats
    BY DEF IInv, CatsInv, AttemptsClaim
  <2> QED BY <1>5, <2>1 DEF ReleaseSlot, Owns, IInv, TypeOK
<1> QED BY <1>2, <1>3, <1>4, <1>5, QueueAssumption DEF UserStep

LEMMA ScanKeepsTurns ==
    ASSUME IInv, ScanStep
    PROVE  TurnStep
<1>1. CASE UNCHANGED <<slot, tracker, att>>
  BY <1>1, TurnsLeftKeepSlots DEF TurnsLeft
<1>2. ASSUME NEW a \in Attempts, NEW s \in Steers, ScanReservation(s, a) PROVE TurnStep
  BY <1>1, <1>2, ClaimKeepsTurns, TurnsLeftKeepSlots
      DEF ScanReservation, ScanSkips, ClaimReservation
<1>3. ASSUME NEW a \in Attempts, NEW e \in Entries, ScanEntry(e, a) PROVE TurnStep
  BY <1>1, <1>3, ClaimKeepsTurns, TurnsLeftKeepSlots DEF ScanEntry, ScanSkips
<1>4. CASE ScanFindsNothing
  BY <1>1, <1>4 DEF ScanFindsNothing
<1> QED BY <1>2, <1>3, <1>4 DEF ScanStep

LEMMA SteerKeepsTurns ==
    ASSUME IInv, NEW s \in Steers, SteerStep(s)
    PROVE  TurnStep
<1>1. CASE UNCHANGED <<slot, tracker, att>>
  BY <1>1, TurnsLeftKeepSlots DEF TurnsLeft
<1>2. ASSUME NEW E \in SUBSET Entries, NEW p \in Entries, Reserve(s, E, p) PROVE TurnStep
  BY <1>1, <1>2 DEF Reserve
<1>3. CASE ReservationNotWritten(s) \/ RetirementNotWritten(s) \/ SteerNotStarted(s)
  BY <1>1, <1>3 DEF ReservationNotWritten, RetirementNotWritten, SteerNotStarted
<1>4. CASE Preempt(s)
  <2> DEFINE c == book[s].target
  <2>1. /\ att' = att
        /\ \/ UNCHANGED <<slot, tracker>>
           \/ /\ tracker' = [tracker EXCEPT ![c] = None]
              /\ slot' = [slot EXCEPT ![c] = NoSlot]
           \/ /\ tracker[c] = None /\ tracker' = tracker
              /\ slot' = [slot EXCEPT ![c].barrier = TRUE]
    BY <1>4 DEF Preempt
  <2> HIDE DEF c
  <2>2. TurnsLeft
    BY <2>1, QueueAssumption DEF TurnsLeft, IInv, TypeOK
  <2> QED BY <2>2, TurnsLeftKeepSlots
<1>5. CASE CommitRetirement(s)
  <2> DEFINE c == book[s].target
  <2>1. /\ UNCHANGED <<att, tracker>>
        /\ \/ UNCHANGED slot
           \/ slot[c].barrier /\ slot' = [slot EXCEPT ![c] = NoSlot]
    BY <1>5 DEF CommitRetirement
  <2> HIDE DEF c
  <2>2. TurnsLeft
    BY <2>1 DEF TurnsLeft, IInv, TypeOK
  <2> QED BY <2>2, TurnsLeftKeepSlots
<1>6. ASSUME NEW a \in Attempts, StartSteered(s, a) PROVE TurnStep
  BY <1>6, ClaimKeepsTurns, TurnsLeftKeepSlots DEF StartSteered, ClaimReservation
<1> QED BY <1>2, <1>3, <1>4, <1>5, <1>6 DEF SteerStep

LEMMA DispatchKeepsTurns ==
    ASSUME IInv, ~SlowWrites, NEW a \in Attempts, DispatchStep(a)
    PROVE  TurnStep
<1> DEFINE Moves == /\ att'[a].phase # "running" /\ att'[a].lead = att[a].lead
                    /\ \A b \in Attempts : b # a => att'[b] = att[b]
<1>1. ASSUME Moves, UNCHANGED slot,
             tracker' \in {tracker, [c \in Cats |-> IF tracker[c] = a THEN None ELSE tracker[c]]}
      PROVE  TurnStep
  <2>1. TurnsLeft
    BY <1>1 DEF TurnsLeft, IInv, TypeOK
  <2> QED BY <2>1, TurnsLeftKeepSlots
<1>2. ASSUME NEW ph \in Begun \ {"running"}, Phase(a, ph) PROVE Moves
  BY <1>2, PhaseMoves DEF IInv
<1>3. ASSUME NEW batch, LeaveReplaced(a, batch) PROVE Moves
  BY <1>3 DEF LeaveReplaced, IInv, TypeOK
<1>4. ASSUME NEW batch, Start(a, batch)
      PROVE  att'[a].lead = att[a].lead /\ \A b \in Attempts : b # a => att'[b] = att[b]
  BY <1>4 DEF Start, IInv, TypeOK
<1>5. CASE (\E s \in Steers : StartReservation(s, a)) \/ (\E e \in Entries : StartEntry(e, a))
  BY <1>5, ClaimKeepsTurns, TurnsLeftKeepSlots
      DEF StartReservation, StartEntry, ClaimReservation
<1>6. CASE StartWritten(a) \/ StartRejected(a) \/ \E seen \in SUBSET Entries : Complete(a, seen)
  BY <1>1, <1>2, <1>6 DEF StartWritten, StartRejected, Complete, Begun, Held
<1>7. CASE StartNotWritten(a) \/ Release(a)
  <2>1. /\ att[a].phase \notin {"unused", "running"} /\ FreeOwnSlot(a) /\ UNCHANGED tracker
        /\ \E ph \in Begun \ {"running"} : Phase(a, ph)
    BY <1>7 DEF StartNotWritten, Release, Begun, Held
  <2> QED BY <1>2, <2>1, FreeOwnKeepsTurns, TurnsLeftKeepSlots
<1>8. ASSUME att[a].phase \in {"creating", "parked"}, NEW batch, LeaveReplaced(a, batch)
      PROVE  TurnStep
  BY <1>3, <1>8, FreeOwnKeepsTurns, TurnsLeftKeepSlots DEF LeaveReplaced
<1>9. ASSUME CanStart(a), NEW batch, Start(a, batch) PROVE TurnStep
  BY <1>4, <1>9, StartKeepsSlots DEF Start
<1>10. ASSUME NEW extra \in SUBSET Entries, Launch(a, extra) PROVE TurnStep
  <2>1. CASE /\ att' = [att EXCEPT ![a].phase = "parked", ![a].batch = @ \union extra]
             /\ UNCHANGED <<slot, tracker>>
    <3>1. Moves
      BY <2>1 DEF IInv, TypeOK
    <3> QED BY <1>1, <2>1, <3>1
  <2> QED BY <1>8, <1>9, <1>10, <2>1 DEF Launch
<1>11. CASE Unpark(a)
  BY <1>8, <1>9, <1>11 DEF Unpark
<1>12. CASE Fail(a)
  <2>1. Moves
    BY <1>12 DEF Fail, IInv, TypeOK
  <2> QED BY <1>1, <1>12, <2>1 DEF Fail
<1>13. ASSUME NEW ok \in SUBSET Cats, NEW stopped \in BOOLEAN, Finish(a, ok, stopped)
       PROVE  TurnStep
  <2>1. Moves
    BY <1>13 DEF Finish, IInv, TypeOK
  <2> QED BY <1>1, <1>13, <2>1 DEF Finish
<1>14. ASSUME NEW e \in Entries, NEW end, Settle(a, e, end) PROVE TurnStep
  <2>1. Moves
    BY <1>14 DEF Settle, IInv, TypeOK
  <2> QED BY <1>1, <1>14, <2>1 DEF Settle
<1>15. CASE Reap(a)
  <2>1. /\ att[a].phase \notin {"unused", "running"} /\ Owns(a) /\ UNCHANGED <<tracker, att>>
        /\ slot' = [slot EXCEPT ![att[a].lead] = NoSlot]
    BY <1>15 DEF Reap
  <2> QED BY <2>1, FreeOwnKeepsTurns, TurnsLeftKeepSlots
<1> QED BY <1>5, <1>6, <1>7, <1>10, <1>11, <1>12, <1>13, <1>14, <1>15 DEF DispatchStep

\* The turn of a cat is backed by the cat's processing slot until the tracker
\* forgets it: a stale completion, the reaper, a retirement and an undone claim
\* never take it (releaseProcessingSlot); only releaseSlot does.
THEOREM TurnsKeepSlots == ASSUME ~SlowWrites PROVE Spec => TurnKeepsSlot
<1>1. IInv /\ [Next]_vars => [TurnStep]_vars
  <2> SUFFICES ASSUME IInv, Next PROVE TurnStep
    OBVIOUS
  <2>1. CASE BeginScan
    <3>1. TurnsLeft
      BY <2>1 DEF BeginScan, TurnsLeft
    <3> QED BY <3>1, TurnsLeftKeepSlots
  <2> QED BY <2>1, UserKeepsTurns, ScanKeepsTurns, SteerKeepsTurns, DispatchKeepsTurns DEF Next
<1> QED BY <1>1, Invariance, PTL DEF Spec, TurnKeepsSlot

-----------------------------------------------------------------------------
\* No row that is queued starts processing.
TakesNone == \A e \in Entries : row[e].status = "queued" => row'[e].status # "processing"

LEMMA TakesNoneKeepsFence ==
    ASSUME TakesNone PROVE ReservedStep
  BY DEF TakesNone, ReservedStep, Queued

LEMMA RequeueTakesNone ==
    ASSUME TypeOK, NEW E, NEW st \in {"queued", "gone"}, row' = WithStatus(E, st)
    PROVE  TakesNone
  BY WithStatusRows DEF TakesNone

LEMMA ClaimReservationKeepsFence ==
    ASSUME IInv, NEW s \in Steers, NEW a \in Attempts, NEW caller,
           Intact(s), ClaimReservation(s, a, caller), book'[s].phase = "activated"
    PROVE  ReservedStep
<1>1. /\ {book[s].primary} \union (book[s].members \ {book[s].primary}) = book[s].members
      /\ book[s].members \in SUBSET Entries
      /\ \A x \in book[s].members : Queued(x) /\ row[x].res = s
  BY WholeReservation
<1>2. row' = WithStatus(book[s].members, "processing")
  BY <1>1 DEF ClaimReservation, Claim
<1>3. \A x \in Entries : IF x \in book[s].members THEN row'[x].status = "processing"
                         ELSE row'[x] = row[x]
  BY <1>2, WithStatusRows DEF IInv
<1> SUFFICES ASSUME NEW e \in Entries, Queued(e), row'[e].status = "processing", row[e].res # None
             PROVE  /\ book'[row[e].res].phase = "activated"
                    /\ \A m \in book[row[e].res].members :
                          Queued(m) /\ row'[m].status = "processing"
  BY DEF ReservedStep
<1>4. e \in book[s].members
  BY <1>3 DEF Queued
<1>5. row[e].res = s
  BY <1>1, <1>4
<1> QED BY <1>1, <1>3, <1>5

LEMMA ClaimFreeKeepsFence ==
    ASSUME TypeOK, NEW E, row' = WithStatus(E, "processing"),
           \A e \in E : e \in Entries /\ row[e].res = None
    PROVE  ReservedStep
<1>1. \A e \in Entries : e \notin E => row'[e] = row[e]
  BY WithStatusRows
<1> QED BY <1>1 DEF ReservedStep, Queued

LEMMA UserTakesNone ==
    ASSUME IInv, UserStep
    PROVE  TakesNone
<1>1. ASSUME NEW e \in Entries, Enqueue(e) PROVE TakesNone
  BY <1>1 DEF Enqueue, TakesNone, IInv, TypeOK, Row
<1>2. ASSUME NEW e \in Entries, ClearOne(e) PROVE TakesNone
  <2>1. CASE Queued(e)
    BY <1>2, <2>1, RequeueTakesNone DEF ClearOne, IInv
  <2>2. CASE ~Queued(e)
    BY <1>2, <2>2 DEF ClearOne, TakesNone
  <2> QED BY <2>1, <2>2
<1>3. ASSUME NEW S \in SUBSET Steers, NEW e \in Entries,
             row' = [RowsReleased(S) EXCEPT ![e].status = "gone"]
      PROVE  TakesNone
  <2> DEFINE R == RowsReleased(S)
  <2>1. R \in [Entries -> Row] /\ \A x \in Entries : R[x].status = row[x].status
    BY RowsReleasedRows DEF IInv, QueueInv
  <2> HIDE DEF R
  <2>2. row' = [R EXCEPT ![e].status = "gone"]
    BY <1>3 DEF R
  <2>3. row'[e].status = "gone" /\ \A x \in Entries : x # e => row'[x] = R[x]
    BY <2>1, <2>2 DEF Row
  <2> QED BY <2>1, <2>3 DEF TakesNone
<1>4. ASSUME NEW e \in Entries, Withdraw(e) PROVE TakesNone
  <2>1. {row[e].res} \ {None} \in SUBSET Steers
    BY DEF IInv, TypeOK, Row
  <2> QED BY <1>3, <1>4, <2>1 DEF Withdraw
<1>5. CASE ClearQueue
  <2> DEFINE S == {row[e].res : e \in {x \in Entries : Queued(x) \/ Processing(x)}} \ {None}
  <2>1. S \in SUBSET Steers
    BY DEF IInv, TypeOK, Row
  <2>2. \/ row' = row
        \/ \E e \in Entries : row' = [RowsReleased(S) EXCEPT ![e].status = "gone"]
    BY <1>5 DEF ClearQueue
  <2> HIDE DEF S
  <2>3. CASE row' = row
    BY <2>3 DEF TakesNone
  <2> QED BY <1>3, <2>1, <2>2, <2>3
<1>6. ASSUME NEW c, ExternalStart(c) \/ ExternalEnd(c) \/ Stop(c) \/ ReleaseSlot(c)
      PROVE  TakesNone
  BY <1>6 DEF ExternalStart, ExternalEnd, Stop, ReleaseSlot, TakesNone
<1> QED BY <1>1, <1>2, <1>4, <1>5, <1>6 DEF UserStep

LEMMA GiveUpTakesNone ==
    ASSUME IInv, NEW s \in Steers, GiveUp(s)
    PROVE  TakesNone
  BY GiveUpFacts DEF IInv, TakesNone, RowsQuiet

LEMMA SteerKeepsFence ==
    ASSUME IInv, NEW s \in Steers, SteerStep(s)
    PROVE  ReservedStep
<1>1. ASSUME NEW E \in SUBSET Entries, NEW p \in Entries, Reserve(s, E, p) PROVE TakesNone
  BY <1>1 DEF Reserve, TakesNone, IInv, TypeOK, Row
<1>2. CASE ReservationNotWritten(s) \/ RetirementNotWritten(s) \/ SteerNotStarted(s)
  BY <1>2, GiveUpTakesNone, TakesNoneKeepsFence
      DEF ReservationNotWritten, RetirementNotWritten, SteerNotStarted
<1>3. CASE Preempt(s)
  <2>1. GiveUp(s) \/ UNCHANGED row
    BY <1>3 DEF Preempt
  <2> QED BY <2>1, GiveUpTakesNone, TakesNoneKeepsFence DEF TakesNone
<1>4. CASE CommitRetirement(s)
  <2>1. GiveUp(s) \/ \E E : row' = WithStatus(E, "gone")
    BY <1>4 DEF CommitRetirement
  <2> QED BY <2>1, GiveUpTakesNone, RequeueTakesNone, TakesNoneKeepsFence DEF IInv
<1>5. ASSUME NEW a \in Attempts, StartSteered(s, a) PROVE ReservedStep
  <2>1. book'[s].phase = "activated"
    BY <1>5 DEF StartSteered, IInv, TypeOK
  <2> QED BY <1>5, <2>1, ClaimReservationKeepsFence DEF StartSteered
<1> QED BY <1>1, <1>2, <1>3, <1>4, <1>5, TakesNoneKeepsFence DEF SteerStep

LEMMA DispatchKeepsFence ==
    ASSUME IInv, NEW a \in Attempts, DispatchStep(a)
    PROVE  ReservedStep
<1>1. ASSUME NEW s \in Steers, StartReservation(s, a) PROVE ReservedStep
  <2>1. Intact(s) /\ ClaimReservation(s, a, None) /\ book' = book /\ book[s].phase = "activated"
    BY <1>1 DEF StartReservation, Claimable
  <2> QED BY <2>1, ClaimReservationKeepsFence
<1>2. ASSUME NEW e \in Entries, StartEntry(e, a) PROVE ReservedStep
  <2>1. row' = WithStatus({e} \union {}, "processing") /\ row[e].res = None
    BY <1>2 DEF StartEntry, Claim
  <2>2. TypeOK /\ \A x \in {e} \union {} : x \in Entries /\ row[x].res = None
    BY <2>1 DEF IInv
  <2> QED BY <2>1, <2>2, ClaimFreeKeepsFence
<1>3. CASE StartWritten(a) \/ Unpark(a) \/ Fail(a) \/ Release(a)
  BY <1>3, TakesNoneKeepsFence DEF StartWritten, Unpark, Fail, Release, TakesNone
<1>4. CASE StartNotWritten(a)
  <2>1. \E E : row' = WithStatus(E, "queued")
    BY <1>4 DEF StartNotWritten
  <2> QED BY <2>1, RequeueTakesNone, TakesNoneKeepsFence DEF IInv
<1>5. CASE StartRejected(a)
  <2>1. CASE att[a].caller = None
    BY <1>5, <2>1, TakesNoneKeepsFence DEF StartRejected, TakesNone
  <2>2. CASE att[a].caller # None
    <3>1. att[a].caller \in Steers /\ GiveUp(att[a].caller)
      BY <1>5, <2>2 DEF StartRejected, IInv, TypeOK, Attempt
    <3> QED BY <3>1, GiveUpTakesNone, TakesNoneKeepsFence
  <2> QED BY <2>1, <2>2
<1>6. ASSUME NEW extra \in SUBSET Entries, Launch(a, extra) PROVE ReservedStep
  <2>1. UNCHANGED row \/ (extra \subseteq Matching(a) /\ row' = WithStatus(extra, "processing"))
    BY <1>6 DEF Launch
  <2>2. extra \subseteq Matching(a) => \A e \in extra : e \in Entries /\ row[e].res = None
    BY DEF Matching
  <2>3. CASE UNCHANGED row
    BY <2>3, TakesNoneKeepsFence DEF TakesNone
  <2>4. CASE extra \subseteq Matching(a) /\ row' = WithStatus(extra, "processing")
    <3>1. TypeOK /\ \A x \in extra : x \in Entries /\ row[x].res = None
      BY <2>2, <2>4 DEF IInv
    <3> QED BY <2>4, <3>1, ClaimFreeKeepsFence
  <2> QED BY <2>1, <2>3, <2>4
<1>7. ASSUME NEW ok, NEW stopped, Finish(a, ok, stopped) PROVE TakesNone
  BY <1>7 DEF Finish, TakesNone
<1>10. ASSUME NEW e \in Entries, NEW end \in {"queued", "gone"}, Settle(a, e, end)
       PROVE  TakesNone
  <2>1. UNCHANGED row \/ row' = WithStatus({e}, end)
    BY <1>10 DEF Settle
  <2>2. CASE UNCHANGED row
    BY <2>2 DEF TakesNone
  <2> QED BY <2>1, <2>2, RequeueTakesNone DEF IInv
<1>8. ASSUME NEW seen \in SUBSET Entries, Complete(a, seen) PROVE TakesNone
  <2>1. row' = [e \in Entries |->
                  IF e \in seen
                  THEN [status |-> IF row[e].targets \ att[a].ok = {} THEN "gone" ELSE "queued",
                        targets |-> row[e].targets \ att[a].ok, res |-> row[e].res]
                  ELSE row[e]]
    BY <1>8 DEF Complete
  <2> QED BY <2>1 DEF TakesNone
<1>9. CASE Reap(a)
  <2>1. UNCHANGED row \/ row' = WithStatus({att[a].entry}, "queued")
    BY <1>9 DEF Reap
  <2>2. CASE UNCHANGED row
    BY <2>2, TakesNoneKeepsFence DEF TakesNone
  <2>3. CASE row' = WithStatus({att[a].entry}, "queued")
    BY <2>3, RequeueTakesNone, TakesNoneKeepsFence DEF IInv
  <2> QED BY <2>1, <2>2, <2>3
<1> QED BY <1>1, <1>2, <1>3, <1>4, <1>5, <1>6, <1>7, <1>8, <1>9, <1>10, TakesNoneKeepsFence
        DEF DispatchStep

LEMMA ScanKeepsFence ==
    ASSUME IInv, ScanStep
    PROVE  ReservedStep
<1>1. CASE UNCHANGED row
  BY <1>1, TakesNoneKeepsFence DEF TakesNone
<1>2. ASSUME NEW a \in Attempts, NEW s \in Steers, ScanReservation(s, a) PROVE ReservedStep
  <2>1. CASE CatBusy(First(book[s].primary))
    BY <1>1, <1>2, <2>1 DEF ScanReservation, ScanSkips
  <2>2. CASE ~CatBusy(First(book[s].primary))
    <3>1. Intact(s) /\ ClaimReservation(s, a, None) /\ book' = book /\ book[s].phase = "activated"
      BY <1>2, <2>2 DEF ScanReservation, Offered, Claimable
    <3> QED BY <3>1, ClaimReservationKeepsFence
  <2> QED BY <2>1, <2>2
<1>3. ASSUME NEW a \in Attempts, NEW e \in Entries, ScanEntry(e, a) PROVE ReservedStep
  <2>1. CASE CatBusy(First(e))
    BY <1>1, <1>3, <2>1 DEF ScanEntry, ScanSkips
  <2>2. CASE ~CatBusy(First(e))
    <3>1. row' = WithStatus({e} \union {}, "processing") /\ row[e].res = None
      BY <1>3, <2>2 DEF ScanEntry, Claim
    <3>2. TypeOK /\ \A x \in {e} \union {} : x \in Entries /\ row[x].res = None
      BY <3>1 DEF IInv
    <3> QED BY <3>1, <3>2, ClaimFreeKeepsFence
  <2> QED BY <2>1, <2>2
<1>4. CASE ScanFindsNothing
  BY <1>1, <1>4 DEF ScanFindsNothing
<1> QED BY <1>2, <1>3, <1>4 DEF ScanStep

\* A reservation is claimed whole and by its own steer's activation; no other
\* claim takes a member out of it (markProcessing against exactSteerReservations).
THEOREM ReservationsFenced == ASSUME ~SlowWrites PROVE Spec => ReservedFence
<1>1. IInv /\ [Next]_vars => [ReservedStep]_vars
  <2> SUFFICES ASSUME IInv, Next PROVE ReservedStep
    OBVIOUS
  <2>1. CASE BeginScan
    BY <2>1, TakesNoneKeepsFence DEF BeginScan, TakesNone
  <2> QED BY <2>1, UserTakesNone, TakesNoneKeepsFence, SteerKeepsFence,
             DispatchKeepsFence, ScanKeepsFence DEF Next
<1> QED BY <1>1, Invariance, PTL DEF Spec, ReservedFence
=============================================================================
