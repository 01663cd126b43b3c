------------------------- MODULE TimetablePlanProofs -------------------------
(***************************************************************************)
(* Editing the plan by hand, for any plan and any number of admins: a run  *)
(* is called COMPLETED only when none of its conflicts is left; reverts    *)
(* over moves restore what they went back to; and the three checks keep    *)
(* teachers, rooms and classes out of two places at once.                  *)
(***************************************************************************)
EXTENDS TimetablePlan, FiniteSetTheorems, WellFoundedInduction, TLAPS

(* COMPLETED runs are settled.                                             *)

(* A request about to commit as the last one is right about it, since no   *)
(* conflict is ever opened again.                                          *)
LastIsRight(request, left) ==
    request.do = "resolve" /\ request.at = "commit" /\ request.last
        => left \subseteq {request.conflict}

RequestOK(request) ==
    /\ "do" \in DOMAIN request
    /\ request.do = "resolve" => {"at", "last", "conflict"} \subseteq DOMAIN request

SettledInv ==
    /\ CompletedIsSettled
    /\ open \subseteq ConflictIds
    /\ op = [a \in Admins |-> op[a]]
    /\ \A a \in Admins : RequestOK(op[a]) /\ LastIsRight(op[a], open)

(* What every step does, seen by this invariant: it touches one request,   *)
(* opens nothing, and leaves the status alone unless it commits the last   *)
(* resolution.                                                             *)
LEMMA StepKeepsSettled ==
    ASSUME SettledInv, NEW a \in Admins, NEW request,
           op' = [op EXCEPT ![a] = request],
           open' \subseteq open,
           RequestOK(request), LastIsRight(request, open'),
           runStatus' = runStatus \/ open' = {}
    PROVE  SettledInv'
<1>1. op' = [b \in Admins |-> op'[b]] /\ op'[a] = request
    BY DEF SettledInv
<1>2. ASSUME NEW b \in Admins PROVE RequestOK(op'[b]) /\ LastIsRight(op'[b], open')
  <2>1. CASE b = a
      BY <1>1, <2>1 DEF LastIsRight
  <2>2. CASE b # a
    <3>1. op'[b] = op[b]
        BY <2>2 DEF SettledInv
    <3>2. QED
        BY <3>1 DEF SettledInv, LastIsRight
  <2>3. QED
      BY <2>1, <2>2
<1>3. CompletedIsSettled'
    BY DEF SettledInv, CompletedIsSettled
<1>4. QED
    BY <1>1, <1>2, <1>3 DEF SettledInv, RequestOK

(* At first no request is under way, and the run is COMPLETED only if the  *)
(* solve left no conflict.                                                 *)
LEMMA SettledInit == Init => SettledInv
<1> SUFFICES ASSUME Init PROVE SettledInv
    OBVIOUS
<1>1. CompletedIsSettled /\ open \subseteq ConflictIds
    BY DEF Init, CompletedIsSettled
<1>2. op = [a \in Admins |-> op[a]] /\ \A a \in Admins : op[a] = Idle
    BY DEF Init
<1>3. RequestOK(Idle) /\ LastIsRight(Idle, open)
    BY DEF Idle, RequestOK, LastIsRight
<1>4. QED
    BY <1>1, <1>2, <1>3 DEF SettledInv

(* A request that goes back to rest.                                       *)
LEMMA DoneKeepsSettled ==
    ASSUME SettledInv, NEW a \in Admins, Done(a), open' \subseteq open,
           runStatus' = runStatus \/ open' = {}
    PROVE  SettledInv'
<1>1. RequestOK(Idle) /\ LastIsRight(Idle, open')
    BY DEF Idle, RequestOK, LastIsRight
<1>2. op' = [op EXCEPT ![a] = Idle]
    BY DEF Done
<1>3. QED
    BY <1>1, <1>2, StepKeepsSettled

(* A request that goes on to its next check, read or write.                *)
LEMMA AdvanceKeepsSettled ==
    ASSUME SettledInv, NEW a \in Admins,
           NEW at \in Checks \cup {"read", "write", "count"}, Step(a, at),
           open' = open, runStatus' = runStatus
    PROVE  SettledInv'
<1> PICK request : request = [op[a] EXCEPT !.at = at]
    OBVIOUS
<1>1. op' = [op EXCEPT ![a] = request]
    BY DEF Step, SettledInv
<1>2. RequestOK(op[a])
    BY DEF SettledInv
<1>3. DOMAIN request = DOMAIN op[a] /\ request.do = op[a].do
    BY <1>2 DEF RequestOK
<1>4. op[a].do = "resolve" => request.at = at /\ at # "commit"
    BY <1>2 DEF RequestOK, Checks
<1>5. RequestOK(request) /\ LastIsRight(request, open')
    BY <1>2, <1>3, <1>4 DEF RequestOK, LastIsRight
<1>6. QED
    BY <1>1, <1>5, StepKeepsSettled

(* A resolution that has read its conflict and the choice of the admin.    *)
LEMMA LoadConflictKeepsSettled ==
    ASSUME SettledInv, NEW a \in Admins, NEW c \in open, LoadConflict(a, c)
    PROVE  SettledInv'
<1>1. PICK at \in {"write", "teacher"}, places \in BOOLEAN, want \in {Wanted(c)} \cup Placements(c) :
          op' = [op EXCEPT ![a] = Request(c, at, places, want)]
    BY DEF LoadConflict
<1>2. open' = open /\ runStatus' = runStatus
    BY DEF LoadConflict
<1>3. PICK request : request = Request(c, at, places, want)
    OBVIOUS
<1>4. RequestOK(request) /\ LastIsRight(request, open')
    BY <1>3 DEF Request, RequestOK, LastIsRight
<1>5. QED
    BY <1>1, <1>2, <1>3, <1>4, StepKeepsSettled

(* The count of the other conflicts decides whether a resolution is the    *)
(* last.                                                                   *)
LEMMA CountKeepsSettled ==
    ASSUME SettledInv, NEW a \in Admins, CountRemaining(a)
    PROVE  SettledInv'
<1> PICK request : request = [op[a] EXCEPT !.at = "commit",
                                           !.last = (open \ {op[a].conflict} = {})]
    OBVIOUS
<1>1. /\ op' = [op EXCEPT ![a] = request]
      /\ open' = open /\ runStatus' = runStatus
      /\ op[a].do = "resolve"
    BY DEF CountRemaining, SettledInv
<1>2. RequestOK(op[a])
    BY DEF SettledInv
<1>3. /\ DOMAIN request = DOMAIN op[a] /\ request.do = "resolve"
      /\ request.conflict = op[a].conflict
      /\ request.last = (open \ {op[a].conflict} = {})
    BY <1>1, <1>2 DEF RequestOK
<1>4. RequestOK(request) /\ LastIsRight(request, open')
    BY <1>1, <1>2, <1>3 DEF RequestOK, LastIsRight
<1>5. QED
    BY <1>1, <1>4, StepKeepsSettled

(* The commit of a resolution removes its conflict, and completes the run  *)
(* only if it was counted as the last.                                     *)
LEMMA CommitKeepsSettled ==
    ASSUME SettledInv, NEW a \in Admins, CommitResolution(a)
    PROVE  SettledInv'
<1>1. /\ op[a].do = "resolve" /\ op[a].at = "commit"
      /\ open' = open \ {op[a].conflict}
      /\ runStatus' = IF op[a].last THEN "COMPLETED" ELSE runStatus
    BY DEF CommitResolution
<1>2. op[a].last => open' = {}
    BY <1>1 DEF SettledInv, LastIsRight
<1>3. Done(a)
    BY DEF CommitResolution
<1>4. QED
    BY <1>1, <1>2, <1>3, DoneKeepsSettled

(* A request that resolves nothing starts, or reads.                       *)
LEMMA OtherStartKeepsSettled ==
    ASSUME SettledInv, NEW a \in Admins, NEW request,
           op' = [op EXCEPT ![a] = request],
           "do" \in DOMAIN request, request.do # "resolve",
           open' = open, runStatus' = runStatus
    PROVE  SettledInv'
<1>1. RequestOK(request) /\ LastIsRight(request, open')
    BY DEF RequestOK, LastIsRight
<1>2. QED
    BY <1>1, StepKeepsSettled

(* Every step of every admin keeps the invariant.                          *)
LEMMA SettledStep == SettledInv /\ [Next]_vars => SettledInv'
<1> SUFFICES ASSUME SettledInv, [Next]_vars PROVE SettledInv'
    OBVIOUS
<1>1. CASE op' = op /\ open' = open /\ runStatus' = runStatus
    BY <1>1 DEF SettledInv, CompletedIsSettled, RequestOK, LastIsRight
<1>2. CASE UNCHANGED vars \/ ActivateRun
    BY <1>1, <1>2 DEF vars, ActivateRun
<1>3. ASSUME NEW a \in Admins, NEW l \in DOMAIN plan, NEW slot \in Slots, NEW room \in Rooms,
             ValidateMove(a, l, slot, room)
      PROVE  SettledInv'
  <2>1. PICK keep \in BOOLEAN : op' = [op EXCEPT ![a] =
                [do |-> "move", at |-> "teacher", lesson |-> l, keepRoom |-> keep,
                 want |-> [plan[l] EXCEPT !.slot = slot, !.room = room],
                 from |-> plan[l], seen |-> Written]]
      BY <1>3 DEF ValidateMove
  <2>2. PICK request : request = [do |-> "move", at |-> "teacher", lesson |-> l, keepRoom |-> keep,
                 want |-> [plan[l] EXCEPT !.slot = slot, !.room = room],
                 from |-> plan[l], seen |-> Written]
      OBVIOUS
  <2>3. "do" \in DOMAIN request /\ request.do # "resolve"
      BY <2>2
  <2>4. open' = open /\ runStatus' = runStatus
      BY <1>3 DEF ValidateMove
  <2>5. QED
      BY <2>1, <2>2, <2>3, <2>4, OtherStartKeepsSettled
<1>4. ASSUME NEW a \in Admins, NEW c \in open, LoadConflict(a, c) PROVE SettledInv'
    BY <1>4, LoadConflictKeepsSettled
<1>5. ASSUME NEW a \in Admins, CheckPlacement(a) PROVE SettledInv'
  <2>1. open' = open /\ runStatus' = runStatus
      BY <1>5 DEF CheckPlacement
  <2>2. CASE Done(a)
      BY <2>1, <2>2, DoneKeepsSettled
  <2>3. CASE Step(a, AfterCheck(a))
    <3>1. AfterCheck(a) \in {"room", "class", "read", "write"}
        BY <1>5 DEF CheckPlacement, AfterCheck, Checks
    <3>2. PICK at : at = AfterCheck(a)
        OBVIOUS
    <3>3. at \in Checks \cup {"read", "write", "count"}
        BY <3>1, <3>2 DEF Checks
    <3>4. QED
        BY <2>1, <2>3, <3>2, <3>3, AdvanceKeepsSettled
  <2>4. QED
      BY <1>5, <2>2, <2>3 DEF CheckPlacement
<1>6. ASSUME NEW a \in Admins, ReadLesson(a) PROVE SettledInv'
  <2>1. PICK request : request = [op[a] EXCEPT !.at = "write", !.from = plan[op[a].lesson]]
      OBVIOUS
  <2>2. /\ op' = [op EXCEPT ![a] = request]
        /\ open' = open /\ runStatus' = runStatus /\ op[a].do = "move"
      BY <1>6, <2>1 DEF ReadLesson, SettledInv
  <2>3. "do" \in DOMAIN request /\ request.do # "resolve"
      BY <2>1, <2>2 DEF SettledInv, RequestOK
  <2>4. QED
      BY <2>2, <2>3, OtherStartKeepsSettled
<1>7. ASSUME NEW a \in Admins, SaveMove(a) \/ SaveRevert(a) PROVE SettledInv'
  <2>1. Done(a) /\ open' = open /\ runStatus' = runStatus
      BY <1>7 DEF SaveMove, SaveRevert
  <2>2. QED
      BY <2>1, DoneKeepsSettled
<1>8. ASSUME NEW a \in Admins, MarkResolved(a) PROVE SettledInv'
  <2>1. open' = open /\ runStatus' = runStatus /\ (Done(a) \/ Step(a, "count"))
      BY <1>8 DEF MarkResolved
  <2>2. CASE Done(a)
      BY <2>1, <2>2, DoneKeepsSettled
  <2>3. CASE Step(a, "count")
      BY <2>1, <2>3, AdvanceKeepsSettled
  <2>4. QED
      BY <2>1, <2>2, <2>3
<1>9. ASSUME NEW a \in Admins, NEW t \in DOMAIN edits, ReadLaterEdits(a, t) PROVE SettledInv'
  <2>1. PICK request : request = [do |-> "revert", at |-> "write", target |-> t,
                                  upto |-> Len(edits), seen |-> Written]
      OBVIOUS
  <2>2. op' = [op EXCEPT ![a] = request] /\ open' = open /\ runStatus' = runStatus
      BY <1>9, <2>1 DEF ReadLaterEdits
  <2>3. "do" \in DOMAIN request /\ request.do # "resolve"
      BY <2>1
  <2>4. QED
      BY <2>2, <2>3, OtherStartKeepsSettled
<1>10. QED
    BY <1>2, <1>3, <1>4, <1>5, <1>6, <1>7, <1>8, <1>9, CountKeepsSettled, CommitKeepsSettled
       DEF Next

(* A run whose status is COMPLETED has no open conflict, for any number of *)
(* admins, conflicts, lessons and slots.                                   *)
THEOREM RunsAreSettled == Spec => []CompletedIsSettled
<1>1. SettledInv => CompletedIsSettled
    BY DEF SettledInv
<1>2. QED
    BY SettledInit, SettledStep, <1>1, PTL DEF Spec

-----------------------------------------------------------------------------
(* Undoing edits: what a rollback makes of one lesson of the plan.         *)

(* A set of naturals that is not empty has a least element.                *)
LEMMA LeastOfNaturals ==
    ASSUME NEW T \in SUBSET Nat, T # {}
    PROVE  \E x \in T : \A y \in T : x <= y
<1>1. PICK x \in T : \A y \in T : ~(<<y, x>> \in OpToRel(<, Nat))
    BY NatLessThanWellFounded, WFMin
<1>2. \A y \in T : ~(y < x)
    BY <1>1 DEF OpToRel
<1>3. QED
    BY <1>2

(* The least of a set of numbers.                                          *)
LeastOf(S) == CHOOSE e \in S : \A d \in S : e <= d

(* It is in the set, and no element is less.                               *)
LEMMA LeastOfIs ==
    ASSUME NEW S \in SUBSET Nat, S # {}
    PROVE  LeastOf(S) \in S /\ \A d \in S : LeastOf(S) <= d
BY LeastOfNaturals DEF LeastOf

(* Greater numbers do not change the least one.                            *)
LEMMA LeastOfMore ==
    ASSUME NEW S \in SUBSET Nat, S # {}, NEW T \in SUBSET Nat, \A x \in S, y \in T : x <= y
    PROVE  LeastOf(S \cup T) = LeastOf(S)
<1>1. LeastOf(S) \in S /\ \A d \in S : LeastOf(S) <= d
    BY LeastOfIs
<1>2. S \cup T \in SUBSET Nat /\ S \cup T # {}
    OBVIOUS
<1>3. LeastOf(S \cup T) \in S \cup T /\ \A d \in S \cup T : LeastOf(S \cup T) <= d
    BY <1>2, LeastOfIs
<1>4. LeastOf(S \cup T) <= LeastOf(S) /\ LeastOf(S) <= LeastOf(S \cup T)
    BY <1>1, <1>3
<1>5. LeastOf(S) \in Nat /\ LeastOf(S \cup T) \in Nat
    BY <1>1, <1>3
<1>6. \A v, w \in Nat : v <= w /\ w <= v => v = w
    OBVIOUS
<1>7. QED
    BY <1>4, <1>5, <1>6

(* The moves of lesson l among edits k + 1 to u of a history.              *)
MovesIn(es, l, k, u) == {e \in k + 1 .. u : es[e].do = "move" /\ es[e].lesson = l}

(* Lesson x once they are undone: the oldest has the last word.            *)
Placed(x, es, l, k, u) ==
    IF MovesIn(es, l, k, u) = {} THEN x ELSE Undo(x, es[LeastOf(MovesIn(es, l, k, u))])

(* A rollback is that, for every lesson of the plan.                       *)
LEMMA RollbackIs ==
    \A k, u : Rollback(k, u) = [l \in DOMAIN plan |-> Placed(plan[l], edits, l, k, u)]
BY DEF Rollback, Placed, MovesOf, MovesIn, LeastOf

(* An undo gives a lesson.                                                 *)
LEMMA PlacedType ==
    ASSUME NEW x \in Lesson, NEW es \in Seq(Edit), NEW l, NEW k \in Nat, NEW u \in Nat, u <= Len(es)
    PROVE  Placed(x, es, l, k, u) \in Lesson
<1> DEFINE S == MovesIn(es, l, k, u)
<1>1. CASE S = {}
    BY <1>1 DEF Placed
<1>2. CASE S # {}
  <2>1. S \in SUBSET Nat
      BY DEF MovesIn
  <2>2. LeastOf(S) \in S
      BY <1>2, <2>1, LeastOfIs
  <2>3. LeastOf(S) \in k + 1 .. u /\ es[LeastOf(S)].do = "move"
      BY <2>2 DEF MovesIn
  <2>4. es[LeastOf(S)] \in Edit
      BY <2>3
  <2>5. es[LeastOf(S)].from \in Lesson
      BY <2>3, <2>4 DEF Edit
  <2>6. Undo(x, es[LeastOf(S)]) \in Lesson
      BY <2>5 DEF Undo, Lesson
  <2>7. QED
      BY <1>2, <2>6 DEF Placed
<1>3. QED
    BY <1>1, <1>2

(* Undoing no edits moves nothing.                                         *)
LEMMA NothingToUndo ==
    ASSUME NEW x, NEW es, NEW l, NEW n \in Nat
    PROVE  Placed(x, es, l, n, n) = x
BY DEF Placed, MovesIn

(* One more edit adds a move of the lesson, or none.                       *)
LEMMA MovesInOneMore ==
    ASSUME NEW es \in Seq(Edit), NEW e \in Edit, NEW l, NEW t \in DOMAIN es
    PROVE  /\ e.do = "move" /\ e.lesson = l =>
                MovesIn(Append(es, e), l, t, Len(es) + 1)
                    = MovesIn(es, l, t, Len(es)) \cup {Len(es) + 1}
           /\ ~(e.do = "move" /\ e.lesson = l) =>
                MovesIn(Append(es, e), l, t, Len(es) + 1) = MovesIn(es, l, t, Len(es))
           /\ MovesIn(es, l, t, Len(es)) \in SUBSET (t + 1 .. Len(es))
           /\ MovesIn(es, l, t, Len(es)) \in SUBSET Nat
           /\ \A d \in t + 1 .. Len(es) : Append(es, e)[d] = es[d]
<1>1. /\ Len(es) \in Nat /\ t \in 1 .. Len(es)
      /\ t + 1 .. Len(es) + 1 = (t + 1 .. Len(es)) \cup {Len(es) + 1}
    OBVIOUS
<1>2. /\ \A d \in t + 1 .. Len(es) : Append(es, e)[d] = es[d]
      /\ Append(es, e)[Len(es) + 1] = e
    BY <1>1
<1>3. MovesIn(es, l, t, Len(es)) \in SUBSET Nat
    BY <1>1 DEF MovesIn
<1>4. QED
    BY <1>1, <1>2, <1>3 DEF MovesIn

(* Undoing an edit that moves another lesson, or none, leaves this one.    *)
LEMMA EditOfAnother ==
    ASSUME NEW es \in Seq(Edit), NEW e \in Edit, NEW l, NEW t \in DOMAIN es, NEW x,
           ~(e.do = "move" /\ e.lesson = l)
    PROVE  Placed(x, Append(es, e), l, t, Len(es) + 1) = Placed(x, es, l, t, Len(es))
<1> DEFINE S == MovesIn(es, l, t, Len(es))
<1>1. MovesIn(Append(es, e), l, t, Len(es) + 1) = S
    BY MovesInOneMore
<1>2. S # {} => LeastOf(S) \in S
    BY MovesInOneMore, LeastOfIs
<1>3. S # {} => Append(es, e)[LeastOf(S)] = es[LeastOf(S)]
    BY <1>2, MovesInOneMore
<1>4. QED
    BY <1>1, <1>3 DEF Placed

(* An undo overrides slot and room: where the lesson was does not matter.  *)
LEMMA UndoOfSame ==
    ASSUME NEW x \in Lesson, NEW y \in Lesson, x.teacher = y.teacher, x.class = y.class,
           x.week = y.week, NEW e, e.from \in Lesson
    PROVE  Undo(y, e) = Undo(x, e) /\ (e.from = x => Undo(y, e) = x)
<1>1. /\ Undo(x, e) \in Lesson /\ Undo(y, e) \in Lesson
      /\ Undo(y, e).slot = e.from.slot /\ Undo(y, e).room = e.from.room
      /\ Undo(x, e).slot = e.from.slot /\ Undo(x, e).room = e.from.room
      /\ Undo(x, e).teacher = x.teacher /\ Undo(x, e).class = x.class /\ Undo(x, e).week = x.week
      /\ Undo(y, e).teacher = x.teacher /\ Undo(y, e).class = x.class /\ Undo(y, e).week = x.week
    BY DEF Undo, Lesson
<1>2. \A v, w \in Lesson : v.teacher = w.teacher /\ v.class = w.class /\ v.room = w.room
                             /\ v.slot = w.slot /\ v.week = w.week => v = w
    BY DEF Lesson
<1>3. QED
    BY <1>1, <1>2

(* Undoing a lesson's own move as well gives what undoing the edits before *)
(* it gave: the edit keeps the placement it had.                           *)
LEMMA EditOfThis ==
    ASSUME NEW es \in Seq(Edit), NEW e \in Edit, NEW l, NEW t \in DOMAIN es,
           e.do = "move", e.lesson = l, NEW x \in Lesson, NEW y \in Lesson, e.from = x,
           x.teacher = y.teacher, x.class = y.class, x.week = y.week
    PROVE  Placed(y, Append(es, e), l, t, Len(es) + 1) = Placed(x, es, l, t, Len(es))
<1> DEFINE S == MovesIn(es, l, t, Len(es))
           n == Len(es) + 1
<1>1. MovesIn(Append(es, e), l, t, n) = S \cup {n} /\ n \in Nat /\ Append(es, e)[n] = e
  <2>1. MovesIn(Append(es, e), l, t, n) = S \cup {n}
      BY MovesInOneMore
  <2>2. n \in Nat /\ Append(es, e)[n] = e
      OBVIOUS
  <2>3. QED
      BY <2>1, <2>2
<1>2. CASE S = {}
  <2>1. MovesIn(Append(es, e), l, t, n) = {n} /\ {n} \in SUBSET Nat
      BY <1>1, <1>2
  <2>2. LeastOf({n}) = n
      BY <2>1, LeastOfIs
  <2>3. Placed(y, Append(es, e), l, t, n) = Undo(y, e)
      BY <1>1, <2>1, <2>2 DEF Placed
  <2>4. Placed(x, es, l, t, Len(es)) = x
      BY <1>2 DEF Placed
  <2>5. QED
      BY <2>3, <2>4, UndoOfSame
<1>3. CASE S # {}
  <2>1. S \in SUBSET Nat /\ LeastOf(S) \in S /\ S \subseteq t + 1 .. Len(es)
      BY <1>3, MovesInOneMore, LeastOfIs
  <2>2. \A v \in S : v <= n
      BY <2>1
  <2>3. LeastOf(S \cup {n}) = LeastOf(S)
    <3>1. {n} \in SUBSET Nat /\ \A v \in S, w \in {n} : v <= w
        BY <1>1, <2>2
    <3> HIDE DEF S, n
    <3>2. QED
        BY <1>3, <2>1, <3>1, LeastOfMore
  <2>4. Append(es, e)[LeastOf(S)] = es[LeastOf(S)]
      BY <2>1, MovesInOneMore
  <2>5. es[LeastOf(S)] \in Edit /\ es[LeastOf(S)].do = "move"
      BY <2>1 DEF MovesIn
  <2>6. es[LeastOf(S)].from \in Lesson
      BY <2>5 DEF Edit
  <2>7. Placed(y, Append(es, e), l, t, n) = Undo(y, es[LeastOf(S)])
      BY <1>1, <2>3, <2>4 DEF Placed
  <2>8. Placed(x, es, l, t, Len(es)) = Undo(x, es[LeastOf(S)])
      BY <1>3 DEF Placed
  <2>9. QED
      BY <2>6, <2>7, <2>8, UndoOfSame
<1>4. QED
    BY <1>2, <1>3

-----------------------------------------------------------------------------
(* Types, unique constraints and the bound of the history.                 *)

(* The admins whose request will add to the history.                       *)
Editing == {a \in Admins : op[a].do \in {"move", "revert"}}

(* What an admin asks for refers to lessons and edits that are there.      *)
InRange(r) ==
    /\ r.do = "move" => r.lesson \in DOMAIN plan
    /\ r.do = "revert" => r.target \in 1 .. r.upto /\ r.upto <= Len(edits)

(* Types; every request and every edit refers to lessons and edits that    *)
(* are there; nobody inserts what would break a unique constraint once it  *)
(* is committed; and the bound holds with all edits under way.             *)
PlanInv ==
    /\ TypeOK
    /\ \A a \in Admins : InRange(op[a])
    /\ \A e \in DOMAIN edits :
          /\ edits[e].do = "move" => edits[e].lesson \in DOMAIN plan
          /\ edits[e].do = "revert" => edits[e].target \in 1 .. e
    /\ \A a \in Admins : Inserting(a) => \A i \in DOMAIN plan : ~SameKey(op[a].want, plan[i])
    /\ \A a, b \in Admins :
          a # b /\ Inserting(a) /\ Inserting(b) => ~SameKey(op[a].want, op[b].want)
    /\ Len(edits) + Cardinality(Editing) <= MaxEdits

(* What a request is can be read off its "do".                             *)
LEMMA RequestKinds ==
    ASSUME TypeOK, NEW a \in Admins
    PROVE  /\ op[a] \in {Idle} \cup Move \cup Resolution \cup Revert
           /\ op[a].do \in {"none", "move", "resolve", "revert"}
           /\ op[a].do = "none" => op[a] = Idle
           /\ op[a].do = "move" => op[a] \in Move
           /\ op[a].do = "resolve" => op[a] \in Resolution
           /\ op[a].do = "revert" => op[a] \in Revert
BY DEF TypeOK, Idle, Move, Resolution, Revert

(* An admin without a request is at rest.                                  *)
LEMMA IdleIsNone == Idle.do = "none"
BY DEF Idle

(* There are finitely many admins, so those editing can be counted.        *)
LEMMA EditingType == IsFiniteSet(Editing) /\ Cardinality(Editing) \in Nat
<1>1. Editing \in SUBSET Admins
    BY DEF Editing
<1>2. QED
    BY <1>1, DataAssumption, FS_Subset, FS_CardinalityType

(* A request of one admin changes: the editing ones grow by that admin at  *)
(* most, ...                                                               *)
LEMMA EditingChange ==
    ASSUME TypeOK, NEW a \in Admins, NEW r, op' = [op EXCEPT ![a] = r]
    PROVE  /\ Cardinality(Editing') \in Nat
           /\ Cardinality(Editing') <= Cardinality(Editing) + 1
           /\ r.do \notin {"move", "revert"} \/ op[a].do \in {"move", "revert"}
                => Cardinality(Editing') <= Cardinality(Editing)
           /\ r.do \notin {"move", "revert"} /\ op[a].do \in {"move", "revert"}
                => Cardinality(Editing') = Cardinality(Editing) - 1
<1>1. Editing' = IF r.do \in {"move", "revert"} THEN Editing \cup {a} ELSE Editing \ {a}
    BY DEF Editing, TypeOK
<1>2. a \in Editing <=> op[a].do \in {"move", "revert"}
    BY DEF Editing
<1>3. /\ Cardinality(Editing \cup {a}) = IF a \in Editing THEN Cardinality(Editing) ELSE Cardinality(Editing) + 1
      /\ Cardinality(Editing \ {a}) = IF a \in Editing THEN Cardinality(Editing) - 1 ELSE Cardinality(Editing)
    BY EditingType, FS_AddElement, FS_RemoveElement
<1>4. /\ Cardinality(Editing \cup {a}) \in Nat /\ Cardinality(Editing \ {a}) \in Nat
      /\ Cardinality(Editing) \in Nat
    BY <1>3, EditingType, FS_AddElement, FS_RemoveElement, FS_CardinalityType
<1>5. CASE r.do \in {"move", "revert"}
    BY <1>1, <1>2, <1>3, <1>4, <1>5
<1>6. CASE r.do \notin {"move", "revert"}
    BY <1>1, <1>2, <1>3, <1>4, <1>6
<1>7. QED
    BY <1>5, <1>6

(* At first nobody asks for anything, and the plan is what the solve run   *)
(* stored.                                                                 *)
LEMMA PlanInit == Init => PlanInv
<1> SUFFICES ASSUME Init PROVE PlanInv
    OBVIOUS
<1>1. \A a \in Admins : op[a] = Idle
    BY DEF Init
<1>2. Editing = {}
    BY <1>1, IdleIsNone DEF Editing
<1>3. Len(edits) + Cardinality(Editing) <= MaxEdits
    BY <1>2, FS_EmptySet, DataAssumption DEF Init
<1>4. TypeOK
  <2>1. plan \in Seq(Lesson) /\ Unique(plan)
      BY DataAssumption DEF Init
  <2>2. edits \in Seq(Edit) /\ Len(edits) <= MaxEdits
      BY DataAssumption DEF Init
  <2>3. aux_after \in Seq(Seq(Lesson)) /\ Len(aux_after) = Len(edits)
      BY DEF Init
  <2>4. op \in [Admins -> {Idle} \cup Move \cup Resolution \cup Revert]
      BY DEF Init
  <2>5. QED
      BY <2>1, <2>2, <2>3, <2>4 DEF Init, TypeOK
<1>5. QED
    BY <1>1, <1>3, <1>4, IdleIsNone DEF Init, PlanInv, InRange, Inserting

(* What an admin's request can be.                                         *)
Requests == {Idle} \cup Move \cup Resolution \cup Revert

(* An edit refers to a lesson of the plan, or to an edit before it.        *)
EditInRange(e) ==
    /\ edits[e].do = "move" => edits[e].lesson \in DOMAIN plan
    /\ edits[e].do = "revert" => edits[e].target \in 1 .. e

(* A step of one request keeps PlanInv, if what it writes is typed and in  *)
(* range, and respects what others have inserted.                          *)
LEMMA StepKeepsPlan ==
    ASSUME PlanInv, NEW a \in Admins, NEW r \in Requests, op' = [op EXCEPT ![a] = r],
           plan' \in Seq(Lesson), Unique(plan'), DOMAIN plan \subseteq DOMAIN plan',
           open' \subseteq ConflictIds, isActive' = isActive,
           runStatus' \in {"COMPLETED", "COMPLETED_WITH_CONFLICTS"}, aux_stale' \in BOOLEAN,
           edits' \in Seq(Edit), aux_after' \in Seq(Seq(Lesson)), Len(aux_after') = Len(edits'),
           \/ edits' = edits /\ (r.do \in {"move", "revert"}
                                   => MayEdit \/ op[a].do \in {"move", "revert"})
           \/ r = Idle /\ op[a].do \in {"move", "revert"} /\ Len(edits') = Len(edits) + 1,
           \A e \in DOMAIN edits' : EditInRange(e)',
           InRange(r)',
           \A b \in Admins : Inserting(b)'
               => \A i \in DOMAIN plan' : ~SameKey(op'[b].want, plan'[i]),
           Inserting(a)' => \A b \in Admins \ {a} : Inserting(b)
                                => ~SameKey(r.want, op[b].want)
    PROVE  PlanInv'
<1>1. op'[a] = r /\ \A b \in Admins \ {a} : op'[b] = op[b]
    BY DEF PlanInv, TypeOK
<1>2. Len(edits) <= Len(edits')
    BY DEF PlanInv, TypeOK
<1>3. Len(edits') + Cardinality(Editing') <= MaxEdits
  <2>1. /\ Len(edits) \in Nat /\ Cardinality(Editing) \in Nat /\ Cardinality(Editing') \in Nat
        /\ MaxEdits \in Nat
        /\ Len(edits) + Cardinality(Editing) <= MaxEdits
    <3>1. Len(edits) \in Nat /\ TypeOK /\ Len(edits) + Cardinality(Editing) <= MaxEdits
        BY DEF PlanInv, TypeOK
    <3>2. Cardinality(Editing) \in Nat /\ Cardinality(Editing') \in Nat
        BY <3>1, EditingType, EditingChange
    <3>3. QED
        BY <3>1, <3>2, DataAssumption
  <2>2. CASE edits' = edits /\ (r.do \notin {"move", "revert"} \/ op[a].do \in {"move", "revert"})
      <3>1. Cardinality(Editing') <= Cardinality(Editing)
          BY <2>2, EditingChange DEF PlanInv
      <3>2. QED
          BY <2>1, <2>2, <3>1
  <2>3. CASE edits' = edits /\ MayEdit
      <3>1. Cardinality(Editing') <= Cardinality(Editing) + 1
          BY EditingChange DEF PlanInv
      <3>2. Len(edits) + Cardinality(Editing) < MaxEdits
          BY <2>3 DEF MayEdit, Editing
      <3>3. QED
          BY <2>1, <2>3, <3>1, <3>2
  <2>4. CASE r = Idle /\ op[a].do \in {"move", "revert"} /\ Len(edits') = Len(edits) + 1
      <3>1. Cardinality(Editing') = Cardinality(Editing) - 1
          BY <2>4, IdleIsNone, EditingChange DEF PlanInv
      <3>2. QED
          BY <2>1, <2>4, <3>1
  <2>5. QED
      BY <2>2, <2>3, <2>4
<1>4. Len(edits') <= MaxEdits
  <2>1. Cardinality(Editing') \in Nat
      BY EditingChange DEF PlanInv
  <2>2. QED
      BY <1>3, <2>1, DataAssumption
<1>5. TypeOK'
  <2>1. op' \in [Admins -> {Idle} \cup Move \cup Resolution \cup Revert]
      BY DEF PlanInv, TypeOK, Requests
  <2>2. isActive' \in BOOLEAN
      BY DEF PlanInv, TypeOK
  <2>3. QED
      BY <1>4, <2>1, <2>2 DEF TypeOK
<1>6. \A b \in Admins : InRange(op[b])'
  <2> SUFFICES ASSUME NEW b \in Admins PROVE InRange(op[b])'
      OBVIOUS
  <2>1. CASE b = a
      BY <1>1, <2>1 DEF InRange
  <2>2. CASE b # a
    <3>1. op'[b] = op[b] /\ InRange(op[b]) /\ op[b] \in Requests
        BY <1>1, <2>2 DEF PlanInv, TypeOK, Requests
    <3>2. op[b].do = "revert" => op[b].upto \in Nat
        BY <3>1 DEF Requests, Idle, Move, Resolution, Revert
    <3>3. Len(edits) \in Nat /\ Len(edits') \in Nat
        BY DEF PlanInv, TypeOK
    <3>4. QED
        BY <1>2, <3>1, <3>2, <3>3 DEF InRange
  <2>3. QED
      BY <2>1, <2>2
<1>7. \A b, c \in Admins : b # c /\ Inserting(b)' /\ Inserting(c)'
                             => ~SameKey(op'[b].want, op'[c].want)
  <2> SUFFICES ASSUME NEW b \in Admins, NEW c \in Admins, b # c, Inserting(b)', Inserting(c)'
               PROVE  ~SameKey(op'[b].want, op'[c].want)
      OBVIOUS
  <2>1. CASE b # a /\ c # a
      BY <1>1, <2>1 DEF PlanInv, Inserting
  <2>2. CASE b = a
      BY <1>1, <2>2 DEF Inserting
  <2>3. CASE c = a
      BY <1>1, <2>3 DEF Inserting, SameKey
  <2>4. QED
      BY <2>1, <2>2, <2>3
<1>8. QED
    BY <1>3, <1>5, <1>6, <1>7 DEF PlanInv, EditInRange

(* A step that writes nothing.                                             *)
LEMMA QuietKeepsPlan ==
    ASSUME PlanInv, NEW a \in Admins, NEW r \in Requests, op' = [op EXCEPT ![a] = r],
           UNCHANGED <<plan, open, runStatus, isActive, edits, aux>>,
           r.do \in {"move", "revert"} => MayEdit \/ op[a].do \in {"move", "revert"},
           InRange(r),
           Inserting(a)' => /\ \A i \in DOMAIN plan : ~SameKey(r.want, plan[i])
                            /\ \A b \in Admins \ {a} : Inserting(b)
                                  => ~SameKey(r.want, op[b].want)
    PROVE  PlanInv'
<1>1. op'[a] = r /\ \A b \in Admins \ {a} : op'[b] = op[b]
    BY DEF PlanInv, TypeOK
<1>2. /\ plan' = plan /\ open' = open /\ runStatus' = runStatus /\ isActive' = isActive
      /\ edits' = edits /\ aux_after' = aux_after /\ aux_stale' = aux_stale
    BY DEF aux
<1>3. \A e \in DOMAIN edits' : EditInRange(e)'
    BY <1>2 DEF PlanInv, EditInRange
<1>4. InRange(r)'
    BY <1>2 DEF InRange
<1>5. \A b \in Admins : Inserting(b)' => \A i \in DOMAIN plan' : ~SameKey(op'[b].want, plan'[i])
  <2> SUFFICES ASSUME NEW b \in Admins, Inserting(b)'
               PROVE  \A i \in DOMAIN plan' : ~SameKey(op'[b].want, plan'[i])
      OBVIOUS
  <2>1. CASE b = a
      BY <1>1, <1>2, <2>1
  <2>2. CASE b # a
      BY <1>1, <1>2, <2>2 DEF PlanInv, Inserting
  <2>3. QED
      BY <2>1, <2>2
<1>6. /\ plan' \in Seq(Lesson) /\ Unique(plan') /\ DOMAIN plan \subseteq DOMAIN plan'
      /\ open' \subseteq ConflictIds /\ isActive' = isActive
      /\ runStatus' \in {"COMPLETED", "COMPLETED_WITH_CONFLICTS"} /\ aux_stale' \in BOOLEAN
      /\ edits' \in Seq(Edit) /\ aux_after' \in Seq(Seq(Lesson)) /\ Len(aux_after') = Len(edits')
    BY <1>2 DEF PlanInv, TypeOK
<1>7. QED
    BY <1>2, <1>3, <1>4, <1>5, <1>6, StepKeepsPlan

(* A request that ends without a write.                                    *)
LEMMA DoneQuietly ==
    ASSUME PlanInv, NEW a \in Admins, Done(a),
           UNCHANGED <<plan, open, runStatus, isActive, edits, aux>>
    PROVE  PlanInv'
<1>1. op' = [op EXCEPT ![a] = Idle] /\ Idle \in Requests
    BY DEF Done, Requests
<1>2. op'[a] = Idle
    BY <1>1 DEF PlanInv, TypeOK
<1>3. InRange(Idle) /\ ~Inserting(a)' /\ Idle.do \notin {"move", "revert"}
    BY <1>2, IdleIsNone DEF InRange, Inserting
<1>4. QED
    BY <1>1, <1>3, QuietKeepsPlan

(* moveLesson is called for a lesson of the plan.                          *)
LEMMA ValidateMoveKeepsPlan ==
    ASSUME PlanInv, NEW a \in Admins, NEW l \in DOMAIN plan, NEW slot \in Slots,
           NEW room \in Rooms, ValidateMove(a, l, slot, room)
    PROVE  PlanInv'
<1>1. PICK keep \in BOOLEAN :
          op' = [op EXCEPT ![a] =
                [do |-> "move", at |-> "teacher", lesson |-> l, keepRoom |-> keep,
                 want |-> [plan[l] EXCEPT !.slot = slot, !.room = room],
                 from |-> plan[l], seen |-> Written]]
    BY DEF ValidateMove
<1> DEFINE r == [do |-> "move", at |-> "teacher", lesson |-> l, keepRoom |-> keep,
                 want |-> [plan[l] EXCEPT !.slot = slot, !.room = room],
                 from |-> plan[l], seen |-> Written]
<1>2. plan[l] \in Lesson /\ l \in Nat /\ Written \in Nat
    BY DEF PlanInv, TypeOK, Written
<1>3. [plan[l] EXCEPT !.slot = slot, !.room = room] \in Lesson
    BY <1>2 DEF Lesson
<1>4. r \in Move
    BY <1>2, <1>3 DEF Move, Checks
<1>5. r.do = "move" /\ r.lesson = l /\ r \in Requests
    BY <1>4 DEF Requests
<1>6. op'[a] = r
    BY <1>1 DEF PlanInv, TypeOK
<1>7. ~Inserting(a)' /\ InRange(r)
    BY <1>5, <1>6 DEF Inserting, InRange
<1>8. MayEdit /\ UNCHANGED <<plan, open, runStatus, isActive, edits, aux>>
    BY DEF ValidateMove
<1> HIDE DEF r
<1>9. QED
    BY <1>1, <1>5, <1>7, <1>8, QuietKeepsPlan DEF r

(* Whatever an admin asks for is a lesson like the one that was dropped.   *)
LEMMA PlacementType ==
    ASSUME NEW c \in ConflictIds, NEW want \in {Wanted(c)} \cup Placements(c)
    PROVE  want \in Lesson
<1>1. Wanted(c) \in Lesson
    BY DataAssumption
<1>2. CASE want = Wanted(c)
    BY <1>1, <1>2
<1> DEFINE Moves == {[Wanted(c) EXCEPT !.slot = to[1], !.week = to[2]] : to \in Slots \X Weeks}
           Teach == {[Wanted(c) EXCEPT !.teacher = t] : t \in Teachers}
           Room == {[Wanted(c) EXCEPT !.room = r] : r \in Rooms}
<1>3. CASE want \in Moves
  <2>1. PICK to \in Slots \X Weeks : want = [Wanted(c) EXCEPT !.slot = to[1], !.week = to[2]]
      BY <1>3
  <2>2. QED
      BY <1>1, <2>1 DEF Lesson
<1>4. CASE want \in Teach
    BY <1>1, <1>4 DEF Lesson
<1>5. CASE want \in Room
    BY <1>1, <1>5 DEF Lesson
<1>6. Placements(c) = Moves \cup (IF KindOf(c) = "teacher" THEN Teach ELSE Room)
    BY DEF Placements
<1> HIDE DEF Moves, Teach, Room
<1>7. Placements(c) \subseteq Moves \cup Teach \cup Room
    BY <1>6
<1>8. QED
    BY <1>2, <1>3, <1>4, <1>5, <1>7

(* resolveConflict is called for a conflict that is open.                  *)
LEMMA LoadConflictKeepsPlan ==
    ASSUME PlanInv, NEW a \in Admins, NEW c \in open, LoadConflict(a, c)
    PROVE  PlanInv'
<1>1. PICK at \in {"write", "teacher"}, places \in BOOLEAN, want \in {Wanted(c)} \cup Placements(c) :
          op' = [op EXCEPT ![a] = Request(c, at, places, want)]
    BY DEF LoadConflict
<1> DEFINE r == Request(c, at, places, want)
<1>2. c \in ConflictIds /\ want \in Lesson /\ Written \in Nat
    BY PlacementType DEF PlanInv, TypeOK, Written
<1>3. r \in Resolution /\ r.do = "resolve" /\ r.at = at
    BY <1>2 DEF Request, Resolution, Checks
<1>4. op'[a] = r
    BY <1>1 DEF PlanInv, TypeOK
<1>5. ~Inserting(a)' /\ InRange(r) /\ r \in Requests
    BY <1>3, <1>4 DEF Inserting, InRange, Requests
<1>6. UNCHANGED <<plan, open, runStatus, isActive, edits, aux>>
    BY DEF LoadConflict
<1> HIDE DEF r
<1>7. QED
    BY <1>1, <1>3, <1>5, <1>6, QuietKeepsPlan DEF r

(* A check refuses the request or lets it go on to the next.               *)
LEMMA CheckPlacementKeepsPlan ==
    ASSUME PlanInv, NEW a \in Admins, CheckPlacement(a)
    PROVE  PlanInv'
<1>1. /\ UNCHANGED <<plan, open, runStatus, isActive, edits, aux>>
      /\ op[a].do \in {"move", "resolve"} /\ op[a].at \in Checks
    BY DEF CheckPlacement
<1>2. CASE Done(a)
    BY <1>1, <1>2, DoneQuietly
<1>3. CASE Step(a, AfterCheck(a))
  <2> DEFINE r == [op[a] EXCEPT !.at = AfterCheck(a)]
  <2>1. op' = [op EXCEPT ![a] = r] /\ op'[a] = r
      BY <1>3 DEF Step, PlanInv, TypeOK
  <2>2. op[a] \in Move \/ op[a] \in Resolution
      BY <1>1, RequestKinds DEF PlanInv
  <2>3. /\ AfterCheck(a) \in Checks \cup {"read", "write"}
        /\ op[a].do = "resolve" => AfterCheck(a) \in Checks \cup {"write"}
      BY <1>1 DEF AfterCheck, Checks
  <2>4. r \in Requests /\ r.do = op[a].do /\ r.lesson = op[a].lesson /\ r.at \notin {"count", "commit"}
      BY <1>1, <2>2, <2>3 DEF Requests, Move, Resolution, Checks
  <2>5. ~Inserting(a)' /\ InRange(r)
      BY <1>1, <2>1, <2>4 DEF Inserting, InRange, PlanInv
  <2> HIDE DEF r
  <2>6. QED
      BY <1>1, <2>1, <2>4, <2>5, QuietKeepsPlan
<1>4. QED
    BY <1>2, <1>3 DEF CheckPlacement

(* The second read of the lesson that moves.                               *)
LEMMA ReadLessonKeepsPlan ==
    ASSUME PlanInv, NEW a \in Admins, ReadLesson(a)
    PROVE  PlanInv'
<1> DEFINE r == [op[a] EXCEPT !.at = "write", !.from = plan[op[a].lesson]]
<1>1. /\ UNCHANGED <<plan, open, runStatus, isActive, edits, aux>>
      /\ op[a].do = "move" /\ op' = [op EXCEPT ![a] = r] /\ op'[a] = r
    BY DEF ReadLesson, PlanInv, TypeOK
<1>2. op[a] \in Move /\ op[a].lesson \in DOMAIN plan
    BY <1>1, RequestKinds DEF PlanInv, InRange
<1>3. plan[op[a].lesson] \in Lesson
    BY <1>2 DEF PlanInv, TypeOK
<1>4. r \in Move /\ r.do = "move" /\ r.lesson = op[a].lesson
    BY <1>2, <1>3 DEF Move
<1>5. ~Inserting(a)' /\ InRange(r) /\ r \in Requests
    BY <1>1, <1>2, <1>4 DEF Inserting, InRange, Requests
<1> HIDE DEF r
<1>6. QED
    BY <1>1, <1>4, <1>5, QuietKeepsPlan

(* The count of the conflicts that are left.                               *)
LEMMA CountKeepsPlan ==
    ASSUME PlanInv, NEW a \in Admins, CountRemaining(a)
    PROVE  PlanInv'
<1> DEFINE r == [op[a] EXCEPT !.at = "commit", !.last = (open \ {op[a].conflict} = {})]
<1>1. /\ UNCHANGED <<plan, open, runStatus, isActive, edits, aux>>
      /\ op[a].do = "resolve" /\ op[a].at = "count" /\ op' = [op EXCEPT ![a] = r] /\ op'[a] = r
    BY DEF CountRemaining, PlanInv, TypeOK
<1>2. op[a] \in Resolution
    BY <1>1, RequestKinds DEF PlanInv
<1>3. r \in Resolution /\ r.do = "resolve" /\ r.want = op[a].want /\ r.places = op[a].places
    BY <1>2 DEF Resolution, Checks
<1>4. InRange(r) /\ r \in Requests
    BY <1>3 DEF InRange, Requests
<1>5. Inserting(a)' => Inserting(a)
    BY <1>1, <1>3 DEF Inserting
<1>6. Inserting(a)' => /\ \A i \in DOMAIN plan : ~SameKey(r.want, plan[i])
                       /\ \A b \in Admins \ {a} : Inserting(b) => ~SameKey(r.want, op[b].want)
    BY <1>3, <1>5 DEF PlanInv
<1> HIDE DEF r
<1>7. QED
    BY <1>1, <1>3, <1>4, <1>6, QuietKeepsPlan

(* A plan that may grow by a lesson has none with its key.                 *)
LEMMA AppendUnique ==
    ASSUME NEW p \in Seq(Lesson), NEW x \in Lesson, Unique(Append(p, x))
    PROVE  \A i \in DOMAIN p : ~SameKey(x, p[i])
<1>1. \A i \in DOMAIN p : i \in DOMAIN Append(p, x) /\ Append(p, x)[i] = p[i] /\ i # Len(p) + 1
    OBVIOUS
<1>2. Len(p) + 1 \in DOMAIN Append(p, x) /\ Append(p, x)[Len(p) + 1] = x
    OBVIOUS
<1>3. QED
    BY <1>1, <1>2 DEF Unique

(* The insert of a resolution: neither a lesson of the plan nor what       *)
(* another transaction has inserted has its key.                           *)
LEMMA MarkResolvedKeepsPlan ==
    ASSUME PlanInv, NEW a \in Admins, MarkResolved(a)
    PROVE  PlanInv'
<1>1. /\ UNCHANGED <<plan, open, runStatus, isActive, edits, aux>>
      /\ op[a].do = "resolve" /\ op[a].at = "write" /\ op[a] \in Resolution
    BY RequestKinds DEF MarkResolved, PlanInv
<1>2. CASE Done(a)
    BY <1>1, <1>2, DoneQuietly
<1>3. CASE Step(a, "count") /\ (op[a].places => Unblocked(a, Append(plan, op[a].want))
                                                 /\ Unique(Append(plan, op[a].want)))
  <2> DEFINE r == [op[a] EXCEPT !.at = "count"]
             grown == Append(plan, op[a].want)
  <2>1. op' = [op EXCEPT ![a] = r] /\ op'[a] = r
      BY <1>3 DEF Step, PlanInv, TypeOK
  <2>2. r \in Resolution /\ r.do = "resolve" /\ r.want = op[a].want /\ r.places = op[a].places
      BY <1>1 DEF Resolution, Checks
  <2>3. InRange(r) /\ r \in Requests
      BY <2>2 DEF InRange, Requests
  <2>4. plan \in Seq(Lesson) /\ op[a].want \in Lesson
      BY <1>1 DEF PlanInv, TypeOK, Resolution
  <2>5. op[a].places => \A i \in DOMAIN plan : ~SameKey(r.want, plan[i])
      BY <1>3, <2>2, <2>4, AppendUnique
  <2>6. Len(plan) + 1 \in DOMAIN grown /\ grown[Len(plan) + 1] = op[a].want
      BY <2>4
  <2>7. op[a].places => \A b \in Admins \ {a} : Inserting(b) => ~SameKey(op[b].want, op[a].want)
      BY <1>3, <2>6 DEF Unblocked
  <2>8. op[a].places => \A b \in Admins \ {a} : Inserting(b) => ~SameKey(r.want, op[b].want)
      BY <2>2, <2>7 DEF SameKey
  <2>9. Inserting(a)' => op[a].places
      BY <2>1, <2>2 DEF Inserting
  <2> HIDE DEF r
  <2>10. QED
      BY <1>1, <2>1, <2>2, <2>3, <2>5, <2>8, <2>9, QuietKeepsPlan
<1>4. QED
    BY <1>2, <1>3 DEF MarkResolved

(* revertToEdit goes back to an edit that is there.                        *)
LEMMA ReadLaterEditsKeepsPlan ==
    ASSUME PlanInv, NEW a \in Admins, NEW t \in DOMAIN edits, ReadLaterEdits(a, t)
    PROVE  PlanInv'
<1> DEFINE r == [do |-> "revert", at |-> "write", target |-> t, upto |-> Len(edits), seen |-> Written]
<1>1. /\ UNCHANGED <<plan, open, runStatus, isActive, edits, aux>> /\ MayEdit
      /\ op' = [op EXCEPT ![a] = r] /\ op'[a] = r
    BY DEF ReadLaterEdits, PlanInv, TypeOK
<1>2. Len(edits) \in Nat /\ Len(plan) \in Nat /\ DOMAIN edits = 1 .. Len(edits)
    BY DEF PlanInv, TypeOK
<1>3. r \in Revert
    BY <1>2 DEF Revert, Written
<1>4. InRange(r) /\ r \in Requests /\ ~Inserting(a)'
    BY <1>1, <1>2, <1>3 DEF InRange, Requests, Inserting
<1> HIDE DEF r
<1>5. QED
    BY <1>1, <1>4, QuietKeepsPlan

(* A rollback gives a plan with as many lessons.                           *)
LEMMA RollbackType ==
    ASSUME PlanInv, NEW k \in Nat, NEW u \in Nat, u <= Len(edits)
    PROVE  Rollback(k, u) \in Seq(Lesson) /\ DOMAIN Rollback(k, u) = DOMAIN plan
<1>1. plan \in Seq(Lesson) /\ edits \in Seq(Edit)
    BY DEF PlanInv, TypeOK
<1>2. \A l \in DOMAIN plan : Placed(plan[l], edits, l, k, u) \in Lesson
    BY <1>1, PlacedType
<1>3. QED
    BY <1>1, <1>2, RollbackIs

(* A move or a revert that is committed: the plan p, with the edit e.      *)
LEMMA WriteKeepsPlan ==
    ASSUME PlanInv, NEW a \in Admins, op[a].do \in {"move", "revert"}, Done(a),
           NEW p \in Seq(Lesson), Unique(p), Unblocked(a, p), DOMAIN p = DOMAIN plan, plan' = p,
           NEW e \in Edit, edits' = Append(edits, e), aux_after' = Append(aux_after, p),
           e.do = "move" => e.lesson \in DOMAIN plan,
           e.do = "revert" => e.target \in 1 .. Len(edits),
           Stale(a), UNCHANGED <<open, runStatus, isActive>>
    PROVE  PlanInv'
<1>1. /\ op' = [op EXCEPT ![a] = Idle] /\ Idle \in Requests /\ op'[a] = Idle
      /\ \A b \in Admins \ {a} : op'[b] = op[b]
    BY DEF Done, Requests, PlanInv, TypeOK
<1>2. ~Inserting(a)' /\ InRange(Idle)'
    BY <1>1, IdleIsNone DEF Inserting, InRange
<1>3. edits \in Seq(Edit) /\ aux_after \in Seq(Seq(Lesson)) /\ Len(aux_after) = Len(edits)
    BY DEF PlanInv, TypeOK
<1>4. /\ edits' \in Seq(Edit) /\ aux_after' \in Seq(Seq(Lesson)) /\ Len(aux_after') = Len(edits')
      /\ Len(edits') = Len(edits) + 1 /\ Len(edits) \in Nat
      /\ \A d \in DOMAIN edits : edits'[d] = edits[d]
      /\ edits'[Len(edits) + 1] = e /\ DOMAIN edits' = DOMAIN edits \cup {Len(edits) + 1}
    BY <1>3
<1>5. \A d \in DOMAIN edits' : EditInRange(d)'
  <2> SUFFICES ASSUME NEW d \in DOMAIN edits' PROVE EditInRange(d)'
      OBVIOUS
  <2>1. CASE d \in DOMAIN edits
      BY <1>4, <2>1 DEF EditInRange, PlanInv
  <2>2. CASE d = Len(edits) + 1
      BY <1>4, <2>2 DEF EditInRange
  <2>3. QED
      BY <1>4, <2>1, <2>2
<1>6. \A b \in Admins : Inserting(b)' => \A i \in DOMAIN plan' : ~SameKey(op'[b].want, plan'[i])
  <2> SUFFICES ASSUME NEW b \in Admins, Inserting(b)'
               PROVE  \A i \in DOMAIN plan' : ~SameKey(op'[b].want, plan'[i])
      OBVIOUS
  <2>1. b # a /\ op'[b] = op[b]
      BY <1>1, <1>2
  <2>2. Inserting(b)
      BY <2>1 DEF Inserting
  <2>3. QED
      BY <2>1, <2>2 DEF Unblocked
<1>7. /\ open' \subseteq ConflictIds /\ isActive' = isActive
      /\ runStatus' \in {"COMPLETED", "COMPLETED_WITH_CONFLICTS"} /\ aux_stale' \in BOOLEAN
    BY DEF PlanInv, TypeOK, Stale
<1>8. QED
    BY <1>1, <1>2, <1>4, <1>5, <1>6, <1>7, StepKeepsPlan

(* The plan a move leaves behind.                                          *)
Moved(a) ==
    [plan EXCEPT ![op[a].lesson].slot = op[a].want.slot,
                 ![op[a].lesson].room = IF op[a].keepRoom THEN op[a].from.room ELSE op[a].want.room]

(* The history record of a move.                                           *)
MoveEdit(a) == [do |-> "move", lesson |-> op[a].lesson, from |-> op[a].from]

(* A move changes slot and room of its lesson and nothing else.            *)
LEMMA MovedIs ==
    ASSUME PlanInv, NEW a \in Admins, op[a].do = "move"
    PROVE  /\ op[a] \in Move /\ op[a].lesson \in DOMAIN plan
           /\ Moved(a) \in Seq(Lesson) /\ DOMAIN Moved(a) = DOMAIN plan
           /\ \A i \in DOMAIN plan \ {op[a].lesson} : Moved(a)[i] = plan[i]
           /\ Moved(a)[op[a].lesson] =
                [plan[op[a].lesson] EXCEPT !.slot = op[a].want.slot,
                    !.room = IF op[a].keepRoom THEN op[a].from.room ELSE op[a].want.room]
<1> DEFINE l == op[a].lesson
           room == IF op[a].keepRoom THEN op[a].from.room ELSE op[a].want.room
           x == [plan[l] EXCEPT !.slot = op[a].want.slot, !.room = room]
<1>1. op[a] \in Move /\ l \in DOMAIN plan /\ plan \in Seq(Lesson)
    BY RequestKinds DEF PlanInv, InRange, TypeOK
<1>2. plan[l] \in Lesson /\ op[a].want \in Lesson /\ op[a].from \in Lesson
    BY <1>1 DEF Move
<1>3. x \in Lesson
    BY <1>2 DEF Lesson
<1>4. Moved(a) = [plan EXCEPT ![l] = x]
    BY <1>1, <1>2 DEF Moved, Lesson
<1> HIDE DEF x, l
<1>5. QED
    BY <1>1, <1>3, <1>4 DEF x, l

(* What SaveMove does, in these terms: it stores the move and its record,  *)
(* or nothing.                                                             *)
LEMMA SaveMoveIs ==
    ASSUME NEW a \in Admins, SaveMove(a)
    PROVE  /\ op[a].do = "move" /\ op[a].at = "write" /\ Unblocked(a, Moved(a))
           /\ \/ /\ Unique(Moved(a)) /\ plan' = Moved(a) /\ edits' = Append(edits, MoveEdit(a))
                 /\ aux_after' = Append(aux_after, Moved(a)) /\ Stale(a)
              \/ UNCHANGED <<plan, edits, aux>>
           /\ Done(a) /\ UNCHANGED <<open, runStatus, isActive>>
BY DEF SaveMove, Moved, MoveEdit

(* A move that is stored met no unique constraint.                         *)
LEMMA SaveMoveKeepsPlan ==
    ASSUME PlanInv, NEW a \in Admins, SaveMove(a)
    PROVE  PlanInv'
<1>1. CASE UNCHANGED <<plan, edits, aux>>
    BY <1>1, SaveMoveIs, DoneQuietly
<1>2. CASE /\ Unique(Moved(a)) /\ plan' = Moved(a) /\ edits' = Append(edits, MoveEdit(a))
           /\ aux_after' = Append(aux_after, Moved(a)) /\ Stale(a)
  <2>1. op[a] \in Move /\ op[a].lesson \in DOMAIN plan
      BY SaveMoveIs, MovedIs
  <2>2. MoveEdit(a) \in Edit
      BY <2>1 DEF MoveEdit, Edit, Move
  <2>3. MoveEdit(a).do = "move" /\ MoveEdit(a).lesson = op[a].lesson
      BY DEF MoveEdit
  <2>4. Moved(a) \in Seq(Lesson) /\ DOMAIN Moved(a) = DOMAIN plan
      BY SaveMoveIs, MovedIs
  <2>5. QED
      BY <1>2, <2>1, <2>2, <2>3, <2>4, SaveMoveIs, WriteKeepsPlan
<1>3. QED
    BY <1>1, <1>2, SaveMoveIs

(* The history record of a revert.                                         *)
RevertEdit(a) == [do |-> "revert", target |-> op[a].target]

(* The plan a revert leaves behind.                                        *)
Reverted(a) == Rollback(op[a].target, op[a].upto)

(* A revert goes back over edits that are there.                           *)
LEMMA RevertIs ==
    ASSUME PlanInv, NEW a \in Admins, op[a].do = "revert"
    PROVE  /\ op[a] \in Revert /\ op[a].target \in 1 .. op[a].upto
           /\ op[a].target \in Nat \ {0} /\ op[a].upto \in Nat /\ op[a].target <= op[a].upto
           /\ op[a].upto <= Len(edits)
           /\ Reverted(a) \in Seq(Lesson) /\ DOMAIN Reverted(a) = DOMAIN plan
<1>1. op[a] \in Revert /\ op[a].target \in 1 .. op[a].upto /\ op[a].upto <= Len(edits)
    BY RequestKinds DEF PlanInv, InRange
<1>2. op[a].target \in Nat \ {0} /\ op[a].upto \in Nat /\ op[a].target <= op[a].upto
    BY <1>1 DEF Revert
<1>3. QED
    BY <1>1, <1>2, RollbackType DEF Reverted

(* What SaveRevert does, in these terms: it stores the plan of before, or  *)
(* nothing.                                                                *)
LEMMA SaveRevertIs ==
    ASSUME PlanInv, NEW a \in Admins, SaveRevert(a)
    PROVE  /\ op[a].do = "revert" /\ Unblocked(a, Reverted(a))
           /\ \/ /\ Unique(Reverted(a)) /\ plan' = Reverted(a)
                 /\ edits' = Append(edits, RevertEdit(a))
                 /\ aux_after' = Append(aux_after, Reverted(a)) /\ Stale(a)
              \/ UNCHANGED <<plan, edits, aux>>
           /\ Done(a) /\ UNCHANGED <<open, runStatus, isActive>>
<1>1. op[a].do = "revert" /\ Done(a) /\ UNCHANGED <<open, runStatus, isActive>>
    BY DEF SaveRevert
<1>2. op[a].target \in op[a].target .. op[a].upto
    BY <1>1, RevertIs
<1>3. QED
    BY <1>1, <1>2 DEF SaveRevert, Reverted, RevertEdit

(* A revert that is stored met no unique constraint.                       *)
LEMMA SaveRevertKeepsPlan ==
    ASSUME PlanInv, NEW a \in Admins, SaveRevert(a)
    PROVE  PlanInv'
<1>1. CASE UNCHANGED <<plan, edits, aux>>
    BY <1>1, SaveRevertIs, DoneQuietly
<1>2. CASE /\ Unique(Reverted(a)) /\ plan' = Reverted(a) /\ edits' = Append(edits, RevertEdit(a))
           /\ aux_after' = Append(aux_after, Reverted(a)) /\ Stale(a)
  <2>1. op[a].target \in 1 .. Len(edits) /\ op[a].target \in Nat
    <3>1. Len(edits) \in Nat
        BY DEF PlanInv, TypeOK
    <3>2. QED
        BY <3>1, SaveRevertIs, RevertIs
  <2>2. RevertEdit(a) \in Edit
      BY <2>1 DEF RevertEdit, Edit
  <2>3. RevertEdit(a).do = "revert" /\ RevertEdit(a).target = op[a].target
      BY DEF RevertEdit
  <2>4. Reverted(a) \in Seq(Lesson) /\ DOMAIN Reverted(a) = DOMAIN plan
      BY SaveRevertIs, RevertIs
  <2>5. QED
      BY <1>2, <2>1, <2>2, <2>3, <2>4, SaveRevertIs, WriteKeepsPlan
<1>3. QED
    BY <1>1, <1>2, SaveRevertIs

(* A resolution's insert becomes visible: its key was kept free for it.    *)
LEMMA CommitKeepsPlan ==
    ASSUME PlanInv, NEW a \in Admins, CommitResolution(a)
    PROVE  PlanInv'
<1>1. /\ op[a].do = "resolve" /\ op[a].at = "commit" /\ op[a] \in Resolution
      /\ open' = open \ {op[a].conflict}
      /\ runStatus' = (IF op[a].last THEN "COMPLETED" ELSE runStatus)
      /\ Done(a) /\ isActive' = isActive /\ edits' = edits /\ aux_after' = aux_after
    BY RequestKinds DEF CommitResolution, PlanInv
<1>2. /\ op' = [op EXCEPT ![a] = Idle] /\ Idle \in Requests /\ op'[a] = Idle
      /\ \A b \in Admins \ {a} : op'[b] = op[b]
    BY <1>1 DEF Done, Requests, PlanInv, TypeOK
<1>3. ~Inserting(a)' /\ InRange(Idle)'
    BY <1>2, IdleIsNone DEF Inserting, InRange
<1>4. plan \in Seq(Lesson) /\ Len(plan) \in Nat /\ Unique(plan) /\ op[a].want \in Lesson
    BY <1>1 DEF PlanInv, TypeOK, Resolution
<1>5. /\ plan' \in Seq(Lesson) /\ Unique(plan') /\ DOMAIN plan \subseteq DOMAIN plan'
      /\ aux_stale' \in BOOLEAN
      /\ \A i \in DOMAIN plan' : \/ i \in DOMAIN plan /\ plan'[i] = plan[i]
                                 \/ i = Len(plan) + 1 /\ Inserting(a) /\ plan'[i] = op[a].want
  <2>1. CASE op[a].places
    <3>1. Inserting(a) /\ plan' = Append(plan, op[a].want) /\ aux_stale' \in BOOLEAN
        BY <1>1, <2>1 DEF Inserting, CommitResolution, Stale
    <3>2. \A i \in DOMAIN plan' : \/ i \in DOMAIN plan /\ plan'[i] = plan[i]
                                  \/ i = Len(plan) + 1 /\ plan'[i] = op[a].want
        BY <1>4, <3>1
    <3>3. \A i \in DOMAIN plan : ~SameKey(op[a].want, plan[i]) /\ ~SameKey(plan[i], op[a].want)
        BY <3>1 DEF PlanInv, SameKey
    <3>4. Unique(plan')
        BY <1>4, <3>2, <3>3 DEF Unique
    <3>5. QED
        BY <1>4, <3>1, <3>2, <3>4
  <2>2. CASE ~op[a].places
      BY <1>4, <2>2 DEF CommitResolution, PlanInv, TypeOK
  <2>3. QED
      BY <2>1, <2>2
<1>6. \A b \in Admins : Inserting(b)' => \A i \in DOMAIN plan' : ~SameKey(op'[b].want, plan'[i])
  <2> SUFFICES ASSUME NEW b \in Admins, Inserting(b)', NEW i \in DOMAIN plan'
               PROVE  ~SameKey(op'[b].want, plan'[i])
      OBVIOUS
  <2>1. b # a /\ op'[b] = op[b] /\ Inserting(b)
      BY <1>2, <1>3 DEF Inserting
  <2>2. CASE i \in DOMAIN plan /\ plan'[i] = plan[i]
      BY <2>1, <2>2 DEF PlanInv
  <2>3. CASE i = Len(plan) + 1 /\ Inserting(a) /\ plan'[i] = op[a].want
      BY <2>1, <2>3 DEF PlanInv
  <2>4. QED
      BY <1>5, <2>2, <2>3
<1>7. \A e \in DOMAIN edits' : EditInRange(e)'
    BY <1>1, <1>5 DEF EditInRange, PlanInv
<1>8. /\ open' \subseteq ConflictIds /\ runStatus' \in {"COMPLETED", "COMPLETED_WITH_CONFLICTS"}
      /\ edits' \in Seq(Edit) /\ aux_after' \in Seq(Seq(Lesson)) /\ Len(aux_after') = Len(edits')
    BY <1>1 DEF PlanInv, TypeOK
<1>9. Idle.do \notin {"move", "revert"}
    BY IdleIsNone
<1>10. QED
    BY <1>1, <1>2, <1>3, <1>5, <1>6, <1>7, <1>8, <1>9, StepKeepsPlan

(* Whether the run is active is of no importance to its plan.              *)
LEMMA ActivateKeepsPlan ==
    ASSUME PlanInv, ActivateRun \/ UNCHANGED vars
    PROVE  PlanInv'
<1>1. /\ plan' = plan /\ open' = open /\ runStatus' = runStatus /\ isActive' \in BOOLEAN
      /\ edits' = edits /\ op' = op /\ aux_after' = aux_after /\ aux_stale' = aux_stale
    BY DEF ActivateRun, vars, aux, PlanInv, TypeOK
<1>2. TypeOK'
    BY <1>1 DEF PlanInv, TypeOK
<1>3. QED
    BY <1>1, <1>2 DEF PlanInv, InRange, Inserting, Editing

(* Every step keeps the invariant.                                         *)
LEMMA PlanStep == PlanInv /\ [Next]_vars => PlanInv'
<1> SUFFICES ASSUME PlanInv, [Next]_vars PROVE PlanInv'
    OBVIOUS
<1>1. CASE ActivateRun \/ UNCHANGED vars
    BY <1>1, ActivateKeepsPlan
<1>2. ASSUME NEW a \in Admins,
             \/ \E l \in DOMAIN plan, slot \in Slots, room \in Rooms : ValidateMove(a, l, slot, room)
             \/ \E c \in open : LoadConflict(a, c)
             \/ CheckPlacement(a)
             \/ ReadLesson(a) \/ SaveMove(a)
             \/ MarkResolved(a) \/ CountRemaining(a) \/ CommitResolution(a)
             \/ \E t \in DOMAIN edits : ReadLaterEdits(a, t)
             \/ SaveRevert(a)
      PROVE  PlanInv'
    BY <1>2, ValidateMoveKeepsPlan, LoadConflictKeepsPlan, CheckPlacementKeepsPlan,
       ReadLessonKeepsPlan, SaveMoveKeepsPlan, MarkResolvedKeepsPlan, CountKeepsPlan,
       CommitKeepsPlan, ReadLaterEditsKeepsPlan, SaveRevertKeepsPlan
<1>3. QED
    BY <1>1, <1>2 DEF Next

(* In every reachable state variables are typed, the plan obeys the unique *)
(* constraints of timetable_lessons, and the history holds one plan per    *)
(* edit.                                                                   *)
THEOREM PlanIsTyped == Spec => []TypeOK
<1>1. PlanInv => TypeOK
    BY DEF PlanInv
<1>2. QED
    BY <1>1, PlanInit, PlanStep, PTL DEF Spec

-----------------------------------------------------------------------------
(* The history, and clashes.                                               *)

(* The checks a request has behind it.                                     *)
Passed(r) == CASE r.at = "teacher" -> {} [] r.at = "room" -> {"teacher"}
               [] r.at = "class" -> {"teacher", "room"} [] OTHER -> Checks

(* The requests that place a lesson.                                       *)
Places(r) == r.do = "move" \/ (r.do = "resolve" /\ r.places)

(* The same lesson, but for the slot and the room.                         *)
SameLesson(x, y) == x.teacher = y.teacher /\ x.class = y.class /\ x.week = y.week

(* What a request has found out is true of the plan and of its history.    *)
Decided(r) ==
    /\ Places(r) => \A kind \in Passed(r), i \in DOMAIN plan \ {r.lesson} :
                        ~InTheWay(kind, r.want, plan[i])
    /\ r.do = "move" => /\ SameLesson(r.want, plan[r.lesson])
                        /\ r.keepRoom => r.want.room = plan[r.lesson].room
                        /\ r.at = "write" => r.from = plan[r.lesson]
    /\ r.do = "revert" => r.upto = Len(edits)

(* It is, as long as nothing was written since.                            *)
Fresh(r) == r.do # "none" => r.seen <= Written /\ (r.seen = Written => Decided(r))

(* Edits t + 1 to n are moves.                                             *)
NoRevert(t, n) == \A k \in t + 1 .. n : edits[k].do # "revert"

(* Undoing the moves after edit t gives the plan it left behind.           *)
HistoryHolds ==
    \A t \in DOMAIN edits :
        /\ DOMAIN aux_after[t] \subseteq DOMAIN plan
        /\ NoRevert(t, Len(edits)) =>
             \A l \in DOMAIN aux_after[t] :
                 Placed(plan[l], edits, l, t, Len(edits)) = aux_after[t][l]

(* Every revert went back over moves only, and took no lesson back.        *)
GoodReverts == \A i \in Reverts : ~UndoesRevert(i) /\ ~GrownSince(i)

(* Then neither the plan nor one that an edit left behind has a clash.     *)
NeverAClash ==
    NoClash(Given) /\ GoodReverts =>
        NoClash(plan) /\ \A e \in DOMAIN edits : NoClash(aux_after[e])

(* As long as no write was decided upon an old plan: the history can be    *)
(* undone, the plan is free of clashes, and reverts over moves restored    *)
(* what they went back to.                                                 *)
HistInv ==
    /\ \A a \in Admins : Fresh(op[a])
    /\ ~aux_stale => HistoryHolds /\ NeverAClash /\ \A i \in Reverts : UndoesRevert(i) \/ Restores(i)

(* At first there is no history.                                           *)
LEMMA HistInit == Init => HistInv
<1> SUFFICES ASSUME Init PROVE HistInv
    OBVIOUS
<1>1. \A a \in Admins : op[a] = Idle
    BY DEF Init
<1>2. \A a \in Admins : Fresh(op[a])
    BY <1>1, IdleIsNone DEF Fresh
<1>3. DOMAIN edits = {} /\ Reverts = {} /\ plan = Given
    BY DEF Init, Reverts
<1>4. HistoryHolds /\ NeverAClash
    BY <1>3 DEF HistoryHolds, NeverAClash
<1>5. QED
    BY <1>2, <1>3, <1>4 DEF HistInv

(* Facts about the plan and its history stay true while nothing is written.*)
LEMMA SameHistory ==
    ASSUME plan' = plan, edits' = edits, aux_after' = aux_after
    PROVE  /\ HistoryHolds' <=> HistoryHolds
           /\ NeverAClash' <=> NeverAClash
           /\ (\A i \in Reverts : UndoesRevert(i) \/ Restores(i))'
                <=> (\A i \in Reverts : UndoesRevert(i) \/ Restores(i))
           /\ \A r : Fresh(r)' <=> Fresh(r)
<1>1. HistoryHolds' <=> HistoryHolds
    BY DEF HistoryHolds, NoRevert
<1>2. NeverAClash' <=> NeverAClash
    BY DEF NeverAClash, GoodReverts, Reverts, UndoesRevert, GrownSince
<1>3. (\A i \in Reverts : UndoesRevert(i) \/ Restores(i))'
          <=> (\A i \in Reverts : UndoesRevert(i) \/ Restores(i))
    BY DEF Reverts, UndoesRevert, Restores
<1>4. \A r : Fresh(r)' <=> Fresh(r)
    BY DEF Fresh, Decided, Written
<1>5. QED
    BY <1>1, <1>2, <1>3, <1>4

(* A step that writes nothing, of a request that has found out what is so. *)
LEMMA QuietKeepsHistory ==
    ASSUME PlanInv, HistInv, NEW a \in Admins, NEW r, op' = [op EXCEPT ![a] = r], Fresh(r),
           UNCHANGED <<plan, edits, aux>>
    PROVE  HistInv'
<1>1. op'[a] = r /\ \A b \in Admins \ {a} : op'[b] = op[b]
    BY DEF PlanInv, TypeOK
<1>2. plan' = plan /\ edits' = edits /\ aux_after' = aux_after /\ aux_stale' = aux_stale
    BY DEF aux
<1>3. \A b \in Admins : Fresh(op[b])'
  <2> SUFFICES ASSUME NEW b \in Admins PROVE Fresh(op[b])'
      OBVIOUS
  <2>1. Fresh(op'[b])
      BY <1>1 DEF HistInv
  <2>2. QED
      BY <1>2, <2>1 DEF Fresh, Decided, Written
<1>4. QED
    BY <1>2, <1>3, SameHistory DEF HistInv

(* A request that ends without a write.                                    *)
LEMMA DoneKeepsHistory ==
    ASSUME PlanInv, HistInv, NEW a \in Admins, Done(a), UNCHANGED <<plan, edits, aux>>
    PROVE  HistInv'
<1>1. Fresh(Idle)
    BY IdleIsNone DEF Fresh
<1>2. QED
    BY <1>1, QuietKeepsHistory DEF Done

(* How much has been written is a number.                                  *)
LEMMA WrittenIsNat == ASSUME TypeOK PROVE Written \in Nat
BY DEF TypeOK, Written

(* A move starts with nothing checked, from where its lesson is.           *)
LEMMA ValidateMoveKeepsHistory ==
    ASSUME PlanInv, HistInv, NEW a \in Admins, NEW l \in DOMAIN plan, NEW slot \in Slots,
           NEW room \in Rooms, ValidateMove(a, l, slot, room)
    PROVE  HistInv'
<1>1. PICK keep \in BOOLEAN :
          /\ keep => room = plan[l].room
          /\ op' = [op EXCEPT ![a] =
                [do |-> "move", at |-> "teacher", lesson |-> l, keepRoom |-> keep,
                 want |-> [plan[l] EXCEPT !.slot = slot, !.room = room],
                 from |-> plan[l], seen |-> Written]]
    BY DEF ValidateMove
<1> DEFINE r == [do |-> "move", at |-> "teacher", lesson |-> l, keepRoom |-> keep,
                 want |-> [plan[l] EXCEPT !.slot = slot, !.room = room],
                 from |-> plan[l], seen |-> Written]
<1>2. plan[l] \in Lesson
    BY DEF PlanInv, TypeOK
<1>3. SameLesson(r.want, plan[l]) /\ r.want.room = room
    BY <1>2 DEF SameLesson, Lesson
<1>4. /\ r.do = "move" /\ r.at = "teacher" /\ r.lesson = l /\ r.keepRoom = keep
      /\ r.seen = Written /\ Passed(r) = {}
    BY DEF Passed
<1> HIDE DEF r
<1>5. Decided(r)
    BY <1>1, <1>3, <1>4 DEF Decided
<1>6. Fresh(r)
    BY <1>4, <1>5, WrittenIsNat DEF Fresh, PlanInv
<1>7. UNCHANGED <<plan, edits, aux>>
    BY DEF ValidateMove
<1>8. QED
    BY <1>1, <1>6, <1>7, QuietKeepsHistory DEF r

(* A resolution starts with nothing checked.                               *)
LEMMA LoadConflictKeepsHistory ==
    ASSUME PlanInv, HistInv, NEW a \in Admins, NEW c \in open, LoadConflict(a, c)
    PROVE  HistInv'
<1>1. PICK at \in {"write", "teacher"}, places \in BOOLEAN :
          /\ \E want : op' = [op EXCEPT ![a] = Request(c, at, places, want)]
          /\ at = "teacher" \/ ~places
    BY DEF LoadConflict
<1> PICK want : op' = [op EXCEPT ![a] = Request(c, at, places, want)]
    BY <1>1
<1> DEFINE r == Request(c, at, places, want)
<1>2. /\ r.do = "resolve" /\ r.at = at /\ r.places = places /\ r.seen = Written
      /\ at = "teacher" => Passed(r) = {}
    BY DEF Passed, Request
<1> HIDE DEF r
<1>3. Decided(r)
    BY <1>1, <1>2 DEF Decided, Places
<1>4. Fresh(r)
    BY <1>2, <1>3, WrittenIsNat DEF Fresh, PlanInv
<1>5. UNCHANGED <<plan, edits, aux>>
    BY DEF LoadConflict
<1>6. QED
    BY <1>1, <1>4, <1>5, QuietKeepsHistory DEF r

(* A check that is passed has found no lesson in the way.                  *)
LEMMA CheckPlacementKeepsHistory ==
    ASSUME PlanInv, HistInv, NEW a \in Admins, CheckPlacement(a)
    PROVE  HistInv'
<1>1. /\ UNCHANGED <<plan, edits, aux>>
      /\ op[a].do \in {"move", "resolve"} /\ op[a].at \in Checks
    BY DEF CheckPlacement
<1>2. CASE Done(a)
    BY <1>1, <1>2, DoneKeepsHistory
<1>3. CASE /\ Step(a, AfterCheck(a))
           /\ \A i \in Others(a) : ~InTheWay(op[a].at, op[a].want, plan[i])
  <2> DEFINE q == op[a]
             r == [q EXCEPT !.at = AfterCheck(a)]
  <2>1. op' = [op EXCEPT ![a] = r]
      BY <1>3 DEF Step, PlanInv, TypeOK
  <2>2. q \in Move \/ q \in Resolution
      BY <1>1, RequestKinds DEF PlanInv
  <2>3. /\ r.do = q.do /\ r.lesson = q.lesson /\ r.want = q.want /\ r.seen = q.seen
        /\ r.at = AfterCheck(a)
        /\ q.do = "move" => r.keepRoom = q.keepRoom /\ r.from = q.from
        /\ q.do = "resolve" => r.places = q.places
      BY <1>1, <2>2 DEF Move, Resolution
  <2>4. /\ Passed(r) \subseteq Passed(q) \cup {q.at}
        /\ q.do = "move" => r.at # "write"
      BY <1>1, <2>3 DEF Passed, AfterCheck, Checks
  <2>5. Fresh(q)
      BY DEF HistInv
  <2> HIDE DEF r
  <2>6. Decided(q) => Decided(r)
    <3>1. Places(r) <=> Places(q)
        BY <1>1, <2>3 DEF Places
    <3>2. r.do # "revert"
        BY <1>1, <2>3
    <3>3. ASSUME Decided(q), Places(q), NEW kind \in Passed(r), NEW i \in DOMAIN plan \ {q.lesson}
          PROVE  ~InTheWay(kind, q.want, plan[i])
        BY <1>3, <2>4, <3>3 DEF Decided, Others
    <3>4. QED
        BY <2>3, <2>4, <3>1, <3>2, <3>3 DEF Decided
  <2>7. Fresh(r)
      BY <1>1, <2>3, <2>5, <2>6 DEF Fresh
  <2>8. QED
      BY <1>1, <2>1, <2>7, QuietKeepsHistory
<1>4. QED
    BY <1>2, <1>3 DEF CheckPlacement

(* The second read of a lesson finds where it is.                          *)
LEMMA ReadLessonKeepsHistory ==
    ASSUME PlanInv, HistInv, NEW a \in Admins, ReadLesson(a)
    PROVE  HistInv'
<1> DEFINE q == op[a]
           r == [q EXCEPT !.at = "write", !.from = plan[q.lesson]]
<1>1. /\ UNCHANGED <<plan, edits, aux>>
      /\ q.do = "move" /\ q.at = "read" /\ op' = [op EXCEPT ![a] = r]
    BY DEF ReadLesson, PlanInv, TypeOK
<1>2. q \in Move
    BY <1>1, RequestKinds DEF PlanInv
<1>3. /\ r.do = "move" /\ r.lesson = q.lesson /\ r.want = q.want /\ r.seen = q.seen
      /\ r.keepRoom = q.keepRoom /\ r.at = "write" /\ r.from = plan[q.lesson]
    BY <1>1, <1>2 DEF Move
<1>4. Passed(r) = Passed(q)
    BY <1>1, <1>3 DEF Passed, Checks
<1> HIDE DEF r
<1>5. Decided(q) => Decided(r)
    BY <1>1, <1>3, <1>4 DEF Decided, Places
<1>6. Fresh(r)
    BY <1>1, <1>3, <1>5 DEF Fresh, HistInv
<1>7. QED
    BY <1>1, <1>6, QuietKeepsHistory

(* A resolution that has passed its checks goes on.                        *)
LEMMA ResolutionAdvances ==
    ASSUME PlanInv, HistInv, NEW a \in Admins, op[a].do = "resolve",
           op[a].at \in {"write", "count", "commit"},
           NEW r \in Resolution, r.places = op[a].places, r.want = op[a].want,
           r.seen = op[a].seen, r.at \in {"write", "count", "commit"},
           op' = [op EXCEPT ![a] = r], UNCHANGED <<plan, edits, aux>>
    PROVE  HistInv'
<1>1. Passed(r) = Passed(op[a])
    BY DEF Passed
<1>2. op[a] \in Resolution /\ r.lesson = op[a].lesson /\ r.do = "resolve"
    BY RequestKinds DEF PlanInv, Resolution
<1>3. Decided(op[a]) => Decided(r)
    BY <1>1, <1>2 DEF Decided, Places
<1>4. Fresh(r)
    BY <1>2, <1>3 DEF Fresh, HistInv
<1>5. QED
    BY <1>4, QuietKeepsHistory

(* The insert of a resolution is not yet committed.                        *)
LEMMA MarkResolvedKeepsHistory ==
    ASSUME PlanInv, HistInv, NEW a \in Admins, MarkResolved(a)
    PROVE  HistInv'
<1>1. /\ UNCHANGED <<plan, edits, aux>>
      /\ op[a].do = "resolve" /\ op[a].at = "write" /\ op[a] \in Resolution
    BY RequestKinds DEF MarkResolved, PlanInv
<1>2. CASE Done(a)
    BY <1>1, <1>2, DoneKeepsHistory
<1>3. CASE Step(a, "count")
  <2> DEFINE r == [op[a] EXCEPT !.at = "count"]
  <2>1. op' = [op EXCEPT ![a] = r]
      BY <1>3 DEF Step, PlanInv, TypeOK
  <2>2. /\ r \in Resolution /\ r.want = op[a].want /\ r.places = op[a].places
        /\ r.seen = op[a].seen /\ r.at = "count"
      BY <1>1 DEF Resolution, Checks
  <2> HIDE DEF r
  <2>3. QED
      BY <1>1, <2>1, <2>2, ResolutionAdvances
<1>4. QED
    BY <1>2, <1>3 DEF MarkResolved

(* A count of conflicts reads nothing of the plan.                         *)
LEMMA CountKeepsHistory ==
    ASSUME PlanInv, HistInv, NEW a \in Admins, CountRemaining(a)
    PROVE  HistInv'
<1> DEFINE r == [op[a] EXCEPT !.at = "commit", !.last = (open \ {op[a].conflict} = {})]
<1>1. /\ UNCHANGED <<plan, edits, aux>> /\ op[a] \in Resolution
      /\ op[a].do = "resolve" /\ op[a].at = "count" /\ op' = [op EXCEPT ![a] = r]
    BY RequestKinds DEF CountRemaining, PlanInv, TypeOK
<1>2. /\ r \in Resolution /\ r.want = op[a].want /\ r.places = op[a].places
      /\ r.seen = op[a].seen /\ r.at = "commit"
    BY <1>1 DEF Resolution, Checks
<1> HIDE DEF r
<1>3. QED
    BY <1>1, <1>2, ResolutionAdvances

(* A revert reads the whole history.                                       *)
LEMMA ReadLaterEditsKeepsHistory ==
    ASSUME PlanInv, HistInv, NEW a \in Admins, NEW t \in DOMAIN edits, ReadLaterEdits(a, t)
    PROVE  HistInv'
<1> DEFINE r == [do |-> "revert", at |-> "write", target |-> t, upto |-> Len(edits), seen |-> Written]
<1>1. UNCHANGED <<plan, edits, aux>> /\ op' = [op EXCEPT ![a] = r]
    BY DEF ReadLaterEdits
<1>2. r.do = "revert" /\ r.upto = Len(edits) /\ r.seen = Written
    OBVIOUS
<1> HIDE DEF r
<1>3. Fresh(r)
    BY <1>2, WrittenIsNat DEF Fresh, Decided, Places, PlanInv
<1>4. QED
    BY <1>1, <1>3, QuietKeepsHistory

(* A write makes whatever others found out before it old.                  *)
LEMMA WriteMakesOthersOld ==
    ASSUME PlanInv, HistInv, NEW a \in Admins, Done(a), Written' \in Nat, Written < Written'
    PROVE  \A b \in Admins : Fresh(op[b])'
<1> SUFFICES ASSUME NEW b \in Admins PROVE Fresh(op[b])'
    OBVIOUS
<1>1. Written \in Nat
    BY WrittenIsNat DEF PlanInv
<1>2. CASE b = a
  <2>1. op'[b] = Idle
      BY <1>2 DEF Done, PlanInv, TypeOK
  <2>2. QED
      BY <2>1, IdleIsNone DEF Fresh
<1>3. CASE b # a
  <2>1. op'[b] = op[b] /\ Fresh(op[b]) /\ op[b] \in Requests
      BY <1>3 DEF Done, PlanInv, TypeOK, HistInv, Requests
  <2>2. op[b].do # "none" => op[b].seen \in Nat
      BY <2>1 DEF Requests, Idle, Move, Resolution, Revert
  <2>3. op[b].do # "none" => op[b].seen <= Written' /\ op[b].seen # Written'
      BY <1>1, <2>1, <2>2 DEF Fresh
  <2>4. QED
      BY <2>1, <2>3 DEF Fresh
<1>4. QED
    BY <1>2, <1>3

(* Another edit leaves what the history says of the earlier ones.          *)
LEMMA EarlierEdits ==
    ASSUME PlanInv, NEW e \in Edit, NEW p \in Seq(Lesson),
           edits' = Append(edits, e), aux_after' = Append(aux_after, p)
    PROVE  /\ Len(edits) \in Nat /\ Len(edits') = Len(edits) + 1
           /\ DOMAIN edits = 1 .. Len(edits) /\ DOMAIN edits' = DOMAIN edits \cup {Len(edits) + 1}
           /\ \A i \in DOMAIN edits : edits'[i] = edits[i] /\ aux_after'[i] = aux_after[i]
           /\ edits'[Len(edits) + 1] = e /\ aux_after'[Len(edits) + 1] = p
           /\ Reverts' = Reverts \cup (IF e.do = "revert" THEN {Len(edits) + 1} ELSE {})
           /\ \A i \in Reverts : /\ UndoesRevert(i)' <=> UndoesRevert(i)
                                 /\ Restores(i)' <=> Restores(i)
                                 /\ GrownSince(i)' <=> GrownSince(i)
           /\ GoodReverts' => GoodReverts
<1> DEFINE n == Len(edits)
<1>1. /\ edits \in Seq(Edit) /\ aux_after \in Seq(Seq(Lesson)) /\ Len(aux_after) = n /\ n \in Nat
      /\ DOMAIN edits = 1 .. n
    BY DEF PlanInv, TypeOK
<1>2. /\ Len(edits') = n + 1 /\ DOMAIN edits' = DOMAIN edits \cup {n + 1}
      /\ \A i \in DOMAIN edits : edits'[i] = edits[i] /\ aux_after'[i] = aux_after[i]
      /\ edits'[n + 1] = e /\ aux_after'[n + 1] = p
    BY <1>1
<1>3. Reverts' = Reverts \cup (IF e.do = "revert" THEN {n + 1} ELSE {})
    BY <1>1, <1>2 DEF Reverts
<1>4. ASSUME NEW i \in Reverts
      PROVE  /\ UndoesRevert(i)' <=> UndoesRevert(i)
             /\ Restores(i)' <=> Restores(i)
             /\ GrownSince(i)' <=> GrownSince(i)
  <2>1. i \in DOMAIN edits /\ edits'[i] = edits[i] /\ edits[i].target \in 1 .. i
      BY <1>2 DEF Reverts, PlanInv
  <2>2. edits[i].target \in DOMAIN edits /\ \A k \in edits[i].target + 1 .. i - 1 : k \in DOMAIN edits
      BY <1>1, <2>1
  <2>3. UndoesRevert(i)' <=> UndoesRevert(i)
      BY <1>2, <2>1, <2>2 DEF UndoesRevert
  <2>4. aux_after'[i] = aux_after[i] /\ aux_after'[edits[i].target] = aux_after[edits[i].target]
      BY <1>2, <2>1, <2>2
  <2>5. QED
      BY <2>1, <2>3, <2>4 DEF Restores, GrownSince
<1>5. GoodReverts' => GoodReverts
    BY <1>3, <1>4 DEF GoodReverts
<1>6. QED
    BY <1>1, <1>2, <1>3, <1>4, <1>5

(* Two lessons at one time, none in the other's way for any of the three   *)
(* checks, share nobody and nothing: WeekFilter finds A, B and BOTH        *)
(* lessons of a week.                                                      *)
LEMMA NotInTheWay ==
    ASSUME NEW x, NEW y, \A kind \in Checks : ~InTheWay(kind, x, y),
           NEW w \in {"A", "B"}, HeldIn(x, w), HeldIn(y, w), x.slot = y.slot
    PROVE  x.teacher # y.teacher /\ x.room # y.room /\ x.class # y.class
<1>1. y.week \in WeekFilter(x.week)
    BY DEF HeldIn, WeekFilter
<1>2. QED
    BY <1>1 DEF InTheWay, Checks

(* A plan without clashes stays one when a lesson is placed where none of  *)
(* the three checks finds another.                                         *)
LEMMA PlacedWithoutClash ==
    ASSUME NEW p, NoClash(p), NEW q, NEW m, DOMAIN q = DOMAIN p \cup {m},
           \A i \in DOMAIN p \ {m} : q[i] = p[i],
           \A kind \in Checks, i \in DOMAIN p \ {m} : ~InTheWay(kind, q[m], p[i])
    PROVE  NoClash(q)
<1> SUFFICES ASSUME NEW i \in DOMAIN q, NEW j \in DOMAIN q, NEW w \in {"A", "B"}, i # j,
                    q[i].slot = q[j].slot, HeldIn(q[i], w), HeldIn(q[j], w)
             PROVE  q[i].teacher # q[j].teacher /\ q[i].room # q[j].room /\ q[i].class # q[j].class
    BY DEF NoClash
<1>1. CASE i # m /\ j # m
    BY <1>1 DEF NoClash
<1>2. CASE i = m
  <2>1. j \in DOMAIN p \ {m} /\ q[j] = p[j]
      BY <1>2
  <2>2. \A kind \in Checks : ~InTheWay(kind, q[i], q[j])
      BY <1>2, <2>1
  <2>3. QED
      BY <2>2, NotInTheWay
<1>3. CASE j = m
  <2>1. i \in DOMAIN p \ {m} /\ q[i] = p[i]
      BY <1>3
  <2>2. \A kind \in Checks : ~InTheWay(kind, q[j], q[i])
      BY <1>3, <2>1
  <2>3. q[j].teacher # q[i].teacher /\ q[j].room # q[i].room /\ q[j].class # q[i].class
      BY <2>2, NotInTheWay
  <2>4. QED
      BY <2>3
<1>4. QED
    BY <1>1, <1>2, <1>3

(* The latest edit of the history is undone by undoing nothing.            *)
LEMMA LatestEditHolds ==
    ASSUME PlanInv, NEW e \in Edit, NEW p \in Seq(Lesson), plan' = p,
           edits' = Append(edits, e), aux_after' = Append(aux_after, p), NEW l \in DOMAIN p
    PROVE  Placed(plan'[l], edits', l, Len(edits) + 1, Len(edits')) = aux_after'[Len(edits) + 1][l]
<1>1. /\ Len(edits') = Len(edits) + 1 /\ Len(edits) + 1 \in Nat
      /\ aux_after'[Len(edits) + 1] = p
  <2>1. /\ edits \in Seq(Edit) /\ aux_after \in Seq(Seq(Lesson)) /\ Len(aux_after) = Len(edits)
      BY DEF PlanInv, TypeOK
  <2>2. QED
      BY <2>1
<1>2. Placed(plan'[l], edits', l, Len(edits) + 1, Len(edits) + 1) = plan'[l]
    BY <1>1, NothingToUndo
<1>3. QED
    BY <1>1, <1>2

(* A move that is stored: its lesson is placed where nothing is in the     *)
(* way, and its record takes it back.                                      *)
LEMMA MoveKeepsHistory ==
    ASSUME PlanInv, HistInv, NEW a \in Admins, SaveMove(a)
    PROVE  HistInv'
<1>1. CASE UNCHANGED <<plan, edits, aux>>
    BY <1>1, SaveMoveIs, DoneKeepsHistory
<1>2. CASE /\ plan' = Moved(a) /\ edits' = Append(edits, MoveEdit(a))
           /\ aux_after' = Append(aux_after, Moved(a)) /\ Stale(a)
  <2> DEFINE q == op[a]
             m == op[a].lesson
             e == MoveEdit(a)
             n == Len(edits)
  <2>1. /\ q.do = "move" /\ q.at = "write" /\ Done(a) /\ q \in Move /\ m \in DOMAIN plan
        /\ Moved(a) \in Seq(Lesson) /\ DOMAIN Moved(a) = DOMAIN plan
        /\ \A i \in DOMAIN plan \ {m} : Moved(a)[i] = plan[i]
        /\ Moved(a)[m] = [plan[m] EXCEPT !.slot = q.want.slot,
                              !.room = IF q.keepRoom THEN q.from.room ELSE q.want.room]
      BY SaveMoveIs, MovedIs
  <2>2. e \in Edit /\ e.do = "move" /\ e.lesson = m /\ e.from = q.from /\ q.from \in Lesson
      BY <2>1 DEF MoveEdit, Edit, Move
  <2>3. /\ plan \in Seq(Lesson) /\ edits \in Seq(Edit) /\ plan[m] \in Lesson /\ q.want \in Lesson
      BY <2>1 DEF PlanInv, TypeOK, Move
  <2>4. /\ n \in Nat /\ Len(edits') = n + 1
        /\ DOMAIN edits = 1 .. n /\ DOMAIN edits' = DOMAIN edits \cup {n + 1}
        /\ \A i \in DOMAIN edits : edits'[i] = edits[i] /\ aux_after'[i] = aux_after[i]
        /\ edits'[n + 1] = e /\ aux_after'[n + 1] = Moved(a)
        /\ Reverts' = Reverts
        /\ \A i \in Reverts : (UndoesRevert(i)' <=> UndoesRevert(i)) /\ (Restores(i)' <=> Restores(i))
        /\ GoodReverts' => GoodReverts
      BY <1>2, <2>1, <2>2, EarlierEdits
  <2> HIDE DEF q, m, e, n
  <2>5. \A b \in Admins : Fresh(op[b])'
    <3>1. Len(plan') = Len(plan) /\ Len(plan) \in Nat
        BY <1>2, <2>1, <2>3
    <3>2. Written' \in Nat /\ Written < Written'
        BY <2>4, <3>1 DEF Written, n
    <3>3. QED
        BY <2>1, <3>2, WriteMakesOthersOld
  <2>6. ASSUME ~aux_stale'
        PROVE  HistoryHolds' /\ NeverAClash' /\ \A i \in Reverts' : UndoesRevert(i)' \/ Restores(i)'
    <3>1. /\ ~aux_stale /\ Decided(q) /\ HistoryHolds /\ NeverAClash
          /\ \A i \in Reverts : UndoesRevert(i) \/ Restores(i)
        BY <1>2, <2>1, <2>6 DEF HistInv, Stale, Fresh, q
    <3>2. /\ SameLesson(q.want, plan[m]) /\ q.from = plan[m]
          /\ q.keepRoom => q.want.room = plan[m].room
          /\ \A kind \in Checks, i \in DOMAIN plan \ {m} : ~InTheWay(kind, q.want, plan[i])
        BY <2>1, <3>1 DEF Decided, Places, Passed, q, m, Checks
    <3>3. Moved(a)[m] = q.want
      <4>1. /\ Moved(a)[m] \in Lesson /\ Moved(a)[m].slot = q.want.slot
            /\ Moved(a)[m].room = q.want.room /\ SameLesson(Moved(a)[m], plan[m])
          BY <2>1, <2>3, <3>2 DEF SameLesson, Lesson
      <4>2. \A v, w \in Lesson : SameLesson(v, w) /\ v.room = w.room /\ v.slot = w.slot => v = w
          BY DEF Lesson, SameLesson
      <4>3. QED
          BY <2>3, <3>2, <4>1, <4>2 DEF SameLesson
    <3>4. HistoryHolds'
      <4>1. ASSUME NEW t \in DOMAIN edits
            PROVE  /\ DOMAIN aux_after'[t] \subseteq DOMAIN plan'
                   /\ NoRevert(t, Len(edits))' =>
                        \A l \in DOMAIN aux_after'[t] :
                            Placed(plan'[l], edits', l, t, Len(edits')) = aux_after'[t][l]
        <5>1. DOMAIN aux_after'[t] \subseteq DOMAIN plan'
            BY <1>2, <2>1, <2>4, <3>1 DEF HistoryHolds
        <5>2. ASSUME NoRevert(t, Len(edits))', NEW l \in DOMAIN aux_after'[t]
              PROVE  Placed(plan'[l], edits', l, t, Len(edits')) = aux_after'[t][l]
          <6>1. NoRevert(t, n)
              BY <2>4, <5>2 DEF NoRevert
          <6>2. Placed(plan[l], edits, l, t, n) = aux_after'[t][l] /\ l \in DOMAIN plan
              BY <2>4, <3>1, <5>2, <6>1 DEF HistoryHolds, n
          <6>3. CASE l = m
            <7>1. plan'[m] = q.want
                BY <1>2, <3>3
            <7>2. Placed(q.want, Append(edits, e), m, t, n + 1) = Placed(plan[m], edits, m, t, n)
                BY <2>2, <2>3, <3>2, EditOfThis DEF SameLesson, n
            <7>3. QED
                BY <1>2, <2>4, <6>2, <6>3, <7>1, <7>2 DEF e
          <6>4. CASE l # m
            <7>1. plan'[l] = plan[l]
                BY <1>2, <2>1, <6>2, <6>4
            <7>2. Placed(plan[l], Append(edits, e), l, t, n + 1) = Placed(plan[l], edits, l, t, n)
                BY <2>2, <2>3, <6>4, EditOfAnother DEF n
            <7>3. QED
                BY <1>2, <2>4, <6>2, <7>1, <7>2 DEF e
          <6>5. QED
              BY <6>3, <6>4
        <5>3. QED
            BY <5>1, <5>2
      <4>2. DOMAIN aux_after'[n + 1] \subseteq DOMAIN plan'
          BY <1>2, <2>4
      <4>3. \A l \in DOMAIN aux_after'[n + 1] :
                Placed(plan'[l], edits', l, n + 1, Len(edits')) = aux_after'[n + 1][l]
          BY <1>2, <2>1, <2>2, <2>4, LatestEditHolds DEF n, e
      <4>4. QED
          BY <2>4, <4>1, <4>2, <4>3 DEF HistoryHolds
    <3>5. NeverAClash'
      <4>1. SUFFICES ASSUME NoClash(Given), GoodReverts'
                     PROVE  NoClash(plan') /\ \A d \in DOMAIN edits' : NoClash(aux_after'[d])
          BY DEF NeverAClash
      <4>2. NoClash(plan) /\ \A d \in DOMAIN edits : NoClash(aux_after[d])
          BY <2>4, <3>1, <4>1 DEF NeverAClash
      <4>3. NoClash(Moved(a))
        <5>1. DOMAIN Moved(a) = DOMAIN plan \cup {m}
            BY <2>1
        <5>2. \A kind \in Checks, i \in DOMAIN plan \ {m} : ~InTheWay(kind, Moved(a)[m], plan[i])
            BY <3>2, <3>3
        <5>3. QED
            BY <2>1, <4>2, <5>1, <5>2, PlacedWithoutClash
      <4>4. QED
          BY <1>2, <2>4, <4>2, <4>3
    <3>6. QED
        BY <2>4, <3>1, <3>4, <3>5
  <2>7. QED
      BY <2>5, <2>6 DEF HistInv
<1>3. QED
    BY <1>1, <1>2, SaveMoveIs

(* A revert that is stored: the plan is the one that the edit it went back *)
(* to left behind.                                                         *)
LEMMA RevertKeepsHistory ==
    ASSUME PlanInv, HistInv, NEW a \in Admins, SaveRevert(a)
    PROVE  HistInv'
<1>1. CASE UNCHANGED <<plan, edits, aux>>
    BY <1>1, SaveRevertIs, DoneKeepsHistory
<1>2. CASE /\ plan' = Reverted(a) /\ edits' = Append(edits, RevertEdit(a))
           /\ aux_after' = Append(aux_after, Reverted(a)) /\ Stale(a)
  <2> PICK n : n = Len(edits)
      OBVIOUS
  <2> PICK q : q = op[a]
      OBVIOUS
  <2> PICK to : to = q.target
      OBVIOUS
  <2> PICK e : e = RevertEdit(a)
      OBVIOUS
  <2>1. /\ q.do = "revert" /\ Done(a) /\ to \in Nat \ {0} /\ to <= q.upto /\ q.upto <= n
        /\ q.upto \in Nat
        /\ Reverted(a) \in Seq(Lesson) /\ DOMAIN Reverted(a) = DOMAIN plan
        /\ Reverted(a) = [l \in DOMAIN plan |-> Placed(plan[l], edits, l, to, q.upto)]
      BY SaveRevertIs, RevertIs, RollbackIs DEF Reverted
  <2>2. e \in Edit /\ e.do = "revert" /\ e.target = to
      BY <2>1 DEF RevertEdit, Edit
  <2>3. /\ plan \in Seq(Lesson) /\ aux_after \in Seq(Seq(Lesson)) /\ Len(aux_after) = n
      BY DEF PlanInv, TypeOK
  <2>4. /\ n \in Nat /\ Len(edits') = n + 1
        /\ DOMAIN edits = 1 .. n /\ DOMAIN edits' = DOMAIN edits \cup {n + 1}
        /\ \A i \in DOMAIN edits : edits'[i] = edits[i] /\ aux_after'[i] = aux_after[i]
        /\ edits'[n + 1] = e /\ aux_after'[n + 1] = Reverted(a)
        /\ Reverts' = Reverts \cup {n + 1}
        /\ \A i \in Reverts : (UndoesRevert(i)' <=> UndoesRevert(i)) /\ (Restores(i)' <=> Restores(i))
        /\ GoodReverts' => GoodReverts
      BY <1>2, <2>1, <2>2, EarlierEdits
  <2>5. \A b \in Admins : Fresh(op[b])'
    <3>1. Len(plan') = Len(plan) /\ Len(plan) \in Nat
        BY <1>2, <2>1, <2>3
    <3>2. Written' \in Nat /\ Written < Written'
        BY <2>4, <3>1 DEF Written
    <3>3. QED
        BY <2>1, <3>2, WriteMakesOthersOld
  <2>6. ASSUME ~aux_stale'
        PROVE  HistoryHolds' /\ NeverAClash' /\ \A i \in Reverts' : UndoesRevert(i)' \/ Restores(i)'
    <3>1. /\ ~aux_stale /\ Decided(q) /\ HistoryHolds /\ NeverAClash
          /\ \A i \in Reverts : UndoesRevert(i) \/ Restores(i)
        BY <1>2, <2>1, <2>6 DEF HistInv, Stale, Fresh
    <3>2. q.upto = n /\ to \in DOMAIN edits
        BY <2>1, <2>4, <3>1 DEF Decided
    <3>3. DOMAIN aux_after[to] \subseteq DOMAIN plan
        BY <3>1, <3>2 DEF HistoryHolds
    <3>4. ~UndoesRevert(n + 1)' => \A l \in DOMAIN aux_after[to] : Reverted(a)[l] = aux_after[to][l]
      <4>1. ASSUME ~UndoesRevert(n + 1)' PROVE NoRevert(to, n)
        <5>1. \A k \in to + 1 .. n : k \in DOMAIN edits /\ edits'[k] = edits[k]
            BY <2>1, <2>4
        <5>2. n + 1 - 1 = n
            BY <2>4
        <5>3. \A k \in to + 1 .. n : edits'[k].do # "revert"
            BY <2>2, <2>4, <4>1, <5>2 DEF UndoesRevert
        <5>4. QED
            BY <5>1, <5>3 DEF NoRevert
      <4>2. QED
          BY <2>1, <3>1, <3>2, <3>3, <4>1 DEF HistoryHolds
    <3>5. HistoryHolds'
      <4>1. ASSUME NEW t \in DOMAIN edits
            PROVE  DOMAIN aux_after'[t] \subseteq DOMAIN plan' /\ ~NoRevert(t, Len(edits))'
        <5>1. n + 1 \in t + 1 .. n + 1
            BY <2>4
        <5>2. QED
            BY <1>2, <2>1, <2>2, <2>4, <3>1, <5>1 DEF HistoryHolds, NoRevert
      <4>2. DOMAIN aux_after'[n + 1] \subseteq DOMAIN plan'
          BY <1>2, <2>4
      <4>3. \A l \in DOMAIN aux_after'[n + 1] :
                Placed(plan'[l], edits', l, n + 1, Len(edits')) = aux_after'[n + 1][l]
          BY <1>2, <2>1, <2>2, <2>4, LatestEditHolds
      <4>4. QED
          BY <2>4, <4>1, <4>2, <4>3 DEF HistoryHolds
    <3>6. UndoesRevert(n + 1)' \/ Restores(n + 1)'
        BY <2>2, <2>4, <3>2, <3>4 DEF Restores, SamePlan
    <3>7. NeverAClash'
      <4>1. SUFFICES ASSUME NoClash(Given), GoodReverts'
                     PROVE  NoClash(plan') /\ \A d \in DOMAIN edits' : NoClash(aux_after'[d])
          BY DEF NeverAClash
      <4>2. \A d \in DOMAIN edits : NoClash(aux_after[d])
          BY <2>4, <3>1, <4>1 DEF NeverAClash
      <4>3. ~UndoesRevert(n + 1)' /\ ~GrownSince(n + 1)'
          BY <2>4, <4>1 DEF GoodReverts
      <4>4. Len(Reverted(a)) = Len(aux_after[to]) /\ aux_after[to] \in Seq(Lesson)
          BY <2>2, <2>3, <2>4, <3>2, <4>3 DEF GrownSince
      <4>5. DOMAIN Reverted(a) = DOMAIN aux_after[to]
          BY <2>1, <4>4
      <4>6. NoClash(Reverted(a))
          BY <3>2, <3>4, <4>2, <4>3, <4>5 DEF NoClash
      <4>7. QED
          BY <1>2, <2>4, <4>2, <4>6
    <3>8. QED
        BY <2>4, <3>1, <3>5, <3>6, <3>7
  <2>7. QED
      BY <2>5, <2>6 DEF HistInv
<1>3. QED
    BY <1>1, <1>2, SaveRevertIs

(* A resolution that is committed: another lesson, in nobody's way.        *)
LEMMA CommitKeepsHistory ==
    ASSUME PlanInv, HistInv, NEW a \in Admins, CommitResolution(a)
    PROVE  HistInv'
<1> DEFINE q == op[a]
<1>1. /\ q.do = "resolve" /\ q.at = "commit" /\ q \in Resolution
      /\ Done(a) /\ edits' = edits /\ aux_after' = aux_after
    BY RequestKinds DEF CommitResolution, PlanInv
<1>2. CASE ~q.places
  <2>1. UNCHANGED <<plan, edits, aux>>
      BY <1>1, <1>2 DEF CommitResolution, aux
  <2>2. QED
      BY <1>1, <2>1, DoneKeepsHistory
<1>3. CASE q.places
  <2> DEFINE m == Len(plan) + 1
  <2>1. /\ plan' = Append(plan, q.want) /\ Stale(a)
        /\ plan \in Seq(Lesson) /\ Len(plan) \in Nat /\ Len(edits) \in Nat /\ q.lesson = 0
      BY <1>1, <1>3 DEF CommitResolution, PlanInv, TypeOK, Resolution
  <2>2. /\ Len(plan') = Len(plan) + 1 /\ DOMAIN plan' = DOMAIN plan \cup {m} /\ plan'[m] = q.want
        /\ \A i \in DOMAIN plan : plan'[i] = plan[i] /\ i # m /\ i # 0
      BY <2>1
  <2> HIDE DEF m, q
  <2>3. \A b \in Admins : Fresh(op[b])'
    <3>1. Written' \in Nat /\ Written < Written'
        BY <1>1, <2>1, <2>2 DEF Written
    <3>2. QED
        BY <1>1, <3>1, WriteMakesOthersOld
  <2>4. ASSUME ~aux_stale'
        PROVE  HistoryHolds' /\ NeverAClash' /\ \A i \in Reverts' : UndoesRevert(i)' \/ Restores(i)'
    <3>1. /\ ~aux_stale /\ Decided(q) /\ HistoryHolds /\ NeverAClash
          /\ \A i \in Reverts : UndoesRevert(i) \/ Restores(i)
        BY <1>1, <2>1, <2>4 DEF HistInv, Stale, Fresh, q
    <3>2. \A kind \in Checks, i \in DOMAIN plan \ {m} : ~InTheWay(kind, plan'[m], plan[i])
        BY <1>1, <1>3, <2>1, <2>2, <3>1 DEF Decided, Places, Passed, Checks
    <3>3. \A i \in Reverts' : UndoesRevert(i)' \/ Restores(i)'
        BY <1>1, <3>1 DEF Reverts, UndoesRevert, Restores
    <3>4. HistoryHolds'
        BY <1>1, <2>2, <3>1 DEF HistoryHolds, NoRevert
    <3>5. NoClash(plan) => NoClash(plan')
        BY <2>2, <3>2, PlacedWithoutClash
    <3>6. NeverAClash'
        BY <1>1, <3>1, <3>5 DEF NeverAClash, GoodReverts, Reverts, UndoesRevert, GrownSince
    <3>7. QED
        BY <3>3, <3>4, <3>6
  <2>5. QED
      BY <2>3, <2>4 DEF HistInv
<1>4. QED
    BY <1>2, <1>3

(* Whether the run is active is of no importance to its history.           *)
LEMMA ActivateKeepsHistory ==
    ASSUME HistInv, ActivateRun \/ UNCHANGED vars
    PROVE  HistInv'
<1>1. plan' = plan /\ edits' = edits /\ op' = op /\ aux_after' = aux_after /\ aux_stale' = aux_stale
    BY DEF ActivateRun, vars, aux
<1>2. \A a \in Admins : Fresh(op[a])'
    BY <1>1 DEF HistInv, Fresh, Decided, Written
<1>3. QED
    BY <1>1, <1>2, SameHistory DEF HistInv

(* Every step keeps the invariant.                                         *)
LEMMA HistStep == PlanInv /\ HistInv /\ [Next]_vars => HistInv'
<1> SUFFICES ASSUME PlanInv, HistInv, [Next]_vars PROVE HistInv'
    OBVIOUS
<1>1. CASE ActivateRun \/ UNCHANGED vars
    BY <1>1, ActivateKeepsHistory
<1>2. ASSUME NEW a \in Admins,
             \/ \E l \in DOMAIN plan, slot \in Slots, room \in Rooms : ValidateMove(a, l, slot, room)
             \/ \E c \in open : LoadConflict(a, c)
             \/ CheckPlacement(a)
             \/ ReadLesson(a) \/ SaveMove(a)
             \/ MarkResolved(a) \/ CountRemaining(a) \/ CommitResolution(a)
             \/ \E t \in DOMAIN edits : ReadLaterEdits(a, t)
             \/ SaveRevert(a)
      PROVE  HistInv'
    BY <1>2, ValidateMoveKeepsHistory, LoadConflictKeepsHistory, CheckPlacementKeepsHistory,
       ReadLessonKeepsHistory, MoveKeepsHistory, MarkResolvedKeepsHistory, CountKeepsHistory,
       CommitKeepsHistory, ReadLaterEditsKeepsHistory, RevertKeepsHistory
<1>3. QED
    BY <1>1, <1>2 DEF Next

(* In every reachable state undoing the moves after an edit gives the plan *)
(* it left behind, unless some write was decided upon an old plan.         *)
THEOREM HistoryIsKept == Spec => []HistInv
BY PlanInit, PlanStep, HistInit, HistStep, PTL DEF Spec

(* Going back over moves restores the plan of the chosen edit, for any     *)
(* number of admins, lessons and edits, and whatever they do at once,      *)
(* unless a write was decided upon a plan that had changed.  Of a revert   *)
(* that goes back over an earlier revert nothing is said.                  *)
THEOREM RevertsUndoMoves == Spec => []MovesAreUndone
<1>1. HistInv => MovesAreUndone
    BY DEF HistInv, MovesAreUndone
<1>2. QED
    BY <1>1, HistoryIsKept, PTL

(* Hand edits never put a teacher, room or class in two places at once,    *)
(* for any plan and any number of admins, with the exceptions              *)
(* PlanIsClashFree names.                                                  *)
THEOREM EditsKeepPlanClashFree == Spec => []PlanIsClashFree
<1>1. HistInv => PlanIsClashFree
    BY DEF HistInv, PlanIsClashFree, NeverAClash, GoodReverts
<1>2. QED
    BY <1>1, HistoryIsKept, PTL
=============================================================================
