---------------------------- MODULE TimetablePlan ----------------------------
(***************************************************************************)
(* Editing the plan of one solve run by hand: moving a lesson              *)
(* (TimetableEditService.moveLesson), going back in the edit history       *)
(* (revertToEdit) and settling the lessons the solver's plan had no place  *)
(* for (TimetableConflictService.resolveConflict), by several admins at    *)
(* once.                                                                   *)
(*                                                                         *)
(* Every check reads what is committed at that moment; no lock spans a     *)
(* check and the write it is for.  A transaction is one step, except       *)
(* resolveConflict's, whose count of the OPEN conflicts does not see what  *)
(* other transactions have yet to commit (READ COMMITTED).                 *)
(***************************************************************************)
EXTENDS Naturals, Sequences, FiniteSets

CONSTANTS Planners,   \* the admins who edit the plan
          Settlers,   \* the admins who resolve conflicts; they may be the same
          Given,      \* the lessons handleCompletion stored, a sequence
          Dropped,    \* the lessons it recorded as conflicts, by conflict id
          Teachers,   \* those qualified for every subject
          Rooms,      \* those of the required room type
          Slots,      \* (dayOfWeek, periodNumber) pairs
          Classes,
          Weeks,      \* the weekTypes in use
          MaxEdits    \* bound: edits of the plan

Admins == Planners \cup Settlers
Lesson == [teacher : Teachers, class : Classes, room : Rooms, slot : Slots, week : Weeks]

WeekFilterOneWay(w) == {w, "BOTH"}               \* mutant: a BOTH lesson meets only BOTH

(* The weekTypes the clash queries look for.                               *)
WeekFilter(w) == {w, "BOTH"} \cup (IF w = "BOTH" THEN {"A", "B"} ELSE {})

InTheWay(kind, new, old) ==
    new[kind] = old[kind] /\ new.slot = old.slot /\ old.week \in WeekFilter(new.week)

(* The unique constraints of timetable_lessons compare weekType for        *)
(* equality, and say nothing of classes.                                   *)
SameKey(x, y) ==
    /\ x.slot = y.slot /\ x.week = y.week
    /\ x.teacher = y.teacher \/ x.room = y.room
Unique(p) == \A i, j \in DOMAIN p : i # j => ~SameKey(p[i], p[j])

ConflictIds == DOMAIN Dropped
Wanted(c) == Dropped[c].lesson
KindOf(c) == Dropped[c].kind     \* conflictType

ASSUME DataAssumption ==
    /\ IsFiniteSet(Admins) /\ MaxEdits \in Nat /\ Weeks \subseteq {"BOTH", "A", "B"}
    /\ Given \in Seq(Lesson) /\ Unique(Given)
    /\ \A c \in ConflictIds :
         /\ KindOf(c) \in {"teacher", "room"} /\ Wanted(c) \in Lesson
         /\ \E i \in DOMAIN Given : InTheWay(KindOf(c), Wanted(c), Given[i])

VARIABLES plan,       \* the run's TimetableLesson rows, in order of creation
          open,       \* conflicts whose committed status is OPEN
          runStatus,
          isActive,   \* the run is the school's active one
          edits,      \* the run's TimetableLessonEdit rows, in order of creation
          op          \* what each admin's request is at

(* Auxiliary: for each edit the plan it left behind; and whether some      *)
(* write was decided upon a plan that had changed in the meantime.         *)
VARIABLES aux_after, aux_stale

aux == <<aux_after, aux_stale>>
vars == <<plan, open, runStatus, isActive, edits, op, aux>>

(* at: the check, read or write a request does next.  want: the placement  *)
(* asked for.  seen: how much had been written when it was first checked.  *)
Checks == {"teacher", "room", "class"}
Idle == [do |-> "none"]
Move == [do : {"move"}, at : Checks \cup {"read", "write"}, lesson : Nat, want : Lesson,
         keepRoom : BOOLEAN, from : Lesson, seen : Nat]
Resolution == [do : {"resolve"}, at : Checks \cup {"write", "count", "commit"}, lesson : {0},
               conflict : ConflictIds, places : BOOLEAN, want : Lesson, last : BOOLEAN, seen : Nat]
Revert == [do : {"revert"}, at : {"write"}, target : Nat, upto : Nat, seen : Nat]
Edit == [do : {"move"}, lesson : Nat, from : Lesson] \cup [do : {"revert"}, target : Nat]

Written == Len(edits) + Len(plan)
MayEdit == Len(edits) + Cardinality({a \in Admins : op[a].do \in {"move", "revert"}}) < MaxEdits

Done(a) == op' = [op EXCEPT ![a] = Idle]
Step(a, at) == op' = [op EXCEPT ![a].at = at]

Init ==
    /\ plan = Given /\ open = ConflictIds
    /\ runStatus = IF ConflictIds = {} THEN "COMPLETED" ELSE "COMPLETED_WITH_CONFLICTS"
    /\ isActive = FALSE
    /\ edits = << >> /\ aux_after = << >> /\ aux_stale = FALSE
    /\ op = [a \in Admins |-> Idle]

(* activateRun of this run, or of another run of the school.               *)
ActivateRun ==
    /\ isActive' = ~isActive
    /\ UNCHANGED <<plan, open, runStatus, edits, op, aux>>

-----------------------------------------------------------------------------
(* moveLesson and resolveConflict check a placement in the same order.     *)

(* validateMove reads the lesson; without a targetRoomId the room is kept. *)
ValidateMove(a, l, slot, room) ==
    /\ a \in Planners /\ op[a] = Idle
    /\ isActive /\ MayEdit
    /\ \E keep \in BOOLEAN :
         /\ keep => room = plan[l].room
         /\ op' = [op EXCEPT ![a] =
                [do |-> "move", at |-> "teacher", lesson |-> l, keepRoom |-> keep,
                 want |-> [plan[l] EXCEPT !.slot = slot, !.room = room],
                 from |-> plan[l], seen |-> Written]]
    /\ UNCHANGED <<plan, open, runStatus, isActive, edits, aux>>

(* What an admin may ask for: another slot or week (move-slot), or a       *)
(* replacement for what is double-booked (reassign-resource).              *)
Placements(c) ==
    {[Wanted(c) EXCEPT !.slot = to[1], !.week = to[2]] : to \in Slots \X Weeks}
      \cup IF KindOf(c) = "teacher" THEN {[Wanted(c) EXCEPT !.teacher = t] : t \in Teachers}
                                    ELSE {[Wanted(c) EXCEPT !.room = r] : r \in Rooms}

Request(c, at, places, want) ==
    [do |-> "resolve", at |-> at, lesson |-> 0, conflict |-> c, places |-> places,
     want |-> want, last |-> FALSE, seen |-> Written]

(* resolveConflict loads the conflict and makes up the placement; a cancel *)
(* has none, and nothing to check.                                         *)
LoadConflict(a, c) ==
    /\ a \in Settlers /\ op[a] = Idle
    /\ c \in open
    /\ \/ op' = [op EXCEPT ![a] = Request(c, "write", FALSE, Wanted(c))]
       \/ \E want \in Placements(c) : op' = [op EXCEPT ![a] = Request(c, "teacher", TRUE, want)]
    /\ UNCHANGED <<plan, open, runStatus, isActive, edits, aux>>

Others(a) == DOMAIN plan \ {op[a].lesson}

AfterCheck(a) ==
    CASE op[a].at = "teacher" -> "room"
      [] op[a].at = "room" -> "class"
      [] op[a].at = "class" -> IF op[a].do = "move" THEN "read" ELSE "write"

(* One query for a clash; the request is refused when it finds one.        *)
CheckPlacement(a) ==
    /\ op[a].do \in {"move", "resolve"} /\ op[a].at \in Checks
    /\ IF \E i \in Others(a) : InTheWay(op[a].at, op[a].want, plan[i])
       THEN Done(a)
       ELSE Step(a, AfterCheck(a))
    /\ UNCHANGED <<plan, open, runStatus, isActive, edits, aux>>

-----------------------------------------------------------------------------
(* The lesson a resolution has inserted but not committed.                 *)
Inserting(a) == op[a].do = "resolve" /\ op[a].at \in {"count", "commit"} /\ op[a].places

(* A write waits for an insert of the same key that is not yet committed.  *)
Unblocked(a, p) ==
    \A b \in Admins \ {a} : Inserting(b) => \A i \in DOMAIN p : ~SameKey(op[b].want, p[i])

Stale(a) == aux_stale' = (aux_stale \/ op[a].seen # Written)

(* moveLesson reads the lesson again, for the history.                     *)
ReadLesson(a) ==
    /\ op[a].do = "move" /\ op[a].at = "read"
    /\ op' = [op EXCEPT ![a].at = "write", ![a].from = plan[op[a].lesson]]
    /\ UNCHANGED <<plan, open, runStatus, isActive, edits, aux>>

(* The move and its history record; a unique constraint may refuse them.   *)
SaveMove(a) ==
    /\ op[a].do = "move" /\ op[a].at = "write"
    /\ LET room == IF op[a].keepRoom THEN op[a].from.room ELSE op[a].want.room
           moved == [plan EXCEPT ![op[a].lesson].slot = op[a].want.slot,
                                 ![op[a].lesson].room = room]
       IN  /\ Unblocked(a, moved)
           /\ IF Unique(moved)
              THEN /\ plan' = moved
                   /\ edits' = Append(edits, [do |-> "move", lesson |-> op[a].lesson,
                                              from |-> op[a].from])
                   /\ aux_after' = Append(aux_after, moved)
                   /\ Stale(a)
              ELSE UNCHANGED <<plan, edits, aux>>
    /\ Done(a)
    /\ UNCHANGED <<open, runStatus, isActive>>

-----------------------------------------------------------------------------
(* resolveConflict's transaction.                                          *)

(* The insert (P2002 is answered with a 409) and the conflict's update,    *)
(* which waits for another transaction that has the conflict's row.        *)
MarkResolved(a) ==
    /\ op[a].do = "resolve" /\ op[a].at = "write"
    /\ \A b \in Admins \ {a} : op[b].do = "resolve" /\ op[b].conflict = op[a].conflict
                                 => op[b].at \notin {"count", "commit"}
    /\ IF op[a].places
       THEN LET grown == Append(plan, op[a].want)
            IN  /\ Unblocked(a, grown)
                /\ IF Unique(grown) THEN Step(a, "count") ELSE Done(a)
       ELSE Step(a, "count")
    /\ UNCHANGED <<plan, open, runStatus, isActive, edits, aux>>

CountUncommitted(a) ==                  \* mutant: the count sees what is not yet committed
    /\ op[a].do = "resolve" /\ op[a].at = "count"
    /\ op' = [op EXCEPT ![a].at = "commit",
                        ![a].last = open \subseteq {op[b].conflict : b \in
                            {d \in Admins : op[d].do = "resolve" /\ op[d].at \in {"count", "commit"}}}]
    /\ UNCHANGED <<plan, open, runStatus, isActive, edits, aux>>

CountRemaining(a) ==
    /\ op[a].do = "resolve" /\ op[a].at = "count"
    /\ op' = [op EXCEPT ![a].at = "commit", ![a].last = (open \ {op[a].conflict} = {})]
    /\ UNCHANGED <<plan, open, runStatus, isActive, edits, aux>>

CommitResolution(a) ==
    /\ op[a].do = "resolve" /\ op[a].at = "commit"
    /\ open' = open \ {op[a].conflict}
    /\ runStatus' = IF op[a].last THEN "COMPLETED" ELSE runStatus
    /\ IF op[a].places THEN plan' = Append(plan, op[a].want) /\ Stale(a)
                       ELSE UNCHANGED <<plan, aux_stale>>
    /\ Done(a)
    /\ UNCHANGED <<isActive, edits, aux_after>>

-----------------------------------------------------------------------------
(* revertToEdit reads the edits after the chosen one...                    *)
ReadLaterEdits(a, t) ==
    /\ a \in Planners /\ op[a] = Idle
    /\ MayEdit
    /\ t < Len(edits)
    /\ op' = [op EXCEPT ![a] = [do |-> "revert", at |-> "write", target |-> t,
                                upto |-> Len(edits), seen |-> Written]]
    /\ UNCHANGED <<plan, open, runStatus, isActive, edits, aux>>

UndoSlotOnly(lesson, e) ==                       \* mutant: roomId is not restored
    [lesson EXCEPT !.slot = e.from.slot]

Undo(lesson, e) == [lesson EXCEPT !.slot = e.from.slot, !.room = e.from.room]

(* The edits from k + 1 to u that an undo of lesson l follows: a 'revert'  *)
(* record holds no placement, so undoing it moves nothing.                 *)
MovesOf(l, k, u) == {e \in k + 1 .. u : edits[e].do = "move" /\ edits[e].lesson = l}

(* The plan once edits u, u - 1, ..., k + 1 are undone, newest first: of   *)
(* the placements given back to a lesson the oldest is the last.           *)
Rollback(k, u) ==
    [l \in DOMAIN plan |->
        IF MovesOf(l, k, u) = {} THEN plan[l]
        ELSE LET first == CHOOSE e \in MovesOf(l, k, u) : \A d \in MovesOf(l, k, u) : e <= d
             IN  Undo(plan[l], edits[first])]

(* ... and undoes them one by one, unless a unique constraint objects.     *)
SaveRevert(a) ==
    /\ op[a].do = "revert"
    /\ LET t == op[a].target
           u == op[a].upto
       IN  /\ \A k \in t .. u : Unblocked(a, Rollback(k, u))
           /\ IF \A k \in t .. u : Unique(Rollback(k, u))
              THEN /\ plan' = Rollback(t, u)
                   /\ edits' = Append(edits, [do |-> "revert", target |-> t])
                   /\ aux_after' = Append(aux_after, plan')
                   /\ Stale(a)
              ELSE UNCHANGED <<plan, edits, aux>>
    /\ Done(a)
    /\ UNCHANGED <<open, runStatus, isActive>>

-----------------------------------------------------------------------------
Next ==
    \/ ActivateRun
    \/ \E a \in Admins :
         \/ \E l \in DOMAIN plan, slot \in Slots, room \in Rooms : ValidateMove(a, l, slot, room)
         \/ \E c \in open : LoadConflict(a, c)
         \/ CheckPlacement(a)
         \/ ReadLesson(a) \/ SaveMove(a)
         \/ MarkResolved(a) \/ CountRemaining(a) \/ CommitResolution(a)
         \/ \E t \in DOMAIN edits : ReadLaterEdits(a, t)
         \/ SaveRevert(a)

Spec == Init /\ [][Next]_vars
-----------------------------------------------------------------------------
(* Types; and what the database sees to: the unique constraints.           *)
TypeOK ==
    /\ plan \in Seq(Lesson) /\ Unique(plan)
    /\ open \subseteq ConflictIds
    /\ runStatus \in {"COMPLETED", "COMPLETED_WITH_CONFLICTS"}
    /\ isActive \in BOOLEAN /\ aux_stale \in BOOLEAN
    /\ edits \in Seq(Edit) /\ Len(edits) <= MaxEdits
    /\ aux_after \in Seq(Seq(Lesson)) /\ Len(aux_after) = Len(edits)
    /\ op \in [Admins -> {Idle} \cup Move \cup Resolution \cup Revert]

(* The run is called COMPLETED only when no conflict is left: of two       *)
(* resolutions under way none counts the other's conflict as resolved      *)
(* before that one has committed.                                          *)
CompletedIsSettled == runStatus = "COMPLETED" => open = {}

(* Lessons placed for conflicts stay where they are in a revert: it takes  *)
(* back edits, and their placement is none.                                *)
SamePlan(p, q) == \A l \in DOMAIN p \cap DOMAIN q : p[l] = q[l]

Restores(i) == SamePlan(aux_after[i], aux_after[edits[i].target])

UndoesRevert(i) == \E k \in edits[i].target + 1 .. i - 1 : edits[k].do = "revert"
GrownSince(i) == Len(aux_after[i]) # Len(aux_after[edits[i].target])

Reverts == {i \in DOMAIN edits : edits[i].do = "revert"}

(* Going back over moves restores the plan as the chosen edit left it,     *)
(* whatever lessons they moved and however often, if nothing else was      *)
(* written between the reads and the write of any edit.                    *)
MovesAreUndone == ~aux_stale => \A i \in Reverts : UndoesRevert(i) \/ Restores(i)

(* No teacher, room or class is in two places in one week.                 *)
HeldIn(x, w) == x.week \in {w, "BOTH"}
NoClash(p) ==
    \A i, j \in DOMAIN p, w \in {"A", "B"} :
        i # j /\ p[i].slot = p[j].slot /\ HeldIn(p[i], w) /\ HeldIn(p[j], w) =>
            p[i].teacher # p[j].teacher /\ p[i].room # p[j].room /\ p[i].class # p[j].class

(* Hand edits keep teachers, rooms and classes out of two places at once,  *)
(* A and B weeks included, as long as no write was decided upon a plan     *)
(* that had changed, and no revert went back over a revert or over a       *)
(* lesson placed for a conflict.                                           *)
PlanIsClashFree ==
    /\ NoClash(Given) /\ ~aux_stale
    /\ \A i \in Reverts : ~UndoesRevert(i) /\ ~GrownSince(i)
    => NoClash(plan)

(* timetable-conflict.service.ts: "When the last OPEN conflict for the run *)
(* is resolved, the run flips back to COMPLETED."                          *)
LastResolveCompletes == open = {} => runStatus = "COMPLETED"

(* timetable-edit.service.ts: "All edits AFTER the specified edit are      *)
(* undone in reverse chronological order."                                 *)
RevertRestoresPlan == \A i \in Reverts : Restores(i)
=============================================================================
