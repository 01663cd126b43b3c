--------------------------- MODULE LessonPartition ---------------------------
(***************************************************************************)
(* How handleCompletion splits the lessons of a solution into those it     *)
(* stores and those it records as conflicts: a greedy pass in the solver's *)
(* order that reserves, for every accepted lesson, its teacher's slot and  *)
(* its room's slot.  The pass runs without an await; it is modelled step   *)
(* by step so that its loop invariant can be stated and proved.            *)
(***************************************************************************)
EXTENDS Naturals

CONSTANTS N,           \* lessons in the solution
          Teachers,    \* resolved teacherIds, '' for an unknown ClassSubject
          Rooms,
          Slots        \* (dayOfWeek, periodNumber, weekType) triples

ASSUME SizeAssumption == N \in Nat

Candidate == [teacher : Teachers, room : Rooms, slot : Slots]
Indices == 1 .. N

VARIABLES candidates,  \* the parsed lessons, in the solver's order
          next,        \* the candidate the loop looks at
          accepted,    \* indices of the accepted lessons
          byTeacher,   \* acceptedByTeacherKey: <<key, index>> pairs
          byRoom,      \* acceptedByRoomKey
          conflicts    \* dropped lessons, with the reason and the lesson collided with

vars == <<candidates, next, accepted, byTeacher, byRoom, conflicts>>

TeacherKey(i) == <<candidates[i].teacher, candidates[i].slot>>
RoomKey(i) == <<candidates[i].room, candidates[i].slot>>

TeacherClashes(i) == {p \in byTeacher : p[1] = TeacherKey(i)}
RoomClashes(i) == {p \in byRoom : p[1] = RoomKey(i)}

Init ==
    /\ candidates \in [Indices -> Candidate]
    /\ next = 1
    /\ accepted = {} /\ byTeacher = {} /\ byRoom = {} /\ conflicts = {}

AcceptUnlessBoth ==                              \* mutant: || written as &&
    /\ next \in Indices
    /\ TeacherClashes(next) = {} \/ RoomClashes(next) = {}
    /\ accepted' = accepted \cup {next}
    /\ byTeacher' = byTeacher \cup {<<TeacherKey(next), next>>}
    /\ byRoom' = byRoom \cup {<<RoomKey(next), next>>}
    /\ next' = next + 1
    /\ UNCHANGED <<candidates, conflicts>>

Accept ==
    /\ next \in Indices
    /\ TeacherClashes(next) = {} /\ RoomClashes(next) = {}
    /\ accepted' = accepted \cup {next}
    /\ byTeacher' = byTeacher \cup {<<TeacherKey(next), next>>}
    /\ byRoom' = byRoom \cup {<<RoomKey(next), next>>}
    /\ next' = next + 1
    /\ UNCHANGED <<candidates, conflicts>>

RejectAndReserve ==                              \* mutant: a dropped lesson keeps its room
    /\ next \in Indices
    /\ LET hits == IF TeacherClashes(next) # {} THEN TeacherClashes(next) ELSE RoomClashes(next)
       IN  \E p \in hits :
             conflicts' = conflicts \cup {[cand |-> next, other |-> p[2],
                 type |-> IF TeacherClashes(next) # {} THEN "TEACHER" ELSE "ROOM"]}
    /\ byRoom' = byRoom \cup {<<RoomKey(next), next>>}
    /\ next' = next + 1
    /\ UNCHANGED <<candidates, accepted, byTeacher>>

(* A teacher clash is reported before a room clash.                        *)
Reject ==
    /\ next \in Indices
    /\ LET hits == IF TeacherClashes(next) # {} THEN TeacherClashes(next) ELSE RoomClashes(next)
       IN  \E p \in hits :
             conflicts' = conflicts \cup {[cand |-> next, other |-> p[2],
                 type |-> IF TeacherClashes(next) # {} THEN "TEACHER" ELSE "ROOM"]}
    /\ next' = next + 1
    /\ UNCHANGED <<candidates, accepted, byTeacher, byRoom>>

Finished == next > N /\ UNCHANGED vars

Next == Accept \/ Reject \/ Finished

Spec == Init /\ [][Next]_vars
-----------------------------------------------------------------------------
SameTeacherSlot(i, j) == TeacherKey(i) = TeacherKey(j)
SameRoomSlot(i, j) == RoomKey(i) = RoomKey(j)

(* Types, and the two maps hold exactly the accepted lessons' keys.        *)
TypeOK ==
    /\ candidates \in [Indices -> Candidate]
    /\ next \in 1 .. N + 1
    /\ accepted \subseteq Indices
    /\ byTeacher = {<<TeacherKey(i), i>> : i \in accepted}
    /\ byRoom = {<<RoomKey(i), i>> : i \in accepted}
    /\ conflicts \subseteq [cand : Indices, other : Indices, type : {"TEACHER", "ROOM"}]

(* "This guarantees the accepted set trips neither unique constraint": no  *)
(* two accepted lessons share a teacher, or a room, in the same slot, so   *)
(* createMany cannot fail on @@unique.                                     *)
AcceptedFitsConstraints ==
    \A i, j \in accepted : SameTeacherSlot(i, j) \/ SameRoomSlot(i, j) => i = j

(* Nothing is lost and nothing is dropped without need: every lesson seen  *)
(* is stored or recorded as a conflict, never both, and each conflict      *)
(* names an accepted, earlier lesson that really is in the way, a room     *)
(* only when no accepted teacher slot is.                                  *)
ConflictsAreReal ==
    /\ \A c \in conflicts :
         /\ c.other \in accepted /\ c.other < c.cand /\ c.cand \notin accepted
         /\ c.type = "TEACHER" => SameTeacherSlot(c.cand, c.other)
         /\ c.type = "ROOM" => /\ SameRoomSlot(c.cand, c.other)
                               /\ \A j \in accepted : j < c.cand => ~SameTeacherSlot(c.cand, j)
    /\ \A i \in Indices : i < next => i \in accepted \/ \E c \in conflicts : c.cand = i
=============================================================================
