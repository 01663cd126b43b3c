-------------------------- MODULE MasterDataProofs --------------------------
(***************************************************************************)
(* What holds of the data a timetable is made from and checked with: the   *)
(* partition of a solution of any length, solves of any school, the        *)
(* Stundentafel under any editors, and the deletion of master data beside  *)
(* any writers; and what the run of all four shows of each.                *)
(***************************************************************************)
EXTENDS MCMasterData, FiniteSetTheorems, WellFoundedInduction, TLAPS

-----------------------------------------------------------------------------
(* The partition of handleCompletion.                                      *)

PartitionInv ==
    /\ TypeOK
    /\ \A i \in accepted : i < next
    /\ \A c \in conflicts : c.cand < next
    /\ AcceptedFitsConstraints
    /\ ConflictsAreReal

(* The invariant holds before the first candidate is looked at.            *)
LEMMA PartitionInit == Init => PartitionInv
BY SizeAssumption
   DEF Init, PartitionInv, TypeOK, Indices, AcceptedFitsConstraints, ConflictsAreReal

(* Accepting a candidate whose teacher and room are free keeps it.         *)
LEMMA AcceptKeeps == PartitionInv /\ Accept => PartitionInv'
<1> SUFFICES ASSUME PartitionInv, Accept PROVE PartitionInv'
    OBVIOUS
<1> USE SizeAssumption
<1>1. /\ next \in Indices /\ next' = next + 1 /\ next \in Nat /\ N \in Nat
      /\ accepted' = accepted \cup {next}
      /\ candidates' = candidates /\ conflicts' = conflicts
    BY DEF Accept, Indices
<1>2. \A i \in Indices : TeacherKey(i)' = TeacherKey(i) /\ RoomKey(i)' = RoomKey(i)
    BY <1>1 DEF TeacherKey, RoomKey
<1>3. \A i \in accepted : i \in Indices /\ i < next
    BY DEF PartitionInv, TypeOK
<1>4. TypeOK'
  <2>1. byTeacher' = {<<TeacherKey(i)', i>> : i \in accepted'}
      BY <1>1, <1>2, <1>3 DEF Accept, PartitionInv, TypeOK
  <2>2. byRoom' = {<<RoomKey(i)', i>> : i \in accepted'}
      BY <1>1, <1>2, <1>3 DEF Accept, PartitionInv, TypeOK
  <2>3. QED
      BY <1>1, <2>1, <2>2 DEF PartitionInv, TypeOK, Indices
<1>5. \A i \in accepted : ~SameTeacherSlot(i, next) /\ ~SameRoomSlot(i, next)
  <2>1. ASSUME NEW i \in accepted PROVE ~SameTeacherSlot(i, next) /\ ~SameRoomSlot(i, next)
    <3>1. <<TeacherKey(i), i>> \in byTeacher /\ <<RoomKey(i), i>> \in byRoom
        BY DEF PartitionInv, TypeOK
    <3>2. TeacherClashes(next) = {} /\ RoomClashes(next) = {}
        BY DEF Accept
    <3>3. <<TeacherKey(i), i>>[1] # TeacherKey(next)
        BY <3>1, <3>2 DEF TeacherClashes
    <3>4. <<RoomKey(i), i>>[1] # RoomKey(next)
        BY <3>1, <3>2 DEF RoomClashes
    <3>5. QED
        BY <3>3, <3>4 DEF SameTeacherSlot, SameRoomSlot
  <2>2. QED
      BY <2>1
<1>6. AcceptedFitsConstraints'
    BY <1>1, <1>3, <1>5 DEF PartitionInv, AcceptedFitsConstraints, SameTeacherSlot,
                            SameRoomSlot, TeacherKey, RoomKey
<1>7. ConflictsAreReal'
  <2>1. ASSUME NEW c \in conflicts
        PROVE  /\ c.other \in accepted' /\ c.other < c.cand /\ c.cand \notin accepted'
               /\ c.type = "TEACHER" => SameTeacherSlot(c.cand, c.other)'
               /\ c.type = "ROOM" => /\ SameRoomSlot(c.cand, c.other)'
                                     /\ \A j \in accepted' : j < c.cand => ~SameTeacherSlot(c.cand, j)'
    <3>1. c.cand \in Indices /\ c.other \in Indices /\ c.cand < next /\ c.cand \in Nat
        BY DEF PartitionInv, TypeOK, Indices
    <3>2. QED
        BY <1>1, <1>3, <3>1 DEF PartitionInv, ConflictsAreReal, SameTeacherSlot, SameRoomSlot,
                                TeacherKey, RoomKey
  <2>2. \A i \in Indices : i < next' => i \in accepted' \/ \E c \in conflicts' : c.cand = i
      BY <1>1 DEF PartitionInv, ConflictsAreReal, Indices
  <2>3. QED
      BY <1>1, <2>1, <2>2 DEF ConflictsAreReal
<1>8. \A i \in accepted' : i < next'
    BY <1>1, <1>3 DEF Indices
<1>9. \A c \in conflicts' : c.cand < next'
    BY <1>1 DEF PartitionInv, TypeOK, Indices
<1>10. QED
    BY <1>4, <1>6, <1>7, <1>8, <1>9 DEF PartitionInv

(* Recording a candidate as a conflict of the lesson that holds its slot   *)
(* keeps it.                                                               *)
LEMMA RejectKeeps == PartitionInv /\ Reject => PartitionInv'
<1> SUFFICES ASSUME PartitionInv, Reject PROVE PartitionInv'
    OBVIOUS
<1> USE SizeAssumption
<1> DEFINE hits == IF TeacherClashes(next) # {} THEN TeacherClashes(next) ELSE RoomClashes(next)
           reason == IF TeacherClashes(next) # {} THEN "TEACHER" ELSE "ROOM"
<1>1. /\ next \in Indices /\ next' = next + 1 /\ next \in Nat /\ N \in Nat
      /\ accepted' = accepted /\ byTeacher' = byTeacher /\ byRoom' = byRoom
      /\ candidates' = candidates
    BY DEF Reject, Indices
<1>2. \A i \in Indices : TeacherKey(i)' = TeacherKey(i) /\ RoomKey(i)' = RoomKey(i)
    BY <1>1 DEF TeacherKey, RoomKey
<1>3. \A i \in accepted : i \in Indices /\ i < next
    BY DEF PartitionInv, TypeOK
<1>4. PICK p \in hits : conflicts' = conflicts \cup {[cand |-> next, other |-> p[2], type |-> reason]}
    BY DEF Reject
<1>5. /\ p[2] \in accepted
      /\ reason = "TEACHER" => SameTeacherSlot(next, p[2])
      /\ reason = "ROOM" => /\ SameRoomSlot(next, p[2])
                            /\ \A j \in accepted : ~SameTeacherSlot(next, j)
  <2>1. CASE TeacherClashes(next) # {}
    <3>1. p \in byTeacher /\ p[1] = TeacherKey(next)
        BY <2>1 DEF TeacherClashes
    <3>2. PICK i \in accepted : p = <<TeacherKey(i), i>>
        BY <3>1 DEF PartitionInv, TypeOK
    <3>3. QED
        BY <2>1, <3>1, <3>2 DEF SameTeacherSlot
  <2>2. CASE TeacherClashes(next) = {}
    <3>1. p \in byRoom /\ p[1] = RoomKey(next)
        BY <2>2 DEF RoomClashes
    <3>2. PICK i \in accepted : p = <<RoomKey(i), i>>
        BY <3>1 DEF PartitionInv, TypeOK
    <3>3. \A j \in accepted : ~SameTeacherSlot(next, j)
      <4>1. ASSUME NEW j \in accepted PROVE ~SameTeacherSlot(next, j)
        <5>1. <<TeacherKey(j), j>> \in byTeacher
            BY DEF PartitionInv, TypeOK
        <5>2. <<TeacherKey(j), j>>[1] # TeacherKey(next)
            BY <2>2, <5>1 DEF TeacherClashes
        <5>3. QED
            BY <5>2 DEF SameTeacherSlot
      <4>2. QED
          BY <4>1
    <3>4. QED
        BY <2>2, <3>1, <3>2, <3>3 DEF SameRoomSlot
  <2>3. QED
      BY <2>1, <2>2
<1> DEFINE new == [cand |-> next, other |-> p[2], type |-> reason]
<1>6. new \in [cand : Indices, other : Indices, type : {"TEACHER", "ROOM"}]
  <2>1. next \in Indices /\ p[2] \in Indices /\ reason \in {"TEACHER", "ROOM"}
      BY <1>1, <1>3, <1>5
  <2> HIDE DEF reason
  <2>2. QED
      BY <2>1
<1>7. TypeOK'
  <2>1. /\ byTeacher' = {<<TeacherKey(i)', i>> : i \in accepted'}
        /\ byRoom' = {<<RoomKey(i)', i>> : i \in accepted'}
      BY <1>1, <1>2, <1>3 DEF PartitionInv, TypeOK
  <2>2. conflicts' \subseteq [cand : Indices, other : Indices, type : {"TEACHER", "ROOM"}]
    <3> HIDE DEF new
    <3>1. conflicts' = conflicts \cup {new}
        BY <1>4 DEF new
    <3>2. QED
        BY <1>6, <3>1 DEF PartitionInv, TypeOK
  <2>3. QED
      BY <1>1, <2>1, <2>2 DEF PartitionInv, TypeOK, Indices
<1>8. AcceptedFitsConstraints'
    BY <1>1, <1>3 DEF PartitionInv, AcceptedFitsConstraints, SameTeacherSlot, SameRoomSlot,
                      TeacherKey, RoomKey
<1>9. ConflictsAreReal'
  <2>1. ASSUME NEW c \in conflicts \cup {new}
        PROVE  /\ c.other \in accepted /\ c.other < c.cand /\ c.cand \notin accepted
               /\ c.type = "TEACHER" => SameTeacherSlot(c.cand, c.other)
               /\ c.type = "ROOM" => /\ SameRoomSlot(c.cand, c.other)
                                     /\ \A j \in accepted : j < c.cand => ~SameTeacherSlot(c.cand, j)
    <3>1. CASE c \in conflicts
        BY <3>1 DEF PartitionInv, ConflictsAreReal
    <3>2. CASE c = new
      <4>1. c.cand = next /\ c.other = p[2] /\ c.type = reason
          BY <3>2
      <4>2. QED
          BY <1>1, <1>3, <1>5, <4>1, next \notin accepted, p[2] < next DEF Indices
    <3>3. QED
        BY <3>1, <3>2
  <2>3. \A c \in conflicts \cup {new} : c.cand \in Indices /\ c.other \in Indices
      BY <1>6 DEF PartitionInv, TypeOK
  <2>4. \A i \in Indices : i < next' => i \in accepted' \/ \E c \in conflicts' : c.cand = i
    <3>1. ASSUME NEW i \in Indices, i < next'
          PROVE  i \in accepted' \/ \E c \in conflicts' : c.cand = i
      <4>1. CASE i = next
        <5>1. new \in conflicts' /\ new.cand = i
            BY <1>4, <4>1
        <5>2. QED
            BY <5>1
      <4>2. CASE i < next
          BY <1>1, <1>4, <4>2 DEF PartitionInv, ConflictsAreReal
      <4>3. QED
          BY <1>1, <3>1, <4>1, <4>2 DEF Indices
    <3>2. QED
        BY <3>1
  <2>5. QED
      BY <1>1, <1>3, <1>4, <2>1, <2>3, <2>4 DEF ConflictsAreReal, SameTeacherSlot, SameRoomSlot,
                                                TeacherKey, RoomKey
<1>10. (\A i \in accepted' : i < next') /\ (\A c \in conflicts' : c.cand < next')
  <2>1. \A c \in conflicts : c.cand \in Nat /\ c.cand < next
      BY DEF PartitionInv, TypeOK, Indices
  <2>2. new.cand < next'
      BY <1>1
  <2>3. \A c \in conflicts' : c \in conflicts \/ c = new
      BY <1>4
  <2>4. \A c \in conflicts' : c.cand < next'
      BY <1>1, <2>1, <2>2, <2>3
  <2>5. \A i \in accepted' : i < next'
      BY <1>1, <1>3 DEF Indices
  <2>6. QED
      BY <2>4, <2>5
<1>11. QED
    BY <1>7, <1>8, <1>9, <1>10 DEF PartitionInv

(* Every step of the loop keeps the invariant.                             *)
LEMMA PartitionStep == PartitionInv /\ [Next]_vars => PartitionInv'
<1>1. ASSUME PartitionInv, UNCHANGED vars PROVE PartitionInv'
  <2>1. /\ candidates' = candidates /\ next' = next /\ accepted' = accepted
        /\ byTeacher' = byTeacher /\ byRoom' = byRoom /\ conflicts' = conflicts
      BY <1>1 DEF vars
  <2>2. TypeOK'
      BY <1>1, <2>1 DEF PartitionInv, TypeOK, TeacherKey, RoomKey
  <2>3. AcceptedFitsConstraints'
      BY <1>1, <2>1 DEF PartitionInv, AcceptedFitsConstraints, TeacherKey, RoomKey,
                        SameTeacherSlot, SameRoomSlot
  <2>4. ConflictsAreReal'
      BY <1>1, <2>1 DEF PartitionInv, ConflictsAreReal, TeacherKey, RoomKey, SameTeacherSlot,
                        SameRoomSlot
  <2>5. QED
      BY <1>1, <2>1, <2>2, <2>3, <2>4 DEF PartitionInv
<1>2. QED
    BY <1>1, AcceptKeeps, RejectKeeps DEF Next, Finished

(* The loop invariant of the partition in handleCompletion: the accepted   *)
(* lessons fit the constraints, every recorded conflict is a real one, and *)
(* only candidates already looked at are accepted or recorded.             *)
THEOREM PartitionCorrect == Spec => []PartitionInv
BY PartitionInit, PartitionStep, PTL DEF Spec

(* The two maps hold exactly the keys of the accepted lessons.             *)
THEOREM PartitionTypes == Spec => []TypeOK
BY PartitionCorrect, PTL DEF PartitionInv

(* The stored lessons never trip the teacher or the room constraint of     *)
(* TimetableLesson, for any solution.                                      *)
THEOREM StoredLessonsFit == Spec => []AcceptedFitsConstraints
BY PartitionCorrect, PTL DEF PartitionInv

(* Every lesson is stored or recorded, and every record is a real clash    *)
(* with a stored lesson, for any solution.                                 *)
THEOREM RecordedConflictsAreReal == Spec => []ConflictsAreReal
BY PartitionCorrect, PTL DEF PartitionInv

-----------------------------------------------------------------------------
(* Solves: what goes in and what comes back.                               *)

(* The school has the courses it had when the payload was built, with      *)
(* other teachers at most, and what is placed costs no hard score.         *)
SchedulingInv ==
    /\ SchedulingTypeOK /\ StoredPlanIsSound
    /\ "courses" \in DOMAIN school
    /\ problem = NoProblem => school \in Schools /\ result = NoResult
    /\ problem # NoProblem =>
         /\ DOMAIN school.courses = DOMAIN problem.courses
         /\ \A t \in NoLessonsAfter(problem) : t.max \in Nat
         /\ IsFiniteSet(problem.rooms)
         /\ HardScoreZero(placed)

(* A lesson is of a course of its school.                                  *)
LEMMA LessonHasCourse == \A s : \A l \in Lessons(s) : l.course \in DOMAIN s.courses
BY DEF Lessons

(* The smallest of some numbers.                                           *)
LEMMA SmallestNumber ==
    ASSUME NEW S \in SUBSET Nat, S # {}
    PROVE  \E n \in S : \A m \in S : n <= m
<1>1. PICK n \in S : \A m \in S : ~ (<<m, n>> \in OpToRel(<, Nat))
    BY NatLessThanWellFounded, WFMin
<1>2. \A m \in S : ~ (m < n)
    BY <1>1 DEF OpToRel
<1>3. QED
    BY <1>2

(* The strictest template of a class is among those the solver gets.       *)
LEMMA StrictestIsKept ==
    ASSUME NEW s, \A t \in NoLessonsAfter(s) : t.max \in Nat, NEW t \in NoLessonsAfter(s)
    PROVE  \E r \in Restrictions(s) : r.class = t.class /\ r.max <= t.max
<1> DEFINE Same == {q \in NoLessonsAfter(s) : q.class = t.class}
           Ends == {q.max : q \in Same}
<1>1. Ends \subseteq Nat /\ t.max \in Ends
    OBVIOUS
<1>2. PICK n \in Ends : \A m \in Ends : m >= n
    BY <1>1, SmallestNumber
<1>3. PICK r \in Same : r.max = n
    BY <1>2
<1>4. \A q \in NoLessonsAfter(s) : q.class = r.class => r.max <= q.max
    BY <1>1, <1>2, <1>3
<1>5. QED
    BY <1>1, <1>2, <1>3, <1>4 DEF Restrictions

(* What is placed with no hard score honours every template that was in    *)
(* force, not only the strictest.                                          *)
LEMMA PlacedHonours ==
    ASSUME SchedulingInv, problem # NoProblem, NEW l \in DOMAIN placed, NEW t \in problem.templates
    PROVE  /\ t.type = "NO_LESSONS_AFTER" /\ t.class = CourseOf(l).class => placed[l].slot.period <= t.max
           /\ t.type = "BLOCK_TIMESLOT" /\ t.teacher = CourseOf(l).teacher
              => ~ (t.day = placed[l].slot.day /\ t.period = placed[l].slot.period)
<1>1. TeacherAvailability(l, placed) /\ ClassTimeslotRestriction(l, placed)
    BY DEF SchedulingInv, HardScoreZero
<1>2. placed[l].slot.period \in Nat
    BY SchedulingAssumption DEF SchedulingInv, SchedulingTypeOK, Timeslots
<1>3. ASSUME t.type = "NO_LESSONS_AFTER", t.class = CourseOf(l).class
      PROVE  placed[l].slot.period <= t.max
  <2>1. t \in NoLessonsAfter(problem) /\ \A q \in NoLessonsAfter(problem) : q.max \in Nat
      BY <1>3 DEF NoLessonsAfter, SchedulingInv
  <2>2. PICK r \in Restrictions(problem) : r.class = t.class /\ r.max <= t.max
      BY <2>1, StrictestIsKept
  <2>3. placed[l].slot.period <= r.max /\ r.max \in Nat
      BY <1>1, <1>3, <2>1, <2>2 DEF ClassTimeslotRestriction, Restrictions
  <2>4. QED
      BY <1>2, <2>1, <2>2, <2>3
<1>4. ASSUME t.type = "BLOCK_TIMESLOT" PROVE t \in Blocked(problem)
    BY <1>4 DEF Blocked
<1>5. QED
    BY <1>1, <1>3, <1>4 DEF TeacherAvailability

(* handleCompletion drops a lesson only next to one that was given its     *)
(* teacher, and stores what was placed.                                    *)
LEMMA StoreLessonsKeeps ==
    ASSUME SchedulingInv, StoreLessons
    PROVE  SchedulingInv'
<1>1. PICK kept \in SUBSET DOMAIN placed :
        /\ \A l \in DOMAIN placed \ kept : \E m \in kept : Collide(l, m)
        /\ result' = [kept |-> kept, teachers |-> [c \in DOMAIN school.courses |-> school.courses[c].teacher]]
    BY DEF StoreLessons
<1>2. problem # NoProblem /\ UNCHANGED <<school, problem, placed>>
    BY DEF StoreLessons
<1>3. result'.kept = kept /\ \A c \in DOMAIN problem.courses : result'.teachers[c] = school.courses[c].teacher
    BY <1>1, <1>2 DEF SchedulingInv
<1>4. \A l \in DOMAIN placed : l.course \in DOMAIN problem.courses
    BY <1>2, LessonHasCourse DEF SchedulingInv, SchedulingTypeOK
<1>5. DropsAreReassigned'
  <2>1. ASSUME NEW l \in DOMAIN placed \ kept
        PROVE  \E m \in kept :
                  /\ placed[l].slot = placed[m].slot
                  /\ result'.teachers[l.course] = result'.teachers[m.course]
                  /\ Reassigned(l.course)' \/ Reassigned(m.course)'
    <3>1. PICK m \in kept : Collide(l, m)
        BY <1>1
    <3>2. l # m /\ m \in DOMAIN placed /\ l \in DOMAIN placed
        BY <2>1
    <3>3. ~ TeacherConflict(l, m, placed) /\ ~ RoomConflict(l, m, placed)
        BY <1>2, <3>2 DEF SchedulingInv, HardScoreZero
    <3>4. placed[l].slot = placed[m].slot /\ TeacherOf(l) = TeacherOf(m)
        BY <3>1, <3>3 DEF Collide, RoomConflict, SameTeacher
    <3>5. problem.courses[l.course].teacher # problem.courses[m.course].teacher
        BY <3>3, <3>4 DEF TeacherConflict, CourseOf
    <3>6. result'.teachers[l.course] = TeacherOf(l) /\ result'.teachers[m.course] = TeacherOf(m)
        BY <1>3, <1>4, <3>2 DEF TeacherOf
    <3>7. QED
        BY <1>2, <3>4, <3>5, <3>6 DEF Reassigned
  <2>2. QED
      BY <1>2, <1>3, <2>1 DEF DropsAreReassigned
<1>6. TemplatesHonoured'
  <2>1. ASSUME NEW l \in kept, NEW t \in problem.templates
        PROVE  /\ t.type = "NO_LESSONS_AFTER" /\ t.class = CourseOf(l).class => placed[l].slot.period <= t.max
               /\ (/\ t.type = "BLOCK_TIMESLOT" /\ t.teacher = result'.teachers[l.course]
                   /\ ~ Reassigned(l.course)')
                  => <<t.day, t.period>> # <<placed[l].slot.day, placed[l].slot.period>>
    <3>1. l \in DOMAIN placed
        OBVIOUS
    <3>2. ~ Reassigned(l.course)' => result'.teachers[l.course] = CourseOf(l).teacher
        BY <1>2 DEF Reassigned, CourseOf
    <3>3. QED
        BY <1>2, <3>1, <3>2, PlacedHonours
  <2>2. QED
      BY <1>2, <1>3, <2>1 DEF TemplatesHonoured, CourseOf
<1>7. SchedulingTypeOK'
    BY <1>2, <1>3 DEF SchedulingInv, SchedulingTypeOK, Lessons, Timeslots
<1>8. HardScoreZero(placed)'
    BY <1>2 DEF SchedulingInv, HardScoreZero, TeacherAvailability, RoomTypeRequirement, WeekTypeCompatibility,
       ClassTimeslotRestriction, TeacherConflict, RoomConflict, StudentGroupConflict, CourseOf, Blocked,
       Restrictions, NoLessonsAfter
<1>9. QED
    BY <1>2, <1>5, <1>6, <1>7, <1>8 DEF SchedulingInv, StoredPlanIsSound, NoLessonsAfter

(* A lesson that is placed costs no hard score, nor do those before it.    *)
LEMMA PlaceLessonKeeps ==
    ASSUME SchedulingInv, PlaceLesson
    PROVE  SchedulingInv'
<1>1. PICK l \in Unplaced : l = CHOOSE x \in Unplaced : TRUE
    BY DEF PlaceLesson
<1>2. PICK slot \in Timeslots(problem), room \in problem.rooms :
        LET at == [m \in DOMAIN placed \cup {l} |-> IF m = l THEN [slot |-> slot, room |-> room] ELSE placed[m]]
        IN  HardScoreZero(at) /\ placed' = at
    BY <1>1 DEF PlaceLesson
<1>3. problem # NoProblem /\ result = NoResult /\ UNCHANGED <<school, problem, result>>
    BY DEF PlaceLesson
<1>4. /\ DOMAIN placed' = DOMAIN placed \cup {l} /\ placed'[l] = [slot |-> slot, room |-> room]
      /\ \A m \in DOMAIN placed : m # l => placed'[m] = placed[m]
    BY <1>2
<1>5. SchedulingTypeOK'
  <2>1. DOMAIN placed' \subseteq Lessons(problem)
      BY <1>3, <1>4 DEF SchedulingInv, SchedulingTypeOK, Unplaced
  <2>2. ASSUME NEW m \in DOMAIN placed'
        PROVE  placed'[m].slot \in Timeslots(problem) /\ placed'[m].room \in problem.rooms
      BY <1>2, <1>3, <1>4 DEF SchedulingInv, SchedulingTypeOK
  <2>3. Lessons(problem)' = Lessons(problem) /\ Timeslots(problem)' = Timeslots(problem)
      BY <1>3
  <2>4. QED
      BY <1>3, <2>1, <2>2, <2>3 DEF SchedulingTypeOK
<1>6. HardScoreZero(placed)'
  <2>1. PICK at : HardScoreZero(at) /\ placed' = at
      BY <1>2
  <2>2. QED
      BY <1>3, <2>1 DEF HardScoreZero, TeacherAvailability, RoomTypeRequirement, WeekTypeCompatibility,
         ClassTimeslotRestriction, TeacherConflict, RoomConflict, StudentGroupConflict, CourseOf, Blocked,
         Restrictions, NoLessonsAfter
<1>7. QED
    BY <1>3, <1>5, <1>6 DEF SchedulingInv, StoredPlanIsSound, DropsAreReassigned, TemplatesHonoured, NoLessonsAfter

(* Building the payload, and a teacher changed while the sidecar solves.   *)
LEMMA PayloadKeeps ==
    ASSUME SchedulingInv, BuildSolverInput
    PROVE  SchedulingInv'
<1>1. problem = NoProblem /\ problem' = school /\ UNCHANGED <<school, placed, result>>
    BY DEF BuildSolverInput
<1>2. school \in Schools /\ result = NoResult /\ DOMAIN placed = {} /\ placed = [l \in {} |-> {}]
    BY <1>1 DEF SchedulingInv, SchedulingTypeOK
<1>3. HardScoreZero(placed)'
    BY <1>1, <1>2 DEF HardScoreZero
<1>4. SchedulingTypeOK'
    BY <1>1, <1>2 DEF SchedulingTypeOK
<1>5. /\ \A t \in NoLessonsAfter(problem)' : t.max \in Nat
      /\ IsFiniteSet(problem'.rooms)
    BY <1>1, <1>2, SchedulingAssumption DEF NoLessonsAfter
<1>6. StoredPlanIsSound'
    BY <1>1, <1>2 DEF StoredPlanIsSound, DropsAreReassigned, TemplatesHonoured
<1>7. QED
    BY <1>1, <1>2, <1>3, <1>4, <1>5, <1>6 DEF SchedulingInv

(* Only the teacher of a course changes: its courses are the same.         *)
LEMMA ReassignKeeps ==
    ASSUME SchedulingInv, NEW c \in DOMAIN school.courses, NEW t \in Staff, ReassignTeacher(c, t)
    PROVE  SchedulingInv'
<1>1. /\ problem # NoProblem /\ result = NoResult /\ UNCHANGED <<problem, placed, result>>
      /\ school' = [school EXCEPT !.courses[c].teacher = t]
    BY DEF ReassignTeacher
<1>2. "courses" \in DOMAIN school' /\ DOMAIN school'.courses = DOMAIN school.courses
    BY <1>1 DEF SchedulingInv
<1>3. HardScoreZero(placed)'
    BY <1>1 DEF SchedulingInv, HardScoreZero, TeacherAvailability, RoomTypeRequirement, WeekTypeCompatibility,
       ClassTimeslotRestriction, TeacherConflict, RoomConflict, StudentGroupConflict, CourseOf, Blocked,
       Restrictions, NoLessonsAfter
<1>4. SchedulingTypeOK'
    BY <1>1 DEF SchedulingInv, SchedulingTypeOK, Lessons, Timeslots
<1>5. QED
    BY <1>1, <1>2, <1>3, <1>4
    DEF SchedulingInv, StoredPlanIsSound, DropsAreReassigned, TemplatesHonoured, NoLessonsAfter

(* In every state of a solve the invariant holds.                          *)
LEMMA SchedulingInvHolds == SchedulingSpec => []SchedulingInv
<1>1. SchedulingInit => SchedulingInv
  <2> SUFFICES ASSUME SchedulingInit PROVE SchedulingInv
      OBVIOUS
  <2>1. school \in Schools /\ problem = NoProblem /\ placed = [l \in {} |-> {}] /\ result = NoResult
      BY DEF SchedulingInit
  <2>2. "courses" \in DOMAIN school
      BY <2>1, SchedulingAssumption
  <2>3. QED
      BY <2>1, <2>2
      DEF SchedulingInv, SchedulingTypeOK, StoredPlanIsSound, DropsAreReassigned, TemplatesHonoured
<1>2. SchedulingInv /\ [SchedulingNext]_schedulingVars => SchedulingInv'
  <2>1. ASSUME SchedulingInv, UNCHANGED schedulingVars PROVE SchedulingInv'
      BY <2>1 DEF schedulingVars, SchedulingInv, SchedulingTypeOK, StoredPlanIsSound, DropsAreReassigned,
         TemplatesHonoured, HardScoreZero, TeacherAvailability, RoomTypeRequirement, WeekTypeCompatibility,
         ClassTimeslotRestriction, TeacherConflict, RoomConflict, StudentGroupConflict, CourseOf, Reassigned
  <2>2. QED
      BY <2>1, PayloadKeeps, PlaceLessonKeeps, StoreLessonsKeeps, ReassignKeeps DEF SchedulingNext
<1>3. QED
    BY <1>1, <1>2, PTL DEF SchedulingSpec

(* The state of a solve has its type: a plan places lessons of its problem *)
(* and what is stored was placed.                                          *)
THEOREM SchedulingIsTyped == SchedulingSpec => []SchedulingTypeOK
<1>1. SchedulingInv => SchedulingTypeOK
    BY DEF SchedulingInv
<1>2. QED
    BY <1>1, SchedulingInvHolds, PTL

(* For any school: of a plan with hard score 0 handleCompletion drops a    *)
(* lesson only next to one of the same slot when a teacher was changed     *)
(* while the sidecar solved, and what it stores honours every template     *)
(* that was active, for the lessons whose teacher is still the same.       *)
THEOREM StoredPlansAreSound == SchedulingSpec => []StoredPlanIsSound
<1>1. SchedulingInv => StoredPlanIsSound
    BY DEF SchedulingInv
<1>2. QED
    BY <1>1, SchedulingInvHolds, PTL

(* The week in which every hour of a course is looked at, and its lesson   *)
(* of that week.                                                           *)
TheWeek(s, c) == IF s.ab THEN "A" ELSE CHOOSE w \in WeekTypes(s.courses[c], s.ab) : TRUE

LessonOf(s, x) == [course |-> x[1], hour |-> x[2], week |-> TheWeek(s, x[1])]

PlaceOf(x) == placed[LessonOf(problem, x)]

Placed(S) == {l \in DOMAIN placed : l.course \in S}

(* A course that is taught every week has lessons in the week looked at.   *)
LEMMA TaughtThatWeek ==
    ASSUME NEW s, EveryWeek(s), NEW c \in DOMAIN s.courses
    PROVE  TheWeek(s, c) \in WeekTypes(s.courses[c], s.ab)
<1>1. CASE s.ab
  <2>1. Cardinality(WeekTypes(s.courses[c], s.ab)) = 2
      BY <1>1 DEF EveryWeek
  <2>2. WeekTypes(s.courses[c], s.ab) = {"A", "B"}
      BY <1>1, <2>1 DEF WeekTypes
  <2>3. QED
      BY <1>1, <2>2 DEF TheWeek
<1>2. CASE ~ s.ab
  <2>1. WeekTypes(s.courses[c], s.ab) # {}
      BY <1>2, FS_EmptySet DEF WeekTypes
  <2>2. QED
      BY <1>2, <2>1 DEF TheWeek
<1>3. QED
    BY <1>1, <1>2

(* Of a complete plan each hour of a course has its lesson, at a slot of   *)
(* the week looked at.                                                     *)
LEMMA EachHourIsPlaced ==
    ASSUME SchedulingInv, Complete, EveryWeek(problem),
           NEW S \in SUBSET DOMAIN problem.courses, NEW x \in WeeklyHours(problem, S)
    PROVE  /\ x = <<x[1], x[2]>> /\ x[1] \in S
           /\ LessonOf(problem, x) \in Placed(S)
           /\ PlaceOf(x).slot = [day |-> PlaceOf(x).slot.day, period |-> PlaceOf(x).slot.period,
                                 week |-> IF problem.ab THEN "A" ELSE "BOTH"]
           /\ PlaceOf(x).slot.day \in Days /\ PlaceOf(x).slot.period \in Periods
<1>1. PICK c \in S : x \in {c} \X (1 .. problem.courses[c].hours)
    BY DEF WeeklyHours
<1>2. /\ x = <<x[1], x[2]>> /\ x[1] \in S /\ x[1] \in DOMAIN problem.courses
      /\ x[2] \in 1 .. problem.courses[x[1]].hours
    BY <1>1
<1>3. TheWeek(problem, x[1]) \in WeekTypes(problem.courses[x[1]], problem.ab)
    BY <1>2, TaughtThatWeek
<1>4. LessonOf(problem, x) \in Lessons(problem)
    BY <1>2, <1>3 DEF LessonOf, Lessons
<1>5. LessonOf(problem, x) \in Placed(S)
  <2>1. LessonOf(problem, x) \in DOMAIN placed
      BY <1>4 DEF Complete, Unplaced
  <2>2. LessonOf(problem, x).course = x[1]
      BY DEF LessonOf
  <2>3. QED
      BY <1>2, <2>1, <2>2 DEF Placed
<1>6. PlaceOf(x).slot \in Timeslots(problem)
    BY <1>5 DEF Placed, PlaceOf, SchedulingInv, SchedulingTypeOK, Complete
<1>7. PlaceOf(x).slot.week = IF problem.ab THEN "A" ELSE "BOTH"
  <2>1. WeekTypeCompatibility(LessonOf(problem, x), placed)
      BY <1>5 DEF Placed, SchedulingInv, Complete, HardScoreZero
  <2>2. CASE problem.ab
    <3>1. LessonOf(problem, x).week = "A" /\ PlaceOf(x).slot.week \in {"A", "B"}
        BY <1>6, <2>2 DEF LessonOf, TheWeek, Timeslots
    <3>2. QED
        BY <2>1, <2>2, <3>1 DEF WeekTypeCompatibility, PlaceOf
  <2>3. CASE ~ problem.ab
      BY <1>6, <2>3 DEF Timeslots
  <2>4. QED
      BY <2>2, <2>3
<1>8. QED
    BY <1>2, <1>5, <1>6, <1>7 DEF Timeslots

(* Courses of which no two lessons share a slot and a key have no more     *)
(* hours a week than there are keys and hours in the grid.                 *)
LEMMA HoursAreBounded ==
    ASSUME SchedulingInv, Complete, EveryWeek(problem), NEW S \in SUBSET DOMAIN problem.courses,
           NEW K, IsFiniteSet(K), NEW key \in [Placed(S) -> K],
           \A l, m \in Placed(S) : l # m /\ placed[l].slot = placed[m].slot => key[l] # key[m]
    PROVE  Hours(problem, S) \in Nat /\ Hours(problem, S) <= Cardinality(K) * GridSlots
<1> DEFINE Hour == WeeklyHours(problem, S)
           There == K \X (Days \X Periods)
           pos == [x \in Hour |-> <<key[LessonOf(problem, x)],
                                    <<PlaceOf(x).slot.day, PlaceOf(x).slot.period>>>>]
<1>1. pos \in [Hour -> There]
  <2>1. ASSUME NEW x \in Hour
        PROVE  <<key[LessonOf(problem, x)], <<PlaceOf(x).slot.day, PlaceOf(x).slot.period>>>> \in There
    <3>1. /\ LessonOf(problem, x) \in Placed(S)
          /\ PlaceOf(x).slot.day \in Days /\ PlaceOf(x).slot.period \in Periods
        BY EachHourIsPlaced
    <3>2. QED
        BY <3>1
  <2>2. QED
      BY <2>1
<1>2. ASSUME NEW x \in Hour, NEW y \in Hour, pos[x] = pos[y] PROVE x = y
  <2>1. /\ x = <<x[1], x[2]>> /\ LessonOf(problem, x) \in Placed(S)
        /\ PlaceOf(x).slot = [day |-> PlaceOf(x).slot.day, period |-> PlaceOf(x).slot.period,
                              week |-> IF problem.ab THEN "A" ELSE "BOTH"]
      BY EachHourIsPlaced
  <2>2. /\ y = <<y[1], y[2]>> /\ LessonOf(problem, y) \in Placed(S)
        /\ PlaceOf(y).slot = [day |-> PlaceOf(y).slot.day, period |-> PlaceOf(y).slot.period,
                              week |-> IF problem.ab THEN "A" ELSE "BOTH"]
      BY EachHourIsPlaced
  <2>3. /\ key[LessonOf(problem, x)] = key[LessonOf(problem, y)]
        /\ PlaceOf(x).slot.day = PlaceOf(y).slot.day
        /\ PlaceOf(x).slot.period = PlaceOf(y).slot.period
      BY <1>2
  <2>4. PlaceOf(x).slot = PlaceOf(y).slot
      BY <2>1, <2>2, <2>3
  <2>5. LessonOf(problem, x) = LessonOf(problem, y)
      BY <2>1, <2>2, <2>3, <2>4 DEF PlaceOf
  <2>6. QED
      BY <2>1, <2>2, <2>5 DEF LessonOf
<1>3. pos \in Injection(Hour, There)
    BY <1>1, <1>2 DEF Injection, IsInjective
<1>4. /\ IsFiniteSet(Days \X Periods) /\ Cardinality(Days \X Periods) = GridSlots
    BY SchedulingAssumption, FS_Product DEF GridSlots
<1>5. IsFiniteSet(There) /\ Cardinality(There) = Cardinality(K) * GridSlots
    BY <1>4, FS_Product
<1> HIDE DEF Hour, There, pos
<1>6. Cardinality(Hour) \in Nat /\ Cardinality(Hour) <= Cardinality(There)
    BY <1>3, <1>5, FS_Injection, FS_CardinalityType
<1>7. QED
    BY <1>5, <1>6 DEF Hours, Hour

(* Courses that exclude one another have no more hours than the grid.      *)
LEMMA OneAtATime ==
    ASSUME SchedulingInv, Complete, EveryWeek(problem), NEW S \in SUBSET DOMAIN problem.courses,
           \A l, m \in Placed(S) : l # m => placed[l].slot # placed[m].slot
    PROVE  ~ (Hours(problem, S) > GridSlots)
<1> DEFINE key == [l \in Placed(S) |-> 0]
<1>1. key \in [Placed(S) -> {0}] /\ IsFiniteSet({0}) /\ Cardinality({0}) = 1
    BY FS_Singleton
<1>2. Hours(problem, S) \in Nat /\ Hours(problem, S) <= Cardinality({0}) * GridSlots
  <2> HIDE DEF key
  <2>1. QED
      BY <1>1, HoursAreBounded
<1>3. GridSlots \in Nat
    BY SchedulingAssumption, FS_CardinalityType DEF GridSlots
<1>4. QED
    BY <1>1, <1>2, <1>3

(* A class's whole-class courses and those of one group are taught one at  *)
(* a time, and so are a teacher's.                                         *)
LEMMA NoClassOrTeacherOverloaded ==
    ASSUME SchedulingInv, Complete, EveryWeek(problem)
    PROVE  ~ ClassOverloaded(problem) /\ ~ TeacherOverloaded(problem)
<1>1. \A l, m \in DOMAIN placed : l # m => /\ ~ TeacherConflict(l, m, placed)
                                          /\ ~ StudentGroupConflict(l, m, placed)
    BY DEF SchedulingInv, Complete, HardScoreZero
<1>2. ASSUME NEW d \in DOMAIN problem.courses
      PROVE  ~ (Hours(problem, CoursesWith(problem, LAMBDA c :
                   /\ c.class = problem.courses[d].class
                   /\ c.group \in {NoGroup, problem.courses[d].group})) > GridSlots)
  <2> DEFINE S == {c \in DOMAIN problem.courses :
                      /\ problem.courses[c].class = problem.courses[d].class
                      /\ problem.courses[c].group \in {NoGroup, problem.courses[d].group}}
  <2>1. ASSUME NEW l \in Placed(S), NEW m \in Placed(S), l # m
        PROVE  placed[l].slot # placed[m].slot
      BY <1>1, <2>1 DEF Placed, StudentGroupConflict, CourseOf
  <2>2. ~ (Hours(problem, S) > GridSlots)
    <3> HIDE DEF S
    <3>1. S \subseteq DOMAIN problem.courses
        BY DEF S
    <3>2. QED
        BY <2>1, <3>1, OneAtATime
  <2>3. QED
      BY <2>2 DEF CoursesWith
<1>3. ASSUME NEW t \in Staff
      PROVE  ~ (Hours(problem, CoursesWith(problem, LAMBDA c : c.teacher = t)) > GridSlots)
  <2> DEFINE S == {c \in DOMAIN problem.courses : problem.courses[c].teacher = t}
  <2>1. ASSUME NEW l \in Placed(S), NEW m \in Placed(S), l # m
        PROVE  placed[l].slot # placed[m].slot
      BY <1>1, <2>1 DEF Placed, TeacherConflict, CourseOf
  <2>2. ~ (Hours(problem, S) > GridSlots)
    <3> HIDE DEF S
    <3>1. S \subseteq DOMAIN problem.courses
        BY DEF S
    <3>2. QED
        BY <2>1, <3>1, OneAtATime
  <2>3. QED
      BY <2>2 DEF CoursesWith
<1>4. QED
    BY <1>2, <1>3 DEF ClassOverloaded, TeacherOverloaded

(* A room holds one lesson at a time, and a lesson that asks for a type is *)
(* in a room of it.                                                        *)
LEMMA NoRoomsOverloaded ==
    ASSUME SchedulingInv, Complete, EveryWeek(problem)
    PROVE  ~ RoomCapacity(problem) /\ ~ RoomTypeCapacity(problem)
<1>1. /\ \A l, m \in DOMAIN placed : l # m => ~ RoomConflict(l, m, placed)
      /\ \A l \in DOMAIN placed : RoomTypeRequirement(l, placed) /\ placed[l].room \in problem.rooms
      /\ IsFiniteSet(problem.rooms)
    BY DEF SchedulingInv, SchedulingTypeOK, Complete, HardScoreZero
<1>2. GridSlots \in Nat
    BY SchedulingAssumption, FS_CardinalityType DEF GridSlots
<1>3. ASSUME NEW S \in SUBSET DOMAIN problem.courses, NEW K \in SUBSET problem.rooms,
             \A l \in Placed(S) : placed[l].room \in K
      PROVE  ~ (Hours(problem, S) > Cardinality(K) * GridSlots)
  <2> DEFINE key == [l \in Placed(S) |-> placed[l].room]
  <2>1. IsFiniteSet(K) /\ Cardinality(K) \in Nat
      BY <1>1, FS_Subset, FS_CardinalityType
  <2>2. key \in [Placed(S) -> K]
      BY <1>3
  <2>3. ASSUME NEW l \in Placed(S), NEW m \in Placed(S), l # m, placed[l].slot = placed[m].slot
        PROVE  key[l] # key[m]
      BY <1>1, <2>3 DEF Placed, RoomConflict
  <2>4. Hours(problem, S) \in Nat /\ Hours(problem, S) <= Cardinality(K) * GridSlots
    <3> HIDE DEF key
    <3>1. QED
        BY <2>1, <2>2, <2>3, HoursAreBounded
  <2>5. Cardinality(K) * GridSlots \in Nat
      BY <1>2, <2>1
  <2>6. QED
      BY <2>4, <2>5
<1>4. ~ RoomCapacity(problem)
  <2>1. \A l \in Placed(DOMAIN problem.courses) : placed[l].room \in problem.rooms
      BY <1>1 DEF Placed
  <2>2. QED
      BY <1>3, <2>1 DEF RoomCapacity
<1>5. ASSUME NEW d \in DOMAIN problem.courses, problem.courses[d].type # NoType
      PROVE  ~ (Hours(problem, CoursesWith(problem, LAMBDA c : c.type = problem.courses[d].type))
                  > Cardinality({r \in problem.rooms : r.type = problem.courses[d].type}) * GridSlots)
  <2> DEFINE S == {c \in DOMAIN problem.courses : problem.courses[c].type = problem.courses[d].type}
             K == {r \in problem.rooms : r.type = problem.courses[d].type}
  <2>1. \A l \in Placed(S) : placed[l].room \in K
      BY <1>1, <1>5 DEF Placed, RoomTypeRequirement, CourseOf
  <2>2. ~ (Hours(problem, S) > Cardinality(K) * GridSlots)
    <3>1. S \subseteq DOMAIN problem.courses /\ K \subseteq problem.rooms
        OBVIOUS
    <3> HIDE DEF S, K
    <3>2. QED
        BY <1>3, <2>1, <3>1
  <2>3. QED
      BY <2>2 DEF CoursesWith
<1>6. QED
    BY <1>4, <1>5 DEF RoomTypeCapacity

(* getFeasibility raises no error for data that has a complete plan, of    *)
(* any size, as long as each subject of an A/B school is taught in both    *)
(* weeks: what it compares are necessary conditions of a plan with hard    *)
(* score 0 (timetable-diagnostics.service.ts).                             *)
THEOREM NoFalseErrors == SchedulingSpec => []ErrorsAreGenuine
<1>1. ASSUME SchedulingInv, Complete, EveryWeek(problem) PROVE Feasible(problem)
  <2>1. PICK l \in DOMAIN placed : TRUE
      BY <1>1 DEF Complete
  <2>2. placed[l].slot.day \in Days /\ placed[l].slot.period \in Periods /\ problem.rooms # {}
      BY <1>1, <2>1 DEF SchedulingInv, SchedulingTypeOK, Complete, Timeslots
  <2>3. GridSlots > 0
    <3>1. /\ Cardinality(Days) \in Nat /\ Cardinality(Days) # 0
          /\ Cardinality(Periods) \in Nat /\ Cardinality(Periods) # 0
        BY <2>2, SchedulingAssumption, FS_CardinalityType, FS_EmptySet
    <3>2. QED
        BY <3>1 DEF GridSlots
  <2>4. QED
      BY <1>1, <2>2, <2>3, NoClassOrTeacherOverloaded, NoRoomsOverloaded DEF Feasible
<1>2. SchedulingInv => ErrorsAreGenuine
    BY <1>1 DEF ErrorsAreGenuine
<1>3. QED
    BY <1>2, SchedulingInvHolds, PTL

-----------------------------------------------------------------------------
(* The Stundentafel of a class.                                            *)

IsStandard(r) ==
    r.custom \/ \E t \in Templates \cup {OwnTemplate} : r.subject \in DOMAIN t /\ r.hours = t[r.subject]

RowsOK ==
    /\ created \in 0 .. MaxRows
    /\ rows \subseteq Row
    /\ \A r \in rows : r.id <= created /\ IsStandard(r)
    /\ \A r, q \in rows : r.id = q.id => r = q

(* A subject has one row, unless it was doubled.                           *)
OneEach == \A r, q \in rows : r.subject = q.subject /\ r.subject \notin aux_doubled => r = q

(* What a transaction has read are rows there were, and an id stays with   *)
(* its subject.                                                            *)
SeenOK(e) ==
    \A r \in editing[e].seen : r.id <= created /\ \A q \in rows : q.id = r.id => q.subject = r.subject

(* A call that met nobody finds what it has seen: the template's subjects  *)
(* it still has to write have no row, and every row is one it has read,    *)
(* but for the subjects added behind its back.                             *)
Undisturbed(e) ==
    /\ Others(e) = {}
    /\ editing[e].op = "apply" => \A r \in rows : r.subject \in editing[e].todo => r.subject \in aux_doubled
    /\ editing[e].op # "apply" => \A r \in rows : r.subject \in aux_doubled \/ r.id \in Ids(editing[e].seen)

EditOK(e) ==
    editing[e] # NoEdit =>
        /\ editing[e] \in Edit
        /\ editing[e].op = "apply" => editing[e].todo # {} /\ editing[e].todo \subseteq DOMAIN editing[e].template
        /\ editing[e].op # "apply" => SeenOK(e)
        /\ e \notin aux_met => Undisturbed(e)

CurriculumInv ==
    /\ RowsOK /\ OneEach
    /\ editing = [e \in Editors |-> editing[e]]
    /\ \A e \in Editors : EditOK(e)

(* What is in a call of each kind.                                         *)
LEMMA EditFields ==
    ASSUME NEW x \in Edit
    PROVE  /\ x.op \in {"apply", "update", "reset"}
           /\ x.op = "apply" => x \in [op : {"apply"}, template : Templates, todo : SUBSET Subjects]
           /\ x.op = "update" => x.seen \in SUBSET Row /\ x.wanted \in Wishes
           /\ x.op = "reset" => x.seen \in SUBSET Row /\ x.template \in Templates
BY DEF Edit

(* A request is a finite list of subjects and hours.                       *)
LEMMA WishFields ==
    ASSUME NEW wanted \in Wishes
    PROVE  /\ IsFiniteSet(DOMAIN wanted) /\ DOMAIN wanted \subseteq Nat
           /\ \A i \in DOMAIN wanted : wanted[i].subject \in Subjects /\ wanted[i].hours \in Nat
<1>1. PICK n \in 0 .. MaxWishes : wanted \in [1 .. n -> [subject : Subjects, hours : HourChoices]]
    BY DEF Wishes
<1>2. n \in Nat /\ DOMAIN wanted = 1 .. n
    BY <1>1, CurriculumAssumption
<1>3. IsFiniteSet(1 .. n)
    BY <1>2, FS_Interval
<1>4. ASSUME NEW i \in DOMAIN wanted PROVE wanted[i].subject \in Subjects /\ wanted[i].hours \in Nat
  <2>1. wanted[i] \in [subject : Subjects, hours : HourChoices]
      BY <1>1, <1>2
  <2>2. QED
      BY <2>1, CurriculumAssumption
<1>5. QED
    BY <1>2, <1>3, <1>4

(* The numbers of new rows: there are enough of them.                      *)
LEMMA NewNumbers ==
    ASSUME NEW New, IsFiniteSet(New), NEW n \in Nat
    PROVE  /\ Cardinality(New) \in Nat
           /\ \E f \in [New -> (n + 1) .. (n + Cardinality(New))] : \A s, t \in New : f[s] = f[t] => s = t
<1>2. Cardinality(New) \in Nat /\ ExistsBijection(1 .. Cardinality(New), New)
    BY FS_CardinalityType
<1>3. PICK g \in [1 .. Cardinality(New) -> New] :
        /\ \A i, j \in 1 .. Cardinality(New) : g[i] = g[j] => i = j
        /\ \A s \in New : \E i \in 1 .. Cardinality(New) : g[i] = s
    BY <1>2 DEF ExistsBijection, Bijection, Injection, Surjection, IsInjective
<1> DEFINE f == [s \in New |-> n + (CHOOSE i \in 1 .. Cardinality(New) : g[i] = s)]
<1>4. \A s \in New : /\ g[CHOOSE i \in 1 .. Cardinality(New) : g[i] = s] = s
                     /\ (CHOOSE i \in 1 .. Cardinality(New) : g[i] = s) \in 1 .. Cardinality(New)
    BY <1>3
<1>5. f \in [New -> (n + 1) .. (n + Cardinality(New))]
  <2>1. ASSUME NEW s \in New PROVE f[s] \in (n + 1) .. (n + Cardinality(New))
      BY <1>2, <1>4
  <2>2. QED
      BY <2>1
<1>6. \A s, t \in New : f[s] = f[t] => s = t
  <2>1. ASSUME NEW s \in New, NEW t \in New, f[s] = f[t] PROVE s = t
    <3>1. (CHOOSE i \in 1 .. Cardinality(New) : g[i] = s) = (CHOOSE i \in 1 .. Cardinality(New) : g[i] = t)
        BY <1>2, <1>4, <2>1
    <3>2. QED
        BY <1>4, <3>1
  <2>2. QED
      BY <2>1
<1>7. QED
    BY <1>2, <1>5, <1>6

(* What is kept are rows of the class as they were or with other hours.    *)
KeptFrom(R) ==
    /\ R \subseteq Row
    /\ \A r \in R : IsStandard(r) /\ \E q \in rows : q.id = r.id /\ q.subject = r.subject
    /\ \A r, q \in R : r.id = q.id => r = q

(* New rows are customised or have a template's hours.                     *)
NewOK(New) ==
    /\ IsFiniteSet(DOMAIN New)
    /\ \A i \in DOMAIN New : /\ New[i].subject \in Subjects /\ New[i].hours \in Nat
                             /\ New[i].custom \in BOOLEAN /\ IsStandard(New[i])

NamedIn(New) == {New[i].subject : i \in DOMAIN New}

(* Without a meeting the subjects that get a row have none, unless one was *)
(* added by hand.                                                          *)
Vacant(e, R, New) == e \in aux_met \/ \A r \in R : r.subject \in NamedIn(New) => r.subject \in aux_doubled

(* Rows that are kept, and new ones: they have ids of their own, and one   *)
(* row a subject if none of these had one and none is named twice.         *)
LEMMA WriteKeepsRows ==
    ASSUME CurriculumInv, NEW e \in Editors, NEW R, KeptFrom(R), NEW New, NewOK(New),
           Vacant(e, R, New), Write(e, R, New)
    PROVE  /\ RowsOK' /\ OneEach' /\ created <= created' /\ aux_doubled \subseteq aux_doubled'
           /\ \A r \in rows' : \/ \E q \in rows : q.id = r.id /\ q.subject = r.subject
                               \/ r.id > created /\ r.subject \in NamedIn(New)
<1> DEFINE D == DOMAIN New
           size == Cardinality(D)
<1>1. PICK id \in [D -> (created + 1) .. (created + size)] :
        /\ \A i, j \in D : id[i] = id[j] => i = j
        /\ rows' = R \cup {[id |-> id[i], subject |-> New[i].subject, hours |-> New[i].hours,
                            custom |-> New[i].custom] : i \in D}
  <2>1. created \in Nat
      BY CurriculumAssumption DEF CurriculumInv, RowsOK
  <2> DEFINE new == CHOOSE f \in [D -> (created + 1) .. (created + size)] : \A i, j \in D : f[i] = f[j] => i = j
  <2>2. /\ new \in [D -> (created + 1) .. (created + size)]
        /\ \A i, j \in D : new[i] = new[j] => i = j
    <3>1. \E f \in [D -> (created + 1) .. (created + size)] : \A i, j \in D : f[i] = f[j] => i = j
        BY <2>1, NewNumbers DEF NewOK
    <3>2. QED
        BY <3>1, Zenon
  <2>3. rows' = R \cup {[id |-> new[i], subject |-> New[i].subject, hours |-> New[i].hours,
                         custom |-> New[i].custom] : i \in D}
      BY Zenon DEF Write
  <2> HIDE DEF new
  <2>4. QED
      BY <2>2, <2>3
<1>2. /\ created \in Nat /\ size \in Nat /\ MaxRows \in Nat
      /\ created' = created + size /\ created' <= MaxRows
  <2>1. created \in Nat
      BY CurriculumAssumption DEF CurriculumInv, RowsOK
  <2>2. QED
      BY <2>1, NewNumbers, CurriculumAssumption DEF Write, NewOK
<1>3. /\ aux_doubled \subseteq aux_doubled'
      /\ e \in aux_met => NamedIn(New) \subseteq aux_doubled'
      /\ \A i, j \in D : i # j /\ New[i].subject = New[j].subject => New[i].subject \in aux_doubled'
  <2> DEFINE repeated == {i \in D : \E j \in D \ {i} : New[j].subject = New[i].subject}
             twice == IF e \in aux_met THEN D ELSE repeated
  <2>1. aux_doubled' = aux_doubled \cup {New[i].subject : i \in twice}
      BY DEF Write
  <2>2. \A i, j \in D : i # j /\ New[i].subject = New[j].subject => i \in twice
      OBVIOUS
  <2>3. e \in aux_met => twice = D
      OBVIOUS
  <2> HIDE DEF twice
  <2>4. QED
      BY <2>1, <2>2, <2>3 DEF NamedIn
<1>4. \A r \in R : r \in Row /\ r.id <= created /\ r.id \in Nat
    BY DEF KeptFrom, CurriculumInv, RowsOK, Row
<1>5. ASSUME NEW r \in rows', r \notin R
      PROVE  /\ r \in Row /\ r.id \in (created + 1) .. created' /\ IsStandard(r)
             /\ r.subject \in NamedIn(New)
             /\ \E i \in D : r = [id |-> id[i], subject |-> New[i].subject, hours |-> New[i].hours,
                                  custom |-> New[i].custom]
  <2>1. PICK i \in D : r = [id |-> id[i], subject |-> New[i].subject, hours |-> New[i].hours,
                            custom |-> New[i].custom]
      BY <1>1, <1>5
  <2>2. id[i] \in (created + 1) .. created' /\ id[i] \in 1 .. MaxRows
      BY <1>1, <1>2
  <2>3. r \in Row
      BY <2>1, <2>2 DEF Row, NewOK
  <2>4. IsStandard(r)
      BY <2>1 DEF IsStandard, NewOK
  <2>5. QED
      BY <2>1, <2>2, <2>3, <2>4 DEF NamedIn
<1>6. RowsOK'
  <2>1. created' \in 0 .. MaxRows
      BY <1>2
  <2>2. ASSUME NEW r \in rows' PROVE r \in Row /\ r.id <= created' /\ IsStandard(r)
    <3>1. CASE r \in R
        BY <1>2, <1>4, <3>1 DEF KeptFrom
    <3>2. CASE r \notin R
        BY <1>2, <1>5, <3>2
    <3>3. QED
        BY <3>1, <3>2
  <2>3. ASSUME NEW r \in rows', NEW q \in rows', r.id = q.id PROVE r = q
    <3>1. CASE r \in R /\ q \in R
        BY <2>3, <3>1 DEF KeptFrom
    <3>2. CASE r \in R /\ q \notin R
        BY <1>2, <1>4, <1>5, <2>3, <3>2
    <3>3. CASE r \notin R /\ q \in R
        BY <1>2, <1>4, <1>5, <2>3, <3>3
    <3>4. CASE r \notin R /\ q \notin R
      <4>1. PICK i \in D, j \in D :
              /\ r = [id |-> id[i], subject |-> New[i].subject, hours |-> New[i].hours, custom |-> New[i].custom]
              /\ q = [id |-> id[j], subject |-> New[j].subject, hours |-> New[j].hours, custom |-> New[j].custom]
          BY <1>5, <3>4
      <4>2. i = j
          BY <1>1, <2>3, <4>1
      <4>3. QED
          BY <4>1, <4>2
    <3>5. QED
        BY <3>1, <3>2, <3>3, <3>4
  <2>4. QED
      BY <2>1, <2>2, <2>3 DEF RowsOK, IsStandard
<1>7. OneEach'
  <2>1. ASSUME NEW r \in rows', NEW q \in rows', r.subject = q.subject, r.subject \notin aux_doubled'
        PROVE  r = q
    <3>1. CASE r \in R /\ q \in R
      <4>1. PICK x \in rows, y \in rows : x.id = r.id /\ x.subject = r.subject /\ y.id = q.id /\ y.subject = q.subject
          BY <3>1 DEF KeptFrom
      <4>2. x = y
          BY <1>3, <2>1, <4>1 DEF CurriculumInv, OneEach
      <4>3. QED
          BY <3>1, <4>1, <4>2 DEF KeptFrom
    <3>2. CASE (r \in R) # (q \in R)
        BY <1>3, <1>5, <2>1, <3>2 DEF Vacant
    <3>3. CASE r \notin R /\ q \notin R
      <4>1. PICK i \in D, j \in D :
              /\ r = [id |-> id[i], subject |-> New[i].subject, hours |-> New[i].hours, custom |-> New[i].custom]
              /\ q = [id |-> id[j], subject |-> New[j].subject, hours |-> New[j].hours, custom |-> New[j].custom]
          BY <1>5, <3>3
      <4>2. i = j
          BY <1>3, <2>1, <4>1
      <4>3. QED
          BY <4>1, <4>2
    <3>4. QED
        BY <3>1, <3>2, <3>3
  <2>2. QED
      BY <2>1 DEF OneEach
<1>8. QED
    BY <1>2, <1>3, <1>4, <1>5, <1>6, <1>7 DEF KeptFrom

(* Rows keep their subject and its number, or are new.                     *)
RowsGoOn ==
    /\ created \in Nat /\ created' \in Nat /\ created <= created'
    /\ aux_doubled \subseteq aux_doubled'
    /\ \A r \in rows' : (\E q \in rows : q.id = r.id /\ q.subject = r.subject) \/ (r.id \in Nat /\ r.id > created)

(* A call that is under way beside another one has met it.                 *)
LEMMA OthersKeep ==
    ASSUME CurriculumInv, NEW e \in Editors, NEW d \in Editors, d # e, editing[e] # NoEdit, RowsGoOn,
           editing'[d] = editing[d], aux_met \ {e} \subseteq aux_met'
    PROVE  EditOK(d)'
<1> SUFFICES ASSUME editing'[d] # NoEdit PROVE EditOK(d)'
    BY DEF EditOK
<1>1. EditOK(d) /\ editing[d] # NoEdit
    BY DEF CurriculumInv
<1>2. d \in aux_met /\ d \in aux_met'
    BY <1>1 DEF EditOK, Undisturbed, Others
<1>3. ASSUME editing[d].op # "apply" PROVE SeenOK(d)'
  <2>1. ASSUME NEW r \in editing[d].seen
        PROVE  r.id <= created' /\ \A q \in rows' : q.id = r.id => q.subject = r.subject
    <3>1. r.id <= created /\ \A q \in rows : q.id = r.id => q.subject = r.subject
        BY <1>1, <1>3 DEF EditOK, SeenOK
    <3>2. r.id \in Nat
        BY <1>1, <1>3, EditFields DEF EditOK, Row
    <3>3. QED
        BY <3>1, <3>2 DEF RowsGoOn
  <2>2. QED
      BY <2>1 DEF SeenOK
<1>4. QED
    BY <1>1, <1>2, <1>3 DEF EditOK

(* A call begins: with another one under way, both have met.               *)
LEMMA BeginKeeps ==
    ASSUME CurriculumInv, NEW e \in Editors, NEW call \in Edit, NEW unchecked \in BOOLEAN,
           call.op = "apply" =>
               call.todo # {} /\ call.todo \subseteq DOMAIN call.template /\ (unchecked \/ rows = {}),
           call.op # "apply" => call.seen = rows,
           Begin(e, call, unchecked)
    PROVE  CurriculumInv'
<1>1. /\ editing' = [editing EXCEPT ![e] = call] /\ editing[e] = NoEdit
      /\ UNCHANGED <<rows, created, aux_doubled>>
      /\ aux_met \cup Others(e) \subseteq aux_met' /\ (Others(e) # {} \/ unchecked => e \in aux_met')
    BY DEF Begin
<1>2. editing' = [d \in Editors |-> editing'[d]] /\ editing'[e] = call
      /\ \A d \in Editors : d # e => editing'[d] = editing[d]
    BY <1>1 DEF CurriculumInv
<1>3. RowsOK' /\ OneEach'
    BY <1>1 DEF CurriculumInv, RowsOK, OneEach, IsStandard
<1>4. ASSUME NEW d \in Editors, d # e PROVE EditOK(d)'
  <2>1. EditOK(d) /\ editing'[d] = editing[d]
      BY <1>2, <1>4 DEF CurriculumInv
  <2>2. editing[d] # NoEdit => d \in aux_met'
      BY <1>1, <1>4 DEF Others
  <2>3. editing[d] # NoEdit /\ editing[d].op # "apply" => SeenOK(d)'
      BY <1>1, <2>1 DEF EditOK, SeenOK
  <2>4. QED
      BY <2>1, <2>2, <2>3 DEF EditOK
<1>5. EditOK(e)'
  <2>1. call.op # "apply" => SeenOK(e)'
      BY <1>1, <1>2 DEF SeenOK, CurriculumInv, RowsOK
  <2>2. ASSUME e \notin aux_met' PROVE Undisturbed(e)'
    <3>1. Others(e)' = {}
        BY <1>1, <1>2, <2>2 DEF Others
    <3>2. QED
        BY <1>1, <1>2, <2>2, <3>1 DEF Undisturbed, Ids
  <2>3. QED
      BY <1>2, <2>1, <2>2 DEF EditOK
<1>6. QED
    BY <1>2, <1>3, <1>4, <1>5 DEF CurriculumInv

(* Who is to apply the template, update the rows or reset them.            *)
LEMMA BeginningsKeep ==
    ASSUME CurriculumInv, NEW e \in Editors,
           \/ \E t \in Templates : CheckEmpty(e, t) \/ ApplyUnchecked(e, t) \/ BeginReset(e, t)
           \/ \E wanted \in Wishes : BeginUpdate(e, wanted)
    PROVE  CurriculumInv'
<1>1. rows \in SUBSET Row
    BY DEF CurriculumInv, RowsOK
<1>2. ASSUME NEW t \in Templates, CheckEmpty(e, t) \/ ApplyUnchecked(e, t) PROVE CurriculumInv'
  <2>1. /\ Applying(t) \in Edit /\ Applying(t).op = "apply" /\ Applying(t).todo # {}
        /\ Applying(t).todo \subseteq DOMAIN Applying(t).template
      BY CurriculumAssumption DEF Applying, Edit, IsTemplate
  <2>2. QED
      BY <1>2, <2>1, BeginKeeps DEF CheckEmpty, ApplyUnchecked
<1>3. ASSUME NEW t \in Templates, BeginReset(e, t) PROVE CurriculumInv'
  <2>1. [op |-> "reset", template |-> t, seen |-> rows] \in Edit
      BY <1>1 DEF Edit
  <2>2. QED
      BY <1>3, <2>1, BeginKeeps DEF BeginReset
<1>4. ASSUME NEW wanted \in Wishes, BeginUpdate(e, wanted) PROVE CurriculumInv'
  <2>1. [op |-> "update", seen |-> rows, wanted |-> wanted] \in Edit
      BY <1>1 DEF Edit
  <2>2. QED
      BY <1>4, <2>1, BeginKeeps DEF BeginUpdate
<1>5. QED
    BY <1>2, <1>3, <1>4

(* A call that has ended, with rows that go on.                            *)
LEMMA EndKeeps ==
    ASSUME CurriculumInv, NEW e \in Editors, editing[e] # NoEdit, RowsOK', OneEach', RowsGoOn, End(e)
    PROVE  CurriculumInv'
<1>1. editing' = [editing EXCEPT ![e] = NoEdit] /\ aux_met' = aux_met \ {e}
    BY DEF End
<1>2. editing' = [d \in Editors |-> editing'[d]] /\ editing'[e] = NoEdit
      /\ \A d \in Editors : d # e => editing'[d] = editing[d]
    BY <1>1 DEF CurriculumInv
<1>3. \A d \in Editors : EditOK(d)'
  <2>1. ASSUME NEW d \in Editors PROVE EditOK(d)'
    <3>1. CASE d = e
        BY <1>2, <3>1 DEF EditOK
    <3>2. CASE d # e
        BY <1>1, <1>2, <3>2, OthersKeep
    <3>3. QED
        BY <3>1, <3>2
  <2>2. QED
      BY <2>1
<1>4. QED
    BY <1>2, <1>3 DEF CurriculumInv

(* Rows as a template wants them.                                          *)
LEMMA StandardIsOK ==
    ASSUME NEW t \in Templates, NEW S, S \subseteq DOMAIN t
    PROVE  NewOK(Standard(t, S)) /\ NamedIn(Standard(t, S)) = S
<1>1. IsFiniteSet(S)
    BY FS_Subset, CurriculumAssumption DEF IsTemplate
<1>2. DOMAIN Standard(t, S) = S
      /\ \A s \in S : Standard(t, S)[s] = [subject |-> s, hours |-> t[s], custom |-> FALSE]
    BY DEF Standard
<1>3. \A s \in S : s \in Subjects /\ t[s] \in Nat
    BY CurriculumAssumption DEF IsTemplate
<1>4. PICK New : /\ New = Standard(t, S) /\ DOMAIN New = S
                 /\ \A s \in S : New[s].subject = s /\ New[s].hours = t[s] /\ New[s].custom = FALSE
    BY <1>2
<1>5. \A s \in S : IsStandard(New[s])
    BY <1>4 DEF IsStandard
<1>6. NewOK(New)
    BY <1>1, <1>3, <1>4, <1>5 DEF NewOK
<1>7. NamedIn(New) = S
    BY <1>4 DEF NamedIn
<1>8. QED
    BY <1>4, <1>6, <1>7

(* applyTemplate writes the next subject.                                  *)
LEMMA ApplyNextKeeps ==
    ASSUME CurriculumInv, NEW e \in Editors, ApplyNext(e)
    PROVE  CurriculumInv'
<1>1. editing[e] # NoEdit /\ editing[e].op = "apply" /\ EditOK(e)
    BY DEF ApplyNext, CurriculumInv
<1> DEFINE t == editing[e].template
<1>2. /\ editing[e].todo # {} /\ editing[e].todo \subseteq DOMAIN t /\ editing[e] \in Edit
      /\ editing[e] \in [op : {"apply"}, template : Templates, todo : SUBSET Subjects]
    BY <1>1, EditFields DEF EditOK
<1>3. PICK s \in editing[e].todo :
        /\ Write(e, rows, Standard(t, {s}))
        /\ IF editing[e].todo \ {s} = {} THEN End(e)
           ELSE editing' = [editing EXCEPT ![e].todo = editing[e].todo \ {s}] /\ UNCHANGED aux_met
    BY <1>2 DEF ApplyNext
<1>4. t \in Templates /\ {s} \subseteq DOMAIN t
    BY <1>2
<1>5. KeptFrom(rows)
    BY DEF KeptFrom, CurriculumInv, RowsOK
<1>6. PICK New : New = Standard(t, {s}) /\ NewOK(New) /\ NamedIn(New) = {s}
    BY <1>4, StandardIsOK
<1>7. Vacant(e, rows, New)
    BY <1>1, <1>3, <1>6 DEF EditOK, Undisturbed, Vacant
<1>8. /\ RowsOK' /\ OneEach' /\ created <= created' /\ aux_doubled \subseteq aux_doubled'
      /\ \A r \in rows' : \/ \E q \in rows : q.id = r.id /\ q.subject = r.subject
                          \/ r.id > created /\ r.subject \in {s}
    BY <1>3, <1>5, <1>6, <1>7, WriteKeepsRows, Zenon
<1>9. RowsGoOn
    BY <1>8, CurriculumAssumption DEF RowsGoOn, RowsOK, CurriculumInv, Row
<1>10. ASSUME editing[e].todo \ {s} # {} PROVE CurriculumInv'
  <2>1. /\ editing' = [editing EXCEPT ![e].todo = editing[e].todo \ {s}] /\ UNCHANGED aux_met
      BY <1>3, <1>10
  <2>2. editing' = [d \in Editors |-> editing'[d]] /\ \A d \in Editors : d # e => editing'[d] = editing[d]
      BY <2>1 DEF CurriculumInv
  <2>3. editing'[e] = [op |-> "apply", template |-> t, todo |-> editing[e].todo \ {s}]
    <3>1. editing[e] = [op |-> "apply", template |-> t, todo |-> editing[e].todo]
        BY <1>2
    <3>2. QED
        BY <2>1, <3>1 DEF CurriculumInv
  <2>4. editing'[e] \in Edit
      BY <1>2, <2>3 DEF Edit
  <2>5. ASSUME e \notin aux_met PROVE Undisturbed(e)'
    <3>1. Others(e)' = {}
        BY <1>1, <2>2, <2>5 DEF EditOK, Undisturbed, Others
    <3>2. \A r \in rows' : r.subject \in editing'[e].todo => r.subject \in aux_doubled'
        BY <1>1, <1>8, <2>3, <2>5 DEF EditOK, Undisturbed
    <3>3. QED
        BY <2>3, <3>1, <3>2 DEF Undisturbed
  <2>6. EditOK(e)'
      BY <1>2, <1>10, <2>1, <2>3, <2>4, <2>5 DEF EditOK
  <2>7. \A d \in Editors : d # e => EditOK(d)'
      BY <1>1, <1>9, <2>1, <2>2, OthersKeep
  <2>8. QED
      BY <1>8, <2>2, <2>6, <2>7 DEF CurriculumInv
<1>11. QED
    BY <1>1, <1>3, <1>8, <1>9, <1>10, EndKeeps

(* resetStundentafel: the rows it has seen go, and the template's come.    *)
LEMMA CommitResetKeeps ==
    ASSUME CurriculumInv, NEW e \in Editors, CommitReset(e)
    PROVE  CurriculumInv'
<1> DEFINE R == {r \in rows : r.id \notin Ids(editing[e].seen)}
           t == editing[e].template
<1>1. /\ editing[e] # NoEdit /\ editing[e].op = "reset" /\ EditOK(e) /\ End(e)
      /\ Write(e, R, Standard(t, DOMAIN t))
    BY DEF CommitReset, CurriculumInv
<1>2. KeptFrom(R)
    BY DEF KeptFrom, CurriculumInv, RowsOK
<1>3. t \in Templates
    BY <1>1, EditFields DEF EditOK
<1>4. PICK New : New = Standard(t, DOMAIN t) /\ NewOK(New)
    BY <1>3, StandardIsOK
<1>5. Vacant(e, R, New)
    BY <1>1 DEF EditOK, Undisturbed, Vacant
<1> HIDE DEF R
<1>6. /\ RowsOK' /\ OneEach' /\ created <= created' /\ aux_doubled \subseteq aux_doubled'
      /\ \A r \in rows' : \/ \E q \in rows : q.id = r.id /\ q.subject = r.subject
                          \/ r.id > created /\ r.subject \in NamedIn(New)
    BY <1>1, <1>2, <1>4, <1>5, WriteKeepsRows, Zenon
<1>7. RowsGoOn
    BY <1>6, CurriculumAssumption DEF RowsGoOn, RowsOK, CurriculumInv, Row
<1>8. QED
    BY <1>1, <1>6, <1>7, EndKeeps

(* A row that is updated.                                                  *)
Changed(r, w) == [r EXCEPT !.hours = w.hours, !.custom = Custom(w)]

(* updateClassSubjects: of the rows there are, those of subjects that are  *)
(* not named go, one of each that is gets the hours it was last given, and *)
(* every entry whose subject it has seen no row of gets one.               *)
LEMMA CommitUpdateKeeps ==
    ASSUME CurriculumInv, NEW e \in Editors, CommitUpdate(e)
    PROVE  CurriculumInv'
<1> DEFINE seen == editing[e].seen
           wanted == editing[e].wanted
           named == {wanted[i].subject : i \in DOMAIN wanted}
           known == {s \in named : \E r \in seen : r.subject = s}
           lasts == {i \in DOMAIN wanted : /\ wanted[i].subject \in known
                                           /\ \A j \in DOMAIN wanted : wanted[j].subject = wanted[i].subject => j <= i}
           fresh == {i \in DOMAIN wanted : wanted[i].subject \notin known}
           dropped == {r \in seen : r.subject \notin named}
           New == [i \in fresh |-> [subject |-> wanted[i].subject, hours |-> wanted[i].hours,
                                    custom |-> Custom(wanted[i])]]
           Updated(prior) == UNION {{[r EXCEPT !.hours = wanted[i].hours, !.custom = Custom(wanted[i])] :
                                         r \in {q \in rows : q.id = prior[wanted[i].subject]}} : i \in lasts}
           Kept(prior) == {r \in rows : r.id \notin Ids(dropped) \cup Ids(Updated(prior))} \cup Updated(prior)
<1>1. editing[e] # NoEdit /\ editing[e].op = "update" /\ EditOK(e) /\ End(e)
    BY DEF CommitUpdate, CurriculumInv
<1>2. PICK prior \in [known -> Ids(seen)] :
        /\ \A s \in known : \E r \in seen : r.id = prior[s] /\ r.subject = s
        /\ \/ UNCHANGED <<rows, created, aux_doubled>>
           \/ Write(e, Kept(prior), New)
    BY Zenon DEF CommitUpdate
<1>3. seen = editing[e].seen /\ wanted = editing[e].wanted
    OBVIOUS
<1>4. /\ \A i \in DOMAIN wanted : wanted[i].subject \in known <=> \E r \in seen : r.subject = wanted[i].subject
      /\ \A i \in lasts : /\ i \in DOMAIN wanted /\ wanted[i].subject \in known
                          /\ \A j \in DOMAIN wanted : wanted[j].subject = wanted[i].subject => j <= i
    OBVIOUS
<1>5. PICK updated :
        /\ updated = Updated(prior)
        /\ \A r \in updated : \E i \in lasts, q \in rows :
              q.id = prior[wanted[i].subject] /\ r = Changed(q, wanted[i])
  <2> DEFINE ChangedBy(j) == {[r EXCEPT !.hours = wanted[j].hours, !.custom = Custom(wanted[j])] :
                           r \in {q \in rows : q.id = prior[wanted[j].subject]}}
  <2>1. Updated(prior) = UNION {ChangedBy(i) : i \in lasts}
      OBVIOUS
  <2>2. ASSUME NEW i \in lasts, NEW r \in ChangedBy(i)
        PROVE  \E q \in rows : q.id = prior[wanted[i].subject] /\ r = Changed(q, wanted[i])
      BY <2>2, Zenon DEF Changed
  <2> HIDE DEF ChangedBy, Updated
  <2>3. \A r \in Updated(prior) : \E i \in lasts, q \in rows :
            q.id = prior[wanted[i].subject] /\ r = Changed(q, wanted[i])
      BY <2>1, <2>2
  <2>4. QED
      BY <2>3
<1>6. PICK R : /\ R = Kept(prior)
               /\ R = {r \in rows : r.id \notin Ids(dropped) \cup Ids(updated)} \cup updated
    BY <1>5
<1>7. PICK new : /\ new = New /\ DOMAIN new = fresh /\ fresh \subseteq DOMAIN wanted
                 /\ \A i \in fresh : /\ new[i].subject = wanted[i].subject /\ new[i].hours = wanted[i].hours
                                     /\ new[i].custom = Custom(wanted[i]) /\ wanted[i].subject \notin known
  <2>1. \A i \in fresh : New[i] = [subject |-> wanted[i].subject, hours |-> wanted[i].hours,
                                   custom |-> Custom(wanted[i])]
      OBVIOUS
  <2>2. DOMAIN New = fresh /\ \A i \in fresh : i \in DOMAIN wanted /\ wanted[i].subject \notin known
      OBVIOUS
  <2> HIDE DEF New, fresh, known
  <2>3. QED
      BY <2>1, <2>2
<1> HIDE DEF seen, wanted, named, known, lasts, fresh, dropped, New, Updated, Kept
<1>9. UNCHANGED <<rows, created, aux_doubled>> \/ Write(e, R, new)
    BY <1>2, <1>6, <1>7
<1>10. SeenOK(e) /\ seen \in SUBSET Row /\ wanted \in Wishes
    BY <1>3, <1>1, EditFields DEF EditOK
<1>11. /\ IsFiniteSet(DOMAIN wanted) /\ DOMAIN wanted \subseteq Nat
       /\ \A i \in DOMAIN wanted : /\ wanted[i].subject \in Subjects /\ wanted[i].hours \in Nat
                                   /\ Custom(wanted[i]) \in BOOLEAN
                                   /\ Custom(wanted[i]) \/ /\ wanted[i].subject \in DOMAIN OwnTemplate
                                                           /\ wanted[i].hours = OwnTemplate[wanted[i].subject]
    BY <1>10, WishFields DEF Custom
<1>12. NewOK(new) /\ \A i \in DOMAIN new : new[i].subject \notin known /\ i \in DOMAIN wanted
                                           /\ new[i].subject = wanted[i].subject
    BY <1>7, <1>11, FS_Subset DEF NewOK, IsStandard
<1>13. ASSUME NEW r \in updated
       PROVE  /\ r \in Row /\ IsStandard(r)
              /\ \E q \in rows, i \in lasts :
                    /\ q.id = r.id /\ q.subject = r.subject /\ q.subject = wanted[i].subject
                    /\ r = Changed(q, wanted[i])
  <2>1. PICK i \in lasts, q \in rows :
            /\ q.id = prior[wanted[i].subject] /\ r = Changed(q, wanted[i])
      BY <1>5
  <2>2. q \in Row
      BY DEF CurriculumInv, RowsOK
  <2>3. i \in DOMAIN wanted /\ q.subject = wanted[i].subject
    <3>1. PICK x \in seen : x.id = prior[wanted[i].subject] /\ x.subject = wanted[i].subject
        BY <1>2, <1>4
    <3>2. QED
        BY <1>3, <1>4, <1>10, <2>1, <3>1 DEF SeenOK
  <2>4. /\ r.id = q.id /\ r.subject = q.subject /\ r.hours = wanted[i].hours /\ r.custom = Custom(wanted[i])
        /\ r = [id |-> q.id, subject |-> q.subject, hours |-> wanted[i].hours, custom |-> Custom(wanted[i])]
      BY <2>1, <2>2 DEF Row, Changed
  <2>5. r \in Row
      BY <1>11, <2>2, <2>3, <2>4 DEF Row
  <2>6. IsStandard(r)
      BY <1>11, <2>3, <2>4 DEF IsStandard
  <2>7. QED
      BY <2>1, <2>3, <2>4, <2>5, <2>6
<1>14. KeptFrom(R)
  <2>1. ASSUME NEW r \in R
        PROVE  r \in Row /\ IsStandard(r) /\ \E q \in rows : q.id = r.id /\ q.subject = r.subject
      BY <1>6, <1>13 DEF CurriculumInv, RowsOK
  <2>2. ASSUME NEW r \in R, NEW q \in R, r.id = q.id PROVE r = q
    <3>1. CASE r \in updated /\ q \in updated
      <4>1. PICK x \in rows, i \in lasts :
               x.id = r.id /\ x.subject = wanted[i].subject /\ r = Changed(x, wanted[i])
          BY <1>13, <3>1
      <4>2. PICK y \in rows, j \in lasts :
               y.id = q.id /\ y.subject = wanted[j].subject /\ q = Changed(y, wanted[j])
          BY <1>13, <3>1
      <4>3. x = y
          BY <2>2, <4>1, <4>2 DEF CurriculumInv, RowsOK
      <4>4. i = j
        <5>1. i \in DOMAIN wanted /\ j \in DOMAIN wanted /\ i <= j /\ j <= i
            BY <1>4, <4>1, <4>2, <4>3
        <5>2. QED
            BY <1>11, <5>1
      <4>5. QED
          BY <4>1, <4>2, <4>3, <4>4
    <3>2. CASE r \in updated /\ q \notin updated
        BY <1>6, <2>2, <3>2 DEF Ids
    <3>3. CASE r \notin updated /\ q \in updated
        BY <1>6, <2>2, <3>3 DEF Ids
    <3>4. CASE r \notin updated /\ q \notin updated
        BY <1>6, <2>2, <3>4 DEF CurriculumInv, RowsOK
    <3>5. QED
        BY <3>1, <3>2, <3>3, <3>4
  <2>3. QED
      BY <2>1, <2>2 DEF KeptFrom
<1>15. Vacant(e, R, new)
  <2>1. ASSUME e \notin aux_met, NEW r \in R, r.subject \in NamedIn(new)
        PROVE  r.subject \in aux_doubled
    <3>1. PICK i \in DOMAIN wanted : r.subject = wanted[i].subject /\ wanted[i].subject \notin known
        BY <1>12, <2>1 DEF NamedIn
    <3>2. PICK q \in rows : q.id = r.id /\ q.subject = r.subject
        BY <1>14 DEF KeptFrom
    <3>3. ASSUME NEW x \in seen, x.id = q.id PROVE FALSE
      <4>1. x.subject = wanted[i].subject
          BY <1>3, <1>10, <3>1, <3>2, <3>3 DEF SeenOK
      <4>2. QED
          BY <1>4, <3>1, <4>1
    <3>4. QED
        BY <1>3, <1>1, <2>1, <3>2, <3>3 DEF EditOK, Undisturbed, Ids
  <2>2. QED
      BY <2>1 DEF Vacant
<1>16. CASE UNCHANGED <<rows, created, aux_doubled>>
  <2>1. RowsOK' /\ OneEach'
      BY <1>16 DEF CurriculumInv, RowsOK, OneEach, IsStandard
  <2>2. RowsGoOn
      BY <1>16, CurriculumAssumption DEF RowsGoOn, CurriculumInv, RowsOK
  <2>3. QED
      BY <1>1, <2>1, <2>2, EndKeeps
<1>17. CASE Write(e, R, new)
  <2>1. /\ RowsOK' /\ OneEach' /\ created <= created' /\ aux_doubled \subseteq aux_doubled'
        /\ \A r \in rows' : \/ \E q \in rows : q.id = r.id /\ q.subject = r.subject
                            \/ r.id > created /\ r.subject \in NamedIn(new)
      BY <1>12, <1>14, <1>15, <1>17, WriteKeepsRows
  <2>2. RowsGoOn
      BY <2>1, CurriculumAssumption DEF RowsGoOn, RowsOK, CurriculumInv, Row
  <2>3. QED
      BY <1>1, <2>1, <2>2, EndKeeps
<1>18. QED
    BY <1>9, <1>16, <1>17

(* addToClass creates a row whatever there is, and removeFromClass deletes *)
(* one that no reset has locked.                                           *)
LEMMA SingleRowsKeep ==
    ASSUME CurriculumInv,
           \/ \E s \in Subjects, h \in HourChoices : AddToClass(s, h)
           \/ \E r \in rows : RemoveFromClass(r)
    PROVE  CurriculumInv'
<1>1. /\ UNCHANGED <<editing, aux_met>> /\ created \in Nat /\ MaxRows \in Nat
      /\ \A d \in Editors : Others(d)' = Others(d)
    BY CurriculumAssumption DEF AddToClass, RemoveFromClass, CurriculumInv, RowsOK, Others
<1>2. ASSUME NEW s \in Subjects, NEW h \in HourChoices, AddToClass(s, h) PROVE CurriculumInv'
  <2>1. PICK new : new = [id |-> created + 1, subject |-> s, hours |-> h, custom |-> TRUE]
      OBVIOUS
  <2>2. /\ created < MaxRows /\ created' = created + 1
        /\ rows' = rows \cup {new} /\ aux_doubled' = aux_doubled \cup {s}
      BY <1>2, <2>1 DEF AddToClass
  <2>3. created + 1 \in 1 .. MaxRows /\ h \in Nat
      BY <1>1, <2>2, CurriculumAssumption
  <2>4. new \in Row /\ new.id = created + 1 /\ new.subject = s /\ IsStandard(new)
      BY <2>1, <2>3 DEF Row, IsStandard
  <2>5. \A r \in rows : r \in Row /\ r.id \in Nat /\ r.id <= created
      BY DEF CurriculumInv, RowsOK, Row
  <2>6. RowsOK'
    <3>1. \A r, q \in rows' : r.id = q.id => r = q
        BY <1>1, <2>2, <2>4, <2>5 DEF CurriculumInv, RowsOK
    <3>2. \A r \in rows' : r \in Row /\ r.id <= created' /\ IsStandard(r)
        BY <1>1, <2>2, <2>4, <2>5 DEF CurriculumInv, RowsOK
    <3>3. QED
        BY <1>1, <2>2, <3>1, <3>2 DEF RowsOK, IsStandard
  <2>7. OneEach'
      BY <2>2, <2>4 DEF CurriculumInv, OneEach
  <2>8. ASSUME NEW d \in Editors PROVE EditOK(d)'
    <3>1. EditOK(d)
        BY DEF CurriculumInv
    <3>2. ASSUME editing[d] # NoEdit, editing[d].op # "apply" PROVE SeenOK(d)'
      <4>1. \A r \in editing[d].seen : r.id \in Nat
          BY <3>1, <3>2, EditFields DEF EditOK, Row
      <4>2. QED
          BY <1>1, <2>2, <2>4, <3>1, <3>2, <4>1 DEF EditOK, SeenOK
    <3>3. editing[d] # NoEdit /\ d \notin aux_met => Undisturbed(d)'
        BY <1>1, <2>2, <2>4, <3>1 DEF EditOK, Undisturbed, Ids
    <3>4. QED
        BY <1>1, <3>1, <3>2, <3>3 DEF EditOK
  <2>9. QED
      BY <1>1, <2>6, <2>7, <2>8 DEF CurriculumInv
<1>3. ASSUME NEW r \in rows, RemoveFromClass(r) PROVE CurriculumInv'
  <2>1. rows' \subseteq rows /\ UNCHANGED <<created, aux_doubled>>
      BY <1>3 DEF RemoveFromClass
  <2>2. RowsOK' /\ OneEach'
      BY <2>1 DEF CurriculumInv, RowsOK, OneEach, IsStandard
  <2>3. \A d \in Editors : EditOK(d)'
      BY <1>1, <2>1 DEF CurriculumInv, EditOK, SeenOK, Undisturbed, Ids
  <2>4. QED
      BY <1>1, <2>2, <2>3 DEF CurriculumInv
<1>4. QED
    BY <1>2, <1>3

(* In every state of the Stundentafel the invariant holds.                 *)
LEMMA CurriculumInvHolds == CurriculumSpec => []CurriculumInv
<1>1. CurriculumInit => CurriculumInv
    BY CurriculumAssumption DEF CurriculumInit, CurriculumInv, RowsOK, OneEach, EditOK
<1>2. CurriculumInv /\ [CurriculumNext]_curriculumVars => CurriculumInv'
  <2>1. ASSUME CurriculumInv, UNCHANGED curriculumVars PROVE CurriculumInv'
      BY <2>1 DEF curriculumVars, CurriculumInv, RowsOK, OneEach, IsStandard, EditOK, SeenOK, Undisturbed, Others, Ids
  <2>2. QED
      BY <2>1, BeginningsKeep, ApplyNextKeeps, CommitUpdateKeeps, CommitResetKeeps, SingleRowsKeep
      DEF CurriculumNext
<1>3. QED
    BY <1>1, <1>2, PTL DEF CurriculumSpec

(* The rows of a class have their type, and ids of their own.              *)
THEOREM CurriculumIsTyped == CurriculumSpec => []CurriculumTypeOK
<1>1. CurriculumInv => CurriculumTypeOK
  <2> SUFFICES ASSUME CurriculumInv PROVE CurriculumTypeOK
      OBVIOUS
  <2>1. created \in 0 .. MaxRows /\ created \in Nat
      BY CurriculumAssumption DEF CurriculumInv, RowsOK
  <2>2. \A r \in rows : r \in Row /\ r.id <= created
      BY DEF CurriculumInv, RowsOK
  <2>3. \A r \in rows : r \in [id : 1 .. created, subject : Subjects, hours : Nat, custom : BOOLEAN]
      BY <2>1, <2>2 DEF Row
  <2>4. QED
      BY <2>1, <2>3 DEF CurriculumInv, RowsOK, CurriculumTypeOK
<1>2. QED
    BY <1>1, CurriculumInvHolds, PTL

(* For any catalogue, subjects, requests and editors: a subject of a class *)
(* has a second row only if it was added by hand or given one by a call    *)
(* that met another, that checks nothing, or that named the subject twice; *)
(* and a row that is not marked as customised has the hours of a template  *)
(* (ClassSubjectService, SubjectService).                                  *)
THEOREM SubjectsHaveOneRow == CurriculumSpec => []OneRowPerSubject
<1>1. CurriculumInv => OneRowPerSubject
  <2> SUFFICES ASSUME CurriculumInv PROVE OneRowPerSubject
      OBVIOUS
  <2>1. ASSUME NEW s \in Subjects \ aux_doubled PROVE Cardinality(RowsOf(s)) <= 1
    <3>1. \A r, q \in RowsOf(s) : r = q
        BY <2>1 DEF RowsOf, CurriculumInv, OneEach
    <3>2. CASE RowsOf(s) = {}
        BY <3>2, FS_EmptySet
    <3>3. CASE RowsOf(s) # {}
      <4>1. PICK r \in RowsOf(s) : RowsOf(s) = {r}
          BY <3>1, <3>3
      <4>2. QED
          BY <4>1, FS_Singleton
    <3>4. QED
        BY <3>2, <3>3
  <2>2. QED
      BY <2>1 DEF CurriculumInv, RowsOK, IsStandard, OneRowPerSubject
<1>2. QED
    BY <1>1, CurriculumInvHolds, PTL

-----------------------------------------------------------------------------
(* The deletion of master data.                                            *)

(* Between the count and the delete every counted reference is a late one; *)
(* once the record is gone, those left or lost are.                        *)
RecordsInv ==
    /\ RecordsTypeOK
    /\ removing = "counted" => row /\ Counted \subseteq aux_late
    /\ removing = "row gone" => ~ row
    /\ row => aux_gone = {}
    /\ ~ row => \A c \in refs \cup aux_gone : c.counted => c \in aux_late

(* Every behaviour of a removal beside any writers stays within            *)
(* RecordsInv.                                                             *)
THEOREM RecordsCorrect == RecordsSpec => []RecordsInv
<1>1. RecordsInit => RecordsInv
    BY RecordsAssumption DEF RecordsInit, RecordsInv, RecordsTypeOK
<1>2. RecordsInv /\ [RecordsNext]_recordsVars => RecordsInv'
  <2> SUFFICES ASSUME RecordsInv, [RecordsNext]_recordsVars PROVE RecordsInv'
      OBVIOUS
  <2> USE DEF RecordsInv, RecordsTypeOK, Counted, Of
  <2>1. CASE UNCHANGED recordsVars
      BY <2>1 DEF recordsVars
  <2>2. ASSUME NEW c \in Of(entity), WriterBegins(c) PROVE RecordsInv'
      BY <2>2 DEF WriterBegins
  <2>3. ASSUME NEW c \in writing, WriterCommits(c) PROVE RecordsInv'
      BY <2>3 DEF WriterCommits
  <2>4. ASSUME NEW c \in refs, RemoveRef(c) PROVE RecordsInv'
      BY <2>4 DEF RemoveRef
  <2>5. CASE CountReferences
      BY <2>5 DEF CountReferences
  <2>6. CASE Delete
      BY <2>6 DEF Delete
  <2>7. CASE DeletePerson
      BY <2>7 DEF DeletePerson
  <2>8. CASE CrashRemoval
    <3>1. crashes' \in 0 .. MaxCrashes
      <4>1. crashes \in 0 .. MaxCrashes /\ crashes < MaxCrashes /\ crashes' = crashes + 1
          BY <2>8 DEF CrashRemoval
      <4>2. MaxCrashes \in Nat
          BY RecordsAssumption
      <4> HIDE DEF RecordsInv, RecordsTypeOK, Counted, Of
      <4>3. QED
          BY <4>1, <4>2
    <3>2. QED
        BY <2>8, <3>1 DEF CrashRemoval
  <2>9. QED
      BY <2>1, <2>2, <2>3, <2>4, <2>5, <2>6, <2>7, <2>8 DEF RecordsNext
<1>3. QED
    BY <1>1, <1>2, PTL DEF RecordsSpec

(* A deletion leaves or takes no counted reference but one written after   *)
(* the count, whatever writers and crashes do.                             *)
THEOREM GuardAlwaysHolds == RecordsSpec => []GuardHolds
<1>1. RecordsInv => GuardHolds
    BY DEF RecordsInv, GuardHolds, Zombies
<1>2. QED
    BY <1>1, RecordsCorrect, PTL

-----------------------------------------------------------------------------
(* The run of the four: whichever component a behaviour moves, each of     *)
(* them behaves as it does alone, so what is proved of one holds here.     *)
LEMMA MasterRunsComponents ==
    MasterSpec => Spec /\ SchedulingSpec /\ CurriculumSpec /\ RecordsSpec
<1>1. MasterInit => Init /\ SchedulingInit /\ CurriculumInit /\ RecordsInit
    BY DEF MasterInit
<1>2. [MasterNext]_<<moving, vars, schedulingVars, curriculumVars, recordsVars>>
      => [Next]_vars /\ [SchedulingNext]_schedulingVars /\ [CurriculumNext]_curriculumVars /\ [RecordsNext]_recordsVars
    BY DEF MasterNext
<1>3. QED
    BY <1>1, <1>2, PTL DEF MasterSpec, Spec, SchedulingSpec, CurriculumSpec, RecordsSpec

(* Every component of the run keeps its types.                             *)
THEOREM MasterDataIsTyped == MasterSpec => []MasterTypeOK
<1>1. RecordsInv => RecordsTypeOK
    BY DEF RecordsInv
<1>2. TypeOK /\ SchedulingTypeOK /\ CurriculumTypeOK /\ RecordsTypeOK => MasterTypeOK
    BY DEF MasterTypeOK
<1>3. QED
    BY <1>1, <1>2, MasterRunsComponents, PartitionTypes, SchedulingIsTyped, CurriculumIsTyped, RecordsCorrect, PTL
=============================================================================
