----------------------------- MODULE Scheduling -----------------------------
(***************************************************************************)
(* What goes into a solve and what comes back: SolverInputService turns    *)
(* the school's master data into a problem, the sidecar places its lessons *)
(* under the hard constraints of TimetableConstraintProvider, and          *)
(* handleCompletion looks the teachers up again and stores the lessons.    *)
(* TimetableDiagnosticsService tells beforehand whether that can succeed.  *)
(* The sidecar's search is any way of placing the lessons one by one with  *)
(* hard score 0; soft constraints order the plans and exclude none.        *)
(***************************************************************************)
EXTENDS Integers, FiniteSets

CONSTANTS
    Schools,            \* master data a solve may start from
    Staff,              \* teacherIds
    NoTeacher, NoGroup, NoType,
    Days, Periods,      \* active school days; periods that are no breaks
    NoProblem, NoResult

(* Periods are numbered, and a template that ends the day says after which *)
(* of them.                                                                *)
ASSUME SchedulingAssumption ==
    /\ IsFiniteSet(Days) /\ IsFiniteSet(Periods) /\ Periods \subseteq Nat
    /\ \A s \in Schools :
          /\ DOMAIN s = {"courses", "ab", "rooms", "templates"} /\ IsFiniteSet(s.rooms)
          /\ \A t \in s.templates : t.type = "NO_LESSONS_AFTER" => t.max \in Nat

VARIABLES
    school,     \* [courses, ab, rooms, templates]: ClassSubject rows, abWeekEnabled,
                \* [id, type] of the rooms, active templates and availability rules
    problem,    \* the payload: what the school was when it was built
    placed,     \* timeslot and room of the lessons placed so far
    result      \* the stored lessons, and the teachers found when storing

schedulingVars == <<school, problem, placed, result>>

(* deriveLessonWeekTypes: only a cycle of two with one of its weeks is not *)
(* taught every week; mask 0 stands for null as well.                      *)
WeekTypes(c, ab) ==
    LET on == (IF c.mask % 2 = 1 THEN {"A"} ELSE {}) \cup (IF c.mask \div 2 = 1 THEN {"B"} ELSE {})
    IN  IF c.length = 2 /\ Cardinality(on) = 1 THEN on
        ELSE IF ab THEN {"A", "B"} ELSE {"BOTH"}

Lessons(s) ==
    UNION {[course : {c}, hour : 1 .. s.courses[c].hours, week : WeekTypes(s.courses[c], s.ab)] :
              c \in DOMAIN s.courses}

Timeslots(s) == [day : Days, period : Periods, week : IF s.ab THEN {"A", "B"} ELSE {"BOTH"}]

(* BLOCK_TIMESLOT templates and BLOCKED_ rules, all of them.               *)
Blocked(s) == {t \in s.templates : t.type = "BLOCK_TIMESLOT"}
NoLessonsAfter(s) == {t \in s.templates : t.type = "NO_LESSONS_AFTER"}

LenientRestrictions(s) ==               \* mutant: the comparison is turned round
    {r \in NoLessonsAfter(s) : \A q \in NoLessonsAfter(s) : q.class = r.class => r.max >= q.max}

(* One restriction per class: the strictest wins.                          *)
Restrictions(s) ==
    {r \in NoLessonsAfter(s) : \A q \in NoLessonsAfter(s) : q.class = r.class => r.max <= q.max}
-----------------------------------------------------------------------------
(* The hard constraints, for the lessons placed so far.                    *)
CourseOf(l) == problem.courses[l.course]

(* Also of two lessons without a teacher: both carry ''.                   *)
TeacherConflict(l, m, at) == at[l].slot = at[m].slot /\ CourseOf(l).teacher = CourseOf(m).teacher

RoomConflict(l, m, at) == at[l].slot = at[m].slot /\ at[l].room = at[m].room

StudentGroupConflict(l, m, at) ==
    /\ at[l].slot = at[m].slot
    /\ CourseOf(l).class = CourseOf(m).class
    /\ NoGroup \in {CourseOf(l).group, CourseOf(m).group} \/ CourseOf(l).group = CourseOf(m).group

TeacherAvailability(l, at) ==
    \A b \in Blocked(problem) :
        ~ (b.teacher = CourseOf(l).teacher /\ b.day = at[l].slot.day /\ b.period = at[l].slot.period)

RoomTypeRequirement(l, at) == CourseOf(l).type \in {NoType, at[l].room.type}

WeekTypeCompatibility(l, at) == "BOTH" \in {l.week, at[l].slot.week} \/ l.week = at[l].slot.week

ClassTimeslotRestriction(l, at) ==
    \A r \in Restrictions(problem) : r.class = CourseOf(l).class => at[l].slot.period <= r.max

HardScoreZero(at) ==
    /\ \A l \in DOMAIN at : /\ TeacherAvailability(l, at) /\ RoomTypeRequirement(l, at)
                            /\ WeekTypeCompatibility(l, at) /\ ClassTimeslotRestriction(l, at)
    /\ \A l, m \in DOMAIN at : l # m => /\ ~ TeacherConflict(l, m, at) /\ ~ RoomConflict(l, m, at)
                                        /\ ~ StudentGroupConflict(l, m, at)
-----------------------------------------------------------------------------
SchedulingInit ==
    /\ school \in Schools
    /\ problem = NoProblem /\ placed = [l \in {} |-> {}] /\ result = NoResult

(* buildSolverInput, by the worker when it takes the job up.               *)
BuildSolverInput ==
    /\ problem = NoProblem
    /\ problem' = school
    /\ UNCHANGED <<school, placed, result>>

Unplaced == Lessons(problem) \ DOMAIN placed

(* One more lesson at a timeslot and a room that cost no hard score.       *)
PlaceLesson ==
    /\ problem # NoProblem /\ result = NoResult /\ Unplaced # {}
    /\ LET l == CHOOSE l \in Unplaced : TRUE
       IN  \E slot \in Timeslots(problem), room \in problem.rooms :
             LET at == [m \in DOMAIN placed \cup {l} |->
                           IF m = l THEN [slot |-> slot, room |-> room] ELSE placed[m]]
             IN  HardScoreZero(at) /\ placed' = at
    /\ UNCHANGED <<school, problem, result>>

(* updateClassSubjects, while the sidecar solves: another teacher.         *)
ReassignTeacher(c, t) ==
    /\ problem # NoProblem /\ result = NoResult
    /\ school' = [school EXCEPT !.courses[c].teacher = t]
    /\ UNCHANGED <<problem, placed, result>>

TeacherOf(l) == school.courses[l.course].teacher

SameTeacher(l, m) == TeacherOf(l) = TeacherOf(m)

(* The two unique keys of the stored lessons, with the teachers of now.    *)
Collide(l, m) ==
    placed[l].slot = placed[m].slot /\ (SameTeacher(l, m) \/ placed[l].room = placed[m].room)

(* handleCompletion with a complete plan: LessonPartition shows what the   *)
(* partition stores, a set without collisions that no lesson could join.   *)
StoreLessons ==
    /\ problem # NoProblem /\ result = NoResult /\ Unplaced = {}
    /\ \E kept \in SUBSET DOMAIN placed :
         /\ \A l, m \in kept : l # m => ~ Collide(l, m)
         /\ \A l \in DOMAIN placed \ kept : \E m \in kept : Collide(l, m)
         /\ result' = [kept |-> kept, teachers |-> [c \in DOMAIN school.courses |-> school.courses[c].teacher]]
    /\ UNCHANGED <<school, problem, placed>>

SchedulingNext ==
    \/ BuildSolverInput \/ PlaceLesson \/ StoreLessons
    \/ \E c \in DOMAIN school.courses, t \in Staff : ReassignTeacher(c, t)

SchedulingSpec == SchedulingInit /\ [][SchedulingNext]_schedulingVars
-----------------------------------------------------------------------------
(* getFeasibility, from the school's rows.                                 *)
GridSlots == Cardinality(Days) * Cardinality(Periods)

\* Of some courses, each of the hours a week: their number is the sum.
WeeklyHours(s, S) == UNION {{c} \X (1 .. s.courses[c].hours) : c \in S}

Hours(s, S) == Cardinality(WeeklyHours(s, S))

CoursesWith(s, Test(_)) == {c \in DOMAIN s.courses : Test(s.courses[c])}

ClassOverloadedBySum(s) ==              \* mutant: parallel groups counted one after the other
    \E d \in DOMAIN s.courses :
        Hours(s, CoursesWith(s, LAMBDA c : c.class = s.courses[d].class)) > GridSlots

(* Whole-class hours and those of the busiest group.                       *)
ClassOverloaded(s) ==
    \E d \in DOMAIN s.courses :
        Hours(s, CoursesWith(s, LAMBDA c : /\ c.class = s.courses[d].class
                                           /\ c.group \in {NoGroup, s.courses[d].group})) > GridSlots

TeacherOverloaded(s) ==
    \E t \in Staff : Hours(s, CoursesWith(s, LAMBDA c : c.teacher = t)) > GridSlots

RoomCapacity(s) == Hours(s, DOMAIN s.courses) > Cardinality(s.rooms) * GridSlots

RoomTypeCapacity(s) ==
    \E d \in DOMAIN s.courses :
        /\ s.courses[d].type # NoType
        /\ Hours(s, CoursesWith(s, LAMBDA c : c.type = s.courses[d].type))
             > Cardinality({r \in s.rooms : r.type = s.courses[d].type}) * GridSlots

Feasible(s) ==
    /\ GridSlots > 0 /\ s.rooms # {}
    /\ ~ ClassOverloaded(s) /\ ~ TeacherOverloaded(s) /\ ~ RoomCapacity(s) /\ ~ RoomTypeCapacity(s)
-----------------------------------------------------------------------------
(* Types: a plan places lessons of its problem, and what is stored was     *)
(* placed.                                                                 *)
SchedulingTypeOK ==
    /\ problem = NoProblem => placed = [l \in {} |-> {}]
    /\ problem # NoProblem =>
         /\ DOMAIN placed \subseteq Lessons(problem)
         /\ \A l \in DOMAIN placed :
              placed[l].slot \in Timeslots(problem) /\ placed[l].room \in problem.rooms
    /\ result # NoResult => result.kept \subseteq DOMAIN placed

Reassigned(c) == result.teachers[c] # problem.courses[c].teacher

(* The solver's constraints and the database's keys agree: of a plan with  *)
(* hard score 0 a lesson is dropped only next to a stored one of the same  *)
(* slot whose teacher, or its own, was changed while the sidecar solved.   *)
DropsAreReassigned ==
    result # NoResult =>
        \A l \in DOMAIN placed \ result.kept :
            \E m \in result.kept :
                /\ placed[l].slot = placed[m].slot
                /\ result.teachers[l.course] = result.teachers[m.course]
                /\ Reassigned(l.course) \/ Reassigned(m.course)

(* Every template that was active when the payload was built holds of the  *)
(* stored lessons, not only the one kept per class; a block only for those *)
(* whose teacher was not changed meanwhile.                                *)
TemplatesHonoured ==
    result # NoResult =>
        \A l \in result.kept, t \in problem.templates :
            /\ t.type = "NO_LESSONS_AFTER" /\ t.class = CourseOf(l).class => placed[l].slot.period <= t.max
            /\ (/\ t.type = "BLOCK_TIMESLOT" /\ t.teacher = result.teachers[l.course]
                /\ ~ Reassigned(l.course))
               => <<t.day, t.period>> # <<placed[l].slot.day, placed[l].slot.period>>

(* What is stored is a plan: both of the above.                            *)
StoredPlanIsSound == DropsAreReassigned /\ TemplatesHonoured

Complete == problem # NoProblem /\ Unplaced = {} /\ DOMAIN placed # {}

(* "every `error` it raises is a genuine necessary-condition violation":   *)
(* data that a complete plan exists for raises none ...                    *)
EveryErrorIsGenuine == Complete => Feasible(problem)

EveryWeek(s) == \A c \in DOMAIN s.courses : s.ab => Cardinality(WeekTypes(s.courses[c], s.ab)) = 2

(* ... which holds as long as no subject of an A/B school is taught in one *)
(* of the two weeks only.                                                  *)
ErrorsAreGenuine == Complete /\ EveryWeek(problem) => Feasible(problem)
=============================================================================
