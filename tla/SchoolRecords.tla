--------------------------- MODULE SchoolRecords ---------------------------
(***************************************************************************)
(* Deleting a class, subject, teacher, student, parent or school year: the *)
(* orphan guards count what refers to it, and delete it in statements of   *)
(* their own.  What refers to it is a set of columns: some are foreign     *)
(* keys, whose rows go or are set to null, some are plain ids the database *)
(* does not know of, and the guards count some of both.  What hangs on a   *)
(* ClassSubject or a Group goes by these, which are counted.               *)
(***************************************************************************)
EXTENDS FiniteSets, Naturals

CONSTANTS Entities,     \* kinds of records to look at
          MaxRefs,      \* bound: columns that refer to the record at a time
          MaxCrashes    \* bound

ASSUME RecordsAssumption == MaxRefs \in Nat /\ MaxCrashes \in Nat

Column(of, onDelete, counted, vias) ==
    [of : {of}, via : vias, onDelete : {onDelete}, counted : {counted}]

Columns ==
    UNION { Column("class", "cascade", TRUE, {"ClassSubject.classId", "Group.classId", "GroupDerivationRule.classId"}),
            Column("class", "null", TRUE, {"Student.classId, active"}),
            Column("class", "null", FALSE, {"Student.classId, archived"}),
            Column("subject", "cascade", TRUE, {"ClassSubject.subjectId", "TeacherSubject.subjectId"}),
            Column("teacher", "null", TRUE, {"SchoolClass.klassenvorstandId"}),
            Column("teacher", "none", TRUE, {"TimetableLesson.teacherId", "ClassBookEntry.teacherId", "GradeEntry.teacherId",
                                             "Substitution.originalTeacherId", "Substitution.substituteTeacherId"}),
            Column("teacher", "null", FALSE, {"ClassSubject.teacherId"}),
            Column("teacher", "cascade", FALSE, {"TeacherAbsence.teacherId", "TeacherSubject.teacherId", "AvailabilityRule.teacherId",
                                                  "TeachingReduction.teacherId"}),
            Column("teacher", "none", FALSE, {"TimetableConflict.teacherId"}),
            Column("student", "none", TRUE, {"AttendanceRecord.studentId", "GradeEntry.studentId",
                                             "StudentNote.studentId", "AbsenceExcuse.studentId"}),
            Column("student", "cascade", TRUE, {"GroupMembership.studentId", "ParentStudent.studentId"}),
            Column("student", "none", FALSE, {"GroupDerivationRule.studentIds"}),
            Column("parent", "cascade", TRUE, {"ParentStudent.parentId"}),
            Column("parent", "none", FALSE, {"AbsenceExcuse.parentId"}),
            Column("year", "none", TRUE, {"SchoolClass.schoolYearId", "TeachingReduction.schoolYearId"}),
            Column("year", "cascade", TRUE, {"SchoolYear.isActive"}) }

VARIABLES
    entity,     \* the kind of the record
    row,        \* whether the record is there, and for people its Person
    person,
    refs,       \* columns in which something refers to it
    writing,    \* columns of writes under way that have seen the record
    removing,   \* the delete call: "no", "counted", "row gone"
    crashes,
    aux_late,   \* auxiliary: columns written while the record was being removed or gone
    aux_gone    \* auxiliary: columns the deletion took or set to null

recordsVars == <<entity, row, person, refs, writing, removing, crashes, aux_late, aux_gone>>

Of(e) == {c \in Columns : c.of = e}

RecordsInit ==
    /\ entity \in Entities
    /\ row = TRUE /\ person = TRUE /\ removing = "no" /\ crashes = 0
    /\ refs = {} /\ writing = {} /\ aux_late = {} /\ aux_gone = {}

(* A call that will refer to the record has loaded it.                     *)
WriterBegins(c) ==
    /\ row /\ Cardinality(refs \cup writing) < MaxRefs
    /\ writing' = writing \cup {c}
    /\ UNCHANGED <<entity, row, person, refs, removing, crashes, aux_late, aux_gone>>

(* Its write: a foreign key, or the row itself, is not there to refer to.  *)
WriterCommits(c) ==
    /\ writing' = writing \ {c}
    /\ IF row \/ c.onDelete = "none"
       THEN /\ refs' = refs \cup {c}
            /\ aux_late' = IF removing # "no" \/ ~ row THEN aux_late \cup {c} ELSE aux_late
       ELSE UNCHANGED <<refs, aux_late>>
    /\ UNCHANGED <<entity, row, person, removing, crashes, aux_gone>>

(* Somebody resolves a reference, as the guard's answer asks for.          *)
RemoveRef(c) ==
    /\ row
    /\ refs' = refs \ {c}
    /\ UNCHANGED <<entity, row, person, writing, removing, crashes, aux_late, aux_gone>>

KeysCounted == {c \in refs : c.counted /\ c.onDelete # "none"}      \* mutant: ids without a foreign key are not

Counted == {c \in refs : c.counted}

(* remove: the counts, and 409 if there is one.                            *)
CountReferences ==
    /\ removing = "no" /\ row /\ Counted = {}
    /\ removing' = "counted" /\ aux_late' = {}
    /\ UNCHANGED <<entity, row, person, refs, writing, crashes, aux_gone>>

(* remove: the delete; of a teacher the Person goes afterwards, of         *)
(* students and parents it is the Person that is deleted.                  *)
Delete ==
    /\ removing = "counted"
    /\ row' = FALSE
    /\ refs' = {c \in refs : c.onDelete = "none"}
    /\ aux_gone' = refs \ refs'
    /\ person' = (entity \notin {"student", "parent"})
    /\ removing' = IF entity = "teacher" THEN "row gone" ELSE "no"
    /\ UNCHANGED <<entity, writing, crashes, aux_late>>

DeletePerson ==
    /\ removing = "row gone"
    /\ person' = FALSE /\ removing' = "no"
    /\ UNCHANGED <<entity, row, refs, writing, crashes, aux_late, aux_gone>>

CrashRemoval ==
    /\ removing # "no" /\ crashes < MaxCrashes
    /\ removing' = "no" /\ writing' = {} /\ crashes' = crashes + 1
    /\ UNCHANGED <<entity, row, person, refs, aux_late, aux_gone>>

RecordsNext ==
    \/ \E c \in Of(entity) \ (refs \cup writing) : WriterBegins(c)
    \/ \E c \in writing : WriterCommits(c)
    \/ \E c \in refs : RemoveRef(c)
    \/ CountReferences \/ Delete \/ DeletePerson \/ CrashRemoval

RecordsSpec == RecordsInit /\ [][RecordsNext]_recordsVars
-----------------------------------------------------------------------------
(* Types; and a row without its Person is never left behind.               *)
RecordsTypeOK ==
    /\ entity \in Entities /\ row \in BOOLEAN /\ person \in BOOLEAN /\ crashes \in 0 .. MaxCrashes
    /\ refs \subseteq Of(entity) /\ writing \subseteq Of(entity)
    /\ aux_late \subseteq Of(entity) /\ aux_gone \subseteq Of(entity)
    /\ removing \in {"no", "counted", "row gone"}
    /\ row => person

Zombies == IF row THEN {} ELSE refs

(* "Deleting the teacher without this guard silently zombifies every       *)
(* historical audit row": of the counted columns none is left pointing at  *)
(* a record that is gone, and none was emptied or cascaded by its          *)
(* deletion, unless it was written after the count.                        *)
GuardHolds == \A c \in Zombies \cup aux_gone : c.counted => c \in aux_late

(* "This guard counts every reference": no other column is either.         *)
GuardIsComplete == Zombies \cup aux_gone \subseteq aux_late
=============================================================================
