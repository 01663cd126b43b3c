----------------------------- MODULE Curriculum -----------------------------
(***************************************************************************)
(* The Stundentafel of one class: ClassSubjectService applies a template,  *)
(* replaces all rows or resets them, SubjectService adds and removes one.  *)
(* The unique key [classId, subjectId, groupId] is no help for rows of the *)
(* whole class: their groupId is NULL, and NULLs are never equal.          *)
(***************************************************************************)
EXTENDS Integers, FiniteSets

CONSTANTS
    Subjects,
    Templates,          \* the catalogue for the class's year: a template for each
                        \* schoolType, with the weeklyHours of its subjects
    OwnTemplate,        \* that of the school's own schoolType, empty if it has none
    HourChoices,        \* weeklyHours an editor asks for
    MaxWishes,          \* bound: rows of one request
    Editors, NoEdit,
    MaxRows             \* bound: rows ever created

VARIABLES
    rows,               \* ClassSubject rows of the class: [id, subject, hours, custom]
    created,            \* rows created so far
    editing,            \* calls under way, by editor
    aux_met,            \* auxiliary: calls that met another one, or check nothing
    aux_doubled         \* auxiliary: subjects such a call gave another row, or
                        \* one that names the subject twice

curriculumVars == <<rows, created, editing, aux_met, aux_doubled>>

Row == [id : 1 .. MaxRows, subject : Subjects, hours : Nat, custom : BOOLEAN]

(* dto.rows: a list, which may name a subject twice.                       *)
Wishes == UNION {[1 .. n -> [subject : Subjects, hours : HourChoices]] : n \in 0 .. MaxWishes}

(* A call under way: the subjects it still has to write, or the rows its   *)
(* transaction has read and what it is to store.                           *)
Edit ==
    [op : {"apply"}, template : Templates, todo : SUBSET Subjects]
      \cup [op : {"update"}, seen : SUBSET Row, wanted : Wishes]
      \cup [op : {"reset"}, template : Templates, seen : SUBSET Row]

IsTemplate(t) == DOMAIN t \subseteq Subjects /\ t \in [DOMAIN t -> Nat]

(* A template gives some subjects of a finite list their weekly hours.     *)
ASSUME CurriculumAssumption ==
    /\ IsFiniteSet(Subjects) /\ HourChoices \subseteq Nat
    /\ (\A t \in Templates : IsTemplate(t) /\ DOMAIN t # {}) /\ IsTemplate(OwnTemplate)
    /\ MaxRows \in Nat /\ MaxWishes \in Nat /\ NoEdit \notin Edit

Ids(R) == {r.id : r \in R}
RowsOf(s) == {r \in rows : r.subject = s}

CurriculumInit ==
    /\ rows = {} /\ created = 0
    /\ editing = [e \in Editors |-> NoEdit]
    /\ aux_met = {} /\ aux_doubled = {}

Others(e) == {d \in Editors \ {e} : editing[d] # NoEdit}

Begin(e, call, unchecked) ==
    /\ editing[e] = NoEdit
    /\ editing' = [editing EXCEPT ![e] = call]
    /\ aux_met' = aux_met \cup Others(e) \cup (IF Others(e) # {} \/ unchecked THEN {e} ELSE {})
    /\ UNCHANGED <<rows, created, aux_doubled>>

(* The rows as R and one new row for each of New.                          *)
Write(e, R, New) ==
    LET many == Cardinality(DOMAIN New)
        id == CHOOSE f \in [DOMAIN New -> (created + 1) .. (created + many)] :
                 \A i, j \in DOMAIN New : f[i] = f[j] => i = j
        repeated == {i \in DOMAIN New : \E j \in DOMAIN New \ {i} : New[j].subject = New[i].subject}
    IN  /\ created + many <= MaxRows
        /\ rows' = R \cup {[id |-> id[i], subject |-> New[i].subject, hours |-> New[i].hours,
                            custom |-> New[i].custom] : i \in DOMAIN New}
        /\ created' = created + many
        /\ aux_doubled' = aux_doubled \cup
              {New[i].subject : i \in IF e \in aux_met THEN DOMAIN New ELSE repeated}

End(e) ==
    /\ editing' = [editing EXCEPT ![e] = NoEdit]
    /\ aux_met' = aux_met \ {e}

Standard(t, S) == [s \in S |-> [subject |-> s, hours |-> t[s], custom |-> FALSE]]

Applying(t) == [op |-> "apply", template |-> t, todo |-> DOMAIN t]

CheckNothing(e, t) ==                   \* mutant: applyStundentafel without its count
    Begin(e, Applying(t), FALSE)

(* applyStundentafel: refused when the class has rows already.  The        *)
(* request names the schoolType.                                           *)
CheckEmpty(e, t) == rows = {} /\ Begin(e, Applying(t), FALSE)

(* POST subjects/apply-template goes to the same applyTemplate, unchecked. *)
ApplyUnchecked(e, t) == Begin(e, Applying(t), TRUE)

(* applyTemplate: one subject after the other, each row on its own.        *)
ApplyNext(e) ==
    /\ editing[e] # NoEdit /\ editing[e].op = "apply"
    /\ LET s == CHOOSE s \in editing[e].todo : TRUE
           rest == editing[e].todo \ {s}
       IN  /\ Write(e, rows, Standard(editing[e].template, {s}))
           /\ IF rest = {} THEN End(e)
              ELSE /\ editing' = [editing EXCEPT ![e].todo = rest]
                   /\ UNCHANGED aux_met

(* updateClassSubjects: the transaction reads the rows it goes by.         *)
BeginUpdate(e, wanted) == Begin(e, [op |-> "update", seen |-> rows, wanted |-> wanted], FALSE)

(* A reset in progress has locked the rows it deletes.                     *)
Locked(e) == UNION {Ids(editing[d].seen) : d \in {x \in Others(e) : editing[x].op = "reset"}}

Custom(w) == w.subject \notin DOMAIN OwnTemplate \/ OwnTemplate[w.subject] # w.hours

(* Rows of other subjects go; a row is created for each entry that names a *)
(* subject without a row, and for the others one row of the subject is     *)
(* updated, in the order of the list.  A row that has gone meanwhile       *)
(* aborts the transaction.                                                 *)
CommitUpdate(e) ==
    LET seen == editing[e].seen
        wanted == editing[e].wanted
        named == {wanted[i].subject : i \in DOMAIN wanted}
        known == {s \in named : \E r \in seen : r.subject = s}
        lasts == {i \in DOMAIN wanted : /\ wanted[i].subject \in known
                                        /\ \A j \in DOMAIN wanted : wanted[j].subject = wanted[i].subject => j <= i}
        fresh == {i \in DOMAIN wanted : wanted[i].subject \notin known}
        dropped == {r \in seen : r.subject \notin named}
    IN  /\ editing[e] # NoEdit /\ editing[e].op = "update"
        /\ Ids(seen) \cap Locked(e) = {}
        /\ \E prior \in [known -> Ids(seen)] :
             /\ \A s \in known : \E r \in seen : r.id = prior[s] /\ r.subject = s
             /\ LET updated == UNION {{[r EXCEPT !.hours = wanted[i].hours, !.custom = Custom(wanted[i])] :
                                           r \in {q \in rows : q.id = prior[wanted[i].subject]}} : i \in lasts}
                    others == {r \in rows : r.id \notin Ids(dropped) \cup Ids(updated)}
                IN  IF Cardinality(updated) < Cardinality(known)
                    THEN UNCHANGED <<rows, created, aux_doubled>>
                    ELSE Write(e, others \cup updated,
                               [i \in fresh |-> [subject |-> wanted[i].subject, hours |-> wanted[i].hours,
                                                 custom |-> Custom(wanted[i])]])
        /\ End(e)

(* resetStundentafel: deletes the rows it sees, and writes the template's. *)
BeginReset(e, t) == Begin(e, [op |-> "reset", template |-> t, seen |-> rows], FALSE)

CommitReset(e) ==
    LET t == editing[e].template
    IN  /\ editing[e] # NoEdit /\ editing[e].op = "reset"
        /\ Write(e, {r \in rows : r.id \notin Ids(editing[e].seen)}, Standard(t, DOMAIN t))
        /\ End(e)

(* addToClass and removeFromClass.                                         *)
AddToClass(s, h) ==
    /\ created < MaxRows
    /\ rows' = rows \cup {[id |-> created + 1, subject |-> s, hours |-> h, custom |-> TRUE]}
    /\ created' = created + 1
    /\ aux_doubled' = aux_doubled \cup {s}
    /\ UNCHANGED <<editing, aux_met>>

RemoveFromClass(r) ==
    /\ r.id \notin UNION {Ids(editing[d].seen) : d \in {x \in Editors : editing[x] # NoEdit /\ editing[x].op = "reset"}}
    /\ rows' = rows \ {r}
    /\ UNCHANGED <<created, editing, aux_met, aux_doubled>>

CurriculumNext ==
    \/ \E e \in Editors :
         \/ \E t \in Templates : CheckEmpty(e, t) \/ ApplyUnchecked(e, t) \/ BeginReset(e, t)
         \/ \E wanted \in Wishes : BeginUpdate(e, wanted)
         \/ ApplyNext(e) \/ CommitUpdate(e) \/ CommitReset(e)
    \/ \E s \in Subjects, h \in HourChoices : AddToClass(s, h)
    \/ \E r \in rows : RemoveFromClass(r)

CurriculumSpec == CurriculumInit /\ [][CurriculumNext]_curriculumVars
-----------------------------------------------------------------------------
(* Types: ids are unique.                                                  *)
CurriculumTypeOK ==
    /\ rows \subseteq [id : 1 .. created, subject : Subjects, hours : Nat, custom : BOOLEAN]
    /\ \A r, q \in rows : r.id = q.id => r = q
    /\ created \in 0 .. MaxRows

(* "auto-flips isCustomized=true whenever the incoming weeklyHours         *)
(* diverges": a standard row has the hours of the template that was asked  *)
(* for, or of the school's own; and a subject has a second row, and the    *)
(* solver twice its lessons, only if a call gave it one that met another,  *)
(* that checks nothing, or that named the subject twice itself: no history *)
(* of other calls does.                                                    *)
OneRowPerSubject ==
    /\ \A s \in Subjects \ aux_doubled : Cardinality(RowsOf(s)) <= 1
    /\ \A r \in rows : r.custom \/
          \E t \in Templates \cup {OwnTemplate} : r.subject \in DOMAIN t /\ r.hours = t[r.subject]

(* "fails 409 if rows already exist": what is applied is applied once.     *)
AppliedOnce == \A s \in Subjects : Cardinality({r \in RowsOf(s) : ~ r.custom}) <= 1
=============================================================================
