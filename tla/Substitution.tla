---------------------------- MODULE Substitution ----------------------------
(***************************************************************************)
(* Standing in for absent teachers: TeacherAbsenceService registers and    *)
(* cancels absences, SubstitutionService offers the lessons they leave to  *)
(* other teachers, takes their answers, or lets a lesson lapse (Entfall)   *)
(* or run as quiet work (Stillarbeit), and links the class book.           *)
(*                                                                         *)
(* A school week has one weekday here, so a date is the number of its      *)
(* week.  Every action is one transaction, but for an answer to an offer:  *)
(* it reads the row and then writes it by id, with no lock in between.     *)
(* assignSubstitute runs at Serializable: two of them are ordered by the   *)
(* database, and it fails if its own row was written since it began, so it *)
(* is one step.                                                            *)
(***************************************************************************)
EXTENDS Naturals, FiniteSets, Sequences

CONSTANTS Teachers, NoTeacher,
          Runs, Plan,             \* Plan[r]: the lessons of run r
          AbWeekEnabled,
          Dates, Periods,
          Requests,               \* answers that may be under way at once
          NoSub,
          MaxAbsences

AbsenceIds == 1 .. MaxAbsences
Lessons == UNION {Plan[r] : r \in Runs}
SubIds == [absence : AbsenceIds, lesson : Lessons, date : Dates]

ASSUME PlanAssumption ==
    /\ Plan \in [Runs -> SUBSET [teacher : Teachers, classSubject : STRING, period : Periods,
                                 week : {"A", "B", "BOTH"}]]
    /\ Dates \subseteq Nat /\ Periods \subseteq Nat
    /\ AbWeekEnabled \in BOOLEAN /\ MaxAbsences \in Nat
    /\ NoTeacher \notin Teachers /\ NoSub \notin SubIds

VARIABLES
    active,                       \* the active run of the school
    absences,                     \* teacher_absences, in order of creation
    row,                          \* substitutions, by absence, lesson and date
    entries,                      \* class_book_entries
    answer,                       \* respondToOffer between its read and its write
    aux_stale                     \* an answer was written to another offer than it read

vars == <<active, absences, row, entries, answer, aux_stale>>

NoRow == [status |-> "NONE", type |-> "NONE", substitute |-> NoTeacher]
PendingRow == [NoRow EXCEPT !.status = "PENDING"]
Idle == [sub |-> NoSub, by |-> NoTeacher, accept |-> FALSE]

Busy == {"OFFERED", "CONFIRMED"}
subs == {s \in SubIds : row[s].status # "NONE"}

SameSlot(s, q) == s.date = q.date /\ s.lesson.period = q.lesson.period

(* The unique key [classSubjectId, date, periodNumber, weekType] of the    *)
(* class book.                                                             *)
Key(lesson, date) == <<lesson.classSubject, date, lesson.period, lesson.week>>
SubKey(s) == Key(s.lesson, s.date)

Init ==
    /\ active \in Runs
    /\ absences = << >>
    /\ row = [s \in SubIds |-> NoRow]
    /\ entries = {}
    /\ answer = [r \in Requests |-> Idle]
    /\ aux_stale = FALSE
-----------------------------------------------------------------------------
(* Absences.                                                               *)

(* Odd ISO weeks are A weeks.                                              *)
IsWeekCompatible(date, week) ==
    ~AbWeekEnabled \/ week = "BOTH" \/ week = (IF date % 2 = 1 THEN "A" ELSE "B")

(* The substitutions of an absence from first to last in periods lo to hi. *)
Expansion(a, t, first, last, lo, hi) ==
    {s \in SubIds : /\ s.absence = a
                    /\ s.lesson \in Plan[active] /\ s.lesson.teacher = t
                    /\ s.date \in first .. last
                    /\ IsWeekCompatible(s.date, s.lesson.week)
                    /\ s.lesson.period \in lo .. hi}

CreateAbsence(t, first, last, lo, hi) ==
    /\ Len(absences) < MaxAbsences
    /\ first <= last /\ lo <= hi
    /\ absences' = Append(absences, [teacher |-> t, status |-> "ACTIVE"])
    /\ LET new == Expansion(Len(absences) + 1, t, first, last, lo, hi)
       IN  row' = [s \in SubIds |-> IF s \in new THEN PendingRow ELSE row[s]]
    /\ UNCHANGED <<active, entries, answer, aux_stale>>

CancelDeletingAll(a) ==                          \* mutant: no filter on PENDING
    /\ a \in DOMAIN absences
    /\ absences' = [absences EXCEPT ![a].status = "CANCELLED"]
    /\ row' = [s \in SubIds |-> IF s.absence = a THEN NoRow ELSE row[s]]
    /\ UNCHANGED <<active, entries, answer, aux_stale>>

(* cancel, again if it pleases: only PENDING substitutions are deleted.    *)
CancelAbsence(a) ==
    /\ a \in DOMAIN absences
    /\ absences' = [absences EXCEPT ![a].status = "CANCELLED"]
    /\ row' = [s \in SubIds |-> IF s.absence = a /\ row[s].status = "PENDING"
                                THEN NoRow ELSE row[s]]
    /\ UNCHANGED <<active, entries, answer, aux_stale>>
-----------------------------------------------------------------------------
(* The class book.                                                         *)

UpsertAnyKey(s) == TRUE                          \* mutant: no unique key

(* The upsert by substitutionId: it updates the entry of the substitution, *)
(* or creates one unless the unique key is taken.                          *)
CanUpsert(s) ==
    \/ \E e \in entries : e.sub = s
    \/ \A e \in entries : e.key # SubKey(s)

Entry(s, t) == [key |-> SubKey(s), sub |-> s, teacher |-> t]
Upsert(s, t) == entries' = {e \in entries : e.sub # s} \cup {Entry(s, t)}

(* getOrCreateEntry, when someone opens a lesson: who it is does not       *)
(* matter here.                                                            *)
OpenLesson(lesson, date) ==
    /\ \A e \in entries : e.key # Key(lesson, date)
    /\ entries' = entries \cup {[key |-> Key(lesson, date), sub |-> NoSub,
                                 teacher |-> NoTeacher]}
    /\ UNCHANGED <<active, absences, row, answer, aux_stale>>
-----------------------------------------------------------------------------
(* The life of a substitution.                                             *)

(* The clash queries of assignSubstitute; the lesson's week is not looked  *)
(* at.                                                                     *)
Teaches(t, period) == \E l \in Plan[active] : l.teacher = t /\ l.period = period
StandsIn(t, s) ==
    \E q \in subs \ {s} : SameSlot(q, s) /\ row[q].substitute = t /\ row[q].status \in Busy

AssignWithoutSubstitutions(s, t) ==              \* mutant: query (b) is dropped
    /\ s \in subs /\ row[s].status \in {"PENDING", "DECLINED"}
    /\ ~Teaches(t, s.lesson.period)
    /\ row' = [row EXCEPT ![s] = [status |-> "OFFERED", type |-> "SUBSTITUTED", substitute |-> t]]
    /\ UNCHANGED <<active, absences, entries, answer, aux_stale>>

AssignSubstitute(s, t) ==
    /\ s \in subs /\ row[s].status \in {"PENDING", "DECLINED"}
    /\ ~Teaches(t, s.lesson.period) /\ ~StandsIn(t, s)
    /\ row' = [row EXCEPT ![s] = [status |-> "OFFERED", type |-> "SUBSTITUTED", substitute |-> t]]
    /\ UNCHANGED <<active, absences, entries, answer, aux_stale>>

(* respondToOffer: status and substitute are checked ...                   *)
ReadOffer(r, s, t, accept) ==
    /\ answer[r] = Idle
    /\ s \in subs /\ row[s].status = "OFFERED" /\ row[s].substitute = t
    /\ answer' = [answer EXCEPT ![r] = [sub |-> s, by |-> t, accept |-> accept]]
    /\ UNCHANGED <<active, absences, row, entries, aux_stale>>

(* ... and the row is written by id: the type and the substitute of the    *)
(* class book entry are those of the row as it is by then.                 *)
Answered(s, accept) == [row[s] EXCEPT !.status = IF accept THEN "CONFIRMED" ELSE "DECLINED"]
NeedsEntry(s, accept) == accept /\ row[s].type = "SUBSTITUTED"

WriteAnswer(r) ==
    /\ answer[r] # Idle
    /\ LET s == answer[r].sub  accept == answer[r].accept
       IN  /\ row' = [row EXCEPT ![s] = Answered(s, accept)]
           /\ IF NeedsEntry(s, accept) THEN CanUpsert(s) /\ Upsert(s, row[s].substitute)
                                       ELSE UNCHANGED entries
           /\ aux_stale' = (aux_stale \/ row[s].status # "OFFERED"
                                      \/ row[s].substitute # answer[r].by)
    /\ answer' = [answer EXCEPT ![r] = Idle]
    /\ UNCHANGED <<active, absences>>

(* The class book refuses the entry: the transaction is rolled back.       *)
AnswerRefused(r) ==
    /\ answer[r] # Idle
    /\ NeedsEntry(answer[r].sub, answer[r].accept) /\ ~CanUpsert(answer[r].sub)
    /\ answer' = [answer EXCEPT ![r] = Idle]
    /\ UNCHANGED <<active, absences, row, entries, aux_stale>>

Lapsed(s) == [status |-> "CONFIRMED", type |-> "ENTFALL", substitute |-> row[s].substitute]

EntfallKeepsEntry(s) ==                          \* mutant: deleteMany is forgotten
    /\ s \in subs
    /\ row' = [row EXCEPT ![s] = Lapsed(s)]
    /\ UNCHANGED <<active, absences, entries, answer, aux_stale>>

(* From any status; the substitute stays on the row.                       *)
SetEntfall(s) ==
    /\ s \in subs
    /\ row' = [row EXCEPT ![s] = Lapsed(s)]
    /\ entries' = {e \in entries : e.sub # s}
    /\ UNCHANGED <<active, absences, answer, aux_stale>>

(* The teacher the class book names: the supervisor, or the absent one.    *)
Owner(s, supervisor) == IF supervisor = NoTeacher THEN s.lesson.teacher ELSE supervisor

(* From any status; nobody asks whether the supervisor is free.            *)
SetStillarbeit(s, supervisor) ==
    /\ s \in subs /\ CanUpsert(s)
    /\ row' = [row EXCEPT ![s] = [status |-> "CONFIRMED", type |-> "STILLARBEIT",
                                  substitute |-> supervisor]]
    /\ Upsert(s, Owner(s, supervisor))
    /\ UNCHANGED <<active, absences, answer, aux_stale>>

(* activateRun of another run, which looks at no substitution.             *)
ActivateRun(r) ==
    /\ active' = r
    /\ UNCHANGED <<absences, row, entries, answer, aux_stale>>
-----------------------------------------------------------------------------
AbsenceStep ==
    \/ \E t \in Teachers, first, last \in Dates, lo, hi \in Periods :
          CreateAbsence(t, first, last, lo, hi)
    \/ \E a \in AbsenceIds : CancelAbsence(a)

AdminStep ==
    \/ \E s \in SubIds, t \in Teachers : AssignSubstitute(s, t)
    \/ \E s \in SubIds : SetEntfall(s)
    \/ \E s \in SubIds, t \in Teachers \cup {NoTeacher} : SetStillarbeit(s, t)
    \/ \E r \in Runs : ActivateRun(r)

TeacherStep ==
    \/ \E r \in Requests, s \in SubIds, t \in Teachers, accept \in BOOLEAN :
          ReadOffer(r, s, t, accept)
    \/ \E r \in Requests : WriteAnswer(r) \/ AnswerRefused(r)
    \/ \E l \in Lessons, d \in Dates : OpenLesson(l, d)

Next == AbsenceStep \/ AdminStep \/ TeacherStep

Spec == Init /\ [][Next]_vars
-----------------------------------------------------------------------------
Row == [status : {"NONE", "PENDING", "OFFERED", "CONFIRMED", "DECLINED"},
        type : {"NONE", "SUBSTITUTED", "ENTFALL", "STILLARBEIT"},
        substitute : Teachers \cup {NoTeacher}]

Answer == [sub : SubIds \cup {NoSub}, by : Teachers \cup {NoTeacher}, accept : BOOLEAN]
BookEntry == [key : {Key(l, d) : l \in Lessons, d \in Dates}, sub : SubIds \cup {NoSub},
              teacher : Teachers \cup {NoTeacher}]

(* Types; an answer under way is about a substitution that is still there, *)
(* so the update by id of respondToOffer never misses.                     *)
TypeOK ==
    /\ active \in Runs
    /\ absences \in Seq([teacher : Teachers, status : {"ACTIVE", "CANCELLED"}])
    /\ row \in [SubIds -> Row]
    /\ \A s \in subs : s.absence \in DOMAIN absences
    /\ entries \subseteq BookEntry
    /\ answer \in [Requests -> Answer]
    /\ \A r \in Requests : answer[r] # Idle =>
          answer[r].sub \in subs /\ row[answer[r].sub].status # "PENDING"
    /\ aux_stale \in BOOLEAN

(* What the class book says of a settled substitution is what the row      *)
(* says: the substitute's entry, the supervisor's, or none.                *)
ClassBookMatches ==
    \A s \in subs : row[s].status = "CONFIRMED" =>
        /\ row[s].type = "SUBSTITUTED" => Entry(s, row[s].substitute) \in entries
        /\ row[s].type = "STILLARBEIT" => Entry(s, Owner(s, row[s].substitute)) \in entries
        /\ row[s].type = "ENTFALL" => \A e \in entries : e.sub # s

Staffed(s) == row[s].status = "CONFIRMED" /\ row[s].type \in {"SUBSTITUTED", "STILLARBEIT"}

(* Two absences may leave two substitutions of one lesson on one date.     *)
(* Only one of them is ever staffed: the unique key of the class book      *)
(* refuses the other answer.                                               *)
OneStandIn == \A s, q \in subs : Staffed(s) /\ Staffed(q) /\ SubKey(s) = SubKey(q) => s = q

(* assignSubstitute promises that a teacher stands in for one lesson of a  *)
(* slot at a time.  That holds until an answer is written to an offer      *)
(* other than the one it read.                                             *)
NoDoubleOffer ==
    ~aux_stale =>
        \A s, q \in subs : /\ s # q /\ SameSlot(s, q)
                           /\ row[s].status \in Busy /\ row[q].status \in Busy
                           /\ row[s].type = "SUBSTITUTED" /\ row[q].type = "SUBSTITUTED"
                           => row[s].substitute # row[q].substitute

(* The controller documents 409 for an answer to a substitution that is    *)
(* not OFFERED, so a settled one is never turned into a declined one.      *)
SettledIsNotDeclined ==
    [][\A s \in subs : row[s].status = "CONFIRMED" => row'[s].status # "DECLINED"]_vars
=============================================================================
