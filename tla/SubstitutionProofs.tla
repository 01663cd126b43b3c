------------------------- MODULE SubstitutionProofs -------------------------
(***************************************************************************)
(* What holds of Substitution for any timetable, any number of absences    *)
(* and any number of answers under way at once.                            *)
(***************************************************************************)
EXTENDS Substitution, SequenceTheorems, TLAPS

(* The unique keys of class_book_entries: one entry for each lesson and    *)
(* date, and one at most for each substitution, under the key of its       *)
(* lesson.                                                                 *)
UniqueKeys ==
    /\ \A e, f \in entries : e.key = f.key => e = f
    /\ \A e \in entries : e.sub # NoSub => e.key = SubKey(e.sub)

(* ClassBookMatches, of one substitution, but whatever its status: a late  *)
(* answer may decline quiet work and another confirm it again, and the     *)
(* entry must still be there by then.                                      *)
Matches(s) ==
    /\ row[s].type = "SUBSTITUTED" /\ row[s].status = "CONFIRMED"
          => Entry(s, row[s].substitute) \in entries
    /\ row[s].type = "STILLARBEIT" => Entry(s, Owner(s, row[s].substitute)) \in entries
    /\ row[s].type = "ENTFALL" => \A e \in entries : e.sub # s

StandInInv == TypeOK /\ UniqueKeys /\ \A s \in subs : Matches(s)

-----------------------------------------------------------------------------
(* The rows and the class book.                                            *)

(* The rows the transactions write are rows.                               *)
LEMMA RowsAreRows ==
    /\ NoRow \in Row /\ PendingRow \in Row
    /\ \A t \in Teachers :
          [status |-> "OFFERED", type |-> "SUBSTITUTED", substitute |-> t] \in Row
    /\ \A t \in Teachers \cup {NoTeacher} :
          [status |-> "CONFIRMED", type |-> "STILLARBEIT", substitute |-> t] \in Row
BY DEF NoRow, PendingRow, Row

(* The entry of a substitution is an entry of the class book.              *)
LEMMA EntryIsEntry ==
    ASSUME NEW s \in SubIds, NEW t \in Teachers \cup {NoTeacher}
    PROVE  /\ Entry(s, t) \in BookEntry
           /\ Entry(s, t).sub = s /\ Entry(s, t).key = SubKey(s) /\ Entry(s, t).teacher = t
BY DEF Entry, BookEntry, SubKey, SubIds

(* The owner the class book names is a teacher or nobody.                  *)
LEMMA OwnerIsTeacher ==
    ASSUME NEW s \in SubIds, NEW t \in Teachers \cup {NoTeacher}
    PROVE  Owner(s, t) \in Teachers \cup {NoTeacher}
BY PlanAssumption DEF Owner, SubIds, Lessons

(* The upsert by substitutionId keeps both unique keys, writes the entry   *)
(* asked for, and touches no other substitution's.                         *)
LEMMA UpsertKeepsBook ==
    ASSUME entries \subseteq BookEntry, UniqueKeys,
           NEW s \in SubIds, NEW t \in Teachers \cup {NoTeacher}, CanUpsert(s), Upsert(s, t)
    PROVE  /\ entries' \subseteq BookEntry /\ UniqueKeys'
           /\ Entry(s, t) \in entries'
           /\ \A e \in BookEntry : e.sub # s => (e \in entries' <=> e \in entries)
<1> DEFINE new == Entry(s, t)
<1>1. new \in BookEntry /\ new.sub = s /\ new.key = SubKey(s)
    BY EntryIsEntry
<1>2. entries' = {e \in entries : e.sub # s} \cup {new}
    BY DEF Upsert
<1>3. s # NoSub
    BY PlanAssumption
<1>4. ASSUME NEW e \in entries, e.sub # s PROVE e.key # new.key
  <2>1. CASE \E f \in entries : f.sub = s
    <3>1. PICK f \in entries : f.sub = s
        BY <2>1
    <3>2. f.key = SubKey(s) /\ f # e
        BY <1>3, <1>4, <3>1 DEF UniqueKeys
    <3>3. QED
        BY <1>1, <3>2 DEF UniqueKeys
  <2>2. CASE \A f \in entries : f.key # SubKey(s)
      BY <1>1, <2>2
  <2>3. QED
      BY <2>1, <2>2 DEF CanUpsert
<1>5. UniqueKeys'
  <2>1. ASSUME NEW e \in entries', NEW f \in entries', e.key = f.key PROVE e = f
      BY <1>2, <1>4, <2>1 DEF UniqueKeys
  <2>2. ASSUME NEW e \in entries', e.sub # NoSub PROVE e.key = SubKey(e.sub)
      BY <1>1, <1>2, <2>2 DEF UniqueKeys
  <2>3. \A x : SubKey(x)' = SubKey(x)
      BY DEF SubKey, Key
  <2>4. QED
      BY <2>1, <2>2, <2>3 DEF UniqueKeys
<1> HIDE DEF new
<1>6. QED
    BY <1>1, <1>2, <1>5 DEF new

-----------------------------------------------------------------------------
(* Steps that leave the class book alone.                                  *)

(* Such a step may write rows that have no say in the class book, or       *)
(* confirm what is no substitute.                                          *)
LEMMA SameBook ==
    ASSUME StandInInv, UNCHANGED entries,
           \A s \in SubIds :
              \/ row'[s] = row[s]
              \/ row'[s].status # "CONFIRMED" /\ row'[s].type \in {"NONE", "SUBSTITUTED"}
              \/ /\ s \in subs
                 /\ row'[s].type = row[s].type /\ row'[s].substitute = row[s].substitute
                 /\ row'[s].type # "SUBSTITUTED" \/ row'[s].status # "CONFIRMED"
    PROVE  UniqueKeys' /\ \A s \in subs' : Matches(s)'
<1>1. UniqueKeys'
    BY DEF StandInInv, UniqueKeys, SubKey, Key
<1>2. ASSUME NEW s \in subs' PROVE Matches(s)'
  <2>1. s \in SubIds /\ (row'[s] = row[s] => s \in subs)
      BY DEF subs
  <2>2. s \in subs => Matches(s)
      BY DEF StandInInv
  <2>3. QED
      BY <2>1, <2>2 DEF Matches, Entry, Owner, SubKey, Key
<1>3. QED
    BY <1>1, <1>2

(* Types, but for a new answer: no step takes a row an answer may be about *)
(* away, or back to PENDING.                                               *)
LEMMA TypeStep ==
    ASSUME TypeOK,
           active' \in Runs,
           absences' \in Seq([teacher : Teachers, status : {"ACTIVE", "CANCELLED"}]),
           row' \in [SubIds -> Row], entries' \subseteq BookEntry, aux_stale' \in BOOLEAN,
           \A s \in subs' : s.absence \in DOMAIN absences',
           \A s \in SubIds : row[s].status \notin {"NONE", "PENDING"}
                                => row'[s].status \notin {"NONE", "PENDING"},
           answer' = answer \/ \E r \in Requests : answer' = [answer EXCEPT ![r] = Idle]
    PROVE  TypeOK'
<1>1. Idle \in Answer
    BY DEF Idle, Answer
<1>2. answer' \in [Requests -> Answer]
    BY <1>1 DEF TypeOK
<1>3. ASSUME NEW r \in Requests, answer'[r] # Idle
      PROVE  answer'[r].sub \in subs' /\ row'[answer'[r].sub].status # "PENDING"
  <2>1. answer'[r] = answer[r]
      BY <1>3 DEF TypeOK
  <2>2. answer[r].sub \in subs /\ row[answer[r].sub].status # "PENDING"
      BY <1>3, <2>1 DEF TypeOK
  <2>3. QED
      BY <2>1, <2>2 DEF subs
<1>4. QED
    BY <1>2, <1>3 DEF TypeOK

(* Types, for a transaction that writes one substitution.                  *)
LEMMA TypeOneRow ==
    ASSUME TypeOK, UNCHANGED <<active, absences>>,
           NEW s \in subs, NEW new \in Row, new.status \notin {"NONE", "PENDING"},
           row' = [row EXCEPT ![s] = new],
           entries' \subseteq BookEntry, aux_stale' \in BOOLEAN,
           answer' = answer \/ \E r \in Requests : answer' = [answer EXCEPT ![r] = Idle]
    PROVE  TypeOK'
<1>1. row' \in [SubIds -> Row] /\ s \in SubIds
    BY DEF TypeOK, subs
<1>2. row'[s] = new /\ \A q \in SubIds : q # s => row'[q] = row[q]
    BY <1>1 DEF TypeOK
<1>3. \A q \in subs' : q.absence \in DOMAIN absences'
    BY <1>2 DEF TypeOK, subs
<1>4. \A q \in SubIds : row[q].status \notin {"NONE", "PENDING"}
                           => row'[q].status \notin {"NONE", "PENDING"}
    BY <1>2
<1>5. /\ active' \in Runs
      /\ absences' \in Seq([teacher : Teachers, status : {"ACTIVE", "CANCELLED"}])
    BY DEF TypeOK
<1>6. QED
    BY <1>1, <1>3, <1>4, <1>5, TypeStep

-----------------------------------------------------------------------------
(* One lemma for each action.                                              *)

(* A new absence adds PENDING substitutions, each of them new: its number  *)
(* is.                                                                     *)
LEMMA CreateKeeps ==
    ASSUME StandInInv,
           NEW t \in Teachers, NEW first \in Dates, NEW last \in Dates,
           NEW lo \in Periods, NEW hi \in Periods, CreateAbsence(t, first, last, lo, hi)
    PROVE  StandInInv'
<1> DEFINE new == Expansion(Len(absences) + 1, t, first, last, lo, hi)
           absence == [teacher |-> t, status |-> "ACTIVE"]
<1>1. /\ row' = [s \in SubIds |-> IF s \in new THEN PendingRow ELSE row[s]]
      /\ absences' = Append(absences, absence)
      /\ UNCHANGED <<active, entries, answer, aux_stale>>
    BY DEF CreateAbsence
<1>2. \A s \in new : s.absence = Len(absences) + 1
    BY DEF Expansion
<1>3. TypeOK
    BY DEF StandInInv
<1> HIDE DEF new
<1>4. /\ absences' \in Seq([teacher : Teachers, status : {"ACTIVE", "CANCELLED"}])
      /\ DOMAIN absences = 1 .. Len(absences) /\ DOMAIN absences' = 1 .. Len(absences) + 1
      /\ Len(absences) \in Nat
    BY <1>1, <1>3 DEF TypeOK
<1>5. \A s \in new : row[s].status = "NONE" \/ s \notin SubIds
    BY <1>2, <1>3, <1>4 DEF TypeOK, subs
<1>6. row' \in [SubIds -> Row] /\ PendingRow.status = "PENDING" /\ PendingRow.type = "NONE"
    BY <1>1, <1>3, RowsAreRows DEF TypeOK, PendingRow, NoRow
<1>7. \A s \in subs' : s.absence \in DOMAIN absences'
    BY <1>1, <1>2, <1>3, <1>4 DEF TypeOK, subs
<1>8. TypeOK'
  <2>1. \A s \in SubIds : row[s].status \notin {"NONE", "PENDING"}
                             => row'[s].status \notin {"NONE", "PENDING"}
      BY <1>1, <1>5
  <2>2. active' \in Runs /\ entries' \subseteq BookEntry /\ aux_stale' \in BOOLEAN
      BY <1>1, <1>3 DEF TypeOK
  <2>3. QED
      BY <1>1, <1>3, <1>4, <1>6, <1>7, <2>1, <2>2, TypeStep
<1>9. \A s \in SubIds :
          row'[s] = row[s] \/ (row'[s].status # "CONFIRMED" /\ row'[s].type = "NONE")
    BY <1>1, <1>6
<1>10. QED
    BY <1>1, <1>8, <1>9, SameBook DEF StandInInv

(* A cancelled absence takes PENDING substitutions with it, and no others. *)
LEMMA CancelKeeps ==
    ASSUME StandInInv, NEW a \in AbsenceIds, CancelAbsence(a)
    PROVE  StandInInv'
<1>1. /\ row' = [s \in SubIds |-> IF s.absence = a /\ row[s].status = "PENDING"
                                   THEN NoRow ELSE row[s]]
      /\ absences' = [absences EXCEPT ![a].status = "CANCELLED"]
      /\ a \in DOMAIN absences
      /\ UNCHANGED <<active, entries, answer, aux_stale>>
    BY DEF CancelAbsence
<1>2. TypeOK
    BY DEF StandInInv
<1>3. NoRow \in Row /\ NoRow.status = "NONE" /\ NoRow.type = "NONE"
    BY RowsAreRows DEF NoRow
<1>4. row' \in [SubIds -> Row]
    BY <1>1, <1>2, <1>3 DEF TypeOK
<1>5. /\ absences' \in Seq([teacher : Teachers, status : {"ACTIVE", "CANCELLED"}])
      /\ DOMAIN absences' = DOMAIN absences
  <2> DEFINE Absence == [teacher : Teachers, status : {"ACTIVE", "CANCELLED"}]
             new == [absences[a] EXCEPT !.status = "CANCELLED"]
  <2>a. absences \in Seq(Absence) /\ a \in DOMAIN absences
      BY <1>1, <1>2 DEF TypeOK
  <2>b. \A x \in Absence : [x EXCEPT !.status = "CANCELLED"] \in Absence
      OBVIOUS
  <2> HIDE DEF Absence
  <2>1. absences \in Seq(Absence) /\ a \in 1 .. Len(absences) /\ absences[a] \in Absence
      BY <2>a
  <2>2. new \in Absence /\ absences' = [absences EXCEPT ![a] = new]
      BY <1>1, <2>1, <2>b
  <2> HIDE DEF new
  <2>3. absences' \in Seq(Absence) /\ Len(absences') = Len(absences)
      BY <2>1, <2>2, ExceptSeq
  <2>4. QED
      BY <2>1, <2>3 DEF Absence
<1>6. \A s \in subs' : s.absence \in DOMAIN absences'
    BY <1>1, <1>2, <1>3, <1>5 DEF TypeOK, subs
<1>7. TypeOK'
  <2>1. \A s \in SubIds : row[s].status \notin {"NONE", "PENDING"}
                             => row'[s].status \notin {"NONE", "PENDING"}
      BY <1>1
  <2>2. active' \in Runs /\ entries' \subseteq BookEntry /\ aux_stale' \in BOOLEAN
      BY <1>1, <1>2 DEF TypeOK
  <2>3. QED
      BY <1>1, <1>2, <1>4, <1>5, <1>6, <2>1, <2>2, TypeStep
<1>8. \A s \in SubIds :
          row'[s] = row[s] \/ (row'[s].status # "CONFIRMED" /\ row'[s].type = "NONE")
    BY <1>1, <1>3
<1>9. QED
    BY <1>1, <1>7, <1>8, SameBook DEF StandInInv

(* An offer confirms nothing.                                              *)
LEMMA AssignKeeps ==
    ASSUME StandInInv, NEW s \in SubIds, NEW t \in Teachers, AssignSubstitute(s, t)
    PROVE  StandInInv'
<1> DEFINE new == [status |-> "OFFERED", type |-> "SUBSTITUTED", substitute |-> t]
<1>1. s \in subs /\ row' = [row EXCEPT ![s] = new]
         /\ UNCHANGED <<active, absences, entries, answer, aux_stale>>
    BY DEF AssignSubstitute
<1>2. new \in Row /\ new.status = "OFFERED" /\ new.type = "SUBSTITUTED"
    BY RowsAreRows
<1> HIDE DEF new
<1>3. TypeOK /\ entries' \subseteq BookEntry /\ aux_stale' \in BOOLEAN
    BY <1>1 DEF StandInInv, TypeOK
<1>4. TypeOK'
    BY <1>1, <1>2, <1>3, TypeOneRow
<1>5. \A q \in SubIds :
          row'[q] = row[q] \/ (row'[q].status # "CONFIRMED" /\ row'[q].type = "SUBSTITUTED")
    BY <1>1, <1>2, <1>3 DEF TypeOK
<1>6. QED
    BY <1>1, <1>4, <1>5, SameBook DEF StandInInv

(* Entfall confirms a substitution and takes its entry out of the book.    *)
LEMMA EntfallKeeps ==
    ASSUME StandInInv, NEW s \in SubIds, SetEntfall(s)
    PROVE  StandInInv'
<1> DEFINE new == Lapsed(s)
<1>1. /\ s \in subs /\ row' = [row EXCEPT ![s] = new]
      /\ entries' = {e \in entries : e.sub # s}
      /\ UNCHANGED <<active, absences, answer, aux_stale>>
    BY DEF SetEntfall
<1>2. new \in Row /\ new.status = "CONFIRMED" /\ new.type = "ENTFALL"
    BY DEF StandInInv, TypeOK, Lapsed, Row
<1> HIDE DEF new
<1>3. TypeOK /\ entries' \subseteq BookEntry /\ aux_stale' \in BOOLEAN
    BY <1>1 DEF StandInInv, TypeOK
<1>4. TypeOK'
    BY <1>1, <1>2, <1>3, TypeOneRow
<1>5. UniqueKeys'
    BY <1>1 DEF StandInInv, UniqueKeys, SubKey, Key
<1>6. row'[s] = new /\ \A q \in SubIds : q # s => row'[q] = row[q]
    BY <1>1, <1>3 DEF TypeOK
<1>7. ASSUME NEW q \in SubIds, q # s, NEW t, Entry(q, t) \in entries
      PROVE  Entry(q, t)' \in entries'
    BY <1>1, <1>7 DEF Entry, SubKey, Key
<1>8. ASSUME NEW q \in subs' PROVE Matches(q)'
  <2>1. CASE q = s
      BY <1>1, <1>2, <1>6, <2>1 DEF Matches
  <2>2. CASE q # s
    <3>1. q \in subs /\ row'[q] = row[q]
        BY <1>6, <2>2 DEF subs
    <3>2. Matches(q)
        BY <3>1 DEF StandInInv
    <3>3. QED
        BY <1>1, <1>7, <2>2, <3>1, <3>2 DEF Matches, Owner, subs
  <2>3. QED
      BY <2>1, <2>2
<1>9. QED
    BY <1>4, <1>5, <1>8 DEF StandInInv

(* A row confirmed together with its entry.                                *)
LEMMA UpsertKeepsMatches ==
    ASSUME StandInInv, NEW s \in subs, NEW t \in Teachers \cup {NoTeacher}, CanUpsert(s),
           Upsert(s, t), NEW new \in Row, row' = [row EXCEPT ![s] = new],
           \/ new.type = "SUBSTITUTED" /\ t = new.substitute
           \/ new.type = "STILLARBEIT" /\ t = Owner(s, new.substitute)
    PROVE  entries' \subseteq BookEntry /\ UniqueKeys' /\ \A q \in subs' : Matches(q)'
<1>1. s \in SubIds /\ entries \subseteq BookEntry /\ UniqueKeys
    BY DEF StandInInv, TypeOK, subs
<1>2. /\ entries' \subseteq BookEntry /\ UniqueKeys'
      /\ Entry(s, t) \in entries'
      /\ \A e \in BookEntry : e.sub # s => (e \in entries' <=> e \in entries)
    BY <1>1, UpsertKeepsBook
<1>3. row'[s] = new /\ \A q \in SubIds : q # s => row'[q] = row[q]
    BY <1>1 DEF StandInInv, TypeOK
<1>4. ASSUME NEW q \in subs' PROVE Matches(q)'
  <2>1. CASE q = s
      BY <1>2, <1>3, <2>1 DEF Matches, Entry, SubKey, Key, Owner
  <2>2. CASE q # s
    <3>1. q \in subs /\ q \in SubIds /\ row'[q] = row[q] /\ row[q] \in Row
        BY <1>3, <2>2 DEF StandInInv, TypeOK, subs
    <3>2. Matches(q)
        BY <1>4, <3>1 DEF StandInInv
    <3>3. \A e \in entries' : e.sub # s => e \in entries
        BY <1>2
    <3>4. \A e \in entries : e.sub # s => e \in entries'
        BY <1>1, <1>2
    <3>5. \A u : Entry(q, u).sub = q /\ Entry(q, u)' = Entry(q, u)
        BY DEF Entry, SubKey, Key
    <3>6. \A u : Owner(q, u)' = Owner(q, u)
        BY DEF Owner
    <3>7. QED
        BY <2>2, <3>1, <3>2, <3>3, <3>4, <3>5, <3>6 DEF Matches
  <2>3. QED
      BY <2>1, <2>2
<1>5. QED
    BY <1>2, <1>4

(* Quiet work is confirmed together with its entry.                        *)
LEMMA StillarbeitKeeps ==
    ASSUME StandInInv, NEW s \in SubIds, NEW t \in Teachers \cup {NoTeacher},
           SetStillarbeit(s, t)
    PROVE  StandInInv'
<1> DEFINE new == [status |-> "CONFIRMED", type |-> "STILLARBEIT", substitute |-> t]
<1>1. /\ s \in subs /\ CanUpsert(s) /\ row' = [row EXCEPT ![s] = new]
      /\ Upsert(s, Owner(s, t))
      /\ UNCHANGED <<active, absences, answer, aux_stale>>
    BY DEF SetStillarbeit
<1>2. /\ new \in Row /\ new.status = "CONFIRMED"
      /\ new.type = "STILLARBEIT" /\ new.substitute = t
    BY RowsAreRows
<1> HIDE DEF new
<1>3. Owner(s, t) \in Teachers \cup {NoTeacher}
    BY OwnerIsTeacher
<1>4. entries' \subseteq BookEntry /\ UniqueKeys' /\ \A q \in subs' : Matches(q)'
    BY <1>1, <1>2, <1>3, UpsertKeepsMatches
<1>5. TypeOK /\ aux_stale' \in BOOLEAN
    BY <1>1 DEF StandInInv, TypeOK
<1>6. TypeOK'
    BY <1>1, <1>2, <1>4, <1>5, TypeOneRow
<1>7. QED
    BY <1>4, <1>6 DEF StandInInv

(* Activating a run touches neither substitutions nor the class book.      *)
LEMMA ActivateKeeps ==
    ASSUME StandInInv, NEW r \in Runs, ActivateRun(r)
    PROVE  StandInInv'
<1>1. TypeOK'
    BY DEF StandInInv, ActivateRun, TypeOK, subs
<1>2. \A s \in SubIds : row'[s] = row[s]
    BY DEF ActivateRun
<1>3. QED
    BY <1>1, <1>2, SameBook DEF StandInInv, ActivateRun

(* An answer under way is about a row that is OFFERED.                     *)
LEMMA ReadKeeps ==
    ASSUME StandInInv, NEW r \in Requests, NEW s \in SubIds, NEW t \in Teachers,
           NEW accept \in BOOLEAN, ReadOffer(r, s, t, accept)
    PROVE  StandInInv'
<1> DEFINE new == [sub |-> s, by |-> t, accept |-> accept]
<1>1. /\ answer' = [answer EXCEPT ![r] = new] /\ s \in subs /\ row[s].status = "OFFERED"
      /\ UNCHANGED <<active, absences, row, entries, aux_stale>>
    BY DEF ReadOffer
<1>2. new \in Answer /\ new.sub = s
    BY DEF Answer
<1> HIDE DEF new
<1>3. TypeOK
    BY DEF StandInInv
<1>4. ASSUME NEW q \in Requests, answer'[q] # Idle
      PROVE  answer'[q].sub \in subs' /\ row'[answer'[q].sub].status # "PENDING"
    BY <1>1, <1>2, <1>3, <1>4 DEF TypeOK, subs
<1>5. TypeOK'
    BY <1>1, <1>2, <1>3, <1>4 DEF TypeOK, subs
<1>6. \A q \in SubIds : row'[q] = row[q]
    BY <1>1
<1>7. QED
    BY <1>1, <1>5, <1>6, SameBook DEF StandInInv

(* However late it is written, an answer that confirms a substitute writes *)
(* the entry too, and one that does not leaves the book alone.             *)
LEMMA WriteKeeps ==
    ASSUME StandInInv, NEW r \in Requests, WriteAnswer(r)
    PROVE  StandInInv'
<1> DEFINE s == answer[r].sub
           accept == answer[r].accept
           new == Answered(s, accept)
<1>1. TypeOK /\ answer[r] # Idle
    BY DEF StandInInv, WriteAnswer
<1>2. s \in subs /\ s \in SubIds /\ row[s] \in Row
    BY <1>1 DEF TypeOK, subs
<1>3. /\ row' = [row EXCEPT ![s] = new]
      /\ answer' = [answer EXCEPT ![r] = Idle]
      /\ aux_stale' \in BOOLEAN
      /\ UNCHANGED <<active, absences>>
    BY <1>1 DEF WriteAnswer, TypeOK
<1>4. /\ new \in Row /\ new.status = IF accept THEN "CONFIRMED" ELSE "DECLINED"
      /\ new.type = row[s].type /\ new.substitute = row[s].substitute
    BY <1>2 DEF Answered, Row
<1>5. IF NeedsEntry(s, accept) THEN CanUpsert(s) /\ Upsert(s, row[s].substitute)
                               ELSE UNCHANGED entries
    BY DEF WriteAnswer
<1> HIDE DEF s, accept, new
<1>6. entries' \subseteq BookEntry /\ UniqueKeys' /\ \A q \in subs' : Matches(q)'
  <2>1. CASE NeedsEntry(s, accept)
    <3>1. row[s].substitute \in Teachers \cup {NoTeacher} /\ new.type = "SUBSTITUTED"
        BY <1>2, <1>4, <2>1 DEF Row, NeedsEntry
    <3>2. QED
        BY <1>2, <1>3, <1>4, <1>5, <2>1, <3>1, UpsertKeepsMatches
  <2>2. CASE ~NeedsEntry(s, accept)
    <3>1. UNCHANGED entries
        BY <1>5, <2>2
    <3>2. new.type # "SUBSTITUTED" \/ new.status # "CONFIRMED"
        BY <1>4, <2>2 DEF NeedsEntry
    <3>3. \A q \in SubIds :
             \/ row'[q] = row[q]
             \/ /\ q \in subs
                /\ row'[q].type = row[q].type /\ row'[q].substitute = row[q].substitute
                /\ row'[q].type # "SUBSTITUTED" \/ row'[q].status # "CONFIRMED"
        BY <1>1, <1>2, <1>3, <1>4, <3>2 DEF TypeOK
    <3>4. QED
        BY <1>1, <3>1, <3>3, SameBook DEF TypeOK
  <2>3. QED
      BY <2>1, <2>2
<1>7. TypeOK'
    BY <1>1, <1>2, <1>3, <1>4, <1>6, TypeOneRow
<1>8. QED
    BY <1>6, <1>7 DEF StandInInv

(* A refused answer leaves everything as it was.                           *)
LEMMA RefusalKeeps ==
    ASSUME StandInInv, NEW r \in Requests, AnswerRefused(r)
    PROVE  StandInInv'
<1>1. /\ answer' = [answer EXCEPT ![r] = Idle]
      /\ UNCHANGED <<active, absences, row, entries, aux_stale>>
    BY DEF AnswerRefused
<1>2. /\ TypeOK /\ active' \in Runs /\ row' \in [SubIds -> Row] /\ entries' \subseteq BookEntry
      /\ absences' \in Seq([teacher : Teachers, status : {"ACTIVE", "CANCELLED"}])
      /\ aux_stale' \in BOOLEAN /\ \A s \in subs' : s.absence \in DOMAIN absences'
    BY <1>1 DEF StandInInv, TypeOK, subs
<1>3. TypeOK'
    BY <1>1, <1>2, TypeStep
<1>4. QED
    BY <1>1, <1>3, SameBook DEF StandInInv

(* Opening a lesson creates its entry only where there is none yet.        *)
LEMMA OpenKeeps ==
    ASSUME StandInInv, NEW l \in Lessons, NEW d \in Dates, OpenLesson(l, d)
    PROVE  StandInInv'
<1> DEFINE new == [key |-> Key(l, d), sub |-> NoSub, teacher |-> NoTeacher]
<1>1. /\ entries' = entries \cup {new} /\ \A e \in entries : e.key # Key(l, d)
      /\ UNCHANGED <<active, absences, row, answer, aux_stale>>
    BY DEF OpenLesson
<1>2. new \in BookEntry /\ new.key = Key(l, d) /\ new.sub = NoSub
    BY DEF BookEntry
<1> HIDE DEF new
<1>3. TypeOK'
    BY <1>1, <1>2 DEF StandInInv, TypeOK, subs
<1>4. UniqueKeys'
  <2>1. ASSUME NEW e \in entries', NEW f \in entries', e.key = f.key PROVE e = f
      BY <1>1, <1>2, <2>1 DEF StandInInv, UniqueKeys
  <2>2. ASSUME NEW e \in entries', e.sub # NoSub PROVE e.key = SubKey(e.sub)'
      BY <1>1, <1>2, <2>2 DEF StandInInv, UniqueKeys, SubKey, Key
  <2>3. QED
      BY <2>1, <2>2 DEF UniqueKeys
<1>5. ASSUME NEW s \in subs' PROVE Matches(s)'
  <2>1. s \in subs /\ s \in SubIds /\ Matches(s) /\ row' = row
      BY <1>1 DEF StandInInv, subs
  <2>2. \A e \in entries' : e.sub = s => e \in entries
      BY <1>1, <1>2, <2>1, PlanAssumption
  <2>3. QED
      BY <1>1, <2>1, <2>2 DEF Matches, Entry, Owner, SubKey, Key
<1>6. QED
    BY <1>3, <1>4, <1>5 DEF StandInInv

-----------------------------------------------------------------------------
(* The theorems.                                                           *)

(* No absence, no entry, no answer at first.                               *)
LEMMA StandInInit == Init => StandInInv
<1> SUFFICES ASSUME Init PROVE StandInInv
    OBVIOUS
<1>1. /\ active \in Runs /\ absences = << >> /\ row = [s \in SubIds |-> NoRow]
      /\ entries = {} /\ answer = [r \in Requests |-> Idle] /\ aux_stale = FALSE
    BY DEF Init
<1>2. NoRow \in Row /\ NoRow.status = "NONE" /\ Idle \in Answer
    BY RowsAreRows DEF NoRow, Idle, Answer
<1>3. subs = {}
    BY <1>1, <1>2 DEF subs
<1>4. TypeOK
  <2>1. absences \in Seq([teacher : Teachers, status : {"ACTIVE", "CANCELLED"}])
      BY <1>1
  <2>2. row \in [SubIds -> Row] /\ answer \in [Requests -> Answer]
      BY <1>1, <1>2
  <2>3. \A r \in Requests : answer[r] = Idle
      BY <1>1
  <2>4. QED
      BY <1>1, <1>3, <2>1, <2>2, <2>3 DEF TypeOK
<1>5. QED
    BY <1>1, <1>3, <1>4 DEF StandInInv, UniqueKeys

(* Every step keeps the invariant.                                         *)
LEMMA StandInStep == StandInInv /\ [Next]_vars => StandInInv'
<1> SUFFICES ASSUME StandInInv, [Next]_vars PROVE StandInInv'
    OBVIOUS
<1>1. CASE AbsenceStep
    BY <1>1, CreateKeeps, CancelKeeps DEF AbsenceStep
<1>2. CASE AdminStep
    BY <1>2, AssignKeeps, EntfallKeeps, StillarbeitKeeps, ActivateKeeps DEF AdminStep
<1>3. CASE TeacherStep
    BY <1>3, ReadKeeps, WriteKeeps, RefusalKeeps, OpenKeeps DEF TeacherStep
<1>4. CASE UNCHANGED vars
  <2>1. /\ UNCHANGED <<active, absences, row, entries, answer, aux_stale>>
      BY <1>4 DEF vars
  <2>2. TypeOK'
      BY <2>1 DEF StandInInv, TypeOK, subs
  <2>3. QED
      BY <2>1, <2>2, SameBook DEF StandInInv
<1>5. QED
    BY <1>1, <1>2, <1>3, <1>4 DEF Next

(* The invariant of the stand-ins: types, the unique keys of the class     *)
(* book, and an entry for every substitution that has one to have.         *)
THEOREM StandInCorrect == Spec => []StandInInv
BY StandInInit, StandInStep, PTL DEF Spec

(* The class book says of every settled substitution what its row says,    *)
(* whatever answers were under way when it was settled.                    *)
THEOREM ClassBookIsRight == Spec => []ClassBookMatches
<1>1. StandInInv => ClassBookMatches
    BY DEF StandInInv, Matches, ClassBookMatches
<1>2. QED
    BY <1>1, StandInCorrect, PTL

(* Of all the substitutions that overlapping absences leave for one lesson *)
(* on one date, one at most is ever staffed.                               *)
THEOREM OneStandInEver == Spec => []OneStandIn
<1>1. ASSUME StandInInv, NEW s \in subs, NEW q \in subs, Staffed(s), Staffed(q),
             SubKey(s) = SubKey(q)
      PROVE  s = q
  <2>1. PICK e \in entries : e.sub = s /\ e.key = SubKey(s)
      BY <1>1 DEF StandInInv, Matches, Staffed, Entry
  <2>2. PICK f \in entries : f.sub = q /\ f.key = SubKey(q)
      BY <1>1 DEF StandInInv, Matches, Staffed, Entry
  <2>3. QED
      BY <1>1, <2>1, <2>2 DEF StandInInv, UniqueKeys
<1>2. StandInInv => OneStandIn
    BY <1>1 DEF OneStandIn
<1>3. QED
    BY <1>2, StandInCorrect, PTL

-----------------------------------------------------------------------------
(* One offer per teacher and slot.                                         *)

Offered(s) == row[s].type = "SUBSTITUTED" /\ row[s].status \in Busy

(* A step that writes no row, or rows that are then no offer, or an offer  *)
(* that was one before to the same teacher, makes no double offer.         *)
LEMMA FewerOffers ==
    ASSUME NoDoubleOffer, aux_stale' = FALSE => aux_stale = FALSE,
           \A s \in subs' : Offered(s)' =>
              s \in subs /\ Offered(s) /\ row'[s].substitute = row[s].substitute
    PROVE  NoDoubleOffer'
BY DEF NoDoubleOffer, Offered

(* Every step but an assignment is such a step, as long as no answer is    *)
(* stale; and an assignment has looked.                                    *)
LEMMA NoDoubleStep == TypeOK /\ NoDoubleOffer /\ [Next]_vars => NoDoubleOffer'
<1> SUFFICES ASSUME TypeOK, NoDoubleOffer, [Next]_vars PROVE NoDoubleOffer'
    OBVIOUS
<1>0. row \in [SubIds -> Row] /\ aux_stale \in BOOLEAN
    BY DEF TypeOK
<1>1. CASE AbsenceStep
  <2>a. PendingRow.type = "NONE" /\ NoRow.type = "NONE"
      BY DEF PendingRow, NoRow
  <2>b. ASSUME NEW t \in Teachers, NEW first \in Dates, NEW last \in Dates,
               NEW lo \in Periods, NEW hi \in Periods, CreateAbsence(t, first, last, lo, hi)
        PROVE  \A s \in SubIds : row'[s] = row[s] \/ row'[s].type = "NONE"
      BY <2>a, <2>b DEF CreateAbsence
  <2>c. ASSUME NEW a \in AbsenceIds, CancelAbsence(a)
        PROVE  \A s \in SubIds : row'[s] = row[s] \/ row'[s].type = "NONE"
      BY <2>a, <2>c DEF CancelAbsence
  <2>1. \A s \in SubIds : row'[s] = row[s] \/ row'[s].type = "NONE"
      BY <1>1, <2>b, <2>c DEF AbsenceStep
  <2>2. aux_stale' = aux_stale
      BY <1>1 DEF AbsenceStep, CreateAbsence, CancelAbsence
  <2>3. QED
      BY <2>1, <2>2, FewerOffers DEF Offered, subs
<1>2. CASE AdminStep
  <2>1. ASSUME NEW s \in SubIds, NEW t \in Teachers, AssignSubstitute(s, t) PROVE NoDoubleOffer'
    <3>1. /\ row'[s] = [status |-> "OFFERED", type |-> "SUBSTITUTED", substitute |-> t]
          /\ \A q \in SubIds : q # s => row'[q] = row[q]
          /\ s \in subs /\ ~StandsIn(t, s) /\ aux_stale' = aux_stale
        BY <1>0, <2>1 DEF AssignSubstitute
    <3>2. ASSUME NEW q \in subs', q # s, SameSlot(q, s), Offered(q)' PROVE row'[q].substitute # t
        BY <3>1, <3>2 DEF StandsIn, Offered, subs
    <3>3. \A q \in subs' : q \in subs
        BY <3>1 DEF subs
    <3>4. ASSUME ~aux_stale, NEW x \in subs', NEW y \in subs', x # y, SameSlot(x, y),
                 Offered(x)', Offered(y)'
          PROVE  row'[x].substitute # row'[y].substitute
      <4>1. SameSlot(y, x)
          BY <3>4 DEF SameSlot
      <4>2. CASE x = s
          BY <3>1, <3>2, <3>4, <4>1, <4>2
      <4>3. CASE y = s
          BY <3>1, <3>2, <3>4, <4>3
      <4>4. CASE x # s /\ y # s
        <5>1. x \in subs /\ y \in subs /\ row'[x] = row[x] /\ row'[y] = row[y]
            BY <3>1, <3>3, <4>4 DEF subs
        <5>2. QED
            BY <3>4, <5>1 DEF NoDoubleOffer, Offered
      <4>5. QED
          BY <4>2, <4>3, <4>4
    <3>5. QED
        BY <3>1, <3>4 DEF NoDoubleOffer, Offered, SameSlot
  <2>2. ASSUME NEW s \in SubIds, SetEntfall(s) \/ \E t \in Teachers \cup {NoTeacher} :
                                                     SetStillarbeit(s, t)
        PROVE  NoDoubleOffer'
    <3>1. /\ row'[s].type \in {"ENTFALL", "STILLARBEIT"} /\ aux_stale' = aux_stale
          /\ \A q \in SubIds : q # s => row'[q] = row[q]
        BY <1>0, <2>2 DEF SetEntfall, SetStillarbeit, Lapsed
    <3>2. QED
        BY <3>1, FewerOffers DEF Offered, subs
  <2>3. ASSUME NEW r \in Runs, ActivateRun(r) PROVE NoDoubleOffer'
      BY <2>3, FewerOffers DEF ActivateRun, Offered, subs
  <2>4. QED
      BY <1>2, <2>1, <2>2, <2>3 DEF AdminStep
<1>3. CASE TeacherStep
  <2>1. ASSUME NEW r \in Requests, WriteAnswer(r) PROVE NoDoubleOffer'
    <3> DEFINE s == answer[r].sub
    <3>1. s \in SubIds /\ row[s] \in Row
        BY <1>0, <2>1 DEF WriteAnswer, TypeOK, subs
    <3>2. /\ row' = [row EXCEPT ![s] = Answered(s, answer[r].accept)]
          /\ aux_stale' = (aux_stale \/ row[s].status # "OFFERED"
                                     \/ row[s].substitute # answer[r].by)
        BY <2>1 DEF WriteAnswer
    <3> HIDE DEF s
    <3>3. /\ row'[s].type = row[s].type /\ row'[s].substitute = row[s].substitute
          /\ \A q \in SubIds : q # s => row'[q] = row[q]
        BY <1>0, <3>1, <3>2 DEF Answered, Row
    <3>4. CASE row[s].status = "OFFERED"
        BY <1>0, <3>1, <3>2, <3>3, <3>4, FewerOffers DEF Offered, subs, Busy
    <3>5. CASE row[s].status # "OFFERED"
        BY <3>2, <3>5 DEF NoDoubleOffer
    <3>6. QED
        BY <3>4, <3>5
  <2>2. CASE UNCHANGED <<row, aux_stale>>
      BY <2>2, FewerOffers DEF Offered, subs
  <2>3. QED
      BY <1>3, <2>1, <2>2 DEF TeacherStep, ReadOffer, AnswerRefused, OpenLesson
<1>4. CASE UNCHANGED vars
    BY <1>4, FewerOffers DEF vars, Offered, subs
<1>5. QED
    BY <1>1, <1>2, <1>3, <1>4 DEF Next

(* Every substitution, absence, answer and class book entry keeps its      *)
(* type, and an answer under way is about a substitution still there.      *)
THEOREM StandInTypes == Spec => []TypeOK
<1>1. StandInInv => TypeOK
    BY DEF StandInInv
<1>2. QED
    BY <1>1, StandInCorrect, PTL

(* No two admins, and no one admin either, offer a teacher two lessons of  *)
(* a slot, until an answer is written to an offer it was not read from.    *)
THEOREM OneOfferPerSlot == Spec => []NoDoubleOffer
<1>1. Init => NoDoubleOffer
    BY DEF Init, NoDoubleOffer, subs, NoRow
<1>2. StandInInv => TypeOK
    BY DEF StandInInv
<1>3. QED
    BY <1>1, <1>2, StandInCorrect, NoDoubleStep, PTL DEF Spec
=============================================================================
