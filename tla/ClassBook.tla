----------------------------- MODULE ClassBook -----------------------------
(***************************************************************************)
(* Attendance in the class book of one class, and the excuses of its       *)
(* students: AttendanceService and ExcuseService with the rows they keep,  *)
(* and the AttendanceGrid of each teacher who has a lesson open, with its  *)
(* query cache, its debounced save and its requests under way.             *)
(*                                                                         *)
(* A class book entry is its lesson.  Of a record the status and the       *)
(* excuse it is linked to are kept; how late a student was is not.         *)
(***************************************************************************)
EXTENDS Integers, Sequences

CONSTANTS
    Students,       \* the students of the class
    Lessons,        \* its lessons
    Days,           \* the days an excuse may begin or end
    DateOf,         \* the day of each lesson
    Teachers,       \* who may open a lesson in an AttendanceGrid
    Reviewers,      \* who may review an excuse
    MaxExcuses,     \* bound: excuses handed in
    MaxTaps,        \* bound: status changes in the grids
    None            \* no record, no register, no request

Status == {"PRESENT", "ABSENT", "LATE", "EXCUSED"}
Excuses == 1 .. MaxExcuses
NoExcuse == 0

Record == [status : Status, excuse : {NoExcuse} \cup Excuses]
Row == Record \cup {None}
Excuse == [student : Students, from : Days, to : Days, status : {"PENDING", "ACCEPTED", "REJECTED"}]

(* What a grid shows and sends: a status for every student.                *)
Register == [Students -> Status]

ASSUME ClassBookAssumption ==
    /\ Days \subseteq Nat /\ DateOf \in [Lessons -> Days]
    /\ MaxExcuses \in Nat /\ MaxTaps \in Nat
    /\ None \notin Lessons /\ None \notin Record /\ None \notin Register

VARIABLES
    record,     \* record[l][s]: the AttendanceRecord of s in lesson l, or None
    opened,     \* the lessons that have a ClassBookEntry
    excuse,     \* the AbsenceExcuse rows, in order of creation
    review,     \* what each reviewer has read of the excuse under review
    grid,       \* the AttendanceGrid of each teacher
    saves,      \* PUT and POST requests of the grids under way
    taps,       \* taps so far
    aux_meant,  \* auxiliary: what each teacher last set, where nobody else wrote since
    aux_doubt,  \* auxiliary: why what a teacher set may not have been stored
    aux_newest, \* auxiliary: the latest save of each teacher that was stored
    aux_late,   \* auxiliary: the records a teacher wrote while or after an excuse for them was reviewed
    aux_twice   \* auxiliary: the excuses decided on by two reviewers

registers == <<record, opened, excuse, review>>
classBookAux == <<aux_meant, aux_doubt, aux_newest, aux_late, aux_twice>>
classBookVars == <<registers, grid, saves, taps, classBookAux>>

Closed == [lesson |-> None, cache |-> None, local |-> None, dirty |-> FALSE,
           timer |-> None, query |-> "idle", answer |-> None, last |-> 0]
NotReviewing == [excuse |-> NoExcuse, verdict |-> "PENDING", lessons |-> {}]
NothingMeant == [s \in Students |-> None]

ClassBookInit ==
    /\ record = [l \in Lessons |-> [s \in Students |-> None]]
    /\ opened = {}
    /\ excuse = << >>
    /\ review = [v \in Reviewers |-> NotReviewing]
    /\ grid = [t \in Teachers |-> Closed]
    /\ saves = {} /\ taps = 0
    /\ aux_meant = [t \in Teachers |-> NothingMeant]
    /\ aux_doubt = [t \in Teachers |-> {}]
    /\ aux_newest = [t \in Teachers |-> 0]
    /\ aux_late = {} /\ aux_twice = {}
-----------------------------------------------------------------------------
(* What an excuse covers: its student, in the lessons of its days.         *)

Covers(x, l, s) ==
    /\ s = excuse[x].student
    /\ DateOf[l] \in excuse[x].from .. excuse[x].to

(* Auxiliary: what t set and the current step leaves as it is.             *)
Kept(t) ==
    [s \in Students |->
        IF grid[t].lesson # None /\ record'[grid[t].lesson][s] # record[grid[t].lesson][s]
        THEN None ELSE aux_meant[t][s]]

Has(l) == \E s \in Students : record[l][s] # None
Shown(l) == [s \in Students |-> record[l][s].status]

(* createExcuse: the last day is not before the first, and the child is    *)
(* the parent's own (every student here has a parent).                     *)
CreateExcuse(s, from, to) ==
    /\ Len(excuse) < MaxExcuses
    /\ from <= to
    /\ excuse' = Append(excuse, [student |-> s, from |-> from, to |-> to, status |-> "PENDING"])
    /\ UNCHANGED <<record, opened, review, grid, saves, taps, classBookAux>>

(* reviewExcuse checks the status and reads the entries of the days ...    *)
StartReview(v, x, verdict) ==
    /\ review[v] = NotReviewing
    /\ x \in DOMAIN excuse
    /\ excuse[x].status = "PENDING"
    /\ review' = [review EXCEPT ![v] =
          [excuse |-> x, verdict |-> verdict,
           lessons |-> {l \in opened : DateOf[l] \in excuse[x].from .. excuse[x].to}]]
    /\ UNCHANGED <<record, opened, excuse, grid, saves, taps, classBookAux>>

Excused(x, lessons) ==
    [l \in Lessons |-> [s \in Students |->
        IF /\ l \in lessons /\ s = excuse[x].student
           /\ record[l][s] # None /\ record[l][s].status = "ABSENT"
        THEN [status |-> "EXCUSED", excuse |-> x]
        ELSE record[l][s]]]

WriteReviewAnyVerdict(v) ==                      \* mutant: a rejected excuse excuses too
    LET x == review[v].excuse
    IN  /\ x # NoExcuse
        /\ excuse' = [excuse EXCEPT ![x].status = review[v].verdict]
        /\ record' = Excused(x, review[v].lessons)
        /\ review' = [review EXCEPT ![v] = NotReviewing]
        /\ UNCHANGED <<opened, grid, saves, taps, classBookAux>>

(* ... and writes both in a transaction, without looking again.            *)
WriteReview(v) ==
    LET x == review[v].excuse
    IN  /\ x # NoExcuse
        /\ excuse' = [excuse EXCEPT ![x].status = review[v].verdict]
        /\ record' = IF review[v].verdict = "ACCEPTED" THEN Excused(x, review[v].lessons) ELSE record
        /\ review' = [review EXCEPT ![v] = NotReviewing]
        /\ aux_twice' = IF excuse[x].status # "PENDING" THEN aux_twice \cup {x} ELSE aux_twice
        /\ aux_meant' = [t \in Teachers |-> Kept(t)]
        /\ UNCHANGED <<opened, grid, saves, taps, aux_doubt, aux_newest, aux_late>>
-----------------------------------------------------------------------------
(* The server's side of a grid.                                            *)

(* getAttendanceForEntry: a register without records is created first ...  *)
ReadRegister(t) ==
    LET l == grid[t].lesson
    IN  /\ grid[t].query = "sent"
        /\ grid' = [grid EXCEPT ![t].query = IF Has(l) THEN "answered" ELSE "creating",
                                ![t].answer = IF Has(l) THEN Shown(l) ELSE None]
        /\ UNCHANGED <<registers, saves, taps, classBookAux>>

CreateRecords(t) ==                              \* mutant: a transaction for each record
    LET l == grid[t].lesson
    IN  /\ grid[t].query = "creating"
        /\ \E some \in SUBSET Students :
              /\ some # {}
              /\ record' = [record EXCEPT ![l] =
                    [s \in Students |-> IF s \in some THEN [status |-> "PRESENT", excuse |-> NoExcuse] ELSE @[s]]]
        /\ grid' = [grid EXCEPT ![t].query = "idle"]
        /\ UNCHANGED <<opened, excuse, review, saves, taps, classBookAux>>

(* ... all records in one transaction, then read again.  Of two requests   *)
(* that found none the second runs into the unique key and fails whole.    *)
CreateRegister(t) ==
    LET l == grid[t].lesson
    IN  /\ grid[t].query = "creating"
        /\ IF Has(l)
           THEN /\ grid' = [grid EXCEPT ![t].query = "idle"]
                /\ UNCHANGED record
           ELSE /\ grid' = [grid EXCEPT ![t].query = "sent"]
                /\ record' = [record EXCEPT ![l] =
                      [s \in Students |-> [status |-> "PRESENT", excuse |-> NoExcuse]]]
        /\ UNCHANGED <<opened, excuse, review, saves, taps, classBookAux>>

(* bulkUpdateAttendance and setAllPresent write status, not excuseId.      *)
Written(l, rows) ==
    [s \in Students |->
        [status |-> rows[s], excuse |-> IF record[l][s] = None THEN NoExcuse ELSE record[l][s].excuse]]

UnderReview(l, s) ==
    \E x \in DOMAIN excuse :
        /\ Covers(x, l, s)
        /\ excuse[x].status = "ACCEPTED" \/ \E v \in Reviewers : review[v].excuse = x

SaveArrives(m) ==
    /\ m.at = "sent"
    /\ record' = [record EXCEPT ![m.lesson] = Written(m.lesson, m.rows)]
    /\ saves' = (saves \ {m}) \cup {[m EXCEPT !.at = "done"]}
    /\ aux_meant' = [t \in Teachers |-> IF t = m.from THEN aux_meant[t] ELSE Kept(t)]
    /\ aux_doubt' = [aux_doubt EXCEPT ![m.from] =
          IF m.no < aux_newest[m.from] THEN @ \cup {"overtaken"} ELSE @]
    /\ aux_newest' = [aux_newest EXCEPT ![m.from] = IF m.no > @ THEN m.no ELSE @]
    /\ aux_late' = aux_late \cup {<<m.lesson, s>> : s \in {u \in Students : UnderReview(m.lesson, u)}}
    /\ UNCHANGED <<opened, excuse, review, grid, taps, aux_twice>>
-----------------------------------------------------------------------------
(* The AttendanceGrid.                                                     *)

NextStatus == [PRESENT |-> "ABSENT", ABSENT |-> "LATE", LATE |-> "EXCUSED", EXCUSED |-> "PRESENT"]

(* invalidateQueries: an answer still under way is dropped.                *)
Refetching(g) == [g EXCEPT !.query = "sent", !.answer = None]

(* The effect on [serverRecords, isDirty]: a clean grid shows the cache.   *)
Clean(g) == IF g.dirty THEN [g EXCEPT !.dirty = FALSE, !.local = g.cache] ELSE g

(* Navigating to a lesson gets or creates its entry and mounts the grid.   *)
OpenLesson(t, l) ==
    /\ grid[t].lesson = None
    /\ opened' = opened \cup {l}
    /\ grid' = [grid EXCEPT ![t] = [Closed EXCEPT !.lesson = l, !.query = "sent", !.last = grid[t].last]]
    /\ aux_meant' = [aux_meant EXCEPT ![t] = NothingMeant]
    /\ UNCHANGED <<record, excuse, review, saves, taps, aux_doubt, aux_newest, aux_late, aux_twice>>

(* Unmounting clears the timer, and a save with it.                        *)
Leave(t) ==
    /\ grid[t].lesson # None
    /\ grid' = [grid EXCEPT ![t] = [Closed EXCEPT !.last = grid[t].last]]
    /\ aux_meant' = [aux_meant EXCEPT ![t] = NothingMeant]
    /\ UNCHANGED <<registers, saves, taps, aux_doubt, aux_newest, aux_late, aux_twice>>

(* A window that regains focus, or the event of another grid's save.       *)
Refetch(t) ==
    /\ grid[t].lesson # None
    /\ grid[t].query = "idle"
    /\ grid' = [grid EXCEPT ![t] = Refetching(@)]
    /\ UNCHANGED <<registers, saves, taps, classBookAux>>

ReceiveRegister(t) ==
    LET g == grid[t]
    IN  /\ g.query = "answered"
        /\ grid' = [grid EXCEPT ![t] =
              [g EXCEPT !.query = "idle", !.answer = None, !.cache = g.answer,
                        !.local = IF g.answer # g.cache /\ ~g.dirty THEN g.answer ELSE g.local]]
        /\ UNCHANGED <<registers, saves, taps, classBookAux>>

TapFirstWins(t, s) ==                            \* mutant: a running timer keeps its payload
    LET g == grid[t]
        shown == [g.local EXCEPT ![s] = NextStatus[@]]
    IN  /\ taps < MaxTaps
        /\ g.local # None
        /\ taps' = taps + 1
        /\ grid' = [grid EXCEPT ![t] = [g EXCEPT !.local = shown, !.dirty = TRUE,
                                                !.timer = IF g.timer = None THEN shown ELSE @]]
        /\ aux_meant' = [aux_meant EXCEPT ![t][s] = shown[s]]
        /\ UNCHANGED <<registers, saves, aux_doubt, aux_newest, aux_late, aux_twice>>

Tap(t, s) ==
    LET g == grid[t]
        shown == [g.local EXCEPT ![s] = NextStatus[@]]
    IN  /\ taps < MaxTaps
        /\ g.local # None
        /\ taps' = taps + 1
        /\ grid' = [grid EXCEPT ![t] = [g EXCEPT !.local = shown, !.dirty = TRUE, !.timer = shown]]
        /\ aux_meant' = [aux_meant EXCEPT ![t][s] = shown[s]]
        /\ aux_doubt' = [aux_doubt EXCEPT ![t] =
              IF \E u \in Students \ {s} : aux_meant[t][u] \notin {None, shown[u]}
              THEN @ \cup {"reverted"} ELSE @]
        /\ UNCHANGED <<registers, saves, aux_newest, aux_late, aux_twice>>

Save(t, kind, rows) ==
    [from |-> t, no |-> grid[t].last + 1, kind |-> kind, lesson |-> grid[t].lesson,
     rows |-> rows, at |-> "sent"]

TimerFires(t) ==
    /\ grid[t].timer # None
    /\ saves' = saves \cup {Save(t, "bulk", grid[t].timer)}
    /\ grid' = [grid EXCEPT ![t].timer = None, ![t].last = @ + 1]
    /\ UNCHANGED <<registers, taps, classBookAux>>

AllPresent == [s \in Students |-> "PRESENT"]

(* The button is disabled while a request of its own is under way.         *)
SetAllPresent(t) ==
    LET g == grid[t]
    IN  /\ taps < MaxTaps
        /\ g.local # None
        /\ \A m \in saves : m.from = t => m.kind # "all"
        /\ taps' = taps + 1
        /\ grid' = [grid EXCEPT ![t] =
              [Clean([g EXCEPT !.local = AllPresent]) EXCEPT !.timer = None, !.last = @ + 1]]
        /\ saves' = saves \cup {Save(t, "all", AllPresent)}
        /\ aux_meant' = [aux_meant EXCEPT ![t] = AllPresent]
        /\ UNCHANGED <<registers, aux_doubt, aux_newest, aux_late, aux_twice>>

(* The answer to a save invalidates the query; that of the latest bulk     *)
(* save makes the grid clean, which shows the cache until the new answer.  *)
SaveAnswered(m) ==
    LET t == m.from
        latest == ~\E n \in saves : n.from = t /\ n.kind = "bulk" /\ n.no > m.no
    IN  /\ m.at = "done"
        /\ saves' = saves \ {m}
        /\ grid' = IF grid[t].lesson # m.lesson THEN grid
                   ELSE [grid EXCEPT ![t] =
                      IF m.kind = "bulk" /\ latest THEN Clean(Refetching(@)) ELSE Refetching(@)]
        /\ UNCHANGED <<registers, taps, classBookAux>>

(* A request or its answer is lost; the grid says so and stays dirty.      *)
SaveLost(m) ==
    /\ saves' = saves \ {m}
    /\ aux_doubt' = [aux_doubt EXCEPT ![m.from] = @ \cup {"lost"}]
    /\ UNCHANGED <<registers, grid, taps, aux_meant, aux_newest, aux_late, aux_twice>>
-----------------------------------------------------------------------------
Excusing ==
    \/ \E s \in Students, from, to \in Days : CreateExcuse(s, from, to)
    \/ \E v \in Reviewers, x \in DOMAIN excuse, d \in {"ACCEPTED", "REJECTED"} : StartReview(v, x, d)
    \/ \E v \in Reviewers : WriteReview(v)

Recording ==
    \/ \E t \in Teachers, l \in Lessons : OpenLesson(t, l)
    \/ \E t \in Teachers : \/ Leave(t) \/ Refetch(t) \/ ReadRegister(t) \/ CreateRegister(t)
                           \/ ReceiveRegister(t) \/ TimerFires(t) \/ SetAllPresent(t)
    \/ \E t \in Teachers, s \in Students : Tap(t, s)
    \/ \E m \in saves : SaveArrives(m) \/ SaveAnswered(m) \/ SaveLost(m)

ClassBookNext == Excusing \/ Recording

ClassBookSpec == ClassBookInit /\ [][ClassBookNext]_classBookVars
-----------------------------------------------------------------------------
ClassBookTypeOK ==
    /\ record \in [Lessons -> [Students -> Row]]
    /\ opened \subseteq Lessons
    /\ excuse \in Seq(Excuse) /\ Len(excuse) <= MaxExcuses
    /\ \A v \in Reviewers : review[v].excuse \in {NoExcuse} \cup DOMAIN excuse
    /\ \A t \in Teachers :
          /\ grid[t].lesson \in Lessons \cup {None}
          /\ {grid[t].cache, grid[t].local, grid[t].timer, grid[t].answer} \subseteq Register \cup {None}
          /\ grid[t].query \in {"idle", "sent", "creating", "answered"}
          /\ grid[t].dirty \in BOOLEAN
    /\ \A m \in saves : m.rows \in Register /\ m.lesson \in opened /\ m.from \in Teachers
    /\ taps \in 0 .. MaxTaps

(* A register has a record of every student or of none, whichever grids    *)
(* open the lesson at once and whatever they save: statistics divide by    *)
(* the records they find.                                                  *)
RegisterWhole ==
    \A l \in Lessons :
        /\ Has(l) => l \in opened /\ \A s \in Students : record[l][s] # None
        /\ \A t \in Teachers : grid[t].lesson = l /\ grid[t].local # None => Has(l)

(* A record is linked only to an excuse of its student for its day, and    *)
(* that excuse was accepted, unless two reviewers decided on it.           *)
LinkedToAccepted ==
    \A l \in Lessons, s \in Students :
        record[l][s] # None /\ record[l][s].excuse # NoExcuse =>
            LET x == record[l][s].excuse
            IN  Covers(x, l, s) /\ (excuse[x].status = "ACCEPTED" \/ x \in aux_twice)

(* D-12: an accepted excuse leaves no absence unexcused, but those a       *)
(* teacher records while it is reviewed or after it was accepted.          *)
AbsencesAreExcused ==
    \A x \in DOMAIN excuse, l \in Lessons, s \in Students :
        /\ excuse[x].status = "ACCEPTED" /\ Covers(x, l, s)
        /\ record[l][s] # None /\ record[l][s].status = "ABSENT"
        => <<l, s>> \in aux_late

(* Reviews and registers agree: an accepted excuse excuses what it covers,  *)
(* and nothing is excused by another.                                      *)
ExcusesApply == LinkedToAccepted /\ AbsencesAreExcused

AtRest(t) ==
    /\ grid[t].lesson # None /\ ~grid[t].dirty /\ grid[t].timer = None
    /\ \A m \in saves : m.from # t

MeantIsStored(t) ==
    \A s \in Students : aux_meant[t][s] # None => record[grid[t].lesson][s].status = aux_meant[t][s]

(* A grid at rest has stored what its teacher set and nobody else changed, *)
(* unless a request was lost, one save overtook another, or the teacher    *)
(* went on from a list that showed an older state.                         *)
GridIsStored == \A t \in Teachers : AtRest(t) /\ aux_doubt[t] = {} => MeantIsStored(t)

(* AttendanceGrid.tsx: "Changes debounced 2s after last interaction, then  *)
(* bulk save": with nothing lost or overtaken, what was set is stored.     *)
TapsAreStored == \A t \in Teachers : AtRest(t) /\ aux_doubt[t] \subseteq {"reverted"} => MeantIsStored(t)
=============================================================================
