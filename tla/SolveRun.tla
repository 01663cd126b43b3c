------------------------------ MODULE SolveRun ------------------------------
(***************************************************************************)
(* The life of the solve runs of one school: POST /timetable/solve, the    *)
(* BullMQ job and its worker, the Timefold sidecar and its HTTP callbacks, *)
(* stop, activation, the watchdog cron and the run limit.                  *)
(*                                                                         *)
(* One action is what one actor does between two awaits; every await of    *)
(* the code is a point where any other actor may step.  The database runs  *)
(* at READ COMMITTED, so a single statement, and the activation's          *)
(* transaction (its first UPDATE locks every row of the school), are       *)
(* atomic.                                                                 *)
(***************************************************************************)
EXTENDS Naturals, FiniteSets

CONSTANTS MaxStarts,    \* bound: runs ever started by the school
          MaxRuns,      \* MAX_RUNS_PER_SCHOOL, 3 in the code
          MaxDeliveries,\* times BullMQ hands a job out: 1 + maxStalledCount
          MaxFaults,    \* bound: API crashes and unexpected database errors
          MaxProgress,  \* bound: progress callbacks per solve
          Plans         \* the shapes of solution the sidecar may return

ASSUME BoundsAssumption ==
    /\ MaxStarts \in Nat /\ MaxRuns \in Nat \ {0} /\ MaxDeliveries \in Nat \ {0}
    /\ MaxFaults \in Nat /\ MaxProgress \in Nat
ASSUME PlansAssumption == Plans \subseteq {"empty", "clean", "clashing"}

RunIds == 1 .. MaxStarts            \* in creation order: createdAt is the id
Deliveries == 1 .. MaxDeliveries    \* which delivery of the job asked for the solve

VARIABLES row,         \* the rows of timetable_runs, with what hangs off them
          lastRun,     \* newest run ever created
          starts,      \* where each startSolve request is
          victims,     \* the run ids its enforceRunLimit read as surplus
          jobs,        \* solver jobs waiting in BullMQ
          worker,      \* the job SolveProcessor.process has in hand
          solving,     \* solves under way in the sidecar
          net,         \* callbacks the sidecar sent and nobody has answered
          handling,    \* handleCompletion calls in flight
          stopping,    \* stopSolve calls past their status check
          sweep,       \* expired runs the watchdog has yet to write
          faults       \* crashes and database errors so far

requests == <<lastRun, starts, victims>>
queue == <<jobs, worker>>
sidecar == <<solving, net>>
vars == <<row, requests, queue, sidecar, handling, stopping, sweep, faults>>

-----------------------------------------------------------------------------
(* A row; "NONE" stands for no row.  lessons and conflicts name the        *)
(* deliveries whose solution wrote TimetableLesson rows and OPEN           *)
(* TimetableConflict rows, skipped those of which the rows of an earlier   *)
(* solution kept accepted lessons out.  overdue: updatedAt is further back *)
(* than maxSolveSeconds + GRACE_SECONDS.                                   *)

SolveStatus == {"QUEUED", "SOLVING", "COMPLETED", "COMPLETED_WITH_CONFLICTS",
                "FAILED", "STOPPED"}
Figures == {"none", "progress", "final"}    \* whose scores and violations are stored

Row == [status : SolveStatus \cup {"NONE"}, isActive : BOOLEAN,
        errorReason : BOOLEAN, figures : Figures, overdue : BOOLEAN,
        lessons : SUBSET Deliveries, skipped : SUBSET Deliveries, conflicts : SUBSET Deliveries]

NoRow == [status |-> "NONE", isActive |-> FALSE, errorReason |-> FALSE, figures |-> "none",
          overdue |-> FALSE, lessons |-> {}, skipped |-> {}, conflicts |-> {}]

QueuedRow == [NoRow EXCEPT !.status = "QUEUED"]

runs == {r \in RunIds : row[r].status # "NONE"}
activeRuns == {r \in runs : row[r].isActive}

Job == [run : RunIds, delivery : Deliveries]
Idle == [at |-> "idle"]
WorkerState == {Idle} \cup [at : {"fetched", "building", "failing", "submitted"}, job : Job]
Solve == [job : Job, reports : 0 .. MaxProgress]
Callback == [type : {"progress"}, job : Job]
              \cup [type : {"complete"}, job : Job, plan : Plans]
Completion == [job : Job, plan : Plans, at : {"persist", "record", "downgrade"}]
StartState == {"idle", "created", "queued", "trimming", "done", "aborted"}

(* prisma.timetableRun.update: refreshes updatedAt.                        *)
Update(r, new) == row' = [row EXCEPT ![r] = [new EXCEPT !.overdue = FALSE]]

SetStatus(r, s) == Update(r, [row[r] EXCEPT !.status = s])   \* updateRunStatus

Init ==
    /\ row = [r \in RunIds |-> NoRow]
    /\ lastRun = 0
    /\ starts = [r \in RunIds |-> "idle"]
    /\ victims = [r \in RunIds |-> {}]
    /\ jobs = {} /\ worker = Idle /\ solving = {} /\ net = {} /\ handling = {}
    /\ stopping = {} /\ sweep = {} /\ faults = 0

-----------------------------------------------------------------------------
(* startSolve: create the row, enqueue the job, enforce the run limit.     *)

CreateRun ==
    /\ lastRun < MaxStarts
    /\ lastRun' = lastRun + 1
    /\ row' = [row EXCEPT ![lastRun + 1] = QueuedRow]
    /\ starts' = [starts EXCEPT ![lastRun + 1] = "created"]
    /\ UNCHANGED <<victims, queue, sidecar, handling, stopping, sweep, faults>>

Enqueue(r) ==
    /\ starts[r] = "created"
    /\ starts' = [starts EXCEPT ![r] = "queued"]
    /\ jobs' = jobs \cup {[run |-> r, delivery |-> 1]}
    /\ UNCHANGED <<row, lastRun, victims, worker, sidecar, handling, stopping, sweep, faults>>

(* queue.add rejects (Redis down): the request fails, the row stays.       *)
EnqueueFails(r) ==
    /\ starts[r] = "created"
    /\ faults < MaxFaults
    /\ faults' = faults + 1
    /\ starts' = [starts EXCEPT ![r] = "aborted"]
    /\ UNCHANGED <<row, lastRun, victims, queue, sidecar, handling, stopping, sweep>>

NewerReversed(r) == {q \in runs : q < r}                    \* mutant: orderBy asc
Newer(r) == {q \in runs : q > r}

SurplusOffByOne == {r \in runs : Cardinality(Newer(r)) > MaxRuns}        \* mutant

Surplus == {r \in runs : Cardinality(Newer(r)) >= MaxRuns}

ReadRunLimit(r) ==
    /\ starts[r] = "queued"
    /\ starts' = [starts EXCEPT ![r] = IF Surplus = {} THEN "done" ELSE "trimming"]
    /\ victims' = [victims EXCEPT ![r] = Surplus]
    /\ UNCHANGED <<row, lastRun, queue, sidecar, handling, stopping, sweep, faults>>

(* deleteMany; lessons and conflicts go with the row (onDelete: Cascade).  *)
DeleteSurplus(r) ==
    /\ starts[r] = "trimming"
    /\ starts' = [starts EXCEPT ![r] = "done"]
    /\ victims' = [victims EXCEPT ![r] = {}]
    /\ row' = [q \in RunIds |-> IF q \in victims[r] THEN NoRow ELSE row[q]]
    /\ UNCHANGED <<lastRun, queue, sidecar, handling, stopping, sweep, faults>>

StartSolve ==
    \/ CreateRun
    \/ \E r \in RunIds : \/ Enqueue(r) \/ EnqueueFails(r)
                         \/ ReadRunLimit(r) \/ DeleteSurplus(r)
-----------------------------------------------------------------------------
(* SolveProcessor.process, one job at a time.                              *)

FetchJob(j) ==
    /\ worker = Idle
    /\ j \in jobs
    /\ jobs' = jobs \ {j}
    /\ worker' = [at |-> "fetched", job |-> j]
    /\ UNCHANGED <<row, requests, sidecar, handling, stopping, sweep, faults>>

(* updateRunStatus(SOLVING) throws when the row is gone; so does the       *)
(* updateRunStatus(FAILED) of the catch block, and the job fails.          *)
MarkSolving ==
    /\ worker.at = "fetched"
    /\ IF worker.job.run \in runs
       THEN /\ SetStatus(worker.job.run, "SOLVING")
            /\ worker' = [worker EXCEPT !.at = "building"]
       ELSE /\ worker' = [worker EXCEPT !.at = "failing"]
            /\ UNCHANGED row
    /\ UNCHANGED <<requests, jobs, sidecar, handling, stopping, sweep, faults>>

(* buildSolverInput and submitSolve succeed.  The sidecar refuses a second *)
(* solve under the same problem id while the first is under way.           *)
Submit ==
    /\ worker.at = "building"
    /\ ~ \E s \in solving : s.job.run = worker.job.run
    /\ solving' = solving \cup {[job |-> worker.job, reports |-> 0]}
    /\ worker' = [worker EXCEPT !.at = "submitted"]
    /\ UNCHANGED <<row, requests, jobs, net, handling, stopping, sweep, faults>>

(* Building the input fails, or the sidecar is unreachable or refuses.     *)
SubmitFails ==
    /\ worker.at = "building"
    /\ worker' = [worker EXCEPT !.at = "failing"]
    /\ UNCHANGED <<row, requests, jobs, sidecar, handling, stopping, sweep, faults>>

(* The sidecar took the solve, but its answer never reached the worker.    *)
AcceptanceLost ==
    /\ worker.at = "building"
    /\ ~ \E s \in solving : s.job.run = worker.job.run
    /\ solving' = solving \cup {[job |-> worker.job, reports |-> 0]}
    /\ worker' = [worker EXCEPT !.at = "failing"]
    /\ UNCHANGED <<row, requests, jobs, net, handling, stopping, sweep, faults>>

MarkFailed ==
    /\ worker.at = "failing"
    /\ IF worker.job.run \in runs THEN SetStatus(worker.job.run, "FAILED")
                                  ELSE UNCHANGED row
    /\ worker' = Idle
    /\ UNCHANGED <<requests, jobs, sidecar, handling, stopping, sweep, faults>>

FinishJob ==
    /\ worker.at = "submitted"
    /\ worker' = Idle
    /\ UNCHANGED <<row, requests, jobs, sidecar, handling, stopping, sweep, faults>>

Process ==
    \/ \E j \in jobs : FetchJob(j)
    \/ MarkSolving \/ Submit \/ SubmitFails \/ AcceptanceLost \/ MarkFailed \/ FinishJob
-----------------------------------------------------------------------------
(* The sidecar: SolverResource.  Callbacks are sent asynchronously, once,  *)
(* and never retried, so they overtake each other and get lost.            *)

BestSolution(s) ==
    /\ s \in solving
    /\ s.reports < MaxProgress
    /\ solving' = (solving \ {s}) \cup {[s EXCEPT !.reports = @ + 1]}
    /\ net' = net \cup {[type |-> "progress", job |-> s.job]}
    /\ UNCHANGED <<row, requests, queue, handling, stopping, sweep, faults>>

(* Out of time, or told to terminate early.                                *)
FinalSolution(s, plan) ==
    /\ s \in solving
    /\ solving' = solving \ {s}
    /\ net' = net \cup {[type |-> "complete", job |-> s.job, plan |-> plan]}
    /\ UNCHANGED <<row, requests, queue, handling, stopping, sweep, faults>>

(* The solver throws, or the sidecar restarts: no callback, ever.          *)
SolverDies(s) ==
    /\ s \in solving
    /\ solving' = solving \ {s}
    /\ UNCHANGED <<row, requests, queue, net, handling, stopping, sweep, faults>>

LoseCallback(m) ==
    /\ m \in net
    /\ net' = net \ {m}
    /\ UNCHANGED <<row, requests, queue, solving, handling, stopping, sweep, faults>>

Sidecar ==
    \/ \E s \in solving : \/ BestSolution(s) \/ SolverDies(s)
                          \/ \E plan \in Plans : FinalSolution(s, plan)
    \/ \E m \in net : LoseCallback(m)
-----------------------------------------------------------------------------
(* The callbacks' handlers.                                                *)

HandleProgress(m) ==
    /\ m \in net /\ m.type = "progress"
    /\ net' = net \ {m}
    /\ IF m.job.run \in runs THEN Update(m.job.run, [row[m.job.run] EXCEPT !.figures = "progress"])
                             ELSE UNCHANGED row
    /\ UNCHANGED <<requests, queue, solving, handling, stopping, sweep, faults>>

(* handleCompletion's first statement: the sidecar's status is COMPLETED,  *)
(* whatever the row says.  Without lessons it is also the last.            *)
ReceiveCompletion(m) ==
    /\ m \in net /\ m.type = "complete"
    /\ net' = net \ {m}
    /\ IF m.job.run \in runs
       THEN /\ Update(m.job.run, [row[m.job.run] EXCEPT !.status = "COMPLETED",
                                                        !.figures = "final"])
            /\ handling' = IF m.plan = "empty" THEN handling
                           ELSE handling \cup {[job |-> m.job, plan |-> m.plan, at |-> "persist"]}
       ELSE UNCHANGED <<row, handling>>
    /\ UNCHANGED <<requests, queue, solving, stopping, sweep, faults>>

Advance(c, at) == handling' = (handling \ {c}) \cup {[c EXCEPT !.at = at]}
Return(c) == handling' = handling \ {c}

PersistLessonsUnchecked(c) ==                                \* mutant: no foreign key
    /\ c \in handling /\ c.at = "persist"
    /\ row' = [row EXCEPT ![c.job.run].lessons = @ \cup {c.job.delivery}]
    /\ IF c.plan = "clashing" THEN Advance(c, "record") ELSE Return(c)
    /\ UNCHANGED <<requests, queue, sidecar, stopping, sweep, faults>>

(* createMany's skipDuplicates leaves out, and nobody is told, the lessons *)
(* that meet those of a solution stored before.                            *)
LeftOut(job) ==
    IF row[job.run].lessons = {} THEN {{}} ELSE SUBSET ({job.delivery} \ row[job.run].lessons)

WithLessons(x, d, met) == [x EXCEPT !.lessons = @ \cup {d}, !.skipped = @ \cup met]

(* createMany of the accepted lessons.  The foreign key refuses them when  *)
(* the run is gone, and so does the update that would record the failure.  *)
PersistLessons(c) ==
    /\ c \in handling /\ c.at = "persist"
    /\ IF c.job.run \in runs
       THEN /\ \E met \in LeftOut(c.job) :
                 row' = [row EXCEPT ![c.job.run] = WithLessons(@, c.job.delivery, met)]
            /\ IF c.plan = "clashing" THEN Advance(c, "record") ELSE Return(c)
       ELSE Return(c) /\ UNCHANGED row
    /\ UNCHANGED <<requests, queue, sidecar, stopping, sweep, faults>>

PersistFailsWithoutReturn(c) ==                  \* mutant: the catch falls through
    /\ c \in handling /\ c.at = "persist"
    /\ faults < MaxFaults
    /\ faults' = faults + 1
    /\ IF c.plan = "clashing" THEN Advance(c, "record") ELSE Return(c)
    /\ IF c.job.run \in runs
       THEN Update(c.job.run, [row[c.job.run] EXCEPT !.status = "FAILED", !.isActive = FALSE,
                                                     !.errorReason = TRUE])
       ELSE UNCHANGED row
    /\ UNCHANGED <<requests, queue, sidecar, stopping, sweep>>

(* createMany fails unexpectedly: the catch block gives the run up.        *)
PersistFails(c) ==
    /\ c \in handling /\ c.at = "persist"
    /\ faults < MaxFaults
    /\ faults' = faults + 1
    /\ Return(c)
    /\ IF c.job.run \in runs
       THEN Update(c.job.run, [row[c.job.run] EXCEPT !.status = "FAILED", !.isActive = FALSE,
                                                     !.errorReason = TRUE])
       ELSE UNCHANGED row
    /\ UNCHANGED <<requests, queue, sidecar, stopping, sweep>>

RecordConflictsOnly(c) ==                        \* mutant: the downgrade is forgotten
    /\ c \in handling /\ c.at = "record"
    /\ Return(c)
    /\ IF c.job.run \in runs
       THEN row' = [row EXCEPT ![c.job.run].conflicts = @ \cup {c.job.delivery}]
       ELSE UNCHANGED row
    /\ UNCHANGED <<requests, queue, sidecar, stopping, sweep, faults>>

RecordConflicts(c) ==
    /\ c \in handling /\ c.at = "record"
    /\ IF c.job.run \in runs
       THEN /\ row' = [row EXCEPT ![c.job.run].conflicts = @ \cup {c.job.delivery}]
            /\ Advance(c, "downgrade")
       ELSE Return(c) /\ UNCHANGED row
    /\ UNCHANGED <<requests, queue, sidecar, stopping, sweep, faults>>

DowngradeRun(c) ==
    /\ c \in handling /\ c.at = "downgrade"
    /\ Return(c)
    /\ IF c.job.run \in runs
       THEN Update(c.job.run, [row[c.job.run] EXCEPT !.status = "COMPLETED_WITH_CONFLICTS",
                                                     !.isActive = FALSE])
       ELSE UNCHANGED row
    /\ UNCHANGED <<requests, queue, sidecar, stopping, sweep, faults>>

(* A database error where nothing catches it: the sidecar gets a 500.      *)
HandlerThrows(c) ==
    /\ c \in handling
    /\ faults < MaxFaults
    /\ faults' = faults + 1
    /\ Return(c)
    /\ UNCHANGED <<row, requests, queue, sidecar, stopping, sweep>>

Callbacks ==
    \/ \E m \in net : HandleProgress(m) \/ ReceiveCompletion(m)
    \/ \E c \in handling : \/ PersistLessons(c) \/ PersistFails(c) \/ RecordConflicts(c)
                           \/ DowngradeRun(c) \/ HandlerThrows(c)
-----------------------------------------------------------------------------
(* The admin.                                                              *)

(* stopSolve: the status is read, then the sidecar is asked to terminate.  *)
RequestStop(r) ==
    /\ r \in runs /\ row[r].status = "SOLVING"
    /\ stopping' = stopping \cup {r}
    /\ UNCHANGED <<row, requests, queue, sidecar, handling, sweep, faults>>

(* terminateEarly threw: the sidecar is unreachable.                       *)
StopUnreachable(r) ==
    /\ r \in stopping
    /\ stopping' = stopping \ {r}
    /\ UNCHANGED <<row, requests, queue, sidecar, handling, sweep, faults>>

MarkStopped(r) ==
    /\ r \in stopping
    /\ stopping' = stopping \ {r}
    /\ IF r \in runs THEN SetStatus(r, "STOPPED") ELSE UNCHANGED row
    /\ UNCHANGED <<requests, queue, sidecar, handling, sweep, faults>>

ActivateRunOnly(r) ==                            \* mutant: no updateMany
    /\ r \in runs
    /\ Update(r, [row[r] EXCEPT !.isActive = TRUE])
    /\ UNCHANGED <<requests, queue, sidecar, handling, stopping, sweep, faults>>

(* activateRun: updateMany and update in one transaction; both refresh     *)
(* updatedAt.                                                              *)
ActivateRun(r) ==
    /\ r \in runs
    /\ row' = [q \in RunIds |-> IF q \in runs
                                THEN [row[q] EXCEPT !.isActive = (q = r), !.overdue = FALSE]
                                ELSE row[q]]
    /\ UNCHANGED <<requests, queue, sidecar, handling, stopping, sweep, faults>>

Admin == \E r \in RunIds : RequestStop(r) \/ StopUnreachable(r) \/ MarkStopped(r) \/ ActivateRun(r)
-----------------------------------------------------------------------------
(* Time, the watchdog, and crashes of the API process.                     *)

BudgetPasses ==
    /\ \E r \in runs : row[r].status = "SOLVING" /\ ~row[r].overdue
    /\ row' = [r \in RunIds |-> IF r \in runs THEN [row[r] EXCEPT !.overdue = TRUE] ELSE row[r]]
    /\ UNCHANGED <<requests, queue, sidecar, handling, stopping, sweep, faults>>

ExpiredNotActive ==                              \* mutant: the active run is left alone
    {r \in runs : row[r].status = "SOLVING" /\ row[r].overdue /\ ~ row[r].isActive}

Expired == {r \in runs : row[r].status = "SOLVING" /\ row[r].overdue}

SweepBegins ==
    /\ sweep = {} /\ Expired # {}
    /\ sweep' = Expired
    /\ UNCHANGED <<row, requests, queue, sidecar, handling, stopping, faults>>

(* The update is unconditional; a run deleted meanwhile makes it throw,    *)
(* and the rest of the sweep is not done.                                  *)
SweepFails(r) ==
    /\ r \in sweep
    /\ IF r \in runs
       THEN /\ Update(r, [row[r] EXCEPT !.status = "FAILED", !.errorReason = TRUE])
            /\ sweep' = sweep \ {r}
       ELSE sweep' = {} /\ UNCHANGED row
    /\ UNCHANGED <<requests, queue, sidecar, handling, stopping, faults>>

Watchdog == SweepBegins \/ \E r \in sweep : SweepFails(r)

(* BullMQ finds the lock of the job in hand expired and hands it out once  *)
(* more, at most MaxDeliveries times in all.                               *)
Redelivered ==
    IF worker # Idle /\ worker.job.delivery < MaxDeliveries
    THEN {[worker.job EXCEPT !.delivery = @ + 1]}
    ELSE {}

Crash ==
    /\ faults < MaxFaults
    /\ faults' = faults + 1
    /\ starts' = [r \in RunIds |-> IF starts[r] \in {"created", "queued", "trimming"}
                                   THEN "aborted" ELSE starts[r]]
    /\ victims' = [r \in RunIds |-> {}]
    /\ jobs' = jobs \cup Redelivered
    /\ worker' = Idle
    /\ handling' = {} /\ stopping' = {} /\ sweep' = {}
    /\ UNCHANGED <<row, lastRun, sidecar>>

Next == StartSolve \/ Process \/ Sidecar \/ Callbacks \/ Admin \/ BudgetPasses \/ Watchdog \/ Crash

Spec == Init /\ [][Next]_vars

(* Time passes, and the cron fires every minute and finishes its sweep.    *)
Fairness == WF_vars(BudgetPasses) /\ WF_vars(Watchdog)
LiveSpec == Spec /\ Fairness
-----------------------------------------------------------------------------
RowsOK ==
    /\ row \in [RunIds -> Row]
    /\ \A r \in RunIds : row[r].status = "NONE" => row[r] = NoRow

(* Every variable has its type; a row that is gone took its lessons,       *)
(* conflicts and flags with it, and no handler that outlived it (the       *)
(* worker, a callback, the watchdog, a stop) brought any of them back.     *)
TypeOK ==
    /\ RowsOK
    /\ lastRun \in 0 .. MaxStarts
    /\ starts \in [RunIds -> StartState] /\ victims \in [RunIds -> SUBSET RunIds]
    /\ jobs \subseteq Job /\ worker \in WorkerState
    /\ solving \subseteq Solve /\ net \subseteq Callback /\ handling \subseteq Completion
    /\ stopping \subseteq RunIds /\ sweep \subseteq RunIds /\ faults \in 0 .. MaxFaults

(* However activations, completions and deletions interleave, the school   *)
(* has one active timetable at most (getView and every reader of the       *)
(* active run take the newest one they find).                              *)
AtMostOneActive ==
    \A p, q \in activeRuns : p = q

(* The lessons of a solution are stored before its conflicts, and a run    *)
(* that loses its lessons loses its conflicts.  A recorded conflict names  *)
(* an accepted lesson, which may yet be missing where two solutions of one *)
(* run met: but the first to be stored is stored whole, however deliveries *)
(* and their callbacks overtake each other.                                *)
ConflictsHavePlan ==
    \A r \in RunIds :
        /\ row[r].conflicts \cup row[r].skipped \subseteq row[r].lessons
        /\ row[r].lessons # {} => row[r].lessons \ row[r].skipped # {}

(* COMPLETED_WITH_CONFLICTS is said only of a run with conflicts to        *)
(* resolve, and a run with conflicts rests in COMPLETED only after a crash *)
(* or a database error cut handleCompletion short.                         *)
SettledStatus ==
    \A r \in runs :
        /\ row[r].status = "COMPLETED_WITH_CONFLICTS" => row[r].conflicts # {}
        /\ row[r].status = "COMPLETED" /\ row[r].conflicts # {} /\ faults = 0
             => \E c \in handling : c.job.run = r /\ c.at = "downgrade"

(* D-11: once the newest startSolve has returned, at most MaxRuns runs are *)
(* left, whatever earlier requests, failed ones included, left behind.     *)
RunLimit ==
    lastRun > 0 /\ starts[lastRun] = "done" => Cardinality(runs) <= MaxRuns

(* Why RunLimit holds: requests are numbered in creation order, the newest *)
(* MaxRuns runs always have their rows, what a request read as surplus is  *)
(* older than those, and the newest request sees everything older.         *)
RunTableInv ==
    /\ \A r \in RunIds : starts[r] = "idle" <=> r > lastRun
    /\ runs \subseteq 1 .. lastRun
    /\ \A r \in 1 .. lastRun : r + MaxRuns > lastRun => r \in runs
    /\ \A r \in RunIds : \A v \in victims[r] : v + MaxRuns <= lastRun
    /\ lastRun > 0 /\ starts[lastRun] = "trimming" =>
          \A q \in runs : q + MaxRuns <= lastRun => q \in victims[lastRun]
    /\ lastRun > 0 /\ starts[lastRun] = "done" => \A q \in runs : q + MaxRuns > lastRun

(* The run table keeps the promise of SchoolRuns: the MaxRuns newest runs  *)
(* are never deleted, by no interleaving of enforceRunLimit's read and     *)
(* delete, and activation leaves exactly the chosen run active.            *)
SchoolTable == INSTANCE SchoolRuns
    WITH last <- lastRun, live <- runs, active <- activeRuns
ImplementsSchoolRuns == SchoolTable!AbsSpec

(* The watchdog's promise: a run does not stay SOLVING for ever, whatever  *)
(* was lost, unless activations for ever keep refreshing its updatedAt.    *)
RunsLeaveSolving ==
    \A r \in RunIds :
        \/ []<><<\E q \in RunIds : ActivateRun(q)>>_vars
        \/ row[r].status = "SOLVING" ~> row[r].status # "SOLVING"

(* solve-watchdog.service.ts: "This cron flips any SOLVING run that        *)
(* exceeded its budget": it flips no run that is not SOLVING.              *)
WatchdogFlipsOnlySolving ==
    [][\A r \in RunIds : r \in runs /\ SweepFails(r) => row[r].status = "SOLVING"]_vars

(* schema.prisma: errorReason is "Set when status becomes FAILED".         *)
FailedRunHasReason == \A r \in runs : row[r].status = "FAILED" => row[r].errorReason
=============================================================================
