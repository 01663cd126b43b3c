--------------------------- MODULE SolveRunProofs ---------------------------
(***************************************************************************)
(* What holds of SolveRun for every number of runs, every run limit, and   *)
(* any number of crashes and redeliveries.                                 *)
(***************************************************************************)
EXTENDS SolveRun, FiniteSetTheorems, TLAPS

-----------------------------------------------------------------------------
(* Type correctness.                                                       *)

(* The empty row and the row startSolve creates are rows.                  *)
LEMMA NoRowIsRow == NoRow \in Row /\ QueuedRow \in Row
BY DEF NoRow, QueuedRow, Row, SolveStatus, Figures

(* The rows the handlers write: every flag of theirs is a flag.            *)
LEMMA FlagFields ==
    ASSUME NEW x \in Row, NEW b \in BOOLEAN
    PROVE  /\ [x EXCEPT !.isActive = b] \in Row
           /\ [x EXCEPT !.errorReason = b] \in Row
           /\ [x EXCEPT !.overdue = b] \in Row
           /\ [x EXCEPT !.isActive = b].status = x.status
           /\ [x EXCEPT !.errorReason = b].status = x.status
           /\ [x EXCEPT !.overdue = b].status = x.status
BY DEF Row

(* The row of a run the watchdog fails.                                    *)
LEMMA FailedRow ==
    ASSUME NEW x \in Row
    PROVE  LET new == [x EXCEPT !.status = "FAILED", !.errorReason = TRUE]
           IN  new \in Row /\ new.status # "NONE"
<1> DEFINE y == [x EXCEPT !.status = "FAILED"]
<1>1. y \in Row /\ y.status = "FAILED"
    BY DEF Row, SolveStatus
<1>2. [y EXCEPT !.errorReason = TRUE] \in Row /\ [y EXCEPT !.errorReason = TRUE].status = "FAILED"
    BY <1>1, FlagFields
<1>3. [x EXCEPT !.status = "FAILED", !.errorReason = TRUE] = [y EXCEPT !.errorReason = TRUE]
    OBVIOUS
<1>4. QED
    BY <1>2, <1>3

(* The row handleCompletion writes first, whatever the status was.         *)
LEMMA CompletedRow ==
    ASSUME NEW x \in Row
    PROVE  LET new == [x EXCEPT !.status = "COMPLETED", !.figures = "final"]
           IN  new \in Row /\ new.status # "NONE"
<1> DEFINE y == [x EXCEPT !.status = "COMPLETED"]
<1>1. y \in Row /\ y.status # "NONE"
    BY DEF Row, SolveStatus
<1>2. [y EXCEPT !.figures = "final"] \in Row /\ [y EXCEPT !.figures = "final"].status # "NONE"
    BY <1>1 DEF Row, Figures
<1>3. [x EXCEPT !.status = "COMPLETED", !.figures = "final"] = [y EXCEPT !.figures = "final"]
    OBVIOUS
<1>4. QED
    BY <1>2, <1>3

(* The row of a run handleCompletion downgrades for its conflicts.         *)
LEMMA DeactivatedRow ==
    ASSUME NEW x \in Row, NEW s \in SolveStatus
    PROVE  LET new == [x EXCEPT !.status = s, !.isActive = FALSE]
           IN  new \in Row /\ new.status # "NONE"
<1> DEFINE y == [x EXCEPT !.status = s]
<1>1. y \in Row /\ y.status # "NONE"
    BY DEF Row, SolveStatus
<1>2. [y EXCEPT !.isActive = FALSE] \in Row /\ [y EXCEPT !.isActive = FALSE].status # "NONE"
    BY <1>1, FlagFields
<1>3. [x EXCEPT !.status = s, !.isActive = FALSE] = [y EXCEPT !.isActive = FALSE]
    OBVIOUS
<1>4. QED
    BY <1>2, <1>3

(* The row of a run whose lessons handleCompletion could not store.        *)
LEMMA GivenUpRow ==
    ASSUME NEW x \in Row
    PROVE  LET new == [x EXCEPT !.status = "FAILED", !.isActive = FALSE, !.errorReason = TRUE]
           IN  new \in Row /\ new.status # "NONE"
<1> DEFINE y == [x EXCEPT !.status = "FAILED", !.isActive = FALSE]
<1>1. y \in Row /\ y.status # "NONE"
    BY DeactivatedRow DEF SolveStatus
<1>2. [y EXCEPT !.errorReason = TRUE] \in Row /\ [y EXCEPT !.errorReason = TRUE].status # "NONE"
    BY <1>1, FlagFields
<1>3. [x EXCEPT !.status = "FAILED", !.isActive = FALSE, !.errorReason = TRUE]
        = [y EXCEPT !.errorReason = TRUE]
    OBVIOUS
<1>4. QED
    BY <1>2, <1>3

(* The row activateRun and the deactivation of the other runs write.       *)
LEMMA ActivatedRow ==
    ASSUME NEW x \in Row, NEW b \in BOOLEAN
    PROVE  LET new == [x EXCEPT !.isActive = b, !.overdue = FALSE]
           IN  new \in Row /\ new.status = x.status
<1> DEFINE y == [x EXCEPT !.isActive = b]
<1>1. y \in Row /\ y.status = x.status
    BY FlagFields
<1>2. [y EXCEPT !.overdue = FALSE] \in Row /\ [y EXCEPT !.overdue = FALSE].status = x.status
    BY <1>1, FlagFields
<1>3. [x EXCEPT !.isActive = b, !.overdue = FALSE] = [y EXCEPT !.overdue = FALSE]
    OBVIOUS
<1>4. QED
    BY <1>2, <1>3

(* Writing an existing row, or a new one, with a row that has a status     *)
(* keeps the table well formed.                                            *)
LEMMA WriteKeepsRows ==
    ASSUME RowsOK, NEW r \in RunIds, NEW new \in Row, new.status # "NONE",
           row' = [row EXCEPT ![r] = new]
    PROVE  RowsOK'
BY DEF RowsOK

(* A Prisma update, which also refreshes updatedAt, keeps the table well   *)
(* formed.                                                                 *)
LEMMA UpdateKeepsRows ==
    ASSUME RowsOK, NEW r \in RunIds, NEW new \in Row, new.status # "NONE", Update(r, new)
    PROVE  RowsOK'
<1> DEFINE x == [new EXCEPT !.overdue = FALSE]
<1>1. x \in Row /\ x.status # "NONE"
    BY DEF Row
<1>2. QED
    BY <1>1, WriteKeepsRows DEF Update

(* An update of the status alone keeps the table well formed.              *)
LEMMA SetStatusKeepsRows ==
    ASSUME RowsOK, NEW r \in RunIds, NEW s \in SolveStatus, SetStatus(r, s)
    PROVE  RowsOK'
<1>1. row[r] \in Row
    BY DEF RowsOK
<1>2. [row[r] EXCEPT !.status = s] \in Row /\ [row[r] EXCEPT !.status = s].status # "NONE"
    BY <1>1 DEF Row, SolveStatus
<1>3. QED
    BY <1>2, UpdateKeepsRows DEF SetStatus

(* A run exists exactly when its row has a status.                         *)
LEMMA RowWritten ==
    ASSUME RowsOK, NEW r \in RunIds
    PROVE  /\ row[r] \in Row
           /\ r \in runs <=> row[r].status # "NONE"
BY DEF RowsOK, runs

(* The initial state has the right types.                                  *)
LEMMA TypeInit == Init => TypeOK
BY NoRowIsRow, BoundsAssumption
   DEF Init, TypeOK, RowsOK, NoRow, RunIds, StartState, WorkerState, Idle

(* startSolve, from the create to the last delete, keeps the types.        *)
LEMMA TypeStartSolve == TypeOK /\ StartSolve => TypeOK'
<1> SUFFICES ASSUME TypeOK, StartSolve PROVE TypeOK'
    OBVIOUS
<1> USE BoundsAssumption
<1>1. CASE CreateRun
  <2>1. lastRun + 1 \in RunIds /\ lastRun' \in 0 .. MaxStarts
      BY <1>1 DEF CreateRun, TypeOK, RunIds
  <2>2. QueuedRow.status # "NONE"
      BY DEF QueuedRow, NoRow
  <2>3. RowsOK'
      BY <1>1, <2>1, <2>2, NoRowIsRow, WriteKeepsRows DEF CreateRun, TypeOK
  <2>4. QED
      BY <1>1, <2>1, <2>3 DEF CreateRun, TypeOK, StartState, queue, sidecar
<1>2. ASSUME NEW r \in RunIds, Enqueue(r) PROVE TypeOK'
  <2>1. [run |-> r, delivery |-> 1] \in Job
      BY DEF Job, Deliveries
  <2>2. QED
      BY <1>2, <2>1 DEF Enqueue, TypeOK, RowsOK, StartState, sidecar
<1>3. ASSUME NEW r \in RunIds, EnqueueFails(r) PROVE TypeOK'
    BY <1>3 DEF EnqueueFails, TypeOK, RowsOK, StartState, queue, sidecar
<1>4. ASSUME NEW r \in RunIds, ReadRunLimit(r) PROVE TypeOK'
  <2>1. Surplus \subseteq RunIds
      BY DEF Surplus, runs
  <2>2. QED
      BY <1>4, <2>1 DEF ReadRunLimit, TypeOK, RowsOK, StartState, queue, sidecar
<1>5. ASSUME NEW r \in RunIds, DeleteSurplus(r) PROVE TypeOK'
  <2>1. RowsOK'
      BY <1>5, NoRowIsRow DEF DeleteSurplus, TypeOK, RowsOK
  <2>2. QED
      BY <1>5, <2>1 DEF DeleteSurplus, TypeOK, StartState, queue, sidecar
<1>6. QED
    BY <1>1, <1>2, <1>3, <1>4, <1>5 DEF StartSolve

(* The worker that processes a job keeps the types.                        *)
LEMMA TypeProcess == TypeOK /\ Process => TypeOK'
<1> SUFFICES ASSUME TypeOK, Process PROVE TypeOK'
    OBVIOUS
<1> USE BoundsAssumption
<1>0. worker # Idle => worker.job \in Job /\ worker.job.run \in RunIds
    BY DEF TypeOK, WorkerState, Idle, Job
<1>1. ASSUME NEW j \in jobs, FetchJob(j) PROVE TypeOK'
    BY <1>1 DEF FetchJob, TypeOK, RowsOK, WorkerState, requests, sidecar
<1>2. CASE MarkSolving
  <2>1. worker # Idle
      BY <1>2 DEF MarkSolving, Idle
  <2>2. worker' \in WorkerState
      BY <1>2, <2>1 DEF MarkSolving, TypeOK, WorkerState, Idle
  <2>3. RowsOK'
    <3>1. CASE worker.job.run \in runs
        BY <1>2, <1>0, <2>1, <3>1, SetStatusKeepsRows DEF MarkSolving, TypeOK, SolveStatus
    <3>2. CASE worker.job.run \notin runs
        BY <1>2, <3>2 DEF MarkSolving, TypeOK, RowsOK
    <3>3. QED
        BY <3>1, <3>2
  <2>4. QED
      BY <1>2, <2>2, <2>3 DEF MarkSolving, TypeOK, requests, sidecar
<1>3. CASE Submit \/ AcceptanceLost
  <2>1. worker # Idle
      BY <1>3 DEF Submit, AcceptanceLost, Idle
  <2>2. worker' \in WorkerState
      BY <1>3, <2>1 DEF Submit, AcceptanceLost, TypeOK, WorkerState, Idle
  <2>3. [job |-> worker.job, reports |-> 0] \in Solve
      BY <1>0, <2>1 DEF Solve
  <2>4. QED
      BY <1>3, <2>2, <2>3 DEF Submit, AcceptanceLost, TypeOK, RowsOK, requests
<1>4. CASE SubmitFails
  <2>1. worker' \in WorkerState
      BY <1>4 DEF SubmitFails, TypeOK, WorkerState, Idle
  <2>2. QED
      BY <1>4, <2>1 DEF SubmitFails, TypeOK, RowsOK, requests, sidecar
<1>5. CASE MarkFailed
  <2>1. worker # Idle
      BY <1>5 DEF MarkFailed, Idle
  <2>2. RowsOK'
    <3>1. CASE worker.job.run \in runs
        BY <1>5, <1>0, <2>1, <3>1, SetStatusKeepsRows DEF MarkFailed, TypeOK, SolveStatus
    <3>2. CASE worker.job.run \notin runs
        BY <1>5, <3>2 DEF MarkFailed, TypeOK, RowsOK
    <3>3. QED
        BY <3>1, <3>2
  <2>3. QED
      BY <1>5, <2>2 DEF MarkFailed, TypeOK, WorkerState, requests, sidecar
<1>6. CASE FinishJob
    BY <1>6 DEF FinishJob, TypeOK, RowsOK, WorkerState, requests, sidecar
<1>7. QED
    BY <1>1, <1>2, <1>3, <1>4, <1>5, <1>6 DEF Process

(* The solver sidecar keeps the types.                                     *)
LEMMA TypeSidecar == TypeOK /\ Sidecar => TypeOK'
<1> SUFFICES ASSUME TypeOK, Sidecar PROVE TypeOK'
    OBVIOUS
<1> USE BoundsAssumption
<1>1. ASSUME NEW s \in solving, BestSolution(s) PROVE TypeOK'
  <2>1. s.job \in Job /\ s.reports \in 0 .. MaxProgress /\ s.reports < MaxProgress
      BY <1>1 DEF BestSolution, TypeOK, Solve
  <2>2. [s EXCEPT !.reports = @ + 1] \in Solve
      BY <1>1, <2>1 DEF TypeOK, Solve
  <2>3. [type |-> "progress", job |-> s.job] \in Callback
      BY <2>1 DEF Callback
  <2>4. QED
      BY <1>1, <2>2, <2>3 DEF BestSolution, TypeOK, RowsOK, requests, queue
<1>2. ASSUME NEW s \in solving, SolverDies(s) PROVE TypeOK'
    BY <1>2 DEF SolverDies, TypeOK, RowsOK, requests, queue
<1>3. ASSUME NEW s \in solving, NEW plan \in Plans, FinalSolution(s, plan) PROVE TypeOK'
  <2>1. [type |-> "complete", job |-> s.job, plan |-> plan] \in Callback
      BY <1>3 DEF TypeOK, Solve, Callback
  <2>2. QED
      BY <1>3, <2>1 DEF FinalSolution, TypeOK, RowsOK, requests, queue
<1>4. ASSUME NEW m \in net, LoseCallback(m) PROVE TypeOK'
    BY <1>4 DEF LoseCallback, TypeOK, RowsOK, requests, queue
<1>5. QED
    BY <1>1, <1>2, <1>3, <1>4 DEF Sidecar

(* createMany loses nothing of the first solution of a run.                *)
LEMMA LessonsStored ==
    ASSUME NEW c, PersistLessons(c), c.job.run \in runs
    PROVE  \E met \in SUBSET {c.job.delivery} :
               /\ met \cap row[c.job.run].lessons = {}
               /\ row[c.job.run].lessons = {} => met = {}
               /\ row' = [row EXCEPT ![c.job.run] = WithLessons(row[c.job.run], c.job.delivery, met)]
<1>1. PICK met \in LeftOut(c.job) :
          row' = [row EXCEPT ![c.job.run] = WithLessons(row[c.job.run], c.job.delivery, met)]
    BY DEF PersistLessons
<1>2. /\ met \in SUBSET {c.job.delivery} /\ met \cap row[c.job.run].lessons = {}
      /\ row[c.job.run].lessons = {} => met = {}
    BY DEF LeftOut
<1>3. QED
    BY <1>1, <1>2

(* The handlers of the progress and completion callbacks keep the types.   *)
LEMMA TypeCallbacks == TypeOK /\ Callbacks => TypeOK'
<1> SUFFICES ASSUME TypeOK, Callbacks PROVE TypeOK'
    OBVIOUS
<1> USE BoundsAssumption
<1>a. \A m \in net : m.job \in Job /\ m.job.run \in RunIds
    BY DEF TypeOK, Callback, Job
<1>b. \A c \in handling : c \in Completion /\ c.job \in Job /\ c.job.run \in RunIds
                                /\ c.job.delivery \in Deliveries
    BY DEF TypeOK, Completion, Job
<1>c. ASSUME NEW c \in handling, NEW at \in {"persist", "record", "downgrade"},
             Advance(c, at) \/ Return(c)
      PROVE  handling' \subseteq Completion
  <2>1. [c EXCEPT !.at = at] \in Completion
      BY <1>b DEF Completion
  <2>2. QED
      BY <1>c, <2>1 DEF Advance, Return, TypeOK
<1>1. ASSUME NEW m \in net, HandleProgress(m) PROVE TypeOK'
  <2>1. RowsOK'
    <3>1. CASE m.job.run \in runs
      <4> DEFINE new == [row[m.job.run] EXCEPT !.figures = "progress"]
      <4>1. new \in Row /\ new.status # "NONE"
          BY <1>a, <3>1, RowWritten DEF TypeOK, Row, Figures
      <4>2. QED
          BY <1>1, <1>a, <3>1, <4>1, UpdateKeepsRows DEF HandleProgress, TypeOK
    <3>2. CASE m.job.run \notin runs
        BY <1>1, <3>2 DEF HandleProgress, TypeOK, RowsOK
    <3>3. QED
        BY <3>1, <3>2
  <2>2. QED
      BY <1>1, <2>1 DEF HandleProgress, TypeOK, requests, queue
<1>2. ASSUME NEW m \in net, ReceiveCompletion(m) PROVE TypeOK'
  <2>1. RowsOK'
    <3>1. CASE m.job.run \in runs
      <4> DEFINE new == [row[m.job.run] EXCEPT !.status = "COMPLETED", !.figures = "final"]
      <4>0. row[m.job.run] \in Row
          BY <1>a, <3>1, RowWritten DEF TypeOK
      <4>1. new \in Row /\ new.status # "NONE"
          BY <4>0, CompletedRow
      <4>2. QED
          BY <1>2, <1>a, <3>1, <4>1, UpdateKeepsRows DEF ReceiveCompletion, TypeOK
    <3>2. CASE m.job.run \notin runs
        BY <1>2, <3>2 DEF ReceiveCompletion, TypeOK, RowsOK
    <3>3. QED
        BY <3>1, <3>2
  <2>2. [job |-> m.job, plan |-> m.plan, at |-> "persist"] \in Completion
      BY <1>2 DEF ReceiveCompletion, TypeOK, Callback, Completion
  <2>3. handling' \subseteq Completion
      BY <1>2, <2>2 DEF ReceiveCompletion, TypeOK
  <2>4. QED
      BY <1>2, <2>1, <2>3 DEF ReceiveCompletion, TypeOK, requests, queue
<1>3. ASSUME NEW c \in handling, PersistLessons(c) PROVE TypeOK'
  <2>1. RowsOK'
    <3>1. CASE c.job.run \in runs
      <4>0. PICK met \in SUBSET {c.job.delivery} :
                row' = [row EXCEPT ![c.job.run] = WithLessons(row[c.job.run], c.job.delivery, met)]
          BY <1>3, <3>1, LessonsStored
      <4> DEFINE x == row[c.job.run]
                 new == WithLessons(x, c.job.delivery, met)
      <4>1. x \in Row /\ x.status # "NONE"
          BY <1>b, <3>1, RowWritten DEF TypeOK
      <4>2. new \in Row /\ new.status # "NONE"
          BY <1>b, <4>1 DEF Row, WithLessons
      <4>3. row' = [row EXCEPT ![c.job.run] = new]
          BY <4>0
      <4> HIDE DEF new
      <4>4. QED
          BY <1>b, <4>2, <4>3, WriteKeepsRows DEF TypeOK
    <3>2. CASE c.job.run \notin runs
        BY <1>3, <3>2 DEF PersistLessons, TypeOK, RowsOK
    <3>3. QED
        BY <3>1, <3>2
  <2>2. handling' \subseteq Completion
      BY <1>3, <1>c DEF PersistLessons
  <2>3. QED
      BY <1>3, <2>1, <2>2 DEF PersistLessons, TypeOK, requests, queue, sidecar
<1>4. ASSUME NEW c \in handling, PersistFails(c) PROVE TypeOK'
  <2>1. RowsOK'
    <3>1. CASE c.job.run \in runs
      <4> DEFINE new == [row[c.job.run] EXCEPT !.status = "FAILED", !.isActive = FALSE,
                                              !.errorReason = TRUE]
      <4>0. row[c.job.run] \in Row
          BY <1>b, <3>1, RowWritten DEF TypeOK
      <4>1. new \in Row /\ new.status # "NONE"
          BY <4>0, GivenUpRow
      <4>2. QED
          BY <1>4, <1>b, <3>1, <4>1, UpdateKeepsRows DEF PersistFails, TypeOK
    <3>2. CASE c.job.run \notin runs
        BY <1>4, <3>2 DEF PersistFails, TypeOK, RowsOK
    <3>3. QED
        BY <3>1, <3>2
  <2>2. handling' \subseteq Completion
      BY <1>4, <1>c DEF PersistFails
  <2>3. QED
      BY <1>4, <2>1, <2>2 DEF PersistFails, TypeOK, requests, queue, sidecar
<1>5. ASSUME NEW c \in handling, RecordConflicts(c) PROVE TypeOK'
  <2>1. RowsOK'
    <3>1. CASE c.job.run \in runs
      <4> DEFINE x == row[c.job.run]
                 new == [x EXCEPT !.conflicts = @ \cup {c.job.delivery}]
      <4>1. x \in Row /\ x.status # "NONE"
          BY <1>b, <3>1, RowWritten DEF TypeOK
      <4>2. new \in Row /\ new.status # "NONE"
          BY <1>b, <4>1 DEF Row
      <4>3. row' = [row EXCEPT ![c.job.run] = new]
          BY <1>5, <3>1 DEF RecordConflicts
      <4>4. QED
          BY <1>b, <4>2, <4>3, WriteKeepsRows DEF TypeOK
    <3>2. CASE c.job.run \notin runs
        BY <1>5, <3>2 DEF RecordConflicts, TypeOK, RowsOK
    <3>3. QED
        BY <3>1, <3>2
  <2>2. handling' \subseteq Completion
      BY <1>5, <1>c DEF RecordConflicts
  <2>3. QED
      BY <1>5, <2>1, <2>2 DEF RecordConflicts, TypeOK, requests, queue, sidecar
<1>6. ASSUME NEW c \in handling, DowngradeRun(c) PROVE TypeOK'
  <2>1. RowsOK'
    <3>1. CASE c.job.run \in runs
      <4> DEFINE new == [row[c.job.run] EXCEPT !.status = "COMPLETED_WITH_CONFLICTS",
                                              !.isActive = FALSE]
      <4>1. new \in Row /\ new.status # "NONE"
          BY <1>b, <3>1, RowWritten, DeactivatedRow DEF TypeOK, SolveStatus
      <4>2. QED
          BY <1>6, <1>b, <3>1, <4>1, UpdateKeepsRows DEF DowngradeRun, TypeOK
    <3>2. CASE c.job.run \notin runs
        BY <1>6, <3>2 DEF DowngradeRun, TypeOK, RowsOK
    <3>3. QED
        BY <3>1, <3>2
  <2>2. handling' \subseteq Completion
      BY <1>6, <1>c DEF DowngradeRun
  <2>3. QED
      BY <1>6, <2>1, <2>2 DEF DowngradeRun, TypeOK, requests, queue, sidecar
<1>7. ASSUME NEW c \in handling, HandlerThrows(c) PROVE TypeOK'
    BY <1>7 DEF HandlerThrows, Return, TypeOK, RowsOK, requests, queue, sidecar
<1>8. QED
    BY <1>1, <1>2, <1>3, <1>4, <1>5, <1>6, <1>7 DEF Callbacks

(* Stopping and activating a run keep the types.                           *)
LEMMA TypeAdmin == TypeOK /\ Admin => TypeOK'
<1> SUFFICES ASSUME TypeOK, NEW r \in RunIds,
                    RequestStop(r) \/ StopUnreachable(r) \/ MarkStopped(r) \/ ActivateRun(r)
             PROVE  TypeOK'
    BY DEF Admin
<1>1. CASE RequestStop(r) \/ StopUnreachable(r)
    BY <1>1 DEF RequestStop, StopUnreachable, TypeOK, RowsOK, requests, queue, sidecar
<1>2. CASE MarkStopped(r)
  <2>1. RowsOK'
      BY <1>2, SetStatusKeepsRows DEF MarkStopped, TypeOK, RowsOK, SolveStatus
  <2>2. QED
      BY <1>2, <2>1 DEF MarkStopped, TypeOK, requests, queue, sidecar
<1>3. CASE ActivateRun(r)
  <2>1. \A q \in RunIds :
           LET new == [row[q] EXCEPT !.isActive = (q = r), !.overdue = FALSE]
           IN  new \in Row /\ new.status = row[q].status
      BY ActivatedRow DEF TypeOK, RowsOK
  <2>2. RowsOK'
      BY <1>3, <2>1 DEF ActivateRun, TypeOK, RowsOK, runs
  <2>3. QED
      BY <1>3, <2>2 DEF ActivateRun, TypeOK, requests, queue, sidecar
<1>4. QED
    BY <1>1, <1>2, <1>3

(* The passing of the time budget, the watchdog and a crash keep the       *)
(* types.                                                                  *)
LEMMA TypeEnvironment == TypeOK /\ (BudgetPasses \/ Watchdog \/ Crash) => TypeOK'
<1> SUFFICES ASSUME TypeOK, BudgetPasses \/ Watchdog \/ Crash PROVE TypeOK'
    OBVIOUS
<1> USE BoundsAssumption
<1>1. CASE BudgetPasses
  <2>1. \A q \in RunIds : LET new == [row[q] EXCEPT !.overdue = TRUE]
                          IN  new \in Row /\ new.status = row[q].status
      BY DEF TypeOK, RowsOK, Row
  <2>2. RowsOK'
      BY <1>1, <2>1 DEF BudgetPasses, TypeOK, RowsOK, runs
  <2>3. QED
      BY <1>1, <2>2 DEF BudgetPasses, TypeOK, requests, queue, sidecar
<1>2. CASE SweepBegins
    BY <1>2 DEF SweepBegins, Expired, runs, TypeOK, RowsOK, requests, queue, sidecar
<1>3. ASSUME NEW r \in sweep, SweepFails(r) PROVE TypeOK'
  <2>1. r \in RunIds
      BY DEF TypeOK
  <2>2. RowsOK'
    <3>1. CASE r \in runs
      <4> DEFINE new == [row[r] EXCEPT !.status = "FAILED", !.errorReason = TRUE]
      <4>1. new \in Row /\ new.status # "NONE"
          BY <2>1, RowWritten, FailedRow DEF TypeOK
      <4>2. QED
          BY <1>3, <2>1, <3>1, <4>1, UpdateKeepsRows DEF SweepFails, TypeOK
    <3>2. CASE r \notin runs
        BY <1>3, <3>2 DEF SweepFails, TypeOK, RowsOK
    <3>3. QED
        BY <3>1, <3>2
  <2>3. QED
      BY <1>3, <2>2 DEF SweepFails, TypeOK, requests, queue, sidecar
<1>4. CASE Crash
  <2>1. Redelivered \subseteq Job
    <3>1. CASE worker # Idle /\ worker.job.delivery < MaxDeliveries
      <4>1. worker.job \in Job /\ worker.job.delivery + 1 \in Deliveries
          BY <3>1 DEF TypeOK, WorkerState, Job, Deliveries
      <4>2. [worker.job EXCEPT !.delivery = @ + 1] \in Job
          BY <4>1 DEF Job
      <4>3. QED
          BY <3>1, <4>2 DEF Redelivered
    <3>2. QED
        BY <3>1 DEF Redelivered
  <2>2. QED
      BY <1>4, <2>1 DEF Crash, TypeOK, RowsOK, StartState, WorkerState, sidecar
<1>5. QED
    BY <1>1, <1>2, <1>3, <1>4 DEF Watchdog

(* Every step keeps the types.                                             *)
LEMMA TypeStep == TypeOK /\ [Next]_vars => TypeOK'
<1> SUFFICES ASSUME TypeOK, [Next]_vars PROVE TypeOK'
    OBVIOUS
<1>1. CASE Next
    BY <1>1, TypeStartSolve, TypeProcess, TypeSidecar, TypeCallbacks, TypeAdmin,
       TypeEnvironment DEF Next
<1>2. CASE UNCHANGED vars
    BY <1>2 DEF vars, requests, queue, sidecar, TypeOK, RowsOK
<1>3. QED
    BY <1>1, <1>2

(* TypeOK holds in every reachable state: no write of a handler whose run  *)
(* was deleted under it leaves a row, a lesson or a conflict behind.       *)
THEOREM TypeCorrect == Spec => []TypeOK
<1>1. QED
    BY TypeInit, TypeStep, PTL DEF Spec

-----------------------------------------------------------------------------
(* The run table.  Only startSolve creates and deletes rows; every other   *)
(* actor leaves the set of runs alone and changes the active ones as       *)
(* SchoolRuns allows.                                                      *)

TableKept ==
    /\ requests' = requests
    /\ runs' = runs
    /\ \/ activeRuns' = activeRuns
       \/ \E r \in runs : activeRuns' = {r} \/ activeRuns' = activeRuns \ {r}

(* Writing one existing row without activating it creates and deletes no   *)
(* run, and at most takes that run from the active ones.                   *)
LEMMA OneRowWritten ==
    ASSUME TypeOK, NEW r \in runs, NEW new, new.status # "NONE",
           new.isActive = row[r].isActive \/ new.isActive = FALSE,
           row' = [row EXCEPT ![r] = new]
    PROVE  /\ runs' = runs
           /\ activeRuns' = activeRuns \/ activeRuns' = activeRuns \ {r}
<1>1. row \in [RunIds -> Row] /\ r \in RunIds
    BY DEF TypeOK, RowsOK, runs
<1>2. row'[r] = new /\ \A q \in RunIds : q # r => row'[q] = row[q]
    BY <1>1
<1>3. runs' = runs
    BY <1>1, <1>2 DEF runs
<1>4. CASE new.isActive = row[r].isActive
    BY <1>1, <1>2, <1>3, <1>4 DEF activeRuns
<1>5. CASE new.isActive = FALSE
    BY <1>1, <1>2, <1>3, <1>5 DEF activeRuns
<1>6. QED
    BY <1>3, <1>4, <1>5

(* The same of a Prisma update.                                            *)
LEMMA OneRowUpdated ==
    ASSUME TypeOK, NEW r \in runs, NEW new \in Row, new.status # "NONE",
           new.isActive = row[r].isActive \/ new.isActive = FALSE,
           Update(r, new)
    PROVE  /\ runs' = runs
           /\ activeRuns' = activeRuns \/ activeRuns' = activeRuns \ {r}
<1> DEFINE x == [new EXCEPT !.overdue = FALSE]
<1>1. x.status # "NONE" /\ x.isActive = new.isActive
    BY DEF Row
<1>2. QED
    BY <1>1, OneRowWritten DEF Update

(* The same of an update of the status.                                    *)
LEMMA OneStatusSet ==
    ASSUME TypeOK, NEW r \in runs, NEW s \in SolveStatus, SetStatus(r, s)
    PROVE  runs' = runs /\ (activeRuns' = activeRuns \/ activeRuns' = activeRuns \ {r})
<1> DEFINE new == [row[r] EXCEPT !.status = s]
<1>1. row[r] \in Row
    BY DEF TypeOK, RowsOK, runs
<1>2. new \in Row /\ new.status # "NONE" /\ new.isActive = row[r].isActive
    BY <1>1 DEF Row, SolveStatus
<1>3. QED
    BY <1>2, OneRowUpdated DEF SetStatus

(* A step that writes no row changes neither the runs nor the active ones. *)
LEMMA RowsUnchanged ==
    ASSUME UNCHANGED row PROVE runs' = runs /\ activeRuns' = activeRuns
BY DEF runs, activeRuns

(* The worker creates, deletes and activates no run.                       *)
LEMMA ProcessKeepsTable == TypeOK /\ Process => TableKept
<1> SUFFICES ASSUME TypeOK, Process PROVE TableKept
    OBVIOUS
<1>1. UNCHANGED requests
    BY DEF Process, FetchJob, MarkSolving, Submit, SubmitFails, AcceptanceLost, MarkFailed,
           FinishJob
<1>2. CASE UNCHANGED row
    BY <1>1, <1>2, RowsUnchanged DEF TableKept
<1>3. CASE ~ UNCHANGED row
  <2>1. worker.job.run \in runs
           /\ (SetStatus(worker.job.run, "SOLVING") \/ SetStatus(worker.job.run, "FAILED"))
      BY <1>3 DEF Process, FetchJob, MarkSolving, Submit, SubmitFails, AcceptanceLost,
                  MarkFailed, FinishJob
  <2>2. QED
      BY <1>1, <2>1, OneStatusSet DEF TableKept, SolveStatus
<1>4. QED
    BY <1>2, <1>3

(* The sidecar, which has no access to the database, writes no run.        *)
LEMMA SidecarKeepsTable == TypeOK /\ Sidecar => TableKept
BY RowsUnchanged
   DEF Sidecar, BestSolution, SolverDies, FinalSolution, LoseCallback, TableKept

(* The callback handlers create and delete no run, and at most deactivate  *)
(* the one they handle.                                                    *)
LEMMA CallbacksKeepTable == TypeOK /\ Callbacks => TableKept
<1> SUFFICES ASSUME TypeOK, Callbacks PROVE TableKept
    OBVIOUS
<1>1. UNCHANGED requests
    BY DEF Callbacks, HandleProgress, ReceiveCompletion, PersistLessons, PersistFails,
           RecordConflicts, DowngradeRun, HandlerThrows
<1>2. CASE UNCHANGED row
    BY <1>1, <1>2, RowsUnchanged DEF TableKept
<1>3. ASSUME NEW r \in runs
      PROVE  row[r] \in Row /\ row[r].status # "NONE"
    BY DEF TypeOK, RowsOK, runs
<1>4. ASSUME NEW m \in net, HandleProgress(m), ~ UNCHANGED row PROVE TableKept
  <2> DEFINE r == m.job.run
             new == [row[r] EXCEPT !.figures = "progress"]
  <2>1. r \in runs /\ Update(r, new)
      BY <1>4 DEF HandleProgress
  <2>2. new \in Row /\ new.status # "NONE" /\ new.isActive = row[r].isActive
      BY <1>3, <2>1 DEF Row, Figures
  <2>3. QED
      BY <1>1, <2>1, <2>2, OneRowUpdated DEF TableKept
<1>5. ASSUME NEW m \in net, ReceiveCompletion(m), ~ UNCHANGED row PROVE TableKept
  <2> DEFINE r == m.job.run
             new == [row[r] EXCEPT !.status = "COMPLETED", !.figures = "final"]
  <2>1. r \in runs /\ Update(r, new)
      BY <1>5 DEF ReceiveCompletion
  <2>2. row[r] \in Row
      BY <1>3, <2>1
  <2>3. new \in Row /\ new.status # "NONE"
      BY <2>2, CompletedRow
  <2>4. new.isActive = row[r].isActive
      BY <2>2 DEF Row
  <2>5. QED
      BY <1>1, <2>1, <2>3, <2>4, OneRowUpdated DEF TableKept
<1>6. ASSUME NEW c \in handling, PersistLessons(c), ~ UNCHANGED row PROVE TableKept
  <2>0. c.job.run \in runs
      BY <1>6 DEF PersistLessons
  <2>00. PICK met \in SUBSET {c.job.delivery} :
             row' = [row EXCEPT ![c.job.run] = WithLessons(row[c.job.run], c.job.delivery, met)]
      BY <1>6, <2>0, LessonsStored
  <2> DEFINE r == c.job.run
             new == WithLessons(row[r], c.job.delivery, met)
  <2>1. r \in runs /\ row' = [row EXCEPT ![r] = new]
      BY <2>0, <2>00
  <2>2. new.status # "NONE" /\ new.isActive = row[r].isActive
      BY <1>3, <2>1 DEF Row, WithLessons
  <2> HIDE DEF new
  <2>3. QED
      BY <1>1, <2>1, <2>2, OneRowWritten DEF TableKept
<1>7. ASSUME NEW c \in handling, PersistFails(c), ~ UNCHANGED row PROVE TableKept
  <2> DEFINE r == c.job.run
             new == [row[r] EXCEPT !.status = "FAILED", !.isActive = FALSE, !.errorReason = TRUE]
  <2>1. r \in runs /\ Update(r, new)
      BY <1>7 DEF PersistFails
  <2>2. row[r] \in Row
      BY <1>3, <2>1
  <2>3. new \in Row /\ new.status # "NONE"
      BY <2>2, GivenUpRow
  <2>4. new.isActive = FALSE
      BY <2>2 DEF Row
  <2>5. QED
      BY <1>1, <2>1, <2>3, <2>4, OneRowUpdated DEF TableKept
<1>8. ASSUME NEW c \in handling, RecordConflicts(c), ~ UNCHANGED row PROVE TableKept
  <2> DEFINE r == c.job.run
             new == [row[r] EXCEPT !.conflicts = @ \cup {c.job.delivery}]
  <2>1. r \in runs /\ row' = [row EXCEPT ![r] = new]
      BY <1>8 DEF RecordConflicts
  <2>2. new.status # "NONE" /\ new.isActive = row[r].isActive
      BY <1>3, <2>1 DEF Row
  <2>3. QED
      BY <1>1, <2>1, <2>2, OneRowWritten DEF TableKept
<1>9. ASSUME NEW c \in handling, DowngradeRun(c), ~ UNCHANGED row PROVE TableKept
  <2> DEFINE r == c.job.run
             new == [row[r] EXCEPT !.status = "COMPLETED_WITH_CONFLICTS", !.isActive = FALSE]
  <2>1. r \in runs /\ Update(r, new)
      BY <1>9 DEF DowngradeRun
  <2>2. row[r] \in Row
      BY <1>3, <2>1
  <2>3. new \in Row /\ new.status # "NONE"
      BY <2>2, DeactivatedRow DEF SolveStatus
  <2>4. new.isActive = FALSE
      BY <2>2 DEF Row
  <2>5. QED
      BY <1>1, <2>1, <2>3, <2>4, OneRowUpdated DEF TableKept
<1>10. ASSUME NEW c \in handling, HandlerThrows(c), ~ UNCHANGED row PROVE TableKept
    BY <1>10 DEF HandlerThrows
<1>11. QED
    BY <1>2, <1>4, <1>5, <1>6, <1>7, <1>8, <1>9, <1>10 DEF Callbacks

(* A stop or an activation creates and deletes no run; an activation       *)
(* leaves one active.                                                      *)
LEMMA AdminKeepsTable == TypeOK /\ Admin => TableKept
<1> SUFFICES ASSUME TypeOK, NEW r \in RunIds,
                    RequestStop(r) \/ StopUnreachable(r) \/ MarkStopped(r) \/ ActivateRun(r)
             PROVE  TableKept
    BY DEF Admin
<1>1. CASE RequestStop(r) \/ StopUnreachable(r)
    BY <1>1, RowsUnchanged DEF RequestStop, StopUnreachable, TableKept
<1>2. CASE MarkStopped(r)
    BY <1>2, RowsUnchanged, OneStatusSet DEF MarkStopped, TableKept, SolveStatus
<1>3. CASE ActivateRun(r)
  <2>1. ASSUME NEW q \in RunIds
        PROVE  /\ row'[q].status = row[q].status
               /\ q \in runs => row'[q].isActive = (q = r)
      BY <1>3 DEF ActivateRun, TypeOK, RowsOK, Row
  <2>2. runs' = runs
      BY <2>1 DEF runs
  <2>3. activeRuns' = {r}
      BY <1>3, <2>1, <2>2 DEF ActivateRun, activeRuns, runs
  <2>4. QED
      BY <1>3, <2>2, <2>3 DEF ActivateRun, TableKept
<1>4. QED
    BY <1>1, <1>2, <1>3

(* The watchdog creates, deletes and activates no run.                     *)
LEMMA WatchKeepsTable == TypeOK /\ (BudgetPasses \/ Watchdog) => TableKept
<1> SUFFICES ASSUME TypeOK, BudgetPasses \/ Watchdog PROVE TableKept
    OBVIOUS
<1>1. CASE BudgetPasses
  <2>1. ASSUME NEW q \in RunIds
        PROVE  row'[q].status = row[q].status /\ row'[q].isActive = row[q].isActive
      BY <1>1 DEF BudgetPasses, TypeOK, RowsOK, Row
  <2>2. runs' = runs /\ activeRuns' = activeRuns
      BY <2>1 DEF runs, activeRuns
  <2>3. QED
      BY <1>1, <2>2 DEF BudgetPasses, TableKept
<1>2. CASE SweepBegins
    BY <1>2, RowsUnchanged DEF SweepBegins, TableKept
<1>3. ASSUME NEW r \in sweep, SweepFails(r) PROVE TableKept
  <2>1. CASE r \notin runs
      BY <1>3, <2>1, RowsUnchanged DEF SweepFails, TableKept
  <2>2. CASE r \in runs
    <3> DEFINE new == [row[r] EXCEPT !.status = "FAILED", !.errorReason = TRUE]
    <3>1. row[r] \in Row
        BY <2>2 DEF TypeOK, RowsOK, runs
    <3>2. new \in Row /\ new.status # "NONE"
        BY <3>1, FailedRow
    <3>3. new.isActive = row[r].isActive
        BY <3>1 DEF Row
    <3>4. QED
        BY <1>3, <2>2, <3>2, <3>3, OneRowUpdated DEF SweepFails, TableKept
  <2>3. QED
      BY <2>1, <2>2
<1>4. QED
    BY <1>1, <1>2, <1>3 DEF Watchdog

(* Every step is one of startSolve's, a crash, or leaves the table alone.  *)
LEMMA StepKinds ==
    ASSUME TypeOK, [Next]_vars
    PROVE  StartSolve \/ Crash \/ TableKept
<1>1. CASE UNCHANGED vars
    BY <1>1, RowsUnchanged DEF vars, TableKept
<1>2. CASE Next
    BY <1>2, ProcessKeepsTable, SidecarKeepsTable, CallbacksKeepTable, AdminKeepsTable,
       WatchKeepsTable DEF Next
<1>3. QED
    BY <1>1, <1>2

-----------------------------------------------------------------------------
(* The run limit.                                                          *)

LEMMA SurplusIsOutdated ==
    ASSUME TypeOK, runs \subseteq 1 .. lastRun, NEW v \in Surplus
    PROVE  v + MaxRuns <= lastRun
<1>1. v \in 1 .. lastRun /\ lastRun \in Nat /\ MaxRuns \in Nat /\ v \in Nat
    BY BoundsAssumption DEF Surplus, TypeOK
<1>2. Newer(v) \subseteq (v + 1) .. lastRun
  <2>1. ASSUME NEW q \in Newer(v) PROVE q \in (v + 1) .. lastRun
    <3>1. q \in 1 .. lastRun /\ q > v
        BY DEF Newer
    <3>2. QED
        BY <1>1, <3>1
  <2>2. QED
      BY <2>1
<1>3. IsFiniteSet((v + 1) .. lastRun) /\ Cardinality((v + 1) .. lastRun) = lastRun - v
    BY <1>1, FS_Interval
<1>4. Cardinality(Newer(v)) <= lastRun - v
    BY <1>2, <1>3, FS_Subset
<1>5. Cardinality(Newer(v)) >= MaxRuns
    BY DEF Surplus
<1>6. IsFiniteSet(Newer(v)) /\ Cardinality(Newer(v)) \in Nat
    BY <1>2, <1>3, FS_Subset, FS_CardinalityType
<1>7. QED
    BY <1>1, <1>4, <1>5, <1>6

(* Conversely, a run with MaxRuns starts after it is among those the       *)
(* cleanup deletes, since all the newest runs are still there.             *)
LEMMA OutdatedIsSurplus ==
    ASSUME TypeOK, RunTableInv, NEW q \in runs, q + MaxRuns <= lastRun
    PROVE  q \in Surplus
<1>1. q \in Nat /\ lastRun \in Nat /\ MaxRuns \in Nat \ {0} /\ MaxStarts \in Nat
    BY BoundsAssumption DEF runs, RunIds, TypeOK
<1> DEFINE newest == (lastRun - MaxRuns + 1) .. lastRun
<1>2. newest \subseteq Newer(q)
    BY <1>1 DEF RunTableInv, Newer
<1>3. Newer(q) \subseteq 1 .. lastRun
    BY DEF Newer, RunTableInv
<1>4. IsFiniteSet(1 .. lastRun)
    BY <1>1, FS_Interval
<1>5. IsFiniteSet(Newer(q))
    BY <1>3, <1>4, FS_Subset
<1>6. Cardinality(newest) = MaxRuns
    BY <1>1, FS_Interval
<1>7. Cardinality(newest) <= Cardinality(Newer(q))
    BY <1>2, <1>5, FS_Subset
<1>8. QED
    BY <1>1, <1>6, <1>7 DEF Surplus

(* The invariant of the run table holds of the empty table.                *)
LEMMA TableInit == Init => RunTableInv
BY BoundsAssumption DEF Init, RunTableInv, runs, RunIds, NoRow

(* Every step keeps the invariant of the run table: a delete only takes    *)
(* runs that were surplus when the cleanup read them, and these stay       *)
(* surplus.                                                                *)
LEMMA TableStep == TypeOK /\ RunTableInv /\ [Next]_vars => RunTableInv'
<1> SUFFICES ASSUME TypeOK, RunTableInv, [Next]_vars PROVE RunTableInv'
    OBVIOUS
<1> USE BoundsAssumption
<1>0. lastRun \in Nat /\ lastRun <= MaxStarts /\ runs \subseteq 1 .. lastRun
         /\ starts \in [RunIds -> StartState] /\ victims \in [RunIds -> SUBSET RunIds]
    BY DEF TypeOK, RunTableInv
<1>1. CASE CreateRun
  <2>1. lastRun + 1 \in RunIds /\ lastRun' = lastRun + 1 /\ victims' = victims
      BY <1>0, <1>1 DEF CreateRun, RunIds
  <2>2. runs' = runs \cup {lastRun + 1}
      BY <1>1, <2>1 DEF CreateRun, TypeOK, RowsOK, runs, QueuedRow, NoRow
  <2>3. starts' = [starts EXCEPT ![lastRun + 1] = "created"]
      BY <1>1 DEF CreateRun
  <2>4. \A r \in RunIds : starts'[r] = "idle" <=> r > lastRun'
      BY <1>0, <2>1, <2>3 DEF RunTableInv, RunIds
  <2>5. \A r \in 1 .. lastRun' : r + MaxRuns > lastRun' => r \in runs'
      BY <1>0, <2>1, <2>2 DEF RunTableInv
  <2>6. \A r \in RunIds : \A v \in victims'[r] : v + MaxRuns <= lastRun'
      BY <1>0, <2>1 DEF RunTableInv, RunIds
  <2>7. starts'[lastRun'] = "created"
      BY <1>0, <2>1, <2>3
  <2>8. QED
      BY <1>0, <2>1, <2>2, <2>4, <2>5, <2>6, <2>7 DEF RunTableInv
<1>2. ASSUME NEW r \in RunIds, Enqueue(r) \/ EnqueueFails(r) PROVE RunTableInv'
  <2>1. runs' = runs /\ lastRun' = lastRun /\ victims' = victims
      BY <1>2 DEF Enqueue, EnqueueFails, runs
  <2>2. starts[r] = "created" /\ starts'[r] \in {"queued", "aborted"}
           /\ \A q \in RunIds : q # r => starts'[q] = starts[q]
      BY <1>0, <1>2 DEF Enqueue, EnqueueFails
  <2>3. lastRun > 0 => lastRun \in RunIds
      BY <1>0 DEF RunIds
  <2>4. QED
      BY <2>1, <2>2, <2>3 DEF RunTableInv
<1>3. ASSUME NEW r \in RunIds, ReadRunLimit(r) PROVE RunTableInv'
  <2>1. runs' = runs /\ lastRun' = lastRun
      BY <1>3 DEF ReadRunLimit, runs
  <2>2. /\ starts[r] = "queued"
        /\ starts'[r] = IF Surplus = {} THEN "done" ELSE "trimming"
        /\ \A q \in RunIds : q # r => starts'[q] = starts[q]
        /\ victims'[r] = Surplus
        /\ \A q \in RunIds : q # r => victims'[q] = victims[q]
      BY <1>0, <1>3 DEF ReadRunLimit
  <2>3. lastRun > 0 => lastRun \in RunIds
      BY <1>0 DEF RunIds
  <2>4. \A q \in RunIds : \A v \in victims'[q] : v + MaxRuns <= lastRun'
      BY <1>0, <2>1, <2>2, SurplusIsOutdated DEF RunTableInv
  <2>5. \A q \in runs : q + MaxRuns <= lastRun => q \in Surplus
      BY OutdatedIsSurplus
  <2>6. \A q \in runs : q \in Nat
      BY DEF runs, RunIds
  <2>7. QED
      BY <1>0, <2>1, <2>2, <2>3, <2>4, <2>5, <2>6 DEF RunTableInv
<1>4. ASSUME NEW r \in RunIds, DeleteSurplus(r) PROVE RunTableInv'
  <2>1. runs' = runs \ victims[r]
      BY <1>4 DEF DeleteSurplus, runs, NoRow
  <2>2. /\ lastRun' = lastRun
        /\ starts[r] = "trimming" /\ starts'[r] = "done"
        /\ \A q \in RunIds : q # r => starts'[q] = starts[q]
        /\ victims'[r] = {}
        /\ \A q \in RunIds : q # r => victims'[q] = victims[q]
      BY <1>0, <1>4 DEF DeleteSurplus
  <2>3. lastRun > 0 => lastRun \in RunIds
      BY <1>0 DEF RunIds
  <2>4. \A q \in runs : q \in Nat
      BY DEF runs, RunIds
  <2>5. \A v \in victims[r] : v \in Nat /\ v + MaxRuns <= lastRun
      BY <1>0 DEF RunTableInv, RunIds
  <2>6. \A q \in 1 .. lastRun' : q + MaxRuns > lastRun' => q \in runs'
      BY <1>0, <2>1, <2>2, <2>5 DEF RunTableInv
  <2>7. \A q \in RunIds : starts'[q] = "idle" <=> q > lastRun'
      BY <2>2 DEF RunTableInv
  <2>8. \A q \in RunIds : \A v \in victims'[q] : v + MaxRuns <= lastRun'
      BY <2>2 DEF RunTableInv
  <2>9. lastRun' > 0 /\ starts'[lastRun'] = "trimming" =>
           \A q \in runs' : q + MaxRuns <= lastRun' => q \in victims'[lastRun']
      BY <2>1, <2>2, <2>3 DEF RunTableInv
  <2>10. lastRun' > 0 /\ starts'[lastRun'] = "done" => \A q \in runs' : q + MaxRuns > lastRun'
      BY <1>0, <2>1, <2>2, <2>3, <2>4 DEF RunTableInv
  <2>11. QED
      BY <1>0, <2>1, <2>2, <2>6, <2>7, <2>8, <2>9, <2>10 DEF RunTableInv
<1>5. CASE Crash
  <2>1. runs' = runs /\ lastRun' = lastRun
      BY <1>5 DEF Crash, runs
  <2>2. \A r \in RunIds : /\ victims'[r] = {}
                           /\ starts'[r] # "trimming"
                           /\ (starts'[r] = "idle" <=> starts[r] = "idle")
                           /\ (starts'[r] = "done" <=> starts[r] = "done")
      BY <1>5 DEF Crash
  <2>3. lastRun > 0 => lastRun \in RunIds
      BY <1>0 DEF RunIds
  <2>4. QED
      BY <2>1, <2>2, <2>3 DEF RunTableInv
<1>6. CASE TableKept
    BY <1>6 DEF TableKept, requests, RunTableInv
<1>7. QED
    BY <1>1, <1>2, <1>3, <1>4, <1>5, <1>6, StepKinds DEF StartSolve

(* The inductive invariant of the run table: whatever enforceRunLimit read *)
(* as surplus stays surplus until it is deleted.                           *)
THEOREM RunTableCorrect == Spec => [](TypeOK /\ RunTableInv)
<1>1. Init => TypeOK /\ RunTableInv
    BY TypeInit, TableInit
<1>2. (TypeOK /\ RunTableInv) /\ [Next]_vars => (TypeOK /\ RunTableInv)'
    BY TypeStep, TableStep
<1>3. QED
    BY <1>1, <1>2, PTL DEF Spec

(* D-11 for every limit and any interleaving of requests: when the newest  *)
(* startSolve has returned, at most MaxRuns runs are left.                 *)
THEOREM RunLimitHolds == Spec => []RunLimit
<1>1. TypeOK /\ RunTableInv => RunLimit
  <2> SUFFICES ASSUME TypeOK, RunTableInv, lastRun > 0, starts[lastRun] = "done"
               PROVE  Cardinality(runs) <= MaxRuns
      BY DEF RunLimit
  <2>1. lastRun \in Nat /\ MaxRuns \in Nat
      BY BoundsAssumption DEF TypeOK
  <2> DEFINE newest == (lastRun - MaxRuns + 1) .. lastRun
  <2>2. runs \subseteq newest
      BY <2>1 DEF RunTableInv
  <2>3. IsFiniteSet(newest) /\ Cardinality(newest) = MaxRuns
      BY <2>1, FS_Interval
  <2>4. QED
      BY <2>2, <2>3, FS_Subset
<1>2. QED
    BY <1>1, RunTableCorrect, PTL

-----------------------------------------------------------------------------
(* Activation.                                                             *)

LEMMA ActivityOfStartSolve ==
    ASSUME TypeOK, RunTableInv, StartSolve
    PROVE  activeRuns' \subseteq activeRuns
<1>1. CASE CreateRun
  <2>1. row' = [row EXCEPT ![lastRun + 1] = QueuedRow] /\ lastRun + 1 \in RunIds
      BY <1>1, BoundsAssumption DEF CreateRun, TypeOK, RunIds
  <2>2. ~ QueuedRow.isActive
      BY DEF QueuedRow, NoRow
  <2>3. QED
      BY <2>1, <2>2 DEF activeRuns, runs, TypeOK, RowsOK
<1>2. ASSUME NEW r \in RunIds, Enqueue(r) \/ EnqueueFails(r) \/ ReadRunLimit(r)
      PROVE  activeRuns' \subseteq activeRuns
    BY <1>2 DEF Enqueue, EnqueueFails, ReadRunLimit, activeRuns, runs
<1>3. ASSUME NEW r \in RunIds, DeleteSurplus(r) PROVE activeRuns' \subseteq activeRuns
    BY <1>3 DEF DeleteSurplus, activeRuns, runs, NoRow
<1>4. QED
    BY <1>1, <1>2, <1>3 DEF StartSolve

(* No interleaving of activations, completions, crashes and deletions      *)
(* leaves the school with two active timetables.                           *)
THEOREM OneActiveRun == Spec => []AtMostOneActive
<1>1. Init => AtMostOneActive
    BY DEF Init, AtMostOneActive, activeRuns, runs, NoRow
<1>2. (TypeOK /\ RunTableInv) /\ AtMostOneActive /\ [Next]_vars => AtMostOneActive'
  <2> SUFFICES ASSUME TypeOK, RunTableInv, AtMostOneActive, [Next]_vars PROVE AtMostOneActive'
      OBVIOUS
  <2>1. CASE StartSolve
      BY <2>1, ActivityOfStartSolve DEF AtMostOneActive
  <2>2. CASE Crash
      BY <2>2, RowsUnchanged DEF Crash, AtMostOneActive
  <2>3. CASE TableKept
      BY <2>3 DEF TableKept, AtMostOneActive
  <2>4. QED
      BY <2>1, <2>2, <2>3, StepKinds
<1>3. QED
    BY <1>1, <1>2, RunTableCorrect, PTL DEF Spec

-----------------------------------------------------------------------------
(* SolveRun implements SchoolRuns.                                         *)

LEMMA TableRefines ==
    ASSUME TypeOK, RunTableInv, [Next]_vars
    PROVE  [SchoolTable!AbsNext]_(SchoolTable!absVars)
<1> USE DEF SchoolTable!AbsNext, SchoolTable!absVars
<1>0. lastRun \in Nat /\ runs \subseteq RunIds
    BY DEF TypeOK, runs
<1>1. CASE CreateRun
  <2>1. lastRun + 1 \in RunIds /\ lastRun < MaxStarts /\ lastRun' = lastRun + 1
      BY <1>1, <1>0, BoundsAssumption DEF CreateRun, RunIds
  <2>2. lastRun + 1 \notin runs
      BY <1>0 DEF RunTableInv
  <2>3. row' = [row EXCEPT ![lastRun + 1] = QueuedRow]
      BY <1>1 DEF CreateRun
  <2>4. runs' = runs \cup {lastRun + 1} /\ activeRuns' = activeRuns
      BY <2>1, <2>2, <2>3 DEF TypeOK, RowsOK, runs, activeRuns, QueuedRow, NoRow
  <2>5. SchoolTable!AbsCreate
      BY <2>1, <2>4 DEF SchoolTable!AbsCreate
  <2>6. QED
      BY <2>5
<1>2. ASSUME NEW r \in RunIds, Enqueue(r) \/ EnqueueFails(r) \/ ReadRunLimit(r)
      PROVE  UNCHANGED SchoolTable!absVars
    BY <1>2, RowsUnchanged DEF Enqueue, EnqueueFails, ReadRunLimit
<1>3. ASSUME NEW r \in RunIds, DeleteSurplus(r)
      PROVE  \E gone \in SUBSET runs : SchoolTable!AbsTrim(gone)
  <2> DEFINE gone == victims[r] \cap runs
  <2>1. \A v \in gone : v + MaxRuns <= lastRun
      BY DEF RunTableInv
  <2>2. runs' = runs \ gone /\ activeRuns' = activeRuns \ gone /\ lastRun' = lastRun
      BY <1>3 DEF DeleteSurplus, runs, activeRuns, NoRow
  <2>3. SchoolTable!AbsTrim(gone)
      BY <2>1, <2>2 DEF SchoolTable!AbsTrim, SchoolTable!Outdated
  <2>4. QED
      BY <2>3
<1>4. CASE Crash
    BY <1>4, RowsUnchanged DEF Crash
<1>5. CASE TableKept
    BY <1>5 DEF TableKept, requests, SchoolTable!AbsActivate, SchoolTable!AbsDeactivate
<1>6. QED
    BY <1>1, <1>2, <1>3, <1>4, <1>5, StepKinds DEF StartSolve

(* Every behaviour of the services, the queue and the sidecar is one the   *)
(* abstract run table allows: the MaxRuns newest runs are never deleted.   *)
THEOREM Implementation == Spec => ImplementsSchoolRuns
<1>1. Init => SchoolTable!AbsInit
    BY DEF Init, SchoolTable!AbsInit, runs, activeRuns, NoRow
<1>2. TypeOK /\ RunTableInv /\ [Next]_vars => [SchoolTable!AbsNext]_(SchoolTable!absVars)
    BY TableRefines
<1>3. QED
    BY <1>1, <1>2, RunTableCorrect, PTL DEF Spec, ImplementsSchoolRuns, SchoolTable!AbsSpec

-----------------------------------------------------------------------------
(* Lessons, conflicts and what the status says of them.                    *)

(* A completion past its lessons has them stored, one past its conflicts   *)
(* has those recorded, unless the run is gone; and no run created later    *)
(* takes its number.                                                       *)
PlanInv ==
    /\ ConflictsHavePlan
    /\ \A c \in handling : c.at # "persist" => c.job.run <= lastRun
    /\ \A c \in handling : c.at # "persist" /\ c.job.run \in runs =>
          c.job.delivery \in row[c.job.run].lessons
    /\ \A c \in handling : c.at = "downgrade" /\ c.job.run \in runs =>
          c.job.delivery \in row[c.job.run].conflicts
    /\ \A r \in runs : row[r].status = "COMPLETED_WITH_CONFLICTS" => row[r].conflicts # {}

(* Steps that write no lesson and no conflict, create and delete no run,   *)
(* and call none COMPLETED or COMPLETED_WITH_CONFLICTS but those of done.  *)
RowsQuiet(done) ==
    /\ runs' = runs
    /\ \A r \in RunIds : /\ row'[r].lessons = row[r].lessons /\ row'[r].skipped = row[r].skipped
                         /\ row'[r].conflicts = row[r].conflicts
                         /\ row'[r].status = "COMPLETED_WITH_CONFLICTS" => row[r].status = row'[r].status
                         /\ row'[r].status = "COMPLETED" => row[r].status = row'[r].status \/ r \in done

HandlingQuiet ==
    /\ lastRun' = lastRun
    /\ \A c \in handling' : c.at # "persist" => c \in handling
    /\ \A c \in handling : c.at = "downgrade" /\ faults' = 0 => c \in handling'
    /\ faults' = 0 => faults = 0

Resting ==
    \A r \in runs : row[r].status = "COMPLETED" /\ row[r].conflicts # {} /\ faults = 0
        => \E c \in handling : c.job.run = r /\ c.at = "downgrade"

LEMMA UnchangedIsQuiet ==
    ASSUME UNCHANGED row PROVE RowsQuiet({})
BY DEF RowsQuiet, runs

LEMMA UpdateIsQuiet ==
    ASSUME TypeOK, NEW r \in runs, NEW new \in Row, NEW done, Update(r, new),
           new.status # "NONE", new.status # "COMPLETED_WITH_CONFLICTS",
           new.status = "COMPLETED" => new.status = row[r].status \/ r \in done,
           new.lessons = row[r].lessons, new.skipped = row[r].skipped, new.conflicts = row[r].conflicts
    PROVE  RowsQuiet(done)
<1> DEFINE x == [new EXCEPT !.overdue = FALSE]
<1>1. /\ x.status = new.status /\ x.lessons = new.lessons /\ x.skipped = new.skipped /\ x.conflicts = new.conflicts
    BY DEF Row
<1>2. row' = [row EXCEPT ![r] = x] /\ row \in [RunIds -> Row] /\ r \in RunIds
    BY DEF Update, TypeOK, RowsOK, runs
<1> HIDE DEF x
<1>3. row'[r] = x /\ \A q \in RunIds : q # r => row'[q] = row[q]
    BY <1>2
<1>4. runs' = runs
    BY <1>1, <1>2, <1>3 DEF runs
<1>5. QED
    BY <1>1, <1>3, <1>4 DEF RowsQuiet

LEMMA StatusIsQuiet ==
    ASSUME TypeOK, NEW r \in runs, NEW s \in SolveStatus, SetStatus(r, s),
           s # "COMPLETED", s # "COMPLETED_WITH_CONFLICTS"
    PROVE  RowsQuiet({})
<1> DEFINE new == [row[r] EXCEPT !.status = s]
<1>1. row[r] \in Row
    BY DEF TypeOK, RowsOK, runs
<1>2. /\ new \in Row /\ new.status = s /\ s # "NONE"
      /\ new.lessons = row[r].lessons /\ new.skipped = row[r].skipped /\ new.conflicts = row[r].conflicts
    BY <1>1 DEF Row, SolveStatus
<1>3. Update(r, new)
    BY DEF SetStatus
<1> HIDE DEF new
<1>4. QED
    BY <1>2, <1>3, UpdateIsQuiet

(* A quiet step keeps the plans, and what COMPLETED says of them unless it *)
(* says it first.                                                          *)
LEMMA QuietKeepsPlans ==
    ASSUME TypeOK, PlanInv, NEW done, RowsQuiet(done), HandlingQuiet
    PROVE  PlanInv' /\ (Resting /\ done = {} => Resting')
<1>1. runs \subseteq RunIds /\ \A c \in handling : c.job.run \in RunIds
    BY DEF runs, TypeOK, Completion, Job
<1>2. PlanInv'
    BY <1>1 DEF PlanInv, RowsQuiet, HandlingQuiet, ConflictsHavePlan
<1>3. Resting /\ done = {} => Resting'
    BY <1>1 DEF Resting, RowsQuiet, HandlingQuiet
<1>4. QED
    BY <1>2, <1>3

(* The worker, the sidecar, the admin, the watchdog and a crash are quiet. *)
LEMMA ProcessIsQuiet ==
    ASSUME TypeOK, Process PROVE RowsQuiet({}) /\ HandlingQuiet
<1>1. HandlingQuiet
    BY DEF HandlingQuiet, requests, Process, FetchJob, MarkSolving, Submit, SubmitFails,
           AcceptanceLost, MarkFailed, FinishJob
<1>2. CASE UNCHANGED row
    BY <1>1, <1>2, UnchangedIsQuiet
<1>3. CASE ~ UNCHANGED row
  <2>1. worker.job.run \in runs
           /\ (SetStatus(worker.job.run, "SOLVING") \/ SetStatus(worker.job.run, "FAILED"))
      BY <1>3 DEF Process, FetchJob, MarkSolving, Submit, SubmitFails, AcceptanceLost,
                  MarkFailed, FinishJob
  <2>2. QED
      BY <1>1, <2>1, StatusIsQuiet DEF SolveStatus
<1>4. QED
    BY <1>2, <1>3

LEMMA SidecarIsQuiet ==
    ASSUME Sidecar PROVE RowsQuiet({}) /\ HandlingQuiet
<1>1. UNCHANGED <<row, lastRun, handling, faults>>
    BY DEF Sidecar, BestSolution, SolverDies, FinalSolution, LoseCallback, requests
<1>2. QED
    BY <1>1, UnchangedIsQuiet DEF HandlingQuiet

LEMMA AdminIsQuiet ==
    ASSUME TypeOK, Admin PROVE RowsQuiet({}) /\ HandlingQuiet
<1>1. HandlingQuiet
    BY DEF HandlingQuiet, requests, Admin, RequestStop, StopUnreachable, MarkStopped, ActivateRun
<1>2. PICK r \in RunIds :
          RequestStop(r) \/ StopUnreachable(r) \/ MarkStopped(r) \/ ActivateRun(r)
    BY DEF Admin
<1>3. CASE RequestStop(r) \/ StopUnreachable(r)
    BY <1>1, <1>3, UnchangedIsQuiet DEF RequestStop, StopUnreachable
<1>4. CASE MarkStopped(r)
    BY <1>1, <1>4, UnchangedIsQuiet, StatusIsQuiet DEF MarkStopped, SolveStatus
<1>5. CASE ActivateRun(r)
  <2>1. ASSUME NEW q \in RunIds
        PROVE  /\ row'[q].status = row[q].status /\ row'[q].lessons = row[q].lessons
               /\ row'[q].skipped = row[q].skipped
               /\ row'[q].conflicts = row[q].conflicts
      BY <1>5 DEF ActivateRun, TypeOK, RowsOK, Row
  <2>2. QED
      BY <1>1, <2>1 DEF RowsQuiet, runs
<1>6. QED
    BY <1>2, <1>3, <1>4, <1>5

LEMMA WatchIsQuiet ==
    ASSUME TypeOK, BudgetPasses \/ Watchdog \/ Crash PROVE RowsQuiet({}) /\ HandlingQuiet
<1>1. HandlingQuiet
  <2>1. faults \in Nat
      BY BoundsAssumption DEF TypeOK
  <2>2. CASE BudgetPasses \/ Watchdog
      BY <2>2 DEF HandlingQuiet, requests, BudgetPasses, Watchdog, SweepBegins, SweepFails
  <2>3. CASE Crash
    <3>1. lastRun' = lastRun /\ handling' = {} /\ faults' = faults + 1
        BY <2>3 DEF Crash
    <3>2. faults' # 0
        BY <2>1, <3>1
    <3>3. QED
        BY <3>1, <3>2 DEF HandlingQuiet
  <2>4. QED
      BY <2>2, <2>3
<1>2. CASE BudgetPasses
  <2>1. ASSUME NEW q \in RunIds
        PROVE  /\ row'[q].status = row[q].status /\ row'[q].lessons = row[q].lessons
               /\ row'[q].skipped = row[q].skipped
               /\ row'[q].conflicts = row[q].conflicts
      BY <1>2 DEF BudgetPasses, TypeOK, RowsOK, Row
  <2>2. QED
      BY <1>1, <2>1 DEF RowsQuiet, runs
<1>3. CASE SweepBegins \/ Crash
    BY <1>1, <1>3, UnchangedIsQuiet DEF SweepBegins, Crash
<1>4. ASSUME NEW r \in sweep, SweepFails(r) PROVE RowsQuiet({})
  <2>1. CASE r \notin runs
      BY <1>4, <2>1, UnchangedIsQuiet DEF SweepFails
  <2>2. CASE r \in runs
    <3> DEFINE new == [row[r] EXCEPT !.status = "FAILED", !.errorReason = TRUE]
    <3>1. row[r] \in Row
        BY <2>2 DEF TypeOK, RowsOK, runs
    <3>2. /\ new \in Row /\ new.status = "FAILED"
          /\ new.lessons = row[r].lessons /\ new.skipped = row[r].skipped /\ new.conflicts = row[r].conflicts
        BY <3>1, FailedRow DEF Row
    <3>3. Update(r, new)
        BY <1>4, <2>2 DEF SweepFails
    <3> HIDE DEF new
    <3>4. QED
        BY <2>2, <3>2, <3>3, UpdateIsQuiet
  <2>3. QED
      BY <2>1, <2>2
<1>5. QED
    BY <1>1, <1>2, <1>3, <1>4 DEF Watchdog

(* So are the callbacks' handlers that store no plan; the first statement  *)
(* of handleCompletion says COMPLETED.                                     *)
LEMMA ProgressIsQuiet ==
    ASSUME TypeOK, NEW m \in net, HandleProgress(m) PROVE RowsQuiet({}) /\ HandlingQuiet
<1>1. HandlingQuiet
    BY DEF HandlingQuiet, requests, HandleProgress
<1>2. CASE m.job.run \notin runs
    BY <1>1, <1>2, UnchangedIsQuiet DEF HandleProgress
<1>3. CASE m.job.run \in runs
  <2> DEFINE r == m.job.run
             new == [row[r] EXCEPT !.figures = "progress"]
  <2>1. row[r] \in Row /\ row[r].status # "NONE"
      BY <1>3 DEF TypeOK, RowsOK, runs
  <2>2. /\ new \in Row /\ new.status = row[r].status
        /\ new.lessons = row[r].lessons /\ new.skipped = row[r].skipped /\ new.conflicts = row[r].conflicts
      BY <2>1 DEF Row, Figures
  <2>3. Update(r, new)
      BY <1>3 DEF HandleProgress
  <2> HIDE DEF new
  <2>4. CASE row[r].status # "COMPLETED_WITH_CONFLICTS"
      BY <1>1, <1>3, <2>1, <2>2, <2>3, <2>4, UpdateIsQuiet
  <2>5. CASE row[r].status = "COMPLETED_WITH_CONFLICTS"
    <3> DEFINE x == [new EXCEPT !.overdue = FALSE]
    <3>1. /\ x.status = row[r].status /\ x.lessons = new.lessons /\ x.skipped = new.skipped /\ x.conflicts = new.conflicts
        BY <2>2 DEF Row
    <3>2. row' = [row EXCEPT ![r] = x] /\ row \in [RunIds -> Row] /\ r \in RunIds
        BY <1>3, <2>3 DEF Update, TypeOK, RowsOK, runs
    <3> HIDE DEF x
    <3>3. row'[r] = x /\ \A q \in RunIds : q # r => row'[q] = row[q]
        BY <3>2
    <3>4. QED
        BY <1>1, <2>1, <2>2, <3>1, <3>2, <3>3 DEF RowsQuiet, runs
  <2>6. QED
      BY <2>4, <2>5
<1>4. QED
    BY <1>2, <1>3

LEMMA ReceiptIsQuiet ==
    ASSUME TypeOK, NEW m \in net, ReceiveCompletion(m)
    PROVE  RowsQuiet({m.job.run}) /\ HandlingQuiet
<1>1. HandlingQuiet
    BY DEF HandlingQuiet, requests, ReceiveCompletion
<1>2. CASE m.job.run \notin runs
    BY <1>1, <1>2, UnchangedIsQuiet DEF ReceiveCompletion, RowsQuiet
<1>3. CASE m.job.run \in runs
  <2> DEFINE r == m.job.run
             new == [row[r] EXCEPT !.status = "COMPLETED", !.figures = "final"]
  <2>1. row[r] \in Row
      BY <1>3 DEF TypeOK, RowsOK, runs
  <2>2. new \in Row
      BY <2>1, CompletedRow
  <2>3. /\ new.status = "COMPLETED"
        /\ new.lessons = row[r].lessons /\ new.skipped = row[r].skipped /\ new.conflicts = row[r].conflicts
      BY <2>1 DEF Row
  <2>4. Update(r, new)
      BY <1>3 DEF ReceiveCompletion
  <2> HIDE DEF new
  <2>5. QED
      BY <1>1, <1>3, <2>2, <2>3, <2>4, UpdateIsQuiet
<1>4. QED
    BY <1>2, <1>3

LEMMA FaultIsQuiet ==
    ASSUME TypeOK, NEW c \in handling, PersistFails(c) \/ HandlerThrows(c)
    PROVE  RowsQuiet({}) /\ HandlingQuiet /\ faults' # 0
<1>1. faults \in Nat /\ faults' = faults + 1 /\ lastRun' = lastRun /\ handling' \subseteq handling
    BY BoundsAssumption DEF TypeOK, PersistFails, HandlerThrows, Return, requests
<1>2. faults' # 0 /\ HandlingQuiet
    BY <1>1 DEF HandlingQuiet
<1>3. CASE HandlerThrows(c)
    BY <1>2, <1>3, UnchangedIsQuiet DEF HandlerThrows
<1>4. CASE PersistFails(c)
  <2> DEFINE r == c.job.run
  <2>1. CASE r \notin runs
      BY <1>2, <1>4, <2>1, UnchangedIsQuiet DEF PersistFails
  <2>2. CASE r \in runs
    <3> DEFINE new == [row[r] EXCEPT !.status = "FAILED", !.isActive = FALSE, !.errorReason = TRUE]
    <3>1. row[r] \in Row
        BY <2>2 DEF TypeOK, RowsOK, runs
    <3>2. new \in Row
        BY <3>1, GivenUpRow
    <3>3. /\ new.status = "FAILED"
          /\ new.lessons = row[r].lessons /\ new.skipped = row[r].skipped /\ new.conflicts = row[r].conflicts
        BY <3>1 DEF Row
    <3>4. Update(r, new)
        BY <1>4, <2>2 DEF PersistFails
    <3> HIDE DEF new
    <3>5. QED
        BY <1>2, <2>2, <3>2, <3>3, <3>4, UpdateIsQuiet
  <2>3. QED
      BY <2>1, <2>2
<1>5. QED
    BY <1>3, <1>4

(* The three statements that store a plan: each finds what the one before  *)
(* it wrote.                                                               *)
LEMMA StoringKeepsPlans ==
    ASSUME TypeOK, RunTableInv, PlanInv, NEW c \in handling,
           PersistLessons(c) \/ RecordConflicts(c) \/ DowngradeRun(c)
    PROVE  PlanInv'
<1> DEFINE r == c.job.run
           d == c.job.delivery
<1>1. /\ r \in RunIds /\ runs \subseteq 1 .. lastRun /\ row \in [RunIds -> Row]
      /\ \A x \in handling : x.job.run \in RunIds /\ x \in Completion
    BY DEF TypeOK, RowsOK, RunTableInv, Completion, Job
<1>2. /\ lastRun' = lastRun
      /\ \A x \in handling' : x \in handling \/ (x.job = c.job /\ x.at # c.at)
  <2>1. ASSUME NEW at PROVE [c EXCEPT !.at = at].job = c.job /\ [c EXCEPT !.at = at].at = at
      BY <1>1 DEF Completion
  <2>2. \/ handling' = handling \ {c}
        \/ \E at : at # c.at /\ handling' = (handling \ {c}) \cup {[c EXCEPT !.at = at]}
    <3>1. "persist" # "record" /\ "record" # "downgrade"
        OBVIOUS
    <3>2. CASE PersistLessons(c)
        BY <3>1, <3>2 DEF PersistLessons, Advance, Return
    <3>3. CASE RecordConflicts(c)
        BY <3>1, <3>3 DEF RecordConflicts, Advance, Return
    <3>4. CASE DowngradeRun(c)
        BY <3>4 DEF DowngradeRun, Return
    <3>5. QED
        BY <3>2, <3>3, <3>4
  <2>3. lastRun' = lastRun
      BY DEF PersistLessons, RecordConflicts, DowngradeRun, requests
  <2>4. QED
      BY <2>1, <2>2, <2>3
<1>3. CASE r \notin runs
  <2>1. UNCHANGED row /\ handling' \subseteq handling
      BY <1>3 DEF PersistLessons, RecordConflicts, DowngradeRun, Return
  <2>2. QED
      BY <1>2, <2>1 DEF PlanInv, ConflictsHavePlan, runs
<1>4. CASE r \in runs
  <2>0. row[r] \in Row /\ row[r].status # "NONE" /\ r <= lastRun
      BY <1>1, <1>4 DEF runs
  <2>1. CASE PersistLessons(c)
    <3>0. PICK met \in SUBSET {d} : /\ met \cap row[r].lessons = {}
                                    /\ row[r].lessons = {} => met = {}
                                    /\ row' = [row EXCEPT ![r] = WithLessons(row[r], d, met)]
        BY <1>4, <2>1, LessonsStored
    <3> DEFINE new == WithLessons(row[r], d, met)
    <3>1. row' = [row EXCEPT ![r] = new]
        BY <3>0
    <3>2. /\ new.status = row[r].status /\ new.lessons = row[r].lessons \cup {d}
          /\ new.skipped = row[r].skipped \cup met /\ new.conflicts = row[r].conflicts
        BY <2>0 DEF Row, WithLessons
    <3>7. /\ row[r].conflicts \cup row[r].skipped \subseteq row[r].lessons
          /\ row[r].lessons # {} => row[r].lessons \ row[r].skipped # {}
        BY <1>1 DEF PlanInv, ConflictsHavePlan
    <3>8. /\ new.conflicts \cup new.skipped \subseteq new.lessons
          /\ new.lessons \ new.skipped # {}
      <4>1. CASE row[r].lessons = {}
          BY <3>0, <3>2, <3>7, <4>1
      <4>2. CASE row[r].lessons # {}
          BY <3>0, <3>2, <3>7, <4>2
      <4>3. QED
          BY <4>1, <4>2
    <3> HIDE DEF new
    <3>3. row'[r] = new /\ \A q \in RunIds : q # r => row'[q] = row[q]
        BY <1>1, <3>1
    <3>4. runs' = runs
        BY <2>0, <3>2, <3>3 DEF runs
    <3>5. \A x \in handling' : x \in handling \/ (x.job = c.job /\ x.at = "record")
      <4>1. [c EXCEPT !.at = "record"].job = c.job /\ [c EXCEPT !.at = "record"].at = "record"
          BY <1>1 DEF Completion
      <4>2. QED
          BY <4>1, <2>1 DEF PersistLessons, Advance, Return
    <3>6. QED
        BY <1>1, <1>2, <2>0, <3>2, <3>3, <3>4, <3>5, <3>8 DEF PlanInv, ConflictsHavePlan, runs
  <2>2. CASE RecordConflicts(c)
    <3> DEFINE new == [row[r] EXCEPT !.conflicts = @ \cup {d}]
    <3>1. row' = [row EXCEPT ![r] = new] /\ c.at = "record"
        BY <1>4, <2>2 DEF RecordConflicts
    <3>2. /\ new.status = row[r].status /\ new.conflicts = row[r].conflicts \cup {d}
          /\ new.lessons = row[r].lessons /\ new.skipped = row[r].skipped
        BY <2>0 DEF Row
    <3> HIDE DEF new
    <3>3. row'[r] = new /\ \A q \in RunIds : q # r => row'[q] = row[q]
        BY <1>1, <3>1
    <3>4. runs' = runs
        BY <2>0, <3>2, <3>3 DEF runs
    <3>5. d \in row[r].lessons
        BY <1>4, <3>1 DEF PlanInv
    <3>6. QED
        BY <1>1, <1>2, <2>0, <3>1, <3>2, <3>3, <3>4, <3>5 DEF PlanInv, ConflictsHavePlan, runs
  <2>3. CASE DowngradeRun(c)
    <3> DEFINE new == [row[r] EXCEPT !.status = "COMPLETED_WITH_CONFLICTS", !.isActive = FALSE]
               x == [new EXCEPT !.overdue = FALSE]
    <3>1. row' = [row EXCEPT ![r] = x] /\ c.at = "downgrade" /\ handling' \subseteq handling
        BY <1>4, <2>3 DEF DowngradeRun, Update, Return
    <3>2. new \in Row /\ new.status # "NONE"
        BY <2>0, DeactivatedRow DEF SolveStatus
    <3>3. new.lessons = row[r].lessons /\ new.skipped = row[r].skipped /\ new.conflicts = row[r].conflicts
        BY <2>0 DEF Row
    <3> HIDE DEF new
    <3>4. x.status = new.status /\ x.lessons = new.lessons /\ x.skipped = new.skipped /\ x.conflicts = new.conflicts
        BY <3>2 DEF Row
    <3> HIDE DEF x
    <3>5. row'[r] = x /\ \A q \in RunIds : q # r => row'[q] = row[q]
        BY <1>1, <3>1
    <3>6. runs' = runs
        BY <2>0, <3>2, <3>4, <3>5 DEF runs
    <3>7. d \in row[r].conflicts
        BY <1>4, <3>1 DEF PlanInv
    <3>8. QED
        BY <1>1, <1>2, <3>1, <3>3, <3>4, <3>5, <3>6, <3>7 DEF PlanInv, ConflictsHavePlan, runs
  <2>4. QED
      BY <2>1, <2>2, <2>3
<1>5. QED
    BY <1>3, <1>4

(* startSolve brings runs without a plan, and takes runs with theirs.      *)
LEMMA StartKeepsPlans ==
    ASSUME TypeOK, RunTableInv, PlanInv, StartSolve
    PROVE  PlanInv'
<1>1. /\ runs \subseteq 1 .. lastRun /\ row \in [RunIds -> Row] /\ lastRun \in Nat
      /\ handling' = handling
      /\ \A x \in handling : x.job.run \in RunIds /\ x.job.run \in Nat
    BY DEF TypeOK, RowsOK, RunTableInv, Completion, Job, RunIds, StartSolve, CreateRun, Enqueue,
           EnqueueFails, ReadRunLimit, DeleteSurplus
<1>2. CASE CreateRun
  <2>1. /\ lastRun + 1 \in RunIds /\ lastRun' = lastRun + 1
        /\ row' = [row EXCEPT ![lastRun + 1] = QueuedRow]
      BY <1>1, <1>2, BoundsAssumption DEF CreateRun, RunIds
  <2>2. QueuedRow.status = "QUEUED" /\ QueuedRow.lessons = {} /\ QueuedRow.skipped = {} /\ QueuedRow.conflicts = {}
      BY DEF QueuedRow, NoRow
  <2> HIDE DEF QueuedRow
  <2>3. row'[lastRun + 1] = QueuedRow /\ \A q \in RunIds : q # lastRun + 1 => row'[q] = row[q]
      BY <1>1, <2>1
  <2>4. \A c \in handling : c.at # "persist" => c.job.run # lastRun + 1 /\ c.job.run <= lastRun'
      BY <1>1, <2>1 DEF PlanInv
  <2>5. QED
      BY <1>1, <2>1, <2>2, <2>3, <2>4 DEF PlanInv, ConflictsHavePlan, runs
<1>3. ASSUME NEW r \in RunIds, Enqueue(r) \/ EnqueueFails(r) \/ ReadRunLimit(r) PROVE PlanInv'
    BY <1>1, <1>3 DEF Enqueue, EnqueueFails, ReadRunLimit, PlanInv, ConflictsHavePlan, runs
<1>4. ASSUME NEW r \in RunIds, DeleteSurplus(r) PROVE PlanInv'
  <2>1. /\ \A q \in RunIds : row'[q] = row[q] \/ row'[q] = NoRow
        /\ lastRun' = lastRun
      BY <1>4 DEF DeleteSurplus
  <2>2. NoRow.status = "NONE" /\ NoRow.lessons = {} /\ NoRow.skipped = {} /\ NoRow.conflicts = {}
      BY DEF NoRow
  <2> HIDE DEF NoRow
  <2>3. QED
      BY <1>1, <2>1, <2>2 DEF PlanInv, ConflictsHavePlan, runs
<1>5. QED
    BY <1>2, <1>3, <1>4 DEF StartSolve

(* Every step keeps the plans.                                             *)
LEMMA PlanStep == TypeOK /\ RunTableInv /\ PlanInv /\ [Next]_vars => PlanInv'
<1> SUFFICES ASSUME TypeOK, RunTableInv, PlanInv, [Next]_vars PROVE PlanInv'
    OBVIOUS
<1>1. CASE StartSolve
    BY <1>1, StartKeepsPlans
<1>2. CASE Process \/ Sidecar \/ Admin \/ BudgetPasses \/ Watchdog \/ Crash
    BY <1>2, ProcessIsQuiet, SidecarIsQuiet, AdminIsQuiet, WatchIsQuiet, QuietKeepsPlans
<1>3. CASE Callbacks
  <2>1. ASSUME NEW m \in net, HandleProgress(m) \/ ReceiveCompletion(m) PROVE PlanInv'
      BY <2>1, ProgressIsQuiet, ReceiptIsQuiet, QuietKeepsPlans
  <2>2. ASSUME NEW c \in handling, PersistFails(c) \/ HandlerThrows(c) PROVE PlanInv'
      BY <2>2, FaultIsQuiet, QuietKeepsPlans
  <2>3. QED
      BY <1>3, <2>1, <2>2, StoringKeepsPlans DEF Callbacks
<1>4. CASE UNCHANGED vars
    BY <1>4 DEF vars, requests, PlanInv, ConflictsHavePlan, runs
<1>5. QED
    BY <1>1, <1>2, <1>3, <1>4 DEF Next

(* Conflicts are recorded after the lessons of their solution, and the     *)
(* first solution stored for a run is stored whole, whatever is deleted,   *)
(* lost or repeated.  A solution that comes later, of a job handed out     *)
(* again, may lose lessons to it (skipDuplicates): nothing is said of      *)
(* those.                                                                  *)
THEOREM PlansAreWhole == Spec => []ConflictsHavePlan
<1>1. Init => PlanInv
    BY DEF Init, PlanInv, ConflictsHavePlan, NoRow, runs
<1>2. PlanInv => ConflictsHavePlan
    BY DEF PlanInv
<1>3. QED
    BY <1>1, <1>2, PlanStep, RunTableCorrect, PTL DEF Spec

-----------------------------------------------------------------------------
(* What is under way for a run before its conflicts are recorded.          *)

(* Something that still can bring run r its plan: the job on the queue, at *)
(* the worker or in the sidecar, the callback, and the call it makes.      *)
Token(r, kind, x) ==
    \/ kind = "job" /\ x \in jobs /\ x.run = r
    \/ kind = "worker" /\ x = worker /\ x.at \in {"fetched", "building"} /\ x.job.run = r
    \/ kind = "solve" /\ x \in solving /\ x.job.run = r
    \/ kind = "callback" /\ x \in net /\ x.type = "complete" /\ x.job.run = r
    \/ kind = "completion" /\ x \in handling /\ x.job.run = r

Last(kind, x) == kind = "completion" /\ x.at = "downgrade"

(* As long as nothing has failed there is one at most, none before the job *)
(* is queued, and with conflicts recorded only the downgrade is left.      *)
OneToken ==
    faults = 0 => \A r \in RunIds :
        /\ \A k, x, l, y : Token(r, k, x) /\ Token(r, l, y) => k = l /\ x = y
        /\ starts[r] \in {"idle", "created"} =>
              row[r].conflicts = {} /\ \A k, x : ~ Token(r, k, x)
        /\ row[r].conflicts # {} => \A k, x : Token(r, k, x) => Last(k, x)

Calm ==
    /\ faults' = 0 => faults = 0
    /\ \A r \in RunIds : starts'[r] \in {"idle", "created"} => starts[r] \in {"idle", "created"}

NoNewConflicts(r) ==
    \A q \in RunIds \ {r} : row'[q].conflicts # {} => row[q].conflicts # {}

Fewer ==
    /\ \A r \in RunIds : \A k, x : Token(r, k, x)' => Token(r, k, x)
    /\ \A r \in RunIds : row'[r].conflicts # {} => row[r].conflicts # {}

Passes(r, k, x, l, y) ==
    /\ r \in RunIds /\ Token(r, k, x) /\ ~ Last(k, x)
    /\ \A q \in RunIds : \A m, z : Token(q, m, z)' =>
          \/ Token(q, m, z) /\ ~ (q = r /\ m = k /\ z = x)
          \/ q = r /\ m = l /\ z = y
    /\ \A q \in RunIds : row'[q].conflicts # {} =>
          row[q].conflicts # {} \/ (q = r /\ Last(l, y))

LEMMA FewerKeeps ==
    ASSUME OneToken, Calm, Fewer PROVE OneToken'
<1> SUFFICES ASSUME faults' = 0, NEW r \in RunIds
             PROVE  /\ \A k, x, l, y : Token(r, k, x)' /\ Token(r, l, y)' => k = l /\ x = y
                    /\ starts'[r] \in {"idle", "created"} =>
                          row'[r].conflicts = {} /\ \A k, x : ~ Token(r, k, x)'
                    /\ row'[r].conflicts # {} => \A k, x : Token(r, k, x)' => Last(k, x)
    BY DEF OneToken, Last
<1> HIDE DEF Token, Last
<1>1. QED
    BY DEF OneToken, Calm, Fewer

LEMMA PassKeeps ==
    ASSUME OneToken, Calm, NEW r, NEW k, NEW x, NEW l, NEW y, Passes(r, k, x, l, y)
    PROVE  OneToken'
<1> SUFFICES ASSUME faults' = 0, NEW q \in RunIds
             PROVE  /\ \A m, z, n, w : Token(q, m, z)' /\ Token(q, n, w)' => m = n /\ z = w
                    /\ starts'[q] \in {"idle", "created"} =>
                          row'[q].conflicts = {} /\ \A m, z : ~ Token(q, m, z)'
                    /\ row'[q].conflicts # {} => \A m, z : Token(q, m, z)' => Last(m, z)
    BY DEF OneToken, Last
<1>1. faults = 0 /\ (starts'[q] \in {"idle", "created"} => starts[q] \in {"idle", "created"})
    BY DEF Calm
<1> HIDE DEF Token, Last
<1>2. CASE q # r
    BY <1>1, <1>2 DEF OneToken, Passes
<1>3. CASE q = r
  <2>1. Token(r, k, x) /\ ~ Last(k, x) /\ r \in RunIds
      BY DEF Passes
  <2>2. \A m, z : Token(r, m, z)' => m = l /\ z = y
      BY <1>1, <2>1 DEF OneToken, Passes
  <2>3. row[r].conflicts = {}
      BY <1>1, <2>1 DEF OneToken
  <2>4. starts[r] \notin {"idle", "created"}
      BY <1>1, <2>1 DEF OneToken
  <2>5. row'[r].conflicts # {} => Last(l, y)
      BY <2>1, <2>3 DEF Passes
  <2>6. QED
      BY <1>1, <1>3, <2>2, <2>4, <2>5
<1>4. QED
    BY <1>2, <1>3

(* The queue and the worker pass the job on to the sidecar.                *)
LEMMA ProcessPasses ==
    ASSUME TypeOK, OneToken, Process PROVE OneToken'
<1>1. RowsQuiet({})
    BY ProcessIsQuiet
<1>2. UNCHANGED <<starts, faults, net, handling>> /\ Calm
    BY DEF Calm, requests, sidecar, Process, FetchJob, MarkSolving, Submit, SubmitFails,
           AcceptanceLost, MarkFailed, FinishJob
<1>3. /\ worker.at \in {"fetched", "building"} =>
             worker \in [at : {"fetched", "building", "failing", "submitted"}, job : Job]
      /\ \A j \in jobs : j.run \in RunIds
      /\ "fetched" # "idle" /\ "building" # "idle"
    BY DEF TypeOK, WorkerState, Idle, Job
<1>4. \A r \in RunIds : row'[r].conflicts # {} => row[r].conflicts # {}
    BY <1>1 DEF RowsQuiet
<1>5. ASSUME NEW j \in jobs, FetchJob(j) PROVE OneToken'
  <2> DEFINE taken == [at |-> "fetched", job |-> j]
  <2>1. /\ jobs' = jobs \ {j} /\ worker' = taken /\ UNCHANGED sidecar
        /\ taken.job = j /\ taken.at = "fetched"
      BY <1>5 DEF FetchJob
  <2>2. Passes(j.run, "job", j, "worker", taken)
      BY <1>2, <1>3, <1>4, <1>5, <2>1 DEF Passes, Token, Last, sidecar
  <2>3. QED
      BY <1>2, <2>2, PassKeeps
<1>6. CASE MarkSolving
  <2> DEFINE on == [worker EXCEPT !.at = "building"]
  <2>1. /\ on.job = worker.job /\ on.at = "building" /\ worker.job.run \in RunIds
        /\ worker.at = "fetched"
      BY <1>3, <1>6 DEF MarkSolving, Job
  <2>2. UNCHANGED <<jobs, solving>>
      BY <1>6 DEF MarkSolving, sidecar
  <2>3. CASE worker' = on
    <3> HIDE DEF on
    <3>1. Passes(worker.job.run, "worker", worker, "worker", on)
        BY <1>2, <1>4, <2>1, <2>2, <2>3 DEF Passes, Token, Last
    <3>2. QED
        BY <1>2, <3>1, PassKeeps
  <2>4. CASE worker' = [worker EXCEPT !.at = "failing"]
    <3>1. worker'.at = "failing"
        BY <1>3, <2>1, <2>4
    <3>2. Fewer
        BY <1>2, <1>4, <2>2, <3>1 DEF Fewer, Token
    <3>3. QED
        BY <1>2, <3>2, FewerKeeps
  <2>5. QED
      BY <1>6, <2>3, <2>4 DEF MarkSolving
<1>7. CASE Submit \/ AcceptanceLost
  <2> DEFINE new == [job |-> worker.job, reports |-> 0]
  <2>1. worker.at = "building" /\ worker.job.run \in RunIds /\ new.job = worker.job
      BY <1>3, <1>7 DEF Submit, AcceptanceLost, Job
  <2>2. /\ solving' = solving \cup {new} /\ jobs' = jobs
        /\ worker'.at \notin {"fetched", "building"}
      BY <1>3, <1>7, <2>1 DEF Submit, AcceptanceLost
  <2> HIDE DEF new
  <2>3. Passes(worker.job.run, "worker", worker, "solve", new)
      BY <1>2, <1>4, <2>1, <2>2 DEF Passes, Token, Last
  <2>4. QED
      BY <1>2, <2>3, PassKeeps
<1>8. CASE SubmitFails \/ MarkFailed \/ FinishJob
  <2>1. worker'.at \notin {"fetched", "building"}
      BY <1>3, <1>8 DEF SubmitFails, MarkFailed, FinishJob, Idle
  <2>2. jobs' = jobs /\ solving' = solving
      BY <1>8 DEF SubmitFails, MarkFailed, FinishJob, sidecar
  <2>3. Fewer
      BY <1>2, <1>4, <2>1, <2>2 DEF Fewer, Token
  <2>4. QED
      BY <1>2, <2>3, FewerKeeps
<1>9. QED
    BY <1>5, <1>6, <1>7, <1>8 DEF Process

(* The sidecar passes the solve on to its callback, or drops it.           *)
LEMMA SidecarPasses ==
    ASSUME TypeOK, OneToken, Sidecar PROVE OneToken'
<1>1. UNCHANGED <<row, starts, faults, jobs, worker, handling>> /\ Calm
    BY DEF Calm, requests, queue, Sidecar, BestSolution, SolverDies, FinalSolution, LoseCallback
<1>2. \A s \in solving : s \in Solve /\ s.job.run \in RunIds
    BY DEF TypeOK, Solve, Job
<1>3. ASSUME NEW s \in solving, BestSolution(s) PROVE OneToken'
  <2> DEFINE more == [s EXCEPT !.reports = @ + 1]
             report == [type |-> "progress", job |-> s.job]
  <2>1. more.job = s.job /\ report.type = "progress"
      BY <1>2 DEF Solve
  <2>2. solving' = (solving \ {s}) \cup {more} /\ net' = net \cup {report}
      BY <1>3 DEF BestSolution
  <2> HIDE DEF more, report
  <2>3. Passes(s.job.run, "solve", s, "solve", more)
      BY <1>1, <1>2, <2>1, <2>2 DEF Passes, Token, Last
  <2>4. QED
      BY <1>1, <2>3, PassKeeps
<1>4. ASSUME NEW s \in solving, NEW plan \in Plans, FinalSolution(s, plan) PROVE OneToken'
  <2> DEFINE answer == [type |-> "complete", job |-> s.job, plan |-> plan]
  <2>1. answer.job = s.job /\ answer.type = "complete"
      OBVIOUS
  <2>2. solving' = solving \ {s} /\ net' = net \cup {answer}
      BY <1>4 DEF FinalSolution
  <2> HIDE DEF answer
  <2>3. Passes(s.job.run, "solve", s, "callback", answer)
      BY <1>1, <1>2, <2>1, <2>2 DEF Passes, Token, Last
  <2>4. QED
      BY <1>1, <2>3, PassKeeps
<1>5. ASSUME NEW s \in solving, SolverDies(s) PROVE OneToken'
  <2>1. Fewer
      BY <1>1, <1>5 DEF SolverDies, Fewer, Token
  <2>2. QED
      BY <1>1, <2>1, FewerKeeps
<1>6. ASSUME NEW m \in net, LoseCallback(m) PROVE OneToken'
  <2>1. Fewer
      BY <1>1, <1>6 DEF LoseCallback, Fewer, Token
  <2>2. QED
      BY <1>1, <2>1, FewerKeeps
<1>7. QED
    BY <1>3, <1>4, <1>5, <1>6 DEF Sidecar

(* The callback's call passes through its statements.                      *)
LEMMA CallbacksPass ==
    ASSUME TypeOK, OneToken, Callbacks PROVE OneToken'
<1>1. UNCHANGED <<starts, jobs, worker, solving>>
    BY DEF requests, queue, sidecar, Callbacks, HandleProgress, ReceiveCompletion,
           PersistLessons, PersistFails, RecordConflicts, DowngradeRun, HandlerThrows
<1>2. /\ \A c \in handling : c \in Completion /\ c.job.run \in RunIds
      /\ \A m \in net : m.job.run \in RunIds
      /\ row \in [RunIds -> Row]
    BY DEF TypeOK, RowsOK, Completion, Callback, Job
<1>3. ASSUME NEW m \in net, HandleProgress(m) PROVE OneToken'
  <2>1. RowsQuiet({}) /\ HandlingQuiet /\ net' \subseteq net /\ handling' = handling
      BY <1>3, ProgressIsQuiet DEF HandleProgress
  <2>2. Fewer /\ Calm
      BY <1>1, <2>1 DEF Fewer, Calm, Token, RowsQuiet, HandlingQuiet
  <2>3. QED
      BY <2>2, FewerKeeps
<1>4. ASSUME NEW m \in net, ReceiveCompletion(m) PROVE OneToken'
  <2> DEFINE call == [job |-> m.job, plan |-> m.plan, at |-> "persist"]
  <2>1. RowsQuiet({m.job.run}) /\ HandlingQuiet /\ net' = net \ {m} /\ m.type = "complete"
      BY <1>4, ReceiptIsQuiet DEF ReceiveCompletion
  <2>2. Calm /\ call.job = m.job
      BY <1>1, <2>1 DEF Calm, HandlingQuiet
  <2>3. CASE handling' = handling
    <3>1. Fewer
        BY <1>1, <2>1, <2>3 DEF Fewer, Token, RowsQuiet
    <3>2. QED
        BY <2>2, <3>1, FewerKeeps
  <2>4. CASE handling' = handling \cup {call}
    <3> HIDE DEF call
    <3>1. Passes(m.job.run, "callback", m, "completion", call)
        BY <1>1, <1>2, <2>1, <2>2, <2>4 DEF Passes, Token, Last, RowsQuiet
    <3>2. QED
        BY <2>2, <3>1, PassKeeps
  <2>5. QED
      BY <1>4, <2>3, <2>4 DEF ReceiveCompletion
<1>5. ASSUME NEW c \in handling, PersistFails(c) \/ HandlerThrows(c) PROVE OneToken'
    BY <1>5, FaultIsQuiet DEF OneToken
<1>6. ASSUME NEW c \in handling, PersistLessons(c) \/ RecordConflicts(c) \/ DowngradeRun(c)
      PROVE  OneToken'
  <2> DEFINE r == c.job.run
             recorded == [c EXCEPT !.at = "record"]
             down == [c EXCEPT !.at = "downgrade"]
  <2>1. /\ Calm /\ net' = net /\ c.job = recorded.job /\ c.job = down.job /\ down.at = "downgrade"
      BY <1>1, <1>2, <1>6 DEF Calm, PersistLessons, RecordConflicts, DowngradeRun, sidecar, Completion
  <2>2. /\ \A q \in RunIds : row'[q].conflicts # {} =>
              row[q].conflicts # {} \/ (q = r /\ RecordConflicts(c) /\ r \in runs)
    <3>1. CASE r \notin runs
        BY <1>6, <3>1 DEF PersistLessons, RecordConflicts, DowngradeRun
    <3>2. CASE r \in runs
      <4>1. \A q \in RunIds : q # r => row'[q] = row[q]
          BY <1>2, <1>6, <3>2 DEF PersistLessons, RecordConflicts, DowngradeRun, Update
      <4>2. CASE PersistLessons(c)
        <5>0. PICK met \in SUBSET {c.job.delivery} :
                  row' = [row EXCEPT ![r] = WithLessons(row[r], c.job.delivery, met)]
            BY <3>2, <4>2, LessonsStored
        <5> DEFINE new == WithLessons(row[r], c.job.delivery, met)
        <5>1. row' = [row EXCEPT ![r] = new]
            BY <5>0
        <5>2. new.conflicts = row[r].conflicts
            BY <1>2 DEF Row, WithLessons
        <5> HIDE DEF new
        <5>3. row'[r].conflicts = row[r].conflicts
            BY <1>2, <5>1, <5>2
        <5>4. QED
            BY <4>1, <5>3
      <4>3. CASE DowngradeRun(c)
        <5> DEFINE new == [row[r] EXCEPT !.status = "COMPLETED_WITH_CONFLICTS", !.isActive = FALSE]
                   x == [new EXCEPT !.overdue = FALSE]
        <5>1. row' = [row EXCEPT ![r] = x]
            BY <3>2, <4>3 DEF DowngradeRun, Update
        <5>2. row[r] \in Row
            BY <1>2
        <5>3. new \in Row /\ new.conflicts = row[r].conflicts
            BY <5>2, DeactivatedRow DEF Row, SolveStatus
        <5> HIDE DEF new
        <5>4. x.conflicts = new.conflicts
            BY <5>3 DEF Row
        <5> HIDE DEF x
        <5>5. row'[r].conflicts = row[r].conflicts
            BY <1>2, <5>1, <5>3, <5>4
        <5>6. QED
            BY <4>1, <5>5
      <4>4. QED
          BY <1>6, <3>2, <4>1, <4>2, <4>3
    <3>3. QED
        BY <3>1, <3>2
  <2>3. CASE handling' = handling \ {c} /\ ~ (RecordConflicts(c) /\ r \in runs)
    <3>1. Fewer
        BY <1>1, <2>1, <2>2, <2>3 DEF Fewer, Token
    <3>2. QED
        BY <2>1, <3>1, FewerKeeps
  <2>4. CASE handling' = (handling \ {c}) \cup {recorded} /\ PersistLessons(c)
    <3> HIDE DEF recorded
    <3>1. c.at = "persist" /\ ~ RecordConflicts(c)
        BY <2>4 DEF PersistLessons, RecordConflicts
    <3>2. Passes(r, "completion", c, "completion", recorded)
      <4>1. \A q \in RunIds : row'[q].conflicts # {} => row[q].conflicts # {}
          BY <2>2, <3>1
      <4>2. r \in RunIds /\ Token(r, "completion", c) /\ ~ Last("completion", c)
          BY <1>2, <3>1 DEF Token, Last
      <4>3. \A q \in RunIds : \A m, z : Token(q, m, z)' =>
                \/ Token(q, m, z) /\ ~ (q = r /\ m = "completion" /\ z = c)
                \/ q = r /\ m = "completion" /\ z = recorded
        <5> SUFFICES ASSUME NEW q \in RunIds, NEW m, NEW z, Token(q, m, z)'
                     PROVE  \/ Token(q, m, z) /\ ~ (q = r /\ m = "completion" /\ z = c)
                            \/ q = r /\ m = "completion" /\ z = recorded
            OBVIOUS
        <5>1. CASE m # "completion"
            BY <1>1, <2>1, <5>1 DEF Token
        <5>2. CASE m = "completion"
          <6>1. z \in handling' /\ z.job.run = q
              BY <5>2 DEF Token
          <6>2. CASE z = recorded
              BY <2>1, <5>2, <6>1, <6>2
          <6>3. CASE z # recorded
            <7>1. z \in handling /\ z # c
                BY <2>4, <6>1, <6>3
            <7>2. QED
                BY <5>2, <6>1, <7>1 DEF Token
          <6>4. QED
              BY <6>2, <6>3
        <5>3. QED
            BY <5>1, <5>2
      <4>4. QED
          BY <4>1, <4>2, <4>3 DEF Passes
    <3>3. QED
        BY <2>1, <3>2, PassKeeps
  <2>5. CASE handling' = (handling \ {c}) \cup {down} /\ RecordConflicts(c)
    <3> HIDE DEF down
    <3>1. c.at = "record"
        BY <2>5 DEF RecordConflicts
    <3>2. Passes(r, "completion", c, "completion", down)
        BY <1>1, <1>2, <2>1, <2>2, <2>5, <3>1 DEF Passes, Token, Last
    <3>3. QED
        BY <2>1, <3>2, PassKeeps
  <2>6. QED
    <3>1. CASE PersistLessons(c)
        BY <2>3, <2>4, <3>1 DEF PersistLessons, RecordConflicts, Advance, Return
    <3>2. CASE RecordConflicts(c)
        BY <2>3, <2>5, <3>2 DEF RecordConflicts, Advance, Return
    <3>3. CASE DowngradeRun(c)
        BY <2>3, <3>3 DEF DowngradeRun, RecordConflicts, Return
    <3>4. QED
        BY <1>6, <3>1, <3>2, <3>3
<1>7. QED
    BY <1>3, <1>4, <1>5, <1>6 DEF Callbacks

(* The queue gets one job per run; nobody else starts anything.            *)
LEMMA StartPasses ==
    ASSUME TypeOK, RunTableInv, OneToken, StartSolve PROVE OneToken'
<1>1. /\ UNCHANGED <<worker, solving, net, handling>>
      /\ row \in [RunIds -> Row] /\ starts \in [RunIds -> StartState] /\ faults \in Nat
    BY BoundsAssumption DEF TypeOK, RowsOK, queue, sidecar, StartSolve, CreateRun, Enqueue, EnqueueFails,
           ReadRunLimit, DeleteSurplus
<1>2. CASE CreateRun
  <2>1. lastRun + 1 \in RunIds /\ lastRun + 1 > lastRun
      BY <1>2, BoundsAssumption DEF CreateRun, TypeOK, RunIds
  <2>2. starts[lastRun + 1] = "idle" /\ QueuedRow.conflicts = {}
      BY <2>1 DEF RunTableInv, QueuedRow, NoRow
  <2>3. /\ row' = [row EXCEPT ![lastRun + 1] = QueuedRow]
        /\ starts' = [starts EXCEPT ![lastRun + 1] = "created"]
        /\ jobs' = jobs /\ faults' = faults
      BY <1>2 DEF CreateRun, queue
  <2> HIDE DEF QueuedRow
  <2>4. Calm /\ Fewer
      BY <1>1, <2>1, <2>2, <2>3 DEF Calm, Fewer, Token
  <2>5. QED
      BY <2>4, FewerKeeps
<1>3. ASSUME NEW r \in RunIds, Enqueue(r) PROVE OneToken'
  <2> DEFINE new == [run |-> r, delivery |-> 1]
  <2>1. /\ starts[r] = "created" /\ jobs' = jobs \cup {new} /\ new.run = r
        /\ starts' = [starts EXCEPT ![r] = "queued"] /\ UNCHANGED <<row, faults>>
      BY <1>3 DEF Enqueue
  <2> HIDE DEF new
  <2>2. SUFFICES ASSUME faults' = 0, NEW q \in RunIds
        PROVE  /\ \A m, z, n, w : Token(q, m, z)' /\ Token(q, n, w)' => m = n /\ z = w
               /\ starts'[q] \in {"idle", "created"} =>
                          row'[q].conflicts = {} /\ \A m, z : ~ Token(q, m, z)'
               /\ row'[q].conflicts # {} => \A m, z : Token(q, m, z)' => Last(m, z)
      BY DEF OneToken, Last
  <2>3. \A m, z : Token(q, m, z)' => Token(q, m, z) \/ (q = r /\ m = "job" /\ z = new)
      BY <1>1, <2>1 DEF Token
  <2>4. \A m, z : ~ Token(r, m, z)
      BY <2>1, <2>2 DEF OneToken
  <2>5. CASE q = r
    <3>1. row'[r].conflicts = {} /\ starts'[r] = "queued"
        BY <1>1, <2>1, <2>2 DEF OneToken
    <3>2. QED
        BY <2>3, <2>4, <2>5, <3>1
  <2>6. CASE q # r
    <3> HIDE DEF Token, Last
    <3>1. QED
        BY <1>1, <2>1, <2>2, <2>3, <2>6 DEF OneToken
  <2>7. QED
      BY <2>5, <2>6
<1>4. ASSUME NEW r \in RunIds, EnqueueFails(r) PROVE OneToken'
    BY <1>1, <1>4 DEF EnqueueFails, OneToken
<1>5. ASSUME NEW r \in RunIds, ReadRunLimit(r) \/ DeleteSurplus(r) PROVE OneToken'
  <2>1. /\ \A q \in RunIds : row'[q] = row[q] \/ row'[q] = NoRow
        /\ \A q \in RunIds : starts'[q] = starts[q] \/ starts'[q] \in {"done", "trimming"}
        /\ UNCHANGED <<jobs, faults>>
      BY <1>1, <1>5 DEF ReadRunLimit, DeleteSurplus, queue
  <2>2. NoRow.conflicts = {}
      BY DEF NoRow
  <2> HIDE DEF NoRow
  <2>3. Calm /\ Fewer
      BY <1>1, <2>1, <2>2 DEF Calm, Fewer, Token
  <2>4. QED
      BY <2>3, FewerKeeps
<1>6. QED
    BY <1>2, <1>3, <1>4, <1>5 DEF StartSolve

(* Every step keeps the tokens apart.                                      *)
LEMMA TokenStep == TypeOK /\ RunTableInv /\ OneToken /\ [Next]_vars => OneToken'
<1> SUFFICES ASSUME TypeOK, RunTableInv, OneToken, [Next]_vars PROVE OneToken'
    OBVIOUS
<1>1. CASE StartSolve \/ Process \/ Sidecar \/ Callbacks
    BY <1>1, StartPasses, ProcessPasses, SidecarPasses, CallbacksPass
<1>2. CASE Admin \/ BudgetPasses \/ Watchdog
  <2>1. RowsQuiet({}) /\ HandlingQuiet
      BY <1>2, AdminIsQuiet, WatchIsQuiet
  <2>2. UNCHANGED <<starts, jobs, worker, solving, net, handling>>
      BY <1>2 DEF requests, queue, sidecar, Admin, RequestStop, StopUnreachable, MarkStopped,
                  ActivateRun, BudgetPasses, Watchdog, SweepBegins, SweepFails
  <2>3. Calm /\ Fewer
      BY <2>1, <2>2 DEF Calm, Fewer, Token, RowsQuiet, HandlingQuiet
  <2>4. QED
      BY <2>3, FewerKeeps
<1>3. CASE Crash
  <2>1. faults' # 0
    <3>1. faults \in Nat /\ faults' = faults + 1
        BY <1>3, BoundsAssumption DEF Crash, TypeOK
    <3>2. QED
        BY <3>1
  <2>2. QED
      BY <2>1 DEF OneToken
<1>4. CASE UNCHANGED vars
  <2>1. Calm /\ Fewer
      BY <1>4 DEF vars, requests, queue, sidecar, Calm, Fewer, Token
  <2>2. QED
      BY <2>1, FewerKeeps
<1>5. QED
    BY <1>1, <1>2, <1>3, <1>4 DEF Next

(* While nothing fails a run with conflicts rests in COMPLETED only until  *)
(* its completion's last statement.                                        *)
LEMMA RestingStep ==
    ASSUME TypeOK, RunTableInv, PlanInv, OneToken, Resting, [Next]_vars
    PROVE  Resting'
<1>1. CASE StartSolve
  <2>1. /\ handling' = handling /\ (faults' = 0 => faults = 0)
        /\ row \in [RunIds -> Row] /\ lastRun + 1 \notin runs
    <3>1. faults \in Nat /\ lastRun \in Nat
        BY BoundsAssumption DEF TypeOK
    <3>2. QED
        BY <1>1, <3>1 DEF TypeOK, RowsOK, RunTableInv, StartSolve, CreateRun, Enqueue, EnqueueFails,
                     ReadRunLimit, DeleteSurplus
  <2>2. \A q \in RunIds : row'[q] = row[q] \/ row'[q] = NoRow \/ row'[q] = QueuedRow
      BY <1>1, <2>1 DEF StartSolve, CreateRun, Enqueue, EnqueueFails, ReadRunLimit, DeleteSurplus
  <2>3. NoRow.conflicts = {} /\ QueuedRow.conflicts = {}
      BY DEF NoRow, QueuedRow
  <2> HIDE DEF NoRow, QueuedRow
  <2>4. QED
      BY <2>1, <2>2, <2>3 DEF Resting, runs
<1>2. CASE Process \/ Sidecar \/ Admin \/ BudgetPasses \/ Watchdog \/ Crash
    BY <1>2, ProcessIsQuiet, SidecarIsQuiet, AdminIsQuiet, WatchIsQuiet, QuietKeepsPlans
<1>3. CASE UNCHANGED vars
    BY <1>3 DEF vars, Resting, runs
<1>4. ASSUME NEW m \in net, HandleProgress(m) PROVE Resting'
    BY <1>4, ProgressIsQuiet, QuietKeepsPlans
<1>5. ASSUME NEW m \in net, ReceiveCompletion(m) PROVE Resting'
  <2>1. /\ RowsQuiet({m.job.run}) /\ HandlingQuiet /\ m.type = "complete"
        /\ m.job.run \in RunIds /\ runs \subseteq RunIds
      BY <1>5, ReceiptIsQuiet DEF ReceiveCompletion, TypeOK, Callback, Job, runs
  <2>2. Token(m.job.run, "callback", m)
      BY <2>1 DEF Token
  <2>3. faults = 0 => row[m.job.run].conflicts = {}
      BY <2>1, <2>2 DEF OneToken, Last
  <2>4. QED
      BY <2>1, <2>3 DEF Resting, RowsQuiet, HandlingQuiet
<1>6. ASSUME NEW c \in handling, PersistFails(c) \/ HandlerThrows(c) PROVE Resting'
    BY <1>6, FaultIsQuiet, QuietKeepsPlans
<1>7. ASSUME NEW c \in handling, PersistLessons(c) \/ RecordConflicts(c) \/ DowngradeRun(c)
      PROVE  Resting'
  <2> DEFINE r == c.job.run
  <2>1. /\ r \in RunIds /\ c \in Completion /\ Token(r, "completion", c)
        /\ row \in [RunIds -> Row] /\ faults' = faults /\ runs \subseteq RunIds
      BY <1>7 DEF TypeOK, RowsOK, Completion, Job, Token, runs, PersistLessons, RecordConflicts,
                  DowngradeRun
  <2>2. \A q \in RunIds : q # r => row'[q] = row[q]
      BY <1>7, <2>1 DEF PersistLessons, RecordConflicts, DowngradeRun, Update
  <2>3. \A x \in handling : x.job.run # r => x \in handling'
      BY <1>7 DEF PersistLessons, RecordConflicts, DowngradeRun, Advance, Return
  <2>4. SUFFICES ASSUME faults = 0, r \in runs', row'[r].status = "COMPLETED",
                        row'[r].conflicts # {}
                 PROVE  \E x \in handling' : x.job.run = r /\ x.at = "downgrade"
      BY <2>1, <2>2, <2>3 DEF Resting, runs
  <2>5. CASE r \notin runs
    <3>1. UNCHANGED row
        BY <1>7, <2>5 DEF PersistLessons, RecordConflicts, DowngradeRun
    <3>2. QED
        BY <2>4, <2>5, <3>1 DEF runs
  <2>6. CASE r \in runs /\ RecordConflicts(c)
    <3> DEFINE down == [c EXCEPT !.at = "downgrade"]
    <3>1. down.job = c.job /\ down.at = "downgrade" /\ down \in handling'
        BY <2>1, <2>6 DEF RecordConflicts, Advance, Completion
    <3> HIDE DEF down
    <3>2. QED
        BY <3>1
  <2>7. CASE r \in runs /\ PersistLessons(c)
    <3>0. PICK met \in SUBSET {c.job.delivery} :
              row' = [row EXCEPT ![r] = WithLessons(row[r], c.job.delivery, met)]
        BY <2>7, LessonsStored
    <3> DEFINE new == WithLessons(row[r], c.job.delivery, met)
    <3>1. row' = [row EXCEPT ![r] = new] /\ c.at = "persist"
        BY <2>7, <3>0 DEF PersistLessons
    <3>2. new.conflicts = row[r].conflicts
        BY <2>1 DEF Row, WithLessons
    <3> HIDE DEF new
    <3>3. row[r].conflicts # {}
        BY <2>1, <2>4, <3>1, <3>2
    <3>4. Last("completion", c)
        BY <2>1, <2>4, <3>3 DEF OneToken
    <3>5. QED
        BY <3>1, <3>4 DEF Last
  <2>8. CASE r \in runs /\ DowngradeRun(c)
    <3> DEFINE new == [row[r] EXCEPT !.status = "COMPLETED_WITH_CONFLICTS", !.isActive = FALSE]
               x == [new EXCEPT !.overdue = FALSE]
    <3>1. row' = [row EXCEPT ![r] = x]
        BY <2>8 DEF DowngradeRun, Update
    <3>2. row[r] \in Row
        BY <2>1
    <3>3. new \in Row /\ new.status = "COMPLETED_WITH_CONFLICTS"
        BY <3>2, DeactivatedRow DEF Row, SolveStatus
    <3> HIDE DEF new
    <3>4. x.status = new.status
        BY <3>3 DEF Row
    <3> HIDE DEF x
    <3>5. row'[r].status = "COMPLETED_WITH_CONFLICTS"
        BY <2>1, <3>1, <3>3, <3>4
    <3>6. QED
        BY <2>4, <3>5
  <2>9. QED
      BY <1>7, <2>5, <2>6, <2>7, <2>8
<1>8. QED
    BY <1>1, <1>2, <1>3, <1>4, <1>5, <1>6, <1>7 DEF Next, Callbacks

(* COMPLETED_WITH_CONFLICTS and COMPLETED say what they mean of every run, *)
(* but for the runs a crash or a database error cut short.                 *)
THEOREM StatusSettles == Spec => []SettledStatus
<1> DEFINE Inv == TypeOK /\ RunTableInv /\ PlanInv /\ OneToken /\ Resting
<1>1. Init => Inv
  <2>1. Init => PlanInv /\ Resting
      BY DEF Init, PlanInv, ConflictsHavePlan, Resting, NoRow, runs
  <2>2. Init => OneToken
      BY DEF Init, OneToken, Token, NoRow, Idle
  <2>3. QED
      BY <2>1, <2>2, TypeInit, TableInit
<1>2. Inv /\ [Next]_vars => Inv'
    BY TypeStep, TableStep, PlanStep, TokenStep, RestingStep
<1>3. Inv => SettledStatus
    BY DEF PlanInv, Resting, SettledStatus
<1>4. QED
    BY <1>1, <1>2, <1>3, PTL DEF Spec
=============================================================================
