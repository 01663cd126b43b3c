----------------------------- MODULE ImportJobs -----------------------------
(***************************************************************************)
(* Import jobs: ImportService, whose calls keep an ImportJob row, a temp   *)
(* file and a BullMQ job each in a store of its own, and ImportProcessor,  *)
(* the one worker that takes the jobs off the queue row by row.            *)
(*                                                                         *)
(* A file is the sequence of rows the parsers split it into; a row is the  *)
(* person, class or room it names.                                         *)
(***************************************************************************)
EXTENDS Integers, Sequences

CONSTANTS
    Imports,        \* ImportJob ids
    Rows,           \* what a row of a file can name
    File,           \* the rows of the file each job was uploaded with
    Missing,        \* rows without a required field
    Unreadable,     \* rows with a number the database refuses
    Unmatched,      \* rows no existing entry can be found for: students without first name
    Present,        \* what the school has already
    Callers,        \* who calls startDryRun and commitImport
    MaxQueued,      \* bound: jobs put on the queue
    MaxCrashes,     \* bound: crashes of the worker
    MaxRejected,    \* bound: what the database or Redis rejects, calls cut short
    NoImport, NoTask

Mode == {"SKIP", "UPDATE", "FAIL"}
Entity == {"MIXED", "TEACHERS"}         \* TEACHERS stands for the four kinds
ImportStatus == {"QUEUED", "DRY_RUN", "PROCESSING", "COMPLETED", "PARTIAL", "FAILED"}

(* filePath: whether dryRunResult still says where the file is.            *)
ImportJob == [status : ImportStatus, filePath : BOOLEAN, mode : Mode, entity : Entity]
Task == [job : Imports, dry : BOOLEAN, mode : Mode, entity : Entity]
Starting == [task : Task, at : {"read", "kept", "queued"}]
Working == [task : Task, at : Nat, imported : Nat, skipped : Nat, errors : Nat]

ASSUME ImportAssumption ==
    /\ File \in [Imports -> Seq(Rows)]
    /\ Missing \subseteq Rows /\ Unreadable \subseteq Rows /\ Unmatched \subseteq Rows
    /\ Present \subseteq Rows
    /\ MaxQueued \in Nat /\ MaxRejected \in Nat
    /\ MaxCrashes \in 0 .. 1    \* BullMQ hands a stalled job out again once
    /\ NoImport \notin ImportJob /\ NoTask \notin Working \cup Starting

VARIABLES
    import,         \* the ImportJob rows
    uploaded,       \* the ids given so far
    disk,           \* the jobs whose temp file is there
    starting,       \* startDryRun and commitImport under way: the BullMQ job to be
    importQueue,    \* BullMQ jobs waiting
    importer,       \* what the worker does
    entries,        \* how many persons, classes or rooms each row has become
    importCrashes, queuedSoFar, rejectedSoFar,
    aux_adrift      \* auxiliary: jobs whose latest work ended before startDryRun's
                    \* last update, or without its own

importVars == <<import, uploaded, disk, starting, importQueue, importer, entries,
                importCrashes, queuedSoFar, rejectedSoFar, aux_adrift>>

ImportInit ==
    /\ import = [j \in Imports |-> NoImport] /\ uploaded = {}
    /\ disk = {} /\ importQueue = << >> /\ importer = NoTask
    /\ entries = [r \in Rows |-> IF r \in Present THEN 1 ELSE 0]
    /\ starting = [c \in Callers |-> NoTask] /\ importCrashes = 0
    /\ queuedSoFar = 0 /\ rejectedSoFar = 0
    /\ aux_adrift = {}

Rejected == rejectedSoFar < MaxRejected /\ rejectedSoFar' = rejectedSoFar + 1
SetImport(j, s) == import' = [import EXCEPT ![j].status = s]
-----------------------------------------------------------------------------
(* uploadAndParse: the file is written, the row says where.                *)
Upload(j) ==
    /\ j \notin uploaded
    /\ import' = [import EXCEPT ![j] =
          [status |-> "QUEUED", filePath |-> TRUE, mode |-> "SKIP", entity |-> "MIXED"]]
    /\ disk' = disk \cup {j} /\ uploaded' = uploaded \cup {j}
    /\ UNCHANGED <<starting, importQueue, importer, entries, importCrashes, queuedSoFar, rejectedSoFar, aux_adrift>>

(* startDryRun and commitImport read the row and look at no status ...     *)
ReadImport(c, task, at) ==
    /\ starting[c] = NoTask
    /\ import[task.job] # NoImport /\ import[task.job].filePath
    /\ starting' = [starting EXCEPT ![c] = [task |-> task, at |-> at]]
    /\ UNCHANGED <<import, uploaded, disk, importQueue, importer, entries, importCrashes, queuedSoFar, rejectedSoFar, aux_adrift>>

AsKept(j, dry) == [job |-> j, dry |-> dry, mode |-> import[j].mode, entity |-> import[j].entity]

(* ... a dry run with the options it is given, or with those of the row,   *)
(* as every commit ...                                                     *)
StartDryRun(c, j, mode, entity) ==
    ReadImport(c, [job |-> j, dry |-> TRUE, mode |-> mode, entity |-> entity], "read")
RepeatDryRun(c, j) == ReadImport(c, AsKept(j, TRUE), "kept")
CommitImport(c, j) == ReadImport(c, AsKept(j, FALSE), "read")

(* ... keep the options in the row, or call it PROCESSING ...              *)
KeepImport(c) ==
    /\ starting[c] # NoTask /\ starting[c].at = "read"
    /\ LET task == starting[c].task
       IN  /\ import[task.job] # NoImport
           /\ import' = IF task.dry
                 THEN [import EXCEPT ![task.job].mode = task.mode, ![task.job].entity = task.entity]
                 ELSE [import EXCEPT ![task.job].status = "PROCESSING"]
    /\ starting' = [starting EXCEPT ![c].at = "kept"]
    /\ UNCHANGED <<uploaded, disk, importQueue, importer, entries, importCrashes, queuedSoFar, rejectedSoFar, aux_adrift>>

(* ... put the BullMQ job on the queue ...                                 *)
QueueImport(c) ==
    /\ starting[c] # NoTask /\ starting[c].at = "kept"
    /\ queuedSoFar < MaxQueued
    /\ importQueue' = Append(importQueue, starting[c].task) /\ queuedSoFar' = queuedSoFar + 1
    /\ starting' = [starting EXCEPT ![c].at = "queued"]
    /\ aux_adrift' = aux_adrift \ {starting[c].task.job}
    /\ UNCHANGED <<import, uploaded, disk, importer, entries, importCrashes, rejectedSoFar>>

(* ... and write its id into the row, a dry run QUEUED as well, however    *)
(* far the worker is by now.                                               *)
MarkQueued(c) ==
    /\ starting[c] # NoTask /\ starting[c].at = "queued"
    /\ LET j == starting[c].task.job
       IN  import' = IF import[j] # NoImport /\ starting[c].task.dry
                     THEN [import EXCEPT ![j].status = "QUEUED"] ELSE import
    /\ starting' = [starting EXCEPT ![c] = NoTask]
    /\ UNCHANGED <<uploaded, disk, importQueue, importer, entries, importCrashes, queuedSoFar, rejectedSoFar, aux_adrift>>

(* A call ends early: the row is gone, the database or Redis rejects, the  *)
(* process dies.                                                           *)
CallEnds(c) ==
    /\ starting[c] # NoTask
    /\ starting' = [starting EXCEPT ![c] = NoTask]
    /\ Rejected \/ (import[starting[c].task.job] = NoImport /\ UNCHANGED rejectedSoFar)
    /\ UNCHANGED <<import, uploaded, disk, importQueue, importer, entries, importCrashes, queuedSoFar, aux_adrift>>

(* deleteJob deletes the row, not what is queued for it.                   *)
DeleteImport(j) ==
    /\ import[j] # NoImport
    /\ import' = [import EXCEPT ![j] = NoImport]
    /\ UNCHANGED <<uploaded, disk, starting, importQueue, importer, entries, importCrashes, queuedSoFar, rejectedSoFar, aux_adrift>>
-----------------------------------------------------------------------------
(* The worker: one BullMQ job at a time, taken (0), at a row (its number), *)
(* past the rows (Length + 1), past its last update (Length + 2) and past  *)
(* the unlink (Length + 3).                                                *)

TakeImport ==
    /\ importer = NoTask
    /\ importQueue # << >>
    /\ importer' = [task |-> Head(importQueue), at |-> 0, imported |-> 0, skipped |-> 0, errors |-> 0]
    /\ importQueue' = Tail(importQueue)
    /\ UNCHANGED <<import, uploaded, disk, starting, entries, importCrashes, queuedSoFar, rejectedSoFar, aux_adrift>>

The == importer.task.job
Length == Len(File[The])
LastUpdate == importer' = [importer EXCEPT !.at = Length + 2]

(* A startDryRun is still to set QUEUED on the job in hand.                *)
Overtaking == \E c \in Callers : /\ starting[c] # NoTask
                                 /\ starting[c].at = "queued" /\ starting[c].task.job = The

(* process reads the file and says that it is at work.                     *)
ReadFile ==
    /\ importer # NoTask /\ importer.at = 0
    /\ The \in disk /\ import[The] # NoImport
    /\ SetImport(The, IF importer.task.dry THEN "DRY_RUN" ELSE "PROCESSING")
    /\ importer' = [importer EXCEPT !.at = 1]
    /\ UNCHANGED <<uploaded, disk, starting, importQueue, entries, importCrashes, queuedSoFar, rejectedSoFar, aux_adrift>>

Found(r) == entries[r] > 0 /\ r \notin Unmatched

RowResultFindsNobody(r, task) ==        \* mutant: existing entries are not looked up
    CASE task.entity = "MIXED" /\ ~ task.dry     -> "error"
      [] r \in Missing                           -> "error"
      [] task.dry                                -> "imported"
      [] r \in Unreadable                        -> "throws"
      [] OTHER                                   -> "created"

(* validateRow in a dry run, processImportRow otherwise.  A number the     *)
(* database refuses, in a new entry or an updated one, is not an error of  *)
(* the row: processImportRow returns the promise from its try block        *)
(* without awaiting it.                                                    *)
RowResult(r, task) ==
    CASE task.entity = "MIXED" /\ ~ task.dry     -> "error"
      [] r \in Missing                           -> "error"
      [] task.dry                                -> "imported"
      [] Found(r) /\ task.mode = "SKIP"          -> "skipped"
      [] Found(r) /\ task.mode = "FAIL"          -> "error"
      [] r \in Unreadable                        -> "throws"
      [] Found(r) /\ task.mode = "UPDATE"        -> "imported"
      [] OTHER                                   -> "created"

AtRow == importer # NoTask /\ importer.at \in DOMAIN File[The]
Result == RowResult(File[The][importer.at], importer.task)

ImportRow ==
    /\ AtRow /\ Result # "throws"
    /\ importer' = [importer EXCEPT !.at = @ + 1,
          !.imported = @ + IF Result \in {"imported", "created"} THEN 1 ELSE 0,
          !.skipped = @ + IF Result = "skipped" THEN 1 ELSE 0,
          !.errors = @ + IF Result = "error" THEN 1 ELSE 0]
    /\ entries' = IF Result = "created" THEN [entries EXCEPT ![File[The][importer.at]] = @ + 1] ELSE entries
    /\ UNCHANGED <<import, uploaded, disk, starting, importQueue, importCrashes, queuedSoFar, rejectedSoFar, aux_adrift>>

OutcomeForgetsErrors ==                 \* mutant: rows with errors do not count
    IF importer.task.dry THEN "DRY_RUN"
    ELSE IF importer.skipped > 0 THEN "PARTIAL"
    ELSE "COMPLETED"

Outcome ==
    IF importer.task.dry THEN "DRY_RUN"
    ELSE IF importer.errors = Length THEN "FAILED"
    ELSE IF importer.errors > 0 \/ importer.skipped > 0 THEN "PARTIAL"
    ELSE "COMPLETED"

(* The last update; a dry run's result takes the place of the file's path. *)
FinishImport ==
    /\ importer # NoTask /\ importer.at = Length + 1
    /\ import[The] # NoImport
    /\ import' = [import EXCEPT ![The].status = Outcome, ![The].filePath = @ /\ ~ importer.task.dry]
    /\ LastUpdate
    /\ aux_adrift' = IF Overtaking THEN aux_adrift \cup {The} ELSE aux_adrift
    /\ UNCHANGED <<uploaded, disk, starting, importQueue, entries, importCrashes, queuedSoFar, rejectedSoFar>>

(* What gets the worker into the catch block: the file or the row is gone, *)
(* the database refuses the row of the file, or a query or update rejects. *)
Throws ==
    /\ importer # NoTask /\ importer.at <= Length + 1
    /\ \/ Rejected
       \/ /\ UNCHANGED rejectedSoFar
          /\ \/ importer.at = 0 /\ The \notin disk
             \/ importer.at \in {0, Length + 1} /\ import[The] = NoImport
             \/ AtRow /\ Result = "throws"

FailLeavingStatus ==                    \* mutant: the catch block does not mark the job
    /\ Throws /\ LastUpdate
    /\ aux_adrift' = IF Overtaking THEN aux_adrift \cup {The} ELSE aux_adrift
    /\ UNCHANGED <<import, uploaded, disk, starting, importQueue, entries, importCrashes, queuedSoFar>>

FailImport ==
    /\ Throws /\ LastUpdate
    /\ import[The] # NoImport /\ SetImport(The, "FAILED")
    /\ aux_adrift' = IF Overtaking THEN aux_adrift \cup {The} ELSE aux_adrift
    /\ UNCHANGED <<uploaded, disk, starting, importQueue, entries, importCrashes, queuedSoFar>>

(* The catch block throws itself: the row is gone, or its update rejects.  *)
LeaveImport ==
    /\ importer # NoTask /\ importer.at <= Length + 1
    /\ Rejected \/ (Throws /\ import[The] = NoImport)
    /\ LastUpdate
    /\ aux_adrift' = aux_adrift \cup {The}
    /\ UNCHANGED <<import, uploaded, disk, starting, importQueue, entries, importCrashes, queuedSoFar>>

(* The finally block: the temp file goes, whatever the job was.            *)
CleanUp ==
    /\ importer # NoTask /\ importer.at = Length + 2
    /\ disk' = disk \ {The}
    /\ importer' = [importer EXCEPT !.at = Length + 3]
    /\ UNCHANGED <<import, uploaded, starting, importQueue, entries, importCrashes, queuedSoFar, rejectedSoFar, aux_adrift>>

AckImport ==
    /\ importer # NoTask /\ importer.at = Length + 3
    /\ importer' = NoTask
    /\ UNCHANGED <<import, uploaded, disk, starting, importQueue, entries, importCrashes, queuedSoFar, rejectedSoFar, aux_adrift>>

(* The worker dies; BullMQ finds the job stalled and hands it out again.   *)
CrashImport ==
    /\ importer # NoTask
    /\ importCrashes < MaxCrashes
    /\ importCrashes' = importCrashes + 1
    /\ importQueue' = <<importer.task>> \o importQueue
    /\ importer' = NoTask
    /\ UNCHANGED <<import, uploaded, disk, starting, entries, queuedSoFar, rejectedSoFar, aux_adrift>>

ImportWorker == \/ TakeImport \/ ReadFile \/ ImportRow \/ FinishImport
                \/ FailImport \/ LeaveImport \/ CleanUp \/ AckImport

ImportNext ==
    \/ \E j \in Imports : Upload(j) \/ DeleteImport(j)
    \/ \E c \in Callers :
        \/ \E j \in Imports : import[j] # NoImport /\
              \/ CommitImport(c, j) \/ RepeatDryRun(c, j)
              \/ \E mode \in Mode, entity \in Entity : StartDryRun(c, j, mode, entity)
        \/ KeepImport(c) \/ QueueImport(c) \/ MarkQueued(c) \/ CallEnds(c)
    \/ ImportWorker
    \/ CrashImport

ImportSpec == ImportInit /\ [][ImportNext]_importVars
-----------------------------------------------------------------------------
(* Types.                                                                  *)
ImportTypeOK ==
    /\ import \in [Imports -> ImportJob \cup {NoImport}]
    /\ uploaded \subseteq Imports /\ disk \subseteq uploaded
    /\ \A j \in Imports \ uploaded : import[j] = NoImport
    /\ starting \in [Callers -> Starting \cup {NoTask}]
    /\ importQueue \in Seq(Task)
    /\ importer \in Working \cup {NoTask}
    /\ importer # NoTask =>
          /\ importer.at <= Length + 3
          /\ importer.imported + importer.skipped + importer.errors <= Length
    /\ entries \in [Rows -> Nat]

(* Importing the same rows again, in any mode, after a crash in the middle *)
(* of a job or from a second upload, makes no second entry of what can be  *)
(* found.                                                                  *)
ImportedOnce == \A r \in Rows \ Unmatched : entries[r] <= 1

(* COMPLETED says that every row of the file has its entry.                *)
CompletedIsImported ==
    \A j \in Imports : import[j] # NoImport /\ import[j].status = "COMPLETED" =>
        \A i \in DOMAIN File[j] : entries[File[j][i]] > 0

(* A job that calls itself QUEUED after it was started is queued, or in    *)
(* hand, or about to be, however calls, worker and crashes meet; unless    *)
(* its work was over before startDryRun was, or without a last update.     *)
QueuedHasWork ==
    \A j \in Imports : import[j] # NoImport /\ import[j].status = "QUEUED" =>
        \/ import[j].filePath /\ j \in disk
        \/ j \in aux_adrift
        \/ importer # NoTask /\ The = j
        \/ \E i \in DOMAIN importQueue : importQueue[i].job = j

(* What the wizard, dry run and then commit, rests on: after a dry run the *)
(* job still has its file.                                                 *)
DryRunCanBeCommitted ==
    \A j \in Imports : import[j] # NoImport /\ import[j].status = "DRY_RUN"
                       /\ (importer = NoTask \/ The # j) =>
        import[j].filePath /\ j \in disk
=============================================================================
