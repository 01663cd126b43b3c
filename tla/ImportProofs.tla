---------------------------- MODULE ImportProofs ----------------------------
(***************************************************************************)
(* What holds of the import jobs for any files, rows, options, calls,      *)
(* rejections and crashes.                                                 *)
(***************************************************************************)
EXTENDS ImportJobs, SequenceTheorems, TLAPS

(* The worker's counters add up to the rows it has been through, and as    *)
(* long as none was skipped or refused each of them has its entry.         *)
Tally ==
    importer # NoTask =>
        /\ importer.at = 0 => importer.imported + importer.skipped + importer.errors = 0
        /\ importer.at \in 1 .. Length + 1 =>
              importer.imported + importer.skipped + importer.errors = importer.at - 1
        /\ importer.at <= Length + 1 /\ ~ importer.task.dry
             /\ importer.errors = 0 /\ importer.skipped = 0 =>
              \A i \in DOMAIN File[The] : i < importer.at => entries[File[The][i]] > 0

Waits(j) == \E i \in DOMAIN importQueue : importQueue[i].job = j
IsInHand(j) == importer # NoTask /\ The = j /\ importer.at <= Length + 1
IsUnlinked(j) == importer # NoTask /\ The = j /\ importer.at = Length + 2
AtWork(j) == j \in aux_adrift \/ IsInHand(j) \/ Waits(j)
Marking(c, j) == /\ starting[c] # NoTask /\ starting[c].at = "queued"
                 /\ starting[c].task.dry /\ starting[c].task.job = j
SaysQueued(j) == import[j] # NoImport /\ import[j].status = "QUEUED"
HasFile(j) == import[j].filePath /\ j \in disk

(* Nothing is at work on a job that was never uploaded.                    *)
Known ==
    \A j \in Imports \ uploaded :
        /\ ~ Waits(j) /\ (importer # NoTask => The # j)
        /\ \A c \in Callers : starting[c] # NoTask => starting[c].task.job # j

(* A startDryRun that has yet to set QUEUED has its job on the queue or in *)
(* hand, unless the work is over; so has, from then on, the row.  The file *)
(* that is about to be unlinked is no excuse.                              *)
OnTheWay ==
    /\ \A c \in Callers, j \in Imports : Marking(c, j) => AtWork(j)
    /\ \A j \in Imports : SaysQueued(j) => AtWork(j) \/ (HasFile(j) /\ ~ IsUnlinked(j))

ImportInv ==
    ImportTypeOK /\ Known /\ Tally /\ ImportedOnce /\ CompletedIsImported /\ OnTheWay

(* The rows of a job's file are rows.                                      *)
LEMMA FileRows ==
    ASSUME NEW j \in Imports
    PROVE  /\ Len(File[j]) \in Nat /\ DOMAIN File[j] = 1 .. Len(File[j])
           /\ \A i \in DOMAIN File[j] : File[j][i] \in Rows
<1>1. File[j] \in Seq(Rows)
    BY ImportAssumption
<1>2. QED
    BY <1>1

(* What the worker does is typed.                                          *)
LEMMA Hands ==
    ASSUME ImportTypeOK, importer # NoTask
    PROVE  /\ importer \in Working /\ importer.task \in Task /\ The \in Imports
           /\ importer.at \in Nat /\ importer.imported \in Nat
           /\ importer.skipped \in Nat /\ importer.errors \in Nat
           /\ Length \in Nat /\ importer.at <= Length + 3
           /\ importer.task.mode \in Mode /\ importer.task.dry \in BOOLEAN
<1>1. importer \in Working
    BY DEF ImportTypeOK
<1>2. The \in Imports
    BY <1>1 DEF Working, Task, The
<1>3. QED
    BY <1>1, <1>2, FileRows DEF Working, Task, ImportTypeOK, Length

(* A row makes an entry only when none was found, and in a commit a row    *)
(* counts as imported only when it has its entry.                          *)
LEMMA Results ==
    ASSUME NEW r \in Rows, NEW task \in Task, entries[r] \in Nat
    PROVE  /\ RowResult(r, task) \in {"error", "imported", "skipped", "throws", "created"}
           /\ RowResult(r, task) = "created" => ~ Found(r) /\ ~ task.dry
           /\ RowResult(r, task) = "imported" /\ ~ task.dry => entries[r] > 0
<1>1. task.mode = "SKIP" \/ task.mode = "FAIL" \/ task.mode = "UPDATE"
    BY DEF Task, Mode
<1>2. Found(r) => entries[r] > 0
    BY DEF Found
<1>3. QED
    BY <1>1, <1>2 DEF RowResult

(* A step that neither adds an entry nor says COMPLETED keeps what the     *)
(* entries and the completed jobs say.                                     *)
LEMMA SameEntries ==
    ASSUME ImportInv, entries' = entries,
           \A j \in Imports : import'[j] # NoImport /\ import'[j].status = "COMPLETED" =>
               import[j] # NoImport /\ import[j].status = "COMPLETED"
    PROVE  ImportedOnce' /\ CompletedIsImported'
BY DEF ImportInv, ImportedOnce, CompletedIsImported

(* A step of the calls leaves the worker and the entries alone, and what   *)
(* is at work on a job stays there.                                        *)
LEMMA CallsLeaveWork ==
    ASSUME ImportInv, UNCHANGED <<importer, entries>>, ImportTypeOK', Known',
           \A j \in Imports : import'[j] # NoImport /\ import'[j].status = "COMPLETED" =>
               import[j] # NoImport /\ import[j].status = "COMPLETED",
           \A j \in Imports : Waits(j) => Waits(j)',
           \A j \in Imports : j \in aux_adrift => j \in aux_adrift' \/ Waits(j)',
           \A c \in Callers, j \in Imports : Marking(c, j)' => Marking(c, j) \/ Waits(j)',
           \A j \in Imports : SaysQueued(j)' =>
               \/ SaysQueued(j) /\ (HasFile(j) => HasFile(j)')
               \/ AtWork(j)
               \/ HasFile(j)' /\ ~ IsUnlinked(j)
    PROVE  ImportInv'
<1>1. Tally' /\ \A j : (IsInHand(j)' <=> IsInHand(j)) /\ (IsUnlinked(j)' <=> IsUnlinked(j))
    BY DEF ImportInv, Tally, IsInHand, IsUnlinked, The, Length
<1>2. ImportedOnce' /\ CompletedIsImported'
    BY SameEntries
<1>3. \A j \in Imports : AtWork(j) => AtWork(j)'
    BY <1>1 DEF AtWork
<1>4. OnTheWay
    BY DEF ImportInv
<1>5. OnTheWay'
  <2>1. ASSUME NEW c \in Callers, NEW j \in Imports, Marking(c, j)'
        PROVE  AtWork(j)'
      BY <1>3, <1>4, <2>1 DEF OnTheWay, AtWork
  <2>2. ASSUME NEW j \in Imports, SaysQueued(j)'
        PROVE  AtWork(j)' \/ (HasFile(j)' /\ ~ IsUnlinked(j)')
      BY <1>1, <1>3, <1>4, <2>2 DEF OnTheWay
  <2>3. QED
      BY <2>1, <2>2 DEF OnTheWay
<1>6. QED
    BY <1>1, <1>2, <1>5 DEF ImportInv

(* A call moves on.                                                        *)
LEMMA CallMovesOn ==
    ASSUME ImportTypeOK, NEW c \in Callers, starting[c] # NoTask,
           NEW at \in {"kept", "queued"}, starting' = [starting EXCEPT ![c].at = at]
    PROVE  /\ starting' \in [Callers -> Starting \cup {NoTask}]
           /\ starting[c] \in Starting /\ starting[c].task \in Task /\ starting'[c] # NoTask
           /\ starting'[c].task = starting[c].task /\ starting'[c].at = at
           /\ \A d \in Callers \ {c} : starting'[d] = starting[d]
<1>1. starting \in [Callers -> Starting \cup {NoTask}] /\ starting[c] \in Starting
    BY DEF ImportTypeOK
<1> DEFINE new == [starting[c] EXCEPT !.at = at]
<1>2. new \in Starting /\ new.task = starting[c].task /\ new.at = at /\ starting[c].task \in Task
    BY <1>1 DEF Starting
<1>3. starting' = [starting EXCEPT ![c] = new] /\ new # NoTask
    BY <1>1, <1>2, ImportAssumption
<1> HIDE DEF new
<1>4. QED
    BY <1>1, <1>2, <1>3

(* An uploaded job says where its file is, and nothing is at work on it.   *)
LEMMA UploadsWell ==
    ASSUME ImportInv, NEW j \in Imports, Upload(j)
    PROVE  ImportInv'
<1> DEFINE new == [status |-> "QUEUED", filePath |-> TRUE, mode |-> "SKIP", entity |-> "MIXED"]
<1>1. new \in ImportJob /\ new.status = "QUEUED" /\ new.filePath
    BY DEF ImportJob, ImportStatus, Mode, Entity
<1>2. /\ import' = [import EXCEPT ![j] = new] /\ disk' = disk \cup {j}
      /\ uploaded' = uploaded \cup {j} /\ j \in Imports \ uploaded
      /\ UNCHANGED <<starting, importQueue, importer, entries, aux_adrift>>
    BY DEF Upload
<1> HIDE DEF new
<1>3. ImportTypeOK /\ Known /\ import \in [Imports -> ImportJob \cup {NoImport}]
    BY DEF ImportInv, ImportTypeOK
<1>4. ImportTypeOK'
    BY <1>1, <1>2, <1>3 DEF ImportTypeOK, Length, The
<1>5. \A i : (Waits(i)' <=> Waits(i)) /\ \A c : (Marking(c, i)' <=> Marking(c, i))
    BY <1>2 DEF Waits, Marking
<1>6. Known'
    BY <1>2, <1>3, <1>5 DEF Known, The
<1>7. ~ IsUnlinked(j)
    BY <1>2, <1>3 DEF Known, IsUnlinked
<1>8. \A i \in Imports : import'[i] = IF i = j THEN new ELSE import[i]
    BY <1>2, <1>3
<1>9. \A i \in Imports : SaysQueued(i)' =>
          \/ SaysQueued(i) /\ (HasFile(i) => HasFile(i)')
          \/ HasFile(i)' /\ ~ IsUnlinked(i)
    BY <1>1, <1>2, <1>7, <1>8 DEF SaysQueued, HasFile
<1>10. \A i \in Imports : import'[i] # NoImport /\ import'[i].status = "COMPLETED" =>
           import[i] # NoImport /\ import[i].status = "COMPLETED"
    BY <1>1, <1>8
<1>11. QED
    BY <1>2, <1>4, <1>5, <1>6, <1>9, <1>10, CallsLeaveWork

(* A call that has read a row is at work on an uploaded job.               *)
LEMMA ReadsRowWell ==
    ASSUME ImportInv, NEW c \in Callers, NEW task \in Task, NEW at \in {"read", "kept"},
           ReadImport(c, task, at)
    PROVE  ImportInv'
<1> DEFINE new == [task |-> task, at |-> at]
<1>1. new \in Starting /\ new.task = task /\ new.at = at /\ new.at # "queued"
    BY DEF Starting
<1>2. /\ starting' = [starting EXCEPT ![c] = new] /\ import[task.job] # NoImport
      /\ UNCHANGED <<import, uploaded, disk, importQueue, importer, entries, aux_adrift>>
    BY DEF ReadImport
<1> HIDE DEF new
<1>3. ImportTypeOK /\ Known /\ starting \in [Callers -> Starting \cup {NoTask}]
    BY DEF ImportInv, ImportTypeOK
<1>4. task.job \in uploaded
    BY <1>2, <1>3 DEF ImportTypeOK, Task
<1>5. ImportTypeOK'
    BY <1>1, <1>2, <1>3 DEF ImportTypeOK, Length, The
<1>6. \A i : Waits(i)' <=> Waits(i)
    BY <1>2 DEF Waits
<1>7. \A d \in Callers : starting'[d] = IF d = c THEN new ELSE starting[d]
    BY <1>2, <1>3
<1>8. \A d \in Callers, i \in Imports : Marking(d, i)' => Marking(d, i)
    BY <1>1, <1>7 DEF Marking
<1>9. Known'
    BY <1>1, <1>2, <1>3, <1>4, <1>6, <1>7 DEF Known, The
<1>10. \A i : (SaysQueued(i)' <=> SaysQueued(i)) /\ (HasFile(i)' <=> HasFile(i))
    BY <1>2 DEF SaysQueued, HasFile
<1>11. QED
    BY <1>2, <1>5, <1>6, <1>8, <1>9, <1>10, CallsLeaveWork

(* Options or PROCESSING in the row take no job away.                      *)
LEMMA KeepsWell ==
    ASSUME ImportInv, NEW c \in Callers, KeepImport(c)
    PROVE  ImportInv'
<1> DEFINE task == starting[c].task
           j == task.job
           new == IF task.dry THEN [[import[j] EXCEPT !.mode = task.mode] EXCEPT !.entity = task.entity]
                  ELSE [import[j] EXCEPT !.status = "PROCESSING"]
<1>1. /\ ImportTypeOK /\ Known /\ import \in [Imports -> ImportJob \cup {NoImport}]
      /\ starting[c] # NoTask /\ starting' = [starting EXCEPT ![c].at = "kept"]
      /\ UNCHANGED <<uploaded, disk, importQueue, importer, entries, aux_adrift>>
      /\ import[j] # NoImport
    BY DEF ImportInv, ImportTypeOK, KeepImport
<1>2. /\ starting' \in [Callers -> Starting \cup {NoTask}] /\ task \in Task
      /\ starting'[c].task = task /\ starting'[c].at = "kept"
      /\ \A d \in Callers \ {c} : starting'[d] = starting[d]
    BY <1>1, CallMovesOn
<1>3. j \in Imports /\ import[j] \in ImportJob /\ task.mode \in Mode /\ task.entity \in Entity
    BY <1>1, <1>2 DEF Task
<1>4. /\ new \in ImportJob /\ new.filePath = import[j].filePath
      /\ new.status \in {import[j].status, "PROCESSING"}
    BY <1>3 DEF ImportJob, ImportStatus
<1>5. import' = [import EXCEPT ![j] = new]
  <2>1. CASE task.dry
      BY <1>1, <1>3, <2>1 DEF KeepImport, ImportJob
  <2>2. CASE ~ task.dry
      BY <1>1, <1>3, <2>2 DEF KeepImport, ImportJob
  <2>3. QED
      BY <2>1, <2>2
<1> HIDE DEF new
<1>6. \A i \in Imports : import'[i] = IF i = j THEN new ELSE import[i]
    BY <1>1, <1>3, <1>5
<1>7. j \in uploaded
    BY <1>1, <1>3 DEF ImportTypeOK
<1> HIDE DEF j, task
<1>8. ImportTypeOK'
    BY <1>1, <1>2, <1>3, <1>4, <1>5, <1>6, <1>7 DEF ImportTypeOK, Length, The
<1>9. \A i : Waits(i)' <=> Waits(i)
    BY <1>1 DEF Waits
<1>10. \A d \in Callers, i \in Imports : Marking(d, i)' => Marking(d, i)
    BY <1>2 DEF Marking
<1>11. Known'
    BY <1>1, <1>2, <1>9 DEF Known, The, task
<1>12. \A i \in Imports : SaysQueued(i)' => SaysQueued(i) /\ (HasFile(i) => HasFile(i)')
    BY <1>1, <1>3, <1>4, <1>6 DEF SaysQueued, HasFile
<1>13. \A i \in Imports : import'[i] # NoImport /\ import'[i].status = "COMPLETED" =>
           import[i] # NoImport /\ import[i].status = "COMPLETED"
    BY <1>1, <1>3, <1>4, <1>6
<1>14. QED
    BY <1>1, <1>8, <1>9, <1>10, <1>11, <1>12, <1>13, CallsLeaveWork

(* What a call puts on the queue waits there.                              *)
LEMMA QueuesWell ==
    ASSUME ImportInv, NEW c \in Callers, QueueImport(c)
    PROVE  ImportInv'
<1>0. PICK task \in Task : task = starting[c].task
    BY DEF ImportInv, ImportTypeOK, QueueImport, Starting
<1> DEFINE longer == Append(importQueue, task)
<1>1. /\ ImportTypeOK /\ Known /\ importQueue \in Seq(Task)
      /\ starting[c] # NoTask /\ starting' = [starting EXCEPT ![c].at = "queued"]
      /\ importQueue' = longer /\ aux_adrift' = aux_adrift \ {task.job}
      /\ UNCHANGED <<import, uploaded, disk, importer, entries>>
    BY <1>0 DEF ImportInv, ImportTypeOK, QueueImport
<1>2. /\ starting' \in [Callers -> Starting \cup {NoTask}] /\ starting'[c].task = task
      /\ \A d \in Callers \ {c} : starting'[d] = starting[d]
    BY <1>0, <1>1, CallMovesOn
<1>3. /\ longer \in Seq(Task) /\ Len(importQueue) \in Nat
      /\ DOMAIN importQueue = 1 .. Len(importQueue)
      /\ DOMAIN longer = 1 .. Len(importQueue) + 1
      /\ \A i \in 1 .. Len(importQueue) : longer[i] = importQueue[i]
      /\ longer[Len(importQueue) + 1] = task
    BY <1>1, <1>2
<1>4. task.job \in uploaded
    BY <1>0, <1>1 DEF Known, Task
<1> HIDE DEF longer
<1>5. \A i : (Waits(i) => Waits(i)') /\ (Waits(i)' => Waits(i) \/ i = task.job)
    BY <1>1, <1>3 DEF Waits
<1>6. Waits(task.job)'
  <2>1. Len(importQueue) + 1 \in DOMAIN longer
      BY <1>3
  <2>2. QED
      BY <1>1, <1>3, <2>1 DEF Waits
<1>7. ImportTypeOK'
    BY <1>1, <1>2, <1>3 DEF ImportTypeOK, Length, The
<1>8. \A d \in Callers, i \in Imports : Marking(d, i)' => Marking(d, i) \/ i = task.job
    BY <1>2 DEF Marking
<1>9. Known'
    BY <1>1, <1>2, <1>4, <1>5 DEF Known, The
<1>10. \A i : (SaysQueued(i)' <=> SaysQueued(i)) /\ (HasFile(i)' <=> HasFile(i))
    BY <1>1 DEF SaysQueued, HasFile
<1>11. QED
    BY <1>1, <1>5, <1>6, <1>7, <1>8, <1>9, <1>10, CallsLeaveWork

(* QUEUED is set on a job that is at work or was overtaken.                *)
LEMMA MarksWell ==
    ASSUME ImportInv, NEW c \in Callers, MarkQueued(c)
    PROVE  ImportInv'
<1> DEFINE task == starting[c].task
           j == task.job
           new == IF import[j] # NoImport /\ task.dry THEN [import[j] EXCEPT !.status = "QUEUED"]
                  ELSE import[j]
<1>1. /\ ImportTypeOK /\ Known /\ OnTheWay /\ import \in [Imports -> ImportJob \cup {NoImport}]
      /\ starting \in [Callers -> Starting \cup {NoTask}]
      /\ starting[c] # NoTask /\ starting[c].at = "queued"
      /\ starting' = [starting EXCEPT ![c] = NoTask]
      /\ UNCHANGED <<uploaded, disk, importQueue, importer, entries, aux_adrift>>
    BY DEF ImportInv, ImportTypeOK, MarkQueued
<1>2. j \in Imports
    BY <1>1 DEF Starting, Task
<1>3. /\ new \in ImportJob \cup {NoImport} /\ (new = NoImport <=> import[j] = NoImport)
      /\ new # NoImport => new.status = import[j].status \/ (new.status = "QUEUED" /\ task.dry)
      /\ new # NoImport => new.filePath = import[j].filePath
    BY <1>1, <1>2, ImportAssumption DEF ImportJob, ImportStatus
<1>4. import' = [import EXCEPT ![j] = new]
    BY <1>1, <1>2 DEF MarkQueued
<1>5. task.dry => AtWork(j)
    BY <1>1, <1>2 DEF OnTheWay, Marking
<1> HIDE DEF new, j, task
<1>6. \A i \in Imports : import'[i] = IF i = j THEN new ELSE import[i]
    BY <1>1, <1>2, <1>4
<1>7. \A d \in Callers : starting'[d] = IF d = c THEN NoTask ELSE starting[d]
    BY <1>1
<1>8. ImportTypeOK'
  <2>1. \A i \in Imports \ uploaded' : import'[i] = NoImport
      BY <1>1, <1>3, <1>6 DEF ImportTypeOK
  <2>2. import' \in [Imports -> ImportJob \cup {NoImport}]
      BY <1>1, <1>2, <1>3, <1>4
  <2>3. QED
      BY <1>1, <2>1, <2>2 DEF ImportTypeOK, Length, The
<1>9. \A i : Waits(i)' <=> Waits(i)
    BY <1>1 DEF Waits
<1>10. \A d \in Callers, i \in Imports : Marking(d, i)' => Marking(d, i)
    BY <1>7 DEF Marking
<1>11. Known'
    BY <1>1, <1>7, <1>9 DEF Known, The
<1>12. \A i \in Imports : SaysQueued(i)' =>
           (SaysQueued(i) /\ (HasFile(i) => HasFile(i)')) \/ AtWork(i)
    BY <1>1, <1>3, <1>5, <1>6 DEF SaysQueued, HasFile
<1>13. \A i \in Imports : import'[i] # NoImport /\ import'[i].status = "COMPLETED" =>
           import[i] # NoImport /\ import[i].status = "COMPLETED"
    BY <1>3, <1>6
<1>14. QED
    BY <1>1, <1>8, <1>9, <1>10, <1>11, <1>12, <1>13, CallsLeaveWork

(* A call that ends early, or a deleted row, leaves the rest as it is.     *)
LEMMA EndsEarlyWell ==
    ASSUME ImportInv, NEW c \in Callers, CallEnds(c)
    PROVE  ImportInv'
<1>1. /\ ImportTypeOK /\ Known /\ starting \in [Callers -> Starting \cup {NoTask}]
      /\ starting' = [starting EXCEPT ![c] = NoTask]
      /\ UNCHANGED <<import, uploaded, disk, importQueue, importer, entries, aux_adrift>>
    BY DEF ImportInv, ImportTypeOK, CallEnds
<1>2. \A d \in Callers : starting'[d] = IF d = c THEN NoTask ELSE starting[d]
    BY <1>1
<1>3. ImportTypeOK'
    BY <1>1 DEF ImportTypeOK, Length, The
<1>4. \A i : Waits(i)' <=> Waits(i)
    BY <1>1 DEF Waits
<1>5. \A d \in Callers, i \in Imports : Marking(d, i)' => Marking(d, i)
    BY <1>2 DEF Marking
<1>6. Known'
    BY <1>1, <1>2, <1>4 DEF Known, The
<1>7. \A i : (SaysQueued(i)' <=> SaysQueued(i)) /\ (HasFile(i)' <=> HasFile(i))
    BY <1>1 DEF SaysQueued, HasFile
<1>8. QED
    BY <1>1, <1>3, <1>4, <1>5, <1>6, <1>7, CallsLeaveWork

LEMMA DeletesWell ==
    ASSUME ImportInv, NEW j \in Imports, DeleteImport(j)
    PROVE  ImportInv'
<1>1. /\ ImportTypeOK /\ Known /\ import \in [Imports -> ImportJob \cup {NoImport}]
      /\ import' = [import EXCEPT ![j] = NoImport]
      /\ UNCHANGED <<uploaded, disk, starting, importQueue, importer, entries, aux_adrift>>
    BY DEF ImportInv, ImportTypeOK, DeleteImport
<1>2. \A i \in Imports : import'[i] = IF i = j THEN NoImport ELSE import[i]
    BY <1>1
<1>3. ImportTypeOK'
    BY <1>1, <1>2 DEF ImportTypeOK, Length, The
<1>4. \A i : (Waits(i)' <=> Waits(i)) /\ \A c : (Marking(c, i)' <=> Marking(c, i))
    BY <1>1 DEF Waits, Marking
<1>5. Known'
    BY <1>1, <1>4 DEF Known, The
<1>6. \A i \in Imports : SaysQueued(i)' => SaysQueued(i) /\ (HasFile(i) => HasFile(i)')
    BY <1>1, <1>2 DEF SaysQueued, HasFile
<1>7. \A i \in Imports : import'[i] # NoImport /\ import'[i].status = "COMPLETED" =>
          import[i] # NoImport /\ import[i].status = "COMPLETED"
    BY <1>2
<1>8. QED
    BY <1>1, <1>3, <1>4, <1>5, <1>6, <1>7, CallsLeaveWork

(* The worker takes the next job off the queue.                            *)
LEMMA TakesWell ==
    ASSUME ImportInv, TakeImport
    PROVE  ImportInv'
<1> DEFINE new == [task |-> Head(importQueue), at |-> 0, imported |-> 0, skipped |-> 0, errors |-> 0]
<1>1. /\ ImportTypeOK /\ OnTheWay /\ Known /\ importer = NoTask /\ importer' = new
      /\ importQueue' = Tail(importQueue)
      /\ UNCHANGED <<import, uploaded, disk, starting, entries, aux_adrift>>
    BY DEF ImportInv, TakeImport
<1>2. /\ importQueue \in Seq(Task) /\ importQueue # << >>
      /\ Tail(importQueue) \in Seq(Task) /\ Head(importQueue) = importQueue[1]
      /\ importQueue[1] \in Task /\ Len(importQueue) \in Nat \ {0}
      /\ DOMAIN importQueue = 1 .. Len(importQueue)
      /\ DOMAIN Tail(importQueue) = 1 .. Len(importQueue) - 1
      /\ \A i \in 1 .. Len(importQueue) - 1 : Tail(importQueue)[i] = importQueue[i + 1]
    BY <1>1 DEF TakeImport, ImportTypeOK
<1>3. /\ new \in Working /\ new.task = importQueue[1] /\ new.at = 0
      /\ new.imported = 0 /\ new.skipped = 0 /\ new.errors = 0
    BY <1>2 DEF Working
<1>4. new # NoTask
    BY <1>3, ImportAssumption
<1> HIDE DEF new
<1>5. importQueue[1].job \in Imports /\ The' = importQueue[1].job /\ Length' \in Nat
    BY <1>1, <1>2, <1>3, FileRows DEF The, Length, Task
<1>6. ImportTypeOK'
  <2>1. 0 <= Length' + 3 /\ 0 + 0 + 0 <= Length'
    <3>1. Length' \in Nat
        BY <1>5
    <3>2. \A n \in Nat : 0 <= n + 3 /\ 0 + 0 + 0 <= n
        OBVIOUS
    <3>3. QED
        BY <3>1, <3>2
  <2>2. /\ importer'.at = 0 /\ importer'.imported = 0 /\ importer'.skipped = 0
        /\ importer'.errors = 0 /\ importer' \in Working
      BY <1>1, <1>3
  <2>3. importQueue' \in Seq(Task) /\ UNCHANGED <<import, uploaded, disk, starting, entries>>
      BY <1>1, <1>2
  <2> HIDE DEF Length, Working, Task
  <2>4. QED
      BY <1>1, <2>1, <2>2, <2>3 DEF ImportTypeOK
<1>7. Tally'
  <2>1. \A i \in DOMAIN File[The'] : i \in Nat /\ i >= 1
      BY <1>5, FileRows
  <2>2. \A i \in DOMAIN File[The'] : ~ (i < 0)
      BY <2>1
  <2>3. 0 \notin 1 .. Length' + 1 /\ 0 + 0 + 0 = 0
      BY <1>5
  <2>4. /\ importer'.at = 0 /\ importer'.imported = 0 /\ importer'.skipped = 0
        /\ importer'.errors = 0
      BY <1>1, <1>3
  <2>5. QED
      BY <2>2, <2>3, <2>4 DEF Tally
<1>8. ImportedOnce' /\ CompletedIsImported'
    BY <1>1, SameEntries
<1>9. ASSUME NEW j, Waits(j) PROVE IsInHand(j)' \/ Waits(j)'
  <2>1. PICK i \in 1 .. Len(importQueue) : importQueue[i].job = j
      BY <1>2, <1>9 DEF Waits
  <2>2. CASE i = 1
    <3>1. The' = j /\ importer' # NoTask
        BY <1>1, <1>4, <1>5, <2>1, <2>2
    <3>2. importer'.at = 0 /\ 0 <= Length' + 1
      <4>1. importer'.at = 0
          BY <1>1, <1>3
      <4>2. Length' \in Nat
          BY <1>5
      <4>3. \A n \in Nat : 0 <= n + 1
          OBVIOUS
      <4>4. QED
          BY <4>1, <4>2, <4>3
    <3>3. QED
        BY <3>1, <3>2 DEF IsInHand
  <2>3. CASE i # 1
    <3>1. i - 1 \in 1 .. Len(importQueue) - 1 /\ (i - 1) + 1 = i
        BY <1>2, <2>3
    <3>2. Tail(importQueue)[i - 1] = importQueue[i]
        BY <1>2, <3>1
    <3>3. QED
        BY <1>1, <1>2, <2>1, <3>1, <3>2 DEF Waits
  <2>4. QED
      BY <2>2, <2>3
<1>10. \A j : (IsInHand(j)' \/ Waits(j)') => Waits(j)
  <2>1. ASSUME NEW j, Waits(j)' PROVE Waits(j)
    <3>1. PICK i \in 1 .. Len(importQueue) - 1 : importQueue[i + 1].job = j
        BY <1>1, <1>2, <2>1 DEF Waits
    <3>2. i + 1 \in 1 .. Len(importQueue)
        BY <1>2, <3>1
    <3>3. QED
        BY <1>2, <3>1, <3>2 DEF Waits
  <2>2. 1 \in DOMAIN importQueue
      BY <1>2
  <2>3. QED
      BY <1>1, <1>2, <1>5, <2>1, <2>2 DEF Waits, IsInHand
<1>11. \A j : ~ IsInHand(j) /\ ~ IsUnlinked(j)'
  <2>1. ~ (importer'.at = Length' + 2)
    <3>1. importer'.at = 0
        BY <1>1, <1>3
    <3>2. Length' \in Nat
        BY <1>5
    <3>3. \A n \in Nat : ~ (0 = n + 2)
        OBVIOUS
    <3>4. QED
        BY <3>1, <3>2, <3>3
  <2>2. QED
      BY <1>1, <2>1 DEF IsInHand, IsUnlinked
<1>12. \A j : (importer' # NoTask => The' # j) \/ Waits(j)
  <2>1. 1 \in DOMAIN importQueue
      BY <1>2
  <2>2. QED
      BY <1>5, <2>1 DEF Waits
<1> HIDE DEF Waits, IsInHand, IsUnlinked
<1>13. OnTheWay'
    BY <1>1, <1>9, <1>11 DEF OnTheWay, AtWork, Marking, SaysQueued, HasFile
<1>14. Known'
    BY <1>1, <1>10, <1>12 DEF Known
<1>15. QED
    BY <1>6, <1>7, <1>8, <1>13, <1>14 DEF ImportInv

(* The worker moves on within the job it has in hand: what it no longer    *)
(* has in hand is adrift if a startDryRun is to set QUEUED, and its row    *)
(* says so itself only if there is work for it.                            *)
LEMMA MovesWell ==
    ASSUME ImportInv, importer # NoTask,
           importer' \in Working, importer'.task = importer.task, importer'.at <= Length + 3,
           importer'.imported + importer'.skipped + importer'.errors <= Length,
           Tally', ImportedOnce', CompletedIsImported',
           entries' \in [Rows -> Nat],
           import' \in [Imports -> ImportJob \cup {NoImport}],
           \A j \in Imports \ {The} : import'[j] = import[j],
           import[The] = NoImport => import'[The] = NoImport,
           disk' \subseteq disk, disk \ {The} \subseteq disk', aux_adrift \subseteq aux_adrift',
           \A c \in Callers : Marking(c, The) => AtWork(The)',
           SaysQueued(The)' => AtWork(The)' \/ (HasFile(The)' /\ ~ IsUnlinked(The)'),
           UNCHANGED <<importQueue, starting, uploaded>>
    PROVE  ImportInv'
<1>1. The' = The /\ Length' = Length /\ importer' # NoTask
    BY ImportAssumption DEF The, Length
<1>2. ImportTypeOK /\ Known /\ OnTheWay /\ Length \in Nat /\ The \in Imports
    BY Hands DEF ImportInv
<1>3. ImportTypeOK'
  <2>1. \A j \in Imports \ uploaded' : import'[j] = NoImport
      BY <1>2 DEF ImportTypeOK
  <2>2. importer'.at <= Length' + 3
      BY <1>1
  <2>3. disk' \subseteq uploaded'
      BY <1>2 DEF ImportTypeOK
  <2> HIDE DEF Length, Working, Task
  <2>4. QED
      BY <1>1, <1>2, <2>1, <2>2, <2>3 DEF ImportTypeOK
<1>4. \A j : (Waits(j)' <=> Waits(j)) /\ \A c : (Marking(c, j)' <=> Marking(c, j))
    BY DEF Waits, Marking
<1>5. Known'
    BY <1>1, <1>2, <1>4 DEF Known
<1>6. \A j : j # The => ~ IsInHand(j) /\ ~ IsUnlinked(j)'
    BY <1>1 DEF IsInHand, IsUnlinked
<1>7. \A j : j # The => (AtWork(j) => AtWork(j)')
    BY <1>4, <1>6 DEF AtWork
<1>8. \A j \in Imports : j # The => /\ SaysQueued(j)' <=> SaysQueued(j)
                                    /\ HasFile(j) => HasFile(j)'
    BY DEF SaysQueued, HasFile
<1>9. OnTheWay'
  <2>1. ASSUME NEW c \in Callers, NEW j \in Imports, Marking(c, j)'
        PROVE  AtWork(j)'
    <3>1. CASE j = The
        BY <1>1, <1>4, <2>1, <3>1
    <3>2. CASE j # The
        BY <1>2, <1>4, <1>7, <2>1, <3>2 DEF OnTheWay
    <3>3. QED
        BY <3>1, <3>2
  <2>2. ASSUME NEW j \in Imports, SaysQueued(j)'
        PROVE  AtWork(j)' \/ (HasFile(j)' /\ ~ IsUnlinked(j)')
    <3>1. CASE j = The
        BY <1>1, <2>2, <3>1
    <3>2. CASE j # The
        BY <1>2, <1>6, <1>7, <1>8, <2>2, <3>2 DEF OnTheWay
    <3>3. QED
        BY <3>1, <3>2
  <2>3. QED
      BY <2>1, <2>2 DEF OnTheWay
<1>10. QED
    BY <1>3, <1>5, <1>9 DEF ImportInv

(* The worker is past its last update: this is the status it leaves, and   *)
(* the path.                                                               *)
Ends(s, f) ==
    /\ LastUpdate
    /\ import' = [import EXCEPT ![The].status = s, ![The].filePath = f]
    /\ s = "COMPLETED" => \A i \in DOMAIN File[The] : entries[File[The][i]] > 0
    /\ aux_adrift' = IF Overtaking THEN aux_adrift \cup {The} ELSE aux_adrift
    /\ UNCHANGED <<uploaded, disk, starting, importQueue, entries>>

(* Past the last update the counters and the task stay.                    *)
LEMMA LastUpdateMoves ==
    ASSUME ImportInv, importer # NoTask, LastUpdate
    PROVE  /\ importer' \in Working /\ importer'.task = importer.task
           /\ importer'.at = Length + 2 /\ importer'.at <= Length + 3
           /\ importer'.imported + importer'.skipped + importer'.errors <= Length
           /\ Tally'
<1>1. importer \in Working /\ Length \in Nat /\ ImportTypeOK
    BY Hands DEF ImportInv
<1>2. /\ importer' \in Working /\ importer'.task = importer.task
      /\ importer'.at = Length + 2 /\ importer'.imported = importer.imported
      /\ importer'.skipped = importer.skipped /\ importer'.errors = importer.errors
    BY <1>1 DEF LastUpdate, Working
<1>3. The' = The /\ Length' = Length
    BY <1>2 DEF The, Length
<1>4. Tally'
    BY <1>1, <1>2, <1>3 DEF Tally
<1>5. importer.imported + importer.skipped + importer.errors <= Length
    BY <1>1 DEF ImportTypeOK
<1>6. QED
    BY <1>1, <1>2, <1>4, <1>5

(* A last update sets a status other than QUEUED; a startDryRun that has   *)
(* yet to return finds the job adrift.                                     *)
LEMMA EndsWell ==
    ASSUME ImportInv, importer # NoTask, import[The] # NoImport,
           NEW s \in ImportStatus \ {"QUEUED"}, NEW f \in BOOLEAN, Ends(s, f)
    PROVE  ImportInv'
<1>1. /\ The \in Imports /\ import \in [Imports -> ImportJob \cup {NoImport}]
      /\ entries' = entries /\ entries \in [Rows -> Nat]
    BY Hands DEF ImportInv, ImportTypeOK, Ends
<1>2. /\ importer' \in Working /\ importer'.task = importer.task /\ importer'.at <= Length + 3
      /\ importer'.imported + importer'.skipped + importer'.errors <= Length
      /\ Tally' /\ The' = The
    BY LastUpdateMoves DEF Ends, The
<1>3. /\ import' \in [Imports -> ImportJob \cup {NoImport}]
      /\ \A j \in Imports \ {The} : import'[j] = import[j]
      /\ import'[The].status = s
  <2> DEFINE new == [[import[The] EXCEPT !.status = s] EXCEPT !.filePath = f]
  <2>1. new \in ImportJob /\ new.status = s
      BY <1>1 DEF ImportJob
  <2>2. import' = [import EXCEPT ![The] = new]
      BY <1>1 DEF ImportJob, Ends
  <2> HIDE DEF new
  <2>3. QED
      BY <1>1, <2>1, <2>2
<1>4. ImportedOnce' /\ CompletedIsImported'
  <2>1. \A j \in Imports : import'[j] # NoImport /\ import'[j].status = "COMPLETED" =>
            \A i \in DOMAIN File[j] : entries[File[j][i]] > 0
      BY <1>3 DEF ImportInv, CompletedIsImported, Ends
  <2>2. QED
      BY <1>1, <2>1 DEF ImportInv, ImportedOnce, CompletedIsImported
<1>5. \A c \in Callers : Marking(c, The) => AtWork(The)'
    BY <1>2 DEF Marking, AtWork, Overtaking, Ends
<1>6. ~ SaysQueued(The)'
    BY <1>2, <1>3 DEF SaysQueued
<1>7. aux_adrift \subseteq aux_adrift'
    BY DEF Ends
<1>8. QED
    BY <1>1, <1>2, <1>3, <1>4, <1>5, <1>6, <1>7, MovesWell DEF Ends

(* So does the catch block, which leaves the file's path.                  *)
LEMMA FailsWell ==
    ASSUME ImportInv, FailImport
    PROVE  ImportInv'
<1> DEFINE f == import[The].filePath
<1>1. /\ importer # NoTask /\ LastUpdate /\ import[The] # NoImport
      /\ import' = [import EXCEPT ![The].status = "FAILED"]
      /\ aux_adrift' = IF Overtaking THEN aux_adrift \cup {The} ELSE aux_adrift
      /\ UNCHANGED <<uploaded, disk, starting, importQueue, entries>>
    BY DEF FailImport, Throws, SetImport
<1>2. /\ The \in Imports /\ import \in [Imports -> ImportJob \cup {NoImport}]
    BY <1>1, Hands DEF ImportInv, ImportTypeOK
<1>3. import[The] \in ImportJob /\ f \in BOOLEAN
    BY <1>1, <1>2 DEF ImportJob
<1>4. import' = [import EXCEPT ![The].status = "FAILED", ![The].filePath = f]
    BY <1>1, <1>2, <1>3 DEF ImportJob
<1> HIDE DEF f
<1>5. Ends("FAILED", f)
    BY <1>1, <1>4 DEF Ends
<1>6. QED
    BY <1>1, <1>3, <1>5, EndsWell DEF ImportStatus

(* A job left without a last update is adrift.                             *)
LEMMA LeavesWell ==
    ASSUME ImportInv, LeaveImport
    PROVE  ImportInv'
<1>1. /\ importer # NoTask /\ LastUpdate /\ aux_adrift' = aux_adrift \cup {The}
      /\ UNCHANGED <<import, uploaded, disk, starting, importQueue, entries>>
    BY DEF LeaveImport
<1>2. /\ importer' \in Working /\ importer'.task = importer.task /\ importer'.at <= Length + 3
      /\ importer'.imported + importer'.skipped + importer'.errors <= Length
      /\ Tally' /\ The' = The
    BY <1>1, LastUpdateMoves DEF The
<1>3. ImportedOnce' /\ CompletedIsImported' /\ ImportTypeOK
    BY <1>1, SameEntries DEF ImportInv
<1>4. AtWork(The)'
    BY <1>1, <1>2 DEF AtWork
<1>5. QED
    BY <1>1, <1>2, <1>3, <1>4, MovesWell DEF ImportTypeOK

(* The unlink takes no work away: a row that says QUEUED by then was       *)
(* marked by a call whose job waits or was overtaken.                      *)
LEMMA CleansUpWell ==
    ASSUME ImportInv, CleanUp
    PROVE  ImportInv'
<1>1. /\ importer # NoTask /\ importer.at = Length + 2 /\ disk' = disk \ {The}
      /\ importer' = [importer EXCEPT !.at = Length + 3]
      /\ UNCHANGED <<import, uploaded, starting, importQueue, entries, aux_adrift>>
    BY DEF CleanUp
<1>2. /\ importer \in Working /\ Length \in Nat /\ The \in Imports /\ ImportTypeOK /\ OnTheWay
    BY <1>1, Hands DEF ImportInv
<1>3. /\ importer' \in Working /\ importer'.task = importer.task
      /\ importer'.at = Length + 3 /\ importer'.imported = importer.imported
      /\ importer'.skipped = importer.skipped /\ importer'.errors = importer.errors
    BY <1>1, <1>2 DEF Working
<1>4. The' = The /\ Length' = Length
    BY <1>3 DEF The, Length
<1>5. Tally'
    BY <1>2, <1>3, <1>4 DEF Tally
<1>6. importer'.imported + importer'.skipped + importer'.errors <= Length
    BY <1>1, <1>2, <1>3 DEF ImportTypeOK
<1>7. ImportedOnce' /\ CompletedIsImported'
    BY <1>1, SameEntries
<1>8. IsUnlinked(The) /\ ~ IsInHand(The)
    BY <1>1, <1>2 DEF IsUnlinked, IsInHand
<1>9. AtWork(The) => AtWork(The)'
    BY <1>1, <1>4, <1>8 DEF AtWork, Waits
<1>10. /\ \A c \in Callers : Marking(c, The) => AtWork(The)'
       /\ SaysQueued(The)' => AtWork(The)'
    BY <1>1, <1>2, <1>4, <1>8, <1>9 DEF OnTheWay, SaysQueued
<1>11. QED
    BY <1>1, <1>2, <1>3, <1>5, <1>6, <1>7, <1>10, MovesWell DEF ImportTypeOK

(* Reading the file sets a status other than QUEUED and COMPLETED, and     *)
(* starts at the first row.                                                *)
LEMMA ReadsWell ==
    ASSUME ImportInv, ReadFile
    PROVE  ImportInv'
<1> DEFINE s == IF importer.task.dry THEN "DRY_RUN" ELSE "PROCESSING"
           new == [import[The] EXCEPT !.status = s]
<1>1. /\ importer # NoTask /\ importer.at = 0 /\ import[The] # NoImport /\ ImportTypeOK
      /\ importer' = [importer EXCEPT !.at = 1]
      /\ UNCHANGED <<uploaded, disk, starting, importQueue, entries, aux_adrift>>
    BY DEF ReadFile, ImportInv
<1>2. /\ importer \in Working /\ The \in Imports /\ Length \in Nat
      /\ import \in [Imports -> ImportJob \cup {NoImport}]
    BY <1>1, Hands DEF ImportTypeOK
<1>3. new \in ImportJob /\ new.status \notin {"QUEUED", "COMPLETED"}
    BY <1>1, <1>2 DEF ImportJob, ImportStatus
<1>4. import' = [import EXCEPT ![The] = new]
    BY <1>1, <1>2 DEF ReadFile, SetImport
<1> HIDE DEF new
<1>5. /\ importer' \in Working /\ importer'.task = importer.task /\ importer'.at = 1
      /\ importer'.imported = importer.imported /\ importer'.skipped = importer.skipped
      /\ importer'.errors = importer.errors
    BY <1>1, <1>2 DEF Working
<1>6. The' = The /\ Length' = Length /\ importer' # NoTask
    BY <1>5, ImportAssumption DEF The, Length
<1>7. importer.imported + importer.skipped + importer.errors = 0
    BY <1>1 DEF ImportInv, Tally
<1>8. \A i \in DOMAIN File[The] : ~ (i < 1)
    BY <1>2, FileRows
<1>9. Tally'
  <2>1. 1 \in 1 .. Length + 1 /\ 1 - 1 = 0
      BY <1>2
  <2>2. QED
      BY <1>5, <1>6, <1>7, <1>8, <2>1 DEF Tally
<1>10. /\ import' \in [Imports -> ImportJob \cup {NoImport}]
       /\ \A j \in Imports \ {The} : import'[j] = import[j]
       /\ import'[The] = new
    BY <1>2, <1>3, <1>4
<1>11. ImportedOnce' /\ CompletedIsImported'
  <2>1. \A j \in Imports : import'[j] # NoImport /\ import'[j].status = "COMPLETED" =>
            import[j] # NoImport /\ import[j].status = "COMPLETED"
      BY <1>3, <1>10
  <2>2. QED
      BY <1>1, <2>1, SameEntries
<1>12. AtWork(The)' /\ importer'.at <= Length + 3
  <2>1. importer'.at <= Length' + 1 /\ importer'.at <= Length + 3
      BY <1>2, <1>5, <1>6
  <2>2. QED
      BY <1>6, <2>1 DEF AtWork, IsInHand
<1>13. importer'.imported + importer'.skipped + importer'.errors <= Length
    BY <1>2, <1>5, <1>7
<1>14. QED
    BY <1>1, <1>5, <1>6, <1>9, <1>10, <1>11, <1>12, <1>13, MovesWell DEF ImportTypeOK

(* A row adds an entry only where none was found, and is counted by what   *)
(* came of it.                                                             *)
LEMMA RowsWell ==
    ASSUME ImportInv, ImportRow
    PROVE  ImportInv'
<1> DEFINE r == File[The][importer.at]
           result == RowResult(r, importer.task)
<1>1. /\ importer # NoTask /\ importer.at \in DOMAIN File[The] /\ ImportTypeOK
      /\ UNCHANGED <<import, uploaded, disk, starting, importQueue, aux_adrift>>
      /\ result # "throws"
      /\ entries' = IF result = "created" THEN [entries EXCEPT ![r] = @ + 1] ELSE entries
    BY DEF ImportRow, ImportInv, AtRow, Result
<1>2. /\ importer \in Working /\ importer.task \in Task /\ The \in Imports /\ Length \in Nat
      /\ importer.at \in 1 .. Length /\ r \in Rows /\ entries \in [Rows -> Nat]
      /\ importer.imported \in Nat /\ importer.skipped \in Nat /\ importer.errors \in Nat
    BY <1>1, Hands, FileRows DEF Length, ImportTypeOK
<1>3. /\ result \in {"error", "imported", "skipped", "created"}
      /\ result = "created" => ~ Found(r) /\ ~ importer.task.dry
      /\ result = "imported" /\ ~ importer.task.dry => entries[r] > 0
    BY <1>1, <1>2, Results
<1>4. importer' = [importer EXCEPT !.at = @ + 1,
          !.imported = @ + IF result \in {"imported", "created"} THEN 1 ELSE 0,
          !.skipped = @ + IF result = "skipped" THEN 1 ELSE 0,
          !.errors = @ + IF result = "error" THEN 1 ELSE 0]
    BY DEF ImportRow, Result
<1> HIDE DEF result, r
<1>5. /\ importer' \in Working /\ importer'.task = importer.task
      /\ importer'.at = importer.at + 1
      /\ importer'.imported = importer.imported + IF result \in {"imported", "created"} THEN 1 ELSE 0
      /\ importer'.skipped = importer.skipped + IF result = "skipped" THEN 1 ELSE 0
      /\ importer'.errors = importer.errors + IF result = "error" THEN 1 ELSE 0
  <2> DEFINE a == IF result \in {"imported", "created"} THEN 1 ELSE 0
             b == IF result = "skipped" THEN 1 ELSE 0
             c == IF result = "error" THEN 1 ELSE 0
  <2>1. a \in Nat /\ b \in Nat /\ c \in Nat
      OBVIOUS
  <2>2. importer' = [task |-> importer.task, at |-> importer.at + 1,
           imported |-> importer.imported + a, skipped |-> importer.skipped + b,
           errors |-> importer.errors + c]
      BY <1>2, <1>4 DEF Working
  <2> HIDE DEF a, b, c
  <2>3. /\ importer.at + 1 \in Nat /\ importer.imported + a \in Nat
        /\ importer.skipped + b \in Nat /\ importer.errors + c \in Nat
      BY <1>2, <2>1
  <2>4. /\ importer' \in Working /\ importer'.task = importer.task
        /\ importer'.at = importer.at + 1 /\ importer'.imported = importer.imported + a
        /\ importer'.skipped = importer.skipped + b /\ importer'.errors = importer.errors + c
      BY <1>2, <2>1, <2>2, <2>3 DEF Working
  <2>5. QED
      BY <2>4 DEF a, b, c
<1>6. importer.imported + importer.skipped + importer.errors = importer.at - 1
    BY <1>1, <1>2 DEF ImportInv, Tally
<1>7. importer'.imported + importer'.skipped + importer'.errors = importer'.at - 1
    BY <1>2, <1>3, <1>5, <1>6
<1>8. The' = The /\ Length' = Length
    BY <1>5 DEF The, Length
<1>9. entries' \in [Rows -> Nat] /\ \A q \in Rows : entries'[q] >= entries[q]
    BY <1>1, <1>2
<1>10. Tally'
  <2>1. ASSUME ~ importer.task.dry, importer'.errors = 0, importer'.skipped = 0,
               NEW i \in DOMAIN File[The], i < importer.at + 1
        PROVE  entries'[File[The][i]] > 0
    <3>1. result \in {"imported", "created"} /\ importer.errors = 0 /\ importer.skipped = 0
        BY <1>2, <1>3, <1>5, <2>1
    <3>2. File[The][i] \in Rows /\ i \in Nat /\ importer.at \in Nat
        BY <1>2, FileRows
    <3>3. CASE i < importer.at
      <4>1. entries[File[The][i]] > 0
          BY <1>1, <1>2, <2>1, <3>1, <3>3 DEF ImportInv, Tally
      <4>2. QED
          BY <1>2, <1>9, <3>2, <4>1
    <3>4. CASE i = importer.at
      <4>1. File[The][i] = r
          BY <3>4 DEF r
      <4>2. entries'[r] > 0
          BY <1>1, <1>2, <1>3, <2>1, <3>1
      <4>3. QED
          BY <4>1, <4>2
    <3>5. QED
        BY <2>1, <3>2, <3>3, <3>4
  <2>2. importer'.at # 0
      BY <1>2, <1>5
  <2>3. QED
      BY <1>5, <1>7, <1>8, <2>1, <2>2 DEF Tally
<1>11. ImportedOnce'
  <2>1. ASSUME NEW q \in Rows \ Unmatched PROVE entries'[q] <= 1
    <3>1. entries[q] <= 1 /\ entries[q] \in Nat
        BY <1>2 DEF ImportInv, ImportedOnce
    <3>2. CASE result = "created" /\ q = r
      <4>1. entries[q] = 0
          BY <1>3, <3>1, <3>2 DEF Found
      <4>2. QED
          BY <1>1, <1>2, <3>2, <4>1
    <3>3. CASE ~ (result = "created" /\ q = r)
        BY <1>1, <1>2, <3>1, <3>3
    <3>4. QED
        BY <3>2, <3>3
  <2>2. QED
      BY <2>1 DEF ImportedOnce
<1>12. CompletedIsImported'
  <2>1. ASSUME NEW j \in Imports, import[j] # NoImport, import[j].status = "COMPLETED",
               NEW i \in DOMAIN File[j]
        PROVE  entries'[File[j][i]] > 0
    <3>1. entries[File[j][i]] > 0 /\ File[j][i] \in Rows
        BY <2>1, FileRows DEF ImportInv, CompletedIsImported
    <3>2. QED
        BY <1>2, <1>9, <3>1
  <2>2. QED
      BY <1>1, <2>1 DEF CompletedIsImported
<1>13. /\ importer'.at <= Length + 3 /\ AtWork(The)'
       /\ importer'.imported + importer'.skipped + importer'.errors <= Length
  <2>1. /\ importer'.at <= Length' + 1 /\ importer'.at <= Length + 3
        /\ importer'.imported + importer'.skipped + importer'.errors <= Length
      BY <1>2, <1>5, <1>7, <1>8
  <2>2. importer' # NoTask
      BY <1>5, ImportAssumption
  <2>3. QED
      BY <1>8, <2>1, <2>2 DEF AtWork, IsInHand
<1>14. QED
    BY <1>1, <1>5, <1>9, <1>10, <1>11, <1>12, <1>13, MovesWell DEF ImportTypeOK

(* COMPLETED is only said of a commit that skipped and refused nothing.    *)
LEMMA FinishesWell ==
    ASSUME ImportInv, FinishImport
    PROVE  ImportInv'
<1> DEFINE f == import[The].filePath /\ ~ importer.task.dry
<1>1. /\ importer # NoTask /\ importer.at = Length + 1 /\ ImportTypeOK
      /\ import[The] # NoImport /\ LastUpdate
      /\ aux_adrift' = IF Overtaking THEN aux_adrift \cup {The} ELSE aux_adrift
      /\ UNCHANGED <<uploaded, disk, starting, importQueue, entries>>
    BY DEF FinishImport, ImportInv
<1>2. /\ The \in Imports /\ Length \in Nat /\ importer.errors \in Nat /\ importer.skipped \in Nat
      /\ import \in [Imports -> ImportJob \cup {NoImport}] /\ importer.task.dry \in BOOLEAN
    BY <1>1, Hands DEF ImportTypeOK
<1>3. f \in BOOLEAN /\ Outcome \in ImportStatus \ {"QUEUED"}
    BY <1>1, <1>2 DEF ImportJob, Outcome, ImportStatus
<1>4. ASSUME Outcome = "COMPLETED", NEW i \in DOMAIN File[The]
      PROVE  entries[File[The][i]] > 0
  <2>1. ~ importer.task.dry /\ importer.errors = 0 /\ importer.skipped = 0
      BY <1>2, <1>4 DEF Outcome
  <2>2. i < importer.at /\ importer.at <= Length + 1
      BY <1>1, <1>2, <1>4, FileRows DEF Length
  <2>3. QED
      BY <1>1, <1>4, <2>1, <2>2 DEF ImportInv, Tally
<1>5. import' = [import EXCEPT ![The].status = Outcome, ![The].filePath = f]
  <2>1. import[The] \in ImportJob
      BY <1>1, <1>2
  <2>2. QED
      BY <1>1, <1>2, <2>1 DEF FinishImport, ImportJob
<1> HIDE DEF f
<1>6. Ends(Outcome, f)
    BY <1>1, <1>4, <1>5 DEF Ends
<1>7. QED
    BY <1>1, <1>3, <1>6, EndsWell

(* What is acknowledged was over; what crashes is handed out again.        *)
LEMMA AckWell ==
    ASSUME ImportInv, AckImport
    PROVE  ImportInv'
<1>1. /\ importer # NoTask /\ importer.at = Length + 3 /\ importer' = NoTask /\ ImportTypeOK
      /\ UNCHANGED <<import, uploaded, disk, starting, importQueue, entries, aux_adrift>>
    BY DEF AckImport, ImportInv
<1>2. ImportTypeOK' /\ Tally'
    BY <1>1 DEF ImportTypeOK, Tally
<1>3. ImportedOnce' /\ CompletedIsImported'
    BY <1>1, SameEntries
<1>4. \A j : ~ IsInHand(j) /\ ~ IsUnlinked(j)' /\ (Waits(j)' <=> Waits(j))
  <2>1. ~ (importer.at <= Length + 1)
      BY <1>1, Hands
  <2>2. QED
      BY <1>1, <2>1 DEF IsInHand, IsUnlinked, Waits
<1>5. OnTheWay /\ Known
    BY DEF ImportInv
<1> HIDE DEF Waits, IsInHand, IsUnlinked
<1>6. OnTheWay' /\ Known'
    BY <1>1, <1>4, <1>5 DEF OnTheWay, Known, AtWork, Marking, SaysQueued, HasFile
<1>7. QED
    BY <1>2, <1>3, <1>6 DEF ImportInv

LEMMA CrashWell ==
    ASSUME ImportInv, CrashImport
    PROVE  ImportInv'
<1> DEFINE back == <<importer.task>> \o importQueue
<1>1. /\ importer # NoTask /\ importer' = NoTask /\ importQueue' = back /\ ImportTypeOK
      /\ UNCHANGED <<import, uploaded, disk, starting, entries, aux_adrift>>
    BY DEF CrashImport, ImportInv
<1>2. importer.task \in Task /\ importQueue \in Seq(Task)
    BY <1>1, Hands DEF ImportTypeOK
<1>3. /\ back \in Seq(Task) /\ Len(importQueue) \in Nat
      /\ DOMAIN importQueue = 1 .. Len(importQueue)
      /\ DOMAIN back = 1 .. Len(importQueue) + 1 /\ back[1] = importer.task
      /\ \A i \in 1 .. Len(importQueue) : back[i + 1] = importQueue[i]
  <2>1. <<importer.task>> \in Seq(Task) /\ Len(<<importer.task>>) = 1
      BY <1>2
  <2>2. QED
      BY <1>2, <2>1
<1> HIDE DEF back
<1>4. ImportTypeOK' /\ Tally'
    BY <1>1, <1>3 DEF ImportTypeOK, Tally
<1>5. ImportedOnce' /\ CompletedIsImported'
    BY <1>1, SameEntries
<1>6. \A j : IsInHand(j) => Waits(j)'
  <2>1. 1 \in DOMAIN back
      BY <1>3
  <2>2. QED
      BY <1>1, <1>3, <2>1 DEF IsInHand, Waits, The
<1>7. ASSUME NEW j, Waits(j) PROVE Waits(j)'
  <2>1. PICK i \in 1 .. Len(importQueue) : importQueue[i].job = j
      BY <1>3, <1>7 DEF Waits
  <2>2. i + 1 \in DOMAIN back /\ back[i + 1] = importQueue[i]
      BY <1>3
  <2>3. QED
      BY <1>1, <2>1, <2>2 DEF Waits
<1>8. ASSUME NEW j, Waits(j)' PROVE Waits(j) \/ The = j
  <2>1. PICK i \in 1 .. Len(importQueue) + 1 : back[i].job = j
      BY <1>1, <1>3, <1>8 DEF Waits
  <2>2. CASE i = 1
      BY <1>3, <2>1, <2>2 DEF The
  <2>3. CASE i # 1
    <3>1. i - 1 \in 1 .. Len(importQueue) /\ i = (i - 1) + 1
        BY <1>3, <2>3
    <3>2. importQueue[i - 1].job = j
        BY <1>3, <2>1, <3>1
    <3>3. QED
        BY <1>3, <3>1, <3>2 DEF Waits
  <2>4. QED
      BY <2>2, <2>3
<1>9. \A j : ~ IsUnlinked(j)'
    BY <1>1 DEF IsUnlinked
<1>10. OnTheWay /\ Known
    BY DEF ImportInv
<1> HIDE DEF Waits, IsInHand, IsUnlinked
<1>11. \A j : AtWork(j) => AtWork(j)'
    BY <1>1, <1>6, <1>7 DEF AtWork
<1>12. OnTheWay'
    BY <1>1, <1>9, <1>10, <1>11 DEF OnTheWay, Marking, SaysQueued, HasFile
<1>13. Known'
    BY <1>1, <1>8, <1>10 DEF Known
<1>14. QED
    BY <1>4, <1>5, <1>12, <1>13 DEF ImportInv
-----------------------------------------------------------------------------
(* Every behaviour of the import jobs stays within ImportInv.              *)
THEOREM ImportCorrect == ImportSpec => []ImportInv
<1>1. ImportInit => ImportInv
  <2> SUFFICES ASSUME ImportInit PROVE ImportInv
      OBVIOUS
  <2>1. /\ importer = NoTask /\ \A j \in Imports : import[j] = NoImport
        /\ importQueue = << >> /\ \A c \in Callers : starting[c] = NoTask
        /\ entries \in [Rows -> Nat] /\ \A r \in Rows : entries[r] <= 1
      BY DEF ImportInit
  <2>2. ImportTypeOK
      BY <2>1 DEF ImportInit, ImportTypeOK
  <2>3. Known /\ OnTheWay
      BY <2>1 DEF Known, OnTheWay, Waits, Marking, SaysQueued
  <2>4. QED
      BY <2>1, <2>2, <2>3 DEF ImportInv, Tally, ImportedOnce, CompletedIsImported
<1>2. ImportInv /\ [ImportNext]_importVars => ImportInv'
  <2> SUFFICES ASSUME ImportInv, [ImportNext]_importVars PROVE ImportInv'
      OBVIOUS
  <2>1. CASE UNCHANGED importVars
      BY <2>1 DEF importVars, ImportInv, ImportTypeOK, Known, Tally, ImportedOnce,
                  CompletedIsImported, OnTheWay, AtWork, Waits, IsInHand, IsUnlinked,
                  Marking, SaysQueued, HasFile, The, Length
  <2>2. CASE ImportWorker
      BY <2>2, TakesWell, ReadsWell, RowsWell, FinishesWell, FailsWell, LeavesWell,
         CleansUpWell, AckWell DEF ImportWorker
  <2>3. CASE CrashImport
      BY <2>3, CrashWell
  <2>4. CASE \E j \in Imports : Upload(j) \/ DeleteImport(j)
      BY <2>4, UploadsWell, DeletesWell
  <2>5. ASSUME NEW c \in Callers, NEW j \in Imports, import[j] # NoImport
        PROVE  /\ AsKept(j, TRUE) \in Task /\ AsKept(j, FALSE) \in Task
               /\ \A mode \in Mode, entity \in Entity :
                     [job |-> j, dry |-> TRUE, mode |-> mode, entity |-> entity] \in Task
    <3>1. import[j] \in ImportJob
        BY <2>5 DEF ImportInv, ImportTypeOK
    <3>2. QED
        BY <3>1 DEF AsKept, Task, ImportJob
  <2>6. ASSUME NEW c \in Callers, NEW j \in Imports, import[j] # NoImport,
               \/ CommitImport(c, j) \/ RepeatDryRun(c, j)
               \/ \E mode \in Mode, entity \in Entity : StartDryRun(c, j, mode, entity)
        PROVE  ImportInv'
      BY <2>5, <2>6, ReadsRowWell DEF CommitImport, RepeatDryRun, StartDryRun
  <2>7. ASSUME NEW c \in Callers,
               KeepImport(c) \/ QueueImport(c) \/ MarkQueued(c) \/ CallEnds(c)
        PROVE  ImportInv'
      BY <2>7, KeepsWell, QueuesWell, MarksWell, EndsEarlyWell
  <2>8. QED
      BY <2>1, <2>2, <2>3, <2>4, <2>6, <2>7 DEF ImportNext
<1>3. QED
    BY <1>1, <1>2, PTL DEF ImportSpec

(* However often the same rows are uploaded, committed and, after a crash, *)
(* imported again, no entry that can be found is made twice.               *)
THEOREM NothingTwice == ImportSpec => []ImportedOnce
BY ImportCorrect, PTL DEF ImportInv

(* A job is called COMPLETED only when every row of its file has its entry.*)
THEOREM CompletedMeansImported == ImportSpec => []CompletedIsImported
BY ImportCorrect, PTL DEF ImportInv

(* A started job that calls itself QUEUED is queued or in hand, unless its *)
(* work was over before a startDryRun set QUEUED, or ended without a last  *)
(* update.                                                                 *)
THEOREM QueuedIsWorkedOn == ImportSpec => []QueuedHasWork
<1>1. ImportInv => QueuedHasWork
    BY DEF ImportInv, OnTheWay, QueuedHasWork, AtWork, IsInHand, Waits, SaysQueued, HasFile
<1>2. QED
    BY <1>1, ImportCorrect, PTL
=============================================================================
