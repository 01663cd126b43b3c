----------------------------- MODULE DsgvoJobs -----------------------------
(***************************************************************************)
(* Erasure and export of one person's data: DataDeletionService and        *)
(* DataExportService keep a DsgvoJob row and a BullMQ job each in a store  *)
(* of its own, one worker per queue does the jobs, and the person goes on  *)
(* being written about meanwhile.                                          *)
(***************************************************************************)
EXTENDS Integers, Sequences, FiniteSets

CONSTANTS
    DsgvoIds,           \* DsgvoJob ids
    MaxDsgvoFaults,     \* bound: crashes of the API process, calls to Redis
                        \* and updates of a row that are rejected
    NoDsgvo

JobType == {"DATA_DELETION", "DATA_EXPORT"}
DsgvoStatus == {"QUEUED", "PROCESSING", "COMPLETED", "FAILED"}
Data == {"person", "basis", "message", "note"}      \* what can name the person
Exported == {"person", "message"}                   \* what generateExport finds

DsgvoJob == [type : JobType, status : DsgvoStatus, result : SUBSET Exported]
Request == [type : JobType, job : DsgvoIds, at : {"loaded", "free", "created"}]
Doing == [job : DsgvoIds, at : 0 .. 4, read : SUBSET Exported]

ASSUME DsgvoAssumption ==
    /\ NoDsgvo \notin DsgvoIds \cup DsgvoJob \cup Doing
    /\ MaxDsgvoFaults \in Nat

VARIABLES
    dsgvo,          \* the DsgvoJob rows of the person
    asking,         \* request calls that have loaded the person: [type, job, at]
    dsgvoQueue,     \* the two BullMQ queues
    dsgvoWorker,    \* their two workers: [job, at, read]
    anonymised,     \* Person.isAnonymized
    plain,          \* the kinds of rows that still name the person
    granting,       \* a consent call after its read: the legal basis it read
    dsgvoFaults,
    stalled,        \* BullMQ jobs that were handed out a second time
    aux_lost        \* auxiliary: rows that a fault parted from their BullMQ job

dsgvoVars == <<dsgvo, asking, dsgvoQueue, dsgvoWorker, anonymised, plain,
               granting, dsgvoFaults, stalled, aux_lost>>

DsgvoInit ==
    /\ dsgvo = [j \in DsgvoIds |-> NoDsgvo]
    /\ asking = {} /\ granting = NoDsgvo
    /\ dsgvoQueue = [t \in JobType |-> << >>]
    /\ dsgvoWorker = [t \in JobType |-> NoDsgvo]
    /\ anonymised = FALSE /\ plain = Data
    /\ dsgvoFaults = 0 /\ stalled = {} /\ aux_lost = {}

SetDsgvo(j, s) == dsgvo' = [dsgvo EXCEPT ![j].status = s]

(* A fault after which nobody works for these rows any more.               *)
Fault(jobs) ==
    /\ dsgvoFaults < MaxDsgvoFaults
    /\ dsgvoFaults' = dsgvoFaults + 1
    /\ aux_lost' = aux_lost \cup jobs
-----------------------------------------------------------------------------
Pending(t) ==
    \E j \in DsgvoIds : /\ dsgvo[j] # NoDsgvo
                        /\ dsgvo[j].type = t /\ dsgvo[j].status \in {"QUEUED", "PROCESSING"}

(* requestDeletion, requestExport: the person, under the id of the row to  *)
(* be ...                                                                  *)
Ask(t, j) ==
    /\ t = "DATA_DELETION" => ~ anonymised
    /\ dsgvo[j] = NoDsgvo /\ \A c \in asking : c.job # j
    /\ asking' = asking \cup {[type |-> t, job |-> j, at |-> "loaded"]}
    /\ UNCHANGED <<dsgvo, dsgvoQueue, dsgvoWorker, anonymised, plain, granting, dsgvoFaults, stalled, aux_lost>>

(* ... the check for a pending job ...                                     *)
CheckPending(c) ==
    /\ c.at = "loaded"
    /\ asking' = (asking \ {c}) \cup (IF Pending(c.type) THEN {} ELSE {[c EXCEPT !.at = "free"]})
    /\ UNCHANGED <<dsgvo, dsgvoQueue, dsgvoWorker, anonymised, plain, granting, dsgvoFaults, stalled, aux_lost>>

(* ... the row ...                                                         *)
CreateDsgvo(c) ==
    /\ c.at = "free"
    /\ dsgvo' = [dsgvo EXCEPT ![c.job] = [type |-> c.type, status |-> "QUEUED", result |-> {}]]
    /\ asking' = (asking \ {c}) \cup {[c EXCEPT !.at = "created"]}
    /\ UNCHANGED <<dsgvoQueue, dsgvoWorker, anonymised, plain, granting, dsgvoFaults, stalled, aux_lost>>

(* ... and the BullMQ job, unless queue.add rejects: nothing takes the row *)
(* back then.                                                              *)
EnqueueDsgvo(c) ==
    /\ c.at = "created"
    /\ asking' = asking \ {c}
    /\ \/ /\ dsgvoQueue' = [dsgvoQueue EXCEPT ![c.type] = Append(@, c.job)]
          /\ UNCHANGED <<dsgvoFaults, aux_lost>>
       \/ Fault({c.job}) /\ UNCHANGED dsgvoQueue
    /\ UNCHANGED <<dsgvo, dsgvoWorker, anonymised, plain, granting, stalled>>

Requesting == \/ \E t \in JobType, j \in DsgvoIds : Ask(t, j)
              \/ \E c \in asking : CheckPending(c) \/ CreateDsgvo(c) \/ EnqueueDsgvo(c)
-----------------------------------------------------------------------------
(* DeletionProcessor and ExportProcessor.  A worker has taken a job (0),   *)
(* marked it (1), loaded the person (2), erased or read the rest (3) and   *)
(* settled the row (4).                                                    *)

TakeDsgvo(t) ==
    /\ dsgvoWorker[t] = NoDsgvo
    /\ dsgvoQueue[t] # << >>
    /\ dsgvoWorker' = [dsgvoWorker EXCEPT ![t] = [job |-> Head(dsgvoQueue[t]), at |-> 0, read |-> {}]]
    /\ dsgvoQueue' = [dsgvoQueue EXCEPT ![t] = Tail(@)]
    /\ UNCHANGED <<dsgvo, asking, anonymised, plain, granting, dsgvoFaults, stalled, aux_lost>>

At(t, n) == dsgvoWorker[t] # NoDsgvo /\ dsgvoWorker[t].at = n
Goes(t, n) == dsgvoWorker' = [dsgvoWorker EXCEPT ![t].at = n]

MarkProcessing(t) ==
    /\ At(t, 0)
    /\ SetDsgvo(dsgvoWorker[t].job, "PROCESSING")
    /\ Goes(t, 1)
    /\ UNCHANGED <<asking, dsgvoQueue, anonymised, plain, granting, dsgvoFaults, stalled, aux_lost>>

LoadWhoever ==                          \* mutant: the worker does not look at isAnonymized
    /\ At("DATA_DELETION", 1)
    /\ Goes("DATA_DELETION", 2)
    /\ UNCHANGED <<dsgvo, asking, dsgvoQueue, anonymised, plain, granting, dsgvoFaults, stalled, aux_lost>>

(* anonymizePerson loads the person, and goes on if isAnonymized is unset  *)
(* (else the job fails, see below) ...                                     *)
LoadPerson ==
    /\ At("DATA_DELETION", 1) /\ ~ anonymised
    /\ Goes("DATA_DELETION", 2)
    /\ UNCHANGED <<dsgvo, asking, dsgvoQueue, anonymised, plain, granting, dsgvoFaults, stalled, aux_lost>>

(* ... then writes, one transaction.  The notes about a student and by a   *)
(* teacher are looked for under the id of the Person; the rows hold the    *)
(* ids of Student and of the Keycloak user.                                *)
Anonymize ==
    /\ At("DATA_DELETION", 2)
    /\ anonymised' = TRUE
    /\ plain' = plain \ {"person", "basis", "message"}
    /\ Goes("DATA_DELETION", 3)
    /\ UNCHANGED <<dsgvo, asking, dsgvoQueue, granting, dsgvoFaults, stalled, aux_lost>>

(* generateExport reads the person first, the messages later.              *)
ReadData(n, what) ==
    /\ At("DATA_EXPORT", n)
    /\ dsgvoWorker' = [dsgvoWorker EXCEPT !["DATA_EXPORT"].at = n + 1,
                                          !["DATA_EXPORT"].read = @ \cup (plain \cap {what})]
    /\ UNCHANGED <<dsgvo, asking, dsgvoQueue, anonymised, plain, granting, dsgvoFaults, stalled, aux_lost>>

(* The row is COMPLETED, an export's with its bundle.                      *)
Complete(t) ==
    /\ At(t, 3)
    /\ dsgvo' = [dsgvo EXCEPT ![dsgvoWorker[t].job] =
          [@ EXCEPT !.status = "COMPLETED", !.result = dsgvoWorker[t].read]]
    /\ Goes(t, 4)
    /\ UNCHANGED <<asking, dsgvoQueue, anonymised, plain, granting, dsgvoFaults, stalled, aux_lost>>

FailQuietly(t) ==                       \* mutant: the catch block does not mark the row
    /\ \E n \in 1 .. 3 : At(t, n)
    /\ Goes(t, 4)
    /\ UNCHANGED <<dsgvo, asking, dsgvoQueue, anonymised, plain, granting, dsgvoFaults, stalled, aux_lost>>

(* Whatever throws after the first update ends in the catch block; so does *)
(* a person who is anonymised already.                                     *)
Fail(t) ==
    /\ \E n \in 1 .. 3 : At(t, n)
    /\ SetDsgvo(dsgvoWorker[t].job, "FAILED")
    /\ Goes(t, 4)
    /\ UNCHANGED <<asking, dsgvoQueue, anonymised, plain, granting, dsgvoFaults, stalled, aux_lost>>

(* The first update is rejected, or the catch block's: the BullMQ job      *)
(* fails with the row as it is.                                            *)
UpdateRejected(t) ==
    /\ (\E n \in 0 .. 3 : At(t, n)) /\ Fault({dsgvoWorker[t].job})
    /\ dsgvoWorker' = [dsgvoWorker EXCEPT ![t] = NoDsgvo]
    /\ UNCHANGED <<dsgvo, asking, dsgvoQueue, anonymised, plain, granting, stalled>>

Acknowledge(t) ==
    /\ At(t, 4)
    /\ dsgvoWorker' = [dsgvoWorker EXCEPT ![t] = NoDsgvo]
    /\ UNCHANGED <<dsgvo, asking, dsgvoQueue, anonymised, plain, granting, dsgvoFaults, stalled, aux_lost>>

InHand == {dsgvoWorker[t].job : t \in {u \in JobType : dsgvoWorker[u] # NoDsgvo}}

(* The process dies: calls are lost; a job in hand is found stalled and    *)
(* handed out again, once (maxStalledCount).                               *)
CrashDsgvo ==
    /\ Fault({c.job : c \in {d \in asking : d.at = "created"}} \cup (InHand \cap stalled))
    /\ stalled' = stalled \cup InHand
    /\ asking' = {} /\ granting' = NoDsgvo
    /\ dsgvoQueue' = [t \in JobType |->
          IF dsgvoWorker[t] = NoDsgvo \/ dsgvoWorker[t].job \in stalled THEN dsgvoQueue[t]
          ELSE <<dsgvoWorker[t].job>> \o dsgvoQueue[t]]
    /\ dsgvoWorker' = [t \in JobType |-> NoDsgvo]
    /\ UNCHANGED <<dsgvo, anonymised, plain>>

DsgvoWorkers ==
    \/ \E t \in JobType : \/ TakeDsgvo(t) \/ MarkProcessing(t) \/ Complete(t) \/ Fail(t)
                          \/ UpdateRejected(t) \/ Acknowledge(t)
    \/ LoadPerson \/ Anonymize
    \/ ReadData(1, "person") \/ ReadData(2, "message")
-----------------------------------------------------------------------------
(* ConsentService.grant reads the record, then writes it with the basis it *)
(* read, if the request names none.                                        *)
ReadConsent ==
    /\ granting = NoDsgvo
    /\ granting' = IF "basis" \in plain THEN "basis" ELSE "anonymized"
    /\ UNCHANGED <<dsgvo, asking, dsgvoQueue, dsgvoWorker, anonymised, plain, dsgvoFaults, stalled, aux_lost>>

GrantConsent ==
    /\ granting # NoDsgvo
    /\ plain' = IF granting = "basis" THEN plain \cup {"basis"} ELSE plain \ {"basis"}
    /\ granting' = NoDsgvo
    /\ UNCHANGED <<dsgvo, asking, dsgvoQueue, dsgvoWorker, anonymised, dsgvoFaults, stalled, aux_lost>>

(* The account is not closed: its owner may still write.                   *)
WriteAfterwards ==
    /\ "message" \notin plain
    /\ plain' = plain \cup {"message"}
    /\ UNCHANGED <<dsgvo, asking, dsgvoQueue, dsgvoWorker, anonymised, granting, dsgvoFaults, stalled, aux_lost>>

DsgvoNext == Requesting \/ DsgvoWorkers \/ CrashDsgvo
             \/ ReadConsent \/ GrantConsent \/ WriteAfterwards

DsgvoSpec == DsgvoInit /\ [][DsgvoNext]_dsgvoVars
-----------------------------------------------------------------------------
(* Types.                                                                  *)
DsgvoTypeOK ==
    /\ dsgvo \in [DsgvoIds -> DsgvoJob \cup {NoDsgvo}]
    /\ asking \subseteq Request
    /\ dsgvoQueue \in [JobType -> Seq(DsgvoIds)]
    /\ dsgvoWorker \in [JobType -> Doing \cup {NoDsgvo}]
    /\ anonymised \in BOOLEAN /\ plain \subseteq Data
    /\ granting \in {NoDsgvo, "basis", "anonymized"}
    /\ dsgvoFaults \in Nat /\ stalled \subseteq DsgvoIds /\ aux_lost \subseteq DsgvoIds

(* Two requests that both pass the check for a pending one, and a job      *)
(* handed out twice, still erase once: one deletion at most is COMPLETED,  *)
(* and then the person is anonymised.                                      *)
ErasedOnce ==
    LET done == {j \in DsgvoIds : /\ dsgvo[j] # NoDsgvo /\ dsgvo[j].type = "DATA_DELETION"
                                  /\ dsgvo[j].status = "COMPLETED"}
    IN  Cardinality(done) <= 1 /\ (done # {} => anonymised)

(* A pending job, which bars every further request, is on its way: a call  *)
(* will queue it, it is queued, or a worker has it.  What can strand it is *)
(* one of the named faults and no interleaving of requests, workers and    *)
(* failures: a crash before queue.add or of a job handed out again before, *)
(* a rejected queue.add, a rejected update of the row's status.            *)
PendingIsOnItsWay ==
    \A j \in DsgvoIds :
        dsgvo[j] # NoDsgvo /\ dsgvo[j].status \in {"QUEUED", "PROCESSING"} =>
            \/ j \in aux_lost
            \/ \E c \in asking : c.job = j
            \/ \E t \in JobType : \/ \E i \in DOMAIN dsgvoQueue[t] : dsgvoQueue[t][i] = j
                                  \/ dsgvoWorker[t] # NoDsgvo /\ dsgvoWorker[t].job = j

(* "Phase 5: anonymize student notes referencing this person"              *)
NotesAreErased == anonymised => "note" \notin plain

(* No bundle kept from before an erasure still names the person.           *)
ExportsAreErased ==
    \A j \in DsgvoIds : dsgvo[j] # NoDsgvo /\ anonymised => "person" \notin dsgvo[j].result
=============================================================================
