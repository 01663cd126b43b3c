--------------------------- MODULE RecordsProofs ---------------------------
(***************************************************************************)
(* What holds of retention and of erasure for any number of schools,       *)
(* policies, days, requests and crashes.                                   *)
(***************************************************************************)
EXTENDS DsgvoJobs, Retention, FiniteSetTheorems, SequenceTheorems, TLAPS

-----------------------------------------------------------------------------
(* Retention.                                                              *)

(* No check is of a day to come, so what is written after it is younger    *)
(* than anything it looked for.                                            *)
RetentionInv ==
    /\ RetentionTypeOK
    /\ CheckedIsClean
    /\ \A s \in Schools, c \in Categories : aux_checked[s][c] <= day

(* What the code falls back on is what was promised.                       *)
LEMMA EffectiveIsPromised ==
    ASSUME RetentionTypeOK, NEW s \in Schools, NEW c \in Categories
    PROVE  EffectiveDays(s, c) = Promised(s, c) /\ Promised(s, c) \in Nat
BY RetentionAssumption DEF RetentionTypeOK, EffectiveDays, Promised

(* A check under way.                                                      *)
Checking == [now : 0 .. day, todo : SUBSET (Schools \X Categories), read : SUBSET Reading]

(* A check that starts, reads a policy or breaks off touches no record.    *)
LEMMA ChecksKept ==
    ASSUME RetentionInv, NEW k \in Checkers, NEW x \in Checking \cup {NoCheck},
           check' = [check EXCEPT ![k] = x], UNCHANGED <<day, policy, records, aux_checked>>
    PROVE  RetentionInv'
<1>1. check' \in [Checkers -> Checking \cup {NoCheck}]
    BY DEF RetentionInv, RetentionTypeOK, Checking
<1>2. QED
    BY <1>1 DEF RetentionInv, RetentionTypeOK, CheckedIsClean, Promised, Checking

(* Every behaviour of policies, records and checks, the night's and the    *)
(* admins', stays within RetentionInv.                                     *)
THEOREM RetentionCorrect == RetentionSpec => []RetentionInv
<1>1. RetentionInit => RetentionInv
  <2> SUFFICES ASSUME RetentionInit PROVE RetentionInv
      OBVIOUS
  <2>1. -1 \in -1 .. MaxDay /\ -1 <= day /\ day \in Days
      BY RetentionAssumption DEF RetentionInit, Days
  <2>2. QED
      BY <2>1 DEF RetentionInit, RetentionInv, RetentionTypeOK, CheckedIsClean
<1>2. RetentionInv /\ [RetentionNext]_retentionVars => RetentionInv'
  <2> SUFFICES ASSUME RetentionInv, [RetentionNext]_retentionVars PROVE RetentionInv'
      OBVIOUS
  <2>1. RetentionTypeOK /\ CheckedIsClean /\ MaxDay \in Nat /\ day \in Nat
      BY RetentionAssumption DEF RetentionInv, RetentionTypeOK, Days
  <2>2. ASSUME NEW r \in records
        PROVE  /\ r.school \in Schools /\ r.category \in Categories
               /\ r.created \in 0 .. MaxDay
               /\ Promised(r.school, r.category) \in Nat
               /\ aux_checked[r.school][r.category] \in Int
      BY <2>1, EffectiveIsPromised DEF RetentionTypeOK, Kept, Days
  <2>3. CASE UNCHANGED retentionVars
      BY <2>3 DEF retentionVars, RetentionInv, RetentionTypeOK, CheckedIsClean, Promised
  <2>4. CASE DayPasses
    <3>1. /\ day' = day + 1 /\ day' \in Days
          /\ UNCHANGED <<policy, records, check, aux_checked>>
        BY <2>1, <2>4 DEF DayPasses, Days
    <3>2. Checking \subseteq Checking'
        BY <2>1, <3>1 DEF Checking
    <3>3. check' \in [Checkers -> Checking' \cup {NoCheck}]
        BY <2>1, <3>1, <3>2 DEF RetentionTypeOK, Checking
    <3>4. RetentionTypeOK'
        BY <2>1, <3>1, <3>3 DEF RetentionTypeOK, Checking
    <3>5. QED
        BY <2>1, <3>1, <3>4 DEF RetentionInv, RetentionTypeOK, CheckedIsClean, Promised
  <2>5. ASSUME NEW k \in Checkers, NEW schools \in SUBSET Schools, StartCheck(k, schools) PROVE RetentionInv'
    <3> DEFINE begun == [now |-> day, todo |-> schools \X Categories, read |-> {}]
    <3>1. begun \in Checking
        BY <2>1 DEF Checking
    <3>2. /\ check' = [check EXCEPT ![k] = begun]
          /\ UNCHANGED <<day, policy, records, aux_checked>>
        BY <2>5 DEF StartCheck
    <3> HIDE DEF begun
    <3>3. QED
        BY <2>1, <3>1, <3>2, ChecksKept
  <2>6. ASSUME NEW s \in Schools, NEW c \in Categories, NewRecord(s, c) PROVE RetentionInv'
    <3> DEFINE new == [school |-> s, category |-> c, created |-> day]
    <3>1. new \in Kept
        BY <2>1 DEF Kept, RetentionTypeOK
    <3>2. day >= aux_checked[s][c] - Promised(s, c)
        BY <2>1, EffectiveIsPromised DEF RetentionInv, RetentionTypeOK
    <3>3. /\ records' = records \cup {new}
          /\ UNCHANGED <<day, policy, check, aux_checked>>
        BY <2>6 DEF NewRecord
    <3>4. new.school = s /\ new.category = c /\ new.created = day
        OBVIOUS
    <3> HIDE DEF new
    <3>5. QED
        BY <3>1, <3>2, <3>3, <3>4 DEF RetentionInv, RetentionTypeOK, CheckedIsClean, Promised
  <2>7. ASSUME NEW s \in Schools, NEW c \in Categories,
               NEW days \in PolicyDays \cup {NoPolicy}, SetPolicy(s, c, days)
        PROVE  RetentionInv'
    <3>1. /\ policy' = [policy EXCEPT ![s][c] = days]
          /\ aux_checked' = [aux_checked EXCEPT ![s][c] = -1]
          /\ UNCHANGED <<day, records, check>>
        BY <2>7 DEF SetPolicy
    <3>2. RetentionTypeOK'
        BY <2>1, <3>1 DEF RetentionTypeOK
    <3>3. \A q \in Schools, k \in Categories : aux_checked'[q][k] <= day'
        BY <2>1, <3>1 DEF RetentionInv, RetentionTypeOK
    <3>4. ASSUME NEW r \in records', r.category \in Deleting
          PROVE  r.created >= aux_checked'[r.school][r.category] - Promised(r.school, r.category)'
      <4>1. r \in records /\ r.created \in Nat
          BY <2>2, <3>1
      <4>2. Promised(r.school, r.category)' \in Nat
          BY <2>2, <4>1, RetentionAssumption, <3>2 DEF RetentionTypeOK, Promised
      <4>3. CASE r.school = s /\ r.category = c
        <5>1. aux_checked'[r.school][r.category] = -1
            BY <2>1, <3>1, <4>3 DEF RetentionTypeOK
        <5>2. QED
            BY <4>1, <4>2, <5>1
      <4>4. CASE ~ (r.school = s /\ r.category = c)
        <5>1. /\ aux_checked'[r.school][r.category] = aux_checked[r.school][r.category]
              /\ policy'[r.school][r.category] = policy[r.school][r.category]
            BY <2>1, <2>2, <3>1, <4>1, <4>4 DEF RetentionTypeOK
        <5>2. QED
            BY <2>1, <3>4, <4>1, <5>1 DEF CheckedIsClean, Promised
      <4>5. QED
          BY <4>3, <4>4
    <3>5. QED
        BY <3>2, <3>3, <3>4 DEF RetentionInv, CheckedIsClean
  <2>8. ASSUME NEW k \in Checkers, NEW x \in check[k].read, CheckCategory(k, x) PROVE RetentionInv'
    <3> DEFINE cleaned == x.days <= EffectiveDays(x.school, x.category)
                             /\ aux_checked[x.school][x.category] < check[k].now
               rest == IF check[k].todo = {} THEN NoCheck ELSE [check[k] EXCEPT !.read = {}]
    <3>1. /\ records' = {r \in records : ~ (r.category = x.category /\ x.category \in Deleting
                                             /\ r.created < check[k].now - x.days)}
          /\ aux_checked' = IF cleaned THEN [aux_checked EXCEPT ![x.school][x.category] = check[k].now]
                                       ELSE aux_checked
          /\ check' = [check EXCEPT ![k] = rest] /\ check[k] # NoCheck
          /\ UNCHANGED <<day, policy>>
        BY <2>8 DEF CheckCategory
    <3>2. /\ check[k] \in Checking /\ check[k].now \in 0 .. day /\ check[k].now \in -1 .. MaxDay
          /\ x.school \in Schools /\ x.category \in Categories /\ x.days \in Nat
      <4>1. check[k] \in Checking
          BY <2>1, <3>1 DEF RetentionTypeOK, Checking
      <4>2. QED
          BY <2>1, <2>8, <4>1 DEF Checking, Reading, RetentionTypeOK, Days
    <3>3. rest \in Checking \cup {NoCheck}
        BY <3>2 DEF Checking
    <3> HIDE DEF rest
    <3>4. RetentionTypeOK'
      <4>1. check' \in [Checkers -> Checking \cup {NoCheck}]
          BY <2>1, <3>1, <3>3 DEF RetentionTypeOK, Checking
      <4>2. aux_checked' \in [Schools -> [Categories -> -1 .. MaxDay]]
          BY <2>1, <3>1, <3>2 DEF RetentionTypeOK
      <4>3. QED
          BY <2>1, <3>1, <4>1, <4>2 DEF RetentionTypeOK, Checking
    <3>5. \A q \in Schools, c \in Categories : aux_checked'[q][c] <= day'
        BY <2>1, <3>1, <3>2 DEF RetentionInv, RetentionTypeOK
    <3>6. ASSUME NEW r \in records', r.category \in Deleting
          PROVE  r.created >= aux_checked'[r.school][r.category] - Promised(r.school, r.category)'
      <4>1. /\ r \in records
            /\ Promised(r.school, r.category)' = Promised(r.school, r.category)
          BY <3>1 DEF Promised
      <4>2. CASE cleaned /\ r.school = x.school /\ r.category = x.category
        <5>1. aux_checked'[r.school][r.category] = check[k].now
            BY <2>1, <3>1, <3>2, <4>2 DEF RetentionTypeOK
        <5>2. ~ (r.created < check[k].now - x.days)
            BY <3>1, <3>6, <4>2
        <5>3. x.days <= Promised(r.school, r.category)
            BY <2>1, <3>2, <4>2, EffectiveIsPromised
        <5>4. QED
            BY <2>1, <2>2, <3>2, <4>1, <5>1, <5>2, <5>3
      <4>3. CASE ~ (cleaned /\ r.school = x.school /\ r.category = x.category)
        <5>1. aux_checked'[r.school][r.category] = aux_checked[r.school][r.category]
            BY <2>1, <2>2, <3>1, <3>2, <4>1, <4>3 DEF RetentionTypeOK
        <5>2. QED
            BY <2>1, <3>6, <4>1, <5>1 DEF CheckedIsClean
      <4>4. QED
          BY <4>2, <4>3
    <3>7. QED
        BY <3>4, <3>5, <3>6 DEF RetentionInv, CheckedIsClean
  <2>9. ASSUME NEW k \in Checkers, CheckFails(k) PROVE RetentionInv'
      BY <2>1, <2>9, ChecksKept DEF CheckFails
  <2>10. ASSUME NEW k \in Checkers, NEW s \in Schools, NEW c \in Categories, ReadPolicy(k, s, c)
         PROVE  RetentionInv'
    <3> DEFINE got == {[school |-> s, category |-> c, days |-> EffectiveDays(s, c)]}
               turn == [check[k] EXCEPT !.todo = @ \ {<<s, c>>}, !.read = got]
    <3>1. check[k] \in Checking
        BY <2>1, <2>10 DEF ReadPolicy, RetentionTypeOK, Checking
    <3>2. got \subseteq Reading
        BY <2>1, EffectiveIsPromised DEF Reading
    <3>3. /\ check' = [check EXCEPT ![k] = turn]
          /\ UNCHANGED <<day, policy, records, aux_checked>>
        BY <2>1, <2>10 DEF ReadPolicy, RetentionTypeOK
    <3> HIDE DEF got
    <3>4. turn \in Checking
        BY <3>1, <3>2 DEF Checking
    <3> HIDE DEF turn
    <3>5. QED
        BY <2>1, <3>3, <3>4, ChecksKept
  <2>11. QED
    <3>1. NightJob \in Checkers /\ Inspectors \subseteq Checkers
        BY DEF Checkers
    <3>2. CASE RetentionNext
      <4>1. CASE StartCheck(NightJob, Schools) \/ \E k \in Inspectors, s \in Schools : StartCheck(k, {s})
          BY <2>5, <3>1, <4>1
      <4>2. QED
          BY <2>4, <2>6, <2>7, <2>8, <2>9, <2>10, <3>2, <4>1 DEF RetentionNext
    <3>3. QED
        BY <2>3, <3>2
<1>3. QED
    BY <1>1, <1>2, PTL DEF RetentionSpec

(* After a category was checked by its school's policy, and until that     *)
(* policy changes, nothing is left that it lets go, for any schools,       *)
(* clocks, policies and overlapping checks.  A check that read a longer    *)
(* policy, before a shorter one was set, is not one by that policy.        *)
THEOREM CheckedStaysClean == RetentionSpec => []CheckedIsClean
BY RetentionCorrect, PTL DEF RetentionInv

-----------------------------------------------------------------------------
(* DsgvoJobs.                                                              *)

(* Whose row j is: there, and of this type.                                *)
RowOf(j, t) == j \in DsgvoIds /\ dsgvo[j] \in DsgvoJob /\ dsgvo[j].type = t
Erased(j) == RowOf(j, "DATA_DELETION") /\ dsgvo[j].status = "COMPLETED"
InQueue(j, t) == \E i \in DOMAIN dsgvoQueue[t] : dsgvoQueue[t][i] = j
InWork(j, t) == dsgvoWorker[t] # NoDsgvo /\ dsgvoWorker[t].job = j

(* Every call, queue and worker is about rows of its own type.             *)
RowMade(c) == IF c.at = "created" THEN RowOf(c.job, c.type) ELSE dsgvo[c.job] = NoDsgvo

Sorted ==
    /\ \A c \in asking : RowMade(c)
    /\ \A c, d \in asking : c.job = d.job => c = d
    /\ \A t \in JobType : \A i \in DOMAIN dsgvoQueue[t] : RowOf(dsgvoQueue[t][i], t)
    /\ \A t \in JobType : dsgvoWorker[t] # NoDsgvo => RowOf(dsgvoWorker[t].job, t)

(* A worker that has anonymised the person found it as it was, so nothing  *)
(* has been erased yet and its deletion is the one that may complete.      *)
Erasing ==
    /\ At("DATA_DELETION", 2) => ~ anonymised
    /\ At("DATA_DELETION", 3) => anonymised /\ \A j \in DsgvoIds : ~ Erased(j)
    /\ \A j \in DsgvoIds : Erased(j) => anonymised
    /\ \A i, j \in DsgvoIds : Erased(i) /\ Erased(j) => i = j

(* A worker that is done with its row leaves it pending no more.           *)
Settled == \A t \in JobType : At(t, 4) => dsgvo[dsgvoWorker[t].job].status \notin {"QUEUED", "PROCESSING"}

OnItsWay ==
    \A j \in DsgvoIds :
        dsgvo[j] # NoDsgvo /\ dsgvo[j].status \in {"QUEUED", "PROCESSING"} =>
            \/ j \in aux_lost
            \/ \E c \in asking : c.job = j
            \/ \E t \in JobType : InQueue(j, t) \/ InWork(j, t)

DsgvoInv == DsgvoTypeOK /\ Sorted /\ Erasing /\ Settled /\ OnItsWay

(* A step of the queues and the calls that writes no row.                  *)
LEMMA SameDsgvoRows ==
    ASSUME DsgvoInv, DsgvoTypeOK', UNCHANGED <<dsgvo, dsgvoWorker, anonymised>>, Sorted',
           aux_lost \subseteq aux_lost',
           \A j \in DsgvoIds : dsgvo[j] # NoDsgvo
               /\ ((\E c \in asking : c.job = j) \/ \E t \in JobType : InQueue(j, t))
                   => \/ j \in aux_lost'
                      \/ \E c \in asking' : c.job = j
                      \/ \E t \in JobType : InQueue(j, t)'
    PROVE  DsgvoInv'
<1>1. Erasing' /\ Settled'
    BY DEF DsgvoInv, Erasing, Erased, RowOf, At, Settled
<1>2. OnItsWay'
    BY DEF DsgvoInv, OnItsWay, InWork
<1>3. QED
    BY <1>1, <1>2 DEF DsgvoInv

(* Such a step that leaves the calls, queues and workers alone as well.    *)
LEMMA SameDsgvoJobs ==
    ASSUME DsgvoInv, UNCHANGED <<dsgvo, asking, dsgvoQueue, dsgvoWorker, anonymised,
                                 dsgvoFaults, stalled, aux_lost>>,
           plain' \subseteq Data, granting' \in {NoDsgvo, "basis", "anonymized"}
    PROVE  DsgvoInv'
<1>1. DsgvoTypeOK'
    BY DEF DsgvoInv, DsgvoTypeOK
<1>2. Sorted'
    BY DEF DsgvoInv, Sorted, RowMade, RowOf
<1>3. QED
    BY <1>1, <1>2, SameDsgvoRows DEF InQueue

(* A call that loads the person, finds no pending job or gives up: it has  *)
(* no row yet.                                                             *)
LEMMA AskingKeeps ==
    ASSUME DsgvoInv, asking' \subseteq Request,
           \A c \in asking \ asking' : dsgvo[c.job] = NoDsgvo,
           \A d \in asking' \ asking : /\ dsgvo[d.job] = NoDsgvo /\ d.at # "created"
                                       /\ \A c \in asking' : c.job = d.job => c = d,
           UNCHANGED <<dsgvo, dsgvoQueue, dsgvoWorker, anonymised, plain, granting,
                       dsgvoFaults, stalled, aux_lost>>
    PROVE  DsgvoInv'
<1>1. DsgvoTypeOK /\ Sorted
    BY DEF DsgvoInv
<1>2. DsgvoTypeOK'
    BY <1>1 DEF DsgvoTypeOK
<1>3. \A c, d \in asking' : c.job = d.job => c = d
    BY <1>1 DEF Sorted
<1>4. \A c \in asking' : RowMade(c)'
    BY <1>1 DEF Sorted, RowMade, RowOf
<1>5. Sorted'
    BY <1>1, <1>3, <1>4 DEF Sorted, RowOf
<1>6. QED
    BY <1>2, <1>5, SameDsgvoRows DEF InQueue

(* The row of a request, created or not, is nobody else's.                 *)
LEMMA RequestsKeep ==
    ASSUME DsgvoInv, Requesting
    PROVE  DsgvoInv'
<1>1. DsgvoTypeOK /\ Sorted
    BY DEF DsgvoInv
<1>2. ASSUME NEW t \in JobType, NEW j \in DsgvoIds, Ask(t, j) PROVE DsgvoInv'
  <2> DEFINE call == [type |-> t, job |-> j, at |-> "loaded"]
  <2>1. call \in Request /\ call.job = j /\ call.at = "loaded"
      BY DEF Request
  <2>2. /\ asking' = asking \cup {call} /\ dsgvo[j] = NoDsgvo
        /\ \A c \in asking : c.job # j
        /\ UNCHANGED <<dsgvo, dsgvoQueue, dsgvoWorker, anonymised, plain, granting,
                       dsgvoFaults, stalled, aux_lost>>
      BY <1>2 DEF Ask
  <2> HIDE DEF call
  <2>3. QED
      BY <1>1, <2>1, <2>2, AskingKeeps DEF DsgvoTypeOK
<1>3. ASSUME NEW c \in asking, CheckPending(c) PROVE DsgvoInv'
  <2> DEFINE call == [c EXCEPT !.at = "free"]
             next == IF Pending(c.type) THEN {} ELSE {call}
  <2>1. c \in Request /\ c.at = "loaded" /\ dsgvo[c.job] = NoDsgvo
      BY <1>1, <1>3 DEF CheckPending, DsgvoTypeOK, Sorted, RowMade
  <2>2. call \in Request /\ call.job = c.job /\ call.at = "free"
      BY <2>1 DEF Request
  <2>3. /\ asking' = (asking \ {c}) \cup next
        /\ UNCHANGED <<dsgvo, dsgvoQueue, dsgvoWorker, anonymised, plain, granting,
                       dsgvoFaults, stalled, aux_lost>>
      BY <1>3 DEF CheckPending
  <2>4. \A d \in asking \ {c} : d.job # c.job
      BY <1>1 DEF Sorted
  <2> HIDE DEF call
  <2>5. next \subseteq {call}
      OBVIOUS
  <2> HIDE DEF next
  <2>6. QED
      BY <1>1, <2>1, <2>2, <2>3, <2>4, <2>5, AskingKeeps DEF DsgvoTypeOK
<1>4. ASSUME NEW c \in asking, EnqueueDsgvo(c), Fault({c.job}) PROVE DsgvoInv'
  <2>1. /\ asking' = asking \ {c} /\ aux_lost' = aux_lost \cup {c.job} /\ dsgvoFaults' = dsgvoFaults + 1
        /\ c.job \in DsgvoIds
        /\ UNCHANGED <<dsgvo, dsgvoWorker, anonymised, plain, granting, stalled>>
      BY <1>1, <1>4 DEF EnqueueDsgvo, Fault, DsgvoTypeOK, Request
  <2>2. CASE UNCHANGED dsgvoQueue
    <3>1. DsgvoTypeOK'
        BY <1>1, <2>1, <2>2 DEF DsgvoTypeOK
    <3>2. Sorted'
        BY <1>1, <2>1, <2>2 DEF Sorted, RowMade, RowOf
    <3>3. QED
        BY <2>1, <2>2, <3>1, <3>2, SameDsgvoRows DEF InQueue
  <2>3. CASE ~ UNCHANGED dsgvoQueue
    <3>1. UNCHANGED dsgvoFaults
        BY <1>4, <2>3 DEF EnqueueDsgvo
    <3>2. QED
        BY <1>1, <2>1, <3>1 DEF DsgvoTypeOK
  <2>4. QED
      BY <2>2, <2>3
<1>5. ASSUME NEW c \in asking, EnqueueDsgvo(c), ~ Fault({c.job}) PROVE DsgvoInv'
  <2> DEFINE q == dsgvoQueue[c.type]
             longer == Append(q, c.job)
  <2>1. c \in Request /\ q \in Seq(DsgvoIds) /\ c.type \in JobType /\ c.job \in DsgvoIds
      BY <1>1 DEF DsgvoTypeOK, Request
  <2>2. /\ longer \in Seq(DsgvoIds)
        /\ DOMAIN q = 1 .. Len(q) /\ DOMAIN longer = 1 .. Len(q) + 1 /\ Len(q) \in Nat
        /\ \A i \in 1 .. Len(q) : longer[i] = q[i]
        /\ longer[Len(q) + 1] = c.job
      BY <2>1
  <2>3. /\ dsgvoQueue' = [dsgvoQueue EXCEPT ![c.type] = longer]
        /\ asking' = asking \ {c}
        /\ UNCHANGED <<dsgvo, dsgvoWorker, anonymised, plain, granting, dsgvoFaults, stalled, aux_lost>>
      BY <1>5 DEF EnqueueDsgvo
  <2>4. RowOf(c.job, c.type)
      BY <1>1, <1>5 DEF EnqueueDsgvo, Sorted, RowMade
  <2> HIDE DEF longer
  <2>5. DsgvoTypeOK'
      BY <1>1, <2>2, <2>3 DEF DsgvoTypeOK
  <2>6. dsgvoQueue'[c.type] = longer /\ \A t \in JobType \ {c.type} : dsgvoQueue'[t] = dsgvoQueue[t]
      BY <1>1, <2>1, <2>3 DEF DsgvoTypeOK
  <2>7. \A t \in JobType : \A i \in DOMAIN dsgvoQueue'[t] : RowOf(dsgvoQueue'[t][i], t)
    <3>1. ASSUME NEW i \in DOMAIN longer PROVE RowOf(longer[i], c.type)
      <4>1. CASE i \in 1 .. Len(q)
          BY <1>1, <2>1, <2>2, <4>1 DEF Sorted
      <4>2. CASE i = Len(q) + 1
          BY <2>2, <2>4, <4>2
      <4>3. QED
          BY <2>2, <4>1, <4>2
    <3>2. QED
        BY <1>1, <2>6, <3>1 DEF Sorted
  <2>8. Sorted'
      BY <1>1, <2>3, <2>7 DEF Sorted, RowMade, RowOf
  <2>9. ASSUME NEW j, NEW t \in JobType, InQueue(j, t) PROVE InQueue(j, t)'
    <3>1. CASE t = c.type
        BY <2>2, <2>6, <2>9, <3>1 DEF InQueue
    <3>2. CASE t # c.type
        BY <2>6, <2>9, <3>2 DEF InQueue
    <3>3. QED
        BY <3>1, <3>2
  <2>10. InQueue(c.job, c.type)'
    <3>1. Len(q) + 1 \in DOMAIN longer
        BY <2>2
    <3>2. QED
        BY <2>1, <2>2, <2>6, <3>1 DEF InQueue
  <2>11. QED
      BY <2>1, <2>3, <2>5, <2>8, <2>9, <2>10, SameDsgvoRows
<1>6. ASSUME NEW c \in asking, CreateDsgvo(c) PROVE DsgvoInv'
  <2> DEFINE new == [type |-> c.type, status |-> "QUEUED", result |-> {}]
             call == [c EXCEPT !.at = "created"]
  <2>1. c \in Request /\ c.job \in DsgvoIds /\ dsgvo[c.job] = NoDsgvo
      BY <1>1, <1>6 DEF DsgvoTypeOK, Request, CreateDsgvo, Sorted, RowMade
  <2>2. /\ dsgvo' = [dsgvo EXCEPT ![c.job] = new]
        /\ asking' = (asking \ {c}) \cup {call}
        /\ UNCHANGED <<dsgvoQueue, dsgvoWorker, anonymised, plain, granting, dsgvoFaults, stalled, aux_lost>>
      BY <1>6 DEF CreateDsgvo
  <2>3. new \in DsgvoJob /\ new.type = c.type /\ new.status = "QUEUED"
      BY <2>1 DEF DsgvoJob, Request, DsgvoStatus
  <2>4. call \in Request /\ call.job = c.job /\ call.type = c.type /\ call.at = "created"
      BY <2>1 DEF Request
  <2> HIDE DEF new, call
  <2>5. DsgvoTypeOK'
      BY <1>1, <2>2, <2>3, <2>4 DEF DsgvoTypeOK
  <2>6. /\ dsgvo'[c.job] = new
        /\ \A j \in DsgvoIds \ {c.job} : dsgvo'[j] = dsgvo[j]
      BY <1>1, <2>1, <2>2 DEF DsgvoTypeOK
  <2>7. ~ \E t : RowOf(c.job, t)
      BY <2>1, DsgvoAssumption DEF RowOf
  <2>8. \A j, t : RowOf(j, t) => RowOf(j, t)'
      BY <2>6, <2>7 DEF RowOf
  <2>9. RowMade(call)'
    <3>1. dsgvo'[call.job] \in DsgvoJob /\ dsgvo'[call.job].type = call.type /\ call.job \in DsgvoIds
        BY <2>1, <2>3, <2>4, <2>6
    <3>2. QED
        BY <2>4, <3>1 DEF RowMade, RowOf
  <2>10. Sorted'
    <3>1. \A d \in asking : d.job \in DsgvoIds
        BY <1>1 DEF DsgvoTypeOK, Request
    <3>2. \A d \in asking \ {c} : d.job # c.job
        BY <1>1 DEF Sorted
    <3>3. ASSUME NEW d \in asking \ {c} PROVE RowMade(d)'
        BY <1>1, <2>6, <2>8, <3>1, <3>2 DEF Sorted, RowMade
    <3>4. \A d, e \in asking' : d.job = e.job => d = e
        BY <1>1, <2>2, <2>4, <3>2 DEF Sorted
    <3>5. \A d \in asking' : RowMade(d)'
        BY <2>2, <2>9, <3>3
    <3>6. QED
        BY <1>1, <2>2, <2>8, <3>4, <3>5 DEF Sorted
  <2>11. \A j \in DsgvoIds : Erased(j)' <=> Erased(j)
      BY <2>3, <2>6, <2>7 DEF Erased, RowOf
  <2>12. Erasing' /\ Settled'
    <3>1. \A t \in JobType : dsgvoWorker[t] # NoDsgvo => dsgvoWorker[t].job \in DsgvoIds \ {c.job}
        BY <1>1, <2>7 DEF Sorted, RowOf
    <3>2. Settled'
        BY <2>2, <2>6, <3>1 DEF DsgvoInv, Settled, At
    <3>3. QED
        BY <2>2, <2>11, <3>2 DEF DsgvoInv, Erasing, At
  <2>13. OnItsWay'
      BY <2>2, <2>4, <2>6 DEF DsgvoInv, OnItsWay, InQueue, InWork
  <2>14. QED
      BY <2>5, <2>10, <2>12, <2>13 DEF DsgvoInv
<1>7. QED
    BY <1>2, <1>3, <1>4, <1>5, <1>6 DEF Requesting

(* A worker writes the row of its own job, or leaves it as it is, and      *)
(* keeps the job unless the row is no longer pending or a fault parts it   *)
(* from the row.                                                           *)
WritesRow(t, new, w) ==
    /\ dsgvoWorker[t] # NoDsgvo
    /\ new.type = t /\ dsgvo' = [dsgvo EXCEPT ![dsgvoWorker[t].job] = new]
    /\ dsgvoWorker' = [dsgvoWorker EXCEPT ![t] = w]
    /\ w # NoDsgvo => /\ w.job = dsgvoWorker[t].job
                      /\ w.at = 4 => new.status \notin {"QUEUED", "PROCESSING"}
    /\ w = NoDsgvo => new.status \notin {"QUEUED", "PROCESSING"} \/ dsgvoWorker[t].job \in aux_lost'
    /\ anonymised' \in BOOLEAN /\ plain' \subseteq Data /\ dsgvoFaults' \in Nat
    /\ aux_lost \subseteq aux_lost' /\ aux_lost' \subseteq DsgvoIds
    /\ UNCHANGED <<asking, dsgvoQueue, granting, stalled>>

LEMMA WorkerWritesRow ==
    ASSUME DsgvoInv, NEW t \in JobType, NEW new \in DsgvoJob, NEW w \in Doing \cup {NoDsgvo},
           WritesRow(t, new, w)
    PROVE  /\ DsgvoTypeOK' /\ Sorted' /\ Settled' /\ OnItsWay'
           /\ dsgvo'[dsgvoWorker[t].job] = new /\ dsgvoWorker'[t] = w
           /\ \A u \in JobType \ {t} : dsgvoWorker'[u] = dsgvoWorker[u]
           /\ \A k \in DsgvoIds \ {dsgvoWorker[t].job} : Erased(k)' <=> Erased(k)
<1> USE DEF WritesRow
<1> DEFINE j == dsgvoWorker[t].job
<1>1. DsgvoTypeOK /\ Sorted
    BY DEF DsgvoInv
<1>2. RowOf(j, t) /\ j \in DsgvoIds /\ dsgvo[j] # NoDsgvo
    BY <1>1, DsgvoAssumption DEF Sorted, RowOf
<1>3. dsgvo' = [dsgvo EXCEPT ![j] = new] /\ (w # NoDsgvo => w.job = j)
    OBVIOUS
<1> HIDE DEF j
<1>4. /\ dsgvo'[j] = new
      /\ \A k \in DsgvoIds \ {j} : dsgvo'[k] = dsgvo[k]
      /\ dsgvoWorker'[t] = w
      /\ \A u \in JobType \ {t} : dsgvoWorker'[u] = dsgvoWorker[u]
    BY <1>1, <1>2, <1>3 DEF DsgvoTypeOK
<1>5. DsgvoTypeOK'
    BY <1>1, <1>3 DEF DsgvoTypeOK
<1>6. \A k, u : RowOf(k, u) => RowOf(k, u)'
    BY <1>2, <1>4 DEF RowOf
<1>7. \A c \in asking : RowMade(c)'
    BY <1>1, <1>2, <1>4, <1>6 DEF DsgvoTypeOK, Request, Sorted, RowMade
<1>8. ASSUME NEW u \in JobType, dsgvoWorker'[u] # NoDsgvo PROVE RowOf(dsgvoWorker[u].job, u)'
  <2>1. RowOf(dsgvoWorker[u].job, u) /\ dsgvoWorker'[u].job = dsgvoWorker[u].job
      BY <1>1, <1>2, <1>3, <1>4, <1>8 DEF Sorted, j
  <2>2. dsgvo'[dsgvoWorker[u].job] \in DsgvoJob /\ dsgvo'[dsgvoWorker[u].job].type = u
      BY <1>2, <1>4, <2>1 DEF RowOf
  <2>3. QED
      BY <2>1, <2>2 DEF RowOf
<1>9. Sorted'
    BY <1>1, <1>6, <1>7, <1>8 DEF Sorted, RowOf
<1>10. OnItsWay'
  <2> SUFFICES ASSUME NEW k \in DsgvoIds, dsgvo'[k] # NoDsgvo,
                      dsgvo'[k].status \in {"QUEUED", "PROCESSING"}
               PROVE  \/ k \in aux_lost' \/ \E c \in asking' : c.job = k
                      \/ \E u \in JobType : InQueue(k, u)' \/ InWork(k, u)'
      BY DEF OnItsWay
  <2>1. CASE k = j
    <3>1. (w # NoDsgvo /\ w.job = k) \/ j \in aux_lost'
        BY <1>3, <1>4, <2>1 DEF j
    <3>2. QED
        BY <1>4, <2>1, <3>1 DEF InWork
  <2>2. CASE k # j
    <3>1. \/ k \in aux_lost \/ \E c \in asking : c.job = k
          \/ \E u \in JobType : InQueue(k, u) \/ InWork(k, u)
        BY <1>4, <2>2 DEF DsgvoInv, OnItsWay
    <3>2. \A u \in JobType : InQueue(k, u) => InQueue(k, u)'
        BY DEF InQueue
    <3>3. \A u \in JobType : InWork(k, u) => InWork(k, u)'
        BY <1>4, <2>2 DEF InWork, j
    <3>4. QED
        BY <3>1, <3>2, <3>3
  <2>3. QED
      BY <2>1, <2>2
<1>11. \A k \in DsgvoIds \ {j} : Erased(k)' <=> Erased(k)
    BY <1>4 DEF Erased, RowOf
<1>12. ASSUME NEW u \in JobType, At(u, 4)' PROVE dsgvo'[dsgvoWorker'[u].job].status \notin {"QUEUED", "PROCESSING"}
  <2>1. CASE u = t
      BY <1>3, <1>4, <1>12, <2>1 DEF At
  <2>2. CASE u # t
    <3>1. /\ dsgvoWorker'[u] = dsgvoWorker[u] /\ At(u, 4)
          /\ dsgvoWorker[u].job \in DsgvoIds \ {j}
        BY <1>1, <1>2, <1>4, <1>12, <2>2 DEF Sorted, RowOf, At
    <3>2. QED
        BY <1>4, <3>1 DEF DsgvoInv, Settled
  <2>3. QED
      BY <2>1, <2>2
<1>13. QED
    BY <1>4, <1>5, <1>9, <1>10, <1>11, <1>12 DEF j, Settled

(* What the deletion worker writes: it takes up a person that is not       *)
(* anonymised, and completes a row only after it has anonymised one.       *)
ErasesRightly(new, w) ==
    /\ anonymised => anonymised'
    /\ w # NoDsgvo /\ w.at = 2 => ~ anonymised'
    /\ w # NoDsgvo /\ w.at = 3 => anonymised' /\ ~ anonymised
    /\ new.status = "COMPLETED" => \/ new = dsgvo[dsgvoWorker["DATA_DELETION"].job]
                                   \/ At("DATA_DELETION", 3)
    /\ new.status = "COMPLETED" /\ new # dsgvo[dsgvoWorker["DATA_DELETION"].job] =>
          w # NoDsgvo /\ w.at = 4

WorksRightly(t, new, w) ==
    /\ WritesRow(t, new, w)
    /\ IF t = "DATA_DELETION" THEN ErasesRightly(new, w) ELSE UNCHANGED anonymised

LEMMA WorkerErases ==
    ASSUME DsgvoInv, NEW t \in JobType, NEW new \in DsgvoJob, NEW w \in Doing \cup {NoDsgvo},
           WorksRightly(t, new, w)
    PROVE  DsgvoInv'
<1>1. /\ DsgvoTypeOK' /\ Sorted' /\ Settled' /\ OnItsWay'
      /\ dsgvo'[dsgvoWorker[t].job] = new /\ dsgvoWorker'[t] = w
      /\ \A u \in JobType \ {t} : dsgvoWorker'[u] = dsgvoWorker[u]
      /\ \A k \in DsgvoIds \ {dsgvoWorker[t].job} : Erased(k)' <=> Erased(k)
      /\ dsgvoWorker[t] # NoDsgvo /\ new.type = t
    BY WorkerWritesRow DEF WorksRightly, WritesRow
<1>2. Erasing /\ RowOf(dsgvoWorker[t].job, t) /\ dsgvoWorker[t].job \in DsgvoIds
    BY <1>1 DEF DsgvoInv, Sorted, RowOf
<1>3. CASE t # "DATA_DELETION"
  <2>1. UNCHANGED anonymised /\ dsgvoWorker'["DATA_DELETION"] = dsgvoWorker["DATA_DELETION"]
      BY <1>1, <1>3 DEF WorksRightly, JobType
  <2>2. \A k \in DsgvoIds : Erased(k)' <=> Erased(k)
      BY <1>1, <1>2, <1>3 DEF Erased, RowOf
  <2>3. Erasing'
      BY <1>2, <2>1, <2>2 DEF Erasing, At
  <2>4. QED
      BY <1>1, <2>3 DEF DsgvoInv
<1>4. CASE t = "DATA_DELETION"
  <2>0. PICK j \in DsgvoIds : j = dsgvoWorker["DATA_DELETION"].job
      BY <1>2, <1>4
  <2>1. ErasesRightly(new, w) /\ dsgvo'[j] = new /\ dsgvoWorker'["DATA_DELETION"] = w
      BY <1>1, <1>4, <2>0 DEF WorksRightly
  <2>2. /\ Erased(j) <=> dsgvo[j].status = "COMPLETED"
        /\ Erased(j)' <=> new.status = "COMPLETED"
      BY <1>1, <1>2, <1>4, <2>0, <2>1 DEF Erased, RowOf
  <2>3. /\ At("DATA_DELETION", 2)' <=> w # NoDsgvo /\ w.at = 2
        /\ At("DATA_DELETION", 3)' <=> w # NoDsgvo /\ w.at = 3
      BY <2>1 DEF At
  <2>4. \A k \in DsgvoIds : Erased(k)' => Erased(k) \/ (k = j /\ At("DATA_DELETION", 3) /\ w # NoDsgvo /\ w.at = 4)
      BY <1>1, <1>4, <2>0, <2>1, <2>2 DEF ErasesRightly
  <2>5. ASSUME At("DATA_DELETION", 3)' PROVE anonymised' /\ \A k \in DsgvoIds : ~ Erased(k)'
      BY <1>2, <2>1, <2>3, <2>4, <2>5 DEF ErasesRightly, Erasing
  <2>6. \A k \in DsgvoIds : Erased(k)' => anonymised'
      BY <1>2, <2>1, <2>4 DEF ErasesRightly, Erasing
  <2>7. \A i, k \in DsgvoIds : Erased(i)' /\ Erased(k)' => i = k
      BY <1>2, <2>4 DEF Erasing
  <2>8. At("DATA_DELETION", 2)' => ~ anonymised'
      BY <2>1, <2>3 DEF ErasesRightly
  <2>9. QED
      BY <1>1, <2>5, <2>6, <2>7, <2>8 DEF DsgvoInv, Erasing
<1>5. QED
    BY <1>3, <1>4

(* What SetDsgvo makes of a row, and Goes of a worker.                     *)
LEMMA RowIsSet ==
    ASSUME DsgvoTypeOK, NEW j \in DsgvoIds, dsgvo[j] \in DsgvoJob, NEW s \in DsgvoStatus, SetDsgvo(j, s)
    PROVE  \E new \in DsgvoJob : /\ new.type = dsgvo[j].type /\ new.status = s
                                 /\ dsgvo' = [dsgvo EXCEPT ![j] = new]
<1> DEFINE new == [dsgvo[j] EXCEPT !.status = s]
<1>1. new \in DsgvoJob /\ new.type = dsgvo[j].type /\ new.status = s
    BY DEF DsgvoJob
<1>2. dsgvo' = [dsgvo EXCEPT ![j] = new]
    BY DEF SetDsgvo, DsgvoTypeOK
<1> HIDE DEF new
<1>3. QED
    BY <1>1, <1>2

LEMMA WorkerGoes ==
    ASSUME DsgvoTypeOK, NEW t \in JobType, dsgvoWorker[t] # NoDsgvo, NEW n \in 0 .. 4, Goes(t, n)
    PROVE  \E w \in Doing : /\ w # NoDsgvo /\ w.job = dsgvoWorker[t].job /\ w.at = n
                            /\ dsgvoWorker' = [dsgvoWorker EXCEPT ![t] = w]
<1> DEFINE w == [dsgvoWorker[t] EXCEPT !.at = n]
<1>1. dsgvoWorker[t] \in Doing
    BY DEF DsgvoTypeOK
<1>2. w \in Doing /\ w.job = dsgvoWorker[t].job /\ w.at = n
    BY <1>1 DEF Doing
<1>3. dsgvoWorker' = [dsgvoWorker EXCEPT ![t] = w]
    BY DEF Goes, DsgvoTypeOK
<1> HIDE DEF w
<1>4. QED
    BY <1>2, <1>3, DsgvoAssumption

(* Each statement of a worker, the failing ones and the acknowledgement.   *)
LEMMA WorkersKeep ==
    ASSUME DsgvoInv, NEW t \in JobType,
           \/ MarkProcessing(t) \/ Complete(t) \/ Fail(t) \/ UpdateRejected(t) \/ Acknowledge(t)
           \/ t = "DATA_DELETION" /\ (LoadPerson \/ Anonymize)
           \/ t = "DATA_EXPORT" /\ (ReadData(1, "person") \/ ReadData(2, "message"))
    PROVE  DsgvoInv'
<1> DEFINE j == dsgvoWorker[t].job
<1>1. DsgvoTypeOK /\ Sorted /\ Erasing /\ Settled
    BY DEF DsgvoInv
<1>2. dsgvoWorker[t] # NoDsgvo /\ dsgvoWorker[t] \in Doing
    BY <1>1 DEF MarkProcessing, Complete, Fail, UpdateRejected, Acknowledge, LoadPerson, Anonymize,
               ReadData, At, DsgvoTypeOK
<1>3. /\ j \in DsgvoIds /\ dsgvo[j] \in DsgvoJob /\ dsgvo[j].type = t
      /\ dsgvo' = dsgvo => dsgvo' = [dsgvo EXCEPT ![j] = dsgvo[j]]
    BY <1>1, <1>2 DEF Sorted, RowOf, DsgvoTypeOK
<1>4. anonymised \in BOOLEAN /\ plain \subseteq Data /\ dsgvoFaults \in Nat /\ aux_lost \subseteq DsgvoIds
    BY <1>1 DEF DsgvoTypeOK
<1>5. CASE MarkProcessing(t)
  <2>1. /\ SetDsgvo(j, "PROCESSING") /\ Goes(t, 1) /\ "PROCESSING" \in DsgvoStatus
        /\ UNCHANGED <<asking, dsgvoQueue, anonymised, plain, granting, dsgvoFaults, stalled, aux_lost>>
      BY <1>5 DEF MarkProcessing, DsgvoStatus
  <2>2. PICK new \in DsgvoJob : /\ new.type = t /\ new.status = "PROCESSING"
                                /\ dsgvo' = [dsgvo EXCEPT ![j] = new]
      BY <1>1, <1>3, <2>1, RowIsSet
  <2>3. PICK w \in Doing : /\ w # NoDsgvo /\ w.job = j /\ w.at = 1
                           /\ dsgvoWorker' = [dsgvoWorker EXCEPT ![t] = w]
      BY <1>1, <1>2, <2>1, WorkerGoes
  <2>4. WorksRightly(t, new, w)
      BY <1>2, <1>4, <2>1, <2>2, <2>3 DEF WorksRightly, WritesRow, ErasesRightly
  <2>5. QED
      BY <2>4, WorkerErases
<1>6. CASE Fail(t)
  <2>1. /\ SetDsgvo(j, "FAILED") /\ Goes(t, 4) /\ "FAILED" \in DsgvoStatus
        /\ UNCHANGED <<asking, dsgvoQueue, anonymised, plain, granting, dsgvoFaults, stalled, aux_lost>>
      BY <1>6 DEF Fail, DsgvoStatus
  <2>2. PICK new \in DsgvoJob : /\ new.type = t /\ new.status = "FAILED"
                                /\ dsgvo' = [dsgvo EXCEPT ![j] = new]
      BY <1>1, <1>3, <2>1, RowIsSet
  <2>3. PICK w \in Doing : /\ w # NoDsgvo /\ w.job = j /\ w.at = 4
                           /\ dsgvoWorker' = [dsgvoWorker EXCEPT ![t] = w]
      BY <1>1, <1>2, <2>1, WorkerGoes
  <2>4. WorksRightly(t, new, w)
      BY <1>2, <1>4, <2>1, <2>2, <2>3 DEF WorksRightly, WritesRow, ErasesRightly
  <2>5. QED
      BY <2>4, WorkerErases
<1>7. CASE Complete(t)
  <2> DEFINE new == [dsgvo[j] EXCEPT !.status = "COMPLETED", !.result = dsgvoWorker[t].read]
  <2>1. /\ dsgvo' = [dsgvo EXCEPT ![j] = new] /\ Goes(t, 4) /\ At(t, 3)
        /\ UNCHANGED <<asking, dsgvoQueue, anonymised, plain, granting, dsgvoFaults, stalled, aux_lost>>
      BY <1>1, <1>3, <1>7 DEF Complete, DsgvoTypeOK
  <2>2. new \in DsgvoJob /\ new.type = t /\ new.status = "COMPLETED"
      BY <1>2, <1>3 DEF DsgvoJob, DsgvoStatus, Doing
  <2> HIDE DEF new
  <2>3. PICK w \in Doing : /\ w # NoDsgvo /\ w.job = j /\ w.at = 4
                           /\ dsgvoWorker' = [dsgvoWorker EXCEPT ![t] = w]
      BY <1>1, <1>2, <2>1, WorkerGoes
  <2>4. WorksRightly(t, new, w)
      BY <1>2, <1>4, <2>1, <2>2, <2>3 DEF WorksRightly, WritesRow, ErasesRightly
  <2>5. QED
      BY <2>2, <2>4, WorkerErases
<1>8. CASE UpdateRejected(t) \/ Acknowledge(t)
  <2>1. /\ dsgvoWorker' = [dsgvoWorker EXCEPT ![t] = NoDsgvo] /\ UNCHANGED dsgvo
        /\ UNCHANGED <<asking, dsgvoQueue, anonymised, plain, granting, stalled>>
        /\ dsgvoFaults' \in Nat /\ aux_lost \subseteq aux_lost' /\ aux_lost' \subseteq DsgvoIds
        /\ dsgvo[j].status \notin {"QUEUED", "PROCESSING"} \/ j \in aux_lost'
    <3>1. CASE UpdateRejected(t)
        BY <1>3, <1>4, <3>1 DEF UpdateRejected, Fault
    <3>2. CASE Acknowledge(t)
        BY <1>1, <1>4, <3>2 DEF Acknowledge, Settled
    <3>3. QED
        BY <1>8, <3>1, <3>2
  <2>2. WorksRightly(t, dsgvo[j], NoDsgvo)
      BY <1>2, <1>3, <1>4, <2>1 DEF WorksRightly, WritesRow, ErasesRightly
  <2>3. QED
      BY <1>3, <2>2, WorkerErases
<1>9. CASE t = "DATA_DELETION" /\ (LoadPerson \/ Anonymize)
  <2>1. PICK n \in {2, 3} :
           /\ Goes(t, n) /\ UNCHANGED dsgvo /\ anonymised' \in BOOLEAN /\ plain' \subseteq Data
           /\ n = 2 => ~ anonymised' /\ ~ anonymised
           /\ n = 3 => anonymised' /\ ~ anonymised
           /\ UNCHANGED <<asking, dsgvoQueue, granting, dsgvoFaults, stalled, aux_lost>>
    <3>1. CASE LoadPerson
        BY <1>4, <1>9, <3>1 DEF LoadPerson
    <3>2. CASE Anonymize
        BY <1>1, <1>4, <1>9, <3>2 DEF Anonymize, Erasing
    <3>3. QED
        BY <1>9, <3>1, <3>2
  <2>2. PICK w \in Doing : /\ w # NoDsgvo /\ w.job = j /\ w.at = n
                           /\ dsgvoWorker' = [dsgvoWorker EXCEPT ![t] = w]
      BY <1>1, <1>2, <2>1, WorkerGoes
  <2>3. WorksRightly(t, dsgvo[j], w)
      BY <1>2, <1>3, <1>4, <1>9, <2>1, <2>2 DEF WorksRightly, WritesRow, ErasesRightly
  <2>4. QED
      BY <1>3, <2>3, WorkerErases
<1>10. ASSUME t = "DATA_EXPORT", NEW n \in 1 .. 2, NEW what \in Exported, ReadData(n, what) PROVE DsgvoInv'
  <2> DEFINE w == [dsgvoWorker[t] EXCEPT !.at = n + 1, !.read = @ \cup (plain \cap {what})]
  <2>1. /\ dsgvoWorker' = [dsgvoWorker EXCEPT ![t] = w]
        /\ UNCHANGED <<dsgvo, asking, dsgvoQueue, anonymised, plain, granting, dsgvoFaults, stalled, aux_lost>>
      BY <1>1, <1>2, <1>10 DEF ReadData, Doing, DsgvoTypeOK
  <2>2. w \in Doing /\ w.job = j /\ w.at # 4
    <3>1. n + 1 \in 0 .. 4 /\ n + 1 # 4 /\ dsgvoWorker[t].read \cup (plain \cap {what}) \in SUBSET Exported
        BY <1>2 DEF Doing
    <3>2. QED
        BY <1>2, <3>1 DEF Doing
  <2> HIDE DEF w
  <2>3. WorksRightly(t, dsgvo[j], w)
      BY <1>2, <1>3, <1>4, <1>10, <2>1, <2>2, DsgvoAssumption DEF WorksRightly, WritesRow
  <2>4. QED
      BY <1>3, <2>2, <2>3, WorkerErases
<1>11. QED
    BY <1>5, <1>6, <1>7, <1>8, <1>9, <1>10 DEF Exported

(* Taking a job moves it from the queue to the worker.                     *)
LEMMA TakeKeeps ==
    ASSUME DsgvoInv, NEW t \in JobType, TakeDsgvo(t)
    PROVE  DsgvoInv'
<1> DEFINE q == dsgvoQueue[t]
           w == [job |-> Head(q), at |-> 0, read |-> {}]
<1>1. DsgvoTypeOK /\ Sorted /\ Erasing
    BY DEF DsgvoInv
<1>2. q \in Seq(DsgvoIds) /\ q # << >>
    BY <1>1 DEF TakeDsgvo, DsgvoTypeOK
<1>3. /\ Tail(q) \in Seq(DsgvoIds) /\ Head(q) = q[1] /\ Head(q) \in DsgvoIds
      /\ Len(q) \in Nat \ {0} /\ DOMAIN q = 1 .. Len(q) /\ DOMAIN Tail(q) = 1 .. Len(q) - 1
      /\ \A i \in 1 .. Len(q) - 1 : Tail(q)[i] = q[i + 1]
    BY <1>2
<1>4. w \in Doing /\ w.job = q[1] /\ w.at = 0 /\ w # NoDsgvo
    BY <1>3, DsgvoAssumption DEF Doing
<1>5. /\ dsgvoWorker' = [dsgvoWorker EXCEPT ![t] = w] /\ dsgvoWorker[t] = NoDsgvo
      /\ dsgvoQueue' = [dsgvoQueue EXCEPT ![t] = Tail(q)]
      /\ UNCHANGED <<dsgvo, asking, anonymised, plain, granting, dsgvoFaults, stalled, aux_lost>>
    BY DEF TakeDsgvo
<1> DEFINE rest == Tail(q)
<1>6. dsgvoQueue' = [dsgvoQueue EXCEPT ![t] = rest] /\ rest \in Seq(DsgvoIds)
      /\ DOMAIN rest = 1 .. Len(q) - 1 /\ \A i \in 1 .. Len(q) - 1 : rest[i] = q[i + 1]
    BY <1>3, <1>5
<1> HIDE DEF w, rest
<1>7. /\ dsgvoWorker'[t] = w /\ dsgvoQueue'[t] = rest
      /\ \A u \in JobType \ {t} : dsgvoWorker'[u] = dsgvoWorker[u] /\ dsgvoQueue'[u] = dsgvoQueue[u]
    BY <1>1, <1>5, <1>6 DEF DsgvoTypeOK
<1>8. DsgvoTypeOK'
    BY <1>1, <1>4, <1>5, <1>6 DEF DsgvoTypeOK
<1>9. \A j, u : RowOf(j, u)' <=> RowOf(j, u)
    BY <1>5 DEF RowOf
<1>10. ASSUME NEW i \in DOMAIN q PROVE RowOf(q[i], t)
    BY <1>1 DEF Sorted
<1>11. \A u \in JobType : \A i \in DOMAIN dsgvoQueue'[u] : RowOf(dsgvoQueue'[u][i], u)
  <2>1. ASSUME NEW i \in DOMAIN rest PROVE RowOf(rest[i], t)
    <3>1. i + 1 \in DOMAIN q /\ rest[i] = q[i + 1]
        BY <1>3, <1>6
    <3>2. QED
        BY <1>10, <3>1
  <2>2. QED
      BY <1>1, <1>7, <2>1 DEF Sorted
<1>12. \A u \in JobType : dsgvoWorker'[u] # NoDsgvo => RowOf(dsgvoWorker'[u].job, u)
  <2>1. 1 \in DOMAIN q
      BY <1>3
  <2>2. RowOf(w.job, t)
      BY <1>4, <1>10, <2>1
  <2>3. QED
      BY <1>1, <1>7, <2>2 DEF Sorted
<1>13. Sorted'
    BY <1>1, <1>5, <1>11, <1>12 DEF Sorted, RowMade, RowOf
<1>14. ASSUME NEW j, NEW u \in JobType, InQueue(j, u) \/ InWork(j, u)
       PROVE  InQueue(j, u)' \/ InWork(j, u)'
  <2>1. CASE u = t
    <3>1. PICK i \in DOMAIN q : q[i] = j
        BY <1>5, <1>14, <2>1 DEF InQueue, InWork
    <3>2. CASE i = 1
        BY <1>4, <1>7, <2>1, <3>1, <3>2 DEF InWork
    <3>3. CASE i # 1
      <4>1. i - 1 \in DOMAIN rest /\ rest[i - 1] = j
          BY <1>3, <1>6, <3>1, <3>3
      <4>2. QED
          BY <1>7, <2>1, <4>1 DEF InQueue
    <3>4. QED
        BY <3>2, <3>3
  <2>2. CASE u # t
      BY <1>7, <1>14, <2>2 DEF InQueue, InWork
  <2>3. QED
      BY <2>1, <2>2
<1>15. OnItsWay'
    BY <1>5, <1>14 DEF DsgvoInv, OnItsWay
<1>16. Erasing' /\ Settled'
    BY <1>1, <1>4, <1>5, <1>7 DEF DsgvoInv, Erasing, Erased, RowOf, At, JobType, Settled
<1>17. QED
    BY <1>8, <1>13, <1>15, <1>16 DEF DsgvoInv

(* A crash puts what was in hand back at the head of its queue, or on      *)
(* record as lost, with the calls that had made their rows.                *)
LEMMA CrashKeeps ==
    ASSUME DsgvoInv, CrashDsgvo
    PROVE  DsgvoInv'
<1> DEFINE again(t) == ~ (dsgvoWorker[t] = NoDsgvo \/ dsgvoWorker[t].job \in stalled)
           back(t) == <<dsgvoWorker[t].job>> \o dsgvoQueue[t]
<1>1. DsgvoTypeOK /\ Sorted /\ Erasing
    BY DEF DsgvoInv
<1>2. /\ aux_lost' = aux_lost \cup {c.job : c \in {d \in asking : d.at = "created"}} \cup (InHand \cap stalled)
      /\ stalled' = stalled \cup InHand /\ asking' = {} /\ granting' = NoDsgvo
      /\ dsgvoFaults' = dsgvoFaults + 1
      /\ dsgvoQueue' = [t \in JobType |-> IF again(t) THEN back(t) ELSE dsgvoQueue[t]]
      /\ dsgvoWorker' = [t \in JobType |-> NoDsgvo]
      /\ UNCHANGED <<dsgvo, anonymised, plain>>
    BY DEF CrashDsgvo, Fault
<1>3. ASSUME NEW t \in JobType, again(t)
      PROVE  /\ back(t) \in Seq(DsgvoIds) /\ back(t)[1] = dsgvoWorker[t].job
             /\ DOMAIN dsgvoQueue[t] = 1 .. Len(dsgvoQueue[t]) /\ Len(dsgvoQueue[t]) \in Nat
             /\ DOMAIN back(t) = 1 .. Len(dsgvoQueue[t]) + 1
             /\ \A i \in 1 .. Len(dsgvoQueue[t]) : back(t)[i + 1] = dsgvoQueue[t][i]
  <2>1. dsgvoQueue[t] \in Seq(DsgvoIds) /\ dsgvoWorker[t].job \in DsgvoIds
      BY <1>1, <1>3 DEF DsgvoTypeOK, Doing
  <2>2. <<dsgvoWorker[t].job>> \in Seq(DsgvoIds) /\ Len(<<dsgvoWorker[t].job>>) = 1
      BY <2>1
  <2>3. QED
      BY <2>1, <2>2, ConcatProperties
<1>4. InHand \subseteq DsgvoIds
    BY <1>1 DEF InHand, DsgvoTypeOK, Doing
<1> HIDE DEF again, back
<1>5. DsgvoTypeOK'
  <2>1. dsgvoQueue' \in [JobType -> Seq(DsgvoIds)]
      BY <1>1, <1>2, <1>3 DEF DsgvoTypeOK
  <2>2. aux_lost' \subseteq DsgvoIds /\ stalled' \subseteq DsgvoIds
      BY <1>1, <1>2, <1>4 DEF DsgvoTypeOK, Request
  <2>3. QED
      BY <1>1, <1>2, <2>1, <2>2 DEF DsgvoTypeOK
<1>6. \A t \in JobType : dsgvoQueue'[t] = IF again(t) THEN back(t) ELSE dsgvoQueue[t]
    BY <1>2
<1>7. ASSUME NEW t \in JobType, NEW i \in DOMAIN dsgvoQueue'[t] PROVE RowOf(dsgvoQueue'[t][i], t)
  <2>1. CASE again(t)
    <3>1. i \in 1 .. Len(dsgvoQueue[t]) + 1 /\ dsgvoQueue'[t][i] = back(t)[i]
        BY <1>3, <1>6, <1>7, <2>1
    <3>2. CASE i = 1
        BY <1>1, <1>3, <2>1, <3>1, <3>2 DEF Sorted, again
    <3>3. CASE i # 1
      <4>1. i - 1 \in 1 .. Len(dsgvoQueue[t]) /\ i - 1 + 1 = i
          BY <1>3, <2>1, <3>1, <3>3
      <4>2. back(t)[i] = dsgvoQueue[t][i - 1]
          BY <1>3, <2>1, <4>1
      <4>3. QED
          BY <1>1, <1>3, <2>1, <3>1, <4>1, <4>2 DEF Sorted
    <3>4. QED
        BY <3>2, <3>3
  <2>2. CASE ~ again(t)
      BY <1>1, <1>6, <1>7, <2>2 DEF Sorted
  <2>3. QED
      BY <2>1, <2>2
<1>8. Sorted'
    BY <1>2, <1>7 DEF Sorted, RowOf
<1>9. ASSUME NEW j, NEW t \in JobType, InQueue(j, t) PROVE InQueue(j, t)'
  <2>1. PICK i \in DOMAIN dsgvoQueue[t] : dsgvoQueue[t][i] = j
      BY <1>9 DEF InQueue
  <2>2. CASE again(t)
    <3>1. i + 1 \in DOMAIN back(t) /\ back(t)[i + 1] = j
        BY <1>3, <2>1, <2>2
    <3>2. QED
        BY <1>6, <2>2, <3>1 DEF InQueue
  <2>3. CASE ~ again(t)
      BY <1>6, <2>1, <2>3 DEF InQueue
  <2>4. QED
      BY <2>2, <2>3
<1>10. ASSUME NEW j, NEW t \in JobType, InWork(j, t) PROVE j \in aux_lost' \/ InQueue(j, t)'
  <2>1. j \in InHand
      BY <1>10 DEF InWork, InHand
  <2>2. CASE j \in stalled
      BY <1>2, <2>1, <2>2
  <2>3. CASE j \notin stalled
    <3>1. again(t)
        BY <1>10, <2>3 DEF InWork, again
    <3>2. 1 \in DOMAIN back(t) /\ back(t)[1] = j
        BY <1>3, <1>10, <3>1 DEF InWork
    <3>3. QED
        BY <1>6, <3>1, <3>2 DEF InQueue
  <2>4. QED
      BY <2>2, <2>3
<1>11. ASSUME NEW j, dsgvo[j] # NoDsgvo, NEW c \in asking, c.job = j PROVE j \in aux_lost'
    BY <1>1, <1>2, <1>11 DEF Sorted, RowMade
<1>12. OnItsWay'
    BY <1>2, <1>9, <1>10, <1>11 DEF DsgvoInv, OnItsWay
<1>13. Erasing' /\ Settled'
    BY <1>1, <1>2 DEF Erasing, Erased, RowOf, At, JobType, Settled
<1>14. QED
    BY <1>5, <1>8, <1>12, <1>13 DEF DsgvoInv

(* Every behaviour of requests, workers, crashes and writers stays within  *)
(* DsgvoInv.                                                               *)
THEOREM DsgvoCorrect == DsgvoSpec => []DsgvoInv
<1>1. DsgvoInit => DsgvoInv
  <2> SUFFICES ASSUME DsgvoInit PROVE DsgvoInv
      OBVIOUS
  <2>1. << >> \in Seq(DsgvoIds)
      OBVIOUS
  <2>2. DsgvoTypeOK
      BY <2>1 DEF DsgvoInit, DsgvoTypeOK
  <2>3. Sorted
      BY DEF DsgvoInit, Sorted
  <2>4. Erasing /\ Settled
      BY DsgvoAssumption DEF DsgvoInit, Erasing, Erased, RowOf, At, JobType, Settled
  <2>5. OnItsWay
      BY DEF DsgvoInit, OnItsWay
  <2>6. QED
      BY <2>2, <2>3, <2>4, <2>5 DEF DsgvoInv
<1>2. DsgvoInv /\ [DsgvoNext]_dsgvoVars => DsgvoInv'
  <2> SUFFICES ASSUME DsgvoInv, [DsgvoNext]_dsgvoVars PROVE DsgvoInv'
      OBVIOUS
  <2>1. DsgvoTypeOK
      BY DEF DsgvoInv
  <2>2. CASE UNCHANGED dsgvoVars
      BY <2>1, <2>2, SameDsgvoJobs DEF dsgvoVars, DsgvoTypeOK
  <2>3. CASE Requesting
      BY <2>3, RequestsKeep
  <2>4. CASE DsgvoWorkers
    <3>1. \A t \in JobType : t = "DATA_DELETION" \/ t = "DATA_EXPORT"
        BY DEF JobType
    <3>2. QED
        BY <2>4, <3>1, TakeKeeps, WorkersKeep DEF DsgvoWorkers, JobType
  <2>5. CASE CrashDsgvo
      BY <2>5, CrashKeeps
  <2>6. CASE ReadConsent
      BY <2>1, <2>6, SameDsgvoJobs DEF ReadConsent, DsgvoTypeOK
  <2>7. CASE GrantConsent
      BY <2>1, <2>7, SameDsgvoJobs DEF GrantConsent, DsgvoTypeOK, Data
  <2>8. CASE WriteAfterwards
      BY <2>1, <2>8, SameDsgvoJobs DEF WriteAfterwards, DsgvoTypeOK, Data
  <2>9. QED
      BY <2>2, <2>3, <2>4, <2>5, <2>6, <2>7, <2>8 DEF DsgvoNext
<1>3. QED
    BY <1>1, <1>2, PTL DEF DsgvoSpec

(* However many deletions are asked for at once, and however often BullMQ  *)
(* hands a job out, one is COMPLETED at most, and then the person is       *)
(* anonymised.                                                             *)
THEOREM ErasedAtMostOnce == DsgvoSpec => []ErasedOnce
<1>1. DsgvoInv => ErasedOnce
  <2> SUFFICES ASSUME DsgvoInv PROVE ErasedOnce
      OBVIOUS
  <2> DEFINE done == {j \in DsgvoIds : /\ dsgvo[j] # NoDsgvo /\ dsgvo[j].type = "DATA_DELETION"
                                       /\ dsgvo[j].status = "COMPLETED"}
  <2>1. \A j \in done : Erased(j)
      BY DEF DsgvoInv, DsgvoTypeOK, Erased, RowOf
  <2>2. done # {} => anonymised
      BY <2>1 DEF DsgvoInv, Erasing
  <2>3. Cardinality(done) <= 1
    <3>1. CASE done = {}
        BY <3>1, FS_EmptySet
    <3>2. CASE done # {}
      <4>1. PICK j : j \in done
          BY <3>2
      <4>2. done = {j}
          BY <2>1, <4>1 DEF DsgvoInv, Erasing
      <4>3. Cardinality({j}) = 1
          BY FS_Singleton
      <4> HIDE DEF done
      <4>4. QED
          BY <4>2, <4>3
    <3>3. QED
        BY <3>1, <3>2
  <2>4. QED
      BY <2>2, <2>3 DEF ErasedOnce
<1>2. QED
    BY <1>1, DsgvoCorrect, PTL

(* A pending request, which bars every later one, is being worked on, but  *)
(* for the faults that part a row from its job: a crash before queue.add   *)
(* or of a job handed out before, a rejected queue.add, a rejected update. *)
THEOREM PendingMoves == DsgvoSpec => []PendingIsOnItsWay
<1>1. DsgvoInv => PendingIsOnItsWay
    BY DEF DsgvoInv, OnItsWay, InQueue, InWork, PendingIsOnItsWay
<1>2. QED
    BY <1>1, DsgvoCorrect, PTL

=============================================================================
