----------------------------- MODULE Retention -----------------------------
(***************************************************************************)
(* RetentionService: the policies a school sets for its categories of      *)
(* data, and the checks: RetentionProcessor runs one every night for all   *)
(* schools, an admin one for a school whenever he asks, each category      *)
(* after category, the policy and the deletion a query each, against one   *)
(* reading of the clock.                                                   *)
(***************************************************************************)
EXTENDS Integers

CONSTANTS
    Schools,
    Deleting,           \* noten, anwesenheit, kommunikation: the check deletes
    Counting,           \* audit_*, handover_materials: the check counts
    DefaultDays,        \* DEFAULT_RETENTION_DAYS
    PolicyDays,         \* what admins set
    Inspectors,         \* the admins that ask for a check
    NightJob,           \* DSGVO_RETENTION_QUEUE's worker
    MaxDay,             \* bound: the last day
    NoPolicy, NoCheck

Categories == Deleting \cup Counting
Days == 0 .. MaxDay

ASSUME RetentionAssumption ==
    /\ DefaultDays \in [Categories -> Nat] /\ PolicyDays \subseteq Nat
    /\ MaxDay \in Nat /\ NoPolicy \notin Nat /\ NightJob \notin Inspectors

Checkers == Inspectors \cup {NightJob}

VARIABLES
    day,            \* the clock, in days
    policy,         \* the RetentionPolicy rows
    records,        \* [school, category, created]
    check,          \* checkExpiredRecords under way: its reading of the clock,
                    \* what is left, and the policy read for the next deletion
    aux_checked     \* auxiliary: since the policy last changed, the latest clock
                    \* a school's category was checked by for it

retentionVars == <<day, policy, records, check, aux_checked>>

Kept == [school : Schools, category : Categories, created : Days]
Reading == [school : Schools, category : Categories, days : Nat]

RetentionInit ==
    /\ day = 0 /\ records = {} /\ check = [k \in Checkers |-> NoCheck]
    /\ policy = [s \in Schools |-> [c \in Categories |-> NoPolicy]]
    /\ aux_checked = [s \in Schools |-> [c \in Categories |-> -1]]

(* create, update and remove.                                              *)
SetPolicy(s, c, days) ==
    /\ policy[s][c] # days
    /\ policy' = [policy EXCEPT ![s][c] = days]
    /\ aux_checked' = [aux_checked EXCEPT ![s][c] = -1]
    /\ UNCHANGED <<day, records, check>>

NewRecord(s, c) ==
    /\ records' = records \cup {[school |-> s, category |-> c, created |-> day]}
    /\ UNCHANGED <<day, policy, check, aux_checked>>

DayPasses ==
    /\ day < MaxDay
    /\ day' = day + 1
    /\ UNCHANGED <<policy, records, check, aux_checked>>

(* checkExpiredRecords: the processor's one job at a time for all schools, *)
(* an admin's call for one.                                                *)
StartCheck(k, schools) ==
    /\ check[k] = NoCheck
    /\ check' = [check EXCEPT ![k] = [now |-> day, todo |-> schools \X Categories, read |-> {}]]
    /\ UNCHANGED <<day, policy, records, aux_checked>>

EffectiveDaysByDefault(s, c) == DefaultDays[c]  \* mutant: the school's policy is not looked up

(* getEffectivePolicy                                                      *)
EffectiveDays(s, c) == IF policy[s][c] # NoPolicy THEN policy[s][c] ELSE DefaultDays[c]

(* One turn of the loop: the policy ...                                    *)
ReadPolicy(k, s, c) ==
    /\ check[k] # NoCheck /\ check[k].read = {} /\ <<s, c>> \in check[k].todo
    /\ check' = [check EXCEPT ![k].todo = @ \ {<<s, c>>},
                              ![k].read = {[school |-> s, category |-> c, days |-> EffectiveDays(s, c)]}]
    /\ UNCHANGED <<day, policy, records, aux_checked>>

(* ... and the deletion.  cleanupExpiredGrades, -Attendance and -Messages  *)
(* take a date and no school.  It counts as a check of the policy now in   *)
(* force if that lets nothing more go than the one that was read.          *)
CheckCategory(k, x) ==
    /\ check[k] # NoCheck /\ x \in check[k].read
    /\ records' = {r \in records :
          ~ (r.category = x.category /\ x.category \in Deleting /\ r.created < check[k].now - x.days)}
    /\ check' = [check EXCEPT ![k] = IF @.todo = {} THEN NoCheck ELSE [@ EXCEPT !.read = {}]]
    /\ aux_checked' = IF /\ x.days <= EffectiveDays(x.school, x.category)
                         /\ aux_checked[x.school][x.category] < check[k].now
                      THEN [aux_checked EXCEPT ![x.school][x.category] = check[k].now]
                      ELSE aux_checked
    /\ UNCHANGED <<day, policy>>

(* A query rejects, or the process dies: the rest is not checked.          *)
CheckFails(k) ==
    /\ check[k] # NoCheck
    /\ check' = [check EXCEPT ![k] = NoCheck]
    /\ UNCHANGED <<day, policy, records, aux_checked>>

RetentionNext ==
    \/ DayPasses
    \/ StartCheck(NightJob, Schools) \/ \E k \in Inspectors, s \in Schools : StartCheck(k, {s})
    \/ \E k \in Checkers :
        \/ CheckFails(k)
        \/ \E s \in Schools, c \in Categories : ReadPolicy(k, s, c)
        \/ check[k] # NoCheck /\ \E x \in check[k].read : CheckCategory(k, x)
    \/ \E s \in Schools, c \in Categories :
        \/ NewRecord(s, c)
        \/ \E days \in PolicyDays \cup {NoPolicy} : SetPolicy(s, c, days)

RetentionSpec == RetentionInit /\ [][RetentionNext]_retentionVars
-----------------------------------------------------------------------------
(* Types.                                                                  *)
RetentionTypeOK ==
    /\ day \in Days
    /\ policy \in [Schools -> [Categories -> PolicyDays \cup {NoPolicy}]]
    /\ records \subseteq Kept
    /\ check \in [Checkers -> [now : 0 .. day, todo : SUBSET (Schools \X Categories),
                               read : SUBSET Reading] \cup {NoCheck}]
    /\ aux_checked \in [Schools -> [Categories -> -1 .. MaxDay]]

(* What the school has decided, or else the default.                       *)
Promised(s, c) == IF policy[s][c] \in PolicyDays THEN policy[s][c] ELSE DefaultDays[c]

(* What a check went over is clean until the policy changes: nothing of a  *)
(* deleting category is left that its school's policy lets go, however     *)
(* records, other checks and other policies came in between.  A check that *)
(* had read a policy letting less go than the one set before its deletion  *)
(* does not count: the next check has to make up for it.                   *)
CheckedIsClean ==
    \A r \in records : r.category \in Deleting =>
        r.created >= aux_checked[r.school][r.category] - Promised(r.school, r.category)

(* "noten: 21900, // 60 years -- Austrian Aufbewahrungspflicht": nothing   *)
(* is deleted before its own school's policy lets it go.                   *)
KeptForItsTime ==
    [][\A r \in records \ records' : r.created < day - Promised(r.school, r.category)]_retentionVars
=============================================================================
