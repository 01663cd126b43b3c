---------------------------- MODULE MCBackOffice ----------------------------
(***************************************************************************)
(* The six components of the school's office on small instances.  They     *)
(* share no state, so a behaviour moves one of them: every initial state   *)
(* picks which, and the run explores the sum of their state spaces instead *)
(* of the product.                                                         *)
(***************************************************************************)
EXTENDS ImportJobs, DsgvoJobs, Retention, Bookings, Accounts, PersonLinks, TLC

CONSTANTS anna, bert, carl, dora, u1, u2

VARIABLE moving

MCFile == (1 :> <<anna, dora>>) @@ (2 :> <<bert, carl, dora>>)
MCDefaultDays == [k \in Categories |-> 2]
MCRoleSets == {{"admin"}, {"lehrer"}}
MCPermits == ("admin" :> "can") @@ ("lehrer" :> "cannot")
MCFirstRoles == (u1 :> {"admin"}) @@ (u2 :> {"lehrer"})

Init ==
    /\ moving \in {"import", "imports", "dsgvo", "retention", "bookings", "accounts", "links"}
    /\ ImportInit /\ DsgvoInit /\ RetentionInit /\ BookingInit /\ AccountInit /\ LinkInit

Next ==
    /\ UNCHANGED moving
    /\ IF moving \in {"import", "imports"} THEN ImportNext ELSE UNCHANGED importVars
    /\ IF moving = "dsgvo" THEN DsgvoNext ELSE UNCHANGED dsgvoVars
    /\ IF moving = "retention" THEN RetentionNext ELSE UNCHANGED retentionVars
    /\ IF moving = "bookings" THEN BookingNext ELSE UNCHANGED bookingVars
    /\ IF moving = "accounts" THEN AccountNext ELSE UNCHANGED accountVars
    /\ IF moving = "links" THEN LinkNext ELSE UNCHANGED linkVars

Spec == Init /\ [][Next]_<<moving, importVars, dsgvoVars, retentionVars, bookingVars,
                           accountVars, linkVars>>

(* Accounts are closed and overrides set only between role changes, and of *)
(* two users one has a mirror that failed; a run has one lesson in the     *)
(* period, bookings and calls for one are two at most, and resources,      *)
(* which no lesson meets, are booked while no run is active; a third       *)
(* erasure or export, and a grant under way, meet no fault and come after  *)
(* none; there are no two records that could expire at a time.  An import  *)
(* is started in mode SKIP, or UPDATE for teachers, the one that is alone  *)
(* in UPDATE or for MIXED.  One import alone is started by calls that      *)
(* overlap, meets a crash or a rejection, and may be deleted; two are      *)
(* started one after the other, and meet a crash.                          *)
Focus ==
    /\ \/ \A u \in Users : roleCall[u] = NoCall
       \/ enabled = Users /\ \A u \in Users : override[u] = "none"
    /\ aux_stale # Users
    /\ \A r \in Runs : Cardinality(hours[r]) <= 1
    /\ Cardinality(bookings) + Cardinality({u \in Bookers : booking[u] # NoBooking}) <= 2
    /\ (\E b \in bookings : b.unit \in Resources) => active = NoRun
    /\ (\A j \in DsgvoIds : dsgvo[j] # NoDsgvo) \/ granting # NoDsgvo => dsgvoFaults = 0
    /\ Cardinality(records) <= 1
    /\ importCrashes + rejectedSoFar <= 1
    /\ \A c \in Callers : starting[c] # NoTask =>
          <<starting[c].task.entity, starting[c].task.mode>>
              \in {<<"MIXED", "SKIP">>, <<"TEACHERS", "SKIP">>, <<"TEACHERS", "UPDATE">>}
    /\ moving = "import" =>
          /\ uploaded \subseteq {1}
          /\ \A c \in Callers : starting[c] # NoTask =>
                <<starting[c].task.entity, starting[c].task.mode>> # <<"TEACHERS", "SKIP">>
    /\ moving = "imports" =>
          /\ Cardinality({c \in Callers : starting[c] # NoTask}) <= (IF uploaded = Imports THEN 1 ELSE 0)
          /\ rejectedSoFar = 0 /\ \A j \in uploaded : import[j] # NoImport

(* Every component keeps its types.                                        *)
TypeOK == /\ ImportTypeOK /\ DsgvoTypeOK /\ RetentionTypeOK
          /\ BookingTypeOK /\ AccountTypeOK /\ LinkTypeOK
=============================================================================
