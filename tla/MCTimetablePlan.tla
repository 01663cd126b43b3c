-------------------------- MODULE MCTimetablePlan --------------------------
(***************************************************************************)
(* TimetablePlan for TLC: two lessons of one class on the plan, and two of *)
(* another that the solver had no place for.                               *)
(***************************************************************************)
EXTENDS TimetablePlan, TLC

CONSTANTS a1, a2, t1, t2, c1, c2, r1, r2, s1, s2, d1, d2

MCGiven == << [teacher |-> t1, class |-> c1, room |-> r1, slot |-> s1, week |-> "A"],
              [teacher |-> t2, class |-> c1, room |-> r1, slot |-> s2, week |-> "A"] >>

MCDropped ==
    d1 :> [kind |-> "teacher",
           lesson |-> [teacher |-> t1, class |-> c2, room |-> r2, slot |-> s1, week |-> "A"]]
    @@
    d2 :> [kind |-> "room",
           lesson |-> [teacher |-> t2, class |-> c2, room |-> r1, slot |-> s1, week |-> "A"]]

(* Once a write was stale the history promises nothing; once the plan has  *)
(* been edited the run stays the active one; conflicts are resolved by     *)
(* both admins before the first edit, and by one before the third.         *)
Focus ==
    /\ ~aux_stale
    /\ isActive \/ edits = << >>
    /\ Len(edits) >= 3 => \A a \in Admins : op[a].do # "resolve"
    /\ op[a1].do = "resolve" => edits = << >>
=============================================================================
