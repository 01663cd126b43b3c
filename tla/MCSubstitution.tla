--------------------------- MODULE MCSubstitution ---------------------------
(***************************************************************************)
(* Substitution for TLC: one period of one A week.                         *)
(***************************************************************************)
EXTENDS Substitution, TLC

CONSTANTS anna, bert, cora, run1, run2, q1, q2

MCTeachers == {anna, bert, cora}
MCRuns == {run1, run2}
MCRequests == {q1, q2}

Lesson(t, subject, p, w) == [teacher |-> t, classSubject |-> subject, period |-> p, week |-> w]

(* Anna and Bert both teach in the first period of A weeks; the second run *)
(* moves Anna's lesson to B weeks and takes Bert's away.                   *)
MCPlan == run1 :> {Lesson(anna, "1aM", 1, "BOTH"), Lesson(bert, "1bD", 1, "A")}
       @@ run2 :> {Lesson(anna, "1aM", 1, "B")}

(* Of the lessons opened before their substitution is settled, Anna's is   *)
(* enough.                                                                 *)
Focus == \A e \in entries : e.sub = NoSub => e.key = <<"1aM", 1, 1, "BOTH">>

Symmetry == Permutations(MCRequests)
=============================================================================
