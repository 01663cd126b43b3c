---------------------------- MODULE MCMasterData ----------------------------
(***************************************************************************)
(* What a timetable is made from and checked with, on small instances: the *)
(* partition of a solution, the solver's input and output, a class's       *)
(* Stundentafel, and the deletion of master data.  They share no state: a  *)
(* behaviour moves one of them, so the run explores the sum of their state *)
(* spaces and not the product.                                             *)
(***************************************************************************)
EXTENDS LessonPartition, Scheduling, Curriculum, SchoolRecords, TLC

VARIABLE moving

Course(cl, g, t, h, cycle, ty) ==
    [class |-> cl, group |-> g, teacher |-> t, hours |-> h, length |-> cycle[1], mask |-> cycle[2], type |-> ty]

(* The first course is of class 1A and may be long, in a group, without a  *)
(* teacher or taught in A weeks only; the second in B weeks only, or in    *)
(* the gym, of the same class or another.                                  *)
MCFirst == {Course("1A", g, t, h, cycle, NoType) :
               g \in {NoGroup, "g1"}, t \in {NoTeacher, "t1"}, h \in 1 .. 2, cycle \in {<<1, 0>>, <<2, 1>>}}
MCSecond == {Course(cl, g, t, 1, cycle, ty) :
                cl \in {"1A", "1B"}, g \in {NoGroup, "g2"}, t \in {NoTeacher, "t1"},
                cycle \in {<<1, 0>>, <<2, 2>>}, ty \in {NoType, "gym"}}
MCRooms == {{[id |-> "r1", type |-> "class"]},
            {[id |-> "r1", type |-> "class"], [id |-> "r2", type |-> "gym"]}}
MCAfter(m) == [type |-> "NO_LESSONS_AFTER", class |-> "1A", max |-> m]
MCTemplates == {{}, {MCAfter(1), MCAfter(2), [type |-> "BLOCK_TIMESLOT", teacher |-> "t1", day |-> "MONDAY", period |-> 2]}}
MCSchools == {[courses |-> ("c1" :> first) @@ ("c2" :> second), ab |-> ab, rooms |-> rooms, templates |-> templates] :
                 first \in MCFirst, second \in MCSecond, ab \in BOOLEAN, rooms \in MCRooms, templates \in MCTemplates}

MCOwnTemplate == ("D" :> 2) @@ ("M" :> 3)
MCCatalogue == {MCOwnTemplate, "D" :> 3}

(* What the components that do not move are stuck at.                      *)
Still ==
    /\ moving = "partition" \/ candidates = [i \in Indices |-> CHOOSE c \in Candidate : TRUE]
    /\ moving = "scheduling" \/ school = CHOOSE s \in Schools : TRUE
    /\ moving = "records" \/ entity = CHOOSE e \in Entities : TRUE

MasterInit ==
    /\ moving \in {"partition", "scheduling", "curriculum", "records"}
    /\ Still
    /\ Init /\ SchedulingInit /\ CurriculumInit /\ RecordsInit

MasterNext ==
    /\ UNCHANGED moving
    /\ IF moving = "partition" THEN Next ELSE UNCHANGED vars
    /\ IF moving = "scheduling" THEN SchedulingNext ELSE UNCHANGED schedulingVars
    /\ IF moving = "curriculum" THEN CurriculumNext ELSE UNCHANGED curriculumVars
    /\ IF moving = "records" THEN RecordsNext ELSE UNCHANGED recordsVars

MasterSpec == MasterInit /\ [][MasterNext]_<<moving, vars, schedulingVars, curriculumVars, recordsVars>>

(* Between a count and its delete four columns at most are written, though *)
(* they may be written, cleared and written again.                         *)
Focus == Cardinality(aux_late) <= 4

(* Every component keeps its types.                                        *)
MasterTypeOK == TypeOK /\ SchedulingTypeOK /\ CurriculumTypeOK /\ RecordsTypeOK
=============================================================================
