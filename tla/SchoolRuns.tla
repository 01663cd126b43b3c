----------------------------- MODULE SchoolRuns -----------------------------
(***************************************************************************)
(* What the table of solve runs promises a school, whatever the solver,    *)
(* the job queue and the callbacks do: runs are numbered in the order they *)
(* are created, one of the MaxRuns newest is never removed, and at most    *)
(* one run is the active timetable.  SolveRun implements this.             *)
(***************************************************************************)
EXTENDS Naturals

CONSTANTS MaxStarts,   \* bound on the runs a school ever starts
          MaxRuns      \* MAX_RUNS_PER_SCHOOL

VARIABLES last,        \* number of the newest run ever created, 0 before the first
          live,        \* the runs that still have a row
          active       \* the runs whose row says isActive

absVars == <<last, live, active>>

Outdated(r) == r + MaxRuns <= last

AbsInit == last = 0 /\ live = {} /\ active = {}

AbsCreate ==
    /\ last < MaxStarts
    /\ last' = last + 1
    /\ live' = live \cup {last + 1}
    /\ UNCHANGED active

AbsTrim(gone) ==
    /\ \A r \in gone : Outdated(r)
    /\ live' = live \ gone
    /\ active' = active \ gone
    /\ UNCHANGED last

AbsActivate(r) ==
    /\ active' = {r}
    /\ UNCHANGED <<last, live>>

AbsDeactivate(r) ==
    /\ active' = active \ {r}
    /\ UNCHANGED <<last, live>>

AbsNext ==
    \/ AbsCreate
    \/ \E gone \in SUBSET live : AbsTrim(gone)
    \/ \E r \in live : AbsActivate(r) \/ AbsDeactivate(r)

AbsSpec == AbsInit /\ [][AbsNext]_absVars
=============================================================================
