----------------------------- MODULE MCSolveRun -----------------------------
(***************************************************************************)
(* SolveRun for TLC: what each run leaves out to stay small.  A state that *)
(* violates a constraint is still checked, but not explored further.       *)
(***************************************************************************)
EXTENDS SolveRun

(* Stops are left to the run with a single solve run.                      *)
NoStopInFlight == stopping = {}
=============================================================================
