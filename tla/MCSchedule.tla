----------------------------- MODULE MCSchedule -----------------------------
(***************************************************************************)
(* Two schedules with two runs.  The runs are of j1, so that they contend  *)
(* for one semaphore, work under several, or outlive the record; j2 may be *)
(* refused and is of an industry instance, so that j1 is loaded by a       *)
(* rebuild that fails on j2, and a stop, a resume or a restart finds one   *)
(* of the two and not the other.                                           *)
(***************************************************************************)
EXTENDS ScheduleControl, TLC

CONSTANTS j1, j2, r1, r2

TwoJobs == {j1, j2}
TwoRuns == {r1, r2}
OfTheFirst == [r \in TwoRuns |-> j1]
TheSecond == {j2}
Symmetry == Permutations(TwoRuns)
=============================================================================
