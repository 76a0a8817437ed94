--------------------------- MODULE TaskSchedulerMC ---------------------------
(* Small instances of TaskScheduler for TLC. *)
EXTENDS TaskScheduler, TLC

CONSTANTS r1, r2, t1, t2

\* One report whose task may be deleted and replaced by a second one.
OneReport   == {r1}
BothOfOne   == t1 :> r1 @@ t2 :> r1
OneOfOne    == t1 :> r1

\* Two reports with a task each.
TwoReports  == {r1, r2}
OneOfEach   == t1 :> r1 @@ t2 :> r2

Symmetric == Permutations(Runs) \cup Permutations(Polls)
=============================================================================
