------------------------ MODULE TaskSchedulerFaultsMC ------------------------
(* Small instances of TaskSchedulerFaults for TLC. *)
EXTENDS TaskSchedulerFaults, TLC

CONSTANTS r1, t1, t2

OneReport == {r1}
BothOfOne == t1 :> r1 @@ t2 :> r1
OneOfOne  == t1 :> r1
=============================================================================
