------------------------------ MODULE ReportsMC ------------------------------
(* A small instance of Reports for TLC. *)
EXTENDS Reports, TLC

CONSTANTS r1, r2, t1, t2, n1, n2, q1, q2, file

\* "daily sales" and "daily_sales": two names, one file.
OneFile == n1 :> file @@ n2 :> file

DifferentNames == t1 :> "daily" @@ t2 :> "weekly"

\* A request on a report, and any request.
OpsOfEach == q1 :> {"saveQuery", "updateReport"} @@ q2 :> Ops \ {"none", "saveQuery"}
=============================================================================
