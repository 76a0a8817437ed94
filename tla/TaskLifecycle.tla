---------------------------- MODULE TaskLifecycle ----------------------------
(***************************************************************************)
(* What the scheduler promises about the status of a task, without cron    *)
(* jobs, polls, requests or the steps of an execution.  Executions of one  *)
(* task may overlap; each makes at most one report mail, and a task is     *)
(* COMPLETED only from RUNNING, by an execution whose mail was accepted    *)
(* and which counts once.                                                  *)
(***************************************************************************)
CONSTANTS
    Tasks,      \* task identifiers
    Runs        \* names of the executions of one task

VARIABLES
    status,     \* the status of each row, or "unborn" or "deleted" without one
    active,     \* the executions of each task that have not ended
    mailed      \* those of them whose mail was accepted

vars == <<status, active, mailed>>

Statuses == {"unborn", "deleted", "SCHEDULED", "QUEUED", "RUNNING", "COMPLETED",
             "FAILED", "CANCELLED"}

\* A conditional update: it does nothing to a row in another status.
Moves(t, from, to) ==
    status' = IF status[t] \in from THEN [status EXCEPT ![t] = to] ELSE status

Init ==
    /\ status = [t \in Tasks |-> "unborn"]
    /\ active = [t \in Tasks |-> {}]
    /\ mailed = [t \in Tasks |-> {}]

Fires(t, r) ==
    /\ r \notin active[t]
    /\ active' = [active EXCEPT ![t] = @ \cup {r}]
    /\ UNCHANGED <<status, mailed>>

Queues(t, r) ==
    /\ r \in active[t] \ mailed[t]
    /\ Moves(t, {"SCHEDULED", "COMPLETED", "FAILED"}, "QUEUED")
    /\ UNCHANGED <<active, mailed>>

Starts(t, r) ==
    /\ r \in active[t] \ mailed[t]
    /\ Moves(t, {"QUEUED"}, "RUNNING")
    /\ UNCHANGED <<active, mailed>>

Mails(t, r) ==
    /\ r \in active[t] \ mailed[t]
    /\ mailed' = [mailed EXCEPT ![t] = @ \cup {r}]
    /\ UNCHANGED <<status, active>>

Completes(t, r) ==
    /\ r \in mailed[t]
    /\ Moves(t, {"RUNNING"}, "COMPLETED")
    /\ active' = [active EXCEPT ![t] = @ \ {r}]
    /\ mailed' = [mailed EXCEPT ![t] = @ \ {r}]

\* An execution without a mail ends; one that never started may fail a QUEUED row.
Fails(t, r) ==
    /\ r \in active[t] \ mailed[t]
    /\ \/ Moves(t, {"RUNNING"}, "FAILED")
       \/ Moves(t, {"QUEUED", "RUNNING"}, "FAILED")
    /\ active' = [active EXCEPT ![t] = @ \ {r}]
    /\ UNCHANGED mailed

\* A user schedules tasks: new ones, old ones whatever they are doing, and, if the
\* user read them before they were deleted, deleted ones.
Schedules(ts) ==
    /\ status' = [t \in Tasks |-> IF t \in ts THEN "SCHEDULED" ELSE status[t]]
    /\ UNCHANGED <<active, mailed>>

Deletes(ts) ==
    /\ \A t \in ts : status[t] # "unborn"
    /\ status' = [t \in Tasks |-> IF t \in ts THEN "deleted" ELSE status[t]]
    /\ UNCHANGED <<active, mailed>>

Cancels(t) ==
    /\ status[t] \notin {"unborn", "deleted"}
    /\ status' = [status EXCEPT ![t] = "CANCELLED"]
    /\ UNCHANGED <<active, mailed>>

Next ==
    \/ \E t \in Tasks, r \in Runs :
          Fires(t, r) \/ Queues(t, r) \/ Starts(t, r) \/ Mails(t, r)
            \/ Completes(t, r) \/ Fails(t, r)
    \/ \E ts \in SUBSET Tasks : Schedules(ts) \/ Deletes(ts)
    \/ \E t \in Tasks : Cancels(t)

Spec == Init /\ [][Next]_vars
=============================================================================
