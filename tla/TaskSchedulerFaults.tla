------------------------- MODULE TaskSchedulerFaults -------------------------
(***************************************************************************)
(* TaskScheduler in a process that may crash and restart, over a database  *)
(* that may reject a statement.  The task table is all that survives.      *)
(***************************************************************************)
EXTENDS TaskScheduler

CONSTANT MaxFaults      \* bound: crashes and rejected statements in a behaviour

ASSUME MaxFaultsIsNat == MaxFaults \in Nat

VARIABLE faults         \* how many there were

faultVars == <<vars, faults>>

TypeOKF == TypeOK /\ faults \in 0 .. MaxFaults

Fault == faults < MaxFaults /\ faults' = faults + 1
-----------------------------------------------------------------------------
\* The registry, the polls, the executions and the requests are in memory only.
ProcessDies ==
    /\ proc' = "down"
    /\ job'  = [t \in Tasks |-> NoJob]
    /\ poll' = [p \in Polls |-> IdlePoll]
    /\ run'  = [t \in Tasks |-> [r \in Runs |-> IdleRun]]
    /\ req'  = [q \in Requests |-> IdleReq]
    /\ UNCHANGED <<reports, rtype, row>>

Crash == proc # "down" /\ Fault /\ ProcessDies

\* Seeded bug: the interval is started but the first load is not.
RestartIdle ==
    /\ proc = "down"
    /\ proc' = "booting"
    /\ UNCHANGED <<reports, rtype, row, job, poll, run, req, faults>>

\* onApplicationBootstrap loads the jobs first and starts the interval afterwards.
Restart ==
    /\ proc = "down"
    /\ proc' = "booting"
    /\ \E b \in Polls : poll' = FirstPoll(b)
    /\ UNCHANGED <<reports, rtype, row, job, run, req, faults>>

\* A query of the load is rejected: the interval logs that and waits for its next
\* tick, the bootstrap throws and the process exits.
PollRejected(p) ==
    /\ poll[p].pc \in {"read1", "read2", "read3"}
    /\ Fault
    /\ IF proc = "booting"
         THEN ProcessDies
         ELSE /\ poll' = [poll EXCEPT ![p] = IdlePoll]
              /\ UNCHANGED <<proc, reports, rtype, row, job, run, req>>

\* A status update is rejected.  Inside executeTaskAsync the catch block is next;
\* before it, or in the catch block itself, the callback's promise is rejected.
\* Nobody handles that: the process dies, unless an error tracker is listening.
UpdateRejected(t, r) ==
    /\ Fault
    /\ \/ /\ run[t][r].pc \in {"claimed", "sent", "unsent"}
          /\ run' = [run EXCEPT ![t][r].pc = "errored"]
          /\ UNCHANGED <<proc, reports, rtype, row, job, poll, req>>
       \/ /\ run[t][r].pc \in {"fired", "errored"}
          /\ \/ ProcessDies
             \/ /\ run' = [run EXCEPT ![t][r] = IdleRun]
                /\ UNCHANGED <<proc, reports, rtype, row, job, poll, req>>

\* A statement of a request is rejected: the ones before it stay done.
RequestRejected(q) ==
    /\ Fault
    /\ req[q].pc # "idle"
    /\ req' = [req EXCEPT ![q] = IdleReq]
    /\ UNCHANGED <<proc, reports, rtype, row, job, poll, run>>
-----------------------------------------------------------------------------
InitF == Init /\ faults = 0

NextF ==
    \/ Next /\ UNCHANGED faults
    \/ Crash \/ Restart
    \/ \E p \in Polls : PollRejected(p)
    \/ \E t \in Tasks, r \in Runs : UpdateRejected(t, r)
    \/ \E q \in Requests : RequestRejected(q)

SpecF == InitF /\ [][NextF]_faultVars

\* As in TaskScheduler; a process that died is started again.
FairnessF ==
    /\ WF_faultVars(Restart)
    /\ \A p \in Polls :
          /\ WF_faultVars(PollStarts(p) /\ UNCHANGED faults)
          /\ WF_faultVars(Polling(p) /\ UNCHANGED faults)
    /\ \A t \in Tasks, r \in Runs : WF_faultVars(Executing(t, r) /\ UNCHANGED faults)
    /\ \A q \in Requests : WF_faultVars(Serving(q) /\ UNCHANGED faults)

FairSpecF == SpecF /\ FairnessF
-----------------------------------------------------------------------------
\* When a bootstrap ends and the first request may arrive, every task that waits for
\* its time, and every finished task of a recurring report, has a job with its own
\* expression, whatever was half done when the process died and whatever ticks fired
\* while it was still loading.
BootArmsEverything ==
    [][proc = "booting" /\ proc' = "up" =>
          \A t \in Tasks :
              \/ row[t].status = "SCHEDULED"
              \/ row[t].status \in Done /\ rtype.freq = "RECURRING"
            => Armed(t)']_faultVars
=============================================================================
