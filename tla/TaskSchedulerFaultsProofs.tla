----------------------- MODULE TaskSchedulerFaultsProofs -----------------------
(***************************************************************************)
(* Theorems about TaskSchedulerFaults: what holds however often the        *)
(* process crashes and however many statements the database rejects.       *)
(***************************************************************************)
EXTENDS TaskSchedulerFaults, TaskSchedulerProofs

(* Types and rows. *)

\* What a crash or a rejected statement leaves of the memory of the process.
LEMMA ProcessDiesType ==
    ASSUME TypeOK, ProcessDies PROVE TypeOK'
BY DEF ProcessDies, TypeOK, Jobs, IdlePoll, PollPc, RunRec, RunPc, IdleRun, ReqRecs,
       IdleReq

LEMMA FaultType ==
    ASSUME TypeOKF, Fault PROVE faults' \in 0 .. MaxFaults
BY MaxFaultsIsNat DEF TypeOKF, Fault

LEMMA NextFType ==
    ASSUME TypeOKF, [NextF]_faultVars PROVE TypeOKF'
<1>0. TypeOK /\ faults \in 0 .. MaxFaults
  BY DEF TypeOKF
<1>1. CASE Next /\ UNCHANGED faults
  BY <1>0, <1>1, NextType DEF TypeOKF
<1>2. CASE Crash
  BY <1>0, <1>2, ProcessDiesType, FaultType DEF Crash, TypeOKF
<1>3. CASE Restart
  <2>1. TypeOK'
    BY <1>0, <1>3 DEF Restart, FirstPoll, TypeOK, PollPc
  <2>2. QED
    BY <1>0, <1>3, <2>1 DEF Restart, TypeOKF
<1>4. ASSUME NEW p \in Polls, PollRejected(p) PROVE TypeOKF'
  <2>1. TypeOK'
    <3>1. CASE ProcessDies
      BY <1>0, <3>1, ProcessDiesType
    <3>2. CASE poll' = [poll EXCEPT ![p] = IdlePoll]
               /\ UNCHANGED <<proc, reports, rtype, row, job, run, req>>
      BY <1>0, <3>2 DEF TypeOK, IdlePoll, PollPc
    <3>3. QED
      BY <1>4, <3>1, <3>2 DEF PollRejected
  <2>2. QED
    BY <1>4, <2>1, FaultType DEF PollRejected, TypeOKF
<1>5. ASSUME NEW t \in Tasks, NEW r \in Runs, UpdateRejected(t, r) PROVE TypeOKF'
  <2>1. TypeOK'
    <3>1. CASE ProcessDies
      BY <1>0, <3>1, ProcessDiesType
    <3>2. CASE run' = [run EXCEPT ![t][r].pc = "errored"]
               /\ UNCHANGED <<proc, reports, rtype, row, job, poll, req>>
      <4>1. [run[t][r] EXCEPT !.pc = "errored"] \in RunRec
        BY <1>0 DEF TypeOK, RunRec, RunPc
      <4>2. QED
        BY <1>0, <3>2, <4>1 DEF TypeOK
    <3>3. CASE run' = [run EXCEPT ![t][r] = IdleRun]
               /\ UNCHANGED <<proc, reports, rtype, row, job, poll, req>>
      <4>1. IdleRun \in RunRec
        BY DEF RunRec, RunPc, IdleRun
      <4>2. QED
        BY <1>0, <3>3, <4>1 DEF TypeOK
    <3>4. QED
      BY <1>5, <3>1, <3>2, <3>3 DEF UpdateRejected
  <2>2. QED
    BY <1>5, <2>1, FaultType DEF UpdateRejected, TypeOKF
<1>6. ASSUME NEW q \in Requests, RequestRejected(q) PROVE TypeOKF'
  <2>1. TypeOK'
    BY <1>0, <1>6 DEF RequestRejected, TypeOK, ReqRecs, IdleReq
  <2>2. QED
    BY <1>6, <2>1, FaultType DEF RequestRejected, TypeOKF
<1>7. CASE UNCHANGED faultVars
  <2>1. TypeOK'
    BY <1>0, <1>7 DEF faultVars, vars, TypeOK
  <2>2. QED
    BY <1>0, <1>7, <2>1 DEF faultVars, TypeOKF
<1>8. QED
  BY <1>1, <1>2, <1>3, <1>4, <1>5, <1>6, <1>7 DEF NextF

\* The types hold whatever is cut off half done.
THEOREM FaultsTypeCorrect == SpecF => []TypeOKF
<1>1. InitF => TypeOKF
  BY InitType, MaxFaultsIsNat DEF InitF, TypeOKF
<1>2. TypeOKF /\ [NextF]_faultVars => TypeOKF'
  BY NextFType
<1>3. QED
  BY <1>1, <1>2, PTL DEF SpecF

\* Crashes and rejected statements write no row.
LEMMA FaultsWriteNothing ==
    ASSUME [NextF]_faultVars PROVE UNCHANGED <<row, reports>> \/ [Next]_vars
BY DEF NextF, Crash, Restart, PollRejected, UpdateRejected, RequestRejected, ProcessDies,
       faultVars

\* Reports and tasks stay in step although requests are cut off between their statements.
THEOREM OneTaskPerReportSurvives == SpecF => []OneTaskPerReport
<1>1. InitF => OneTaskPerReport
  BY DEF InitF, Init, OneTaskPerReport, Absent
<1>2. TypeOKF /\ OneTaskPerReport /\ [NextF]_faultVars => OneTaskPerReport'
  <2> SUFFICES ASSUME TypeOKF, OneTaskPerReport, [NextF]_faultVars PROVE OneTaskPerReport'
    OBVIOUS
  <2>1. CASE [Next]_vars
    BY <2>1, OneTaskPerReportKept DEF TypeOKF
  <2>2. CASE UNCHANGED <<row, reports>>
    BY <2>2 DEF OneTaskPerReport
  <2>3. QED
    BY <2>1, <2>2, FaultsWriteNothing
<1>3. QED
  BY <1>1, <1>2, FaultsTypeCorrect, PTL DEF SpecF
-----------------------------------------------------------------------------
(* The bootstrap. *)

\* Without a process there is nothing in memory.
NothingRuns ==
    /\ \A t \in Tasks : ~job[t].live /\ \A r \in Runs : run[t][r].pc = "idle"
    /\ \A p \in Polls : poll[p].pc = "idle"
    /\ \A q \in Requests : req[q].pc = "idle"

\* The tasks the first query of a load must not miss.
DueAgain(t) == row[t].status \in Done /\ rtype.freq = "RECURRING"

IsFound(b, t) == \E f \in poll[b].found : f.task = t
FoundAsIs(b)  == \A f \in poll[b].found : f.cron = row[f.task].cron

\* The bootstrap is a load by poll b alone.  Jobs appear at its first loop; those tick
\* while it still loads, and move their rows, but never to SCHEDULED, and never to a
\* finished status without a job.
Loading(b) ==
    /\ \A p \in Polls \ {b} : poll[p].pc = "idle"
    /\ \A q \in Requests : req[q].pc = "idle"
    /\ \A t \in Tasks : job[t].live => job[t].cron = row[t].cron
    /\ \A t \in Tasks, r \in Runs :
          run[t][r].pc # "idle" => job[t].live \/ row[t].status = "CANCELLED"
    /\ poll[b].pc \in {"read1", "got1"} => \A t \in Tasks : ~job[t].live
    /\ poll[b].pc = "got1" =>
          FoundAsIs(b) /\ \A t \in Tasks : DueAgain(t) => IsFound(b, t)
    /\ poll[b].pc \in {"read2", "got2", "read3", "got3"} =>
          \A t \in Tasks : DueAgain(t) => job[t].live
    /\ poll[b].pc = "got2" => \A f \in poll[b].found : row[f.task].status = "CANCELLED"
    /\ poll[b].pc = "got3" =>
          FoundAsIs(b) /\ \A t \in Tasks : row[t].status = "SCHEDULED" => IsFound(b, t)

BootInv ==
    /\ proc = "down" => NothingRuns
    /\ proc = "booting" => \E b \in Polls : Loading(b)

\* What the steps of executions and operators may do to a load that goes on.
Quietly ==
    /\ UNCHANGED <<job, poll, rtype, req>>
    /\ \A t \in Tasks :
          /\ row'[t].cron = row[t].cron
          /\ row'[t].status # row[t].status =>
                \/ row'[t].status = "CANCELLED"
                \/ /\ job[t].live /\ row[t].status # "CANCELLED"
                   /\ row'[t].status # "SCHEDULED"
          /\ \A r \in Runs :
                run'[t][r].pc # "idle" => job[t].live \/ row'[t].status = "CANCELLED"

LEMMA QuietlyLoading ==
    ASSUME TypeOK, NEW b \in Polls, Loading(b), Quietly
    PROVE  Loading(b)'
<1>1. \A f \in poll[b].found : f.task \in Tasks
  BY DEF TypeOK, Found
<1>2. UNCHANGED <<job, poll, rtype, req>>
  BY DEF Quietly
<1>3. \A t \in Tasks : (IsFound(b, t))' <=> IsFound(b, t)
  BY <1>2 DEF IsFound
<1>4. FoundAsIs(b) => FoundAsIs(b)'
  BY <1>1, <1>2 DEF FoundAsIs, Quietly
<1>5. ASSUME NEW t \in Tasks, DueAgain(t)' PROVE DueAgain(t) \/ job[t].live
  BY <1>2, <1>5 DEF DueAgain, Quietly, Done
<1>6. \A t \in Tasks : row'[t].status = "SCHEDULED" => row[t].status = "SCHEDULED"
  BY DEF Quietly
<1>7. \A t \in Tasks : row[t].status = "CANCELLED" /\ ~(row'[t].status = "CANCELLED") => FALSE
  BY DEF Quietly
<1>8. QED
  BY <1>1, <1>2, <1>3, <1>4, <1>5, <1>6, <1>7 DEF Loading, Quietly

\* A conditional update changes at most one status.
LEMMA UpdateChanges ==
    ASSUME row \in [Tasks -> Rows], NEW t \in Tasks, NEW to \in Live, NEW from \in SUBSET Live,
           UpdateStatus(t, to, from)
    PROVE  /\ \A u \in Tasks : row'[u].cron = row[u].cron
           /\ \A u \in Tasks \ {t} : row'[u] = row[u]
           /\ \/ row'[t].status = row[t].status
              \/ row[t].status \in from /\ row'[t].status = to
<1>1. CASE row[t].status \in from
  <2>1. row[t] \in [status : Live, cron : Crons, linked : BOOLEAN]
    BY <1>1 DEF Rows, Absent, Live
  <2>2. /\ row'[t] = [row[t] EXCEPT !.status = to]
        /\ \A u \in Tasks \ {t} : row'[u] = row[u]
    BY <1>1 DEF UpdateStatus
  <2>3. row'[t].status = to /\ row'[t].cron = row[t].cron
    BY <2>1, <2>2
  <2>4. QED
    BY <1>1, <2>2, <2>3
<1>2. CASE row[t].status \notin from
  BY <1>2 DEF UpdateStatus
<1>3. QED
  BY <1>1, <1>2

\* An execution moves its own row, and only while it is active.
LEMMA ExecutingChanges ==
    ASSUME TypeOK, NEW t \in Tasks, NEW r \in Runs, Executing(t, r)
    PROVE  /\ run[t][r].pc # "idle"
           /\ \A u \in Tasks, s \in Runs : run'[u][s].pc # "idle" => run[u][s].pc # "idle"
           /\ \A u \in Tasks : row'[u].cron = row[u].cron
           /\ \A u \in Tasks \ {t} : row'[u] = row[u]
           /\ \/ row'[t].status = row[t].status
              \/ row[t].status # "CANCELLED" /\ row'[t].status # "SCHEDULED"
           /\ UNCHANGED <<proc, rtype, job, poll, req>>
<1>0. row \in [Tasks -> Rows] /\ run \in [Tasks -> [Runs -> RunRec]]
  BY DEF TypeOK
<1>1. ASSUME NEW from \in RunPc \ {"idle"}, NEW to, Step(t, r, from, to) \/ Ends(t, r, from)
      PROVE  /\ run[t][r].pc # "idle"
             /\ \A u \in Tasks, s \in Runs :
                   run'[u][s].pc # "idle" => run[u][s].pc # "idle"
             /\ UNCHANGED <<proc, rtype, job, poll, req>>
  <2>1. \E rec : run' = [run EXCEPT ![t][r] = rec]
    BY <1>1 DEF Step, Ends
  <2>2. run[t][r].pc = from
    BY <1>1 DEF Step, Ends
  <2>3. QED
    BY <1>0, <1>1, <2>1, <2>2 DEF Step, Ends
<1>2. ASSUME NEW to \in Live \ {"SCHEDULED"}, NEW from \in SUBSET (Live \ {"CANCELLED"}),
             UpdateStatus(t, to, from)
      PROVE  /\ \A u \in Tasks : row'[u].cron = row[u].cron
             /\ \A u \in Tasks \ {t} : row'[u] = row[u]
             /\ \/ row'[t].status = row[t].status
                \/ row[t].status # "CANCELLED" /\ row'[t].status # "SCHEDULED"
  BY <1>0, <1>2, UpdateChanges
<1>3. CASE QueueTask(t, r)
  BY <1>1, <1>2, <1>3 DEF QueueTask, RunPc, Live
<1>4. CASE StartRunning(t, r)
  BY <1>1, <1>2, <1>4 DEF StartRunning, RunPc, Live
<1>5. CASE Work(t, r)
  BY <1>1, <1>5 DEF Work, RunPc
<1>6. CASE SendMail(t, r)
  BY <1>1, <1>6 DEF SendMail, RunPc
<1>7. CASE Complete(t, r)
  BY <1>1, <1>2, <1>7 DEF Complete, RunPc, Live
<1>8. CASE FailUnsent(t, r)
  BY <1>1, <1>2, <1>8 DEF FailUnsent, RunPc, Live
<1>9. CASE FailErrored(t, r)
  BY <1>1, <1>2, <1>9 DEF FailErrored, RunPc, Live
<1>10. QED
  BY <1>3, <1>4, <1>5, <1>6, <1>7, <1>8, <1>9 DEF Executing

\* The queries and loops of the bootstrap.
LEMMA PollingLoading ==
    ASSUME TypeOK, NEW b \in Polls, Loading(b), Polling(b)
    PROVE  /\ Loading(b)'
           /\ proc = "booting" /\ proc' = "up" =>
                 /\ UNCHANGED <<row, rtype>>
                 /\ \A t \in Tasks :
                       row[t].status = "SCHEDULED" \/ DueAgain(t) => Armed(t)'
<1>0. /\ poll \in [Polls -> [pc : PollPc, found : SUBSET Found]]
      /\ job \in [Tasks -> Jobs]
      /\ \A f \in poll[b].found : f.task \in Tasks
  BY DEF TypeOK, Found
<1>1. ASSUME NEW pc, NEW next, NEW ts \in SUBSET Tasks, Reads(b, pc, next, ts)
      PROVE  /\ poll[b].pc = pc
             /\ poll'[b].pc = next
             /\ \A p \in Polls \ {b} : poll'[p] = poll[p]
             /\ FoundAsIs(b)'
             /\ \A t \in Tasks : IsFound(b, t)' <=> t \in ts
             /\ \A f \in poll'[b].found : f.task \in ts
             /\ UNCHANGED <<proc, reports, rtype, row, job, run, req>>
  <2>1. /\ poll[b].pc = pc
        /\ poll'[b] = [pc    |-> next,
             found |-> {[task |-> t, cron |-> row[t].cron, linked |-> row[t].linked] :
                           t \in ts}]
        /\ \A p \in Polls \ {b} : poll'[p] = poll[p]
        /\ UNCHANGED <<proc, reports, rtype, row, job, run, req>>
    BY <1>0, <1>1 DEF Reads
  <2>2. ASSUME NEW f \in poll'[b].found
        PROVE  f.task \in ts /\ f.cron = row[f.task].cron
    BY <2>1, <2>2
  <2>3. ASSUME NEW t \in ts PROVE \E f \in poll'[b].found : f.task = t
    <3>1. [task |-> t, cron |-> row[t].cron, linked |-> row[t].linked] \in poll'[b].found
      BY <2>1
    <3>2. QED
      BY <3>1
  <2>4. FoundAsIs(b)'
    BY <2>1, <2>2 DEF FoundAsIs
  <2>5. \A t \in Tasks : IsFound(b, t)' <=> t \in ts
    BY <2>2, <2>3 DEF IsFound
  <2>6. QED
    BY <2>1, <2>2, <2>4, <2>5
<1>2. ASSUME NEW t \in Tasks, FoundAsIs(b), IsFound(b, t)
      PROVE  /\ (CHOOSE f \in poll[b].found : f.task = t) \in poll[b].found
             /\ (CHOOSE f \in poll[b].found : f.task = t).task = t
             /\ (CHOOSE f \in poll[b].found : f.task = t).cron = row[t].cron
  BY <1>2 DEF IsFound, FoundAsIs
<1>3. CASE ReadDone(b)
  <2> DEFINE ts == {t \in Tasks : /\ row[t].status \in Done
                                  /\ row[t].linked => rtype.freq # "ON_REQUEST"}
  <2>1. /\ poll[b].pc = "read1" /\ poll'[b].pc = "got1"
        /\ \A p \in Polls \ {b} : poll'[p] = poll[p]
        /\ FoundAsIs(b)'
        /\ \A t \in Tasks : IsFound(b, t)' <=> t \in ts
        /\ UNCHANGED <<proc, reports, rtype, row, job, run, req>>
    BY <1>1, <1>3 DEF ReadDone
  <2>2. \A t \in Tasks : DueAgain(t)' => IsFound(b, t)'
    BY <2>1 DEF DueAgain
  <2>3. QED
    BY <2>1, <2>2 DEF Loading
<1>4. CASE ReadStopped(b)
  BY <1>1, <1>4 DEF ReadStopped, Loading, DueAgain
<1>5. CASE ReadScheduled(b)
  BY <1>1, <1>5 DEF ReadScheduled, Loading, DueAgain
<1>6. ASSUME NEW pc, NEW next, NEW new(_), Registers(b, pc, next, new)
      PROVE  /\ poll[b].pc = pc
             /\ poll'[b].pc = next
             /\ \A p \in Polls \ {b} : poll'[p] = poll[p]
             /\ \A t \in Tasks : job'[t] =
                   IF IsFound(b, t) THEN new(CHOOSE f \in poll[b].found : f.task = t)
                                    ELSE job[t]
             /\ UNCHANGED <<reports, rtype, row, run, req>>
  BY <1>0, <1>6 DEF Registers, IsFound
<1>7. CASE RerunDone(b)
  <2>1. /\ poll[b].pc = "got1" /\ poll'[b].pc = "read2"
        /\ \A p \in Polls \ {b} : poll'[p] = poll[p]
        /\ \A t \in Tasks : job'[t] =
              IF IsFound(b, t) THEN JobFor(CHOOSE f \in poll[b].found : f.task = t)
                               ELSE job[t]
        /\ UNCHANGED <<proc, reports, rtype, row, run, req>>
    BY <1>0, <1>7 DEF RerunDone, Registers, IsFound
  <2>2. FoundAsIs(b) /\ \A t \in Tasks : DueAgain(t) => IsFound(b, t)
    BY <2>1 DEF Loading
  <2>3. \A t \in Tasks : IsFound(b, t) => job'[t].live /\ job'[t].cron = row[t].cron
    <3> SUFFICES ASSUME NEW t \in Tasks, IsFound(b, t)
                 PROVE  job'[t].live /\ job'[t].cron = row[t].cron
      OBVIOUS
    <3> DEFINE f == CHOOSE g \in poll[b].found : g.task = t
    <3>1. f.cron = row[t].cron /\ job'[t] = JobFor(f)
      BY <1>2, <2>1, <2>2
    <3>2. QED
      BY <3>1 DEF JobFor
  <2>4. QED
    BY <2>1, <2>2, <2>3 DEF Loading, DueAgain
<1>8. CASE StopStopped(b)
  <2>1. /\ poll[b].pc = "got2" /\ poll'[b].pc = "read3"
        /\ \A p \in Polls \ {b} : poll'[p] = poll[p]
        /\ \A t \in Tasks : job'[t] = IF IsFound(b, t) THEN NoJob ELSE job[t]
        /\ UNCHANGED <<proc, reports, rtype, row, run, req>>
    BY <1>0, <1>8 DEF StopStopped, Registers, StopCronJob, IsFound
  <2>2. \A t \in Tasks : IsFound(b, t) => row[t].status = "CANCELLED"
    BY <2>1 DEF Loading, IsFound
  <2>3. QED
    BY <2>1, <2>2 DEF Loading, DueAgain, Done, NoJob
<1>9. CASE RegisterScheduled(b)
  <2>1. /\ poll[b].pc = "got3" /\ poll'[b].pc = "idle"
        /\ \A p \in Polls \ {b} : poll'[p] = poll[p]
        /\ \A t \in Tasks : job'[t] =
              IF IsFound(b, t) THEN RegisterCronJob(CHOOSE f \in poll[b].found : f.task = t)
                               ELSE job[t]
        /\ UNCHANGED <<reports, rtype, row, run, req>>
    BY <1>0, <1>9 DEF RegisterScheduled, Registers, IsFound
  <2>2. /\ FoundAsIs(b) /\ \A t \in Tasks : row[t].status = "SCHEDULED" => IsFound(b, t)
        /\ \A t \in Tasks : DueAgain(t) => job[t].live
        /\ \A t \in Tasks : job[t].live => job[t].cron = row[t].cron
    BY <2>1 DEF Loading
  <2>3. \A t \in Tasks : IsFound(b, t) => job'[t].live /\ job'[t].cron = row[t].cron
    <3> SUFFICES ASSUME NEW t \in Tasks, IsFound(b, t)
                 PROVE  job'[t].live /\ job'[t].cron = row[t].cron
      OBVIOUS
    <3> DEFINE f == CHOOSE g \in poll[b].found : g.task = t
    <3>1. f.task = t /\ f.cron = row[t].cron /\ job'[t] = RegisterCronJob(f)
      BY <1>2, <2>1, <2>2
    <3> HIDE DEF f
    <3>2. QED
      BY <3>1 DEF RegisterCronJob, JobFor
  <2>4. \A t \in Tasks : job'[t].live => job'[t].cron = row[t].cron
    BY <2>1, <2>2, <2>3
  <2>5. \A t \in Tasks : job[t].live => job'[t].live
    BY <2>1, <2>3
  <2>6. Loading(b)'
    BY <2>1, <2>4, <2>5 DEF Loading
  <2>7. \A t \in Tasks :
            row[t].status = "SCHEDULED" \/ DueAgain(t) => Armed(t)'
    BY <2>1, <2>2, <2>3, <2>4, <2>5 DEF Armed
  <2>8. QED
    BY <2>1, <2>6, <2>7
<1>10. QED
  BY <1>3, <1>4, <1>5, <1>7, <1>8, <1>9 DEF Polling, ReadDone, ReadStopped, ReadScheduled,
     Reads, RerunDone, StopStopped

\* A new process begins with one load and nothing else.
LEMMA FirstPollLoads ==
    ASSUME TypeOK, NothingRuns, NEW b \in Polls, poll' = FirstPoll(b),
           UNCHANGED <<row, job, run, req>>
    PROVE  Loading(b)'
BY DEF TypeOK, NothingRuns, FirstPoll, Loading

\* A process that dies leaves nothing running.
LEMMA DeathStops ==
    ASSUME ProcessDies PROVE BootInv' /\ proc' = "down"
BY DEF ProcessDies, BootInv, NothingRuns, NoJob, IdlePoll, IdleRun, IdleReq

\* The steps of the service itself while it is down or starts.
LEMMA NextBoots ==
    ASSUME TypeOK, BootInv, Next, proc # "up"
    PROVE  /\ BootInv'
           /\ proc = "booting" /\ proc' = "up" =>
                 /\ UNCHANGED <<row, rtype>>
                 /\ \A t \in Tasks :
                       row[t].status = "SCHEDULED" \/ DueAgain(t) => Armed(t)'
<1>0. /\ proc \in {"booting", "down"}
      /\ row \in [Tasks -> Rows] /\ run \in [Tasks -> [Runs -> RunRec]]
  BY DEF TypeOK
<1>1. \A q \in Requests : ~Asking(q) /\ ~Serving(q)
  <2>1. \A q \in Requests : req[q].pc = "idle"
    BY <1>0 DEF BootInv, NothingRuns, Loading
  <2>2. QED
    BY <1>0, <2>1 DEF Asking, LoadReport, LoadType, LoadDoomed, Accepts, Serving, FindTask,
       SaveExisting, SaveNew, SaveType, SaveTasks, DeleteTask, DeleteReports, Awaits
<1>2. /\ \A p \in Polls : ~PollStarts(p)
      /\ \A rs \in SUBSET Reports : ~RemoveConnection(rs)
  BY <1>0 DEF PollStarts, RemoveConnection
<1>3. ASSUME NEW p \in Polls, Polling(p)
      PROVE  poll[p].pc # "idle"
  BY <1>3 DEF Polling, ReadDone, ReadStopped, ReadScheduled, Reads, RerunDone, StopStopped,
     RegisterScheduled, Registers
<1>4. ASSUME NEW t \in Tasks, OperatorCancels(t)
      PROVE  /\ \A u \in Tasks : /\ row'[u].cron = row[u].cron
                                 /\ \/ row'[u].status = row[u].status
                                    \/ row'[u].status = "CANCELLED"
             /\ UNCHANGED <<proc, rtype, job, poll, run, req>>
  <2>1. UpdateStatus(t, "CANCELLED", Live \ {"CANCELLED"})
    BY <1>4 DEF OperatorCancels, UpdateStatus
  <2>2. QED
    BY <1>0, <1>4, <2>1, UpdateChanges DEF OperatorCancels, Live
<1>5. CASE proc = "down"
  <2>1. NothingRuns
    BY <1>5 DEF BootInv
  <2>2. \A p \in Polls : ~Polling(p)
    BY <1>3, <2>1 DEF NothingRuns
  <2>3. \A t \in Tasks, r \in Runs : ~TickFires(t, r) /\ ~Executing(t, r)
    BY <2>1, ExecutingChanges DEF NothingRuns, TickFires
  <2>4. PICK t \in Tasks : OperatorCancels(t)
    BY <1>1, <1>2, <2>2, <2>3 DEF Next
  <2>5. QED
    BY <1>4, <1>5, <2>1, <2>4 DEF BootInv, NothingRuns
<1>6. CASE proc = "booting"
  <2>1. PICK b \in Polls : Loading(b)
    BY <1>6 DEF BootInv
  <2>2. ASSUME Loading(b)', proc' # "down" PROVE BootInv'
    BY <2>2 DEF BootInv
  <2>3. ASSUME NEW p \in Polls, Polling(p)
        PROVE  /\ BootInv'
               /\ proc = "booting" /\ proc' = "up" =>
                     /\ UNCHANGED <<row, rtype>>
                     /\ \A t \in Tasks :
                           row[t].status = "SCHEDULED" \/ DueAgain(t) => Armed(t)'
    <3>1. p = b
      BY <1>3, <2>1, <2>3 DEF Loading
    <3>2. proc' # "down"
      BY <1>6, <2>3 DEF Polling, ReadDone, ReadStopped, ReadScheduled, Reads, RerunDone,
         StopStopped, RegisterScheduled
    <3>3. QED
      BY <2>1, <2>2, <2>3, <3>1, <3>2, PollingLoading
  <2>4. ASSUME NEW t \in Tasks, NEW r \in Runs, TickFires(t, r)
        PROVE  Quietly /\ UNCHANGED proc
    <3>1. \A u \in Tasks, s \in Runs :
             run'[u][s].pc # "idle" => run[u][s].pc # "idle" \/ job[u].live
      BY <1>0, <2>4 DEF TickFires
    <3>2. QED
      BY <2>1, <2>4, <3>1 DEF TickFires, Quietly, Loading
  <2>5. ASSUME NEW t \in Tasks, NEW r \in Runs, Executing(t, r)
        PROVE  Quietly /\ UNCHANGED proc
    <3>1. /\ run[t][r].pc # "idle"
          /\ \A u \in Tasks, s \in Runs : run'[u][s].pc # "idle" => run[u][s].pc # "idle"
          /\ \A u \in Tasks : row'[u].cron = row[u].cron
          /\ \A u \in Tasks \ {t} : row'[u] = row[u]
          /\ \/ row'[t].status = row[t].status
             \/ row[t].status # "CANCELLED" /\ row'[t].status # "SCHEDULED"
          /\ UNCHANGED <<proc, rtype, job, poll, req>>
      BY <2>5, ExecutingChanges
    <3>2. \A u \in Tasks, s \in Runs :
             run[u][s].pc # "idle" => job[u].live \/ row[u].status = "CANCELLED"
      BY <2>1 DEF Loading
    <3>3. QED
      BY <3>1, <3>2 DEF Quietly
  <2>6. ASSUME NEW t \in Tasks, OperatorCancels(t)
        PROVE  Quietly /\ UNCHANGED proc
    BY <1>4, <2>1, <2>6 DEF Quietly, Loading
  <2>7. ASSUME Quietly, UNCHANGED proc PROVE BootInv' /\ proc' # "up"
    BY <1>6, <2>1, <2>2, <2>7, QuietlyLoading
  <2>8. QED
    BY <1>1, <1>2, <2>3, <2>4, <2>5, <2>6, <2>7 DEF Next
<1>7. QED
  BY <1>0, <1>5, <1>6

\* All steps.
LEMMA NextFBoots ==
    ASSUME TypeOKF, BootInv, [NextF]_faultVars
    PROVE  /\ BootInv'
           /\ proc = "booting" /\ proc' = "up" =>
                 /\ UNCHANGED <<row, rtype>>
                 /\ \A t \in Tasks :
                       row[t].status = "SCHEDULED" \/ DueAgain(t) => Armed(t)'
<1>0. TypeOK
  BY DEF TypeOKF
<1>1. ASSUME ProcessDies
      PROVE  BootInv' /\ proc' # "up"
  BY <1>1, DeathStops
<1>2. ASSUME UNCHANGED proc, proc = "up" PROVE BootInv' /\ proc # "booting"
  BY <1>2 DEF BootInv
<1>3. CASE Next
  <2>1. CASE proc # "up"
    BY <1>0, <1>3, <2>1, NextBoots
  <2>2. CASE proc = "up"
    <3>1. proc' = "up"
      BY <1>3, <2>2 DEF Next, PollStarts, Polling, ReadDone, ReadStopped, ReadScheduled, Reads,
         RerunDone, StopStopped, RegisterScheduled, TickFires, Executing, QueueTask,
         StartRunning, Work, SendMail, Complete, FailUnsent, FailErrored, Step, Ends, Asking,
         LoadReport, LoadType, LoadDoomed, Serving, FindTask, SaveExisting, SaveNew, SaveType,
         SaveTasks, DeleteTask, DeleteReports, Awaits, RemoveConnection, OperatorCancels
    <3>2. QED
      BY <1>2, <2>2, <3>1
  <2>3. QED
    BY <2>1, <2>2
<1>4. CASE Crash
  BY <1>1, <1>4 DEF Crash
<1>5. CASE Restart
  <2>1. NothingRuns /\ proc' = "booting" /\ proc # "booting"
    BY <1>5 DEF Restart, BootInv
  <2>2. PICK b \in Polls : Loading(b)'
    BY <1>0, <1>5, <2>1, FirstPollLoads DEF Restart
  <2>3. QED
    BY <2>1, <2>2 DEF BootInv
\* What a rejected statement leaves, where the process goes on.
<1>6. ASSUME NEW t \in Tasks, NEW r \in Runs, NEW rec, run[t][r].pc # "idle",
             run' = [run EXCEPT ![t][r] = rec],
             UNCHANGED <<proc, reports, rtype, row, job, poll, req>>
      PROVE  BootInv' /\ ~(proc = "booting" /\ proc' = "up")
  <2>1. \A u \in Tasks, s \in Runs : run'[u][s].pc # "idle" => run[u][s].pc # "idle"
    BY <1>0, <1>6 DEF TypeOK
  <2>2. CASE proc = "booting"
    <3>1. PICK b \in Polls : Loading(b)
      BY <2>2 DEF BootInv
    <3>2. Quietly
      BY <1>6, <2>1, <3>1 DEF Quietly, Loading
    <3>3. QED
      BY <1>0, <1>6, <2>2, <3>1, <3>2, QuietlyLoading DEF BootInv
  <2>3. CASE proc # "booting"
    BY <1>6, <2>3 DEF BootInv, NothingRuns
  <2>4. QED
    BY <2>2, <2>3
<1>7. ASSUME NEW p \in Polls, PollRejected(p)
      PROVE  BootInv' /\ ~(proc = "booting" /\ proc' = "up")
  <2>1. CASE proc = "booting"
    BY <1>1, <1>7, <2>1 DEF PollRejected
  <2>2. CASE proc # "booting"
    <3>1. poll[p].pc # "idle" /\ UNCHANGED proc
      BY <1>7, <2>2 DEF PollRejected
    <3>2. proc = "up"
      BY <1>0, <2>2, <3>1 DEF BootInv, NothingRuns, TypeOK
    <3>3. QED
      BY <1>2, <3>1, <3>2
  <2>3. QED
    BY <2>1, <2>2
<1>8. ASSUME NEW t \in Tasks, NEW r \in Runs, UpdateRejected(t, r)
      PROVE  BootInv' /\ ~(proc = "booting" /\ proc' = "up")
  <2>1. CASE ProcessDies
    BY <1>1, <2>1
  <2>2. CASE ~ProcessDies
    <3>1. /\ run[t][r].pc # "idle"
          /\ \E rec : run' = [run EXCEPT ![t][r] = rec]
          /\ UNCHANGED <<proc, reports, rtype, row, job, poll, req>>
      BY <1>8, <2>2 DEF UpdateRejected
    <3>2. QED
      BY <1>6, <3>1
  <2>3. QED
    BY <2>1, <2>2
<1>9. ASSUME NEW q \in Requests, RequestRejected(q)
      PROVE  BootInv' /\ ~(proc = "booting" /\ proc' = "up")
  <2>1. proc = "up" /\ UNCHANGED proc
    BY <1>0, <1>9 DEF RequestRejected, BootInv, NothingRuns, Loading, TypeOK
  <2>2. QED
    BY <1>2, <2>1
<1>10. CASE UNCHANGED faultVars
  <2>1. UNCHANGED <<proc, rtype, row, job, poll, run, req>>
    BY <1>10 DEF faultVars, vars
  <2>2. QED
    BY <2>1 DEF BootInv, NothingRuns, Loading, DueAgain, FoundAsIs, IsFound
<1>11. QED
  BY <1>3, <1>4, <1>5, <1>7, <1>8, <1>9, <1>10 DEF NextF

\* While the process is down nothing of it runs; while it starts, it is one load that
\* has missed nothing so far.
THEOREM BootInductive == SpecF => []BootInv
<1>1. InitF => BootInv
  <2> SUFFICES ASSUME InitF PROVE BootInv
    OBVIOUS
  <2>1. PICK b \in Polls : poll = FirstPoll(b)
    BY DEF InitF, Init
  <2>2. Loading(b)
    BY <2>1 DEF InitF, Init, FirstPoll, Loading, NoJob, IdleRun, IdleReq
  <2>3. QED
    BY <2>2 DEF InitF, Init, BootInv
<1>2. TypeOKF /\ BootInv /\ [NextF]_faultVars => BootInv'
  BY NextFBoots
<1>3. QED
  BY <1>1, <1>2, FaultsTypeCorrect, PTL DEF SpecF

\* When a bootstrap ends, every task that waits for its time and every finished task of
\* a recurring report has a job with its own expression, whatever the last process left
\* half done and whatever ticked while this one was loading.
THEOREM BootCorrect == SpecF => BootArmsEverything
<1>1. TypeOKF /\ BootInv /\ [NextF]_faultVars =>
        [proc = "booting" /\ proc' = "up" =>
          \A t \in Tasks :
              \/ row[t].status = "SCHEDULED"
              \/ row[t].status \in Done /\ rtype.freq = "RECURRING"
            => Armed(t)']_faultVars
  BY NextFBoots DEF DueAgain
<1>2. QED
  BY <1>1, FaultsTypeCorrect, BootInductive, PTL DEF SpecF, BootArmsEverything
=============================================================================
