------------------------- MODULE TaskSchedulerProofs -------------------------
(***************************************************************************)
(* Theorems about TaskScheduler, for any number of reports, tasks, polls,  *)
(* executions and requests and any length of the day.                      *)
(***************************************************************************)
EXTENDS TaskScheduler, TLAPS

(* Type correctness. *)

\* A conditional update between statuses of existing rows yields rows.
LEMMA UpdateStatusType ==
    ASSUME row \in [Tasks -> Rows], NEW t \in Tasks,
           NEW to \in Live, NEW from \in SUBSET Live,
           UpdateStatus(t, to, from)
    PROVE  row' \in [Tasks -> Rows]
<1>1. CASE row[t].status \in from
  <2>1. row[t] \in [status : Live, cron : Crons, linked : BOOLEAN]
    BY <1>1 DEF Rows, Absent, Live
  <2>2. [row[t] EXCEPT !.status = to] \in Rows
    BY <2>1 DEF Rows
  <2>3. row' = [row EXCEPT ![t] = [row[t] EXCEPT !.status = to]]
    BY <1>1 DEF UpdateStatus
  <2>4. QED
    BY <2>2, <2>3
<1>2. CASE row[t].status \notin from
  BY <1>2 DEF UpdateStatus
<1>3. QED
  BY <1>1, <1>2

\* Scheduling computes the expression of some hour of the day.
LEMMA DtoCronType ==
    ASSUME NEW c \in Crons PROVE DtoCron(c) \in Crons
<1>1. HalfDay \in Nat /\ HalfDay > 0
  BY HalfDayPos
<1>2. c.hour \in Nat /\ c.freq \in Freqs
  BY <1>1 DEF Crons, Hours
<1>3. c.hour % HalfDay \in 0 .. (HalfDay - 1)
  BY <1>1, <1>2
<1>4. (IF c.hour % HalfDay = 0 THEN HalfDay ELSE c.hour % HalfDay) \in Hours
  BY <1>1, <1>3 DEF Hours
<1>5. QED
  BY <1>2, <1>4 DEF DtoCron, Crons

LEMMA UpsertedType ==
    ASSUME row \in [Tasks -> Rows], NEW ts, NEW c \in Crons
    PROVE  Upserted(ts, c) \in [Tasks -> Rows]
<1>1. ASSUME NEW t \in Tasks PROVE row[t].linked \in BOOLEAN
  <2>1. row[t] \in Rows
    OBVIOUS
  <2>2. CASE row[t] \in [status : Live, cron : Crons, linked : BOOLEAN]
    BY <2>2, Zenon
  <2>3. CASE row[t] \in {Absent("unborn"), Absent("deleted")}
    <3>1. PICK s \in {"unborn", "deleted"} : row[t] = Absent(s)
      BY <2>3
    <3>2. row[t].linked = FALSE
      BY <3>1 DEF Absent
    <3>3. QED
      BY <3>2
  <2>4. QED
    BY <2>1, <2>2, <2>3 DEF Rows
<1>2. \A t \in Tasks :
        [status |-> "SCHEDULED", cron |-> c, linked |-> row[t].linked] \in Rows
  BY <1>1 DEF Rows, Live
<1>3. QED
  BY <1>2 DEF Upserted

LEMMA RemovedType ==
    ASSUME row \in [Tasks -> Rows], NEW ts
    PROVE  Removed(ts) \in [Tasks -> Rows]
BY DEF Removed, Rows

\* One step of an execution, or its end, keeps the types of what it writes.
LEMMA StepType ==
    ASSUME TypeOK, NEW t \in Tasks, NEW r \in Runs, NEW from \in RunPc, NEW to \in RunPc,
           Step(t, r, from, to) \/ Ends(t, r, from),
           row' \in [Tasks -> Rows]
    PROVE  TypeOK'
<1>1. run' \in [Tasks -> [Runs -> RunRec]]
  <2>1. run[t][r] \in RunRec
    BY DEF TypeOK
  <2>2. [run[t][r] EXCEPT !.pc = to] \in RunRec /\ IdleRun \in RunRec
    BY <2>1 DEF RunRec, IdleRun, RunPc
  <2>3. CASE Step(t, r, from, to)
    BY <2>2, <2>3 DEF TypeOK, Step
  <2>4. CASE Ends(t, r, from)
    BY <2>2, <2>4 DEF TypeOK, Ends
  <2>5. QED
    BY <2>3, <2>4
<1>2. UNCHANGED <<proc, reports, rtype, job, poll, req>>
  BY DEF Step, Ends
<1>3. QED
  BY <1>1, <1>2 DEF TypeOK

\* The steps of an execution.
LEMMA ExecutingType ==
    ASSUME TypeOK, NEW t \in Tasks, NEW r \in Runs, TickFires(t, r) \/ Executing(t, r)
    PROVE  TypeOK'
<1>0. row \in [Tasks -> Rows]
  BY DEF TypeOK
<1>1. CASE TickFires(t, r)
  <2>1. job[t].linked \in BOOLEAN
    <3>1. job[t] \in Jobs
      BY DEF TypeOK
    <3>2. CASE job[t] \in [live : {TRUE}, cron : Crons, linked : BOOLEAN]
      BY <3>2, Zenon
    <3>3. CASE job[t] = NoJob
      BY <3>3 DEF NoJob
    <3>4. QED
      BY <3>1, <3>2, <3>3 DEF Jobs
  <2>2. [pc |-> "fired", linked |-> job[t].linked] \in RunRec
    BY <2>1 DEF RunRec, RunPc
  <2>3. QED
    BY <1>1, <2>2 DEF TypeOK, TickFires
<1>2. CASE QueueTask(t, r)
  <2>1. row' \in [Tasks -> Rows]
    BY <1>0, <1>2, UpdateStatusType DEF QueueTask, Live
  <2>2. QED
    BY <1>2, <2>1, StepType DEF QueueTask, RunPc
<1>3. CASE StartRunning(t, r)
  <2>1. row' \in [Tasks -> Rows]
    BY <1>0, <1>3, UpdateStatusType DEF StartRunning, Live
  <2>2. QED
    BY <1>3, <2>1, StepType DEF StartRunning, RunPc
<1>4. CASE Complete(t, r)
  <2>1. row' \in [Tasks -> Rows]
    BY <1>0, <1>4, UpdateStatusType DEF Complete, Live
  <2>2. QED
    BY <1>4, <2>1, StepType DEF Complete, RunPc
<1>5. CASE FailUnsent(t, r)
  <2>1. row' \in [Tasks -> Rows]
    BY <1>0, <1>5, UpdateStatusType DEF FailUnsent, Live
  <2>2. QED
    BY <1>5, <2>1, StepType DEF FailUnsent, RunPc
<1>6. CASE FailErrored(t, r)
  <2>1. row' \in [Tasks -> Rows]
    BY <1>0, <1>6, UpdateStatusType DEF FailErrored, Live
  <2>2. QED
    BY <1>6, <2>1, StepType DEF FailErrored, RunPc
<1>7. CASE Work(t, r)
  BY <1>0, <1>7, StepType DEF Work, RunPc
<1>8. CASE SendMail(t, r)
  BY <1>0, <1>8, StepType DEF SendMail, RunPc
<1>9. QED
  BY <1>1, <1>2, <1>3, <1>4, <1>5, <1>6, <1>7, <1>8 DEF Executing

\* The steps of a load.
LEMMA PollingType ==
    ASSUME TypeOK, NEW p \in Polls, PollStarts(p) \/ Polling(p)
    PROVE  TypeOK'
<1>1. CASE PollStarts(p)
  BY <1>1 DEF TypeOK, PollStarts, PollPc
<1>2. ASSUME NEW pc, NEW next \in PollPc, NEW ts \in SUBSET Tasks,
             Reads(p, pc, next, ts), \A t \in ts : row[t].status \in Live
      PROVE  TypeOK'
  <2>1. \A t \in ts : row[t] \in [status : Live, cron : Crons, linked : BOOLEAN]
    BY <1>2 DEF TypeOK, Rows, Absent, Live
  <2>2. ASSUME NEW t \in ts
        PROVE  [task |-> t, cron |-> row[t].cron, linked |-> row[t].linked] \in Found
    BY <2>1, Zenon DEF Found
  <2>3. {[task |-> t, cron |-> row[t].cron, linked |-> row[t].linked] : t \in ts}
          \in SUBSET Found
    BY <2>2
  <2>4. QED
    BY <1>2, <2>3 DEF TypeOK, Reads
<1>3. ASSUME NEW f \in Found PROVE JobFor(f) \in Jobs
  <2>1. f.cron \in Crons /\ f.linked \in BOOLEAN
    BY <1>3, Zenon DEF Found
  <2>2. QED
    BY <2>1 DEF JobFor, Jobs
<1>4. \A t \in Tasks : (\E f \in poll[p].found : f.task = t)
        => (CHOOSE f \in poll[p].found : f.task = t) \in Found
  BY DEF TypeOK
<1>5. CASE ReadDone(p)
  BY <1>2, <1>5 DEF ReadDone, PollPc, Done, Live
<1>6. CASE ReadStopped(p)
  BY <1>2, <1>6 DEF ReadStopped, PollPc, Live
<1>7. CASE ReadScheduled(p)
  BY <1>2, <1>7 DEF ReadScheduled, PollPc, Live
<1>8. CASE RerunDone(p)
  <2>1. job' \in [Tasks -> Jobs]
    BY <1>3, <1>4, <1>8 DEF RerunDone, Registers, TypeOK
  <2>2. QED
    BY <1>8, <2>1 DEF RerunDone, Registers, TypeOK, PollPc
<1>9. CASE StopStopped(p)
  <2>1. job' \in [Tasks -> Jobs]
    BY <1>9 DEF StopStopped, Registers, StopCronJob, Jobs, TypeOK
  <2>2. QED
    BY <1>9, <2>1 DEF StopStopped, Registers, TypeOK, PollPc
<1>10. CASE RegisterScheduled(p)
  <2>1. ASSUME NEW f \in Found PROVE RegisterCronJob(f) \in Jobs
    <3>1. f.task \in Tasks
      BY <2>1 DEF Found
    <3>2. QED
      BY <1>3, <3>1 DEF RegisterCronJob, TypeOK
  <2>2. job' \in [Tasks -> Jobs]
    BY <1>4, <1>10, <2>1 DEF RegisterScheduled, Registers, TypeOK
  <2>3. QED
    BY <1>10, <2>2 DEF RegisterScheduled, Registers, TypeOK, PollPc
<1>11. QED
  BY <1>1, <1>5, <1>6, <1>7, <1>8, <1>9, <1>10 DEF Polling

\* The requests that write tasks.
LEMMA RequestType ==
    ASSUME TypeOK, NEW q \in Requests, Asking(q) \/ Serving(q)
    PROVE  TypeOK'
<1>0. /\ req[q] \in ReqRecs /\ row \in [Tasks -> Rows] /\ rtype \in Crons
      /\ reports \subseteq Reports
  BY DEF TypeOK
<1>1. \A rs : TasksOf(rs) \in SUBSET Tasks
  BY DEF TasksOf
<1>2. IdleReq \in ReqRecs
  BY DEF IdleReq, ReqRecs
<1>3. CASE \E rp \in Reports : LoadReport(q, rp)
  <2>1. DtoCron(rtype) \in Crons
    BY <1>0, DtoCronType
  <2>2. QED
    BY <1>3, <2>1 DEF LoadReport, TypeOK, ReqRecs
<1>4. CASE \E c \in Crons : LoadType(q, c)
  BY <1>1, <1>4 DEF LoadType, TypeOK, ReqRecs
<1>5. CASE \E rs \in SUBSET Reports : LoadDoomed(q, rs)
  BY <1>1, <1>5 DEF LoadDoomed, TypeOK, ReqRecs
<1>6. CASE FindTask(q)
  BY <1>0, <1>1, <1>6 DEF FindTask, Awaits, TypeOK, ReqRecs
<1>7. CASE SaveExisting(q)
  <2>1. req[q].cron \in Crons
    BY <1>0, <1>7 DEF SaveExisting, Awaits, ReqRecs
  <2>2. row' \in [Tasks -> Rows]
    BY <1>0, <1>7, <2>1, UpsertedType DEF SaveExisting
  <2>3. QED
    BY <1>2, <1>7, <2>2 DEF SaveExisting, Awaits, TypeOK
<1>8. CASE SaveNew(q)
  <2>1. req[q].cron \in Crons
    BY <1>0, <1>8 DEF SaveNew, Awaits, ReqRecs
  <2>2. [status |-> "SCHEDULED", cron |-> req[q].cron, linked |-> TRUE] \in Rows
    BY <2>1 DEF Rows, Live
  <2>3. row' \in [Tasks -> Rows]
    BY <1>0, <1>8, <2>2 DEF SaveNew
  <2>4. QED
    BY <1>2, <1>8, <2>3 DEF SaveNew, Awaits, TypeOK
<1>9. CASE SaveType(q)
  <2>1. req[q].cron \in Crons
    BY <1>0, <1>9 DEF SaveType, Awaits, ReqRecs
  <2>2. [req[q] EXCEPT !.pc = "tasking"] \in ReqRecs
    BY <1>0, <1>9 DEF SaveType, Awaits, ReqRecs
  <2>3. QED
    BY <1>2, <1>9, <2>1, <2>2 DEF SaveType, Awaits, TypeOK
<1>10. CASE SaveTasks(q)
  <2>1. req[q].cron \in Crons
    BY <1>0, <1>10 DEF SaveTasks, Awaits, ReqRecs
  <2>2. row' \in [Tasks -> Rows]
    BY <1>0, <1>10, <2>1, UpsertedType DEF SaveTasks
  <2>3. QED
    BY <1>2, <1>10, <2>2 DEF SaveTasks, Awaits, TypeOK
<1>11. CASE \E t \in Tasks : DeleteTask(q, t)
  <2>1. PICK t \in Tasks : DeleteTask(q, t)
    BY <1>11
  <2>2. row' \in [Tasks -> Rows]
    BY <1>0, <2>1, RemovedType DEF DeleteTask
  <2>3. [req[q] EXCEPT !.tasks = @ \ {t}] \in ReqRecs
    BY <1>0 DEF ReqRecs
  <2>4. QED
    BY <2>1, <2>2, <2>3 DEF DeleteTask, Awaits, TypeOK
<1>12. CASE DeleteReports(q)
  <2>1. row' \in [Tasks -> Rows]
    BY <1>0, <1>12, RemovedType DEF DeleteReports
  <2>2. QED
    BY <1>2, <1>12, <2>1 DEF DeleteReports, Awaits, TypeOK
<1>13. QED
  BY <1>3, <1>4, <1>5, <1>6, <1>7, <1>8, <1>9, <1>10, <1>11, <1>12 DEF Asking, Serving

\* Every step keeps the types.
LEMMA NextType ==
    ASSUME TypeOK, [Next]_vars PROVE TypeOK'
<1>1. ASSUME NEW p \in Polls, PollStarts(p) \/ Polling(p) PROVE TypeOK'
  BY <1>1, PollingType
<1>2. ASSUME NEW t \in Tasks, NEW r \in Runs, TickFires(t, r) \/ Executing(t, r)
      PROVE  TypeOK'
  BY <1>2, ExecutingType
<1>3. ASSUME NEW q \in Requests, Asking(q) \/ Serving(q) PROVE TypeOK'
  BY <1>3, RequestType
<1>4. ASSUME NEW rs \in SUBSET Reports, RemoveConnection(rs) PROVE TypeOK'
  BY <1>4, RemovedType DEF RemoveConnection, TypeOK
<1>5. ASSUME NEW t \in Tasks, OperatorCancels(t) PROVE TypeOK'
  <2>1. row[t] \in [status : Live, cron : Crons, linked : BOOLEAN]
    BY <1>5 DEF OperatorCancels, TypeOK, Rows, Absent, Live
  <2>2. [row[t] EXCEPT !.status = "CANCELLED"] \in Rows
    BY <2>1 DEF Rows, Live
  <2>3. QED
    BY <1>5, <2>2 DEF OperatorCancels, TypeOK
<1>6. CASE UNCHANGED vars
  BY <1>6 DEF vars, TypeOK
<1>7. QED
  BY <1>1, <1>2, <1>3, <1>4, <1>5, <1>6 DEF Next

LEMMA InitType == Init => TypeOK
BY DEF Init, TypeOK, Rows, Jobs, NoJob, FirstPoll, PollPc, RunRec, RunPc, IdleRun,
       ReqRecs, IdleReq

\* Every variable keeps the type TypeOK gives it, in every reachable state: rows,
\* jobs, captured tasks and requests always carry a well-formed cron expression when
\* the code is about to use one.
THEOREM TypeCorrect == Spec => []TypeOK
<1>1. TypeOK /\ [Next]_vars => TypeOK'
  BY NextType
<1>2. QED
  BY <1>1, InitType, PTL DEF Spec
-----------------------------------------------------------------------------
(* Statuses of tasks under way. *)

\* What is not a step of an execution leaves the executions of a task in place, and
\* its status as it was or no longer QUEUED or RUNNING.
Elsewhere ==
    \A t \in Tasks :
        /\ \A r \in Runs : run[t][r].pc # "idle" => run'[t][r].pc = run[t][r].pc
        /\ \/ row'[t].status = row[t].status
           \/ row'[t].status \notin {"QUEUED", "RUNNING"}

LEMMA ElsewhereSteps ==
    ASSUME TypeOK, [Next]_vars
    PROVE  Elsewhere \/ \E t \in Tasks, r \in Runs : Executing(t, r)
<1>1. ASSUME NEW p \in Polls, PollStarts(p) \/ Polling(p) PROVE Elsewhere
  BY <1>1 DEF PollStarts, Polling, ReadDone, ReadStopped, ReadScheduled, Reads,
              RerunDone, StopStopped, RegisterScheduled, Registers, Elsewhere
<1>2. ASSUME NEW t \in Tasks, NEW r \in Runs, TickFires(t, r) PROVE Elsewhere
  BY <1>2 DEF TickFires, Elsewhere, TypeOK
<1>3. ASSUME NEW q \in Requests, Asking(q) \/ Serving(q) PROVE Elsewhere
  <2>1. CASE UNCHANGED <<row, run>>
    BY <2>1 DEF Elsewhere
  <2>2. ASSUME NEW ts, NEW c, row' = Upserted(ts, c), UNCHANGED run PROVE Elsewhere
    BY <2>2 DEF Upserted, Elsewhere
  <2>3. ASSUME NEW ts, row' = Removed(ts), UNCHANGED run PROVE Elsewhere
    BY <2>3 DEF Removed, Absent, Elsewhere
  <2>4. CASE SaveNew(q)
    BY <2>1, <2>4 DEF SaveNew, Awaits, Elsewhere, TypeOK
  <2>5. CASE \E t \in Tasks : DeleteTask(q, t)
    BY <2>1, <2>3, <2>5 DEF DeleteTask, Awaits
  <2>6. CASE DeleteReports(q)
    BY <2>3, <2>6 DEF DeleteReports, Awaits
  <2>7. CASE SaveExisting(q) \/ SaveTasks(q)
    BY <2>2, <2>7 DEF SaveExisting, SaveTasks, Awaits
  <2>8. CASE Asking(q) \/ FindTask(q) \/ SaveType(q)
    BY <2>1, <2>8 DEF Asking, LoadReport, LoadType, LoadDoomed, FindTask, SaveType, Awaits
  <2>9. QED
    BY <1>3, <2>4, <2>5, <2>6, <2>7, <2>8 DEF Serving
<1>4. ASSUME NEW rs \in SUBSET Reports, RemoveConnection(rs) PROVE Elsewhere
  BY <1>4 DEF RemoveConnection, Removed, Absent, Elsewhere
<1>5. ASSUME NEW t \in Tasks, OperatorCancels(t) PROVE Elsewhere
  BY <1>5 DEF OperatorCancels, Elsewhere, TypeOK
<1>6. CASE UNCHANGED vars
  BY <1>6 DEF vars, Elsewhere
<1>7. QED
  BY <1>1, <1>2, <1>3, <1>4, <1>5, <1>6 DEF Next

UnderWay == RunningIsExecuting /\ QueuedIsClaimed

LEMMA ExecutingKeepsUnderWay ==
    ASSUME TypeOK, UnderWay, NEW t \in Tasks, NEW r \in Runs, Executing(t, r)
    PROVE  UnderWay'
<1>0. row \in [Tasks -> Rows] /\ run \in [Tasks -> [Runs -> RunRec]]
  BY DEF TypeOK
<1>1. ASSUME NEW u \in Tasks, u # t
      PROVE  row'[u] = row[u] /\ run'[u] = run[u]
  BY <1>0, <1>1 DEF Executing, QueueTask, StartRunning, Work, SendMail, Complete,
        FailUnsent, FailErrored, Step, Ends, UpdateStatus
<1>2. ASSUME
        /\ row'[t].status = "RUNNING" => \E s \in Runs :
              run'[t][s].pc \in {"working", "mailing", "sent", "unsent", "errored"}
        /\ row'[t].status = "QUEUED" => \E s \in Runs :
              run'[t][s].pc \in {"claimed", "errored"}
      PROVE  UnderWay'
  BY <1>1, <1>2 DEF UnderWay, RunningIsExecuting, QueuedIsClaimed
<1>3. ASSUME NEW s \in Runs, s # r PROVE run'[t][s] = run[t][s]
  BY <1>0, <1>3 DEF Executing, QueueTask, StartRunning, Work, SendMail, Complete,
        FailUnsent, FailErrored, Step, Ends
<1> USE <1>0, <1>3 DEF UnderWay, RunningIsExecuting, QueuedIsClaimed, UpdateStatus
<1>4. CASE QueueTask(t, r)
  BY <1>2, <1>4 DEF QueueTask, Step
<1>5. CASE StartRunning(t, r)
  BY <1>2, <1>5 DEF StartRunning, Step
<1>6. ASSUME NEW from \in {"working", "mailing"},
             NEW to \in {"mailing", "sent", "unsent", "errored"},
             Step(t, r, from, to), UNCHANGED row
      PROVE  UnderWay'
  <2>1. run[t][r].pc = from /\ run'[t][r].pc = to
    BY <1>6 DEF Step, RunRec
  <2>2. QED
    BY <1>2, <1>6, <2>1
<1>7. CASE Work(t, r) \/ SendMail(t, r)
  BY <1>6, <1>7 DEF Work, SendMail
<1>8. CASE Complete(t, r)
  BY <1>2, <1>8 DEF Complete, Ends
<1>9. CASE FailUnsent(t, r)
  BY <1>2, <1>9 DEF FailUnsent, Ends
<1>10. CASE FailErrored(t, r)
  BY <1>2, <1>10 DEF FailErrored, Ends
<1>11. QED
  BY <1>4, <1>5, <1>6, <1>7, <1>8, <1>9, <1>10 DEF Executing

\* A row says RUNNING only while an execution that will write it again is under way,
\* and QUEUED only while one has yet to start it or fail it, in every reachable state.
THEOREM StatusesAreUnderWay == Spec => [](RunningIsExecuting /\ QueuedIsClaimed)
<1>1. Init => UnderWay
  BY DEF Init, UnderWay, RunningIsExecuting, QueuedIsClaimed, Absent
<1>2. TypeOK /\ UnderWay /\ [Next]_vars => UnderWay'
  <2> SUFFICES ASSUME TypeOK, UnderWay, [Next]_vars PROVE UnderWay'
    OBVIOUS
  <2>1. CASE Elsewhere
    BY <2>1 DEF Elsewhere, UnderWay, RunningIsExecuting, QueuedIsClaimed
  <2>2. CASE \E t \in Tasks, r \in Runs : Executing(t, r)
    BY <2>2, ExecutingKeepsUnderWay
  <2>3. QED
    BY <2>1, <2>2, ElsewhereSteps
<1>3. QED
  BY <1>1, <1>2, TypeCorrect, PTL DEF Spec, UnderWay

\* A row says QUEUED only while an execution is about to run its task, or to fail it when the
\* queue is full: no task stays QUEUED with nobody to take it further.
THEOREM QueuedHasAnExecution == Spec => []QueuedIsClaimed
BY StatusesAreUnderWay, PTL
-----------------------------------------------------------------------------
(* One task per report. *)

\* Steps that link no row, and take no report from a row that stays linked.
LinksNothing ==
    /\ \A t \in Tasks : row'[t].linked => row[t].linked
    /\ \A t \in Tasks : row'[t].linked /\ ReportOf[t] \in reports => ReportOf[t] \in reports'

LEMMA LinksNothingKeepsOne ==
    ASSUME OneTaskPerReport, LinksNothing PROVE OneTaskPerReport'
BY DEF OneTaskPerReport, LinksNothing

LEMMA UpdateLinksNothing ==
    ASSUME row \in [Tasks -> Rows], NEW t \in Tasks, NEW to, NEW from,
           UpdateStatus(t, to, from), UNCHANGED reports
    PROVE  LinksNothing
<1>1. ASSUME NEW u \in Tasks PROVE row'[u].linked = row[u].linked
  <2>1. CASE row[t].status \in from /\ u = t
    <3>1. row'[t] = [row[t] EXCEPT !.status = to]
      BY <2>1 DEF UpdateStatus
    <3>2. row[t] \in Rows
      OBVIOUS
    <3>3. QED
      BY <2>1, <3>1, <3>2 DEF Rows, Absent
  <2>2. CASE ~(row[t].status \in from /\ u = t)
    BY <2>2 DEF UpdateStatus
  <2>3. QED
    BY <2>1, <2>2
<1>2. QED
  BY <1>1 DEF LinksNothing

\* Deleting reports and the rows joined to them.
LEMMA RemovedLinksNothing ==
    ASSUME NEW rs, row' = Removed(TasksOf(rs)), reports' = reports \ rs
    PROVE  LinksNothing
BY DEF LinksNothing, Removed, TasksOf, Absent

\* Only the insertion of a new task links a row.
LEMMA OthersLinkNothing ==
    ASSUME TypeOK, [Next]_vars, ~ \E q \in Requests : SaveNew(q)
    PROVE  LinksNothing
<1>0. row \in [Tasks -> Rows]
  BY DEF TypeOK
<1>1. ASSUME UNCHANGED <<row, reports>> PROVE LinksNothing
  BY <1>1 DEF LinksNothing
<1>2. ASSUME NEW p \in Polls, PollStarts(p) \/ Polling(p) PROVE LinksNothing
  BY <1>1, <1>2 DEF PollStarts, Polling, ReadDone, ReadStopped, ReadScheduled, Reads,
        RerunDone, StopStopped, RegisterScheduled, Registers
<1>3. ASSUME NEW t \in Tasks, NEW r \in Runs, TickFires(t, r) \/ Executing(t, r)
      PROVE  LinksNothing
  <2>1. CASE TickFires(t, r) \/ Work(t, r) \/ SendMail(t, r)
    BY <1>1, <2>1 DEF TickFires, Work, SendMail, Step
  <2>2. CASE QueueTask(t, r) \/ StartRunning(t, r)
    BY <1>0, <2>2, UpdateLinksNothing DEF QueueTask, StartRunning, Step
  <2>3. CASE Complete(t, r) \/ FailUnsent(t, r) \/ FailErrored(t, r)
    BY <1>0, <2>3, UpdateLinksNothing DEF Complete, FailUnsent, FailErrored, Ends
  <2>4. QED
    BY <1>3, <2>1, <2>2, <2>3 DEF Executing
<1>4. ASSUME NEW q \in Requests, Asking(q) \/ Serving(q) PROVE LinksNothing
  <2>1. CASE Asking(q) \/ FindTask(q) \/ SaveType(q)
    BY <1>1, <2>1 DEF Asking, LoadReport, LoadType, LoadDoomed, FindTask, SaveType
  <2>2. CASE SaveExisting(q) \/ SaveTasks(q)
    BY <2>2 DEF SaveExisting, SaveTasks, Upserted, LinksNothing
  <2>3. CASE \E t \in Tasks : DeleteTask(q, t)
    BY <1>1, <2>3 DEF DeleteTask, Removed, Absent, LinksNothing
  <2>4. CASE DeleteReports(q)
    BY <2>4, RemovedLinksNothing DEF DeleteReports
  <2>5. QED
    BY <1>4, <2>1, <2>2, <2>3, <2>4 DEF Serving
<1>5. ASSUME NEW rs \in SUBSET Reports, RemoveConnection(rs) PROVE LinksNothing
  BY <1>5, RemovedLinksNothing DEF RemoveConnection
<1>6. ASSUME NEW t \in Tasks, OperatorCancels(t) PROVE LinksNothing
  <2>1. UpdateStatus(t, "CANCELLED", {row[t].status}) /\ UNCHANGED reports
    BY <1>6 DEF OperatorCancels, UpdateStatus
  <2>2. QED
    BY <1>0, <2>1, UpdateLinksNothing
<1>7. CASE UNCHANGED vars
  BY <1>1, <1>7 DEF vars
<1>8. QED
  BY <1>2, <1>3, <1>4, <1>5, <1>6, <1>7 DEF Next

\* The row the insertion links has a report, and the report no other.
LEMMA SaveNewKeepsOne ==
    ASSUME TypeOK, OneTaskPerReport, NEW q \in Requests, SaveNew(q)
    PROVE  OneTaskPerReport'
<1>0. row \in [Tasks -> Rows] /\ UNCHANGED reports
  BY DEF TypeOK, SaveNew
<1>1. CASE UNCHANGED row
  BY <1>0, <1>1 DEF OneTaskPerReport
<1>2. CASE ~UNCHANGED row
  <2>1. /\ req[q].reports \subseteq reports /\ TasksOf(req[q].reports) = {}
        /\ \E t \in Tasks :
              /\ row[t].status = "unborn" /\ ReportOf[t] \in req[q].reports
              /\ row' = [row EXCEPT ![t] =
                   [status |-> "SCHEDULED", cron |-> req[q].cron, linked |-> TRUE]]
    BY <1>2 DEF SaveNew
  <2>2. PICK t \in Tasks :
           /\ ReportOf[t] \in req[q].reports
           /\ row' = [row EXCEPT ![t] =
                [status |-> "SCHEDULED", cron |-> req[q].cron, linked |-> TRUE]]
    BY <2>1
  <2>3. \A u \in Tasks : row[u].linked => ReportOf[u] # ReportOf[t]
    BY <2>1, <2>2 DEF TasksOf
  <2>4. \A u \in Tasks \ {t} : row'[u] = row[u]
    BY <1>0, <2>2
  <2>5. QED
    BY <1>0, <2>1, <2>2, <2>3, <2>4 DEF OneTaskPerReport
<1>3. QED
  BY <1>1, <1>2

LEMMA OneTaskPerReportKept ==
    ASSUME TypeOK, OneTaskPerReport, [Next]_vars PROVE OneTaskPerReport'
BY OthersLinkNothing, LinksNothingKeepsOne, SaveNewKeepsOne

\* No report ever has two tasks and no task stays joined to a report that is gone,
\* although scheduling looks first and inserts later, and deletions remove tasks and
\* reports in separate statements.
THEOREM OneTaskPerReportCorrect == Spec => []OneTaskPerReport
<1>1. Init => OneTaskPerReport
  BY DEF Init, OneTaskPerReport, Absent
<1>2. TypeOK /\ OneTaskPerReport /\ [Next]_vars => OneTaskPerReport'
  BY OneTaskPerReportKept
<1>3. QED
  BY <1>1, <1>2, TypeCorrect, PTL DEF Spec
-----------------------------------------------------------------------------
(* Refinement of TaskLifecycle. *)

\* Steps that leave rows and executions alone are stuttering steps of the life cycle.
LEMMA LifecycleStutter ==
    ASSUME UNCHANGED <<row, run>> PROVE UNCHANGED Lifecycle!vars
BY DEF Lifecycle!vars, StatusOf, ActiveOf, MailedOf

\* What one execution does to the abstract state, by where it goes next.
LEMMA LifecycleOfRun ==
    ASSUME run \in [Tasks -> [Runs -> RunRec]], NEW t \in Tasks, NEW r \in Runs,
           NEW rec, run' = [run EXCEPT ![t][r] = rec]
    PROVE  /\ rec.pc = "idle" => ActiveOf' = [ActiveOf EXCEPT ![t] = ActiveOf[t] \ {r}]
           /\ rec.pc # "idle" => ActiveOf' = [ActiveOf EXCEPT ![t] = ActiveOf[t] \cup {r}]
           /\ rec.pc = "sent" => MailedOf' = [MailedOf EXCEPT ![t] = MailedOf[t] \cup {r}]
           /\ rec.pc # "sent" => MailedOf' = [MailedOf EXCEPT ![t] = MailedOf[t] \ {r}]
<1>1. /\ run'[t][r] = rec
      /\ \A s \in Runs \ {r} : run'[t][s] = run[t][s]
      /\ \A u \in Tasks \ {t} : run'[u] = run[u]
  OBVIOUS
<1>2. /\ ActiveOf = [u \in Tasks |-> {s \in Runs : run[u][s].pc # "idle"}]
      /\ ActiveOf' = [u \in Tasks |-> {s \in Runs : run'[u][s].pc # "idle"}]
      /\ MailedOf = [u \in Tasks |-> {s \in Runs : run[u][s].pc = "sent"}]
      /\ MailedOf' = [u \in Tasks |-> {s \in Runs : run'[u][s].pc = "sent"}]
  BY DEF ActiveOf, MailedOf
<1>3. ActiveOf'[t] =
        IF rec.pc = "idle" THEN ActiveOf[t] \ {r} ELSE ActiveOf[t] \cup {r}
  BY <1>1, <1>2
<1>4. MailedOf'[t] =
        IF rec.pc = "sent" THEN MailedOf[t] \cup {r} ELSE MailedOf[t] \ {r}
  BY <1>1, <1>2
<1>5. \A u \in Tasks \ {t} : ActiveOf'[u] = ActiveOf[u] /\ MailedOf'[u] = MailedOf[u]
  BY <1>1, <1>2
<1>6. /\ DOMAIN ActiveOf = Tasks /\ ActiveOf' = [u \in Tasks |-> ActiveOf'[u]]
      /\ DOMAIN MailedOf = Tasks /\ MailedOf' = [u \in Tasks |-> MailedOf'[u]]
  BY <1>2
<1>7. QED
  BY <1>3, <1>4, <1>5, <1>6

\* A conditional update is a move of the abstract status.
LEMMA LifecycleOfUpdate ==
    ASSUME row \in [Tasks -> Rows], NEW t \in Tasks, NEW to, NEW from,
           UpdateStatus(t, to, from)
    PROVE  Lifecycle!Moves(t, from, to)
<1>1. StatusOf[t] = row[t].status
  BY DEF StatusOf
<1>2. CASE row[t].status \in from
  <2>1. row' = [row EXCEPT ![t].status = to]
    BY <1>2 DEF UpdateStatus
  <2>2. /\ \A u \in Tasks \ {t} : row'[u] = row[u]
        /\ row'[t] = [row[t] EXCEPT !.status = to]
    BY <2>1
  <2>3. row'[t].status = to
    BY <2>2 DEF Rows, Absent
  <2>4. StatusOf' = [StatusOf EXCEPT ![t] = to]
    BY <2>2, <2>3 DEF StatusOf
  <2>5. QED
    BY <1>1, <1>2, <2>4 DEF Lifecycle!Moves
<1>3. CASE row[t].status \notin from
  BY <1>1, <1>3 DEF UpdateStatus, Lifecycle!Moves, StatusOf
<1>4. QED
  BY <1>2, <1>3

\* A step of an execution is a step of the life cycle or a stuttering step.
LEMMA LifecycleExecuting ==
    ASSUME TypeOK, NEW t \in Tasks, NEW r \in Runs, TickFires(t, r) \/ Executing(t, r)
    PROVE  Lifecycle!Next \/ UNCHANGED Lifecycle!vars
<1>0. /\ row \in [Tasks -> Rows] /\ run \in [Tasks -> [Runs -> RunRec]]
      /\ run[t][r] \in RunRec
  BY DEF TypeOK
<1>1. /\ r \in ActiveOf[t] <=> run[t][r].pc # "idle"
      /\ r \in MailedOf[t] <=> run[t][r].pc = "sent"
      /\ ActiveOf \in [Tasks -> SUBSET Runs] /\ MailedOf \in [Tasks -> SUBSET Runs]
  BY DEF ActiveOf, MailedOf
<1>2. ASSUME NEW rec, run' = [run EXCEPT ![t][r] = rec], rec.pc # "idle",
             run[t][r].pc # "idle", rec.pc = "sent" <=> run[t][r].pc = "sent"
      PROVE  ActiveOf' = ActiveOf /\ MailedOf' = MailedOf
  <2>1. /\ ActiveOf[t] \cup {r} = ActiveOf[t]
        /\ rec.pc = "sent" => MailedOf[t] \cup {r} = MailedOf[t]
        /\ rec.pc # "sent" => MailedOf[t] \ {r} = MailedOf[t]
    BY <1>1, <1>2
  <2>2. /\ ActiveOf' = [ActiveOf EXCEPT ![t] = ActiveOf[t]]
        /\ MailedOf' = [MailedOf EXCEPT ![t] = MailedOf[t]]
    <3>1. /\ ActiveOf' = [ActiveOf EXCEPT ![t] = ActiveOf[t] \cup {r}]
          /\ rec.pc = "sent" => MailedOf' = [MailedOf EXCEPT ![t] = MailedOf[t] \cup {r}]
          /\ rec.pc # "sent" => MailedOf' = [MailedOf EXCEPT ![t] = MailedOf[t] \ {r}]
      BY <1>0, <1>2, LifecycleOfRun, Zenon
    <3>2. QED
      BY <2>1, <3>1
  <2>3. QED
    BY <1>1, <2>2
<1>3. ASSUME NEW from, NEW to, Step(t, r, from, to)
      PROVE  /\ run[t][r].pc = from
             /\ run' = [run EXCEPT ![t][r] = [run[t][r] EXCEPT !.pc = to]]
             /\ [run[t][r] EXCEPT !.pc = to].pc = to
  BY <1>0, <1>3 DEF Step, RunRec
<1>4. ASSUME NEW from, NEW to, Step(t, r, from, to), from \notin {"idle", "sent"},
             to \notin {"idle", "sent"}
      PROVE  r \in ActiveOf[t] \ MailedOf[t] /\ ActiveOf' = ActiveOf /\ MailedOf' = MailedOf
  BY <1>1, <1>2, <1>3, <1>4
<1>5. ASSUME NEW from, Ends(t, r, from), from # "idle"
      PROVE  /\ run[t][r].pc = from
             /\ ActiveOf' = [ActiveOf EXCEPT ![t] = ActiveOf[t] \ {r}]
             /\ MailedOf' = [MailedOf EXCEPT ![t] = MailedOf[t] \ {r}]
  <2>1. IdleRun.pc = "idle" /\ IdleRun.pc # "sent"
    BY DEF IdleRun
  <2>2. QED
    BY <1>0, <1>5, <2>1, LifecycleOfRun, Zenon DEF Ends
<1>6. CASE TickFires(t, r)
  <2>1. StatusOf' = StatusOf
    BY <1>6 DEF TickFires, StatusOf
  <2>2. /\ ActiveOf' = [ActiveOf EXCEPT ![t] = ActiveOf[t] \cup {r}]
        /\ MailedOf' = [MailedOf EXCEPT ![t] = MailedOf[t] \ {r}]
    <3>1. /\ [pc |-> "fired", linked |-> job[t].linked].pc # "idle"
          /\ [pc |-> "fired", linked |-> job[t].linked].pc # "sent"
      OBVIOUS
    <3>2. QED
      BY <1>0, <1>6, <3>1, LifecycleOfRun, Zenon DEF TickFires
  <2>3. r \notin ActiveOf[t] /\ MailedOf[t] \ {r} = MailedOf[t]
    BY <1>1, <1>6 DEF TickFires
  <2>4. MailedOf' = MailedOf
    BY <1>1, <2>2, <2>3
  <2>5. Lifecycle!Fires(t, r)
    BY <2>1, <2>2, <2>3, <2>4 DEF Lifecycle!Fires
  <2>6. QED
    BY <2>5 DEF Lifecycle!Next
<1>7. CASE QueueTask(t, r)
  <2>1. Lifecycle!Moves(t, {"SCHEDULED", "COMPLETED", "FAILED"}, "QUEUED")
    BY <1>0, <1>7, LifecycleOfUpdate DEF QueueTask
  <2>2. Lifecycle!Queues(t, r)
    BY <1>4, <1>7, <2>1 DEF QueueTask, Lifecycle!Queues
  <2>3. QED
    BY <2>2 DEF Lifecycle!Next
<1>8. CASE StartRunning(t, r)
  <2>1. Lifecycle!Moves(t, {"QUEUED"}, "RUNNING")
    BY <1>0, <1>8, LifecycleOfUpdate DEF StartRunning
  <2>2. Lifecycle!Starts(t, r)
    BY <1>4, <1>8, <2>1 DEF StartRunning, Lifecycle!Starts
  <2>3. QED
    BY <2>2 DEF Lifecycle!Next
<1>9. CASE Work(t, r)
  <2>1. StatusOf' = StatusOf /\ ActiveOf' = ActiveOf /\ MailedOf' = MailedOf
    BY <1>4, <1>9 DEF Work, StatusOf
  <2>2. QED
    BY <2>1 DEF Lifecycle!vars
<1>10. CASE SendMail(t, r)
  <2>1. PICK answer \in {"sent", "unsent", "errored"} : Step(t, r, "mailing", answer)
    BY <1>10 DEF SendMail
  <2>2. StatusOf' = StatusOf
    BY <1>10 DEF SendMail, StatusOf
  <2>3. CASE answer = "sent"
    <3>1. run[t][r].pc = "mailing" /\ r \in ActiveOf[t] \ MailedOf[t]
      BY <1>1, <1>3, <2>1
    <3>2. /\ ActiveOf' = [ActiveOf EXCEPT ![t] = ActiveOf[t] \cup {r}]
          /\ MailedOf' = [MailedOf EXCEPT ![t] = MailedOf[t] \cup {r}]
      <4>1. /\ [run[t][r] EXCEPT !.pc = answer].pc = "sent"
            /\ [run[t][r] EXCEPT !.pc = answer].pc # "idle"
        BY <1>3, <2>1, <2>3
      <4>2. run' = [run EXCEPT ![t][r] = [run[t][r] EXCEPT !.pc = answer]]
        BY <1>3, <2>1
      <4>3. QED
        BY <1>0, <4>1, <4>2, LifecycleOfRun, Zenon
    <3>3. ActiveOf[t] \cup {r} = ActiveOf[t]
      BY <3>1
    <3>4. ActiveOf' = ActiveOf
      BY <1>1, <3>2, <3>3
    <3>5. Lifecycle!Mails(t, r)
      BY <2>2, <3>1, <3>2, <3>4 DEF Lifecycle!Mails
    <3>6. QED
      BY <3>5 DEF Lifecycle!Next
  <2>4. CASE answer # "sent"
    <3>1. ActiveOf' = ActiveOf /\ MailedOf' = MailedOf
      BY <1>4, <2>1, <2>4
    <3>2. QED
      BY <2>2, <3>1 DEF Lifecycle!vars
  <2>5. QED
    BY <2>3, <2>4
<1>11. CASE Complete(t, r)
  <2>1. Lifecycle!Moves(t, {"RUNNING"}, "COMPLETED")
    BY <1>0, <1>11, LifecycleOfUpdate DEF Complete
  <2>2. Lifecycle!Completes(t, r)
    BY <1>1, <1>5, <1>11, <2>1 DEF Complete, Lifecycle!Completes
  <2>3. QED
    BY <2>2 DEF Lifecycle!Next
<1>12. ASSUME NEW from \in {"unsent", "errored"}, Ends(t, r, from),
              \/ Lifecycle!Moves(t, {"RUNNING"}, "FAILED")
              \/ Lifecycle!Moves(t, {"QUEUED", "RUNNING"}, "FAILED")
       PROVE  Lifecycle!Next
  <2>1. r \in ActiveOf[t] \ MailedOf[t] /\ MailedOf[t] \ {r} = MailedOf[t]
    BY <1>1, <1>5, <1>12
  <2>2. ActiveOf' = [ActiveOf EXCEPT ![t] = ActiveOf[t] \ {r}] /\ MailedOf' = MailedOf
    BY <1>1, <1>5, <1>12, <2>1
  <2>3. Lifecycle!Fails(t, r)
    BY <1>12, <2>1, <2>2 DEF Lifecycle!Fails
  <2>4. QED
    BY <2>3 DEF Lifecycle!Next
<1>13. CASE FailUnsent(t, r)
  BY <1>0, <1>12, <1>13, LifecycleOfUpdate DEF FailUnsent
<1>14. CASE FailErrored(t, r)
  BY <1>0, <1>12, <1>14, LifecycleOfUpdate DEF FailErrored
<1>15. QED
  BY <1>6, <1>7, <1>8, <1>9, <1>10, <1>11, <1>13, <1>14 DEF Executing

\* What the abstract state is when only rows change.
LEMMA LifecycleOfRows ==
    ASSUME UNCHANGED run
    PROVE  /\ StatusOf = [t \in Tasks |-> row[t].status]
           /\ StatusOf' = [t \in Tasks |-> row'[t].status]
           /\ ActiveOf' = ActiveOf /\ MailedOf' = MailedOf
BY DEF StatusOf, ActiveOf, MailedOf

\* Rows rescheduled by a request.
LEMMA LifecycleSchedules ==
    ASSUME UNCHANGED run, NEW ts \in SUBSET Tasks,
           \A t \in Tasks : row'[t].status = IF t \in ts THEN "SCHEDULED" ELSE row[t].status
    PROVE  Lifecycle!Next
<1>1. Lifecycle!Schedules(ts)
  BY LifecycleOfRows DEF Lifecycle!Schedules
<1>2. QED
  BY <1>1 DEF Lifecycle!Next

\* Rows deleted by a request or by a foreign key.
LEMMA LifecycleDeletes ==
    ASSUME UNCHANGED run, NEW ts \in SUBSET Tasks, row' = Removed(ts),
           \A t \in ts : row[t].status # "unborn"
    PROVE  Lifecycle!Next
<1>1. \A t \in Tasks : row'[t].status = IF t \in ts THEN "deleted" ELSE row[t].status
  BY DEF Removed, Absent
<1>2. Lifecycle!Deletes(ts)
  BY <1>1, LifecycleOfRows DEF Lifecycle!Deletes
<1>3. QED
  BY <1>2 DEF Lifecycle!Next

\* A row cancelled by an operator.
LEMMA LifecycleCancels ==
    ASSUME TypeOK, NEW t \in Tasks, OperatorCancels(t)
    PROVE  Lifecycle!Next
<1>1. /\ \A u \in Tasks \ {t} : row'[u] = row[u]
      /\ row'[t] = [row[t] EXCEPT !.status = "CANCELLED"]
      /\ row[t] \in Rows /\ row[t].status \in Live
      /\ UNCHANGED run
  BY DEF OperatorCancels, TypeOK
<1>2. row'[t].status = "CANCELLED"
  BY <1>1 DEF Rows, Absent, Live
<1>3. /\ StatusOf = [u \in Tasks |-> row[u].status]
      /\ StatusOf' = [u \in Tasks |-> row'[u].status]
      /\ ActiveOf' = ActiveOf /\ MailedOf' = MailedOf
  BY <1>1, LifecycleOfRows
<1>4. StatusOf' = [StatusOf EXCEPT ![t] = "CANCELLED"]
  BY <1>1, <1>2, <1>3
<1>5. Lifecycle!Cancels(t)
  BY <1>1, <1>3, <1>4 DEF Lifecycle!Cancels, Live
<1>6. QED
  BY <1>5 DEF Lifecycle!Next

\* Everything but the steps of an execution.
LEMMA LifecycleOthers ==
    ASSUME TypeOK, [Next]_vars
    PROVE  \/ Lifecycle!Next \/ UNCHANGED Lifecycle!vars
           \/ \E t \in Tasks, r \in Runs : TickFires(t, r) \/ Executing(t, r)
<1>1. ASSUME UNCHANGED <<row, run>> PROVE UNCHANGED Lifecycle!vars
  BY <1>1, LifecycleStutter
<1>2. ASSUME NEW p \in Polls, PollStarts(p) \/ Polling(p) PROVE UNCHANGED <<row, run>>
  BY <1>2 DEF PollStarts, Polling, ReadDone, ReadStopped, ReadScheduled, Reads,
              RerunDone, StopStopped, RegisterScheduled, Registers
<1>3. \A rs : \A t \in TasksOf(rs) : t \in Tasks /\ row[t].status # "unborn"
  BY DEF TasksOf, TypeOK, Rows, Absent, Live
<1>4. ASSUME NEW q \in Requests, Asking(q) \/ Serving(q)
      PROVE  Lifecycle!Next \/ UNCHANGED Lifecycle!vars
  <2>0. req[q].tasks \in SUBSET Tasks
    BY DEF TypeOK, ReqRecs
  <2>1. CASE Asking(q) \/ FindTask(q) \/ SaveType(q)
    <3>1. UNCHANGED <<row, run>>
      BY <2>1 DEF Asking, LoadReport, LoadType, LoadDoomed, FindTask, SaveType, Awaits
    <3>2. QED
      BY <1>1, <3>1
  <2>2. CASE SaveExisting(q) \/ SaveTasks(q)
    <3>1. row' = Upserted(req[q].tasks, req[q].cron) /\ UNCHANGED run
      BY <2>2 DEF SaveExisting, SaveTasks, Awaits
    <3>2. \A t \in Tasks : row'[t].status =
            IF t \in req[q].tasks THEN "SCHEDULED" ELSE row[t].status
      BY <3>1 DEF Upserted
    <3>3. QED
      BY <2>0, <3>1, <3>2, LifecycleSchedules
  <2>3. CASE SaveNew(q)
    <3>1. CASE UNCHANGED row
      <4>1. UNCHANGED <<row, run>>
        BY <2>3, <3>1 DEF SaveNew, Awaits
      <4>2. QED
        BY <1>1, <4>1
    <3>2. CASE ~UNCHANGED row
      <4>1. PICK t \in Tasks : row' = [row EXCEPT ![t] =
              [status |-> "SCHEDULED", cron |-> req[q].cron, linked |-> TRUE]]
        BY <2>3, <3>2 DEF SaveNew
      <4>2. QED
        <5>1. UNCHANGED run
          BY <2>3 DEF SaveNew, Awaits
        <5>2. \A u \in Tasks : row'[u].status =
                IF u \in {t} THEN "SCHEDULED" ELSE row[u].status
          BY <4>1 DEF TypeOK
        <5>3. QED
          BY <5>1, <5>2, LifecycleSchedules
    <3>3. QED
      BY <3>1, <3>2
  <2>4. CASE \E t \in Tasks : DeleteTask(q, t)
    <3>1. PICK t \in Tasks : DeleteTask(q, t)
      BY <2>4
    <3>2. CASE row[t].status \in Live
      <4>1. {t} \in SUBSET Tasks /\ row' = Removed({t}) /\ row[t].status # "unborn"
        BY <3>1, <3>2 DEF DeleteTask, Live
      <4>2. UNCHANGED run
        BY <3>1 DEF DeleteTask, Awaits
      <4>3. QED
        BY <4>1, <4>2, LifecycleDeletes
    <3>3. CASE row[t].status \notin Live
      <4>1. UNCHANGED <<row, run>>
        BY <3>1, <3>3 DEF DeleteTask, Awaits
      <4>2. QED
        BY <1>1, <4>1
    <3>4. QED
      BY <3>2, <3>3
  <2>5. CASE DeleteReports(q)
    <3>1. row' = Removed(TasksOf(req[q].reports)) /\ UNCHANGED run
      BY <2>5 DEF DeleteReports, Awaits
    <3>2. TasksOf(req[q].reports) \in SUBSET Tasks
      BY DEF TasksOf
    <3>3. QED
      BY <1>3, <3>1, <3>2, LifecycleDeletes
  <2>6. QED
    BY <1>4, <2>1, <2>2, <2>3, <2>4, <2>5 DEF Serving
<1>5. ASSUME NEW rs \in SUBSET Reports, RemoveConnection(rs) PROVE Lifecycle!Next
  <2>1. row' = Removed(TasksOf(rs)) /\ UNCHANGED run
    BY <1>5 DEF RemoveConnection
  <2>2. TasksOf(rs) \in SUBSET Tasks
    BY DEF TasksOf
  <2>3. QED
    BY <1>3, <2>1, <2>2, LifecycleDeletes
<1>6. ASSUME NEW t \in Tasks, OperatorCancels(t) PROVE Lifecycle!Next
  BY <1>6, LifecycleCancels
<1>7. CASE UNCHANGED vars
  BY <1>1, <1>7 DEF vars
<1>8. QED
  BY <1>1, <1>2, <1>4, <1>5, <1>6, <1>7 DEF Next

\* The scheduler implements the life cycle of TaskLifecycle: however polls, ticks,
\* overlapping executions, requests and cascades interleave, a task is COMPLETED only
\* from RUNNING by an execution whose mail was accepted, each counted once.
THEOREM LifecycleCorrect == Spec => ImplementsLifecycle
<1>1. Init => Lifecycle!Init
  BY DEF Init, Lifecycle!Init, StatusOf, ActiveOf, MailedOf, Absent, IdleRun
<1>2. TypeOK /\ [Next]_vars => [Lifecycle!Next]_Lifecycle!vars
  BY LifecycleOthers, LifecycleExecuting
<1>3. QED
  BY <1>1, <1>2, TypeCorrect, PTL DEF Spec, ImplementsLifecycle, Lifecycle!Spec
=============================================================================
