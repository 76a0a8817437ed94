---------------------------- MODULE TaskScheduler ----------------------------
(***************************************************************************)
(* The scheduling core of the reporting service: the `task` table, the     *)
(* in-memory registry of cron jobs, the poll that keeps the registry in    *)
(* step with the table, the cron ticks that execute reports, and the HTTP  *)
(* requests that write tasks behind the scheduler's back.                  *)
(*                                                                         *)
(* The service is one Node process.  Code between two awaits is atomic;    *)
(* every await is a point where any other callback may run.  A query is    *)
(* two steps, the read in the database and the callback that acts on the   *)
(* rows it returned; a conditional UPDATE is one.                          *)
(***************************************************************************)
EXTENDS Naturals, FiniteSets

CONSTANTS
    Reports,    \* identifiers of reports, all of one report type
    Tasks,      \* identifiers the database may give to task rows
    ReportOf,   \* the report each task identifier is used for
    HalfDay,    \* hours in half a day, 12 for the real clock
    Freqs,      \* the frequencies a report type may have
    Runs,       \* bound: executions in flight at once
    Polls,      \* bound: overlapping calls of loadJobsFromDBAsync
    Requests    \* bound: HTTP requests in flight at once

ASSUME ReportOfType == ReportOf \in [Tasks -> Reports]
ASSUME HalfDayPos   == HalfDay \in Nat \ {0}
ASSUME FreqsKnown   == Freqs \subseteq {"ON_REQUEST", "RECURRING"}

VARIABLES
    proc,       \* the process: "booting" until the first load is done, "up", "down"
    reports,    \* the reports that still have a row
    rtype,      \* hour and frequency of the report type
    row,        \* the task table
    job,        \* the cron jobs of the SchedulerRegistry
    poll,       \* calls of loadJobsFromDBAsync in flight
    run,        \* executions of cron callbacks in flight
    req         \* HTTP requests in flight

vars == <<proc, reports, rtype, row, job, poll, run, req>>
-----------------------------------------------------------------------------
Hours == 0 .. (2 * HalfDay - 1)

\* A cron expression is what dateToCron makes of an hour and a frequency.
Crons  == [hour : Hours, freq : Freqs]
NoCron == [hour |-> 0, freq |-> "none"]

\* Seeded bug: the PM of noon is added to it, which makes it the hour 24.
DtoCronPm(c) == [c EXCEPT !.hour = IF @ = HalfDay THEN 2 * HalfDay ELSE @]

\* What scheduleTaskAsync computes: the report type comes back as a DTO whose
\* runTime is the twelve-hour reading of the hour without its AM or PM.
DtoCron(c) ==
    [c EXCEPT !.hour = IF @ % HalfDay = 0 THEN HalfDay ELSE @ % HalfDay]

\* Every status the code writes, and the one an operator may write by hand.
Live == {"SCHEDULED", "QUEUED", "RUNNING", "COMPLETED", "FAILED", "CANCELLED"}
Done == {"COMPLETED", "FAILED"}

\* A row that does not exist (yet, or any more) has no cron and no report.
Absent(s) == [status |-> s, cron |-> NoCron, linked |-> FALSE]

Rows == [status : Live, cron : Crons, linked : BOOLEAN]
          \cup {Absent("unborn"), Absent("deleted")}

\* A job holds its expression and the task object captured by its callback.
NoJob == [live |-> FALSE, cron |-> NoCron, linked |-> FALSE]
Jobs  == [live : {TRUE}, cron : Crons, linked : BOOLEAN] \cup {NoJob}

Found    == [task : Tasks, cron : Crons, linked : BOOLEAN]
IdlePoll == [pc |-> "idle", found |-> {}]
PollPc   == {"idle", "read1", "got1", "read2", "got2", "read3", "got3"}

RunPc   == {"idle", "fired", "claimed", "working", "mailing",
            "sent", "unsent", "errored"}
RunRec  == [pc : RunPc, linked : BOOLEAN]
IdleRun == [pc |-> "idle", linked |-> FALSE]

\* Requests that save tasks carry the expression they will write.
ReqRecs ==
    [pc : {"finding", "saving", "typing", "tasking"}, reports : SUBSET Reports,
     tasks : SUBSET Tasks, cron : Crons]
      \cup
    [pc : {"idle", "deleting"}, reports : SUBSET Reports,
     tasks : SUBSET Tasks, cron : {NoCron}]
IdleReq == [pc |-> "idle", reports |-> {}, tasks |-> {}, cron |-> NoCron]

TypeOK ==
    /\ proc \in {"booting", "up", "down"}
    /\ reports \subseteq Reports
    /\ rtype \in Crons
    /\ row \in [Tasks -> Rows]
    /\ job \in [Tasks -> Jobs]
    /\ poll \in [Polls -> [pc : PollPc, found : SUBSET Found]]
    /\ run \in [Tasks -> [Runs -> RunRec]]
    /\ req \in [Requests -> ReqRecs]
-----------------------------------------------------------------------------
(* The task table. *)

\* UPDATE task SET status = to WHERE id = t AND status IN from: no row, or a row
\* in another status, is left as it is and nobody is told.
UpdateStatus(t, to, from) ==
    row' = IF row[t].status \in from
             THEN [row EXCEPT ![t].status = to] ELSE row

\* repository.save(task) of entities read earlier: an UPDATE, or an INSERT of the
\* same identifier when the row is gone (the report is not part of the entity).
Upserted(ts, c) ==
    [t \in Tasks |->
        IF t \in ts
          THEN [status |-> "SCHEDULED", cron |-> c, linked |-> row[t].linked]
          ELSE row[t]]

Removed(ts) == [t \in Tasks |-> IF t \in ts THEN Absent("deleted") ELSE row[t]]

\* The rows joined to one of the reports rs.
TasksOf(rs) == {t \in Tasks : row[t].linked /\ ReportOf[t] \in rs}
-----------------------------------------------------------------------------
(* loadJobsFromDBAsync: three queries, each followed by a synchronous loop. *)

\* The callback of setInterval; nothing stops it from overlapping the last one.
PollStarts(p) ==
    /\ proc = "up"
    /\ poll[p].pc = "idle"
    /\ poll' = [poll EXCEPT ![p].pc = "read1"]
    /\ UNCHANGED <<proc, reports, rtype, row, job, run, req>>

\* One query of poll p: the tasks in ts, as their rows are now.
Reads(p, pc, next, ts) ==
    /\ poll[p].pc = pc
    /\ poll' = [poll EXCEPT ![p] =
          [pc    |-> next,
           found |-> {[task |-> t, cron |-> row[t].cron, linked |-> row[t].linked] :
                        t \in ts}]]
    /\ UNCHANGED <<proc, reports, rtype, row, job, run, req>>

\* Seeded bug: FAILED tasks are forgotten.
ReadCompleted(p) ==
    Reads(p, "read1", "got1",
          {t \in Tasks : /\ row[t].status = "COMPLETED"
                         /\ row[t].linked => rtype.freq # "ON_REQUEST"})

\* Rows of ON_REQUEST reports are read too, and skipped by the loop.
ReadDone(p) ==
    Reads(p, "read1", "got1",
          {t \in Tasks : /\ row[t].status \in Done
                         /\ row[t].linked => rtype.freq # "ON_REQUEST"})

ReadStopped(p) ==
    Reads(p, "read2", "got2", {t \in Tasks : row[t].status = "CANCELLED"})

ReadScheduled(p) ==
    Reads(p, "read3", "got3", {t \in Tasks : row[t].status = "SCHEDULED"})

\* The job of each found task becomes new(f); the poll goes on to its next query.
Registers(p, pc, next, new(_)) ==
    /\ poll[p].pc = pc
    /\ job' = [t \in Tasks |->
                 IF \E f \in poll[p].found : f.task = t
                   THEN new(CHOOSE f \in poll[p].found : f.task = t)
                   ELSE job[t]]
    /\ poll' = [poll EXCEPT ![p] = [pc |-> next, found |-> {}]]
    /\ UNCHANGED <<reports, rtype, row, run, req>>

JobFor(f) == [live |-> TRUE, cron |-> f.cron, linked |-> f.linked]

\* Seeded bugs: a job is kept whatever its expression, or never removed.
KeepCronJob(f)  == IF job[f.task].live THEN job[f.task] ELSE JobFor(f)
LeaveCronJob(f) == job[f.task]

\* registerCronJob leaves a job with the same expression alone, and with it the
\* task object its callback captured.
RegisterCronJob(f) ==
    IF job[f.task].live /\ job[f.task].cron = f.cron THEN job[f.task] ELSE JobFor(f)

StopCronJob(f) == NoJob

\* reRunCronJob: stop, then register whatever the expression.
RerunDone(p)         == Registers(p, "got1", "read2", JobFor) /\ UNCHANGED proc
StopStopped(p)       == Registers(p, "got2", "read3", StopCronJob) /\ UNCHANGED proc

\* The end of a load; the end of the first one is the end of the bootstrap.
RegisterScheduled(p) == Registers(p, "got3", "idle", RegisterCronJob) /\ proc' = "up"
-----------------------------------------------------------------------------
(* A cron tick and the execution it starts. *)

\* The cron library fires a job whatever its last callback is still doing.
TickFires(t, r) ==
    /\ job[t].live
    /\ run[t][r].pc = "idle"
    /\ run' = [run EXCEPT ![t][r] = [pc |-> "fired", linked |-> job[t].linked]]
    /\ UNCHANGED <<proc, reports, rtype, row, job, poll, req>>

Step(t, r, from, to) ==
    /\ run[t][r].pc = from
    /\ run' = [run EXCEPT ![t][r].pc = to]
    /\ UNCHANGED <<proc, reports, rtype, job, poll, req>>

Ends(t, r, from) ==
    /\ run[t][r].pc = from
    /\ run' = [run EXCEPT ![t][r] = IdleRun]
    /\ UNCHANGED <<proc, reports, rtype, job, poll, req>>

\* Mark the task QUEUED; then, whatever became of that, validateTask throws for a
\* captured task without a report.
QueueTask(t, r) ==
    /\ Step(t, r, "fired", IF run[t][r].linked THEN "claimed" ELSE "errored")
    /\ UpdateStatus(t, "QUEUED", {"SCHEDULED", "COMPLETED", "FAILED"})

StartRunning(t, r) ==
    /\ Step(t, r, "claimed", "working")
    /\ UpdateStatus(t, "RUNNING", {"QUEUED"})

\* Adapter, parameters, connection, query validation, query, export and file:
\* any of them may throw, none of them writes what this module models.
Work(t, r) ==
    /\ \/ Step(t, r, "working", "mailing")
       \/ Step(t, r, "working", "errored")
    /\ UNCHANGED row

\* MailService.send answers true or false; splitting missing addresses throws.
SendMail(t, r) ==
    /\ \E answer \in {"sent", "unsent", "errored"} : Step(t, r, "mailing", answer)
    /\ UNCHANGED row

\* Seeded bug: a task that was put back in the queue is completed too.
CompleteAny(t, r) ==
    /\ Ends(t, r, "sent")
    /\ UpdateStatus(t, "COMPLETED", {"QUEUED", "RUNNING"})

Complete(t, r) ==
    /\ Ends(t, r, "sent")
    /\ UpdateStatus(t, "COMPLETED", {"RUNNING"})

FailUnsent(t, r) ==
    /\ Ends(t, r, "unsent")
    /\ UpdateStatus(t, "FAILED", {"RUNNING"})

\* Seeded bugs: the catch block fails only queued, or only running, tasks.
FailQueued(t, r) ==
    /\ Ends(t, r, "errored")
    /\ UpdateStatus(t, "FAILED", {"QUEUED"})

FailRunning(t, r) ==
    /\ Ends(t, r, "errored")
    /\ UpdateStatus(t, "FAILED", {"RUNNING"})

\* The catch block of executeTaskAsync.
FailErrored(t, r) ==
    /\ Ends(t, r, "errored")
    /\ UpdateStatus(t, "FAILED", {"QUEUED", "RUNNING"})
-----------------------------------------------------------------------------
(* HTTP requests that write tasks. *)

\* Requests are served once the bootstrap is over.
Accepts(q) == proc = "up" /\ req[q].pc = "idle"

Awaits(q, pc) == req[q].pc = pc /\ UNCHANGED <<proc, job, poll, run>>

\* POST /tasks with generateNow: read the report and its type (404 if it is gone).
LoadReport(q, rp) ==
    /\ Accepts(q)
    /\ rp \in reports
    /\ req' = [req EXCEPT ![q] = [pc |-> "finding", reports |-> {rp},
                                 tasks |-> {}, cron |-> DtoCron(rtype)]]
    /\ UNCHANGED <<proc, reports, rtype, row, job, poll, run>>

\* Look for a task of the report.
FindTask(q) ==
    /\ Awaits(q, "finding")
    /\ req' = [req EXCEPT ![q].pc = "saving", ![q].tasks = TasksOf(req[q].reports)]
    /\ UNCHANGED <<reports, rtype, row>>

\* Reschedule the task found.
SaveExisting(q) ==
    /\ Awaits(q, "saving")
    /\ req[q].tasks # {}
    /\ row' = Upserted(req[q].tasks, req[q].cron)
    /\ req' = [req EXCEPT ![q] = IdleReq]
    /\ UNCHANGED <<reports, rtype>>

\* No task was found: insert one.  The database refuses the row when the report
\* is gone (foreign key) or has a task by now (one-to-one).
SaveNew(q) ==
    /\ Awaits(q, "saving")
    /\ req[q].tasks = {}
    /\ IF req[q].reports \subseteq reports /\ TasksOf(req[q].reports) = {}
         THEN \E t \in Tasks :
                /\ row[t].status = "unborn" /\ ReportOf[t] \in req[q].reports
                /\ row' = [row EXCEPT ![t] =
                     [status |-> "SCHEDULED", cron |-> req[q].cron, linked |-> TRUE]]
         ELSE UNCHANGED row
    /\ req' = [req EXCEPT ![q] = IdleReq]
    /\ UNCHANGED <<reports, rtype>>

\* PUT /report-types/:id: read the type with its reports and their tasks.
LoadType(q, c) ==
    /\ Accepts(q)
    /\ req' = [req EXCEPT ![q] = [pc |-> "typing", reports |-> {},
                                 tasks |-> TasksOf(reports), cron |-> c]]
    /\ UNCHANGED <<proc, reports, rtype, row, job, poll, run>>

SaveType(q) ==
    /\ Awaits(q, "typing")
    /\ rtype' = req[q].cron
    /\ req' = IF req[q].tasks = {} THEN [req EXCEPT ![q] = IdleReq]
                                  ELSE [req EXCEPT ![q].pc = "tasking"]
    /\ UNCHANGED <<reports, row>>

SaveTasks(q) ==
    /\ Awaits(q, "tasking")
    /\ row' = Upserted(req[q].tasks, req[q].cron)
    /\ req' = [req EXCEPT ![q] = IdleReq]
    /\ UNCHANGED <<reports, rtype>>

\* DELETE /reports/:id, or /report-types/:id for every report of the type.
LoadDoomed(q, rs) ==
    /\ Accepts(q)
    /\ rs # {} /\ (rs = reports \/ \E rp \in reports : rs = {rp})
    /\ req' = [req EXCEPT ![q] = [pc |-> "deleting", reports |-> rs,
                                 tasks |-> TasksOf(rs), cron |-> NoCron]]
    /\ UNCHANGED <<proc, reports, rtype, row, job, poll, run>>

DeleteTask(q, t) ==
    /\ Awaits(q, "deleting")
    /\ t \in req[q].tasks
    /\ row' = IF row[t].status \in Live THEN Removed({t}) ELSE row
    /\ req' = [req EXCEPT ![q].tasks = @ \ {t}]
    /\ UNCHANGED <<reports, rtype>>

\* Seeded bug: without the cascade, only the tasks read at first are deleted.
DeleteReportsOnly(q) ==
    /\ Awaits(q, "deleting")
    /\ req[q].tasks = {}
    /\ reports' = reports \ req[q].reports
    /\ req' = [req EXCEPT ![q] = IdleReq]
    /\ UNCHANGED <<rtype, row>>

\* The foreign key takes a task inserted meanwhile along with its report.
DeleteReports(q) ==
    /\ Awaits(q, "deleting")
    /\ req[q].tasks = {}
    /\ reports' = reports \ req[q].reports
    /\ row' = Removed(TasksOf(req[q].reports))
    /\ req' = [req EXCEPT ![q] = IdleReq]
    /\ UNCHANGED rtype

\* DELETE /connections/:id: the foreign keys take its reports and their tasks along.
RemoveConnection(rs) ==
    /\ proc = "up"
    /\ rs # {} /\ rs \subseteq reports
    /\ reports' = reports \ rs
    /\ row' = Removed(TasksOf(rs))
    /\ UNCHANGED <<proc, rtype, job, poll, run, req>>

\* Nothing in the service writes CANCELLED or EXPIRED: an operator does, in SQL.
OperatorCancels(t) ==
    /\ row[t].status \in Live \ {"CANCELLED"}
    /\ row' = [row EXCEPT ![t].status = "CANCELLED"]
    /\ UNCHANGED <<proc, reports, rtype, job, poll, run, req>>
-----------------------------------------------------------------------------
\* The process has just started: an empty registry and one load in flight.
FirstPoll(b) == [p \in Polls |-> [pc |-> IF p = b THEN "read1" ELSE "idle", found |-> {}]]

Init ==
    /\ proc = "booting"
    /\ reports = Reports
    /\ rtype \in Crons
    /\ row = [t \in Tasks |-> Absent("unborn")]
    /\ job = [t \in Tasks |-> NoJob]
    /\ \E b \in Polls : poll = FirstPoll(b)
    /\ run = [t \in Tasks |-> [r \in Runs |-> IdleRun]]
    /\ req = [q \in Requests |-> IdleReq]

Polling(p) ==
    \/ ReadDone(p) \/ RerunDone(p)
    \/ ReadStopped(p) \/ StopStopped(p)
    \/ ReadScheduled(p) \/ RegisterScheduled(p)

Executing(t, r) ==
    \/ QueueTask(t, r) \/ StartRunning(t, r)
    \/ Work(t, r) \/ SendMail(t, r)
    \/ Complete(t, r) \/ FailUnsent(t, r) \/ FailErrored(t, r)

\* A request arrives, as a user likes.
Asking(q) ==
    \/ \E rp \in Reports : LoadReport(q, rp)
    \/ \E c \in Crons : LoadType(q, c)
    \/ \E rs \in SUBSET Reports : LoadDoomed(q, rs)

Serving(q) ==
    \/ FindTask(q) \/ SaveExisting(q) \/ SaveNew(q)
    \/ SaveType(q) \/ SaveTasks(q)
    \/ \E t \in Tasks : DeleteTask(q, t)
    \/ DeleteReports(q)

Next ==
    \/ \E p \in Polls : PollStarts(p) \/ Polling(p)
    \/ \E t \in Tasks, r \in Runs : TickFires(t, r) \/ Executing(t, r)
    \/ \E q \in Requests : Asking(q) \/ Serving(q)
    \/ \E rs \in SUBSET Reports : RemoveConnection(rs)
    \/ \E t \in Tasks : OperatorCancels(t)

Spec == Init /\ [][Next]_vars

\* The interval keeps firing and every await is answered in the end; ticks,
\* requests and operators come when they like.
Fairness ==
    /\ \A p \in Polls : WF_vars(PollStarts(p)) /\ WF_vars(Polling(p))
    /\ \A t \in Tasks, r \in Runs : WF_vars(Executing(t, r))
    /\ \A q \in Requests : WF_vars(Serving(q))

FairSpec == Spec /\ Fairness
-----------------------------------------------------------------------------
(* Safety. *)

\* A row says RUNNING ("Currently executing") only while an execution of that
\* task is under way which will still write the row when it ends, although any
\* number of executions of one task overlap, each ends in its own order, and
\* requests reset the row under them.
RunningIsExecuting ==
    \A t \in Tasks : row[t].status = "RUNNING" =>
        \E r \in Runs :
            run[t][r].pc \in {"working", "mailing", "sent", "unsent", "errored"}

\* A row says QUEUED only while some execution of the task has yet to try to start
\* or to fail it: no execution can overtake another and leave the row QUEUED with
\* nobody behind it.
QueuedIsClaimed ==
    \A t \in Tasks : row[t].status = "QUEUED" =>
        \E r \in Runs : run[t][r].pc \in {"claimed", "errored"}

\* Rows and reports stay in step whatever requests overlap: no report ever has two
\* tasks, although scheduling looks first and inserts later, and no task is left
\* joined to a report that is gone, although tasks and reports are deleted in
\* separate statements.
OneTaskPerReport ==
    \A t \in Tasks : row[t].linked =>
        /\ ReportOf[t] \in reports
        /\ \A u \in Tasks : row[u].linked /\ ReportOf[u] = ReportOf[t] => u = t

\* A SCHEDULED task is "waiting for its run time": when no request is under way, the
\* expression of its row is the one its report type's hour and frequency make.
ScheduledForItsRunTime ==
    (\A q \in Requests : req[q].pc = "idle") =>
        \A t \in Tasks :
            row[t].status = "SCHEDULED" /\ row[t].linked => row[t].cron = rtype
-----------------------------------------------------------------------------
(* The scheduler implements the life cycle TaskLifecycle promises. *)

StatusOf == [t \in Tasks |-> row[t].status]
ActiveOf == [t \in Tasks |-> {r \in Runs : run[t][r].pc # "idle"}]
MailedOf == [t \in Tasks |-> {r \in Runs : run[t][r].pc = "sent"}]

Lifecycle == INSTANCE TaskLifecycle WITH status <- StatusOf, active <- ActiveOf,
                                         mailed <- MailedOf

\* A task becomes COMPLETED only from RUNNING and only by an execution whose mail
\* was accepted, each such execution at most once; an execution that ends late
\* changes nothing of a task rescheduled, cancelled or deleted in the meantime.
ImplementsLifecycle == Lifecycle!Spec
-----------------------------------------------------------------------------
(* Liveness. *)

Armed(t) == job[t].live /\ job[t].cron = row[t].cron

\* A row that stays SCHEDULED with one expression gets a job with that expression,
\* whatever older snapshots of the row the polls are holding.
ScheduledIsArmed ==
    \A t \in Tasks, c \in Crons :
        LET Due == row[t].status = "SCHEDULED" /\ row[t].cron = c
        IN  Due ~> (~Due \/ Armed(t))

\* A finished task of a recurring report is armed again, with the row's expression.
DoneIsRearmed ==
    \A t \in Tasks : (row[t].status \in Done /\ rtype.freq = "RECURRING")
                        ~> (row[t].status \notin Done \/ rtype.freq = "ON_REQUEST"
                             \/ Armed(t))

\* A task that stays CANCELLED loses its job for good: no poll that read the row
\* before the cancellation puts the job back after the last one removed it.
CancelledIsDisarmed ==
    \A t \in Tasks : <>[](row[t].status = "CANCELLED") => <>[](~job[t].live)

\* No task stays QUEUED or RUNNING: it finishes, or someone reschedules, cancels
\* or deletes it.
NeverStuck ==
    \A t \in Tasks : row[t].status \in {"QUEUED", "RUNNING"}
                        ~> row[t].status \notin {"QUEUED", "RUNNING"}
=============================================================================
