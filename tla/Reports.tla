-------------------------------- MODULE Reports --------------------------------
(***************************************************************************)
(* Report definitions and what becomes of them: reports and their query    *)
(* parameters, report types, the snapshot of a report that its cron job    *)
(* captures, the executions of that snapshot, the files they write and the *)
(* mails they send.  How a task changes status in detail is the subject of *)
(* TaskScheduler; here a task is scheduled, running or done.  Every await  *)
(* is a step, and all the report types of an instance recur.               *)
(***************************************************************************)
EXTENDS FiniteSets, Naturals

CONSTANTS
    Reports, Types,     \* identifiers the database may give
    TypeName,           \* bound: the name each type has
    Names, FileOf,      \* names of reports, and the file each one makes
    Users,              \* owners
    Deployed,           \* bound: the reports and types the database begins with
    Scheduled,          \* bound: the reports somebody schedules
    Slots,              \* bound: executions in flight
    Requests,           \* bound: HTTP requests in one behaviour
    OpsOf,              \* bound: what each request may ask for
    NoQuery, NoType     \* SQL NULL

ASSUME Initial        == Scheduled \subseteq Reports /\ Deployed \subseteq Reports \cup Types
ASSUME FilesOfNames   == Names \subseteq DOMAIN FileOf
ASSUME Nulls          == NoQuery \notin Requests /\ NoType \notin Types
ASSUME SomeOfEach     == {} \notin {Reports, Types, Names, Users}

VARIABLES
    report,     \* rows of the report table, with the parameters that refer to them
    rtype,      \* rows of the report-type table
    task,       \* status of the task row of each report, "none" without one
    job,        \* the snapshot captured by the cron job of each report
    poll,       \* what a load of the jobs has read of each task
    exec,       \* executions in flight
    media,      \* the content of each file of the media directory
    inbox,      \* the last mail sent for each report
    req         \* HTTP requests

tables == <<report, rtype, task>>
memory == <<job, poll, exec>>
outs   == <<media, inbox>>
vars   == <<tables, memory, outs, req>>

\* A query is known by the request that wrote it; so is a set of parameters.
Queries == Requests \cup {NoQuery}
Row     == {"new", "live", "gone"}

Definitions == [row : Row, owner : Users, name : Names, type : Types \cup {NoType},
                query : Queries, params : SUBSET Requests]
\* A report whose task is gone is not scheduled again (bound): its job would have another key.
Statuses    == {"none", "SCHEDULED", "RUNNING", "DONE", "gone"}

Live       == {r \in Reports : report[r].row = "live"}
LiveTypes  == {t \in Types : rtype[t] = "live"}
ReportsOf(t) == {r \in Live : report[r].type = t}

\* What a load reads of a report, and what an execution made of it.
Snapshots == [report : Reports, name : Names, type : Types \cup {NoType},
              query : Queries, params : SUBSET Requests]
Snapshot(r) == [report |-> r, name |-> report[r].name, type |-> report[r].type,
                query |-> report[r].query, params |-> report[r].params]
None    == [none |-> TRUE]
Found   == [done : BOOLEAN, snap : Snapshots]
Results == [report : Reports, query : Queries, params : SUBSET Requests]
ResultOf(s) == [report |-> s.report, query |-> s.query, params |-> s.params]

Execs == [pc : {"querying", "writing", "mailing"}, snap : Snapshots] \cup {None}

Ops    == {"createReport", "updateReport", "saveQuery", "deleteReport", "schedule",
           "createType", "updateType", "deleteType", "none"}
Fields == {"name", "query", "type", "none"}
Over   == {"ok", "failed", "cut"}
ReqRecs ==
    [pc : {"new", "inserting", "saving", "parameters", "saveTasks", "dropTask", "dropReports",
           "dropType"} \cup Over,
     op : Ops, user : Users, report : Reports, rtype : Types,
     field : Fields, name : Names,                      \* the payload
     seen : Definitions \cup {None}, reports : SUBSET Reports, tasks : SUBSET Reports]   \* as read

TypeOK ==
    /\ report \in [Reports -> Definitions]
    /\ rtype \in [Types -> Row]
    /\ task \in [Reports -> Statuses]
    /\ job \in [Reports -> Snapshots \cup {None}]
    /\ poll \in [Reports -> Found \cup {None}]
    /\ exec \in [Slots -> Execs]
    /\ media \in [{FileOf[n] : n \in Names} -> Results \cup {None}]
    /\ inbox \in [Reports -> [snap : Snapshots, buffer : Results] \cup {None}]
    /\ req \in [Requests -> ReqRecs]
    /\ \A r \in Live : report[r].type \in LiveTypes \cup {NoType}       \* foreign keys
    /\ \A r \in Reports \ Live : task[r] \in {"none", "gone"} /\ report[r].params = {}
    /\ \A r, s \in Live : report[r].name = report[s].name => r = s      \* unique
-----------------------------------------------------------------------------
(* Requests *)

Moves(q, rec)  == req' = [req EXCEPT ![q] = rec]
GoesTo(q, pc)  == Moves(q, [req[q] EXCEPT !.pc = pc])
Blank(q, op, u, r, t) ==
    [pc |-> "new", op |-> op, user |-> u, report |-> r, rtype |-> t,
     field |-> "none", name |-> CHOOSE n \in Names : TRUE, seen |-> None, reports |-> {}, tasks |-> {}]
Unasked(q) == Blank(q, "none", CHOOSE u \in Users : TRUE, CHOOSE r \in Reports : TRUE,
                    CHOOSE t \in Types : TRUE)
\* A request that wrote, or may have, is forgotten but for who asked what of which report.
Remembered(q, rec, pc) ==
    [Unasked(q) EXCEPT !.pc = pc, !.op = rec.op, !.user = rec.user, !.report = rec.report]
Answers(q, rec, pc) ==
    Moves(q, IF pc = "ok" THEN Remembered(q, rec, pc) ELSE [Unasked(q) EXCEPT !.pc = pc])
Fails(q, rec) == Answers(q, rec, "failed") /\ UNCHANGED tables

Asks(q, op) == req[q] = Unasked(q) /\ op \in OpsOf[q]

\* The rows a DELETE takes: parameters and tasks go with their report.
Erased(rs) == [r \in Reports |-> IF r \in rs
                 THEN [report[r] EXCEPT !.row = "gone", !.params = {}, !.query = NoQuery,
                                        !.type = NoType]
                 ELSE report[r]]
Tasked(rs)   == {r \in rs : task[r] # "none"}
Untasked(rs) == [r \in Reports |-> IF r \in rs /\ task[r] # "none" THEN "gone" ELSE task[r]]

\* Seeded bug: the report is found by its identifier alone.
FindAny(u, r) == r \in Live

\* The owner's report, or 404.  Relations are not loaded.
FindOwned(u, r) == r \in Live /\ report[r].owner = u

\* The identifier an INSERT gets; an instance that runs out of them stops inserting.
NextReport == IF \E r \in Reports : report[r].row = "new"
                THEN CHOOSE r \in Reports : report[r].row = "new" ELSE CHOOSE r \in Reports : TRUE

\* Seeded bug: the name is unique among the reports of one owner.
NameTakenByOwner(n, r) ==
    \E s \in Live \ {r} : report[s].name = n /\ report[s].owner = report[r].owner

NameTaken(n, r) == \E s \in Live \ {r} : report[s].name = n

\* createReportAsync: a report with the name is answered as it is, whoever owns it.
CreateReport(q, u, t, n) ==
    /\ Asks(q, "createReport")
    /\ LET rec == [Blank(q, "createReport", u, NextReport, t) EXCEPT !.name = n]
       IN  IF \E s \in Live : report[s].name = n THEN Answers(q, rec, "ok")
           ELSE Moves(q, [rec EXCEPT !.pc = "inserting"])
    /\ UNCHANGED <<tables, memory, outs>>

\* The unique name and the foreign key are checked by the database.
InsertReport(q) ==
    LET r == NextReport IN
    /\ req[q].pc = "inserting" /\ req[q].op = "createReport"
    /\ report[r].row = "new"
    /\ IF NameTaken(req[q].name, r) \/ req[q].rtype \notin LiveTypes
         THEN Fails(q, req[q])
         ELSE /\ report' = [report EXCEPT ![r] =
                    [row |-> "live", owner |-> req[q].user, name |-> req[q].name,
                     type |-> req[q].rtype, query |-> NoQuery, params |-> {}]]
              /\ Answers(q, [req[q] EXCEPT !.report = r], "ok")
              /\ UNCHANGED <<rtype, task>>
    /\ UNCHANGED <<memory, outs>>

\* updateAsync with one field (bound), and saveQueryAsync, which refuses what the
\* validator does not let through.
EditReport(q, u, r, op, f, n, t) ==
    /\ Asks(q, op)
    /\ op = "saveQuery" => f = "query"
    /\ LET rec == [Blank(q, op, u, r, t) EXCEPT !.field = f, !.name = n]
       IN  \/ /\ FindOwned(u, r)
              /\ Moves(q, [rec EXCEPT !.pc = "saving",
                              !.seen = [report[r] EXCEPT !.type = NoType, !.params = {}]])
           \/ /\ ~FindOwned(u, r) \/ op = "saveQuery"
              /\ Answers(q, rec, "failed")
    /\ UNCHANGED <<tables, memory, outs>>

\* save(entity): every loaded column is written back, with the payload's field; a row
\* that is gone is inserted again.
Written(q) ==
    LET r == req[q].report
        s == req[q].seen
    IN  [row   |-> "live", owner |-> s.owner,
         name  |-> IF req[q].field = "name" THEN req[q].name ELSE s.name,
         query |-> IF req[q].field = "query" THEN q ELSE s.query,
         type  |-> IF req[q].field = "type" THEN req[q].rtype ELSE report[r].type,
         params |-> report[r].params]

SaveReport(q) ==
    LET r == req[q].report IN
    /\ req[q].pc = "saving" /\ req[q].op \in {"updateReport", "saveQuery"}
    /\ IF NameTaken(Written(q).name, r) \/ Written(q).type \notin LiveTypes \cup {NoType}
         THEN Fails(q, req[q])
         ELSE /\ report' = [report EXCEPT ![r] = Written(q)]
              /\ IF req[q].op = "saveQuery" THEN GoesTo(q, "parameters")
                 ELSE Answers(q, req[q], "ok")
              /\ UNCHANGED <<rtype, task>>
    /\ UNCHANGED <<memory, outs>>

\* Seeded bug: the new parameters are made and never saved.
DropParameters(q) ==
    /\ req[q].pc = "parameters"
    /\ req[q].report \in Live
    /\ Answers(q, req[q], "ok")
    /\ UNCHANGED <<tables, memory, outs>>

\* The request has been answered; its parameters are saved by nobody who waits for it.
\* The old ones are not removed: the relation was never loaded.
WriteParameters(q) ==
    /\ req[q].pc = "parameters"
    /\ req[q].report \in Live
    /\ report' = [report EXCEPT ![req[q].report].params = @ \cup {q}]
    /\ Answers(q, req[q], "ok")
    /\ UNCHANGED <<rtype, task, memory, outs>>

\* The foreign key of a deleted report rejects them and nobody catches it: the process
\* goes on where a handler is installed, and ends where none is.
RejectParameters(q) ==
    /\ req[q].pc = "parameters"
    /\ req[q].report \notin Live
    /\ \/ Answers(q, req[q], "ok") /\ UNCHANGED memory
       \/ /\ req' = [p \in Requests |->
               IF req[p].pc \in Over \/ req[p].pc = "new" THEN req[p]
               ELSE Remembered(p, req[p], "cut")]
          /\ job' = [r \in Reports |-> None]
          /\ poll' = [r \in Reports |-> None]
          /\ exec' = [e \in Slots |-> None]
    /\ UNCHANGED <<tables, outs>>

\* deleteAsync: the task it was read with, then the report.
DeleteReport(q, u, r) ==
    /\ Asks(q, "deleteReport")
    /\ LET rec == Blank(q, "deleteReport", u, r, CHOOSE t \in Types : TRUE)
       IN  IF FindOwned(u, r)
             THEN Moves(q, [rec EXCEPT !.pc = "dropTask", !.reports = {r}, !.tasks = Tasked({r})])
           ELSE Answers(q, rec, "failed")
    /\ UNCHANGED <<tables, memory, outs>>

\* The tasks of a type go one after the other, here at once.
DropTask(q) ==
    /\ req[q].pc = "dropTask"
    /\ task' = Untasked(req[q].tasks)
    /\ GoesTo(q, "dropReports")
    /\ UNCHANGED <<report, rtype, memory, outs>>

\* deleteAsync deletes the report it found, ReportTypesService.deleteAsync those it
\* found of the type.
DropReports(q) ==
    /\ req[q].pc = "dropReports"
    /\ report' = Erased(req[q].reports \cap Live)
    /\ task' = Untasked(req[q].reports)
    /\ IF req[q].op = "deleteType" THEN GoesTo(q, "dropType") ELSE Answers(q, req[q], "ok")
    /\ UNCHANGED <<rtype, memory, outs>>

\* scheduleTaskAsync: anybody's report, which must have a type.
Schedule(q, r) ==
    /\ Asks(q, "schedule")
    /\ r \in Scheduled /\ task[r] # "gone"
    /\ LET rec == Blank(q, "schedule", CHOOSE u \in Users : TRUE, r, CHOOSE t \in Types : TRUE)
       IN  IF r \in Live /\ report[r].type # NoType
             THEN task' = [task EXCEPT ![r] = "SCHEDULED"] /\ Answers(q, rec, "ok")
             ELSE Answers(q, rec, "failed") /\ UNCHANGED task
    /\ UNCHANGED <<report, rtype, memory, outs>>
-----------------------------------------------------------------------------
(* Report types *)

OfType(q, op, t) == [Unasked(q) EXCEPT !.op = op, !.rtype = t]

\* createAsync: nothing but this check keeps two types from having one name.
CreateType(q, t) ==
    /\ Asks(q, "createType")
    /\ rtype[t] = "new"
    /\ LET rec == OfType(q, "createType", t)
       IN  IF \E s \in LiveTypes : TypeName[s] = TypeName[t] THEN Answers(q, rec, "failed")
           ELSE Moves(q, [rec EXCEPT !.pc = "inserting"])
    /\ UNCHANGED <<tables, memory, outs>>

InsertType(q) ==
    /\ req[q].pc = "inserting" /\ req[q].op = "createType"
    /\ rtype[req[q].rtype] = "new"
    /\ rtype' = [rtype EXCEPT ![req[q].rtype] = "live"]
    /\ Answers(q, req[q], "ok")
    /\ UNCHANGED <<report, task, memory, outs>>

\* Both read the type with its reports and their tasks.
UpdateType(q, t) ==
    /\ Asks(q, "updateType")
    /\ LET rec == OfType(q, "updateType", t)
       IN  IF t \in LiveTypes
             THEN Moves(q, [rec EXCEPT !.pc = "saving", !.reports = ReportsOf(t),
                              !.tasks = Tasked(ReportsOf(t))])
             ELSE Answers(q, rec, "failed")
    /\ UNCHANGED <<tables, memory, outs>>

DeleteType(q, t) ==
    /\ Asks(q, "deleteType")
    /\ LET rec == OfType(q, "deleteType", t)
       IN  IF t \in LiveTypes
             THEN Moves(q, [rec EXCEPT !.pc = "dropTask", !.reports = ReportsOf(t),
                              !.tasks = Tasked(ReportsOf(t))])
             ELSE Answers(q, rec, "ok")
    /\ UNCHANGED <<tables, memory, outs>>

\* Seeded bug: the type is saved as if it had been read with no report.
RelinkedNone(q) ==
    [r \in Reports |-> IF r \in ReportsOf(req[q].rtype) THEN [report[r] EXCEPT !.type = NoType]
                       ELSE report[r]]

\* save(type) with its reports: those it was read with refer to it again, and reports
\* that have come to refer to it since refer to nothing.
Relinked(q) ==
    LET t == req[q].rtype
        had == req[q].reports
    IN  [r \in Reports |->
            IF r \in had \cap Live THEN [report[r] EXCEPT !.type = t]
            ELSE IF r \in ReportsOf(t) THEN [report[r] EXCEPT !.type = NoType] ELSE report[r]]

SaveType(q) ==
    /\ req[q].pc = "saving" /\ req[q].op = "updateType"
    /\ rtype' = [rtype EXCEPT ![req[q].rtype] = "live"]
    /\ report' = Relinked(q)
    /\ GoesTo(q, "saveTasks")
    /\ UNCHANGED <<task, memory, outs>>

\* The controller always passes a datetime, so the tasks read are scheduled again; one that
\* is gone is inserted without its report and is a task of none.
SaveTasks(q) ==
    /\ req[q].pc = "saveTasks"
    /\ task' = [r \in Reports |->
          IF r \in req[q].tasks /\ task[r] # "gone" THEN "SCHEDULED" ELSE task[r]]
    /\ Answers(q, req[q], "ok")
    /\ UNCHANGED <<report, rtype, memory, outs>>

DropType(q) ==
    /\ req[q].pc = "dropType"
    /\ LET t == req[q].rtype IN
         /\ rtype' = [rtype EXCEPT ![t] = "gone"]
         /\ report' = Erased(ReportsOf(t))
         /\ task' = Untasked(ReportsOf(t))
    /\ Answers(q, req[q], "ok")
    /\ UNCHANGED <<memory, outs>>
-----------------------------------------------------------------------------
(* Jobs and executions *)

\* One of the three queries of a load, as far as it concerns report r.
PollReads(r) ==
    /\ poll[r] = None
    /\ task[r] \in {"SCHEDULED", "DONE"}
    /\ poll' = [poll EXCEPT ![r] = [done |-> task[r] = "DONE", snap |-> Snapshot(r)]]
    /\ UNCHANGED <<tables, job, exec, outs, req>>

\* Seeded bug: the job of a task that is done is kept.
RearmsNew(r) == job[r] = None

\* A scheduled task keeps the job it has (its expression never changes here); that of a
\* task that is done is replaced.
Rearms(r) == job[r] = None \/ poll[r].done

PollRegisters(r) ==
    /\ poll[r] # None
    /\ job' = [job EXCEPT ![r] = IF Rearms(r) THEN poll[r].snap ELSE @]
    /\ poll' = [poll EXCEPT ![r] = None]
    /\ UNCHANGED <<tables, exec, outs, req>>

\* A tick claims the task, if there still is one to claim.
TickFires(e, r) ==
    /\ exec[e] = None
    /\ job[r] # None
    /\ exec' = [exec EXCEPT ![e] = [pc |-> "querying", snap |-> job[r]]]
    /\ task' = [task EXCEPT ![r] = IF @ \in {"SCHEDULED", "DONE"} THEN "RUNNING" ELSE @]
    /\ UNCHANGED <<report, rtype, job, poll, outs, req>>

Ends(e) ==
    LET r == exec[e].snap.report IN
    /\ exec' = [exec EXCEPT ![e] = None]
    /\ task' = [task EXCEPT ![r] = IF @ = "RUNNING" THEN "DONE" ELSE @]
    /\ UNCHANGED <<report, rtype, job, poll, req>>

ExecGoesTo(e, pc) ==
    /\ exec' = [exec EXCEPT ![e].pc = pc]
    /\ UNCHANGED <<report, rtype, job, poll, req>>

\* runReportAsync: the validator rejects an empty query; any query may fail.
RunQuery(e) ==
    /\ exec[e] # None /\ exec[e].pc = "querying"
    /\ \/ exec[e].snap.query # NoQuery /\ ExecGoesTo(e, "writing") /\ UNCHANGED task
       \/ Ends(e)
    /\ UNCHANGED outs

\* exportReportAsync and writeFile: without a type there is no format.
WriteFile(e) ==
    /\ exec[e] # None /\ exec[e].pc = "writing"
    /\ IF exec[e].snap.type = NoType THEN Ends(e) /\ UNCHANGED media
       ELSE /\ media' = [media EXCEPT ![FileOf[exec[e].snap.name]] = ResultOf(exec[e].snap)]
            /\ ExecGoesTo(e, "mailing") /\ UNCHANGED task
    /\ UNCHANGED inbox

\* The attachment is the buffer that was exported: it is not read back from the file,
\* which another execution may have written meanwhile.
Attached(e) == ResultOf(exec[e].snap)

Mail(e) ==
    /\ exec[e] # None /\ exec[e].pc = "mailing"
    /\ \/ inbox' = [inbox EXCEPT ![exec[e].snap.report] =
                        [snap |-> exec[e].snap, buffer |-> Attached(e)]]
       \/ UNCHANGED inbox                             \* the mail was not sent
    /\ Ends(e)
    /\ UNCHANGED media
-----------------------------------------------------------------------------
Init ==
    /\ rtype = [t \in Types |-> IF t \in Deployed THEN "live" ELSE "new"]
    /\ report \in [Reports -> [row : {"new", "live"}, owner : {CHOOSE u \in Users : TRUE}, name : Names,
                                type : LiveTypes \cup {NoType}, query : {NoQuery}, params : {{}}]]
    /\ \A r \in Reports :
          /\ report[r].row = "live" <=> r \in Deployed
          /\ report[r].type = NoType <=> r \notin Deployed
          /\ r \notin Deployed => report[r].name = CHOOSE n \in Names : TRUE
    /\ \A r, s \in Live : report[r].name = report[s].name => r = s
    /\ task = [r \in Reports |-> IF r \in Scheduled \cap Deployed THEN "SCHEDULED" ELSE "none"]
    /\ job = [r \in Reports |-> None] /\ poll = [r \in Reports |-> None]
    /\ exec = [e \in Slots |-> None]
    /\ media = [f \in {FileOf[n] : n \in Names} |-> None]
    /\ inbox = [r \in Reports |-> None]
    /\ req = [q \in Requests |-> Unasked(q)]

(* The routes *)

saveReport(q) == \E u \in Users, t \in Types, n \in Names : CreateReport(q, u, t, n)

updateReport(q) ==
    \E u \in Users, r \in Reports, n \in Names, t \in Types, f \in Fields \ {"none"} :
        /\ f # "name" => n = CHOOSE m \in Names : TRUE
        /\ f # "type" => t = CHOOSE s \in Types : TRUE
        /\ EditReport(q, u, r, "updateReport", f, n, t)

saveQuery(q) ==
    \E u \in Users, r \in Reports :
        EditReport(q, u, r, "saveQuery", "query", CHOOSE n \in Names : TRUE, CHOOSE t \in Types : TRUE)

deleteReport(q) == \E u \in Users, r \in Reports : DeleteReport(q, u, r)
scheduleTask(q) == \E r \in Reports : Schedule(q, r)

createReportType(q) == \E t \in Types : CreateType(q, t)
updateReportType(q) == \E t \in Types : UpdateType(q, t)
deleteReportType(q) == \E t \in Types : DeleteType(q, t)

Ask(q) ==
    \/ saveReport(q) \/ updateReport(q) \/ saveQuery(q) \/ deleteReport(q)
    \/ scheduleTask(q)
    \/ createReportType(q) \/ updateReportType(q) \/ deleteReportType(q)

Serve(q) ==
    \/ InsertReport(q) \/ SaveReport(q) \/ WriteParameters(q) \/ RejectParameters(q)
    \/ DropTask(q) \/ DropReports(q) \/ InsertType(q) \/ SaveType(q) \/ SaveTasks(q)
    \/ DropType(q)

Execute(e) == RunQuery(e) \/ WriteFile(e) \/ Mail(e)

Next ==
    \/ \E q \in Requests : Ask(q) \/ Serve(q)
    \/ \E r \in Reports : PollReads(r) \/ PollRegisters(r)
    \/ \E e \in Slots : Execute(e) \/ \E r \in Reports : TickFires(e, r)

Spec == Init /\ [][Next]_vars

\* A statement in the database ends, the cron library ticks, and between two ticks of a
\* task there is time for a load.
Fairness ==
    /\ \A q \in Requests : WF_vars(Serve(q))
    /\ \A e \in Slots : WF_vars(Execute(e))
    /\ \A r \in Reports :
          /\ SF_vars(PollReads(r)) /\ WF_vars(PollRegisters(r))
          /\ WF_vars(\E e \in Slots : TickFires(e, r))

FairSpec == Spec /\ Fairness
-----------------------------------------------------------------------------
(* Properties *)

\* What is mailed as the query of a report was written to it by its owner.
MailedQueryIsOwners ==
    \A r \in Reports : inbox[r] # None =>
        LET q == inbox[r].buffer.query IN
        /\ q \in Requests
        /\ inbox[r].buffer.report = r /\ req[q].report = r
        /\ req[q].user = report[r].owner

\* A save of rows nobody has changed since they were read changes no more than its payload
\* asks for: no other field of the report, and not which reports the type has.
FreshSavesChangeNothingElse ==
    [][\A q \in Requests : req[q].pc = "saving" /\ req'[q].pc # "saving" =>
         LET r == req[q].report IN
         /\ /\ req[q].op # "updateType"
            /\ req[q].seen = [report[r] EXCEPT !.type = NoType, !.params = {}]
            => \A f \in {"name", "query", "type"} \ {req[q].field} : report'[r][f] = report[r][f]
         /\ /\ req[q].op = "updateType"
            /\ req[q].reports = ReportsOf(req[q].rtype)
            => \A s \in Reports : report'[s].type = report[s].type]_vars

\* A saved query has its parameters, once the write that nobody waits for is over, whatever
\* stale saves of the report or its type come in between; a deletion may take them.
Deletions == \E q \in Requests :
    req[q].op \in {"deleteReport", "deleteType"} /\ req[q].pc # "failed"
SavedQueryKeepsParameters ==
    ~Deletions => \A r \in Live : LET q == report[r].query IN
        q # NoQuery /\ req[q].op = "saveQuery" /\ req[q].pc # "parameters" => q \in report[r].params

\* A task left RUNNING by a process that ended is never done.
Abandoned(r) ==
    task[r] = "RUNNING" /\ \A e \in Slots : exec[e] # None => exec[e].snap.report # r

\* The job of a recurring report holds old definitions for a while, not for ever: when the
\* edits are over it comes to run what the tables say.
JobsCatchUp ==
    \A r \in Scheduled :
        <>[](task[r] \notin {"none", "gone"} /\ ~Abandoned(r) => job[r] = Snapshot(r))
=============================================================================
