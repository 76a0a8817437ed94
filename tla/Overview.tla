-------------------------------- MODULE Overview --------------------------------
(***************************************************************************)
(* What the dashboard shows a user: the metrics and the insights, computed *)
(* from the tables of reports with their tasks, report types, connections, *)
(* accounts and audit entries.  Every caller of the two services passes    *)
(* the user in the token.  The statements of one request see one state of  *)
(* the tables.                                                             *)
(* Nothing in the program writes the duration or the time of execution of  *)
(* a task, and both columns are NULL in every row.                         *)
(***************************************************************************)
EXTENDS Integers, FiniteSets, Sequences

CONSTANTS
    Users, Reports, Connections, ReportTypes,
    TypeOf,         \* the type of each report
    Most            \* rows a statement of the insights returns at most: 3 in the code

VARIABLES
    report,     \* rows of reports, with their task
    connection, \* rows of connections
    reportType, \* rows of report types: their frequency; anybody's reports may be of them
    account     \* rows of users

\* Seeded bug, for either list: everybody's rows.
EverybodysReports(u) == DOMAIN report
ReportsOf(u) == {r \in DOMAIN report : report[r].owner = u}
ConnectionsOf(u) == {c \in DOMAIN connection : connection[c].owner = u}

Task(r) == report[r].task
Statuses   == {"none", "SCHEDULED", "QUEUED", "RUNNING", "COMPLETED", "FAILED", "CANCELLED"}
FrequencyOf(r) == reportType[TypeOf[r]]
TasksOf(u) == {r \in ReportsOf(u) : Task(r) # "none"}
NULL == "NULL"
executedAt(r) == NULL
duration(r)   == NULL
Executed(r) == executedAt(r) # NULL
Timed(r) == duration(r) # NULL

Count(S) == Cardinality(S)
Percent(n, of) == IF of = 0 THEN 0 ELSE (200 * n + of) \div (2 * of)
-----------------------------------------------------------------------------
(* DashboardService.getMetricsAsync *)

\* The seventeen statements; two of them count the rows of everybody.
ReadMetrics(u) ==
    [totalReports |-> Count(ReportsOf(u)),
     thisMonth    |-> Count({r \in ReportsOf(u) : report[r].month = "this"}),
     lastMonth    |-> Count({r \in ReportsOf(u) : report[r].month = "last"}),
     connections  |-> Count(ConnectionsOf(u)),
     users        |-> Count(account),
     reportTypes  |-> Count(DOMAIN reportType),
     byStatus     |-> [s \in Statuses |-> Count({r \in TasksOf(u) : Task(r) = s})],
     byType       |-> [y \in {TypeOf[r] : r \in ReportsOf(u)} |->
                          Count({r \in ReportsOf(u) : TypeOf[r] = y})],
     byFrequency  |-> [f \in {FrequencyOf(r) : r \in ReportsOf(u)} |->
                          Count({r \in ReportsOf(u) : FrequencyOf(r) = f})],
     byDatabase   |-> [k \in {connection[c].kind : c \in ConnectionsOf(u)} |->
                          Count({c \in ConnectionsOf(u) : connection[c].kind = k})],
     lastTask     |-> {r \in TasksOf(u) : Task(r) = "COMPLETED" /\ Executed(r)},
     durations    |-> {r \in TasksOf(u) : Task(r) = "COMPLETED" /\ Timed(r)},
     recentDays   |-> {r \in TasksOf(u) : Task(r) \in {"COMPLETED", "FAILED"} /\ Executed(r)},
     recentTasks  |-> TasksOf(u),
     taskCount    |-> Count(TasksOf(u))]

\* What is made of them.  A success rate of zero shows as a hundred.
getMetrics(u) ==
    LET read      == ReadMetrics(u)
        completed == read.byStatus["COMPLETED"]
        pending   == read.byStatus["QUEUED"] + read.byStatus["SCHEDULED"]
        shown     == completed + read.byStatus["FAILED"] + read.byStatus["RUNNING"] + pending
        rate      == IF shown > 0 THEN (2000 * completed + shown) \div (2 * shown) ELSE 0
    IN  [read        |-> read,
         percentages |-> [y \in DOMAIN read.byType |-> Percent(read.byType[y], read.totalReports)],
         pending     |-> pending,
         successRate |-> IF rate = 0 THEN 1000 ELSE rate]       \* in tenths of a percent
-----------------------------------------------------------------------------
(* DashboardAiService.getInsightsAsync: who is named, with which priority. *)

Insight(kind, S, priority) == [kind |-> kind, on |-> S, priority |-> priority]

\* One task per report: it failed, in which case all of its runs did, or it did not.
HighFailureReports(u) == {r \in TasksOf(u) : Task(r) = "FAILED"}
SlowestReports(u) == {r \in TasksOf(u) : Task(r) = "COMPLETED" /\ Timed(r)}
MissingDetails(u) == {r \in ReportsOf(u) : ~report[r].details}

\* Reports of any user count as a use of the connection.
UnusedConnections(u) == {c \in ConnectionsOf(u) : \A r \in DOMAIN report : report[r].connection # c}
StaleReports(u) == {r \in ReportsOf(u) : report[r].days > 30}
FailedConnections(u) == {c \in ConnectionsOf(u) : ~connection[c].tested}
ReportsWithoutTasks(u) == {r \in ReportsOf(u) : Task(r) = "none"}

SlowPriority(secs) == IF secs > 120 THEN 8 ELSE IF secs > 60 THEN 6 ELSE 4
StalePriority(days) == IF days > 90 THEN 7 ELSE IF days > 60 THEN 5 ELSE 3

\* LIMIT without a useful order: any of them; stale reports come with the stalest first.
Limited(S) == {L \in SUBSET S : Count(L) = (IF Count(S) < Most THEN Count(S) ELSE Most)}
Stalest(u) == {L \in Limited(StaleReports(u)) :
                 \A r \in L, s \in StaleReports(u) \ L : report[r].days >= report[s].days}

\* The entries of the last thirty days, or how many deletions are among them.
AuditActivity(u, entries) ==
    LET all       == {e \in entries : e.user = u}
        deletions == {e \in all : e.action = "DELETE"}
    IN  IF all = {} THEN {}
        ELSE IF deletions = {} THEN {Insight("summary", Count(all), 1)}
        ELSE {Insight("deletions", Count(deletions), IF Count(deletions) > 5 THEN 8 ELSE 6)}

\* Each answer that may come, as the insights in it.
getInsights(u, entries) ==
    {{Insight("failure", r, 9) : r \in failing} \cup
     {Insight("slow", r, SlowPriority(duration(r))) : r \in slow} \cup
     {Insight("details", r, 6) : r \in lacking} \cup
     {Insight("unused", c, 3) : c \in unused} \cup
     {Insight("stale", r, StalePriority(report[r].days)) : r \in stale} \cup
     {Insight("connection", c, 10) : c \in broken} \cup
     {Insight("no task", r, 4) : r \in idle} \cup
     AuditActivity(u, entries) :
        failing \in Limited(HighFailureReports(u)), slow \in Limited(SlowestReports(u)),
        lacking \in Limited(MissingDetails(u)), unused \in Limited(UnusedConnections(u)),
        stale \in Stalest(u), broken \in Limited(FailedConnections(u)),
        idle \in Limited(ReportsWithoutTasks(u))}
=============================================================================
