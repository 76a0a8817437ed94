-------------------------------- MODULE ReadSide --------------------------------
(***************************************************************************)
(* What users are shown: the dashboard while rows are written, the audit   *)
(* log read page by page while entries come and go, the parameters a query *)
(* is given, its rows in the file of a report, and the days on which a     *)
(* report is sent.                                                         *)
(***************************************************************************)
EXTENDS Overview, Exports, CronExpressions, Adapters

CONSTANTS
    ReportRows, ConnectionRows, \* bound: the rows there may be
    Rhythms,                    \* bound: the frequencies report types may have
    Saved,                      \* bound: lists of parameters a query is saved with
    Results,                    \* bound: the results of queries
    MaxEntries,                 \* bound: audit entries in one behaviour
    Limits                      \* bound: entries per page

ASSUME EntriesAreNat == MaxEntries \in Nat
ASSUME LimitsArePositive == Limits \subseteq Nat \ {0}
ASSUME SavesAreLists == \A params \in Saved : params \in Seq({params[i] : i \in DOMAIN params})

VARIABLES
    scene,      \* bound: which of the five moves in this behaviour
    log,        \* audit entries: a table, in the order of their ids
    logged,     \* entries logged so far
    walk,       \* a reader of the log, and the page it is about to be given
    sample      \* a date with a frequency, the rows of a query, or the parameters in the
                \* table and those saved last

tables == <<report, connection, reportType, account>>
vars   == <<tables, scene, log, logged, walk, sample>>

Actions == {"POST", "DELETE"}
-----------------------------------------------------------------------------
(* Rows are written by the requests of their owners, or of whoever may. *)

WriteReport(r) ==
    /\ scene = "dashboard"
    /\ \/ \E row \in ReportRows :
            /\ row.connection \in DOMAIN connection /\ TypeOf[r] \in DOMAIN reportType
            /\ report' = [s \in DOMAIN report \cup {r} |-> IF s = r THEN row ELSE report[s]]
       \/ report' = [s \in DOMAIN report \ {r} |-> report[s]]
    /\ UNCHANGED <<connection, reportType, account, scene, log, logged, walk, sample>>

\* The reports on a connection go with it.
WriteConnection(c) ==
    /\ scene = "dashboard"
    /\ \/ /\ \E row \in ConnectionRows :
               connection' = [d \in DOMAIN connection \cup {c} |->
                                IF d = c THEN row ELSE connection[d]]
          /\ UNCHANGED report
       \/ /\ connection' = [d \in DOMAIN connection \ {c} |-> connection[d]]
          /\ report' = [r \in {r \in DOMAIN report : report[r].connection # c} |-> report[r]]
    /\ UNCHANGED <<reportType, account, scene, log, logged, walk, sample>>

\* Report types are everybody's; the reports of a type go with it.
WriteType(y) ==
    /\ scene = "dashboard"
    /\ \/ /\ \E f \in Rhythms :
               reportType' = [z \in DOMAIN reportType \cup {y} |->
                                IF z = y THEN f ELSE reportType[z]]
          /\ UNCHANGED report
       \/ /\ reportType' = [z \in DOMAIN reportType \ {y} |-> reportType[z]]
          /\ report' = [r \in {r \in DOMAIN report : TypeOf[r] # y} |-> report[r]]
    /\ UNCHANGED <<connection, account, scene, log, logged, walk, sample>>

\* An account that goes leaves its reports and connections: their owner is a number only.
WriteAccount(u) ==
    /\ scene = "dashboard"
    /\ account' \in {account \cup {u}, account \ {u}}
    /\ UNCHANGED <<report, connection, reportType, scene, log, logged, walk, sample>>

LogEntry(u) ==
    /\ \/ scene = "dashboard" /\ logged = 0
       \/ scene = "log" /\ logged < MaxEntries
    /\ logged' = logged + 1
    /\ \E a \in Actions : log' = log \cup {[id |-> logged', user |-> u, action |-> a]}
    /\ UNCHANGED <<tables, scene, walk, sample>>

\* purgeOlderThanAsync
Purge ==
    /\ scene = "log"
    /\ \E last \in log : log' = {e \in log : e.id > last.id}
    /\ UNCHANGED <<tables, scene, logged, walk, sample>>
-----------------------------------------------------------------------------
(* AuditLogService.findAllAsync: two statements, the rows of a page and the count. *)

Anybody == "anybody"
Matching(entries, user) == {e \in entries : user = Anybody \/ e.user = user}

\* Seeded bug: the oldest come first.
OldestFirst(entries, e) == {f \in entries : f.id < e.id}

\* ORDER BY createdAt DESC: those listed before an entry.  No two are of the same instant.
NewestFirst(entries, e) == {f \in entries : f.id > e.id}

PageOf(entries, page, limit) ==
    {e \in entries : Cardinality(NewestFirst(entries, e)) \in (page - 1) * limit .. page * limit - 1}

\* The answer has the rows and the total; the client works out the pages.
TotalPages(total, limit) == IF total = 0 THEN 1 ELSE (total + limit - 1) \div limit

NoWalk == [pc |-> "none"]

\* A reader asks for the first page; page and limit have their defaults in the controller.
OpenLog(user, limit) ==
    /\ scene = "log" /\ walk.pc = "none"
    /\ walk' = [pc |-> "rows", user |-> user, limit |-> limit, page |-> 1,
                seen |-> {}, from |-> Matching(log, user)]
    /\ UNCHANGED <<tables, scene, log, logged, sample>>

ReadRows ==
    /\ walk.pc = "rows"
    /\ walk' = [walk EXCEPT !.pc = "count",
                  !.seen = @ \cup PageOf(Matching(log, walk.user), walk.page, walk.limit)]
    /\ UNCHANGED <<tables, scene, log, logged, sample>>

\* The reader goes on while there are pages by the total it was given.
ReadCount ==
    /\ walk.pc = "count"
    /\ walk' = IF walk.page < TotalPages(Cardinality(Matching(log, walk.user)), walk.limit)
                 THEN [walk EXCEPT !.pc = "rows", !.page = @ + 1]
                 ELSE [walk EXCEPT !.pc = "read"]
    /\ UNCHANGED <<tables, scene, log, logged, sample>>
-----------------------------------------------------------------------------
Init ==
    /\ scene \in {"dashboard", "log", "query", "file", "calendar"}
    /\ report = <<>> /\ connection = <<>> /\ reportType = <<>> /\ account = {}
    /\ log = {} /\ logged = 0
    /\ walk = NoWalk
    /\ sample = [kind |-> "none"]

\* The parameters of a save go beside those that are there: two saves at most (bound).
SaveQuery(params) ==
    /\ scene = "query"
    /\ \/ /\ sample.kind = "none"
          /\ sample' = [kind |-> "saves", before |-> <<>>, last |-> params]
       \/ /\ sample.kind = "saves" /\ sample.before = <<>>
          /\ sample' = [kind |-> "saves", before |-> sample.last, last |-> params]
    /\ UNCHANGED <<tables, scene, log, logged, walk>>

\* A query answers, and a task is scheduled.
Answer ==
    /\ scene = "file" /\ sample.kind = "none"
    /\ \E rows \in Results : sample' = [kind |-> "rows", rows |-> rows]
    /\ UNCHANGED <<tables, scene, log, logged, walk>>

Schedule ==
    /\ scene = "calendar" /\ sample.kind = "none"
    /\ \E d \in Dates, f \in Frequency :
          sample' = [kind |-> "date", date |-> d, frequency |-> f]
    /\ UNCHANGED <<tables, scene, log, logged, walk>>

Next ==
    \/ \E r \in Reports : WriteReport(r)
    \/ \E c \in Connections : WriteConnection(c)
    \/ \E y \in ReportTypes : WriteType(y)
    \/ \E u \in Users : WriteAccount(u) \/ LogEntry(u)
    \/ Purge
    \/ \E u \in Users \cup {Anybody}, limit \in Limits : OpenLog(u, limit)
    \/ ReadRows \/ ReadCount
    \/ \E params \in Saved : SaveQuery(params)
    \/ Answer
    \/ Schedule

Spec == Init /\ [][Next]_vars
-----------------------------------------------------------------------------
\* What a user is shown, and what it may be made of: their own rows with the frequency of
\* their types, whether anybody uses their connections, and two numbers that are the same
\* for everybody, how many accounts and how many report types there are.
Shown(u) == <<getMetrics(u), getInsights(u, log)>>
Basis(u) ==
    [reports     |-> {<<r, report[r]>> : r \in {r \in DOMAIN report : report[r].owner = u}},
     frequencies |-> {<<TypeOf[r], FrequencyOf(r)>> : r \in {r \in DOMAIN report : report[r].owner = u}},
     connections |-> {<<c, connection[c]>> : c \in {c \in DOMAIN connection :
                                                     connection[c].owner = u}},
     used        |-> {report[r].connection : r \in DOMAIN report} \cap ConnectionsOf(u),
     entries     |-> Matching(log, u),
     totals      |-> <<Count(account), Count(DOMAIN reportType)>>]

\* The dashboard of a user does not move with what others write, read or are logged for,
\* the two totals aside.
OwnRowsAndTotals == [][\A u \in Users : Basis(u)' = Basis(u) => Shown(u)' = Shown(u)]_vars

\* Somebody who reads the audit log to its last page has seen every entry that was there when
\* they began and still is, although entries come and go between the pages, and between
\* the rows of a page and the count.
WalkMissesNothing ==
    walk.pc = "read" => walk.from \cap log \subseteq walk.seen

\* The parameters of a query reach it as they were saved last, although those of the save
\* before are never removed: by name always, by place where both name the same in one order.
ParametersArrive == sample.kind = "saves" => LastSaveCounts(sample.before, sample.last)

\* Query results reach the file of a report whole and masked.
FilesAreWholeAndMasked == sample.kind = "rows" => WholeAndMasked(sample.rows)

\* Whatever the date and frequency a task is scheduled with, it is sent when it should be,
\* weekly ones excepted: those are sent when they should be, and on all other days.
SentAsPlanned == sample.kind = "date" => FiresAsPlanned(sample.date, sample.frequency)
=============================================================================
