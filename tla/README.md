# Reporting service: TLA+ models, model checking and proofs

The repository is a NestJS backend (one Node process, TypeORM over MSSQL) that keeps
database connections and reports, runs reports on cron schedules, mails the results,
and offers live queries, previews, a dashboard and an audit log. This directory holds
TLA+ models of it, TLC configurations for small instances, and TLAPS proofs for all
instances. Source paths are relative to the repository root; the code is in `src/src/`,
docs in `src/README.md` and `src/arch/todos.md`.

## 1. Inventory

| Component (code) | State | Operations | Correct when |
|---|---|---|---|
| Task scheduler (`tasks/`) | table `task`; registry of cron jobs with the reports they captured; loads and executions in flight | bootstrap, 30 s poll, registering, stopping and re-running jobs, ticks, conditional status updates, execution, scheduling by HTTP | the registry catches up with the tables, statuses have an execution behind them, finished recurring tasks run again, restarts lose nothing |
| Report types (`report-types/`) | type rows, and the tasks of their reports | create, update (rewrites all tasks), delete (tasks, then reports, then the type) | tables stay in step, reports keep their type |
| Reports (`reports/`) | report rows, parameters | create, update, delete, preview, save query | a saved query has its parameters, what is mailed was written by the report's owner |
| Connections (`connections/`) | connection rows, adapters | update, remove, test, list tables, analyze | handles are closed, failed analyses are answered, updates take effect |
| Query cache (`common/cache/`) | node-cache of digest -> rows | get, set, invalidate | no answer from old settings for good, unless results are kept without a limit of time |
| Live queries (`websocket/`) | map client -> AbortController, executions in flight | executeQuery, cancelQuery, disconnect | map never stale, a query in flight can be cancelled, every client learns the end |
| Adapters (`connections/database/`) | a handle each | connect, query, close | parameters arrive, whatever the database |
| Authentication, users, roles, permissions, seeds | tables, tokens with a snapshot of permissions | sign in and up, guards, every mutation of users and roles, seeding | super-admin survives and stays where it belongs, deleted stays deleted, revocation arrives |
| Audit trail (`audit-log/`, interceptor) | `audit_log` table | written after each mutation, paged, purged | answered mutations have an entry, no entry is missed by a reader |
| Dashboard (`dashboard/`) | none | 17 statements of metrics, 8 of insights | a user sees the user's own rows, and the two totals that are everybody's |
| Masking, exporters, cron expressions, pagination (`common/`) | none | functions | files whole and masked, firings as the frequency says (weekly ones are not) |
| Mail | none | I/O | appears as a step with three outcomes |
| Query validation, pool registry, circuit breaker, compliance, observability, encryption, query generation, shell | none that others depend on | | not modelled (section 5) |

How they interact. The scheduler polls the `task` table, which requests of three other
components write (POST /tasks, PUT and DELETE /report-types, DELETE /reports and
/connections); nothing tells the scheduler. A tick runs the runner on what its job
captured, uses an adapter, an exporter and the mailer, and writes the row. Previews read a
report with its connection and go through the cache, which an update of the connection
invalidates. All callers of adapters share the connections a server admits. Guards look at
the token only; the audit interceptor writes after the answer.

What is hard. Everything is one process, so code between two awaits is atomic and every
await lets any other callback in: loads overlap, executions of one task overlap (the cron
library does not wait), requests read entities and save them whole later, writes are
started and not awaited, a process dies with the registry in memory and RUNNING in the
table, the seeds are a second process on the same tables. `PROJECT.json` lists each such
place with its line, as hazards, with the properties that would catch it going wrong.

## 2. Modules

| Module | What it is |
|---|---|
| `TaskScheduler`, `TaskSchedulerMC` | the core: table, registry, polls, ticks, executions, requests; instance |
| `TaskLifecycle` | abstract specification: what the status of a task may do |
| `TaskSchedulerFaults`, `TaskSchedulerFaultsMC` | `TaskScheduler` with crashes, restarts and rejected statements |
| `TaskSchedulerProofs` | types, status invariants, one task per report, and the refinement, proved |
| `TaskSchedulerFaultsProofs` | types, one task per report and the bootstrap under faults, proved |
| `Reports`, `ReportsMC`, `ReportsProofs` | report and type rows, parameters, what jobs capture, executions, files, mails; proofs |
| `Access`, `AccessMC`, `AccessProofs` | users, roles, permissions, tokens, seeds, audit entries; proofs |
| `QueryGateway`, `QueryGatewayMC`, `QueryGatewayProofs` | live queries; proofs |
| `QueryCache` | previews, cache and connection updates |
| `Adapters` | what the eight adapters do differently, parameters, plans: operators only |
| `DatabaseCalls`, `DatabaseCallsMC`, `DatabaseCallsProofs` | `QueryCache` and `Adapters` composed with every other call that opens a connection; proofs |
| `Overview`, `Exports`, `CronExpressions` | dashboard, masking and exporters, cron expressions: operators only |
| `ReadSide`, `ReadSideMC`, `ReadSideProofs` | those, driven by rows that change, and the audit log read page by page; proofs |

### TaskScheduler

State: `row` is the task table (status, cron expression, whether the row is joined to its
report), `reports` and `rtype` the rows it depends on, `job` the `SchedulerRegistry` (the
expression and the captured task), `poll`, `run` and `req` what loads, executions and
requests in flight await and hold, `proc` whether the bootstrap is over.

An action is a stretch of code between two awaits. A `SELECT` is two: the read
(`ReadDone`, `ReadStopped`, `ReadScheduled`, `LoadType` ...) and the callback that acts on
the rows it returned (`RerunDone`, `StopStopped`, `RegisterScheduled`, `SaveType` ...), so
every snapshot ages. A conditional `UPDATE` is one. A tick copies what the job captured
into `run` and goes on through `QueueTask`, `StartRunning`, `Work`, `SendMail` and one of
`Complete`, `FailUnsent`, `FailErrored`. `Work` stands for adapter, parameters, query,
export and file, any of which may throw.

Abstractions and assumptions:
- one report type; reports are neither created nor moved between types during a behaviour
  (they are in `Reports`), and deleting the type's own row after its reports is left out;
- a cron expression is a pair of hour and frequency (its fields are in `CronExpressions`).
  `RECURRING` stands for every frequency that the load does not skip; `dateToCron` gives
  ON_REQUEST the yearly form. Hours matter because `DtoCron` (the twelve-hour run time of
  the DTO) does not preserve them. The clock has `2 * HalfDay` hours. An expression that
  is not valid cannot get into a row, since an invalid date is refused when the type is
  saved; so the throws of `createCronJob` are not reached;
- `active` is never written by the code, `generateNow = false` changes nothing;
- `repository.save` of a loaded entity whose row is gone inserts it again without its
  report (`Upserted`); the one-to-one and cascading foreign keys of the entities are part
  of the database (`SaveNew`, `DeleteReports`, `RemoveConnection`);
- CANCELLED is written by an operator in SQL, as nothing in the service writes it.
  EXPIRED is treated as CANCELLED by the loads and is not kept apart;
- a job of a deleted task keeps firing, as in the code: loads remove jobs of CANCELLED and
  EXPIRED rows only.

### TaskSchedulerFaults and TaskLifecycle

`Crash` clears all memory; `Restart` runs `onApplicationBootstrap`. `PollRejected` follows
the two `catch` blocks (the interval logs, the bootstrap throws and the process ends).
`UpdateRejected` follows the nesting of `executeTaskAsync` and the cron callback: an error
inside reaches the catch block, an error in the catch block or in the update to QUEUED is
an unhandled rejection, which ends the process unless an error tracker has hooked it;
both outcomes are possible. `RequestRejected` keeps the statements already done.

`TaskLifecycle` has the status, the executions that have not ended, and those whose mail
was accepted. The refinement maps `status` to the rows' statuses, `active` to the
executions that are not idle and `mailed` to those awaiting the update after an accepted
mail.

### Reports

`report`, `rtype` and `task` are tables; a query, and a set of parameters, is known by the
request that wrote it, so that a mail can be traced to who asked for what. `job` holds what
the scheduled load had read (`Snapshot`), and each tick copies it into `exec`; `media` has
one entry for each file name that names of reports make, `inbox` the last mail of each
report. A mail is attached the buffer its execution exported (`Attached`); only downloads
read the file. Requests read (`EditReport`, `UpdateType`, `DeleteReport` ...), then write
what they read (`SaveReport`, `SaveType`, `SaveTasks` ...), each statement a step.
`WriteParameters` is the save that `saveQueryAsync` does not await, and `RejectParameters`
the foreign key that refuses it once the report is gone, with nobody to catch it. A request
that a dying process cut off after its first write is forgotten but for who asked what
(`Remembered`), since its write may stand. `Relinked` is what TypeORM does to the other side
of a one-to-many relation that is saved as it was loaded. Task statuses are coarse here
(scheduled, running, done), cron jobs never change their expression, and a report whose task
is gone is not scheduled again.

### Access

`permission`, `role`, `user` are the tables, `session` the token each browser holds with the
permissions of its signing in, `req` the mutations and what each has read, `log` the audit
entry of each mutation, `seed` the run of the seeds. Routes are the lower-case operators:
guard (`Allowed`) and first read in one step, as nothing is awaited between them that the
tables depend on. `Succeeds` is the interceptor starting the entry once the handler has
succeeded; `Record` or `Drop` is its end. The seeds are a process of their own:
`WritePermissions` is the save of the missing permissions that is not awaited, and may come
before, between or after the role and user seeds, or never. Any name may be registered at
any time (`CreateUser`), that of the seeded account before the first seeds too. `SaveUser`
writes all that was loaded; the password column is not loaded, so it cannot insert a deleted
user again. A role deleted during its update is inserted again (`SaveRole`). Left out:
inactive users (nothing deactivates one), new names for users and roles, and the
registration of a name whose row was deleted.

### QueryGateway, QueryCache, Adapters, DatabaseCalls

`QueryGateway`: `stream` is `activeStreams`, `exec` every call of `handleExecuteQuery` with
what it awaits and whether its signal is aborted, `said` the last event emitted. `Ends` is
the finally block, which deletes whatever entry the client has. `Connect` reads the signal
once. Socket identifiers are not used again; an execution slot is reused after its end.

`QueryCache`: `conn` holds a version of each connection's settings and whether it caches,
for a time or for ever (`Caching`), `cache` the settings each entry was fetched under. A
preview keeps the settings it read to its end (`test`). `StartsWith` is what the code
compares in `invalidate`: a key is a hexadecimal digest and never begins with an identifier
and a bar. Nothing keeps the time to live from being zero, and node-cache keeps such entries
for ever: `Expire` is about the others only.

`DatabaseCalls` adds tests, listings of tables, analyses of plans, live queries and
executions of tasks (`call`), and the connections each server has open (`open`), which
connecting and closing change; `Capacity` is what a server admits, beyond which it refuses.
A leak is derived: an open connection that nobody in flight holds (`Orphans`). `Closes` and
`ClosesNothing` follow the adapters that call a method of an undefined handle when nothing
was connected: the error takes the place of the answer where the close is awaited, and ends
the process where it is not. The cache is part of that process and is emptied with it.

### CronExpressions, Exports, Overview, ReadSide

Three modules of operators that translate the pure functions of the code, each beside a
definition of what it should come to: firings over the 365 days of a common year, as many as
the name of the frequency says (`TimesAYear`, `FiresAsPlanned`), every masked cell of every
row in the file of each of the six formats (`WholeAndMasked`), and metrics and insights as
functions of rows. Of the seventeen statements of `getMetricsAsync` the two counts of
accounts and of report types have no filter by owner (`dashboard.service.ts:75-76`).
`ReadSide` drives them: `scene` chooses which one moves, so that the state space is a sum
and not a product. `ReadRows` and `ReadCount` are the two statements of a page of the audit
log, between which entries are added and purged. The log is a table, a set of entries; a
page holds those with so many newer ones before them (`PageOf`). No two entries are taken to
have the same `createdAt`: for those that do, the `ORDER BY` of the code leaves the order
open. What `Adapters` hands to a driver is a set of values with their names and places. The
reader works out the number of pages from the total of each answer (`TotalPages`).
`OwnRowsAndTotals` compares what a user is shown before and after every step of anybody.

## 3. What TLC checks

| Run | Properties | Instance |
|---|---|---|
| `overlap` | `TypeOK`, `RunningIsExecuting`, `QueuedIsClaimed`, `ImplementsLifecycle` | 1 task, 2 executions, 1 load, 1 request, 249k states |
| `requests` | `OneTaskPerReport` | 1 report, 2 task identifiers, 2 requests, 622k |
| `registry` | `ScheduledIsArmed`, `CancelledIsDisarmed` | 1 task, 2 loads, 1 request, 40k |
| `progress` | `DoneIsRearmed`, `NeverStuck` | 1 task, 1 execution, 1 load, 1 request, both frequencies, 445k |
| `recovery` | `BootArmsEverything`, `ScheduledIsArmed`, `DoneIsRearmed` | as `progress`, recurring, 2 faults, 177k |
| `reports` | `TypeOK`, `MailedQueryIsOwners`, `SavedQueryKeepsParameters`, `FreshSavesChangeNothingElse`, `JobsCatchUp` | 2 reports of one file name, 2 types, 2 owners, 2 requests, 2 executions, 203k |
| `access_races` | `TypeOK`, `AdminIsRoots`, `ReseedGivesAll`, `AdminNeverShrinks`, `DeletedStaysDeleted`, `FreshSavesOnlyAdd` | 2 users, 2 roles, 7 permissions, 2 mutations or one and the seeds at once, 909k |
| `access_revocation` | `RevocationArrives`, `AnsweredIsRecorded` | 1 mutation, the seeds, 1 fault, 125k |
| `gateway` | `TypeOK`, `StreamsAreLive`, `StaysInReach`, `NobodyIsLeftWaiting`, `LeaversAreCleared` | 1 client, 3 executions, 8k |
| `database_calls` | `TypeOKC`, `OnlyRunsAndTestsLeak`, `AnalysisSurvives`, `EveryCallEnds`, `EventuallyFresh` | 1 connection of two adapters' kind, 2 previews, 1 call, capacity 2, 1 update to each way of caching, 212k |
| `read_side` | `WalkMissesNothing`, `ParametersArrive`, `FilesAreWholeAndMasked`, `SentAsPlanned`, `OwnRowsAndTotals` | 2 users, 2 reports, 2 types, 1 connection, 3 entries, every date and frequency, 103k |
| `run_time` | `ScheduledForItsRunTime` violated | a clock of 4 hours |

Why the bounds are enough.
- Tasks interact through their report only, so one task shows overlap of executions and
  loads; two identifiers of one report show re-creation and the race of two requests. Two
  loads show a newer snapshot overtaken by an older one; two executions show one finishing
  under another. Two faults reach a crash during a restart. `HalfDay = 1` gives two hours,
  enough to tell a changed expression; only `run_time` needs four.
- Reports interact through a name, a file, a type or one report's row: two of each show
  every pair. The first request edits a report, the second is of any kind but a saved
  query, so that stale saves, deletions and edits of the type overtake the write of
  parameters and the job's snapshot.
- A race of mutations is between what one has read and what another writes: two are
  enough, and beside the seeds one. The database begins empty or with a set of permissions
  that lacks two, so that seeds add some. Payloads are a permission the database has from the
  start and one it may lack.
- Clients of the gateway share nothing; three executions let a controller be replaced twice.
- Two previews and a third call on a server that admits two connections let them run out in
  every way; one adapter of each kind that differs in closing (MSSQL, PostgreSQL) is there.
- The functions are checked over all dates and frequencies, and over all lists of up to two
  parameters or rows made of the kinds of value the code tells apart: the code looks at one
  value, or at a row and the first row, at a time.

All constants called a bound in the modules are bounds of the instance, not of the code.
Each property of a passing run has a seeded bug (the operators commented as such, just
before what they would replace) which breaks it.

Fairness.
- `TaskScheduler!Fairness`: the interval keeps firing and each await is answered, since
  queries, connections and mail have time limits in their drivers. Ticks, requests and
  operators have none. `FairnessF` adds that a dead process is restarted.
- `Reports!Fairness`: statements and executions end, the cron library ticks, and a load
  reads a task that is waiting again and again (strong fairness): loads come every 30
  seconds, ticks of one task once a day at most, so a task cannot leave the statuses a load
  looks for each time just before it looks.
- `Access!Fairness`: tokens expire after an hour, handlers and log entries go on. Nobody
  has to ask for anything, and the seeds need not run on.
- `QueryGateway!Fairness`, `QueryCache!Fairness`, `DatabaseCalls!FairCalls`: lookups,
  connections, queries and closes are answered, and entries with a limit of time expire; those
  set with a time to live of zero never do.

Deadlock is not checked where a system may really come to rest: the gateway when all
sockets are gone, `Reports`, `Access` and `ReadSide` when the requests of the
instance are used up. Everywhere else it is.

What the checks show beside the properties that hold:
- `run_time` (violated): POST /tasks schedules a 14:30 report for 02:30 and midnight for
  noon, because the DTO's run time lost its AM or PM (`report-type.utils.ts:23`); the update
  of the type computes the right hour. The comment in `task-status.enum.ts:2` says
  otherwise.
- `RunningIsExecuting` holds only while the process lives: after a crash, or a rejected
  update in the catch block, a row stays RUNNING and no load looks at it again. Properties
  about what eventually happens exempt such rows (`Abandoned`).
- The update to QUEUED may do nothing and the task is executed all the same, with another
  execution under way or with the row cancelled or deleted.
- The end of one live query deletes the controller of a newer one of the same client, which
  can then neither be cancelled nor aborted by a disconnection; so does the start of a newer one
  to an older. It takes an overlap of two queries of one client, each time (`StaysInReach`),
  and the one out of reach still comes to an end (`LeaversAreCleared`).
- An update of a connection removes nothing from the cache: `EventuallyFresh` holds because
  entries expire. Entries cached with a time to live of zero
  (`connection.request.dto.ts:46-48` has no minimum) do not, and are shown under new settings
  for as long as the process lives; the property excepts them.
- A weekly report is sent every day: the expression of `cron.utils.ts:28` has the fields of a
  daily one. `SentAsPlanned` says that every other frequency keeps its word and leaves
  WEEKLY out; `WeeklyFiresEveryDay` proves what happens instead. There is no run for it, as
  the theorem needs no behaviour.
- Whoever registers the name of the seeded account before the seeds first run is made
  super-admin by them: neither `users.service.ts:126-155` nor `auth.controller.ts:59-68`
  reserves it. `AdminIsRoots` is about the account of that name, whoever's it is, and says
  that until then nobody may do anything.
- The number of accounts and of report types on the dashboard counts everybody's.
  `OwnRowsAndTotals` allows for these two and nothing else.
- The parameters of earlier saves are never removed. A driver that binds by place is given them
  first, so that a query saved with other parameters gets a value of the old list
  (`OldParametersComeFirst`); `ParametersArrive` leaves such lists out.
- Saves from old readings lose updates in both directions (`SaveUpdated`, `SaveType`,
  `SaveReport`). `FreshSavesOnlyAdd` and `FreshSavesChangeNothingElse` say what remains
  true: a save whose reading is still current changes what its payload asks for.
- A revoked permission works until the token expires, an hour at most (`RevocationArrives`).
- The first run of the seeds may leave super-admin without the permissions that were still
  being written; a run that finds them all repairs it (`ReseedGivesAll`).
- Executions of tasks and connection tests leave their handle open, every time; when they
  have used up a server, other calls end refused (`OnlyRunsAndTestsLeak`, `EveryCallEnds`).

## 4. What is proved

`TaskSchedulerProofs` (for any reports, tasks, executions, loads and requests; from
`ReportOfType`, `HalfDayPos` and `FreqsKnown`):
- `TypeCorrect`: `Spec => []TypeOK`. `TypeOK` is inductive; the lemmas give the type of each
  table operation (`UpdateStatusType`, `UpsertedType`, `RemovedType`, `DtoCronType`) and of
  each family of steps.
- `StatusesAreUnderWay`: `RunningIsExecuting /\ QueuedIsClaimed` always holds. Neither is
  inductive alone: a RUNNING row comes from a QUEUED one, and what keeps the row from being
  abandoned is that each exit of an execution moves the row out of the statuses it may have
  left it in. Together, with the types, they are inductive. `ElsewhereSteps` reduces all steps
  of polls, requests and operators to "status unchanged or no longer QUEUED or RUNNING".
- `LifecycleCorrect`: `Spec => ImplementsLifecycle`, step by step: `LifecycleExecuting` for
  the executions, `LifecycleOthers` for requests, cascades and operators, stuttering for the
  rest.

`QueryGatewayProofs` (any clients and executions; from `NoneIsNoExec`):
- `GatewayTypeCorrect`: `Spec => []TypeOK`.
- `StreamsCorrect`: `StreamsAreLive /\ NobodyIsLeftWaiting`, inductive given the types. Each
  step of an execution moves it on or ends it (`RunsMovesOrEnds`); ending empties the entry,
  replacing installs an execution that has just started.
- `QueriesStayInReach`: every step that takes an entry from the map aborts or ends its
  execution, or begins or ends another of the same client.

`AccessProofs` (any permissions, roles, users, sessions and requests; from `SeededNames`,
`PermissionSets` and `BoundsAreNat`), all safety properties of `access_races`:
- `Inductive`: `Spec => []IInv`. The tables alone are not inductive, since what is written
  was read earlier. `ReqInv` says what a request carries: a reading of roles has super-admin
  exactly if it is of the seeded user; an assignment adds no super-admin; no role update or
  deletion is aimed at super-admin. It survives because permissions are never deleted and
  nobody gains or loses super-admin while the row lives. `SeedInv` says the same of the
  seeds: what they hold of the super-admin role covers what the role has, because nobody
  else writes it once it is there. `UserChanges` and `RoleChanges` are the two lemmas about
  tables that every write goes through, `Stays` and `Asked` those about steps that write
  nothing.
- `AccessTypeCorrect`, `AdminStaysRoots`, `ReseedComplete` follow from `IInv`. `AdminStaysRoots`
  needs no assumption on who registers which name: `PhaseInv` says that until the seeds have
  saved the account of that name nobody has a permission, so nobody can hand one on.
- `AdminRoleKept`, `DeletedAccountsStay`, `FreshSaves` are action properties: `RoleWriters`
  and `UserWriters` name the actions that write a table, `SaversAnswer` the actions that
  answer a save, and `IInv` does the rest.

`ReportsProofs` (any reports, types, names, owners, requests and executions; from
`Initial`, `FilesOfNames`, `Nulls` and `SomeOfEach`), all safety properties of `reports`:
- `ReportsInductive`: `Spec => []IInv`. Who wrote a query cannot be read off a mail, so
  `IInv` follows it through every copy: `RowInv` (a query in a row was written by a request
  of the row's owner), `ReqInv` (what a request is about to save back, however old, is the
  same owner's), and `SnapInv` for loads, jobs, executions, files and mails. It survives
  because reports never change owner and requests that wrote are remembered. The proof
  failed for requests that a dying process cuts off after their first write; `Remembered`
  is the correction of the model it led to.
- `ReportsTypeCorrect`, `MailedQueriesAreOwners` follow from `IInv`.
- `SavedQueriesKeepParameters`: `ParamInv` says that, as long as no deletion has begun, the
  query in a row and the query a stale save may put back have their parameters, or the
  request that wrote them is still to write these.
- `FreshSavesCorrect` is an action property of each of the steps that save.

`DatabaseCallsProofs` (any finite sets of calls and previews, any capacity; from
`FinitelyMany` and `MaxVersionIsNat`), all safety properties of
`database_calls`:
- `CallsInductive`: `SpecCalls => []IInv`, the types with the fact that nobody holds a
  connection its server has not open, and `AnalysesHavePlans`. A handle is counted once
  before and once after each step (`OneMore`, `OneLess`). How many a server admits plays no part
  in the proof.
- `CallsTypeCorrect`: no call ever closes with an answer of another kind, or what it never
  held; `LeaksCorrect`: the connections that nobody will close grow only as an execution of a
  task or a connection test ends;
  `AnalysesSurvive`: an analysis is answered with a plan although its query failed.

`TaskSchedulerProofs` has two more: `QueuedHasAnExecution`, and `OneTaskPerReportCorrect`:
requests race, and both may have read that a report has no task, but the database refuses
the second, and no update joins a row to a report. `TaskSchedulerFaultsProofs` carries it
over crashes and rejected statements (`OneTaskPerReportSurvives`), and proves
- `BootCorrect`: `SpecF => BootArmsEverything`, from `BootInductive`. That every scheduled
  task has its job when the bootstrap ends is true because of what has *not* happened by
  then: `BootInv` says that while the process is down nothing runs, and that while it boots
  only one load is under way, whose registry holds all that it has read so far, no request
  having come in between.

`ReadSideProofs` (any users, rows, results, sizes of pages and lists of parameters; from
`EntriesAreNat`, `LimitsArePositive` and `SavesAreLists`), all properties of `read_side`:
- `WalkCorrect`: `Spec => []WalkMissesNothing`. `WalkInv` adds `UnseenIsAhead`: an entry the
  reader has not seen is on a page to come. It holds because entries never get nearer to
  the first: new ones come before all others (`RankGrows`), and a purge takes the last.
- `DashboardIsOwn`: each metric and insight depends on the rows of its user only, so the
  steps of others change nothing but the two totals (`OwnRowsAndTotals`).
- `FilesAreSafe`: for every result, of any length, all rows are in the file of each format
  and, where the rows have the same columns, every sensitive cell is masked (the service
  finds the columns to mask in the first row); the formats differ in where they take the
  columns from, which the lemmas treat one by one.
- `ParametersDoArrive`: a driver that goes by name gets the values saved last, one that goes
  by place does if both saves name the same parameters in one order.
  `OldParametersComeFirst` is about the rest: where the first older parameter is not saved
  again, the first place is given its value.
- `AllAreSentAsPlanned`: a job fires on its date and, unless it is weekly, as often as its
  frequency says, if every month has that day; `WeeklyFiresEveryDay`: a weekly one fires 365
  times where 52 are meant; the dates of a year are counted by a bijection with 1..365.

Model-checked only: the ten properties under fairness (`ScheduledIsArmed`,
`CancelledIsDisarmed`, `DoneIsRearmed`, `NeverStuck`, `LeaversAreCleared`, `JobsCatchUp`,
`RevocationArrives`, `AnsweredIsRecorded`, `EveryCallEnds`, `EventuallyFresh`), as liveness
and ENABLED are out of the prover's reach, and the violation of `run_time`, a
counterexample. All other properties of the runs are theorems. No definition is recursive:
the log, pages and parameters are sets counted by `Cardinality` rather than sequences built
element by element, since induction over data is out of the prover's reach too.

## 5. Not modelled

- Query validation: tests of text against patterns, without state; it appears as a step
  that may refuse (`EditReport`, `RunQuery`).
- Connection pool registry and circuit breaker: provided, and called by nothing in the
  repository; no state of the system depends on them.
- Compliance, health, metrics, tracing, error tracking: constants, configuration flags and
  counters that are read by nobody here. The effect of an unhandled rejection on the process
  is part of `TaskSchedulerFaults`, `Reports` and `DatabaseCalls`.
- Encryption, file formats, templates, mail transport, query generation with a language
  model, connection strings, drivers: I/O and libraries; they appear as steps with outcomes.
- Application shell, migrations, configuration.
- Partly: creation and listing of connections (one insert, no interleaving of its own); the
  advice on indexes (patterns on SQL); the averages, sparklines and wording of the
  dashboard, whose sources (`duration`, `executedAt`) are NULL in every row; the characters a
  mask leaves and the links between pages; renaming users and roles, inactive accounts, and
  the registration of a name whose row was deleted.

## 6. Plan

Done: the models and runs of section 3, and a proof of every safety and action property in
them. Left:

1. Proofs: the refinement of `TaskLifecycle` as far as it survives faults, that is, which of
   its steps a crash may leave out, and which of the status invariants hold of the rows that
   are not `Abandoned`.
2. Modelling: creation of connections and the settings a test keeps; users and roles that
   change their name; registering a name again after its deletion.
