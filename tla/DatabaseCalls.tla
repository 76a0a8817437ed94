---------------------------- MODULE DatabaseCalls ----------------------------
(***************************************************************************)
(* Everything that opens a connection to a target database: the previews   *)
(* of QueryCache and, beside them, connection tests, listings of tables,   *)
(* analyses of query plans, live queries and executions of tasks.  They    *)
(* share the connections a server admits, and the process that ends when   *)
(* a preview closes what it never opened.                                  *)
(***************************************************************************)
EXTENDS QueryCache, FiniteSets, Adapters

CONSTANTS
    DbTypes,        \* bound: the database types among the connections
    Calls,          \* bound: calls other than previews in flight at once
    Capacity        \* connections a server admits at once

ASSUME CapacityPos    == Capacity \in Nat \ {0}
ASSUME FinitelyMany   == IsFiniteSet(Calls) /\ IsFiniteSet(Tests)

VARIABLES
    db,         \* the database type of each connection; updates keep it (bound)
    call,       \* calls in flight
    answer,     \* how the last call of each slot was answered
    open        \* for each connection, the connections its server has open

callVars == <<db, call, answer, open>>
allVars  == <<vars, callVars>>
-----------------------------------------------------------------------------
(* State *)

AdapterOf(c) == Adapter(db[c])

Ops     == {"test", "tables", "analyze", "stream", "run"}
Plans   == {"efficient", "suggestions"}
Answers == {"none", "connected", "rows", "nothing", "tables", "nameless", "error", "closeError"}
             \cup Plans
Idle    == [pc |-> "idle"]

\* What is about to be answered once a connection is closed; tests and executions close none.
Results(op) ==
    CASE op = "tables"  -> {"tables", "nameless", "error"}
      [] op = "analyze" -> Plans \cup {"error"}
      [] op = "stream"  -> {"rows", "error"}
      [] OTHER -> {}
CallRecs ==
    [pc : {"connecting", "querying"}, op : Ops, conn : Connections] \cup
    {rec \in [pc : {"closing"}, op : Ops, conn : Connections, held : BOOLEAN, result : Answers] :
        rec.result \in Results(rec.op)}

Holds(k, c) ==
    /\ call[k] # Idle /\ call[k].conn = c
    /\ \/ call[k].pc = "querying"
       \/ call[k].pc = "closing" /\ call[k].held
Previews(p, c) == test[p] # IdleTest /\ test[p].pc = "querying" /\ test[p].key[1] = c

\* Handles that somebody in flight has, and those that nobody will close any more.
Held(c)    == {k \in Calls : Holds(k, c)}
Viewing(c) == {p \in Tests : Previews(p, c)}
InFlight(c) == Cardinality(Held(c)) + Cardinality(Viewing(c))
Orphans(c)  == open[c] - InFlight(c)

TypeOKC ==
    /\ TypeOK
    /\ db \in [Connections -> DbTypes]
    /\ call \in [Calls -> CallRecs \cup {Idle}]
    /\ answer \in [Calls -> Answers]
    /\ open \in [Connections -> Nat]
    /\ \A c \in Connections : InFlight(c) <= open[c]
-----------------------------------------------------------------------------
(* Calls *)

\* Read the connection, decrypt its password, which never fails here, and make the adapter:
\* a test comes with the settings, a task with the report its job captured, the others find the row or answer 404.
Begin(k, c, op) ==
    /\ call[k] = Idle
    /\ op \in {"tables", "analyze", "stream"} => c \in previewed
    /\ call' = [call EXCEPT ![k] = [pc |-> "connecting", op |-> op, conn |-> c]]
    /\ answer' = [answer EXCEPT ![k] = "none"]
    /\ UNCHANGED <<vars, db, open>>

testConnection(k) == \E c \in Connections : Begin(k, c, "test")
getConnectionTables(k) == \E c \in Connections : Begin(k, c, "tables")
getQueryPlan(k) == \E c \in Connections : Begin(k, c, "analyze")  \* and the advice on indexes
executeQuery(k) == \E c \in Connections : Begin(k, c, "stream")
runReport(k) == \E c \in Connections : Begin(k, c, "run")

Over(k, a) ==
    /\ call' = [call EXCEPT ![k] = Idle]
    /\ answer' = [answer EXCEPT ![k] = a]
    /\ UNCHANGED <<vars, db>>

Opens(c) == open' = [open EXCEPT ![c] = @ + 1]
Shuts(c) == open' = [open EXCEPT ![c] = @ - 1]

\* try ... finally { await adapter.closeAsync() }
Closing(k, held, a) ==
    /\ call' = [call EXCEPT ![k] = [pc |-> "closing", op |-> @.op, conn |-> @.conn,
                                    held |-> held, result |-> a]]
    /\ UNCHANGED <<vars, db, answer>>

\* testConnectionAsync has what it wants, and keeps it; an aborted live query goes no further.
Connected(k) ==
    /\ call[k].pc = "connecting"
    /\ open[call[k].conn] < Capacity
    /\ Opens(call[k].conn)
    /\ \/ call[k].op = "test" /\ Over(k, "connected")
       \/ call[k].op = "stream" /\ Closing(k, TRUE, "error")
       \/ /\ call[k].op # "test"
          /\ call' = [call EXCEPT ![k].pc = "querying"]
          /\ UNCHANGED <<vars, db, answer>>

\* Seeded bug: the error of an analysis is answered like any other.
RethrownPlan(k) == "error"

\* An analysis that fails is answered with the plan of nothing.
FailedAnswer(k) == IF call[k].op = "analyze" THEN analyzePlan({}) ELSE "error"

Refused(k) ==
    /\ call[k].pc = "connecting"
    /\ IF call[k].op \in {"test", "run"} THEN Over(k, "error")
                                        ELSE Closing(k, FALSE, FailedAnswer(k))
    /\ UNCHANGED open

\* runReportAsync ends here with its adapter open, whatever the query came to.
RunEnds(k) ==
    /\ call[k].pc = "querying" /\ call[k].op = "run"
    /\ \E a \in {"rows", "error", IF AdapterOf(call[k].conn).silent THEN "nothing" ELSE "rows"} :
          Over(k, a)
    /\ UNCHANGED open

\* getConnectionTablesAsync reduces the rows it was given, or fails on nothing.
TablesEnd(k) ==
    /\ call[k].pc = "querying" /\ call[k].op = "tables"
    /\ \E a \in {Tables(db[call[k].conn]), "error"} : Closing(k, TRUE, a)
    /\ UNCHANGED open

AnalysisEnds(k) ==
    /\ call[k].pc = "querying" /\ call[k].op = "analyze"
    /\ \E a \in {analyzePlan(plan) : plan \in SUBSET PlanWords} \cup {FailedAnswer(k)} :
          Closing(k, TRUE, a)
    /\ UNCHANGED open

\* Seeded bug: nothing is shown as nothing.
StreamEndsRaw(k) ==
    /\ call[k].pc = "querying" /\ call[k].op = "stream"
    /\ \E a \in {"rows", "error", IF AdapterOf(call[k].conn).silent THEN "nothing" ELSE "rows"} :
          Closing(k, TRUE, a)
    /\ UNCHANGED open

\* A live query that was answered with nothing has no rows.
StreamEnds(k) ==
    /\ call[k].pc = "querying" /\ call[k].op = "stream"
    /\ \E a \in {"rows", "error"} : Closing(k, TRUE, a)
    /\ UNCHANGED open

Closed(k) ==
    /\ Over(k, IF call[k].held \/ AdapterOf(call[k].conn).guarded THEN call[k].result
               ELSE "closeError")
    /\ IF call[k].held THEN Shuts(call[k].conn) ELSE UNCHANGED open

\* Seeded bugs: an adapter is closed only after an answer, or only if it was connected.
ClosesAnswered(k) ==
    /\ call[k].pc = "closing"
    /\ IF call[k].result = "error" THEN Over(k, "error") /\ UNCHANGED open ELSE Closed(k)

ClosesHeld(k) == call[k].pc = "closing" /\ call[k].held /\ Closed(k)

\* The error of a close takes the place of the answer.
Closes(k) == call[k].pc = "closing" /\ Closed(k)
-----------------------------------------------------------------------------
(* Previews, as far as servers and adapters matter to them *)

\* A hit is answered as soon as there is a connection, which is closed at once.
PreviewConnects(p) ==
    /\ test[p] # IdleTest /\ open[test[p].key[1]] < Capacity
    /\ \/ Hit(p) /\ UNCHANGED open
       \/ Missed(p) /\ Opens(test[p].key[1])
    /\ UNCHANGED <<db, call, answer>>

PreviewEnds(p) ==
    /\ Fetched(p) \/ QueryFails(p)
    /\ Shuts(test[p].key[1])
    /\ UNCHANGED <<db, call, answer>>

\* A guarded close ends quietly; any other rejects with nobody to catch it, and the process
\* goes on or ends, and its connections with it.
PreviewRefused(p) == ConnectFails(p) /\ UNCHANGED callVars

ClosesNothing(p) ==
    /\ ProcessDies(p)
    /\ ~AdapterOf(test[p].key[1]).guarded
    /\ call' = [k \in Calls |-> Idle]
    /\ answer' = [k \in Calls |-> "none"]
    /\ open' = [c \in Connections |-> 0]
    /\ UNCHANGED db

Settling ==
    \/ \E key \in Keys : Expire(key)
    \/ \E u \in Updates : (\E c \in Connections : Update(u, c)) \/ Save(u) \/ Invalidate(u)
    \/ \E c \in Connections : Remove(c)
-----------------------------------------------------------------------------
InitCalls ==
    /\ Init
    /\ db \in [Connections -> DbTypes]
    /\ call = [k \in Calls |-> Idle]
    /\ answer = [k \in Calls |-> "none"]
    /\ open = [c \in Connections |-> 0]

Calling(k) ==
    \/ Connected(k) \/ Refused(k) \/ RunEnds(k) \/ TablesEnd(k) \/ AnalysisEnds(k)
    \/ StreamEnds(k) \/ Closes(k)

PreviewStep(p) ==
    PreviewConnects(p) \/ PreviewEnds(p) \/ PreviewRefused(p) \/ ClosesNothing(p)

NextCalls ==
    \/ \E p \in Tests, key \in Keys : Preview(p, key) /\ UNCHANGED callVars
    \/ \E p \in Tests : PreviewStep(p)
    \/ Settling /\ UNCHANGED callVars
    \/ \E k \in Calls :
          \/ testConnection(k) \/ getConnectionTables(k) \/ getQueryPlan(k)
          \/ executeQuery(k) \/ runReport(k)
          \/ Calling(k)

SpecCalls == InitCalls /\ [][NextCalls]_allVars

\* Servers answer, refuse or time out, and entries of the cache expire.
FairCalls ==
    /\ SpecCalls
    /\ \A p \in Tests : WF_allVars(PreviewStep(p))
    /\ \A key \in Keys : WF_allVars(Expire(key) /\ UNCHANGED callVars)
    /\ \A k \in Calls : WF_allVars(Calling(k))
-----------------------------------------------------------------------------
\* A server's connections without anybody to close them grow by the executions of tasks and
\* by connection tests, when these end, and by no other call, however it ends: with an
\* error, without a connection, aborted, or with its process.
OnlyRunsAndTestsLeak ==
    [][\A c \in Connections : Orphans(c)' > Orphans(c) =>
         \E k \in Calls : /\ call[k] # Idle /\ call'[k] = Idle
                          /\ call[k].conn = c /\ call[k].op \in {"run", "test"}]_allVars

\* The analysis of a plan does not fail with its query; it fails with its connection only
\* where the adapter cannot be closed without one.
AnalysisSurvives ==
    [][\A k \in Calls :
         call[k] # Idle /\ call[k].op = "analyze" /\ call'[k] = Idle =>
            \/ answer'[k] \in Plans \cup {"none"}              \* none: the process ended
            \/ ~AdapterOf(call[k].conn).guarded /\ ~(call[k].pc = "closing" /\ call[k].held)]_allVars

\* Nobody waits for ever: with every connection of a server left open, calls end refused.
EveryCallEnds ==
    /\ \A k \in Calls : call[k] # Idle ~> call[k] = Idle
    /\ \A p \in Tests : test[p] # IdleTest ~> test[p] = IdleTest
=============================================================================
