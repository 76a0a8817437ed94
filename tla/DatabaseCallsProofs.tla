-------------------------- MODULE DatabaseCallsProofs --------------------------
(***************************************************************************)
(* Theorems about DatabaseCalls, for any connections, previews, calls and  *)
(* numbers of connections that servers admit.                              *)
(***************************************************************************)
EXTENDS DatabaseCalls, FiniteSetTheorems, TLAPS

CallsType ==
    /\ db \in [Connections -> DbTypes]
    /\ call \in [Calls -> CallRecs \cup {Idle}]
    /\ answer \in [Calls -> Answers]
    /\ open \in [Connections -> Int]

\* Whoever has a handle has one of the connections that are open.
HandlesAreOpen == \A c \in Connections : Orphans(c) \in Nat

\* What an analysis is about to answer is a plan, whether its query failed or not.
AnalysesHavePlans ==
    \A k \in Calls : call[k].pc = "closing" /\ call[k].op = "analyze" => call[k].result \in Plans

IInv == TypeOK /\ CallsType /\ HandlesAreOpen /\ AnalysesHavePlans

\* The execution or the test that ends in a step and leaves a connection open.
Ended(k, c) ==
    /\ call[k] # Idle /\ call'[k] = Idle
    /\ call[k].conn = c /\ call[k].op \in {"run", "test"}

\* What a step may do to the connections that nobody will close.
Balances(c) ==
    \/ Orphans(c)' \in {0, Orphans(c)}
    \/ /\ Orphans(c)' \in Int /\ Orphans(c)' >= Orphans(c)
       /\ \E k \in Calls : Ended(k, c)
-----------------------------------------------------------------------------
(* Counting *)

LEMMA OneMore ==
    ASSUME NEW S, IsFiniteSet(S), NEW x, x \notin S
    PROVE  Cardinality(S) \in Nat /\ Cardinality(S \cup {x}) = Cardinality(S) + 1
BY FS_AddElement, FS_CardinalityType

LEMMA OneLess ==
    ASSUME NEW S, IsFiniteSet(S), NEW x \in S
    PROVE  Cardinality(S) \in Nat /\ Cardinality(S \ {x}) = Cardinality(S) - 1
BY FS_RemoveElement, FS_CardinalityType

LEMMA Finite ==
    ASSUME NEW c
    PROVE  /\ IsFiniteSet(Held(c)) /\ Cardinality(Held(c)) \in Nat
           /\ IsFiniteSet(Viewing(c)) /\ Cardinality(Viewing(c)) \in Nat
<1>1. Held(c) \subseteq Calls /\ Viewing(c) \subseteq Tests
  BY DEF Held, Viewing
<1>2. QED
  BY <1>1, FinitelyMany, FS_Subset, FS_CardinalityType

\* What is opened is in the hands of one more, and what is closed in those of one less.
LEMMA Balance ==
    ASSUME open \in [Connections -> Int], NEW c \in Connections, NEW x,
           \/ open'[c] = open[c] /\ Held(c)' = Held(c) /\ Viewing(c)' = Viewing(c)
           \/ /\ open'[c] = open[c] + 1 /\ x \notin Held(c)
              /\ Held(c)' = Held(c) \cup {x} /\ Viewing(c)' = Viewing(c)
           \/ /\ open'[c] = open[c] + 1 /\ x \notin Viewing(c)
              /\ Held(c)' = Held(c) /\ Viewing(c)' = Viewing(c) \cup {x}
           \/ /\ open'[c] = open[c] - 1 /\ x \in Held(c)
              /\ Held(c)' = Held(c) \ {x} /\ Viewing(c)' = Viewing(c)
           \/ /\ open'[c] = open[c] - 1 /\ x \in Viewing(c)
              /\ Held(c)' = Held(c) /\ Viewing(c)' = Viewing(c) \ {x}
    PROVE  Orphans(c)' = Orphans(c)
<1>1. /\ Orphans(c)  = open[c] - (Cardinality(Held(c)) + Cardinality(Viewing(c)))
      /\ Orphans(c)' = open'[c] - (Cardinality(Held(c)') + Cardinality(Viewing(c)'))
  BY DEF Orphans, InFlight
<1>2. /\ x \notin Held(c) => Cardinality(Held(c) \cup {x}) = Cardinality(Held(c)) + 1
      /\ x \notin Viewing(c) => Cardinality(Viewing(c) \cup {x}) = Cardinality(Viewing(c)) + 1
      /\ x \in Held(c) => Cardinality(Held(c) \ {x}) = Cardinality(Held(c)) - 1
      /\ x \in Viewing(c) => Cardinality(Viewing(c) \ {x}) = Cardinality(Viewing(c)) - 1
  BY Finite, OneMore, OneLess
<1>3. open[c] \in Int /\ Cardinality(Held(c)) \in Nat /\ Cardinality(Viewing(c)) \in Nat
  BY Finite
<1> DEFINE n == Cardinality(Held(c))
           m == Cardinality(Viewing(c))
           o == open[c]
<1>4. \/ open'[c] = o     /\ Cardinality(Held(c)') = n     /\ Cardinality(Viewing(c)') = m
      \/ open'[c] = o + 1 /\ Cardinality(Held(c)') = n + 1 /\ Cardinality(Viewing(c)') = m
      \/ open'[c] = o + 1 /\ Cardinality(Held(c)') = n     /\ Cardinality(Viewing(c)') = m + 1
      \/ open'[c] = o - 1 /\ Cardinality(Held(c)') = n - 1 /\ Cardinality(Viewing(c)') = m
      \/ open'[c] = o - 1 /\ Cardinality(Held(c)') = n     /\ Cardinality(Viewing(c)') = m - 1
  BY <1>2
<1>5. o \in Int /\ n \in Nat /\ m \in Nat
  BY <1>3
<1>6. Orphans(c) = o - (n + m)
  BY <1>1
<1>. HIDE DEF o, n, m
<1>7. QED
  BY <1>1, <1>4, <1>5, <1>6

\* An execution or a test that ends has a handle less in hand, or has opened one.
LEMMA Abandons ==
    ASSUME open \in [Connections -> Int], NEW c \in Connections, NEW k,
           Viewing(c)' = Viewing(c), Held(c)' = Held(c) \ {k},
           open'[c] = open[c] \/ (open'[c] = open[c] + 1 /\ k \notin Held(c))
    PROVE  Orphans(c)' \in Int /\ Orphans(c)' >= Orphans(c)
<1>1. /\ Orphans(c)  = open[c] - (Cardinality(Held(c)) + Cardinality(Viewing(c)))
      /\ Orphans(c)' = open'[c] - (Cardinality(Held(c)') + Cardinality(Viewing(c)))
  BY DEF Orphans, InFlight
<1>2. open[c] \in Int /\ Cardinality(Held(c)) \in Nat /\ Cardinality(Viewing(c)) \in Nat
  BY Finite
<1>3. CASE k \in Held(c)
  <2>1. Cardinality(Held(c)') = Cardinality(Held(c)) - 1
    BY <1>3, Finite, OneLess
  <2>2. open'[c] = open[c]
    BY <1>3
  <2>. DEFINE n == Cardinality(Held(c))
              m == Cardinality(Viewing(c))
              o == open[c]
  <2>3. o \in Int /\ n \in Nat /\ m \in Nat
    BY <1>2
  <2>4. Orphans(c) = o - (n + m) /\ Orphans(c)' = o - ((n - 1) + m)
    BY <1>1, <2>1, <2>2
  <2>. HIDE DEF o, n, m
  <2>5. QED
    BY <2>3, <2>4
<1>4. CASE k \notin Held(c)
  <2>1. Held(c)' = Held(c)
    BY <1>4
  <2>. DEFINE n == Cardinality(Held(c))
              m == Cardinality(Viewing(c))
              o == open[c]
  <2>2. o \in Int /\ n \in Nat /\ m \in Nat
    BY <1>2
  <2>3. /\ Orphans(c) = o - (n + m)
        /\ Orphans(c)' = o - (n + m) \/ Orphans(c)' = (o + 1) - (n + m)
    BY <1>1, <2>1
  <2>. HIDE DEF o, n, m
  <2>4. QED
    BY <2>2, <2>3
<1>5. QED
  BY <1>3, <1>4
-----------------------------------------------------------------------------
(* Previews, connections and the cache *)

LEMMA FirstVersion == 0 \in Versions
BY MaxVersionIsNat DEF Versions

TestRecs == [pc : {"connecting", "querying"}, key : Keys, read : Settings]
UpdRecs  == [pc : {"saving", "saved"}, conn : Connections]

\* Every step of QueryCache keeps its types.
LEMMA CacheType ==
    ASSUME TypeOK, [Next]_vars PROVE TypeOK'
<1>0. /\ conn \in [Connections -> Settings] /\ previewed \subseteq Connections
      /\ cache \in [Keys -> Settings \cup {Miss}]
      /\ test \in [Tests -> {IdleTest} \cup TestRecs]
      /\ upd \in [Updates -> {IdleUpd} \cup UpdRecs]
  BY DEF TypeOK, TestRecs, UpdRecs
<1>1. ASSUME NEW p \in Tests, NEW key \in Keys, Preview(p, key) PROVE TypeOK'
  <2>1. key[1] \in Connections
    BY DEF Keys
  <2>2. conn[key[1]] \in Settings
    BY <1>0, <2>1
  <2>3. [pc |-> "connecting", key |-> key, read |-> conn[key[1]]] \in TestRecs
    BY <2>2 DEF TestRecs
  <2>4. test' \in [Tests -> {IdleTest} \cup TestRecs]
    BY <1>0, <1>1, <2>3 DEF Preview
  <2>5. QED
    BY <1>0, <1>1, <2>4 DEF Preview, TypeOK, TestRecs, UpdRecs
<1>2. ASSUME NEW p \in Tests, Previewing(p) PROVE TypeOK'
  <2>0. test[p].pc \in {"connecting", "querying"} /\ test[p] \in TestRecs
    BY <1>0, <1>2 DEF Previewing, Hit, Missed, Fetched, QueryFails, ConnectFails, ProcessDies,
       IdleTest
  <2>1. test' \in [Tests -> {IdleTest} \cup TestRecs]
    <3>1. CASE Missed(p)
      <4>1. [test[p] EXCEPT !.pc = "querying"] \in TestRecs
        BY <2>0 DEF TestRecs
      <4>2. QED
        BY <1>0, <3>1, <4>1 DEF Missed
    <3>2. CASE Ends(p)
      BY <1>0, <3>2 DEF Ends
    <3>3. CASE ProcessDies(p)
      BY <3>3 DEF ProcessDies
    <3>4. QED
      BY <1>2, <3>1, <3>2, <3>3 DEF Previewing, Hit, Fetched, QueryFails, ConnectFails
  <2>2. cache' \in [Keys -> Settings \cup {Miss}]
    <3>1. CASE Fetched(p)
      <4>1. test[p].read \in Settings
        BY <2>0 DEF TestRecs
      <4>2. QED
        BY <1>0, <3>1, <4>1 DEF Fetched
    <3>2. QED
      BY <1>0, <1>2, <3>1 DEF Previewing, Hit, Missed, QueryFails, ConnectFails, ProcessDies
  <2>3. UNCHANGED <<conn, previewed>> /\ upd' \in [Updates -> {IdleUpd} \cup UpdRecs]
    BY <1>0, <1>2 DEF Previewing, Hit, Missed, Fetched, QueryFails, ConnectFails, ProcessDies,
       Ends
  <2>4. QED
    BY <1>0, <2>1, <2>2, <2>3 DEF TypeOK, TestRecs, UpdRecs
<1>3. ASSUME NEW key \in Keys, Expire(key) PROVE TypeOK'
  BY <1>0, <1>3 DEF Expire, TypeOK, TestRecs, UpdRecs
<1>4. ASSUME NEW u \in Updates, (\E c \in Connections : Update(u, c)) \/ Save(u) \/ Invalidate(u)
      PROVE  TypeOK'
  <2>1. CASE \E c \in Connections : Update(u, c)
    <3>1. PICK c \in Connections : Update(u, c)
      BY <2>1
    <3>2. [pc |-> "saving", conn |-> c] \in UpdRecs
      BY DEF UpdRecs
    <3>3. upd' \in [Updates -> {IdleUpd} \cup UpdRecs]
      BY <1>0, <3>1, <3>2 DEF Update
    <3>4. QED
      BY <1>0, <3>1, <3>3 DEF Update, TypeOK, TestRecs, UpdRecs
  <2>2. CASE Save(u)
    <3>1. upd[u] \in UpdRecs
      BY <1>0, <2>2 DEF Save, IdleUpd
    <3>2. upd[u].conn \in Connections /\ [upd[u] EXCEPT !.pc = "saved"] \in UpdRecs
      BY <3>1 DEF UpdRecs
    <3>3. conn[upd[u].conn].version \in Versions /\ conn[upd[u].conn].version < MaxVersion
      BY <1>0, <2>2, <3>2 DEF Save, Settings
    <3>4. conn[upd[u].conn].version + 1 \in Versions
      BY <3>3, MaxVersionIsNat DEF Versions
    <3>5. PICK b \in Caching : conn' = [conn EXCEPT ![upd[u].conn] =
                                 [version |-> conn[upd[u].conn].version + 1, cached |-> b]]
      BY <2>2 DEF Save
    <3>6. [version |-> conn[upd[u].conn].version + 1, cached |-> b] \in Settings
      BY <3>4 DEF Settings
    <3>7. conn' \in [Connections -> Settings]
      BY <1>0, <3>5, <3>6
    <3>8. upd' \in [Updates -> {IdleUpd} \cup UpdRecs]
      BY <1>0, <2>2, <3>2 DEF Save
    <3>9. QED
      BY <1>0, <2>2, <3>7, <3>8 DEF Save, TypeOK, TestRecs, UpdRecs
  <2>3. CASE Invalidate(u)
    BY <1>0, <2>3 DEF Invalidate, TypeOK, TestRecs, UpdRecs
  <2>4. QED
    BY <1>4, <2>1, <2>2, <2>3
<1>5. ASSUME NEW c \in Connections, Remove(c) PROVE TypeOK'
  BY <1>0, <1>5 DEF Remove, TypeOK, TestRecs, UpdRecs
<1>6. CASE UNCHANGED vars
  BY <1>6 DEF vars, TypeOK
<1>7. QED
  BY <1>1, <1>2, <1>3, <1>4, <1>5, <1>6 DEF Next

\* Every step of DatabaseCalls is one of QueryCache, or leaves its variables alone.
LEMMA CallsAreCacheSteps ==
    ASSUME [NextCalls]_allVars PROVE [Next]_vars
<1>1. CASE \E p \in Tests, key \in Keys : Preview(p, key)
  BY <1>1 DEF Next
<1>2. CASE \E p \in Tests : PreviewStep(p)
  BY <1>2 DEF Next, PreviewStep, PreviewConnects, PreviewEnds, PreviewRefused, ClosesNothing,
     Previewing
<1>3. CASE Settling
  BY <1>3 DEF Next, Settling
<1>4. ASSUME NEW k \in Calls, Calling(k) PROVE UNCHANGED vars
  BY <1>4 DEF Calling, Connected, Refused, RunEnds, TablesEnd, AnalysisEnds, StreamEnds, Closes,
     Closed, Over, Closing
<1>5. ASSUME NEW k \in Calls, NEW c, NEW op, Begin(k, c, op) PROVE UNCHANGED vars
  BY <1>5 DEF Begin
<1>6. QED
  BY <1>1, <1>2, <1>3, <1>4, <1>5 DEF NextCalls, testConnection, getConnectionTables,
     getQueryPlan, executeQuery, runReport, allVars
-----------------------------------------------------------------------------
(* Calls *)

LEMMA PlansAreAnswers == \A plan : analyzePlan(plan) \in Plans /\ Plans \subseteq Answers
BY DEF analyzePlan, Plans, Answers

\* What a step of call k makes of it; the other calls stay.
Becomes(k, rec) == call' = [call EXCEPT ![k] = rec]

LEMMA BecomesIs ==
    ASSUME CallsType, NEW k \in Calls, NEW rec \in CallRecs \cup {Idle}, Becomes(k, rec)
    PROVE  /\ call' \in [Calls -> CallRecs \cup {Idle}]
           /\ call'[k] = rec
           /\ \A j \in Calls \ {k} : call'[j] = call[j]
BY DEF CallsType, Becomes

\* A call on its way to close its adapter.
ClosingRec(k, held, a) ==
    [pc |-> "closing", op |-> call[k].op, conn |-> call[k].conn, held |-> held, result |-> a]

LEMMA RecsAre ==
    ASSUME NEW rec \in CallRecs
    PROVE  /\ rec.pc \in {"connecting", "querying", "closing"} /\ rec # Idle
           /\ rec.conn \in Connections /\ rec.op \in Ops
           /\ rec.pc = "closing" =>
                 /\ rec.held \in BOOLEAN /\ rec.result \in Results(rec.op)
                 /\ rec.result \in Answers /\ rec.op \in {"tables", "analyze", "stream"}
BY DEF CallRecs, Idle, Results, Ops

LEMMA ResultsAre ==
    /\ \A type : Tables(type) \in Results("tables")
    /\ "error" \in Results("tables") /\ "error" \in Results("stream") /\ "rows" \in Results("stream")
    /\ Plans \subseteq Results("analyze")
    /\ \A op \in Ops : Results(op) \subseteq Answers
BY DEF Tables, Results, Answers, Ops, Plans

\* The step of a call: it goes idle, which a test or an execution does from its query or
\* its connection, and any other call only when it has closed; it queries; or it closes,
\* with a handle or without.
LEMMA CallingIs ==
    ASSUME CallsType, NEW k \in Calls, Calling(k)
    PROVE  LET c == call[k].conn IN
           /\ call[k] \in CallRecs /\ UNCHANGED <<vars, db>>
           /\ answer' \in [Calls -> Answers]
           /\ \/ /\ call[k].op \in {"run", "test"} /\ Becomes(k, Idle)
                 /\ UNCHANGED open \/ (Opens(c) /\ call[k].pc = "connecting")
              \/ /\ call[k].pc = "closing" /\ Becomes(k, Idle)
                 /\ IF call[k].held THEN Shuts(c) ELSE UNCHANGED open
                 /\ answer' = [answer EXCEPT ![k] =
                        IF call[k].held \/ AdapterOf(c).guarded THEN call[k].result
                        ELSE "closeError"]
              \/ /\ call[k].pc = "connecting" /\ Opens(c)
                 /\ Becomes(k, [call[k] EXCEPT !.pc = "querying"])
              \/ \E held \in BOOLEAN, a \in Results(call[k].op) :
                    /\ Becomes(k, ClosingRec(k, held, a))
                    /\ call[k].op = "analyze" => a \in Plans
                    /\ \/ call[k].pc = "connecting" /\ ~held /\ UNCHANGED open
                       \/ call[k].pc = "connecting" /\ held /\ Opens(c)
                       \/ call[k].pc = "querying" /\ held /\ UNCHANGED open
<1>0. call[k] \in CallRecs \cup {Idle} /\ answer \in [Calls -> Answers]
  BY DEF CallsType
<1>1. call[k] \in CallRecs
  <2>1. call[k].pc \in {"connecting", "querying", "closing"}
    BY DEF Calling, Connected, Refused, RunEnds, TablesEnd, AnalysisEnds, StreamEnds, Closes
  <2>2. Idle.pc = "idle"
    BY DEF Idle
  <2>3. QED
    BY <1>0, <2>1, <2>2
<1>2. call[k].op \in Ops
  BY <1>1, RecsAre
<1>3. {"connected", "rows", "nothing", "error", "closeError"} \subseteq Answers
  BY DEF Answers
<1>4. call[k].op = "analyze" => FailedAnswer(k) \in Plans
  BY PlansAreAnswers DEF FailedAnswer
<1>5. ASSUME NEW a \in Answers, Over(k, a)
      PROVE  Becomes(k, Idle) /\ answer' \in [Calls -> Answers] /\ UNCHANGED <<vars, db>>
  BY <1>0, <1>5 DEF Over, Becomes
<1>6. ASSUME NEW held \in BOOLEAN, NEW a, Closing(k, held, a)
      PROVE  /\ Becomes(k, ClosingRec(k, held, a))
             /\ answer' \in [Calls -> Answers] /\ UNCHANGED <<vars, db>>
  BY <1>0, <1>6 DEF Closing, Becomes, CallsType, ClosingRec
<1>7. CASE Connected(k)
  <2>1. CASE call[k].op = "test" /\ Over(k, "connected")
    BY <1>1, <1>3, <1>5, <1>7, <2>1 DEF Connected
  <2>2. CASE call[k].op = "stream" /\ Closing(k, TRUE, "error")
    BY <1>1, <1>6, <1>7, <2>2, ResultsAre DEF Connected
  <2>3. CASE call' = [call EXCEPT ![k].pc = "querying"] /\ UNCHANGED <<vars, db, answer>>
    BY <1>0, <1>1, <1>7, <2>3 DEF Connected, Becomes
  <2>4. QED
    BY <1>7, <2>1, <2>2, <2>3 DEF Connected
<1>8. CASE Refused(k)
  <2>1. CASE Over(k, "error") /\ call[k].op \in {"test", "run"}
    BY <1>1, <1>3, <1>5, <1>8, <2>1 DEF Refused
  <2>2. CASE Closing(k, FALSE, FailedAnswer(k)) /\ call[k].op \notin {"test", "run"}
    <3>1. FailedAnswer(k) \in Results(call[k].op)
      BY <1>2, <1>4, <2>2, ResultsAre DEF FailedAnswer, Ops
    <3>2. QED
      BY <1>1, <1>4, <1>6, <1>8, <2>2, <3>1 DEF Refused
  <2>3. QED
    BY <1>8, <2>1, <2>2 DEF Refused
<1>9. CASE RunEnds(k)
  <2>1. PICK a \in Answers : Over(k, a)
    BY <1>3, <1>9 DEF RunEnds
  <2>2. QED
    BY <1>1, <1>5, <1>9, <2>1 DEF RunEnds
<1>10. CASE TablesEnd(k) \/ StreamEnds(k) \/ AnalysisEnds(k)
  <2>1. PICK a \in Results(call[k].op) :
           Closing(k, TRUE, a) /\ (call[k].op = "analyze" => a \in Plans)
    BY <1>4, <1>10, ResultsAre, PlansAreAnswers DEF TablesEnd, StreamEnds, AnalysisEnds
  <2>2. call[k].pc = "querying" /\ UNCHANGED open
    BY <1>10 DEF TablesEnd, StreamEnds, AnalysisEnds
  <2>3. QED
    BY <1>1, <1>6, <2>1, <2>2
<1>11. CASE Closes(k)
  <2> DEFINE a == IF call[k].held \/ AdapterOf(call[k].conn).guarded THEN call[k].result
                  ELSE "closeError"
  <2>1. /\ call[k].pc = "closing" /\ Over(k, a)
        /\ IF call[k].held THEN Shuts(call[k].conn) ELSE UNCHANGED open
    BY <1>11 DEF Closes, Closed
  <2>2. a \in Answers
    BY <1>1, <1>3, <2>1, RecsAre
  <2>3. answer' = [answer EXCEPT ![k] = a]
    BY <2>1 DEF Over
  <2>4. Becomes(k, Idle) /\ answer' \in [Calls -> Answers] /\ UNCHANGED <<vars, db>>
    BY <1>5, <2>1, <2>2
  <2>5. QED
    BY <1>1, <2>1, <2>3, <2>4
<1>12. QED
  BY <1>7, <1>8, <1>9, <1>10, <1>11 DEF Calling

\* Whether a call in this state has a handle.
Has(rec) == rec # Idle /\ (rec.pc = "querying" \/ (rec.pc = "closing" /\ rec.held))

\* What a step of a call makes of the handles that calls hold.
LEMMA HeldIs ==
    ASSUME CallsType, NEW k \in Calls, call[k] \in CallRecs,
           NEW rec \in CallRecs \cup {Idle}, Becomes(k, rec),
           rec # Idle => rec.conn = call[k].conn, NEW c \in Connections
    PROVE  /\ c # call[k].conn => Held(c)' = Held(c)
           /\ c = call[k].conn =>
                 /\ Held(c)' = IF Has(rec) THEN Held(c) \cup {k} ELSE Held(c) \ {k}
                 /\ k \in Held(c) <=> Has(call[k])
<1>1. /\ call'[k] = rec /\ \A j \in Calls \ {k} : call'[j] = call[j]
  BY BecomesIs
<1>2. \A j \in Calls \ {k} : j \in Held(c)' <=> j \in Held(c)
  BY <1>1 DEF Held, Holds
<1>3. k \in Held(c)' <=> Has(rec) /\ rec.conn = c
  BY <1>1 DEF Held, Holds, Has
<1>4. k \in Held(c) <=> Has(call[k]) /\ call[k].conn = c
  BY DEF Held, Holds, Has
<1>5. Held(c)' \subseteq Calls /\ Held(c) \subseteq Calls
  BY DEF Held
<1>6. ASSUME c # call[k].conn PROVE Held(c)' = Held(c)
  <2>1. k \notin Held(c)' /\ k \notin Held(c)
    BY <1>3, <1>4, <1>6 DEF Has
  <2>2. QED
    BY <1>2, <1>5, <2>1
<1>7. ASSUME c = call[k].conn
      PROVE  Held(c)' = IF Has(rec) THEN Held(c) \cup {k} ELSE Held(c) \ {k}
  <2>1. k \in Held(c)' <=> Has(rec)
    BY <1>3, <1>7 DEF Has
  <2>2. QED
    BY <1>2, <1>5, <2>1
<1>8. QED
  BY <1>4, <1>6, <1>7

LEMMA ViewingStays ==
    ASSUME UNCHANGED test, NEW c PROVE Viewing(c)' = Viewing(c)
BY DEF Viewing, Previews

LEMMA InitKept == InitCalls => IInv
<1> SUFFICES ASSUME InitCalls PROVE IInv
  OBVIOUS
<1>1. TypeOK
  BY FirstVersion DEF InitCalls, Init, TypeOK, Settings, IdleTest, IdleUpd
<1>2. CallsType
  BY DEF InitCalls, CallsType, Answers
<1>3. \A c \in Connections : Held(c) = {} /\ Viewing(c) = {} /\ open[c] = 0
  BY DEF InitCalls, Init, Held, Holds, Viewing, Previews
<1>4. HandlesAreOpen
  <2>1. Cardinality({}) = 0
    BY FS_EmptySet
  <2>2. \A c \in Connections : Orphans(c) = 0 - (0 + 0)
    BY <1>3, <2>1 DEF Orphans, InFlight
  <2>3. 0 - (0 + 0) \in Nat
    OBVIOUS
  <2>4. QED
    BY <2>2, <2>3, Zenon DEF HandlesAreOpen
<1>5. AnalysesHavePlans
  BY DEF InitCalls, AnalysesHavePlans, Idle
<1>6. QED
  BY <1>1, <1>2, <1>4, <1>5 DEF IInv

\* Calls hold what they open and close what they hold, tests and executions excepted.
LEMMA CallingKept ==
    ASSUME IInv, NEW k \in Calls, Calling(k)
    PROVE  CallsType' /\ AnalysesHavePlans' /\ \A c \in Connections : Balances(c)
<1>0. /\ CallsType /\ AnalysesHavePlans /\ open \in [Connections -> Int]
      /\ call[k] \in CallRecs /\ UNCHANGED <<vars, db>> /\ answer' \in [Calls -> Answers]
  BY CallingIs DEF IInv, CallsType
<1>b. PICK b \in Connections : b = call[k].conn
  BY <1>0, RecsAre
<1>1. \A c \in Connections : Viewing(c)' = Viewing(c)
  BY <1>0, ViewingStays DEF vars
<1>2. /\ Opens(b) => /\ open' \in [Connections -> Int] /\ open'[b] = open[b] + 1
                     /\ \A c \in Connections \ {b} : open'[c] = open[c]
      /\ Shuts(b) => /\ open' \in [Connections -> Int] /\ open'[b] = open[b] - 1
                     /\ \A c \in Connections \ {b} : open'[c] = open[c]
  BY <1>0 DEF Opens, Shuts
<1>3. open' \in [Connections -> Int] /\ \A c \in Connections \ {b} : open'[c] = open[c]
  <2>1. Opens(b) \/ Shuts(b) \/ UNCHANGED open
    BY <1>0, <1>b, CallingIs
  <2>2. QED
    BY <1>0, <1>2, <2>1
<1>4. ASSUME NEW rec \in CallRecs \cup {Idle}, Becomes(k, rec),
             rec # Idle => rec.conn = b,
             rec # Idle /\ rec.pc = "closing" /\ rec.op = "analyze" => rec.result \in Plans,
             Balances(b)
      PROVE  CallsType' /\ AnalysesHavePlans' /\ \A c \in Connections : Balances(c)
  <2>1. /\ call' \in [Calls -> CallRecs \cup {Idle}] /\ call'[k] = rec
        /\ \A j \in Calls \ {k} : call'[j] = call[j]
    BY <1>0, <1>4, BecomesIs
  <2>2. CallsType'
    BY <1>0, <1>3, <2>1 DEF CallsType
  <2>3. AnalysesHavePlans'
    BY <1>0, <1>4, <2>1 DEF AnalysesHavePlans, Idle
  <2>4. ASSUME NEW c \in Connections, c # b PROVE Balances(c)
    <3>1. Held(c)' = Held(c)
      BY <1>0, <1>b, <1>4, <2>4, HeldIs
    <3>2. Orphans(c)' = Orphans(c)
      BY <1>0, <1>1, <1>3, <2>4, <3>1, Balance
    <3>3. QED
      BY <3>2 DEF Balances
  <2>5. QED
    BY <1>4, <2>2, <2>3, <2>4
<1>5. CASE /\ call[k].op \in {"run", "test"} /\ Becomes(k, Idle)
           /\ UNCHANGED open \/ (Opens(b) /\ call[k].pc = "connecting")
  <2>1. Held(b)' = Held(b) \ {k} /\ (k \in Held(b) <=> Has(call[k]))
    BY <1>0, <1>b, <1>5, HeldIs DEF Has
  <2>2. open'[b] = open[b] \/ (open'[b] = open[b] + 1 /\ k \notin Held(b))
    BY <1>2, <1>5, <2>1 DEF Has
  <2>3. Orphans(b)' \in Int /\ Orphans(b)' >= Orphans(b)
    BY <1>0, <1>1, <2>1, <2>2, Abandons
  <2>4. Ended(k, b)
    BY <1>0, <1>b, <1>5, BecomesIs, RecsAre DEF Ended
  <2>5. QED
    BY <1>4, <1>5, <2>3, <2>4 DEF Balances
<1>6. CASE /\ call[k].pc = "closing" /\ Becomes(k, Idle)
           /\ IF call[k].held THEN Shuts(b) ELSE UNCHANGED open
  <2>1. Held(b)' = Held(b) \ {k} /\ (k \in Held(b) <=> call[k].held)
    BY <1>0, <1>b, <1>6, HeldIs, RecsAre DEF Has
  <2>2. Orphans(b)' = Orphans(b)
    <3>1. CASE call[k].held
      BY <1>0, <1>1, <1>2, <1>6, <2>1, <3>1, Balance
    <3>2. CASE ~call[k].held
      <4>1. Held(b)' = Held(b) /\ open'[b] = open[b]
        BY <1>6, <2>1, <3>2
      <4>2. QED
        BY <1>0, <1>1, <4>1, Balance
    <3>3. QED
      BY <3>1, <3>2
  <2>3. QED
    BY <1>4, <1>6, <2>2 DEF Balances
<1>7. ASSUME NEW rec \in CallRecs, Becomes(k, rec), rec.conn = b,
             rec.pc = "closing" /\ rec.op = "analyze" => rec.result \in Plans,
             \/ call[k].pc = "connecting" /\ ~Has(rec) /\ UNCHANGED open
             \/ call[k].pc = "connecting" /\ Has(rec) /\ Opens(b)
             \/ call[k].pc = "querying" /\ Has(rec) /\ UNCHANGED open
      PROVE  CallsType' /\ AnalysesHavePlans' /\ \A c \in Connections : Balances(c)
  <2>1. /\ Held(b)' = IF Has(rec) THEN Held(b) \cup {k} ELSE Held(b) \ {k}
        /\ k \in Held(b) <=> call[k].pc = "querying"
    BY <1>0, <1>b, <1>7, HeldIs, RecsAre DEF Has
  <2>2. CASE UNCHANGED open
    <3>1. Held(b)' = Held(b) /\ open'[b] = open[b]
      BY <1>7, <2>1, <2>2, <1>2, <1>0
    <3>2. Orphans(b)' = Orphans(b)
      BY <1>0, <1>1, <3>1, Balance
    <3>3. QED
      BY <1>4, <1>7, <3>2 DEF Balances
  <2>3. CASE call[k].pc = "connecting" /\ Has(rec) /\ Opens(b)
    <3>1. Orphans(b)' = Orphans(b)
      BY <1>0, <1>1, <1>2, <2>1, <2>3, Balance
    <3>2. QED
      BY <1>4, <1>7, <3>1 DEF Balances
  <2>4. QED
    BY <1>7, <2>2, <2>3
<1>8. CASE /\ call[k].pc = "connecting" /\ Opens(b)
           /\ Becomes(k, [call[k] EXCEPT !.pc = "querying"])
  <2> DEFINE rec == [call[k] EXCEPT !.pc = "querying"]
  <2>1. rec \in CallRecs /\ rec.conn = b /\ rec.pc = "querying"
    BY <1>0, <1>b, <1>8 DEF CallRecs
  <2>2. Becomes(k, rec)
    BY <1>8
  <2> HIDE DEF rec
  <2>3. Has(rec)
    BY <2>1, RecsAre DEF Has
  <2>4. QED
    BY <1>7, <1>8, <2>1, <2>2, <2>3
<1>9. ASSUME NEW held \in BOOLEAN, NEW a \in Results(call[k].op),
             Becomes(k, ClosingRec(k, held, a)),
             call[k].op = "analyze" => a \in Plans,
             \/ call[k].pc = "connecting" /\ ~held /\ UNCHANGED open
             \/ call[k].pc = "connecting" /\ held /\ Opens(b)
             \/ call[k].pc = "querying" /\ held /\ UNCHANGED open
      PROVE  CallsType' /\ AnalysesHavePlans' /\ \A c \in Connections : Balances(c)
  <2> DEFINE rec == ClosingRec(k, held, a)
  <2>1. call[k].op \in Ops /\ a \in Answers
    BY <1>0, <1>9, RecsAre, ResultsAre
  <2>2. /\ rec \in CallRecs /\ rec.conn = b /\ rec.pc = "closing" /\ rec.op = call[k].op
        /\ rec.held = held /\ rec.result = a
    BY <1>b, <1>9, <2>1 DEF CallRecs, ClosingRec
  <2>3. Becomes(k, rec)
    BY <1>9
  <2> HIDE DEF rec
  <2>4. Has(rec) <=> held
    BY <2>2, RecsAre DEF Has
  <2>5. QED
    BY <1>7, <1>9, <2>2, <2>3, <2>4
<1>10. QED
  BY <1>0, <1>b, <1>5, <1>6, <1>8, <1>9, CallingIs

\* A call begins without a connection.
LEMMA BeginKept ==
    ASSUME IInv, NEW k \in Calls, NEW b \in Connections, NEW op \in Ops, Begin(k, b, op)
    PROVE  CallsType' /\ AnalysesHavePlans' /\ \A c \in Connections : Balances(c)
<1> DEFINE rec == [pc |-> "connecting", op |-> op, conn |-> b]
<1>0. CallsType /\ AnalysesHavePlans /\ call[k] = Idle /\ open \in [Connections -> Int]
  BY DEF IInv, Begin, CallsType
<1>1. rec \in CallRecs /\ rec.pc = "connecting"
  BY DEF CallRecs
<1>2. Becomes(k, rec) /\ UNCHANGED <<vars, db, open>> /\ answer' \in [Calls -> Answers]
  BY <1>0 DEF Begin, Becomes, CallsType, Answers
<1> HIDE DEF rec
<1>3. /\ call' \in [Calls -> CallRecs \cup {Idle}] /\ call'[k] = rec
      /\ \A j \in Calls \ {k} : call'[j] = call[j]
  BY <1>0, <1>1, <1>2, BecomesIs
<1>4. CallsType' /\ AnalysesHavePlans'
  BY <1>0, <1>1, <1>2, <1>3 DEF CallsType, AnalysesHavePlans
<1>5. ASSUME NEW c \in Connections PROVE Balances(c)
  <2>1. Held(c)' = Held(c)
    BY <1>0, <1>1, <1>3 DEF Held, Holds
  <2>2. Viewing(c)' = Viewing(c)
    BY <1>2, ViewingStays DEF vars
  <2>3. Orphans(c)' = Orphans(c)
    BY <1>0, <1>2, <2>1, <2>2, Balance
  <2>4. QED
    BY <2>3 DEF Balances
<1>6. QED
  BY <1>4, <1>5

\* A preview has a handle from the moment it is connected until it ends; when the process
\* ends, nobody has any and none is open.
LEMMA PreviewKept ==
    ASSUME IInv, NEW p \in Tests, PreviewStep(p) \/ (\E key \in Keys : Preview(p, key) /\ UNCHANGED callVars)
    PROVE  CallsType' /\ AnalysesHavePlans' /\ \A c \in Connections : Balances(c)
<1>0. /\ CallsType /\ AnalysesHavePlans /\ open \in [Connections -> Int]
      /\ test \in [Tests -> {IdleTest} \cup TestRecs]
  BY DEF IInv, TypeOK, TestRecs, CallsType
<1>1. CASE ClosesNothing(p)
  <2>1. /\ call' = [k \in Calls |-> Idle] /\ open' = [c \in Connections |-> 0]
        /\ CallsType'
    BY <1>0, <1>1 DEF ClosesNothing, CallsType, Answers
  <2>2. AnalysesHavePlans'
    BY <2>1 DEF AnalysesHavePlans, Idle
  <2>3. test' = [o \in Tests |-> IdleTest]
    BY <1>1 DEF ClosesNothing, ProcessDies
  <2>4. ASSUME NEW c \in Connections PROVE Balances(c)
    <3>1. Held(c)' = {}
      BY <2>1 DEF Held, Holds
    <3>2. Viewing(c)' = {}
      BY <2>3 DEF Viewing, Previews
    <3>3. Orphans(c)' = 0
      BY <2>1, <3>1, <3>2, FS_EmptySet DEF Orphans, InFlight
    <3>4. QED
      BY <3>3 DEF Balances
  <2>5. QED
    BY <2>1, <2>2, <2>4
<1>2. ASSUME UNCHANGED <<db, call, answer>>, open' \in [Connections -> Int]
      PROVE  /\ CallsType' /\ AnalysesHavePlans'
             /\ \A c \in Connections : Held(c)' = Held(c)
  BY <1>0, <1>2 DEF CallsType, AnalysesHavePlans, Held, Holds
<1>3. ASSUME UNCHANGED callVars, \A o \in Tests \ {p} : test'[o] = test[o],
             \A c : ~Previews(p, c) /\ ~Previews(p, c)'
      PROVE  CallsType' /\ AnalysesHavePlans' /\ \A c \in Connections : Balances(c)
  <2>1. CallsType' /\ AnalysesHavePlans' /\ \A c \in Connections : Held(c)' = Held(c)
    BY <1>0, <1>2, <1>3 DEF callVars
  <2>2. ASSUME NEW c \in Connections PROVE Balances(c)
    <3>1. Viewing(c)' = Viewing(c)
      BY <1>3 DEF Viewing, Previews
    <3>2. open'[c] = open[c]
      BY <1>3 DEF callVars
    <3>3. Orphans(c)' = Orphans(c)
      BY <1>0, <2>1, <3>1, <3>2, Balance
    <3>4. QED
      BY <3>3 DEF Balances
  <2>3. QED
    BY <2>1, <2>2
<1>4. CASE Ends(p) /\ test[p].pc = "connecting" /\ UNCHANGED callVars
  <2>1. \A o \in Tests \ {p} : test'[o] = test[o]
    BY <1>0, <1>4 DEF Ends
  <2>2. \A c : ~Previews(p, c) /\ ~Previews(p, c)'
    BY <1>0, <1>4 DEF Ends, Previews, IdleTest
  <2>3. QED
    BY <1>3, <1>4, <2>1, <2>2
<1>5. CASE \E key \in Keys : Preview(p, key) /\ UNCHANGED callVars
  <2>1. \A o \in Tests \ {p} : test'[o] = test[o]
    BY <1>0, <1>5 DEF Preview
  <2>2. \A c : ~Previews(p, c) /\ ~Previews(p, c)'
    BY <1>0, <1>5 DEF Preview, Previews, IdleTest
  <2>3. QED
    BY <1>3, <1>5, <2>1, <2>2
\* The preview opens or closes what it looks at.
<1>6. ASSUME NEW b \in Connections, UNCHANGED <<db, call, answer>>,
             \/ Opens(b) /\ p \notin Viewing(b) /\ Viewing(b)' = Viewing(b) \cup {p}
             \/ Shuts(b) /\ p \in Viewing(b) /\ Viewing(b)' = Viewing(b) \ {p},
             \A c \in Connections \ {b} : Viewing(c)' = Viewing(c)
      PROVE  CallsType' /\ AnalysesHavePlans' /\ \A c \in Connections : Balances(c)
  <2>1. /\ open' \in [Connections -> Int]
        /\ Opens(b) => open'[b] = open[b] + 1
        /\ Shuts(b) => open'[b] = open[b] - 1
        /\ \A c \in Connections \ {b} : open'[c] = open[c]
    BY <1>0, <1>6 DEF Opens, Shuts
  <2>2. CallsType' /\ AnalysesHavePlans' /\ \A c \in Connections : Held(c)' = Held(c)
    BY <1>2, <1>6, <2>1
  <2>3. Orphans(b)' = Orphans(b)
    BY <1>0, <1>6, <2>1, <2>2, Balance
  <2>4. \A c \in Connections \ {b} : Orphans(c)' = Orphans(c)
    BY <1>0, <1>6, <2>1, <2>2, Balance
  <2>5. QED
    BY <2>2, <2>3, <2>4 DEF Balances
<1>7. ASSUME test[p].pc \in {"connecting", "querying"}
      PROVE  test[p] \in TestRecs /\ \E b \in Connections : b = test[p].key[1]
  BY <1>0, <1>7 DEF TestRecs, Keys, IdleTest
<1>8. CASE Missed(p) /\ Opens(test[p].key[1]) /\ UNCHANGED <<db, call, answer>>
  <2>1. test[p].pc = "connecting"
    BY <1>8 DEF Missed
  <2>2. PICK b \in Connections : b = test[p].key[1] /\ test[p] \in TestRecs
    BY <1>7, <2>1
  <2>3. /\ \A o \in Tests \ {p} : test'[o] = test[o]
        /\ test'[p] # IdleTest /\ test'[p].pc = "querying" /\ test'[p].key[1] = b
    BY <1>0, <1>8, <2>2 DEF Missed, TestRecs, IdleTest
  <2>4. \A c : ~Previews(p, c)
    BY <2>1 DEF Previews
  <2>5. /\ p \notin Viewing(b) /\ Viewing(b)' = Viewing(b) \cup {p}
        /\ \A c \in Connections \ {b} : Viewing(c)' = Viewing(c)
    BY <2>3, <2>4 DEF Viewing, Previews
  <2>6. QED
    BY <1>6, <1>8, <2>2, <2>5
<1>9. CASE PreviewEnds(p)
  <2>1. test[p].pc = "querying" /\ Ends(p) /\ Shuts(test[p].key[1]) /\ UNCHANGED <<db, call, answer>>
    BY <1>9 DEF PreviewEnds, Fetched, QueryFails
  <2>2. PICK b \in Connections : b = test[p].key[1] /\ test[p] \in TestRecs
    BY <1>7, <2>1
  <2>3. \A o \in Tests \ {p} : test'[o] = test[o]
    BY <1>0, <2>1 DEF Ends
  <2>4. \A c : ~Previews(p, c)'
    BY <1>0, <2>1 DEF Ends, Previews, IdleTest
  <2>5. \A c : Previews(p, c) <=> c = b
    BY <2>1, <2>2 DEF Previews, IdleTest
  <2>6. /\ p \in Viewing(b) /\ Viewing(b)' = Viewing(b) \ {p}
        /\ \A c \in Connections \ {b} : Viewing(c)' = Viewing(c)
    BY <2>3, <2>4, <2>5 DEF Viewing, Previews
  <2>7. QED
    BY <1>6, <2>1, <2>2, <2>6
<1>10. CASE PreviewConnects(p)
  <2>1. CASE Hit(p) /\ UNCHANGED callVars
    BY <1>4, <2>1 DEF Hit
  <2>2. QED
    BY <1>8, <1>10, <2>1 DEF PreviewConnects, callVars
<1>11. CASE PreviewRefused(p)
  BY <1>4, <1>11 DEF PreviewRefused, ConnectFails
<1>12. QED
  BY <1>1, <1>5, <1>9, <1>10, <1>11 DEF PreviewStep

\* Every step keeps the types and the plans, and opens nothing that nobody closes, unless
\* an execution or a test ends.
LEMMA StepKept ==
    ASSUME IInv, [NextCalls]_allVars PROVE IInv' /\ \A c \in Connections : Balances(c)
<1>1. TypeOK'
  BY CallsAreCacheSteps, CacheType DEF IInv
<1>2. ASSUME UNCHANGED callVars, UNCHANGED test
      PROVE  CallsType' /\ AnalysesHavePlans' /\ \A c \in Connections : Balances(c)
  <2>1. CallsType' /\ AnalysesHavePlans' /\ open \in [Connections -> Int]
    BY <1>2 DEF IInv, callVars, CallsType, AnalysesHavePlans
  <2>2. ASSUME NEW c \in Connections PROVE Balances(c)
    <3>1. Held(c)' = Held(c) /\ open'[c] = open[c]
      BY <1>2 DEF callVars, Held, Holds
    <3>2. Viewing(c)' = Viewing(c)
      BY <1>2, ViewingStays
    <3>3. Orphans(c)' = Orphans(c)
      BY <2>1, <3>1, <3>2, Balance
    <3>4. QED
      BY <3>3 DEF Balances
  <2>3. QED
    BY <2>1, <2>2
<1>3. ASSUME Settling, UNCHANGED callVars
      PROVE  CallsType' /\ AnalysesHavePlans' /\ \A c \in Connections : Balances(c)
  <2>1. UNCHANGED test
    BY <1>3 DEF Settling, Expire, Update, Save, Invalidate, Remove
  <2>2. QED
    BY <1>2, <1>3, <2>1
<1>4. ASSUME UNCHANGED allVars
      PROVE  CallsType' /\ AnalysesHavePlans' /\ \A c \in Connections : Balances(c)
  BY <1>2, <1>4 DEF allVars, vars
<1>5. ASSUME NEW k \in Calls, \/ testConnection(k) \/ getConnectionTables(k) \/ getQueryPlan(k)
                              \/ executeQuery(k) \/ runReport(k)
      PROVE  CallsType' /\ AnalysesHavePlans' /\ \A c \in Connections : Balances(c)
  <2>1. PICK c \in Connections, op \in Ops : Begin(k, c, op)
    BY <1>5 DEF testConnection, getConnectionTables, getQueryPlan, executeQuery, runReport, Ops
  <2>2. QED
    BY <2>1, BeginKept
<1>6. CallsType' /\ AnalysesHavePlans' /\ \A c \in Connections : Balances(c)
  BY <1>3, <1>4, <1>5, CallingKept, PreviewKept DEF NextCalls
<1>7. HandlesAreOpen'
  BY <1>6 DEF HandlesAreOpen, Balances, IInv
<1>8. QED
  BY <1>1, <1>6, <1>7 DEF IInv

\* The types, an open connection for every handle in hand, and a plan in hand for every
\* analysis that has only its connection left to close, whatever its calls met.
THEOREM CallsInductive == SpecCalls => []IInv
<1>1. IInv /\ [NextCalls]_allVars => IInv'
  BY StepKept
<1>2. QED
  BY <1>1, InitKept, PTL DEF SpecCalls

\* Everything keeps its type: calls close with an answer of their own kind, tests and
\* executions never close, and whoever has a handle has one that is open.
THEOREM CallsTypeCorrect == SpecCalls => []TypeOKC
<1>1. IInv => TypeOKC
  <2> SUFFICES ASSUME IInv PROVE TypeOKC
    OBVIOUS
  <2>1. ASSUME NEW c \in Connections PROVE open[c] \in Nat /\ InFlight(c) <= open[c]
    <3>1. open[c] \in Int /\ open[c] - InFlight(c) \in Nat
      BY DEF IInv, CallsType, HandlesAreOpen, Orphans
    <3>2. InFlight(c) \in Nat
      BY Finite DEF InFlight
    <3>3. QED
      BY <3>1, <3>2
  <2>2. open \in [Connections -> Nat]
    BY <2>1 DEF IInv, CallsType
  <2>3. QED
    BY <2>1, <2>2 DEF IInv, CallsType, TypeOKC
<1>2. QED
  BY <1>1, CallsInductive, PTL
-----------------------------------------------------------------------------
\* Only the execution of a task and the test of a connection leave a connection open: a
\* preview, a listing, an analysis and a live query close what they opened, however they end.
THEOREM LeaksCorrect == SpecCalls => OnlyRunsAndTestsLeak
<1>1. IInv /\ [NextCalls]_allVars =>
        [\A c \in Connections : Orphans(c)' > Orphans(c) =>
           \E k \in Calls : /\ call[k] # Idle /\ call'[k] = Idle
                            /\ call[k].conn = c /\ call[k].op \in {"run", "test"}]_allVars
  <2> SUFFICES ASSUME IInv, [NextCalls]_allVars, NEW c \in Connections, Orphans(c)' > Orphans(c)
               PROVE  \E k \in Calls : /\ call[k] # Idle /\ call'[k] = Idle
                                       /\ call[k].conn = c /\ call[k].op \in {"run", "test"}
    OBVIOUS
  <2>1. Orphans(c) \in Nat /\ Balances(c)
    BY StepKept DEF IInv, HandlesAreOpen
  <2>2. ~(Orphans(c)' \in {0, Orphans(c)})
    BY <2>1
  <2>3. \E k \in Calls : Ended(k, c)
    BY <2>1, <2>2 DEF Balances
  <2>4. QED
    BY <2>3 DEF Ended
<1>2. QED
  BY <1>1, CallsInductive, PTL DEF SpecCalls, OnlyRunsAndTestsLeak

\* What ends by anything but its own step ends with the process, and is not answered.
LEMMA OthersEndNothing ==
    ASSUME CallsType, [NextCalls]_allVars, ~\E k \in Calls : Calling(k)
    PROVE  \A k \in Calls : call[k] # Idle /\ call'[k] = Idle => answer'[k] = "none"
<1>1. CASE UNCHANGED call
  BY <1>1
<1>2. ASSUME NEW p \in Tests, PreviewStep(p) PROVE UNCHANGED call \/ ClosesNothing(p)
  BY <1>2 DEF PreviewStep, PreviewConnects, PreviewEnds, PreviewRefused, callVars
<1>3. ASSUME NEW p \in Tests, ClosesNothing(p) PROVE answer' = [k \in Calls |-> "none"]
  BY <1>3 DEF ClosesNothing
<1>4. ASSUME NEW k \in Calls, NEW c \in Connections, NEW op, Begin(k, c, op)
      PROVE  call[k] = Idle /\ \A j \in Calls \ {k} : call'[j] = call[j]
  BY <1>4 DEF Begin, CallsType
<1>5. CASE \E p \in Tests : PreviewStep(p)
  BY <1>1, <1>2, <1>3, <1>5
<1>6. CASE \E k \in Calls, c \in Connections : \E op : Begin(k, c, op)
  BY <1>4, <1>6
<1>7. QED
  BY <1>1, <1>5, <1>6 DEF NextCalls, testConnection, getConnectionTables, getQueryPlan,
     executeQuery, runReport, allVars, callVars

\* The analysis of a query plan is answered with a plan even when its query or its connection
\* fails; only an adapter that cannot be closed without a connection answers otherwise.
THEOREM AnalysesSurvive == SpecCalls => AnalysisSurvives
<1>1. IInv /\ [NextCalls]_allVars =>
        [\A k \in Calls :
         call[k] # Idle /\ call[k].op = "analyze" /\ call'[k] = Idle =>
            \/ answer'[k] \in Plans \cup {"none"}
            \/ ~AdapterOf(call[k].conn).guarded /\ ~(call[k].pc = "closing" /\ call[k].held)]_allVars
  <2> SUFFICES ASSUME IInv, [NextCalls]_allVars, NEW k \in Calls, call[k] # Idle,
                      call[k].op = "analyze", call'[k] = Idle
               PROVE  \/ answer'[k] \in Plans \cup {"none"}
                      \/ /\ ~AdapterOf(call[k].conn).guarded
                         /\ ~(call[k].pc = "closing" /\ call[k].held)
    OBVIOUS
  <2>1. CallsType /\ AnalysesHavePlans
    BY DEF IInv
  <2>2. CASE ~\E j \in Calls : Calling(j)
    BY <2>1, <2>2, OthersEndNothing
  <2>3. CASE Calling(k)
    <3>1. ASSUME NEW rec, Becomes(k, rec) PROVE call'[k] = rec
      BY <2>1, <3>1 DEF Becomes, CallsType
    <3>2. Idle.pc = "idle"
      BY DEF Idle
    <3>3. ~Becomes(k, [call[k] EXCEPT !.pc = "querying"])
      <4>1. call[k] \in CallRecs
        BY <2>1, <2>3, CallingIs
      <4>2. [call[k] EXCEPT !.pc = "querying"].pc = "querying"
        BY <4>1 DEF CallRecs
      <4>3. QED
        BY <3>1, <3>2, <4>2
    <3>4. \A held, a : ~Becomes(k, ClosingRec(k, held, a))
      BY <3>1, <3>2 DEF ClosingRec
    <3>5. /\ call[k].pc = "closing"
          /\ answer' = [answer EXCEPT ![k] =
                IF call[k].held \/ AdapterOf(call[k].conn).guarded THEN call[k].result
                ELSE "closeError"]
      BY <2>1, <2>3, <3>3, <3>4, CallingIs
    <3>6. answer'[k] = IF call[k].held \/ AdapterOf(call[k].conn).guarded THEN call[k].result
                       ELSE "closeError"
      BY <2>1, <3>5 DEF CallsType
    <3>7. call[k].result \in Plans
      BY <2>1, <3>5 DEF AnalysesHavePlans
    <3>8. QED
      BY <3>5, <3>6, <3>7
  <2>4. ASSUME NEW j \in Calls, j # k, Calling(j) PROVE FALSE
    <3>1. \E rec : Becomes(j, rec)
      BY <2>1, <2>4, CallingIs
    <3>2. call'[k] = call[k]
      BY <2>1, <2>4, <3>1 DEF Becomes, CallsType
    <3>3. QED
      BY <3>2
  <2>5. QED
    BY <2>2, <2>3, <2>4
<1>2. QED
  BY <1>1, CallsInductive, PTL DEF SpecCalls, AnalysisSurvives
=============================================================================
