------------------------------ MODULE QueryCache ------------------------------
(***************************************************************************)
(* Previews of queries, the cache of their results, and updates of the     *)
(* connections they run on.  A preview reads the connection row first and  *)
(* acts on that reading to the end; an update saves the row and then       *)
(* invalidates the cache.  Each await is a step.                           *)
(***************************************************************************)
EXTENDS Naturals

CONSTANTS
    Connections, Queries,
    Tests,          \* bound: previews in flight at once
    Updates,        \* bound: updates in flight at once
    MaxVersion      \* bound: how often the settings of a connection change

ASSUME MaxVersionIsNat == MaxVersion \in Nat

VARIABLES
    conn,       \* settings of each connection: their version, and how long it caches
    previewed,  \* the connections that still have a row, and a report on them
    cache,      \* for each key, the settings its rows were fetched under, or Miss
    test,       \* previews in flight, with the settings they read
    upd         \* connection updates in flight

vars == <<conn, previewed, cache, test, upd>>

Versions == 0 .. MaxVersion
Keys     == Connections \X Queries

\* Results are kept for a time to live, which nothing keeps from being zero: for ever.
Caching  == {"no", "for a time", "for ever"}
Settings == [version : Versions, cached : Caching]
Miss     == [cached |-> "nothing"]

\* The key is a digest: no key begins with a connection's id and a bar.
StartsWith(key, c) == FALSE

IdleTest == [pc |-> "idle"]
IdleUpd  == [pc |-> "idle"]

TypeOK ==
    /\ conn \in [Connections -> Settings]
    /\ previewed \subseteq Connections
    /\ cache \in [Keys -> Settings \cup {Miss}]
    /\ test \in [Tests -> {IdleTest} \cup
                    [pc : {"connecting", "querying"}, key : Keys, read : Settings]]
    /\ upd \in [Updates -> {IdleUpd} \cup
                    [pc : {"saving", "saved"}, conn : Connections]]
-----------------------------------------------------------------------------
(* testQueryAsync *)

\* Read the report and its connection, validate the query, make the adapter.
Preview(p, key) ==
    /\ test[p] = IdleTest
    /\ key[1] \in previewed
    /\ test' = [test EXCEPT ![p] = [pc |-> "connecting", key |-> key,
                                    read |-> conn[key[1]]]]
    /\ UNCHANGED <<conn, previewed, cache, upd>>

Ends(p) ==
    /\ test' = [test EXCEPT ![p] = IdleTest]
    /\ UNCHANGED <<conn, previewed, upd>>

\* The cache is consulted once the adapter has connected; a hit answers.
Hit(p) ==
    /\ test[p].pc = "connecting"
    /\ test[p].read.cached # "no" /\ cache[test[p].key] # Miss
    /\ Ends(p) /\ UNCHANGED cache

Missed(p) ==
    /\ test[p].pc = "connecting"
    /\ test[p].read.cached # "no" => cache[test[p].key] = Miss
    /\ test' = [test EXCEPT ![p].pc = "querying"]
    /\ UNCHANGED <<conn, previewed, cache, upd>>

\* The rows arrive and are cached as the settings read at the start say.
Fetched(p) ==
    /\ test[p].pc = "querying"
    /\ cache' = IF test[p].read.cached # "no"
                  THEN [cache EXCEPT ![test[p].key] = test[p].read] ELSE cache
    /\ Ends(p)

QueryFails(p) == test[p].pc = "querying" /\ Ends(p) /\ UNCHANGED cache

\* Without a connection the preview fails, and so may closing the adapter, which nobody
\* awaits ...
ConnectFails(p) == test[p].pc = "connecting" /\ Ends(p) /\ UNCHANGED cache

\* ... so that the process may die of it, and take all it held along.
ProcessDies(p) ==
    /\ test[p].pc = "connecting"
    /\ test'  = [o \in Tests |-> IdleTest]
    /\ upd'   = [u \in Updates |-> IdleUpd]
    /\ cache' = [k \in Keys |-> Miss]
    /\ UNCHANGED <<conn, previewed>>

\* Seeded bug: an entry stays for as long as its connection does not cache.
ExpireCaching(key) ==
    /\ cache[key].cached = "for a time" /\ conn[key[1]].cached # "no"
    /\ cache' = [cache EXCEPT ![key] = Miss]
    /\ UNCHANGED <<conn, previewed, test, upd>>

\* node-cache drops an entry after the time to live it was set with, unless that is zero.
Expire(key) ==
    /\ cache[key].cached = "for a time"
    /\ cache' = [cache EXCEPT ![key] = Miss]
    /\ UNCHANGED <<conn, previewed, test, upd>>
-----------------------------------------------------------------------------
(* updateConnectionAsync, removeConnectionAsync *)

Update(u, c) ==
    /\ upd[u] = IdleUpd
    /\ c \in previewed
    /\ upd' = [upd EXCEPT ![u] = [pc |-> "saving", conn |-> c]]
    /\ UNCHANGED <<conn, previewed, cache, test>>

\* A row removed meanwhile is inserted again, without the report that went with it.
Save(u) ==
    /\ upd[u].pc = "saving"
    /\ conn[upd[u].conn].version < MaxVersion
    /\ \E cached \in Caching :
          conn' = [conn EXCEPT ![upd[u].conn] =
                     [version |-> @.version + 1, cached |-> cached]]
    /\ upd' = [upd EXCEPT ![u].pc = "saved"]
    /\ UNCHANGED <<previewed, cache, test>>

Invalidate(u) ==
    /\ upd[u].pc = "saved"
    /\ cache' = [k \in Keys |-> IF StartsWith(k, upd[u].conn) THEN Miss ELSE cache[k]]
    /\ upd' = [upd EXCEPT ![u] = IdleUpd]
    /\ UNCHANGED <<conn, previewed, test>>

\* The report goes with its connection; the cache is not told.
Remove(c) ==
    /\ previewed' = previewed \ {c}
    /\ UNCHANGED <<conn, cache, test, upd>>
-----------------------------------------------------------------------------
Init ==
    /\ conn \in [Connections -> [version : {0}, cached : Caching]]
    /\ previewed = Connections
    /\ cache = [k \in Keys |-> Miss]
    /\ test = [p \in Tests |-> IdleTest]
    /\ upd = [u \in Updates |-> IdleUpd]

Previewing(p) ==
    \/ Hit(p) \/ Missed(p) \/ Fetched(p) \/ QueryFails(p)
    \/ ConnectFails(p) \/ ProcessDies(p)

Next ==
    \/ \E p \in Tests : (\E key \in Keys : Preview(p, key)) \/ Previewing(p)
    \/ \E key \in Keys : Expire(key)
    \/ \E u \in Updates : (\E c \in Connections : Update(u, c)) \/ Save(u) \/ Invalidate(u)
    \/ \E c \in Connections : Remove(c)

Spec == Init /\ [][Next]_vars

\* Entries with a limit of time expire, and connections and queries are answered or time out.
Fairness ==
    /\ \A p \in Tests : WF_vars(Previewing(p))
    /\ \A key \in Keys : WF_vars(Expire(key))

FairSpec == Spec /\ Fairness
-----------------------------------------------------------------------------
\* Once the settings of a connection stay as they are, results fetched under older ones go,
\* although a preview that read the older settings may cache its result long after the
\* update, and although invalidation finds nothing.  Only results cached without a limit
\* of time, because the settings of their own time said so, may stay and be shown for ever.
EventuallyFresh ==
    \A key \in Keys, v \in Versions :
        <>[](conn[key[1]].version = v) =>
            <>[]\/ cache[key] = Miss \/ cache[key].version = v
                \/ cache[key].cached = "for ever"
=============================================================================
