----------------------------- MODULE QueryGateway -----------------------------
(***************************************************************************)
(* Live queries over a socket: QueryGateway keeps one AbortController per  *)
(* client, QueryStreamService opens an adapter for one query, runs it and  *)
(* closes it.  A client may send messages whenever it likes, so several    *)
(* executions of one client overlap; each await is a step.                 *)
(***************************************************************************)
CONSTANTS
    Clients,    \* socket identifiers, never used twice
    Execs,      \* bound: executions in flight at once for one client
    None        \* no controller

ASSUME NoneIsNoExec == None \notin Execs

VARIABLES
    connected,  \* the sockets that are open
    stream,     \* activeStreams: the execution whose controller the map holds
    exec,       \* executions: what they await and whether their signal is aborted
    said        \* the last event emitted to each client

vars == <<connected, stream, exec, said>>

\* What an execution awaits: the connection row, the adapter's connection, its query,
\* or closing the adapter, with a result in hand or after a throw.
Pcs     == {"idle", "looking", "connecting", "querying", "closing", "failing"}
ExecRec == [pc : Pcs, aborted : BOOLEAN]
Idle    == [pc |-> "idle", aborted |-> FALSE]
Events  == {"nothing", "running", "completed", "cancelled", "error"}

TypeOK ==
    /\ connected \subseteq Clients
    /\ stream \in [Clients -> Execs \cup {None}]
    /\ exec \in [Clients -> [Execs -> ExecRec]]
    /\ said \in [Clients -> Events]

InFlight(c) == {e \in Execs : exec[c][e].pc # "idle"}
-----------------------------------------------------------------------------
\* executeQuery: a new controller takes the client's place in the map.
Start(c, e) ==
    /\ c \in connected
    /\ exec[c][e].pc = "idle"
    /\ exec' = [exec EXCEPT ![c][e] = [pc |-> "looking", aborted |-> FALSE]]
    /\ stream' = [stream EXCEPT ![c] = e]
    /\ said' = [said EXCEPT ![c] = "running"]
    /\ UNCHANGED connected

\* An execution goes on to its next await; only before connecting does it tell the client.
Moves(c, e, from, to) ==
    /\ exec[c][e].pc = from
    /\ exec' = [exec EXCEPT ![c][e].pc = to]
    /\ UNCHANGED <<connected, stream>>

Goes(c, e, from, to) == Moves(c, e, from, to) /\ UNCHANGED said

\* Seeded bug: no finally block, and the controller stays in the map.
EndsLeaving(c, e, from, event) ==
    /\ exec[c][e].pc = from
    /\ exec' = [exec EXCEPT ![c][e] = Idle]
    /\ said' = [said EXCEPT ![c] = event]
    /\ UNCHANGED <<connected, stream>>

\* The end of an execution: its last event, and the finally block, which takes whatever
\* controller the map holds for the client.
Ends(c, e, from, event) ==
    /\ exec[c][e].pc = from
    /\ exec' = [exec EXCEPT ![c][e] = Idle]
    /\ stream' = [stream EXCEPT ![c] = None]
    /\ said' = [said EXCEPT ![c] = event]
    /\ UNCHANGED connected

\* Seeded bug: the catch block tells the client something it does not know.
ThrowsUnknown(c, e, from) ==
    Ends(c, e, from, IF exec[c][e].aborted THEN "aborted" ELSE "error")

\* The catch block.
Throws(c, e, from) ==
    Ends(c, e, from, IF exec[c][e].aborted THEN "cancelled" ELSE "error")

\* The connection was found, and the client is told that the query runs.
Found(c, e) ==
    /\ Moves(c, e, "looking", "connecting")
    /\ said' = [said EXCEPT ![c] = "running"]

\* Seeded bug: an unknown connection is not reported.
LookSilently(c, e) == Found(c, e) \/ Ends(c, e, "looking", said[c])

\* No such connection; or the lookup fails, the validator rejects the query or the
\* password does not decrypt: all before there is an adapter.
Look(c, e) ==
    \/ Found(c, e)
    \/ Ends(c, e, "looking", "error")
    \/ Throws(c, e, "looking")

\* Seeded bug: an execution that finds its signal aborted never comes back.
ConnectAlive(c, e) == ~exec[c][e].aborted /\ Goes(c, e, "connecting", "querying")

\* The signal is read once, when the adapter has connected.
Connect(c, e) ==
    \/ ~exec[c][e].aborted /\ Goes(c, e, "connecting", "querying")
    \/ Goes(c, e, "connecting", "failing")

Query(c, e) == \E next \in {"closing", "failing"} : Goes(c, e, "querying", next)

Answer(c, e) == Ends(c, e, "closing", "completed")

\* An adapter that does not close replaces the result by its own error.
Fail(c, e) == Throws(c, e, "closing") \/ Throws(c, e, "failing")
-----------------------------------------------------------------------------
\* Seeded bug: the controller is forgotten, not told.
AbortsNothing(c) == stream' = [stream EXCEPT ![c] = None] /\ UNCHANGED exec

\* Cancelling and disconnecting abort the controller the map holds, if any.
Aborts(c) ==
    /\ exec' = IF stream[c] = None THEN exec
                                   ELSE [exec EXCEPT ![c][stream[c]].aborted = TRUE]
    /\ stream' = [stream EXCEPT ![c] = None]

Cancel(c) ==
    /\ c \in connected
    /\ stream[c] # None
    /\ Aborts(c)
    /\ said' = [said EXCEPT ![c] = "cancelled"]
    /\ UNCHANGED connected

Disconnect(c) ==
    /\ c \in connected
    /\ Aborts(c)
    /\ connected' = connected \ {c}
    /\ UNCHANGED said
-----------------------------------------------------------------------------
Init ==
    /\ connected = Clients
    /\ stream = [c \in Clients |-> None]
    /\ exec = [c \in Clients |-> [e \in Execs |-> Idle]]
    /\ said = [c \in Clients |-> "nothing"]

Runs(c, e) ==
    \/ Look(c, e) \/ Connect(c, e) \/ Query(c, e) \/ Answer(c, e) \/ Fail(c, e)

Next == \E c \in Clients :
    \/ \E e \in Execs : Start(c, e) \/ Runs(c, e)
    \/ Cancel(c) \/ Disconnect(c)

Spec == Init /\ [][Next]_vars

\* Lookups, connections, queries and closes are all answered or time out.
Fairness == \A c \in Clients, e \in Execs : WF_vars(Runs(c, e))

FairSpec == Spec /\ Fairness
-----------------------------------------------------------------------------
\* The map never outlives what it is for: the controller it holds for a client belongs
\* to an execution that is in flight and not yet aborted, and the client is connected,
\* in whatever order overlapping executions end and are cancelled.
StreamsAreLive ==
    \A c \in Clients : stream[c] # None =>
        /\ stream[c] \in InFlight(c)
        /\ ~exec[c][stream[c]].aborted
        /\ c \in connected

\* A query in flight stays within its client's reach: its controller leaves the map only as
\* it is aborted or ends, or as another query of the same client begins, which takes its
\* place, or ends, which removes whatever the map holds.  Only clients whose queries overlap
\* can come to have one that no cancel and no disconnection stops.
StaysInReach ==
    [][\A c \in Clients, e \in Execs :
         stream[c] = e /\ stream'[c] # e =>
            \/ exec'[c][e].aborted \/ e \notin InFlight(c)'
            \/ \E f \in Execs \ {e} : (f \in InFlight(c)) # (f \in InFlight(c)')]_vars

\* No client is left waiting: when none of its queries is in flight any more, the last
\* it was told is how one of them ended, never that one is running.
NobodyIsLeftWaiting == \A c \in Clients : InFlight(c) = {} => said[c] # "running"

\* A client that has gone leaves nothing behind for good: each of its executions comes
\* to its end, in whatever state the disconnection found it and although the map holds
\* at most one of their controllers.
LeaversAreCleared == \A c \in Clients : c \notin connected ~> InFlight(c) = {}
=============================================================================
