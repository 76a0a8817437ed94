-------------------------- MODULE QueryGatewayProofs --------------------------
(***************************************************************************)
(* Theorems about QueryGateway, for any number of clients and executions.  *)
(***************************************************************************)
EXTENDS QueryGateway, TLAPS

(* What the steps do to the executions, types included. *)

ExecType == exec \in [Clients -> [Execs -> ExecRec]]

\* A new execution, or the end of one.
LEMMA ReplacedExec ==
    ASSUME ExecType, NEW c \in Clients, NEW e \in Execs, NEW rec \in ExecRec,
           exec' = [exec EXCEPT ![c][e] = rec]
    PROVE  /\ ExecType' /\ exec'[c][e] = rec
           /\ \A f \in Execs \ {e} : exec'[c][f] = exec[c][f]
           /\ \A d \in Clients \ {c} : exec'[d] = exec[d]
BY DEF ExecType

\* An execution that moves on keeps its signal.
LEMMA MovedExec ==
    ASSUME ExecType, NEW c \in Clients, NEW e \in Execs, NEW from, NEW to \in Pcs,
           Moves(c, e, from, to)
    PROVE  /\ ExecType' /\ exec'[c][e].pc = to /\ exec[c][e].pc = from
           /\ exec'[c][e].aborted = exec[c][e].aborted
           /\ \A f \in Execs \ {e} : exec'[c][f] = exec[c][f]
           /\ \A d \in Clients \ {c} : exec'[d] = exec[d]
<1>1. exec[c][e] \in ExecRec
  BY DEF ExecType
<1>2. /\ [exec[c][e] EXCEPT !.pc = to] \in ExecRec
      /\ [exec[c][e] EXCEPT !.pc = to].pc = to
      /\ [exec[c][e] EXCEPT !.pc = to].aborted = exec[c][e].aborted
  BY <1>1 DEF ExecRec
<1>3. exec' = [exec EXCEPT ![c][e] = [exec[c][e] EXCEPT !.pc = to]]
  BY DEF Moves
<1>4. exec[c][e].pc = from
  BY DEF Moves
<1>5. QED
  BY <1>2, <1>3, <1>4, ReplacedExec

\* Aborting touches at most the signal of one execution of the client, and ends none.
LEMMA AbortedExec ==
    ASSUME TypeOK, NEW c \in Clients, Aborts(c)
    PROVE  /\ ExecType' /\ stream' = [stream EXCEPT ![c] = None]
           /\ \A d \in Clients, e \in Execs : exec'[d][e].pc = exec[d][e].pc
           /\ \A d \in Clients \ {c} : exec'[d] = exec[d]
<1>1. ExecType /\ stream' = [stream EXCEPT ![c] = None]
  BY DEF TypeOK, ExecType, Aborts
<1>2. CASE stream[c] = None
  BY <1>1, <1>2 DEF Aborts, ExecType
<1>3. CASE stream[c] # None
  <2>1. PICK e \in Execs : stream[c] = e
    BY <1>3 DEF TypeOK
  <2> DEFINE rec == [exec[c][e] EXCEPT !.aborted = TRUE]
  <2>2. exec' = [exec EXCEPT ![c][e] = rec]
    BY <1>3, <2>1 DEF Aborts
  <2>3. exec[c][e] \in ExecRec
    BY <1>1 DEF ExecType
  <2>4. rec \in ExecRec /\ rec.pc = exec[c][e].pc
    BY <2>3 DEF ExecRec
  <2> HIDE DEF rec
  <2>5. /\ ExecType' /\ exec'[c][e] = rec
        /\ \A f \in Execs \ {e} : exec'[c][f] = exec[c][f]
        /\ \A d \in Clients \ {c} : exec'[d] = exec[d]
    BY <1>1, <2>2, <2>4, ReplacedExec
  <2>6. \A d \in Clients, f \in Execs : exec'[d][f].pc = exec[d][f].pc
    BY <2>4, <2>5, Zenon
  <2>7. QED
    BY <1>1, <2>5, <2>6
<1>4. QED
  BY <1>2, <1>3

\* A step of an execution either moves it on, saying at most that it runs, or ends it with
\* one of the closing events.
Says(c) == said' = said \/ said' = [said EXCEPT ![c] = "running"]

LEMMA RunsMovesOrEnds ==
    ASSUME NEW c \in Clients, NEW e \in Execs, Runs(c, e)
    PROVE  \/ \E from, to \in Pcs \ {"idle"} : Moves(c, e, from, to) /\ Says(c)
           \/ \E from \in Pcs \ {"idle"}, event \in {"completed", "cancelled", "error"} :
                 Ends(c, e, from, event)
BY DEF Runs, Look, Found, Connect, Query, Answer, Fail, Throws, Goes, Says, Pcs
-----------------------------------------------------------------------------
\* Every variable keeps its type: the map holds executions, each client has been told
\* one of the events the code emits.
THEOREM GatewayTypeCorrect == Spec => []TypeOK
<1>1. Init => TypeOK
  BY DEF Init, TypeOK, Idle, Pcs, ExecRec, Events
<1>2. TypeOK /\ [Next]_vars => TypeOK'
  <2> SUFFICES ASSUME TypeOK, [Next]_vars PROVE TypeOK'
    OBVIOUS
  <2>0. ExecType
    BY DEF TypeOK, ExecType
  <2>1. ASSUME NEW c \in Clients, NEW e \in Execs, Start(c, e) PROVE TypeOK'
    <3>1. [pc |-> "looking", aborted |-> FALSE] \in ExecRec
      BY DEF ExecRec, Pcs
    <3>2. ExecType'
      BY <2>0, <2>1, <3>1, ReplacedExec DEF Start
    <3>3. QED
      BY <2>1, <3>2 DEF Start, TypeOK, ExecType, Events
  <2>2. ASSUME NEW c \in Clients, NEW e \in Execs, NEW from, NEW to \in Pcs,
               Moves(c, e, from, to), Says(c)
        PROVE  TypeOK'
    <3>1. ExecType'
      BY <2>0, <2>2, MovedExec
    <3>2. QED
      BY <2>2, <3>1 DEF Moves, Says, TypeOK, ExecType, Events
  <2>3. ASSUME NEW c \in Clients, NEW e \in Execs, NEW from,
               NEW event \in {"completed", "cancelled", "error"},
               Ends(c, e, from, event)
        PROVE  TypeOK'
    <3>1. Idle \in ExecRec
      BY DEF Idle, ExecRec, Pcs
    <3>2. ExecType'
      BY <2>0, <2>3, <3>1, ReplacedExec DEF Ends
    <3>3. QED
      BY <2>3, <3>2 DEF Ends, TypeOK, ExecType, Events
  <2>4. ASSUME NEW c \in Clients, NEW e \in Execs, Runs(c, e) PROVE TypeOK'
    BY <2>2, <2>3, <2>4, RunsMovesOrEnds
  <2>5. ASSUME NEW c \in Clients, Cancel(c) \/ Disconnect(c) PROVE TypeOK'
    <3>1. Aborts(c)
      BY <2>5 DEF Cancel, Disconnect
    <3>2. ExecType' /\ stream' \in [Clients -> Execs \cup {None}]
      BY <3>1, AbortedExec DEF TypeOK
    <3>3. QED
      BY <2>5, <3>2 DEF Cancel, Disconnect, TypeOK, ExecType, Events
  <2>6. CASE UNCHANGED vars
    BY <2>6 DEF vars, TypeOK
  <2>7. QED
    BY <2>1, <2>4, <2>5, <2>6 DEF Next
<1>3. QED
  BY <1>1, <1>2, PTL DEF Spec
-----------------------------------------------------------------------------
\* The map is never stale and no client is left waiting, together: the invariant is
\* inductive as it stands, given the types.
THEOREM StreamsCorrect == Spec => [](StreamsAreLive /\ NobodyIsLeftWaiting)
<1> DEFINE Inv == StreamsAreLive /\ NobodyIsLeftWaiting
<1>1. Init => Inv
  BY NoneIsNoExec DEF Init, StreamsAreLive, NobodyIsLeftWaiting
<1>2. TypeOK /\ Inv /\ [Next]_vars => Inv'
  <2> SUFFICES ASSUME TypeOK, Inv, [Next]_vars PROVE Inv'
    OBVIOUS
  <2>0. /\ ExecType /\ stream \in [Clients -> Execs \cup {None}]
        /\ said \in [Clients -> Events]
    BY DEF TypeOK, ExecType
  <2> USE NoneIsNoExec, <2>0 DEF StreamsAreLive, NobodyIsLeftWaiting, InFlight
  <2>1. ASSUME NEW c \in Clients, NEW e \in Execs, Start(c, e) PROVE Inv'
    <3>1. PICK rec \in ExecRec : /\ exec' = [exec EXCEPT ![c][e] = rec]
                                 /\ rec = [pc |-> "looking", aborted |-> FALSE]
      BY <2>1 DEF Start, ExecRec, Pcs
    <3>2. /\ exec'[c][e] = [pc |-> "looking", aborted |-> FALSE]
          /\ \A d \in Clients \ {c} : exec'[d] = exec[d]
      BY <3>1 DEF ExecType
    <3>3. /\ UNCHANGED connected /\ c \in connected
          /\ stream'[c] = e /\ e \in InFlight(c)' /\ ~exec'[c][e].aborted
      BY <2>1, <3>2 DEF Start
    <3>4. ASSUME NEW d \in Clients, d # c
          PROVE  /\ InFlight(d)' = InFlight(d) /\ exec'[d] = exec[d]
                 /\ stream'[d] = stream[d] /\ said'[d] = said[d]
      BY <2>1, <3>2, <3>4 DEF Start
    <3>5. StreamsAreLive'
      BY <3>3, <3>4
    <3>6. NobodyIsLeftWaiting'
      BY <3>3, <3>4
    <3>7. QED
      BY <3>5, <3>6
  <2>2. ASSUME NEW c \in Clients, NEW e \in Execs, NEW from \in Pcs \ {"idle"},
               NEW to \in Pcs \ {"idle"}, Moves(c, e, from, to), Says(c)
        PROVE  Inv'
    <3>1. /\ UNCHANGED connected /\ UNCHANGED stream
          /\ \A d \in Clients \ {c} : said'[d] = said[d]
      BY <2>2 DEF Moves, Says
    <3>2. /\ exec'[c][e].pc = to /\ exec[c][e].pc = from
          /\ exec'[c][e].aborted = exec[c][e].aborted
          /\ \A f \in Execs \ {e} : exec'[c][f] = exec[c][f]
          /\ \A d \in Clients \ {c} : exec'[d] = exec[d]
      BY <2>2, MovedExec
    <3>3. \A d \in Clients : InFlight(d)' = InFlight(d)
      BY <3>2
    <3>4. \A d \in Clients, f \in Execs : exec'[d][f].aborted = exec[d][f].aborted
      BY <3>2, Zenon
    <3>5. StreamsAreLive'
      BY <3>1, <3>3, <3>4
    <3>6. e \in InFlight(c)'
      BY <3>2
    <3>7. NobodyIsLeftWaiting'
      BY <3>1, <3>3, <3>6
    <3>8. QED
      BY <3>5, <3>7
  <2>3. ASSUME NEW c \in Clients, NEW e \in Execs, NEW from \in Pcs,
               NEW event \in {"completed", "cancelled", "error"},
               Ends(c, e, from, event)
        PROVE  Inv'
    <3>1. /\ exec' = [exec EXCEPT ![c][e] = Idle] /\ stream' = [stream EXCEPT ![c] = None]
          /\ said' = [said EXCEPT ![c] = event] /\ UNCHANGED connected
      BY <2>3 DEF Ends
    <3>2. \A d \in Clients \ {c} :
            exec'[d] = exec[d] /\ stream'[d] = stream[d] /\ said'[d] = said[d]
      BY <3>1
    <3>3. stream'[c] = None /\ said'[c] # "running"
      BY <3>1
    <3>4. QED
      BY <3>1, <3>2, <3>3
  <2>4. ASSUME NEW c \in Clients, NEW e \in Execs, Runs(c, e) PROVE Inv'
    <3>1. CASE \E from, to \in Pcs \ {"idle"} : Moves(c, e, from, to) /\ Says(c)
      BY <2>2, <3>1
    <3>2. CASE \E from \in Pcs \ {"idle"}, event \in {"completed", "cancelled", "error"} :
                 Ends(c, e, from, event)
      BY <2>3, <3>2
    <3>3. QED
      BY <2>4, <3>1, <3>2, RunsMovesOrEnds
  <2>5. ASSUME NEW c \in Clients, Cancel(c) \/ Disconnect(c) PROVE Inv'
    <3>1. Aborts(c) /\ connected \ {c} \subseteq connected'
      BY <2>5 DEF Cancel, Disconnect
    <3>2. /\ stream' = [stream EXCEPT ![c] = None]
          /\ \A d \in Clients, e \in Execs : exec'[d][e].pc = exec[d][e].pc
          /\ \A d \in Clients \ {c} : exec'[d] = exec[d]
      BY <3>1, AbortedExec
    <3>3. \A d \in Clients : InFlight(d)' = InFlight(d)
      BY <3>2
    <3>4. StreamsAreLive'
      BY <3>1, <3>2, <3>3
    <3>5. \A d \in Clients : said'[d] = said[d] \/ said'[d] = "cancelled"
      BY <2>5 DEF Cancel, Disconnect
    <3>6. NobodyIsLeftWaiting'
      BY <3>3, <3>5
    <3>7. QED
      BY <3>4, <3>6
  <2>6. CASE UNCHANGED vars
    BY <2>6 DEF vars
  <2>7. QED
    BY <2>1, <2>4, <2>5, <2>6 DEF Next
<1>3. QED
  BY <1>1, <1>2, GatewayTypeCorrect, PTL DEF Spec

(* What the clients are owed by the pair, by itself: a client that was told     *)
(* its query is running, and was told nothing since, has a query in flight. So  *)
(* no ending of an execution is silent, whichever of two executions of one      *)
(* client ends first.                                                           *)
THEOREM NobodyLeftWaiting == Spec => []NobodyIsLeftWaiting
  BY StreamsCorrect, PTL

\* The controller of a query in flight that nobody aborted leaves the map only with the
\* beginning or the end of another query of its client: one that sends its queries one
\* after the other can cancel each of them until it ends.
THEOREM QueriesStayInReach == Spec => StaysInReach
<1>1. TypeOK /\ StreamsAreLive /\ [Next]_vars =>
        [\A c \in Clients, e \in Execs :
         stream[c] = e /\ stream'[c] # e =>
            \/ exec'[c][e].aborted \/ e \notin InFlight(c)'
            \/ \E f \in Execs \ {e} : (f \in InFlight(c)) # (f \in InFlight(c)')]_vars
  <2> SUFFICES ASSUME TypeOK, StreamsAreLive, [Next]_vars,
                      NEW c \in Clients, NEW e \in Execs, stream[c] = e, stream'[c] # e
               PROVE  \/ exec'[c][e].aborted \/ e \notin InFlight(c)'
                      \/ \E f \in Execs \ {e} : (f \in InFlight(c)) # (f \in InFlight(c)')
    OBVIOUS
  <2>0. ExecType /\ stream \in [Clients -> Execs \cup {None}]
    BY DEF TypeOK, ExecType
  <2>1. ASSUME NEW d \in Clients, NEW f \in Execs, Start(d, f)
        PROVE  c = d /\ f # e /\ f \notin InFlight(c) /\ f \in InFlight(c)'
    <3>1. c = d /\ f # e
      BY <2>0, <2>1 DEF Start
    <3>2. PICK rec \in ExecRec : /\ exec' = [exec EXCEPT ![d][f] = rec]
                                 /\ rec = [pc |-> "looking", aborted |-> FALSE]
      BY <2>1 DEF Start, ExecRec, Pcs
    <3>3. exec'[d][f] = rec /\ exec[d][f].pc = "idle"
      BY <2>0, <2>1, <3>2 DEF Start, ExecType
    <3>4. QED
      BY <3>1, <3>2, <3>3 DEF InFlight
  <2>2. ASSUME NEW d \in Clients, NEW f \in Execs, NEW from, NEW to, Moves(d, f, from, to)
        PROVE  FALSE
    BY <2>2 DEF Moves
  <2>3. ASSUME NEW d \in Clients, NEW f \in Execs, NEW from \in Pcs \ {"idle"}, NEW event,
               Ends(d, f, from, event)
        PROVE  c = d /\ f \in InFlight(c) /\ f \notin InFlight(c)'
    <3>1. c = d /\ exec[d][f].pc = from
      BY <2>0, <2>3 DEF Ends
    <3>2. Idle \in ExecRec /\ Idle.pc = "idle" /\ exec' = [exec EXCEPT ![d][f] = Idle]
      BY <2>3 DEF Ends, Idle, ExecRec, Pcs
    <3>3. exec'[d][f] = Idle
      BY <2>0, <3>2 DEF ExecType
    <3>4. QED
      BY <3>1, <3>2, <3>3 DEF InFlight
  <2>4. ASSUME NEW d \in Clients, Aborts(d) PROVE exec'[c][e].aborted
    <3>1. c = d
      BY <2>0, <2>4 DEF Aborts
    <3>2. exec' = [exec EXCEPT ![c][e] = [exec[c][e] EXCEPT !.aborted = TRUE]]
      BY <2>4, <3>1, NoneIsNoExec DEF Aborts
    <3>3. exec[c][e] \in ExecRec
      BY <2>0 DEF ExecType
    <3>4. /\ [exec[c][e] EXCEPT !.aborted = TRUE] \in ExecRec
          /\ [exec[c][e] EXCEPT !.aborted = TRUE].aborted = TRUE
      BY <3>3 DEF ExecRec
    <3>5. QED
      BY <2>0, <3>2, <3>4 DEF ExecType
  <2>5. ~UNCHANGED vars
    BY DEF vars
  <2>6. CASE \E d \in Clients, f \in Execs : Start(d, f)
    BY <2>1, <2>6
  <2>7. CASE \E d \in Clients, f \in Execs : Runs(d, f)
    <3>1. PICK d \in Clients, f \in Execs, from \in Pcs \ {"idle"},
               event \in {"completed", "cancelled", "error"} : Ends(d, f, from, event)
      BY <2>2, <2>7, RunsMovesOrEnds
    <3>2. f \in InFlight(c) /\ f \notin InFlight(c)'
      BY <2>3, <3>1
    <3>3. QED
      BY <3>2
  <2>8. CASE \E d \in Clients : Cancel(d) \/ Disconnect(d)
    BY <2>4, <2>8 DEF Cancel, Disconnect
  <2>9. QED
    BY <2>5, <2>6, <2>7, <2>8 DEF Next
<1>2. QED
  BY <1>1, GatewayTypeCorrect, StreamsCorrect, PTL DEF Spec, StaysInReach
=============================================================================
