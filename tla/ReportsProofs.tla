----------------------------- MODULE ReportsProofs -----------------------------
(***************************************************************************)
(* Theorems about Reports, for any reports, types, names, owners, requests *)
(* and executions.                                                         *)
(***************************************************************************)
EXTENDS Reports, TLAPS

(* The inductive invariant. *)

Edits   == {"updateReport", "saveQuery"}
Deletes == {"deleteReport", "deleteType"}
Drops   == {"dropTask", "dropReports", "dropType"}

\* A request that may have written a query, and is remembered as the owner's.
Wrote(q, r) ==
    /\ req[q].pc \in {"ok", "parameters", "cut"}
    /\ req[q].report = r
    /\ req[q].user = report[r].owner
    /\ report[r].row # "new"

\* Rows: types, foreign keys and unique names.
TableInv ==
    /\ report \in [Reports -> Definitions]
    /\ rtype \in [Types -> Row]
    /\ task \in [Reports -> Statuses]
    /\ \A r \in Live : report[r].type \in LiveTypes \cup {NoType}
    /\ \A r \in Reports \ Live : task[r] \in {"none", "gone"} /\ report[r].params = {}
    /\ \A r, s \in Live : report[r].name = report[s].name => r = s

\* Every query in a row was written by the owner of the row.
RowInv ==
    \A r \in Reports : report[r].query # NoQuery => Wrote(report[r].query, r)

SavesReport(q) == req[q].pc = "saving" /\ req[q].op \in Edits

\* What a request holds of rows it read may be old, but never of another owner.
SaverOK(q) ==
    LET r == req[q].report
        s == req[q].seen
    IN  /\ s \in Definitions
        /\ report[r].row # "new"
        /\ s.owner = report[r].owner /\ req[q].user = report[r].owner
        /\ s.query # NoQuery => Wrote(s.query, r)

ReqOne(q) ==
    /\ \A r \in req[q].tasks : task[r] # "none"
    /\ req[q].pc \in Drops => req[q].op \in Deletes
    /\ SavesReport(q) => SaverOK(q)

ReqInv == req \in [Requests -> ReqRecs] /\ \A q \in Requests : ReqOne(q)

\* Snapshots and mails: the same of every copy of a query.
SnapOK(s) == s.query # NoQuery => Wrote(s.query, s.report)

JobInv ==
    /\ job \in [Reports -> Snapshots \cup {None}]
    /\ \A r \in Reports : job[r] # None => job[r].report = r /\ SnapOK(job[r])

PollInv ==
    /\ poll \in [Reports -> Found \cup {None}]
    /\ \A r \in Reports : poll[r] # None => poll[r].snap.report = r /\ SnapOK(poll[r].snap)

ExecInv ==
    /\ exec \in [Slots -> Execs]
    /\ \A e \in Slots : exec[e] # None =>
          /\ SnapOK(exec[e].snap)
          /\ exec[e].pc # "querying" => exec[e].snap.query # NoQuery

MediaInv == media \in [{FileOf[n] : n \in Names} -> Results \cup {None}]

InboxInv ==
    /\ inbox \in [Reports -> [snap : Snapshots, buffer : Results] \cup {None}]
    /\ \A r \in Reports : inbox[r] # None =>
          /\ inbox[r].snap.report = r /\ SnapOK(inbox[r].snap)
          /\ inbox[r].snap.query # NoQuery
          /\ inbox[r].buffer = ResultOf(inbox[r].snap)

SnapInv == JobInv /\ PollInv /\ ExecInv /\ MediaInv /\ InboxInv

IInv == TableInv /\ RowInv /\ ReqInv /\ SnapInv

\* A saved query has its parameters, or its request is still to write them.
Kept(q, r) ==
    req[q].op = "saveQuery" =>
        req[q].pc = "parameters" \/ (req[q].pc = "ok" /\ q \in report[r].params)

\* As long as nothing was deleted, that is so of the query in the row and of the query
\* that a stale save may put back there.
ParamInv ==
    ~Deletions =>
        /\ \A q \in Requests : req[q].pc = "parameters" => req[q].report \in Live
        /\ \A r \in Reports : report[r].query # NoQuery => Kept(report[r].query, r)
        /\ \A q \in Requests : SavesReport(q) /\ req[q].seen.query # NoQuery =>
              Kept(req[q].seen.query, req[q].report)
-----------------------------------------------------------------------------
(* Requests *)

LEMMA Chosen ==
    /\ (CHOOSE u \in Users : TRUE) \in Users
    /\ (CHOOSE r \in Reports : TRUE) \in Reports
    /\ (CHOOSE t \in Types : TRUE) \in Types
    /\ (CHOOSE n \in Names : TRUE) \in Names
    /\ NextReport \in Reports
<1>1. \E u \in Users : TRUE
  BY SomeOfEach
<1>2. \E r \in Reports : TRUE
  BY SomeOfEach
<1>3. \E t \in Types : TRUE
  BY SomeOfEach
<1>4. \E n \in Names : TRUE
  BY SomeOfEach
<1>5. QED
  BY <1>1, <1>2, <1>3, <1>4 DEF NextReport

LEMMA BlankIs ==
    ASSUME NEW q, NEW op \in Ops, NEW u \in Users, NEW r \in Reports, NEW t \in Types
    PROVE  /\ Blank(q, op, u, r, t) \in ReqRecs
           /\ Blank(q, op, u, r, t).pc = "new"
           /\ Blank(q, op, u, r, t).op = op
           /\ Blank(q, op, u, r, t).user = u
           /\ Blank(q, op, u, r, t).report = r
           /\ Blank(q, op, u, r, t).tasks = {}
BY Chosen DEF Blank, ReqRecs, Fields

LEMMA UnaskedIs ==
    ASSUME NEW q
    PROVE  /\ Unasked(q) \in ReqRecs
           /\ Unasked(q).pc = "new" /\ Unasked(q).op = "none" /\ Unasked(q).tasks = {}
<1> DEFINE u == CHOOSE u \in Users : TRUE
           r == CHOOSE r \in Reports : TRUE
           t == CHOOSE t \in Types : TRUE
<1>1. u \in Users /\ r \in Reports /\ t \in Types /\ "none" \in Ops
  BY Chosen DEF Ops
<1>2. Unasked(q) = Blank(q, "none", u, r, t)
  BY DEF Unasked
<1> HIDE DEF u, r, t
<1>3. QED
  BY <1>1, <1>2, BlankIs

LEMMA RememberedIs ==
    ASSUME NEW q, NEW rec \in ReqRecs, NEW pc \in Over
    PROVE  /\ Remembered(q, rec, pc) \in ReqRecs
           /\ Remembered(q, rec, pc).pc = pc
           /\ Remembered(q, rec, pc).op = rec.op
           /\ Remembered(q, rec, pc).user = rec.user
           /\ Remembered(q, rec, pc).report = rec.report
           /\ Remembered(q, rec, pc).tasks = {}
<1> DEFINE x == Unasked(q)
<1>1. x \in ReqRecs /\ x.tasks = {}
  BY UnaskedIs
<1>2. /\ rec.op \in Ops /\ rec.user \in Users /\ rec.report \in Reports
  BY DEF ReqRecs
<1> HIDE DEF x
<1> DEFINE y == [x EXCEPT !.pc = pc, !.op = rec.op, !.user = rec.user,
                          !.report = rec.report]
<1>3. pc \in Over /\ rec.op \in Ops /\ rec.user \in Users /\ rec.report \in Reports
  BY <1>2
<1>4. y \in ReqRecs
  BY <1>1, <1>3 DEF ReqRecs
<1>5. y.pc = pc /\ y.op = rec.op /\ y.user = rec.user /\ y.report = rec.report /\ y.tasks = {}
  BY <1>1 DEF ReqRecs
<1>6. Remembered(q, rec, pc) = y
  BY DEF Remembered, x
<1>7. QED
  BY <1>4, <1>5, <1>6

LEMMA FailedIs ==
    ASSUME NEW q, NEW pc \in Over
    PROVE  /\ [Unasked(q) EXCEPT !.pc = pc] \in ReqRecs
           /\ [Unasked(q) EXCEPT !.pc = pc].pc = pc
           /\ [Unasked(q) EXCEPT !.pc = pc].op = "none"
           /\ [Unasked(q) EXCEPT !.pc = pc].tasks = {}
BY UnaskedIs DEF ReqRecs

\* A step of request q replaces its record and no other.
LEMMA MovesIs ==
    ASSUME req \in [Requests -> ReqRecs], NEW q \in Requests, NEW rec \in ReqRecs, Moves(q, rec)
    PROVE  /\ req' \in [Requests -> ReqRecs]
           /\ req'[q] = rec
           /\ \A p \in Requests \ {q} : req'[p] = req[p]
BY DEF Moves

LEMMA AnswersIs ==
    ASSUME req \in [Requests -> ReqRecs], NEW q \in Requests, NEW rec \in ReqRecs,
           NEW pc \in Over, Answers(q, rec, pc)
    PROVE  /\ req' \in [Requests -> ReqRecs]
           /\ \A p \in Requests \ {q} : req'[p] = req[p]
           /\ req'[q].pc = pc /\ req'[q].tasks = {}
           /\ pc # "ok" => req'[q].op = "none"
           /\ pc = "ok" => /\ req'[q].op = rec.op /\ req'[q].user = rec.user
                           /\ req'[q].report = rec.report
<1>1. CASE pc = "ok"
  <2>1. Moves(q, Remembered(q, rec, pc)) /\ Remembered(q, rec, pc) \in ReqRecs
    BY <1>1, RememberedIs DEF Answers
  <2>2. /\ req' \in [Requests -> ReqRecs] /\ req'[q] = Remembered(q, rec, pc)
        /\ \A p \in Requests \ {q} : req'[p] = req[p]
    BY <2>1, MovesIs
  <2>3. QED
    BY <1>1, <2>2, RememberedIs
<1>2. CASE pc # "ok"
  <2> DEFINE x == [Unasked(q) EXCEPT !.pc = pc]
  <2>1. Moves(q, x) /\ x \in ReqRecs /\ x.pc = pc /\ x.op = "none" /\ x.tasks = {}
    BY <1>2, FailedIs DEF Answers
  <2> HIDE DEF x
  <2>2. /\ req' \in [Requests -> ReqRecs] /\ req'[q] = x
        /\ \A p \in Requests \ {q} : req'[p] = req[p]
    BY <2>1, MovesIs
  <2>3. QED
    BY <1>2, <2>1, <2>2
<1>3. QED
  BY <1>1, <1>2

Pcs == {"new", "inserting", "saving", "parameters", "saveTasks"} \cup Drops \cup Over

LEMMA GoesToIs ==
    ASSUME req \in [Requests -> ReqRecs], NEW q \in Requests, NEW pc \in Pcs, GoesTo(q, pc)
    PROVE  /\ req' \in [Requests -> ReqRecs]
           /\ \A p \in Requests \ {q} : req'[p] = req[p]
           /\ req'[q] = [req[q] EXCEPT !.pc = pc]
           /\ req'[q].pc = pc
           /\ req'[q].op = req[q].op /\ req'[q].user = req[q].user
           /\ req'[q].report = req[q].report /\ req'[q].tasks = req[q].tasks
           /\ req'[q].seen = req[q].seen
<1>1. req[q] \in ReqRecs
  OBVIOUS
<1>2. [req[q] EXCEPT !.pc = pc] \in ReqRecs
  BY <1>1 DEF ReqRecs, Pcs, Drops, Over
<1>3. QED
  BY <1>1, <1>2, MovesIs DEF GoesTo, ReqRecs

\* Rows, owners and tasks do not come from nowhere a second time.
Grows ==
    /\ \A r \in Reports : report[r].row # "new" =>
          report'[r].row # "new" /\ report'[r].owner = report[r].owner
    /\ \A r \in Reports : task[r] # "none" => task'[r] # "none"

\* What a request wrote stays known, whatever happens to the others.
Remembers ==
    /\ Grows
    /\ \A q \in Requests : req[q].pc \in {"ok", "parameters", "cut"} =>
          /\ req'[q].pc \in {"ok", "parameters", "cut"}
          /\ req'[q].report = req[q].report /\ req'[q].user = req[q].user

LEMMA WroteStays ==
    ASSUME Remembers, NEW q \in Requests, NEW r \in Reports, Wrote(q, r)
    PROVE  Wrote(q, r)'
BY DEF Remembers, Grows, Wrote

\* Requests that do not move keep their part of the invariant.
LEMMA ReqOneStays ==
    ASSUME TableInv, ReqInv, Remembers, NEW q \in Requests, req'[q] = req[q]
    PROVE  ReqOne(q)'
<1>1. req[q] \in ReqRecs /\ ReqOne(q)
  BY DEF ReqInv
<1>2. req[q].report \in Reports /\ req[q].tasks \in SUBSET Reports
  BY <1>1 DEF ReqRecs
<1>3. ASSUME SaverOK(q) PROVE SaverOK(q)'
  <2>1. req[q].seen \in Definitions /\ report[req[q].report].row # "new"
    BY <1>3 DEF SaverOK
  <2>2. req[q].seen.query # NoQuery => req[q].seen.query \in Requests
    BY <2>1 DEF Definitions, Queries
  <2>3. report'[req[q].report].row # "new"
        /\ report'[req[q].report].owner = report[req[q].report].owner
    BY <1>2, <2>1 DEF Remembers, Grows
  <2>4. req[q].seen.query # NoQuery => Wrote(req[q].seen.query, req[q].report)'
    BY <1>2, <1>3, <2>2, WroteStays DEF SaverOK
  <2>5. QED
    BY <1>3, <2>1, <2>3, <2>4 DEF SaverOK
<1>4. QED
  BY <1>1, <1>2, <1>3 DEF ReqOne, SavesReport, Remembers, Grows
-----------------------------------------------------------------------------
(* Tables *)

LEMMA LiveType ==
    Live \in SUBSET Reports /\ LiveTypes \in SUBSET Types
      /\ \A t : ReportsOf(t) \in SUBSET Live
BY DEF Live, LiveTypes, ReportsOf

LEMMA ErasedIs ==
    ASSUME report \in [Reports -> Definitions], NEW rs
    PROVE  /\ Erased(rs) \in [Reports -> Definitions]
           /\ \A r \in Reports : /\ Erased(rs)[r].owner = report[r].owner
                                 /\ Erased(rs)[r].name = report[r].name
                                 /\ r \notin rs => Erased(rs)[r] = report[r]
                                 /\ r \in rs => /\ Erased(rs)[r].row = "gone"
                                                /\ Erased(rs)[r].params = {}
                                                /\ Erased(rs)[r].query = NoQuery
<1>1. ASSUME NEW r \in Reports, r \in rs
      PROVE  /\ Erased(rs)[r] \in Definitions
             /\ Erased(rs)[r].owner = report[r].owner
             /\ Erased(rs)[r].name = report[r].name
             /\ Erased(rs)[r].row = "gone" /\ Erased(rs)[r].params = {}
             /\ Erased(rs)[r].query = NoQuery
  <2>1. report[r] \in Definitions
    OBVIOUS
  <2>2. Erased(rs)[r] = [report[r] EXCEPT !.row = "gone", !.params = {}, !.query = NoQuery,
                                          !.type = NoType]
    BY <1>1 DEF Erased
  <2>3. QED
    BY <2>1, <2>2 DEF Definitions, Row, Queries
<1>2. ASSUME NEW r \in Reports, r \notin rs
      PROVE  Erased(rs)[r] = report[r]
  BY <1>2 DEF Erased
<1>3. Erased(rs) = [r \in Reports |-> Erased(rs)[r]]
  BY DEF Erased
<1>4. QED
  BY <1>1, <1>2, <1>3

LEMMA UntaskedIs ==
    ASSUME task \in [Reports -> Statuses], NEW rs
    PROVE  /\ Untasked(rs) \in [Reports -> Statuses]
           /\ \A r \in Reports :
                 /\ task[r] # "none" <=> Untasked(rs)[r] # "none"
                 /\ r \in rs \/ task[r] \in {"none", "gone"} =>
                       Untasked(rs)[r] \in {"none", "gone"}
BY DEF Untasked, Statuses

\* Reports deleted with their tasks.
LEMMA EraseTables ==
    ASSUME TableInv, NEW rs, NEW ts, rs \subseteq ts, report' = Erased(rs),
           task' = Untasked(ts), rtype' \in [Types -> Row],
           \A r \in Live \ rs : report[r].type \in LiveTypes' \cup {NoType}
    PROVE  TableInv' /\ Grows
<1>1. report \in [Reports -> Definitions] /\ task \in [Reports -> Statuses]
  BY DEF TableInv
<1>2. /\ report' \in [Reports -> Definitions] /\ task' \in [Reports -> Statuses]
      /\ \A r \in Reports :
            /\ report'[r].owner = report[r].owner /\ report'[r].name = report[r].name
            /\ r \notin rs => report'[r] = report[r]
            /\ r \in rs => report'[r].row = "gone" /\ report'[r].params = {}
            /\ task[r] # "none" <=> task'[r] # "none"
            /\ r \in ts \/ task[r] \in {"none", "gone"} => task'[r] \in {"none", "gone"}
  BY <1>1, ErasedIs, UntaskedIs
<1>3. \A r \in Reports : r \in Live' <=> r \in Live \ rs
  BY <1>2 DEF Live
<1>4. \A r \in Live' : report'[r].type \in LiveTypes' \cup {NoType}
  <2>1. Live' \subseteq Reports
    BY DEF Live
  <2>2. QED
    BY <1>2, <1>3, <2>1
<1>5. \A r \in Reports \ Live' : task'[r] \in {"none", "gone"} /\ report'[r].params = {}
  BY <1>2, <1>3 DEF TableInv
<1>6. \A r, s \in Live' : report'[r].name = report'[s].name => r = s
  BY <1>2, <1>3, LiveType DEF TableInv, Live
<1>7. Grows
  BY <1>2 DEF Grows
<1>8. QED
  BY <1>2, <1>4, <1>5, <1>6, <1>7 DEF TableInv

\* A row inserted or written back.
LEMMA WriteTables ==
    ASSUME TableInv, NEW r \in Reports, NEW d \in Definitions, report' = [report EXCEPT ![r] = d],
           d.row = "live", ~NameTaken(d.name, r), d.type \in LiveTypes \cup {NoType},
           report[r].row # "new" => d.owner = report[r].owner,
           UNCHANGED <<rtype, task>>
    PROVE  TableInv' /\ Grows
<1>1. /\ report \in [Reports -> Definitions] /\ report' \in [Reports -> Definitions]
      /\ report'[r] = d /\ \A s \in Reports \ {r} : report'[s] = report[s]
      /\ LiveTypes' = LiveTypes
  BY DEF TableInv, LiveTypes
<1>2. \A s \in Reports : s \in Live' <=> s \in Live \/ s = r
  BY <1>1 DEF Live
<1>3. \A s \in Live \ {r} : report[s].name # d.name
  BY DEF NameTaken
<1>4. \A s \in Live' : report'[s].type \in LiveTypes' \cup {NoType}
  BY <1>1, <1>2, LiveType DEF TableInv, Live
<1>5. \A s \in Reports \ Live' : task'[s] \in {"none", "gone"} /\ report'[s].params = {}
  BY <1>1, <1>2 DEF TableInv
<1>6. \A s, u \in Live' : report'[s].name = report'[u].name => s = u
  BY <1>1, <1>2, <1>3, LiveType DEF TableInv, Live
<1>7. Grows
  BY <1>1 DEF Grows
<1>8. QED
  BY <1>1, <1>4, <1>5, <1>6, <1>7 DEF TableInv

\* Tasks of live reports change as they like, those of others stay.
LEMMA TaskTables ==
    ASSUME TableInv, task' \in [Reports -> Statuses], UNCHANGED <<report, rtype>>,
           \A r \in Reports : task[r] # "none" => task'[r] # "none",
           \A r \in Reports \ Live : task'[r] \in {"none", "gone"}
    PROVE  TableInv' /\ Grows
<1>1. Live' = Live /\ LiveTypes' = LiveTypes
  BY DEF Live, LiveTypes
<1>2. QED
  BY <1>1 DEF TableInv, Grows

LEMMA SameTables ==
    ASSUME TableInv, UNCHANGED tables PROVE TableInv' /\ Grows
BY DEF tables, TableInv, Grows, Live, LiveTypes

\* The statement with which each request writes the tables.
LEMMA ServeTables ==
    ASSUME TableInv, ReqInv, NEW q \in Requests, Serve(q)
    PROVE  TableInv' /\ Grows
<1>0. /\ req[q] \in ReqRecs /\ ReqOne(q)
      /\ report \in [Reports -> Definitions] /\ rtype \in [Types -> Row]
      /\ task \in [Reports -> Statuses]
  BY DEF ReqInv, TableInv
<1>1. /\ req[q].report \in Reports /\ req[q].rtype \in Types /\ req[q].name \in Names
      /\ req[q].user \in Users /\ req[q].tasks \in SUBSET Reports
      /\ req[q].reports \in SUBSET Reports
  BY <1>0 DEF ReqRecs
<1>2. CASE UNCHANGED tables
  BY <1>2, SameTables
<1>3. CASE InsertReport(q) /\ ~UNCHANGED tables
  <2> DEFINE d == [row |-> "live", owner |-> req[q].user, name |-> req[q].name,
                   type |-> req[q].rtype, query |-> NoQuery, params |-> {}]
             r == NextReport
  <2>1. r \in Reports
    BY Chosen
  <2>2. /\ report[r].row = "new" /\ ~NameTaken(req[q].name, r) /\ req[q].rtype \in LiveTypes
        /\ report' = [report EXCEPT ![r] = d] /\ UNCHANGED <<rtype, task>>
    BY <1>3 DEF InsertReport, Fails
  <2>3. d \in Definitions /\ d.row = "live" /\ d.name = req[q].name /\ d.type = req[q].rtype
    BY <1>1 DEF Definitions, Row, Queries
  <2> HIDE DEF d, r
  <2>4. QED
    BY <2>1, <2>2, <2>3, WriteTables
<1>4. CASE SaveReport(q) /\ ~UNCHANGED tables
  <2> DEFINE d == Written(q)
             r == req[q].report
  <2>1. /\ report' = [report EXCEPT ![r] = d] /\ UNCHANGED <<rtype, task>>
        /\ ~NameTaken(d.name, r) /\ d.type \in LiveTypes \cup {NoType}
        /\ req[q].pc = "saving" /\ req[q].op \in {"updateReport", "saveQuery"}
    BY <1>4 DEF SaveReport, Fails
  <2>2. /\ req[q].seen \in Definitions
        /\ req[q].seen.owner = report[r].owner
    BY <1>0, <2>1 DEF ReqOne, SavesReport, SaverOK, Edits
  <2>3. d \in Definitions /\ d.row = "live" /\ d.owner = report[r].owner
    BY <1>0, <1>1, <2>2 DEF Written, Definitions, Row, Queries
  <2> HIDE DEF d
  <2>4. QED
    BY <1>1, <2>1, <2>3, WriteTables
<1>5. CASE WriteParameters(q)
  <2> DEFINE r == req[q].report
             d == [report[r] EXCEPT !.params = @ \cup {q}]
  <2>1. r \in Live /\ report' = [report EXCEPT ![r] = d] /\ UNCHANGED <<rtype, task>>
    BY <1>0, <1>1, <1>5 DEF WriteParameters
  <2>2. d \in Definitions /\ d.row = "live" /\ d.owner = report[r].owner
        /\ d.name = report[r].name /\ d.type = report[r].type
    BY <1>0, <1>1, <2>1 DEF Definitions, Live
  <2>3. ~NameTaken(d.name, r) /\ d.type \in LiveTypes \cup {NoType}
    BY <2>1, <2>2 DEF NameTaken, TableInv
  <2> HIDE DEF d
  <2>4. QED
    BY <1>1, <2>1, <2>2, <2>3, WriteTables
<1>6. CASE DropTask(q)
  BY <1>0, <1>6, UntaskedIs, TaskTables DEF DropTask, TableInv
<1>7. CASE DropReports(q)
  <2>1. /\ report' = Erased(req[q].reports \cap Live) /\ task' = Untasked(req[q].reports)
        /\ rtype' = rtype
    BY <1>7 DEF DropReports
  <2>2. LiveTypes' = LiveTypes
    BY <2>1 DEF LiveTypes
  <2>3. QED
    BY <1>0, <2>1, <2>2, EraseTables DEF TableInv
<1>8. CASE InsertType(q)
  <2>1. rtype' = [rtype EXCEPT ![req[q].rtype] = "live"] /\ UNCHANGED <<report, task>>
    BY <1>8 DEF InsertType
  <2>2. rtype' \in [Types -> Row] /\ LiveTypes \subseteq LiveTypes' /\ Live' = Live
    BY <1>0, <1>1, <2>1 DEF Row, LiveTypes, Live
  <2>3. QED
    BY <2>1, <2>2 DEF TableInv, Grows
<1>9. CASE SaveType(q)
  <2> DEFINE t == req[q].rtype
             had == req[q].reports
  <2>1. rtype' = [rtype EXCEPT ![t] = "live"] /\ report' = Relinked(q) /\ task' = task
    BY <1>9 DEF SaveType
  <2>2. rtype' \in [Types -> Row] /\ LiveTypes' = LiveTypes \cup {t}
    BY <1>0, <1>1, <2>1 DEF Row, LiveTypes
  <2>3. ASSUME NEW r \in Reports
        PROVE  /\ report'[r] \in Definitions
               /\ report'[r].row = report[r].row /\ report'[r].owner = report[r].owner
               /\ report'[r].name = report[r].name /\ report'[r].params = report[r].params
               /\ \/ report'[r].type = t \/ report'[r].type = NoType
                  \/ report'[r].type = report[r].type
    <3>1. report[r] \in Definitions
      BY <1>0
    <3>2. \/ report'[r] = [report[r] EXCEPT !.type = t]
          \/ report'[r] = [report[r] EXCEPT !.type = NoType]
          \/ report'[r] = report[r]
      BY <2>1 DEF Relinked
    <3>3. QED
      BY <1>1, <3>1, <3>2 DEF Definitions
  <2>4. report' \in [Reports -> Definitions] /\ Live' = Live
    <3>1. report' = [r \in Reports |-> report'[r]]
      BY <2>1 DEF Relinked
    <3>2. QED
      BY <2>3, <3>1 DEF Live
  <2>5. QED
    BY <2>1, <2>2, <2>3, <2>4, LiveType DEF TableInv, Grows
<1>10. CASE SaveTasks(q)
  <2>1. task' = [r \in Reports |->
           IF r \in req[q].tasks /\ task[r] # "gone" THEN "SCHEDULED" ELSE task[r]]
        /\ UNCHANGED <<report, rtype>>
    BY <1>10 DEF SaveTasks
  <2>2. \A r \in req[q].tasks : task[r] # "none"
    BY <1>0 DEF ReqOne
  <2>3. \A r \in Reports \ Live : task[r] \in {"none", "gone"}
    BY DEF TableInv
  <2>4. QED
    BY <1>0, <2>1, <2>2, <2>3, TaskTables DEF Statuses
<1>11. CASE DropType(q)
  <2> DEFINE t == req[q].rtype
  <2>1. /\ rtype' = [rtype EXCEPT ![t] = "gone"] /\ report' = Erased(ReportsOf(t))
        /\ task' = Untasked(ReportsOf(t))
    BY <1>11 DEF DropType
  <2>2. rtype' \in [Types -> Row] /\ LiveTypes' = LiveTypes \ {t}
    BY <1>0, <1>1, <2>1 DEF Row, LiveTypes
  <2>3. \A r \in Live \ ReportsOf(t) : report[r].type \in LiveTypes' \cup {NoType}
    BY <2>2 DEF ReportsOf, TableInv
  <2>4. QED
    BY <2>1, <2>2, <2>3, EraseTables
<1>12. CASE RejectParameters(q)
  BY <1>2, <1>12 DEF RejectParameters
<1>13. QED
  BY <1>0, <1>2, <1>3, <1>4, <1>5, <1>6, <1>7, <1>8, <1>9, <1>10, <1>11, <1>12 DEF Serve

\* Everything else that writes the tables writes the status of a task.
LEMMA TablesKept ==
    ASSUME TableInv, ReqInv, SnapInv, [Next]_vars
    PROVE  TableInv' /\ Grows
<1>0. task \in [Reports -> Statuses] /\ \A r \in Reports \ Live : task[r] \in {"none", "gone"}
  BY DEF TableInv
<1>1. CASE UNCHANGED tables
  BY <1>1, SameTables
<1>2. ASSUME NEW q \in Requests, Ask(q) PROVE TableInv' /\ Grows
  <2>1. CASE UNCHANGED tables
    BY <1>1, <2>1
  <2>2. CASE \E r \in Reports : Schedule(q, r)
    <3>1. PICK r \in Reports : Schedule(q, r)
      BY <2>2
    <3>2. CASE UNCHANGED task
      BY <1>1, <3>1, <3>2 DEF Schedule, tables
    <3>3. CASE ~UNCHANGED task
      <4>1. r \in Live /\ task' = [task EXCEPT ![r] = "SCHEDULED"] /\ UNCHANGED <<report, rtype>>
        BY <3>1, <3>3 DEF Schedule
      <4>2. QED
        BY <1>0, <4>1, TaskTables DEF Statuses
    <3>4. QED
      BY <3>2, <3>3
  <2>3. QED
    BY <1>2, <2>1, <2>2 DEF Ask, saveReport, updateReport, saveQuery, deleteReport, scheduleTask,
       createReportType, updateReportType, deleteReportType, CreateReport, EditReport,
       DeleteReport, CreateType, UpdateType, DeleteType
<1>3. ASSUME NEW e \in Slots, Execute(e) PROVE TableInv' /\ Grows
  <2>1. CASE UNCHANGED task
    BY <1>1, <1>3, <2>1 DEF Execute, RunQuery, WriteFile, Mail, Ends, ExecGoesTo, tables
  <2>2. CASE Ends(e) /\ exec[e] # None
    <3>1. exec[e].snap.report \in Reports
      BY <2>2 DEF SnapInv, ExecInv, Execs, Snapshots
    <3>2. QED
      BY <1>0, <2>2, <3>1, TaskTables DEF Ends, Statuses
  <2>3. QED
    BY <1>3, <2>1, <2>2 DEF Execute, RunQuery, WriteFile, Mail, ExecGoesTo
<1>4. ASSUME NEW e \in Slots, NEW r \in Reports, TickFires(e, r) PROVE TableInv' /\ Grows
  BY <1>0, <1>4, TaskTables DEF TickFires, Statuses
<1>5. QED
  BY <1>1, <1>2, <1>3, <1>4, ServeTables DEF Next, PollReads, PollRegisters, vars
-----------------------------------------------------------------------------
(* What requests remember *)

Known == {"ok", "parameters", "cut"}

\* What a request begins with: the query it may write back is the one in the row.
Sees(q) ==
    /\ req[q].pc # "parameters"
    /\ SavesReport(q) => req[q].seen.query = report[req[q].report].query

\* Request q moves and nothing is forgotten.
LEMMA OneMoves ==
    ASSUME TableInv, ReqInv, Grows, NEW q \in Requests,
           req' \in [Requests -> ReqRecs], \A p \in Requests \ {q} : req'[p] = req[p],
           req[q].pc \in Known => /\ req'[q].pc \in Known
                                  /\ req'[q].report = req[q].report
                                  /\ req'[q].user = req[q].user,
           ReqOne(q)'
    PROVE  ReqInv' /\ Remembers
<1>1. Remembers
  BY DEF Remembers, Known
<1>2. \A p \in Requests \ {q} : ReqOne(p)'
  BY <1>1, ReqOneStays
<1>3. QED
  BY <1>1, <1>2 DEF ReqInv

\* Request q is over.
LEMMA OneAnswers ==
    ASSUME TableInv, ReqInv, Grows, NEW q \in Requests, NEW rec \in ReqRecs, NEW pc \in Over,
           Answers(q, rec, pc),
           req[q].pc \in Known => /\ pc = "ok" /\ rec.report = req[q].report
                                  /\ rec.user = req[q].user
    PROVE  ReqInv' /\ Remembers /\ Sees(q)'
<1>1. /\ req' \in [Requests -> ReqRecs]
      /\ \A p \in Requests \ {q} : req'[p] = req[p]
      /\ req'[q].pc = pc /\ req'[q].tasks = {}
      /\ pc = "ok" => req'[q].user = rec.user /\ req'[q].report = rec.report
  BY AnswersIs DEF ReqInv
<1>2. ReqOne(q)'
  BY <1>1 DEF ReqOne, SavesReport, Drops, Over
<1>3. Sees(q)'
  BY <1>1 DEF Sees, SavesReport, Over
<1>4. QED
  BY <1>1, <1>2, <1>3, OneMoves DEF Known

\* Request q, which holds no old row, goes on with the rows of live tasks.
LEMMA OneGoes ==
    ASSUME TableInv, ReqInv, Grows, NEW q \in Requests, NEW rec \in ReqRecs, Moves(q, rec),
           req[q].pc \notin Known,
           \A r \in rec.tasks : task[r] # "none",
           rec.pc \in Drops => rec.op \in Deletes,
           rec.pc = "saving" => rec.op \notin Edits, rec.pc # "parameters"
    PROVE  ReqInv' /\ Remembers /\ Sees(q)'
<1>1. /\ req' \in [Requests -> ReqRecs] /\ req'[q] = rec
      /\ \A p \in Requests \ {q} : req'[p] = req[p]
  BY MovesIs DEF ReqInv
<1>2. rec.tasks \subseteq Reports
  BY DEF ReqRecs
<1>3. ReqOne(q)'
  BY <1>1, <1>2 DEF ReqOne, SavesReport, Grows
<1>4. Sees(q)'
  BY <1>1 DEF Sees, SavesReport
<1>5. QED
  BY <1>1, <1>3, <1>4, OneMoves

\* The first step of a request.
LEMMA AskKnows ==
    ASSUME TableInv, RowInv, ReqInv, Grows, NEW q \in Requests, Ask(q)
    PROVE  ReqInv' /\ Remembers /\ Sees(q)'
<1>0. /\ req[q].pc \notin Known
      /\ report \in [Reports -> Definitions]
  <2>1. req[q] = Unasked(q)
    BY DEF Ask, Asks, saveReport, updateReport, saveQuery, deleteReport, scheduleTask,
       createReportType, updateReportType, deleteReportType, CreateReport, EditReport,
       DeleteReport, Schedule, CreateType, UpdateType, DeleteType
  <2>2. QED
    BY <2>1, UnaskedIs DEF Known, TableInv
<1>1. "ok" \in Over /\ "failed" \in Over
  BY DEF Over
<1>2. ASSUME NEW rec \in ReqRecs, Answers(q, rec, "ok") \/ Answers(q, rec, "failed")
      PROVE  ReqInv' /\ Remembers /\ Sees(q)'
  BY <1>0, <1>1, <1>2, OneAnswers
<1>3. \A rs : Tasked(rs) \in SUBSET rs /\ \A r \in Tasked(rs) : task[r] # "none"
  BY DEF Tasked
<1>4. CASE saveReport(q)
  <2>1. PICK u \in Users, t \in Types, n \in Names : CreateReport(q, u, t, n)
    BY <1>4 DEF saveReport
  <2> DEFINE b == Blank(q, "createReport", u, NextReport, t)
             rec == [b EXCEPT !.name = n]
  <2>2. b \in ReqRecs /\ b.pc = "new" /\ b.tasks = {}
    <3>1. "createReport" \in Ops /\ NextReport \in Reports
      BY Chosen DEF Ops
    <3>2. QED
      BY <3>1, BlankIs
  <2>3. Answers(q, rec, "ok") \/ Moves(q, [rec EXCEPT !.pc = "inserting"])
    BY <2>1 DEF CreateReport
  <2> HIDE DEF b
  <2>4. rec \in ReqRecs /\ [rec EXCEPT !.pc = "inserting"] \in ReqRecs
        /\ [rec EXCEPT !.pc = "inserting"].pc = "inserting"
        /\ [rec EXCEPT !.pc = "inserting"].tasks = {}
    BY <2>2 DEF ReqRecs
  <2> HIDE DEF rec
  <2>5. QED
    BY <1>0, <1>2, <2>3, <2>4, OneGoes DEF Drops
<1>5. CASE updateReport(q) \/ saveQuery(q)
  <2>1. PICK u \in Users, r \in Reports, op \in Edits, f \in Fields, n \in Names, t \in Types :
           EditReport(q, u, r, op, f, n, t)
    BY <1>5, Chosen DEF updateReport, saveQuery, Edits, Fields
  <2> DEFINE b == Blank(q, op, u, r, t)
             rec == [b EXCEPT !.field = f, !.name = n]
  <2>2. b \in ReqRecs /\ b.tasks = {} /\ b.op = op /\ b.user = u /\ b.report = r
    <3>1. op \in Ops
      BY DEF Ops, Edits
    <3>2. QED
      BY <3>1, BlankIs
  <2>3. PICK s \in Definitions :
           /\ s = [report[r] EXCEPT !.type = NoType, !.params = {}]
           /\ s.owner = report[r].owner /\ s.query = report[r].query
    <3> DEFINE d == [report[r] EXCEPT !.type = NoType, !.params = {}]
    <3>1. report[r] \in Definitions
      BY <1>0
    <3>2. d \in Definitions /\ d.owner = report[r].owner /\ d.query = report[r].query
      BY <3>1 DEF Definitions
    <3> HIDE DEF d
    <3>3. QED
      BY <3>2 DEF d
  <2> DEFINE x == [rec EXCEPT !.pc = "saving", !.seen = s]
  <2>4. \/ FindOwned(u, r) /\ Moves(q, x)
        \/ Answers(q, rec, "failed")
    BY <2>1, <2>3 DEF EditReport
  <2>5. UNCHANGED report
    BY <2>1 DEF EditReport, tables
  <2> HIDE DEF b
  <2>6. rec \in ReqRecs /\ rec.tasks = {} /\ rec.op = op /\ rec.user = u /\ rec.report = r
    BY <2>2 DEF ReqRecs
  <2> HIDE DEF rec
  <2>7. /\ x \in ReqRecs /\ x.pc = "saving" /\ x.seen = s /\ x.tasks = {}
        /\ x.op = op /\ x.user = u /\ x.report = r
    BY <2>6 DEF ReqRecs
  <2> HIDE DEF x
  <2>8. ASSUME FindOwned(u, r), Moves(q, x) PROVE ReqInv' /\ Remembers /\ Sees(q)'
    <3>1. /\ req' \in [Requests -> ReqRecs] /\ req'[q] = x
          /\ \A p \in Requests \ {q} : req'[p] = req[p]
      BY <2>7, <2>8, MovesIs DEF ReqInv
    <3>2. report[r].row # "new" /\ report[r].owner = u
      BY <2>8 DEF FindOwned, Live
    <3>3. s.query # NoQuery => s.query \in Requests /\ Wrote(s.query, r)
      BY <2>3, <2>8 DEF RowInv, Definitions, Queries
    <3>4. Remembers
      BY <1>0, <3>1 DEF Remembers, Known
    <3>5. s.query # NoQuery => Wrote(s.query, r)'
      BY <3>3, <3>4, WroteStays
    <3>6. SaverOK(q)'
      BY <2>3, <2>5, <2>7, <3>1, <3>2, <3>5 DEF SaverOK
    <3>7. ReqOne(q)'
      BY <2>7, <3>1, <3>6 DEF ReqOne, Drops
    <3>8. Sees(q)'
      BY <2>3, <2>5, <2>7, <3>1 DEF Sees
    <3>9. QED
      BY <1>0, <3>1, <3>7, <3>8, OneMoves
  <2>9. QED
    BY <1>2, <2>4, <2>6, <2>8
<1>6. CASE deleteReport(q)
  <2>1. PICK u \in Users, r \in Reports : DeleteReport(q, u, r)
    BY <1>6 DEF deleteReport
  <2>0. PICK t \in Types : t = CHOOSE s \in Types : TRUE
    BY Chosen
  <2> DEFINE b == Blank(q, "deleteReport", u, r, t)
  <2>2. b \in ReqRecs /\ b.op = "deleteReport"
    <3>1. "deleteReport" \in Ops
      BY DEF Ops
    <3>2. b \in ReqRecs
      BY <3>1, BlankIs
    <3>3. QED
      BY <3>2 DEF Blank
  <2> DEFINE x == [b EXCEPT !.pc = "dropTask", !.reports = {r}, !.tasks = Tasked({r})]
  <2>3. Moves(q, x) \/ Answers(q, b, "failed")
    BY <2>0, <2>1 DEF DeleteReport
  <2> HIDE DEF b
  <2>4. x \in ReqRecs /\ x.pc = "dropTask" /\ x.op = "deleteReport" /\ x.tasks = Tasked({r})
    BY <1>3, <2>2 DEF ReqRecs
  <2> HIDE DEF x
  <2>5. QED
    BY <1>0, <1>2, <1>3, <2>2, <2>3, <2>4, OneGoes DEF Deletes
<1>7. CASE scheduleTask(q)
  <2>1. PICK r \in Reports : Schedule(q, r)
    BY <1>7 DEF scheduleTask
  <2> DEFINE b == Blank(q, "schedule", CHOOSE u \in Users : TRUE, r, CHOOSE t \in Types : TRUE)
  <2>2. b \in ReqRecs
    BY <2>1, BlankIs, Chosen DEF Ops
  <2>3. Answers(q, b, "ok") \/ Answers(q, b, "failed")
    BY <2>1 DEF Schedule
  <2> HIDE DEF b
  <2>4. QED
    BY <1>2, <2>2, <2>3
<1>8. ASSUME NEW op \in Ops, NEW t \in Types
      PROVE  /\ OfType(q, op, t) \in ReqRecs /\ OfType(q, op, t).op = op
             /\ OfType(q, op, t).tasks = {}
  BY UnaskedIs DEF OfType, ReqRecs
<1>9. CASE createReportType(q)
  <2>1. PICK t \in Types : CreateType(q, t)
    BY <1>9 DEF createReportType
  <2> DEFINE rec == OfType(q, "createType", t)
             x == [rec EXCEPT !.pc = "inserting"]
  <2>2. rec \in ReqRecs /\ rec.tasks = {}
    BY <1>8 DEF Ops
  <2>3. Answers(q, rec, "failed") \/ Moves(q, x)
    BY <2>1 DEF CreateType
  <2> HIDE DEF rec
  <2>4. x \in ReqRecs /\ x.pc = "inserting" /\ x.tasks = {}
    BY <2>2 DEF ReqRecs
  <2> HIDE DEF x
  <2>5. QED
    BY <1>0, <1>2, <2>2, <2>3, <2>4, OneGoes DEF Drops
<1>10. ASSUME NEW t \in Types, NEW op \in {"updateType", "deleteType"},
              NEW pc \in {"saving", "dropTask"}, pc = "dropTask" => op = "deleteType",
              Moves(q, [OfType(q, op, t) EXCEPT !.pc = pc, !.reports = ReportsOf(t),
                                                !.tasks = Tasked(ReportsOf(t))])
       PROVE  ReqInv' /\ Remembers /\ Sees(q)'
  <2> DEFINE rec == OfType(q, op, t)
             x == [rec EXCEPT !.pc = pc, !.reports = ReportsOf(t),
                              !.tasks = Tasked(ReportsOf(t))]
  <2>1. rec \in ReqRecs /\ rec.op = op
    BY <1>8 DEF Ops
  <2>2. ReportsOf(t) \in SUBSET Reports /\ Tasked(ReportsOf(t)) \in SUBSET Reports
    BY <1>3, LiveType
  <2>3. Moves(q, x)
    BY <1>10
  <2> HIDE DEF rec
  <2>4. x \in ReqRecs /\ x.pc = pc /\ x.op = op /\ x.tasks = Tasked(ReportsOf(t))
    BY <2>1, <2>2 DEF ReqRecs
  <2> HIDE DEF x
  <2>5. QED
    BY <1>0, <1>3, <1>10, <2>3, <2>4, OneGoes DEF Drops, Deletes, Edits
<1>11. CASE updateReportType(q)
  <2>1. PICK t \in Types : UpdateType(q, t)
    BY <1>11 DEF updateReportType
  <2>2. OfType(q, "updateType", t) \in ReqRecs
    BY <1>8 DEF Ops
  <2>3. QED
    BY <1>2, <1>10, <2>1, <2>2 DEF UpdateType
<1>12. CASE deleteReportType(q)
  <2>1. PICK t \in Types : DeleteType(q, t)
    BY <1>12 DEF deleteReportType
  <2>2. OfType(q, "deleteType", t) \in ReqRecs
    BY <1>8 DEF Ops
  <2>3. QED
    BY <1>2, <1>10, <2>1, <2>2 DEF DeleteType
<1>13. QED
  BY <1>4, <1>5, <1>6, <1>7, <1>9, <1>11, <1>12 DEF Ask

\* A process that ends forgets no request that may have written.
LEMMA DeathKnows ==
    ASSUME TableInv, ReqInv, Grows,
           req' = [p \in Requests |->
               IF req[p].pc \in Over \/ req[p].pc = "new" THEN req[p]
               ELSE Remembered(p, req[p], "cut")]
    PROVE  ReqInv' /\ Remembers
<1>1. ASSUME NEW p \in Requests
      PROVE  \/ req'[p] = req[p]
             \/ /\ req'[p] \in ReqRecs /\ req'[p].pc = "cut" /\ req'[p].tasks = {}
                /\ req'[p].report = req[p].report /\ req'[p].user = req[p].user
                /\ req'[p].op = req[p].op
  <2>1. req[p] \in ReqRecs /\ "cut" \in Over
    BY DEF ReqInv, Over
  <2>2. req'[p] = req[p] \/ req'[p] = Remembered(p, req[p], "cut")
    OBVIOUS
  <2>3. CASE req'[p] = Remembered(p, req[p], "cut")
    <3>1. /\ Remembered(p, req[p], "cut") \in ReqRecs
          /\ Remembered(p, req[p], "cut").pc = "cut"
          /\ Remembered(p, req[p], "cut").tasks = {}
          /\ Remembered(p, req[p], "cut").report = req[p].report
          /\ Remembered(p, req[p], "cut").user = req[p].user
          /\ Remembered(p, req[p], "cut").op = req[p].op
      BY <2>1, RememberedIs
    <3>2. QED
      BY <2>3, <3>1
  <2>4. QED
    BY <2>2, <2>3
<1>2. Remembers
  BY <1>1 DEF Remembers, Known
<1>3. req' \in [Requests -> ReqRecs]
  BY <1>1 DEF ReqInv
<1>4. ASSUME NEW p \in Requests PROVE ReqOne(p)'
  <2>1. CASE req'[p] = req[p]
    BY <1>2, <2>1, ReqOneStays
  <2>2. CASE req'[p].pc = "cut" /\ req'[p].tasks = {}
    BY <2>2 DEF ReqOne, SavesReport, Drops
  <2>3. QED
    BY <1>1, <2>1, <2>2
<1>5. QED
  BY <1>2, <1>3, <1>4 DEF ReqInv

\* Request q goes on with what it holds.
LEMMA OneGoesTo ==
    ASSUME TableInv, ReqInv, Grows, NEW q \in Requests, NEW pc \in Pcs \ {"saving"},
           GoesTo(q, pc), req[q].pc \notin Known, pc \in Drops => req[q].op \in Deletes
    PROVE  ReqInv' /\ Remembers
<1>1. /\ req' \in [Requests -> ReqRecs]
      /\ \A p \in Requests \ {q} : req'[p] = req[p]
      /\ req'[q].pc = pc /\ req'[q].op = req[q].op /\ req'[q].tasks = req[q].tasks
  BY GoesToIs DEF ReqInv
<1>2. req[q].tasks \in SUBSET Reports
  BY DEF ReqInv, ReqRecs
<1>3. ReqOne(q)'
  BY <1>1, <1>2 DEF ReqOne, SavesReport, ReqInv, Grows
<1>4. QED
  BY <1>1, <1>3, OneMoves

\* The later steps of a request.
LEMMA ServeKnows ==
    ASSUME TableInv, ReqInv, Grows, NEW q \in Requests, Serve(q)
    PROVE  ReqInv' /\ Remembers
<1>0. req[q] \in ReqRecs /\ ReqOne(q) /\ "ok" \in Over /\ "failed" \in Over
  BY DEF ReqInv, Over
<1>1. ASSUME Answers(q, req[q], "ok") PROVE ReqInv' /\ Remembers
  BY <1>0, <1>1, OneAnswers
<1>2. ASSUME Answers(q, req[q], "failed"), req[q].pc \notin Known PROVE ReqInv' /\ Remembers
  BY <1>0, <1>2, OneAnswers
<1>3. CASE InsertReport(q)
  <2> DEFINE x == [req[q] EXCEPT !.report = NextReport]
  <2>1. req[q].pc \notin Known
    BY <1>3 DEF InsertReport, Known
  <2>2. Answers(q, req[q], "failed") \/ Answers(q, x, "ok")
    BY <1>3 DEF InsertReport, Fails
  <2>3. x \in ReqRecs
    BY <1>0, Chosen DEF ReqRecs
  <2> HIDE DEF x
  <2>4. QED
    BY <1>0, <1>2, <2>1, <2>2, <2>3, OneAnswers
<1>4. CASE SaveReport(q)
  <2>1. req[q].pc \notin Known
    BY <1>4 DEF SaveReport, Known
  <2>2. \/ Answers(q, req[q], "failed") \/ Answers(q, req[q], "ok")
        \/ GoesTo(q, "parameters")
    BY <1>4 DEF SaveReport, Fails
  <2>3. "parameters" \in Pcs \ {"saving"} /\ "parameters" \notin Drops
    BY DEF Pcs, Drops
  <2>4. QED
    BY <1>1, <1>2, <2>1, <2>2, <2>3, OneGoesTo
<1>5. CASE RejectParameters(q)
  BY <1>1, <1>5, DeathKnows DEF RejectParameters
<1>6. CASE DropTask(q) \/ DropReports(q) \/ SaveType(q)
  <2>1. req[q].pc \notin Known
    BY <1>6 DEF DropTask, DropReports, SaveType, Known
  <2>2. \/ Answers(q, req[q], "ok") \/ GoesTo(q, "saveTasks")
        \/ req[q].pc \in Drops /\ (GoesTo(q, "dropReports") \/ GoesTo(q, "dropType"))
    BY <1>6 DEF DropTask, DropReports, SaveType, Drops
  <2>3. /\ {"saveTasks", "dropReports", "dropType"} \subseteq Pcs \ {"saving"}
        /\ "saveTasks" \notin Drops
    BY DEF Pcs, Drops
  <2>4. req[q].pc \in Drops => req[q].op \in Deletes
    BY <1>0 DEF ReqOne
  <2>5. QED
    BY <1>1, <2>1, <2>2, <2>3, <2>4, OneGoesTo
<1>7. CASE WriteParameters(q) \/ InsertType(q) \/ SaveTasks(q) \/ DropType(q)
  BY <1>1, <1>7 DEF WriteParameters, InsertType, SaveTasks, DropType
<1>8. QED
  BY <1>3, <1>4, <1>5, <1>6, <1>7 DEF Serve

LEMMA RequestsKept ==
    ASSUME IInv, [Next]_vars
    PROVE  ReqInv' /\ Remembers
<1>0. TableInv /\ RowInv /\ ReqInv /\ Grows
  BY TablesKept DEF IInv
<1>1. CASE UNCHANGED req
  <2>1. Remembers
    BY <1>0, <1>1 DEF Remembers
  <2>2. QED
    BY <1>0, <1>1, <2>1, ReqOneStays DEF ReqInv
<1>2. ASSUME NEW q \in Requests, Ask(q) \/ Serve(q) PROVE ReqInv' /\ Remembers
  BY <1>0, <1>2, AskKnows, ServeKnows
<1>3. CASE \E r \in Reports : PollReads(r) \/ PollRegisters(r)
  BY <1>1, <1>3 DEF PollReads, PollRegisters
<1>4. CASE \E e \in Slots : Execute(e) \/ \E r \in Reports : TickFires(e, r)
  BY <1>1, <1>4 DEF Execute, RunQuery, WriteFile, Mail, Ends, ExecGoesTo, TickFires
<1>5. CASE UNCHANGED vars
  BY <1>1, <1>5 DEF vars
<1>6. QED
  BY <1>2, <1>3, <1>4, <1>5 DEF Next
-----------------------------------------------------------------------------
(* Queries *)

\* A row keeps its query, loses it, or gets one that is known.
LEMMA RowsKept ==
    ASSUME IInv, [Next]_vars
    PROVE  RowInv'
<1>0. /\ TableInv /\ RowInv /\ ReqInv /\ Remembers
      /\ report \in [Reports -> Definitions] /\ TableInv'
      /\ \A r \in Reports : report[r].query # NoQuery => report[r].query \in Requests
  BY RequestsKept, TablesKept DEF IInv, TableInv, Definitions, Queries
<1>1. ASSUME NEW r \in Reports,
             report'[r].query = report[r].query \/ report'[r].query = NoQuery
      PROVE  (report[r].query # NoQuery => Wrote(report[r].query, r))'
  <2>1. CASE report'[r].query # NoQuery
    <3>1. PICK p \in Requests : p = report[r].query /\ p = report'[r].query
      BY <1>0, <1>1, <2>1
    <3>2. Wrote(p, r)
      BY <1>0, <1>1, <2>1, <3>1 DEF RowInv
    <3>3. Wrote(p, r)'
      BY <1>0, <3>2, WroteStays
    <3>4. QED
      BY <3>1, <3>3 DEF Wrote
  <2>2. QED
    BY <2>1
<1>2. ASSUME \A r \in Reports :
                report'[r].query = report[r].query \/ report'[r].query = NoQuery
      PROVE  RowInv'
  BY <1>1, <1>2 DEF RowInv
<1>3. ASSUME NEW q \in Requests, Serve(q) PROVE RowInv'
  <2>1. req[q] \in ReqRecs /\ req[q].report \in Reports
    BY <1>0 DEF ReqInv, ReqRecs
  <2>2. CASE InsertReport(q)
    BY <1>0, <1>2, <2>2 DEF InsertReport, Fails, tables
  <2>3. CASE SaveReport(q) /\ ~UNCHANGED report
    <3>0. PICK r \in Reports, s \in Definitions \cup {None} : r = req[q].report /\ s = req[q].seen
      BY <2>1 DEF ReqRecs
    <3>1. /\ report' = [report EXCEPT ![r] = Written(q)] /\ SavesReport(q)
          /\ GoesTo(q, "parameters") \/ Answers(q, req[q], "ok")
      BY <2>3, <3>0 DEF SaveReport, Fails, tables, SavesReport, Edits
    <3>2. /\ report[r].row # "new" /\ req[q].user = report[r].owner
          /\ s.query # NoQuery => s.query \in Requests /\ Wrote(s.query, r)
      BY <1>0, <3>0, <3>1 DEF ReqInv, ReqOne, SaverOK, Definitions, Queries
    <3>3. report'[r].query = q \/ report'[r].query = s.query
      BY <1>0, <3>0, <3>1 DEF Written
    <3>4. \A u \in Reports \ {r} : report'[u] = report[u]
      BY <1>0, <3>1
    <3>5. (report[r].query # NoQuery => Wrote(report[r].query, r))'
      <4>1. CASE report'[r].query = q
        <5>1. req'[q].pc \in {"ok", "parameters"} /\ req'[q].report = r
              /\ req'[q].user = req[q].user
          BY <1>0, <2>1, <3>0, <3>1, GoesToIs, AnswersIs DEF ReqInv, Pcs, Over
        <5>2. report'[r].row # "new" /\ report'[r].owner = report[r].owner
          BY <1>0, <3>2 DEF Remembers, Grows
        <5>3. QED
          BY <3>2, <4>1, <5>1, <5>2 DEF Wrote
      <4>2. CASE report'[r].query = s.query /\ s.query # NoQuery
        <5>1. Wrote(s.query, r)'
          BY <1>0, <3>2, <4>2, WroteStays
        <5>2. QED
          BY <4>2, <5>1
      <4>3. QED
        BY <3>3, <4>1, <4>2
    <3>6. QED
      BY <1>1, <3>4, <3>5 DEF RowInv
  <2>4. CASE WriteParameters(q)
    <3>1. report' = [report EXCEPT ![req[q].report].params = @ \cup {q}]
      BY <2>4 DEF WriteParameters
    <3>2. \A r \in Reports : report'[r].query = report[r].query
      BY <1>0, <2>1, <3>1 DEF Definitions
    <3>3. QED
      BY <1>2, <3>2
  <2>5. CASE DropReports(q) \/ DropType(q)
    <3>1. PICK rs : report' = Erased(rs)
      BY <2>5 DEF DropReports, DropType
    <3>2. QED
      BY <1>0, <1>2, <3>1, ErasedIs
  <2>6. CASE SaveType(q)
    <3>1. \A r \in Reports : report'[r].query = report[r].query
      BY <1>0, <2>6 DEF SaveType, Relinked, Definitions
    <3>2. QED
      BY <1>2, <3>1
  <2>7. CASE UNCHANGED report
    BY <1>2, <2>7
  <2>8. QED
    BY <1>3, <2>2, <2>3, <2>4, <2>5, <2>6, <2>7 DEF Serve, RejectParameters, DropTask,
       InsertType, SaveTasks, tables
<1>4. CASE UNCHANGED report
  BY <1>2, <1>4
<1>5. ASSUME NEW q \in Requests, Ask(q) PROVE UNCHANGED report
  BY <1>5 DEF Ask, saveReport, updateReport, saveQuery, deleteReport, scheduleTask,
     createReportType, updateReportType, deleteReportType, CreateReport, EditReport,
     DeleteReport, Schedule, CreateType, UpdateType, DeleteType, tables
<1>6. QED
  BY <1>3, <1>4, <1>5 DEF Next, PollReads, PollRegisters, Execute, RunQuery, WriteFile, Mail,
     Ends, ExecGoesTo, TickFires, vars, tables
-----------------------------------------------------------------------------
(* Copies *)

LEMMA CopyStays ==
    ASSUME Remembers, NEW s \in Snapshots, SnapOK(s) PROVE SnapOK(s)'
BY WroteStays DEF SnapOK, Snapshots, Queries

\* A load reads a row with the query it has.
LEMMA SnapshotIs ==
    ASSUME TableInv, RowInv, NEW r \in Reports
    PROVE  Snapshot(r) \in Snapshots /\ Snapshot(r).report = r /\ SnapOK(Snapshot(r))
<1>1. report[r] \in Definitions
  BY DEF TableInv
<1>2. QED
  BY <1>1 DEF RowInv, Snapshot, Snapshots, Definitions, SnapOK

LEMMA ResultIs ==
    ASSUME NEW s \in Snapshots
    PROVE  /\ ResultOf(s) \in Results
           /\ ResultOf(s).report = s.report /\ ResultOf(s).query = s.query
BY DEF ResultOf, Results, Snapshots

LEMMA JobStays == ASSUME Remembers, JobInv, UNCHANGED job PROVE JobInv'
<1>1. ASSUME NEW r \in Reports, job[r] # None
      PROVE  (job[r].report = r /\ SnapOK(job[r]))'
  <2>1. PICK s \in Snapshots : s = job[r] /\ s.report = r /\ SnapOK(s)
    BY <1>1 DEF JobInv
  <2>2. SnapOK(s)'
    BY <2>1, CopyStays
  <2>3. QED
    BY <2>1, <2>2
<1>2. QED
  BY <1>1 DEF JobInv

LEMMA PollStays == ASSUME Remembers, PollInv, UNCHANGED poll PROVE PollInv'
<1>1. ASSUME NEW r \in Reports, poll[r] # None
      PROVE  (poll[r].snap.report = r /\ SnapOK(poll[r].snap))'
  <2>1. PICK s \in Snapshots : s = poll[r].snap /\ s.report = r /\ SnapOK(s)
    BY <1>1 DEF PollInv, Found
  <2>2. SnapOK(s)'
    BY <2>1, CopyStays
  <2>3. QED
    BY <2>1, <2>2
<1>2. QED
  BY <1>1 DEF PollInv

LEMMA ExecStays == ASSUME Remembers, ExecInv, UNCHANGED exec PROVE ExecInv'
<1>1. ASSUME NEW e \in Slots, exec[e] # None
      PROVE  (SnapOK(exec[e].snap) /\ (exec[e].pc # "querying" => exec[e].snap.query # NoQuery))'
  <2>1. PICK s \in Snapshots : s = exec[e].snap /\ SnapOK(s)
    BY <1>1 DEF ExecInv, Execs
  <2>2. SnapOK(s)'
    BY <2>1, CopyStays
  <2>3. QED
    BY <1>1, <2>1, <2>2 DEF ExecInv
<1>2. QED
  BY <1>1 DEF ExecInv

LEMMA InboxStays == ASSUME Remembers, InboxInv, UNCHANGED inbox PROVE InboxInv'
<1>1. ASSUME NEW r \in Reports, inbox[r] # None
      PROVE  (SnapOK(inbox[r].snap))'
  <2>1. PICK s \in Snapshots : s = inbox[r].snap /\ SnapOK(s)
    BY <1>1 DEF InboxInv
  <2>2. SnapOK(s)'
    BY <2>1, CopyStays
  <2>3. QED
    BY <2>1, <2>2
<1>2. QED
  BY <1>1 DEF InboxInv

\* The report table is not written by a load or an execution, so what they copy is known
\* after the step too.
LEMMA LoadKeeps ==
    ASSUME IInv, Remembers, NEW r \in Reports, PollReads(r) \/ PollRegisters(r) PROVE SnapInv'
<1>0. JobInv /\ PollInv /\ ExecInv /\ MediaInv /\ InboxInv /\ TableInv /\ RowInv
  BY DEF IInv, SnapInv
<1>1. UNCHANGED <<exec, media, inbox>>
  BY DEF PollReads, PollRegisters, outs
<1>2. ExecInv' /\ MediaInv' /\ InboxInv'
  BY <1>0, <1>1, ExecStays, InboxStays DEF MediaInv
<1>3. CASE PollReads(r)
  <2>1. PICK s \in Snapshots : s = Snapshot(r) /\ s.report = r /\ SnapOK(s)
    BY <1>0, SnapshotIs
  <2>0. (task[r] = "DONE") \in BOOLEAN
    OBVIOUS
  <2> DEFINE f == [done |-> task[r] = "DONE", snap |-> s]
  <2>2. f \in Found /\ f.snap = s
    BY <2>0 DEF Found
  <2>3. poll' = [poll EXCEPT ![r] = f] /\ UNCHANGED job
    BY <1>3, <2>1 DEF PollReads
  <2> HIDE DEF f
  <2>4. SnapOK(s)'
    BY <2>1, CopyStays
  <2>5. ASSUME NEW u \in Reports, u # r, poll[u] # None
        PROVE  (poll[u].snap.report = u /\ SnapOK(poll[u].snap))'
    <3>1. PICK x \in Snapshots : x = poll[u].snap /\ x.report = u /\ SnapOK(x)
      BY <1>0, <2>5 DEF PollInv, Found
    <3>2. SnapOK(x)' /\ poll'[u] = poll[u]
      BY <1>0, <2>3, <2>5, <3>1, CopyStays DEF PollInv
    <3>3. QED
      BY <3>1, <3>2
  <2>6. poll' \in [Reports -> Found \cup {None}] /\ poll'[r] = f
        /\ \A u \in Reports \ {r} : poll'[u] = poll[u]
    BY <1>0, <2>2, <2>3 DEF PollInv
  <2>7. PollInv'
    BY <2>1, <2>2, <2>4, <2>5, <2>6 DEF PollInv
  <2>8. QED
    BY <1>0, <1>2, <2>3, <2>7, JobStays DEF SnapInv
<1>4. CASE PollRegisters(r)
  <2>1. PICK s \in Snapshots : s = poll[r].snap /\ s.report = r /\ SnapOK(s)
    BY <1>0, <1>4 DEF PollRegisters, PollInv, Found
  <2>2. /\ job' \in [Reports -> Snapshots \cup {None}]
        /\ job'[r] \in {s, job[r]} /\ \A u \in Reports \ {r} : job'[u] = job[u]
    BY <1>0, <1>4, <2>1 DEF PollRegisters, JobInv
  <2>3. SnapOK(s)'
    BY <2>1, CopyStays
  <2>4. ASSUME NEW u \in Reports, job'[u] # None
        PROVE  (job[u].report = u /\ SnapOK(job[u]))'
    <3>1. CASE job'[u] = job[u]
      <4>1. PICK x \in Snapshots : x = job[u] /\ x.report = u /\ SnapOK(x)
        BY <1>0, <2>4, <3>1 DEF JobInv
      <4>2. SnapOK(x)'
        BY <4>1, CopyStays
      <4>3. QED
        BY <3>1, <4>1, <4>2
    <3>2. CASE u = r /\ job'[r] = s
      BY <2>1, <2>3, <3>2
    <3>3. QED
      BY <2>2, <3>1, <3>2
  <2>5. poll' = [poll EXCEPT ![r] = None]
    BY <1>4 DEF PollRegisters
  <2>6. ASSUME NEW u \in Reports, poll'[u] # None
        PROVE  (poll[u].snap.report = u /\ SnapOK(poll[u].snap))'
    <3>1. u # r /\ poll'[u] = poll[u]
      BY <1>0, <2>5, <2>6 DEF PollInv
    <3>2. PICK x \in Snapshots : x = poll[u].snap /\ x.report = u /\ SnapOK(x)
      BY <1>0, <2>6, <3>1 DEF PollInv, Found
    <3>3. SnapOK(x)'
      BY <3>2, CopyStays
    <3>4. QED
      BY <3>1, <3>2, <3>3
  <2>7. poll' \in [Reports -> Found \cup {None}]
    BY <1>0, <2>5 DEF PollInv
  <2>8. QED
    BY <1>2, <2>2, <2>4, <2>6, <2>7 DEF SnapInv, JobInv, PollInv
<1>5. QED
  BY <1>3, <1>4

\* One execution moves: it has a query from its second step on, and mails what it exported.
LEMMA ExecMoves ==
    ASSUME ExecInv, Remembers, NEW e \in Slots, NEW x \in Execs, exec' = [exec EXCEPT ![e] = x],
           x # None => /\ SnapOK(x.snap)
                       /\ x.pc # "querying" => x.snap.query # NoQuery
    PROVE  ExecInv'
<1>1. exec' \in [Slots -> Execs] /\ exec'[e] = x /\ \A c \in Slots \ {e} : exec'[c] = exec[c]
  BY DEF ExecInv
<1>2. ASSUME NEW c \in Slots, exec'[c] # None
      PROVE  (SnapOK(exec[c].snap) /\ (exec[c].pc # "querying" => exec[c].snap.query # NoQuery))'
  <2>1. PICK y \in Execs : /\ y = exec'[c] /\ SnapOK(y.snap)
                           /\ y.pc # "querying" => y.snap.query # NoQuery
    BY <1>1, <1>2 DEF ExecInv
  <2>2. y.snap \in Snapshots
    BY <1>2, <2>1 DEF Execs
  <2>3. SnapOK(y.snap)'
    BY <2>1, <2>2, CopyStays
  <2>4. QED
    BY <2>1, <2>3
<1>3. QED
  BY <1>1, <1>2 DEF ExecInv

\* A tick copies the snapshot of its job.
LEMMA TickKeeps ==
    ASSUME IInv, Remembers, NEW e \in Slots, NEW r \in Reports, TickFires(e, r) PROVE SnapInv'
<1>0. JobInv /\ PollInv /\ ExecInv /\ MediaInv /\ InboxInv
  BY DEF IInv, SnapInv
<1>1. PICK s \in Snapshots : s = job[r] /\ SnapOK(s)
  BY <1>0 DEF TickFires, JobInv
<1> DEFINE x == [pc |-> "querying", snap |-> s]
<1>2. x \in Execs /\ x.snap = s /\ x.pc = "querying"
  BY DEF Execs
<1>3. exec' = [exec EXCEPT ![e] = x] /\ UNCHANGED <<job, poll, media, inbox>>
  BY <1>1 DEF TickFires, outs
<1> HIDE DEF x
<1>4. ExecInv'
  BY <1>0, <1>1, <1>2, <1>3, ExecMoves
<1>5. QED
  BY <1>0, <1>3, <1>4, JobStays, PollStays, InboxStays DEF SnapInv, MediaInv

LEMMA ExecuteKeeps ==
    ASSUME IInv, Remembers, NEW e \in Slots, Execute(e) PROVE SnapInv'
<1>0. JobInv /\ PollInv /\ ExecInv /\ MediaInv /\ InboxInv
  BY DEF IInv, SnapInv
<1>1. UNCHANGED <<job, poll>>
  BY DEF Execute, RunQuery, WriteFile, Mail, Ends, ExecGoesTo
<1>2. PICK x \in Execs : x = exec[e] /\ x # None /\ SnapOK(x.snap)
                        /\ (x.pc # "querying" => x.snap.query # NoQuery)
  BY <1>0 DEF Execute, RunQuery, WriteFile, Mail, ExecInv
<1>3. PICK s \in Snapshots : s = x.snap
  BY <1>2 DEF Execs
<1>4. ASSUME Ends(e) PROVE ExecInv'
  <2>1. exec' = [exec EXCEPT ![e] = None] /\ None \in Execs
    BY <1>4 DEF Ends, Execs
  <2>2. QED
    BY <1>0, <2>1, ExecMoves
<1>5. ASSUME NEW pc \in {"writing", "mailing"}, ExecGoesTo(e, pc), s.query # NoQuery
      PROVE  ExecInv'
  <2> DEFINE y == [x EXCEPT !.pc = pc]
  <2>1. y \in Execs /\ y.snap = x.snap
    BY <1>2, <1>5 DEF Execs
  <2>2. exec' = [exec EXCEPT ![e] = y]
    BY <1>0, <1>2, <1>5 DEF ExecGoesTo, ExecInv
  <2> HIDE DEF y
  <2>3. QED
    BY <1>0, <1>2, <1>3, <1>5, <2>1, <2>2, ExecMoves
<1>6. CASE RunQuery(e)
  <2>1. ExecInv'
    BY <1>2, <1>3, <1>4, <1>5, <1>6 DEF RunQuery
  <2>2. QED
    BY <1>0, <1>1, <1>6, <2>1, JobStays, PollStays, InboxStays DEF RunQuery, outs, SnapInv,
       MediaInv
<1>7. CASE WriteFile(e)
  <2>1. ExecInv'
    BY <1>2, <1>3, <1>4, <1>5, <1>7 DEF WriteFile
  <2>2. FileOf[s.name] \in {FileOf[n] : n \in Names} /\ ResultOf(s) \in Results
    BY <1>3, ResultIs DEF Snapshots
  <2>3. MediaInv'
    BY <1>0, <1>2, <1>3, <1>7, <2>2 DEF WriteFile, MediaInv
  <2>4. QED
    BY <1>0, <1>1, <1>7, <2>1, <2>3, JobStays, PollStays, InboxStays DEF WriteFile, SnapInv
<1>8. CASE Mail(e)
  <2>1. ExecInv' /\ media' = media
    BY <1>4, <1>8 DEF Mail
  <2>2. CASE UNCHANGED inbox
    BY <1>0, <1>1, <2>1, <2>2, JobStays, PollStays, InboxStays DEF SnapInv, MediaInv
  <2>3. CASE ~UNCHANGED inbox
    <3> DEFINE m == [snap |-> s, buffer |-> ResultOf(s)]
    <3>1. PICK u \in Reports : u = s.report
      BY DEF Snapshots
    <3>2. /\ m \in [snap : Snapshots, buffer : Results]
          /\ m.snap = s /\ m.buffer = ResultOf(s)
      BY ResultIs
    <3>3. inbox' = [inbox EXCEPT ![u] = m]
      BY <1>2, <1>3, <1>8, <2>3, <3>1 DEF Mail, Attached
    <3> HIDE DEF m
    <3>4. /\ inbox' \in [Reports -> [snap : Snapshots, buffer : Results] \cup {None}]
          /\ inbox'[u] = m /\ \A r \in Reports \ {u} : inbox'[r] = inbox[r]
      BY <1>0, <3>2, <3>3 DEF InboxInv
    <3>5. SnapOK(s)' /\ s.query # NoQuery
      BY <1>2, <1>3, <1>8, CopyStays DEF Mail
    <3>6. ASSUME NEW r \in Reports, inbox'[r] # None
          PROVE  (/\ inbox[r].snap.report = r /\ SnapOK(inbox[r].snap)
                  /\ inbox[r].snap.query # NoQuery
                  /\ inbox[r].buffer = ResultOf(inbox[r].snap))'
      <4>1. CASE r = u
        BY <3>1, <3>2, <3>4, <3>5, <4>1
      <4>2. CASE r # u
        <5>1. PICK y \in Snapshots : /\ y = inbox'[r].snap /\ y = inbox[r].snap
                                      /\ y.report = r /\ SnapOK(y) /\ y.query # NoQuery
                                      /\ inbox'[r].buffer = ResultOf(y)
          BY <1>0, <3>4, <3>6, <4>2 DEF InboxInv
        <5>2. SnapOK(y)'
          BY <5>1, CopyStays
        <5>3. QED
          BY <5>1, <5>2 DEF ResultOf
      <4>3. QED
        BY <4>1, <4>2
    <3>7. InboxInv'
      BY <3>4, <3>6 DEF InboxInv
    <3>8. QED
      BY <1>0, <1>1, <2>1, <3>7, JobStays, PollStays DEF SnapInv, MediaInv
  <2>4. QED
    BY <2>2, <2>3
<1>9. QED
  BY <1>6, <1>7, <1>8 DEF Execute

\* A process that ends takes the jobs, the loads and the executions with it, not the mails.
LEMMA SnapsKept == ASSUME IInv, [Next]_vars PROVE SnapInv'
<1>0. JobInv /\ PollInv /\ ExecInv /\ MediaInv /\ InboxInv /\ Remembers
  BY RequestsKept DEF IInv, SnapInv
<1>1. CASE UNCHANGED memory /\ UNCHANGED outs
  BY <1>0, <1>1, JobStays, PollStays, ExecStays, InboxStays DEF memory, outs, MediaInv, SnapInv
<1>2. ASSUME NEW q \in Requests, Ask(q) \/ Serve(q) PROVE SnapInv'
  <2>1. CASE UNCHANGED memory /\ UNCHANGED outs
    BY <1>1, <2>1
  <2>2. CASE RejectParameters(q) /\ ~UNCHANGED memory
    <3>1. /\ job' = [r \in Reports |-> None] /\ poll' = [r \in Reports |-> None]
          /\ exec' = [e \in Slots |-> None] /\ UNCHANGED <<media, inbox>>
      BY <2>2 DEF RejectParameters, outs
    <3>2. JobInv' /\ PollInv' /\ ExecInv'
      BY <3>1 DEF JobInv, PollInv, ExecInv, Execs
    <3>3. QED
      BY <1>0, <3>1, <3>2, InboxStays DEF SnapInv, MediaInv
  <2>3. QED
    BY <1>2, <2>1, <2>2 DEF Ask, Serve, saveReport, updateReport, saveQuery, deleteReport,
       scheduleTask, createReportType, updateReportType, deleteReportType, CreateReport,
       EditReport, DeleteReport, Schedule, CreateType, UpdateType, DeleteType, InsertReport,
       SaveReport, WriteParameters, RejectParameters, DropTask, DropReports, InsertType,
       SaveType, SaveTasks, DropType
<1>3. CASE UNCHANGED vars
  BY <1>1, <1>3 DEF vars
<1>4. QED
  BY <1>0, <1>2, <1>3, LoadKeeps, TickKeeps, ExecuteKeeps DEF Next
-----------------------------------------------------------------------------
(* The invariant *)

\* The database begins with whole rows, without queries, and nothing has been asked.
LEMMA InitIInv == Init => IInv
<1> SUFFICES ASSUME Init PROVE IInv
  OBVIOUS
<1>1. report \in [Reports -> Definitions] /\ rtype \in [Types -> Row]
  <2>1. PICK o \in Users : o = CHOOSE u \in Users : TRUE
    BY Chosen
  <2>2. \A r \in Reports :
          report[r] \in [row : {"new", "live"}, owner : {o}, name : Names,
                         type : LiveTypes \cup {NoType}, query : {NoQuery}, params : {{}}]
    BY <2>1 DEF Init
  <2>3. \A r \in Reports : report[r] \in Definitions
    BY <2>2 DEF Definitions, Row, Queries, LiveTypes
  <2>4. QED
    BY <2>3 DEF Init, Row
<1>2. \A r \in Reports : report[r].params = {} /\ report[r].query = NoQuery
                         /\ report[r].type \in LiveTypes \cup {NoType}
  BY DEF Init
<1>3. task \in [Reports -> Statuses] /\ \A r \in Reports \ Live : task[r] = "none"
  BY DEF Init, Statuses, Live
<1>4. TableInv
  BY <1>1, <1>2, <1>3 DEF Init, TableInv, Live
<1>5. ReqInv
  <2>1. req = [q \in Requests |-> Unasked(q)]
    BY DEF Init
  <2>2. \A q \in Requests : req[q] \in ReqRecs /\ req[q].pc = "new" /\ req[q].tasks = {}
    BY <2>1, UnaskedIs
  <2>3. \A q \in Requests : ReqOne(q)
    BY <2>2 DEF ReqOne, SavesReport, Drops
  <2>4. QED
    BY <2>1, <2>2, <2>3 DEF ReqInv
<1>6. SnapInv
  BY DEF Init, SnapInv, JobInv, PollInv, ExecInv, MediaInv, InboxInv, Execs
<1>7. QED
  BY <1>2, <1>4, <1>5, <1>6 DEF IInv, RowInv

LEMMA NextIInv == IInv /\ [Next]_vars => IInv'
BY TablesKept, RowsKept, RequestsKept, SnapsKept DEF IInv

\* Every copy of a query is of the report of a request of the report's owner: the row, what
\* a request holds to write back, the job, the load, the execution and the mail.
THEOREM ReportsInductive == Spec => []IInv
BY InitIInv, NextIInv, PTL DEF Spec

\* The tables are whole: a live report has a type that exists or none, names are unique,
\* and neither a task that may run nor parameters are left of a report that is gone.
THEOREM ReportsTypeCorrect == Spec => []TypeOK
<1>1. IInv => TypeOK
  BY DEF IInv, TypeOK, TableInv, ReqInv, SnapInv, JobInv, PollInv, ExecInv, MediaInv, InboxInv
<1>2. QED
  BY <1>1, ReportsInductive, PTL

\* What is mailed as the query of a report was written to that report by its owner,
\* through any stale save, stale job, deletion, reinsertion and end of the process.
THEOREM MailedQueriesAreOwners == Spec => []MailedQueryIsOwners
<1>1. IInv => MailedQueryIsOwners
  <2> SUFFICES ASSUME IInv, NEW r \in Reports, inbox[r] # None
               PROVE  /\ inbox[r].buffer.query \in Requests
                      /\ inbox[r].buffer.report = r
                      /\ req[inbox[r].buffer.query].report = r
                      /\ req[inbox[r].buffer.query].user = report[r].owner
    BY DEF MailedQueryIsOwners
  <2>1. PICK s \in Snapshots : /\ s.report = r /\ SnapOK(s) /\ s.query # NoQuery
                               /\ inbox[r].buffer = ResultOf(s)
    BY DEF IInv, SnapInv, InboxInv
  <2>2. s.query \in Requests /\ Wrote(s.query, r)
    BY <2>1 DEF SnapOK, Snapshots, Queries
  <2>3. QED
    BY <2>1, <2>2, ResultIs DEF Wrote
<1>2. QED
  BY <1>1, ReportsInductive, PTL
-----------------------------------------------------------------------------
(* Saves *)

\* A request that is asked was not asked before, and writes no report.
LEMMA AskMoves ==
    ASSUME ReqInv, NEW q \in Requests, Ask(q)
    PROVE  /\ req[q].pc = "new" /\ req[q].op = "none"
           /\ \A p \in Requests \ {q} : req'[p] = req[p]
           /\ UNCHANGED report
<1>1. req[q] = Unasked(q)
  BY DEF Ask, Asks, saveReport, updateReport, saveQuery, deleteReport, scheduleTask,
     createReportType, updateReportType, deleteReportType, CreateReport, EditReport,
     DeleteReport, Schedule, CreateType, UpdateType, DeleteType
<1>2. \E rec : Moves(q, rec)
  BY DEF Ask, saveReport, updateReport, saveQuery, deleteReport, scheduleTask,
     createReportType, updateReportType, deleteReportType, CreateReport, EditReport,
     DeleteReport, Schedule, CreateType, UpdateType, DeleteType, Answers
<1>3. UNCHANGED report
  BY DEF Ask, saveReport, updateReport, saveQuery, deleteReport, scheduleTask,
     createReportType, updateReportType, deleteReportType, CreateReport, EditReport,
     DeleteReport, Schedule, CreateType, UpdateType, DeleteType, tables
<1>4. QED
  BY <1>1, <1>2, <1>3, UnaskedIs DEF Moves, ReqInv

\* A later step of a request: it answers, goes on, or the process ends with all of them.
Dies == req' = [p \in Requests |->
           IF req[p].pc \in Over \/ req[p].pc = "new" THEN req[p]
           ELSE Remembered(p, req[p], "cut")]

LEMMA ServeMoves ==
    ASSUME ReqInv, NEW q \in Requests, Serve(q)
    PROVE  \/ \A p \in Requests \ {q} : req'[p] = req[p]
           \/ RejectParameters(q) /\ Dies /\ UNCHANGED tables
<1>1. ASSUME \/ \E pc : GoesTo(q, pc)
             \/ \E rec, pc : Answers(q, rec, pc)
      PROVE  \A p \in Requests \ {q} : req'[p] = req[p]
  BY <1>1 DEF Moves, ReqInv, GoesTo, Answers
<1>2. CASE RejectParameters(q)
  BY <1>1, <1>2 DEF RejectParameters, Dies
<1>3. CASE InsertReport(q) \/ SaveReport(q) \/ WriteParameters(q) \/ DropTask(q)
  BY <1>1, <1>3 DEF InsertReport, SaveReport, WriteParameters, DropTask, Fails
<1>4. CASE DropReports(q) \/ InsertType(q) \/ SaveType(q) \/ SaveTasks(q) \/ DropType(q)
  BY <1>1, <1>4 DEF DropReports, InsertType, SaveType, SaveTasks, DropType
<1>5. QED
  BY <1>2, <1>3, <1>4 DEF Serve

\* What a save of one field writes, when the row is as it was read.
LEMMA FreshWritten ==
    ASSUME NEW q \in Requests, req[q].report \in Reports,
           report \in [Reports -> Definitions],
           req[q].seen = [report[req[q].report] EXCEPT !.type = NoType, !.params = {}],
           NEW f \in {"name", "query", "type"} \ {req[q].field}
    PROVE  Written(q)[f] = report[req[q].report][f]
<1>1. report[req[q].report] \in Definitions
  OBVIOUS
<1>2. /\ req[q].seen.name = report[req[q].report].name
      /\ req[q].seen.query = report[req[q].report].query
  BY <1>1 DEF Definitions
<1>3. CASE f = "name"
  BY <1>2, <1>3 DEF Written
<1>4. CASE f = "query"
  BY <1>2, <1>4 DEF Written
<1>5. CASE f = "type"
  BY <1>5 DEF Written
<1>6. QED
  BY <1>3, <1>4, <1>5

\* A save that finds the rows as it read them changes the field of its payload and no other,
\* and the save of a type leaves every report with the type it has.
LEMMA SavesAreFresh ==
    ASSUME IInv, [Next]_vars, NEW q \in Requests, req[q].pc = "saving", req'[q].pc # "saving"
    PROVE  LET r == req[q].report IN
           /\ /\ req[q].op # "updateType"
              /\ req[q].seen = [report[r] EXCEPT !.type = NoType, !.params = {}]
              => \A f \in {"name", "query", "type"} \ {req[q].field} : report'[r][f] = report[r][f]
           /\ /\ req[q].op = "updateType"
              /\ req[q].reports = ReportsOf(req[q].rtype)
              => \A s \in Reports : report'[s].type = report[s].type
<1>0. /\ ReqInv /\ report \in [Reports -> Definitions]
      /\ req[q].report \in Reports
  BY DEF IInv, TableInv, ReqInv, ReqRecs
<1>1. CASE UNCHANGED report
  BY <1>1
<1>2. CASE SaveReport(q) /\ ~UNCHANGED report
  <2>1. /\ req[q].op # "updateType"
        /\ report' = [report EXCEPT ![req[q].report] = Written(q)]
    BY <1>2 DEF SaveReport, Fails, tables
  <2>2. report'[req[q].report] = Written(q)
    BY <1>0, <2>1
  <2>3. QED
    BY <1>0, <2>1, <2>2, FreshWritten
<1>3. CASE SaveType(q)
  <2>1. req[q].op = "updateType" /\ report' = Relinked(q)
    BY <1>3 DEF SaveType
  <2>2. ASSUME req[q].reports = ReportsOf(req[q].rtype), NEW s \in Reports
        PROVE  report'[s].type = report[s].type
    <3>1. report[s] \in Definitions
      BY <1>0
    <3>2. s \in req[q].reports \cap Live <=> s \in ReportsOf(req[q].rtype)
      BY <2>2 DEF ReportsOf
    <3>3. s \in ReportsOf(req[q].rtype) => report[s].type = req[q].rtype
      BY DEF ReportsOf
    <3>4. QED
      BY <2>1, <3>1, <3>2, <3>3 DEF Relinked, Definitions
  <2>3. QED
    BY <2>1, <2>2
<1>4. ASSUME NEW p \in Requests, Ask(p) PROVE UNCHANGED report
  BY <1>0, <1>4, AskMoves
<1>5. ASSUME NEW p \in Requests, Serve(p), ~UNCHANGED report
      PROVE  SaveReport(q) \/ SaveType(q)
  <2>1. p = q
    BY <1>0, <1>5, ServeMoves DEF tables
  <2>2. QED
    BY <1>5, <2>1 DEF Serve, InsertReport, WriteParameters, RejectParameters, DropTask,
       DropReports, InsertType, SaveTasks, DropType, tables
<1>6. QED
  BY <1>1, <1>2, <1>3, <1>4, <1>5 DEF Next, PollReads, PollRegisters, Execute, RunQuery,
     WriteFile, Mail, Ends, ExecGoesTo, TickFires, vars, tables

\* Whatever runs beside it, a save of rows that nobody has changed since they were read
\* changes no more than its payload asks for.
THEOREM FreshSavesCorrect == Spec => FreshSavesChangeNothingElse
<1>1. IInv /\ [Next]_vars =>
        [\A q \in Requests : req[q].pc = "saving" /\ req'[q].pc # "saving" =>
         LET r == req[q].report IN
         /\ /\ req[q].op # "updateType"
            /\ req[q].seen = [report[r] EXCEPT !.type = NoType, !.params = {}]
            => \A f \in {"name", "query", "type"} \ {req[q].field} : report'[r][f] = report[r][f]
         /\ /\ req[q].op = "updateType"
            /\ req[q].reports = ReportsOf(req[q].rtype)
            => \A s \in Reports : report'[s].type = report[s].type]_vars
  BY SavesAreFresh
<1>2. QED
  BY <1>1, ReportsInductive, PTL DEF Spec, FreshSavesChangeNothingElse
-----------------------------------------------------------------------------
(* Parameters *)

\* What the death of the process does to one request.
LEMMA DiesIs ==
    ASSUME ReqInv, Dies, NEW p \in Requests
    PROVE  /\ req'[p].op = req[p].op
           /\ req'[p] = req[p] \/ req'[p].pc = "cut"
<1>1. req[p] \in ReqRecs /\ "cut" \in Over
  BY DEF ReqInv, Over
<1>2. req'[p] = req[p] \/ req'[p] = Remembered(p, req[p], "cut")
  BY DEF Dies
<1>3. Remembered(p, req[p], "cut").op = req[p].op /\ Remembered(p, req[p], "cut").pc = "cut"
  BY <1>1, RememberedIs
<1>4. QED
  BY <1>2, <1>3

\* A request that goes on is of the same kind after its step, unless it fails; only
\* creations and edits can.
LEMMA ServeKeepsOp ==
    ASSUME ReqInv, NEW q \in Requests, Serve(q), ~Dies
    PROVE  \/ req'[q].op = req[q].op /\ req'[q].pc # "failed"
           \/ req[q].op \notin Deletes /\ req'[q].op = "none" /\ req[q].pc \notin Known
<1>0. req[q] \in ReqRecs /\ {"ok", "failed"} \subseteq Over
  BY DEF ReqInv, Over
<1>1. ASSUME Answers(q, req[q], "ok") PROVE req'[q].op = req[q].op /\ req'[q].pc = "ok"
  BY <1>0, <1>1, AnswersIs DEF ReqInv
<1>2. ASSUME Answers(q, req[q], "failed") PROVE req'[q].op = "none"
  BY <1>0, <1>2, AnswersIs DEF ReqInv
<1>3. ASSUME NEW pc \in Pcs, GoesTo(q, pc) PROVE req'[q].op = req[q].op /\ req'[q].pc = pc
  BY <1>3, GoesToIs DEF ReqInv
<1>4. {"parameters", "saveTasks", "dropReports", "dropType"} \subseteq Pcs
  BY DEF Pcs, Drops
<1>5. CASE InsertReport(q)
  <2> DEFINE x == [req[q] EXCEPT !.report = NextReport]
  <2>1. x \in ReqRecs /\ x.op = req[q].op
    BY <1>0, Chosen DEF ReqRecs
  <2>2. \/ Answers(q, x, "ok")
        \/ Answers(q, req[q], "failed") /\ req[q].op = "createReport" /\ req[q].pc = "inserting"
    BY <1>5 DEF InsertReport, Fails
  <2> HIDE DEF x
  <2>3. QED
    BY <1>0, <1>2, <2>1, <2>2, AnswersIs DEF ReqInv, Deletes, Known
<1>6. CASE SaveReport(q)
  BY <1>1, <1>2, <1>3, <1>4, <1>6 DEF SaveReport, Fails, Deletes, Known
<1>7. CASE WriteParameters(q) \/ RejectParameters(q) \/ InsertType(q) \/ SaveTasks(q)
           \/ DropType(q)
  BY <1>1, <1>7 DEF WriteParameters, RejectParameters, InsertType, SaveTasks, DropType, Dies
<1>8. CASE DropTask(q) \/ DropReports(q) \/ SaveType(q)
  BY <1>1, <1>3, <1>4, <1>8 DEF DropTask, DropReports, SaveType
<1>9. QED
  BY <1>5, <1>6, <1>7, <1>8 DEF Serve

\* Everything that is not a request leaves the requests and the report table alone.
LEMMA OthersMove ==
    ASSUME [Next]_vars
    PROVE  \/ \E q \in Requests : Ask(q) \/ Serve(q)
           \/ UNCHANGED <<req, report>>
BY DEF Next, PollReads, PollRegisters, Execute, RunQuery, WriteFile, Mail, Ends, ExecGoesTo,
   TickFires, vars, tables

LEMMA DeletionsStay ==
    ASSUME ReqInv, [Next]_vars, Deletions
    PROVE  Deletions'
<1>1. PICK q \in Requests : req[q].op \in Deletes /\ req[q].pc # "failed"
  BY DEF Deletions, Deletes
<1>2. CASE UNCHANGED <<req, report>>
  BY <1>1, <1>2 DEF Deletions, Deletes
<1>3. ASSUME NEW p \in Requests, Ask(p) PROVE req'[q] = req[q]
  BY <1>1, <1>3, AskMoves DEF Deletes
<1>4. ASSUME NEW p \in Requests, Serve(p)
      PROVE  req'[q].op = req[q].op /\ req'[q].pc # "failed"
  BY <1>1, <1>4, ServeMoves, ServeKeepsOp, DiesIs
<1>5. QED
  BY <1>1, <1>2, <1>3, <1>4, OthersMove DEF Deletions, Deletes

\* Without deletions no report goes, no parameters go, and nothing ends the process.
LEMMA NothingGoes ==
    ASSUME IInv, ParamInv, ~Deletions, NEW q \in Requests, Serve(q)
    PROVE  /\ \A p \in Requests \ {q} : req'[p] = req[p]
           /\ req'[q].pc # "failed" \/ req[q].pc \notin Known
           /\ \/ InsertReport(q) \/ SaveReport(q) \/ WriteParameters(q)
              \/ InsertType(q) \/ SaveType(q) \/ SaveTasks(q)
<1>1. req[q].pc \notin Drops
  <2>1. req[q].pc \in Drops => req[q].op \in Deletes
    BY DEF IInv, ReqInv, ReqOne
  <2>2. req[q].op \in Deletes => req[q].pc = "failed"
    BY DEF Deletions, Deletes
  <2>3. QED
    BY <2>1, <2>2 DEF Drops
<1>2. ~RejectParameters(q)
  BY DEF ParamInv, RejectParameters
<1>3. \/ InsertReport(q) \/ SaveReport(q) \/ WriteParameters(q)
      \/ InsertType(q) \/ SaveType(q) \/ SaveTasks(q)
  BY <1>1, <1>2 DEF Serve, Drops, DropTask, DropReports, DropType
<1>4. \A p \in Requests \ {q} : req'[p] = req[p]
  BY <1>2, ServeMoves DEF IInv
<1>5. req'[q].pc # "failed" \/ req[q].pc \notin Known
  <2>1. CASE InsertReport(q) \/ SaveReport(q)
    BY <2>1 DEF InsertReport, SaveReport, Known
  <2>2. CASE ~Dies
    <3>1. CASE req'[q].op = "none" /\ req[q].pc \notin Known
      BY <3>1
    <3>2. QED
      BY <2>2, <3>1, ServeKeepsOp DEF IInv
  <2>3. CASE Dies
    BY <2>3, DiesIs DEF IInv, Known
  <2>4. QED
    BY <2>2, <2>3
<1>6. QED
  BY <1>3, <1>4, <1>5

\* How a step of a request ends, when nothing is deleted.
LEMMA ServeEnds ==
    ASSUME IInv, ParamInv, ~Deletions, NEW q \in Requests, Serve(q)
    PROVE  /\ req'[q].pc # "saving"
           /\ req[q].pc \in Known => WriteParameters(q)
           /\ req'[q].pc = "parameters" =>
                 SaveReport(q) /\ GoesTo(q, "parameters")
                   /\ report' = [report EXCEPT ![req[q].report] = Written(q)]
<1>0. req[q] \in ReqRecs /\ req \in [Requests -> ReqRecs] /\ {"ok", "failed"} \subseteq Over
  BY DEF IInv, ReqInv, Over
<1>1. ASSUME NEW rec \in ReqRecs, NEW pc \in {"ok", "failed"}, Answers(q, rec, pc)
      PROVE  req'[q].pc \in {"ok", "failed"}
  BY <1>0, <1>1, AnswersIs
<1>2. ASSUME NEW pc \in Pcs, GoesTo(q, pc) PROVE req'[q].pc = pc
  BY <1>0, <1>2, GoesToIs
<1>3. {"parameters", "saveTasks"} \subseteq Pcs
  BY DEF Pcs
<1>4. CASE InsertReport(q)
  <2> DEFINE x == [req[q] EXCEPT !.report = NextReport]
  <2>1. x \in ReqRecs
    BY <1>0, Chosen DEF ReqRecs
  <2>2. Answers(q, x, "ok") \/ Answers(q, req[q], "failed")
    BY <1>4 DEF InsertReport, Fails
  <2>3. req[q].pc \notin Known
    BY <1>4 DEF InsertReport, Known
  <2> HIDE DEF x
  <2>4. QED
    BY <1>0, <1>1, <2>1, <2>2, <2>3
<1>5. CASE SaveReport(q)
  <2>1. \/ Answers(q, req[q], "ok") \/ Answers(q, req[q], "failed")
        \/ /\ GoesTo(q, "parameters")
           /\ report' = [report EXCEPT ![req[q].report] = Written(q)]
    BY <1>5 DEF SaveReport, Fails
  <2>2. req[q].pc \notin Known
    BY <1>5 DEF SaveReport, Known
  <2>3. QED
    BY <1>0, <1>1, <1>2, <1>3, <1>5, <2>1, <2>2
<1>6. CASE WriteParameters(q)
  BY <1>0, <1>1, <1>6 DEF WriteParameters
<1>7. CASE InsertType(q) \/ SaveTasks(q)
  BY <1>0, <1>1, <1>7 DEF InsertType, SaveTasks, Known
<1>8. CASE SaveType(q)
  BY <1>2, <1>3, <1>8 DEF SaveType, Known
<1>9. QED
  BY <1>4, <1>5, <1>6, <1>7, <1>8, NothingGoes

\* Rows and parameters only grow, and a request writes its parameters before it is over.
LEMMA ParamsStay ==
    ASSUME IInv, ParamInv, [Next]_vars, ~Deletions
    PROVE  /\ \A r \in Reports :
                 /\ r \in Live => r \in Live'
                 /\ report[r].row # "new" => report[r].params \subseteq report'[r].params
           /\ \A p \in Requests : req[p].pc \in Known =>
                 /\ req'[p].op = req[p].op
                 /\ req[p].pc = "ok" => req'[p].pc = "ok"
                 /\ req[p].pc = "parameters" =>
                       \/ req'[p].pc = "parameters"
                       \/ req'[p].pc = "ok" /\ p \in report'[req[p].report].params
<1>0. /\ report \in [Reports -> Definitions] /\ req \in [Requests -> ReqRecs]
      /\ "ok" \in Over
  BY DEF IInv, TableInv, ReqInv, Over
<1>1. CASE UNCHANGED <<req, report>>
  BY <1>1 DEF Live
<1>2. ASSUME NEW q \in Requests, Ask(q)
      PROVE  UNCHANGED report /\ \A p \in Requests : req[p].pc \in Known => req'[p] = req[p]
  BY <1>2, AskMoves DEF IInv, Known
<1>3. ASSUME NEW q \in Requests, Serve(q), NEW r \in Reports
      PROVE  /\ r \in Live => r \in Live'
             /\ report[r].row # "new" => report[r].params \subseteq report'[r].params
  <2>0. report[r] \in Definitions /\ req[q].report \in Reports
    BY <1>0 DEF ReqRecs
  <2>1. CASE UNCHANGED report
    BY <2>1 DEF Live
  <2>2. CASE InsertReport(q) /\ ~UNCHANGED report
    <3>1. /\ report[NextReport].row = "new" /\ NextReport \in Reports
          /\ \A s \in Reports \ {NextReport} : report'[s] = report[s]
      BY <1>0, <2>2, Chosen DEF InsertReport, Fails, tables
    <3>2. QED
      BY <3>1 DEF Live
  <2>3. CASE SaveReport(q) /\ ~UNCHANGED report
    <3>1. report' = [report EXCEPT ![req[q].report] = Written(q)]
      BY <2>3 DEF SaveReport, Fails, tables
    <3>2. Written(q).row = "live" /\ Written(q).params = report[req[q].report].params
      BY DEF Written
    <3>3. QED
      BY <1>0, <2>0, <3>1, <3>2 DEF Live
  <2>4. CASE WriteParameters(q)
    BY <1>0, <2>0, <2>4 DEF WriteParameters, Live, Definitions
  <2>5. CASE SaveType(q)
    <3>1. report'[r].row = report[r].row /\ report'[r].params = report[r].params
      BY <2>0, <2>5 DEF SaveType, Relinked, Definitions
    <3>2. QED
      BY <3>1 DEF Live
  <2>6. QED
    BY <1>3, <2>1, <2>2, <2>3, <2>4, <2>5, NothingGoes DEF InsertType, SaveTasks
<1>4. ASSUME NEW q \in Requests, Serve(q), NEW p \in Requests, req[p].pc \in Known
      PROVE  /\ req'[p].op = req[p].op
             /\ req[p].pc = "ok" => req'[p].pc = "ok"
             /\ req[p].pc = "parameters" =>
                   \/ req'[p].pc = "parameters"
                   \/ req'[p].pc = "ok" /\ p \in report'[req[p].report].params
  <2>1. CASE p # q
    BY <1>4, <2>1, NothingGoes
  <2>2. CASE p = q
    <3>1. WriteParameters(q)
      BY <1>4, <2>2, ServeEnds
    <3>2. req'[q].pc = "ok" /\ req'[q].op = req[q].op
      BY <1>0, <3>1, AnswersIs DEF WriteParameters
    <3>3. q \in report'[req[q].report].params
      BY <1>0, <3>1 DEF WriteParameters, Live, Definitions
    <3>4. req[q].pc = "parameters"
      BY <3>1 DEF WriteParameters
    <3>5. QED
      BY <2>2, <3>2, <3>3, <3>4
  <2>3. QED
    BY <2>1, <2>2
<1>5. QED
  BY <1>1, <1>2, <1>3, <1>4, OthersMove DEF Live

LEMMA KeptStays ==
    ASSUME IInv, ParamInv, [Next]_vars, ~Deletions,
           NEW p \in Requests, NEW r \in Reports, Wrote(p, r), Kept(p, r)
    PROVE  Kept(p, r)'
<1>1. req[p].pc \in Known /\ req[p].report = r /\ report[r].row # "new"
  BY DEF Wrote, Known
<1>2. QED
  BY <1>1, ParamsStay DEF Kept, Known

\* The invariant is kept: a save that puts an old query back puts back one whose parameters
\* were written.
LEMMA ParamsKept == ASSUME IInv, ParamInv, [Next]_vars PROVE ParamInv'
<1> SUFFICES ASSUME ~Deletions' PROVE ParamInv'
  BY DEF ParamInv
<1>0. /\ ~Deletions /\ TableInv /\ RowInv /\ ReqInv /\ Grows
      /\ report \in [Reports -> Definitions] /\ req \in [Requests -> ReqRecs]
      /\ \A q \in Requests : req[q].report \in Reports
  <2>1. ~Deletions /\ TableInv /\ RowInv /\ ReqInv /\ Grows
    BY DeletionsStay, TablesKept DEF IInv
  <2>2. QED
    BY <2>1 DEF TableInv, ReqInv, ReqRecs
<1>1. ASSUME NEW p, NEW r \in Reports, p # NoQuery => p \in Requests /\ Wrote(p, r) /\ Kept(p, r)
      PROVE  p # NoQuery => Kept(p, r)'
  BY <1>0, <1>1, KeptStays
\* what a request that saves holds
<1>2. ASSUME NEW q \in Requests, SavesReport(q), NEW r \in Reports, r = req[q].report,
             NEW p, p = req[q].seen.query
      PROVE  p # NoQuery => Kept(p, r)'
  <2>1. p # NoQuery => p \in Requests /\ Wrote(p, r) /\ Kept(p, r)
    BY <1>0, <1>2 DEF ParamInv, ReqInv, ReqOne, SaverOK, Definitions, Queries
  <2>2. QED
    BY <1>1, <2>1
\* what a row holds
<1>3. ASSUME NEW r \in Reports, NEW p, p = report[r].query
      PROVE  p # NoQuery => Kept(p, r)'
  <2>1. p # NoQuery => p \in Requests /\ Wrote(p, r) /\ Kept(p, r)
    BY <1>0, <1>3 DEF ParamInv, RowInv, Definitions, Queries
  <2>2. QED
    BY <1>1, <2>1
<1>4. ASSUME NEW q \in Requests, (req[q].pc = "parameters")' PROVE (req[q].report \in Live)'
  <2>1. CASE req'[q] = req[q]
    BY <1>0, <1>4, <2>1, ParamsStay DEF ParamInv
  <2>2. CASE Ask(q)
    BY <1>0, <1>4, <2>2, AskKnows DEF Sees
  <2>3. CASE Serve(q)
    <3>1. GoesTo(q, "parameters") /\ report' = [report EXCEPT ![req[q].report] = Written(q)]
      BY <1>0, <1>4, <2>3, ServeEnds
    <3>2. req'[q].report = req[q].report
      BY <1>0, <3>1, GoesToIs DEF Pcs
    <3>3. report'[req[q].report].row = "live"
      BY <1>0, <3>1 DEF Written
    <3>4. QED
      BY <1>0, <3>2, <3>3 DEF Live
  <2>4. QED
    BY <1>0, <2>1, <2>2, <2>3, OthersMove, AskMoves, NothingGoes
<1>5. ASSUME NEW r \in Reports PROVE (report[r].query # NoQuery => Kept(report[r].query, r))'
  <2>1. PICK p : p = report'[r].query
    OBVIOUS
  <2>2. CASE p = report[r].query \/ p = NoQuery
    <3>1. p # NoQuery => Kept(p, r)'
      BY <1>3, <2>2
    <3>2. QED
      BY <2>1, <3>1
  <2>3. CASE \E q \in Requests : /\ SaveReport(q) /\ ~UNCHANGED report /\ req[q].report = r
                                 /\ p = q \/ p = req[q].seen.query
    <3>1. PICK q \in Requests : /\ SaveReport(q) /\ ~UNCHANGED report /\ req[q].report = r
                                /\ p = q \/ p = req[q].seen.query
      BY <2>3
    <3>2. CASE p = q
      <4>1. \/ req[q].op # "saveQuery" /\ Answers(q, req[q], "ok")
            \/ GoesTo(q, "parameters")
        BY <3>1 DEF SaveReport, Fails, tables
      <4>2. (req'[q].op # "saveQuery") \/ (req'[q].pc = "parameters")
        BY <1>0, <4>1, AnswersIs, GoesToIs DEF Pcs, Over
      <4>3. QED
        BY <2>1, <3>2, <4>2 DEF Kept
    <3>3. CASE p = req[q].seen.query
      <4>1. SavesReport(q)
        BY <3>1 DEF SaveReport, SavesReport, Edits
      <4>2. p # NoQuery => Kept(p, r)'
        BY <1>2, <3>1, <3>3, <4>1
      <4>3. QED
        BY <2>1, <4>2
    <3>4. QED
      BY <3>1, <3>2, <3>3
  <2>4. ASSUME NEW q \in Requests, Serve(q), p # report[r].query, p # NoQuery
        PROVE  /\ SaveReport(q) /\ ~UNCHANGED report /\ req[q].report = r
               /\ p = q \/ p = req[q].seen.query
    <3>0. report[r] \in Definitions /\ report'[r].query # report[r].query
      BY <1>0, <2>1, <2>4
    <3>1. ~InsertReport(q)
      <4>1. ASSUME InsertReport(q)
            PROVE  \/ UNCHANGED report
                   \/ report' = [report EXCEPT ![NextReport] =
                        [row |-> "live", owner |-> req[q].user, name |-> req[q].name,
                         type |-> req[q].rtype, query |-> NoQuery, params |-> {}]]
        BY <4>1 DEF InsertReport, Fails, tables
      <4>2. QED
        BY <1>0, <2>1, <2>4, <3>0, <4>1
    <3>2. ~WriteParameters(q)
      <4>1. ASSUME WriteParameters(q)
            PROVE  report' = [report EXCEPT ![req[q].report].params = @ \cup {q}]
        BY <4>1 DEF WriteParameters
      <4>2. QED
        BY <1>0, <3>0, <4>1 DEF Definitions
    <3>3. ~SaveType(q)
      BY <3>0 DEF SaveType, Relinked, Definitions
    <3>4. SaveReport(q) /\ ~UNCHANGED report
      BY <1>0, <2>4, <3>0, <3>1, <3>2, <3>3, NothingGoes DEF InsertType, SaveTasks
    <3>5. report' = [report EXCEPT ![req[q].report] = Written(q)]
      BY <3>4 DEF SaveReport, Fails, tables
    <3>6. Written(q).query = q \/ Written(q).query = req[q].seen.query
      BY DEF Written
    <3>7. QED
      BY <1>0, <2>1, <3>0, <3>4, <3>5, <3>6
  <2>5. ASSUME NEW q \in Requests, Ask(q) PROVE p = report[r].query
    BY <1>0, <2>1, <2>5, AskMoves
  <2>6. QED
    BY <2>1, <2>2, <2>3, <2>4, <2>5, OthersMove
<1>6. ASSUME NEW q \in Requests, (SavesReport(q) /\ req[q].seen.query # NoQuery)'
      PROVE  Kept(req[q].seen.query, req[q].report)'
  <2>1. PICK p, r : p = req'[q].seen.query /\ r = req'[q].report /\ p # NoQuery
    BY <1>6
  <2>2. CASE req'[q] = req[q]
    <3>1. SavesReport(q) /\ r \in Reports /\ r = req[q].report /\ p = req[q].seen.query
      BY <1>0, <1>6, <2>1, <2>2 DEF SavesReport
    <3>2. Kept(p, r)'
      BY <1>2, <2>1, <3>1
    <3>3. QED
      BY <2>1, <3>2
  <2>3. CASE Ask(q)
    <3>1. ReqInv' /\ Sees(q)' /\ UNCHANGED report
      BY <1>0, <2>3, AskKnows, AskMoves
    <3>2. r \in Reports /\ p = report[r].query
      BY <1>6, <2>1, <3>1 DEF Sees, ReqInv, ReqRecs
    <3>3. Kept(p, r)'
      BY <1>3, <2>1, <3>2
    <3>4. QED
      BY <2>1, <3>3
  <2>4. CASE Serve(q)
    BY <1>0, <1>6, <2>4, ServeEnds DEF SavesReport
  <2>5. QED
    BY <1>0, <2>2, <2>3, <2>4, OthersMove, AskMoves, NothingGoes
<1>7. QED
  BY <1>4, <1>5, <1>6 DEF ParamInv

\* As long as nobody deletes, a saved query has its parameters once the write that nobody
\* waits for is over: a stale save puts back only queries whose parameters are written.
THEOREM SavedQueriesKeepParameters == Spec => []SavedQueryKeepsParameters
<1>1. Init => ParamInv
  <2> SUFFICES ASSUME Init PROVE ParamInv
    OBVIOUS
  <2>1. \A q \in Requests : req[q].pc = "new"
    BY UnaskedIs DEF Init
  <2>2. \A r \in Reports : report[r].query = NoQuery
    BY DEF Init
  <2>3. QED
    BY <2>1, <2>2 DEF ParamInv, SavesReport
<1>2. IInv /\ ParamInv /\ [Next]_vars => ParamInv'
  BY ParamsKept
<1>3. ParamInv => SavedQueryKeepsParameters
  BY DEF ParamInv, SavedQueryKeepsParameters, Kept, Live
<1>4. QED
  BY <1>1, <1>2, <1>3, ReportsInductive, PTL DEF Spec
=============================================================================
