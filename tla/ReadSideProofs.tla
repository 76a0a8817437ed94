------------------------------ MODULE ReadSideProofs ------------------------------
(***************************************************************************)
(* Theorems about ReadSide, for any users, rows, results of queries and    *)
(* sizes of pages, and any number of audit entries.                        *)
(***************************************************************************)
EXTENDS ReadSide, FiniteSetTheorems, WellFoundedInduction, TLAPS

(* Reading the audit log. *)

Entries == [id : Nat, user : Users, action : Actions]

LogType ==
    /\ logged \in Nat
    /\ log \subseteq Entries /\ IsFiniteSet(log)
    /\ \A e \in log : e.id <= logged

\* A walk is on a page that there is a number for, and began with entries of its user that
\* are older than those to come.
Walks == [pc : {"rows", "count", "read"}, user : Users \cup {Anybody}, limit : Limits,
          page : Nat \ {0}, seen : SUBSET Entries, from : SUBSET Entries]

WalkType ==
    walk # NoWalk => /\ walk \in Walks
                     /\ walk.from = Matching(walk.from, walk.user)
                     /\ \A e \in walk.from : e.id <= logged

\* How many entries are listed before one, to a reader of the entries of a user.
Rank(e, entries, user) == Cardinality(NewestFirst(Matching(entries, user), e))

\* The pages to come begin with the entry of this rank.
Ahead == (IF walk.pc = "rows" THEN walk.page - 1 ELSE walk.page) * walk.limit

\* An entry that the reader has not seen is on a page to come, because entries never get
\* nearer to the first: new ones come before all others, and the last are the first to go.
UnseenIsAhead ==
    /\ walk.pc \in {"rows", "count"} =>
          \A e \in walk.from \cap log : e \in walk.seen \/ Rank(e, log, walk.user) >= Ahead
    /\ walk.pc = "read" => walk.from \cap log \subseteq walk.seen

WalkInv == LogType /\ WalkType /\ UnseenIsAhead
-----------------------------------------------------------------------------
LEMMA Counted ==
    ASSUME NEW entries, IsFiniteSet(entries), NEW user, NEW e
    PROVE  /\ Rank(e, entries, user) \in Nat
           /\ Cardinality(Matching(entries, user)) \in Nat
           /\ IsFiniteSet(Matching(entries, user))
<1>1. IsFiniteSet(Matching(entries, user))
  BY FS_Subset DEF Matching
<1>2. IsFiniteSet(NewestFirst(Matching(entries, user), e))
  BY <1>1, FS_Subset DEF NewestFirst
<1>3. QED
  BY <1>1, <1>2, FS_CardinalityType DEF Rank

\* An entry that matches is not among those before it.
LEMMA RankBelowTotal ==
    ASSUME NEW entries, IsFiniteSet(entries), entries \subseteq Entries, NEW user,
           NEW e \in Matching(entries, user)
    PROVE  Rank(e, entries, user) < Cardinality(Matching(entries, user))
<1>1. NewestFirst(Matching(entries, user), e) \subseteq Matching(entries, user)
  BY DEF NewestFirst
<1>2. e \notin NewestFirst(Matching(entries, user), e)
  <2>1. e.id \in Nat
    BY DEF Entries, Matching
  <2>2. QED
    BY <2>1 DEF NewestFirst
<1>3. IsFiniteSet(Matching(entries, user))
  BY Counted
<1>4. QED
  BY <1>1, <1>2, <1>3, FS_Subset, FS_CardinalityType DEF Rank

LEMMA RankGrows ==
    ASSUME NEW entries, NEW more, IsFiniteSet(more), NEW user, NEW e,
           NewestFirst(entries, e) \subseteq NewestFirst(more, e)
    PROVE  Rank(e, more, user) >= Rank(e, entries, user)
<1>1. NewestFirst(Matching(entries, user), e) \subseteq NewestFirst(Matching(more, user), e)
  BY DEF NewestFirst, Matching
<1>2. IsFiniteSet(NewestFirst(Matching(more, user), e))
  BY FS_Subset DEF NewestFirst, Matching
<1>3. QED
  BY <1>1, <1>2, FS_Subset, FS_CardinalityType DEF Rank

\* The pages by the total are enough for the total.
LEMMA PagesSuffice ==
    ASSUME NEW total \in Nat, NEW limit \in Nat \ {0}, NEW page \in Nat \ {0},
           ~(page < TotalPages(total, limit))
    PROVE  total <= page * limit
<1>1. CASE total = 0
  BY <1>1
<1>2. CASE total # 0
  <2> DEFINE last == (total + limit - 1) \div limit
  <2>1. last \in Int /\ last <= page
    BY <1>2 DEF TotalPages
  <2>2. total + limit - 1 < limit * (last + 1)
    OBVIOUS
  <2>3. limit * (last + 1) <= limit * (page + 1)
    BY <2>1
  <2>4. limit * (page + 1) = page * limit + limit
    OBVIOUS
  <2>5. page * limit \in Int
    OBVIOUS
  <2>. HIDE DEF last
  <2>6. QED
    BY <2>1, <2>2, <2>3, <2>4, <2>5
<1>3. QED
  BY <1>1, <1>2
-----------------------------------------------------------------------------
LEMMA InitWalk == Init => WalkInv
<1> SUFFICES ASSUME Init PROVE WalkInv
  OBVIOUS
<1>1. LogType
  BY FS_EmptySet DEF Init, LogType
<1>2. walk.pc = "none"
  BY DEF Init, NoWalk
<1>3. QED
  BY <1>1, <1>2 DEF Init, WalkInv, WalkType, UnseenIsAhead

\* What a page ends with is before what is ahead of a walk.
LEMMA AheadIsNat ==
    ASSUME walk \in Walks
    PROVE  /\ walk.limit \in Nat \ {0} /\ walk.page \in Nat \ {0}
           /\ walk.page * walk.limit \in Nat
           /\ (walk.page - 1) * walk.limit \in Nat
           /\ Ahead \in Nat
<1>1. walk.limit \in Nat \ {0} /\ walk.page \in Nat \ {0}
  BY LimitsArePositive DEF Walks
<1>2. \A m, n \in Nat : m * n \in Nat
  OBVIOUS
<1>3. QED
  BY <1>1, <1>2 DEF Ahead

\* Entries come and go under a reader, who keeps what they have seen.
LEMMA LogChanges ==
    ASSUME WalkInv, LogType', UNCHANGED walk, logged' >= logged,
           walk # NoWalk =>
              \A e \in walk.from \cap log' :
                 e \in log /\ NewestFirst(log, e) \subseteq NewestFirst(log', e)
    PROVE  WalkInv'
<1>1. WalkType'
  BY DEF WalkInv, WalkType, LogType, Walks, Entries, Matching
<1>2. CASE walk = NoWalk
  <2>1. walk.pc = "none"
    BY <1>2 DEF NoWalk
  <2>2. QED
    BY <1>1, <2>1 DEF WalkInv, UnseenIsAhead
<1>3. CASE walk # NoWalk
  <2>1. walk \in Walks
    BY <1>3 DEF WalkInv, WalkType
  <2>2. Ahead' = Ahead /\ Ahead \in Nat
    BY <2>1, AheadIsNat DEF Ahead
  <2>3. ASSUME NEW e \in walk.from \cap log', e \notin walk.seen, walk.pc \in {"rows", "count"}
        PROVE  Rank(e, log', walk.user) >= Ahead
    <3>1. Rank(e, log, walk.user) >= Ahead
      BY <1>3, <2>3 DEF WalkInv, UnseenIsAhead
    <3>2. Rank(e, log', walk.user) >= Rank(e, log, walk.user)
      BY <1>3, <2>3, RankGrows DEF LogType
    <3>3. Rank(e, log, walk.user) \in Nat /\ Rank(e, log', walk.user) \in Nat
      BY Counted DEF WalkInv, LogType
    <3>4. QED
      BY <2>2, <3>1, <3>2, <3>3
  <2>4. walk.pc = "read" => walk.from \cap log' \subseteq walk.seen
    BY <1>3 DEF WalkInv, UnseenIsAhead
  <2>5. UnseenIsAhead'
    BY <2>2, <2>3, <2>4 DEF UnseenIsAhead
  <2>6. QED
    BY <1>1, <2>5 DEF WalkInv
<1>4. QED
  BY <1>2, <1>3

LEMMA LogEntryKept ==
    ASSUME WalkInv, NEW u \in Users, LogEntry(u) PROVE WalkInv'
<1>1. PICK a \in Actions : log' = log \cup {[id |-> logged + 1, user |-> u, action |-> a]}
  BY DEF LogEntry
<1>2. logged \in Nat /\ logged' = logged + 1 /\ walk' = walk
  BY DEF LogEntry, WalkInv, LogType
<1>3. LogType'
  <2>1. IsFiniteSet(log')
    BY <1>1, FS_AddElement DEF WalkInv, LogType
  <2>2. [id |-> logged + 1, user |-> u, action |-> a] \in Entries
    BY <1>2 DEF Entries
  <2>3. \A e \in log' : e.id \in Nat /\ e.id <= logged'
    BY <1>1, <1>2, <2>2 DEF WalkInv, LogType, Entries
  <2>4. QED
    BY <1>1, <1>2, <2>1, <2>2, <2>3 DEF WalkInv, LogType
<1>4. ASSUME walk # NoWalk, NEW e \in walk.from, e \in log'
      PROVE  e \in log /\ NewestFirst(log, e) \subseteq NewestFirst(log', e)
  <2>1. e.id <= logged
    BY <1>4 DEF WalkInv, WalkType
  <2>2. QED
    BY <1>1, <1>2, <1>4, <2>1 DEF NewestFirst
<1>5. QED
  BY <1>2, <1>3, <1>4, LogChanges

\* Those that are before an entry stay as long as it does.
LEMMA PurgeKept ==
    ASSUME WalkInv, Purge PROVE WalkInv'
<1>1. PICK last \in log : log' = {e \in log : e.id > last.id}
  BY DEF Purge
<1>2. logged' = logged /\ walk' = walk
  BY DEF Purge
<1>3. log' \subseteq log
  BY <1>1
<1>4. LogType'
  BY <1>2, <1>3, FS_Subset DEF WalkInv, LogType
<1>5. ASSUME NEW e \in log', NEW f \in log, f.id > e.id PROVE f \in log'
  <2>1. last.id \in Nat /\ e.id \in Nat /\ f.id \in Nat
    BY <1>3 DEF WalkInv, LogType, Entries
  <2>2. QED
    BY <1>1, <1>5, <2>1
<1>6. \A e \in log' : e \in log /\ NewestFirst(log, e) \subseteq NewestFirst(log', e)
  BY <1>3, <1>5 DEF NewestFirst
<1>7. QED
  BY <1>2, <1>4, <1>6, LogChanges DEF WalkInv, LogType

LEMMA OpenLogKept ==
    ASSUME WalkInv, NEW u \in Users \cup {Anybody}, NEW limit \in Limits, OpenLog(u, limit)
    PROVE  WalkInv'
<1>1. /\ walk' = [pc |-> "rows", user |-> u, limit |-> limit, page |-> 1, seen |-> {},
                  from |-> Matching(log, u)]
      /\ log' = log /\ logged' = logged
  BY DEF OpenLog
<1>2. LogType'
  BY <1>1 DEF WalkInv, LogType
<1>3. WalkType'
  <2>1. Matching(log, u) \subseteq Entries /\ \A e \in Matching(log, u) : e.id <= logged
    BY DEF Matching, WalkInv, LogType
  <2>2. walk' \in Walks
    BY <1>1, <2>1 DEF Walks
  <2>3. Matching(Matching(log, u), u) = Matching(log, u)
    BY DEF Matching
  <2>4. QED
    BY <1>1, <2>1, <2>2, <2>3 DEF WalkType
<1>4. UnseenIsAhead'
  <2>1. limit \in Nat
    BY LimitsArePositive
  <2>2. (1 - 1) * limit = 0
    BY <2>1
  <2>3. Ahead' = 0
    BY <1>1, <2>2 DEF Ahead
  <2>4. \A e : Rank(e, log, u) \in Nat
    BY Counted DEF WalkInv, LogType
  <2>5. \A e : Rank(e, log', u) >= 0
    BY <1>1, <2>4
  <2>6. walk'.pc = "rows" /\ walk'.user = u
    BY <1>1
  <2>7. QED
    BY <2>3, <2>5, <2>6 DEF UnseenIsAhead
<1>5. QED
  BY <1>2, <1>3, <1>4 DEF WalkInv

\* What is on the page is seen, and the rest comes after it.
LEMMA ReadRowsKept ==
    ASSUME WalkInv, ReadRows PROVE WalkInv'
<1> DEFINE page == PageOf(Matching(log, walk.user), walk.page, walk.limit)
<1>1. walk.pc = "rows" /\ walk' = [walk EXCEPT !.pc = "count", !.seen = @ \cup page]
      /\ log' = log /\ logged' = logged
  BY DEF ReadRows
<1>2. walk \in Walks
  BY <1>1 DEF WalkInv, WalkType, NoWalk
<1>3. page \subseteq Entries
  BY DEF PageOf, Matching, WalkInv, LogType
<1>. HIDE DEF page
<1>4. /\ walk' \in Walks /\ walk'.pc = "count" /\ walk'.seen = walk.seen \cup page
      /\ walk'.from = walk.from /\ walk'.user = walk.user
      /\ walk'.page = walk.page /\ walk'.limit = walk.limit
  BY <1>1, <1>2, <1>3 DEF Walks
<1>5. LogType' /\ WalkType'
  BY <1>1, <1>2, <1>4 DEF WalkInv, LogType, WalkType, NoWalk
<1>6. ASSUME NEW e \in walk.from \cap log, e \notin walk.seen \cup page
      PROVE  Rank(e, log, walk.user) >= walk.page * walk.limit
  <2>1. e \in Matching(log, walk.user)
    BY <1>1, <1>2, <1>6 DEF WalkInv, WalkType, Matching, NoWalk
  <2>2. Rank(e, log, walk.user) >= (walk.page - 1) * walk.limit
    BY <1>1, <1>6 DEF WalkInv, UnseenIsAhead, Ahead
  <2>3. Rank(e, log, walk.user) \notin
           (walk.page - 1) * walk.limit .. walk.page * walk.limit - 1
    BY <1>6, <2>1 DEF page, PageOf, Rank
  <2>4. Rank(e, log, walk.user) \in Nat
    BY Counted DEF WalkInv, LogType
  <2>5. QED
    BY <1>2, <2>2, <2>3, <2>4, AheadIsNat
<1>7. UnseenIsAhead'
  <2>1. Ahead' = walk.page * walk.limit
    BY <1>4 DEF Ahead
  <2>2. QED
    BY <1>1, <1>4, <1>6, <2>1 DEF UnseenIsAhead
<1>8. QED
  BY <1>5, <1>7 DEF WalkInv

LEMMA ReadCountKept ==
    ASSUME WalkInv, ReadCount PROVE WalkInv'
<1> DEFINE total == Cardinality(Matching(log, walk.user))
<1>1. walk.pc = "count" /\ log' = log /\ logged' = logged
  BY DEF ReadCount
<1>2. walk \in Walks /\ walk # NoWalk
  BY <1>1 DEF WalkInv, WalkType, NoWalk
<1>3. LogType'
  BY <1>1 DEF WalkInv, LogType
<1>4. Ahead = walk.page * walk.limit
  BY <1>1 DEF Ahead
<1>5. CASE walk.page < TotalPages(total, walk.limit)
  <2>1. walk' = [walk EXCEPT !.pc = "rows", !.page = @ + 1]
    BY <1>5 DEF ReadCount
  <2>2. walk.page \in Nat /\ walk.page + 1 \in Nat \ {0} /\ walk.page + 1 - 1 = walk.page
    BY <1>2, AheadIsNat
  <2>3. /\ walk' \in Walks /\ walk'.pc = "rows" /\ walk'.seen = walk.seen
        /\ walk'.from = walk.from /\ walk'.user = walk.user
        /\ walk'.page = walk.page + 1 /\ walk'.limit = walk.limit
    BY <1>2, <2>1, <2>2 DEF Walks
  <2>4. Ahead' = Ahead
    <3>1. Ahead' = (walk'.page - 1) * walk'.limit
      BY <2>3 DEF Ahead
    <3>2. walk'.page - 1 = walk.page
      BY <2>2, <2>3
    <3>3. QED
      BY <1>4, <2>3, <3>1, <3>2
  <2>5. WalkType'
    BY <1>1, <1>2, <2>3 DEF WalkInv, WalkType, NoWalk
  <2>6. UnseenIsAhead'
    BY <1>1, <2>3, <2>4 DEF WalkInv, UnseenIsAhead
  <2>7. QED
    BY <1>3, <2>5, <2>6 DEF WalkInv
<1>6. CASE ~(walk.page < TotalPages(total, walk.limit))
  <2>1. walk' = [walk EXCEPT !.pc = "read"]
    BY <1>6 DEF ReadCount
  <2>2. /\ walk' \in Walks /\ walk'.pc = "read" /\ walk'.seen = walk.seen
        /\ walk'.from = walk.from /\ walk'.user = walk.user
    BY <1>2, <2>1 DEF Walks
  <2>3. WalkType'
    BY <1>1, <1>2, <2>2 DEF WalkInv, WalkType, NoWalk
  <2>4. ASSUME NEW e \in walk.from \cap log PROVE e \in walk.seen
    <3>1. e \in Matching(log, walk.user)
      BY <1>2, <2>4 DEF WalkInv, WalkType, Matching
    <3>2. Rank(e, log, walk.user) < total
      BY <3>1, RankBelowTotal DEF WalkInv, LogType
    <3>3. total \in Nat /\ Rank(e, log, walk.user) \in Nat
      BY Counted DEF WalkInv, LogType
    <3>4. total <= walk.page * walk.limit
      BY <1>2, <1>6, <3>3, AheadIsNat, PagesSuffice
    <3>5. ~(Rank(e, log, walk.user) >= Ahead)
      BY <1>2, <1>4, <3>2, <3>3, <3>4, AheadIsNat
    <3>6. QED
      BY <1>1, <2>4, <3>5 DEF WalkInv, UnseenIsAhead
  <2>5. UnseenIsAhead'
    BY <1>1, <2>2, <2>4 DEF UnseenIsAhead
  <2>6. QED
    BY <1>3, <2>3, <2>5 DEF WalkInv
<1>7. QED
  BY <1>5, <1>6

LEMMA OthersKept ==
    ASSUME WalkInv, UNCHANGED <<log, logged, walk>> PROVE WalkInv'
<1>1. LogType' /\ WalkType'
  BY DEF WalkInv, LogType, WalkType
<1>2. UnseenIsAhead'
  BY DEF WalkInv, UnseenIsAhead, Ahead, Rank
<1>3. QED
  BY <1>1, <1>2 DEF WalkInv

LEMMA NextWalk == WalkInv /\ [Next]_vars => WalkInv'
<1> SUFFICES ASSUME WalkInv, [Next]_vars PROVE WalkInv'
  OBVIOUS
<1>1. ASSUME UNCHANGED <<log, logged, walk>> PROVE WalkInv'
  BY <1>1, OthersKept
<1>2. ASSUME \/ \E r \in Reports : WriteReport(r)
             \/ \E c \in Connections : WriteConnection(c)
             \/ \E y \in ReportTypes : WriteType(y)
             \/ \E u \in Users : WriteAccount(u)
      PROVE  WalkInv'
  BY <1>1, <1>2 DEF WriteReport, WriteConnection, WriteType, WriteAccount
<1>3. ASSUME (\E params \in Saved : SaveQuery(params)) \/ Answer \/ Schedule PROVE WalkInv'
  BY <1>1, <1>3 DEF SaveQuery, Answer, Schedule
<1>4. CASE UNCHANGED vars
  BY <1>1, <1>4 DEF vars
<1>5. QED
  BY <1>2, <1>3, <1>4, LogEntryKept, PurgeKept, OpenLogKept, ReadRowsKept, ReadCountKept DEF Next

\* A reader of the audit log who comes to the last page has missed no entry that was there
\* all along, for any number of entries, size of pages, and changes in between.
THEOREM WalkCorrect == Spec => []WalkMissesNothing
<1>1. WalkInv => WalkMissesNothing
  BY DEF WalkInv, UnseenIsAhead, WalkMissesNothing
<1>2. QED
  BY <1>1, InitWalk, NextWalk, PTL DEF Spec

(* The rows of a query in the file of a report. *)

\* A cell of a sensitive column is masked when the first row has the column, and the others
\* keep their values.
LEMMA MaskedCells ==
    ASSUME NEW rows, NEW i \in DOMAIN rows, NEW c \in Columns(rows[i])
    PROVE  /\ DOMAIN maskSensitiveData(rows) = DOMAIN rows
           /\ c \in Columns(maskSensitiveData(rows)[i])
           /\ maskSensitiveData(rows)[i][c] \in {rows[i][c], Null, Masked}
           /\ rows[i][c] # Null => maskSensitiveData(rows)[i][c] # Null
           /\ c \in Sensitive /\ Columns(rows[i]) = Columns(rows[1]) =>
                 maskSensitiveData(rows)[i][c] \in {Null, Masked}
<1> DEFINE sensitive == IF rows = <<>> THEN {} ELSE Columns(rows[1]) \cap Sensitive
<1>1. rows # <<>>
  OBVIOUS
<1>2. /\ DOMAIN maskSensitiveData(rows) = DOMAIN rows
      /\ maskSensitiveData(rows)[i] =
            [d \in Columns(rows[i]) \cup sensitive |->
                IF d \notin Columns(rows[i]) THEN Null
                ELSE IF d \in sensitive THEN maskValue(rows[i][d]) ELSE rows[i][d]]
  BY DEF maskSensitiveData
<1>3. c \in sensitive <=> c \in Columns(rows[1]) /\ c \in Sensitive
  BY <1>1
<1>4. /\ Columns(maskSensitiveData(rows)[i]) = Columns(rows[i]) \cup sensitive
      /\ maskSensitiveData(rows)[i][c] =
            IF c \in sensitive THEN maskValue(rows[i][c]) ELSE rows[i][c]
  <2>. HIDE DEF sensitive
  <2>1. QED
    BY <1>2 DEF Columns
<1>5. /\ maskValue(rows[i][c]) \in {Null, Masked}
      /\ rows[i][c] # Null => maskValue(rows[i][c]) # Null
  BY DEF maskValue, Null, Masked
<1>6. QED
  <2>. HIDE DEF sensitive
  <2>1. QED
    BY <1>2, <1>3, <1>4, <1>5

\* A value that is no object is printed in a column of its own, and an object is not.
LEMMA FlatCells ==
    ASSUME NEW row
    PROVE  /\ \A c \in Columns(row) : row[c].kind # "object" =>
                 <<c>> \in DOMAIN flattenObject(row) /\ flattenObject(row)[<<c>>] = row[c]
           /\ \A k \in DOMAIN flattenObject(row) :
                 /\ k[1] \in Columns(row)
                 /\ row[k[1]].kind # "object" => flattenObject(row)[k] = row[k[1]]
<1> DEFINE whole  == {<<c>> : c \in {c \in Columns(row) : row[c].kind # "object"}}
           fields == UNION {{<<c, f>> : f \in DOMAIN row[c].fields} :
                              c \in {c \in Columns(row) : row[c].kind = "object"}}
<1>1. flattenObject(row) =
         [k \in whole \cup fields |-> IF Len(k) = 1 THEN row[k[1]] ELSE row[k[1]].fields[k[2]]]
  BY DEF flattenObject
<1>2. \A k \in whole : /\ Len(k) = 1 /\ k[1] \in Columns(row)
                       /\ row[k[1]].kind # "object" /\ k = <<k[1]>>
  OBVIOUS
<1>3. \A k \in fields : k[1] \in Columns(row) /\ row[k[1]].kind = "object"
  OBVIOUS
<1>4. \A c \in Columns(row) : row[c].kind # "object" =>
         <<c>> \in whole /\ <<c>>[1] = c /\ Len(<<c>>) = 1
  OBVIOUS
<1>. HIDE DEF whole, fields
<1>5. QED
  BY <1>1, <1>2, <1>3, <1>4

\* Every table has a cell for each row and column: blank for what prints as nothing.
LEMMA TableCells ==
    ASSUME NEW rows, NEW nothing, NEW i \in DOMAIN rows
    PROVE  /\ DOMAIN Table(rows, nothing)[i] = getUniqueColumns(rows)
           /\ \A k \in getUniqueColumns(rows) :
                 Table(rows, nothing)[i][k] =
                    IF k \notin DOMAIN flattenObject(rows[i]) \/ flattenObject(rows[i])[k] \in nothing
                      THEN Blank ELSE flattenObject(rows[i])[k]
           /\ DOMAIN flattenObject(rows[i]) \subseteq getUniqueColumns(rows)
BY DEF Table, getUniqueColumns

LEMMA Formats ==
    ASSUME NEW format \in OutputFormat, NEW rows
    PROVE  /\ format = "JSON" => Exporter(format, rows) = rows
           /\ format # "JSON" => \E nothing \in {{Null}, {Null, Zero}} :
                 Exporter(format, rows) = Table(rows, nothing) /\ (format # "PDF" => nothing = {Null})
BY DEF OutputFormat, Exporter, JsonExporter, CsvExporter, ExcelExporter, PdfExporter, WordExporter,
       TxtExporter

LEMMA AllWholeAndMasked == \A rows : WholeAndMasked(rows)
<1> SUFFICES ASSUME NEW rows, NEW format \in OutputFormat, NEW i \in DOMAIN rows,
                    NEW c \in Columns(rows[i])
             PROVE  LET masked == maskSensitiveData(rows)
                        file   == Exporter(format, masked)
                    IN  /\ format # "JSON" /\ rows[i][c].kind \in {"text", "array", "falsy"} =>
                              /\ \A j \in DOMAIN rows : <<c>> \in DOMAIN file[j]
                              /\ file[i][<<c>>] = Blank => format = "PDF" /\ rows[i][c] = Zero
                        /\ /\ c \in Sensitive
                           /\ \A j \in DOMAIN rows : Columns(rows[j]) = Columns(rows[1])
                           =>
                              \A k \in DOMAIN file[i] :
                                 (IF format = "JSON" THEN k ELSE k[1]) = c =>
                                     file[i][k] \in {Masked, Blank, Null}
  BY DEF WholeAndMasked
<1> DEFINE masked == maskSensitiveData(rows)
           file   == Exporter(format, masked)
<1>1. /\ DOMAIN masked = DOMAIN rows
      /\ c \in Columns(masked[i])
      /\ masked[i][c] \in {rows[i][c], Null, Masked}
      /\ rows[i][c] # Null => masked[i][c] # Null
      /\ c \in Sensitive /\ Columns(rows[i]) = Columns(rows[1]) => masked[i][c] \in {Null, Masked}
  BY MaskedCells
<1>. HIDE DEF masked
<1>2. ASSUME NEW nothing \in {{Null}, {Null, Zero}}, file = Table(masked, nothing),
             rows[i][c].kind \in {"text", "array", "falsy"}
      PROVE  /\ \A j \in DOMAIN rows : <<c>> \in DOMAIN file[j]
             /\ file[i][<<c>>] = Blank => nothing = {Null, Zero} /\ rows[i][c] = Zero
  <2>1. rows[i][c] # Null /\ rows[i][c] # Blank
    BY <1>2 DEF Null, Blank
  <2>2. masked[i][c] \in {rows[i][c], Masked} /\ masked[i][c] # Null
    BY <1>1, <2>1
  <2>3. masked[i][c].kind # "object" /\ masked[i][c] # Blank
    BY <1>2, <2>1, <2>2 DEF Masked, Blank
  <2>4. <<c>> \in DOMAIN flattenObject(masked[i]) /\ flattenObject(masked[i])[<<c>>] = masked[i][c]
    BY <1>1, <2>3, FlatCells
  <2>5. <<c>> \in getUniqueColumns(masked)
    BY <1>1, <2>4, TableCells
  <2>6. \A j \in DOMAIN rows : <<c>> \in DOMAIN file[j]
    BY <1>1, <1>2, <2>5, TableCells
  <2>7. file[i][<<c>>] = IF masked[i][c] \in nothing THEN Blank ELSE masked[i][c]
    BY <1>1, <1>2, <2>4, <2>5, TableCells
  <2>8. Masked # Zero
    BY DEF Masked, Zero
  <2>9. QED
    BY <1>2, <2>2, <2>3, <2>6, <2>7, <2>8
<1>3. ASSUME format # "JSON", rows[i][c].kind \in {"text", "array", "falsy"}
      PROVE  /\ \A j \in DOMAIN rows : <<c>> \in DOMAIN file[j]
             /\ file[i][<<c>>] = Blank => format = "PDF" /\ rows[i][c] = Zero
  <2>1. PICK nothing \in {{Null}, {Null, Zero}} :
           file = Table(masked, nothing) /\ (format # "PDF" => nothing = {Null})
    BY <1>3, Formats
  <2>2. /\ \A j \in DOMAIN rows : <<c>> \in DOMAIN file[j]
        /\ file[i][<<c>>] = Blank => nothing = {Null, Zero} /\ rows[i][c] = Zero
    BY <1>2, <1>3, <2>1
  <2>3. Zero \notin {Null}
    BY DEF Null, Zero
  <2>4. {Null, Zero} # {Null}
    BY <2>3
  <2>5. QED
    BY <2>1, <2>2, <2>4
<1>4. ASSUME c \in Sensitive, \A j \in DOMAIN rows : Columns(rows[j]) = Columns(rows[1]),
             NEW k \in DOMAIN file[i], (IF format = "JSON" THEN k ELSE k[1]) = c
      PROVE  file[i][k] \in {Masked, Blank, Null}
  <2>1. masked[i][c] \in {Null, Masked} /\ masked[i][c].kind # "object"
    BY <1>1, <1>4 DEF Null, Masked
  <2>2. CASE format = "JSON"
    <3>1. file = masked
      BY <2>2, Formats
    <3>2. QED
      BY <1>4, <2>1, <2>2, <3>1
  <2>3. CASE format # "JSON"
    <3>1. PICK nothing \in {{Null}, {Null, Zero}} : file = Table(masked, nothing)
      BY <2>3, Formats
    <3>2. k \in getUniqueColumns(masked)
      BY <1>1, <1>4, <3>1, TableCells
    <3>3. file[i][k] = IF \/ k \notin DOMAIN flattenObject(masked[i])
                          \/ flattenObject(masked[i])[k] \in nothing
                         THEN Blank ELSE flattenObject(masked[i])[k]
      BY <1>1, <3>1, <3>2, TableCells
    <3>4. k \in DOMAIN flattenObject(masked[i]) => flattenObject(masked[i])[k] = masked[i][c]
      BY <1>4, <2>1, <2>3, FlatCells
    <3>5. QED
      BY <2>1, <3>3, <3>4
  <2>4. QED
    BY <2>2, <2>3
<1>5. QED
  BY <1>3, <1>4 DEF masked

\* Whatever rows a query answers with, they reach the file of a report with a cell for every
\* value and, where all of them have the same columns, without a value of a sensitive one.
THEOREM FilesAreSafe == Spec => []FilesAreWholeAndMasked
<1>1. FilesAreWholeAndMasked
  BY AllWholeAndMasked DEF FilesAreWholeAndMasked
<1>2. QED
  BY <1>1, PTL
-----------------------------------------------------------------------------
(* What a user is shown. *)

\* What is shown to a user is made of their own rows and the two totals: these are what it
\* is made of.
SameRows(u) ==
    /\ ReportsOf(u)' = ReportsOf(u) /\ ConnectionsOf(u)' = ConnectionsOf(u)
    /\ \A r \in ReportsOf(u) : report'[r] = report[r]
    /\ \A c \in ConnectionsOf(u) : connection'[c] = connection[c]
    /\ UnusedConnections(u)' = UnusedConnections(u)
    /\ {e \in log' : e.user = u} = {e \in log : e.user = u}
    /\ \A r \in ReportsOf(u) : FrequencyOf(r)' = FrequencyOf(r)
    /\ Count(account)' = Count(account) /\ Count(DOMAIN reportType)' = Count(DOMAIN reportType)

LEMMA OwnRows ==
    ASSUME NEW u \in Users, Basis(u)' = Basis(u) PROVE SameRows(u)
<1>1. {<<r, report'[r]>> : r \in ReportsOf(u)'} = {<<r, report[r]>> : r \in ReportsOf(u)}
  BY DEF Basis, ReportsOf
<1>2. {<<c, connection'[c]>> : c \in ConnectionsOf(u)'} =
         {<<c, connection[c]>> : c \in ConnectionsOf(u)}
  BY DEF Basis, ConnectionsOf
<1>3. ({report[r].connection : r \in DOMAIN report} \cap ConnectionsOf(u))' =
        {report[r].connection : r \in DOMAIN report} \cap ConnectionsOf(u)
  BY DEF Basis
<1>4. Matching(log, u)' = Matching(log, u)
  BY DEF Basis
<1>5. ReportsOf(u)' = ReportsOf(u) /\ \A r \in ReportsOf(u) : report'[r] = report[r]
  <2>1. \A r \in ReportsOf(u)' : <<r, report'[r]>> \in {<<s, report[s]>> : s \in ReportsOf(u)}
    BY <1>1
  <2>2. \A r \in ReportsOf(u) : <<r, report[r]>> \in {<<s, report'[s]>> : s \in ReportsOf(u)'}
    BY <1>1
  <2>3. QED
    BY <2>1, <2>2
<1>6. /\ ConnectionsOf(u)' = ConnectionsOf(u)
      /\ \A c \in ConnectionsOf(u) : connection'[c] = connection[c]
  <2>1. \A c \in ConnectionsOf(u)' :
           <<c, connection'[c]>> \in {<<d, connection[d]>> : d \in ConnectionsOf(u)}
    BY <1>2
  <2>2. \A c \in ConnectionsOf(u) :
           <<c, connection[c]>> \in {<<d, connection'[d]>> : d \in ConnectionsOf(u)'}
    BY <1>2
  <2>3. QED
    BY <2>1, <2>2
<1>7. UnusedConnections(u)' = UnusedConnections(u)
  BY <1>3, <1>6 DEF UnusedConnections
<1>8. {e \in log' : e.user = u} = {e \in log : e.user = u}
  BY <1>4 DEF Matching
<1>9. \A r \in ReportsOf(u) : FrequencyOf(r)' = FrequencyOf(r)
  <2>1. {<<TypeOf[r], FrequencyOf(r)'>> : r \in ReportsOf(u)'} =
           {<<TypeOf[r], FrequencyOf(r)>> : r \in ReportsOf(u)}
    BY DEF Basis, ReportsOf
  <2>2. SUFFICES ASSUME NEW r \in ReportsOf(u) PROVE FrequencyOf(r)' = FrequencyOf(r)
    OBVIOUS
  <2>3. <<TypeOf[r], FrequencyOf(r)'>> \in {<<TypeOf[q], FrequencyOf(q)>> : q \in ReportsOf(u)}
    BY <1>5, <2>1
  <2>4. PICK q \in ReportsOf(u) : TypeOf[r] = TypeOf[q] /\ FrequencyOf(r)' = FrequencyOf(q)
    BY <2>3
  <2>5. QED
    BY <2>4 DEF FrequencyOf
<1>10. Count(account)' = Count(account) /\ Count(DOMAIN reportType)' = Count(DOMAIN reportType)
  BY DEF Basis
<1>11. QED
  BY <1>5, <1>6, <1>7, <1>8, <1>9, <1>10 DEF SameRows

\* The seventeen statements, and what is computed from their answers.
LEMMA SameMetrics ==
    ASSUME NEW u \in Users, SameRows(u) PROVE getMetrics(u)' = getMetrics(u)
<1>1. TasksOf(u)' = TasksOf(u) /\ \A r \in TasksOf(u) : Task(r)' = Task(r)
  BY DEF SameRows, TasksOf, Task
<1>2. ReadMetrics(u)' = ReadMetrics(u)
  <2>1. /\ ReportsOf(u)' = ReportsOf(u) /\ ConnectionsOf(u)' = ConnectionsOf(u)
        /\ \A r \in ReportsOf(u) : report'[r] = report[r]
        /\ \A c \in ConnectionsOf(u) : connection'[c] = connection[c]
    BY DEF SameRows
  <2>2. \A m : {r \in ReportsOf(u)' : report'[r].month = m} =
               {r \in ReportsOf(u) : report[r].month = m}
    BY <2>1
  <2>3. \A s : {r \in TasksOf(u)' : Task(r)' = s} = {r \in TasksOf(u) : Task(r) = s}
    BY <1>1
  <2>4. \A k : {c \in ConnectionsOf(u)' : connection'[c].kind = k} =
               {c \in ConnectionsOf(u) : connection[c].kind = k}
    BY <2>1
  <2>5. {connection'[c].kind : c \in ConnectionsOf(u)'} =
           {connection[c].kind : c \in ConnectionsOf(u)}
    BY <2>1
  <2>6. [s \in Statuses |-> Cardinality({r \in TasksOf(u)' : Task(r)' = s})] =
        [s \in Statuses |-> Cardinality({r \in TasksOf(u) : Task(r) = s})]
    BY <2>3
  <2>7. [k \in {connection'[c].kind : c \in ConnectionsOf(u)'} |->
            Cardinality({c \in ConnectionsOf(u)' : connection'[c].kind = k})] =
        [k \in {connection[c].kind : c \in ConnectionsOf(u)} |->
            Cardinality({c \in ConnectionsOf(u) : connection[c].kind = k})]
    BY <2>4, <2>5
  <2>8. \A f : {r \in ReportsOf(u)' : FrequencyOf(r)' = f} = {r \in ReportsOf(u) : FrequencyOf(r) = f}
    BY DEF SameRows
  <2>9. {FrequencyOf(r)' : r \in ReportsOf(u)'} = {FrequencyOf(r) : r \in ReportsOf(u)}
    BY DEF SameRows
  <2>10. [f \in {FrequencyOf(r)' : r \in ReportsOf(u)'} |->
             Cardinality({r \in ReportsOf(u)' : FrequencyOf(r)' = f})] =
         [f \in {FrequencyOf(r) : r \in ReportsOf(u)} |->
             Cardinality({r \in ReportsOf(u) : FrequencyOf(r) = f})]
    BY <2>8, <2>9
  <2>11. /\ Cardinality(account') = Cardinality(account)
         /\ Cardinality(DOMAIN reportType') = Cardinality(DOMAIN reportType)
    BY DEF SameRows, Count
  <2>12. QED
    BY <1>1, <2>1, <2>2, <2>6, <2>7, <2>10, <2>11
       DEF ReadMetrics, Count, Executed, executedAt, Timed, duration
<1>3. QED
  BY <1>2 DEF getMetrics, Percent

\* The eight statements, and the answers they may make.
LEMMA SameInsights ==
    ASSUME NEW u \in Users, SameRows(u) PROVE getInsights(u, log)' = getInsights(u, log)
<1>1. /\ ReportsOf(u)' = ReportsOf(u) /\ ConnectionsOf(u)' = ConnectionsOf(u)
      /\ \A r \in ReportsOf(u) : report'[r] = report[r]
      /\ \A c \in ConnectionsOf(u) : connection'[c] = connection[c]
      /\ UnusedConnections(u)' = UnusedConnections(u)
  BY DEF SameRows
<1>2. TasksOf(u)' = TasksOf(u) /\ \A r \in TasksOf(u) : Task(r)' = Task(r)
  BY <1>1 DEF TasksOf, Task
<1>3. HighFailureReports(u)' = HighFailureReports(u)
  BY <1>2 DEF HighFailureReports
<1>4. SlowestReports(u)' = SlowestReports(u)
  BY <1>2 DEF SlowestReports, Timed, duration
<1>5. MissingDetails(u)' = MissingDetails(u)
  BY <1>1 DEF MissingDetails
<1>6. StaleReports(u)' = StaleReports(u) /\ \A r \in StaleReports(u) : report'[r] = report[r]
  BY <1>1 DEF StaleReports
<1>7. FailedConnections(u)' = FailedConnections(u)
  BY <1>1 DEF FailedConnections
<1>8. ReportsWithoutTasks(u)' = ReportsWithoutTasks(u)
  BY <1>1 DEF ReportsWithoutTasks, Task
<1>9. Stalest(u)' = Stalest(u)
  <2>1. Limited(StaleReports(u))' = Limited(StaleReports(u))
    BY <1>6 DEF Limited, Count
  <2>2. \A L \in Limited(StaleReports(u)) : L \subseteq StaleReports(u)
    BY DEF Limited
  <2>3. \A L \in Limited(StaleReports(u)) :
           (\A r \in L, s \in StaleReports(u) \ L : report'[r].days >= report'[s].days) <=>
           (\A r \in L, s \in StaleReports(u) \ L : report[r].days >= report[s].days)
    BY <1>6, <2>2
  <2>4. QED
    BY <1>6, <2>1, <2>3 DEF Stalest
<1>10. AuditActivity(u, log)' = AuditActivity(u, log)
  <2>1. {e \in log' : e.user = u} = {e \in log : e.user = u}
    BY DEF SameRows
  <2>2. QED
    BY <2>1 DEF AuditActivity, Count, Insight
<1> DEFINE before == [L \in Stalest(u) |->
                        {Insight("stale", r, StalePriority(report[r].days)) : r \in L}]
           after  == [L \in Stalest(u) |->
                        {Insight("stale", r, StalePriority(report'[r].days)) : r \in L}]
<1>11. after = before
  <2>1. \A L \in Stalest(u) : L \subseteq StaleReports(u)
    BY DEF Stalest, Limited
  <2>2. QED
    BY <1>6, <2>1
<1>12. /\ Limited(HighFailureReports(u))' = Limited(HighFailureReports(u))
       /\ Limited(SlowestReports(u))' = Limited(SlowestReports(u))
       /\ Limited(MissingDetails(u))' = Limited(MissingDetails(u))
       /\ Limited(UnusedConnections(u))' = Limited(UnusedConnections(u))
       /\ Limited(FailedConnections(u))' = Limited(FailedConnections(u))
       /\ Limited(ReportsWithoutTasks(u))' = Limited(ReportsWithoutTasks(u))
  BY <1>1, <1>3, <1>4, <1>5, <1>7, <1>8 DEF Limited, Count
<1> DEFINE AnswerOf(failing, slow, lacking, unused, stale, broken, idle, activity) ==
              {Insight("failure", r, 9) : r \in failing} \cup
              {Insight("slow", r, SlowPriority(NULL)) : r \in slow} \cup
              {Insight("details", r, 6) : r \in lacking} \cup
              {Insight("unused", c, 3) : c \in unused} \cup
              stale \cup
              {Insight("connection", c, 10) : c \in broken} \cup
              {Insight("no task", r, 4) : r \in idle} \cup
              activity
<1>13. getInsights(u, log) =
         {AnswerOf(failing, slow, lacking, unused, before[stale], broken, idle, AuditActivity(u, log)) :
            failing \in Limited(HighFailureReports(u)), slow \in Limited(SlowestReports(u)),
            lacking \in Limited(MissingDetails(u)), unused \in Limited(UnusedConnections(u)),
            stale \in Stalest(u), broken \in Limited(FailedConnections(u)),
            idle \in Limited(ReportsWithoutTasks(u))}
  BY DEF getInsights, duration
<1>14. getInsights(u, log)' =
         {AnswerOf(failing, slow, lacking, unused, after[stale], broken, idle, AuditActivity(u, log)') :
            failing \in Limited(HighFailureReports(u))', slow \in Limited(SlowestReports(u))',
            lacking \in Limited(MissingDetails(u))', unused \in Limited(UnusedConnections(u))',
            stale \in Stalest(u)', broken \in Limited(FailedConnections(u))',
            idle \in Limited(ReportsWithoutTasks(u))'}
  BY <1>9 DEF getInsights, duration, Insight, SlowPriority, StalePriority
<1>. HIDE DEF AnswerOf, before, after
<1>15. QED
  BY <1>9, <1>10, <1>11, <1>12, <1>13, <1>14

\* What the dashboard shows a user is made of their own rows, audit entries, the frequency
\* of their report types, whether anybody uses their connections, and of how many accounts
\* and report types there are: no other write moves it.
THEOREM DashboardIsOwn == Spec => OwnRowsAndTotals
<1>1. ASSUME NEW u \in Users, Basis(u)' = Basis(u) PROVE Shown(u)' = Shown(u)
  BY <1>1, OwnRows, SameMetrics, SameInsights DEF Shown
<1>2. [\A u \in Users : Basis(u)' = Basis(u) => Shown(u)' = Shown(u)]_vars
  BY <1>1
<1>3. QED
  BY <1>2, PTL DEF OwnRowsAndTotals
-----------------------------------------------------------------------------
(* The parameters of a query. *)

LEMMA TwoElements ==
    ASSUME NEW x, NEW y, x # y PROVE IsFiniteSet({x, y}) /\ Cardinality({x, y}) = 2
<1>1. IsFiniteSet({x}) /\ Cardinality({x}) = 1
  BY FS_Singleton
<1>2. y \notin {x}
  OBVIOUS
<1>3. IsFiniteSet({x} \cup {y}) /\ Cardinality({x} \cup {y}) = Cardinality({x}) + 1
  BY <1>1, <1>2, FS_AddElement
<1>4. {x} \cup {y} = {x, y}
  OBVIOUS
<1>5. QED
  BY <1>1, <1>3, <1>4

\* A name that has places has a first.
LEMMA FirstPlace ==
    ASSUME NEW S \in SUBSET Nat, S # {} PROVE \E i \in S : \A j \in S : i <= j
<1>1. PICK i \in S : \A j \in S : <<j, i>> \notin OpToRel(<, Nat)
  BY NatLessThanWellFounded, WFMin
<1>2. \A j \in S : ~(j < i)
  BY <1>1 DEF OpToRel
<1>3. QED
  BY <1>2

\* A name that has finitely many places has a last.
LEMMA LastPlace ==
    ASSUME NEW n \in Nat, NEW S \in SUBSET (1 .. n), S # {} PROVE \E i \in S : \A j \in S : i >= j
<1>1. {n - i : i \in S} \subseteq Nat /\ {n - i : i \in S} # {}
  <2>1. \A i \in S : n - i \in Nat
    OBVIOUS
  <2>2. QED
    BY <2>1
<1>2. PICK d \in {n - i : i \in S} : \A e \in {n - i : i \in S} : d <= e
  BY <1>1, FirstPlace
<1>3. PICK i \in S : d = n - i
  BY <1>2
<1>4. \A j \in S : n - i <= n - j
  BY <1>2, <1>3
<1>5. QED
  BY <1>4

\* Two saves, and the rows of both, the parameters of the later one named differently from
\* each other.
TwoSaves(P, before, last, all) ==
    /\ before \in Seq(P) /\ last \in Seq(P) /\ all = before \o last
    /\ \A i, j \in DOMAIN last : Bare(last[i].name) = Bare(last[j].name) => i = j

\* A parameter of the later save is the last of its name.
LEMMA LaterCounts ==
    ASSUME NEW P, NEW before, NEW last, NEW all, TwoSaves(P, before, last, all), NEW i \in DOMAIN last,
           NEW x \in DOMAIN all,
           Bare(all[x].name) = Bare(last[i].name)
    PROVE  /\ Convert(all[LastOf(all, x)]) = Convert(last[i])
           /\ Named(all, x) \in SUBSET Nat
<1> DEFINE m == Len(before)
<1>1. /\ m \in Nat /\ Len(last) \in Nat /\ DOMAIN last = 1 .. Len(last)
      /\ DOMAIN all = 1 .. m + Len(last)
      /\ \A j \in 1 .. Len(last) : all[m + j] = last[j]
  BY DEF TwoSaves
<1>. HIDE DEF m
<1>2. m + i \in Named(all, x)
  BY <1>1 DEF Named
<1>3. \A k \in Named(all, x) : k <= m + i
  <2>1. SUFFICES ASSUME NEW k \in Named(all, x), k > m + i PROVE FALSE
    BY <1>1 DEF Named
  <2>2. k \in 1 .. m + Len(last) /\ Bare(all[k].name) = Bare(last[i].name)
    BY <1>1, <2>1 DEF Named
  <2>3. k - m \in 1 .. Len(last) /\ m + (k - m) = k
    BY <1>1, <2>1, <2>2
  <2>4. all[k] = last[k - m]
    BY <1>1, <2>3
  <2>5. k - m = i
    BY <1>1, <2>2, <2>3, <2>4 DEF TwoSaves
  <2>6. QED
    BY <1>1, <2>1, <2>3, <2>5
<1>4. Named(all, x) \subseteq Nat
  BY <1>1 DEF Named
<1>5. LastOf(all, x) = m + i
  BY <1>1, <1>2, <1>3, <1>4 DEF LastOf
<1>6. QED
  BY <1>1, <1>4, <1>5

\* What the entries are that a parameter of the later save may be given.
Held(params, name) == {e \in mapDbParameters(params) : e.name = name}
HeldAt(params, i) == {e \in mapDbParameters(params) : e.place = i}

LEMMA ByName ==
    ASSUME NEW P, NEW before, NEW last, NEW all, TwoSaves(P, before, last, all), NEW i \in DOMAIN last
    PROVE  /\ Held(all, Bare(last[i].name)) # {}
           /\ \A e \in Held(all, Bare(last[i].name)) : e.value = Convert(last[i])
<1> DEFINE entry(x) == [name  |-> Bare(all[x].name),
                        place |-> Cardinality({j \in Firsts(all) : j <= x}),
                        value |-> Convert(all[LastOf(all, x)])]
<1>1. mapDbParameters(all) = {entry(x) : x \in Firsts(all)}
  BY DEF mapDbParameters
<1>2. \A x : entry(x).name = Bare(all[x].name) /\ entry(x).value = Convert(all[LastOf(all, x)])
  OBVIOUS
<1>3. PICK x \in DOMAIN all : all[x] = last[i]
  <2>1. /\ Len(before) + i \in DOMAIN all /\ all[Len(before) + i] = last[i]
    BY DEF TwoSaves
  <2>2. QED
    BY <2>1
<1>4. Named(all, x) \subseteq Nat
  BY <1>3, LaterCounts
<1>. HIDE DEF entry
<1>5. PICK f \in Named(all, x) : \A j \in Named(all, x) : f <= j
  <2>1. x \in Named(all, x)
    BY <1>3 DEF Named
  <2>2. QED
    BY <1>4, <2>1, FirstPlace
<1>6. f \in DOMAIN all /\ Bare(all[f].name) = Bare(last[i].name) /\ Named(all, f) = Named(all, x)
  BY <1>3, <1>5 DEF Named
<1>7. f \in Firsts(all)
  BY <1>5, <1>6 DEF Firsts
<1>8. entry(f) \in Held(all, Bare(last[i].name))
  BY <1>1, <1>2, <1>6, <1>7 DEF Held
<1>9. ASSUME NEW e \in Held(all, Bare(last[i].name)) PROVE e.value = Convert(last[i])
  <2>1. PICK y \in Firsts(all) : e = entry(y)
    BY <1>1, <1>9 DEF Held
  <2>2. y \in DOMAIN all /\ Bare(all[y].name) = Bare(last[i].name)
    BY <1>2, <1>9, <2>1 DEF Held, Firsts
  <2>3. Convert(all[LastOf(all, y)]) = Convert(last[i])
    BY <2>2, LaterCounts
  <2>4. QED
    BY <1>2, <2>1, <2>3
<1>10. QED
  BY <1>8, <1>9

\* When the save before named nothing, or the same in the same order, the places of the
\* names are those in the later save.
LEMMA PlacesOfNames ==
    ASSUME NEW P, NEW before, NEW last, NEW all, TwoSaves(P, before, last, all),
           NamesIn(before) \in {<<>>, NamesIn(last)}
    PROVE  /\ Firsts(all) = DOMAIN last
           /\ \A i \in DOMAIN last : Bare(all[i].name) = Bare(last[i].name)
<1> DEFINE m == Len(before)
           n == Len(last)
<1>1. /\ m \in Nat /\ n \in Nat /\ DOMAIN last = 1 .. n /\ DOMAIN before = 1 .. m
      /\ DOMAIN all = 1 .. m + n
      /\ \A j \in 1 .. n : all[m + j] = last[j]
      /\ \A j \in 1 .. m : all[j] = before[j]
  BY DEF TwoSaves
<1>. HIDE DEF m, n
<1>2. \/ m = 0
      \/ m = n /\ \A j \in 1 .. n : Bare(before[j].name) = Bare(last[j].name)
  <2>1. CASE NamesIn(before) = <<>>
    <3>1. DOMAIN NamesIn(before) = 1 .. 0
      BY <2>1
    <3>2. 1 .. m = 1 .. 0
      BY <1>1, <3>1 DEF NamesIn
    <3>3. QED
      BY <1>1, <3>2
  <2>2. CASE NamesIn(before) = NamesIn(last)
    <3>1. DOMAIN before = DOMAIN last /\ \A j \in DOMAIN last : NamesIn(before)[j] = NamesIn(last)[j]
      BY <2>2 DEF NamesIn
    <3>2. 1 .. m = 1 .. n
      BY <1>1, <3>1
    <3>3. m = n
      BY <1>1, <3>2
    <3>4. QED
      BY <1>1, <3>1, <3>3 DEF NamesIn
  <2>3. QED
    BY <2>1, <2>2
<1>3. \A i \in 1 .. n : i \in DOMAIN all /\ Bare(all[i].name) = Bare(last[i].name)
  BY <1>1, <1>2
<1>4. \A k \in DOMAIN all \ 1 .. n :
         k - n \in 1 .. n /\ k - n < k /\ Bare(all[k].name) = Bare(last[k - n].name)
  <2>1. SUFFICES ASSUME NEW k \in DOMAIN all \ 1 .. n
                 PROVE  k - n \in 1 .. n /\ k - n < k /\ Bare(all[k].name) = Bare(last[k - n].name)
    OBVIOUS
  <2>2. m = n /\ k - m \in 1 .. n /\ m + (k - m) = k
    BY <1>1, <1>2, <2>1
  <2>3. all[k] = last[k - m]
    BY <1>1, <2>2
  <2>4. QED
    BY <1>1, <2>2, <2>3
<1>5. ASSUME NEW i \in 1 .. n PROVE i \in Firsts(all)
  <2>1. SUFFICES ASSUME NEW j \in Named(all, i), j < i PROVE FALSE
    BY <1>1, <1>3, <1>5 DEF Firsts, Named
  <2>2. j \in 1 .. n /\ Bare(all[j].name) = Bare(all[i].name)
    BY <1>1, <1>5, <2>1 DEF Named
  <2>3. j = i
    BY <1>1, <1>3, <1>5, <2>2 DEF TwoSaves
  <2>4. QED
    BY <1>1, <2>1, <2>2, <2>3
<1>6. ASSUME NEW k \in Firsts(all), k \notin 1 .. n PROVE FALSE
  <2>1. k \in DOMAIN all \ 1 .. n /\ \A j \in Named(all, k) : k <= j
    BY <1>6 DEF Firsts
  <2>2. k - n \in Named(all, k)
    BY <1>3, <1>4, <2>1 DEF Named
  <2>3. QED
    BY <1>1, <1>4, <2>1, <2>2
<1>7. QED
  BY <1>1, <1>3, <1>5, <1>6

LEMMA ByPlace ==
    ASSUME NEW P, NEW before, NEW last, NEW all, TwoSaves(P, before, last, all), NEW i \in DOMAIN last,
           NamesIn(before) \in {<<>>, NamesIn(last)}
    PROVE  /\ HeldAt(all, i) # {}
           /\ \A e \in HeldAt(all, i) : e.value = Convert(last[i])
<1> DEFINE entry(x) == [name  |-> Bare(all[x].name),
                        place |-> Cardinality({j \in Firsts(all) : j <= x}),
                        value |-> Convert(all[LastOf(all, x)])]
<1>1. mapDbParameters(all) = {entry(x) : x \in Firsts(all)}
  BY DEF mapDbParameters
<1>2. \A x : /\ entry(x).place = Cardinality({j \in Firsts(all) : j <= x})
             /\ entry(x).value = Convert(all[LastOf(all, x)])
  OBVIOUS
<1>3. /\ Len(last) \in Nat /\ DOMAIN last = 1 .. Len(last)
      /\ DOMAIN last \subseteq DOMAIN all
  BY DEF TwoSaves
<1>4. Firsts(all) = DOMAIN last /\ \A x \in DOMAIN last : Bare(all[x].name) = Bare(last[x].name)
  BY PlacesOfNames
<1>. HIDE DEF entry
<1>5. ASSUME NEW x \in DOMAIN last PROVE entry(x).place = x
  <2>1. {j \in Firsts(all) : j <= x} = 1 .. x
    BY <1>3, <1>4, <1>5
  <2>2. Cardinality(1 .. x) = x
    BY <1>3, <1>5, FS_Interval
  <2>3. QED
    BY <1>2, <2>1, <2>2
<1>6. HeldAt(all, i) = {entry(i)}
  BY <1>1, <1>4, <1>5 DEF HeldAt
<1>7. entry(i).value = Convert(last[i])
  BY <1>2, <1>3, <1>4, LaterCounts
<1>8. QED
  BY <1>6, <1>7

LEMMA LastSaves ==
    ASSUME NEW P, NEW before \in Seq(P), NEW last \in Seq(P)
    PROVE  LastSaveCounts(before, last)
<1>1. SUFFICES ASSUME \A i, j \in DOMAIN last : NamesIn(last)[i] = NamesIn(last)[j] => i = j,
                      NEW type \in DatabaseType,
                      Adapter(type).binds = "name" \/ NamesIn(before) \in {<<>>, NamesIn(last)}
               PROVE  Received(type, NamesIn(last), mapDbParameters(before \o last)) =
                         [i \in DOMAIN last |-> Convert(last[i])]
  BY DEF LastSaveCounts
<1> DEFINE all == before \o last
<1>2. TwoSaves(P, before, last, all)
  BY <1>1 DEF TwoSaves, NamesIn
<1>. HIDE DEF all
<1>3. DOMAIN NamesIn(last) = DOMAIN last /\ \A i \in DOMAIN last : NamesIn(last)[i] = Bare(last[i].name)
  BY DEF NamesIn
<1> DEFINE held(i) == {e \in mapDbParameters(all) :
                         IF Adapter(type).binds = "place" THEN e.place = i
                                                         ELSE e.name = NamesIn(last)[i]}
<1>4. ASSUME NEW i \in DOMAIN last
      PROVE  held(i) # {} /\ \A e \in held(i) : e.value = Convert(last[i])
  <2>1. CASE Adapter(type).binds = "place"
    <3>1. held(i) = HeldAt(all, i)
      BY <2>1 DEF HeldAt
    <3>2. NamesIn(before) \in {<<>>, NamesIn(last)}
      BY <1>1, <2>1
    <3>3. QED
      BY <1>2, <1>4, <3>1, <3>2, ByPlace
  <2>2. CASE Adapter(type).binds # "place"
    <3>1. held(i) = Held(all, Bare(last[i].name))
      BY <1>3, <1>4, <2>2 DEF Held
    <3>2. QED
      BY <1>2, <1>4, <3>1, ByName
  <2>3. QED
    BY <2>1, <2>2
<1>5. Received(type, NamesIn(last), mapDbParameters(all)) =
         [i \in DOMAIN last |-> IF held(i) = {} THEN "missing" ELSE (CHOOSE e \in held(i) : TRUE).value]
  BY <1>3 DEF Received
<1>. HIDE DEF held
<1>6. \A i \in DOMAIN last :
         (IF held(i) = {} THEN "missing" ELSE (CHOOSE e \in held(i) : TRUE).value) = Convert(last[i])
  BY <1>4
<1>7. QED
  BY <1>5, <1>6 DEF all

\* Otherwise it may not be: a query that binds by place and whose last save no longer names
\* the first parameter of the save before is given the old value of that one in the first
\* place of the new list.
THEOREM OldParametersComeFirst ==
    ASSUME NEW P, NEW before \in Seq(P), NEW last \in Seq(P), before # <<>>, last # <<>>,
           \A j \in DOMAIN last : Bare(last[j].name) # Bare(before[1].name),
           NEW type \in DatabaseType, Adapter(type).binds = "place"
    PROVE  Received(type, NamesIn(last), mapDbParameters(before \o last))[1] =
              Convert(before[LastOf(before, 1)])
<1> DEFINE all == before \o last
           m == Len(before)
           entry(x) == [name  |-> Bare(all[x].name),
                        place |-> Cardinality({j \in Firsts(all) : j <= x}),
                        value |-> Convert(all[LastOf(all, x)])]
<1>1. /\ m \in Nat \ {0} /\ DOMAIN before = 1 .. m
      /\ Len(last) \in Nat \ {0} /\ DOMAIN last = 1 .. Len(last)
      /\ DOMAIN all = 1 .. m + Len(last)
      /\ \A j \in 1 .. m : all[j] = before[j]
      /\ \A j \in DOMAIN all \ 1 .. m : j - m \in DOMAIN last /\ all[j] = last[j - m]
  OBVIOUS
<1>2. mapDbParameters(all) = {entry(x) : x \in Firsts(all)}
  BY DEF mapDbParameters
<1>3. \A x : /\ entry(x).place = Cardinality({j \in Firsts(all) : j <= x})
             /\ entry(x).value = Convert(all[LastOf(all, x)])
  OBVIOUS
<1>. HIDE DEF all, m, entry
<1>4. Firsts(all) \subseteq DOMAIN all /\ 1 \in Firsts(all)
  BY <1>1 DEF Firsts, Named
<1>5. entry(1).place = 1
  <2>1. {j \in Firsts(all) : j <= 1} = {1}
    BY <1>1, <1>4
  <2>2. Cardinality({1}) = 1
    BY FS_Singleton
  <2>3. QED
    BY <1>3, <2>1, <2>2
<1>6. ASSUME NEW x \in Firsts(all), entry(x).place = 1 PROVE x = 1
  <2> DEFINE upto == {j \in Firsts(all) : j <= x}
  <2>1. x \in 1 .. m + Len(last) /\ {1, x} \subseteq upto /\ upto \subseteq 1 .. x
    BY <1>1, <1>4, <1>6
  <2>2. IsFiniteSet(upto)
    <3>1. IsFiniteSet(1 .. x)
      BY <2>1, <1>1, FS_Interval
    <3>. HIDE DEF upto
    <3>2. QED
      BY <2>1, <3>1, FS_Subset
  <2>3. Cardinality(upto) = 1
    BY <1>3, <1>6
  <2>. HIDE DEF upto
  <2>4. SUFFICES ASSUME x # 1 PROVE FALSE
    OBVIOUS
  <2>5. Cardinality({1, x}) = 2
    BY <2>4, TwoElements
  <2>6. Cardinality({1, x}) <= Cardinality(upto)
    BY <2>1, <2>2, FS_Subset
  <2>7. QED
    BY <2>3, <2>5, <2>6
<1>7. Named(all, 1) = Named(before, 1)
  <2>1. \A j \in DOMAIN all \ 1 .. m : Bare(all[j].name) # Bare(all[1].name)
    BY <1>1
  <2>2. QED
    BY <1>1, <2>1 DEF Named
<1>8. all[LastOf(all, 1)] = before[LastOf(before, 1)]
  <2>1. LastOf(all, 1) = LastOf(before, 1)
    BY <1>7 DEF LastOf
  <2>2. LastOf(before, 1) \in DOMAIN before
    <3>1. 1 \in Named(before, 1) /\ Named(before, 1) \subseteq 1 .. m
      BY <1>1 DEF Named
    <3>2. PICK k \in Named(before, 1) : \A j \in Named(before, 1) : k >= j
      BY <1>1, <3>1, LastPlace
    <3>3. QED
      BY <1>1, <3>1, <3>2 DEF LastOf
  <2>3. QED
    BY <1>1, <2>1, <2>2
<1>9. {e \in mapDbParameters(all) : e.place = 1} = {entry(1)}
  BY <1>2, <1>4, <1>5, <1>6
<1>10. DOMAIN NamesIn(last) = DOMAIN last /\ 1 \in DOMAIN last
  BY <1>1 DEF NamesIn
<1>11. Received(type, NamesIn(last), mapDbParameters(all))[1] = entry(1).value
  BY <1>9, <1>10 DEF Received
<1>12. QED
  BY <1>3, <1>8, <1>11 DEF all

\* Only these actions touch the sample.
LEMMA OthersKeepSample ==
    ASSUME [Next]_vars
    PROVE  (\E params \in Saved : SaveQuery(params)) \/ Answer \/ Schedule \/ UNCHANGED sample
<1>1. Purge \/ ReadRows \/ ReadCount => UNCHANGED sample
  BY DEF Purge, ReadRows, ReadCount
<1>2. \A r, c, y, u, limit :
         \/ WriteReport(r) \/ WriteConnection(c) \/ WriteType(y) \/ WriteAccount(u)
         \/ LogEntry(u) \/ OpenLog(u, limit)
         => UNCHANGED sample
  BY DEF WriteReport, WriteConnection, WriteType, WriteAccount, LogEntry, OpenLog
<1>3. QED
  BY <1>1, <1>2 DEF Next, vars

SavesType ==
    sample.kind = "saves" => sample.before \in Saved \cup {<<>>} /\ sample.last \in Saved

LEMMA SavesTypeKept == SavesType /\ [Next]_vars => SavesType'
<1> SUFFICES ASSUME SavesType, [Next]_vars PROVE SavesType'
  OBVIOUS
<1>1. ASSUME NEW params \in Saved, SaveQuery(params) PROVE SavesType'
  BY <1>1 DEF SavesType, SaveQuery
<1>2. CASE Answer
  BY <1>2 DEF SavesType, Answer
<1>3. CASE Schedule
  BY <1>3 DEF SavesType, Schedule
<1>4. CASE UNCHANGED sample
  BY <1>4 DEF SavesType
<1>5. QED
  BY <1>1, <1>2, <1>3, <1>4, OthersKeepSample

\* Whatever lists of parameters a query is saved with, one after the other, it is given what
\* the last one says although the rows of the first stay, if it binds by name; if it binds
\* by place, then when both lists name the same parameters in the same order.
THEOREM ParametersDoArrive == Spec => []ParametersArrive
<1>1. Init => SavesType
  BY DEF Init, SavesType
<1>2. ASSUME SavesType PROVE ParametersArrive
  <2>1. SUFFICES ASSUME sample.kind = "saves" PROVE LastSaveCounts(sample.before, sample.last)
    BY DEF ParametersArrive
  <2>2. sample.before \in Saved \cup {<<>>} /\ sample.last \in Saved
    BY <1>2, <2>1 DEF SavesType
  <2>3. PICK P : sample.before \in Seq(P) /\ sample.last \in Seq(P)
    <3>1. \A params \in Saved \cup {<<>>} : \E P : params \in Seq(P)
      <4>1. \A params \in Saved : \E P : params \in Seq(P)
        BY SavesAreLists
      <4>2. <<>> \in Seq({})
        OBVIOUS
      <4>3. QED
        BY <4>1, <4>2
    <3>2. PICK P, Q : sample.before \in Seq(P) /\ sample.last \in Seq(Q)
      BY <2>2, <3>1
    <3>3. sample.before \in Seq(P \cup Q) /\ sample.last \in Seq(P \cup Q)
      BY <3>2
    <3>4. QED
      BY <3>3
  <2>4. QED
    BY <2>3, LastSaves
<1>3. QED
  BY <1>1, <1>2, SavesTypeKept, PTL DEF Spec
-----------------------------------------------------------------------------
(* The days on which a report is sent. *)

LEMMA UpTo == \A n \in Nat : IsFiniteSet(1 .. n) /\ Cardinality(1 .. n) = n
<1> SUFFICES ASSUME NEW n \in Nat PROVE IsFiniteSet(1 .. n) /\ Cardinality(1 .. n) = n
  OBVIOUS
<1>1. IsFiniteSet(1 .. n) /\ Cardinality(1 .. n) = IF 1 > n THEN 0 ELSE n - 1 + 1
  BY FS_Interval
<1>2. QED
  BY <1>1

\* A day of the month is in at most as many dates as there are months, and in all of them
\* when every month has it.
LEMMA MonthlyDates ==
    ASSUME NEW day \in Days
    PROVE  LET fires == {d \in Dates : d.day = day}
           IN  /\ IsFiniteSet(fires) /\ Cardinality(fires) \in Nat /\ Cardinality(fires) <= 12
               /\ day <= 28 => Cardinality(fires) = 12
<1> DEFINE fires == {d \in Dates : d.day = day}
           month == [d \in fires |-> d.month]
<1>1. IsFiniteSet(Months) /\ Cardinality(Months) = 12
  BY UpTo DEF Months
<1>2. \A d \in fires : d \in [month : Months, day : Days] /\ d.day = day
  BY DEF Dates
<1>3. \A d, e \in fires : d.month = e.month => d = e
  BY <1>2
<1>4. month \in Injection(fires, Months)
  BY <1>2, <1>3 DEF Injection, IsInjective
<1>5. IsFiniteSet(fires) /\ Cardinality(fires) <= 12
  BY <1>1, <1>4, FS_Injection
<1>6. ASSUME day <= 28 PROVE Cardinality(fires) = 12
  <2>1. \A m \in Months : [month |-> m, day |-> day] \in fires
    BY <1>6 DEF Dates, DaysIn, Months, Days
  <2>2. \A m \in Months : \E d \in fires : month[d] = m
    BY <2>1
  <2>3. month \in Surjection(fires, Months)
    BY <1>4, <2>2 DEF Surjection, Injection
  <2>4. QED
    BY <1>1, <1>4, <2>3, FS_Injection
<1>7. QED
  BY <1>5, <1>6, FS_CardinalityType

\* The days of the year before a month.
Before == <<0, 31, 59, 90, 120, 151, 181, 212, 243, 273, 304, 334>>

LEMMA AYear ==
    ASSUME NEW year, year = 365
    PROVE  IsFiniteSet(Dates) /\ Cardinality(Dates) = year
<1> DEFINE number == [d \in Dates |-> Before[d.month] + d.day]
<1>1. \A d \in Dates : /\ d \in [month : Months, day : Days]
                       /\ d.month \in 1 .. 12 /\ d.day \in 1 .. DaysIn(d.month)
  BY DEF Dates, Months, Days, DaysIn
<1>2. \A m \in 1 .. 12 : Before[m] \in Nat /\ Before[m] + DaysIn(m) <= year
  BY DEF Before, DaysIn
<1>3. \A m, n \in 1 .. 12 : m < n => Before[m] + DaysIn(m) <= Before[n]
  BY DEF Before, DaysIn
<1>4. \A n \in 1 .. year : \E m \in 1 .. 12 : n - Before[m] \in 1 .. DaysIn(m)
  BY DEF Before, DaysIn
<1>5. \A m \in 1 .. 12 : DaysIn(m) \in 28 .. 31
  BY DEF DaysIn
<1>. HIDE DEF Before
<1>6. \A d \in Dates : Before[d.month] + d.day \in 1 .. year
  <2>1. SUFFICES ASSUME NEW d \in Dates PROVE Before[d.month] + d.day \in 1 .. year
    OBVIOUS
  <2>2. /\ Before[d.month] \in Nat /\ DaysIn(d.month) \in Nat /\ d.day \in 1 .. DaysIn(d.month)
        /\ Before[d.month] + DaysIn(d.month) <= year
    BY <1>1, <1>2, <1>5
  <2>3. Before[d.month] + d.day \in Nat \ {0} /\ Before[d.month] + d.day <= year
    BY <2>2
  <2>4. QED
    BY <2>3
<1>7. ASSUME NEW d \in Dates, NEW e \in Dates, number[d] = number[e] PROVE d = e
  <2>1. d.month = e.month
    BY <1>1, <1>2, <1>3, <1>5, <1>7
  <2>2. d.day = e.day
    BY <1>1, <1>2, <1>7, <2>1
  <2>3. QED
    BY <1>1, <2>1, <2>2
<1>8. ASSUME NEW n \in 1 .. year PROVE \E d \in Dates : number[d] = n
  <2>1. PICK m \in 1 .. 12 : n - Before[m] \in 1 .. DaysIn(m)
    BY <1>4
  <2>2. [month |-> m, day |-> n - Before[m]] \in Dates
    BY <1>5, <2>1 DEF Dates, Months, Days
  <2>3. QED
    BY <1>2, <2>1, <2>2
<1>9. number \in Injection(Dates, 1 .. year) /\ number \in Surjection(Dates, 1 .. year)
  BY <1>6, <1>7, <1>8 DEF Injection, IsInjective, Surjection
<1>10. IsFiniteSet(1 .. year) /\ Cardinality(1 .. year) = year
  <2>1. year \in Nat
    OBVIOUS
  <2>2. QED
    BY <2>1, UpTo, Zenon
<1>11. QED
  BY <1>9, <1>10, FS_Injection

LEMMA AllFireAsPlanned == \A date \in Dates, frequency \in Frequency : FiresAsPlanned(date, frequency)
<1> SUFFICES ASSUME NEW date \in Dates, NEW frequency \in Frequency PROVE FiresAsPlanned(date, frequency)
  OBVIOUS
<1> DEFINE cron  == dateToCron(date, frequency)
           fires == FiresOn(cron)
           at(m) == [month |-> m, day |-> date.day]
<1>1. /\ date \in [month : Months, day : Days] /\ date.day \in Days /\ date.month \in Months
      /\ date = at(date.month)
  BY DEF Dates
<1>2. \A d \in Dates : d \in [month : Months, day : Days] /\ d.day \in Days /\ d.month \in Months
  BY DEF Dates
<1>3. CASE frequency \in {"ON_REQUEST", "ANNUALLY"}
  <2>1. cron.days = {date.day} /\ cron.months = {date.month}
    BY <1>3 DEF dateToCron
  <2>2. fires = {date}
    BY <1>1, <1>2, <2>1 DEF FiresOn
  <2>3. Cardinality(fires) = 1 /\ TimesAYear(frequency) = 1
    BY <1>3, <2>2, FS_Singleton DEF TimesAYear
  <2>4. frequency # "BI_ANNUALLY"
    BY <1>3
  <2>. HIDE DEF fires
  <2>5. QED
    BY <2>2, <2>3, <2>4 DEF FiresAsPlanned, FiresAsOften, fires
<1>4. CASE frequency \in {"DAILY", "WEEKLY"}
  <2>1. cron.days = Days /\ cron.months = Months
    BY <1>4 DEF dateToCron
  <2>2. fires = Dates
    BY <1>2, <2>1 DEF FiresOn
  <2>3. frequency = "DAILY" => Cardinality(fires) = 365 /\ TimesAYear(frequency) = 365
    BY <2>2, AYear DEF TimesAYear
  <2>4. frequency # "BI_ANNUALLY"
    BY <1>4
  <2>5. QED
    BY <1>4, <2>2, <2>3, <2>4 DEF FiresAsPlanned, FiresAsOften
<1>5. CASE frequency = "MONTHLY"
  <2>1. cron.days = {date.day} /\ cron.months = Months
    BY <1>5 DEF dateToCron
  <2>2. fires = {d \in Dates : d.day = date.day}
    BY <1>2, <2>1 DEF FiresOn
  <2>3. /\ Cardinality(fires) <= 12
        /\ date.day <= 28 => Cardinality(fires) = 12
    BY <1>1, <2>2, MonthlyDates
  <2>4. TimesAYear(frequency) = 12 /\ frequency # "BI_ANNUALLY"
    BY <1>5 DEF TimesAYear
  <2>5. QED
    BY <2>2, <2>3, <2>4 DEF FiresAsPlanned, FiresAsOften
<1>6. CASE frequency = "BI_ANNUALLY"
  <2> DEFINE other == NextMonth(date.month)
  <2>1. other \in Months /\ other # date.month /\ other - date.month \in {6, -6}
        /\ date.month - other \in {6, -6}
    BY <1>1 DEF NextMonth, Months
  <2>. HIDE DEF other
  <2>2. cron.days = {date.day} /\ cron.months = {date.month, other}
    BY <1>6 DEF dateToCron, other
  <2>3. fires = {d \in Dates : d.day = date.day /\ d.month \in {date.month, other}}
    BY <2>2 DEF FiresOn
  <2>4. fires \subseteq {date, at(other)}
    BY <1>1, <1>2, <2>3
  <2>5. date.day <= 28 => fires = {date, at(other)}
    <3>1. date.day <= 28 => at(other) \in Dates
      BY <1>1, <2>1 DEF Dates, DaysIn, Days
    <3>2. QED
      BY <1>1, <2>3, <2>4, <3>1
  <2>6. date # at(other) /\ at(other).month = other
    BY <2>1
  <2>7. IsFiniteSet({date, at(other)}) /\ Cardinality({date, at(other)}) = 2
    BY <2>6, TwoElements
  <2>8. Cardinality(fires) <= 2 /\ (date.day <= 28 => Cardinality(fires) = 2)
    <3>1. Cardinality(fires) <= Cardinality({date, at(other)})
      BY <2>4, <2>7, FS_Subset
    <3>2. QED
      BY <2>5, <2>7, <3>1
  <2>9. \A d, e \in fires : d # e => d.month - e.month \in {6, -6}
    BY <2>1, <2>4, <2>6
  <2>10. date \in fires
    BY <1>1, <2>3
  <2>11. TimesAYear(frequency) = 2
    BY <1>6 DEF TimesAYear
  <2>12. QED
    BY <2>8, <2>9, <2>10, <2>11 DEF FiresAsPlanned, FiresAsOften
<1>7. QED
  BY <1>3, <1>4, <1>5, <1>6 DEF Frequency

\* WEEKLY does not mean weekly: whatever the date, its job fires on every day of the year,
\* 365 times where the name promises 52.
THEOREM WeeklyFiresEveryDay ==
    \A date \in Dates :
        LET fires == FiresOn(dateToCron(date, "WEEKLY"))
        IN  fires = Dates /\ Cardinality(fires) = 365 /\ TimesAYear("WEEKLY") = 52
<1> SUFFICES ASSUME NEW date \in Dates
             PROVE  LET fires == FiresOn(dateToCron(date, "WEEKLY"))
                    IN  fires = Dates /\ Cardinality(fires) = 365 /\ TimesAYear("WEEKLY") = 52
  OBVIOUS
<1>1. dateToCron(date, "WEEKLY") = [days |-> Days, months |-> Months]
  BY DEF dateToCron
<1>2. FiresOn(dateToCron(date, "WEEKLY")) = Dates
  BY <1>1 DEF FiresOn, Dates
<1>3. Cardinality(Dates) = 365
  BY AYear
<1>4. TimesAYear("WEEKLY") = 52
  BY DEF TimesAYear
<1>5. QED
  BY <1>2, <1>3, <1>4

SampleIsADate ==
    sample.kind = "date" => sample.date \in Dates /\ sample.frequency \in Frequency

\* Every date and frequency makes a job that fires on that date; every frequency but WEEKLY
\* one that fires as often as it promises if every month has the day, and never oftener;
\* half-yearly firings are half a year apart.
THEOREM AllAreSentAsPlanned == Spec => []SentAsPlanned
<1>1. Init => SampleIsADate
  BY DEF Init, SampleIsADate
<1>2. SampleIsADate /\ [Next]_vars => SampleIsADate'
  <2> SUFFICES ASSUME SampleIsADate, [Next]_vars PROVE SampleIsADate'
    OBVIOUS
  <2>1. ASSUME NEW params \in Saved, SaveQuery(params) PROVE SampleIsADate'
    BY <2>1 DEF SampleIsADate, SaveQuery
  <2>2. CASE Answer
    BY <2>2 DEF SampleIsADate, Answer
  <2>3. CASE Schedule
    BY <2>3 DEF SampleIsADate, Schedule
  <2>4. CASE UNCHANGED sample
    BY <2>4 DEF SampleIsADate
  <2>5. QED
    BY <2>1, <2>2, <2>3, <2>4, OthersKeepSample
<1>3. SampleIsADate => SentAsPlanned
  BY AllFireAsPlanned DEF SampleIsADate, SentAsPlanned
<1>4. QED
  BY <1>1, <1>2, <1>3, PTL DEF Spec
=============================================================================
