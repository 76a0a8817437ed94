-------------------------------- MODULE Adapters --------------------------------
(***************************************************************************)
(* What the eight adapters of target databases have in common and what     *)
(* they do each in their own way: how the parameters of a query are bound, *)
(* what closing does before there is a connection, how the columns of the  *)
(* schema are called, and what is made of the plan of a query.             *)
(***************************************************************************)
EXTENDS Naturals, FiniteSets, Sequences

DatabaseType ==
    {"MSSQL", "MySQL", "PostgreSQL", "MariaDB", "Oracle", "IBMDb2", "Firebird", "H2Database"}

\* guarded: closeAsync looks whether there is a connection; without, it calls a method of
\*          nothing and throws.
\* silent:  queryAsync answers nothing at all when a parameter cannot be bound.
\* binds:   by the names of the parameters, or by their places.
\* columns: the keys in the rows of the schema: as the code reads them, in lower case, or
\*          none, where rows are arrays.
Mssql      == [guarded |-> FALSE, silent |-> TRUE,  binds |-> "name",  columns |-> "upper"]
Mysql      == [guarded |-> FALSE, silent |-> FALSE, binds |-> "place", columns |-> "upper"]
MariaDB    == [guarded |-> FALSE, silent |-> FALSE, binds |-> "place", columns |-> "upper"]
Postgresql == [guarded |-> TRUE,  silent |-> FALSE, binds |-> "place", columns |-> "lower"]
Oracle     == [guarded |-> TRUE,  silent |-> FALSE, binds |-> "name",  columns |-> "none"]
IbmDb2     == [guarded |-> TRUE,  silent |-> FALSE, binds |-> "place", columns |-> "upper"]
Firebird   == [guarded |-> TRUE,  silent |-> FALSE, binds |-> "place", columns |-> "upper"]
H2Database == [guarded |-> TRUE,  silent |-> FALSE, binds |-> "place", columns |-> "lower"]

\* DatabaseFactory.create
Adapter(type) ==
    CASE type = "MSSQL"      -> Mssql
      [] type = "MySQL"      -> Mysql
      [] type = "MariaDB"    -> MariaDB
      [] type = "PostgreSQL" -> Postgresql
      [] type = "Oracle"     -> Oracle
      [] type = "IBMDb2"     -> IbmDb2
      [] type = "Firebird"   -> Firebird
      [] type = "H2Database" -> H2Database

\* What the rows of getSchemaQueryForDatabase become: tables with names, or one without.
Tables(type) == IF Adapter(type).columns = "upper" THEN "tables" ELSE "nameless"
-----------------------------------------------------------------------------
(* Parameters: rows of a name, which may begin with an @, a type and a text. *)

Bare(name) == IF Len(name) > 1 /\ name[1] = "@" THEN Tail(name) ELSE name

Numerals == {"0", "1", "2"}

\* Number, Date and comparison with 'true'; any other type stays a text.
Convert(p) ==
    CASE p.dataType = "BOOLEAN" -> IF p.value = "true" THEN "true" ELSE "false"
      [] p.dataType = "NUMBER"  -> IF p.value \in Numerals THEN p.value ELSE "NaN"
      [] p.dataType = "DATE"    -> IF p.value \in Numerals THEN p.value ELSE "no date"
      [] OTHER -> p.value

Named(params, i) == {j \in DOMAIN params : Bare(params[j].name) = Bare(params[i].name)}

\* Seeded bug: of two parameters with one name, the first counts.
FirstOf(params, i) == CHOOSE j \in Named(params, i) : \A k \in Named(params, i) : j <= k

LastOf(params, i) == CHOOSE j \in Named(params, i) : \A k \in Named(params, i) : j >= k

\* DatabaseUtils.mapDbParameters: one entry for each name, in the place where the name comes
\* first and with the value it has last.  Names are not numbers (bound): JavaScript moves
\* such keys to the front.
Firsts(params) == {i \in DOMAIN params : \A j \in Named(params, i) : i <= j}
mapDbParameters(params) ==
    {[name  |-> Bare(params[i].name),
      place |-> Cardinality({j \in Firsts(params) : j <= i}),
      value |-> Convert(params[LastOf(params, i)])] : i \in Firsts(params)}

\* What a query that names its parameters so is given for them.  Adapters convert what was
\* converted, to the same.
Received(type, names, entries) ==
    [i \in DOMAIN names |->
        LET held == {e \in entries : IF Adapter(type).binds = "place" THEN e.place = i
                                                                     ELSE e.name = names[i]}
        IN  IF held = {} THEN "missing" ELSE (CHOOSE e \in held : TRUE).value]

NamesIn(params) == [i \in DOMAIN params |-> Bare(params[i].name)]
-----------------------------------------------------------------------------
(* QueryAnalyzerService, of a plan that mentions these words *)

PlanWords == {"scan", "sort", "temp", "nested loop", "index"}

Suggestions(plan) ==
    {w \in {"scan", "temp"} : w \in plan} \cup
    {w \in {"sort", "nested loop"} : w \in plan /\ "index" \notin plan}

\* Nothing to suggest, of nothing for a plan too, reads as a plan that is efficient.
analyzePlan(plan) == IF Suggestions(plan) = {} THEN "efficient" ELSE "suggestions"
-----------------------------------------------------------------------------
\* The parameters of every save of a query stay beside those of the saves before it.  By
\* name, the query is still given what was saved last; by place, it is when every save
\* named the same parameters in the same order.
LastSaveCounts(before, last) ==
    LET names == NamesIn(last)
    IN  (\A i, j \in DOMAIN last : names[i] = names[j] => i = j) =>
          \A type \in DatabaseType :
             Adapter(type).binds = "name" \/ NamesIn(before) \in {<<>>, names} =>
                Received(type, names, mapDbParameters(before \o last)) =
                    [i \in DOMAIN last |-> Convert(last[i])]
=============================================================================
