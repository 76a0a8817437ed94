------------------------------- MODULE ReadSideMC -------------------------------
(* A small instance of ReadSide for TLC. *)
EXTENDS ReadSide, TLC

TwoTypes == "r1" :> "y1" @@ "r2" :> "y2"

Row(u, c, task, days) ==
    [owner |-> u, connection |-> c, task |-> task, details |-> task = "FAILED",
     month |-> "this", days |-> days]
SomeReports ==
    {Row(u, c, "none", 61) : u \in Users, c \in Connections} \cup
    {Row(u, c, "COMPLETED", 0) : u \in Users, c \in Connections} \cup
    {Row(u, c, "FAILED", 100) : u \in Users, c \in Connections}
SomeConnections == {[owner |-> u, kind |-> "MSSQL", tested |-> b] : u \in Users, b \in BOOLEAN}

\* One or two rows of an identifier, a secret and a column that may be nested.
Values == {Null, Zero, Text, Array, Date, Object([id |-> Text])}
Rows   == [{"id"} -> {Text}] \cup [{"id", "ssn"} -> Values] \cup [{"id", "more"} -> Values]
SomeResults == {<<>>} \cup {<<x>> : x \in Rows} \cup {<<x, y>> : x \in Rows, y \in Rows}

\* One or two parameters.
Parameters ==
    [name : {<<"a">>, <<"@", "a">>, <<"b">>}, dataType : {"BOOLEAN", "NUMBER"}, value : {"true", "1"}]
SomeSaves == {<<x>> : x \in Parameters} \cup {<<x, y>> : x \in Parameters, y \in Parameters}
=============================================================================
