-------------------------------- MODULE Exports --------------------------------
(***************************************************************************)
(* From the rows of a query to the file of a report: rows are masked, then *)
(* flattened, and the exporter of the report type's format prints a header *)
(* and a cell for every row and column.                                    *)
(***************************************************************************)
EXTENDS Naturals, Sequences

CONSTANTS
    Names,          \* bound: names of columns and of fields in them
    Sensitive       \* those that match one of the patterns

ASSUME SensitiveNames == Sensitive \subseteq Names

OutputFormat == {"JSON", "CSV", "EXCEL", "PDF", "WORD", "TXT"}

\* A value is nothing, a falsy or another scalar, an array, or an object with fields.  A
\* date is an object without any.
Null   == [kind |-> "null"]
Zero   == [kind |-> "falsy"]
Text   == [kind |-> "text"]
Array  == [kind |-> "array"]
Masked == [kind |-> "masked"]
Object(fields) == [kind |-> "object", fields |-> fields]
Date   == Object(<<>>)

Columns(row) == DOMAIN row
-----------------------------------------------------------------------------
(* maskSensitiveData *)

maskValue(value) == IF value = Null THEN Null ELSE Masked

\* Seeded bug: only the row that was looked at is masked.
MaskSample(rows) ==
    [i \in DOMAIN rows |->
        IF i > 1 THEN rows[i]
        ELSE [c \in Columns(rows[i]) |->
                 IF c \in Sensitive THEN maskValue(rows[i][c]) ELSE rows[i][c]]]

\* The sensitive columns are those of the first row, by the names the driver gave them: a
\* row without such a column gets one, with nothing in it.
maskSensitiveData(rows) ==
    LET sensitive == IF rows = <<>> THEN {} ELSE Columns(rows[1]) \cap Sensitive
    IN  [i \in DOMAIN rows |->
            [c \in Columns(rows[i]) \cup sensitive |->
                IF c \notin Columns(rows[i]) THEN Null
                ELSE IF c \in sensitive THEN maskValue(rows[i][c]) ELSE rows[i][c]]]
-----------------------------------------------------------------------------
(* ReportExporter *)

\* Objects become a column for each of their fields, arrays and scalars stay; a field is
\* not an object again (bound).
flattenObject(row) ==
    LET whole  == {<<c>> : c \in {c \in Columns(row) : row[c].kind # "object"}}
        fields == UNION {{<<c, f>> : f \in DOMAIN row[c].fields} :
                           c \in {c \in Columns(row) : row[c].kind = "object"}}
    IN  [k \in whole \cup fields |-> IF Len(k) = 1 THEN row[k[1]] ELSE row[k[1]].fields[k[2]]]

\* Seeded bug: the header is that of the first row.
ColumnsOfFirst(rows) == IF rows = <<>> THEN {} ELSE DOMAIN flattenObject(rows[1])

getUniqueColumns(rows) == UNION {DOMAIN flattenObject(rows[i]) : i \in DOMAIN rows}

Blank == [kind |-> "blank"]

\* A header, and for each row a cell for each of its columns, without what prints as nothing.
Table(rows, nothing) ==
    [i \in DOMAIN rows |-> [k \in getUniqueColumns(rows) |->
        LET flat == flattenObject(rows[i])
        IN  IF k \notin DOMAIN flat \/ flat[k] \in nothing THEN Blank ELSE flat[k]]]

\* The exporters.  PDF takes a zero for nothing; JSON prints the rows as they are.
CsvExporter(rows)   == Table(rows, {Null})
ExcelExporter(rows) == Table(rows, {Null})
TxtExporter(rows)   == Table(rows, {Null})
WordExporter(rows)  == Table(rows, {Null})
PdfExporter(rows)   == Table(rows, {Null, Zero})
JsonExporter(rows)  == rows

\* ExporterFactory.create
Exporter(format, rows) ==
    CASE format = "JSON"  -> JsonExporter(rows)
      [] format = "CSV"   -> CsvExporter(rows)
      [] format = "EXCEL" -> ExcelExporter(rows)
      [] format = "PDF"   -> PdfExporter(rows)
      [] format = "WORD"  -> WordExporter(rows)
      [] format = "TXT"   -> TxtExporter(rows)
-----------------------------------------------------------------------------
\* A file but JSON has a cell for every row and every column that some row has with a value
\* of its own (dates have none), and prints every scalar, PDF all but zeros; and where the
\* rows have the same columns, a sensitive column shows nothing but masks, in any format.
WholeAndMasked(rows) ==
    \A format \in OutputFormat :
        LET masked == maskSensitiveData(rows)
            file   == Exporter(format, masked)
        IN  \A i \in DOMAIN rows : \A c \in Columns(rows[i]) :
               /\ format # "JSON" /\ rows[i][c].kind \in {"text", "array", "falsy"} =>
                     /\ \A j \in DOMAIN rows : <<c>> \in DOMAIN file[j]
                     /\ file[i][<<c>>] = Blank => format = "PDF" /\ rows[i][c] = Zero
               /\ c \in Sensitive /\ (\A j \in DOMAIN rows : Columns(rows[j]) = Columns(rows[1])) =>
                     \A k \in DOMAIN file[i] :
                        (IF format = "JSON" THEN k ELSE k[1]) = c =>
                            file[i][k] \in {Masked, Blank, Null}
=============================================================================
