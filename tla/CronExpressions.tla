---------------------------- MODULE CronExpressions ----------------------------
(***************************************************************************)
(* The cron expression a task is given, and the days on which a job made   *)
(* from it fires.  Seconds, minutes and hours are one time of day; years   *)
(* are common years.                                                       *)
(***************************************************************************)
EXTENDS Integers, FiniteSets

Frequency == {"ON_REQUEST", "DAILY", "WEEKLY", "MONTHLY", "BI_ANNUALLY", "ANNUALLY"}

Months == 1 .. 12
Days   == 1 .. 31

DaysIn(month) == IF month = 2 THEN 28 ELSE IF month \in {4, 6, 9, 11} THEN 30 ELSE 31
Dates == {d \in [month : Months, day : Days] : d.day <= DaysIn(d.month)}

\* Seeded bug: a year has wrapped when its last month is reached.
NextMonthEarly(month) == IF month + 6 >= 12 THEN month + 6 - 12 ELSE month + 6

NextMonth(month) == IF month + 6 > 12 THEN month + 6 - 12 ELSE month + 6

\* The day and month fields of the expression; the field for the day of the week is always *.
dateToCron(date, frequency) ==
    CASE frequency \in {"ON_REQUEST", "ANNUALLY"} -> [days |-> {date.day}, months |-> {date.month}]
      [] frequency \in {"DAILY", "WEEKLY"}        -> [days |-> Days, months |-> Months]
      [] frequency = "MONTHLY"                    -> [days |-> {date.day}, months |-> Months]
      [] frequency = "BI_ANNUALLY" ->
           [days |-> {date.day}, months |-> {date.month, NextMonth(date.month)}]

\* The cron library fires where all fields agree.
FiresOn(cron) == {d \in Dates : d.day \in cron.days /\ d.month \in cron.months}

\* How often in a year the frequency, by its name, promises a report.
TimesAYear(frequency) ==
    CASE frequency \in {"ON_REQUEST", "ANNUALLY"} -> 1
      [] frequency = "DAILY"                      -> 365
      [] frequency = "WEEKLY"                     -> 52
      [] frequency = "MONTHLY"                    -> 12
      [] frequency = "BI_ANNUALLY"                -> 2

\* Never oftener than promised, and as often when every month has the day.
FiresAsOften(date, frequency) ==
    LET fires == FiresOn(dateToCron(date, frequency))
    IN  /\ Cardinality(fires) <= TimesAYear(frequency)
        /\ date.day <= 28 => Cardinality(fires) = TimesAYear(frequency)

\* Whatever its frequency, a job fires at the very date it was made for; it fires as often
\* as its frequency says, except that a weekly one does not: it fires every day; and
\* half-yearly firings are half a year apart, across the turn of the year too.
FiresAsPlanned(date, frequency) ==
    LET fires == FiresOn(dateToCron(date, frequency))
    IN  /\ date \in fires
        /\ frequency # "WEEKLY" => FiresAsOften(date, frequency)
        /\ frequency = "BI_ANNUALLY" =>
              \A d, e \in fires : d # e => d.month - e.month \in {6, -6}
=============================================================================
