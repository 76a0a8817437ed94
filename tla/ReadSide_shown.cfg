CONSTANTS
    Users = {"u1", "u2"}
    Reports = {"r1", "r2"}
    Connections = {"c1"}
    ReportTypes = {"y1", "y2"}
    TypeOf <- TwoTypes
    Rhythms = {"DAILY", "MONTHLY"}
    Most = 1
    Names = {"id", "ssn", "more"}
    Sensitive = {"ssn"}
    ReportRows <- SomeReports
    ConnectionRows <- SomeConnections
    Saved <- SomeSaves
    Results <- SomeResults
    MaxEntries = 3
    Limits = {1, 2}

SPECIFICATION Spec

INVARIANTS
    WalkMissesNothing
    ParametersArrive
    FilesAreWholeAndMasked
    SentAsPlanned

PROPERTIES
    OwnRowsAndTotals

CHECK_DEADLOCK FALSE
