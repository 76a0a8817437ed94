CONSTANTS
    k1 = k1
    s1 = s1
    Connections <- OneConnection
    Queries <- OneQuery
    Tests = {p1, p2}
    Updates = {u1}
    MaxVersion = 1
    DbTypes = {"MSSQL", "PostgreSQL"}
    Calls = {x1}
    Capacity = 2

SPECIFICATION FairCalls

INVARIANTS
    TypeOKC

PROPERTIES
    OnlyRunsAndTestsLeak
    AnalysisSurvives
    EveryCallEnds
    EventuallyFresh
