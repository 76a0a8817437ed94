CONSTANTS
    r1 = r1
    r2 = r2
    t1 = t1
    t2 = t2
    Reports <- OneReport
    Tasks = {t1}
    ReportOf <- OneOfOne
    HalfDay = 1
    Freqs = {"ON_REQUEST", "RECURRING"}
    Runs = {x1}
    Polls = {p1}
    Requests = {q1}

SPECIFICATION FairSpec

PROPERTIES
    DoneIsRearmed
    NeverStuck
