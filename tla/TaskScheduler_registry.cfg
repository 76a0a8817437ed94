CONSTANTS
    r1 = r1
    r2 = r2
    t1 = t1
    t2 = t2
    Reports <- OneReport
    Tasks = {t1}
    ReportOf <- OneOfOne
    HalfDay = 1
    Freqs = {"RECURRING"}
    Runs = {}
    Polls = {p1, p2}
    Requests = {q1}

SPECIFICATION FairSpec

PROPERTIES
    ScheduledIsArmed
    CancelledIsDisarmed
