CONSTANTS
    r1 = r1
    t1 = t1
    t2 = t2
    Reports <- OneReport
    Tasks = {t1}
    ReportOf <- OneOfOne
    HalfDay = 1
    Freqs = {"RECURRING"}
    Runs = {x1}
    Polls = {p1}
    Requests = {q1}
    MaxFaults = 2

SPECIFICATION FairSpecF

PROPERTIES
    BootArmsEverything
    ScheduledIsArmed
    DoneIsRearmed
