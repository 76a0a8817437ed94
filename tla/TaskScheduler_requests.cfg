CONSTANTS
    r1 = r1
    r2 = r2
    t1 = t1
    t2 = t2
    Reports <- OneReport
    Tasks = {t1, t2}
    ReportOf <- BothOfOne
    HalfDay = 1
    Freqs = {"RECURRING"}
    Runs = {}
    Polls = {p1}
    Requests = {q1, q2}

SPECIFICATION Spec

SYMMETRY Symmetric

INVARIANTS
    OneTaskPerReport
