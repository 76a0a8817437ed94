CONSTANTS
    r1 = r1
    r2 = r2
    t1 = t1
    t2 = t2
    n1 = n1
    n2 = n2
    q1 = q1
    q2 = q2
    file = file
    Reports = {r1, r2}
    Types = {t1, t2}
    TypeName <- DifferentNames
    Names = {n1, n2}
    FileOf <- OneFile
    Users = {u1, u2}
    Deployed = {r1, t1}
    Scheduled = {r1}
    Slots = {x1, x2}
    Requests = {q1, q2}
    OpsOf <- OpsOfEach
    NoQuery = NoQuery
    NoType = NoType

SPECIFICATION FairSpec

INVARIANTS
    TypeOK
    MailedQueryIsOwners
    SavedQueryKeepsParameters

PROPERTIES
    JobsCatchUp
    FreshSavesChangeNothingElse

CHECK_DEADLOCK FALSE
