CONSTANTS
    root = root
    u1 = u1
    admin = admin
    clerk = clerk
    q1 = q1
    q2 = q2
    PERMISSIONS <- SomePermissions
    Roles <- TwoRoles
    Admin = admin
    Users <- TwoUsers
    Root = root
    Deployed <- OldOrNone
    Payloads <- SomePayloads
    Browsers = {b1}
    Requests = {q1}
    MaxActive = 2
    MaxFaults = 1

SPECIFICATION FairSpec

PROPERTIES
    RevocationArrives
    AnsweredIsRecorded

CHECK_DEADLOCK FALSE
