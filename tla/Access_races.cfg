CONSTANTS
    root = root
    u1 = u1
    admin = admin
    clerk = clerk
    q1 = q1
    q2 = q2
    PERMISSIONS <- SomePermissions
    Roles <- TwoRoles
    Admin = admin
    Users <- TwoUsers
    Root = root
    Deployed <- OldOrNone
    Payloads <- SomePayloads
    Browsers = {b1}
    Requests = {q1, q2}
    MaxActive = 2
    MaxFaults = 0

SPECIFICATION Spec

SYMMETRY AnyRequest

INVARIANTS
    TypeOK
    
    ReseedGivesAll

PROPERTIES
    AdminNeverShrinks
    DeletedStaysDeleted
    FreshSavesOnlyAdd

CHECK_DEADLOCK FALSE
