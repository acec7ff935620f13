SPECIFICATION Spec
CONSTANTS
    NoKey = NoKey
    NoServer = NoServer
    NoDeployment = NoDeployment
    p1 = p1
    d1 = d1
    k1 = k1
    Deployment = {d1, d2, d3}
    Project = {p1}
    Server = {s1}
    Worker = {w1}
    Key = {k1}
    ProjectOf <- SameProject
    KeyOf <- FirstWithout
    Preview <- NoPreview
    Need <- UnitNeed
    Total <- RoomForTwo
    Preferred = {s1}
    MaxAttempts = 2
    MaxCancels = 0
    MaxStatusChanges = 0
    Faults = {"enqueue", "resend", "handler", "infra", "crash"}
SYMMETRY RequestsWithKey
PROPERTY LedgerImplemented
INVARIANT KeyExecutesOnce
CHECK_DEADLOCK FALSE
