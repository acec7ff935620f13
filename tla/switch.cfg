SPECIFICATION Spec
CONSTANTS
    NoKey = NoKey
    NoServer = NoServer
    NoDeployment = NoDeployment
    p1 = p1
    d1 = d1
    k1 = k1
    Deployment = {d1, d2}
    Project = {p1}
    Server = {s1, s2}
    Worker = {w1}
    Key = {}
    ProjectOf <- SameProject
    KeyOf <- NoKeys
    Preview <- NoPreview
    Need <- UnitNeed
    Total <- RoomForOne
    Preferred = {s1}
    MaxAttempts = 2
    MaxCancels = 0
    MaxStatusChanges = 1
    Faults = {"crash", "resend", "lockTTL", "stop"}
SYMMETRY Requests
INVARIANT ActiveIsRunning
CHECK_DEADLOCK FALSE
