SPECIFICATION Spec
CONSTANTS
    NoKey = NoKey
    NoServer = NoServer
    NoDeployment = NoDeployment
    p1 = p1
    d1 = d1
    k1 = k1
    Deployment = {d1}
    Project = {p1}
    Server = {s1}
    Worker = {w1}
    Key = {}
    ProjectOf <- SameProject
    KeyOf <- NoKeys
    Preview <- NoPreview
    Need <- UnitNeed
    Total <- RoomForTwo
    Preferred = {s1}
    MaxAttempts = 2
    MaxCancels = 1
    MaxStatusChanges = 0
    Faults = {}
INVARIANT ReleasedAtMostOnce
CHECK_DEADLOCK FALSE
