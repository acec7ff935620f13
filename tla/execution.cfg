SPECIFICATION PagesSpec
CONSTANTS
    NoKey = NoKey
    NoServer = NoServer
    NoDeployment = NoDeployment
    p1 = p1
    d1 = d1
    k1 = k1
    Deployment = {d1}
    Project = {p1}
    Server = {s1}
    Worker = {w1, w2}
    Key = {}
    ProjectOf <- SameProject
    KeyOf <- NoKeys
    Preview <- NoPreview
    Need <- UnitNeed
    Total <- RoomForTwo
    Preferred = {s1}
    MaxAttempts = 2
    MaxCancels = 2
    MaxStatusChanges = 0
    Faults = {"enqueue", "publish", "resend", "handler", "infra", "late", "stop", "runTimeout", "crash"}
    MaxLoads = 1
    EnvKeys = {"A", "B", "C"}
    EnvValues = {"old", "new"}
    TouchedKeys = {"A"}
    NoEnvValue = NoEnvValue
    BatchSize = 2
    MaxBulks = 2
    VercelProjects = {"site", "api"}
    NoVercelProject = NoVercelProject
    EnvOf <- Environments
    WizardTexts <- WizardLines
    TabTexts <- TabLines
    TypedRows <- TypedVariables
    People = {"a", "b"}
    Teams = {"x", "y"}
    TeamsOf <- TeamsOfPeople
    Commands = {t1, t2}
    MaxSignIns = 2
    MaxRefreshes = 2
    NoPerson = NoPerson
    NoTeam = NoTeam
CONSTRAINTS OneGap OneRefusal FewCalls
INVARIANT OneWorkerPerDeployment
INVARIANT CancelReleasesAtMostOnce
INVARIANT WaitEnds
INVARIANT RevealedIsStored
INVARIANT ImportedEnvIsStored
INVARIANT WorkspaceIsOne
PROPERTY ReadyNotRestarted
CHECK_DEADLOCK FALSE
