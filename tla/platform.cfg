SPECIFICATION PlatformSpec
CONSTANTS
    p1 = p1  p2 = p2  h1 = h1  h2 = h2  w1 = w1  w2 = w2
    u1 = u1  u2 = u2  g1 = g1  g2 = g2
    RoleRetries = 2
    WaitRetries = 2
    MaxBackground = 2
    Users = {u1, u2}
    GitHubs = {g1, g2}
    UserOfEmail <- OwnEmail
    Callbacks = {h1, h2}
    NoUser = NoUser
    NoGitHub = NoGitHub
    GitProjects = {"p1"}
    Repos = {"r1", "r2"}
    Commits = {"c1"}
    SettingsRequests = {"s1"}
    Deliveries = {h1, h2}
    MaxHooks = 1
    MaxDeployed = 2
    NoRepo = NoRepo
    NoCommit = NoCommit
    NoGitProject = NoGitProject
    VercelUsers = {u1, u2}
    Vercels = {p1, p2}
    TokenRequests = {h1, h2}
    MaxRows = 2
    MaxTokens = 2
    NoVercelUser = NoVercelUser
    NoVercel = NoVercel
    Reasons = {"outbound"}
    Members = {"m1", "m2"}
    Appealing = {h1, h2}
    Admins = {w1, w2}
    MaxIncidents = 1
    Metered = {"c1"}
    MaxBytes = 2
    MaxClock = 3
    MaxEngines = 2
    MaxSets = 1
    DevRequests = {h1, h2}
    MaxMade = 3
    NoDevRow = NoDevRow
    Files = {"page", "style"}
    Typed = {"a", "$"}
    Special = "$"
    EditorCalls = {1, 2}
    Proposals <- AgentChanges
    MaxGestures = 4
    NoFile = NoFile
    NoText = NoText

CONSTRAINT ClockOrReading
INVARIANTS
    ReadyIsUsable
    OneUserPerSubject
    PushDeploysOnce
    TokensFitAccount
    AppealsAreDecided
    NothingBilledTwice
    CleanTabIsSaved
PROPERTY AttemptsRunOut
CHECK_DEADLOCK FALSE
