SPECIFICATION TrafficSpec
CONSTANTS
    d1 = d1
    d2 = d2
    d3 = d3
    d4 = d4
    p1 = p1  p2 = p2  n1 = n1  n2 = n2
    None = None
    Deployments = {d1, d2, d3, d4}
    Overlap = {"canary", "deploy"}
    Faults = {"canaryVerify", "deployVerify", "probe", "verify", "stop", "commit"}
    MaxPending = 2
    Projects = {p1, p2}
    Domains = {n1, n2}
    WwwOf <- Www
    Handlers = {d1, d2}
    MaxQueued = 1
    NoProject = NoProject
    NoDomain = NoDomain
    Workers = {d3, d4}
    NoCert = NoCert
    Sources = {d1, d2}
    Engines = {e1}
    Settings <- TwoSettings
    TreeOf <- Commits
    BuildRetries = 1
    MaxHead = 2
    MaxBuilds = 2
    NoSource = NoSource
    DevCommands = {"npm run dev", "nodemon"}
    AmbiguousCommands = {"npm start"}
    DevScripts = {"nodemon", "tsx"}
    DevBuilds = {"vite dev"}
    EntryFiles <- Entries
    OutputDirs <- Outputs
    NoCommand = NoCommand
    NoDir = NoDir
SYMMETRY Sym
CONSTRAINTS Apart LoneRetries Uncrossed
INVARIANTS
    ImageIsOfCommit
    SourceIsCurrent
    SiteServed
    TrafficFollowsProject
    TlsFilesHaveCertificates
    ActiveWasProven
    SettledRoutesAreCurrent
CHECK_DEADLOCK FALSE
