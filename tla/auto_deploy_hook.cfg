SPECIFICATION PushSpec
CONSTANTS
    GitProjects = {p1}
    Repos = {r1, r2}
    Commits = {c1}
    SettingsRequests = {s1}
    Deliveries = {d1}
    MaxHooks = 1
    MaxDeployed = 2
    NoRepo = NoRepo
    NoCommit = NoCommit
    NoGitProject = NoGitProject
INVARIANT AutoDeployHasHook
