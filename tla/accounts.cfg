SPECIFICATION AccountsSpec
CONSTANTS
    u1 = u1  d1 = d1  h1 = h1  h2 = h2  w1 = w1  w2 = w2  k1 = k1  k2 = k2  c1 = c1
    Users = {u1}
    Deletions = {d1}
    Handlers = {h1, h2}
    MaxAttempts = 1
    NoUser = NoUser
    NoRow = NoRow
    NoChallenge = NoChallenge
    NoCode = NoCode
    Workers = {w1, w2}
    Cycles = {k1, k2}
    NoWorker = NoWorker
    Roles = {1, 2}
    MaxReminders = 1
    Challenges = {c1}
    LoginLimit = 2
    Tabs = {h1, h2}
    MaxTokens = 2
    MaxHops = 4
    Reported = {h1, h2}
    NoReported = {h1, h2}
    DayLength = 2
    RollingDays = 2
    BaselineWindows = 2
    MaxToday = 3
    MaxUsageRecords = 2
SYMMETRY Sym
CONSTRAINTS Apart FirstPeriod
INVARIANTS
    CooldownMeansCode
    TokensAreVerified
    AcceptedIsMember
    
    ReportsAddUp
