SPECIFICATION TenancySpec
CONSTANTS
    r1 = r1  r2 = r2
    h1 = h1  h2 = h2
    p1 = p1  p2 = p2
    s1 = s1  s2 = s2  a1 = a1
    free = free  dev = dev  agentPlan = agentPlan
    Projects = {p1, p2}
    Requests = {r1, r2}
    Amounts = {1, 2}
    Plans = {free, dev}
    PlanPool <- MCPlanPool
    PlanProjects <- MCPlanProjects
    Total <- MCTotal
    MaxAttempts = 2
    NoRequest = NoRequest
    ProviderSubs = {s1, s2, a1}
    SubPlan <- MCSubPlan
    AgentPlan = agentPlan
    FreePlan = free
    Handlers = {h1, h2}
    MaxChanges = 3
    MaxAgentRows = 2
    NoSub = NoSub
    NoTask = NoTask
    i1 = i1  i2 = i2
    Windows = {i1, i2}
    Orgs = {o1, o2}
    NoOrg = NoOrg
    OrgPages <- PagesOfWindows
    MaxPlans = 1
    MaxUnderway = 1
SYMMETRY Sym
CONSTRAINTS Apart WorkspaceBound
INVARIANTS
    KindsKeptApart
    AtRestMirrors
    
PROPERTIES
    PoolImplemented
