CONSTANTS
    d1 = d1
    d2 = d2
    d3 = d3
    None = None
    Deployments = {d1, d2, d3}
    Overlap = {"deploy"}
    Faults = {}
    MaxPending = 1
    MaxUpsets = 1
SPECIFICATION UpkeepSpec
CONSTRAINT CreatedInOrder
PROPERTIES
    ActiveSettles
    SleepersWake
CHECK_DEADLOCK FALSE
