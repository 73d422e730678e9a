CONSTANTS
    TASKS = 2
    MaxGeneration = 3
    Quantum = 1
    CAPS = 1
    MaxCapGeneration = 1
    Objects = {obj}
    NoObject = NoObject
    RightNames = {}
    MaxSequence = 1
    Pages = {a, b}
    NoPage = NoPage
    SERVICES = 2
    MaxServiceGeneration = 4
    MaxTick = 6
    Policies <- SomePolicies
SPECIFICATION Spec
INVARIANTS RunningMeansLive RetiredStaysStopped RestartBudget BackoffKept
SYMMETRY Symmetry
CHECK_DEADLOCK FALSE
