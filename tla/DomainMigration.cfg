CONSTANTS
    TASKS = 2
    MaxGeneration = 1
    Quantum = 1
    CAPS = 1
    MaxCapGeneration = 1
    Objects = {}
    NoObject = NoObject
    RightNames = {}
    MaxSequence = 1
    Pages = {a, b, c}
    NoPage = NoPage
    CPUS = 3
    CAPACITY = 2
    Interval = 1
    Creators = {0, 1}
SPECIFICATION Spec
INVARIANTS OnePlacePerDomain SignalPerTicket PoliciesAgree
PROPERTIES TicketTaken
