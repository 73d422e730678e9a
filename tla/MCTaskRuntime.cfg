CONSTANTS
    TASKS = 2
    MaxGeneration = 2
    Quantum = 1
    CAPS = 1
    MaxCapGeneration = 2
    Objects = {ep}
    NoObject = NoObject
    RightNames = {"SIGNAL", "DELEGATE"}
    MaxSequence = 4
    Pages = {a, b, c}
    NoPage = NoPage
    Priorities = {0}
    EndpointObject = ep
    GrantRights = {{"SIGNAL", "DELEGATE"}}
    RequestRights = {{"SIGNAL"}}
    MaxTickets = 1
SPECIFICATION Spec
INVARIANTS OneRevocationDomain NoLostWakeup InboxFifo AddressSpacesDistinct
PROPERTIES AuthorityOnlySent
SYMMETRY Symmetry
