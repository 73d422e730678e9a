CONSTANTS
    CAPS = 2
    MaxCapGeneration = 2
    Objects = {ep, obj}
    NoObject = NoObject
    RightNames = {"SIGNAL", "DELEGATE"}
    MaxSequence = 2
    Holders = {h1, h2}
    EndpointObject = ep
    GrantRights = {{"SIGNAL"}, {"DELEGATE"}, {"SIGNAL", "DELEGATE"}}
    RequestRights = {{"SIGNAL"}, {"SIGNAL", "DELEGATE"}}
    MaxCapabilities = 2
    MaxGrants = 2
    MaxRevocations = 2
    HALF = 2
    WORDS = 4
    MAX_CAPS = 1
    MAX_PAYLOAD = 1
    LastSequence = 3
    MaxFrames = 2
SPECIFICATION BothSpec
INVARIANTS NoAmplification FailedSendGrantsNothing StaleUntilWrap DeliveredIsPrefix AcceptedMeansSent
SYMMETRY Symmetry
CHECK_DEADLOCK FALSE
