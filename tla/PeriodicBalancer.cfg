CONSTANTS
    CPUS = 4
    CAPACITY = 2
    Local = 0
    Interval = 2
    MaxTick = 10
SPECIFICATION PSpec
PROPERTIES NoBursts RotatesEqualPeers
