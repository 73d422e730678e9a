\* One processor with three slots: a task can wait while two others run.
CONSTANTS
    TASKS = 3
    MaxGeneration = 1
    Quantum = 2
    Cpus = {c1}
    Priorities = {0, 1}
    MaxLive = 3
SPECIFICATION Spec
PROPERTIES NoStarvation
