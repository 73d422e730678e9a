\* Three tasks of two priorities on two processors; every slot is retired after
\* one use, so the generation counters run out.
CONSTANTS
    TASKS = 2
    MaxGeneration = 1
    Quantum = 1
    Cpus = {c1, c2}
    Priorities = {0, 1}
    MaxLive = 3
SPECIFICATION Spec
INVARIANTS TypeOK CurrentIsRunnable StaleNeverRevives TasksConserved BudgetWithinWeight
PROPERTIES WorkConserving QuiescentFairness
