----------------------------- MODULE Scheduler -----------------------------
(***************************************************************************)
(* Scheduler<TASKS> and KernelScheduler<TASKS> of                          *)
(* mrml-kernel/src/scheduler.rs as operators on a scheduler value: what    *)
(* each method leaves of the scheduler it is called on.  The state         *)
(* machines (KernelScheduler, TaskRuntime, DomainMigration) apply them.    *)
(*                                                                         *)
(* The tick counter is not part of the value: a u64 of timer ticks matters *)
(* only to the balancing policy, which DomainMigration models.             *)
(***************************************************************************)
EXTENDS Integers, FiniteSets, FiniteSetsExt

CONSTANTS TASKS,          \* capacity of the task array
          MaxGeneration,  \* u32::MAX in the code
          Quantum         \* quantum_ticks

ASSUME SchedulerAssumption == /\ TASKS \in Nat \ {0}
                              /\ MaxGeneration \in Nat \ {0}
                              /\ Quantum \in Nat \ {0}

Slots == 0 .. TASKS - 1

\* A TaskId, and None.
TaskId == [slot : Slots, generation : 1 .. MaxGeneration]
NoTask == [slot |-> TASKS, generation |-> 0]

TaskState == {"Runnable", "Blocked"}

\* BACKGROUND, NORMAL, RESPONSIVE and REALTIME, and Priority::budget.
Priority == 0 .. 3
Budget(priority) == <<1, 2, 4, 8>>[priority + 1]

\* Generation 0 is a slot whose generations are used up.
Task == [generation : 0 .. MaxGeneration, state : TaskState, priority : Priority,
         budget : 0 .. 8, occupied : BOOLEAN]

EmptyTask == [generation |-> 1, state |-> "Blocked", priority |-> 1,
              budget |-> 0, occupied |-> FALSE]

\* A scheduler: the task array, the round-robin cursor, the current task and
\* the ticks left of its quantum.
SchedulerType == [tasks : [Slots -> Task], cursor : Slots,
                  current : TaskId \cup {NoTask}, remaining : 1 .. Quantum]

NewScheduler == [tasks |-> [i \in Slots |-> EmptyTask], cursor |-> 0,
                 current |-> NoTask, remaining |-> Quantum]

IdOf(s, i) == [slot |-> i, generation |-> s.tasks[i].generation]

\* task and task_mut find a task: its slot is occupied in its generation.
Valid(s, id) == /\ id.slot \in Slots
                /\ s.tasks[id.slot].occupied
                /\ s.tasks[id.slot].generation = id.generation

OccupiedSlots(s) == {i \in Slots : s.tasks[i].occupied}
RunnableSlots(s) == {i \in OccupiedSlots(s) : s.tasks[i].state = "Runnable"}
ReadySlots(s) == {i \in RunnableSlots(s) : s.tasks[i].budget # 0}

Load(s) == [occupied |-> Cardinality(OccupiedSlots(s)),
            runnable |-> Cardinality(RunnableSlots(s))]

\* How far slot i is ahead of the cursor, and the first slot of a set that a
\* scan from the cursor meets.
Distance(s, i) == IF i >= s.cursor THEN i - s.cursor ELSE i + TASKS - s.cursor
FirstFromCursor(s, set) ==
    CHOOSE i \in set : \A j \in set : Distance(s, i) <= Distance(s, j)

-----------------------------------------------------------------------------
(***************************************************************************)
(* Scheduler                                                               *)
(***************************************************************************)
\* create fails with Full when every slot is occupied or used up.
FreeSlots(s) == {i \in Slots : ~s.tasks[i].occupied /\ s.tasks[i].generation # 0}
CanCreate(s) == FreeSlots(s) # {}
CreatedId(s) == IdOf(s, Min(FreeSlots(s)))
CreatedTask(t, priority) ==
    [generation |-> t.generation, state |-> "Runnable", priority |-> priority,
     budget |-> Budget(priority), occupied |-> TRUE]
Create(s, priority) ==
    [s EXCEPT !.tasks[Min(FreeSlots(s))] = CreatedTask(@, priority)]

\* Mutant of InState: waking a task adds a budget to what it has left.
MutWakeAdds(t, state) ==
    [t EXCEPT !.state = state,
              !.budget = IF state = "Runnable" THEN @ + Budget(t.priority) ELSE @]

\* set_state: a task that becomes runnable with no budget left is given one.
InState(t, state) ==
    [t EXCEPT !.state = state,
              !.budget = IF state = "Runnable" /\ @ = 0 THEN Budget(t.priority) ELSE @]
SetState(s, id, state) == [s EXCEPT !.tasks[id.slot] = InState(@, state)]

\* Mutants of NextGeneration: the last generation is followed by the first;
\* the counter runs past its type.
MutGenerationWraps(generation) == IF generation = MaxGeneration THEN 1 ELSE generation + 1
MutGenerationOverflows(generation) == generation + 1

\* checked_add(1).unwrap_or(0)
NextGeneration(generation) == IF generation = MaxGeneration THEN 0 ELSE generation + 1
RemovedTask(t) ==
    [generation |-> NextGeneration(t.generation), state |-> "Blocked", priority |-> t.priority,
     budget |-> 0, occupied |-> FALSE]
Remove(s, id) == [s EXCEPT !.tasks[id.slot] = RemovedTask(@)]

\* The refill of schedule.
RefilledTask(t) == [t EXCEPT !.budget = Budget(t.priority)]
Refill(s) ==
    [s EXCEPT !.tasks = [i \in Slots |->
        IF i \in RunnableSlots(s) THEN RefilledTask(s.tasks[i]) ELSE s.tasks[i]]]

\* Mutant of SelectWithBudget: it returns before the task is charged and the
\* cursor moves on.
MutSelectUncharged(s) ==
    [s EXCEPT !.current = IdOf(s, FirstFromCursor(s, ReadySlots(s))), !.remaining = Quantum]

\* select_with_budget when some task has budget left, and the new current
\* task and quantum that select_replacement records.
ChargedTask(t) == [t EXCEPT !.budget = @ - 1]
SelectWithBudget(s) ==
    LET i == FirstFromCursor(s, ReadySlots(s)) IN
    [tasks |-> [s.tasks EXCEPT ![i] = ChargedTask(@)],
     cursor |-> IF i + 1 = TASKS THEN 0 ELSE i + 1,
     current |-> IdOf(s, i),
     remaining |-> Quantum]

\* migration_candidate: the first runnable task that is not the current one.
MigrationCandidates(s) == {i \in RunnableSlots(s) : IdOf(s, i) # s.current}

-----------------------------------------------------------------------------
(***************************************************************************)
(* KernelScheduler                                                         *)
(***************************************************************************)
\* schedule and select_replacement
SelectReplacement(s) ==
    IF ReadySlots(s) # {} THEN SelectWithBudget(s)
    ELSE IF RunnableSlots(s) # {} THEN SelectWithBudget(Refill(s))
    ELSE [s EXCEPT !.current = NoTask, !.remaining = Quantum]

Start(s) == IF s.current # NoTask THEN s ELSE SelectReplacement(s)

\* Mutant of TimerTick: an idle processor keeps waiting for a task to start.
MutTickIdle(s) ==
    IF s.current = NoTask THEN s
    ELSE IF s.remaining # 1 THEN [s EXCEPT !.remaining = @ - 1]
    ELSE SelectReplacement(s)

TimerTick(s) ==
    IF s.current # NoTask /\ s.remaining # 1 THEN [s EXCEPT !.remaining = @ - 1]
    ELSE SelectReplacement(s)

YieldCurrent(s) == SelectReplacement(s)

BlockCurrent(s) ==
    SelectReplacement([SetState(s, s.current, "Blocked") EXCEPT !.current = NoTask])

TerminateCurrent(s) ==
    SelectReplacement([Remove(s, s.current) EXCEPT !.current = NoTask])

Wake(s, id) == SetState(s, id, "Runnable")

\* detach: what the linear ticket carries.
DetachedTask == [source : TaskId, state : TaskState, priority : Priority]
CanDetach(s, id) == id # s.current /\ Valid(s, id)
TicketOf(s, id) == [source |-> id, state |-> s.tasks[id.slot].state,
                    priority |-> s.tasks[id.slot].priority]
Detach(s, id) == Remove(s, id)

\* attach: a fresh identity, blocked again if the ticket says so.
Attach(s, ticket) ==
    LET created == Create(s, ticket.priority) IN
    IF ticket.state = "Blocked" THEN SetState(created, CreatedId(s), "Blocked") ELSE created

\* rebalance_candidate: whether a destination with this load, of which
\* capacity is the capacity, should receive a task.
WorthMoving(s, load, capacity) ==
    /\ load.occupied # capacity
    /\ Load(s).runnable > load.runnable + 1
CandidateId(s) == IdOf(s, FirstFromCursor(s, MigrationCandidates(s)))
=============================================================================
