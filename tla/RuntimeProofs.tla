--------------------------- MODULE RuntimeProofs ---------------------------
(***************************************************************************)
(* What the operations of modules Scheduler and Runtime preserve, for      *)
(* every number of tasks, generation limit and quantum: lemmas on one      *)
(* scheduler value, then on one runtime value, which the proofs about the  *)
(* state machines cite.  RuntimeInv asks nothing of capability spaces;     *)
(* what a transfer does to them is the last section.                       *)
(***************************************************************************)
EXTENDS Runtime, SequenceTheorems, WellFoundedInduction, TLAPS

\* What holds of every entry of the task array: a live task has a generation,
\* and no task has more budget than the weight of its priority.
TaskInv(t) == /\ t \in Task
              /\ t.occupied => t.generation # 0
              /\ t.budget <= Budget(t.priority)

\* The current task is one of the live, runnable ones.
CurrentLive(s) == s.current # NoTask => /\ Valid(s, s.current)
                                        /\ s.tasks[s.current.slot].state = "Runnable"

SchedInv(s) == /\ s \in SchedulerType
               /\ \A i \in Slots : TaskInv(s.tasks[i])
               /\ CurrentLive(s)

\* How one slot may change in a step: its generation stays and a live task
\* stays, or a live task is removed and the generation moves on, to 0 from the
\* last one.
SlotStep(t, u) == \/ u.generation = t.generation /\ (t.occupied => u.occupied)
                  \/ /\ t.occupied /\ ~u.occupied
                     /\ u.generation = NextGeneration(t.generation)

Evolves(s, u) == \A i \in Slots : SlotStep(s.tasks[i], u.tasks[i])

\* What scheduling leaves of a task: its identity and its state.
SameTask(t, u) == /\ u.generation = t.generation
                  /\ u.occupied = t.occupied
                  /\ u.state = t.state
SameTasks(s, u) == \A i \in Slots : SameTask(s.tasks[i], u.tasks[i])
OnlySlot(s, u, k) == \A i \in Slots : i # k => SameTask(s.tasks[i], u.tasks[i])

-----------------------------------------------------------------------------
(***************************************************************************)
(* Choosing a slot                                                         *)
(***************************************************************************)
LessPairs == {pair \in Nat \X Nat : pair[1] < pair[2]}

\* There is no infinite descent in the naturals, as a relation WFMin applies to.
LEMMA LessPairsWellFounded == IsWellFoundedOn(LessPairs, Nat)
<1>1. LessPairs = OpToRel(<, Nat)
  BY DEF LessPairs, OpToRel
<1> QED BY <1>1, NatLessThanWellFounded, Zenon

\* A non-empty set of naturals has a least element.
LEMMA HasLeast ==
    ASSUME NEW S, S \subseteq Nat, S # {}
    PROVE  \E x \in S : \A y \in S : x <= y
<1>1. PICK x \in S : \A y \in S : ~ (<<y, x>> \in LessPairs)
  BY LessPairsWellFounded, WFMin, Zenon
<1>2. ASSUME NEW y \in S, y < x PROVE FALSE
  <2>1. <<y, x>> \in LessPairs
    BY <1>2 DEF LessPairs
  <2> QED BY <2>1, <1>1
<1> QED BY <1>2

\* Min picks an element: the slot create finds is one of the free ones.
LEMMA MinIsIn ==
    ASSUME NEW S, S \subseteq Nat, S # {}
    PROVE  Min(S) \in S
BY HasLeast DEF Min

\* The scan from the cursor meets a slot of any non-empty set of slots.
LEMMA FirstIsIn ==
    ASSUME NEW s, s.cursor \in Slots, NEW set, set \subseteq Slots, set # {}
    PROVE  FirstFromCursor(s, set) \in set
<1> DEFINE distances == {Distance(s, i) : i \in set}
<1>1. \A i \in set : Distance(s, i) \in Nat
  BY SchedulerAssumption DEF Distance, Slots
<1>2. distances \subseteq Nat /\ distances # {}
  BY <1>1
<1>3. PICK d \in distances : \A e \in distances : d <= e
  BY <1>2, HasLeast
<1>4. PICK i \in set : d = Distance(s, i)
  BY <1>3
<1>5. \A j \in set : Distance(s, i) <= Distance(s, j)
  BY <1>3, <1>4
<1> QED BY <1>5 DEF FirstFromCursor

\* Priority::budget is between 1 and 8.
LEMMA BudgetBounds == \A p \in Priority : Budget(p) \in 1 .. 8
<1> SUFFICES ASSUME NEW p \in Priority PROVE Budget(p) \in 1 .. 8
  OBVIOUS
<1>1. p = 0 \/ p = 1 \/ p = 2 \/ p = 3
  BY DEF Priority
<1> QED BY <1>1 DEF Budget

\* NoTask is no task id, so the slot of a current task is a slot.
LEMMA NoTaskIsNone == NoTask \notin TaskId
BY SchedulerAssumption DEF NoTask, TaskId, Slots

-----------------------------------------------------------------------------
(***************************************************************************)
(* Scheduler                                                               *)
(***************************************************************************)
\* A new scheduler satisfies the invariant.
LEMMA NewSchedulerInv == SchedInv(NewScheduler)
<1>1. EmptyTask \in Task /\ Budget(1) \in 1 .. 8
  BY SchedulerAssumption, BudgetBounds DEF EmptyTask, Task, TaskState, Priority
<1>2. TaskInv(EmptyTask)
  BY <1>1 DEF TaskInv, EmptyTask
<1>3. NewScheduler \in SchedulerType
  BY <1>1, SchedulerAssumption DEF NewScheduler, SchedulerType, Slots
<1> QED BY <1>2, <1>3 DEF SchedInv, CurrentLive, NewScheduler

\* Changing one entry keeps the invariant unless it is the current task's and
\* is no longer live and runnable.
LEMMA UpdateOne ==
    ASSUME NEW s, SchedInv(s), NEW i \in Slots, NEW t, TaskInv(t),
           \/ s.current = NoTask
           \/ s.current.slot # i
           \/ t.occupied /\ t.generation = s.tasks[i].generation /\ t.state = "Runnable",
           SlotStep(s.tasks[i], t)
    PROVE  /\ SchedInv([s EXCEPT !.tasks[i] = t])
           /\ Evolves(s, [s EXCEPT !.tasks[i] = t])
           /\ OnlySlot(s, [s EXCEPT !.tasks[i] = t], i)
           /\ [s EXCEPT !.tasks[i] = t].tasks[i] = t
<1> DEFINE u == [s EXCEPT !.tasks[i] = t]
<1>1. s \in SchedulerType /\ t \in Task
  BY DEF SchedInv, TaskInv
<1>2. u \in SchedulerType
  BY <1>1 DEF SchedulerType
<1>3. u.tasks = [s.tasks EXCEPT ![i] = t] /\ u.current = s.current /\ u.cursor = s.cursor
  BY <1>1 DEF SchedulerType
<1>4. \A j \in Slots : u.tasks[j] = IF j = i THEN t ELSE s.tasks[j]
  BY <1>1, <1>3 DEF SchedulerType
<1>5. \A j \in Slots : TaskInv(u.tasks[j])
  BY <1>4 DEF SchedInv
<1>6. CurrentLive(u)
  BY <1>1, <1>3, <1>4 DEF SchedInv, CurrentLive, Valid, SchedulerType, TaskId
<1>7. Evolves(s, u)
  BY <1>4 DEF Evolves, SlotStep
<1>8. OnlySlot(s, u, i) /\ u.tasks[i] = t
  BY <1>4 DEF OnlySlot, SameTask
<1> QED BY <1>2, <1>5, <1>6, <1>7, <1>8 DEF SchedInv

\* What each operation makes of one task.  create: live, in the same generation.
LEMMA CreatedTaskInv ==
    ASSUME NEW t, TaskInv(t), t.generation # 0, NEW priority \in Priority
    PROVE  LET u == CreatedTask(t, priority) IN
           /\ TaskInv(u)
           /\ u.occupied /\ u.generation = t.generation /\ u.state = "Runnable"
<1> DEFINE u == CreatedTask(t, priority)
<1>1. t \in Task /\ Budget(priority) \in 1 .. 8
  BY BudgetBounds DEF TaskInv
<1>2. u \in Task
  BY <1>1 DEF CreatedTask, Task, TaskState
<1>3. /\ u.occupied = TRUE /\ u.generation = t.generation /\ u.state = "Runnable"
      /\ u.priority = priority /\ u.budget = Budget(priority)
  BY <1>1 DEF CreatedTask, Task
<1> HIDE DEF u
<1>4. TaskInv(u)
  BY <1>1, <1>2, <1>3 DEF TaskInv
<1> QED BY <1>3, <1>4 DEF u

\* set_state on one task: identity kept, budget at most the weight.
LEMMA InStateInv ==
    ASSUME NEW t, TaskInv(t), NEW state \in TaskState
    PROVE  LET u == InState(t, state) IN
           /\ TaskInv(u)
           /\ u.occupied = t.occupied /\ u.generation = t.generation /\ u.state = state
<1> DEFINE u == InState(t, state)
<1>1. t \in Task /\ Budget(t.priority) \in 1 .. 8
  BY BudgetBounds DEF TaskInv, Task
<1>2. u \in Task
  <2> DEFINE v == [t EXCEPT !.state = state]
  <2>1. v \in Task /\ v.budget = t.budget
    BY <1>1 DEF Task
  <2>2. u = [v EXCEPT !.budget = IF state = "Runnable" /\ t.budget = 0
                                 THEN Budget(t.priority) ELSE t.budget]
    BY DEF InState
  <2> HIDE DEF v
  <2> QED BY <1>1, <2>1, <2>2 DEF Task
<1>3. /\ u.occupied = t.occupied /\ u.generation = t.generation /\ u.state = state
      /\ u.priority = t.priority /\ u.budget \in {t.budget, Budget(t.priority)}
  BY <1>1 DEF InState, Task
<1> HIDE DEF u
<1>4. TaskInv(u)
  BY <1>1, <1>2, <1>3 DEF TaskInv
<1> QED BY <1>3, <1>4 DEF u

\* remove on one task: the slot is free in the next generation.
LEMMA RemovedTaskInv ==
    ASSUME NEW t, TaskInv(t)
    PROVE  LET u == RemovedTask(t) IN
           TaskInv(u) /\ ~u.occupied /\ u.generation = NextGeneration(t.generation)
<1> DEFINE u == RemovedTask(t)
<1>1. t \in Task /\ Budget(t.priority) \in 1 .. 8
  BY BudgetBounds DEF TaskInv, Task
<1>2. NextGeneration(t.generation) \in 0 .. MaxGeneration
  BY <1>1, SchedulerAssumption DEF NextGeneration, Task
<1>3. u \in Task
  BY <1>1, <1>2 DEF RemovedTask, Task, TaskState
<1>4. /\ u.occupied = FALSE /\ u.generation = NextGeneration(t.generation)
      /\ u.priority = t.priority /\ u.budget = 0
  BY <1>1 DEF RemovedTask, Task
<1> HIDE DEF u
<1>5. TaskInv(u)
  BY <1>1, <1>3, <1>4 DEF TaskInv
<1> QED BY <1>4, <1>5 DEF u

\* The refill on one task: a full budget and nothing else.
LEMMA RefilledTaskInv ==
    ASSUME NEW t, TaskInv(t)
    PROVE  LET u == RefilledTask(t) IN
           /\ TaskInv(u) /\ u.budget # 0
           /\ u.occupied = t.occupied /\ u.generation = t.generation /\ u.state = t.state
<1>1. t \in Task /\ Budget(t.priority) \in 1 .. 8
  BY BudgetBounds DEF TaskInv, Task
<1> QED BY <1>1 DEF TaskInv, RefilledTask, Task

\* A selected task pays one unit of budget and nothing else.
LEMMA ChargedTaskInv ==
    ASSUME NEW t, TaskInv(t), t.budget # 0
    PROVE  LET u == ChargedTask(t) IN
           /\ TaskInv(u)
           /\ u.occupied = t.occupied /\ u.generation = t.generation /\ u.state = t.state
<1>1. t \in Task /\ Budget(t.priority) \in 1 .. 8
  BY BudgetBounds DEF TaskInv, Task
<1> QED BY <1>1 DEF TaskInv, ChargedTask, Task

-----------------------------------------------------------------------------
\* create makes a task under an identity that named none.
LEMMA CreateKeeps ==
    ASSUME NEW s, SchedInv(s), CanCreate(s), NEW priority \in Priority
    PROVE  /\ SchedInv(Create(s, priority))
           /\ Evolves(s, Create(s, priority))
           /\ CreatedId(s) \in TaskId
           /\ Valid(Create(s, priority), CreatedId(s))
           /\ ~ Valid(s, CreatedId(s))
           /\ Create(s, priority).current = s.current
           /\ OnlySlot(s, Create(s, priority), CreatedId(s).slot)
           /\ Create(s, priority).tasks[CreatedId(s).slot].state = "Runnable"
           /\ ~ s.tasks[CreatedId(s).slot].occupied
<1> DEFINE i == Min(FreeSlots(s))
           t == CreatedTask(s.tasks[i], priority)
<1>1. FreeSlots(s) \subseteq Nat /\ FreeSlots(s) # {}
  BY SchedulerAssumption DEF FreeSlots, Slots, CanCreate
<1>2. i \in FreeSlots(s)
  BY <1>1, MinIsIn
<1>3. i \in Slots /\ ~ s.tasks[i].occupied /\ s.tasks[i].generation # 0
  BY <1>2 DEF FreeSlots
<1>4. s \in SchedulerType /\ s.tasks[i] \in Task /\ TaskInv(s.tasks[i])
  BY <1>3 DEF SchedInv, SchedulerType
<1>5. TaskInv(t) /\ t.occupied /\ t.generation = s.tasks[i].generation /\ t.state = "Runnable"
  BY <1>3, <1>4, CreatedTaskInv
<1>6. s.current = NoTask \/ s.current.slot # i
  BY <1>3 DEF SchedInv, CurrentLive, Valid
<1>7. Create(s, priority) = [s EXCEPT !.tasks[i] = t]
  BY DEF Create
<1>8. SlotStep(s.tasks[i], t)
  BY <1>5 DEF SlotStep
<1>9. /\ SchedInv(Create(s, priority)) /\ Evolves(s, Create(s, priority))
      /\ OnlySlot(s, Create(s, priority), i)
  BY <1>3, <1>5, <1>6, <1>7, <1>8, UpdateOne
<1>10. CreatedId(s) \in TaskId
  BY <1>3, <1>4, SchedulerAssumption DEF CreatedId, IdOf, TaskId, Task
<1>11. /\ Create(s, priority).tasks[i] = t
       /\ Create(s, priority).current = s.current
  <2> HIDE DEF t, i
  <2> QED BY <1>3, <1>4, <1>7 DEF SchedulerType
<1>12. CreatedId(s).slot = i /\ CreatedId(s).generation = s.tasks[i].generation
  BY DEF CreatedId, IdOf
<1>13. Valid(Create(s, priority), CreatedId(s)) /\ ~ Valid(s, CreatedId(s))
  BY <1>3, <1>5, <1>11, <1>12 DEF Valid
<1> HIDE DEF t, i
<1> QED BY <1>3, <1>5, <1>9, <1>10, <1>11, <1>12, <1>13

\* Blocking needs that the task is not the current one; waking does not.
LEMMA SetStateKeeps ==
    ASSUME NEW s, SchedInv(s), NEW id, Valid(s, id), NEW state \in TaskState,
           state = "Runnable" \/ s.current = NoTask \/ s.current.slot # id.slot
    PROVE  /\ SchedInv(SetState(s, id, state)) /\ Evolves(s, SetState(s, id, state))
           /\ OnlySlot(s, SetState(s, id, state), id.slot)
           /\ SetState(s, id, state).tasks[id.slot].state = state
           /\ Valid(SetState(s, id, state), id)
<1> DEFINE i == id.slot
           t == InState(s.tasks[i], state)
<1>1. i \in Slots /\ s.tasks[i].occupied /\ TaskInv(s.tasks[i])
  BY DEF Valid, SchedInv
<1>2. /\ TaskInv(t) /\ t.occupied /\ t.generation = s.tasks[i].generation
      /\ t.state = state
  BY <1>1, InStateInv
<1>3. SlotStep(s.tasks[i], t)
  BY <1>2 DEF SlotStep
<1>4. SetState(s, id, state) = [s EXCEPT !.tasks[i] = t]
  BY DEF SetState
<1>5. /\ SchedInv(SetState(s, id, state)) /\ Evolves(s, SetState(s, id, state))
      /\ OnlySlot(s, SetState(s, id, state), i) /\ SetState(s, id, state).tasks[i] = t
  BY <1>1, <1>2, <1>3, <1>4, UpdateOne
<1> HIDE DEF t
<1> QED BY <1>1, <1>2, <1>5 DEF Valid

\* remove of a task that is not the current one keeps the invariant.
LEMMA RemoveKeeps ==
    ASSUME NEW s, SchedInv(s), NEW id, Valid(s, id),
           s.current = NoTask \/ s.current.slot # id.slot
    PROVE  /\ SchedInv(Remove(s, id)) /\ Evolves(s, Remove(s, id))
           /\ OnlySlot(s, Remove(s, id), id.slot)
           /\ ~ Remove(s, id).tasks[id.slot].occupied
<1> DEFINE i == id.slot
           t == RemovedTask(s.tasks[i])
<1>1. i \in Slots /\ s.tasks[i].occupied /\ TaskInv(s.tasks[i])
  BY DEF Valid, SchedInv
<1>2. TaskInv(t) /\ ~t.occupied /\ t.generation = NextGeneration(s.tasks[i].generation)
  BY <1>1, RemovedTaskInv
<1>3. SlotStep(s.tasks[i], t)
  BY <1>1, <1>2 DEF SlotStep
<1>4. Remove(s, id) = [s EXCEPT !.tasks[i] = t]
  BY DEF Remove
<1> QED BY <1>1, <1>2, <1>3, <1>4, UpdateOne

\* The refill gives every runnable task budget and changes nothing else.
LEMMA RefillKeeps ==
    ASSUME NEW s, SchedInv(s)
    PROVE  /\ SchedInv(Refill(s)) /\ Evolves(s, Refill(s))
           /\ RunnableSlots(Refill(s)) = RunnableSlots(s)
           /\ ReadySlots(Refill(s)) = RunnableSlots(s)
<1> DEFINE u == Refill(s)
           new(i) == IF i \in RunnableSlots(s) THEN RefilledTask(s.tasks[i]) ELSE s.tasks[i]
<1>1. s \in SchedulerType /\ \A i \in Slots : TaskInv(s.tasks[i])
  BY DEF SchedInv
<1>2. \A i \in Slots : /\ TaskInv(new(i)) /\ new(i).generation = s.tasks[i].generation
                       /\ new(i).occupied = s.tasks[i].occupied
                       /\ new(i).state = s.tasks[i].state
                       /\ i \in RunnableSlots(s) => new(i).budget # 0
  BY <1>1, RefilledTaskInv
<1>3. \A i \in Slots : new(i) \in Task
  BY <1>2 DEF TaskInv
<1> HIDE DEF new
<1>4. u = [s EXCEPT !.tasks = [i \in Slots |-> new(i)]]
  BY DEF Refill, new
<1>5. /\ u \in SchedulerType /\ u.current = s.current
      /\ u.tasks = [i \in Slots |-> new(i)]
  BY <1>1, <1>3, <1>4 DEF SchedulerType
<1> HIDE DEF u
<1>6. CurrentLive(u)
  BY <1>1, <1>2, <1>5 DEF SchedInv, CurrentLive, Valid
<1>7. SchedInv(u) /\ Evolves(s, u)
  BY <1>2, <1>5, <1>6 DEF SchedInv, Evolves, SlotStep
<1>8. RunnableSlots(u) = RunnableSlots(s)
  BY <1>2, <1>5 DEF RunnableSlots, OccupiedSlots
<1>9. ReadySlots(u) = RunnableSlots(s)
  BY <1>2, <1>5, <1>8 DEF ReadySlots, RunnableSlots, OccupiedSlots
<1> QED BY <1>7, <1>8, <1>9 DEF u

\* Changing one entry and the fields around the task array.
LEMMA Rebuild ==
    ASSUME NEW s, SchedInv(s), NEW u \in SchedulerType, NEW i \in Slots,
           NEW t, TaskInv(t), SlotStep(s.tasks[i], t),
           u.tasks = [s.tasks EXCEPT ![i] = t], CurrentLive(u)
    PROVE  SchedInv(u) /\ Evolves(s, u)
<1>1. s.tasks \in [Slots -> Task]
  BY DEF SchedInv, SchedulerType
<1>2. \A j \in Slots : u.tasks[j] = IF j = i THEN t ELSE s.tasks[j]
  BY <1>1
<1> QED BY <1>2 DEF SchedInv, Evolves, SlotStep

\* The selected task is charged, becomes current, and is live and runnable.
LEMMA SelectKeeps ==
    ASSUME NEW s, SchedInv(s), ReadySlots(s) # {}
    PROVE  SchedInv(SelectWithBudget(s)) /\ Evolves(s, SelectWithBudget(s))
<1> DEFINE i == FirstFromCursor(s, ReadySlots(s))
           t == ChargedTask(s.tasks[i])
           u == SelectWithBudget(s)
<1>1. s \in SchedulerType /\ s.cursor \in Slots
  BY DEF SchedInv, SchedulerType
<1>2. i \in ReadySlots(s)
  BY <1>1, FirstIsIn DEF ReadySlots, RunnableSlots, OccupiedSlots
<1>3. /\ i \in Slots /\ s.tasks[i].occupied /\ s.tasks[i].state = "Runnable"
      /\ s.tasks[i].budget # 0 /\ TaskInv(s.tasks[i])
  BY <1>2 DEF ReadySlots, RunnableSlots, OccupiedSlots, SchedInv
<1>4. /\ TaskInv(t) /\ t.occupied = s.tasks[i].occupied
      /\ t.generation = s.tasks[i].generation /\ t.state = s.tasks[i].state
  BY <1>3, ChargedTaskInv
<1>5. IdOf(s, i) \in TaskId
  BY <1>3, SchedulerAssumption DEF IdOf, TaskId, TaskInv, Task
<1>6. SlotStep(s.tasks[i], t) /\ t \in Task
  BY <1>4 DEF SlotStep, TaskInv
<1> HIDE DEF t, i
<1>7. u = [tasks |-> [s.tasks EXCEPT ![i] = t],
           cursor |-> IF i + 1 = TASKS THEN 0 ELSE i + 1,
           current |-> IdOf(s, i), remaining |-> Quantum]
  BY DEF SelectWithBudget, t, i
<1>8. u \in SchedulerType
  <2>1. [s.tasks EXCEPT ![i] = t] \in [Slots -> Task]
    BY <1>1, <1>3, <1>6 DEF SchedulerType
  <2>2. (IF i + 1 = TASKS THEN 0 ELSE i + 1) \in Slots /\ Quantum \in 1 .. Quantum
    BY <1>3, SchedulerAssumption DEF Slots
  <2> QED BY <1>5, <1>7, <2>1, <2>2 DEF SchedulerType
<1>9. u.tasks = [s.tasks EXCEPT ![i] = t] /\ u.current = IdOf(s, i)
  BY <1>7
<1>10. u.tasks[i] = t
  BY <1>1, <1>3, <1>9 DEF SchedulerType
<1>11. CurrentLive(u)
  <2>1. u.current.slot = i /\ u.current.generation = s.tasks[i].generation
    BY <1>9 DEF IdOf
  <2>2. t.occupied /\ t.state = "Runnable" /\ t.generation = s.tasks[i].generation
    BY <1>3, <1>4
  <2> HIDE DEF u
  <2> QED BY <1>3, <1>10, <2>1, <2>2 DEF CurrentLive, Valid
<1> QED BY <1>3, <1>4, <1>6, <1>8, <1>9, <1>11, Rebuild

-----------------------------------------------------------------------------
(***************************************************************************)
(* KernelScheduler                                                         *)
(***************************************************************************)
\* A step followed by one that changes no identity.
LEMMA EvolvesTrans ==
    ASSUME NEW s, NEW u, NEW v, Evolves(s, u),
           \A i \in Slots : /\ v.tasks[i].generation = u.tasks[i].generation
                           /\ v.tasks[i].occupied = u.tasks[i].occupied
    PROVE  Evolves(s, v)
BY DEF Evolves, SlotStep

\* Selecting changes no identity and no state.
LEMMA SelectSame ==
    ASSUME NEW s, SchedInv(s), ReadySlots(s) # {}
    PROVE  SameTasks(s, SelectWithBudget(s))
<1> DEFINE k == FirstFromCursor(s, ReadySlots(s))
<1>1. s.tasks \in [Slots -> Task] /\ s.cursor \in Slots
  BY DEF SchedInv, SchedulerType
<1>2. k \in ReadySlots(s)
  BY <1>1, FirstIsIn DEF ReadySlots, RunnableSlots, OccupiedSlots
<1>3. k \in Slots /\ TaskInv(s.tasks[k]) /\ s.tasks[k].budget # 0
  BY <1>2 DEF ReadySlots, RunnableSlots, OccupiedSlots, SchedInv
<1>4. /\ ChargedTask(s.tasks[k]).occupied = s.tasks[k].occupied
      /\ ChargedTask(s.tasks[k]).generation = s.tasks[k].generation
      /\ ChargedTask(s.tasks[k]).state = s.tasks[k].state
  BY <1>3, ChargedTaskInv
<1>5. SelectWithBudget(s).tasks = [s.tasks EXCEPT ![k] = ChargedTask(s.tasks[k])]
  BY DEF SelectWithBudget
<1> HIDE DEF k
<1> QED BY <1>1, <1>3, <1>4, <1>5 DEF SameTasks, SameTask

\* The refill changes no identity and no state.
LEMMA RefillSame ==
    ASSUME NEW s, SchedInv(s)
    PROVE  SameTasks(s, Refill(s))
<1>1. s \in SchedulerType /\ \A i \in Slots : TaskInv(s.tasks[i])
  BY DEF SchedInv
<1>2. Refill(s).tasks = [i \in Slots |-> IF i \in RunnableSlots(s)
                                         THEN RefilledTask(s.tasks[i]) ELSE s.tasks[i]]
  BY <1>1 DEF Refill, SchedulerType
<1> QED BY <1>1, <1>2, RefilledTaskInv DEF SameTasks, SameTask

\* select_replacement, whatever it finds.
LEMMA ReplacementKeeps ==
    ASSUME NEW s, SchedInv(s)
    PROVE  SchedInv(SelectReplacement(s)) /\ SameTasks(s, SelectReplacement(s))
<1>1. CASE ReadySlots(s) # {}
  BY <1>1, SelectKeeps, SelectSame DEF SelectReplacement
<1>2. CASE ReadySlots(s) = {} /\ RunnableSlots(s) # {}
  <2>1. SchedInv(Refill(s)) /\ ReadySlots(Refill(s)) # {}
    BY <1>2, RefillKeeps
  <2>2. SelectReplacement(s) = SelectWithBudget(Refill(s))
    BY <1>2 DEF SelectReplacement
  <2>3. SameTasks(s, Refill(s)) /\ SameTasks(Refill(s), SelectWithBudget(Refill(s)))
    BY <2>1, SelectSame, RefillSame
  <2>4. SameTasks(s, SelectWithBudget(Refill(s)))
    BY <2>3 DEF SameTasks, SameTask
  <2> QED BY <2>1, <2>2, <2>4, SelectKeeps
<1>3. CASE ReadySlots(s) = {} /\ RunnableSlots(s) = {}
  <2> DEFINE v == [s EXCEPT !.current = NoTask]
             u == [v EXCEPT !.remaining = Quantum]
  <2>1. s \in SchedulerType /\ Quantum \in 1 .. Quantum
    BY SchedulerAssumption DEF SchedInv
  <2>2. v \in SchedulerType /\ v.tasks = s.tasks /\ v.current = NoTask
    BY <2>1 DEF SchedulerType
  <2>3. u \in SchedulerType /\ u.tasks = s.tasks /\ u.current = NoTask
    <3> HIDE DEF v
    <3> QED BY <2>1, <2>2 DEF SchedulerType
  <2>4. SelectReplacement(s) = u
    BY <1>3 DEF SelectReplacement
  <2> HIDE DEF u
  <2> QED BY <2>3, <2>4 DEF SchedInv, CurrentLive, SameTasks, SameTask
<1> QED BY <1>1, <1>2, <1>3

\* A step that changes no identity.
LEMMA EvolvesSame ==
    ASSUME NEW s, NEW u,
           SameTasks(s, u)
    PROVE  Evolves(s, u)
BY DEF Evolves, SlotStep, SameTasks, SameTask

\* yield_current keeps the invariant.
LEMMA YieldKeeps ==
    ASSUME NEW s, SchedInv(s)
    PROVE  /\ SchedInv(YieldCurrent(s)) /\ Evolves(s, YieldCurrent(s))
           /\ SameTasks(s, YieldCurrent(s))
BY ReplacementKeeps, EvolvesSame DEF YieldCurrent

\* start keeps the invariant.
LEMMA StartKeeps ==
    ASSUME NEW s, SchedInv(s)
    PROVE  SchedInv(Start(s)) /\ Evolves(s, Start(s)) /\ SameTasks(s, Start(s))
<1>1. SameTasks(s, s)
  BY DEF SameTasks, SameTask
<1> QED BY <1>1, ReplacementKeeps, EvolvesSame DEF Start

\* timer_tick keeps the invariant, whether or not the quantum is over.
LEMMA TickKeeps ==
    ASSUME NEW s, SchedInv(s)
    PROVE  SchedInv(TimerTick(s)) /\ Evolves(s, TimerTick(s)) /\ SameTasks(s, TimerTick(s))
<1>1. CASE s.current # NoTask /\ s.remaining # 1
  <2> DEFINE u == [s EXCEPT !.remaining = @ - 1]
  <2>1. s \in SchedulerType
    BY DEF SchedInv
  <2>2. u \in SchedulerType /\ u.tasks = s.tasks /\ u.current = s.current
    BY <1>1, <2>1, SchedulerAssumption DEF SchedulerType
  <2>3. TimerTick(s) = u
    BY <1>1 DEF TimerTick
  <2> HIDE DEF u
  <2>4. SchedInv(u)
    BY <2>2 DEF SchedInv, CurrentLive, Valid
  <2>5. SameTasks(s, u)
    BY <2>2 DEF SameTasks, SameTask
  <2> QED BY <2>3, <2>4, <2>5, EvolvesSame
<1>2. CASE ~(s.current # NoTask /\ s.remaining # 1)
  BY <1>2, ReplacementKeeps, EvolvesSame DEF TimerTick
<1> QED BY <1>1, <1>2

\* The current task leaves the processor: its slot is changed first, then a
\* replacement is selected.
LEMMA LeaveKeeps ==
    ASSUME NEW s, SchedInv(s), s.current # NoTask,
           NEW t, TaskInv(t), SlotStep(s.tasks[s.current.slot], t)
    PROVE  LET u == SelectReplacement(
                      [[s EXCEPT !.tasks[s.current.slot] = t] EXCEPT !.current = NoTask])
           IN  /\ SchedInv(u) /\ Evolves(s, u) /\ OnlySlot(s, u, s.current.slot)
               /\ SameTask(t, u.tasks[s.current.slot])
<1> DEFINE i == s.current.slot
           v == [s EXCEPT !.tasks[i] = t]
           w == [v EXCEPT !.current = NoTask]
<1>1. s \in SchedulerType /\ t \in Task /\ i \in Slots
  BY DEF SchedInv, CurrentLive, Valid, TaskInv
<1>2. v \in SchedulerType /\ v.tasks = [s.tasks EXCEPT ![i] = t]
  BY <1>1 DEF SchedulerType
<1>3. w \in SchedulerType /\ w.tasks = v.tasks /\ w.current = NoTask
  <2> HIDE DEF v
  <2> QED BY <1>2 DEF SchedulerType
<1> HIDE DEF w, v, i
<1>4. SchedInv(w) /\ Evolves(s, w)
  BY <1>1, <1>2, <1>3, Rebuild DEF CurrentLive, i
<1>5. /\ SchedInv(SelectReplacement(w))
      /\ Evolves(s, SelectReplacement(w))
      /\ SameTasks(w, SelectReplacement(w))
  BY <1>4, ReplacementKeeps, EvolvesTrans DEF SameTasks, SameTask
<1>6. w.tasks[i] = t /\ \A k \in Slots : k # i => w.tasks[k] = s.tasks[k]
  BY <1>1, <1>2, <1>3 DEF SchedulerType
<1>7. OnlySlot(s, SelectReplacement(w), i) /\ SameTask(t, SelectReplacement(w).tasks[i])
  BY <1>1, <1>5, <1>6 DEF SameTasks, OnlySlot
<1> QED BY <1>5, <1>7 DEF i, v, w

\* block_current keeps the invariant.
LEMMA BlockKeeps ==
    ASSUME NEW s, SchedInv(s), s.current # NoTask
    PROVE  /\ SchedInv(BlockCurrent(s)) /\ Evolves(s, BlockCurrent(s))
           /\ OnlySlot(s, BlockCurrent(s), s.current.slot)
           /\ Valid(BlockCurrent(s), s.current)
<1> DEFINE t == InState(s.tasks[s.current.slot], "Blocked")
<1>1. TaskInv(s.tasks[s.current.slot])
  BY DEF SchedInv, CurrentLive, Valid
<1>2. /\ TaskInv(t) /\ SlotStep(s.tasks[s.current.slot], t)
      /\ t.occupied = s.tasks[s.current.slot].occupied
      /\ t.generation = s.tasks[s.current.slot].generation
  BY <1>1, InStateInv DEF TaskState, SlotStep
<1>3. BlockCurrent(s) = SelectReplacement(
                          [[s EXCEPT !.tasks[s.current.slot] = t] EXCEPT !.current = NoTask])
  BY DEF BlockCurrent, SetState
<1> HIDE DEF t
<1>4. /\ SchedInv(BlockCurrent(s)) /\ Evolves(s, BlockCurrent(s))
      /\ OnlySlot(s, BlockCurrent(s), s.current.slot)
      /\ SameTask(t, BlockCurrent(s).tasks[s.current.slot])
  BY <1>2, <1>3, LeaveKeeps
<1> QED BY <1>2, <1>4 DEF SameTask, SchedInv, CurrentLive, Valid

\* terminate_current keeps the invariant.
LEMMA TerminateKeeps ==
    ASSUME NEW s, SchedInv(s), s.current # NoTask
    PROVE  /\ SchedInv(TerminateCurrent(s)) /\ Evolves(s, TerminateCurrent(s))
           /\ OnlySlot(s, TerminateCurrent(s), s.current.slot)
           /\ ~ TerminateCurrent(s).tasks[s.current.slot].occupied
<1> DEFINE t == RemovedTask(s.tasks[s.current.slot])
<1>1. TaskInv(s.tasks[s.current.slot]) /\ s.tasks[s.current.slot].occupied
  BY DEF SchedInv, CurrentLive, Valid
<1>2. TaskInv(t) /\ SlotStep(s.tasks[s.current.slot], t) /\ ~ t.occupied
  BY <1>1, RemovedTaskInv DEF SlotStep
<1>3. TerminateCurrent(s) = SelectReplacement(
                          [[s EXCEPT !.tasks[s.current.slot] = t] EXCEPT !.current = NoTask])
  BY DEF TerminateCurrent, Remove
<1> HIDE DEF t
<1>4. /\ SchedInv(TerminateCurrent(s)) /\ Evolves(s, TerminateCurrent(s))
      /\ OnlySlot(s, TerminateCurrent(s), s.current.slot)
      /\ SameTask(t, TerminateCurrent(s).tasks[s.current.slot])
  BY <1>2, <1>3, LeaveKeeps
<1> QED BY <1>2, <1>4 DEF SameTask

\* wake keeps the invariant, also of a task that is runnable already.
LEMMA WakeKeeps ==
    ASSUME NEW s, SchedInv(s), NEW id, Valid(s, id)
    PROVE  /\ SchedInv(Wake(s, id)) /\ Evolves(s, Wake(s, id))
           /\ OnlySlot(s, Wake(s, id), id.slot)
           /\ Wake(s, id).tasks[id.slot].state = "Runnable" /\ Valid(Wake(s, id), id)
BY SetStateKeeps DEF Wake, TaskState

\* A valid identity that is not the current one names another slot.
LEMMA OtherSlot ==
    ASSUME NEW s, SchedInv(s), NEW id \in TaskId, Valid(s, id), id # s.current
    PROVE  s.current = NoTask \/ s.current.slot # id.slot
BY DEF SchedInv, SchedulerType, CurrentLive, Valid, TaskId

\* detach keeps the invariant and yields a well-formed ticket.
LEMMA DetachKeeps ==
    ASSUME NEW s, SchedInv(s), NEW id \in TaskId, CanDetach(s, id)
    PROVE  /\ SchedInv(Detach(s, id)) /\ Evolves(s, Detach(s, id))
           /\ OnlySlot(s, Detach(s, id), id.slot)
           /\ ~ Detach(s, id).tasks[id.slot].occupied
           /\ TicketOf(s, id) \in DetachedTask
<1>1. /\ SchedInv(Detach(s, id)) /\ Evolves(s, Detach(s, id))
      /\ OnlySlot(s, Detach(s, id), id.slot)
      /\ ~ Detach(s, id).tasks[id.slot].occupied
  BY OtherSlot, RemoveKeeps DEF CanDetach, Detach
<1>2. s.tasks[id.slot] \in Task
  BY DEF SchedInv, SchedulerType, CanDetach, Valid
<1> QED BY <1>1, <1>2 DEF TicketOf, DetachedTask, Task

\* attach keeps the invariant and blocks only the task it created.
LEMMA AttachKeeps ==
    ASSUME NEW s, SchedInv(s), CanCreate(s), NEW ticket \in DetachedTask
    PROVE  /\ SchedInv(Attach(s, ticket)) /\ Evolves(s, Attach(s, ticket))
           /\ OnlySlot(s, Attach(s, ticket), CreatedId(s).slot)
           /\ Attach(s, ticket).tasks[CreatedId(s).slot].state = ticket.state
           /\ Valid(Attach(s, ticket), CreatedId(s))
<1> DEFINE u == Create(s, ticket.priority)
           id == CreatedId(s)
           v == SetState(u, id, "Blocked")
<1>1. ticket.priority \in Priority
  BY DEF DetachedTask
<1>2. /\ SchedInv(u) /\ Evolves(s, u) /\ id \in TaskId
      /\ Valid(u, id) /\ ~ Valid(s, id) /\ u.current = s.current
      /\ OnlySlot(s, u, id.slot) /\ u.tasks[id.slot].state = "Runnable"
  BY <1>1, CreateKeeps
<1>3. id # u.current
  BY <1>2, NoTaskIsNone DEF SchedInv, CurrentLive
<1>4. u.current = NoTask \/ u.current.slot # id.slot
  BY <1>2, <1>3, OtherSlot
<1>5. /\ SchedInv(v) /\ OnlySlot(u, v, id.slot)
      /\ v.tasks[id.slot].state = "Blocked" /\ Valid(v, id)
  BY <1>2, <1>4, SetStateKeeps DEF TaskState
<1>6. Evolves(s, v)
  <2>1. /\ id.slot \in Slots /\ TaskInv(u.tasks[id.slot])
        /\ u.tasks \in [Slots -> Task] /\ u \in SchedulerType
    BY <1>2 DEF Valid, SchedInv, SchedulerType
  <2>2. v = [u EXCEPT !.tasks[id.slot] = InState(u.tasks[id.slot], "Blocked")]
    BY DEF SetState
  <2>3. /\ InState(u.tasks[id.slot], "Blocked").generation = u.tasks[id.slot].generation
        /\ InState(u.tasks[id.slot], "Blocked").occupied = u.tasks[id.slot].occupied
    BY <2>1, InStateInv DEF TaskState
  <2> HIDE DEF v, u, id
  <2>4. v.tasks = [u.tasks EXCEPT ![id.slot] = InState(u.tasks[id.slot], "Blocked")]
    BY <2>1, <2>2 DEF SchedulerType
  <2>5. \A i \in Slots : /\ v.tasks[i].generation = u.tasks[i].generation
                         /\ v.tasks[i].occupied = u.tasks[i].occupied
    BY <2>1, <2>3, <2>4
  <2> QED BY <1>2, <2>5, EvolvesTrans
<1>7. OnlySlot(s, v, id.slot)
  BY <1>2, <1>5 DEF OnlySlot, SameTask
<1>8. ticket.state = "Blocked" \/ ticket.state = "Runnable"
  BY DEF DetachedTask, TaskState
<1>9. Attach(s, ticket) = IF ticket.state = "Blocked" THEN v ELSE u
  BY DEF Attach
<1> HIDE DEF u, v, id
<1> QED BY <1>2, <1>5, <1>6, <1>7, <1>8, <1>9 DEF id

\* migration_candidate finds a live task that is not the current one.
LEMMA CandidateIsValid ==
    ASSUME NEW s, SchedInv(s), MigrationCandidates(s) # {}
    PROVE  CandidateId(s) \in TaskId /\ Valid(s, CandidateId(s)) /\ CandidateId(s) # s.current
<1> DEFINE i == FirstFromCursor(s, MigrationCandidates(s))
<1>1. s.cursor \in Slots
  BY DEF SchedInv, SchedulerType
<1>2. i \in MigrationCandidates(s)
  BY <1>1, FirstIsIn DEF MigrationCandidates, RunnableSlots, OccupiedSlots
<1>3. /\ i \in Slots /\ s.tasks[i].occupied /\ TaskInv(s.tasks[i])
      /\ IdOf(s, i) # s.current
  BY <1>2 DEF MigrationCandidates, RunnableSlots, OccupiedSlots, SchedInv
<1>4. s.tasks[i].generation \in 1 .. MaxGeneration
  BY <1>3, SchedulerAssumption DEF TaskInv, Task
<1> HIDE DEF i
<1>5. IdOf(s, i) \in TaskId /\ Valid(s, IdOf(s, i))
  BY <1>3, <1>4 DEF IdOf, TaskId, Valid
<1> QED BY <1>3, <1>5 DEF CandidateId, i

-----------------------------------------------------------------------------
(***************************************************************************)
(* The runtime                                                             *)
(***************************************************************************)
\* What holds of a domain when next is the number of the next message: its
\* inbox is in order, and what waits in it was sent before.
IsDomain(d) == /\ d = [task |-> d.task, page |-> d.page, caps |-> d.caps, inbox |-> d.inbox,
                       head |-> d.head, tail |-> d.tail, count |-> d.count]
               /\ d.task \in TaskId
InboxInv(d, next) ==
    /\ d.inbox = [k \in InboxSlots |-> d.inbox[k]]
    /\ d.head \in InboxSlots /\ d.tail \in InboxSlots /\ d.count \in 0 .. INBOX
    /\ \A k \in InboxSlots : d.inbox[k] = NoMessage \/ d.inbox[k].number \in 1 .. next - 1
    /\ InboxInOrder(d)
DomainInv(d, next) == IsDomain(d) /\ InboxInv(d, next)

\* What holds of a domain on its way to another processor.
TicketInv(t, next) == /\ t.scheduling \in DetachedTask
                      /\ DomainInv(t.domain, next)
                      /\ t.scheduling.state = "Blocked" => t.domain.count = 0

IsRuntime(r) == /\ r = [sched |-> r.sched, domains |-> r.domains]
                /\ r.domains = [i \in Slots |-> r.domains[i]]

\* The inductive invariant of a runtime.
RuntimeInv(r, next) ==
    /\ IsRuntime(r)
    /\ SchedInv(r.sched)
    /\ \A i \in DomainSlots(r) : DomainInv(r.domains[i], next)
    /\ DomainsAreTasks(r)
    /\ NoneAsleepWithMail(r)

\* Where the address spaces are: as before, with one more, without one.
SamePages(r, u) == /\ DomainSlots(u) = DomainSlots(r)
                   /\ \A j \in DomainSlots(r) : u.domains[j].page = r.domains[j].page
Arrived(r, u, i, d) == /\ i \in Slots \ DomainSlots(r)
                       /\ DomainSlots(u) = DomainSlots(r) \cup {i}
                       /\ u.domains[i] = d
                       /\ \A j \in DomainSlots(r) : u.domains[j] = r.domains[j]
Left(r, u, i) == /\ i \in DomainSlots(r)
                 /\ DomainSlots(u) = DomainSlots(r) \ {i}
                 /\ \A j \in DomainSlots(u) : u.domains[j] = r.domains[j]

\* Nobody's capability space changes.
SameCaps(r, u) == \A j \in DomainSlots(r) : u.domains[j].caps = r.domains[j].caps

\* A domain is told from an empty entry by its task.
LEMMA DomainIsSome ==
    ASSUME NEW d, IsDomain(d)
    PROVE  d # NoDomain
BY NoTaskIsNone DEF IsDomain, NoDomain

\* The domain slot of a task that has a domain is that domain's.
LEMMA SlotIsIn ==
    ASSUME NEW r, NEW id, HasDomain(r, id)
    PROVE  /\ DomainSlot(r, id) \in DomainSlots(r) /\ DomainSlot(r, id) \in Slots
           /\ r.domains[DomainSlot(r, id)].task = id
<1> DEFINE S == {i \in DomainSlots(r) : r.domains[i].task = id}
<1>1. S # {} /\ S \subseteq Nat
  BY SchedulerAssumption DEF HasDomain, DomainSlots, Slots
<1>2. Min(S) \in S
  BY <1>1, MinIsIn
<1> QED BY <1>2 DEF DomainSlot, DomainSlots

\* The first free entry is free.
LEMMA FreeIsIn ==
    ASSUME NEW r, FreeDomains(r) # {}
    PROVE  Min(FreeDomains(r)) \in Slots /\ r.domains[Min(FreeDomains(r))] = NoDomain
<1>1. FreeDomains(r) \subseteq Nat
  BY SchedulerAssumption DEF FreeDomains, Slots
<1>2. Min(FreeDomains(r)) \in FreeDomains(r)
  BY <1>1, MinIsIn
<1> QED BY <1>2 DEF FreeDomains, DomainSlots

\* Live tasks with the same slot are the same.
LEMMA SameSlot ==
    ASSUME NEW s, NEW a \in TaskId, NEW b \in TaskId, Valid(s, a), Valid(s, b),
           a.slot = b.slot
    PROVE  a = b
BY DEF Valid, TaskId

-----------------------------------------------------------------------------
(***************************************************************************)
(* The four ways in which an operation changes a runtime                   *)
(***************************************************************************)
\* The scheduler moves on and no identity changes; who is blocked has no mail.
LEMMA SchedMoves ==
    ASSUME NEW r, NEW next, RuntimeInv(r, next), NEW u, IsRuntime(u),
           u.domains = r.domains, SchedInv(u.sched),
           \A k \in Slots : /\ u.sched.tasks[k].generation = r.sched.tasks[k].generation
                            /\ u.sched.tasks[k].occupied = r.sched.tasks[k].occupied,
           NoneAsleepWithMail(u)
    PROVE  RuntimeInv(u, next) /\ SamePages(r, u)
<1>1. DomainSlots(u) = DomainSlots(r) /\ OccupiedSlots(u.sched) = OccupiedSlots(r.sched)
  BY DEF DomainSlots, OccupiedSlots
<1>2. \A i \in DomainSlots(u) : DomainInv(u.domains[i], next)
  BY <1>1 DEF RuntimeInv
<1>3. DomainsAreTasks(r)
  BY DEF RuntimeInv
<1>4. \A id : HasDomain(r, id) => HasDomain(u, id)
  BY <1>1 DEF HasDomain
<1>5. \A i \in DomainSlots(u) : Valid(u.sched, u.domains[i].task)
  BY <1>1, <1>3 DEF DomainsAreTasks, Valid
<1>6. \A k \in OccupiedSlots(u.sched) : HasDomain(u, IdOf(u.sched, k))
  <2>1. \A k \in OccupiedSlots(u.sched) : IdOf(u.sched, k) = IdOf(r.sched, k)
    BY DEF IdOf, OccupiedSlots
  <2> QED BY <1>1, <1>3, <1>4, <2>1 DEF DomainsAreTasks
<1>7. DomainsAreTasks(u)
  BY <1>1, <1>3, <1>5, <1>6 DEF DomainsAreTasks
<1> QED BY <1>1, <1>2, <1>7 DEF RuntimeInv, SamePages

\* A domain changes in place, under its identity.
LEMMA DomainMoves ==
    ASSUME NEW r, NEW next, RuntimeInv(r, next), NEW u, IsRuntime(u),
           u.sched = r.sched, NEW i \in DomainSlots(r), NEW d, DomainInv(d, next),
           d.task = r.domains[i].task, u.domains = [r.domains EXCEPT ![i] = d],
           TaskOf(r, i).state = "Blocked" => d.count = 0, d.page = r.domains[i].page
    PROVE  RuntimeInv(u, next) /\ SamePages(r, u)
<1>1. i \in Slots /\ IsRuntime(r)
  BY DEF DomainSlots, RuntimeInv
<1>2. u.domains[i] = d /\ \A j \in Slots : j # i => u.domains[j] = r.domains[j]
  <2>1. DOMAIN r.domains = Slots
    BY <1>1 DEF IsRuntime
  <2> QED BY <1>1, <2>1
<1>3. d # NoDomain
  BY DomainIsSome DEF DomainInv
<1>4. DomainSlots(u) = DomainSlots(r)
  BY <1>2, <1>3 DEF DomainSlots
<1>5. \A j \in DomainSlots(r) : u.domains[j].task = r.domains[j].task
  BY <1>2 DEF DomainSlots
<1>6. \A j \in DomainSlots(u) : DomainInv(u.domains[j], next)
  BY <1>2, <1>4 DEF RuntimeInv, DomainSlots
<1>7. DomainsAreTasks(r) /\ NoneAsleepWithMail(r)
  BY DEF RuntimeInv
<1>8. \A id : HasDomain(r, id) => HasDomain(u, id)
  BY <1>4, <1>5 DEF HasDomain
<1>9. DomainsAreTasks(u)
  BY <1>4, <1>5, <1>7, <1>8 DEF DomainsAreTasks
<1>10. NoneAsleepWithMail(u)
  BY <1>2, <1>4, <1>5, <1>7 DEF NoneAsleepWithMail, TaskOf, DomainSlots
<1>11. SamePages(r, u)
  BY <1>2, <1>4 DEF SamePages, DomainSlots
<1> QED BY <1>6, <1>9, <1>10, <1>11 DEF RuntimeInv

\* A task and its domain appear together: k is a free slot of the scheduler, i
\* a free entry.
LEMMA DomainArrives ==
    ASSUME NEW r, NEW next, RuntimeInv(r, next), NEW u, IsRuntime(u), SchedInv(u.sched),
           NEW k \in Slots, ~ r.sched.tasks[k].occupied, OnlySlot(r.sched, u.sched, k),
           NEW i \in Slots, r.domains[i] = NoDomain, NEW d, DomainInv(d, next),
           u.domains = [r.domains EXCEPT ![i] = d],
           d.task.slot = k, Valid(u.sched, d.task),
           u.sched.tasks[k].state = "Blocked" => d.count = 0
    PROVE  RuntimeInv(u, next) /\ Arrived(r, u, i, d)
<1>1. IsRuntime(r) /\ DomainsAreTasks(r) /\ NoneAsleepWithMail(r)
  BY DEF RuntimeInv
<1>2. u.domains[i] = d /\ \A j \in Slots : j # i => u.domains[j] = r.domains[j]
  <2>1. DOMAIN r.domains = Slots
    BY <1>1 DEF IsRuntime
  <2> QED BY <2>1
<1>3. d # NoDomain
  BY DomainIsSome DEF DomainInv
<1>4. DomainSlots(u) = DomainSlots(r) \cup {i} /\ i \notin DomainSlots(r)
  BY <1>2, <1>3 DEF DomainSlots
<1>5. \A j \in DomainSlots(r) : u.domains[j] = r.domains[j] /\ j # i
  BY <1>2, <1>4 DEF DomainSlots
<1>6. \A j \in DomainSlots(r) : /\ r.domains[j].task.slot \in Slots
                                /\ r.domains[j].task.slot # k
                                /\ Valid(u.sched, r.domains[j].task)
  BY <1>1 DEF DomainsAreTasks, Valid, OnlySlot, SameTask
<1>7. \A j \in DomainSlots(u) : DomainInv(u.domains[j], next)
  BY <1>2, <1>4, <1>5 DEF RuntimeInv
<1>8. \A t \in OccupiedSlots(u.sched) : HasDomain(u, IdOf(u.sched, t))
  <2>1. \A id : HasDomain(r, id) => HasDomain(u, id)
    BY <1>4, <1>5 DEF HasDomain
  <2> SUFFICES ASSUME NEW t \in OccupiedSlots(u.sched) PROVE HasDomain(u, IdOf(u.sched, t))
    OBVIOUS
  <2>2. CASE t = k
    <3>1. IdOf(u.sched, t) = d.task
      BY <2>2 DEF IdOf, Valid, DomainInv, IsDomain, TaskId
    <3> QED BY <1>2, <1>4, <3>1 DEF HasDomain
  <2>3. CASE t # k
    <3>1. t \in OccupiedSlots(r.sched) /\ IdOf(u.sched, t) = IdOf(r.sched, t)
      BY <2>3 DEF OccupiedSlots, OnlySlot, SameTask, IdOf
    <3> QED BY <1>1, <2>1, <3>1 DEF DomainsAreTasks
  <2> QED BY <2>2, <2>3
<1>9. DomainsAreTasks(u)
  <2>1. \A j \in DomainSlots(u) : Valid(u.sched, u.domains[j].task)
    BY <1>2, <1>4, <1>5, <1>6
  <2>2. ASSUME NEW j \in DomainSlots(u), NEW l \in DomainSlots(u),
               u.domains[j].task = u.domains[l].task
        PROVE  j = l
    <3>1. CASE j = i \/ l = i
      BY <1>2, <1>4, <1>5, <1>6, <2>2, <3>1
    <3>2. CASE j # i /\ l # i
      BY <1>1, <1>4, <1>5, <2>2, <3>2 DEF DomainsAreTasks
    <3> QED BY <3>1, <3>2
  <2> QED BY <1>8, <2>1, <2>2 DEF DomainsAreTasks
<1>10. NoneAsleepWithMail(u)
  <2>1. ASSUME NEW j \in DomainSlots(r), TaskOf(u, j).state = "Blocked"
        PROVE  u.domains[j].count = 0
    BY <1>1, <1>5, <1>6, <2>1 DEF NoneAsleepWithMail, TaskOf, OnlySlot, SameTask
  <2>2. TaskOf(u, i).state = "Blocked" => u.domains[i].count = 0
    BY <1>2 DEF TaskOf
  <2> QED BY <1>4, <2>1, <2>2 DEF NoneAsleepWithMail
<1> QED BY <1>2, <1>4, <1>5, <1>7, <1>9, <1>10 DEF RuntimeInv, Arrived

\* A task and its domain leave together.
LEMMA DomainLeaves ==
    ASSUME NEW r, NEW next, RuntimeInv(r, next), NEW u, IsRuntime(u), SchedInv(u.sched),
           NEW i \in DomainSlots(r), u.domains = [r.domains EXCEPT ![i] = NoDomain],
           OnlySlot(r.sched, u.sched, r.domains[i].task.slot),
           ~ u.sched.tasks[r.domains[i].task.slot].occupied
    PROVE  RuntimeInv(u, next) /\ Left(r, u, i)
<1> DEFINE k == r.domains[i].task.slot
<1>1. /\ IsRuntime(r) /\ DomainsAreTasks(r) /\ NoneAsleepWithMail(r) /\ i \in Slots
      /\ \A j \in DomainSlots(r) : r.domains[j].task \in TaskId
  BY DEF RuntimeInv, DomainSlots, DomainInv, IsDomain
<1>2. u.domains[i] = NoDomain /\ \A j \in Slots : j # i => u.domains[j] = r.domains[j]
  <2>1. DOMAIN r.domains = Slots
    BY <1>1 DEF IsRuntime
  <2> QED BY <1>1, <2>1
<1>3. DomainSlots(u) = DomainSlots(r) \ {i}
  BY <1>2 DEF DomainSlots
<1>4. \A j \in DomainSlots(u) : u.domains[j] = r.domains[j] /\ j \in DomainSlots(r) /\ j # i
  BY <1>2, <1>3 DEF DomainSlots
<1>5. ASSUME NEW j \in DomainSlots(u)
      PROVE  r.domains[j].task.slot \in Slots /\ r.domains[j].task.slot # k
  <2>1. Valid(r.sched, r.domains[j].task) /\ Valid(r.sched, r.domains[i].task)
    BY <1>1, <1>4 DEF DomainsAreTasks
  <2>2. r.domains[j].task # r.domains[i].task
    BY <1>1, <1>4 DEF DomainsAreTasks
  <2> QED BY <1>1, <1>4, <2>1, <2>2, SameSlot DEF Valid
<1>6. \A j \in DomainSlots(u) : DomainInv(u.domains[j], next)
  BY <1>4 DEF RuntimeInv
<1>7. \A j \in DomainSlots(u) : Valid(u.sched, u.domains[j].task)
  <2> SUFFICES ASSUME NEW j \in DomainSlots(u) PROVE Valid(u.sched, r.domains[j].task)
    BY <1>4
  <2>1. Valid(r.sched, r.domains[j].task)
    BY <1>1, <1>4 DEF DomainsAreTasks
  <2> QED BY <1>5, <2>1 DEF Valid, OnlySlot, SameTask
<1>8. ASSUME NEW t \in OccupiedSlots(u.sched) PROVE HasDomain(u, IdOf(u.sched, t))
  <2>1. t \in Slots /\ t # k
    BY DEF OccupiedSlots
  <2>2. t \in OccupiedSlots(r.sched) /\ IdOf(u.sched, t) = IdOf(r.sched, t)
    BY <2>1 DEF OccupiedSlots, OnlySlot, SameTask, IdOf
  <2>3. PICK j \in DomainSlots(r) : r.domains[j].task = IdOf(r.sched, t)
    BY <1>1, <2>2 DEF DomainsAreTasks, HasDomain
  <2>4. j # i
    BY <2>1, <2>3 DEF IdOf
  <2> QED BY <1>3, <1>4, <2>2, <2>3, <2>4 DEF HasDomain
<1>9. DomainsAreTasks(u)
  BY <1>1, <1>4, <1>7, <1>8 DEF DomainsAreTasks
<1>10. NoneAsleepWithMail(u)
  BY <1>1, <1>4, <1>5 DEF NoneAsleepWithMail, TaskOf, OnlySlot, SameTask
<1> QED BY <1>3, <1>4, <1>6, <1>9, <1>10 DEF RuntimeInv, Left

-----------------------------------------------------------------------------
(***************************************************************************)
(* The operations                                                          *)
(***************************************************************************)
\* A runtime whose entries are all None.
LEMMA NewRuntimeInv ==
    ASSUME NEW next
    PROVE  RuntimeInv(NewRuntime, next) /\ DomainSlots(NewRuntime) = {}
<1>1. IsRuntime(NewRuntime) /\ DomainSlots(NewRuntime) = {}
  BY DEF IsRuntime, NewRuntime, DomainSlots
<1>2. NewRuntime.sched = NewScheduler
  BY DEF NewRuntime
<1>3. OccupiedSlots(NewScheduler) = {}
  BY DEF OccupiedSlots, NewScheduler, EmptyTask
<1> QED BY <1>1, <1>2, <1>3, NewSchedulerInv DEF RuntimeInv, DomainsAreTasks, NoneAsleepWithMail

\* start, timer_tick and yield: only the scheduler changes.
LEMMA SchedOnly ==
    ASSUME NEW r, NEW next, RuntimeInv(r, next), NEW s, SchedInv(s), SameTasks(r.sched, s)
    PROVE  /\ RuntimeInv([r EXCEPT !.sched = s], next)
           /\ SamePages(r, [r EXCEPT !.sched = s])
           /\ [r EXCEPT !.sched = s].sched = s
           /\ [r EXCEPT !.sched = s].domains = r.domains
<1> DEFINE u == [r EXCEPT !.sched = s]
<1>1. IsRuntime(r)
  BY DEF RuntimeInv
<1>2. u = [sched |-> s, domains |-> r.domains]
  BY <1>1 DEF IsRuntime
<1>3. IsRuntime(u) /\ u.sched = s /\ u.domains = r.domains
  BY <1>1, <1>2 DEF IsRuntime
<1> HIDE DEF u
<1>4. NoneAsleepWithMail(u)
  <2> SUFFICES ASSUME NEW i \in DomainSlots(r), s.tasks[r.domains[i].task.slot].state = "Blocked"
               PROVE  r.domains[i].count = 0
    BY <1>3 DEF NoneAsleepWithMail, TaskOf, DomainSlots
  <2>1. r.domains[i].task.slot \in Slots
    BY DEF RuntimeInv, DomainsAreTasks, Valid
  <2> QED BY <2>1 DEF RuntimeInv, NoneAsleepWithMail, TaskOf, SameTasks, SameTask
<1>5. RuntimeInv(u, next) /\ SamePages(r, u)
  BY <1>3, <1>4, SchedMoves DEF SameTasks, SameTask
<1> QED BY <1>3, <1>5 DEF u

\* An empty inbox.
LEMMA NewDomainInv ==
    ASSUME NEW next, NEW id \in TaskId, NEW page
    PROVE  LET d == [NoDomain EXCEPT !.task = id, !.page = page] IN
           DomainInv(d, next) /\ d.task = id /\ d.page = page /\ d.count = 0
<1> DEFINE d == [NoDomain EXCEPT !.task = id, !.page = page]
           box == [i \in InboxSlots |-> NoMessage]
           e == [NoDomain EXCEPT !.task = id]
<1>1. d = [task |-> id, page |-> page, caps |-> NewSpace,
           inbox |-> box, head |-> 0, tail |-> 0, count |-> 0]
  <2>1. NoDomain = [task |-> NoTask, page |-> NoPage, caps |-> NewSpace,
                    inbox |-> box, head |-> 0, tail |-> 0, count |-> 0]
    BY DEF NoDomain
  <2> HIDE DEF box
  <2>2. e = [task |-> id, page |-> NoPage, caps |-> NewSpace,
             inbox |-> box, head |-> 0, tail |-> 0, count |-> 0]
    BY <2>1
  <2>3. d = [e EXCEPT !.page = page]
    OBVIOUS
  <2> HIDE DEF d, e
  <2> QED BY <2>2, <2>3
<1>2. IsDomain(d) /\ d.task = id /\ d.page = page /\ d.count = 0
  BY <1>1 DEF IsDomain
<1>3. /\ d.inbox = [i \in InboxSlots |-> NoMessage]
      /\ d.head = 0 /\ d.tail = 0 /\ d.count = 0
  BY <1>1
<1> HIDE DEF d
<1>4. InboxInv(d, next)
  BY <1>3 DEF InboxInv, InboxSlots, INBOX, InboxInOrder, Ahead
<1> QED BY <1>2, <1>4 DEF DomainInv, d

\* create: the task and its domain.
LEMMA CreateDomainInv ==
    ASSUME NEW r, NEW next, RuntimeInv(r, next), CanCreateDomain(r),
           NEW priority \in Priority, NEW page
    PROVE  LET u == CreateDomain(r, priority, page) IN
           /\ RuntimeInv(u, next)
           /\ \E i \in Slots : \E d : Arrived(r, u, i, d) /\ d.page = page /\ d.caps = NewSpace
<1> DEFINE u == CreateDomain(r, priority, page)
           i == Min(FreeDomains(r))
           id == CreatedId(r.sched)
           d == [NoDomain EXCEPT !.task = id, !.page = page]
<1>1. IsRuntime(r) /\ SchedInv(r.sched) /\ FreeDomains(r) # {} /\ CanCreate(r.sched)
  BY DEF RuntimeInv, CanCreateDomain
<1>2. /\ SchedInv(Create(r.sched, priority)) /\ id \in TaskId
      /\ Valid(Create(r.sched, priority), id) /\ ~ r.sched.tasks[id.slot].occupied
      /\ OnlySlot(r.sched, Create(r.sched, priority), id.slot)
      /\ Create(r.sched, priority).tasks[id.slot].state = "Runnable"
  BY <1>1, CreateKeeps
<1>3. i \in Slots /\ r.domains[i] = NoDomain
  BY <1>1, FreeIsIn
<1>4. DomainInv(d, next) /\ d.task = id /\ d.page = page /\ d.caps = NewSpace
  BY <1>2, NewDomainInv DEF NoDomain
<1>5. /\ u = [sched |-> Create(r.sched, priority), domains |-> [r.domains EXCEPT ![i] = d]]
      /\ id.slot \in Slots
  BY <1>2 DEF CreateDomain, Valid
<1> HIDE DEF i, id, d, u
<1>6. /\ IsRuntime(u) /\ u.sched = Create(r.sched, priority)
      /\ u.domains = [r.domains EXCEPT ![i] = d]
  BY <1>1, <1>5 DEF IsRuntime
<1>7. RuntimeInv(u, next) /\ Arrived(r, u, i, d)
  BY <1>1, <1>2, <1>3, <1>4, <1>5, <1>6, DomainArrives
<1> QED BY <1>3, <1>4, <1>7 DEF u

-----------------------------------------------------------------------------
(***************************************************************************)
(* What is done to one domain                                              *)
(***************************************************************************)
\* The inbox of a domain is its own: the rest of the record may change.
LEMMA InboxOnly ==
    ASSUME NEW d, NEW e, NEW next, InboxInv(d, next),
           e.inbox = d.inbox, e.head = d.head, e.tail = d.tail, e.count = d.count
    PROVE  InboxInv(e, next)
BY DEF InboxInv, InboxInOrder, Ahead

\* capabilities_mut: another capability space.
LEMMA CapsDomain ==
    ASSUME NEW d, NEW next, DomainInv(d, next), NEW space
    PROVE  LET e == [d EXCEPT !.caps = space] IN
           /\ DomainInv(e, next) /\ e.task = d.task /\ e.page = d.page /\ e.count = d.count
           /\ e.caps = space
<1> DEFINE e == [d EXCEPT !.caps = space]
<1>1. e = [task |-> d.task, page |-> d.page, caps |-> space, inbox |-> d.inbox,
           head |-> d.head, tail |-> d.tail, count |-> d.count]
  BY DEF DomainInv, IsDomain
<1> HIDE DEF e
<1>2. /\ IsDomain(e) /\ e.task = d.task /\ e.page = d.page /\ e.caps = space
      /\ e.inbox = d.inbox /\ e.head = d.head /\ e.tail = d.tail /\ e.count = d.count
  BY <1>1 DEF DomainInv, IsDomain
<1> QED BY <1>2, InboxOnly DEF DomainInv, e

\* attach_domain: another identity.
LEMMA RenamedDomain ==
    ASSUME NEW d, NEW next, DomainInv(d, next), NEW id \in TaskId
    PROVE  LET e == [d EXCEPT !.task = id] IN
           /\ DomainInv(e, next) /\ e.task = id /\ e.page = d.page /\ e.count = d.count
           /\ e.caps = d.caps
<1> DEFINE e == [d EXCEPT !.task = id]
<1>1. e = [task |-> id, page |-> d.page, caps |-> d.caps, inbox |-> d.inbox,
           head |-> d.head, tail |-> d.tail, count |-> d.count]
  BY DEF DomainInv, IsDomain
<1> HIDE DEF e
<1>2. /\ IsDomain(e) /\ e.task = id /\ e.page = d.page /\ e.caps = d.caps
      /\ e.inbox = d.inbox /\ e.head = d.head /\ e.tail = d.tail /\ e.count = d.count
  BY <1>1 DEF DomainInv, IsDomain
<1> QED BY <1>2, InboxOnly DEF DomainInv, e

\* deliver_ipc: a message more in the inbox, and nothing else.
LEMMA FilledIs ==
    ASSUME NEW d, IsDomain(d), NEW message
    PROVE  LET e == Filled(d, message) IN
           /\ IsDomain(e) /\ e.task = d.task /\ e.page = d.page /\ e.caps = d.caps
           /\ e.inbox = [d.inbox EXCEPT ![d.tail] = message]
           /\ e.head = d.head /\ e.tail = After(d.tail) /\ e.count = d.count + 1
<1> DEFINE box == [d.inbox EXCEPT ![d.tail] = message]
           a == [d EXCEPT !.inbox = box]
           b == [a EXCEPT !.tail = After(@)]
           e == [b EXCEPT !.count = @ + 1]
<1>1. Filled(d, message) = e
  BY DEF Filled
<1> HIDE DEF box
<1>2. a = [task |-> d.task, page |-> d.page, caps |-> d.caps, inbox |-> box,
           head |-> d.head, tail |-> d.tail, count |-> d.count]
  BY DEF IsDomain
<1> HIDE DEF a
<1>3. b = [task |-> d.task, page |-> d.page, caps |-> d.caps, inbox |-> box,
           head |-> d.head, tail |-> After(d.tail), count |-> d.count]
  BY <1>2
<1> HIDE DEF b
<1>4. e = [task |-> d.task, page |-> d.page, caps |-> d.caps, inbox |-> box,
           head |-> d.head, tail |-> After(d.tail), count |-> d.count + 1]
  BY <1>3
<1> HIDE DEF e
<1>5. /\ IsDomain(e) /\ e.task = d.task /\ e.page = d.page /\ e.caps = d.caps /\ e.inbox = box
      /\ e.head = d.head /\ e.tail = After(d.tail) /\ e.count = d.count + 1
  BY <1>4 DEF IsDomain
<1> QED BY <1>1, <1>5 DEF box

\* receive_ipc: the first message of the inbox is gone, and nothing else.
LEMMA EmptiedIs ==
    ASSUME NEW d, IsDomain(d)
    PROVE  LET e == Emptied(d) IN
           /\ IsDomain(e) /\ e.task = d.task /\ e.page = d.page /\ e.caps = d.caps
           /\ e.inbox = [d.inbox EXCEPT ![d.head] = NoMessage]
           /\ e.head = After(d.head) /\ e.tail = d.tail /\ e.count = d.count - 1
<1> DEFINE box == [d.inbox EXCEPT ![d.head] = NoMessage]
           a == [d EXCEPT !.inbox = box]
           b == [a EXCEPT !.head = After(@)]
           e == [b EXCEPT !.count = @ - 1]
<1>1. Emptied(d) = e
  BY DEF Emptied
<1> HIDE DEF box
<1>2. a = [task |-> d.task, page |-> d.page, caps |-> d.caps, inbox |-> box,
           head |-> d.head, tail |-> d.tail, count |-> d.count]
  BY DEF IsDomain
<1> HIDE DEF a
<1>3. b = [task |-> d.task, page |-> d.page, caps |-> d.caps, inbox |-> box,
           head |-> After(d.head), tail |-> d.tail, count |-> d.count]
  BY <1>2
<1> HIDE DEF b
<1>4. e = [task |-> d.task, page |-> d.page, caps |-> d.caps, inbox |-> box,
           head |-> After(d.head), tail |-> d.tail, count |-> d.count - 1]
  BY <1>3
<1> HIDE DEF e
<1>5. /\ IsDomain(e) /\ e.task = d.task /\ e.page = d.page /\ e.caps = d.caps /\ e.inbox = box
      /\ e.head = After(d.head) /\ e.tail = d.tail /\ e.count = d.count - 1
  BY <1>4 DEF IsDomain
<1> QED BY <1>1, <1>5 DEF box

\* A full inbox takes nothing; otherwise what is put in it comes last.
LEMMA FilledInv ==
    ASSUME NEW d, NEW next \in Nat \ {0}, DomainInv(d, next), d.count # INBOX,
           NEW message, message.number = next
    PROVE  LET e == Filled(d, message) IN
           DomainInv(e, next + 1) /\ e.task = d.task /\ e.page = d.page
<1> DEFINE e == Filled(d, message)
<1>1. /\ IsDomain(e) /\ e.task = d.task /\ e.page = d.page
      /\ e.inbox = [d.inbox EXCEPT ![d.tail] = message]
      /\ e.head = d.head /\ e.tail = After(d.tail) /\ e.count = d.count + 1
  BY FilledIs DEF DomainInv
<1> HIDE DEF e
<1>2. message # NoMessage
  BY DEF NoMessage
<1>3. /\ d.head \in {0, 1} /\ d.tail \in {0, 1} /\ d.count \in {0, 1}
      /\ d.inbox = [k \in {0, 1} |-> d.inbox[k]]
      /\ d.inbox[0] = NoMessage \/ d.inbox[0].number \in 1 .. next - 1
      /\ d.inbox[1] = NoMessage \/ d.inbox[1].number \in 1 .. next - 1
      /\ InboxInOrder(d)
  BY DEF DomainInv, InboxInv, InboxSlots, INBOX
<1>4. /\ d.tail = IF d.head + d.count >= 2 THEN d.head + d.count - 2 ELSE d.head + d.count
      /\ (d.inbox[d.head] # NoMessage) = (0 < d.count)
      /\ d.inbox[1 - d.head] = NoMessage
  BY <1>3 DEF InboxInOrder, Ahead, InboxSlots, INBOX
<1>5. /\ e.inbox[d.tail] = message /\ e.inbox[1 - d.tail] = d.inbox[1 - d.tail]
      /\ e.inbox = [k \in {0, 1} |-> e.inbox[k]]
  BY <1>1, <1>3
<1>6. InboxInOrder(e)
  <2>1. e.tail = Ahead(e, IF e.count = INBOX THEN 0 ELSE e.count)
    BY <1>1, <1>3, <1>4 DEF Ahead, INBOX, After
  <2>2. /\ (e.inbox[e.head] # NoMessage) = (0 < e.count)
        /\ (e.inbox[1 - e.head] # NoMessage) = (1 < e.count)
    BY <1>1, <1>2, <1>3, <1>4, <1>5
  <2>3. 1 < e.count => e.inbox[e.head].number < e.inbox[1 - e.head].number
    BY <1>1, <1>2, <1>3, <1>4, <1>5
  <2>4. Ahead(e, 0) = e.head /\ Ahead(e, 1) = 1 - e.head
    BY <1>1, <1>3 DEF Ahead, INBOX
  <2> QED BY <2>1, <2>2, <2>3, <2>4 DEF InboxInOrder, InboxSlots, INBOX
<1>7. InboxInv(e, next + 1)
  <2>1. e.inbox[0] = NoMessage \/ e.inbox[0].number \in 1 .. next
    BY <1>3, <1>5
  <2>2. e.inbox[1] = NoMessage \/ e.inbox[1].number \in 1 .. next
    BY <1>3, <1>5
  <2> QED BY <1>1, <1>3, <1>5, <1>6, <2>1, <2>2 DEF InboxInv, InboxSlots, INBOX, After
<1> QED BY <1>1, <1>7 DEF DomainInv, e

\* An inbox with a message in it gives the oldest one away.
LEMMA EmptiedInv ==
    ASSUME NEW d, NEW next \in Nat \ {0}, DomainInv(d, next), d.count # 0
    PROVE  LET e == Emptied(d) IN
           DomainInv(e, next) /\ e.task = d.task /\ e.page = d.page
<1> DEFINE e == Emptied(d)
<1>1. /\ IsDomain(e) /\ e.task = d.task /\ e.page = d.page
      /\ e.inbox = [d.inbox EXCEPT ![d.head] = NoMessage]
      /\ e.head = After(d.head) /\ e.tail = d.tail /\ e.count = d.count - 1
  BY EmptiedIs DEF DomainInv
<1> HIDE DEF e
<1>3. /\ d.head \in {0, 1} /\ d.tail \in {0, 1} /\ d.count \in {1, 2}
      /\ d.inbox = [k \in {0, 1} |-> d.inbox[k]]
      /\ d.inbox[0] = NoMessage \/ d.inbox[0].number \in 1 .. next - 1
      /\ d.inbox[1] = NoMessage \/ d.inbox[1].number \in 1 .. next - 1
      /\ InboxInOrder(d)
  BY DEF DomainInv, InboxInv, InboxSlots, INBOX
<1>4. /\ d.tail = IF d.count = 2 THEN d.head ELSE 1 - d.head
      /\ (d.inbox[1 - d.head] # NoMessage) = (1 < d.count)
  BY <1>3 DEF InboxInOrder, Ahead, InboxSlots, INBOX
<1>5. /\ e.inbox[d.head] = NoMessage /\ e.inbox[1 - d.head] = d.inbox[1 - d.head]
      /\ e.inbox = [k \in {0, 1} |-> e.inbox[k]] /\ e.head = 1 - d.head
  BY <1>1, <1>3 DEF After, INBOX
<1>6. InboxInOrder(e)
  <2>1. e.tail = Ahead(e, IF e.count = INBOX THEN 0 ELSE e.count)
    BY <1>1, <1>3, <1>4, <1>5 DEF Ahead, INBOX
  <2>2. /\ (e.inbox[e.head] # NoMessage) = (0 < e.count)
        /\ (e.inbox[1 - e.head] # NoMessage) = (1 < e.count)
    BY <1>1, <1>3, <1>4, <1>5
  <2>3. ~ (1 < e.count)
    BY <1>1, <1>3
  <2>4. Ahead(e, 0) = e.head /\ Ahead(e, 1) = 1 - e.head
    BY <1>3, <1>5 DEF Ahead, INBOX
  <2> QED BY <2>1, <2>2, <2>3, <2>4 DEF InboxInOrder, InboxSlots, INBOX
<1>7. InboxInv(e, next)
  <2>1. e.inbox[0] = NoMessage \/ e.inbox[0].number \in 1 .. next - 1
    BY <1>3, <1>5
  <2>2. e.inbox[1] = NoMessage \/ e.inbox[1].number \in 1 .. next - 1
    BY <1>3, <1>5
  <2> QED BY <1>1, <1>3, <1>5, <1>6, <2>1, <2>2 DEF InboxInv, InboxSlots, INBOX
<1> QED BY <1>1, <1>7 DEF DomainInv, e

\* A number sent is a number sent for ever.
LEMMA LaterInv ==
    ASSUME NEW d, NEW next \in Nat \ {0}, DomainInv(d, next)
    PROVE  DomainInv(d, next + 1)
<1>1. \A k \in InboxSlots : d.inbox[k] = NoMessage \/ d.inbox[k].number \in 1 .. next - 1
  BY DEF DomainInv, InboxInv
<1>2. \A k \in InboxSlots : d.inbox[k] = NoMessage \/ d.inbox[k].number \in 1 .. next + 1 - 1
  BY <1>1
<1> QED BY <1>2 DEF DomainInv, InboxInv

-----------------------------------------------------------------------------
(***************************************************************************)
(* What is done to a runtime                                               *)
(***************************************************************************)
\* The domain of a live task is replaced by another one of its.
LEMMA ReplaceDomain ==
    ASSUME NEW r, NEW next, RuntimeInv(r, next), NEW i \in DomainSlots(r),
           NEW d, DomainInv(d, next), d.task = r.domains[i].task, d.page = r.domains[i].page,
           TaskOf(r, i).state = "Blocked" => d.count = 0
    PROVE  /\ RuntimeInv([r EXCEPT !.domains[i] = d], next)
           /\ SamePages(r, [r EXCEPT !.domains[i] = d])
           /\ [r EXCEPT !.domains[i] = d].sched = r.sched
           /\ [r EXCEPT !.domains[i] = d].domains[i] = d
           /\ \A j \in Slots \ {i} : [r EXCEPT !.domains[i] = d].domains[j] = r.domains[j]
<1> DEFINE u == [r EXCEPT !.domains[i] = d]
<1>1. IsRuntime(r) /\ i \in Slots
  BY DEF RuntimeInv, DomainSlots
<1>2. u = [sched |-> r.sched, domains |-> [r.domains EXCEPT ![i] = d]]
  BY <1>1 DEF IsRuntime
<1> HIDE DEF u
<1>3. IsRuntime(u) /\ u.sched = r.sched /\ u.domains = [r.domains EXCEPT ![i] = d]
  BY <1>1, <1>2 DEF IsRuntime
<1>4. RuntimeInv(u, next) /\ SamePages(r, u)
  BY <1>3, DomainMoves
<1>5. u.domains[i] = d /\ \A j \in Slots \ {i} : u.domains[j] = r.domains[j]
  BY <1>1, <1>3 DEF IsRuntime
<1> QED BY <1>3, <1>4, <1>5 DEF u

\* The entry of a task, in a runtime that keeps the invariant.
LEMMA DomainFound ==
    ASSUME NEW r, NEW next, RuntimeInv(r, next), NEW id, HasDomain(r, id)
    PROVE  /\ DomainSlot(r, id) \in DomainSlots(r) /\ DomainSlot(r, id) \in Slots
           /\ r.domains[DomainSlot(r, id)].task = id
           /\ DomainInv(r.domains[DomainSlot(r, id)], next)
           /\ id \in TaskId /\ Valid(r.sched, id)
<1>1. /\ DomainSlot(r, id) \in DomainSlots(r) /\ DomainSlot(r, id) \in Slots
      /\ r.domains[DomainSlot(r, id)].task = id
  BY SlotIsIn
<1>2. DomainInv(r.domains[DomainSlot(r, id)], next) /\ Valid(r.sched, id)
  BY <1>1 DEF RuntimeInv, DomainsAreTasks
<1> QED BY <1>1, <1>2 DEF DomainInv, IsDomain

\* capabilities_mut of a task: only its capability space changes.
LEMMA WithCapsInv ==
    ASSUME NEW r, NEW next, RuntimeInv(r, next), NEW id, HasDomain(r, id), NEW space
    PROVE  LET u == WithCaps(r, id, space) IN
           /\ RuntimeInv(u, next) /\ SamePages(r, u)
           /\ DomainSlot(u, id) = DomainSlot(r, id) /\ HasDomain(u, id)
           /\ DomainOf(u, id).count = DomainOf(r, id).count
           /\ \A j \in DomainSlots(r) :
                 u.domains[j].caps = IF j = DomainSlot(r, id) THEN space ELSE r.domains[j].caps
<1> DEFINE i == DomainSlot(r, id)
           d == [r.domains[i] EXCEPT !.caps = space]
           u == [r EXCEPT !.domains[i] = d]
<1>1. /\ i \in DomainSlots(r) /\ i \in Slots /\ r.domains[i].task = id
      /\ DomainInv(r.domains[i], next)
  BY DomainFound
<1>2. /\ DomainInv(d, next) /\ d.task = r.domains[i].task
      /\ d.page = r.domains[i].page /\ d.count = r.domains[i].count /\ d.caps = space
  BY <1>1, CapsDomain
<1>3. TaskOf(r, i).state = "Blocked" => d.count = 0
  BY <1>1, <1>2 DEF RuntimeInv, NoneAsleepWithMail
<1>4. WithCaps(r, id, space) = u
  BY DEF WithCaps
<1> HIDE DEF i, d
<1>5. RuntimeInv(u, next) /\ SamePages(r, u)
  BY <1>1, <1>2, <1>3, ReplaceDomain
<1>6. u.domains[i] = d /\ \A j \in Slots : j # i => u.domains[j] = r.domains[j]
  BY <1>1 DEF RuntimeInv, IsRuntime
<1> HIDE DEF u
<1>7. {j \in DomainSlots(u) : u.domains[j].task = id} = {j \in DomainSlots(r) : r.domains[j].task = id}
  BY <1>1, <1>2, <1>5, <1>6 DEF SamePages, DomainSlots
<1>8. DomainSlot(u, id) = i /\ HasDomain(u, id)
  BY <1>7 DEF DomainSlot, HasDomain, i
<1>9. \A j \in DomainSlots(r) : u.domains[j].caps = IF j = i THEN space ELSE r.domains[j].caps
  BY <1>2, <1>6 DEF DomainSlots
<1> QED BY <1>2, <1>4, <1>5, <1>6, <1>8, <1>9 DEF i, DomainOf

\* preempt_current: the context goes to the domain it came from, so that only
\* the scheduler changes.
LEMMA PreemptInv ==
    ASSUME NEW r, NEW next, RuntimeInv(r, next), NEW page, CanPreempt(r, page)
    PROVE  /\ RuntimeInv(Preempt(r, page), next) /\ SamePages(r, Preempt(r, page))
           /\ Preempt(r, page).domains = r.domains
<1> DEFINE i == DomainSlot(r, r.sched.current)
           d == r.domains[i]
           s == TimerTick(r.sched)
<1>1. i \in Slots /\ IsDomain(d) /\ d.page = page /\ IsRuntime(r) /\ SchedInv(r.sched)
  BY DomainFound DEF CanPreempt, DomainOf, DomainInv, RuntimeInv
<1>2. [d EXCEPT !.page = page] = d
  BY <1>1 DEF IsDomain
<1>3. [r.domains EXCEPT ![i] = d] = r.domains
  BY <1>1 DEF IsRuntime
<1>4. Preempt(r, page) = [sched |-> s, domains |-> [r.domains EXCEPT ![i] = [d EXCEPT !.page = page]]]
  <2> DEFINE e == [d EXCEPT !.page = page]
             v == [r EXCEPT !.sched = s]
             w == [v EXCEPT !.domains[i] = e]
  <2>1. v = [sched |-> s, domains |-> r.domains]
    BY <1>1 DEF IsRuntime
  <2>2. Preempt(r, page) = w
    BY <2>1 DEF Preempt
  <2> HIDE DEF v, e
  <2>3. w = [sched |-> s, domains |-> [r.domains EXCEPT ![i] = e]]
    BY <2>1
  <2> QED BY <2>2, <2>3 DEF e
<1>5. Preempt(r, page) = [r EXCEPT !.sched = s]
  BY <1>1, <1>2, <1>3, <1>4 DEF IsRuntime
<1>6. SchedInv(s) /\ SameTasks(r.sched, s)
  BY <1>1, TickKeeps
<1> QED BY <1>5, <1>6, SchedOnly

\* detach_domain: the ticket has the domain as it was.
LEMMA DetachDomainInv ==
    ASSUME NEW r, NEW next, RuntimeInv(r, next), NEW id, CanDetachDomain(r, id)
    PROVE  /\ RuntimeInv(DetachDomain(r, id), next)
           /\ Left(r, DetachDomain(r, id), DomainSlot(r, id))
           /\ DomainTicket(r, id).scheduling \in DetachedTask
           /\ DomainInv(DomainTicket(r, id).domain, next)
           /\ DomainTicket(r, id).domain = r.domains[DomainSlot(r, id)]
           /\ DomainTicket(r, id).scheduling.state = "Blocked" =>
                 DomainTicket(r, id).domain.count = 0
<1> DEFINE i == DomainSlot(r, id)
           u == DetachDomain(r, id)
           s == Detach(r.sched, id)
<1>1. /\ i \in DomainSlots(r) /\ i \in Slots /\ r.domains[i].task = id
      /\ DomainInv(r.domains[i], next) /\ IsRuntime(r) /\ SchedInv(r.sched)
      /\ id \in TaskId /\ CanDetach(r.sched, id)
  BY DomainFound DEF CanDetachDomain, RuntimeInv
<1>2. /\ SchedInv(s) /\ OnlySlot(r.sched, s, id.slot) /\ ~ s.tasks[id.slot].occupied
      /\ TicketOf(r.sched, id) \in DetachedTask
  BY <1>1, DetachKeeps
<1>3. u = [sched |-> s, domains |-> [r.domains EXCEPT ![i] = NoDomain]]
  <2> DEFINE v == [r EXCEPT !.domains[i] = NoDomain]
             w == [v EXCEPT !.sched = Detach(@, id)]
  <2>1. v = [sched |-> r.sched, domains |-> [r.domains EXCEPT ![i] = NoDomain]]
    BY <1>1 DEF IsRuntime
  <2>2. u = w
    BY <1>1 DEF DetachDomain
  <2> HIDE DEF v, i
  <2>3. w = [sched |-> s, domains |-> [r.domains EXCEPT ![i] = NoDomain]]
    BY <2>1
  <2> QED BY <2>2, <2>3 DEF i
<1> HIDE DEF u, s, i
<1>4. IsRuntime(u) /\ u.sched = s /\ u.domains = [r.domains EXCEPT ![i] = NoDomain]
  BY <1>1, <1>3 DEF IsRuntime
<1>5. RuntimeInv(u, next) /\ Left(r, u, i)
  BY <1>1, <1>2, <1>4, DomainLeaves
<1>6. r.sched.tasks[id.slot].state = "Blocked" => r.domains[i].count = 0
  BY <1>1 DEF RuntimeInv, NoneAsleepWithMail, TaskOf
<1>7. /\ DomainTicket(r, id).scheduling = TicketOf(r.sched, id)
      /\ DomainTicket(r, id).domain = r.domains[i]
  BY DEF DomainTicket, DomainOf, i
<1> QED BY <1>1, <1>2, <1>5, <1>6, <1>7 DEF u, i, TicketOf

\* A detach that the scheduler rejects puts the domain back where it was.
LEMMA RejectedDetach ==
    ASSUME NEW r, NEW next, RuntimeInv(r, next), NEW id, HasDomain(r, id),
           ~CanDetach(r.sched, id)
    PROVE  DetachDomain(r, id) = r
<1> DEFINE i == DomainSlot(r, id)
           v == [r EXCEPT !.domains[i] = NoDomain]
           w == [v EXCEPT !.domains[i] = r.domains[i]]
<1>1. i \in Slots /\ IsRuntime(r)
  BY DomainFound DEF RuntimeInv
<1>2. DetachDomain(r, id) = w
  BY DEF DetachDomain
<1> HIDE DEF i
<1>3. v = [sched |-> r.sched, domains |-> [r.domains EXCEPT ![i] = NoDomain]]
  BY <1>1 DEF IsRuntime
<1> HIDE DEF v
<1>4. w = [sched |-> r.sched,
           domains |-> [[r.domains EXCEPT ![i] = NoDomain] EXCEPT ![i] = r.domains[i]]]
  BY <1>3
<1>5. [[r.domains EXCEPT ![i] = NoDomain] EXCEPT ![i] = r.domains[i]] = r.domains
  BY <1>1 DEF IsRuntime
<1> QED BY <1>1, <1>2, <1>4, <1>5 DEF IsRuntime, v, i

\* terminate_current
LEMMA TerminateDomainInv ==
    ASSUME NEW r, NEW next, RuntimeInv(r, next), r.sched.current # NoTask,
           HasDomain(r, r.sched.current)
    PROVE  /\ RuntimeInv(TerminateDomain(r), next)
           /\ Left(r, TerminateDomain(r), DomainSlot(r, r.sched.current))
<1> DEFINE id == r.sched.current
           i == DomainSlot(r, id)
           u == TerminateDomain(r)
           s == TerminateCurrent(r.sched)
<1>1. /\ i \in DomainSlots(r) /\ i \in Slots /\ r.domains[i].task = id
      /\ IsRuntime(r) /\ SchedInv(r.sched)
  BY DomainFound DEF RuntimeInv
<1>2. SchedInv(s) /\ OnlySlot(r.sched, s, id.slot) /\ ~ s.tasks[id.slot].occupied
  BY <1>1, TerminateKeeps
<1>3. u = [sched |-> s, domains |-> [r.domains EXCEPT ![i] = NoDomain]]
  <2> DEFINE v == [r EXCEPT !.domains[i] = NoDomain]
             w == [v EXCEPT !.sched = TerminateCurrent(@)]
  <2>1. v = [sched |-> r.sched, domains |-> [r.domains EXCEPT ![i] = NoDomain]]
    BY <1>1 DEF IsRuntime
  <2>2. u = w
    BY DEF TerminateDomain
  <2> HIDE DEF v, i
  <2>3. w = [sched |-> s, domains |-> [r.domains EXCEPT ![i] = NoDomain]]
    BY <2>1
  <2> QED BY <2>2, <2>3 DEF i
<1> HIDE DEF u, s, i
<1>4. IsRuntime(u) /\ u.sched = s /\ u.domains = [r.domains EXCEPT ![i] = NoDomain]
  BY <1>1, <1>3 DEF IsRuntime
<1>5. RuntimeInv(u, next) /\ Left(r, u, i)
  BY <1>1, <1>2, <1>4, DomainLeaves
<1> QED BY <1>5 DEF u, i

\* attach_domain: the domain arrives with its inbox and its state.
LEMMA AttachDomainInv ==
    ASSUME NEW r, NEW next, RuntimeInv(r, next), CanCreateDomain(r), NEW ticket,
           ticket.scheduling \in DetachedTask, DomainInv(ticket.domain, next),
           ticket.scheduling.state = "Blocked" => ticket.domain.count = 0
    PROVE  LET u == AttachDomain(r, ticket) IN
           /\ RuntimeInv(u, next)
           /\ \E i \in Slots : \E d : /\ Arrived(r, u, i, d) /\ d.page = ticket.domain.page
                                     /\ d.caps = ticket.domain.caps
<1> DEFINE u == AttachDomain(r, ticket)
           i == Min(FreeDomains(r))
           id == CreatedId(r.sched)
           s == Attach(r.sched, ticket.scheduling)
           d == [ticket.domain EXCEPT !.task = id]
<1>1. IsRuntime(r) /\ SchedInv(r.sched) /\ FreeDomains(r) # {} /\ CanCreate(r.sched)
  BY DEF RuntimeInv, CanCreateDomain
<1>2. id \in TaskId /\ ~ r.sched.tasks[id.slot].occupied
  <2>1. 0 \in Priority
    BY DEF Priority
  <2> QED BY <1>1, <2>1, CreateKeeps
<1>3. /\ SchedInv(s) /\ Valid(s, id) /\ OnlySlot(r.sched, s, id.slot)
      /\ s.tasks[id.slot].state = ticket.scheduling.state
  BY <1>1, AttachKeeps
<1>4. i \in Slots /\ r.domains[i] = NoDomain
  BY <1>1, FreeIsIn
<1>5. /\ DomainInv(d, next) /\ d.task = id /\ d.page = ticket.domain.page
      /\ d.count = ticket.domain.count /\ d.caps = ticket.domain.caps
  BY <1>2, RenamedDomain
<1>6. u = [sched |-> s, domains |-> [r.domains EXCEPT ![i] = d]] /\ id.slot \in Slots
  BY <1>3 DEF AttachDomain, Valid
<1> HIDE DEF i, id, d, s, u
<1>7. IsRuntime(u) /\ u.sched = s /\ u.domains = [r.domains EXCEPT ![i] = d]
  BY <1>1, <1>6 DEF IsRuntime
<1>8. RuntimeInv(u, next) /\ Arrived(r, u, i, d)
  BY <1>1, <1>2, <1>3, <1>4, <1>5, <1>6, <1>7, DomainArrives
<1> QED BY <1>4, <1>5, <1>8 DEF u

\* A message was sent elsewhere.
LEMMA LaterRuntime ==
    ASSUME NEW r, NEW next \in Nat \ {0}, RuntimeInv(r, next)
    PROVE  RuntimeInv(r, next + 1)
BY LaterInv DEF RuntimeInv

\* deliver_ipc, after the send: the message is last in the inbox of a task that
\* is not asleep.
LEMMA EnqueueInv ==
    ASSUME NEW r, NEW next \in Nat \ {0}, RuntimeInv(r, next), NEW id, HasDomain(r, id),
           DomainOf(r, id).count # INBOX, NEW message, message.number = next
    PROVE  /\ RuntimeInv(Enqueue(r, id, message), next + 1)
           /\ SamePages(r, Enqueue(r, id, message))
           /\ SameCaps(r, Enqueue(r, id, message))
<1> DEFINE i == DomainSlot(r, id)
           s == Wake(r.sched, id)
           d == Filled(r.domains[i], message)
           v == [r EXCEPT !.sched = s]
           u == Enqueue(r, id, message)
<1>1. /\ i \in DomainSlots(r) /\ i \in Slots /\ r.domains[i].task = id
      /\ DomainInv(r.domains[i], next) /\ id \in TaskId /\ Valid(r.sched, id)
      /\ IsRuntime(r) /\ SchedInv(r.sched) /\ r.domains[i].count # INBOX
  BY DomainFound DEF RuntimeInv, DomainOf
<1>2. /\ SchedInv(s) /\ OnlySlot(r.sched, s, id.slot) /\ Valid(s, id)
      /\ s.tasks[id.slot].state = "Runnable"
  BY <1>1, WakeKeeps
<1>3. DomainInv(d, next + 1) /\ d.task = r.domains[i].task /\ d.page = r.domains[i].page
  BY <1>1, FilledInv
<1>4. u = [sched |-> s, domains |-> [r.domains EXCEPT ![i] = d]]
  BY DEF Enqueue
<1>5. v = [sched |-> s, domains |-> r.domains]
  BY <1>1 DEF IsRuntime
<1> HIDE DEF s, d, v, i, u
<1>6. IsRuntime(v) /\ v.sched = s /\ v.domains = r.domains
  BY <1>1, <1>5 DEF IsRuntime
<1>7. RuntimeInv(v, next) /\ SamePages(r, v)
  <2>1. \A k \in Slots : /\ s.tasks[k].generation = r.sched.tasks[k].generation
                         /\ s.tasks[k].occupied = r.sched.tasks[k].occupied
    <3>1. \A k \in Slots : /\ s.tasks[k].occupied \in BOOLEAN
                           /\ r.sched.tasks[k].occupied \in BOOLEAN
      BY <1>1, <1>2 DEF SchedInv, TaskInv, Task
    <3> QED BY <1>1, <1>2, <3>1 DEF OnlySlot, SameTask, Valid
  <2>2. NoneAsleepWithMail(v)
    <3> SUFFICES ASSUME NEW j \in DomainSlots(r), s.tasks[r.domains[j].task.slot].state = "Blocked"
                 PROVE  r.domains[j].count = 0
      BY <1>6 DEF NoneAsleepWithMail, TaskOf, DomainSlots
    <3>1. r.domains[j].task.slot \in Slots /\ r.domains[j].task.slot # id.slot
      BY <1>2 DEF RuntimeInv, DomainsAreTasks, Valid
    <3>2. r.sched.tasks[r.domains[j].task.slot].state = "Blocked"
      BY <1>2, <3>1 DEF OnlySlot, SameTask
    <3> QED BY <3>2 DEF RuntimeInv, NoneAsleepWithMail, TaskOf
  <2> QED BY <1>2, <1>6, <2>1, <2>2, SchedMoves
<1>8. RuntimeInv(v, next + 1)
  BY <1>7, LaterRuntime
<1>9. /\ IsRuntime(u) /\ u.sched = v.sched /\ u.domains = [v.domains EXCEPT ![i] = d]
      /\ i \in DomainSlots(v) /\ v.domains[i] = r.domains[i]
  BY <1>1, <1>4, <1>6 DEF IsRuntime, DomainSlots
<1>10. TaskOf(v, i).state # "Blocked"
  BY <1>1, <1>2, <1>6 DEF TaskOf
<1>11. RuntimeInv(u, next + 1) /\ SamePages(v, u)
  BY <1>3, <1>8, <1>9, <1>10, DomainMoves
<1>12. SamePages(r, u)
  BY <1>7, <1>11 DEF SamePages
<1>13. d.caps = r.domains[i].caps
  BY <1>1, FilledIs DEF d, DomainInv
<1>14. SameCaps(r, u)
  BY <1>1, <1>6, <1>9, <1>13 DEF SameCaps, DomainSlots, IsRuntime
<1> QED BY <1>11, <1>12, <1>14 DEF u

\* receive_ipc
LEMMA ReceiveIpcInv ==
    ASSUME NEW r, NEW next \in Nat \ {0}, RuntimeInv(r, next), NEW id, CanReceive(r, id)
    PROVE  /\ RuntimeInv(ReceiveIpc(r, id), next) /\ SamePages(r, ReceiveIpc(r, id))
           /\ SameCaps(r, ReceiveIpc(r, id))
<1> DEFINE i == DomainSlot(r, id)
           d == Emptied(r.domains[i])
<1>1. /\ i \in DomainSlots(r) /\ i \in Slots /\ r.domains[i].task = id
      /\ DomainInv(r.domains[i], next) /\ r.domains[i].count # 0
  BY DomainFound DEF CanReceive, DomainOf
<1>2. DomainInv(d, next) /\ d.task = r.domains[i].task /\ d.page = r.domains[i].page
  BY <1>1, EmptiedInv
<1>3. TaskOf(r, i).state # "Blocked"
  BY <1>1 DEF RuntimeInv, NoneAsleepWithMail
<1>4. ReceiveIpc(r, id) = [r EXCEPT !.domains[i] = d]
  BY DEF ReceiveIpc
<1>5. d.caps = r.domains[i].caps
  BY <1>1, EmptiedIs DEF DomainInv
<1> HIDE DEF i, d
<1>6. SameCaps(r, ReceiveIpc(r, id))
  BY <1>1, <1>2, <1>3, <1>4, <1>5, ReplaceDomain DEF SameCaps, DomainSlots
<1> QED BY <1>1, <1>2, <1>3, <1>4, <1>6, ReplaceDomain

\* receive_or_block: who finds nothing sleeps.
LEMMA ReceiveOrBlockInv ==
    ASSUME NEW r, NEW next \in Nat \ {0}, RuntimeInv(r, next), r.sched.current # NoTask
    PROVE  /\ RuntimeInv(ReceiveOrBlock(r), next) /\ SamePages(r, ReceiveOrBlock(r))
           /\ SameCaps(r, ReceiveOrBlock(r))
<1> DEFINE id == r.sched.current
           s == BlockCurrent(r.sched)
           u == [r EXCEPT !.sched = s]
<1>1. CASE CanReceive(r, id)
  BY <1>1, ReceiveIpcInv DEF ReceiveOrBlock
<1>2. CASE ~ CanReceive(r, id)
  <2>1. /\ IsRuntime(r) /\ SchedInv(r.sched) /\ Valid(r.sched, id) /\ id \in TaskId
    BY DEF RuntimeInv, SchedInv, CurrentLive, SchedulerType
  <2>2. SchedInv(s) /\ OnlySlot(r.sched, s, id.slot) /\ Valid(s, id)
    BY <2>1, BlockKeeps
  <2>3. u = [sched |-> s, domains |-> r.domains] /\ ReceiveOrBlock(r) = u
    BY <1>2, <2>1 DEF IsRuntime, ReceiveOrBlock
  <2> HIDE DEF u, s
  <2>4. IsRuntime(u) /\ u.sched = s /\ u.domains = r.domains
    BY <2>1, <2>3 DEF IsRuntime
  <2>5. \A k \in Slots : /\ s.tasks[k].generation = r.sched.tasks[k].generation
                         /\ s.tasks[k].occupied = r.sched.tasks[k].occupied
    <3>1. \A k \in Slots : /\ s.tasks[k].occupied \in BOOLEAN
                           /\ r.sched.tasks[k].occupied \in BOOLEAN
      BY <2>1, <2>2 DEF SchedInv, TaskInv, Task
    <3> QED BY <2>1, <2>2, <3>1 DEF OnlySlot, SameTask, Valid
  <2>6. NoneAsleepWithMail(u)
    <3> SUFFICES ASSUME NEW j \in DomainSlots(r), s.tasks[r.domains[j].task.slot].state = "Blocked"
                 PROVE  r.domains[j].count = 0
      BY <2>4 DEF NoneAsleepWithMail, TaskOf, DomainSlots
    <3>1. Valid(r.sched, r.domains[j].task) /\ r.domains[j].task \in TaskId
      BY DEF RuntimeInv, DomainsAreTasks, DomainInv, IsDomain
    <3>2. CASE r.domains[j].task.slot = id.slot
      <4>1. r.domains[j].task = id
        BY <2>1, <3>1, <3>2, SameSlot
      <4>2. HasDomain(r, id)
        BY <4>1 DEF HasDomain
      <4>3. DomainSlot(r, id) = j
        BY <4>1, <4>2, SlotIsIn DEF RuntimeInv, DomainsAreTasks
      <4> QED BY <1>2, <4>2, <4>3 DEF CanReceive, DomainOf
    <3>3. CASE r.domains[j].task.slot # id.slot
      <4>1. r.sched.tasks[r.domains[j].task.slot].state = "Blocked"
        BY <2>2, <3>1, <3>3 DEF OnlySlot, SameTask, Valid
      <4> QED BY <4>1 DEF RuntimeInv, NoneAsleepWithMail, TaskOf
    <3> QED BY <3>2, <3>3
  <2>7. SameCaps(r, u)
    BY <2>4 DEF SameCaps
  <2> QED BY <2>2, <2>3, <2>4, <2>5, <2>6, <2>7, SchedMoves
<1> QED BY <1>1, <1>2

\* The number of the next message, after a send that failed or succeeded.
LEMMA NextNumber ==
    ASSUME NEW endpoint, endpoint = [object |-> endpoint.object, next |-> endpoint.next]
    PROVE  Sent(endpoint) = [object |-> endpoint.object, next |-> endpoint.next + 1]
BY DEF Sent

\* send_ipc: capabilities move, whatever they are, and a number is used up or
\* not.
LEMMA SendIpcInv ==
    ASSUME NEW r, NEW endpoint, endpoint = [object |-> endpoint.object, next |-> endpoint.next],
           endpoint.next \in Nat \ {0}, RuntimeInv(r, endpoint.next),
           NEW sender, NEW receiver, CanSend(r, sender, receiver), NEW cap, NEW requested
    PROVE  LET sending == SendIpc(r, sender, receiver, endpoint, cap, requested) IN
           /\ RuntimeInv(sending.runtime, endpoint.next) /\ SamePages(r, sending.runtime)
           /\ HasDomain(sending.runtime, receiver)
           /\ DomainOf(sending.runtime, receiver).count = DomainOf(r, receiver).count
           /\ sending.endpoint = endpoint \/ sending.endpoint = Sent(endpoint)
           /\ sending.ok => sending.endpoint = Sent(endpoint)
<1> DEFINE source == DomainOf(r, sender).caps
           moved == Transfer(source, DomainOf(r, receiver).caps, requested)
           result == IF moved.ok /\ ~MaySend(source, cap, endpoint) THEN Undone(moved) ELSE moved
           sending == SendIpc(r, sender, receiver, endpoint, cap, requested)
<1>1. sending = [ok |-> result.ok, runtime |-> WithCaps(r, receiver, result.space),
                 endpoint |-> IF result.ok THEN Sent(endpoint) ELSE endpoint,
                 caps |-> result.caps]
  BY DEF SendIpc
<1> HIDE DEF result, sending
<1>2. /\ sending.runtime = WithCaps(r, receiver, result.space)
      /\ sending.endpoint = IF result.ok THEN Sent(endpoint) ELSE endpoint
      /\ sending.ok = result.ok
  BY <1>1
<1>3. HasDomain(r, receiver)
  BY DEF CanSend
<1> QED BY <1>2, <1>3, WithCapsInv DEF sending

\* deliver_ipc
LEMMA DeliverIpcInv ==
    ASSUME NEW r, NEW endpoint, endpoint = [object |-> endpoint.object, next |-> endpoint.next],
           endpoint.next \in Nat \ {0}, RuntimeInv(r, endpoint.next),
           NEW sender, NEW receiver, CanDeliver(r, sender, receiver), NEW cap, NEW requested
    PROVE  LET result == DeliverIpc(r, sender, receiver, endpoint, cap, requested) IN
           /\ SamePages(r, result.runtime)
           /\ \/ result.endpoint = endpoint /\ RuntimeInv(result.runtime, endpoint.next)
              \/ result.endpoint = Sent(endpoint) /\ RuntimeInv(result.runtime, endpoint.next + 1)
<1> DEFINE sending == SendIpc(r, sender, receiver, endpoint, cap, requested)
           message == [number |-> endpoint.next, caps |-> sending.caps]
           result == DeliverIpc(r, sender, receiver, endpoint, cap, requested)
<1>1. /\ RuntimeInv(sending.runtime, endpoint.next) /\ SamePages(r, sending.runtime)
      /\ HasDomain(sending.runtime, receiver)
      /\ DomainOf(sending.runtime, receiver).count # INBOX
      /\ sending.endpoint = endpoint \/ sending.endpoint = Sent(endpoint)
      /\ sending.ok => sending.endpoint = Sent(endpoint)
  BY SendIpcInv DEF CanDeliver
<1>2. CASE sending.ok
  <2>1. result = [sending EXCEPT !.runtime = Enqueue(sending.runtime, receiver, message)]
    BY <1>2 DEF DeliverIpc
  <2>2. message.number = endpoint.next
    OBVIOUS
  <2>3. /\ DOMAIN sending = {"ok", "runtime", "endpoint", "caps"}
    BY DEF SendIpc
  <2> HIDE DEF message, sending, result
  <2>4. /\ result.runtime = Enqueue(sending.runtime, receiver, message)
        /\ result.endpoint = sending.endpoint
    BY <2>1, <2>3
  <2>5. /\ RuntimeInv(result.runtime, endpoint.next + 1)
        /\ SamePages(sending.runtime, result.runtime)
    BY <1>1, <2>2, <2>4, EnqueueInv
  <2>6. SamePages(r, result.runtime)
    BY <1>1, <2>5 DEF SamePages
  <2> QED BY <1>1, <1>2, <2>4, <2>5, <2>6 DEF result
<1>3. CASE ~ sending.ok
  <2>1. result = sending
    BY <1>3 DEF DeliverIpc
  <2> HIDE DEF sending, result
  <2>2. CASE sending.endpoint = endpoint
    BY <1>1, <2>1, <2>2 DEF result
  <2>3. CASE sending.endpoint = Sent(endpoint)
    <3>1. RuntimeInv(sending.runtime, endpoint.next + 1)
      BY <1>1, LaterRuntime
    <3> QED BY <1>1, <2>1, <2>3, <3>1 DEF result
  <2> QED BY <1>1, <2>2, <2>3
<1> QED BY <1>2, <1>3

-----------------------------------------------------------------------------
(***************************************************************************)
(* Capability spaces: what Message::transfer leaves of the destination     *)
(***************************************************************************)
\* insert finds one of the free slots.
LEMMA FreeSlotFound ==
    ASSUME NEW space, FreeEntries(space) # {}
    PROVE  Min(FreeEntries(space)) \in CapSlots /\ ~space[Min(FreeEntries(space))].occupied
<1> DEFINE S == FreeEntries(space)
<1>1. S \subseteq CapSlots /\ S \subseteq Nat /\ S # {}
  BY CapabilityAssumption DEF FreeEntries, CapSlots
<1>2. \E x \in S : \A y \in S : x <= y
  <2> HIDE DEF S
  <2> QED BY <1>1, HasLeast
<1>3. Min(S) \in S
  <2> HIDE DEF S
  <2> QED BY <1>2 DEF Min
<1> QED BY <1>1, <1>3 DEF FreeEntries

\* Everything that is true of 0 and passes from n to n + 1 is true up to a
\* bound: induction for a set of naturals.
LEMMA UpTo ==
    ASSUME NEW n \in Nat, NEW S, 0 \in S,
           \A m \in 1 .. n : m - 1 \in S => m \in S
    PROVE  0 .. n \subseteq S
<1> DEFINE bad == {m \in 0 .. n : m \notin S}
<1>1. ASSUME bad # {} PROVE FALSE
  <2>1. bad \subseteq Nat
    OBVIOUS
  <2>2. PICK m \in bad : \A k \in bad : m <= k
    <3> HIDE DEF bad
    <3> QED BY <1>1, <2>1, HasLeast
  <2>3. m \in 1 .. n /\ m - 1 \in 0 .. n
    BY <2>2
  <2>4. m - 1 \in S
    BY <2>2, <2>3
  <2> QED BY <2>2, <2>3, <2>4
<1> QED BY <1>1
-----------------------------------------------------------------------------
\* The recursion of Transfer
TransferStart(destination) == [ok |-> TRUE, space |-> destination, caps |-> <<>>]
StepOn(source, progress, request) ==
    IF progress.ok THEN DeriveNext(source, progress, request) ELSE progress
Runs(source, destination, requested, n, f) ==
    f = [m \in 0 .. n |-> IF m = 0 THEN TransferStart(destination)
                          ELSE StepOn(source, f[m - 1], requested[m])]

\* The loop of Message::transfer is defined for any number of requests.
LEMMA TransferLoop ==
    ASSUME NEW source, NEW destination, NEW requested, Len(requested) \in Nat
    PROVE  \E f : /\ f[0] = TransferStart(destination)
                  /\ \A m \in 1 .. Len(requested) : f[m] = StepOn(source, f[m - 1], requested[m])
                  /\ Transfer(source, destination, requested) = f[Len(requested)]
<1> DEFINE R(n, f) == Runs(source, destination, requested, n, f)
           S == {n \in Nat : \E f : R(n, f)}
           L == Len(requested)
<1>1. 0 \in S
  <2> DEFINE f == [m \in 0 .. 0 |-> TransferStart(destination)]
  <2>1. R(0, f)
    BY DEF Runs
  <2> QED BY <2>1
<1>2. ASSUME NEW n \in 1 .. L, n - 1 \in S PROVE n \in S
  <2>1. PICK f : R(n - 1, f)
    BY <1>2
  <2> DEFINE g == [m \in 0 .. n |-> IF m = n THEN StepOn(source, f[n - 1], requested[n]) ELSE f[m]]
  <2>2. \A m \in 0 .. n - 1 : f[m] = IF m = 0 THEN TransferStart(destination)
                                     ELSE StepOn(source, f[m - 1], requested[m])
    BY <2>1 DEF Runs
  <2>3. \A m \in 0 .. n : g[m] = IF m = 0 THEN TransferStart(destination)
                                 ELSE StepOn(source, g[m - 1], requested[m])
    BY <1>2, <2>2
  <2>4. R(n, g)
    BY <2>3 DEF Runs
  <2> QED BY <2>4
<1>3. L \in S
  <2> HIDE DEF S
  <2>1. 0 .. L \subseteq S
    BY <1>1, <1>2, UpTo
  <2> QED BY <2>1
<1> DEFINE p == CHOOSE f : R(L, f)
<1>4. R(L, p)
  BY <1>3
<1>5. Transfer(source, destination, requested) = p[L]
  BY DEF Transfer, Runs, TransferStart, StepOn
<1>6. /\ p[0] = TransferStart(destination)
      /\ \A m \in 1 .. L : p[m] = StepOn(source, p[m - 1], requested[m])
  <2> HIDE DEF p
  <2> QED BY <1>4 DEF Runs
<1> HIDE DEF p
<1> QED BY <1>5, <1>6
-----------------------------------------------------------------------------
\* What an entry was derived from: a live handle of the sender that carries
\* DELEGATE, on the same object and with no less rights.
Derived(source, entry) ==
    \E j \in CapSlots : /\ source[j].occupied /\ "DELEGATE" \in source[j].rights
                        /\ entry.object = source[j].object
                        /\ entry.rights \subseteq source[j].rights

\* The slots a call has created handles in, and nothing else, have changed.
Names(caps, i) == \E k \in DOMAIN caps : caps[k].slot = i
Extended(source, destination, p) ==
    /\ p.ok = TRUE /\ p.space \in Space /\ p.caps \in Seq(Handle)
    /\ \A k \in DOMAIN p.caps : p.caps[k].generation = destination[p.caps[k].slot].generation
    /\ \A i \in CapSlots :
         IF Names(p.caps, i)
         THEN /\ ~destination[i].occupied /\ p.space[i].occupied
              /\ p.space[i].generation = destination[i].generation
              /\ Derived(source, p.space[i])
         ELSE p.space[i] = destination[i]

\* A slot that was free is free again, in the next generation.
RolledBack(destination, p) ==
    /\ p.ok = FALSE /\ p.space \in Space
    /\ \A i \in CapSlots :
         \/ p.space[i] = destination[i]
         \/ /\ ~destination[i].occupied /\ ~p.space[i].occupied
            /\ p.space[i].generation = NextCapGeneration(destination[i].generation)

\* A handle that is revoked leaves an entry that is free, in the next
\* generation.
LEMMA RevokedIsEntry ==
    ASSUME NEW e \in Entry
    PROVE  /\ RevokedEntry(e) \in Entry /\ ~RevokedEntry(e).occupied
           /\ RevokedEntry(e).generation = NextCapGeneration(e.generation)
<1>1. NextCapGeneration(e.generation) \in 1 .. MaxCapGeneration
  BY CapabilityAssumption DEF NextCapGeneration, Entry
<1> QED BY <1>1 DEF RevokedEntry, Entry

InsertsAt(space, object, rights, i) ==
    /\ ~space[i].occupied
    /\ Insert(space, object, rights) \in Space
    /\ Insert(space, object, rights)[i] =
         [generation |-> space[i].generation, object |-> object, rights |-> rights,
          occupied |-> TRUE]
    /\ \A j \in CapSlots \ {i} : Insert(space, object, rights)[j] = space[j]
    /\ InsertedHandle(space) = [slot |-> i, generation |-> space[i].generation]
    /\ InsertedHandle(space) \in Handle

\* A handle that is inserted takes a slot that was free, in its generation.
LEMMA InsertedIsSpace ==
    ASSUME NEW space \in Space, NEW object \in Objects \cup {NoObject},
           NEW rights \in SUBSET RightNames, FreeEntries(space) # {}
    PROVE  \E i \in CapSlots : InsertsAt(space, object, rights, i)
<1> DEFINE i == Min(FreeEntries(space))
<1>1. i \in CapSlots /\ ~space[i].occupied
  BY FreeSlotFound
<1>2. Insert(space, object, rights) = [space EXCEPT ![i] =
        [@ EXCEPT !.object = object, !.rights = rights, !.occupied = TRUE]]
  BY DEF Insert
<1>3. InsertedHandle(space) = [slot |-> i, generation |-> space[i].generation]
  BY DEF InsertedHandle
<1> HIDE DEF i
<1>4. space[i] \in Entry
  BY <1>1 DEF Space
<1>5. InsertedHandle(space) \in Handle
  BY <1>1, <1>3, <1>4 DEF Handle, Entry
<1>6. [space[i] EXCEPT !.object = object, !.rights = rights, !.occupied = TRUE] \in Entry
  BY <1>4 DEF Entry
<1>7. Insert(space, object, rights) \in Space
  BY <1>1, <1>2, <1>6 DEF Space
<1>8. \A j \in CapSlots \ {i} : Insert(space, object, rights)[j] = space[j]
  BY <1>2 DEF Space
<1>9. Insert(space, object, rights)[i] =
        [generation |-> space[i].generation, object |-> object, rights |-> rights,
         occupied |-> TRUE]
  BY <1>1, <1>2, <1>4 DEF Space, Entry
<1> QED BY <1>1, <1>3, <1>5, <1>7, <1>8, <1>9 DEF InsertsAt

\* The rollback: every slot the call created a handle in is free again, so
\* the caps are those that hold.
LEMMA UndoneIsRolledBack ==
    ASSUME NEW source, NEW destination \in Space, NEW p, Extended(source, destination, p)
    PROVE  RolledBack(destination, Undone(p))
<1> DEFINE u == Undone(p)
<1>1. /\ p.space \in Space
      /\ \A k \in DOMAIN p.caps : p.caps[k].slot \in CapSlots
  <2>1. p.space \in Space /\ p.caps \in Seq(Handle)
    BY DEF Extended
  <2>2. \A k \in DOMAIN p.caps : p.caps[k] \in Handle
    BY <2>1
  <2> QED BY <2>1, <2>2 DEF Handle
<1>2. u.ok = FALSE /\ u.space = RevokeAll(p.space, p.caps)
  BY DEF Undone
<1>3. ASSUME NEW i \in CapSlots, Names(p.caps, i)
      PROVE  u.space[i] = RevokedEntry(p.space[i])
  <2>1. PICK k \in DOMAIN p.caps : p.caps[k].slot = i
    BY <1>3 DEF Names
  <2>2. Holds(p.space, p.caps[k])
    BY <1>3, <2>1 DEF Extended, Holds
  <2> QED BY <1>2, <2>1, <2>2 DEF RevokeAll
<1>4. ASSUME NEW i \in CapSlots, ~Names(p.caps, i)
      PROVE  u.space[i] = p.space[i]
  BY <1>2, <1>4 DEF RevokeAll, Names
<1>5. \A i \in CapSlots : u.space[i] \in Entry
  BY <1>1, <1>3, <1>4, RevokedIsEntry DEF Space
<1>6. u.space \in Space
  BY <1>2, <1>5 DEF Space, RevokeAll
<1>7. ASSUME NEW i \in CapSlots
      PROVE  \/ u.space[i] = destination[i]
             \/ /\ ~destination[i].occupied /\ ~u.space[i].occupied
                /\ u.space[i].generation = NextCapGeneration(destination[i].generation)
  <2>1. CASE Names(p.caps, i)
    <3>1. p.space[i] \in Entry
      BY <1>1 DEF Space
    <3>2. ~destination[i].occupied /\ p.space[i].generation = destination[i].generation
      BY <2>1 DEF Extended
    <3> QED BY <1>3, <2>1, <3>1, <3>2, RevokedIsEntry
  <2>2. CASE ~Names(p.caps, i)
    BY <1>4, <2>2 DEF Extended
  <2> QED BY <2>1, <2>2
<1> QED BY <1>2, <1>6, <1>7 DEF RolledBack

\* One request: the loop goes on with one handle more, or rolls back.
LEMMA DeriveNextSteps ==
    ASSUME NEW source \in Space, NEW destination \in Space, NEW p,
           Extended(source, destination, p),
           NEW request \in Handle \X SUBSET RightNames
    PROVE  LET q == DeriveNext(source, p, request) IN
           Extended(source, destination, q) \/ RolledBack(destination, q)
<1> DEFINE q == DeriveNext(source, p, request)
           j == request[1].slot
           rights == source[j].rights \cap request[2]
<1>1. CASE CanDerive(source, request[1], request[2]) /\ FreeEntries(p.space) # {}
  <2>1. /\ q = [ok |-> TRUE, space |-> Insert(p.space, source[j].object, rights),
                caps |-> Append(p.caps, InsertedHandle(p.space))]
    BY <1>1 DEF DeriveNext
  <2>2. j \in CapSlots /\ source[j].occupied /\ "DELEGATE" \in source[j].rights
    BY <1>1 DEF CanDerive, Authorize, Holds
  <2>3. source[j].object \in Objects \cup {NoObject} /\ rights \in SUBSET RightNames
    BY <2>2 DEF Space, Entry
  <2>4. p.space \in Space /\ p.caps \in Seq(Handle)
    BY DEF Extended
  <2> HIDE DEF j, rights
  <2>5a. PICK i \in CapSlots : InsertsAt(p.space, source[j].object, rights, i)
    BY <1>1, <2>3, <2>4, InsertedIsSpace
  <2>5. /\ ~p.space[i].occupied /\ q.space \in Space
        /\ q.space[i].occupied /\ q.space[i].object = source[j].object
        /\ q.space[i].rights = rights /\ q.space[i].generation = p.space[i].generation
        /\ \A k \in CapSlots \ {i} : q.space[k] = p.space[k]
        /\ InsertedHandle(p.space) = [slot |-> i, generation |-> p.space[i].generation]
        /\ InsertedHandle(p.space) \in Handle
    BY <2>1, <2>5a DEF InsertsAt
  <2>6. /\ q.ok = TRUE /\ q.caps \in Seq(Handle) /\ Len(p.caps) \in Nat
        /\ DOMAIN p.caps = 1 .. Len(p.caps) /\ DOMAIN q.caps = 1 .. Len(p.caps) + 1
        /\ \A k \in 1 .. Len(p.caps) : q.caps[k] = p.caps[k]
        /\ q.caps[Len(p.caps) + 1] = InsertedHandle(p.space)
    BY <2>1, <2>4, <2>5, AppendProperties, LenProperties
  <2> HIDE DEF q
  <2>7. \A k \in CapSlots : Names(q.caps, k) <=> Names(p.caps, k) \/ k = i
    <3>1. \A k \in CapSlots : Names(p.caps, k) => Names(q.caps, k)
      BY <2>6 DEF Names
    <3>2. Names(q.caps, i)
      BY <2>5, <2>6 DEF Names
    <3>3. \A k \in CapSlots : Names(q.caps, k) => Names(p.caps, k) \/ k = i
      BY <2>5, <2>6 DEF Names
    <3> QED BY <3>1, <3>2, <3>3
  <2>8. ~Names(p.caps, i) /\ p.space[i] = destination[i]
    BY <2>5 DEF Extended
  <2>9. Derived(source, q.space[i])
    BY <2>2, <2>5 DEF Derived, rights
  <2>10. \A k \in DOMAIN q.caps : q.caps[k].generation = destination[q.caps[k].slot].generation
    BY <2>5, <2>6, <2>8 DEF Extended
  <2>11. ASSUME NEW k \in CapSlots
         PROVE  IF Names(q.caps, k)
                THEN /\ ~destination[k].occupied /\ q.space[k].occupied
                     /\ q.space[k].generation = destination[k].generation
                     /\ Derived(source, q.space[k])
                ELSE q.space[k] = destination[k]
    <3>1. CASE k = i
      BY <2>5, <2>7, <2>8, <2>9, <3>1
    <3>2. CASE k # i
      BY <2>5, <2>7, <3>2 DEF Extended
    <3> QED BY <3>1, <3>2
  <2>12. Extended(source, destination, q)
    BY <2>5, <2>6, <2>10, <2>11 DEF Extended
  <2> QED BY <2>12 DEF q
<1>2. CASE ~(CanDerive(source, request[1], request[2]) /\ FreeEntries(p.space) # {})
  <2>1. q = Undone(p)
    BY <1>2 DEF DeriveNext
  <2> QED BY <2>1, UndoneIsRolledBack
<1> QED BY <1>1, <1>2

\* Message::transfer: the destination has the handles asked for, or what
\* it had.
LEMMA TransferResult ==
    ASSUME NEW source \in Space, NEW destination \in Space, NEW requested,
           Len(requested) \in Nat,
           \A m \in 1 .. Len(requested) : requested[m] \in Handle \X SUBSET RightNames
    PROVE  LET q == Transfer(source, destination, requested) IN
           Extended(source, destination, q) \/ RolledBack(destination, q)
<1>1. PICK f : /\ f[0] = TransferStart(destination)
               /\ \A m \in 1 .. Len(requested) : f[m] = StepOn(source, f[m - 1], requested[m])
               /\ Transfer(source, destination, requested) = f[Len(requested)]
  BY ONLY TransferLoop, Len(requested) \in Nat
<1> DEFINE L == Len(requested)
           Good(q) == Extended(source, destination, q) \/ RolledBack(destination, q)
           S == {m \in 0 .. L : Good(f[m])}
<1>2. 0 \in S
  <2>1. Extended(source, destination, TransferStart(destination))
    <3>1. <<>> \in Seq(Handle) /\ DOMAIN <<>> = {}
      BY EmptySeq
    <3> QED BY <3>1 DEF Extended, TransferStart, Names
  <2> QED BY <1>1, <2>1
<1>3. ASSUME NEW m \in 1 .. L, m - 1 \in S PROVE m \in S
  <2>1. requested[m] \in Handle \X SUBSET RightNames /\ Good(f[m - 1])
    BY <1>3
  <2>2. CASE Extended(source, destination, f[m - 1])
    <3>1. f[m] = DeriveNext(source, f[m - 1], requested[m])
      BY <1>1, <2>2 DEF StepOn, Extended
    <3>2. Good(f[m])
      BY <2>1, <2>2, <3>1, DeriveNextSteps
    <3> QED BY <3>2
  <2>3. CASE RolledBack(destination, f[m - 1])
    <3>1. f[m] = f[m - 1]
      BY <1>1, <2>3 DEF StepOn, RolledBack
    <3> QED BY <2>3, <3>1
  <2> QED BY <2>1, <2>2, <2>3
<1>4. L \in S
  <2> HIDE DEF S
  <2>1. 0 .. L \subseteq S
    BY <1>2, <1>3, UpTo
  <2> QED BY <2>1
<1> QED BY <1>1, <1>4

\* A transfer that was undone leaves nobody with more than they had.
LEMMA UndoneGrantsNothing ==
    ASSUME NEW destination \in Space, NEW q, RolledBack(destination, q)
    PROVE  Authority(q.space) \subseteq Authority(destination)
<1> SUFFICES ASSUME NEW i \in CapSlots, q.space[i].occupied
             PROVE  q.space[i] = destination[i]
  BY DEF Authority
<1> QED BY DEF RolledBack

\* A space has only handles that it had or that were derived from source.
GivenBy(source, before, after) ==
    \A i \in CapSlots : after[i].occupied => after[i] = before[i] \/ Derived(source, after[i])

\* What such a space has more is covered by what the source may pass on.
LEMMA GivenIsCovered ==
    ASSUME NEW source, NEW before, NEW after, GivenBy(source, before, after),
           NEW handle \in Authority(after), handle \notin Authority(before)
    PROVE  \E own \in Authority(source) : /\ own.object = handle.object
                                          /\ handle.rights \cup {"DELEGATE"} \subseteq own.rights
<1>1. PICK i \in CapSlots : /\ after[i].occupied
                            /\ handle = [slot |-> i, generation |-> after[i].generation,
                                         object |-> after[i].object, rights |-> after[i].rights]
  BY DEF Authority
<1>2. after[i] # before[i]
  BY <1>1 DEF Authority
<1>3. PICK j \in CapSlots : /\ source[j].occupied /\ "DELEGATE" \in source[j].rights
                            /\ after[i].object = source[j].object
                            /\ after[i].rights \subseteq source[j].rights
  BY <1>1, <1>2 DEF GivenBy, Derived
<1> DEFINE own == [slot |-> j, generation |-> source[j].generation,
                   object |-> source[j].object, rights |-> source[j].rights]
<1>4. own \in Authority(source)
  BY <1>3 DEF Authority
<1>5. own.object = handle.object /\ handle.rights \cup {"DELEGATE"} \subseteq own.rights
  BY <1>1, <1>3
<1> QED BY <1>4, <1>5

\* What a send does to the capability spaces: the receiver's has only what it
\* had or what the sender may pass on, and no more than it had if the send
\* fails; everybody else's stays.
CapsSent(r, u, sender, receiver, ok) ==
    LET k == DomainSlot(r, receiver) IN
    /\ \A j \in DomainSlots(r) : u.domains[j].caps \in Space
    /\ \A j \in DomainSlots(r) \ {k} : u.domains[j].caps = r.domains[j].caps
    /\ GivenBy(DomainOf(r, sender).caps, r.domains[k].caps, u.domains[k].caps)
    /\ ~ok => Authority(u.domains[k].caps) \subseteq Authority(r.domains[k].caps)

\* send_ipc
LEMMA SendIpcCaps ==
    ASSUME NEW r, NEW endpoint, RuntimeInv(r, endpoint.next),
           \A j \in DomainSlots(r) : r.domains[j].caps \in Space,
           NEW sender, NEW receiver, CanSend(r, sender, receiver), NEW cap, NEW requested,
           Len(requested) \in Nat,
           \A m \in 1 .. Len(requested) : requested[m] \in Handle \X SUBSET RightNames
    PROVE  LET sending == SendIpc(r, sender, receiver, endpoint, cap, requested) IN
           CapsSent(r, sending.runtime, sender, receiver, sending.ok)
<1> DEFINE source == DomainOf(r, sender).caps
           destination == DomainOf(r, receiver).caps
           moved == Transfer(source, destination, requested)
           result == IF moved.ok /\ ~MaySend(source, cap, endpoint) THEN Undone(moved) ELSE moved
           sending == SendIpc(r, sender, receiver, endpoint, cap, requested)
<1>1. /\ HasDomain(r, sender) /\ HasDomain(r, receiver)
      /\ source \in Space /\ destination \in Space
      /\ DomainSlot(r, receiver) \in DomainSlots(r)
  BY SlotIsIn DEF CanSend, DomainOf
<1>2. Extended(source, destination, moved) \/ RolledBack(destination, moved)
  <2> HIDE DEF source, destination
  <2> QED BY <1>1, TransferResult
<1>3. sending.runtime = WithCaps(r, receiver, result.space) /\ sending.ok = result.ok
  BY DEF SendIpc
<1>4. destination = r.domains[DomainSlot(r, receiver)].caps
  BY DEF DomainOf
<1> HIDE DEF source, destination, moved
<1>a. ASSUME NEW q, RolledBack(destination, q)
      PROVE  /\ q.space \in Space /\ GivenBy(source, destination, q.space)
             /\ Authority(q.space) \subseteq Authority(destination)
  BY <1>1, <1>a, UndoneGrantsNothing DEF RolledBack, GivenBy
<1>5. /\ result.space \in Space /\ GivenBy(source, destination, result.space)
      /\ ~result.ok => Authority(result.space) \subseteq Authority(destination)
  <2>1. CASE Extended(source, destination, moved)
    <3>1. moved.ok /\ moved.space \in Space /\ GivenBy(source, destination, moved.space)
      BY <2>1 DEF Extended, GivenBy
    <3>2. CASE MaySend(source, cap, endpoint)
      BY <3>1, <3>2
    <3>3. CASE ~MaySend(source, cap, endpoint)
      <4>1. RolledBack(destination, result)
        BY <1>1, <2>1, <3>1, <3>3, UndoneIsRolledBack
      <4> HIDE DEF result
      <4> QED BY <1>a, <4>1
    <3> QED BY <3>2, <3>3
  <2>2. CASE RolledBack(destination, moved)
    <3>1. result = moved
      BY <2>2 DEF RolledBack
    <3> QED BY <1>a, <2>2, <3>1
  <2> QED BY <1>2, <2>1, <2>2
<1> HIDE DEF result, sending
<1>6. \A j \in DomainSlots(r) : sending.runtime.domains[j].caps =
         IF j = DomainSlot(r, receiver) THEN result.space ELSE r.domains[j].caps
  BY <1>1, <1>3, WithCapsInv
<1> QED BY <1>1, <1>3, <1>4, <1>5, <1>6 DEF sending, source, CapsSent

\* deliver_ipc: the message in the inbox adds nothing to that.
LEMMA DeliverIpcCaps ==
    ASSUME NEW r, NEW endpoint, endpoint = [object |-> endpoint.object, next |-> endpoint.next],
           endpoint.next \in Nat \ {0}, RuntimeInv(r, endpoint.next),
           \A j \in DomainSlots(r) : r.domains[j].caps \in Space,
           NEW sender, NEW receiver, CanDeliver(r, sender, receiver), NEW cap, NEW requested,
           Len(requested) \in Nat,
           \A m \in 1 .. Len(requested) : requested[m] \in Handle \X SUBSET RightNames
    PROVE  LET result == DeliverIpc(r, sender, receiver, endpoint, cap, requested) IN
           /\ CapsSent(r, result.runtime, sender, receiver, result.ok)
           /\ result.ok => result.endpoint = Sent(endpoint)
<1> DEFINE sending == SendIpc(r, sender, receiver, endpoint, cap, requested)
           message == [number |-> endpoint.next, caps |-> sending.caps]
           result == DeliverIpc(r, sender, receiver, endpoint, cap, requested)
<1>1. /\ RuntimeInv(sending.runtime, endpoint.next) /\ SamePages(r, sending.runtime)
      /\ HasDomain(sending.runtime, receiver)
      /\ DomainOf(sending.runtime, receiver).count # INBOX
      /\ sending.ok => sending.endpoint = Sent(endpoint)
  BY SendIpcInv DEF CanDeliver
<1>2. CapsSent(r, sending.runtime, sender, receiver, sending.ok)
  BY SendIpcCaps DEF CanDeliver
<1>3. CASE sending.ok
  <2>1. result = [sending EXCEPT !.runtime = Enqueue(sending.runtime, receiver, message)]
    BY <1>3 DEF DeliverIpc
  <2>2. message.number = endpoint.next
    OBVIOUS
  <2>3. /\ DOMAIN sending = {"ok", "runtime", "endpoint", "caps"}
    BY DEF SendIpc
  <2> HIDE DEF message, sending, result
  <2>4. /\ result.runtime = Enqueue(sending.runtime, receiver, message)
        /\ result.endpoint = sending.endpoint /\ result.ok = sending.ok
    BY <2>1, <2>3
  <2>5. \A j \in DomainSlots(r) : result.runtime.domains[j].caps = sending.runtime.domains[j].caps
    BY <1>1, <2>2, <2>4, EnqueueInv DEF SameCaps, SamePages
  <2>6. DomainSlot(r, receiver) \in DomainSlots(r)
    BY SlotIsIn DEF CanDeliver, CanSend
  <2> QED BY <1>1, <1>2, <1>3, <2>4, <2>5, <2>6 DEF result, CapsSent
<1>4. CASE ~sending.ok
  <2>1. result = sending
    BY <1>4 DEF DeliverIpc
  <2> HIDE DEF sending, result
  <2> QED BY <1>2, <1>4, <2>1 DEF result
<1> QED BY <1>3, <1>4
=============================================================================
