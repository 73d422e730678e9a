----------------------- MODULE KernelSchedulerProofs -----------------------
(***************************************************************************)
(* Theorems about KernelScheduler, for any number of processors and tasks, *)
(* any priorities, generation limit and quantum; and about the             *)
(* OwnershipMailbox of the same file, for any number of processors and     *)
(* tickets: its slot is accessed exclusively, its steps implement          *)
(* OwnershipSlot, and ownership is linear.                                 *)
(***************************************************************************)
EXTENDS KernelScheduler, OwnershipMailbox, RuntimeProofs, FiniteSetTheorems

\* An identity of the past: its slot has moved on to a later generation, or
\* has used up all of them.
Past(s, id) == \/ s.tasks[id.slot].generation = 0
               \/ id.generation < s.tasks[id.slot].generation

\* The inductive invariant.  StaleNeverRevives alone says nothing of a slot
\* that is free: that its generation is already past what was retired does.
IInv == /\ TypeOK
        /\ \A c \in Cpus : SchedInv(sched[c])
        /\ \A c \in Cpus : \A id \in retired[c] : Past(sched[c], id)

\* What a step may do to the schedulers.
SchedStep == /\ sched' \in [Cpus -> SchedulerType]
             /\ \A c \in Cpus : SchedInv(sched[c]') /\ Evolves(sched[c], sched[c]')

-----------------------------------------------------------------------------
\* A scheduler that a step leaves alone.
LEMMA EvolvesSelf == \A s : Evolves(s, s)
BY DEF Evolves, SlotStep

\* The ids of a processor are those of its live tasks.
LEMMA IdsAreValid ==
    ASSUME NEW c \in Cpus, SchedInv(sched[c]), NEW id \in Ids(c)
    PROVE  id \in TaskId /\ Valid(sched[c], id)
<1>1. PICK i \in OccupiedSlots(sched[c]) : id = IdOf(sched[c], i)
  BY DEF Ids
<1>2. i \in Slots /\ sched[c].tasks[i].occupied /\ TaskInv(sched[c].tasks[i])
  BY <1>1 DEF OccupiedSlots, SchedInv
<1>3. sched[c].tasks[i].generation \in 1 .. MaxGeneration
  BY <1>2, SchedulerAssumption DEF TaskInv, Task
<1> QED BY <1>1, <1>2, <1>3 DEF IdOf, TaskId, Valid

\* A step that replaces one scheduler.
LEMMA StepOne ==
    ASSUME TypeOK, \A c \in Cpus : SchedInv(sched[c]),
           NEW c \in Cpus, NEW u, SchedInv(u), Evolves(sched[c], u),
           sched' = [sched EXCEPT ![c] = u]
    PROVE  SchedStep
<1>1. u \in SchedulerType /\ sched \in [Cpus -> SchedulerType]
  BY DEF SchedInv, TypeOK
<1>2. \A d \in Cpus : sched'[d] = IF d = c THEN u ELSE sched[d]
  BY <1>1
<1>3. \A d \in Cpus : SchedInv(sched'[d]) /\ Evolves(sched[d], sched'[d])
  BY <1>2, EvolvesSelf
<1> QED BY <1>1, <1>3 DEF SchedStep

\* A step that replaces two schedulers.
LEMMA StepTwo ==
    ASSUME TypeOK, \A c \in Cpus : SchedInv(sched[c]),
           NEW c \in Cpus, NEW u, SchedInv(u), Evolves(sched[c], u),
           NEW d \in Cpus, d # c, NEW v, SchedInv(v), Evolves(sched[d], v),
           sched' = [sched EXCEPT ![c] = u, ![d] = v]
    PROVE  SchedStep
<1>1. u \in SchedulerType /\ v \in SchedulerType /\ sched \in [Cpus -> SchedulerType]
  BY DEF SchedInv, TypeOK
<1>2. \A e \in Cpus : sched'[e] = IF e = d THEN v ELSE IF e = c THEN u ELSE sched[e]
  BY <1>1
<1>3. \A e \in Cpus : SchedInv(sched'[e]) /\ Evolves(sched[e], sched'[e])
  BY <1>2, EvolvesSelf
<1> QED BY <1>1, <1>3 DEF SchedStep

-----------------------------------------------------------------------------
\* Migration, directly and by way of the candidate.
LEMMA MigrateStep ==
    ASSUME TypeOK, \A c \in Cpus : SchedInv(sched[c]),
           NEW c \in Cpus, NEW d \in Cpus, c # d, NEW id \in TaskId, MigrateTo(c, d, id)
    PROVE  SchedStep /\ UNCHANGED <<transit, live>>
<1>1. /\ id # sched[c].current /\ Valid(sched[c], id) /\ CanCreate(sched[d])
      /\ sched' = [sched EXCEPT ![c] = Remove(sched[c], id),
                                ![d] = Attach(sched[d], TicketOf(sched[c], id))]
      /\ UNCHANGED <<transit, live>>
  BY DEF MigrateTo, TypeOK
<1>2. /\ SchedInv(Remove(sched[c], id)) /\ Evolves(sched[c], Remove(sched[c], id))
      /\ TicketOf(sched[c], id) \in DetachedTask
  BY <1>1, DetachKeeps DEF CanDetach, Detach
<1>3. /\ SchedInv(Attach(sched[d], TicketOf(sched[c], id)))
      /\ Evolves(sched[d], Attach(sched[d], TicketOf(sched[c], id)))
  BY <1>1, <1>2, AttachKeeps
<1> QED BY <1>1, <1>2, <1>3, StepTwo

\* Detaching, directly and by way of the candidate.
LEMMA DetachStep ==
    ASSUME TypeOK, \A c \in Cpus : SchedInv(sched[c]),
           NEW c \in Cpus, NEW id \in TaskId, DetachTask(c, id)
    PROVE  SchedStep /\ transit' \subseteq [cpu : Cpus, task : DetachedTask] /\ UNCHANGED live
<1>1. /\ SchedInv(Detach(sched[c], id)) /\ Evolves(sched[c], Detach(sched[c], id))
      /\ TicketOf(sched[c], id) \in DetachedTask
  BY DetachKeeps DEF DetachTask
<1>2. SchedStep
  BY <1>1, StepOne DEF DetachTask
<1> QED BY <1>1, <1>2 DEF DetachTask, TypeOK

\* Every step replaces schedulers by operations that keep their invariant.
LEMMA NextSteps ==
    ASSUME TypeOK, \A c \in Cpus : SchedInv(sched[c]), Next
    PROVE  /\ SchedStep
           /\ transit' \subseteq [cpu : Cpus, task : DetachedTask]
           /\ live' \in Int
<1> USE DEF TypeOK
<1>1. ASSUME NEW c \in Cpus, NEW priority \in Priorities, CreateTask(c, priority)
      PROVE  SchedStep /\ UNCHANGED transit /\ live' \in Int
  <2>1. priority \in Priority
    BY PrioritiesAssumption
  <2>2. SchedStep
    BY <1>1, <2>1, CreateKeeps, StepOne DEF CreateTask
  <2>3. live' \in Int
    BY <1>1 DEF CreateTask
  <2> QED BY <1>1, <2>2, <2>3 DEF CreateTask
<1>2. ASSUME NEW c \in Cpus, NEW ticket \in transit, AttachTask(c, ticket)
      PROVE  SchedStep /\ transit' \subseteq transit /\ UNCHANGED live
  <2>1. ticket.task \in DetachedTask
    OBVIOUS
  <2> QED BY <1>2, <2>1, AttachKeeps, StepOne DEF AttachTask
<1>3. ASSUME NEW c \in Cpus, NEW d \in Cpus, c # d, NEW id \in Ids(c), MigrateTo(c, d, id)
      PROVE  SchedStep /\ UNCHANGED <<transit, live>>
  BY <1>3, IdsAreValid, MigrateStep
<1>4. ASSUME NEW c \in Cpus, NEW d \in Cpus, c # d, RebalanceTo(c, d)
      PROVE  SchedStep /\ UNCHANGED <<transit, live>>
  BY <1>4, CandidateIsValid, MigrateStep DEF RebalanceTo
<1>5. ASSUME NEW c \in Cpus, NEW id \in Ids(c), WakeTask(c, id)
      PROVE  SchedStep /\ UNCHANGED <<transit, live>>
  BY <1>5, WakeKeeps, StepOne DEF WakeTask
<1>6. ASSUME NEW c \in Cpus, NEW id \in Ids(c), DetachTask(c, id)
      PROVE  SchedStep /\ transit' \subseteq [cpu : Cpus, task : DetachedTask] /\ UNCHANGED live
  BY <1>6, IdsAreValid, DetachStep
<1>7. ASSUME NEW c \in Cpus, NEW load \in Loads, DetachForRebalance(c, load)
      PROVE  SchedStep /\ transit' \subseteq [cpu : Cpus, task : DetachedTask] /\ UNCHANGED live
  BY <1>7, CandidateIsValid, DetachStep DEF DetachForRebalance
<1>8. ASSUME NEW c \in Cpus, Run(c)
      PROVE  SchedStep /\ UNCHANGED transit /\ live' \in Int
  <2>1. CASE StartCpu(c)
    BY <2>1, StartKeeps, StepOne DEF StartCpu
  <2>2. CASE Tick(c)
    BY <2>2, TickKeeps, StepOne DEF Tick
  <2>3. CASE Yield(c)
    BY <2>3, YieldKeeps, StepOne DEF Yield
  <2>4. CASE Block(c)
    BY <2>4, BlockKeeps, StepOne DEF Block
  <2>5. CASE Terminate(c)
    <3>1. SchedStep
      BY <2>5, TerminateKeeps, StepOne DEF Terminate
    <3>2. live' \in Int
      BY <2>5 DEF Terminate
    <3> QED BY <2>5, <3>1, <3>2 DEF Terminate
  <2> QED BY <1>8, <2>1, <2>2, <2>3, <2>4, <2>5 DEF Run
<1> QED
  BY <1>1, <1>2, <1>3, <1>4, <1>5, <1>6, <1>7, <1>8 DEF Next, Admit, Awaken, Leave

-----------------------------------------------------------------------------
\* What a slot's step means for the identities of its past.
LEMMA PastStays ==
    ASSUME NEW s, SchedInv(s), NEW u, SchedInv(u), Evolves(s, u),
           NEW id \in TaskId, Past(s, id)
    PROVE  Past(u, id)
<1>1. /\ id.slot \in Slots /\ id.generation \in Nat
      /\ TaskInv(s.tasks[id.slot]) /\ s.tasks[id.slot].generation \in Nat
  BY DEF TaskId, SchedInv, TaskInv, Task
<1>2. SlotStep(s.tasks[id.slot], u.tasks[id.slot])
  BY <1>1 DEF Evolves
<1> QED BY <1>1, <1>2 DEF SlotStep, Past, TaskInv, NextGeneration

\* An identity that a step removes is one of the past after it.
LEMMA RemovedIsPast ==
    ASSUME NEW s, SchedInv(s), NEW u, SchedInv(u), Evolves(s, u),
           NEW i \in Slots, s.tasks[i].occupied,
           ~ (u.tasks[i].occupied /\ u.tasks[i].generation = s.tasks[i].generation)
    PROVE  Past(u, IdOf(s, i))
<1>1. s.tasks[i].generation \in Nat
  BY DEF SchedInv, TaskInv, Task
<1>2. SlotStep(s.tasks[i], u.tasks[i])
  BY DEF Evolves
<1>3. u.tasks[i].generation = NextGeneration(s.tasks[i].generation)
  BY <1>2 DEF SlotStep
<1>4. IdOf(s, i).slot = i /\ IdOf(s, i).generation = s.tasks[i].generation
  BY DEF IdOf
<1> QED BY <1>1, <1>3, <1>4 DEF Past, NextGeneration

\* The invariant holds initially.
LEMMA InitIInv == Init => IInv
<1> SUFFICES ASSUME Init PROVE IInv
  OBVIOUS
<1>1. \A c \in Cpus : sched[c] = NewScheduler /\ SchedInv(sched[c]) /\ retired[c] = {}
  BY NewSchedulerInv DEF Init
<1>2. TypeOK
  BY NewSchedulerInv DEF Init, TypeOK, SchedInv
<1> QED BY <1>1, <1>2 DEF IInv

\* Every step preserves the invariant.
LEMMA NextIInv == IInv /\ [Next]_vars => IInv'
<1>1. ASSUME IInv, Next PROVE IInv'
  <2>1. /\ SchedStep
        /\ transit' \subseteq [cpu : Cpus, task : DetachedTask]
        /\ live' \in Int
    BY <1>1, NextSteps DEF IInv
  <2>2. \A c \in Cpus : /\ SchedInv(sched[c]) /\ SchedInv(sched'[c])
                        /\ Evolves(sched[c], sched'[c])
    BY <1>1, <2>1 DEF IInv, SchedStep
  <2>3. retired' = [c \in Cpus |-> retired[c] \cup (Ids(c) \ Ids(c)')]
    BY <1>1 DEF Next
  <2>4. ASSUME NEW c \in Cpus, NEW id \in retired'[c] PROVE Past(sched'[c], id) /\ id \in TaskId
    <3>1. CASE id \in retired[c]
      BY <1>1, <2>2, <3>1, PastStays DEF IInv, TypeOK
    <3>2. CASE id \in Ids(c) /\ id \notin Ids(c)'
      <4>1. PICK i \in OccupiedSlots(sched[c]) : id = IdOf(sched[c], i)
        BY <3>2 DEF Ids
      <4>2. i \in Slots /\ sched[c].tasks[i].occupied
        BY <4>1 DEF OccupiedSlots
      <4>3. ~ (/\ sched'[c].tasks[i].occupied
               /\ sched'[c].tasks[i].generation = sched[c].tasks[i].generation)
        BY <3>2, <4>1, <4>2 DEF Ids, OccupiedSlots, IdOf
      <4>4. Past(sched'[c], id)
        BY <2>2, <4>1, <4>2, <4>3, RemovedIsPast
      <4> QED BY <2>2, <3>2, <4>4, IdsAreValid
    <3> QED BY <2>3, <2>4, <3>1, <3>2
  <2>5. TypeOK'
    <3>1. retired' \in [Cpus -> SUBSET TaskId]
      BY <2>3, <2>4
    <3> QED BY <2>1, <3>1 DEF TypeOK, SchedStep
  <2> QED BY <2>2, <2>4, <2>5 DEF IInv
<1>2. ASSUME IInv, UNCHANGED vars PROVE IInv'
  BY <1>2 DEF IInv, vars, TypeOK, Past
<1> QED BY <1>1, <1>2

\* The inductive invariant holds of every reachable state.
THEOREM Invariance == Spec => []IInv
BY InitIInv, NextIInv, PTL DEF Spec

-----------------------------------------------------------------------------
\* Every reachable state is of its type: in particular no budget, quantum or
\* generation counter of the scheduler leaves the range of its integer.
THEOREM TypeCorrect == Spec => []TypeOK
<1>1. IInv => TypeOK
  BY DEF IInv
<1> QED BY <1>1, Invariance, PTL

\* The current task of every processor is live and runnable, whatever tasks
\* exit, fault, block, wake and migrate (select_replacement and its callers).
THEOREM CurrentStaysRunnable == Spec => []CurrentIsRunnable
<1>1. IInv => CurrentIsRunnable
  BY DEF IInv, SchedInv, CurrentLive, CurrentIsRunnable
<1> QED BY <1>1, Invariance, PTL

\* A TaskId that stopped naming a task never names one again (remove, and
\* the generation counter's limit).
THEOREM StaleStaysStale == Spec => []StaleNeverRevives
<1>1. ASSUME IInv PROVE StaleNeverRevives
  <2> SUFFICES ASSUME NEW c \in Cpus, NEW id \in retired[c], id \in Ids(c) PROVE FALSE
    BY DEF StaleNeverRevives
  <2>1. id \in TaskId /\ Valid(sched[c], id) /\ Past(sched[c], id)
    BY <1>1, IdsAreValid DEF IInv
  <2> QED BY <2>1 DEF Valid, Past, TaskId
<1> QED BY <1>1, Invariance, PTL

\* No sequence of wakeups, refills and migrations gives a task more budget
\* than the weight of its priority (set_state, schedule, attach).
THEOREM BudgetStaysWithinWeight == Spec => []BudgetWithinWeight
<1>1. IInv => BudgetWithinWeight
  BY DEF IInv, SchedInv, TaskInv, BudgetWithinWeight, OccupiedSlots
<1> QED BY <1>1, Invariance, PTL

-----------------------------------------------------------------------------
(***************************************************************************)
(* Counting the tasks                                                      *)
(***************************************************************************)
\* The identities a scheduler holds, and those of all schedulers with their
\* processors.
HeldIds(s) == {IdOf(s, i) : i \in OccupiedSlots(s)}
PlacedIn(f) == UNION {{<<c, id>> : id \in HeldIds(f[c])} : c \in Cpus}

\* Every task is counted once.  Detaching adds a ticket, and not one that is
\* in transit already, because the identity in each ticket is of the past.
CountInv == /\ IsFiniteSet(transit) /\ IsFiniteSet(PlacedIn(sched))
            /\ live = Cardinality(transit) + Cardinality(PlacedIn(sched))
            /\ \A t \in transit : Past(sched[t.cpu], t.task.source)

\* Scheduling, blocking and waking keep the identities.
LEMMA HeldSame ==
    ASSUME NEW s, NEW u,
           \A i \in Slots : /\ u.tasks[i].occupied = s.tasks[i].occupied
                            /\ u.tasks[i].generation = s.tasks[i].generation
    PROVE  HeldIds(u) = HeldIds(s)
<1>1. OccupiedSlots(u) = OccupiedSlots(s)
  BY DEF OccupiedSlots
<1>2. \A i \in OccupiedSlots(s) : IdOf(u, i) = IdOf(s, i)
  BY DEF OccupiedSlots, IdOf
<1> QED BY <1>1, <1>2 DEF HeldIds

\* A step that leaves all slots but one alone and keeps the task in that one.
LEMMA HeldKept ==
    ASSUME NEW s, NEW u, NEW id, Valid(s, id), Valid(u, id), OnlySlot(s, u, id.slot),
           SchedInv(s), SchedInv(u)
    PROVE  HeldIds(u) = HeldIds(s)
<1>1. \A i \in Slots : /\ u.tasks[i].occupied = s.tasks[i].occupied
                       /\ u.tasks[i].generation = s.tasks[i].generation
  <2> SUFFICES ASSUME NEW i \in Slots
               PROVE  /\ u.tasks[i].occupied = s.tasks[i].occupied
                      /\ u.tasks[i].generation = s.tasks[i].generation
    OBVIOUS
  <2>1. CASE i # id.slot
    BY <2>1 DEF OnlySlot, SameTask
  <2>2. CASE i = id.slot
    <3>1. u.tasks[i].occupied \in BOOLEAN /\ s.tasks[i].occupied \in BOOLEAN
      BY DEF SchedInv, TaskInv, Task
    <3> QED BY <2>2, <3>1 DEF Valid
  <2> QED BY <2>1, <2>2
<1> QED BY <1>1, HeldSame

\* create and attach add one identity.
LEMMA HeldMore ==
    ASSUME NEW s, NEW u, NEW id \in TaskId, ~ s.tasks[id.slot].occupied, Valid(u, id),
           OnlySlot(s, u, id.slot)
    PROVE  id \notin HeldIds(s) /\ HeldIds(u) = HeldIds(s) \cup {id}
<1>1. id.slot \in Slots /\ IdOf(u, id.slot) = id /\ u.tasks[id.slot].occupied
  BY DEF Valid, IdOf, TaskId
<1>2. OccupiedSlots(u) = OccupiedSlots(s) \cup {id.slot} /\ id.slot \notin OccupiedSlots(s)
  BY <1>1 DEF OccupiedSlots, OnlySlot, SameTask
<1>3. \A i \in OccupiedSlots(s) : IdOf(u, i) = IdOf(s, i) /\ IdOf(s, i) # id
  <2> SUFFICES ASSUME NEW i \in OccupiedSlots(s) PROVE IdOf(u, i) = IdOf(s, i) /\ IdOf(s, i) # id
    OBVIOUS
  <2>1. i \in Slots /\ i # id.slot
    BY <1>2 DEF OccupiedSlots
  <2> QED BY <2>1 DEF OnlySlot, SameTask, IdOf
<1> QED BY <1>1, <1>2, <1>3 DEF HeldIds

\* remove takes one identity away.
LEMMA HeldLess ==
    ASSUME NEW s, NEW u, NEW id \in TaskId, Valid(s, id), ~ u.tasks[id.slot].occupied,
           OnlySlot(s, u, id.slot)
    PROVE  id \in HeldIds(s) /\ HeldIds(u) = HeldIds(s) \ {id}
<1>1. id.slot \in Slots /\ IdOf(s, id.slot) = id /\ s.tasks[id.slot].occupied
  BY DEF Valid, IdOf, TaskId
<1>2. OccupiedSlots(u) = OccupiedSlots(s) \ {id.slot} /\ id.slot \in OccupiedSlots(s)
  BY <1>1 DEF OccupiedSlots, OnlySlot, SameTask
<1>3. \A i \in OccupiedSlots(u) : IdOf(u, i) = IdOf(s, i) /\ IdOf(s, i) # id
  <2> SUFFICES ASSUME NEW i \in OccupiedSlots(u) PROVE IdOf(u, i) = IdOf(s, i) /\ IdOf(s, i) # id
    OBVIOUS
  <2>1. i \in Slots /\ i # id.slot
    BY <1>2 DEF OccupiedSlots
  <2> QED BY <2>1 DEF OnlySlot, SameTask, IdOf
<1> QED BY <1>1, <1>2, <1>3 DEF HeldIds

\* A scheduler that keeps its identities changes nothing for the whole.
LEMMA PlacedSame ==
    ASSUME NEW f \in [Cpus -> SchedulerType], NEW c \in Cpus, NEW u, HeldIds(u) = HeldIds(f[c])
    PROVE  PlacedIn([f EXCEPT ![c] = u]) = PlacedIn(f)
<1>1. \A d \in Cpus : HeldIds([f EXCEPT ![c] = u][d]) = HeldIds(f[d])
  OBVIOUS
<1> QED BY <1>1 DEF PlacedIn

\* One identity more on a processor is one more in all.
LEMMA PlacedMore ==
    ASSUME NEW f \in [Cpus -> SchedulerType], NEW c \in Cpus, NEW u, NEW id,
           id \notin HeldIds(f[c]), HeldIds(u) = HeldIds(f[c]) \cup {id}, IsFiniteSet(PlacedIn(f))
    PROVE  /\ IsFiniteSet(PlacedIn([f EXCEPT ![c] = u]))
           /\ Cardinality(PlacedIn([f EXCEPT ![c] = u])) = Cardinality(PlacedIn(f)) + 1
<1> DEFINE g == [f EXCEPT ![c] = u]
<1>1. \A d \in Cpus : HeldIds(g[d]) = IF d = c THEN HeldIds(f[c]) \cup {id} ELSE HeldIds(f[d])
  OBVIOUS
<1> HIDE DEF g
<1>2. PlacedIn(g) = PlacedIn(f) \cup {<<c, id>>} /\ <<c, id>> \notin PlacedIn(f)
  BY <1>1 DEF PlacedIn
<1>3. IsFiniteSet(PlacedIn(g)) /\ Cardinality(PlacedIn(g)) = Cardinality(PlacedIn(f)) + 1
  BY <1>2, FS_AddElement
<1> QED BY <1>3 DEF g

\* One identity less on a processor is one less in all.
LEMMA PlacedLess ==
    ASSUME NEW f \in [Cpus -> SchedulerType], NEW c \in Cpus, NEW u, NEW id,
           id \in HeldIds(f[c]), HeldIds(u) = HeldIds(f[c]) \ {id}, IsFiniteSet(PlacedIn(f))
    PROVE  /\ IsFiniteSet(PlacedIn([f EXCEPT ![c] = u]))
           /\ Cardinality(PlacedIn([f EXCEPT ![c] = u])) = Cardinality(PlacedIn(f)) - 1
<1> DEFINE g == [f EXCEPT ![c] = u]
<1>1. \A d \in Cpus : HeldIds(g[d]) = IF d = c THEN HeldIds(f[c]) \ {id} ELSE HeldIds(f[d])
  OBVIOUS
<1> HIDE DEF g
<1>2. PlacedIn(g) = PlacedIn(f) \ {<<c, id>>} /\ <<c, id>> \in PlacedIn(f)
  BY <1>1 DEF PlacedIn
<1>3. IsFiniteSet(PlacedIn(g)) /\ Cardinality(PlacedIn(g)) = Cardinality(PlacedIn(f)) - 1
  BY <1>2, FS_RemoveElement
<1> QED BY <1>3 DEF g

\* The number of tasks on the processors in each kind of step.
Placed == Cardinality(PlacedIn(sched))
Count(n) == IsFiniteSet(PlacedIn(sched)') /\ Placed' = Placed + n

\* A step of one scheduler that keeps all identities.
LEMMA CountSame ==
    ASSUME TypeOK, IsFiniteSet(PlacedIn(sched)), NEW c \in Cpus, NEW u,
           HeldIds(u) = HeldIds(sched[c]), sched' = [sched EXCEPT ![c] = u]
    PROVE  Count(0)
<1>1. PlacedIn(sched)' = PlacedIn(sched)
  BY PlacedSame DEF TypeOK, PlacedIn
<1>2. Cardinality(PlacedIn(sched)) \in Nat
  BY FS_CardinalityType
<1> QED BY <1>1, <1>2 DEF Count, Placed

\* A task that moves directly: one processor loses it and another gains it.
LEMMA CountMigrate ==
    ASSUME TypeOK, \A c \in Cpus : SchedInv(sched[c]), IsFiniteSet(PlacedIn(sched)),
           NEW c \in Cpus, NEW d \in Cpus, c # d, NEW id \in TaskId, MigrateTo(c, d, id)
    PROVE  Count(0)
<1> DEFINE u == Remove(sched[c], id)
           ticket == TicketOf(sched[c], id)
           v == Attach(sched[d], ticket)
           f == [sched EXCEPT ![c] = u]
<1>1. /\ id # sched[c].current /\ Valid(sched[c], id) /\ CanCreate(sched[d])
      /\ sched' = [sched EXCEPT ![c] = u, ![d] = v]
  BY DEF MigrateTo, TypeOK
<1>2. /\ SchedInv(u) /\ OnlySlot(sched[c], u, id.slot) /\ ~ u.tasks[id.slot].occupied
      /\ ticket \in DetachedTask
  BY <1>1, DetachKeeps DEF CanDetach, Detach
<1>3. /\ OnlySlot(sched[d], v, CreatedId(sched[d]).slot)
      /\ Valid(v, CreatedId(sched[d]))
  BY <1>1, <1>2, AttachKeeps
<1>4. CreatedId(sched[d]) \in TaskId /\ ~ sched[d].tasks[CreatedId(sched[d]).slot].occupied
  BY <1>1, <1>2, CreateKeeps DEF DetachedTask
<1> HIDE DEF u, v, ticket
<1>5. id \in HeldIds(sched[c]) /\ HeldIds(u) = HeldIds(sched[c]) \ {id}
  BY <1>1, <1>2, HeldLess
<1>6. /\ CreatedId(sched[d]) \notin HeldIds(sched[d])
      /\ HeldIds(v) = HeldIds(sched[d]) \cup {CreatedId(sched[d])}
  BY <1>3, <1>4, HeldMore
<1>7. f \in [Cpus -> SchedulerType] /\ f[d] = sched[d] /\ sched' = [f EXCEPT ![d] = v]
  BY <1>1, <1>2 DEF TypeOK, SchedInv
<1>8. IsFiniteSet(PlacedIn(f)) /\ Cardinality(PlacedIn(f)) = Placed - 1
  BY <1>5, PlacedLess DEF TypeOK, Placed
<1> HIDE DEF f
<1>9. /\ IsFiniteSet(PlacedIn([f EXCEPT ![d] = v]))
      /\ Cardinality(PlacedIn([f EXCEPT ![d] = v])) = Cardinality(PlacedIn(f)) + 1
  BY <1>6, <1>7, <1>8, PlacedMore
<1>10. PlacedIn(sched)' = PlacedIn([f EXCEPT ![d] = v])
  BY <1>7 DEF PlacedIn
<1>11. Placed \in Nat
  BY FS_CardinalityType DEF Placed
<1> QED BY <1>8, <1>9, <1>10, <1>11 DEF Count, Placed

\* A task that is detached: one task less on the processors, one ticket more.
LEMMA CountDetach ==
    ASSUME IInv, CountInv, NEW c \in Cpus, NEW id \in TaskId, DetachTask(c, id)
    PROVE  /\ Count(-1)
           /\ IsFiniteSet(transit') /\ Cardinality(transit') = Cardinality(transit) + 1
           /\ \A t \in transit' \ transit : Past(sched'[t.cpu], t.task.source)
<1> DEFINE u == Detach(sched[c], id)
           ticket == [cpu |-> c, task |-> TicketOf(sched[c], id)]
<1>1. /\ CanDetach(sched[c], id) /\ Valid(sched[c], id)
      /\ transit' = transit \cup {ticket} /\ sched' = [sched EXCEPT ![c] = u]
  BY DEF DetachTask, CanDetach
<1>2. /\ SchedInv(u) /\ OnlySlot(sched[c], u, id.slot) /\ ~ u.tasks[id.slot].occupied
      /\ Evolves(sched[c], u)
  BY <1>1, DetachKeeps DEF IInv
<1>3. ticket.cpu = c /\ ticket.task.source = id
  BY DEF TicketOf
<1>4. ticket \notin transit
  <2>1. ~ Past(sched[c], id)
    BY <1>1 DEF Valid, Past, TaskId
  <2> QED BY <1>3, <2>1 DEF CountInv
<1>5. Past(u, id)
  <2>1. id.slot \in Slots /\ sched[c].tasks[id.slot].occupied /\ IdOf(sched[c], id.slot) = id
    BY <1>1 DEF Valid, IdOf, TaskId
  <2> QED BY <1>2, <2>1, RemovedIsPast DEF IInv
<1> HIDE DEF u, ticket
<1>6. id \in HeldIds(sched[c]) /\ HeldIds(u) = HeldIds(sched[c]) \ {id}
  BY <1>1, <1>2, HeldLess
<1>7. /\ IsFiniteSet(PlacedIn([sched EXCEPT ![c] = u]))
      /\ Cardinality(PlacedIn([sched EXCEPT ![c] = u])) = Placed - 1
  BY <1>6, PlacedLess DEF IInv, TypeOK, CountInv, Placed
<1>8. PlacedIn(sched)' = PlacedIn([sched EXCEPT ![c] = u])
  BY <1>1 DEF PlacedIn
<1>9. Placed \in Nat
  BY FS_CardinalityType DEF Placed, CountInv
<1>10. Count(-1)
  BY <1>7, <1>8, <1>9 DEF Count, Placed
<1>11. IsFiniteSet(transit') /\ Cardinality(transit') = Cardinality(transit) + 1
  BY <1>1, <1>4, FS_AddElement DEF CountInv
<1>12. sched'[c] = u
  BY <1>1 DEF IInv, TypeOK
<1> QED BY <1>1, <1>3, <1>5, <1>10, <1>11, <1>12

\* Which numbers a step changes, and by how much.
Counted == /\ IsFiniteSet(transit') /\ IsFiniteSet(PlacedIn(sched)')
           /\ live' = Cardinality(transit') + Placed'
           /\ \A t \in transit' \ transit : Past(sched'[t.cpu], t.task.source)

\* A step that leaves the tickets alone and counts what it adds or removes.
LEMMA CountedHere ==
    ASSUME CountInv, UNCHANGED transit, NEW n \in Int, Count(n), live' = live + n
    PROVE  Counted
<1>1. Cardinality(transit) \in Nat /\ Placed \in Nat
  BY FS_CardinalityType DEF CountInv, Placed
<1> QED BY <1>1 DEF Counted, CountInv, Count, Placed

\* The count of every step.
LEMMA NextCounts ==
    ASSUME IInv, CountInv, Next
    PROVE  Counted
<1>1. /\ TypeOK /\ \A c \in Cpus : SchedInv(sched[c])
      /\ IsFiniteSet(transit) /\ IsFiniteSet(PlacedIn(sched)) /\ live \in Int
  BY DEF IInv, CountInv, TypeOK
<1>2. Cardinality(transit) \in Nat /\ Placed \in Nat /\ live = Cardinality(transit) + Placed
  BY FS_CardinalityType DEF CountInv, Placed
<1>3. ASSUME NEW c \in Cpus, NEW u, SameTasks(sched[c], u), sched' = [sched EXCEPT ![c] = u],
             UNCHANGED <<transit, live>>
      PROVE  Counted
  <2>1. HeldIds(u) = HeldIds(sched[c])
    BY <1>3, HeldSame DEF SameTasks, SameTask
  <2>2. Count(0)
    BY <1>1, <1>3, <2>1, CountSame
  <2>3. UNCHANGED transit /\ live' = live + 0
    BY <1>1, <1>3
  <2> QED BY <2>2, <2>3, CountedHere
<1>4. ASSUME NEW c \in Cpus, NEW u, NEW id, Valid(sched[c], id), Valid(u, id), SchedInv(u),
             OnlySlot(sched[c], u, id.slot), sched' = [sched EXCEPT ![c] = u],
             UNCHANGED <<transit, live>>
      PROVE  Counted
  <2>1. HeldIds(u) = HeldIds(sched[c])
    BY <1>1, <1>4, HeldKept
  <2>2. Count(0)
    BY <1>1, <1>4, <2>1, CountSame
  <2>3. UNCHANGED transit /\ live' = live + 0
    BY <1>1, <1>4
  <2> QED BY <2>2, <2>3, CountedHere
<1>5. ASSUME NEW c \in Cpus, NEW u, NEW id \in TaskId, ~ sched[c].tasks[id.slot].occupied,
             Valid(u, id), OnlySlot(sched[c], u, id.slot), sched' = [sched EXCEPT ![c] = u]
      PROVE  Count(1)
  <2>1. id \notin HeldIds(sched[c]) /\ HeldIds(u) = HeldIds(sched[c]) \cup {id}
    BY <1>5, HeldMore
  <2>2. /\ IsFiniteSet(PlacedIn([sched EXCEPT ![c] = u]))
        /\ Cardinality(PlacedIn([sched EXCEPT ![c] = u])) = Placed + 1
    BY <1>1, <2>1, PlacedMore DEF TypeOK, Placed
  <2>3. PlacedIn(sched)' = PlacedIn([sched EXCEPT ![c] = u])
    BY <1>5 DEF PlacedIn
  <2> QED BY <2>2, <2>3 DEF Count, Placed
<1>6. ASSUME NEW c \in Cpus, NEW priority \in Priorities, CreateTask(c, priority)
      PROVE  Counted
  <2> DEFINE u == Create(sched[c], priority)
  <2>1. priority \in Priority /\ CanCreate(sched[c]) /\ sched' = [sched EXCEPT ![c] = u]
    BY <1>6, PrioritiesAssumption DEF CreateTask
  <2>2. /\ CreatedId(sched[c]) \in TaskId /\ Valid(u, CreatedId(sched[c]))
        /\ OnlySlot(sched[c], u, CreatedId(sched[c]).slot)
        /\ ~ sched[c].tasks[CreatedId(sched[c]).slot].occupied
    BY <1>1, <2>1, CreateKeeps
  <2> HIDE DEF u
  <2>3. Count(1)
    BY <1>5, <2>1, <2>2
  <2> QED BY <1>6, <2>3, CountedHere DEF CreateTask
<1>7. ASSUME NEW c \in Cpus, NEW ticket \in transit, AttachTask(c, ticket)
      PROVE  Counted
  <2> DEFINE u == Attach(sched[c], ticket.task)
  <2>1. /\ ticket.task \in DetachedTask /\ ticket.task.priority \in Priority
        /\ CanCreate(sched[c]) /\ sched' = [sched EXCEPT ![c] = u]
    BY <1>1, <1>7 DEF AttachTask, TypeOK, DetachedTask
  <2>2. /\ Valid(u, CreatedId(sched[c]))
        /\ OnlySlot(sched[c], u, CreatedId(sched[c]).slot)
    BY <1>1, <2>1, AttachKeeps
  <2>3. /\ CreatedId(sched[c]) \in TaskId
        /\ ~ sched[c].tasks[CreatedId(sched[c]).slot].occupied
    BY <1>1, <2>1, CreateKeeps
  <2> HIDE DEF u
  <2>4. Count(1)
    BY <1>5, <2>1, <2>2, <2>3
  <2>5. transit' = transit \ {ticket} /\ live' = live
    BY <1>7 DEF AttachTask
  <2>6. IsFiniteSet(transit') /\ Cardinality(transit') = Cardinality(transit) - 1
    BY <1>1, <2>5, FS_RemoveElement
  <2> QED BY <1>2, <2>4, <2>5, <2>6 DEF Counted, Count
<1>8. ASSUME NEW c \in Cpus, NEW d \in Cpus, c # d, NEW id \in TaskId, MigrateTo(c, d, id)
      PROVE  Counted
  <2>1. Count(0)
    BY <1>1, <1>8, CountMigrate
  <2>2. UNCHANGED <<transit, live>>
    BY <1>8 DEF MigrateTo
  <2> QED BY <1>1, <2>1, <2>2, CountedHere
<1>9. ASSUME NEW c \in Cpus, NEW id \in TaskId, DetachTask(c, id)
      PROVE  Counted
  <2>1. /\ Count(-1)
        /\ IsFiniteSet(transit') /\ Cardinality(transit') = Cardinality(transit) + 1
        /\ \A t \in transit' \ transit : Past(sched'[t.cpu], t.task.source)
    BY <1>9, CountDetach
  <2>2. live' = live
    BY <1>9 DEF DetachTask
  <2> QED BY <1>2, <2>1, <2>2 DEF Counted, Count
<1>10. ASSUME NEW c \in Cpus, NEW id \in Ids(c), WakeTask(c, id)
       PROVE  Counted
  <2>1. /\ Valid(sched[c], id) /\ sched' = [sched EXCEPT ![c] = Wake(sched[c], id)]
        /\ UNCHANGED <<transit, live>>
    BY <1>10 DEF WakeTask
  <2> QED BY <1>1, <1>4, <2>1, WakeKeeps
<1>11. ASSUME NEW c \in Cpus, Run(c)
       PROVE  Counted
  <2>1. CASE StartCpu(c)
    BY <1>1, <1>3, <2>1, StartKeeps DEF StartCpu
  <2>2. CASE Tick(c)
    BY <1>1, <1>3, <2>2, TickKeeps DEF Tick
  <2>3. CASE Yield(c)
    BY <1>1, <1>3, <2>3, YieldKeeps DEF Yield
  <2>4. CASE Block(c)
    <3>1. Valid(sched[c], sched[c].current)
      BY <1>1, <2>4 DEF Block, SchedInv, CurrentLive
    <3> QED BY <1>1, <1>4, <2>4, <3>1, BlockKeeps DEF Block
  <2>5. CASE Terminate(c)
    <3> DEFINE u == TerminateCurrent(sched[c])
               id == sched[c].current
    <3>1. /\ id # NoTask /\ sched' = [sched EXCEPT ![c] = u]
          /\ live' = live - 1 /\ UNCHANGED transit
      BY <2>5 DEF Terminate
    <3>2. id \in TaskId /\ Valid(sched[c], id)
      BY <1>1, <3>1 DEF SchedInv, SchedulerType, CurrentLive
    <3>3. OnlySlot(sched[c], u, id.slot) /\ ~ u.tasks[id.slot].occupied
      BY <1>1, <3>1, TerminateKeeps
    <3> HIDE DEF u, id
    <3>4. id \in HeldIds(sched[c]) /\ HeldIds(u) = HeldIds(sched[c]) \ {id}
      BY <3>2, <3>3, HeldLess
    <3>5. /\ IsFiniteSet(PlacedIn([sched EXCEPT ![c] = u]))
          /\ Cardinality(PlacedIn([sched EXCEPT ![c] = u])) = Placed - 1
      BY <1>1, <3>4, PlacedLess DEF TypeOK, Placed
    <3>6. PlacedIn(sched)' = PlacedIn([sched EXCEPT ![c] = u])
      BY <3>1 DEF PlacedIn
    <3>7. Count(-1)
      BY <1>2, <3>5, <3>6 DEF Count, Placed
    <3>8. live' = live + (-1)
      BY <1>1, <3>1
    <3> QED BY <3>1, <3>7, <3>8, CountedHere
  <2> QED BY <1>11, <2>1, <2>2, <2>3, <2>4, <2>5 DEF Run
<1>12. ASSUME NEW c \in Cpus, NEW d \in Cpus, c # d, NEW id \in Ids(c), MigrateTo(c, d, id)
       PROVE  Counted
  BY <1>1, <1>8, <1>12, IdsAreValid
<1>13. ASSUME NEW c \in Cpus, NEW d \in Cpus, c # d, RebalanceTo(c, d)
       PROVE  Counted
  BY <1>1, <1>8, <1>13, CandidateIsValid DEF RebalanceTo
<1>14. ASSUME NEW c \in Cpus, NEW id \in Ids(c), DetachTask(c, id)
       PROVE  Counted
  BY <1>1, <1>9, <1>14, IdsAreValid
<1>15. ASSUME NEW c \in Cpus, NEW load \in Loads, DetachForRebalance(c, load)
       PROVE  Counted
  BY <1>1, <1>9, <1>15, CandidateIsValid DEF DetachForRebalance
<1> QED BY <1>6, <1>7, <1>10, <1>11, <1>12, <1>13, <1>14, <1>15 DEF Next, Admit, Awaken, Leave

\* The count holds initially.
LEMMA InitCounts == Init => CountInv
<1> SUFFICES ASSUME Init PROVE CountInv
  OBVIOUS
<1>1. \A c \in Cpus : HeldIds(sched[c]) = {}
  BY DEF Init, HeldIds, OccupiedSlots, NewScheduler, EmptyTask
<1>2. PlacedIn(sched) = {} /\ transit = {} /\ live = 0
  BY <1>1 DEF PlacedIn, Init
<1> QED BY <1>2, FS_EmptySet DEF CountInv

\* Every step preserves the count.
LEMMA NextCountInv == IInv /\ CountInv /\ [Next]_vars => CountInv'
<1>1. ASSUME IInv, CountInv, Next PROVE CountInv'
  <2>1. Counted
    BY <1>1, NextCounts
  <2>2. SchedStep
    BY <1>1, NextSteps DEF IInv
  <2>3. ASSUME NEW t \in transit PROVE Past(sched'[t.cpu], t.task.source)
    <3>1. t.cpu \in Cpus /\ t.task.source \in TaskId
      BY <1>1 DEF IInv, TypeOK, DetachedTask
    <3>2. /\ SchedInv(sched[t.cpu]) /\ SchedInv(sched'[t.cpu])
          /\ Evolves(sched[t.cpu], sched'[t.cpu]) /\ Past(sched[t.cpu], t.task.source)
      BY <1>1, <2>2, <3>1 DEF IInv, SchedStep, CountInv
    <3> QED BY <3>1, <3>2, PastStays
  <2>4. \A t \in transit' : Past(sched'[t.cpu], t.task.source)
    BY <2>1, <2>3 DEF Counted
  <2> QED BY <2>1, <2>4 DEF Counted, CountInv, Placed
<1>2. ASSUME CountInv, UNCHANGED vars PROVE CountInv'
  BY <1>2 DEF CountInv, vars, Past, PlacedIn
<1> QED BY <1>1, <1>2

\* Migration neither loses nor duplicates work: every task that was created and
\* has not ended is on one processor or in one ticket (migrate_to, detach and
\* attach).
THEOREM TasksAreConserved == Spec => []TasksConserved
<1>1. CountInv => TasksConserved
  BY DEF CountInv, TasksConserved, PlacedIn, HeldIds, Ids
<1> QED BY <1>1, InitCounts, NextCountInv, Invariance, PTL DEF Spec

-----------------------------------------------------------------------------
(***************************************************************************)
(* The mailbox through which ownership of work moves between processors    *)
(***************************************************************************)
\* Every mailbox starts in the invariant (OwnershipMailbox::new).
LEMMA MailboxInit == MInit => MInv
  BY NobodyAssumption
  DEF MInit, MInv, MTypeOK, OneInside, RealTicket, MailboxStates, CallPoints

\* The steps of publish preserve the invariant.
LEMMA PublishKeeps ==
  ASSUME MInv, NEW p \in Procs,
         \/ \E t \in Tickets : PublishClaim(p, t) \/ PublishOccupied(p, t)
         \/ PublishWrite(p)
         \/ PublishFull(p)
  PROVE  MInv'
<1>1. ASSUME NEW t \in Tickets, PublishClaim(p, t) PROVE MInv'
  BY <1>1 DEF MInv, MTypeOK, OneInside, RealTicket, PublishClaim, Acquire,
              MailboxStates, CallPoints
<1>2. ASSUME NEW t \in Tickets, PublishOccupied(p, t) PROVE MInv'
  BY <1>2 DEF MInv, MTypeOK, OneInside, RealTicket, PublishOccupied, mvars
<1>3. CASE PublishWrite(p)
  BY <1>3 DEF MInv, MTypeOK, OneInside, RealTicket, PublishWrite, Access,
              WriteBytes, MailboxStates, CallPoints
<1>4. CASE PublishFull(p)
  BY <1>4 DEF MInv, MTypeOK, OneInside, RealTicket, PublishFull, Release,
              MailboxStates, CallPoints
<1> QED
  BY <1>1, <1>2, <1>3, <1>4

\* The steps of take preserve the invariant.
LEMMA TakeKeeps ==
  ASSUME MInv, NEW p \in Procs,
         TakeClaim(p) \/ TakeNone(p) \/ TakeRead(p) \/ TakeEmpty(p)
  PROVE  MInv'
<1>1. CASE TakeClaim(p)
  BY <1>1 DEF MInv, MTypeOK, OneInside, RealTicket, TakeClaim, Acquire,
              MailboxStates, CallPoints
<1>2. CASE TakeNone(p)
  BY <1>2 DEF MInv, MTypeOK, OneInside, RealTicket, TakeNone, mvars
<1>3. CASE TakeRead(p)
  BY <1>3 DEF MInv, MTypeOK, OneInside, RealTicket, TakeRead, Access,
              ReadBytes, MailboxStates, CallPoints
<1>4. CASE TakeEmpty(p)
  BY <1>4 DEF MInv, MTypeOK, OneInside, RealTicket, TakeEmpty, Release,
              MailboxStates, CallPoints
<1> QED
  BY <1>1, <1>2, <1>3, <1>4

\* Every step of the mailbox, and stuttering, preserves the invariant.
LEMMA MailboxNext == MInv /\ [MNext]_mvars => MInv'
<1> SUFFICES ASSUME MInv, [MNext]_mvars PROVE MInv'
  OBVIOUS
<1>1. ASSUME NEW p \in Procs, Call(p) \/ Finish(p) PROVE MInv'
  BY <1>1, PublishKeeps, TakeKeeps DEF Call, Finish
<1>2. CASE DropMailbox
  BY <1>2, NobodyAssumption
  DEF DropMailbox, MInv, MTypeOK, OneInside, RealTicket, MailboxStates, CallPoints
<1>3. CASE UNCHANGED mvars
  BY <1>3 DEF mvars, MInv, MTypeOK, OneInside, RealTicket
<1> QED
  BY <1>1, <1>2, <1>3 DEF MNext

\* The mailbox's variables keep their types.
THEOREM MailboxTypeCorrect == MSpec => []MTypeOK
<1>1. MInv => MTypeOK
  BY DEF MInv
<1> QED
  BY <1>1, MailboxInit, MailboxNext, PTL DEF MSpec

\* No two processors are ever inside the slot, and the accesses to its bytes
\* never race: the SAFETY comments of publish and take hold.
THEOREM AccessIsExclusive == MSpec => []ExclusiveAccess
<1>1. MInv => ExclusiveAccess
  BY DEF MInv, MTypeOK, OneInside, ExclusiveAccess, CallPoints
<1> QED
  BY <1>1, MailboxInit, MailboxNext, PTL DEF MSpec

-----------------------------------------------------------------------------
\* Initially the mailbox maps to an empty OwnershipSlot.
LEMMA InitIsSlot == MInit => Abstract!AInit
<1> SUFFICES ASSUME MInit PROVE Abstract!AInit
  OBVIOUS
<1>1. \A p \in Procs : Held(p) = hand[p]
  BY DEF MInit, Held
<1>2. [p \in Procs |-> Held(p)] \in [Procs -> SUBSET Tickets]
  BY <1>1 DEF MInit
<1>3. Box = {}
  BY DEF MInit, Box
<1> QED
  BY <1>1, <1>2, <1>3 DEF MInit, Abstract!AInit

\* A step that neither publishes nor claims the full slot moves no ownership.
LEMMA QuietSteps ==
  ASSUME MInv, NEW p \in Procs,
         \/ \E t \in Tickets : PublishClaim(p, t)
         \/ PublishWrite(p)
         \/ TakeRead(p)
         \/ TakeEmpty(p)
  PROVE  /\ \A q \in Procs : Held(q)' = Held(q)
         /\ Box' = Box
         /\ dropped' = dropped
<1> USE DEF MInv, MTypeOK, OneInside, RealTicket
<1>1. ASSUME NEW t \in Tickets, PublishClaim(p, t)
      PROVE  (\A q \in Procs : Held(q)' = Held(q)) /\ Box' = Box /\ dropped' = dropped
  BY <1>1 DEF PublishClaim, Held, Box
<1>2. CASE PublishWrite(p)
  BY <1>2 DEF PublishWrite, WriteBytes, Held, Box
<1>3. CASE TakeRead(p)
  BY <1>3 DEF TakeRead, ReadBytes, Held, Box
<1>4. CASE TakeEmpty(p)
  BY <1>4, NobodyAssumption DEF TakeEmpty, Held, Box
<1> QED
  BY <1>1, <1>2, <1>3, <1>4

\* The Release store of FULL moves the ticket into the abstract slot.
LEMMA PublishFullMovesIn ==
  ASSUME MInv, NEW p \in Procs, PublishFull(p)
  PROVE  Abstract!MoveIn(p, slot)
<1> USE DEF MInv, MTypeOK, OneInside, RealTicket
<1>1. slot \in Held(p) /\ Box = {} /\ Box' = {slot} /\ dropped' = dropped
  BY DEF PublishFull, Held, Box
<1>2. Held(p)' = Held(p) \ {slot}
  BY DEF PublishFull, Held
<1>3. \A q \in Procs \ {p} : Held(q)' = Held(q)
  BY DEF PublishFull, Held
<1> QED
  BY <1>1, <1>2, <1>3 DEF Abstract!MoveIn

\* The compare-exchange of take moves the ticket out of the abstract slot.
LEMMA TakeClaimMovesOut ==
  ASSUME MInv, NEW p \in Procs, TakeClaim(p)
  PROVE  Abstract!MoveOut(p, slot)
<1> USE DEF MInv, MTypeOK, OneInside, RealTicket
<1>1. Box = {slot} /\ Box' = {} /\ dropped' = dropped
  BY DEF TakeClaim, Box
<1>2. Held(p)' = Held(p) \cup {slot}
  BY DEF TakeClaim, Held
<1>3. \A q \in Procs \ {p} : Held(q)' = Held(q)
  BY DEF TakeClaim, Held
<1> QED
  BY <1>1, <1>2, <1>3 DEF Abstract!MoveOut

\* Every step of the mailbox is a step of OwnershipSlot or leaves it alone.
LEMMA NextIsSlot == MInv /\ [MNext]_mvars => [Abstract!ANext]_(Abstract!avars)
<1> SUFFICES ASSUME MInv, [MNext]_mvars PROVE [Abstract!ANext]_(Abstract!avars)
  OBVIOUS
<1>1. ASSUME NEW p \in Procs, Finish(p) \/ \E t \in Tickets : PublishClaim(p, t)
      PROVE  Abstract!ANext \/ UNCHANGED Abstract!avars
  <2>1. CASE PublishFull(p)
    <3>1. slot \in Tickets
      BY <2>1 DEF PublishFull, MInv, RealTicket
    <3> QED
      BY <2>1, <3>1, PublishFullMovesIn DEF Abstract!ANext
  <2>2. CASE ~PublishFull(p)
    BY <1>1, <2>2, QuietSteps DEF Finish, Abstract!avars
  <2> QED
    BY <2>1, <2>2
<1>2. ASSUME NEW p \in Procs, TakeClaim(p) PROVE Abstract!ANext
  <2>1. slot \in Tickets
    BY <1>2 DEF TakeClaim, MInv, RealTicket
  <2> QED
    BY <1>2, <2>1, TakeClaimMovesOut DEF Abstract!ANext
<1>3. ASSUME UNCHANGED mvars PROVE UNCHANGED Abstract!avars
  BY <1>3 DEF mvars, Abstract!avars, Held, Box
<1>4. ASSUME NEW p \in Procs, TakeNone(p) \/ \E t \in Tickets : PublishOccupied(p, t)
      PROVE  UNCHANGED mvars
  BY <1>4 DEF TakeNone, PublishOccupied
<1>5. ASSUME DropMailbox PROVE Abstract!Destroy \/ UNCHANGED Abstract!avars
  <2>1. \A q \in Procs : Held(q)' = Held(q)
    BY <1>5 DEF DropMailbox, Held
  <2>2. Box' = {} /\ dropped' = dropped \cup Box
    BY <1>5, NobodyAssumption DEF DropMailbox, Box, MInv, RealTicket
  <2> QED
    BY <2>1, <2>2 DEF Abstract!Destroy, Abstract!avars
<1> QED
  BY <1>1, <1>2, <1>3, <1>4, <1>5 DEF MNext, Call, Abstract!ANext

\* The mailbox's atomic byte protocol implements the abstract slot: publish
\* and take are moves of one ticket, whatever else is running.
THEOREM MailboxImplementsSlot == MSpec => ImplementsSlot
  BY MailboxInit, MailboxNext, InitIsSlot, NextIsSlot, PTL
  DEF MSpec, ImplementsSlot, Abstract!ASpec

\* In the abstract slot ownership is linear, initially and after each move.
LEMMA SlotLinear ==
  /\ Abstract!AInit => Abstract!Linear
  /\ Abstract!Linear /\ [Abstract!ANext]_(Abstract!avars) => Abstract!Linear'
<1>1. Abstract!AInit => Abstract!Linear
  BY DEF Abstract!AInit, Abstract!Linear
<1>2. ASSUME Abstract!Linear, NEW p \in Procs, NEW t \in Tickets, Abstract!MoveIn(p, t)
      PROVE  Abstract!Linear'
  <2>1. t \in Held(p) /\ Held(p)' = Held(p) \ {t}
    BY <1>2 DEF Abstract!MoveIn
  <2>2. \A q \in Procs \ {p} : Held(q)' = Held(q)
    BY <1>2 DEF Abstract!MoveIn
  <2>3. Box = {} /\ Box' = {t} /\ dropped' = dropped
    BY <1>2 DEF Abstract!MoveIn
  <2> QED
    BY <1>2, <2>1, <2>2, <2>3 DEF Abstract!Linear
<1>3. ASSUME Abstract!Linear, NEW p \in Procs, NEW t \in Tickets, Abstract!MoveOut(p, t)
      PROVE  Abstract!Linear'
  BY <1>3 DEF Abstract!Linear, Abstract!MoveOut
<1>4. ASSUME Abstract!Linear, Abstract!Destroy PROVE Abstract!Linear'
  BY <1>4 DEF Abstract!Linear, Abstract!Destroy
<1>5. ASSUME Abstract!Linear, UNCHANGED Abstract!avars PROVE Abstract!Linear'
  BY <1>5 DEF Abstract!Linear, Abstract!avars
<1> QED
  BY <1>1, <1>2, <1>3, <1>4, <1>5 DEF Abstract!ANext

\* No interleaving copies, loses or double-drops a ticket.
THEOREM OwnershipIsLinear == MSpec => []LinearOwnership
<1>1. ImplementsSlot => []LinearOwnership
  BY SlotLinear, PTL DEF ImplementsSlot, LinearOwnership, Abstract!ASpec
<1> QED
  BY <1>1, MailboxImplementsSlot
=============================================================================
