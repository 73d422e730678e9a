------------------------- MODULE ServiceSupervisor -------------------------
(***************************************************************************)
(* ServiceSupervisor<SERVICES> of mrml-kernel/src/service_lifecycle.rs: it *)
(* binds service records to the tasks of one TaskRuntime, retires a        *)
(* service with its task and restarts it within its restart policy.  The   *)
(* clock is the runtime's tick counter.                                    *)
(***************************************************************************)
EXTENDS Runtime

CONSTANTS SERVICES,              \* capacity of the service array
          MaxServiceGeneration,  \* u32::MAX in the code
          MaxTick,               \* u64::MAX in the code
          Policies               \* the restart policies given to services

Services == 0 .. SERVICES - 1

\* RestartPolicy::new accepts no other policies.
RestartPolicy == {p \in [maximum : Nat \ {0}, base : 0 .. MaxTick, cap : 0 .. MaxTick] :
                     p.base <= p.cap}

ASSUME SupervisorAssumption == /\ SERVICES \in Nat \ {0}
                               /\ MaxServiceGeneration \in Nat \ {0}
                               /\ MaxTick \in Nat
                               /\ \A p \in Policies : p \in RestartPolicy

VARIABLES rt,        \* the TaskRuntime
          slots,     \* the service records
          now,       \* the runtime's tick counter
          stoppedAt, \* history: stoppedAt[i]: when service i last stopped
          retired    \* history: the ServiceIds whose instance stopped

vars == <<rt, slots, now, stoppedAt, retired>>

ServiceState == {"Running", "Exited", "Faulted"}

OnceImmediate == [maximum |-> 1, base |-> 0, cap |-> 0]

EmptySlot == [generation |-> 1, object |-> NoObject, task |-> NoTask, state |-> "Exited",
              occupied |-> FALSE, policy |-> OnceImmediate, restarts |-> 0, next |-> 0]

ServiceSlot == [generation : 1 .. MaxServiceGeneration, object : Objects \cup {NoObject},
                task : TaskId \cup {NoTask}, state : ServiceState, occupied : BOOLEAN,
                policy : Policies \cup {OnceImmediate}, restarts : Nat, next : 0 .. MaxTick]

ServiceId == [slot : Services, generation : 1 .. MaxServiceGeneration]

TypeOK == /\ rt \in RuntimeType
          /\ slots \in [Services -> ServiceSlot]
          /\ now \in 0 .. MaxTick
          /\ stoppedAt \in [Services -> 0 .. MaxTick]
          /\ retired \subseteq ServiceId

Init == /\ rt = NewRuntime
        /\ slots = [i \in Services |-> EmptySlot]
        /\ now = 0
        /\ stoppedAt = [i \in Services |-> 0]
        /\ retired = {}

Current == rt.sched.current

PagesInUse == {rt.domains[i].page : i \in DomainSlots(rt)}

\* id and slot
ServiceIdOf(i) == [slot |-> i, generation |-> slots[i].generation]
ValidService(id) == slots[id.slot].occupied /\ slots[id.slot].generation = id.generation

\* running_task_slot
BoundTo(task) == {i \in Services : /\ slots[i].occupied
                                   /\ slots[i].state = "Running"
                                   /\ slots[i].task = task}

-----------------------------------------------------------------------------
\* The kernel creates a service's first task and then registers it.
CreateTask(page) ==
    /\ page \notin PagesInUse
    /\ CanCreateDomain(rt)
    /\ rt' = CreateDomain(rt, 1, page)
    /\ UNCHANGED <<slots, now, stoppedAt, retired>>

\* register_with_policy.  It does not look at the task: its callers register
\* each task once.
Register(object, task, policy) ==
    LET free == {i \in Services : ~slots[i].occupied} IN
    /\ BoundTo(task) = {}
    /\ free # {}
    /\ slots' = [slots EXCEPT ![Min(free)] =
          [@ EXCEPT !.object = object, !.task = task, !.state = "Running", !.occupied = TRUE,
                    !.policy = policy, !.restarts = 0, !.next = 0]]
    /\ UNCHANGED <<rt, now, stoppedAt, retired>>

\* timer_tick fails with TickExhausted at the end of time.
Tick ==
    /\ now < MaxTick
    /\ now' = now + 1
    /\ rt' = [rt EXCEPT !.sched = TimerTick(@)]
    /\ UNCHANGED <<slots, stoppedAt, retired>>

-----------------------------------------------------------------------------
\* RestartPolicy::delay: the base delay is doubled by every completed restart.
Delay(policy, restarts) == LET delay == policy.base * 2^restarts IN
                           IF delay < policy.cap THEN delay ELSE policy.cap

\* Mutant of ArmedTick: the delay does not grow.
MutArmedFlat(slot) ==
    IF slot.restarts >= slot.policy.maximum THEN MaxTick
    ELSE IF now + slot.policy.base > MaxTick THEN slot.next
    ELSE now + slot.policy.base

\* arm_restart: what next_restart_tick becomes.  When the addition overflows
\* TimeExhausted is returned and the field keeps its value.
ArmedTick(slot) ==
    IF slot.restarts >= slot.policy.maximum THEN MaxTick
    ELSE IF now + Delay(slot.policy, slot.restarts) > MaxTick THEN slot.next
    ELSE now + Delay(slot.policy, slot.restarts)

\* Mutant of Retire: the record keeps its task.
MutRetireKeepsTask(i, state) ==
    /\ rt' = TerminateDomain(rt)
    /\ slots' = [slots EXCEPT ![i] = [@ EXCEPT !.state = state, !.next = ArmedTick(slots[i])]]
    /\ stoppedAt' = [stoppedAt EXCEPT ![i] = now]
    /\ retired' = retired \cup {ServiceIdOf(i)}
    /\ UNCHANGED now

\* exit_current_at and fault_current_at with the runtime's clock (exit_current
\* and fault_current pass tick 0): the task is gone before the record is
\* updated, and the record before the restart is armed.
Retire(i, state) ==
    /\ rt' = TerminateDomain(rt)
    /\ slots' = [slots EXCEPT ![i] = [@ EXCEPT !.task = NoTask, !.state = state,
                                               !.next = ArmedTick(slots[i])]]
    /\ stoppedAt' = [stoppedAt EXCEPT ![i] = now]
    /\ retired' = retired \cup {ServiceIdOf(i)}
    /\ UNCHANGED now

\* A task that no service is bound to is not retired: TaskMismatch.
RetireCurrent(state) ==
    /\ Current # NoTask
    /\ BoundTo(Current) # {}
    /\ HasDomain(rt, Current)
    /\ Retire(Min(BoundTo(Current)), state)

ExitCurrent == RetireCurrent("Exited")
FaultCurrent == RetireCurrent("Faulted")

\* Mutant of MayRestart: one restart more than the policy's maximum.
MutMayRestartOnceMore(i) ==
    /\ slots[i].state # "Running" /\ slots[i].task = NoTask
    /\ slots[i].restarts <= slots[i].policy.maximum
    /\ now >= slots[i].next
    /\ slots[i].generation # MaxServiceGeneration

\* The checks of restart_at of a stopped service by the holder of CONTROL on
\* its object, in the order StillRunning, RestartLimit, RestartBackoff,
\* GenerationExhausted.
MayRestart(i) ==
    /\ slots[i].state # "Running" /\ slots[i].task = NoTask
    /\ slots[i].restarts < slots[i].policy.maximum
    /\ now >= slots[i].next
    /\ slots[i].generation # MaxServiceGeneration

\* Mutant of Restarted: the new instance takes over the generation.
MutRestartedSame(slot, task) ==
    [slot EXCEPT !.task = task, !.state = "Running", !.restarts = @ + 1]

Restarted(slot, task) ==
    [slot EXCEPT !.generation = @ + 1, !.task = task, !.state = "Running", !.restarts = @ + 1]

\* restart_at.  A full runtime fails the call before the record changes.
Restart(id, object, page) ==
    /\ ValidService(id)
    /\ object = slots[id.slot].object
    /\ MayRestart(id.slot)
    /\ CanCreateDomain(rt)
    /\ page \notin PagesInUse
    /\ rt' = CreateDomain(rt, 1, page)
    /\ slots' = [slots EXCEPT ![id.slot] = Restarted(@, CreatedId(rt.sched))]
    /\ UNCHANGED <<now, stoppedAt, retired>>

LiveTasks == {rt.domains[i].task : i \in DomainSlots(rt)}

Next == \/ \E page \in Pages : CreateTask(page)
        \/ \E object \in Objects, task \in LiveTasks, policy \in Policies :
              Register(object, task, policy)
        \/ Tick
        \/ ExitCurrent
        \/ FaultCurrent
        \/ \E id \in ServiceId, object \in Objects, page \in Pages : Restart(id, object, page)

Spec == Init /\ [][Next]_vars

-----------------------------------------------------------------------------
(***************************************************************************)
(* Properties                                                              *)
(***************************************************************************)
\* "binds each service object to exactly one live generational task identity":
\* a running service's task is live, with its domain, and no other running
\* service's; a stopped service has no task.
RunningMeansLive ==
    \A i \in Services :
        IF slots[i].occupied /\ slots[i].state = "Running"
        THEN /\ Valid(rt.sched, slots[i].task)
             /\ HasDomain(rt, slots[i].task)
             /\ BoundTo(slots[i].task) = {i}
        ELSE slots[i].task = NoTask

\* "Restart advances the service generation, making every handle to the
\* retired instance permanently stale": the id of an instance that stopped
\* never names a running service again.
RetiredStaysStopped ==
    \A id \in retired : ValidService(id) => slots[id.slot].state # "Running"

\* "exhausting the count is permanent for that service record": over all its
\* lives a record is started once and restarted at most maximum times.
RestartBudget ==
    \A i \in Services :
        slots[i].occupied => slots[i].generation <= 1 + slots[i].policy.maximum

\* The tick at which a stopped service's backoff is over.
DueTick(i) == stoppedAt[i] + Delay(slots[i].policy, slots[i].restarts)

\* A crash-looping service is not restarted before its backoff is over, which
\* doubles with every restart, as long as the tick at which it is over fits the
\* counter.  What happens when it does not is OverflowFailsClosed below.
BackoffKept ==
    \A i \in Services :
        slots[i].occupied /\ MayRestart(i) /\ DueTick(i) <= MaxTick => now >= DueTick(i)

\* "Time overflow occurs only after the retiring domain has been revoked and
\* fails closed" (docs/MICROKERNEL.md): a service whose backoff ends after the
\* last tick is not restarted.  Does not hold: arm_restart returns
\* TimeExhausted and leaves next_restart_tick at the tick of an earlier stop.
OverflowFailsClosed ==
    \A i \in Services : slots[i].occupied /\ DueTick(i) > MaxTick => ~MayRestart(i)
=============================================================================
