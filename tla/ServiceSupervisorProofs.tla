---------------------- MODULE ServiceSupervisorProofs ----------------------
(***************************************************************************)
(* Theorems about ServiceSupervisor, for any number of services, tasks and *)
(* restart policies and any limits of generations and ticks.               *)
(***************************************************************************)
EXTENDS ServiceSupervisor, RuntimeProofs

\* A service record, with any integer for the tick of the next restart.
SlotRecord == [generation : Nat, object : Objects \cup {NoObject}, task : TaskId \cup {NoTask},
               state : ServiceState, occupied : BOOLEAN, policy : RestartPolicy,
               restarts : Nat, next : Int]

Running(i) == slots[i].occupied /\ slots[i].state = "Running"

\* Who runs has a task of its own, and it is live.
TasksBound ==
    /\ \A i \in Services : IF Running(i) THEN Valid(rt.sched, slots[i].task)
                                         ELSE slots[i].task = NoTask
    /\ \A i, j \in Services :
          Running(i) /\ Running(j) /\ slots[i].task = slots[j].task => i = j

\* The generation counts the restarts.
Counted ==
    \A i \in Services : /\ slots[i].generation = 1 + slots[i].restarts
                        /\ IF slots[i].occupied THEN slots[i].restarts <= slots[i].policy.maximum
                                                ELSE slots[i].restarts = 0

\* A retired instance is one of the past, or the one that stopped last.
Outdated ==
    \A id \in retired :
        /\ id \in [slot : Services, generation : Nat]
        /\ slots[id.slot].occupied
        /\ \/ id.generation < slots[id.slot].generation
           \/ id.generation = slots[id.slot].generation /\ slots[id.slot].state # "Running"

\* A service that stopped may not be restarted again, or its backoff lasts
\* beyond the end of time, or its record has the tick at which it is over.
Armed ==
    \A i \in Services : slots[i].occupied /\ slots[i].state # "Running" =>
        \/ slots[i].restarts >= slots[i].policy.maximum
        \/ DueTick(i) > MaxTick
        \/ slots[i].next = DueTick(i)

Types == /\ slots \in [Services -> SlotRecord]
         /\ now \in Nat
         /\ stoppedAt \in [Services -> Nat]

\* The inductive invariant; no message is sent here, so that every inbox is
\* one of before the first message.
IInv == Types /\ RuntimeInv(rt, 1) /\ TasksBound /\ Counted /\ Outdated /\ Armed

-----------------------------------------------------------------------------
(***************************************************************************)
(* The records                                                             *)
(***************************************************************************)
LEMMA SomePolicy == OnceImmediate \in RestartPolicy /\ Policies \subseteq RestartPolicy
BY SupervisorAssumption DEF OnceImmediate, RestartPolicy

\* RestartPolicy::delay is a number.
LEMMA DelayIsInt ==
    ASSUME NEW policy \in RestartPolicy, NEW restarts \in Nat
    PROVE  Delay(policy, restarts) \in Int
<1>1. 2^restarts \in Int
  BY Z3
<1>2. policy.base \in Int /\ policy.cap \in Int
  BY SupervisorAssumption DEF RestartPolicy
<1>3. policy.base * 2^restarts \in Int
  BY <1>1, <1>2
<1> QED BY <1>2, <1>3 DEF Delay

\* register_with_policy
Registered(s, object, task, policy, used) ==
    [s EXCEPT !.object = object, !.task = task, !.state = "Running", !.occupied = used,
              !.policy = policy, !.restarts = 0, !.next = 0]
LEMMA RegisteredIs ==
    ASSUME NEW s \in SlotRecord, NEW object, NEW task, NEW policy, NEW used
    PROVE  Registered(s, object, task, policy, used) =
             [generation |-> s.generation, object |-> object, task |-> task, state |-> "Running",
              occupied |-> used, policy |-> policy, restarts |-> 0, next |-> 0]
<1> DEFINE a == [s EXCEPT !.object = object]
           b == [a EXCEPT !.task = task]
           c == [b EXCEPT !.state = "Running"]
           d == [c EXCEPT !.occupied = used]
           e == [d EXCEPT !.policy = policy]
           f == [e EXCEPT !.restarts = 0]
           g == [f EXCEPT !.next = 0]
<1>1. Registered(s, object, task, policy, used) = g
  BY DEF Registered
<1>2. a = [generation |-> s.generation, object |-> object, task |-> s.task, state |-> s.state,
           occupied |-> s.occupied, policy |-> s.policy, restarts |-> s.restarts, next |-> s.next]
  BY DEF SlotRecord
<1> HIDE DEF a
<1>3. b = [generation |-> s.generation, object |-> object, task |-> task, state |-> s.state,
           occupied |-> s.occupied, policy |-> s.policy, restarts |-> s.restarts, next |-> s.next]
  BY <1>2
<1> HIDE DEF b
<1>4. c = [generation |-> s.generation, object |-> object, task |-> task, state |-> "Running",
           occupied |-> s.occupied, policy |-> s.policy, restarts |-> s.restarts, next |-> s.next]
  BY <1>3
<1> HIDE DEF c
<1>5. d = [generation |-> s.generation, object |-> object, task |-> task, state |-> "Running",
           occupied |-> used, policy |-> s.policy, restarts |-> s.restarts, next |-> s.next]
  BY <1>4
<1> HIDE DEF d
<1>6. e = [generation |-> s.generation, object |-> object, task |-> task, state |-> "Running",
           occupied |-> used, policy |-> policy, restarts |-> s.restarts, next |-> s.next]
  BY <1>5
<1> HIDE DEF e
<1>7. f = [generation |-> s.generation, object |-> object, task |-> task, state |-> "Running",
           occupied |-> used, policy |-> policy, restarts |-> 0, next |-> s.next]
  BY <1>6
<1> HIDE DEF f
<1> QED BY <1>1, <1>7

\* retire_current
Stopped(s, state, tick) == [s EXCEPT !.task = NoTask, !.state = state, !.next = tick]
LEMMA StoppedIs ==
    ASSUME NEW s \in SlotRecord, NEW state, NEW tick
    PROVE  Stopped(s, state, tick) =
             [generation |-> s.generation, object |-> s.object, task |-> NoTask, state |-> state,
              occupied |-> s.occupied, policy |-> s.policy, restarts |-> s.restarts, next |-> tick]
<1> DEFINE a == [s EXCEPT !.task = NoTask]
           b == [a EXCEPT !.state = state]
           c == [b EXCEPT !.next = tick]
<1>1. Stopped(s, state, tick) = c
  BY DEF Stopped
<1>2. a = [generation |-> s.generation, object |-> s.object, task |-> NoTask, state |-> s.state,
           occupied |-> s.occupied, policy |-> s.policy, restarts |-> s.restarts, next |-> s.next]
  BY DEF SlotRecord
<1> HIDE DEF a
<1>3. b = [generation |-> s.generation, object |-> s.object, task |-> NoTask, state |-> state,
           occupied |-> s.occupied, policy |-> s.policy, restarts |-> s.restarts, next |-> s.next]
  BY <1>2
<1> HIDE DEF b
<1> QED BY <1>1, <1>3

\* restart_at
LEMMA RestartedIs ==
    ASSUME NEW s \in SlotRecord, NEW task
    PROVE  Restarted(s, task) =
             [generation |-> s.generation + 1, object |-> s.object, task |-> task,
              state |-> "Running", occupied |-> s.occupied, policy |-> s.policy,
              restarts |-> s.restarts + 1, next |-> s.next]
<1> DEFINE a == [s EXCEPT !.generation = @ + 1]
           b == [a EXCEPT !.task = task]
           c == [b EXCEPT !.state = "Running"]
           d == [c EXCEPT !.restarts = @ + 1]
<1>1. Restarted(s, task) = d
  BY DEF Restarted
<1>2. a = [generation |-> s.generation + 1, object |-> s.object, task |-> s.task, state |-> s.state,
           occupied |-> s.occupied, policy |-> s.policy, restarts |-> s.restarts, next |-> s.next]
  BY DEF SlotRecord
<1> HIDE DEF a
<1>3. b = [generation |-> s.generation + 1, object |-> s.object, task |-> task, state |-> s.state,
           occupied |-> s.occupied, policy |-> s.policy, restarts |-> s.restarts, next |-> s.next]
  BY <1>2
<1> HIDE DEF b
<1>4. c = [generation |-> s.generation + 1, object |-> s.object, task |-> task, state |-> "Running",
           occupied |-> s.occupied, policy |-> s.policy, restarts |-> s.restarts, next |-> s.next]
  BY <1>3
<1> HIDE DEF c
<1> QED BY <1>1, <1>4

-----------------------------------------------------------------------------
(***************************************************************************)
(* The runtime below                                                       *)
(***************************************************************************)
LEMMA ValidIsTask ==
    ASSUME NEW s, NEW task \in TaskId \cup {NoTask}, Valid(s, task)
    PROVE  task \in TaskId
BY SchedulerAssumption DEF Valid, NoTask, Slots

\* Scheduling keeps live tasks live.
LEMMA SameStaysValid ==
    ASSUME NEW s, NEW u, SameTasks(s, u), NEW task, Valid(s, task)
    PROVE  Valid(u, task)
BY DEF SameTasks, SameTask, Valid

\* What happens to one slot leaves the tasks of the others live.
LEMMA OtherStaysValid ==
    ASSUME NEW s, NEW u, NEW k, OnlySlot(s, u, k), NEW task, Valid(s, task), task.slot # k
    PROVE  Valid(u, task)
BY DEF OnlySlot, SameTask, Valid

\* create keeps the live tasks and adds one that was not.
LEMMA CreateBinds ==
    ASSUME NEW r, RuntimeInv(r, 1), CanCreateDomain(r), NEW page
    PROVE  LET u == CreateDomain(r, 1, page) IN
           /\ RuntimeInv(u, 1)
           /\ CreatedId(r.sched) \in TaskId
           /\ Valid(u.sched, CreatedId(r.sched)) /\ ~ Valid(r.sched, CreatedId(r.sched))
           /\ \A task : Valid(r.sched, task) => Valid(u.sched, task)
<1> DEFINE s == Create(r.sched, 1)
           id == CreatedId(r.sched)
<1>1. 1 \in Priority /\ SchedInv(r.sched) /\ CanCreate(r.sched)
  BY DEF Priority, RuntimeInv, CanCreateDomain
<1>2. /\ id \in TaskId /\ Valid(s, id) /\ ~ Valid(r.sched, id)
      /\ OnlySlot(r.sched, s, id.slot) /\ ~ r.sched.tasks[id.slot].occupied
  BY <1>1, CreateKeeps
<1>3. CreateDomain(r, 1, page).sched = s
  BY DEF CreateDomain
<1>4. RuntimeInv(CreateDomain(r, 1, page), 1)
  BY <1>1, CreateDomainInv
<1>5. ASSUME NEW task, Valid(r.sched, task) PROVE Valid(s, task)
  <2>1. task.slot # id.slot
    BY <1>2, <1>5 DEF Valid
  <2> QED BY <1>2, <1>5, <2>1, OtherStaysValid
<1> QED BY <1>2, <1>3, <1>4, <1>5

\* terminate_current keeps the other tasks live.
LEMMA TerminateUnbinds ==
    ASSUME NEW r, RuntimeInv(r, 1), r.sched.current # NoTask, HasDomain(r, r.sched.current)
    PROVE  /\ RuntimeInv(TerminateDomain(r), 1)
           /\ \A task \in TaskId : Valid(r.sched, task) /\ task # r.sched.current =>
                 Valid(TerminateDomain(r).sched, task)
<1> DEFINE s == TerminateCurrent(r.sched)
           id == r.sched.current
<1>1. SchedInv(r.sched) /\ IsRuntime(r)
  BY DEF RuntimeInv
<1>2. OnlySlot(r.sched, s, id.slot)
  BY <1>1, TerminateKeeps
<1>3. TerminateDomain(r).sched = s
  <2> DEFINE v == [r EXCEPT !.domains[DomainSlot(r, id)] = NoDomain]
             w == [v EXCEPT !.sched = TerminateCurrent(@)]
  <2>1. v.sched = r.sched /\ DOMAIN v = {"sched", "domains"}
    BY <1>1 DEF IsRuntime
  <2>2. TerminateDomain(r) = w
    BY DEF TerminateDomain
  <2> HIDE DEF v
  <2> QED BY <2>1, <2>2
<1>4. ASSUME NEW task \in TaskId, Valid(r.sched, task), task # id PROVE Valid(s, task)
  <2>1. Valid(r.sched, id) /\ id \in TaskId
    BY <1>1 DEF SchedInv, CurrentLive, SchedulerType
  <2>2. task.slot # id.slot
    BY <1>4, <2>1, SameSlot
  <2> QED BY <1>2, <1>4, <2>2, OtherStaysValid
<1>5. RuntimeInv(TerminateDomain(r), 1)
  BY TerminateDomainInv
<1> QED BY <1>3, <1>4, <1>5

-----------------------------------------------------------------------------
(***************************************************************************)
(* The invariant                                                           *)
(***************************************************************************)
LEMMA InitIInv ==
    ASSUME Init
    PROVE  IInv
<1>1. /\ rt = NewRuntime /\ slots = [i \in Services |-> EmptySlot] /\ now = 0
      /\ stoppedAt = [i \in Services |-> 0] /\ retired = {}
  BY DEF Init
<1>2. EmptySlot \in SlotRecord
  BY SomePolicy DEF EmptySlot, SlotRecord, ServiceState
<1>3. \A i \in Services : /\ ~ slots[i].occupied /\ slots[i].task = NoTask
                          /\ slots[i].generation = 1 /\ slots[i].restarts = 0
  BY <1>1 DEF EmptySlot
<1>4. Types
  BY <1>1, <1>2 DEF Types
<1>5. RuntimeInv(rt, 1)
  BY <1>1, NewRuntimeInv
<1> QED BY <1>1, <1>3, <1>4, <1>5 DEF IInv, TasksBound, Counted, Outdated, Armed, Running

\* The kernel creates a task: the services keep theirs.
LEMMA CreateStep ==
    ASSUME IInv, NEW page, CreateTask(page)
    PROVE  IInv'
<1>1. /\ RuntimeInv(rt', 1)
      /\ \A task : Valid(rt.sched, task) => Valid(rt'.sched, task)
  BY CreateBinds DEF IInv, CreateTask
<1>2. UNCHANGED <<slots, now, stoppedAt, retired>>
  BY DEF CreateTask
<1>3. TasksBound'
  BY <1>1, <1>2 DEF IInv, TasksBound, Running
<1> QED BY <1>1, <1>2, <1>3 DEF IInv, Types, Counted, Outdated, Armed, DueTick

\* A tick.
LEMMA TickStep ==
    ASSUME IInv, Tick
    PROVE  IInv'
<1>1. SchedInv(rt.sched) /\ RuntimeInv(rt, 1)
  BY DEF IInv, RuntimeInv
<1>2. SchedInv(TimerTick(rt.sched)) /\ SameTasks(rt.sched, TimerTick(rt.sched))
  BY <1>1, TickKeeps
<1>3. RuntimeInv(rt', 1) /\ rt'.sched = TimerTick(rt.sched)
  BY <1>1, <1>2, SchedOnly DEF Tick
<1>4. UNCHANGED <<slots, stoppedAt, retired>> /\ now' = now + 1
  BY DEF Tick
<1>5. TasksBound'
  BY <1>2, <1>3, <1>4, SameStaysValid DEF IInv, TasksBound, Running
<1>6. Types'
  BY <1>4 DEF IInv, Types
<1> QED BY <1>3, <1>4, <1>5, <1>6 DEF IInv, Counted, Outdated, Armed, DueTick

\* Registering binds a live task that no service has to a record never used.
LEMMA RegisterStep ==
    ASSUME IInv, NEW object \in Objects, NEW task \in LiveTasks, NEW policy \in Policies,
           Register(object, task, policy)
    PROVE  IInv'
<1> DEFINE free == {i \in Services : ~slots[i].occupied}
<1>2. BoundTo(task) = {} /\ free # {}
  BY DEF Register
<1>3. PICK k \in Services : k = Min(free) /\ ~ slots[k].occupied
  <2>1. free \subseteq Nat
    BY SupervisorAssumption DEF Services
  <2>2. Min(free) \in free
    BY <1>2, <2>1, MinIsIn
  <2> QED BY <2>2
<1> DEFINE s == Registered(slots[k], object, task, policy, TRUE)
<1>1. slots' = [slots EXCEPT ![k] = s] /\ UNCHANGED <<rt, now, stoppedAt, retired>>
  BY <1>3 DEF Register, Registered
<1>4. task \in TaskId /\ Valid(rt.sched, task)
  BY DEF LiveTasks, IInv, RuntimeInv, DomainsAreTasks, DomainInv, IsDomain
<1>5. slots \in [Services -> SlotRecord] /\ slots[k] \in SlotRecord
  BY <1>3 DEF IInv, Types
<1>6. s = [generation |-> slots[k].generation, object |-> object, task |-> task,
           state |-> "Running", occupied |-> TRUE, policy |-> policy, restarts |-> 0, next |-> 0]
  BY <1>5, RegisteredIs
<1> HIDE DEF s
<1>7. s \in SlotRecord
  BY <1>4, <1>5, <1>6, SomePolicy DEF SlotRecord, ServiceState
<1>8. /\ s.generation = slots[k].generation /\ s.task = task /\ s.state = "Running"
      /\ s.occupied /\ s.policy = policy /\ s.restarts = 0
  BY <1>6
<1>9. slots'[k] = s /\ \A i \in Services : i # k => slots'[i] = slots[i]
  BY <1>1, <1>3, <1>5
<1>10. Types' /\ RuntimeInv(rt', 1)
  BY <1>1, <1>5, <1>7 DEF IInv, Types
<1>11. TasksBound'
  <2>1. \A i \in Services : Running(i) => slots[i].task # task
    BY <1>2 DEF BoundTo, Running
  <2>2. \A i \in Services : i # k => (Running(i)' <=> Running(i))
    BY <1>9 DEF Running
  <2>3. Running(k)'
    BY <1>3, <1>8, <1>9 DEF Running
  <2>4. \A i \in Services : IF Running(i)' THEN Valid(rt'.sched, slots'[i].task)
                                           ELSE slots'[i].task = NoTask
    BY <1>1, <1>4, <1>8, <1>9, <2>2, <2>3 DEF IInv, TasksBound
  <2>5. ASSUME NEW i \in Services, NEW j \in Services, Running(i)', Running(j)',
               slots'[i].task = slots'[j].task
        PROVE  i = j
    <3>1. CASE i = k \/ j = k
      BY <1>8, <1>9, <2>1, <2>2, <2>5, <3>1
    <3>2. CASE i # k /\ j # k
      BY <1>9, <2>2, <2>5, <3>2 DEF IInv, TasksBound
    <3> QED BY <3>1, <3>2
  <2> QED BY <2>4, <2>5 DEF TasksBound
<1>12. Counted'
  <2>1. policy.maximum \in Nat
    BY SomePolicy DEF RestartPolicy
  <2>2. /\ s.generation = 1 + s.restarts /\ s.occupied /\ s.restarts <= s.policy.maximum
    BY <1>3, <1>8, <2>1 DEF IInv, Counted
  <2> QED BY <1>9, <2>2 DEF IInv, Counted
<1>13. Outdated'
  BY <1>1, <1>3, <1>9 DEF IInv, Outdated
<1>14. Armed'
  BY <1>1, <1>8, <1>9 DEF IInv, Armed, DueTick
<1> QED BY <1>10, <1>11, <1>12, <1>13, <1>14 DEF IInv

\* The current task is retired with the one service that is bound to it.
LEMMA RetireStep ==
    ASSUME IInv, NEW state \in {"Exited", "Faulted"}, RetireCurrent(state)
    PROVE  IInv'
<1>1. /\ Current # NoTask /\ BoundTo(Current) # {} /\ HasDomain(rt, Current)
      /\ Retire(Min(BoundTo(Current)), state)
  BY DEF RetireCurrent
<1>2. PICK k \in Services : k = Min(BoundTo(Current)) /\ Running(k) /\ slots[k].task = Current
  <2>1. BoundTo(Current) \subseteq Nat
    BY SupervisorAssumption DEF BoundTo, Services
  <2>2. Min(BoundTo(Current)) \in BoundTo(Current)
    BY <1>1, <2>1, MinIsIn
  <2> QED BY <2>2 DEF BoundTo, Running
<1> DEFINE tick == ArmedTick(slots[k])
           s == Stopped(slots[k], state, tick)
<1>3. /\ rt' = TerminateDomain(rt) /\ slots' = [slots EXCEPT ![k] = s]
      /\ stoppedAt' = [stoppedAt EXCEPT ![k] = now]
      /\ retired' = retired \cup {ServiceIdOf(k)} /\ now' = now
  BY <1>1, <1>2 DEF Retire, Stopped
<1>4. /\ RuntimeInv(rt', 1)
      /\ \A task \in TaskId : Valid(rt.sched, task) /\ task # Current => Valid(rt'.sched, task)
  BY <1>1, <1>3, TerminateUnbinds DEF IInv, Current
<1>5. /\ slots \in [Services -> SlotRecord] /\ slots[k] \in SlotRecord
      /\ stoppedAt \in [Services -> Nat] /\ now \in Nat
  BY DEF IInv, Types
<1>6. slots[k].policy \in RestartPolicy /\ slots[k].restarts \in Nat /\ slots[k].next \in Int
  BY <1>5 DEF SlotRecord
<1>7. Delay(slots[k].policy, slots[k].restarts) \in Int /\ MaxTick \in Int
  BY <1>6, DelayIsInt, SupervisorAssumption
<1>8. tick \in Int
  BY <1>5, <1>6, <1>7 DEF ArmedTick
<1>9. s = [generation |-> slots[k].generation, object |-> slots[k].object, task |-> NoTask,
           state |-> state, occupied |-> slots[k].occupied, policy |-> slots[k].policy,
           restarts |-> slots[k].restarts, next |-> tick]
  BY <1>5, StoppedIs
<1> HIDE DEF s
<1>10. /\ s.generation = slots[k].generation /\ s.task = NoTask /\ s.state = state
       /\ s.occupied = slots[k].occupied /\ s.policy = slots[k].policy
       /\ s.restarts = slots[k].restarts /\ s.next = tick
  BY <1>9
<1>11. s \in SlotRecord
  <2> HIDE DEF tick
  <2> QED BY <1>5, <1>8, <1>9 DEF SlotRecord, ServiceState
<1>12. /\ slots'[k] = s /\ stoppedAt'[k] = now
       /\ \A i \in Services : i # k => slots'[i] = slots[i] /\ stoppedAt'[i] = stoppedAt[i]
  BY <1>3, <1>5
<1>13. Types'
  BY <1>3, <1>5, <1>11 DEF Types
<1>14. TasksBound'
  <2>1. ~ Running(k)' /\ slots'[k].task = NoTask
    BY <1>10, <1>12 DEF Running
  <2>2. ASSUME NEW i \in Services, i # k PROVE Running(i)' <=> Running(i)
    BY <1>12, <2>2 DEF Running
  <2>3. ASSUME NEW i \in Services, Running(i)'
        PROVE  i # k /\ Running(i) /\ slots'[i].task = slots[i].task
    BY <1>12, <2>1, <2>2, <2>3
  <2>4. ASSUME NEW i \in Services, Running(i)' PROVE Valid(rt'.sched, slots'[i].task)
    <3>1. slots[i].task \in TaskId \cup {NoTask} /\ Valid(rt.sched, slots[i].task)
      BY <1>5, <2>3, <2>4 DEF SlotRecord, IInv, TasksBound
    <3>2. slots[i].task \in TaskId
      BY <3>1, ValidIsTask
    <3>3. slots[i].task # Current
      BY <1>2, <2>3, <2>4 DEF IInv, TasksBound
    <3> QED BY <1>4, <2>3, <2>4, <3>1, <3>2, <3>3
  <2>5. ASSUME NEW i \in Services, ~ Running(i)' PROVE slots'[i].task = NoTask
    BY <1>12, <2>1, <2>2, <2>5 DEF IInv, TasksBound
  <2>6. ASSUME NEW i \in Services, NEW j \in Services, Running(i)', Running(j)',
               slots'[i].task = slots'[j].task
        PROVE  i = j
    BY <2>3, <2>6 DEF IInv, TasksBound
  <2> QED BY <2>4, <2>5, <2>6 DEF TasksBound
<1>15. Counted'
  BY <1>10, <1>12 DEF IInv, Counted
<1>16. Outdated'
  <2>1. ServiceIdOf(k) = [slot |-> k, generation |-> slots[k].generation]
    BY DEF ServiceIdOf
  <2>2. slots[k].generation \in Nat /\ slots[k].occupied /\ s.state # "Running"
    BY <1>2, <1>5, <1>10 DEF SlotRecord, Running
  <2>3. ASSUME NEW id \in retired'
        PROVE  /\ id \in [slot : Services, generation : Nat] /\ slots'[id.slot].occupied
               /\ \/ id.generation < slots'[id.slot].generation
                  \/ /\ id.generation = slots'[id.slot].generation
                     /\ slots'[id.slot].state # "Running"
    <3>1. CASE id = ServiceIdOf(k)
      <4>1. id.slot = k /\ id.generation = slots[k].generation
        BY <2>1, <3>1
      <4>2. id \in [slot : Services, generation : Nat]
        BY <2>1, <2>2, <3>1
      <4>3. slots'[id.slot] = s /\ s.occupied /\ id.generation = s.generation
        BY <1>10, <1>12, <2>2, <4>1
      <4> QED BY <2>2, <4>2, <4>3
    <3>2. CASE id \in retired
      <4>1. /\ id \in [slot : Services, generation : Nat] /\ slots[id.slot].occupied
            /\ \/ id.generation < slots[id.slot].generation
               \/ /\ id.generation = slots[id.slot].generation
                  /\ slots[id.slot].state # "Running"
        BY <3>2 DEF IInv, Outdated
      <4>2. CASE id.slot = k
        <5>1. slots'[id.slot] = s /\ s.occupied
          BY <1>10, <1>12, <2>2, <4>2
        <5>2. id.generation < s.generation \/ id.generation = s.generation
          BY <1>10, <4>1, <4>2
        <5> QED BY <2>2, <4>1, <5>1, <5>2
      <4>3. CASE id.slot # k
        BY <1>12, <4>1, <4>3
      <4> QED BY <4>2, <4>3
    <3> QED BY <1>3, <3>1, <3>2
  <2> QED BY <2>3 DEF Outdated
<1>17. Armed'
  <2>1. ASSUME NEW i \in Services, slots'[i].occupied, slots'[i].state # "Running"
        PROVE  \/ slots'[i].restarts >= slots'[i].policy.maximum
               \/ DueTick(i)' > MaxTick
               \/ slots'[i].next = DueTick(i)'
    <3>1. CASE i = k
      <4>1. DueTick(i)' = now + Delay(slots[k].policy, slots[k].restarts)
        BY <1>10, <1>12, <3>1 DEF DueTick
      <4>2. \/ slots[k].restarts >= slots[k].policy.maximum
            \/ now + Delay(slots[k].policy, slots[k].restarts) > MaxTick
            \/ tick = now + Delay(slots[k].policy, slots[k].restarts)
        BY DEF ArmedTick
      <4> HIDE DEF tick
      <4> QED BY <1>10, <1>12, <3>1, <4>1, <4>2
    <3>2. CASE i # k
      BY <1>12, <2>1, <3>2 DEF IInv, Armed, DueTick
    <3> QED BY <3>1, <3>2
  <2> QED BY <2>1 DEF Armed
<1> QED BY <1>4, <1>13, <1>14, <1>15, <1>16, <1>17 DEF IInv

\* A restart binds a task that is new to a service that stopped, under the next
\* generation.
LEMMA RestartStep ==
    ASSUME IInv, NEW id \in ServiceId, NEW object, NEW page, Restart(id, object, page)
    PROVE  IInv'
<1> DEFINE k == id.slot
           task == CreatedId(rt.sched)
           s == Restarted(slots[k], task)
<1>1. /\ k \in Services /\ slots[k].occupied /\ slots[k].state # "Running"
      /\ slots[k].restarts < slots[k].policy.maximum /\ CanCreateDomain(rt)
      /\ rt' = CreateDomain(rt, 1, page) /\ slots' = [slots EXCEPT ![k] = s]
      /\ UNCHANGED <<now, stoppedAt, retired>>
  BY DEF Restart, ServiceId, ValidService, MayRestart
<1>2. /\ RuntimeInv(rt', 1) /\ task \in TaskId
      /\ Valid(rt'.sched, task) /\ ~ Valid(rt.sched, task)
      /\ \A x : Valid(rt.sched, x) => Valid(rt'.sched, x)
  BY <1>1, CreateBinds DEF IInv
<1>3. slots \in [Services -> SlotRecord] /\ slots[k] \in SlotRecord
  BY <1>1 DEF IInv, Types
<1>4. s = [generation |-> slots[k].generation + 1, object |-> slots[k].object, task |-> task,
           state |-> "Running", occupied |-> slots[k].occupied, policy |-> slots[k].policy,
           restarts |-> slots[k].restarts + 1, next |-> slots[k].next]
  BY <1>3, RestartedIs
<1>5. PICK fresh \in TaskId : fresh = task
  BY <1>2
<1> HIDE DEF s, task
<1>6. /\ s.generation = slots[k].generation + 1 /\ s.task = fresh /\ s.state = "Running"
      /\ s.occupied = slots[k].occupied /\ s.policy = slots[k].policy
      /\ s.restarts = slots[k].restarts + 1
  BY <1>4, <1>5
<1>7. /\ slots[k].generation \in Nat /\ slots[k].restarts \in Nat
      /\ slots[k].policy.maximum \in Nat
  BY <1>3 DEF SlotRecord, RestartPolicy
<1>8. s \in SlotRecord
  BY <1>3, <1>4, <1>5, <1>7 DEF SlotRecord, ServiceState
<1>9. slots'[k] = s /\ \A i \in Services : i # k => slots'[i] = slots[i]
  BY <1>1, <1>3
<1>10. Types'
  BY <1>1, <1>3, <1>8 DEF IInv, Types
<1>11. TasksBound'
  <2>1. Running(k)' /\ slots'[k].task = fresh
    BY <1>1, <1>6, <1>9 DEF Running
  <2>2. ASSUME NEW i \in Services, i # k PROVE Running(i)' <=> Running(i)
    BY <1>9, <2>2 DEF Running
  <2>3. \A i \in Services : Running(i) => slots[i].task # fresh
    BY <1>2, <1>5 DEF IInv, TasksBound
  <2>4. ASSUME NEW i \in Services PROVE IF Running(i)' THEN Valid(rt'.sched, slots'[i].task)
                                                     ELSE slots'[i].task = NoTask
    <3>1. CASE i = k
      BY <1>2, <1>5, <2>1, <3>1
    <3>2. CASE i # k
      BY <1>2, <1>9, <2>2, <3>2 DEF IInv, TasksBound
    <3> QED BY <3>1, <3>2
  <2>5. ASSUME NEW i \in Services, NEW j \in Services, Running(i)', Running(j)',
               slots'[i].task = slots'[j].task
        PROVE  i = j
    <3>1. CASE i = k \/ j = k
      BY <1>9, <2>1, <2>2, <2>3, <2>5, <3>1
    <3>2. CASE i # k /\ j # k
      BY <1>9, <2>2, <2>5, <3>2 DEF IInv, TasksBound
    <3> QED BY <3>1, <3>2
  <2> QED BY <2>4, <2>5 DEF TasksBound
<1>12. Counted'
  <2>1. /\ s.generation = 1 + s.restarts /\ s.occupied /\ s.restarts <= s.policy.maximum
    BY <1>1, <1>6, <1>7 DEF IInv, Counted
  <2> QED BY <1>9, <2>1 DEF IInv, Counted
<1>13. Outdated'
  <2> SUFFICES ASSUME NEW old \in retired
               PROVE  /\ old \in [slot : Services, generation : Nat]
                      /\ slots'[old.slot].occupied
                      /\ \/ old.generation < slots'[old.slot].generation
                         \/ /\ old.generation = slots'[old.slot].generation
                            /\ slots'[old.slot].state # "Running"
    BY <1>1 DEF Outdated
  <2>1. /\ old \in [slot : Services, generation : Nat] /\ slots[old.slot].occupied
        /\ \/ old.generation < slots[old.slot].generation
           \/ old.generation = slots[old.slot].generation /\ slots[old.slot].state # "Running"
    BY DEF IInv, Outdated
  <2>2. CASE old.slot = k
    <3>1. old.generation < slots[k].generation + 1
      BY <1>7, <2>1, <2>2
    <3>2. slots'[old.slot] = s /\ s.occupied
      BY <1>1, <1>6, <1>9, <2>2
    <3> QED BY <1>6, <2>1, <3>1, <3>2
  <2>3. CASE old.slot # k
    BY <1>9, <2>1, <2>3
  <2> QED BY <2>2, <2>3
<1>14. Armed'
  BY <1>1, <1>6, <1>9 DEF IInv, Armed, DueTick
<1> QED BY <1>2, <1>10, <1>11, <1>12, <1>13, <1>14 DEF IInv

\* Every action keeps the invariant.
LEMMA NextIInv ==
    ASSUME IInv, [Next]_vars
    PROVE  IInv'
<1>1. CASE ExitCurrent \/ FaultCurrent
  BY <1>1, RetireStep DEF ExitCurrent, FaultCurrent
<1>2. CASE UNCHANGED vars
  BY <1>2 DEF vars, IInv, Types, TasksBound, Running, Counted, Outdated, Armed, DueTick
<1> QED BY <1>1, <1>2, CreateStep, RegisterStep, TickStep, RestartStep DEF Next

\* The invariant holds in every reachable state.
LEMMA Always == Spec => []IInv
BY InitIInv, NextIInv, PTL DEF Spec

-----------------------------------------------------------------------------
\* A service that runs has a live task with its domain, and no other service
\* has it; a service that stopped has none.
THEOREM RunningIsLive == Spec => []RunningMeansLive
<1>1. ASSUME IInv PROVE RunningMeansLive
  <2> SUFFICES ASSUME NEW i \in Services
               PROVE  IF slots[i].occupied /\ slots[i].state = "Running"
                      THEN /\ Valid(rt.sched, slots[i].task)
                           /\ HasDomain(rt, slots[i].task)
                           /\ BoundTo(slots[i].task) = {i}
                      ELSE slots[i].task = NoTask
    BY DEF RunningMeansLive
  <2>1. CASE ~ Running(i)
    BY <1>1, <2>1 DEF Running, IInv, TasksBound
  <2>2. CASE Running(i)
    <3>1. Valid(rt.sched, slots[i].task) /\ slots[i].task \in TaskId \cup {NoTask}
      BY <1>1, <2>2 DEF IInv, TasksBound, Types, SlotRecord
    <3>2. slots[i].task \in TaskId
      BY <3>1, ValidIsTask
    <3>3. /\ slots[i].task.slot \in OccupiedSlots(rt.sched)
          /\ IdOf(rt.sched, slots[i].task.slot) = slots[i].task
      BY <3>1, <3>2 DEF OccupiedSlots, IdOf, Valid, TaskId
    <3>4. HasDomain(rt, slots[i].task)
      BY <1>1, <3>3 DEF IInv, RuntimeInv, DomainsAreTasks
    <3>5. BoundTo(slots[i].task) = {i}
      BY <1>1, <2>2 DEF BoundTo, Running, IInv, TasksBound
    <3> QED BY <2>2, <3>1, <3>4, <3>5 DEF Running
  <2> QED BY <2>1, <2>2
<1> QED BY <1>1, Always, PTL

\* The identity of an instance that exited or faulted names no running service
\* ever again.
THEOREM RetiredIsStopped == Spec => []RetiredStaysStopped
<1>1. ASSUME IInv PROVE RetiredStaysStopped
  <2> SUFFICES ASSUME NEW id \in retired, ValidService(id) PROVE slots[id.slot].state # "Running"
    BY DEF RetiredStaysStopped
  <2>1. /\ id.generation \in Nat
        /\ \/ id.generation < slots[id.slot].generation
           \/ slots[id.slot].state # "Running"
    BY <1>1 DEF IInv, Outdated
  <2>2. slots[id.slot].generation = id.generation
    BY DEF ValidService
  <2> QED BY <2>1, <2>2
<1> QED BY <1>1, Always, PTL

\* A record is restarted at most as often as its policy allows, over all the
\* instances it had.
THEOREM RestartsAreBounded == Spec => []RestartBudget
<1>1. ASSUME IInv PROVE RestartBudget
  <2> SUFFICES ASSUME NEW i \in Services, slots[i].occupied
               PROVE  slots[i].generation <= 1 + slots[i].policy.maximum
    BY DEF RestartBudget
  <2>1. slots[i].restarts \in Nat /\ slots[i].policy.maximum \in Nat
    BY <1>1 DEF IInv, Types, SlotRecord, RestartPolicy
  <2>2. slots[i].generation = 1 + slots[i].restarts /\ slots[i].restarts <= slots[i].policy.maximum
    BY <1>1 DEF IInv, Counted
  <2> QED BY <2>1, <2>2
<1> QED BY <1>1, Always, PTL

\* restart_at refuses a service whose backoff is not over.
THEOREM BackoffIsKept == Spec => []BackoffKept
<1>1. ASSUME IInv PROVE BackoffKept
  <2> SUFFICES ASSUME NEW i \in Services, slots[i].occupied, MayRestart(i), DueTick(i) <= MaxTick
               PROVE  now >= DueTick(i)
    BY DEF BackoffKept
  <2>1. /\ slots[i].policy \in RestartPolicy /\ slots[i].restarts \in Nat
        /\ slots[i].policy.maximum \in Nat /\ stoppedAt[i] \in Nat
    BY <1>1 DEF IInv, Types, SlotRecord, RestartPolicy
  <2>2. DueTick(i) \in Int /\ MaxTick \in Int
    BY <2>1, DelayIsInt, SupervisorAssumption DEF DueTick
  <2>3. /\ slots[i].state # "Running" /\ slots[i].restarts < slots[i].policy.maximum
        /\ now >= slots[i].next
    BY DEF MayRestart
  <2>4. \/ slots[i].restarts >= slots[i].policy.maximum
        \/ DueTick(i) > MaxTick
        \/ slots[i].next = DueTick(i)
    BY <1>1, <2>3 DEF IInv, Armed
  <2> QED BY <2>1, <2>2, <2>3, <2>4
<1> QED BY <1>1, Always, PTL
=============================================================================
