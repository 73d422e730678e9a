-------------------------- MODULE KernelScheduler --------------------------
(***************************************************************************)
(* The KernelSchedulers of a set of processors, driven by the calls the    *)
(* kernel makes: timer ticks, yields, blocking, termination, wakeups, and  *)
(* tasks moved between processors directly (migrate_to, rebalance_to) or   *)
(* as tickets (detach, attach).  A call that returns an error leaves the   *)
(* scheduler as it was, so it is a stuttering step and has no action.      *)
(***************************************************************************)
EXTENDS Scheduler

CONSTANTS Cpus,        \* the processors
          Priorities,  \* the priorities that are given to new tasks
          MaxLive      \* bound: tasks that exist at a time

ASSUME PrioritiesAssumption == Priorities \subseteq Priority

VARIABLES sched,    \* sched[c]: the scheduler of processor c
          transit,  \* the detached tasks, each with the processor it left
          retired,  \* retired[c]: history: the ids of c that stopped being valid
          live      \* history: tasks created and not yet terminated

vars == <<sched, transit, retired, live>>

Ids(c) == {IdOf(sched[c], i) : i \in OccupiedSlots(sched[c])}

TypeOK == /\ sched \in [Cpus -> SchedulerType]
          /\ transit \subseteq [cpu : Cpus, task : DetachedTask]
          /\ retired \in [Cpus -> SUBSET TaskId]
          /\ live \in Int

Init == /\ sched = [c \in Cpus |-> NewScheduler]
        /\ transit = {}
        /\ retired = [c \in Cpus |-> {}]
        /\ live = 0

-----------------------------------------------------------------------------
CreateTask(c, priority) ==
    /\ live < MaxLive
    /\ CanCreate(sched[c])
    /\ sched' = [sched EXCEPT ![c] = Create(@, priority)]
    /\ live' = live + 1
    /\ UNCHANGED transit

StartCpu(c) ==
    /\ sched' = [sched EXCEPT ![c] = Start(@)]
    /\ UNCHANGED <<transit, live>>

Tick(c) ==
    /\ sched' = [sched EXCEPT ![c] = TimerTick(@)]
    /\ UNCHANGED <<transit, live>>

Yield(c) ==
    /\ sched[c].current # NoTask
    /\ sched' = [sched EXCEPT ![c] = YieldCurrent(@)]
    /\ UNCHANGED <<transit, live>>

Block(c) ==
    /\ sched[c].current # NoTask
    /\ sched' = [sched EXCEPT ![c] = BlockCurrent(@)]
    /\ UNCHANGED <<transit, live>>

Terminate(c) ==
    /\ sched[c].current # NoTask
    /\ sched' = [sched EXCEPT ![c] = TerminateCurrent(@)]
    /\ live' = live - 1
    /\ UNCHANGED transit

\* Called by deliver_ipc only: the running task sends to another one, which
\* may be blocked or runnable.
WakeTask(c, id) ==
    /\ sched[c].current # NoTask
    /\ id # sched[c].current
    /\ Valid(sched[c], id)
    /\ sched' = [sched EXCEPT ![c] = Wake(@, id)]
    /\ UNCHANGED <<transit, live>>

\* Mutant of MigrateTo: the current task may be moved away.
MutMigrateCurrent(c, d, id) ==
    /\ Valid(sched[c], id)
    /\ CanCreate(sched[d])
    /\ sched' = [sched EXCEPT ![c] = Remove(@, id),
                              ![d] = Attach(@, TicketOf(sched[c], id))]
    /\ UNCHANGED <<transit, live>>

\* Mutant of MigrateTo: the source identity is not retired.
MutMigrateCopies(c, d, id) ==
    /\ id # sched[c].current
    /\ Valid(sched[c], id)
    /\ CanCreate(sched[d])
    /\ sched' = [sched EXCEPT ![d] = Attach(@, TicketOf(sched[c], id))]
    /\ UNCHANGED <<transit, live>>

MigrateTo(c, d, id) ==
    /\ id # sched[c].current
    /\ Valid(sched[c], id)
    /\ CanCreate(sched[d])
    /\ sched' = [sched EXCEPT ![c] = Remove(@, id),
                              ![d] = Attach(@, TicketOf(sched[c], id))]
    /\ UNCHANGED <<transit, live>>

RebalanceTo(c, d) ==
    /\ Load(sched[c]).runnable > Load(sched[d]).runnable + 1
    /\ MigrationCandidates(sched[c]) # {}
    /\ MigrateTo(c, d, CandidateId(sched[c]))

DetachTask(c, id) ==
    /\ CanDetach(sched[c], id)
    /\ transit' = transit \cup {[cpu |-> c, task |-> TicketOf(sched[c], id)]}
    /\ sched' = [sched EXCEPT ![c] = Detach(@, id)]
    /\ UNCHANGED live

\* The load is the snapshot another processor of the same capacity published
\* some time ago: any load at all.
DetachForRebalance(c, load) ==
    /\ WorthMoving(sched[c], load, TASKS)
    /\ MigrationCandidates(sched[c]) # {}
    /\ DetachTask(c, CandidateId(sched[c]))

AttachTask(c, ticket) ==
    /\ CanCreate(sched[c])
    /\ sched' = [sched EXCEPT ![c] = Attach(@, ticket.task)]
    /\ transit' = transit \ {ticket}
    /\ UNCHANGED live

Loads == {load \in [occupied : 0 .. TASKS, runnable : 0 .. TASKS] :
             load.runnable <= load.occupied}

\* The calls that make a task runnable with a fresh budget.
Admit == \/ \E c \in Cpus, priority \in Priorities : CreateTask(c, priority)
         \/ \E c \in Cpus, ticket \in transit : AttachTask(c, ticket)
         \/ \E c, d \in Cpus : c # d /\ \E id \in Ids(c) : MigrateTo(c, d, id)
         \/ \E c, d \in Cpus : c # d /\ RebalanceTo(c, d)

Awaken == \E c \in Cpus : \E id \in Ids(c) : WakeTask(c, id)

Leave == \/ \E c \in Cpus : \E id \in Ids(c) : DetachTask(c, id)
         \/ \E c \in Cpus, load \in Loads : DetachForRebalance(c, load)

Run(c) == StartCpu(c) \/ Tick(c) \/ Yield(c) \/ Block(c) \/ Terminate(c)

Next == /\ Admit \/ Awaken \/ Leave \/ \E c \in Cpus : Run(c)
        /\ retired' = [c \in Cpus |-> retired[c] \cup (Ids(c) \ Ids(c)')]

\* The local APIC timer keeps firing.  Nothing makes a task yield, block, exit
\* or wake another.
Timers == \A c \in Cpus : WF_vars(Tick(c) /\ retired' = retired)

Spec == Init /\ [][Next]_vars /\ Timers

-----------------------------------------------------------------------------
(***************************************************************************)
(* Properties                                                              *)
(***************************************************************************)
\* Whatever sequence of exits, faults, wakeups and migrations led here, the
\* current task of a processor is one of its live, runnable tasks: "exceptions
\* can revoke it without leaving a stale identity resumable".
CurrentIsRunnable ==
    \A c \in Cpus : LET s == sched[c] IN
        s.current # NoTask => /\ Valid(s, s.current)
                              /\ s.tasks[s.current.slot].state = "Runnable"

\* An identity that was removed never names a task again, also when the
\* generation counter of its slot reaches its limit (checked_add(1).unwrap_or(0)
\* retires the slot instead of wrapping).
StaleNeverRevives == \A c \in Cpus : retired[c] \cap Ids(c) = {}

\* Migration neither loses nor duplicates work: every created task that was not
\* terminated is on exactly one processor or in exactly one ticket.
TasksConserved ==
    live = Cardinality(transit) + Cardinality(UNION {{<<c, id>> : id \in Ids(c)} : c \in Cpus})

\* The budget a task has left never exceeds the weight of its priority: wakes
\* (set_state), refills of a round and moves to another processor, in any order,
\* do not add up.  This bounds a task's turns up to its next refill only; how
\* often it is refilled is QuiescentFairness and NoStarvation.
BudgetWithinWeight ==
    \A c \in Cpus : \A i \in OccupiedSlots(sched[c]) :
        sched[c].tasks[i].budget <= Budget(sched[c].tasks[i].priority)

\* While the timer fires, a processor with a runnable task does not stay idle,
\* whoever made the task runnable: an attach and a wake do not select.
WorkConserving ==
    \A c \in Cpus : (RunnableSlots(sched[c]) # {}) ~>
        (sched[c].current # NoTask \/ RunnableSlots(sched[c]) = {})

Waiting(c, id) == /\ Valid(sched[c], id)
                  /\ sched[c].tasks[id.slot].state = "Runnable"
                  /\ sched[c].current # id

\* A runnable task while one of a higher priority is runnable too.
Outranked(c, id) == /\ Waiting(c, id)
                    /\ \E i \in RunnableSlots(sched[c]) :
                          sched[c].tasks[i].priority > sched[c].tasks[id.slot].priority

\* "Priorities affect CPU share but cannot completely starve a lower-priority
\* runnable task": while the timer fires, such a task is run in the end.
NoStarvation == \A c \in Cpus, id \in TaskId : Outranked(c, id) ~> ~Outranked(c, id)

\* What does hold: once no task is admitted or woken any more, the weighted
\* round robin reaches every runnable task, whatever the others' priorities.
QuiescentFairness ==
    <>[][~(Admit \/ Awaken)]_vars =>
        \A c \in Cpus, id \in TaskId : Waiting(c, id) ~> ~Waiting(c, id)
=============================================================================
