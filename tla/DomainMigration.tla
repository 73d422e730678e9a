-------------------------- MODULE DomainMigration --------------------------
(***************************************************************************)
(* The processors of one machine balance their load: each has a            *)
(* TaskRuntime, a PeriodicDomainBalancer that is polled by its timer, and  *)
(* an OwnershipMailbox into which the others publish complete task         *)
(* domains; a reschedule request (AP_RESCHEDULE_REQUEST and an IPI) makes  *)
(* the destination take and admit what it was sent                         *)
(* (mrml-kernel/src/task_runtime.rs, mrml-kernel-image/src/main.rs).       *)
(*                                                                         *)
(* A mailbox is the one-ticket slot of OwnershipSlot, which                *)
(* OwnershipMailbox implements.  The policy's deadline is kept as the      *)
(* number of ticks until it: PeriodicBalancer has the tick arithmetic.     *)
(***************************************************************************)
EXTENDS Runtime, Balance

CONSTANT Creators  \* the processors on which tasks are created

ASSUME MigrationAssumption == CAPACITY = TASKS /\ Creators \subseteq Cpus

VARIABLES rt,         \* rt[c]: the TaskRuntime of processor c
          mailbox,    \* mailbox[c]: the ticket published for c, or NoTicket
          pending,    \* pending[c]: the ticket c's balancer could not publish
          target,     \* target[c]: the processor the pending ticket is for
          hand,       \* hand[c]: the ticket c took and has not admitted yet
          published,  \* published[c]: AP_SCHEDULER_LOAD, the load others see
          request,    \* request[c]: AP_RESCHEDULE_REQUEST
          notify,     \* notify[c]: the processor c must still request, or c
          serving,    \* serving[c]: c's handler consumed the request and will take
          wait,       \* wait[c]: ticks until the policy's next_tick
          cursor,     \* cursor[c]: the policy's cursor
          live        \* history: the domains created and not terminated

balancing == <<pending, target, wait, cursor>>
signals == <<published, request, notify, serving>>
vars == <<rt, mailbox, hand, live, balancing, signals>>

Ticket == [scheduling : DetachedTask, domain : Domain]

\* The None of an Option<DetachedTaskDomain>: there is no domain in it.
NoTicket == [domain |-> [page |-> NoPage]]

TypeOK == /\ rt \in [Cpus -> RuntimeType]
          /\ mailbox \in [Cpus -> Ticket \cup {NoTicket}]
          /\ pending \in [Cpus -> Ticket \cup {NoTicket}]
          /\ target \in [Cpus -> Cpus]
          /\ hand \in [Cpus -> Ticket \cup {NoTicket}]
          /\ published \in [Cpus -> LoadType]
          /\ request \in [Cpus -> BOOLEAN]
          /\ notify \in [Cpus -> Cpus]
          /\ serving \in [Cpus -> BOOLEAN]
          /\ wait \in [Cpus -> 0 .. Interval]
          /\ cursor \in [Cpus -> Cpus]
          /\ live \subseteq Pages

Init == /\ rt = [c \in Cpus |-> NewRuntime]
        /\ mailbox = [c \in Cpus |-> NoTicket]
        /\ pending = [c \in Cpus |-> NoTicket]
        /\ target = [c \in Cpus |-> c]
        /\ hand = [c \in Cpus |-> NoTicket]
        /\ published = [c \in Cpus |-> [occupied |-> 0, runnable |-> 0]]
        /\ request = [c \in Cpus |-> FALSE]
        /\ notify = [c \in Cpus |-> c]
        /\ serving = [c \in Cpus |-> FALSE]
        /\ wait = [c \in Cpus |-> Interval]
        /\ cursor = [c \in Cpus |-> 0]
        /\ live = {}

\* Processor c is in none of the handlers below.
Idle(c) == notify[c] = c /\ ~serving[c]

-----------------------------------------------------------------------------
(***************************************************************************)
(* The tasks: created, running, waiting, gone.                             *)
(***************************************************************************)
CreateTask(c, page) ==
    /\ c \in Creators
    /\ Idle(c)
    /\ CanCreateDomain(rt[c])
    /\ page \notin live
    /\ rt' = [rt EXCEPT ![c] = CreateDomain(@, 0, page)]
    /\ live' = live \cup {page}
    /\ UNCHANGED <<mailbox, hand, balancing, signals>>

ReceiveCall(c) ==
    /\ Idle(c)
    /\ rt[c].sched.current # NoTask
    /\ rt' = [rt EXCEPT ![c] = ReceiveOrBlock(@)]
    /\ UNCHANGED <<mailbox, hand, live, balancing, signals>>

TerminateCall(c) ==
    /\ Idle(c)
    /\ rt[c].sched.current # NoTask
    /\ live' = live \ {DomainOf(rt[c], rt[c].sched.current).page}
    /\ rt' = [rt EXCEPT ![c] = TerminateDomain(@)]
    /\ UNCHANGED <<mailbox, hand, balancing, signals>>

\* A processor publishes its load; until then the others use an old one.
PublishLoad(c) ==
    /\ Idle(c)
    /\ published' = [published EXCEPT ![c] = Load(rt[c].sched)]
    /\ UNCHANGED <<rt, mailbox, hand, live, balancing, request, notify, serving>>

-----------------------------------------------------------------------------
(***************************************************************************)
(* timer_tick_and_publish.  The tick is accounted first; then a pending    *)
(* ticket is retried, or else the policy is polled and may detach one.     *)
(***************************************************************************)
\* Mutant of PublishOrKeep: a full mailbox is overwritten.
MutPublishOver(c, d, ticket) ==
    /\ mailbox' = [mailbox EXCEPT ![d] = ticket]
    /\ pending' = [pending EXCEPT ![c] = NoTicket]
    /\ target' = [target EXCEPT ![c] = c]
    /\ notify' = [notify EXCEPT ![c] = d]

\* publish of a ticket of c into d's mailbox: it succeeds, and the caller must
\* signal d, or the ticket is kept as pending.
PublishOrKeep(c, d, ticket) ==
    IF mailbox[d] = NoTicket
    THEN /\ mailbox' = [mailbox EXCEPT ![d] = ticket]
         /\ pending' = [pending EXCEPT ![c] = NoTicket]
         /\ target' = [target EXCEPT ![c] = c]
         /\ notify' = [notify EXCEPT ![c] = d]
    ELSE /\ pending' = [pending EXCEPT ![c] = ticket]
         /\ target' = [target EXCEPT ![c] = d]
         /\ UNCHANGED <<mailbox, notify>>

Ticked(c) == [rt[c] EXCEPT !.sched = TimerTick(@)]

Countdown(c) == IF wait[c] = 0 THEN 0 ELSE wait[c] - 1

\* The loads the balancer of c sees: its own as it is, the others' as published.
Seen(c) == [published EXCEPT ![c] = Load(rt[c].sched)]

RetryTick(c) ==
    /\ Idle(c)
    /\ pending[c] # NoTicket
    /\ rt' = [rt EXCEPT ![c] = Ticked(c)]
    /\ wait' = [wait EXCEPT ![c] = Countdown(c)]
    /\ PublishOrKeep(c, target[c], pending[c])
    /\ UNCHANGED <<hand, live, cursor, published, request, serving>>

\* The deadline is not reached, or no peer is worth sending to.
QuietTick(c) ==
    /\ Idle(c)
    /\ pending[c] = NoTicket
    /\ Countdown(c) # 0 \/ Peers(c, Seen(c)) = {}
    /\ rt' = [rt EXCEPT ![c] = Ticked(c)]
    /\ wait' = [wait EXCEPT ![c] = IF Countdown(c) = 0 THEN Interval ELSE Countdown(c)]
    /\ UNCHANGED <<mailbox, hand, live, pending, target, cursor, signals>>

\* detach_domain_for_rebalance with the load the policy selected.
BalanceTick(c) ==
    LET seen == Seen(c)
        d == SelectTarget(cursor[c], c, seen)
        id == CandidateId(Ticked(c).sched)
    IN /\ Idle(c)
       /\ pending[c] = NoTicket
       /\ Countdown(c) = 0
       /\ Peers(c, seen) # {}
       /\ WorthMoving(Ticked(c).sched, seen[d], CAPACITY)
       /\ MigrationCandidates(Ticked(c).sched) # {}
       /\ rt' = [rt EXCEPT ![c] = DetachDomain(Ticked(c), id)]
       /\ wait' = [wait EXCEPT ![c] = Interval]
       /\ cursor' = [cursor EXCEPT ![c] = NextCursor(d)]
       /\ PublishOrKeep(c, d, DomainTicket(Ticked(c), id))
       /\ UNCHANGED <<hand, live, published, request, serving>>

\* Mutant of RaiseRequest: the interrupt is sent without the request.
MutRaiseInterruptOnly(c) ==
    /\ notify[c] # c
    /\ notify' = [notify EXCEPT ![c] = c]
    /\ UNCHANGED <<rt, mailbox, hand, live, balancing, published, request, serving>>

\* After Published the caller raises the request, which must not be raised
\* already (the handler halts the machine otherwise), and sends the IPI.
RaiseRequest(c) ==
    /\ notify[c] # c
    /\ ~request[notify[c]]
    /\ request' = [request EXCEPT ![notify[c]] = TRUE]
    /\ notify' = [notify EXCEPT ![c] = c]
    /\ UNCHANGED <<rt, mailbox, hand, live, balancing, published, serving>>

-----------------------------------------------------------------------------
(***************************************************************************)
(* mrml_reschedule_dispatch: the request is swapped, the mailbox taken,    *)
(* the domain admitted and the new load published.                         *)
(***************************************************************************)
\* Mutant of Reschedule: the request is read and not taken back.
MutRescheduleReads(c) ==
    /\ Idle(c)
    /\ hand[c] = NoTicket
    /\ request[c]
    /\ serving' = [serving EXCEPT ![c] = TRUE]
    /\ UNCHANGED <<rt, mailbox, hand, live, balancing, published, request, notify>>

Reschedule(c) ==
    /\ Idle(c)
    /\ hand[c] = NoTicket
    /\ request[c]
    /\ request' = [request EXCEPT ![c] = FALSE]
    /\ serving' = [serving EXCEPT ![c] = TRUE]
    /\ UNCHANGED <<rt, mailbox, hand, live, balancing, published, notify>>

Take(c) ==
    /\ serving[c]
    /\ hand[c] = NoTicket
    /\ hand' = [hand EXCEPT ![c] = mailbox[c]]
    /\ mailbox' = [mailbox EXCEPT ![c] = NoTicket]
    /\ serving' = [serving EXCEPT ![c] = FALSE]
    /\ UNCHANGED <<rt, live, balancing, published, request, notify>>

\* attach_domain; a full runtime leaves the ticket in the caller's hand (the
\* image halts then).  The periodic-balance build selects no task here: the
\* next tick does.
Admit(c) ==
    /\ hand[c] # NoTicket
    /\ CanCreateDomain(rt[c])
    /\ rt' = [rt EXCEPT ![c] = AttachDomain(@, hand[c])]
    /\ hand' = [hand EXCEPT ![c] = NoTicket]
    /\ published' = [published EXCEPT ![c] = Load(rt[c].sched)']
    /\ UNCHANGED <<mailbox, live, balancing, request, notify, serving>>

TimerInterrupt(c) == RetryTick(c) \/ QuietTick(c) \/ BalanceTick(c)
Handlers(c) == RaiseRequest(c) \/ Reschedule(c) \/ Take(c) \/ Admit(c)

Next == \E c \in Cpus :
    \/ \E page \in Pages : CreateTask(c, page)
    \/ ReceiveCall(c)
    \/ TerminateCall(c)
    \/ PublishLoad(c)
    \/ TimerInterrupt(c)
    \/ Handlers(c)

\* A handler that started is finished and an interrupt that was sent arrives.
\* Nothing is assumed of the tasks, and not that the timers keep firing.
Fairness == \A c \in Cpus : /\ WF_vars(RaiseRequest(c))
                            /\ WF_vars(Reschedule(c))
                            /\ WF_vars(Take(c))
                            /\ WF_vars(Admit(c))

Spec == Init /\ [][Next]_vars /\ Fairness

-----------------------------------------------------------------------------
(***************************************************************************)
(* Properties                                                              *)
(***************************************************************************)
\* Where a domain can be, and the page table of the domain that is there.
Places == ({"runtime"} \X Cpus \X Slots) \cup ({"mailbox", "pending", "hand"} \X Cpus \X {0})
PageAt(place) ==
    LET c == place[2] IN
    CASE place[1] = "runtime" -> rt[c].domains[place[3]].page
      [] place[1] = "mailbox" -> mailbox[c].domain.page
      [] place[1] = "pending" -> pending[c].domain.page
      [] place[1] = "hand"    -> hand[c].domain.page

\* "cadence cannot duplicate, discard, or reorder migration tickets": with all
\* timers and handlers interleaved and loads as stale as they may be, a live
\* domain is in exactly one place, and a terminated one in none.
OnePlacePerDomain ==
    \A page \in Pages : Cardinality({place \in Places : PageAt(place) = page})
                         = IF page \in live THEN 1 ELSE 0

\* A published ticket is accompanied by exactly one signal: its publisher has
\* yet to raise the request, or the request is raised, or the handler is about
\* to take.  So no ticket is stranded, no handler runs without a ticket, and
\* the two halts of the code (request already raised, nothing to admit) are
\* unreachable, also with two publishers.
SignalPerTicket ==
    \A d \in Cpus :
        Cardinality({c \in Cpus \ {d} : notify[c] = d})
          + (IF request[d] THEN 1 ELSE 0) + (IF serving[d] THEN 1 ELSE 0)
        = IF mailbox[d] # NoTicket THEN 1 ELSE 0

\* The balancing policy and the scheduler agree: when the policy selects a
\* peer, the scheduler finds the move worthwhile and has a task to give.
PoliciesAgree ==
    \A c \in Cpus : LET s == Ticked(c).sched seen == Seen(c) IN
        Peers(c, seen) # {} =>
            /\ WorthMoving(s, seen[SelectTarget(cursor[c], c, seen)], CAPACITY)
            /\ MigrationCandidates(s) # {}

\* A published ticket is taken, unless its destination still holds one that it
\* has no room for.
TicketTaken ==
    \A c \in Cpus : (mailbox[c] # NoTicket) ~>
        (mailbox[c] = NoTicket \/ (hand[c] # NoTicket /\ ~CanCreateDomain(rt[c])))
=============================================================================
