---------------------------- MODULE TaskRuntime ----------------------------
(***************************************************************************)
(* One processor's TaskRuntime, driven by what reaches it: timer           *)
(* interrupts, the system calls and faults of the current task, and the    *)
(* kernel creating tasks, granting endpoints and taking domains away to    *)
(* migrate them.  A call that returns an error without changing anything   *)
(* is a stuttering step; a failed send may change generations and is one   *)
(* of the actions.                                                         *)
(***************************************************************************)
EXTENDS Runtime

CONSTANTS Priorities,      \* the priorities given to new tasks
          EndpointObject,  \* the object of the endpoint
          GrantRights,     \* the sets of rights the kernel grants on it
          RequestRights,   \* the sets of rights a message asks to pass on
          MaxTickets       \* bound: domains detached at a time

ASSUME TaskRuntimeAssumption ==
    /\ Priorities \subseteq Priority
    /\ EndpointObject \in Objects
    /\ GrantRights \cup RequestRights \subseteq SUBSET RightNames
    /\ MaxTickets \in Nat

VARIABLES rt,        \* the TaskRuntime
          endpoint,  \* the Endpoint
          tickets    \* the DetachedTaskDomains in the kernel's hands

vars == <<rt, endpoint, tickets>>

DomainTickets == [scheduling : DetachedTask, domain : Domain]

TypeOK == /\ rt \in RuntimeType
          /\ endpoint \in [object : {EndpointObject}, next : 1 .. MaxSequence]
          /\ tickets \subseteq DomainTickets

Init == /\ rt = NewRuntime
        /\ endpoint = NewEndpoint(EndpointObject)
        /\ tickets = {}

Current == rt.sched.current

PagesInUse == {rt.domains[i].page : i \in DomainSlots(rt)} \cup {t.domain.page : t \in tickets}

-----------------------------------------------------------------------------
CreateTask(priority, page) ==
    /\ CanCreateDomain(rt)
    /\ page \notin PagesInUse
    /\ rt' = CreateDomain(rt, priority, page)
    /\ UNCHANGED <<endpoint, tickets>>

\* capabilities_mut(task).insert(endpoint object, rights)
GrantEndpoint(id, rights) ==
    /\ FreeEntries(DomainOf(rt, id).caps) # {}
    /\ rt' = WithCaps(rt, id, Insert(DomainOf(rt, id).caps, EndpointObject, rights))
    /\ UNCHANGED <<endpoint, tickets>>

StartRuntime ==
    /\ rt' = [rt EXCEPT !.sched = Start(@)]
    /\ UNCHANGED <<endpoint, tickets>>

\* timer_tick: the interrupt found no user task running.
IdleTick ==
    /\ Current = NoTask
    /\ rt' = [rt EXCEPT !.sched = TimerTick(@)]
    /\ UNCHANGED <<endpoint, tickets>>

\* preempt_current with the context the timer interrupted.
PreemptTick(page) ==
    /\ Current # NoTask
    /\ CanPreempt(rt, page)
    /\ rt' = Preempt(rt, page)
    /\ UNCHANGED <<endpoint, tickets>>

YieldCall ==
    /\ Current # NoTask
    /\ rt' = [rt EXCEPT !.sched = YieldCurrent(@)]
    /\ UNCHANGED <<endpoint, tickets>>

\* The Exit system call and a user fault.
TerminateCall ==
    /\ Current # NoTask
    /\ HasDomain(rt, Current)
    /\ rt' = TerminateDomain(rt)
    /\ UNCHANGED <<endpoint, tickets>>

\* The SendInline system call; send_ipc alone hands the message to the caller.
DeliverCall(receiver, cap, requested) ==
    /\ Current # NoTask
    /\ CanDeliver(rt, Current, receiver)
    /\ LET result == DeliverIpc(rt, Current, receiver, endpoint, cap, requested) IN
       rt' = result.runtime /\ endpoint' = result.endpoint
    /\ UNCHANGED tickets

SendCall(receiver, cap, requested) ==
    /\ Current # NoTask
    /\ CanSend(rt, Current, receiver)
    /\ LET result == SendIpc(rt, Current, receiver, endpoint, cap, requested) IN
       rt' = result.runtime /\ endpoint' = result.endpoint
    /\ UNCHANGED tickets

\* The Receive system call, and the kernel receiving for a task it is about
\* to enter.
ReceiveCall ==
    /\ Current # NoTask
    /\ rt' = ReceiveOrBlock(rt)
    /\ UNCHANGED <<endpoint, tickets>>

ReceiveFor(id) ==
    /\ CanReceive(rt, id)
    /\ rt' = ReceiveIpc(rt, id)
    /\ UNCHANGED <<endpoint, tickets>>

\* detach_domain of any task, the current one included, which the scheduler
\* does not give away.
DetachForMigration(id) ==
    /\ Cardinality(tickets) < MaxTickets
    /\ rt' = DetachDomain(rt, id)
    /\ tickets' = IF CanDetach(rt.sched, id) THEN tickets \cup {DomainTicket(rt, id)} ELSE tickets
    /\ UNCHANGED endpoint

AttachMigrated(ticket) ==
    /\ CanCreateDomain(rt)
    /\ rt' = AttachDomain(rt, ticket)
    /\ tickets' = tickets \ {ticket}
    /\ UNCHANGED endpoint

\* The handles and requests the current task presents: for each of its slots
\* the handle of the slot's generation, which names nothing when it is free.
Presented == {[slot |-> i, generation |-> DomainOf(rt, Current).caps[i].generation] : i \in CapSlots}
Requested == {<<>>} \cup {<<request>> : request \in Presented \X RequestRights}

LiveIds == {rt.domains[i].task : i \in DomainSlots(rt)}

Ipc == /\ Current # NoTask
       /\ \E receiver \in LiveIds, cap \in Presented, requested \in Requested :
             DeliverCall(receiver, cap, requested) \/ SendCall(receiver, cap, requested)

Next == \/ \E priority \in Priorities, page \in Pages : CreateTask(priority, page)
        \/ \E id \in LiveIds, rights \in GrantRights : GrantEndpoint(id, rights)
        \/ StartRuntime
        \/ IdleTick
        \/ \E page \in Pages : PreemptTick(page)
        \/ YieldCall
        \/ TerminateCall
        \/ Ipc
        \/ ReceiveCall
        \/ \E id \in LiveIds : ReceiveFor(id) \/ DetachForMigration(id)
        \/ \E ticket \in tickets : AttachMigrated(ticket)

Spec == Init /\ [][Next]_vars

-----------------------------------------------------------------------------
(***************************************************************************)
(* Properties                                                              *)
(***************************************************************************)
\* "Owns the scheduler-visible identity, saved context, and capability space
\* as one revocation domain": a task is scheduled iff it has a domain, also
\* after faults, exits and migrations, so no identity is resumable without its
\* authority and no authority outlives its identity.
OneRevocationDomain == DomainsAreTasks(rt) /\ CurrentRunnable(rt.sched)

\* No lost wakeup: a task that waits for a message has none in its inbox,
\* whether it is still here or is being moved.
NoLostWakeup ==
    /\ NoneAsleepWithMail(rt)
    /\ \A t \in tickets : t.scheduling.state = "Blocked" => t.domain.count = 0

\* The bounded inboxes neither lose, overwrite nor reorder messages.
InboxFifo == /\ \A i \in DomainSlots(rt) : InboxInOrder(rt.domains[i])
             /\ \A t \in tickets : InboxInOrder(t.domain)

\* The context of an interrupted task is never installed in another task's
\* domain: no two domains share an address space.
AddressSpacesDistinct ==
    /\ \A i, j \in DomainSlots(rt) : i # j => rt.domains[i].page # rt.domains[j].page
    /\ \A i \in DomainSlots(rt), t \in tickets : rt.domains[i].page # t.domain.page

\* The handles of the domain with this page table, resident or detached: a
\* domain changes its slot and its task identity on its way, never its page
\* table.  Nothing for a page table that is not in use.
DomainsWith(page) == {d \in {rt.domains[i] : i \in DomainSlots(rt)} \cup {t.domain : t \in tickets} :
                         d.page = page}
Held(page) == UNION {Authority(d.caps) : d \in DomainsWith(page)}

\* The kernel granted the handle to the task of that domain.
Granted(page, handle) ==
    \E id \in LiveIds : /\ DomainOf(rt, id).page = page
                        /\ handle.object = EndpointObject /\ handle.rights \in GrantRights
                        /\ GrantEndpoint(id, handle.rights)

\* The current task sent a message to that domain, and to nobody else, and had
\* the handle's rights on its object itself, with the right to pass them on.
Carried(page, handle) ==
    LET sender == DomainOf(rt, Current).page IN
    /\ Current # NoTask
    /\ page # sender
    /\ endpoint'.next = endpoint.next + 1
    /\ \A other \in Pages \ {page} : Held(other)' = Held(other)
    /\ \E own \in Held(sender) : /\ own.object = handle.object
                                 /\ handle.rights \cup {"DELEGATE"} \subseteq own.rights

\* A domain gets a handle only from the kernel, which grants it to this domain,
\* or in a message that is sent to this domain by a task that may pass it on.  A
\* failed or refused send, a tick, an exit, a receive, a migration give nobody
\* anything, and a new domain starts without a handle.
AuthorityOnlySent ==
    [][\A page \in Pages : \A handle \in Held(page)' \ Held(page) :
          Granted(page, handle) \/ Carried(page, handle)]_vars
=============================================================================
