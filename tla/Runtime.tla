------------------------------ MODULE Runtime ------------------------------
(***************************************************************************)
(* TaskRuntime<TASKS, CAPS> of mrml-kernel/src/task_runtime.rs as          *)
(* operators on a runtime value: a scheduler and an array of task domains, *)
(* each the address space, capability space and inbox of one task.  The    *)
(* saved registers of a UserContext are left out, its page table is kept:  *)
(* it tells whose context was saved where.                                 *)
(***************************************************************************)
EXTENDS Scheduler, Capability

CONSTANTS Pages,   \* the page tables of user address spaces
          NoPage   \* of a slot without a domain

ASSUME PagesAssumption == NoPage \notin Pages

INBOX == 2  \* TASK_INBOX_MESSAGES
InboxSlots == 0 .. INBOX - 1

\* A message: the number it was sent under stands for its payload.
Message == [number : 1 .. MaxSequence, caps : Seq(Handle)]
NoMessage == [number |-> 0, caps |-> <<>>]

Domain == [task : TaskId, page : Pages, caps : Space,
           inbox : [InboxSlots -> Message \cup {NoMessage}],
           head : InboxSlots, tail : InboxSlots, count : 0 .. INBOX]

\* An entry of the domains array that is None.
NoDomain == [task |-> NoTask, page |-> NoPage, caps |-> NewSpace,
             inbox |-> [i \in InboxSlots |-> NoMessage], head |-> 0, tail |-> 0, count |-> 0]

RuntimeType == [sched : SchedulerType, domains : [Slots -> Domain \cup {NoDomain}]]

NewRuntime == [sched |-> NewScheduler, domains |-> [i \in Slots |-> NoDomain]]

DomainSlots(r) == {i \in Slots : r.domains[i] # NoDomain}
FreeDomains(r) == Slots \ DomainSlots(r)

\* The domain of a task: position and find over the array.
HasDomain(r, id) == \E i \in DomainSlots(r) : r.domains[i].task = id
DomainSlot(r, id) == Min({i \in DomainSlots(r) : r.domains[i].task = id})
DomainOf(r, id) == r.domains[DomainSlot(r, id)]

-----------------------------------------------------------------------------
\* create: the first free domain entry and the first free task slot need not
\* have the same index.
CanCreateDomain(r) == FreeDomains(r) # {} /\ CanCreate(r.sched)
CreateDomain(r, priority, page) ==
    [sched |-> Create(r.sched, priority),
     domains |-> [r.domains EXCEPT ![Min(FreeDomains(r))] =
                    [NoDomain EXCEPT !.task = CreatedId(r.sched), !.page = page]]]

\* Mutant of Preempt: the context is saved for the task that runs next.
MutPreemptSavesNext(r, page) ==
    LET next == [r EXCEPT !.sched = TimerTick(@)] IN
    IF HasDomain(next, next.sched.current)
    THEN [next EXCEPT !.domains[DomainSlot(next, next.sched.current)].page = page]
    ELSE next

\* preempt_current: the tick may select another task, the interrupted context
\* is saved in the domain that was current before it.
CanPreempt(r, page) == /\ HasDomain(r, r.sched.current)
                       /\ DomainOf(r, r.sched.current).page = page
Preempt(r, page) ==
    [r EXCEPT !.sched = TimerTick(@),
              !.domains[DomainSlot(r, r.sched.current)].page = page]

CanDetachDomain(r, id) == HasDomain(r, id) /\ CanDetach(r.sched, id)
DomainTicket(r, id) == [scheduling |-> TicketOf(r.sched, id), domain |-> DomainOf(r, id)]

\* Mutant of DetachDomain: a rejected detach does not put the domain back.
MutDetachForgets(r, id) ==
    LET taken == [r EXCEPT !.domains[DomainSlot(r, id)] = NoDomain] IN
    IF CanDetach(r.sched, id) THEN [taken EXCEPT !.sched = Detach(@, id)] ELSE taken

\* detach_domain: the domain is taken out of its slot first and put back when
\* the scheduler rejects the detach.
DetachDomain(r, id) ==
    LET i == DomainSlot(r, id)
        taken == [r EXCEPT !.domains[i] = NoDomain] IN
    IF CanDetach(r.sched, id) THEN [taken EXCEPT !.sched = Detach(@, id)]
    ELSE [taken EXCEPT !.domains[i] = r.domains[i]]

\* attach_domain: the domain is admitted under a fresh identity.
AttachDomain(r, ticket) ==
    [sched |-> Attach(r.sched, ticket.scheduling),
     domains |-> [r.domains EXCEPT ![Min(FreeDomains(r))] =
                    [ticket.domain EXCEPT !.task = CreatedId(r.sched)]]]

\* Mutant of TerminateDomain: the entry is left to be overwritten.
MutTerminateKeepsDomain(r) == [r EXCEPT !.sched = TerminateCurrent(@)]

\* terminate_current and terminate_current_fault
TerminateDomain(r) ==
    [r EXCEPT !.domains[DomainSlot(r, r.sched.current)] = NoDomain,
              !.sched = TerminateCurrent(@)]

-----------------------------------------------------------------------------
(***************************************************************************)
(* send_ipc and deliver_ipc.  The result is whether the send succeeded,    *)
(* the runtime, the endpoint, and the handles the message carries.         *)
(***************************************************************************)
WithCaps(r, id, space) == [r EXCEPT !.domains[DomainSlot(r, id)].caps = space]

\* Mutant of SendIpc: the receiver's new space is installed in the sender.
MutSendIpcToSender(r, sender, receiver, endpoint, cap, requested) ==
    LET source == DomainOf(r, sender).caps
        moved == Transfer(source, DomainOf(r, receiver).caps, requested)
        result == IF moved.ok /\ ~MaySend(source, cap, endpoint) THEN Undone(moved) ELSE moved
    IN [ok |-> result.ok,
        runtime |-> WithCaps(r, sender, result.space),
        endpoint |-> IF result.ok THEN Sent(endpoint) ELSE endpoint,
        caps |-> result.caps]

SendIpc(r, sender, receiver, endpoint, cap, requested) ==
    LET source == DomainOf(r, sender).caps
        moved == Transfer(source, DomainOf(r, receiver).caps, requested)
        result == IF moved.ok /\ ~MaySend(source, cap, endpoint) THEN Undone(moved) ELSE moved
    IN [ok |-> result.ok,
        runtime |-> WithCaps(r, receiver, result.space),
        endpoint |-> IF result.ok THEN Sent(endpoint) ELSE endpoint,
        caps |-> result.caps]

CanSend(r, sender, receiver) ==
    sender # receiver /\ HasDomain(r, sender) /\ HasDomain(r, receiver)

\* The next entry of the ring.
After(k) == IF k + 1 = INBOX THEN 0 ELSE k + 1

\* Mutant of Filled: the tail does not move on.
MutFilledInPlace(d, message) == [d EXCEPT !.inbox[d.tail] = message, !.count = @ + 1]

\* The domain with a message more in its inbox.
Filled(d, message) ==
    [d EXCEPT !.inbox[d.tail] = message, !.tail = After(@), !.count = @ + 1]

\* Mutant of Enqueue: the receiver is not woken.
MutEnqueueSilently(r, receiver, message) ==
    LET i == DomainSlot(r, receiver) IN
    [r EXCEPT !.domains[i] = Filled(@, message)]

\* The message is put in the receiver's inbox and the receiver is woken.
Enqueue(r, receiver, message) ==
    LET i == DomainSlot(r, receiver) IN
    [sched |-> Wake(r.sched, receiver),
     domains |-> [r.domains EXCEPT ![i] = Filled(@, message)]]

\* InboxFull comes before anything changes.
CanDeliver(r, sender, receiver) ==
    CanSend(r, sender, receiver) /\ DomainOf(r, receiver).count # INBOX

DeliverIpc(r, sender, receiver, endpoint, cap, requested) ==
    LET sending == SendIpc(r, sender, receiver, endpoint, cap, requested) IN
    IF sending.ok
    THEN [sending EXCEPT !.runtime =
            Enqueue(@, receiver, [number |-> endpoint.next, caps |-> sending.caps])]
    ELSE sending

\* receive_ipc
CanReceive(r, id) == HasDomain(r, id) /\ DomainOf(r, id).count # 0
Received(r, id) == LET d == DomainOf(r, id) IN d.inbox[d.head]
Emptied(d) ==
    [d EXCEPT !.inbox[d.head] = NoMessage, !.head = After(@), !.count = @ - 1]
ReceiveIpc(r, id) == [r EXCEPT !.domains[DomainSlot(r, id)] = Emptied(@)]

ReceiveOrBlock(r) ==
    IF CanReceive(r, r.sched.current) THEN ReceiveIpc(r, r.sched.current)
    ELSE [r EXCEPT !.sched = BlockCurrent(@)]

-----------------------------------------------------------------------------
(***************************************************************************)
(* What every runtime operation preserves.                                 *)
(***************************************************************************)
TaskOf(r, i) == r.sched.tasks[r.domains[i].task.slot]

\* The current task is live and runnable.
CurrentRunnable(s) == s.current # NoTask => /\ Valid(s, s.current)
                                            /\ s.tasks[s.current.slot].state = "Runnable"

\* The domains are those of the live tasks, one for each.
DomainsAreTasks(r) ==
    /\ \A i \in DomainSlots(r) : Valid(r.sched, r.domains[i].task)
    /\ \A i, j \in DomainSlots(r) : r.domains[i].task = r.domains[j].task => i = j
    /\ \A t \in OccupiedSlots(r.sched) : HasDomain(r, IdOf(r.sched, t))

\* A domain whose task is blocked has nothing to receive.
NoneAsleepWithMail(r) ==
    \A i \in DomainSlots(r) : TaskOf(r, i).state = "Blocked" => r.domains[i].count = 0

\* The inbox is a ring: count messages from head on, in the order they were
\* sent, and nothing else.
Ahead(d, k) == IF d.head + k >= INBOX THEN d.head + k - INBOX ELSE d.head + k
InboxInOrder(d) ==
    /\ d.tail = Ahead(d, IF d.count = INBOX THEN 0 ELSE d.count)
    /\ \A k \in InboxSlots : (d.inbox[Ahead(d, k)] # NoMessage) = (k < d.count)
    /\ \A k \in InboxSlots \ {0} : k < d.count =>
          d.inbox[Ahead(d, k - 1)].number < d.inbox[Ahead(d, k)].number
=============================================================================
