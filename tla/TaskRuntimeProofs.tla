------------------------- MODULE TaskRuntimeProofs -------------------------
(***************************************************************************)
(* Theorems about TaskRuntime, for any number of tasks, pages, rights and  *)
(* capabilities, any generation limit and any quantum.                     *)
(***************************************************************************)
EXTENDS TaskRuntime, RuntimeProofs

\* No two domains of a runtime and a set of tickets share an address space.
PagesApart(r, T) ==
    /\ \A i, j \in DomainSlots(r) : i # j => r.domains[i].page # r.domains[j].page
    /\ \A i \in DomainSlots(r), t \in T : r.domains[i].page # t.domain.page
    /\ \A t, v \in T : t # v => t.domain.page # v.domain.page

\* The inductive invariant.  A task that sleeps was blocked with an empty inbox
\* and is woken by what fills it; that its inbox stays in order needs that
\* what waits was numbered before the message that comes.
IInv == /\ endpoint = [object |-> endpoint.object, next |-> endpoint.next]
        /\ endpoint.next \in Nat \ {0}
        /\ RuntimeInv(rt, endpoint.next)
        /\ \A t \in tickets : TicketInv(t, endpoint.next)
        /\ PagesApart(rt, tickets)

\* A step that moves no domain and sends no message.
LEMMA QuietStep ==
    ASSUME IInv, RuntimeInv(rt', endpoint.next), SamePages(rt, rt'),
           UNCHANGED <<endpoint, tickets>>
    PROVE  IInv'
<1>1. PagesApart(rt', tickets)
  BY DEF IInv, PagesApart, SamePages
<1> QED BY <1>1 DEF IInv

\* A step that only lets the scheduler go on.
LEMMA SchedStep ==
    ASSUME IInv, NEW s, SchedInv(s), SameTasks(rt.sched, s),
           rt' = [rt EXCEPT !.sched = s], UNCHANGED <<endpoint, tickets>>
    PROVE  IInv'
<1>1. RuntimeInv(rt', endpoint.next) /\ SamePages(rt, rt')
  BY SchedOnly DEF IInv
<1> QED BY <1>1, QuietStep

\* A step that uses up a message number, or does not.
LEMMA IpcStep ==
    ASSUME IInv, SamePages(rt, rt'), UNCHANGED tickets,
           \/ endpoint' = endpoint /\ RuntimeInv(rt', endpoint.next)
           \/ endpoint' = Sent(endpoint) /\ RuntimeInv(rt', endpoint.next + 1)
    PROVE  IInv'
<1>1. CASE endpoint' = endpoint /\ RuntimeInv(rt', endpoint.next)
  BY <1>1, QuietStep
<1>2. CASE endpoint' = Sent(endpoint) /\ RuntimeInv(rt', endpoint.next + 1)
  <2>1. endpoint' = [object |-> endpoint.object, next |-> endpoint.next + 1]
    BY <1>2, NextNumber DEF IInv
  <2>2. /\ endpoint'.next = endpoint.next + 1 /\ endpoint'.next \in Nat \ {0}
        /\ endpoint' = [object |-> endpoint'.object, next |-> endpoint'.next]
    BY <2>1 DEF IInv
  <2>3. \A t \in tickets : TicketInv(t, endpoint.next + 1)
    BY LaterInv DEF IInv, TicketInv
  <2>4. PagesApart(rt', tickets)
    BY DEF IInv, PagesApart, SamePages
  <2> QED BY <1>2, <2>2, <2>3, <2>4 DEF IInv
<1> QED BY <1>1, <1>2

\* A domain arrives whose address space nobody else has.
LEMMA ArrivalStep ==
    ASSUME IInv, RuntimeInv(rt', endpoint.next), NEW i \in Slots, NEW d, Arrived(rt, rt', i, d),
           UNCHANGED endpoint, tickets' \subseteq tickets,
           \A j \in DomainSlots(rt) : rt.domains[j].page # d.page,
           \A t \in tickets' : t.domain.page # d.page
    PROVE  IInv'
<1>1. PagesApart(rt', tickets')
  BY DEF IInv, PagesApart, Arrived
<1> QED BY <1>1 DEF IInv

\* A domain leaves, for good or in a ticket.
LEMMA DepartureStep ==
    ASSUME IInv, RuntimeInv(rt', endpoint.next), NEW i, Left(rt, rt', i), UNCHANGED endpoint,
           \A t \in tickets' \ tickets : /\ TicketInv(t, endpoint.next)
                                        /\ t.domain.page = rt.domains[i].page,
           \A t, v \in tickets' \ tickets : t = v
    PROVE  IInv'
<1>1. PagesApart(rt', tickets')
  BY DEF IInv, PagesApart, Left
<1>2. \A t \in tickets' : TicketInv(t, endpoint.next)
  BY DEF IInv
<1> QED BY <1>1, <1>2 DEF IInv

-----------------------------------------------------------------------------
\* The initial runtime has no domains.
LEMMA InitIInv ==
    ASSUME Init
    PROVE  IInv
<1>1. endpoint = [object |-> EndpointObject, next |-> 1] /\ rt = NewRuntime /\ tickets = {}
  BY DEF Init, NewEndpoint
<1>2. RuntimeInv(NewRuntime, 1) /\ DomainSlots(NewRuntime) = {}
  BY NewRuntimeInv
<1> QED BY <1>1, <1>2 DEF IInv, PagesApart

\* A live identity has a domain.
LEMMA LiveHasDomain ==
    ASSUME NEW id \in LiveIds
    PROVE  HasDomain(rt, id)
BY DEF LiveIds, HasDomain

\* Every action keeps the invariant.
LEMMA NextIInv ==
    ASSUME IInv, [Next]_vars
    PROVE  IInv'
<1> DEFINE n == endpoint.next
<1>0. /\ RuntimeInv(rt, n) /\ SchedInv(rt.sched) /\ n \in Nat \ {0}
      /\ endpoint = [object |-> endpoint.object, next |-> endpoint.next]
  BY DEF IInv, RuntimeInv
<1>1. ASSUME NEW priority \in Priorities, NEW page \in Pages, CreateTask(priority, page)
      PROVE  IInv'
  <2>1. priority \in Priority
    BY TaskRuntimeAssumption
  <2>2. /\ RuntimeInv(rt', n)
        /\ \E i \in Slots : \E d : Arrived(rt, rt', i, d) /\ d.page = page
    BY <1>0, <1>1, <2>1, CreateDomainInv DEF CreateTask
  <2>3. /\ \A j \in DomainSlots(rt) : rt.domains[j].page # page
        /\ \A t \in tickets : t.domain.page # page
    BY <1>1 DEF CreateTask, PagesInUse
  <2>4. UNCHANGED <<endpoint, tickets>>
    BY <1>1 DEF CreateTask
  <2> QED BY <2>2, <2>3, <2>4, ArrivalStep
<1>2. ASSUME NEW id \in LiveIds, NEW rights \in GrantRights, GrantEndpoint(id, rights)
      PROVE  IInv'
  BY <1>0, <1>2, LiveHasDomain, WithCapsInv, QuietStep DEF GrantEndpoint
<1>3. CASE StartRuntime
  BY <1>0, <1>3, StartKeeps, SchedStep DEF StartRuntime
<1>4. CASE IdleTick
  BY <1>0, <1>4, TickKeeps, SchedStep DEF IdleTick
<1>5. ASSUME NEW page \in Pages, PreemptTick(page) PROVE IInv'
  BY <1>0, <1>5, PreemptInv, QuietStep DEF PreemptTick
<1>6. CASE YieldCall
  BY <1>0, <1>6, YieldKeeps, SchedStep DEF YieldCall
<1>7. CASE TerminateCall
  <2>1. RuntimeInv(rt', n) /\ Left(rt, rt', DomainSlot(rt, Current))
    BY <1>0, <1>7, TerminateDomainInv DEF TerminateCall, Current
  <2> QED BY <1>7, <2>1, DepartureStep DEF TerminateCall
<1>8. ASSUME NEW receiver, NEW cap, NEW requested, DeliverCall(receiver, cap, requested)
      PROVE  IInv'
  <2> DEFINE result == DeliverIpc(rt, Current, receiver, endpoint, cap, requested)
  <2>1. /\ rt' = result.runtime /\ endpoint' = result.endpoint /\ UNCHANGED tickets
        /\ CanDeliver(rt, Current, receiver)
    BY <1>8 DEF DeliverCall
  <2>2. /\ SamePages(rt, result.runtime)
        /\ \/ result.endpoint = endpoint /\ RuntimeInv(result.runtime, n)
           \/ result.endpoint = Sent(endpoint) /\ RuntimeInv(result.runtime, n + 1)
    BY <1>0, <2>1, DeliverIpcInv
  <2> QED BY <2>1, <2>2, IpcStep
<1>9. ASSUME NEW receiver, NEW cap, NEW requested, SendCall(receiver, cap, requested)
      PROVE  IInv'
  <2> DEFINE result == SendIpc(rt, Current, receiver, endpoint, cap, requested)
  <2>1. /\ rt' = result.runtime /\ endpoint' = result.endpoint /\ UNCHANGED tickets
        /\ CanSend(rt, Current, receiver)
    BY <1>9 DEF SendCall
  <2>2. /\ SamePages(rt, result.runtime) /\ RuntimeInv(result.runtime, n)
        /\ result.endpoint = endpoint \/ result.endpoint = Sent(endpoint)
    BY <1>0, <2>1, SendIpcInv
  <2>3. RuntimeInv(result.runtime, n + 1)
    BY <1>0, <2>2, LaterRuntime
  <2> QED BY <2>1, <2>2, <2>3, IpcStep
<1>10. CASE ReceiveCall
  BY <1>0, <1>10, ReceiveOrBlockInv, QuietStep DEF ReceiveCall, Current
<1>11. ASSUME NEW id \in LiveIds, ReceiveFor(id) PROVE IInv'
  BY <1>0, <1>11, ReceiveIpcInv, QuietStep DEF ReceiveFor
<1>12. ASSUME NEW id \in LiveIds, DetachForMigration(id) PROVE IInv'
  <2> DEFINE t == DomainTicket(rt, id)
             i == DomainSlot(rt, id)
  <2>0. rt' = DetachDomain(rt, id) /\ UNCHANGED endpoint /\ HasDomain(rt, id)
    BY <1>12, LiveHasDomain DEF DetachForMigration
  <2>1. CASE CanDetach(rt.sched, id)
    <3>1. /\ RuntimeInv(rt', n) /\ Left(rt, rt', i)
          /\ TicketInv(t, n) /\ t.domain = rt.domains[i]
      BY <1>0, <2>0, <2>1, DetachDomainInv DEF CanDetachDomain, TicketInv
    <3>2. tickets' = tickets \cup {t}
      BY <1>12, <2>1 DEF DetachForMigration
    <3> HIDE DEF t, i
    <3> QED BY <2>0, <3>1, <3>2, DepartureStep
  <2>2. CASE ~CanDetach(rt.sched, id)
    <3>1. rt' = rt
      BY <1>0, <2>0, <2>2, RejectedDetach
    <3>2. tickets' = tickets
      BY <1>12, <2>2 DEF DetachForMigration
    <3> QED BY <2>0, <3>1, <3>2 DEF IInv
  <2> QED BY <2>1, <2>2
<1>13. ASSUME NEW t \in tickets, AttachMigrated(t) PROVE IInv'
  <2>1. TicketInv(t, n) /\ CanCreateDomain(rt)
    BY <1>13 DEF IInv, AttachMigrated
  <2>2. /\ RuntimeInv(rt', n)
        /\ \E i \in Slots : \E d : Arrived(rt, rt', i, d) /\ d.page = t.domain.page
    BY <1>0, <1>13, <2>1, AttachDomainInv DEF AttachMigrated, TicketInv
  <2>3. tickets' = tickets \ {t} /\ UNCHANGED endpoint
    BY <1>13 DEF AttachMigrated
  <2>4. /\ \A j \in DomainSlots(rt) : rt.domains[j].page # t.domain.page
        /\ \A v \in tickets' : v.domain.page # t.domain.page
    BY <2>3 DEF IInv, PagesApart
  <2> QED BY <2>2, <2>3, <2>4, ArrivalStep
<1>14. CASE UNCHANGED vars
  BY <1>14 DEF vars, IInv
<1> QED BY <1>1, <1>2, <1>3, <1>4, <1>5, <1>6, <1>7, <1>8, <1>9, <1>10, <1>11, <1>12, <1>13,
          <1>14 DEF Next, Ipc

\* The invariant holds in every reachable state.
LEMMA Always == Spec => []IInv
BY InitIInv, NextIInv, PTL DEF Spec

-----------------------------------------------------------------------------
\* Scheduling and authority are one revocation domain: however create, fault,
\* exit and migration are interleaved, the domains are those of the live tasks,
\* one for each, and the current task is one of them.
THEOREM RevocationIsOne == Spec => []OneRevocationDomain
<1>1. IInv => OneRevocationDomain
  BY DEF IInv, RuntimeInv, OneRevocationDomain, SchedInv, CurrentLive, CurrentRunnable
<1> QED BY <1>1, Always, PTL

\* receive_or_block and deliver_ipc lose no wakeup, also not with a migration
\* between them.
THEOREM WakeupsAreKept == Spec => []NoLostWakeup
<1>1. IInv => NoLostWakeup
  BY DEF IInv, RuntimeInv, TicketInv, NoLostWakeup
<1> QED BY <1>1, Always, PTL

\* The inboxes are first-in first-out and hold no more than was sent.
THEOREM InboxesAreFifo == Spec => []InboxFifo
<1>1. IInv => InboxFifo
  BY DEF IInv, RuntimeInv, TicketInv, InboxFifo, DomainInv, InboxInv
<1> QED BY <1>1, Always, PTL

\* preempt_current saves a context only where it came from, so that no two
\* domains, on the processor or on their way, share an address space.
THEOREM AddressSpacesStayApart == Spec => []AddressSpacesDistinct
<1>1. IInv => AddressSpacesDistinct
  BY DEF IInv, PagesApart, AddressSpacesDistinct
<1> QED BY <1>1, Always, PTL

-----------------------------------------------------------------------------
(***************************************************************************)
(* Authority                                                               *)
(***************************************************************************)
\* Every domain, here or in a ticket, has a capability space.
SpacesInv == /\ \A i \in DomainSlots(rt) : rt.domains[i].caps \in Space
             /\ \A t \in tickets : t.domain.caps \in Space

\* What AuthorityOnlySent allows, and what most steps do.
GainIsSent == \A page \in Pages : \A handle \in Held(page)' \ Held(page) :
                 Granted(page, handle) \/ Carried(page, handle)
NoGain == \A page \in Pages : Held(page)' \subseteq Held(page)

\* The handles of an address space in a runtime r and a set of tickets T.
HeldIn(r, T, page, handle) ==
    \/ \E i \in DomainSlots(r) : /\ r.domains[i].page = page
                                /\ handle \in Authority(r.domains[i].caps)
    \/ \E t \in T : t.domain.page = page /\ handle \in Authority(t.domain.caps)

\* They are what Held says, before and after a step.
LEMMA HeldIs ==
    ASSUME NEW page, NEW handle
    PROVE  /\ handle \in Held(page) <=> HeldIn(rt, tickets, page, handle)
           /\ handle \in Held(page)' <=> HeldIn(rt', tickets', page, handle)
<1>1. handle \in Held(page) <=> HeldIn(rt, tickets, page, handle)
  BY DEF Held, DomainsWith, HeldIn
<1>2. handle \in Held(page)' <=> HeldIn(rt', tickets', page, handle)
  BY DEF Held, DomainsWith, HeldIn
<1> QED BY <1>1, <1>2

\* Everybody stays where they are, with no more than they had.
LEMMA SteadyStep ==
    ASSUME SpacesInv, SamePages(rt, rt'), UNCHANGED tickets,
           \A j \in DomainSlots(rt) :
              /\ rt'.domains[j].caps \in Space
              /\ Authority(rt'.domains[j].caps) \subseteq Authority(rt.domains[j].caps)
    PROVE  SpacesInv' /\ NoGain
<1>1. SpacesInv'
  BY DEF SpacesInv, SamePages
<1>2. ASSUME NEW page, NEW handle, HeldIn(rt', tickets', page, handle)
      PROVE  HeldIn(rt, tickets, page, handle)
  BY <1>2 DEF HeldIn, SamePages
<1>3. NoGain
  BY <1>2, HeldIs DEF NoGain
<1> QED BY <1>1, <1>3

\* The same, for a step that changes no capability space.
LEMMA SameCapsStep ==
    ASSUME SpacesInv, SamePages(rt, rt'), SameCaps(rt, rt'), UNCHANGED tickets
    PROVE  SpacesInv' /\ NoGain
<1>1. \A j \in DomainSlots(rt) :
        /\ rt'.domains[j].caps \in Space
        /\ Authority(rt'.domains[j].caps) \subseteq Authority(rt.domains[j].caps)
  BY DEF SameCaps, SpacesInv
<1> QED BY <1>1, SteadyStep

\* Who arrives has what they had on their way.
LEMMA ArrivalGains ==
    ASSUME SpacesInv, NEW k \in Slots, NEW d, Arrived(rt, rt', k, d), d.caps \in Space,
           tickets' \subseteq tickets,
           \A handle \in Authority(d.caps) : HeldIn(rt, tickets, d.page, handle)
    PROVE  SpacesInv' /\ NoGain
<1>1. SpacesInv'
  BY DEF SpacesInv, Arrived
<1>2. ASSUME NEW page, NEW handle, HeldIn(rt', tickets', page, handle)
      PROVE  HeldIn(rt, tickets, page, handle)
  <2>1. CASE \E t \in tickets' : t.domain.page = page /\ handle \in Authority(t.domain.caps)
    BY <2>1 DEF HeldIn
  <2>2. ASSUME NEW i \in DomainSlots(rt'), rt'.domains[i].page = page,
               handle \in Authority(rt'.domains[i].caps)
        PROVE  HeldIn(rt, tickets, page, handle)
    <3>1. CASE i = k
      BY <2>2, <3>1 DEF Arrived
    <3>2. CASE i # k
      BY <2>2, <3>2 DEF Arrived, HeldIn
    <3> QED BY <3>1, <3>2
  <2> QED BY <1>2, <2>1, <2>2 DEF HeldIn
<1>3. NoGain
  BY <1>2, HeldIs DEF NoGain
<1> QED BY <1>1, <1>3

\* Who leaves takes the capability space along.
LEMMA DepartureGains ==
    ASSUME SpacesInv, NEW k, Left(rt, rt', k),
           \A t \in tickets' \ tickets : t.domain = rt.domains[k]
    PROVE  SpacesInv' /\ NoGain
<1>1. SpacesInv'
  BY DEF SpacesInv, Left
<1>2. ASSUME NEW page, NEW handle, HeldIn(rt', tickets', page, handle)
      PROVE  HeldIn(rt, tickets, page, handle)
  <2>1. ASSUME NEW t \in tickets', t.domain.page = page, handle \in Authority(t.domain.caps)
        PROVE  HeldIn(rt, tickets, page, handle)
    <3>1. CASE t \in tickets
      BY <2>1, <3>1 DEF HeldIn
    <3>2. CASE t \notin tickets
      BY <2>1, <3>2 DEF HeldIn, Left
    <3> QED BY <3>1, <3>2
  <2>2. ASSUME NEW i \in DomainSlots(rt'), rt'.domains[i].page = page,
               handle \in Authority(rt'.domains[i].caps)
        PROVE  HeldIn(rt, tickets, page, handle)
    BY <2>2 DEF Left, HeldIn
  <2> QED BY <1>2, <2>1, <2>2 DEF HeldIn
<1>3. NoGain
  BY <1>2, HeldIs DEF NoGain
<1> QED BY <1>1, <1>3

\* A message: what the receiver has more the sender could pass on, and nobody
\* else is affected.
LEMMA MessageGains ==
    ASSUME IInv, SpacesInv, Current # NoTask, NEW receiver, CanSend(rt, Current, receiver),
           SamePages(rt, rt'), UNCHANGED tickets, NEW ok,
           CapsSent(rt, rt', Current, receiver, ok), ok => endpoint' = Sent(endpoint)
    PROVE  SpacesInv' /\ GainIsSent
<1> DEFINE k == DomainSlot(rt, receiver)
           c == DomainSlot(rt, Current)
           sender == rt.domains[c].page
<1>1. /\ k \in DomainSlots(rt) /\ c \in DomainSlots(rt) /\ c # k
      /\ rt.domains[k].page # sender
  <2>1. /\ k \in DomainSlots(rt) /\ rt.domains[k].task = receiver
        /\ c \in DomainSlots(rt) /\ rt.domains[c].task = Current /\ Current # receiver
    BY SlotIsIn DEF CanSend
  <2> QED BY <2>1 DEF IInv, PagesApart
<1>2. /\ \A j \in DomainSlots(rt) : rt'.domains[j].caps \in Space
      /\ \A j \in DomainSlots(rt) \ {k} : rt'.domains[j].caps = rt.domains[j].caps
      /\ GivenBy(rt.domains[c].caps, rt.domains[k].caps, rt'.domains[k].caps)
      /\ ~ok => Authority(rt'.domains[k].caps) \subseteq Authority(rt.domains[k].caps)
  BY DEF CapsSent, DomainOf
<1>3. DomainOf(rt, Current).page = sender
  BY DEF DomainOf
<1> HIDE DEF k, c
<1>4. SpacesInv'
  BY <1>2 DEF SpacesInv, SamePages
<1>5. ASSUME NEW page \in Pages, NEW handle, HeldIn(rt', tickets', page, handle),
             ~HeldIn(rt, tickets, page, handle)
      PROVE  Carried(page, handle)
  <2>1. PICK j \in DomainSlots(rt) : /\ rt.domains[j].page = page
                                     /\ handle \in Authority(rt'.domains[j].caps)
                                     /\ handle \notin Authority(rt.domains[j].caps)
    BY <1>5 DEF HeldIn, SamePages
  <2>2. j = k /\ page = rt.domains[k].page
    BY <1>2, <2>1
  <2>3. endpoint' = Sent(endpoint)
    BY <1>2, <2>1, <2>2
  <2>4. endpoint'.next = endpoint.next + 1
    BY <2>3, NextNumber DEF IInv
  <2>5. ASSUME NEW other \in Pages \ {page} PROVE Held(other)' = Held(other)
    <3>1. ASSUME NEW h PROVE HeldIn(rt', tickets', other, h) <=> HeldIn(rt, tickets, other, h)
      BY <1>2, <2>2, <2>5 DEF HeldIn, SamePages
    <3> QED BY <3>1, HeldIs
  <2>6. PICK own \in Authority(rt.domains[c].caps) :
                /\ own.object = handle.object
                /\ handle.rights \cup {"DELEGATE"} \subseteq own.rights
    BY <1>2, <2>1, <2>2, GivenIsCovered
  <2>7. own \in Held(sender)
    BY <1>1, HeldIs DEF HeldIn
  <2> QED BY <1>1, <1>3, <2>2, <2>4, <2>5, <2>6, <2>7 DEF Carried
<1>6. GainIsSent
  BY <1>5, HeldIs DEF GainIsSent
<1> QED BY <1>4, <1>6

\* A step that only lets the scheduler go on.
LEMMA SchedGains ==
    ASSUME IInv, SpacesInv, NEW s, SchedInv(s), SameTasks(rt.sched, s),
           rt' = [rt EXCEPT !.sched = s], UNCHANGED tickets
    PROVE  SpacesInv' /\ NoGain
<1>1. SamePages(rt, rt') /\ rt'.domains = rt.domains
  BY SchedOnly DEF IInv
<1>2. SameCaps(rt, rt')
  BY <1>1 DEF SameCaps
<1> QED BY <1>1, <1>2, SameCapsStep

\* What a task can ask for in a message.
LEMMA RequestsAreTyped ==
    ASSUME SpacesInv, HasDomain(rt, Current), NEW requested \in Requested
    PROVE  /\ Len(requested) \in Nat
           /\ \A m \in 1 .. Len(requested) : requested[m] \in Handle \X SUBSET RightNames
<1>1. DomainOf(rt, Current).caps \in Space
  BY SlotIsIn DEF SpacesInv, DomainOf
<1>2. \A x \in Presented : x \in Handle
  BY <1>1 DEF Presented, Space, Entry, Handle
<1>3. CASE requested = <<>>
  BY <1>3
<1>4. ASSUME NEW request \in Presented \X RequestRights, requested = <<request>>
      PROVE  /\ Len(requested) \in Nat
             /\ \A m \in 1 .. Len(requested) : requested[m] \in Handle \X SUBSET RightNames
  <2>1. request \in Handle \X SUBSET RightNames
    <3>1. \A rights \in RequestRights : rights \in SUBSET RightNames
      BY TaskRuntimeAssumption
    <3> QED BY <1>2, <3>1
  <2> QED BY <1>4, <2>1
<1> QED BY <1>3, <1>4 DEF Requested

\* Every action keeps the capability spaces, and what it gives was granted or
\* sent.
LEMMA NextGains ==
    ASSUME IInv, SpacesInv, [Next]_vars
    PROVE  SpacesInv' /\ GainIsSent
<1> DEFINE n == endpoint.next
           Kept == SpacesInv' /\ GainIsSent
<1>0. /\ RuntimeInv(rt, n) /\ SchedInv(rt.sched) /\ n \in Nat \ {0}
      /\ endpoint = [object |-> endpoint.object, next |-> endpoint.next]
      /\ \A j \in DomainSlots(rt) : rt.domains[j].caps \in Space
  BY DEF IInv, RuntimeInv, SpacesInv
<1>a. NoGain => GainIsSent
  BY DEF NoGain, GainIsSent
<1> HIDE DEF n
<1>1. ASSUME NEW priority \in Priorities, NEW page \in Pages, CreateTask(priority, page)
      PROVE  Kept
  <2>1. priority \in Priority
    BY TaskRuntimeAssumption
  <2>2. \E i \in Slots : \E d : Arrived(rt, rt', i, d) /\ d.page = page /\ d.caps = NewSpace
    BY <1>0, <1>1, <2>1, CreateDomainInv DEF CreateTask
  <2>3. Authority(NewSpace) = {}
    BY DEF Authority, NewSpace, EmptyEntry
  <2>4. NewSpace \in Space
    BY CapabilityAssumption DEF NewSpace, Space, EmptyEntry, Entry
  <2>5. UNCHANGED tickets
    BY <1>1 DEF CreateTask
  <2> QED BY <1>a, <2>2, <2>3, <2>4, <2>5, ArrivalGains
<1>2. ASSUME NEW id \in LiveIds, NEW rights \in GrantRights, GrantEndpoint(id, rights)
      PROVE  Kept
  <2> DEFINE space == Insert(DomainOf(rt, id).caps, EndpointObject, rights)
  <2>1. HasDomain(rt, id) /\ DomainOf(rt, id).caps \in Space
    BY LiveHasDomain, SlotIsIn DEF SpacesInv, DomainOf
  <2>2. PICK i \in CapSlots : InsertsAt(DomainOf(rt, id).caps, EndpointObject, rights, i)
    BY <1>2, <2>1, InsertedIsSpace, TaskRuntimeAssumption DEF GrantEndpoint
  <2>3. rt' = WithCaps(rt, id, space) /\ UNCHANGED tickets
    BY <1>2 DEF GrantEndpoint
  <2>a. /\ space \in Space
        /\ space[i].object = EndpointObject /\ space[i].rights = rights
        /\ \A m \in CapSlots \ {i} : space[m] = DomainOf(rt, id).caps[m]
    BY <2>2 DEF InsertsAt
  <2> HIDE DEF space
  <2> DEFINE k == DomainSlot(rt, id)
  <2>4. /\ SamePages(rt, rt') /\ k \in DomainSlots(rt)
        /\ \A j \in DomainSlots(rt) :
              rt'.domains[j].caps = IF j = k THEN space ELSE rt.domains[j].caps
    BY <1>0, <2>1, <2>3, WithCapsInv, SlotIsIn
  <2>5. SpacesInv'
    BY <2>3, <2>a, <2>4 DEF SpacesInv, SamePages
  <2>b. DomainOf(rt, id) = rt.domains[k]
    BY DEF DomainOf
  <2> HIDE DEF k
  <2>6. ASSUME NEW page \in Pages, NEW handle, HeldIn(rt', tickets', page, handle),
               ~HeldIn(rt, tickets, page, handle)
        PROVE  Granted(page, handle)
    <3>1. PICK j \in DomainSlots(rt) : /\ rt.domains[j].page = page
                                       /\ handle \in Authority(rt'.domains[j].caps)
                                       /\ handle \notin Authority(rt.domains[j].caps)
      BY <2>3, <2>4, <2>6 DEF HeldIn, SamePages
    <3>2. /\ DomainOf(rt, id).page = page /\ handle \in Authority(space)
          /\ handle \notin Authority(DomainOf(rt, id).caps)
      BY <2>4, <2>b, <3>1
    <3>3. PICK m \in CapSlots : /\ space[m].occupied
                                /\ handle = [slot |-> m, generation |-> space[m].generation,
                                             object |-> space[m].object, rights |-> space[m].rights]
      BY <3>2 DEF Authority
    <3>4. space[m] # DomainOf(rt, id).caps[m]
      BY <3>2, <3>3 DEF Authority
    <3>5. handle.object = EndpointObject /\ handle.rights = rights
      BY <2>a, <3>3, <3>4
    <3> QED BY <1>2, <3>2, <3>5 DEF Granted
  <2>7. GainIsSent
    BY <2>6, HeldIs DEF GainIsSent
  <2> QED BY <2>5, <2>7
<1>3. CASE StartRuntime
  BY <1>0, <1>a, <1>3, StartKeeps, SchedGains DEF StartRuntime
<1>4. CASE IdleTick
  BY <1>0, <1>a, <1>4, TickKeeps, SchedGains DEF IdleTick
<1>5. ASSUME NEW page \in Pages, PreemptTick(page) PROVE Kept
  <2>1. SamePages(rt, rt') /\ rt'.domains = rt.domains /\ UNCHANGED tickets
    BY <1>0, <1>5, PreemptInv DEF PreemptTick
  <2>2. SameCaps(rt, rt')
    BY <2>1 DEF SameCaps
  <2> QED BY <1>a, <2>1, <2>2, SameCapsStep
<1>6. CASE YieldCall
  BY <1>0, <1>a, <1>6, YieldKeeps, SchedGains DEF YieldCall
<1>7. CASE TerminateCall
  <2>1. Left(rt, rt', DomainSlot(rt, Current)) /\ UNCHANGED tickets
    BY <1>0, <1>7, TerminateDomainInv DEF TerminateCall, Current
  <2> QED BY <1>a, <2>1, DepartureGains
<1>8. ASSUME NEW receiver, NEW cap, NEW requested \in Requested,
             DeliverCall(receiver, cap, requested)
      PROVE  Kept
  <2> DEFINE result == DeliverIpc(rt, Current, receiver, endpoint, cap, requested)
  <2>1. /\ rt' = result.runtime /\ endpoint' = result.endpoint /\ UNCHANGED tickets
        /\ CanDeliver(rt, Current, receiver)
    BY <1>8 DEF DeliverCall
  <2>2. SamePages(rt, result.runtime)
    BY <1>0, <2>1, DeliverIpcInv DEF n
  <2>3. /\ Len(requested) \in Nat
        /\ \A m \in 1 .. Len(requested) : requested[m] \in Handle \X SUBSET RightNames
    BY <2>1, RequestsAreTyped DEF CanDeliver, CanSend
  <2>4. /\ CapsSent(rt, result.runtime, Current, receiver, result.ok)
        /\ result.ok => result.endpoint = Sent(endpoint)
    BY <1>0, <2>1, <2>3, DeliverIpcCaps DEF n
  <2>5. Current # NoTask /\ CanSend(rt, Current, receiver)
    BY <1>8, <2>1 DEF DeliverCall, CanDeliver
  <2> HIDE DEF result
  <2> QED BY <2>1, <2>2, <2>4, <2>5, MessageGains
<1>9. ASSUME NEW receiver, NEW cap, NEW requested \in Requested,
             SendCall(receiver, cap, requested)
      PROVE  Kept
  <2> DEFINE result == SendIpc(rt, Current, receiver, endpoint, cap, requested)
  <2>1. /\ rt' = result.runtime /\ endpoint' = result.endpoint /\ UNCHANGED tickets
        /\ CanSend(rt, Current, receiver)
    BY <1>9 DEF SendCall
  <2>2. SamePages(rt, result.runtime) /\ (result.ok => result.endpoint = Sent(endpoint))
    BY <1>0, <2>1, SendIpcInv DEF n
  <2>3. /\ Len(requested) \in Nat
        /\ \A m \in 1 .. Len(requested) : requested[m] \in Handle \X SUBSET RightNames
    BY <2>1, RequestsAreTyped DEF CanSend
  <2>4. CapsSent(rt, result.runtime, Current, receiver, result.ok) /\ Current # NoTask
    BY <1>0, <1>9, <2>1, <2>3, SendIpcCaps DEF n, SendCall
  <2> HIDE DEF result
  <2> QED BY <2>1, <2>2, <2>4, MessageGains
<1>10. CASE ReceiveCall
  BY <1>0, <1>a, <1>10, ReceiveOrBlockInv, SameCapsStep DEF ReceiveCall, Current
<1>11. ASSUME NEW id \in LiveIds, ReceiveFor(id) PROVE Kept
  BY <1>0, <1>a, <1>11, ReceiveIpcInv, SameCapsStep DEF ReceiveFor
<1>12. ASSUME NEW id \in LiveIds, DetachForMigration(id) PROVE Kept
  <2> DEFINE t == DomainTicket(rt, id)
             i == DomainSlot(rt, id)
  <2>0. rt' = DetachDomain(rt, id) /\ HasDomain(rt, id)
    BY <1>12, LiveHasDomain DEF DetachForMigration
  <2>1. CASE CanDetach(rt.sched, id)
    <3>1. Left(rt, rt', i) /\ t.domain = rt.domains[i]
      BY <1>0, <2>0, <2>1, DetachDomainInv DEF CanDetachDomain
    <3>2. tickets' = tickets \cup {t}
      BY <1>12, <2>1 DEF DetachForMigration
    <3> HIDE DEF t, i
    <3> QED BY <1>a, <3>1, <3>2, DepartureGains
  <2>2. CASE ~CanDetach(rt.sched, id)
    <3>1. SamePages(rt, rt') /\ SameCaps(rt, rt')
      BY <1>0, <2>0, <2>2, RejectedDetach DEF SamePages, SameCaps
    <3>2. UNCHANGED tickets
      BY <1>12, <2>2 DEF DetachForMigration
    <3> QED BY <1>a, <3>1, <3>2, SameCapsStep
  <2> QED BY <2>1, <2>2
<1>13. ASSUME NEW t \in tickets, AttachMigrated(t) PROVE Kept
  <2>1. TicketInv(t, n) /\ CanCreateDomain(rt)
    BY <1>13 DEF IInv, AttachMigrated, n
  <2>2. \E i \in Slots : \E d : /\ Arrived(rt, rt', i, d) /\ d.page = t.domain.page
                                /\ d.caps = t.domain.caps
    BY <1>0, <1>13, <2>1, AttachDomainInv DEF AttachMigrated, TicketInv
  <2>3. tickets' \subseteq tickets /\ t.domain.caps \in Space
    BY <1>13 DEF AttachMigrated, SpacesInv
  <2>4. \A handle \in Authority(t.domain.caps) : HeldIn(rt, tickets, t.domain.page, handle)
    BY DEF HeldIn
  <2> QED BY <1>a, <2>2, <2>3, <2>4, ArrivalGains
<1>14. CASE UNCHANGED vars
  <2>1. SamePages(rt, rt') /\ SameCaps(rt, rt') /\ UNCHANGED tickets
    BY <1>14 DEF vars, SamePages, SameCaps
  <2> QED BY <1>a, <2>1, SameCapsStep
<1> QED BY <1>1, <1>2, <1>3, <1>4, <1>5, <1>6, <1>7, <1>8, <1>9, <1>10, <1>11, <1>12, <1>13,
          <1>14 DEF Next, Ipc

\* A domain gets a handle only when the kernel grants it to this domain or when
\* the current task, which holds no less on the same object together with
\* DELEGATE, sends a message to this domain: what send_ipc derived for a message
\* it then refuses is gone, a new domain has nothing, and no tick, exit, receive
\* or migration adds to what a domain may do.
THEOREM AuthorityIsSent == Spec => AuthorityOnlySent
<1>1. Init => SpacesInv
  <2>1. DomainSlots(NewRuntime) = {}
    BY NewRuntimeInv
  <2> QED BY <2>1 DEF Init, SpacesInv
<1>2. IInv /\ SpacesInv /\ [Next]_vars => SpacesInv' /\ GainIsSent
  BY NextGains
<1> QED BY <1>1, <1>2, Always, PTL DEF Spec, AuthorityOnlySent, GainIsSent
=============================================================================
