----------------------- MODULE DomainMigrationProofs -----------------------
(***************************************************************************)
(* Theorems about DomainMigration, for any number of processors, tasks and *)
(* pages, any balancing interval, generation limit and quantum, and about  *)
(* PeriodicBalancer, the policy of one of its processors, by itself.       *)
(***************************************************************************)
EXTENDS DomainMigration, PeriodicBalancer, RuntimeProofs, FiniteSetTheorems

\* The loads a processor may have published.
AnyLoad == [occupied : Nat, runnable : Nat]

Shapes == /\ rt = [c \in Cpus |-> rt[c]]
          /\ mailbox = [c \in Cpus |-> mailbox[c]]
          /\ pending = [c \in Cpus |-> pending[c]]
          /\ hand = [c \in Cpus |-> hand[c]]
          /\ target \in [Cpus -> Cpus]
          /\ published \in [Cpus -> AnyLoad]
          /\ request \in [Cpus -> BOOLEAN]
          /\ notify \in [Cpus -> Cpus]
          /\ serving \in [Cpus -> BOOLEAN]
          /\ cursor \in [Cpus -> Cpus]

\* No message is sent in this model, so the next one is the first.
Resident(r) == /\ RuntimeInv(r, 1)
               /\ \A i \in DomainSlots(r) : r.domains[i].page \in Pages
Carried(t) == t = NoTicket \/ (TicketInv(t, 1) /\ t.domain.page \in Pages)

Domains == /\ \A c \in Cpus : Resident(rt[c])
           /\ \A c \in Cpus : Carried(mailbox[c]) /\ Carried(pending[c]) /\ Carried(hand[c])
           /\ \A c \in Cpus : pending[c] # NoTicket => target[c] # c

\* Who has yet to signal d; and one of the three stages of a signal for a
\* mailbox with a ticket, none for an empty one.
Signallers(d) == {c \in Cpus \ {d} : notify[c] = d}
Signalled(d) ==
    IF mailbox[d] = NoTicket
    THEN Signallers(d) = {} /\ ~request[d] /\ ~serving[d]
    ELSE \/ (\E c \in Cpus : Signallers(d) = {c}) /\ ~request[d] /\ ~serving[d]
         \/ Signallers(d) = {} /\ request[d] /\ ~serving[d]
         \/ Signallers(d) = {} /\ ~request[d] /\ serving[d]

\* The page tables by place; a page table is in one place if it is in L and in
\* none otherwise.
Where == [place \in Places |-> PageAt(place)]
OnePlace(w, L) ==
    /\ L \subseteq Pages
    /\ \A p \in Places : w[p] \in L \cup {NoPage}
    /\ \A p, q \in Places : w[p] \in Pages /\ w[p] = w[q] => p = q
    /\ \A page \in L : \E p \in Places : w[p] = page

IInv == /\ Shapes
        /\ Domains
        /\ \A d \in Cpus : Signalled(d)
        /\ OnePlace(Where, live)

-----------------------------------------------------------------------------
(***************************************************************************)
(* The balancing policy                                                    *)
(***************************************************************************)
\* Two processors have different offsets from a cursor.
LEMMA OffsetsDiffer ==
    ASSUME NEW k \in Cpus, NEW c \in Cpus, NEW d \in Cpus, c # d
    PROVE  /\ Offset(k, c) \in Nat /\ Offset(k, d) \in Nat
           /\ Offset(k, c) # Offset(k, d)
BY BalanceAssumption DEF Offset, Cpus

\* poll finds a processor whenever there is one worth sending to: the lightest
\* one that comes first from the cursor on.
LEMMA TargetIsPeer ==
    ASSUME NEW k \in Cpus, NEW c \in Cpus, NEW loads \in [Cpus -> AnyLoad], Peers(c, loads) # {}
    PROVE  LET t == SelectTarget(k, c, loads) IN
           /\ t \in Peers(c, loads)
           /\ \A q \in Peers(c, loads) \ {t} :
                 \/ Lighter(loads[t], loads[q])
                 \/ ~Lighter(loads[q], loads[t]) /\ Offset(k, t) < Offset(k, q)
<1> DEFINE P == Peers(c, loads)
<1>1. /\ P \subseteq Cpus
      /\ \A p \in P : loads[p].runnable \in Nat /\ loads[p].occupied \in Nat /\ Offset(k, p) \in Nat
  BY OffsetsDiffer, BalanceAssumption DEF Peers, AnyLoad, Offset, Cpus
<1>2. PICK p1 \in P : \A q \in P : loads[p1].runnable <= loads[q].runnable
  <2> DEFINE R == {loads[p].runnable : p \in P}
  <2>1. R \subseteq Nat /\ R # {}
    BY <1>1
  <2>2. PICK x \in R : \A y \in R : x <= y
    BY <2>1, HasLeast
  <2> QED BY <2>2
<1> DEFINE P1 == {q \in P : loads[q].runnable = loads[p1].runnable}
<1>3. PICK p2 \in P1 : \A q \in P1 : loads[p2].occupied <= loads[q].occupied
  <2> DEFINE R == {loads[p].occupied : p \in P1}
  <2>1. R \subseteq Nat /\ R # {}
    BY <1>1
  <2>2. PICK x \in R : \A y \in R : x <= y
    BY <2>1, HasLeast
  <2> QED BY <2>2
<1> DEFINE P2 == {q \in P1 : loads[q].occupied = loads[p2].occupied}
<1>4. PICK p3 \in P2 : \A q \in P2 : Offset(k, p3) <= Offset(k, q)
  <2> DEFINE R == {Offset(k, p) : p \in P2}
  <2>1. R \subseteq Nat /\ R # {}
    BY <1>1
  <2>2. PICK x \in R : \A y \in R : x <= y
    BY <2>1, HasLeast
  <2> QED BY <2>2
<1>5. ASSUME NEW q \in P \ {p3}
      PROVE  \/ Lighter(loads[p3], loads[q])
             \/ ~Lighter(loads[q], loads[p3]) /\ Offset(k, p3) < Offset(k, q)
  <2>1. /\ loads[p3].runnable \in Nat /\ loads[p3].occupied \in Nat
        /\ loads[q].runnable \in Nat /\ loads[q].occupied \in Nat
        /\ Offset(k, p3) \in Nat /\ Offset(k, q) \in Nat /\ Offset(k, p3) # Offset(k, q)
    BY <1>1, OffsetsDiffer
  <2>2. /\ loads[p3].runnable <= loads[q].runnable
        /\ loads[q].runnable = loads[p3].runnable => loads[p3].occupied <= loads[q].occupied
        /\ loads[q].runnable = loads[p3].runnable /\ loads[q].occupied = loads[p3].occupied
             => Offset(k, p3) <= Offset(k, q)
    BY <1>2, <1>3, <1>4
  <2> HIDE DEF P, P1, P2
  <2> QED BY <2>1, <2>2 DEF Lighter
<1>6. p3 \in P
  OBVIOUS
<1> HIDE DEF P, P1, P2
<1> QED BY <1>5, <1>6 DEF SelectTarget, P

\* The tick does not change the load.
LEMMA TickedLoad ==
    ASSUME NEW r, Resident(r)
    PROVE  /\ SchedInv(TimerTick(r.sched))
           /\ RunnableSlots(TimerTick(r.sched)) = RunnableSlots(r.sched)
           /\ OccupiedSlots(TimerTick(r.sched)) = OccupiedSlots(r.sched)
<1>1. SchedInv(r.sched)
  BY DEF Resident, RuntimeInv
<1>2. SchedInv(TimerTick(r.sched)) /\ SameTasks(r.sched, TimerTick(r.sched))
  BY <1>1, TickKeeps
<1> QED BY <1>2 DEF SameTasks, SameTask, RunnableSlots, OccupiedSlots

\* A load is a pair of naturals.
LEMMA LoadIsLoad ==
    ASSUME NEW s
    PROVE  /\ Load(s) \in AnyLoad /\ IsFiniteSet(RunnableSlots(s))
           /\ Load(s).runnable = Cardinality(RunnableSlots(s))
<1>1. IsFiniteSet(Slots)
  BY SchedulerAssumption, FS_Interval DEF Slots
<1>2. OccupiedSlots(s) \in SUBSET Slots /\ RunnableSlots(s) \in SUBSET Slots
  BY DEF OccupiedSlots, RunnableSlots
<1>3. IsFiniteSet(OccupiedSlots(s)) /\ IsFiniteSet(RunnableSlots(s))
  BY <1>1, <1>2, FS_Subset
<1>4. Cardinality(OccupiedSlots(s)) \in Nat /\ Cardinality(RunnableSlots(s)) \in Nat
  BY <1>3, FS_CardinalityType
<1> QED BY <1>3, <1>4 DEF Load, AnyLoad

\* With two runnable tasks one of them is not the current one.
LEMMA TwoHaveCandidate ==
    ASSUME NEW s, SchedInv(s), Cardinality(RunnableSlots(s)) >= 2
    PROVE  MigrationCandidates(s) # {}
<1> SUFFICES ASSUME MigrationCandidates(s) = {} PROVE FALSE
  OBVIOUS
<1>1. \A i \in RunnableSlots(s) : IdOf(s, i) = s.current
  BY DEF MigrationCandidates
<1> DEFINE k == s.current.slot
<1>2. \A i \in RunnableSlots(s) : i = k
  <2>1. \A i : IdOf(s, i).slot = i
    BY DEF IdOf
  <2> QED BY <1>1, <2>1
<1> HIDE DEF k
<1>3. RunnableSlots(s) \in SUBSET {k} /\ IsFiniteSet({k}) /\ Cardinality({k}) = 1
  BY <1>2, FS_Singleton
<1>4. Cardinality(RunnableSlots(s)) <= 1
  BY <1>3, FS_Subset
<1>5. Cardinality(RunnableSlots(s)) \in Nat
  BY LoadIsLoad, FS_CardinalityType
<1> QED BY <1>4, <1>5

\* The loads a balancer sees are loads.
LEMMA SeenLoads ==
    ASSUME Shapes, NEW c \in Cpus
    PROVE  /\ Seen(c) \in [Cpus -> AnyLoad] /\ Seen(c)[c] = Load(rt[c].sched)
BY LoadIsLoad DEF Seen, Shapes

\* When the policy selects a peer the scheduler agrees and has a task to give.
LEMMA PolicyHasTask ==
    ASSUME Shapes, NEW c \in Cpus, Resident(rt[c]), Peers(c, Seen(c)) # {}
    PROVE  /\ SelectTarget(cursor[c], c, Seen(c)) \in Cpus \ {c}
           /\ WorthMoving(Ticked(c).sched, Seen(c)[SelectTarget(cursor[c], c, Seen(c))], CAPACITY)
           /\ MigrationCandidates(Ticked(c).sched) # {}
<1> DEFINE d == SelectTarget(cursor[c], c, Seen(c))
           seen == Seen(c)
           s == TimerTick(rt[c].sched)
<1>1. seen \in [Cpus -> AnyLoad] /\ seen[c] = Load(rt[c].sched)
  BY SeenLoads
<1>2. cursor[c] \in Cpus
  BY DEF Shapes
<1>3. d \in Peers(c, seen)
  BY <1>1, <1>2, TargetIsPeer
<1>4. Ticked(c).sched = s
  BY DEF Ticked, Resident, RuntimeInv, IsRuntime
<1>5. /\ SchedInv(s) /\ RunnableSlots(s) = RunnableSlots(rt[c].sched)
  BY TickedLoad
<1>6. Load(s).runnable = Load(rt[c].sched).runnable
  BY <1>5, LoadIsLoad
<1> HIDE DEF d, seen, s
<1>7. /\ d \in Cpus \ {c} /\ seen[d].occupied # CAPACITY
      /\ seen[c].runnable >= seen[d].runnable + 2
  BY <1>3 DEF Peers
<1>8. seen[d].runnable \in Nat /\ seen[c].runnable \in Nat
  BY <1>1, <1>7 DEF AnyLoad
<1>9. WorthMoving(s, seen[d], CAPACITY)
  BY <1>1, <1>6, <1>7, <1>8 DEF WorthMoving
<1>10. Cardinality(RunnableSlots(s)) >= 2
  BY <1>1, <1>6, <1>7, <1>8, LoadIsLoad
<1>11. MigrationCandidates(s) # {}
  BY <1>5, <1>10, TwoHaveCandidate
<1> QED BY <1>4, <1>7, <1>9, <1>11 DEF d, seen, s

-----------------------------------------------------------------------------
(***************************************************************************)
(* Signals                                                                 *)
(***************************************************************************)
Signals == \A d \in Cpus : Signalled(d)

\* publish into an empty mailbox starts the one signal of its ticket.
LEMMA PublishSignals ==
    ASSUME Shapes, Signals, NEW c \in Cpus, NEW d \in Cpus, c # d, Idle(c),
           NEW ticket, ticket # NoTicket, PublishOrKeep(c, d, ticket),
           UNCHANGED <<request, serving>>
    PROVE  Signals'
<1>1. CASE mailbox[d] # NoTicket
  <2>1. UNCHANGED <<mailbox, notify>>
    BY <1>1 DEF PublishOrKeep
  <2> QED BY <2>1 DEF Signals, Signalled, Signallers
<1>2. CASE mailbox[d] = NoTicket
  <2>1. /\ mailbox' = [mailbox EXCEPT ![d] = ticket]
        /\ notify' = [notify EXCEPT ![c] = d] /\ notify[c] = c
    BY <1>2 DEF PublishOrKeep, Idle
  <2>2. Signallers(d) = {} /\ ~request[d] /\ ~serving[d]
    BY <1>2 DEF Signals, Signalled
  <2>3. /\ mailbox'[d] = ticket /\ \A e \in Cpus \ {d} : mailbox'[e] = mailbox[e]
        /\ notify'[c] = d /\ \A e \in Cpus \ {c} : notify'[e] = notify[e]
    BY <2>1 DEF Shapes
  <2>4. Signallers(d)' = {c}
    BY <2>2, <2>3 DEF Signallers
  <2>5. \A e \in Cpus \ {d} : Signallers(e)' = Signallers(e)
    BY <2>1, <2>3 DEF Signallers
  <2>6. Signalled(d)'
    BY <2>2, <2>3, <2>4 DEF Signalled
  <2>7. ASSUME NEW e \in Cpus \ {d} PROVE Signalled(e)'
    <3>1. Signalled(e) /\ Signallers(e)' = Signallers(e) /\ mailbox'[e] = mailbox[e]
      BY <2>3, <2>5 DEF Signals
    <3> QED BY <3>1 DEF Signalled
  <2> QED BY <2>6, <2>7 DEF Signals
<1> QED BY <1>1, <1>2

\* The publisher raises the request it owes.
LEMMA RaiseSignals ==
    ASSUME Shapes, Signals, NEW c \in Cpus, RaiseRequest(c)
    PROVE  Signals'
<1>1. PICK d \in Cpus :
         /\ d = notify[c] /\ d # c /\ ~request[d]
         /\ request' = [request EXCEPT ![d] = TRUE] /\ notify' = [notify EXCEPT ![c] = c]
         /\ UNCHANGED <<mailbox, serving>>
  BY DEF RaiseRequest, Shapes
<1>2. Signalled(d) /\ c \in Signallers(d)
  BY <1>1 DEF Signals, Signallers
<1>3. mailbox[d] # NoTicket /\ Signallers(d) = {c} /\ ~serving[d]
  BY <1>2 DEF Signalled
<1>4. /\ request'[d] /\ \A e \in Cpus \ {d} : request'[e] = request[e]
      /\ notify'[c] = c /\ \A e \in Cpus \ {c} : notify'[e] = notify[e]
  BY <1>1 DEF Shapes
<1>5. Signallers(d)' = {}
  BY <1>1, <1>3, <1>4 DEF Signallers
<1>6. \A e \in Cpus \ {d} : Signallers(e)' = Signallers(e)
  BY <1>1, <1>4 DEF Signallers
<1>7. Signalled(d)'
  BY <1>1, <1>3, <1>4, <1>5 DEF Signalled
<1>8. ASSUME NEW e \in Cpus \ {d} PROVE Signalled(e)'
  <2>1. Signalled(e) /\ Signallers(e)' = Signallers(e) /\ request'[e] = request[e]
    BY <1>4, <1>6 DEF Signals
  <2> QED BY <1>1, <2>1 DEF Signalled
<1> QED BY <1>7, <1>8 DEF Signals

\* The handler consumes the request.
LEMMA RescheduleSignals ==
    ASSUME Shapes, Signals, NEW c \in Cpus, Reschedule(c)
    PROVE  Signals'
<1>1. /\ request[c] /\ request' = [request EXCEPT ![c] = FALSE]
      /\ serving' = [serving EXCEPT ![c] = TRUE] /\ UNCHANGED <<mailbox, notify>>
  BY DEF Reschedule
<1>2. /\ ~request'[c] /\ \A e \in Cpus \ {c} : request'[e] = request[e]
      /\ serving'[c] /\ \A e \in Cpus \ {c} : serving'[e] = serving[e]
  BY <1>1 DEF Shapes
<1>3. \A e \in Cpus : Signallers(e)' = Signallers(e)
  BY <1>1 DEF Signallers
<1>4. ASSUME NEW e \in Cpus PROVE Signalled(e)'
  <2>1. Signalled(e)
    BY DEF Signals
  <2>2. CASE e = c
    BY <1>1, <1>2, <1>3, <2>1, <2>2 DEF Signalled
  <2>3. CASE e # c
    BY <1>1, <1>2, <1>3, <2>1, <2>3 DEF Signalled
  <2> QED BY <2>2, <2>3
<1> QED BY <1>4 DEF Signals

\* The handler takes the ticket, and with it ends the signal.
LEMMA TakeSignals ==
    ASSUME Shapes, Signals, NEW c \in Cpus, Take(c)
    PROVE  Signals' /\ mailbox[c] # NoTicket
<1>1. /\ serving[c] /\ mailbox' = [mailbox EXCEPT ![c] = NoTicket]
      /\ serving' = [serving EXCEPT ![c] = FALSE] /\ UNCHANGED <<request, notify>>
  BY DEF Take
<1>2. /\ mailbox'[c] = NoTicket /\ \A e \in Cpus \ {c} : mailbox'[e] = mailbox[e]
      /\ ~serving'[c] /\ \A e \in Cpus \ {c} : serving'[e] = serving[e]
  BY <1>1 DEF Shapes
<1>3. \A e \in Cpus : Signallers(e)' = Signallers(e)
  BY <1>1 DEF Signallers
<1>4. Signalled(c)' /\ mailbox[c] # NoTicket
  BY <1>1, <1>2, <1>3 DEF Signals, Signalled
<1>5. ASSUME NEW e \in Cpus \ {c} PROVE Signalled(e)'
  <2>1. Signalled(e)
    BY DEF Signals
  <2> QED BY <1>1, <1>2, <1>3, <2>1 DEF Signalled
<1> QED BY <1>4, <1>5 DEF Signals

-----------------------------------------------------------------------------
(***************************************************************************)
(* Places                                                                  *)
(***************************************************************************)
Boxes == {"mailbox", "pending", "hand"}

\* A place is an entry of a runtime or one of a processor's three tickets.
LEMMA PlaceIs ==
    ASSUME NEW p \in Places
    PROVE  \/ \E c \in Cpus, i \in Slots : p = <<"runtime", c, i>>
           \/ \E c \in Cpus, k \in Boxes : p = <<k, c, 0>>
BY DEF Places, Boxes

\* What is there.
LEMMA WhereIs ==
    /\ \A c \in Cpus, i \in Slots : /\ <<"runtime", c, i>> \in Places
                                    /\ Where[<<"runtime", c, i>>] = rt[c].domains[i].page
    /\ \A c \in Cpus : /\ <<"mailbox", c, 0>> \in Places
                       /\ Where[<<"mailbox", c, 0>>] = mailbox[c].domain.page
                       /\ <<"pending", c, 0>> \in Places
                       /\ Where[<<"pending", c, 0>>] = pending[c].domain.page
                       /\ <<"hand", c, 0>> \in Places
                       /\ Where[<<"hand", c, 0>>] = hand[c].domain.page
BY DEF Where, Places, PageAt

\* One domain is created where none was.
LEMMA PlaceAdd ==
    ASSUME NEW w, NEW v, NEW L, OnePlace(w, L), NEW q \in Places, w[q] = NoPage,
           NEW page \in Pages \ L, v[q] = page, \A p \in Places \ {q} : v[p] = w[p]
    PROVE  OnePlace(v, L \cup {page})
BY PagesAssumption DEF OnePlace

\* One domain is dropped.
LEMMA PlaceDrop ==
    ASSUME NEW w, NEW v, NEW L, OnePlace(w, L), NEW q \in Places, v[q] = NoPage,
           w[q] \in Pages, \A p \in Places \ {q} : v[p] = w[p]
    PROVE  OnePlace(v, L \ {w[q]})
BY PagesAssumption DEF OnePlace

\* One domain is moved.
LEMMA PlaceMove ==
    ASSUME NEW w, NEW v, NEW L, OnePlace(w, L), NEW p \in Places, NEW q \in Places, p # q,
           w[q] = NoPage, v[q] = w[p], v[p] = NoPage,
           \A x \in Places \ {p, q} : v[x] = w[x]
    PROVE  OnePlace(v, L)
BY PagesAssumption DEF OnePlace

\* Nothing is moved.
LEMMA PlaceKeep ==
    ASSUME NEW w, NEW v, NEW L, OnePlace(w, L), \A x \in Places : v[x] = w[x]
    PROVE  OnePlace(v, L)
BY DEF OnePlace

\* What is there after a step.
LEMMA WhereNext ==
    /\ \A c \in Cpus, i \in Slots : Where'[<<"runtime", c, i>>] = rt'[c].domains[i].page
    /\ \A c \in Cpus : /\ Where'[<<"mailbox", c, 0>>] = mailbox'[c].domain.page
                       /\ Where'[<<"pending", c, 0>>] = pending'[c].domain.page
                       /\ Where'[<<"hand", c, 0>>] = hand'[c].domain.page
BY DEF Where, Places, PageAt

\* A step that changes what is in the places of a set X, and nothing else.
LEMMA WhereSame ==
    ASSUME NEW X,
           \A c \in Cpus, i \in Slots : <<"runtime", c, i>> \in X
                                          \/ rt'[c].domains[i].page = rt[c].domains[i].page,
           \A c \in Cpus : /\ <<"mailbox", c, 0>> \in X \/ mailbox'[c] = mailbox[c]
                           /\ <<"pending", c, 0>> \in X \/ pending'[c] = pending[c]
                           /\ <<"hand", c, 0>> \in X \/ hand'[c] = hand[c]
    PROVE  \A x \in Places \ X : Where'[x] = Where[x]
<1> SUFFICES ASSUME NEW x \in Places \ X PROVE Where'[x] = Where[x]
  OBVIOUS
<1>1. CASE \E c \in Cpus, i \in Slots : x = <<"runtime", c, i>>
  BY <1>1, WhereIs, WhereNext
<1>2. CASE \E c \in Cpus, k \in Boxes : x = <<k, c, 0>>
  <2>1. PICK c \in Cpus, k \in Boxes : x = <<k, c, 0>>
    BY <1>2
  <2>2. k = "mailbox" \/ k = "pending" \/ k = "hand"
    BY DEF Boxes
  <2>3. CASE k = "mailbox"
    <3>1. x = <<"mailbox", c, 0>>
      BY <2>1, <2>3
    <3>2. mailbox'[c] = mailbox[c]
      BY <3>1
    <3>3. Where[<<"mailbox", c, 0>>] = mailbox[c].domain.page
      BY WhereIs
    <3>4. Where'[<<"mailbox", c, 0>>] = mailbox'[c].domain.page
      BY WhereNext
    <3> QED BY <3>1, <3>2, <3>3, <3>4
  <2>4. CASE k = "pending"
    <3>1. x = <<"pending", c, 0>>
      BY <2>1, <2>4
    <3>2. pending'[c] = pending[c]
      BY <3>1
    <3>3. Where[<<"pending", c, 0>>] = pending[c].domain.page
      BY WhereIs
    <3>4. Where'[<<"pending", c, 0>>] = pending'[c].domain.page
      BY WhereNext
    <3> QED BY <3>1, <3>2, <3>3, <3>4
  <2>5. CASE k = "hand"
    <3>1. x = <<"hand", c, 0>>
      BY <2>1, <2>5
    <3>2. hand'[c] = hand[c]
      BY <3>1
    <3>3. Where[<<"hand", c, 0>>] = hand[c].domain.page
      BY WhereIs
    <3>4. Where'[<<"hand", c, 0>>] = hand'[c].domain.page
      BY WhereNext
    <3> QED BY <3>1, <3>2, <3>3, <3>4
  <2> QED BY <2>2, <2>3, <2>4, <2>5
<1> QED BY <1>1, <1>2, PlaceIs

\* An entry without a domain has no page table.
LEMMA NoDomainNoPage ==
    ASSUME NEW r, NEW i \in Slots, i \notin DomainSlots(r)
    PROVE  r.domains[i].page = NoPage
BY DEF DomainSlots, NoDomain

\* Operations that keep every domain where it is.
LEMMA PagesSame ==
    ASSUME NEW r, Resident(r), NEW u, RuntimeInv(u, 1), SamePages(r, u)
    PROVE  Resident(u) /\ \A i \in Slots : u.domains[i].page = r.domains[i].page
<1>1. Resident(u)
  BY DEF Resident, SamePages
<1>2. ASSUME NEW i \in Slots PROVE u.domains[i].page = r.domains[i].page
  <2>1. CASE i \in DomainSlots(r)
    BY <2>1 DEF SamePages
  <2>2. CASE i \notin DomainSlots(r)
    BY <2>2, NoDomainNoPage DEF SamePages
  <2> QED BY <2>1, <2>2
<1> QED BY <1>1, <1>2

\* Operations that put a domain into a free entry.
LEMMA PagesArrived ==
    ASSUME NEW r, Resident(r), NEW u, RuntimeInv(u, 1), NEW i \in Slots, NEW d,
           Arrived(r, u, i, d), d.page \in Pages
    PROVE  /\ Resident(u) /\ r.domains[i].page = NoPage /\ u.domains[i].page = d.page
           /\ \A j \in Slots \ {i} : u.domains[j].page = r.domains[j].page
<1>1. Resident(u)
  BY DEF Resident, Arrived
<1>2. r.domains[i].page = NoPage /\ u.domains[i].page = d.page
  BY NoDomainNoPage DEF Arrived
<1>3. ASSUME NEW j \in Slots \ {i} PROVE u.domains[j].page = r.domains[j].page
  <2>1. CASE j \in DomainSlots(r)
    BY <2>1 DEF Arrived
  <2>2. CASE j \notin DomainSlots(r)
    BY <2>2, NoDomainNoPage DEF Arrived
  <2> QED BY <2>1, <2>2
<1> QED BY <1>1, <1>2, <1>3

\* Operations that clear an entry.
LEMMA PagesLeft ==
    ASSUME NEW r, Resident(r), NEW u, RuntimeInv(u, 1), NEW i, Left(r, u, i)
    PROVE  /\ Resident(u) /\ i \in Slots /\ r.domains[i].page \in Pages
           /\ u.domains[i].page = NoPage
           /\ \A j \in Slots \ {i} : u.domains[j].page = r.domains[j].page
<1>1. i \in Slots /\ i \in DomainSlots(r) /\ i \notin DomainSlots(u)
  BY DEF Left, DomainSlots
<1>2. Resident(u)
  BY DEF Resident, Left
<1>3. r.domains[i].page \in Pages /\ u.domains[i].page = NoPage
  BY <1>1, NoDomainNoPage DEF Resident
<1>4. ASSUME NEW j \in Slots \ {i} PROVE u.domains[j].page = r.domains[j].page
  <2>1. CASE j \in DomainSlots(u)
    BY <2>1 DEF Left
  <2>2. CASE j \notin DomainSlots(u)
    BY <2>2, NoDomainNoPage DEF Left
  <2> QED BY <2>1, <2>2
<1> QED BY <1>1, <1>2, <1>3, <1>4

\* The current task has a domain.
LEMMA CurrentHasDomain ==
    ASSUME NEW r, RuntimeInv(r, 1), NEW id \in TaskId, Valid(r.sched, id)
    PROVE  HasDomain(r, id)
<1>1. id.slot \in OccupiedSlots(r.sched) /\ IdOf(r.sched, id.slot) = id
  BY DEF Valid, OccupiedSlots, IdOf, TaskId
<1> QED BY <1>1 DEF RuntimeInv, DomainsAreTasks

\* A tick keeps the domains where they are.
LEMMA TickedResident ==
    ASSUME Shapes, NEW c \in Cpus, Resident(rt[c])
    PROVE  /\ Resident(Ticked(c)) /\ Ticked(c).domains = rt[c].domains
           /\ Ticked(c).sched = TimerTick(rt[c].sched)
<1> DEFINE r == rt[c]
           s == TimerTick(r.sched)
<1>1. RuntimeInv(r, 1) /\ SchedInv(s) /\ SameTasks(r.sched, s)
  BY TickKeeps DEF Resident, RuntimeInv
<1>2. Ticked(c) = [r EXCEPT !.sched = s]
  BY DEF Ticked
<1> HIDE DEF r, s
<1>3. /\ RuntimeInv(Ticked(c), 1) /\ SamePages(r, Ticked(c))
      /\ Ticked(c).sched = s /\ Ticked(c).domains = r.domains
  BY <1>1, <1>2, SchedOnly
<1>4. Resident(Ticked(c))
  BY <1>3, PagesSame DEF r
<1> QED BY <1>3, <1>4 DEF r, s

-----------------------------------------------------------------------------
(***************************************************************************)
(* The steps                                                               *)
(***************************************************************************)
\* The entry of one processor is replaced.
LEMMA OneEntry ==
    ASSUME NEW f, f = [e \in Cpus |-> f[e]], NEW c \in Cpus, NEW u
    PROVE  LET g == [f EXCEPT ![c] = u] IN
           /\ g = [e \in Cpus |-> g[e]] /\ g[c] = u
           /\ \A e \in Cpus \ {c} : g[e] = f[e]
OBVIOUS

\* A domain with a page table is no missing ticket.
LEMMA TicketIsSome ==
    /\ NoTicket.domain.page = NoPage
    /\ \A t : t.domain.page \in Pages => t # NoTicket
<1>1. NoTicket.domain.page = NoPage
  BY DEF NoTicket
<1> QED BY <1>1, PagesAssumption

\* A step of one runtime that moves no domain.
LEMMA StayStep ==
    ASSUME IInv, NEW c \in Cpus, NEW u, RuntimeInv(u, 1), SamePages(rt[c], u),
           rt' = [rt EXCEPT ![c] = u], UNCHANGED <<mailbox, pending, hand, target, live>>
    PROVE  /\ Domains' /\ OnePlace(Where', live') /\ rt' = [e \in Cpus |-> rt'[e]]
<1>1. /\ rt' = [e \in Cpus |-> rt'[e]] /\ rt'[c] = u /\ \A e \in Cpus \ {c} : rt'[e] = rt[e]
  BY OneEntry DEF IInv, Shapes
<1>2. Resident(u) /\ \A i \in Slots : u.domains[i].page = rt[c].domains[i].page
  BY PagesSame DEF IInv, Domains
<1>3. Domains'
  BY <1>1, <1>2 DEF IInv, Domains
<1>4. \A x \in Places \ {} : Where'[x] = Where[x]
  <2>1. \A e \in Cpus, i \in Slots : rt'[e].domains[i].page = rt[e].domains[i].page
    BY <1>1, <1>2
  <2> QED BY <2>1, WhereSame, Zenon
<1>5. OnePlace(Where', live')
  BY <1>4, PlaceKeep DEF IInv
<1> QED BY <1>1, <1>3, <1>5

\* create makes a domain under a page table that was in no place.
LEMMA CreateStep ==
    ASSUME IInv, NEW c \in Cpus, NEW page \in Pages, CreateTask(c, page)
    PROVE  /\ Domains' /\ OnePlace(Where', live') /\ rt' = [e \in Cpus |-> rt'[e]]
<1> DEFINE u == CreateDomain(rt[c], 0, page)
<1>1. /\ CanCreateDomain(rt[c]) /\ page \notin live /\ rt' = [rt EXCEPT ![c] = u]
      /\ live' = live \cup {page} /\ UNCHANGED <<mailbox, pending, hand, target>>
  BY DEF CreateTask, balancing
<1>2. 0 \in Priority /\ Resident(rt[c])
  BY DEF Priority, IInv, Domains
<1>3. RuntimeInv(u, 1) /\ \E i \in Slots : \E d : Arrived(rt[c], u, i, d) /\ d.page = page
  BY <1>1, <1>2, CreateDomainInv DEF Resident
<1>4. PICK i \in Slots : \E d : Arrived(rt[c], u, i, d) /\ d.page = page
  BY <1>3
<1>5. PICK d : Arrived(rt[c], u, i, d) /\ d.page = page
  BY <1>4
<1> HIDE DEF u
<1>6. /\ Resident(u) /\ rt[c].domains[i].page = NoPage /\ u.domains[i].page = page
      /\ \A j \in Slots \ {i} : u.domains[j].page = rt[c].domains[j].page
  BY <1>2, <1>3, <1>5, PagesArrived
<1>7. /\ rt' = [e \in Cpus |-> rt'[e]] /\ rt'[c] = u /\ \A e \in Cpus \ {c} : rt'[e] = rt[e]
  BY <1>1, OneEntry DEF IInv, Shapes
<1>8. Domains'
  BY <1>1, <1>6, <1>7 DEF IInv, Domains
<1> DEFINE q == <<"runtime", c, i>>
<1>9. \A x \in Places \ {q} : Where'[x] = Where[x]
  <2>1. \A e \in Cpus, j \in Slots : <<"runtime", e, j>> \in {q}
                                       \/ rt'[e].domains[j].page = rt[e].domains[j].page
    BY <1>6, <1>7
  <2> HIDE DEF q
  <2> QED BY <1>1, <2>1, WhereSame
<1>10. q \in Places /\ Where[q] = NoPage /\ Where'[q] = page
  BY <1>6, <1>7, WhereIs, WhereNext
<1> HIDE DEF q
<1>11. OnePlace(Where', live')
  BY <1>1, <1>9, <1>10, PlaceAdd DEF IInv
<1> QED BY <1>7, <1>8, <1>11

\* terminate_current drops the domain of the current task.
LEMMA TerminateStep ==
    ASSUME IInv, NEW c \in Cpus, TerminateCall(c)
    PROVE  /\ Domains' /\ OnePlace(Where', live') /\ rt' = [e \in Cpus |-> rt'[e]]
<1> DEFINE u == TerminateDomain(rt[c])
           id == rt[c].sched.current
<1>1. /\ id # NoTask /\ rt' = [rt EXCEPT ![c] = u]
      /\ live' = live \ {DomainOf(rt[c], id).page}
      /\ UNCHANGED <<mailbox, pending, hand, target>>
  BY DEF TerminateCall, balancing
<1>2. Resident(rt[c]) /\ RuntimeInv(rt[c], 1)
  BY DEF IInv, Domains, Resident
<1>3. id \in TaskId /\ Valid(rt[c].sched, id)
  BY <1>1, <1>2 DEF RuntimeInv, SchedInv, SchedulerType, CurrentLive
<1>4. HasDomain(rt[c], id)
  BY <1>2, <1>3, CurrentHasDomain
<1>5. RuntimeInv(u, 1) /\ Left(rt[c], u, DomainSlot(rt[c], id))
  BY <1>1, <1>2, <1>4, TerminateDomainInv
<1>6. PICK i : i = DomainSlot(rt[c], id)
  OBVIOUS
<1>7. DomainOf(rt[c], id) = rt[c].domains[i]
  BY <1>6 DEF DomainOf
<1> HIDE DEF u, id
<1>8. /\ Resident(u) /\ i \in Slots /\ rt[c].domains[i].page \in Pages
      /\ u.domains[i].page = NoPage
      /\ \A j \in Slots \ {i} : u.domains[j].page = rt[c].domains[j].page
  BY <1>2, <1>5, <1>6, PagesLeft
<1>9. /\ rt' = [e \in Cpus |-> rt'[e]] /\ rt'[c] = u /\ \A e \in Cpus \ {c} : rt'[e] = rt[e]
  BY <1>1, OneEntry DEF IInv, Shapes
<1>10. Domains'
  BY <1>1, <1>8, <1>9 DEF IInv, Domains
<1> DEFINE q == <<"runtime", c, i>>
<1>11. \A x \in Places \ {q} : Where'[x] = Where[x]
  <2>1. \A e \in Cpus, j \in Slots : <<"runtime", e, j>> \in {q}
                                       \/ rt'[e].domains[j].page = rt[e].domains[j].page
    BY <1>8, <1>9
  <2> HIDE DEF q
  <2> QED BY <1>1, <2>1, WhereSame
<1>12. q \in Places /\ Where[q] = rt[c].domains[i].page /\ Where'[q] = NoPage
  BY <1>8, <1>9, WhereIs, WhereNext
<1> HIDE DEF q
<1>13. OnePlace(Where', live')
  BY <1>1, <1>7, <1>8, <1>11, <1>12, PlaceDrop DEF IInv
<1> QED BY <1>9, <1>10, <1>13

\* publish moves the ticket into the mailbox or keeps it as pending.
LEMMA PublishBoxes ==
    ASSUME Shapes, Domains, NEW c \in Cpus, NEW d \in Cpus, c # d,
           NEW ticket, Carried(ticket), ticket # NoTicket, PublishOrKeep(c, d, ticket)
    PROVE  /\ mailbox' = [e \in Cpus |-> mailbox'[e]] /\ pending' = [e \in Cpus |-> pending'[e]]
           /\ target' \in [Cpus -> Cpus] /\ notify' \in [Cpus -> Cpus]
           /\ \A e \in Cpus : /\ Carried(mailbox'[e]) /\ Carried(pending'[e])
                              /\ pending'[e] # NoTicket => target'[e] # e
           /\ \A e \in Cpus \ {d} : mailbox'[e] = mailbox[e]
           /\ \A e \in Cpus \ {c} : pending'[e] = pending[e]
           /\ \/ mailbox[d] = NoTicket /\ mailbox'[d] = ticket /\ pending'[c] = NoTicket
              \/ mailbox'[d] = mailbox[d] /\ pending'[c] = ticket
<1>1. CASE mailbox[d] = NoTicket
  <2>1. /\ mailbox' = [mailbox EXCEPT ![d] = ticket]
        /\ pending' = [pending EXCEPT ![c] = NoTicket]
        /\ target' = [target EXCEPT ![c] = c]
        /\ notify' = [notify EXCEPT ![c] = d]
    BY <1>1 DEF PublishOrKeep
  <2>2. /\ mailbox' = [e \in Cpus |-> mailbox'[e]] /\ mailbox'[d] = ticket
        /\ \A e \in Cpus \ {d} : mailbox'[e] = mailbox[e]
    BY <2>1, OneEntry DEF Shapes
  <2>3. /\ pending' = [e \in Cpus |-> pending'[e]] /\ pending'[c] = NoTicket
        /\ \A e \in Cpus \ {c} : pending'[e] = pending[e]
    BY <2>1, OneEntry DEF Shapes
  <2>4. /\ target' \in [Cpus -> Cpus] /\ \A e \in Cpus \ {c} : target'[e] = target[e]
        /\ notify' \in [Cpus -> Cpus]
    BY <2>1 DEF Shapes
  <2>5. \A e \in Cpus : /\ Carried(mailbox'[e]) /\ Carried(pending'[e])
                        /\ pending'[e] # NoTicket => target'[e] # e
    <3>1. Carried(NoTicket)
      BY DEF Carried
    <3>2. \A e \in Cpus : Carried(mailbox'[e])
      BY <2>2 DEF Domains
    <3>3. \A e \in Cpus : Carried(pending'[e])
      BY <2>3, <3>1 DEF Domains
    <3>4. \A e \in Cpus : pending'[e] # NoTicket => target'[e] # e
      BY <2>3, <2>4 DEF Domains
    <3> QED BY <3>2, <3>3, <3>4
  <2> QED BY <1>1, <2>2, <2>3, <2>4, <2>5
<1>2. CASE mailbox[d] # NoTicket
  <2>1. /\ pending' = [pending EXCEPT ![c] = ticket]
        /\ target' = [target EXCEPT ![c] = d]
        /\ UNCHANGED <<mailbox, notify>>
    BY <1>2 DEF PublishOrKeep
  <2>2. /\ pending' = [e \in Cpus |-> pending'[e]] /\ pending'[c] = ticket
        /\ \A e \in Cpus \ {c} : pending'[e] = pending[e]
    BY <2>1, OneEntry DEF Shapes
  <2>3. /\ target' \in [Cpus -> Cpus] /\ \A e \in Cpus \ {c} : target'[e] = target[e]
        /\ target'[c] = d
    BY <2>1 DEF Shapes
  <2>4. \A e \in Cpus : /\ Carried(mailbox'[e]) /\ Carried(pending'[e])
                        /\ pending'[e] # NoTicket => target'[e] # e
    BY <2>1, <2>2, <2>3 DEF Domains
  <2> QED BY <2>1, <2>2, <2>3, <2>4 DEF Shapes
<1> QED BY <1>1, <1>2

\* A retried ticket leaves the pending place or stays there.
LEMMA RetryStep ==
    ASSUME IInv, NEW c \in Cpus, RetryTick(c)
    PROVE  Shapes' /\ Domains' /\ OnePlace(Where', live') /\ Signals'
<1>1. PICK d, ticket : d \in Cpus /\ d = target[c] /\ ticket = pending[c]
  BY DEF IInv, Shapes
<1>2. /\ Idle(c) /\ ticket # NoTicket /\ rt' = [rt EXCEPT ![c] = Ticked(c)]
      /\ PublishOrKeep(c, d, ticket)
      /\ UNCHANGED <<hand, live, cursor, published, request, serving>>
  BY <1>1 DEF RetryTick
<1>3. d \in Cpus /\ Carried(ticket) /\ d # c /\ Resident(rt[c]) /\ Shapes /\ Domains
  BY <1>1, <1>2 DEF IInv, Domains
<1>4. /\ mailbox' = [e \in Cpus |-> mailbox'[e]] /\ pending' = [e \in Cpus |-> pending'[e]]
      /\ target' \in [Cpus -> Cpus] /\ notify' \in [Cpus -> Cpus]
      /\ \A e \in Cpus : /\ Carried(mailbox'[e]) /\ Carried(pending'[e])
                         /\ pending'[e] # NoTicket => target'[e] # e
      /\ \A e \in Cpus \ {d} : mailbox'[e] = mailbox[e]
      /\ \A e \in Cpus \ {c} : pending'[e] = pending[e]
      /\ \/ mailbox[d] = NoTicket /\ mailbox'[d] = ticket /\ pending'[c] = NoTicket
         \/ mailbox'[d] = mailbox[d] /\ pending'[c] = ticket
  BY <1>2, <1>3, PublishBoxes
<1>5. Resident(Ticked(c)) /\ Ticked(c).domains = rt[c].domains
  BY <1>3, TickedResident
<1>6. /\ rt' = [e \in Cpus |-> rt'[e]] /\ rt'[c] = Ticked(c)
      /\ \A e \in Cpus \ {c} : rt'[e] = rt[e]
  BY <1>2, <1>3, OneEntry DEF Shapes
<1>7. Shapes'
  BY <1>2, <1>3, <1>4, <1>6 DEF Shapes
<1>8. Domains'
  BY <1>2, <1>3, <1>4, <1>5, <1>6 DEF Domains
<1>9. \A e \in Cpus, i \in Slots : rt'[e].domains[i].page = rt[e].domains[i].page
  BY <1>5, <1>6
<1>10. OnePlace(Where', live')
  <2> DEFINE p == <<"pending", c, 0>>
             q == <<"mailbox", d, 0>>
  <2>1. CASE mailbox'[d] = mailbox[d] /\ pending'[c] = ticket
    <3>1. \A e \in Cpus : mailbox'[e] = mailbox[e] /\ pending'[e] = pending[e] /\ hand'[e] = hand[e]
      BY <1>1, <1>2, <1>4, <2>1
    <3>2. \A x \in Places \ {} : Where'[x] = Where[x]
      BY <1>9, <3>1, WhereSame, Zenon
    <3> QED BY <1>2, <3>2, PlaceKeep DEF IInv
  <2>2. CASE mailbox[d] = NoTicket /\ mailbox'[d] = ticket /\ pending'[c] = NoTicket
    <3>1. \A e \in Cpus : /\ <<"mailbox", e, 0>> \in {p, q} \/ mailbox'[e] = mailbox[e]
                          /\ <<"pending", e, 0>> \in {p, q} \/ pending'[e] = pending[e]
                          /\ <<"hand", e, 0>> \in {p, q} \/ hand'[e] = hand[e]
      BY <1>2, <1>4
    <3>2. p # q /\ p \in Places /\ q \in Places
      BY <1>3, WhereIs
    <3>3. Where[q] = NoPage /\ Where[p] = ticket.domain.page
      BY <1>1, <1>3, <2>2, WhereIs, TicketIsSome
    <3>4. Where'[q] = ticket.domain.page /\ Where'[p] = NoPage
      BY <1>3, <2>2, WhereNext, TicketIsSome
    <3> HIDE DEF p, q
    <3>5. \A x \in Places \ {p, q} : Where'[x] = Where[x]
      BY <1>9, <3>1, WhereSame
    <3> QED BY <1>2, <3>2, <3>3, <3>4, <3>5, PlaceMove DEF IInv
  <2> QED BY <1>4, <2>1, <2>2
<1>11. Signals'
  BY <1>2, <1>3, PublishSignals DEF IInv, Signals
<1> QED BY <1>7, <1>8, <1>10, <1>11

\* The balancer detaches a domain and publishes or keeps it.
LEMMA BalanceStep ==
    ASSUME IInv, NEW c \in Cpus, BalanceTick(c)
    PROVE  Shapes' /\ Domains' /\ OnePlace(Where', live') /\ Signals'
<1>1. PICK d, r, id : /\ d = SelectTarget(cursor[c], c, Seen(c)) /\ r = Ticked(c)
                      /\ id = CandidateId(r.sched)
  OBVIOUS
<1> DEFINE ticket == DomainTicket(r, id)
           u == DetachDomain(r, id)
<1>2. /\ Idle(c) /\ pending[c] = NoTicket /\ Peers(c, Seen(c)) # {}
      /\ MigrationCandidates(r.sched) # {}
      /\ rt' = [rt EXCEPT ![c] = u] /\ cursor' = [cursor EXCEPT ![c] = NextCursor(d)]
      /\ PublishOrKeep(c, d, ticket)
      /\ UNCHANGED <<hand, live, published, request, serving>>
  BY <1>1 DEF BalanceTick
<1>3. Resident(rt[c]) /\ Shapes /\ Domains /\ Signals
  BY DEF IInv, Domains, Signals
<1>4. d \in Cpus /\ d # c
  BY <1>1, <1>2, <1>3, PolicyHasTask
<1>5. Resident(r) /\ RuntimeInv(r, 1) /\ SchedInv(r.sched) /\ r.domains = rt[c].domains
  BY <1>1, <1>3, TickedResident DEF Resident, RuntimeInv
<1>6. id \in TaskId /\ Valid(r.sched, id) /\ id # r.sched.current
  BY <1>1, <1>2, <1>5, CandidateIsValid
<1>7. CanDetachDomain(r, id)
  BY <1>5, <1>6, CurrentHasDomain DEF CanDetachDomain, CanDetach
<1>8. PICK i : i = DomainSlot(r, id)
  OBVIOUS
<1>9. /\ RuntimeInv(u, 1) /\ Left(r, u, i) /\ TicketInv(ticket, 1)
      /\ ticket.domain = r.domains[i]
  BY <1>5, <1>7, <1>8, DetachDomainInv DEF TicketInv
<1> HIDE DEF u, ticket
<1>10. /\ Resident(u) /\ i \in Slots /\ r.domains[i].page \in Pages
       /\ u.domains[i].page = NoPage
       /\ \A j \in Slots \ {i} : u.domains[j].page = r.domains[j].page
  BY <1>5, <1>9, PagesLeft
<1>11. Carried(ticket) /\ ticket # NoTicket
  BY <1>9, <1>10, TicketIsSome DEF Carried
<1>12. /\ mailbox' = [e \in Cpus |-> mailbox'[e]] /\ pending' = [e \in Cpus |-> pending'[e]]
       /\ target' \in [Cpus -> Cpus] /\ notify' \in [Cpus -> Cpus]
       /\ \A e \in Cpus : /\ Carried(mailbox'[e]) /\ Carried(pending'[e])
                          /\ pending'[e] # NoTicket => target'[e] # e
       /\ \A e \in Cpus \ {d} : mailbox'[e] = mailbox[e]
       /\ \A e \in Cpus \ {c} : pending'[e] = pending[e]
       /\ \/ mailbox[d] = NoTicket /\ mailbox'[d] = ticket /\ pending'[c] = NoTicket
          \/ mailbox'[d] = mailbox[d] /\ pending'[c] = ticket
  BY <1>2, <1>3, <1>4, <1>11, PublishBoxes
<1>13. /\ rt' = [e \in Cpus |-> rt'[e]] /\ rt'[c] = u /\ \A e \in Cpus \ {c} : rt'[e] = rt[e]
  BY <1>2, <1>3, OneEntry DEF Shapes
<1>14. cursor' \in [Cpus -> Cpus]
  <2>1. NextCursor(d) \in Cpus
    BY <1>4, BalanceAssumption DEF NextCursor, Cpus
  <2> QED BY <1>2, <1>3, <2>1 DEF Shapes
<1>15. Shapes'
  BY <1>2, <1>3, <1>12, <1>13, <1>14 DEF Shapes
<1>16. Domains'
  BY <1>2, <1>3, <1>10, <1>12, <1>13 DEF Domains
<1> DEFINE p == <<"runtime", c, i>>
<1>17. \A e \in Cpus, j \in Slots : <<"runtime", e, j>> = p
                                      \/ rt'[e].domains[j].page = rt[e].domains[j].page
  BY <1>5, <1>10, <1>13
<1>18. p \in Places /\ Where[p] = ticket.domain.page /\ Where'[p] = NoPage
  BY <1>5, <1>9, <1>10, <1>13, WhereIs, WhereNext
<1>19. OnePlace(Where', live')
  <2>1. CASE mailbox[d] = NoTicket /\ mailbox'[d] = ticket /\ pending'[c] = NoTicket
    <3> DEFINE q == <<"mailbox", d, 0>>
    <3>1. \A e \in Cpus : /\ <<"mailbox", e, 0>> \in {p, q} \/ mailbox'[e] = mailbox[e]
                          /\ <<"pending", e, 0>> \in {p, q} \/ pending'[e] = pending[e]
                          /\ <<"hand", e, 0>> \in {p, q} \/ hand'[e] = hand[e]
      BY <1>2, <1>12, <2>1
    <3>2. p # q /\ q \in Places
      BY <1>4, WhereIs
    <3>3. Where[q] = NoPage /\ Where'[q] = ticket.domain.page
      BY <1>4, <2>1, WhereIs, WhereNext, TicketIsSome
    <3> HIDE DEF p, q
    <3>4. \A x \in Places \ {p, q} : Where'[x] = Where[x]
      BY <1>17, <3>1, WhereSame
    <3> QED BY <1>2, <1>18, <3>2, <3>3, <3>4, PlaceMove DEF IInv
  <2>2. CASE mailbox'[d] = mailbox[d] /\ pending'[c] = ticket
    <3> DEFINE q == <<"pending", c, 0>>
    <3>1. \A e \in Cpus : /\ <<"mailbox", e, 0>> \in {p, q} \/ mailbox'[e] = mailbox[e]
                          /\ <<"pending", e, 0>> \in {p, q} \/ pending'[e] = pending[e]
                          /\ <<"hand", e, 0>> \in {p, q} \/ hand'[e] = hand[e]
      BY <1>2, <1>12, <2>2
    <3>2. p # q /\ q \in Places
      BY WhereIs
    <3>3. Where[q] = NoPage /\ Where'[q] = ticket.domain.page
      BY <1>2, <2>2, WhereIs, WhereNext, TicketIsSome
    <3> HIDE DEF p, q
    <3>4. \A x \in Places \ {p, q} : Where'[x] = Where[x]
      BY <1>17, <3>1, WhereSame
    <3> QED BY <1>2, <1>18, <3>2, <3>3, <3>4, PlaceMove DEF IInv
  <2> QED BY <1>12, <2>1, <2>2
<1>20. Signals'
  BY <1>2, <1>3, <1>4, <1>11, PublishSignals
<1> QED BY <1>15, <1>16, <1>19, <1>20

\* take moves a ticket from the mailbox into the handler's hand.
LEMMA TakeStep ==
    ASSUME IInv, NEW c \in Cpus, Take(c)
    PROVE  Shapes' /\ Domains' /\ OnePlace(Where', live') /\ Signals'
<1>1. /\ hand[c] = NoTicket /\ hand' = [hand EXCEPT ![c] = mailbox[c]]
      /\ mailbox' = [mailbox EXCEPT ![c] = NoTicket]
      /\ serving' = [serving EXCEPT ![c] = FALSE]
      /\ UNCHANGED <<rt, live, pending, target, cursor, published, request, notify>>
  BY DEF Take, balancing
<1>2. Shapes /\ Domains /\ Signals /\ OnePlace(Where, live)
  BY DEF IInv, Signals
<1>3. /\ hand' = [e \in Cpus |-> hand'[e]] /\ hand'[c] = mailbox[c]
      /\ \A e \in Cpus \ {c} : hand'[e] = hand[e]
  BY <1>1, <1>2, OneEntry DEF Shapes
<1>4. /\ mailbox' = [e \in Cpus |-> mailbox'[e]] /\ mailbox'[c] = NoTicket
      /\ \A e \in Cpus \ {c} : mailbox'[e] = mailbox[e]
  BY <1>1, <1>2, OneEntry DEF Shapes
<1>5. Shapes'
  BY <1>1, <1>2, <1>3, <1>4 DEF Shapes
<1>6. Domains'
  <2>1. Carried(NoTicket)
    BY DEF Carried
  <2> QED BY <1>1, <1>2, <1>3, <1>4, <2>1 DEF Domains
<1> DEFINE p == <<"mailbox", c, 0>>
           q == <<"hand", c, 0>>
<1>7. p # q /\ p \in Places /\ q \in Places
  BY WhereIs
<1>8. Where[q] = NoPage /\ Where[p] = mailbox[c].domain.page
  BY <1>1, WhereIs, TicketIsSome
<1>9. Where'[q] = mailbox[c].domain.page /\ Where'[p] = NoPage
  BY <1>3, <1>4, WhereNext, TicketIsSome
<1>10. \A e \in Cpus : /\ <<"mailbox", e, 0>> \in {p, q} \/ mailbox'[e] = mailbox[e]
                       /\ <<"pending", e, 0>> \in {p, q} \/ pending'[e] = pending[e]
                       /\ <<"hand", e, 0>> \in {p, q} \/ hand'[e] = hand[e]
  BY <1>1, <1>3, <1>4
<1> HIDE DEF p, q
<1>11. \A x \in Places \ {p, q} : Where'[x] = Where[x]
  BY <1>1, <1>10, WhereSame
<1>12. OnePlace(Where', live')
  BY <1>1, <1>2, <1>7, <1>8, <1>9, <1>11, PlaceMove
<1> QED BY <1>2, <1>5, <1>6, <1>12, TakeSignals

\* attach_domain moves the ticket in the handler's hand into a free entry.
LEMMA AdmitStep ==
    ASSUME IInv, NEW c \in Cpus, Admit(c)
    PROVE  Shapes' /\ Domains' /\ OnePlace(Where', live') /\ Signals'
<1>1. PICK ticket : ticket = hand[c]
  OBVIOUS
<1> DEFINE u == AttachDomain(rt[c], ticket)
<1>2. /\ ticket # NoTicket /\ CanCreateDomain(rt[c])
      /\ rt' = [rt EXCEPT ![c] = u] /\ hand' = [hand EXCEPT ![c] = NoTicket]
      /\ published' = [published EXCEPT ![c] = Load(rt'[c].sched)]
      /\ UNCHANGED <<mailbox, live, pending, target, cursor, request, notify, serving>>
  BY <1>1 DEF Admit, balancing
<1>3. Shapes /\ Domains /\ Signals /\ OnePlace(Where, live) /\ Resident(rt[c])
  BY DEF IInv, Signals, Domains
<1>4. TicketInv(ticket, 1) /\ ticket.domain.page \in Pages
  BY <1>1, <1>2, <1>3 DEF Domains, Carried
<1>5. /\ RuntimeInv(u, 1)
      /\ \E i \in Slots : \E d : Arrived(rt[c], u, i, d) /\ d.page = ticket.domain.page
  BY <1>2, <1>3, <1>4, AttachDomainInv DEF Resident, TicketInv
<1>6. PICK i \in Slots : \E d : Arrived(rt[c], u, i, d) /\ d.page = ticket.domain.page
  BY <1>5
<1>7. PICK d : Arrived(rt[c], u, i, d) /\ d.page = ticket.domain.page
  BY <1>6
<1> HIDE DEF u
<1>8. /\ Resident(u) /\ rt[c].domains[i].page = NoPage
      /\ u.domains[i].page = ticket.domain.page
      /\ \A j \in Slots \ {i} : u.domains[j].page = rt[c].domains[j].page
  BY <1>3, <1>4, <1>5, <1>7, PagesArrived
<1>9. /\ rt' = [e \in Cpus |-> rt'[e]] /\ rt'[c] = u /\ \A e \in Cpus \ {c} : rt'[e] = rt[e]
  BY <1>2, <1>3, OneEntry DEF Shapes
<1>10. /\ hand' = [e \in Cpus |-> hand'[e]] /\ hand'[c] = NoTicket
       /\ \A e \in Cpus \ {c} : hand'[e] = hand[e]
  BY <1>2, <1>3, OneEntry DEF Shapes
<1>11. published' \in [Cpus -> AnyLoad]
  BY <1>2, <1>3, LoadIsLoad DEF Shapes
<1>12. Shapes'
  BY <1>2, <1>3, <1>9, <1>10, <1>11 DEF Shapes
<1>13. Domains'
  <2>1. Carried(NoTicket)
    BY DEF Carried
  <2> QED BY <1>2, <1>3, <1>8, <1>9, <1>10, <2>1 DEF Domains
<1> DEFINE p == <<"hand", c, 0>>
           q == <<"runtime", c, i>>
<1>14. p # q /\ p \in Places /\ q \in Places
  BY WhereIs
<1>15. Where[q] = NoPage /\ Where[p] = ticket.domain.page
  BY <1>1, <1>8, WhereIs
<1>16. Where'[q] = ticket.domain.page /\ Where'[p] = NoPage
  BY <1>8, <1>9, <1>10, WhereNext, TicketIsSome
<1>17. \A e \in Cpus : /\ <<"mailbox", e, 0>> \in {p, q} \/ mailbox'[e] = mailbox[e]
                       /\ <<"pending", e, 0>> \in {p, q} \/ pending'[e] = pending[e]
                       /\ <<"hand", e, 0>> \in {p, q} \/ hand'[e] = hand[e]
  BY <1>2, <1>10
<1>18. \A e \in Cpus, j \in Slots : <<"runtime", e, j>> \in {p, q}
                                      \/ rt'[e].domains[j].page = rt[e].domains[j].page
  BY <1>8, <1>9
<1> HIDE DEF p, q
<1>19. \A x \in Places \ {p, q} : Where'[x] = Where[x]
  BY <1>17, <1>18, WhereSame
<1>20. OnePlace(Where', live')
  BY <1>2, <1>3, <1>14, <1>15, <1>16, <1>19, PlaceMove
<1>21. Signals'
  BY <1>2, <1>3 DEF Signals, Signalled, Signallers
<1> QED BY <1>12, <1>13, <1>20, <1>21

\* Steps that leave the mailboxes and signals alone.
LEMMA SameSignals ==
    ASSUME Signals, UNCHANGED <<mailbox, request, notify, serving>>
    PROVE  Signals'
BY DEF Signals, Signalled, Signallers

\* Steps that leave the runtimes and tickets alone.
LEMMA SameDomains ==
    ASSUME IInv, UNCHANGED <<rt, mailbox, pending, hand, target, live>>
    PROVE  Domains' /\ OnePlace(Where', live')
<1>1. Domains'
  BY DEF IInv, Domains
<1>2. \A x \in Places \ {} : Where'[x] = Where[x]
  BY WhereSame, Zenon
<1> QED BY <1>1, <1>2, PlaceKeep DEF IInv

-----------------------------------------------------------------------------
\* Initially there is no domain, no ticket and no signal.
LEMMA InitIInv == Init => IInv
<1> SUFFICES ASSUME Init PROVE IInv
  OBVIOUS
<1>1. 0 \in Cpus
  BY BalanceAssumption DEF Cpus
<1>2. Shapes
  BY <1>1 DEF Init, Shapes, AnyLoad
<1>3. RuntimeInv(NewRuntime, 1) /\ DomainSlots(NewRuntime) = {}
  BY NewRuntimeInv
<1>4. Domains
  BY <1>3 DEF Init, Domains, Resident, Carried
<1>5. \A d \in Cpus : Signalled(d)
  BY DEF Init, Signalled, Signallers
<1>6. \A c \in Cpus : /\ \A i \in Slots : rt[c].domains[i].page = NoPage
                      /\ mailbox[c].domain.page = NoPage
                      /\ pending[c].domain.page = NoPage
                      /\ hand[c].domain.page = NoPage
  BY <1>3, NoDomainNoPage, TicketIsSome DEF Init
<1>7. \A x \in Places : Where[x] = NoPage
  <2> SUFFICES ASSUME NEW x \in Places PROVE Where[x] = NoPage
    OBVIOUS
  <2>1. CASE \E c \in Cpus, i \in Slots : x = <<"runtime", c, i>>
    BY <1>6, <2>1, WhereIs
  <2>2. CASE \E c \in Cpus, k \in Boxes : x = <<k, c, 0>>
    <3>1. PICK c \in Cpus, k \in Boxes : x = <<k, c, 0>>
      BY <2>2
    <3>2. /\ Where[<<"mailbox", c, 0>>] = NoPage
          /\ Where[<<"pending", c, 0>>] = NoPage
          /\ Where[<<"hand", c, 0>>] = NoPage
      BY <1>6, WhereIs
    <3> QED BY <3>1, <3>2 DEF Boxes
  <2> QED BY <2>1, <2>2, PlaceIs
<1>8. OnePlace(Where, live)
  BY <1>7, PagesAssumption DEF OnePlace, Init
<1> QED BY <1>2, <1>4, <1>5, <1>8 DEF IInv

\* Every step preserves the invariant.
LEMMA NextIInv == IInv /\ [Next]_vars => IInv'
<1> SUFFICES ASSUME IInv, [Next]_vars PROVE IInv'
  OBVIOUS
<1>0. Shapes /\ Domains /\ Signals /\ \A c \in Cpus : Resident(rt[c]) /\ RuntimeInv(rt[c], 1)
  BY DEF IInv, Signals, Domains, Resident
<1>1. ASSUME NEW c \in Cpus, NEW page \in Pages, CreateTask(c, page) PROVE IInv'
  <2>1. Domains' /\ OnePlace(Where', live') /\ rt' = [e \in Cpus |-> rt'[e]]
    BY <1>1, CreateStep
  <2>2. UNCHANGED <<mailbox, hand, pending, target, wait, cursor, published, request, notify, serving>>
    BY <1>1 DEF CreateTask, balancing, signals
  <2>3. Shapes'
    BY <1>0, <2>1, <2>2 DEF Shapes
  <2> QED BY <1>0, <2>1, <2>2, <2>3, SameSignals DEF IInv, Signals
<1>2. ASSUME NEW c \in Cpus, NEW u, RuntimeInv(u, 1), SamePages(rt[c], u),
             rt' = [rt EXCEPT ![c] = u],
             UNCHANGED <<mailbox, hand, pending, target, live, cursor, published, request,
                         notify, serving>>
      PROVE  IInv'
  <2>1. Domains' /\ OnePlace(Where', live') /\ rt' = [e \in Cpus |-> rt'[e]]
    BY <1>2, StayStep
  <2>2. Shapes'
    BY <1>0, <1>2, <2>1 DEF Shapes
  <2> QED BY <1>0, <1>2, <2>1, <2>2, SameSignals DEF IInv, Signals
<1>3. ASSUME NEW c \in Cpus, ReceiveCall(c) PROVE IInv'
  <2>1. /\ rt[c].sched.current # NoTask /\ rt' = [rt EXCEPT ![c] = ReceiveOrBlock(rt[c])]
        /\ UNCHANGED <<mailbox, hand, pending, target, live, cursor, published, request,
                       notify, serving>>
    BY <1>3 DEF ReceiveCall, balancing, signals
  <2>2. RuntimeInv(ReceiveOrBlock(rt[c]), 1) /\ SamePages(rt[c], ReceiveOrBlock(rt[c]))
    BY <1>0, <2>1, ReceiveOrBlockInv
  <2> QED BY <1>2, <2>1, <2>2
<1>4. ASSUME NEW c \in Cpus, TerminateCall(c) PROVE IInv'
  <2>1. Domains' /\ OnePlace(Where', live') /\ rt' = [e \in Cpus |-> rt'[e]]
    BY <1>4, TerminateStep
  <2>2. UNCHANGED <<mailbox, hand, pending, target, wait, cursor, published, request, notify, serving>>
    BY <1>4 DEF TerminateCall, balancing, signals
  <2>3. Shapes'
    BY <1>0, <2>1, <2>2 DEF Shapes
  <2> QED BY <1>0, <2>1, <2>2, <2>3, SameSignals DEF IInv, Signals
<1>5. ASSUME NEW c \in Cpus, PublishLoad(c) PROVE IInv'
  <2>1. /\ published' = [published EXCEPT ![c] = Load(rt[c].sched)]
        /\ UNCHANGED <<rt, mailbox, hand, live, pending, target, cursor, request, notify, serving>>
    BY <1>5 DEF PublishLoad, balancing
  <2>2. Shapes'
    BY <1>0, <2>1, LoadIsLoad DEF Shapes
  <2> QED BY <1>0, <2>1, <2>2, SameSignals, SameDomains DEF IInv, Signals
<1>6. ASSUME NEW c \in Cpus, RetryTick(c) PROVE IInv'
  BY <1>6, RetryStep DEF IInv, Signals
<1>7. ASSUME NEW c \in Cpus, QuietTick(c) PROVE IInv'
  <2>1. /\ rt' = [rt EXCEPT ![c] = Ticked(c)]
        /\ UNCHANGED <<mailbox, hand, pending, target, live, cursor, published, request,
                       notify, serving>>
    BY <1>7 DEF QuietTick, signals
  <2>2. RuntimeInv(Ticked(c), 1) /\ SamePages(rt[c], Ticked(c))
    BY <1>0, TickedResident DEF Resident, SamePages, DomainSlots
  <2>3. PICK u : u = Ticked(c)
    OBVIOUS
  <2> QED BY <1>2, <2>1, <2>2, <2>3
<1>8. ASSUME NEW c \in Cpus, BalanceTick(c) PROVE IInv'
  BY <1>8, BalanceStep DEF IInv, Signals
<1>9. ASSUME NEW c \in Cpus, RaiseRequest(c) PROVE IInv'
  <2>1. /\ notify' = [notify EXCEPT ![c] = c]
        /\ request' = [request EXCEPT ![notify[c]] = TRUE]
        /\ UNCHANGED <<rt, mailbox, hand, live, pending, target, cursor, published, serving>>
    BY <1>9 DEF RaiseRequest, balancing
  <2>2. Shapes'
    BY <1>0, <2>1 DEF Shapes
  <2> QED BY <1>0, <1>9, <2>1, <2>2, RaiseSignals, SameDomains DEF IInv, Signals
<1>10. ASSUME NEW c \in Cpus, Reschedule(c) PROVE IInv'
  <2>1. /\ request' = [request EXCEPT ![c] = FALSE] /\ serving' = [serving EXCEPT ![c] = TRUE]
        /\ UNCHANGED <<rt, mailbox, hand, live, pending, target, cursor, published, notify>>
    BY <1>10 DEF Reschedule, balancing
  <2>2. Shapes'
    BY <1>0, <2>1 DEF Shapes
  <2> QED BY <1>0, <1>10, <2>1, <2>2, RescheduleSignals, SameDomains DEF IInv, Signals
<1>11. ASSUME NEW c \in Cpus, Take(c) PROVE IInv'
  BY <1>11, TakeStep DEF IInv, Signals
<1>12. ASSUME NEW c \in Cpus, Admit(c) PROVE IInv'
  BY <1>12, AdmitStep DEF IInv, Signals
<1>13. CASE UNCHANGED vars
  <2>1. UNCHANGED <<rt, mailbox, hand, live, pending, target, cursor, published, request,
                    notify, serving>>
    BY <1>13 DEF vars, balancing, signals
  <2>2. Shapes'
    BY <1>0, <2>1 DEF Shapes
  <2> QED BY <1>0, <2>1, <2>2, SameSignals, SameDomains DEF IInv, Signals
<1> QED BY <1>1, <1>3, <1>4, <1>5, <1>6, <1>7, <1>8, <1>9, <1>10, <1>11, <1>12, <1>13
        DEF Next, TimerInterrupt, Handlers

\* The inductive invariant holds of every reachable state.
LEMMA Always == Spec => []IInv
BY InitIInv, NextIInv, PTL DEF Spec

-----------------------------------------------------------------------------
\* However timers, handlers and exits interleave and however old the loads are,
\* a live domain is in one runtime, mailbox, pending ticket or hand, and a
\* terminated one in none (poll_and_publish and mrml_reschedule_dispatch).
THEOREM DomainsHaveOnePlace == Spec => []OnePlacePerDomain
<1>1. ASSUME IInv PROVE OnePlacePerDomain
  <2> SUFFICES ASSUME NEW page \in Pages
               PROVE  Cardinality({x \in Places : PageAt(x) = page})
                        = IF page \in live THEN 1 ELSE 0
    BY DEF OnePlacePerDomain
  <2> DEFINE S == {x \in Places : PageAt(x) = page}
  <2>1. S = {x \in Places : Where[x] = page} /\ OnePlace(Where, live)
    BY <1>1 DEF Where, IInv
  <2>2. CASE page \in live
    <3>1. PICK x \in Places : Where[x] = page
      BY <2>1, <2>2 DEF OnePlace
    <3>2. S = {x}
      BY <2>1, <3>1 DEF OnePlace
    <3> QED BY <2>2, <3>2, FS_Singleton
  <2>3. CASE page \notin live
    <3>1. S = {}
      BY <2>1, <2>3, PagesAssumption DEF OnePlace
    <3> QED BY <2>3, <3>1, FS_EmptySet
  <2> QED BY <2>2, <2>3
<1> QED BY <1>1, Always, PTL

\* A published ticket has exactly one signal, in one of its three stages, with
\* any number of publishers; so no handler runs without a ticket and no request
\* is raised twice (the two halts of the image).
THEOREM TicketsAreSignalled == Spec => []SignalPerTicket
<1>1. ASSUME IInv PROVE SignalPerTicket
  <2> SUFFICES ASSUME NEW d \in Cpus
               PROVE  Cardinality(Signallers(d))
                        + (IF request[d] THEN 1 ELSE 0) + (IF serving[d] THEN 1 ELSE 0)
                      = IF mailbox[d] # NoTicket THEN 1 ELSE 0
    BY DEF SignalPerTicket, Signallers
  <2>1. Signalled(d)
    BY <1>1 DEF IInv
  <2>2. Cardinality({}) = 0 /\ \A c : Cardinality({c}) = 1
    BY FS_EmptySet, FS_Singleton
  <2>3. \/ Signallers(d) = {} /\ Cardinality(Signallers(d)) = 0
        \/ (\E c \in Cpus : Signallers(d) = {c}) /\ Cardinality(Signallers(d)) = 1
    BY <2>1, <2>2 DEF Signalled
  <2>4. (\E c \in Cpus : Signallers(d) = {c}) => Signallers(d) # {}
    OBVIOUS
  <2> QED BY <2>1, <2>3, <2>4 DEF Signalled
<1> QED BY <1>1, Always, PTL

\* When PeriodicBalancer selects a peer, rebalance_candidate accepts the move
\* and finds a task, although one of them looks at the scheduler before the
\* tick and the other after it.
THEOREM PolicyAndSchedulerAgree == Spec => []PoliciesAgree
<1>1. ASSUME IInv PROVE PoliciesAgree
  <2>1. Shapes /\ \A c \in Cpus : Resident(rt[c])
    BY <1>1 DEF IInv, Domains
  <2> QED BY <2>1, PolicyHasTask DEF PoliciesAgree
<1> QED BY <1>1, Always, PTL

-----------------------------------------------------------------------------
(***************************************************************************)
(* The policy by itself: PeriodicBalancer, one processor that polls        *)
(***************************************************************************)
\* Those of a set that come before a processor, counted from another one.
Before(L, o, k) == {c \in L : Offset(o, c) < Offset(o, k)}

\* The deadline is an interval after the last selection.  The lightest peers were
\* all served since the loads changed, or those from some processor on, up to
\* the cursor.
PollInv ==
    /\ nextTick \in Nat /\ lastTick \in Nat /\ pollCursor \in Cpus
    /\ snapshot \in [Cpus -> AnyLoad]
    /\ moved \in Nat \cup {-1}
    /\ moved # -1 => nextTick >= moved + Interval
    /\ \/ Lightest(snapshot) \subseteq served
       \/ \E o \in Cpus : served = Before(Lightest(snapshot), o, pollCursor)

\* The offset from another cursor.
LEMMA OffsetShift ==
    ASSUME NEW o \in Cpus, NEW k \in Cpus, NEW c \in Cpus
    PROVE  /\ Offset(o, c) \in Nat /\ Offset(o, c) < CPUS
           /\ Offset(k, c) = IF Offset(o, c) >= Offset(o, k) THEN Offset(o, c) - Offset(o, k)
                             ELSE Offset(o, c) + CPUS - Offset(o, k)
BY BalanceAssumption DEF Offset, Cpus

\* The cursor moves on by one, or is back at the start.
LEMMA CursorMoves ==
    ASSUME NEW o \in Cpus, NEW t \in Cpus
    PROVE  /\ NextCursor(t) \in Cpus
           /\ Offset(o, NextCursor(t)) = IF Offset(o, t) + 1 = CPUS THEN 0 ELSE Offset(o, t) + 1
BY BalanceAssumption DEF Offset, Cpus, NextCursor

\* Who is first from the cursor on is not served again before all were.
LEMMA Rotation ==
    ASSUME NEW L, L \subseteq Cpus, NEW S, NEW k \in Cpus,
           NEW t \in L, \A q \in L : Offset(k, t) <= Offset(k, q),
           NEW o \in Cpus, S = Before(L, o, k), ~(L \subseteq S)
    PROVE  /\ t \notin S
           /\ \/ L \subseteq S \cup {t}
              \/ S \cup {t} = Before(L, o, NextCursor(t))
<1> DEFINE a == Offset(o, k)
           b == Offset(o, t)
<1>0. \A q \in L : q \in S <=> Offset(o, q) < a
  BY DEF Before
<1>1. PICK c \in L : Offset(o, c) >= a
  BY <1>0, OffsetShift
<1>2. /\ a \in Nat /\ a < CPUS /\ b \in Nat /\ b < CPUS /\ CPUS \in Nat
      /\ \A q \in L : /\ Offset(o, q) \in Nat /\ Offset(o, q) < CPUS
                      /\ Offset(k, q) = IF Offset(o, q) >= a THEN Offset(o, q) - a
                                        ELSE Offset(o, q) + CPUS - a
                      /\ q # t => Offset(o, q) # b
  BY OffsetShift, OffsetsDiffer, BalanceAssumption
<1>3. Offset(o, NextCursor(t)) = IF b + 1 = CPUS THEN 0 ELSE b + 1
  BY CursorMoves
<1> HIDE DEF a, b
<1>4. b >= a
  <2>1. Offset(k, t) <= Offset(k, c)
    OBVIOUS
  <2>2. Offset(k, t) = IF b >= a THEN b - a ELSE b + CPUS - a
    BY <1>2 DEF b
  <2>3. Offset(k, c) = Offset(o, c) - a /\ Offset(o, c) < CPUS /\ Offset(o, c) \in Nat
    BY <1>1, <1>2
  <2> QED BY <1>2, <2>1, <2>2, <2>3
<1>5. t \notin S
  BY <1>0, <1>2, <1>4 DEF b
<1>6. ASSUME NEW q \in L, q # t, q \notin S PROVE Offset(o, q) > b
  <2>1. Offset(k, t) <= Offset(k, q) /\ Offset(k, t) = b - a
    BY <1>2, <1>4 DEF b
  <2>2. Offset(o, q) \in Nat /\ Offset(o, q) >= a /\ Offset(k, q) = Offset(o, q) - a
    BY <1>0, <1>2, <1>6
  <2>3. Offset(o, q) # b
    BY <1>2, <1>6
  <2> QED BY <1>2, <2>1, <2>2, <2>3
<1>7. CASE b + 1 = CPUS
  <2>1. \A q \in L : q # t => q \in S
    BY <1>2, <1>6, <1>7
  <2> QED BY <1>5, <2>1
<1>8. CASE b + 1 # CPUS
  <2>1. \A q \in L : q \in S \cup {t} <=> Offset(o, q) < b + 1
    <3>1. Offset(o, t) = b
      BY DEF b
    <3> QED BY <1>0, <1>2, <1>4, <1>6, <3>1
  <2>2. S \cup {t} = {q \in L : Offset(o, q) < b + 1}
    BY <2>1 DEF Before
  <2> QED BY <1>3, <1>5, <1>8, <2>2 DEF Before
<1> QED BY <1>7, <1>8

\* The chosen peer is a lightest one, the first from the cursor on.
LEMMA ChosenIsFirst ==
    ASSUME NEW k \in Cpus, NEW loads \in [Cpus -> AnyLoad], Local \in Cpus,
           Peers(Local, loads) # {}
    PROVE  LET t == SelectTarget(k, Local, loads) IN
           /\ t \in Lightest(loads) /\ Lightest(loads) \subseteq Cpus
           /\ \A q \in Lightest(loads) : Offset(k, t) <= Offset(k, q)
<1> DEFINE t == SelectTarget(k, Local, loads)
           P == Peers(Local, loads)
<1>1. /\ t \in P
      /\ \A q \in P \ {t} : \/ Lighter(loads[t], loads[q])
                            \/ ~Lighter(loads[q], loads[t]) /\ Offset(k, t) < Offset(k, q)
  BY TargetIsPeer
<1>2. /\ P \subseteq Cpus
      /\ \A q \in P : /\ loads[q].runnable \in Nat /\ loads[q].occupied \in Nat
                      /\ Offset(k, q) \in Nat
  BY OffsetShift DEF Peers, AnyLoad
<1> HIDE DEF t, P
<1>3. \A q \in P : ~Lighter(loads[q], loads[t])
  BY <1>1, <1>2 DEF Lighter
<1>4. t \in Lightest(loads) /\ Lightest(loads) \subseteq P
  BY <1>1, <1>3 DEF Lightest, P
<1>5. ASSUME NEW q \in Lightest(loads) PROVE Offset(k, t) <= Offset(k, q)
  <2>1. q \in P /\ ~Lighter(loads[t], loads[q])
    BY <1>1, <1>5 DEF Lightest, P
  <2> QED BY <1>1, <1>2, <2>1
<1> QED BY <1>2, <1>4, <1>5 DEF t

\* Nobody was served since the loads changed.
LEMMA NoneServed ==
    ASSUME NEW k \in Cpus, NEW L, L \subseteq Cpus
    PROVE  \E o \in Cpus : {} = Before(L, o, k)
<1>1. \A c \in L : Offset(k, c) \in Nat /\ Offset(k, k) = 0
  BY OffsetShift
<1> QED BY <1>1 DEF Before

\* Lightest peers are processors.
LEMMA LightestAreCpus == \A k : Lightest(k) \subseteq Cpus
BY DEF Lightest, Peers

\* The loads a poll is given.
LEMMA LoadsAreLoads == \A load \in Loads : load \in AnyLoad
BY BalanceAssumption DEF Loads, LoadType, AnyLoad

LEMMA InitPolls == ASSUME PInit PROVE PollInv
<1>1. /\ nextTick = Interval /\ lastTick = 0 /\ pollCursor = 0 /\ moved = -1 /\ served = {}
      /\ snapshot \in [Cpus -> Loads]
  BY DEF PInit, None
<1>2. snapshot \in [Cpus -> AnyLoad]
  BY <1>1, LoadsAreLoads
<1>3. pollCursor \in Cpus /\ Interval \in Nat
  BY <1>1, BalanceAssumption DEF Cpus
<1> QED BY <1>1, <1>2, <1>3, NoneServed, LightestAreCpus DEF PollInv

\* What a step may do: select an interval later, and a lightest peer in turn.
PollStep ==
    \/ UNCHANGED pvars
    \/ chosen' = -1
    \/ /\ moved # -1 => moved' >= moved + Interval
       /\ chosen' \in Lightest(snapshot)
       /\ chosen' \in served => Lightest(snapshot) \subseteq served

\* A step that selects nobody and leaves the loads alone.
LEMMA NothingSelected ==
    ASSUME PollInv, lastTick' \in Nat, UNCHANGED <<pollCursor, snapshot, moved, served>>,
           nextTick' \in Nat, nextTick' >= nextTick
    PROVE  PollInv'
<1>1. moved # -1 => nextTick' >= moved + Interval
  BY BalanceAssumption DEF PollInv
<1> QED BY <1>1 DEF PollInv

\* Every step keeps the invariant, and what it selects is in turn.
LEMMA NextPolls == ASSUME PollInv, [PNext]_pvars PROVE PollInv' /\ PollStep
<1>0. Local \in Cpus /\ MaxTick \in Nat /\ Interval \in Nat \ {0}
  BY BalanceAssumption, PeriodicBalancerAssumption
<1>1. ASSUME NEW tick \in 0 .. MaxTick, PollEarly(tick) PROVE PollInv' /\ PollStep
  <2>1. /\ lastTick' \in Nat /\ chosen' = -1
        /\ UNCHANGED <<nextTick, pollCursor, snapshot, moved, served>>
    BY <1>0, <1>1 DEF PollEarly, PollInv, None
  <2> QED BY <2>1, NothingSelected DEF PollInv, PollStep
<1>2. ASSUME NEW tick \in 0 .. MaxTick, PollExhausted(tick) PROVE PollInv' /\ PollStep
  <2>1. /\ lastTick' \in Nat /\ chosen' = -1
        /\ UNCHANGED <<nextTick, pollCursor, snapshot, moved, served>>
    BY <1>0, <1>2 DEF PollExhausted, None
  <2> QED BY <2>1, NothingSelected DEF PollInv, PollStep
<1>3. ASSUME NEW tick \in 0 .. MaxTick, PollDue(tick) PROVE PollInv' /\ PollStep
  <2>1. /\ tick \in Nat /\ tick >= nextTick /\ lastTick' = tick /\ nextTick' = tick + Interval
        /\ snapshot' = snapshot
    BY <1>0, <1>3 DEF PollDue, Deadline
  <2>2. CASE Peers(Local, snapshot) = {}
    <3>1. UNCHANGED <<pollCursor, moved, served>> /\ chosen' = -1
      BY <1>3, <2>2 DEF PollDue, None
    <3>2. nextTick' \in Nat /\ nextTick' >= nextTick /\ lastTick' \in Nat
      BY <1>0, <2>1 DEF PollInv
    <3> QED BY <2>1, <3>1, <3>2, NothingSelected DEF PollStep
  <2>3. CASE Peers(Local, snapshot) # {}
    <3> DEFINE t == SelectTarget(pollCursor, Local, snapshot)
               L == Lightest(snapshot)
    <3>1. /\ chosen' = t /\ pollCursor' = NextCursor(t) /\ moved' = tick
          /\ served' = served \cup {t}
      BY <1>3, <2>3 DEF PollDue
    <3>2. t \in L /\ L \subseteq Cpus /\ \A q \in L : Offset(pollCursor, t) <= Offset(pollCursor, q)
      BY <1>0, <2>3, ChosenIsFirst DEF PollInv
    <3> HIDE DEF t, L
    <3>3. NextCursor(t) \in Cpus
      BY <3>2, CursorMoves
    <3>4. /\ t \in served => L \subseteq served
          /\ \/ L \subseteq served'
             \/ \E o \in Cpus : served' = Before(L, o, pollCursor')
      <4>1. CASE L \subseteq served
        BY <3>1, <4>1
      <4>2. CASE ~(L \subseteq served)
        <5>1. PICK o \in Cpus : served = Before(L, o, pollCursor)
          BY <4>2 DEF PollInv, L
        <5>2. pollCursor \in Cpus
          BY DEF PollInv
        <5>3. /\ t \notin served
              /\ \/ L \subseteq served \cup {t}
                 \/ served \cup {t} = Before(L, o, NextCursor(t))
          BY <3>2, <4>2, <5>1, <5>2, Rotation
        <5> QED BY <3>1, <5>3
      <4> QED BY <4>1, <4>2
    <3>5. moved' \in Nat /\ nextTick' >= moved' + Interval /\ nextTick' \in Nat
      BY <1>0, <2>1, <3>1
    <3>6. PollInv'
      BY <2>1, <3>1, <3>3, <3>4, <3>5 DEF PollInv, L
    <3>7. moved # -1 => moved' >= moved + Interval
      BY <1>0, <2>1, <3>1 DEF PollInv
    <3>8. PollStep
      BY <3>1, <3>2, <3>4, <3>7 DEF PollStep, L
    <3> QED BY <3>6, <3>8
  <2> QED BY <2>2, <2>3
<1>4. ASSUME NEW cpu \in Cpus, NEW load \in Loads, Republish(cpu, load)
      PROVE  PollInv' /\ PollStep
  <2>1. /\ snapshot' = [snapshot EXCEPT ![cpu] = load] /\ served' = {} /\ chosen' = -1
        /\ UNCHANGED <<nextTick, lastTick, pollCursor, moved>>
    BY <1>4 DEF Republish, None
  <2>2. snapshot' \in [Cpus -> AnyLoad]
    BY <2>1, LoadsAreLoads DEF PollInv
  <2>3. \E o \in Cpus : served' = Before(Lightest(snapshot'), o, pollCursor')
    <3>1. pollCursor' \in Cpus /\ Lightest(snapshot') \subseteq Cpus
      BY <2>1, LightestAreCpus DEF PollInv
    <3> QED BY <2>1, <3>1, NoneServed
  <2>4. PollInv'
    BY <2>1, <2>2, <2>3 DEF PollInv
  <2> QED BY <2>1, <2>4 DEF PollStep
<1>5. CASE UNCHANGED pvars
  <2>1. /\ lastTick' \in Nat
        /\ UNCHANGED <<nextTick, pollCursor, snapshot, moved, served>>
    BY <1>5 DEF pvars, PollInv
  <2> QED BY <1>5, <2>1, NothingSelected DEF PollInv, PollStep
<1> QED BY <1>1, <1>2, <1>3, <1>4, <1>5 DEF PNext, Poll

\* poll suppresses catch-up bursts: whatever the ticks it is given, two selections
\* are at least an interval apart.
THEOREM SelectionsAreSpaced == PSpec => NoBursts
<1>1. PInit => PollInv
  BY InitPolls
<1>2. PollInv /\ [PNext]_pvars => PollInv' /\ PollStep
  BY NextPolls
<1>3. PollStep => [chosen' # None /\ moved # None => moved' >= moved + Interval]_pvars
  BY DEF PollStep, None
<1> QED BY <1>1, <1>2, <1>3, PTL DEF PSpec, NoBursts

\* A stable topology starves no processor: poll selects a lightest peer, and
\* while the loads stay the same none again before each of the others.
THEOREM PeersAreRotated == PSpec => RotatesEqualPeers
<1>1. PInit => PollInv
  BY InitPolls
<1>2. PollInv /\ [PNext]_pvars => PollInv' /\ PollStep
  BY NextPolls
<1>3. PollStep => [chosen' # None =>
                     /\ chosen' \in Lightest(snapshot)
                     /\ snapshot' = snapshot /\ chosen' \in served
                           => Lightest(snapshot) \subseteq served]_pvars
  BY DEF PollStep, None
<1> QED BY <1>1, <1>2, <1>3, PTL DEF PSpec, RotatesEqualPeers
=============================================================================
