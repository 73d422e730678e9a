-------------------------- MODULE OwnershipMailbox --------------------------
(***************************************************************************)
(* OwnershipMailbox<T> of mrml-kernel/src/scheduler.rs: an allocation-free *)
(* multi-producer, multi-consumer slot guarded by one atomic byte.  Every  *)
(* access to shared memory is a step of its own: the compare-exchange that *)
(* claims the slot, the plain (non-atomic) access to its bytes, and the    *)
(* store that releases it.                                                 *)
(*                                                                         *)
(* The memory orderings are kept: `synced' is the set of processors for    *)
(* which every access to the bytes happens-before what they do next, and   *)
(* `carried' says that the value in `state' was stored by a Release of     *)
(* such a processor.  A plain access by any other processor is a data      *)
(* race, whose result is arbitrary.                                        *)
(*                                                                         *)
(* The parts of the specification have names of their own (MInit, MNext,   *)
(* ...) so that KernelSchedulerProofs can extend both machines.            *)
(***************************************************************************)
CONSTANTS Procs,    \* the processors that share the mailbox
          Tickets,  \* the values of type T
          Nobody    \* no ticket: uninitialized bytes, an empty register

ASSUME NobodyAssumption == Nobody \notin Tickets

VARIABLES state,    \* the AtomicU8
          slot,     \* the bytes of UnsafeCell<MaybeUninit<T>>
          synced,
          carried,
          pc,       \* pc[p]: where processor p is in publish or take
          hand,     \* hand[p]: the tickets processor p owns outside a call
          arg,      \* arg[p]: the ticket a call of p holds in a register
          dropped,  \* the tickets destroyed by the mailbox's Drop
          alive     \* the mailbox has not been dropped

mvars == <<state, slot, synced, carried, pc, hand, arg, dropped, alive>>

MailboxStates == {"EMPTY", "WRITING", "FULL", "READING"}
CallPoints == {"idle", "claimed", "written", "taking", "taken"}

MTypeOK == /\ state \in MailboxStates
           /\ slot \in Tickets \cup {Nobody}
           /\ synced \in SUBSET Procs
           /\ carried \in BOOLEAN
           /\ pc \in [Procs -> CallPoints]
           /\ hand \in [Procs -> SUBSET Tickets]
           /\ arg \in [Procs -> Tickets \cup {Nobody}]
           /\ dropped \in SUBSET Tickets
           /\ alive \in BOOLEAN

(***************************************************************************)
(* OwnershipMailbox::new.  The tickets start in the processors' hands, any *)
(* way round.                                                              *)
(***************************************************************************)
MInit == /\ state = "EMPTY"
         /\ slot = Nobody
         /\ synced = Procs
         /\ carried = TRUE
         /\ pc = [p \in Procs |-> "idle"]
         /\ hand \in [Procs -> SUBSET Tickets]
         /\ \A t \in Tickets : \E p \in Procs : t \in hand[p]
         /\ \A p, q \in Procs : p # q => hand[p] \cap hand[q] = {}
         /\ arg = [p \in Procs |-> Nobody]
         /\ dropped = {}
         /\ alive = TRUE

(***************************************************************************)
(* Memory: an Acquire that reads a carried store joins the synced          *)
(* processors; a plain access leaves only its own processor synced; a      *)
(* Release store carries what its processor knows.                         *)
(***************************************************************************)
Acquire(p) == synced' = IF carried THEN synced \cup {p} ELSE synced

Access(p) == synced' = {p}

\* Mutant of Release: the store that publishes FULL or EMPTY is Relaxed.
MutRelaxedStore(p) == carried' = FALSE

Release(p) == carried' = (p \in synced)

\* What a plain read by p returns.
ReadBytes(p) == IF p \in synced THEN {slot} ELSE Tickets \cup {Nobody}

\* What a plain write of t by p leaves behind.
WriteBytes(p, t) == IF p \in synced THEN {t} ELSE Tickets \cup {Nobody}

-----------------------------------------------------------------------------
(***************************************************************************)
(* publish                                                                 *)
(***************************************************************************)
PublishClaim(p, t) ==
    /\ alive
    /\ pc[p] = "idle"
    /\ t \in hand[p]
    /\ state = "EMPTY"
    /\ state' = "WRITING"
    /\ Acquire(p)
    /\ pc' = [pc EXCEPT ![p] = "claimed"]
    /\ arg' = [arg EXCEPT ![p] = t]
    /\ hand' = [hand EXCEPT ![p] = @ \ {t}]
    /\ UNCHANGED <<slot, carried, dropped, alive>>

\* The compare-exchange fails: Err((Occupied, task)) gives the ticket back.
PublishOccupied(p, t) ==
    /\ alive
    /\ pc[p] = "idle"
    /\ t \in hand[p]
    /\ state # "EMPTY"
    /\ UNCHANGED mvars

PublishWrite(p) ==
    /\ pc[p] = "claimed"
    /\ slot' \in WriteBytes(p, arg[p])
    /\ Access(p)
    /\ pc' = [pc EXCEPT ![p] = "written"]
    /\ arg' = [arg EXCEPT ![p] = Nobody]
    /\ UNCHANGED <<state, carried, hand, dropped, alive>>

\* Mutant of PublishFull: the processor leaves publish without the store.
MutForgotFull(p) ==
    /\ pc[p] = "written"
    /\ pc' = [pc EXCEPT ![p] = "idle"]
    /\ hand' = [hand EXCEPT ![p] = @ \cup {slot}]
    /\ UNCHANGED <<state, slot, synced, carried, arg, dropped, alive>>

PublishFull(p) ==
    /\ pc[p] = "written"
    /\ state' = "FULL"
    /\ Release(p)
    /\ pc' = [pc EXCEPT ![p] = "idle"]
    /\ UNCHANGED <<slot, synced, hand, arg, dropped, alive>>

(***************************************************************************)
(* take                                                                    *)
(***************************************************************************)
\* Mutant of TakeClaim: a load and a later store instead of one atomic
\* compare-exchange, so a second receiver still sees FULL.
MutTakeWithoutClaim(p) ==
    /\ alive
    /\ pc[p] = "idle"
    /\ state = "FULL"
    /\ Acquire(p)
    /\ pc' = [pc EXCEPT ![p] = "taking"]
    /\ UNCHANGED <<state, slot, carried, hand, arg, dropped, alive>>

TakeClaim(p) ==
    /\ alive
    /\ pc[p] = "idle"
    /\ state = "FULL"
    /\ state' = "READING"
    /\ Acquire(p)
    /\ pc' = [pc EXCEPT ![p] = "taking"]
    /\ UNCHANGED <<slot, carried, hand, arg, dropped, alive>>

\* The compare-exchange fails: take returns None.
TakeNone(p) ==
    /\ alive
    /\ pc[p] = "idle"
    /\ state # "FULL"
    /\ UNCHANGED mvars

TakeRead(p) ==
    /\ pc[p] = "taking"
    /\ \E t \in ReadBytes(p) : arg' = [arg EXCEPT ![p] = t]
    /\ Access(p)
    /\ pc' = [pc EXCEPT ![p] = "taken"]
    /\ UNCHANGED <<state, slot, carried, hand, dropped, alive>>

TakeEmpty(p) ==
    /\ pc[p] = "taken"
    /\ state' = "EMPTY"
    /\ Release(p)
    /\ pc' = [pc EXCEPT ![p] = "idle"]
    /\ hand' = [hand EXCEPT ![p] = @ \cup {arg[p]}]
    /\ arg' = [arg EXCEPT ![p] = Nobody]
    /\ UNCHANGED <<slot, synced, dropped, alive>>

(***************************************************************************)
(* Drop takes the mailbox by &mut: no call is in progress, and whoever     *)
(* drops it has synchronized with every earlier call.                      *)
(***************************************************************************)
\* Mutant of DropMailbox: the value is dropped whatever the state says.
MutDropAlways ==
    /\ alive
    /\ \A p \in Procs : pc[p] = "idle"
    /\ alive' = FALSE
    /\ dropped' = dropped \cup {slot}
    /\ UNCHANGED <<state, slot, synced, carried, pc, hand, arg>>

DropMailbox ==
    /\ alive
    /\ \A p \in Procs : pc[p] = "idle"
    /\ alive' = FALSE
    /\ dropped' = IF state = "FULL" THEN dropped \cup {slot} ELSE dropped
    /\ UNCHANGED <<state, slot, synced, carried, pc, hand, arg>>

-----------------------------------------------------------------------------
Call(p) == \/ \E t \in Tickets : PublishClaim(p, t) \/ PublishOccupied(p, t)
           \/ TakeClaim(p)
           \/ TakeNone(p)

Finish(p) == PublishWrite(p) \/ PublishFull(p) \/ TakeRead(p) \/ TakeEmpty(p)

MNext == (\E p \in Procs : Call(p) \/ Finish(p)) \/ DropMailbox

\* A processor inside publish or take runs straight-line code with the
\* interrupts of its caller: it finishes.  Nobody has to start a call.
MFairness == \A p \in Procs : WF_mvars(Finish(p))

MSpec == MInit /\ [][MNext]_mvars /\ MFairness

-----------------------------------------------------------------------------
(***************************************************************************)
(* Properties                                                              *)
(***************************************************************************)
\* The tickets processor p owns, those a call of p has under way included.
Held(p) == hand[p] \cup (IF pc[p] \in {"claimed", "taken"} THEN {arg[p]} ELSE {})
                   \cup (IF pc[p] \in {"written", "taking"} THEN {slot} ELSE {})

Box == IF alive /\ state = "FULL" THEN {slot} ELSE {}

\* The claim of the SAFETY comments: the processor about to touch the slot's
\* bytes is the only one inside the slot, and every earlier access to them
\* happens-before its own.
ExclusiveAccess ==
    \A p \in Procs : pc[p] \in {"claimed", "taking"} =>
        /\ p \in synced
        /\ \A q \in Procs \ {p} : pc[q] = "idle"

\* A publish or take that claimed the slot releases it again, so no claim
\* wedges the mailbox for the other processors.
ClaimReleased == (state \in {"WRITING", "READING"}) ~> (state \in {"FULL", "EMPTY"})

\* The mailbox implements the one-ticket slot of OwnershipSlot: publish takes
\* effect at its Release store of FULL, take at its compare-exchange.
Abstract == INSTANCE OwnershipSlot WITH held <- [p \in Procs |-> Held(p)], box <- Box
ImplementsSlot == Abstract!ASpec

\* Whatever the interleaving of publishers, receivers and the mailbox's
\* destruction, a ticket is owned by exactly one processor, or is in the slot,
\* or was destroyed: the unsafe moves of publish and take neither copy nor
\* leak the value.
LinearOwnership == Abstract!Linear

-----------------------------------------------------------------------------
(***************************************************************************)
(* The inductive invariant behind the theorems of KernelSchedulerProofs.   *)
(***************************************************************************)
\* A processor inside a call is alone, and the atomic byte names its call.
OneInside ==
    /\ \A p \in Procs : pc[p] \in {"claimed", "written"} => state = "WRITING"
    /\ \A p \in Procs : pc[p] \in {"taking", "taken"} => state = "READING"
    /\ \A p, q \in Procs : pc[p] # "idle" /\ pc[q] # "idle" => p = q
    /\ \A p \in Procs : pc[p] # "idle" => alive /\ p \in synced
    /\ carried

\* The ticket being moved is a real one, and is not in its mover's hand too.
RealTicket ==
    /\ \A p \in Procs : pc[p] \in {"claimed", "taken"} => arg[p] \in Tickets
    /\ \A p \in Procs : pc[p] \in {"written", "taking"} => slot \in Tickets
    /\ state = "FULL" => slot \in Tickets
    /\ \A p \in Procs : pc[p] = "claimed" => arg[p] \notin hand[p]
    /\ \A p \in Procs : pc[p] = "written" => slot \notin hand[p]

\* What every step of publish, take and Drop preserves.
MInv == MTypeOK /\ OneInside /\ RealTicket
=============================================================================
