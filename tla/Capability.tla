----------------------------- MODULE Capability -----------------------------
(***************************************************************************)
(* CapabilitySpace<N>, Message::transfer and Endpoint of                   *)
(* mrml-kernel/src/capability.rs and ipc.rs as operators on a capability   *)
(* space.  A set of rights stands for the bits of Rights; an error leaves  *)
(* the space as it was unless the operator says otherwise.                 *)
(***************************************************************************)
EXTENDS Integers, Sequences, FiniteSets, FiniteSetsExt

CONSTANTS CAPS,              \* N: entries of a capability space
          MaxCapGeneration,  \* u32::MAX in the code
          Objects,           \* the kernel objects that are granted
          NoObject,          \* ObjectId(0)
          RightNames,        \* the rights told apart, a subset of AllRights
          MaxSequence        \* u64::MAX in the code

AllRights == {"READ", "WRITE", "EXECUTE", "MAP", "SIGNAL", "DELEGATE", "CONTROL"}

ASSUME CapabilityAssumption == /\ CAPS \in Nat \ {0}
                               /\ MaxCapGeneration \in Nat \ {0}
                               /\ NoObject \notin Objects
                               /\ RightNames \subseteq AllRights
                               /\ MaxSequence \in Nat \ {0}

CapSlots == 0 .. CAPS - 1

\* A Capability: the handle a task holds.
Handle == [slot : CapSlots, generation : 1 .. MaxCapGeneration]

Entry == [generation : 1 .. MaxCapGeneration, object : Objects \cup {NoObject},
          rights : SUBSET RightNames, occupied : BOOLEAN]

Space == [CapSlots -> Entry]

EmptyEntry == [generation |-> 1, object |-> NoObject, rights |-> {}, occupied |-> FALSE]

NewSpace == [i \in CapSlots |-> EmptyEntry]

-----------------------------------------------------------------------------
\* entry: the handle names an occupied slot in its generation.
Holds(space, cap) == /\ cap.slot \in CapSlots
                     /\ space[cap.slot].occupied
                     /\ space[cap.slot].generation = cap.generation

Authorize(space, cap, requested) == /\ Holds(space, cap)
                                    /\ requested \subseteq space[cap.slot].rights

\* insert fails with SpaceFull when no slot is free.
FreeEntries(space) == {i \in CapSlots : ~space[i].occupied}
InsertedHandle(space) == LET i == Min(FreeEntries(space)) IN
                         [slot |-> i, generation |-> space[i].generation]
Insert(space, object, rights) ==
    [space EXCEPT ![Min(FreeEntries(space))] =
        [@ EXCEPT !.object = object, !.rights = rights, !.occupied = TRUE]]

\* Mutant of NextCapGeneration: the generation stays.
MutCapGenerationKept(generation) == generation

\* wrapping_add(1).max(1): the generation after the last one is 1.
NextCapGeneration(generation) ==
    IF generation = MaxCapGeneration THEN 1 ELSE generation + 1

RevokedEntry(entry) == [entry EXCEPT !.occupied = FALSE, !.object = NoObject, !.rights = {},
                                     !.generation = NextCapGeneration(@)]

Revoke(space, cap) == [space EXCEPT ![cap.slot] = RevokedEntry(@)]

RevokeAll(space, caps) ==
    [i \in CapSlots |-> IF \E k \in DOMAIN caps : caps[k].slot = i /\ Holds(space, caps[k])
                        THEN RevokedEntry(space[i]) ELSE space[i]]

\* Mutant of CanDerive: the DELEGATE right is not asked for.
MutDeriveUndelegated(space, cap, requested) == Authorize(space, cap, requested)

\* derive: the source's checks; the new entry is inserted in the destination.
CanDerive(space, cap, requested) ==
    Authorize(space, cap, {"DELEGATE"}) /\ Authorize(space, cap, requested)

-----------------------------------------------------------------------------
(***************************************************************************)
(* Message::transfer: a request is a pair <<handle of the sender, rights>>.*)
(* The requests are derived into the destination one by one; the first     *)
(* that fails revokes what the call created so far.  The result is whether *)
(* it succeeded, the destination space and the handles created in it.      *)
(***************************************************************************)
\* Mutant of Undone: the created handles are dropped, not revoked.
MutUndoneKeeps(progress) == [ok |-> FALSE, space |-> progress.space, caps |-> <<>>]

Undone(progress) == [ok |-> FALSE, space |-> RevokeAll(progress.space, progress.caps),
                     caps |-> <<>>]

DeriveNext(source, progress, request) ==
    IF CanDerive(source, request[1], request[2]) /\ FreeEntries(progress.space) # {}
    THEN [ok |-> TRUE,
          space |-> Insert(progress.space, source[request[1].slot].object,
                           source[request[1].slot].rights \cap request[2]),
          caps |-> Append(progress.caps, InsertedHandle(progress.space))]
    ELSE Undone(progress)

Transfer(source, destination, requested) ==
    LET progress[n \in 0 .. Len(requested)] ==
          IF n = 0 THEN [ok |-> TRUE, space |-> destination, caps |-> <<>>]
          ELSE IF progress[n - 1].ok THEN DeriveNext(source, progress[n - 1], requested[n])
          ELSE progress[n - 1]
    IN progress[Len(requested)]

-----------------------------------------------------------------------------
(***************************************************************************)
(* Endpoint: the object its senders need the SIGNAL right on, and the      *)
(* sequence number of the next message.                                    *)
(***************************************************************************)
NewEndpoint(object) == [object |-> object, next |-> 1]

\* authorize_send, with the SequenceExhausted error of the last number.
MaySend(space, cap, endpoint) == /\ Authorize(space, cap, {"SIGNAL"})
                                 /\ space[cap.slot].object = endpoint.object
                                 /\ endpoint.next # MaxSequence

Sent(endpoint) == [endpoint EXCEPT !.next = @ + 1]

\* What a space lets its owner do: its live handles.
Authority(space) ==
    {[slot |-> i, generation |-> space[i].generation, object |-> space[i].object,
      rights |-> space[i].rights] : i \in {j \in CapSlots : space[j].occupied}}
=============================================================================
