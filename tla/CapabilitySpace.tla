-------------------------- MODULE CapabilitySpace --------------------------
(***************************************************************************)
(* The capability spaces of a set of tasks: the kernel grants, tasks       *)
(* derive and revoke, and messages carry capabilities over an endpoint.    *)
(***************************************************************************)
EXTENDS Capability

CONSTANTS Holders,         \* the tasks, each with a capability space
          EndpointObject,  \* the object of the one endpoint
          GrantRights,     \* the sets of rights the kernel grants
          RequestRights,   \* the sets of rights tasks ask for
          MaxCapabilities, \* MAX_CAPABILITIES of a message, 8 in the code
          MaxGrants,       \* bound: grants by the kernel
          MaxRevocations   \* bound: revocations, of all slots together

ASSUME EndpointAssumption == EndpointObject \in Objects /\ MaxCapabilities \in Nat
ASSUME RightsAssumption == GrantRights \cup RequestRights \subseteq SUBSET RightNames
ASSUME BoundsAssumption == MaxRevocations \in Nat

Seqs == INSTANCE SequencesExt

VARIABLES spaces,       \* spaces[h]: the capability space of h
          endpoint,     \* the Endpoint of the senders
          grants,       \* history: what the kernel granted to whom
          revocations,  \* history: revocations[h][i]: of slot i of h
          revoked       \* history: the revoked handles, each with the number of
                        \* revocations of its slot before its own

vars == <<spaces, endpoint, grants, revocations, revoked>>

Grant == [holder : Holders, object : Objects, rights : GrantRights]

TypeOK == /\ spaces \in [Holders -> Space]
          /\ endpoint \in [object : {EndpointObject}, next : 1 .. MaxSequence]
          /\ grants \subseteq Grant
          /\ revocations \in [Holders -> [CapSlots -> 0 .. MaxRevocations]]
          /\ revoked \subseteq [holder : Holders, cap : Handle, serial : 0 .. MaxRevocations]

Init == /\ spaces = [h \in Holders |-> NewSpace]
        /\ endpoint = NewEndpoint(EndpointObject)
        /\ grants = {}
        /\ revocations = [h \in Holders |-> [i \in CapSlots |-> 0]]
        /\ revoked = {}

\* The slots of h that a step revokes, recorded in the history.
RecordRevoked(h, slots) ==
    /\ Cardinality(revoked) + Cardinality(slots) <= MaxRevocations
    /\ revocations' = [revocations EXCEPT ![h] =
          [i \in CapSlots |-> IF i \in slots THEN @[i] + 1 ELSE @[i]]]
    /\ revoked' = revoked \cup
          {[holder |-> h, serial |-> revocations[h][i],
            cap |-> [slot |-> i, generation |-> spaces[h][i].generation]] : i \in slots}

-----------------------------------------------------------------------------
\* The kernel grants a right on an object: capabilities_mut(task).insert.
InsertGrant(h, object, rights) ==
    /\ Cardinality(grants) < MaxGrants
    /\ FreeEntries(spaces[h]) # {}
    /\ spaces' = [spaces EXCEPT ![h] = Insert(@, object, rights)]
    /\ grants' = grants \cup {[holder |-> h, object |-> object, rights |-> rights]}
    /\ UNCHANGED <<endpoint, revocations, revoked>>

Derive(h, g, cap, requested) ==
    /\ CanDerive(spaces[h], cap, requested)
    /\ FreeEntries(spaces[g]) # {}
    /\ spaces' = [spaces EXCEPT ![g] =
          Insert(@, spaces[h][cap.slot].object, spaces[h][cap.slot].rights \cap requested)]
    /\ UNCHANGED <<endpoint, grants, revocations, revoked>>

RevokeHandle(h, cap) ==
    /\ Holds(spaces[h], cap)
    /\ RecordRevoked(h, {cap.slot})
    /\ spaces' = [spaces EXCEPT ![h] = Revoke(@, cap)]
    /\ UNCHANGED <<endpoint, grants>>

(***************************************************************************)
(* transfer, then authorize_send: the order of send_ipc.  When the sender  *)
(* may not signal the endpoint the handles that were created are revoked.  *)
(***************************************************************************)
\* Mutant of SendResult: the authorization failure forgets the handles.
MutSendKeeps(h, g, cap, requested) ==
    LET moved == Transfer(spaces[h], spaces[g], requested) IN
    [moved EXCEPT !.ok = @ /\ MaySend(spaces[h], cap, endpoint)]

SendResult(h, g, cap, requested) ==
    LET moved == Transfer(spaces[h], spaces[g], requested) IN
    IF moved.ok /\ ~MaySend(spaces[h], cap, endpoint) THEN Undone(moved) ELSE moved

Send(h, g, cap, requested) ==
    LET result == SendResult(h, g, cap, requested) IN
    /\ spaces' = [spaces EXCEPT ![g] = result.space]
    /\ RecordRevoked(g, {i \in CapSlots : spaces[g][i].generation # result.space[i].generation})
    /\ endpoint' = IF result.ok THEN Sent(endpoint) ELSE endpoint
    /\ UNCHANGED grants

\* The handles a task presents: for each slot the one of its generation, which
\* names nothing when the slot is free.
Presented(h) == {[slot |-> i, generation |-> spaces[h][i].generation] : i \in CapSlots}

\* What a message may ask to pass on: TooManyCapabilities fails it otherwise,
\* before anything changes.
Requested(h) == Seqs!SeqOf(Presented(h) \X RequestRights, MaxCapabilities)

Next == \/ \E h \in Holders, object \in Objects, rights \in GrantRights :
              InsertGrant(h, object, rights)
        \/ \E h, g \in Holders, rights \in RequestRights :
              h # g /\ \E cap \in Presented(h) : Derive(h, g, cap, rights)
        \/ \E h \in Holders : \E cap \in Presented(h) : RevokeHandle(h, cap)
        \/ \E h, g \in Holders :
              h # g /\ \E cap \in Presented(h), requested \in Requested(h) : Send(h, g, cap, requested)

Spec == Init /\ [][Next]_vars

-----------------------------------------------------------------------------
(***************************************************************************)
(* Properties                                                              *)
(***************************************************************************)
\* Delegation only attenuates, over any chain of derivations and messages: who
\* holds rights on an object was granted them by the kernel, or somebody who
\* was granted them with DELEGATE passed them on.
NoAmplification ==
    \A h \in Holders : \A a \in Authority(spaces[h]) : \E grant \in grants :
        /\ grant.object = a.object
        /\ a.rights \subseteq grant.rights
        /\ grant.holder = h \/ "DELEGATE" \in grant.rights

\* "If any requested transfer fails, all capabilities created by this call are
\* revoked", and "an unsuccessful send cannot grant authority": a send that
\* issues no sequence number leaves every space's authority as it was.
FailedSendGrantsNothing ==
    \A h, g \in Holders : h # g =>
        \A cap \in Presented(h), requested \in Requested(h) :
            LET result == SendResult(h, g, cap, requested) IN
            ~result.ok => Authority(result.space) = Authority(spaces[g])

\* A revoked handle names nothing until the generation counter of its slot has
\* gone all the way round.
StaleUntilWrap ==
    \A r \in revoked :
        revocations[r.holder][r.cap.slot] - r.serial < MaxCapGeneration =>
            ~Holds(spaces[r.holder], r.cap)
=============================================================================
