----------------------- MODULE CapabilitySpaceProofs -----------------------
(***************************************************************************)
(* Theorems about CapabilitySpace, for any number of tasks, slots, rights  *)
(* and capabilities in a message: delegation only attenuates, a failed     *)
(* send grants nothing and a revoked handle stays stale.  Then about       *)
(* IpcWire: what the receiver accepts is what was sent, exactly.           *)
(***************************************************************************)
EXTENDS CapabilitySpace, IpcWire, RuntimeProofs, FiniteSetTheorems

(* The history.  The number of revocations of a slot since that of a handle*)
(* tells how far its generation has moved on from the handle's, as long as *)
(* it has not gone all the way round.                                      *)
Since(r) == revocations[r.holder][r.cap.slot] - r.serial
Moved(generation, n) == IF generation + n <= MaxCapGeneration THEN generation + n
                        ELSE generation + n - MaxCapGeneration
StaleInv == \A r \in revoked :
                /\ Since(r) >= 1
                /\ Since(r) < MaxCapGeneration =>
                     spaces[r.holder][r.cap.slot].generation = Moved(r.cap.generation, Since(r))

CardInv == /\ IsFiniteSet(revoked) /\ Cardinality(revoked) <= MaxRevocations
           /\ \A h \in Holders, i \in CapSlots : revocations[h][i] <= Cardinality(revoked)

Record == [holder : Holders, cap : Handle, serial : Nat]
Types == /\ spaces \in [Holders -> Space]
         /\ endpoint \in [object : {EndpointObject}, next : 1 .. MaxSequence]
         /\ grants \subseteq Grant
         /\ revocations \in [Holders -> [CapSlots -> Nat]]
         /\ revoked \subseteq Record

(* What somebody may do is covered by what the kernel granted.             *)
CoveredBy(given, h, object, rights) ==
    \E grant \in given :
       /\ grant.object = object /\ rights \subseteq grant.rights
       /\ grant.holder = h \/ "DELEGATE" \in grant.rights
Attenuated ==
    \A h \in Holders, i \in CapSlots :
       spaces[h][i].occupied =>
          CoveredBy(grants, h, spaces[h][i].object, spaces[h][i].rights)

IInv == Types /\ CardInv /\ StaleInv /\ Attenuated

(* Adding the images of a finite set to a finite set                       *)
LEMMA GrowsBy ==
    ASSUME NEW R, IsFiniteSet(R), NEW S, IsFiniteSet(S), NEW f, DOMAIN f = S
    PROVE  LET Q == R \cup {f[i] : i \in S} IN
           /\ IsFiniteSet(Q) /\ Cardinality(Q) <= Cardinality(R) + Cardinality(S)
           /\ Cardinality(Q) >= Cardinality(R)
           /\ (\E i \in S : f[i] \notin R) => Cardinality(Q) >= Cardinality(R) + 1
           /\ Cardinality(R) \in Nat /\ Cardinality(S) \in Nat /\ Cardinality(Q) \in Nat
<1> DEFINE T == {f[i] : i \in S}
           Q == R \cup T
           g == [i \in S |-> f[i]]
<1>2. g \in Surjection(S, T)
  BY DEF Surjection
<1>3. IsFiniteSet(T) /\ Cardinality(T) <= Cardinality(S)
  <2> HIDE DEF T, g
  <2> QED BY <1>2, FS_Surjection
<1> HIDE DEF T
<1>4. /\ IsFiniteSet(Q) /\ Cardinality(Q) = Cardinality(R) + Cardinality(T) - Cardinality(R \cap T)
      /\ IsFiniteSet(R \cap T)
  BY <1>3, FS_Union, FS_Subset
<1>5. /\ Cardinality(R) \in Nat /\ Cardinality(S) \in Nat /\ Cardinality(T) \in Nat
      /\ Cardinality(Q) \in Nat /\ Cardinality(R \cap T) \in Nat
  BY <1>3, <1>4, FS_CardinalityType
<1>6. Cardinality(Q) >= Cardinality(R)
  BY <1>4, <1>5, FS_Subset
<1>7. ASSUME NEW i \in S, f[i] \notin R PROVE Cardinality(Q) >= Cardinality(R) + 1
  <2>1. R \cup {f[i]} \subseteq Q
    BY DEF T
  <2>2. Cardinality(R \cup {f[i]}) = Cardinality(R) + 1
    BY <1>7, FS_AddElement
  <2>3. Cardinality(R \cup {f[i]}) <= Cardinality(Q)
    BY <1>4, <2>1, FS_Subset
  <2> QED BY <1>5, <2>2, <2>3
<1> QED BY <1>3, <1>4, <1>5, <1>6, <1>7 DEF T

(* A recorded revocation: the generation of the slots it names, and of no  *)
(* other, has moved on.                                                    *)
LEMMA RecordKeeps ==
    ASSUME IInv, NEW h \in Holders, NEW slots, slots \subseteq CapSlots,
           RecordRevoked(h, slots),
           \A g \in Holders \ {h}, i \in CapSlots :
               spaces'[g][i].generation = spaces[g][i].generation,
           \A i \in CapSlots : spaces'[h][i].generation =
               IF i \in slots THEN NextCapGeneration(spaces[h][i].generation)
               ELSE spaces[h][i].generation
    PROVE  /\ revocations' \in [Holders -> [CapSlots -> Nat]] /\ revoked' \subseteq Record
           /\ CardInv' /\ StaleInv'
<1> DEFINE f == [i \in slots |-> [holder |-> h, serial |-> revocations[h][i],
                    cap |-> [slot |-> i, generation |-> spaces[h][i].generation]]]
<1>1. /\ Types /\ revoked' = revoked \cup {f[i] : i \in slots}
      /\ Cardinality(revoked) + Cardinality(slots) <= MaxRevocations
      /\ revocations' = [revocations EXCEPT ![h] =
          [i \in CapSlots |-> IF i \in slots THEN revocations[h][i] + 1 ELSE revocations[h][i]]]
  BY DEF RecordRevoked, IInv
<1>2. /\ \A g \in Holders, i \in CapSlots :
           /\ revocations[g][i] \in Nat
           /\ revocations'[g][i] = IF g = h /\ i \in slots THEN revocations[g][i] + 1
                                   ELSE revocations[g][i]
      /\ revocations' \in [Holders -> [CapSlots -> Nat]]
  <2>1. \A i \in CapSlots : revocations[h][i] \in Nat
    BY <1>1 DEF Types
  <2>2. [i \in CapSlots |-> IF i \in slots THEN revocations[h][i] + 1 ELSE revocations[h][i]]
          \in [CapSlots -> Nat]
    BY <2>1
  <2> QED BY <1>1, <2>1, <2>2 DEF Types
<1>3. \A g \in Holders, i \in CapSlots : spaces[g][i].generation \in 1 .. MaxCapGeneration
  BY <1>1 DEF Types, Space, Entry
<1>4. ASSUME NEW i \in slots PROVE f[i] \in Record /\ f[i] \notin revoked
  <2>1. f[i] \in Record
    BY <1>2, <1>3, <1>4 DEF Record, Handle
  <2>2. ASSUME f[i] \in revoked PROVE FALSE
    <3>1. Since(f[i]) >= 1
      BY <2>2 DEF IInv, StaleInv
    <3>2. Since(f[i]) = revocations[h][i] - revocations[h][i]
      BY DEF Since
    <3> QED BY <1>2, <1>4, <3>1, <3>2
  <2> QED BY <2>1, <2>2
<1>5. revoked' \subseteq Record
  BY <1>1, <1>4 DEF Types
<1>6. CardInv'
  <2>1. IsFiniteSet(slots) /\ IsFiniteSet(revoked)
    <3>1. CAPS - 1 \in Int /\ 0 \in Int
      BY CapabilityAssumption
    <3>2. IsFiniteSet(CapSlots)
      BY <3>1, FS_Interval DEF CapSlots
    <3>3. IsFiniteSet(slots)
      BY <3>2, FS_Subset
    <3> QED BY <3>3 DEF IInv, CardInv
  <2>2. DOMAIN f = slots
    OBVIOUS
  <2> HIDE DEF f
  <2>3. /\ IsFiniteSet(revoked') /\ Cardinality(revoked') <= Cardinality(revoked) + Cardinality(slots)
        /\ Cardinality(revoked') >= Cardinality(revoked)
        /\ (\E i \in slots : f[i] \notin revoked) => Cardinality(revoked') >= Cardinality(revoked) + 1
        /\ Cardinality(revoked) \in Nat /\ Cardinality(slots) \in Nat /\ Cardinality(revoked') \in Nat
    BY <1>1, <2>1, <2>2, GrowsBy
  <2>4. Cardinality(revoked') <= MaxRevocations
    BY <1>1, <2>3, BoundsAssumption
  <2>5. ASSUME NEW g \in Holders, NEW i \in CapSlots
        PROVE  revocations'[g][i] <= Cardinality(revoked')
    <3>1. revocations[g][i] <= Cardinality(revoked) /\ revocations[g][i] \in Nat
      BY <1>2 DEF IInv, CardInv
    <3>2. CASE g = h /\ i \in slots
      BY <1>2, <1>4, <2>3, <3>1, <3>2
    <3>3. CASE ~(g = h /\ i \in slots)
      BY <1>2, <2>3, <3>1, <3>3
    <3> QED BY <3>2, <3>3
  <2> QED BY <2>3, <2>4, <2>5 DEF CardInv
<1>7. ASSUME NEW r \in revoked'
      PROVE  /\ Since(r)' >= 1
             /\ Since(r)' < MaxCapGeneration =>
                  spaces'[r.holder][r.cap.slot].generation = Moved(r.cap.generation, Since(r)')
  <2>1. /\ r.holder \in Holders /\ r.cap.slot \in CapSlots /\ r.serial \in Nat
        /\ r.cap.generation \in 1 .. MaxCapGeneration
    BY <1>5 DEF Record, Handle
  <2> DEFINE g == r.holder
             i == r.cap.slot
  <2>2. /\ Since(r)' = revocations'[g][i] - r.serial /\ Since(r) = revocations[g][i] - r.serial
        /\ Since(r) \in Int
    BY <1>2, <2>1 DEF Since
  <2>3. CASE r \in revoked
    <3>1. /\ Since(r) >= 1
          /\ Since(r) < MaxCapGeneration =>
                  spaces[g][i].generation = Moved(r.cap.generation, Since(r))
      BY <2>3 DEF IInv, StaleInv
    <3>2. CASE g = h /\ i \in slots
      <4>1. Since(r)' = Since(r) + 1
        <5>1. revocations'[g][i] = revocations[g][i] + 1 /\ revocations[g][i] \in Nat
          BY <1>2, <2>1, <3>2
        <5> HIDE DEF g, i
        <5> QED BY <2>1, <2>2, <5>1
      <4>2. spaces'[g][i].generation = NextCapGeneration(spaces[g][i].generation)
        BY <2>1, <3>2
      <4> HIDE DEF g, i
      <4> QED BY <2>1, <2>2, <3>1, <4>1, <4>2, CapabilityAssumption DEF Moved, NextCapGeneration, g, i
    <3>3. CASE ~(g = h /\ i \in slots)
      <4>1. Since(r)' = Since(r)
        BY <1>2, <2>1, <2>2, <3>3
      <4>2. spaces'[g][i].generation = spaces[g][i].generation
        BY <2>1, <3>3
      <4> QED BY <3>1, <4>1, <4>2
    <3> QED BY <3>2, <3>3
  <2>4. CASE r \notin revoked
    <3>1. PICK k \in slots : r = f[k]
      BY <1>1, <2>4
    <3>2. g = h /\ i = k /\ r.serial = revocations[h][k] /\ r.cap.generation = spaces[h][k].generation
      BY <3>1
    <3>3. Since(r)' = 1
      BY <1>2, <2>1, <2>2, <3>2
    <3>4. spaces'[g][i].generation = NextCapGeneration(r.cap.generation)
      BY <2>1, <3>2
    <3> HIDE DEF g, i
    <3> QED BY <2>1, <3>3, <3>4, CapabilityAssumption DEF Moved, NextCapGeneration, g, i
  <2> QED BY <2>3, <2>4
<1> QED BY <1>2, <1>5, <1>6, <1>7 DEF StaleInv
-----------------------------------------------------------------------------
(* A send is a transfer that may be rolled back once more; one that        *)
(* succeeded was authorised.                                               *)
LEMMA SendResults ==
    ASSUME Types, NEW h \in Holders, NEW g \in Holders, NEW cap, NEW requested \in Requested(h)
    PROVE  LET q == SendResult(h, g, cap, requested) IN
           \/ Extended(spaces[h], spaces[g], q) /\ MaySend(spaces[h], cap, endpoint)
           \/ RolledBack(spaces[g], q)
<1> DEFINE moved == Transfer(spaces[h], spaces[g], requested)
           q == SendResult(h, g, cap, requested)
<1>1. spaces[h] \in Space /\ spaces[g] \in Space
  BY DEF Types
<1>2. \A x \in Presented(h) : x \in Handle
  BY <1>1 DEF Presented, Space, Entry, Handle
<1>3. /\ Len(requested) \in Nat
      /\ \A m \in 1 .. Len(requested) : requested[m] \in Handle \X SUBSET RightNames
  <2> DEFINE X == Presented(h) \X RequestRights
  <2>1. PICK n \in 0 .. MaxCapabilities : requested \in [1 .. n -> X]
    BY DEF Requested, Seqs!SeqOf
  <2>2. n \in Nat
    BY <2>1, EndpointAssumption
  <2>3. requested \in Seq(X) /\ Len(requested) = n
    BY <2>1, <2>2
  <2>4. ASSUME NEW x \in X PROVE x \in Handle \X SUBSET RightNames
    BY <1>2, <2>4, RightsAssumption
  <2> HIDE DEF X
  <2> QED BY <2>1, <2>2, <2>3, <2>4
<1>4. Extended(spaces[h], spaces[g], moved) \/ RolledBack(spaces[g], moved)
  BY <1>1, <1>3, TransferResult
<1>5. q = IF moved.ok /\ ~MaySend(spaces[h], cap, endpoint) THEN Undone(moved) ELSE moved
  BY DEF SendResult
<1> HIDE DEF moved, q
<1>6. CASE Extended(spaces[h], spaces[g], moved)
  <2>1. moved.ok = TRUE
    BY <1>6 DEF Extended
  <2>2. CASE MaySend(spaces[h], cap, endpoint)
    BY <1>5, <1>6, <2>2 DEF q
  <2>3. CASE ~MaySend(spaces[h], cap, endpoint)
    <3>1. q = Undone(moved)
      BY <1>5, <2>1, <2>3
    <3> QED BY <1>1, <1>6, <3>1, UndoneIsRolledBack DEF q
  <2> QED BY <2>2, <2>3
<1>7. CASE RolledBack(spaces[g], moved)
  <2>1. q = moved
    BY <1>5, <1>7 DEF RolledBack
  <2> QED BY <1>7, <2>1 DEF q
<1> QED BY <1>4, <1>6, <1>7

(* Authority, slot by slot                                                 *)
LEMMA AuthorityBySlot ==
    ASSUME Attenuated
    PROVE  NoAmplification
<1> SUFFICES ASSUME NEW h \in Holders, NEW x \in Authority(spaces[h])
             PROVE  \E grant \in grants : /\ grant.object = x.object
                                          /\ x.rights \subseteq grant.rights
                                          /\ grant.holder = h \/ "DELEGATE" \in grant.rights
  BY DEF NoAmplification
<1>1. PICK i \in CapSlots : /\ spaces[h][i].occupied
                            /\ x.object = spaces[h][i].object /\ x.rights = spaces[h][i].rights
  BY DEF Authority
<1>2. CoveredBy(grants, h, x.object, x.rights)
  BY <1>1 DEF Attenuated
<1>3. PICK grant \in grants :
        /\ grant.object = x.object /\ x.rights \subseteq grant.rights
        /\ grant.holder = h \/ "DELEGATE" \in grant.rights
  BY <1>2 DEF CoveredBy
<1> QED BY <1>3

(* Who holds a handle that may be delegated lets others be covered.        *)
LEMMA DerivedIsCovered ==
    ASSUME Attenuated, NEW h \in Holders, NEW g \in Holders, NEW e, Derived(spaces[h], e)
    PROVE  CoveredBy(grants, g, e.object, e.rights)
<1>1. PICK j \in CapSlots : /\ spaces[h][j].occupied /\ "DELEGATE" \in spaces[h][j].rights
                            /\ e.object = spaces[h][j].object
                            /\ e.rights \subseteq spaces[h][j].rights
  BY DEF Derived
<1>2. CoveredBy(grants, h, spaces[h][j].object, spaces[h][j].rights)
  BY <1>1 DEF Attenuated
<1> QED BY <1>1, <1>2 DEF CoveredBy

(* grants only grow, so what was covered stays covered.                    *)
LEMMA CoveredStays ==
    ASSUME grants \subseteq grants', NEW h, NEW object, NEW rights, CoveredBy(grants, h, object, rights)
    PROVE  CoveredBy(grants', h, object, rights)
BY DEF CoveredBy

(* A step that changes one space, in which every handle is an old one or is*)
(* covered, keeps the authority covered.                                   *)
LEMMA OneSpaceChanges ==
    ASSUME IInv, NEW g \in Holders, NEW u \in Space, spaces' = [spaces EXCEPT ![g] = u],
           grants \subseteq grants',
           \A i \in CapSlots : u[i].occupied =>
               u[i] = spaces[g][i] \/ CoveredBy(grants', g, u[i].object, u[i].rights)
    PROVE  Attenuated' /\ spaces' \in [Holders -> Space]
<1>1. spaces' \in [Holders -> Space]
  BY DEF IInv, Types
<1>2. ASSUME NEW h \in Holders, NEW i \in CapSlots, spaces'[h][i].occupied
      PROVE  CoveredBy(grants', h, spaces'[h][i].object, spaces'[h][i].rights)
  <2>1. spaces[h][i].occupied => CoveredBy(grants, h, spaces[h][i].object, spaces[h][i].rights)
    BY DEF IInv, Attenuated
  <2>2. spaces'[h] = IF h = g THEN u ELSE spaces[h]
    BY DEF IInv, Types
  <2>3. CASE spaces'[h][i] = spaces[h][i]
    BY <1>2, <2>1, <2>3, CoveredStays
  <2>4. CASE spaces'[h][i] # spaces[h][i]
    BY <1>2, <2>2, <2>4
  <2> QED BY <2>3, <2>4
<1> QED BY <1>1, <1>2 DEF Attenuated

(* The steps of the kernel and of tasks that insert a handle               *)
LEMMA InsertKeeps ==
    ASSUME IInv, NEW g \in Holders, NEW object \in Objects \cup {NoObject},
           NEW rights \in SUBSET RightNames, FreeEntries(spaces[g]) # {},
           spaces' = [spaces EXCEPT ![g] = Insert(@, object, rights)],
           UNCHANGED <<endpoint, revocations, revoked>>,
           grants \subseteq grants', grants' \subseteq Grant,
           CoveredBy(grants', g, object, rights)
    PROVE  IInv'
<1> DEFINE u == Insert(spaces[g], object, rights)
<1>0. Types /\ spaces[g] \in Space
  BY DEF IInv, Types
<1>1. PICK i \in CapSlots : InsertsAt(spaces[g], object, rights, i)
  BY <1>0, InsertedIsSpace
<1>2. /\ u \in Space /\ u[i].occupied /\ u[i].object = object /\ u[i].rights = rights
      /\ u[i].generation = spaces[g][i].generation
      /\ \A j \in CapSlots \ {i} : u[j] = spaces[g][j]
      /\ spaces' = [spaces EXCEPT ![g] = u]
  BY <1>1 DEF InsertsAt
<1> HIDE DEF u
<1>3. Attenuated' /\ spaces' \in [Holders -> Space]
  <2>1. \A j \in CapSlots : u[j] = spaces[g][j] \/ CoveredBy(grants', g, u[j].object, u[j].rights)
    BY <1>2
  <2> QED BY <1>2, <2>1, OneSpaceChanges
<1>4. \A h \in Holders, j \in CapSlots : spaces'[h][j].generation = spaces[h][j].generation
  BY <1>0, <1>2 DEF Types
<1>5. StaleInv'
  <2> SUFFICES ASSUME NEW r \in revoked
               PROVE  /\ Since(r) >= 1
                      /\ Since(r) < MaxCapGeneration =>
                           spaces'[r.holder][r.cap.slot].generation
                             = Moved(r.cap.generation, Since(r))
    BY DEF StaleInv, Since
  <2>1. r.holder \in Holders /\ r.cap.slot \in CapSlots
    BY <1>0 DEF Types, Record, Handle
  <2> QED BY <1>4, <2>1 DEF IInv, StaleInv
<1>6. CardInv' /\ Types'
  BY <1>0, <1>3 DEF IInv, CardInv, Types
<1> QED BY <1>3, <1>5, <1>6 DEF IInv

(* The steps that revoke handles                                           *)
LEMMA RevokeKeeps ==
    ASSUME IInv, NEW g \in Holders, NEW u \in Space, spaces' = [spaces EXCEPT ![g] = u],
           NEW slots, slots \subseteq CapSlots, RecordRevoked(g, slots), UNCHANGED grants,
           endpoint' \in [object : {EndpointObject}, next : 1 .. MaxSequence],
           \A i \in CapSlots : u[i].generation =
               IF i \in slots THEN NextCapGeneration(spaces[g][i].generation)
               ELSE spaces[g][i].generation,
           \A i \in CapSlots : u[i].occupied =>
               u[i] = spaces[g][i] \/ CoveredBy(grants, g, u[i].object, u[i].rights)
    PROVE  IInv'
<1>1. Attenuated' /\ spaces' \in [Holders -> Space]
  <2>1. \A i \in CapSlots : u[i].occupied =>
               u[i] = spaces[g][i] \/ CoveredBy(grants', g, u[i].object, u[i].rights)
    BY CoveredStays
  <2> QED BY <2>1, OneSpaceChanges
<1>2. /\ spaces'[g] = u /\ \A h \in Holders \ {g} : spaces'[h] = spaces[h]
  BY DEF IInv, Types
<1>3. /\ revocations' \in [Holders -> [CapSlots -> Nat]] /\ revoked' \subseteq Record
      /\ CardInv' /\ StaleInv'
  BY <1>2, RecordKeeps
<1> QED BY <1>1, <1>3 DEF IInv, Types

(* Every step keeps the invariant.                                         *)
LEMMA NextIInv ==
    IInv /\ [Next]_vars => IInv'
<1> SUFFICES ASSUME IInv, [Next]_vars PROVE IInv'
  OBVIOUS
<1>0. Types /\ \A h \in Holders : spaces[h] \in Space
  BY DEF IInv, Types
<1>1. ASSUME NEW h \in Holders, NEW object \in Objects, NEW rights \in GrantRights,
             InsertGrant(h, object, rights)
      PROVE  IInv'
  <2>1. /\ FreeEntries(spaces[h]) # {} /\ UNCHANGED <<endpoint, revocations, revoked>>
        /\ spaces' = [spaces EXCEPT ![h] = Insert(@, object, rights)]
        /\ grants' = grants \cup {[holder |-> h, object |-> object, rights |-> rights]}
    BY <1>1 DEF InsertGrant
  <2>2. grants' \subseteq Grant /\ grants \subseteq grants' /\ rights \in SUBSET RightNames
    BY <1>0, <2>1, RightsAssumption DEF Types, Grant
  <2>3. CoveredBy(grants', h, object, rights)
    <3> DEFINE grant == [holder |-> h, object |-> object, rights |-> rights]
    <3>1. /\ grant \in grants' /\ grant.object = object /\ grant.holder = h
          /\ rights \subseteq grant.rights
      BY <2>1
    <3> HIDE DEF grant
    <3> QED BY <3>1 DEF CoveredBy
  <2> QED BY <2>1, <2>2, <2>3, InsertKeeps
<1>2. ASSUME NEW h \in Holders, NEW g \in Holders, NEW cap, NEW rights \in RequestRights,
             Derive(h, g, cap, rights)
      PROVE  IInv'
  <2> DEFINE e == spaces[h][cap.slot]
  <2>1. /\ cap.slot \in CapSlots /\ e.occupied /\ "DELEGATE" \in e.rights
        /\ FreeEntries(spaces[g]) # {} /\ UNCHANGED <<endpoint, grants, revocations, revoked>>
        /\ spaces' = [spaces EXCEPT ![g] = Insert(@, e.object, e.rights \cap rights)]
    BY <1>2 DEF Derive, CanDerive, Authorize, Holds
  <2>2. e \in Entry
    BY <1>0, <2>1 DEF Space
  <2>3. e.object \in Objects \cup {NoObject} /\ e.rights \cap rights \in SUBSET RightNames
    BY <2>2 DEF Entry
  <2>4. CoveredBy(grants, h, e.object, e.rights)
    BY <2>1 DEF IInv, Attenuated
  <2> HIDE DEF e
  <2>5. CoveredBy(grants', g, e.object, e.rights \cap rights)
    BY <2>1, <2>4 DEF CoveredBy
  <2>6. grants \subseteq grants' /\ grants' \subseteq Grant
    BY <1>0, <2>1 DEF Types
  <2> QED BY <2>1, <2>3, <2>5, <2>6, InsertKeeps
<1>3. ASSUME NEW h \in Holders, NEW cap, RevokeHandle(h, cap)
      PROVE  IInv'
  <2> DEFINE u == Revoke(spaces[h], cap)
  <2>1. /\ cap.slot \in CapSlots /\ RecordRevoked(h, {cap.slot}) /\ UNCHANGED <<endpoint, grants>>
        /\ spaces' = [spaces EXCEPT ![h] = u]
        /\ u = [spaces[h] EXCEPT ![cap.slot] = RevokedEntry(spaces[h][cap.slot])]
    BY <1>3 DEF RevokeHandle, Holds, Revoke
  <2> HIDE DEF u
  <2>2. spaces[h][cap.slot] \in Entry
    BY <1>0, <2>1 DEF Space
  <2>3. /\ RevokedEntry(spaces[h][cap.slot]) \in Entry /\ ~RevokedEntry(spaces[h][cap.slot]).occupied
        /\ RevokedEntry(spaces[h][cap.slot]).generation
             = NextCapGeneration(spaces[h][cap.slot].generation)
    BY <2>2, RevokedIsEntry
  <2>4. /\ u \in Space /\ u[cap.slot] = RevokedEntry(spaces[h][cap.slot])
        /\ \A i \in CapSlots \ {cap.slot} : u[i] = spaces[h][i]
    BY <1>0, <2>1, <2>3 DEF Space
  <2>5. endpoint' \in [object : {EndpointObject}, next : 1 .. MaxSequence]
    BY <1>0, <2>1 DEF Types
  <2>6. \A i \in CapSlots : u[i].generation =
               IF i \in {cap.slot} THEN NextCapGeneration(spaces[h][i].generation)
               ELSE spaces[h][i].generation
    BY <2>3, <2>4
  <2>7. \A i \in CapSlots : u[i].occupied =>
               u[i] = spaces[h][i] \/ CoveredBy(grants, h, u[i].object, u[i].rights)
    BY <2>3, <2>4
  <2>8. {cap.slot} \subseteq CapSlots /\ u \in Space /\ UNCHANGED grants
    BY <2>1, <2>4
  <2> DEFINE slots == {cap.slot}
  <2>9. slots \subseteq CapSlots /\ RecordRevoked(h, slots) /\ spaces' = [spaces EXCEPT ![h] = u]
    BY <2>1
  <2>10. \A i \in CapSlots : u[i].generation =
               IF i \in slots THEN NextCapGeneration(spaces[h][i].generation)
               ELSE spaces[h][i].generation
    BY <2>6
  <2> HIDE DEF slots
  <2> QED BY <2>5, <2>7, <2>8, <2>9, <2>10, RevokeKeeps
<1>4. ASSUME NEW h \in Holders, NEW g \in Holders, NEW cap, NEW requested \in Requested(h),
             Send(h, g, cap, requested)
      PROVE  IInv'
  <2> DEFINE q == SendResult(h, g, cap, requested)
             slots == {i \in CapSlots : spaces[g][i].generation # q.space[i].generation}
  <2>1. /\ spaces' = [spaces EXCEPT ![g] = q.space] /\ RecordRevoked(g, slots)
        /\ endpoint' = (IF q.ok THEN Sent(endpoint) ELSE endpoint) /\ UNCHANGED grants
    BY <1>4 DEF Send
  <2>2. \/ Extended(spaces[h], spaces[g], q) /\ MaySend(spaces[h], cap, endpoint)
        \/ RolledBack(spaces[g], q)
    BY <1>0, <1>4, SendResults
  <2>3. slots \subseteq CapSlots /\ \A i \in CapSlots : i \in slots <=> spaces[g][i].generation # q.space[i].generation
    OBVIOUS
  <2> HIDE DEF q, slots
  <2>4. q.space \in Space
    BY <2>2 DEF Extended, RolledBack
  <2>5. endpoint' \in [object : {EndpointObject}, next : 1 .. MaxSequence]
    <3>1. endpoint \in [object : {EndpointObject}, next : 1 .. MaxSequence]
      BY <1>0 DEF Types
    <3>2. CASE Extended(spaces[h], spaces[g], q) /\ MaySend(spaces[h], cap, endpoint)
      <4>1. endpoint' = [endpoint EXCEPT !.next = @ + 1] /\ endpoint.next # MaxSequence
        BY <2>1, <3>2 DEF Extended, MaySend, Sent
      <4> QED BY <3>1, <4>1, CapabilityAssumption
    <3>3. CASE RolledBack(spaces[g], q)
      BY <2>1, <3>1, <3>3 DEF RolledBack
    <3> QED BY <2>2, <3>2, <3>3
  <2>6. \A i \in CapSlots : q.space[i].generation =
               IF i \in slots THEN NextCapGeneration(spaces[g][i].generation)
               ELSE spaces[g][i].generation
    BY <2>2, <2>3 DEF Extended, RolledBack
  <2>7. ASSUME NEW i \in CapSlots, q.space[i].occupied
        PROVE  q.space[i] = spaces[g][i] \/ CoveredBy(grants, g, q.space[i].object, q.space[i].rights)
    <3>1. q.space[i] = spaces[g][i] \/ Derived(spaces[h], q.space[i])
      BY <2>2, <2>7 DEF Extended, RolledBack
    <3> QED BY <3>1, DerivedIsCovered DEF IInv
  <2> QED BY <2>1, <2>3, <2>4, <2>5, <2>6, <2>7, RevokeKeeps
<1>5. CASE UNCHANGED vars
  BY <1>5 DEF vars, IInv, Types, CardInv, StaleInv, Since, Attenuated, CoveredBy
<1> QED BY <1>1, <1>2, <1>3, <1>4, <1>5 DEF Next

(* It holds initially: all spaces are empty and nothing was revoked.       *)
LEMMA InitIInv ==
    Init => IInv
<1> SUFFICES ASSUME Init PROVE IInv
  OBVIOUS
<1>1. EmptyEntry \in Entry /\ ~EmptyEntry.occupied
  BY CapabilityAssumption DEF EmptyEntry, Entry
<1>2. /\ NewSpace \in Space /\ \A i \in CapSlots : ~NewSpace[i].occupied
  BY <1>1 DEF NewSpace, Space
<1>3. Types
  BY <1>2, CapabilityAssumption DEF Init, Types, NewEndpoint
<1>4. Attenuated
  BY <1>2 DEF Init, Attenuated
<1>5. IsFiniteSet({}) /\ Cardinality({}) = 0
  BY FS_EmptySet
<1>6. CardInv /\ StaleInv
  BY <1>5, BoundsAssumption DEF Init, CardInv, StaleInv
<1> QED BY <1>3, <1>4, <1>6 DEF IInv
-----------------------------------------------------------------------------
(* The types of the model's state, the bound on revocations included.      *)
THEOREM TypeCorrect ==
    Spec => []TypeOK
<1>1. IInv => TypeOK
  <2> SUFFICES ASSUME IInv PROVE TypeOK
    OBVIOUS
  <2>1. Types /\ CardInv /\ StaleInv
    BY DEF IInv
  <2>2. Cardinality(revoked) \in Nat
    BY <2>1, FS_CardinalityType DEF CardInv
  <2>3. \A h \in Holders, i \in CapSlots : revocations[h][i] \in 0 .. MaxRevocations
    BY <2>1, <2>2, BoundsAssumption DEF Types, CardInv
  <2>4. ASSUME NEW r \in revoked PROVE r.serial \in 0 .. MaxRevocations
    <3>1. r \in Record
      BY <2>1 DEF Types
    <3>2. r.holder \in Holders /\ r.cap.slot \in CapSlots /\ r.serial \in Nat
      BY <3>1 DEF Record, Handle
    <3>3. revocations[r.holder][r.cap.slot] \in 0 .. MaxRevocations
      BY <2>3, <3>2
    <3>4. revocations[r.holder][r.cap.slot] - r.serial >= 1
      BY <2>1 DEF StaleInv, Since
    <3> QED BY <3>2, <3>3, <3>4, BoundsAssumption
  <2>5. revocations \in [Holders -> [CapSlots -> 0 .. MaxRevocations]]
    BY <2>1, <2>3 DEF Types
  <2>6. revoked \subseteq [holder : Holders, cap : Handle, serial : 0 .. MaxRevocations]
    BY <2>1, <2>4 DEF Types, Record
  <2> QED BY <2>1, <2>5, <2>6 DEF TypeOK, Types
<1> QED BY <1>1, InitIInv, NextIInv, PTL DEF Spec

(* Delegation only attenuates, over any chain of derivations and messages. *)
THEOREM DelegationAttenuates ==
    Spec => []NoAmplification
<1>1. IInv => NoAmplification
  BY AuthorityBySlot DEF IInv
<1> QED BY <1>1, InitIInv, NextIInv, PTL DEF Spec

(* A send that fails, at whichever of its requests or when it is authorised,*)
(* leaves the receiver the authority it had.                               *)
THEOREM FailedSendsGrantNothing ==
    Spec => []FailedSendGrantsNothing
<1>1. IInv => FailedSendGrantsNothing
  <2> SUFFICES ASSUME IInv, NEW h \in Holders, NEW g \in Holders, NEW cap,
                      NEW requested \in Requested(h), ~SendResult(h, g, cap, requested).ok
               PROVE  Authority(SendResult(h, g, cap, requested).space) = Authority(spaces[g])
    BY DEF FailedSendGrantsNothing
  <2> DEFINE q == SendResult(h, g, cap, requested)
  <2>1. RolledBack(spaces[g], q)
    <3>1. Extended(spaces[h], spaces[g], q) \/ RolledBack(spaces[g], q)
      BY SendResults DEF IInv
    <3> QED BY <3>1 DEF Extended
  <2> HIDE DEF q
  <2>2. \A i \in CapSlots : /\ q.space[i].occupied <=> spaces[g][i].occupied
                            /\ spaces[g][i].occupied => q.space[i] = spaces[g][i]
    BY <2>1 DEF RolledBack
  <2>3. Authority(q.space) = Authority(spaces[g])
    BY <2>2 DEF Authority
  <2> QED BY <2>3 DEF q
<1> QED BY <1>1, InitIInv, NextIInv, PTL DEF Spec

(* A revoked handle names nothing until the generation counter of its slot *)
(* has gone all the way round, whatever was inserted and rolled back.      *)
THEOREM RevokedStaysStale ==
    Spec => []StaleUntilWrap
<1>1. IInv => StaleUntilWrap
  <2> SUFFICES ASSUME IInv, NEW r \in revoked, Since(r) < MaxCapGeneration
               PROVE  spaces[r.holder][r.cap.slot].generation # r.cap.generation
    BY DEF StaleUntilWrap, Since, Holds
  <2>1. r \in Record /\ revocations \in [Holders -> [CapSlots -> Nat]]
    BY DEF IInv, Types
  <2>2. /\ r.cap.generation \in 1 .. MaxCapGeneration /\ Since(r) \in Int
    BY <2>1 DEF Record, Handle, Since
  <2>3. /\ Since(r) >= 1
        /\ spaces[r.holder][r.cap.slot].generation = Moved(r.cap.generation, Since(r))
    BY DEF IInv, StaleInv
  <2>4. Moved(r.cap.generation, Since(r)) # r.cap.generation
    BY <2>2, <2>3, CapabilityAssumption DEF Moved
  <2> QED BY <2>3, <2>4
<1> QED BY <1>1, InitIInv, NextIInv, PTL DEF Spec

-----------------------------------------------------------------------------
(***************************************************************************)
(* The wire form of the messages: IpcWire, between one Endpoint and its    *)
(* Receiver                                                                *)
(***************************************************************************)

(* The halves of a token give back the capability, and the generation of a *)
(* capability is never 0.                                                  *)
LEMMA TokenKept ==
    ASSUME NEW cap \in WireHandle
    PROVE  /\ Token(cap) \in Nat /\ Token(cap) \div HALF # 0
           /\ FromToken(Token(cap)) = cap
<1>1. PICK w \in 0 .. WORDS - 1 : w \div HALF # 0 /\ cap = FromToken(w)
  BY DEF WireHandle, Word
<1>2. w \in Nat /\ HALF \in Nat \ {0}
  BY WireAssumption
<1>3. (w \div HALF) * HALF + (w % HALF) = w
  BY <1>2
<1>4. Token(cap) = w
  BY <1>1, <1>3 DEF Token, FromToken
<1> QED BY <1>1, <1>2, <1>4

(* A function on 1 .. n is a sequence of length n.                         *)
LEMMA FcnIsSeq ==
    ASSUME NEW S, NEW n \in Nat, NEW g \in [1 .. n -> S]
    PROVE  g \in Seq(S) /\ Len(g) = n /\ DOMAIN g = 1 .. n
OBVIOUS

(* Two sequences of one length with the same entries are one.              *)
LEMMA SameSeq ==
    ASSUME NEW S, NEW n \in Nat, NEW s \in Seq(S), NEW t \in Seq(S), Len(s) = n, Len(t) = n,
           \A k \in 1 .. n : s[k] = t[k]
    PROVE  s = t
<1>1. s \in [1 .. n -> S] /\ t \in [1 .. n -> S]
  BY LenProperties
<1> QED BY <1>1

(* The header says what the body is, and decode gives the message back.    *)
LEMMA EncodedIs ==
    ASSUME NEW m \in WireMessage, NEW n \in Nat \ {0}
    PROVE  LET f == Encode(m, n) IN
           /\ f = [intact |-> f.intact, sequence |-> f.sequence, count |-> f.count,
                   length |-> f.length, body |-> f.body]
           /\ f.sequence = n /\ f.body \in Seq(Nat)
           /\ f.count \in Nat /\ f.length \in Nat /\ Len(f.body) = f.count + f.length
           /\ Decodes(f) /\ Decoded(f) = m
<1> DEFINE f == Encode(m, n)
           tokens == [k \in DOMAIN m.caps |-> Token(m.caps[k])]
<1>1. PICK a \in 0 .. MAX_CAPS, b \in 0 .. MAX_PAYLOAD :
         /\ m = [caps |-> m.caps, payload |-> m.payload]
         /\ m.caps \in [1 .. a -> WireHandle] /\ m.payload \in [1 .. b -> Word]
  BY DEF WireMessage, WireSeqs!SeqOf
<1>2. a \in Nat /\ b \in Nat /\ a <= MAX_CAPS /\ b <= MAX_PAYLOAD
  BY WireAssumption
<1>3. /\ Len(m.caps) = a /\ Len(m.payload) = b /\ DOMAIN m.caps = 1 .. a
      /\ m.payload \in Seq(Nat)
  <2>1. \A w \in Word : w \in Nat
    BY DEF Word
  <2>2. m.payload \in [1 .. b -> Nat]
    BY <1>1, <2>1
  <2>3. m.caps \in Seq(WireHandle) /\ Len(m.caps) = a /\ DOMAIN m.caps = 1 .. a
    BY <1>1, <1>2
  <2>4. m.payload \in Seq(Nat) /\ Len(m.payload) = b
    BY <1>2, <2>2
  <2> QED BY <2>3, <2>4
<1>4. /\ tokens \in Seq(Nat) /\ Len(tokens) = a
      /\ \A k \in 1 .. a : /\ tokens[k] \div HALF # 0
                           /\ FromToken(tokens[k]) = m.caps[k]
  <2>1. \A k \in 1 .. a : m.caps[k] \in WireHandle
    BY <1>1
  <2>2. \A k \in 1 .. a : /\ tokens[k] \in Nat /\ tokens[k] \div HALF # 0
                          /\ FromToken(tokens[k]) = m.caps[k]
    BY <1>3, <2>1, TokenKept
  <2>3. tokens \in [1 .. a -> Nat]
    BY <1>3, <2>2
  <2> HIDE DEF tokens
  <2>4. tokens \in Seq(Nat) /\ Len(tokens) = a
    BY <1>2, <2>3, FcnIsSeq
  <2> QED BY <2>2, <2>4
<1>5. f = [intact |-> TRUE, sequence |-> n, count |-> a, length |-> b,
           body |-> tokens \o m.payload]
  BY <1>3 DEF Encode
<1> HIDE DEF tokens, f
<1>6. /\ f.intact = TRUE /\ f.sequence = n /\ f.count = a /\ f.length = b
      /\ f.body = tokens \o m.payload
      /\ f = [intact |-> f.intact, sequence |-> f.sequence, count |-> f.count,
              length |-> f.length, body |-> f.body]
  BY <1>5
<1>7. /\ f.body \in Seq(Nat) /\ Len(f.body) = a + b
      /\ \A k \in 1 .. a + b : f.body[k] = IF k <= a THEN tokens[k] ELSE m.payload[k - a]
  <2> DEFINE body == tokens \o m.payload
  <2>1. /\ body \in Seq(Nat) /\ Len(body) = Len(tokens) + Len(m.payload)
        /\ \A k \in 1 .. Len(tokens) + Len(m.payload) :
              body[k] = IF k <= Len(tokens) THEN tokens[k] ELSE m.payload[k - Len(tokens)]
    BY <1>3, <1>4, ConcatProperties
  <2>2. f.body = body
    BY <1>6
  <2> HIDE DEF body
  <2>3. Len(tokens) = a /\ Len(m.payload) = b
    BY <1>3, <1>4
  <2> QED BY <2>1, <2>2, <2>3
<1>8. \A k \in 1 .. a : f.body[k] = tokens[k]
  BY <1>2, <1>7
<1>9. Decodes(f)
  BY <1>2, <1>4, <1>6, <1>7, <1>8 DEF Decodes
<1>10. [k \in 1 .. f.count |-> FromToken(f.body[k])] = m.caps
  BY <1>1, <1>4, <1>6, <1>8
<1>11. SubSeq(f.body, f.count + 1, Len(f.body)) = m.payload
  <2> DEFINE rest == SubSeq(f.body, a + 1, a + b)
  <2>1. \A k \in a + 1 .. a + b : f.body[k] \in Nat
    BY <1>2, <1>7, LenProperties
  <2>2. /\ rest \in Seq(Nat) /\ Len(rest) = IF a + 1 <= a + b THEN a + b - (a + 1) + 1 ELSE 0
        /\ \A k \in 1 .. a + b - (a + 1) + 1 : rest[k] = f.body[a + 1 + k - 1]
    BY <1>2, <2>1, SubSeqProperties
  <2> HIDE DEF rest
  <2>3. Len(rest) = b /\ \A k \in 1 .. b : rest[k] = m.payload[k]
    <3>1. Len(rest) = b
      BY <1>2, <2>2
    <3>2. ASSUME NEW k \in 1 .. b PROVE rest[k] = m.payload[k]
      <4>1. k \in 1 .. a + b - (a + 1) + 1 /\ a + 1 + k - 1 = a + k /\ a + k \in 1 .. a + b
            /\ ~(a + k <= a) /\ a + k - a = k
        BY <1>2
      <4>2. rest[k] = f.body[a + k]
        BY <2>2, <4>1
      <4> QED BY <1>7, <4>1, <4>2
    <3> QED BY <3>1, <3>2
  <2>4. rest = m.payload
    <3>1. rest \in Seq(Nat) /\ Len(rest) = b /\ Len(m.payload) = b
      BY <1>3, <2>2, <2>3
    <3> QED BY ONLY <1>2, <1>3, <2>3, <3>1, SameSeq
  <2> QED BY <1>6, <1>7, <2>4 DEF rest
<1>12. Decoded(f) = m
  BY <1>1, <1>10, <1>11 DEF Decoded
<1> QED BY <1>2, <1>6, <1>7, <1>9, <1>12 DEF f

(* What the transport does to a frame shows: it is no longer the encoding  *)
(* of a message under its number, and decode refuses it.                   *)
LEMMA DamageShows ==
    ASSUME NEW m \in WireMessage, NEW n \in Nat \ {0},
           NEW d \in Damaged(Encode(m, n))
    PROVE  d.sequence = n /\ ~Decodes(d) /\ d # Encode(m, n)
<1> DEFINE f == Encode(m, n)
<1>1. /\ f = [intact |-> f.intact, sequence |-> f.sequence, count |-> f.count,
              length |-> f.length, body |-> f.body]
      /\ f.sequence = n /\ f.body \in Seq(Nat)
      /\ f.count \in Nat /\ f.length \in Nat /\ Len(f.body) = f.count + f.length
      /\ Decodes(f)
  BY EncodedIs
<1>2. \/ \E k \in 0 .. Len(f.body) - 1 : d = [f EXCEPT !.body = SubSeq(f.body, 1, k)]
      \/ \E w \in Word : d = [f EXCEPT !.body = Append(f.body, w)]
      \/ d = [f EXCEPT !.intact = FALSE]
  BY DEF Damaged
<1> HIDE DEF f
<1>3. ASSUME NEW body, d = [f EXCEPT !.body = body], Len(body) # Len(f.body)
      PROVE  d.sequence = n /\ ~Decodes(d) /\ d # f
  <2>1. d.body = body /\ d.sequence = n /\ d.count = f.count /\ d.length = f.length
    BY <1>1, <1>3
  <2>2. ~Decodes(d)
    BY <1>1, <1>3, <2>1 DEF Decodes
  <2> QED BY <1>3, <2>1, <2>2
<1>4. ASSUME NEW k \in 0 .. Len(f.body) - 1 PROVE Len(SubSeq(f.body, 1, k)) # Len(f.body)
  <2>1. Len(f.body) \in Nat /\ k \in Nat /\ k < Len(f.body)
    BY <1>1
  <2>2. \A i \in 1 .. k : f.body[i] \in Nat
    <3>1. f.body \in [1 .. Len(f.body) -> Nat]
      BY <1>1, LenProperties
    <3> QED BY <2>1, <3>1
  <2>3. Len(SubSeq(f.body, 1, k)) = IF 1 <= k THEN k - 1 + 1 ELSE 0
    BY <2>1, <2>2, SubSeqProperties
  <2> QED BY <2>1, <2>3
<1>5. ASSUME NEW w PROVE Len(Append(f.body, w)) # Len(f.body)
  <2>1. f.body \in Seq(Nat \cup {w})
    BY <1>1
  <2> QED BY <1>1, <2>1, AppendProperties
<1>6. ASSUME d = [f EXCEPT !.intact = FALSE]
      PROVE  d.sequence = n /\ ~Decodes(d) /\ d # f
  <2>1. d.intact = FALSE /\ d.sequence = n
    BY <1>1, <1>6
  <2>2. ~Decodes(d)
    BY <2>1 DEF Decodes
  <2> QED BY <1>1, <2>1, <2>2
<1>7. d.sequence = n /\ ~Decodes(d) /\ d # f
  <2>1. ASSUME NEW k \in 0 .. Len(f.body) - 1, d = [f EXCEPT !.body = SubSeq(f.body, 1, k)]
        PROVE  d.sequence = n /\ ~Decodes(d) /\ d # f
    BY ONLY <1>3, <1>4, <2>1
  <2>2. ASSUME NEW w, d = [f EXCEPT !.body = Append(f.body, w)]
        PROVE  d.sequence = n /\ ~Decodes(d) /\ d # f
    <3> DEFINE body == Append(f.body, w)
    <3>1. Len(body) # Len(f.body) /\ d = [f EXCEPT !.body = body]
      BY <1>5, <2>2
    <3> HIDE DEF body
    <3> QED BY ONLY <1>3, <3>1
  <2> QED BY ONLY <1>2, <1>6, <2>1, <2>2, Zenon
<1> QED BY <1>7 DEF f

(* Every frame in flight is the encoding of a message sent, under its      *)
(* number, or that encoding damaged; and the receiver has got the messages *)
(* below the number it expects.                                            *)
Carried(f, n) == f = Encode(sent[n], n) \/ f \in Damaged(Encode(sent[n], n))
WireInv ==
    /\ sent \in Seq(WireMessage) /\ next = Len(sent) + 1
    /\ delivered \in Seq(WireMessage) /\ expected = Len(delivered) + 1
    /\ Len(delivered) <= Len(sent)
    /\ \A k \in 1 .. Len(delivered) : delivered[k] = sent[k]
    /\ \A f \in wire : \E n \in 1 .. Len(sent) : Carried(f, n)

(* Of the frames in flight decode accepts the undamaged ones.              *)
LEMMA WireAccepts ==
    ASSUME sent \in Seq(WireMessage),
           NEW n \in 1 .. Len(sent), NEW f, Carried(f, n)
    PROVE  /\ f.sequence = n
           /\ Decodes(f) <=> f = Encode(sent[n], n)
           /\ Decodes(f) => Decoded(f) = sent[n]
<1>1. sent[n] \in WireMessage /\ n \in Nat \ {0}
  BY LenProperties
<1>2. CASE f = Encode(sent[n], n)
  BY <1>1, <1>2, EncodedIs
<1>3. CASE f \in Damaged(Encode(sent[n], n))
  BY <1>1, <1>3, DamageShows
<1> QED BY <1>2, <1>3 DEF Carried

(* Every step of sender, receiver and transport keeps that.                *)
LEMMA WireKept ==
    ASSUME WireInv, [WNext]_wvars
    PROVE  WireInv'
<1>0. Len(sent) \in Nat /\ Len(delivered) \in Nat
  BY LenProperties DEF WireInv
<1>1. ASSUME NEW m \in WireMessage, SendFrame(m) PROVE WireInv'
  <2>1. /\ wire' = wire \cup {Encode(m, next)} /\ sent' = Append(sent, m)
        /\ next' = next + 1 /\ expected' = expected /\ delivered' = delivered
    BY <1>1 DEF SendFrame
  <2>2. /\ sent' \in Seq(WireMessage) /\ Len(sent') = Len(sent) + 1
        /\ \A k \in 1 .. Len(sent) : sent'[k] = sent[k]
        /\ sent'[Len(sent) + 1] = m
    BY <2>1, AppendProperties DEF WireInv
  <2>3. ASSUME NEW f \in wire' PROVE \E n \in 1 .. Len(sent') : Carried(f, n)'
    <3>1. CASE f \in wire
      <4>1. PICK n \in 1 .. Len(sent) : Carried(f, n)
        BY <3>1 DEF WireInv
      <4>2. n \in 1 .. Len(sent') /\ sent'[n] = sent[n]
        BY <1>0, <2>2
      <4> QED BY <4>1, <4>2 DEF Carried
    <3>2. CASE f = Encode(m, next)
      <4>1. next = Len(sent) + 1 /\ next \in 1 .. Len(sent') /\ sent'[next] = m
        BY <1>0, <2>2 DEF WireInv
      <4> QED BY <3>2, <4>1 DEF Carried
    <3> QED BY <2>1, <3>1, <3>2
  <2>4. \A k \in 1 .. Len(delivered) : delivered[k] = sent'[k]
    BY <1>0, <2>2 DEF WireInv
  <2>5. /\ next' = Len(sent') + 1 /\ Len(delivered') <= Len(sent')
        /\ delivered' \in Seq(WireMessage) /\ expected' = Len(delivered') + 1
        /\ \A k \in 1 .. Len(delivered') : delivered'[k] = sent'[k]
    BY <1>0, <2>1, <2>2, <2>4 DEF WireInv
  <2> QED BY <2>2, <2>3, <2>5 DEF WireInv
<1>2. ASSUME NEW f \in wire, Deliver(f) PROVE WireInv'
  <2>1. /\ Decodes(f) /\ f.sequence = expected /\ wire' = wire /\ sent' = sent
        /\ next' = next /\ delivered' = Append(delivered, Decoded(f))
        /\ expected' = expected + 1
    BY <1>2 DEF Deliver, InSequence
  <2>2. PICK n \in 1 .. Len(sent) : Carried(f, n)
    BY DEF WireInv
  <2>3. n = expected /\ Decoded(f) = sent[n] /\ sent[n] \in WireMessage
    BY <2>1, <2>2, WireAccepts, LenProperties DEF WireInv
  <2>4. /\ delivered' \in Seq(WireMessage) /\ Len(delivered') = Len(delivered) + 1
        /\ \A k \in 1 .. Len(delivered) : delivered'[k] = delivered[k]
        /\ delivered'[Len(delivered) + 1] = sent[n]
    BY <2>1, <2>3, AppendProperties DEF WireInv
  <2>5. \A k \in 1 .. Len(delivered') : delivered'[k] = sent[k]
    BY <1>0, <2>3, <2>4 DEF WireInv
  <2>6. Len(delivered') <= Len(sent)
    BY <1>0, <2>3, <2>4 DEF WireInv
  <2> QED BY <1>0, <2>1, <2>4, <2>5, <2>6 DEF WireInv, Carried
<1>3. ASSUME NEW f \in wire, Lose(f) PROVE WireInv'
  BY <1>3 DEF Lose, WireInv, Carried
<1>4. ASSUME NEW f \in wire, Damage(f) PROVE WireInv'
  <2>1. PICK d \in Damaged(f) : wire' = (wire \ {f}) \cup {d}
    BY <1>4 DEF Damage
  <2>2. /\ f = Encode(sent[f.sequence], f.sequence)
        /\ sent' = sent /\ next' = next /\ delivered' = delivered /\ expected' = expected
    BY <1>4 DEF Damage
  <2>3. PICK n \in 1 .. Len(sent) : Carried(f, n)
    BY DEF WireInv
  <2>4. f.sequence = n
    BY <2>3, WireAccepts DEF WireInv
  <2>5. Carried(d, n)
    BY <2>1, <2>2, <2>4 DEF Carried
  <2> QED BY <2>1, <2>2, <2>5 DEF WireInv, Carried
<1>5. CASE UNCHANGED wvars
  BY <1>5 DEF wvars, WireInv, Carried
<1> QED BY <1>1, <1>2, <1>3, <1>4, <1>5 DEF WNext

LEMMA WireInvariant == WSpec => []WireInv
<1>1. WInit => WireInv
  BY DEF WInit, WireInv
<1>2. WireInv /\ [WNext]_wvars => WireInv'
  BY WireKept
<1> QED BY <1>1, <1>2, PTL DEF WSpec

(* "wire_encoding_is_exact_bounded_and_replay_checked" (ipc.rs), for any   *)
(* number of messages of any size over the lossy transport: what the       *)
(* Receiver accepted is a prefix of what was sent.                         *)
THEOREM DeliveryIsExact == WSpec => []DeliveredIsPrefix
<1>1. ASSUME WireInv PROVE DeliveredIsPrefix
  <2> DEFINE n == Len(delivered)
             s == SubSeq(delivered, 1, n)
             t == SubSeq(sent, 1, n)
  <2>1. n \in Nat /\ Len(sent) \in Nat /\ n <= Len(sent)
    BY <1>1, LenProperties DEF WireInv
  <2>2. \A i \in 1 .. n : delivered[i] \in WireMessage /\ sent[i] \in WireMessage
    BY <1>1, <2>1, LenProperties DEF WireInv
  <2>3. /\ s \in Seq(WireMessage) /\ Len(s) = IF 1 <= n THEN n - 1 + 1 ELSE 0
        /\ \A i \in 1 .. n - 1 + 1 : s[i] = delivered[1 + i - 1]
    BY <1>1, <2>1, <2>2, SubSeqProperties DEF WireInv
  <2>4. /\ t \in Seq(WireMessage) /\ Len(t) = IF 1 <= n THEN n - 1 + 1 ELSE 0
        /\ \A i \in 1 .. n - 1 + 1 : t[i] = sent[1 + i - 1]
    BY <1>1, <2>1, <2>2, SubSeqProperties DEF WireInv
  <2>5. \A i \in 1 .. n : delivered[i] = sent[i]
    BY <1>1 DEF WireInv
  <2> HIDE DEF s, t, n
  <2>6. Len(s) = n /\ Len(t) = n /\ \A i \in 1 .. n : s[i] = t[i]
    BY <2>1, <2>3, <2>4, <2>5
  <2>7. s = t
    BY ONLY <2>1, <2>3, <2>4, <2>6, SameSeq
  <2> QED BY <2>1, <2>7 DEF s, t, n, DeliveredIsPrefix, WireSeqs!IsPrefix
<1> QED BY <1>1, WireInvariant, PTL

(* The encoding is exact: Message::decode accepts a frame just when it is  *)
(* the encoding of the message sent under its number, which it gives back; *)
(* a frame cut short, extended or rewritten in its constant bytes never.   *)
THEOREM DecodeIsExact == WSpec => []AcceptedMeansSent
<1>1. ASSUME WireInv PROVE AcceptedMeansSent
  <2>1. ASSUME NEW f \in wire
        PROVE  /\ Decodes(f) <=> f = Encode(sent[f.sequence], f.sequence)
               /\ Decodes(f) => Decoded(f) = sent[f.sequence]
    <3>1. PICK n \in 1 .. Len(sent) : Carried(f, n)
      BY <1>1 DEF WireInv
    <3> QED BY <1>1, <3>1, WireAccepts DEF WireInv
  <2> QED BY <2>1 DEF AcceptedMeansSent
<1> QED BY <1>1, WireInvariant, PTL
=============================================================================
