-------------------------- MODULE VirtualGpuProofs --------------------------
(***************************************************************************)
(* Theorems about VirtualGpu, for rings and tables of any size, any number *)
(* of commands, batches and faults: commands run in order and once, work   *)
(* on the GPU and buffers are accounted for, and no ring, position or      *)
(* sequence number runs past its end.                                      *)
(***************************************************************************)
EXTENDS VirtualGpu, SequenceTheorems, FiniteSetTheorems, WellFoundedInduction, TLAPS

-----------------------------------------------------------------------------
(***************************************************************************)
(* Commands                                                                *)
(***************************************************************************)
(* A message anywhere between guest and service is one the guest encoded,  *)
(* or will not authenticate.                                               *)
Messages == {Zero, Garbage} \cup [sequence : Nat, command : Commands]
Genuine(log, m) == \/ m \in {Zero, Garbage}
                   \/ \E i \in 1..Len(log) : m = [sequence |-> i, command |-> log[i]]

Pages == /\ commandPage = [published |-> commandPage.published,
                           consumed |-> commandPage.consumed, slots |-> commandPage.slots]
         /\ commandPage.slots = [s \in 1..Slots |-> commandPage.slots[s]]
Guests == guest = [published |-> guest.published, reserved |-> guest.reserved,
                   poisoned |-> guest.poisoned, message |-> guest.message]
Bridges == /\ bridge = [pc |-> bridge.pc, consumed |-> bridge.consumed,
                        published |-> bridge.published, poisoned |-> bridge.poisoned]
           /\ bridge.consumed \in Nat

CommandInv ==
  /\ sent \in Seq(Commands) /\ accepted \in Seq(Commands)
  /\ Len(accepted) <= Len(sent)
  /\ \A k \in 1..Len(accepted) : accepted[k] = sent[k]
  /\ Pages /\ Guests /\ Bridges
  /\ Genuine(sent, guest.message)
  /\ \A s \in 1..Slots : Genuine(sent, commandPage.slots[s])
  /\ owned \in Seq(Messages) /\ \A k \in 1..Len(owned) : Genuine(sent, owned[k])

commandVars == <<guest, commandPage, bridge, owned, sent, accepted>>

LEMMA CommandInit == Init => CommandInv
<1> SUFFICES ASSUME Init PROVE CommandInv
  OBVIOUS
<1>1. /\ sent = <<>> /\ accepted = <<>> /\ owned = <<>>
      /\ Pages /\ Guests /\ Bridges
  BY DEF Init, Pages, Guests, Bridges, EmptyPage
<1>2. guest.message = Zero /\ \A s \in 1..Slots : commandPage.slots[s] = Zero
  BY DEF Init, EmptyPage
<1> QED BY <1>1, <1>2 DEF CommandInv, Genuine

(* The steps that leave the commands alone.                                *)
LEMMA CommandsAlone ==
  ASSUME CommandInv, UNCHANGED commandVars PROVE CommandInv'
BY DEF CommandInv, commandVars, Genuine, Pages, Guests, Bridges

(* What a step leaves of the commands if only what the bridge does about   *)
(* replies changes.                                                        *)
LEMMA BridgeAlone ==
  ASSUME CommandInv, Bridges', UNCHANGED <<guest, commandPage, owned, sent, accepted>>
  PROVE  CommandInv'
BY DEF CommandInv, Genuine, Pages, Guests, Bridges

(* The slot a ring position stands for is one of the page's.               *)
LEMMA SlotInRange ==
  ASSUME NEW position \in Nat PROVE SlotOf(position + 1) \in 1..Slots
<1>1. Slots \in Nat \ {0}
  BY GpuAssumption
<1>2. SlotOf(position + 1) = (position % Slots) + 1
  BY DEF SlotOf
<1>3. position % Slots \in 0..Slots - 1
  BY <1>1
<1> QED BY <1>1, <1>2, <1>3

(* Whatever is written to one slot of the page is genuine if the message   *)
(* is.                                                                     *)
LEMMA PageWritten ==
  ASSUME CommandInv, NEW s, NEW m, Genuine(sent, m),
         commandPage' = [commandPage EXCEPT !.slots[s] = m], sent' = sent
  PROVE  Pages' /\ \A t \in 1..Slots : Genuine(sent', commandPage'.slots[t])
<1> DEFINE old == commandPage.slots
<1>1. old = [t \in 1..Slots |-> old[t]]
  BY DEF CommandInv, Pages
<1>2. /\ commandPage'.slots = [old EXCEPT ![s] = m]
      /\ commandPage' = [published |-> commandPage'.published,
                         consumed |-> commandPage'.consumed, slots |-> commandPage'.slots]
  BY DEF CommandInv, Pages
<1>3. \A t \in 1..Slots : Genuine(sent, old[t])
  BY DEF CommandInv
<1> HIDE DEF old
<1>4. /\ [old EXCEPT ![s] = m] = [t \in 1..Slots |-> [old EXCEPT ![s] = m][t]]
      /\ \A t \in 1..Slots : [old EXCEPT ![s] = m][t] \in {m, old[t]}
  BY <1>1
<1>5. \A t \in 1..Slots : Genuine(sent', commandPage'.slots[t])
  BY <1>2, <1>3, <1>4
<1> QED BY <1>2, <1>4, <1>5 DEF Pages

LEMMA CommandNext ==
  ASSUME CommandInv, [Next]_vars PROVE CommandInv'
<1>0. Len(sent) \in Nat /\ Len(accepted) \in Nat /\ Len(owned) \in Nat
  BY LenProperties DEF CommandInv
<1>1. ASSUME NEW c \in Commands, GuestEncode(c) PROVE CommandInv'
  <2>1. /\ guest' = [guest EXCEPT !.message = [sequence |-> Len(sent) + 1, command |-> c]]
        /\ sent' = Append(sent, c)
        /\ UNCHANGED <<commandPage, bridge, owned, accepted>>
    BY <1>1 DEF GuestEncode
  <2>2. /\ sent' \in Seq(Commands) /\ Len(sent') = Len(sent) + 1
        /\ \A i \in 1..Len(sent) : sent'[i] = sent[i]
        /\ sent'[Len(sent) + 1] = c
    BY <2>1, AppendProperties DEF CommandInv
  <2>3. ASSUME NEW m, Genuine(sent, m) PROVE Genuine(sent', m)
    <3>1. CASE m \in {Zero, Garbage}
      BY <3>1 DEF Genuine
    <3>2. ASSUME NEW i \in 1..Len(sent), m = [sequence |-> i, command |-> sent[i]]
          PROVE  Genuine(sent', m)
      <4>1. i \in 1..Len(sent') /\ sent'[i] = sent[i]
        BY <1>0, <2>2
      <4> QED BY <3>2, <4>1 DEF Genuine
    <3> QED BY <2>3, <3>1, <3>2 DEF Genuine
  <2>4. Guests' /\ guest'.message = [sequence |-> Len(sent) + 1, command |-> c]
    BY <2>1 DEF CommandInv, Guests
  <2>5. Genuine(sent', guest'.message)
    <3>1. Len(sent) + 1 \in 1..Len(sent')
      BY <1>0, <2>2
    <3> QED BY <2>2, <2>4, <3>1 DEF Genuine
  <2>6. \A k \in 1..Len(accepted) : accepted[k] = sent'[k]
    BY <1>0, <2>2 DEF CommandInv
  <2>7. \A s \in 1..Slots : Genuine(sent', commandPage'.slots[s])
    BY <2>1, <2>3 DEF CommandInv
  <2>8. \A k \in 1..Len(owned) : Genuine(sent', owned'[k])
    BY <2>1, <2>3 DEF CommandInv
  <2> QED BY <1>0, <2>1, <2>2, <2>4, <2>5, <2>6, <2>7, <2>8 DEF CommandInv, Pages, Bridges
<1>2. CASE GuestFill
  <2>1. /\ guest' = [guest EXCEPT !.reserved = guest.published + 1]
        /\ commandPage' = [commandPage EXCEPT !.slots[SlotOf(guest.published + 1)] = guest.message]
        /\ UNCHANGED <<bridge, owned, sent, accepted>>
    BY <1>2 DEF GuestFill, history
  <2>2. Guests' /\ guest'.message = guest.message
    BY <2>1 DEF CommandInv, Guests
  <2>3. Pages' /\ \A t \in 1..Slots : Genuine(sent', commandPage'.slots[t])
    BY <2>1, PageWritten DEF CommandInv
  <2> QED BY <2>1, <2>2, <2>3 DEF CommandInv, Genuine, Bridges
<1>3. CASE GuestPublish
  <2>1. UNCHANGED <<bridge, owned, sent, accepted>>
    BY <1>3 DEF GuestPublish, history
  <2>2. Guests' /\ guest'.message \in {guest.message, Zero}
    BY <1>3 DEF GuestPublish, CommandInv, Guests
  <2>3. Pages' /\ \A t \in 1..Slots : Genuine(sent', commandPage'.slots[t])
    <3>1. CASE commandPage' = [commandPage EXCEPT !.published = guest.reserved]
      BY <2>1, <3>1 DEF CommandInv, Pages, Genuine
    <3>2. CASE commandPage' = [commandPage EXCEPT !.slots[SlotOf(guest.reserved)] = Zero]
      BY <2>1, <3>2, PageWritten DEF Genuine
    <3> QED BY <1>3, <3>1, <3>2 DEF GuestPublish
  <2> QED BY <2>1, <2>2, <2>3 DEF CommandInv, Genuine, Bridges
<1>4. CASE BridgeAcquire \/ ReplyFill \/ ReplyPublish \/ ReadFails
  <2>1. Bridges' /\ UNCHANGED <<guest, commandPage, owned, sent, accepted>>
    BY <1>4 DEF BridgeAcquire, ReplyFill, ReplyPublish, ReadFails, Poison, history,
                CommandInv, Bridges
  <2> QED BY <2>1, BridgeAlone
<1>5. CASE BridgeCopy
  <2> DEFINE m == commandPage.slots[SlotOf(bridge.consumed + 1)]
  <2>1. /\ owned' = Append(owned, m)
        /\ bridge' = [bridge EXCEPT !.pc = "copied", !.consumed = @ + 1]
        /\ UNCHANGED <<guest, commandPage, sent, accepted>>
    BY <1>5 DEF BridgeCopy, history
  <2>2. Genuine(sent, m)
    BY SlotInRange DEF CommandInv, Bridges
  <2>3. m \in Messages
    <3>1. \A i \in 1..Len(sent) : sent[i] \in Commands
      BY LenProperties DEF CommandInv
    <3> HIDE DEF m
    <3> QED BY <1>0, <2>2, <3>1 DEF Genuine, Messages
  <2> HIDE DEF m
  <2>4. /\ owned' \in Seq(Messages) /\ Len(owned') = Len(owned) + 1
        /\ \A k \in 1..Len(owned) : owned'[k] = owned[k]
        /\ owned'[Len(owned) + 1] = m
    BY <2>1, <2>3, AppendProperties DEF CommandInv
  <2>5. \A k \in 1..Len(owned') : Genuine(sent, owned'[k])
    BY <1>0, <2>2, <2>4 DEF CommandInv
  <2>6. Bridges'
    <3>1. bridge'.consumed = bridge.consumed + 1
      BY <2>1 DEF CommandInv, Bridges
    <3>2. bridge' = [pc |-> bridge'.pc, consumed |-> bridge'.consumed,
                     published |-> bridge'.published, poisoned |-> bridge'.poisoned]
      BY <2>1 DEF CommandInv, Bridges
    <3> QED BY <3>1, <3>2 DEF CommandInv, Bridges
  <2> QED BY <2>1, <2>4, <2>5, <2>6 DEF CommandInv, Genuine, Pages, Guests
<1>6. CASE BridgeConsumed \/ WriteFails
  <2>1. Bridges' /\ UNCHANGED <<guest, owned, sent, accepted>>
    BY <1>6 DEF BridgeConsumed, WriteFails, Poison, history, CommandInv, Bridges
  <2>2. commandPage' \in {commandPage, [commandPage EXCEPT !.consumed = bridge.consumed]}
    BY <1>6 DEF BridgeConsumed, WriteFails
  <2>3. Pages' /\ commandPage'.slots = commandPage.slots
    BY <2>2 DEF CommandInv, Pages
  <2> QED BY <2>1, <2>3 DEF CommandInv, Genuine, Guests
<1>7. CASE Damage
  <2>1. UNCHANGED <<guest, bridge, owned, sent, accepted>>
    BY <1>7 DEF Damage, history
  <2>2. Pages' /\ \A t \in 1..Slots : Genuine(sent', commandPage'.slots[t])
    <3>1. ASSUME NEW s,
                 NEW m \in {Garbage}
                          \cup {[sequence |-> i, command |-> sent[i]] : i \in DOMAIN sent},
                 commandPage' = [commandPage EXCEPT !.slots[s] = m]
          PROVE  Pages' /\ \A t \in 1..Slots : Genuine(sent', commandPage'.slots[t])
      <4>1. DOMAIN sent = 1..Len(sent)
        BY LenProperties DEF CommandInv
      <4>2. Genuine(sent, m)
        BY <3>1, <4>1 DEF Genuine
      <4> QED BY <2>1, <3>1, <4>2, PageWritten
    <3>2. CASE commandPage' = [commandPage EXCEPT !.published = @ + 1]
      BY <2>1, <3>2 DEF CommandInv, Pages, Genuine
    <3> QED BY <1>7, <3>1, <3>2 DEF Damage
  <2> QED BY <2>1, <2>2 DEF CommandInv, Genuine, Guests, Bridges
<1>8. CASE Process
  <2> DEFINE m == Head(owned)
  <2>1. /\ owned # <<>> /\ owned' = Tail(owned) /\ UNCHANGED <<guest, commandPage, bridge, sent>>
        /\ accepted' = IF Authentic(m) THEN Append(accepted, m.command) ELSE accepted
    BY <1>8 DEF Process
  <2>2. /\ owned' \in Seq(Messages) /\ Len(owned') = Len(owned) - 1 /\ Len(owned) # 0
        /\ \A k \in 1..Len(owned') : owned'[k] = owned[k + 1]
        /\ m = owned[1]
    BY <2>1, HeadTailProperties, EmptySeq DEF CommandInv
  <2>3. Genuine(sent, m) /\ \A k \in 1..Len(owned') : Genuine(sent, owned'[k])
    BY <1>0, <2>2 DEF CommandInv
  <2> HIDE DEF m
  <2>4. /\ accepted' \in Seq(Commands) /\ Len(accepted') <= Len(sent)
        /\ \A k \in 1..Len(accepted') : accepted'[k] = sent[k]
    <3>1. CASE ~Authentic(m)
      BY <2>1, <3>1 DEF CommandInv
    <3>2. CASE Authentic(m)
      <4>1. PICK i \in 1..Len(sent) : m = [sequence |-> i, command |-> sent[i]]
        BY <2>3, <3>2 DEF Genuine, Authentic
      <4>2. i = Len(accepted) + 1 /\ m.command = sent[i] /\ sent[i] \in Commands
        BY <3>2, <4>1, LenProperties DEF Authentic, CommandInv
      <4>3. /\ accepted' \in Seq(Commands) /\ Len(accepted') = Len(accepted) + 1
            /\ \A k \in 1..Len(accepted) : accepted'[k] = accepted[k]
            /\ accepted'[Len(accepted) + 1] = sent[i]
        BY <2>1, <3>2, <4>2, AppendProperties DEF CommandInv
      <4> QED BY <1>0, <4>2, <4>3 DEF CommandInv
    <3> QED BY <3>1, <3>2
  <2> QED BY <2>1, <2>2, <2>3, <2>4 DEF CommandInv, Genuine, Pages, Guests, Bridges
<1>9. CASE GuestReceive \/ Batching \/ Watching \/ TakeResponse \/ TakeCompletion
              \/ TakeOutput
  <2>1. UNCHANGED commandVars
    BY <1>9 DEF GuestReceive, Batching, Submitting, SubmitControlBatch, SealControl,
         ReleaseControl, Watching, ResetDevice, ExpireDispatches, CompleteDispatch, Report,
         TakeResponse, TakeCompletion, TakeOutput, commandVars, transport, history
  <2> QED BY <2>1, CommandsAlone
<1>10. CASE UNCHANGED vars
  BY <1>10, CommandsAlone DEF vars, commandVars, transport, history
<1> QED BY <1>1, <1>2, <1>3, <1>4, <1>5, <1>6, <1>7, <1>8, <1>9, <1>10
        DEF Next, Guest, Copying, Replying, Faulty

(* Two sequences of one length with the same entries are one.              *)
LEMMA SameSeq ==
  ASSUME NEW S, NEW n \in Nat, NEW s \in Seq(S), NEW t \in Seq(S), Len(s) = n, Len(t) = n,
         \A k \in 1..n : s[k] = t[k]
  PROVE  s = t
<1>1. s \in [1..n -> S] /\ t \in [1..n -> S]
  BY LenProperties
<1> QED BY <1>1

(* A sequence that agrees with the start of another one is a prefix of it. *)
LEMMA AgreeingIsPrefix ==
  ASSUME NEW S, NEW s \in Seq(S), NEW t \in Seq(S), Len(s) <= Len(t),
         \A k \in 1..Len(s) : s[k] = t[k]
  PROVE  IsPrefix(s, t)
<1> DEFINE n == Len(s)
           a == SubSeq(s, 1, n)
           b == SubSeq(t, 1, n)
<1>1. n \in Nat /\ Len(t) \in Nat /\ n <= Len(t)
  BY LenProperties
<1>2. \A i \in 1..n : s[i] \in S /\ t[i] \in S
  BY <1>1, LenProperties
<1>3. /\ a \in Seq(S) /\ Len(a) = IF 1 <= n THEN n - 1 + 1 ELSE 0
      /\ \A i \in 1..n - 1 + 1 : a[i] = s[1 + i - 1]
  BY <1>1, <1>2, SubSeqProperties
<1>4. /\ b \in Seq(S) /\ Len(b) = IF 1 <= n THEN n - 1 + 1 ELSE 0
      /\ \A i \in 1..n - 1 + 1 : b[i] = t[1 + i - 1]
  BY <1>1, <1>2, SubSeqProperties
<1>5. \A i \in 1..n : s[i] = t[i]
  OBVIOUS
<1> HIDE DEF a, b, n
<1>6. Len(a) = n /\ Len(b) = n /\ \A i \in 1..n : a[i] = b[i]
  BY <1>1, <1>3, <1>4, <1>5
<1>7. a = b
  BY ONLY <1>1, <1>3, <1>4, <1>6, SameSeq
<1> QED BY <1>1, <1>7 DEF a, b, n, IsPrefix

(* The commands the service executes are the first ones the guest encoded, *)
(* in order and each once, for any number of failed accesses and of writes *)
(* to the page outside of the protocol.                                    *)
THEOREM CommandsRunInOrder == Spec => []CommandsInOrder
<1>1. CommandInv => CommandsInOrder
  BY AgreeingIsPrefix DEF CommandInv, CommandsInOrder
<1> QED BY <1>1, CommandInit, CommandNext, PTL DEF Spec
-----------------------------------------------------------------------------
(***************************************************************************)
(* The tables                                                              *)
(***************************************************************************)
Ids(n) == [slot : 1..n, generation : 1..MaxGeneration]

Entry(e) == /\ e = [generation |-> e.generation, occupied |-> e.occupied, data |-> e.data]
            /\ e.generation \in 0..MaxGeneration /\ e.occupied \in BOOLEAN
            /\ e.occupied => e.generation # 0
Table(t, n) == t = [s \in 1..n |-> t[s]] /\ \A s \in 1..n : Entry(t[s])

(* The slot of id has moved on to a later generation, or is worn out.      *)
Past(t, id) == t[id.slot].generation = 0 \/ id.generation < t[id.slot].generation

(* How the generations of a table may change: one that is in use advances. *)
Later(t, u, n) ==
  \A s \in 1..n : \/ u[s].generation = t[s].generation
                  \/ /\ t[s].generation # 0
                     /\ u[s].generation = NextTableGeneration(t[s].generation)

LEMMA PastStays ==
  ASSUME NEW n \in Nat, NEW t, NEW u, Table(t, n), Later(t, u, n), NEW id \in Ids(n), Past(t, id)
  PROVE  Past(u, id)
<1>1. id.slot \in 1..n /\ id.generation \in 1..MaxGeneration
  BY DEF Ids
<1>2. t[id.slot].generation \in 0..MaxGeneration
  BY <1>1 DEF Table, Entry
<1> QED BY <1>1, <1>2, TablesAssumption DEF Later, Past, NextTableGeneration

(* The slot a new entry gets is free and not worn out.                     *)
LessPairs == {pair \in Nat \X Nat : pair[1] < pair[2]}

LEMMA HasLeast ==
  ASSUME NEW S, S \subseteq Nat, S # {}
  PROVE  \E x \in S : \A y \in S : x <= y
<1>1. LessPairs = OpToRel(<, Nat)
  BY DEF LessPairs, OpToRel
<1>2. IsWellFoundedOn(LessPairs, Nat)
  BY <1>1, NatLessThanWellFounded, Zenon
<1>3. PICK x \in S : \A y \in S : ~ (<<y, x>> \in LessPairs)
  BY <1>2, WFMin, Zenon
<1>4. ASSUME NEW y \in S, y < x PROVE FALSE
  <2>1. <<y, x>> \in LessPairs
    BY <1>4 DEF LessPairs
  <2> QED BY <2>1, <1>3
<1> QED BY <1>4

LEMMA FirstFree ==
  ASSUME NEW n \in Nat, NEW t, Table(t, n), FreeSlots(t) # {}
  PROVE  /\ Min(FreeSlots(t)) \in 1..n
         /\ ~t[Min(FreeSlots(t))].occupied /\ t[Min(FreeSlots(t))].generation # 0
<1> DEFINE S == FreeSlots(t)
<1>1. DOMAIN t = 1..n
  BY DEF Table
<1>2. S \subseteq 1..n /\ S \subseteq Nat /\ S # {}
  BY <1>1 DEF FreeSlots
<1>3. Min(S) \in S
  <2> HIDE DEF S
  <2>1. \E x \in S : \A y \in S : x <= y
    BY <1>2, HasLeast
  <2> QED BY <2>1 DEF Min
<1> QED BY <1>2, <1>3 DEF FreeSlots

LEMMA EntryTaken ==
  ASSUME NEW e, e = [generation |-> e.generation, occupied |-> e.occupied, data |-> e.data],
         NEW d, NEW f, f = [e EXCEPT !.occupied = TRUE, !.data = d]
  PROVE  f = [generation |-> e.generation, occupied |-> TRUE, data |-> d]
<1>1. f = [generation |-> f.generation, occupied |-> f.occupied, data |-> f.data]
  OBVIOUS
<1>2. f.generation = e.generation /\ f.occupied = TRUE /\ f.data = d
  OBVIOUS
<1> QED BY <1>1, <1>2

(* An entry that is made keeps the generation of its slot.                 *)
LEMMA OccupiedIs ==
  ASSUME NEW n \in Nat, NEW t, Table(t, n), NEW s \in 1..n, t[s].generation # 0, NEW d
  PROVE  LET u == Occupied(t, s, d) IN
         /\ Table(u, n)
         /\ u[s] = [generation |-> t[s].generation, occupied |-> TRUE, data |-> d]
         /\ \A r \in 1..n \ {s} : u[r] = t[r]
<1> DEFINE u == Occupied(t, s, d)
<1>1. u = [t EXCEPT ![s] = [t[s] EXCEPT !.occupied = TRUE, !.data = d]]
  BY DEF Occupied, Table
<1>2. [t[s] EXCEPT !.occupied = TRUE, !.data = d]
        = [generation |-> t[s].generation, occupied |-> TRUE, data |-> d]
  <2>1. Entry(t[s])
    BY DEF Table
  <2> QED BY <2>1, EntryTaken DEF Entry
<1> HIDE DEF u
<1>3. /\ u[s] = [generation |-> t[s].generation, occupied |-> TRUE, data |-> d]
      /\ \A r \in 1..n \ {s} : u[r] = t[r]
      /\ u = [r \in 1..n |-> u[r]]
  BY <1>1, <1>2 DEF Table
<1>4. Table(u, n)
  <2>1. Entry(u[s])
    <3>1. Entry(t[s])
      BY DEF Table
    <3> QED BY <1>3, <3>1 DEF Entry
  <2>2. \A r \in 1..n \ {s} : Entry(u[r])
    BY <1>3 DEF Table
  <2> QED BY <1>3, <2>1, <2>2 DEF Table
<1> QED BY <1>3, <1>4 DEF u

(* Giving slots back advances their generations and touches no other one.  *)
GivenBack(e) == [generation |-> NextTableGeneration(e.generation), occupied |-> FALSE,
             data |-> NoData]

LEMMA RetiredIs ==
  ASSUME NEW n \in Nat, NEW t, Table(t, n), NEW s \in 1..n
  PROVE  Retired(t, s) = [r \in 1..n |-> IF r = s THEN GivenBack(t[s]) ELSE t[r]]
BY DEF Retired, Table, GivenBack

LEMMA RetireAllIs ==
  ASSUME NEW n \in Nat, NEW t, Table(t, n), NEW S, S \subseteq LiveSlots(t)
  PROVE  LET u == RetireAll(t, S) IN
         /\ Table(u, n) /\ Later(t, u, n)
         /\ \A s \in 1..n : u[s] = IF s \in S THEN GivenBack(t[s]) ELSE t[s]
         /\ LiveIds(u) = LiveIds(t) \ {IdAt(t, s) : s \in S}
         /\ \A s \in S : IdAt(t, s) \in Ids(n) /\ IdAt(t, s) \in LiveIds(t) /\ Past(u, IdAt(t, s))
<1> DEFINE u == RetireAll(t, S)
<1>1. DOMAIN t = 1..n
  BY DEF Table
<1>2. u = [s \in 1..n |-> IF s \in S THEN GivenBack(t[s]) ELSE t[s]]
  <2>1. \A s \in 1..n : Retired(t, s)[s] = GivenBack(t[s])
    BY RetiredIs
  <2> QED BY <1>1, <2>1 DEF RetireAll
<1>3. S \subseteq 1..n /\ \A s \in S : t[s].occupied /\ t[s].generation \in 1..MaxGeneration
  BY <1>1 DEF LiveSlots, Table, Entry
<1> HIDE DEF u
<1>4. \A s \in 1..n : u[s] = IF s \in S THEN GivenBack(t[s]) ELSE t[s]
  BY <1>2
<1>5. \A s \in S : /\ GivenBack(t[s]).generation = NextTableGeneration(t[s].generation)
                   /\ GivenBack(t[s]).generation \in 0..MaxGeneration
                   /\ GivenBack(t[s]).generation = 0 \/ t[s].generation < GivenBack(t[s]).generation
                   /\ GivenBack(t[s]).occupied = FALSE
  BY <1>3, TablesAssumption DEF GivenBack, NextTableGeneration
<1>6. Table(u, n)
  <2>1. u = [s \in 1..n |-> u[s]]
    BY <1>2
  <2>2. ASSUME NEW s \in 1..n
        PROVE  Entry(u[s])
    <3>1. CASE s \in S
      <4>1. u[s] = GivenBack(t[s])
        BY <1>4, <3>1
      <4>2. GivenBack(t[s]) = [generation |-> GivenBack(t[s]).generation, occupied |->
                GivenBack(t[s]).occupied, data |-> GivenBack(t[s]).data]
        BY DEF GivenBack
      <4> QED BY <1>5, <3>1, <4>1, <4>2 DEF Entry
    <3>2. CASE s \notin S
      BY <1>4, <3>2 DEF Table
    <3> QED BY <3>1, <3>2
  <2> QED BY <2>1, <2>2 DEF Table
<1>7. Later(t, u, n)
  BY <1>3, <1>4, <1>5 DEF Later
<1>8. DOMAIN u = 1..n
  BY <1>2
<1>9. LiveSlots(u) = LiveSlots(t) \ S
  BY <1>1, <1>4, <1>5, <1>8 DEF LiveSlots
<1>10. LiveIds(u) = LiveIds(t) \ {IdAt(t, s) : s \in S}
  <2>1. \A s \in LiveSlots(t) \ S : IdAt(u, s) = IdAt(t, s)
    BY <1>1, <1>4 DEF IdAt, LiveSlots
  <2>2. \A r, s : IdAt(t, r) = IdAt(t, s) => r = s
    BY DEF IdAt
  <2> QED BY <1>9, <2>1, <2>2 DEF LiveIds
<1>11. \A s \in S : /\ IdAt(t, s) \in Ids(n) /\ IdAt(t, s) \in LiveIds(t)
                    /\ Past(u, IdAt(t, s))
  BY <1>3, <1>4, <1>5 DEF IdAt, Ids, LiveIds, Past
<1> QED BY <1>4, <1>6, <1>7, <1>10, <1>11 DEF u

(* cancel_batch gives back the slots whose identities it is given.         *)
LEMMA CancelIsRetire ==
  ASSUME NEW n \in Nat, NEW t, Table(t, n), NEW ids
  PROVE  /\ CancelBatch(t, ids) = RetireAll(t, {s \in LiveSlots(t) : IdAt(t, s) \in ids})
         /\ {s \in LiveSlots(t) : IdAt(t, s) \in ids} \subseteq LiveSlots(t)
BY DEF CancelBatch, RetireAll, LiveSlots

-----------------------------------------------------------------------------
(***************************************************************************)
(* begin_batch                                                             *)
(***************************************************************************)
(* What the loop has made of table t: the identities it minted name slots  *)
(* that were free, each another one, which are live now; the other slots   *)
(* are as they were.                                                       *)
Minted(ids, s) == \E i \in DOMAIN ids : ids[i].slot = s
Begun(t, n, r) ==
  /\ r = [ok |-> r.ok, table |-> r.table, ids |-> r.ids] /\ r.ok \in BOOLEAN
  /\ Table(r.table, n) /\ r.ids \in Seq(Ids(n))
  /\ \A i \in DOMAIN r.ids : r.ids[i].generation = t[r.ids[i].slot].generation
  /\ \A i, j \in DOMAIN r.ids : r.ids[i].slot = r.ids[j].slot => i = j
  /\ \A s \in 1..n :
       IF Minted(r.ids, s)
       THEN /\ ~t[s].occupied /\ t[s].generation # 0
            /\ r.table[s].occupied /\ r.table[s].generation = t[s].generation
       ELSE r.table[s] = t[s]

LEMMA BeginNextKeeps ==
  ASSUME NEW n \in Nat, NEW t, Table(t, n), NEW r, Begun(t, n, r), NEW entry, NEW now, NEW deadline
  PROVE  Begun(t, n, BeginNext(r, entry, now, deadline))
<1>1. CASE ~(r.ok /\ CanBegin(r.table, entry.request, now, deadline))
  <2>1. BeginNext(r, entry, now, deadline) = [ok |-> FALSE, table |-> r.table, ids |-> r.ids]
    BY <1>1 DEF BeginNext, Begun
  <2> QED BY <2>1 DEF Begun
<1>2. CASE r.ok /\ CanBegin(r.table, entry.request, now, deadline)
  <2> DEFINE s == Min(FreeSlots(r.table))
             d == [request |-> entry.request, deadline |-> deadline]
             u == Occupied(r.table, s, d)
             id == IdAt(r.table, s)
             ids == Append(r.ids, id)
  <2>1. BeginNext(r, entry, now, deadline) = [ok |-> TRUE, table |-> u, ids |-> ids]
    BY <1>2 DEF BeginNext, Begin
  <2>2. Table(r.table, n) /\ s \in 1..n /\ ~r.table[s].occupied /\ r.table[s].generation # 0
    BY <1>2, FirstFree DEF Begun, CanBegin
  <2> HIDE DEF s
  <2>3. /\ Table(u, n)
        /\ u[s] = [generation |-> r.table[s].generation, occupied |-> TRUE, data |-> d]
        /\ \A q \in 1..n \ {s} : u[q] = r.table[q]
    BY <2>2, OccupiedIs
  <2>4. ~Minted(r.ids, s) /\ r.table[s] = t[s]
    BY <2>2 DEF Begun
  <2>5. id = [slot |-> s, generation |-> t[s].generation] /\ id \in Ids(n)
    BY <2>2, <2>4 DEF IdAt, Ids, Table, Entry
  <2> HIDE DEF id, u
  <2>6. /\ ids \in Seq(Ids(n)) /\ Len(ids) = Len(r.ids) + 1
        /\ \A i \in 1..Len(r.ids) : ids[i] = r.ids[i]
        /\ ids[Len(r.ids) + 1] = id
    BY <2>5, AppendProperties DEF Begun
  <2>7. Len(r.ids) \in Nat /\ DOMAIN r.ids = 1..Len(r.ids) /\ DOMAIN ids = 1..Len(r.ids) + 1
    BY <2>6, LenProperties DEF Begun
  <2> HIDE DEF ids
  <2>8. \A i \in DOMAIN ids : ids[i].generation = t[ids[i].slot].generation
    BY <2>5, <2>6, <2>7 DEF Begun
  <2>9. \A i, j \in DOMAIN ids : ids[i].slot = ids[j].slot => i = j
    <3>1. \A i \in 1..Len(r.ids) : ids[i].slot # s
      BY <2>4, <2>6, <2>7 DEF Minted
    <3>2. ids[Len(r.ids) + 1].slot = s
      BY <2>5, <2>6
    <3>3. \A i, j \in 1..Len(r.ids) : ids[i].slot = ids[j].slot => i = j
      BY <2>6, <2>7 DEF Begun
    <3> QED BY <2>7, <3>1, <3>2, <3>3
  <2>10. \A q \in 1..n : Minted(ids, q) <=> (Minted(r.ids, q) \/ q = s)
    BY <2>5, <2>6, <2>7 DEF Minted
  <2>11. ASSUME NEW q \in 1..n
         PROVE  IF Minted(ids, q)
                THEN /\ ~t[q].occupied /\ t[q].generation # 0
                     /\ u[q].occupied /\ u[q].generation = t[q].generation
                ELSE u[q] = t[q]
    <3>1. CASE q = s
      BY <2>2, <2>3, <2>4, <2>10, <3>1
    <3>2. CASE q # s
      BY <2>3, <2>10, <3>2 DEF Begun
    <3> QED BY <3>1, <3>2
  <2> QED BY <2>1, <2>3, <2>6, <2>8, <2>9, <2>11 DEF Begun
<1> QED BY <1>1, <1>2
(* Everything that is true of 0 and passes from n to n + 1 is true up to a *)
(* bound: induction for a set of naturals.                                 *)
LEMMA UpTo ==
  ASSUME NEW n \in Nat, NEW S, 0 \in S, \A m \in 1..n : m - 1 \in S => m \in S
  PROVE  0..n \subseteq S
<1> DEFINE bad == {m \in 0..n : m \notin S}
<1>1. ASSUME bad # {} PROVE FALSE
  <2>1. bad \subseteq Nat
    OBVIOUS
  <2>2. PICK m \in bad : \A k \in bad : m <= k
    <3> HIDE DEF bad
    <3> QED BY <1>1, <2>1, HasLeast
  <2>3. m \in 1..n /\ m - 1 \in 0..n
    BY <2>2
  <2>4. m - 1 \in S
    BY <2>2, <2>3
  <2> QED BY <2>2, <2>3, <2>4
<1> QED BY <1>1

(* The recursion of begin_batch, unfolded.                                 *)
BeginStart(t) == [ok |-> TRUE, table |-> t, ids |-> <<>>]
BeginRuns(t, batch, now, deadline, n, f) ==
  f = [m \in 0..n |-> IF m = 0 THEN BeginStart(t)
                      ELSE BeginNext(f[m - 1], batch[m], now, deadline)]

LEMMA BeginLoop ==
  ASSUME NEW t, NEW batch, NEW now, NEW deadline, Len(batch) \in Nat
  PROVE  \E f : /\ f[0] = BeginStart(t)
                /\ \A m \in 1..Len(batch) : f[m] = BeginNext(f[m - 1], batch[m], now, deadline)
                /\ BeginEach(t, batch, now, deadline) = f[Len(batch)]
<1> DEFINE R(n, f) == BeginRuns(t, batch, now, deadline, n, f)
           S == {n \in Nat : \E f : R(n, f)}
           L == Len(batch)
<1>1. 0 \in S
  <2> DEFINE f == [m \in 0..0 |-> BeginStart(t)]
  <2>1. R(0, f)
    BY DEF BeginRuns
  <2> QED BY <2>1
<1>2. ASSUME NEW n \in 1..L, n - 1 \in S PROVE n \in S
  <2>1. PICK f : R(n - 1, f)
    BY <1>2
  <2> DEFINE g == [m \in 0..n |-> IF m = n THEN BeginNext(f[n - 1], batch[n], now, deadline)
                                  ELSE f[m]]
  <2>2. \A m \in 0..n - 1 : f[m] = IF m = 0 THEN BeginStart(t)
                                   ELSE BeginNext(f[m - 1], batch[m], now, deadline)
    BY <2>1 DEF BeginRuns
  <2>3. \A m \in 0..n : g[m] = IF m = 0 THEN BeginStart(t)
                               ELSE BeginNext(g[m - 1], batch[m], now, deadline)
    BY <1>2, <2>2
  <2>4. R(n, g)
    BY <2>3 DEF BeginRuns
  <2> QED BY <2>4
<1>3. L \in S
  <2> HIDE DEF S
  <2>1. 0..L \subseteq S
    BY <1>1, <1>2, UpTo
  <2> QED BY <2>1
<1> DEFINE p == CHOOSE f : R(L, f)
<1>4. R(L, p)
  BY <1>3
<1>5. BeginEach(t, batch, now, deadline) = p[L]
  BY DEF BeginEach, BeginRuns, BeginStart
<1>6. /\ p[0] = BeginStart(t)
      /\ \A m \in 1..L : p[m] = BeginNext(p[m - 1], batch[m], now, deadline)
  <2> HIDE DEF p
  <2> QED BY <1>4 DEF BeginRuns
<1> HIDE DEF p
<1> QED BY <1>5, <1>6

LEMMA BeginEachIs ==
  ASSUME NEW n \in Nat, NEW t, Table(t, n), NEW batch, NEW now, NEW deadline, Len(batch) \in Nat
  PROVE  Begun(t, n, BeginEach(t, batch, now, deadline))
<1>1. PICK f : /\ f[0] = BeginStart(t)
               /\ \A m \in 1..Len(batch) : f[m] = BeginNext(f[m - 1], batch[m], now, deadline)
               /\ BeginEach(t, batch, now, deadline) = f[Len(batch)]
  BY BeginLoop
<1> DEFINE S == {m \in 0..Len(batch) : Begun(t, n, f[m])}
<1>2. 0 \in S
  <2>1. Begun(t, n, BeginStart(t))
    BY DEF Begun, BeginStart, Minted
  <2> QED BY <1>1, <2>1
<1>3. \A m \in 1..Len(batch) : m - 1 \in S => m \in S
  BY <1>1, BeginNextKeeps
<1> HIDE DEF S
<1>4. Len(batch) \in S
  <2> DEFINE k == Len(batch)
  <2>1. k \in Nat /\ 0 \in S /\ \A m \in 1..k : m - 1 \in S => m \in S
    BY <1>2, <1>3
  <2> HIDE DEF k
  <2>2. 0..k \subseteq S
    BY <2>1, UpTo
  <2>3. k \in S
    BY <2>1, <2>2
  <2> QED BY <2>3 DEF k
<1> QED BY <1>1, <1>4 DEF S

(* The minted identities are new, and are the ones that became live.       *)
LEMMA BegunIs ==
  ASSUME NEW n \in Nat, NEW t, Table(t, n), NEW r, Begun(t, n, r)
  PROVE  /\ ToSet(r.ids) \subseteq Ids(n)
         /\ LiveIds(r.table) = LiveIds(t) \cup ToSet(r.ids)
         /\ LiveIds(t) \cap ToSet(r.ids) = {}
         /\ \A id \in ToSet(r.ids) : ~Past(t, id)
         /\ \A s \in 1..n : r.table[s].generation = t[s].generation
         /\ \A i, j \in DOMAIN r.ids : r.ids[i] = r.ids[j] => i = j
<1>1. DOMAIN t = 1..n /\ DOMAIN r.table = 1..n
  BY DEF Begun, Table
<1>2. \A i \in DOMAIN r.ids :
        /\ r.ids[i] \in Ids(n) /\ r.ids[i].slot \in 1..n
        /\ r.ids[i] = IdAt(t, r.ids[i].slot) /\ Minted(r.ids, r.ids[i].slot)
  <2>1. \A i \in DOMAIN r.ids : r.ids[i] \in Ids(n)
    BY LenProperties DEF Begun
  <2>2. \A i \in DOMAIN r.ids :
          r.ids[i] = [slot |-> r.ids[i].slot, generation |-> r.ids[i].generation]
                                /\ r.ids[i].slot \in 1..n
    BY <2>1 DEF Ids
  <2> QED BY <2>1, <2>2 DEF Begun, IdAt, Minted
<1>3. \A s \in 1..n : r.table[s].generation = t[s].generation
  BY DEF Begun
<1>4. \A s \in 1..n : IdAt(r.table, s) = IdAt(t, s)
  BY <1>3 DEF IdAt
<1>5. \A s \in 1..n : Minted(r.ids, s) => IdAt(t, s) \in ToSet(r.ids)
  BY <1>2 DEF Minted, ToSet
<1>6. LiveIds(r.table) = LiveIds(t) \cup ToSet(r.ids)
  <2>1. ASSUME NEW s \in LiveSlots(r.table) PROVE IdAt(r.table, s) \in LiveIds(t) \cup ToSet(r.ids)
    <3>1. s \in 1..n /\ r.table[s].occupied
      BY <1>1, <2>1 DEF LiveSlots
    <3>2. CASE Minted(r.ids, s)
      BY <1>4, <1>5, <3>1, <3>2
    <3>3. CASE ~Minted(r.ids, s)
      <4>1. s \in LiveSlots(t)
        BY <1>1, <3>1, <3>3 DEF Begun, LiveSlots
      <4> QED BY <1>4, <3>1, <4>1 DEF LiveIds
    <3> QED BY <3>2, <3>3
  <2>2. ASSUME NEW s \in LiveSlots(t) PROVE IdAt(t, s) \in LiveIds(r.table)
    <3>1. s \in 1..n /\ t[s].occupied
      BY <1>1, <2>2 DEF LiveSlots
    <3>2. s \in LiveSlots(r.table)
      BY <1>1, <3>1 DEF Begun, LiveSlots
    <3> QED BY <1>4, <3>1, <3>2 DEF LiveIds
  <2>3. ASSUME NEW i \in DOMAIN r.ids PROVE r.ids[i] \in LiveIds(r.table)
    <3>1. r.ids[i].slot \in LiveSlots(r.table)
      BY <1>1, <1>2 DEF Begun, LiveSlots
    <3> QED BY <1>2, <1>4, <3>1 DEF LiveIds
  <2> QED BY <2>1, <2>2, <2>3 DEF LiveIds, ToSet
<1>7. LiveIds(t) \cap ToSet(r.ids) = {}
  <2> SUFFICES ASSUME NEW s \in LiveSlots(t), NEW i \in DOMAIN r.ids, IdAt(t, s) = r.ids[i]
               PROVE  FALSE
    BY DEF LiveIds, ToSet
  <2>1. s = r.ids[i].slot
    BY <1>2 DEF IdAt
  <2> QED BY <1>2, <2>1 DEF LiveSlots, Begun
<1>8. \A i \in DOMAIN r.ids : ~Past(t, r.ids[i])
  BY <1>2 DEF Past, Begun, Table, Entry
<1> QED BY <1>2, <1>3, <1>6, <1>7, <1>8 DEF ToSet, Begun

(* Cancelled again, they leave the live identities as they were.           *)
LEMMA CancelledIs ==
  ASSUME NEW n \in Nat, NEW t, Table(t, n), NEW r, Begun(t, n, r)
  PROVE  LET u == CancelBatch(r.table, ToSet(r.ids)) IN
         /\ Table(u, n) /\ Later(t, u, n) /\ LiveIds(u) = LiveIds(t)
         /\ \A id \in ToSet(r.ids) : Past(u, id)
<1> DEFINE u == CancelBatch(r.table, ToSet(r.ids))
           S == {s \in LiveSlots(r.table) : IdAt(r.table, s) \in ToSet(r.ids)}
<1>1. Table(r.table, n)
  BY DEF Begun
<1>2. u = RetireAll(r.table, S) /\ S \subseteq LiveSlots(r.table)
  BY <1>1, CancelIsRetire
<1>3. {IdAt(r.table, s) : s \in S} = ToSet(r.ids)
  BY BegunIs DEF LiveIds
<1> HIDE DEF u, S
<1>4. /\ Table(u, n) /\ Later(r.table, u, n)
      /\ LiveIds(u) = LiveIds(r.table) \ {IdAt(r.table, s) : s \in S}
      /\ \A s \in S : Past(u, IdAt(r.table, s))
  BY <1>1, <1>2, RetireAllIs
<1>5. LiveIds(u) = LiveIds(t)
  BY <1>3, <1>4, BegunIs
<1>6. Later(t, u, n)
  BY <1>4, BegunIs DEF Later
<1>7. \A id \in ToSet(r.ids) : Past(u, id)
  BY <1>3, <1>4
<1> QED BY <1>4, <1>5, <1>6, <1>7 DEF u
-----------------------------------------------------------------------------
(***************************************************************************)
(* Work on the GPU                                                         *)
(***************************************************************************)
(* InSlotOrder lists the slots, each once.                                 *)
Rank(slots, s) == Cardinality({t \in slots : t <= s})

LEMMA RankOrders ==
  ASSUME NEW n \in Nat, NEW slots, slots \subseteq 1..n
  PROVE  /\ IsFiniteSet(slots) /\ Cardinality(slots) \in Nat
         /\ \A s \in slots : Rank(slots, s) \in 1..Cardinality(slots)
         /\ \A r, s \in slots : Rank(slots, r) = Rank(slots, s) => r = s
<1> DEFINE B(s) == {t \in slots : t <= s}
           m == Cardinality(slots)
<1>0. slots \subseteq Nat
  OBVIOUS
<1>1. IsFiniteSet(slots) /\ m \in Nat
  <2>1. IsFiniteSet(1..n) /\ slots \in SUBSET (1..n)
    BY FS_Interval
  <2>2. IsFiniteSet(slots)
    BY <2>1, FS_Subset
  <2> QED BY <2>2, FS_CardinalityType
<1>2. \A s \in slots : IsFiniteSet(B(s)) /\ Cardinality(B(s)) \in Nat /\ Cardinality(B(s)) <= m
  BY <1>1, FS_Subset, FS_CardinalityType
<1>3. ASSUME NEW s \in slots PROVE Cardinality(B(s)) \in 1..m
  <2>1. s \in B(s)
    OBVIOUS
  <2>2. B(s) # {}
    BY <2>1
  <2>3. Cardinality(B(s)) # 0
    <3> HIDE DEF B
    <3> QED BY <1>2, <2>2, FS_EmptySet
  <2> HIDE DEF B, m
  <2> QED BY <1>1, <1>2, <2>3
<1>4. ASSUME NEW r \in slots, NEW s \in slots, r < s PROVE Cardinality(B(r)) # Cardinality(B(s))
  <2>1. B(r) \subseteq B(s) /\ s \in B(s) /\ s \notin B(r)
    <3>1. r \in Nat /\ s \in Nat /\ r < s
      BY <1>0, <1>4
    <3>2. \A t \in slots : t \in Nat /\ (t <= r => t <= s)
      BY <1>0, <3>1
    <3>3. \A t : t \in B(r) => t \in B(s)
      BY <3>2
    <3>4. s \in B(s) /\ s \notin B(r)
      BY <3>1
    <3> HIDE DEF B
    <3> QED BY <3>3, <3>4
  <2> HIDE DEF B
  <2>2. B(r) # B(s) /\ B(r) \in SUBSET B(s)
    BY <2>1
  <2>3. Cardinality(B(s)) = Cardinality(B(r)) => B(s) = B(r)
    BY <1>2, <2>2, FS_Subset
  <2> QED BY <2>2, <2>3
<1>5. \A s \in slots : Rank(slots, s) = Cardinality(B(s))
  BY DEF Rank
<1> HIDE DEF B
<1>6. \A r, s \in slots : Rank(slots, r) = Rank(slots, s) => r = s
  <2> SUFFICES ASSUME NEW r \in slots, NEW s \in slots, Rank(slots, r) = Rank(slots, s)
               PROVE  r = s
    OBVIOUS
  <2>1. ~(r < s) /\ ~(s < r)
    BY <1>4, <1>5
  <2> QED BY <2>1
<1> QED BY <1>1, <1>3, <1>5, <1>6

LEMMA SlotOrderLists ==
  ASSUME NEW n \in Nat, NEW slots, slots \subseteq 1..n
  PROVE  LET o == InSlotOrder(slots)  m == Cardinality(slots) IN
         /\ m \in Nat /\ DOMAIN o = 1..m
         /\ \A i \in 1..m : o[i] \in slots
         /\ \A i, j \in 1..m : o[i] = o[j] => i = j
         /\ \A s \in slots : \E i \in 1..m : o[i] = s
<1> DEFINE o == InSlotOrder(slots)
           m == Cardinality(slots)
           f == [s \in slots |-> Rank(slots, s)]
<1>1. /\ IsFiniteSet(slots) /\ m \in Nat
      /\ \A s \in slots : Rank(slots, s) \in 1..m
      /\ \A r, s \in slots : Rank(slots, r) = Rank(slots, s) => r = s
  BY RankOrders
<1>2. f \in Injection(slots, 1..m)
  <2> HIDE DEF m
  <2> QED BY <1>1 DEF Injection, IsInjective
<1>3. IsFiniteSet(1..m) /\ Cardinality(1..m) = m
  <2> HIDE DEF m
  <2> QED BY <1>1, FS_Interval
<1>4. f \in Surjection(slots, 1..m)
  <2> HIDE DEF f
  <2> QED BY <1>2, <1>3, FS_Injection
<1>5. \A i \in 1..m : \E s \in slots : Rank(slots, s) = i
  <2> HIDE DEF m
  <2> QED BY <1>4 DEF Surjection
<1>6. o = [i \in 1..m |-> CHOOSE s \in slots : Rank(slots, s) = i]
  BY DEF InSlotOrder, Rank
<1> HIDE DEF o, m
<1>7. \A i \in 1..m : o[i] \in slots /\ Rank(slots, o[i]) = i
  BY <1>5, <1>6
<1>8. \A s \in slots : Rank(slots, s) \in 1..m /\ o[Rank(slots, s)] = s
  BY <1>1, <1>7
<1>9. DOMAIN o = 1..m
  BY <1>6
<1>10. \A i, j \in 1..m : o[i] = o[j] => i = j
  BY <1>7
<1> QED BY <1>1, <1>7, <1>8, <1>9, <1>10 DEF o, m

(* A log is a sequence; extended, it has the old entries and the new ones. *)
IsSeq(q) == q \in Seq(ToSet(q))

LEMMA IsSeqOfSeq ==
  ASSUME NEW S, NEW q \in Seq(S) PROVE IsSeq(q)
<1>1. Len(q) \in Nat /\ q \in [1..Len(q) -> S] /\ DOMAIN q = 1..Len(q)
  BY LenProperties
<1>2. q \in [1..Len(q) -> ToSet(q)]
  BY <1>1 DEF ToSet
<1> QED BY <1>1, <1>2 DEF IsSeq

LEMMA IsSeqOfFcn ==
  ASSUME NEW n \in Nat, NEW q, q = [i \in 1..n |-> q[i]] PROVE IsSeq(q) /\ Len(q) = n
<1>1. DOMAIN q = 1..n
  OBVIOUS
<1>2. q \in [1..n -> ToSet(q)]
  BY <1>1 DEF ToSet
<1> QED BY <1>2 DEF IsSeq

LEMMA LogExtended ==
  ASSUME NEW p, NEW q, IsSeq(p), IsSeq(q)
  PROVE  /\ IsSeq(p \o q) /\ Len(p) \in Nat /\ Len(q) \in Nat
         /\ DOMAIN p = 1..Len(p) /\ DOMAIN q = 1..Len(q)
         /\ DOMAIN (p \o q) = 1..Len(p) + Len(q)
         /\ \A i \in 1..Len(p) : (p \o q)[i] = p[i]
         /\ \A i \in 1..Len(q) : (p \o q)[Len(p) + i] = q[i]
<1> DEFINE S == ToSet(p) \cup ToSet(q)
           r == p \o q
<1>1. p \in Seq(S) /\ q \in Seq(S)
  BY DEF IsSeq
<1>2. /\ r \in Seq(S) /\ Len(r) = Len(p) + Len(q)
      /\ \A i \in 1..Len(p) + Len(q) : r[i] = IF i <= Len(p) THEN p[i] ELSE q[i - Len(p)]
  BY <1>1, ConcatProperties
<1>3. /\ Len(p) \in Nat /\ Len(q) \in Nat /\ DOMAIN p = 1..Len(p) /\ DOMAIN q = 1..Len(q)
      /\ DOMAIN r = 1..Len(r)
  BY <1>1, <1>2, LenProperties
<1>4. IsSeq(r)
  BY <1>2, IsSeqOfSeq
<1> HIDE DEF r
<1>5. \A i \in 1..Len(p) : r[i] = p[i]
  BY <1>2, <1>3
<1>6. \A i \in 1..Len(q) : r[Len(p) + i] = q[i]
  BY <1>2, <1>3
<1> QED BY <1>2, <1>3, <1>4, <1>5, <1>6 DEF r

(* An identity with a completion, or accepted from the device, is one the  *)
(* watchdog has given up for good; what was executed is live or such.  A control buffer      *)
(* holds a batch that was sealed.                                          *)
WorkInv ==
  /\ Table(watchdog, WatchdogSlots) /\ IsSeq(completionLog)
  /\ LiveIds(watchdog) \cup CompletedIds \cup finished = executed
  /\ \A id \in CompletedIds \cup finished : id \in Ids(WatchdogSlots) /\ Past(watchdog, id)
  /\ CompletedIds \cap finished = {}
  /\ \A i, j \in DOMAIN completionLog : completionLog[i].id = completionLog[j].id => i = j
  /\ Table(controls, ControlSlots)
  /\ \A s \in LiveSlots(controls) : controls[s].data \in Batches

workVars == <<watchdog, completionLog, executed, finished, controls>>

LEMMA LiveNotPast ==
  ASSUME NEW n \in Nat, NEW t, Table(t, n), NEW id \in LiveIds(t)
  PROVE  id \in Ids(n) /\ ~Past(t, id) /\ Holds(t, id)
<1>1. PICK s \in LiveSlots(t) : id = IdAt(t, s)
  BY DEF LiveIds
<1>2. s \in 1..n /\ t[s].occupied /\ t[s].generation \in 1..MaxGeneration
  BY DEF LiveSlots, Table, Entry
<1> QED BY <1>1, <1>2 DEF IdAt, Ids, Past, Holds, LiveSlots

LEMMA EmptyIsTable ==
  ASSUME NEW n \in Nat PROVE Table(EmptyTable(n), n) /\ LiveSlots(EmptyTable(n)) = {}
<1> DEFINE e == [generation |-> 1, occupied |-> FALSE, data |-> NoData]
<1>1. e = [generation |-> e.generation, occupied |-> e.occupied, data |-> e.data]
  OBVIOUS
<1>2. Entry(e) /\ ~e.occupied
  BY <1>1, TablesAssumption DEF Entry
<1>3. EmptyTable(n) = [s \in 1..n |-> e]
  BY DEF EmptyTable
<1> HIDE DEF e
<1> QED BY <1>2, <1>3 DEF Table, LiveSlots

LEMMA WorkInit == Init => WorkInv
<1> SUFFICES ASSUME Init PROVE WorkInv
  OBVIOUS
<1>1. /\ watchdog = EmptyTable(WatchdogSlots) /\ controls = EmptyTable(ControlSlots)
      /\ completionLog = <<>> /\ executed = {} /\ finished = {}
  BY DEF Init
<1>2. WatchdogSlots \in Nat /\ ControlSlots \in Nat
  BY GpuAssumption
<1>3. /\ Table(watchdog, WatchdogSlots) /\ LiveSlots(watchdog) = {}
      /\ Table(controls, ControlSlots) /\ LiveSlots(controls) = {}
  BY <1>1, <1>2, EmptyIsTable
<1>4. CompletedIds = {} /\ DOMAIN completionLog = {} /\ IsSeq(completionLog)
  BY <1>1 DEF CompletedIds, IsSeq
<1> QED BY <1>1, <1>3, <1>4 DEF WorkInv, LiveIds

(* Without a completion, the live identities are those executed and not    *)
(* yet completed.                                                          *)
LEMMA Unlogged ==
  ASSUME WorkInv, Table(watchdog', WatchdogSlots), Later(watchdog, watchdog', WatchdogSlots),
         completionLog' = completionLog, controls' = controls, finished' = finished,
         LiveIds(watchdog') \cup CompletedIds \cup finished = executed'
  PROVE  WorkInv'
<1>1. CompletedIds' = CompletedIds
  BY DEF CompletedIds
<1>2. \A id \in CompletedIds \cup finished : id \in Ids(WatchdogSlots) /\ Past(watchdog', id)
  BY GpuAssumption, PastStays DEF WorkInv
<1> QED BY <1>1, <1>2 DEF WorkInv

(* With completions: each names another identity that was not completed    *)
(* and is given up now.                                                    *)
Named(new) == {new[i].id : i \in DOMAIN new}

LEMMA Logged ==
  ASSUME WorkInv, Table(watchdog', WatchdogSlots), Later(watchdog, watchdog', WatchdogSlots),
         controls' = controls, finished' = finished, NEW new, IsSeq(new), completionLog' = completionLog \o new,
         \A i, j \in DOMAIN new : new[i].id = new[j].id => i = j,
         \A id \in Named(new) :
           /\ id \in Ids(WatchdogSlots) /\ Past(watchdog', id)
           /\ id \notin CompletedIds \cup finished,
         LiveIds(watchdog') \cup Named(new) \cup CompletedIds \cup finished = executed'
  PROVE  WorkInv'
<1> DEFINE a == Len(completionLog)
           b == Len(new)
           log == completionLog'
           N == Named(new)
<1>1. /\ IsSeq(log) /\ a \in Nat /\ b \in Nat
      /\ DOMAIN completionLog = 1..a /\ DOMAIN new = 1..b /\ DOMAIN log = 1..a + b
      /\ \A i \in 1..a : log[i] = completionLog[i]
      /\ \A i \in 1..b : log[a + i] = new[i]
  BY LogExtended DEF WorkInv
<1> HIDE DEF a, b, log
<1>2. \A i \in 1..a + b : (i \in 1..a) \/ (\E k \in 1..b : i = a + k)
  <2> SUFFICES ASSUME NEW i \in 1..a + b, i \notin 1..a PROVE \E k \in 1..b : i = a + k
    OBVIOUS
  <2>1. i - a \in 1..b /\ i = a + (i - a)
    BY <1>1
  <2> QED BY <2>1
<1>3. {log[i].id : i \in DOMAIN log} = CompletedIds \cup N
  <2>1. ASSUME NEW i \in DOMAIN log PROVE log[i].id \in CompletedIds \cup N
    <3>1. CASE i \in 1..a
      BY <1>1, <3>1 DEF CompletedIds
    <3>2. ASSUME NEW k \in 1..b, i = a + k PROVE log[i].id \in N
      <4>1. log[i].id = new[k].id /\ k \in DOMAIN new
        BY <1>1, <3>2
      <4> QED BY <4>1 DEF Named
    <3> QED BY <1>1, <1>2, <3>1, <3>2
  <2>2. ASSUME NEW i \in 1..a PROVE completionLog[i].id \in {log[k].id : k \in DOMAIN log}
    <3>1. i \in DOMAIN log
      BY <1>1
    <3> QED BY <1>1, <3>1
  <2>3. ASSUME NEW i \in 1..b PROVE new[i].id \in {log[k].id : k \in DOMAIN log}
    <3>1. a + i \in DOMAIN log
      BY <1>1
    <3> QED BY <1>1, <3>1
  <2>4. CompletedIds = {completionLog[i].id : i \in 1..a} /\ N = {new[i].id : i \in 1..b}
    BY <1>1 DEF CompletedIds, Named
  <2>5. CompletedIds \subseteq {log[k].id : k \in DOMAIN log}
    BY <2>2, <2>4
  <2>6. N \subseteq {log[k].id : k \in DOMAIN log}
    BY <2>3, <2>4
  <2> QED BY <2>1, <2>5, <2>6
<1>4. \A i, j \in DOMAIN log : log[i].id = log[j].id => i = j
  <2> SUFFICES ASSUME NEW i \in 1..a + b, NEW j \in 1..a + b, log[i].id = log[j].id
               PROVE  i = j
    BY <1>1
  <2>1. CASE i \in 1..a /\ j \in 1..a
    BY <1>1, <2>1 DEF WorkInv
  <2>2. ASSUME NEW k \in 1..a, NEW l \in 1..b, log[k].id = log[a + l].id PROVE FALSE
    <3>1. log[k].id \in CompletedIds /\ log[a + l].id \in N
      BY <1>1 DEF CompletedIds, Named
    <3> QED BY <2>2, <3>1
  <2>3. ASSUME NEW k \in 1..b, NEW l \in 1..b, i = a + k, j = a + l PROVE i = j
    BY <1>1, <2>3
  <2> QED BY <1>2, <2>1, <2>2, <2>3
<1>5. \A id \in CompletedIds \cup finished : id \in Ids(WatchdogSlots) /\ Past(watchdog', id)
  BY GpuAssumption, PastStays DEF WorkInv
<1>6. CompletedIds' = CompletedIds \cup N
  BY <1>3 DEF CompletedIds, log
<1>7. \A id \in CompletedIds' \cup finished' : id \in Ids(WatchdogSlots) /\ Past(watchdog', id)
  BY <1>5, <1>6
<1>8. LiveIds(watchdog') \cup CompletedIds' \cup finished' = executed'
  BY <1>6
<1>9. CompletedIds' \cap finished' = {}
  BY <1>6 DEF WorkInv
<1> QED BY <1>1, <1>4, <1>7, <1>8, <1>9 DEF WorkInv, log

(* Without a completion but accepted from the device: the identity was live*)
(* and is given up now.                                                    *)
LEMMA CompleteKeeps ==
  ASSUME WorkInv, NEW id, CompleteDispatch(id) PROVE WorkInv'
<1> DEFINE u == RetireAll(watchdog, {id.slot})
<1>0. Table(watchdog, WatchdogSlots) /\ WatchdogSlots \in Nat
  BY GpuAssumption DEF WorkInv
<1>1. /\ Holds(watchdog, id) /\ id \in executed /\ watchdog' = Retired(watchdog, id.slot)
      /\ finished' = finished \cup {id} /\ UNCHANGED <<completionLog, executed, controls>>
  BY DEF CompleteDispatch
<1>2. /\ id.slot \in 1..WatchdogSlots /\ {id.slot} \subseteq LiveSlots(watchdog)
      /\ watchdog[id.slot].generation = id.generation
  BY <1>0, <1>1 DEF Holds, LiveSlots, Table
<1>3. id = IdAt(watchdog, id.slot)
  <2>1. id \in LiveIds(watchdog) \cup CompletedIds \cup finished
    BY <1>1 DEF WorkInv
  <2>2. id \in Ids(WatchdogSlots)
    BY <1>0, <2>1, LiveNotPast DEF WorkInv
  <2> QED BY <1>2, <2>2 DEF Ids, IdAt
<1>4. /\ Table(u, WatchdogSlots) /\ Later(watchdog, u, WatchdogSlots)
      /\ \A s \in 1..WatchdogSlots :
           u[s] = IF s \in {id.slot} THEN GivenBack(watchdog[s]) ELSE watchdog[s]
      /\ LiveIds(u) = LiveIds(watchdog) \ {IdAt(watchdog, s) : s \in {id.slot}}
      /\ \A s \in {id.slot} : /\ IdAt(watchdog, s) \in Ids(WatchdogSlots)
                              /\ IdAt(watchdog, s) \in LiveIds(watchdog)
                              /\ Past(u, IdAt(watchdog, s))
  BY <1>0, <1>2, RetireAllIs
<1>5. watchdog' = u
  <2>1. watchdog' = [r \in 1..WatchdogSlots |->
                       IF r = id.slot THEN GivenBack(watchdog[id.slot]) ELSE watchdog[r]]
    BY <1>0, <1>1, <1>2, RetiredIs
  <2>2. u = [s \in 1..WatchdogSlots |-> u[s]]
    BY <1>4 DEF Table
  <2> HIDE DEF u
  <2> QED BY <1>4, <2>1, <2>2
<1> HIDE DEF u
<1>6. /\ LiveIds(u) = LiveIds(watchdog) \ {id}
      /\ id \in Ids(WatchdogSlots) /\ id \in LiveIds(watchdog) /\ Past(u, id)
  BY <1>3, <1>4
<1>7. id \notin CompletedIds \cup finished
  BY <1>0, <1>6, LiveNotPast DEF WorkInv
<1>8. \A d \in CompletedIds \cup finished : d \in Ids(WatchdogSlots) /\ Past(u, d)
  BY <1>0, <1>4, PastStays DEF WorkInv
<1>9. CompletedIds' = CompletedIds
  BY <1>1 DEF CompletedIds
<1>10. \A d \in CompletedIds \cup finished' : d \in Ids(WatchdogSlots) /\ Past(u, d)
  BY <1>1, <1>6, <1>8
<1>11. /\ LiveIds(u) \cup CompletedIds \cup finished' = executed
       /\ CompletedIds \cap finished' = {}
  BY <1>1, <1>6, <1>7 DEF WorkInv
<1> QED BY <1>1, <1>4, <1>5, <1>9, <1>10, <1>11 DEF WorkInv

LEMMA CompletionsAre ==
  ASSUME NEW n \in Nat, NEW ids, DOMAIN ids = 1..n, NEW requests, NEW status
  PROVE  LET c == CompletionsFor(ids, requests, status) IN
         IsSeq(c) /\ DOMAIN c = 1..n /\ \A i \in 1..n : c[i].id = ids[i]
<1> DEFINE c == CompletionsFor(ids, requests, status)
<1>1. DOMAIN c = 1..n /\ c = [i \in 1..n |-> c[i]] /\ \A i \in 1..n : c[i].id = ids[i]
  BY DEF CompletionsFor
<1> HIDE DEF c
<1>2. IsSeq(c)
  BY <1>1, IsSeqOfFcn
<1> QED BY <1>1, <1>2 DEF c

(* expire_with_completions and reset_with_completions: the slots are given back   *)
(* and each of their identities is reported.                               *)
LEMMA ReportKeeps ==
  ASSUME WorkInv, NEW slots, slots \subseteq LiveSlots(watchdog), NEW status, Report(slots, status)
  PROVE  WorkInv'
<1> DEFINE o == InSlotOrder(slots)
           m == Cardinality(slots)
           ids == [i \in DOMAIN o |-> IdAt(watchdog, o[i])]
           requests == [i \in DOMAIN o |-> watchdog[o[i]].data.request]
           new == WatchdogCompletions(slots, status)
           N == {IdAt(watchdog, s) : s \in slots}
<1>1. /\ watchdog' = RetireAll(watchdog, slots) /\ executed' = executed /\ controls' = controls
      /\ finished' = finished /\ completionLog' = completionLog \o new
  BY DEF Report
<1>2. Table(watchdog, WatchdogSlots) /\ WatchdogSlots \in Nat
  BY GpuAssumption DEF WorkInv
<1>3. slots \subseteq 1..WatchdogSlots
  BY <1>2 DEF LiveSlots, Table
<1>4. /\ m \in Nat /\ DOMAIN o = 1..m
      /\ \A i \in 1..m : o[i] \in slots
      /\ \A i, j \in 1..m : o[i] = o[j] => i = j
      /\ \A s \in slots : \E i \in 1..m : o[i] = s
  BY <1>2, <1>3, SlotOrderLists
<1>5. new = CompletionsFor(ids, requests, status)
  BY DEF WatchdogCompletions
<1> HIDE DEF o, m, requests, new
<1>6. DOMAIN ids = 1..m /\ \A i \in 1..m : ids[i] = IdAt(watchdog, o[i])
  BY <1>4
<1> HIDE DEF ids
<1>7. IsSeq(new) /\ DOMAIN new = 1..m /\ \A i \in 1..m : new[i].id = IdAt(watchdog, o[i])
  BY <1>4, <1>5, <1>6, CompletionsAre
<1>8. \A i, j \in DOMAIN new : new[i].id = new[j].id => i = j
  <2>1. \A r, s : IdAt(watchdog, r) = IdAt(watchdog, s) => r = s
    BY DEF IdAt
  <2> QED BY <1>4, <1>7, <2>1
<1>9. N = Named(new)
  BY <1>4, <1>7 DEF Named
<1>10. /\ Table(watchdog', WatchdogSlots) /\ Later(watchdog, watchdog', WatchdogSlots)
       /\ LiveIds(watchdog') = LiveIds(watchdog) \ N
       /\ \A id \in N : id \in Ids(WatchdogSlots) /\ id \in LiveIds(watchdog) /\ Past(watchdog', id)
  <2> DEFINE u == RetireAll(watchdog, slots)
  <2>1. /\ Table(u, WatchdogSlots) /\ Later(watchdog, u, WatchdogSlots)
        /\ LiveIds(u) = LiveIds(watchdog) \ N
        /\ \A s \in slots : /\ IdAt(watchdog, s) \in Ids(WatchdogSlots)
                            /\ IdAt(watchdog, s) \in LiveIds(watchdog)
                            /\ Past(u, IdAt(watchdog, s))
    BY <1>2, RetireAllIs
  <2>2. watchdog' = u
    BY <1>1
  <2> HIDE DEF u
  <2> QED BY <2>1, <2>2
<1> HIDE DEF N
<1>11. \A id \in N : id \in Ids(WatchdogSlots) /\ Past(watchdog', id) /\ id \notin CompletedIds \cup finished
  BY <1>2, <1>10, LiveNotPast DEF WorkInv
<1>12. LiveIds(watchdog') \cup N \cup CompletedIds \cup finished = executed'
  BY <1>1, <1>10 DEF WorkInv
<1> QED BY <1>1, <1>7, <1>8, <1>9, <1>10, <1>11, <1>12, Logged

(* submit_gpu_control_batch: what of a batch becomes live, is cancelled or *)
(* is completed.                                                           *)
LEMMA SubmitKeeps ==
  ASSUME WorkInv, NEW bytes, NEW now, NEW deadline, SubmitControlBatch(bytes, now, deadline)
  PROVE  WorkInv'
<1> DEFINE batch == controls[job.slot].data
           begun == BeginBatch(watchdog, batch, now, deadline)
           all == BeginEach(watchdog, batch, now, deadline)
<1>0. Table(watchdog, WatchdogSlots) /\ WatchdogSlots \in Nat
  BY GpuAssumption DEF WorkInv
<1>1. controls' = controls /\ finished' = finished
  BY DEF SubmitControlBatch
<1>2. CASE UNCHANGED <<watchdog, executed, completionLog>>
  BY <1>1, <1>2 DEF WorkInv, CompletedIds
<1>3. ASSUME Verified(job, bytes),
             \/ begun.ok /\ \E verdict \in Verdicts : Submit(verdict, begun, batch)
             \/ ~begun.ok /\ watchdog' = begun.table /\ UNCHANGED <<executed, completionLog>>
      PROVE  WorkInv'
  <2>1. batch \in Batches
    BY <1>3 DEF Verified, Holds, WorkInv, LiveSlots
  <2>2. Len(batch) \in Nat
    BY <2>1, GpuAssumption, LenProperties
  <2>3. Begun(watchdog, WatchdogSlots, all)
    BY <1>0, <2>2, BeginEachIs
  <2>4. begun = IF all.ok THEN all
                ELSE [all EXCEPT !.table = CancelBatch(all.table, ToSet(all.ids))]
    BY DEF BeginBatch
  <2> DEFINE u == CancelBatch(all.table, ToSet(all.ids))
             N == ToSet(all.ids)
  <2>5. /\ Table(u, WatchdogSlots) /\ Later(watchdog, u, WatchdogSlots)
        /\ LiveIds(u) = LiveIds(watchdog) /\ \A id \in N : Past(u, id)
    BY <1>0, <2>3, CancelledIs
  <2>6. /\ N \subseteq Ids(WatchdogSlots) /\ LiveIds(all.table) = LiveIds(watchdog) \cup N
        /\ \A id \in N : ~Past(watchdog, id)
        /\ \A s \in 1..WatchdogSlots : all.table[s].generation = watchdog[s].generation
        /\ \A i, j \in DOMAIN all.ids : all.ids[i] = all.ids[j] => i = j
    BY <1>0, <2>3, BegunIs
  <2> HIDE DEF u, batch, all
  <2>7. CASE ~all.ok
    <3>1. begun.ok = all.ok /\ begun.table = u
      BY <2>3, <2>4, <2>7 DEF Begun, u
    <3>2. watchdog' = u /\ UNCHANGED <<executed, completionLog>>
      BY <1>3, <2>7, <3>1
    <3>3. LiveIds(watchdog') \cup CompletedIds \cup finished = executed'
      BY <2>5, <3>2 DEF WorkInv
    <3> QED BY <1>1, <2>5, <3>2, <3>3, Unlogged
  <2>8. CASE all.ok
    <3>1. begun = all
      BY <2>4, <2>8
    <3> HIDE DEF begun
    <3>2. PICK verdict \in Verdicts : Submit(verdict, all, batch)
      BY <1>3, <2>8, <3>1
    <3>3. CASE verdict = "refused"
      <4>1. watchdog' = u /\ UNCHANGED <<executed, completionLog>>
        BY <3>2, <3>3 DEF Submit, Cancels, u
      <4>2. LiveIds(watchdog') \cup CompletedIds \cup finished = executed'
        BY <2>5, <4>1 DEF WorkInv
      <4> QED BY <1>1, <2>5, <4>1, <4>2, Unlogged
    <3>4. CASE verdict = "uncertain"
      <4>1. watchdog' = all.table /\ executed' = executed \cup N /\ completionLog' = completionLog
        BY <3>2, <3>4 DEF Submit, Cancels
      <4>2. Later(watchdog, watchdog', WatchdogSlots) /\ Table(watchdog', WatchdogSlots)
        BY <2>3, <2>6, <4>1 DEF Later, Begun
      <4>3. LiveIds(watchdog') \cup CompletedIds \cup finished = executed'
        BY <2>6, <4>1 DEF WorkInv
      <4> QED BY <1>1, <4>1, <4>2, <4>3, Unlogged
    <3>5. CASE verdict = "done"
      <4> DEFINE new == CompletionsFor(all.ids, [i \in DOMAIN batch |-> batch[i].request], "success")
                 m == Len(all.ids)
      <4>1. watchdog' = u /\ executed' = executed \cup N /\ completionLog' = completionLog \o new
        BY <3>2, <3>5 DEF Submit, u
      <4>2. m \in Nat /\ DOMAIN all.ids = 1..m
        BY <2>3, LenProperties DEF Begun
      <4> HIDE DEF m
      <4>3. IsSeq(new) /\ DOMAIN new = 1..m /\ \A i \in 1..m : new[i].id = all.ids[i]
        BY <4>2, CompletionsAre
      <4> HIDE DEF new
      <4>4. N = Named(new)
        BY <4>2, <4>3 DEF ToSet, Named
      <4>5. \A i, j \in DOMAIN new : new[i].id = new[j].id => i = j
        BY <2>6, <4>2, <4>3
      <4> HIDE DEF N
      <4>6. \A id \in N : id \in Ids(WatchdogSlots) /\ Past(watchdog', id) /\ id \notin CompletedIds \cup finished
        BY <2>5, <2>6, <4>1 DEF WorkInv
      <4>7. LiveIds(watchdog') \cup N \cup CompletedIds \cup finished = executed'
        BY <2>5, <4>1 DEF WorkInv
      <4> QED BY <1>1, <2>5, <4>1, <4>3, <4>4, <4>5, <4>6, <4>7, Logged
    <3> QED BY <3>3, <3>4, <3>5 DEF Verdicts
  <2>9. all.ok \in BOOLEAN
    BY <2>3 DEF Begun
  <2> QED BY <2>7, <2>8, <2>9
<1> QED BY <1>2, <1>3 DEF SubmitControlBatch

LEMMA WorkNext ==
  ASSUME WorkInv, [Next]_vars PROVE WorkInv'
<1>0. /\ Table(watchdog, WatchdogSlots) /\ WatchdogSlots \in Nat
      /\ Table(controls, ControlSlots) /\ ControlSlots \in Nat
  BY GpuAssumption DEF WorkInv
<1>1. ASSUME NEW batch \in Batches, SealControl(batch) PROVE WorkInv'
  <2> DEFINE s == Min(FreeSlots(controls))
  <2>1. /\ FreeSlots(controls) # {} /\ controls' = Occupied(controls, s, batch)
        /\ UNCHANGED <<watchdog, completionLog, executed, finished>>
    BY <1>1 DEF SealControl, history
  <2>2. s \in 1..ControlSlots /\ controls[s].generation # 0
    BY <1>0, <2>1, FirstFree
  <2> HIDE DEF s
  <2>3. /\ Table(controls', ControlSlots)
        /\ controls'[s] = [generation |-> controls[s].generation, occupied |-> TRUE, data |-> batch]
        /\ \A r \in 1..ControlSlots \ {s} : controls'[r] = controls[r]
    BY <1>0, <2>1, <2>2, OccupiedIs
  <2>4. DOMAIN controls = 1..ControlSlots /\ DOMAIN controls' = 1..ControlSlots
    BY <1>0, <2>3 DEF Table
  <2>5. \A r \in LiveSlots(controls') : controls'[r].data \in Batches
    BY <2>3, <2>4 DEF WorkInv, LiveSlots
  <2> QED BY <2>1, <2>3, <2>5 DEF WorkInv, CompletedIds
<1>2. ASSUME NEW id \in ControlIds, ReleaseControl(id) PROVE WorkInv'
  <2>1. /\ Holds(controls, id) /\ controls' = Retired(controls, id.slot)
        /\ UNCHANGED <<watchdog, completionLog, executed, finished>>
    BY <1>2 DEF ReleaseControl, history
  <2>2. id.slot \in LiveSlots(controls) /\ id.slot \in 1..ControlSlots
    BY <1>0, <2>1 DEF Holds, LiveSlots, Table
  <2> DEFINE u == RetireAll(controls, {id.slot})
  <2>3. /\ Table(u, ControlSlots)
        /\ \A s \in 1..ControlSlots :
             u[s] = IF s \in {id.slot} THEN GivenBack(controls[s]) ELSE controls[s]
    BY <1>0, <2>2, RetireAllIs
  <2>4. controls' = u
    <3>1. DOMAIN controls = 1..ControlSlots
      BY <1>0 DEF Table
    <3>2. controls' = [r \in 1..ControlSlots |-> IF r = id.slot THEN GivenBack(controls[id.slot])
                                                ELSE controls[r]]
      BY <1>0, <2>1, <2>2, RetiredIs
    <3>3. u = [s \in 1..ControlSlots |-> u[s]]
      BY <2>3 DEF Table
    <3> HIDE DEF u
    <3> QED BY <2>3, <3>2, <3>3
  <2> HIDE DEF u
  <2>5. \A s \in LiveSlots(u) : s \in LiveSlots(controls) /\ u[s] = controls[s]
    BY <1>0, <2>3 DEF LiveSlots, Table, GivenBack
  <2> QED BY <2>1, <2>3, <2>4, <2>5 DEF WorkInv, CompletedIds
<1>3. CASE Submitting
  BY <1>3, SubmitKeeps DEF Submitting
<1>4. CASE Watching
  <2>1. ASSUME NEW now, ExpireDispatches(now) PROVE WorkInv'
    BY <2>1, ReportKeeps DEF ExpireDispatches, Expired
  <2>2. CASE ResetDevice
    BY <2>2, ReportKeeps DEF ResetDevice
  <2>3. ASSUME NEW id, CompleteDispatch(id) PROVE WorkInv'
    BY <2>3, CompleteKeeps
  <2> QED BY <1>4, <2>1, <2>2, <2>3 DEF Watching
<1>5. CASE UNCHANGED workVars
  BY <1>5 DEF workVars, WorkInv, CompletedIds
<1>6. CASE Guest \/ Copying \/ Process \/ Replying \/ Faulty \/ UNCHANGED vars
  <2>1. UNCHANGED workVars
    BY <1>6 DEF Guest, Copying, Process, Replying, Faulty, GuestEncode, GuestFill, GuestPublish,
         GuestReceive, BridgeAcquire, BridgeCopy, BridgeConsumed, TakeResponse, TakeCompletion,
         TakeOutput, ReplyFill, ReplyPublish, ReadFails, WriteFails, Damage, vars, workVars, tables, history
  <2> QED BY <1>5, <2>1
<1> QED BY <1>1, <1>2, <1>3, <1>4, <1>6 DEF Next, Batching

(* Work the GPU may have seen is never lost and never reported twice, for  *)
(* batches and tables of any size and however late a completion comes.     *)
THEOREM WorkIsAccounted == Spec => []WorkAccounted
<1>1. ASSUME WorkInv PROVE WorkAccounted
  <2>1. Table(watchdog, WatchdogSlots) /\ WatchdogSlots \in Nat
    BY <1>1, GpuAssumption DEF WorkInv
  <2>2. LiveIds(watchdog) \cap (CompletedIds \cup finished) = {}
    BY <1>1, <2>1, LiveNotPast DEF WorkInv
  <2> QED BY <1>1, <2>2 DEF WorkInv, WorkAccounted
<1> QED BY <1>1, WorkInit, WorkNext, PTL DEF Spec
-----------------------------------------------------------------------------
(***************************************************************************)
(* Buffers                                                                 *)
(***************************************************************************)
(* The sum over the buffers, unfolded: what a step to one slot adds to it. *)
Weight(t, k) == IF t[k].occupied THEN t[k].data ELSE 0
SumRuns(t, n, f) == f = [k \in 0..n |-> IF k = 0 THEN 0 ELSE f[k - 1] + Weight(t, k)]

LEMMA SumLoop ==
  ASSUME NEW t
  PROVE  \E f : /\ f[0] = 0 /\ \A k \in 1..BufferSlots : f[k] = f[k - 1] + Weight(t, k)
                /\ BytesLive(t) = f[BufferSlots]
<1> DEFINE S == {n \in Nat : \E f : SumRuns(t, n, f)}
           L == BufferSlots
<1>0. L \in Nat
  BY GpuAssumption
<1>1. 0 \in S
  <2> DEFINE f == [k \in 0..0 |-> 0]
  <2>1. SumRuns(t, 0, f)
    BY DEF SumRuns
  <2> QED BY <2>1
<1>2. ASSUME NEW n \in 1..L, n - 1 \in S PROVE n \in S
  <2>1. PICK f : SumRuns(t, n - 1, f)
    BY <1>2
  <2> DEFINE g == [k \in 0..n |-> IF k = n THEN f[n - 1] + Weight(t, n) ELSE f[k]]
  <2>2. \A k \in 0..n - 1 : f[k] = IF k = 0 THEN 0 ELSE f[k - 1] + Weight(t, k)
    BY <2>1 DEF SumRuns
  <2>3. \A k \in 0..n : g[k] = IF k = 0 THEN 0 ELSE g[k - 1] + Weight(t, k)
    BY <1>0, <1>2, <2>2
  <2>4. SumRuns(t, n, g)
    BY <2>3 DEF SumRuns
  <2> QED BY <1>0, <2>4
<1>3. L \in S
  <2> HIDE DEF S, L
  <2>1. 0..L \subseteq S
    BY <1>0, <1>1, <1>2, UpTo
  <2> QED BY <1>0, <2>1
<1> DEFINE p == CHOOSE f : SumRuns(t, L, f)
<1>4. SumRuns(t, L, p)
  BY <1>3
<1>5. BytesLive(t) = p[L]
  BY DEF BytesLive, SumRuns, Weight
<1>6. p[0] = 0 /\ \A k \in 1..L : p[k] = p[k - 1] + Weight(t, k)
  <2> HIDE DEF p
  <2> QED BY <1>0, <1>4 DEF SumRuns
<1> HIDE DEF p
<1> QED BY <1>5, <1>6

LEMMA BytesChange ==
  ASSUME NEW t, NEW u, NEW s \in 1..BufferSlots,
         \A k \in 1..BufferSlots : Weight(t, k) \in Int /\ Weight(u, k) \in Int,
         \A k \in 1..BufferSlots \ {s} : Weight(u, k) = Weight(t, k)
  PROVE  /\ BytesLive(t) \in Int
         /\ BytesLive(u) = BytesLive(t) + Weight(u, s) - Weight(t, s)
<1>0. BufferSlots \in Nat /\ BufferSlots # 0 /\ s \in Nat
  BY GpuAssumption
<1>1. PICK f : /\ f[0] = 0 /\ \A k \in 1..BufferSlots : f[k] = f[k - 1] + Weight(t, k)
               /\ BytesLive(t) = f[BufferSlots]
  BY SumLoop
<1>2. PICK g : /\ g[0] = 0 /\ \A k \in 1..BufferSlots : g[k] = g[k - 1] + Weight(u, k)
               /\ BytesLive(u) = g[BufferSlots]
  BY SumLoop
<1> DEFINE S == {k \in 0..BufferSlots :
                   /\ f[k] \in Int
                   /\ g[k] = IF k < s THEN f[k] ELSE f[k] + Weight(u, s) - Weight(t, s)}
<1>3. 0 \in S
  BY <1>0, <1>1, <1>2
<1>4. ASSUME NEW k \in 1..BufferSlots, k - 1 \in S PROVE k \in S
  <2>1. /\ f[k] = f[k - 1] + Weight(t, k) /\ g[k] = g[k - 1] + Weight(u, k)
        /\ Weight(t, k) \in Int /\ Weight(u, k) \in Int
        /\ Weight(t, s) \in Int /\ Weight(u, s) \in Int
    BY <1>1, <1>2
  <2>2. /\ f[k - 1] \in Int
        /\ g[k - 1] = IF k - 1 < s THEN f[k - 1] ELSE f[k - 1] + Weight(u, s) - Weight(t, s)
    BY <1>4
  <2>3. CASE k = s
    BY <1>0, <2>1, <2>2, <2>3
  <2>4. CASE k # s
    <3>1. Weight(u, k) = Weight(t, k)
      BY <2>4
    <3> QED BY <1>0, <2>1, <2>2, <2>4, <3>1
  <2> QED BY <2>3, <2>4
<1> HIDE DEF S
<1>5. BufferSlots \in S
  BY <1>0, <1>3, <1>4, UpTo
<1> QED BY <1>0, <1>1, <1>2, <1>5 DEF S

Responses == [kind : {"response"}, sequence : Nat, request : Nat, body : Replies]
Indices(log, result) == {j \in DOMAIN log : log[j].body.result = result}
ReportedIn(log, result) == {log[i].body.buffer : i \in Indices(log, result)}

(* The log names every identity once; one that was reported as allocated   *)
(* is live or past, one that was reported as freed is past.                *)
ReportInv(t, log) ==
  /\ log \in Seq(Responses)
  /\ LiveIds(t) = ReportedIn(log, "allocated") \ ReportedIn(log, "freed")
  /\ ReportedIn(log, "allocated") \cup ReportedIn(log, "freed") \subseteq Ids(BufferSlots)
  /\ \A id \in ReportedIn(log, "allocated") : id \in LiveIds(t) \/ Past(t, id)
  /\ \A id \in ReportedIn(log, "freed") : Past(t, id)
  /\ \A i, j \in Indices(log, "allocated") : log[i].body.buffer = log[j].body.buffer => i = j

SessionInv(s) ==
  /\ s = [buffers |-> s.buffers, allocated |-> s.allocated]
  /\ Table(s.buffers, BufferSlots)
  /\ \A k \in LiveSlots(s.buffers) : s.buffers[k].data \in Nat
  /\ s.allocated \in Int /\ s.allocated = BytesLive(s.buffers) /\ s.allocated <= Quota

BufferInv == SessionInv(session) /\ ReportInv(session.buffers, responseLog)

LEMMA WeightsAre ==
  ASSUME NEW s, SessionInv(s) PROVE \A k \in 1..BufferSlots : Weight(s.buffers, k) \in Nat
<1>1. DOMAIN s.buffers = 1..BufferSlots
  BY DEF SessionInv, Table
<1> QED BY <1>1 DEF SessionInv, LiveSlots, Weight

LEMMA BufferInit == Init => BufferInv
<1> SUFFICES ASSUME Init PROVE BufferInv
  OBVIOUS
<1> DEFINE t == EmptyTable(BufferSlots)
<1>1. session = [buffers |-> t, allocated |-> 0] /\ responseLog = <<>>
  BY DEF Init
<1>2. BufferSlots \in Nat
  BY GpuAssumption
<1>3. Table(t, BufferSlots) /\ LiveSlots(t) = {}
  BY <1>2, EmptyIsTable
<1>4. \A k \in 1..BufferSlots : Weight(t, k) = 0
  BY DEF EmptyTable, Weight
<1> HIDE DEF t
<1>5. BytesLive(t) = 0
  <2>1. PICK f : /\ f[0] = 0 /\ \A k \in 1..BufferSlots : f[k] = f[k - 1] + Weight(t, k)
                 /\ BytesLive(t) = f[BufferSlots]
    BY SumLoop
  <2> DEFINE S == {k \in 0..BufferSlots : f[k] = 0}
  <2>2. 0 \in S /\ \A k \in 1..BufferSlots : k - 1 \in S => k \in S
    BY <1>2, <1>4, <2>1
  <2> HIDE DEF S
  <2>3. BufferSlots \in S
    BY <1>2, <2>2, UpTo
  <2> QED BY <2>1, <2>3 DEF S
<1>6. session.buffers = t /\ session.allocated = 0
  BY <1>1
<1>7. SessionInv(session)
  BY <1>1, <1>3, <1>5, <1>6, TablesAssumption DEF SessionInv
<1>8. Indices(responseLog, "allocated") = {} /\ Indices(responseLog, "freed") = {}
  BY <1>1 DEF Indices
<1>9. ReportInv(t, responseLog)
  BY <1>1, <1>3, <1>8 DEF ReportInv, ReportedIn, LiveIds
<1> QED BY <1>6, <1>7, <1>9 DEF BufferInv

(* A response more in the log.                                             *)
LEMMA ResponseLogged ==
  ASSUME NEW log \in Seq(Responses), NEW r \in Responses
  PROVE  LET new == Append(log, r)  n == Len(log) IN
         /\ new \in Seq(Responses) /\ n \in Nat /\ DOMAIN log = 1..n /\ DOMAIN new = 1..n + 1
         /\ \A i \in 1..n : new[i] = log[i]
         /\ new[n + 1] = r
         /\ \A x : /\ r.body.result # x => Indices(new, x) = Indices(log, x)
                   /\ r.body.result = x => Indices(new, x) = Indices(log, x) \cup {n + 1}
         /\ \A x : /\ r.body.result # x => ReportedIn(new, x) = ReportedIn(log, x)
                   /\ r.body.result = x =>
                        ReportedIn(new, x) = ReportedIn(log, x) \cup {r.body.buffer}
<1> DEFINE new == Append(log, r)
           n == Len(log)
<1>1. /\ new \in Seq(Responses) /\ Len(new) = n + 1
      /\ \A i \in 1..n : new[i] = log[i]
      /\ new[n + 1] = r
  BY AppendProperties
<1>2. n \in Nat /\ DOMAIN log = 1..n /\ DOMAIN new = 1..n + 1
  BY <1>1, LenProperties
<1> HIDE DEF new, n
<1>3. \A i \in 1..n + 1 : i \in 1..n \/ i = n + 1
  BY <1>2
<1>4. ASSUME NEW x, r.body.result # x
      PROVE  Indices(new, x) = Indices(log, x) /\ ReportedIn(new, x) = ReportedIn(log, x)
  <2>1. Indices(new, x) = Indices(log, x)
    BY <1>1, <1>2, <1>3, <1>4 DEF Indices
  <2>2. \A i \in Indices(log, x) : new[i] = log[i]
    BY <1>1, <1>2 DEF Indices
  <2> QED BY <2>1, <2>2 DEF ReportedIn
<1>5. ASSUME NEW x, r.body.result = x
      PROVE  /\ Indices(new, x) = Indices(log, x) \cup {n + 1}
             /\ ReportedIn(new, x) = ReportedIn(log, x) \cup {r.body.buffer}
  <2>1. Indices(new, x) = Indices(log, x) \cup {n + 1}
    BY <1>1, <1>2, <1>3, <1>5 DEF Indices
  <2>2. \A i \in Indices(log, x) : new[i] = log[i]
    BY <1>1, <1>2 DEF Indices
  <2> QED BY <1>1, <2>1, <2>2 DEF ReportedIn
<1> QED BY <1>1, <1>2, <1>4, <1>5 DEF new, n
(* A new buffer gets an identity that was never reported, since it is      *)
(* neither live nor past.                                                  *)
LEMMA AllocateKeeps ==
  ASSUME NEW s, NEW log, SessionInv(s), ReportInv(s.buffers, log),
         NEW bytes \in Nat, CanAllocate(s, bytes), NEW r \in Responses,
         r.body = [result |-> "allocated", buffer |-> IdAt(s.buffers, Min(FreeSlots(s.buffers)))]
  PROVE  LET a == Allocate(s, bytes) IN SessionInv(a) /\ ReportInv(a.buffers, Append(log, r))
<1> DEFINE t == s.buffers
           k == Min(FreeSlots(t))
           u == Occupied(t, k, bytes)
           a == Allocate(s, bytes)
           new == Append(log, r)
           id == IdAt(t, k)
           n == BufferSlots
<1>1. n \in Nat /\ n # 0 /\ Table(t, n)
  BY GpuAssumption DEF SessionInv
<1>2. k \in 1..n /\ ~t[k].occupied /\ t[k].generation # 0
  BY <1>1, FirstFree DEF CanAllocate
<1>3. a = [buffers |-> u, allocated |-> s.allocated + bytes]
  BY DEF Allocate
<1>4. s.allocated \in Int /\ s.allocated = BytesLive(t) /\ s.allocated + bytes <= Quota
  BY DEF SessionInv, CanAllocate
<1>5. \A j \in LiveSlots(t) : t[j].data \in Nat
  BY DEF SessionInv
<1>6. \A j \in 1..n : Weight(t, j) \in Nat
  BY WeightsAre
<1>7. /\ r.body.result = "allocated" /\ r.body.buffer = id
      /\ id.slot = k /\ id.generation = t[k].generation
  BY DEF IdAt
<1> HIDE DEF k
<1>8. /\ Table(u, n)
      /\ u[k] = [generation |-> t[k].generation, occupied |-> TRUE, data |-> bytes]
      /\ \A j \in 1..n \ {k} : u[j] = t[j]
  BY <1>1, <1>2, OccupiedIs
<1> HIDE DEF t, u, a, new, n
<1>9. DOMAIN t = 1..n /\ DOMAIN u = 1..n
  BY <1>1, <1>8 DEF Table
<1>10. /\ u[k].generation = t[k].generation /\ u[k].occupied /\ u[k].data = bytes
  BY <1>8
<1>11. LiveSlots(u) = LiveSlots(t) \cup {k}
  BY <1>2, <1>8, <1>9, <1>10 DEF LiveSlots
<1>12. \A j \in 1..n : u[j].generation = t[j].generation
  BY <1>8, <1>10
<1>13. LiveIds(u) = LiveIds(t) \cup {id}
  <2>1. \A j \in 1..n : IdAt(u, j) = IdAt(t, j)
    BY <1>12 DEF IdAt
  <2>2. LiveSlots(t) \subseteq 1..n
    BY <1>9 DEF LiveSlots
  <2> QED BY <1>2, <1>11, <2>1, <2>2 DEF LiveIds
<1>14. id \in Ids(n) /\ id \notin LiveIds(t) /\ ~Past(t, id)
  <2>1. t[k].generation \in 1..MaxGeneration
    BY <1>1, <1>2, TablesAssumption DEF Table, Entry
  <2>2. id \in Ids(n) /\ ~Past(t, id)
    BY <1>2, <1>7, <2>1 DEF IdAt, Ids, Past
  <2>3. ~Holds(t, id)
    BY <1>2, <1>7 DEF Holds
  <2> QED BY <1>1, <2>2, <2>3, LiveNotPast
<1>15. SessionInv(a)
  <2>1. a.buffers = u /\ a.allocated = s.allocated + bytes
    BY <1>3
  <2>2. \A j \in LiveSlots(u) : u[j].data \in Nat
    <3>1. \A j \in LiveSlots(t) \ {k} : j \in 1..n \ {k}
      BY <1>9 DEF LiveSlots
    <3> QED BY <1>5, <1>8, <1>10, <1>11, <3>1
  <2>3. Weight(u, k) = bytes /\ Weight(t, k) = 0
    BY <1>2, <1>10 DEF Weight
  <2>4. \A j \in 1..n \ {k} : Weight(u, j) = Weight(t, j)
    BY <1>8 DEF Weight
  <2>5. \A j \in 1..n : Weight(t, j) \in Int /\ Weight(u, j) \in Int
    BY <1>6, <2>3, <2>4
  <2>6. BytesLive(t) \in Int /\ BytesLive(u) = BytesLive(t) + Weight(u, k) - Weight(t, k)
    BY <1>2, <2>4, <2>5, BytesChange DEF n
  <2>7. BytesLive(u) = s.allocated + bytes
    BY <1>4, <2>3, <2>6
  <2> QED BY <1>3, <1>4, <1>8, <2>1, <2>2, <2>7 DEF SessionInv, n
<1>16. ReportInv(u, new)
  <2>0. /\ log \in Seq(Responses)
        /\ LiveIds(t) = ReportedIn(log, "allocated") \ ReportedIn(log, "freed")
        /\ ReportedIn(log, "allocated") \cup ReportedIn(log, "freed") \subseteq Ids(n)
        /\ \A x \in ReportedIn(log, "allocated") : x \in LiveIds(t) \/ Past(t, x)
        /\ \A x \in ReportedIn(log, "freed") : Past(t, x)
        /\ \A i, j \in Indices(log, "allocated") :
             log[i].body.buffer = log[j].body.buffer => i = j
    BY DEF ReportInv, t, n
  <2>1. /\ new \in Seq(Responses) /\ Len(log) \in Nat /\ DOMAIN log = 1..Len(log)
        /\ \A i \in 1..Len(log) : new[i] = log[i]
        /\ new[Len(log) + 1] = r
        /\ Indices(new, "allocated") = Indices(log, "allocated") \cup {Len(log) + 1}
        /\ ReportedIn(new, "allocated") = ReportedIn(log, "allocated") \cup {id}
        /\ ReportedIn(new, "freed") = ReportedIn(log, "freed")
    <3>1. r.body.result = "allocated" /\ "allocated" # "freed" /\ r.body.buffer = id
      BY <1>7
    <3> HIDE DEF id
    <3>2. /\ new \in Seq(Responses) /\ Len(log) \in Nat /\ DOMAIN log = 1..Len(log)
          /\ \A i \in 1..Len(log) : new[i] = log[i]
          /\ new[Len(log) + 1] = r
      BY <2>0, ResponseLogged DEF new
    <3>3. Indices(new, "allocated") = Indices(log, "allocated") \cup {Len(log) + 1}
      BY <2>0, <3>1, ResponseLogged DEF new
    <3>4. ReportedIn(new, "allocated") = ReportedIn(log, "allocated") \cup {r.body.buffer}
      BY <2>0, <3>1, ResponseLogged DEF new
    <3>5. ReportedIn(new, "freed") = ReportedIn(log, "freed")
      BY <2>0, <3>1, ResponseLogged DEF new
    <3> QED BY <3>1, <3>2, <3>3, <3>4, <3>5
  <2>2. id \notin ReportedIn(log, "allocated") /\ id \notin ReportedIn(log, "freed")
    BY <1>14, <2>0
  <2>3. ASSUME NEW x \in Ids(n), Past(t, x) PROVE Past(u, x)
    <3>1. x.slot \in 1..n
      BY DEF Ids
    <3> QED BY <1>12, <2>3, <3>1 DEF Past
  <2>4. ASSUME NEW i \in Indices(new, "allocated"), NEW j \in Indices(new, "allocated"),
               new[i].body.buffer = new[j].body.buffer
        PROVE  i = j
    <3>1. \A x \in Indices(log, "allocated") :
             new[x] = log[x] /\ log[x].body.buffer \in ReportedIn(log, "allocated")
      BY <2>1 DEF Indices, ReportedIn
    <3>2. new[Len(log) + 1].body.buffer = id
      BY <1>7, <2>1
    <3> HIDE DEF id
    <3>3. CASE i \in Indices(log, "allocated") /\ j \in Indices(log, "allocated")
      BY <2>0, <2>4, <3>1, <3>3
    <3>4. CASE i = Len(log) + 1 \/ j = Len(log) + 1
      BY <2>1, <2>2, <2>4, <3>1, <3>2, <3>4
    <3> QED BY <2>1, <2>4, <3>3, <3>4
  <2> HIDE DEF id
  <2>5. ReportedIn(new, "allocated") \cup ReportedIn(new, "freed") \subseteq Ids(n)
    BY <1>14, <2>0, <2>1
  <2>6. LiveIds(u) = ReportedIn(new, "allocated") \ ReportedIn(new, "freed")
    BY <1>13, <2>0, <2>1, <2>2
  <2>7. \A x \in ReportedIn(new, "allocated") : x \in LiveIds(u) \/ Past(u, x)
    BY <1>13, <2>0, <2>1, <2>3
  <2>8. \A x \in ReportedIn(new, "freed") : Past(u, x)
    BY <2>0, <2>1, <2>3
  <2> QED BY <2>1, <2>4, <2>5, <2>6, <2>7, <2>8 DEF ReportInv, n
<1>17. a.buffers = u
  BY <1>3
<1> QED BY <1>15, <1>16, <1>17 DEF a, new

(* A buffer that is freed is past from then on.                            *)
LEMMA FreeKeeps ==
  ASSUME NEW s, NEW log, SessionInv(s), ReportInv(s.buffers, log),
         NEW id, Holds(s.buffers, id), id = [slot |-> id.slot, generation |-> id.generation],
         NEW r \in Responses, r.body = [result |-> "freed", buffer |-> id]
  PROVE  LET a == FreeBuffer(s, id) IN SessionInv(a) /\ ReportInv(a.buffers, Append(log, r))
<1> DEFINE t == s.buffers
           k == id.slot
           u == RetireAll(t, {k})
           a == FreeBuffer(s, id)
           new == Append(log, r)
           n == BufferSlots
<1>1. n \in Nat /\ n # 0 /\ Table(t, n)
  BY GpuAssumption DEF SessionInv
<1>2. k \in 1..n /\ t[k].occupied /\ k \in LiveSlots(t) /\ IdAt(t, k) = id
  BY <1>1 DEF Holds, LiveSlots, Table, IdAt
<1>3. /\ Table(u, n) /\ Later(t, u, n)
      /\ \A j \in 1..n : u[j] = IF j \in {k} THEN GivenBack(t[j]) ELSE t[j]
      /\ LiveIds(u) = LiveIds(t) \ {IdAt(t, j) : j \in {k}}
      /\ \A j \in {k} : IdAt(t, j) \in Ids(n) /\ IdAt(t, j) \in LiveIds(t) /\ Past(u, IdAt(t, j))
  BY <1>1, <1>2, RetireAllIs
<1>4. Retired(t, k) = u
  <2>1. Retired(t, k) = [j \in 1..n |-> IF j = k THEN GivenBack(t[k]) ELSE t[j]]
    BY <1>1, <1>2, RetiredIs
  <2>2. u = [j \in 1..n |-> u[j]]
    BY <1>3 DEF Table
  <2> HIDE DEF u
  <2> QED BY <1>3, <2>1, <2>2
<1>5. a = [buffers |-> u, allocated |-> s.allocated - t[k].data]
  BY <1>4 DEF FreeBuffer
<1>6. s.allocated \in Int /\ s.allocated = BytesLive(t) /\ s.allocated <= Quota
  BY DEF SessionInv
<1>7. \A j \in LiveSlots(t) : t[j].data \in Nat
  BY DEF SessionInv
<1>8. \A j \in 1..n : Weight(t, j) \in Nat
  BY WeightsAre
<1>9. r.body.result = "freed" /\ r.body.buffer = id
  OBVIOUS
<1> HIDE DEF t, u, a, new, n
<1>10. DOMAIN t = 1..n /\ DOMAIN u = 1..n
  BY <1>1, <1>3 DEF Table
<1>11. ~u[k].occupied /\ \A j \in 1..n \ {k} : u[j] = t[j]
  <2>1. GivenBack(t[k]).occupied = FALSE
    BY DEF GivenBack
  <2>2. u[k] = GivenBack(t[k])
    BY <1>2, <1>3
  <2>3. \A j \in 1..n \ {k} : u[j] = t[j]
    BY <1>3
  <2> QED BY <2>1, <2>2, <2>3
<1>12. LiveIds(u) = LiveIds(t) \ {id} /\ id \in Ids(n) /\ id \in LiveIds(t) /\ Past(u, id)
  BY <1>2, <1>3
<1>13. SessionInv(a)
  <2>1. a.buffers = u /\ a.allocated = s.allocated - t[k].data
    BY <1>5
  <2>2. \A j \in LiveSlots(u) : u[j].data \in Nat
    BY <1>7, <1>10, <1>11 DEF LiveSlots
  <2>3. Weight(u, k) = 0 /\ Weight(t, k) = t[k].data /\ t[k].data \in Nat
    BY <1>2, <1>7, <1>11 DEF Weight
  <2>4. \A j \in 1..n \ {k} : Weight(u, j) = Weight(t, j)
    BY <1>11 DEF Weight
  <2>5. \A j \in 1..n : Weight(t, j) \in Int /\ Weight(u, j) \in Int
    BY <1>8, <2>3, <2>4
  <2>6. BytesLive(t) \in Int /\ BytesLive(u) = BytesLive(t) + Weight(u, k) - Weight(t, k)
    BY <1>2, <2>4, <2>5, BytesChange DEF n
  <2>7. BytesLive(u) = s.allocated - t[k].data /\ s.allocated - t[k].data <= Quota
    BY <1>6, <2>3, <2>6, TablesAssumption
  <2> QED BY <1>3, <1>5, <1>6, <2>1, <2>2, <2>3, <2>7 DEF SessionInv, n
<1>14. ReportInv(u, new)
  <2>0. /\ log \in Seq(Responses)
        /\ LiveIds(t) = ReportedIn(log, "allocated") \ ReportedIn(log, "freed")
        /\ ReportedIn(log, "allocated") \cup ReportedIn(log, "freed") \subseteq Ids(n)
        /\ \A x \in ReportedIn(log, "allocated") : x \in LiveIds(t) \/ Past(t, x)
        /\ \A x \in ReportedIn(log, "freed") : Past(t, x)
        /\ \A i, j \in Indices(log, "allocated") :
             log[i].body.buffer = log[j].body.buffer => i = j
    BY DEF ReportInv, t, n
  <2>1. /\ new \in Seq(Responses) /\ Len(log) \in Nat /\ DOMAIN log = 1..Len(log)
        /\ \A i \in 1..Len(log) : new[i] = log[i]
        /\ Indices(new, "allocated") = Indices(log, "allocated")
        /\ ReportedIn(new, "allocated") = ReportedIn(log, "allocated")
        /\ ReportedIn(new, "freed") = ReportedIn(log, "freed") \cup {id}
    BY <1>9, <2>0, ResponseLogged DEF new
  <2>2. \A x \in Ids(n) : Past(t, x) => Past(u, x)
    BY <1>1, <1>3, PastStays
  <2>3. \A x \in Indices(log, "allocated") : new[x] = log[x]
    BY <2>1 DEF Indices
  <2>4. LiveIds(u) = ReportedIn(new, "allocated") \ ReportedIn(new, "freed")
    BY <1>12, <2>0, <2>1
  <2>5. ReportedIn(new, "allocated") \cup ReportedIn(new, "freed") \subseteq Ids(n)
    BY <1>12, <2>0, <2>1
  <2>6. \A x \in ReportedIn(new, "allocated") : x \in LiveIds(u) \/ Past(u, x)
    BY <1>12, <2>0, <2>1, <2>2
  <2>7. \A x \in ReportedIn(new, "freed") : Past(u, x)
    BY <1>12, <2>0, <2>1, <2>2
  <2>8. \A i, j \in Indices(new, "allocated") :
          new[i].body.buffer = new[j].body.buffer => i = j
    BY <2>0, <2>1, <2>3
  <2> QED BY <2>1, <2>4, <2>5, <2>6, <2>7, <2>8 DEF ReportInv, n
<1>15. a.buffers = u
  BY <1>5
<1> QED BY <1>13, <1>14, <1>15 DEF a, new

(* A refusal reports no buffer.                                            *)
LEMMA RejectKeeps ==
  ASSUME NEW t, NEW log, ReportInv(t, log), NEW r \in Responses, r.body = [result |-> "rejected"]
  PROVE  ReportInv(t, Append(log, r))
<1> DEFINE new == Append(log, r)
<1>1. r.body.result = "rejected" /\ log \in Seq(Responses)
  BY DEF ReportInv
<1>2. /\ new \in Seq(Responses) /\ DOMAIN log = 1..Len(log)
      /\ \A i \in 1..Len(log) : new[i] = log[i]
      /\ \A x \in {"allocated", "freed"} : Indices(new, x) = Indices(log, x)
      /\ \A x \in {"allocated", "freed"} : ReportedIn(new, x) = ReportedIn(log, x)
  BY <1>1, ResponseLogged
<1>3. \A x \in Indices(log, "allocated") : new[x] = log[x]
  BY <1>2 DEF Indices
<1> HIDE DEF new
<1>4. ReportInv(t, new)
  BY <1>2, <1>3 DEF ReportInv
<1> QED BY <1>4 DEF new
(* The four outcomes of a command.                                         *)
LEMMA OutcomeIs ==
  ASSUME NEW c \in Commands
  PROVE  \/ /\ CanAllocate(session, c.bytes) /\ c.bytes \in Nat
            /\ Outcome(c) = [session |-> Allocate(session, c.bytes),
                             reply |-> [result |-> "allocated",
                                        buffer |-> IdAt(session.buffers,
                                                        Min(FreeSlots(session.buffers)))]]
         \/ /\ Holds(session.buffers, c.buffer) /\ c.buffer \in BufferIds
            /\ Outcome(c) = [session |-> FreeBuffer(session, c.buffer),
                             reply |-> [result |-> "freed", buffer |-> c.buffer]]
         \/ Outcome(c) = [session |-> session, reply |-> None]
         \/ Outcome(c) = [session |-> session, reply |-> [result |-> "rejected"]]
<1>1. \/ c.op = "allocate" /\ c.bytes \in Sizes
      \/ c.op = "free" /\ c.buffer \in BufferIds
      \/ c.op = "submit"
  BY DEF Commands
<1>2. CASE c.op = "allocate" /\ c.bytes \in Sizes
  <2>1. c.bytes \in Nat
    BY <1>2, GpuAssumption
  <2> QED BY <1>2, <2>1 DEF Outcome
<1>3. CASE c.op = "free" /\ c.buffer \in BufferIds
  BY <1>3 DEF Outcome
<1>4. CASE c.op = "submit"
  BY <1>4 DEF Outcome
<1> QED BY <1>1, <1>2, <1>3, <1>4

(* A message that authenticates carries a command.                         *)
LEMMA AcceptedIsCommand ==
  ASSUME CommandInv, owned # <<>>, Authentic(Head(owned)) PROVE Head(owned).command \in Commands
<1> DEFINE m == Head(owned)
<1>1. m = owned[1] /\ 1 \in 1..Len(owned)
  BY HeadTailProperties, EmptySeq, LenProperties DEF CommandInv
<1>2. Genuine(sent, m)
  BY <1>1 DEF CommandInv
<1>3. PICK i \in 1..Len(sent) : m = [sequence |-> i, command |-> sent[i]]
  BY <1>2 DEF Genuine, Authentic
<1>4. sent[i] \in Commands
  BY LenProperties DEF CommandInv
<1> HIDE DEF m
<1>5. m.command \in Commands
  BY <1>3, <1>4
<1> QED BY <1>5 DEF m

LEMMA BufferNext ==
  ASSUME CommandInv, BufferInv, [Next]_vars PROVE BufferInv'
<1>1. CASE UNCHANGED <<session, responseLog>>
  BY <1>1 DEF BufferInv, SessionInv, ReportInv
<1>2. CASE Process
  <2> DEFINE m == Head(owned)
             c == m.command
             o == Outcome(c)
             r == Response(Len(accepted) + 1, o.reply)
  <2>1. CASE ~Authentic(m)
    BY <1>1, <1>2, <2>1 DEF Process
  <2>2. CASE Authentic(m)
    <3>1. /\ session' = o.session /\ owned # <<>>
          /\ responseLog' = IF o.reply = None THEN responseLog ELSE Append(responseLog, r)
      BY <1>2, <2>2 DEF Process
    <3>2. c \in Commands
      BY <3>1, <2>2, AcceptedIsCommand
    <3>3. Len(accepted) + 1 \in Nat /\ Len(responseLog) + 1 \in Nat
      BY LenProperties DEF CommandInv, BufferInv, ReportInv
    <3> DEFINE reply == o.reply
    <3>4. r.body = reply /\ (reply \in Replies => r \in Responses /\ reply # None)
      BY <3>3, NoneAssumption DEF Response, Responses
    <3>5. SessionInv(session) /\ ReportInv(session.buffers, responseLog)
      BY DEF BufferInv
    <3> HIDE DEF m, c, r
    <3>6. CASE /\ CanAllocate(session, c.bytes) /\ c.bytes \in Nat
               /\ o = [session |-> Allocate(session, c.bytes),
                       reply |-> [result |-> "allocated",
                                  buffer |-> IdAt(session.buffers,
                                                  Min(FreeSlots(session.buffers)))]]
      <4> DEFINE k == Min(FreeSlots(session.buffers))
                 id == IdAt(session.buffers, k)
      <4>1. Table(session.buffers, BufferSlots) /\ BufferSlots \in Nat
        BY <3>5, GpuAssumption DEF SessionInv
      <4>2. k \in 1..BufferSlots /\ session.buffers[k].generation # 0
        BY <3>6, <4>1, FirstFree DEF CanAllocate
      <4> HIDE DEF k
      <4>3. session.buffers[k].generation \in 1..MaxGeneration
        <5>1. session.buffers[k].generation \in 0..MaxGeneration
          BY <4>1, <4>2 DEF Table, Entry
        <5> QED BY <4>2, <5>1, TablesAssumption
      <4>4. id \in BufferIds
        BY <4>2, <4>3 DEF IdAt, BufferIds
      <4> HIDE DEF id
      <4>5. o = [session |-> Allocate(session, c.bytes),
                 reply |-> [result |-> "allocated", buffer |-> id]]
        BY <3>6 DEF id, k
      <4> HIDE DEF o
      <4>6. session' = Allocate(session, c.bytes)
        BY <3>1, <4>5
      <4>7. reply = [result |-> "allocated", buffer |-> id]
        BY <4>5
      <4>8. reply \in Replies
        BY <4>4, <4>7 DEF Replies
      <4>9. /\ r \in Responses /\ responseLog' = Append(responseLog, r)
            /\ r.body = [result |-> "allocated", buffer |-> id]
        BY <3>1, <3>4, <4>7, <4>8
      <4>10. SessionInv(session') /\ ReportInv(session'.buffers, responseLog')
        BY <3>5, <3>6, <4>6, <4>9, AllocateKeeps DEF id, k
      <4> QED BY <4>10 DEF BufferInv, SessionInv, ReportInv
    <3>7. CASE /\ Holds(session.buffers, c.buffer) /\ c.buffer \in BufferIds
               /\ o = [session |-> FreeBuffer(session, c.buffer),
                       reply |-> [result |-> "freed", buffer |-> c.buffer]]
      <4> HIDE DEF o
      <4> DEFINE id == c.buffer
      <4>1. session' = FreeBuffer(session, id)
        BY <3>1, <3>7
      <4>2. reply = [result |-> "freed", buffer |-> id]
        BY <3>7
      <4>3. id \in BufferIds /\ Holds(session.buffers, id)
        BY <3>7
      <4> HIDE DEF id
      <4>4. reply \in Replies
        BY <4>2, <4>3 DEF Replies
      <4>5. /\ r \in Responses /\ responseLog' = Append(responseLog, r)
            /\ r.body = [result |-> "freed", buffer |-> id]
        BY <3>1, <3>4, <4>2, <4>4
      <4>6. id = [slot |-> id.slot, generation |-> id.generation]
        BY <4>3 DEF BufferIds
      <4>7. SessionInv(session') /\ ReportInv(session'.buffers, responseLog')
        BY <3>5, <4>1, <4>3, <4>5, <4>6, FreeKeeps
      <4> QED BY <4>7 DEF BufferInv, SessionInv, ReportInv
    <3>8. CASE o = [session |-> session, reply |-> None]
      <4> HIDE DEF o
      <4>1. UNCHANGED <<session, responseLog>>
        BY <3>1, <3>8
      <4> QED BY <1>1, <4>1
    <3>9. CASE o = [session |-> session, reply |-> [result |-> "rejected"]]
      <4> HIDE DEF o
      <4>1. session' = session /\ reply = [result |-> "rejected"]
        BY <3>1, <3>9
      <4>2. reply \in Replies
        BY <4>1 DEF Replies
      <4>3. /\ r \in Responses /\ responseLog' = Append(responseLog, r)
            /\ r.body = [result |-> "rejected"]
        BY <3>1, <3>4, <4>1, <4>2
      <4>4. ReportInv(session.buffers, responseLog')
        BY <3>5, <4>3, RejectKeeps
      <4> QED BY <3>5, <4>1, <4>4 DEF BufferInv, SessionInv, ReportInv
    <3> QED BY <3>2, <3>6, <3>7, <3>8, <3>9, OutcomeIs
  <2> QED BY <2>1, <2>2
<1>3. CASE Guest \/ Copying \/ Batching \/ Watching \/ Replying \/ Faulty \/ UNCHANGED vars
  <2>1. UNCHANGED <<session, responseLog>>
    BY <1>3 DEF Guest, Copying, Batching, Watching, Replying, Faulty, GuestEncode, GuestFill,
         GuestPublish, GuestReceive, BridgeAcquire, BridgeCopy, BridgeConsumed, Submitting,
         SubmitControlBatch, SealControl, ReleaseControl, ResetDevice, ExpireDispatches,
         CompleteDispatch, Report, TakeResponse, TakeCompletion, TakeOutput, ReplyFill, ReplyPublish,
         ReadFails, WriteFails, Damage, vars, tables, history
  <2> QED BY <1>1, <2>1
<1> QED BY <1>2, <1>3 DEF Next

(* No resource changes hands unreported: the live buffers are those        *)
(* reported as allocated and not as freed, no identity is reported twice,  *)
(* and the session's byte count is the sum of the live buffers, within the *)
(* quota; for tables, generations, requests and quotas of any size.        *)
THEOREM ResourcesAreReported == Spec => []ResourcesReported
<1>1. ASSUME BufferInv PROVE ResourcesReported
  <2> DEFINE log == responseLog
  <2>1. /\ SessionInv(session) /\ log \in Seq(Responses)
        /\ LiveIds(session.buffers) = ReportedIn(log, "allocated") \ ReportedIn(log, "freed")
        /\ \A i, j \in Indices(log, "allocated") :
             log[i].body.buffer = log[j].body.buffer => i = j
    BY <1>1 DEF BufferInv, ReportInv
  <2>2. /\ Reported("allocated") = ReportedIn(log, "allocated")
        /\ Reported("freed") = ReportedIn(log, "freed")
    BY DEF Reported, ReportedIn, Indices
  <2> DEFINE I == Indices(log, "allocated")
             f == [i \in I |-> log[i].body.buffer]
  <2>3. IsFiniteSet(I)
    <3>1. DOMAIN log = 1..Len(log) /\ Len(log) \in Nat
      BY <2>1, LenProperties
    <3>2. IsFiniteSet(1..Len(log))
      BY <3>1, FS_Interval
    <3>3. I \subseteq 1..Len(log)
      BY <3>1 DEF Indices
    <3> QED BY <3>2, <3>3, FS_Subset
  <2>4. f \in Bijection(I, ReportedIn(log, "allocated"))
    <3> HIDE DEF I
    <3>1. f \in Injection(I, ReportedIn(log, "allocated"))
      BY <2>1 DEF Injection, IsInjective, ReportedIn, I
    <3>2. \A b \in ReportedIn(log, "allocated") : \E i \in I : f[i] = b
      BY DEF ReportedIn, I
    <3> QED BY <3>1, <3>2 DEF Bijection, Injection, Surjection
  <2>5. Cardinality(I) = Cardinality(ReportedIn(log, "allocated"))
    BY <2>3, <2>4, FS_Bijection DEF ExistsBijection
  <2>6. {i \in DOMAIN responseLog : responseLog[i].body.result = "allocated"} = I
    BY DEF Indices
  <2> HIDE DEF I, f
  <2> QED BY <2>1, <2>2, <2>5, <2>6 DEF ResourcesReported, SessionInv
<1>2. Init => CommandInv /\ BufferInv
  BY CommandInit, BufferInit
<1>3. CommandInv /\ BufferInv /\ [Next]_vars => CommandInv' /\ BufferInv'
  BY CommandNext, BufferNext
<1> QED BY <1>1, <1>2, <1>3, PTL DEF Spec
-----------------------------------------------------------------------------
(***************************************************************************)
(* Bounds                                                                  *)
(***************************************************************************)
GuestRecords ==
  [published : 0..MaxSequence, reserved : 0..MaxSequence, poisoned : BOOLEAN,
   message : {Zero} \cup [sequence : 1..MaxSequence, command : Commands]]
BridgeRecords ==
  [pc : {"idle", "acquired", "copied", "filled"}, consumed : 0..MaxSequence,
   published : 0..MaxSequence, poisoned : BOOLEAN]
ReplyPages == /\ replyPage = [published |-> replyPage.published,
                              consumed |-> replyPage.consumed, slots |-> replyPage.slots]
              /\ DOMAIN replyPage.slots = 1..Slots

(* What the bridge checked when it took a ticket or reserved a slot holds  *)
(* until it is done with it.                                               *)
RoomInv ==
  /\ guest \in GuestRecords /\ bridge \in BridgeRecords /\ ReplyPages
  /\ commandPage.published \in 0..MaxSequence
  /\ guest.reserved # 0 => guest.reserved = guest.published + 1
  /\ bridge.pc = "acquired" => bridge.consumed < commandPage.published /\ Len(owned) < Slots
  /\ bridge.pc = "filled" => bridge.published < MaxSequence
  /\ Len(owned) <= Slots

QueueInv ==
  /\ IsSeq(responses) /\ Len(responses) <= Slots
  /\ IsSeq(completions) /\ Len(completions) <= Slots
  /\ Len(responseLog) < MaxSequence /\ Len(completionLog) < MaxSequence
  /\ Len(sent) < MaxSequence /\ job \in ControlIds \cup {None}
  /\ faults \in [access : Nat, damage : Nat] /\ faults.access + faults.damage <= MaxFaults

roomVars == <<guest, bridge, commandPage, replyPage, owned>>
queueVars == <<responses, completions, responseLog, completionLog, sent, faults, job>>

LEMMA RoomInit == Init => RoomInv /\ QueueInv
<1> SUFFICES ASSUME Init PROVE RoomInv /\ QueueInv
  OBVIOUS
<1>0. Slots \in Nat \ {0} /\ MaxSequence \in Nat \ {0} /\ MaxFaults \in Nat
  BY GpuAssumption
<1>1. /\ guest = [published |-> 0, reserved |-> 0, poisoned |-> FALSE, message |-> Zero]
      /\ bridge = [pc |-> "idle", consumed |-> 0, published |-> 0, poisoned |-> FALSE]
      /\ commandPage = EmptyPage /\ replyPage = EmptyPage /\ owned = <<>>
  BY DEF Init
<1>2. /\ guest \in GuestRecords /\ bridge \in BridgeRecords
      /\ bridge.pc = "idle" /\ guest.reserved = 0
  BY <1>0, <1>1 DEF GuestRecords, BridgeRecords
<1>3. ReplyPages /\ commandPage.published = 0
  BY <1>1 DEF ReplyPages, EmptyPage
<1>4. RoomInv
  BY <1>0, <1>1, <1>2, <1>3 DEF RoomInv
<1>5. IsSeq(responses) /\ IsSeq(completions)
  <2>1. <<>> \in Seq({}) /\ responses = <<>> /\ completions = <<>>
    BY DEF Init
  <2> QED BY <2>1, IsSeqOfSeq, Zenon
<1> QED BY <1>0, <1>4, <1>5 DEF QueueInv, Init

LEMMA RoomNext ==
  ASSUME CommandInv, Len(sent) < MaxSequence, RoomInv, [Next]_vars PROVE RoomInv'
<1>0. /\ Slots \in Nat \ {0} /\ MaxSequence \in Nat \ {0}
      /\ Len(sent) \in Nat /\ Len(owned) \in Nat
  BY GpuAssumption, LenProperties DEF CommandInv
<1>1. ASSUME NEW c \in Commands, GuestEncode(c) PROVE RoomInv'
  <2> DEFINE m == [sequence |-> Len(sent) + 1, command |-> c]
  <2>1. /\ guest' = [guest EXCEPT !.message = m]
        /\ UNCHANGED <<bridge, commandPage, replyPage, owned>>
    BY <1>1 DEF GuestEncode
  <2>2. m \in [sequence : 1..MaxSequence, command : Commands]
    BY <1>0
  <2> HIDE DEF m
  <2>3. /\ guest' \in GuestRecords
        /\ guest'.reserved = guest.reserved /\ guest'.published = guest.published
    BY <2>1, <2>2 DEF RoomInv, GuestRecords
  <2> QED BY <2>1, <2>3 DEF RoomInv, ReplyPages
<1>2. CASE GuestFill
  <2>1. /\ guest' = [guest EXCEPT !.reserved = guest.published + 1] /\ guest.published < MaxSequence
        /\ commandPage' = [commandPage EXCEPT !.slots[SlotOf(guest.published + 1)] = guest.message]
        /\ UNCHANGED <<bridge, replyPage, owned>>
    BY <1>2 DEF GuestFill, CanReserve
  <2>2. guest' \in GuestRecords /\ guest'.reserved = guest'.published + 1
    BY <1>0, <2>1 DEF RoomInv, GuestRecords
  <2>3. commandPage'.published = commandPage.published
    BY <2>1 DEF CommandInv, Pages
  <2> QED BY <2>1, <2>2, <2>3 DEF RoomInv, ReplyPages
<1>3. CASE GuestPublish
  <2>0. guest.reserved = guest.published + 1 /\ guest \in GuestRecords
    BY <1>3 DEF GuestPublish, RoomInv
  <2>1. UNCHANGED <<bridge, replyPage, owned>>
    BY <1>3 DEF GuestPublish
  <2>2. CASE /\ commandPage.published = guest.published
             /\ commandPage' = [commandPage EXCEPT !.published = guest.reserved]
             /\ guest' = [guest EXCEPT !.published = guest.reserved, !.reserved = 0,
                                       !.message = Zero]
    <3>1. guest' \in GuestRecords /\ guest'.reserved = 0
      <4>1. guest' = [published |-> guest.reserved, reserved |-> 0, poisoned |-> guest.poisoned,
                      message |-> Zero]
        BY <2>2 DEF CommandInv, Guests
      <4>2. guest.reserved \in 0..MaxSequence /\ guest.poisoned \in BOOLEAN
        BY <2>0 DEF GuestRecords
      <4> QED BY <1>0, <4>1, <4>2 DEF GuestRecords
    <3>2. commandPage'.published = guest.reserved
      BY <2>2 DEF CommandInv, Pages
    <3>3. guest.reserved \in 0..MaxSequence /\ guest.published \in 0..MaxSequence
      BY <2>0 DEF GuestRecords
    <3>4. bridge.consumed \in 0..MaxSequence
      BY DEF RoomInv, BridgeRecords
    <3> QED BY <1>0, <2>0, <2>1, <2>2, <3>1, <3>2, <3>3, <3>4 DEF RoomInv, ReplyPages
  <2>3. CASE /\ commandPage' = [commandPage EXCEPT !.slots[SlotOf(guest.reserved)] = Zero]
             /\ guest' = [guest EXCEPT !.poisoned = TRUE]
    <3>1. /\ guest' \in GuestRecords
          /\ guest'.reserved = guest.reserved /\ guest'.published = guest.published
      BY <2>0, <2>3 DEF GuestRecords
    <3>2. commandPage'.published = commandPage.published
      BY <2>3 DEF CommandInv, Pages
    <3> QED BY <2>1, <3>1, <3>2 DEF RoomInv, ReplyPages
  <2> QED BY <1>3, <2>2, <2>3 DEF GuestPublish
<1>4. CASE BridgeAcquire
  <2>1. /\ bridge' = [bridge EXCEPT !.pc = "acquired"]
        /\ commandPage.published > bridge.consumed /\ Len(owned) < Slots
        /\ UNCHANGED <<guest, commandPage, replyPage, owned>>
    BY <1>4 DEF BridgeAcquire, CanAcquire
  <2>2. bridge' \in BridgeRecords /\ bridge'.pc = "acquired" /\ bridge'.consumed = bridge.consumed
    BY <2>1 DEF RoomInv, BridgeRecords
  <2>3. bridge.consumed \in 0..MaxSequence /\ commandPage.published \in 0..MaxSequence
    BY DEF RoomInv, BridgeRecords
  <2> QED BY <1>0, <2>1, <2>2, <2>3 DEF RoomInv, ReplyPages
<1>5. CASE BridgeCopy
  <2> DEFINE m == commandPage.slots[SlotOf(bridge.consumed + 1)]
  <2>1. /\ bridge.pc = "acquired" /\ owned' = Append(owned, m)
        /\ bridge' = [bridge EXCEPT !.pc = "copied", !.consumed = @ + 1]
        /\ UNCHANGED <<guest, commandPage, replyPage>>
    BY <1>5 DEF BridgeCopy
  <2>2. Len(owned') = Len(owned) + 1 /\ Len(owned) < Slots
    <3> HIDE DEF m
    <3>1. owned \in Seq(Messages \cup {m})
      BY DEF CommandInv
    <3> QED BY <2>1, <3>1, AppendProperties DEF RoomInv
  <2>3. /\ bridge.consumed \in 0..MaxSequence /\ commandPage.published \in 0..MaxSequence
        /\ bridge.consumed < commandPage.published
    BY <2>1 DEF RoomInv, BridgeRecords
  <2>4. bridge.consumed + 1 \in 0..MaxSequence
    BY <1>0, <2>3
  <2>5. bridge' \in BridgeRecords /\ bridge'.pc = "copied"
    BY <2>1, <2>4 DEF RoomInv, BridgeRecords
  <2> QED BY <1>0, <2>1, <2>2, <2>5 DEF RoomInv, ReplyPages
<1>6. CASE ReplyFill
  <2>1. /\ bridge' = [bridge EXCEPT !.pc = "filled"] /\ bridge.published < MaxSequence
        /\ replyPage' = [replyPage EXCEPT !.slots[SlotOf(bridge.published + 1)] = outgoing]
        /\ UNCHANGED <<guest, commandPage, owned>>
    BY <1>6 DEF ReplyFill, CanReserve
  <2>2. bridge' \in BridgeRecords /\ bridge'.pc = "filled" /\ bridge'.published = bridge.published
    BY <2>1 DEF RoomInv, BridgeRecords
  <2>3. ReplyPages'
    BY <2>1 DEF RoomInv, ReplyPages
  <2> QED BY <2>1, <2>2, <2>3 DEF RoomInv
<1>7. CASE ReplyPublish
  <2>1. /\ bridge.pc = "filled" /\ bridge' = [bridge EXCEPT !.pc = "idle", !.published = @ + 1]
        /\ replyPage' = [replyPage EXCEPT !.published = bridge.published + 1]
        /\ UNCHANGED <<guest, commandPage, owned>>
    BY <1>7 DEF ReplyPublish
  <2>2. bridge.published \in 0..MaxSequence /\ bridge.published < MaxSequence
    BY <2>1 DEF RoomInv, BridgeRecords
  <2>3. bridge.published + 1 \in 0..MaxSequence
    BY <1>0, <2>2
  <2>4. bridge' \in BridgeRecords /\ bridge'.pc = "idle"
    BY <2>1, <2>3 DEF RoomInv, BridgeRecords
  <2>5. ReplyPages'
    BY <2>1 DEF RoomInv, ReplyPages
  <2> QED BY <2>1, <2>4, <2>5 DEF RoomInv
<1>8. CASE BridgeConsumed \/ ReadFails \/ WriteFails
  <2>1. UNCHANGED <<guest, owned>>
    BY <1>8 DEF BridgeConsumed, ReadFails, WriteFails
  <2>2. \/ bridge' = [bridge EXCEPT !.pc = "idle"]
        \/ bridge' = [bridge EXCEPT !.poisoned = TRUE, !.pc = "idle"]
    BY <1>8 DEF BridgeConsumed, ReadFails, WriteFails, Poison
  <2>3. bridge' \in BridgeRecords /\ bridge'.pc = "idle"
    BY <2>2 DEF RoomInv, BridgeRecords
  <2>4. commandPage' \in {commandPage, [commandPage EXCEPT !.consumed = bridge.consumed]}
    BY <1>8 DEF BridgeConsumed, ReadFails, WriteFails
  <2>5. commandPage'.published = commandPage.published
    BY <2>4 DEF CommandInv, Pages
  <2>6. replyPage' \in {replyPage, [replyPage EXCEPT !.published = bridge.published + 1]}
    BY <1>8 DEF BridgeConsumed, ReadFails, WriteFails
  <2>7. ReplyPages'
    BY <2>6 DEF RoomInv, ReplyPages
  <2> QED BY <2>1, <2>3, <2>5, <2>7 DEF RoomInv
<1>9. CASE Damage
  <2>1. UNCHANGED <<guest, bridge, replyPage, owned>>
    BY <1>9 DEF Damage
  <2>2. /\ commandPage'.published \in 0..MaxSequence
        /\ commandPage.published <= commandPage'.published
    <3>1. ASSUME NEW s, NEW m, commandPage' = [commandPage EXCEPT !.slots[s] = m]
          PROVE  commandPage'.published = commandPage.published
      BY <3>1 DEF CommandInv, Pages
    <3>2. CASE /\ commandPage.published < MaxSequence
               /\ commandPage' = [commandPage EXCEPT !.published = @ + 1]
      <4>1. commandPage'.published = commandPage.published + 1
        BY <3>2 DEF CommandInv, Pages
      <4> QED BY <1>0, <3>2, <4>1 DEF RoomInv
    <3>3. commandPage.published \in 0..MaxSequence
      BY DEF RoomInv
    <3>4. \/ \E s, m : commandPage' = [commandPage EXCEPT !.slots[s] = m]
          \/ /\ commandPage.published < MaxSequence
             /\ commandPage' = [commandPage EXCEPT !.published = @ + 1]
      BY <1>9 DEF Damage
    <3>5. CASE commandPage'.published = commandPage.published
      BY <1>0, <3>3, <3>5
    <3> QED BY <3>1, <3>2, <3>4, <3>5
  <2>3. bridge.consumed \in 0..MaxSequence /\ commandPage.published \in 0..MaxSequence
    BY DEF RoomInv, BridgeRecords
  <2> QED BY <1>0, <2>1, <2>2, <2>3 DEF RoomInv, ReplyPages
<1>10. CASE Process
  <2>1. /\ owned # <<>> /\ owned' = Tail(owned) /\ bridge.pc = "idle"
        /\ UNCHANGED <<guest, bridge, commandPage, replyPage>>
    BY <1>10 DEF Process, Idle
  <2>2. Len(owned') = Len(owned) - 1
    BY <2>1, HeadTailProperties DEF CommandInv
  <2> QED BY <1>0, <2>1, <2>2 DEF RoomInv, ReplyPages
<1>11. CASE UNCHANGED roomVars
  BY <1>11 DEF roomVars, RoomInv, ReplyPages
<1>12. CASE GuestReceive \/ Batching \/ Watching \/ TakeResponse \/ TakeCompletion
              \/ TakeOutput \/ UNCHANGED vars
  <2>1. UNCHANGED roomVars
    BY <1>12 DEF GuestReceive, Batching, Submitting, SubmitControlBatch, SealControl,
         ReleaseControl, Watching, ResetDevice, ExpireDispatches, CompleteDispatch, Report,
         TakeResponse, TakeCompletion, TakeOutput, roomVars, transport, vars
  <2> QED BY <1>11, <2>1
<1> QED BY <1>1, <1>2, <1>3, <1>4, <1>5, <1>6, <1>7, <1>8, <1>9, <1>10, <1>12
        DEF Next, Guest, Copying, Replying, Faulty
(* begin_batch mints no more identities than the batch has dispatches.     *)
LEMMA BeginCounts ==
  ASSUME NEW n \in Nat, NEW t, Table(t, n), NEW batch, NEW now, NEW deadline, Len(batch) \in Nat
  PROVE  Len(BeginEach(t, batch, now, deadline).ids) <= Len(batch)
<1>1. PICK f : /\ f[0] = BeginStart(t)
               /\ \A m \in 1..Len(batch) : f[m] = BeginNext(f[m - 1], batch[m], now, deadline)
               /\ BeginEach(t, batch, now, deadline) = f[Len(batch)]
  BY BeginLoop
<1> DEFINE S == {m \in 0..Len(batch) : Begun(t, n, f[m]) /\ Len(f[m].ids) <= m}
<1>2. 0 \in S
  <2>1. Begun(t, n, BeginStart(t)) /\ Len(BeginStart(t).ids) = 0
    BY DEF Begun, BeginStart, Minted
  <2> QED BY <1>1, <2>1
<1>3. ASSUME NEW m \in 1..Len(batch), m - 1 \in S PROVE m \in S
  <2> DEFINE r == f[m - 1]
  <2>1. Begun(t, n, r) /\ Len(r.ids) <= m - 1 /\ f[m] = BeginNext(r, batch[m], now, deadline)
    BY <1>1, <1>3
  <2>2. Begun(t, n, f[m])
    BY <2>1, BeginNextKeeps
  <2>3. Len(r.ids) \in Nat /\ r.ids \in Seq(Ids(n))
    BY <2>1, LenProperties DEF Begun
  <2> HIDE DEF r
  <2>4. Len(f[m].ids) <= m
    <3>1. CASE r.ok /\ CanBegin(r.table, batch[m].request, now, deadline)
      <4> DEFINE id == IdAt(r.table, Min(FreeSlots(r.table)))
      <4>1. f[m].ids = Append(r.ids, id)
        BY <2>1, <3>1 DEF BeginNext
      <4> HIDE DEF id
      <4>2. r.ids \in Seq(Ids(n) \cup {id}) /\ id \in Ids(n) \cup {id}
        BY <2>3
      <4>3. Len(f[m].ids) = Len(r.ids) + 1
        BY <4>1, <4>2, AppendProperties
      <4> QED BY <2>1, <2>3, <4>3
    <3>2. CASE ~(r.ok /\ CanBegin(r.table, batch[m].request, now, deadline))
      <4>1. f[m] = [r EXCEPT !.ok = FALSE]
        BY <2>1, <3>2 DEF BeginNext
      <4>2. f[m].ids = r.ids
        BY <2>1, <4>1 DEF Begun
      <4> QED BY <2>1, <2>3, <4>2
    <3> QED BY <3>1, <3>2
  <2> QED BY <2>2, <2>4
<1> HIDE DEF S
<1>4. Len(batch) \in S
  BY <1>2, <1>3, UpTo
<1> QED BY <1>1, <1>4 DEF S

LEMMA RingTaken ==
  ASSUME NEW q, IsSeq(q), q # <<>>
  PROVE  IsSeq(Tail(q)) /\ Len(q) \in Nat /\ Len(Tail(q)) = Len(q) - 1
<1>1. q \in Seq(ToSet(q))
  BY DEF IsSeq
<1>2. Tail(q) \in Seq(ToSet(q)) /\ Len(Tail(q)) = Len(q) - 1 /\ Len(q) \in Nat
  BY <1>1, HeadTailProperties, LenProperties
<1> QED BY <1>2, IsSeqOfSeq

LEMMA RingPut ==
  ASSUME NEW q, IsSeq(q), NEW x
  PROVE  IsSeq(Append(q, x)) /\ Len(q) \in Nat /\ Len(Append(q, x)) = Len(q) + 1
<1> DEFINE S == ToSet(q) \cup {x}
<1>1. q \in Seq(S) /\ x \in S
  BY DEF IsSeq
<1> HIDE DEF S
<1>2. Append(q, x) \in Seq(S) /\ Len(Append(q, x)) = Len(q) + 1 /\ Len(q) \in Nat
  BY <1>1, AppendProperties, LenProperties
<1> QED BY <1>2, IsSeqOfSeq

LEMMA RingJoined ==
  ASSUME NEW p, NEW q, IsSeq(p), IsSeq(q)
  PROVE  /\ IsSeq(p \o q) /\ Len(p) \in Nat /\ Len(q) \in Nat
         /\ Len(p \o q) = Len(p) + Len(q)
<1> DEFINE S == ToSet(p) \cup ToSet(q)
<1>1. p \in Seq(S) /\ q \in Seq(S)
  BY DEF IsSeq
<1> HIDE DEF S
<1>2. Len(p \o q) = Len(p) + Len(q)
  BY <1>1, ConcatProperties
<1> QED BY <1>2, LogExtended

LEMMA QueueReport ==
  ASSUME WorkInv, QueueInv, NEW slots, slots \subseteq LiveSlots(watchdog), NEW status,
         Report(slots, status)
  PROVE  QueueInv'
<1> DEFINE o == InSlotOrder(slots)
           m == Cardinality(slots)
           ids == [i \in DOMAIN o |-> IdAt(watchdog, o[i])]
           requests == [i \in DOMAIN o |-> watchdog[o[i]].data.request]
           new == WatchdogCompletions(slots, status)
<1>1. /\ completionLog' = completionLog \o new /\ Len(completionLog) + 1 + m <= MaxSequence
      /\ UNCHANGED <<job, responses, completions, responseLog, sent, faults>>
  BY DEF Report, Encodable
<1>2. WatchdogSlots \in Nat /\ slots \subseteq 1..WatchdogSlots /\ MaxSequence \in Nat
  BY GpuAssumption DEF WorkInv, LiveSlots, Table
<1>3. m \in Nat /\ DOMAIN o = 1..m
  BY <1>2, SlotOrderLists
<1>4. new = CompletionsFor(ids, requests, status)
  BY DEF WatchdogCompletions
<1> HIDE DEF o, m, requests, new
<1>5. DOMAIN ids = 1..m
  BY <1>3
<1> HIDE DEF ids
<1>6. IsSeq(new) /\ DOMAIN new = 1..m
  BY <1>3, <1>4, <1>5, CompletionsAre
<1>7. Len(new) = m
  BY <1>3, <1>6, LenProperties DEF IsSeq
<1>8. Len(completionLog) \in Nat /\ Len(completionLog') = Len(completionLog) + m
  BY <1>1, <1>6, <1>7, RingJoined DEF WorkInv
<1>9. Len(completionLog') < MaxSequence
  BY <1>1, <1>2, <1>3, <1>8
<1> QED BY <1>1, <1>9 DEF QueueInv, IsSeq

LEMMA QueueSubmit ==
  ASSUME WorkInv, QueueInv, NEW bytes, NEW now, NEW deadline,
         SubmitControlBatch(bytes, now, deadline)
  PROVE  QueueInv'
<1> DEFINE batch == controls[job.slot].data
           begun == BeginBatch(watchdog, batch, now, deadline)
           all == BeginEach(watchdog, batch, now, deadline)
<1>0. /\ Table(watchdog, WatchdogSlots) /\ WatchdogSlots \in Nat
      /\ Slots \in Nat /\ MaxSequence \in Nat
  BY GpuAssumption DEF WorkInv
<1>1. job' = None /\ UNCHANGED <<responses, faults, sent, responseLog>>
  BY DEF SubmitControlBatch
<1>2. CASE UNCHANGED <<completions, completionLog>>
  BY <1>1, <1>2 DEF QueueInv, IsSeq
<1>3. ASSUME Verified(job, bytes), MaySubmit(batch), begun.ok,
             NEW verdict \in Verdicts, Submit(verdict, begun, batch)
      PROVE  QueueInv'
  <2>1. batch \in Batches
    BY <1>3 DEF Verified, Holds, WorkInv, LiveSlots
  <2>2. Len(batch) \in Nat
    BY <2>1, GpuAssumption, LenProperties
  <2>3. Begun(watchdog, WatchdogSlots, all) /\ Len(all.ids) <= Len(batch)
    BY <1>0, <2>2, BeginEachIs, BeginCounts
  <2>4. begun = IF all.ok THEN all
                ELSE [all EXCEPT !.table = CancelBatch(all.table, ToSet(all.ids))]
    BY DEF BeginBatch
  <2>5. /\ Len(completions) + Len(batch) <= Slots
        /\ Len(completionLog) + 1 + Len(batch) <= MaxSequence
    BY <1>3 DEF MaySubmit, Encodable
  <2> HIDE DEF batch, all
  <2>6. begun.ids = all.ids
    BY <2>3, <2>4 DEF Begun
  <2> HIDE DEF begun
  <2> DEFINE new == CompletionsFor(all.ids, [i \in DOMAIN batch |-> batch[i].request], "success")
             m == Len(all.ids)
  <2>7. \/ UNCHANGED <<completions, completionLog>>
        \/ completions' = completions \o new /\ completionLog' = completionLog \o new
    BY <1>3, <2>6 DEF Submit
  <2>8. m \in Nat /\ DOMAIN all.ids = 1..m /\ m <= Len(batch)
    BY <2>3, LenProperties DEF Begun
  <2> HIDE DEF m
  <2>9. IsSeq(new) /\ DOMAIN new = 1..m
    BY <2>8, CompletionsAre
  <2> HIDE DEF new
  <2>10. Len(new) = m
    BY <2>8, <2>9, LenProperties DEF IsSeq
  <2>11. CASE completions' = completions \o new /\ completionLog' = completionLog \o new
    <3>1. /\ Len(completions) \in Nat /\ Len(completions') = Len(completions) + m
          /\ IsSeq(completions \o new)
      BY <2>9, <2>10, <2>11, RingJoined DEF QueueInv
    <3>2. Len(completionLog) \in Nat /\ Len(completionLog') = Len(completionLog) + m
      BY <2>9, <2>10, <2>11, RingJoined DEF WorkInv
    <3>3. Len(completions') <= Slots /\ Len(completionLog') < MaxSequence
      BY <1>0, <2>2, <2>5, <2>8, <3>1, <3>2
    <3> QED BY <1>1, <2>11, <3>1, <3>3 DEF QueueInv, IsSeq
  <2> QED BY <1>2, <2>7, <2>11
<1> QED BY <1>2, <1>3 DEF SubmitControlBatch
LEMMA QueueNext ==
  ASSUME CommandInv, WorkInv, BufferInv, QueueInv, [Next]_vars PROVE QueueInv'
<1>0. Slots \in Nat /\ MaxSequence \in Nat /\ MaxFaults \in Nat
  BY GpuAssumption
<1>1. ASSUME NEW c \in Commands, GuestEncode(c) PROVE QueueInv'
  <2>1. /\ sent' = Append(sent, c) /\ Len(sent) + 1 + 1 <= MaxSequence
        /\ UNCHANGED <<responses, completions, responseLog, completionLog, faults, job>>
    BY <1>1 DEF GuestEncode, Encodable, tables, replies
  <2>2. Len(sent) \in Nat /\ Len(sent') = Len(sent) + 1
    BY <2>1, AppendProperties, LenProperties DEF CommandInv
  <2> QED BY <1>0, <2>1, <2>2 DEF QueueInv, IsSeq
<1>2. CASE Process
  <2> DEFINE m == Head(owned)
             c == m.command
             o == Outcome(c)
             r == Response(Len(accepted) + 1, o.reply)
  <2>1. /\ Len(responses) < Slots /\ Len(responseLog) + 1 + 1 <= MaxSequence /\ owned # <<>>
        /\ UNCHANGED <<completions, completionLog, sent, faults>>
    BY <1>2 DEF Process, MayProcess, Encodable
  <2>2. CASE ~Authentic(m)
    BY <1>2, <2>1, <2>2 DEF Process, QueueInv, IsSeq
  <2>3. CASE Authentic(m)
    <3>1. /\ job' = IF c.op = "submit" THEN c.control ELSE None
          /\ \/ UNCHANGED <<responses, responseLog>>
             \/ responses' = Append(responses, r) /\ responseLog' = Append(responseLog, r)
      BY <1>2, <2>3 DEF Process
    <3> HIDE DEF r, o
    <3>2. c \in Commands
      BY <2>1, <2>3, AcceptedIsCommand
    <3> HIDE DEF m, c
    <3>3. job' \in ControlIds \cup {None}
      <4>1. c.op = "submit" => c.control \in ControlIds
        BY <3>2 DEF Commands
      <4> QED BY <3>1, <4>1
    <3>4. /\ IsSeq(Append(responses, r)) /\ Len(responses) \in Nat
          /\ Len(Append(responses, r)) = Len(responses) + 1
      BY RingPut DEF QueueInv
    <3>5. IsSeq(responseLog)
      BY IsSeqOfSeq DEF BufferInv, ReportInv
    <3>6. Len(responseLog) \in Nat /\ Len(Append(responseLog, r)) = Len(responseLog) + 1
      BY <3>5, RingPut
    <3>7. /\ Len(responses') <= Slots /\ Len(responseLog') < MaxSequence /\ IsSeq(responses')
      <4>1. CASE UNCHANGED <<responses, responseLog>>
        BY <4>1 DEF QueueInv, IsSeq
      <4>2. CASE responses' = Append(responses, r) /\ responseLog' = Append(responseLog, r)
        <5>1. IsSeq(responses')
          BY <3>4, <4>2
        <5> QED BY <1>0, <2>1, <3>4, <3>6, <4>2, <5>1
      <4> QED BY <3>1, <4>1, <4>2
    <3> QED BY <2>1, <3>3, <3>7 DEF QueueInv, IsSeq
  <2> QED BY <2>2, <2>3
<1>3. CASE Submitting
  BY <1>3, QueueSubmit DEF Submitting
<1>4. CASE Watching
  <2>1. ASSUME NEW now, ExpireDispatches(now) PROVE QueueInv'
    BY <2>1, QueueReport DEF ExpireDispatches, Expired
  <2>2. CASE ResetDevice
    BY <2>2, QueueReport DEF ResetDevice
  <2>3. ASSUME NEW id, CompleteDispatch(id) PROVE QueueInv'
    BY <2>3 DEF CompleteDispatch, replies, QueueInv, IsSeq
  <2> QED BY <1>4, <2>1, <2>2, <2>3 DEF Watching
<1>5. CASE TakeResponse
  <2>1. /\ responses # <<>> /\ responses' = Tail(responses)
        /\ UNCHANGED <<completions, responseLog, completionLog, sent, faults, job>>
    BY <1>5 DEF TakeResponse, tables, history
  <2>2. /\ IsSeq(Tail(responses)) /\ Len(responses) \in Nat
        /\ Len(Tail(responses)) = Len(responses) - 1
    BY <2>1, RingTaken DEF QueueInv
  <2> QED BY <1>0, <2>1, <2>2 DEF QueueInv, IsSeq
<1>6. CASE TakeCompletion
  <2>1. /\ completions # <<>> /\ completions' = Tail(completions)
        /\ UNCHANGED <<responses, responseLog, completionLog, sent, faults, job>>
    BY <1>6 DEF TakeCompletion, tables, history
  <2>2. /\ IsSeq(Tail(completions)) /\ Len(completions) \in Nat
        /\ Len(Tail(completions)) = Len(completions) - 1
    BY <2>1, RingTaken DEF QueueInv
  <2> QED BY <1>0, <2>1, <2>2 DEF QueueInv, IsSeq
<1>7. CASE Faulty
  <2>1. /\ \E kind \in {"access", "damage"} : Fault(kind)
        /\ UNCHANGED <<responses, completions, responseLog, completionLog, sent, job>>
    BY <1>7 DEF Faulty, ReadFails, WriteFails, Damage, tables, replies, history
  <2>2. /\ faults' \in [access : Nat, damage : Nat]
        /\ faults'.access + faults'.damage <= MaxFaults
    BY <1>0, <2>1 DEF Fault, QueueInv
  <2> QED BY <2>1, <2>2 DEF QueueInv, IsSeq
<1>8. CASE UNCHANGED queueVars
  BY <1>8 DEF queueVars, QueueInv, IsSeq
<1>9. CASE \/ GuestFill \/ GuestPublish \/ GuestReceive \/ Copying \/ ReplyFill \/ ReplyPublish
           \/ TakeOutput \/ UNCHANGED vars
           \/ (\E batch \in Batches : SealControl(batch))
           \/ (\E id \in ControlIds : ReleaseControl(id))
  <2>1. UNCHANGED queueVars
    BY <1>9 DEF GuestFill, GuestPublish, GuestReceive, Copying, BridgeAcquire, BridgeCopy,
         BridgeConsumed, ReplyFill, ReplyPublish, TakeOutput, SealControl, ReleaseControl, queueVars,
         tables, replies, history, vars
  <2> QED BY <1>8, <2>1
<1> QED BY <1>1, <1>2, <1>3, <1>4, <1>5, <1>6, <1>7, <1>9
        DEF Next, Guest, Batching, Replying

(* No ring holds more than it has slots, no position and no sequence       *)
(* number runs past its last value, and every field has its type, however  *)
(* the guest, the bridge and faults in shared memory interleave.           *)
THEOREM RingsAreBounded == Spec => []TypeOK
<1> DEFINE AllInv == CommandInv /\ WorkInv /\ BufferInv /\ RoomInv /\ QueueInv
<1>1. ASSUME AllInv PROVE TypeOK
  <2>1. guest \in GuestRecords /\ bridge \in BridgeRecords
    BY <1>1 DEF RoomInv
  <2>2. DOMAIN commandPage.slots = 1..Slots /\ DOMAIN replyPage.slots = 1..Slots
    BY <1>1 DEF CommandInv, Pages, RoomInv, ReplyPages
  <2>3. Len(owned) <= Slots /\ Len(responses) <= Slots /\ Len(completions) <= Slots
    BY <1>1 DEF RoomInv, QueueInv
  <2>4. Len(accepted) < MaxSequence
    <3>1. Len(accepted) \in Nat /\ Len(sent) \in Nat /\ Len(accepted) <= Len(sent)
      BY <1>1, LenProperties DEF CommandInv
    <3> QED BY <1>1, <3>1, GpuAssumption DEF QueueInv
  <2>5. faults \in [access : 0..MaxFaults, damage : 0..MaxFaults]
    BY <1>1, GpuAssumption DEF QueueInv
  <2> QED BY <1>1, <2>1, <2>2, <2>3, <2>4, <2>5 DEF TypeOK, QueueInv, GuestRecords, BridgeRecords
<1>2. Init => AllInv
  BY CommandInit, WorkInit, BufferInit, RoomInit
<1>3. AllInv /\ [Next]_vars => AllInv'
  <2>1. QueueInv => Len(sent) < MaxSequence
    BY DEF QueueInv
  <2> QED BY <2>1, CommandNext, WorkNext, BufferNext, RoomNext, QueueNext
<1> HIDE DEF AllInv
<1> QED BY <1>1, <1>2, <1>3, PTL DEF Spec
-----------------------------------------------------------------------------
(***************************************************************************)
(* Commands on their way                                                   *)
(***************************************************************************)
(* Positions less than a lap apart have different slots.                   *)
LEMMA SlotsApart ==
  ASSUME NEW p \in Nat, NEW q \in Nat, q < p, p - q < Slots
  PROVE  SlotOf(p + 1) # SlotOf(q + 1)
<1>0. Slots \in Nat \ {0}
  BY GpuAssumption
<1>1. /\ p \div Slots \in Int /\ p % Slots \in 0..Slots - 1
      /\ p = Slots * (p \div Slots) + (p % Slots)
      /\ q \div Slots \in Int /\ q % Slots \in 0..Slots - 1
      /\ q = Slots * (q \div Slots) + (q % Slots)
  BY <1>0
<1>2. ASSUME p % Slots = q % Slots PROVE FALSE
  <2> DEFINE d == p \div Slots
             e == q \div Slots
  <2>1. d \in Int /\ e \in Int /\ p - q = Slots * d - Slots * e
    BY <1>0, <1>1, <1>2
  <2> HIDE DEF d, e
  <2>2. Slots * d - Slots * e = Slots * (d - e)
    BY <1>0, <2>1
  <2>3. CASE d - e <= 0
    <3>1. Slots * (d - e) <= 0
      BY <1>0, <2>1, <2>3
    <3> QED BY <1>0, <2>1, <2>2, <3>1
  <2>4. CASE d - e >= 1
    <3>1. Slots * (d - e) >= Slots
      BY <1>0, <2>1, <2>4
    <3> QED BY <1>0, <2>1, <2>2, <3>1
  <2> QED BY <2>1, <2>3, <2>4
<1>3. SlotOf(p + 1) = (p % Slots) + 1 /\ SlotOf(q + 1) = (q % Slots) + 1
  BY DEF SlotOf
<1> QED BY <1>1, <1>2, <1>3

(* The counters are ordered and less than a lap apart, and the guest has   *)
(* published all it encoded but the message in its hand, which already     *)
(* fills the reserved slot.                                                *)
CountersInv ==
  /\ ~guest.poisoned /\ commandPage.published = guest.published
  /\ commandPage.consumed \in Nat /\ guest.published \in Nat
  /\ commandPage.consumed <= bridge.consumed /\ bridge.consumed <= guest.published
  /\ guest.published <= commandPage.consumed + Slots
HandInv ==
  /\ guest.message = Zero => guest.published = Len(sent) /\ guest.reserved = 0
  /\ guest.message # Zero => /\ guest.published + 1 = Len(sent)
                             /\ guest.message = Numbered(Len(sent))
  /\ guest.reserved # 0 => /\ guest.reserved = guest.published + 1
                           /\ guest.reserved <= commandPage.consumed + Slots
                           /\ commandPage.slots[SlotOf(guest.reserved)] = guest.message
OwnedInv ==
  /\ bridge.consumed = Len(accepted) + Len(owned)
  /\ \A k \in 1..Len(owned) : owned[k] = Numbered(Len(accepted) + k)
WaitingInv ==
  \A p \in (bridge.consumed + 1)..guest.published : commandPage.slots[SlotOf(p)] = Numbered(p)
KeptInv ==
  faults.damage = 0 => CountersInv /\ HandInv /\ OwnedInv /\ WaitingInv

LEMMA KeptInit == Init => KeptInv
<1> SUFFICES ASSUME Init PROVE KeptInv
  OBVIOUS
<1>0. Slots \in Nat \ {0}
  BY GpuAssumption
<1>1. /\ guest = [published |-> 0, reserved |-> 0, poisoned |-> FALSE, message |-> Zero]
      /\ bridge = [pc |-> "idle", consumed |-> 0, published |-> 0, poisoned |-> FALSE]
      /\ commandPage = EmptyPage /\ owned = <<>> /\ sent = <<>> /\ accepted = <<>>
  BY DEF Init
<1>2. /\ guest.published = 0 /\ guest.reserved = 0 /\ ~guest.poisoned /\ guest.message = Zero
      /\ bridge.consumed = 0 /\ commandPage.published = 0 /\ commandPage.consumed = 0
      /\ Len(owned) = 0 /\ Len(sent) = 0 /\ Len(accepted) = 0
  BY <1>1 DEF EmptyPage
<1> QED BY <1>0, <1>2 DEF KeptInv, CountersInv, HandInv, OwnedInv, WaitingInv

keptVars == <<guest, commandPage, bridge.consumed, owned, sent, accepted>>

(* A message with a number is none of the markers.                         *)
LEMMA NumberedIsMessage ==
  ASSUME CommandInv, NEW p \in 1..Len(sent)
  PROVE  Numbered(p) \notin {Zero, Garbage} /\ sent[p] \in Commands
<1>1. sent[p] \in Commands /\ p \in Nat
  BY LenProperties DEF CommandInv
<1>2. Numbered(p) \in [sequence : Nat, command : Commands]
  BY <1>1 DEF Numbered
<1> QED BY <1>1, <1>2, MessageAssumption

LEMMA KeptNext ==
  ASSUME CommandInv, RoomInv, QueueInv, KeptInv, [Next]_vars PROVE KeptInv'
<1> SUFFICES ASSUME faults'.damage = 0
             PROVE  CountersInv' /\ HandInv' /\ OwnedInv' /\ WaitingInv'
  BY DEF KeptInv
<1>0. /\ Slots \in Nat \ {0} /\ MaxSequence \in Nat \ {0}
      /\ Len(sent) \in Nat /\ Len(owned) \in Nat /\ Len(accepted) \in Nat
      /\ bridge.consumed \in Nat
  BY GpuAssumption, LenProperties DEF CommandInv, Bridges
<1>a. faults.damage = 0 /\ ~Damage
  <2>1. ASSUME Damage PROVE FALSE
    BY <2>1 DEF Damage, Fault, QueueInv
  <2>2. CASE Faulty
    BY <2>1, <2>2 DEF Faulty, ReadFails, WriteFails, Fault, QueueInv
  <2>3. CASE faults' = faults
    BY <2>1, <2>3
  <2>4. CASE Guest \/ Copying \/ Process \/ Batching \/ Watching \/ Replying \/ UNCHANGED vars
    <3>1. faults' = faults
      BY <2>4 DEF Guest, Copying, Process, Batching, Watching, Replying, GuestEncode, GuestFill,
         GuestPublish, GuestReceive, BridgeAcquire, BridgeCopy, BridgeConsumed, Submitting,
         SubmitControlBatch, SealControl, ReleaseControl, ResetDevice, ExpireDispatches,
         CompleteDispatch, Report, TakeResponse, TakeCompletion, TakeOutput, ReplyFill,
         ReplyPublish, vars
    <3> QED BY <2>3, <3>1
  <2> QED BY <2>2, <2>4 DEF Next
<1>b. CountersInv /\ HandInv /\ OwnedInv /\ WaitingInv
  BY <1>a DEF KeptInv
<1>c. guest.published <= Len(sent) /\ Len(sent) <= guest.published + 1
  BY <1>0, <1>b DEF HandInv, CountersInv
<1>1. ASSUME NEW c \in Commands, GuestEncode(c) PROVE CountersInv' /\ HandInv' /\ OwnedInv' /\ WaitingInv'
  <2>1. /\ guest' = [guest EXCEPT !.message = [sequence |-> Len(sent) + 1, command |-> c]]
        /\ guest.message = Zero /\ sent' = Append(sent, c)
        /\ UNCHANGED <<commandPage, bridge, owned, accepted>>
    BY <1>1 DEF GuestEncode
  <2>2. /\ Len(sent') = Len(sent) + 1 /\ sent'[Len(sent) + 1] = c
        /\ \A i \in 1..Len(sent) : sent'[i] = sent[i]
    BY <2>1, AppendProperties DEF CommandInv
  <2>3. /\ guest'.message = [sequence |-> Len(sent) + 1, command |-> c]
        /\ guest'.published = guest.published /\ guest'.reserved = guest.reserved
        /\ guest'.poisoned = guest.poisoned
    BY <2>1 DEF CommandInv, Guests
  <2>4. guest.published = Len(sent) /\ guest.reserved = 0
    BY <1>b, <2>1 DEF HandInv
  <2>5. \A p \in 1..Len(sent) : Numbered(p)' = Numbered(p)
    BY <2>2 DEF Numbered
  <2>6. guest'.message = Numbered(Len(sent))'
    BY <2>2, <2>3 DEF Numbered
  <2>7. guest'.message # Zero
    <3>1. guest'.message \in [sequence : Nat, command : Commands]
      BY <1>0, <2>3
    <3> QED BY <3>1, MessageAssumption
  <2>8. HandInv'
    BY <1>0, <2>2, <2>3, <2>4, <2>6, <2>7 DEF HandInv
  <2>9. CountersInv'
    BY <1>b, <2>1, <2>3 DEF CountersInv
  <2>10. OwnedInv'
    <3>1. \A k \in 1..Len(owned) : Len(accepted) + k \in 1..Len(sent)
      BY <1>0, <1>b, <1>c DEF OwnedInv, CountersInv
    <3> QED BY <1>b, <2>1, <2>5, <3>1 DEF OwnedInv
  <2>11. WaitingInv'
    <3>1. \A p \in (bridge.consumed + 1)..guest.published : p \in 1..Len(sent)
      BY <1>0, <1>b, <2>4 DEF CountersInv
    <3> QED BY <1>b, <2>1, <2>3, <2>5, <3>1 DEF WaitingInv
  <2> QED BY <2>8, <2>9, <2>10, <2>11
<1>2. CASE GuestFill
  <2> DEFINE t == SlotOf(guest.published + 1)
  <2>1. /\ guest' = [guest EXCEPT !.reserved = guest.published + 1] /\ guest.message # Zero
        /\ commandPage' = [commandPage EXCEPT !.slots[t] = guest.message]
        /\ guest.published - commandPage.consumed < Slots
        /\ UNCHANGED <<bridge, owned, sent, accepted>>
    BY <1>2 DEF GuestFill, CanReserve, history
  <2>2. /\ guest'.message = guest.message /\ guest'.published = guest.published
        /\ guest'.reserved = guest.published + 1 /\ guest'.poisoned = guest.poisoned
    BY <2>1 DEF CommandInv, Guests
  <2>3. t \in 1..Slots
    BY <1>b, SlotInRange DEF CountersInv
  <2> HIDE DEF t
  <2>4. /\ commandPage'.published = commandPage.published
        /\ commandPage'.consumed = commandPage.consumed
        /\ commandPage'.slots = [commandPage.slots EXCEPT ![t] = guest.message]
    BY <2>1 DEF CommandInv, Pages
  <2>5. /\ commandPage'.slots[t] = guest.message
        /\ \A s \in 1..Slots \ {t} : commandPage'.slots[s] = commandPage.slots[s]
    BY <2>3, <2>4 DEF CommandInv, Pages
  <2>6. \A p \in 1..Len(sent) : Numbered(p)' = Numbered(p)
    BY <2>1 DEF Numbered
  <2>7. CountersInv'
    BY <1>b, <2>1, <2>2, <2>4 DEF CountersInv
  <2>8. HandInv'
    <3>1. guest.published + 1 <= commandPage.consumed + Slots
      BY <1>0, <1>b, <2>1 DEF CountersInv
    <3>2. guest.message = Numbered(Len(sent)) /\ guest.published + 1 = Len(sent)
      BY <1>b, <2>1 DEF HandInv
    <3> QED BY <2>1, <2>2, <2>4, <2>5, <3>1, <3>2 DEF HandInv, Numbered, t
  <2>9. OwnedInv'
    BY <1>b, <2>1 DEF OwnedInv, Numbered
  <2>10. WaitingInv'
    <3> SUFFICES ASSUME NEW p \in (bridge.consumed + 1)..guest.published
                 PROVE  commandPage'.slots[SlotOf(p)] = Numbered(p)
      BY <2>1, <2>2 DEF WaitingInv, Numbered
    <3> DEFINE q == p - 1
    <3>0. /\ guest.published \in Nat /\ commandPage.consumed \in Nat
          /\ commandPage.consumed <= bridge.consumed
          /\ guest.published - commandPage.consumed < Slots
      BY <1>b, <2>1 DEF CountersInv
    <3>1. q \in Nat /\ q < guest.published /\ guest.published - q < Slots /\ p = q + 1
      BY <1>0, <3>0
    <3> HIDE DEF q
    <3>2. SlotOf(p) # t /\ SlotOf(p) \in 1..Slots
      BY <1>b, <3>1, SlotsApart, SlotInRange DEF t, CountersInv
    <3> QED BY <1>b, <2>5, <3>2 DEF WaitingInv
  <2> QED BY <2>7, <2>8, <2>9, <2>10
<1>3. CASE GuestPublish
  <2>1. /\ guest.reserved # 0 /\ commandPage.published = guest.published
        /\ UNCHANGED <<bridge, owned, sent, accepted>>
    BY <1>3, <1>b DEF GuestPublish, CountersInv, history
  <2>2. /\ commandPage' = [commandPage EXCEPT !.published = guest.reserved]
        /\ guest' = [guest EXCEPT !.published = guest.reserved, !.reserved = 0, !.message = Zero]
    BY <1>3, <2>1 DEF GuestPublish
  <2>3. /\ guest'.published = guest.reserved /\ guest'.reserved = 0 /\ guest'.message = Zero
        /\ guest'.poisoned = guest.poisoned
        /\ commandPage'.published = guest.reserved /\ commandPage'.consumed = commandPage.consumed
        /\ commandPage'.slots = commandPage.slots
    BY <2>2 DEF CommandInv, Guests, Pages
  <2>4. /\ guest.reserved = guest.published + 1 /\ guest.message # Zero
        /\ guest.reserved <= commandPage.consumed + Slots
        /\ commandPage.slots[SlotOf(guest.reserved)] = guest.message
        /\ guest.message = Numbered(Len(sent)) /\ guest.reserved = Len(sent)
    BY <1>b, <2>1 DEF HandInv
  <2>5. CountersInv'
    BY <1>0, <1>b, <2>1, <2>3, <2>4 DEF CountersInv
  <2>6. HandInv'
    BY <2>1, <2>3, <2>4 DEF HandInv
  <2>7. OwnedInv'
    BY <1>b, <2>1 DEF OwnedInv, Numbered
  <2>8. WaitingInv'
    <3> SUFFICES ASSUME NEW p \in (bridge.consumed + 1)..guest.reserved
                 PROVE  commandPage.slots[SlotOf(p)] = Numbered(p)
      BY <2>1, <2>3 DEF WaitingInv, Numbered
    <3>1. CASE p = guest.reserved
      BY <2>4, <3>1
    <3>2. CASE p # guest.reserved
      <4>1. p \in (bridge.consumed + 1)..guest.published
        BY <1>0, <1>b, <2>4, <3>2 DEF CountersInv
      <4> QED BY <1>b, <4>1 DEF WaitingInv
    <3> QED BY <3>1, <3>2
  <2> QED BY <2>5, <2>6, <2>7, <2>8
<1>4. CASE BridgeCopy
  <2> DEFINE m == commandPage.slots[SlotOf(bridge.consumed + 1)]
  <2>1. /\ bridge.pc = "acquired" /\ owned' = Append(owned, m)
        /\ bridge' = [bridge EXCEPT !.pc = "copied", !.consumed = @ + 1]
        /\ UNCHANGED <<guest, commandPage, sent, accepted>>
    BY <1>4 DEF BridgeCopy, history
  <2>2. bridge'.consumed = bridge.consumed + 1
    BY <2>1 DEF CommandInv, Bridges
  <2>3. bridge.consumed < guest.published
    BY <1>b, <2>1 DEF RoomInv, CountersInv
  <2>4. m = Numbered(bridge.consumed + 1)
    <3>1. bridge.consumed + 1 \in (bridge.consumed + 1)..guest.published
      BY <1>0, <1>b, <2>3 DEF CountersInv
    <3> QED BY <1>b, <3>1 DEF WaitingInv
  <2> HIDE DEF m
  <2>5. /\ Len(owned') = Len(owned) + 1 /\ owned'[Len(owned) + 1] = m
        /\ \A k \in 1..Len(owned) : owned'[k] = owned[k]
    <3>1. owned \in Seq(Messages \cup {m}) /\ m \in Messages \cup {m}
      BY DEF CommandInv
    <3> QED BY <2>1, <3>1, AppendProperties
  <2>6. CountersInv'
    BY <1>0, <1>b, <2>1, <2>2, <2>3 DEF CountersInv
  <2>7. HandInv'
    BY <1>b, <2>1 DEF HandInv, Numbered
  <2>8. OwnedInv'
    <3>1. bridge'.consumed = Len(accepted) + Len(owned')
      BY <1>0, <1>b, <2>2, <2>5 DEF OwnedInv
    <3>2. ASSUME NEW k \in 1..Len(owned') PROVE owned'[k] = Numbered(Len(accepted) + k)
      <4>1. CASE k \in 1..Len(owned)
        BY <1>b, <2>5, <4>1 DEF OwnedInv
      <4>2. CASE k = Len(owned) + 1
        <5>1. bridge.consumed + 1 = Len(accepted) + k
          BY <1>0, <1>b, <4>2 DEF OwnedInv
        <5> QED BY <2>4, <2>5, <4>2, <5>1
      <4> QED BY <1>0, <2>5, <4>1, <4>2
    <3> QED BY <2>1, <3>1, <3>2 DEF OwnedInv, Numbered
  <2>9. WaitingInv'
    <3>1. \A p \in (bridge'.consumed + 1)..guest.published :
            p \in (bridge.consumed + 1)..guest.published
      BY <1>0, <1>b, <2>2 DEF CountersInv
    <3> QED BY <1>b, <2>1, <3>1 DEF WaitingInv, Numbered
  <2> QED BY <2>6, <2>7, <2>8, <2>9
<1>5. CASE BridgeConsumed \/ WriteFails
  <2>1. UNCHANGED <<guest, owned, sent, accepted>>
    BY <1>5 DEF BridgeConsumed, WriteFails, history
  <2>2. bridge'.consumed = bridge.consumed
    BY <1>5 DEF BridgeConsumed, WriteFails, Poison, CommandInv, Bridges
  <2>3. commandPage' \in {commandPage, [commandPage EXCEPT !.consumed = bridge.consumed]}
    BY <1>5 DEF BridgeConsumed, WriteFails
  <2>4. /\ commandPage'.published = commandPage.published
        /\ commandPage'.slots = commandPage.slots
        /\ commandPage'.consumed \in {commandPage.consumed, bridge.consumed}
    BY <2>3 DEF CommandInv, Pages
  <2>5. CountersInv'
    BY <1>0, <1>b, <2>1, <2>2, <2>4 DEF CountersInv
  <2>6. HandInv'
    <3>1. commandPage.consumed <= commandPage'.consumed
      BY <1>0, <1>b, <2>4 DEF CountersInv
    <3>2. commandPage.consumed \in Nat /\ commandPage'.consumed \in Nat
      BY <1>0, <1>b, <2>4 DEF CountersInv
    <3>3. guest.reserved # 0 => guest.reserved <= commandPage'.consumed + Slots
      BY <1>0, <1>b, <3>1, <3>2 DEF HandInv, CountersInv
    <3> QED BY <1>b, <2>1, <2>4, <3>3 DEF HandInv, Numbered
  <2>7. OwnedInv' /\ WaitingInv'
    BY <1>b, <2>1, <2>2, <2>4 DEF OwnedInv, WaitingInv, Numbered
  <2> QED BY <2>5, <2>6, <2>7
<1>6. CASE Process
  <2> DEFINE m == Head(owned)
  <2>1. /\ owned # <<>> /\ owned' = Tail(owned) /\ UNCHANGED <<guest, commandPage, bridge, sent>>
        /\ accepted' = IF Authentic(m) THEN Append(accepted, m.command) ELSE accepted
    BY <1>6 DEF Process
  <2>2. /\ Len(owned') = Len(owned) - 1 /\ Len(owned) # 0 /\ m = owned[1]
        /\ \A k \in 1..Len(owned') : owned'[k] = owned[k + 1]
    BY <2>1, HeadTailProperties, EmptySeq DEF CommandInv
  <2>3. m = Numbered(Len(accepted) + 1) /\ Len(accepted) + 1 \in 1..Len(sent)
    BY <1>0, <1>b, <1>c, <2>2 DEF OwnedInv, CountersInv
  <2> HIDE DEF m
  <2>4. Authentic(m) /\ m.command \in Commands
    BY <2>3, NumberedIsMessage DEF Authentic, Numbered
  <2>5. Len(accepted') = Len(accepted) + 1
    BY <2>1, <2>4, AppendProperties DEF CommandInv
  <2>6. OwnedInv'
    <3>1. bridge.consumed = Len(accepted') + Len(owned')
      BY <1>0, <1>b, <2>2, <2>5 DEF OwnedInv
    <3>2. ASSUME NEW k \in 1..Len(owned') PROVE owned'[k] = Numbered(Len(accepted') + k)
      <4>1. k + 1 \in 1..Len(owned) /\ Len(accepted) + (k + 1) = Len(accepted') + k
        BY <1>0, <2>2, <2>5
      <4>2. owned[k + 1] = Numbered(Len(accepted) + (k + 1))
        BY <1>b, <4>1 DEF OwnedInv
      <4> QED BY <2>2, <4>1, <4>2
    <3> QED BY <2>1, <3>1, <3>2 DEF OwnedInv, Numbered
  <2>7. CountersInv' /\ HandInv' /\ WaitingInv'
    BY <1>b, <2>1 DEF CountersInv, HandInv, WaitingInv, Numbered
  <2> QED BY <2>6, <2>7
<1>7. CASE UNCHANGED keptVars
  BY <1>7, <1>b DEF keptVars, CountersInv, HandInv, OwnedInv, WaitingInv, Numbered
<1>8. CASE BridgeAcquire \/ ReplyFill \/ ReplyPublish \/ ReadFails
  <2>1. UNCHANGED keptVars
    BY <1>8 DEF BridgeAcquire, ReplyFill, ReplyPublish, ReadFails, Poison, history, keptVars,
                CommandInv, Bridges
  <2> QED BY <1>7, <2>1
<1>9. CASE GuestReceive \/ Batching \/ Watching \/ TakeResponse \/ TakeCompletion \/ TakeOutput
             \/ UNCHANGED vars
  <2>1. UNCHANGED keptVars
    BY <1>9 DEF GuestReceive, Batching, Submitting, SubmitControlBatch, SealControl,
         ReleaseControl, Watching, ResetDevice, ExpireDispatches, CompleteDispatch, Report,
         TakeResponse, TakeCompletion, TakeOutput, keptVars, transport, history, vars
  <2> QED BY <1>7, <2>1
<1> QED BY <1>a, <1>1, <1>2, <1>3, <1>4, <1>5, <1>6, <1>8, <1>9
        DEF Next, Guest, Copying, Replying, Faulty

(* Short of writes to the command page outside of the protocol, no command *)
(* is lost, torn, repeated or overtaken on its way from the guest to the   *)
(* service, for rings of any size, however publish and consume_command     *)
(* interleave and whichever access of the bridge fails.                    *)
THEOREM CommandsAreKept == Spec => []CommandsKept
<1> DEFINE AllInv == CommandInv /\ WorkInv /\ BufferInv /\ RoomInv /\ QueueInv /\ KeptInv
<1>1. AllInv => CommandsKept
  BY DEF KeptInv, CountersInv, OwnedInv, WaitingInv, CommandsKept
<1>2. Init => AllInv
  BY CommandInit, WorkInit, BufferInit, RoomInit, KeptInit
<1>3. AllInv /\ [Next]_vars => AllInv'
  <2>1. QueueInv => Len(sent) < MaxSequence
    BY DEF QueueInv
  <2> QED BY <2>1, CommandNext, WorkNext, BufferNext, RoomNext, QueueNext, KeptNext
<1> HIDE DEF AllInv
<1> QED BY <1>1, <1>2, <1>3, PTL DEF Spec
=============================================================================
