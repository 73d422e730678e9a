---------------------------- MODULE OwnershipSlot ----------------------------
(***************************************************************************)
(* What an OwnershipMailbox promises its callers: a slot for one           *)
(* non-copyable ticket.  A ticket moves from one processor into the empty  *)
(* slot, from the full slot to one processor, or is destroyed with the     *)
(* slot.  It is never copied and never lost.                               *)
(***************************************************************************)
CONSTANTS Procs,    \* the processors that share the slot
          Tickets   \* the values that are moved

VARIABLES held,     \* held[p]: the tickets processor p owns
          box,      \* the set of tickets in the slot, at most one
          dropped   \* the tickets destroyed together with the slot

avars == <<held, box, dropped>>

AInit == /\ held \in [Procs -> SUBSET Tickets]
         /\ \A t \in Tickets : \E p \in Procs : t \in held[p]
         /\ \A p, q \in Procs : p # q => held[p] \cap held[q] = {}
         /\ box = {}
         /\ dropped = {}

MoveIn(p, t) == /\ t \in held[p]
                /\ box = {}
                /\ held' = [held EXCEPT ![p] = @ \ {t}]
                /\ box' = {t}
                /\ UNCHANGED dropped

MoveOut(p, t) == /\ box = {t}
                 /\ box' = {}
                 /\ held' = [held EXCEPT ![p] = @ \cup {t}]
                 /\ UNCHANGED dropped

Destroy == /\ box # {}
           /\ dropped' = dropped \cup box
           /\ box' = {}
           /\ UNCHANGED held

ANext == \/ \E p \in Procs, t \in Tickets : MoveIn(p, t) \/ MoveOut(p, t)
         \/ Destroy

ASpec == AInit /\ [][ANext]_avars

\* Ownership is linear: every ticket is owned by exactly one processor, or is
\* in the slot, or was destroyed, and never two of these.
Linear ==
    /\ \A t \in Tickets : (\E p \in Procs : t \in held[p]) \/ t \in box \/ t \in dropped
    /\ \A p, q \in Procs : p # q => held[p] \cap held[q] = {}
    /\ \A p \in Procs : held[p] \cap box = {} /\ held[p] \cap dropped = {}
    /\ box \cap dropped = {}
=============================================================================
