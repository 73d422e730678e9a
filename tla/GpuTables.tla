----------------------------- MODULE GpuTables -----------------------------
(***************************************************************************)
(* The three fixed-capacity tables of crates/mrml-kernel/src/virtual_gpu.rs*)
(* as values: the watchdog's DispatchTable, the buffers of a               *)
(* VirtualGpuSession and the ControlBufferTable.  All of them hand out     *)
(* generational identities in the same way: the first slot that is free    *)
(* and not worn out is taken, and giving a slot back advances its          *)
(* generation, with 0 marking a slot that can never be used again.         *)
(*                                                                         *)
(* A dispatch carries a request id and a deadline, a buffer its length in  *)
(* bytes and a control buffer the batch that was sealed.  A batch is a     *)
(* sequence of dispatches [request, buffer]: of a dispatch's kernel,       *)
(* geometry, scalars and ranges only the buffer it names is kept.          *)
(***************************************************************************)
EXTENDS Integers, Sequences, FiniteSets, FiniteSetsExt, SequencesExt

CONSTANTS MaxGeneration,  \* u32::MAX
          Quota,          \* the session's byte quota
          NoData          \* what an empty slot holds

ASSUME TablesAssumption == MaxGeneration \in Nat \ {0} /\ Quota \in Nat

EmptyTable(n) == [s \in 1..n |-> [generation |-> 1, occupied |-> FALSE, data |-> NoData]]

FreeSlots(t) == {s \in DOMAIN t : ~t[s].occupied /\ t[s].generation # 0}
LiveSlots(t) == {s \in DOMAIN t : t[s].occupied}
IdAt(t, s) == [slot |-> s, generation |-> t[s].generation]
LiveIds(t) == {IdAt(t, s) : s \in LiveSlots(t)}
Holds(t, id) ==
  id.slot \in DOMAIN t /\ t[id.slot].occupied /\ t[id.slot].generation = id.generation

Occupied(t, s, d) == [t EXCEPT ![s].occupied = TRUE, ![s].data = d]
(* generation.checked_add(1).unwrap_or(0) *)
NextTableGeneration(g) == IF g = MaxGeneration THEN 0 ELSE g + 1
Retired(t, s) ==
  [t EXCEPT ![s] = [generation |-> NextTableGeneration(@.generation),
                    occupied |-> FALSE, data |-> NoData]]
---------------------------------------------------------------------------
(* DispatchTable *)

CanBegin(t, request, now, deadline) ==
  /\ deadline > now
  /\ \A s \in LiveSlots(t) : t[s].data.request # request
  /\ FreeSlots(t) # {}

Begin(t, request, deadline) ==
  Occupied(t, Min(FreeSlots(t)), [request |-> request, deadline |-> deadline])

(* cancel_batch: identities that are no longer live are skipped. *)
CancelBatch(t, ids) ==
  [s \in DOMAIN t |-> IF t[s].occupied /\ IdAt(t, s) \in ids THEN Retired(t, s)[s] ELSE t[s]]

Expired(t, now) == {s \in LiveSlots(t) : t[s].data.deadline <= now}
RetireAll(t, slots) == [s \in DOMAIN t |-> IF s \in slots THEN Retired(t, s)[s] ELSE t[s]]

(* One iteration of begin_batch; after a failure the rest is skipped. *)
BeginNext(state, entry, now, deadline) ==
  IF state.ok /\ CanBegin(state.table, entry.request, now, deadline)
    THEN LET s == Min(FreeSlots(state.table))
         IN [ok |-> TRUE,
             table |-> Begin(state.table, entry.request, deadline),
             ids |-> Append(state.ids, IdAt(state.table, s))]
    ELSE [state EXCEPT !.ok = FALSE]

BeginEach(t, batch, now, deadline) ==
  LET begun[n \in 0 .. Len(batch)] ==
        IF n = 0 THEN [ok |-> TRUE, table |-> t, ids |-> <<>>]
        ELSE BeginNext(begun[n - 1], batch[n], now, deadline)
  IN begun[Len(batch)]

(* Mutant of BeginBatch: a refused batch keeps what it began. *)
MutBeginBatchPartial(t, batch, now, deadline) == BeginEach(t, batch, now, deadline)
(* begin_batch: the identities minted before a failure are cancelled, which*)
(* uses up their generations.                                              *)
BeginBatch(t, batch, now, deadline) ==
  LET all == BeginEach(t, batch, now, deadline)
  IN IF all.ok THEN all
     ELSE [all EXCEPT !.table = CancelBatch(all.table, ToSet(all.ids))]
---------------------------------------------------------------------------
(* VirtualGpuSession: [buffers, allocated] *)

(* Mutant of CanAllocate: the quota is not asked. *)
MutCanAllocateUncounted(session, bytes) == FreeSlots(session.buffers) # {}
CanAllocate(session, bytes) ==
  /\ session.allocated + bytes <= Quota
  /\ FreeSlots(session.buffers) # {}

Allocate(session, bytes) ==
  [buffers |-> Occupied(session.buffers, Min(FreeSlots(session.buffers)), bytes),
   allocated |-> session.allocated + bytes]

FreeBuffer(session, id) ==
  [buffers |-> Retired(session.buffers, id.slot),
   allocated |-> session.allocated - session.buffers[id.slot].data]

(* GpuDispatchBatch::decode against the session: a batch is refused when   *)
(* it is empty, repeats a request or names a buffer that is not live.      *)
DecodesAgainst(session, batch) ==
  /\ batch # <<>>
  /\ \A i, j \in DOMAIN batch : batch[i].request = batch[j].request => i = j
  /\ \A i \in DOMAIN batch : Holds(session.buffers, batch[i].buffer)
=============================================================================
