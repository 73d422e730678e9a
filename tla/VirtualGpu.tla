----------------------------- MODULE VirtualGpu -----------------------------
(***************************************************************************)
(* The virtual GPU of crates/mrml-kernel/src/virtual_gpu.rs: a guest, the  *)
(* two pages it shares with the virtual machine monitor, the bridge that   *)
(* copies between those pages and kernel-owned queues, and the GPU service *)
(* that authenticates commands, keeps the tables of GpuTables and reports  *)
(* back.                                                                   *)
(*                                                                         *)
(* The guest and the service run in parallel, so every access to a shared  *)
(* page is a step: the guest fills a slot and then publishes it, the       *)
(* bridge reads the counter, reads the slot and then writes its own        *)
(* counter.  The service is one thread; a call it makes is one step where  *)
(* it touches no shared page.                                              *)
(*                                                                         *)
(* A message is a record with its sequence number.  Zero stands for an     *)
(* erased slot and Garbage for bytes whose tag does not verify.  A queue   *)
(* sender numbers its messages without gaps, so its next_sequence is one   *)
(* more than the length of the history of what it encoded, and likewise    *)
(* for what a receiver accepted.                                           *)
(***************************************************************************)
EXTENDS GpuTables

CONSTANTS Slots,          \* N of the rings, shared and owned
          BufferSlots, WatchdogSlots, ControlSlots,
          MaxSequence,    \* u64::MAX, for sequences and ring positions
          MaxTime,        \* bound on the ticks passed to the watchdog
          MaxFaults,      \* bound on failed accesses and writes outside of the protocol
          Sizes,          \* lengths a guest asks for
          Batches,        \* batches a guest may have sealed
          None, Zero, Garbage

ASSUME GpuAssumption ==
  /\ {Slots, BufferSlots, WatchdogSlots, ControlSlots, MaxSequence} \subseteq Nat \ {0}
  /\ {MaxTime, MaxFaults} \subseteq Nat
  /\ Sizes \subseteq Nat \ {0}
  /\ \A batch \in Batches : batch \in Seq(ToSet(batch))

VARIABLES
  guest,        \* GpuGuestCommandPublisher: published, reserved, poisoned; message in hand
  commandPage,  \* shared, guest-writable: published, consumed, slots
  replyPage,    \* shared, read-only for the guest: published, slots
  bridge,       \* GpuVmmQueueBridge: pc, consumed, published, poisoned
  owned,        \* GpuCommandRing
  session, controls, watchdog,
  job,          \* the control buffer of an accepted SubmitBatch, or None
  responses,    \* GpuCompletionRing that takes resource responses
  completions,  \* GpuCompletionRing that takes dispatch completions
  outputs,      \* completions returned to the caller by the watchdog
  outgoing,     \* the message the service is about to publish, or Zero
  sent,         \* commands encoded by the guest, in order
  accepted,     \* commands the service authenticated, in order
  responseLog, completionLog,   \* what the service encoded, in order
  received,     \* what the guest's receivers accepted, in order
  executed,     \* dispatches that became, or may have become, visible to the GPU
  finished,     \* dispatches the device itself reported finished
  faults        \* failed accesses and writes outside of the protocol so far

transport == <<guest, commandPage, replyPage, bridge, owned>>
tables == <<session, controls, watchdog, job>>
replies == <<responses, completions, outputs, outgoing>>
history == <<sent, accepted, responseLog, completionLog, received, executed, finished>>
vars == <<transport, tables, replies, history, faults>>

BufferIds == [slot : 1..BufferSlots, generation : 1..MaxGeneration]
ControlIds == [slot : 1..ControlSlots, generation : 1..MaxGeneration]
(* The answer to a release carries a byte count; it stands here for the    *)
(* buffer, which the guest knows from the request it answers.              *)
Replies == [result : {"allocated", "freed"}, buffer : BufferIds] \cup [result : {"rejected"}]
Commands == [op : {"allocate"}, bytes : Sizes] \cup [op : {"free"}, buffer : BufferIds]
              \cup [op : {"submit"}, control : ControlIds]

ASSUME NoneAssumption == None \notin Replies
ASSUME MessageAssumption ==
  /\ Zero \notin [sequence : Nat, command : Commands]
  /\ Garbage \notin [sequence : Nat, command : Commands]

SlotOf(position) == ((position - 1) % Slots) + 1
Encodable(log, count) == Len(log) + 1 + count <= MaxSequence
EmptyPage == [published |-> 0, consumed |-> 0, slots |-> [s \in 1..Slots |-> Zero]]

Init ==
  /\ guest = [published |-> 0, reserved |-> 0, poisoned |-> FALSE, message |-> Zero]
  /\ commandPage = EmptyPage /\ replyPage = EmptyPage
  /\ bridge = [pc |-> "idle", consumed |-> 0, published |-> 0, poisoned |-> FALSE]
  /\ session = [buffers |-> EmptyTable(BufferSlots), allocated |-> 0]
  /\ controls = EmptyTable(ControlSlots)
  /\ watchdog = EmptyTable(WatchdogSlots)
  /\ job = None /\ outgoing = Zero /\ executed = {} /\ finished = {}
  /\ faults = [access |-> 0, damage |-> 0]
  /\ owned = <<>> /\ responses = <<>> /\ completions = <<>> /\ outputs = <<>>
  /\ sent = <<>> /\ accepted = <<>> /\ responseLog = <<>> /\ completionLog = <<>>
  /\ received = <<>>
---------------------------------------------------------------------------
(* The guest *)

(* A guest frees buffers it was told of, perhaps more than once, and names *)
(* control buffers that are sealed when it encodes the command.            *)
Known == {received[i].body.buffer : i \in {j \in DOMAIN received :
            received[j].kind = "response" /\ received[j].body.result = "allocated"}}

(* GpuQueueSender::encode; the guest keeps the message until it is         *)
(* published, since encoding it again would use another sequence number.   *)
GuestEncode(c) ==
  /\ guest.message = Zero /\ Encodable(sent, 1)
  /\ c.op = "free" => c.buffer \in Known
  /\ c.op = "submit" => Holds(controls, c.control)
  /\ guest' = [guest EXCEPT !.message = [sequence |-> Len(sent) + 1, command |-> c]]
  /\ sent' = Append(sent, c)
  /\ UNCHANGED <<commandPage, replyPage, bridge, owned, tables, replies, faults,
                 accepted, responseLog, completionLog, received, executed, finished>>

(* Mutant of CanReserve: one message more than the page has slots. *)
MutCanReserveLapping(published, consumed) == published - consumed <= Slots
(* GpuRingProducer::reserve *)
CanReserve(published, consumed) ==
  consumed <= published /\ published - consumed < Slots /\ published < MaxSequence

(* GpuGuestCommandPublisher::publish up to the copy into the slot *)
GuestFill ==
  /\ guest.message # Zero /\ ~guest.poisoned /\ guest.reserved = 0
  /\ CanReserve(guest.published, commandPage.consumed)
  /\ guest' = [guest EXCEPT !.reserved = guest.published + 1]
  /\ commandPage' = [commandPage EXCEPT !.slots[SlotOf(guest.published + 1)] = guest.message]
  /\ UNCHANGED <<replyPage, bridge, owned, tables, replies, history, faults>>

(* the compare-exchange and the commit; a counter somebody else changed    *)
(* erases the slot and poisons the publisher.                              *)
GuestPublish ==
  /\ guest.reserved # 0 /\ ~guest.poisoned
  /\ IF commandPage.published = guest.published
       THEN /\ commandPage' = [commandPage EXCEPT !.published = guest.reserved]
            /\ guest' = [guest EXCEPT !.published = guest.reserved, !.reserved = 0,
                                      !.message = Zero]
       ELSE /\ commandPage' = [commandPage EXCEPT !.slots[SlotOf(guest.reserved)] = Zero]
            /\ guest' = [guest EXCEPT !.poisoned = TRUE]
  /\ UNCHANGED <<replyPage, bridge, owned, tables, replies, history, faults>>

ReceivedOf(kind) == SelectSeq(received, LAMBDA m : m.kind = kind)

(* The guest waits for the next position of the reply page and decodes     *)
(* its slot with the receiver of the message's kind.                       *)
GuestReceive ==
  /\ Len(received) < replyPage.published
  /\ LET m == replyPage.slots[SlotOf(Len(received) + 1)]
     IN /\ m.sequence = Len(ReceivedOf(m.kind)) + 1
        /\ received' = Append(received, m)
  /\ UNCHANGED <<transport, tables, replies, faults, sent, accepted, responseLog,
                 completionLog, executed, finished>>
---------------------------------------------------------------------------
(* GpuVmmQueueBridge, driven by the service thread *)

Idle == bridge.pc = "idle" /\ ~bridge.poisoned
Fault(kind) ==
  /\ faults.access + faults.damage < MaxFaults
  /\ faults' = [faults EXCEPT ![kind] = @ + 1]
Poison == bridge' = [bridge EXCEPT !.poisoned = TRUE, !.pc = "idle"]

(* GpuRingConsumer::acquire *)
CanAcquire(published, consumed) == published > consumed /\ published - consumed <= Slots

(* consume_command reads the counter and takes a ticket ... *)
BridgeAcquire ==
  /\ Idle
  /\ CanAcquire(commandPage.published, bridge.consumed) /\ Len(owned) < Slots
  /\ bridge' = [bridge EXCEPT !.pc = "acquired"]
  /\ UNCHANGED <<guest, commandPage, replyPage, owned, tables, replies, history, faults>>

(* ... copies the slot into the owned ring and releases the ticket ... *)
BridgeCopy ==
  /\ bridge.pc = "acquired"
  /\ owned' = Append(owned, commandPage.slots[SlotOf(bridge.consumed + 1)])
  /\ bridge' = [bridge EXCEPT !.pc = "copied", !.consumed = @ + 1]
  /\ UNCHANGED <<guest, commandPage, replyPage, tables, replies, history, faults>>

(* ... and writes the consumed counter for the guest. *)
BridgeConsumed ==
  /\ bridge.pc = "copied"
  /\ commandPage' = [commandPage EXCEPT !.consumed = bridge.consumed]
  /\ bridge' = [bridge EXCEPT !.pc = "idle"]
  /\ UNCHANGED <<guest, replyPage, owned, tables, replies, history, faults>>

(* The consumed counter of the reply page is never written: the page is    *)
(* mapped read-only for the guest and the bridge does not write it.        *)
RepliesConsumed == replyPage.consumed

(* publish_completion: the slot first ... *)
ReplyFill ==
  /\ Idle /\ outgoing # Zero
  /\ CanReserve(bridge.published, RepliesConsumed)
  /\ replyPage' = [replyPage EXCEPT !.slots[SlotOf(bridge.published + 1)] = outgoing]
  /\ bridge' = [bridge EXCEPT !.pc = "filled"]
  /\ UNCHANGED <<guest, commandPage, owned, tables, replies, history, faults>>

(* ... then the counter, then the producer's commit. *)
ReplyPublish ==
  /\ bridge.pc = "filled"
  /\ replyPage' = [replyPage EXCEPT !.published = bridge.published + 1]
  /\ bridge' = [bridge EXCEPT !.pc = "idle", !.published = @ + 1]
  /\ outgoing' = Zero
  /\ UNCHANGED <<guest, commandPage, owned, tables, responses, completions, outputs,
                 history, faults>>

(* A failed read of guest memory poisons the bridge. *)
ReadFails ==
  /\ Fault("access") /\ ~bridge.poisoned /\ bridge.pc \in {"idle", "acquired"}
  /\ Poison
  /\ UNCHANGED <<guest, commandPage, replyPage, owned, tables, replies, history>>

(* So does a failed write, which may have reached memory all the same. *)
WriteFails ==
  /\ Fault("access") /\ Poison
  /\ \/ /\ bridge.pc = "copied"
        /\ commandPage' \in {commandPage, [commandPage EXCEPT !.consumed = bridge.consumed]}
        /\ UNCHANGED replyPage
     \/ /\ bridge.pc = "filled"
        /\ replyPage' \in {replyPage, [replyPage EXCEPT !.published = bridge.published + 1]}
        /\ UNCHANGED commandPage
  /\ UNCHANGED <<guest, owned, tables, replies, history>>

(* The command page is writable outside the protocol: a published slot     *)
(* changes to garbage or to an older message before it is read, or the     *)
(* counter runs ahead of what was written.                                 *)
Damage ==
  /\ Fault("damage")
  /\ \/ \E s \in {SlotOf(p) : p \in (bridge.consumed + 1)..commandPage.published} :
          \E m \in {Garbage} \cup {[sequence |-> i, command |-> sent[i]] : i \in DOMAIN sent} :
            /\ m # commandPage.slots[s]
            /\ commandPage' = [commandPage EXCEPT !.slots[s] = m]
     \/ /\ commandPage.published < MaxSequence
        /\ commandPage' = [commandPage EXCEPT !.published = @ + 1]
  /\ UNCHANGED <<guest, replyPage, bridge, owned, tables, replies, history>>
---------------------------------------------------------------------------
(* The service: resource commands *)

(* Mutant of Authentic: the sequence number is not compared. *)
MutAuthenticUnnumbered(m) == m \notin {Zero, Garbage}
(* GpuQueueReceiver::decode *)
Authentic(m) == m \notin {Zero, Garbage} /\ m.sequence = Len(accepted) + 1

Response(request, r) ==
  [kind |-> "response", sequence |-> Len(responseLog) + 1, request |-> request, body |-> r]

(* the capacity reserved before a command is consumed *)
MayProcess == Len(responses) < Slots /\ Encodable(responseLog, 1)

(* The session the command leaves behind and the response it gets; None    *)
(* for SubmitBatch, which is answered by completions.  BenchmarkAdd, which *)
(* touches none of the tables, is left out.                                *)
Outcome(c) ==
  CASE c.op = "allocate" /\ CanAllocate(session, c.bytes) ->
         [session |-> Allocate(session, c.bytes),
          reply |-> [result |-> "allocated",
                     buffer |-> IdAt(session.buffers, Min(FreeSlots(session.buffers)))]]
    [] c.op = "free" /\ Holds(session.buffers, c.buffer) ->
         [session |-> FreeBuffer(session, c.buffer),
          reply |-> [result |-> "freed", buffer |-> c.buffer]]
    [] c.op = "submit" -> [session |-> session, reply |-> None]
    [] OTHER -> [session |-> session, reply |-> [result |-> "rejected"]]

(* process_gpu_resource_command_with_response *)
Process ==
  /\ Idle /\ job = None /\ owned # <<>> /\ MayProcess
  /\ owned' = Tail(owned)
  /\ LET m == Head(owned)
         c == m.command
         o == Outcome(c)
         r == Response(Len(accepted) + 1, o.reply)
     IN IF ~Authentic(m)
          THEN UNCHANGED <<session, job, accepted, responses, responseLog>>
          ELSE /\ accepted' = Append(accepted, c)
               /\ session' = o.session
               /\ job' = IF c.op = "submit" THEN c.control ELSE None
               /\ responses' = IF o.reply = None THEN responses ELSE Append(responses, r)
               /\ responseLog' = IF o.reply = None THEN responseLog ELSE Append(responseLog, r)
  /\ UNCHANGED <<guest, commandPage, replyPage, bridge, controls, watchdog,
                 completions, outputs, outgoing, sent, completionLog, received, executed,
                 finished, faults>>
---------------------------------------------------------------------------
(* The service: batches *)

(* ControlBufferTable::{seal, release}, called by the service on behalf of *)
(* the guest                                                               *)
SealControl(batch) ==
  /\ Idle /\ FreeSlots(controls) # {}
  /\ controls' = Occupied(controls, Min(FreeSlots(controls)), batch)
  /\ UNCHANGED <<transport, session, watchdog, job, replies, history, faults>>

ReleaseControl(id) ==
  /\ Idle /\ Holds(controls, id)
  /\ controls' = Retired(controls, id.slot)
  /\ UNCHANGED <<transport, session, watchdog, job, replies, history, faults>>

(* Completions for the dispatches ids of a batch, with their requests *)
CompletionsFor(ids, requests, status) ==
  [i \in DOMAIN ids |-> [kind |-> "completion", sequence |-> Len(completionLog) + i,
                         id |-> ids[i], request |-> requests[i], status |-> status]]

(* ControlBufferTable::verify: the bytes in shared memory are those that   *)
(* were sealed (equal digests stand for equal bytes).                      *)
Verified(id, bytes) == Holds(controls, id) /\ controls[id.slot].data = bytes

(* submit_gpu_control_batch before it touches the watchdog: the bytes      *)
(* decode against the session, and every completion has room and a         *)
(* sequence number.                                                        *)
MaySubmit(batch) ==
  /\ DecodesAgainst(session, batch)
  /\ Len(completions) + Len(batch) <= Slots /\ Encodable(completionLog, Len(batch))

(* What the signed bundle and the executor decide: a batch whose schema or *)
(* proof does not verify is refused before anything reaches the GPU, and a *)
(* driver error leaves it unknown how much of the batch ran.               *)
Verdicts == {"refused", "uncertain", "done"}

(* cancel_batch after this verdict? *)
Cancels(verdict) == verdict = "refused"

(* Identities of a minted batch after the verdict *)
Submit(verdict, begun, batch) ==
  LET done == CompletionsFor(begun.ids, [i \in DOMAIN batch |-> batch[i].request], "success")
  IN /\ watchdog' = IF verdict = "done" \/ Cancels(verdict)
                      THEN CancelBatch(begun.table, ToSet(begun.ids))
                      ELSE begun.table
     /\ executed' = IF verdict = "refused" THEN executed ELSE executed \cup ToSet(begun.ids)
     /\ completions' = IF verdict = "done" THEN completions \o done ELSE completions
     /\ completionLog' = IF verdict = "done" THEN completionLog \o done ELSE completionLog

(* submit_gpu_control_batch *)
SubmitControlBatch(bytes, now, deadline) ==
  /\ Idle /\ job # None
  /\ job' = None
  /\ LET batch == controls[job.slot].data
     IN IF ~(Verified(job, bytes) /\ MaySubmit(batch))
          THEN UNCHANGED <<watchdog, executed, completions, completionLog>>
          ELSE LET begun == BeginBatch(watchdog, batch, now, deadline)
               IN IF begun.ok
                    THEN \E verdict \in Verdicts : Submit(verdict, begun, batch)
                    ELSE /\ watchdog' = begun.table
                         /\ UNCHANGED <<executed, completions, completionLog>>
  /\ UNCHANGED <<transport, session, controls, responses, outputs, outgoing, faults,
                 sent, accepted, responseLog, received, finished>>
---------------------------------------------------------------------------
(* The service: the watchdog *)

(* Completions in slot order for the dispatches in slots *)
InSlotOrder(slots) ==
  [i \in 1..Cardinality(slots) |->
     CHOOSE s \in slots : Cardinality({t \in slots : t <= s}) = i]

WatchdogCompletions(slots, status) ==
  LET order == InSlotOrder(slots)
  IN CompletionsFor([i \in DOMAIN order |-> IdAt(watchdog, order[i])],
                    [i \in DOMAIN order |-> watchdog[order[i]].data.request], status)

Report(slots, status) ==
  /\ Idle /\ slots # {} /\ Encodable(completionLog, Cardinality(slots))
  /\ watchdog' = RetireAll(watchdog, slots)
  /\ outputs' = outputs \o WatchdogCompletions(slots, status)
  /\ completionLog' = completionLog \o WatchdogCompletions(slots, status)
  /\ UNCHANGED <<transport, session, controls, job, responses, completions, outgoing,
                 sent, accepted, responseLog, received, executed, finished, faults>>

ExpireDispatches(now) == Report(Expired(watchdog, now), "timed out")
ResetDevice == Report(LiveSlots(watchdog), "device reset")

(* Mutant of CompleteDispatch: the generation is not compared. *)
MutCompleteDispatchBySlot(id) ==
  /\ Idle /\ id \in executed /\ watchdog[id.slot].occupied
  /\ watchdog' = Retired(watchdog, id.slot)
  /\ finished' = finished \cup {id}
  /\ UNCHANGED <<transport, session, controls, job, replies, sent, accepted, responseLog,
                 completionLog, received, executed, faults>>

(* DispatchTable::complete with the identity the device presents, of a     *)
(* dispatch it was given at some time: it is accepted only while that very *)
(* identity is live.  The request id goes to the caller; no completion is  *)
(* encoded.                                                                *)
CompleteDispatch(id) ==
  /\ Idle /\ id \in executed /\ Holds(watchdog, id)
  /\ watchdog' = Retired(watchdog, id.slot)
  /\ finished' = finished \cup {id}
  /\ UNCHANGED <<transport, session, controls, job, replies, sent, accepted, responseLog,
                 completionLog, received, executed, faults>>
---------------------------------------------------------------------------
(* The next message to publish: dequeued from one of the completion rings, *)
(* or one of those the watchdog left with its caller.                      *)
TakeResponse ==
  /\ Idle /\ outgoing = Zero /\ responses # <<>>
  /\ outgoing' = Head(responses) /\ responses' = Tail(responses)
  /\ UNCHANGED <<transport, tables, completions, outputs, history, faults>>

TakeCompletion ==
  /\ Idle /\ outgoing = Zero /\ completions # <<>>
  /\ outgoing' = Head(completions) /\ completions' = Tail(completions)
  /\ UNCHANGED <<transport, tables, responses, outputs, history, faults>>

TakeOutput ==
  /\ Idle /\ outgoing = Zero /\ outputs # <<>>
  /\ outgoing' = Head(outputs) /\ outputs' = Tail(outputs)
  /\ UNCHANGED <<transport, tables, responses, completions, history, faults>>
---------------------------------------------------------------------------
Guest == (\E c \in Commands : GuestEncode(c)) \/ GuestFill \/ GuestPublish \/ GuestReceive
Copying == BridgeAcquire \/ BridgeCopy \/ BridgeConsumed
Replying == TakeResponse \/ TakeCompletion \/ TakeOutput \/ ReplyFill \/ ReplyPublish
Ticks == 0..MaxTime
Submitting == \E bytes \in Batches \cup {Garbage}, now \in Ticks, deadline \in Ticks :
                SubmitControlBatch(bytes, now, deadline)
Batching == \/ Submitting
            \/ \E batch \in Batches : SealControl(batch)
            \/ \E id \in ControlIds : ReleaseControl(id)
Watching == \/ ResetDevice
            \/ \E now \in Ticks : ExpireDispatches(now)
            \/ \E id \in executed : CompleteDispatch(id)
Faulty == ReadFails \/ WriteFails \/ Damage
Next == Guest \/ Copying \/ Process \/ Batching \/ Watching \/ Replying \/ Faulty

Spec == Init /\ [][Next]_vars
---------------------------------------------------------------------------
TypeOK ==
  /\ guest \in [published : 0..MaxSequence, reserved : 0..MaxSequence, poisoned : BOOLEAN,
                message : {Zero} \cup [sequence : 1..MaxSequence, command : Commands]]
  /\ bridge \in [pc : {"idle", "acquired", "copied", "filled"}, consumed : 0..MaxSequence,
                 published : 0..MaxSequence, poisoned : BOOLEAN]
  /\ DOMAIN commandPage.slots = 1..Slots /\ DOMAIN replyPage.slots = 1..Slots
  /\ \A q \in {owned, responses, completions} : Len(q) <= Slots
  /\ \A log \in {sent, accepted, responseLog, completionLog} : Len(log) < MaxSequence
  /\ faults \in [access : 0..MaxFaults, damage : 0..MaxFaults]
  /\ job \in ControlIds \cup {None}

(* The commands the service executes are the first ones the guest encoded, *)
(* in order and each of them once, whatever happens to the shared page and *)
(* to the bridge's accesses to it: ring tickets, the poisoned flags and    *)
(* GpuQueueReceiver::decode together.                                      *)
CommandsInOrder == IsPrefix(accepted, sent)

Numbered(p) == [sequence |-> p, command |-> sent[p]]

(* Short of writes to the command page outside of the protocol, no command *)
(* is lost, torn, repeated or overtaken between the guest and the service: *)
(* what the bridge has consumed is what was accepted and then what waits in*)
(* the owned ring, and every position that is published and not consumed   *)
(* still holds its command, whatever the interleaving of publish and       *)
(* consume_command and whichever access of the bridge failed.              *)
CommandsKept ==
  faults.damage = 0 =>
    /\ commandPage.published = guest.published
    /\ bridge.consumed = Len(accepted) + Len(owned)
    /\ \A k \in 1..Len(owned) : owned[k] = Numbered(Len(accepted) + k)
    /\ \A p \in (bridge.consumed + 1)..guest.published :
         commandPage.slots[SlotOf(p)] = Numbered(p)

CompletedIds == {completionLog[i].id : i \in DOMAIN completionLog}

(* Work the GPU may have seen is never lost and never reported twice: every*)
(* dispatch that was or may have been executed either still holds its      *)
(* watchdog identity, or has exactly one completion, or was accepted from  *)
(* the device without one, and nothing else is; in particular an identity  *)
(* presented late never retires the dispatch that reuses its slot.         *)
WorkAccounted ==
  /\ LiveIds(watchdog) \cup CompletedIds \cup finished = executed
  /\ LiveIds(watchdog) \cap (CompletedIds \cup finished) = {}
  /\ CompletedIds \cap finished = {}
  /\ \A i, j \in DOMAIN completionLog :
       completionLog[i].id = completionLog[j].id => i = j

Reported(result) == {responseLog[i].body.buffer : i \in {j \in DOMAIN responseLog :
                                                     responseLog[j].body.result = result}}

(* The bytes of the live buffers, summed up slot by slot. *)
BytesLive(t) ==
  LET sum[k \in 0..BufferSlots] ==
        IF k = 0 THEN 0 ELSE sum[k - 1] + (IF t[k].occupied THEN t[k].data ELSE 0)
  IN sum[BufferSlots]

(* No resource changes hands unreported: the live buffers of the session   *)
(* are those whose allocation was reported to the guest and whose release  *)
(* was not, no identity is reported twice, and the session's byte count    *)
(* stays exact and within the quota.                                       *)
ResourcesReported ==
  /\ LiveIds(session.buffers) = Reported("allocated") \ Reported("freed")
  /\ session.allocated = BytesLive(session.buffers)
  /\ session.allocated <= Quota
  /\ Cardinality({i \in DOMAIN responseLog : responseLog[i].body.result = "allocated"})
       = Cardinality(Reported("allocated"))
=============================================================================
