# TLA+ models of the MRML kernel and runtime

The repository is a Rust workspace without third-party dependencies: a
microkernel (`crates/mrml-kernel`, `crates/mrml-kernel-image`), launchers for it
(KVM, WHP, UEFI), a hosted runtime, and applications on top of that (codecs, a
compiler, tensors, an agent, a server). The part of it whose correctness is a
matter of *state and interleaving* is the kernel core (tasks, capabilities, IPC,
services, the migration of tasks between processors), the virtual GPU that a guest,
a bridge and a service share, the worker pool with the channel it sleeps on, and the
model state that concurrent text generations share. Those parts are modelled here;
the inventory below says what the rest is and why it is left out.

Paths are relative to `src/`; `scheduler.rs`, `task_runtime.rs`, `capability.rs`,
`ipc.rs` and `service_lifecycle.rs` are in `crates/mrml-kernel/src/`, the image is
`crates/mrml-kernel-image/src/main.rs`.

## 1. Inventory

| component | state it keeps | operations | hard behaviour | what makes it correct |
|---|---|---|---|---|
| `OwnershipMailbox<T>` (`scheduler.rs`) | an atomic byte, the bytes of one `T` | `publish`, `take`, `Drop` | lock-free, `unsafe` moves, memory ordering | a ticket has exactly one owner; the bytes are accessed exclusively and in order |
| `Scheduler`, `KernelScheduler` (`scheduler.rs`) | task array with generations and budgets, cursor, current task, quantum | `create`, `start`, `timer_tick`, `yield_current`, `block_current`, `terminate_current`, `wake`, `migrate_to`, `rebalance_to`, `detach`, `attach`, ... | identities reused after removal, moves between processors, weighted round robin | current task live and runnable; stale ids stay stale; no task lost or copied; nobody starves |
| `PeriodicBalancer` (`scheduler.rs`) | deadline, last tick, cursor | `poll` | late ticks, end of the counter, ties | no bursts, lightest peer, rotation |
| `CapabilitySpace` (`capability.rs`), `Message::transfer`, `Endpoint` (`ipc.rs`) | entries with generations, next sequence number | `insert`, `authorize`, `derive`, `revoke`, `transfer`, `authorize_send` | partial failure, handle reuse, delegation chains | rights only shrink; a failed send grants nothing; stale handles stay stale |
| wire format and `Receiver` (`ipc.rs`) | expected sequence number | `encode`, `decode` | unreliable transport | accepted = sent, in order, once |
| `TaskRuntime` (`task_runtime.rs`) | a scheduler and an array of domains (context, capability space, inbox) | system calls, faults, preemption, IPC delivery, detach and attach of domains | two arrays kept in step; wakeups; inbox ring | one revocation domain; no lost wakeup; FIFO |
| `PeriodicDomainBalancer` (`task_runtime.rs`), reschedule handler (image) | a pending ticket; mailboxes, request flags, published loads shared by the processors | `timer_tick_and_publish`, `mrml_reschedule_dispatch` | several processors, stale loads, retries, signals | every domain in one place; every ticket signalled once and taken |
| `ServiceSupervisor` (`service_lifecycle.rs`) | service records with generation, task, policy, restart tick | `register_with_policy`, `exit_current_at`, `fault_current_at`, `restart_at` | crash loops, backoff, the end of time | running means live; budget and backoff kept |
| virtual GPU (`virtual_gpu.rs`) | guest publisher, two shared pages, bridge, owned rings, session, control buffers, watchdog | encode, publish, consume, process, seal, submit, expire, reset, complete, reply | two parties on one page without a lock, failed accesses, damaged memory, uncertain work, deadline against late completion | commands run once, in order, and are not lost on the way; work and buffers accounted for |
| worker pool (`crates/mrml-tensor/src/parallel.rs`) on `OnceCell` and channel (`crates/mrml-runtime/src`) | once cell, queue, epoch, sleepers | `get_or_init`, `send`, `recv`, `for_each_range` | racing first calls, lost wake-ups, borrowed stack used by other threads | built once; every index once; no borrow outlived; every call returns |
| text generation (`crates/mrml-tensor/src/{engine,model}.rs`, `crates/mrml-model/src/engine.rs`) | state of a generation, prefix cache, KV rows and hidden vector on the device, response channel | `init_generation_state`, `step_generation`, `emit`, cancel | requests interleave between calls, device state shared by all | a token depends on its own request's tokens |
| virtual machines (`vm.rs`, `vm_dispatch.rs`, `vm_interrupt.rs`) | VM table, guest regions, hypercall sequence | create, load, run, stop, fail, map, route | sequential; called by unit tests and a benchmark only | not modelled |
| boot trust chain, page tables, traps | images, tables, frames | one-shot checks, layout | little: straight-line code that halts on any surprise | not modelled |
| launchers, agent, server, TLS, SSH, codecs, compiler, tensor kernels, crypto, git | | | parsers and sequential computation | not modelled |

Interaction. A processor owns one `TaskRuntime`; the runtime owns its
`KernelScheduler` and the domains, and calls `CapabilitySpace`, `Message` and
`Endpoint` for IPC. `ServiceSupervisor` is called by the system-call and fault
handlers and calls the runtime. Processors share only the mailboxes, the request
flags `AP_RESCHEDULE_REQUEST` and the loads `AP_SCHEDULER_LOAD`: a domain leaves
one processor as a `DetachedTaskDomain` through a mailbox, an inter-processor
interrupt tells the other to take it.

A guest and the GPU service share two pages: the guest writes commands to one, the
bridge copies them to a ring the service owns, and writes responses and completions
to the other. On the host, the server runs a thread per connection; each starts
generations on one engine, whose model is behind a mutex and whose numeric work goes
through `for_each_range` to the worker pool.

`PROJECT.json` lists under `hazards` what is hard to test in this code, at the
line where it bites, with the properties that would catch it.

## 2. Modules

```
OwnershipSlot  <--- implements ---  OwnershipMailbox
Scheduler <- KernelScheduler <- KernelSchedulerProofs (and of OwnershipMailbox)
   ^
Runtime -> Capability <- CapabilitySpace <- MCIpc (and of IpcWire),
   ^                                        CapabilitySpaceProofs (and of IpcWire)
   ^---- TaskRuntime <- MCTaskRuntime, TaskRuntimeProofs
   ^---- ServiceSupervisor <- MCServiceSupervisor, ServiceSupervisorProofs
   ^---- DomainMigration <- DomainMigrationProofs (and of PeriodicBalancer)
   |           \--> Balance <- PeriodicBalancer                  IpcWire
   ^---- RuntimeProofs: lemmas on Scheduler, Capability and Runtime, extended by
         KernelScheduler-, CapabilitySpace-, TaskRuntime-, ServiceSupervisor- and
         DomainMigrationProofs
GpuTables <- VirtualGpu <- MCVirtualGpu, VirtualGpuProofs
WorkerPool <- WorkerPoolProofs           Generation <- MCGeneration
```

`Scheduler`, `Capability`, `Runtime`, `Balance` and `GpuTables` have no variables: they say what
each method leaves of the value it is called on, with the method's name
(`TerminateCurrent(s)`, `Transfer(source, destination, requested)`,
`AttachDomain(r, ticket)`). The state machines apply them, so the same definition of
`timer_tick` is checked alone, inside a runtime and on three processors.
A method that returns an error without changing anything is a stuttering step; a
method that changes something before it fails (`transfer`, `send_ipc`, `arm_restart`,
`poll` at the end of the counter) is modelled with the change.

**OwnershipMailbox.** `state` is the atomic byte, `slot` the bytes. `publish` is
`PublishClaim` (compare-exchange), `PublishWrite` (plain write), `PublishFull`
(release store); `take` likewise; a failed exchange is `PublishOccupied` or
`TakeNone`. Memory ordering: `synced` is the set of processors for which every
earlier plain access happens-before what they do next, `carried` that the value of
`state` was stored with Release by one of them. A plain access by another processor
is a data race: it reads or leaves anything. `OwnershipSlot` is what the callers
may rely on: a ticket moves in, moves out, or is destroyed with the slot. The
refinement mapping makes `publish` take effect at its release store and `take` at
its compare-exchange.

**Scheduler, KernelScheduler.** A task is a record of generation, state, priority,
budget and occupied flag; generation 0 is a slot whose generations are used up
(`checked_add(1).unwrap_or(0)`). `SelectReplacement` is `schedule`,
`select_with_budget` and `select_replacement` together. `KernelScheduler` has a
scheduler for each processor, the detached tickets in transit, and two history
variables. `WakeTask` is called the way `deliver_ipc` calls `wake`, by the running
task for another one. A load passed to `DetachForRebalance` is any load: it is a
snapshot of unknown age.

**Capability, CapabilitySpace.** Rights are sets. `Transfer` folds over the requests
and undoes what it created when one fails; `SendResult` is `send_ipc`'s order,
transfer first and authorization second.

**IpcWire.** A word stands for an 8-byte token and for a payload byte, so only the
header says where one part ends. The transport is external: it loses, repeats,
reorders, truncates and extends frames and flips constant bytes. The format has no
checksum, so a transport that rewrites the other fields is outside of what `decode`
can notice. `Receiver` is used by tests only today.

**Runtime, TaskRuntime.** A domain is its task's id, page table, capability space and
the two-message inbox ring with `head`, `tail` and `count`. The registers of a
`UserContext` are left out; the page table is kept because it tells whose context is
where. `DetachDomain` takes the domain out of its slot and puts it back when the
scheduler rejects the detach, as it does for the current task; the kernel may ask for
any live task. The actions are the system calls (`YieldCall`, `TerminateCall`, `DeliverCall`,
`SendCall`, `ReceiveCall`), the interrupts (`IdleTick`, `PreemptTick`) and what the
kernel does from outside.

**Balance, PeriodicBalancer.** `Balance` is the choice `poll` makes; `PeriodicBalancer`
adds the tick arithmetic with a finite tick type.

**DomainMigration.** Per processor: a runtime, a mailbox (an `OwnershipSlot`), the
balancer's pending ticket, the published load, the request flag. One tick of
`timer_tick_and_publish` is one of `RetryTick`, `QuietTick`, `BalanceTick`; raising
the request is a step of its own (`RaiseRequest`), and so are the three parts of the
handler, `Reschedule`, `Take` and `Admit`. The code halts where the request is
already raised or the handler finds no ticket; `SignalPerTicket` shows that neither
happens. It is the periodic-balance build: the other builds yield after admitting.

**ServiceSupervisor.** The records over a `Runtime`; the clock is the runtime's tick
counter, passed to the `_at` forms. `register_with_policy` does not look at the task;
as its callers do, the model registers a live task once.

**GpuTables, VirtualGpu.** The watchdog, the session's buffers and the control buffers
are three tables with the same generational identities. Every access to a shared page
is a step: `GuestFill` writes a slot and `GuestPublish` exchanges the counter;
`BridgeAcquire` reads the counter, `BridgeCopy` the slot, `BridgeConsumed` writes the
counter back; `ReplyFill` and `ReplyPublish` are `publish_completion`. The service is
one thread, so `Process` (`process_gpu_resource_command_with_response`),
`SubmitControlBatch`, `ExpireDispatches` and `ResetDevice` are one step each. A message
is a record; `Garbage` is whatever fails authentication. Faults are a failed read or
write by the bridge, which poisons it (a failed write may have reached memory), and
writes to the command page outside of the protocol: garbage, an old message, a counter
that runs ahead. The launchers stop at the first bridge error, so a poisoned bridge
ends the service. What the signed bundle, the schemas and the executor say of a batch
is one of three verdicts: refused, done, or uncertain, after which the device may
complete its dispatches much later: `CompleteDispatch` is `DispatchTable::complete` with
any identity the device was ever given. Responses and completions leave their rings in
order (`TakeResponse`, `TakeCompletion`); what `expire_with_completions` returns is
published by its caller, which is not in the repository and may do so at any time
(`TakeOutput`). The consumed counter of the reply page is never written: the page is read-only for the
guest and the bridge does not write it.

**WorkerPool.** Each call of `for_each_range` and each worker is a thread. A section
under the channel's lock that touches only the queue is one step; the epoch, the wake
and the kernel's compare-and-sleep are steps of their own. Of the epoch the model keeps
for each receiver whether it has changed since the receiver read it. The kernel wakes
any one sleeper, and may wake a thread for no reason. `minimum_chunk` is 1, the lengths
are 1 (run inline) and 3 (two ranges of different size). A panic aborts the process.

**Generation.** A KV row and a hidden vector are represented by the tokens they were
computed from, or `Mixed`. With `OnDevice` the rows and the last hidden vector are
variables of the model, shared by the requests, and a request's cache holds `Empty`
markers; the flag `ready` is `gpu_normalized_ready`. `InitGeneration` and
`StepGeneration` are one step each, since the mutex is held for the call. Prompts
longer than the 32 tokens the host path looks back are outside of the bound.

## 3. Runs

| run | what it checks | bounds, and why they are enough |
|---|---|---|
| `mailbox` | `ExclusiveAccess`, `LinearOwnership`, `ClaimReleased`, refinement `ImplementsSlot` | 3 processors: two race a third; 2 tickets: one finds the slot occupied |
| `scheduler` | `CurrentIsRunnable`, `StaleNeverRevives`, `TasksConserved`, `BudgetWithinWeight`, `WorkConserving`, `QuiescentFairness` | 2 processors of 2 slots, priorities 0 and 1, 3 live tasks: one processor can be full while the other has room and tasks of different weights wait for each other; 1 generation, so a slot is used up by its first removal |
| `scheduler_starvation` | `NoStarvation` is **violated** | 1 processor of 3 slots, priorities 0 and 1, quantum 2: two tasks wake each other while a third waits |
| `ipc` | `NoAmplification`, `FailedSendGrantsNothing`, `StaleUntilWrap`; `DeliveredIsPrefix`, `AcceptedMeansSent` | the capability spaces and the wire format, which share no state, each explored with the other at rest. 2 spaces of 2 slots, 2 objects, messages with up to 2 capabilities: the second fails after the first was created; 2 revocations, so that a slot is reused while an old handle is still presented. 2 messages of at most one token (of two slots) and one byte, both in flight, enough for a loss, a replay and a reordering; the last sequence number is reached |
| `task_runtime` | `OneRevocationDomain`, `NoLostWakeup`, `InboxFifo`, `AddressSpacesDistinct`, `AuthorityOnlySent` | 2 task slots, 3 page tables, 1 capability slot, inboxes of 2 and 3 sequence numbers: the ring wraps and fills, the last number is refused after its capability was derived, a received handle without DELEGATE is presented again |
| `balancer` | `NoBursts`, `RotatesEqualPeers` | 4 processors of capacity 2: three peers of equal or different load; 10 ticks, interval 2: late polls and the end of the counter |
| `migration` | `OnePlacePerDomain`, `SignalPerTicket`, `PoliciesAgree`, `TicketTaken` | 3 processors of 2 slots, 3 domains, of which 2 processors create: two publishers meet at one mailbox, a destination fills up |
| `services` | `RunningMeansLive`, `RetiredStaysStopped`, `RestartBudget`, `BackoffKept` | 2 services, 2 policies, 3 task generations, 4 service generations, 6 ticks: budgets, generations and time all run out |
| `services_overflow` | `OverflowFailsClosed` is **violated** | the same instance; a stop at the last tick is enough |
| `gpu` | `CommandsInOrder`, `WorkAccounted`, `ResourcesReported`, `CommandsKept` | rings of 2 slots and 3 sequence numbers, so slots are reused and numbers run out; 2 buffers of which the quota allows one; one batch of two dispatches for a watchdog of 2 slots with 2 generations, so it fills up while uncertain work is live; 3 ticks; 2 failed accesses and 2 writes outside of the protocol, anywhere |
| `worker_pool` | `BorrowOutlivesUse`, `EachIndexOnce`, `PoolBuiltOnce`, liveness `EveryCallReturns` | 2 calls that race for the initialisation, 2 workers, lengths 1 and 3: two sleepers on one channel, messages of two calls in one queue |
| `generation` | `SampledFromOwnContext` is **violated** | 3 requests, one of which extends the prompt of another, 1 token each |

`mailbox` (`MTypeOK`) and `scheduler` (`TypeOK`) also check the type invariant, which is
proved for them; the other modules define it for the reader and for proofs. Every property has a
mutant of the modelled code in `PROJECT.json` (a definition `Mut...` next to the one
it replaces) under which TLC finds it violated.

The bounds are named constants: `MaxLive`, `MaxGrants`, `MaxRevocations`,
`MaxTickets`, `MaxFrames`, `MaxFaults`, `MaxTime` limit the exploration; `MaxGeneration`, `MaxCapGeneration`,
`MaxServiceGeneration`, `MaxSequence`, `LastSequence` and `MaxTick` stand for the ends of the
integer types, and the code's behaviour there is part of the model. Page tables and
holders of capability spaces are symmetric where a run declares it; no liveness
property is checked under symmetry.

Fairness. `mailbox`: a processor inside `publish` or `take` finishes, since both are
straight-line code; nobody has to call. `scheduler`: the local APIC timer
keeps firing on every processor; no task is assumed to yield, block, exit or wake
another. `migration`: a handler that started is finished and an interrupt that was
sent arrives; the timers need not fire. A destination without room keeps the ticket
in its handler's hand (in the image it halts), which `TicketTaken` allows for. `gpu` has
no fairness: the launchers serve one command and stop, so the repository has no service
loop that could be assumed to visit its queues, and the run checks safety only.
`worker_pool`: the
operating system runs every thread that can run (weak fairness for each thread); a
spurious wake-up never has to happen, so no call returns thanks to one. `gpu`,
`worker_pool` and `generation` may stop: when no thread has anything to do, and when the guest sends
nothing more.

## 4. What the violations show

- *Starvation* (`scheduler.rs:364`: "Priorities affect CPU share but cannot
  completely starve a lower-priority runnable task"). `set_state` refills an
  exhausted budget on every wake, also of a task that is runnable; other tasks'
  budgets are refilled only when nobody has any left. Two tasks that keep sending to
  each other never run out, and a third whose budget is 0 is never selected. What
  holds is `QuiescentFairness`: once arrivals and wakes cease, everybody gets a turn.
  `BudgetWithinWeight` bounds what a task has left until its next refill, and says
  nothing of how often it is refilled.
- *The end of time* (`docs/MICROKERNEL.md:819`: "Time overflow occurs only after the
  retiring domain has been revoked and fails closed"). When `now + delay` does not fit
  the counter, `arm_restart` returns `TimeExhausted` before it assigns the restart tick
  (`service_lifecycle.rs:318`). The domain is revoked, but the record keeps the due tick
  of an earlier stop, or 0, so `restart_at` succeeds at once. What holds is `BackoffKept`,
  while the due tick fits. The unit test of the overflow does not try to restart.
- *Shared device state* (`model.rs:2642`: "GPU KV rows are held in the model's
  persistent buffers; the Empty row markers preserve their logical positions here";
  `crates/mrml-tensor/src/sync.rs:3`: "Mutable model state guarded by `MrmlEngine`'s
  outer model mutex"). Every generation ends with a `forward_token` that leaves its
  hidden vector on the device and `gpu_normalized_ready` set. `prefill_cuda` changes
  neither, so the first token of the next request is sampled from the previous
  request's vector: five states, without any interleaving. With interleaving, two
  requests also overwrite each other's KV rows, since the mutex is held for one call
  and the `Empty` markers do not say whose row they stand for. With `OnDevice` set to
  FALSE (the host build) the same instance has no violation.

A remark on the end of an integer type, which the passing runs stop short of:
`capability.rs:147` wraps the generation of a revoked slot, where `Scheduler::remove`
retires the slot, so a handle is valid again after 2^32 - 1 revocations.
`StaleUntilWrap` states the guarantee that remains.

And three on the virtual GPU, for which no property is stated. A `SubmitBatch` whose
control buffer, deadline or schema is refused (`virtual_gpu.rs:1742`) produces neither a
response nor a completion, so the guest cannot tell it from one that is still running.
The reply page carries as many messages as it has slots in the lifetime of a session,
because nobody advances its consumed counter (`virtual_gpu.rs:686`). And completions of
timeouts carry numbers of the same sender as those in the ring, so a caller that
publishes them out of that order has some of them refused by the guest
(`virtual_gpu.rs:174`).

## 5. Proofs

The theorems hold for every value of the constants, under the assumptions named in
the modules that declare them, which TLC evaluates on every run:

| assumption | says |
|---|---|
| `NobodyAssumption` | the value for uninitialised bytes is no ticket |
| `SchedulerAssumption`, `PrioritiesAssumption` | capacity, generation limit and quantum are positive; the priorities are among the four that exist |
| `CapabilityAssumption`, `EndpointAssumption`, `RightsAssumption`, `BoundsAssumption` | tables and generations are not empty, `NoObject` is no object, rights are among those that exist, the bounds of the run are numbers |
| `PagesAssumption`, `TaskRuntimeAssumption`, `SupervisorAssumption` | `NoPage` is no page table; the parameters of the actions have their types |
| `BalanceAssumption`, `MigrationAssumption` | at least two processors, a positive capacity and interval, and the policy's capacity is the scheduler's, as in the image |
| `PeriodicBalancerAssumption`, `WireAssumption` | the processor that polls is one of them, ticks, lengths and sequence numbers are numbers |
| `TablesAssumption`, `GpuAssumption`, `NoneAssumption`, `MessageAssumption` | rings and tables are not empty, a guest asks for a positive number of bytes, a batch is a sequence, no response is taken for the absence of one, and no message for zeroed or damaged bytes |
| `PoolAssumption` | callers, workers and the pool's channel are different things, there is a worker, and the numbers are numbers |

Three proof modules hold the theorems of two components and extend both. The second
one's specification has names of its own for that: `MSpec` of `OwnershipMailbox`,
`PSpec` of `PeriodicBalancer`, `WSpec` of `IpcWire`, and their parts likewise.

Every theorem has the same shape: an inductive invariant, checked first as an
invariant of the component's run, one step of the proof per action, and the property
as a consequence. What each invariant adds to its property is the interesting part.

**RuntimeProofs** holds what the other kernel proofs share. Of each scheduler
operation: it keeps the type and `SchedInv` (the current task is live and runnable, an
occupied slot has a generation, budgets are within weights), and it `Evolves` the
scheduler (generations never decrease, a removed identity is behind its slot's
generation). `CandidateIsValid`: the task `rebalance_candidate` chooses is a live one
that is not running. Of each runtime operation: it keeps `RuntimeInv(r, next)`, and it
changes the domains in one of four ways, named there: none moved (`SamePages`), one
came (`Arrived`), one went (`Left`), or one received a message. `RuntimeInv` says that
the domains are the live tasks, slot by slot (`DomainsAreTasks`), that no blocked task
has a message (`NoneAsleepWithMail`), and that an inbox is a ring of ascending message
numbers below `next`, the next number of the endpoint: without the bound a new message
could break the order. It says nothing about the capability spaces, which may hold
anything. Of `Transfer`, which is a loop: after any number of requests, every slot is as
before or holds a new entry derived from an entry of the sender with no more rights,
and the undo after a failure empties exactly the new ones. It is shown for a recursive
function, by the least number of requests for which it would fail.

**KernelSchedulerProofs** combines the scheduler lemmas for every processor.
`StaleNeverRevives` says nothing of a slot that is free, so the inductive invariant
also says that every retired identity is `Past`: its slot's generation is larger, or
0 for good. From it follow `TypeCorrect`, `CurrentStaysRunnable`, `StaleStaysStale`
and `BudgetStaysWithinWeight`. `TasksAreConserved` counts: `live` is the number of
tickets in transit and of (processor, identity) pairs in the tables. For a detach to
add one ticket, the ticket must not be in transit already: `CountInv` says that the
source identity of every ticket in transit is `Past`, and the identity just detached
is not. The number of processors need not be finite.

**OwnershipMailbox**, in the same module. The inductive invariant `MInv` is `MTypeOK`, `OneInside`
and `RealTicket`. Exclusive access is not inductive by itself: one must know that the
atomic byte names the call of the processor inside (WRITING or READING), that the
processor inside is `synced`, and that the byte's value is always `carried`, which
is what the Release stores keep up and the Acquire exchanges use. Linear ownership
also needs that the ticket in motion is real and is no longer in its mover's hand. From
the invariant: `MailboxTypeCorrect`, `AccessIsExclusive`, and `MailboxImplementsSlot`, one step of
the proof per access; `Linear` is proved invariant in the abstract slot and carried
over by the refinement, which gives `OwnershipIsLinear`.

**CapabilitySpaceProofs.** From the lemmas on `Transfer` follow
`DelegationAttenuates` (with `Attenuated`: every entry's object and rights are
covered by what was granted by the kernel) and `FailedSendsGrantNothing`, an action
property. `RevokedStaysStale` needs to know how far a generation has come (`StaleInv`):
as long as a slot has seen fewer revocations since that of a handle than there are
generations, its generation is the handle's moved on by that number (`Moved`, which
wraps), and so is another one than the handle's.

**IpcWire**, in the same module. A frame in flight is the encoding of a message that was
sent, under the number it was sent with, or that encoding damaged; and the receiver has
exactly the messages below the number it expects (`WireInv`). What remains is that
`Decode` undoes `Encode` and refuses every damaged frame: the header fixes the length, so
a truncated or extended frame and a flipped constant word are noticed. `DeliveryIsExact`
and `DecodeIsExact` follow, for messages of any length.

**TaskRuntimeProofs.** `RuntimeInv` with the endpoint's next number, the same for the
domains in detached tickets, and `PagesApart`: the page tables of the runtime and
of the tickets are all different. It gives `RevocationIsOne`, `WakeupsAreKept`,
`InboxesAreFifo` (for the code's inbox of two messages) and `AddressSpacesStayApart`.
`AuthorityIsSent` is about steps: a domain, identified by its page table, whether it is
resident or in a ticket, has a handle it did not have before only if the kernel granted
that handle to it, or if another domain, the current one, sent a message in which
nobody else's handles changed and holds no less on the same object together with
DELEGATE. It needs the shape of every capability space (`SpacesInv`), what a send does
to the spaces (`CapsSent`, from the lemmas on `Transfer`), and that address spaces are
apart, so that the receiver is not the sender. A detach that is rejected leaves the
runtime as it was (`RejectedDetach`).

**DomainMigrationProofs.** The invariant has four parts: the shape of every variable
(`Shapes`), `RuntimeInv` of every runtime and its like for every ticket, with the target
of a pending ticket not its owner (`Domains`), `Signalled`, and `OnePlace`. `Signalled(d)`
says in which of the stages towards `d` a full mailbox is: the publisher is about to
raise the request, or the request is raised, or `d` serves it; exactly one of these
if there is a ticket, none otherwise. This is why the handler never finds its mailbox
empty and no request is raised twice, though tickets for one processor come from any
of the others. `OnePlace` is kept over an abstract function `Where` from places
(tables, mailboxes, balancers, hands) to page tables, so that each action only says
which place it fills and which it empties. `PolicyAndSchedulerAgree` also needs two
facts about the choices: the policy's target is a peer with less load and with room
(three least elements after each other), and a scheduler with two runnable tasks has a
candidate (by cardinality). `DomainsHaveOnePlace`, `TicketsAreSignalled` and
`PolicyAndSchedulerAgree` follow, for any number of processors.

**PeriodicBalancer**, in the same module. The deadline is an interval after the last
selection, whatever ticks were passed since, which gives `SelectionsAreSpaced`; at the
end of the tick counter the deadline is beyond every tick. `PeersAreRotated` is about the
cursor: while the loads stay the same, the peers served are those of least load from some
processor up to the cursor, or all of them (`PollInv`), so the first one from the cursor
on is one not served yet.

**ServiceSupervisorProofs.** Besides `RuntimeInv`: a running record's task is live and
no two records share one (`TasksBound`); a record's generation is one more than its
restarts, which are within the policy's maximum (`Counted`); a retired instance has an
older generation than its record, or is the one that stopped last (`Outdated`); a stopped
record has its budget used up, or a deadline beyond the end of the clock, or that deadline
as its restart tick (`Armed`). The
theorems are `RunningIsLive`, `RetiredIsStopped`, `RestartsAreBounded` and
`BackoffIsKept`, the last one for deadlines within the clock.

**WorkerPoolProofs.** A caller returns when it has received as many answers as it
sent ranges, so `BorrowIsSound` needs a count: what a call still awaits is what is
queued for it, plus what workers hold of it, plus the answers in its channel
(`CountInv`). `IndicesProcessedOnce` needs that the ranges in the queue and in the
workers' hands cover the indices sent and not processed, each once (`RangeInv`).
`PoolIsBuiltOnce` rests on the once cell's three states and on who is inside its
initializer (`CellInv`). The epochs and the sleepers play no part: they matter for
progress only.

**VirtualGpuProofs.** Five invariants, of which the others rest on the first.
`CommandInv`: whatever is in the guest's hand, in a slot of the command page or in the
owned ring is a message the guest encoded, or does not authenticate; and what was accepted
are the first commands sent. That a slot is read before it is filled, twice, or after
damage then does not matter: the number decides. It gives `CommandsRunInOrder`. What
the tickets of the rings and the poisoned flags are for is `KeptInv`, about runs without
damage: guest and bridge are less than a lap apart (`CountersInv`), the guest's message
is the one after the last it published and is in the slot it reserved (`HandInv`), what
was consumed is what was accepted and then what is owned (`OwnedInv`), and every position
from there to the published counter still has its command (`WaitingInv`). A counter that
is written late, or not at all because the access failed, only makes the distance look
longer. Two positions less than a lap apart have different slots, which is arithmetic of
the remainder. It gives `CommandsAreKept`. `WorkInv`: every completed identity, and every
one accepted from the device, is `Past`, so a slot used again cannot be confused with
it; live, completed and accepted identities together are what was executed. The two loops are
`begin_batch`, shown by the least iteration that would fail (every identity it minted
names a slot that was free, each another one, so cancelling them restores what was live),
and the reports in slot order, where the rank of a slot is shown to be a bijection. It
gives `WorkIsAccounted`. `BufferInv`: an identity reported as allocated is live or past,
one reported as freed is past, so the identity a new buffer gets is in no response; the
byte count is the sum over the table, slot by slot, and an allocation or release changes
one summand. It gives `ResourcesAreReported`. `RoomInv` and `QueueInv`: what the bridge
checked when it took a ticket or reserved a slot still holds when it uses it, since nobody
else takes from the counters or adds to the rings; they give `RingsAreBounded`, the type
invariant. The proof of this one found that the model let damage push the published
counter past the end of its type; the guard it lacked is in `Damage` now.

Only model-checked, and why:

- Liveness (`ClaimReleased`, `WorkConserving`, `QuiescentFairness`, `TicketTaken`,
  `EveryCallReturns`): fairness and ENABLED are outside of the
  prover's reach.
- Induction over data is out of reach of the provers from the library's theorems. Where
  the model has a loop (`Transfer`, `begin_batch`, the sum of the buffers) the proofs use
  a recursive function and its least counterexample instead; no safety property is left
  to the model checker for this reason.

## 6. Not modelled

Payload bytes and their limits, error values, register contents, boot, page tables and
trap decoding. Of the virtual GPU: the kernel schemas and expert selections (a
verdict), `BenchmarkAdd`, cryptography (equal tags and digests stand for equal bytes).
Of the hosted runtime: collections, `Shared`, channels at their capacity. Of text
generation: what the network computes, tokenizing, sampling. Virtual machines: their
tables are sequential and no launcher uses them yet. The codecs, the compiler, the
tensor kernels, TLS, SSH, HTTP and the tools are sequential computations on data: what
they compute is not a matter of state and interleaving, and instances small enough for
a model checker say nothing about them.

A supervised task that migrates (its `TaskId` changes and the supervisor's record does
not) is not composed, since the image does not do it.

## 7. Plan

1. Proofs: the type invariants of `IpcWire`, `TaskRuntime`, `ServiceSupervisor` and
   `DomainMigration` are parts of the inductive invariants there and not yet theorems.
2. Virtual machines, once a launcher runs guests through `run_vm_once`.
3. Composition: `ServiceSupervisor` with migration.
4. Rollback protection of signed artifacts.
