----------------------------- MODULE WorkerPool -----------------------------
(***************************************************************************)
(* The worker pool of crates/mrml-tensor/src/parallel.rs on the channel    *)
(* and the once-cell of crates/mrml-runtime (channel.rs, sync.rs).         *)
(*                                                                         *)
(* Each call of for_each_range is a thread of its own: it makes sure that  *)
(* the pool exists, cuts 0..len-1 into ranges, sends one Work per range to *)
(* the pool and waits for as many messages on a channel made for the call. *)
(* The Work points to the caller's stack, so the call must not return      *)
(* while a worker may still use it.                                        *)
(*                                                                         *)
(* A channel is a queue behind a spin lock and an epoch that changes with  *)
(* every push, pop and drop; a receiver that finds the queue empty sleeps  *)
(* on the epoch, in the kernel, until it is woken.  A section that holds   *)
(* the lock and touches nothing but the queue is one step; the epoch, the  *)
(* wake-up and the compare-and-sleep of the kernel are steps of their own, *)
(* because they are observed without the lock.  The channels of the pool   *)
(* sleep at once (spin_limit 0).  Sender counts never reach zero here: the *)
(* pool keeps its sender for ever and a call keeps done_tx until it has    *)
(* all its messages.                                                       *)
(***************************************************************************)
EXTENDS Integers, Sequences, FiniteSets, FiniteSetsExt

CONSTANTS Calls, Workers,   \* threads
          Lengths,          \* len of a call
          MinimumChunk,
          Pool, Free, NoWork

ASSUME PoolAssumption ==
  /\ Calls \cap Workers = {} /\ IsFiniteSet(Workers) /\ Workers # {}
  /\ Pool \notin Calls \cup Workers /\ Free \notin Calls \cup Workers
  /\ Lengths \subseteq Nat /\ MinimumChunk \in Nat \ {0}

VARIABLES
  pc,        \* where each thread is
  cell,      \* the state of the OnceCell: 0 empty, 1 initialising, 2 set
  started,   \* how often each worker was started
  len,       \* the length of each call
  sentTo,    \* the index up to which each call has sent its ranges
  awaited,   \* messages each call still waits for
  work,      \* the Work each worker has in hand
  queue, lock, asleep,   \* the channels: one per call and one for the pool
  fresh,     \* threads whose last reading of their channel's epoch is still current
  runs       \* how often each index of each call was processed

vars == <<pc, cell, started, len, sentTo, awaited, work, queue, lock, asleep,
          fresh, runs>>
callVars == <<cell, started, len, sentTo, awaited>>
channels == <<queue, lock, asleep>>

Threads == Calls \cup Workers
Channels == Calls \cup {Pool}

Labels == {"get", "claim", "init", "drop receiver", "store", "spin", "split", "sending",
           "sent", "poll", "observe", "recheck", "wait", "popped", "bumped", "returned",
           "off", "run", "complete", "drop sender"}

(* A Work: a range of the indices of a call, and the call it points to *)
Work == [call : Calls, start : Nat, end : Nat]

TypeOK ==
  /\ pc \in [Threads -> Labels]
  /\ cell \in 0..2
  /\ started \in [Workers -> Nat]
  /\ len \in [Calls -> Lengths]
  /\ sentTo \in [Calls -> Nat]
  /\ awaited \in [Calls -> Nat]
  /\ work \in [Workers -> Work \cup {NoWork}]
  /\ DOMAIN queue = Channels
  /\ queue[Pool] \in Seq(Work)
  /\ \A c \in Calls : queue[c] \in Seq({"done"})
  /\ lock \in [Channels -> Threads \cup {Free}]
  /\ asleep \in [Channels -> SUBSET Threads]
  /\ fresh \subseteq Threads
  /\ DOMAIN runs = Calls /\ \A c \in Calls : runs[c] \in [0..(len[c] - 1) -> Nat]

Min2(a, b) == IF a < b THEN a ELSE b
DivCeil(a, b) == (a + b - 1) \div b
Jobs(n) == Min2(Cardinality(Workers), DivCeil(n, MinimumChunk))
Chunk(n) == DivCeil(n, Jobs(n))
MutEndOverlap(n, start) == Min2(start + Chunk(n) + 1, n)
RangeEnd(n, start) == Min2(start + Chunk(n), n)
Inline(n) == Cardinality(Workers) <= 1 \/ n <= MinimumChunk

Init ==
  /\ pc = [t \in Threads |-> IF t \in Calls THEN "get" ELSE "off"]
  /\ cell = 0
  /\ started = [w \in Workers |-> 0]
  /\ len \in [Calls -> Lengths]
  /\ sentTo = [c \in Calls |-> 0]
  /\ awaited = [c \in Calls |-> 0]
  /\ work = [w \in Workers |-> NoWork]
  /\ queue = [ch \in Channels |-> <<>>]
  /\ lock = [ch \in Channels |-> Free]
  /\ asleep = [ch \in Channels |-> {}]
  /\ fresh = {}
  /\ runs = [c \in Calls |-> [i \in 0..(len[c] - 1) |-> 0]]

Goto(t, label) == pc' = [pc EXCEPT ![t] = label]
Step(t, from, to) == pc[t] = from /\ Goto(t, to)

(* The epoch is only ever compared with the value a receiver read last, so *)
(* all that is kept is whether it has changed since.                       *)
Receivers(ch) == IF ch = Pool THEN Workers ELSE {ch}
NextEpoch(ch) == fresh' = fresh \ Receivers(ch)
---------------------------------------------------------------------------
(* OnceCell::get_or_init *)

CellGet(c) ==
  /\ pc[c] = "get"
  /\ Goto(c, IF cell = 2 THEN "split" ELSE "claim")
  /\ UNCHANGED <<callVars, channels, work, fresh, runs>>

MutClaimed == TRUE
(* compare_exchange(0, 1) *)
Claimed == cell = 0

CellClaim(c) ==
  /\ pc[c] = "claim"
  /\ IF Claimed THEN cell' = 1 /\ Goto(c, "init") ELSE cell' = cell /\ Goto(c, "spin")
  /\ UNCHANGED <<started, len, sentTo, awaited, channels, work, fresh, runs>>

(* The initialiser spawns the workers one after the other ... *)
SpawnWorker(c) ==
  /\ pc[c] = "init"
  /\ \E w \in Workers :
       /\ started[w] = Min({started[v] : v \in Workers})
       /\ started' = [started EXCEPT ![w] = @ + 1]
       /\ pc' = [pc EXCEPT ![w] = IF pc[w] = "off" THEN "poll" ELSE @,
                           ![c] = IF \A v \in Workers \ {w} : started[v] > started[w]
                                    THEN "drop receiver" ELSE @]
  /\ UNCHANGED <<cell, len, sentTo, awaited, channels, work, fresh, runs>>

(* ... drops the receiver they were given copies of ... *)
DropReceiver(c) ==
  /\ Step(c, "drop receiver", "store")
  /\ NextEpoch(Pool)
  /\ asleep' = [asleep EXCEPT ![Pool] = {}]
  /\ UNCHANGED <<callVars, queue, lock, work, runs>>

(* ... and the value becomes visible. *)
CellStore(c) ==
  /\ Step(c, "store", "split")
  /\ cell' = 2
  /\ UNCHANGED <<started, len, sentTo, awaited, channels, work, fresh, runs>>

CellSpin(c) ==
  /\ cell = 2 /\ Step(c, "spin", "split")
  /\ UNCHANGED <<callVars, channels, work, fresh, runs>>
---------------------------------------------------------------------------
(* Sender::send and Receiver::recv on channel ch by thread t.  The capacity*)
(* is never reached: the pool's is usize::MAX, a call's its number of jobs.*)

SendPush(t, ch, message, next) ==
  /\ lock[ch] = Free
  /\ queue' = [queue EXCEPT ![ch] = Append(@, message)]
  /\ lock' = [lock EXCEPT ![ch] = t]
  /\ Goto(t, next)
  /\ UNCHANGED <<asleep, fresh>>

Bump(t, ch, from, to) ==
  /\ lock[ch] = t /\ Step(t, from, to)
  /\ NextEpoch(ch)
  /\ UNCHANGED <<queue, lock, asleep>>

(* wake_one: the kernel picks any one sleeper. *)
WakeOne(ch) ==
  IF asleep[ch] = {} THEN UNCHANGED asleep
  ELSE \E t \in asleep[ch] : asleep' = [asleep EXCEPT ![ch] = @ \ {t}]

(* wake_one and the release of the lock *)
WakeUnlock(t, ch, from, to) ==
  /\ lock[ch] = t /\ Step(t, from, to)
  /\ WakeOne(ch)
  /\ lock' = [lock EXCEPT ![ch] = Free]
  /\ UNCHANGED <<queue, fresh>>

(* The queue is looked at under the lock; a message is taken, ... *)
RecvPop(t, ch) ==
  /\ lock[ch] = Free /\ queue[ch] # <<>> /\ Step(t, "poll", "popped")
  /\ queue' = [queue EXCEPT ![ch] = Tail(@)]
  /\ lock' = [lock EXCEPT ![ch] = t]
  /\ UNCHANGED <<asleep, fresh>>

(* ... or there is none. *)
RecvEmpty(t, ch) ==
  /\ lock[ch] = Free /\ queue[ch] = <<>> /\ Step(t, "poll", "observe")
  /\ UNCHANGED <<channels, fresh>>

RecvObserve(t, ch) ==
  /\ Step(t, "observe", "recheck")
  /\ fresh' = fresh \cup {t}
  /\ UNCHANGED channels

MutRecheckSkipped(t, ch) ==
  /\ Step(t, "recheck", "wait")
  /\ UNCHANGED <<channels, fresh>>
RecvRecheck(t, ch) ==
  /\ lock[ch] = Free
  /\ Step(t, "recheck", IF queue[ch] = <<>> THEN "wait" ELSE "poll")
  /\ fresh' = IF queue[ch] = <<>> THEN fresh ELSE fresh \ {t}
  /\ UNCHANGED channels

(* The kernel compares and puts the thread to sleep in one step. *)
RecvWait(t, ch) ==
  /\ Step(t, "wait", "poll")
  /\ asleep' = IF t \in fresh THEN [asleep EXCEPT ![ch] = @ \cup {t}] ELSE asleep
  /\ fresh' = fresh \ {t}
  /\ UNCHANGED <<queue, lock>>

Awake(t, ch) == t \notin asleep[ch]

(* A thread may be woken for no reason. *)
SpuriousWake(t, ch) ==
  /\ t \in asleep[ch]
  /\ asleep' = [asleep EXCEPT ![ch] = @ \ {t}]
  /\ UNCHANGED <<pc, callVars, queue, lock, work, fresh, runs>>

Receiving(t, ch) ==
  /\ Awake(t, ch)
  /\ RecvEmpty(t, ch) \/ RecvObserve(t, ch) \/ RecvRecheck(t, ch) \/ RecvWait(t, ch)
       \/ Bump(t, ch, "popped", "bumped")
---------------------------------------------------------------------------
(* for_each_range *)

RunInline(c) ==
  /\ Inline(len[c]) /\ Step(c, "split", "returned")
  /\ runs' = [runs EXCEPT ![c] = [i \in DOMAIN @ |-> @[i] + 1]]
  /\ UNCHANGED <<callVars, channels, work, fresh>>

(* One turn of the loop that sends the ranges *)
SubmitRange(c) ==
  /\ pc[c] = "split" /\ ~Inline(len[c]) /\ sentTo[c] < len[c]
  /\ LET end == RangeEnd(len[c], sentTo[c])
     IN /\ SendPush(c, Pool, [call |-> c, start |-> sentTo[c], end |-> end], "sending")
        /\ sentTo' = [sentTo EXCEPT ![c] = sentTo[c] + Chunk(len[c])]
  /\ awaited' = [awaited EXCEPT ![c] = @ + 1]
  /\ UNCHANGED <<cell, started, len, work, runs>>

SubmitBump(c) ==
  Bump(c, Pool, "sending", "sent") /\ UNCHANGED <<callVars, work, runs>>
SubmitWake(c) ==
  /\ WakeUnlock(c, Pool, "sent", IF sentTo[c] < len[c] THEN "split" ELSE "poll")
  /\ UNCHANGED <<callVars, work, runs>>

AwaitPop(c) ==
  /\ Awake(c, c) /\ RecvPop(c, c)
  /\ awaited' = [awaited EXCEPT ![c] = @ - 1]
  /\ UNCHANGED <<cell, started, len, sentTo, work, runs>>

AwaitStep(c) == Receiving(c, c) /\ UNCHANGED <<callVars, work, runs>>

MutAwaitMore(c) == FALSE
(* Is there a message left to wait for? *)
AwaitsMore(c) == awaited[c] > 0

AwaitDone(c) ==
  /\ WakeUnlock(c, c, "bumped", IF AwaitsMore(c) THEN "poll" ELSE "returned")
  /\ UNCHANGED <<callVars, work, runs>>
---------------------------------------------------------------------------
(* The loop of a worker *)

WorkerPop(w) ==
  /\ Awake(w, Pool) /\ RecvPop(w, Pool)
  /\ work' = [work EXCEPT ![w] = Head(queue[Pool])]
  /\ UNCHANGED <<callVars, runs>>

WorkerStep(w) == Receiving(w, Pool) /\ UNCHANGED <<callVars, work, runs>>

WorkerStart(w) ==
  WakeUnlock(w, Pool, "bumped", "run") /\ UNCHANGED <<callVars, work, runs>>

(* work.run on the borrowed operation *)
WorkerRun(w) ==
  /\ Step(w, "run", "complete")
  /\ LET c == work[w].call
     IN runs' = [runs EXCEPT ![c] = [i \in DOMAIN @ |->
                   IF i \in work[w].start..(work[w].end - 1) THEN @[i] + 1 ELSE @[i]]]
  /\ UNCHANGED <<callVars, channels, work, fresh>>

(* The drop of Completion: it sends on done ... *)
CompleteSend(w) ==
  /\ pc[w] = "complete"
  /\ SendPush(w, work[w].call, "done", "sending")
  /\ UNCHANGED <<callVars, work, runs>>

CompleteBump(w) ==
  /\ pc[w] = "sending"
  /\ Bump(w, work[w].call, "sending", "sent") /\ UNCHANGED <<callVars, work, runs>>

CompleteWake(w) ==
  /\ pc[w] = "sent"
  /\ WakeUnlock(w, work[w].call, "sent", "drop sender") /\ UNCHANGED <<callVars, work, runs>>

(* ... and then drops the sender. *)
DropSender(w) ==
  /\ Step(w, "drop sender", "poll")
  /\ NextEpoch(work[w].call)
  /\ asleep' = [asleep EXCEPT ![work[w].call] = {}]
  /\ work' = [work EXCEPT ![w] = NoWork]
  /\ UNCHANGED <<callVars, queue, lock, runs>>
---------------------------------------------------------------------------
CallStep(c) ==
  \/ CellGet(c) \/ CellClaim(c) \/ SpawnWorker(c) \/ DropReceiver(c) \/ CellStore(c)
  \/ CellSpin(c) \/ RunInline(c) \/ SubmitRange(c) \/ SubmitBump(c) \/ SubmitWake(c)
  \/ AwaitPop(c) \/ AwaitStep(c) \/ AwaitDone(c)

RunStep(w) ==
  \/ WorkerPop(w) \/ WorkerStep(w) \/ WorkerStart(w) \/ WorkerRun(w)
  \/ CompleteSend(w) \/ CompleteBump(w) \/ CompleteWake(w) \/ DropSender(w)

Next ==
  \/ \E c \in Calls : CallStep(c)
  \/ \E w \in Workers : RunStep(w)
  \/ \E t \in Threads, ch \in Channels : SpuriousWake(t, ch)

(* The operating system runs every thread that can run. *)
Fairness == /\ \A c \in Calls : WF_vars(CallStep(c))
            /\ \A w \in Workers : WF_vars(RunStep(w))

Spec == Init /\ [][Next]_vars /\ Fairness
---------------------------------------------------------------------------
(* The borrow of for_each_range outlives its use: no worker has, or is     *)
(* about to run, a Work of a call that has returned, and no such Work is   *)
(* left in the pool's queue.  This is what makes the unsafe dereference of *)
(* work.context sound.                                                     *)
BorrowOutlivesUse ==
  \A c \in Calls : pc[c] = "returned" =>
    /\ \A w \in Workers : pc[w] \in {"popped", "bumped", "run"} => work[w].call # c
    /\ \A i \in DOMAIN queue[Pool] : queue[Pool][i].call # c

(* The ranges cover every index once: no index is processed twice, and when*)
(* the call returns all of them have been, so map reads only what was      *)
(* written and two workers never write one element.                        *)
EachIndexOnce ==
  \A c \in Calls : \A i \in DOMAIN runs[c] :
    runs[c][i] <= 1 /\ (pc[c] = "returned" => runs[c][i] = 1)

(* The pool is built once, and no call sends to it before all workers have *)
(* been started: OnceCell::get_or_init under concurrent first calls.       *)
PoolBuiltOnce ==
  /\ \A w \in Workers : started[w] <= 1
  /\ \A c \in Calls : pc[c] \notin {"get", "claim", "init", "drop receiver", "store", "spin"}
                        => \A w \in Workers : started[w] = 1

(* No wake-up is lost: every call returns, whatever the order in which     *)
(* pushes, epoch changes, wake-ups and sleeping receivers meet.            *)
EveryCallReturns == \A c \in Calls : <>(pc[c] = "returned")
=============================================================================
