-------------------------- MODULE WorkerPoolProofs --------------------------
(***************************************************************************)
(* Theorems about WorkerPool, for any number of calls and workers and any  *)
(* lengths: the pool is built once, a borrow outlives its use and every    *)
(* index is processed once.                                                *)
(***************************************************************************)
EXTENDS WorkerPool, FiniteSetTheorems, SequenceTheorems, TLAPS

Before == {"get", "claim", "init", "drop receiver", "store", "spin"}
Building == {"init", "drop receiver", "store"}
Awaiting == {"poll", "observe", "recheck", "wait", "popped", "bumped"}
CallLabels == Before \cup Awaiting \cup {"split", "sending", "sent", "returned"}

(* Labels of a worker that has a Work in hand: before it has run it, before*)
(* it has reported it, and until it lets go of it                          *)
Unrun == {"popped", "bumped", "run"}
Held == Unrun \cup {"complete"}
InHand == Held \cup {"sending", "sent", "drop sender"}

(* The once-cell: whoever won the exchange builds the pool alone, and      *)
(* nobody passes it before all workers are started.                        *)
CellInv ==
  /\ \A w \in Workers : started[w] \in {0, 1}
  /\ cell = 0 => \A w \in Workers : started[w] = 0
  /\ cell = 2 => \A w \in Workers : started[w] = 1
  /\ \A c \in Calls : pc[c] \in Building => cell = 1
  /\ \A c, d \in Calls : pc[c] \in Building /\ pc[d] \in Building => c = d
  /\ \A c \in Calls : pc[c] = "init" => \E w \in Workers : started[w] = 0
  /\ \A c \in Calls : pc[c] \in {"drop receiver", "store"} => \A w \in Workers : started[w] = 1
  /\ \A c \in Calls : pc[c] \notin Before => cell = 2

(* Where a call is, and what it has sent *)
CallInv ==
  /\ \A c \in Calls : pc[c] \in CallLabels
  /\ \A c \in Calls : pc[c] \in Before \/ Inline(len[c]) => sentTo[c] = 0 /\ awaited[c] = 0
  /\ \A c \in Calls : Inline(len[c]) => pc[c] \in Before \cup {"split", "returned"}
  /\ \A c \in Calls : pc[c] \in Awaiting \cup {"returned"} => Inline(len[c]) \/ sentTo[c] >= len[c]
  /\ \A c \in Calls : pc[c] = "returned" => awaited[c] = 0
  /\ \A w \in Workers : pc[w] \in InHand => work[w] \in Work

(* Every message a call waits for is one it has not been sent yet, by a    *)
(* worker that holds the Work or by one that will take it from the queue,  *)
(* or one that is in its own queue.                                        *)
Queued(c) == {i \in DOMAIN queue[Pool] : queue[Pool][i].call = c}
Holding(c) == {w \in Workers : pc[w] \in Held /\ work[w].call = c}
CountInv ==
  \A c \in Calls :
    awaited[c] = Cardinality(Queued(c)) + Cardinality(Holding(c)) + Len(queue[c])

(* A Work that was not run covers indices that were sent and not processed,*)
(* no two of them the same, and all of these are covered.                  *)
Covers(x, c, i) == x.call = c /\ x.start <= i /\ i < x.end
QueueCovers(p, c, i) == Covers(queue[Pool][p], c, i)
HandCovers(w, c, i) == pc[w] \in Unrun /\ Covers(work[w], c, i)
IndexInv(c, i) ==
  /\ \A p \in DOMAIN queue[Pool] : QueueCovers(p, c, i) => runs[c][i] = 0 /\ i < sentTo[c]
  /\ \A w \in Workers : HandCovers(w, c, i) => runs[c][i] = 0 /\ i < sentTo[c]
  /\ \A p, r \in DOMAIN queue[Pool] : QueueCovers(p, c, i) /\ QueueCovers(r, c, i) => p = r
  /\ \A w, v \in Workers : HandCovers(w, c, i) /\ HandCovers(v, c, i) => w = v
  /\ \A p \in DOMAIN queue[Pool], w \in Workers : ~(QueueCovers(p, c, i) /\ HandCovers(w, c, i))
  /\ runs[c][i] \in {0, 1}
  /\ runs[c][i] = 0 /\ i < sentTo[c] => \/ \E p \in DOMAIN queue[Pool] : QueueCovers(p, c, i)
                                        \/ \E w \in Workers : HandCovers(w, c, i)
  /\ runs[c][i] = 1 => i < sentTo[c] \/ (Inline(len[c]) /\ pc[c] = "returned")
  /\ Inline(len[c]) /\ pc[c] = "returned" => runs[c][i] = 1
RangeInv == \A c \in Calls : \A i \in 0..(len[c] - 1) : IndexInv(c, i)

IInv == TypeOK /\ CellInv /\ CallInv /\ CountInv /\ RangeInv
---------------------------------------------------------------------------
(* A call and a worker are different threads, and the pool's channel is no *)
(* call's.                                                                 *)
LEMMA Distinct ==
    /\ \A c \in Calls : c \in Threads /\ c \in Channels /\ c \notin Workers /\ c # Pool
    /\ \A w \in Workers : w \in Threads /\ w \notin Calls
    /\ Pool \in Channels
BY PoolAssumption DEF Threads, Channels

(* A quotient is a natural number, and positive when the divisor fits.     *)
LEMMA Quotient ==
    ASSUME NEW a \in Nat, NEW b \in Nat \ {0}
    PROVE  a \div b \in Nat /\ (a >= b => a \div b >= 1)
OBVIOUS

(* The chunk of a call that is cut into ranges is a natural number.        *)
LEMMA ChunkIsNat ==
    ASSUME NEW n \in Nat, ~Inline(n)
    PROVE  Chunk(n) \in Nat
<1>1. Cardinality(Workers) \in Nat /\ Cardinality(Workers) > 1 /\ n > MinimumChunk
  BY FS_CardinalityType, PoolAssumption DEF Inline
<1>2. DivCeil(n, MinimumChunk) \in Nat \ {0}
  <2>1. n + MinimumChunk - 1 \in Nat /\ n + MinimumChunk - 1 >= MinimumChunk
    BY <1>1, PoolAssumption
  <2> QED BY <2>1, Quotient, PoolAssumption DEF DivCeil
<1>3. Jobs(n) \in Nat \ {0}
  BY <1>1, <1>2 DEF Jobs, Min2
<1>4. n + Jobs(n) - 1 \in Nat
  BY <1>3
<1> QED BY <1>3, <1>4, Quotient DEF Chunk, DivCeil

(* Counting one element more                                               *)
LEMMA Incremented ==
    ASSUME NEW S, NEW f \in [S -> Nat], NEW x \in S
    PROVE  /\ [f EXCEPT ![x] = @ + 1] \in [S -> Nat]
           /\ f[x] = 0 => [f EXCEPT ![x] = @ + 1][x] = 1
OBVIOUS

(* The sets that are counted are finite.                                   *)
LEMMA CountsAreNat ==
    ASSUME TypeOK, NEW c \in Calls
    PROVE  /\ IsFiniteSet(Queued(c)) /\ Cardinality(Queued(c)) \in Nat
           /\ IsFiniteSet(Holding(c)) /\ Cardinality(Holding(c)) \in Nat
           /\ Len(queue[c]) \in Nat
<1>1. DOMAIN queue[Pool] = 1..Len(queue[Pool]) /\ Len(queue[Pool]) \in Nat
  BY LenProperties DEF TypeOK
<1>2. IsFiniteSet(DOMAIN queue[Pool])
  BY <1>1, FS_Interval
<1>3. Queued(c) \subseteq DOMAIN queue[Pool] /\ Holding(c) \subseteq Workers
  BY DEF Queued, Holding
<1>4. IsFiniteSet(Queued(c)) /\ IsFiniteSet(Holding(c))
  BY <1>2, <1>3, FS_Subset, PoolAssumption
<1>5. Len(queue[c]) \in Nat
  BY LenProperties DEF TypeOK
<1> QED BY <1>4, <1>5, FS_CardinalityType

(* Removing the first element of a queue moves the positions of the others *)
(* down by one and changes how many there are only by the first.           *)
LEMMA ShiftedCardinality ==
    ASSUME NEW n \in Nat, NEW S, S \subseteq 1..n
    PROVE  Cardinality({i \in 1..(n - 1) : i + 1 \in S})
             = IF 1 \in S THEN Cardinality(S) - 1 ELSE Cardinality(S)
<1> DEFINE T == {i \in 1..(n - 1) : i + 1 \in S}
           f == [i \in T |-> i + 1]
<1>1. IsFiniteSet(S) /\ IsFiniteSet(T)
  <2>1. IsFiniteSet(1..n) /\ T \subseteq 1..n
    BY FS_Interval
  <2> HIDE DEF T
  <2> QED BY <2>1, FS_Subset
<1>2. f \in [T -> S \ {1}]
  OBVIOUS
<1>3. \A i, j \in T : f[i] = f[j] => i = j
  OBVIOUS
<1>4. \A k \in S \ {1} : \E i \in T : f[i] = k
  <2> SUFFICES ASSUME NEW k \in S \ {1} PROVE \E i \in T : f[i] = k
    OBVIOUS
  <2>1. k - 1 \in T /\ f[k - 1] = k
    OBVIOUS
  <2> QED BY <2>1
<1>5. f \in Bijection(T, S \ {1})
  BY <1>2, <1>3, <1>4 DEF Bijection, Injection, Surjection, IsInjective
<1>6. Cardinality(S \ {1}) = Cardinality(T)
  BY <1>1, <1>5, FS_Bijection DEF ExistsBijection
<1> QED BY <1>1, <1>6, FS_RemoveElement
---------------------------------------------------------------------------
(* A step that moves no Work and no message: whether a worker holds one it *)
(* has to run, or to report, stays as it is.                               *)
Quiet ==
  /\ UNCHANGED <<queue, awaited, sentTo, len, runs>>
  /\ \A w \in Workers : /\ pc'[w] \in Held <=> pc[w] \in Held
                        /\ pc'[w] \in Unrun <=> pc[w] \in Unrun
                        /\ pc[w] \in Held => work'[w] = work[w]
  /\ \A c \in Calls : Inline(len[c]) => (pc'[c] = "returned" <=> pc[c] = "returned")

(* The steps of a call that are quiet                                      *)
LEMMA QuietCalls ==
    ASSUME IInv, NEW c \in Calls,
           \/ CellGet(c) \/ CellClaim(c) \/ SpawnWorker(c) \/ DropReceiver(c)
           \/ CellStore(c) \/ CellSpin(c) \/ SubmitBump(c) \/ SubmitWake(c)
           \/ AwaitStep(c) \/ AwaitDone(c)
    PROVE  Quiet
<1> USE Distinct DEF IInv, TypeOK, CallInv, Held, Unrun, Before, Awaiting
<1>1. CASE CellGet(c) \/ CellClaim(c) \/ DropReceiver(c) \/ CellStore(c) \/ CellSpin(c)
  BY <1>1 DEF CellGet, CellClaim, DropReceiver, CellStore, CellSpin, Goto, Step, callVars,
              channels, Quiet
<1>2. CASE SpawnWorker(c)
  <2>1. PICK w \in Workers, label \in {pc[c], "drop receiver"} :
          pc' = [pc EXCEPT ![w] = IF pc[w] = "off" THEN "poll" ELSE @, ![c] = label]
    BY <1>2 DEF SpawnWorker
  <2>2. /\ \A v \in Workers : pc'[v] = pc[v] \/ (pc[v] = "off" /\ pc'[v] = "poll")
        /\ \A d \in Calls : pc'[d] = pc[d] \/ (d = c /\ pc'[d] = "drop receiver")
    BY <2>1
  <2>3. pc[c] = "init" /\ UNCHANGED <<len, sentTo, awaited, queue, work, runs>>
    BY <1>2 DEF SpawnWorker, channels
  <2> QED BY <2>2, <2>3 DEF Quiet
<1>3. CASE SubmitBump(c) \/ SubmitWake(c) \/ AwaitDone(c)
  BY <1>3 DEF SubmitBump, SubmitWake, AwaitDone, Bump, WakeUnlock, Goto, Step, callVars, Quiet
<1>4. CASE AwaitStep(c)
  BY <1>4 DEF AwaitStep, Receiving, RecvEmpty, RecvObserve, RecvRecheck, RecvWait, Bump, Goto,
              Step, callVars, channels, Quiet
<1> QED BY <1>1, <1>2, <1>3, <1>4

(* The steps of a worker that are quiet                                    *)
LEMMA QuietWorkers ==
    ASSUME IInv, NEW w \in Workers,
           \/ WorkerStep(w) \/ WorkerStart(w) \/ CompleteBump(w) \/ CompleteWake(w)
           \/ DropSender(w)
    PROVE  Quiet
<1> USE Distinct DEF IInv, TypeOK, CallInv, Held, Unrun
<1>1. CASE WorkerStep(w)
  BY <1>1 DEF WorkerStep, Receiving, RecvEmpty, RecvObserve, RecvRecheck, RecvWait, Bump, Goto,
              Step, callVars, channels, Quiet
<1>2. CASE WorkerStart(w) \/ CompleteBump(w) \/ CompleteWake(w) \/ DropSender(w)
  BY <1>2 DEF WorkerStart, CompleteBump, CompleteWake, DropSender, Bump, WakeUnlock, Goto,
              Step, callVars, Quiet
<1> QED BY <1>1, <1>2

(* A spurious wake-up is quiet.                                            *)
LEMMA QuietOthers ==
    ASSUME IInv, \/ UNCHANGED vars
                 \/ \E t \in Threads, ch \in Channels : SpuriousWake(t, ch)
    PROVE  Quiet
BY DEF SpuriousWake, vars, callVars, Quiet

(* A quiet step changes no count, ...                                      *)
LEMMA QuietCounts ==
    ASSUME IInv, Quiet
    PROVE  CountInv'
<1>1. \A c \in Calls : Queued(c)' = Queued(c) /\ Holding(c)' = Holding(c)
  BY DEF Quiet, Queued, Holding
<1> QED BY <1>1 DEF IInv, CountInv, Quiet

(* ... and what is covered stays covered.                                  *)
LEMMA QuietRanges ==
    ASSUME IInv, Quiet
    PROVE  RangeInv'
<1> SUFFICES ASSUME NEW c \in Calls, NEW i \in 0..(len[c] - 1) PROVE IndexInv(c, i)'
  BY DEF RangeInv, Quiet
<1>1. IndexInv(c, i)
  BY DEF IInv, RangeInv
<1>2. /\ \A p \in DOMAIN queue[Pool] : QueueCovers(p, c, i)' <=> QueueCovers(p, c, i)
      /\ \A w \in Workers : HandCovers(w, c, i)' <=> HandCovers(w, c, i)
  BY DEF Quiet, QueueCovers, HandCovers, Unrun, Held
<1> QED BY <1>1, <1>2 DEF IndexInv, Quiet
---------------------------------------------------------------------------
(* The counts.  An inlined call sends nothing.                             *)
LEMMA InlineCounts ==
    ASSUME IInv, NEW c \in Calls, RunInline(c)
    PROVE  CountInv'
<1>1. UNCHANGED <<queue, work, awaited>> /\ \A w \in Workers : pc'[w] = pc[w]
  BY Distinct DEF RunInline, Goto, Step, callVars, channels, IInv, TypeOK
<1>2. \A d \in Calls : Queued(d)' = Queued(d) /\ Holding(d)' = Holding(d)
  BY <1>1 DEF Queued, Holding
<1> QED BY <1>1, <1>2 DEF IInv, CountInv

(* A range that is sent is one message more to wait for and one Work more  *)
(* in the queue.                                                           *)
LEMMA SubmitCounts ==
    ASSUME IInv, NEW c \in Calls, SubmitRange(c)
    PROVE  CountInv'
<1> DEFINE m == [call |-> c, start |-> sentTo[c], end |-> RangeEnd(len[c], sentTo[c])]
           q == queue[Pool]
<1>1. m \in Work /\ q \in Seq(Work) /\ Len(q) \in Nat
  <2>1. len[c] \in Nat /\ sentTo[c] \in Nat /\ ~Inline(len[c])
    BY PoolAssumption DEF IInv, TypeOK, SubmitRange
  <2>2. Chunk(len[c]) \in Nat
    BY <2>1, ChunkIsNat
  <2> QED BY <2>1, <2>2, LenProperties DEF RangeEnd, Min2, Work, IInv, TypeOK
<1>2. /\ queue'[Pool] = Append(q, m) /\ \A d \in Calls : queue'[d] = queue[d]
      /\ awaited' = [awaited EXCEPT ![c] = @ + 1]
      /\ UNCHANGED work /\ \A w \in Workers : pc'[w] = pc[w]
  BY Distinct DEF SubmitRange, SendPush, Goto, IInv, TypeOK
<1> HIDE DEF m
<1>3. /\ DOMAIN q = 1..Len(q) /\ DOMAIN queue'[Pool] = 1..(Len(q) + 1)
      /\ \A i \in 1..Len(q) : queue'[Pool][i] = q[i]
      /\ queue'[Pool][Len(q) + 1] = m
  BY <1>1, <1>2, AppendProperties, LenProperties
<1>4. \A d \in Calls : Queued(d)' = IF d = c THEN Queued(d) \cup {Len(q) + 1} ELSE Queued(d)
  BY <1>1, <1>3 DEF Queued, m
<1>5. \A d \in Calls : Holding(d)' = Holding(d)
  BY <1>2 DEF Holding
<1>6. Len(q) + 1 \notin Queued(c)
  BY <1>1, <1>3 DEF Queued
<1>7. ASSUME NEW d \in Calls
      PROVE  awaited'[d] = Cardinality(Queued(d)') + Cardinality(Holding(d)') + Len(queue'[d])
  <2>1. awaited[d] = Cardinality(Queued(d)) + Cardinality(Holding(d)) + Len(queue[d])
    BY DEF IInv, CountInv
  <2>2. awaited'[d] = IF d = c THEN awaited[d] + 1 ELSE awaited[d]
    BY <1>2 DEF IInv, TypeOK
  <2>3. /\ IsFiniteSet(Queued(d)) /\ Cardinality(Queued(d)) \in Nat
        /\ Cardinality(Holding(d)) \in Nat /\ Len(queue[d]) \in Nat
    BY CountsAreNat DEF IInv
  <2>4. Cardinality(Queued(d)') = IF d = c THEN Cardinality(Queued(d)) + 1 ELSE Cardinality(Queued(d))
    BY <1>4, <1>6, <2>3, FS_AddElement
  <2> QED BY <1>2, <1>5, <2>1, <2>2, <2>3, <2>4
<1> QED BY <1>7 DEF CountInv

(* A message that is received is one less to wait for.                     *)
LEMMA AwaitCounts ==
    ASSUME IInv, NEW c \in Calls, AwaitPop(c)
    PROVE  CountInv' /\ awaited[c] > 0
<1>1. /\ queue[c] # <<>> /\ queue'[c] = Tail(queue[c])
      /\ \A ch \in Channels \ {c} : queue'[ch] = queue[ch]
      /\ awaited' = [awaited EXCEPT ![c] = @ - 1]
      /\ UNCHANGED work /\ \A w \in Workers : pc'[w] = pc[w]
  BY Distinct DEF AwaitPop, RecvPop, Step, Goto, IInv, TypeOK
<1>2. Len(queue'[c]) = Len(queue[c]) - 1 /\ Len(queue[c]) > 0
  BY <1>1, HeadTailProperties, LenProperties, EmptySeq DEF IInv, TypeOK
<1>3. \A d \in Calls : Queued(d)' = Queued(d) /\ Holding(d)' = Holding(d)
  BY <1>1, Distinct DEF Queued, Holding
<1>4. ASSUME NEW d \in Calls
      PROVE  /\ awaited'[d] = Cardinality(Queued(d)') + Cardinality(Holding(d)') + Len(queue'[d])
             /\ awaited[c] > 0
  <2>1. \A e \in Calls :
          awaited[e] = Cardinality(Queued(e)) + Cardinality(Holding(e)) + Len(queue[e])
    BY DEF IInv, CountInv
  <2>2. awaited'[d] = IF d = c THEN awaited[d] - 1 ELSE awaited[d]
    BY <1>1 DEF IInv, TypeOK
  <2>3. \A e \in Calls : /\ Cardinality(Queued(e)) \in Nat /\ Cardinality(Holding(e)) \in Nat
                         /\ Len(queue[e]) \in Nat
    BY CountsAreNat DEF IInv
  <2>4. d # c => queue'[d] = queue[d]
    BY <1>1, Distinct
  <2>5. awaited[c] > 0
    BY <1>2, <2>1, <2>3
  <2>6. CASE d = c
    BY <1>2, <1>3, <2>1, <2>2, <2>3, <2>5, <2>6
  <2>7. CASE d # c
    BY <1>3, <2>1, <2>2, <2>4, <2>5, <2>7
  <2> QED BY <2>6, <2>7
<1> QED BY <1>4 DEF CountInv

(* A Work goes from the queue to the worker.                               *)
LEMMA TakeCounts ==
    ASSUME IInv, NEW w \in Workers, WorkerPop(w)
    PROVE  CountInv'
<1> DEFINE q == queue[Pool]
<1>1. /\ q # <<>> /\ queue'[Pool] = Tail(q) /\ \A d \in Calls : queue'[d] = queue[d]
      /\ UNCHANGED awaited /\ pc[w] = "poll" /\ pc'[w] = "popped" /\ work'[w] = Head(q)
      /\ \A v \in Workers \ {w} : pc'[v] = pc[v] /\ work'[v] = work[v]
  BY Distinct DEF WorkerPop, RecvPop, Step, Goto, callVars, IInv, TypeOK
<1>2. /\ q \in Seq(Work) /\ Len(q) \in Nat \ {0} /\ Head(q) = q[1]
      /\ DOMAIN q = 1..Len(q) /\ DOMAIN queue'[Pool] = 1..(Len(q) - 1)
      /\ \A i \in 1..(Len(q) - 1) : queue'[Pool][i] = q[i + 1]
  BY <1>1, HeadTailProperties, LenProperties, EmptySeq DEF IInv, TypeOK
<1> HIDE DEF q
<1>3. ASSUME NEW d \in Calls
      PROVE  awaited'[d] = Cardinality(Queued(d)') + Cardinality(Holding(d)') + Len(queue'[d])
  <2>1. /\ IsFiniteSet(Queued(d)) /\ Cardinality(Queued(d)) \in Nat
        /\ IsFiniteSet(Holding(d)) /\ Cardinality(Holding(d)) \in Nat /\ Len(queue[d]) \in Nat
    BY CountsAreNat DEF IInv
  <2>2. Queued(d)' = {i \in 1..(Len(q) - 1) : i + 1 \in Queued(d)} /\ Queued(d) \subseteq 1..Len(q)
    BY <1>2 DEF Queued, q
  <2>3. Cardinality(Queued(d)') = IF 1 \in Queued(d) THEN Cardinality(Queued(d)) - 1
                                  ELSE Cardinality(Queued(d))
    BY <1>2, <2>2, ShiftedCardinality
  <2>4. w \notin Holding(d) /\ Holding(d)' = IF 1 \in Queued(d) THEN Holding(d) \cup {w} ELSE Holding(d)
    BY <1>1, <1>2 DEF Holding, Held, Unrun, Queued, q
  <2>5. Cardinality(Holding(d)') = IF 1 \in Queued(d) THEN Cardinality(Holding(d)) + 1
                                   ELSE Cardinality(Holding(d))
    BY <2>1, <2>4, FS_AddElement
  <2>6. awaited[d] = Cardinality(Queued(d)) + Cardinality(Holding(d)) + Len(queue[d])
    BY DEF IInv, CountInv
  <2> QED BY <1>1, <2>1, <2>3, <2>5, <2>6
<1> QED BY <1>3 DEF CountInv

(* Running a Work does not report it.                                      *)
LEMMA RunCounts ==
    ASSUME IInv, NEW w \in Workers, WorkerRun(w)
    PROVE  CountInv'
<1>1. /\ UNCHANGED <<queue, work, awaited>> /\ pc[w] = "run" /\ pc'[w] = "complete"
      /\ \A v \in Workers \ {w} : pc'[v] = pc[v]
  BY Distinct DEF WorkerRun, Goto, Step, callVars, channels, IInv, TypeOK
<1>2. \A d \in Calls : Queued(d)' = Queued(d) /\ Holding(d)' = Holding(d)
  BY <1>1 DEF Queued, Holding, Held, Unrun
<1> QED BY <1>1, <1>2 DEF IInv, CountInv

(* Reporting it puts a message into the queue of the call.                 *)
LEMMA CompleteCounts ==
    ASSUME IInv, NEW w \in Workers, CompleteSend(w)
    PROVE  CountInv'
<1> DEFINE c == work[w].call
<1>1. pc[w] = "complete" /\ work[w] \in Work /\ c \in Calls
  BY DEF CompleteSend, IInv, CallInv, InHand, Held, Work
<1>2. /\ queue'[c] = Append(queue[c], "done") /\ \A ch \in Channels \ {c} : queue'[ch] = queue[ch]
      /\ UNCHANGED <<work, awaited>> /\ pc'[w] = "sending"
      /\ \A v \in Workers \ {w} : pc'[v] = pc[v]
  BY <1>1, Distinct DEF CompleteSend, SendPush, Goto, callVars, IInv, TypeOK
<1>3. Len(queue'[c]) = Len(queue[c]) + 1
  BY <1>1, <1>2, AppendProperties DEF IInv, TypeOK
<1>4. \A d \in Calls : Queued(d)' = Queued(d)
  BY <1>1, <1>2, Distinct DEF Queued
<1>5. \A d \in Calls : Holding(d)' = IF d = c THEN Holding(d) \ {w} ELSE Holding(d)
  BY <1>1, <1>2 DEF Holding, Held, Unrun
<1>6. w \in Holding(c)
  BY <1>1 DEF Holding, Held
<1> HIDE DEF c
<1>7. ASSUME NEW d \in Calls
      PROVE  awaited'[d] = Cardinality(Queued(d)') + Cardinality(Holding(d)') + Len(queue'[d])
  <2>1. /\ Cardinality(Queued(d)) \in Nat /\ IsFiniteSet(Holding(d))
        /\ Cardinality(Holding(d)) \in Nat /\ Len(queue[d]) \in Nat
    BY CountsAreNat DEF IInv
  <2>2. Cardinality(Holding(d)') = IF d = c THEN Cardinality(Holding(d)) - 1
                                   ELSE Cardinality(Holding(d))
    BY <1>5, <1>6, <2>1, FS_RemoveElement
  <2>3. awaited[d] = Cardinality(Queued(d)) + Cardinality(Holding(d)) + Len(queue[d])
    BY DEF IInv, CountInv
  <2>4. d # c => queue'[d] = queue[d]
    BY <1>2, Distinct
  <2>5. CASE d = c
    BY <1>2, <1>3, <1>4, <2>1, <2>2, <2>3, <2>5
  <2>6. CASE d # c
    BY <1>2, <1>4, <2>1, <2>2, <2>3, <2>4, <2>6
  <2> QED BY <2>5, <2>6
<1> QED BY <1>7 DEF CountInv
---------------------------------------------------------------------------
(* The ranges *)

(* An inlined call processes all its indices, and has sent none of them.   *)
LEMMA InlineRanges ==
    ASSUME IInv, NEW c \in Calls, RunInline(c)
    PROVE  RangeInv'
<1>1. /\ UNCHANGED <<queue, work, sentTo, len>> /\ \A w \in Workers : pc'[w] = pc[w]
      /\ \A d \in Calls \ {c} : pc'[d] = pc[d] /\ runs'[d] = runs[d]
      /\ Inline(len[c]) /\ pc[c] = "split" /\ pc'[c] = "returned"
      /\ \A i \in 0..(len[c] - 1) : runs'[c][i] = runs[c][i] + 1
  BY Distinct DEF RunInline, Goto, Step, callVars, channels, IInv, TypeOK
<1>2. sentTo[c] = 0
  BY <1>1 DEF IInv, CallInv
<1>3. ASSUME NEW d \in Calls, NEW i \in 0..(len[d] - 1)
      PROVE  IndexInv(d, i)'
  <2>1. IndexInv(d, i)
    BY <1>3 DEF IInv, RangeInv
  <2>2. /\ \A p \in DOMAIN queue[Pool] : QueueCovers(p, d, i)' <=> QueueCovers(p, d, i)
        /\ \A w \in Workers : HandCovers(w, d, i)' <=> HandCovers(w, d, i)
    BY <1>1 DEF QueueCovers, HandCovers
  <2>3. CASE d = c
    <3>1. /\ \A p \in DOMAIN queue[Pool] : ~QueueCovers(p, d, i)
          /\ \A w \in Workers : ~HandCovers(w, d, i)
          /\ runs[d][i] = 0
      BY <1>1, <1>2, <2>1, <2>3 DEF IndexInv
    <3> QED BY <1>1, <1>2, <2>2, <2>3, <3>1 DEF IndexInv
  <2>4. CASE d # c
    BY <1>1, <2>1, <2>2, <2>4 DEF IndexInv
  <2> QED BY <2>3, <2>4
<1> QED BY <1>1, <1>3 DEF RangeInv

(* The range that is sent begins where the last one ended.                 *)
LEMMA SubmitRanges ==
    ASSUME IInv, NEW c \in Calls, SubmitRange(c)
    PROVE  RangeInv'
<1> DEFINE m == [call |-> c, start |-> sentTo[c], end |-> RangeEnd(len[c], sentTo[c])]
           q == queue[Pool]
<1>1. /\ len[c] \in Nat /\ sentTo[c] \in Nat /\ ~Inline(len[c]) /\ Chunk(len[c]) \in Nat
      /\ pc[c] = "split"
  BY ChunkIsNat, PoolAssumption DEF IInv, TypeOK, SubmitRange
<1>2. m \in Work /\ q \in Seq(Work) /\ Len(q) \in Nat
  BY <1>1, LenProperties DEF RangeEnd, Min2, Work, IInv, TypeOK
<1>3. /\ queue'[Pool] = Append(q, m) /\ UNCHANGED <<work, len, runs>>
      /\ sentTo' = [sentTo EXCEPT ![c] = sentTo[c] + Chunk(len[c])]
      /\ \A w \in Workers : pc'[w] = pc[w]
      /\ pc'[c] = "sending" /\ \A d \in Calls \ {c} : pc'[d] = pc[d]
  BY Distinct DEF SubmitRange, SendPush, Goto, IInv, TypeOK
<1>4. \A i \in 0..(len[c] - 1) :
        Covers(m, c, i) <=> sentTo[c] <= i /\ i < sentTo[c] + Chunk(len[c])
  BY <1>1 DEF Covers, RangeEnd, Min2
<1>5. \A d \in Calls \ {c}, i \in Nat : ~Covers(m, d, i)
  BY DEF Covers
<1> HIDE DEF m
<1>6. /\ DOMAIN q = 1..Len(q) /\ DOMAIN queue'[Pool] = 1..(Len(q) + 1)
      /\ \A i \in 1..Len(q) : queue'[Pool][i] = q[i]
      /\ queue'[Pool][Len(q) + 1] = m
  BY <1>2, <1>3, AppendProperties, LenProperties
<1>7. /\ sentTo'[c] = sentTo[c] + Chunk(len[c])
      /\ \A d \in Calls \ {c} : sentTo'[d] = sentTo[d]
      /\ \A d \in Calls : len[d] \in Nat /\ sentTo[d] \in Nat
  BY <1>3, PoolAssumption DEF IInv, TypeOK
<1>8. DOMAIN q \subseteq DOMAIN queue'[Pool] /\ Len(q) + 1 \in DOMAIN queue'[Pool]
  BY <1>2, <1>6
<1>9. \A d \in Calls, i \in Nat, w \in Workers : HandCovers(w, d, i)' <=> HandCovers(w, d, i)
  BY <1>3 DEF HandCovers
<1>10. ASSUME NEW d \in Calls, d # c, NEW i \in 0..(len[d] - 1)
       PROVE  IndexInv(d, i)'
  <2>1. IndexInv(d, i) /\ i \in Nat
    BY <1>7, <1>10 DEF IInv, RangeInv
  <2>2. \A p \in DOMAIN queue'[Pool] : QueueCovers(p, d, i)' <=> p \in DOMAIN q /\ QueueCovers(p, d, i)
    BY <1>2, <1>5, <1>6, <1>10, <2>1 DEF QueueCovers
  <2> QED BY <1>3, <1>7, <1>8, <1>9, <1>10, <2>1, <2>2 DEF IndexInv
<1>11. ASSUME NEW i \in 0..(len[c] - 1)
       PROVE  IndexInv(c, i)'
  <2>1. IndexInv(c, i) /\ i \in Nat
    BY <1>7, <1>11 DEF IInv, RangeInv
  <2>2. \A p \in DOMAIN queue'[Pool] : QueueCovers(p, c, i)' <=>
               \/ p \in DOMAIN q /\ QueueCovers(p, c, i)
               \/ p = Len(q) + 1 /\ sentTo[c] <= i /\ i < sentTo'[c]
    BY <1>2, <1>4, <1>6, <1>7, <2>1 DEF QueueCovers
  <2>3. CASE i < sentTo[c]
    <3>1. \A p \in DOMAIN queue'[Pool] : QueueCovers(p, c, i)' <=> p \in DOMAIN q /\ QueueCovers(p, c, i)
      BY <1>7, <2>1, <2>2, <2>3
    <3> QED BY <1>1, <1>3, <1>7, <1>8, <1>9, <2>1, <2>3, <3>1 DEF IndexInv
  <2>4. CASE sentTo[c] <= i
    <3>1. /\ \A p \in DOMAIN q : ~QueueCovers(p, c, i)
          /\ \A w \in Workers : ~HandCovers(w, c, i)
          /\ runs[c][i] = 0
      BY <1>1, <1>7, <2>1, <2>4 DEF IndexInv
    <3>2. \A p \in DOMAIN queue'[Pool] : QueueCovers(p, c, i)' <=> p = Len(q) + 1 /\ i < sentTo'[c]
      BY <2>2, <2>4, <3>1
    <3> QED BY <1>1, <1>3, <1>7, <1>8, <1>9, <2>1, <3>1, <3>2 DEF IndexInv
  <2> QED BY <1>7, <2>1, <2>3, <2>4
<1> QED BY <1>3, <1>10, <1>11 DEF RangeInv

(* A message that is received says nothing of the indices.                 *)
LEMMA AwaitRanges ==
    ASSUME IInv, NEW c \in Calls, AwaitPop(c)
    PROVE  RangeInv'
<1>1. /\ queue'[Pool] = queue[Pool] /\ UNCHANGED <<work, sentTo, len, runs>>
      /\ \A w \in Workers : pc'[w] = pc[w]
      /\ pc[c] = "poll" /\ pc'[c] = "popped" /\ \A d \in Calls \ {c} : pc'[d] = pc[d]
  BY Distinct DEF AwaitPop, RecvPop, Step, Goto, IInv, TypeOK
<1>2. ASSUME NEW d \in Calls, NEW i \in 0..(len[d] - 1)
      PROVE  IndexInv(d, i)'
  <2>1. IndexInv(d, i)
    BY DEF IInv, RangeInv
  <2>2. /\ \A p \in DOMAIN queue[Pool] : QueueCovers(p, d, i)' <=> QueueCovers(p, d, i)
        /\ \A w \in Workers : HandCovers(w, d, i)' <=> HandCovers(w, d, i)
    BY <1>1 DEF QueueCovers, HandCovers
  <2>3. pc'[d] = "returned" <=> pc[d] = "returned"
    BY <1>1
  <2> QED BY <1>1, <2>1, <2>2, <2>3 DEF IndexInv
<1> QED BY <1>1, <1>2 DEF RangeInv

(* The worker covers what the first Work of the queue covered.             *)
LEMMA TakeRanges ==
    ASSUME IInv, NEW w \in Workers, WorkerPop(w)
    PROVE  RangeInv'
<1> DEFINE q == queue[Pool]
<1>1. /\ q # <<>> /\ queue'[Pool] = Tail(q) /\ UNCHANGED <<sentTo, len, runs>>
      /\ pc[w] = "poll" /\ pc'[w] = "popped" /\ work'[w] = Head(q)
      /\ \A v \in Workers \ {w} : pc'[v] = pc[v] /\ work'[v] = work[v]
      /\ \A d \in Calls : pc'[d] = pc[d]
  BY Distinct DEF WorkerPop, RecvPop, Step, Goto, callVars, IInv, TypeOK
<1>2. /\ q \in Seq(Work) /\ Len(q) \in Nat \ {0} /\ Head(q) = q[1]
      /\ DOMAIN q = 1..Len(q) /\ DOMAIN queue'[Pool] = 1..(Len(q) - 1)
      /\ \A i \in 1..(Len(q) - 1) : queue'[Pool][i] = q[i + 1]
  BY <1>1, HeadTailProperties, LenProperties, EmptySeq DEF IInv, TypeOK
<1>3. ASSUME NEW d \in Calls, NEW i \in 0..(len[d] - 1)
      PROVE  IndexInv(d, i)'
  <2>1. IndexInv(d, i)
    BY DEF IInv, RangeInv
  <2>2. \A p \in DOMAIN queue'[Pool] : p + 1 \in DOMAIN q /\ (QueueCovers(p, d, i)' <=> QueueCovers(p + 1, d, i))
    BY <1>2 DEF QueueCovers
  <2>3. \A p \in DOMAIN q : p = 1 \/ p - 1 \in DOMAIN queue'[Pool]
    BY <1>2
  <2>4. \A v \in Workers : HandCovers(v, d, i)' <=> IF v = w THEN QueueCovers(1, d, i)
                                                    ELSE HandCovers(v, d, i)
    BY <1>1, <1>2 DEF HandCovers, QueueCovers, Unrun
  <2>5. 1 \in DOMAIN q /\ ~HandCovers(w, d, i) /\ DOMAIN q \subseteq Int /\ DOMAIN queue'[Pool] \subseteq Int
    BY <1>1, <1>2 DEF HandCovers, Unrun
  <2>6. /\ \A p \in DOMAIN queue'[Pool] : QueueCovers(p, d, i)' => runs[d][i] = 0 /\ i < sentTo[d]
        /\ \A v \in Workers : HandCovers(v, d, i)' => runs[d][i] = 0 /\ i < sentTo[d]
    BY <2>1, <2>2, <2>4, <2>5 DEF IndexInv
  <2>7. \A p, r \in DOMAIN queue'[Pool] : QueueCovers(p, d, i)' /\ QueueCovers(r, d, i)' => p = r
    <3> SUFFICES ASSUME NEW p \in DOMAIN queue'[Pool], NEW r \in DOMAIN queue'[Pool],
                        QueueCovers(p, d, i)', QueueCovers(r, d, i)'
                 PROVE  p = r
      OBVIOUS
    <3>1. p + 1 = r + 1
      BY <2>1, <2>2 DEF IndexInv
    <3> QED BY <2>5, <3>1
  <2>8. \A u, v \in Workers : HandCovers(u, d, i)' /\ HandCovers(v, d, i)' => u = v
    BY <2>1, <2>4, <2>5 DEF IndexInv
  <2>9. \A p \in DOMAIN queue'[Pool], v \in Workers : ~(QueueCovers(p, d, i)' /\ HandCovers(v, d, i)')
    <3> SUFFICES ASSUME NEW p \in DOMAIN queue'[Pool], NEW v \in Workers,
                        QueueCovers(p, d, i)', HandCovers(v, d, i)'
                 PROVE  FALSE
      OBVIOUS
    <3>1. p + 1 \in DOMAIN q /\ QueueCovers(p + 1, d, i)
      BY <2>2
    <3>2. CASE v = w
      <4>1. p + 1 = 1
        BY <2>1, <2>4, <2>5, <3>1, <3>2 DEF IndexInv
      <4> QED BY <1>2, <4>1
    <3>3. CASE v # w
      BY <2>1, <2>4, <3>1, <3>3 DEF IndexInv
    <3> QED BY <3>2, <3>3
  <2>10. runs[d][i] = 0 /\ i < sentTo[d] => \/ \E p \in DOMAIN queue'[Pool] : QueueCovers(p, d, i)'
                                            \/ \E v \in Workers : HandCovers(v, d, i)'
    <3> SUFFICES ASSUME runs[d][i] = 0, i < sentTo[d],
                        \A v \in Workers : ~HandCovers(v, d, i)'
                 PROVE  \E p \in DOMAIN queue'[Pool] : QueueCovers(p, d, i)'
      OBVIOUS
    <3>1. PICK p \in DOMAIN q : QueueCovers(p, d, i) /\ p # 1
      BY <2>1, <2>4, <2>5 DEF IndexInv
    <3>2. p - 1 \in DOMAIN queue'[Pool] /\ (p - 1) + 1 = p
      BY <2>3, <2>5, <3>1
    <3> QED BY <2>2, <3>1, <3>2
  <2> QED BY <1>1, <2>1, <2>6, <2>7, <2>8, <2>9, <2>10 DEF IndexInv
<1> QED BY <1>1, <1>3 DEF RangeInv

(* Running a Work processes what it covers, which nothing else covers.     *)
LEMMA RunRanges ==
    ASSUME IInv, NEW w \in Workers, WorkerRun(w)
    PROVE  RangeInv'
<1> DEFINE c == work[w].call
<1>1. pc[w] = "run" /\ work[w] \in Work /\ c \in Calls
  BY DEF WorkerRun, Step, IInv, CallInv, InHand, Held, Unrun, Work
<1>2. /\ UNCHANGED <<queue, work, sentTo, len>> /\ pc'[w] = "complete"
      /\ \A v \in Workers \ {w} : pc'[v] = pc[v]
      /\ \A d \in Calls : pc'[d] = pc[d]
  BY <1>1, Distinct DEF WorkerRun, Goto, Step, callVars, channels, IInv, TypeOK
<1>3. \A d \in Calls : \A i \in 0..(len[d] - 1) :
        runs'[d][i] = IF Covers(work[w], d, i) THEN runs[d][i] + 1 ELSE runs[d][i]
  <2>1. runs' = [runs EXCEPT ![c] = [i \in DOMAIN @ |->
                   IF i \in work[w].start..(work[w].end - 1) THEN @[i] + 1 ELSE @[i]]]
    BY DEF WorkerRun
  <2>2. /\ work[w].start \in Nat /\ work[w].end \in Nat
        /\ \A i \in 0..(len[c] - 1) : i \in work[w].start..(work[w].end - 1) <=> Covers(work[w], c, i)
    BY <1>1, PoolAssumption DEF Work, Covers, IInv, TypeOK
  <2>3. \A d \in Calls : d # c => runs'[d] = runs[d]
    BY <2>1 DEF IInv, TypeOK
  <2>4. \A i \in 0..(len[c] - 1) : runs'[c][i] = IF i \in work[w].start..(work[w].end - 1)
                                                 THEN runs[c][i] + 1 ELSE runs[c][i]
    BY <1>1, <2>1 DEF IInv, TypeOK
  <2> QED BY <2>2, <2>3, <2>4 DEF Covers
<1>4. ASSUME NEW d \in Calls, NEW i \in 0..(len[d] - 1)
      PROVE  IndexInv(d, i)'
  <2>1. IndexInv(d, i)
    BY DEF IInv, RangeInv
  <2>2. /\ \A p \in DOMAIN queue[Pool] : QueueCovers(p, d, i)' <=> QueueCovers(p, d, i)
        /\ \A v \in Workers : HandCovers(v, d, i)' <=> v # w /\ HandCovers(v, d, i)
        /\ HandCovers(w, d, i) <=> Covers(work[w], d, i)
    BY <1>1, <1>2 DEF QueueCovers, HandCovers, Unrun
  <2>3. runs'[d][i] = IF HandCovers(w, d, i) THEN runs[d][i] + 1 ELSE runs[d][i]
    BY <1>3, <2>2
  <2>4. CASE HandCovers(w, d, i)
    BY <1>2, <2>1, <2>2, <2>3, <2>4 DEF IndexInv
  <2>5. CASE ~HandCovers(w, d, i)
    BY <1>2, <2>1, <2>2, <2>3, <2>5 DEF IndexInv
  <2> QED BY <2>4, <2>5
<1> QED BY <1>2, <1>4 DEF RangeInv

(* A Work that is reported has been run.                                   *)
LEMMA CompleteRanges ==
    ASSUME IInv, NEW w \in Workers, CompleteSend(w)
    PROVE  RangeInv'
<1>1. pc[w] = "complete" /\ work[w].call \in Calls
  BY DEF CompleteSend, IInv, CallInv, InHand, Held, Work
<1>2. /\ queue'[Pool] = queue[Pool] /\ UNCHANGED <<work, sentTo, len, runs>>
      /\ pc'[w] = "sending" /\ \A t \in Threads \ {w} : pc'[t] = pc[t]
  BY <1>1, Distinct DEF CompleteSend, SendPush, Goto, callVars, IInv, TypeOK
<1>3. ASSUME NEW d \in Calls, NEW i \in 0..(len[d] - 1)
      PROVE  IndexInv(d, i)'
  <2>1. IndexInv(d, i)
    BY DEF IInv, RangeInv
  <2>2. /\ \A p \in DOMAIN queue[Pool] : QueueCovers(p, d, i)' <=> QueueCovers(p, d, i)
        /\ \A v \in Workers : HandCovers(v, d, i)' <=> HandCovers(v, d, i)
        /\ pc'[d] = pc[d]
    BY <1>1, <1>2, Distinct DEF QueueCovers, HandCovers, Unrun
  <2> QED BY <1>2, <2>1, <2>2 DEF IndexInv
<1> QED BY <1>2, <1>3 DEF RangeInv
---------------------------------------------------------------------------
(* Types *)
ChannelTypes ==
  /\ DOMAIN queue = Channels
  /\ queue[Pool] \in Seq(Work)
  /\ \A c \in Calls : queue[c] \in Seq({"done"})
  /\ lock \in [Channels -> Threads \cup {Free}]
  /\ asleep \in [Channels -> SUBSET Threads]
  /\ fresh \subseteq Threads
CallTypes ==
  /\ cell \in 0..2 /\ started \in [Workers -> Nat] /\ len \in [Calls -> Lengths]
  /\ sentTo \in [Calls -> Nat] /\ awaited \in [Calls -> Nat]
RunTypes == DOMAIN runs = Calls /\ \A c \in Calls : runs[c] \in [0..(len[c] - 1) -> Nat]

(* A thread that moves on moves to a label.                                *)
LEMMA GotoTypes ==
    ASSUME TypeOK, NEW t \in Threads, NEW label \in Labels, Goto(t, label)
    PROVE  pc' \in [Threads -> Labels]
<1> HIDE DEF Labels
<1> QED BY DEF TypeOK, Goto

(* The parts of a channel keep their types in every step of a sender or a  *)
(* receiver that does not touch the queue.                                 *)
LEMMA WaitingTypes ==
    ASSUME TypeOK, NEW t \in Threads, NEW ch \in Channels, NEW from, NEW to \in Labels,
           Receiving(t, ch) \/ Bump(t, ch, from, to) \/ WakeUnlock(t, ch, from, to)
    PROVE  ChannelTypes' /\ pc' \in [Threads -> Labels]
<1>1. UNCHANGED queue
  BY DEF Receiving, RecvEmpty, RecvObserve, RecvRecheck, RecvWait, Bump, WakeUnlock, channels
<1>2. lock' \in [Channels -> Threads \cup {Free}] /\ fresh' \subseteq Threads
  BY DEF Receiving, RecvEmpty, RecvObserve, RecvRecheck, RecvWait, Bump, WakeUnlock, channels,
         NextEpoch, TypeOK
<1>3. asleep' \in [Channels -> SUBSET Threads]
  <2>1. \/ UNCHANGED asleep
        \/ \E T \in SUBSET Threads : asleep' = [asleep EXCEPT ![ch] = T]
    <3>1. asleep[ch] \in SUBSET Threads
      BY DEF TypeOK
    <3>2. CASE Receiving(t, ch)
      <4>1. UNCHANGED asleep \/ asleep' = [asleep EXCEPT ![ch] = asleep[ch] \cup {t}]
        BY <3>2 DEF Receiving, RecvEmpty, RecvObserve, RecvRecheck, RecvWait, Bump, channels
      <4> QED BY <3>1, <4>1
    <3>3. CASE Bump(t, ch, from, to)
      BY <3>3 DEF Bump
    <3>4. CASE WakeUnlock(t, ch, from, to)
      <4>1. \/ UNCHANGED asleep
            \/ \E u \in asleep[ch] : asleep' = [asleep EXCEPT ![ch] = asleep[ch] \ {u}]
        BY <3>4 DEF WakeUnlock, WakeOne
      <4> QED BY <3>1, <4>1
    <3> QED BY <3>2, <3>3, <3>4
  <2> QED BY <2>1 DEF TypeOK
<1>4. \E label \in Labels : Goto(t, label)
  BY DEF Receiving, RecvEmpty, RecvObserve, RecvRecheck, RecvWait, Bump, WakeUnlock, Step, Labels
<1>5. pc' \in [Threads -> Labels]
  BY <1>4, GotoTypes
<1> QED BY <1>1, <1>2, <1>3, <1>5 DEF ChannelTypes, TypeOK

(* A message of the right kind is sent, ...                                *)
LEMMA SendTypes ==
    ASSUME TypeOK, NEW t \in Threads, NEW ch \in Channels, NEW message, NEW next \in Labels,
           ch = Pool => message \in Work, ch # Pool => message = "done",
           SendPush(t, ch, message, next)
    PROVE  ChannelTypes' /\ pc' \in [Threads -> Labels]
<1>1. /\ DOMAIN queue' = Channels /\ queue'[ch] = Append(queue[ch], message)
      /\ \A x \in Channels \ {ch} : queue'[x] = queue[x]
  BY DEF SendPush, TypeOK
<1>2. queue'[Pool] \in Seq(Work)
  <2>1. CASE ch = Pool
    <3>1. Append(queue[Pool], message) \in Seq(Work)
      BY <2>1, AppendProperties DEF TypeOK
    <3> QED BY <1>1, <2>1, <3>1
  <2> QED BY <1>1, <2>1, Distinct DEF TypeOK
<1>3. ASSUME NEW c \in Calls PROVE queue'[c] \in Seq({"done"})
  <2>1. CASE ch = c
    <3>1. queue[c] \in Seq({"done"}) /\ message \in {"done"}
      BY <2>1, Distinct DEF TypeOK
    <3>2. Append(queue[c], message) \in Seq({"done"})
      BY <3>1, AppendProperties
    <3> QED BY <1>1, <2>1, <3>2
  <2> QED BY <1>1, <2>1, Distinct DEF TypeOK
<1>4. /\ lock' \in [Channels -> Threads \cup {Free}] /\ asleep' \in [Channels -> SUBSET Threads]
      /\ fresh' \subseteq Threads
  BY DEF SendPush, TypeOK
<1>5. pc' \in [Threads -> Labels]
  BY GotoTypes DEF SendPush
<1> QED BY <1>1, <1>2, <1>3, <1>4, <1>5 DEF ChannelTypes

(* ... and therefore received.                                             *)
LEMMA PopTypes ==
    ASSUME TypeOK, NEW t \in Threads, NEW ch \in Channels, RecvPop(t, ch)
    PROVE  /\ ChannelTypes' /\ pc' \in [Threads -> Labels]
           /\ ch = Pool => Head(queue[Pool]) \in Work
<1>1. /\ DOMAIN queue' = Channels /\ queue[ch] # <<>> /\ queue'[ch] = Tail(queue[ch])
      /\ \A x \in Channels \ {ch} : queue'[x] = queue[x]
  BY DEF RecvPop, TypeOK
<1>2. queue'[Pool] \in Seq(Work) /\ (ch = Pool => Head(queue[Pool]) \in Work)
  <2>1. CASE ch = Pool
    <3>1. Tail(queue[Pool]) \in Seq(Work) /\ Head(queue[Pool]) \in Work
      BY <1>1, <2>1, HeadTailProperties DEF TypeOK
    <3> QED BY <1>1, <2>1, <3>1
  <2> QED BY <1>1, <2>1, Distinct DEF TypeOK
<1>3. ASSUME NEW c \in Calls PROVE queue'[c] \in Seq({"done"})
  <2>1. CASE ch = c
    <3>1. queue[c] \in Seq({"done"}) /\ queue[c] # <<>>
      BY <1>1, <2>1 DEF TypeOK
    <3>2. Tail(queue[c]) \in Seq({"done"})
      BY <3>1, HeadTailProperties
    <3> QED BY <1>1, <2>1, <3>2
  <2> QED BY <1>1, <2>1, Distinct DEF TypeOK
<1>4. /\ lock' \in [Channels -> Threads \cup {Free}] /\ asleep' \in [Channels -> SUBSET Threads]
      /\ fresh' \subseteq Threads
  BY DEF RecvPop, TypeOK
<1>5. pc' \in [Threads -> Labels]
  <2>1. Goto(t, "popped") /\ "popped" \in Labels
    BY DEF RecvPop, Step, Labels
  <2> QED BY <2>1, GotoTypes
<1> QED BY <1>1, <1>2, <1>3, <1>4, <1>5 DEF ChannelTypes

(* The steps of a call.  One that receives a message awaits one, so awaited*)
(* stays a natural number.                                                 *)
LEMMA CallStepTypes ==
    ASSUME IInv, NEW c \in Calls, CallStep(c)
    PROVE  TypeOK'
<1> USE Distinct
<1>0. TypeOK /\ ChannelTypes /\ CallTypes /\ RunTypes
  BY DEF IInv, TypeOK, ChannelTypes, CallTypes, RunTypes
<1>1. SUFFICES ChannelTypes' /\ CallTypes' /\ RunTypes' /\ work' \in [Workers -> Work \cup {NoWork}]
               /\ pc' \in [Threads -> Labels]
  BY DEF TypeOK, ChannelTypes, CallTypes, RunTypes
<1>2. CASE CellGet(c) \/ CellClaim(c) \/ DropReceiver(c) \/ CellStore(c) \/ CellSpin(c)
  <2>1. ChannelTypes'
    BY <1>0, <1>2 DEF CellGet, CellClaim, DropReceiver, CellStore, CellSpin, NextEpoch, channels,
                      ChannelTypes
  <2>2. CallTypes' /\ RunTypes' /\ UNCHANGED work
    <3>1. UNCHANGED <<started, len, sentTo, awaited, work, runs>> /\ cell' \in {cell, 1, 2}
      BY <1>2 DEF CellGet, CellClaim, DropReceiver, CellStore, CellSpin, callVars
    <3>2. cell' \in 0..2
      BY <1>0, <3>1 DEF CallTypes
    <3> QED BY <1>0, <3>1, <3>2 DEF CallTypes, RunTypes
  <2>3. \E label \in Labels : Goto(c, label)
    BY <1>2 DEF CellGet, CellClaim, DropReceiver, CellStore, CellSpin, Step, Labels
  <2>4. pc' \in [Threads -> Labels]
    BY <1>0, <2>3, GotoTypes
  <2> QED BY <1>0, <2>1, <2>2, <2>4 DEF TypeOK
<1>3. CASE SpawnWorker(c)
  <2>1. PICK w \in Workers, label \in {pc[c], "drop receiver"} :
          /\ pc' = [pc EXCEPT ![w] = IF pc[w] = "off" THEN "poll" ELSE @, ![c] = label]
          /\ started' = [started EXCEPT ![w] = @ + 1]
    BY <1>3 DEF SpawnWorker
  <2>2. "poll" \in Labels /\ label \in Labels
    BY <1>0 DEF Labels, TypeOK
  <2>3. pc' \in [Threads -> Labels]
    <3>1. pc \in [Threads -> Labels] /\ w \in Threads /\ c \in Threads
      BY <1>0 DEF TypeOK
    <3>2. [pc EXCEPT ![w] = IF pc[w] = "off" THEN "poll" ELSE @] \in [Threads -> Labels]
      BY <2>2, <3>1
    <3> QED BY <2>1, <2>2, <3>1, <3>2
  <2>4. started' \in [Workers -> Nat]
    <3>1. started \in [Workers -> Nat]
      BY <1>0 DEF CallTypes
    <3> QED BY <2>1, <3>1, Incremented
  <2> QED BY <1>0, <1>3, <2>3, <2>4 DEF SpawnWorker, TypeOK, ChannelTypes, CallTypes, RunTypes, channels
<1>4. CASE SubmitBump(c) \/ SubmitWake(c) \/ AwaitDone(c) \/ AwaitStep(c)
  <2>1. ChannelTypes' /\ pc' \in [Threads -> Labels]
    <3>1. {"sent", "split", "poll", "returned"} \subseteq Labels
      BY DEF Labels
    <3>2. CASE SubmitBump(c)
      BY <1>0, <3>1, <3>2, WaitingTypes DEF SubmitBump
    <3>3. CASE SubmitWake(c)
      BY <1>0, <3>1, <3>3, WaitingTypes DEF SubmitWake
    <3>4. CASE AwaitDone(c)
      BY <1>0, <3>1, <3>4, WaitingTypes DEF AwaitDone
    <3>5. CASE AwaitStep(c)
      BY <1>0, <3>1, <3>5, WaitingTypes DEF AwaitStep
    <3> QED BY <1>4, <3>2, <3>3, <3>4, <3>5
  <2>2. UNCHANGED <<callVars, work, runs>>
    BY <1>4 DEF SubmitBump, SubmitWake, AwaitDone, AwaitStep
  <2> QED BY <1>0, <2>1, <2>2 DEF TypeOK, CallTypes, RunTypes, callVars
<1>5. CASE RunInline(c)
  <2>1. pc' \in [Threads -> Labels]
    <3>1. Goto(c, "returned") /\ "returned" \in Labels
      BY <1>5 DEF RunInline, Step, Labels
    <3> QED BY <1>0, <3>1, GotoTypes
  <2>2. RunTypes'
    <3>1. runs' = [runs EXCEPT ![c] = [i \in DOMAIN @ |-> @[i] + 1]] /\ UNCHANGED len
      BY <1>5 DEF RunInline, callVars
    <3>2. [i \in DOMAIN runs[c] |-> runs[c][i] + 1] \in [0..(len[c] - 1) -> Nat]
      <4>1. runs[c] \in [0..(len[c] - 1) -> Nat]
        BY <1>0 DEF RunTypes
      <4>2. DOMAIN runs[c] = 0..(len[c] - 1) /\ \A i \in 0..(len[c] - 1) : runs[c][i] \in Nat
        BY <4>1
      <4> QED BY <4>2
    <3> QED BY <1>0, <3>1, <3>2 DEF RunTypes
  <2> QED BY <1>0, <1>5, <2>1, <2>2 DEF RunInline, callVars, channels, TypeOK, ChannelTypes, CallTypes
<1>6. CASE SubmitRange(c)
  <2> DEFINE m == [call |-> c, start |-> sentTo[c], end |-> RangeEnd(len[c], sentTo[c])]
  <2>1. len[c] \in Nat /\ sentTo[c] \in Nat /\ ~Inline(len[c])
    BY <1>0, <1>6, PoolAssumption DEF SubmitRange, CallTypes
  <2>2. Chunk(len[c]) \in Nat
    BY <2>1, ChunkIsNat
  <2>3. m \in Work
    BY <2>1, <2>2 DEF Work, RangeEnd, Min2
  <2>4. SendPush(c, Pool, m, "sending") /\ "sending" \in Labels
    BY <1>6 DEF SubmitRange, Labels
  <2> HIDE DEF m
  <2>5. ChannelTypes' /\ pc' \in [Threads -> Labels]
    BY <1>0, <2>3, <2>4, SendTypes
  <2>6. CallTypes'
    BY <1>0, <1>6, <2>1, <2>2 DEF SubmitRange, CallTypes
  <2> QED BY <1>0, <1>6, <2>5, <2>6 DEF SubmitRange, TypeOK, RunTypes
<1>7. CASE AwaitPop(c)
  <2>1. awaited[c] > 0 /\ awaited' = [awaited EXCEPT ![c] = @ - 1]
    BY <1>7, AwaitCounts DEF AwaitPop
  <2>2. awaited' \in [Calls -> Nat]
    BY <1>0, <2>1 DEF CallTypes
  <2>3. ChannelTypes' /\ pc' \in [Threads -> Labels]
    BY <1>0, <1>7, PopTypes DEF AwaitPop
  <2> QED BY <1>0, <1>7, <2>2, <2>3 DEF AwaitPop, TypeOK, CallTypes, RunTypes
<1> QED BY <1>2, <1>3, <1>4, <1>5, <1>6, <1>7 DEF CallStep

(* The steps of a worker, which reports to a call because it holds a Work  *)
LEMMA RunStepTypes ==
    ASSUME IInv, NEW w \in Workers, RunStep(w)
    PROVE  TypeOK'
<1> USE Distinct
<1>0. TypeOK /\ ChannelTypes /\ CallTypes /\ RunTypes
  BY DEF IInv, TypeOK, ChannelTypes, CallTypes, RunTypes
<1>1. SUFFICES ChannelTypes' /\ CallTypes' /\ RunTypes' /\ work' \in [Workers -> Work \cup {NoWork}]
               /\ pc' \in [Threads -> Labels]
  BY DEF TypeOK, ChannelTypes, CallTypes, RunTypes
<1>2. pc[w] \in InHand => work[w].call \in Calls /\ work[w].call \in Channels
  BY DEF IInv, CallInv, Work
<1>3. {"sending", "sent", "run", "drop sender", "complete", "poll"} \subseteq Labels
  BY DEF Labels
<1>4. CallTypes'
  BY <1>0 DEF RunStep, WorkerPop, WorkerStep, WorkerStart, WorkerRun, CompleteSend, CompleteBump,
              CompleteWake, DropSender, CallTypes, callVars
<1>5. CASE WorkerStep(w) \/ WorkerStart(w) \/ CompleteBump(w) \/ CompleteWake(w)
  <2>1. ChannelTypes' /\ pc' \in [Threads -> Labels]
    <3>1. CASE WorkerStep(w)
      BY <1>0, <1>3, <3>1, WaitingTypes DEF WorkerStep
    <3>2. CASE WorkerStart(w)
      BY <1>0, <1>3, <3>2, WaitingTypes DEF WorkerStart
    <3>3. CASE CompleteBump(w)
      <4>1. work[w].call \in Channels
        BY <1>2, <3>3 DEF CompleteBump, InHand
      <4> QED BY <1>0, <1>3, <3>3, <4>1, WaitingTypes DEF CompleteBump
    <3>4. CASE CompleteWake(w)
      <4>1. work[w].call \in Channels
        BY <1>2, <3>4 DEF CompleteWake, InHand
      <4> QED BY <1>0, <1>3, <3>4, <4>1, WaitingTypes DEF CompleteWake
    <3> QED BY <1>5, <3>1, <3>2, <3>3, <3>4
  <2>2. UNCHANGED <<callVars, work, runs>>
    BY <1>5 DEF WorkerStep, WorkerStart, CompleteBump, CompleteWake
  <2> QED BY <1>0, <1>4, <2>1, <2>2 DEF TypeOK, RunTypes, callVars
<1>6. CASE DropSender(w)
  <2>1. Goto(w, "poll")
    BY <1>6 DEF DropSender, Step
  <2>2. ChannelTypes'
    BY <1>0, <1>6 DEF DropSender, NextEpoch, ChannelTypes
  <2>3. pc' \in [Threads -> Labels]
    BY <1>0, <1>3, <2>1, GotoTypes
  <2> QED BY <1>0, <1>4, <1>6, <2>2, <2>3 DEF DropSender, TypeOK, RunTypes, callVars
<1>7. CASE WorkerPop(w)
  <2>1. ChannelTypes' /\ pc' \in [Threads -> Labels] /\ Head(queue[Pool]) \in Work
    BY <1>0, <1>7, PopTypes DEF WorkerPop
  <2> QED BY <1>0, <1>4, <1>7, <2>1 DEF WorkerPop, TypeOK, RunTypes, callVars
<1>8. CASE WorkerRun(w)
  <2>1. Goto(w, "complete")
    BY <1>8 DEF WorkerRun, Step
  <2>2. pc' \in [Threads -> Labels]
    BY <1>0, <1>3, <2>1, GotoTypes
  <2>3. RunTypes'
    <3> DEFINE c == work[w].call
               f == [i \in DOMAIN runs[c] |-> IF i \in work[w].start..(work[w].end - 1)
                                              THEN runs[c][i] + 1 ELSE runs[c][i]]
    <3>1. c \in Calls
      BY <1>2, <1>8 DEF WorkerRun, Step, InHand, Held, Unrun
    <3>2. runs' = [runs EXCEPT ![c] = f] /\ UNCHANGED len
      BY <1>8 DEF WorkerRun, callVars
    <3>3. f \in [0..(len[c] - 1) -> Nat]
      <4>1. runs[c] \in [0..(len[c] - 1) -> Nat]
        BY <1>0, <3>1 DEF RunTypes
      <4>2. DOMAIN runs[c] = 0..(len[c] - 1) /\ \A i \in 0..(len[c] - 1) : runs[c][i] \in Nat
        BY <4>1
      <4> HIDE DEF c
      <4> QED BY <4>2
    <3> HIDE DEF c, f
    <3> QED BY <1>0, <3>1, <3>2, <3>3 DEF RunTypes
  <2> QED BY <1>0, <1>4, <1>8, <2>2, <2>3 DEF WorkerRun, TypeOK, ChannelTypes, channels
<1>9. CASE CompleteSend(w)
  <2>1. work[w].call \in Calls
    BY <1>2, <1>9 DEF CompleteSend, InHand, Held
  <2>2. ChannelTypes' /\ pc' \in [Threads -> Labels]
    BY <1>0, <1>3, <1>9, <2>1, SendTypes DEF CompleteSend
  <2> QED BY <1>0, <1>4, <1>9, <2>2 DEF CompleteSend, TypeOK, RunTypes, callVars
<1> QED BY <1>5, <1>6, <1>7, <1>8, <1>9 DEF RunStep
---------------------------------------------------------------------------
(* The once-cell.  Only the thread that won the exchange starts workers,   *)
(* and it starts one that was not started.                                 *)
LEMMA BuildKeepsCell ==
    ASSUME IInv, NEW c \in Calls,
           \/ CellGet(c) \/ CellClaim(c) \/ DropReceiver(c) \/ CellStore(c) \/ CellSpin(c)
    PROVE  CellInv'
<1>0. UNCHANGED started /\ CellInv /\ cell \in 0..2
  BY DEF CellGet, CellClaim, DropReceiver, CellStore, CellSpin, callVars, IInv, TypeOK
<1>1. ASSUME NEW label, Goto(c, label)
      PROVE  pc'[c] = label /\ \A d \in Calls : d # c => pc'[d] = pc[d]
  BY <1>1, Distinct DEF Goto, IInv, TypeOK
<1>2. CASE CellGet(c) \/ CellSpin(c) \/ DropReceiver(c)
  <2>1. /\ UNCHANGED cell /\ \A d \in Calls : d # c => pc'[d] = pc[d]
        /\ \/ pc[c] = "get" /\ pc'[c] = IF cell = 2 THEN "split" ELSE "claim"
           \/ pc[c] = "spin" /\ cell = 2 /\ pc'[c] = "split"
           \/ pc[c] = "drop receiver" /\ pc'[c] = "store"
    BY <1>1, <1>2 DEF CellGet, CellSpin, DropReceiver, Step, callVars
  <2> QED BY <1>0, <2>1 DEF CellInv, Building, Before
<1>3. CASE CellClaim(c)
  <2>1. /\ pc[c] = "claim" /\ \A d \in Calls : d # c => pc'[d] = pc[d]
        /\ IF cell = 0 THEN cell' = 1 /\ pc'[c] = "init" ELSE cell' = cell /\ pc'[c] = "spin"
    BY <1>1, <1>3 DEF CellClaim, Claimed
  <2>2. CASE cell = 0
    <3>1. \A d \in Calls : pc[d] \in Before /\ pc[d] \notin Building
      <4>1. cell # 1 /\ cell # 2
        BY <2>2
      <4> HIDE DEF Before, Building
      <4> QED BY <1>0, <4>1 DEF CellInv
    <3>2. \A d \in Calls : /\ pc'[d] \in Building => d = c
                           /\ pc'[d] \in Before
                           /\ pc'[d] \notin {"drop receiver", "store"}
      BY <2>1, <2>2, <3>1 DEF Before, Building
    <3>3. (\A w \in Workers : started'[w] = 0) /\ cell' = 1
      BY <1>0, <2>1, <2>2 DEF CellInv
    <3>4. cell' # 0 /\ cell' # 2 /\ \E w \in Workers : started'[w] = 0
      BY <3>3, PoolAssumption
    <3> QED BY <3>2, <3>3, <3>4 DEF CellInv
  <2>3. CASE cell # 0
    <3>1. \A d \in Calls : \/ pc'[d] = pc[d]
                           \/ pc'[d] = "spin"
      BY <2>1, <2>3
    <3>2. \A d \in Calls : pc'[d] \in Building \/ pc'[d] \notin Before => pc'[d] = pc[d]
      BY <3>1 DEF Building, Before
    <3>3. cell' = cell
      BY <2>1, <2>3
    <3> QED BY <1>0, <3>2, <3>3 DEF CellInv, Building
  <2> QED BY <2>2, <2>3
<1>4. CASE CellStore(c)
  <2>1. /\ pc[c] = "store" /\ pc'[c] = "split" /\ cell' = 2
        /\ \A d \in Calls : d # c => pc'[d] = pc[d]
    BY <1>1, <1>4 DEF CellStore, Step
  <2>2. /\ \A w \in Workers : started[w] = 1
        /\ \A d \in Calls : pc[d] \in Building => d = c
    BY <1>0, <2>1 DEF CellInv, Building
  <2>3. \A d \in Calls : pc'[d] \notin Building
    BY <2>1, <2>2 DEF Building
  <2>4. \A d \in Calls : pc'[d] # "init" /\ pc'[d] # "drop receiver" /\ pc'[d] # "store"
    BY <2>3 DEF Building
  <2>5. cell' # 0 /\ cell' = 2
    BY <2>1
  <2> QED BY <1>0, <2>2, <2>3, <2>4, <2>5 DEF CellInv
<1> QED BY <1>2, <1>3, <1>4

(* The worker that is started is one that was not: the least count of      *)
(* starts is 0 while the pool is built.                                    *)
LEMMA SpawnKeepsCell ==
    ASSUME IInv, NEW c \in Calls, SpawnWorker(c)
    PROVE  CellInv'
<1>1. /\ pc[c] = "init" /\ cell = 1 /\ \A v \in Workers : started[v] \in {0, 1}
      /\ \E v \in Workers : started[v] = 0
  BY DEF SpawnWorker, IInv, CellInv, Building
<1>2. PICK w \in Workers :
        /\ started[w] = Min({started[v] : v \in Workers})
        /\ started' = [started EXCEPT ![w] = @ + 1]
        /\ pc' = [pc EXCEPT ![w] = IF pc[w] = "off" THEN "poll" ELSE @,
                            ![c] = IF \A v \in Workers \ {w} : started[v] > started[w]
                                     THEN "drop receiver" ELSE @]
  BY DEF SpawnWorker
<1>3. Min({started[v] : v \in Workers}) = 0
  <2> DEFINE S == {started[v] : v \in Workers}
  <2>1. S \subseteq {0, 1} /\ 0 \in S
    BY <1>1
  <2>2. \A x \in S : 0 <= x
    BY <2>1
  <2>3. \A x \in S : (\A y \in S : x <= y) => x = 0
    <3> SUFFICES ASSUME NEW x \in S, \A y \in S : x <= y PROVE x = 0
      OBVIOUS
    <3>1. x <= 0 /\ x \in {0, 1}
      BY <2>1
    <3> QED BY <3>1
  <2> HIDE DEF S
  <2>4. Min(S) \in S /\ \A y \in S : Min(S) <= y
    BY <2>1, <2>2 DEF Min
  <2>5. Min(S) = 0
    BY <2>3, <2>4
  <2> QED BY <2>5 DEF S
<1>4. /\ started'[w] = 1 /\ \A v \in Workers \ {w} : started'[v] = started[v]
      /\ \A d \in Calls \ {c} : pc'[d] = pc[d]
      /\ pc'[c] = IF \A v \in Workers \ {w} : started[v] > 0 THEN "drop receiver" ELSE "init"
  <2>1. started[w] = 0 /\ started \in [Workers -> Nat] /\ pc \in [Threads -> Labels]
    BY <1>2, <1>3 DEF IInv, TypeOK
  <2>2. started'[w] = 1 /\ \A v \in Workers \ {w} : started'[v] = started[v]
    BY <1>2, <2>1, Incremented
  <2>3. pc'[c] = (IF \A v \in Workers \ {w} : started[v] > started[w] THEN "drop receiver" ELSE pc[c])
    BY <1>2, <2>1, Distinct
  <2>4. \A d \in Calls \ {c} : pc'[d] = pc[d]
    BY <1>2, <2>1, Distinct
  <2> QED BY <1>1, <2>1, <2>2, <2>3, <2>4
<1>5. CASE \A v \in Workers \ {w} : started[v] > 0
  <2>1. \A v \in Workers : started'[v] = 1
    <3> SUFFICES ASSUME NEW v \in Workers, v # w PROVE started[v] = 1
      BY <1>4
    <3>1. started[v] > 0 /\ started[v] \in {0, 1}
      BY <1>1, <1>5
    <3> QED BY <3>1
  <2>2. pc'[c] = "drop receiver" /\ UNCHANGED cell
    BY <1>4, <1>5 DEF SpawnWorker
  <2>3. \A d \in Calls : pc'[d] \in Building => d = c
    BY <1>1, <1>4 DEF IInv, CellInv, Building
  <2>4. \A d \in Calls : pc'[d] \in Before
    <3>1. \A d \in Calls : pc[d] \notin Before => cell = 2
      BY DEF IInv, CellInv
    <3>2. cell # 2
      BY <1>1
    <3> QED BY <1>4, <2>2, <3>1, <3>2 DEF Before
  <2> QED BY <1>1, <2>1, <2>2, <2>3, <2>4 DEF CellInv, Building
<1>6. CASE ~\A v \in Workers \ {w} : started[v] > 0
  <2>1. PICK v \in Workers \ {w} : started'[v] = 0
    BY <1>1, <1>4, <1>6
  <2>2. \A u \in Workers : started'[u] \in {0, 1}
    BY <1>1, <1>4
  <2> QED BY <1>1, <1>4, <1>6, <2>1, <2>2 DEF IInv, CellInv, Building, Before, SpawnWorker
<1> QED BY <1>5, <1>6

(* All other steps are of threads that have passed the cell.               *)
LEMMA OthersKeepCell ==
    ASSUME IInv, UNCHANGED <<cell, started>>,
           \A c \in Calls : pc'[c] = pc[c] \/ (pc[c] \notin Before /\ pc'[c] \notin Before)
    PROVE  CellInv'
<1>1. \A c \in Calls : /\ pc'[c] \in Building => pc'[c] = pc[c]
                       /\ pc'[c] \in Before => pc'[c] = pc[c]
                       /\ pc'[c] \notin Before => pc[c] \notin Before
  BY DEF Building, Before
<1> QED BY <1>1 DEF IInv, CellInv, Building, Before

(* Which calls move, and how: every step of a call past the cell, and of a *)
(* worker, leaves the cell alone.                                          *)
LEMMA CallsKeepCell ==
    ASSUME IInv, NEW c \in Calls, CallStep(c)
    PROVE  CellInv'
<1>1. CASE CellGet(c) \/ CellClaim(c) \/ DropReceiver(c) \/ CellStore(c) \/ CellSpin(c)
  BY <1>1, BuildKeepsCell
<1>2. CASE SpawnWorker(c)
  BY <1>2, SpawnKeepsCell
<1>3. CASE RunInline(c) \/ SubmitRange(c) \/ SubmitBump(c) \/ SubmitWake(c) \/ AwaitPop(c)
             \/ AwaitStep(c) \/ AwaitDone(c)
  <2>1. UNCHANGED <<cell, started>>
    BY <1>3 DEF RunInline, SubmitRange, SubmitBump, SubmitWake, AwaitPop, AwaitStep, AwaitDone,
                callVars
  <2>2. \E label : label \notin Before /\ Goto(c, label) /\ pc[c] \notin Before
    BY <1>3 DEF RunInline, SubmitRange, SubmitBump, SubmitWake, AwaitPop, AwaitStep, AwaitDone,
                SendPush, Bump, WakeUnlock, RecvPop, Receiving, RecvEmpty, RecvObserve,
                RecvRecheck, RecvWait, Step, Before
  <2>3. \A d \in Calls : pc'[d] = pc[d] \/ (pc[d] \notin Before /\ pc'[d] \notin Before)
    BY <2>2, Distinct DEF Goto, IInv, TypeOK
  <2> QED BY <2>1, <2>3, OthersKeepCell
<1> QED BY <1>1, <1>2, <1>3 DEF CallStep

(* A worker moves no call, and every step of it is one of its own.         *)
LEMMA WorkersMove ==
    ASSUME IInv, NEW w \in Workers, RunStep(w)
    PROVE  /\ UNCHANGED callVars
           /\ \A c \in Calls : pc'[c] = pc[c]
           /\ \A v \in Workers \ {w} : pc'[v] = pc[v] /\ work'[v] = work[v]
           /\ pc'[w] \in InHand => work'[w] \in Work
<1>1. UNCHANGED callVars
  BY DEF RunStep, WorkerPop, WorkerStep, WorkerStart, WorkerRun, CompleteSend, CompleteBump,
         CompleteWake, DropSender
<1>2. \E label : Goto(w, label)
  BY DEF RunStep, WorkerPop, WorkerStep, WorkerStart, WorkerRun, CompleteSend, CompleteBump,
         CompleteWake, DropSender, SendPush, Bump, WakeUnlock, RecvPop, Receiving, RecvEmpty,
         RecvObserve, RecvRecheck, RecvWait, Step
<1>3. \A t \in Threads \ {w} : pc'[t] = pc[t]
  BY <1>2 DEF Goto, IInv, TypeOK
<1>4. /\ \A v \in Workers \ {w} : work'[v] = work[v]
      /\ ~WorkerPop(w) /\ ~DropSender(w) => work' = work
  BY DEF RunStep, WorkerPop, WorkerStep, WorkerStart, WorkerRun, CompleteSend, CompleteBump,
         CompleteWake, DropSender, IInv, TypeOK
<1>5. pc'[w] \in InHand => work'[w] \in Work
  <2>1. pc[w] \in InHand => work[w] \in Work
    BY DEF IInv, CallInv
  <2>2. w \in Threads /\ pc \in [Threads -> Labels]
    BY Distinct DEF IInv, TypeOK
  <2>3. CASE WorkerPop(w)
    <3>1. Head(queue[Pool]) \in Work
      BY <2>3, PopTypes, Distinct DEF WorkerPop, IInv
    <3> QED BY <2>3, <3>1 DEF WorkerPop, IInv, TypeOK
  <2>4. CASE DropSender(w)
    BY <2>2, <2>4 DEF DropSender, Step, Goto, InHand, Held, Unrun
  <2>5. CASE WorkerStep(w)
    BY <1>4, <2>1, <2>2, <2>5 DEF WorkerStep, Receiving, RecvEmpty, RecvObserve, RecvRecheck,
       RecvWait, Bump, WorkerPop, DropSender, RecvPop, Step, Goto, InHand, Held, Unrun
  <2>6. CASE WorkerStart(w) \/ WorkerRun(w) \/ CompleteSend(w) \/ CompleteBump(w) \/ CompleteWake(w)
    <3>1. pc[w] \in InHand /\ UNCHANGED work
      BY <2>6 DEF WorkerStart, WorkerRun, CompleteSend, CompleteBump, CompleteWake, WakeUnlock,
                  Step, InHand, Held, Unrun
    <3> QED BY <2>1, <3>1
  <2> QED BY <2>3, <2>4, <2>5, <2>6 DEF RunStep
<1> QED BY <1>1, <1>3, <1>4, <1>5, Distinct

(* Where a call is and what it has sent, in its own steps                  *)
LEMMA CallsKeepCalls ==
    ASSUME IInv, NEW c \in Calls, CallStep(c)
    PROVE  CallInv'
<1>1. /\ \A d \in Calls \ {c} : pc'[d] = pc[d] /\ sentTo'[d] = sentTo[d] /\ awaited'[d] = awaited[d]
      /\ UNCHANGED <<len, work>>
      /\ \A w \in Workers : pc'[w] \in InHand => pc[w] \in InHand
  <2>1. CASE SpawnWorker(c)
    <3>1. PICK w \in Workers, label \in {pc[c], "drop receiver"} :
            pc' = [pc EXCEPT ![w] = IF pc[w] = "off" THEN "poll" ELSE @, ![c] = label]
      BY <2>1 DEF SpawnWorker
    <3>2. /\ \A v \in Workers : pc'[v] = pc[v] \/ pc'[v] = "poll"
          /\ \A d \in Calls \ {c} : pc'[d] = pc[d]
      BY <3>1, Distinct DEF IInv, TypeOK
    <3> QED BY <2>1, <3>2 DEF SpawnWorker, InHand, Held, Unrun
  <2>2. CASE ~SpawnWorker(c)
    <3>1. \E label : Goto(c, label)
      BY <2>2 DEF CallStep, CellGet, CellClaim, DropReceiver, CellStore, CellSpin, RunInline,
         SubmitRange, SubmitBump, SubmitWake, AwaitPop, AwaitStep, AwaitDone, SendPush, Bump,
         WakeUnlock, RecvPop, Receiving, RecvEmpty, RecvObserve, RecvRecheck, RecvWait, Step
    <3>2. \A t \in Threads \ {c} : pc'[t] = pc[t]
      BY <3>1 DEF Goto, IInv, TypeOK
    <3>3. /\ \A d \in Calls \ {c} : sentTo'[d] = sentTo[d] /\ awaited'[d] = awaited[d]
          /\ UNCHANGED <<len, work>>
      BY <2>2 DEF CallStep, CellGet, CellClaim, DropReceiver, CellStore, CellSpin, RunInline,
         SubmitRange, SubmitBump, SubmitWake, AwaitPop, AwaitStep, AwaitDone, callVars, IInv, TypeOK
    <3> QED BY <3>2, <3>3, Distinct
  <2> QED BY <2>1, <2>2
<1>2. CASE \/ CellGet(c) \/ CellClaim(c) \/ SpawnWorker(c) \/ DropReceiver(c) \/ CellStore(c)
           \/ CellSpin(c)
  <2>1. /\ UNCHANGED <<sentTo, awaited>> /\ pc[c] \in Before /\ pc'[c] \in Before \cup {"split"}
    BY <1>2, Distinct DEF CellGet, CellClaim, SpawnWorker, DropReceiver, CellStore, CellSpin, Goto,
       Step, callVars, Before, IInv, TypeOK
  <2> QED BY <1>1, <2>1 DEF IInv, CallInv, CallLabels, Before, Awaiting
<1>3. CASE RunInline(c)
  <2>1. UNCHANGED <<sentTo, awaited>> /\ Inline(len[c]) /\ pc'[c] = "returned"
    BY <1>3, Distinct DEF RunInline, Goto, Step, callVars, IInv, TypeOK
  <2> QED BY <1>1, <2>1 DEF IInv, CallInv, CallLabels, Before, Awaiting
<1>4. CASE SubmitRange(c)
  <2>1. ~Inline(len[c]) /\ pc'[c] = "sending"
    BY <1>4, Distinct DEF SubmitRange, SendPush, Goto, IInv, TypeOK
  <2> QED BY <1>1, <2>1 DEF IInv, CallInv, CallLabels, Before, Awaiting
<1>5. CASE SubmitBump(c) \/ SubmitWake(c)
  <2>1. /\ UNCHANGED <<sentTo, awaited>> /\ pc[c] \in {"sending", "sent"}
        /\ pc'[c] \in {"sent", "split", "poll"} /\ (pc'[c] = "poll" => ~(sentTo[c] < len[c]))
    BY <1>5, Distinct DEF SubmitBump, SubmitWake, Bump, WakeUnlock, Goto, Step, callVars, IInv, TypeOK
  <2>2. ~(sentTo[c] < len[c]) => sentTo[c] >= len[c]
    <3>1. sentTo[c] \in Nat /\ len[c] \in Nat
      BY PoolAssumption DEF IInv, TypeOK
    <3> QED BY <3>1
  <2>3. ~Inline(len[c])
    BY <2>1 DEF IInv, CallInv, Before
  <2> QED BY <1>1, <2>1, <2>2, <2>3 DEF IInv, CallInv, CallLabels, Before, Awaiting
<1>6. CASE AwaitPop(c) \/ AwaitStep(c) \/ AwaitDone(c)
  <2>1. /\ UNCHANGED sentTo /\ pc[c] \in Awaiting /\ pc'[c] \in Awaiting \cup {"returned"}
        /\ pc'[c] = "returned" => UNCHANGED awaited /\ ~(awaited[c] > 0)
    BY <1>6, Distinct DEF AwaitPop, AwaitStep, AwaitDone, AwaitsMore, RecvPop, Receiving, RecvEmpty,
       RecvObserve, RecvRecheck, RecvWait, Bump, WakeUnlock, Goto, Step, callVars, Awaiting,
       IInv, TypeOK
  <2>2. ~(awaited[c] > 0) => awaited[c] = 0
    BY DEF IInv, TypeOK
  <2>3. ~Inline(len[c])
    BY <2>1 DEF IInv, CallInv, Before, Awaiting
  <2> QED BY <1>1, <2>1, <2>2, <2>3 DEF IInv, CallInv, CallLabels, Before, Awaiting
<1> QED BY <1>2, <1>3, <1>4, <1>5, <1>6 DEF CallStep

(* ... and in the steps of a worker, which are no call's                   *)
LEMMA WorkersKeepCalls ==
    ASSUME IInv, NEW w \in Workers, RunStep(w)
    PROVE  CellInv' /\ CallInv'
<1>1. CellInv'
  BY WorkersMove, OthersKeepCell DEF callVars
<1>2. /\ UNCHANGED <<len, sentTo, awaited>> /\ \A c \in Calls : pc'[c] = pc[c]
      /\ \A v \in Workers : pc'[v] \in InHand => work'[v] \in Work
  <2>1. \A v \in Workers : pc[v] \in InHand => work[v] \in Work
    BY DEF IInv, CallInv
  <2> QED BY <2>1, WorkersMove DEF callVars
<1> QED BY <1>1, <1>2 DEF IInv, CallInv
---------------------------------------------------------------------------
(* The invariant holds of the initial states, ...                          *)
LEMMA InitIInv ==
    Init => IInv
<1> SUFFICES ASSUME Init PROVE IInv
  OBVIOUS
<1> USE Distinct
<1>1. TypeOK
  <2>1. pc \in [Threads -> Labels]
    BY DEF Init, Labels
  <2>2. /\ queue[Pool] = <<>> /\ \A c \in Calls : queue[c] = <<>>
        /\ <<>> \in Seq(Work) /\ <<>> \in Seq({"done"})
    BY EmptySeq DEF Init
  <2> QED BY <2>1, <2>2 DEF Init, TypeOK, Channels
<1>2. /\ cell = 0 /\ \A c \in Calls : pc[c] = "get" /\ sentTo[c] = 0 /\ awaited[c] = 0
      /\ \A w \in Workers : started[w] = 0 /\ pc[w] = "off"
      /\ \A ch \in Channels : queue[ch] = <<>>
      /\ \A c \in Calls : \A i \in 0..(len[c] - 1) : runs[c][i] = 0
  BY DEF Init, Threads
<1>3. CellInv
  <2>1. \A c \in Calls : pc[c] \in Before /\ pc[c] \notin Building
    BY <1>2 DEF Before, Building
  <2>2. cell # 2
    BY <1>2
  <2> QED BY <1>2, <2>1, <2>2 DEF CellInv, Building
<1>4. CallInv
  BY <1>2 DEF CallInv, CallLabels, Before, Awaiting, InHand, Held, Unrun
<1>5. queue[Pool] = <<>> /\ DOMAIN queue[Pool] = {} /\ \A c \in Calls : Len(queue[c]) = 0
  BY <1>2, EmptySeq
<1>6. CountInv
  <2>1. \A c \in Calls : Queued(c) = {} /\ Holding(c) = {}
    BY <1>2, <1>5 DEF Queued, Holding, Held, Unrun
  <2>2. Cardinality({}) = 0 /\ 0 + 0 + 0 = 0
    BY FS_EmptySet
  <2>3. \A c \in Calls : awaited[c] = 0 /\ Len(queue[c]) = 0
    BY <1>2, <1>5
  <2>4. ASSUME NEW c \in Calls
        PROVE  awaited[c] = Cardinality(Queued(c)) + Cardinality(Holding(c)) + Len(queue[c])
    BY <2>1, <2>2, <2>3
  <2> QED BY <2>4 DEF CountInv
<1>7. RangeInv
  <2> SUFFICES ASSUME NEW c \in Calls, NEW i \in 0..(len[c] - 1) PROVE IndexInv(c, i)
    BY DEF RangeInv
  <2>1. ~(i < sentTo[c]) /\ \A w \in Workers : ~HandCovers(w, c, i)
    BY <1>2 DEF HandCovers, Unrun
  <2> QED BY <1>2, <1>5, <2>1 DEF IndexInv
<1> QED BY <1>1, <1>3, <1>4, <1>6, <1>7 DEF IInv

(* ... and every step keeps it.                                            *)
LEMMA NextIInv ==
    IInv /\ [Next]_vars => IInv'
<1> SUFFICES ASSUME IInv, [Next]_vars PROVE IInv'
  OBVIOUS
<1>1. ASSUME NEW c \in Calls, CallStep(c) PROVE IInv'
  <2>1. TypeOK' /\ CellInv' /\ CallInv'
    BY <1>1, CallStepTypes, CallsKeepCell, CallsKeepCalls
  <2>2. CASE \/ CellGet(c) \/ CellClaim(c) \/ SpawnWorker(c) \/ DropReceiver(c) \/ CellStore(c)
             \/ CellSpin(c) \/ SubmitBump(c) \/ SubmitWake(c) \/ AwaitStep(c) \/ AwaitDone(c)
    BY <2>1, <2>2, QuietCalls, QuietCounts, QuietRanges DEF IInv
  <2>3. CASE RunInline(c)
    BY <2>1, <2>3, InlineCounts, InlineRanges DEF IInv
  <2>4. CASE SubmitRange(c)
    BY <2>1, <2>4, SubmitCounts, SubmitRanges DEF IInv
  <2>5. CASE AwaitPop(c)
    BY <2>1, <2>5, AwaitCounts, AwaitRanges DEF IInv
  <2> QED BY <1>1, <2>2, <2>3, <2>4, <2>5 DEF CallStep
<1>2. ASSUME NEW w \in Workers, RunStep(w) PROVE IInv'
  <2>1. TypeOK' /\ CellInv' /\ CallInv'
    BY <1>2, RunStepTypes, WorkersKeepCalls
  <2>2. CASE WorkerStep(w) \/ WorkerStart(w) \/ CompleteBump(w) \/ CompleteWake(w) \/ DropSender(w)
    BY <2>1, <2>2, QuietWorkers, QuietCounts, QuietRanges DEF IInv
  <2>3. CASE WorkerPop(w)
    BY <2>1, <2>3, TakeCounts, TakeRanges DEF IInv
  <2>4. CASE WorkerRun(w)
    BY <2>1, <2>4, RunCounts, RunRanges DEF IInv
  <2>5. CASE CompleteSend(w)
    BY <2>1, <2>5, CompleteCounts, CompleteRanges DEF IInv
  <2> QED BY <1>2, <2>2, <2>3, <2>4, <2>5 DEF RunStep
<1>3. CASE UNCHANGED vars \/ \E t \in Threads, ch \in Channels : SpuriousWake(t, ch)
  <2>1. UNCHANGED <<pc, cell, started, len, sentTo, awaited, work, queue, lock, fresh, runs>>
    BY <1>3 DEF vars, SpuriousWake, callVars
  <2>2. asleep' \in [Channels -> SUBSET Threads]
    BY <1>3 DEF vars, SpuriousWake, IInv, TypeOK
  <2>3. TypeOK'
    BY <2>1, <2>2 DEF IInv, TypeOK
  <2>4. CellInv' /\ CallInv'
    BY <2>1 DEF IInv, CellInv, CallInv
  <2> QED BY <1>3, <2>3, <2>4, QuietOthers, QuietCounts, QuietRanges DEF IInv
<1> QED BY <1>1, <1>2, <1>3 DEF Next

(* The types of the model's state.                                         *)
THEOREM TypeCorrect ==
    Spec => []TypeOK
<1>1. IInv => TypeOK
  BY DEF IInv
<1> QED BY <1>1, InitIInv, NextIInv, PTL DEF Spec

(* OnceCell::get_or_init builds the pool once, for any number of threads   *)
(* that call it first.                                                     *)
THEOREM PoolIsBuiltOnce ==
    Spec => []PoolBuiltOnce
<1>1. IInv => PoolBuiltOnce
  <2> SUFFICES ASSUME IInv PROVE PoolBuiltOnce
    OBVIOUS
  <2>1. CellInv /\ cell \in 0..2
    BY DEF IInv, TypeOK
  <2>2. \A w \in Workers : started[w] <= 1
    <3>1. \A w \in Workers : started[w] \in {0, 1}
      BY <2>1 DEF CellInv
    <3> QED BY <3>1
  <2> QED BY <2>1, <2>2 DEF CellInv, PoolBuiltOnce, Before
<1> QED BY <1>1, InitIInv, NextIInv, PTL DEF Spec

(* for_each_range returns only when no worker can use its operation any    *)
(* more: the unsafe dereference of work.context is sound.                  *)
THEOREM BorrowIsSound ==
    Spec => []BorrowOutlivesUse
<1>1. IInv => BorrowOutlivesUse
  <2> SUFFICES ASSUME IInv, NEW c \in Calls, pc[c] = "returned"
               PROVE  Queued(c) = {} /\ Holding(c) = {}
    BY DEF BorrowOutlivesUse, Queued, Holding, Held, Unrun
  <2>1. awaited[c] = 0
    BY DEF IInv, CallInv
  <2>2. awaited[c] = Cardinality(Queued(c)) + Cardinality(Holding(c)) + Len(queue[c])
    BY DEF IInv, CountInv
  <2>3. /\ IsFiniteSet(Queued(c)) /\ Cardinality(Queued(c)) \in Nat
        /\ IsFiniteSet(Holding(c)) /\ Cardinality(Holding(c)) \in Nat
        /\ Len(queue[c]) \in Nat
    BY CountsAreNat DEF IInv
  <2>4. Cardinality(Queued(c)) = 0 /\ Cardinality(Holding(c)) = 0
    BY <2>1, <2>2, <2>3
  <2> QED BY <2>3, <2>4, FS_EmptySet
<1> QED BY <1>1, InitIInv, NextIInv, PTL DEF Spec

(* The ranges of a call cover every index once, and all of them have been  *)
(* processed when it returns, for every length and number of workers.      *)
THEOREM IndicesProcessedOnce ==
    Spec => []EachIndexOnce
<1>1. IInv /\ BorrowOutlivesUse => EachIndexOnce
  <2> SUFFICES ASSUME IInv, BorrowOutlivesUse, NEW c \in Calls, NEW i \in DOMAIN runs[c]
               PROVE  runs[c][i] <= 1 /\ (pc[c] = "returned" => runs[c][i] = 1)
    BY DEF EachIndexOnce
  <2>1. i \in 0..(len[c] - 1) /\ len[c] \in Nat /\ sentTo[c] \in Nat
    BY PoolAssumption DEF IInv, TypeOK
  <2>2. IndexInv(c, i)
    BY <2>1 DEF IInv, RangeInv
  <2>3. runs[c][i] \in {0, 1}
    BY <2>2 DEF IndexInv
  <2>4. ASSUME pc[c] = "returned", runs[c][i] = 0 PROVE FALSE
    <3>1. CASE Inline(len[c])
      BY <2>2, <2>4, <3>1 DEF IndexInv
    <3>2. CASE ~Inline(len[c])
      <4>1. sentTo[c] >= len[c]
        BY <2>4, <3>2 DEF IInv, CallInv
      <4>2. i < sentTo[c]
        BY <2>1, <4>1
      <4>3. \/ \E p \in DOMAIN queue[Pool] : QueueCovers(p, c, i)
            \/ \E w \in Workers : HandCovers(w, c, i)
        BY <2>2, <2>4, <4>2 DEF IndexInv
      <4> QED BY <2>4, <4>3 DEF BorrowOutlivesUse, QueueCovers, HandCovers, Covers, Unrun
    <3> QED BY <3>1, <3>2
  <2> QED BY <2>3, <2>4
<1> QED BY <1>1, BorrowIsSound, InitIInv, NextIInv, PTL DEF Spec
=============================================================================
