-------------------------- MODULE PeriodicBalancer --------------------------
(***************************************************************************)
(* PeriodicBalancer<CPUS> of mrml-kernel/src/scheduler.rs: a processor     *)
(* polls it with its tick counter and the loads the processors published.  *)
(* Ticks may be delayed, repeated or go back, and the counter may reach    *)
(* the end of its type.                                                    *)
(*                                                                         *)
(* The parts of the specification are PInit, PNext, ...:                   *)
(* DomainMigrationProofs extends it together with DomainMigration.         *)
(***************************************************************************)
EXTENDS Balance

CONSTANTS Local,   \* the polling processor
          MaxTick  \* u64::MAX in the code

ASSUME PeriodicBalancerAssumption == Local \in Cpus /\ MaxTick \in Nat /\ Interval <= MaxTick

VARIABLES nextTick,
          lastTick,
          pollCursor,  \* cursor
          snapshot,    \* the loads given to the last poll
          chosen,      \* the outcome of the last poll: a processor, or -1 for none
          moved,       \* history: the tick of the last selection, or -1
          served       \* history: the processors selected since the loads changed

pvars == <<nextTick, lastTick, pollCursor, snapshot, chosen, moved, served>>

None == -1

PTypeOK == /\ nextTick \in 0 .. MaxTick
           /\ lastTick \in 0 .. MaxTick
           /\ pollCursor \in Cpus
           /\ snapshot \in [Cpus -> LoadType]
           /\ chosen \in Cpus \cup {None}
           /\ moved \in 0 .. MaxTick \cup {None}
           /\ served \subseteq Cpus

Loads == {load \in LoadType : WellFormed(load)}

\* new with start_tick 0
PInit == /\ nextTick = Interval
         /\ lastTick = 0
         /\ pollCursor = 0
         /\ snapshot \in [Cpus -> Loads]
         /\ chosen = None
         /\ moved = None
         /\ served = {}

-----------------------------------------------------------------------------
\* A processor publishes another load between polls.
Republish(cpu, load) ==
    /\ load # snapshot[cpu]
    /\ snapshot' = [snapshot EXCEPT ![cpu] = load]
    /\ chosen' = None
    /\ served' = {}
    /\ UNCHANGED <<nextTick, lastTick, pollCursor, moved>>

\* A poll before the deadline, or with a tick that went back (TickRegression).
PollEarly(tick) ==
    /\ tick < nextTick \/ tick < lastTick
    /\ lastTick' = IF tick < lastTick THEN lastTick ELSE tick
    /\ chosen' = None
    /\ UNCHANGED <<nextTick, pollCursor, snapshot, moved, served>>

\* Mutant of Deadline: the next deadline follows the missed one, so a delayed
\* poll is followed by a burst.
MutDeadlineCatchesUp(tick) == nextTick' = nextTick + Interval

Deadline(tick) == nextTick' = tick + Interval

\* A poll on or after the deadline.
PollDue(tick) ==
    /\ tick >= nextTick /\ tick >= lastTick
    /\ tick + Interval <= MaxTick
    /\ lastTick' = tick
    /\ Deadline(tick)
    /\ IF Peers(Local, snapshot) = {}
       THEN /\ chosen' = None
            /\ UNCHANGED <<pollCursor, moved, served>>
       ELSE /\ chosen' = SelectTarget(pollCursor, Local, snapshot)
            /\ pollCursor' = NextCursor(chosen')
            /\ moved' = tick
            /\ served' = served \cup {chosen'}
    /\ UNCHANGED snapshot

\* TickExhausted: the deadline does not fit the counter.
PollExhausted(tick) ==
    /\ tick >= nextTick /\ tick >= lastTick
    /\ tick + Interval > MaxTick
    /\ lastTick' = tick
    /\ chosen' = None
    /\ UNCHANGED <<nextTick, pollCursor, snapshot, moved, served>>

Poll(tick) == PollEarly(tick) \/ PollDue(tick) \/ PollExhausted(tick)

PNext == (\E tick \in 0 .. MaxTick : Poll(tick)) \/ \E cpu \in Cpus, load \in Loads : Republish(cpu, load)

PSpec == PInit /\ [][PNext]_pvars

-----------------------------------------------------------------------------
(***************************************************************************)
(* Properties                                                              *)
(***************************************************************************)
\* "It suppresses catch-up bursts after delayed ticks": two selections are at
\* least an interval apart, however late the first one was.
NoBursts == [][chosen' # None /\ moved # None => moved' >= moved + Interval]_pvars

\* The lightest peers: those a stable topology must not starve.
Lightest(loads) == {cpu \in Peers(Local, loads) :
                       \A other \in Peers(Local, loads) : ~Lighter(loads[other], loads[cpu])}

\* "rotates equal-load peers so a stable topology cannot starve a
\* higher-numbered CPU": only a lightest peer is selected, and while the loads
\* stay the same none is selected again before every other one was.
RotatesEqualPeers ==
    [][chosen' # None => /\ chosen' \in Lightest(snapshot)
                         /\ snapshot' = snapshot /\ chosen' \in served
                               => Lightest(snapshot) \subseteq served]_pvars
=============================================================================
