------------------------------ MODULE Balance ------------------------------
(***************************************************************************)
(* The choice PeriodicBalancer::poll makes (mrml-kernel/src/scheduler.rs): *)
(* which processor should receive a task, from a snapshot of the loads.    *)
(***************************************************************************)
EXTENDS Integers

CONSTANTS CPUS,     \* number of processors
          CAPACITY, \* tasks a scheduler has room for
          Interval  \* interval_ticks of the policy

ASSUME BalanceAssumption ==
    CPUS \in Nat /\ CPUS >= 2 /\ CAPACITY \in Nat \ {0} /\ Interval \in Nat \ {0}

Cpus == 0 .. CPUS - 1

LoadType == [occupied : 0 .. CAPACITY, runnable : 0 .. CAPACITY]

\* SchedulerLoad::new accepts no other loads.
WellFormed(load) == load.runnable <= load.occupied

\* Offset of a processor in the rotation that starts at the cursor.
Offset(cursor, cpu) == IF cpu >= cursor THEN cpu - cursor ELSE cpu + CPUS - cursor

\* Mutant of Peers: one runnable task less is enough.
MutPeersEager(local, loads) ==
    {cpu \in Cpus \ {local} : /\ loads[cpu].occupied # CAPACITY
                              /\ loads[local].runnable >= loads[cpu].runnable + 1}

\* The peers that are worth sending to: not full, two runnable tasks behind.
Peers(local, loads) ==
    {cpu \in Cpus \ {local} : /\ loads[cpu].occupied # CAPACITY
                              /\ loads[local].runnable >= loads[cpu].runnable + 2}

\* (runnable, occupied) in lexicographic order
Lighter(a, b) == \/ a.runnable < b.runnable
                 \/ a.runnable = b.runnable /\ a.occupied < b.occupied

\* Mutant of SelectTarget: ties go to the lowest processor number.
MutSelectLowest(cursor, local, loads) ==
    CHOOSE cpu \in Peers(local, loads) : \A other \in Peers(local, loads) \ {cpu} :
        \/ Lighter(loads[cpu], loads[other])
        \/ ~Lighter(loads[other], loads[cpu]) /\ cpu < other

\* The lightest peer, the first of equals from the cursor on.
SelectTarget(cursor, local, loads) ==
    CHOOSE cpu \in Peers(local, loads) : \A other \in Peers(local, loads) \ {cpu} :
        \/ Lighter(loads[cpu], loads[other])
        \/ ~Lighter(loads[other], loads[cpu]) /\ Offset(cursor, cpu) < Offset(cursor, other)

NextCursor(cpu) == IF cpu + 1 = CPUS THEN 0 ELSE cpu + 1
=============================================================================
