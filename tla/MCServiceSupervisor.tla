------------------------ MODULE MCServiceSupervisor ------------------------
(***************************************************************************)
(* ServiceSupervisor on a small instance: one policy that restarts at once *)
(* and one whose delay doubles and then saturates.                         *)
(***************************************************************************)
EXTENDS ServiceSupervisor, TLC

SomePolicies == {[maximum |-> 4, base |-> 0, cap |-> 0], [maximum |-> 2, base |-> 1, cap |-> 2]}

Symmetry == Permutations(Pages)
=============================================================================
