--------------------------- MODULE MCTaskRuntime ---------------------------
(***************************************************************************)
(* TaskRuntime on small instances: page tables are interchangeable.        *)
(***************************************************************************)
EXTENDS TaskRuntime, TLC

Symmetry == Permutations(Pages)
=============================================================================
