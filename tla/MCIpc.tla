------------------------------- MODULE MCIpc -------------------------------
(***************************************************************************)
(* CapabilitySpace and IpcWire, the two halves of an IPC message: what it  *)
(* carries and how it is encoded.  They share no state, so each is         *)
(* explored with the other at rest, which reaches every state of both.     *)
(* The tasks that hold capability spaces are interchangeable.              *)
(***************************************************************************)
EXTENDS CapabilitySpace, IpcWire, TLC

BothInit == Init /\ WInit

BothNext == \/ Next /\ WInit /\ UNCHANGED wvars
            \/ WNext /\ Init /\ UNCHANGED vars

BothSpec == BothInit /\ [][BothNext]_<<vars, wvars>>

Symmetry == Permutations(Holders)
=============================================================================
