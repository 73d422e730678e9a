---------------------------- MODULE MCVirtualGpu ----------------------------
(* One batch of two dispatches on the first buffer. *)
EXTENDS VirtualGpu

On(request) == [request |-> request, buffer |-> [slot |-> 1, generation |-> 1]]
MCBatches == {<<On("r1"), On("r2")>>}
=============================================================================
