--------------------------- MODULE MCMutationFence ---------------------------
(* Small instances of the destination fence. *)
EXTENDS MutationFence
=============================================================================
