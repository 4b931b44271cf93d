------------------------- MODULE MCCorruptRecovery -------------------------
(* CorruptRecovery for TLC. *)
EXTENDS CorruptRecovery
=============================================================================
