--------------------------- MODULE MCTurnLifecycle ---------------------------
(* TurnLifecycle for TLC. *)
EXTENDS TurnLifecycle
=============================================================================
