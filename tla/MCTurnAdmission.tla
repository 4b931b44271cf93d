-------------------------- MODULE MCTurnAdmission --------------------------
(* Small instances of TurnAdmission for TLC. *)
EXTENDS TurnAdmission

\* One nice value whose weight makes a token cost three units of virtual runtime.
TwoNices == {0, 5}
=============================================================================
