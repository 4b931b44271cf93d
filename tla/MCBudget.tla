------------------------------ MODULE MCBudget ------------------------------
(* Agents of one tenant spend against small ceilings.                        *)
EXTENDS Budget
=============================================================================
