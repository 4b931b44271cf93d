----------------------------- MODULE MCToolGate -----------------------------
(* Small instances of ToolGate for TLC. *)
EXTENDS ToolGate

CONSTANTS a1, c1, c2, root, leaf
OneAgent == [c \in {c1, c2} |-> a1]
=============================================================================
