--------------------------- MODULE MCLlmScheduler ---------------------------
(* Three callers of two priorities contend for two cores. *)
EXTENDS LlmScheduler

CONSTANTS r1, r2, r3

MCNice == (r1 :> 0) @@ (r2 :> 0) @@ (r3 :> 2)
=============================================================================
