---------------------------- MODULE MCSupervisor ----------------------------
(* Two services for TLC, the second of which requires the first. *)
EXTENDS Supervisor

BaseThenApp == <<"base", "app">>
AppOnBase == [s \in {"base", "app"} |-> IF s = "app" THEN {"base"} ELSE {}]
Policies == [s \in {"base", "app"} |-> "Always"]
=============================================================================
