----------------------------- MODULE AgentNames -----------------------------
(***************************************************************************)
(* The agents of a kernel, whose calls the quota ledger and the budgets    *)
(* admit.  There are finitely many: each has a row in the database.        *)
(***************************************************************************)
EXTENDS FiniteSets

CONSTANT Agents

ASSUME FinitelyManyAgents == IsFiniteSet(Agents)
=============================================================================
