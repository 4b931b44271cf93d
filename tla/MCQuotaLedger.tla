---------------------------- MODULE MCQuotaLedger ----------------------------
(* Two agents that may move between two groups and contend for the limiter.  *)
EXTENDS QuotaLedger, TLC

\* Neither agents nor groups have an order anywhere.
AllAlike == Permutations(Agents) \union Permutations(Groups)
=============================================================================
