----------------------------- MODULE MCAuthority -----------------------------
(* Small instances of the replicated authority. *)
EXTENDS Authority, TLC

CONSTANTS na, nb, nc, f1, f2, f3, noLeaf

\* Two seed members, each behind a TLS listener.
TwoSeeds == (na :> f1) @@ (nb :> f2)

\* One seed member.
OneSeed == (na :> f1)

\* Agents are interchangeable: no command or property tells them apart.
AgentSymmetry == Permutations(Agents)
=============================================================================
