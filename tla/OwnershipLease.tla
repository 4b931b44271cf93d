---------------------------- MODULE OwnershipLease ----------------------------
(***************************************************************************)
(* What the cluster authority promises about one agent: a lease with a     *)
(* fencing token.  The replicated authority (module Authority) implements  *)
(* this specification for every agent, and the workload nodes (module      *)
(* MutationFence) rely on nothing else of it.                              *)
(***************************************************************************)
EXTENDS Integers

CONSTANT Nodes

VARIABLES
  own,    \* ClusterAgentOwnership of the agent
  time    \* authority time

Unowned == [owner |-> "none", term |-> 0, token |-> 0, gen |-> 0,
            state |-> "none", lease |-> 0, updated |-> 0]

LeaseInit == own = Unowned /\ time = 0

\* A grant: no unexpired lease is outstanding, and the token is new.
Grant(n, tm, now, expiry) ==
  /\ now >= time /\ tm >= own.term /\ expiry > now
  /\ own.state # "active" \/ own.lease <= now
  /\ own' = [owner |-> n, term |-> tm, token |-> own.token + 1, gen |-> own.gen + 1,
             state |-> "active", lease |-> expiry, updated |-> now]
  /\ time' = now

\* The owner prolongs an unexpired lease under the same token.
Renew(tm, now, expiry) ==
  /\ now >= time /\ tm >= own.term /\ expiry > now
  /\ own.state = "active" /\ own.lease > now
  /\ own' = [own EXCEPT !.term = tm, !.gen = @ + 1, !.lease = expiry, !.updated = now]
  /\ time' = now

\* The lease is given up; the token stays behind as a tombstone.
Release(tm, now) ==
  /\ now >= time /\ tm >= own.term
  /\ own.state = "active"
  /\ own' = [own EXCEPT !.term = tm, !.gen = @ + 1, !.state = "released",
                        !.lease = now, !.updated = now]
  /\ time' = now

\* Time passes, or the authority attends to other records.
Pass(now) == now >= time /\ time' = now /\ UNCHANGED own

LeaseNext ==
  \/ \E n \in Nodes : Grant(n, own'.term, time', own'.lease)
  \/ Renew(own'.term, time', own'.lease)
  \/ Release(own'.term, time')
  \/ Pass(time')

LeaseSpec == LeaseInit /\ [][LeaseNext]_<<own, time>>
=============================================================================
