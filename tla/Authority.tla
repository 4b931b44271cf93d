------------------------------ MODULE Authority ------------------------------
(***************************************************************************)
(* The replicated cluster authority: the deterministic state machine that  *)
(* every voter applies to the committed Raft log                           *)
(* (crates/kernel/src/cluster_consensus.rs).  It owns the membership, the  *)
(* rollout of listener certificates, the leases on agents and the receipts *)
(* that make a retried command idempotent.                                 *)
(*                                                                         *)
(* One action is one committed command.  The code applies a command to a   *)
(* clone of the control plane and keeps it only if the command is not      *)
(* rejected, so a rejected command is a stuttering step: the guards below  *)
(* are the code's early returns.  Before the new state is written, the     *)
(* store validates the whole of it (write_persistent_state); a state that  *)
(* does not validate is a fatal storage error on every voter, because the  *)
(* entry is committed: `halted'.                                           *)
(*                                                                         *)
(* Data is abstracted as follows.  A node's key, endpoint and protocol     *)
(* window are fixed, so a registration varies in its TLS leaf only.        *)
(* Audit records are kept per node or agent: the validator compares        *)
(* records of different nodes only for equality of leaves, which does not  *)
(* depend on their order.  Operation ids are numbered in the order of      *)
(* their first success, and the challenge a command issues is named by its *)
(* operation id, from which the server derives it.                         *)
(***************************************************************************)
EXTENDS Integers, FiniteSets, Sequences, FiniteSetsExt, SequencesExt

CONSTANTS
  Nodes,            \* application nodes
  Agents,           \* agents whose ownership is leased
  Leaves,           \* fingerprints of TLS leaf certificates
  NoLeaf,           \* a listener without TLS
  GenesisLeaf,      \* the seed members and their leaves
  Proposals,        \* wall-clock readings a proposer may put in a command
  LeaseTtl,         \* ttl_seconds of a lease
  ChallengeTtl,     \* ttl_seconds of a join challenge
  PrepareTtl,       \* prepare_ttl_seconds of a rollout
  Overlap,          \* minimum_overlap_seconds of a rollout
  MaxReceipts,      \* MAX_AUTHORITY_RECEIPTS
  MaxTerm,          \* bound on Raft terms
  Kinds,            \* the commands that clients submit
  LeavesIssuedOnce  \* operators never bind a leaf to two members or twice

ASSUME AuthorityConstants ==
  /\ NoLeaf \notin Leaves
  /\ DOMAIN GenesisLeaf \subseteq Nodes
  /\ GenesisLeaf \in [DOMAIN GenesisLeaf -> Leaves \cup {NoLeaf}]
  /\ \A n, m \in DOMAIN GenesisLeaf :
       GenesisLeaf[n] = GenesisLeaf[m] => n = m \/ GenesisLeaf[n] = NoLeaf
  /\ Proposals \subseteq Nat
  /\ LeaseTtl \in Nat \ {0} /\ ChallengeTtl \in Nat \ {0}
  /\ PrepareTtl \in Nat \ {0} /\ Overlap \in Nat \ {0}
  /\ MaxReceipts \in Nat \ {0} /\ MaxTerm \in Nat \ {0}
  /\ LeavesIssuedOnce \in BOOLEAN

VARIABLES
  control,    \* ReplicatedControlPlaneState
  receipts,   \* AuthorityState.receipts: operation id -> command
  term,       \* term of the leader whose entries are being applied
  halted      \* a committed entry failed the validation of the write

vars == <<control, receipts, term, halted>>

NoMember  == [state |-> "none", gen |-> 0, tls |-> NoLeaf]
NoRollout == [phase |-> "none", gen |-> 0, prev |-> NoLeaf, next |-> NoLeaf,
              expires |-> 0, retireAfter |-> 0]
NoOwner   == [owner |-> "none", term |-> 0, token |-> 0, gen |-> 0,
              state |-> "none", lease |-> 0, updated |-> 0]

Init ==
  /\ control = [on           |-> FALSE,
                time         |-> 0,
                members      |-> [n \in Nodes |-> NoMember],
                memberAudit  |-> [n \in Nodes |-> <<>>],
                rollouts     |-> [n \in Nodes |-> NoRollout],
                rolloutAudit |-> [n \in Nodes |-> <<>>],
                challenges   |-> <<>>,
                owned        |-> [a \in Agents |-> NoOwner],
                ownAudit     |-> [a \in Agents |-> <<>>]]
  /\ receipts = <<>>
  /\ term = 1
  /\ halted = FALSE

-----------------------------------------------------------------------------
(* What write_persistent_state accepts: validate_control_plane_state.      *)

\* Every leaf that the two histories of a node mention.
LeavesOf(c, n) ==
  (UNION ({{h.prevTls, h.tls} : h \in Range(c.memberAudit[n])} \cup
          {{h.prev, h.next} : h \in Range(c.rolloutAudit[n])})) \ {NoLeaf}

\* Revision g of a member continues the one before it.
RevisionFollows(h, g) ==
  /\ h[g].gen = g
  /\ IF g = 1
       THEN h[g].prevState = "none" /\ h[g].state = "active" /\ h[g].prevTls = NoLeaf
       ELSE /\ h[g - 1].state # "revoked"
            /\ h[g].prevState = h[g - 1].state
            /\ h[g].prevTls = h[g - 1].tls
            /\ h[g - 1].tls # NoLeaf => h[g].tls # NoLeaf

\* The live record of a member is its last revision.
CurrentMember(h) ==
  IF h = <<>> THEN NoMember
  ELSE [state |-> Last(h).state, gen |-> Last(h).gen, tls |-> Last(h).tls]

\* The membership audit is consecutive, ends in the live record, and no leaf
\* occurs in the histories of two nodes.
ValidMembership(c) ==
  \A n \in Nodes :
    /\ \A g \in DOMAIN c.memberAudit[n] : RevisionFollows(c.memberAudit[n], g)
    /\ c.members[n] = CurrentMember(c.memberAudit[n])
    /\ \A m \in Nodes \ {n} : LeavesOf(c, n) \cap LeavesOf(c, m) = {}

\* The leaf the member must have when rollout record e was written.
LeafAt(e) ==
  IF e.to = "prepared" \/ (e.from = "prepared" /\ e.to = "none") THEN e.prev ELSE e.next

\* Rollout record i moves on from the one before it: a candidate is prepared
\* once, then activated or closed.
RolloutFollows(h, i) ==
  /\ h[i].from = IF i = 1 THEN "none" ELSE h[i - 1].to
  /\ IF h[i].from = "none"
       THEN /\ h[i].to = "prepared"
            /\ \A j \in 1..(i - 1) : h[j].from = "none" => h[j].next # h[i].next
       ELSE /\ h[i].to \in (IF h[i].from = "prepared" THEN {"activated", "none"} ELSE {"none"})
            /\ h[i].prev = h[i - 1].prev /\ h[i].next = h[i - 1].next
  /\ h[i].prev # h[i].next

\* A rollout record rests on the membership revision of its generation.
RestsOnRevision(m, e) ==
  /\ e.gen \in DOMAIN m
  /\ m[e.gen].state = "active" \/ (e.to = "none" /\ m[e.gen].state = "revoked")
  /\ m[e.gen].tls = LeafAt(e)

\* The revisions in which a leaf is worn, the records that activate it.
Worn(m, leaf)      == {g \in DOMAIN m : m[g].tls = leaf}
Activated(h, leaf) == {j \in DOMAIN h : h[j].to = "activated" /\ h[j].next = leaf}

\* A candidate is first worn when it is activated.
WornSinceActivation(h, m, leaf) ==
  /\ Worn(m, leaf) = {} <=> Activated(h, leaf) = {}
  /\ \A j \in Activated(h, leaf) : h[j].gen = Min(Worn(m, leaf))

\* The live rollout is the last unfinished record.
CurrentRollout(r, h, member) ==
  IF h = <<>> \/ Last(h).to = "none"
    THEN r = NoRollout
    ELSE /\ r.phase = Last(h).to /\ r.gen = Last(h).gen
         /\ r.prev = Last(h).prev /\ r.next = Last(h).next
         /\ member.state = "active" /\ member.gen = r.gen
         /\ member.tls = IF r.phase = "prepared" THEN r.prev ELSE r.next

ValidRollouts(c) ==
  \A n \in Nodes :
    LET h == c.rolloutAudit[n]
        m == c.memberAudit[n]
    IN
    /\ \A i \in DOMAIN h : /\ RolloutFollows(h, i)
                           /\ RestsOnRevision(m, h[i])
                           /\ WornSinceActivation(h, m, h[i].next)
    /\ CurrentRollout(c.rollouts[n], h, c.members[n])

\* Ownership record g of an agent continues the one before it.
OwnershipFollows(h, g) ==
  /\ h[g].gen = g
  /\ IF g = 1
       THEN h[g].op = "claim" /\ h[g].token = 1 /\ h[g].prevOwner = "none"
       ELSE /\ h[g].prevOwner = h[g - 1].owner
            /\ h[g].term >= h[g - 1].term
            /\ \/ /\ h[g].op \in {"renew", "release"}
                  /\ h[g - 1].op # "release"
                  /\ h[g].owner = h[g - 1].owner
                  /\ h[g].token = h[g - 1].token
               \/ /\ h[g].op = "transfer"
                  /\ h[g].token = h[g - 1].token + 1

\* The live record of an agent is the last one of its audit.
CurrentOwner(o, h, time) ==
  IF h = <<>> THEN o = NoOwner
  ELSE /\ o.gen = Last(h).gen /\ o.owner = Last(h).owner
       /\ o.term = Last(h).term /\ o.token = Last(h).token
       /\ o.state = IF Last(h).op = "release" THEN "released" ELSE "active"
       /\ IF o.state = "active" THEN o.lease > o.updated ELSE o.lease = o.updated
       /\ o.updated <= time

\* The ownership audit is consecutive per agent and ends in the live record.
ValidOwnership(c) ==
  \A a \in Agents :
    /\ \A g \in DOMAIN c.ownAudit[a] : OwnershipFollows(c.ownAudit[a], g)
    /\ CurrentOwner(c.owned[a], c.ownAudit[a], c.time)

Valid(c) == ValidMembership(c) /\ ValidRollouts(c) /\ ValidOwnership(c)

-----------------------------------------------------------------------------
(* apply_authority_command: receipts, then the write.                      *)

OpIds == 1..MaxReceipts

\* The operation id has no receipt and the receipts are not full.  A command
\* whose id has a receipt is answered from it and changes nothing.
Fresh(op) == op \in OpIds /\ op = Len(receipts) + 1

\* ClusterRaftStateMachine::apply: the applied state is validated and written
\* in one transaction; an invalid one is a storage error.
Apply(next, retained) ==
  /\ ~halted
  /\ IF Valid(next)
       THEN /\ control' = next
            /\ receipts' = retained
            /\ UNCHANGED halted
       ELSE /\ halted' = TRUE
            /\ UNCHANGED <<control, receipts>>
  /\ UNCHANGED term

\* The rest of apply_authority_command: the receipt is inserted.
Commit(op, cmd, next) ==
  Apply(next, [i \in (DOMAIN receipts) \cup {op} |-> IF i = op THEN cmd ELSE receipts[i]])

\* advance_authority_time: at least one tick after the last command.
EffectiveTime(c, proposed) == IF proposed > c.time THEN proposed ELSE c.time + 1

\* AdvanceTime, the barrier of a linearizable read: it has no receipt.
AdvanceTime ==
  /\ control.on
  /\ \E p \in Proposals :
       /\ p > control.time
       /\ Apply([control EXCEPT !.time = p], receipts)

\* A new leader is elected; its entries carry its term.
NewTerm ==
  /\ term < MaxTerm /\ ~halted
  /\ term' = term + 1
  /\ UNCHANGED <<control, receipts, halted>>

\* Barrier consumes a receipt and a sequence number and changes nothing else.
Barrier(op) ==
  /\ "barrier" \in Kinds /\ Fresh(op)
  /\ Commit(op, [kind |-> "barrier"], control)

\* Initialize: the seed members are active in generation 1.
Initialize(op) ==
  /\ ~control.on /\ Fresh(op)
  /\ \E p \in Proposals :
       LET Seed(n) == [gen |-> 1, prevState |-> "none", state |-> "active",
                       prevTls |-> NoLeaf, tls |-> GenesisLeaf[n]]
           Seeded(n) == n \in DOMAIN GenesisLeaf
       IN Commit(op, [kind |-> "initialize"],
            [control EXCEPT
               !.on = TRUE,
               !.time = p,
               !.members = [n \in Nodes |->
                  IF Seeded(n) THEN [state |-> "active", gen |-> 1, tls |-> GenesisLeaf[n]]
                  ELSE NoMember],
               !.memberAudit = [n \in Nodes |-> IF Seeded(n) THEN <<Seed(n)>> ELSE <<>>]])

-----------------------------------------------------------------------------
(* Membership and certificate rollouts.                                    *)

\* IssueJoinChallenge: consumed and expired challenges are pruned.
IssueJoinChallenge(op) ==
  /\ "challenge" \in Kinds /\ control.on /\ Fresh(op)
  /\ \E p \in Proposals :
       LET now  == EffectiveTime(control, p)
           live == {ch \in DOMAIN control.challenges :
                      control.challenges[ch].expires > now /\ ~control.challenges[ch].consumed}
           challenge(ch) == IF ch = op THEN [expires |-> now + ChallengeTtl, consumed |-> FALSE]
                            ELSE control.challenges[ch]
       IN Commit(op, [kind |-> "challenge"],
            [control EXCEPT !.time = now,
                            !.challenges = [ch \in live \cup {op} |-> challenge(ch)]])

\* validate_challenged_registration: known, unused and unexpired.
ChallengeAccepted(c, ch, now) ==
  /\ ch \in DOMAIN c.challenges
  /\ ~c.challenges[ch].consumed
  /\ c.challenges[ch].expires > now

\* append_member_revision.
AppendMemberRevision(c, n, state, leaf, now) ==
  LET m == c.members[n] IN
  [c EXCEPT
     !.time = now,
     !.members[n] = [state |-> state, gen |-> m.gen + 1, tls |-> leaf],
     !.memberAudit[n] = Append(@, [gen |-> m.gen + 1, prevState |-> m.state, state |-> state,
                                   prevTls |-> m.tls, tls |-> leaf])]

\* append_certificate_rollout_audit, after the revision it belongs to.
AppendRolloutAudit(c, n, from, to, prev, next) ==
  [c EXCEPT !.rolloutAudit[n] =
     Append(@, [gen |-> c.members[n].gen, from |-> from, to |-> to,
                prev |-> prev, next |-> next])]

\* consume_join_challenge.
ConsumeJoinChallenge(c, ch) == [c EXCEPT !.challenges[ch].consumed = TRUE]

\* The live rollout of a node is replaced, or removed.
SetRollout(c, n, r) == [c EXCEPT !.rollouts[n] = r]

\* certificate_fingerprint_was_previously_authorized, or assigned now.
PreviouslyAuthorized(c, leaf) ==
  \E n \in Nodes : leaf \in LeavesOf(c, n) \/ c.members[n].tls = leaf

\* The leaves an operator presents for a node: any, or, when leaves are issued
\* once, its own, its own prepared candidate or one never seen before.
Presentable(c, n, leaf) ==
  LeavesIssuedOnce =>
    \/ leaf \in {NoLeaf, c.members[n].tls, c.rollouts[n].next}
    \/ ~PreviouslyAuthorized(c, leaf)

\* The candidate of a rollout is a leaf that no history mentions.
CandidateNew(c, leaf) == ~PreviouslyAuthorized(c, leaf)

\* PrepareMemberCertificateRollout.
PrepareRollout(op, n) ==
  /\ "rollout" \in Kinds /\ control.on /\ Fresh(op)
  /\ control.members[n].state = "active"
  /\ control.rollouts[n].phase = "none"
  /\ \E p \in Proposals, ch \in DOMAIN control.challenges, leaf \in Leaves :
       LET now     == EffectiveTime(control, p)
           m       == control.members[n]
           revised == AppendMemberRevision(control, n, "active", m.tls, now)
           audited == AppendRolloutAudit(revised, n, "none", "prepared", m.tls, leaf)
       IN /\ ChallengeAccepted(control, ch, now)
          /\ m.tls # NoLeaf /\ leaf # m.tls
          /\ CandidateNew(control, leaf)
          /\ Commit(op, [kind |-> "prepare", node |-> n, leaf |-> leaf, challenge |-> ch],
               ConsumeJoinChallenge(
                 SetRollout(audited, n,
                   [phase |-> "prepared", gen |-> m.gen + 1, prev |-> m.tls, next |-> leaf,
                    expires |-> now + PrepareTtl, retireAfter |-> 0]), ch))

\* apply_finish_member_certificate_rollout: abort a prepared rollout, or
\* finalize an activated one whose overlap is over.
FinishRollout(op, n, finish) ==
  /\ "rollout" \in Kinds /\ control.on /\ Fresh(op)
  /\ control.members[n].state = "active"
  /\ control.rollouts[n].phase = IF finish = "abort" THEN "prepared" ELSE "activated"
  /\ control.rollouts[n].gen = control.members[n].gen
  /\ \E p \in Proposals :
       LET now     == EffectiveTime(control, p)
           r       == control.rollouts[n]
           revised == AppendMemberRevision(control, n, "active", control.members[n].tls, now)
           audited == AppendRolloutAudit(revised, n, r.phase, "none", r.prev, r.next)
       IN /\ finish = "finalize" => now >= r.retireAfter
          /\ Commit(op, [kind |-> finish, node |-> n],
               SetRollout(audited, n, NoRollout))

\* A registration that activates the prepared rollout of the member, before
\* that expires.
Activates(c, n, leaf, now) ==
  LET m == c.members[n]
      r == c.rollouts[n]
  IN /\ r.phase = "prepared" /\ m.state = "active"
     /\ leaf # m.tls /\ leaf = r.next /\ m.tls = r.prev
     /\ r.gen = m.gen /\ now < r.expires

\* Mutant: an active member changes its leaf without a rollout.
LeafChangeUnprepared(c, n, leaf, now) ==
  Activates(c, n, leaf, now) \/ c.rollouts[n].phase = "none"

\* An active member changes its leaf only by activating its prepared rollout,
\* and registers nothing else while a rollout is open.
LeafChangeAllowed(c, n, leaf, now) ==
  \/ Activates(c, n, leaf, now)
  \/ /\ c.rollouts[n].phase = "none"
     /\ c.members[n].state = "active" => leaf = c.members[n].tls

\* The leaf is not the current leaf of another member.
LeafUnassigned(c, n, leaf) ==
  \A m \in Nodes \ {n} : leaf = NoLeaf \/ c.members[m].tls # leaf

\* RegisterMember: join, rejoin, refresh, or activation of a rollout.
RegisterMember(op, n) ==
  /\ "register" \in Kinds /\ control.on /\ Fresh(op)
  /\ control.members[n].state # "revoked"
  /\ \E p \in Proposals, ch \in DOMAIN control.challenges, leaf \in Leaves \cup {NoLeaf} :
       LET now        == EffectiveTime(control, p)
           m          == control.members[n]
           r          == control.rollouts[n]
           activating == Activates(control, n, leaf, now)
           revised    == AppendMemberRevision(control, n, "active", leaf, now)
           audited    == IF activating
                           THEN AppendRolloutAudit(revised, n, "prepared", "activated",
                                                   r.prev, r.next)
                           ELSE revised
       IN /\ Presentable(control, n, leaf)
          /\ ChallengeAccepted(control, ch, now)
          /\ LeafUnassigned(control, n, leaf)
          /\ LeafChangeAllowed(control, n, leaf, now)
          /\ m.tls # NoLeaf => leaf # NoLeaf
          /\ Commit(op, [kind |-> "register", node |-> n, leaf |-> leaf, challenge |-> ch],
               ConsumeJoinChallenge(
                 IF activating
                   THEN SetRollout(audited, n,
                          [r EXCEPT !.phase = "activated", !.gen = m.gen + 1,
                                    !.retireAfter = now + Overlap])
                   ELSE audited, ch))

-----------------------------------------------------------------------------
(* Ownership of agents.                                                    *)

\* require_replicated_active_member.
RequireActiveMember(n) == control.members[n].state = "active"

\* The new ownership record and the audit record it leaves.
SetOwner(c, a, next, operation) ==
  [c EXCEPT
     !.time = next.updated,
     !.owned[a] = next,
     !.ownAudit[a] = Append(@, [gen |-> next.gen, prevOwner |-> c.owned[a].owner,
                                owner |-> next.owner, term |-> next.term,
                                token |-> next.token, op |-> operation])]

\* Mutant: an unexpired lease may be taken over by its exact token.
AvailableEarly(o, now) == TRUE

\* A record that may be claimed: none, released, or expired.
Available(o, now) == o.state # "active" \/ o.lease <= now

\* Mutant: the claim is not a compare-and-set.
ExpectedAny(o, expected) == TRUE

\* The claimant's view of the token is the current one.
Expected(o, expected) == expected = o.token

\* ClaimOwnership: the claimant names the exact previous token, or none.
ClaimOwnership(op, a, n, expected) ==
  /\ "claim" \in Kinds /\ control.on /\ Fresh(op)
  /\ RequireActiveMember(n)
  /\ Expected(control.owned[a], expected)
  /\ \E p \in Proposals :
       LET now == EffectiveTime(control, p)
           o   == control.owned[a]
       IN /\ Available(o, now)
          /\ Commit(op, [kind |-> "claim", agent |-> a, node |-> n, expected |-> expected],
               SetOwner(control, a,
                 [owner |-> n, term |-> term, token |-> o.token + 1, gen |-> o.gen + 1,
                  state |-> "active", lease |-> now + LeaseTtl, updated |-> now],
                 IF o.state = "none" THEN "claim" ELSE "transfer"))

\* Mutant: renewal does not look at the token.
HoldsAnyToken(o, n, token) == o.state = "active" /\ o.owner = n

\* The caller is the owner of the record under this token.
Holds(o, n, token) == o.state = "active" /\ o.owner = n /\ o.token = token

\* RenewOwnership: only before the lease expires.
RenewOwnership(op, a, n, token) ==
  /\ "renew" \in Kinds /\ control.on /\ Fresh(op)
  /\ RequireActiveMember(n)
  /\ Holds(control.owned[a], n, token)
  /\ \E p \in Proposals :
       LET now == EffectiveTime(control, p)
           o   == control.owned[a]
       IN /\ o.lease > now
          /\ Commit(op, [kind |-> "renew", agent |-> a, node |-> n, token |-> token],
               SetOwner(control, a,
                 [o EXCEPT !.term = term, !.gen = @ + 1, !.lease = now + LeaseTtl,
                           !.updated = now], "renew"))

\* ReleaseOwnership: expired or not; a tombstone with the token stays.
ReleaseOwnership(op, a, n, token) ==
  /\ "release" \in Kinds /\ control.on /\ Fresh(op)
  /\ Holds(control.owned[a], n, token)
  /\ \E p \in Proposals :
       LET now == EffectiveTime(control, p)
           o   == control.owned[a]
       IN Commit(op, [kind |-> "release", agent |-> a, node |-> n, token |-> token],
            SetOwner(control, a,
              [o EXCEPT !.term = term, !.gen = @ + 1, !.state = "released",
                        !.lease = now, !.updated = now], "release"))

\* Mutant: released records are released again.
LiveLeasesReleased(c, n, now) ==
  {a \in Agents : c.owned[a].owner = n /\ c.owned[a].token > 0}

\* Mutant: only expired leases are released.
LiveLeasesInverted(c, n, now) ==
  {a \in Agents : c.owned[a].owner = n /\ c.owned[a].state = "active" /\ c.owned[a].lease <= now}

\* The unexpired leases of a node.
LiveLeases(c, n, now) ==
  {a \in Agents : c.owned[a].owner = n /\ c.owned[a].state = "active" /\ c.owned[a].lease > now}

\* The loop over the leases of a node that is revoked: each is released.
ReleaseLeases(c, live, n, now) ==
  LET released(o) == [o EXCEPT !.term = term, !.gen = @ + 1, !.state = "released",
                               !.lease = now, !.updated = now]
      audit(o) == [gen |-> o.gen + 1, prevOwner |-> n, owner |-> n, term |-> term,
                   token |-> o.token, op |-> "release"]
  IN [c EXCEPT
        !.owned = [a \in Agents |-> IF a \in live THEN released(c.owned[a]) ELSE c.owned[a]],
        !.ownAudit = [a \in Agents |->
           IF a \in live THEN Append(c.ownAudit[a], audit(c.owned[a])) ELSE c.ownAudit[a]]]

\* SetMemberState to Left or Revoked.  Leaving is refused while leases are
\* live or a rollout is open; revocation releases the live leases and closes
\* the rollout in the same command.
SetMemberState(op, n, state) ==
  /\ "state" \in Kinds /\ control.on /\ Fresh(op)
  /\ control.members[n].state \notin {"none", "revoked", state}
  /\ state = "left" => control.rollouts[n].phase = "none"
  /\ \E p \in Proposals :
       LET now      == EffectiveTime(control, p)
           r        == control.rollouts[n]
           live     == LiveLeases(control, n, now)
           freed    == ReleaseLeases(control, live, n, now)
           revised  == AppendMemberRevision(freed, n, state, control.members[n].tls, now)
           closed   == IF r.phase = "none" THEN revised
                       ELSE AppendRolloutAudit(revised, n, r.phase, "none", r.prev, r.next)
       IN /\ state = "left" => live = {}
          /\ Commit(op, [kind |-> "state", node |-> n, state |-> state],
               SetRollout(closed, n, NoRollout))

-----------------------------------------------------------------------------

Next ==
  \/ AdvanceTime \/ NewTerm
  \/ LET op == Len(receipts) + 1 IN
       \/ Initialize(op) \/ Barrier(op) \/ IssueJoinChallenge(op)
       \/ \E n \in Nodes :
            \/ PrepareRollout(op, n) \/ RegisterMember(op, n)
            \/ \E finish \in {"abort", "finalize"} : FinishRollout(op, n, finish)
            \/ \E state \in {"left", "revoked"} : SetMemberState(op, n, state)
            \/ \E a \in Agents, token \in 0..MaxReceipts :
                 \/ ClaimOwnership(op, a, n, token)
                 \/ RenewOwnership(op, a, n, token)
                 \/ ReleaseOwnership(op, a, n, token)

Spec == Init /\ [][Next]_vars

-----------------------------------------------------------------------------
(* Properties.                                                             *)

MemberStates == {"none", "active", "left", "revoked"}
Phases       == {"none", "prepared", "activated"}
LeafOrNone   == Leaves \cup {NoLeaf}
NodeOrNone   == Nodes \cup {"none"}

\* The records of the control plane, with their histories.
Member        == [state : MemberStates, gen : Nat, tls : LeafOrNone]
Revision      == [gen : Nat, prevState : MemberStates, state : MemberStates,
                  prevTls : LeafOrNone, tls : LeafOrNone]
Rollout       == [phase : Phases, gen : Nat, prev : LeafOrNone, next : LeafOrNone,
                  expires : Nat, retireAfter : Nat]
RolloutRecord == [gen : Nat, from : Phases, to : Phases, prev : LeafOrNone, next : LeafOrNone]
Owner         == [owner : NodeOrNone, term : Nat, token : Nat, gen : Nat,
                  state : {"none", "active", "released"}, lease : Nat, updated : Nat]
OwnRecord     == [gen : Nat, prevOwner : NodeOrNone, owner : NodeOrNone, term : Nat,
                  token : Nat, op : {"claim", "transfer", "renew", "release"}]
Challenge     == [expires : Nat, consumed : BOOLEAN]

IsControlPlane(c) ==
  /\ DOMAIN c.challenges \subseteq OpIds
  /\ c \in [on : BOOLEAN, time : Nat,
            members : [Nodes -> Member], memberAudit : [Nodes -> Seq(Revision)],
            rollouts : [Nodes -> Rollout], rolloutAudit : [Nodes -> Seq(RolloutRecord)],
            challenges : [DOMAIN c.challenges -> Challenge],
            owned : [Agents -> Owner], ownAudit : [Agents -> Seq(OwnRecord)]]

\* What a receipt remembers of its command.
Command ==
  [kind : {"barrier", "initialize", "challenge"}]
    \cup [kind : {"prepare", "register"}, node : Nodes, leaf : LeafOrNone, challenge : OpIds]
    \cup [kind : {"abort", "finalize"}, node : Nodes]
    \cup [kind : {"state"}, node : Nodes, state : MemberStates]
    \cup [kind : {"claim"}, agent : Agents, node : Nodes, expected : Nat]
    \cup [kind : {"renew", "release"}, agent : Agents, node : Nodes, token : Nat]

TypeOK ==
  /\ IsControlPlane(control)
  /\ receipts \in Seq(Command) /\ Len(receipts) <= MaxReceipts
  /\ term \in 1..MaxTerm /\ halted \in BOOLEAN

\* "Rejections are application results, not Raft storage failures"
\* (cluster_consensus.rs, AuthorityRejection): no sequence of commands that the
\* state machine accepts leads to a state that its own store then refuses to
\* write, which would stop every voter at the same committed entry.
NeverHalts == ~halted

\* Two claimants that saw the same token of an agent never both win, however
\* their commands are ordered, retried or separated by releases and expiries:
\* the claim is a compare-and-set on a token that never comes back.
OneClaimPerToken ==
  \A i, j \in DOMAIN receipts :
    /\ receipts[i].kind = "claim" /\ receipts[j].kind = "claim"
    /\ receipts[i].agent = receipts[j].agent
    /\ receipts[i].expected = receipts[j].expected
    => i = j

\* A member that left or was revoked has no live lease (by authority time),
\* whatever was claimed, renewed or expired before.
NoLiveLeaseOutsideMembership ==
  \A n \in Nodes, a \in Agents :
    /\ control.members[n].state # "active"
    /\ control.owned[a].owner = n /\ control.owned[a].state = "active"
    => control.owned[a].lease <= control.time

Lease(a) == INSTANCE OwnershipLease WITH own <- control.owned[a], time <- control.time

\* For every agent the authority implements the lease that workload nodes rely
\* on: whatever commands of other agents, of membership or of new leaders come
\* between, an unexpired lease passes to a new token only through its release,
\* and tokens, generations and terms only grow.
ImplementsLease ==
  /\ \A a \in Agents : Lease(a)!LeaseInit
  /\ [][\A a \in Agents : [Lease(a)!LeaseNext]_<<control.owned[a], control.time>>]_vars

MemberKinds == {"register", "prepare", "abort", "finalize", "state"}

\* A retried command is applied once, and to the lease it names: the revisions
\* of a member are its seed and one per receipt that revises it, and a token
\* was granted, prolonged or released by its holder once per receipt that
\* names it, so a delayed renewal never prolongs a later lease.
AppliedOnce ==
  control.on =>
    /\ \A n \in Nodes :
         Cardinality({i \in DOMAIN receipts :
                        receipts[i].kind \in MemberKinds /\ receipts[i].node = n})
           = Len(control.memberAudit[n]) - (IF n \in DOMAIN GenesisLeaf THEN 1 ELSE 0)
    /\ \A a \in Agents, token \in 1..MaxReceipts :
         Cardinality({i \in DOMAIN receipts : receipts[i].kind = "renew"
                        /\ receipts[i].agent = a /\ receipts[i].token = token})
           = Cardinality({g \in DOMAIN control.ownAudit[a] :
                            control.ownAudit[a][g].op = "renew"
                              /\ control.ownAudit[a][g].token = token})

\* The leaves that discovery accepts for a member: its own, the candidate of a
\* prepared rollout, the previous one during the overlap.
Accepted(c, n) ==
  ({c.members[n].tls} \cup
     CASE c.rollouts[n].phase = "prepared"  -> {c.rollouts[n].next}
       [] c.rollouts[n].phase = "activated" -> {c.rollouts[n].prev}
       [] OTHER -> {}) \ {NoLeaf}

\* A member that stays active is reachable through some leaf accepted before
\* and after every command.
TrustIsContinuous ==
  [][\A n \in Nodes :
       /\ control.members[n].state = "active" /\ control'.members[n].state = "active"
       /\ control.members[n].tls # NoLeaf
       => Accepted(control, n) \cap Accepted(control', n) # {}]_vars

-----------------------------------------------------------------------------
(* The inductive strengthening of the lease properties.                    *)

\* A record was written in a term that has been reached.
TermsReached == \A a \in Agents : control.owned[a].term <= term

\* The token that a successful claim named is spent.
ClaimsSpent ==
  \A i \in DOMAIN receipts :
    receipts[i].kind = "claim" => receipts[i].expected < control.owned[receipts[i].agent].token

\* Before Initialize nothing but receipts is recorded.
BlankAtStart ==
  ~control.on =>
    /\ control.time = 0
    /\ \A n \in Nodes : /\ control.members[n] = NoMember /\ control.memberAudit[n] = <<>>
                        /\ control.rollouts[n] = NoRollout /\ control.rolloutAudit[n] = <<>>
    /\ \A a \in Agents : control.owned[a] = NoOwner /\ control.ownAudit[a] = <<>>

LeaseInv ==
  /\ TypeOK /\ TermsReached /\ ClaimsSpent /\ BlankAtStart
  /\ OneClaimPerToken /\ NoLiveLeaseOutsideMembership
-----------------------------------------------------------------------------
(* The inductive strengthening of NeverHalts: what the validator asks for,  *)
(* agent by agent and node by node, and what it needs to keep being true.  *)

ValidOwner(o, h, time) ==
  /\ \A g \in DOMAIN h : OwnershipFollows(h, g)
  /\ CurrentOwner(o, h, time)

ValidMember(m, h) == (\A g \in DOMAIN h : RevisionFollows(h, g)) /\ m = CurrentMember(h)

\* A leaf is first worn when it is activated, and activated once.
Tracks(h, m, x) ==
  /\ WornSinceActivation(h, m, x)
  /\ \A j \in Activated(h, x) : h[j].gen \in Worn(m, x) /\ \A g \in Worn(m, x) : h[j].gen <= g

\* The rollout of one node: candidates are leaves, and the candidate of a
\* prepared rollout was never activated before.
RolloutInv(r, h, member, m) ==
  /\ \A i \in DOMAIN h : /\ RolloutFollows(h, i) /\ RestsOnRevision(m, h[i])
                         /\ Tracks(h, m, h[i].next) /\ h[i].next # NoLeaf
  /\ CurrentRollout(r, h, member)
  /\ r.phase = "prepared" => Activated(h, r.next) = {}

ValidNode(c, n) ==
  /\ ValidMember(c.members[n], c.memberAudit[n])
  /\ RolloutInv(c.rollouts[n], c.rolloutAudit[n], c.members[n], c.memberAudit[n])

Sound(c) ==
  /\ \A a \in Agents : ValidOwner(c.owned[a], c.ownAudit[a], c.time)
  /\ \A n \in Nodes : ValidNode(c, n)
  /\ \A n \in Nodes : \A m \in Nodes \ {n} : LeavesOf(c, n) \cap LeavesOf(c, m) = {}

ValidInv == ~halted /\ Sound(control)
=============================================================================
