--------------------------- MODULE AuthorityProofs ---------------------------
(***************************************************************************)
(* For every set of nodes, agents and leaves, every duration and every     *)
(* bound: a token is claimed once, a member that is gone holds no live     *)
(* lease, every agent has the abstract lease of OwnershipLease, what is    *)
(* accepted passes the validation of the write, trust in an active member  *)
(* is never interrupted, and every receipt was applied exactly once.       *)
(***************************************************************************)
EXTENDS Authority, FiniteSetTheorems, SequenceTheorems, TLAPS

\* The fields of a control plane.
LEMMA ControlFields ==
  ASSUME NEW c, IsControlPlane(c)
  PROVE  /\ c.on \in BOOLEAN /\ c.time \in Nat
         /\ c.members \in [Nodes -> Member] /\ c.memberAudit \in [Nodes -> Seq(Revision)]
         /\ c.rollouts \in [Nodes -> Rollout] /\ c.rolloutAudit \in [Nodes -> Seq(RolloutRecord)]
         /\ c.challenges \in [DOMAIN c.challenges -> Challenge]
         /\ DOMAIN c.challenges \subseteq OpIds
         /\ c.owned \in [Agents -> Owner] /\ c.ownAudit \in [Agents -> Seq(OwnRecord)]
  BY DEF IsControlPlane

\* A record of fields of the right types is a control plane.
LEMMA ControlRecord ==
  ASSUME NEW on \in BOOLEAN, NEW time \in Nat,
         NEW members \in [Nodes -> Member], NEW memberAudit \in [Nodes -> Seq(Revision)],
         NEW rollouts \in [Nodes -> Rollout], NEW rolloutAudit \in [Nodes -> Seq(RolloutRecord)],
         NEW challenges, challenges \in [DOMAIN challenges -> Challenge],
         DOMAIN challenges \subseteq OpIds,
         NEW owned \in [Agents -> Owner], NEW ownAudit \in [Agents -> Seq(OwnRecord)],
         NEW d, d = [on |-> on, time |-> time, members |-> members, memberAudit |-> memberAudit,
                     rollouts |-> rollouts, rolloutAudit |-> rolloutAudit,
                     challenges |-> challenges, owned |-> owned, ownAudit |-> ownAudit]
  PROVE  IsControlPlane(d)
  BY DEF IsControlPlane

\* append_member_revision changes the member, its history and the time.
LEMMA MemberRevisionFacts ==
  ASSUME NEW c, IsControlPlane(c), NEW n \in Nodes, NEW state \in MemberStates,
         NEW leaf \in LeafOrNone, NEW now \in Nat,
         NEW d, d = AppendMemberRevision(c, n, state, leaf, now)
  PROVE  /\ IsControlPlane(d)
         /\ d.on = c.on /\ d.time = now
         /\ d.members = [c.members EXCEPT ![n] =
              [state |-> state, gen |-> c.members[n].gen + 1, tls |-> leaf]]
         /\ d.memberAudit = [c.memberAudit EXCEPT ![n] = Append(@,
              [gen |-> c.members[n].gen + 1, prevState |-> c.members[n].state,
               state |-> state, prevTls |-> c.members[n].tls, tls |-> leaf])]
         /\ d.rollouts = c.rollouts /\ d.rolloutAudit = c.rolloutAudit
         /\ d.challenges = c.challenges /\ d.owned = c.owned /\ d.ownAudit = c.ownAudit
<1> DEFINE m == c.members[n]
           member == [state |-> state, gen |-> m.gen + 1, tls |-> leaf]
           revision == [gen |-> m.gen + 1, prevState |-> m.state, state |-> state,
                        prevTls |-> m.tls, tls |-> leaf]
           members == [c.members EXCEPT ![n] = member]
           audit == [c.memberAudit EXCEPT ![n] = Append(c.memberAudit[n], revision)]
<1>1. d = [on |-> c.on, time |-> now, members |-> members, memberAudit |-> audit,
           rollouts |-> c.rollouts, rolloutAudit |-> c.rolloutAudit,
           challenges |-> c.challenges, owned |-> c.owned, ownAudit |-> c.ownAudit]
  BY DEF AppendMemberRevision, IsControlPlane
<1>2. member \in Member /\ revision \in Revision
  BY ControlFields DEF Member, Revision
<1> HIDE DEF member, revision
<1>3. members \in [Nodes -> Member]
  BY <1>2, ControlFields
<1>4. audit \in [Nodes -> Seq(Revision)]
  BY <1>2, ControlFields
<1>5. IsControlPlane(d)
  <2> HIDE DEF members, audit
  <2> QED BY <1>1, <1>3, <1>4, ControlFields, ControlRecord
<1> QED BY <1>1, <1>5 DEF member, revision

\* append_certificate_rollout_audit changes the rollout history only.
LEMMA RolloutAuditFacts ==
  ASSUME NEW c, IsControlPlane(c), NEW n \in Nodes, NEW from \in Phases, NEW to \in Phases,
         NEW prev \in LeafOrNone, NEW next \in LeafOrNone,
         NEW d, d = AppendRolloutAudit(c, n, from, to, prev, next)
  PROVE  /\ IsControlPlane(d)
         /\ d.rolloutAudit = [c.rolloutAudit EXCEPT ![n] = Append(@,
              [gen |-> c.members[n].gen, from |-> from, to |-> to, prev |-> prev, next |-> next])]
         /\ d.on = c.on /\ d.time = c.time /\ d.members = c.members
         /\ d.memberAudit = c.memberAudit /\ d.rollouts = c.rollouts
         /\ d.challenges = c.challenges /\ d.owned = c.owned /\ d.ownAudit = c.ownAudit
<1> DEFINE record == [gen |-> c.members[n].gen, from |-> from, to |-> to,
                      prev |-> prev, next |-> next]
           audit == [c.rolloutAudit EXCEPT ![n] = Append(c.rolloutAudit[n], record)]
<1>1. d = [on |-> c.on, time |-> c.time, members |-> c.members, memberAudit |-> c.memberAudit,
           rollouts |-> c.rollouts, rolloutAudit |-> audit,
           challenges |-> c.challenges, owned |-> c.owned, ownAudit |-> c.ownAudit]
  BY DEF AppendRolloutAudit, IsControlPlane
<1>2. record \in RolloutRecord
  BY ControlFields DEF Member, RolloutRecord
<1> HIDE DEF record
<1>3. audit \in [Nodes -> Seq(RolloutRecord)]
  BY <1>2, ControlFields
<1>4. IsControlPlane(d)
  <2> HIDE DEF audit
  <2> QED BY <1>1, <1>3, ControlFields, ControlRecord
<1> QED BY <1>1, <1>4 DEF record

\* The live rollout of a node is replaced and nothing else changes.
LEMMA SetRolloutFacts ==
  ASSUME NEW c, IsControlPlane(c), NEW n \in Nodes, NEW r \in Rollout,
         NEW d, d = SetRollout(c, n, r)
  PROVE  /\ IsControlPlane(d)
         /\ d.rollouts = [c.rollouts EXCEPT ![n] = r]
         /\ d.on = c.on /\ d.time = c.time /\ d.members = c.members
         /\ d.memberAudit = c.memberAudit /\ d.rolloutAudit = c.rolloutAudit
         /\ d.challenges = c.challenges /\ d.owned = c.owned /\ d.ownAudit = c.ownAudit
<1> DEFINE rollouts == [c.rollouts EXCEPT ![n] = r]
<1>1. d = [on |-> c.on, time |-> c.time, members |-> c.members, memberAudit |-> c.memberAudit,
           rollouts |-> rollouts, rolloutAudit |-> c.rolloutAudit,
           challenges |-> c.challenges, owned |-> c.owned, ownAudit |-> c.ownAudit]
  BY DEF SetRollout, IsControlPlane
<1>2. rollouts \in [Nodes -> Rollout]
  BY ControlFields
<1>3. IsControlPlane(d)
  <2> HIDE DEF rollouts
  <2> QED BY <1>1, <1>2, ControlFields, ControlRecord
<1> QED BY <1>1, <1>3

\* The challenge is marked and nothing else changes.
LEMMA ConsumeFacts ==
  ASSUME NEW c, IsControlPlane(c), NEW ch \in DOMAIN c.challenges,
         NEW d, d = ConsumeJoinChallenge(c, ch)
  PROVE  /\ IsControlPlane(d)
         /\ d.on = c.on /\ d.time = c.time /\ d.members = c.members
         /\ d.memberAudit = c.memberAudit /\ d.rolloutAudit = c.rolloutAudit
         /\ d.rollouts = c.rollouts /\ d.owned = c.owned /\ d.ownAudit = c.ownAudit
<1> DEFINE used == [c.challenges[ch] EXCEPT !.consumed = TRUE]
           challenges == [c.challenges EXCEPT ![ch] = used]
<1>1. d = [on |-> c.on, time |-> c.time, members |-> c.members, memberAudit |-> c.memberAudit,
           rollouts |-> c.rollouts, rolloutAudit |-> c.rolloutAudit,
           challenges |-> challenges, owned |-> c.owned, ownAudit |-> c.ownAudit]
  BY DEF ConsumeJoinChallenge, IsControlPlane
<1>2. /\ c.challenges \in [DOMAIN c.challenges -> Challenge]
      /\ DOMAIN c.challenges \subseteq OpIds
  BY ControlFields
<1>3. used \in Challenge
  <2>1. c.challenges[ch] \in Challenge
    BY <1>2
  <2> QED BY <2>1 DEF Challenge
<1> HIDE DEF used
<1>4. challenges \in [DOMAIN challenges -> Challenge] /\ DOMAIN challenges \subseteq OpIds
  BY <1>2, <1>3
<1>5. IsControlPlane(d)
  <2> HIDE DEF challenges
  <2> QED BY <1>1, <1>4, ControlFields, ControlRecord
<1> QED BY <1>1, <1>5

\* A new ownership record moves the time to its own and is audited.
Owns(d, c, a, o, operation) ==
  /\ d.time = o.updated /\ d.owned = [c.owned EXCEPT ![a] = o]
  /\ d.ownAudit = [c.ownAudit EXCEPT ![a] = Append(@,
       [gen |-> o.gen, prevOwner |-> c.owned[a].owner, owner |-> o.owner,
        term |-> o.term, token |-> o.token, op |-> operation])]
  /\ d.on = c.on /\ d.members = c.members
  /\ d.memberAudit = c.memberAudit /\ d.rollouts = c.rollouts
  /\ d.rolloutAudit = c.rolloutAudit

\* The record of the holder is replaced.
LEMMA SetOwnerFacts ==
  ASSUME NEW c, IsControlPlane(c), NEW a \in Agents, NEW o \in Owner,
         NEW operation \in {"claim", "transfer", "renew", "release"},
         NEW d, d = SetOwner(c, a, o, operation)
  PROVE  IsControlPlane(d) /\ Owns(d, c, a, o, operation)
<1> DEFINE record == [gen |-> o.gen, prevOwner |-> c.owned[a].owner, owner |-> o.owner,
                      term |-> o.term, token |-> o.token, op |-> operation]
           owned == [c.owned EXCEPT ![a] = o]
           audit == [c.ownAudit EXCEPT ![a] = Append(c.ownAudit[a], record)]
<1>1. d = [on |-> c.on, time |-> o.updated, members |-> c.members, memberAudit |-> c.memberAudit,
           rollouts |-> c.rollouts, rolloutAudit |-> c.rolloutAudit,
           challenges |-> c.challenges, owned |-> owned, ownAudit |-> audit]
  BY DEF SetOwner, IsControlPlane
<1>2. record \in OwnRecord /\ o.updated \in Nat
  BY ControlFields DEF Owner, OwnRecord
<1> HIDE DEF record
<1>3. owned \in [Agents -> Owner] /\ audit \in [Agents -> Seq(OwnRecord)]
  BY <1>2, ControlFields
<1>4. IsControlPlane(d)
  <2> HIDE DEF owned, audit
  <2> QED BY <1>1, <1>2, <1>3, ControlFields, ControlRecord
<1>5. Owns(d, c, a, o, operation)
  BY <1>1 DEF record, Owns
<1> QED BY <1>4, <1>5

\* advance_authority_time always moves the clock.
LEMMA TimeMoves ==
  ASSUME NEW c, IsControlPlane(c), NEW p \in Proposals
  PROVE  EffectiveTime(c, p) \in Nat /\ EffectiveTime(c, p) > c.time
  BY ControlFields, AuthorityConstants DEF EffectiveTime

\* A command either takes its whole effect, with its receipt, or none.
LEMMA CommitFacts ==
  ASSUME TypeOK, NEW op, Fresh(op), NEW cmd \in Command, NEW next, IsControlPlane(next),
         Commit(op, cmd, next)
  PROVE  /\ term' = term /\ ~halted /\ halted' = ~Valid(next) /\ TypeOK'
         /\ \/ UNCHANGED <<control, receipts>> /\ ~Valid(next)
            \/ control' = next /\ receipts' = Append(receipts, cmd) /\ Valid(next)
<1> DEFINE retained == [i \in (DOMAIN receipts) \cup {op} |-> IF i = op THEN cmd ELSE receipts[i]]
<1>1. receipts \in Seq(Command) /\ op = Len(receipts) + 1 /\ op <= MaxReceipts
  BY DEF TypeOK, Fresh, OpIds
<1>2. retained = Append(receipts, cmd)
  <2>1. DOMAIN receipts = 1..Len(receipts) /\ Len(receipts) \in Nat
    BY <1>1
  <2>2. Append(receipts, cmd) \in Seq(Command) /\ Len(Append(receipts, cmd)) = op
    BY <1>1
  <2>3. Append(receipts, cmd) \in [1..op -> Command]
    BY <2>2, LenProperties
  <2>4. \A i \in 1..op : Append(receipts, cmd)[i] = IF i = op THEN cmd ELSE receipts[i]
    BY <1>1, AppendProperties
  <2>5. (DOMAIN receipts) \cup {op} = 1..op
    BY <1>1, <2>1
  <2>6. retained \in [1..op -> Command]
    BY <1>1, <2>1, <2>5
  <2> QED BY <2>3, <2>4, <2>5, <2>6
<1>3. Append(receipts, cmd) \in Seq(Command) /\ Len(Append(receipts, cmd)) <= MaxReceipts
  BY <1>1
<1> HIDE DEF retained
<1>4. Apply(next, retained)
  BY DEF Commit, retained
<1>5. CASE Valid(next)
  BY <1>2, <1>3, <1>4, <1>5 DEF Apply, TypeOK
<1>6. CASE ~Valid(next)
  BY <1>4, <1>6 DEF Apply, TypeOK
<1> QED BY <1>5, <1>6

-----------------------------------------------------------------------------
(* What each command does to the control plane.                            *)

\* Membership and rollouts are left alone; leases are left alone.
SameRegistry(d, c) ==
  /\ d.on = c.on /\ d.members = c.members /\ d.memberAudit = c.memberAudit
  /\ d.rollouts = c.rollouts /\ d.rolloutAudit = c.rolloutAudit
SameLeases(d, c) == d.owned = c.owned /\ d.ownAudit = c.ownAudit

\* An accepted claim is made by an active member on an agent that is free, and gives it the next token.
LEMMA ClaimOutcome ==
  ASSUME TypeOK, NEW op, NEW a \in Agents, NEW n \in Nodes, NEW expected \in Nat,
         ClaimOwnership(op, a, n, expected)
  PROVE  /\ control.on /\ Fresh(op) /\ control.members[n].state = "active"
         /\ expected = control.owned[a].token
         /\ \E now, o, next :
              /\ now \in Nat /\ o \in Owner
              /\ now > control.time /\ Available(control.owned[a], now)
              /\ o = [owner |-> n, term |-> term, token |-> control.owned[a].token + 1,
                      gen |-> control.owned[a].gen + 1, state |-> "active",
                      lease |-> now + LeaseTtl, updated |-> now]
              /\ next = SetOwner(control, a, o,
                          IF control.owned[a].state = "none" THEN "claim" ELSE "transfer")
              /\ Commit(op, [kind |-> "claim", agent |-> a, node |-> n,
                             expected |-> expected], next)
<1>1. PICK p \in Proposals :
        LET now == EffectiveTime(control, p)
            o   == control.owned[a]
        IN /\ Available(o, now)
           /\ Commit(op, [kind |-> "claim", agent |-> a, node |-> n, expected |-> expected],
                SetOwner(control, a,
                  [owner |-> n, term |-> term, token |-> o.token + 1, gen |-> o.gen + 1,
                   state |-> "active", lease |-> now + LeaseTtl, updated |-> now],
                  IF o.state = "none" THEN "claim" ELSE "transfer"))
  BY DEF ClaimOwnership
<1> DEFINE now == EffectiveTime(control, p)
           o == [owner |-> n, term |-> term, token |-> control.owned[a].token + 1,
                 gen |-> control.owned[a].gen + 1, state |-> "active",
                 lease |-> now + LeaseTtl, updated |-> now]
<1>2. now \in Nat /\ now > control.time
  BY TimeMoves DEF TypeOK
<1> HIDE DEF now
<1>3. o \in Owner
  <2>1. control.owned[a] \in Owner /\ term \in Nat
    BY ControlFields, AuthorityConstants DEF TypeOK
  <2> QED BY <2>1, <1>2, AuthorityConstants DEF Owner, NodeOrNone
<1>4. /\ control.on /\ Fresh(op) /\ control.members[n].state = "active"
      /\ expected = control.owned[a].token
  BY DEF ClaimOwnership, RequireActiveMember, Expected
<1>5. /\ Available(control.owned[a], now)
      /\ Commit(op, [kind |-> "claim", agent |-> a, node |-> n, expected |-> expected],
                SetOwner(control, a, o,
                  IF control.owned[a].state = "none" THEN "claim" ELSE "transfer"))
  BY <1>1 DEF now
<1> HIDE DEF o
<1> QED BY <1>2, <1>3, <1>4, <1>5 DEF o

\* The record of a holder with a new term, lease and time, field by field.
LEMMA ProlongedRecord ==
  ASSUME NEW x \in Owner, NEW t \in Nat, NEW lease \in Nat, NEW now \in Nat,
         NEW y, y = [x EXCEPT !.term = t, !.gen = @ + 1, !.lease = lease, !.updated = now]
  PROVE  y = [owner |-> x.owner, term |-> t, token |-> x.token, gen |-> x.gen + 1,
              state |-> x.state, lease |-> lease, updated |-> now]
  BY DEF Owner

\* The tombstone of a holder, field by field.
LEMMA ReleasedRecord ==
  ASSUME NEW x \in Owner, NEW t \in Nat, NEW now \in Nat,
         NEW y, y = [x EXCEPT !.term = t, !.gen = @ + 1, !.state = "released",
                              !.lease = now, !.updated = now]
  PROVE  y = [owner |-> x.owner, term |-> t, token |-> x.token, gen |-> x.gen + 1,
              state |-> "released", lease |-> now, updated |-> now]
  BY DEF Owner

\* An accepted renewal is of the current token by its owner, and prolongs that lease.
LEMMA RenewOutcome ==
  ASSUME TypeOK, NEW op, NEW a \in Agents, NEW n \in Nodes, NEW token \in Nat,
         RenewOwnership(op, a, n, token)
  PROVE  /\ control.on /\ Fresh(op) /\ control.members[n].state = "active"
         /\ Holds(control.owned[a], n, token)
         /\ \E now, o, next :
              /\ now \in Nat /\ o \in Owner
              /\ now > control.time /\ control.owned[a].lease > now
              /\ o = [owner |-> n, term |-> term, token |-> token,
                      gen |-> control.owned[a].gen + 1, state |-> "active",
                      lease |-> now + LeaseTtl, updated |-> now]
              /\ next = SetOwner(control, a, o, "renew")
              /\ Commit(op, [kind |-> "renew", agent |-> a, node |-> n,
                             token |-> token], next)
<1> DEFINE current == control.owned[a]
           changed(now) == [current EXCEPT !.term = term, !.gen = @ + 1,
                                           !.lease = now + LeaseTtl, !.updated = now]
           record(now) == [owner |-> n, term |-> term, token |-> token,
                           gen |-> current.gen + 1, state |-> "active",
                           lease |-> now + LeaseTtl, updated |-> now]
<1>1. PICK p \in Proposals :
        current.lease > EffectiveTime(control, p) /\
        Commit(op, [kind |-> "renew", agent |-> a, node |-> n, token |-> token],
               SetOwner(control, a, changed(EffectiveTime(control, p)), "renew"))
  BY DEF RenewOwnership
<1>2. PICK now : now = EffectiveTime(control, p)
  OBVIOUS
<1>3. now \in Nat /\ now > control.time
  BY <1>2, TimeMoves DEF TypeOK
<1>4. /\ control.on /\ Fresh(op) /\ control.members[n].state = "active"
      /\ Holds(current, n, token)
  BY DEF RenewOwnership, RequireActiveMember
<1>5. current \in Owner /\ term \in Nat
  BY ControlFields, AuthorityConstants DEF TypeOK
<1>6. PICK o : o = record(now)
  OBVIOUS
<1>7. o \in Owner
  BY <1>3, <1>5, <1>6, AuthorityConstants DEF Owner, NodeOrNone
<1>8. changed(now) = record(now)
  <2>1. current.owner = n /\ current.token = token /\ current.state = "active"
    BY <1>4 DEF Holds
  <2>2. PICK y : y = changed(now)
    OBVIOUS
  <2>3. PICK x : x = current
    OBVIOUS
  <2>4. y = [x EXCEPT !.term = term, !.gen = @ + 1, !.lease = now + LeaseTtl, !.updated = now]
    BY <2>2, <2>3
  <2>5. x \in Owner /\ term \in Nat /\ now \in Nat /\ now + LeaseTtl \in Nat
    BY <1>3, <1>5, <2>3, AuthorityConstants
  <2>6. y = [owner |-> x.owner, term |-> term, token |-> x.token, gen |-> x.gen + 1,
             state |-> x.state, lease |-> now + LeaseTtl, updated |-> now]
    BY <2>4, <2>5, ProlongedRecord
  <2>7. x.owner = n /\ x.token = token /\ x.state = "active" /\ x.gen = current.gen
    BY <2>1, <2>3
  <2>8. y = record(now)
    BY <2>6, <2>7
  <2> QED BY <2>2, <2>8
<1> HIDE DEF changed, record
<1>9. Commit(op, [kind |-> "renew", agent |-> a, node |-> n, token |-> token],
             SetOwner(control, a, o, "renew"))
  BY <1>1, <1>2, <1>6, <1>8
<1>10. PICK next : next = SetOwner(control, a, o, "renew")
  OBVIOUS
<1> QED BY <1>1, <1>2, <1>3, <1>4, <1>6, <1>7, <1>9, <1>10 DEF record

\* An accepted release is of the current token by its owner, and ends that lease.
LEMMA ReleaseOutcome ==
  ASSUME TypeOK, NEW op, NEW a \in Agents, NEW n \in Nodes, NEW token \in Nat,
         ReleaseOwnership(op, a, n, token)
  PROVE  /\ control.on /\ Fresh(op)
         /\ Holds(control.owned[a], n, token)
         /\ \E now, o, next :
              /\ now \in Nat /\ o \in Owner
              /\ now > control.time
              /\ o = [owner |-> n, term |-> term, token |-> token,
                      gen |-> control.owned[a].gen + 1, state |-> "released",
                      lease |-> now, updated |-> now]
              /\ next = SetOwner(control, a, o, "release")
              /\ Commit(op, [kind |-> "release", agent |-> a, node |-> n,
                             token |-> token], next)
<1> DEFINE current == control.owned[a]
           changed(now) == [current EXCEPT !.term = term, !.gen = @ + 1, !.state = "released",
                                           !.lease = now, !.updated = now]
           record(now) == [owner |-> n, term |-> term, token |-> token,
                           gen |-> current.gen + 1, state |-> "released",
                           lease |-> now, updated |-> now]
<1>1. PICK p \in Proposals :
        Commit(op, [kind |-> "release", agent |-> a, node |-> n, token |-> token],
               SetOwner(control, a, changed(EffectiveTime(control, p)), "release"))
  BY DEF ReleaseOwnership
<1>2. PICK now : now = EffectiveTime(control, p)
  OBVIOUS
<1>3. now \in Nat /\ now > control.time
  BY <1>2, TimeMoves DEF TypeOK
<1>4. /\ control.on /\ Fresh(op)
      /\ Holds(current, n, token)
  BY DEF ReleaseOwnership, RequireActiveMember
<1>5. current \in Owner /\ term \in Nat
  BY ControlFields, AuthorityConstants DEF TypeOK
<1>6. PICK o : o = record(now)
  OBVIOUS
<1>7. o \in Owner
  BY <1>3, <1>5, <1>6, AuthorityConstants DEF Owner, NodeOrNone
<1>8. changed(now) = record(now)
  <2>1. current.owner = n /\ current.token = token /\ current.state = "active"
    BY <1>4 DEF Holds
  <2>2. PICK y : y = changed(now)
    OBVIOUS
  <2>3. PICK x : x = current
    OBVIOUS
  <2>4. y = [x EXCEPT !.term = term, !.gen = @ + 1, !.state = "released",
                       !.lease = now, !.updated = now]
    BY <2>2, <2>3
  <2>5. x \in Owner /\ term \in Nat /\ now \in Nat /\ now + LeaseTtl \in Nat
    BY <1>3, <1>5, <2>3, AuthorityConstants
  <2>6. y = [owner |-> x.owner, term |-> term, token |-> x.token, gen |-> x.gen + 1,
             state |-> "released", lease |-> now, updated |-> now]
    BY <2>4, <2>5, ReleasedRecord
  <2>7. x.owner = n /\ x.token = token /\ x.state = "active" /\ x.gen = current.gen
    BY <2>1, <2>3
  <2>8. y = record(now)
    BY <2>6, <2>7
  <2> QED BY <2>2, <2>8
<1> HIDE DEF changed, record
<1>9. Commit(op, [kind |-> "release", agent |-> a, node |-> n, token |-> token],
             SetOwner(control, a, o, "release"))
  BY <1>1, <1>2, <1>6, <1>8
<1>10. PICK next : next = SetOwner(control, a, o, "release")
  OBVIOUS
<1> QED BY <1>1, <1>2, <1>3, <1>4, <1>6, <1>7, <1>9, <1>10 DEF record

\* A member gets a new revision at a time.
Revises(d, c, n, state, leaf, now) ==
  /\ d.on = c.on /\ d.time = now
  /\ d.members = [c.members EXCEPT ![n] =
       [state |-> state, gen |-> c.members[n].gen + 1, tls |-> leaf]]
  /\ d.memberAudit = [c.memberAudit EXCEPT ![n] = Append(@,
       [gen |-> c.members[n].gen + 1, prevState |-> c.members[n].state,
        state |-> state, prevTls |-> c.members[n].tls, tls |-> leaf])]

\* The rollout of a member moves on with its new revision.
Moves(d, c, n, from, to, prev, next, r) ==
  /\ d.rolloutAudit = [c.rolloutAudit EXCEPT ![n] = Append(@,
       [gen |-> c.members[n].gen + 1, from |-> from, to |-> to, prev |-> prev, next |-> next])]
  /\ d.rollouts = [c.rollouts EXCEPT ![n] = r]

\* A revision without a rollout record.
LEMMA PlainRevision ==
  ASSUME NEW c, IsControlPlane(c), NEW n \in Nodes, NEW state \in MemberStates,
         NEW leaf \in LeafOrNone, NEW now \in Nat,
         NEW d, d = AppendMemberRevision(c, n, state, leaf, now)
  PROVE  /\ IsControlPlane(d) /\ Revises(d, c, n, state, leaf, now)
         /\ d.rollouts = c.rollouts /\ d.rolloutAudit = c.rolloutAudit
         /\ d.challenges = c.challenges /\ SameLeases(d, c)
  BY MemberRevisionFacts DEF Revises, SameLeases

\* A revision with its rollout record.
LEMMA RevisionWithRollout ==
  ASSUME NEW c, IsControlPlane(c), NEW n \in Nodes, NEW state \in MemberStates,
         NEW leaf \in LeafOrNone, NEW now \in Nat,
         NEW from \in Phases, NEW to \in Phases,
         NEW prev \in LeafOrNone, NEW next \in LeafOrNone, NEW r \in Rollout,
         NEW d, d = SetRollout(AppendRolloutAudit(AppendMemberRevision(c, n, state, leaf, now),
                                                  n, from, to, prev, next), n, r)
  PROVE  /\ IsControlPlane(d) /\ Revises(d, c, n, state, leaf, now)
         /\ Moves(d, c, n, from, to, prev, next, r)
         /\ SameLeases(d, c) /\ d.challenges = c.challenges
<1>1. PICK e : e = AppendMemberRevision(c, n, state, leaf, now)
  OBVIOUS
<1>2. PICK f : f = AppendRolloutAudit(e, n, from, to, prev, next)
  OBVIOUS
<1>3. d = SetRollout(f, n, r)
  BY <1>1, <1>2
<1>4. /\ IsControlPlane(e) /\ Revises(e, c, n, state, leaf, now)
      /\ e.rollouts = c.rollouts /\ e.rolloutAudit = c.rolloutAudit
      /\ e.challenges = c.challenges /\ SameLeases(e, c)
  BY <1>1, PlainRevision
<1>5. e.members[n].gen = c.members[n].gen + 1
  BY <1>4, ControlFields DEF Revises
<1>6. /\ IsControlPlane(f)
      /\ f.rolloutAudit = [e.rolloutAudit EXCEPT ![n] = Append(@,
           [gen |-> e.members[n].gen, from |-> from, to |-> to, prev |-> prev, next |-> next])]
      /\ f.on = e.on /\ f.time = e.time /\ f.members = e.members
      /\ f.memberAudit = e.memberAudit /\ f.rollouts = e.rollouts
      /\ f.challenges = e.challenges /\ SameLeases(f, e)
  BY <1>2, <1>4, RolloutAuditFacts DEF SameLeases
<1>7. /\ IsControlPlane(d)
      /\ d.rollouts = [f.rollouts EXCEPT ![n] = r]
      /\ d.on = f.on /\ d.time = f.time /\ d.members = f.members
      /\ d.memberAudit = f.memberAudit /\ d.rolloutAudit = f.rolloutAudit
      /\ d.challenges = f.challenges /\ SameLeases(d, f)
  BY <1>3, <1>6, SetRolloutFacts DEF SameLeases
<1> QED BY <1>4, <1>5, <1>6, <1>7 DEF Revises, Moves, SameLeases

\* An accepted preparation opens a rollout beside the leaf in use, with one new record.
LEMMA PrepareOutcome ==
  ASSUME TypeOK, NEW op, NEW n \in Nodes, PrepareRollout(op, n)
  PROVE  /\ control.on /\ Fresh(op) /\ control.members[n].state = "active"
         /\ control.rollouts[n].phase = "none" /\ control.members[n].tls # NoLeaf
         /\ \E now, leaf, ch, r, next :
              /\ now \in Nat /\ leaf \in Leaves /\ ch \in OpIds /\ r \in Rollout
              /\ now > control.time
              /\ leaf # control.members[n].tls /\ ~PreviouslyAuthorized(control, leaf)
              /\ r = [phase |-> "prepared", gen |-> control.members[n].gen + 1,
                      prev |-> control.members[n].tls, next |-> leaf,
                      expires |-> now + PrepareTtl, retireAfter |-> 0]
              /\ IsControlPlane(next)
              /\ Revises(next, control, n, "active", control.members[n].tls, now)
              /\ Moves(next, control, n, "none", "prepared", control.members[n].tls, leaf, r)
              /\ SameLeases(next, control)
              /\ Commit(op, [kind |-> "prepare", node |-> n, leaf |-> leaf,
                             challenge |-> ch], next)
<1> DEFINE m == control.members[n]
           rollout(now, leaf) ==
             [phase |-> "prepared", gen |-> m.gen + 1, prev |-> m.tls,
              next |-> leaf, expires |-> now + PrepareTtl, retireAfter |-> 0]
           after(now, leaf) ==
             SetRollout(AppendRolloutAudit(AppendMemberRevision(control, n, "active", m.tls, now),
                                           n, "none", "prepared", m.tls, leaf),
                        n, rollout(now, leaf))
<1>1. PICK p \in Proposals, ch \in DOMAIN control.challenges, leaf \in Leaves :
        LET now == EffectiveTime(control, p) IN
        /\ m.tls # NoLeaf /\ leaf # m.tls /\ CandidateNew(control, leaf)
        /\ Commit(op, [kind |-> "prepare", node |-> n, leaf |-> leaf, challenge |-> ch],
                  ConsumeJoinChallenge(after(now, leaf), ch))
  BY DEF PrepareRollout
<1>2. PICK now : now = EffectiveTime(control, p)
  OBVIOUS
<1>3. PICK r : r = rollout(now, leaf)
  OBVIOUS
<1>4. PICK d : d = after(now, leaf)
  OBVIOUS
<1>5. PICK next : next = ConsumeJoinChallenge(d, ch)
  OBVIOUS
<1>6. now \in Nat /\ now > control.time
  BY <1>2, TimeMoves DEF TypeOK
<1>7. m \in Member /\ m.tls \in LeafOrNone /\ m.gen \in Nat
  BY ControlFields DEF TypeOK, Member
<1>8. leaf \in LeafOrNone /\ "active" \in MemberStates /\ "none" \in Phases /\ "prepared" \in Phases
  BY DEF LeafOrNone, MemberStates, Phases
<1>9. r \in Rollout
  BY <1>3, <1>6, <1>7, <1>8, AuthorityConstants DEF Rollout
<1>10. d = SetRollout(AppendRolloutAudit(AppendMemberRevision(control, n, "active", m.tls, now),
                                         n, "none", "prepared", m.tls, leaf), n, r)
  BY <1>3, <1>4
<1>11. /\ IsControlPlane(d) /\ Revises(d, control, n, "active", m.tls, now)
       /\ Moves(d, control, n, "none", "prepared", m.tls, leaf, r)
       /\ SameLeases(d, control) /\ d.challenges = control.challenges
  BY <1>6, <1>7, <1>8, <1>9, <1>10, RevisionWithRollout DEF TypeOK
<1>12. /\ IsControlPlane(next) /\ ch \in OpIds
       /\ next.on = d.on /\ next.time = d.time /\ next.members = d.members
       /\ next.memberAudit = d.memberAudit /\ next.rolloutAudit = d.rolloutAudit
       /\ next.rollouts = d.rollouts /\ next.owned = d.owned /\ next.ownAudit = d.ownAudit
  BY <1>5, <1>11, ConsumeFacts, ControlFields DEF TypeOK
<1>13. /\ Revises(next, control, n, "active", m.tls, now)
       /\ Moves(next, control, n, "none", "prepared", m.tls, leaf, r)
       /\ SameLeases(next, control)
  BY <1>11, <1>12 DEF Revises, Moves, SameLeases
<1>14. Commit(op, [kind |-> "prepare", node |-> n, leaf |-> leaf, challenge |-> ch], next)
  BY <1>1, <1>2, <1>4, <1>5
<1>15. /\ control.on /\ Fresh(op) /\ m.state = "active" /\ control.rollouts[n].phase = "none"
       /\ m.tls # NoLeaf /\ leaf # m.tls /\ ~PreviouslyAuthorized(control, leaf)
  BY <1>1 DEF PrepareRollout, CandidateNew
<1> QED BY <1>3, <1>6, <1>9, <1>12, <1>13, <1>14, <1>15

\* An accepted finish closes the rollout on the leaf in use, with one new record.
LEMMA FinishOutcome ==
  ASSUME TypeOK, NEW op, NEW n \in Nodes, NEW finish \in {"abort", "finalize"},
         FinishRollout(op, n, finish)
  PROVE  /\ control.on /\ Fresh(op) /\ control.members[n].state = "active"
         /\ control.rollouts[n].phase = IF finish = "abort" THEN "prepared" ELSE "activated"
         /\ control.rollouts[n].gen = control.members[n].gen
         /\ \E now, next :
              /\ now \in Nat
              /\ now > control.time /\ IsControlPlane(next)
              /\ Revises(next, control, n, "active", control.members[n].tls, now)
              /\ Moves(next, control, n, control.rollouts[n].phase, "none",
                       control.rollouts[n].prev, control.rollouts[n].next, NoRollout)
              /\ SameLeases(next, control)
              /\ Commit(op, [kind |-> finish, node |-> n], next)
<1> DEFINE m == control.members[n]
           r == control.rollouts[n]
           after(now) ==
             SetRollout(AppendRolloutAudit(AppendMemberRevision(control, n, "active", m.tls, now),
                                           n, r.phase, "none", r.prev, r.next), n, NoRollout)
<1>1. PICK p \in Proposals : Commit(op, [kind |-> finish, node |-> n],
                                    after(EffectiveTime(control, p)))
  BY DEF FinishRollout
<1>2. PICK now : now = EffectiveTime(control, p)
  OBVIOUS
<1>3. PICK next : next = after(now)
  OBVIOUS
<1>4. now \in Nat /\ now > control.time
  BY <1>2, TimeMoves DEF TypeOK
<1>5. m.tls \in LeafOrNone /\ r.phase \in Phases /\ r.prev \in LeafOrNone /\ r.next \in LeafOrNone
  BY ControlFields DEF TypeOK, Member, Rollout
<1>6. "active" \in MemberStates /\ "none" \in Phases /\ NoRollout \in Rollout
  BY DEF MemberStates, Phases, NoRollout, Rollout, LeafOrNone
<1>7. /\ IsControlPlane(next) /\ Revises(next, control, n, "active", m.tls, now)
      /\ Moves(next, control, n, r.phase, "none", r.prev, r.next, NoRollout)
      /\ SameLeases(next, control)
  BY <1>3, <1>4, <1>5, <1>6, RevisionWithRollout DEF TypeOK
<1>8. Commit(op, [kind |-> finish, node |-> n], next)
  BY <1>1, <1>2, <1>3
<1>9. /\ control.on /\ Fresh(op) /\ m.state = "active" /\ r.gen = m.gen
      /\ r.phase = IF finish = "abort" THEN "prepared" ELSE "activated"
  BY DEF FinishRollout
<1> QED BY <1>4, <1>7, <1>8, <1>9

\* The record of an activated rollout, field by field.
LEMMA ActivatedRecord ==
  ASSUME NEW x \in Rollout, NEW g \in Nat, NEW after \in Nat,
         NEW y, y = [x EXCEPT !.phase = "activated", !.gen = g, !.retireAfter = after]
  PROVE  y = [phase |-> "activated", gen |-> g, prev |-> x.prev, next |-> x.next,
              expires |-> x.expires, retireAfter |-> after]
  BY DEF Rollout

\* An accepted registration revises one member, and moves its rollout on when it activates the candidate.
LEMMA RegisterOutcome ==
  ASSUME TypeOK, NEW op, NEW n \in Nodes, RegisterMember(op, n)
  PROVE  /\ control.on /\ Fresh(op) /\ control.members[n].state # "revoked"
         /\ \E now, leaf, ch, next :
              /\ now \in Nat /\ leaf \in LeafOrNone /\ ch \in OpIds
              /\ now > control.time /\ IsControlPlane(next)
              /\ Presentable(control, n, leaf) /\ LeafUnassigned(control, n, leaf)
              /\ LeafChangeAllowed(control, n, leaf, now)
              /\ control.members[n].tls # NoLeaf => leaf # NoLeaf
              /\ Revises(next, control, n, "active", leaf, now)
              /\ \/ /\ Activates(control, n, leaf, now)
                    /\ \E r \in Rollout :
                         /\ r = [phase |-> "activated", gen |-> control.members[n].gen + 1,
                                 prev |-> control.rollouts[n].prev,
                                 next |-> control.rollouts[n].next,
                                 expires |-> control.rollouts[n].expires,
                                 retireAfter |-> now + Overlap]
                         /\ Moves(next, control, n, "prepared", "activated",
                                  control.rollouts[n].prev, control.rollouts[n].next, r)
                 \/ /\ ~Activates(control, n, leaf, now)
                    /\ next.rollouts = control.rollouts
                    /\ next.rolloutAudit = control.rolloutAudit
              /\ SameLeases(next, control)
              /\ Commit(op, [kind |-> "register", node |-> n, leaf |-> leaf,
                             challenge |-> ch], next)
<1> DEFINE m == control.members[n]
           r == control.rollouts[n]
           revised(now, leaf) == AppendMemberRevision(control, n, "active", leaf, now)
           opened(now) == [r EXCEPT !.phase = "activated", !.gen = m.gen + 1,
                                    !.retireAfter = now + Overlap]
           activated(now, leaf) ==
             SetRollout(AppendRolloutAudit(revised(now, leaf), n, "prepared", "activated",
                                           r.prev, r.next), n, opened(now))
           after(now, leaf) ==
             IF Activates(control, n, leaf, now) THEN activated(now, leaf) ELSE revised(now, leaf)
<1>1. PICK p \in Proposals, ch \in DOMAIN control.challenges, leaf \in LeafOrNone :
        LET now == EffectiveTime(control, p) IN
        /\ Presentable(control, n, leaf) /\ LeafUnassigned(control, n, leaf)
        /\ LeafChangeAllowed(control, n, leaf, now)
        /\ m.tls # NoLeaf => leaf # NoLeaf
        /\ Commit(op, [kind |-> "register", node |-> n, leaf |-> leaf, challenge |-> ch],
                  ConsumeJoinChallenge(after(now, leaf), ch))
  <2>1. PICK p \in Proposals, ch \in DOMAIN control.challenges, leaf \in LeafOrNone :
          LET now        == EffectiveTime(control, p)
              activating == Activates(control, n, leaf, now)
              audited    == IF activating
                              THEN AppendRolloutAudit(revised(now, leaf), n, "prepared",
                                                      "activated", r.prev, r.next)
                              ELSE revised(now, leaf)
          IN /\ Presentable(control, n, leaf) /\ LeafUnassigned(control, n, leaf)
             /\ LeafChangeAllowed(control, n, leaf, now)
             /\ m.tls # NoLeaf => leaf # NoLeaf
             /\ Commit(op, [kind |-> "register", node |-> n, leaf |-> leaf, challenge |-> ch],
                  ConsumeJoinChallenge(
                    IF activating THEN SetRollout(audited, n, opened(now)) ELSE audited, ch))
    BY DEF RegisterMember, LeafOrNone
  <2> HIDE DEF revised, opened, m, r
  <2>2. CASE Activates(control, n, leaf, EffectiveTime(control, p))
    BY <2>1, <2>2
  <2>3. CASE ~Activates(control, n, leaf, EffectiveTime(control, p))
    BY <2>1, <2>3
  <2> QED BY <2>2, <2>3
<1>2. PICK now : now = EffectiveTime(control, p)
  OBVIOUS
<1>3. PICK d : d = after(now, leaf)
  OBVIOUS
<1>4. PICK next : next = ConsumeJoinChallenge(d, ch)
  OBVIOUS
<1>5. /\ Presentable(control, n, leaf) /\ LeafUnassigned(control, n, leaf)
      /\ LeafChangeAllowed(control, n, leaf, now)
      /\ m.tls # NoLeaf => leaf # NoLeaf
      /\ Commit(op, [kind |-> "register", node |-> n, leaf |-> leaf, challenge |-> ch], next)
  <2> HIDE DEF after
  <2> QED BY <1>1, <1>2, <1>3, <1>4
<1>6. now \in Nat /\ now > control.time
  BY <1>2, TimeMoves DEF TypeOK
<1>7. /\ r \in Rollout /\ r.prev \in LeafOrNone /\ r.next \in LeafOrNone /\ r.expires \in Nat
      /\ m.gen + 1 \in Nat /\ leaf \in LeafOrNone
  BY ControlFields DEF TypeOK, Member, Rollout
<1>8. "active" \in MemberStates /\ "prepared" \in Phases /\ "activated" \in Phases
  BY DEF MemberStates, Phases
<1> DEFINE record == [phase |-> "activated", gen |-> m.gen + 1, prev |-> r.prev, next |-> r.next,
                      expires |-> r.expires, retireAfter |-> now + Overlap]
           MovesOn(e) == /\ Activates(control, n, leaf, now)
                         /\ \E q \in Rollout :
                              /\ q = record
                              /\ Moves(e, control, n, "prepared", "activated", r.prev, r.next, q)
           Stays(e) == /\ ~Activates(control, n, leaf, now)
                       /\ e.rollouts = control.rollouts /\ e.rolloutAudit = control.rolloutAudit
<1>9. /\ IsControlPlane(d) /\ Revises(d, control, n, "active", leaf, now)
      /\ SameLeases(d, control) /\ d.challenges = control.challenges
      /\ MovesOn(d) \/ Stays(d)
  <2>1. CASE Activates(control, n, leaf, now)
    <3>1. PICK q : q = opened(now)
      OBVIOUS
    <3>2. now + Overlap \in Nat
      BY <1>6, AuthorityConstants
    <3>3. q = record
      <4>1. PICK x : x = r
        OBVIOUS
      <4>2. PICK g : g = m.gen + 1
        OBVIOUS
      <4>3. q = [x EXCEPT !.phase = "activated", !.gen = g, !.retireAfter = now + Overlap]
        BY <3>1, <4>1, <4>2
      <4>4. q = [phase |-> "activated", gen |-> g, prev |-> x.prev, next |-> x.next,
                 expires |-> x.expires, retireAfter |-> now + Overlap]
        BY <3>2, <4>1, <4>2, <4>3, <1>7, ActivatedRecord
      <4> QED BY <4>1, <4>2, <4>4
    <3>4. q \in Rollout
      BY <3>2, <3>3, <1>7, <1>8 DEF Rollout
    <3>5. d = SetRollout(AppendRolloutAudit(revised(now, leaf), n, "prepared", "activated",
                                            r.prev, r.next), n, q)
      <4> HIDE DEF revised, opened
      <4> QED BY <1>3, <2>1, <3>1
    <3>6. /\ IsControlPlane(d) /\ Revises(d, control, n, "active", leaf, now)
          /\ Moves(d, control, n, "prepared", "activated", r.prev, r.next, q)
          /\ SameLeases(d, control) /\ d.challenges = control.challenges
      BY <3>4, <3>5, <1>6, <1>7, <1>8, RevisionWithRollout DEF TypeOK
    <3>7. MovesOn(d)
      <4> HIDE DEF record, r
      <4> QED BY <2>1, <3>3, <3>4, <3>6
    <3> HIDE DEF MovesOn, Stays
    <3> QED BY <3>6, <3>7
  <2>2. CASE ~Activates(control, n, leaf, now)
    <3>1. d = AppendMemberRevision(control, n, "active", leaf, now)
      BY <1>3, <2>2
    <3>2. /\ IsControlPlane(d) /\ Revises(d, control, n, "active", leaf, now)
          /\ SameLeases(d, control) /\ d.challenges = control.challenges
          /\ d.rollouts = control.rollouts /\ d.rolloutAudit = control.rolloutAudit
      BY <3>1, <1>6, <1>7, <1>8, PlainRevision DEF TypeOK
    <3>3. Stays(d)
      BY <2>2, <3>2
    <3> HIDE DEF MovesOn, Stays
    <3> QED BY <3>2, <3>3
  <2> QED BY <2>1, <2>2
<1>10. /\ IsControlPlane(next) /\ ch \in OpIds
       /\ next.on = d.on /\ next.time = d.time /\ next.members = d.members
       /\ next.memberAudit = d.memberAudit /\ next.rolloutAudit = d.rolloutAudit
       /\ next.rollouts = d.rollouts /\ next.owned = d.owned /\ next.ownAudit = d.ownAudit
  BY <1>4, <1>9, ConsumeFacts, ControlFields DEF TypeOK
<1>11. Revises(next, control, n, "active", leaf, now) /\ SameLeases(next, control)
  BY <1>9, <1>10 DEF Revises, SameLeases
<1>12. MovesOn(next) \/ Stays(next)
  <2> HIDE DEF record
  <2> QED BY <1>9, <1>10 DEF Moves
<1>13. control.on /\ Fresh(op) /\ m.state # "revoked"
  BY DEF RegisterMember
<1> HIDE DEF MovesOn, Stays
<1> QED BY <1>5, <1>6, <1>7, <1>10, <1>11, <1>12, <1>13 DEF MovesOn, Stays

\* The leases of a set are released at a time, the others left alone.
Frees(d, c, live, n, now) ==
  /\ \A a \in Agents \ live : d.owned[a] = c.owned[a] /\ d.ownAudit[a] = c.ownAudit[a]
  /\ \A a \in live :
       /\ d.owned[a] = [owner |-> c.owned[a].owner, term |-> term,
                        token |-> c.owned[a].token, gen |-> c.owned[a].gen + 1,
                        state |-> "released", lease |-> now, updated |-> now]
       /\ d.ownAudit[a] = Append(c.ownAudit[a],
            [gen |-> c.owned[a].gen + 1, prevOwner |-> n, owner |-> n, term |-> term,
             token |-> c.owned[a].token, op |-> "release"])

\* The loop of a revocation: the leases in the set are released, the others
\* and everything else is left alone.
LEMMA ReleaseLeasesFacts ==
  ASSUME NEW c, IsControlPlane(c), NEW live \in SUBSET Agents, NEW n \in Nodes, NEW now \in Nat,
         term \in Nat, NEW d, d = ReleaseLeases(c, live, n, now)
  PROVE  /\ IsControlPlane(d)
         /\ Frees(d, c, live, n, now)
         /\ d.on = c.on /\ d.time = c.time /\ d.members = c.members
         /\ d.memberAudit = c.memberAudit /\ d.rollouts = c.rollouts
         /\ d.rolloutAudit = c.rolloutAudit /\ d.challenges = c.challenges
<1> DEFINE released(o) == [o EXCEPT !.term = term, !.gen = @ + 1, !.state = "released",
                                    !.lease = now, !.updated = now]
           record(o) == [owner |-> o.owner, term |-> term, token |-> o.token, gen |-> o.gen + 1,
                         state |-> "released", lease |-> now, updated |-> now]
           audit(o) == [gen |-> o.gen + 1, prevOwner |-> n, owner |-> n, term |-> term,
                        token |-> o.token, op |-> "release"]
           owned == [a \in Agents |-> IF a \in live THEN released(c.owned[a]) ELSE c.owned[a]]
           audits == [a \in Agents |-> IF a \in live THEN Append(c.ownAudit[a], audit(c.owned[a]))
                                       ELSE c.ownAudit[a]]
<1>1. \A o \in Owner : released(o) = record(o)
  <2> SUFFICES ASSUME NEW o \in Owner PROVE released(o) = record(o)
    OBVIOUS
  <2>1. PICK y : y = released(o)
    OBVIOUS
  <2>2. y = record(o)
    BY <2>1, ReleasedRecord
  <2> QED BY <2>1, <2>2
<1>2. \A o \in Owner : record(o) \in Owner /\ audit(o) \in OwnRecord
  BY DEF Owner, OwnRecord, NodeOrNone
<1>3. d = [c EXCEPT !.owned = owned, !.ownAudit = audits]
  BY DEF ReleaseLeases
<1> HIDE DEF released, record, audit
<1>4. c.owned \in [Agents -> Owner] /\ c.ownAudit \in [Agents -> Seq(OwnRecord)]
  BY ControlFields
<1>5. owned \in [Agents -> Owner]
  BY <1>1, <1>2, <1>4
<1>6. audits \in [Agents -> Seq(OwnRecord)]
  <2> SUFFICES ASSUME NEW a \in Agents PROVE audits[a] \in Seq(OwnRecord)
    OBVIOUS
  <2>1. audit(c.owned[a]) \in OwnRecord /\ c.ownAudit[a] \in Seq(OwnRecord)
    BY <1>2, <1>4
  <2>2. Append(c.ownAudit[a], audit(c.owned[a])) \in Seq(OwnRecord)
    BY <2>1
  <2> QED BY <2>1, <2>2
<1>7. \A a \in Agents \ live : owned[a] = c.owned[a] /\ audits[a] = c.ownAudit[a]
  OBVIOUS
<1>8. \A a \in live : /\ owned[a] = record(c.owned[a])
                      /\ audits[a] = Append(c.ownAudit[a], audit(c.owned[a]))
  BY <1>1, <1>4
<1> HIDE DEF owned, audits
<1>9. d = [on |-> c.on, time |-> c.time, members |-> c.members, memberAudit |-> c.memberAudit,
           rollouts |-> c.rollouts, rolloutAudit |-> c.rolloutAudit,
           challenges |-> c.challenges, owned |-> owned, ownAudit |-> audits]
  BY <1>3 DEF IsControlPlane
<1>10. IsControlPlane(d)
  BY <1>5, <1>6, <1>9, ControlFields, ControlRecord
<1>11. d.owned = owned /\ d.ownAudit = audits
  BY <1>9
<1>12. /\ \A a \in Agents \ live : d.owned[a] = c.owned[a] /\ d.ownAudit[a] = c.ownAudit[a]
       /\ \A a \in live : /\ d.owned[a] = record(c.owned[a])
                          /\ d.ownAudit[a] = Append(c.ownAudit[a], audit(c.owned[a]))
  BY <1>7, <1>8, <1>11
<1>13. /\ d.on = c.on /\ d.time = c.time /\ d.members = c.members
       /\ d.memberAudit = c.memberAudit /\ d.rollouts = c.rollouts
       /\ d.rolloutAudit = c.rolloutAudit /\ d.challenges = c.challenges
  BY <1>9
<1>14. Frees(d, c, live, n, now)
  BY <1>12 DEF Frees, record, audit
<1> QED BY <1>10, <1>13, <1>14

\* An accepted change of state revises one member, releases its live leases and ends its rollout.
LEMMA SetStateOutcome ==
  ASSUME TypeOK, NEW op, NEW n \in Nodes, NEW state \in {"left", "revoked"},
         SetMemberState(op, n, state)
  PROVE  /\ control.on /\ Fresh(op) /\ control.members[n].state \notin {"none", "revoked", state}
         /\ state = "left" => control.rollouts[n].phase = "none"
         /\ \E now, next :
              /\ now \in Nat
              /\ now > control.time /\ IsControlPlane(next)
              /\ state = "left" => LiveLeases(control, n, now) = {}
              /\ Frees(next, control, LiveLeases(control, n, now), n, now)
              /\ Revises(next, control, n, state, control.members[n].tls, now)
              /\ next.rollouts = [control.rollouts EXCEPT ![n] = NoRollout]
              /\ \/ /\ control.rollouts[n].phase = "none"
                    /\ next.rolloutAudit = control.rolloutAudit
                 \/ /\ control.rollouts[n].phase # "none"
                    /\ Moves(next, control, n, control.rollouts[n].phase, "none",
                             control.rollouts[n].prev, control.rollouts[n].next, NoRollout)
              /\ Commit(op, [kind |-> "state", node |-> n, state |-> state], next)
<1> DEFINE m == control.members[n]
           r == control.rollouts[n]
           freed(now) == ReleaseLeases(control, LiveLeases(control, n, now), n, now)
           revised(now) == AppendMemberRevision(freed(now), n, state, m.tls, now)
           closed(now) == IF r.phase = "none" THEN revised(now)
                          ELSE AppendRolloutAudit(revised(now), n, r.phase, "none", r.prev, r.next)
<1>1. PICK p \in Proposals :
        /\ state = "left" => LiveLeases(control, n, EffectiveTime(control, p)) = {}
        /\ Commit(op, [kind |-> "state", node |-> n, state |-> state],
                  SetRollout(closed(EffectiveTime(control, p)), n, NoRollout))
  BY DEF SetMemberState
<1>2. PICK now : now = EffectiveTime(control, p)
  OBVIOUS
<1>3. PICK d : d = freed(now)
  OBVIOUS
<1>4. PICK e : e = AppendMemberRevision(d, n, state, m.tls, now)
  OBVIOUS
<1>5. PICK next : next = SetRollout(closed(now), n, NoRollout)
  OBVIOUS
<1>6. next = IF r.phase = "none" THEN SetRollout(e, n, NoRollout)
             ELSE SetRollout(AppendRolloutAudit(e, n, r.phase, "none", r.prev, r.next),
                             n, NoRollout)
  <2> HIDE DEF freed
  <2>1. e = revised(now)
    BY <1>3, <1>4
  <2> HIDE DEF revised
  <2> QED BY <1>5, <2>1
<1>7. /\ state = "left" => LiveLeases(control, n, now) = {}
      /\ Commit(op, [kind |-> "state", node |-> n, state |-> state], next)
  <2> HIDE DEF closed
  <2> QED BY <1>1, <1>2, <1>5
<1>8. now \in Nat /\ now > control.time
  BY <1>2, TimeMoves DEF TypeOK
<1>9. /\ m.tls \in LeafOrNone /\ r.phase \in Phases /\ r.prev \in LeafOrNone
      /\ r.next \in LeafOrNone /\ term \in Nat
  BY ControlFields, AuthorityConstants DEF TypeOK, Member, Rollout
<1>10. state \in MemberStates /\ "none" \in Phases /\ NoRollout \in Rollout
  BY DEF MemberStates, Phases, NoRollout, Rollout, LeafOrNone
<1>11. /\ IsControlPlane(d) /\ Frees(d, control, LiveLeases(control, n, now), n, now)
       /\ d.on = control.on /\ d.time = control.time /\ d.members = control.members
       /\ d.memberAudit = control.memberAudit /\ d.rollouts = control.rollouts
       /\ d.rolloutAudit = control.rolloutAudit
  <2>1. PICK live \in SUBSET Agents : live = LiveLeases(control, n, now)
    BY DEF LiveLeases
  <2>2. d = ReleaseLeases(control, live, n, now)
    BY <1>3, <2>1
  <2> QED BY <1>8, <1>9, <2>1, <2>2, ReleaseLeasesFacts DEF TypeOK
<1>12. d.rollouts[n] = r /\ d.members[n] = m
  BY <1>11
<1>13. CASE r.phase = "none"
  <2>1. /\ IsControlPlane(e) /\ Revises(e, d, n, state, m.tls, now)
        /\ e.rollouts = d.rollouts /\ e.rolloutAudit = d.rolloutAudit
        /\ SameLeases(e, d)
    BY <1>4, <1>8, <1>9, <1>10, <1>11, PlainRevision
  <2>2. next = SetRollout(e, n, NoRollout)
    BY <1>6, <1>13
  <2>3. /\ IsControlPlane(next)
        /\ next.rollouts = [e.rollouts EXCEPT ![n] = NoRollout]
        /\ next.on = e.on /\ next.time = e.time /\ next.members = e.members
        /\ next.memberAudit = e.memberAudit /\ next.rolloutAudit = e.rolloutAudit
        /\ SameLeases(next, e)
    BY <1>10, <2>1, <2>2, SetRolloutFacts DEF SameLeases
  <2>4. Revises(next, control, n, state, m.tls, now)
    BY <1>11, <2>1, <2>3 DEF Revises
  <2>5. Frees(next, control, LiveLeases(control, n, now), n, now)
    BY <1>11, <2>1, <2>3 DEF Frees, SameLeases
  <2>6. /\ next.rollouts = [control.rollouts EXCEPT ![n] = NoRollout]
        /\ next.rolloutAudit = control.rolloutAudit
    BY <1>11, <2>1, <2>3
  <2>7. /\ control.on /\ Fresh(op) /\ m.state \notin {"none", "revoked", state}
        /\ state = "left" => r.phase = "none"
    BY DEF SetMemberState
  <2> QED BY <1>7, <1>8, <1>13, <2>3, <2>4, <2>5, <2>6, <2>7
<1>14. CASE r.phase # "none"
  <2>1. next = SetRollout(AppendRolloutAudit(AppendMemberRevision(d, n, state, m.tls, now),
                                             n, r.phase, "none", r.prev, r.next), n, NoRollout)
    BY <1>4, <1>6, <1>14
  <2>2. /\ IsControlPlane(next) /\ Revises(next, d, n, state, m.tls, now)
        /\ Moves(next, d, n, r.phase, "none", r.prev, r.next, NoRollout)
        /\ SameLeases(next, d)
    BY <1>8, <1>9, <1>10, <1>11, <2>1, RevisionWithRollout
  <2>3. Revises(next, control, n, state, m.tls, now)
    BY <1>11, <2>2 DEF Revises
  <2>4. Frees(next, control, LiveLeases(control, n, now), n, now)
    BY <1>11, <2>2 DEF Frees, SameLeases
  <2>5. /\ Moves(next, control, n, r.phase, "none", r.prev, r.next, NoRollout)
        /\ next.rollouts = [control.rollouts EXCEPT ![n] = NoRollout]
    BY <1>11, <2>2 DEF Moves
  <2>6. /\ control.on /\ Fresh(op) /\ m.state \notin {"none", "revoked", state}
        /\ state = "left" => r.phase = "none"
    BY DEF SetMemberState
  <2> QED BY <1>7, <1>8, <1>14, <2>2, <2>3, <2>4, <2>5, <2>6
<1> QED BY <1>13, <1>14

\* The accepted first command seeds the genesis members, each with one revision, and nothing else.
LEMMA InitializeOutcome ==
  ASSUME TypeOK, NEW op, Initialize(op)
  PROVE  /\ ~control.on /\ Fresh(op)
         /\ \E p, next :
              /\ p \in Nat
              /\ IsControlPlane(next) /\ next.on /\ next.time = p
              /\ next.members = [n \in Nodes |->
                   IF n \in DOMAIN GenesisLeaf
                     THEN [state |-> "active", gen |-> 1, tls |-> GenesisLeaf[n]]
                     ELSE NoMember]
              /\ next.memberAudit = [n \in Nodes |->
                   IF n \in DOMAIN GenesisLeaf
                     THEN <<[gen |-> 1, prevState |-> "none", state |-> "active",
                             prevTls |-> NoLeaf, tls |-> GenesisLeaf[n]]>>
                     ELSE <<>>]
              /\ next.rollouts = control.rollouts /\ next.rolloutAudit = control.rolloutAudit
              /\ SameLeases(next, control)
              /\ Commit(op, [kind |-> "initialize"], next)
<1> DEFINE seed(n) == [gen |-> 1, prevState |-> "none", state |-> "active",
                       prevTls |-> NoLeaf, tls |-> GenesisLeaf[n]]
           first(n) == [state |-> "active", gen |-> 1, tls |-> GenesisLeaf[n]]
           members == [n \in Nodes |-> IF n \in DOMAIN GenesisLeaf THEN first(n) ELSE NoMember]
           audit == [n \in Nodes |-> IF n \in DOMAIN GenesisLeaf THEN <<seed(n)>> ELSE <<>>]
<1>1. PICK p \in Proposals :
        Commit(op, [kind |-> "initialize"],
               [control EXCEPT !.on = TRUE, !.time = p, !.members = members,
                               !.memberAudit = audit])
  BY DEF Initialize
<1>2. PICK next : next = [control EXCEPT !.on = TRUE, !.time = p, !.members = members,
                                         !.memberAudit = audit]
  OBVIOUS
<1>3. Commit(op, [kind |-> "initialize"], next)
  BY <1>1, <1>2
<1>4. \A n \in Nodes : n \in DOMAIN GenesisLeaf => first(n) \in Member /\ seed(n) \in Revision
  BY AuthorityConstants DEF Member, Revision, LeafOrNone, MemberStates
<1>5. NoMember \in Member /\ p \in Nat
  BY AuthorityConstants DEF NoMember, Member, MemberStates, LeafOrNone
<1> HIDE DEF seed, first
<1>6. members \in [Nodes -> Member] /\ audit \in [Nodes -> Seq(Revision)]
  BY <1>4, <1>5
<1> HIDE DEF members, audit
<1>7. next = [on |-> TRUE, time |-> p, members |-> members, memberAudit |-> audit,
              rollouts |-> control.rollouts, rolloutAudit |-> control.rolloutAudit,
              challenges |-> control.challenges, owned |-> control.owned,
              ownAudit |-> control.ownAudit]
  BY <1>2 DEF TypeOK, IsControlPlane
<1>8. IsControlPlane(next)
  BY <1>5, <1>6, <1>7, ControlFields, ControlRecord DEF TypeOK
<1>9. /\ next.on /\ next.time = p /\ next.members = members /\ next.memberAudit = audit
      /\ next.rollouts = control.rollouts /\ next.rolloutAudit = control.rolloutAudit
      /\ SameLeases(next, control)
  BY <1>7 DEF SameLeases
<1>10. ~control.on /\ Fresh(op)
  BY DEF Initialize
<1> QED BY <1>3, <1>5, <1>8, <1>9, <1>10 DEF members, audit, seed, first

\* An accepted join challenge changes only the table of challenges.
LEMMA ChallengeOutcome ==
  ASSUME TypeOK, NEW op, IssueJoinChallenge(op)
  PROVE  /\ control.on /\ Fresh(op)
         /\ \E now, next :
              /\ now \in Nat
              /\ now > control.time /\ IsControlPlane(next) /\ next.time = now
              /\ SameRegistry(next, control) /\ SameLeases(next, control)
              /\ Commit(op, [kind |-> "challenge"], next)
<1> DEFINE live(now) == {ch \in DOMAIN control.challenges :
                           control.challenges[ch].expires > now /\ ~control.challenges[ch].consumed}
           new(now) == [expires |-> now + ChallengeTtl, consumed |-> FALSE]
           challenges(now) == [ch \in live(now) \cup {op} |->
                                 IF ch = op THEN new(now) ELSE control.challenges[ch]]
<1>1. PICK p \in Proposals :
        Commit(op, [kind |-> "challenge"],
               [control EXCEPT !.time = EffectiveTime(control, p),
                               !.challenges = challenges(EffectiveTime(control, p))])
  BY DEF IssueJoinChallenge
<1>2. PICK now : now = EffectiveTime(control, p)
  OBVIOUS
<1>3. PICK next : next = [control EXCEPT !.time = now, !.challenges = challenges(now)]
  OBVIOUS
<1>4. Commit(op, [kind |-> "challenge"], next)
  <2> HIDE DEF challenges
  <2> QED BY <1>1, <1>2, <1>3
<1>5. now \in Nat /\ now > control.time
  BY <1>2, TimeMoves DEF TypeOK
<1>6. new(now) \in Challenge
  BY <1>5, AuthorityConstants DEF Challenge
<1>7. control.on /\ Fresh(op) /\ op \in OpIds
  BY DEF IssueJoinChallenge, Fresh
<1>8. /\ control.challenges \in [DOMAIN control.challenges -> Challenge]
      /\ DOMAIN control.challenges \subseteq OpIds
  BY ControlFields DEF TypeOK
<1> HIDE DEF new
<1>9. PICK chs : chs = challenges(now)
  OBVIOUS
<1>10. chs \in [DOMAIN chs -> Challenge] /\ DOMAIN chs \subseteq OpIds
  <2>1. live(now) \subseteq DOMAIN control.challenges
    OBVIOUS
  <2> HIDE DEF live
  <2>2. \A ch \in live(now) \cup {op} : chs[ch] \in Challenge
    BY <1>6, <1>8, <1>9, <2>1
  <2> QED BY <1>7, <1>8, <1>9, <2>1, <2>2
<1>11. next = [on |-> control.on, time |-> now, members |-> control.members,
               memberAudit |-> control.memberAudit,
               rollouts |-> control.rollouts, rolloutAudit |-> control.rolloutAudit,
               challenges |-> chs, owned |-> control.owned, ownAudit |-> control.ownAudit]
  <2> HIDE DEF challenges
  <2> QED BY <1>3, <1>9 DEF TypeOK, IsControlPlane
<1>12. IsControlPlane(next)
  BY <1>5, <1>10, <1>11, ControlFields, ControlRecord DEF TypeOK
<1>13. next.time = now /\ SameRegistry(next, control) /\ SameLeases(next, control)
  BY <1>11 DEF SameRegistry, SameLeases
<1> QED BY <1>4, <1>5, <1>7, <1>12, <1>13

-----------------------------------------------------------------------------
(* What a step may do to the leases.                                       *)

\* The record of a holder with a token, written at a time.
Held(n, t, token, gen, state, lease, now) ==
  [owner |-> n, term |-> t, token |-> token, gen |-> gen,
   state |-> state, lease |-> lease, updated |-> now]

\* A lease is left alone, granted, prolonged or given up.
LeaseMove(a) ==
  LET o == control.owned[a]
      now == control'.time
  IN
  \/ control'.owned[a] = o
  \/ \E n \in Nodes :
       /\ Available(o, now)
       /\ control'.owned[a] = Held(n, term, o.token + 1, o.gen + 1, "active", now + LeaseTtl, now)
  \/ /\ o.state = "active" /\ o.lease > now
     /\ control'.owned[a] = Held(o.owner, term, o.token, o.gen + 1, "active", now + LeaseTtl, now)
  \/ /\ o.state = "active"
     /\ control'.owned[a] = Held(o.owner, term, o.token, o.gen + 1, "released", now, now)

\* What every step respects: time and terms do not go back, a member that
\* stops being active leaves no live lease, and a claim spends the token it
\* named.
LeaseFrame ==
  /\ TypeOK' /\ term' >= term /\ control'.time >= control.time
  /\ \A a \in Agents : LeaseMove(a)
  /\ \A n \in Nodes :
       control'.members[n].state # "active" =>
         \/ control.members[n].state # "active"
              /\ \A a \in Agents : control'.owned[a].state = "active" /\ control'.owned[a].owner = n
                                     => control'.owned[a] = control.owned[a]
         \/ \A a \in Agents : control'.owned[a].state = "active" /\ control'.owned[a].owner = n
                                => control'.owned[a].lease <= control'.time
  /\ \/ receipts' = receipts
     \/ \E cmd \in Command :
          /\ receipts' = Append(receipts, cmd)
          /\ cmd.kind = "claim" => /\ cmd.expected = control.owned[cmd.agent].token
                                   /\ control'.owned[cmd.agent].token > cmd.expected
  /\ control'.on = TRUE \/ control' = control

\* The frame of a step that changes no lease, with a membership in which nobody
\* stops being active.
LEMMA QuietFrame ==
  ASSUME TypeOK, TypeOK', term' >= term, control'.time >= control.time,
         control'.owned = control.owned,
         \A n \in Nodes : \/ control'.members[n].state = "active"
                          \/ control'.members[n].state = control.members[n].state,
         \/ receipts' = receipts
         \/ \E cmd \in Command : receipts' = Append(receipts, cmd) /\ cmd.kind # "claim",
         control'.on = TRUE \/ control' = control
  PROVE  LeaseFrame
<1>1. \A a \in Agents : LeaseMove(a)
  BY DEF LeaseMove
<1>2. \A n \in Nodes : control'.members[n].state # "active" =>
        /\ control.members[n].state # "active"
        /\ \A a \in Agents : control'.owned[a].state = "active" /\ control'.owned[a].owner = n
                               => control'.owned[a] = control.owned[a]
  OBVIOUS
<1> QED BY <1>1, <1>2 DEF LeaseFrame

\* The frame of a refused write: nothing but `halted' changes.
LEMMA RefusedFrame ==
  ASSUME TypeOK, TypeOK', term' >= term, UNCHANGED <<control, receipts>>
  PROVE  LeaseFrame
<1>1. control' = control /\ receipts' = receipts
  OBVIOUS
<1>2. control'.time >= control.time
  BY <1>1, ControlFields DEF TypeOK
<1>3. control'.owned = control.owned /\ control'.members = control.members
  BY <1>1
<1> QED BY <1>1, <1>2, <1>3, QuietFrame

\* The frame of a command on one lease.
LEMMA OwnerFrame ==
  ASSUME TypeOK, NEW op, Fresh(op), control.on = TRUE, NEW cmd \in Command, NEW a \in Agents, NEW o \in Owner,
         NEW operation \in {"claim", "transfer", "renew", "release"},
         NEW next, next = SetOwner(control, a, o, operation), Commit(op, cmd, next),
         o.updated > control.time,
         o.state = "active" => o.owner \in Nodes /\ control.members[o.owner].state = "active",
         cmd.kind = "claim" => /\ cmd.agent = a /\ cmd.expected = control.owned[a].token
                               /\ o.token > cmd.expected,
         control' = next => LeaseMove(a)
  PROVE  LeaseFrame
<1>1. /\ IsControlPlane(next) /\ next.time = o.updated /\ next.owned = [control.owned EXCEPT ![a] = o]
      /\ next.on = control.on /\ next.members = control.members
  <2>1. IsControlPlane(next) /\ Owns(next, control, a, o, operation)
    BY SetOwnerFacts DEF TypeOK
  <2> QED BY <2>1 DEF Owns
<1>2. /\ term' = term /\ TypeOK'
      /\ \/ UNCHANGED <<control, receipts>>
         \/ control' = next /\ receipts' = Append(receipts, cmd)
  BY <1>1, CommitFacts
<1>3. term \in Nat /\ control.time \in Nat /\ o.updated \in Nat
  BY ControlFields, AuthorityConstants DEF TypeOK, Owner
<1>4. CASE UNCHANGED <<control, receipts>>
  BY <1>2, <1>3, <1>4, RefusedFrame
<1>5. CASE control' = next /\ receipts' = Append(receipts, cmd)
  <2>1. control'.owned = [control.owned EXCEPT ![a] = o] /\ control'.owned[a] = o
    <3>1. control.owned \in [Agents -> Owner]
      BY ControlFields DEF TypeOK
    <3>2. control'.owned = [control.owned EXCEPT ![a] = o]
      BY <1>1, <1>5
    <3> QED BY <3>1, <3>2
  <2>2. \A b \in Agents : LeaseMove(b)
    <3> SUFFICES ASSUME NEW b \in Agents, b # a PROVE LeaseMove(b)
      BY <1>5
    <3>1. control'.owned[b] = control.owned[b]
      BY <2>1, ControlFields DEF TypeOK
    <3> QED BY <3>1 DEF LeaseMove
  <2>3. ASSUME NEW n \in Nodes, control'.members[n].state # "active"
        PROVE  /\ control.members[n].state # "active"
               /\ \A b \in Agents : control'.owned[b].state = "active" /\ control'.owned[b].owner = n
                                      => control'.owned[b] = control.owned[b]
    <3>1. control.members[n].state # "active"
      BY <1>1, <1>5, <2>3
    <3>2. ASSUME NEW b \in Agents, control'.owned[b].state = "active", control'.owned[b].owner = n
          PROVE  b # a
      BY <2>1, <3>1, <3>2
    <3>3. \A b \in Agents : b # a => control'.owned[b] = control.owned[b]
      BY <2>1, ControlFields DEF TypeOK
    <3> QED BY <3>1, <3>2, <3>3
  <2>4. control'.on = TRUE /\ control'.time >= control.time /\ term' >= term
    BY <1>1, <1>2, <1>3, <1>5
  <2>5. cmd.kind = "claim" => /\ cmd.expected = control.owned[cmd.agent].token
                              /\ control'.owned[cmd.agent].token > cmd.expected
    BY <2>1
  <2> QED BY <1>2, <1>5, <2>2, <2>3, <2>4, <2>5 DEF LeaseFrame
<1> QED BY <1>2, <1>4, <1>5

\* The receipts of the lease commands and of the others.
LEMMA CommandFacts ==
  /\ [kind |-> "barrier"] \in Command /\ [kind |-> "initialize"] \in Command
  /\ [kind |-> "challenge"] \in Command
  /\ \A n \in Nodes, leaf \in LeafOrNone, ch \in OpIds :
       /\ [kind |-> "prepare", node |-> n, leaf |-> leaf, challenge |-> ch] \in Command
       /\ [kind |-> "register", node |-> n, leaf |-> leaf, challenge |-> ch] \in Command
  /\ \A n \in Nodes, finish \in {"abort", "finalize"} : [kind |-> finish, node |-> n] \in Command
  /\ \A n \in Nodes, state \in MemberStates :
       [kind |-> "state", node |-> n, state |-> state] \in Command
  /\ \A a \in Agents, n \in Nodes, token \in Nat :
       /\ [kind |-> "claim", agent |-> a, node |-> n, expected |-> token] \in Command
       /\ [kind |-> "renew", agent |-> a, node |-> n, token |-> token] \in Command
       /\ [kind |-> "release", agent |-> a, node |-> n, token |-> token] \in Command
<1>1. /\ [kind |-> "barrier"] \in Command /\ [kind |-> "initialize"] \in Command
      /\ [kind |-> "challenge"] \in Command
  BY DEF Command
<1>2. ASSUME NEW n \in Nodes, NEW leaf \in LeafOrNone, NEW ch \in OpIds
      PROVE  /\ [kind |-> "prepare", node |-> n, leaf |-> leaf, challenge |-> ch] \in Command
             /\ [kind |-> "register", node |-> n, leaf |-> leaf, challenge |-> ch] \in Command
  BY DEF Command
<1>3. ASSUME NEW n \in Nodes, NEW finish \in {"abort", "finalize"}
      PROVE  [kind |-> finish, node |-> n] \in Command
  BY DEF Command
<1>4. ASSUME NEW n \in Nodes, NEW state \in MemberStates
      PROVE  [kind |-> "state", node |-> n, state |-> state] \in Command
  BY DEF Command
<1>5. ASSUME NEW a \in Agents, NEW n \in Nodes, NEW token \in Nat
      PROVE  /\ [kind |-> "claim", agent |-> a, node |-> n, expected |-> token] \in Command
             /\ [kind |-> "renew", agent |-> a, node |-> n, token |-> token] \in Command
             /\ [kind |-> "release", agent |-> a, node |-> n, token |-> token] \in Command
  BY DEF Command
<1> QED BY <1>1, <1>2, <1>3, <1>4, <1>5

\* A command that revises the registry and leaves the leases alone.
LEMMA RegistryFrame ==
  ASSUME TypeOK, NEW op, Fresh(op), NEW cmd \in Command, cmd.kind # "claim",
         NEW next, IsControlPlane(next), Commit(op, cmd, next),
         next.on = TRUE, next.time >= control.time, next.owned = control.owned,
         \A n \in Nodes : \/ next.members[n].state = "active"
                          \/ next.members[n].state = control.members[n].state
  PROVE  LeaseFrame
<1>1. /\ term' = term /\ TypeOK'
      /\ \/ UNCHANGED <<control, receipts>>
         \/ control' = next /\ receipts' = Append(receipts, cmd)
  BY CommitFacts
<1>2. term \in Nat
  BY AuthorityConstants DEF TypeOK
<1>3. CASE UNCHANGED <<control, receipts>>
  BY <1>1, <1>2, <1>3, RefusedFrame
<1>4. CASE control' = next /\ receipts' = Append(receipts, cmd)
  <2>1. /\ control'.on = TRUE /\ control'.time >= control.time /\ control'.owned = control.owned
        /\ \A n \in Nodes : \/ control'.members[n].state = "active"
                            \/ control'.members[n].state = control.members[n].state
    BY <1>4
  <2>2. term' >= term
    BY <1>1, <1>2
  <2>3. \E e \in Command : receipts' = Append(receipts, e) /\ e.kind # "claim"
    BY <1>4
  <2> QED BY <1>1, <2>1, <2>2, <2>3, QuietFrame
<1> QED BY <1>1, <1>3, <1>4

\* A revision touches one member.
LEMMA RevisedStates ==
  ASSUME TypeOK, NEW next, NEW n \in Nodes, NEW state, NEW leaf, NEW now,
         Revises(next, control, n, state, leaf, now)
  PROVE  /\ next.members[n].state = state
         /\ \A m \in Nodes : m # n => next.members[m].state = control.members[m].state
         /\ next.on = control.on /\ next.time = now
<1>1. control.members \in [Nodes -> Member]
  BY ControlFields DEF TypeOK
<1>2. next.members = [control.members EXCEPT ![n] =
        [state |-> state, gen |-> control.members[n].gen + 1, tls |-> leaf]]
  BY DEF Revises
<1>3. next.on = control.on /\ next.time = now
  BY DEF Revises
<1> QED BY <1>1, <1>2, <1>3

\* A revision after which the member is active.
LEMMA RevisionFrame ==
  ASSUME TypeOK, NEW op, Fresh(op), control.on, NEW cmd \in Command, cmd.kind # "claim",
         NEW next, IsControlPlane(next), Commit(op, cmd, next),
         NEW n \in Nodes, NEW leaf, NEW now \in Nat, now > control.time,
         Revises(next, control, n, "active", leaf, now), SameLeases(next, control)
  PROVE  LeaseFrame
<1>1. PICK state : state = "active"
  OBVIOUS
<1>2. Revises(next, control, n, state, leaf, now)
  BY <1>1
<1>3. /\ next.members[n].state = state
      /\ \A m \in Nodes : m # n => next.members[m].state = control.members[m].state
      /\ next.on = control.on /\ next.time = now
  BY <1>2, RevisedStates
<1>4. \A m \in Nodes : \/ next.members[m].state = "active"
                       \/ next.members[m].state = control.members[m].state
  BY <1>1, <1>3
<1>5. control.on = TRUE /\ control.time \in Nat
  BY ControlFields DEF TypeOK
<1>6. next.on = TRUE /\ next.time >= control.time /\ next.owned = control.owned
  BY <1>3, <1>5 DEF SameLeases
<1> QED BY <1>4, <1>6, RegistryFrame

\* A claim moves at most one lease, and to an active member.
LEMMA ClaimFrame ==
  ASSUME TypeOK, NEW op, NEW a \in Agents, NEW n \in Nodes, NEW expected \in Nat,
         ClaimOwnership(op, a, n, expected)
  PROVE  LeaseFrame
<1>1. /\ control.on /\ Fresh(op) /\ control.members[n].state = "active"
      /\ expected = control.owned[a].token
  BY ClaimOutcome
<1>2. PICK now, o, next :
        /\ now \in Nat /\ o \in Owner
        /\ now > control.time /\ Available(control.owned[a], now)
        /\ o = [owner |-> n, term |-> term, token |-> control.owned[a].token + 1,
                gen |-> control.owned[a].gen + 1, state |-> "active",
                lease |-> now + LeaseTtl, updated |-> now]
        /\ next = SetOwner(control, a, o,
                    IF control.owned[a].state = "none" THEN "claim" ELSE "transfer")
        /\ Commit(op, [kind |-> "claim", agent |-> a, node |-> n, expected |-> expected], next)
  BY ClaimOutcome
<1> now \in Nat /\ o \in Owner
  BY <1>2
<1>3. PICK operation \in {"claim", "transfer", "renew", "release"} :
        operation = IF control.owned[a].state = "none" THEN "claim" ELSE "transfer"
  OBVIOUS
<1>4. PICK cmd : cmd = [kind |-> "claim", agent |-> a, node |-> n, expected |-> expected]
  OBVIOUS
<1>5. cmd \in Command /\ cmd.agent = a /\ cmd.expected = expected /\ Commit(op, cmd, next)
  BY <1>2, <1>4, CommandFacts
<1>6. /\ control.owned[a].token \in Nat /\ o.token = control.owned[a].token + 1
      /\ o.updated = now /\ o.owner = n
  BY <1>2, ControlFields DEF TypeOK, Owner
<1>7. next = SetOwner(control, a, o, operation)
  BY <1>2, <1>3
<1>8. Owns(next, control, a, o, operation)
  BY <1>7, SetOwnerFacts DEF TypeOK
<1>9. next.time = now /\ next.owned[a] = o
  BY <1>6, <1>8, ControlFields DEF Owns, TypeOK
<1>10. o = Held(n, term, control.owned[a].token + 1, control.owned[a].gen + 1, "active",
                now + LeaseTtl, now)
  BY <1>2 DEF Held
<1>11. control' = next => LeaseMove(a)
  BY <1>2, <1>9, <1>10 DEF LeaseMove
<1>12. control.on = TRUE
  BY <1>1, ControlFields DEF TypeOK
<1>13. o.token > cmd.expected
  BY <1>1, <1>5, <1>6
<1> QED BY <1>1, <1>2, <1>5, <1>6, <1>7, <1>11, <1>12, <1>13, OwnerFrame

\* A renewal moves at most one lease, and only its expiry.
LEMMA RenewFrame ==
  ASSUME TypeOK, NEW op, NEW a \in Agents, NEW n \in Nodes, NEW token \in Nat,
         RenewOwnership(op, a, n, token)
  PROVE  LeaseFrame
<1>1. /\ control.on /\ Fresh(op) /\ control.members[n].state = "active"
      /\ Holds(control.owned[a], n, token)
  BY RenewOutcome
<1>2. PICK now, o, next :
        /\ now \in Nat /\ o \in Owner
        /\ now > control.time /\ control.owned[a].lease > now
        /\ o = [owner |-> n, term |-> term, token |-> token,
                gen |-> control.owned[a].gen + 1, state |-> "active",
                lease |-> now + LeaseTtl, updated |-> now]
        /\ next = SetOwner(control, a, o, "renew")
        /\ Commit(op, [kind |-> "renew", agent |-> a, node |-> n, token |-> token], next)
  BY RenewOutcome
<1> now \in Nat /\ o \in Owner
  BY <1>2
<1>3. PICK cmd : cmd = [kind |-> "renew", agent |-> a, node |-> n, token |-> token]
  OBVIOUS
<1>4. cmd \in Command /\ cmd.kind # "claim" /\ Commit(op, cmd, next)
  BY <1>2, <1>3, CommandFacts
<1>5. o.updated = now /\ o.owner = n
  BY <1>2
<1>6. Owns(next, control, a, o, "renew")
  BY <1>2, SetOwnerFacts DEF TypeOK
<1>7. next.time = now /\ next.owned[a] = o
  BY <1>5, <1>6, ControlFields DEF Owns, TypeOK
<1>8. o = Held(control.owned[a].owner, term, control.owned[a].token, control.owned[a].gen + 1,
               "active", now + LeaseTtl, now)
  BY <1>1, <1>2 DEF Held, Holds
<1>9. control.owned[a].state = "active"
  BY <1>1 DEF Holds
<1>10. control' = next => LeaseMove(a)
  BY <1>2, <1>7, <1>8, <1>9 DEF LeaseMove
<1>11. control.on = TRUE
  BY <1>1, ControlFields DEF TypeOK
<1> QED BY <1>1, <1>2, <1>4, <1>5, <1>10, <1>11, OwnerFrame

\* A release ends at most one lease.
LEMMA ReleaseFrame ==
  ASSUME TypeOK, NEW op, NEW a \in Agents, NEW n \in Nodes, NEW token \in Nat,
         ReleaseOwnership(op, a, n, token)
  PROVE  LeaseFrame
<1>1. control.on /\ Fresh(op) /\ Holds(control.owned[a], n, token)
  BY ReleaseOutcome
<1>2. PICK now, o, next :
        /\ now \in Nat /\ o \in Owner
        /\ now > control.time
        /\ o = [owner |-> n, term |-> term, token |-> token,
                gen |-> control.owned[a].gen + 1, state |-> "released",
                lease |-> now, updated |-> now]
        /\ next = SetOwner(control, a, o, "release")
        /\ Commit(op, [kind |-> "release", agent |-> a, node |-> n, token |-> token], next)
  BY ReleaseOutcome
<1> now \in Nat /\ o \in Owner
  BY <1>2
<1>3. PICK cmd : cmd = [kind |-> "release", agent |-> a, node |-> n, token |-> token]
  OBVIOUS
<1>4. cmd \in Command /\ cmd.kind # "claim" /\ Commit(op, cmd, next)
  BY <1>2, <1>3, CommandFacts
<1>5. o.updated = now /\ o.state # "active"
  BY <1>2
<1>6. Owns(next, control, a, o, "release")
  BY <1>2, SetOwnerFacts DEF TypeOK
<1>7. next.time = now /\ next.owned[a] = o
  BY <1>5, <1>6, ControlFields DEF Owns, TypeOK
<1>8. o = Held(control.owned[a].owner, term, control.owned[a].token, control.owned[a].gen + 1,
               "released", now, now)
  BY <1>1, <1>2 DEF Held, Holds
<1>9. control.owned[a].state = "active"
  BY <1>1 DEF Holds
<1>10. control' = next => LeaseMove(a)
  BY <1>2, <1>7, <1>8, <1>9 DEF LeaseMove
<1>11. control.on = TRUE
  BY <1>1, ControlFields DEF TypeOK
<1> QED BY <1>1, <1>2, <1>4, <1>5, <1>10, <1>11, OwnerFrame

\* Revocation and leaving: the live leases of the node are given up, and what
\* it still holds is expired.
LEMMA SetStateFrame ==
  ASSUME TypeOK, NEW op, NEW n \in Nodes, NEW state \in {"left", "revoked"},
         SetMemberState(op, n, state)
  PROVE  LeaseFrame
<1>1. control.on /\ Fresh(op)
  BY SetStateOutcome
<1>2. PICK now, next :
        /\ now \in Nat
        /\ now > control.time /\ IsControlPlane(next)
        /\ Frees(next, control, LiveLeases(control, n, now), n, now)
        /\ Revises(next, control, n, state, control.members[n].tls, now)
        /\ Commit(op, [kind |-> "state", node |-> n, state |-> state], next)
  BY SetStateOutcome
<1> now \in Nat
  BY <1>2
<1>3. PICK cmd : cmd = [kind |-> "state", node |-> n, state |-> state]
  OBVIOUS
<1>4. state \in MemberStates
  BY DEF MemberStates
<1>5. cmd \in Command /\ cmd.kind # "claim" /\ Commit(op, cmd, next)
  BY <1>2, <1>3, <1>4, CommandFacts
<1>6. /\ term' = term /\ TypeOK'
      /\ \/ UNCHANGED <<control, receipts>>
         \/ control' = next /\ receipts' = Append(receipts, cmd)
  BY <1>1, <1>2, <1>5, CommitFacts
<1>7. /\ term \in Nat /\ control.time \in Nat /\ control.on = TRUE
      /\ control.owned \in [Agents -> Owner]
  BY <1>1, ControlFields, AuthorityConstants DEF TypeOK
<1>8. CASE UNCHANGED <<control, receipts>>
  BY <1>6, <1>7, <1>8, RefusedFrame
<1>9. CASE control' = next /\ receipts' = Append(receipts, cmd)
  <2>1. /\ \A m \in Nodes : m # n => control'.members[m].state = control.members[m].state
        /\ control'.on = control.on /\ control'.time = now
    <3>1. /\ \A m \in Nodes : m # n => next.members[m].state = control.members[m].state
          /\ next.on = control.on /\ next.time = now
      BY <1>2, RevisedStates
    <3> QED BY <1>9, <3>1
  <2>2. control'.on = TRUE /\ control'.time >= control.time /\ term' >= term
    BY <1>2, <1>6, <1>7, <2>1
  <2> DEFINE live == LiveLeases(control, n, now)
  <2>3. \A a \in Agents : \/ a \notin live /\ control'.owned[a] = control.owned[a]
                          \/ /\ a \in live
                             /\ control'.owned[a] = Held(control.owned[a].owner, term,
                                  control.owned[a].token, control.owned[a].gen + 1,
                                  "released", now, now)
    BY <1>2, <1>9 DEF Frees, Held
  <2>4. \A a \in live : /\ control.owned[a].state = "active" /\ control.owned[a].lease > now
                        /\ control.owned[a].owner = n
    BY DEF LiveLeases
  <2>5. \A a \in Agents : LeaseMove(a)
    BY <2>1, <2>3, <2>4 DEF LeaseMove
  <2>6. ASSUME NEW a \in Agents, control'.owned[a].state = "active"
        PROVE  control'.owned[a] = control.owned[a] /\ a \notin live
    <3>1. \A h, t, token, gen, lease, at : Held(h, t, token, gen, "released", lease, at).state # "active"
      BY DEF Held
    <3> QED BY <2>3, <2>6, <3>1
  <2>7. ASSUME NEW a \in Agents, control'.owned[a].state = "active", control'.owned[a].owner = n
        PROVE  control'.owned[a].lease <= control'.time
    <3>1. control'.owned[a] = control.owned[a] /\ a \notin live
      BY <2>6, <2>7
    <3>2. ~(control.owned[a].lease > now)
      BY <2>7, <3>1 DEF LiveLeases
    <3>3. control.owned[a].lease \in Nat
      BY <1>7 DEF Owner
    <3> QED BY <2>1, <3>1, <3>2, <3>3
  <2>8. ASSUME NEW m \in Nodes, control'.members[m].state # "active"
        PROVE  \/ control.members[m].state # "active"
                    /\ \A a \in Agents : control'.owned[a].state = "active" /\ control'.owned[a].owner = m
                                           => control'.owned[a] = control.owned[a]
               \/ \A a \in Agents : control'.owned[a].state = "active" /\ control'.owned[a].owner = m
                                      => control'.owned[a].lease <= control'.time
    <3>1. CASE m = n
      BY <2>7, <3>1
    <3>2. CASE m # n
      BY <2>1, <2>6, <2>8, <3>2
    <3> QED BY <3>1, <3>2
  <2> QED BY <1>5, <1>6, <1>9, <2>2, <2>5, <2>8 DEF LeaseFrame
<1> QED BY <1>6, <1>8, <1>9

\* Every step keeps to the frame.
LEMMA StepFrame ==
  ASSUME TypeOK, BlankAtStart, Next
  PROVE  LeaseFrame
<1>1. term \in Nat /\ term \in 1..MaxTerm /\ MaxTerm \in Nat /\ control.time \in Nat
  BY ControlFields, AuthorityConstants DEF TypeOK
<1>2. CASE NewTerm
  <2>1. term' >= term /\ UNCHANGED <<control, receipts>> /\ TypeOK'
    BY <1>1, <1>2 DEF NewTerm, TypeOK
  <2> QED BY <2>1, RefusedFrame
<1>3. CASE AdvanceTime
  <2>1. PICK p \in Proposals : p > control.time /\ Apply([control EXCEPT !.time = p], receipts)
    BY <1>3 DEF AdvanceTime
  <2>2. PICK next : next = [control EXCEPT !.time = p]
    OBVIOUS
  <2>3. p \in Nat
    BY AuthorityConstants
  <2>4. next = [on |-> control.on, time |-> p, members |-> control.members,
                memberAudit |-> control.memberAudit,
                rollouts |-> control.rollouts, rolloutAudit |-> control.rolloutAudit,
                challenges |-> control.challenges, owned |-> control.owned,
                ownAudit |-> control.ownAudit]
    BY <2>2 DEF TypeOK, IsControlPlane
  <2>5. IsControlPlane(next)
    BY <2>3, <2>4, ControlFields, ControlRecord DEF TypeOK
  <2>6. Apply(next, receipts)
    BY <2>1, <2>2
  <2>7. /\ TypeOK' /\ term' = term /\ receipts' = receipts
        /\ control' = control \/ control' = next
    BY <2>5, <2>6 DEF Apply, TypeOK
  <2>8. CASE control' = control
    BY <1>1, <2>7, <2>8, RefusedFrame
  <2>9. CASE control' = next
    <3>1. /\ control'.on = control.on /\ control'.time = p
          /\ control'.owned = control.owned /\ control'.members = control.members
      BY <2>4, <2>9
    <3>2. control'.on = TRUE
      BY <1>3, <3>1, ControlFields DEF AdvanceTime, TypeOK
    <3>3. control'.time >= control.time /\ term' >= term
      BY <1>1, <2>1, <2>3, <2>7, <3>1
    <3> QED BY <2>7, <3>1, <3>2, <3>3, QuietFrame
  <2> QED BY <2>7, <2>8, <2>9
<1>4. ASSUME NEW op, Barrier(op) PROVE LeaseFrame
  <2>1. Fresh(op) /\ Commit(op, [kind |-> "barrier"], control)
    BY <1>4 DEF Barrier
  <2>2. PICK cmd : cmd = [kind |-> "barrier"]
    OBVIOUS
  <2>3. cmd \in Command /\ cmd.kind # "claim" /\ Commit(op, cmd, control)
    BY <2>1, <2>2, CommandFacts
  <2>4. /\ term' = term /\ TypeOK' /\ control' = control
        /\ receipts' = receipts \/ receipts' = Append(receipts, cmd)
    BY <2>1, <2>3, CommitFacts DEF TypeOK
  <2>5. term' >= term /\ control'.time >= control.time
    BY <1>1, <2>4
  <2>6. control'.owned = control.owned /\ control'.members = control.members
    BY <2>4
  <2> QED BY <2>3, <2>4, <2>5, <2>6, QuietFrame
<1>5. ASSUME NEW op, IssueJoinChallenge(op) PROVE LeaseFrame
  <2>1. control.on /\ Fresh(op)
    BY <1>5, ChallengeOutcome
  <2>2. PICK now, next :
          /\ now \in Nat
          /\ now > control.time /\ IsControlPlane(next) /\ next.time = now
          /\ SameRegistry(next, control) /\ SameLeases(next, control)
          /\ Commit(op, [kind |-> "challenge"], next)
    BY <1>5, ChallengeOutcome
  <2> now \in Nat
    BY <2>2
  <2>3. PICK cmd : cmd = [kind |-> "challenge"]
    OBVIOUS
  <2>4. cmd \in Command /\ cmd.kind # "claim" /\ Commit(op, cmd, next)
    BY <2>2, <2>3, CommandFacts
  <2>5. /\ next.on = control.on /\ next.members = control.members /\ next.owned = control.owned
        /\ next.time >= control.time
    BY <1>1, <2>2 DEF SameRegistry, SameLeases
  <2>6. next.on = TRUE
    BY <2>1, <2>5, ControlFields DEF TypeOK
  <2> QED BY <2>1, <2>2, <2>4, <2>5, <2>6, RegistryFrame
<1>6. ASSUME NEW op, Initialize(op) PROVE LeaseFrame
  <2>1. ~control.on /\ Fresh(op)
    BY <1>6, InitializeOutcome
  <2>2. PICK p, next :
          /\ p \in Nat
          /\ IsControlPlane(next) /\ next.on /\ next.time = p
          /\ next.members = [n \in Nodes |->
                   IF n \in DOMAIN GenesisLeaf
                     THEN [state |-> "active", gen |-> 1, tls |-> GenesisLeaf[n]]
                     ELSE NoMember]
          /\ SameLeases(next, control)
          /\ Commit(op, [kind |-> "initialize"], next)
    BY <1>6, InitializeOutcome
  <2> p \in Nat
    BY <2>2
  <2>3. PICK cmd : cmd = [kind |-> "initialize"]
    OBVIOUS
  <2>4. cmd \in Command /\ cmd.kind # "claim" /\ Commit(op, cmd, next)
    BY <2>2, <2>3, CommandFacts
  <2>5. next.on = TRUE
    BY <2>2, ControlFields
  <2>6. control.time = 0 /\ \A n \in Nodes : control.members[n] = NoMember
    BY <2>1 DEF BlankAtStart
  <2>7. \A n \in Nodes : \/ next.members[n].state = "active"
                         \/ next.members[n].state = control.members[n].state
    BY <2>2, <2>6
  <2>8. next.time >= control.time /\ next.owned = control.owned
    BY <2>2, <2>6 DEF SameLeases
  <2> QED BY <2>1, <2>2, <2>4, <2>5, <2>7, <2>8, RegistryFrame
<1>7. ASSUME NEW op, NEW n \in Nodes, PrepareRollout(op, n) PROVE LeaseFrame
  <2>1. control.on /\ Fresh(op)
    BY <1>7, PrepareOutcome
  <2>2. PICK now, leaf, ch, next :
          /\ now \in Nat /\ leaf \in Leaves /\ ch \in OpIds
          /\ now > control.time /\ IsControlPlane(next)
          /\ Revises(next, control, n, "active", control.members[n].tls, now)
          /\ SameLeases(next, control)
          /\ Commit(op, [kind |-> "prepare", node |-> n, leaf |-> leaf, challenge |-> ch], next)
    BY <1>7, PrepareOutcome
  <2> now \in Nat /\ leaf \in Leaves /\ ch \in OpIds
    BY <2>2
  <2>3. PICK cmd : cmd = [kind |-> "prepare", node |-> n, leaf |-> leaf, challenge |-> ch]
    OBVIOUS
  <2>4. cmd \in Command /\ cmd.kind # "claim" /\ Commit(op, cmd, next)
    BY <2>2, <2>3, CommandFacts DEF LeafOrNone
  <2> QED BY <2>1, <2>2, <2>4, RevisionFrame
<1>8. ASSUME NEW op, NEW n \in Nodes, RegisterMember(op, n) PROVE LeaseFrame
  <2>1. control.on /\ Fresh(op)
    BY <1>8, RegisterOutcome
  <2>2. PICK now, leaf, ch, next :
          /\ now \in Nat /\ leaf \in LeafOrNone /\ ch \in OpIds
          /\ now > control.time /\ IsControlPlane(next)
          /\ Revises(next, control, n, "active", leaf, now)
          /\ SameLeases(next, control)
          /\ Commit(op, [kind |-> "register", node |-> n, leaf |-> leaf, challenge |-> ch], next)
    BY <1>8, RegisterOutcome
  <2> now \in Nat /\ leaf \in LeafOrNone /\ ch \in OpIds
    BY <2>2
  <2>3. PICK cmd : cmd = [kind |-> "register", node |-> n, leaf |-> leaf, challenge |-> ch]
    OBVIOUS
  <2>4. cmd \in Command /\ cmd.kind # "claim" /\ Commit(op, cmd, next)
    BY <2>2, <2>3, CommandFacts
  <2> QED BY <2>1, <2>2, <2>4, RevisionFrame
<1>9. ASSUME NEW op, NEW n \in Nodes, NEW finish \in {"abort", "finalize"},
             FinishRollout(op, n, finish)
      PROVE  LeaseFrame
  <2>1. control.on /\ Fresh(op)
    BY <1>9, FinishOutcome
  <2>2. PICK now, next :
          /\ now \in Nat
          /\ now > control.time /\ IsControlPlane(next)
          /\ Revises(next, control, n, "active", control.members[n].tls, now)
          /\ SameLeases(next, control)
          /\ Commit(op, [kind |-> finish, node |-> n], next)
    BY <1>9, FinishOutcome
  <2> now \in Nat
    BY <2>2
  <2>3. PICK cmd : cmd = [kind |-> finish, node |-> n]
    OBVIOUS
  <2>4. cmd \in Command /\ cmd.kind # "claim" /\ Commit(op, cmd, next)
    BY <2>2, <2>3, CommandFacts
  <2> QED BY <2>1, <2>2, <2>4, RevisionFrame
<1>10. \A token \in 0..MaxReceipts : token \in Nat
  BY AuthorityConstants
<1> QED BY <1>2, <1>3, <1>4, <1>5, <1>6, <1>7, <1>8, <1>9, <1>10,
           SetStateFrame, ClaimFrame, RenewFrame, ReleaseFrame DEF Next

-----------------------------------------------------------------------------
(* The inductive invariant and what it gives.                              *)

\* The state before Initialize satisfies the invariant.
LEMMA LeaseInit ==
  ASSUME Init
  PROVE  LeaseInv
<1>1. NoMember \in Member /\ NoRollout \in Rollout /\ NoOwner \in Owner
  BY DEF NoMember, NoRollout, NoOwner, Member, Rollout, Owner, MemberStates, Phases, LeafOrNone,
         NodeOrNone
<1> DEFINE members == [n \in Nodes |-> NoMember]
           none == [n \in Nodes |-> <<>>]
           rollouts == [n \in Nodes |-> NoRollout]
           owned == [a \in Agents |-> NoOwner]
           unaudited == [a \in Agents |-> <<>>]
           blank == [on |-> FALSE, time |-> 0, members |-> members, memberAudit |-> none,
                     rollouts |-> rollouts, rolloutAudit |-> none, challenges |-> <<>>,
                     owned |-> owned, ownAudit |-> unaudited]
<1>2. control = blank /\ receipts = <<>> /\ term = 1 /\ halted = FALSE
  BY DEF Init
<1>3. /\ members \in [Nodes -> Member] /\ none \in [Nodes -> Seq(Revision)]
      /\ rollouts \in [Nodes -> Rollout] /\ none \in [Nodes -> Seq(RolloutRecord)]
      /\ owned \in [Agents -> Owner] /\ unaudited \in [Agents -> Seq(OwnRecord)]
  BY <1>1
<1>4. <<>> \in [DOMAIN <<>> -> Challenge] /\ DOMAIN <<>> \subseteq OpIds
  OBVIOUS
<1>5. /\ control.on = FALSE /\ control.time = 0
      /\ \A n \in Nodes : /\ control.members[n] = NoMember /\ control.memberAudit[n] = <<>>
                          /\ control.rollouts[n] = NoRollout /\ control.rolloutAudit[n] = <<>>
      /\ \A a \in Agents : control.owned[a] = NoOwner /\ control.ownAudit[a] = <<>>
  BY <1>2
<1>6. IsControlPlane(control)
  <2> HIDE DEF members, none, rollouts, owned, unaudited
  <2>1. FALSE \in BOOLEAN /\ 0 \in Nat
    OBVIOUS
  <2> QED BY <1>2, <1>3, <1>4, <2>1, ControlRecord
<1>7. TypeOK
  <2>1. receipts = <<>> /\ term = 1 /\ halted = FALSE
    BY <1>2
  <2>2. <<>> \in Seq(Command) /\ Len(<<>>) = 0 /\ FALSE \in BOOLEAN
    OBVIOUS
  <2>3. 0 <= MaxReceipts /\ 1 \in 1..MaxTerm
    BY AuthorityConstants
  <2> HIDE DEF blank
  <2> QED BY <1>6, <2>1, <2>2, <2>3 DEF TypeOK
<1>8. TermsReached /\ NoLiveLeaseOutsideMembership
  BY <1>2, <1>5 DEF TermsReached, NoLiveLeaseOutsideMembership, NoOwner
<1>9. ClaimsSpent /\ OneClaimPerToken
  BY <1>2 DEF ClaimsSpent, OneClaimPerToken
<1>10. BlankAtStart
  BY <1>5 DEF BlankAtStart
<1> QED BY <1>7, <1>8, <1>9, <1>10 DEF LeaseInv

\* A lease record after a step: its term is reached, its token not smaller.
LEMMA MovedRecord ==
  ASSUME TypeOK, TypeOK', TermsReached, term' >= term, NEW a \in Agents, LeaseMove(a)
  PROVE  control'.owned[a].term <= term' /\ control'.owned[a].token >= control.owned[a].token
<1>1. /\ control.owned[a] \in Owner /\ control'.owned[a] \in Owner
      /\ term \in Nat /\ term' \in Nat
  BY ControlFields, AuthorityConstants DEF TypeOK
<1>2. control.owned[a].term <= term /\ control.owned[a].token \in Nat /\ control.owned[a].term \in Nat
  BY <1>1 DEF TermsReached, Owner
<1>3. \/ control'.owned[a] = control.owned[a]
      \/ /\ control'.owned[a].term = term
         /\ control'.owned[a].token \in {control.owned[a].token, control.owned[a].token + 1}
  <2>1. ASSUME NEW h, NEW t, NEW token, NEW gen, NEW state, NEW lease, NEW at
        PROVE  /\ Held(h, t, token, gen, state, lease, at).term = t
               /\ Held(h, t, token, gen, state, lease, at).token = token
    BY DEF Held
  <2> QED BY <2>1 DEF LeaseMove
<1>4. control'.owned[a].term \in Nat /\ control'.owned[a].token \in Nat
  BY <1>1 DEF Owner
<1> QED BY <1>1, <1>2, <1>3, <1>4

\* Every step preserves the invariant.
LEMMA LeaseStep ==
  ASSUME LeaseInv, LeaseFrame
  PROVE  LeaseInv'
<1> USE DEF LeaseInv
<1>1. TypeOK' /\ term' >= term /\ control'.time >= control.time /\ \A a \in Agents : LeaseMove(a)
  BY DEF LeaseFrame
<1>2. ASSUME NEW a \in Agents
      PROVE  control'.owned[a].term <= term' /\ control'.owned[a].token >= control.owned[a].token
  BY <1>1, MovedRecord
<1>3. TermsReached'
  BY <1>2 DEF TermsReached
<1>4. NoLiveLeaseOutsideMembership'
  <2> SUFFICES ASSUME NEW n \in Nodes, NEW a \in Agents, control'.members[n].state # "active",
                      control'.owned[a].owner = n, control'.owned[a].state = "active"
               PROVE  control'.owned[a].lease <= control'.time
    BY DEF NoLiveLeaseOutsideMembership
  <2>1. CASE /\ control.members[n].state # "active" /\ control'.owned[a] = control.owned[a]
    <3>1. control.owned[a].lease <= control.time
      BY <2>1 DEF NoLiveLeaseOutsideMembership
    <3>2. control.owned[a].lease \in Nat /\ control.time \in Nat /\ control'.time \in Nat
      BY <1>1, ControlFields DEF TypeOK, Owner
    <3> QED BY <1>1, <2>1, <3>1, <3>2
  <2> QED BY <2>1 DEF LeaseFrame
<1>5. BlankAtStart'
  <2>1. CASE control'.on = TRUE
    BY <2>1 DEF BlankAtStart
  <2>2. CASE control' = control
    BY <2>2 DEF BlankAtStart
  <2> QED BY <2>1, <2>2 DEF LeaseFrame
<1>6. ClaimsSpent' /\ OneClaimPerToken'
  <2>1. receipts \in Seq(Command)
    BY DEF TypeOK
  <2>2. ASSUME NEW c \in Command, c.kind = "claim"
        PROVE  c.agent \in Agents /\ c.expected \in Nat
    BY <2>2 DEF Command
  <2>3. \A a \in Agents : control.owned[a].token \in Nat /\ control'.owned[a].token \in Nat
    BY <1>1, ControlFields DEF TypeOK, Owner
  <2>4. ASSUME NEW i \in DOMAIN receipts, receipts[i].kind = "claim"
        PROVE  /\ receipts[i].agent \in Agents /\ receipts[i].expected \in Nat
               /\ receipts[i].expected < control.owned[receipts[i].agent].token
               /\ receipts[i].expected < control'.owned[receipts[i].agent].token
    <3>1. receipts[i] \in Command
      BY <2>1
    <3>2. receipts[i].agent \in Agents /\ receipts[i].expected \in Nat
      BY <2>2, <2>4, <3>1
    <3>3. receipts[i].expected < control.owned[receipts[i].agent].token
      BY <2>4 DEF ClaimsSpent
    <3> QED BY <1>2, <2>3, <3>2, <3>3
  <2>5. CASE receipts' = receipts
    BY <2>4, <2>5 DEF ClaimsSpent, OneClaimPerToken
  <2>6. ASSUME NEW cmd \in Command, receipts' = Append(receipts, cmd),
               cmd.kind = "claim" => /\ cmd.expected = control.owned[cmd.agent].token
                                     /\ control'.owned[cmd.agent].token > cmd.expected
        PROVE  ClaimsSpent' /\ OneClaimPerToken'
    <3> DEFINE k == Len(receipts) + 1
    <3>1. /\ DOMAIN receipts' = DOMAIN receipts \cup {k}
          /\ receipts'[k] = cmd /\ k \notin DOMAIN receipts
          /\ \A i \in DOMAIN receipts : receipts'[i] = receipts[i]
      BY <2>1, <2>6
    <3> HIDE DEF k
    <3>2. ClaimsSpent'
      <4> SUFFICES ASSUME NEW i \in DOMAIN receipts', receipts'[i].kind = "claim"
                   PROVE  receipts'[i].expected < control'.owned[receipts'[i].agent].token
        BY DEF ClaimsSpent
      <4>1. CASE i \in DOMAIN receipts
        BY <2>4, <3>1, <4>1
      <4>2. CASE i = k
        BY <2>2, <2>3, <2>6, <3>1, <4>2
      <4> QED BY <3>1, <4>1, <4>2
    <3>3. ASSUME NEW i \in DOMAIN receipts, receipts[i].kind = "claim", cmd.kind = "claim",
                 receipts[i].agent = cmd.agent, receipts[i].expected = cmd.expected
          PROVE  FALSE
      BY <2>2, <2>3, <2>4, <2>6, <3>3
    <3>4. OneClaimPerToken'
      <4> SUFFICES ASSUME NEW i \in DOMAIN receipts', NEW j \in DOMAIN receipts',
                          receipts'[i].kind = "claim", receipts'[j].kind = "claim",
                          receipts'[i].agent = receipts'[j].agent,
                          receipts'[i].expected = receipts'[j].expected
                   PROVE  i = j
        BY DEF OneClaimPerToken
      <4>1. CASE i \in DOMAIN receipts /\ j \in DOMAIN receipts
        BY <3>1, <4>1 DEF OneClaimPerToken
      <4>2. CASE i = k /\ j \in DOMAIN receipts
        BY <3>1, <3>3, <4>2
      <4>3. CASE i \in DOMAIN receipts /\ j = k
        BY <3>1, <3>3, <4>3
      <4> QED BY <3>1, <4>1, <4>2, <4>3
    <3> QED BY <3>2, <3>4
  <2> QED BY <2>5, <2>6 DEF LeaseFrame
<1> QED BY <1>1, <1>3, <1>4, <1>5, <1>6

\* The invariant holds in every state of every execution, for every set of
\* nodes, agents and leaves and every bound.
THEOREM LeasesAreInductive == Spec => []LeaseInv
<1>1. Init => LeaseInv
  BY LeaseInit
<1>2. LeaseInv /\ [Next]_vars => LeaseInv'
  <2> SUFFICES ASSUME LeaseInv, [Next]_vars PROVE LeaseInv'
    OBVIOUS
  <2>1. CASE Next
    BY <2>1, StepFrame, LeaseStep DEF LeaseInv
  <2>2. CASE UNCHANGED vars
    BY <2>2 DEF vars, LeaseInv, TypeOK, TermsReached, ClaimsSpent, BlankAtStart,
                OneClaimPerToken, NoLiveLeaseOutsideMembership
  <2> QED BY <2>1, <2>2
<1> QED BY <1>1, <1>2, PTL DEF Spec

\* apply_claim_ownership is a compare-and-set: of all claims that name the same
\* token of an agent, one is ever applied, whatever releases, expiries,
\* retries and new leaders come between.
THEOREM ClaimsAreExclusive == Spec => []OneClaimPerToken
<1>1. LeaseInv => OneClaimPerToken
  BY DEF LeaseInv
<1> QED BY <1>1, LeasesAreInductive, PTL

\* apply_set_member_state leaves no unexpired lease with a member that left or
\* was revoked, and no later command gives it one.
THEOREM OutsidersHoldNothing == Spec => []NoLiveLeaseOutsideMembership
<1>1. LeaseInv => NoLiveLeaseOutsideMembership
  BY DEF LeaseInv
<1> QED BY <1>1, LeasesAreInductive, PTL

\* One step of the authority is, for every agent, one step of its lease.
LEMMA LeaseRefined ==
  ASSUME LeaseInv, LeaseFrame, NEW a \in Agents
  PROVE  Lease(a)!LeaseNext
<1> DEFINE own == control.owned[a]
           moved == control'.owned[a]
           now == control'.time
<1>1. /\ TypeOK /\ TypeOK' /\ term' >= term /\ now >= control.time /\ LeaseMove(a)
      /\ own \in Owner /\ moved \in Owner /\ now \in Nat /\ control.time \in Nat /\ term \in Nat
  BY ControlFields, AuthorityConstants DEF LeaseInv, LeaseFrame, TypeOK
<1>2. own.term <= term /\ own.term \in Nat
  BY <1>1 DEF LeaseInv, TermsReached, Owner
<1>3. now + LeaseTtl > now /\ now + LeaseTtl \in Nat
  BY <1>1, AuthorityConstants
<1>4. CASE moved = own
  BY <1>1, <1>4 DEF Lease!LeaseNext, Lease!Pass
<1>5. ASSUME NEW n \in Nodes, Available(own, now),
             moved = Held(n, term, own.token + 1, own.gen + 1, "active", now + LeaseTtl, now)
      PROVE  Lease(a)!LeaseNext
  <2>1. moved.term = term /\ moved.lease = now + LeaseTtl
    BY <1>5 DEF Held
  <2>2. Lease(a)!Grant(n, moved.term, now, moved.lease)
    BY <1>1, <1>2, <1>3, <1>5, <2>1 DEF Lease!Grant, Held, Available
  <2> QED BY <2>2 DEF Lease!LeaseNext
<1>6. CASE /\ own.state = "active" /\ own.lease > now
           /\ moved = Held(own.owner, term, own.token, own.gen + 1, "active", now + LeaseTtl, now)
  <2>1. PICK y : y = [own EXCEPT !.term = term, !.gen = @ + 1, !.lease = now + LeaseTtl,
                                 !.updated = now]
    OBVIOUS
  <2>2. PICK x : x = own
    OBVIOUS
  <2>3. y = [owner |-> x.owner, term |-> term, token |-> x.token, gen |-> x.gen + 1,
             state |-> x.state, lease |-> now + LeaseTtl, updated |-> now]
    <3>1. PICK lease \in Nat : lease = now + LeaseTtl
      BY <1>3
    <3>2. y = [x EXCEPT !.term = term, !.gen = @ + 1, !.lease = lease, !.updated = now]
      BY <2>1, <2>2, <3>1
    <3>3. x \in Owner /\ term \in Nat /\ now \in Nat
      BY <1>1, <2>2
    <3> HIDE DEF now
    <3>4. y = [owner |-> x.owner, term |-> term, token |-> x.token, gen |-> x.gen + 1,
               state |-> x.state, lease |-> lease, updated |-> now]
      BY <3>2, <3>3, ProlongedRecord
    <3> QED BY <3>1, <3>4
  <2>4. moved = y /\ moved.term = term /\ moved.lease = now + LeaseTtl
    BY <1>6, <2>2, <2>3 DEF Held
  <2>5. moved = [own EXCEPT !.term = moved.term, !.gen = @ + 1, !.lease = moved.lease,
                            !.updated = now]
    BY <2>1, <2>4
  <2>6. Lease(a)!Renew(moved.term, now, moved.lease)
    BY <1>1, <1>2, <1>3, <1>6, <2>4, <2>5 DEF Lease!Renew
  <2> QED BY <2>6 DEF Lease!LeaseNext
<1>7. CASE /\ own.state = "active"
           /\ moved = Held(own.owner, term, own.token, own.gen + 1, "released", now, now)
  <2>1. PICK y : y = [own EXCEPT !.term = term, !.gen = @ + 1, !.state = "released",
                                 !.lease = now, !.updated = now]
    OBVIOUS
  <2>2. PICK x : x = own
    OBVIOUS
  <2>3. y = [owner |-> x.owner, term |-> term, token |-> x.token, gen |-> x.gen + 1,
             state |-> "released", lease |-> now, updated |-> now]
    BY <1>1, <2>1, <2>2, ReleasedRecord
  <2>4. moved = y /\ moved.term = term
    BY <1>7, <2>2, <2>3 DEF Held
  <2>5. moved = [own EXCEPT !.term = moved.term, !.gen = @ + 1, !.state = "released",
                            !.lease = now, !.updated = now]
    BY <2>1, <2>4
  <2>6. Lease(a)!Release(moved.term, now)
    BY <1>1, <1>2, <1>7, <2>4, <2>5 DEF Lease!Release
  <2> QED BY <2>6 DEF Lease!LeaseNext
<1> QED BY <1>1, <1>4, <1>5, <1>6, <1>7 DEF LeaseMove

\* The authority implements, for every agent at once, the lease that workload
\* nodes rely on (module OwnershipLease).
THEOREM AuthorityImplementsLease == Spec => ImplementsLease
<1> DEFINE Steps == \A a \in Agents : [Lease(a)!LeaseNext]_<<control.owned[a], control.time>>
<1>1. Init => \A a \in Agents : Lease(a)!LeaseInit
  BY LeaseInit DEF LeaseInv, BlankAtStart, Init, NoOwner, Lease!LeaseInit, Lease!Unowned
<1>2. LeaseInv /\ [Next]_vars => [Steps]_vars
  <2>1. ASSUME LeaseInv, Next PROVE Steps
    <3>1. LeaseFrame
      BY <2>1, StepFrame DEF LeaseInv
    <3>2. ASSUME NEW a \in Agents PROVE Lease(a)!LeaseNext
      BY <2>1, <3>1, LeaseRefined
    <3> QED BY <3>2
  <2> HIDE DEF Steps
  <2> QED BY <2>1
<1> QED BY <1>1, <1>2, LeasesAreInductive, PTL DEF Spec, ImplementsLease

-----------------------------------------------------------------------------
(* No accepted command is refused by the store: the histories stay valid.  *)

\* A history with one more record.
Grown(k, h, e) ==
  /\ Len(h) \in Nat /\ Len(k) = Len(h) + 1
  /\ DOMAIN h = 1..Len(h) /\ DOMAIN k = 1..(Len(h) + 1)
  /\ k[Len(h) + 1] = e /\ Last(k) = e /\ k # <<>>
  /\ \A i \in DOMAIN h : k[i] = h[i] /\ i \in DOMAIN k

\* A sequence with one element more: its length and what it holds.
LEMMA Appended ==
  ASSUME NEW S, NEW h \in Seq(S), NEW e \in S, NEW k, k = Append(h, e)
  PROVE  k \in Seq(S) /\ Grown(k, h, e)
<1>1. /\ k \in Seq(S) /\ Len(h) \in Nat /\ Len(k) = Len(h) + 1
      /\ DOMAIN h = 1..Len(h) /\ DOMAIN k = 1..(Len(h) + 1)
  OBVIOUS
<1>2. k[Len(h) + 1] = e /\ \A i \in 1..Len(h) : k[i] = h[i]
  OBVIOUS
<1>3. k # <<>>
  BY <1>1
<1>4. \A i \in 1..Len(h) : i \in 1..(Len(h) + 1)
  BY <1>1
<1> QED BY <1>1, <1>2, <1>3, <1>4 DEF Grown, Last

\* A non-empty history has a last record.
LEMMA LastRecord ==
  ASSUME NEW S, NEW h \in Seq(S), h # <<>>
  PROVE  /\ Len(h) \in DOMAIN h /\ Len(h) >= 1 /\ Last(h) = h[Len(h)] /\ Last(h) \in S
  BY DEF Last

\* The record of an agent that was never claimed.
LEMMA NoOwnerFields ==
  /\ NoOwner.owner = "none" /\ NoOwner.term = 0 /\ NoOwner.token = 0 /\ NoOwner.gen = 0
  /\ NoOwner.state = "none"
  BY DEF NoOwner

\* The earlier records of an ownership audit follow each other as before.
LEMMA OwnershipAppend ==
  ASSUME NEW h \in Seq(OwnRecord), \A g \in DOMAIN h : OwnershipFollows(h, g),
         NEW e \in OwnRecord, NEW k, k = Append(h, e), OwnershipFollows(k, Len(h) + 1)
  PROVE  \A g \in DOMAIN k : OwnershipFollows(k, g)
<1> SUFFICES ASSUME NEW g \in DOMAIN k PROVE OwnershipFollows(k, g)
  OBVIOUS
<1>1. /\ Len(h) \in Nat /\ DOMAIN h = 1..Len(h) /\ DOMAIN k = 1..(Len(h) + 1)
      /\ \A i \in DOMAIN h : k[i] = h[i]
  BY Appended DEF Grown
<1>2. CASE g = Len(h) + 1
  BY <1>2
<1>3. CASE g \in DOMAIN h
  <2>1. OwnershipFollows(h, g) /\ k[g] = h[g]
    BY <1>1, <1>3
  <2>2. g # 1 => g - 1 \in DOMAIN h
    BY <1>1, <1>3
  <2>3. g # 1 => k[g - 1] = h[g - 1]
    BY <1>1, <2>2
  <2> QED BY <2>1, <2>3 DEF OwnershipFollows
<1> QED BY <1>1, <1>2, <1>3

\* What a claim, a renewal and a release make of an ownership record.
OwnerMove(o, p, operation, now) ==
  /\ p.gen = o.gen + 1 /\ p.term >= o.term /\ p.updated = now
  /\ \/ /\ operation = IF o.state = "none" THEN "claim" ELSE "transfer"
        /\ p.token = o.token + 1 /\ p.state = "active" /\ p.lease > now
     \/ /\ operation = "renew" /\ o.state = "active" /\ p.owner = o.owner /\ p.token = o.token
        /\ p.state = "active" /\ p.lease > now
     \/ /\ operation = "release" /\ o.state = "active" /\ p.owner = o.owner /\ p.token = o.token
        /\ p.state = "released" /\ p.lease = now

\* The audit record that a new ownership record leaves.
AuditOf(o, p, operation) ==
  [gen |-> p.gen, prevOwner |-> o.owner, owner |-> p.owner, term |-> p.term, token |-> p.token,
   op |-> operation]

\* A valid ownership history stays valid under a claim, a renewal or a release.
LEMMA OwnerStaysValid ==
  ASSUME NEW o \in Owner, NEW h \in Seq(OwnRecord), NEW time \in Nat, ValidOwner(o, h, time),
         NEW p \in Owner, NEW operation \in {"claim", "transfer", "renew", "release"},
         NEW now \in Nat, OwnerMove(o, p, operation, now),
         NEW e, e = AuditOf(o, p, operation), NEW k, k = Append(h, e)
  PROVE  ValidOwner(p, k, now)
<1>2. e \in OwnRecord
  BY DEF Owner, OwnRecord, AuditOf
<1>3. /\ e.gen = p.gen /\ e.prevOwner = o.owner /\ e.owner = p.owner /\ e.term = p.term
      /\ e.token = p.token /\ e.op = operation
  BY DEF AuditOf
<1>1. k \in Seq(OwnRecord) /\ Grown(k, h, e)
  BY <1>2, Appended
<1>4. /\ Len(h) \in Nat /\ DOMAIN h = 1..Len(h)
      /\ k[Len(h) + 1] = e /\ Last(k) = e /\ k # <<>> /\ \A i \in DOMAIN h : k[i] = h[i]
  BY <1>1 DEF Grown
<1>5. OwnershipFollows(k, Len(h) + 1)
  <2>1. CASE h = <<>>
    <3>1. Len(h) = 0 /\ o = NoOwner
      BY <2>1 DEF ValidOwner, CurrentOwner
    <3>2. e.gen = 1 /\ e.op = "claim" /\ e.token = 1 /\ e.prevOwner = "none"
      BY <1>3, <3>1, NoOwnerFields DEF OwnerMove
    <3>3. k[1] = e
      BY <1>4, <3>1
    <3> QED BY <3>1, <3>2, <3>3 DEF OwnershipFollows
  <2>2. CASE h # <<>>
    <3> DEFINE l == h[Len(h)]
    <3>1. /\ Len(h) \in DOMAIN h /\ Len(h) >= 1 /\ Last(h) = l /\ l \in OwnRecord
          /\ l.gen = Len(h)
      BY <2>2, LastRecord DEF ValidOwner, OwnershipFollows
    <3>2. /\ o.gen = l.gen /\ o.owner = l.owner /\ o.term = l.term /\ o.token = l.token
          /\ o.state = IF l.op = "release" THEN "released" ELSE "active"
      BY <2>2, <3>1 DEF ValidOwner, CurrentOwner
    <3>3. k[(Len(h) + 1) - 1] = l /\ Len(h) + 1 # 1
      BY <1>4, <3>1
    <3> HIDE DEF l
    <3>4. e.gen = Len(h) + 1 /\ e.prevOwner = l.owner /\ e.term >= l.term
      BY <1>3, <3>1, <3>2 DEF OwnerMove
    <3>5. \/ /\ e.op \in {"renew", "release"} /\ l.op # "release"
             /\ e.owner = l.owner /\ e.token = l.token
          \/ e.op = "transfer" /\ e.token = l.token + 1
      BY <1>3, <3>2 DEF OwnerMove
    <3> QED BY <1>4, <3>3, <3>4, <3>5 DEF OwnershipFollows
  <2> QED BY <2>1, <2>2
<1>6. \A g \in DOMAIN k : OwnershipFollows(k, g)
  BY <1>2, <1>5, OwnershipAppend DEF ValidOwner
<1>7. CurrentOwner(p, k, now)
  <2>1. p.state = IF e.op = "release" THEN "released" ELSE "active"
    BY <1>3 DEF OwnerMove
  <2>2. IF p.state = "active" THEN p.lease > p.updated ELSE p.lease = p.updated
    BY DEF OwnerMove
  <2>3. p.updated = now
    BY DEF OwnerMove
  <2> QED BY <1>3, <1>4, <2>1, <2>2, <2>3 DEF CurrentOwner
<1> QED BY <1>6, <1>7 DEF ValidOwner

\* A history that is left alone stays valid as time passes.
LEMMA OwnerWaits ==
  ASSUME NEW o \in Owner, NEW h, NEW time \in Nat, ValidOwner(o, h, time),
         NEW now \in Nat, now >= time
  PROVE  ValidOwner(o, h, now)
  BY DEF ValidOwner, CurrentOwner, Owner

\* The earlier revisions of a member follow each other as before.
LEMMA RevisionAppend ==
  ASSUME NEW h \in Seq(Revision), \A g \in DOMAIN h : RevisionFollows(h, g),
         NEW e \in Revision, NEW k, k = Append(h, e), RevisionFollows(k, Len(h) + 1)
  PROVE  \A g \in DOMAIN k : RevisionFollows(k, g)
<1> SUFFICES ASSUME NEW g \in DOMAIN k PROVE RevisionFollows(k, g)
  OBVIOUS
<1>1. /\ Len(h) \in Nat /\ DOMAIN h = 1..Len(h) /\ DOMAIN k = 1..(Len(h) + 1)
      /\ \A i \in DOMAIN h : k[i] = h[i]
  BY Appended DEF Grown
<1>2. CASE g = Len(h) + 1
  BY <1>2
<1>3. CASE g \in DOMAIN h
  <2>1. RevisionFollows(h, g) /\ k[g] = h[g]
    BY <1>1, <1>3
  <2>2. g # 1 => g - 1 \in DOMAIN h
    BY <1>1, <1>3
  <2>3. g # 1 => k[g - 1] = h[g - 1]
    BY <1>1, <2>2
  <2> QED BY <2>1, <2>3 DEF RevisionFollows
<1> QED BY <1>1, <1>2, <1>3

\* What the last revision of a valid history says.
LEMMA MemberLast ==
  ASSUME NEW m \in Member, NEW h \in Seq(Revision), ValidMember(m, h)
  PROVE  /\ m.gen = Len(h)
         /\ h = <<>> => m.state = "none" /\ m.tls = NoLeaf
         /\ h # <<>> => /\ Len(h) \in DOMAIN h /\ Len(h) >= 1
                        /\ h[Len(h)].state = m.state /\ h[Len(h)].tls = m.tls
<1>1. CASE h = <<>>
  BY <1>1 DEF ValidMember, CurrentMember, NoMember
<1>2. CASE h # <<>>
  <2>1. Len(h) \in DOMAIN h /\ Len(h) >= 1 /\ Last(h) = h[Len(h)]
    BY <1>2, LastRecord
  <2>2. m = [state |-> Last(h).state, gen |-> Last(h).gen, tls |-> Last(h).tls]
    BY <1>2 DEF ValidMember, CurrentMember
  <2>3. h[Len(h)].gen = Len(h)
    BY <2>1 DEF ValidMember, RevisionFollows
  <2> QED BY <1>2, <2>1, <2>2, <2>3
<1> QED BY <1>1, <1>2

\* The revision that append_member_revision adds to a member.
RevisionOf(m, state, leaf) ==
  [gen |-> m.gen + 1, prevState |-> m.state, state |-> state, prevTls |-> m.tls, tls |-> leaf]

\* A valid member stays valid under a revision that append_member_revision may
\* be asked for.
LEMMA MemberStaysValid ==
  ASSUME NEW m \in Member, NEW h \in Seq(Revision), ValidMember(m, h),
         NEW state \in MemberStates, NEW leaf \in LeafOrNone,
         m.state # "revoked", m.state = "none" => state = "active",
         m.tls # NoLeaf => leaf # NoLeaf,
         NEW e, e = RevisionOf(m, state, leaf), NEW k, k = Append(h, e)
  PROVE  ValidMember([state |-> state, gen |-> m.gen + 1, tls |-> leaf], k)
<1>2. e \in Revision
  BY DEF Member, Revision, RevisionOf
<1>3. /\ e.gen = m.gen + 1 /\ e.prevState = m.state /\ e.state = state /\ e.prevTls = m.tls
      /\ e.tls = leaf
  BY DEF RevisionOf
<1>1. k \in Seq(Revision) /\ Grown(k, h, e)
  BY <1>2, Appended
<1>4. /\ Len(h) \in Nat /\ DOMAIN h = 1..Len(h)
      /\ k[Len(h) + 1] = e /\ Last(k) = e /\ k # <<>> /\ \A i \in DOMAIN h : k[i] = h[i]
  BY <1>1 DEF Grown
<1>5. /\ m.gen = Len(h)
      /\ h = <<>> => m.state = "none" /\ m.tls = NoLeaf
      /\ h # <<>> => /\ Len(h) \in DOMAIN h /\ Len(h) >= 1
                     /\ h[Len(h)].state = m.state /\ h[Len(h)].tls = m.tls
  BY MemberLast
<1>6. RevisionFollows(k, Len(h) + 1)
  <2>1. CASE h = <<>>
    <3>1. Len(h) = 0
      BY <2>1
    <3>2. k[1] = e /\ e.gen = 1 /\ e.prevState = "none" /\ e.state = "active" /\ e.prevTls = NoLeaf
      BY <1>3, <1>4, <1>5, <2>1, <3>1
    <3> QED BY <3>1, <3>2 DEF RevisionFollows
  <2>2. CASE h # <<>>
    <3>1. k[(Len(h) + 1) - 1] = h[Len(h)] /\ Len(h) + 1 # 1
      BY <1>4, <1>5, <2>2
    <3>2. /\ h[Len(h)].state = m.state /\ h[Len(h)].tls = m.tls /\ e.gen = Len(h) + 1
      BY <1>3, <1>5, <2>2
    <3> QED BY <1>3, <1>4, <3>1, <3>2 DEF RevisionFollows
  <2> QED BY <2>1, <2>2
<1>7. \A g \in DOMAIN k : RevisionFollows(k, g)
  BY <1>2, <1>6, RevisionAppend DEF ValidMember
<1> QED BY <1>3, <1>4, <1>7 DEF ValidMember, CurrentMember

\* The smallest element of a set of numbers.
LEMMA MinIs ==
  ASSUME NEW S \in SUBSET Nat, NEW x \in S, \A y \in S : x <= y
  PROVE  Min(S) = x
<1>1. \E z \in S : \A y \in S : z <= y
  OBVIOUS
<1>2. Min(S) \in S /\ \A y \in S : Min(S) <= y
  BY <1>1 DEF Min
<1>3. Min(S) <= x /\ x <= Min(S) /\ Min(S) \in Nat /\ x \in Nat
  BY <1>2
<1> QED BY <1>3

\* A new revision adds its leaf to the worn ones.
Wears(k, m, v, x) ==
  /\ Worn(k, x) = IF v.tls = x THEN Worn(m, x) \cup {Len(m) + 1} ELSE Worn(m, x)
  /\ \A g \in Worn(m, x) : g \in Nat /\ g <= Len(m)
  /\ Len(m) \in Nat /\ Worn(k, x) \in SUBSET Nat

\* What one more revision adds to the leaves a member has worn.
LEMMA WornGrows ==
  ASSUME NEW m \in Seq(Revision), NEW v \in Revision, NEW k, k = Append(m, v), NEW x
  PROVE  Wears(k, m, v, x)
<1>1. Grown(k, m, v)
  BY Appended
<1>2. /\ Len(m) \in Nat /\ DOMAIN m = 1..Len(m) /\ DOMAIN k = (1..Len(m)) \cup {Len(m) + 1}
      /\ k[Len(m) + 1] = v /\ \A i \in 1..Len(m) : k[i] = m[i]
  BY <1>1 DEF Grown
<1>3. \A g \in Worn(m, x) : g \in Nat /\ g <= Len(m)
  BY <1>2 DEF Worn
<1>4. Worn(k, x) = IF v.tls = x THEN Worn(m, x) \cup {Len(m) + 1} ELSE Worn(m, x)
  BY <1>2 DEF Worn
<1> QED BY <1>2, <1>3, <1>4 DEF Wears

\* A leaf that was worn before may be worn again.
LEMMA TracksKept ==
  ASSUME NEW h, NEW m \in Seq(Revision), NEW x, Tracks(h, m, x),
         NEW v \in Revision, NEW k, k = Append(m, v), v.tls # x \/ Worn(m, x) # {},
         NEW f, Activated(f, x) = Activated(h, x), \A j \in Activated(h, x) : f[j] = h[j]
  PROVE  Tracks(f, k, x)
<1>1. /\ Worn(k, x) = IF v.tls = x THEN Worn(m, x) \cup {Len(m) + 1} ELSE Worn(m, x)
      /\ \A g \in Worn(m, x) : g \in Nat /\ g <= Len(m)
      /\ Len(m) \in Nat /\ Worn(k, x) \in SUBSET Nat
  <2>1. Wears(k, m, v, x)
    BY WornGrows
  <2> QED BY <2>1 DEF Wears
<1>2. Worn(k, x) = {} <=> Worn(m, x) = {}
  BY <1>1
<1>3. ASSUME NEW j \in Activated(f, x)
      PROVE  f[j].gen \in Worn(k, x) /\ \A g \in Worn(k, x) : f[j].gen <= g
  <2>1. h[j].gen \in Worn(m, x) /\ \A g \in Worn(m, x) : h[j].gen <= g
    BY <1>3 DEF Tracks
  <2>2. f[j].gen = h[j].gen
    BY <1>3
  <2>3. h[j].gen <= Len(m) /\ h[j].gen \in Nat
    BY <1>1, <2>1
  <2> QED BY <1>1, <2>1, <2>2, <2>3
<1>4. \A j \in Activated(f, x) : f[j].gen = Min(Worn(k, x))
  BY <1>1, <1>3, MinIs
<1> QED BY <1>2, <1>3, <1>4 DEF Tracks, WornSinceActivation

\* A leaf is worn for the first time by the revision that activates it.
LEMMA TracksActivated ==
  ASSUME NEW h, NEW m \in Seq(Revision), NEW x, Tracks(h, m, x), Activated(h, x) = {},
         NEW v \in Revision, NEW k, k = Append(m, v), v.tls = x,
         NEW f, NEW j, Activated(f, x) = {j}, f[j].gen = Len(m) + 1
  PROVE  Tracks(f, k, x)
<1>1. /\ Worn(k, x) = Worn(m, x) \cup {Len(m) + 1} /\ Len(m) \in Nat
  BY WornGrows DEF Wears
<1>2. Worn(m, x) = {}
  BY DEF Tracks, WornSinceActivation
<1>3. Worn(k, x) = {Len(m) + 1} /\ Len(m) + 1 \in Nat
  BY <1>1, <1>2
<1>4. Min(Worn(k, x)) = Len(m) + 1
  BY <1>3, MinIs
<1> QED BY <1>3, <1>4 DEF Tracks, WornSinceActivation

\* What a rollout record adds to the activations.
ActivationsGrow(f, h, e, x) ==
  /\ Activated(f, x) = IF e.to = "activated" /\ e.next = x
                       THEN Activated(h, x) \cup {Len(h) + 1} ELSE Activated(h, x)
  /\ \A j \in Activated(h, x) : f[j] = h[j]

\* What one more record adds to the activations of a rollout history.
LEMMA ActivatedGrows ==
  ASSUME NEW h \in Seq(RolloutRecord), NEW e \in RolloutRecord, NEW f, f = Append(h, e), NEW x
  PROVE  ActivationsGrow(f, h, e, x)
<1>1. Grown(f, h, e)
  BY Appended
<1>2. /\ DOMAIN h = 1..Len(h) /\ DOMAIN f = (1..Len(h)) \cup {Len(h) + 1}
      /\ f[Len(h) + 1] = e /\ \A i \in 1..Len(h) : f[i] = h[i]
  BY <1>1 DEF Grown
<1> QED BY <1>2 DEF Activated, ActivationsGrow

\* The revision that a record rests on stays where it is.
LEMMA RestKept ==
  ASSUME NEW m \in Seq(Revision), NEW v \in Revision, NEW k, k = Append(m, v),
         NEW e, RestsOnRevision(m, e)
  PROVE  RestsOnRevision(k, e)
<1>1. Grown(k, m, v)
  BY Appended
<1>2. \A i \in DOMAIN m : k[i] = m[i] /\ i \in DOMAIN k
  BY <1>1 DEF Grown
<1> QED BY <1>2 DEF RestsOnRevision

\* The phase tells whether the last record is unfinished.
LEMMA PhaseTells ==
  ASSUME NEW r, NEW h \in Seq(RolloutRecord), NEW member, CurrentRollout(r, h, member)
  PROVE  /\ r.phase = "none" => r = NoRollout /\ (h = <<>> \/ Last(h).to = "none")
         /\ r.phase # "none" => /\ h # <<>> /\ Last(h).to = r.phase /\ Last(h).prev = r.prev
                                /\ Last(h).next = r.next
                                /\ member.tls = IF r.phase = "prepared" THEN r.prev ELSE r.next
  BY DEF CurrentRollout, NoRollout

\* A revision outside a rollout.
LEMMA RolloutUntouched ==
  ASSUME NEW r, NEW h \in Seq(RolloutRecord), NEW member \in Member, NEW m \in Seq(Revision),
         RolloutInv(r, h, member, m), ValidMember(member, m), r.phase = "none",
         NEW v \in Revision, NEW k, k = Append(m, v),
         v.tls = member.tls \/ \A i \in DOMAIN h : h[i].next # v.tls, NEW other
  PROVE  RolloutInv(NoRollout, h, other, k)
<1>1. r = NoRollout /\ (h = <<>> \/ Last(h).to = "none")
  BY PhaseTells DEF RolloutInv
<1>2. ASSUME NEW i \in DOMAIN h
      PROVE  /\ RolloutFollows(h, i) /\ RestsOnRevision(k, h[i])
             /\ Tracks(h, k, h[i].next) /\ h[i].next # NoLeaf
  <2>1. /\ RolloutFollows(h, i) /\ RestsOnRevision(m, h[i])
        /\ Tracks(h, m, h[i].next) /\ h[i].next # NoLeaf
    BY <1>2 DEF RolloutInv
  <2>2. v.tls # h[i].next \/ Worn(m, h[i].next) # {}
    <3>1. CASE v.tls = member.tls /\ v.tls = h[i].next
      <4>1. m # <<>> /\ Len(m) \in DOMAIN m /\ m[Len(m)].tls = member.tls
        BY <2>1, <3>1, MemberLast
      <4> QED BY <3>1, <4>1 DEF Worn
    <3> QED BY <1>2, <3>1
  <2>3. Tracks(h, k, h[i].next)
    BY <2>1, <2>2, TracksKept
  <2> QED BY <2>1, <2>3, RestKept
<1>3. CurrentRollout(NoRollout, h, other)
  BY <1>1 DEF CurrentRollout
<1>4. NoRollout.phase = "none"
  BY DEF NoRollout
<1> QED BY <1>2, <1>3, <1>4 DEF RolloutInv

\* The earlier records of a rollout audit follow each other as before.
LEMMA RolloutAppend ==
  ASSUME NEW h \in Seq(RolloutRecord), NEW e \in RolloutRecord, NEW f, f = Append(h, e),
         NEW i \in DOMAIN h, RolloutFollows(h, i)
  PROVE  RolloutFollows(f, i)
<1>1. Grown(f, h, e)
  BY Appended
<1>2. /\ DOMAIN h = 1..Len(h) /\ Len(h) \in Nat /\ \A j \in DOMAIN h : f[j] = h[j]
  BY <1>1 DEF Grown
<1>3. f[i] = h[i] /\ (i # 1 => f[i - 1] = h[i - 1])
  BY <1>2
<1>4. \A j \in 1..(i - 1) : f[j] = h[j]
  BY <1>2
<1> QED BY <1>3, <1>4 DEF RolloutFollows

\* The leaves of all records, the new one included, are accounted for.
TracksAll(f, k, h, e) ==
  \A x : x = e.next \/ (\E i \in DOMAIN h : x = h[i].next) => Tracks(f, k, x)

\* A rollout record with the revision it belongs to.
LEMMA RolloutExtended ==
  ASSUME NEW r, NEW h \in Seq(RolloutRecord), NEW member, NEW m \in Seq(Revision),
         RolloutInv(r, h, member, m),
         NEW e \in RolloutRecord, NEW f, f = Append(h, e),
         NEW v \in Revision, NEW k, k = Append(m, v),
         RolloutFollows(f, Len(h) + 1), RestsOnRevision(k, e), e.next # NoLeaf,
         TracksAll(f, k, h, e),
         NEW s, NEW other, CurrentRollout(s, f, other),
         s.phase = "prepared" => Activated(f, s.next) = {}
  PROVE  RolloutInv(s, f, other, k)
<1>1. Grown(f, h, e)
  BY Appended
<1>2. /\ DOMAIN f = (DOMAIN h) \cup {Len(h) + 1}
      /\ f[Len(h) + 1] = e /\ \A i \in DOMAIN h : f[i] = h[i]
  BY <1>1 DEF Grown
<1>3. ASSUME NEW i \in DOMAIN h
      PROVE  /\ RolloutFollows(f, i) /\ RestsOnRevision(k, f[i])
             /\ Tracks(f, k, f[i].next) /\ f[i].next # NoLeaf
  <2>1. RolloutFollows(h, i) /\ RestsOnRevision(m, h[i]) /\ h[i].next # NoLeaf
    BY <1>3 DEF RolloutInv
  <2>2. f[i] = h[i]
    BY <1>2, <1>3
  <2>3. RolloutFollows(f, i) /\ RestsOnRevision(k, h[i])
    BY <1>3, <2>1, RolloutAppend, RestKept
  <2>4. Tracks(f, k, h[i].next)
    BY <1>3 DEF TracksAll
  <2> QED BY <2>1, <2>2, <2>3, <2>4
<1>4. /\ RolloutFollows(f, Len(h) + 1) /\ RestsOnRevision(k, f[Len(h) + 1])
      /\ Tracks(f, k, f[Len(h) + 1].next) /\ f[Len(h) + 1].next # NoLeaf
  BY <1>2 DEF TracksAll
<1> QED BY <1>2, <1>3, <1>4 DEF RolloutInv

\* The record that append_certificate_rollout_audit adds.
RecordOf(g, from, to, prev, next) ==
  [gen |-> g, from |-> from, to |-> to, prev |-> prev, next |-> next]

\* The fields of the records of a rollout.
LEMMA RecordFields ==
  ASSUME NEW g, NEW from, NEW to, NEW prev, NEW next, NEW e, e = RecordOf(g, from, to, prev, next)
  PROVE  /\ e.gen = g /\ e.from = from /\ e.to = to /\ e.prev = prev /\ e.next = next
         /\ /\ g \in Nat /\ from \in Phases /\ to \in Phases
            /\ prev \in LeafOrNone /\ next \in LeafOrNone
            => e \in RolloutRecord
  BY DEF RecordOf, RolloutRecord

\* A revision that keeps the leaf of the member shows no new leaf.
LEMMA SameLeafWorn ==
  ASSUME NEW member \in Member, NEW m \in Seq(Revision), ValidMember(member, m),
         NEW leaf, leaf = member.tls, NEW x, x # NoLeaf
  PROVE  leaf # x \/ Worn(m, x) # {}
<1> SUFFICES ASSUME x = member.tls PROVE Worn(m, x) # {}
  OBVIOUS
<1>1. m # <<>> /\ Len(m) \in DOMAIN m /\ m[Len(m)].tls = member.tls
  BY MemberLast
<1> QED BY <1>1 DEF Worn

\* PrepareMemberCertificateRollout keeps the rollout of the node valid.
Opens(r, h, member, m, leaf, v, e, s, other) ==
  /\ r.phase = "none"
  /\ leaf # member.tls /\ (\A i \in DOMAIN h : h[i].next # leaf)
  /\ \A g \in DOMAIN m : m[g].tls # leaf
  /\ v.tls = member.tls /\ v.state = "active"
  /\ e = RecordOf(member.gen + 1, "none", "prepared", member.tls, leaf)
  /\ s.phase = "prepared" /\ s.gen = member.gen + 1 /\ s.prev = member.tls /\ s.next = leaf
  /\ other.state = "active" /\ other.gen = member.gen + 1 /\ other.tls = member.tls

\* Opening a rollout keeps the history of its node valid.
LEMMA RolloutPrepared ==
  ASSUME NEW r, NEW h \in Seq(RolloutRecord), NEW member \in Member, NEW m \in Seq(Revision),
         RolloutInv(r, h, member, m), ValidMember(member, m),
         NEW leaf \in Leaves, NEW v \in Revision, NEW k, k = Append(m, v),
         NEW e, NEW f, f = Append(h, e), NEW s, NEW other,
         Opens(r, h, member, m, leaf, v, e, s, other)
  PROVE  RolloutInv(s, f, other, k)
<1>0. /\ r.phase = "none"
      /\ leaf # member.tls /\ (\A i \in DOMAIN h : h[i].next # leaf)
      /\ \A g \in DOMAIN m : m[g].tls # leaf
      /\ v.tls = member.tls /\ v.state = "active"
      /\ e = RecordOf(member.gen + 1, "none", "prepared", member.tls, leaf)
      /\ s.phase = "prepared" /\ s.gen = member.gen + 1 /\ s.prev = member.tls /\ s.next = leaf
      /\ other.state = "active" /\ other.gen = member.gen + 1 /\ other.tls = member.tls
  BY DEF Opens
<1>1. leaf \in LeafOrNone /\ leaf # NoLeaf /\ "none" \in Phases /\ "prepared" \in Phases
  BY <1>0, AuthorityConstants DEF LeafOrNone, Phases
<1>2. member.gen + 1 \in Nat /\ member.tls \in LeafOrNone /\ member.gen = Len(m)
  BY <1>0, MemberLast DEF Member
<1>3. /\ e.gen = member.gen + 1 /\ e.from = "none" /\ e.to = "prepared" /\ e.prev = member.tls
      /\ e.next = leaf /\ e \in RolloutRecord
  BY <1>0, <1>1, <1>2, RecordFields
<1>4. Grown(f, h, e) /\ Grown(k, m, v)
  <2>1. Grown(f, h, e)
    BY <1>3, Appended
  <2>2. Grown(k, m, v)
    BY Appended
  <2> QED BY <1>0, <2>1, <2>2
<1>5. /\ Len(h) \in Nat /\ DOMAIN h = 1..Len(h) /\ f[Len(h) + 1] = e /\ Last(f) = e /\ f # <<>>
      /\ \A i \in DOMAIN h : f[i] = h[i]
      /\ Len(m) + 1 \in DOMAIN k /\ k[Len(m) + 1] = v
  BY <1>0, <1>4 DEF Grown
<1>6. h = <<>> \/ Last(h).to = "none"
  BY <1>0, PhaseTells DEF RolloutInv
<1>7. RolloutFollows(f, Len(h) + 1)
  <2>1. f[Len(h) + 1].from = IF Len(h) + 1 = 1 THEN "none" ELSE f[Len(h) + 1 - 1].to
    <3>1. CASE h = <<>>
      BY <1>0, <1>3, <1>5, <3>1
    <3>2. CASE h # <<>>
      <4>1. Len(h) \in DOMAIN h /\ Len(h) >= 1 /\ Last(h) = h[Len(h)]
        BY <1>0, <3>2, LastRecord
      <4>2. Len(h) + 1 # 1 /\ f[Len(h) + 1 - 1] = h[Len(h)]
        BY <1>0, <1>5, <4>1
      <4> QED BY <1>0, <1>3, <1>5, <1>6, <3>2, <4>1, <4>2
    <3> QED BY <1>0, <3>1, <3>2
  <2>2. \A j \in 1..(Len(h) + 1 - 1) : f[j].next # e.next
    BY <1>0, <1>3, <1>5
  <2>3. e.prev # e.next
    BY <1>0, <1>3
  <2>4. f[Len(h) + 1] = e /\ e.from = "none" /\ e.to = "prepared"
    BY <1>0, <1>3, <1>5
  <2> QED BY <1>0, <2>1, <2>2, <2>3, <2>4 DEF RolloutFollows
<1>8. RestsOnRevision(k, e)
  BY <1>0, <1>2, <1>3, <1>5 DEF RestsOnRevision, LeafAt
<1>9. ASSUME NEW x, x = e.next \/ (\E i \in DOMAIN h : x = h[i].next)
      PROVE  Tracks(f, k, x)
  <2>1. Activated(f, x) = Activated(h, x) /\ \A j \in Activated(h, x) : f[j] = h[j]
    <3>1. ActivationsGrow(f, h, e, x)
      BY <1>0, <1>3, ActivatedGrows
    <3> QED BY <1>0, <1>3, <3>1 DEF ActivationsGrow
  <2>2. CASE x = leaf
    <3>1. Worn(m, x) = {} /\ Activated(h, x) = {}
      BY <1>0, <2>2 DEF Worn, Activated
    <3>2. Tracks(h, m, x)
      BY <1>0, <3>1 DEF Tracks, WornSinceActivation
    <3>3. v.tls # x
      BY <1>0, <2>2
    <3> QED BY <2>1, <3>2, <3>3, TracksKept
  <2>3. ASSUME NEW i \in DOMAIN h, x = h[i].next PROVE Tracks(f, k, x)
    <3>1. Tracks(h, m, x) /\ x # NoLeaf
      BY <1>0, <2>3 DEF RolloutInv
    <3>2. v.tls # x \/ Worn(m, x) # {}
      BY <1>0, <3>1, SameLeafWorn
    <3> QED BY <2>1, <3>1, <3>2, TracksKept
  <2> QED BY <1>0, <1>3, <1>9, <2>2, <2>3
<1>10. CurrentRollout(s, f, other)
  BY <1>0, <1>3, <1>5 DEF CurrentRollout
<1>11. Activated(f, s.next) = {}
  <2>1. ActivationsGrow(f, h, e, leaf)
    BY <1>0, <1>3, ActivatedGrows
  <2>2. Activated(f, leaf) = Activated(h, leaf)
    BY <1>0, <1>3, <2>1 DEF ActivationsGrow
  <2> QED BY <1>0, <2>2 DEF Activated
<1>12. TracksAll(f, k, h, e)
  BY <1>0, <1>9 DEF TracksAll
<1>13. e.next # NoLeaf
  BY <1>0, <1>1, <1>3
<1>14. s.phase = "prepared" => Activated(f, s.next) = {}
  BY <1>11
<1>15. e \in RolloutRecord
  BY <1>3
<1> QED BY <1>7, <1>8, <1>10, <1>12, <1>13, <1>14, <1>15, RolloutExtended

\* Aborting, finalizing and revoking keep the rollout of the node valid.
Closes(r, member, v, e) ==
  /\ r.phase # "none" /\ v.tls = member.tls /\ v.state \in {"active", "revoked"}
  /\ e = RecordOf(member.gen + 1, r.phase, "none", r.prev, r.next)

\* Closing a rollout keeps the history of its node valid.
LEMMA RolloutClosed ==
  ASSUME NEW r \in Rollout, NEW h \in Seq(RolloutRecord), NEW member \in Member,
         NEW m \in Seq(Revision),
         RolloutInv(r, h, member, m), ValidMember(member, m),
         NEW v \in Revision, NEW k, k = Append(m, v),
         NEW e, NEW f, f = Append(h, e), NEW other, Closes(r, member, v, e)
  PROVE  RolloutInv(NoRollout, f, other, k)
<1>0. /\ r.phase # "none" /\ v.tls = member.tls /\ v.state \in {"active", "revoked"}
      /\ e = RecordOf(member.gen + 1, r.phase, "none", r.prev, r.next)
  BY DEF Closes
<1>1. r.phase \in Phases /\ r.prev \in LeafOrNone /\ r.next \in LeafOrNone /\ "none" \in Phases
  BY <1>0 DEF Rollout, Phases
<1>2. member.gen + 1 \in Nat /\ member.gen = Len(m)
  BY <1>0, MemberLast DEF Member
<1>3. /\ e.gen = member.gen + 1 /\ e.from = r.phase /\ e.to = "none" /\ e.prev = r.prev
      /\ e.next = r.next /\ e \in RolloutRecord
  BY <1>0, <1>1, <1>2, RecordFields
<1>4. Grown(f, h, e) /\ Grown(k, m, v)
  <2>1. Grown(f, h, e)
    BY <1>3, Appended
  <2>2. Grown(k, m, v)
    BY Appended
  <2> QED BY <1>0, <2>1, <2>2
<1>5. /\ Len(h) \in Nat /\ DOMAIN h = 1..Len(h) /\ f[Len(h) + 1] = e /\ Last(f) = e /\ f # <<>>
      /\ \A i \in DOMAIN h : f[i] = h[i]
      /\ Len(m) + 1 \in DOMAIN k /\ k[Len(m) + 1] = v
  BY <1>0, <1>4 DEF Grown
<1>6. /\ h # <<>> /\ Last(h).to = r.phase /\ Last(h).prev = r.prev /\ Last(h).next = r.next
      /\ member.tls = IF r.phase = "prepared" THEN r.prev ELSE r.next
  BY <1>0, PhaseTells DEF RolloutInv
<1>7. /\ Len(h) \in DOMAIN h /\ Len(h) >= 1 /\ Last(h) = h[Len(h)]
  BY <1>0, <1>6, LastRecord
<1>8. RolloutFollows(h, Len(h)) /\ h[Len(h)].next # NoLeaf
  BY <1>0, <1>7 DEF RolloutInv
<1>9. h[Len(h)].prev # h[Len(h)].next
  BY <1>0, <1>8 DEF RolloutFollows
<1>10. Len(h) + 1 # 1 /\ f[Len(h) + 1 - 1] = h[Len(h)]
  BY <1>0, <1>5, <1>7
<1>11. RolloutFollows(f, Len(h) + 1)
  BY <1>0, <1>3, <1>5, <1>6, <1>7, <1>9, <1>10 DEF RolloutFollows
<1>12. RestsOnRevision(k, e)
  BY <1>0, <1>2, <1>3, <1>5, <1>6 DEF RestsOnRevision, LeafAt
<1>13. ASSUME NEW x, x = e.next \/ (\E i \in DOMAIN h : x = h[i].next)
       PROVE  Tracks(f, k, x)
  <2>1. Activated(f, x) = Activated(h, x) /\ \A j \in Activated(h, x) : f[j] = h[j]
    <3>1. ActivationsGrow(f, h, e, x)
      BY <1>0, <1>3, ActivatedGrows
    <3> QED BY <1>0, <1>3, <3>1 DEF ActivationsGrow
  <2>2. PICK i \in DOMAIN h : x = h[i].next
    BY <1>0, <1>3, <1>6, <1>7, <1>13
  <2>3. Tracks(h, m, x) /\ x # NoLeaf
    BY <1>0, <2>2 DEF RolloutInv
  <2>4. v.tls # x \/ Worn(m, x) # {}
    BY <1>0, <2>3, SameLeafWorn
  <2> QED BY <2>1, <2>3, <2>4, TracksKept
<1>14. CurrentRollout(NoRollout, f, other)
  BY <1>0, <1>3, <1>5 DEF CurrentRollout
<1>15. e.next # NoLeaf
  BY <1>0, <1>3, <1>6, <1>7, <1>8
<1>17. NoRollout.phase = "prepared" => Activated(f, NoRollout.next) = {}
  BY DEF NoRollout
<1>18. e \in RolloutRecord
  BY <1>3
<1>16. TracksAll(f, k, h, e)
  BY <1>0, <1>13 DEF TracksAll
<1> QED BY <1>11, <1>12, <1>14, <1>15, <1>16, <1>17, <1>18, RolloutExtended

\* The activation of a prepared rollout keeps the rollout of the node valid.
ActivatesBy(r, member, v, e, s, other) ==
  /\ r.phase = "prepared" /\ v.tls = r.next /\ v.state = "active"
  /\ e = RecordOf(member.gen + 1, "prepared", "activated", r.prev, r.next)
  /\ s.phase = "activated" /\ s.gen = member.gen + 1 /\ s.prev = r.prev /\ s.next = r.next
  /\ other.state = "active" /\ other.gen = member.gen + 1 /\ other.tls = r.next

\* Activating the next leaf keeps the history of its node valid.
LEMMA RolloutActivated ==
  ASSUME NEW r \in Rollout, NEW h \in Seq(RolloutRecord), NEW member \in Member,
         NEW m \in Seq(Revision),
         RolloutInv(r, h, member, m), ValidMember(member, m),
         NEW v \in Revision, NEW k, k = Append(m, v),
         NEW e, NEW f, f = Append(h, e), NEW s, NEW other, ActivatesBy(r, member, v, e, s, other)
  PROVE  RolloutInv(s, f, other, k)
<1>0. /\ r.phase = "prepared" /\ v.tls = r.next /\ v.state = "active"
      /\ e = RecordOf(member.gen + 1, "prepared", "activated", r.prev, r.next)
      /\ s.phase = "activated" /\ s.gen = member.gen + 1 /\ s.prev = r.prev /\ s.next = r.next
      /\ other.state = "active" /\ other.gen = member.gen + 1 /\ other.tls = r.next
  BY DEF ActivatesBy
<1>1. r.prev \in LeafOrNone /\ r.next \in LeafOrNone /\ "prepared" \in Phases /\ "activated" \in Phases
  BY <1>0 DEF Rollout, Phases
<1>2. member.gen + 1 \in Nat /\ member.gen = Len(m)
  BY <1>0, MemberLast DEF Member
<1>3. /\ e.gen = member.gen + 1 /\ e.from = "prepared" /\ e.to = "activated" /\ e.prev = r.prev
      /\ e.next = r.next /\ e \in RolloutRecord
  BY <1>0, <1>1, <1>2, RecordFields
<1>4. Grown(f, h, e) /\ Grown(k, m, v)
  <2>1. Grown(f, h, e)
    BY <1>3, Appended
  <2>2. Grown(k, m, v)
    BY Appended
  <2> QED BY <1>0, <2>1, <2>2
<1>5. /\ Len(h) \in Nat /\ DOMAIN h = 1..Len(h) /\ f[Len(h) + 1] = e /\ Last(f) = e /\ f # <<>>
      /\ \A i \in DOMAIN h : f[i] = h[i]
      /\ Len(m) + 1 \in DOMAIN k /\ k[Len(m) + 1] = v
  BY <1>0, <1>4 DEF Grown
<1>6. h # <<>> /\ Last(h).to = "prepared" /\ Last(h).prev = r.prev /\ Last(h).next = r.next
  BY <1>0, PhaseTells DEF RolloutInv
<1>7. /\ Len(h) \in DOMAIN h /\ Len(h) >= 1 /\ Last(h) = h[Len(h)]
  BY <1>0, <1>6, LastRecord
<1>8. RolloutFollows(h, Len(h)) /\ h[Len(h)].next # NoLeaf /\ Tracks(h, m, r.next)
  BY <1>0, <1>6, <1>7 DEF RolloutInv
<1>9. h[Len(h)].prev # h[Len(h)].next
  BY <1>0, <1>8 DEF RolloutFollows
<1>10. Len(h) + 1 # 1 /\ f[Len(h) + 1 - 1] = h[Len(h)]
  BY <1>0, <1>5, <1>7
<1>11. RolloutFollows(f, Len(h) + 1)
  BY <1>0, <1>3, <1>5, <1>6, <1>7, <1>9, <1>10 DEF RolloutFollows
<1>12. RestsOnRevision(k, e)
  BY <1>0, <1>2, <1>3, <1>5 DEF RestsOnRevision, LeafAt
<1>13. ASSUME NEW x, x = e.next \/ (\E i \in DOMAIN h : x = h[i].next)
       PROVE  Tracks(f, k, x)
  <2>1. CASE x = r.next
    <3>1. Activated(h, x) = {}
      BY <1>0, <2>1 DEF RolloutInv
    <3>4. ActivationsGrow(f, h, e, x)
      BY <1>0, <1>3, ActivatedGrows
    <3>2. Activated(f, x) = {Len(h) + 1}
      BY <1>0, <1>3, <2>1, <3>1, <3>4 DEF ActivationsGrow
    <3>3. f[Len(h) + 1].gen = Len(m) + 1
      BY <1>0, <1>2, <1>3, <1>5
    <3>5. v.tls = x /\ Tracks(h, m, x)
      BY <1>0, <1>8, <2>1
    <3> QED BY <3>1, <3>2, <3>3, <3>5, TracksActivated
  <2>2. CASE x # r.next
    <3>4. ActivationsGrow(f, h, e, x)
      BY <1>0, <1>3, ActivatedGrows
    <3>1. Activated(f, x) = Activated(h, x) /\ \A j \in Activated(h, x) : f[j] = h[j]
      BY <1>0, <1>3, <2>2, <3>4 DEF ActivationsGrow
    <3>2. PICK i \in DOMAIN h : x = h[i].next
      BY <1>0, <1>3, <1>13, <2>2
    <3>3. Tracks(h, m, x) /\ v.tls # x
      BY <1>0, <2>2, <3>2 DEF RolloutInv
    <3> QED BY <3>1, <3>3, TracksKept
  <2> QED BY <1>0, <2>1, <2>2
<1>14. CurrentRollout(s, f, other)
  BY <1>0, <1>3, <1>5 DEF CurrentRollout
<1>15. e.next # NoLeaf
  BY <1>0, <1>3, <1>6, <1>7, <1>8
<1>16. TracksAll(f, k, h, e)
  BY <1>0, <1>13 DEF TracksAll
<1>17. s.phase = "prepared" => Activated(f, s.next) = {}
  BY <1>0
<1>18. e \in RolloutRecord
  BY <1>3
<1> QED BY <1>11, <1>12, <1>14, <1>15, <1>16, <1>17, <1>18, RolloutExtended

-----------------------------------------------------------------------------
(* The validity of the whole control plane.                                *)

\* What the validator checks follows from the invariant of every node and agent.
LEMMA SoundIsValid ==
  ASSUME NEW c, Sound(c)
  PROVE  Valid(c)
<1>1. ValidOwnership(c)
  BY DEF Sound, ValidOwner, ValidOwnership
<1>2. ValidMembership(c)
  BY DEF Sound, ValidNode, ValidMember, ValidMembership
<1>3. ValidRollouts(c)
  BY DEF Sound, ValidNode, RolloutInv, Tracks, ValidRollouts
<1> QED BY <1>1, <1>2, <1>3 DEF Valid

\* The leaf occurs in one of the two histories of a node.
Mentions(m, h, x) ==
  /\ x # NoLeaf
  /\ \/ \E g \in DOMAIN m : x = m[g].prevTls \/ x = m[g].tls
     \/ \E j \in DOMAIN h : x = h[j].prev \/ x = h[j].next

\* LeavesOf, leaf by leaf.
LEMMA LeavesAre ==
  ASSUME NEW c, NEW n, NEW x
  PROVE  x \in LeavesOf(c, n) <=> Mentions(c.memberAudit[n], c.rolloutAudit[n], x)
<1>1. \A y : y \in Range(c.memberAudit[n]) <=>
               \E g \in DOMAIN c.memberAudit[n] : y = c.memberAudit[n][g]
  BY DEF Range
<1>2. \A y : y \in Range(c.rolloutAudit[n]) <=>
               \E g \in DOMAIN c.rolloutAudit[n] : y = c.rolloutAudit[n][g]
  BY DEF Range
<1>3. x \in LeavesOf(c, n) <=>
        /\ x # NoLeaf
        /\ \/ \E y \in Range(c.memberAudit[n]) : x = y.prevTls \/ x = y.tls
           \/ \E y \in Range(c.rolloutAudit[n]) : x = y.prev \/ x = y.next
  <2> DEFINE A == {{y.prevTls, y.tls} : y \in Range(c.memberAudit[n])}
             B == {{y.prev, y.next} : y \in Range(c.rolloutAudit[n])}
  <2>4. LeavesOf(c, n) = (UNION (A \cup B)) \ {NoLeaf}
    BY DEF LeavesOf
  <2>2. (\E S \in A : x \in S) <=> \E y \in Range(c.memberAudit[n]) : x = y.prevTls \/ x = y.tls
    OBVIOUS
  <2>3. (\E S \in B : x \in S) <=> \E y \in Range(c.rolloutAudit[n]) : x = y.prev \/ x = y.next
    OBVIOUS
  <2> HIDE DEF A, B
  <2>5. PICK U : U = UNION (A \cup B)
    OBVIOUS
  <2>6. x \in U <=> \E S \in A \cup B : x \in S
    BY <2>5
  <2>7. LeavesOf(c, n) = U \ {NoLeaf}
    BY <2>4, <2>5
  <2>1. x \in LeavesOf(c, n) <=> x # NoLeaf /\ \E S \in A \cup B : x \in S
    BY <2>6, <2>7
  <2> QED BY <2>1, <2>2, <2>3
<1> QED BY <1>1, <1>2, <1>3 DEF Mentions

\* A revision, with or without a rollout record, mentions only its own leaves.
LEMMA MentionsGrow ==
  ASSUME NEW m \in Seq(Revision), NEW v \in Revision, NEW k, k = Append(m, v),
         NEW h \in Seq(RolloutRecord), NEW e \in RolloutRecord, NEW f, f = h \/ f = Append(h, e),
         NEW x, Mentions(k, f, x)
  PROVE  \/ Mentions(m, h, x) \/ x \in {v.prevTls, v.tls}
         \/ f # h /\ x \in {e.prev, e.next}
<1>1. /\ DOMAIN k = (DOMAIN m) \cup {Len(m) + 1} /\ k[Len(m) + 1] = v
      /\ \A i \in DOMAIN m : k[i] = m[i]
  BY Appended DEF Grown
<1>2. CASE f = h
  BY <1>1, <1>2 DEF Mentions
<1>3. CASE f # h
  <2>1. f = Append(h, e)
    BY <1>3
  <2>2. Grown(f, h, e)
    BY <2>1, Appended
  <2>3. /\ DOMAIN f = (DOMAIN h) \cup {Len(h) + 1} /\ f[Len(h) + 1] = e
        /\ \A i \in DOMAIN h : f[i] = h[i]
    BY <2>2 DEF Grown
  <2> QED BY <1>1, <1>3, <2>3 DEF Mentions
<1> QED BY <1>2, <1>3

\* No other node's history mentions the leaf.
Apart(c, n, x) == \A m \in Nodes \ {n} : x \notin LeavesOf(c, m)

SameNode(d, c, n) ==
  /\ d.members[n] = c.members[n] /\ d.memberAudit[n] = c.memberAudit[n]
  /\ d.rollouts[n] = c.rollouts[n] /\ d.rolloutAudit[n] = c.rolloutAudit[n]

\* A command that changes one node.
LEMMA NodeChanged ==
  ASSUME NEW c, NEW d, Sound(c), NEW n \in Nodes, \A m \in Nodes \ {n} : SameNode(d, c, m),
         ValidNode(d, n), \A x \in LeavesOf(d, n) : Apart(c, n, x),
         \A a \in Agents : ValidOwner(d.owned[a], d.ownAudit[a], d.time)
  PROVE  Sound(d)
<1>1. \A m \in Nodes \ {n} : ValidNode(d, m)
  BY DEF Sound, ValidNode, SameNode
<1>2. \A m \in Nodes \ {n} : LeavesOf(d, m) = LeavesOf(c, m)
  BY DEF SameNode, LeavesOf
<1>3. \A m, o \in Nodes \ {n} : m # o => LeavesOf(c, m) \cap LeavesOf(c, o) = {}
  BY DEF Sound
<1>4. \A m \in Nodes \ {n} : LeavesOf(d, n) \cap LeavesOf(d, m) = {}
  BY <1>2 DEF Apart
<1>5. \A m \in Nodes : \A o \in Nodes \ {m} : LeavesOf(d, m) \cap LeavesOf(d, o) = {}
  BY <1>2, <1>3, <1>4
<1> QED BY <1>1, <1>5 DEF Sound

\* A command that changes no node.
LEMMA NodesKept ==
  ASSUME NEW c, NEW d, Sound(c), SameRegistry(d, c),
         \A a \in Agents : ValidOwner(d.owned[a], d.ownAudit[a], d.time)
  PROVE  Sound(d)
<1>1. \A n \in Nodes : ValidNode(d, n) /\ LeavesOf(d, n) = LeavesOf(c, n)
  BY DEF Sound, ValidNode, SameRegistry, LeavesOf
<1> QED BY <1>1 DEF Sound

\* A command that changes no ownership record.
LEMMA OwnersKept ==
  ASSUME NEW c, NEW d, IsControlPlane(c), Sound(c), SameLeases(d, c), d.time \in Nat,
         d.time >= c.time
  PROVE  \A a \in Agents : ValidOwner(d.owned[a], d.ownAudit[a], d.time)
<1> SUFFICES ASSUME NEW a \in Agents PROVE ValidOwner(d.owned[a], d.ownAudit[a], d.time)
  OBVIOUS
<1>1. c.owned[a] \in Owner /\ c.time \in Nat /\ ValidOwner(c.owned[a], c.ownAudit[a], c.time)
  BY ControlFields DEF Sound
<1>2. ValidOwner(c.owned[a], c.ownAudit[a], d.time)
  BY <1>1, OwnerWaits
<1> QED BY <1>2 DEF SameLeases

\* The leaf of a member and those of its open rollout are in its histories.
LEMMA OwnLeaves ==
  ASSUME NEW c, IsControlPlane(c), Sound(c), NEW n \in Nodes, NEW x, x # NoLeaf,
         \/ x = c.members[n].tls
         \/ c.rollouts[n].phase # "none" /\ x \in {c.rollouts[n].prev, c.rollouts[n].next}
  PROVE  Apart(c, n, x)
<1> DEFINE m == c.memberAudit[n]
           h == c.rolloutAudit[n]
<1>1. /\ c.members[n] \in Member /\ m \in Seq(Revision) /\ h \in Seq(RolloutRecord)
      /\ ValidMember(c.members[n], m) /\ RolloutInv(c.rollouts[n], h, c.members[n], m)
  BY ControlFields DEF Sound, ValidNode
<1>2. ASSUME x = c.members[n].tls PROVE Mentions(m, h, x)
  <2>1. m # <<>> /\ Len(m) \in DOMAIN m /\ m[Len(m)].tls = x
    BY <1>1, <1>2, MemberLast
  <2> QED BY <2>1 DEF Mentions
<1>3. ASSUME c.rollouts[n].phase # "none", x \in {c.rollouts[n].prev, c.rollouts[n].next}
      PROVE  Mentions(m, h, x)
  <2>1. CurrentRollout(c.rollouts[n], h, c.members[n])
    BY <1>1 DEF RolloutInv
  <2>2. /\ h # <<>> /\ Last(h).prev = c.rollouts[n].prev /\ Last(h).next = c.rollouts[n].next
    BY <1>1, <1>3, <2>1, PhaseTells
  <2>3. Len(h) \in DOMAIN h /\ Last(h) = h[Len(h)]
    BY <1>1, <2>2, LastRecord
  <2> QED BY <1>3, <2>2, <2>3 DEF Mentions
<1>4. Mentions(m, h, x)
  BY <1>2, <1>3
<1>5. x \in LeavesOf(c, n)
  BY <1>4, LeavesAre
<1> QED BY <1>5 DEF Apart, Sound

\* What a revision makes of its node, with its record named.
Revised(d, c, n, v, state, leaf) ==
  /\ v = RevisionOf(c.members[n], state, leaf)
  /\ v.tls = leaf /\ v.state = state /\ v.prevTls = c.members[n].tls
  /\ d.memberAudit[n] = Append(c.memberAudit[n], v)
  /\ d.members[n] = [state |-> state, gen |-> c.members[n].gen + 1, tls |-> leaf]
  /\ d.members[n].state = state /\ d.members[n].gen = c.members[n].gen + 1
  /\ d.members[n].tls = leaf
  /\ \A m \in Nodes \ {n} : d.members[m] = c.members[m] /\ d.memberAudit[m] = c.memberAudit[m]

\* append_member_revision adds such a record.
LEMMA RevisionNamed ==
  ASSUME NEW c, IsControlPlane(c), NEW d, NEW n \in Nodes, NEW state \in MemberStates,
         NEW leaf \in LeafOrNone, NEW now, Revises(d, c, n, state, leaf, now)
  PROVE  \E v \in Revision : Revised(d, c, n, v, state, leaf)
<1>1. /\ c.members \in [Nodes -> Member] /\ c.memberAudit \in [Nodes -> Seq(Revision)]
      /\ c.members[n] \in Member
  BY ControlFields
<1>2. PICK v : v = RevisionOf(c.members[n], state, leaf)
  OBVIOUS
<1>3. /\ v.tls = leaf /\ v.state = state /\ v.prevTls = c.members[n].tls /\ v \in Revision
  BY <1>1, <1>2 DEF RevisionOf, Member, Revision
<1>4. d.memberAudit = [c.memberAudit EXCEPT ![n] = Append(@, v)]
  BY <1>2 DEF Revises, RevisionOf
<1>5. /\ d.memberAudit[n] = Append(c.memberAudit[n], v)
      /\ \A m \in Nodes \ {n} : d.memberAudit[m] = c.memberAudit[m]
  BY <1>1, <1>4
<1>6. PICK w : w = [state |-> state, gen |-> c.members[n].gen + 1, tls |-> leaf]
  OBVIOUS
<1>7. d.members = [c.members EXCEPT ![n] = w]
  BY <1>6 DEF Revises
<1>8. d.members[n] = w /\ \A m \in Nodes \ {n} : d.members[m] = c.members[m]
  BY <1>1, <1>7
<1>9. w.state = state /\ w.gen = c.members[n].gen + 1 /\ w.tls = leaf
  BY <1>6
<1> QED BY <1>2, <1>3, <1>5, <1>6, <1>8, <1>9 DEF Revised

\* What a rollout record makes of its node, with the record named.
Moved(d, c, n, e, from, to, prev, next, r) ==
  /\ e = RecordOf(c.members[n].gen + 1, from, to, prev, next)
  /\ e.prev = prev /\ e.next = next
  /\ d.rolloutAudit[n] = Append(c.rolloutAudit[n], e) /\ d.rollouts[n] = r
  /\ \A m \in Nodes \ {n} : /\ d.rollouts[m] = c.rollouts[m]
                            /\ d.rolloutAudit[m] = c.rolloutAudit[m]

\* append_certificate_rollout_audit adds such a record.
LEMMA RecordNamed ==
  ASSUME NEW c, IsControlPlane(c), NEW d, NEW n \in Nodes, NEW from \in Phases, NEW to \in Phases,
         NEW prev \in LeafOrNone, NEW next \in LeafOrNone, NEW r,
         Moves(d, c, n, from, to, prev, next, r)
  PROVE  \E e \in RolloutRecord : Moved(d, c, n, e, from, to, prev, next, r)
<1>1. /\ c.rollouts \in [Nodes -> Rollout] /\ c.rolloutAudit \in [Nodes -> Seq(RolloutRecord)]
      /\ c.members[n].gen + 1 \in Nat
  BY ControlFields DEF Member
<1>2. PICK e : e = RecordOf(c.members[n].gen + 1, from, to, prev, next)
  OBVIOUS
<1>3. e.prev = prev /\ e.next = next /\ e \in RolloutRecord
  BY <1>1, <1>2, RecordFields
<1>4. d.rolloutAudit = [c.rolloutAudit EXCEPT ![n] = Append(@, e)]
  BY <1>2 DEF Moves, RecordOf
<1>5. /\ d.rolloutAudit[n] = Append(c.rolloutAudit[n], e)
      /\ \A m \in Nodes \ {n} : d.rolloutAudit[m] = c.rolloutAudit[m]
  BY <1>1, <1>4
<1>6. d.rollouts = [c.rollouts EXCEPT ![n] = r]
  BY DEF Moves
<1>7. d.rollouts[n] = r /\ \A m \in Nodes \ {n} : d.rollouts[m] = c.rollouts[m]
  BY <1>1, <1>6
<1> QED BY <1>2, <1>3, <1>5, <1>7 DEF Moved

\* A leaf that a command may put into the histories of a node.
Fits(c, n, x) == x = NoLeaf \/ Apart(c, n, x)

\* The leaves that fit: those of the member, of its open rollout, and new ones.
LEMMA LeavesThatFit ==
  ASSUME NEW c, IsControlPlane(c), Sound(c), NEW n \in Nodes
  PROVE  /\ Fits(c, n, NoLeaf) /\ Fits(c, n, c.members[n].tls)
         /\ c.rollouts[n].phase # "none" =>
              Fits(c, n, c.rollouts[n].prev) /\ Fits(c, n, c.rollouts[n].next)
         /\ \A x : ~PreviouslyAuthorized(c, x) => Fits(c, n, x)
<1>1. \A x : ~PreviouslyAuthorized(c, x) => Fits(c, n, x)
  BY DEF PreviouslyAuthorized, Fits, Apart
<1>2. Fits(c, n, NoLeaf)
  BY DEF Fits
<1>3. Fits(c, n, c.members[n].tls)
  BY OwnLeaves DEF Fits
<1>4. ASSUME c.rollouts[n].phase # "none"
      PROVE  Fits(c, n, c.rollouts[n].prev) /\ Fits(c, n, c.rollouts[n].next)
  <2>1. Fits(c, n, c.rollouts[n].prev)
    BY <1>4, OwnLeaves DEF Fits
  <2>2. Fits(c, n, c.rollouts[n].next)
    BY <1>4, OwnLeaves DEF Fits
  <2> QED BY <2>1, <2>2
<1> QED BY <1>1, <1>2, <1>3, <1>4

\* A revision with a leaf that fits, and a rollout record with leaves that fit,
\* keep the histories of the nodes apart.
LEMMA LeavesStayApart ==
  ASSUME NEW c, IsControlPlane(c), Sound(c), NEW d, NEW n \in Nodes,
         NEW state, NEW leaf, NEW v \in Revision, Revised(d, c, n, v, state, leaf),
         NEW e \in RolloutRecord, Fits(c, n, leaf), Fits(c, n, e.prev), Fits(c, n, e.next),
         \/ d.rolloutAudit[n] = c.rolloutAudit[n]
         \/ d.rolloutAudit[n] = Append(c.rolloutAudit[n], e)
  PROVE  \A x \in LeavesOf(d, n) : Apart(c, n, x)
<1> SUFFICES ASSUME NEW x \in LeavesOf(d, n) PROVE Apart(c, n, x)
  OBVIOUS
<1>1. c.memberAudit[n] \in Seq(Revision) /\ c.rolloutAudit[n] \in Seq(RolloutRecord)
  BY ControlFields
<1>2. /\ d.memberAudit[n] = Append(c.memberAudit[n], v) /\ v.tls = leaf
      /\ v.prevTls = c.members[n].tls
  BY DEF Revised
<1>3. Mentions(d.memberAudit[n], d.rolloutAudit[n], x) /\ x # NoLeaf
  BY LeavesAre DEF Mentions
<1>4. PICK m, h, k, f : /\ m = c.memberAudit[n] /\ h = c.rolloutAudit[n]
                        /\ k = d.memberAudit[n] /\ f = d.rolloutAudit[n]
  OBVIOUS
<1>5. /\ m \in Seq(Revision) /\ h \in Seq(RolloutRecord) /\ k = Append(m, v)
      /\ f = h \/ f = Append(h, e)
      /\ Mentions(k, f, x)
  BY <1>1, <1>2, <1>3, <1>4
<1>6. \/ Mentions(m, h, x) \/ x \in {v.prevTls, v.tls}
      \/ f # h /\ x \in {e.prev, e.next}
  BY <1>5, MentionsGrow
<1>7. CASE Mentions(m, h, x)
  <2>1. x \in LeavesOf(c, n)
    BY <1>4, <1>7, LeavesAre
  <2> QED BY <2>1 DEF Apart, Sound
<1>8. Fits(c, n, c.members[n].tls)
  BY LeavesThatFit
<1> QED BY <1>2, <1>3, <1>6, <1>7, <1>8 DEF Fits

\* A revision without a rollout record.
LEMMA RevisedAlone ==
  ASSUME NEW c, IsControlPlane(c), Sound(c), NEW d, IsControlPlane(d), NEW n \in Nodes,
         NEW state \in MemberStates, NEW leaf \in LeafOrNone, NEW v \in Revision,
         Revised(d, c, n, v, state, leaf),
         c.members[n].state # "revoked", c.members[n].state = "none" => state = "active",
         c.members[n].tls # NoLeaf => leaf # NoLeaf,
         c.rollouts[n].phase = "none", d.rollouts[n] = NoRollout,
         \A m \in Nodes \ {n} : d.rollouts[m] = c.rollouts[m],
         d.rolloutAudit = c.rolloutAudit,
         leaf = c.members[n].tls \/ \A i \in DOMAIN c.rolloutAudit[n] :
                                       c.rolloutAudit[n][i].next # leaf,
         Fits(c, n, leaf),
         \A a \in Agents : ValidOwner(d.owned[a], d.ownAudit[a], d.time)
  PROVE  Sound(d)
<1>1. PICK member, m, h, r, k : /\ member = c.members[n] /\ m = c.memberAudit[n]
                                /\ h = c.rolloutAudit[n] /\ r = c.rollouts[n]
                                /\ k = d.memberAudit[n]
  OBVIOUS
<1>2. /\ member \in Member /\ m \in Seq(Revision) /\ h \in Seq(RolloutRecord)
      /\ ValidMember(member, m) /\ RolloutInv(r, h, member, m)
  BY <1>1, ControlFields DEF Sound, ValidNode
<1>3. /\ v = RevisionOf(member, state, leaf) /\ v.tls = leaf /\ k = Append(m, v)
      /\ d.members[n] = [state |-> state, gen |-> member.gen + 1, tls |-> leaf]
      /\ \A i \in Nodes \ {n} : d.members[i] = c.members[i] /\ d.memberAudit[i] = c.memberAudit[i]
  BY <1>1 DEF Revised
<1>4. ValidMember([state |-> state, gen |-> member.gen + 1, tls |-> leaf], k)
  BY <1>1, <1>2, <1>3, MemberStaysValid
<1>9. /\ r.phase = "none"
      /\ v.tls = member.tls \/ \A i \in DOMAIN h : h[i].next # v.tls
  BY <1>1, <1>3
<1>5. RolloutInv(NoRollout, h, d.members[n], k)
  <2>1. k = Append(m, v)
    BY <1>3
  <2> QED BY <1>2, <1>9, <2>1, RolloutUntouched
<1>6. ValidNode(d, n)
  BY <1>1, <1>3, <1>4, <1>5 DEF ValidNode
<1>7. \A x \in LeavesOf(d, n) : Apart(c, n, x)
  <2>1. PICK e : e = RecordOf(0, "none", "none", NoLeaf, NoLeaf)
    OBVIOUS
  <2>2. e \in RolloutRecord /\ e.prev = NoLeaf /\ e.next = NoLeaf
    BY <2>1, RecordFields DEF Phases, LeafOrNone
  <2>3. Fits(c, n, e.prev) /\ Fits(c, n, e.next)
    BY <2>2 DEF Fits
  <2> QED BY <2>2, <2>3, LeavesStayApart
<1>8. \A i \in Nodes \ {n} : SameNode(d, c, i)
  BY <1>3 DEF SameNode
<1> QED BY <1>6, <1>7, <1>8, NodeChanged

\* A revision with its rollout record.
LEMMA RevisedMoved ==
  ASSUME NEW c, IsControlPlane(c), Sound(c), NEW d, NEW n \in Nodes,
         NEW state \in MemberStates, NEW leaf \in LeafOrNone, NEW v \in Revision,
         Revised(d, c, n, v, state, leaf),
         c.members[n].state # "revoked", c.members[n].state # "none",
         c.members[n].tls # NoLeaf => leaf # NoLeaf,
         NEW from, NEW to, NEW prev, NEW next, NEW r, NEW e \in RolloutRecord,
         Moved(d, c, n, e, from, to, prev, next, r),
         RolloutInv(r, d.rolloutAudit[n], d.members[n], d.memberAudit[n]),
         Fits(c, n, leaf), Fits(c, n, prev), Fits(c, n, next),
         \A a \in Agents : ValidOwner(d.owned[a], d.ownAudit[a], d.time)
  PROVE  Sound(d)
<1>1. PICK member, m, k : member = c.members[n] /\ m = c.memberAudit[n] /\ k = d.memberAudit[n]
  OBVIOUS
<1>2. member \in Member /\ m \in Seq(Revision) /\ ValidMember(member, m)
  BY <1>1, ControlFields DEF Sound, ValidNode
<1>3. /\ v = RevisionOf(member, state, leaf) /\ k = Append(m, v)
      /\ d.members[n] = [state |-> state, gen |-> member.gen + 1, tls |-> leaf]
      /\ \A i \in Nodes \ {n} : d.members[i] = c.members[i] /\ d.memberAudit[i] = c.memberAudit[i]
  BY <1>1 DEF Revised
<1>4. ValidMember([state |-> state, gen |-> member.gen + 1, tls |-> leaf], k)
  BY <1>1, <1>2, <1>3, MemberStaysValid
<1>5. /\ e.prev = prev /\ e.next = next /\ d.rollouts[n] = r
      /\ d.rolloutAudit[n] = Append(c.rolloutAudit[n], e)
      /\ \A i \in Nodes \ {n} : /\ d.rollouts[i] = c.rollouts[i]
                                /\ d.rolloutAudit[i] = c.rolloutAudit[i]
  BY DEF Moved
<1>6. ValidNode(d, n)
  BY <1>1, <1>3, <1>4, <1>5 DEF ValidNode
<1>7. \A x \in LeavesOf(d, n) : Apart(c, n, x)
  <2>1. Fits(c, n, e.prev) /\ Fits(c, n, e.next)
    BY <1>5
  <2> QED BY <1>5, <2>1, LeavesStayApart
<1>8. \A i \in Nodes \ {n} : SameNode(d, c, i)
  BY <1>3, <1>5 DEF SameNode
<1> QED BY <1>6, <1>7, <1>8, NodeChanged

\* What a node's records are, and that its part of the invariant holds.
NodeFacts(c, n, member, m, r, h) ==
  /\ member = c.members[n] /\ m = c.memberAudit[n]
  /\ r = c.rollouts[n] /\ h = c.rolloutAudit[n]
  /\ member \in Member /\ m \in Seq(Revision) /\ r \in Rollout /\ h \in Seq(RolloutRecord)
  /\ ValidMember(member, m) /\ RolloutInv(r, h, member, m)

\* Names for the member, the rollout and the two histories of a node.
LEMMA NodeNamed ==
  ASSUME NEW c, IsControlPlane(c), Sound(c), NEW n \in Nodes
  PROVE  \E member, m, r, h : NodeFacts(c, n, member, m, r, h)
<1>1. /\ c.members[n] \in Member /\ c.memberAudit[n] \in Seq(Revision)
      /\ c.rollouts[n] \in Rollout /\ c.rolloutAudit[n] \in Seq(RolloutRecord)
  BY ControlFields
<1>2. /\ ValidMember(c.members[n], c.memberAudit[n])
      /\ RolloutInv(c.rollouts[n], c.rolloutAudit[n], c.members[n], c.memberAudit[n])
  BY DEF Sound, ValidNode
<1>3. NodeFacts(c, n, c.members[n], c.memberAudit[n], c.rollouts[n], c.rolloutAudit[n])
  BY <1>1, <1>2 DEF NodeFacts
<1> QED BY <1>3

\* Closing a rollout: apply_finish_member_certificate_rollout, and the
\* revocation of a member with an open rollout.
LEMMA ClosedSound ==
  ASSUME NEW c, IsControlPlane(c), Sound(c), NEW d, NEW n \in Nodes,
         NEW state \in {"active", "revoked"}, NEW now,
         Revises(d, c, n, state, c.members[n].tls, now),
         c.members[n].state # "revoked", c.members[n].state # "none",
         c.rollouts[n].phase # "none",
         Moves(d, c, n, c.rollouts[n].phase, "none", c.rollouts[n].prev, c.rollouts[n].next,
               NoRollout),
         \A a \in Agents : ValidOwner(d.owned[a], d.ownAudit[a], d.time)
  PROVE  Sound(d)
<1>1. PICK member, m, r, h : NodeFacts(c, n, member, m, r, h)
  BY NodeNamed
<1>2. /\ member = c.members[n] /\ m = c.memberAudit[n]
      /\ r = c.rollouts[n] /\ h = c.rolloutAudit[n]
      /\ member \in Member /\ m \in Seq(Revision) /\ r \in Rollout /\ h \in Seq(RolloutRecord)
      /\ ValidMember(member, m) /\ RolloutInv(r, h, member, m)
  BY <1>1 DEF NodeFacts
<1>3. /\ member.tls \in LeafOrNone /\ r.prev \in LeafOrNone /\ r.next \in LeafOrNone
      /\ r.phase \in Phases /\ "none" \in Phases /\ state \in MemberStates
  BY <1>2 DEF Member, Rollout, Phases, MemberStates
<1>4. PICK v \in Revision : Revised(d, c, n, v, state, member.tls)
  <2>1. Revises(d, c, n, state, member.tls, now)
    BY <1>2
  <2> QED BY <1>3, <2>1, RevisionNamed
<1>5. PICK e \in RolloutRecord : Moved(d, c, n, e, r.phase, "none", r.prev, r.next, NoRollout)
  <2>1. Moves(d, c, n, r.phase, "none", r.prev, r.next, NoRollout)
    BY <1>2
  <2> QED BY <1>3, <2>1, RecordNamed
<1>6. PICK k, f, other : k = d.memberAudit[n] /\ f = d.rolloutAudit[n] /\ other = d.members[n]
  OBVIOUS
<1>7. /\ k = Append(m, v) /\ v.tls = member.tls /\ v.state = state
  BY <1>2, <1>4, <1>6 DEF Revised
<1>8. f = Append(h, e) /\ e = RecordOf(member.gen + 1, r.phase, "none", r.prev, r.next)
  BY <1>2, <1>5, <1>6 DEF Moved
<1>9. Closes(r, member, v, e)
  BY <1>2, <1>7, <1>8 DEF Closes
<1>10. RolloutInv(NoRollout, f, other, k)
  <2>1. k = Append(m, v)
    BY <1>7
  <2>2. f = Append(h, e)
    BY <1>8
  <2> QED BY <1>2, <1>9, <2>1, <2>2, RolloutClosed
<1>11. Fits(c, n, member.tls) /\ Fits(c, n, r.prev) /\ Fits(c, n, r.next)
  BY <1>2, LeavesThatFit
<1>12. RolloutInv(NoRollout, d.rolloutAudit[n], d.members[n], d.memberAudit[n])
  BY <1>6, <1>10
<1>13. c.members[n].tls # NoLeaf => member.tls # NoLeaf
  BY <1>2
<1> QED BY <1>3, <1>4, <1>5, <1>11, <1>12, <1>13, RevisedMoved

\* apply_prepare_member_certificate_rollout.
LEMMA PreparedSound ==
  ASSUME NEW c, IsControlPlane(c), Sound(c), NEW d, NEW n \in Nodes, NEW now,
         NEW leaf \in Leaves, NEW s \in Rollout,
         s.phase = "prepared", s.gen = c.members[n].gen + 1, s.prev = c.members[n].tls,
         s.next = leaf,
         c.members[n].state = "active", c.rollouts[n].phase = "none",
         leaf # c.members[n].tls, ~PreviouslyAuthorized(c, leaf),
         Revises(d, c, n, "active", c.members[n].tls, now),
         Moves(d, c, n, "none", "prepared", c.members[n].tls, leaf, s),
         \A a \in Agents : ValidOwner(d.owned[a], d.ownAudit[a], d.time)
  PROVE  Sound(d)
<1>1. PICK member, m, r, h : NodeFacts(c, n, member, m, r, h)
  BY NodeNamed
<1>2. /\ member = c.members[n] /\ m = c.memberAudit[n]
      /\ r = c.rollouts[n] /\ h = c.rolloutAudit[n]
      /\ member \in Member /\ m \in Seq(Revision) /\ r \in Rollout /\ h \in Seq(RolloutRecord)
      /\ ValidMember(member, m) /\ RolloutInv(r, h, member, m)
  BY <1>1 DEF NodeFacts
<1>3. /\ member.tls \in LeafOrNone /\ leaf \in LeafOrNone /\ leaf # NoLeaf
      /\ "prepared" \in Phases /\ "none" \in Phases /\ "active" \in MemberStates
  BY <1>2, AuthorityConstants DEF Member, Phases, MemberStates, LeafOrNone
<1>4. PICK v \in Revision : Revised(d, c, n, v, "active", member.tls)
  <2>1. Revises(d, c, n, "active", member.tls, now)
    BY <1>2
  <2> QED BY <1>3, <2>1, RevisionNamed
<1>5. PICK e \in RolloutRecord : Moved(d, c, n, e, "none", "prepared", member.tls, leaf, s)
  <2>1. Moves(d, c, n, "none", "prepared", member.tls, leaf, s)
    BY <1>2
  <2> QED BY <1>3, <2>1, RecordNamed
<1>6. PICK k, f, other : k = d.memberAudit[n] /\ f = d.rolloutAudit[n] /\ other = d.members[n]
  OBVIOUS
<1>7. /\ k = Append(m, v) /\ v.tls = member.tls /\ v.state = "active"
      /\ other.state = "active" /\ other.gen = member.gen + 1 /\ other.tls = member.tls
  BY <1>2, <1>4, <1>6 DEF Revised
<1>8. f = Append(h, e) /\ e = RecordOf(member.gen + 1, "none", "prepared", member.tls, leaf)
  BY <1>2, <1>5, <1>6 DEF Moved
<1>9. /\ \A g \in DOMAIN m : m[g].tls # leaf
      /\ \A i \in DOMAIN h : h[i].next # leaf
  <2>1. leaf \notin LeavesOf(c, n)
    BY DEF PreviouslyAuthorized
  <2>2. ~Mentions(m, h, leaf)
    BY <1>2, <2>1, LeavesAre
  <2> QED BY <1>3, <2>2 DEF Mentions
<1>10. Opens(r, h, member, m, leaf, v, e, s, other)
  BY <1>2, <1>7, <1>8, <1>9 DEF Opens
<1>11. RolloutInv(s, f, other, k)
  <2>1. k = Append(m, v)
    BY <1>7
  <2>2. f = Append(h, e)
    BY <1>8
  <2> QED BY <1>2, <1>10, <2>1, <2>2, RolloutPrepared
<1>12. Fits(c, n, member.tls) /\ Fits(c, n, leaf)
  BY <1>2, LeavesThatFit
<1>13. RolloutInv(s, d.rolloutAudit[n], d.members[n], d.memberAudit[n])
  BY <1>6, <1>11
<1>14. /\ c.members[n].tls # NoLeaf => member.tls # NoLeaf
       /\ c.members[n].state # "revoked" /\ c.members[n].state # "none"
  BY <1>2
<1> QED BY <1>3, <1>4, <1>5, <1>12, <1>13, <1>14, RevisedMoved

\* apply_register_member of the candidate of a prepared rollout.
LEMMA ActivatedSound ==
  ASSUME NEW c, IsControlPlane(c), Sound(c), NEW d, NEW n \in Nodes, NEW now, NEW s \in Rollout,
         s.phase = "activated", s.gen = c.members[n].gen + 1, s.prev = c.rollouts[n].prev,
         s.next = c.rollouts[n].next,
         c.members[n].state = "active", c.rollouts[n].phase = "prepared",
         c.members[n].tls # NoLeaf => c.rollouts[n].next # NoLeaf,
         Revises(d, c, n, "active", c.rollouts[n].next, now),
         Moves(d, c, n, "prepared", "activated", c.rollouts[n].prev, c.rollouts[n].next, s),
         \A a \in Agents : ValidOwner(d.owned[a], d.ownAudit[a], d.time)
  PROVE  Sound(d)
<1>1. PICK member, m, r, h : NodeFacts(c, n, member, m, r, h)
  BY NodeNamed
<1>2. /\ member = c.members[n] /\ m = c.memberAudit[n]
      /\ r = c.rollouts[n] /\ h = c.rolloutAudit[n]
      /\ member \in Member /\ m \in Seq(Revision) /\ r \in Rollout /\ h \in Seq(RolloutRecord)
      /\ ValidMember(member, m) /\ RolloutInv(r, h, member, m)
  BY <1>1 DEF NodeFacts
<1>3. /\ r.prev \in LeafOrNone /\ r.next \in LeafOrNone
      /\ "prepared" \in Phases /\ "activated" \in Phases /\ "active" \in MemberStates
  BY <1>2 DEF Rollout, Phases, MemberStates
<1>4. PICK v \in Revision : Revised(d, c, n, v, "active", r.next)
  <2>1. Revises(d, c, n, "active", r.next, now)
    BY <1>2
  <2> QED BY <1>3, <2>1, RevisionNamed
<1>5. PICK e \in RolloutRecord : Moved(d, c, n, e, "prepared", "activated", r.prev, r.next, s)
  <2>1. Moves(d, c, n, "prepared", "activated", r.prev, r.next, s)
    BY <1>2
  <2> QED BY <1>3, <2>1, RecordNamed
<1>6. PICK k, f, other : k = d.memberAudit[n] /\ f = d.rolloutAudit[n] /\ other = d.members[n]
  OBVIOUS
<1>7. /\ k = Append(m, v) /\ v.tls = r.next /\ v.state = "active"
      /\ other.state = "active" /\ other.gen = member.gen + 1 /\ other.tls = r.next
  BY <1>2, <1>4, <1>6 DEF Revised
<1>8. f = Append(h, e) /\ e = RecordOf(member.gen + 1, "prepared", "activated", r.prev, r.next)
  BY <1>2, <1>5, <1>6 DEF Moved
<1>9. ActivatesBy(r, member, v, e, s, other)
  BY <1>2, <1>7, <1>8 DEF ActivatesBy
<1>10. RolloutInv(s, f, other, k)
  <2>1. k = Append(m, v)
    BY <1>7
  <2>2. f = Append(h, e)
    BY <1>8
  <2> QED BY <1>2, <1>9, <2>1, <2>2, RolloutActivated
<1>11. Fits(c, n, r.prev) /\ Fits(c, n, r.next)
  BY <1>2, LeavesThatFit
<1>12. RolloutInv(s, d.rolloutAudit[n], d.members[n], d.memberAudit[n])
  BY <1>6, <1>10
<1>13. /\ c.members[n].tls # NoLeaf => r.next # NoLeaf
       /\ c.members[n].state # "revoked" /\ c.members[n].state # "none"
  BY <1>2
<1> QED BY <1>3, <1>4, <1>5, <1>11, <1>12, <1>13, RevisedMoved

\* A claim, a renewal or a release changes the record of one agent.
LEMMA OwnerMoved ==
  ASSUME NEW c, IsControlPlane(c), Sound(c), NEW a \in Agents, NEW o \in Owner,
         NEW operation \in {"claim", "transfer", "renew", "release"},
         NEW now \in Nat, now > c.time, OwnerMove(c.owned[a], o, operation, now),
         NEW d, Owns(d, c, a, o, operation)
  PROVE  Sound(d)
<1>1. /\ c.owned \in [Agents -> Owner] /\ c.ownAudit \in [Agents -> Seq(OwnRecord)]
      /\ c.time \in Nat
  BY ControlFields
<1>2. PICK p, h : p = c.owned[a] /\ h = c.ownAudit[a]
  OBVIOUS
<1>3. p \in Owner /\ h \in Seq(OwnRecord) /\ ValidOwner(p, h, c.time)
  BY <1>1, <1>2 DEF Sound
<1>4. PICK e : e = AuditOf(p, o, operation)
  OBVIOUS
<1>5. PICK k : k = Append(h, e)
  OBVIOUS
<1>6. OwnerMove(p, o, operation, now)
  BY <1>2
<1>7. ValidOwner(o, k, now)
  BY <1>1, <1>3, <1>4, <1>5, <1>6, OwnerStaysValid
<1>8. d.time = now /\ d.owned = [c.owned EXCEPT ![a] = o]
  BY DEF Owns, OwnerMove
<1>9. d.ownAudit = [c.ownAudit EXCEPT ![a] = Append(@, e)]
  BY <1>2, <1>4 DEF Owns, AuditOf
<1>10. d.owned[a] = o /\ d.ownAudit[a] = k
  BY <1>1, <1>2, <1>5, <1>8, <1>9
<1>11. ASSUME NEW b \in Agents, b # a PROVE ValidOwner(d.owned[b], d.ownAudit[b], now)
  <2>1. d.owned[b] = c.owned[b] /\ d.ownAudit[b] = c.ownAudit[b]
    BY <1>1, <1>8, <1>9, <1>11
  <2>2. c.owned[b] \in Owner /\ ValidOwner(c.owned[b], c.ownAudit[b], c.time)
    BY <1>1 DEF Sound
  <2>3. ValidOwner(c.owned[b], c.ownAudit[b], now)
    BY <1>1, <2>2, OwnerWaits
  <2> QED BY <2>1, <2>3
<1>12. \A b \in Agents : ValidOwner(d.owned[b], d.ownAudit[b], d.time)
  BY <1>7, <1>8, <1>10, <1>11
<1>13. SameRegistry(d, c)
  BY DEF Owns, SameRegistry
<1> QED BY <1>12, <1>13, NodesKept

\* The loop over the leases of a revoked member releases each of them.
LEMMA OwnersFreed ==
  ASSUME NEW c, IsControlPlane(c), Sound(c), NEW n \in Nodes, NEW now \in Nat, now > c.time,
         term \in Nat, \A a \in Agents : c.owned[a].term <= term,
         NEW d, IsControlPlane(d), d.time = now, Frees(d, c, LiveLeases(c, n, now), n, now)
  PROVE  \A a \in Agents : ValidOwner(d.owned[a], d.ownAudit[a], d.time)
<1> SUFFICES ASSUME NEW a \in Agents PROVE ValidOwner(d.owned[a], d.ownAudit[a], now)
  OBVIOUS
<1>1. PICK o, p, h, k : /\ o = c.owned[a] /\ h = c.ownAudit[a]
                        /\ p = d.owned[a] /\ k = d.ownAudit[a]
  OBVIOUS
<1>2. /\ o \in Owner /\ p \in Owner /\ h \in Seq(OwnRecord) /\ c.time \in Nat
      /\ ValidOwner(o, h, c.time) /\ o.term <= term
  BY <1>1, ControlFields DEF Sound
<1>3. CASE a \in LiveLeases(c, n, now)
  <2>1. o.owner = n /\ o.state = "active"
    BY <1>1, <1>3 DEF LiveLeases
  <2>2. p = [owner |-> o.owner, term |-> term, token |-> o.token, gen |-> o.gen + 1,
             state |-> "released", lease |-> now, updated |-> now]
    BY <1>1, <1>3 DEF Frees
  <2>3. /\ p.owner = o.owner /\ p.term = term /\ p.token = o.token /\ p.gen = o.gen + 1
        /\ p.state = "released" /\ p.lease = now /\ p.updated = now
    BY <2>2
  <2>4. o.term \in Nat
    BY <1>2 DEF Owner
  <2>5. OwnerMove(o, p, "release", now)
    BY <1>2, <2>1, <2>3, <2>4 DEF OwnerMove
  <2>6. PICK e : e = AuditOf(o, p, "release")
    OBVIOUS
  <2>7. k = Append(h, [gen |-> o.gen + 1, prevOwner |-> n, owner |-> n, term |-> term,
                       token |-> o.token, op |-> "release"])
    BY <1>1, <1>3 DEF Frees
  <2>8. e = [gen |-> o.gen + 1, prevOwner |-> n, owner |-> n, term |-> term,
             token |-> o.token, op |-> "release"]
    BY <2>1, <2>3, <2>6 DEF AuditOf
  <2>9. k = Append(h, e)
    BY <2>7, <2>8
  <2>10. ValidOwner(p, k, now)
    BY <1>2, <2>5, <2>6, <2>9, OwnerStaysValid
  <2> QED BY <1>1, <2>10
<1>4. CASE a \notin LiveLeases(c, n, now)
  <2>1. p = o /\ k = h
    BY <1>1, <1>4 DEF Frees
  <2>2. ValidOwner(o, h, now)
    BY <1>2, OwnerWaits
  <2> QED BY <1>1, <2>1, <2>2
<1> QED BY <1>3, <1>4

\* The initial state of a cluster: every seed has one revision.
LEMMA SeedsSound ==
  ASSUME NEW c, NEW d, IsControlPlane(c), IsControlPlane(d), Sound(c),
         \A n \in Nodes : c.rollouts[n] = NoRollout /\ c.rolloutAudit[n] = <<>>,
         d.members = [n \in Nodes |->
            IF n \in DOMAIN GenesisLeaf
              THEN [state |-> "active", gen |-> 1, tls |-> GenesisLeaf[n]]
              ELSE NoMember],
         d.memberAudit = [n \in Nodes |->
            IF n \in DOMAIN GenesisLeaf
              THEN <<[gen |-> 1, prevState |-> "none", state |-> "active",
                      prevTls |-> NoLeaf, tls |-> GenesisLeaf[n]]>>
              ELSE <<>>],
         d.rollouts = c.rollouts, d.rolloutAudit = c.rolloutAudit,
         \A a \in Agents : ValidOwner(d.owned[a], d.ownAudit[a], d.time)
  PROVE  Sound(d)
<1>1. ASSUME NEW n \in Nodes PROVE ValidNode(d, n)
  <2>1. RolloutInv(NoRollout, <<>>, d.members[n], d.memberAudit[n])
    BY DEF RolloutInv, CurrentRollout, NoRollout
  <2>2. d.rollouts[n] = NoRollout /\ d.rolloutAudit[n] = <<>>
    OBVIOUS
  <2>3. CASE n \notin DOMAIN GenesisLeaf
    <3>1. d.members[n] = NoMember /\ d.memberAudit[n] = <<>>
      BY <2>3
    <3> QED BY <2>1, <2>2, <3>1 DEF ValidNode, ValidMember, CurrentMember
  <2>4. CASE n \in DOMAIN GenesisLeaf
    <3>1. PICK v : v = [gen |-> 1, prevState |-> "none", state |-> "active",
                        prevTls |-> NoLeaf, tls |-> GenesisLeaf[n]]
      OBVIOUS
    <3>2. d.memberAudit[n] = <<v>>
      BY <2>4, <3>1
    <3>3. d.members[n] = [state |-> "active", gen |-> 1, tls |-> GenesisLeaf[n]]
      BY <2>4
    <3>4. v.gen = 1 /\ v.prevState = "none" /\ v.state = "active" /\ v.prevTls = NoLeaf
          /\ v.tls = GenesisLeaf[n]
      BY <3>1
    <3>5. /\ DOMAIN <<v>> = {1} /\ <<v>>[1] = v /\ <<v>> # <<>> /\ Last(<<v>>) = v
      BY DEF Last
    <3>6. CurrentMember(<<v>>) = [state |-> "active", gen |-> 1, tls |-> GenesisLeaf[n]]
      BY <3>4, <3>5 DEF CurrentMember
    <3>7. \A g \in DOMAIN <<v>> : RevisionFollows(<<v>>, g)
      BY <3>4, <3>5 DEF RevisionFollows
    <3>8. ValidMember(d.members[n], d.memberAudit[n])
      BY <3>2, <3>3, <3>6, <3>7 DEF ValidMember
    <3> QED BY <2>1, <2>2, <3>8 DEF ValidNode
  <2> QED BY <2>3, <2>4
<1>2. ASSUME NEW n \in Nodes, NEW x \in LeavesOf(d, n)
      PROVE  n \in DOMAIN GenesisLeaf /\ x = GenesisLeaf[n] /\ x # NoLeaf
  <2>1. Mentions(d.memberAudit[n], d.rolloutAudit[n], x)
    BY <1>2, LeavesAre
  <2>2. d.rolloutAudit[n] = <<>> /\ DOMAIN <<>> = {}
    OBVIOUS
  <2>3. PICK g \in DOMAIN d.memberAudit[n] :
          x = d.memberAudit[n][g].prevTls \/ x = d.memberAudit[n][g].tls
    BY <2>1, <2>2 DEF Mentions
  <2>4. n \in DOMAIN GenesisLeaf
    BY <2>2, <2>3
  <2>5. PICK v : v = [gen |-> 1, prevState |-> "none", state |-> "active",
                      prevTls |-> NoLeaf, tls |-> GenesisLeaf[n]]
    OBVIOUS
  <2>6. d.memberAudit[n] = <<v>> /\ v.prevTls = NoLeaf /\ v.tls = GenesisLeaf[n]
    BY <2>4, <2>5
  <2>7. d.memberAudit[n][g] = v
    BY <2>3, <2>6
  <2> QED BY <2>1, <2>3, <2>4, <2>6, <2>7 DEF Mentions
<1>3. \A n \in Nodes : \A m \in Nodes \ {n} : LeavesOf(d, n) \cap LeavesOf(d, m) = {}
  BY <1>2, AuthorityConstants
<1> QED BY <1>1, <1>3 DEF Sound

-----------------------------------------------------------------------------
(* No command leads to a state that its own store refuses.                 *)

\* A command whose result is sound is written.
LEMMA SoundCommits ==
  ASSUME TypeOK, NEW op, Fresh(op), NEW cmd \in Command, NEW next, IsControlPlane(next),
         Commit(op, cmd, next), Sound(next)
  PROVE  ValidInv'
<1>1. Valid(next)
  BY SoundIsValid
<1>2. halted' = FALSE /\ control' = next
  BY <1>1, CommitFacts
<1> QED BY <1>2 DEF ValidInv

\* apply_claim_ownership, apply_renew_ownership and apply_release_ownership.
LEMMA ClaimSound ==
  ASSUME LeaseInv, ValidInv, NEW op, NEW a \in Agents, NEW n \in Nodes, NEW expected \in Nat,
         ClaimOwnership(op, a, n, expected)
  PROVE  ValidInv'
<1>1. TypeOK /\ Sound(control) /\ IsControlPlane(control) /\ control.owned[a].term <= term
  BY DEF LeaseInv, ValidInv, TypeOK, TermsReached
<1>2. Fresh(op)
  BY <1>1, ClaimOutcome
<1>3. PICK now, o, next :
        /\ now \in Nat /\ o \in Owner
        /\ now > control.time /\ Available(control.owned[a], now)
        /\ o = [owner |-> n, term |-> term, token |-> control.owned[a].token + 1,
                gen |-> control.owned[a].gen + 1, state |-> "active",
                lease |-> now + LeaseTtl, updated |-> now]
        /\ next = SetOwner(control, a, o,
                    IF control.owned[a].state = "none" THEN "claim" ELSE "transfer")
        /\ Commit(op, [kind |-> "claim", agent |-> a, node |-> n, expected |-> expected], next)
  BY <1>1, ClaimOutcome
<1> now \in Nat /\ o \in Owner
  BY <1>3
<1>4. PICK operation \in {"claim", "transfer", "renew", "release"} :
        operation = IF control.owned[a].state = "none" THEN "claim" ELSE "transfer"
  OBVIOUS
<1>5. PICK cmd : cmd = [kind |-> "claim", agent |-> a, node |-> n, expected |-> expected]
  OBVIOUS
<1>6. cmd \in Command /\ Commit(op, cmd, next)
  BY <1>3, <1>5, CommandFacts
<1>7. next = SetOwner(control, a, o, operation)
  BY <1>3, <1>4
<1>8. IsControlPlane(next) /\ Owns(next, control, a, o, operation)
  BY <1>1, <1>7, SetOwnerFacts
<1>9. /\ o.gen = control.owned[a].gen + 1 /\ o.term = term /\ o.updated = now
      /\ o.token = control.owned[a].token + 1 /\ o.state = "active" /\ o.lease = now + LeaseTtl
  BY <1>3
<1>10. term >= control.owned[a].term /\ now + LeaseTtl > now
  BY <1>1, ControlFields, AuthorityConstants DEF TypeOK, Owner
<1>11. OwnerMove(control.owned[a], o, operation, now)
  BY <1>4, <1>9, <1>10 DEF OwnerMove
<1>12. now > control.time
  BY <1>3
<1>13. Sound(next)
  BY <1>1, <1>8, <1>11, <1>12, OwnerMoved
<1> QED BY <1>1, <1>2, <1>6, <1>8, <1>13, SoundCommits

\* A renewal that is accepted leaves the control plane valid.
LEMMA RenewSound ==
  ASSUME LeaseInv, ValidInv, NEW op, NEW a \in Agents, NEW n \in Nodes, NEW token \in Nat,
         RenewOwnership(op, a, n, token)
  PROVE  ValidInv'
<1>1. TypeOK /\ Sound(control) /\ IsControlPlane(control) /\ control.owned[a].term <= term
  BY DEF LeaseInv, ValidInv, TypeOK, TermsReached
<1>2. Fresh(op) /\ Holds(control.owned[a], n, token)
  BY <1>1, RenewOutcome
<1>3. PICK now, o, next :
        /\ now \in Nat /\ o \in Owner
        /\ now > control.time /\ control.owned[a].lease > now
        /\ o = [owner |-> n, term |-> term, token |-> token,
                gen |-> control.owned[a].gen + 1, state |-> "active",
                lease |-> now + LeaseTtl, updated |-> now]
        /\ next = SetOwner(control, a, o, "renew")
        /\ Commit(op, [kind |-> "renew", agent |-> a, node |-> n, token |-> token], next)
  BY <1>1, RenewOutcome
<1> now \in Nat /\ o \in Owner
  BY <1>3
<1>4. PICK operation \in {"claim", "transfer", "renew", "release"} : operation = "renew"
  OBVIOUS
<1>5. PICK cmd : cmd = [kind |-> "renew", agent |-> a, node |-> n, token |-> token]
  OBVIOUS
<1>6. cmd \in Command /\ Commit(op, cmd, next)
  BY <1>3, <1>5, CommandFacts
<1>7. next = SetOwner(control, a, o, operation)
  BY <1>3, <1>4
<1>8. IsControlPlane(next) /\ Owns(next, control, a, o, operation)
  BY <1>1, <1>7, SetOwnerFacts
<1>9. /\ o.gen = control.owned[a].gen + 1 /\ o.term = term /\ o.updated = now /\ o.owner = n
      /\ o.token = token /\ o.state = "active" /\ o.lease = now + LeaseTtl
  BY <1>3
<1>10. /\ term >= control.owned[a].term /\ now + LeaseTtl > now
  BY <1>1, ControlFields, AuthorityConstants DEF TypeOK, Owner
<1>14. /\ control.owned[a].state = "active" /\ control.owned[a].owner = n
       /\ control.owned[a].token = token
  BY <1>2 DEF Holds
<1>11. OwnerMove(control.owned[a], o, operation, now)
  BY <1>4, <1>9, <1>10, <1>14 DEF OwnerMove
<1>12. now > control.time
  BY <1>3
<1>13. Sound(next)
  BY <1>1, <1>8, <1>11, <1>12, OwnerMoved
<1> QED BY <1>1, <1>2, <1>6, <1>8, <1>13, SoundCommits

\* A release that is accepted leaves the control plane valid.
LEMMA ReleaseSound ==
  ASSUME LeaseInv, ValidInv, NEW op, NEW a \in Agents, NEW n \in Nodes, NEW token \in Nat,
         ReleaseOwnership(op, a, n, token)
  PROVE  ValidInv'
<1>1. TypeOK /\ Sound(control) /\ IsControlPlane(control) /\ control.owned[a].term <= term
  BY DEF LeaseInv, ValidInv, TypeOK, TermsReached
<1>2. Fresh(op) /\ Holds(control.owned[a], n, token)
  BY <1>1, ReleaseOutcome
<1>3. PICK now, o, next :
        /\ now \in Nat /\ o \in Owner
        /\ now > control.time
        /\ o = [owner |-> n, term |-> term, token |-> token,
                gen |-> control.owned[a].gen + 1, state |-> "released",
                lease |-> now, updated |-> now]
        /\ next = SetOwner(control, a, o, "release")
        /\ Commit(op, [kind |-> "release", agent |-> a, node |-> n, token |-> token], next)
  BY <1>1, ReleaseOutcome
<1> now \in Nat /\ o \in Owner
  BY <1>3
<1>4. PICK operation \in {"claim", "transfer", "renew", "release"} : operation = "release"
  OBVIOUS
<1>5. PICK cmd : cmd = [kind |-> "release", agent |-> a, node |-> n, token |-> token]
  OBVIOUS
<1>6. cmd \in Command /\ Commit(op, cmd, next)
  BY <1>3, <1>5, CommandFacts
<1>7. next = SetOwner(control, a, o, operation)
  BY <1>3, <1>4
<1>8. IsControlPlane(next) /\ Owns(next, control, a, o, operation)
  BY <1>1, <1>7, SetOwnerFacts
<1>9. /\ o.gen = control.owned[a].gen + 1 /\ o.term = term /\ o.updated = now /\ o.owner = n
      /\ o.token = token /\ o.state = "released" /\ o.lease = now
  BY <1>3
<1>10. term >= control.owned[a].term
  BY <1>1, ControlFields DEF TypeOK, Owner
<1>14. /\ control.owned[a].state = "active" /\ control.owned[a].owner = n
       /\ control.owned[a].token = token
  BY <1>2 DEF Holds
<1>11. OwnerMove(control.owned[a], o, operation, now)
  BY <1>4, <1>9, <1>10, <1>14 DEF OwnerMove
<1>12. now > control.time
  BY <1>3
<1>13. Sound(next)
  BY <1>1, <1>8, <1>11, <1>12, OwnerMoved
<1> QED BY <1>1, <1>2, <1>6, <1>8, <1>13, SoundCommits

\* apply_prepare_member_certificate_rollout.
LEMMA PrepareSound ==
  ASSUME LeaseInv, ValidInv, NEW op, NEW n \in Nodes, PrepareRollout(op, n)
  PROVE  ValidInv'
<1>1. TypeOK /\ Sound(control) /\ IsControlPlane(control)
  BY DEF LeaseInv, ValidInv, TypeOK
<1>2. Fresh(op) /\ control.members[n].state = "active" /\ control.rollouts[n].phase = "none"
  BY <1>1, PrepareOutcome
<1>3. PICK now, leaf, ch, r, next :
        /\ now \in Nat /\ leaf \in Leaves /\ ch \in OpIds /\ r \in Rollout
        /\ now > control.time
        /\ leaf # control.members[n].tls /\ ~PreviouslyAuthorized(control, leaf)
        /\ r = [phase |-> "prepared", gen |-> control.members[n].gen + 1,
                prev |-> control.members[n].tls, next |-> leaf,
                expires |-> now + PrepareTtl, retireAfter |-> 0]
        /\ IsControlPlane(next)
        /\ Revises(next, control, n, "active", control.members[n].tls, now)
        /\ Moves(next, control, n, "none", "prepared", control.members[n].tls, leaf, r)
        /\ SameLeases(next, control)
        /\ Commit(op, [kind |-> "prepare", node |-> n, leaf |-> leaf, challenge |-> ch], next)
  BY <1>1, PrepareOutcome
<1> now \in Nat /\ leaf \in Leaves /\ ch \in OpIds /\ r \in Rollout
  BY <1>3
<1>4. PICK cmd : cmd = [kind |-> "prepare", node |-> n, leaf |-> leaf, challenge |-> ch]
  OBVIOUS
<1>5. cmd \in Command /\ Commit(op, cmd, next)
  BY <1>3, <1>4, CommandFacts DEF LeafOrNone
<1>6. next.time = now /\ next.time \in Nat /\ next.time >= control.time
  BY <1>1, <1>3, ControlFields DEF Revises
<1>7. \A a \in Agents : ValidOwner(next.owned[a], next.ownAudit[a], next.time)
  BY <1>1, <1>3, <1>6, OwnersKept
<1>8. /\ r.phase = "prepared" /\ r.gen = control.members[n].gen + 1
      /\ r.prev = control.members[n].tls /\ r.next = leaf
  BY <1>3
<1>9. /\ leaf # control.members[n].tls /\ ~PreviouslyAuthorized(control, leaf)
      /\ IsControlPlane(next)
      /\ Revises(next, control, n, "active", control.members[n].tls, now)
      /\ Moves(next, control, n, "none", "prepared", control.members[n].tls, leaf, r)
  BY <1>3
<1>10. Sound(next)
  BY <1>1, <1>2, <1>7, <1>8, <1>9, PreparedSound
<1> QED BY <1>1, <1>2, <1>5, <1>9, <1>10, SoundCommits

\* apply_finish_member_certificate_rollout.
LEMMA FinishSound ==
  ASSUME LeaseInv, ValidInv, NEW op, NEW n \in Nodes, NEW finish \in {"abort", "finalize"},
         FinishRollout(op, n, finish)
  PROVE  ValidInv'
<1>1. TypeOK /\ Sound(control) /\ IsControlPlane(control)
  BY DEF LeaseInv, ValidInv, TypeOK
<1>2. Fresh(op) /\ control.members[n].state = "active" /\ control.rollouts[n].phase # "none"
  BY <1>1, FinishOutcome
<1>3. PICK now, next :
        /\ now \in Nat
        /\ now > control.time /\ IsControlPlane(next)
        /\ Revises(next, control, n, "active", control.members[n].tls, now)
        /\ Moves(next, control, n, control.rollouts[n].phase, "none",
                 control.rollouts[n].prev, control.rollouts[n].next, NoRollout)
        /\ SameLeases(next, control)
        /\ Commit(op, [kind |-> finish, node |-> n], next)
  BY <1>1, FinishOutcome
<1> now \in Nat
  BY <1>3
<1>4. PICK cmd : cmd = [kind |-> finish, node |-> n]
  OBVIOUS
<1>5. cmd \in Command /\ Commit(op, cmd, next) /\ IsControlPlane(next)
  BY <1>3, <1>4, CommandFacts
<1>6. next.time = now /\ next.time \in Nat /\ next.time >= control.time
  BY <1>1, <1>3, ControlFields DEF Revises
<1>7. \A a \in Agents : ValidOwner(next.owned[a], next.ownAudit[a], next.time)
  BY <1>1, <1>3, <1>6, OwnersKept
<1>8. Sound(next)
  BY <1>1, <1>2, <1>3, <1>7, ClosedSound
<1> QED BY <1>1, <1>2, <1>5, <1>8, SoundCommits

\* apply_set_member_state.
LEMMA SetStateSound ==
  ASSUME LeaseInv, ValidInv, NEW op, NEW n \in Nodes, NEW state \in {"left", "revoked"},
         SetMemberState(op, n, state)
  PROVE  ValidInv'
<1>1. /\ TypeOK /\ Sound(control) /\ IsControlPlane(control) /\ term \in Nat
      /\ \A a \in Agents : control.owned[a].term <= term
  BY DEF LeaseInv, ValidInv, TypeOK, TermsReached
<1>2. /\ Fresh(op) /\ control.members[n].state \notin {"none", "revoked", state}
      /\ state = "left" => control.rollouts[n].phase = "none"
  BY <1>1, SetStateOutcome
<1>3. PICK now, next :
        /\ now \in Nat
        /\ now > control.time /\ IsControlPlane(next)
        /\ Frees(next, control, LiveLeases(control, n, now), n, now)
        /\ Revises(next, control, n, state, control.members[n].tls, now)
        /\ next.rollouts = [control.rollouts EXCEPT ![n] = NoRollout]
        /\ \/ /\ control.rollouts[n].phase = "none"
              /\ next.rolloutAudit = control.rolloutAudit
           \/ /\ control.rollouts[n].phase # "none"
              /\ Moves(next, control, n, control.rollouts[n].phase, "none",
                       control.rollouts[n].prev, control.rollouts[n].next, NoRollout)
        /\ Commit(op, [kind |-> "state", node |-> n, state |-> state], next)
  BY <1>1, SetStateOutcome
<1> now \in Nat
  BY <1>3
<1>4. PICK cmd : cmd = [kind |-> "state", node |-> n, state |-> state]
  OBVIOUS
<1>5. cmd \in Command /\ Commit(op, cmd, next) /\ IsControlPlane(next) /\ state \in MemberStates
  BY <1>3, <1>4, CommandFacts DEF MemberStates
<1>6. next.time = now
  BY <1>3 DEF Revises
<1>7. \A a \in Agents : ValidOwner(next.owned[a], next.ownAudit[a], next.time)
  BY <1>1, <1>3, <1>6, OwnersFreed
<1>8. CASE control.rollouts[n].phase # "none"
  <2>1. state \in {"active", "revoked"}
    BY <1>2, <1>8
  <2>2. /\ Revises(next, control, n, state, control.members[n].tls, now)
        /\ Moves(next, control, n, control.rollouts[n].phase, "none",
                 control.rollouts[n].prev, control.rollouts[n].next, NoRollout)
    BY <1>3, <1>8
  <2>3. Sound(next)
    BY <1>1, <1>2, <1>7, <1>8, <2>1, <2>2, ClosedSound
  <2> QED BY <1>1, <1>2, <1>5, <2>3, SoundCommits
<1>9. CASE control.rollouts[n].phase = "none"
  <2>1. /\ next.rolloutAudit = control.rolloutAudit /\ next.rollouts[n] = NoRollout
        /\ \A m \in Nodes \ {n} : next.rollouts[m] = control.rollouts[m]
    BY <1>1, <1>3, <1>9, ControlFields
  <2>2. control.members[n].tls \in LeafOrNone
    BY <1>1, ControlFields DEF Member
  <2>3. PICK v \in Revision : Revised(next, control, n, v, state, control.members[n].tls)
    BY <1>1, <1>3, <1>5, <2>2, RevisionNamed
  <2>4. Fits(control, n, control.members[n].tls)
    BY <1>1, LeavesThatFit
  <2>5. Sound(next)
    BY <1>1, <1>2, <1>5, <1>7, <1>9, <2>1, <2>2, <2>3, <2>4, RevisedAlone
  <2> QED BY <1>1, <1>2, <1>5, <2>5, SoundCommits
<1> QED BY <1>8, <1>9

\* apply_register_member, when leaves are issued once.
LEMMA RegisterSound ==
  ASSUME LeavesIssuedOnce, LeaseInv, ValidInv, NEW op, NEW n \in Nodes, RegisterMember(op, n)
  PROVE  ValidInv'
<1>1. TypeOK /\ Sound(control) /\ IsControlPlane(control)
  BY DEF LeaseInv, ValidInv, TypeOK
<1>2. Fresh(op) /\ control.members[n].state # "revoked"
  BY <1>1, RegisterOutcome
<1>3. PICK now, leaf, ch, next :
        /\ now \in Nat /\ leaf \in LeafOrNone /\ ch \in OpIds
        /\ now > control.time /\ IsControlPlane(next)
        /\ Presentable(control, n, leaf) /\ LeafUnassigned(control, n, leaf)
        /\ LeafChangeAllowed(control, n, leaf, now)
        /\ control.members[n].tls # NoLeaf => leaf # NoLeaf
        /\ Revises(next, control, n, "active", leaf, now)
        /\ \/ /\ Activates(control, n, leaf, now)
              /\ \E r \in Rollout :
                   /\ r = [phase |-> "activated", gen |-> control.members[n].gen + 1,
                           prev |-> control.rollouts[n].prev,
                           next |-> control.rollouts[n].next,
                           expires |-> control.rollouts[n].expires,
                           retireAfter |-> now + Overlap]
                   /\ Moves(next, control, n, "prepared", "activated",
                            control.rollouts[n].prev, control.rollouts[n].next, r)
           \/ /\ ~Activates(control, n, leaf, now)
              /\ next.rollouts = control.rollouts
              /\ next.rolloutAudit = control.rolloutAudit
        /\ SameLeases(next, control)
        /\ Commit(op, [kind |-> "register", node |-> n, leaf |-> leaf, challenge |-> ch], next)
  BY <1>1, RegisterOutcome
<1> now \in Nat /\ leaf \in LeafOrNone /\ ch \in OpIds
  BY <1>3
<1>4. PICK cmd : cmd = [kind |-> "register", node |-> n, leaf |-> leaf, challenge |-> ch]
  OBVIOUS
<1>5. cmd \in Command /\ Commit(op, cmd, next) /\ IsControlPlane(next)
  BY <1>3, <1>4, CommandFacts
<1>6. next.time = now /\ next.time \in Nat /\ next.time >= control.time
  BY <1>1, <1>3, ControlFields DEF Revises
<1>7. \A a \in Agents : ValidOwner(next.owned[a], next.ownAudit[a], next.time)
  BY <1>1, <1>3, <1>6, OwnersKept
<1>8. CASE Activates(control, n, leaf, now)
  <2>1. PICK r \in Rollout :
          /\ r = [phase |-> "activated", gen |-> control.members[n].gen + 1,
                  prev |-> control.rollouts[n].prev, next |-> control.rollouts[n].next,
                  expires |-> control.rollouts[n].expires, retireAfter |-> now + Overlap]
          /\ Moves(next, control, n, "prepared", "activated",
                   control.rollouts[n].prev, control.rollouts[n].next, r)
    BY <1>3, <1>8
  <2>2. /\ r.phase = "activated" /\ r.gen = control.members[n].gen + 1
        /\ r.prev = control.rollouts[n].prev /\ r.next = control.rollouts[n].next
    BY <2>1
  <2>3. /\ control.rollouts[n].phase = "prepared" /\ control.members[n].state = "active"
        /\ leaf = control.rollouts[n].next
    BY <1>8 DEF Activates
  <2>4. /\ control.members[n].tls # NoLeaf => control.rollouts[n].next # NoLeaf
        /\ Revises(next, control, n, "active", control.rollouts[n].next, now)
    BY <1>3, <2>3
  <2>5. Moves(next, control, n, "prepared", "activated",
              control.rollouts[n].prev, control.rollouts[n].next, r)
    BY <2>1
  <2>6. Sound(next)
    BY <1>1, <1>7, <2>2, <2>3, <2>4, <2>5, ActivatedSound
  <2> QED BY <1>1, <1>2, <1>5, <2>6, SoundCommits
<1>9. CASE ~Activates(control, n, leaf, now)
  <2>1. /\ next.rolloutAudit = control.rolloutAudit /\ next.rollouts = control.rollouts
        /\ control.rollouts[n].phase = "none"
        /\ control.members[n].tls # NoLeaf => leaf # NoLeaf
    BY <1>3, <1>9 DEF LeafChangeAllowed
  <2>2. PICK member, m, r, h : NodeFacts(control, n, member, m, r, h)
    BY <1>1, NodeNamed
  <2>3. /\ r = control.rollouts[n] /\ h = control.rolloutAudit[n] /\ h \in Seq(RolloutRecord)
        /\ RolloutInv(r, h, member, m)
    BY <2>2 DEF NodeFacts
  <2>4. CurrentRollout(r, h, member) /\ \A i \in DOMAIN h : h[i].next # NoLeaf
    BY <2>3 DEF RolloutInv
  <2>5. r = NoRollout /\ NoRollout.next = NoLeaf
    BY <2>1, <2>3, <2>4, PhaseTells DEF NoRollout
  <2>6. leaf = NoLeaf \/ leaf = control.members[n].tls \/ ~PreviouslyAuthorized(control, leaf)
    BY <1>3, <2>3, <2>5 DEF Presentable
  <2>7. Fits(control, n, leaf)
    BY <1>1, <2>6, LeavesThatFit
  <2>8. \/ leaf = control.members[n].tls
        \/ \A i \in DOMAIN control.rolloutAudit[n] : control.rolloutAudit[n][i].next # leaf
    <3>1. CASE leaf = NoLeaf
      BY <2>3, <2>4, <3>1
    <3>2. CASE leaf # NoLeaf /\ ~PreviouslyAuthorized(control, leaf)
      <4>1. leaf \notin LeavesOf(control, n)
        BY <3>2 DEF PreviouslyAuthorized
      <4>2. ~Mentions(control.memberAudit[n], control.rolloutAudit[n], leaf)
        BY <4>1, LeavesAre
      <4> QED BY <3>2, <4>2 DEF Mentions
    <3> QED BY <2>6, <3>1, <3>2
  <2>9. /\ next.rollouts[n] = NoRollout
        /\ \A i \in Nodes \ {n} : next.rollouts[i] = control.rollouts[i]
    BY <2>1, <2>3, <2>5
  <2>10. "active" \in MemberStates
    BY DEF MemberStates
  <2>11. PICK v \in Revision : Revised(next, control, n, v, "active", leaf)
    BY <1>1, <1>3, <2>10, RevisionNamed
  <2>12. Sound(next)
    BY <1>1, <1>2, <1>5, <1>7, <2>1, <2>7, <2>8, <2>9, <2>10, <2>11, RevisedAlone
  <2> QED BY <1>1, <1>2, <1>5, <2>12, SoundCommits
<1> QED BY <1>8, <1>9

\* The state before Initialize is sound.
LEMMA ValidInit ==
  ASSUME Init
  PROVE  ValidInv
<1>1. LeaseInv
  BY LeaseInit
<1>2. control.on = FALSE /\ halted = FALSE
  BY DEF Init
<1>3. /\ control.time = 0
      /\ \A n \in Nodes : /\ control.members[n] = NoMember /\ control.memberAudit[n] = <<>>
                          /\ control.rollouts[n] = NoRollout /\ control.rolloutAudit[n] = <<>>
      /\ \A a \in Agents : control.owned[a] = NoOwner /\ control.ownAudit[a] = <<>>
  BY <1>1, <1>2 DEF LeaseInv, BlankAtStart
<1>4. DOMAIN <<>> = {}
  OBVIOUS
<1>5. \A a \in Agents : ValidOwner(control.owned[a], control.ownAudit[a], control.time)
  BY <1>3, <1>4 DEF ValidOwner, CurrentOwner
<1>6. \A n \in Nodes : ValidNode(control, n)
  <2>1. ValidMember(NoMember, <<>>)
    BY <1>4 DEF ValidMember, CurrentMember
  <2>2. NoRollout.phase = "none" /\ CurrentRollout(NoRollout, <<>>, NoMember)
    BY DEF NoRollout, CurrentRollout
  <2>3. RolloutInv(NoRollout, <<>>, NoMember, <<>>)
    BY <1>4, <2>2 DEF RolloutInv
  <2> QED BY <1>3, <2>1, <2>3 DEF ValidNode
<1>7. \A n \in Nodes : LeavesOf(control, n) = {}
  <2>1. \A x : ~Mentions(<<>>, <<>>, x)
    BY <1>4 DEF Mentions
  <2> QED BY <1>3, <2>1, LeavesAre
<1>8. Sound(control)
  BY <1>5, <1>6, <1>7 DEF Sound
<1> QED BY <1>2, <1>8 DEF ValidInv

\* Every step leads to a state that the store accepts.
LEMMA ValidStep ==
  ASSUME LeavesIssuedOnce, LeaseInv, ValidInv, Next
  PROVE  ValidInv'
<1>1. /\ TypeOK /\ Sound(control) /\ IsControlPlane(control) /\ control.time \in Nat
  BY ControlFields DEF LeaseInv, ValidInv, TypeOK
<1>2. CASE NewTerm
  BY <1>2 DEF NewTerm, ValidInv
<1>3. CASE AdvanceTime
  <2>1. PICK p \in Proposals : p > control.time /\ Apply([control EXCEPT !.time = p], receipts)
    BY <1>3 DEF AdvanceTime
  <2>2. PICK next : next = [control EXCEPT !.time = p]
    OBVIOUS
  <2>3. p \in Nat
    BY AuthorityConstants
  <2>4. next = [on |-> control.on, time |-> p, members |-> control.members,
                memberAudit |-> control.memberAudit,
                rollouts |-> control.rollouts, rolloutAudit |-> control.rolloutAudit,
                challenges |-> control.challenges, owned |-> control.owned,
                ownAudit |-> control.ownAudit]
    BY <1>1, <2>2 DEF IsControlPlane
  <2>5. SameRegistry(next, control) /\ SameLeases(next, control) /\ next.time = p
    BY <2>4 DEF SameRegistry, SameLeases
  <2>6. next.time \in Nat /\ next.time >= control.time
    BY <1>1, <2>1, <2>3, <2>5
  <2>7. \A a \in Agents : ValidOwner(next.owned[a], next.ownAudit[a], next.time)
    BY <1>1, <2>5, <2>6, OwnersKept
  <2>8. Sound(next)
    BY <1>1, <2>5, <2>7, NodesKept
  <2>9. Valid(next) /\ Apply(next, receipts)
    BY <2>1, <2>2, <2>8, SoundIsValid
  <2>10. control' = next /\ halted' = halted /\ ~halted
    BY <2>9 DEF Apply
  <2> QED BY <2>8, <2>10 DEF ValidInv
<1>4. ASSUME NEW op, Barrier(op) PROVE ValidInv'
  <2>1. Fresh(op) /\ Commit(op, [kind |-> "barrier"], control)
    BY <1>4 DEF Barrier
  <2>2. PICK cmd : cmd = [kind |-> "barrier"]
    OBVIOUS
  <2>3. cmd \in Command /\ Commit(op, cmd, control)
    BY <2>1, <2>2, CommandFacts
  <2> QED BY <1>1, <2>1, <2>3, SoundCommits
<1>5. ASSUME NEW op, IssueJoinChallenge(op) PROVE ValidInv'
  <2>1. Fresh(op)
    BY <1>1, <1>5, ChallengeOutcome
  <2>2. PICK now, next :
          /\ now \in Nat
          /\ now > control.time /\ IsControlPlane(next) /\ next.time = now
          /\ SameRegistry(next, control) /\ SameLeases(next, control)
          /\ Commit(op, [kind |-> "challenge"], next)
    BY <1>1, <1>5, ChallengeOutcome
  <2> now \in Nat
    BY <2>2
  <2>3. PICK cmd : cmd = [kind |-> "challenge"]
    OBVIOUS
  <2>4. cmd \in Command /\ Commit(op, cmd, next)
    BY <2>2, <2>3, CommandFacts
  <2>5. next.time \in Nat /\ next.time >= control.time
    BY <1>1, <2>2
  <2>6. \A a \in Agents : ValidOwner(next.owned[a], next.ownAudit[a], next.time)
    BY <1>1, <2>2, <2>5, OwnersKept
  <2>7. Sound(next)
    BY <1>1, <2>2, <2>6, NodesKept
  <2> QED BY <1>1, <2>1, <2>2, <2>4, <2>7, SoundCommits
<1>6. ASSUME NEW op, Initialize(op) PROVE ValidInv'
  <2>1. ~control.on /\ Fresh(op)
    BY <1>1, <1>6, InitializeOutcome
  <2>2. PICK p, next :
          /\ p \in Nat
          /\ IsControlPlane(next) /\ next.time = p
          /\ next.members = [n \in Nodes |->
               IF n \in DOMAIN GenesisLeaf
                 THEN [state |-> "active", gen |-> 1, tls |-> GenesisLeaf[n]]
                 ELSE NoMember]
          /\ next.memberAudit = [n \in Nodes |->
               IF n \in DOMAIN GenesisLeaf
                 THEN <<[gen |-> 1, prevState |-> "none", state |-> "active",
                         prevTls |-> NoLeaf, tls |-> GenesisLeaf[n]]>>
                 ELSE <<>>]
          /\ next.rollouts = control.rollouts /\ next.rolloutAudit = control.rolloutAudit
          /\ SameLeases(next, control)
          /\ Commit(op, [kind |-> "initialize"], next)
    BY <1>1, <1>6, InitializeOutcome
  <2> p \in Nat
    BY <2>2
  <2>3. PICK cmd : cmd = [kind |-> "initialize"]
    OBVIOUS
  <2>4. cmd \in Command /\ Commit(op, cmd, next)
    BY <2>2, <2>3, CommandFacts
  <2>5. /\ control.time = 0
        /\ \A n \in Nodes : control.rollouts[n] = NoRollout /\ control.rolloutAudit[n] = <<>>
    BY <2>1 DEF LeaseInv, BlankAtStart
  <2>6. next.time \in Nat /\ next.time >= control.time
    BY <2>2, <2>5
  <2>7. \A a \in Agents : ValidOwner(next.owned[a], next.ownAudit[a], next.time)
    BY <1>1, <2>2, <2>6, OwnersKept
  <2>8. Sound(next)
    BY <1>1, <2>2, <2>5, <2>7, SeedsSound
  <2> QED BY <1>1, <2>1, <2>2, <2>4, <2>8, SoundCommits
<1>7. \A token \in 0..MaxReceipts : token \in Nat
  BY AuthorityConstants
<1> QED BY <1>2, <1>3, <1>4, <1>5, <1>6, <1>7, PrepareSound, RegisterSound, FinishSound,
           SetStateSound, ClaimSound, RenewSound, ReleaseSound DEF Next

\* When operators bind a leaf to one member and once, no sequence of commands
\* that apply_authority_command accepts leads to a control plane that
\* validate_control_plane_state then refuses: no committed entry stops the
\* voters, whatever is claimed, rolled out, aborted, revoked or re-registered.
THEOREM AcceptedIsWritten ==
  ASSUME LeavesIssuedOnce
  PROVE  Spec => []NeverHalts
<1>1. Init => ValidInv
  BY ValidInit
<1>2. LeaseInv /\ ValidInv /\ [Next]_vars => ValidInv'
  <2> SUFFICES ASSUME LeaseInv, ValidInv, [Next]_vars PROVE ValidInv'
    OBVIOUS
  <2>1. CASE Next
    BY <2>1, ValidStep
  <2>2. CASE UNCHANGED vars
    BY <2>2 DEF vars, ValidInv
  <2> QED BY <2>1, <2>2
<1>3. ValidInv => NeverHalts
  BY DEF ValidInv, NeverHalts
<1> QED BY <1>1, <1>2, <1>3, LeasesAreInductive, PTL DEF Spec

-----------------------------------------------------------------------------
(* A member that stays active keeps a leaf that others accept.             *)

\* A member that stays active keeps its leaf, or takes its prepared candidate.
LeafStep(n) ==
  control.members[n].state = "active" /\ control'.members[n].state = "active" =>
    \/ control'.members[n].tls = control.members[n].tls
    \/ /\ control.rollouts[n].phase = "prepared"
       /\ control'.members[n].tls = control.rollouts[n].next
       /\ control.members[n].tls # NoLeaf => control'.members[n].tls # NoLeaf

\* A command that writes a revision of node n changes the leaf of no other.
LEMMA LeafRevised ==
  ASSUME TypeOK, NEW op, Fresh(op), NEW cmd \in Command, NEW next, IsControlPlane(next),
         Commit(op, cmd, next), NEW n \in Nodes, NEW state \in MemberStates,
         NEW leaf \in LeafOrNone, NEW now, Revises(next, control, n, state, leaf, now),
         \/ state # "active" \/ control.members[n].state # "active"
         \/ leaf = control.members[n].tls
         \/ /\ control.rollouts[n].phase = "prepared" /\ leaf = control.rollouts[n].next
            /\ control.members[n].tls # NoLeaf => leaf # NoLeaf
  PROVE  \A m \in Nodes : LeafStep(m)
<1>1. control' = control \/ control' = next
  BY CommitFacts
<1>2. CASE control' = control
  BY <1>2 DEF LeafStep
<1>3. CASE control' = next
  <2>1. IsControlPlane(control)
    BY DEF TypeOK
  <2>2. PICK v \in Revision : Revised(next, control, n, v, state, leaf)
    BY <2>1, RevisionNamed
  <2>3. /\ control'.members[n].state = state /\ control'.members[n].tls = leaf
        /\ \A m \in Nodes \ {n} : control'.members[m] = control.members[m]
    BY <1>3, <2>2 DEF Revised
  <2> QED BY <2>3 DEF LeafStep
<1> QED BY <1>1, <1>2, <1>3

\* A command that writes no revision changes no leaf.
LEMMA LeafKept ==
  ASSUME TypeOK, NEW op, Fresh(op), NEW cmd \in Command, NEW next, IsControlPlane(next),
         Commit(op, cmd, next), next.members = control.members
  PROVE  \A m \in Nodes : LeafStep(m)
<1>1. control' = control \/ control' = next
  BY CommitFacts
<1> QED BY <1>1 DEF LeafStep

\* Every step keeps the leaf or takes the candidate.
LEMMA TrustStep ==
  ASSUME TypeOK, BlankAtStart, Next
  PROVE  \A n \in Nodes : LeafStep(n)
<1>1. IsControlPlane(control) /\ "active" \in MemberStates /\ \A n \in Nodes :
        control.members[n].tls \in LeafOrNone
  BY ControlFields DEF TypeOK, MemberStates, Member
<1>2. CASE NewTerm
  BY <1>2 DEF NewTerm, LeafStep
<1>3. CASE AdvanceTime
  <2>1. PICK p \in Proposals : Apply([control EXCEPT !.time = p], receipts)
    BY <1>3 DEF AdvanceTime
  <2>2. control' = control \/ control' = [control EXCEPT !.time = p]
    BY <2>1 DEF Apply
  <2>3. control'.members = control.members
    BY <1>1, <2>2 DEF IsControlPlane
  <2> QED BY <2>3 DEF LeafStep
<1>4. ASSUME NEW op, Barrier(op) PROVE \A n \in Nodes : LeafStep(n)
  <2>1. Fresh(op) /\ Commit(op, [kind |-> "barrier"], control)
    BY <1>4 DEF Barrier
  <2>2. PICK cmd : cmd = [kind |-> "barrier"]
    OBVIOUS
  <2>3. cmd \in Command /\ Commit(op, cmd, control)
    BY <2>1, <2>2, CommandFacts
  <2> QED BY <1>1, <2>1, <2>3, LeafKept
<1>5. ASSUME NEW op, IssueJoinChallenge(op) PROVE \A n \in Nodes : LeafStep(n)
  <2>1. Fresh(op)
    BY <1>5, ChallengeOutcome
  <2>2. PICK next : /\ IsControlPlane(next) /\ SameRegistry(next, control)
                    /\ Commit(op, [kind |-> "challenge"], next)
    BY <1>5, ChallengeOutcome
  <2>3. PICK cmd : cmd = [kind |-> "challenge"]
    OBVIOUS
  <2>4. cmd \in Command /\ Commit(op, cmd, next) /\ next.members = control.members
    BY <2>2, <2>3, CommandFacts DEF SameRegistry
  <2> QED BY <2>1, <2>2, <2>4, LeafKept
<1>6. ASSUME NEW op, Initialize(op) PROVE \A n \in Nodes : LeafStep(n)
  <2>1. ~control.on
    BY <1>6, InitializeOutcome
  <2>2. \A n \in Nodes : control.members[n].state = "none"
    BY <2>1 DEF BlankAtStart, NoMember
  <2> QED BY <2>2 DEF LeafStep
<1>7. ASSUME NEW op, NEW n \in Nodes, PrepareRollout(op, n) PROVE \A m \in Nodes : LeafStep(m)
  <2>1. Fresh(op)
    BY <1>7, PrepareOutcome
  <2>2. PICK now, leaf, ch, next :
          /\ now \in Nat /\ leaf \in Leaves /\ ch \in OpIds
          /\ IsControlPlane(next)
          /\ Revises(next, control, n, "active", control.members[n].tls, now)
          /\ Commit(op, [kind |-> "prepare", node |-> n, leaf |-> leaf, challenge |-> ch], next)
    BY <1>7, PrepareOutcome
  <2> now \in Nat /\ leaf \in Leaves /\ ch \in OpIds
    BY <2>2
  <2>3. PICK cmd : cmd = [kind |-> "prepare", node |-> n, leaf |-> leaf, challenge |-> ch]
    OBVIOUS
  <2>4. cmd \in Command /\ Commit(op, cmd, next)
    BY <2>2, <2>3, CommandFacts DEF LeafOrNone
  <2> QED BY <1>1, <2>1, <2>2, <2>4, LeafRevised
<1>8. ASSUME NEW op, NEW n \in Nodes, RegisterMember(op, n) PROVE \A m \in Nodes : LeafStep(m)
  <2>1. Fresh(op)
    BY <1>8, RegisterOutcome
  <2>2. PICK now, leaf, ch, next :
          /\ now \in Nat /\ leaf \in LeafOrNone /\ ch \in OpIds
          /\ IsControlPlane(next)
          /\ LeafChangeAllowed(control, n, leaf, now)
          /\ control.members[n].tls # NoLeaf => leaf # NoLeaf
          /\ Revises(next, control, n, "active", leaf, now)
          /\ Commit(op, [kind |-> "register", node |-> n, leaf |-> leaf, challenge |-> ch], next)
    BY <1>8, RegisterOutcome
  <2> now \in Nat /\ leaf \in LeafOrNone /\ ch \in OpIds
    BY <2>2
  <2>3. PICK cmd : cmd = [kind |-> "register", node |-> n, leaf |-> leaf, challenge |-> ch]
    OBVIOUS
  <2>4. cmd \in Command /\ Commit(op, cmd, next)
    BY <2>2, <2>3, CommandFacts
  <2>5. \/ control.members[n].state # "active" \/ leaf = control.members[n].tls
        \/ /\ control.rollouts[n].phase = "prepared" /\ leaf = control.rollouts[n].next
           /\ control.members[n].tls # NoLeaf => leaf # NoLeaf
    BY <2>2 DEF LeafChangeAllowed, Activates
  <2> QED BY <1>1, <2>1, <2>2, <2>4, <2>5, LeafRevised
<1>9. ASSUME NEW op, NEW n \in Nodes, NEW finish \in {"abort", "finalize"},
             FinishRollout(op, n, finish)
      PROVE  \A m \in Nodes : LeafStep(m)
  <2>1. Fresh(op)
    BY <1>9, FinishOutcome
  <2>2. PICK now, next :
          /\ now \in Nat
          /\ IsControlPlane(next)
          /\ Revises(next, control, n, "active", control.members[n].tls, now)
          /\ Commit(op, [kind |-> finish, node |-> n], next)
    BY <1>9, FinishOutcome
  <2> now \in Nat
    BY <2>2
  <2>3. PICK cmd : cmd = [kind |-> finish, node |-> n]
    OBVIOUS
  <2>4. cmd \in Command /\ Commit(op, cmd, next)
    BY <2>2, <2>3, CommandFacts
  <2> QED BY <1>1, <2>1, <2>2, <2>4, LeafRevised
<1>10. ASSUME NEW op, NEW n \in Nodes, NEW state \in {"left", "revoked"},
              SetMemberState(op, n, state)
       PROVE  \A m \in Nodes : LeafStep(m)
  <2>1. Fresh(op) /\ state \in MemberStates /\ state # "active"
    BY <1>10, SetStateOutcome DEF MemberStates
  <2>2. PICK now, next :
          /\ now \in Nat
          /\ IsControlPlane(next)
          /\ Revises(next, control, n, state, control.members[n].tls, now)
          /\ Commit(op, [kind |-> "state", node |-> n, state |-> state], next)
    BY <1>10, SetStateOutcome
  <2> now \in Nat
    BY <2>2
  <2>3. PICK cmd : cmd = [kind |-> "state", node |-> n, state |-> state]
    OBVIOUS
  <2>4. cmd \in Command /\ Commit(op, cmd, next)
    BY <2>1, <2>2, <2>3, CommandFacts
  <2> QED BY <1>1, <2>1, <2>2, <2>4, LeafRevised
<1>11. ASSUME NEW op, NEW a \in Agents, NEW n \in Nodes, NEW token \in Nat,
              \/ ClaimOwnership(op, a, n, token) \/ RenewOwnership(op, a, n, token)
              \/ ReleaseOwnership(op, a, n, token)
       PROVE  \A m \in Nodes : LeafStep(m)
  <2>1. Fresh(op)
    BY <1>11, ClaimOutcome, RenewOutcome, ReleaseOutcome
  <2>2. PICK o, operation, cmd, next :
          /\ o \in Owner /\ operation \in {"claim", "transfer", "renew", "release"} /\ cmd \in Command
          /\ next = SetOwner(control, a, o, operation) /\ Commit(op, cmd, next)
    <3>1. CASE ClaimOwnership(op, a, n, token)
      <4>1. PICK o, next :
              /\ o \in Owner
              /\ next = SetOwner(control, a, o,
                          IF control.owned[a].state = "none" THEN "claim" ELSE "transfer")
              /\ Commit(op, [kind |-> "claim", agent |-> a, node |-> n, expected |-> token], next)
        BY <3>1, ClaimOutcome
      <4> o \in Owner
        BY <4>1
      <4>2. [kind |-> "claim", agent |-> a, node |-> n, expected |-> token] \in Command
        BY CommandFacts
      <4>3. CASE control.owned[a].state = "none"
        BY <4>1, <4>2, <4>3
      <4>4. CASE control.owned[a].state # "none"
        BY <4>1, <4>2, <4>4
      <4> QED BY <4>3, <4>4
    <3>2. CASE RenewOwnership(op, a, n, token)
      <4>1. PICK o, next :
              /\ o \in Owner
              /\ next = SetOwner(control, a, o, "renew")
              /\ Commit(op, [kind |-> "renew", agent |-> a, node |-> n, token |-> token], next)
        BY <3>2, RenewOutcome
      <4> o \in Owner
        BY <4>1
      <4>2. [kind |-> "renew", agent |-> a, node |-> n, token |-> token] \in Command
        BY CommandFacts
      <4> QED BY <4>1, <4>2
    <3>3. CASE ReleaseOwnership(op, a, n, token)
      <4>1. PICK o, next :
              /\ o \in Owner
              /\ next = SetOwner(control, a, o, "release")
              /\ Commit(op, [kind |-> "release", agent |-> a, node |-> n, token |-> token], next)
        BY <3>3, ReleaseOutcome
      <4> o \in Owner
        BY <4>1
      <4>2. [kind |-> "release", agent |-> a, node |-> n, token |-> token] \in Command
        BY CommandFacts
      <4> QED BY <4>1, <4>2
    <3> QED BY <1>11, <3>1, <3>2, <3>3
  <2> o \in Owner /\ operation \in {"claim", "transfer", "renew", "release"} /\ cmd \in Command
    BY <2>2
  <2>4. next = SetOwner(control, a, o, operation)
    BY <2>2
  <2>5. IsControlPlane(next) /\ Owns(next, control, a, o, operation)
    BY <1>1, <2>4, SetOwnerFacts
  <2>3. IsControlPlane(next) /\ next.members = control.members
    BY <2>5 DEF Owns
  <2> QED BY <2>1, <2>2, <2>3, LeafKept
<1>12. \A token \in 0..MaxReceipts : token \in Nat
  BY AuthorityConstants
<1> QED BY <1>2, <1>3, <1>4, <1>5, <1>6, <1>7, <1>8, <1>9, <1>10, <1>11, <1>12 DEF Next

\* Whatever rollout is prepared, activated, aborted or finalized, a member
\* that stays active is accepted under one leaf before and after each command.
THEOREM TrustNeverBreaks == Spec => TrustIsContinuous
<1>1. LeaseInv /\ [Next]_vars =>
        [\A n \in Nodes :
           /\ control.members[n].state = "active" /\ control'.members[n].state = "active"
           /\ control.members[n].tls # NoLeaf
           => Accepted(control, n) \cap Accepted(control', n) # {}]_vars
  <2> SUFFICES ASSUME LeaseInv, Next, NEW n \in Nodes,
                      control.members[n].state = "active", control'.members[n].state = "active",
                      control.members[n].tls # NoLeaf
               PROVE  Accepted(control, n) \cap Accepted(control', n) # {}
    OBVIOUS
  <2>1. LeafStep(n)
    BY TrustStep DEF LeaseInv
  <2>2. \A c : c.members[n].tls # NoLeaf => c.members[n].tls \in Accepted(c, n)
    BY DEF Accepted
  <2>3. CASE control'.members[n].tls = control.members[n].tls
    BY <2>2, <2>3
  <2>4. CASE /\ control.rollouts[n].phase = "prepared"
             /\ control'.members[n].tls = control.rollouts[n].next
             /\ control'.members[n].tls # NoLeaf
    <3>1. control.rollouts[n].next \in Accepted(control, n)
      BY <2>4 DEF Accepted
    <3> QED BY <2>2, <2>4, <3>1
  <2> QED BY <2>1, <2>3, <2>4 DEF LeafStep
<1> QED BY <1>1, LeasesAreInductive, PTL DEF Spec, TrustIsContinuous

-----------------------------------------------------------------------------
(* Every receipt was applied once, and to the lease it names.              *)

\* What a receipt counts for: a revision of node n, a renewal of a token; and
\* what an audit record counts for.
NodeCount(cmd, n)         == IF cmd.kind \in MemberKinds /\ cmd.node = n THEN 1 ELSE 0
TokenCount(cmd, a, token) == IF cmd.kind = "renew" /\ cmd.agent = a /\ cmd.token = token THEN 1 ELSE 0
RecordCount(e, token)     == IF e.op = "renew" /\ e.token = token THEN 1 ELSE 0

MemberReceipts(rs, n) == {i \in DOMAIN rs : rs[i].kind \in MemberKinds /\ rs[i].node = n}
RenewReceipts(rs, a, token) ==
  {i \in DOMAIN rs : rs[i].kind = "renew" /\ rs[i].agent = a /\ rs[i].token = token}
RenewRecords(h, token) == {g \in DOMAIN h : h[g].op = "renew" /\ h[g].token = token}

Applied(c, rs) ==
  /\ \A n \in Nodes :
       Cardinality(MemberReceipts(rs, n))
         = Len(c.memberAudit[n]) - (IF n \in DOMAIN GenesisLeaf THEN 1 ELSE 0)
  /\ \A a \in Agents, token \in 1..MaxReceipts :
       Cardinality(RenewReceipts(rs, a, token)) = Cardinality(RenewRecords(c.ownAudit[a], token))

\* One more element, or none.
LEMMA CountOne ==
  ASSUME NEW S, IsFiniteSet(S), NEW x, x \notin S, NEW b \in {0, 1},
         NEW T, T = IF b = 1 THEN S \cup {x} ELSE S
  PROVE  Cardinality(S) \in Nat /\ Cardinality(T) = Cardinality(S) + b
<1>1. Cardinality(S) \in Nat
  BY FS_CardinalityType
<1>2. CASE b = 1
  <2>1. T = S \cup {x}
    BY <1>2
  <2>2. Cardinality(T) = Cardinality(S) + 1
    BY <2>1, FS_AddElement
  <2> QED BY <1>1, <1>2, <2>2
<1>3. CASE b = 0
  BY <1>1, <1>3
<1> QED BY <1>1, <1>2, <1>3

\* The positions of a history are finitely many.
LEMMA FinitePositions ==
  ASSUME NEW S, NEW h \in Seq(S), NEW T, T \subseteq DOMAIN h
  PROVE  IsFiniteSet(T)
<1>1. DOMAIN h = 1..Len(h) /\ Len(h) \in Nat
  OBVIOUS
<1>2. IsFiniteSet(1..Len(h))
  BY <1>1, FS_Interval
<1> QED BY <1>1, <1>2, FS_Subset

\* A new receipt counts for the node, or the token, it names.
CountsFor(q, rs, cmd, n) ==
  /\ Cardinality(MemberReceipts(rs, n)) \in Nat
  /\ Cardinality(MemberReceipts(q, n)) = Cardinality(MemberReceipts(rs, n)) + NodeCount(cmd, n)

CountsRenewal(q, rs, cmd, a, token) ==
  Cardinality(RenewReceipts(q, a, token))
    = Cardinality(RenewReceipts(rs, a, token)) + TokenCount(cmd, a, token)

\* What one more receipt adds to the count of the receipts of a member.
LEMMA MemberReceiptsGrow ==
  ASSUME NEW rs \in Seq(Command), NEW cmd \in Command, NEW q, q = Append(rs, cmd), NEW n
  PROVE  CountsFor(q, rs, cmd, n)
<1>1. Grown(q, rs, cmd)
  BY Appended
<1>2. /\ DOMAIN q = (DOMAIN rs) \cup {Len(rs) + 1} /\ q[Len(rs) + 1] = cmd
      /\ Len(rs) + 1 \notin DOMAIN rs /\ \A i \in DOMAIN rs : q[i] = rs[i]
  BY <1>1 DEF Grown
<1>3. PICK b \in {0, 1} : b = NodeCount(cmd, n)
  BY DEF NodeCount
<1>4. MemberReceipts(q, n) = IF b = 1 THEN MemberReceipts(rs, n) \cup {Len(rs) + 1}
                             ELSE MemberReceipts(rs, n)
  BY <1>2, <1>3 DEF MemberReceipts, NodeCount
<1>5. MemberReceipts(rs, n) \subseteq DOMAIN rs /\ Len(rs) + 1 \notin MemberReceipts(rs, n)
  BY <1>2 DEF MemberReceipts
<1>6. IsFiniteSet(MemberReceipts(rs, n))
  BY <1>5, FinitePositions
<1>7. /\ Cardinality(MemberReceipts(rs, n)) \in Nat
      /\ Cardinality(MemberReceipts(q, n)) = Cardinality(MemberReceipts(rs, n)) + b
  BY <1>4, <1>5, <1>6, CountOne
<1> QED BY <1>3, <1>7 DEF CountsFor

\* What one more receipt adds to the count of the renewals of a token.
LEMMA RenewReceiptsGrow ==
  ASSUME NEW rs \in Seq(Command), NEW cmd \in Command, NEW q, q = Append(rs, cmd),
         NEW a, NEW token
  PROVE  CountsRenewal(q, rs, cmd, a, token)
<1>1. Grown(q, rs, cmd)
  BY Appended
<1>2. /\ DOMAIN q = (DOMAIN rs) \cup {Len(rs) + 1} /\ q[Len(rs) + 1] = cmd
      /\ Len(rs) + 1 \notin DOMAIN rs /\ \A i \in DOMAIN rs : q[i] = rs[i]
  BY <1>1 DEF Grown
<1>3. PICK b \in {0, 1} : b = TokenCount(cmd, a, token)
  BY DEF TokenCount
<1>4. RenewReceipts(q, a, token) = IF b = 1 THEN RenewReceipts(rs, a, token) \cup {Len(rs) + 1}
                                   ELSE RenewReceipts(rs, a, token)
  BY <1>2, <1>3 DEF RenewReceipts, TokenCount
<1>5. /\ RenewReceipts(rs, a, token) \subseteq DOMAIN rs
      /\ Len(rs) + 1 \notin RenewReceipts(rs, a, token)
  BY <1>2 DEF RenewReceipts
<1>6. IsFiniteSet(RenewReceipts(rs, a, token))
  BY <1>5, FinitePositions
<1>7. /\ Cardinality(RenewReceipts(rs, a, token)) \in Nat
      /\ Cardinality(RenewReceipts(q, a, token))
           = Cardinality(RenewReceipts(rs, a, token)) + b
  BY <1>4, <1>5, <1>6, CountOne
<1> QED BY <1>3, <1>7 DEF CountsRenewal

\* A new audit record counts for the token it renews.
CountsRecord(k, h, e, token) ==
  /\ Cardinality(RenewRecords(h, token)) \in Nat
  /\ Cardinality(RenewRecords(k, token)) = Cardinality(RenewRecords(h, token)) + RecordCount(e, token)

\* What one more record adds to the count of the renewals in a history.
LEMMA RenewRecordsGrow ==
  ASSUME NEW h \in Seq(OwnRecord), NEW e \in OwnRecord, NEW k, k = Append(h, e), NEW token
  PROVE  CountsRecord(k, h, e, token)
<1>1. Grown(k, h, e)
  BY Appended
<1>2. /\ DOMAIN k = (DOMAIN h) \cup {Len(h) + 1} /\ k[Len(h) + 1] = e
      /\ Len(h) + 1 \notin DOMAIN h /\ \A i \in DOMAIN h : k[i] = h[i]
  BY <1>1 DEF Grown
<1>3. PICK b \in {0, 1} : b = RecordCount(e, token)
  BY DEF RecordCount
<1>4. RenewRecords(k, token) = IF b = 1 THEN RenewRecords(h, token) \cup {Len(h) + 1}
                               ELSE RenewRecords(h, token)
  BY <1>2, <1>3 DEF RenewRecords, RecordCount
<1>5. /\ RenewRecords(h, token) \subseteq DOMAIN h /\ Len(h) + 1 \notin RenewRecords(h, token)
  BY <1>2 DEF RenewRecords
<1>6. IsFiniteSet(RenewRecords(h, token))
  BY <1>5, FinitePositions
<1>7. /\ Cardinality(RenewRecords(h, token)) \in Nat
      /\ Cardinality(RenewRecords(k, token)) = Cardinality(RenewRecords(h, token)) + b
  BY <1>4, <1>5, <1>6, CountOne
<1> QED BY <1>3, <1>7 DEF CountsRecord

\* The revisions and the renewals that a command writes are those it counts for.
Lengthens(d, c, cmd, n) ==
  /\ Len(c.memberAudit[n]) \in Nat
  /\ Len(d.memberAudit[n]) = Len(c.memberAudit[n]) + NodeCount(cmd, n)

Renews(k, h, cmd, a, token) ==
  Cardinality(RenewRecords(k, token))
    = Cardinality(RenewRecords(h, token)) + TokenCount(cmd, a, token)

Writes(d, c, cmd) ==
  /\ \A n \in Nodes : Lengthens(d, c, cmd, n)
  /\ \A a \in Agents, token \in 1..MaxReceipts : Renews(d.ownAudit[a], c.ownAudit[a], cmd, a, token)

\* The receipts account for the histories after a command as before it.
LEMMA AppliedGrows ==
  ASSUME NEW rs \in Seq(Command), NEW cmd \in Command, NEW q, q = Append(rs, cmd),
         NEW c, NEW d, Applied(c, rs), Writes(d, c, cmd)
  PROVE  Applied(d, q)
<1>1. ASSUME NEW n \in Nodes
      PROVE  Cardinality(MemberReceipts(q, n))
               = Len(d.memberAudit[n]) - (IF n \in DOMAIN GenesisLeaf THEN 1 ELSE 0)
  <2>1. /\ Cardinality(MemberReceipts(rs, n)) \in Nat
        /\ Cardinality(MemberReceipts(q, n))
             = Cardinality(MemberReceipts(rs, n)) + NodeCount(cmd, n)
    <3>1. CountsFor(q, rs, cmd, n)
      BY MemberReceiptsGrow
    <3> QED BY <3>1 DEF CountsFor
  <2>2. /\ Cardinality(MemberReceipts(rs, n))
             = Len(c.memberAudit[n]) - (IF n \in DOMAIN GenesisLeaf THEN 1 ELSE 0)
        /\ Len(c.memberAudit[n]) \in Nat
        /\ Len(d.memberAudit[n]) = Len(c.memberAudit[n]) + NodeCount(cmd, n)
    BY DEF Applied, Writes, Lengthens, Renews
  <2>3. NodeCount(cmd, n) \in Nat
    BY DEF NodeCount
  <2>4. PICK seed \in Nat : seed = IF n \in DOMAIN GenesisLeaf THEN 1 ELSE 0
    OBVIOUS
  <2>5. PICK x, y, z, w, u : /\ x = Cardinality(MemberReceipts(rs, n))
                             /\ y = Cardinality(MemberReceipts(q, n)) /\ z = NodeCount(cmd, n)
                             /\ w = Len(c.memberAudit[n]) /\ u = Len(d.memberAudit[n])
    OBVIOUS
  <2>6. x \in Nat /\ z \in Nat /\ w \in Nat /\ x = w - seed /\ u = w + z /\ y = x + z
    BY <2>1, <2>2, <2>3, <2>4, <2>5
  <2>7. y = u - seed
    BY <2>4, <2>6
  <2> QED BY <2>4, <2>5, <2>7
<1>2. ASSUME NEW a \in Agents, NEW token \in 1..MaxReceipts
      PROVE  Cardinality(RenewReceipts(q, a, token))
               = Cardinality(RenewRecords(d.ownAudit[a], token))
  <2>1. /\ Cardinality(RenewReceipts(q, a, token))
             = Cardinality(RenewReceipts(rs, a, token)) + TokenCount(cmd, a, token)
    <3>1. CountsRenewal(q, rs, cmd, a, token)
      BY RenewReceiptsGrow
    <3> QED BY <3>1 DEF CountsRenewal
  <2>2. /\ Cardinality(RenewReceipts(rs, a, token)) = Cardinality(RenewRecords(c.ownAudit[a], token))
        /\ Cardinality(RenewRecords(d.ownAudit[a], token))
             = Cardinality(RenewRecords(c.ownAudit[a], token)) + TokenCount(cmd, a, token)
    BY DEF Applied, Writes, Lengthens, Renews
  <2> QED BY <2>1, <2>2
<1> QED BY <1>1, <1>2 DEF Applied

\* A command that writes no revision, or one, of the node it names.
LEMMA LengthsKept ==
  ASSUME NEW c, IsControlPlane(c), NEW d, d.memberAudit = c.memberAudit, NEW cmd,
         cmd.kind \notin MemberKinds, NEW n \in Nodes
  PROVE  Lengthens(d, c, cmd, n)
<1>1. c.memberAudit[n] \in Seq(Revision)
  BY ControlFields
<1>2. Len(c.memberAudit[n]) \in Nat /\ NodeCount(cmd, n) = 0
  BY <1>1 DEF NodeCount
<1> QED BY <1>2 DEF Lengthens

\* A revision lengthens the history of its node by one, as its receipt says.
LEMMA LengthsGrow ==
  ASSUME NEW c, IsControlPlane(c), NEW d, NEW m \in Nodes, NEW state \in MemberStates,
         NEW leaf \in LeafOrNone, NEW now, Revises(d, c, m, state, leaf, now),
         NEW cmd, cmd.kind \in MemberKinds, cmd.node = m, NEW n \in Nodes
  PROVE  Lengthens(d, c, cmd, n)
<1>1. c.memberAudit[n] \in Seq(Revision)
  BY ControlFields
<1>2. PICK v \in Revision : Revised(d, c, m, v, state, leaf)
  BY RevisionNamed
<1>3. CASE n = m
  <2>1. d.memberAudit[n] = Append(c.memberAudit[n], v)
    BY <1>2, <1>3 DEF Revised
  <2>2. Len(d.memberAudit[n]) = Len(c.memberAudit[n]) + 1
    BY <1>1, <2>1
  <2>3. NodeCount(cmd, n) = 1
    BY <1>3 DEF NodeCount
  <2> QED BY <1>1, <2>2, <2>3 DEF Lengthens
<1>4. CASE n # m
  <2>1. d.memberAudit[n] = c.memberAudit[n] /\ NodeCount(cmd, n) = 0
    BY <1>2, <1>4 DEF Revised, NodeCount
  <2> QED BY <1>1, <2>1 DEF Lengthens
<1> QED BY <1>3, <1>4

\* The number of renewals in an ownership audit.
LEMMA RenewalsCounted ==
  ASSUME NEW h \in Seq(OwnRecord), NEW token
  PROVE  Cardinality(RenewRecords(h, token)) \in Nat
<1>1. RenewRecords(h, token) \subseteq DOMAIN h
  BY DEF RenewRecords
<1>2. IsFiniteSet(RenewRecords(h, token))
  BY <1>1, FinitePositions
<1> QED BY <1>2, FS_CardinalityType

\* A command that is not a renewal adds no renewal to an audit that it leaves
\* alone or extends by another record.
LEMMA RenewalsKept ==
  ASSUME NEW h \in Seq(OwnRecord), NEW k, NEW e \in OwnRecord,
         k = h \/ (k = Append(h, e) /\ e.op # "renew"),
         NEW cmd, cmd.kind # "renew", NEW a, NEW token
  PROVE  Renews(k, h, cmd, a, token)
<1>1. TokenCount(cmd, a, token) = 0 /\ Cardinality(RenewRecords(h, token)) \in Nat
  BY RenewalsCounted DEF TokenCount
<1>2. CASE k = h
  BY <1>1, <1>2 DEF Renews
<1>3. CASE k = Append(h, e) /\ e.op # "renew"
  <2>3. k = Append(h, e)
    BY <1>3
  <2>4. CountsRecord(k, h, e, token)
    BY <2>3, RenewRecordsGrow
  <2>1. Cardinality(RenewRecords(k, token))
          = Cardinality(RenewRecords(h, token)) + RecordCount(e, token)
    BY <2>4 DEF CountsRecord
  <2>2. RecordCount(e, token) = 0
    BY <1>3 DEF RecordCount
  <2> QED BY <1>1, <2>1, <2>2 DEF Renews
<1> QED BY <1>2, <1>3

\* A command of a member writes one revision and no renewal.
LEMMA MemberWrites ==
  ASSUME NEW c, IsControlPlane(c), NEW d, NEW m \in Nodes, NEW state \in MemberStates,
         NEW leaf \in LeafOrNone, NEW now, Revises(d, c, m, state, leaf, now),
         NEW cmd, cmd.kind \in MemberKinds, cmd.node = m,
         \A a \in Agents : \/ d.ownAudit[a] = c.ownAudit[a]
                           \/ \E e \in OwnRecord : /\ d.ownAudit[a] = Append(c.ownAudit[a], e)
                                                   /\ e.op # "renew"
  PROVE  Writes(d, c, cmd)
<1>1. \A n \in Nodes : Lengthens(d, c, cmd, n)
  BY LengthsGrow
<1>2. cmd.kind # "renew"
  BY DEF MemberKinds
<1>3. ASSUME NEW a \in Agents, NEW token
      PROVE  Renews(d.ownAudit[a], c.ownAudit[a], cmd, a, token)
  <2>1. c.ownAudit[a] \in Seq(OwnRecord)
    BY ControlFields
  <2>2. CASE d.ownAudit[a] = c.ownAudit[a]
    <3>1. TokenCount(cmd, a, token) = 0 /\ Cardinality(RenewRecords(c.ownAudit[a], token)) \in Nat
      BY <1>2, <2>1, RenewalsCounted DEF TokenCount
    <3> QED BY <2>2, <3>1 DEF Renews
  <2>3. ASSUME NEW e \in OwnRecord, d.ownAudit[a] = Append(c.ownAudit[a], e), e.op # "renew"
        PROVE  Renews(d.ownAudit[a], c.ownAudit[a], cmd, a, token)
    <3>1. PICK h, k : h = c.ownAudit[a] /\ k = d.ownAudit[a]
      OBVIOUS
    <3>2. h \in Seq(OwnRecord) /\ k = Append(h, e)
      BY <2>1, <2>3, <3>1
    <3>3. Renews(k, h, cmd, a, token)
      BY <1>2, <2>3, <3>2, RenewalsKept
    <3> QED BY <3>1, <3>3
  <2> QED BY <2>2, <2>3
<1> QED BY <1>1, <1>3 DEF Writes

\* A command of neither kind.
LEMMA QuietWrites ==
  ASSUME NEW c, IsControlPlane(c), NEW d, d.memberAudit = c.memberAudit,
         d.ownAudit = c.ownAudit,
         NEW cmd, cmd.kind \notin MemberKinds, cmd.kind # "renew"
  PROVE  Writes(d, c, cmd)
<1>1. \A n \in Nodes : Lengthens(d, c, cmd, n)
  BY LengthsKept
<1>2. ASSUME NEW a \in Agents, NEW token
      PROVE  Renews(d.ownAudit[a], c.ownAudit[a], cmd, a, token)
  <2>1. c.ownAudit[a] \in Seq(OwnRecord)
    BY ControlFields
  <2>2. TokenCount(cmd, a, token) = 0 /\ Cardinality(RenewRecords(c.ownAudit[a], token)) \in Nat
    BY <2>1, RenewalsCounted DEF TokenCount
  <2> QED BY <2>2 DEF Renews
<1> QED BY <1>1, <1>2 DEF Writes

\* A claim, a renewal or a release.
LEMMA OwnerWrites ==
  ASSUME NEW c, IsControlPlane(c), NEW d, NEW a \in Agents, NEW o \in Owner,
         NEW operation \in {"claim", "transfer", "renew", "release"},
         Owns(d, c, a, o, operation),
         NEW cmd, cmd.kind \notin MemberKinds, cmd.kind = "renew" <=> operation = "renew",
         cmd.agent = a, operation = "renew" => cmd.token = o.token
  PROVE  Writes(d, c, cmd)
<1>1. /\ c.ownAudit \in [Agents -> Seq(OwnRecord)] /\ c.owned[a] \in Owner
  BY ControlFields
<1>2. \A n \in Nodes : Lengthens(d, c, cmd, n)
  <2>1. d.memberAudit = c.memberAudit
    BY DEF Owns
  <2> QED BY <2>1, LengthsKept
<1>3. PICK p : p = c.owned[a]
  OBVIOUS
<1>4. PICK e : e = AuditOf(p, o, operation)
  OBVIOUS
<1>5. e \in OwnRecord /\ e.op = operation /\ e.token = o.token
  BY <1>1, <1>3, <1>4 DEF AuditOf, Owner, OwnRecord
<1>6. d.ownAudit = [c.ownAudit EXCEPT ![a] = Append(@, e)]
  BY <1>3, <1>4 DEF Owns, AuditOf
<1>7. /\ d.ownAudit[a] = Append(c.ownAudit[a], e)
      /\ \A b \in Agents \ {a} : d.ownAudit[b] = c.ownAudit[b]
  BY <1>1, <1>6
<1>8. ASSUME NEW b \in Agents, NEW token
      PROVE  Renews(d.ownAudit[b], c.ownAudit[b], cmd, b, token)
  <2>1. c.ownAudit[b] \in Seq(OwnRecord)
    BY <1>1
  <2>2. CASE b # a
    <3>1. TokenCount(cmd, b, token) = 0 /\ Cardinality(RenewRecords(c.ownAudit[b], token)) \in Nat
      BY <2>1, <2>2, RenewalsCounted DEF TokenCount
    <3> QED BY <1>7, <2>2, <3>1 DEF Renews
  <2>3. CASE b = a
    <3>1. PICK h, k : h = c.ownAudit[b] /\ k = d.ownAudit[b]
      OBVIOUS
    <3>2. h \in Seq(OwnRecord) /\ k = Append(h, e)
      BY <1>7, <2>1, <2>3, <3>1
    <3>3. CountsRecord(k, h, e, token)
      BY <1>5, <3>2, RenewRecordsGrow
    <3>4. RecordCount(e, token) = TokenCount(cmd, b, token)
      BY <1>5, <2>3 DEF RecordCount, TokenCount
    <3> QED BY <3>1, <3>3, <3>4 DEF CountsRecord, Renews
  <2> QED BY <2>2, <2>3
<1> QED BY <1>2, <1>8 DEF Writes

\* Before Initialize only barriers have receipts.
OnlyBarriers == ~control.on => \A i \in DOMAIN receipts : receipts[i].kind = "barrier"

AppliedInv == OnlyBarriers /\ (control.on => Applied(control, receipts))

\* A command after Initialize.
LEMMA AppliedCommand ==
  ASSUME TypeOK, AppliedInv, control.on, NEW op, Fresh(op), NEW cmd \in Command, NEW next,
         IsControlPlane(next), Commit(op, cmd, next), next.on = control.on,
         Writes(next, control, cmd)
  PROVE  AppliedInv'
<1>1. receipts \in Seq(Command) /\ control.on = TRUE
  BY ControlFields DEF TypeOK
<1>2. CASE UNCHANGED <<control, receipts>>
  BY <1>2 DEF AppliedInv, OnlyBarriers, Applied, NodeCount
<1>3. CASE control' = next /\ receipts' = Append(receipts, cmd)
  <2>1. Applied(control, receipts)
    BY DEF AppliedInv
  <2>2. PICK q : q = Append(receipts, cmd)
    OBVIOUS
  <2>3. Applied(next, q)
    BY <1>1, <2>1, <2>2, AppliedGrows
  <2>4. Applied(control', receipts')
    BY <1>3, <2>2, <2>3
  <2>5. control'.on = TRUE
    BY <1>1, <1>3
  <2> QED BY <2>4, <2>5 DEF AppliedInv, OnlyBarriers
<1> QED BY <1>2, <1>3, CommitFacts

\* Every step keeps receipts and histories in step.
LEMMA AppliedStep ==
  ASSUME TypeOK, BlankAtStart, AppliedInv, Next
  PROVE  AppliedInv'
<1>1. /\ IsControlPlane(control) /\ control.on \in BOOLEAN /\ "active" \in MemberStates
      /\ \A n \in Nodes : control.members[n].tls \in LeafOrNone
      /\ receipts \in Seq(Command)
  BY ControlFields DEF TypeOK, MemberStates, Member
<1>2. CASE NewTerm
  BY <1>2 DEF NewTerm, AppliedInv, OnlyBarriers
<1>3. CASE AdvanceTime
  <2>1. PICK p \in Proposals : Apply([control EXCEPT !.time = p], receipts)
    BY <1>3 DEF AdvanceTime
  <2>2. /\ control' = control \/ control' = [control EXCEPT !.time = p]
        /\ receipts' = receipts
    BY <2>1 DEF Apply
  <2>3. /\ control'.on = control.on /\ control'.memberAudit = control.memberAudit
        /\ control'.ownAudit = control.ownAudit
    BY <1>1, <2>2 DEF IsControlPlane
  <2>4. Applied(control, receipts) => Applied(control', receipts)
    BY <2>3 DEF Applied
  <2> QED BY <2>2, <2>3, <2>4 DEF AppliedInv, OnlyBarriers
<1>4. ASSUME NEW op, Barrier(op) PROVE AppliedInv'
  <2>1. Fresh(op) /\ Commit(op, [kind |-> "barrier"], control)
    BY <1>4 DEF Barrier
  <2>2. PICK cmd : cmd = [kind |-> "barrier"]
    OBVIOUS
  <2>3. cmd \in Command /\ Commit(op, cmd, control) /\ cmd.kind = "barrier"
    BY <2>1, <2>2, CommandFacts
  <2>4. cmd.kind \notin MemberKinds /\ cmd.kind # "renew"
    BY <2>3 DEF MemberKinds
  <2>5. CASE control.on
    <3>1. Writes(control, control, cmd)
      BY <1>1, <2>4, QuietWrites
    <3> QED BY <1>1, <2>1, <2>3, <2>5, <3>1, AppliedCommand
  <2>6. CASE ~control.on
    <3>1. control' = control /\ (receipts' = receipts \/ receipts' = Append(receipts, cmd))
      BY <1>1, <2>1, <2>3, CommitFacts
    <3>2. \A i \in DOMAIN receipts : receipts[i].kind = "barrier"
      BY <2>6 DEF AppliedInv, OnlyBarriers
    <3>3. CASE receipts' = Append(receipts, cmd)
      <4>1. PICK q : q = Append(receipts, cmd)
        OBVIOUS
      <4>2. Grown(q, receipts, cmd)
        BY <1>1, <2>3, <4>1, Appended
      <4>3. \A i \in DOMAIN q : q[i].kind = "barrier"
        BY <2>3, <3>2, <4>2 DEF Grown
      <4> QED BY <2>6, <3>1, <3>3, <4>1, <4>3 DEF AppliedInv, OnlyBarriers
    <3> QED BY <2>6, <3>1, <3>2, <3>3 DEF AppliedInv, OnlyBarriers
  <2> QED BY <2>5, <2>6
<1>5. ASSUME NEW op, IssueJoinChallenge(op) PROVE AppliedInv'
  <2>1. control.on /\ Fresh(op)
    BY <1>5, ChallengeOutcome
  <2>2. PICK next : /\ IsControlPlane(next) /\ SameRegistry(next, control)
                    /\ SameLeases(next, control)
                    /\ Commit(op, [kind |-> "challenge"], next)
    BY <1>5, ChallengeOutcome
  <2>3. PICK cmd : cmd = [kind |-> "challenge"]
    OBVIOUS
  <2>4. cmd \in Command /\ Commit(op, cmd, next) /\ cmd.kind \notin MemberKinds /\ cmd.kind # "renew"
    BY <2>2, <2>3, CommandFacts DEF MemberKinds
  <2>5. /\ next.memberAudit = control.memberAudit /\ next.ownAudit = control.ownAudit
        /\ next.on = control.on
    BY <2>2 DEF SameRegistry, SameLeases
  <2>6. Writes(next, control, cmd)
    BY <1>1, <2>4, <2>5, QuietWrites
  <2> QED BY <2>1, <2>2, <2>4, <2>5, <2>6, AppliedCommand
<1>6. ASSUME NEW op, Initialize(op) PROVE AppliedInv'
  <2>1. ~control.on /\ Fresh(op)
    BY <1>6, InitializeOutcome
  <2>2. PICK p, next :
          /\ p \in Nat
          /\ IsControlPlane(next) /\ next.on
          /\ next.memberAudit = [n \in Nodes |->
               IF n \in DOMAIN GenesisLeaf
                 THEN <<[gen |-> 1, prevState |-> "none", state |-> "active",
                         prevTls |-> NoLeaf, tls |-> GenesisLeaf[n]]>>
                 ELSE <<>>]
          /\ SameLeases(next, control)
          /\ Commit(op, [kind |-> "initialize"], next)
    BY <1>6, InitializeOutcome
  <2> p \in Nat
    BY <2>2
  <2>3. PICK cmd : cmd = [kind |-> "initialize"]
    OBVIOUS
  <2>4. cmd \in Command /\ Commit(op, cmd, next) /\ cmd.kind = "initialize"
    BY <2>2, <2>3, CommandFacts
  <2>5. \/ UNCHANGED <<control, receipts>>
        \/ control' = next /\ receipts' = Append(receipts, cmd)
    BY <2>1, <2>2, <2>4, CommitFacts
  <2>6. CASE UNCHANGED <<control, receipts>>
    BY <2>6 DEF AppliedInv, OnlyBarriers
  <2>7. CASE control' = next /\ receipts' = Append(receipts, cmd)
    <3>1. PICK q : q = Append(receipts, cmd)
      OBVIOUS
    <3>2. Grown(q, receipts, cmd)
      BY <1>1, <2>4, <3>1, Appended
    <3>3. \A i \in DOMAIN q : q[i].kind \in {"barrier", "initialize"}
      BY <2>1, <2>4, <3>2 DEF AppliedInv, OnlyBarriers, Grown
    <3>4. \A n : MemberReceipts(q, n) = {}
      BY <3>3 DEF MemberReceipts, MemberKinds
    <3>5. \A a, token : RenewReceipts(q, a, token) = {}
      BY <3>3 DEF RenewReceipts
    <3>6. \A a \in Agents : next.ownAudit[a] = <<>>
      BY <2>1, <2>2 DEF BlankAtStart, SameLeases
    <3>7. \A token : RenewRecords(<<>>, token) = {}
      BY DEF RenewRecords
    <3>8. Cardinality({}) = 0
      BY FS_EmptySet
    <3>9. ASSUME NEW n \in Nodes
          PROVE  Len(next.memberAudit[n]) - (IF n \in DOMAIN GenesisLeaf THEN 1 ELSE 0) = 0
      <4>1. CASE n \in DOMAIN GenesisLeaf
        <5>1. PICK v : v = [gen |-> 1, prevState |-> "none", state |-> "active",
                            prevTls |-> NoLeaf, tls |-> GenesisLeaf[n]]
          OBVIOUS
        <5>2. next.memberAudit[n] = <<v>>
          BY <2>2, <4>1, <5>1
        <5>3. Len(<<v>>) = 1
          OBVIOUS
        <5> QED BY <4>1, <5>2, <5>3
      <4>2. CASE n \notin DOMAIN GenesisLeaf
        <5>1. next.memberAudit[n] = <<>>
          BY <2>2, <4>2
        <5>2. Len(<<>>) = 0
          OBVIOUS
        <5> QED BY <4>2, <5>1, <5>2
      <4> QED BY <4>1, <4>2
    <3>10. Applied(next, q)
      BY <3>4, <3>5, <3>6, <3>7, <3>8, <3>9 DEF Applied
    <3>11. next.on = TRUE
      BY <2>2, ControlFields
    <3> QED BY <2>7, <3>1, <3>10, <3>11 DEF AppliedInv, OnlyBarriers
  <2> QED BY <2>5, <2>6, <2>7
<1>7. ASSUME NEW op, NEW n \in Nodes, PrepareRollout(op, n) PROVE AppliedInv'
  <2>1. control.on /\ Fresh(op)
    BY <1>7, PrepareOutcome
  <2>2. PICK now, leaf, ch, next :
          /\ now \in Nat /\ leaf \in Leaves /\ ch \in OpIds
          /\ IsControlPlane(next) /\ SameLeases(next, control)
          /\ Revises(next, control, n, "active", control.members[n].tls, now)
          /\ Commit(op, [kind |-> "prepare", node |-> n, leaf |-> leaf, challenge |-> ch], next)
    BY <1>7, PrepareOutcome
  <2> now \in Nat /\ leaf \in Leaves /\ ch \in OpIds
    BY <2>2
  <2>3. PICK cmd : cmd = [kind |-> "prepare", node |-> n, leaf |-> leaf, challenge |-> ch]
    OBVIOUS
  <2>4. cmd \in Command /\ Commit(op, cmd, next) /\ cmd.kind \in MemberKinds /\ cmd.node = n
    BY <2>2, <2>3, CommandFacts DEF LeafOrNone, MemberKinds
  <2>5. next.on = control.on /\ \A a \in Agents : next.ownAudit[a] = control.ownAudit[a]
    BY <2>2 DEF Revises, SameLeases
  <2>6. Writes(next, control, cmd)
    BY <1>1, <2>2, <2>4, <2>5, MemberWrites
  <2> QED BY <2>1, <2>2, <2>4, <2>5, <2>6, AppliedCommand
<1>8. ASSUME NEW op, NEW n \in Nodes, RegisterMember(op, n) PROVE AppliedInv'
  <2>1. control.on /\ Fresh(op)
    BY <1>8, RegisterOutcome
  <2>2. PICK now, leaf, ch, next :
          /\ now \in Nat /\ leaf \in LeafOrNone /\ ch \in OpIds
          /\ IsControlPlane(next) /\ SameLeases(next, control)
          /\ Revises(next, control, n, "active", leaf, now)
          /\ Commit(op, [kind |-> "register", node |-> n, leaf |-> leaf, challenge |-> ch], next)
    BY <1>8, RegisterOutcome
  <2> now \in Nat /\ leaf \in LeafOrNone /\ ch \in OpIds
    BY <2>2
  <2>3. PICK cmd : cmd = [kind |-> "register", node |-> n, leaf |-> leaf, challenge |-> ch]
    OBVIOUS
  <2>4. cmd \in Command /\ Commit(op, cmd, next) /\ cmd.kind \in MemberKinds /\ cmd.node = n
    BY <2>2, <2>3, CommandFacts DEF MemberKinds
  <2>5. next.on = control.on /\ \A a \in Agents : next.ownAudit[a] = control.ownAudit[a]
    BY <2>2 DEF Revises, SameLeases
  <2>6. Writes(next, control, cmd)
    BY <1>1, <2>2, <2>4, <2>5, MemberWrites
  <2> QED BY <2>1, <2>2, <2>4, <2>5, <2>6, AppliedCommand
<1>9. ASSUME NEW op, NEW n \in Nodes, NEW finish \in {"abort", "finalize"},
             FinishRollout(op, n, finish)
      PROVE  AppliedInv'
  <2>1. control.on /\ Fresh(op)
    BY <1>9, FinishOutcome
  <2>2. PICK now, next :
          /\ now \in Nat
          /\ IsControlPlane(next) /\ SameLeases(next, control)
          /\ Revises(next, control, n, "active", control.members[n].tls, now)
          /\ Commit(op, [kind |-> finish, node |-> n], next)
    BY <1>9, FinishOutcome
  <2> now \in Nat
    BY <2>2
  <2>3. PICK cmd : cmd = [kind |-> finish, node |-> n]
    OBVIOUS
  <2>4. cmd \in Command /\ Commit(op, cmd, next) /\ cmd.kind \in MemberKinds /\ cmd.node = n
    BY <2>2, <2>3, CommandFacts DEF MemberKinds
  <2>5. next.on = control.on /\ \A a \in Agents : next.ownAudit[a] = control.ownAudit[a]
    BY <2>2 DEF Revises, SameLeases
  <2>6. Writes(next, control, cmd)
    BY <1>1, <2>2, <2>4, <2>5, MemberWrites
  <2> QED BY <2>1, <2>2, <2>4, <2>5, <2>6, AppliedCommand
<1>10. ASSUME NEW op, NEW n \in Nodes, NEW state \in {"left", "revoked"},
              SetMemberState(op, n, state)
       PROVE  AppliedInv'
  <2>1. control.on /\ Fresh(op) /\ state \in MemberStates
    BY <1>10, SetStateOutcome DEF MemberStates
  <2>2. PICK now, next :
          /\ now \in Nat
          /\ IsControlPlane(next)
          /\ Frees(next, control, LiveLeases(control, n, now), n, now)
          /\ Revises(next, control, n, state, control.members[n].tls, now)
          /\ Commit(op, [kind |-> "state", node |-> n, state |-> state], next)
    BY <1>10, SetStateOutcome
  <2> now \in Nat
    BY <2>2
  <2>3. PICK cmd : cmd = [kind |-> "state", node |-> n, state |-> state]
    OBVIOUS
  <2>4. cmd \in Command /\ Commit(op, cmd, next) /\ cmd.kind \in MemberKinds /\ cmd.node = n
    BY <2>1, <2>2, <2>3, CommandFacts DEF MemberKinds
  <2>5. next.on = control.on
    BY <2>2 DEF Revises
  <2>6. ASSUME NEW a \in Agents
        PROVE  \/ next.ownAudit[a] = control.ownAudit[a]
               \/ \E e \in OwnRecord : /\ next.ownAudit[a] = Append(control.ownAudit[a], e)
                                       /\ e.op # "renew"
    <3>1. CASE a \notin LiveLeases(control, n, now)
      BY <2>2, <3>1 DEF Frees
    <3>2. CASE a \in LiveLeases(control, n, now)
      <4>1. PICK o : o = control.owned[a]
        OBVIOUS
      <4>2. o \in Owner /\ term \in Nat
        BY <1>1, <4>1, ControlFields DEF TypeOK
      <4>3. PICK e : e = [gen |-> o.gen + 1, prevOwner |-> n, owner |-> n, term |-> term,
                          token |-> o.token, op |-> "release"]
        OBVIOUS
      <4>4. e \in OwnRecord /\ e.op # "renew"
        BY <4>2, <4>3 DEF OwnRecord, Owner, NodeOrNone
      <4>5. next.ownAudit[a] = Append(control.ownAudit[a], e)
        BY <2>2, <3>2, <4>1, <4>3 DEF Frees
      <4> QED BY <4>4, <4>5
    <3> QED BY <3>1, <3>2
  <2>7. Writes(next, control, cmd)
    BY <1>1, <2>1, <2>2, <2>4, <2>6, MemberWrites
  <2> QED BY <2>1, <2>2, <2>4, <2>5, <2>7, AppliedCommand
<1>11. ASSUME NEW op, NEW a \in Agents, NEW n \in Nodes, NEW token \in Nat,
              \/ ClaimOwnership(op, a, n, token) \/ RenewOwnership(op, a, n, token)
              \/ ReleaseOwnership(op, a, n, token)
       PROVE  AppliedInv'
  <2>1. control.on /\ Fresh(op)
    BY <1>11, ClaimOutcome, RenewOutcome, ReleaseOutcome
  <2>2. PICK o, operation, cmd, next :
          /\ o \in Owner /\ operation \in {"claim", "transfer", "renew", "release"} /\ cmd \in Command
          /\ next = SetOwner(control, a, o, operation) /\ Commit(op, cmd, next)
          /\ cmd.kind \in {"claim", "renew", "release"} /\ cmd.agent = a
          /\ cmd.kind = "renew" <=> operation = "renew"
          /\ operation = "renew" => cmd.token = o.token
    <3>1. CASE ClaimOwnership(op, a, n, token)
      <4>1. PICK o, next :
              /\ o \in Owner
              /\ next = SetOwner(control, a, o,
                          IF control.owned[a].state = "none" THEN "claim" ELSE "transfer")
              /\ Commit(op, [kind |-> "claim", agent |-> a, node |-> n, expected |-> token], next)
        BY <3>1, ClaimOutcome
      <4> o \in Owner
        BY <4>1
      <4>2. PICK cmd : cmd = [kind |-> "claim", agent |-> a, node |-> n, expected |-> token]
        OBVIOUS
      <4>3. cmd \in Command /\ cmd.kind = "claim" /\ cmd.agent = a /\ Commit(op, cmd, next)
        BY <4>1, <4>2, CommandFacts
      <4>4. PICK operation \in {"claim", "transfer", "renew", "release"} :
              operation = IF control.owned[a].state = "none" THEN "claim" ELSE "transfer"
        OBVIOUS
      <4>5. next = SetOwner(control, a, o, operation) /\ operation # "renew"
        BY <4>1, <4>4
      <4> QED BY <4>3, <4>5
    <3>2. CASE RenewOwnership(op, a, n, token)
      <4>1. PICK now, o, next :
              /\ now \in Nat /\ o \in Owner
              /\ now > control.time /\ control.owned[a].lease > now
              /\ o = [owner |-> n, term |-> term, token |-> token,
                      gen |-> control.owned[a].gen + 1, state |-> "active",
                      lease |-> now + LeaseTtl, updated |-> now]
              /\ next = SetOwner(control, a, o, "renew")
              /\ Commit(op, [kind |-> "renew", agent |-> a, node |-> n, token |-> token], next)
        BY <3>2, RenewOutcome
      <4> now \in Nat /\ o \in Owner
        BY <4>1
      <4>2. PICK cmd : cmd = [kind |-> "renew", agent |-> a, node |-> n, token |-> token]
        OBVIOUS
      <4>3. /\ cmd \in Command /\ cmd.kind = "renew" /\ cmd.agent = a /\ cmd.token = token
            /\ Commit(op, cmd, next) /\ o.token = token
        BY <4>1, <4>2, CommandFacts
      <4> QED BY <4>1, <4>3
    <3>3. CASE ReleaseOwnership(op, a, n, token)
      <4>1. PICK o, next :
              /\ o \in Owner
              /\ next = SetOwner(control, a, o, "release")
              /\ Commit(op, [kind |-> "release", agent |-> a, node |-> n, token |-> token], next)
        BY <3>3, ReleaseOutcome
      <4> o \in Owner
        BY <4>1
      <4>2. PICK cmd : cmd = [kind |-> "release", agent |-> a, node |-> n, token |-> token]
        OBVIOUS
      <4>3. cmd \in Command /\ cmd.kind = "release" /\ cmd.agent = a /\ Commit(op, cmd, next)
        BY <4>1, <4>2, CommandFacts
      <4> QED BY <4>1, <4>3
    <3> QED BY <1>11, <3>1, <3>2, <3>3
  <2> o \in Owner /\ operation \in {"claim", "transfer", "renew", "release"} /\ cmd \in Command
    BY <2>2
  <2>3. next = SetOwner(control, a, o, operation)
    BY <2>2
  <2>4. IsControlPlane(next) /\ Owns(next, control, a, o, operation)
    BY <1>1, <2>3, SetOwnerFacts
  <2>5. next.on = control.on /\ cmd.kind \notin MemberKinds
    BY <2>2, <2>4 DEF Owns, MemberKinds
  <2>6. Writes(next, control, cmd)
    BY <1>1, <2>2, <2>4, <2>5, OwnerWrites
  <2> QED BY <2>1, <2>2, <2>4, <2>5, <2>6, AppliedCommand
<1>12. \A token \in 0..MaxReceipts : token \in Nat
  BY AuthorityConstants
<1> QED BY <1>2, <1>3, <1>4, <1>5, <1>6, <1>7, <1>8, <1>9, <1>10, <1>11, <1>12 DEF Next

\* apply_authority_command answers a retried operation from its receipt: a
\* member has one revision per receipt that revises it, and a token one renewal
\* per receipt that names it.
THEOREM ReceiptsAreExact == Spec => []AppliedOnce
<1>1. Init => AppliedInv
  BY DEF Init, AppliedInv, OnlyBarriers
<1>2. LeaseInv /\ AppliedInv /\ [Next]_vars => AppliedInv'
  <2> SUFFICES ASSUME LeaseInv, AppliedInv, [Next]_vars PROVE AppliedInv'
    OBVIOUS
  <2>1. CASE Next
    BY <2>1, AppliedStep DEF LeaseInv
  <2>2. CASE UNCHANGED vars
    BY <2>2 DEF vars, AppliedInv, OnlyBarriers
  <2> QED BY <2>1, <2>2
<1>3. AppliedInv => AppliedOnce
  BY DEF AppliedInv, Applied, MemberReceipts, RenewReceipts, RenewRecords, AppliedOnce
<1> QED BY <1>1, <1>2, <1>3, LeasesAreInductive, PTL DEF Spec

==============================================================================
