--------------------------- MODULE ToolGateProofs ---------------------------
(***************************************************************************)
(* For every set of agents, groups and changes and every finite set of     *)
(* calls: a tool call is admitted only under the authority in force when   *)
(* it enters, although the MAC engine is not covered by the lock of the    *)
(* gate; the counters count exactly the calls in progress; a drained agent *)
(* has none; and an approval is used once and not after its revocation.    *)
(***************************************************************************)
EXTENDS ToolGate, FiniteSetTheorems, TLAPS

\* What the code between the snapshot and the verdict has established about
\* the snapshot of a call.
Checked(s) ==
  /\ s.agent.reg > 0 /\ s.agent.accepting /\ s.agent.capable
  /\ s.tag.set => s.agent.member
  /\ s.mac \in Nat /\ s.mac <= clock

Judging == {"mac", "approval", "acquire"}
Places == Judging \cup {"idle", "admitted", "running", "ending"}
Guards == {"none", "live", "revoked"}

TypesOfGate ==
  /\ clock \in Nat
  /\ mac \in [allows : BOOLEAN, revision : Nat, locked : BOOLEAN] /\ mac.revision <= clock
  /\ pc \in [Calls -> Places]
  /\ snap \in [Calls -> {snap[c] : c \in Calls}]
  /\ guard \in [Calls -> Guards]

SnapshotsChecked == \A c \in Calls : pc[c] \in Judging => Checked(snap[c])

\* The verdict of a call that has one is still right if the revision of its
\* snapshot is: nobody changes the policy under a revision that a verdict has
\* been given for.
VerdictsCurrent ==
  \A c \in Calls : pc[c] \in {"approval", "acquire"} /\ snap[c].mac = mac.revision
                     => mac.allows /\ ~mac.locked

GateInv == TypesOfGate /\ SnapshotsChecked /\ VerdictsCurrent

\* A step that touches neither the calls nor the engine and takes at most one
\* number from the clock.
Aside ==
  /\ UNCHANGED <<pc, snap, guard, mac>>
  /\ clock' = clock \/ clock' = clock + 1

\* The gate starts in order.
LEMMA InitGate == Init => GateInv
<1> SUFFICES ASSUME Init PROVE GateInv
  OBVIOUS
<1>1. snap \in [Calls -> {snap[c] : c \in Calls}]
  BY DEF Init
<1>2. \A c \in Calls : pc[c] = "idle"
  BY DEF Init
<1> QED BY <1>1, <1>2 DEF Init, GateInv, TypesOfGate, Places, Guards, SnapshotsChecked, VerdictsCurrent, Judging

\* Steps that leave the gate alone keep it in order.
LEMMA AsideKeeps == GateInv /\ Aside => GateInv'
BY DEF Aside, GateInv, TypesOfGate, Places, Guards, SnapshotsChecked, VerdictsCurrent, Judging, Checked

\* The three shapes of a step of a call.
LEMMA CallLeaves ==
  ASSUME GateInv, NEW c \in Calls, UNCHANGED <<clock, mac>>,
         NEW to \in Places \ Judging, pc' = [pc EXCEPT ![c] = to],
         snap' = snap \/ snap' = [snap EXCEPT ![c] = NoSnapshot],
         guard' \in [Calls -> Guards]
  PROVE  GateInv'
<1>0. \A d \in Calls : d # c => pc'[d] = pc[d] /\ snap'[d] = snap[d]
  BY DEF GateInv, TypesOfGate, Places, Guards
<1>a. pc'[c] = to
  BY DEF GateInv, TypesOfGate, Places, Guards
<1>1. TypesOfGate'
  <2>1. snap' \in [Calls -> {snap'[d] : d \in Calls}]
    BY DEF GateInv, TypesOfGate, Places, Guards
  <2> QED BY <2>1 DEF GateInv, TypesOfGate, Places, Guards
<1>2. SnapshotsChecked'
  BY <1>0, <1>a DEF GateInv, SnapshotsChecked, Checked
<1>3. VerdictsCurrent'
  BY <1>0, <1>a DEF GateInv, VerdictsCurrent, Judging, Places
<1> QED BY <1>1, <1>2, <1>3 DEF GateInv

\* A call goes on between two judgements: what it has checked still holds.
LEMMA CallIsJudged ==
  ASSUME GateInv, NEW c \in Calls, UNCHANGED <<clock, mac, snap, guard>>,
         pc[c] \in Judging, NEW to \in Judging, pc' = [pc EXCEPT ![c] = to],
         snap[c].mac = mac.revision => mac.allows /\ ~mac.locked
  PROVE  GateInv'
<1>0. \A d \in Calls : d # c => pc'[d] = pc[d]
  BY DEF GateInv, TypesOfGate, Places, Guards
<1>1. TypesOfGate'
  BY DEF GateInv, TypesOfGate, Places, Guards, Judging
<1>2. SnapshotsChecked'
  BY <1>0 DEF GateInv, SnapshotsChecked, Checked
<1>3. VerdictsCurrent'
  BY <1>0 DEF GateInv, VerdictsCurrent
<1> QED BY <1>1, <1>2, <1>3 DEF GateInv

\* The mutations under the lock of the gate and the steps of lifecycle
\* operations that revoke no guard are aside.
LEMMA MutationsAside ==
  /\ TagTool => Aside
  /\ \A a \in Agents : (Register(a) \/ SetAuthorization(a) \/ Grant(a) \/ Revoke(a) \/ Move(a))
                         => Aside
  /\ \A a \in Agents : (StartDrain(a) \/ Close(a) \/ Enable(a) \/ Check(a) \/ Reopen(a)
                          \/ Unregister(a)) => Aside
  /\ \A g \in Groups : (UpdateLimits(g) \/ CreateGroup(g) \/ RemoveEmptyLeaf(g)) => Aside
<1>1. TagTool => Aside
  BY DEF TagTool, Change, Aside, calls
<1>2. ASSUME NEW a \in Agents,
             Register(a) \/ SetAuthorization(a) \/ Grant(a) \/ Revoke(a) \/ Move(a)
      PROVE  Aside
  BY <1>2 DEF Register, SetAuthorization, Grant, Revoke, Move, Change, Aside, calls
<1>3. ASSUME NEW a \in Agents,
             \/ StartDrain(a) \/ Close(a) \/ Enable(a) \/ Check(a) \/ Reopen(a) \/ Unregister(a)
      PROVE  Aside
  BY <1>3 DEF StartDrain, Close, Enable, Check, Reopen, Unregister, Change, Aside, calls
<1>4. ASSUME NEW g \in Groups, UpdateLimits(g) \/ CreateGroup(g) \/ RemoveEmptyLeaf(g)
      PROVE  Aside
  BY <1>4 DEF UpdateLimits, CreateGroup, RemoveEmptyLeaf, Change, Aside, calls
<1> QED BY <1>1, <1>2, <1>3, <1>4

\* A step is one of the MAC, of a call or of a forced removal, or leaves the gate alone.
LEMMA StepsOfGate ==
  [Next]_vars => \/ MacAdvance \/ MacMutate \/ Aside \/ UNCHANGED vars
                 \/ \E c \in Calls : CallStep(c)
                 \/ \E a \in Agents : ForceUnregister(a)
<1> SUFFICES ASSUME Next
             PROVE  \/ MacAdvance \/ MacMutate \/ Aside
                    \/ \E c \in Calls : CallStep(c)
                    \/ \E a \in Agents : ForceUnregister(a)
  BY Zenon
<1>1. ASSUME NEW a \in Agents,
             Register(a) \/ SetAuthorization(a) \/ Grant(a) \/ Revoke(a) \/ Move(a) \/ LifeStep(a)
      PROVE  Aside \/ ForceUnregister(a)
  BY <1>1, MutationsAside DEF LifeStep
<1>2. ASSUME NEW g \in Groups, UpdateLimits(g) \/ CreateGroup(g) \/ RemoveEmptyLeaf(g)
      PROVE  Aside
  BY <1>2, MutationsAside
<1> QED BY <1>1, <1>2, MutationsAside, Zenon DEF Next

\* Every step keeps the gate in order.
LEMMA NextGate == GateInv /\ [Next]_vars => GateInv'
<1> SUFFICES ASSUME GateInv, [Next]_vars PROVE GateInv'
  OBVIOUS
<1>1. CASE MacAdvance
  <2>1. /\ clock' = clock + 1 /\ UNCHANGED <<pc, snap, guard>>
        /\ mac' = [allows |-> mac.allows, revision |-> clock + 1, locked |-> TRUE]
    BY <1>1 DEF MacAdvance, Change, calls, GateInv, TypesOfGate, Places, Guards
  <2> QED BY <2>1 DEF GateInv, TypesOfGate, Places, Guards, SnapshotsChecked, VerdictsCurrent, Judging, Checked
<1>2. CASE MacMutate
  <2>1. /\ clock' = clock /\ UNCHANGED <<pc, snap, guard>> /\ mac.locked
        /\ mac' = [allows |-> ~mac.allows, revision |-> mac.revision, locked |-> FALSE]
    BY <1>2 DEF MacMutate, calls, GateInv, TypesOfGate, Places, Guards
  <2> QED BY <2>1 DEF GateInv, TypesOfGate, Places, Guards, SnapshotsChecked, VerdictsCurrent, Judging, Checked
<1>3. ASSUME NEW c \in Calls, Begin(c) PROVE GateInv'
  <2>1. /\ clock' = clock /\ UNCHANGED <<guard, mac>>
        /\ pc' = [pc EXCEPT ![c] = "mac"]
        /\ snap' = [snap EXCEPT ![c] = Snapshot(Caller[c])]
    BY <1>3 DEF Begin
  <2>2. Checked(Snapshot(Caller[c]))
    BY <1>3 DEF Begin, Snapshot, Registered, Checked, GateInv, TypesOfGate, Places, Guards
  <2>3. /\ pc'[c] = "mac" /\ snap'[c] = Snapshot(Caller[c])
        /\ \A d \in Calls : d # c => pc'[d] = pc[d] /\ snap'[d] = snap[d]
    BY <2>1 DEF GateInv, TypesOfGate, Places, Guards
  <2>4. TypesOfGate'
    <3>1. snap' \in [Calls -> {snap'[d] : d \in Calls}]
      BY <2>1 DEF GateInv, TypesOfGate, Places, Guards
    <3>2. pc' \in [Calls -> Places]
      BY <2>1 DEF GateInv, TypesOfGate, Places, Judging
    <3> QED BY <2>1, <3>1, <3>2 DEF GateInv, TypesOfGate
  <2>5. SnapshotsChecked'
    BY <2>1, <2>2, <2>3 DEF GateInv, SnapshotsChecked, Checked
  <2>6. VerdictsCurrent'
    BY <2>1, <2>3 DEF GateInv, VerdictsCurrent
  <2> QED BY <2>4, <2>5, <2>6 DEF GateInv
<1>4. ASSUME NEW c \in Calls, MacCheck(c) PROVE GateInv'
  <2>1. CASE mac.allows
    BY <1>4, <2>1, CallIsJudged DEF MacCheck, Judging, Places
  <2>2. CASE ~mac.allows
    <3>1. /\ UNCHANGED <<clock, mac, guard>> /\ pc' = [pc EXCEPT ![c] = "idle"]
          /\ snap' = [snap EXCEPT ![c] = NoSnapshot]
      BY <1>4, <2>2 DEF MacCheck, Deny
    <3> QED BY <3>1, CallLeaves DEF Judging, Places, Guards, GateInv, TypesOfGate
  <2> QED BY <2>1, <2>2
<1>5. ASSUME NEW c \in Calls, CheckApproval(c) PROVE GateInv'
  <2>1. UNCHANGED <<clock, mac, guard>> /\ pc[c] = "approval"
    BY <1>5 DEF CheckApproval, Deny
  <2>2. CASE pc' = [pc EXCEPT ![c] = "acquire"] /\ snap' = snap
    <3>1. snap[c].mac = mac.revision => mac.allows /\ ~mac.locked
      BY <2>1 DEF GateInv, VerdictsCurrent
    <3> QED BY <2>1, <2>2, <3>1, CallIsJudged DEF Judging, Places
  <2>3. CASE pc' = [pc EXCEPT ![c] = "idle"] /\ snap' = [snap EXCEPT ![c] = NoSnapshot]
    BY <2>1, <2>3, CallLeaves DEF Judging, Places, Guards, GateInv, TypesOfGate
  <2> QED BY <1>5, <2>2, <2>3 DEF CheckApproval, Deny
<1>6. ASSUME NEW c \in Calls, Acquire(c) PROVE GateInv'
  <2>1. UNCHANGED <<clock, mac>>
    BY <1>6 DEF Acquire
  <2>2. CASE /\ pc' = [pc EXCEPT ![c] = "admitted"] /\ snap' = snap
             /\ guard' = [guard EXCEPT ![c] = "live"]
    <3>1. guard' \in [Calls -> Guards]
      BY <2>2 DEF GateInv, TypesOfGate, Places, Guards
    <3> QED BY <2>1, <2>2, <3>1, CallLeaves DEF Judging, Places
  <2>3. CASE /\ pc' = [pc EXCEPT ![c] = "idle"] /\ snap' = [snap EXCEPT ![c] = NoSnapshot]
             /\ guard' = guard
    BY <2>1, <2>3, CallLeaves DEF Judging, Places, Guards, GateInv, TypesOfGate
  <2> QED BY <1>6, <2>2, <2>3 DEF Acquire, Deny
<1>7. ASSUME NEW c \in Calls, Consume(c) \/ Finish(c) PROVE GateInv'
  <2>1. /\ UNCHANGED <<clock, mac, snap, guard>>
        /\ \/ pc' = [pc EXCEPT ![c] = "running"]
           \/ pc' = [pc EXCEPT ![c] = "ending"]
    BY <1>7 DEF Consume, Finish
  <2> QED BY <2>1, CallLeaves DEF Judging, Places, Guards, GateInv, TypesOfGate
<1>8. ASSUME NEW c \in Calls, Release(c) PROVE GateInv'
  <2>1. /\ UNCHANGED <<clock, mac>> /\ pc' = [pc EXCEPT ![c] = "idle"]
        /\ snap' = [snap EXCEPT ![c] = NoSnapshot] /\ guard' = [guard EXCEPT ![c] = "none"]
    BY <1>8 DEF Release
  <2>2. guard' \in [Calls -> Guards]
    BY <2>1 DEF GateInv, TypesOfGate, Places, Guards
  <2> QED BY <2>1, <2>2, CallLeaves DEF Judging, Places
<1>9. ASSUME NEW a \in Agents, ForceUnregister(a) PROVE GateInv'
  <2>1. /\ UNCHANGED <<clock, mac, pc, snap>>
        /\ guard' = [c \in Calls |-> IF Caller[c] = a /\ guard[c] = "live" THEN "revoked"
                                     ELSE guard[c]]
    BY <1>9 DEF ForceUnregister
  <2>2. guard' \in [Calls -> Guards]
    BY <2>1 DEF GateInv, TypesOfGate, Places, Guards
  <2> QED BY <2>1, <2>2 DEF GateInv, TypesOfGate, Places, Guards, SnapshotsChecked, VerdictsCurrent, Checked
<1>10. CASE Aside
  BY <1>10, AsideKeeps
<1>11. CASE UNCHANGED vars
  BY <1>11, AsideKeeps DEF vars, calls, Aside
<1> QED
  BY <1>1, <1>2, <1>3, <1>4, <1>5, <1>6, <1>7, <1>8, <1>9, <1>10, <1>11, StepsOfGate, Zenon
     DEF CallStep

\* A call that gets its guard gets it in Acquire.
LEMMA OnlyAcquireAdmits ==
  ASSUME GateInv, [Next]_vars, NEW c \in Calls, guard[c] = "none", guard'[c] = "live"
  PROVE  Acquire(c)
<1> USE DEF GateInv, TypesOfGate, Places, Guards
<1>1. ASSUME NEW d \in Calls, Acquire(d) PROVE d = c
  <2>1. guard' = guard \/ guard' = [guard EXCEPT ![d] = "live"]
    BY <1>1 DEF Acquire, Deny
  <2> QED BY <2>1
<1>2. ASSUME NEW d \in Calls,
             Begin(d) \/ MacCheck(d) \/ CheckApproval(d) \/ Consume(d) \/ Finish(d)
      PROVE  FALSE
  <2>1. guard' = guard
    BY <1>2 DEF Begin, MacCheck, CheckApproval, Consume, Finish, Deny
  <2> QED BY <2>1
<1>3. ASSUME NEW d \in Calls, Release(d) PROVE FALSE
  <2>1. guard' = [guard EXCEPT ![d] = "none"]
    BY <1>3 DEF Release
  <2> QED BY <2>1
<1>4. ASSUME NEW a \in Agents, ForceUnregister(a) PROVE FALSE
  <2>1. guard' = [e \in Calls |-> IF Caller[e] = a /\ guard[e] = "live" THEN "revoked"
                                  ELSE guard[e]]
    BY <1>4 DEF ForceUnregister
  <2> QED BY <2>1
<1>5. ~MacAdvance /\ ~MacMutate /\ ~Aside /\ ~UNCHANGED vars
  BY DEF MacAdvance, MacMutate, Aside, vars, calls
<1> QED
  BY <1>1, <1>2, <1>3, <1>4, <1>5, StepsOfGate, Zenon DEF CallStep

\* The inductive invariant of the revision protocol.
THEOREM GateInvariant == Spec => []GateInv
BY InitGate, NextGate, PTL DEF Spec

\* A call that was judged earlier enters only under the authority in force:
\* its registration, capability, namespace and the gate by comparison of the
\* snapshot, the MAC policy because its revision is advanced before it changes.
THEOREM AdmissionIsCurrent == Spec => AdmittedUnderCurrentAuthority
<1>1. ASSUME GateInv, [Next]_vars, NEW c \in Calls, guard[c] = "none", guard'[c] = "live"
      PROVE  LET r == record[Caller[c]] IN
             /\ r.reg = snap[c].agent.reg /\ r.accepting /\ r.capable
             /\ tag.set => r.member
             /\ mac.allows
  <2>1. Acquire(c)
    BY <1>1, OnlyAcquireAdmits
  <2>2. pc[c] = "acquire" /\ snap[c] = Snapshot(Caller[c])
    <3>1. CASE Registered(Caller[c]) /\ Unchanged(c)
               /\ \A g \in Path(snap[c].agent.cgroup) : HasRoom(g)
      BY <2>1, <3>1 DEF Acquire, Unchanged
    <3>2. CASE ~(Registered(Caller[c]) /\ Unchanged(c)
                 /\ \A g \in Path(snap[c].agent.cgroup) : HasRoom(g))
      <4>1. guard' = guard
        BY <2>1, <3>2 DEF Acquire, Deny
      <4> QED BY <1>1, <4>1
    <3> QED BY <3>1, <3>2
  <2>3. snap[c].agent = record[Caller[c]] /\ snap[c].tag = tag /\ snap[c].mac = mac.revision
    BY <2>2 DEF Snapshot
  <2>4. Checked(snap[c]) /\ mac.allows
    BY <1>1, <2>2, <2>3 DEF GateInv, SnapshotsChecked, VerdictsCurrent, Judging, Places
  <2> QED BY <2>3, <2>4 DEF Checked
<1>2. GateInv /\ [Next]_vars => [\A c \in Calls : guard[c] = "none" /\ guard'[c] = "live" =>
        LET r == record[Caller[c]] IN
        /\ r.reg = snap[c].agent.reg /\ r.accepting /\ r.capable
        /\ tag.set => r.member
        /\ mac.allows]_vars
  BY <1>1
<1> QED BY <1>2, GateInvariant, PTL DEF Spec, AdmittedUnderCurrentAuthority

-----------------------------------------------------------------------------
(* Accounting, drains and approvals.                                       *)

GateRecord ==
  [reg : Nat \ {0}, auth : Nat, cgroup : Groups, moved : Nat,
   accepting : BOOLEAN, capable : BOOLEAN, member : BOOLEAN]

Draining == {"enable", "check", "recheck", "await", "quiet"}
Lives == Draining \cup {"gone", "live", "close"}

RecordTypes == record \in [Agents -> GateRecord \cup {None}] /\ life \in [Agents -> Lives]

\* An agent has a record until its lifecycle is over, and its gate is closed
\* from the beginning of the wait to its end.
LifeMatches == \A a \in Agents : life[a] = "gone" <=> record[a] = None
GateClosed == \A a \in Agents : life[a] \in Draining => ~record[a].accepting

\* A call has a guard from its admission to its release, and a guard that
\* counts is of the registration and the group that its agent has now.
Holders == {"admitted", "running", "ending"}
SnapshotTypes == \A c \in Calls : pc[c] # "idle" => snap[c].agent \in GateRecord
GuardPlaces == \A c \in Calls : guard[c] # "none" <=> pc[c] \in Holders
GuardsCurrent ==
  \A c \in Calls : guard[c] = "live" =>
    /\ record[Caller[c]] \in GateRecord
    /\ snap[c].agent.reg = record[Caller[c]].reg
    /\ snap[c].agent.cgroup = record[Caller[c]].cgroup

RosterInv ==
  /\ RecordTypes /\ LifeMatches /\ GateClosed
  /\ SnapshotTypes /\ GuardPlaces /\ GuardsCurrent

GroupTypes ==
  /\ group \in [Groups -> [exists : BOOLEAN, limit : Nat, active : Nat]]
  /\ by_agent \in [Agents -> Nat]
  /\ group[Root].exists

CountsInv == GroupTypes /\ ToolAccounting

QuietInv == \A a \in Agents : life[a] = "quiet" => by_agent[a] = 0

\* A pending approval is of the present registration and has seen every
\* revocation, so there is at most one; an active lease is of a call that runs
\* under such an approval; and what is pending or used was granted.
Pending(a) == {p \in approvals : p.agent = a}
ApprovalTypes ==
  /\ grants \in [Agents -> Nat] /\ uses \in [Agents -> Nat] /\ revocations \in [Agents -> Nat]
  /\ seen \in [Calls -> Nat] /\ lease \in [Calls -> {"none", "active", "cancelled"}]
ApprovalsFresh ==
  \A p \in approvals :
    /\ p.agent \in Agents /\ record[p.agent] \in GateRecord
    /\ p = [agent |-> p.agent, reg |-> record[p.agent].reg, seen |-> revocations[p.agent]]
LeasesCurrent ==
  \A c \in Calls : lease[c] = "active" =>
    /\ pc[c] = "running" /\ seen[c] = revocations[Caller[c]]
    /\ record[Caller[c]] \in GateRecord /\ snap[c].agent.reg = record[Caller[c]].reg
UsesGranted ==
  \A a \in Agents : uses[a] <= grants[a] /\ (Pending(a) # {} => uses[a] < grants[a])

ApprovalInv == ApprovalTypes /\ ApprovalsFresh /\ LeasesCurrent /\ UsesGranted

ToolInv == GateInv /\ RosterInv /\ CountsInv /\ QuietInv /\ ApprovalInv

\* The tools start in order.
LEMMA InitTool == Init => ToolInv
<1> SUFFICES ASSUME Init PROVE ToolInv
  OBVIOUS
<1>1. GateInv
  BY InitGate
<1>2. RosterInv
  BY GateConstants DEF Init, RosterInv, RecordTypes, LifeMatches, GateClosed, SnapshotTypes, GuardPlaces,
     GuardsCurrent, Lives, Draining, Holders
<1>3. CountsInv
  <2>1. \A a \in Agents : Live(a) = {}
    BY DEF Init, Live
  <2>2. \A g \in Groups : Charged(g) = {}
    BY DEF Init, Charged
  <2>3. GroupTypes
    BY GateConstants DEF Init, GroupTypes
  <2>4. \A a \in Agents : ~Registered(a)
    BY DEF Init, Registered, None
  <2>5. /\ \A a \in Agents : by_agent[a] = 0
        /\ \A g \in Groups : group[g].active = 0 /\ group[g].limit = 0
    BY DEF Init
  <2> QED BY <2>1, <2>2, <2>3, <2>4, <2>5, FS_EmptySet DEF CountsInv, ToolAccounting
<1>4. QuietInv
  BY DEF Init, QuietInv
<1>5. ApprovalInv
  BY DEF Init, ApprovalInv, ApprovalTypes, ApprovalsFresh, LeasesCurrent, UsesGranted, Pending
<1> QED BY <1>1, <1>2, <1>3, <1>4, <1>5 DEF ToolInv

\* An agent that the counter finds without calls has none.
LEMMA NoCalls ==
  ASSUME CountsInv, NEW a \in Agents
  PROVE  IsFiniteSet(Live(a)) /\ (by_agent[a] = 0 <=> Live(a) = {})
<1>1. IsFiniteSet(Live(a))
  BY GateConstants, FS_Subset DEF Live
<1> QED BY <1>1, FS_EmptySet DEF CountsInv, ToolAccounting

\* A registered agent has a record, and None is no record.
LEMMA RecordOf ==
  ASSUME RosterInv, NEW a \in Agents
  PROVE  /\ Registered(a) => record[a] \in GateRecord /\ life[a] # "gone"
         /\ record[a] \in GateRecord => Registered(a)
         /\ life[a] # "gone" => record[a] \in GateRecord
         /\ None \notin GateRecord
<1>1. None \notin GateRecord /\ None.reg = 0
  BY DEF None, GateRecord
<1>2. record[a] \in GateRecord \/ record[a] = None
  BY DEF RosterInv, RecordTypes
<1>3. record[a] \in GateRecord => record[a].reg > 0
  BY DEF GateRecord
<1> QED BY <1>1, <1>2, <1>3 DEF RosterInv, LifeMatches, Registered

\* A lifecycle step or a mutation gives one agent a record r and a life l.
Puts(a, r, l) ==
  /\ record' = [record EXCEPT ![a] = r] /\ life' = [life EXCEPT ![a] = l]
  /\ UNCHANGED <<pc, snap, guard>>

\* The gate record of one agent changes: what runs stays with its registration and group.
LEMMA RecordStep ==
  ASSUME RosterInv, GateInv, NEW a \in Agents,
         NEW r \in GateRecord \cup {None}, NEW l \in Lives, Puts(a, r, l),
         l = "gone" <=> r = None, l \in Draining => ~r.accepting,
         \/ Live(a) = {}
         \/ r \in GateRecord /\ r.reg = record[a].reg /\ r.cgroup = record[a].cgroup
  PROVE  RosterInv'
<1>1. /\ record'[a] = r /\ life'[a] = l
      /\ \A b \in Agents : b # a => record'[b] = record[b] /\ life'[b] = life[b]
  BY DEF Puts, RosterInv, RecordTypes
<1>2. RecordTypes'
  BY DEF Puts, RosterInv, RecordTypes
<1>3. LifeMatches' /\ GateClosed'
  BY <1>1 DEF RosterInv, LifeMatches, GateClosed
<1>4. SnapshotTypes' /\ GuardPlaces'
  BY DEF Puts, RosterInv, SnapshotTypes, GuardPlaces
<1>5. GuardsCurrent'
  <2> SUFFICES ASSUME NEW c \in Calls, guard[c] = "live"
               PROVE  /\ record'[Caller[c]] \in GateRecord
                      /\ snap[c].agent.reg = record'[Caller[c]].reg
                      /\ snap[c].agent.cgroup = record'[Caller[c]].cgroup
    BY DEF GuardsCurrent, Puts
  <2>1. Caller[c] \in Agents
    BY GateConstants
  <2>2. CASE Caller[c] # a
    BY <2>1, <2>2, <1>1 DEF RosterInv, GuardsCurrent
  <2>3. CASE Caller[c] = a
    <3>1. c \in Live(a)
      BY <2>3 DEF Live
    <3> QED BY <3>1, <2>3, <1>1 DEF RosterInv, GuardsCurrent
  <2> QED BY <2>2, <2>3
<1> QED BY <1>2, <1>3, <1>4, <1>5 DEF RosterInv

\* A call goes to another place with a snapshot and a guard.
Goes(c, to, s, gd) ==
  /\ pc' = [pc EXCEPT ![c] = to] /\ snap' = [snap EXCEPT ![c] = s]
  /\ guard' = [guard EXCEPT ![c] = gd]

\* Waking the drains starts and ends none, and makes no agent quiet.
LEMMA NotifiedLives ==
  ASSUME RosterInv
  PROVE  /\ Notified \in [Agents -> Lives]
         /\ \A a \in Agents : /\ Notified[a] = "gone" <=> life[a] = "gone"
                              /\ Notified[a] \in Draining <=> life[a] \in Draining
                              /\ Notified[a] = "quiet" => life[a] = "quiet"
  BY DEF Notified, RosterInv, RecordTypes, Lives, Draining

\* A step of one call keeps the roster.
LEMMA CallRoster ==
  ASSUME RosterInv, GateInv, NEW c \in Calls, record' = record,
         life' = life \/ life' = Notified,
         NEW to \in Places, NEW s, NEW gd \in Guards, Goes(c, to, s, gd),
         to # "idle" => s.agent \in GateRecord,
         gd # "none" <=> to \in Holders,
         gd = "live" => /\ record[Caller[c]] \in GateRecord
                        /\ s.agent.reg = record[Caller[c]].reg
                        /\ s.agent.cgroup = record[Caller[c]].cgroup
  PROVE  RosterInv'
<1>1. /\ pc'[c] = to /\ snap'[c] = s /\ guard'[c] = gd
      /\ \A d \in Calls : d # c => pc'[d] = pc[d] /\ snap'[d] = snap[d] /\ guard'[d] = guard[d]
  BY DEF Goes, GateInv, TypesOfGate
<1>2. RecordTypes' /\ LifeMatches' /\ GateClosed'
  BY NotifiedLives DEF RosterInv, RecordTypes, LifeMatches, GateClosed
<1>3. SnapshotTypes' /\ GuardPlaces'
  BY <1>1 DEF RosterInv, SnapshotTypes, GuardPlaces
<1>4. GuardsCurrent'
  BY <1>1 DEF RosterInv, GuardsCurrent
<1> QED BY <1>2, <1>3, <1>4 DEF RosterInv

\* What each mutation and lifecycle step puts in place of a record.
Amends(a, r) ==
  /\ r \in GateRecord /\ r.reg = record[a].reg /\ r.cgroup = record[a].cgroup

\* set_authorization amends the record and leaves open whether it accepts calls.
LEMMA SetAuthorizationPuts ==
  ASSUME RosterInv, NEW a \in Agents, SetAuthorization(a), clock \in Nat
  PROVE  \E r : Amends(a, r) /\ r.accepting = record[a].accepting /\ Puts(a, r, life[a])
<1>1. record[a] \in GateRecord /\ clock' \in Nat
  BY RecordOf DEF SetAuthorization, Change
<1>2. UNCHANGED <<pc, snap, guard, life>>
  BY DEF SetAuthorization, calls
<1>3. life' = [life EXCEPT ![a] = life[a]]
  BY <1>2 DEF RosterInv, RecordTypes
<1>4. CASE record' = [record EXCEPT ![a].capable = ~@, ![a].auth = clock']
  <2>1. PICK r : r = [record[a] EXCEPT !.capable = ~@, !.auth = clock']
    OBVIOUS
  <2>2. Amends(a, r) /\ r.accepting = record[a].accepting
    BY <1>1, <2>1 DEF GateRecord, Amends
  <2>3. record' = [record EXCEPT ![a] = r]
    BY <1>4, <2>1 DEF RosterInv, RecordTypes
  <2> QED BY <1>2, <1>3, <2>2, <2>3 DEF Puts
<1>5. CASE record' = [record EXCEPT ![a].member = ~@, ![a].auth = clock']
  <2>1. PICK r : r = [record[a] EXCEPT !.member = ~@, !.auth = clock']
    OBVIOUS
  <2>2. Amends(a, r) /\ r.accepting = record[a].accepting
    BY <1>1, <2>1 DEF GateRecord, Amends
  <2>3. record' = [record EXCEPT ![a] = r]
    BY <1>5, <2>1 DEF RosterInv, RecordTypes
  <2> QED BY <1>2, <1>3, <2>2, <2>3 DEF Puts
<1> QED BY <1>4, <1>5 DEF SetAuthorization

\* An agent changes its group only while none of its tools runs.
LEMMA MovePuts ==
  ASSUME RosterInv, NEW a \in Agents, Move(a), clock \in Nat
  PROVE  /\ by_agent[a] = 0 /\ record[a] \in GateRecord
         /\ \E r \in GateRecord :
              /\ r.accepting = record[a].accepting /\ r.reg = record[a].reg
              /\ group[r.cgroup].exists /\ Puts(a, r, life[a])
<1>1. record[a] \in GateRecord /\ clock' \in Nat /\ by_agent[a] = 0
  BY RecordOf DEF Move, Change
<1>2. UNCHANGED <<pc, snap, guard, life>>
  BY DEF Move, calls
<1>3. life' = [life EXCEPT ![a] = life[a]]
  BY <1>2 DEF RosterInv, RecordTypes
<1>4. PICK g \in Groups :
        group[g].exists /\ record' = [record EXCEPT ![a].cgroup = g, ![a].moved = clock']
  BY DEF Move
<1>5. PICK r : r = [record[a] EXCEPT !.cgroup = g, !.moved = clock']
  OBVIOUS
<1>6. /\ r \in GateRecord /\ r.accepting = record[a].accepting /\ r.reg = record[a].reg
      /\ r.cgroup = g
  BY <1>1, <1>5 DEF GateRecord
<1>7. record' = [record EXCEPT ![a] = r]
  BY <1>4, <1>5 DEF RosterInv, RecordTypes
<1>8. Puts(a, r, life[a])
  BY <1>2, <1>3, <1>7 DEF Puts
<1> QED BY <1>1, <1>4, <1>6, <1>8

\* A registration puts an accepting record into a group that exists.
LEMMA RegisterPuts ==
  ASSUME RosterInv, NEW a \in Agents, Register(a), clock \in Nat
  PROVE  /\ record[a] = None
         /\ \E r \in GateRecord : r.accepting /\ group[r.cgroup].exists /\ Puts(a, r, "live")
<1>1. record[a] = None /\ clock' \in Nat \ {0}
  BY DEF RosterInv, RecordTypes, Register, Registered, Change, GateRecord
<1>2. UNCHANGED <<pc, snap, guard>> /\ life' = [life EXCEPT ![a] = "live"]
  BY DEF Register, calls
<1>3. PICK g \in Groups :
        /\ group[g].exists
        /\ record' = [record EXCEPT ![a] =
             [reg |-> clock', auth |-> clock', cgroup |-> g, moved |-> clock',
              accepting |-> TRUE, capable |-> TRUE, member |-> TRUE]]
  BY DEF Register
<1>4. PICK r : r = [reg |-> clock', auth |-> clock', cgroup |-> g, moved |-> clock',
                    accepting |-> TRUE, capable |-> TRUE, member |-> TRUE]
  OBVIOUS
<1>5. r \in GateRecord /\ r.accepting /\ r.cgroup = g
  BY <1>1, <1>4 DEF GateRecord
<1>6. Puts(a, r, "live")
  BY <1>2, <1>3, <1>4 DEF Puts
<1> QED BY <1>1, <1>3, <1>5, <1>6

\* The steps of a drain: the record stays or its gate is closed or reopened.
Drains(a, r, l) ==
  /\ Amends(a, r) /\ l \in Lives \ {"gone"}
  /\ life[a] # "gone" /\ (l \in Draining => ~r.accepting)
  /\ l = "quiet" => by_agent[a] = 0
  /\ Puts(a, r, l)

\* The steps of a drain close the record, keep it closed or open it again.
LEMMA DrainPuts ==
  ASSUME RosterInv, NEW a \in Agents, clock \in Nat,
         \/ StartDrain(a) \/ Close(a) \/ Enable(a) \/ Check(a) \/ Reopen(a)
  PROVE  \E r, l : Drains(a, r, l)
<1>1. UNCHANGED <<pc, snap, guard>>
  BY DEF StartDrain, Close, Enable, Check, Reopen, calls
<1>2. life[a] \in Draining \cup {"live", "close"} /\ record[a] \in GateRecord
  <2>1. life[a] \in Draining \cup {"live", "close"}
    BY DEF StartDrain, Close, Enable, Check, Reopen, Draining
  <2> QED BY <2>1, RecordOf DEF Draining
<1>3. ASSUME StartDrain(a) \/ Enable(a) \/ Check(a) PROVE \E l : Drains(a, record[a], l)
  <2>1. Amends(a, record[a]) /\ record' = [record EXCEPT ![a] = record[a]]
    BY <1>2, <1>3 DEF Amends, RosterInv, RecordTypes, StartDrain, Enable, Check
  <2>2. PICK l \in Lives \ {"gone"} :
          /\ life' = [life EXCEPT ![a] = l]
          /\ l \in Draining => life[a] \in Draining
          /\ l = "quiet" => by_agent[a] = 0
    <3>1. CASE StartDrain(a)
      <4>1. PICK l : l = "close"
        OBVIOUS
      <4>2. life' = [life EXCEPT ![a] = l] /\ l \notin Draining /\ l # "quiet"
        BY <3>1, <4>1 DEF StartDrain, Draining
      <4>3. l \in Lives \ {"gone"}
        BY <4>1 DEF Lives, Draining
      <4> QED BY <4>2, <4>3
    <3>2. CASE Enable(a)
      <4>1. PICK l : l = "check"
        OBVIOUS
      <4>2. life' = [life EXCEPT ![a] = l] /\ life[a] \in Draining /\ l # "quiet"
        BY <3>2, <4>1 DEF Enable, Draining
      <4>3. l \in Lives \ {"gone"}
        BY <4>1 DEF Lives, Draining
      <4> QED BY <4>2, <4>3
    <3>3. CASE Check(a)
      <4>1. PICK l : l = IF by_agent[a] = 0 THEN "quiet"
                         ELSE IF life[a] = "check" THEN "await" ELSE "enable"
        OBVIOUS
      <4>2. life' = [life EXCEPT ![a] = l] /\ life[a] \in Draining
        BY <3>3, <4>1 DEF Check, Draining
      <4>3. l \in Lives \ {"gone"} /\ (l = "quiet" => by_agent[a] = 0)
        BY <4>1 DEF Lives, Draining
      <4> QED BY <4>2, <4>3
    <3> QED BY <1>3, <3>1, <3>2, <3>3
  <2>3. l \in Draining => ~record[a].accepting
    BY <2>2 DEF RosterInv, GateClosed
  <2>4. life[a] # "gone"
    BY <1>2 DEF Draining
  <2> QED BY <1>1, <2>1, <2>2, <2>3, <2>4 DEF Drains, Puts
<1>4. ASSUME Close(a) \/ Reopen(a) PROVE \E r, l : Drains(a, r, l)
  <2>1. clock' \in Nat
    BY <1>4 DEF Close, Reopen, Change
  <2>2. PICK b \in BOOLEAN, l \in {"enable", "live"} :
          /\ record' = [record EXCEPT ![a].accepting = b, ![a].auth = clock']
          /\ life' = [life EXCEPT ![a] = l] /\ (l = "enable" => ~b)
    BY <1>4 DEF Close, Reopen
  <2>3. PICK r : r = [record[a] EXCEPT !.accepting = b, !.auth = clock']
    OBVIOUS
  <2>4. Amends(a, r) /\ r.accepting = b
    BY <1>2, <2>1, <2>3 DEF GateRecord, Amends
  <2>5. record' = [record EXCEPT ![a] = r]
    BY <2>2, <2>3 DEF RosterInv, RecordTypes
  <2>6. l \in Lives \ {"gone"} /\ l # "quiet" /\ (l \in Draining => ~r.accepting) /\ life[a] # "gone"
    BY <1>2, <2>2, <2>4 DEF Lives, Draining
  <2> QED BY <1>1, <2>2, <2>4, <2>5, <2>6 DEF Drains, Puts
<1> QED BY <1>3, <1>4

\* An agent is unregistered quiet, with none of its tools running.
LEMMA UnregisterPuts ==
  ASSUME NEW a \in Agents, Unregister(a)
  PROVE  life[a] = "quiet" /\ by_agent[a] = 0 /\ Puts(a, None, "gone")
  BY DEF Unregister, Forget, Puts

\* The effect of the steps of a call that neither take nor give back a guard.
LEMMA CallGoes ==
  ASSUME RosterInv, GateInv, NEW c \in Calls,
         Begin(c) \/ MacCheck(c) \/ CheckApproval(c) \/ Consume(c) \/ Finish(c)
  PROVE  /\ UNCHANGED <<record, life, guard, group, by_agent>>
         /\ \E to, s :
              /\ to \in Places
              /\ Goes(c, to, s, guard[c])
              /\ to # "idle" => s.agent \in GateRecord
              /\ to \in Holders <=> pc[c] \in Holders
              /\ pc[c] \in Holders => s = snap[c]
<1>0. /\ guard = [guard EXCEPT ![c] = guard[c]] /\ snap = [snap EXCEPT ![c] = snap[c]]
      /\ pc[c] # "idle" => snap[c].agent \in GateRecord
  BY DEF GateInv, TypesOfGate, RosterInv, SnapshotTypes
<1>1. UNCHANGED <<record, life, guard, group, by_agent>>
  BY DEF Begin, MacCheck, CheckApproval, Consume, Finish, Deny
<1>2. CASE Begin(c)
  <2>1. PICK s : s = Snapshot(Caller[c])
    OBVIOUS
  <2>2. Goes(c, "mac", s, guard[c]) /\ pc[c] = "idle" /\ Registered(Caller[c])
    BY <1>0, <1>1, <1>2, <2>1 DEF Begin, Goes
  <2>3. s.agent \in GateRecord
    BY <2>1, <2>2, RecordOf, GateConstants DEF Snapshot
  <2> QED BY <1>1, <2>2, <2>3 DEF Places, Judging, Holders
<1>3. CASE MacCheck(c) \/ CheckApproval(c)
  <2>1. pc[c] \in Judging /\ pc[c] # "idle" /\ pc[c] \notin Holders
    BY <1>3 DEF MacCheck, CheckApproval, Judging, Holders
  <2>2. \/ Goes(c, "approval", snap[c], guard[c]) \/ Goes(c, "acquire", snap[c], guard[c])
        \/ Goes(c, "idle", NoSnapshot, guard[c])
    BY <1>0, <1>1, <1>3 DEF MacCheck, CheckApproval, Deny, Goes
  <2> QED BY <1>0, <1>1, <2>1, <2>2 DEF Places, Judging, Holders
<1>4. CASE Consume(c) \/ Finish(c)
  <2>1. pc[c] \in Holders /\ pc[c] # "idle"
    BY <1>4 DEF Consume, Finish, Holders
  <2>2. Goes(c, "running", snap[c], guard[c]) \/ Goes(c, "ending", snap[c], guard[c])
    BY <1>0, <1>1, <1>4 DEF Consume, Finish, Goes
  <2> QED BY <1>0, <1>1, <2>1, <2>2 DEF Places, Judging, Holders
<1> QED BY <1>2, <1>3, <1>4

\* acquire_tool_call_if_unchanged: either the call is denied, or its agent is
\* registered with an open gate and it gets a guard on the path of the group.
Enters(c) ==
  /\ record[Caller[c]] \in GateRecord /\ snap[c].agent = record[Caller[c]]
  /\ record[Caller[c]].accepting
  /\ \A g \in Path(snap[c].agent.cgroup) : HasRoom(g)
  /\ Goes(c, "admitted", snap[c], "live")
  /\ group' = [g \in Groups |-> IF g \in Path(snap[c].agent.cgroup)
                                THEN [group[g] EXCEPT !.active = @ + 1] ELSE group[g]]
  /\ by_agent' = [by_agent EXCEPT ![Caller[c]] = @ + 1]

\* acquire charges the call to the group of its snapshot, or refuses it.
LEMMA AcquireGoes ==
  ASSUME RosterInv, GateInv, NEW c \in Calls, Acquire(c)
  PROVE  /\ UNCHANGED <<record, life>> /\ pc[c] = "acquire" /\ guard[c] = "none"
         /\ \/ Enters(c)
            \/ Goes(c, "idle", NoSnapshot, guard[c]) /\ UNCHANGED <<group, by_agent, guard>>
<1>0. /\ guard = [guard EXCEPT ![c] = guard[c]] /\ snap = [snap EXCEPT ![c] = snap[c]]
  BY DEF GateInv, TypesOfGate
<1>1. UNCHANGED <<record, life>> /\ pc[c] = "acquire"
  BY DEF Acquire
<1>2. guard[c] = "none"
  BY <1>1 DEF RosterInv, GuardPlaces, Holders
<1>3. CASE /\ Registered(Caller[c]) /\ Unchanged(c)
           /\ \A g \in Path(snap[c].agent.cgroup) : HasRoom(g)
  <2>1. /\ Goes(c, "admitted", snap[c], "live")
        /\ group' = [g \in Groups |-> IF g \in Path(snap[c].agent.cgroup)
                                      THEN [group[g] EXCEPT !.active = @ + 1] ELSE group[g]]
        /\ by_agent' = [by_agent EXCEPT ![Caller[c]] = @ + 1]
    BY <1>0, <1>3 DEF Acquire, Goes
  <2>2. record[Caller[c]] \in GateRecord /\ snap[c].agent = record[Caller[c]]
    BY <1>3, RecordOf, GateConstants DEF Unchanged, Snapshot
  <2>3. record[Caller[c]].accepting
    BY <1>1, <2>2 DEF GateInv, SnapshotsChecked, Checked, Judging
  <2> QED BY <1>1, <1>2, <1>3, <2>1, <2>2, <2>3 DEF Enters
<1>4. CASE ~(/\ Registered(Caller[c]) /\ Unchanged(c)
             /\ \A g \in Path(snap[c].agent.cgroup) : HasRoom(g))
  BY <1>0, <1>1, <1>2, <1>4 DEF Acquire, Deny, Goes
<1> QED BY <1>3, <1>4

\* The guard of a call is dropped.
LEMMA ReleaseGoes ==
  ASSUME RosterInv, GateInv, NEW c \in Calls, Release(c)
  PROVE  /\ record' = record /\ (life' = life \/ life' = Notified)
         /\ pc[c] = "ending" /\ Goes(c, "idle", NoSnapshot, "none")
  BY DEF Release, Goes

\* Every step keeps the roster of live calls.
LEMMA NextRoster == ASSUME ToolInv, [Next]_vars PROVE RosterInv'
<1>0. RosterInv /\ GateInv /\ CountsInv /\ clock \in Nat
  BY DEF ToolInv, GateInv, TypesOfGate
<1>1. CASE UNCHANGED <<record, life, pc, snap, guard>>
  BY <1>0, <1>1 DEF RosterInv, RecordTypes, LifeMatches, GateClosed, SnapshotTypes, GuardPlaces,
                    GuardsCurrent
<1>2. ASSUME NEW a \in Agents, Register(a) PROVE RosterInv'
  <2>1. record[a] = None
    BY <1>0, <1>2, RegisterPuts
  <2>2. PICK r \in GateRecord : r.accepting /\ Puts(a, r, "live")
    BY <1>0, <1>2, RegisterPuts
  <2>3. Live(a) = {}
    <3>1. \A c \in Live(a) : record[a] \in GateRecord
      BY <1>0 DEF Live, RosterInv, GuardsCurrent
    <3> QED BY <1>0, <2>1, <3>1, RecordOf
  <2>4. r # None
    BY <1>0, RecordOf
  <2>5. PICK l \in Lives : l = "live"
    BY DEF Lives
  <2>6. Puts(a, r, l) /\ l \notin Draining /\ l # "gone"
    BY <2>2, <2>5 DEF Draining
  <2> QED BY <1>0, <2>3, <2>4, <2>6, RecordStep
<1>3. ASSUME NEW a \in Agents, SetAuthorization(a) PROVE RosterInv'
  <2>1. PICK r : Amends(a, r) /\ r.accepting = record[a].accepting /\ Puts(a, r, life[a])
    BY <1>0, <1>3, SetAuthorizationPuts
  <2>2. record[a] \in GateRecord /\ life[a] # "gone" /\ r # None
    BY <1>0, <1>3, <2>1, RecordOf DEF SetAuthorization, Amends
  <2>3. life[a] \in Lives /\ (life[a] \in Draining => ~r.accepting)
    BY <1>0, <2>1 DEF RosterInv, RecordTypes, GateClosed
  <2> QED BY <1>0, <2>1, <2>2, <2>3, RecordStep DEF Amends
<1>4. ASSUME NEW a \in Agents, Move(a) PROVE RosterInv'
  <2>1. by_agent[a] = 0 /\ record[a] \in GateRecord
    BY <1>0, <1>4, MovePuts
  <2>2. PICK r \in GateRecord : r.accepting = record[a].accepting /\ Puts(a, r, life[a])
    BY <1>0, <1>4, MovePuts
  <2>3. Live(a) = {}
    BY <1>0, <2>1, NoCalls
  <2>4. life[a] # "gone" /\ r # None
    BY <1>0, <2>1, RecordOf
  <2>5. life[a] \in Lives /\ (life[a] \in Draining => ~r.accepting)
    BY <1>0, <2>2 DEF RosterInv, RecordTypes, GateClosed
  <2> QED BY <1>0, <2>2, <2>3, <2>4, <2>5, RecordStep
<1>5. ASSUME NEW a \in Agents, StartDrain(a) \/ Close(a) \/ Enable(a) \/ Check(a) \/ Reopen(a)
      PROVE  RosterInv'
  <2>1. PICK r, l : Drains(a, r, l)
    BY <1>0, <1>5, DrainPuts
  <2>2. r # None
    BY <1>0, <2>1, RecordOf DEF Drains, Amends
  <2> QED BY <1>0, <2>1, <2>2, RecordStep DEF Drains, Amends
<1>6. ASSUME NEW a \in Agents, Unregister(a) PROVE RosterInv'
  <2>1. by_agent[a] = 0 /\ Puts(a, None, "gone")
    BY <1>6, UnregisterPuts
  <2>2. Live(a) = {}
    BY <1>0, <2>1, NoCalls
  <2>3. PICK l \in Lives : l = "gone"
    BY DEF Lives
  <2>4. Puts(a, None, l) /\ l \notin Draining
    BY <2>1, <2>3 DEF Draining
  <2> QED BY <1>0, <2>2, <2>3, <2>4, RecordStep
<1>7. ASSUME NEW a \in Agents, ForceUnregister(a) PROVE RosterInv'
  <2>1. /\ record' = [record EXCEPT ![a] = None] /\ life' = [Notified EXCEPT ![a] = "gone"]
        /\ UNCHANGED <<pc, snap>>
        /\ guard' = [c \in Calls |-> IF Caller[c] = a /\ guard[c] = "live" THEN "revoked"
                                     ELSE guard[c]]
    BY <1>7 DEF ForceUnregister, Forget
  <2>2. /\ record'[a] = None /\ life'[a] = "gone"
        /\ \A b \in Agents : b # a => record'[b] = record[b] /\ life'[b] = Notified[b]
    BY <1>0, <2>1, NotifiedLives DEF RosterInv, RecordTypes
  <2>3. \A c \in Calls : /\ guard'[c] = "none" <=> guard[c] = "none"
                         /\ guard'[c] = "live" => guard[c] = "live" /\ Caller[c] # a
    BY <1>0, <2>1 DEF GateInv, TypesOfGate
  <2>4. RecordTypes'
    BY <1>0, <2>1, NotifiedLives DEF RosterInv, RecordTypes, Lives
  <2>5. LifeMatches' /\ GateClosed'
    BY <1>0, <2>2, NotifiedLives DEF RosterInv, LifeMatches, GateClosed, Draining
  <2>6. SnapshotTypes' /\ GuardPlaces'
    BY <1>0, <2>1, <2>3 DEF RosterInv, SnapshotTypes, GuardPlaces
  <2>7. GuardsCurrent'
    BY <1>0, <2>1, <2>2, <2>3, GateConstants DEF RosterInv, GuardsCurrent
  <2> QED BY <2>4, <2>5, <2>6, <2>7 DEF RosterInv
<1>8. ASSUME NEW c \in Calls,
             Begin(c) \/ MacCheck(c) \/ CheckApproval(c) \/ Consume(c) \/ Finish(c)
      PROVE  RosterInv'
  <2>1. UNCHANGED <<record, life>>
    BY <1>0, <1>8, CallGoes
  <2>2. PICK to, s :
          /\ to \in Places
          /\ Goes(c, to, s, guard[c]) /\ (to # "idle" => s.agent \in GateRecord)
          /\ to \in Holders <=> pc[c] \in Holders
          /\ pc[c] \in Holders => s = snap[c]
    BY <1>0, <1>8, CallGoes
  <2> to \in Places
    BY <2>2
  <2>3. /\ guard[c] \in Guards /\ (guard[c] # "none" <=> to \in Holders)
        /\ guard[c] = "live" => /\ record[Caller[c]] \in GateRecord
                                /\ s.agent.reg = record[Caller[c]].reg
                                /\ s.agent.cgroup = record[Caller[c]].cgroup
    BY <1>0, <2>2 DEF RosterInv, GuardPlaces, GuardsCurrent, GateInv, TypesOfGate
  <2> QED BY <1>0, <2>1, <2>2, <2>3, CallRoster
<1>9. ASSUME NEW c \in Calls, Acquire(c) PROVE RosterInv'
  <2>1. /\ UNCHANGED <<record, life>> /\ pc[c] = "acquire" /\ guard[c] = "none"
        /\ Enters(c) \/ Goes(c, "idle", NoSnapshot, guard[c])
    BY <1>0, <1>9, AcquireGoes
  <2>2. CASE Enters(c)
    BY <1>0, <2>1, <2>2, CallRoster DEF Enters, Places, Judging, Holders, Guards
  <2>3. CASE Goes(c, "idle", NoSnapshot, guard[c])
    BY <1>0, <2>1, <2>3, CallRoster DEF Places, Judging, Holders, Guards
  <2> QED BY <2>1, <2>2, <2>3
<1>10. ASSUME NEW c \in Calls, Release(c) PROVE RosterInv'
  BY <1>0, <1>10, ReleaseGoes, CallRoster DEF Places, Judging, Holders, Guards
<1>11. TagTool \/ MacAdvance \/ MacMutate => UNCHANGED <<record, life, pc, snap, guard>>
  BY DEF TagTool, MacAdvance, MacMutate, calls
<1>12. ASSUME NEW a \in Agents, Grant(a) \/ Revoke(a)
       PROVE  UNCHANGED <<record, life, pc, snap, guard>>
  BY <1>12 DEF Grant, Revoke, calls
<1>13. ASSUME NEW g \in Groups, UpdateLimits(g) \/ CreateGroup(g) \/ RemoveEmptyLeaf(g)
       PROVE  UNCHANGED <<record, life, pc, snap, guard>>
  BY <1>13 DEF UpdateLimits, CreateGroup, RemoveEmptyLeaf, calls
<1>14. CASE UNCHANGED vars
  BY <1>1, <1>14 DEF vars, calls
<1> QED
  BY <1>1, <1>2, <1>3, <1>4, <1>5, <1>6, <1>7, <1>8, <1>9, <1>10, <1>11, <1>12, <1>13, <1>14
     DEF Next, CallStep, LifeStep

\* The sets that the counters count are finite, and the path of a group is in
\* the tree.
LEMMA CountedSets ==
  /\ \A a \in Agents : IsFiniteSet(Live(a))
  /\ \A g \in Groups : IsFiniteSet(Charged(g)) /\ Path(g) \subseteq Groups
<1>1. \A a \in Agents : IsFiniteSet(Live(a))
  BY GateConstants, FS_Subset DEF Live
<1>2. \A g \in Groups : IsFiniteSet(Charged(g))
  BY GateConstants, FS_Subset DEF Charged
<1> QED BY <1>1, <1>2, GateConstants DEF Path

\* A step after which the same guards count for the same snapshots.
SameCharges == /\ \A a \in Agents : Live(a)' = Live(a)
               /\ \A g \in Groups : Charged(g)' = Charged(g)

\* The same guards are the same charges.
LEMMA GuardsKept ==
  ASSUME guard' = guard, \A c \in Calls : guard[c] = "live" => snap'[c] = snap[c]
  PROVE  SameCharges
<1>1. \A a \in Agents : Live(a)' = Live(a)
  BY DEF Live
<1>2. \A g \in Groups : Charged(g)' = Charged(g)
  BY DEF Charged
<1> QED BY <1>1, <1>2 DEF SameCharges

\* The group of every registered agent exists, and the root does.
Homes == /\ group[Root].exists
         /\ \A a \in Agents : Registered(a) => group[record[a].cgroup].exists

\* The counters agree with the live calls after a step that changes neither.
LEMMA CountsKept ==
  ASSUME CountsInv, SameCharges, group' = group, by_agent' = by_agent, Homes'
  PROVE  CountsInv'
  BY DEF CountsInv, GroupTypes, ToolAccounting, SameCharges, Homes

\* A group gets another limit, not below its count, or another existence.
LEMMA CountsLimits ==
  ASSUME CountsInv, SameCharges, NEW g \in Groups, by_agent' = by_agent, Homes',
         NEW r \in [exists : BOOLEAN, limit : Nat, active : Nat],
         group' = [group EXCEPT ![g] = r], r.active = group[g].active,
         r.limit = 0 \/ r.active <= r.limit
  PROVE  CountsInv'
<1>1. group'[g] = r /\ \A h \in Groups : h # g => group'[h] = group[h]
  BY DEF CountsInv, GroupTypes
<1>2. GroupTypes'
  BY DEF CountsInv, GroupTypes, Homes
<1>3. r.limit > 0 => r.active <= r.limit
  BY DEF CountsInv
<1>4. \A h \in Groups : /\ group'[h].active = Cardinality(Charged(h))
                        /\ group'[h].limit > 0 => group'[h].active <= group'[h].limit
  BY <1>1, <1>3 DEF CountsInv, ToolAccounting
<1> QED BY <1>2, <1>4 DEF CountsInv, ToolAccounting, SameCharges, Homes

\* A call enters: one more on every group of its path, and one of its agent.
LEMMA CountsEnter ==
  ASSUME CountsInv, RosterInv, GateInv, NEW c \in Calls, guard[c] = "none", Enters(c),
         record' = record
  PROVE  CountsInv'
<1> DEFINE a == Caller[c]
           path == Path(snap[c].agent.cgroup)
<1>1. a \in Agents /\ record[a] \in GateRecord /\ snap[c].agent.cgroup \in Groups /\ path \subseteq Groups
  <2>1. a \in Agents /\ record[a] \in GateRecord /\ snap[c].agent = record[a]
    BY GateConstants DEF Enters
  <2>2. snap[c].agent.cgroup \in Groups
    BY <2>1 DEF GateRecord
  <2> QED BY <2>1, <2>2, CountedSets
<1>2. /\ snap' = snap /\ guard'[c] = "live"
      /\ \A d \in Calls : d # c => guard'[d] = guard[d]
  BY DEF Enters, Goes, GateInv, TypesOfGate
<1>3. \A b \in Agents : Live(b)' = IF b = a THEN Live(b) \cup {c} ELSE Live(b)
  BY <1>2 DEF Live
<1>4. \A g \in Groups : Charged(g)' = IF g \in path THEN Charged(g) \cup {c} ELSE Charged(g)
  BY <1>2 DEF Charged
<1>5. \A b \in Agents : c \notin Live(b)
  BY DEF Live
<1>6. \A g \in Groups : c \notin Charged(g)
  BY DEF Charged
<1>7. by_agent' \in [Agents -> Nat] /\ \A b \in Agents : by_agent'[b] = Cardinality(Live(b)')
  <2>1. /\ by_agent'[a] = by_agent[a] + 1 /\ by_agent' \in [Agents -> Nat]
        /\ \A b \in Agents : b # a => by_agent'[b] = by_agent[b]
    BY <1>1 DEF Enters, CountsInv, GroupTypes
  <2>2. \A b \in Agents : by_agent[b] = Cardinality(Live(b))
    BY DEF CountsInv, ToolAccounting
  <2>3. Cardinality(Live(a) \cup {c}) = Cardinality(Live(a)) + 1
    BY <1>1, <1>5, CountedSets, FS_AddElement
  <2> HIDE DEF a
  <2> QED BY <1>1, <1>3, <2>1, <2>2, <2>3
<1>8. ASSUME NEW g \in Groups
      PROVE  /\ group'[g] \in [exists : BOOLEAN, limit : Nat, active : Nat]
             /\ group'[g].exists = group[g].exists
             /\ group'[g].active = Cardinality(Charged(g)')
             /\ group'[g].limit > 0 => group'[g].active <= group'[g].limit
  <2>1. /\ group[g] \in [exists : BOOLEAN, limit : Nat, active : Nat]
        /\ group[g].active = Cardinality(Charged(g))
        /\ group[g].limit > 0 => group[g].active <= group[g].limit
    BY DEF CountsInv, GroupTypes, ToolAccounting
  <2>2. CASE g \in path
    <3>1. group'[g] = [group[g] EXCEPT !.active = @ + 1] /\ HasRoom(g)
      BY <2>2 DEF Enters
    <3>2. Cardinality(Charged(g)') = Cardinality(Charged(g)) + 1
      BY <1>4, <1>6, <2>2, CountedSets, FS_AddElement
    <3>3. group[g].limit = 0 \/ group[g].active < group[g].limit
      BY <3>1 DEF HasRoom
    <3> QED BY <2>1, <3>1, <3>2, <3>3
  <2>3. CASE g \notin path
    <3>1. group'[g] = group[g]
      BY <2>3 DEF Enters
    <3> QED BY <1>4, <2>1, <2>3, <3>1
  <2> QED BY <2>2, <2>3
<1>9. GroupTypes'
  <2>1. group' = [g \in Groups |-> group'[g]]
    BY DEF Enters
  <2> HIDE DEF a, path
  <2> QED BY <1>7, <1>8, <2>1, GateConstants DEF CountsInv, GroupTypes
<1>10. \A b \in Agents : Registered(b)' => group'[record'[b].cgroup].exists
  <2>1. \A b \in Agents : Registered(b) => record[b].cgroup \in Groups
    BY RecordOf DEF GateRecord
  <2> HIDE DEF a, path
  <2> QED BY <1>8, <2>1 DEF CountsInv, ToolAccounting, Registered
<1> HIDE DEF a, path
<1> QED BY <1>7, <1>8, <1>9, <1>10 DEF CountsInv, ToolAccounting

\* A guard that counts is dropped: the decrements that saturate at zero do not.
LEMMA CountsLeave ==
  ASSUME CountsInv, RosterInv, GateInv, NEW c \in Calls, guard[c] = "live", Release(c)
  PROVE  CountsInv'
<1> DEFINE a == Caller[c]
           path == Path(snap[c].agent.cgroup)
<1>1. /\ a \in Agents /\ record' = record
      /\ group' = [g \in Groups |-> IF g \in path /\ group[g].active > 0
                                    THEN [group[g] EXCEPT !.active = @ - 1] ELSE group[g]]
      /\ by_agent' = [by_agent EXCEPT ![a] = IF @ = 0 THEN 0 ELSE @ - 1]
      /\ guard' = [guard EXCEPT ![c] = "none"] /\ snap' = [snap EXCEPT ![c] = NoSnapshot]
  BY GateConstants DEF Release
<1>2. /\ guard'[c] = "none"
      /\ \A d \in Calls : d # c => guard'[d] = guard[d] /\ snap'[d] = snap[d]
  BY <1>1 DEF GateInv, TypesOfGate
<1>3. \A b \in Agents : Live(b)' = IF b = a THEN Live(b) \ {c} ELSE Live(b)
  BY <1>2 DEF Live
<1>4. \A g \in Groups : Charged(g)' = IF g \in path THEN Charged(g) \ {c} ELSE Charged(g)
  BY <1>2 DEF Charged
<1>5. c \in Live(a) /\ \A g \in Groups : g \in path => c \in Charged(g)
  BY DEF Live, Charged
<1>7. by_agent' \in [Agents -> Nat] /\ \A b \in Agents : by_agent'[b] = Cardinality(Live(b)')
  <2>1. \A b \in Agents : by_agent[b] = Cardinality(Live(b)) /\ by_agent[b] \in Nat
    BY DEF CountsInv, ToolAccounting, GroupTypes
  <2>2. /\ Cardinality(Live(a) \ {c}) = Cardinality(Live(a)) - 1
        /\ Cardinality(Live(a) \ {c}) \in Nat
    BY <1>1, <1>5, CountedSets, FS_RemoveElement, FS_CardinalityType
  <2>3. by_agent[a] # 0 /\ by_agent[a] - 1 \in Nat
    BY <1>1, <2>1, <2>2
  <2>4. /\ by_agent'[a] = by_agent[a] - 1 /\ by_agent' \in [Agents -> Nat]
        /\ \A b \in Agents : b # a => by_agent'[b] = by_agent[b]
    BY <1>1, <2>3 DEF CountsInv, GroupTypes
  <2> HIDE DEF a
  <2> QED BY <1>1, <1>3, <2>1, <2>2, <2>4
<1>8. ASSUME NEW g \in Groups
      PROVE  /\ group'[g] \in [exists : BOOLEAN, limit : Nat, active : Nat]
             /\ group'[g].exists = group[g].exists
             /\ group'[g].active = Cardinality(Charged(g)')
             /\ group'[g].limit > 0 => group'[g].active <= group'[g].limit
  <2>1. /\ group[g] \in [exists : BOOLEAN, limit : Nat, active : Nat]
        /\ group[g].active = Cardinality(Charged(g))
        /\ group[g].limit > 0 => group[g].active <= group[g].limit
    BY DEF CountsInv, GroupTypes, ToolAccounting
  <2>2. CASE g \in path
    <3>1. /\ Cardinality(Charged(g) \ {c}) = Cardinality(Charged(g)) - 1
          /\ Cardinality(Charged(g) \ {c}) \in Nat
      BY <1>5, <2>2, CountedSets, FS_RemoveElement, FS_CardinalityType
    <3>2. group[g].active > 0
      BY <2>1, <3>1
    <3>3. group'[g] = [group[g] EXCEPT !.active = @ - 1]
      BY <1>1, <2>2, <3>2
    <3>4. Cardinality(Charged(g)') = Cardinality(Charged(g)) - 1
      BY <1>4, <2>2, <3>1
    <3> QED BY <2>1, <3>2, <3>3, <3>4
  <2>3. CASE g \notin path
    <3>1. group'[g] = group[g]
      BY <1>1, <2>3
    <3> QED BY <1>4, <2>1, <2>3, <3>1
  <2> QED BY <2>2, <2>3
<1>9. GroupTypes'
  <2>1. group' = [g \in Groups |-> group'[g]]
    BY <1>1
  <2> HIDE DEF a, path
  <2> QED BY <1>7, <1>8, <2>1, GateConstants DEF CountsInv, GroupTypes
<1>10. \A b \in Agents : Registered(b)' => group'[record'[b].cgroup].exists
  <2>1. \A b \in Agents : Registered(b) => record[b].cgroup \in Groups
    BY RecordOf DEF GateRecord
  <2> QED BY <1>1, <1>8, <2>1 DEF CountsInv, ToolAccounting, Registered
<1> HIDE DEF a, path
<1> QED BY <1>7, <1>8, <1>9, <1>10 DEF CountsInv, ToolAccounting

\* A kill takes the calls of the agent out of the groups they are charged to:
\* they all are on the path of the group that the agent is in.
LEMMA CountsKill ==
  ASSUME CountsInv, RosterInv, GateInv, NEW a \in Agents, ForceUnregister(a)
  PROVE  CountsInv'
<1> DEFINE path == Path(record[a].cgroup)
<1>1. /\ record' = [record EXCEPT ![a] = None] /\ snap' = snap
      /\ group' = [g \in Groups |-> IF g \in path
           THEN [group[g] EXCEPT !.active = IF @ < by_agent[a] THEN 0 ELSE @ - by_agent[a]]
           ELSE group[g]]
      /\ by_agent' = [by_agent EXCEPT ![a] = 0]
      /\ guard' = [c \in Calls |-> IF Caller[c] = a /\ guard[c] = "live" THEN "revoked"
                                   ELSE guard[c]]
  BY DEF ForceUnregister, Forget
<1>2. \A c \in Calls : guard'[c] = "live" <=> guard[c] = "live" /\ Caller[c] # a
  BY <1>1 DEF GateInv, TypesOfGate
<1>3. Live(a)' = {} /\ \A b \in Agents : b # a => Live(b)' = Live(b)
  BY <1>2 DEF Live
<1>4. \A g \in Groups : Charged(g)' = Charged(g) \ Live(a)
  BY <1>1, <1>2 DEF Charged, Live
<1>5. \A c \in Live(a) : snap[c].agent.cgroup = record[a].cgroup
  BY DEF Live, RosterInv, GuardsCurrent
<1>6. \A g \in Groups : Charged(g) \cap Live(a) = IF g \in path THEN Live(a) ELSE {}
  BY <1>5 DEF Charged, Live
<1>7. by_agent' \in [Agents -> Nat] /\ \A b \in Agents : by_agent'[b] = Cardinality(Live(b)')
  <2>1. \A b \in Agents : by_agent[b] = Cardinality(Live(b)) /\ by_agent[b] \in Nat
    BY DEF CountsInv, ToolAccounting, GroupTypes
  <2>2. /\ by_agent'[a] = 0 /\ by_agent' \in [Agents -> Nat]
        /\ \A b \in Agents : b # a => by_agent'[b] = by_agent[b]
    BY <1>1 DEF CountsInv, GroupTypes
  <2> QED BY <1>3, <2>1, <2>2, FS_EmptySet
<1>8. ASSUME NEW g \in Groups
      PROVE  /\ group'[g] \in [exists : BOOLEAN, limit : Nat, active : Nat]
             /\ group'[g].exists = group[g].exists
             /\ group'[g].active = Cardinality(Charged(g)')
             /\ group'[g].limit > 0 => group'[g].active <= group'[g].limit
  <2>1. /\ group[g] \in [exists : BOOLEAN, limit : Nat, active : Nat]
        /\ group[g].active = Cardinality(Charged(g))
        /\ group[g].limit > 0 => group[g].active <= group[g].limit
    BY DEF CountsInv, GroupTypes, ToolAccounting
  <2>2. /\ Cardinality(Charged(g)') = Cardinality(Charged(g)) - Cardinality(Charged(g) \cap Live(a))
        /\ Cardinality(Charged(g)') \in Nat
    <3>1. IsFiniteSet(Charged(g)) /\ IsFiniteSet(Charged(g) \ Live(a))
      BY CountedSets, FS_Difference
    <3>2. /\ Cardinality(Charged(g) \ Live(a))
               = Cardinality(Charged(g)) - Cardinality(Charged(g) \cap Live(a))
          /\ Cardinality(Charged(g) \ Live(a)) \in Nat
      BY <3>1, FS_Difference, FS_CardinalityType
    <3> QED BY <1>4, <3>2
  <2>3. CASE g \in path
    <3>1. /\ Cardinality(Charged(g)') = group[g].active - by_agent[a]
          /\ by_agent[a] \in Nat
      BY <1>6, <2>1, <2>2, <2>3 DEF CountsInv, ToolAccounting, GroupTypes
    <3>2. ~(group[g].active < by_agent[a])
      BY <2>1, <2>2, <3>1
    <3>3. group'[g] = [group[g] EXCEPT !.active = @ - by_agent[a]]
      BY <1>1, <2>3, <3>2
    <3> QED BY <2>1, <2>2, <3>1, <3>2, <3>3
  <2>4. CASE g \notin path
    <3>1. group'[g] = group[g]
      BY <1>1, <2>4
    <3>2. Charged(g)' = Charged(g)
      BY <1>4, <1>6, <2>4
    <3> QED BY <2>1, <3>1, <3>2
  <2> QED BY <2>3, <2>4
<1>9. GroupTypes'
  <2>1. group' = [g \in Groups |-> group'[g]]
    BY <1>1
  <2> HIDE DEF path
  <2> QED BY <1>7, <1>8, <2>1, GateConstants DEF CountsInv, GroupTypes
<1>10. \A b \in Agents : Registered(b)' => group'[record'[b].cgroup].exists
  <2>1. \A b \in Agents : Registered(b) => record[b].cgroup \in Groups
    BY RecordOf DEF GateRecord
  <2>2. \A b \in Agents : record'[b] = IF b = a THEN None ELSE record[b]
    BY <1>1 DEF RosterInv, RecordTypes
  <2>3. None.reg = 0
    BY DEF None
  <2> QED BY <1>8, <2>1, <2>2, <2>3 DEF CountsInv, ToolAccounting, Registered
<1> HIDE DEF path
<1> QED BY <1>7, <1>8, <1>9, <1>10 DEF CountsInv, ToolAccounting

\* The groups stay, and an agent gets a group that exists.
LEMMA HomesKept ==
  ASSUME CountsInv, RosterInv, group' = group, NEW a \in Agents, NEW r, NEW l, Puts(a, r, l),
         r.reg > 0 => group[r.cgroup].exists
  PROVE  Homes'
<1>1. \A b \in Agents : record'[b] = IF b = a THEN r ELSE record[b]
  BY DEF Puts, RosterInv, RecordTypes
<1> QED BY <1>1 DEF Homes, CountsInv, GroupTypes, ToolAccounting, Registered

\* Every step keeps the counters equal to the live calls.
LEMMA NextCounts == ASSUME ToolInv, [Next]_vars PROVE CountsInv'
<1>0. RosterInv /\ GateInv /\ CountsInv /\ clock \in Nat
  BY DEF ToolInv, GateInv, TypesOfGate
<1>a. Homes
  BY <1>0 DEF CountsInv, GroupTypes, ToolAccounting, Homes
<1>b. UNCHANGED <<snap, guard>> => SameCharges
  BY GuardsKept
<1>1. CASE UNCHANGED <<record, snap, guard, group, by_agent>>
  <2>1. Homes'
    BY <1>a, <1>1 DEF Homes, Registered
  <2> QED BY <1>0, <1>b, <1>1, <2>1, CountsKept
<1>2. ASSUME NEW a \in Agents, NEW r, NEW l, Puts(a, r, l), UNCHANGED <<group, by_agent>>,
             r.reg > 0 => group[r.cgroup].exists
      PROVE  CountsInv'
  <2>1. Homes'
    BY <1>0, <1>2, HomesKept
  <2> QED BY <1>0, <1>b, <1>2, <2>1, CountsKept DEF Puts
<1>3. ASSUME NEW a \in Agents,
             \/ Register(a) \/ SetAuthorization(a) \/ Move(a) \/ Unregister(a)
             \/ StartDrain(a) \/ Close(a) \/ Enable(a) \/ Check(a) \/ Reopen(a)
      PROVE  CountsInv'
  <2>0. UNCHANGED <<group, by_agent>>
    BY <1>3 DEF Register, SetAuthorization, Move, Unregister, StartDrain, Close, Enable, Check,
                Reopen
  <2>a. \A r : Amends(a, r) => (r.reg > 0 => group[r.cgroup].exists)
    BY <1>a DEF Amends, Homes, Registered
  <2>1. CASE Register(a)
    BY <1>0, <1>2, <2>0, <2>1, RegisterPuts
  <2>2. CASE SetAuthorization(a)
    BY <1>0, <1>2, <2>0, <2>a, <2>2, SetAuthorizationPuts
  <2>3. CASE Move(a)
    BY <1>0, <1>2, <2>0, <2>3, MovePuts
  <2>4. CASE Unregister(a)
    <3>1. ~(None.reg > 0)
      BY DEF None
    <3> QED BY <1>2, <2>0, <2>4, <3>1, UnregisterPuts
  <2>5. CASE StartDrain(a) \/ Close(a) \/ Enable(a) \/ Check(a) \/ Reopen(a)
    <3>1. PICK r, l : Drains(a, r, l)
      BY <1>0, <2>5, DrainPuts
    <3> QED BY <1>2, <2>0, <2>a, <3>1 DEF Drains
  <2> QED BY <1>3, <2>1, <2>2, <2>3, <2>4, <2>5
<1>4. ASSUME NEW c \in Calls,
             Begin(c) \/ MacCheck(c) \/ CheckApproval(c) \/ Consume(c) \/ Finish(c)
      PROVE  CountsInv'
  <2>1. UNCHANGED <<record, guard, group, by_agent>>
    BY <1>0, <1>4, CallGoes
  <2>2. PICK to, s : Goes(c, to, s, guard[c]) /\ (pc[c] \in Holders => s = snap[c])
    BY <1>0, <1>4, CallGoes
  <2>3. \A d \in Calls : guard[d] = "live" => snap'[d] = snap[d]
    BY <1>0, <2>2 DEF Goes, GateInv, TypesOfGate, RosterInv, GuardPlaces
  <2>4. Homes'
    BY <1>a, <2>1 DEF Homes, Registered
  <2> QED BY <1>0, <2>1, <2>3, <2>4, GuardsKept, CountsKept
<1>5. ASSUME NEW c \in Calls, Acquire(c) PROVE CountsInv'
  <2>1. /\ record' = record /\ guard[c] = "none"
        /\ \/ Enters(c)
           \/ Goes(c, "idle", NoSnapshot, guard[c]) /\ UNCHANGED <<group, by_agent, guard>>
    BY <1>0, <1>5, AcquireGoes
  <2>2. CASE Enters(c)
    BY <1>0, <2>1, <2>2, CountsEnter
  <2>3. CASE Goes(c, "idle", NoSnapshot, guard[c]) /\ UNCHANGED <<group, by_agent, guard>>
    <3>1. \A d \in Calls : guard[d] = "live" => snap'[d] = snap[d]
      BY <1>0, <2>1, <2>3 DEF Goes, GateInv, TypesOfGate
    <3>2. Homes'
      BY <1>a, <2>1, <2>3 DEF Homes, Registered
    <3> QED BY <1>0, <2>3, <3>1, <3>2, GuardsKept, CountsKept
  <2> QED BY <2>1, <2>2, <2>3
<1>6. ASSUME NEW c \in Calls, Release(c) PROVE CountsInv'
  <2>1. CASE guard[c] = "live"
    BY <1>0, <1>6, <2>1, CountsLeave
  <2>2. CASE guard[c] # "live"
    <3>1. /\ UNCHANGED <<group, by_agent, record>> /\ guard' = [guard EXCEPT ![c] = "none"]
          /\ snap' = [snap EXCEPT ![c] = NoSnapshot]
      BY <1>6, <2>2 DEF Release
    <3>2. \A d \in Calls : /\ guard'[d] = "live" <=> guard[d] = "live"
                           /\ guard[d] = "live" => snap'[d] = snap[d]
      BY <1>0, <2>2, <3>1 DEF GateInv, TypesOfGate
    <3>3. SameCharges
      <4>1. \A a \in Agents : Live(a)' = Live(a)
        BY <3>2 DEF Live
      <4>2. \A g \in Groups : Charged(g)' = Charged(g)
        BY <3>2 DEF Charged
      <4> QED BY <4>1, <4>2 DEF SameCharges
    <3>4. Homes'
      BY <1>a, <3>1 DEF Homes, Registered
    <3> QED BY <1>0, <3>1, <3>3, <3>4, CountsKept
  <2> QED BY <2>1, <2>2
<1>7. ASSUME NEW a \in Agents, ForceUnregister(a) PROVE CountsInv'
  BY <1>0, <1>7, CountsKill
<1>8. ASSUME NEW g \in Groups, UpdateLimits(g) \/ CreateGroup(g) \/ RemoveEmptyLeaf(g)
      PROVE  CountsInv'
  <2>1. UNCHANGED <<record, snap, guard, by_agent>>
    BY <1>8 DEF UpdateLimits, CreateGroup, RemoveEmptyLeaf, calls
  <2>2. /\ group[g] \in [exists : BOOLEAN, limit : Nat, active : Nat]
        /\ group[g].active = Cardinality(Charged(g))
        /\ group[g].limit > 0 => group[g].active <= group[g].limit
    BY <1>0 DEF CountsInv, GroupTypes, ToolAccounting
  <2>3. CASE UpdateLimits(g)
    <3>1. PICK n \in Limits : /\ n = 0 \/ group[g].active <= n
                              /\ group' = [group EXCEPT ![g].limit = n]
      BY <2>3 DEF UpdateLimits
    <3>2. PICK r : r = [group[g] EXCEPT !.limit = n]
      OBVIOUS
    <3>3. /\ r \in [exists : BOOLEAN, limit : Nat, active : Nat] /\ r.active = group[g].active
          /\ r.limit = n /\ r.exists = group[g].exists
      BY <2>2, <3>2, GateConstants
    <3>4. group' = [group EXCEPT ![g] = r]
      BY <1>0, <3>1, <3>2 DEF CountsInv, GroupTypes
    <3>5. \A h \in Groups : group'[h].exists = group[h].exists
      BY <1>0, <3>3, <3>4 DEF CountsInv, GroupTypes
    <3>6. Homes'
      <4>1. \A a \in Agents : Registered(a) => record[a].cgroup \in Groups
        BY <1>0, RecordOf DEF GateRecord
      <4> QED BY <1>a, <2>1, <3>5, <4>1, GateConstants DEF Homes, Registered
    <3> QED BY <1>0, <1>b, <2>1, <3>1, <3>3, <3>4, <3>6, CountsLimits
  <2>4. CASE CreateGroup(g)
    <3>1. PICK n \in Limits : group' = [group EXCEPT ![g] = [exists |-> TRUE, limit |-> n, active |-> 0]]
      BY <2>4 DEF CreateGroup
    <3>2. PICK r : r = [exists |-> TRUE, limit |-> n, active |-> 0]
      OBVIOUS
    <3>3. /\ r \in [exists : BOOLEAN, limit : Nat, active : Nat] /\ r.active = 0 /\ r.exists
          /\ r.active <= r.limit
      BY <3>2, GateConstants
    <3>4. Charged(g) = {}
      <4> SUFFICES ASSUME NEW c \in Charged(g) PROVE FALSE
        OBVIOUS
      <4>1. /\ Caller[c] \in Agents /\ record[Caller[c]] \in GateRecord
            /\ g \in Path(record[Caller[c]].cgroup)
        BY <1>0, GateConstants DEF Charged, RosterInv, GuardsCurrent
      <4>2. group[record[Caller[c]].cgroup].exists
        BY <1>0, <1>a, <4>1, RecordOf DEF Homes
      <4> QED BY <1>a, <2>4, <4>1, <4>2 DEF Path, CreateGroup, Homes
    <3>5. group[g].active = 0
      BY <2>2, <3>4, FS_EmptySet
    <3>6. group' = [group EXCEPT ![g] = r]
      BY <3>1, <3>2
    <3>7. \A h \in Groups : group[h].exists => group'[h].exists
      BY <1>0, <3>3, <3>6 DEF CountsInv, GroupTypes
    <3>8. Homes'
      <4>1. \A a \in Agents : Registered(a) => record[a].cgroup \in Groups
        BY <1>0, RecordOf DEF GateRecord
      <4> QED BY <1>a, <2>1, <3>7, <4>1, GateConstants DEF Homes, Registered
    <3> QED BY <1>0, <1>b, <2>1, <3>3, <3>5, <3>6, <3>8, CountsLimits
  <2>5. CASE RemoveEmptyLeaf(g)
    <3>1. /\ group' = [group EXCEPT ![g].exists = FALSE] /\ g # Root
          /\ \A a \in Agents : Registered(a) => record[a].cgroup # g
      BY <2>5 DEF RemoveEmptyLeaf
    <3>2. PICK r : r = [group[g] EXCEPT !.exists = FALSE]
      OBVIOUS
    <3>3. /\ r \in [exists : BOOLEAN, limit : Nat, active : Nat] /\ r.active = group[g].active
          /\ r.limit = group[g].limit
      BY <2>2, <3>2
    <3>4. group' = [group EXCEPT ![g] = r]
      BY <1>0, <3>1, <3>2 DEF CountsInv, GroupTypes
    <3>5. \A h \in Groups : h # g => group'[h] = group[h]
      BY <1>0, <3>4 DEF CountsInv, GroupTypes
    <3>6. Homes'
      <4>1. \A a \in Agents : Registered(a) => record[a].cgroup \in Groups
        BY <1>0, RecordOf DEF GateRecord
      <4> QED BY <1>a, <2>1, <3>1, <3>5, <4>1, GateConstants DEF Homes, Registered
    <3>7. r.limit = 0 \/ r.active <= r.limit
      BY <2>2, <3>3
    <3> QED BY <1>0, <1>b, <2>1, <3>3, <3>4, <3>6, <3>7, CountsLimits
  <2> QED BY <1>8, <2>3, <2>4, <2>5
<1>9. TagTool \/ MacAdvance \/ MacMutate => UNCHANGED <<record, snap, guard, group, by_agent>>
  BY DEF TagTool, MacAdvance, MacMutate, calls
<1>10. ASSUME NEW a \in Agents, Grant(a) \/ Revoke(a)
       PROVE  UNCHANGED <<record, snap, guard, group, by_agent>>
  BY <1>10 DEF Grant, Revoke, calls
<1>11. CASE UNCHANGED vars
  BY <1>1, <1>11 DEF vars, calls
<1> QED
  BY <1>1, <1>3, <1>4, <1>5, <1>6, <1>7, <1>8, <1>9, <1>10, <1>11 DEF Next, CallStep, LifeStep

\* No call enters while the gate is closed, and a count only falls otherwise.
LEMMA NextQuiet == ASSUME ToolInv, [Next]_vars PROVE QuietInv'
<1>0. RosterInv /\ GateInv /\ CountsInv /\ QuietInv /\ clock \in Nat
  BY DEF ToolInv, GateInv, TypesOfGate
<1>a. by_agent \in [Agents -> Nat] /\ life \in [Agents -> Lives]
  BY <1>0 DEF CountsInv, GroupTypes, RosterInv, RecordTypes
<1>1. CASE UNCHANGED <<life, by_agent>>
  BY <1>0, <1>1 DEF QuietInv
<1>2. ASSUME NEW a \in Agents, Register(a) PROVE QuietInv'
  BY <1>0, <1>a, <1>2 DEF QuietInv, Register
<1>3. ASSUME NEW a \in Agents, Unregister(a) PROVE QuietInv'
  BY <1>0, <1>a, <1>3 DEF QuietInv, Unregister
<1>4. ASSUME NEW a \in Agents, StartDrain(a) \/ Close(a) \/ Enable(a) \/ Check(a) \/ Reopen(a)
      PROVE  QuietInv'
  <2>1. by_agent' = by_agent
    BY <1>4 DEF StartDrain, Close, Enable, Check, Reopen
  <2>2. PICK l : life' = [life EXCEPT ![a] = l] /\ (l = "quiet" => by_agent[a] = 0)
    BY <1>0, <1>4, DrainPuts DEF Drains, Puts
  <2> QED BY <1>0, <1>a, <2>1, <2>2 DEF QuietInv
<1>5. ASSUME NEW c \in Calls, Acquire(c) PROVE QuietInv'
  <2>1. CASE Enters(c)
    <3>1. life' = life /\ by_agent' = [by_agent EXCEPT ![Caller[c]] = @ + 1]
      BY <1>0, <1>5, <2>1, AcquireGoes DEF Enters
    <3>2. Caller[c] \in Agents /\ life[Caller[c]] # "quiet"
      BY <1>0, <2>1, GateConstants DEF Enters, RosterInv, GateClosed, Draining
    <3> QED BY <1>0, <1>a, <3>1, <3>2 DEF QuietInv
  <2>2. CASE ~Enters(c)
    BY <1>0, <1>1, <1>5, <2>2, AcquireGoes
  <2> QED BY <2>1, <2>2
<1>6. ASSUME NEW c \in Calls, Release(c) PROVE QuietInv'
  <2>1. CASE guard[c] = "live"
    <3>1. /\ by_agent' = [by_agent EXCEPT ![Caller[c]] = IF @ = 0 THEN 0 ELSE @ - 1]
          /\ life' = Notified
      BY <1>6, <2>1 DEF Release
    <3>2. \A a \in Agents : by_agent[a] = 0 => by_agent'[a] = 0
      BY <1>a, <3>1, GateConstants
    <3> QED BY <1>0, <3>1, <3>2, NotifiedLives DEF QuietInv
  <2>2. CASE guard[c] # "live"
    BY <1>1, <1>6, <2>2 DEF Release
  <2> QED BY <2>1, <2>2
<1>7. ASSUME NEW a \in Agents, ForceUnregister(a) PROVE QuietInv'
  <2>1. by_agent' = [by_agent EXCEPT ![a] = 0] /\ life' = [Notified EXCEPT ![a] = "gone"]
    BY <1>7 DEF ForceUnregister
  <2> QED BY <1>0, <1>a, <2>1, NotifiedLives DEF QuietInv
<1>8. ASSUME NEW c \in Calls,
             Begin(c) \/ MacCheck(c) \/ CheckApproval(c) \/ Consume(c) \/ Finish(c)
      PROVE  UNCHANGED <<life, by_agent>>
  BY <1>0, <1>8, CallGoes
<1>9. TagTool \/ MacAdvance \/ MacMutate => UNCHANGED <<life, by_agent>>
  BY DEF TagTool, MacAdvance, MacMutate
<1>10. ASSUME NEW a \in Agents, SetAuthorization(a) \/ Grant(a) \/ Revoke(a) \/ Move(a)
       PROVE  UNCHANGED <<life, by_agent>>
  BY <1>10 DEF SetAuthorization, Grant, Revoke, Move
<1>11. ASSUME NEW g \in Groups, UpdateLimits(g) \/ CreateGroup(g) \/ RemoveEmptyLeaf(g)
       PROVE  UNCHANGED <<life, by_agent>>
  BY <1>11 DEF UpdateLimits, CreateGroup, RemoveEmptyLeaf
<1>12. CASE UNCHANGED vars
  BY <1>1, <1>12 DEF vars
<1> QED
  BY <1>1, <1>2, <1>3, <1>4, <1>5, <1>6, <1>7, <1>8, <1>9, <1>10, <1>11, <1>12
     DEF Next, CallStep, LifeStep

\* A step that leaves approvals, leases and their history, and the identity of
\* every registration that they name.
ApprovalsStay ==
  /\ UNCHANGED <<approvals, seen, lease, grants, uses, revocations>>
  /\ \A a \in Agents : record[a] \in GateRecord =>
       record'[a] \in GateRecord /\ record'[a].reg = record[a].reg
  /\ \A c \in Calls : lease[c] = "active" => pc'[c] = "running" /\ snap'[c] = snap[c]

\* Steps that leave the approvals alone keep them exact.
LEMMA ApprovalsKept == ASSUME ApprovalInv, ApprovalsStay PROVE ApprovalInv'
<1>1. ApprovalTypes'
  BY DEF ApprovalInv, ApprovalTypes, ApprovalsStay
<1>2. ApprovalsFresh'
  BY DEF ApprovalInv, ApprovalsFresh, ApprovalsStay
<1>3. LeasesCurrent'
  BY GateConstants DEF ApprovalInv, LeasesCurrent, ApprovalTypes, ApprovalsStay
<1>4. UsesGranted'
  BY DEF ApprovalInv, UsesGranted, Pending, ApprovalsStay
<1> QED BY <1>1, <1>2, <1>3, <1>4 DEF ApprovalInv

\* The leases of one agent are cancelled: none of them is active any more.
LEMMA Cancelled ==
  ASSUME ApprovalTypes, NEW a \in Agents, CancelPeripheral(a)
  PROVE  /\ lease' \in [Calls -> {"none", "active", "cancelled"}]
         /\ \A c \in Calls : lease'[c] = "active" => lease[c] = "active" /\ Caller[c] # a
  BY DEF ApprovalTypes, CancelPeripheral

\* The end of a registration takes its approvals and its leases with it.
LEMMA ForgetApprovals ==
  ASSUME ApprovalInv, RosterInv, NEW a \in Agents, Forget(a),
         UNCHANGED <<pc, snap, seen, grants, uses, revocations>>
  PROVE  ApprovalInv'
<1>1. \A b \in Agents : record'[b] = IF b = a THEN None ELSE record[b]
  BY DEF Forget, RosterInv, RecordTypes
<1>2. approvals' = {p \in approvals : p.agent # a}
  BY DEF Forget
<1>3. ApprovalTypes'
  BY Cancelled DEF ApprovalInv, ApprovalTypes, Forget
<1>4. ApprovalsFresh'
  BY <1>1, <1>2 DEF ApprovalInv, ApprovalsFresh
<1>5. LeasesCurrent'
  BY <1>1, Cancelled, GateConstants DEF ApprovalInv, LeasesCurrent, Forget
<1>6. UsesGranted'
  BY <1>2 DEF ApprovalInv, UsesGranted, Pending
<1> QED BY <1>3, <1>4, <1>5, <1>6 DEF ApprovalInv

\* A grant adds one unused approval.
LEMMA GrantApprovals ==
  ASSUME ApprovalInv, RosterInv, NEW a \in Agents, Grant(a)
  PROVE  ApprovalInv'
<1>1. record[a] \in GateRecord
  BY RecordOf DEF Grant
<1>2. /\ UNCHANGED <<record, pc, snap, seen, lease, uses, revocations>>
      /\ grants' = [grants EXCEPT ![a] = @ + 1]
  BY DEF Grant, calls
<1>3. PICK q : q = [agent |-> a, reg |-> record[a].reg, seen |-> revocations[a]]
  OBVIOUS
<1>4. /\ \A p \in approvals' : p = q \/ (p \in approvals /\ p.agent # a)
      /\ q.agent = a
  <2>1. approvals' = {p \in approvals : p.agent # a \/ p.reg # record[a].reg} \cup {q}
    BY <1>3 DEF Grant
  <2>2. \A p \in approvals : p.reg = record[p.agent].reg
    BY DEF ApprovalInv, ApprovalsFresh
  <2> QED BY <1>3, <2>1, <2>2
<1>5. ApprovalTypes'
  BY <1>2 DEF ApprovalInv, ApprovalTypes
<1>6. ApprovalsFresh'
  BY <1>1, <1>2, <1>3, <1>4 DEF ApprovalInv, ApprovalsFresh
<1>7. LeasesCurrent'
  BY <1>2 DEF ApprovalInv, LeasesCurrent
<1>8. UsesGranted'
  <2> SUFFICES ASSUME NEW b \in Agents
               PROVE  uses[b] <= grants'[b] /\ (Pending(b)' # {} => uses[b] < grants'[b])
    BY <1>2 DEF UsesGranted
  <2>1. /\ uses[b] \in Nat /\ grants[b] \in Nat /\ uses[b] <= grants[b]
        /\ Pending(b) # {} => uses[b] < grants[b]
    BY DEF ApprovalInv, ApprovalTypes, UsesGranted
  <2>2. CASE b = a
    BY <1>2, <2>1, <2>2 DEF ApprovalInv, ApprovalTypes
  <2>3. CASE b # a
    <3>1. Pending(b)' \subseteq Pending(b)
      BY <1>4, <2>3 DEF Pending
    <3>2. grants'[b] = grants[b]
      BY <1>2, <2>3 DEF ApprovalInv, ApprovalTypes
    <3> QED BY <2>1, <3>1, <3>2
  <2> QED BY <2>2, <2>3
<1> QED BY <1>5, <1>6, <1>7, <1>8 DEF ApprovalInv

\* A revocation takes unused approvals away and no others.
LEMMA RevokeApprovals ==
  ASSUME ApprovalInv, RosterInv, NEW a \in Agents, Revoke(a)
  PROVE  ApprovalInv'
<1>1. /\ UNCHANGED <<record, pc, snap, seen, grants, uses>> /\ CancelPeripheral(a)
      /\ revocations' = [revocations EXCEPT ![a] = @ + 1]
  BY DEF Revoke
<1>2. \A p \in approvals' : p \in approvals /\ p.agent # a
  <2>1. approvals' = {p \in approvals : p.agent # a \/ p.reg # record[a].reg}
    BY DEF Revoke
  <2>2. \A p \in approvals : p.reg = record[p.agent].reg
    BY DEF ApprovalInv, ApprovalsFresh
  <2> QED BY <2>1, <2>2
<1>3. \A b \in Agents : b # a => revocations'[b] = revocations[b]
  BY <1>1 DEF ApprovalInv, ApprovalTypes
<1>4. ApprovalTypes'
  BY <1>1, Cancelled DEF ApprovalInv, ApprovalTypes
<1>5. ApprovalsFresh'
  BY <1>1, <1>2, <1>3 DEF ApprovalInv, ApprovalsFresh
<1>6. LeasesCurrent'
  BY <1>1, <1>3, Cancelled, GateConstants DEF ApprovalInv, LeasesCurrent
<1>7. UsesGranted'
  <2>1. \A b \in Agents : Pending(b)' \subseteq Pending(b)
    BY <1>2 DEF Pending
  <2> QED BY <1>1, <2>1 DEF ApprovalInv, UsesGranted
<1> QED BY <1>4, <1>5, <1>6, <1>7 DEF ApprovalInv

\* The approval that a call consumes is of its agent's present registration and
\* is gone afterwards; the lease appears in the same step.
LEMMA ConsumeApprovals ==
  ASSUME ApprovalInv, RosterInv, GateInv, NEW c \in Calls, Consume(c)
  PROVE  ApprovalInv'
<1>0. Caller[c] \in Agents
  BY GateConstants
<1>1. /\ UNCHANGED <<record, snap, grants, revocations>>
      /\ pc[c] = "admitted" /\ lease[c] # "active"
  BY DEF Consume, ApprovalInv, LeasesCurrent
<1>2. CASE c \in Approved /\ Keyed(c) # {}
  <2>1. /\ approvals' = approvals \ Keyed(c)
        /\ lease' = [lease EXCEPT ![c] = "active"]
        /\ seen' = [seen EXCEPT ![c] = (CHOOSE p \in Keyed(c) : TRUE).seen]
        /\ uses' = [uses EXCEPT ![Caller[c]] = @ + 1]
        /\ pc' = [pc EXCEPT ![c] = "running"]
    BY <1>2 DEF Consume
  <2>2. PICK q : q = CHOOSE p \in Keyed(c) : TRUE
    OBVIOUS
  <2>3. q \in approvals /\ q.agent = Caller[c] /\ q.reg = snap[c].agent.reg
    BY <1>2, <2>2 DEF Keyed
  <2>4. /\ q.reg = record[Caller[c]].reg /\ q.seen = revocations[Caller[c]]
        /\ record[Caller[c]] \in GateRecord
    BY <2>3 DEF ApprovalInv, ApprovalsFresh
  <2>5. \A p \in approvals : p.agent = Caller[c] => p \in Keyed(c)
    BY <2>3, <2>4 DEF ApprovalInv, ApprovalsFresh, Keyed
  <2>6. /\ seen' \in [Calls -> Nat] /\ lease' \in [Calls -> {"none", "active", "cancelled"}]
        /\ uses' \in [Agents -> Nat]
        /\ seen'[c] = revocations[Caller[c]] /\ pc'[c] = "running"
        /\ \A d \in Calls : d # c => /\ seen'[d] = seen[d] /\ lease'[d] = lease[d]
                                     /\ pc'[d] = pc[d]
    BY <1>0, <2>1, <2>2, <2>4 DEF ApprovalInv, ApprovalTypes, GateInv, TypesOfGate
  <2>7. ApprovalTypes'
    BY <1>1, <2>6 DEF ApprovalInv, ApprovalTypes
  <2>8. ApprovalsFresh'
    BY <1>1, <2>1 DEF ApprovalInv, ApprovalsFresh
  <2>9. LeasesCurrent'
    BY <1>1, <2>3, <2>4, <2>6 DEF ApprovalInv, LeasesCurrent
  <2>10. UsesGranted'
    <3> SUFFICES ASSUME NEW b \in Agents
                 PROVE  uses'[b] <= grants[b] /\ (Pending(b)' # {} => uses'[b] < grants[b])
      BY <1>1 DEF UsesGranted
    <3>1. /\ uses[b] \in Nat /\ grants[b] \in Nat /\ uses[b] <= grants[b]
          /\ Pending(b) # {} => uses[b] < grants[b]
      BY DEF ApprovalInv, ApprovalTypes, UsesGranted
    <3>2. CASE b = Caller[c]
      <4>1. Pending(b) # {} /\ Pending(b)' = {}
        BY <2>1, <2>3, <2>5, <3>2 DEF Pending
      <4>2. uses'[b] = uses[b] + 1
        BY <2>1, <3>2 DEF ApprovalInv, ApprovalTypes
      <4> QED BY <3>1, <4>1, <4>2
    <3>3. CASE b # Caller[c]
      <4>1. Pending(b)' \subseteq Pending(b) /\ uses'[b] = uses[b]
        BY <2>1, <3>3 DEF Pending, ApprovalInv, ApprovalTypes
      <4> QED BY <3>1, <4>1
    <3> QED BY <3>2, <3>3
  <2> QED BY <2>7, <2>8, <2>9, <2>10 DEF ApprovalInv
<1>3. CASE ~(c \in Approved /\ Keyed(c) # {})
  <2>1. /\ UNCHANGED <<approvals, lease, seen, uses>>
        /\ \E to : pc' = [pc EXCEPT ![c] = to]
    BY <1>3 DEF Consume
  <2>2. ApprovalsStay
    BY <1>1, <2>1 DEF ApprovalsStay, ApprovalInv, LeasesCurrent, GateInv, TypesOfGate
  <2> QED BY <2>2, ApprovalsKept
<1> QED BY <1>2, <1>3

\* Every step keeps the approvals exact.
LEMMA NextApprovals == ASSUME ToolInv, [Next]_vars PROVE ApprovalInv'
<1>0. RosterInv /\ GateInv /\ ApprovalInv /\ clock \in Nat
  BY DEF ToolInv, GateInv, TypesOfGate
<1>a. UNCHANGED <<record, pc, snap, approvals, seen, lease, grants, uses, revocations>> => ApprovalsStay
  BY <1>0 DEF ApprovalsStay, ApprovalInv, LeasesCurrent
<1>1. ASSUME NEW a \in Agents, NEW r \in GateRecord, NEW l, Puts(a, r, l),
             UNCHANGED <<approvals, seen, lease, grants, uses, revocations>>,
             record[a] \in GateRecord => r.reg = record[a].reg
      PROVE  ApprovalInv'
  <2>1. \A b \in Agents : record'[b] = IF b = a THEN r ELSE record[b]
    BY <1>0, <1>1 DEF Puts, RosterInv, RecordTypes
  <2>2. ApprovalsStay
    BY <1>0, <1>1, <2>1 DEF ApprovalsStay, Puts, ApprovalInv, LeasesCurrent
  <2> QED BY <1>0, <2>2, ApprovalsKept
<1>2. ASSUME NEW a \in Agents, Register(a) PROVE ApprovalInv'
  <2>1. UNCHANGED <<approvals, seen, lease, grants, uses, revocations>>
    BY <1>2 DEF Register, calls, history
  <2> QED BY <1>0, <1>1, <1>2, <2>1, RegisterPuts, RecordOf
<1>3. ASSUME NEW a \in Agents, SetAuthorization(a) PROVE ApprovalInv'
  <2>1. UNCHANGED <<approvals, seen, lease, grants, uses, revocations>>
    BY <1>3 DEF SetAuthorization, calls, history
  <2> QED BY <1>0, <1>1, <1>3, <2>1, SetAuthorizationPuts DEF Amends
<1>4. ASSUME NEW a \in Agents, Move(a) PROVE ApprovalInv'
  <2>1. UNCHANGED <<approvals, seen, lease, grants, uses, revocations>>
    BY <1>4 DEF Move, calls, history
  <2> QED BY <1>0, <1>1, <1>4, <2>1, MovePuts
<1>5. ASSUME NEW a \in Agents, Close(a) \/ Enable(a) \/ Check(a) \/ Reopen(a) PROVE ApprovalInv'
  <2>1. UNCHANGED <<approvals, seen, lease, grants, uses, revocations>>
    BY <1>5 DEF Close, Enable, Check, Reopen, calls, history
  <2>2. PICK r, l : Drains(a, r, l)
    BY <1>0, <1>5, DrainPuts
  <2> QED BY <1>1, <2>1, <2>2 DEF Drains, Amends
<1>6. ASSUME NEW a \in Agents, StartDrain(a) PROVE ApprovalInv'
  <2>1. /\ UNCHANGED <<record, pc, snap, approvals, seen, grants, uses, revocations>>
        /\ CancelPeripheral(a)
    BY <1>6 DEF StartDrain, history
  <2>2. /\ lease' \in [Calls -> {"none", "active", "cancelled"}]
        /\ \A c \in Calls : lease'[c] = "active" => lease[c] = "active"
    BY <1>0, <2>1, Cancelled DEF ApprovalInv
  <2> QED BY <1>0, <2>1, <2>2 DEF ApprovalInv, ApprovalTypes, ApprovalsFresh, LeasesCurrent,
                                   UsesGranted, Pending
<1>7. ASSUME NEW a \in Agents, Unregister(a) \/ ForceUnregister(a) PROVE ApprovalInv'
  BY <1>0, <1>7, ForgetApprovals DEF Unregister, ForceUnregister, history
<1>8. ASSUME NEW a \in Agents, Grant(a) PROVE ApprovalInv'
  BY <1>0, <1>8, GrantApprovals
<1>9. ASSUME NEW a \in Agents, Revoke(a) PROVE ApprovalInv'
  BY <1>0, <1>9, RevokeApprovals
<1>10. ASSUME NEW c \in Calls,
              Begin(c) \/ MacCheck(c) \/ CheckApproval(c) \/ Acquire(c) \/ Release(c)
       PROVE  ApprovalInv'
  <2>1. /\ UNCHANGED <<record, approvals, seen, lease, grants, uses, revocations>>
        /\ pc[c] # "running"
    BY <1>10 DEF Begin, MacCheck, CheckApproval, Acquire, Release, Deny, history
  <2>2. \E to, s : pc' = [pc EXCEPT ![c] = to] /\ (snap' = snap \/ snap' = [snap EXCEPT ![c] = s])
    BY <1>10 DEF Begin, MacCheck, CheckApproval, Acquire, Release, Deny
  <2>3. ApprovalsStay
    BY <1>0, <2>1, <2>2 DEF ApprovalsStay, ApprovalInv, LeasesCurrent, GateInv, TypesOfGate
  <2> QED BY <1>0, <2>3, ApprovalsKept
<1>11. ASSUME NEW c \in Calls, Consume(c) PROVE ApprovalInv'
  BY <1>0, <1>11, ConsumeApprovals
<1>12. ASSUME NEW c \in Calls, Finish(c) PROVE ApprovalInv'
  <2>1. /\ UNCHANGED <<record, approvals, snap, grants, uses, revocations>>
        /\ pc' = [pc EXCEPT ![c] = "ending"]
        /\ lease' = [lease EXCEPT ![c] = "none"] /\ seen' = [seen EXCEPT ![c] = 0]
    BY <1>12 DEF Finish, history
  <2>2. /\ lease' \in [Calls -> {"none", "active", "cancelled"}] /\ seen' \in [Calls -> Nat]
        /\ lease'[c] = "none"
        /\ \A d \in Calls : d # c => /\ lease'[d] = lease[d] /\ seen'[d] = seen[d]
                                     /\ pc'[d] = pc[d]
    BY <1>0, <2>1 DEF ApprovalInv, ApprovalTypes, GateInv, TypesOfGate
  <2>3. ApprovalTypes' /\ ApprovalsFresh' /\ UsesGranted'
    BY <1>0, <2>1, <2>2 DEF ApprovalInv, ApprovalTypes, ApprovalsFresh, UsesGranted, Pending
  <2>4. LeasesCurrent'
    BY <1>0, <2>1, <2>2 DEF ApprovalInv, LeasesCurrent
  <2> QED BY <2>3, <2>4 DEF ApprovalInv
<1>13. TagTool \/ MacAdvance \/ MacMutate
         => UNCHANGED <<record, pc, snap, approvals, seen, lease, grants, uses, revocations>>
  BY DEF TagTool, MacAdvance, MacMutate, calls, history
<1>14. ASSUME NEW g \in Groups, UpdateLimits(g) \/ CreateGroup(g) \/ RemoveEmptyLeaf(g)
       PROVE  UNCHANGED <<record, pc, snap, approvals, seen, lease, grants, uses, revocations>>
  BY <1>14 DEF UpdateLimits, CreateGroup, RemoveEmptyLeaf, calls, history
<1>15. CASE UNCHANGED vars
  BY <1>0, <1>a, <1>15, ApprovalsKept DEF vars, calls, history
<1>16. ApprovalsStay => ApprovalInv'
  BY <1>0, ApprovalsKept
<1> QED
  BY <1>a, <1>2, <1>3, <1>4, <1>5, <1>6, <1>7, <1>8, <1>9, <1>10, <1>11, <1>12, <1>13, <1>14,
     <1>15, <1>16
     DEF Next, CallStep, LifeStep

\* The inductive invariant behind the three theorems below.  The counters need
\* the registry (a guard counts for the group its agent is in now, because an
\* agent with calls is not moved), and the registry needs the counters.
THEOREM ToolInvariant == Spec => []ToolInv
<1>1. ToolInv /\ [Next]_vars => ToolInv'
  <2> SUFFICES ASSUME ToolInv, [Next]_vars PROVE ToolInv'
    OBVIOUS
  <2>1. GateInv'
    BY NextGate DEF ToolInv
  <2> QED BY <2>1, NextRoster, NextCounts, NextQuiet, NextApprovals DEF ToolInv
<1> QED BY <1>1, InitTool, PTL DEF Spec

\* The counters of cgroups.rs count exactly the calls in progress and keep
\* within the limits, over denials, moves, kills, guards that outlive their
\* registration, and groups that come and go.
THEOREM CountersAreExact == Spec => []ToolAccounting
<1>1. ToolInv => ToolAccounting
  BY DEF ToolInv, CountsInv
<1> QED BY <1>1, ToolInvariant, PTL

\* close_tool_admission_and_wait: an agent that was drained has no call until
\* its gate is reopened, although calls were judged before it was closed.
THEOREM DrainedIsQuiet == Spec => []QuietAfterDrain
<1>1. ToolInv => QuietAfterDrain
  BY NoCalls DEF ToolInv, QuietInv, QuietAfterDrain
<1> QED BY <1>1, ToolInvariant, PTL

\* An approval admits one call, and neither a revocation nor the end of the
\* registration leaves an approval pending or a lease that is not cancelled.
THEOREM ApprovalsUsedOnce == Spec => []ApprovalsAreExact
<1>1. ASSUME ToolInv PROVE ApprovalsAreExact
  <2>1. ApprovalInv
    BY <1>1 DEF ToolInv
  <2>2. ASSUME NEW a \in Agents
        PROVE  uses[a] + Cardinality({p \in approvals : p.agent = a}) <= grants[a]
    <3>1. /\ uses[a] \in Nat /\ grants[a] \in Nat /\ uses[a] <= grants[a]
          /\ Pending(a) # {} => uses[a] < grants[a]
      BY <2>1 DEF ApprovalInv, ApprovalTypes, UsesGranted
    <3>2. CASE Pending(a) = {}
      BY <3>1, <3>2, FS_EmptySet DEF Pending
    <3>3. CASE Pending(a) # {}
      <4>1. PICK q : q = [agent |-> a, reg |-> record[a].reg, seen |-> revocations[a]]
        OBVIOUS
      <4>2. Pending(a) = {q}
        BY <2>1, <3>3, <4>1 DEF Pending, ApprovalInv, ApprovalsFresh
      <4>3. Cardinality(Pending(a)) = 1
        BY <4>2, FS_Singleton
      <4> QED BY <3>1, <3>3, <4>3 DEF Pending
    <3> QED BY <3>2, <3>3
  <2>3. \A c \in Calls : lease[c] = "active" =>
          seen[c] = revocations[Caller[c]] /\ snap[c].agent.reg = record[Caller[c]].reg
    BY <2>1 DEF ApprovalInv, LeasesCurrent
  <2> QED BY <2>2, <2>3 DEF ApprovalsAreExact
<1> QED BY <1>1, ToolInvariant, PTL

==============================================================================
