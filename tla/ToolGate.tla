------------------------------ MODULE ToolGate ------------------------------
(***************************************************************************)
(* Admission of tool calls: the syscall gate (syscall_gate.rs), the cgroup *)
(* tree that counts the calls (cgroups.rs), the leases of peripheral calls *)
(* (resources.rs) and the lifecycle code that closes the gate and drains   *)
(* it (lib.rs).                                                            *)
(*                                                                         *)
(* A call takes a snapshot of what it is allowed, waits for the MAC engine,*)
(* looks for an approval, and only then enters: under `mutation_lock' the  *)
(* snapshot must be unchanged, revision by revision.  The mutators of the  *)
(* MAC engine do not take that lock: they hold the engine's own and        *)
(* advance mac_revision before they change anything.                       *)
(*                                                                         *)
(* One tool, one required capability, one namespace, one MAC verdict and   *)
(* one approval contract stand for all: snapshots and keys are exact, so   *)
(* other ones never meet.  Revisions and pids are only compared for        *)
(* equality and each change takes a new one, so one clock supplies them    *)
(* all, and it bounds the changes that a behaviour makes.                  *)
(***************************************************************************)
EXTENDS Naturals, FiniteSets

CONSTANTS
  Agents,        \* kernel ids
  Calls,         \* tool calls, each repeated for ever
  Caller,        \* the agent of each call
  Approved,      \* the calls whose tool needs an approval (and is a peripheral)
  Groups, Root,  \* control groups; the others are children of the root
  Limits,        \* values of max_concurrent_tool_calls; 0 is none
  MaxChanges     \* bound on changes of authority, groups and limits

ASSUME GateConstants ==
  /\ Caller \in [Calls -> Agents] /\ Approved \subseteq Calls /\ IsFiniteSet(Calls)
  /\ Root \in Groups /\ Limits \subseteq Nat
  /\ MaxChanges \in Nat

VARIABLES
  record,        \* SyscallGate.records: GateRecord of each registered agent
  clock,         \* next_cgroup_revision, next_authorization_revision, next_pid, ...
  tag,           \* tool_namespaces has an entry for the tool; its revision
  mac,           \* MacEngine: the verdict, mac_revision, and whether its lock
                 \* is held by a mutator that has advanced the revision
  approvals,     \* unconsumed approvals: agent, registration, revocations seen
  group,         \* CgroupManager.groups: existing, limit, active_tool_calls
  by_agent,      \* active_tool_calls_by_agent
  pc, snap,      \* of each call: where it is, its snapshot
  guard,         \* its ToolCallGuard: none, live, or of a revoked generation
  lease,         \* its PeripheralActivityLease: none, active or cancelled
  seen,          \* the revocations that its consumed approval had seen
  life,          \* of each agent: where its lifecycle operation is
  grants, uses, revocations  \* history: what was granted, used and revoked

calls == <<pc, snap, guard, lease, seen>>
history == <<grants, uses, revocations>>
vars == <<record, clock, tag, mac, approvals, group, by_agent, calls, life, history>>

None == [reg |-> 0]
Registered(a) == record[a].reg > 0
Path(g) == {g, Root}
NoSnapshot == [agent |-> None]

Init ==
  /\ record = [a \in Agents |-> None]
  /\ clock = 0
  /\ tag = [set |-> FALSE, revision |-> 0]
  /\ mac = [allows |-> TRUE, revision |-> 0, locked |-> FALSE]
  /\ approvals = {}
  /\ group = [g \in Groups |-> [exists |-> TRUE, limit |-> 0, active |-> 0]]
  /\ by_agent = [a \in Agents |-> 0]
  /\ pc = [c \in Calls |-> "idle"] /\ snap = [c \in Calls |-> NoSnapshot]
  /\ guard = [c \in Calls |-> "none"] /\ lease = [c \in Calls |-> "none"]
  /\ seen = [c \in Calls |-> 0]
  /\ life = [a \in Agents |-> "gone"]
  /\ grants = [a \in Agents |-> 0] /\ uses = [a \in Agents |-> 0]
  /\ revocations = [a \in Agents |-> 0]

-----------------------------------------------------------------------------
(* Mutations of the gate, each under mutation_lock.                        *)

Change == clock < MaxChanges /\ clock' = clock + 1

\* try_register_agent: the membership of the group is part of the record.
Register(a) ==
  /\ ~Registered(a) /\ Change
  /\ \E g \in Groups :
       /\ group[g].exists
       /\ record' = [record EXCEPT ![a] =
            [reg |-> clock', auth |-> clock', cgroup |-> g, moved |-> clock',
             accepting |-> TRUE, capable |-> TRUE, member |-> TRUE]]
  /\ life' = [life EXCEPT ![a] = "live"]
  /\ UNCHANGED <<tag, mac, approvals, group, by_agent, calls, history>>

\* set_capabilities, set_agent_namespaces and add_agent_namespace.
SetAuthorization(a) ==
  /\ Registered(a) /\ Change
  /\ \/ record' = [record EXCEPT ![a].capable = ~@, ![a].auth = clock']
     \/ record' = [record EXCEPT ![a].member = ~@, ![a].auth = clock']
  /\ UNCHANGED <<tag, mac, approvals, group, by_agent, calls, life, history>>

\* register_tool_namespace, unregister_tool_namespace.
TagTool ==
  /\ Change
  /\ tag' = [set |-> ~tag.set, revision |-> clock']
  /\ UNCHANGED <<record, mac, approvals, group, by_agent, calls, life, history>>

\* The mutators of the MAC engine: the lock is taken and the revision
\* advanced; then the state is changed and the lock released.
MacAdvance ==
  /\ ~mac.locked /\ Change
  /\ mac' = [mac EXCEPT !.revision = clock', !.locked = TRUE]
  /\ UNCHANGED <<record, tag, approvals, group, by_agent, calls, life, history>>

MacMutate ==
  /\ mac.locked
  /\ mac' = [mac EXCEPT !.allows = ~@, !.locked = FALSE]
  /\ UNCHANGED <<record, clock, tag, approvals, group, by_agent, calls, life, history>>

\* grant_tool_approval_contract: a second grant replaces the first.
Grant(a) ==
  /\ Registered(a) /\ Change
  /\ approvals' = {p \in approvals : p.agent # a \/ p.reg # record[a].reg}
                    \cup {[agent |-> a, reg |-> record[a].reg, seen |-> revocations[a]]}
  /\ grants' = [grants EXCEPT ![a] = @ + 1]
  /\ UNCHANGED <<record, tag, mac, group, by_agent, calls, life, uses, revocations>>

\* The leases of the agent that are in peripheral_activity are cancelled.
CancelPeripheral(a) ==
  lease' = [c \in Calls |-> IF Caller[c] = a /\ lease[c] = "active" THEN "cancelled" ELSE lease[c]]

\* revoke_peripheral_call_contract, which does what revoke_tool_approval does
\* and cancels the uses: the pending approval and the active leases go.
Revoke(a) ==
  /\ Registered(a) /\ revocations[a] < grants[a]
  /\ approvals' = {p \in approvals : p.agent # a \/ p.reg # record[a].reg}
  /\ CancelPeripheral(a)
  /\ revocations' = [revocations EXCEPT ![a] = @ + 1]
  /\ UNCHANGED <<record, clock, tag, mac, group, by_agent, pc, snap, guard, seen, life,
                 grants, uses>>

\* try_set_cgroup and try_move_agent: refused while the agent has calls.
Move(a) ==
  /\ Registered(a) /\ Change /\ by_agent[a] = 0
  /\ \E g \in Groups \ {record[a].cgroup} :
       /\ group[g].exists
       /\ record' = [record EXCEPT ![a].cgroup = g, ![a].moved = clock']
  /\ UNCHANGED <<tag, mac, approvals, group, by_agent, calls, life, history>>

\* update_limits: not below the usage.
UpdateLimits(g) ==
  /\ Change /\ group[g].exists
  /\ \E n \in Limits \ {group[g].limit} :
       /\ n = 0 \/ group[g].active <= n
       /\ group' = [group EXCEPT ![g].limit = n]
  /\ UNCHANGED <<record, tag, mac, approvals, by_agent, calls, life, history>>

\* create_scoped, try_remove_empty_leaf.
CreateGroup(g) ==
  /\ Change /\ ~group[g].exists
  /\ \E n \in Limits : group' = [group EXCEPT ![g] = [exists |-> TRUE, limit |-> n, active |-> 0]]
  /\ UNCHANGED <<record, tag, mac, approvals, by_agent, calls, life, history>>

RemoveEmptyLeaf(g) ==
  /\ Change /\ g # Root /\ group[g].exists /\ group[g].active = 0
  /\ \A a \in Agents : Registered(a) => record[a].cgroup # g
  /\ group' = [group EXCEPT ![g].exists = FALSE]
  /\ UNCHANGED <<record, tag, mac, approvals, by_agent, calls, life, history>>

-----------------------------------------------------------------------------
(* A tool call: authorize_and_acquire_tool_call_declared_contract.         *)

Snapshot(a) == [agent |-> record[a], tag |-> tag, mac |-> mac.revision]

Deny(c) ==
  /\ pc' = [pc EXCEPT ![c] = "idle"] /\ snap' = [snap EXCEPT ![c] = NoSnapshot]
  /\ UNCHANGED <<guard, lease, seen>>

\* The snapshot is taken under mutation_lock and checked after it: open
\* admission, namespace, capability.  A denied call changes nothing.
Begin(c) ==
  LET s == Snapshot(Caller[c]) IN
  /\ pc[c] = "idle" /\ Registered(Caller[c])
  /\ s.agent.accepting /\ s.agent.capable /\ (s.tag.set => s.agent.member)
  /\ pc' = [pc EXCEPT ![c] = "mac"] /\ snap' = [snap EXCEPT ![c] = s]
  /\ UNCHANGED <<record, clock, tag, mac, approvals, group, by_agent, guard, lease, seen,
                 life, history>>

\* The lock of the MAC engine is awaited and its verdict taken.
MacCheck(c) ==
  /\ pc[c] = "mac" /\ ~mac.locked
  /\ IF mac.allows
       THEN pc' = [pc EXCEPT ![c] = "approval"] /\ UNCHANGED <<snap, guard, lease, seen>>
       ELSE Deny(c)
  /\ UNCHANGED <<record, clock, tag, mac, approvals, group, by_agent, life, history>>

\* The approvals under the key of the call.
Keyed(c) == {p \in approvals : p.agent = Caller[c] /\ p.reg = snap[c].agent.reg}

\* The approval must be there; it is not consumed yet.
CheckApproval(c) ==
  /\ pc[c] = "approval"
  /\ IF c \in Approved => Keyed(c) # {}
       THEN pc' = [pc EXCEPT ![c] = "acquire"] /\ UNCHANGED <<snap, guard, lease, seen>>
       ELSE Deny(c)
  /\ UNCHANGED <<record, clock, tag, mac, approvals, group, by_agent, life, history>>

\* Mutant: the revision of the MAC engine is not compared.
UnchangedButMac(c) == snap[c].agent = record[Caller[c]] /\ snap[c].tag = tag

Unchanged(c) == snap[c] = Snapshot(Caller[c])

HasRoom(g) == group[g].exists /\ (group[g].limit = 0 \/ group[g].active < group[g].limit)

\* acquire_tool_call_if_unchanged and acquire_tool_call_for_agent: under both
\* locks, the snapshot must be current and every group of the path have room.
Acquire(c) ==
  LET a == Caller[c]
      path == Path(snap[c].agent.cgroup)
  IN
  /\ pc[c] = "acquire"
  /\ IF Registered(a) /\ Unchanged(c) /\ \A g \in path : HasRoom(g)
       THEN /\ group' = [g \in Groups |-> IF g \in path THEN [group[g] EXCEPT !.active = @ + 1]
                                          ELSE group[g]]
            /\ by_agent' = [by_agent EXCEPT ![a] = @ + 1]
            /\ guard' = [guard EXCEPT ![c] = "live"]
            /\ pc' = [pc EXCEPT ![c] = "admitted"]
            /\ UNCHANGED <<snap, lease, seen>>
       ELSE Deny(c) /\ UNCHANGED <<group, by_agent>>
  /\ UNCHANGED <<record, clock, tag, mac, approvals, life, history>>

\* Mutant: the approval is consumed first, the lease published later.
ConsumeInTwoSteps(c) ==
  /\ \/ /\ pc[c] = "admitted" /\ Keyed(c) # {}
        /\ approvals' = approvals \ Keyed(c)
        /\ seen' = [seen EXCEPT ![c] = (CHOOSE p \in Keyed(c) : TRUE).seen]
        /\ pc' = [pc EXCEPT ![c] = "consumed"]
        /\ UNCHANGED lease
     \/ /\ pc[c] = "consumed"
        /\ lease' = [lease EXCEPT ![c] = "active"]
        /\ pc' = [pc EXCEPT ![c] = "running"]
        /\ UNCHANGED <<approvals, seen>>
  /\ UNCHANGED <<record, clock, tag, mac, group, by_agent, snap, guard, life, history>>

\* A later critical section consumes the approval and publishes the lease
\* together.  Without the approval the call is denied and its guard dropped.
Consume(c) ==
  LET a == Caller[c] IN
  /\ pc[c] = "admitted"
  /\ IF c \notin Approved
       THEN /\ pc' = [pc EXCEPT ![c] = "running"]
            /\ UNCHANGED <<approvals, lease, seen, uses>>
       ELSE IF Keyed(c) = {}
       THEN /\ pc' = [pc EXCEPT ![c] = "ending"]
            /\ UNCHANGED <<approvals, lease, seen, uses>>
       ELSE /\ approvals' = approvals \ Keyed(c)
            /\ lease' = [lease EXCEPT ![c] = "active"]
            /\ seen' = [seen EXCEPT ![c] = (CHOOSE p \in Keyed(c) : TRUE).seen]
            /\ uses' = [uses EXCEPT ![a] = @ + 1]
            /\ pc' = [pc EXCEPT ![c] = "running"]
  /\ UNCHANGED <<record, clock, tag, mac, group, by_agent, snap, guard, life, grants,
                 revocations>>

\* The provider returns, fails, times out or obeys the cancelled token, and
\* the proof is dropped with the lease.
Finish(c) ==
  /\ pc[c] = "running"
  /\ pc' = [pc EXCEPT ![c] = "ending"]
  /\ lease' = [lease EXCEPT ![c] = "none"] /\ seen' = [seen EXCEPT ![c] = 0]
  /\ UNCHANGED <<record, clock, tag, mac, approvals, group, by_agent, snap, guard, life,
                 history>>

\* tool_calls_changed.notify_waiters: a drain that has registered is woken,
\* even when it has not come to its await.
Notified == [a \in Agents |-> IF life[a] = "await" THEN "enable"
                              ELSE IF life[a] = "check" THEN "recheck" ELSE life[a]]

\* Mutant: a guard of a revoked generation is counted down too.
ReleaseAlways(c) ==
  LET a == Caller[c] IN
  /\ pc[c] = "ending"
  /\ group' = [g \in Groups |-> IF g \in Path(snap[c].agent.cgroup) /\ group[g].active > 0
                                THEN [group[g] EXCEPT !.active = @ - 1] ELSE group[g]]
  /\ by_agent' = [by_agent EXCEPT ![a] = IF @ = 0 THEN 0 ELSE @ - 1]
  /\ life' = Notified
  /\ guard' = [guard EXCEPT ![c] = "none"]
  /\ pc' = [pc EXCEPT ![c] = "idle"] /\ snap' = [snap EXCEPT ![c] = NoSnapshot]
  /\ UNCHANGED <<record, clock, tag, mac, approvals, lease, seen, history>>

\* ToolCallGuard::drop, release_tool_call: nothing if the generation of the
\* guard was revoked.
Release(c) ==
  LET a == Caller[c] IN
  /\ pc[c] = "ending"
  /\ IF guard[c] = "live"
       THEN /\ group' = [g \in Groups |-> IF g \in Path(snap[c].agent.cgroup) /\ group[g].active > 0
                                          THEN [group[g] EXCEPT !.active = @ - 1] ELSE group[g]]
            /\ by_agent' = [by_agent EXCEPT ![a] = IF @ = 0 THEN 0 ELSE @ - 1]
            /\ life' = Notified
       ELSE UNCHANGED <<group, by_agent, life>>
  /\ guard' = [guard EXCEPT ![c] = "none"]
  /\ pc' = [pc EXCEPT ![c] = "idle"] /\ snap' = [snap EXCEPT ![c] = NoSnapshot]
  /\ UNCHANGED <<record, clock, tag, mac, approvals, lease, seen, history>>

-----------------------------------------------------------------------------
(* Lifecycle operations, one at a time per agent (lifecycle_lock).         *)

\* drain_agent_tool_calls signals the devices first ...
StartDrain(a) ==
  /\ life[a] = "live"
  /\ CancelPeripheral(a)
  /\ life' = [life EXCEPT ![a] = "close"]
  /\ UNCHANGED <<record, clock, tag, mac, approvals, group, by_agent, pc, snap, guard, seen,
                 history>>

\* ... then close_tool_admission_and_wait closes the gate ...
Close(a) ==
  /\ life[a] = "close" /\ Change
  /\ record' = [record EXCEPT ![a].accepting = FALSE, ![a].auth = clock']
  /\ life' = [life EXCEPT ![a] = "enable"]
  /\ UNCHANGED <<tag, mac, approvals, group, by_agent, calls, history>>

\* ... and waits: wait_for_agent_tool_calls registers for the notification
\* before it looks.
Enable(a) ==
  /\ life[a] = "enable"
  /\ life' = [life EXCEPT ![a] = "check"]
  /\ UNCHANGED <<record, clock, tag, mac, approvals, group, by_agent, calls, history>>

\* Mutant: any notification ends the wait.
CheckOnce(a) ==
  /\ life[a] \in {"check", "recheck"}
  /\ life' = [life EXCEPT ![a] = IF by_agent[a] = 0 \/ life[a] = "recheck" THEN "quiet" ELSE "await"]
  /\ UNCHANGED <<record, clock, tag, mac, approvals, group, by_agent, calls, history>>

\* Mutant: it looks before it registers for the notification.
CheckThenEnable(a) ==
  /\ life[a] \in {"check", "recheck", "late"}
  /\ life' = [life EXCEPT ![a] = IF life[a] = "late" THEN "await"
                                 ELSE IF by_agent[a] = 0 THEN "quiet" ELSE "late"]
  /\ UNCHANGED <<record, clock, tag, mac, approvals, group, by_agent, calls, history>>

Check(a) ==
  /\ life[a] \in {"check", "recheck"}
  /\ life' = [life EXCEPT ![a] = IF by_agent[a] = 0 THEN "quiet"
                                 ELSE IF life[a] = "check" THEN "await" ELSE "enable"]
  /\ UNCHANGED <<record, clock, tag, mac, approvals, group, by_agent, calls, history>>

\* The drain timed out, or the durable status write after it failed.
Reopen(a) ==
  /\ life[a] \in {"enable", "check", "recheck", "await", "quiet"} /\ Change
  /\ record' = [record EXCEPT ![a].accepting = TRUE, ![a].auth = clock']
  /\ life' = [life EXCEPT ![a] = "live"]
  /\ UNCHANGED <<tag, mac, approvals, group, by_agent, calls, history>>

Forget(a) ==
  /\ record' = [record EXCEPT ![a] = None]
  /\ approvals' = {p \in approvals : p.agent # a}
  /\ CancelPeripheral(a)

\* cleanup_agent_resources closes and waits again, which changes nothing now,
\* and try_unregister_agent removes an agent without calls.
Unregister(a) ==
  /\ life[a] = "quiet" /\ by_agent[a] = 0
  /\ Forget(a)
  /\ life' = [life EXCEPT ![a] = "gone"]
  /\ UNCHANGED <<clock, tag, mac, group, by_agent, pc, snap, guard, seen, history>>

\* kill: force_unregister_agent and force_remove_agent.  The counters drop by
\* the calls of the agent and their guards become inert.
ForceUnregister(a) ==
  /\ life[a] = "live"
  /\ Forget(a)
  /\ group' = [g \in Groups |-> IF g \in Path(record[a].cgroup)
                 THEN [group[g] EXCEPT !.active = IF @ < by_agent[a] THEN 0 ELSE @ - by_agent[a]]
                 ELSE group[g]]
  /\ by_agent' = [by_agent EXCEPT ![a] = 0]
  /\ guard' = [c \in Calls |-> IF Caller[c] = a /\ guard[c] = "live" THEN "revoked" ELSE guard[c]]
  /\ life' = [Notified EXCEPT ![a] = "gone"]
  /\ UNCHANGED <<clock, tag, mac, pc, snap, seen, history>>

-----------------------------------------------------------------------------

CallStep(c) == Begin(c) \/ MacCheck(c) \/ CheckApproval(c) \/ Acquire(c) \/ Consume(c)
                 \/ Finish(c) \/ Release(c)

LifeStep(a) == StartDrain(a) \/ Close(a) \/ Enable(a) \/ Check(a) \/ Reopen(a) \/ Unregister(a)
                 \/ ForceUnregister(a)

Next ==
  \/ TagTool \/ MacAdvance \/ MacMutate
  \/ \E c \in Calls : CallStep(c)
  \/ \E a \in Agents : Register(a) \/ SetAuthorization(a) \/ Grant(a) \/ Revoke(a) \/ Move(a)
                         \/ LifeStep(a)
  \/ \E g \in Groups : UpdateLimits(g) \/ CreateGroup(g) \/ RemoveEmptyLeaf(g)

Spec == Init /\ [][Next]_vars

\* Threads run, mutators give the MAC lock back, providers return or are
\* timed out.  Nothing is assumed about timeouts of drains or about clients.
FairSpec ==
  /\ Spec /\ WF_vars(MacMutate)
  /\ \A a \in Agents : WF_vars(Enable(a)) /\ WF_vars(Check(a))
  /\ \A c \in Calls : WF_vars(CheckApproval(c) \/ Acquire(c) \/ Consume(c) \/ Finish(c) \/ Release(c))

-----------------------------------------------------------------------------
(* Properties.                                                             *)

\* A call enters only under the authority in force when it enters, although
\* it was judged earlier: same registration, open gate, capability and
\* namespace held, and a MAC policy that allows it.
AdmittedUnderCurrentAuthority ==
  [][\A c \in Calls : guard[c] = "none" /\ guard'[c] = "live" =>
       LET r == record[Caller[c]] IN
       /\ r.reg = snap[c].agent.reg /\ r.accepting /\ r.capable
       /\ tag.set => r.member
       /\ mac.allows]_vars

\* The calls that an agent and a group are charged for.
Live(a) == {c \in Calls : Caller[c] = a /\ guard[c] = "live"}
Charged(g) == {c \in Calls : guard[c] = "live" /\ g \in Path(snap[c].agent.cgroup)}

\* The counters of every group and agent count exactly the calls in progress,
\* over denials, kills, moves and re-registrations, and keep within limits.
ToolAccounting ==
  /\ \A a \in Agents : by_agent[a] = Cardinality(Live(a))
  /\ \A g \in Groups :
       /\ group[g].active = Cardinality(Charged(g))
       /\ group[g].limit > 0 => group[g].active <= group[g].limit
  /\ \A a \in Agents : Registered(a) => group[record[a].cgroup].exists

\* An approval admits one call, whoever races for it, and a revocation or the
\* end of the registration reaches every call: what was approved before is
\* pending no more and not used by an operation that was not cancelled.
ApprovalsAreExact ==
  /\ \A a \in Agents : uses[a] + Cardinality({p \in approvals : p.agent = a}) <= grants[a]
  /\ \A c \in Calls : lease[c] = "active" =>
       /\ seen[c] = revocations[Caller[c]]
       /\ snap[c].agent.reg = record[Caller[c]].reg

\* After a drain, and until the gate is reopened, the agent has no call.
QuietAfterDrain ==
  \A a \in Agents : life[a] = "quiet" => Live(a) = {}

\* A drain ends by itself as soon as the calls of the agent have ended.
DrainEnds ==
  \A a \in Agents : life[a] = "enable" ~> life[a] \in {"quiet", "live"}
=============================================================================
