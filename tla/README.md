# A TLA+ verification project for AIagentOS

AIagentOS is a Rust "operating system for AI agents". Its kernel crate admits, schedules, isolates,
persists and fails over agents; a wire server, an SDK and several user interfaces sit around it.
This directory holds TLA+ models of the parts whose correctness depends on the order in which
concurrent things happen, TLC configurations that check them on small instances, and theorems about
them that TLAPS checks for every instance.

Paths below are relative to `src/`; `K/` stands for `crates/kernel/src/`.

## Inventory

### Components that carry the core logic

| Component | Source | State | Operations | What makes it correct |
|---|---|---|---|---|
| Cluster authority | `K/cluster_consensus.rs` | members and their certificate history, join challenges, certificate rollouts, ownership leases, audit trails, receipts | one handler per replicated command, applied by every voter in commit order | a command accepted by its handler can be written; retries apply once; one claimant per token; no live lease outside the membership |
| Destination mutation fence | `K/cluster_control.rs`, `K/syscall_server.rs`, `K/lib.rs` | durable fence per agent, readers-writer barrier per agent, requests | install, retire, verify, fenced and unfenced mutations, streams, cancellation | no operation crosses a handoff; a fence never goes back; nothing is admitted under a token that was given up |
| SDK cluster client | `crates/sdk/src/cluster.rs` | cached proofs | refresh a proof, install it, route a request, cancel | a cancel reaches its stream |
| Turn admission and CFS | `K/cfs.rs`, `K/lib.rs` | virtual runtimes, run queue, turn slots, waiters | register, rank, enter, time out, cancel, charge, release | slots are exact, ranks are respected, nobody starves |
| LLM-core scheduler | `K/llm_sched.rs` | cores in flight, waiters | register, rank with ageing, enter, time out, cancel, release | the same, for provider calls |
| Agent lifecycle and turns | `K/lib.rs`, `K/agent.rs`, `K/execution.rs`, `K/operator_control.rs` | agent states in memory and on disk, three kinds of locks, cancellation tokens | send, pause, resume, stop, kill, boot | terminal states are final, a pause is quiet, no deadlock |
| Generation checkpoints | `K/context.rs`, `K/execution.rs` | checkpoint rows | save, claim, release, consume, delete, expire, re-arm | finished tool calls are not replayed |
| Rate limiter | `K/rate_limit.rs`, `K/quota_clock.rs`, `K/context.rs` | receipts and aggregates per epoch, the epoch floor, permits | reserve, mark, reconcile, refund, estimate, prune, recover | no epoch is oversold; aggregates equal their receipts; a crash leaks nothing |
| Budgets | `K/budget.rs`, `K/execution.rs` | spend per scope, call locks, usage rows | admit, charge, record, unregister, rehydrate | at most one response over a ceiling; recorded spend is never forgotten |
| Syscall gate, MAC, namespaces, cgroups | `K/syscall_gate.rs`, `K/mac.rs`, `K/namespaces.rs`, `K/permissions.rs`, `K/cgroups.rs` | registrations, policies, revisions, approvals, counters of calls | admit or deny a tool call, approve, revoke, move, drain, kill | a call enters only under current authority; counters are exact; a drain ends |
| Service supervisor | `K/init_system.rs`, `K/runtime.rs`, `K/lib.rs` | state of each service in memory and in its row, its owner (an agent), restart windows, definitions | start, stop, restart, reload, boot, sweep, shutdown, recover | no running owner is forgotten; restarts are bounded; dependents follow what they require; failed services come back |
| Storage | `K/storage.rs`, `K/storage_encryption.rs` | database files, journals, lease | back up, restore, recover, rotate keys | a crash between two steps loses nothing and is recovered |
| Packages, VFS | `K/package.rs`, `K/vfs.rs` | installed packages, workspaces | install, roll back, mount | one transaction or one journal per change |
| LLM connector | `K/connector.rs` | circuit breakers, failover order | call, fail over, probe | a broken provider is left and found again |
| IPC | `K/ipc.rs` | bounded mailboxes | send, receive | bounded, ordered |

The rest (metrics, configuration, MCP bridge, sandboxes, provider adapters, user interfaces) reports,
parses or performs I/O; `PROJECT.json` lists every part and its status.

### How the parts interact

A request enters through the wire server. In a cluster, the client first obtains an ownership lease
from the authority, installs it as a fence at the destination node and presents the proof with every
mutation. The node verifies the proof under the shared side of the agent's barrier. A message then
takes the agent's lifecycle lock and executor, registers a cancellation token, waits for a turn slot
(CFS), and inside the turn waits for an LLM core for each provider call. Each provider call is admitted
by the budgets, reserves quota in the ledger and takes a permit of the limiter; each tool call goes
through the syscall gate and is counted in its control groups. Lifecycle operations take the
kernel-wide operator-state barrier, the lifecycle lock, cancel the token and wait for the executor.
A paused turn leaves a checkpoint row, which a resume claims.

### What is hard

*Concurrency.* Both schedulers rank on a snapshot and enter under the lock later. Locks of three
kinds are taken in different orders by messages and by lifecycle operations. *Failure.* Futures are
dropped by timeouts at any await; the process may die between two durable writes. *Ordering.* Proofs,
retries and installs arrive late, twice or after a handoff. *Time.* Leases are judged by clocks that
disagree. `PROJECT.json` lists these hazards with their lines and the properties that watch them.

## Modules

| Module | Models | How |
|---|---|---|
| `OwnershipLease` | what the authority promises about one agent | the abstract specification: grant, renew, release, time |
| `Authority` | `K/cluster_consensus.rs` | one action per committed command; implements `OwnershipLease` for each agent |
| `MutationFence` | fence, barrier, handlers, managed client | extends `OwnershipLease`: nodes rely on nothing else of the authority |
| `TurnAdmission` | `K/cfs.rs` and its use by turns | one action per critical section or suspension point |
| `LlmScheduler` | `K/llm_sched.rs` | likewise |
| `TurnLifecycle` | lifecycle operations, turns, checkpoints | one action per step between two awaits that others can observe |
| `ToolGate` | `K/syscall_gate.rs`, `K/cgroups.rs`, drains in `K/lib.rs` | one action per critical section; the MAC engine's lock is separate |
| `QuotaLedger` | `K/rate_limit.rs`, its tables in `K/context.rs`, `send_with_retry` in `K/execution.rs` | one action per transaction |
| `Budget` | `K/budget.rs`, provider calls of a turn, usage rows | one action per lock, response or row |
| `AgentNames` | the agents that `QuotaLedger` and `Budget` have in common | a finite set |
| `CorruptRecovery` | `recover_corrupt_storage_from_config` in `K/storage.rs` | one action per change of the file system |
| `Supervisor` | `K/init_system.rs`, service operations and recovery in `K/lib.rs` | one action per change of memory with its row, or of an agent |
| `MC…` | instances for TLC | model values and symmetry |
| `AuthorityProofs`, `MutationFenceProofs`, `TurnAdmissionProofs`, `LlmSchedulerProofs`, `TurnLifecycleProofs`, `ToolGateProofs` | theorems about the module of that name | see Proofs |
| `SpendingProofs` | theorems about `QuotaLedger` and `Budget`, which share the lemmas about sums | see Proofs |
| `RecoveryProofs` | theorems about what survives failures: `CorruptRecovery` and `Supervisor` | see Proofs |

`Budget` and `CorruptRecovery` name their specifications `BudgetSpec` and `RecoverySpec`, their variables
`budgetVars` and `recoveryVars` and so on, since a proof module extends each together with another component.

Definitions named "Mutant" are variants of the definition that follows them, with a bug that this
code could plausibly have. They are not used by the specifications; each shows that a property
notices the bug.

### Authority

`control` is `ReplicatedControlPlaneState`, `receipts` the map from operation ids to commands, `term`
the Raft term of the leader. A handler works on a clone that is thrown away on rejection, so a
rejected command, a stale compare-and-set included, is a stuttering step and the guards are the early
returns. `apply` then validates the whole state before it writes it; the entry is committed, so a
state that fails validation stops every voter: `halted`. `Valid` translates the validator, apart from
what abstract ids make true (formats, lengths, signatures, uniqueness of UUIDs). `EffectiveTime` is
`max(proposed, previous + 1)`, with the proposal taken from an arbitrary clock.

Abstractions. A node's key and endpoint are fixed, so registrations differ in their TLS leaf only.
Audit records are kept per node and per agent. All leases have one ttl. The caps on audit rows and
challenges cannot be reached before the cap on receipts, so only that one is modelled.
`LeavesIssuedOnce` states what operators have to guarantee: no leaf is bound to two members, or a
second time after it was retired; the run `authority_leaf_reuse` shows what happens otherwise. The
standalone authority (one SQLite database, no quorum) is not modelled.

### MutationFence

One agent, several nodes. `own` and `time` belong to the authority, `issued` collects the proofs of
every active revision, since a client may present an old one. `fence` is the durable record, `readers`
and `queue` the per-agent `tokio::sync::RwLock`, which is first come, first served. A mutation or
stream queues for the shared side, verifies its proof (`Admit`) and keeps the guard until `Finish`.
Install and retire confirm with the quorum first (`StartUpdate`), then queue for the exclusive side;
what they write is decided there (`Update`). `StartManagedCancel` is the SDK's `cancel_request`, which
may have to install a newer proof first; `StartDirectCancel` is a cancel with the stream's own proof.
`Restart` loses requests and barrier and keeps the fence. `Synchronized` and `Graceful` are settings:
with the first, clocks agree and do not step back; with the second, a lease is released only after its
fence was retired, as `docs/DISTRIBUTED_CONTROL_PLANE.md` asks clients to do.

### TurnAdmission and LlmScheduler

Both follow `acquire_inner` from one lock or await to the next: `Register`, `Look` (is there a free
slot, who waits), for turns `Rank` (under the other lock), `Recheck` (enter, under the first lock
again, on the earlier choice), `Timeout` (the 25 ms sleep or a notification), `Cancel` (the `Drop` of
the registration), `Release`, `NotifyWaiters`. In `TurnAdmission`, `Charge` and `Release` are a message's
order and `ReleaseResumed`, `ChargeResumed` a resumed turn's. An agent has one turn at a time because
of the executor mutex. `Resumers` are the agents whose turns may be resumed from a checkpoint. Only class `Normal` is reachable from turns; the other classes, `total_weight`,
time slices and counters are left out. A nice value enters through the weight it maps to.

### TurnLifecycle

`state` is the state in memory, `disk` the one in the database. `barrier`, `lifecycle` and `executor`
name the holders of the three kinds of locks; `registered` is `active_cancellations`; `rows` the
checkpoint table. Every behaviour starts as a boot does: the agent was rehydrated running or paused, with
or without a checkpoint of an earlier turn (`Past`). Requests are numbered as they arrive. A request walks through `pc`; `ReleaseLocks` is what Rust does when a future ends or
is dropped. `ran`, `replayed` and `excused` are history variables: how far each turn got, which turns
performed a tool call twice, and which lost progress to an error, a dropped request or a crash.

Locks are granted in any order, which includes the FIFO order tokio uses. Expiry, deletion and
consumption of rows all make them "gone". The branch that saves a second checkpoint of a resumed turn is modelled and cannot
be reached, because a resume keeps the operator-state barrier until it returns and a pause needs it.
Failing database writes, the `Error` state, creation, erasure and the watchdog's loop are left out.

### ToolGate

`record` holds the gate's record of each agent, `tag` and `mac` what a tool call is judged by besides. A
call takes a `Snapshot` without keeping the lock, waits for the MAC engine (`MacCheck`), looks for an
approval (`CheckApproval`) and enters under `mutation_lock` if the snapshot, revision by revision, is
`Unchanged` (`Acquire`). Its approval is used up after that (`Consume`), under the lock again. MAC mutators
have a lock of their own and advance the revision before they change anything (`MacAdvance`, `MacMutate`).
`Close`, `Enable`, `Check` are a drain; `Enable` registers with the notification before the counter is
looked at. `ForceUnregister` revokes the generation of the guards, so that a late `Release` counts
nothing. One tool, capability, namespace and approval contract stand for all, since keys and revisions
are compared exactly.

### QuotaLedger

Each ledger operation is one IMMEDIATE transaction and one action. `floor` is the epoch floor, `receipts`
the reservations, `requests` and `tokens` the aggregates that the code keeps beside them and validates
against them at recovery and pruning (`LedgerValidates`). The wall clock is arbitrary at every step. A call
is snapshotted, permitted, reserved, marked, sent and reconciled; every early return refunds or keeps an
estimate; a failed transaction makes the limiter unhealthy. `Crash`, `Recover` and `Start` are the process;
recovery and the first pruning are two transactions. The tokens of the provider scope and the ancestors
of a group repeat the arithmetic of the scopes that are there.

### Budget

A provider call takes the call locks global before tenant (`LockGlobal`, `LookupTenant`, `LockTenant`), is
checked (`Admit`), charged (`Respond`) and lets them go. The tenant's lock is an object in a map that
`unregister_agent` removes in a second step (`Kill`, `DropTenantLock`), so a call may hold an object that
is no longer the tenant's. Charges are recorded once per turn (`Record`), after a completed turn only.

### CorruptRecovery

`file` tells where each file came from: the original, the backup byte for byte, a backup that a kernel
has written to (`used`), a candidate's sidecar, or a partial copy. The command follows the code from
rename to rename; `Fail` is the error path, which rolls back if anything was moved; `Dies` may come
between any two changes and `IoError` at any of them; the operator runs the command again. Qualification
boots a kernel on the candidate, which may or may not checkpoint its WAL. Checks of the backup come
before any change and are taken as passed; directory syncs are left out, so a crash keeps the changes
made so far.

### Supervisor

`svc` is `ServiceState`, `row` what the table holds of it, `agent` the state of every agent, `op` the
operation that has `service_operation_lock`: the calls it still has to make and the place it has reached
in the first of them. `Mark…` and the other operators on records are the methods of `InitSystem`; an
action applies one and saves the row (`Save`), as `persist_service_transition` does. `Err` is what each
caller does with a failed call: the boot and a reload undo what they did, a shutdown goes on, a restart by
the sweep is counted as failed, everything else returns. `Crash` may come anywhere; `Restart` rehydrates
the agents, rebinds the rows to them and boots. A back-off delay is `later` and then `due`, a restart window
`open` and then `over`; their lengths, and health-check intervals, are abstract. A definition is its
revision. `orphans` and `tries` are history variables: agents that the code is known to lose, and
restarts in the window that is open.

## Runs

| Run | Instance | Shows |
|---|---|---|
| `llm_scheduler` | three requests, two nice values, two cores, queue of two | cores are exact, nobody is registered twice, overtaken or starved |
| `authority` | two seeds, three leaves, one agent, two terms, every command, six receipts | compare-and-set claims, leases, retries, joins, rollouts, leaving and revocation; no state that cannot be written; the refinement of `OwnershipLease` |
| `authority_leaf_reuse` | one seed, one joiner, leaves issued freely | **violation**: an accepted registration halts the voters |
| `mutation_fence` | two nodes, three requests, synchronized clocks, two revisions | no operation crosses a handoff, none is admitted under a superseded token, every request is answered |
| `turn_admission` | two agents, one of them resuming, one slot, two nice values | slots, waiters and debt are accounted for, lowest virtual runtime first, no starvation |
| `turn_lifecycle` | one rehydrated agent, three requests, one crash | no replay, terminal states are final, pauses are quiet, the three locks do not deadlock |
| `lifecycle_lost_turn` | one agent, three requests | **violation**: a paused turn is lost |
| `tool_gate` | one agent, two calls that need an approval, two groups, four changes | counters, approvals and drains are exact; calls enter under current authority |
| `quota_ledger` | two agents, two groups, two epochs, three receipts, one crash | no epoch is oversold, aggregates match their receipts |
| `budget` | two agents of one tenant, ceilings on or off, three turns of two calls, one restart | one response over a ceiling at most, recorded spend is enforced, calls are decided |
| `corrupt_recovery` | database with or without sidecars, two errors, four crashes | originals are kept, no foreign sidecars, reruns recover |
| `supervisor` | a service and one that requires it, one restart per window, any three requests, edits, faults or crashes | owners are tracked, attempts bounded, dependents follow, failed services come back |

### Bounds, and why they are enough

*Schedulers*: three contenders for cores are a holder, a waiter and a newcomer that may overtake; two
cores let admissions overlap. In `turn_admission` two agents are a holder and a waiter, or two waiters
whose ranks change in the unlocked gap. Ages saturate at the threshold as in the code, and one tick is
enough to be overdue. `MaxVruntime` caps charging; one or two units tell ranks apart, and a nice value of
5 makes a unit cost three. *Authority*: receipts are the length of a history, the genesis included. Six
hold claim, expiry, second claim and a delayed renewal, or a whole rollout with a claim under it. Two
proposal times, one in the past and one beyond every ttl, make proposers behind and ahead of authority
time. *Fence*: two revisions are a claim and a renewal, release or claim by the other node; three
requests are an operation, a writer and one more reader or writer; what more revisions and skewed clocks
could add is covered by the proofs. *Lifecycle*: the checkpoint of `Past` makes three requests enough for
the shortest replay (resume, pause, resume again); a row cap of one makes eviction happen; one crash may
fall anywhere. *Gate*: two calls race for one approval and one slot; four changes are a registration, a
grant and two more, such as a kill and a second registration, or a change and its reversal. *Ledger*:
three receipts of two attempts exceed the limit of three attempts; two epochs make a late
reconciliation and a clock that goes back. *Budget*: a ceiling of three and responses of two make the
second response pass it. *Recovery*: four crashes are one in each of qualification, rollback, second
qualification and second rollback; more crashes were tried and add nothing. *Supervisor*: any three of
requests, edits, failed calls, crashes and kills make an edit, its reload and a failure in it, or a
failure, a crash and the failure that exceeds the one restart of a window; six names of agents are never
used up. Requests, tasks and agents
are symmetric where they are only compared for equality, and symmetry is used in runs without liveness
properties only. `CHECK_DEADLOCK FALSE` stands where requests, receipts, changes or turns are bounded and
the instance may simply end.

### Fairness

Only steps that the runtime performs by itself are fair. In both schedulers a polled task goes on, a
sleep elapses, time passes, and an admitted holder releases its slot, because the executor bounds
provider calls and drops the slot with the future; nobody is forced to register. In `MutationFence` a
handler that can go on does (`FairSpec`); streams end by themselves only with `StreamsEnd`. In `TurnLifecycle` handlers go on and providers and tools answer; timeouts,
clients and crashes are never forced. Its locks are handed over in any order; weak fairness is enough,
because only finitely many requests of an instance can pass somebody by. In `ToolGate` calls go on,
tools return or are timed out, a MAC mutator gives its lock back and a drain that was notified looks
again; a drain's own timeout is not assumed. In `Budget` a turn takes its next step, because the call
locks are fair and provider calls have deadlines. In `CorruptRecovery` the command runs on and the
operator runs it again. In `Supervisor` the operation that holds the lock goes on and the loop of
`K/runtime.rs` sweeps; delays and windows end however often it does, which is strong fairness, because the
model lets time pass between operations only. Nobody is forced to start the process again.

## Proofs

`LlmSchedulerProofs`, for any requests, cores, queue limit and nice values. The inductive invariant
`IInv` joins the counter (`CoreAccounting`), the queue (`RegisteredOnce`, `QueueBounded`) and two facts
about time: earlier waiters are older (`AgesOrdered`), and every request queued before a caller on its
way to the re-check has a worse nice value (`StaleSnapshotSound`). The last one is what makes
`NoOvertaking` inductive: the snapshot can be stale, but only later arrivals can have changed the choice.
Theorems: `InductiveInvariant`, `CoresNeverOvercommitted`, `WaitersRegisteredOnce`, `NeverOvertaken`. They rest
on `LlmConstants` only; `AgingReachesFloor` is for liveness.

`MutationFenceProofs`, for any nodes, requests, leases, terms and clocks. `IInv` adds `GuardsHeld` (the
shared side is held by exactly the running operations) to `OperationsOwnTheFence`: a writer enters only
when nobody holds the shared side, so no fence changes under an operation. From it follow `TypesHold`,
`OperationsFenced` and the action property `FenceAdvances`. `HandoverSafe` assumes the settings of the
run: synchronized clocks, graceful releases and one lease length. Its invariant `HInv` adds that clocks
agree and are not behind authority time (`ClocksAgree`), that fences and requests carry issued proofs
(`ProofsIssued`), that the proofs of the present token end no later than its lease (`LeaseCovers`, which
needs the single lease length), and that a proof of a superseded or released token is expired, retired
or superseded at its node (`SupersededDead`).

`ToolGateProofs`, for any agents, calls, groups, limits and numbers of changes. The invariant behind
`GateInvariant` says that revisions are never reused, that a snapshot whose revisions are all current
describes the present state, and that a call past the MAC check was allowed by the policy of the revision
in its snapshot, unless a mutator has since advanced it. `AdmissionIsCurrent` follows: at the moment of
entry the snapshot is compared under the lock, so what was judged earlier still holds. `ToolInvariant` adds
the lifecycle of agents to it (`RosterInv`: a draining agent's gate is closed; a guard that counts is of the
registration and the group that its agent has now, which is why a call is given back to the group it was
taken from even when the agent has moved), the counters (`CountsInv`), and the approvals (`ApprovalInv`: a
pending approval is of the present registration and has seen every revocation, so there is at most one per
agent). From it follow `CountersAreExact`, `DrainedIsQuiet` and `ApprovalsUsedOnce`. The set of calls is
assumed finite, as `GateConstants` says.

`AuthorityProofs`, for any nodes, agents, leaves, durations and bounds. Each command is first reduced to
what it does when it is accepted (the lemmas named `…Outcome`); the invariants are then proved from those.
`LeaseInv` is about leases: `OneClaimPerToken` is inductive only with `ClaimsSpent` (the token that an
applied claim named is below the present one), and `NoLiveLeaseOutsideMembership` only because a member
that leaves has no live lease, and one that is revoked has its leases released by the same command. With
`TermsReached` it gives `AuthorityImplementsLease`: every command is, for each agent, a grant, a renewal, a
release, or a passing of time of `OwnershipLease`. `AcceptedIsWritten` is about the other direction of
trust: the voters validate the whole control plane before each write and stop when it fails. Its invariant
`ValidInv` is what the validator asks for, agent by agent and node by node, and what it takes to keep it
true: a leaf that a rollout activates is first worn in that very revision (`Tracks`), and the candidate of
a prepared rollout was never activated. It assumes `LeavesIssuedOnce`, that operators never bind a leaf to
two members or twice; without it the property is false, as the run `authority_leaf_reuse` shows.
`TrustNeverBreaks` follows from `LeaseInv`. `ReceiptsAreExact` counts: `AppliedInv` relates the number of
receipts of each member, and of each token, to the length of its audit; that nothing but barriers precedes
the first command (`OnlyBarriers`) makes it hold at the start.

`TurnAdmissionProofs`, for any agents, slots, queue limit, weights and starvation threshold. `IInv` has the
pattern of `LlmSchedulerProofs`: slots and queue, the order of ages, that a snapshot still covers everybody
who queues before its turn (`SnapshotsCover`), and that a turn about to enter is not above any runnable
waiter before it (`StaleRankSound`). The last part is what could fail, since virtual runtimes move between
the ranking and the lock. `LateChargesOnly` is why it does not: a waiting agent is never enqueued afresh,
and only a turn resumed from a checkpoint is charged while its agent waits again, so those turns are
excepted from `LowestFirst`. Theorems: `InductiveInvariant`, `SlotsNeverLeaked`, `WaitersAreReal`,
`DebtNeverErased`, `EntersInOrder`.

`TurnLifecycleProofs`, for any agents, requests, turn lengths, cap of the checkpoint table and number of
crashes. `LifeInv` says who may stand where: what a request holds at each await (`Locked`), that a running
turn can be cancelled until its agent is terminal and then has been (`Reached`), and that the database is
terminal before the memory, and only while a stop or kill is between its two writes (`DiskFirst`, which a
crash relies on). `TerminalForEver` and `PauseIsQuiet` follow. `ReplayInv` follows the progress of a turn
from request to row and back: what a request carries is what the turn has performed (`Carried`); a row
that can be claimed holds all of it, unless its turn is running, and is the only one of its turn
(`Current`); and a resume keeps the row that it claimed (`Claimed`). `CallsNotRepeated` is then immediate. Turns
that were cut off while they ran, by an error, a dropped request or a crash, are in `excused`: the code has
no record of their last calls, and the theorem says nothing of them.

`RecoveryProofs`, on the recovery of a database, for any number of crashes and failing calls. Four parts make `IInv` inductive. `Kept`
says where an original can be, and that the sidecars of a replacement stand in their place only while the
original ones are in the quarantine (without it, a rerun could take those of a candidate for originals).
`Journaled` says that without a journal everything is at home, so that the fresh names of a new operation
bury nothing. `Onward` says what has been achieved at each place, in particular that `mutation_started` is
true exactly when the original database is in the quarantine: an error then rolls back what was begun, and
never puts the original aside as if it were the failed replacement. `Backward` says the same of a rollback.
Theorems: `RecoveryInvariant`, `OriginalsSurvive`, `SidecarsBelong`.

`SpendingProofs`, for any finite set of agents. The properties of `QuotaLedger` and `Budget` are sums over
sets, so its first part is about `MapThenSumSet`: that its recursion has one solution on a finite set, and
that the sum does not depend on the order in which elements are picked (`SumRemove`). The library's induction
theorems cannot be instantiated here; each of these facts is shown by the least counterexample on
cardinality (`LeastNat`). Adding, taking out or replacing one element then changes a sum by its share.

The ledger, for any groups, epochs, limits and numbers of receipts, moves and crashes:
`LedgerMatchesReceipts` needs only that identifiers are unique and that the receipt of a call is in the
ledger (`CallsHoldReceipts`). `SentWithinQuota` needs `SentIsCovered`: in an epoch that still admits calls or has a
live receipt, what was sent and what the calls in flight may still send is at most what the kept receipts
(those not merely reserved) have in them, and so at most `RPM`. Marking turns what a call may send into a kept
receipt before the provider hears of it; reconciling never goes below what was sent; recovery drops reserved
receipts only; and pruning takes epochs in which nothing is admitted or under way any more, about which
`SentIsCovered` then says nothing. Theorems: `LedgerInvariant`, `LedgerAlwaysValidates`, `QuotaIsRespected`.

Budgets, for any ceilings and for charges of which one is the largest (`BudgetConstants`, evaluated by the
run): `Budget` has variables of its own, and its inductive invariant `BudgetInv` stands in its module. The total
is the sum of what the agents spent, and a turn was charged what it will record (`Accounts`); hence a restart,
which puts the counters back to the rows, never raises them. Between the check and the charge of a call no
other call is charged to the same ceiling: for the global one by its lock (`GlobalExclusive`), for the tenant's
as long as no agent was killed, since all calls then use one lock object and one counter (`TenantKnown`,
`TenantExclusive`). Theorems: `BudgetInvariant`, `CeilingsHold` (`OneResponseOverCeiling`), `RowsAreEnforced`
(`RecordedSpendIsEnforced`).

`RecoveryProofs`, on the supervisor, for any services, acyclic requirements, policies, boot order that is not
empty, names of agents and restart limit, and for any number of requests, faults and crashes. `OwnersTracked`
looks at memory while the process lives and at the rows when it does not; neither is inductive alone, because
a crash turns to the rows and the next boot reads memory back from them. `Tracked` therefore says both of every
agent that lives or will be rehydrated: memory and row name it. It is kept because an owner is forgotten only
where it has ended (`PlaceFits` says where in a start, a stop or a check that is), because the agent of a start
belongs to the service of that call and to no other row (`NewFits`), and because a boot or a sweep takes only
the calls that suit it (`Proper`). A rollout that is undone puts back the states it remembered, so that what
they say matters as long as they are kept: an owner that is missing was the owner then (`CopiesSound`).
`AttemptsBounded` counts attempts in a history variable, the code in the state of the service, in the row and
in the copy of a reload. `TriesCounted` says that each copy with an open window counts at least the attempts
that were made, so that it does not matter which of them a crash or an undo brings back; `AttemptCounted` that
the one under way is counted in memory and row before it is made; and a restart is scheduled only below the
limit. The operation's calls are a sequence, built by recursion over the boot order (`Among`); that
the recursion yields a list of services is shown by the least counterexample on its length. Theorems:
`SupervisorInvariant`, `OwnersAreTracked`, `AttemptsAreBounded`.

Every invariant and action property of the passing runs is a theorem. Only model-checked: liveness under
fairness (`EventuallyAdmitted`, `EveryRequestAnswered` and the like), which this prover does not do, and the
two counterexamples below.

## Divergences

Two are runs with a counterexample (`findings` in `PROJECT.json`):

1. `authority_leaf_reuse`: `apply_register_member` compares a leaf with current members only, the
   validator with all certificate histories. The accepted command cannot be written.
2. `lifecycle_lost_turn`: a pause times out, the agent is resumed, and the turn the pause cancelled then
   finds the agent running and is dropped without a checkpoint.

Others were met with the same models and are kept here as notes:

* After a renewal the SDK's `cancel_request` first installs the new proof
  (`crates/sdk/src/cluster.rs:1438`) and so queues behind the stream it wants to cancel, which ends only by
  itself or by its lease. `docs/DISTRIBUTED_CONTROL_PLANE.md:366` says that "an old owner can drain its
  admitted stream even when a handoff writer is queued". Set `StreamsEnd = FALSE` in `MCMutationFence.cfg`
  and a queued request waits for ever.
* A renewal with a shorter ttl ends a lease before the proof the destination knows does
  (`K/cluster_consensus.rs:3549`); hence the single lease length in `HandoverSafe`. Set `Ttls = {1, 2}` and
  `Horizon = 2` in `MCMutationFence.cfg` to see it.
* Revocation releases unexpired records only (`K/cluster_consensus.rs:3288`);
  `docs/DISTRIBUTED_CONTROL_PLANE.md:374` says every owned record.
* A resumed turn is charged after its slot and executor are released (`K/lib.rs:5175`), so the agent's
  next turn is ranked without the debt; `LowestFirst` therefore excepts the agents in `Resumers`.
* `account_tokens` takes the floor from the other agents (`K/cfs.rs:219`), so a new agent may start
  behind the one just charged; `K/cfs.rs:46` calls it the minimum.
* A resume holds the operator-state barrier during its whole turn (`K/lib.rs:5074`), so lifecycle
  operations of every agent wait for that turn's provider.
* A resume that is refused admission, or dropped, leaves its row claimed until the next boot
  (`K/lib.rs:5158`), and a dropped one leaves its cancellation token registered (`K/lib.rs:5146`).
* A failed resume sets the agent to paused after it gave the executor back (`K/lib.rs:5237`), and does not
  cancel a message's turn that began in between.
* The charges of a turn are written once, after a completed turn (`K/lib.rs:5607`), so a turn whose later
  provider call fails leaves earlier charges in memory only and a restart forgets them.
  `docs/ACCOUNTING.md:76` says "Every response persists the exact integer micro-dollar charge".
* `unregister_agent` drops the tenant's lock object while a turn may hold it (`K/budget.rs:499`); a new
  agent of the tenant then makes another, and two responses may pass the tenant's ceiling at once.
  `OneResponseOverCeiling` claims the tenant's ceiling for agents that are not killed.
* A kill waits for the agent's tool calls before it signals its active device operations
  (`drain_agent_tool_calls` before `K/lib.rs:3690`, whose comment wants them signalled first).
* A crash while the recovery journal is written leaves a torn file under its final name
  (`K/storage.rs:1116`), and every rerun refuses it; `docs/DURABILITY.md:702` says that an interrupted command
  can be rerun. A crash inside a rollback leaves files under the names `failed-replacement…`, and a second
  rollback of the same operation refuses them for ever. Both are exceptions in `RerunsRecover`.
* An error while the original's sidecars are being moved makes the rollback file the ones that are still
  in place as `failed-replacement…` (`K/storage.rs:3811`) and then fail to restore them. No file is lost, and
  the journal stays, but only an operator can go on.
* A crash between the creation of a service's agent and the row that names it (`K/lib.rs:4174` to 4235) leaves
  an agent that runs for nobody, and recovery creates another; `docs/SERVICES.md:145` says "durable crash
  recovery without duplicate owners". The undoing of a failed rollout ignores failed stops (`K/lib.rs:3960`)
  and forgets the owner as well. Both are counted in `orphans`. A creation that is dropped by its deadline may leave
  an agent in memory until the process ends.
* The boot leaves wanted services to the supervisor, which begins after the boot (`K/lib.rs:4511`), and
  starts the others. If one of these requires a wanted service that is down, the boot fails, the server
  exits, and every later boot fails alike. A shutdown that is killed half way leads there.
* After a restart of the process a service with policy `OnFailure` whose owner is gone is never started
  again, because recovery sets no exit code (`K/lib.rs:3466`); `docs/SERVICES.md:101` says that a missing owner
  "is cleaned before recovery creates a replacement". An owner that could not be rehydrated cannot be stopped
  either, so that every restart of its service is deferred, under any policy.
* A manual restart that fails to start the service returns early (`K/lib.rs:4464`) and leaves its dependents
  `Restarting`, wanted, and without a time at which a sweep would start them.
* A reload that cannot stop a service starts again what ran before (`K/lib.rs:3935`); services that were waiting
  for their back-off are left stopped and no longer wanted.

## Not modelled

Raft itself (openraft), its log and snapshot storage, voters and transport trust; the standalone
authority; the policy languages of MAC and namespaces; services that a reload adds or
removes; packages and VFS; making backups, the
plain restore, remote copies and key rotation; the connector; IPC; cloning, creation and erasure;
parsing, provider adapters and user interfaces. Reasons are in `PROJECT.json`. Packages change one
database in one immediate transaction per operation, so that no interleaving and no crash point is left
to check; what remains is version and signature checking.

## Plan

Done: the core (authority, fence, both schedulers, lifecycle), tool calls, quotas, budgets, the recovery
of a corrupt database and the supervision of services; with theorems about all of them. Next, in order:

1. The plain restore and the encryption migration of storage, beside `CorruptRecovery`.
2. `Connector`: circuit breakers and failover.
3. The standalone authority as a second implementation of `OwnershipLease`; managed creation in the SDK.
