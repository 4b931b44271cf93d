----------------------------- MODULE QuotaLedger -----------------------------
(***************************************************************************)
(* Admission of provider requests: the rate limiter (rate_limit.rs), the   *)
(* durable ledger of receipts and aggregates behind it (context.rs) and    *)
(* the way a turn uses both while its control group may change             *)
(* (execution.rs, send_with_retry).                                        *)
(*                                                                         *)
(* A receipt is reserved before the provider is called, becomes in_flight  *)
(* in one critical section with the last look at the membership, and is    *)
(* reconciled with what was really used, or kept as an estimate.  Each     *)
(* ledger operation is one immediate transaction.  The process may crash   *)
(* between any two of them, a transaction may fail, and the wall clock may *)
(* show anything at any time.                                              *)
(*                                                                         *)
(* An agent makes one provider call at a time, so calls are named by their *)
(* agents.  The provider scope counts attempts, the scope of a group       *)
(* tokens; the tokens of the provider scope and the ancestors of a group   *)
(* repeat this arithmetic and are left out, and so are limits of zero,     *)
(* which mean unlimited.  A turn that retries begins a new call, and a     *)
(* turn may be cancelled wherever the code looks at its token.             *)
(***************************************************************************)
EXTENDS Naturals, FiniteSetsExt, AgentNames

CONSTANTS
  Groups,
  Attempts,       \* provider attempts that one reservation covers
  RPM,            \* attempts per epoch
  TokenLimit,     \* tokens per epoch and group
  Tokens,         \* tokens that a call may turn out to have used
  MaxConcurrent,  \* permits of the limiter
  MaxEpoch,       \* bound on the wall clock, in epochs
  MaxReceipts,    \* bound on reservations
  MaxMoves,       \* bound on moves of an agent between groups
  MaxCrashes      \* bound on crashes

Epochs == 0..MaxEpoch
Estimate == Attempts  \* tokens reserved: one per attempt

ASSUME QuotaConstants ==
  /\ Attempts \in Nat \ {0} /\ RPM \in Nat \ {0}
  /\ TokenLimit \in Nat \ {0}
  /\ Tokens \subseteq Nat /\ MaxConcurrent \in Nat \ {0} /\ MaxEpoch \in Nat
  /\ MaxReceipts \in Nat /\ MaxMoves \in Nat /\ MaxCrashes \in Nat

VARIABLES
  \* the database
  floor,        \* quota_epoch_floor: the greatest epoch that was ever effective
  receipts,     \* quota_receipts with their scopes
  requests,     \* quota_epochs of the provider scope: attempts
  tokens,       \* quota_epochs of each group: tokens
  \* the process
  process,      \* "down", "recovering" or "up"
  healthy,      \* the limiter saw no transaction fail
  last_pruned,  \* last_pruned_epoch
  member,       \* of each agent: its group and cgroup_revision
  pc, call,     \* of each agent: where its call is; its snapshot and receipt
  \* history and bounds
  sent,         \* attempts that reached the provider, by admission epoch
  issued, crashes

ledger == <<floor, receipts, requests, tokens>>
bounds == <<issued, crashes>>
vars == <<ledger, process, healthy, last_pruned, member, pc, call, sent, bounds>>

NoCall == [group |-> "none", revision |-> 0, id |-> 0, epoch |-> 0, used |-> 0]
Live == {"reserved", "in_flight"}

Init ==
  /\ floor = 0 /\ receipts = {}
  /\ requests = [e \in Epochs |-> 0]
  /\ tokens = [g \in Groups |-> [e \in Epochs |-> 0]]
  /\ process = "up" /\ healthy = TRUE /\ last_pruned = 0
  /\ member \in [Agents -> [group : Groups, revision : {0}]]
  /\ pc = [a \in Agents |-> "idle"] /\ call = [a \in Agents |-> NoCall]
  /\ sent = [e \in Epochs |-> 0]
  /\ issued = 0 /\ crashes = 0

(***************************************************************************)
(* The ledger                                                              *)
(***************************************************************************)

\* What the receipts of an epoch add up to in the provider scope and in the
\* scope of a group.
RequestsOf(rs, e) == MapThenSumSet(LAMBDA r : r.requests, {r \in rs : r.epoch = e})
TokensOf(rs, g, e) ==
  MapThenSumSet(LAMBDA r : r.tokens, {r \in rs : r.epoch = e /\ r.group = g})

\* Mutant of EffectiveEpoch: the floor does not hold the clock back.
WallClockEpoch(now) == now

\* An admission never uses an epoch older than one that was used before.
EffectiveEpoch(now) == Max({floor, now})

\* Mutant of ReplaceContribution: usage goes to the epoch of its arrival.
ReplaceInCurrentEpoch(r, newRequests, newTokens) ==
  /\ requests' = [requests EXCEPT ![floor] = (@ - r.requests) + newRequests]
  /\ tokens' = [tokens EXCEPT ![r.group][floor] = (@ - r.tokens) + newTokens]

\* The contribution of one receipt is replaced in the aggregates of its epoch.
ReplaceContribution(r, newRequests, newTokens) ==
  /\ requests' = [requests EXCEPT ![r.epoch] = (@ - r.requests) + newRequests]
  /\ tokens' = [tokens EXCEPT ![r.group][r.epoch] = (@ - r.tokens) + newTokens]

ReceiptOf(a) == CHOOSE r \in receipts : r.id = call[a].id

\* Completed epochs before an epoch go, except those with a live receipt.
Prunable(before) ==
  {e \in Epochs : e < before /\ ~ \E r \in receipts : r.epoch = e /\ r.state \in Live}
PruneEpochs(before) ==
  /\ receipts' = {r \in receipts : r.epoch \notin Prunable(before)}
  /\ requests' = [e \in Epochs |-> IF e \in Prunable(before) THEN 0 ELSE requests[e]]
  /\ tokens' = [g \in Groups |->
                 [e \in Epochs |-> IF e \in Prunable(before) THEN 0 ELSE tokens[g][e]]]

\* Reservations that provably never started are given back, calls that may have
\* reached the provider keep their estimate; the aggregates are computed anew.
Recovered ==
  {IF r.state = "in_flight" THEN [r EXCEPT !.state = "estimated"] ELSE r :
     r \in {q \in receipts : q.state # "reserved"}}
RecoverLedger(now) ==
  /\ floor' = EffectiveEpoch(now)
  /\ receipts' = Recovered
  /\ requests' = [e \in Epochs |-> RequestsOf(Recovered, e)]
  /\ tokens' = [g \in Groups |-> [e \in Epochs |-> TokensOf(Recovered, g, e)]]

\* The check that recovery and every pruning make first.
LedgerValidates ==
  \A e \in Epochs :
    /\ requests[e] = RequestsOf(receipts, e)
    /\ \A g \in Groups : tokens[g][e] = TokensOf(receipts, g, e)

(***************************************************************************)
(* A provider call                                                         *)
(***************************************************************************)

At(a, states) == process = "up" /\ pc[a] \in states
Goto(a, state) == pc' = [pc EXCEPT ![a] = state]
Ends(a) == Goto(a, "idle") /\ call' = [call EXCEPT ![a] = NoCall]
Current(a) == call[a].revision = member[a].revision

\* The turn subscribes to membership changes, then takes its snapshot.
Snapshot(a) ==
  /\ At(a, {"idle"}) /\ issued < MaxReceipts
  /\ call' = [call EXCEPT ![a] = [NoCall EXCEPT !.group = member[a].group,
                                                !.revision = member[a].revision]]
  /\ Goto(a, "snapshot")
  /\ UNCHANGED <<ledger, process, healthy, last_pruned, member, sent, bounds>>

\* Before there is a receipt: the limiter is unhealthy, the membership changed
\* while the call waited for a permit, or the turn was cancelled.
LeaveUnreserved(a) ==
  /\ At(a, {"snapshot", "permit"})
  /\ Ends(a)
  /\ UNCHANGED <<ledger, process, healthy, last_pruned, member, sent, bounds>>

Permits == {a \in Agents : pc[a] \in {"permit", "denied", "reserved", "invoked"}}
Permit(a) ==
  /\ At(a, {"snapshot"}) /\ healthy /\ Current(a)
  /\ Cardinality(Permits) < MaxConcurrent
  /\ Goto(a, "permit")
  /\ UNCHANGED <<ledger, process, healthy, last_pruned, member, call, sent, bounds>>

\* Every scope has room for the whole reservation, or the receipt is denied.
Fits(g, e) ==
  /\ requests[e] + Attempts <= RPM
  /\ tokens[g][e] + Estimate <= TokenLimit

Reserve(a) ==
  /\ At(a, {"permit"}) /\ issued < MaxReceipts
  /\ \E now \in Epochs :
       LET e == EffectiveEpoch(now)
           g == call[a].group
           r == [id |-> issued + 1, state |-> "reserved", epoch |-> e, group |-> g,
                 requests |-> Attempts, tokens |-> Estimate]
       IN /\ floor' = e
          /\ \/ /\ Fits(g, e)
                /\ receipts' = receipts \union {r}
                /\ requests' = [requests EXCEPT ![e] = @ + Attempts]
                /\ tokens' = [tokens EXCEPT ![g][e] = @ + Estimate]
                /\ issued' = issued + 1
                /\ call' = [call EXCEPT ![a].id = r.id, ![a].epoch = e]
                /\ Goto(a, "reserved")
             \/ /\ ~ Fits(g, e)
                /\ call' = [call EXCEPT ![a].epoch = e]
                /\ Goto(a, "denied")
                /\ UNCHANGED <<receipts, requests, tokens, issued>>
  /\ UNCHANGED <<process, healthy, last_pruned, member, sent, crashes>>

\* The first admission of an epoch prunes what came before, in a second
\* transaction.
Pruned(a) == call[a].epoch <= last_pruned
Prune(a) ==
  /\ At(a, {"reserved", "denied"}) /\ ~ Pruned(a) /\ LedgerValidates
  /\ PruneEpochs(call[a].epoch)
  /\ last_pruned' = call[a].epoch
  /\ UNCHANGED <<floor, process, healthy, member, pc, call, sent, bounds>>

\* A denial ends the call: a turn does not wait for capacity.
Denied(a) ==
  /\ At(a, {"denied"}) /\ Pruned(a)
  /\ Ends(a)
  /\ UNCHANGED <<ledger, process, healthy, last_pruned, member, sent, bounds>>

\* The turn was cancelled, or its membership changed while it waited for a core
\* or before it could be marked: the receipt is refunded.
RefundLedger(a) ==
  LET r == ReceiptOf(a) IN
  /\ receipts' = receipts \ {r}
  /\ ReplaceContribution(r, 0, 0)

Refund(a) ==
  /\ At(a, {"reserved"}) /\ Pruned(a)
  /\ RefundLedger(a) /\ Ends(a)
  /\ UNCHANGED <<floor, process, healthy, last_pruned, member, sent, bounds>>

\* Under the lock that moves take: the snapshot is still current, and the
\* receipt is durably in flight before the provider hears of the request.
MarkInvoked(a) ==
  /\ At(a, {"reserved"}) /\ Pruned(a) /\ Current(a)
  /\ receipts' = (receipts \ {ReceiptOf(a)})
                   \union {[ReceiptOf(a) EXCEPT !.state = "in_flight"]}
  /\ Goto(a, "invoked")
  /\ UNCHANGED <<floor, requests, tokens, process, healthy, last_pruned, member, call,
                 sent, bounds>>

\* The session makes an attempt; a resilient one makes several per request.
Send(a) ==
  /\ At(a, {"invoked"}) /\ call[a].used < Attempts
  /\ sent' = [sent EXCEPT ![call[a].epoch] = @ + 1]
  /\ call' = [call EXCEPT ![a].used = @ + 1]
  /\ UNCHANGED <<ledger, process, healthy, last_pruned, member, pc, bounds>>

\* The receipt takes the attempts the session reports, never fewer than it made,
\* and the tokens of the call, in the epoch of its admission.
Reconcile(a) ==
  /\ At(a, {"invoked"})
  /\ \E n \in 1..Attempts, t \in Tokens :
       /\ n >= call[a].used
       /\ receipts' = (receipts \ {ReceiptOf(a)})
                        \union {[ReceiptOf(a) EXCEPT !.state = "reconciled",
                                                     !.requests = n, !.tokens = t]}
       /\ ReplaceContribution(ReceiptOf(a), n, t)
  /\ Ends(a)
  /\ UNCHANGED <<floor, process, healthy, last_pruned, member, sent, bounds>>

\* No attempt was reported, or the turn was dropped in the middle of the call.
RetainEstimate(a) ==
  /\ At(a, {"invoked"})
  /\ receipts' = (receipts \ {ReceiptOf(a)})
                   \union {[ReceiptOf(a) EXCEPT !.state = "estimated"]}
  /\ Ends(a)
  /\ UNCHANGED <<floor, requests, tokens, process, healthy, last_pruned, member, sent,
                 bounds>>

\* A transaction of the call fails and is rolled back: the limiter admits nothing
\* until the next start.  A guard that was not invoked still tries its refund.
StoreFails(a) ==
  /\ At(a, {"permit", "denied", "reserved", "invoked"})
  /\ healthy' = FALSE
  /\ \/ UNCHANGED <<receipts, requests, tokens>>
     \/ pc[a] = "reserved" /\ RefundLedger(a)
  /\ Ends(a)
  /\ UNCHANGED <<floor, process, last_pruned, member, sent, bounds>>

(***************************************************************************)
(* Moves, crashes and starts                                               *)
(***************************************************************************)

Move(a, g) ==
  /\ process = "up" /\ member[a].revision < MaxMoves
  /\ member' = [member EXCEPT ![a] = [group |-> g, revision |-> @.revision + 1]]
  /\ UNCHANGED <<ledger, process, healthy, last_pruned, pc, call, sent, bounds>>

Crash ==
  /\ process # "down" /\ crashes < MaxCrashes
  /\ process' = "down" /\ crashes' = crashes + 1
  /\ healthy' = TRUE /\ last_pruned' = 0
  /\ pc' = [a \in Agents |-> "idle"] /\ call' = [a \in Agents |-> NoCall]
  /\ UNCHANGED <<ledger, member, sent, issued>>

\* with_store: recovery is one transaction, pruning another.
Recover ==
  /\ process = "down" /\ LedgerValidates
  /\ \E now \in Epochs : RecoverLedger(now)
  /\ process' = "recovering"
  /\ UNCHANGED <<healthy, last_pruned, member, pc, call, sent, bounds>>

Start ==
  /\ process = "recovering" /\ LedgerValidates
  /\ PruneEpochs(floor)
  /\ last_pruned' = floor /\ process' = "up"
  /\ UNCHANGED <<floor, healthy, member, pc, call, sent, bounds>>

Next ==
  \/ \E a \in Agents :
       \/ Snapshot(a) \/ LeaveUnreserved(a) \/ Permit(a) \/ Reserve(a) \/ Prune(a)
       \/ Denied(a) \/ Refund(a) \/ MarkInvoked(a) \/ Send(a) \/ Reconcile(a)
       \/ RetainEstimate(a) \/ StoreFails(a)
       \/ \E g \in Groups : Move(a, g)
  \/ Crash \/ Recover \/ Start

Spec == Init /\ [][Next]_vars

(***************************************************************************)
(* Properties                                                              *)
(***************************************************************************)

\* The aggregates always equal what the receipts add up to, whatever calls,
\* prunings, failures and crashes interleave: otherwise the next recovery or
\* pruning refuses to go on (validate_all_provider_epochs).
LedgerMatchesReceipts == LedgerValidates

\* No epoch lets more attempts reach the provider than its limit, whatever the
\* clock does, however late calls end, and across crashes and prunings.
SentWithinQuota == \A e \in Epochs : sent[e] <= RPM

=============================================================================
