---------------------------- MODULE MutationFence ----------------------------
(***************************************************************************)
(* How the workload nodes admit mutations of one agent: the durable fence  *)
(* of each node (cluster_control.rs), the per-agent readers-writer barrier *)
(* and the handlers that use it (syscall_server.rs), and the managed       *)
(* client's cancellation (sdk/src/cluster.rs).  The authority is the one   *)
(* that OwnershipLease specifies.                                          *)
(*                                                                         *)
(* A task is one request at one node.  A mutation waits for the shared     *)
(* side of the barrier, verifies its proof against the fence, and keeps    *)
(* the guard until it is finished.  Installing or retiring a fence first   *)
(* confirms the proof with the authority, then waits for the exclusive     *)
(* side.  The barrier is tokio's RwLock: first come, first served, so a    *)
(* waiting writer holds back later readers.                                *)
(*                                                                         *)
(* The agent, the cluster id and the audit trail are fixed or left out.    *)
(* Time is in ticks; several authority commands may share one.             *)
(***************************************************************************)
EXTENDS OwnershipLease, Sequences, FiniteSets, SequencesExt

CONSTANTS
  Tasks,         \* requests, numbered
  Ttls,          \* the ttl_seconds that claims and renewals ask for
  Horizon,       \* MAX_OWNERSHIP_LEASE_TTL + MAX_DESTINATION_PROOF_CLOCK_SKEW
  MaxClock,      \* bound on clocks
  MaxGen,        \* bound on revisions of the lease
  MaxTerm,       \* bound on Raft terms
  Synchronized,  \* the nodes' clocks agree and do not step back
  Graceful,      \* a lease is released only after its fence is retired
  StreamsEnd     \* a stream ends without being cancelled

ASSUME FenceConstants ==
  /\ Ttls \subseteq 1..Horizon /\ Horizon \in Nat
  /\ MaxClock \in Nat /\ MaxGen \in Nat /\ MaxTerm \in Nat \ {0}
  /\ Synchronized \in BOOLEAN /\ Graceful \in BOOLEAN /\ StreamsEnd \in BOOLEAN
  /\ "none" \notin Nodes

VARIABLES
  issued,   \* proofs of every active revision the authority has committed
  clock,    \* wall clock of each node
  fence,    \* AgentMutationFence record of each node
  readers,  \* tasks that hold the shared side of the barrier
  queue,    \* tasks that wait for the barrier, in order
  task      \* the requests

authority == <<own, time, issued>>
barrier   == <<readers, queue>>
vars      == <<own, time, issued, clock, fence, readers, queue, task>>

NoProof == [owner |-> "none", term |-> 0, token |-> 0, gen |-> 0, expires |-> 0]
NoFence == [proof |-> NoProof, installed |-> 0, state |-> "none"]

Readers   == {"mutate", "stream", "unfenced"}
Writers   == {"install", "retire", "cancel"}
NewTask   == [kind |-> "none", node |-> "none", proof |-> NoProof, pc |-> "new", target |-> "none"]
DoneTask  == [NewTask EXCEPT !.pc = "done"]
Live(t)   == task[t].pc \notin {"new", "done"}
Running(t) == task[t].pc \in {"running", "cancelled"}

\* Requests are numbered as they arrive.
InOrder(t) == \A s \in Tasks : s < t => task[s].pc # "new"

Init ==
  /\ LeaseInit
  /\ issued = {}
  /\ clock = [n \in Nodes |-> 0]
  /\ fence = [n \in Nodes |-> NoFence]
  /\ readers = [n \in Nodes |-> {}]
  /\ queue = [n \in Nodes |-> <<>>]
  /\ task = [t \in Tasks |-> NewTask]

-----------------------------------------------------------------------------
(* The environment: clocks and the authority.                              *)

\* Wall clocks move on; unless they are synchronized, also apart and back.
ClockStep ==
  /\ IF Synchronized
       THEN \E n \in Nodes : /\ clock[n] < MaxClock
                             /\ clock' = [m \in Nodes |-> clock[n] + 1]
       ELSE \E n \in Nodes, c \in 0..MaxClock :
              c # clock[n] /\ clock' = [clock EXCEPT ![n] = c]
  /\ UNCHANGED <<authority, fence, barrier, task>>

\* The authority's view of a proposer's clock.
Now(n) == IF clock[n] > time THEN clock[n] ELSE time

\* The proof that a client copies from an ownership record.
ProofOf(o) == [owner |-> o.owner, term |-> o.term, token |-> o.token, gen |-> o.gen,
               expires |-> o.lease]

\* The owner has retired the fence of the lease it gives up.
RetiredByOwner ==
  own.owner \in Nodes /\ fence[own.owner].state = "retired"
    /\ fence[own.owner].proof = ProofOf(own)

AuthorityStep ==
  /\ own.gen < MaxGen
  /\ \E n \in Nodes, tm \in 1..MaxTerm, ttl \in Ttls :
       \/ \E m \in Nodes : Grant(m, tm, Now(n), Now(n) + ttl)
       \/ Renew(tm, Now(n), Now(n) + ttl)
       \/ /\ Graceful => RetiredByOwner
          /\ Release(tm, Now(n))
  /\ issued' = IF own'.state = "active" THEN issued \cup {ProofOf(own')} ELSE issued
  /\ UNCHANGED <<clock, fence, barrier, task>>

-----------------------------------------------------------------------------
(* The destination fence.                                                  *)

\* Mutant: expiry is not checked at admission.
VerifiesUnexpiring(n, p) == fence[n].state = "active" /\ fence[n].proof = p

\* verify_agent_mutation_fence.
Verifies(n, p) ==
  /\ fence[n].state = "active"
  /\ fence[n].proof = p /\ p.owner = n
  /\ clock[n] >= fence[n].installed
  /\ clock[n] < p.expires

\* Mutant: a retired token may be installed again.
InstallableRetired(n, p) ==
  LET f == fence[n].proof IN
  /\ p.owner = n
  /\ p.expires > clock[n] /\ p.expires <= clock[n] + Horizon
  /\ fence[n].state # "none" =>
       /\ p.term >= f.term /\ p.token >= f.token /\ p.gen >= f.gen
       /\ p.term > f.term \/ p.token > f.token => p.gen > f.gen

\* install_agent_mutation_fence: what is written instead of an error.  The
\* exact active record is returned as it is, or rewritten if its proof ended
\* when it was installed.
Installable(n, p) ==
  LET f == fence[n].proof IN
  /\ p.owner = n
  /\ p.expires > clock[n] /\ p.expires <= clock[n] + Horizon
  /\ fence[n].state # "none" =>
       /\ p.term >= f.term /\ p.token >= f.token /\ p.gen >= f.gen
       /\ fence[n].state = "retired" => p.token > f.token
       /\ (p.term = f.term /\ p.token = f.token /\ p.gen = f.gen)
            => p.expires # f.expires /\ f.expires = fence[n].installed
       /\ p.term > f.term \/ p.token > f.token => p.gen > f.gen

\* The record that write_mutation_fence writes.
Installed(n, p) == [proof |-> p, installed |-> clock[n], state |-> "active"]

\* retire_agent_mutation_fence: the exact active record only.
Retirable(n, p) == fence[n].state = "active" /\ fence[n].proof = p

Retired(n, p) == [proof |-> p, installed |-> clock[n], state |-> "retired"]

\* verify_quorum_destination_authority.
QuorumAgrees(p, now) == own.state = "active" /\ ProofOf(own) = p /\ now < p.expires

-----------------------------------------------------------------------------
(* The handlers.                                                           *)

\* A mutation, fenced by any proof ever issued or unfenced, asks for the
\* shared side of the barrier.
StartMutation(t, n) ==
  /\ task[t].pc = "new" /\ InOrder(t)
  /\ \E kind \in Readers, p \in issued \cup {NoProof} :
       /\ kind = "unfenced" <=> p = NoProof
       /\ task' = [task EXCEPT ![t] = [kind |-> kind, node |-> n, proof |-> p,
                                       pc |-> "queued", target |-> "none"]]
  /\ queue' = [queue EXCEPT ![n] = Append(@, t)]
  /\ UNCHANGED <<authority, clock, fence, readers>>

\* A fence update is confirmed by a linearizable read, which advances authority
\* time, and then asks for the exclusive side.
StartUpdate(t, n) ==
  /\ task[t].pc = "new" /\ InOrder(t)
  /\ \E kind \in {"install", "retire"}, p \in issued, m \in Nodes :
       /\ QuorumAgrees(p, Now(m))
       /\ Pass(Now(m))
       /\ task' = [task EXCEPT ![t] = [kind |-> kind, node |-> n, proof |-> p,
                                       pc |-> "queued", target |-> "none"]]
  /\ queue' = [queue EXCEPT ![n] = Append(@, t)]
  /\ UNCHANGED <<issued, clock, fence, readers>>

\* The managed client cancels a stream: it reads the active lease and, unless
\* the fence agrees with it, installs its proof first (current_mutation_proof).
StartManagedCancel(t, s) ==
  LET n == task[s].node
      p == ProofOf(own)
  IN
  /\ task[t].pc = "new" /\ InOrder(t) /\ task[s].kind = "stream" /\ task[s].pc = "running"
  /\ own.state = "active" /\ own.owner = n
  /\ \E m \in Nodes : Now(m) < own.lease /\ Pass(Now(m))
  /\ \/ /\ fence[n].state = "active" /\ fence[n].proof = p
        /\ task' = [task EXCEPT ![t] = [kind |-> "cancel", node |-> n, proof |-> p,
                                        pc |-> "cancelling", target |-> s]]
        /\ UNCHANGED queue
     \/ /\ fence[n].state # "active" \/ fence[n].proof # p
        /\ p.token > fence[n].proof.token
             \/ (p.token = fence[n].proof.token /\ p.gen >= fence[n].proof.gen)
        /\ task' = [task EXCEPT ![t] = [kind |-> "cancel", node |-> n, proof |-> p,
                                        pc |-> "queued", target |-> s]]
        /\ queue' = [queue EXCEPT ![n] = Append(@, t)]
  /\ UNCHANGED <<issued, clock, fence, readers>>

\* A client that keeps the proof of its stream cancels with that proof.
StartDirectCancel(t, s) ==
  /\ task[t].pc = "new" /\ InOrder(t) /\ task[s].kind = "stream" /\ task[s].pc = "running"
  /\ task' = [task EXCEPT ![t] = [kind |-> "cancel", node |-> task[s].node,
                                  proof |-> task[s].proof, pc |-> "cancelling", target |-> s]]
  /\ UNCHANGED <<authority, clock, fence, barrier>>

\* Mutant: a fence is changed without waiting for admitted operations.
WriterMayEnterAnyTime(t) == queue[task[t].node] # <<>> /\ Head(queue[task[t].node]) = t

\* The exclusive side is free for the task that waits longest.
WriterMayEnter(t) ==
  /\ queue[task[t].node] # <<>> /\ Head(queue[task[t].node]) = t
  /\ readers[task[t].node] = {}

\* What the handler checks once it has the shared guard.
Admissible(t) ==
  IF task[t].kind = "unfenced" THEN fence[task[t].node].state = "none"
  ELSE Verifies(task[t].node, task[t].proof)

\* The shared guard is acquired; the mutation starts or is refused.
Admit(t) ==
  LET n == task[t].node IN
  /\ task[t].pc = "queued" /\ task[t].kind \in Readers
  /\ queue[n] # <<>> /\ Head(queue[n]) = t
  /\ queue' = [queue EXCEPT ![n] = Tail(@)]
  /\ IF Admissible(t)
       THEN /\ readers' = [readers EXCEPT ![n] = @ \cup {t}]
            /\ task' = [task EXCEPT ![t].pc = "running"]
       ELSE /\ task' = [task EXCEPT ![t] = DoneTask]
            /\ UNCHANGED readers
  /\ UNCHANGED <<authority, clock, fence>>

\* The exclusive guard is acquired; the transaction runs and the guard is
\* dropped.  A managed cancellation goes on if its proof is now installed.
Update(t) ==
  LET n == task[t].node
      p == task[t].proof
  IN
  /\ task[t].pc = "queued" /\ task[t].kind \in Writers
  /\ WriterMayEnter(t)
  /\ queue' = [queue EXCEPT ![n] = Tail(@)]
  /\ fence' = IF task[t].kind = "retire"
                THEN IF Retirable(n, p) THEN [fence EXCEPT ![n] = Retired(n, p)] ELSE fence
                ELSE IF Installable(n, p) THEN [fence EXCEPT ![n] = Installed(n, p)] ELSE fence
  /\ task' = [task EXCEPT ![t] =
                IF task[t].kind = "cancel" /\ fence'[n].state = "active" /\ fence'[n].proof = p
                  THEN [@ EXCEPT !.pc = "cancelling"] ELSE DoneTask]
  /\ UNCHANGED <<authority, clock, readers>>

\* A fenced CancelRequest does not take the barrier; it reaches only a stream
\* that was admitted under the very same proof.
Cancel(t) ==
  LET Reached(s) == /\ s = task[t].target /\ task[s].pc = "running"
                    /\ task[s].proof = task[t].proof
                    /\ Verifies(task[t].node, task[t].proof)
  IN
  /\ task[t].pc = "cancelling"
  /\ task' = [s \in Tasks |-> IF s = t THEN DoneTask
                              ELSE IF Reached(s) THEN [task[s] EXCEPT !.pc = "cancelled"]
                              ELSE task[s]]
  /\ UNCHANGED <<authority, clock, fence, barrier>>

\* Mutant: the guard of an unfenced mutation is not dropped.
ReleaseGuardLeaky(t) ==
  readers' = IF task[t].kind = "unfenced" THEN readers
             ELSE [readers EXCEPT ![task[t].node] = @ \ {t}]

\* The guard is dropped with the handler.
ReleaseGuard(t) == readers' = [readers EXCEPT ![task[t].node] = @ \ {t}]

\* An admitted operation ends; expiry does not end it.
Finish(t) ==
  /\ Running(t)
  /\ StreamsEnd \/ task[t].kind # "stream" \/ task[t].pc = "cancelled"
  /\ ReleaseGuard(t)
  /\ task' = [task EXCEPT ![t] = DoneTask]
  /\ UNCHANGED <<authority, clock, fence, queue>>

\* The wire server drops a request that waits too long, and its place in the
\* queue; the streaming path has no such limit before its first frame.
Timeout(t) ==
  /\ task[t].pc = "queued" /\ task[t].kind # "stream"
  /\ \E i \in 1..Len(queue[task[t].node]) :
       /\ queue[task[t].node][i] = t
       /\ queue' = [queue EXCEPT ![task[t].node] = RemoveAt(@, i)]
  /\ task' = [task EXCEPT ![t] = DoneTask]
  /\ UNCHANGED <<authority, clock, fence, readers>>

\* A node restarts: requests and barrier are gone, the fence is durable.
Restart(n) ==
  /\ \E t \in Tasks : Live(t) /\ task[t].node = n
  /\ task' = [t \in Tasks |-> IF Live(t) /\ task[t].node = n
                              THEN DoneTask ELSE task[t]]
  /\ readers' = [readers EXCEPT ![n] = {}]
  /\ queue' = [queue EXCEPT ![n] = <<>>]
  /\ UNCHANGED <<authority, clock, fence>>

-----------------------------------------------------------------------------

Handler(t) == Admit(t) \/ Update(t) \/ Cancel(t) \/ Finish(t)

Next ==
  \/ ClockStep \/ AuthorityStep
  \/ \E n \in Nodes : Restart(n)
  \/ \E t \in Tasks :
       \/ Handler(t) \/ Timeout(t)
       \/ \E n \in Nodes : StartMutation(t, n) \/ StartUpdate(t, n)
       \/ \E s \in Tasks \ {t} : StartManagedCancel(t, s) \/ StartDirectCancel(t, s)

Spec == Init /\ [][Next]_vars

\* Handlers that can go on do; nothing makes a client call, a clock move or
\* the authority act.
FairSpec == Spec /\ \A t \in Tasks : WF_vars(Handler(t))

-----------------------------------------------------------------------------
(* Properties.                                                             *)

Proofs == [owner : Nodes \cup {"none"}, term : Nat, token : Nat, gen : Nat, expires : Nat]

Ownerships == [owner : Nodes \cup {"none"}, term : Nat, token : Nat, gen : Nat,
               state : {"none", "active", "released"}, lease : Nat, updated : Nat]

Fences == [proof : Proofs, installed : Nat, state : {"none", "active", "retired"}]

Requests == [kind : Readers \cup Writers \cup {"none"}, node : Nodes \cup {"none"},
             proof : Proofs, target : Tasks \cup {"none"},
             pc : {"new", "queued", "running", "cancelled", "cancelling", "done"}]

TypeOK ==
  /\ own \in Ownerships /\ time \in Nat /\ issued \subseteq Proofs
  /\ clock \in [Nodes -> Nat]
  /\ fence \in [Nodes -> Fences]
  /\ readers \in [Nodes -> SUBSET Tasks]
  /\ queue \in [Nodes -> Seq(Tasks)]
  /\ task \in [Tasks -> Requests]

\* "an ownership handoff cannot cross a verified operation in flight" (lib.rs):
\* for as long as a fenced mutation runs, the fence of its node is the active
\* record it was admitted under, and an unfenced one runs only where no fence
\* was ever installed, whatever installs, retirements and renewals are waiting.
OperationsOwnTheFence ==
  \A t \in Tasks : Running(t) =>
    LET f == fence[task[t].node] IN
    IF task[t].kind = "unfenced" THEN f.state = "none"
    ELSE f.state = "active" /\ f.proof = task[t].proof

\* The shared side is held by exactly the running mutations.
GuardsHeld ==
  /\ \A t \in Tasks : Live(t) => task[t].node \in Nodes
  /\ \A t \in Tasks : Running(t) => task[t].kind \in Readers
  /\ \A n \in Nodes, t \in Tasks : t \in readers[n] <=> Running(t) /\ task[t].node = n

\* The inductive invariant behind OperationsOwnTheFence.
IInv == TypeOK /\ GuardsHeld /\ OperationsOwnTheFence

\* A destination never accepts an older term, token or revision again, and a
\* retired token stays retired, over restarts, delayed and repeated installs.
FenceOnlyAdvances ==
  [][\A n \in Nodes :
       LET f == fence[n].proof
           g == fence'[n].proof
       IN fence[n].state # "none" =>
          /\ g.term >= f.term /\ g.token >= f.token /\ g.gen >= f.gen
          /\ fence'[n].state # "none"
          /\ fence[n].state = "retired" /\ fence'[n].state = "active" => g.token > f.token]_vars

\* With synchronized clocks and releases that follow the retirement of the
\* fence, a mutation is admitted only under the token that the authority
\* honours at that moment: no node admits work for an agent that was handed
\* over, although nobody tells it.
AdmittedUnderCurrentToken ==
  [][\A t \in Tasks :
       task[t].pc = "queued" /\ task'[t].pc = "running" /\ task[t].kind # "unfenced"
         => own.state = "active" /\ own.token = task[t].proof.token]_vars

\* The invariant behind AdmittedUnderCurrentToken.  Clocks agree and authority
\* time is not ahead of them; fences and requests carry proofs that were
\* issued; the proofs of the present token end no later than its lease; and a
\* proof of a token that was given up is expired, retired or superseded at
\* its node.
ClocksAgree ==
  /\ \A n, m \in Nodes : clock[n] = clock[m]
  /\ \A n \in Nodes : time <= clock[n]

ProofsIssued ==
  /\ own.state = "active" => ProofOf(own) \in issued
  /\ \A n \in Nodes : /\ fence[n].state = "none" => fence[n].proof = NoProof
                      /\ fence[n].state = "active" => fence[n].proof \in issued
  /\ \A t \in Tasks : task[t].proof \in issued \cup {NoProof}
  /\ NoProof \notin issued

LeaseCovers ==
  /\ own.state = "none" => issued = {}
  /\ own.state = "active" => own.updated <= time /\ \E ttl \in Ttls : own.lease = own.updated + ttl
  /\ \A p \in issued :
       /\ p.owner \in Nodes /\ p.token <= own.token
       /\ p.token = own.token => p.owner = own.owner
       /\ p.token = own.token /\ own.state = "active" => p.expires <= own.lease

SupersededDead ==
  \A p \in issued : p.token < own.token \/ own.state = "released" =>
    \/ \A n \in Nodes : p.expires <= clock[n]
    \/ fence[p.owner].proof.token > p.token
    \/ fence[p.owner].proof.token = p.token /\ fence[p.owner].state = "retired"

HandoverInv == ClocksAgree /\ ProofsIssued /\ LeaseCovers /\ SupersededDead

\* Nobody is left waiting: a request that asked for the barrier is admitted,
\* applied or refused, behind any number of streams that end.
EveryRequestAnswered == \A t \in Tasks : task[t].pc = "queued" ~> task[t].pc # "queued"

=============================================================================
