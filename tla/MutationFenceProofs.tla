------------------------- MODULE MutationFenceProofs -------------------------
(* Theorems about the destination fence, for any nodes, requests and leases. *)
EXTENDS MutationFence, SequenceTheorems, TLAPS

\* Sequences stay sequences when an element is dropped.
LEMMA RemoveAtType ==
  ASSUME NEW S, NEW s \in Seq(S), NEW i \in 1..Len(s)
  PROVE  RemoveAt(s, i) \in Seq(S)
<1>1. Len(s) \in Nat
  OBVIOUS
<1>2. SubSeq(s, 1, i - 1) \in Seq(S)
  BY <1>1
<1>3. SubSeq(s, i + 1, Len(s)) \in Seq(S)
  BY <1>1
<1> QED
  BY <1>2, <1>3 DEF RemoveAt

\* The authority's clock reading is a time not before its last one.
LEMMA NowType ==
  ASSUME TypeOK, NEW n \in Nodes
  PROVE  Now(n) \in Nat /\ Now(n) >= time
  BY DEF TypeOK, Now

LEMMA InitTypeOK == Init => TypeOK
  BY DEF Init, TypeOK, LeaseInit, Unowned, NoFence, NoProof, NewTask, Proofs, Ownerships,
         Fences, Requests

\* A revision of an ownership record is an ownership record.
LEMMA RevisionType ==
  ASSUME NEW o \in Ownerships, NEW tm \in Nat, NEW gen \in Nat, NEW lease \in Nat,
         NEW updated \in Nat
  PROVE  /\ [o EXCEPT !.term = tm, !.gen = gen, !.lease = lease, !.updated = updated]
              \in Ownerships
         /\ [o EXCEPT !.term = tm, !.gen = gen, !.state = "released", !.lease = lease,
                      !.updated = updated] \in Ownerships
  BY DEF Ownerships

LEMMA AuthorityType ==
  ASSUME TypeOK, AuthorityStep
  PROVE  own' \in Ownerships /\ time' \in Nat /\ issued' \subseteq Proofs
<1> PICK n \in Nodes, tm \in 1..MaxTerm, ttl \in Ttls :
      \/ \E m \in Nodes : Grant(m, tm, Now(n), Now(n) + ttl)
      \/ Renew(tm, Now(n), Now(n) + ttl)
      \/ Release(tm, Now(n))
  BY DEF AuthorityStep
<1>1. Now(n) \in Nat /\ ttl \in Nat /\ tm \in Nat /\ Now(n) + ttl \in Nat
  BY NowType, FenceConstants
<1>2. own \in Ownerships
  BY DEF TypeOK
<1>3. own' \in Ownerships /\ time' \in Nat
  <2>1. CASE \E m \in Nodes : Grant(m, tm, Now(n), Now(n) + ttl)
    BY <2>1, <1>1, <1>2 DEF Grant, Ownerships
  <2>2. CASE Renew(tm, Now(n), Now(n) + ttl)
    <3>1. own.gen + 1 \in Nat
      BY <1>2 DEF Ownerships
    <3>2. own' = [own EXCEPT !.term = tm, !.gen = own.gen + 1, !.lease = Now(n) + ttl,
                             !.updated = Now(n)]
      BY <2>2 DEF Renew
    <3>3. time' = Now(n)
      BY <2>2 DEF Renew
    <3> QED
      BY <3>1, <3>2, <3>3, <1>1, <1>2, RevisionType
  <2>3. CASE Release(tm, Now(n))
    <3>1. own.gen + 1 \in Nat
      BY <1>2 DEF Ownerships
    <3>2. own' = [own EXCEPT !.term = tm, !.gen = own.gen + 1, !.state = "released",
                             !.lease = Now(n), !.updated = Now(n)]
      BY <2>3 DEF Release
    <3>3. time' = Now(n)
      BY <2>3 DEF Release
    <3> QED
      BY <3>1, <3>2, <3>3, <1>1, <1>2, RevisionType
  <2> QED
    BY <2>1, <2>2, <2>3
<1>4. ProofOf(own') \in Proofs
  BY <1>3 DEF Ownerships, ProofOf, Proofs
<1> QED
  BY <1>3, <1>4 DEF AuthorityStep, TypeOK

LEMMA QueueGrows ==
  ASSUME NEW q \in [Nodes -> Seq(Tasks)], NEW n \in Nodes, NEW t \in Tasks
  PROVE  [q EXCEPT ![n] = Append(q[n], t)] \in [Nodes -> Seq(Tasks)]
  OBVIOUS

\* A new request leaves the running ones alone.
LEMMA StartPreserves ==
  ASSUME IInv, NEW t \in Tasks, task[t].pc = "new",
         NEW r \in Requests, r.pc \in {"queued", "cancelling"}, r.node \in Nodes,
         task' = [task EXCEPT ![t] = r],
         UNCHANGED <<fence, readers>>
  PROVE  task' \in [Tasks -> Requests] /\ GuardsHeld' /\ OperationsOwnTheFence'
<1>1. task' \in [Tasks -> Requests]
  BY DEF IInv, TypeOK
<1>2. \A u \in Tasks : u # t => task'[u] = task[u]
  BY DEF IInv, TypeOK
<1>3. task'[t] = r
  BY DEF IInv, TypeOK
<1>4. ~Running(t) /\ ~Running(t)'
  BY <1>3 DEF Running
<1>5. GuardsHeld'
  BY <1>2, <1>3, <1>4 DEF IInv, GuardsHeld, Live, Running
<1>6. OperationsOwnTheFence'
  BY <1>2, <1>4 DEF IInv, OperationsOwnTheFence, Running
<1> QED
  BY <1>1, <1>5, <1>6

LEMMA MutationStarts ==
  ASSUME IInv, NEW t \in Tasks, NEW n \in Nodes, StartMutation(t, n)
  PROVE  IInv'
<1> PICK kind \in Readers, p \in issued \cup {NoProof} :
      task' = [task EXCEPT ![t] = [kind |-> kind, node |-> n, proof |-> p,
                                   pc |-> "queued", target |-> "none"]]
  BY DEF StartMutation
<1> DEFINE r == [kind |-> kind, node |-> n, proof |-> p, pc |-> "queued", target |-> "none"]
<1>1. p \in Proofs
  BY DEF IInv, TypeOK, NoProof, Proofs
<1>2. r \in Requests
  BY <1>1 DEF Requests
<1>3. task' \in [Tasks -> Requests] /\ GuardsHeld' /\ OperationsOwnTheFence'
  BY <1>2, StartPreserves DEF StartMutation
<1>4. queue' \in [Nodes -> Seq(Tasks)]
  BY DEF IInv, TypeOK, StartMutation
<1> QED
  BY <1>3, <1>4 DEF IInv, TypeOK, StartMutation, authority

LEMMA UpdateStarts ==
  ASSUME IInv, NEW t \in Tasks, NEW n \in Nodes, StartUpdate(t, n)
  PROVE  IInv'
<1> PICK kind \in {"install", "retire"}, p \in issued, m \in Nodes :
      /\ Pass(Now(m))
      /\ task' = [task EXCEPT ![t] = [kind |-> kind, node |-> n, proof |-> p,
                                      pc |-> "queued", target |-> "none"]]
  BY DEF StartUpdate
<1> DEFINE r == [kind |-> kind, node |-> n, proof |-> p, pc |-> "queued", target |-> "none"]
<1>1. p \in Proofs
  BY DEF IInv, TypeOK
<1>2. r \in Requests
  BY <1>1 DEF Requests, Writers
<1>3. task' \in [Tasks -> Requests] /\ GuardsHeld' /\ OperationsOwnTheFence'
  BY <1>2, StartPreserves DEF StartUpdate
<1>4. queue' \in [Nodes -> Seq(Tasks)]
  BY DEF IInv, TypeOK, StartUpdate
<1>5. time' \in Nat /\ own' = own
  BY NowType DEF IInv, Pass
<1> QED
  BY <1>3, <1>4, <1>5 DEF IInv, TypeOK, StartUpdate

LEMMA CancelStarts ==
  ASSUME IInv, NEW t \in Tasks, NEW s \in Tasks \ {t},
         StartManagedCancel(t, s) \/ StartDirectCancel(t, s)
  PROVE  IInv'
<1>1. task[s].node \in Nodes /\ task[s] \in Requests
  BY DEF IInv, TypeOK, GuardsHeld, Live, StartManagedCancel, StartDirectCancel
<1>2. CASE StartDirectCancel(t, s)
  <2> DEFINE r == [kind |-> "cancel", node |-> task[s].node, proof |-> task[s].proof,
                   pc |-> "cancelling", target |-> s]
  <2>1. r \in Requests
    BY <1>1 DEF Requests, Writers
  <2>2. task' \in [Tasks -> Requests] /\ GuardsHeld' /\ OperationsOwnTheFence'
    BY <1>2, <2>1, <1>1, StartPreserves DEF StartDirectCancel, barrier
  <2> QED
    BY <1>2, <2>2 DEF IInv, TypeOK, StartDirectCancel, authority, barrier
<1>3. CASE StartManagedCancel(t, s)
  <2> DEFINE r(pc) == [kind |-> "cancel", node |-> task[s].node, proof |-> ProofOf(own),
                       pc |-> pc, target |-> s]
  <2>1. ProofOf(own) \in Proofs
    BY DEF IInv, TypeOK, ProofOf, Proofs, Ownerships
  <2>2. r("cancelling") \in Requests /\ r("queued") \in Requests
    BY <1>1, <2>1 DEF Requests, Writers
  <2>3. task[t].pc = "new" /\ UNCHANGED <<fence, readers>>
    BY <1>3 DEF StartManagedCancel
  <2>4. task' \in [Tasks -> Requests] /\ GuardsHeld' /\ OperationsOwnTheFence'
    <3>1. CASE task' = [task EXCEPT ![t] = r("cancelling")]
      <4>1. r("cancelling").pc \in {"queued", "cancelling"} /\ r("cancelling").node \in Nodes
        BY <1>1
      <4> HIDE DEF r
      <4> QED
        BY <3>1, <4>1, <2>2, <2>3, StartPreserves
    <3>2. CASE task' = [task EXCEPT ![t] = r("queued")]
      <4>1. r("queued").pc \in {"queued", "cancelling"} /\ r("queued").node \in Nodes
        BY <1>1
      <4> HIDE DEF r
      <4> QED
        BY <3>2, <4>1, <2>2, <2>3, StartPreserves
    <3>3. \/ task' = [task EXCEPT ![t] = r("cancelling")]
          \/ task' = [task EXCEPT ![t] = r("queued")]
      BY <1>3, Zenon DEF StartManagedCancel
    <3> QED
      BY <3>1, <3>2, <3>3
  <2>5. queue' \in [Nodes -> Seq(Tasks)]
    <3>1. \/ queue' = queue
          \/ queue' = [queue EXCEPT ![task[s].node] = Append(queue[task[s].node], t)]
      BY <1>3, Zenon DEF StartManagedCancel
    <3>2. queue \in [Nodes -> Seq(Tasks)] /\ t \in Tasks
      BY DEF IInv, TypeOK
    <3>3. [queue EXCEPT ![task[s].node] = Append(queue[task[s].node], t)]
            \in [Nodes -> Seq(Tasks)]
      BY <3>2, <1>1, QueueGrows
    <3> QED
      BY <3>1, <3>2, <3>3, Zenon
  <2>6. time' \in Nat /\ own' = own
    <3> PICK m \in Nodes : Pass(Now(m))
      BY <1>3 DEF StartManagedCancel
    <3> QED
      BY NowType DEF IInv, Pass
  <2> QED
    BY <1>3, <2>4, <2>5, <2>6 DEF IInv, TypeOK, StartManagedCancel
<1> QED
  BY <1>2, <1>3

\* A request moves on without changing what it asks for.
LEMMA PcType ==
  ASSUME NEW r \in Requests,
         NEW pc \in {"new", "queued", "running", "cancelled", "cancelling", "done"}
  PROVE  /\ [r EXCEPT !.pc = pc] \in Requests
         /\ [r EXCEPT !.pc = pc].pc = pc /\ [r EXCEPT !.pc = pc].kind = r.kind
         /\ [r EXCEPT !.pc = pc].node = r.node /\ [r EXCEPT !.pc = pc].proof = r.proof
  BY DEF Requests

LEMMA DoneType == DoneTask \in Requests /\ DoneTask.pc = "done"
  BY DEF DoneTask, NewTask, NoProof, Proofs, Requests

\* A request that does not run is over; nothing else changes.
LEMMA DonePreserves ==
  ASSUME IInv, NEW t \in Tasks, ~Running(t),
         task' = [task EXCEPT ![t] = DoneTask],
         UNCHANGED <<fence, readers>>
  PROVE  task' \in [Tasks -> Requests] /\ GuardsHeld' /\ OperationsOwnTheFence'
<1>1. task' \in [Tasks -> Requests]
  BY DoneType DEF IInv, TypeOK
<1>2. \A u \in Tasks : u # t => task'[u] = task[u]
  BY DEF IInv, TypeOK
<1>3. task'[t].pc = "done"
  BY DoneType DEF IInv, TypeOK
<1>4. GuardsHeld'
  BY <1>2, <1>3 DEF IInv, GuardsHeld, Live, Running
<1>5. OperationsOwnTheFence'
  BY <1>2, <1>3 DEF IInv, OperationsOwnTheFence, Running
<1> QED
  BY <1>1, <1>4, <1>5

LEMMA AdmitPreserves ==
  ASSUME IInv, NEW t \in Tasks, Admit(t)
  PROVE  IInv'
<1> DEFINE n == task[t].node
<1>1. n \in Nodes /\ ~Running(t) /\ Live(t)
  BY DEF IInv, GuardsHeld, Admit, Running, Live
<1>2. task \in [Tasks -> Requests] /\ readers \in [Nodes -> SUBSET Tasks]
      /\ queue \in [Nodes -> Seq(Tasks)]
  BY DEF IInv, TypeOK
<1>3. queue' \in [Nodes -> Seq(Tasks)]
  BY <1>1, <1>2 DEF Admit
<1>4. UNCHANGED <<own, time, issued, clock, fence>>
  BY DEF Admit, authority
<1>5. CASE Admissible(t)
  <2>1. task' = [task EXCEPT ![t] = [task[t] EXCEPT !.pc = "running"]]
        /\ readers' = [readers EXCEPT ![n] = @ \cup {t}]
    BY <1>5 DEF Admit
  <2>2. task' \in [Tasks -> Requests] /\ readers' \in [Nodes -> SUBSET Tasks]
    BY <2>1, <1>1, <1>2, PcType
  <2>3. \A u \in Tasks : u # t => task'[u] = task[u]
    BY <2>1, <1>2
  <2>4. task'[t].pc = "running" /\ task'[t].kind = task[t].kind /\ task'[t].node = n
        /\ task'[t].proof = task[t].proof
    BY <2>1, <1>2, PcType
  <2>5. task[t].kind \in Readers
    BY DEF Admit
  <2>6. GuardsHeld'
    BY <2>1, <2>3, <2>4, <2>5, <1>1, <1>2 DEF IInv, GuardsHeld, Live, Running
  <2>7. OperationsOwnTheFence'
    BY <2>3, <2>4, <1>4, <1>5 DEF IInv, OperationsOwnTheFence, Running, Admissible, Verifies
  <2> QED
    BY <2>2, <2>6, <2>7, <1>3, <1>4 DEF IInv, TypeOK
<1>6. CASE ~Admissible(t)
  <2>1. task' = [task EXCEPT ![t] = DoneTask] /\ UNCHANGED readers
    BY <1>6 DEF Admit
  <2> QED
    BY <2>1, <1>1, <1>3, <1>4, DonePreserves DEF IInv, TypeOK
<1> QED
  BY <1>5, <1>6

\* A writer finds nobody running at its node.
LEMMA NobodyRuns ==
  ASSUME IInv, NEW t \in Tasks, task[t].node \in Nodes, WriterMayEnter(t)
  PROVE  \A u \in Tasks : Running(u) => task[u].node # task[t].node
  BY DEF IInv, GuardsHeld, WriterMayEnter

\* What a fence update writes.
LEMMA UpdateWrites ==
  ASSUME IInv, NEW t \in Tasks, Update(t)
  PROVE  LET n == task[t].node
             p == task[t].proof
         IN /\ n \in Nodes /\ p \in Proofs
            /\ \/ fence' = fence
               \/ /\ fence[n].state = "active" /\ fence[n].proof = p
                  /\ fence' = [fence EXCEPT ![n] = Retired(n, p)]
               \/ /\ Installable(n, p)
                  /\ fence' = [fence EXCEPT ![n] = Installed(n, p)]
<1> DEFINE n == task[t].node
           p == task[t].proof
<1>1. n \in Nodes
  BY DEF IInv, GuardsHeld, Update, Live
<1>2. p \in Proofs
  BY DEF IInv, TypeOK, Requests
<1>3. CASE task[t].kind = "retire" /\ Retirable(n, p)
  BY <1>1, <1>2, <1>3 DEF Update, Retirable
<1>4. CASE task[t].kind # "retire" /\ Installable(n, p)
  BY <1>1, <1>2, <1>4 DEF Update
<1>5. CASE ~(task[t].kind = "retire" /\ Retirable(n, p))
           /\ ~(task[t].kind # "retire" /\ Installable(n, p))
  BY <1>1, <1>2, <1>5 DEF Update
<1> QED
  BY <1>3, <1>4, <1>5

LEMMA UpdatePreserves ==
  ASSUME IInv, NEW t \in Tasks, Update(t)
  PROVE  IInv'
<1> DEFINE n == task[t].node
           p == task[t].proof
<1>1. n \in Nodes /\ p \in Proofs /\ ~Running(t)
  BY UpdateWrites DEF Update, Running
<1>2. task \in [Tasks -> Requests] /\ queue \in [Nodes -> Seq(Tasks)]
      /\ fence \in [Nodes -> Fences] /\ clock \in [Nodes -> Nat]
  BY DEF IInv, TypeOK
<1>3. queue' \in [Nodes -> Seq(Tasks)]
  BY <1>1, <1>2 DEF Update, WriterMayEnter
<1>4. fence' \in [Nodes -> Fences] /\ \A m \in Nodes : m # n => fence'[m] = fence[m]
  <2>1. Retired(n, p) \in Fences /\ Installed(n, p) \in Fences
    BY <1>1, <1>2 DEF Retired, Installed, Fences
  <2>2. \/ fence' = fence \/ fence' = [fence EXCEPT ![n] = Retired(n, p)]
        \/ fence' = [fence EXCEPT ![n] = Installed(n, p)]
    BY UpdateWrites
  <2> QED
    BY <2>1, <2>2, <1>1, <1>2
<1>5. UNCHANGED <<own, time, issued, clock, readers>>
  BY DEF Update, authority
<1>6. PICK r \in {[task[t] EXCEPT !.pc = "cancelling"], DoneTask} :
        task' = [task EXCEPT ![t] = r]
  BY <1>2 DEF Update
<1>7. r \in Requests /\ r.pc \in {"cancelling", "done"}
      /\ (r.pc = "cancelling" => r.node = n)
  <2>1. CASE r = DoneTask
    BY <2>1, DoneType
  <2>2. CASE r = [task[t] EXCEPT !.pc = "cancelling"]
    <3>1. task[t] \in Requests
      BY <1>2
    <3> QED
      BY <2>2, <3>1, PcType
  <2> QED
    BY <2>1, <2>2
<1>8. task' \in [Tasks -> Requests] /\ task'[t] = r
      /\ \A u \in Tasks : u # t => task'[u] = task[u]
  BY <1>2, <1>6, <1>7
<1>9. GuardsHeld'
  BY <1>1, <1>5, <1>7, <1>8 DEF IInv, GuardsHeld, Live, Running
<1>10. OperationsOwnTheFence'
  <2> SUFFICES ASSUME NEW u \in Tasks, Running(u)'
               PROVE  /\ task'[u].kind = "unfenced" => fence'[task'[u].node].state = "none"
                      /\ task'[u].kind # "unfenced" =>
                           fence'[task'[u].node].state = "active"
                             /\ fence'[task'[u].node].proof = task'[u].proof
    BY DEF OperationsOwnTheFence
  <2>1. u # t /\ task'[u] = task[u] /\ Running(u)
    BY <1>7, <1>8 DEF Running
  <2>2. task[u].node \in Nodes /\ task[u].node # n
    BY <2>1, <1>1, NobodyRuns DEF IInv, GuardsHeld, Live, Running, Update
  <2> QED
    BY <2>1, <2>2, <1>4 DEF IInv, OperationsOwnTheFence
<1> QED
  BY <1>3, <1>4, <1>5, <1>8, <1>9, <1>10 DEF IInv, TypeOK

LEMMA CancelPreserves ==
  ASSUME IInv, NEW t \in Tasks, Cancel(t)
  PROVE  IInv'
<1>1. task \in [Tasks -> Requests] /\ task[t] \in Requests
  BY DEF IInv, TypeOK
<1>2. UNCHANGED <<own, time, issued, clock, fence, readers, queue>>
  BY DEF Cancel, authority, barrier
<1>3. task[t].pc = "cancelling" /\ ~Running(t)
  BY DEF Cancel, Running
<1>4. task'[t] \in Requests /\ task'[t].pc = "done"
  BY DoneType DEF Cancel
<1>5. \A u \in Tasks \ {t} :
        \/ task'[u] = task[u]
        \/ task[u].pc = "running" /\ task'[u] = [task[u] EXCEPT !.pc = "cancelled"]
  BY DEF Cancel
<1>6. \A u \in Tasks \ {t} :
        /\ task'[u] \in Requests /\ (Running(u)' <=> Running(u)) /\ (Live(u)' <=> Live(u))
        /\ task'[u].node = task[u].node /\ task'[u].kind = task[u].kind
        /\ task'[u].proof = task[u].proof
  <2> SUFFICES ASSUME NEW u \in Tasks \ {t}
               PROVE  /\ task'[u] \in Requests /\ (Running(u)' <=> Running(u))
                      /\ (Live(u)' <=> Live(u))
                      /\ task'[u].node = task[u].node /\ task'[u].kind = task[u].kind
                      /\ task'[u].proof = task[u].proof
    OBVIOUS
  <2>1. CASE task'[u] = task[u]
    BY <2>1, <1>1 DEF Running, Live
  <2>2. CASE task[u].pc = "running" /\ task'[u] = [task[u] EXCEPT !.pc = "cancelled"]
    <3>1. task[u] \in Requests
      BY <1>1
    <3>2. /\ task'[u] \in Requests /\ task'[u].pc = "cancelled"
          /\ task'[u].node = task[u].node /\ task'[u].kind = task[u].kind
          /\ task'[u].proof = task[u].proof
      <4> DEFINE r == [task[u] EXCEPT !.pc = "cancelled"]
      <4>1. /\ r \in Requests /\ r.pc = "cancelled" /\ r.kind = task[u].kind
            /\ r.node = task[u].node /\ r.proof = task[u].proof
        BY <3>1, PcType, Zenon
      <4>2. task'[u] = r
        BY <2>2
      <4> HIDE DEF r
      <4> QED
        BY <4>1, <4>2
    <3>3. Running(u)' /\ Live(u)' /\ Running(u) /\ Live(u)
      BY <2>2, <3>2 DEF Running, Live
    <3> QED
      BY <3>2, <3>3
  <2> QED
    BY <1>5, <2>1, <2>2
<1>7. task' \in [Tasks -> Requests]
  <2>1. task' = [u \in Tasks |-> task'[u]]
    BY DEF Cancel
  <2> QED
    BY <2>1, <1>4, <1>6
<1>8. GuardsHeld'
  BY <1>2, <1>3, <1>4, <1>6 DEF IInv, GuardsHeld, Running, Live
<1>9. OperationsOwnTheFence'
  BY <1>2, <1>4, <1>6 DEF IInv, OperationsOwnTheFence, Running
<1> QED
  BY <1>2, <1>7, <1>8, <1>9 DEF IInv, TypeOK

LEMMA FinishPreserves ==
  ASSUME IInv, NEW t \in Tasks, Finish(t)
  PROVE  IInv'
<1>1. task \in [Tasks -> Requests] /\ readers \in [Nodes -> SUBSET Tasks]
  BY DEF IInv, TypeOK
<1>2. task[t].node \in Nodes
  BY DEF IInv, GuardsHeld, Finish, Running, Live
<1>3. UNCHANGED <<own, time, issued, clock, fence, queue>>
  BY DEF Finish, authority
<1>4. task' = [task EXCEPT ![t] = DoneTask]
      /\ readers' = [readers EXCEPT ![task[t].node] = readers[task[t].node] \ {t}]
  BY DEF Finish, ReleaseGuard
<1>5. task' \in [Tasks -> Requests] /\ readers' \in [Nodes -> SUBSET Tasks]
  BY <1>1, <1>2, <1>4, DoneType
<1>6. task'[t].pc = "done" /\ \A u \in Tasks : u # t => task'[u] = task[u]
  BY <1>1, <1>4, DoneType
<1>7. GuardsHeld'
  BY <1>1, <1>2, <1>4, <1>6 DEF IInv, GuardsHeld, Running, Live
<1>8. OperationsOwnTheFence'
  BY <1>3, <1>6 DEF IInv, OperationsOwnTheFence, Running
<1> QED
  BY <1>3, <1>5, <1>7, <1>8 DEF IInv, TypeOK

LEMMA TimeoutPreserves ==
  ASSUME IInv, NEW t \in Tasks, Timeout(t)
  PROVE  IInv'
<1> DEFINE n == task[t].node
<1>1. n \in Nodes /\ ~Running(t)
  BY DEF IInv, GuardsHeld, Timeout, Running, Live
<1>2. UNCHANGED <<own, time, issued, clock, fence, readers>>
  BY DEF Timeout, authority
<1>3. task' \in [Tasks -> Requests] /\ GuardsHeld' /\ OperationsOwnTheFence'
  BY <1>1, <1>2, DonePreserves DEF Timeout
<1>4. queue \in [Nodes -> Seq(Tasks)]
  BY DEF IInv, TypeOK
<1>5. PICK i \in 1..Len(queue[n]) : queue' = [queue EXCEPT ![n] = RemoveAt(queue[n], i)]
  BY DEF Timeout
<1>6. RemoveAt(queue[n], i) \in Seq(Tasks)
  BY <1>1, <1>4, RemoveAtType
<1>7. queue' \in [Nodes -> Seq(Tasks)]
  BY <1>4, <1>5, <1>6
<1> QED
  BY <1>2, <1>3, <1>7 DEF IInv, TypeOK

LEMMA RestartPreserves ==
  ASSUME IInv, NEW n \in Nodes, Restart(n)
  PROVE  IInv'
<1>1. task \in [Tasks -> Requests] /\ readers \in [Nodes -> SUBSET Tasks]
      /\ queue \in [Nodes -> Seq(Tasks)]
  BY DEF IInv, TypeOK
<1>2. UNCHANGED <<own, time, issued, clock, fence>>
  BY DEF Restart, authority
<1>3. \A u \in Tasks : task'[u] = task[u] \/ task'[u] = DoneTask
  BY DEF Restart
<1>4. \A u \in Tasks : Live(u) /\ task[u].node = n => task'[u] = DoneTask
  BY DEF Restart
<1>5. \A u \in Tasks : ~(Live(u) /\ task[u].node = n) => task'[u] = task[u]
  BY DEF Restart
<1>6. task' \in [Tasks -> Requests] /\ readers' \in [Nodes -> SUBSET Tasks]
      /\ queue' \in [Nodes -> Seq(Tasks)]
  BY <1>1, DoneType DEF Restart
<1>7. readers'[n] = {} /\ \A m \in Nodes : m # n => readers'[m] = readers[m]
  BY <1>1 DEF Restart
<1>8. GuardsHeld'
  BY <1>3, <1>4, <1>5, <1>7, DoneType DEF IInv, GuardsHeld, Running, Live
<1>9. OperationsOwnTheFence'
  BY <1>2, <1>3, DoneType DEF IInv, OperationsOwnTheFence, Running
<1> QED
  BY <1>2, <1>6, <1>8, <1>9 DEF IInv, TypeOK

-----------------------------------------------------------------------------

LEMMA AuthorityPreserves ==
  ASSUME IInv, ClockStep \/ AuthorityStep
  PROVE  IInv'
<1>1. UNCHANGED <<fence, readers, queue, task>>
  BY DEF ClockStep, AuthorityStep, barrier
<1>2. GuardsHeld' /\ OperationsOwnTheFence'
  BY <1>1 DEF IInv, GuardsHeld, OperationsOwnTheFence, Running, Live
<1>3. CASE ClockStep
  <2>1. clock \in [Nodes -> Nat] /\ MaxClock \in Nat
    BY FenceConstants DEF IInv, TypeOK
  <2>2. clock' \in [Nodes -> Nat]
    BY <1>3, <2>1 DEF ClockStep
  <2> QED
    BY <1>1, <1>2, <1>3, <2>2 DEF IInv, TypeOK, ClockStep, authority
<1>4. CASE AuthorityStep
  <2>1. clock' = clock
    BY <1>4 DEF AuthorityStep
  <2>2. own' \in Ownerships /\ time' \in Nat /\ issued' \subseteq Proofs
    BY <1>4, AuthorityType DEF IInv
  <2> QED
    BY <1>1, <1>2, <2>1, <2>2 DEF IInv, TypeOK
<1> QED
  BY <1>3, <1>4

LEMMA NextPreserves ==
  ASSUME IInv, [Next]_vars
  PROVE  IInv'
<1>1. CASE ClockStep \/ AuthorityStep
  BY <1>1, AuthorityPreserves
<1>2. ASSUME NEW n \in Nodes, Restart(n)
      PROVE  IInv'
  BY <1>2, RestartPreserves
<1>3. ASSUME NEW t \in Tasks, Handler(t) \/ Timeout(t)
      PROVE  IInv'
  BY <1>3, AdmitPreserves, UpdatePreserves, CancelPreserves, FinishPreserves, TimeoutPreserves
     DEF Handler
<1>4. ASSUME NEW t \in Tasks, NEW n \in Nodes, StartMutation(t, n) \/ StartUpdate(t, n)
      PROVE  IInv'
  BY <1>4, MutationStarts, UpdateStarts
<1>5. ASSUME NEW t \in Tasks, NEW s \in Tasks \ {t},
             StartManagedCancel(t, s) \/ StartDirectCancel(t, s)
      PROVE  IInv'
  BY <1>5, CancelStarts
<1>6. CASE UNCHANGED vars
  BY <1>6 DEF vars, IInv, TypeOK, GuardsHeld, OperationsOwnTheFence, Running, Live
<1> QED
  BY <1>1, <1>2, <1>3, <1>4, <1>5, <1>6 DEF Next

\* Any number of nodes, requests and leases, and clocks that move as they like:
\* the types hold, the shared side of the barrier is held by exactly the
\* running mutations, and a mutation runs under the fence it was admitted by.
THEOREM FenceSafety == Spec => []IInv
<1>1. Init => IInv
  <2> SUFFICES ASSUME Init PROVE IInv
    OBVIOUS
  <2>1. \A t \in Tasks : task[t].pc = "new"
    BY DEF Init, NewTask
  <2>2. \A t \in Tasks : ~Running(t) /\ ~Live(t)
    BY <2>1 DEF Running, Live
  <2> QED
    BY <2>2, InitTypeOK DEF IInv, GuardsHeld, OperationsOwnTheFence, Init
<1>2. IInv /\ [Next]_vars => IInv'
  BY NextPreserves
<1> QED
  BY <1>1, <1>2, PTL DEF Spec

\* A handoff never crosses an admitted mutation: the fence a mutation was
\* admitted under is in force until the mutation ends.
THEOREM OperationsFenced == Spec => []OperationsOwnTheFence
<1>1. IInv => OperationsOwnTheFence
  BY DEF IInv
<1> QED
  BY <1>1, FenceSafety, PTL

THEOREM TypesHold == Spec => []TypeOK
<1>1. IInv => TypeOK
  BY DEF IInv
<1> QED
  BY <1>1, FenceSafety, PTL

-----------------------------------------------------------------------------

\* A destination never goes back to an older term, token or revision, and a
\* retired token is never active again, whatever is installed in whatever order.
THEOREM FenceAdvances == Spec => FenceOnlyAdvances
<1> DEFINE Advances ==
      \A n \in Nodes :
        LET f == fence[n].proof
            g == fence'[n].proof
        IN fence[n].state # "none" =>
           /\ g.term >= f.term /\ g.token >= f.token /\ g.gen >= f.gen
           /\ fence'[n].state # "none"
           /\ fence[n].state = "retired" /\ fence'[n].state = "active" => g.token > f.token
<1>1. IInv /\ [Next]_vars => [Advances]_vars
  <2> SUFFICES ASSUME IInv, Next PROVE Advances
    OBVIOUS
  <2>1. fence \in [Nodes -> Fences]
    BY DEF IInv, TypeOK
  <2>2. \A n \in Nodes : fence[n].proof.term \in Nat /\ fence[n].proof.token \in Nat
                          /\ fence[n].proof.gen \in Nat
    BY <2>1 DEF Fences, Proofs
  <2>3. ASSUME NEW t \in Tasks, Update(t) PROVE Advances
    <3> DEFINE n == task[t].node
               p == task[t].proof
    <3>1. n \in Nodes /\ p \in Proofs
      BY <2>3, UpdateWrites
    <3>2. p.term \in Nat /\ p.token \in Nat /\ p.gen \in Nat
      BY <3>1 DEF Proofs
    <3>3. CASE fence' = fence
      BY <3>3, <2>2
    <3>4. CASE Retirable(n, p) /\ fence' = [fence EXCEPT ![n] = Retired(n, p)]
      BY <3>4, <2>1, <2>2, <3>1 DEF Retirable, Retired
    <3>5. CASE Installable(n, p) /\ fence' = [fence EXCEPT ![n] = Installed(n, p)]
      BY <3>5, <2>1, <2>2, <3>1, <3>2 DEF Installable, Installed
    <3> QED
      BY <2>3, <3>3, <3>4, <3>5, UpdateWrites DEF Retirable
  <2>4. CASE UNCHANGED fence
    BY <2>4, <2>2
  <2> QED
    BY <2>3, <2>4 DEF Next, Handler, ClockStep, AuthorityStep, Restart, Admit, Cancel, Finish,
                      Timeout, StartMutation, StartUpdate, StartManagedCancel, StartDirectCancel
<1> QED
  BY <1>1, FenceSafety, PTL DEF Spec, FenceOnlyAdvances

-----------------------------------------------------------------------------
(* The handover between nodes, in the setting the protocol is meant for.   *)

\* Clocks agree, leases are released after their fence is retired, and every
\* claim and renewal asks for the same ttl.
Setting == Synchronized /\ Graceful /\ \A a, b \in Ttls : a = b

HInv == IInv /\ HandoverInv

\* In that setting the authority's time is the clock that everyone reads.
LEMMA NowIsClock ==
  ASSUME HInv, NEW n \in Nodes, NEW m \in Nodes
  PROVE  Now(n) = clock[m] /\ Now(n) \in Nat /\ time <= Now(n) /\ time \in Nat
<1>1. clock[n] = clock[m] /\ time <= clock[n] /\ time \in Nat /\ clock[n] \in Nat
  BY DEF HInv, HandoverInv, ClocksAgree, IInv, TypeOK
<1> QED
  BY <1>1 DEF Now

\* Numbers in proofs, fences and the lease.
LEMMA HandoverTypes ==
  ASSUME HInv
  PROVE  /\ own.token \in Nat /\ own.gen \in Nat /\ own.lease \in Nat /\ own.updated \in Nat
         /\ time \in Nat /\ \A n \in Nodes : clock[n] \in Nat
         /\ \A p \in issued : p.token \in Nat /\ p.expires \in Nat /\ p \in Proofs
         /\ \A n \in Nodes : fence[n].proof.token \in Nat
         /\ \A a \in Ttls : a \in Nat /\ a > 0
  BY FenceConstants DEF HInv, IInv, TypeOK, Ownerships, Proofs, Fences

\* A grant comes after the end of every proof that was issued before.
LEMMA GrantHandover ==
  ASSUME HInv, NEW n \in Nodes, NEW m \in Nodes, NEW tm \in Nat, NEW ttl \in Ttls,
         Grant(m, tm, Now(n), Now(n) + ttl),
         issued' = issued \cup {ProofOf(own')},
         UNCHANGED <<clock, fence, task>>
  PROVE  HandoverInv'
<1>1. Now(n) \in Nat /\ time <= Now(n) /\ \A k \in Nodes : Now(n) = clock[k]
  BY NowIsClock
<1>2. /\ own'.owner = m /\ own'.token = own.token + 1 /\ own'.state = "active"
      /\ own'.lease = Now(n) + ttl /\ own'.updated = Now(n) /\ time' = Now(n)
      /\ own.state # "active" \/ own.lease <= Now(n)
  BY DEF Grant
<1> DEFINE q == ProofOf(own')
<1>3. q.owner = m /\ q.token = own.token + 1 /\ q.expires = Now(n) + ttl /\ q # NoProof
  BY <1>2, FenceConstants DEF ProofOf, NoProof
<1>4. ClocksAgree'
  BY <1>1, <1>2 DEF HInv, HandoverInv, ClocksAgree
<1>5. ProofsIssued'
  BY <1>3 DEF HInv, HandoverInv, ProofsIssued
<1>6. LeaseCovers'
  <2>1. own'.updated <= time' /\ own'.lease = own'.updated + ttl
    BY <1>1, <1>2
  <2>2. \A p \in issued : p.owner \in Nodes /\ p.token < own'.token
    BY <1>2, HandoverTypes DEF HInv, HandoverInv, LeaseCovers
  <2> HIDE DEF q
  <2>3. \A p \in issued' : p = q \/ p \in issued
    BY DEF q
  <2>4. own'.token \in Nat /\ own'.lease \in Nat
    BY <1>1, <1>2, HandoverTypes
  <2> QED
    BY <2>1, <2>2, <2>3, <2>4, <1>2, <1>3, HandoverTypes DEF LeaseCovers
<1>7. SupersededDead'
  <2> SUFFICES ASSUME NEW p \in issued', p.token < own'.token
               PROVE  \/ \A k \in Nodes : p.expires <= clock[k]
                      \/ fence[p.owner].proof.token > p.token
                      \/ fence[p.owner].proof.token = p.token /\ fence[p.owner].state = "retired"
    BY <1>2 DEF SupersededDead
  <2>1. p \in issued
    BY <1>2, <1>3, HandoverTypes
  <2>2. CASE p.token < own.token \/ own.state = "released"
    BY <2>1, <2>2 DEF HInv, HandoverInv, SupersededDead
  <2>3. CASE p.token = own.token /\ own.state = "active"
    <3>1. p.expires <= own.lease /\ own.lease <= Now(n)
      BY <2>1, <2>3, <1>2 DEF HInv, HandoverInv, LeaseCovers
    <3> QED
      BY <3>1, <2>1, <1>1, HandoverTypes
  <2>4. p.token = own.token \/ p.token < own.token
    BY <2>1, <1>2, HandoverTypes
  <2>5. own.state \in {"active", "released"}
    BY <2>1 DEF HInv, HandoverInv, LeaseCovers, IInv, TypeOK, Ownerships
  <2> QED
    BY <2>2, <2>3, <2>4, <2>5
<1> QED
  BY <1>4, <1>5, <1>6, <1>7 DEF HandoverInv


\* A renewal with the same ttl never shortens the lease.
LEMMA RenewHandover ==
  ASSUME HInv, Setting, NEW n \in Nodes, NEW tm \in Nat, NEW ttl \in Ttls,
         Renew(tm, Now(n), Now(n) + ttl),
         issued' = issued \cup {ProofOf(own')},
         UNCHANGED <<clock, fence, task>>
  PROVE  HandoverInv'
<1>1. Now(n) \in Nat /\ time <= Now(n) /\ \A k \in Nodes : Now(n) = clock[k]
  BY NowIsClock
<1>2. own.state = "active" /\ time' = Now(n)
  BY DEF Renew
<1>3. /\ own'.owner = own.owner /\ own'.token = own.token /\ own'.state = "active"
      /\ own'.lease = Now(n) + ttl /\ own'.updated = Now(n)
  <2>1. own' = [own EXCEPT !.term = tm, !.gen = own.gen + 1, !.lease = Now(n) + ttl,
                           !.updated = Now(n)]
    BY DEF Renew
  <2>2. own \in Ownerships
    BY DEF HInv, IInv, TypeOK
  <2> QED
    BY <2>1, <2>2, <1>2 DEF Ownerships
<1> DEFINE q == ProofOf(own')
<1>4. own.owner \in Nodes
  BY <1>2 DEF HInv, HandoverInv, ProofsIssued, LeaseCovers, ProofOf
<1>5. q.owner = own.owner /\ q.token = own.token /\ q.expires = Now(n) + ttl /\ q # NoProof
  BY <1>3, <1>4, FenceConstants DEF ProofOf, NoProof
<1>6. own.lease <= Now(n) + ttl
  <2> PICK a \in Ttls : own.lease = own.updated + a
    BY <1>2 DEF HInv, HandoverInv, LeaseCovers
  <2>1. own.updated <= time /\ a = ttl
    BY <1>2 DEF HInv, HandoverInv, LeaseCovers, Setting
  <2> QED
    BY <2>1, <1>1, HandoverTypes
<1>7. ClocksAgree'
  BY <1>1, <1>2 DEF HInv, HandoverInv, ClocksAgree
<1>8. ProofsIssued'
  BY <1>5 DEF HInv, HandoverInv, ProofsIssued
<1> HIDE DEF q
<1>9. \A p \in issued' : p = q \/ p \in issued
  BY DEF q
<1>10. LeaseCovers'
  <2>1. own'.updated <= time' /\ own'.lease = own'.updated + ttl
    BY <1>1, <1>2, <1>3
  <2>2. \A p \in issued : /\ p.owner \in Nodes /\ p.token <= own'.token
                          /\ p.token = own'.token => p.owner = own'.owner
                          /\ p.token = own'.token => p.expires <= own'.lease
    <3> SUFFICES ASSUME NEW p \in issued
                 PROVE  /\ p.owner \in Nodes /\ p.token <= own'.token
                        /\ p.token = own'.token => p.owner = own'.owner
                        /\ p.token = own'.token => p.expires <= own'.lease
      OBVIOUS
    <3>1. /\ p.owner \in Nodes /\ p.token <= own.token
          /\ p.token = own.token => p.owner = own.owner
          /\ p.token = own.token => p.expires <= own.lease
      BY <1>2 DEF HInv, HandoverInv, LeaseCovers
    <3>2. ttl \in Nat /\ own.lease \in Nat /\ p.expires \in Nat
      BY HandoverTypes
    <3> QED
      BY <3>1, <3>2, <1>1, <1>3, <1>6
  <2>3. own'.token \in Nat /\ own'.lease \in Nat
    BY <1>1, <1>3, HandoverTypes
  <2> QED
    BY <2>1, <2>2, <2>3, <1>3, <1>4, <1>5, <1>9 DEF LeaseCovers
<1>11. SupersededDead'
  <2>1. \A p \in issued' : p.token < own'.token => p \in issued /\ p.token < own.token
    BY <1>3, <1>5, <1>9, HandoverTypes
  <2> QED
    BY <2>1, <1>3 DEF HInv, HandoverInv, SupersededDead
<1> QED
  BY <1>7, <1>8, <1>10, <1>11 DEF HandoverInv

\* A release finds the fence of the lease retired.
LEMMA ReleaseHandover ==
  ASSUME HInv, RetiredByOwner, NEW n \in Nodes, NEW tm \in Nat,
         Release(tm, Now(n)),
         UNCHANGED <<issued, clock, fence, task>>
  PROVE  HandoverInv'
<1>1. Now(n) \in Nat /\ time <= Now(n) /\ \A k \in Nodes : Now(n) = clock[k]
  BY NowIsClock
<1>2. own.state = "active" /\ time' = Now(n)
  BY DEF Release
<1>3. own'.owner = own.owner /\ own'.token = own.token /\ own'.state = "released"
  <2>1. own' = [own EXCEPT !.term = tm, !.gen = own.gen + 1, !.state = "released",
                           !.lease = Now(n), !.updated = Now(n)]
    BY DEF Release
  <2>2. own \in Ownerships
    BY DEF HInv, IInv, TypeOK
  <2> QED
    BY <2>1, <2>2 DEF Ownerships
<1>4. ClocksAgree'
  BY <1>1, <1>2 DEF HInv, HandoverInv, ClocksAgree
<1>5. ProofsIssued'
  BY <1>3 DEF HInv, HandoverInv, ProofsIssued
<1>6. LeaseCovers'
  BY <1>3 DEF HInv, HandoverInv, LeaseCovers
<1>7. SupersededDead'
  <2> SUFFICES ASSUME NEW p \in issued
               PROVE  \/ \A k \in Nodes : p.expires <= clock[k]
                      \/ fence[p.owner].proof.token > p.token
                      \/ fence[p.owner].proof.token = p.token /\ fence[p.owner].state = "retired"
    BY DEF SupersededDead
  <2>1. CASE p.token < own.token
    BY <2>1 DEF HInv, HandoverInv, SupersededDead
  <2>2. CASE p.token = own.token
    BY <2>2 DEF HInv, HandoverInv, LeaseCovers, RetiredByOwner, ProofOf
  <2>3. p.token < own.token \/ p.token = own.token
    BY HandoverTypes DEF HInv, HandoverInv, LeaseCovers
  <2> QED
    BY <2>1, <2>2, <2>3
<1> QED
  BY <1>4, <1>5, <1>6, <1>7 DEF HandoverInv

LEMMA AuthorityHandover ==
  ASSUME HInv, Setting, AuthorityStep
  PROVE  HandoverInv'
<1>1. UNCHANGED <<clock, fence, task>>
  BY DEF AuthorityStep
<1> PICK n \in Nodes, tm \in 1..MaxTerm, ttl \in Ttls :
      \/ \E m \in Nodes : Grant(m, tm, Now(n), Now(n) + ttl)
      \/ Renew(tm, Now(n), Now(n) + ttl)
      \/ (Graceful => RetiredByOwner) /\ Release(tm, Now(n))
  BY DEF AuthorityStep
<1>2. tm \in Nat
  BY FenceConstants
<1>3. CASE \E m \in Nodes : Grant(m, tm, Now(n), Now(n) + ttl)
  <2> PICK m \in Nodes : Grant(m, tm, Now(n), Now(n) + ttl)
    BY <1>3
  <2>1. issued' = issued \cup {ProofOf(own')}
    BY DEF AuthorityStep, Grant
  <2> QED
    BY <2>1, <1>1, <1>2, GrantHandover
<1>4. CASE Renew(tm, Now(n), Now(n) + ttl)
  <2>1. own'.state = "active"
    <3>1. own \in Ownerships
      BY DEF HInv, IInv, TypeOK
    <3>2. own' = [own EXCEPT !.term = tm, !.gen = own.gen + 1, !.lease = Now(n) + ttl,
                             !.updated = Now(n)] /\ own.state = "active"
      BY <1>4 DEF Renew
    <3> QED
      BY <3>1, <3>2 DEF Ownerships
  <2>2. issued' = issued \cup {ProofOf(own')}
    BY <2>1 DEF AuthorityStep
  <2> QED
    BY <2>2, <1>1, <1>2, <1>4, RenewHandover
<1>5. CASE (Graceful => RetiredByOwner) /\ Release(tm, Now(n))
  <2>1. own'.state = "released"
    <3>1. own \in Ownerships
      BY DEF HInv, IInv, TypeOK
    <3>2. own' = [own EXCEPT !.term = tm, !.gen = own.gen + 1, !.state = "released",
                             !.lease = Now(n), !.updated = Now(n)]
      BY <1>5 DEF Release
    <3> QED
      BY <3>1, <3>2 DEF Ownerships
  <2>2. issued' = issued
    BY <2>1 DEF AuthorityStep
  <2> QED
    BY <2>2, <1>1, <1>2, <1>5, ReleaseHandover DEF Setting
<1> QED
  BY <1>3, <1>4, <1>5

LEMMA ClockHandover ==
  ASSUME HInv, Setting, ClockStep
  PROVE  HandoverInv'
<1>1. UNCHANGED <<own, time, issued, fence, task>>
  BY DEF ClockStep, authority
<1>2. PICK n \in Nodes : clock' = [m \in Nodes |-> clock[n] + 1]
  BY DEF ClockStep, Setting
<1>3. \A m \in Nodes : clock'[m] = clock[m] + 1 /\ clock[m] = clock[n] /\ clock[m] \in Nat
  BY <1>2, HandoverTypes DEF HInv, HandoverInv, ClocksAgree
<1>4. ClocksAgree'
  BY <1>1, <1>3, HandoverTypes DEF HInv, HandoverInv, ClocksAgree
<1>5. ProofsIssued' /\ LeaseCovers'
  BY <1>1 DEF HInv, HandoverInv, ProofsIssued, LeaseCovers
<1>6. SupersededDead'
  <2> SUFFICES ASSUME NEW p \in issued, p.token < own.token \/ own.state = "released"
               PROVE  \/ \A k \in Nodes : p.expires <= clock'[k]
                      \/ fence[p.owner].proof.token > p.token
                      \/ fence[p.owner].proof.token = p.token /\ fence[p.owner].state = "retired"
    BY <1>1 DEF SupersededDead
  <2>1. (\A k \in Nodes : p.expires <= clock[k]) => \A k \in Nodes : p.expires <= clock'[k]
    BY <1>3, HandoverTypes
  <2> QED
    BY <2>1 DEF HInv, HandoverInv, SupersededDead
<1> QED
  BY <1>4, <1>5, <1>6 DEF HandoverInv

\* Requests come and go, and time passes, under issued proofs.
LEMMA RequestHandover ==
  ASSUME HInv, UNCHANGED <<own, issued, clock, fence>>,
         time' = time \/ \E m \in Nodes : time' = Now(m),
         \A u \in Tasks : task'[u].proof \in issued \cup {NoProof}
  PROVE  HandoverInv'
<1>1. time <= time' /\ time' \in Nat /\ time \in Nat
  BY NowIsClock, HandoverTypes
<1>2. ClocksAgree'
  BY <1>1, NowIsClock DEF HInv, HandoverInv, ClocksAgree
<1>3. ProofsIssued'
  BY DEF HInv, HandoverInv, ProofsIssued
<1>4. LeaseCovers'
  BY <1>1, HandoverTypes DEF HInv, HandoverInv, LeaseCovers
<1>5. SupersededDead'
  BY DEF HInv, HandoverInv, SupersededDead
<1> QED
  BY <1>2, <1>3, <1>4, <1>5 DEF HandoverInv

\* A fence update only moves a node to a later token, or retires its own.
LEMMA UpdateHandover ==
  ASSUME HInv, NEW t \in Tasks, Update(t)
  PROVE  HandoverInv'
<1> DEFINE n == task[t].node
           p == task[t].proof
<1>1. IInv /\ n \in Nodes /\ p \in Proofs
  BY UpdateWrites DEF HInv
<1>2. UNCHANGED <<own, time, issued, clock>>
  BY DEF Update, authority
<1>3. fence \in [Nodes -> Fences] /\ task \in [Tasks -> Requests]
  BY <1>1 DEF IInv, TypeOK
<1>4. \A u \in Tasks : task'[u].proof \in issued \cup {NoProof}
  <2>1. PICK r \in {[task[t] EXCEPT !.pc = "cancelling"], DoneTask} :
          task' = [task EXCEPT ![t] = r]
    BY <1>3 DEF Update
  <2>2. r.proof \in issued \cup {NoProof}
    <3>1. DoneTask.proof = NoProof
      BY DEF DoneTask, NewTask
    <3>2. task[t] \in Requests /\ p \in issued \cup {NoProof}
      BY <1>3 DEF HInv, HandoverInv, ProofsIssued
    <3>3. [task[t] EXCEPT !.pc = "cancelling"].proof = p
      BY <3>2, PcType
    <3> QED
      BY <3>1, <3>2, <3>3
  <2> QED
    BY <1>3, <2>1, <2>2 DEF HInv, HandoverInv, ProofsIssued
<1>5. ClocksAgree' /\ LeaseCovers'
  BY <1>2 DEF HInv, HandoverInv, ClocksAgree, LeaseCovers
<1>6. CASE fence' = fence
  BY <1>2, <1>4, <1>6, RequestHandover
<1>7. CASE Retirable(n, p) /\ fence' = [fence EXCEPT ![n] = Retired(n, p)]
  <2>1. fence'[n].proof = fence[n].proof /\ fence'[n].state = "retired"
        /\ \A m \in Nodes : m # n => fence'[m] = fence[m]
    BY <1>1, <1>3, <1>7 DEF Retirable, Retired
  <2>2. ProofsIssued'
    BY <1>2, <1>4, <2>1 DEF HInv, HandoverInv, ProofsIssued
  <2>3. SupersededDead'
    BY <1>2, <2>1 DEF HInv, HandoverInv, SupersededDead, LeaseCovers
  <2> QED
    BY <1>5, <2>2, <2>3 DEF HandoverInv
<1>8. CASE Installable(n, p) /\ fence' = [fence EXCEPT ![n] = Installed(n, p)]
  <2>1. fence'[n].proof = p /\ fence'[n].state = "active"
        /\ \A m \in Nodes : m # n => fence'[m] = fence[m]
    BY <1>1, <1>3, <1>8 DEF Installed
  <2>2. p \in issued
    <3>1. p # NoProof
      BY <1>1, <1>8, FenceConstants DEF Installable, NoProof
    <3> QED
      BY <3>1 DEF HInv, HandoverInv, ProofsIssued
  <2>3. ProofsIssued'
    BY <1>2, <1>4, <2>1, <2>2 DEF HInv, HandoverInv, ProofsIssued
  <2>4. p.token \in Nat /\ fence[n].proof.token \in Nat
    BY <2>2, <1>1, HandoverTypes
  <2>5. fence[n].state = "none" => fence[n].proof.token = 0
    BY <1>1 DEF HInv, HandoverInv, ProofsIssued, NoProof
  <2>6. p.token >= fence[n].proof.token
        /\ (fence[n].state = "retired" => p.token > fence[n].proof.token)
    BY <1>8, <2>4, <2>5 DEF Installable
  <2>7. SupersededDead'
    <3> SUFFICES ASSUME NEW x \in issued, x.token < own.token \/ own.state = "released"
                 PROVE  \/ \A k \in Nodes : x.expires <= clock[k]
                        \/ fence'[x.owner].proof.token > x.token
                        \/ fence'[x.owner].proof.token = x.token
                             /\ fence'[x.owner].state = "retired"
      BY <1>2 DEF SupersededDead
    <3>1. x.owner \in Nodes /\ x.token \in Nat
      BY HandoverTypes DEF HInv, HandoverInv, LeaseCovers
    <3>2. \/ \A k \in Nodes : x.expires <= clock[k]
          \/ fence[x.owner].proof.token > x.token
          \/ fence[x.owner].proof.token = x.token /\ fence[x.owner].state = "retired"
      BY DEF HInv, HandoverInv, SupersededDead
    <3>3. CASE x.owner = n
      BY <3>1, <3>2, <3>3, <2>1, <2>4, <2>6
    <3>4. CASE x.owner # n
      BY <3>1, <3>2, <3>4, <2>1
    <3> QED
      BY <3>3, <3>4
  <2> QED
    BY <1>5, <2>3, <2>7 DEF HandoverInv
<1> QED
  BY <1>1, <1>6, <1>7, <1>8, UpdateWrites DEF Retirable

LEMMA StartHandover ==
  ASSUME HInv, NEW t \in Tasks, NEW r, r.proof \in issued \cup {NoProof},
         task' = [task EXCEPT ![t] = r],
         UNCHANGED <<own, issued, clock, fence>>,
         time' = time \/ \E m \in Nodes : time' = Now(m)
  PROVE  HandoverInv'
<1>1. \A u \in Tasks : task'[u].proof \in issued \cup {NoProof}
  BY DEF HInv, HandoverInv, ProofsIssued, IInv, TypeOK
<1> QED
  BY <1>1, RequestHandover

LEMMA HandlerHandover ==
  ASSUME HInv, NEW t \in Tasks, Admit(t) \/ Cancel(t) \/ Finish(t) \/ Timeout(t)
  PROVE  HandoverInv'
<1>1. UNCHANGED <<own, time, issued, clock, fence>>
  BY DEF Admit, Cancel, Finish, Timeout, authority
<1>2. task \in [Tasks -> Requests]
  BY DEF HInv, IInv, TypeOK
<1>3. DoneTask.proof = NoProof
  BY DEF DoneTask, NewTask
<1>4. \A u \in Tasks : task[u].proof \in issued \cup {NoProof}
  BY DEF HInv, HandoverInv, ProofsIssued
<1>5. \A u \in Tasks, pc \in {"running", "cancelled"} :
        [task[u] EXCEPT !.pc = pc].proof = task[u].proof
  BY <1>2, PcType
<1>6. \A u \in Tasks :
        \/ task'[u] = task[u] \/ task'[u] = DoneTask
        \/ task'[u] = [task[u] EXCEPT !.pc = "running"]
        \/ task'[u] = [task[u] EXCEPT !.pc = "cancelled"]
  BY <1>2 DEF Admit, Cancel, Finish, Timeout
<1>7. \A u \in Tasks : task'[u].proof \in issued \cup {NoProof}
  BY <1>3, <1>4, <1>5, <1>6
<1> QED
  BY <1>1, <1>7, RequestHandover

LEMMA ClientHandover ==
  ASSUME HInv, NEW t \in Tasks,
         \/ \E n \in Nodes : StartMutation(t, n) \/ StartUpdate(t, n)
         \/ \E s \in Tasks \ {t} : StartManagedCancel(t, s) \/ StartDirectCancel(t, s)
  PROVE  HandoverInv'
<1>1. ASSUME NEW n \in Nodes, StartMutation(t, n)
      PROVE  HandoverInv'
  <2> PICK kind \in Readers, p \in issued \cup {NoProof} :
        task' = [task EXCEPT ![t] = [kind |-> kind, node |-> n, proof |-> p,
                                     pc |-> "queued", target |-> "none"]]
    BY <1>1 DEF StartMutation
  <2>1. UNCHANGED <<own, time, issued, clock, fence>>
    BY <1>1 DEF StartMutation, authority
  <2> QED
    BY <2>1, StartHandover
<1>2. ASSUME NEW n \in Nodes, StartUpdate(t, n)
      PROVE  HandoverInv'
  <2> PICK kind \in {"install", "retire"}, p \in issued, m \in Nodes :
        /\ Pass(Now(m))
        /\ task' = [task EXCEPT ![t] = [kind |-> kind, node |-> n, proof |-> p,
                                        pc |-> "queued", target |-> "none"]]
    BY <1>2 DEF StartUpdate
  <2>1. UNCHANGED <<own, issued, clock, fence>> /\ time' = Now(m)
    BY <1>2 DEF StartUpdate, Pass
  <2> QED
    BY <2>1, StartHandover
<1>3. ASSUME NEW s \in Tasks \ {t}, StartManagedCancel(t, s)
      PROVE  HandoverInv'
  <2>1. UNCHANGED <<own, issued, clock, fence>> /\ \E m \in Nodes : time' = Now(m)
    BY <1>3 DEF StartManagedCancel, Pass
  <2>2. ProofOf(own) \in issued
    BY <1>3 DEF StartManagedCancel, HInv, HandoverInv, ProofsIssued
  <2>3. PICK pc \in {"cancelling", "queued"} :
          task' = [task EXCEPT ![t] = [kind |-> "cancel", node |-> task[s].node,
                                       proof |-> ProofOf(own), pc |-> pc, target |-> s]]
    BY <1>3, Zenon DEF StartManagedCancel
  <2> DEFINE r == [kind |-> "cancel", node |-> task[s].node, proof |-> ProofOf(own),
                   pc |-> pc, target |-> s]
  <2>4. r.proof \in issued \cup {NoProof} /\ task' = [task EXCEPT ![t] = r]
    BY <2>2, <2>3
  <2> HIDE DEF r
  <2> QED
    BY <2>1, <2>4, StartHandover
<1>4. ASSUME NEW s \in Tasks \ {t}, StartDirectCancel(t, s)
      PROVE  HandoverInv'
  <2> DEFINE r == [kind |-> "cancel", node |-> task[s].node, proof |-> task[s].proof,
                   pc |-> "cancelling", target |-> s]
  <2>1. task' = [task EXCEPT ![t] = r]
    BY <1>4 DEF StartDirectCancel
  <2>2. r.proof \in issued \cup {NoProof}
    BY DEF HInv, HandoverInv, ProofsIssued
  <2>3. UNCHANGED <<own, time, issued, clock, fence>>
    BY <1>4 DEF StartDirectCancel, authority
  <2> HIDE DEF r
  <2> QED
    BY <2>1, <2>2, <2>3, StartHandover
<1> QED
  BY <1>1, <1>2, <1>3, <1>4

LEMMA RestartHandover ==
  ASSUME HInv, NEW n \in Nodes, Restart(n)
  PROVE  HandoverInv'
<1>1. UNCHANGED <<own, time, issued, clock, fence>>
  BY DEF Restart, authority
<1>2. \A u \in Tasks : task'[u] = task[u] \/ task'[u] = DoneTask
  BY DEF Restart
<1>3. DoneTask.proof = NoProof
  BY DEF DoneTask, NewTask
<1>4. \A u \in Tasks : task'[u].proof \in issued \cup {NoProof}
  BY <1>2, <1>3 DEF HInv, HandoverInv, ProofsIssued
<1> QED
  BY <1>1, <1>4, RequestHandover

LEMMA NextHandover ==
  ASSUME HInv, Setting, [Next]_vars
  PROVE  HInv'
<1>1. IInv'
  BY NextPreserves DEF HInv
<1>2. CASE UNCHANGED vars
  <2>1. UNCHANGED <<own, time, issued, clock, fence, task>>
    BY <1>2 DEF vars
  <2>2. \A u \in Tasks : task'[u].proof \in issued \cup {NoProof}
    BY <2>1 DEF HInv, HandoverInv, ProofsIssued
  <2> QED
    BY <1>1, <2>1, <2>2, RequestHandover DEF HInv
<1>3. CASE ClockStep \/ AuthorityStep
  BY <1>1, <1>3, AuthorityHandover, ClockHandover DEF HInv
<1>4. ASSUME NEW n \in Nodes, Restart(n) PROVE HInv'
  BY <1>1, <1>4, RestartHandover DEF HInv
<1>5. ASSUME NEW t \in Tasks, Handler(t) \/ Timeout(t) PROVE HInv'
  BY <1>1, <1>5, HandlerHandover, UpdateHandover DEF HInv, Handler
<1>6. ASSUME NEW t \in Tasks,
             \/ \E n \in Nodes : StartMutation(t, n) \/ StartUpdate(t, n)
             \/ \E s \in Tasks \ {t} : StartManagedCancel(t, s) \/ StartDirectCancel(t, s)
      PROVE  HInv'
  BY <1>1, <1>6, ClientHandover DEF HInv
<1> QED
  BY <1>2, <1>3, <1>4, <1>5, <1>6 DEF Next

LEMMA InitHandover == Init => HInv
<1> SUFFICES ASSUME Init PROVE HInv
  OBVIOUS
<1>1. IInv
  <2>1. \A t \in Tasks : ~Running(t) /\ ~Live(t)
    BY DEF Init, NewTask, Running, Live
  <2> QED
    BY <2>1, InitTypeOK DEF IInv, GuardsHeld, OperationsOwnTheFence, Init
<1>2. HandoverInv
  BY DEF HandoverInv, ClocksAgree, ProofsIssued, LeaseCovers, SupersededDead, Init, LeaseInit,
         Unowned, NoFence, NewTask
<1> QED
  BY <1>1, <1>2 DEF HInv

\* For any nodes and requests, however leases are granted, renewed, released,
\* installed and retired: in the setting above, a mutation is admitted only
\* under the token that the authority honours at that moment.
THEOREM HandoverSafe == ASSUME Setting PROVE Spec => AdmittedUnderCurrentToken
<1> DEFINE Current ==
      \A t \in Tasks :
        task[t].pc = "queued" /\ task'[t].pc = "running" /\ task[t].kind # "unfenced"
          => own.state = "active" /\ own.token = task[t].proof.token
<1>1. HInv /\ [Next]_vars => HInv'
  BY NextHandover
<1>2. HInv /\ [Next]_vars => [Current]_vars
  <2> SUFFICES ASSUME HInv, Next, NEW t \in Tasks,
                      task[t].pc = "queued", task'[t].pc = "running",
                      task[t].kind # "unfenced"
               PROVE  own.state = "active" /\ own.token = task[t].proof.token
    OBVIOUS
  <2>1. task \in [Tasks -> Requests]
    BY DEF HInv, IInv, TypeOK
  <2>2. DoneTask.pc = "done"
    BY DoneType
  <2>3. Admit(t) /\ Admissible(t)
    <3>1. CASE ClockStep \/ AuthorityStep
      BY <3>1 DEF ClockStep, AuthorityStep
    <3>2. ASSUME NEW n \in Nodes, Restart(n) PROVE FALSE
      BY <3>2, <2>2 DEF Restart
    <3>3. ASSUME NEW u \in Tasks, Admit(u) PROVE Admit(t) /\ Admissible(t)
      BY <3>3, <2>1, <2>2 DEF Admit
    <3>4. ASSUME NEW u \in Tasks, Finish(u) \/ Timeout(u) PROVE FALSE
      BY <3>4, <2>1, <2>2 DEF Finish, Timeout
    <3>5. ASSUME NEW u \in Tasks, Cancel(u) PROVE FALSE
      BY <3>5, <2>1, <2>2 DEF Cancel
    <3>6. ASSUME NEW u \in Tasks, Update(u) PROVE FALSE
      <4>1. PICK r \in {[task[u] EXCEPT !.pc = "cancelling"], DoneTask} :
              task' = [task EXCEPT ![u] = r]
        BY <3>6, <2>1 DEF Update
      <4>2. r.pc # "running"
        BY <2>1, <2>2, PcType
      <4> QED
        BY <4>1, <4>2, <2>1
    <3>7. ASSUME NEW u \in Tasks, NEW n \in Nodes, StartMutation(u, n) \/ StartUpdate(u, n)
          PROVE  FALSE
      BY <3>7, <2>1 DEF StartMutation, StartUpdate
    <3>8. ASSUME NEW u \in Tasks, NEW s \in Tasks \ {u},
                 StartManagedCancel(u, s) \/ StartDirectCancel(u, s)
          PROVE  FALSE
      BY <3>8, <2>1 DEF StartManagedCancel, StartDirectCancel
    <3> QED
      BY <3>1, <3>2, <3>3, <3>4, <3>5, <3>6, <3>7, <3>8 DEF Next, Handler
  <2> DEFINE n == task[t].node
             p == task[t].proof
  <2>4. fence[n].state = "active" /\ fence[n].proof = p /\ p.owner = n /\ clock[n] < p.expires
    BY <2>3 DEF Admissible, Verifies
  <2>5. n \in Nodes
    BY DEF HInv, IInv, GuardsHeld, Live
  <2>6. p \in issued
    BY <2>4, <2>5 DEF HInv, HandoverInv, ProofsIssued
  <2>7. p.token \in Nat /\ own.token \in Nat /\ p.expires \in Nat /\ clock[n] \in Nat
    BY <2>5, <2>6, HandoverTypes
  <2>8. ~(p.token < own.token \/ own.state = "released")
    BY <2>4, <2>5, <2>6, <2>7 DEF HInv, HandoverInv, SupersededDead
  <2>9. p.token <= own.token /\ own.state # "none"
    BY <2>6 DEF HInv, HandoverInv, LeaseCovers
  <2>10. own.state \in {"none", "active", "released"}
    BY DEF HInv, IInv, TypeOK, Ownerships
  <2> QED
    BY <2>7, <2>8, <2>9, <2>10
<1> QED
  BY <1>1, <1>2, InitHandover, PTL DEF Spec, AdmittedUnderCurrentToken

=============================================================================
