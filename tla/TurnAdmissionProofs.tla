------------------------- MODULE TurnAdmissionProofs -------------------------
(***************************************************************************)
(* For every set of agents, number of slots, queue length and starvation   *)
(* threshold: the slot counter is exact and bounded, a turn is registered  *)
(* exactly while it waits, virtual runtime is never taken back, and a turn *)
(* that enters on an outdated rank still enters in order.                  *)
(***************************************************************************)
EXTENDS TurnAdmission, FiniteSetTheorems, SequenceTheorems, WellFoundedInduction, TLAPS

\* A nonempty set of naturals has the minimum that Iterator::min returns.
LEMMA MinNat ==
  ASSUME NEW S \in SUBSET Nat, S # {}
  PROVE  Min(S) \in S /\ \A y \in S : Min(S) <= y
<1> DEFINE R == {ss \in Nat \X Nat : ss[1] < ss[2]}
<1>1. IsWellFoundedOn(R, Nat)
  BY NatLessThanWellFounded DEF OpToRel
<1> HIDE DEF R
<1>2. PICK x \in S : \A y \in S : ~(<<y, x>> \in R)
  BY <1>1, WFMin
<1>3. \A y \in S : x <= y
  <2> TAKE y \in S
  <2>1. x \in Nat /\ y \in Nat
    OBVIOUS
  <2>2. y < x => <<y, x>> \in R
    BY <2>1 DEF R
  <2> QED BY <2>1, <2>2, <1>2
<1> QED BY <1>3 DEF Min

\* What Vec::remove leaves: the elements before the hole stay where they are,
\* those behind it move up by one.
LEMMA RemoveAtElements ==
  ASSUME NEW S, NEW s \in Seq(S), NEW i \in 1..Len(s)
  PROVE  /\ RemoveAt(s, i) \in Seq(S)
         /\ Len(RemoveAt(s, i)) = Len(s) - 1
         /\ \A j \in 1..(Len(s) - 1) :
              RemoveAt(s, i)[j] = IF j < i THEN s[j] ELSE s[j + 1]
<1> DEFINE a == SubSeq(s, 1, i - 1)
           b == SubSeq(s, i + 1, Len(s))
<1>1. Len(s) \in Nat /\ \A k \in 1..Len(s) : s[k] \in S
  BY LenProperties
<1>2. /\ a \in Seq(S) /\ Len(a) = i - 1
      /\ \A k \in 1..(i - 1) : a[k] = s[k]
  BY <1>1, SubSeqProperties
<1>3. /\ b \in Seq(S) /\ Len(b) = Len(s) - i
      /\ \A k \in 1..(Len(s) - i) : b[k] = s[i + k]
  <2>1. \A k \in (i + 1)..Len(s) : s[k] \in S
    BY <1>1
  <2>2. /\ b \in Seq(S)
        /\ Len(b) = IF i + 1 <= Len(s) THEN Len(s) - (i + 1) + 1 ELSE 0
        /\ \A k \in 1..(Len(s) - (i + 1) + 1) : b[k] = s[i + 1 + k - 1]
    BY <1>1, <2>1, SubSeqProperties
  <2> QED BY <1>1, <2>2
<1> HIDE DEF a, b
<1>4. /\ a \o b \in Seq(S) /\ Len(a \o b) = Len(s) - 1
      /\ \A k \in 1..(Len(s) - 1) :
           (a \o b)[k] = IF k <= i - 1 THEN a[k] ELSE b[k - (i - 1)]
  <2>1. /\ a \o b \in Seq(S) /\ Len(a \o b) = Len(a) + Len(b)
        /\ \A k \in 1..(Len(a) + Len(b)) :
             (a \o b)[k] = IF k <= Len(a) THEN a[k] ELSE b[k - Len(a)]
    BY <1>2, <1>3, ConcatProperties
  <2>2. Len(a) = i - 1 /\ Len(a) + Len(b) = Len(s) - 1
    BY <1>1, <1>2, <1>3
  <2> QED BY <2>1, <2>2
<1>5. \A k \in 1..(Len(s) - 1) : (a \o b)[k] = IF k < i THEN s[k] ELSE s[k + 1]
  <2> TAKE k \in 1..(Len(s) - 1)
  <2>1. CASE k < i
    <3>1. k \in 1..(i - 1) /\ k <= i - 1
      BY <2>1, <1>1
    <3> QED BY <3>1, <2>1, <1>2, <1>4
  <2>2. CASE ~(k < i)
    <3>1. ~(k <= i - 1) /\ k - (i - 1) \in 1..(Len(s) - i) /\ i + (k - (i - 1)) = k + 1
      BY <2>2, <1>1
    <3>2. (a \o b)[k] = b[k - (i - 1)]
      BY <3>1, <1>4
    <3>3. b[k - (i - 1)] = s[k + 1]
      BY <3>1, <1>3
    <3> QED BY <2>2, <3>2, <3>3
  <2> QED BY <2>1, <2>2
<1> QED BY <1>4, <1>5 DEF RemoveAt, a, b

\* No element occurs twice.
Distinct(s) == \A i, j \in DOMAIN s : s[i] = s[j] => i = j

\* Two elements of t are in the order that they have in s, where neither of
\* them is at position p.
OrderedAs(t, s, p) ==
  \A j \in DOMAIN t : \A i \in 1..(j - 1) :
    \E l \in DOMAIN s : \E k \in 1..(l - 1) :
      l # p /\ k # p /\ t[j] = s[l] /\ t[i] = s[k]

\* Removing one of several distinct elements removes that element only and
\* keeps the order of the rest.
LEMMA RemovalFacts ==
  ASSUME NEW S, NEW s \in Seq(S), NEW p \in 1..Len(s), Distinct(s),
         NEW t, t = RemoveAt(s, p)
  PROVE  /\ t \in Seq(S) /\ Len(t) = Len(s) - 1
         /\ Distinct(t) /\ OrderedAs(t, s, p)
         /\ Range(t) = Range(s) \ {s[p]}
<1> DEFINE old(j) == IF j < p THEN j ELSE j + 1
<1>1. Len(s) \in Nat /\ DOMAIN s = 1..Len(s)
  BY LenProperties
<1>2. /\ t \in Seq(S) /\ Len(t) = Len(s) - 1
      /\ \A j \in 1..(Len(s) - 1) : t[j] = IF j < p THEN s[j] ELSE s[j + 1]
  BY RemoveAtElements
<1>3. DOMAIN t = 1..(Len(s) - 1)
  BY <1>2, LenProperties
<1>4. \A j \in DOMAIN t : old(j) \in DOMAIN s /\ old(j) # p /\ t[j] = s[old(j)]
  BY <1>1, <1>2, <1>3
<1>5. Distinct(t)
  <2> SUFFICES ASSUME NEW i \in DOMAIN t, NEW j \in DOMAIN t, t[i] = t[j] PROVE i = j
    BY DEF Distinct
  <2>1. old(i) = old(j)
    BY <1>4 DEF Distinct
  <2> QED BY <2>1, <1>1, <1>3
<1>6. Range(t) = Range(s) \ {s[p]}
  <2>1. ASSUME NEW x \in Range(t) PROVE x \in Range(s) \ {s[p]}
    <3>1. PICK j \in DOMAIN t : t[j] = x
      BY DEF Range
    <3>2. old(j) \in DOMAIN s /\ old(j) # p /\ x = s[old(j)]
      BY <1>4, <3>1
    <3> HIDE DEF old
    <3> QED BY <3>2, <1>1 DEF Range, Distinct
  <2>2. ASSUME NEW x \in Range(s), x # s[p] PROVE x \in Range(t)
    <3>1. PICK k \in DOMAIN s : s[k] = x
      BY DEF Range
    <3>2. PICK j \in DOMAIN t : t[j] = x
      <4>1. CASE k < p
        <5>1. k \in DOMAIN t /\ t[k] = x
          BY <4>1, <3>1, <1>1, <1>2, <1>3
        <5> QED BY <5>1
      <4>2. CASE ~(k < p)
        <5>1. k # p
          BY <3>1, <2>2
        <5>2. k - 1 \in DOMAIN t /\ ~(k - 1 < p) /\ (k - 1) + 1 = k
          BY <4>2, <5>1, <1>1, <1>3
        <5>3. t[k - 1] = x
          BY <5>2, <1>2, <1>3, <3>1
        <5> QED BY <5>2, <5>3
      <4> QED BY <4>1, <4>2
    <3> QED BY <3>2 DEF Range
  <2> QED BY <2>1, <2>2
<1>7. ASSUME NEW j \in DOMAIN t, NEW i \in 1..(j - 1)
      PROVE  \E l \in DOMAIN s : \E k \in 1..(l - 1) :
               l # p /\ k # p /\ t[j] = s[l] /\ t[i] = s[k]
  <2>1. i \in DOMAIN t
    BY <1>3, <1>1
  <2>2. old(i) \in 1..(old(j) - 1)
    BY <1>1, <1>3
  <2>3. /\ old(j) \in DOMAIN s /\ old(j) # p /\ old(i) # p
        /\ t[j] = s[old(j)] /\ t[i] = s[old(i)]
    BY <1>4, <2>1
  <2> HIDE DEF old
  <2> QED BY <2>2, <2>3
<1> QED BY <1>2, <1>5, <1>6, <1>7 DEF OrderedAs

\* The queue is a sequence of agents, and who is before a waiter waits too.
LEMMA QueueShape ==
  ASSUME TypeOK
  PROVE  /\ DOMAIN waiters = 1..Len(waiters) /\ Len(waiters) \in Nat
         /\ \A j \in DOMAIN waiters : waiters[j] \in Agents /\ waiters[j] \in Waiting
         /\ \A j \in DOMAIN waiters : \A i \in 1..(j - 1) : i \in DOMAIN waiters
<1>1. DOMAIN waiters = 1..Len(waiters) /\ Len(waiters) \in Nat
  BY DEF TypeOK
<1>2. \A j \in DOMAIN waiters : waiters[j] \in Agents /\ waiters[j] \in Waiting
  BY DEF TypeOK, Waiting, Range
<1> QED BY <1>1, <1>2

\* Where a registered turn stands in the queue.
LEMMA PositionOf ==
  ASSUME TypeOK, NoGhostWaiters, NEW a \in Waiting
  PROVE  Position(a) \in 1..Len(waiters) /\ waiters[Position(a)] = a
<1>1. PICK i \in DOMAIN waiters : waiters[i] = a
  BY DEF Waiting, Range
<1>2. DOMAIN waiters = 1..Len(waiters)
  BY DEF TypeOK
<1> QED BY <1>1, <1>2 DEF Position

\* Every weight of the table is positive.
LEMMA WeightsPositive == \A n \in -20..19 : NiceToWeight(n) \in Nat \ {0}
  BY DEF NiceToWeight, Weights

LEMMA DivisionNat == \A x \in Nat : \A w \in Nat \ {0} : x \div w \in Nat
  OBVIOUS

\* What account_tokens does to an entry: the agent's own virtual runtime
\* never falls, the others' stays, and the floor remains a natural number.
LEMMA AccountTokensFacts ==
  ASSUME TypeOK, NEW a \in Agents, NEW t \in Nat, AccountTokens(a, t)
  PROVE  /\ vruntime' \in [Agents -> Nat] /\ min_vruntime' \in Nat
         /\ \A b \in Agents : vruntime'[b] >= vruntime[b]
         /\ \A b \in Agents \ {a} : vruntime'[b] = vruntime[b]
<1> DEFINE v == vruntime[a] + (t * 1024) \div NiceToWeight(nice[a])
           others == {vruntime[b] : b \in runnable \ {a}}
<1>1. CASE a \in runnable
  <2>1. NiceToWeight(nice[a]) \in Nat \ {0}
    BY WeightsPositive, TurnConstants DEF TypeOK
  <2>2. (t * 1024) \div NiceToWeight(nice[a]) \in Nat
    BY <2>1, DivisionNat
  <2>3. v \in Nat /\ v >= vruntime[a]
    BY <2>2 DEF TypeOK
  <2>4. /\ vruntime' = [vruntime EXCEPT ![a] = v]
        /\ \/ min_vruntime' = min_vruntime \/ min_vruntime' = v
           \/ others # {} /\ min_vruntime' = Min(others)
    <3>1. vruntime' = [vruntime EXCEPT ![a] = v]
      BY <1>1 DEF AccountTokens
    <3>2. min_vruntime' = IF v <= min_vruntime THEN min_vruntime
                          ELSE IF others = {} THEN v ELSE Min(others)
      BY <1>1 DEF AccountTokens
    <3> HIDE DEF v, others
    <3> QED BY <3>1, <3>2
  <2>5. others \in SUBSET Nat
    BY DEF TypeOK
  <2> HIDE DEF v, others
  <2>6. others # {} => Min(others) \in Nat
    BY <2>5, MinNat
  <2>7. vruntime' \in [Agents -> Nat] /\ min_vruntime' \in Nat
    BY <2>3, <2>4, <2>6 DEF TypeOK
  <2> QED BY <2>3, <2>4, <2>7 DEF TypeOK
<1>2. CASE a \notin runnable
  BY <1>2 DEF AccountTokens, TypeOK
<1> QED BY <1>1, <1>2

\* A step that changes neither the counter nor who holds a slot keeps the
\* accounting.
LEMMA SameHolding ==
  ASSUME IInv, Holding' = Holding, running' = running
  PROVE  IsFiniteSet(Holding)' /\ SlotAccounting'
  BY DEF IInv, SlotAccounting

LEMMA InitIInv == Init => IInv
<1> SUFFICES ASSUME Init PROVE IInv
  OBVIOUS
<1>1. Holding = {}
  BY DEF Init, Holding
<1>2. Waiting = {} /\ waiters = <<>>
  BY DEF Init, Waiting, Range
<1>3. IsFiniteSet(Holding) /\ SlotAccounting
  BY <1>1, FS_EmptySet, TurnConstants DEF Init, SlotAccounting
<1>4. TypeOK
  BY TurnConstants DEF Init, TypeOK
<1>5. NoGhostWaiters
  BY <1>2, TurnConstants DEF Init, NoGhostWaiters
<1> QED BY <1>2, <1>3, <1>4, <1>5 DEF Init, IInv, AgesOrdered, SnapshotsCover,
         LateChargesOnly, StaleRankSound

LEMMA EnqueueIInv == ASSUME IInv, NEW a \in Agents, Enqueue(a) PROVE IInv'
<1>1. TypeOK' /\ NoGhostWaiters' /\ AgesOrdered' /\ SnapshotsCover'
  BY DEF IInv, TypeOK, NoGhostWaiters, AgesOrdered, SnapshotsCover, Waiting,
     Enqueue, admission
<1>2. Holding' = Holding /\ running' = running
  BY DEF Holding, Enqueue, admission
<1>3. LateChargesOnly'
  BY DEF IInv, LateChargesOnly, Waiting, Enqueue, admission
<1>4. StaleRankSound'
  <2>1. \A i \in DOMAIN waiters : waiters[i] # a /\ waiters[i] \in Agents
    BY DEF IInv, TypeOK, LateChargesOnly, Waiting, Range, Enqueue
  <2>2. \A i \in DOMAIN waiters : vruntime'[waiters[i]] = vruntime[waiters[i]]
    BY <2>1 DEF IInv, TypeOK, Enqueue
  <2>3. \A j \in DOMAIN waiters : \A i \in 1..(j - 1) : i \in DOMAIN waiters
    BY QueueShape DEF IInv
  <2> QED BY <2>1, <2>2, <2>3 DEF IInv, StaleRankSound, Enqueue, admission
<1> QED BY <1>1, <1>2, <1>3, <1>4, SameHolding DEF IInv

LEMMA DequeueIInv == ASSUME IInv, NEW a \in Agents, Dequeue(a) PROVE IInv'
<1>1. TypeOK' /\ NoGhostWaiters' /\ AgesOrdered' /\ SnapshotsCover'
  BY TurnConstants DEF IInv, TypeOK, NoGhostWaiters, AgesOrdered, SnapshotsCover,
     Waiting, Dequeue, admission
<1>2. Holding' = Holding /\ running' = running
  BY DEF Holding, Dequeue, admission
<1>3. LateChargesOnly'
  BY DEF IInv, LateChargesOnly, Waiting, Dequeue, admission
<1>4. StaleRankSound'
  <2>1. \A j \in DOMAIN waiters : \A i \in 1..(j - 1) :
          waiters[i] \in Agents /\ waiters[j] \in Agents
    BY QueueShape DEF IInv
  <2>2. \A b \in Agents : /\ vruntime[b] \in Nat
                          /\ vruntime'[b] = IF b = a THEN 0 ELSE vruntime[b]
    BY DEF IInv, TypeOK, Dequeue
  <2> QED BY <2>1, <2>2 DEF IInv, StaleRankSound, Dequeue, admission
<1> QED BY <1>1, <1>2, <1>3, <1>4, SameHolding DEF IInv

LEMMA UpdateNiceIInv == ASSUME IInv, NEW a \in Agents, UpdateNice(a) PROVE IInv'
<1>1. TypeOK' /\ NoGhostWaiters' /\ AgesOrdered' /\ SnapshotsCover'
  BY DEF IInv, TypeOK, NoGhostWaiters, AgesOrdered, SnapshotsCover, Waiting,
     UpdateNice, admission
<1>2. Holding' = Holding /\ running' = running
  BY DEF Holding, UpdateNice, admission
<1>3. LateChargesOnly' /\ StaleRankSound'
  BY DEF IInv, LateChargesOnly, StaleRankSound, Waiting, UpdateNice, admission
<1> QED BY <1>1, <1>2, <1>3, SameHolding DEF IInv

\* Charging keeps the order that outdated ranks rely on: an agent that is not
\* resumed is never charged while it waits.
LEMMA ChargeKeepsRanks ==
  ASSUME IInv, NEW a \in Agents, a \notin Waiting \/ a \in Resumers,
         \A b \in Agents : vruntime'[b] >= vruntime[b],
         \A b \in Agents \ {a} : vruntime'[b] = vruntime[b],
         vruntime' \in [Agents -> Nat],
         UNCHANGED <<runnable, waiters>>,
         \A j \in DOMAIN waiters : pc'[waiters[j]] = pc[waiters[j]]
  PROVE  StaleRankSound'
<1> SUFFICES ASSUME NEW j \in DOMAIN waiters, waiters[j] \notin Resumers,
                    pc[waiters[j]] = "recheck", NEW i \in 1..(j - 1),
                    waiters[i] \in runnable
             PROVE  vruntime'[waiters[j]] <= vruntime'[waiters[i]]
  BY DEF StaleRankSound
<1>1. waiters[j] \in Agents /\ waiters[i] \in Agents /\ waiters[j] \in Waiting
  BY QueueShape DEF IInv
<1>2. vruntime'[waiters[j]] = vruntime[waiters[j]]
  BY <1>1
<1>3. vruntime[waiters[j]] <= vruntime[waiters[i]]
  BY DEF IInv, StaleRankSound
<1>4. vruntime'[waiters[i]] >= vruntime[waiters[i]]
  BY <1>1
<1>5. /\ vruntime[waiters[j]] \in Nat /\ vruntime[waiters[i]] \in Nat
      /\ vruntime'[waiters[i]] \in Nat
  BY <1>1 DEF IInv, TypeOK
<1> QED BY <1>2, <1>3, <1>4, <1>5

LEMMA ChargeIInv == ASSUME IInv, NEW a \in Agents, Charge(a) PROVE IInv'
<1>1. /\ pc[a] = "running" /\ pc' = [pc EXCEPT ![a] = "charged"]
      /\ UNCHANGED <<runnable, stopped, nice, running, waiters, age, snapshot, owed>>
  BY DEF Charge, admission
<1>2. PICK t \in Tokens : AccountTokens(a, t)
  BY DEF Charge
<1>3. /\ vruntime' \in [Agents -> Nat] /\ min_vruntime' \in Nat
      /\ \A b \in Agents : vruntime'[b] >= vruntime[b]
      /\ \A b \in Agents \ {a} : vruntime'[b] = vruntime[b]
  BY <1>2, AccountTokensFacts, TurnConstants DEF IInv
<1>4. a \notin Waiting /\ Waiting' = Waiting
  BY <1>1 DEF IInv, NoGhostWaiters, Waiting
<1>5. TypeOK'
  BY <1>1, <1>3 DEF IInv, TypeOK
<1>6. NoGhostWaiters' /\ AgesOrdered' /\ LateChargesOnly'
  BY <1>1, <1>4 DEF IInv, TypeOK, NoGhostWaiters, AgesOrdered, LateChargesOnly
<1>7. \A j \in DOMAIN waiters : pc'[waiters[j]] = pc[waiters[j]]
  BY <1>1, <1>4 DEF IInv, TypeOK, Waiting, Range
<1>8. SnapshotsCover'
  BY <1>1, <1>7 DEF IInv, SnapshotsCover
<1>9. StaleRankSound'
  BY <1>1, <1>3, <1>4, <1>7, ChargeKeepsRanks
<1>10. Holding' = Holding
  BY <1>1 DEF Holding, IInv, TypeOK
<1> QED BY <1>1, <1>5, <1>6, <1>8, <1>9, <1>10, SameHolding DEF IInv

LEMMA ChargeResumedIInv == ASSUME IInv, NEW a \in Agents, ChargeResumed(a) PROVE IInv'
<1>1. /\ owed[a] > 0 /\ owed' = [owed EXCEPT ![a] = 0] /\ AccountTokens(a, owed[a])
      /\ UNCHANGED <<runnable, stopped, nice, running, waiters, age, pc, snapshot>>
  BY DEF ChargeResumed, admission
<1>2. a \in Resumers
  BY <1>1 DEF IInv, LateChargesOnly
<1>3. /\ vruntime' \in [Agents -> Nat] /\ min_vruntime' \in Nat
      /\ \A b \in Agents : vruntime'[b] >= vruntime[b]
      /\ \A b \in Agents \ {a} : vruntime'[b] = vruntime[b]
  BY <1>1, AccountTokensFacts DEF IInv, TypeOK
<1>4. TypeOK' /\ Waiting' = Waiting
  BY <1>1, <1>3 DEF IInv, TypeOK, Waiting
<1>5. NoGhostWaiters' /\ AgesOrdered' /\ LateChargesOnly' /\ SnapshotsCover'
  BY <1>1, <1>4 DEF IInv, TypeOK, NoGhostWaiters, AgesOrdered, LateChargesOnly,
     SnapshotsCover
<1>6. StaleRankSound'
  BY <1>1, <1>2, <1>3, ChargeKeepsRanks
<1>7. Holding' = Holding
  BY <1>1 DEF Holding
<1> QED BY <1>1, <1>4, <1>5, <1>6, <1>7, SameHolding DEF IInv

LEMMA RegisterIInv == ASSUME IInv, NEW a \in Agents, Register(a) PROVE IInv'
<1>1. /\ pc[a] = "idle" /\ a \in runnable /\ Len(waiters) < MaxWaiters
      /\ waiters' = Append(waiters, a) /\ pc' = [pc EXCEPT ![a] = "loop"]
      /\ UNCHANGED <<runnable, stopped, vruntime, nice, min_vruntime, running, age,
                     snapshot, owed>>
  BY DEF Register, cfs
<1>2. /\ waiters' \in Seq(Agents) /\ Len(waiters') = Len(waiters) + 1
      /\ DOMAIN waiters' = 1..(Len(waiters) + 1)
      /\ \A i \in 1..Len(waiters) : waiters'[i] = waiters[i]
      /\ waiters'[Len(waiters) + 1] = a
  <2>1. waiters \in Seq(Agents)
    BY DEF IInv, TypeOK
  <2> QED BY <1>1, <2>1, AppendProperties
<1>3. /\ DOMAIN waiters = 1..Len(waiters) /\ Len(waiters) \in Nat
      /\ \A j \in DOMAIN waiters : waiters[j] \in Agents /\ waiters[j] \in Waiting
      /\ \A j \in DOMAIN waiters : \A i \in 1..(j - 1) : i \in DOMAIN waiters
  BY QueueShape DEF IInv
<1>4. a \notin Waiting /\ \A i \in DOMAIN waiters : waiters[i] # a
  BY <1>1, <1>3 DEF IInv, NoGhostWaiters
<1>5. Waiting' = Waiting \cup {a}
  <2>1. \A x \in Waiting' : x \in Waiting \cup {a}
    BY <1>2, <1>3 DEF Waiting, Range
  <2>2. \A x \in Waiting \cup {a} : x \in Waiting'
    BY <1>2, <1>3 DEF Waiting, Range
  <2> QED BY <2>1, <2>2
<1>6. TypeOK'
  BY <1>1, <1>2 DEF IInv, TypeOK
<1>7. NoGhostWaiters'
  <2>1. \A i, j \in DOMAIN waiters' : waiters'[i] = waiters'[j] => i = j
    BY <1>2, <1>3, <1>4 DEF IInv, NoGhostWaiters
  <2>2. \A b \in Agents : b \in Waiting' <=> pc'[b] \in {"loop", "rank", "recheck", "wait"}
    BY <1>1, <1>5 DEF IInv, NoGhostWaiters, TypeOK
  <2>3. Len(waiters') <= MaxWaiters
    BY <1>1, <1>2, <1>3, TurnConstants
  <2> QED BY <2>1, <2>2, <2>3 DEF NoGhostWaiters
\* The waiters before an old waiter are the same; the new one has just come.
<1>8. \A j \in DOMAIN waiters' : \/ /\ j \in DOMAIN waiters /\ waiters'[j] = waiters[j]
                                    /\ pc'[waiters[j]] = pc[waiters[j]]
                                 \/ /\ waiters'[j] = a /\ pc'[a] = "loop"
  <2>1. pc'[a] = "loop" /\ \A b \in Agents \ {a} : pc'[b] = pc[b]
    BY <1>1 DEF IInv, TypeOK
  <2> QED BY <1>2, <1>3, <1>4, <2>1
<1>9. \A j \in DOMAIN waiters' : \A i \in 1..(j - 1) :
        i \in DOMAIN waiters /\ waiters'[i] = waiters[i]
  BY <1>2, <1>3
<1>10. AgesOrdered'
  <2>1. age[a] = 0
    BY <1>4 DEF IInv, AgesOrdered
  <2>2. ASSUME NEW j \in DOMAIN waiters', NEW i \in 1..(j - 1)
        PROVE  age[waiters'[i]] >= age[waiters'[j]]
    <3>1. /\ i \in DOMAIN waiters /\ waiters'[i] = waiters[i]
          /\ age[waiters[i]] \in 0..Threshold
      BY <1>3, <1>9 DEF IInv, TypeOK
    <3>2. CASE j \in DOMAIN waiters /\ waiters'[j] = waiters[j]
      BY <3>1, <3>2 DEF IInv, AgesOrdered
    <3>3. CASE waiters'[j] = a
      BY <2>1, <3>1, <3>3, TurnConstants
    <3> QED BY <1>8, <3>2, <3>3
  <2> QED BY <1>1, <1>5, <2>2 DEF IInv, AgesOrdered
<1>11. SnapshotsCover'
  BY <1>1, <1>8, <1>9 DEF IInv, SnapshotsCover
<1>12. LateChargesOnly'
  BY <1>1, <1>5 DEF IInv, LateChargesOnly
<1>13. StaleRankSound'
  BY <1>1, <1>8, <1>9 DEF IInv, StaleRankSound
<1>14. Holding' = Holding
  BY <1>1 DEF Holding, IInv, TypeOK
<1> QED BY <1>1, <1>6, <1>7, <1>10, <1>11, <1>12, <1>13, <1>14, SameHolding DEF IInv

\* Steps of a waiter inside the loop leave the queue, its order and the
\* slots as they are.
LEMMA InsideLoop ==
  ASSUME IInv, NEW a \in Agents, NEW to,
         pc[a] \in {"loop", "rank", "recheck", "wait"},
         to \in {"loop", "rank", "recheck", "wait"},
         pc' = [pc EXCEPT ![a] = to], UNCHANGED <<cfs, admission, owed>>,
         snapshot' \in [Agents -> Seq(Agents)]
  PROVE  /\ TypeOK' /\ NoGhostWaiters' /\ AgesOrdered' /\ LateChargesOnly'
         /\ IsFiniteSet(Holding)' /\ SlotAccounting'
<1>1. TypeOK'
  BY DEF IInv, TypeOK, cfs, admission
<1>2. Waiting' = Waiting
  BY DEF Waiting, admission
<1>3. NoGhostWaiters'
  BY <1>2 DEF IInv, TypeOK, NoGhostWaiters, admission
<1>4. AgesOrdered' /\ LateChargesOnly'
  BY <1>2 DEF IInv, AgesOrdered, LateChargesOnly, cfs, admission
<1>5. Holding' = Holding /\ running' = running
  BY DEF Holding, IInv, TypeOK, admission
<1> QED BY <1>1, <1>3, <1>4, <1>5, SameHolding

\* The oldest overdue waiter is the first of the queue.
LEMMA OverdueIsFirst ==
  ASSUME IInv, Overdue # {}, NEW i \in 1..(Min(Overdue) - 1)
  PROVE  FALSE
<1>1. /\ DOMAIN waiters = 1..Len(waiters) /\ Len(waiters) \in Nat
      /\ \A j \in DOMAIN waiters : waiters[j] \in Agents
      /\ \A j \in DOMAIN waiters : \A k \in 1..(j - 1) : k \in DOMAIN waiters
  BY QueueShape DEF IInv
<1>2. Overdue \in SUBSET Nat
  BY <1>1 DEF Overdue
<1>3. Min(Overdue) \in Overdue /\ \A k \in Overdue : Min(Overdue) <= k
  BY <1>2, MinNat
<1>4. Min(Overdue) \in DOMAIN waiters /\ age[waiters[Min(Overdue)]] >= Threshold
  BY <1>3 DEF Overdue
<1>5. i \in DOMAIN waiters /\ age[waiters[i]] >= age[waiters[Min(Overdue)]]
  BY <1>1, <1>4 DEF IInv, AgesOrdered
<1>6. age[waiters[i]] \in 0..Threshold /\ age[waiters[Min(Overdue)]] \in 0..Threshold
  BY <1>1, <1>4, <1>5 DEF IInv, TypeOK
<1>7. i \in Overdue
  BY <1>4, <1>5, <1>6, TurnConstants DEF Overdue
<1> QED BY <1>1, <1>3, <1>4, <1>7

\* The contender that pick_among returns is not above any other.
LEMMA PickAmongLowest ==
  ASSUME TypeOK, NEW C \in SUBSET Agents, C # {}
  PROVE  /\ PickAmong(C) \in C
         /\ \A b \in C : vruntime[PickAmong(C)] <= vruntime[b]
<1> DEFINE V == {vruntime[b] : b \in C}
           L == {b \in C : vruntime[b] = Min(V)}
<1>1. V \in SUBSET Nat /\ V # {}
  BY DEF TypeOK
<1>2. Min(V) \in V /\ \A y \in V : Min(V) <= y
  BY <1>1, MinNat
<1>3. L \in SUBSET Nat /\ L # {}
  BY <1>2, TurnConstants
<1>4. Min(L) \in L /\ \A y \in L : Min(L) <= y
  <2> HIDE DEF L
  <2> QED BY <1>3, MinNat
<1>5. \A b \in C : vruntime[b] \in V /\ vruntime[b] \in Nat /\ b \in Nat
  BY TurnConstants DEF TypeOK
<1> DEFINE m == Min(V)
           a == Min(L)
<1>6. a \in C /\ vruntime[a] = m
  BY <1>4
<1>7. \A b \in C : m <= vruntime[b] /\ (vruntime[b] = m => a <= b)
  BY <1>2, <1>4, <1>5
<1>8. m \in Nat /\ a \in Nat
  BY <1>5, <1>6
<1> HIDE DEF V, L, m, a
<1>9. \A b \in C \ {a} : vruntime[a] < vruntime[b] \/ (vruntime[a] = vruntime[b] /\ a < b)
  BY <1>5, <1>6, <1>7, <1>8
<1>10. /\ PickAmong(C) \in C
       /\ \A b \in C \ {PickAmong(C)} :
            \/ vruntime[PickAmong(C)] < vruntime[b]
            \/ vruntime[PickAmong(C)] = vruntime[b] /\ PickAmong(C) < b
  BY <1>6, <1>9 DEF PickAmong
<1> QED BY <1>5, <1>10

LEMMA LookIInv == ASSUME IInv, NEW a \in Agents, Look(a) PROVE IInv'
<1>1. /\ pc[a] = "loop" /\ UNCHANGED <<cfs, admission, owed>>
      /\ \A b \in Agents \ {a} : pc'[b] = pc[b] /\ snapshot'[b] = snapshot[b]
      /\ UNCHANGED <<runnable, vruntime, waiters>>
  BY DEF Look, cfs, admission, IInv, TypeOK
<1>2. PICK to \in {"rank", "recheck", "wait"} : pc' = [pc EXCEPT ![a] = to]
  BY DEF Look
<1>3. snapshot' \in [Agents -> Seq(Agents)]
  BY DEF Look, IInv, TypeOK
<1>4. /\ TypeOK' /\ NoGhostWaiters' /\ AgesOrdered' /\ LateChargesOnly'
      /\ IsFiniteSet(Holding)' /\ SlotAccounting'
  BY <1>1, <1>2, <1>3, InsideLoop
<1>5. /\ \A j \in DOMAIN waiters : waiters[j] \in Agents
      /\ \A j \in DOMAIN waiters : \A i \in 1..(j - 1) : i \in DOMAIN waiters
  BY QueueShape DEF IInv
<1>6. SnapshotsCover'
  <2> SUFFICES ASSUME NEW j \in DOMAIN waiters, pc'[waiters[j]] = "rank", NEW i \in 1..(j - 1)
               PROVE  waiters[i] \in Range(snapshot'[waiters[j]])
    BY <1>1 DEF SnapshotsCover
  <2>1. CASE waiters[j] # a
    BY <1>1, <1>5, <2>1 DEF IInv, SnapshotsCover
  <2>2. CASE waiters[j] = a
    <3>1. snapshot' = [snapshot EXCEPT ![a] = waiters]
      BY <2>2 DEF Look, IInv, TypeOK
    <3>2. snapshot'[a] = waiters
      BY <3>1 DEF IInv, TypeOK
    <3> QED BY <1>5, <2>2, <3>2 DEF Range
  <2> QED BY <2>1, <2>2
<1>7. StaleRankSound'
  <2> SUFFICES ASSUME NEW j \in DOMAIN waiters, waiters[j] \notin Resumers,
                      pc'[waiters[j]] = "recheck", NEW i \in 1..(j - 1),
                      waiters[i] \in runnable
               PROVE  vruntime[waiters[j]] <= vruntime[waiters[i]]
    BY <1>1 DEF StaleRankSound
  <2>1. CASE waiters[j] # a
    BY <1>1, <1>5, <2>1 DEF IInv, StaleRankSound
  <2>2. CASE waiters[j] = a
    <3>1. Overdue # {} /\ waiters[Min(Overdue)] = a
      BY <2>2 DEF Look, IInv, TypeOK
    <3>2. Overdue \in SUBSET Nat
      BY QueueShape DEF Overdue, IInv
    <3>3. Min(Overdue) \in DOMAIN waiters
      BY <3>1, <3>2, MinNat DEF Overdue
    <3>4. Min(Overdue) = j
      BY <2>2, <3>1, <3>3 DEF IInv, NoGhostWaiters
    <3> QED BY <3>1, <3>4, OverdueIsFirst
  <2> QED BY <2>1, <2>2
<1> QED BY <1>4, <1>6, <1>7 DEF IInv

LEMMA RankIInv == ASSUME IInv, NEW a \in Agents, Rank(a) PROVE IInv'
<1> DEFINE known == Range(snapshot[a]) \cap runnable
           chosen == IF known = {} THEN Head(snapshot[a]) ELSE PickAmong(known)
<1>1. /\ pc[a] = "rank" /\ UNCHANGED <<cfs, admission, owed>>
      /\ pc' = [pc EXCEPT ![a] = IF chosen = a THEN "recheck" ELSE "wait"]
      /\ snapshot' = [snapshot EXCEPT ![a] = <<>>]
  BY DEF Rank
<1>2. /\ \A b \in Agents \ {a} : pc'[b] = pc[b] /\ snapshot'[b] = snapshot[b]
      /\ UNCHANGED <<runnable, vruntime, waiters>>
  BY <1>1 DEF cfs, admission, IInv, TypeOK
<1>3. snapshot' \in [Agents -> Seq(Agents)]
  BY <1>1 DEF IInv, TypeOK
<1>4. known \in SUBSET Agents
  BY DEF IInv, TypeOK
<1>5. pc'[a] = IF chosen = a THEN "recheck" ELSE "wait"
  BY <1>1 DEF IInv, TypeOK
<1>6. chosen = a => known = {} \/ PickAmong(known) = a
  OBVIOUS
<1> HIDE DEF chosen
<1>7. /\ TypeOK' /\ NoGhostWaiters' /\ AgesOrdered' /\ LateChargesOnly'
      /\ IsFiniteSet(Holding)' /\ SlotAccounting'
  BY <1>1, <1>3, InsideLoop
<1>8. /\ \A j \in DOMAIN waiters : waiters[j] \in Agents
      /\ \A j \in DOMAIN waiters : \A i \in 1..(j - 1) : i \in DOMAIN waiters
  BY QueueShape DEF IInv
<1>9. SnapshotsCover'
  <2> SUFFICES ASSUME NEW j \in DOMAIN waiters, pc'[waiters[j]] = "rank", NEW i \in 1..(j - 1)
               PROVE  waiters[i] \in Range(snapshot'[waiters[j]])
    BY <1>2 DEF SnapshotsCover
  <2>1. waiters[j] # a
    BY <1>5
  <2> QED BY <1>2, <1>8, <2>1 DEF IInv, SnapshotsCover
<1>10. StaleRankSound'
  <2> SUFFICES ASSUME NEW j \in DOMAIN waiters, waiters[j] \notin Resumers,
                      pc'[waiters[j]] = "recheck", NEW i \in 1..(j - 1),
                      waiters[i] \in runnable
               PROVE  vruntime[waiters[j]] <= vruntime[waiters[i]]
    BY <1>2 DEF StaleRankSound
  <2>1. CASE waiters[j] # a
    BY <1>2, <1>8, <2>1 DEF IInv, StaleRankSound
  <2>2. CASE waiters[j] = a
    <3>1. waiters[i] \in known
      BY <1>1, <2>2 DEF IInv, SnapshotsCover
    <3>2. PickAmong(known) = a
      BY <1>5, <1>6, <2>2, <3>1
    <3> HIDE DEF known
    <3> QED BY <1>4, <2>2, <3>1, <3>2, PickAmongLowest DEF IInv
  <2> QED BY <2>1, <2>2
<1> QED BY <1>7, <1>9, <1>10 DEF IInv

\* A step that lets nobody new rank or enter, and leaves queue and virtual
\* runtimes alone, keeps the facts about ranks.
LEMMA SameRanks ==
  ASSUME IInv, UNCHANGED <<runnable, vruntime, waiters, snapshot>>,
         \A b \in Agents : pc'[b] \in {"rank", "recheck"} => pc'[b] = pc[b]
  PROVE  SnapshotsCover' /\ StaleRankSound'
<1>1. \A j \in DOMAIN waiters : waiters[j] \in Agents
  BY QueueShape DEF IInv
<1>2. SnapshotsCover'
  BY <1>1 DEF IInv, SnapshotsCover
<1>3. StaleRankSound'
  BY <1>1 DEF IInv, StaleRankSound
<1> QED BY <1>2, <1>3

LEMMA TimeoutIInv == ASSUME IInv, NEW a \in Agents, Timeout(a) PROVE IInv'
<1>1. /\ pc[a] = "wait" /\ pc' = [pc EXCEPT ![a] = "loop"]
      /\ UNCHANGED <<cfs, admission, owed, snapshot>>
  BY DEF Timeout
<1>2. /\ TypeOK' /\ NoGhostWaiters' /\ AgesOrdered' /\ LateChargesOnly'
      /\ IsFiniteSet(Holding)' /\ SlotAccounting'
  <2>1. snapshot' \in [Agents -> Seq(Agents)]
    BY <1>1 DEF IInv, TypeOK
  <2> QED BY <1>1, <2>1, InsideLoop
<1>3. \A b \in Agents : pc'[b] \in {"rank", "recheck"} => pc'[b] = pc[b]
  BY <1>1 DEF IInv, TypeOK
<1>4. SnapshotsCover' /\ StaleRankSound'
  BY <1>1, <1>3, SameRanks DEF cfs, admission
<1> QED BY <1>2, <1>4 DEF IInv

\* A turn that leaves the loop, by entering or by giving up, takes its own
\* registration away and no other, and leaves the rest in order.
LEMMA LeavingKeepsQueue ==
  ASSUME IInv, NEW a \in Agents,
         pc[a] \in {"rank", "recheck", "wait"}, pc'[a] \in {"notify", "running"},
         pc' = [pc EXCEPT ![a] = pc'[a]],
         waiters' = RemoveAt(waiters, Position(a)), age' = [age EXCEPT ![a] = 0],
         snapshot' \in [Agents -> Seq(Agents)],
         \A b \in Agents \ {a} : snapshot'[b] = snapshot[b],
         running' \in Nat, UNCHANGED <<cfs, owed>>
  PROVE  /\ TypeOK' /\ NoGhostWaiters' /\ AgesOrdered' /\ SnapshotsCover'
         /\ LateChargesOnly' /\ StaleRankSound'
<1> DEFINE p == Position(a)
<1>1. a \in Waiting
  BY DEF IInv, NoGhostWaiters
<1>2. p \in 1..Len(waiters) /\ waiters[p] = a
  BY <1>1, PositionOf DEF IInv
<1> HIDE DEF p
<1>3. waiters \in Seq(Agents) /\ Distinct(waiters)
  BY DEF IInv, TypeOK, NoGhostWaiters, Distinct
<1>4. waiters' = RemoveAt(waiters, p)
  BY DEF p
<1>5. /\ waiters' \in Seq(Agents) /\ Len(waiters') = Len(waiters) - 1
      /\ Distinct(waiters') /\ OrderedAs(waiters', waiters, p)
      /\ Range(waiters') = Range(waiters) \ {waiters[p]}
  BY <1>2, <1>3, <1>4, RemovalFacts
<1>5a. Waiting' = Waiting \ {a}
  BY <1>2, <1>5 DEF Waiting
<1>6. /\ \A l \in DOMAIN waiters : waiters[l] \in Agents
      /\ \A l \in DOMAIN waiters : \A k \in 1..(l - 1) : k \in DOMAIN waiters
      /\ DOMAIN waiters = 1..Len(waiters) /\ Len(waiters) \in Nat
  BY QueueShape DEF IInv
<1>7. \A l \in DOMAIN waiters : l # p => waiters[l] # a
  BY <1>2, <1>3, <1>6 DEF Distinct
<1>8. \A b \in Agents \ {a} : pc'[b] = pc[b] /\ age'[b] = age[b]
  BY DEF IInv, TypeOK
<1>9. age'[a] = 0
  BY DEF IInv, TypeOK
<1>10. TypeOK'
  <2>1. age' \in [Agents -> 0..Threshold]
    BY TurnConstants DEF IInv, TypeOK
  <2>2. pc' \in [Agents -> {"idle", "loop", "rank", "recheck", "wait", "notify",
                            "running", "charged"}]
    BY DEF IInv, TypeOK
  <2> QED BY <1>5, <2>1, <2>2 DEF IInv, TypeOK, cfs
<1>11. NoGhostWaiters'
  <2>1. \A b \in Agents : b \in Waiting' <=> pc'[b] \in {"loop", "rank", "recheck", "wait"}
    BY <1>5a, <1>8 DEF IInv, NoGhostWaiters
  <2>2. Len(waiters') <= MaxWaiters
    BY <1>5, <1>6, TurnConstants DEF IInv, NoGhostWaiters
  <2> QED BY <1>5, <2>1, <2>2 DEF NoGhostWaiters, Distinct
\* Every ordered pair of the new queue is one of the old queue, without a.
<1>12. ASSUME NEW j \in DOMAIN waiters', NEW i \in 1..(j - 1)
       PROVE  \E l \in DOMAIN waiters : \E k \in 1..(l - 1) :
                /\ waiters'[j] = waiters[l] /\ waiters'[i] = waiters[k]
                /\ waiters[l] \in Agents \ {a} /\ waiters[k] \in Agents \ {a}
  <2>1. PICK l \in DOMAIN waiters : \E k \in 1..(l - 1) :
          l # p /\ k # p /\ waiters'[j] = waiters[l] /\ waiters'[i] = waiters[k]
    BY <1>5 DEF OrderedAs
  <2>2. PICK k \in 1..(l - 1) :
          l # p /\ k # p /\ waiters'[j] = waiters[l] /\ waiters'[i] = waiters[k]
    BY <2>1
  <2>3. waiters[l] \in Agents \ {a} /\ waiters[k] \in Agents \ {a}
    BY <1>6, <1>7, <2>2
  <2> QED BY <2>2, <2>3
<1>13. AgesOrdered'
  <2>1. ASSUME NEW j \in DOMAIN waiters', NEW i \in 1..(j - 1)
        PROVE  age'[waiters'[i]] >= age'[waiters'[j]]
    <3>1. PICK l \in DOMAIN waiters : \E k \in 1..(l - 1) :
            /\ waiters'[j] = waiters[l] /\ waiters'[i] = waiters[k]
            /\ waiters[l] \in Agents \ {a} /\ waiters[k] \in Agents \ {a}
      BY <1>12
    <3>2. PICK k \in 1..(l - 1) :
            /\ waiters'[j] = waiters[l] /\ waiters'[i] = waiters[k]
            /\ waiters[l] \in Agents \ {a} /\ waiters[k] \in Agents \ {a}
      BY <3>1
    <3>3. age[waiters[k]] >= age[waiters[l]]
      BY DEF IInv, AgesOrdered
    <3> QED BY <1>8, <3>2, <3>3
  <2>2. \A b \in Agents \ Waiting' : age'[b] = 0
    BY <1>5a, <1>8, <1>9 DEF IInv, AgesOrdered
  <2> QED BY <2>1, <2>2 DEF AgesOrdered
<1>14. SnapshotsCover'
  <2> SUFFICES ASSUME NEW j \in DOMAIN waiters', pc'[waiters'[j]] = "rank", NEW i \in 1..(j - 1)
               PROVE  waiters'[i] \in Range(snapshot'[waiters'[j]])
    BY DEF SnapshotsCover
  <2>1. PICK l \in DOMAIN waiters : \E k \in 1..(l - 1) :
          /\ waiters'[j] = waiters[l] /\ waiters'[i] = waiters[k]
          /\ waiters[l] \in Agents \ {a} /\ waiters[k] \in Agents \ {a}
    BY <1>12
  <2>2. PICK k \in 1..(l - 1) :
          /\ waiters'[j] = waiters[l] /\ waiters'[i] = waiters[k]
          /\ waiters[l] \in Agents \ {a} /\ waiters[k] \in Agents \ {a}
    BY <2>1
  <2> QED BY <1>8, <2>2 DEF IInv, SnapshotsCover
<1>15. LateChargesOnly'
  BY <1>5a DEF IInv, LateChargesOnly, cfs
<1>16. StaleRankSound'
  <2> SUFFICES ASSUME NEW j \in DOMAIN waiters', waiters'[j] \notin Resumers,
                      pc'[waiters'[j]] = "recheck", NEW i \in 1..(j - 1),
                      waiters'[i] \in runnable
               PROVE  vruntime[waiters'[j]] <= vruntime[waiters'[i]]
    BY DEF StaleRankSound, cfs
  <2>1. PICK l \in DOMAIN waiters : \E k \in 1..(l - 1) :
          /\ waiters'[j] = waiters[l] /\ waiters'[i] = waiters[k]
          /\ waiters[l] \in Agents \ {a} /\ waiters[k] \in Agents \ {a}
    BY <1>12
  <2>2. PICK k \in 1..(l - 1) :
          /\ waiters'[j] = waiters[l] /\ waiters'[i] = waiters[k]
          /\ waiters[l] \in Agents \ {a} /\ waiters[k] \in Agents \ {a}
    BY <2>1
  <2> QED BY <1>8, <2>2 DEF IInv, StaleRankSound
<1> QED BY <1>10, <1>11, <1>13, <1>14, <1>15, <1>16

LEMMA RecheckIInv == ASSUME IInv, NEW a \in Agents, Recheck(a) PROVE IInv'
<1>1. pc[a] = "recheck" /\ UNCHANGED <<cfs, snapshot, owed>>
  BY DEF Recheck
<1>2. CASE running < MaxConcurrent
  <2>1. /\ waiters' = RemoveAt(waiters, Position(a)) /\ age' = [age EXCEPT ![a] = 0]
        /\ running' = running + 1 /\ pc' = [pc EXCEPT ![a] = "running"]
    BY <1>2 DEF Recheck
  <2>2. /\ snapshot' \in [Agents -> Seq(Agents)] /\ running' \in Nat
        /\ \A b \in Agents \ {a} : snapshot'[b] = snapshot[b]
        /\ pc'[a] = "running"
    BY <1>1, <2>1 DEF IInv, TypeOK
  <2>3. /\ TypeOK' /\ NoGhostWaiters' /\ AgesOrdered' /\ SnapshotsCover'
        /\ LateChargesOnly' /\ StaleRankSound'
    BY <1>1, <2>1, <2>2, LeavingKeepsQueue
  <2>4. Holding' = Holding \cup {a} /\ a \notin Holding
    BY <1>1, <2>1 DEF Holding, IInv, TypeOK
  <2>5. IsFiniteSet(Holding') /\ Cardinality(Holding') = Cardinality(Holding) + 1
    BY <2>4, FS_AddElement DEF IInv
  <2>6. SlotAccounting'
    BY <1>2, <2>1, <2>5, TurnConstants DEF IInv, TypeOK, SlotAccounting
  <2> QED BY <2>3, <2>5, <2>6 DEF IInv
<1>3. CASE ~(running < MaxConcurrent)
  <2>1. pc' = [pc EXCEPT ![a] = "wait"] /\ UNCHANGED admission
    BY <1>3 DEF Recheck
  <2>2. /\ TypeOK' /\ NoGhostWaiters' /\ AgesOrdered' /\ LateChargesOnly'
        /\ IsFiniteSet(Holding)' /\ SlotAccounting'
    <3>1. snapshot' \in [Agents -> Seq(Agents)]
      BY <1>1 DEF IInv, TypeOK
    <3> QED BY <1>1, <2>1, <3>1, InsideLoop
  <2>3. \A b \in Agents : pc'[b] \in {"rank", "recheck"} => pc'[b] = pc[b]
    BY <2>1 DEF IInv, TypeOK
  <2>4. SnapshotsCover' /\ StaleRankSound'
    BY <1>1, <2>1, <2>3, SameRanks DEF cfs, admission
  <2> QED BY <2>2, <2>4 DEF IInv
<1> QED BY <1>2, <1>3

LEMMA CancelIInv == ASSUME IInv, NEW a \in Agents, Cancel(a) PROVE IInv'
<1>1. /\ pc[a] \in {"wait", "rank"} /\ waiters' = RemoveAt(waiters, Position(a))
      /\ age' = [age EXCEPT ![a] = 0] /\ snapshot' = [snapshot EXCEPT ![a] = <<>>]
      /\ pc' = [pc EXCEPT ![a] = "notify"] /\ UNCHANGED <<cfs, running, owed>>
  BY DEF Cancel
<1>2. /\ snapshot' \in [Agents -> Seq(Agents)] /\ running' \in Nat
      /\ \A b \in Agents \ {a} : snapshot'[b] = snapshot[b]
      /\ pc'[a] = "notify"
  BY <1>1 DEF IInv, TypeOK
<1>3. /\ TypeOK' /\ NoGhostWaiters' /\ AgesOrdered' /\ SnapshotsCover'
      /\ LateChargesOnly' /\ StaleRankSound'
  BY <1>1, <1>2, LeavingKeepsQueue
<1>4. Holding' = Holding
  BY <1>1 DEF Holding, IInv, TypeOK
<1> QED BY <1>1, <1>3, <1>4, SameHolding DEF IInv

LEMMA NotifyIInv == ASSUME IInv, NEW a \in Agents, NotifyWaiters(a) PROVE IInv'
<1>1. /\ pc[a] = "notify" /\ UNCHANGED <<cfs, admission, snapshot, owed>>
      /\ pc' = [b \in Agents |-> IF b = a THEN "idle"
                                 ELSE IF pc[b] = "wait" THEN "loop" ELSE pc[b]]
  BY DEF NotifyWaiters
<1>2. TypeOK' /\ Waiting' = Waiting
  BY <1>1 DEF IInv, TypeOK, Waiting, cfs, admission
<1>3. NoGhostWaiters'
  BY <1>1, <1>2 DEF IInv, TypeOK, NoGhostWaiters, admission
<1>4. AgesOrdered' /\ LateChargesOnly'
  BY <1>1, <1>2 DEF IInv, AgesOrdered, LateChargesOnly, cfs, admission
<1>5. \A b \in Agents : pc'[b] \in {"rank", "recheck"} => pc'[b] = pc[b]
  BY <1>1
<1>6. SnapshotsCover' /\ StaleRankSound'
  BY <1>1, <1>5, SameRanks DEF cfs, admission
<1>7. Holding' = Holding /\ running' = running
  BY <1>1 DEF Holding, IInv, TypeOK, admission
<1> QED BY <1>2, <1>3, <1>4, <1>6, <1>7, SameHolding DEF IInv

\* Giving the slot back, whether the turn is charged now or later.
LEMMA GiveBackIInv ==
  ASSUME IInv, NEW a \in Agents, pc[a] \in {"running", "charged"},
         running' = IF running = 0 THEN 0 ELSE running - 1,
         pc' = [pc EXCEPT ![a] = "notify"],
         owed' \in [Agents -> Nat], \A b \in Agents : owed'[b] > 0 => b \in Resumers,
         UNCHANGED <<cfs, waiters, age, snapshot>>
  PROVE  IInv'
<1>1. Holding' = Holding \ {a} /\ a \in Holding
  BY DEF Holding, IInv, TypeOK
<1>2. IsFiniteSet(Holding') /\ Cardinality(Holding') = Cardinality(Holding) - 1
  BY <1>1, FS_RemoveElement DEF IInv
<1>3. Cardinality(Holding') \in Nat
  BY <1>2, FS_CardinalityType
<1>4. running' = running - 1 /\ running' \in Nat /\ SlotAccounting'
  BY <1>2, <1>3, TurnConstants DEF IInv, TypeOK, SlotAccounting
<1>5. TypeOK' /\ Waiting' = Waiting
  BY <1>4 DEF IInv, TypeOK, Waiting, cfs
<1>6. NoGhostWaiters'
  BY <1>5 DEF IInv, TypeOK, NoGhostWaiters
<1>7. AgesOrdered' /\ LateChargesOnly'
  BY <1>5 DEF IInv, AgesOrdered, LateChargesOnly, cfs
<1>8. \A b \in Agents : pc'[b] \in {"rank", "recheck"} => pc'[b] = pc[b]
  BY DEF IInv, TypeOK
<1>9. SnapshotsCover' /\ StaleRankSound'
  BY <1>8, SameRanks DEF cfs
<1> QED BY <1>2, <1>4, <1>5, <1>6, <1>7, <1>9 DEF IInv

LEMMA ReleaseIInv == ASSUME IInv, NEW a \in Agents, Release(a) PROVE IInv'
<1>1. owed' \in [Agents -> Nat] /\ \A b \in Agents : owed'[b] > 0 => b \in Resumers
  BY DEF Release, IInv, TypeOK, LateChargesOnly
<1> QED BY <1>1, GiveBackIInv DEF Release

LEMMA ReleaseResumedIInv == ASSUME IInv, NEW a \in Agents, ReleaseResumed(a) PROVE IInv'
<1>1. owed' \in [Agents -> Nat] /\ \A b \in Agents : owed'[b] > 0 => b \in Resumers
  BY TurnConstants DEF ReleaseResumed, IInv, TypeOK, LateChargesOnly
<1> QED BY <1>1, GiveBackIInv DEF ReleaseResumed

LEMMA TickIInv == ASSUME IInv, Tick PROVE IInv'
<1>1. /\ age' = [a \in Agents |-> IF a \in Waiting /\ age[a] < Threshold THEN age[a] + 1 ELSE age[a]]
      /\ UNCHANGED <<cfs, running, waiters, pc, snapshot, owed>>
  BY DEF Tick
<1>2. TypeOK' /\ Waiting' = Waiting
  BY <1>1, TurnConstants DEF IInv, TypeOK, Waiting, cfs
<1>3. NoGhostWaiters' /\ LateChargesOnly' /\ SnapshotsCover' /\ StaleRankSound'
  BY <1>1, <1>2 DEF IInv, NoGhostWaiters, LateChargesOnly, SnapshotsCover, StaleRankSound, cfs
<1>4. AgesOrdered'
  <2>1. ASSUME NEW j \in DOMAIN waiters, NEW i \in 1..(j - 1)
        PROVE  age'[waiters[i]] >= age'[waiters[j]]
    <3>1. /\ waiters[i] \in Agents /\ waiters[i] \in Waiting
          /\ waiters[j] \in Agents /\ waiters[j] \in Waiting
      BY QueueShape DEF IInv
    <3>2. age[waiters[i]] \in 0..Threshold /\ age[waiters[j]] \in 0..Threshold
      BY <3>1 DEF IInv, TypeOK
    <3>3. age[waiters[i]] >= age[waiters[j]]
      BY DEF IInv, AgesOrdered
    <3> QED BY <1>1, <3>1, <3>2, <3>3, TurnConstants
  <2> QED BY <1>1, <1>2, <2>1 DEF IInv, AgesOrdered
<1>5. Holding' = Holding /\ running' = running
  BY <1>1 DEF Holding
<1> QED BY <1>2, <1>3, <1>4, <1>5, SameHolding DEF IInv

\* The inductive step, one case per action.
LEMMA NextIInv == ASSUME IInv, [Next]_vars PROVE IInv'
<1>1. CASE UNCHANGED vars
  <2>1. Holding' = Holding /\ Waiting' = Waiting
    BY <1>1 DEF Holding, Waiting, vars
  <2> QED BY <1>1, <2>1 DEF vars, IInv, TypeOK, SlotAccounting, NoGhostWaiters,
           AgesOrdered, SnapshotsCover, LateChargesOnly, StaleRankSound
<1>2. CASE Next
  BY <1>2, TickIInv, EnqueueIInv, DequeueIInv, UpdateNiceIInv, RegisterIInv, LookIInv,
     RankIInv, RecheckIInv, TimeoutIInv, CancelIInv, NotifyIInv, ChargeIInv,
     ReleaseIInv, ReleaseResumedIInv, ChargeResumedIInv DEF Next
<1> QED BY <1>1, <1>2

\* Every reachable state satisfies the inductive invariant.
THEOREM InductiveInvariant == Spec => []IInv
<1>1. Init => IInv
  BY InitIInv
<1>2. IInv /\ [Next]_vars => IInv'
  BY NextIInv
<1> QED BY <1>1, <1>2, PTL DEF Spec

\* "configured concurrency is never exceeded or leaked" (docs/SCHEDULER.md):
\* the running counter is the number of turns that hold a slot.
THEOREM SlotsNeverLeaked == Spec => []SlotAccounting
<1>1. IInv => SlotAccounting
  BY DEF IInv
<1> QED BY <1>1, InductiveInvariant, PTL

\* "preventing ghost waiters" (docs/SCHEDULER.md): a turn is registered
\* exactly while it is inside the acquisition loop, and once.
THEOREM WaitersAreReal == Spec => []NoGhostWaiters
<1>1. IInv => NoGhostWaiters
  BY DEF IInv
<1> QED BY <1>1, InductiveInvariant, PTL

\* "Changing priority cannot erase scheduling debt" (docs/SCHEDULER.md): no
\* step of the scheduler lowers the virtual runtime of a runnable agent.
THEOREM DebtNeverErased == Spec => DebtIsKept
<1> DEFINE A == \A a \in runnable \cap runnable' : vruntime'[a] >= vruntime[a]
<1>1. ASSUME IInv, [Next]_vars PROVE [A]_vars
  <2> SUFFICES ASSUME Next, NEW b \in runnable, b \in runnable'
               PROVE  vruntime'[b] >= vruntime[b]
    BY <1>1 DEF A
  <2>1. b \in Agents /\ vruntime[b] \in Nat /\ vruntime \in [Agents -> Nat]
    BY <1>1 DEF IInv, TypeOK
  <2>2. ASSUME NEW a \in Agents, Enqueue(a) PROVE vruntime'[b] >= vruntime[b]
    BY <2>1, <2>2 DEF Enqueue
  <2>3. ASSUME NEW a \in Agents, Dequeue(a) PROVE vruntime'[b] >= vruntime[b]
    BY <2>1, <2>3 DEF Dequeue
  <2>4. ASSUME NEW a \in Agents, Charge(a) PROVE vruntime'[b] >= vruntime[b]
    <3>1. PICK t \in Tokens : AccountTokens(a, t)
      BY <2>4 DEF Charge
    <3> QED BY <1>1, <2>1, <3>1, AccountTokensFacts, TurnConstants DEF IInv
  <2>5. ASSUME NEW a \in Agents, ChargeResumed(a) PROVE vruntime'[b] >= vruntime[b]
    <3>1. owed[a] \in Nat /\ AccountTokens(a, owed[a])
      BY <1>1, <2>5 DEF ChargeResumed, IInv, TypeOK
    <3> QED BY <1>1, <2>1, <3>1, AccountTokensFacts DEF IInv
  <2>6. CASE vruntime' = vruntime
    BY <2>1, <2>6
  <2> QED BY <2>2, <2>3, <2>4, <2>5, <2>6 DEF Next, Tick, UpdateNice, Register, Look, Rank,
           Recheck, Timeout, Cancel, NotifyWaiters, Release, ReleaseResumed, cfs
<1>2. DebtIsKept <=> [][A]_vars
  BY DEF DebtIsKept
<1> QED BY <1>1, <1>2, InductiveInvariant, PTL DEF Spec

\* "the next freed slot goes to the lowest-vruntime / highest-priority waiter"
\* (lib.rs): although a turn enters on a rank that was computed under another
\* lock, no runnable waiter that registered before it has less virtual runtime.
THEOREM EntersInOrder == Spec => LowestFirst
<1> DEFINE A == \A a \in Agents \ Resumers : pc[a] = "recheck" /\ pc'[a] = "running" =>
       \A i \in 1..(Position(a) - 1) :
         waiters[i] \in runnable => vruntime[a] <= vruntime[waiters[i]]
<1>1. ASSUME IInv, [Next]_vars PROVE [A]_vars
  <2> SUFFICES ASSUME NEW a \in Agents \ Resumers, pc[a] = "recheck",
                      NEW i \in 1..(Position(a) - 1), waiters[i] \in runnable
               PROVE  vruntime[a] <= vruntime[waiters[i]]
    BY DEF A
  <2>1. a \in Waiting
    BY <1>1 DEF IInv, NoGhostWaiters
  <2>2. Position(a) \in DOMAIN waiters /\ waiters[Position(a)] = a
    BY <1>1, <2>1, PositionOf, QueueShape DEF IInv
  <2> QED BY <1>1, <2>2 DEF IInv, StaleRankSound
<1>2. LowestFirst <=> [][A]_vars
  BY DEF LowestFirst
<1> QED BY <1>1, <1>2, InductiveInvariant, PTL DEF Spec
==============================================================================
