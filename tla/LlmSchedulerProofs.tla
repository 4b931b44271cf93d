------------------------- MODULE LlmSchedulerProofs -------------------------
(***************************************************************************)
(* For every number of callers, cores, queue slots and nice values: the    *)
(* core counter is exact and bounded, the queue registers each caller      *)
(* once, and no waiter is overtaken by a later one that is no better.      *)
(***************************************************************************)
EXTENDS LlmScheduler, FiniteSetTheorems, SequenceTheorems, TLAPS

\* What Vec::remove leaves: the elements before the hole stay where they are,
\* those behind it move up by one.
LEMMA RemoveAtElements ==
  ASSUME NEW S, NEW s \in Seq(S), NEW i \in 1..Len(s)
  PROVE  /\ RemoveAt(s, i) \in Seq(S)
         /\ Len(RemoveAt(s, i)) = Len(s) - 1
         /\ \A j \in 1..(Len(s) - 1) :
              RemoveAt(s, i)[j] = IF j < i THEN s[j] ELSE s[j + 1]
<1> DEFINE a == SubSeq(s, 1, i - 1)
           b == SubSeq(s, i + 1, Len(s))
<1>1. Len(s) \in Nat /\ \A k \in 1..Len(s) : s[k] \in S
  BY LenProperties
<1>2. /\ a \in Seq(S) /\ Len(a) = i - 1
      /\ \A k \in 1..(i - 1) : a[k] = s[k]
  BY <1>1, SubSeqProperties
<1>3. /\ b \in Seq(S) /\ Len(b) = Len(s) - i
      /\ \A k \in 1..(Len(s) - i) : b[k] = s[i + k]
  <2>1. \A k \in (i + 1)..Len(s) : s[k] \in S
    BY <1>1
  <2>2. /\ b \in Seq(S)
        /\ Len(b) = IF i + 1 <= Len(s) THEN Len(s) - (i + 1) + 1 ELSE 0
        /\ \A k \in 1..(Len(s) - (i + 1) + 1) : b[k] = s[i + 1 + k - 1]
    BY <1>1, <2>1, SubSeqProperties
  <2> QED BY <1>1, <2>2
<1> HIDE DEF a, b
<1>4. /\ a \o b \in Seq(S) /\ Len(a \o b) = Len(s) - 1
      /\ \A k \in 1..(Len(s) - 1) :
           (a \o b)[k] = IF k <= i - 1 THEN a[k] ELSE b[k - (i - 1)]
  <2>1. /\ a \o b \in Seq(S) /\ Len(a \o b) = Len(a) + Len(b)
        /\ \A k \in 1..(Len(a) + Len(b)) :
             (a \o b)[k] = IF k <= Len(a) THEN a[k] ELSE b[k - Len(a)]
    BY <1>2, <1>3, ConcatProperties
  <2>2. Len(a) = i - 1 /\ Len(a) + Len(b) = Len(s) - 1
    BY <1>1, <1>2, <1>3
  <2> QED BY <2>1, <2>2
<1>5. \A k \in 1..(Len(s) - 1) : (a \o b)[k] = IF k < i THEN s[k] ELSE s[k + 1]
  <2> TAKE k \in 1..(Len(s) - 1)
  <2>1. CASE k < i
    <3>1. k \in 1..(i - 1) /\ k <= i - 1
      BY <2>1, <1>1
    <3> QED BY <3>1, <2>1, <1>2, <1>4
  <2>2. CASE ~(k < i)
    <3>1. ~(k <= i - 1) /\ k - (i - 1) \in 1..(Len(s) - i) /\ i + (k - (i - 1)) = k + 1
      BY <2>2, <1>1
    <3>2. (a \o b)[k] = b[k - (i - 1)]
      BY <3>1, <1>4
    <3>3. b[k - (i - 1)] = s[k + 1]
      BY <3>1, <1>3
    <3> QED BY <2>2, <3>2, <3>3
  <2> QED BY <2>1, <2>2
<1> QED BY <1>4, <1>5 DEF RemoveAt, a, b

\* With distinct elements, Position finds the only index of a waiter.
LEMMA PositionUnique ==
  ASSUME TypeOK, RegisteredOnce, NEW i \in DOMAIN waiters
  PROVE  Position(waiters[i]) = i
  BY DEF Position, RegisteredOnce

\* Where a registered caller stands in the queue.
LEMMA PositionOf ==
  ASSUME TypeOK, RegisteredOnce, NEW r \in Waiting
  PROVE  Position(r) \in 1..Len(waiters) /\ waiters[Position(r)] = r
<1>1. PICK i \in DOMAIN waiters : waiters[i] = r
  BY DEF Waiting, Range
<1>2. DOMAIN waiters = 1..Len(waiters)
  BY DEF TypeOK
<1> QED BY <1>1, <1>2, PositionUnique

\* Removing a caller from the queue keeps the rest distinct and in order and
\* removes that caller only.
LEMMA RemovalKeepsQueue ==
  ASSUME IInv, NEW r \in Waiting, waiters' = RemoveAt(waiters, Position(r))
  PROVE  /\ waiters' \in Seq(Requests)
         /\ Len(waiters') = Len(waiters) - 1
         /\ DOMAIN waiters' = 1..(Len(waiters) - 1)
         /\ \A j \in DOMAIN waiters' :
              waiters'[j] = IF j < Position(r) THEN waiters[j] ELSE waiters[j + 1]
         /\ Waiting' = Waiting \ {r}
         /\ \A i, j \in DOMAIN waiters' : waiters'[i] = waiters'[j] => i = j
<1> DEFINE p == Position(r)
<1>1. p \in 1..Len(waiters) /\ waiters[p] = r
  BY PositionOf DEF IInv
<1>2. /\ waiters \in Seq(Requests) /\ DOMAIN waiters = 1..Len(waiters)
      /\ Len(waiters) \in Nat
  BY DEF IInv, TypeOK
<1>3. /\ waiters' \in Seq(Requests)
      /\ Len(waiters') = Len(waiters) - 1
      /\ \A j \in 1..(Len(waiters) - 1) :
           waiters'[j] = IF j < p THEN waiters[j] ELSE waiters[j + 1]
  BY <1>1, <1>2, RemoveAtElements
<1>4. DOMAIN waiters' = 1..(Len(waiters) - 1)
  BY <1>3
<1>5. \A i, j \in DOMAIN waiters : waiters[i] = waiters[j] => i = j
  BY DEF IInv, RegisteredOnce
<1> HIDE DEF p
<1>6. \A i, j \in DOMAIN waiters' : waiters'[i] = waiters'[j] => i = j
  <2> SUFFICES ASSUME NEW i \in 1..(Len(waiters) - 1),
                      NEW j \in 1..(Len(waiters) - 1), waiters'[i] = waiters'[j]
               PROVE  i = j
    BY <1>4
  <2>1. /\ waiters'[i] = waiters[IF i < p THEN i ELSE i + 1]
        /\ waiters'[j] = waiters[IF j < p THEN j ELSE j + 1]
    BY <1>3
  <2>2. /\ (IF i < p THEN i ELSE i + 1) \in DOMAIN waiters
        /\ (IF j < p THEN j ELSE j + 1) \in DOMAIN waiters
    BY <1>1, <1>2
  <2>3. (IF i < p THEN i ELSE i + 1) = (IF j < p THEN j ELSE j + 1)
    BY <2>1, <2>2, <1>5
  <2> QED BY <2>3, <1>1, <1>2
<1>7. Waiting' = Waiting \ {r}
  <2>1. ASSUME NEW x \in Waiting' PROVE x \in Waiting \ {r}
    <3>1. PICK j \in DOMAIN waiters' : waiters'[j] = x
      BY DEF Waiting, Range
    <3>2. PICK k \in DOMAIN waiters : k # p /\ waiters[k] = x
      <4> DEFINE k == IF j < p THEN j ELSE j + 1
      <4>1. k \in DOMAIN waiters /\ k # p
        BY <1>1, <1>2, <1>4
      <4>2. waiters[k] = x
        BY <3>1, <1>3, <1>4
      <4> QED BY <4>1, <4>2
    <3> QED BY <3>2, <1>1, <1>2, <1>5 DEF Waiting, Range
  <2>2. ASSUME NEW x \in Waiting, x # r PROVE x \in Waiting'
    <3>1. PICK k \in DOMAIN waiters : waiters[k] = x
      BY DEF Waiting, Range
    <3>2. k < p \/ k > p
      BY <3>1, <2>2, <1>1, <1>2
    <3>3. PICK j \in DOMAIN waiters' : waiters'[j] = x
      <4>1. CASE k < p
        <5>1. k \in 1..(Len(waiters) - 1)
          BY <4>1, <1>1, <1>2
        <5> QED BY <5>1, <4>1, <3>1, <1>3, <1>4
      <4>2. CASE k > p
        <5>1. k - 1 \in 1..(Len(waiters) - 1) /\ ~(k - 1 < p) /\ (k - 1) + 1 = k
          BY <4>2, <1>1, <1>2
        <5>2. waiters'[k - 1] = waiters[k]
          BY <5>1, <1>3
        <5> QED BY <5>1, <5>2, <3>1, <1>4
      <4> QED BY <3>2, <4>1, <4>2
    <3> QED BY <3>3 DEF Waiting, Range
  <2> QED BY <2>1, <2>2
<1> QED BY <1>3, <1>4, <1>6, <1>7 DEF p

\* The ordering facts survive a removal: they speak of pairs of waiters.
LEMMA RemovalKeepsOrder ==
  ASSUME IInv, NEW r \in Waiting, waiters' = RemoveAt(waiters, Position(r)),
         age' = age, NEW s, pc' = [pc EXCEPT ![r] = s]
  PROVE  AgesOrdered' /\ StaleSnapshotSound'
<1> DEFINE p == Position(r)
<1>1. p \in 1..Len(waiters) /\ waiters[p] = r
  BY PositionOf DEF IInv
<1>2. /\ waiters \in Seq(Requests) /\ DOMAIN waiters = 1..Len(waiters)
      /\ Len(waiters) \in Nat
  BY DEF IInv, TypeOK
<1>3. /\ DOMAIN waiters' = 1..(Len(waiters) - 1)
      /\ \A j \in DOMAIN waiters' :
           waiters'[j] = IF j < p THEN waiters[j] ELSE waiters[j + 1]
  BY RemovalKeepsQueue
<1>4. \A i, j \in DOMAIN waiters : waiters[i] = waiters[j] => i = j
  BY DEF IInv, RegisteredOnce
<1> HIDE DEF p
<1>5. \A j \in DOMAIN waiters' : \A i \in 1..(j - 1) :
        \E k, l \in DOMAIN waiters :
          /\ l \in 1..(k - 1) /\ k # p
          /\ waiters'[j] = waiters[k] /\ waiters'[i] = waiters[l]
  <2> SUFFICES ASSUME NEW j \in 1..(Len(waiters) - 1), NEW i \in 1..(j - 1)
               PROVE  \E k, l \in DOMAIN waiters :
                        /\ l \in 1..(k - 1) /\ k # p
                        /\ waiters'[j] = waiters[k] /\ waiters'[i] = waiters[l]
    BY <1>3
  <2> DEFINE k == IF j < p THEN j ELSE j + 1
             l == IF i < p THEN i ELSE i + 1
  <2>1. i \in 1..(Len(waiters) - 1)
    BY <1>2
  <2>2. k \in DOMAIN waiters /\ l \in DOMAIN waiters /\ l \in 1..(k - 1) /\ k # p
    BY <1>1, <1>2, <2>1
  <2>3. waiters'[j] = waiters[k] /\ waiters'[i] = waiters[l]
    BY <1>3, <2>1
  <2> QED BY <2>2, <2>3
<1>6. \A k \in DOMAIN waiters : k # p => pc'[waiters[k]] = pc[waiters[k]]
  BY <1>1, <1>2, <1>4 DEF IInv, TypeOK
<1>7. AgesOrdered'
  BY <1>5 DEF IInv, AgesOrdered
<1>8. StaleSnapshotSound'
  BY <1>5, <1>6 DEF IInv, StaleSnapshotSound
<1> QED BY <1>7, <1>8

\* A step that changes neither the counter nor who is running keeps the
\* accounting.
LEMMA SameRunning ==
  ASSUME IInv, Running' = Running, inFlight' = inFlight
  PROVE  IsFiniteSet(Running)' /\ CoreAccounting'
  BY DEF IInv, CoreAccounting

LEMMA InitIInv == Init => IInv
<1> SUFFICES ASSUME Init PROVE IInv
  OBVIOUS
<1>1. Running = {}
  BY DEF Init, Running
<1>2. Waiting = {}
  BY DEF Init, Waiting, Range
<1>3. IsFiniteSet(Running) /\ Cardinality(Running) = 0
  BY <1>1, FS_EmptySet
<1> QED BY <1>2, <1>3, LlmConstants DEF Init, IInv, TypeOK, RegisteredOnce,
         QueueBounded, CoreAccounting, AgesOrdered, StaleSnapshotSound, States

LEMMA RegisterIInv == ASSUME IInv, NEW r \in Requests, Register(r) PROVE IInv'
<1>1. /\ waiters \in Seq(Requests) /\ DOMAIN waiters = 1..Len(waiters)
      /\ waiters' \in Seq(Requests) /\ Len(waiters') = Len(waiters) + 1
      /\ DOMAIN waiters' = 1..(Len(waiters) + 1)
      /\ \A i \in 1..Len(waiters) : waiters'[i] = waiters[i]
      /\ waiters'[Len(waiters) + 1] = r
  BY DEF IInv, TypeOK, Register
<1>2. r \notin Waiting /\ \A i \in DOMAIN waiters : waiters[i] # r
  BY DEF IInv, RegisteredOnce, Register, Waiting, Range
<1>3. Waiting' = Waiting \cup {r}
  <2>1. \A x \in Waiting' : x \in Waiting \cup {r}
    BY <1>1 DEF Waiting, Range
  <2>2. r \in Waiting'
    BY <1>1 DEF Waiting, Range
  <2>3. \A x \in Waiting : x \in Waiting'
    BY <1>1 DEF Waiting, Range
  <2> QED BY <2>1, <2>2, <2>3
<1>4. TypeOK'
  BY <1>1, LlmConstants DEF IInv, TypeOK, Register, States
<1>5. RegisteredOnce'
  <2>1. \A i, j \in DOMAIN waiters' : waiters'[i] = waiters'[j] => i = j
    BY <1>1, <1>2 DEF IInv, RegisteredOnce
  <2>2. \A x \in Requests : x \in Waiting' <=> pc'[x] \in {"loop", "recheck", "wait"}
    BY <1>2, <1>3 DEF IInv, RegisteredOnce, TypeOK, Register
  <2> QED BY <2>1, <2>2 DEF RegisteredOnce
<1>6. QueueBounded'
  BY <1>1, LlmConstants DEF QueueBounded, Register
<1>7. Running' = Running
  BY DEF Running, Register, IInv, TypeOK
<1>8. AgesOrdered'
  <2> SUFFICES ASSUME NEW j \in 1..(Len(waiters) + 1), NEW i \in 1..(j - 1)
               PROVE  age'[waiters'[i]] >= age'[waiters'[j]]
    BY <1>1 DEF AgesOrdered
  <2>1. i \in DOMAIN waiters /\ waiters'[i] = waiters[i] /\ waiters[i] \in Requests
    BY <1>1
  <2>2. age'[waiters'[i]] = age[waiters[i]] /\ age[waiters[i]] \in 0..MaxAge
    BY <2>1, <1>2 DEF Register, IInv, TypeOK
  <2>3. CASE j = Len(waiters) + 1
    BY <2>2, <2>3, <1>1, LlmConstants DEF Register, IInv, TypeOK
  <2>4. CASE j # Len(waiters) + 1
    <3>1. j \in DOMAIN waiters /\ waiters'[j] = waiters[j] /\ waiters[j] \in Requests
      BY <2>4, <1>1
    <3>2. age'[waiters'[j]] = age[waiters[j]]
      BY <3>1, <1>2 DEF Register, IInv, TypeOK
    <3> QED BY <2>2, <3>1, <3>2 DEF IInv, AgesOrdered
  <2> QED BY <2>3, <2>4
<1>9. StaleSnapshotSound'
  BY <1>1, <1>2 DEF IInv, TypeOK, StaleSnapshotSound, Register
<1> QED BY <1>4, <1>5, <1>6, <1>7, <1>8, <1>9, SameRunning DEF IInv, Register

\* What Preferred says of the requests queued before the caller.
LEMMA PreferredBeatsEarlier ==
  ASSUME IInv, NEW j \in DOMAIN waiters, Preferred(waiters[j]), NEW i \in 1..(j - 1)
  PROVE  Nice[waiters[i]] > Nice[waiters[j]]
<1>1. DOMAIN waiters = 1..Len(waiters) /\ waiters \in Seq(Requests)
  BY DEF IInv, TypeOK
<1>2. i \in DOMAIN waiters /\ waiters[i] # waiters[j]
  BY <1>1 DEF IInv, RegisteredOnce
<1>3. Position(waiters[i]) = i /\ Position(waiters[j]) = j
  BY <1>2, PositionUnique DEF IInv
<1>4. waiters[i] \in Waiting
  BY <1>2 DEF Waiting, Range
<1>5. EffectiveNice(waiters[j]) < EffectiveNice(waiters[i])
  BY <1>1, <1>2, <1>3, <1>4 DEF Preferred
<1>6. age[waiters[i]] >= age[waiters[j]]
  BY DEF IInv, AgesOrdered
<1>7. /\ waiters[i] \in Requests /\ waiters[j] \in Requests
      /\ age[waiters[i]] \in Int /\ age[waiters[j]] \in Int
      /\ Nice[waiters[i]] \in Int /\ Nice[waiters[j]] \in Int /\ MinNice \in Int
  BY <1>1, <1>2, LlmConstants DEF IInv, TypeOK
<1> QED BY <1>5, <1>6, <1>7 DEF EffectiveNice

\* Steps that move one caller between loop, recheck and wait.
LEMMA LookIInv == ASSUME IInv, NEW r \in Requests, Look(r) PROVE IInv'
<1>1. TypeOK' /\ QueueBounded' /\ AgesOrdered' /\ Waiting' = Waiting
  BY DEF IInv, TypeOK, QueueBounded, AgesOrdered, Look, States, Waiting
<1>2. RegisteredOnce'
  BY <1>1 DEF IInv, TypeOK, RegisteredOnce, Look
<1>3. Running' = Running
  BY DEF Running, Look, IInv, TypeOK
<1>4. StaleSnapshotSound'
  <2> SUFFICES ASSUME NEW j \in DOMAIN waiters, pc'[waiters[j]] = "recheck",
                      NEW i \in 1..(j - 1)
               PROVE  Nice[waiters[i]] > Nice[waiters[j]]
    BY DEF StaleSnapshotSound, Look
  <2>1. CASE waiters[j] = r
    BY <2>1, PreferredBeatsEarlier DEF Look, IInv, TypeOK
  <2>2. CASE waiters[j] # r
    BY <2>2 DEF Look, IInv, TypeOK, StaleSnapshotSound
  <2> QED BY <2>1, <2>2
<1> QED BY <1>1, <1>2, <1>3, <1>4, SameRunning DEF IInv, Look

LEMMA TimeoutIInv == ASSUME IInv, NEW r \in Requests, Timeout(r) PROVE IInv'
<1>1. TypeOK' /\ QueueBounded' /\ AgesOrdered' /\ Waiting' = Waiting
  BY DEF IInv, TypeOK, QueueBounded, AgesOrdered, Timeout, States, Waiting
<1>2. RegisteredOnce'
  BY <1>1 DEF IInv, TypeOK, RegisteredOnce, Timeout
<1>3. Running' = Running
  BY DEF Running, Timeout, IInv, TypeOK
<1>4. StaleSnapshotSound'
  BY DEF IInv, TypeOK, StaleSnapshotSound, Timeout
<1> QED BY <1>1, <1>2, <1>3, <1>4, SameRunning DEF IInv, Timeout

LEMMA RecheckIInv == ASSUME IInv, NEW r \in Requests, Recheck(r) PROVE IInv'
<1>1. CASE ~(inFlight < Cores /\ r \in Waiting)
  <2>1. TypeOK' /\ QueueBounded' /\ AgesOrdered' /\ Waiting' = Waiting
    BY <1>1 DEF IInv, TypeOK, QueueBounded, AgesOrdered, Recheck, States, Waiting
  <2>2. RegisteredOnce'
    BY <1>1, <2>1 DEF IInv, TypeOK, RegisteredOnce, Recheck
  <2>3. Running' = Running
    BY <1>1 DEF Running, Recheck, IInv, TypeOK
  <2>4. StaleSnapshotSound'
    BY <1>1 DEF IInv, TypeOK, StaleSnapshotSound, Recheck
  <2> QED BY <1>1, <2>1, <2>2, <2>3, <2>4, SameRunning DEF IInv, Recheck
<1>2. CASE inFlight < Cores /\ r \in Waiting
  <2>1. /\ waiters' = RemoveAt(waiters, Position(r)) /\ inFlight' = inFlight + 1
        /\ pc' = [pc EXCEPT ![r] = "running"] /\ age' = age /\ pc[r] = "recheck"
    BY <1>2 DEF Recheck
  <2>2. /\ waiters' \in Seq(Requests) /\ Len(waiters') = Len(waiters) - 1
        /\ Waiting' = Waiting \ {r}
        /\ \A i, j \in DOMAIN waiters' : waiters'[i] = waiters'[j] => i = j
    BY <1>2, <2>1, RemovalKeepsQueue
  <2>3. TypeOK'
    BY <2>1, <2>2 DEF IInv, TypeOK, States
  <2>4. RegisteredOnce'
    BY <2>1, <2>2 DEF IInv, TypeOK, RegisteredOnce
  <2>5. QueueBounded'
    BY <2>2, LlmConstants DEF IInv, TypeOK, QueueBounded
  <2>6. AgesOrdered' /\ StaleSnapshotSound'
    BY <1>2, <2>1, RemovalKeepsOrder
  <2>7. Running' = Running \cup {r} /\ r \notin Running
    BY <2>1 DEF Running, IInv, TypeOK
  <2>8. IsFiniteSet(Running') /\ Cardinality(Running') = Cardinality(Running) + 1
    BY <2>7, FS_AddElement DEF IInv
  <2>9. CoreAccounting'
    BY <1>2, <2>1, <2>8, LlmConstants DEF IInv, TypeOK, CoreAccounting
  <2> QED BY <2>3, <2>4, <2>5, <2>6, <2>8, <2>9 DEF IInv
<1> QED BY <1>1, <1>2

LEMMA CancelIInv == ASSUME IInv, NEW r \in Requests, Cancel(r) PROVE IInv'
<1>1. /\ waiters' = RemoveAt(waiters, Position(r)) /\ inFlight' = inFlight
      /\ pc' = [pc EXCEPT ![r] = "notify"] /\ age' = age /\ pc[r] = "wait"
  BY DEF Cancel
<1>2. r \in Waiting
  BY <1>1 DEF IInv, RegisteredOnce
<1>3. /\ waiters' \in Seq(Requests) /\ Len(waiters') = Len(waiters) - 1
      /\ Waiting' = Waiting \ {r}
      /\ \A i, j \in DOMAIN waiters' : waiters'[i] = waiters'[j] => i = j
  BY <1>1, <1>2, RemovalKeepsQueue
<1>4. TypeOK'
  BY <1>1, <1>3 DEF IInv, TypeOK, States
<1>5. RegisteredOnce'
  BY <1>1, <1>3 DEF IInv, TypeOK, RegisteredOnce
<1>6. QueueBounded'
  BY <1>3, LlmConstants DEF IInv, TypeOK, QueueBounded
<1>7. AgesOrdered' /\ StaleSnapshotSound'
  BY <1>1, <1>2, RemovalKeepsOrder
<1>8. Running' = Running
  BY <1>1 DEF Running, IInv, TypeOK
<1> QED BY <1>1, <1>4, <1>5, <1>6, <1>7, <1>8, SameRunning DEF IInv

LEMMA ReleaseIInv == ASSUME IInv, NEW r \in Requests, Release(r) PROVE IInv'
<1>1. /\ pc' = [pc EXCEPT ![r] = "notify"] /\ age' = age /\ waiters' = waiters
      /\ pc[r] = "running"
  BY DEF Release
<1>2. Running' = Running \ {r} /\ r \in Running
  BY <1>1 DEF Running, IInv, TypeOK
<1>3. IsFiniteSet(Running') /\ Cardinality(Running') = Cardinality(Running) - 1
  BY <1>2, FS_RemoveElement DEF IInv
<1>4. Cardinality(Running') \in Nat
  BY <1>3, FS_CardinalityType
<1>5. inFlight' = inFlight - 1 /\ CoreAccounting' /\ inFlight' \in Nat
  BY <1>3, <1>4, LlmConstants DEF Release, IInv, TypeOK, CoreAccounting
<1>6. TypeOK' /\ QueueBounded' /\ AgesOrdered' /\ Waiting' = Waiting
  BY <1>1, <1>5 DEF IInv, TypeOK, QueueBounded, AgesOrdered, States, Waiting
<1>7. RegisteredOnce'
  BY <1>1, <1>6 DEF IInv, TypeOK, RegisteredOnce
<1>8. StaleSnapshotSound'
  BY <1>1 DEF IInv, TypeOK, StaleSnapshotSound
<1> QED BY <1>3, <1>5, <1>6, <1>7, <1>8 DEF IInv

LEMMA NotifyIInv == ASSUME IInv, NEW r \in Requests, NotifyWaiters(r) PROVE IInv'
<1>1. TypeOK' /\ QueueBounded' /\ AgesOrdered' /\ Waiting' = Waiting
  BY DEF IInv, TypeOK, QueueBounded, AgesOrdered, NotifyWaiters, States, Waiting
<1>2. RegisteredOnce'
  BY <1>1 DEF IInv, TypeOK, RegisteredOnce, NotifyWaiters
<1>3. Running' = Running
  BY DEF Running, NotifyWaiters, IInv, TypeOK
<1>4. StaleSnapshotSound'
  BY DEF IInv, TypeOK, StaleSnapshotSound, NotifyWaiters
<1> QED BY <1>1, <1>2, <1>3, <1>4, SameRunning DEF IInv, NotifyWaiters

LEMMA TickIInv == ASSUME IInv, Tick PROVE IInv'
<1>1. TypeOK' /\ QueueBounded' /\ RegisteredOnce' /\ StaleSnapshotSound'
  BY LlmConstants DEF IInv, TypeOK, QueueBounded, RegisteredOnce,
     StaleSnapshotSound, Waiting, Tick
<1>2. Running' = Running
  BY DEF Running, Tick
<1>3. AgesOrdered'
  <2> SUFFICES ASSUME NEW j \in DOMAIN waiters, NEW i \in 1..(j - 1)
               PROVE  age'[waiters[i]] >= age'[waiters[j]]
    BY DEF AgesOrdered, Tick
  <2>1. waiters[i] \in Waiting /\ waiters[j] \in Waiting
    BY DEF Waiting, Range, IInv, TypeOK
  <2>2. waiters[i] \in Requests /\ waiters[j] \in Requests
    BY DEF IInv, TypeOK
  <2>3. /\ age[waiters[i]] \in 0..MaxAge /\ age[waiters[j]] \in 0..MaxAge
        /\ age[waiters[i]] >= age[waiters[j]]
    BY <2>2 DEF IInv, TypeOK, AgesOrdered
  <2> QED BY <2>1, <2>2, <2>3, LlmConstants DEF Tick
<1> QED BY <1>1, <1>2, <1>3, SameRunning DEF IInv, Tick

\* The inductive step, one case per action.
LEMMA NextIInv == ASSUME IInv, [Next]_vars PROVE IInv'
<1>1. CASE UNCHANGED vars
  <2>1. Running' = Running /\ Waiting' = Waiting
    BY <1>1 DEF Running, Waiting, vars
  <2> QED BY <1>1, <2>1 DEF vars, IInv, TypeOK, RegisteredOnce, QueueBounded,
           CoreAccounting, AgesOrdered, StaleSnapshotSound
<1>2. CASE Next
  BY <1>2, RegisterIInv, LookIInv, RecheckIInv, TimeoutIInv, CancelIInv,
     ReleaseIInv, NotifyIInv, TickIInv DEF Next
<1> QED BY <1>1, <1>2

\* Every reachable state satisfies the inductive invariant.
THEOREM InductiveInvariant == Spec => []IInv
<1>1. Init => IInv
  BY InitIInv
<1>2. IInv /\ [Next]_vars => IInv'
  BY NextIInv
<1> QED BY <1>1, <1>2, PTL DEF Spec

\* The counter of cores in flight is exactly the number of slots handed out
\* and never exceeds the pool, for every pool and any number of callers.
THEOREM CoresNeverOvercommitted == Spec => []CoreAccounting
<1>1. IInv => CoreAccounting
  BY DEF IInv
<1> QED BY <1>1, InductiveInvariant, PTL

\* Callers are queued exactly while they wait, once.
THEOREM WaitersRegisteredOnce == Spec => []RegisteredOnce
<1>1. IInv => RegisteredOnce
  BY DEF IInv
<1> QED BY <1>1, InductiveInvariant, PTL

\* No waiter is overtaken by a later one of the same or a worse nice value.
THEOREM NeverOvertaken == Spec => NoOvertaking
<1> DEFINE A == \A r \in Requests :
       pc[r] # "running" /\ pc'[r] = "running" =>
         \A i \in 1..(Position(r) - 1) : Nice[waiters[i]] > Nice[r]
<1>1. ASSUME IInv, [Next]_vars PROVE [A]_vars
  <2> SUFFICES ASSUME Next, NEW r \in Requests, pc[r] # "running",
                      pc'[r] = "running", NEW i \in 1..(Position(r) - 1)
               PROVE  Nice[waiters[i]] > Nice[r]
    BY <1>1 DEF A
  <2>1. Recheck(r) /\ r \in Waiting
    BY <1>1 DEF IInv, TypeOK, Next, Register, Look, Recheck, Timeout, Cancel,
       Release, NotifyWaiters, Tick
  <2>2. Position(r) \in DOMAIN waiters /\ waiters[Position(r)] = r
    BY <1>1, <2>1, PositionOf DEF IInv, TypeOK
  <2> QED BY <1>1, <2>1, <2>2 DEF IInv, StaleSnapshotSound, Recheck
<1>2. NoOvertaking <=> [][A]_vars
  BY DEF NoOvertaking
<1> QED BY <1>1, <1>2, InductiveInvariant, PTL DEF Spec

=============================================================================
