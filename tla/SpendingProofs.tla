--------------------------- MODULE SpendingProofs ---------------------------
(***************************************************************************)
(* What limits the spending of agents, for any number of them: the quota   *)
(* ledger (the aggregates are the sums of the receipts, and no epoch is    *)
(* sent more attempts than its limit), and the budgets (a ceiling is       *)
(* passed by less than one response, and no counter is behind the rows).   *)
(* These are statements about sums over sets: the first part shows, by the *)
(* least counterexample on cardinality, that a sum does not depend on the  *)
(* order in which its elements are picked.  The second part has one lemma  *)
(* per step of the ledger, the third one per step of the budgets.          *)
(***************************************************************************)
EXTENDS QuotaLedger, Budget, FiniteSetTheorems, WellFoundedInduction, TLAPS

-----------------------------------------------------------------------------
(* Sums over finite sets.                                                  *)

Any(s) == CHOOSE x \in s : TRUE
Sum(v, S) == MapThenSumSet(LAMBDA x : v[x], S)

\* F adds up v over every subset of S the way MapThenSumSet does.
IsFold(F, v, S) ==
  F = [s \in SUBSET S |-> IF s = {} THEN 0 ELSE v[Any(s)] + F[s \ {Any(s)}]]

\* The sum is what some solution of this recursion says.
HasFold(v, S) == \E F \in [SUBSET S -> Nat] : IsFold(F, v, S) /\ Sum(v, S) = F[S]

\* A nonempty set of naturals has a least element: what the inductions on
\* cardinality below use.
LEMMA LeastNat ==
  ASSUME NEW S \in SUBSET Nat, S # {}
  PROVE  \E m \in S : \A y \in S : m <= y
<1> DEFINE R == {ss \in Nat \X Nat : ss[1] < ss[2]}
<1>1. IsWellFoundedOn(R, Nat)
  BY NatLessThanWellFounded DEF OpToRel
<1> HIDE DEF R
<1>2. PICK x \in S : \A y \in S : ~(<<y, x>> \in R)
  BY <1>1, WFMin
<1>3. \A y \in S : x <= y
  <2> TAKE y \in S
  <2>1. x \in Nat /\ y \in Nat
    OBVIOUS
  <2>2. y < x => <<y, x>> \in R
    BY <2>1 DEF R
  <2> QED BY <2>1, <2>2, <1>2
<1> QED BY <1>3

\* What is smaller than the least element is not in the set.
LEMMA BelowLeast ==
  ASSUME NEW S \in SUBSET Nat, NEW m \in S, \A y \in S : m <= y,
         NEW k \in Nat, m = k + 1
  PROVE  k \notin S
OBVIOUS

\* Of a nonempty finite set, what remains without the element that is picked
\* first is a smaller set.
LEMMA AnyRemoved ==
  ASSUME NEW S, IsFiniteSet(S), S # {}
  PROVE  /\ Any(S) \in S
         /\ IsFiniteSet(S \ {Any(S)})
         /\ Cardinality(S \ {Any(S)}) \in Nat
         /\ Cardinality(S) = Cardinality(S \ {Any(S)}) + 1
<1>1. Any(S) \in S
  BY DEF Any
<1>2. IsFiniteSet(S \ {Any(S)}) /\ Cardinality(S \ {Any(S)}) = Cardinality(S) - 1
  BY <1>1, FS_RemoveElement
<1>3. Cardinality(S \ {Any(S)}) \in Nat /\ Cardinality(S) \in Nat
  BY <1>2, FS_CardinalityType
<1> QED BY <1>1, <1>2, <1>3

\* The recursion of MapThenSumSet has a solution on a finite set.
LEMMA FoldExists ==
  ASSUME NEW V, NEW v \in [V -> Nat], NEW S \in SUBSET V, IsFiniteSet(S)
  PROVE  \E F \in [SUBSET S -> Nat] : IsFold(F, v, S)
<1> DEFINE Small(n) == {s \in SUBSET S : Cardinality(s) <= n}
           Solves(F, n) == F = [s \in Small(n) |->
                                  IF s = {} THEN 0 ELSE v[Any(s)] + F[s \ {Any(s)}]]
           Bad == {n \in Nat : ~ \E F \in [Small(n) -> Nat] : Solves(F, n)}
<1>1. \A s \in SUBSET S : IsFiniteSet(s) /\ Cardinality(s) \in Nat /\ Cardinality(s) <= Cardinality(S)
  BY FS_Subset, FS_CardinalityType
<1>2. \A s \in SUBSET S : s # {} =>
        /\ Any(s) \in S /\ s \ {Any(s)} \in SUBSET S
        /\ Cardinality(s) = Cardinality(s \ {Any(s)}) + 1
  BY <1>1, AnyRemoved
<1>3. ASSUME Bad # {} PROVE FALSE
  <2>1. PICK m \in Bad : \A y \in Bad : m <= y
    BY <1>3, LeastNat
  <2>2. CASE m = 0
    <3> DEFINE F == [s \in Small(0) |-> 0]
    <3>1. \A s \in Small(0) : s = {}
      BY <1>1, FS_EmptySet
    <3>2. Solves(F, 0) /\ F \in [Small(0) -> Nat]
      <4> HIDE DEF Small
      <4>1. [s \in Small(0) |-> IF s = {} THEN 0 ELSE v[Any(s)] + F[s \ {Any(s)}]]
              = [s \in Small(0) |-> 0]
        BY <3>1
      <4> QED BY <4>1
    <3> HIDE DEF F, Solves, Small
    <3> QED BY <3>2, <2>1, <2>2
  <2>3. CASE m # 0
    <3>1. m \in Nat /\ m - 1 \in Nat /\ m - 1 \notin Bad
      <4>1. m \in Nat /\ m - 1 \in Nat /\ m = (m - 1) + 1 /\ Bad \in SUBSET Nat
        BY <2>3
      <4> HIDE DEF Bad
      <4> QED BY <4>1, <2>1, BelowLeast
    <3>2. PICK F \in [Small(m - 1) -> Nat] : Solves(F, m - 1)
      BY <3>1
    <3> DEFINE G == [s \in Small(m) |-> IF s = {} THEN 0 ELSE v[Any(s)] + F[s \ {Any(s)}]]
    <3>3. \A s \in Small(m) : s # {} => s \ {Any(s)} \in Small(m - 1)
      BY <1>1, <1>2, <3>1
    <3>4. G \in [Small(m) -> Nat]
      <4>1. \A s \in Small(m) : s # {} => v[Any(s)] \in Nat /\ F[s \ {Any(s)}] \in Nat
        BY <1>2, <3>3, <3>2
      <4> QED BY <4>1
    <3>5. \A s \in Small(m - 1) : s \in Small(m) /\ F[s] = G[s]
      <4> TAKE s \in Small(m - 1)
      <4>1. s \in Small(m)
        BY <1>1, <3>1
      <4>2. F[s] = IF s = {} THEN 0 ELSE v[Any(s)] + F[s \ {Any(s)}]
        BY <3>2
      <4> QED BY <4>1, <4>2
    <3>6. Solves(G, m)
      BY <3>3, <3>5
    <3> HIDE DEF G, Solves, Small
    <3> QED BY <3>4, <3>6, <2>1
  <2> QED BY <2>2, <2>3
<1>4. Small(Cardinality(S)) = SUBSET S
  BY <1>1
<1>5. Cardinality(S) \in Nat
  BY FS_CardinalityType
<1>6. PICK F \in [SUBSET S -> Nat] : Solves(F, Cardinality(S))
  <2>1. Cardinality(S) \notin Bad
    BY <1>3
  <2>2. \E F \in [Small(Cardinality(S)) -> Nat] : Solves(F, Cardinality(S))
    BY <2>1, <1>5
  <2> HIDE DEF Small, Solves
  <2> QED BY <2>2, <1>4
<1>7. IsFold(F, v, S)
  BY <1>4, <1>6 DEF IsFold
<1> QED BY <1>7

\* Two solutions, also those of different sets, agree where their values do.
LEMMA FoldsAgree ==
  ASSUME NEW S, NEW T, NEW v, NEW w, NEW F, NEW G, NEW U \in SUBSET S,
         U \in SUBSET T, IsFiniteSet(U), IsFold(F, v, S), IsFold(G, w, T),
         \A x \in U : v[x] = w[x]
  PROVE  F[U] = G[U]
<1> DEFINE Bad == {n \in Nat : \E s \in SUBSET U : Cardinality(s) = n /\ F[s] # G[s]}
<1>1. ASSUME Bad # {} PROVE FALSE
  <2>1. PICK m \in Bad : \A y \in Bad : m <= y
    BY <1>1, LeastNat
  <2>2. PICK s \in SUBSET U : Cardinality(s) = m /\ F[s] # G[s]
    BY <2>1
  <2>3. IsFiniteSet(s) /\ s \in SUBSET S /\ s \in SUBSET T
    BY FS_Subset
  <2>4. /\ F[s] = IF s = {} THEN 0 ELSE v[Any(s)] + F[s \ {Any(s)}]
        /\ G[s] = IF s = {} THEN 0 ELSE w[Any(s)] + G[s \ {Any(s)}]
    BY <2>3 DEF IsFold
  <2>5. s # {}
    BY <2>2, <2>4
  <2>6. /\ Any(s) \in U /\ s \ {Any(s)} \in SUBSET U
        /\ Cardinality(s \ {Any(s)}) \in Nat /\ m = Cardinality(s \ {Any(s)}) + 1
    BY <2>2, <2>3, <2>5, AnyRemoved
  <2>7. F[s \ {Any(s)}] = G[s \ {Any(s)}]
    <3>1. Cardinality(s \ {Any(s)}) \notin Bad
      <4>1. Bad \in SUBSET Nat
        OBVIOUS
      <4> HIDE DEF Bad
      <4> QED BY <4>1, <2>1, <2>6, BelowLeast
    <3> QED BY <3>1, <2>6
  <2> QED BY <2>2, <2>4, <2>5, <2>6, <2>7
<1>2. Cardinality(U) \in Nat
  BY FS_CardinalityType
<1> QED BY <1>1, <1>2

\* Hence the sum is what any solution says, and solutions are natural.
LEMMA SumIsFold ==
  ASSUME NEW V, NEW v \in [V -> Nat], NEW S \in SUBSET V, IsFiniteSet(S)
  PROVE  HasFold(v, S)
<1>1. PICK F \in [SUBSET S -> Nat] : IsFold(F, v, S)
  BY FoldExists
<1>2. PICK G : IsFold(G, v, S) /\ Sum(v, S) = G[S]
  BY <1>1 DEF Sum, MapThenSumSet, MapThenFoldSet, IsFold, Any
<1>3. S \in SUBSET S
  OBVIOUS
<1>4. F[S] = G[S]
  BY <1>1, <1>2, <1>3, FoldsAgree
<1> QED BY <1>1, <1>2, <1>4 DEF HasFold

\* A sum of naturals over a finite set is a natural number, and 0 if the set is empty.
LEMMA SumType ==
  ASSUME NEW V, NEW v \in [V -> Nat], NEW S \in SUBSET V, IsFiniteSet(S)
  PROVE  Sum(v, S) \in Nat /\ (S = {} => Sum(v, S) = 0)
<1>1. PICK F \in [SUBSET S -> Nat] : IsFold(F, v, S) /\ Sum(v, S) = F[S]
  <2>1. HasFold(v, S)
    BY SumIsFold
  <2> QED BY <2>1 DEF HasFold
<1> QED BY <1>1 DEF IsFold

\* Values that agree on a set have the same sum over it.
LEMMA SumSame ==
  ASSUME NEW V, NEW v \in [V -> Nat], NEW W, NEW w \in [W -> Nat],
         NEW S \in SUBSET V, S \in SUBSET W, IsFiniteSet(S), \A x \in S : v[x] = w[x]
  PROVE  Sum(v, S) = Sum(w, S)
<1>1. PICK F \in [SUBSET S -> Nat] : IsFold(F, v, S) /\ Sum(v, S) = F[S]
  <2>1. HasFold(v, S)
    BY SumIsFold
  <2> QED BY <2>1 DEF HasFold
<1>2. PICK G \in [SUBSET S -> Nat] : IsFold(G, w, S) /\ Sum(w, S) = G[S]
  <2>1. HasFold(w, S)
    BY SumIsFold
  <2> QED BY <2>1 DEF HasFold
<1>3. S \in SUBSET S
  OBVIOUS
<1>4. F[S] = G[S]
  BY <1>1, <1>2, <1>3, FoldsAgree
<1> QED BY <1>1, <1>2, <1>4

\* One step of the recursion, for the element that it picks.
LEMMA SumAny ==
  ASSUME NEW V, NEW v \in [V -> Nat], NEW S \in SUBSET V, IsFiniteSet(S), S # {}
  PROVE  Sum(v, S) = v[Any(S)] + Sum(v, S \ {Any(S)})
<1> DEFINE T == S \ {Any(S)}
<1>1. T \in SUBSET S /\ T \in SUBSET V /\ IsFiniteSet(T)
  BY AnyRemoved
<1>2. PICK F \in [SUBSET S -> Nat] : IsFold(F, v, S) /\ Sum(v, S) = F[S]
  <2>1. HasFold(v, S)
    BY SumIsFold
  <2> QED BY <2>1 DEF HasFold
<1> HIDE DEF T
<1>3. PICK G \in [SUBSET T -> Nat] : IsFold(G, v, T) /\ Sum(v, T) = G[T]
  <2>1. HasFold(v, T)
    BY <1>1, SumIsFold
  <2> QED BY <2>1 DEF HasFold
<1>4. F[T] = G[T]
  <2>1. T \in SUBSET T
    OBVIOUS
  <2> QED BY <1>1, <1>2, <1>3, <2>1, FoldsAgree
<1>5. F[S] = v[Any(S)] + F[T]
  BY <1>2 DEF IsFold, T
<1> QED BY <1>2, <1>3, <1>4, <1>5 DEF T

\* The order in which elements are picked does not matter.
LEMMA SumRemove ==
  ASSUME NEW V, NEW v \in [V -> Nat], NEW S \in SUBSET V, IsFiniteSet(S), NEW x \in S
  PROVE  Sum(v, S) = v[x] + Sum(v, S \ {x})
<1> DEFINE Bad == {n \in Nat : \E s \in SUBSET S : \E y \in s :
                     Cardinality(s) = n /\ Sum(v, s) # v[y] + Sum(v, s \ {y})}
<1>1. ASSUME Bad # {} PROVE FALSE
  <2>1. PICK m \in Bad : \A y \in Bad : m <= y
    BY <1>1, LeastNat
  <2>a. PICK s \in SUBSET S : \E y \in s :
          Cardinality(s) = m /\ Sum(v, s) # v[y] + Sum(v, s \ {y})
    BY <2>1
  <2>2. PICK y \in s : Cardinality(s) = m /\ Sum(v, s) # v[y] + Sum(v, s \ {y})
    BY <2>a
  <2>3. IsFiniteSet(s) /\ s \in SUBSET V /\ s # {}
    BY <2>2, FS_Subset
  <2> DEFINE c == Any(s)
             both == (s \ {c}) \ {y}
  <2>4. /\ c \in s /\ IsFiniteSet(s \ {c}) /\ s \ {c} \in SUBSET S
        /\ Cardinality(s \ {c}) \in Nat /\ m = Cardinality(s \ {c}) + 1
    BY <2>2, <2>3, AnyRemoved
  <2>5. Sum(v, s) = v[c] + Sum(v, s \ {c})
    BY <2>3, SumAny
  <2>6. c # y
    BY <2>2, <2>5
  <2>7. /\ IsFiniteSet(s \ {y}) /\ s \ {y} \in SUBSET S
        /\ Cardinality(s \ {y}) \in Nat /\ m = Cardinality(s \ {y}) + 1
    <3>1. IsFiniteSet(s \ {y}) /\ Cardinality(s \ {y}) = Cardinality(s) - 1
      BY <2>2, <2>3, FS_RemoveElement
    <3>2. Cardinality(s \ {y}) \in Nat /\ Cardinality(s) \in Nat
      BY <2>3, <3>1, FS_CardinalityType
    <3> QED BY <2>2, <3>1, <3>2
  <2> HIDE DEF c
  <2>8. both = (s \ {y}) \ {c} /\ y \in s \ {c} /\ c \in s \ {y}
    BY <2>2, <2>4, <2>6
  <2>9. Sum(v, s \ {c}) = v[y] + Sum(v, both)
    <3>1. Cardinality(s \ {c}) \notin Bad
      <4>1. Bad \in SUBSET Nat
        OBVIOUS
      <4> HIDE DEF Bad
      <4> QED BY <4>1, <2>1, <2>4, BelowLeast
    <3>2. \A z \in s \ {c} : Sum(v, s \ {c}) = v[z] + Sum(v, (s \ {c}) \ {z})
      BY <3>1, <2>4
    <3> HIDE DEF both
    <3> QED BY <3>2, <2>8 DEF both
  <2>10. Sum(v, s \ {y}) = v[c] + Sum(v, both)
    <3>1. Cardinality(s \ {y}) \notin Bad
      <4>1. Bad \in SUBSET Nat
        OBVIOUS
      <4> HIDE DEF Bad
      <4> QED BY <4>1, <2>1, <2>7, BelowLeast
    <3>2. \A z \in s \ {y} : Sum(v, s \ {y}) = v[z] + Sum(v, (s \ {y}) \ {z})
      BY <3>1, <2>7
    <3> HIDE DEF both
    <3> QED BY <3>2, <2>8 DEF both
  <2>11. IsFiniteSet(both) /\ both \in SUBSET V
    BY <2>3, FS_Subset
  <2>12. Sum(v, both) \in Nat /\ v[c] \in Nat /\ v[y] \in Nat
    BY <2>11, <2>3, <2>4, <2>2, SumType
  <2> HIDE DEF both
  <2> QED BY <2>2, <2>5, <2>9, <2>10, <2>12
<1>2. Cardinality(S) \in Nat /\ S \in SUBSET S
  BY FS_CardinalityType
<1> QED BY <1>1, <1>2

\* A value that changes alone changes the sum by as much.
LEMMA SumChange ==
  ASSUME NEW S, IsFiniteSet(S), NEW v \in [S -> Nat], NEW w \in [S -> Nat], NEW x \in S,
         \A y \in S \ {x} : v[y] = w[y]
  PROVE  Sum(v, S) + w[x] = Sum(w, S) + v[x]
<1> DEFINE T == S \ {x}
<1>1. T \in SUBSET S /\ S \in SUBSET S
  OBVIOUS
<1>2. IsFiniteSet(T)
  BY FS_RemoveElement
<1>3. Sum(v, S) = v[x] + Sum(v, T) /\ Sum(w, S) = w[x] + Sum(w, T)
  BY <1>1, SumRemove
<1> HIDE DEF T
<1>4. Sum(v, T) = Sum(w, T)
  <2>1. \A y \in T : v[y] = w[y]
    BY DEF T
  <2> QED BY <1>1, <1>2, <2>1, SumSame
<1>5. Sum(v, T) \in Nat /\ v[x] \in Nat /\ w[x] \in Nat
  BY <1>1, <1>2, SumType
<1> QED BY <1>3, <1>4, <1>5

\* Nothing adds up to nothing.
LEMMA ZeroSum ==
  ASSUME NEW S, IsFiniteSet(S)
  PROVE  Sum([x \in S |-> 0], S) = 0
<1> DEFINE z == [x \in S |-> 0]
           Bad == {n \in Nat : \E s \in SUBSET S : Cardinality(s) = n /\ Sum(z, s) # 0}
<1>1. z \in [S -> Nat] /\ \A x \in S : z[x] = 0
  OBVIOUS
<1> HIDE DEF z
<1>2. ASSUME Bad # {} PROVE FALSE
  <2>1. PICK m \in Bad : \A y \in Bad : m <= y
    BY <1>2, LeastNat
  <2>2. PICK s \in SUBSET S : Cardinality(s) = m /\ Sum(z, s) # 0
    BY <2>1
  <2>3. IsFiniteSet(s)
    BY FS_Subset
  <2>4. s # {}
    BY <1>1, <2>2, <2>3, SumType
  <2>5. /\ Any(s) \in s /\ Cardinality(s \ {Any(s)}) \in Nat
        /\ m = Cardinality(s \ {Any(s)}) + 1
    BY <2>2, <2>3, <2>4, AnyRemoved
  <2>6. Cardinality(s \ {Any(s)}) \notin Bad
    <3>1. Bad \in SUBSET Nat
      OBVIOUS
    <3> HIDE DEF Bad
    <3> QED BY <2>1, <2>5, <3>1, BelowLeast
  <2>7. Sum(z, s \ {Any(s)}) = 0
    BY <2>5, <2>6
  <2>8. Sum(z, s) = z[Any(s)] + Sum(z, s \ {Any(s)})
    BY <1>1, <2>3, <2>4, SumAny
  <2> QED BY <1>1, <2>2, <2>5, <2>7, <2>8
<1>3. Cardinality(S) \in Nat /\ S \in SUBSET S
  BY FS_CardinalityType
<1>4. Sum(z, S) = 0
  BY <1>2, <1>3
<1> QED BY <1>4 DEF z

\* A set that another one contains up to the names of its elements has the
\* smaller sum.
LEMMA SumInjection ==
  ASSUME NEW V, NEW v \in [V -> Nat], NEW S \in SUBSET V, IsFiniteSet(S),
         NEW W, NEW w \in [W -> Nat], NEW T \in SUBSET W, IsFiniteSet(T),
         NEW f \in [T -> S], \A x, y \in T : f[x] = f[y] => x = y,
         \A x \in T : w[x] <= v[f[x]]
  PROVE  Sum(w, T) <= Sum(v, S)
<1> DEFINE Into(t, s) == \A x \in t : f[x] \in s
           Bad == {n \in Nat : \E t \in SUBSET T : \E s \in SUBSET S :
                     Cardinality(t) = n /\ Into(t, s) /\ ~(Sum(w, t) <= Sum(v, s))}
<1>1. ASSUME Bad # {} PROVE FALSE
  <2>1. PICK m \in Bad : \A y \in Bad : m <= y
    BY <1>1, LeastNat
  <2>2. PICK t \in SUBSET T : \E s \in SUBSET S :
          Cardinality(t) = m /\ Into(t, s) /\ ~(Sum(w, t) <= Sum(v, s))
    BY <2>1
  <2>3. PICK s \in SUBSET S :
          Cardinality(t) = m /\ Into(t, s) /\ ~(Sum(w, t) <= Sum(v, s))
    BY <2>2
  <2>4. /\ IsFiniteSet(t) /\ t \in SUBSET W
        /\ IsFiniteSet(s) /\ s \in SUBSET V
    BY FS_Subset
  <2>5. Sum(w, t) \in Nat /\ Sum(v, s) \in Nat /\ (t = {} => Sum(w, t) = 0)
    BY <2>4, SumType
  <2>6. t # {}
    BY <2>3, <2>5
  <2> DEFINE x == Any(t)
             t1 == t \ {x}
             s1 == s \ {f[x]}
  <2>7. /\ x \in t /\ IsFiniteSet(t1) /\ Cardinality(t1) \in Nat /\ m = Cardinality(t1) + 1
    BY <2>3, <2>4, <2>6, AnyRemoved
  <2> HIDE DEF x
  <2>8. f[x] \in s /\ x \in T
    BY <2>3, <2>7
  <2>9. t1 \in SUBSET T /\ s1 \in SUBSET S /\ Into(t1, s1)
    BY <2>3, <2>7, <2>8
  <2>10. Sum(w, t1) <= Sum(v, s1)
    <3>1. Cardinality(t1) \notin Bad
      <4>1. Bad \in SUBSET Nat
        OBVIOUS
      <4> HIDE DEF Bad, t1
      <4> QED BY <4>1, <2>1, <2>7, BelowLeast
    <3> HIDE DEF t1, s1, Into
    <3> QED BY <3>1, <2>7, <2>9
  <2>11. Sum(w, t) = w[x] + Sum(w, t1) /\ Sum(v, s) = v[f[x]] + Sum(v, s1)
    BY <2>4, <2>7, <2>8, SumRemove
  <2>12. IsFiniteSet(s1) /\ s1 \in SUBSET V /\ t1 \in SUBSET W
    BY <2>4, FS_RemoveElement
  <2>13. w[x] \in Nat /\ v[f[x]] \in Nat /\ w[x] <= v[f[x]]
    BY <2>8
  <2> HIDE DEF t1, s1
  <2>14. Sum(w, t1) \in Nat /\ Sum(v, s1) \in Nat
    BY <2>7, <2>12, SumType
  <2> QED BY <2>3, <2>10, <2>11, <2>13, <2>14
<1>2. Cardinality(T) \in Nat /\ T \in SUBSET T /\ S \in SUBSET S
  BY FS_CardinalityType
<1>3. Into(T, S)
  OBVIOUS
<1> HIDE DEF Into
<1>4. Cardinality(T) \notin Bad
  BY <1>1
<1> QED BY <1>2, <1>3, <1>4

-----------------------------------------------------------------------------
(* The sums of the ledger.                                                 *)

States == {"reserved", "in_flight", "reconciled", "estimated"}
Receipt ==
  [id : Nat, state : States, epoch : Epochs, group : Groups, requests : Nat, tokens : Nat]

RequestsIn == [r \in Receipt |-> r.requests]
TokensIn == [r \in Receipt |-> r.tokens]
InEpoch(rs, e) == {r \in rs : r.epoch = e}
InScope(rs, g, e) == {r \in rs : r.epoch = e /\ r.group = g}

\* The kinds of receipts that are added up.  What is kept may have reached the
\* provider: a crash gives back the rest.
OfEpoch(e) == {r \in Receipt : r.epoch = e}
OfScope(g, e) == {r \in Receipt : r.epoch = e /\ r.group = g}
KeptOf(e) == {r \in Receipt : r.epoch = e /\ r.state # "reserved"}

\* The requests that validate_all_provider_epochs adds up for an epoch are the
\* sum over the receipts of that epoch.
LEMMA RequestsAreSum ==
  ASSUME NEW rs \in SUBSET Receipt, IsFiniteSet(rs), NEW e
  PROVE  RequestsOf(rs, e) = Sum(RequestsIn, InEpoch(rs, e))
<1> DEFINE S == {r \in rs : r.epoch = e}
           IsF(F) == F = [s \in SUBSET S |->
                            IF s = {} THEN 0
                            ELSE (CHOOSE x \in s : TRUE).requests + F[s \ {CHOOSE x \in s : TRUE}]]
<1>1. S \in SUBSET Receipt /\ IsFiniteSet(S) /\ S \in SUBSET S
  BY FS_Subset
<1>2. RequestsIn \in [Receipt -> Nat]
  BY DEF RequestsIn, Receipt
<1>3. \A F : IsF(F) <=> IsFold(F, RequestsIn, S)
  <2>1. \A s \in SUBSET S : s # {} => RequestsIn[Any(s)] = (CHOOSE x \in s : TRUE).requests
    BY <1>1 DEF RequestsIn, Any
  <2> TAKE F
  <2>2. [s \in SUBSET S |->
           IF s = {} THEN 0 ELSE RequestsIn[Any(s)] + F[s \ {Any(s)}]]
         = [s \in SUBSET S |->
              IF s = {} THEN 0
              ELSE (CHOOSE x \in s : TRUE).requests + F[s \ {CHOOSE x \in s : TRUE}]]
    <3> HIDE DEF S
    <3> QED BY <2>1 DEF Any
  <2> HIDE DEF S
  <2> QED BY <2>2 DEF IsFold
<1>4. PICK F \in [SUBSET S -> Nat] :
        IsFold(F, RequestsIn, S) /\ Sum(RequestsIn, S) = F[S]
  <2> HIDE DEF S
  <2>1. HasFold(RequestsIn, S)
    BY <1>1, <1>2, SumIsFold
  <2> QED BY <2>1 DEF HasFold
<1>5. PICK G : IsF(G) /\ RequestsOf(rs, e) = G[S]
  <2>1. RequestsOf(rs, e) = (CHOOSE H : IsF(H))[S]
    BY DEF RequestsOf, MapThenSumSet, MapThenFoldSet
  <2>2. IsF(F)
    BY <1>3, <1>4
  <2>3. IsF(CHOOSE H : IsF(H))
    <3> HIDE DEF IsF
    <3> QED BY <2>2
  <2> HIDE DEF IsF, S
  <2> QED BY <2>1, <2>3
<1>6. IsFold(G, RequestsIn, S)
  BY <1>3, <1>5
<1> HIDE DEF S
<1>7. F[S] = G[S]
  BY <1>1, <1>4, <1>6, FoldsAgree
<1> QED BY <1>4, <1>5, <1>7 DEF S, InEpoch

\* The tokens that it adds up for a scope are the sum over the receipts of the
\* scope.
LEMMA TokensAreSum ==
  ASSUME NEW rs \in SUBSET Receipt, IsFiniteSet(rs), NEW g, NEW e
  PROVE  TokensOf(rs, g, e) = Sum(TokensIn, InScope(rs, g, e))
<1> DEFINE S == {r \in rs : r.epoch = e /\ r.group = g}
           IsF(F) == F = [s \in SUBSET S |->
                            IF s = {} THEN 0
                            ELSE (CHOOSE x \in s : TRUE).tokens + F[s \ {CHOOSE x \in s : TRUE}]]
<1>1. S \in SUBSET Receipt /\ IsFiniteSet(S) /\ S \in SUBSET S
  BY FS_Subset
<1>2. TokensIn \in [Receipt -> Nat]
  BY DEF TokensIn, Receipt
<1>3. \A F : IsF(F) <=> IsFold(F, TokensIn, S)
  <2>1. \A s \in SUBSET S : s # {} => TokensIn[Any(s)] = (CHOOSE x \in s : TRUE).tokens
    BY <1>1 DEF TokensIn, Any
  <2> TAKE F
  <2>2. [s \in SUBSET S |->
           IF s = {} THEN 0 ELSE TokensIn[Any(s)] + F[s \ {Any(s)}]]
         = [s \in SUBSET S |->
              IF s = {} THEN 0
              ELSE (CHOOSE x \in s : TRUE).tokens + F[s \ {CHOOSE x \in s : TRUE}]]
    <3> HIDE DEF S
    <3> QED BY <2>1 DEF Any
  <2> HIDE DEF S
  <2> QED BY <2>2 DEF IsFold
<1>4. PICK F \in [SUBSET S -> Nat] :
        IsFold(F, TokensIn, S) /\ Sum(TokensIn, S) = F[S]
  <2> HIDE DEF S
  <2>1. HasFold(TokensIn, S)
    BY <1>1, <1>2, SumIsFold
  <2> QED BY <2>1 DEF HasFold
<1>5. PICK G : IsF(G) /\ TokensOf(rs, g, e) = G[S]
  <2>1. TokensOf(rs, g, e) = (CHOOSE H : IsF(H))[S]
    BY DEF TokensOf, MapThenSumSet, MapThenFoldSet
  <2>2. IsF(F)
    BY <1>3, <1>4
  <2>3. IsF(CHOOSE H : IsF(H))
    <3> HIDE DEF IsF
    <3> QED BY <2>2
  <2> HIDE DEF IsF, S
  <2> QED BY <2>1, <2>3
<1>6. IsFold(G, TokensIn, S)
  BY <1>3, <1>5
<1> HIDE DEF S
<1>7. F[S] = G[S]
  BY <1>1, <1>4, <1>6, FoldsAgree
<1> QED BY <1>4, <1>5, <1>7 DEF S, InScope

\* What replacing one element does to the sum over the elements of a kind: the
\* arithmetic of reservations, refunds and reconciliations.
Share(v, F, x) == IF x \in F THEN v[x] ELSE 0

\* A new element adds its value to the sum of a filtered set, if it passes.
LEMMA SumAdd ==
  ASSUME NEW V, NEW v \in [V -> Nat], NEW S \in SUBSET V, IsFiniteSet(S), NEW F,
         NEW x \in V, x \notin S
  PROVE  /\ Sum(v, S \cap F) \in Nat
         /\ Sum(v, (S \union {x}) \cap F) \in Nat
         /\ Sum(v, (S \union {x}) \cap F) = Sum(v, S \cap F) + Share(v, F, x)
<1> DEFINE T == S \cap F
           U == (S \union {x}) \cap F
<1>1. IsFiniteSet(S \union {x}) /\ S \union {x} \in SUBSET V
  BY FS_AddElement
<1>2. /\ T \in SUBSET V /\ IsFiniteSet(T) /\ U \in SUBSET V /\ IsFiniteSet(U)
  BY <1>1, FS_Subset
<1>3. v[x] \in Nat
  OBVIOUS
<1>4. CASE x \in F
  <2>1. x \in U /\ U \ {x} = T
    BY <1>4
  <2> HIDE DEF T, U
  <2>2. Sum(v, U) = v[x] + Sum(v, T)
    BY <2>1, <1>2, SumRemove
  <2>3. Sum(v, T) \in Nat
    BY <1>2, SumType
  <2>4. Sum(v, U) \in Nat /\ Sum(v, U) = Sum(v, T) + v[x]
    BY <2>2, <2>3, <1>3
  <2> QED BY <2>3, <2>4, <1>4 DEF T, U, Share
<1>5. CASE x \notin F
  <2>1. U = T
    BY <1>5
  <2> HIDE DEF T, U
  <2>2. Sum(v, T) \in Nat
    BY <1>2, SumType
  <2>3. Sum(v, U) = Sum(v, T) + 0
    BY <2>1, <2>2
  <2> QED BY <2>1, <2>2, <2>3, <1>5 DEF T, U, Share
<1> QED BY <1>4, <1>5

\* An element that is taken out takes its value with it.
LEMMA SumWithout ==
  ASSUME NEW V, NEW v \in [V -> Nat], NEW S \in SUBSET V, IsFiniteSet(S), NEW F, NEW x \in S
  PROVE  /\ Sum(v, S \cap F) \in Nat
         /\ Sum(v, (S \ {x}) \cap F) \in Nat
         /\ Sum(v, S \cap F) = Sum(v, (S \ {x}) \cap F) + Share(v, F, x)
<1> DEFINE T == S \ {x}
<1>1. T \in SUBSET V /\ x \in V /\ x \notin T /\ S = T \union {x}
  OBVIOUS
<1>2. IsFiniteSet(T)
  BY FS_RemoveElement
<1> HIDE DEF T
<1> QED BY <1>1, <1>2, SumAdd DEF T

\* T has y where S has x.
Exchanges(v, F, S, x, T, y) ==
  /\ Sum(v, S \cap F) \in Nat /\ Sum(v, T \cap F) \in Nat
  /\ Sum(v, T \cap F) + Share(v, F, x) = Sum(v, S \cap F) + Share(v, F, y)

\* An element that takes the place of another one adds the difference.
LEMMA SumReplace ==
  ASSUME NEW V, NEW v \in [V -> Nat], NEW S \in SUBSET V, IsFiniteSet(S), NEW F,
         NEW x \in S, NEW y \in V, y \notin S \ {x}
  PROVE  Exchanges(v, F, S, x, (S \ {x}) \union {y}, y)
<1> DEFINE T == S \ {x}
<1>1. T \in SUBSET V /\ IsFiniteSet(T) /\ y \notin T
  <2>1. IsFiniteSet(T)
    BY FS_RemoveElement
  <2> QED BY <2>1
<1>2. Share(v, F, x) \in Nat /\ Share(v, F, y) \in Nat
  BY DEF Share
<1>3. /\ Sum(v, S \cap F) \in Nat /\ Sum(v, T \cap F) \in Nat
      /\ Sum(v, S \cap F) = Sum(v, T \cap F) + Share(v, F, x)
  BY SumWithout
<1> HIDE DEF T
<1>4. /\ Sum(v, (T \union {y}) \cap F) \in Nat
      /\ Sum(v, (T \union {y}) \cap F) = Sum(v, T \cap F) + Share(v, F, y)
  BY <1>1, SumAdd
<1> QED BY <1>2, <1>3, <1>4 DEF T, Exchanges

\* The check of the ledger, and the same in terms of these sums.
Validates(rs, rq, tk) ==
  \A e \in Epochs :
    /\ rq[e] = RequestsOf(rs, e)
    /\ \A g \in Groups : tk[g][e] = TokensOf(rs, g, e)

Balances(rs, rq, tk) ==
  \A e \in Epochs :
    /\ rq[e] = Sum(RequestsIn, rs \cap OfEpoch(e))
    /\ \A g \in Groups : tk[g][e] = Sum(TokensIn, rs \cap OfScope(g, e))

\* The ledger validates exactly when its aggregates are these sums.
LEMMA SumsOfLedger ==
  ASSUME NEW rs \in SUBSET Receipt, IsFiniteSet(rs), NEW rq, NEW tk
  PROVE  Validates(rs, rq, tk) <=> Balances(rs, rq, tk)
<1>1. \A e \in Epochs : RequestsOf(rs, e) = Sum(RequestsIn, rs \cap OfEpoch(e))
  <2> TAKE e \in Epochs
  <2>1. RequestsOf(rs, e) = Sum(RequestsIn, InEpoch(rs, e))
    BY RequestsAreSum
  <2>2. InEpoch(rs, e) = rs \cap OfEpoch(e)
    BY DEF InEpoch, OfEpoch
  <2> QED BY <2>1, <2>2
<1>2. \A e \in Epochs, g \in Groups : TokensOf(rs, g, e) = Sum(TokensIn, rs \cap OfScope(g, e))
  <2> TAKE e \in Epochs, g \in Groups
  <2>1. TokensOf(rs, g, e) = Sum(TokensIn, InScope(rs, g, e))
    BY TokensAreSum
  <2>2. InScope(rs, g, e) = rs \cap OfScope(g, e)
    BY DEF InScope, OfScope
  <2> QED BY <2>1, <2>2
<1> QED BY <1>1, <1>2 DEF Balances, Validates

-----------------------------------------------------------------------------
(* The inductive invariant.                                                *)

Places == {"idle", "snapshot", "permit", "denied", "reserved", "invoked"}

TypeOK ==
  /\ floor \in Epochs /\ receipts \in SUBSET Receipt /\ IsFiniteSet(receipts)
  /\ requests \in [Epochs -> Nat] /\ tokens \in [Groups -> [Epochs -> Nat]]
  /\ process \in {"down", "recovering", "up"} /\ healthy \in BOOLEAN /\ last_pruned \in Nat
  /\ member \in [Agents -> [group : Groups, revision : Nat]]
  /\ pc \in [Agents -> Places]
  /\ call \in [Agents -> [group : Groups \union {"none"}, revision : Nat, id : Nat,
                          epoch : Epochs, used : 0..Attempts]]
  /\ sent \in [Epochs -> Nat] /\ issued \in Nat /\ crashes \in Nat

Holds(a) == pc[a] \in {"reserved", "invoked"}

\* Identifiers are not used twice.
IdsUnique == \A r \in receipts : r.id <= issued /\ \A q \in receipts : q.id = r.id => q = r

\* The receipt that a call holds is in the ledger, in the state that the call
\* believes it to be in, and it is nobody else's.
Backed(rs, a) ==
  \E r \in rs :
    /\ r.id = call[a].id /\ r.epoch = call[a].epoch /\ r.requests = Attempts
    /\ r.state = IF pc[a] = "reserved" THEN "reserved" ELSE "in_flight"
CallsHoldReceipts ==
  \A a \in Agents : Holds(a) =>
    /\ Backed(receipts, a)
    /\ \A b \in Agents : Holds(b) /\ call[b].id = call[a].id => b = a

\* Calls exist while the process is up; a call was admitted no later than the
\* floor says, and sends only once its receipt is in flight.
CallsInOrder ==
  \A a \in Agents :
    /\ call[a].epoch <= floor
    /\ pc[a] # "invoked" => call[a].used = 0
    /\ pc[a] # "idle" => process = "up" /\ call[a].group \in Groups

\* Attempts that the calls in flight may still make in an epoch.
Owing(e) ==
  [a \in Agents |->
     IF pc[a] = "invoked" /\ call[a].epoch = e THEN Attempts - call[a].used ELSE 0]
Owed(e) == Sum(Owing(e), Agents)

KeptRequests(e) == Sum(RequestsIn, receipts \cap KeptOf(e))
HasLive(e) == \E r \in receipts : r.epoch = e /\ r.state \in Live

\* As long as an epoch admits calls or a call of it is under way, and so as long
\* as it cannot be pruned, its receipts cover what was sent and what may be sent
\* yet.  Afterwards nothing is sent in it any more.
SentIsCovered ==
  \A e \in Epochs : e >= floor \/ HasLive(e) =>
    sent[e] + Owed(e) <= KeptRequests(e)

WithinLimit == \A e \in Epochs : requests[e] <= RPM

IInv ==
  /\ TypeOK /\ IdsUnique /\ CallsHoldReceipts /\ CallsInOrder
  /\ LedgerMatchesReceipts /\ WithinLimit /\ SentIsCovered /\ SentWithinQuota

-----------------------------------------------------------------------------
(* What the steps use.                                                     *)

\* The epoch that is used is an epoch, at the floor or later.
LEMMA EffectiveEpochType ==
  ASSUME TypeOK, NEW now \in Epochs
  PROVE  EffectiveEpoch(now) \in Epochs /\ EffectiveEpoch(now) >= floor
<1>1. floor \in Nat /\ now \in Nat
  BY QuotaConstants DEF TypeOK, Epochs
<1>2. \E x \in {floor, now} : \A y \in {floor, now} : x >= y
  BY <1>1
<1>3. EffectiveEpoch(now) \in {floor, now} /\ \A y \in {floor, now} : EffectiveEpoch(now) >= y
  BY <1>2 DEF EffectiveEpoch, Max
<1> QED BY <1>3 DEF TypeOK

\* The receipt of a call is the one the ledger knows by its identifier.
LEMMA HeldReceipt ==
  ASSUME IInv, NEW a \in Agents, Holds(a)
  PROVE  /\ ReceiptOf(a) \in receipts /\ ReceiptOf(a) \in Receipt
         /\ ReceiptOf(a).id = call[a].id /\ ReceiptOf(a).epoch = call[a].epoch
         /\ ReceiptOf(a).requests = Attempts
         /\ ReceiptOf(a).state = IF pc[a] = "reserved" THEN "reserved" ELSE "in_flight"
         /\ \A r \in receipts : r.id = call[a].id => r = ReceiptOf(a)
<1>1. PICK r \in receipts :
        /\ r.id = call[a].id /\ r.epoch = call[a].epoch /\ r.requests = Attempts
        /\ r.state = IF pc[a] = "reserved" THEN "reserved" ELSE "in_flight"
  BY DEF IInv, CallsHoldReceipts, Backed
<1>2. ReceiptOf(a) \in receipts /\ ReceiptOf(a).id = call[a].id
  BY <1>1 DEF ReceiptOf
<1>3. ReceiptOf(a) = r /\ \A q \in receipts : q.id = call[a].id => q = r
  BY <1>1, <1>2 DEF IInv, IdsUnique
<1>4. r \in Receipt
  BY <1>1 DEF IInv, TypeOK
<1> QED BY <1>1, <1>2, <1>3, <1>4

\* What calls owe is natural, and so is its sum.
LEMMA OwingType ==
  ASSUME TypeOK, NEW e
  PROVE  Owing(e) \in [Agents -> Nat] /\ Owed(e) \in Nat
<1>1. Attempts \in Nat
  BY QuotaConstants
<1>2. \A a \in Agents : call[a].used \in 0..Attempts
  BY DEF TypeOK
<1>3. \A a \in Agents : Attempts - call[a].used \in Nat
  BY <1>1, <1>2
<1>4. Owing(e) \in [Agents -> Nat]
  BY <1>3 DEF Owing
<1>5. Agents \in SUBSET Agents /\ IsFiniteSet(Agents)
  BY FinitelyManyAgents
<1>6. Sum(Owing(e), Agents) \in Nat
  BY <1>4, <1>5, SumType
<1> QED BY <1>4, <1>6 DEF Owed

\* A step of one call changes what is owed by what this call owes.
LEMMA OwedChange ==
  ASSUME TypeOK, TypeOK', NEW e, NEW a \in Agents,
         \A b \in Agents \ {a} : pc'[b] = pc[b] /\ call'[b] = call[b]
  PROVE  /\ Owed(e) \in Nat /\ Owed(e)' \in Nat
         /\ Owing(e)[a] \in Nat /\ Owing(e)'[a] \in Nat
         /\ Owed(e) + Owing(e)'[a] = Owed(e)' + Owing(e)[a]
<1>1. Owing(e) \in [Agents -> Nat] /\ Owed(e) \in Nat
  BY OwingType
<1>2. Owing(e)' \in [Agents -> Nat] /\ Owed(e)' \in Nat
  <2>1. \A b \in Agents : call'[b].used \in 0..Attempts
    BY DEF TypeOK
  <2>2. \A b \in Agents : Attempts - call'[b].used \in Nat
    BY <2>1, QuotaConstants
  <2>3. Owing(e)' \in [Agents -> Nat]
    BY <2>2 DEF Owing
  <2>4. Agents \in SUBSET Agents /\ IsFiniteSet(Agents)
    BY FinitelyManyAgents
  <2>5. Sum(Owing(e)', Agents) \in Nat
    BY <2>3, <2>4, SumType
  <2> QED BY <2>3, <2>5 DEF Owed
<1>3. \A b \in Agents \ {a} : Owing(e)[b] = Owing(e)'[b]
  BY DEF Owing
<1>4. IsFiniteSet(Agents)
  BY FinitelyManyAgents
<1>5. Sum(Owing(e), Agents) + Owing(e)'[a] = Sum(Owing(e)', Agents) + Owing(e)[a]
  BY <1>1, <1>2, <1>3, <1>4, SumChange
<1> QED BY <1>1, <1>2, <1>5 DEF Owed

\* The sums that the limit is about are never below those of the kept receipts.
LEMMA KeptWithinRequests ==
  ASSUME IInv, NEW e \in Epochs
  PROVE  /\ KeptRequests(e) \in Nat /\ requests[e] \in Nat
         /\ KeptRequests(e) <= requests[e]
         /\ requests[e] = Sum(RequestsIn, receipts \cap OfEpoch(e))
<1> DEFINE T == receipts \cap KeptOf(e)
           S == receipts \cap OfEpoch(e)
           f == [r \in T |-> r]
<1>1. RequestsIn \in [Receipt -> Nat]
  BY DEF RequestsIn, Receipt
<1>2. receipts \in SUBSET Receipt /\ IsFiniteSet(receipts)
  BY DEF IInv, TypeOK
<1>3. S \in SUBSET Receipt /\ T \in SUBSET Receipt /\ IsFiniteSet(S) /\ IsFiniteSet(T)
  BY <1>2, FS_Subset
<1>4. T \in SUBSET S
  BY DEF KeptOf, OfEpoch
<1>5. /\ f \in [T -> S] /\ \A x, y \in T : f[x] = f[y] => x = y
      /\ \A x \in T : RequestsIn[x] <= RequestsIn[f[x]]
  <2>1. \A x \in T : RequestsIn[x] \in Nat
    BY <1>1, <1>3
  <2> HIDE DEF T, S
  <2>2. \A x \in T : f[x] = x
    OBVIOUS
  <2>3. f \in [T -> S]
    BY <1>4
  <2> HIDE DEF f
  <2> QED BY <2>1, <2>2, <2>3
<1> HIDE DEF S, T, f
<1>6. Sum(RequestsIn, T) <= Sum(RequestsIn, S)
  BY <1>1, <1>3, <1>5, SumInjection
<1>7. Sum(RequestsIn, T) \in Nat
  BY <1>1, <1>3, SumType
<1>8. requests[e] = Sum(RequestsIn, S)
  <2>1. Balances(receipts, requests, tokens)
    BY <1>2, SumsOfLedger DEF IInv, LedgerMatchesReceipts, LedgerValidates, Validates
  <2> QED BY <2>1 DEF Balances, S
<1>9. requests[e] \in Nat
  BY DEF IInv, TypeOK
<1> QED BY <1>6, <1>7, <1>8, <1>9 DEF KeptRequests, T, S

\* A step that leaves the ledger and what was sent alone, and after which a call
\* owes no more than before, disturbs no account.
LEMMA LedgerAlone ==
  ASSUME IInv, TypeOK', UNCHANGED <<ledger, sent>>, NEW a \in Agents,
         \A b \in Agents \ {a} : pc'[b] = pc[b] /\ call'[b] = call[b],
         \A e \in Epochs : Owing(e)'[a] <= Owing(e)[a]
  PROVE  LedgerMatchesReceipts' /\ WithinLimit' /\ SentIsCovered' /\ SentWithinQuota'
<1>1. LedgerMatchesReceipts' /\ WithinLimit' /\ SentWithinQuota'
  BY DEF IInv, LedgerMatchesReceipts, LedgerValidates, WithinLimit, SentWithinQuota, ledger
<1>2. SentIsCovered'
  <2> SUFFICES ASSUME NEW e \in Epochs, e >= floor' \/ HasLive(e)'
               PROVE  sent'[e] + Owed(e)' <= KeptRequests(e)'
    BY DEF SentIsCovered
  <2>1. sent[e] + Owed(e) <= KeptRequests(e)
    BY DEF IInv, SentIsCovered, HasLive, ledger
  <2>2. /\ Owed(e) \in Nat /\ Owed(e)' \in Nat /\ Owing(e)[a] \in Nat /\ Owing(e)'[a] \in Nat
        /\ Owed(e) + Owing(e)'[a] = Owed(e)' + Owing(e)[a]
    BY OwedChange DEF IInv
  <2>3. Owing(e)'[a] <= Owing(e)[a]
    OBVIOUS
  <2>4. KeptRequests(e)' = KeptRequests(e) /\ KeptRequests(e) \in Nat
    BY KeptWithinRequests DEF KeptRequests, ledger
  <2>5. sent'[e] = sent[e] /\ sent[e] \in Nat
    BY DEF IInv, TypeOK
  <2> QED BY <2>1, <2>2, <2>3, <2>4, <2>5
<1> QED BY <1>1, <1>2

-----------------------------------------------------------------------------
(* The steps.                                                              *)

\* A step of a call that does not hold a receipt afterwards, and that leaves the
\* ledger alone.
LEMMA CallAlone ==
  ASSUME IInv, TypeOK', UNCHANGED <<ledger, sent, issued, process>>, NEW a \in Agents,
         \A b \in Agents \ {a} : pc'[b] = pc[b] /\ call'[b] = call[b],
         pc'[a] \notin {"reserved", "invoked"},
         call'[a].epoch <= floor, call'[a].used = 0,
         pc'[a] # "idle" => process = "up" /\ call'[a].group \in Groups
  PROVE  IInv'
<1>1. IdsUnique'
  BY DEF IInv, IdsUnique, ledger
<1>2. CallsHoldReceipts'
  <2> SUFFICES ASSUME NEW b \in Agents, Holds(b)'
               PROVE  /\ Backed(receipts, b)'
                      /\ \A c \in Agents : Holds(c)' /\ call'[c].id = call'[b].id => c = b
    BY DEF CallsHoldReceipts
  <2>1. b # a /\ Holds(b) /\ pc'[b] = pc[b] /\ call'[b] = call[b]
    BY DEF Holds
  <2>2. \A c \in Agents : Holds(c)' => Holds(c) /\ call'[c] = call[c]
    BY DEF Holds
  <2> QED BY <2>1, <2>2 DEF IInv, CallsHoldReceipts, Backed, ledger
<1>3. CallsInOrder'
  BY DEF IInv, CallsInOrder, ledger
<1>4. \A e \in Epochs : Owing(e)'[a] <= Owing(e)[a]
  <2> TAKE e \in Epochs
  <2>1. Owing(e)'[a] = 0
    BY DEF Owing
  <2>2. Owing(e)[a] \in Nat
    BY OwingType DEF IInv
  <2> QED BY <2>1, <2>2
<1>5. LedgerMatchesReceipts' /\ WithinLimit' /\ SentIsCovered' /\ SentWithinQuota'
  BY <1>4, LedgerAlone
<1> QED BY <1>1, <1>2, <1>3, <1>5 DEF IInv

\* A call that begins holds nothing yet.
LEMMA SnapshotStep == ASSUME IInv, NEW a \in Agents, Snapshot(a) PROVE IInv'
<1> USE DEF Snapshot, At, Goto
<1>1. call'[a] = [NoCall EXCEPT !.group = member[a].group, !.revision = member[a].revision]
  BY DEF IInv, TypeOK
<1>2. 0 \in Epochs /\ 0 \in 0..Attempts /\ floor >= 0 /\ floor \in Nat
  BY QuotaConstants DEF IInv, TypeOK, Epochs
<1>3. TypeOK'
  BY <1>2 DEF IInv, TypeOK, NoCall, ledger, bounds, Places
<1>4. call'[a].epoch = 0 /\ call'[a].used = 0 /\ call'[a].group \in Groups
  BY <1>1 DEF IInv, TypeOK, NoCall
<1>5. /\ \A b \in Agents \ {a} : pc'[b] = pc[b] /\ call'[b] = call[b]
      /\ pc'[a] = "snapshot"
  BY DEF IInv, TypeOK
<1> QED BY <1>2, <1>3, <1>4, <1>5, CallAlone DEF bounds

\* A call that ends leaves nothing behind.
LEMMA EndsCall ==
  ASSUME IInv, NEW a \in Agents, Ends(a)
  PROVE  /\ pc' \in [Agents -> Places]
         /\ call' \in [Agents -> [group : Groups \union {"none"}, revision : Nat, id : Nat,
                                  epoch : Epochs, used : 0..Attempts]]
         /\ \A b \in Agents \ {a} : pc'[b] = pc[b] /\ call'[b] = call[b]
         /\ pc'[a] = "idle" /\ call'[a].epoch <= floor /\ call'[a].used = 0
         /\ \A e : Owing(e)'[a] = 0
<1>1. 0 \in Epochs /\ 0 \in 0..Attempts /\ 0 <= floor
  BY QuotaConstants DEF IInv, TypeOK, Epochs
<1>2. /\ pc' \in [Agents -> Places]
      /\ call' \in [Agents -> [group : Groups \union {"none"}, revision : Nat, id : Nat,
                               epoch : Epochs, used : 0..Attempts]]
      /\ \A b \in Agents \ {a} : pc'[b] = pc[b] /\ call'[b] = call[b]
      /\ pc'[a] = "idle" /\ call'[a] = NoCall
  BY <1>1 DEF IInv, TypeOK, Ends, Goto, NoCall, Places
<1> QED BY <1>1, <1>2 DEF NoCall, Owing

\* A call that ends without having changed the ledger.
LEMMA EndsAlone ==
  ASSUME IInv, NEW a \in Agents, Ends(a), healthy' \in BOOLEAN,
         UNCHANGED <<ledger, process, last_pruned, member, sent, bounds>>
  PROVE  IInv'
<1>1. TypeOK'
  BY EndsCall DEF IInv, TypeOK, ledger, bounds
<1> QED BY <1>1, EndsCall, CallAlone DEF bounds

\* A permit of the limiter does not concern the ledger.
LEMMA PermitStep == ASSUME IInv, NEW a \in Agents, Permit(a) PROVE IInv'
<1> USE DEF Permit, At, Goto
<1>1. TypeOK'
  BY DEF IInv, TypeOK, ledger, bounds, Places
<1>2. /\ \A b \in Agents \ {a} : pc'[b] = pc[b] /\ call'[b] = call[b]
      /\ pc'[a] = "permit" /\ call'[a] = call[a]
  BY DEF IInv, TypeOK
<1>3. call[a].epoch <= floor /\ call[a].used = 0 /\ process = "up" /\ call[a].group \in Groups
  BY DEF IInv, CallsInOrder
<1> QED BY <1>1, <1>2, <1>3, CallAlone DEF bounds

\* A move between groups leaves calls, and the receipts they hold, alone.
LEMMA MoveStep == ASSUME IInv, NEW a \in Agents, NEW g \in Groups, Move(a, g) PROVE IInv'
<1>1. TypeOK'
  BY DEF IInv, TypeOK, Move, ledger, bounds
<1>2. UNCHANGED <<ledger, sent, issued, process, pc, call>>
  BY DEF Move, bounds
<1>3. IdsUnique' /\ CallsHoldReceipts' /\ CallsInOrder'
  BY <1>2 DEF IInv, IdsUnique, CallsHoldReceipts, Backed, CallsInOrder, Holds, ledger
<1>4. \A e \in Epochs : Owing(e)'[a] <= Owing(e)[a]
  <2> TAKE e \in Epochs
  <2>1. Owing(e)' = Owing(e)
    BY <1>2 DEF Owing
  <2>2. Owing(e)[a] \in Nat
    BY OwingType DEF IInv
  <2> QED BY <2>1, <2>2
<1>5. LedgerMatchesReceipts' /\ WithinLimit' /\ SentIsCovered' /\ SentWithinQuota'
  BY <1>1, <1>2, <1>4, LedgerAlone
<1> QED BY <1>1, <1>3, <1>5 DEF IInv

\* An attempt is paid for by what its call owes.
LEMMA SendStep == ASSUME IInv, NEW a \in Agents, Send(a) PROVE IInv'
<1>0. PICK d : d = call[a].epoch
  OBVIOUS
<1>1. /\ process = "up" /\ pc[a] = "invoked" /\ call[a].used < Attempts
      /\ sent' = [sent EXCEPT ![d] = @ + 1]
      /\ call' = [call EXCEPT ![a].used = @ + 1]
      /\ UNCHANGED <<ledger, process, healthy, last_pruned, member, pc, bounds>>
  BY <1>0 DEF Send, At
<1>2. /\ d \in Epochs /\ call[a].used \in Nat /\ Attempts \in Nat
      /\ call[a].used + 1 \in 0..Attempts
  BY <1>0, <1>1, QuotaConstants DEF IInv, TypeOK
<1>3. TypeOK'
  <2>1. call' \in [Agents -> [group : Groups \union {"none"}, revision : Nat, id : Nat,
                               epoch : Epochs, used : 0..Attempts]]
    BY <1>1, <1>2 DEF IInv, TypeOK
  <2>2. sent' \in [Epochs -> Nat]
    BY <1>1, <1>2 DEF IInv, TypeOK
  <2> QED BY <1>1, <2>1, <2>2 DEF IInv, TypeOK, ledger, bounds
<1>4. /\ \A b \in Agents \ {a} : call'[b] = call[b]
      /\ call'[a].id = call[a].id /\ call'[a].epoch = d /\ call'[a].group = call[a].group
      /\ call'[a].used = call[a].used + 1
  BY <1>0, <1>1 DEF IInv, TypeOK
<1>5. \A b \in Agents : call'[b].id = call[b].id /\ call'[b].epoch = call[b].epoch
                        /\ call'[b].group = call[b].group
  BY <1>0, <1>4
<1>6. IdsUnique' /\ CallsHoldReceipts'
  BY <1>1, <1>5 DEF IInv, IdsUnique, CallsHoldReceipts, Backed, Holds, ledger, bounds
<1>7. CallsInOrder'
  <2>1. \A b \in Agents : pc'[b] # "invoked" => call'[b].used = call[b].used
    BY <1>1, <1>4
  <2> QED BY <1>1, <1>5, <2>1 DEF IInv, CallsInOrder, ledger
<1>8. LedgerMatchesReceipts' /\ WithinLimit'
  BY <1>1 DEF IInv, LedgerMatchesReceipts, LedgerValidates, WithinLimit, ledger
<1>9. SentIsCovered'
  <2> SUFFICES ASSUME NEW e \in Epochs, e >= floor' \/ HasLive(e)'
               PROVE  sent'[e] + Owed(e)' <= KeptRequests(e)'
    BY DEF SentIsCovered
  <2>1. sent[e] + Owed(e) <= KeptRequests(e)
    BY <1>1 DEF IInv, SentIsCovered, HasLive, ledger
  <2>2. /\ Owed(e) \in Nat /\ Owed(e)' \in Nat /\ Owing(e)[a] \in Nat /\ Owing(e)'[a] \in Nat
        /\ Owed(e) + Owing(e)'[a] = Owed(e)' + Owing(e)[a]
    BY <1>1, <1>3, <1>4, OwedChange DEF IInv
  <2>3. KeptRequests(e)' = KeptRequests(e) /\ KeptRequests(e) \in Nat
    BY <1>1, KeptWithinRequests DEF KeptRequests, ledger
  <2>4. sent[e] \in Nat
    BY DEF IInv, TypeOK
  <2>5. CASE e = d
    <3>1. sent'[e] = sent[e] + 1
      BY <1>1, <2>5 DEF IInv, TypeOK
    <3>2. Owing(e)[a] = Owing(e)'[a] + 1
      <4>1. Owing(e)[a] = Attempts - call[a].used /\ Owing(e)'[a] = Attempts - call'[a].used
        BY <1>0, <1>1, <1>4, <2>5 DEF Owing
      <4> QED BY <4>1, <1>2, <1>4
    <3> QED BY <2>1, <2>2, <2>3, <2>4, <3>1, <3>2
  <2>6. CASE e # d
    <3>1. sent'[e] = sent[e]
      BY <1>1, <2>6 DEF IInv, TypeOK
    <3>2. Owing(e)[a] = 0 /\ Owing(e)'[a] = 0
      BY <1>0, <1>4, <2>6 DEF Owing
    <3> QED BY <2>1, <2>2, <2>3, <2>4, <3>1, <3>2
  <2> QED BY <2>5, <2>6
<1>10. SentWithinQuota'
  <2>1. HasLive(d)'
    <3>1. Holds(a)
      BY <1>1 DEF Holds
    <3>2. ReceiptOf(a) \in receipts /\ ReceiptOf(a).epoch = d /\ ReceiptOf(a).state = "in_flight"
      BY <1>0, <1>1, <3>1, HeldReceipt
    <3> QED BY <3>2, <1>1 DEF HasLive, Live, ledger
  <2>2. sent'[d] + Owed(d)' <= KeptRequests(d)'
    BY <1>2, <1>9, <2>1 DEF SentIsCovered
  <2>3. KeptRequests(d)' = KeptRequests(d) /\ KeptRequests(d) <= requests[d]
        /\ KeptRequests(d) \in Nat /\ requests[d] \in Nat
    BY <1>1, <1>2, KeptWithinRequests DEF KeptRequests, ledger
  <2>4. requests[d] <= RPM /\ RPM \in Nat
    BY <1>2, QuotaConstants DEF IInv, WithinLimit
  <2>5. Owed(d)' \in Nat
    BY <1>1, <1>3, <1>4, OwedChange DEF IInv
  <2>6. sent'[d] \in Nat
    BY <1>2, <1>3 DEF TypeOK
  <2>7. sent'[d] <= RPM
    BY <2>2, <2>3, <2>4, <2>5, <2>6
  <2>8. \A e \in Epochs \ {d} : sent'[e] = sent[e]
    BY <1>1 DEF IInv, TypeOK
  <2> QED BY <2>7, <2>8 DEF IInv, SentWithinQuota
<1> QED BY <1>3, <1>6, <1>7, <1>8, <1>9, <1>10 DEF IInv

\* Calls that keep what they hold, when all receipts but one are as before.
LEMMA OthersHold ==
  ASSUME IInv, NEW a \in Agents, Holds(a), NEW rs, receipts \ {ReceiptOf(a)} \subseteq rs,
         NEW b \in Agents, b # a, Holds(b)
  PROVE  /\ Backed(rs, b)
         /\ call[b].id # call[a].id
<1>1. call[b].id # call[a].id
  BY DEF IInv, CallsHoldReceipts, Backed
<1>2. ReceiptOf(a).id = call[a].id
  BY HeldReceipt
<1>3. /\ ReceiptOf(b) \in receipts /\ ReceiptOf(b).id = call[b].id
      /\ ReceiptOf(b).epoch = call[b].epoch /\ ReceiptOf(b).requests = Attempts
      /\ ReceiptOf(b).state = IF pc[b] = "reserved" THEN "reserved" ELSE "in_flight"
  BY HeldReceipt
<1>4. ReceiptOf(b) \in rs
  BY <1>1, <1>2, <1>3
<1> QED BY <1>1, <1>3, <1>4 DEF Backed

\* One receipt takes the place of another with its identifier.
LEMMA ReceiptReplaced ==
  ASSUME IInv, NEW a \in Agents, Holds(a), NEW q \in Receipt, q.id = call[a].id,
         receipts' = (receipts \ {ReceiptOf(a)}) \union {q}, issued' = issued
  PROVE  /\ receipts' \in SUBSET Receipt /\ IsFiniteSet(receipts') /\ IdsUnique'
         /\ \A v \in [Receipt -> Nat] : \A F :
              Exchanges(v, F, receipts, ReceiptOf(a), receipts', q)
<1>0. PICK r : r = ReceiptOf(a)
  OBVIOUS
<1>1. receipts \in SUBSET Receipt /\ IsFiniteSet(receipts)
  BY DEF IInv, TypeOK
<1>2. r \in receipts /\ r.id = call[a].id /\ \A p \in receipts : p.id = r.id => p = r
  BY <1>0, HeldReceipt
<1>3. q \notin receipts \ {r}
  BY <1>2
<1>4. receipts' \in SUBSET Receipt /\ IsFiniteSet(receipts')
  <2>1. IsFiniteSet(receipts \ {r})
    BY <1>1, FS_RemoveElement
  <2>2. IsFiniteSet((receipts \ {r}) \union {q})
    BY <2>1, FS_AddElement
  <2> QED BY <2>2, <1>0, <1>1
<1>5. IdsUnique'
  BY <1>0, <1>2 DEF IInv, IdsUnique
<1>6. ASSUME NEW v \in [Receipt -> Nat], NEW F
      PROVE  Exchanges(v, F, receipts, r, (receipts \ {r}) \union {q}, q)
  BY <1>1, <1>2, <1>3, SumReplace
<1> QED BY <1>0, <1>4, <1>5, <1>6

\* The aggregates follow when the contribution of the receipt is replaced, by
\* ReplaceContribution or, for an equal one, by doing nothing.
LEMMA ContributionReplaced ==
  ASSUME IInv, NEW a \in Agents, Holds(a), NEW q \in Receipt, q.id = call[a].id,
         receipts' = (receipts \ {ReceiptOf(a)}) \union {q}, issued' = issued,
         q.epoch = ReceiptOf(a).epoch, q.group = ReceiptOf(a).group,
         \A e \in Epochs :
           /\ requests'[e] = IF e = q.epoch
                               THEN (requests[e] - ReceiptOf(a).requests) + q.requests
                               ELSE requests[e]
           /\ \A g \in Groups :
                tokens'[g][e] = IF e = q.epoch /\ g = q.group
                                  THEN (tokens[g][e] - ReceiptOf(a).tokens) + q.tokens
                                  ELSE tokens[g][e]
  PROVE  LedgerMatchesReceipts'
<1>0. PICK r : r = ReceiptOf(a)
  OBVIOUS
<1>1. RequestsIn \in [Receipt -> Nat] /\ TokensIn \in [Receipt -> Nat]
  BY DEF RequestsIn, TokensIn, Receipt
<1>2. receipts' \in SUBSET Receipt /\ IsFiniteSet(receipts')
  BY ReceiptReplaced
<1>a. \A v \in [Receipt -> Nat] : \A F : Exchanges(v, F, receipts, r, receipts', q)
  BY <1>0, ReceiptReplaced
<1>3. r \in Receipt /\ r.requests \in Nat /\ r.tokens \in Nat /\ q.requests \in Nat /\ q.tokens \in Nat
  BY <1>0, HeldReceipt DEF Receipt
<1>4. Balances(receipts, requests, tokens)
  <2>1. receipts \in SUBSET Receipt /\ IsFiniteSet(receipts)
    BY DEF IInv, TypeOK
  <2> QED BY <2>1, SumsOfLedger DEF IInv, LedgerMatchesReceipts, LedgerValidates, Validates
<1>5. ASSUME NEW e \in Epochs
      PROVE  requests'[e] = Sum(RequestsIn, receipts' \cap OfEpoch(e))
  <2>1. /\ Sum(RequestsIn, receipts \cap OfEpoch(e)) \in Nat
        /\ Sum(RequestsIn, receipts' \cap OfEpoch(e)) \in Nat
        /\ Sum(RequestsIn, receipts' \cap OfEpoch(e)) + Share(RequestsIn, OfEpoch(e), r)
             = Sum(RequestsIn, receipts \cap OfEpoch(e)) + Share(RequestsIn, OfEpoch(e), q)
    BY <1>0, <1>1, <1>a DEF Exchanges
  <2>2. /\ Share(RequestsIn, OfEpoch(e), r) = IF e = q.epoch THEN r.requests ELSE 0
        /\ Share(RequestsIn, OfEpoch(e), q) = IF e = q.epoch THEN q.requests ELSE 0
    BY <1>0, <1>3 DEF Share, OfEpoch, RequestsIn
  <2>3. requests[e] = Sum(RequestsIn, receipts \cap OfEpoch(e))
    BY <1>4 DEF Balances
  <2>4. requests'[e] = IF e = q.epoch THEN (requests[e] - r.requests) + q.requests ELSE requests[e]
    BY <1>0
  <2> QED BY <1>3, <2>1, <2>2, <2>3, <2>4
<1>6. ASSUME NEW e \in Epochs, NEW g \in Groups
      PROVE  tokens'[g][e] = Sum(TokensIn, receipts' \cap OfScope(g, e))
  <2>1. /\ Sum(TokensIn, receipts \cap OfScope(g, e)) \in Nat
        /\ Sum(TokensIn, receipts' \cap OfScope(g, e)) \in Nat
        /\ Sum(TokensIn, receipts' \cap OfScope(g, e)) + Share(TokensIn, OfScope(g, e), r)
             = Sum(TokensIn, receipts \cap OfScope(g, e)) + Share(TokensIn, OfScope(g, e), q)
    BY <1>0, <1>1, <1>a DEF Exchanges
  <2>2. /\ Share(TokensIn, OfScope(g, e), r) = IF e = q.epoch /\ g = q.group THEN r.tokens ELSE 0
        /\ Share(TokensIn, OfScope(g, e), q) = IF e = q.epoch /\ g = q.group THEN q.tokens ELSE 0
    BY <1>0, <1>3 DEF Share, OfScope, TokensIn
  <2>3. tokens[g][e] = Sum(TokensIn, receipts \cap OfScope(g, e))
    BY <1>4 DEF Balances
  <2>4. tokens'[g][e] = IF e = q.epoch /\ g = q.group
                          THEN (tokens[g][e] - r.tokens) + q.tokens ELSE tokens[g][e]
    BY <1>0
  <2> QED BY <1>3, <2>1, <2>2, <2>3, <2>4
<1>7. Balances(receipts', requests', tokens')
  BY <1>5, <1>6 DEF Balances
<1>8. Validates(receipts', requests', tokens')
  BY <1>2, <1>7, SumsOfLedger
<1> QED BY <1>8 DEF LedgerMatchesReceipts, LedgerValidates, Validates

\* Marking turns a reserved receipt into a kept one, for as much as its call owes.
LEMMA MarkInvokedStep == ASSUME IInv, NEW a \in Agents, MarkInvoked(a) PROVE IInv'
<1>0. PICK r : r = ReceiptOf(a)
  OBVIOUS
<1>1. PICK q : q = [r EXCEPT !.state = "in_flight"]
  OBVIOUS
<1>2. /\ process = "up" /\ pc[a] = "reserved" /\ pc' = [pc EXCEPT ![a] = "invoked"]
      /\ receipts' = (receipts \ {ReceiptOf(a)}) \union {q}
      /\ UNCHANGED <<floor, requests, tokens, process, healthy, last_pruned, member, call, sent,
                     issued, crashes>>
  BY <1>0, <1>1 DEF MarkInvoked, At, Goto, bounds
<1>3. Holds(a)
  BY <1>2 DEF Holds
<1>4. /\ r \in receipts /\ r \in Receipt /\ r.id = call[a].id /\ r.epoch = call[a].epoch
      /\ r.requests = Attempts /\ r.state = "reserved"
  BY <1>0, <1>2, <1>3, HeldReceipt
<1>5. /\ q \in Receipt /\ q.id = call[a].id /\ q.epoch = r.epoch /\ q.requests = r.requests
      /\ q.state = "in_flight" /\ q.group = r.group /\ q.tokens = r.tokens
  BY <1>1, <1>4 DEF Receipt, States
<1>6. receipts' \in SUBSET Receipt /\ IsFiniteSet(receipts') /\ IdsUnique'
  BY <1>2, <1>3, <1>5, ReceiptReplaced
<1>7. TypeOK'
  BY <1>2, <1>6 DEF IInv, TypeOK, Places
<1>8. \A b \in Agents \ {a} : pc'[b] = pc[b] /\ call'[b] = call[b]
  BY <1>2 DEF IInv, TypeOK
<1>9. pc'[a] = "invoked"
  BY <1>2 DEF IInv, TypeOK
<1>10. CallsHoldReceipts'
  <2> SUFFICES ASSUME NEW b \in Agents, Holds(b)'
               PROVE  /\ Backed(receipts, b)'
                      /\ \A c \in Agents : Holds(c)' /\ call'[c].id = call'[b].id => c = b
    BY DEF CallsHoldReceipts
  <2>1. \A c \in Agents : Holds(c)' => Holds(c)
    BY <1>3, <1>8 DEF Holds
  <2>2. \A c \in Agents : Holds(c)' /\ call'[c].id = call'[b].id => c = b
    BY <1>2, <2>1 DEF IInv, CallsHoldReceipts
  <2>3. CASE b = a
    <3>1. q \in receipts'
      BY <1>2
    <3> QED BY <1>2, <1>4, <1>5, <1>9, <2>2, <2>3, <3>1 DEF Backed
  <2>4. CASE b # a
    <3>1. receipts \ {ReceiptOf(a)} \subseteq receipts'
      BY <1>2
    <3>2. Backed(receipts', b)
      BY <1>3, <2>1, <2>4, <3>1, OthersHold
    <3> QED BY <1>2, <1>8, <2>2, <2>4, <3>2 DEF Backed
  <2> QED BY <2>3, <2>4
<1>11. CallsInOrder'
  BY <1>2, <1>8, <1>9 DEF IInv, CallsInOrder
<1>12. LedgerMatchesReceipts'
  <2>1. \A e \in Epochs :
          /\ requests'[e] = IF e = q.epoch THEN (requests[e] - r.requests) + q.requests
                                           ELSE requests[e]
          /\ \A g \in Groups :
               tokens'[g][e] = IF e = q.epoch /\ g = q.group
                                 THEN (tokens[g][e] - r.tokens) + q.tokens ELSE tokens[g][e]
    <3>1. \A e \in Epochs : requests[e] \in Nat /\ \A g \in Groups : tokens[g][e] \in Nat
      BY DEF IInv, TypeOK
    <3>2. r.requests \in Nat /\ r.tokens \in Nat
      BY <1>4 DEF Receipt
    <3> QED BY <1>2, <1>5, <3>1, <3>2
  <2> QED BY <1>0, <1>2, <1>3, <1>5, <2>1, ContributionReplaced
<1>13. WithinLimit' /\ SentWithinQuota'
  BY <1>2 DEF IInv, WithinLimit, SentWithinQuota
<1>14. SentIsCovered'
  <2> SUFFICES ASSUME NEW e \in Epochs, e >= floor' \/ HasLive(e)'
               PROVE  sent'[e] + Owed(e)' <= KeptRequests(e)'
    BY DEF SentIsCovered
  <2>1. HasLive(e)' => HasLive(e)
    BY <1>2, <1>4, <1>5 DEF HasLive, Live
  <2>2. sent[e] + Owed(e) <= KeptRequests(e)
    BY <1>2, <2>1 DEF IInv, SentIsCovered
  <2>3. /\ Owed(e) \in Nat /\ Owed(e)' \in Nat /\ Owing(e)[a] \in Nat /\ Owing(e)'[a] \in Nat
        /\ Owed(e) + Owing(e)'[a] = Owed(e)' + Owing(e)[a]
    BY <1>7, <1>8, OwedChange DEF IInv
  <2>4. /\ KeptRequests(e) \in Nat /\ KeptRequests(e)' \in Nat
        /\ KeptRequests(e)' + Share(RequestsIn, KeptOf(e), r)
             = KeptRequests(e) + Share(RequestsIn, KeptOf(e), q)
    <3>1. RequestsIn \in [Receipt -> Nat]
      BY DEF RequestsIn, Receipt
    <3>2. \A v \in [Receipt -> Nat] : \A F : Exchanges(v, F, receipts, r, receipts', q)
      BY <1>0, <1>2, <1>3, <1>5, ReceiptReplaced
    <3> QED BY <3>1, <3>2 DEF KeptRequests, Exchanges
  <2>5. /\ Share(RequestsIn, KeptOf(e), r) = 0
        /\ Share(RequestsIn, KeptOf(e), q) = IF e = r.epoch THEN Attempts ELSE 0
    BY <1>4, <1>5 DEF Share, KeptOf, RequestsIn
  <2>6. /\ Owing(e)[a] = 0
        /\ Owing(e)'[a] = IF e = r.epoch THEN Attempts ELSE 0
    <3>1. call[a].used = 0
      BY <1>2 DEF IInv, CallsInOrder
    <3>2. Attempts \in Nat
      BY QuotaConstants
    <3> QED BY <1>2, <1>4, <1>9, <3>1, <3>2 DEF Owing
  <2>7. sent'[e] = sent[e] /\ sent[e] \in Nat /\ Attempts \in Nat
    BY <1>2, QuotaConstants DEF IInv, TypeOK
  <2> QED BY <2>2, <2>3, <2>4, <2>5, <2>6, <2>7
<1> QED BY <1>6, <1>7, <1>10, <1>11, <1>12, <1>13, <1>14 DEF IInv

\* The aggregates contain the contribution of every receipt.
LEMMA ContributionWithin ==
  ASSUME IInv, NEW r \in receipts
  PROVE  /\ receipts \ {r} \in SUBSET Receipt /\ IsFiniteSet(receipts \ {r})
         /\ r.requests \in Nat /\ r.tokens \in Nat /\ r.epoch \in Epochs /\ r.group \in Groups
         /\ \A e \in Epochs :
              /\ requests[e] = Sum(RequestsIn, (receipts \ {r}) \cap OfEpoch(e))
                                 + (IF e = r.epoch THEN r.requests ELSE 0)
              /\ Sum(RequestsIn, (receipts \ {r}) \cap OfEpoch(e)) \in Nat
              /\ \A g \in Groups :
                   /\ tokens[g][e] = Sum(TokensIn, (receipts \ {r}) \cap OfScope(g, e))
                                       + (IF e = r.epoch /\ g = r.group THEN r.tokens ELSE 0)
                   /\ Sum(TokensIn, (receipts \ {r}) \cap OfScope(g, e)) \in Nat
<1>1. receipts \in SUBSET Receipt /\ IsFiniteSet(receipts)
  BY DEF IInv, TypeOK
<1>2. /\ r \in Receipt
      /\ r.requests \in Nat /\ r.tokens \in Nat /\ r.epoch \in Epochs /\ r.group \in Groups
  BY <1>1 DEF Receipt
<1>3. receipts \ {r} \in SUBSET Receipt /\ IsFiniteSet(receipts \ {r})
  BY <1>1, FS_RemoveElement
<1>4. Balances(receipts, requests, tokens)
  BY <1>1, SumsOfLedger DEF IInv, LedgerMatchesReceipts, LedgerValidates, Validates
<1>5. RequestsIn \in [Receipt -> Nat] /\ TokensIn \in [Receipt -> Nat]
  BY DEF RequestsIn, TokensIn, Receipt
<1>6. ASSUME NEW e \in Epochs
      PROVE  /\ requests[e] = Sum(RequestsIn, (receipts \ {r}) \cap OfEpoch(e))
                                + (IF e = r.epoch THEN r.requests ELSE 0)
             /\ Sum(RequestsIn, (receipts \ {r}) \cap OfEpoch(e)) \in Nat
  <2>1. Share(RequestsIn, OfEpoch(e), r) = IF e = r.epoch THEN r.requests ELSE 0
    BY <1>2 DEF Share, OfEpoch, RequestsIn
  <2>2. /\ Sum(RequestsIn, (receipts \ {r}) \cap OfEpoch(e)) \in Nat
        /\ Sum(RequestsIn, receipts \cap OfEpoch(e))
             = Sum(RequestsIn, (receipts \ {r}) \cap OfEpoch(e)) + Share(RequestsIn, OfEpoch(e), r)
    BY <1>1, <1>5, SumWithout
  <2> QED BY <1>4, <2>1, <2>2 DEF Balances
<1>7. ASSUME NEW e \in Epochs, NEW g \in Groups
      PROVE  /\ tokens[g][e] = Sum(TokensIn, (receipts \ {r}) \cap OfScope(g, e))
                                 + (IF e = r.epoch /\ g = r.group THEN r.tokens ELSE 0)
             /\ Sum(TokensIn, (receipts \ {r}) \cap OfScope(g, e)) \in Nat
  <2>1. Share(TokensIn, OfScope(g, e), r) = IF e = r.epoch /\ g = r.group THEN r.tokens ELSE 0
    BY <1>2 DEF Share, OfScope, TokensIn
  <2>2. /\ Sum(TokensIn, (receipts \ {r}) \cap OfScope(g, e)) \in Nat
        /\ Sum(TokensIn, receipts \cap OfScope(g, e))
             = Sum(TokensIn, (receipts \ {r}) \cap OfScope(g, e)) + Share(TokensIn, OfScope(g, e), r)
    BY <1>1, <1>5, SumWithout
  <2> QED BY <1>4, <2>1, <2>2 DEF Balances
<1> QED BY <1>2, <1>3, <1>6, <1>7

\* Replacing a contribution, value by value.
LEMMA ReplacedValues ==
  ASSUME IInv, NEW r \in receipts, NEW n \in Nat, NEW t \in Nat, ReplaceContribution(r, n, t)
  PROVE  /\ requests' \in [Epochs -> Nat] /\ tokens' \in [Groups -> [Epochs -> Nat]]
         /\ \A e \in Epochs :
              /\ requests'[e] = IF e = r.epoch THEN (requests[e] - r.requests) + n ELSE requests[e]
              /\ \A g \in Groups :
                   tokens'[g][e] = IF e = r.epoch /\ g = r.group
                                     THEN (tokens[g][e] - r.tokens) + t ELSE tokens[g][e]
<1>1. /\ r.requests \in Nat /\ r.tokens \in Nat /\ r.epoch \in Epochs /\ r.group \in Groups
      /\ requests[r.epoch] - r.requests \in Nat
      /\ tokens[r.group][r.epoch] - r.tokens \in Nat
  <2>1. /\ r.requests \in Nat /\ r.tokens \in Nat /\ r.epoch \in Epochs /\ r.group \in Groups
    BY ContributionWithin
  <2>2. \E m \in Nat : requests[r.epoch] = m + r.requests
    BY <2>1, ContributionWithin
  <2>3. \E m \in Nat : tokens[r.group][r.epoch] = m + r.tokens
    BY <2>1, ContributionWithin
  <2> QED BY <2>1, <2>2, <2>3
<1>2. requests \in [Epochs -> Nat] /\ tokens \in [Groups -> [Epochs -> Nat]]
  BY DEF IInv, TypeOK
<1>3. /\ requests' = [requests EXCEPT ![r.epoch] = (requests[r.epoch] - r.requests) + n]
      /\ tokens' = [tokens EXCEPT ![r.group] =
                      [tokens[r.group] EXCEPT ![r.epoch] = (tokens[r.group][r.epoch] - r.tokens) + t]]
  BY DEF ReplaceContribution
<1>4. (requests[r.epoch] - r.requests) + n \in Nat /\ (tokens[r.group][r.epoch] - r.tokens) + t \in Nat
  BY <1>1
<1> QED BY <1>1, <1>2, <1>3, <1>4

\* The end of a call in flight: its receipt stays, for at least what was sent.
LEMMA FinishCall ==
  ASSUME IInv, NEW a \in Agents, pc[a] = "invoked", Ends(a), NEW q \in Receipt,
         q.id = call[a].id, q.epoch = ReceiptOf(a).epoch, q.group = ReceiptOf(a).group,
         q.state \in {"reconciled", "estimated"},
         call[a].used <= q.requests, q.requests <= Attempts,
         receipts' = (receipts \ {ReceiptOf(a)}) \union {q},
         requests' \in [Epochs -> Nat], tokens' \in [Groups -> [Epochs -> Nat]],
         \A e \in Epochs :
           /\ requests'[e] = IF e = q.epoch
                               THEN (requests[e] - ReceiptOf(a).requests) + q.requests
                               ELSE requests[e]
           /\ \A g \in Groups :
                tokens'[g][e] = IF e = q.epoch /\ g = q.group
                                  THEN (tokens[g][e] - ReceiptOf(a).tokens) + q.tokens
                                  ELSE tokens[g][e],
         UNCHANGED <<floor, process, healthy, last_pruned, member, sent, bounds>>
  PROVE  IInv'
<1>0. PICK r : r = ReceiptOf(a)
  OBVIOUS
<1>1. issued' = issued /\ crashes' = crashes
  BY DEF bounds
<1>2. Holds(a)
  BY DEF Holds
<1>3. /\ r \in receipts /\ r \in Receipt /\ r.id = call[a].id /\ r.epoch = call[a].epoch
      /\ r.requests = Attempts /\ r.state = "in_flight"
  BY <1>0, <1>2, HeldReceipt
<1>4. receipts' \in SUBSET Receipt /\ IsFiniteSet(receipts') /\ IdsUnique'
  BY <1>1, <1>2, ReceiptReplaced
<1>5. /\ pc' \in [Agents -> Places]
      /\ call' \in [Agents -> [group : Groups \union {"none"}, revision : Nat, id : Nat,
                               epoch : Epochs, used : 0..Attempts]]
      /\ \A b \in Agents \ {a} : pc'[b] = pc[b] /\ call'[b] = call[b]
      /\ pc'[a] = "idle" /\ call'[a].epoch <= floor /\ call'[a].used = 0
      /\ \A e : Owing(e)'[a] = 0
  BY EndsCall
<1>6. TypeOK'
  BY <1>1, <1>4, <1>5 DEF IInv, TypeOK
<1>7. CallsHoldReceipts'
  <2> SUFFICES ASSUME NEW b \in Agents, Holds(b)'
               PROVE  /\ Backed(receipts, b)'
                      /\ \A c \in Agents : Holds(c)' /\ call'[c].id = call'[b].id => c = b
    BY DEF CallsHoldReceipts
  <2>1. \A c \in Agents : Holds(c)' => c # a /\ Holds(c) /\ call'[c] = call[c] /\ pc'[c] = pc[c]
    BY <1>5 DEF Holds
  <2>2. \A c \in Agents : Holds(c)' /\ call'[c].id = call'[b].id => c = b
    BY <2>1 DEF IInv, CallsHoldReceipts
  <2>3. receipts \ {ReceiptOf(a)} \subseteq receipts'
    OBVIOUS
  <2>4. Backed(receipts', b)
    <3>1. b # a /\ Holds(b)
      BY <2>1
    <3> QED BY <1>2, <2>3, <3>1, OthersHold
  <2> QED BY <2>1, <2>2, <2>4 DEF Backed
<1>8. CallsInOrder'
  BY <1>5 DEF IInv, CallsInOrder
<1>9. LedgerMatchesReceipts'
  BY <1>1, <1>2, ContributionReplaced
<1>10. q.requests \in Nat /\ Attempts \in Nat /\ call[a].used \in Nat
  BY QuotaConstants DEF Receipt, IInv, TypeOK
<1>11. WithinLimit' /\ SentWithinQuota'
  <2>1. \A e \in Epochs : requests'[e] <= requests[e]
    <3> TAKE e \in Epochs
    <3>1. requests[e] \in Nat
      BY DEF IInv, TypeOK
    <3>2. requests'[e] = IF e = q.epoch THEN (requests[e] - Attempts) + q.requests ELSE requests[e]
      BY <1>0, <1>3
    <3> QED BY <1>10, <3>1, <3>2
  <2>2. \A e \in Epochs : requests[e] \in Nat /\ requests'[e] \in Nat /\ requests[e] <= RPM
    BY DEF IInv, TypeOK, WithinLimit
  <2>3. RPM \in Nat
    BY QuotaConstants
  <2>4. WithinLimit'
    BY <2>1, <2>2, <2>3 DEF WithinLimit
  <2> QED BY <2>4 DEF IInv, SentWithinQuota
<1>12. SentIsCovered'
  <2> SUFFICES ASSUME NEW e \in Epochs, e >= floor' \/ HasLive(e)'
               PROVE  sent'[e] + Owed(e)' <= KeptRequests(e)'
    BY DEF SentIsCovered
  <2>1. HasLive(e)' => HasLive(e)
    BY DEF HasLive, Live
  <2>2. sent[e] + Owed(e) <= KeptRequests(e)
    BY <2>1 DEF IInv, SentIsCovered
  <2>3. /\ Owed(e) \in Nat /\ Owed(e)' \in Nat /\ Owing(e)[a] \in Nat /\ Owing(e)'[a] \in Nat
        /\ Owed(e) + Owing(e)'[a] = Owed(e)' + Owing(e)[a]
    BY <1>5, <1>6, OwedChange DEF IInv
  <2>4. /\ KeptRequests(e) \in Nat /\ KeptRequests(e)' \in Nat
        /\ KeptRequests(e)' + Share(RequestsIn, KeptOf(e), r)
             = KeptRequests(e) + Share(RequestsIn, KeptOf(e), q)
    <3>1. RequestsIn \in [Receipt -> Nat]
      BY DEF RequestsIn, Receipt
    <3>2. \A v \in [Receipt -> Nat] : \A F : Exchanges(v, F, receipts, r, receipts', q)
      BY <1>0, <1>1, <1>2, ReceiptReplaced
    <3> QED BY <3>1, <3>2 DEF KeptRequests, Exchanges
  <2>5. /\ Share(RequestsIn, KeptOf(e), r) = IF e = r.epoch THEN Attempts ELSE 0
        /\ Share(RequestsIn, KeptOf(e), q) = IF e = r.epoch THEN q.requests ELSE 0
    BY <1>0, <1>3 DEF Share, KeptOf, RequestsIn
  <2>6. Owing(e)[a] = (IF e = r.epoch THEN Attempts - call[a].used ELSE 0) /\ Owing(e)'[a] = 0
    BY <1>3, <1>5 DEF Owing
  <2>7. sent'[e] = sent[e] /\ sent[e] \in Nat
    BY DEF IInv, TypeOK
  <2> QED BY <1>10, <2>2, <2>3, <2>4, <2>5, <2>6, <2>7
<1> QED BY <1>4, <1>6, <1>7, <1>8, <1>9, <1>11, <1>12 DEF IInv

\* A call without a usable answer keeps what was reserved for it.
LEMMA RetainEstimateStep == ASSUME IInv, NEW a \in Agents, RetainEstimate(a) PROVE IInv'
<1>0. PICK r : r = ReceiptOf(a)
  OBVIOUS
<1>1. PICK q : q = [r EXCEPT !.state = "estimated"]
  OBVIOUS
<1>2. /\ pc[a] = "invoked" /\ Ends(a)
      /\ receipts' = (receipts \ {ReceiptOf(a)}) \union {q}
      /\ UNCHANGED <<floor, requests, tokens, process, healthy, last_pruned, member, sent, bounds>>
  BY <1>0, <1>1 DEF RetainEstimate, At
<1>3. Holds(a)
  BY <1>2 DEF Holds
<1>4. r \in Receipt /\ r.id = call[a].id /\ r.requests = Attempts
  BY <1>0, <1>3, HeldReceipt
<1>5. /\ q \in Receipt /\ q.id = call[a].id /\ q.epoch = r.epoch /\ q.requests = r.requests
      /\ q.state = "estimated" /\ q.group = r.group /\ q.tokens = r.tokens
  BY <1>1, <1>4 DEF Receipt, States
<1>6. requests' \in [Epochs -> Nat] /\ tokens' \in [Groups -> [Epochs -> Nat]]
  BY <1>2 DEF IInv, TypeOK
<1>7. \A e \in Epochs :
        /\ requests'[e] = IF e = q.epoch THEN (requests[e] - r.requests) + q.requests
                                         ELSE requests[e]
        /\ \A g \in Groups :
             tokens'[g][e] = IF e = q.epoch /\ g = q.group
                               THEN (tokens[g][e] - r.tokens) + q.tokens ELSE tokens[g][e]
  <2>1. \A e \in Epochs : requests[e] \in Nat /\ \A g \in Groups : tokens[g][e] \in Nat
    BY DEF IInv, TypeOK
  <2>2. r.requests \in Nat /\ r.tokens \in Nat
    BY <1>4 DEF Receipt
  <2> QED BY <1>2, <1>5, <2>1, <2>2
<1>8. call[a].used <= q.requests /\ q.requests <= Attempts
  BY <1>4, <1>5, QuotaConstants DEF IInv, TypeOK
<1> QED BY <1>0, <1>2, <1>5, <1>6, <1>7, <1>8, FinishCall

\* Reconciling replaces the estimate by what was used, at least what was sent.
LEMMA ReconcileStep == ASSUME IInv, NEW a \in Agents, Reconcile(a) PROVE IInv'
<1>0. PICK r : r = ReceiptOf(a)
  OBVIOUS
<1>1. PICK n \in 1..Attempts : \E t \in Tokens :
        /\ n >= call[a].used
        /\ receipts' = (receipts \ {r})
                         \union {[r EXCEPT !.state = "reconciled", !.requests = n, !.tokens = t]}
        /\ ReplaceContribution(r, n, t)
  BY <1>0 DEF Reconcile
<1>2. PICK t \in Tokens :
        /\ n >= call[a].used
        /\ receipts' = (receipts \ {r})
                         \union {[r EXCEPT !.state = "reconciled", !.requests = n, !.tokens = t]}
        /\ ReplaceContribution(r, n, t)
  BY <1>1
<1>3. PICK q : q = [r EXCEPT !.state = "reconciled", !.requests = n, !.tokens = t]
  OBVIOUS
<1>4. /\ pc[a] = "invoked" /\ Ends(a)
      /\ receipts' = (receipts \ {ReceiptOf(a)}) \union {q}
      /\ UNCHANGED <<floor, process, healthy, last_pruned, member, sent, bounds>>
  BY <1>0, <1>2, <1>3 DEF Reconcile, At
<1>5. Holds(a)
  BY <1>4 DEF Holds
<1>6. r \in Receipt /\ r \in receipts /\ r.id = call[a].id
  BY <1>0, <1>5, HeldReceipt
<1>7. n \in Nat /\ t \in Nat /\ n <= Attempts /\ call[a].used <= n
  BY <1>2, QuotaConstants DEF IInv, TypeOK
<1>8. /\ q \in Receipt /\ q.id = call[a].id /\ q.epoch = r.epoch /\ q.requests = n
      /\ q.state = "reconciled" /\ q.group = r.group /\ q.tokens = t
  BY <1>3, <1>6, <1>7 DEF Receipt, States
<1>9. /\ requests' \in [Epochs -> Nat] /\ tokens' \in [Groups -> [Epochs -> Nat]]
      /\ \A e \in Epochs :
           /\ requests'[e] = IF e = r.epoch THEN (requests[e] - r.requests) + n ELSE requests[e]
           /\ \A g \in Groups :
                tokens'[g][e] = IF e = r.epoch /\ g = r.group
                                  THEN (tokens[g][e] - r.tokens) + t ELSE tokens[g][e]
  BY <1>2, <1>6, <1>7, ReplacedValues
<1> QED BY <1>0, <1>4, <1>7, <1>8, <1>9, FinishCall

\* A refund takes a receipt that was never kept out of the ledger.
LEMMA RefundKeeps ==
  ASSUME IInv, NEW a \in Agents, pc[a] = "reserved", RefundLedger(a), Ends(a),
         healthy' \in BOOLEAN, UNCHANGED <<floor, process, last_pruned, member, sent, bounds>>
  PROVE  IInv'
<1>0. PICK r : r = ReceiptOf(a)
  OBVIOUS
<1>1. issued' = issued /\ crashes' = crashes
  BY DEF bounds
<1>2. Holds(a)
  BY DEF Holds
<1>3. /\ r \in receipts /\ r \in Receipt /\ r.id = call[a].id /\ r.epoch = call[a].epoch
      /\ r.requests = Attempts /\ r.state = "reserved"
  BY <1>0, <1>2, HeldReceipt
<1>4. receipts' = receipts \ {r} /\ ReplaceContribution(r, 0, 0)
  BY <1>0 DEF RefundLedger
<1>5. receipts' \in SUBSET Receipt /\ IsFiniteSet(receipts')
  BY <1>3, <1>4, ContributionWithin
<1>6. IdsUnique'
  BY <1>1, <1>4 DEF IInv, IdsUnique
<1>7. /\ pc' \in [Agents -> Places]
      /\ call' \in [Agents -> [group : Groups \union {"none"}, revision : Nat, id : Nat,
                               epoch : Epochs, used : 0..Attempts]]
      /\ \A b \in Agents \ {a} : pc'[b] = pc[b] /\ call'[b] = call[b]
      /\ pc'[a] = "idle" /\ call'[a].epoch <= floor /\ call'[a].used = 0
      /\ \A e : Owing(e)'[a] = 0
  BY EndsCall
<1>8. /\ requests' \in [Epochs -> Nat] /\ tokens' \in [Groups -> [Epochs -> Nat]]
      /\ \A e \in Epochs :
           /\ requests'[e] = IF e = r.epoch THEN (requests[e] - r.requests) + 0 ELSE requests[e]
           /\ \A g \in Groups :
                tokens'[g][e] = IF e = r.epoch /\ g = r.group
                                  THEN (tokens[g][e] - r.tokens) + 0 ELSE tokens[g][e]
  BY <1>3, <1>4, ReplacedValues
<1>9. TypeOK'
  BY <1>1, <1>5, <1>7, <1>8 DEF IInv, TypeOK
<1>10. CallsHoldReceipts'
  <2> SUFFICES ASSUME NEW b \in Agents, Holds(b)'
               PROVE  /\ Backed(receipts, b)'
                      /\ \A c \in Agents : Holds(c)' /\ call'[c].id = call'[b].id => c = b
    BY DEF CallsHoldReceipts
  <2>1. \A c \in Agents : Holds(c)' => c # a /\ Holds(c) /\ call'[c] = call[c] /\ pc'[c] = pc[c]
    BY <1>7 DEF Holds
  <2>2. \A c \in Agents : Holds(c)' /\ call'[c].id = call'[b].id => c = b
    BY <2>1 DEF IInv, CallsHoldReceipts
  <2>3. receipts \ {ReceiptOf(a)} \subseteq receipts'
    BY <1>0, <1>4
  <2>4. Backed(receipts', b)
    <3>1. b # a /\ Holds(b)
      BY <2>1
    <3> QED BY <1>2, <2>3, <3>1, OthersHold
  <2> QED BY <2>1, <2>2, <2>4 DEF Backed
<1>11. CallsInOrder'
  BY <1>7 DEF IInv, CallsInOrder
<1>12. LedgerMatchesReceipts'
  <2>1. ASSUME NEW e \in Epochs
        PROVE  requests'[e] = Sum(RequestsIn, receipts' \cap OfEpoch(e))
    <3>1. /\ requests[e] = Sum(RequestsIn, receipts' \cap OfEpoch(e))
                             + (IF e = r.epoch THEN r.requests ELSE 0)
          /\ Sum(RequestsIn, receipts' \cap OfEpoch(e)) \in Nat /\ r.requests \in Nat
      BY <1>3, <1>4, ContributionWithin
    <3>2. requests'[e] = IF e = r.epoch THEN (requests[e] - r.requests) + 0 ELSE requests[e]
      BY <1>8
    <3> QED BY <3>1, <3>2
  <2>2. ASSUME NEW e \in Epochs, NEW g \in Groups
        PROVE  tokens'[g][e] = Sum(TokensIn, receipts' \cap OfScope(g, e))
    <3>1. /\ tokens[g][e] = Sum(TokensIn, receipts' \cap OfScope(g, e))
                              + (IF e = r.epoch /\ g = r.group THEN r.tokens ELSE 0)
          /\ Sum(TokensIn, receipts' \cap OfScope(g, e)) \in Nat /\ r.tokens \in Nat
      <4>1. /\ tokens[g][e] = Sum(TokensIn, (receipts \ {r}) \cap OfScope(g, e))
                                + (IF e = r.epoch /\ g = r.group THEN r.tokens ELSE 0)
            /\ Sum(TokensIn, (receipts \ {r}) \cap OfScope(g, e)) \in Nat /\ r.tokens \in Nat
        <5>1. /\ r.tokens \in Nat
              /\ \A d \in Epochs : \A h \in Groups :
                   /\ tokens[h][d] = Sum(TokensIn, (receipts \ {r}) \cap OfScope(h, d))
                                       + (IF d = r.epoch /\ h = r.group THEN r.tokens ELSE 0)
                   /\ Sum(TokensIn, (receipts \ {r}) \cap OfScope(h, d)) \in Nat
          BY <1>3, ContributionWithin
        <5> QED BY <5>1
      <4> QED BY <1>4, <4>1
    <3>2. tokens'[g][e] = IF e = r.epoch /\ g = r.group
                            THEN (tokens[g][e] - r.tokens) + 0 ELSE tokens[g][e]
      BY <1>8
    <3> QED BY <3>1, <3>2
  <2>3. Balances(receipts', requests', tokens')
    BY <2>1, <2>2 DEF Balances
  <2>4. Validates(receipts', requests', tokens')
    BY <1>5, <2>3, SumsOfLedger
  <2> QED BY <2>4 DEF LedgerMatchesReceipts, LedgerValidates, Validates
<1>13. WithinLimit' /\ SentWithinQuota'
  <2>1. Attempts \in Nat /\ RPM \in Nat
    BY QuotaConstants
  <2>2. \A e \in Epochs : /\ requests[e] \in Nat /\ requests[e] <= RPM
                          /\ requests'[e] = IF e = r.epoch THEN (requests[e] - Attempts) + 0
                                                           ELSE requests[e]
    BY <1>3, <1>8 DEF IInv, TypeOK, WithinLimit
  <2>3. \A e \in Epochs : requests'[e] <= RPM
    BY <2>1, <2>2
  <2> QED BY <2>3 DEF IInv, WithinLimit, SentWithinQuota
<1>14. SentIsCovered'
  <2> SUFFICES ASSUME NEW e \in Epochs, e >= floor' \/ HasLive(e)'
               PROVE  sent'[e] + Owed(e)' <= KeptRequests(e)'
    BY DEF SentIsCovered
  <2>1. HasLive(e)' => HasLive(e)
    BY <1>4 DEF HasLive
  <2>2. sent[e] + Owed(e) <= KeptRequests(e)
    BY <2>1 DEF IInv, SentIsCovered
  <2>3. /\ Owed(e) \in Nat /\ Owed(e)' \in Nat /\ Owing(e)[a] \in Nat /\ Owing(e)'[a] \in Nat
        /\ Owed(e) + Owing(e)'[a] = Owed(e)' + Owing(e)[a]
    BY <1>7, <1>9, OwedChange DEF IInv
  <2>4. KeptRequests(e)' = KeptRequests(e)
    <3>1. r \notin KeptOf(e)
      BY <1>3 DEF KeptOf
    <3>2. receipts' \cap KeptOf(e) = receipts \cap KeptOf(e)
      BY <1>4, <3>1
    <3> QED BY <3>2 DEF KeptRequests
  <2>5. Owing(e)[a] = 0 /\ Owing(e)'[a] = 0
    BY <1>7 DEF Owing
  <2>6. sent'[e] = sent[e] /\ sent[e] \in Nat /\ KeptRequests(e) \in Nat
    BY KeptWithinRequests DEF IInv, TypeOK
  <2> QED BY <2>2, <2>3, <2>4, <2>5, <2>6
<1> QED BY <1>6, <1>9, <1>10, <1>11, <1>12, <1>13, <1>14 DEF IInv

\* A transaction that fails changes no row; its call ends, with or without a refund.
LEMMA StoreFailsStep == ASSUME IInv, NEW a \in Agents, StoreFails(a) PROVE IInv'
<1>1. CASE UNCHANGED <<receipts, requests, tokens>>
  <2>1. /\ Ends(a) /\ healthy' \in BOOLEAN
        /\ UNCHANGED <<ledger, process, last_pruned, member, sent, bounds>>
    BY <1>1 DEF StoreFails, ledger
  <2> QED BY <2>1, EndsAlone
<1>2. CASE pc[a] = "reserved" /\ RefundLedger(a)
  <2>1. /\ Ends(a) /\ healthy' \in BOOLEAN
        /\ UNCHANGED <<floor, process, last_pruned, member, sent, bounds>>
    BY DEF StoreFails
  <2> QED BY <1>2, <2>1, RefundKeeps
<1> QED BY <1>1, <1>2 DEF StoreFails

\* Pruning takes whole epochs, in which nothing is admitted or under way.
LEMMA PruneKeeps ==
  ASSUME IInv, NEW before \in Epochs, before <= floor, PruneEpochs(before),
         last_pruned' \in Nat, process' = "up",
         UNCHANGED <<floor, healthy, member, pc, call, sent, bounds>>
  PROVE  IInv'
<1>0. PICK P : P = Prunable(before)
  OBVIOUS
<1>1. /\ receipts' = {r \in receipts : r.epoch \notin P}
      /\ requests' = [e \in Epochs |-> IF e \in P THEN 0 ELSE requests[e]]
      /\ tokens' = [g \in Groups |-> [e \in Epochs |-> IF e \in P THEN 0 ELSE tokens[g][e]]]
      /\ issued' = issued /\ crashes' = crashes
  BY <1>0 DEF PruneEpochs, bounds
<1>2. /\ P \subseteq Epochs
      /\ \A e \in P : e < before /\ ~HasLive(e)
  BY <1>0 DEF Prunable, HasLive
<1>3. receipts \in SUBSET Receipt /\ IsFiniteSet(receipts)
  BY DEF IInv, TypeOK
<1>4. receipts' \in SUBSET Receipt /\ IsFiniteSet(receipts')
  BY <1>1, <1>3, FS_Subset
<1>5. TypeOK'
  BY <1>1, <1>4 DEF IInv, TypeOK
<1>6. IdsUnique' /\ CallsInOrder'
  BY <1>1 DEF IInv, IdsUnique, CallsInOrder
<1>7. CallsHoldReceipts'
  <2> SUFFICES ASSUME NEW b \in Agents, Holds(b)'
               PROVE  /\ Backed(receipts, b)'
                      /\ \A c \in Agents : Holds(c)' /\ call'[c].id = call'[b].id => c = b
    BY DEF CallsHoldReceipts
  <2>1. Holds(b)
    BY DEF Holds
  <2>2. /\ ReceiptOf(b) \in receipts /\ ReceiptOf(b).id = call[b].id
        /\ ReceiptOf(b).epoch = call[b].epoch /\ ReceiptOf(b).requests = Attempts
        /\ ReceiptOf(b).state = IF pc[b] = "reserved" THEN "reserved" ELSE "in_flight"
    BY <2>1, HeldReceipt
  <2>3. ReceiptOf(b) \in receipts'
    <3>1. HasLive(ReceiptOf(b).epoch)
      BY <2>2 DEF HasLive, Live
    <3> QED BY <1>1, <1>2, <2>2, <3>1
  <2>4. Backed(receipts, b)'
    BY <2>2, <2>3 DEF Backed
  <2>5. \A c \in Agents : Holds(c)' /\ call'[c].id = call'[b].id => c = b
    BY <2>1 DEF IInv, CallsHoldReceipts, Holds
  <2> QED BY <2>4, <2>5
<1>8. Balances(receipts, requests, tokens)
  BY <1>3, SumsOfLedger DEF IInv, LedgerMatchesReceipts, LedgerValidates, Validates
<1>9. \A e \in Epochs : \A F : F \subseteq OfEpoch(e) =>
        receipts' \cap F = IF e \in P THEN {} ELSE receipts \cap F
  BY <1>1 DEF OfEpoch
<1>10. /\ RequestsIn \in [Receipt -> Nat] /\ TokensIn \in [Receipt -> Nat]
       /\ {} \in SUBSET Receipt /\ IsFiniteSet({})
  BY FS_EmptySet DEF RequestsIn, TokensIn, Receipt
<1>11. Sum(RequestsIn, {}) = 0 /\ Sum(TokensIn, {}) = 0
  BY <1>10, SumType
<1>12. LedgerMatchesReceipts'
  <2>1. ASSUME NEW e \in Epochs
        PROVE  requests'[e] = Sum(RequestsIn, receipts' \cap OfEpoch(e))
    <3>1. receipts' \cap OfEpoch(e) = IF e \in P THEN {} ELSE receipts \cap OfEpoch(e)
      BY <1>9
    <3>2. requests'[e] = IF e \in P THEN 0 ELSE requests[e]
      BY <1>1
    <3>3. requests[e] = Sum(RequestsIn, receipts \cap OfEpoch(e))
      BY <1>8 DEF Balances
    <3> QED BY <1>11, <3>1, <3>2, <3>3
  <2>2. ASSUME NEW e \in Epochs, NEW g \in Groups
        PROVE  tokens'[g][e] = Sum(TokensIn, receipts' \cap OfScope(g, e))
    <3>1. OfScope(g, e) \subseteq OfEpoch(e)
      BY DEF OfScope, OfEpoch
    <3>2. receipts' \cap OfScope(g, e) = IF e \in P THEN {} ELSE receipts \cap OfScope(g, e)
      BY <1>9, <3>1
    <3>3. tokens'[g][e] = IF e \in P THEN 0 ELSE tokens[g][e]
      BY <1>1
    <3>4. tokens[g][e] = Sum(TokensIn, receipts \cap OfScope(g, e))
      BY <1>8 DEF Balances
    <3> QED BY <1>11, <3>2, <3>3, <3>4
  <2>3. Balances(receipts', requests', tokens')
    BY <2>1, <2>2 DEF Balances
  <2>4. Validates(receipts', requests', tokens')
    BY <1>4, <2>3, SumsOfLedger
  <2> QED BY <2>4 DEF LedgerMatchesReceipts, LedgerValidates, Validates
<1>13. WithinLimit' /\ SentWithinQuota'
  BY <1>1, QuotaConstants DEF IInv, WithinLimit, SentWithinQuota
<1>14. SentIsCovered'
  <2> SUFFICES ASSUME NEW e \in Epochs, e >= floor' \/ HasLive(e)'
               PROVE  sent'[e] + Owed(e)' <= KeptRequests(e)'
    BY DEF SentIsCovered
  <2>1. HasLive(e)' => HasLive(e)
    BY <1>1 DEF HasLive
  <2>2. sent[e] + Owed(e) <= KeptRequests(e)
    BY <2>1 DEF IInv, SentIsCovered
  <2>3. e \notin P
    <3>1. e \in P => e < before /\ ~HasLive(e)
      BY <1>2
    <3>2. e \in Nat /\ floor \in Nat /\ before \in Nat
      BY QuotaConstants DEF IInv, TypeOK, Epochs
    <3> QED BY <2>1, <3>1, <3>2
  <2>4. KeptRequests(e)' = KeptRequests(e)
    <3>1. KeptOf(e) \subseteq OfEpoch(e)
      BY DEF KeptOf, OfEpoch
    <3>2. receipts' \cap KeptOf(e) = receipts \cap KeptOf(e)
      BY <1>9, <2>3, <3>1
    <3> QED BY <3>2 DEF KeptRequests
  <2>5. Owed(e)' = Owed(e)
    BY DEF Owed, Owing
  <2> QED BY <2>2, <2>4, <2>5
<1> QED BY <1>5, <1>6, <1>7, <1>12, <1>13, <1>14 DEF IInv

\* Pruning after a reservation or its denial.
LEMMA PruneStep == ASSUME IInv, NEW a \in Agents, Prune(a) PROVE IInv'
<1>1. PICK before : before = call[a].epoch
  OBVIOUS
<1>2. before \in Epochs /\ before <= floor /\ before \in Nat
  BY <1>1, QuotaConstants DEF IInv, TypeOK, CallsInOrder, Epochs
<1>3. /\ PruneEpochs(before) /\ last_pruned' \in Nat /\ process' = "up"
      /\ UNCHANGED <<floor, healthy, member, pc, call, sent, bounds>>
  BY <1>1, <1>2 DEF Prune, At
<1> QED BY <1>2, <1>3, PruneKeeps

\* Pruning at startup, after recovery.
LEMMA StartStep == ASSUME IInv, Start PROVE IInv'
<1>1. PICK before : before = floor
  OBVIOUS
<1>2. before \in Epochs /\ before <= floor /\ before \in Nat
  BY <1>1, QuotaConstants DEF IInv, TypeOK, Epochs
<1>3. /\ PruneEpochs(before) /\ last_pruned' \in Nat /\ process' = "up"
      /\ UNCHANGED <<floor, healthy, member, pc, call, sent, bounds>>
  BY <1>1, <1>2 DEF Start
<1> QED BY <1>2, <1>3, PruneKeeps

\* A reservation adds a receipt and its contribution if both fit the limits.
LEMMA ReserveStep == ASSUME IInv, NEW a \in Agents, Reserve(a) PROVE IInv'
<1>0. /\ process = "up" /\ pc[a] = "permit"
      /\ UNCHANGED <<process, healthy, last_pruned, member, sent, crashes>>
  BY DEF Reserve, At
<1>1. PICK g : g = call[a].group
  OBVIOUS
<1>2. PICK now \in Epochs :
        LET e == EffectiveEpoch(now)
            r == [id |-> issued + 1, state |-> "reserved", epoch |-> e, group |-> g,
                  requests |-> Attempts, tokens |-> Estimate]
        IN /\ floor' = e
           /\ \/ /\ Fits(g, e)
                 /\ receipts' = receipts \union {r}
                 /\ requests' = [requests EXCEPT ![e] = @ + Attempts]
                 /\ tokens' = [tokens EXCEPT ![g][e] = @ + Estimate]
                 /\ issued' = issued + 1
                 /\ call' = [call EXCEPT ![a].id = r.id, ![a].epoch = e]
                 /\ Goto(a, "reserved")
              \/ /\ ~ Fits(g, e)
                 /\ call' = [call EXCEPT ![a].epoch = e]
                 /\ Goto(a, "denied")
                 /\ UNCHANGED <<receipts, requests, tokens, issued>>
  BY <1>1 DEF Reserve
<1>3. PICK d : d = EffectiveEpoch(now)
  OBVIOUS
<1>4. PICK r : r = [id |-> issued + 1, state |-> "reserved", epoch |-> d, group |-> g,
                    requests |-> Attempts, tokens |-> Estimate]
  OBVIOUS
<1>5. d \in Epochs /\ d >= floor /\ d \in Nat /\ floor \in Nat /\ floor' = d
  <2>1. d \in Epochs /\ d >= floor
    BY <1>3, EffectiveEpochType DEF IInv
  <2>2. floor \in Epochs /\ MaxEpoch \in Nat
    BY QuotaConstants DEF IInv, TypeOK
  <2> QED BY <1>2, <1>3, <2>1, <2>2 DEF Epochs
<1>6. g \in Groups /\ call[a].used = 0 /\ call[a] \in [group : Groups \union {"none"},
        revision : Nat, id : Nat, epoch : Epochs, used : 0..Attempts]
  BY <1>0, <1>1 DEF IInv, TypeOK, CallsInOrder
<1>7. Attempts \in Nat /\ Estimate = Attempts /\ RPM \in Nat
  BY QuotaConstants DEF Estimate
<1>8. \A e : Owing(e)[a] = 0
  BY <1>0 DEF Owing
<1>9. ASSUME TypeOK', NEW e \in Epochs, pc'[a] # "invoked",
             \A b \in Agents \ {a} : pc'[b] = pc[b] /\ call'[b] = call[b]
      PROVE  Owed(e)' = Owed(e)
  <2>1. /\ Owed(e) \in Nat /\ Owed(e)' \in Nat
        /\ Owed(e) + Owing(e)'[a] = Owed(e)' + Owing(e)[a]
    BY <1>9, OwedChange DEF IInv
  <2>2. Owing(e)'[a] = 0
    BY <1>9 DEF Owing
  <2> QED BY <1>8, <2>1, <2>2
<1>10. CASE ~ Fits(g, d)
  <2>1. /\ call' = [call EXCEPT ![a].epoch = d] /\ pc' = [pc EXCEPT ![a] = "denied"]
        /\ UNCHANGED <<receipts, requests, tokens, issued>>
    BY <1>2, <1>3, <1>10 DEF Goto
  <2>2. /\ \A b \in Agents \ {a} : pc'[b] = pc[b] /\ call'[b] = call[b]
        /\ pc'[a] = "denied" /\ call'[a].epoch = d /\ call'[a].used = 0 /\ call'[a].group = g
    BY <1>1, <1>6, <2>1 DEF IInv, TypeOK
  <2>3. TypeOK'
    <3>1. call' \in [Agents -> [group : Groups \union {"none"}, revision : Nat, id : Nat,
                                epoch : Epochs, used : 0..Attempts]]
      BY <1>5, <1>6, <2>1 DEF IInv, TypeOK
    <3>2. pc' \in [Agents -> Places]
      BY <2>1 DEF IInv, TypeOK, Places
    <3> QED BY <1>0, <1>5, <2>1, <3>1, <3>2 DEF IInv, TypeOK
  <2>4. IdsUnique' /\ LedgerMatchesReceipts' /\ WithinLimit' /\ SentWithinQuota'
    BY <1>0, <2>1 DEF IInv, IdsUnique, LedgerMatchesReceipts, LedgerValidates, WithinLimit,
                      SentWithinQuota
  <2>5. CallsHoldReceipts'
    <3>1. \A c \in Agents : Holds(c)' => c # a /\ Holds(c) /\ call'[c] = call[c] /\ pc'[c] = pc[c]
      BY <2>2 DEF Holds
    <3> QED BY <2>1, <3>1 DEF IInv, CallsHoldReceipts, Backed
  <2>6. CallsInOrder'
    <3>1. \A b \in Agents : call[b].epoch \in Nat /\ call[b].epoch <= floor
      BY QuotaConstants DEF IInv, TypeOK, CallsInOrder, Epochs
    <3>2. \A b \in Agents : call'[b].epoch <= floor'
      BY <1>5, <2>2, <3>1
    <3> QED BY <1>0, <1>6, <2>2, <3>2 DEF IInv, CallsInOrder
  <2>7. SentIsCovered'
    <3> SUFFICES ASSUME NEW e \in Epochs, e >= floor' \/ HasLive(e)'
                 PROVE  sent'[e] + Owed(e)' <= KeptRequests(e)'
      BY DEF SentIsCovered
    <3>1. e \in Nat
      BY QuotaConstants DEF Epochs
    <3>2. e >= floor \/ HasLive(e)
      BY <1>5, <2>1, <3>1 DEF HasLive
    <3>3. sent[e] + Owed(e) <= KeptRequests(e)
      BY <3>2 DEF IInv, SentIsCovered
    <3>4. Owed(e)' = Owed(e) /\ KeptRequests(e)' = KeptRequests(e)
      BY <1>9, <2>1, <2>2, <2>3 DEF KeptRequests
    <3> QED BY <1>0, <3>3, <3>4
  <2> QED BY <2>3, <2>4, <2>5, <2>6, <2>7 DEF IInv
<1>11. CASE Fits(g, d)
  <2>1. /\ receipts' = receipts \union {r}
        /\ requests' = [requests EXCEPT ![d] = @ + Attempts]
        /\ tokens' = [tokens EXCEPT ![g] = [tokens[g] EXCEPT ![d] = @ + Attempts]]
        /\ issued' = issued + 1
        /\ call' = [call EXCEPT ![a] = [call[a] EXCEPT !.id = issued + 1, !.epoch = d]]
        /\ pc' = [pc EXCEPT ![a] = "reserved"]
    BY <1>2, <1>3, <1>4, <1>7, <1>11 DEF Goto
  <2>2. issued \in Nat /\ receipts \in SUBSET Receipt /\ IsFiniteSet(receipts)
    BY DEF IInv, TypeOK
  <2>3. /\ \A b \in Agents \ {a} : pc'[b] = pc[b] /\ call'[b] = call[b]
        /\ pc'[a] = "reserved" /\ call'[a].epoch = d /\ call'[a].used = 0 /\ call'[a].group = g
        /\ call'[a].id = issued + 1
    BY <1>1, <1>6, <2>1 DEF IInv, TypeOK
  <2>4. /\ r \in Receipt /\ r.id = issued + 1 /\ r.state = "reserved" /\ r.epoch = d /\ r.group = g
        /\ r.requests = Attempts /\ r.tokens = Attempts
    BY <1>4, <1>5, <1>6, <1>7, <2>2 DEF Receipt, States
  <2>5. \A q \in receipts : q.id \in Nat /\ q.id <= issued
    BY <2>2 DEF IInv, IdsUnique, Receipt
  <2>6. r \notin receipts
    BY <2>2, <2>4, <2>5
  <2>7. receipts' \in SUBSET Receipt /\ IsFiniteSet(receipts')
    BY <2>1, <2>2, <2>4, FS_AddElement
  <2>8. /\ requests' \in [Epochs -> Nat] /\ tokens' \in [Groups -> [Epochs -> Nat]]
        /\ \A e \in Epochs :
             /\ requests'[e] = requests[e] + (IF e = d THEN Attempts ELSE 0)
             /\ \A h \in Groups :
                  tokens'[h][e] = tokens[h][e] + (IF e = d /\ h = g THEN Attempts ELSE 0)
    <3>1. requests \in [Epochs -> Nat] /\ tokens \in [Groups -> [Epochs -> Nat]]
      BY DEF IInv, TypeOK
    <3>2. requests' \in [Epochs -> Nat] /\ tokens' \in [Groups -> [Epochs -> Nat]]
      BY <1>5, <1>6, <1>7, <2>1, <3>1
    <3>3. \A e \in Epochs : requests'[e] = requests[e] + (IF e = d THEN Attempts ELSE 0)
      BY <1>5, <1>7, <2>1, <3>1
    <3>4. \A e \in Epochs, h \in Groups :
            tokens'[h][e] = tokens[h][e] + (IF e = d /\ h = g THEN Attempts ELSE 0)
      BY <1>5, <1>6, <1>7, <2>1, <3>1
    <3> QED BY <3>2, <3>3, <3>4
  <2>9. TypeOK'
    <3>1. call' \in [Agents -> [group : Groups \union {"none"}, revision : Nat, id : Nat,
                                epoch : Epochs, used : 0..Attempts]]
      <4> DEFINE C == [group : Groups \union {"none"}, revision : Nat, id : Nat,
                       epoch : Epochs, used : 0..Attempts]
      <4>1. PICK c : c = [call[a] EXCEPT !.id = issued + 1, !.epoch = d]
        OBVIOUS
      <4>2. issued + 1 \in Nat
        BY <2>2
      <4>3. c \in C
        BY <1>5, <1>6, <4>1, <4>2
      <4>4. call' = [call EXCEPT ![a] = c] /\ call \in [Agents -> C]
        BY <2>1, <4>1 DEF IInv, TypeOK
      <4> HIDE DEF C
      <4>5. call' \in [Agents -> C]
        BY <4>3, <4>4
      <4> QED BY <4>5 DEF C
    <3>2. pc' \in [Agents -> Places]
      BY <2>1 DEF IInv, TypeOK, Places
    <3> QED BY <1>0, <1>5, <2>1, <2>2, <2>7, <2>8, <3>1, <3>2 DEF IInv, TypeOK
  <2>10. IdsUnique'
    BY <2>1, <2>2, <2>4, <2>5 DEF IInv, IdsUnique
  <2>11. CallsHoldReceipts'
    <3> SUFFICES ASSUME NEW b \in Agents, Holds(b)'
                 PROVE  /\ Backed(receipts, b)'
                        /\ \A c \in Agents : Holds(c)' /\ call'[c].id = call'[b].id => c = b
      BY DEF CallsHoldReceipts
    <3>1. \A c \in Agents \ {a} : Holds(c)' =>
            /\ Holds(c) /\ call'[c] = call[c] /\ pc'[c] = pc[c]
            /\ call[c].id \in Nat /\ call[c].id <= issued
      <4> TAKE c \in Agents \ {a}
      <4>1. Holds(c)' => Holds(c) /\ call'[c] = call[c] /\ pc'[c] = pc[c]
        BY <2>3 DEF Holds
      <4>2. Holds(c) => ReceiptOf(c) \in receipts /\ ReceiptOf(c).id = call[c].id
        BY HeldReceipt
      <4> QED BY <2>5, <4>1, <4>2
    <3>2. \A c \in Agents : Holds(c)' /\ call'[c].id = call'[b].id => c = b
      <4> SUFFICES ASSUME NEW c \in Agents, Holds(c)', call'[c].id = call'[b].id, c # b
                   PROVE  FALSE
        OBVIOUS
      <4>1. issued + 1 > issued
        BY <2>2
      <4>2. c # a /\ b # a
        BY <2>2, <2>3, <3>1, <4>1
      <4>3. Holds(c) /\ Holds(b) /\ call[c].id = call[b].id
        BY <3>1, <4>2
      <4> QED BY <4>3 DEF IInv, CallsHoldReceipts
    <3>3. CASE b = a
      <4>1. r \in receipts'
        BY <2>1
      <4> QED BY <2>3, <2>4, <3>2, <3>3, <4>1 DEF Backed
    <3>4. CASE b # a
      <4>1. Backed(receipts, b)
        BY <3>1, <3>4 DEF IInv, CallsHoldReceipts
      <4> QED BY <2>1, <3>1, <3>2, <3>4, <4>1 DEF Backed
    <3> QED BY <3>3, <3>4
  <2>12. CallsInOrder'
    <3>1. \A b \in Agents : call[b].epoch \in Nat /\ call[b].epoch <= floor
      BY QuotaConstants DEF IInv, TypeOK, CallsInOrder, Epochs
    <3>2. \A b \in Agents : call'[b].epoch <= floor'
      BY <1>5, <2>3, <3>1
    <3> QED BY <1>0, <1>6, <2>3, <3>2 DEF IInv, CallsInOrder
  <2>13. RequestsIn \in [Receipt -> Nat] /\ TokensIn \in [Receipt -> Nat]
    BY DEF RequestsIn, TokensIn, Receipt
  <2>14. LedgerMatchesReceipts'
    <3>1. Balances(receipts, requests, tokens)
      BY <2>2, SumsOfLedger DEF IInv, LedgerMatchesReceipts, LedgerValidates, Validates
    <3>2. ASSUME NEW e \in Epochs
          PROVE  requests'[e] = Sum(RequestsIn, receipts' \cap OfEpoch(e))
      <4>1. Sum(RequestsIn, (receipts \union {r}) \cap OfEpoch(e))
              = Sum(RequestsIn, receipts \cap OfEpoch(e)) + Share(RequestsIn, OfEpoch(e), r)
        BY <2>2, <2>4, <2>6, <2>13, SumAdd
      <4>2. Share(RequestsIn, OfEpoch(e), r) = IF e = d THEN Attempts ELSE 0
        BY <2>4 DEF Share, OfEpoch, RequestsIn
      <4>3. requests[e] = Sum(RequestsIn, receipts \cap OfEpoch(e))
        BY <3>1 DEF Balances
      <4> QED BY <2>1, <2>8, <4>1, <4>2, <4>3
    <3>3. ASSUME NEW e \in Epochs, NEW h \in Groups
          PROVE  tokens'[h][e] = Sum(TokensIn, receipts' \cap OfScope(h, e))
      <4>1. Sum(TokensIn, (receipts \union {r}) \cap OfScope(h, e))
              = Sum(TokensIn, receipts \cap OfScope(h, e)) + Share(TokensIn, OfScope(h, e), r)
        BY <2>2, <2>4, <2>6, <2>13, SumAdd
      <4>2. Share(TokensIn, OfScope(h, e), r) = IF e = d /\ h = g THEN Attempts ELSE 0
        BY <2>4 DEF Share, OfScope, TokensIn
      <4>3. tokens[h][e] = Sum(TokensIn, receipts \cap OfScope(h, e))
        BY <3>1 DEF Balances
      <4> QED BY <2>1, <2>8, <4>1, <4>2, <4>3
    <3>4. Balances(receipts', requests', tokens')
      BY <3>2, <3>3 DEF Balances
    <3>5. Validates(receipts', requests', tokens')
      BY <2>7, <3>4, SumsOfLedger
    <3> QED BY <3>5 DEF LedgerMatchesReceipts, LedgerValidates, Validates
  <2>15. WithinLimit' /\ SentWithinQuota'
    <3>1. requests[d] + Attempts <= RPM
      BY <1>11 DEF Fits
    <3>2. \A e \in Epochs : requests[e] \in Nat /\ requests[e] <= RPM
      BY DEF IInv, TypeOK, WithinLimit
    <3>3. \A e \in Epochs : requests'[e] <= RPM
      BY <1>7, <2>8, <3>1, <3>2
    <3> QED BY <1>0, <3>3 DEF IInv, WithinLimit, SentWithinQuota
  <2>16. SentIsCovered'
    <3> SUFFICES ASSUME NEW e \in Epochs, e >= floor' \/ HasLive(e)'
                 PROVE  sent'[e] + Owed(e)' <= KeptRequests(e)'
      BY DEF SentIsCovered
    <3>1. e \in Nat
      BY QuotaConstants DEF Epochs
    <3>2. HasLive(e)' => HasLive(e) \/ e = d
      BY <2>1, <2>4 DEF HasLive
    <3>3. e >= floor \/ HasLive(e)
      BY <1>5, <3>1, <3>2
    <3>4. sent[e] + Owed(e) <= KeptRequests(e)
      BY <3>3 DEF IInv, SentIsCovered
    <3>5. Owed(e)' = Owed(e)
      BY <1>9, <2>3, <2>9
    <3>6. KeptRequests(e)' = KeptRequests(e)
      <4>1. r \notin KeptOf(e)
        BY <2>4 DEF KeptOf
      <4>2. receipts' \cap KeptOf(e) = receipts \cap KeptOf(e)
        BY <2>1, <4>1
      <4> QED BY <4>2 DEF KeptRequests
    <3> QED BY <1>0, <3>4, <3>5, <3>6
  <2> QED BY <2>9, <2>10, <2>11, <2>12, <2>14, <2>15, <2>16 DEF IInv
<1> QED BY <1>10, <1>11

\* A crash forgets the calls; what they owed is not sent.
LEMMA CrashStep == ASSUME IInv, Crash PROVE IInv'
<1>1. /\ process' = "down" /\ crashes' = crashes + 1 /\ healthy' = TRUE /\ last_pruned' = 0
      /\ pc' = [a \in Agents |-> "idle"] /\ call' = [a \in Agents |-> NoCall]
      /\ UNCHANGED <<floor, receipts, requests, tokens, member, sent, issued>>
  BY DEF Crash, ledger
<1>2. 0 \in Epochs /\ 0 \in 0..Attempts /\ 0 <= floor
  BY QuotaConstants DEF IInv, TypeOK, Epochs
<1>3. NoCall \in [group : Groups \union {"none"}, revision : Nat, id : Nat,
                  epoch : Epochs, used : 0..Attempts]
  BY <1>2 DEF NoCall
<1>4. TypeOK'
  BY <1>1, <1>3 DEF IInv, TypeOK, Places
<1>5. IdsUnique' /\ LedgerMatchesReceipts' /\ WithinLimit' /\ SentWithinQuota'
  BY <1>1 DEF IInv, IdsUnique, LedgerMatchesReceipts, LedgerValidates, WithinLimit, SentWithinQuota
<1>6. CallsHoldReceipts' /\ CallsInOrder'
  BY <1>1, <1>2 DEF CallsHoldReceipts, CallsInOrder, Holds, NoCall
<1>7. SentIsCovered'
  <2> SUFFICES ASSUME NEW e \in Epochs, e >= floor' \/ HasLive(e)'
               PROVE  sent'[e] + Owed(e)' <= KeptRequests(e)'
    BY DEF SentIsCovered
  <2>1. sent[e] + Owed(e) <= KeptRequests(e)
    BY <1>1 DEF IInv, SentIsCovered, HasLive
  <2>2. Owing(e) \in [Agents -> Nat] /\ Owed(e) \in Nat
    BY OwingType DEF IInv
  <2> DEFINE none == [a \in Agents |-> 0]
             same == [a \in Agents |-> a]
  <2>3. Owing(e)' = none
    BY <1>1 DEF Owing
  <2>4. IsFiniteSet(Agents) /\ Agents \in SUBSET Agents /\ none \in [Agents -> Nat]
    BY FinitelyManyAgents
  <2>5. /\ same \in [Agents -> Agents] /\ \A x, y \in Agents : same[x] = same[y] => x = y
        /\ \A x \in Agents : none[x] <= Owing(e)[same[x]]
    BY <2>2
  <2> HIDE DEF none, same
  <2>6. Sum(none, Agents) <= Sum(Owing(e), Agents) /\ Sum(none, Agents) \in Nat
    BY <2>2, <2>4, <2>5, SumInjection, SumType
  <2>7. Owed(e)' <= Owed(e) /\ Owed(e)' \in Nat
    BY <2>3, <2>6 DEF Owed
  <2>8. /\ sent'[e] = sent[e] /\ sent[e] \in Nat
        /\ KeptRequests(e)' = KeptRequests(e) /\ KeptRequests(e) \in Nat
    BY <1>1, KeptWithinRequests DEF KeptRequests, IInv, TypeOK
  <2> QED BY <2>1, <2>2, <2>7, <2>8
<1> QED BY <1>4, <1>5, <1>6, <1>7 DEF IInv

\* Recovery maps the kept receipts one to one to what it leaves.
LEMMA RecoveredReceipts ==
  ASSUME IInv
  PROVE  /\ Recovered \in SUBSET Receipt /\ IsFiniteSet(Recovered)
         /\ \A p \in Recovered : /\ p.state \notin Live /\ p.id <= issued
                                 /\ \A q \in Recovered : q.id = p.id => q = p
         /\ \A e \in Epochs :
              /\ Sum(RequestsIn, Recovered \cap OfEpoch(e)) \in Nat
              /\ Sum(RequestsIn, Recovered \cap OfEpoch(e)) <= requests[e]
              /\ Sum(RequestsIn, Recovered \cap KeptOf(e)) \in Nat
              /\ KeptRequests(e) <= Sum(RequestsIn, Recovered \cap KeptOf(e))
<1> DEFINE S == {q \in receipts : q.state # "reserved"}
           f == [q \in S |-> IF q.state = "in_flight" THEN [q EXCEPT !.state = "estimated"] ELSE q]
<1>1. receipts \in SUBSET Receipt /\ IsFiniteSet(receipts)
  BY DEF IInv, TypeOK
<1>2. S \in SUBSET Receipt /\ IsFiniteSet(S)
  BY <1>1, FS_Subset
<1>3. Recovered = {f[q] : q \in S}
  BY DEF Recovered
<1>4. \A q \in S : /\ f[q] \in Receipt /\ f[q].id = q.id /\ f[q].epoch = q.epoch
                   /\ f[q].requests = q.requests /\ f[q].state \in {"reconciled", "estimated"}
  <2> TAKE q \in S
  <2>1. q \in Receipt /\ q.state # "reserved"
    BY <1>1
  <2>2. f[q] = IF q.state = "in_flight" THEN [q EXCEPT !.state = "estimated"] ELSE q
    OBVIOUS
  <2> HIDE DEF f
  <2> QED BY <2>1, <2>2 DEF Receipt, States
<1>5. \A q \in S : q.id <= issued /\ \A p \in S : p.id = q.id => p = q
  BY DEF IInv, IdsUnique
<1> HIDE DEF S, f
<1>6. Recovered \in SUBSET Receipt
  BY <1>3, <1>4
<1>7. IsFiniteSet(Recovered)
  <2>1. f \in Surjection(S, Recovered)
    <3>1. f \in [S -> Recovered]
      BY <1>3 DEF f
    <3>2. \A t \in Recovered : \E s \in S : f[s] = t
      BY <1>3
    <3> QED BY <3>1, <3>2 DEF Surjection
  <2> QED BY <1>2, <2>1, FS_Surjection
<1>8. \A p \in Recovered : /\ p.state \notin Live /\ p.id <= issued
                           /\ \A q \in Recovered : q.id = p.id => q = p
  BY <1>3, <1>4, <1>5 DEF Live
<1>9. RequestsIn \in [Receipt -> Nat] /\ \A r \in Receipt : RequestsIn[r] = r.requests /\ r.requests \in Nat
  BY DEF RequestsIn, Receipt
<1>10. ASSUME NEW e \in Epochs
       PROVE  /\ Sum(RequestsIn, Recovered \cap OfEpoch(e)) \in Nat
              /\ Sum(RequestsIn, Recovered \cap OfEpoch(e)) <= requests[e]
  <2> DEFINE T == Recovered \cap OfEpoch(e)
             U == receipts \cap OfEpoch(e)
             back == [p \in T |-> CHOOSE q \in S : f[q] = p]
  <2>1. T \in SUBSET Receipt /\ IsFiniteSet(T) /\ U \in SUBSET Receipt /\ IsFiniteSet(U)
    BY <1>1, <1>6, <1>7, FS_Subset
  <2>2. \A p \in T : back[p] \in S /\ f[back[p]] = p
    <3> TAKE p \in T
    <3>1. \E q \in S : f[q] = p
      BY <1>3
    <3> QED BY <3>1
  <2>3. \A p \in T : back[p] \in U
    <3> TAKE p \in T
    <3>1. back[p] \in S /\ back[p].epoch = p.epoch
      BY <1>4, <2>2
    <3>2. back[p] \in receipts /\ back[p] \in Receipt
      BY <1>1, <3>1 DEF S
    <3>3. p.epoch = e
      BY DEF OfEpoch
    <3> QED BY <3>1, <3>2, <3>3 DEF OfEpoch
  <2>4. back \in [T -> U]
    BY <2>3
  <2>5. \A x, y \in T : back[x] = back[y] => x = y
    BY <2>2
  <2>6. \A x \in T : RequestsIn[x] <= RequestsIn[back[x]]
    <3> TAKE x \in T
    <3>1. x.requests = back[x].requests /\ x \in Receipt /\ back[x] \in Receipt
      BY <1>2, <1>4, <2>1, <2>2
    <3>2. RequestsIn[x] = x.requests /\ RequestsIn[back[x]] = back[x].requests /\ x.requests \in Nat
      BY <1>9, <3>1
    <3> QED BY <3>1, <3>2
  <2> HIDE DEF T, U, back
  <2>7. Sum(RequestsIn, T) <= Sum(RequestsIn, U)
    BY <1>9, <2>1, <2>4, <2>5, <2>6, SumInjection
  <2>8. Sum(RequestsIn, T) \in Nat
    BY <1>9, <2>1, SumType
  <2>9. requests[e] = Sum(RequestsIn, U)
    BY KeptWithinRequests DEF U
  <2> QED BY <2>7, <2>8, <2>9 DEF T
<1>11. ASSUME NEW e \in Epochs
       PROVE  /\ Sum(RequestsIn, Recovered \cap KeptOf(e)) \in Nat
              /\ KeptRequests(e) <= Sum(RequestsIn, Recovered \cap KeptOf(e))
  <2> DEFINE T == receipts \cap KeptOf(e)
             U == Recovered \cap KeptOf(e)
             on == [q \in T |-> f[q]]
  <2>1. T \in SUBSET Receipt /\ IsFiniteSet(T) /\ U \in SUBSET Receipt /\ IsFiniteSet(U)
    BY <1>1, <1>6, <1>7, FS_Subset
  <2>2. \A q \in T : q \in S /\ q.epoch = e
    BY DEF KeptOf, S
  <2>3. \A q \in T : on[q] = f[q] /\ f[q] \in U
    <3> TAKE q \in T
    <3>1. /\ f[q] \in Recovered /\ f[q] \in Receipt /\ f[q].epoch = e
          /\ f[q].state \in {"reconciled", "estimated"}
      BY <1>3, <1>4, <2>2
    <3> QED BY <3>1 DEF KeptOf
  <2>4. on \in [T -> U]
    BY <2>3
  <2>5. \A x, y \in T : on[x] = on[y] => x = y
    BY <1>4, <1>5, <2>2, <2>3
  <2>6. \A x \in T : RequestsIn[x] <= RequestsIn[on[x]]
    <3> TAKE x \in T
    <3>1. x.requests = on[x].requests /\ x \in Receipt /\ on[x] \in Receipt
      BY <1>4, <2>1, <2>2, <2>3
    <3>2. RequestsIn[x] = x.requests /\ RequestsIn[on[x]] = on[x].requests /\ x.requests \in Nat
      BY <1>9, <3>1
    <3> QED BY <3>1, <3>2
  <2> HIDE DEF T, U, on
  <2>7. Sum(RequestsIn, T) <= Sum(RequestsIn, U)
    BY <1>9, <2>1, <2>4, <2>5, <2>6, SumInjection
  <2>8. Sum(RequestsIn, U) \in Nat
    BY <1>9, <2>1, SumType
  <2> QED BY <2>7, <2>8 DEF T, U, KeptRequests
<1> QED BY <1>6, <1>7, <1>8, <1>10, <1>11

\* Recovery releases the reserved receipts, keeps those in flight as estimates
\* and computes the aggregates anew; none of them grows.
LEMMA RecoverStep == ASSUME IInv, Recover PROVE IInv'
<1>1. PICK now \in Epochs : RecoverLedger(now)
  BY DEF Recover
<1>2. PICK R : R = Recovered
  OBVIOUS
<1>3. /\ process = "down" /\ process' = "recovering" /\ floor' = EffectiveEpoch(now)
      /\ receipts' = R
      /\ requests' = [e \in Epochs |-> RequestsOf(R, e)]
      /\ tokens' = [g \in Groups |-> [e \in Epochs |-> TokensOf(R, g, e)]]
      /\ UNCHANGED <<healthy, last_pruned, member, pc, call, sent, issued, crashes>>
  BY <1>1, <1>2 DEF Recover, RecoverLedger, bounds
<1>4. floor' \in Epochs /\ floor' >= floor /\ floor \in Nat /\ floor' \in Nat
  <2>1. floor' \in Epochs /\ floor' >= floor
    BY <1>3, EffectiveEpochType DEF IInv
  <2>2. floor \in Epochs /\ MaxEpoch \in Nat
    BY QuotaConstants DEF IInv, TypeOK
  <2> QED BY <2>1, <2>2 DEF Epochs
<1>5. /\ R \in SUBSET Receipt /\ IsFiniteSet(R)
      /\ \A p \in R : /\ p.state \notin Live /\ p.id <= issued
                      /\ \A q \in R : q.id = p.id => q = p
      /\ \A e \in Epochs :
           /\ Sum(RequestsIn, R \cap OfEpoch(e)) \in Nat
           /\ Sum(RequestsIn, R \cap OfEpoch(e)) <= requests[e]
           /\ Sum(RequestsIn, R \cap KeptOf(e)) \in Nat
           /\ KeptRequests(e) <= Sum(RequestsIn, R \cap KeptOf(e))
  BY <1>2, RecoveredReceipts
<1>6. Validates(R, requests', tokens')
  BY <1>3 DEF Validates
<1>7. Balances(R, requests', tokens')
  BY <1>5, <1>6, SumsOfLedger
<1>8. \A e \in Epochs : /\ requests'[e] = Sum(RequestsIn, R \cap OfEpoch(e))
                        /\ \A g \in Groups : tokens'[g][e] = Sum(TokensIn, R \cap OfScope(g, e))
  BY <1>7 DEF Balances
<1>9. requests' \in [Epochs -> Nat] /\ tokens' \in [Groups -> [Epochs -> Nat]]
  <2>1. \A e \in Epochs : requests'[e] \in Nat
    BY <1>5, <1>8
  <2>2. ASSUME NEW e \in Epochs, NEW g \in Groups PROVE tokens'[g][e] \in Nat
    <3>1. TokensIn \in [Receipt -> Nat]
      BY DEF TokensIn, Receipt
    <3>2. R \cap OfScope(g, e) \in SUBSET Receipt /\ IsFiniteSet(R \cap OfScope(g, e))
      BY <1>5, FS_Subset
    <3>3. Sum(TokensIn, R \cap OfScope(g, e)) \in Nat
      BY <3>1, <3>2, SumType
    <3> QED BY <1>8, <3>3
  <2> QED BY <1>3, <2>1, <2>2
<1>10. TypeOK'
  BY <1>3, <1>4, <1>5, <1>9 DEF IInv, TypeOK
<1>11. \A a \in Agents : pc[a] = "idle"
  BY <1>3 DEF IInv, CallsInOrder
<1>12. IdsUnique' /\ CallsHoldReceipts'
  BY <1>3, <1>5, <1>11 DEF IdsUnique, CallsHoldReceipts, Holds
<1>13. CallsInOrder'
  <2>1. \A a \in Agents : call[a].epoch \in Nat /\ call[a].epoch <= floor
    BY QuotaConstants DEF IInv, TypeOK, CallsInOrder, Epochs
  <2>2. \A a \in Agents : call'[a].epoch <= floor'
    BY <1>3, <1>4, <2>1
  <2> QED BY <1>3, <1>11, <2>2 DEF IInv, CallsInOrder
<1>14. LedgerMatchesReceipts'
  BY <1>3, <1>6 DEF LedgerMatchesReceipts, LedgerValidates, Validates
<1>15. WithinLimit' /\ SentWithinQuota'
  <2>1. \A e \in Epochs : requests[e] \in Nat /\ requests[e] <= RPM /\ requests'[e] \in Nat
                          /\ requests'[e] <= requests[e]
    BY <1>5, <1>8, <1>9 DEF IInv, TypeOK, WithinLimit
  <2>2. RPM \in Nat
    BY QuotaConstants
  <2>3. \A e \in Epochs : requests'[e] <= RPM
    BY <2>1, <2>2
  <2> QED BY <1>3, <2>3 DEF IInv, WithinLimit, SentWithinQuota
<1>16. SentIsCovered'
  <2> SUFFICES ASSUME NEW e \in Epochs, e >= floor' \/ HasLive(e)'
               PROVE  sent'[e] + Owed(e)' <= KeptRequests(e)'
    BY DEF SentIsCovered
  <2>1. ~ HasLive(e)'
    BY <1>3, <1>5 DEF HasLive
  <2>2. e \in Nat
    BY QuotaConstants DEF Epochs
  <2>3. sent[e] + Owed(e) <= KeptRequests(e)
    BY <1>4, <2>1, <2>2 DEF IInv, SentIsCovered
  <2>4. Owed(e)' = Owed(e) /\ Owed(e) \in Nat
    <3>1. Owing(e)' = Owing(e)
      BY <1>3 DEF Owing
    <3>2. Owed(e) \in Nat
      BY OwingType DEF IInv
    <3> QED BY <3>1, <3>2 DEF Owed
  <2>5. KeptRequests(e)' = Sum(RequestsIn, R \cap KeptOf(e))
    BY <1>3 DEF KeptRequests
  <2>6. KeptRequests(e) \in Nat /\ sent[e] \in Nat /\ sent'[e] = sent[e]
    BY <1>3, KeptWithinRequests DEF IInv, TypeOK
  <2>7. /\ Sum(RequestsIn, R \cap KeptOf(e)) \in Nat
        /\ KeptRequests(e) <= Sum(RequestsIn, R \cap KeptOf(e))
    BY <1>5
  <2> QED BY <2>3, <2>4, <2>5, <2>6, <2>7
<1> QED BY <1>10, <1>12, <1>13, <1>14, <1>15, <1>16 DEF IInv

\* An empty ledger satisfies the invariant.
LEMMA InitIInv == Init => IInv
<1> SUFFICES ASSUME Init PROVE IInv
  OBVIOUS
<1>1. 0 \in Epochs /\ 0 \in 0..Attempts /\ 0 \in Nat
  BY QuotaConstants DEF Epochs
<1>2. NoCall \in [group : Groups \union {"none"}, revision : Nat, id : Nat,
                  epoch : Epochs, used : 0..Attempts]
  BY <1>1 DEF NoCall
<1>3. receipts = {} /\ receipts \in SUBSET Receipt /\ IsFiniteSet(receipts)
  BY FS_EmptySet DEF Init
<1>4. TypeOK
  BY <1>1, <1>2, <1>3 DEF Init, TypeOK, Places
<1>5. IdsUnique /\ CallsHoldReceipts /\ CallsInOrder /\ WithinLimit /\ SentWithinQuota
  BY <1>1, QuotaConstants DEF Init, IdsUnique, CallsHoldReceipts, CallsInOrder, WithinLimit,
                              SentWithinQuota, Holds, NoCall
<1>6. RequestsIn \in [Receipt -> Nat] /\ TokensIn \in [Receipt -> Nat]
  BY DEF RequestsIn, TokensIn, Receipt
<1>7. /\ \A F : receipts \cap F = {}
      /\ Sum(RequestsIn, {}) = 0 /\ Sum(TokensIn, {}) = 0
  BY <1>3, <1>6, SumType
<1>8. LedgerMatchesReceipts
  <2>1. Balances(receipts, requests, tokens)
    BY <1>7 DEF Balances, Init
  <2>2. Validates(receipts, requests, tokens)
    BY <1>3, <2>1, SumsOfLedger
  <2> QED BY <2>2 DEF LedgerMatchesReceipts, LedgerValidates, Validates
<1>9. SentIsCovered
  <2> SUFFICES ASSUME NEW e \in Epochs PROVE sent[e] + Owed(e) <= KeptRequests(e)
    BY DEF SentIsCovered
  <2>1. KeptRequests(e) = 0 /\ sent[e] = 0
    BY <1>7 DEF KeptRequests, Init
  <2> DEFINE none == [a \in Agents |-> 0]
  <2>2. Owing(e) = none
    BY DEF Owing, Init
  <2>3. Sum(none, Agents) = 0
    BY ZeroSum, FinitelyManyAgents
  <2> QED BY <2>1, <2>2, <2>3 DEF Owed
<1> QED BY <1>4, <1>5, <1>8, <1>9 DEF IInv

\* Every step keeps the invariant.
LEMMA NextIInv == IInv /\ [Next]_vars => IInv'
<1> SUFFICES ASSUME IInv, [Next]_vars PROVE IInv'
  OBVIOUS
<1>1. ASSUME NEW a \in Agents, LeaveUnreserved(a) PROVE IInv'
  BY <1>1, EndsAlone DEF LeaveUnreserved, IInv, TypeOK
<1>2. ASSUME NEW a \in Agents, Denied(a) PROVE IInv'
  BY <1>2, EndsAlone DEF Denied, IInv, TypeOK
<1>3. ASSUME NEW a \in Agents, Refund(a) PROVE IInv'
  BY <1>3, RefundKeeps DEF Refund, At, IInv, TypeOK
<1>4. ASSUME NEW a \in Agents,
             \/ Snapshot(a) \/ LeaveUnreserved(a) \/ Permit(a) \/ Reserve(a) \/ Prune(a)
             \/ Denied(a) \/ Refund(a) \/ MarkInvoked(a) \/ Send(a) \/ Reconcile(a)
             \/ RetainEstimate(a) \/ StoreFails(a)
             \/ \E g \in Groups : Move(a, g)
      PROVE  IInv'
  BY <1>1, <1>2, <1>3, <1>4, SnapshotStep, PermitStep, ReserveStep, PruneStep, MarkInvokedStep,
     SendStep, ReconcileStep, RetainEstimateStep, StoreFailsStep, MoveStep
<1>5. CASE UNCHANGED vars
  BY <1>5 DEF vars, ledger, bounds, IInv, TypeOK, IdsUnique, CallsHoldReceipts, Backed, Holds,
     CallsInOrder, LedgerMatchesReceipts, LedgerValidates, WithinLimit, SentIsCovered, HasLive,
     Owed, Owing, KeptRequests, SentWithinQuota
<1> QED BY <1>4, <1>5, CrashStep, RecoverStep, StartStep DEF Next

\* The inductive invariant: the ledger balances, identifiers are unique, every
\* call in progress holds its receipt, and what was sent is covered.
THEOREM LedgerInvariant == Spec => []IInv
BY InitIInv, NextIInv, PTL DEF Spec

\* validate_all_provider_epochs never fails: the aggregates of every epoch and
\* scope equal what its receipts add up to, through reservations, refunds,
\* reconciliations, prunings, failed transactions and crashes.
THEOREM LedgerAlwaysValidates == Spec => []LedgerMatchesReceipts
<1>1. IInv => LedgerMatchesReceipts
  BY DEF IInv
<1> QED BY LedgerInvariant, <1>1, PTL

\* The limiter admits no more attempts to an epoch than its limit, whatever the
\* clock shows, however late calls end, and across crashes and prunings.
THEOREM QuotaIsRespected == Spec => []SentWithinQuota
<1>1. IInv => SentWithinQuota
  BY DEF IInv
<1> QED BY LedgerInvariant, <1>1, PTL

-----------------------------------------------------------------------------
(* Budgets: the same sums for the counters of the enforcer.  Budget has    *)
(* variables of its own; only the agents are the same.                     *)

\* What the enforcer adds up is the sum of the first part.
LEMMA BudgetSum == ASSUME NEW f PROVE SumOver(f) = Sum(f, Agents)
BY DEF SumOver, Sum

\* No response costs more than the largest charge.
LEMMA LargestCharge ==
  Max(Charges) \in Nat /\ \A c \in Charges : c <= Max(Charges)
<1>1. Charges \subseteq Nat
  BY BudgetConstants
<1>2. \E m \in Charges : \A c \in Charges : m >= c
  BY <1>1, BudgetConstants
<1>3. Max(Charges) \in Charges /\ \A c \in Charges : Max(Charges) >= c
  BY <1>2 DEF Max
<1> QED BY <1>1, <1>3

\* A call that gets the global lock found nobody between the lock and the charge.
LEMMA LockGlobalStep == ASSUME BudgetInv, NEW a \in Agents, LockGlobal(a) PROVE BudgetInv'
<1>0. held' \in SUBSET Nat
  <2>1. held \in SUBSET Nat /\ 0 \in Nat
    BY DEF BudgetInv, BudgetTypeOK
  <2>2. held' = held \/ held' = held \union {0}
    BY DEF LockGlobal, GlobalLock
  <2> QED BY <2>1, <2>2
<1>1. BudgetTypeOK'
  BY <1>0 DEF BudgetInv, BudgetTypeOK, TurnPlaces, LockGlobal, Enter, enforcer, turnBounds
<1>2. Accounts'
  BY DEF BudgetInv, BudgetTypeOK, Accounts, LockGlobal, Enter, enforcer, turnBounds
<1>3. GlobalExclusive'
  BY DEF BudgetInv, BudgetTypeOK, GlobalExclusive, GlobalLock, LockGlobal, Enter, enforcer,
     turnBounds
<1>4. TenantKnown'
  BY DEF BudgetInv, BudgetTypeOK, TenantKnown, NoneKilled, LockGlobal, Enter, enforcer,
     turnBounds
<1>5. TenantExclusive'
  BY DEF BudgetInv, BudgetTypeOK, TenantExclusive, TenantKnown, NoneKilled, GlobalLock,
     LockGlobal, Enter, enforcer, turnBounds
<1>6. OneResponseOverCeiling'
  BY DEF BudgetInv, BudgetTypeOK, OneResponseOverCeiling, LockGlobal, Enter, enforcer,
     turnBounds
<1> QED BY <1>1, <1>2, <1>3, <1>4, <1>5, <1>6 DEF BudgetInv

\* While no agent was killed, a tenant without a lock object has no call that uses one.
LEMMA LookupTenantStep == ASSUME BudgetInv, NEW a \in Agents, LookupTenant(a) PROVE BudgetInv'
<1>1. BudgetTypeOK'
  BY DEF BudgetInv, BudgetTypeOK, TurnPlaces, LookupTenant, Enter, enforcer, turnBounds
<1>2. Accounts'
  BY DEF BudgetInv, BudgetTypeOK, Accounts, LookupTenant, Enter, enforcer, turnBounds
<1>3. GlobalExclusive'
  BY DEF BudgetInv, BudgetTypeOK, GlobalExclusive, GlobalLock, LookupTenant, Enter,
     enforcer, turnBounds
<1>4. TenantKnown'
  BY DEF BudgetInv, BudgetTypeOK, TenantKnown, NoneKilled, LookupTenant, Enter, enforcer,
     turnBounds
<1>5. TenantExclusive'
  BY DEF BudgetInv, BudgetTypeOK, TenantExclusive, TenantKnown, NoneKilled, GlobalLock,
     LookupTenant, Enter, enforcer, turnBounds
<1>6. OneResponseOverCeiling'
  BY DEF BudgetInv, BudgetTypeOK, OneResponseOverCeiling, LookupTenant, Enter, enforcer,
     turnBounds
<1> QED BY <1>1, <1>2, <1>3, <1>4, <1>5, <1>6 DEF BudgetInv

\* A call that gets the lock of the tenant found no other call past it.
LEMMA LockTenantStep == ASSUME BudgetInv, NEW a \in Agents, LockTenant(a) PROVE BudgetInv'
<1>0. held' \in SUBSET Nat
  <2>1. held \in SUBSET Nat /\ turn[a].lock \in Nat
    BY DEF BudgetInv, BudgetTypeOK
  <2>2. held' = held \/ held' = held \union {turn[a].lock}
    BY DEF LockTenant, GlobalLock
  <2> QED BY <2>1, <2>2
<1>1. BudgetTypeOK'
  BY <1>0 DEF BudgetInv, BudgetTypeOK, TurnPlaces, LockTenant, Enter, enforcer, turnBounds
<1>2. Accounts'
  BY DEF BudgetInv, BudgetTypeOK, Accounts, LockTenant, Enter, enforcer, turnBounds
<1>3. GlobalExclusive'
  BY DEF BudgetInv, BudgetTypeOK, GlobalExclusive, GlobalLock, LockTenant, Enter, enforcer,
     turnBounds
<1>4. TenantKnown'
  BY DEF BudgetInv, BudgetTypeOK, TenantKnown, NoneKilled, LockTenant, Enter, enforcer,
     turnBounds
<1>5. TenantExclusive'
  BY DEF BudgetInv, BudgetTypeOK, TenantExclusive, TenantKnown, NoneKilled, GlobalLock,
     LockTenant, Enter, enforcer, turnBounds
<1>6. OneResponseOverCeiling'
  BY DEF BudgetInv, BudgetTypeOK, OneResponseOverCeiling, LockTenant, Enter, enforcer,
     turnBounds
<1> QED BY <1>1, <1>2, <1>3, <1>4, <1>5, <1>6 DEF BudgetInv

\* What the check saw is still so while the locks are held.
LEMMA AdmitStep == ASSUME BudgetInv, NEW a \in Agents, Admit(a) PROVE BudgetInv'
<1>1. BudgetTypeOK'
  BY DEF BudgetInv, BudgetTypeOK, TurnPlaces, Admit, Enter, enforcer, turnBounds, Release,
     HeldBy, WithinCeilings
<1>2. Accounts'
  BY DEF BudgetInv, BudgetTypeOK, Accounts, Admit, Enter, enforcer, turnBounds, Release,
     HeldBy, WithinCeilings
<1>3. GlobalExclusive'
  BY DEF BudgetInv, BudgetTypeOK, GlobalExclusive, GlobalLock, Admit, Enter, enforcer,
     turnBounds, Release, HeldBy, WithinCeilings
<1>4. TenantKnown'
  BY DEF BudgetInv, BudgetTypeOK, TenantKnown, NoneKilled, Admit, Enter, enforcer, turnBounds,
     Release, HeldBy, WithinCeilings
<1>5. TenantExclusive'
  BY DEF BudgetInv, BudgetTypeOK, TenantExclusive, TenantKnown, NoneKilled, GlobalLock,
     Admit, Enter, enforcer, turnBounds, Release, HeldBy, WithinCeilings
<1>6. OneResponseOverCeiling'
  BY DEF BudgetInv, BudgetTypeOK, OneResponseOverCeiling, Admit, Enter, enforcer, turnBounds,
     Release, HeldBy, WithinCeilings
<1> QED BY <1>1, <1>2, <1>3, <1>4, <1>5, <1>6 DEF BudgetInv

\* A refused call gives back the locks it has, and nobody else had them.
LEMMA StopStep == ASSUME BudgetInv, NEW a \in Agents, Stop(a) PROVE BudgetInv'
<1>1. BudgetTypeOK'
  BY DEF BudgetInv, BudgetTypeOK, TurnPlaces, Stop, Enter, enforcer, turnBounds, Release, HeldBy
<1>2. Accounts'
  BY DEF BudgetInv, BudgetTypeOK, Accounts, Stop, Enter, enforcer, turnBounds, Release,
     HeldBy
<1>3. GlobalExclusive'
  BY DEF BudgetInv, BudgetTypeOK, GlobalExclusive, GlobalLock, Stop, Enter, enforcer,
     turnBounds, Release, HeldBy
<1>4. TenantKnown'
  BY DEF BudgetInv, BudgetTypeOK, TenantKnown, NoneKilled, Stop, Enter, enforcer, turnBounds,
     Release, HeldBy
<1>5. TenantExclusive'
  BY DEF BudgetInv, BudgetTypeOK, TenantExclusive, TenantKnown, NoneKilled, GlobalLock,
     Stop, Enter, enforcer, turnBounds, Release, HeldBy
<1>6. OneResponseOverCeiling'
  BY DEF BudgetInv, BudgetTypeOK, OneResponseOverCeiling, Stop, Enter, enforcer, turnBounds,
     Release, HeldBy
<1> QED BY <1>1, <1>2, <1>3, <1>4, <1>5, <1>6 DEF BudgetInv

\* So does one that fails.
LEMMA CallFailsStep == ASSUME BudgetInv, NEW a \in Agents, CallFails(a) PROVE BudgetInv'
<1>1. BudgetTypeOK'
  BY DEF BudgetInv, BudgetTypeOK, TurnPlaces, CallFails, Enter, enforcer, turnBounds, Release,
     HeldBy
<1>2. Accounts'
  BY DEF BudgetInv, BudgetTypeOK, Accounts, CallFails, Enter, enforcer, turnBounds, Release,
     HeldBy
<1>3. GlobalExclusive'
  BY DEF BudgetInv, BudgetTypeOK, GlobalExclusive, GlobalLock, CallFails, Enter, enforcer,
     turnBounds, Release, HeldBy
<1>4. TenantKnown'
  BY DEF BudgetInv, BudgetTypeOK, TenantKnown, NoneKilled, CallFails, Enter, enforcer,
     turnBounds, Release, HeldBy
<1>5. TenantExclusive'
  BY DEF BudgetInv, BudgetTypeOK, TenantExclusive, TenantKnown, NoneKilled, GlobalLock,
     CallFails, Enter, enforcer, turnBounds, Release, HeldBy
<1>6. OneResponseOverCeiling'
  BY DEF BudgetInv, BudgetTypeOK, OneResponseOverCeiling, CallFails, Enter, enforcer,
     turnBounds, Release, HeldBy
<1> QED BY <1>1, <1>2, <1>3, <1>4, <1>5, <1>6 DEF BudgetInv

\* Between calls a turn holds no lock.
LEMMA NextRoundStep == ASSUME BudgetInv, NEW a \in Agents, NextRound(a) PROVE BudgetInv'
<1>1. BudgetTypeOK'
  BY DEF BudgetInv, BudgetTypeOK, TurnPlaces, NextRound, Enter, enforcer, turnBounds, locks
<1>2. Accounts'
  BY DEF BudgetInv, BudgetTypeOK, Accounts, NextRound, Enter, enforcer, turnBounds, locks
<1>3. GlobalExclusive'
  BY DEF BudgetInv, BudgetTypeOK, GlobalExclusive, GlobalLock, NextRound, Enter, enforcer,
     turnBounds, locks
<1>4. TenantKnown'
  BY DEF BudgetInv, BudgetTypeOK, TenantKnown, NoneKilled, NextRound, Enter, enforcer,
     turnBounds, locks
<1>5. TenantExclusive'
  BY DEF BudgetInv, BudgetTypeOK, TenantExclusive, TenantKnown, NoneKilled, GlobalLock,
     NextRound, Enter, enforcer, turnBounds, locks
<1>6. OneResponseOverCeiling'
  BY DEF BudgetInv, BudgetTypeOK, OneResponseOverCeiling, NextRound, Enter, enforcer,
     turnBounds, locks
<1> QED BY <1>1, <1>2, <1>3, <1>4, <1>5, <1>6 DEF BudgetInv

\* A turn begins with nothing charged.
LEMMA BeginTurnStep == ASSUME BudgetInv, NEW a \in Agents, BeginTurn(a) PROVE BudgetInv'
<1>1. BudgetTypeOK'
  BY DEF BudgetInv, BudgetTypeOK, TurnPlaces, BeginTurn, Enter, enforcer, turnBounds, locks,
     NoTurn
<1>2. Accounts'
  BY DEF BudgetInv, BudgetTypeOK, Accounts, BeginTurn, Enter, enforcer, turnBounds, locks,
     NoTurn
<1>3. GlobalExclusive'
  BY DEF BudgetInv, BudgetTypeOK, GlobalExclusive, GlobalLock, BeginTurn, Enter, enforcer,
     turnBounds, locks, NoTurn
<1>4. TenantKnown'
  BY DEF BudgetInv, BudgetTypeOK, TenantKnown, NoneKilled, BeginTurn, Enter, enforcer,
     turnBounds, locks, NoTurn
<1>5. TenantExclusive'
  BY DEF BudgetInv, BudgetTypeOK, TenantExclusive, TenantKnown, NoneKilled, GlobalLock,
     BeginTurn, Enter, enforcer, turnBounds, locks, NoTurn
<1>6. OneResponseOverCeiling'
  BY DEF BudgetInv, BudgetTypeOK, OneResponseOverCeiling, BeginTurn, Enter, enforcer,
     turnBounds, locks, NoTurn
<1> QED BY <1>1, <1>2, <1>3, <1>4, <1>5, <1>6 DEF BudgetInv

\* A row takes what its turn was charged, once.
LEMMA RecordStep == ASSUME BudgetInv, NEW a \in Agents, Record(a) PROVE BudgetInv'
<1>1. BudgetTypeOK'
  BY DEF BudgetInv, BudgetTypeOK, TurnPlaces, Record, Enter, enforcer, turnBounds, locks
<1>2. Accounts'
  BY DEF BudgetInv, BudgetTypeOK, Accounts, Record, Enter, enforcer, turnBounds, locks
<1>3. GlobalExclusive'
  BY DEF BudgetInv, BudgetTypeOK, GlobalExclusive, GlobalLock, Record, Enter, enforcer,
     turnBounds, locks
<1>4. TenantKnown'
  BY DEF BudgetInv, BudgetTypeOK, TenantKnown, NoneKilled, Record, Enter, enforcer,
     turnBounds, locks
<1>5. TenantExclusive'
  BY DEF BudgetInv, BudgetTypeOK, TenantExclusive, TenantKnown, NoneKilled, GlobalLock,
     Record, Enter, enforcer, turnBounds, locks
<1>6. OneResponseOverCeiling'
  BY DEF BudgetInv, BudgetTypeOK, OneResponseOverCeiling, Record, Enter, enforcer, turnBounds,
     locks
<1> QED BY <1>1, <1>2, <1>3, <1>4, <1>5, <1>6 DEF BudgetInv

\* A new agent has no turn.
LEMMA CreateStep == ASSUME BudgetInv, NEW a \in Agents, Create(a) PROVE BudgetInv'
<1>1. BudgetTypeOK'
  BY DEF BudgetInv, BudgetTypeOK, TurnPlaces, Create, Enter, enforcer, turnBounds, locks
<1>2. Accounts'
  BY DEF BudgetInv, BudgetTypeOK, Accounts, Create, Enter, enforcer, turnBounds, locks
<1>3. GlobalExclusive'
  BY DEF BudgetInv, BudgetTypeOK, GlobalExclusive, GlobalLock, Create, Enter, enforcer,
     turnBounds, locks
<1>4. TenantKnown'
  BY DEF BudgetInv, BudgetTypeOK, TenantKnown, NoneKilled, Create, Enter, enforcer,
     turnBounds, locks
<1>5. TenantExclusive'
  BY DEF BudgetInv, BudgetTypeOK, TenantExclusive, TenantKnown, NoneKilled, GlobalLock,
     Create, Enter, enforcer, turnBounds, locks
<1>6. OneResponseOverCeiling'
  BY DEF BudgetInv, BudgetTypeOK, OneResponseOverCeiling, Create, Enter, enforcer, turnBounds,
     locks
<1> QED BY <1>1, <1>2, <1>3, <1>4, <1>5, <1>6 DEF BudgetInv

\* A killed agent stays so: what the tenant is promised ends here.
LEMMA KillStep == ASSUME BudgetInv, NEW a \in Agents, Kill(a) PROVE BudgetInv'
<1>1. BudgetTypeOK'
  BY DEF BudgetInv, BudgetTypeOK, TurnPlaces, Kill, Enter, enforcer, turnBounds, locks
<1>2. Accounts'
  BY DEF BudgetInv, BudgetTypeOK, Accounts, Kill, Enter, enforcer, turnBounds, locks
<1>3. GlobalExclusive'
  BY DEF BudgetInv, BudgetTypeOK, GlobalExclusive, GlobalLock, Kill, Enter, enforcer,
     turnBounds, locks
<1>4. TenantKnown'
  BY DEF BudgetInv, BudgetTypeOK, TenantKnown, NoneKilled, Kill, Enter, enforcer, turnBounds,
     locks
<1>5. TenantExclusive'
  BY DEF BudgetInv, BudgetTypeOK, TenantExclusive, TenantKnown, NoneKilled, GlobalLock,
     Kill, Enter, enforcer, turnBounds, locks
<1>6. OneResponseOverCeiling'
  BY DEF BudgetInv, BudgetTypeOK, OneResponseOverCeiling, Kill, Enter, enforcer, turnBounds,
     locks
<1> QED BY <1>1, <1>2, <1>3, <1>4, <1>5, <1>6 DEF BudgetInv

\* A lock object is dropped only after a kill.
LEMMA DropTenantLockStep == ASSUME BudgetInv, NEW a \in Agents, DropTenantLock(a) PROVE BudgetInv'
<1>1. BudgetTypeOK'
  BY DEF BudgetInv, BudgetTypeOK, TurnPlaces, DropTenantLock, Enter, enforcer, turnBounds
<1>2. Accounts'
  BY DEF BudgetInv, BudgetTypeOK, Accounts, DropTenantLock, Enter, enforcer, turnBounds
<1>3. GlobalExclusive'
  BY DEF BudgetInv, BudgetTypeOK, GlobalExclusive, GlobalLock, DropTenantLock, Enter,
     enforcer, turnBounds
<1>4. TenantKnown'
  BY DEF BudgetInv, BudgetTypeOK, TenantKnown, NoneKilled, DropTenantLock, Enter, enforcer,
     turnBounds
<1>5. TenantExclusive'
  BY DEF BudgetInv, BudgetTypeOK, TenantExclusive, TenantKnown, NoneKilled, GlobalLock,
     DropTenantLock, Enter, enforcer, turnBounds
<1>6. OneResponseOverCeiling'
  BY DEF BudgetInv, BudgetTypeOK, OneResponseOverCeiling, DropTenantLock, Enter, enforcer,
     turnBounds
<1> QED BY <1>1, <1>2, <1>3, <1>4, <1>5, <1>6 DEF BudgetInv

\* A response adds as much to the total as to its agent, and it was admitted
\* below the ceilings that the total of no other call has reached since.
LEMMA RespondStep ==
  ASSUME BudgetInv, NEW a \in Agents, NEW c \in Charges, Respond(a, c)
  PROVE  BudgetInv'
<1>1. c \in Nat /\ Max(Charges) \in Nat /\ c <= Max(Charges)
  BY LargestCharge, BudgetConstants
<1>2. /\ agentSpent' \in [Agents -> Nat] /\ agentSpent'[a] = agentSpent[a] + c
      /\ \A b \in Agents \ {a} : agentSpent[b] = agentSpent'[b]
      /\ agentSpent \in [Agents -> Nat]
  BY <1>1 DEF BudgetInv, BudgetTypeOK, Respond
<1>3. SumOver(agentSpent') = SumOver(agentSpent) + c
  <2>1. Sum(agentSpent, Agents) + agentSpent'[a] = Sum(agentSpent', Agents) + agentSpent[a]
    BY <1>2, SumChange, FinitelyManyAgents
  <2>2. Sum(agentSpent, Agents) \in Nat /\ Sum(agentSpent', Agents) \in Nat
    BY <1>2, SumType, FinitelyManyAgents
  <2>3. Sum(agentSpent', Agents) = Sum(agentSpent, Agents) + c
    BY <1>1, <1>2, <2>1, <2>2
  <2> QED BY <2>3, BudgetSum
<1>4. BudgetTypeOK'
  <2>1. held' \in SUBSET Nat
    BY DEF BudgetInv, BudgetTypeOK, Respond, Release
  <2>2. spent' \in Nat /\ tenantSpent' \in Nat
    BY <1>1 DEF BudgetInv, BudgetTypeOK, Respond
  <2>3. turn' \in [Agents -> [rounds : Nat, charged : Nat, lock : Nat]]
    <3>1. /\ turn \in [Agents -> [rounds : Nat, charged : Nat, lock : Nat]]
          /\ turn' = [turn EXCEPT ![a] = [turn[a] EXCEPT !.rounds = @ + 1, !.charged = @ + c]]
      BY DEF BudgetInv, BudgetTypeOK, Respond
    <3>2. /\ turn[a].rounds + 1 \in Nat /\ turn[a].charged + c \in Nat
          /\ turn[a] \in [rounds : Nat, charged : Nat, lock : Nat]
      BY <1>1, <3>1
    <3> QED BY <3>1, <3>2
  <2> QED BY <1>2, <2>1, <2>2, <2>3 DEF BudgetInv, BudgetTypeOK, TurnPlaces, Respond, Enter, turnBounds
<1>5. Accounts'
  <2>1. spent' = SumOver(agentSpent')
    BY <1>3 DEF BudgetInv, Accounts, Respond
  <2>2. \A b \in Agents :
          usage'[b] + (IF place'[b] = "idle" THEN 0 ELSE turn'[b].charged) <= agentSpent'[b]
    BY <1>1, <1>2 DEF BudgetInv, BudgetTypeOK, Accounts, Respond, Enter
  <2> QED BY <2>1, <2>2 DEF Accounts
<1>6. GlobalExclusive'
  BY DEF BudgetInv, BudgetTypeOK, GlobalExclusive, GlobalLock, Respond, Enter, Release,
         HeldBy
<1>7. TenantKnown'
  BY <1>1 DEF BudgetInv, BudgetTypeOK, TenantKnown, NoneKilled, Respond, Enter
<1>8. TenantExclusive'
  BY DEF BudgetInv, BudgetTypeOK, TenantExclusive, TenantKnown, NoneKilled, GlobalLock,
         Respond, Enter, Release, HeldBy
<1>9. OneResponseOverCeiling'
  <2>1. ceiling.global > 0 => spent' < ceiling.global + Max(Charges)
    BY <1>1 DEF BudgetInv, BudgetTypeOK, GlobalExclusive, Respond
  <2>2. ASSUME ceiling.tenant > 0, NoneKilled
        PROVE  SumOver(agentSpent') < ceiling.tenant + Max(Charges)
    <3>1. tenantSpent < ceiling.tenant
      BY <2>2 DEF BudgetInv, TenantExclusive, Respond
    <3>2. SumOver(agentSpent) = tenantSpent
      BY <2>2 DEF BudgetInv, TenantKnown, Accounts
    <3> QED BY <1>1, <1>3, <3>1, <3>2 DEF BudgetInv, BudgetTypeOK
  <2> QED BY <2>1, <2>2 DEF OneResponseOverCeiling, NoneKilled, Respond
<1> QED BY <1>4, <1>5, <1>6, <1>7, <1>8, <1>9 DEF BudgetInv

\* The rows add up to no more than the counters.
LEMMA RowsWithinCounters ==
  ASSUME BudgetInv
  PROVE  /\ SumOver(usage) \in Nat /\ SumOver(usage) <= spent
         /\ \A a \in Agents : usage[a] <= agentSpent[a]
<1>1. usage \in [Agents -> Nat] /\ agentSpent \in [Agents -> Nat] /\ IsFiniteSet(Agents)
  BY FinitelyManyAgents DEF BudgetInv, BudgetTypeOK
<1>2. \A a \in Agents : usage[a] <= agentSpent[a]
  BY <1>1 DEF BudgetInv, BudgetTypeOK, Accounts
<1> DEFINE same == [a \in Agents |-> a]
<1>3. /\ same \in [Agents -> Agents]
      /\ \A x, y \in Agents : same[x] = same[y] => x = y
      /\ \A x \in Agents : usage[x] <= agentSpent[same[x]]
  BY <1>2
<1> HIDE DEF same
<1>4. Sum(usage, Agents) <= Sum(agentSpent, Agents)
  BY <1>1, <1>3, SumInjection
<1>5. Sum(usage, Agents) \in Nat
  BY <1>1, SumType
<1>6. spent = Sum(agentSpent, Agents)
  BY BudgetSum DEF BudgetInv, Accounts
<1> QED BY <1>2, <1>4, <1>5, <1>6, BudgetSum

\* A restart puts the counters back to the rows, which does not raise them.
LEMMA RestartStep == ASSUME BudgetInv, Restart PROVE BudgetInv'
<1>1. /\ SumOver(usage) \in Nat /\ SumOver(usage) <= spent
      /\ spent' = SumOver(usage) /\ tenantSpent' = SumOver(usage) /\ agentSpent' = usage
  BY RowsWithinCounters DEF Restart
<1>2. BudgetTypeOK'
  BY <1>1 DEF BudgetInv, BudgetTypeOK, Restart, TurnPlaces, NoTurn
<1>3. Accounts'
  BY <1>1 DEF BudgetInv, BudgetTypeOK, Accounts, Restart
<1>4. GlobalExclusive' /\ TenantExclusive'
  BY DEF GlobalExclusive, TenantExclusive, Restart
<1>5. TenantKnown'
  BY <1>1 DEF BudgetInv, BudgetTypeOK, TenantKnown, NoneKilled, Restart
<1>6. OneResponseOverCeiling'
  <2>1. Max(Charges) \in Nat
    BY LargestCharge
  <2>2. spent = SumOver(agentSpent)
    BY DEF BudgetInv, Accounts
  <2> QED BY <1>1, <2>1, <2>2 DEF BudgetInv, BudgetTypeOK, OneResponseOverCeiling, Restart
<1> QED BY <1>2, <1>3, <1>4, <1>5, <1>6 DEF BudgetInv

\* Nothing is spent at first.
LEMMA BudgetBegins == ASSUME BudgetInit PROVE BudgetInv
<1>1. SumOver(agentSpent) = 0 /\ spent = 0 /\ tenantSpent = 0
  <2>1. agentSpent = [a \in Agents |-> 0]
    BY DEF BudgetInit
  <2>2. Sum(agentSpent, Agents) = 0
    BY <2>1, ZeroSum, FinitelyManyAgents
  <2> QED BY <2>2, BudgetSum DEF BudgetInit
<1>2. BudgetTypeOK
  BY BudgetConstants DEF BudgetInit, BudgetTypeOK, TurnPlaces, NoTurn
<1>3. Accounts
  BY <1>1 DEF BudgetInit, Accounts
<1>4. GlobalExclusive /\ TenantExclusive
  BY DEF BudgetInit, GlobalExclusive, TenantExclusive
<1>5. TenantKnown
  BY DEF BudgetInit, TenantKnown, NoneKilled
<1>6. OneResponseOverCeiling
  BY <1>1, <1>2, LargestCharge DEF BudgetTypeOK, OneResponseOverCeiling
<1> QED BY <1>2, <1>3, <1>4, <1>5, <1>6 DEF BudgetInv

\* Every step keeps the invariant.
LEMMA BudgetSteps == ASSUME BudgetInv, [BudgetNext]_budgetVars PROVE BudgetInv'
<1>1. ASSUME NEW a \in Agents, CallStep(a) PROVE BudgetInv'
  BY <1>1, LockGlobalStep, LookupTenantStep, LockTenantStep, AdmitStep, StopStep, RespondStep,
     CallFailsStep, NextRoundStep, RecordStep DEF CallStep
<1>2. CASE UNCHANGED budgetVars
  BY <1>2 DEF budgetVars, enforcer, locks, turnBounds, BudgetInv, BudgetTypeOK, Accounts,
     GlobalExclusive, TenantKnown, NoneKilled, TenantExclusive, OneResponseOverCeiling
<1> QED BY <1>1, <1>2, BeginTurnStep, CreateStep, KillStep, DropTenantLockStep, RestartStep
        DEF BudgetNext

\* The inductive invariant: the total is what the agents spent, a turn was charged
\* what it will record, and between the check and the charge of a call no other
\* call is charged to the same ceiling.
THEOREM BudgetInvariant == BudgetSpec => []BudgetInv
<1>1. BudgetInit => BudgetInv
  BY BudgetBegins
<1>2. BudgetInv /\ [BudgetNext]_budgetVars => BudgetInv'
  BY BudgetSteps
<1> QED BY <1>1, <1>2, PTL DEF BudgetSpec

\* The response that reaches a ceiling is the last one: the global total, and
\* while no agent was killed that of the tenant, passes its ceiling by less than
\* one response, whatever turns run at once and across restarts.
THEOREM CeilingsHold == BudgetSpec => []OneResponseOverCeiling
<1>1. BudgetInv => OneResponseOverCeiling
  BY DEF BudgetInv
<1> QED BY BudgetInvariant, <1>1, PTL

\* No counter of the enforcer is behind the usage rows, also while agents are
\* unregistered and after restarts.
THEOREM RowsAreEnforced == BudgetSpec => []RecordedSpendIsEnforced
<1>1. BudgetInv => RecordedSpendIsEnforced
  BY RowsWithinCounters DEF RecordedSpendIsEnforced
<1> QED BY BudgetInvariant, <1>1, PTL
=============================================================================
