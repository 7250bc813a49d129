---------------------------- MODULE SearchProofs ---------------------------
(***************************************************************************)
(* Theorems about Search, for every pool, credit and configuration.        *)
(***************************************************************************)
EXTENDS Search, FiniteSetTheorems, WellFoundedInduction, TLAPS

-----------------------------------------------------------------------------
(***************************************************************************)
(* Induction up to a bound, from the well-founded order of Nat.            *)
(***************************************************************************)

NatLess == {p \in Nat \X Nat : p[1] < p[2]}

\* A set of naturals that is not empty has a least member.
LEMMA Least == ASSUME NEW T, T \subseteq Nat, T # {}
               PROVE \E n \in T : \A m \in T : n <= m
<1>1. IsWellFoundedOn(NatLess, Nat)
  BY NatLessThanWellFounded DEF OpToRel, NatLess
<1>2. PICK x \in T : \A y \in T : ~ (<<y, x>> \in NatLess)
  BY <1>1, WFMin, Zenon
<1>3. \A m \in T : ~ (m < x)
  <2>1. TAKE m \in T
  <2>2. <<m, x>> \in Nat \X Nat /\ <<m, x>>[1] = m /\ <<m, x>>[2] = x
    OBVIOUS
  <2> QED BY <1>2, <2>2 DEF NatLess
<1> QED BY <1>3

\* Induction from 0 to n over membership in a set.
LEMMA UpTo == ASSUME NEW n \in Nat, NEW T, 0 \in T,
                     \A k \in 1 .. n : k - 1 \in T => k \in T
              PROVE \A k \in 0 .. n : k \in T
<1> DEFINE Bad == {k \in 0 .. n : k \notin T}
<1>1. SUFFICES ASSUME Bad # {} PROVE FALSE
  OBVIOUS
<1>2. PICK k \in Bad : \A m \in Bad : k <= m
  <2>1. Bad \subseteq Nat
    OBVIOUS
  <2> QED BY <1>1, <2>1, Least
<1>3. k # 0 /\ k - 1 \in 0 .. n /\ k - 1 \notin Bad
  BY <1>2
<1> QED BY <1>2, <1>3

\* A value per index can be built from the value at the index before.
Iterates(s, n, V, z, f) ==
    s \in [0 .. n -> V] /\ s[0] = z /\ \A k \in 1 .. n : s[k] = f[k][s[k - 1]]

\* The recursion that an iteration describes has a solution.
LEMMA Iteration ==
  ASSUME NEW n, NEW V, NEW z, NEW f,
         n \in Nat, z \in V, f \in [1 .. n -> [V -> V]]
  PROVE  \E s : Iterates(s, n, V, z, f)
<1> DEFINE Up(k, s) == s[0] = z /\ \A j \in 1 .. k : s[j] = f[j][s[j - 1]]
           T == {k \in 0 .. n : \E s \in [0 .. k -> V] : Up(k, s)}
<1>1. 0 \in T
  <2> DEFINE s == [j \in 0 .. 0 |-> z]
  <2>1. s \in [0 .. 0 -> V] /\ Up(0, s)
    OBVIOUS
  <2> HIDE DEF s
  <2>2. \E x \in [0 .. 0 -> V] : Up(0, x)
    BY <2>1
  <2> QED BY <2>2
<1>2. ASSUME NEW k \in 1 .. n, k - 1 \in T PROVE k \in T
  <2>1. PICK s \in [0 .. k - 1 -> V] : Up(k - 1, s)
    BY <1>2
  <2> DEFINE t == [j \in 0 .. k |-> IF j = k THEN f[k][s[k - 1]] ELSE s[j]]
  <2>2. s[k - 1] \in V /\ f[k] \in [V -> V]
    OBVIOUS
  <2>3. f[k][s[k - 1]] \in V
    BY <2>2
  <2>4. t \in [0 .. k -> V]
    BY <2>3
  <2>5. t[0] = z
    BY <2>1
  <2>6. ASSUME NEW j \in 1 .. k PROVE t[j] = f[j][t[j - 1]]
    <3>1. CASE j = k
      BY <3>1
    <3>2. CASE j # k
      <4>1. j \in 1 .. k - 1 /\ j \in 0 .. k /\ j - 1 \in 0 .. k /\ j - 1 # k
        BY <3>2
      <4> QED BY <4>1, <2>1, <3>2
    <3> QED BY <3>1, <3>2
  <2> HIDE DEF t
  <2>7. \E x \in [0 .. k -> V] : Up(k, x)
    BY <2>4, <2>5, <2>6
  <2>8. k \in 0 .. n
    OBVIOUS
  <2> HIDE DEF Up
  <2> QED BY <2>7, <2>8
<1>3. n \in T
  <2> HIDE DEF T
  <2>1. \A k \in 1 .. n : k - 1 \in T => k \in T
    BY <1>2
  <2>2. \A k \in 0 .. n : k \in T
    BY <1>1, <2>1, UpTo, Zenon
  <2> QED BY <2>2
<1> QED BY <1>3 DEF Iterates

-----------------------------------------------------------------------------
(***************************************************************************)
(* Sums                                                                    *)
(***************************************************************************)

\* The recursion that defines Sums has a solution, and its values are integers.
LEMMA SumsStep ==
  ASSUME NEW w \in Seq(Int), NEW S
  PROVE /\ Sums(w, S) \in [0 .. Len(w) -> Int]
        /\ Sums(w, S)[0] = 0
        /\ \A k \in 1 .. Len(w) :
              Sums(w, S)[k] = Sums(w, S)[k - 1] + (IF k \in S THEN w[k] ELSE 0)
<1> DEFINE n == Len(w)
           f == [k \in 1 .. n |-> [v \in Int |-> IF k \in S THEN v + w[k] ELSE v]]
           Is(s) == s = [k \in 0 .. n |-> IF k = 0 THEN 0
                                         ELSE IF k \in S THEN s[k - 1] + w[k] ELSE s[k - 1]]
<1>0. n \in Nat /\ 0 \in Int
  OBVIOUS
<1>1. f \in [1 .. n -> [Int -> Int]]
  OBVIOUS
<1>2. PICK s : Iterates(s, n, Int, 0, f)
  <2> HIDE DEF f, n
  <2> QED BY <1>0, <1>1, Iteration
<1>3. ASSUME NEW k \in 1 .. n
      PROVE  s[k] = IF k \in S THEN s[k - 1] + w[k] ELSE s[k - 1]
  <2>0. k - 1 \in 0 .. n
    BY <1>0
  <2>1. s[k - 1] \in Int
    BY <1>2, <2>0 DEF Iterates
  <2>2. f[k][s[k - 1]] = IF k \in S THEN s[k - 1] + w[k] ELSE s[k - 1]
    BY <2>1
  <2> QED BY <1>2, <2>2 DEF Iterates
<1>4. \A k \in 0 .. n : s[k] = IF k = 0 THEN 0
                               ELSE IF k \in S THEN s[k - 1] + w[k] ELSE s[k - 1]
  BY <1>2, <1>3 DEF Iterates
<1>5. Is(s)
  BY <1>2, <1>4 DEF Iterates
<1>6. Is(Sums(w, S))
  BY <1>5 DEF Sums
<1> DEFINE t == Sums(w, S)
<1>7. t = [k \in 0 .. n |-> IF k = 0 THEN 0
                            ELSE IF k \in S THEN t[k - 1] + w[k] ELSE t[k - 1]]
  BY <1>6
<1> HIDE DEF t
<1> HIDE DEF n
<1>8. /\ t[0] = 0
      /\ \A k \in 1 .. n : t[k] = IF k \in S THEN t[k - 1] + w[k] ELSE t[k - 1]
  BY <1>0, <1>7
<1>9. \A k \in 1 .. n : w[k] \in Int
  BY DEF n
<1> DEFINE T == {k \in 0 .. n : t[k] \in Int}
<1>10. 0 \in T /\ \A k \in 1 .. n : k - 1 \in T => k \in T
  BY <1>0, <1>8, <1>9
<1>11. \A k \in 0 .. n : k \in T
  <2> HIDE DEF T
  <2> QED BY <1>0, <1>10, UpTo, Zenon
<1>12. t \in [0 .. n -> Int]
  BY <1>7, <1>11
<1>13. \A k \in 1 .. n : k - 1 \in 0 .. n /\ t[k - 1] \in Int
  BY <1>0, <1>11
<1> QED BY <1>8, <1>9, <1>12, <1>13 DEF t, n

\* A sum of integers is an integer.
LEMMA SumTyped == ASSUME NEW w \in Seq(Int), NEW S PROVE Sum(w, S) \in Int
<1>1. Len(w) \in 0 .. Len(w)
  OBVIOUS
<1> QED BY <1>1, SumsStep DEF Sum

\* The sum up to k depends on the members up to k only.
LEMMA SumsAgree ==
  ASSUME NEW w \in Seq(Int), NEW S, NEW U, NEW k \in 0 .. Len(w),
         \A j \in 1 .. k : j \in S <=> j \in U
  PROVE  Sums(w, S)[k] = Sums(w, U)[k]
<1> DEFINE n == Len(w)
           s == Sums(w, S)
           u == Sums(w, U)
           T == {j \in 0 .. n : j <= k => s[j] = u[j]}
<1>0. n \in Nat /\ k \in 0 .. n
  OBVIOUS
<1>1. /\ s[0] = 0 /\ u[0] = 0
      /\ \A j \in 1 .. n : /\ s[j] = s[j - 1] + (IF j \in S THEN w[j] ELSE 0)
                           /\ u[j] = u[j - 1] + (IF j \in U THEN w[j] ELSE 0)
  BY SumsStep
<1> HIDE DEF s, u, n
<1>2. 0 \in T
  BY <1>0, <1>1
<1>3. ASSUME NEW j \in 1 .. n, j - 1 \in T PROVE j \in T
  <2>1. SUFFICES ASSUME j <= k PROVE s[j] = u[j]
    BY <1>0
  <2>2. j \in 1 .. k /\ j - 1 <= k
    BY <1>0, <2>1
  <2>3. s[j - 1] = u[j - 1] /\ (j \in S <=> j \in U)
    BY <1>3, <2>2
  <2> QED BY <1>1, <2>3
<1>4. \A j \in 0 .. n : j \in T
  <2> HIDE DEF T
  <2> QED BY <1>0, <1>2, <1>3, UpTo, Zenon
<1>5. k \in T
  BY <1>0, <1>4
<1> QED BY <1>0, <1>5 DEF s, u

\* Members up to k alone make a sum that is complete at k.
LEMMA SumsRest ==
  ASSUME NEW w \in Seq(Int), NEW k \in 0 .. Len(w), NEW S, S \subseteq 1 .. k
  PROVE  Sum(w, S) = Sums(w, S)[k]
<1> DEFINE n == Len(w)
           s == Sums(w, S)
           T == {j \in 0 .. n : k <= j => s[j] = s[k]}
<1>0. n \in Nat /\ k \in 0 .. n
  OBVIOUS
<1>1. /\ s \in [0 .. n -> Int]
      /\ \A j \in 1 .. n : s[j] = s[j - 1] + (IF j \in S THEN w[j] ELSE 0)
  BY SumsStep
<1> HIDE DEF s, n
<1>2. 0 \in T
  <2>1. k <= 0 => k = 0
    BY <1>0
  <2> QED BY <1>0, <2>1
<1>3. ASSUME NEW j \in 1 .. n, j - 1 \in T PROVE j \in T
  <2>1. SUFFICES ASSUME k <= j, j # k PROVE s[j] = s[k]
    BY <1>0
  <2>2. j \notin S /\ k <= j - 1 /\ j - 1 \in 0 .. n
    BY <1>0, <2>1
  <2>3. s[j - 1] = s[k] /\ s[j - 1] \in Int
    BY <1>1, <1>3, <2>2
  <2> QED BY <1>1, <2>2, <2>3
<1>4. \A j \in 0 .. n : j \in T
  <2> HIDE DEF T
  <2> QED BY <1>0, <1>2, <1>3, UpTo, Zenon
<1>5. n \in T /\ k <= n
  BY <1>0, <1>4
<1> QED BY <1>5 DEF s, n, Sum

\* The sum of the empty set.
LEMMA SumEmpty == ASSUME NEW w \in Seq(Int) PROVE Sum(w, {}) = 0
<1>1. 0 \in 0 .. Len(w) /\ {} \subseteq 1 .. 0
  OBVIOUS
<1> QED BY <1>1, SumsRest, SumsStep

\* The sum of a set with one item more at its end.
LEMMA SumInsert ==
  ASSUME NEW w \in Seq(Int), NEW k \in 1 .. Len(w), NEW S, S \subseteq 1 .. k - 1
  PROVE  Sum(w, S \cup {k}) = Sum(w, S) + w[k]
<1> DEFINE U == S \cup {k}
<1>1. k - 1 \in 0 .. Len(w) /\ k \in 0 .. Len(w) /\ U \subseteq 1 .. k /\ k \in U
  OBVIOUS
<1>2. \A j \in 1 .. k - 1 : j \in S <=> j \in U
  OBVIOUS
<1> DEFINE m == k - 1
<1> HIDE DEF U
<1>3. Sum(w, U) = Sums(w, U)[k] /\ Sum(w, S) = Sums(w, S)[k - 1]
  BY <1>1, SumsRest
<1>4. Sums(w, S)[m] = Sums(w, U)[m]
  <2>1. m \in 0 .. Len(w) /\ \A j \in 1 .. m : j \in S <=> j \in U
    BY <1>1, <1>2
  <2> HIDE DEF m
  <2> QED BY <2>1, SumsAgree, ZenonT(60)
<1>5. Sums(w, U)[k] = Sums(w, U)[k - 1] + w[k]
  BY <1>1, SumsStep
<1> QED BY <1>3, <1>4, <1>5 DEF U

-----------------------------------------------------------------------------
(***************************************************************************)
(* Reach                                                                   *)
(***************************************************************************)

Shifted(sums, amount) == {total + amount : total \in sums}

Snapshots(r, w, K) ==
    /\ r[0] = {0}
    /\ \A k \in 0 .. Len(w) : r[k] \subseteq Int
    /\ \A k \in 1 .. Len(w) :
          r[k] = IF k \in K THEN r[k - 1] \cup Shifted(r[k - 1], w[k]) ELSE r[k - 1]

\* The recursion that defines Reach has a solution, and its values are sets of integers.
LEMMA ReachStep == ASSUME NEW w \in Seq(Int), NEW K PROVE Snapshots(Reach(w, K), w, K)
<1> DEFINE n == Len(w)
           V == SUBSET Int
           z == {0}
           f == [k \in 1 .. n |->
                   [v \in V |-> IF k \in K THEN v \cup {total + w[k] : total \in v} ELSE v]]
           Is(r) == r = [k \in 0 .. n |->
                           IF k = 0 THEN {0}
                           ELSE IF k \in K THEN r[k - 1] \cup {total + w[k] : total \in r[k - 1]}
                                ELSE r[k - 1]]
<1>0. n \in Nat /\ z \in V /\ \A k \in 1 .. n : w[k] \in Int /\ k - 1 \in 0 .. n
  OBVIOUS
<1>1. f \in [1 .. n -> [V -> V]]
  <2>1. ASSUME NEW k \in 1 .. n, NEW v \in V
        PROVE  (IF k \in K THEN v \cup {total + w[k] : total \in v} ELSE v) \in V
    <3>1. w[k] \in Int
      BY <1>0
    <3>2. \A total \in v : total + w[k] \in Int
      BY <3>1
    <3> QED BY <3>2
  <2> HIDE DEF V, n
  <2> QED BY <2>1
<1>2. PICK r : Iterates(r, n, V, z, f)
  <2> HIDE DEF f, n, V, z
  <2> QED BY <1>0, <1>1, Iteration
<1>3. \A k \in 0 .. n : r[k] \in V
  BY <1>2 DEF Iterates
<1>4. ASSUME NEW k \in 1 .. n
      PROVE  r[k] = IF k \in K THEN r[k - 1] \cup {total + w[k] : total \in r[k - 1]}
                    ELSE r[k - 1]
  <2>1. r[k - 1] \in V
    BY <1>0, <1>3
  <2>2. f[k][r[k - 1]] = IF k \in K THEN r[k - 1] \cup {total + w[k] : total \in r[k - 1]}
                         ELSE r[k - 1]
    <3> HIDE DEF V, n
    <3> QED BY <2>1
  <2> QED BY <1>2, <2>2 DEF Iterates
<1>5. Is(r)
  <2>1. DOMAIN r = 0 .. n /\ r = [k \in 0 .. n |-> r[k]] /\ r[0] = {0}
    BY <1>2 DEF Iterates
  <2>2. \A k \in 0 .. n : k # 0 => k \in 1 .. n
    BY <1>0
  <2> HIDE DEF n
  <2> QED BY <1>4, <2>1, <2>2
<1>6. Is(Reach(w, K))
  BY <1>5 DEF Reach
<1> DEFINE t == Reach(w, K)
<1>7. t = [k \in 0 .. n |->
             IF k = 0 THEN {0}
             ELSE IF k \in K THEN t[k - 1] \cup {total + w[k] : total \in t[k - 1]}
                  ELSE t[k - 1]]
  BY <1>6
<1> HIDE DEF t, n, f
<1>8. /\ t[0] = {0}
      /\ \A k \in 1 .. n : t[k] = IF k \in K
                                  THEN t[k - 1] \cup {total + w[k] : total \in t[k - 1]}
                                  ELSE t[k - 1]
  <2>1. 0 \in 0 .. n /\ \A k \in 1 .. n : k \in 0 .. n /\ k # 0
    BY <1>0
  <2> QED BY <1>7, <2>1
<1> DEFINE T == {k \in 0 .. n : t[k] \subseteq Int}
<1>9. 0 \in T
  BY <1>0, <1>8
<1>10. ASSUME NEW k \in 1 .. n, k - 1 \in T PROVE k \in T
  <2>1. k \in 0 .. n /\ w[k] \in Int /\ t[k - 1] \subseteq Int
    BY <1>0, <1>10
  <2>2. \A total \in t[k - 1] : total + w[k] \in Int
    BY <2>1
  <2>3. t[k] = IF k \in K THEN t[k - 1] \cup {total + w[k] : total \in t[k - 1]}
               ELSE t[k - 1]
    BY <1>8
  <2>4. t[k] \subseteq Int
    BY <2>1, <2>2, <2>3
  <2> QED BY <2>1, <2>4
<1>11. \A k \in 0 .. n : k \in T
  <2> HIDE DEF T
  <2> QED BY <1>0, <1>9, <1>10, UpTo, Zenon
<1> QED BY <1>8, <1>11 DEF t, n, Shifted, Snapshots

\* The snapshots hold the sums of the sets of items up to an index.
LEMMA ReachIsSums ==
  ASSUME NEW w \in Seq(Int), NEW K \in SUBSET Indices(w), NEW k \in 0 .. Len(w)
  PROVE  Reach(w, K)[k] = {Sum(w, S) : S \in SUBSET {i \in K : i <= k}}
<1> DEFINE n == Len(w)
           Below(j) == {i \in K : i <= j}
           Of(j) == {Sum(w, S) : S \in SUBSET Below(j)}
           T == {j \in 0 .. n : Reach(w, K)[j] = Of(j)}
<1>0. /\ n \in Nat /\ \A j \in 1 .. n : j - 1 \in 0 .. n
      /\ \A i \in K : i \in Int /\ 1 <= i /\ i <= n
  BY DEF Indices
<1>r. /\ Reach(w, K)[0] = {0}
      /\ \A j \in 1 .. n :
            /\ j \in K => Reach(w, K)[j] = Reach(w, K)[j - 1]
                                             \cup Shifted(Reach(w, K)[j - 1], w[j])
            /\ j \notin K => Reach(w, K)[j] = Reach(w, K)[j - 1]
  <2>1. Snapshots(Reach(w, K), w, K)
    BY ReachStep
  <2> QED BY <2>1 DEF Snapshots
<1>1. 0 \in T
  <2>1. Below(0) = {}
    BY <1>0
  <2>2. Of(0) = {0}
    BY <2>1, SumEmpty
  <2>3. 0 \in 0 .. n /\ Reach(w, K)[0] = Of(0)
    <3> HIDE DEF Of
    <3> QED BY <1>0, <1>r, <2>2
  <2> HIDE DEF Of
  <2> QED BY <2>3
<1>2. ASSUME NEW j \in 1 .. n, j - 1 \in T PROVE j \in T
  <2>0. j \in 0 .. n /\ Reach(w, K)[j - 1] = Of(j - 1)
    BY <1>2
  <2>1. CASE j \notin K
    <3>1. Below(j) = Below(j - 1)
      <4>1. \A i \in K : i <= j <=> i <= j - 1
        BY <1>0, <2>1
      <4> QED BY <4>1
    <3>2. Reach(w, K)[j] = Reach(w, K)[j - 1]
      BY <1>r, <2>1
    <3> QED BY <2>0, <3>1, <3>2
  <2>2. CASE j \in K
    <3>1. Below(j) = Below(j - 1) \cup {j} /\ Below(j - 1) \subseteq 1 .. j - 1
      <4>1. \A i \in K : /\ i <= j <=> i <= j - 1 \/ i = j
                         /\ i <= j - 1 => i \in 1 .. j - 1
        BY <1>0
      <4> QED BY <2>2, <4>1
    <3>2. \A S \in SUBSET Below(j - 1) : Sum(w, S \cup {j}) = Sum(w, S) + w[j]
      BY <3>1, SumInsert
    <3>3. Of(j) \subseteq Of(j - 1) \cup Shifted(Of(j - 1), w[j])
      <4>1. SUFFICES ASSUME NEW S \in SUBSET Below(j), j \in S
                     PROVE  Sum(w, S) \in Shifted(Of(j - 1), w[j])
        BY <3>1 DEF Shifted
      <4>2. S \ {j} \in SUBSET Below(j - 1) /\ S = (S \ {j}) \cup {j}
        BY <3>1, <4>1
      <4>3. Sum(w, S) = Sum(w, S \ {j}) + w[j]
        BY <3>2, <4>2
      <4> QED BY <4>2, <4>3 DEF Shifted
    <3>4. Of(j - 1) \cup Shifted(Of(j - 1), w[j]) \subseteq Of(j)
      <4>1. ASSUME NEW S \in SUBSET Below(j - 1)
            PROVE  Sum(w, S) \in Of(j) /\ Sum(w, S) + w[j] \in Of(j)
        <5>1. S \in SUBSET Below(j) /\ S \cup {j} \in SUBSET Below(j)
          BY <3>1
        <5>2. Sum(w, S) + w[j] = Sum(w, S \cup {j})
          BY <3>2
        <5> QED BY <5>1, <5>2
      <4> QED BY <4>1 DEF Shifted
    <3>5. Reach(w, K)[j] = Of(j - 1) \cup Shifted(Of(j - 1), w[j])
      BY <1>r, <2>0, <2>2
    <3> QED BY <2>0, <3>3, <3>4, <3>5
  <2> QED BY <2>1, <2>2
<1>3. \A j \in 0 .. n : j \in T
  <2> HIDE DEF T, n
  <2> QED BY <1>0, <1>1, <1>2, UpTo, Zenon
<1> QED BY <1>3

-----------------------------------------------------------------------------
(***************************************************************************)
(* Pruning                                                                 *)
(***************************************************************************)

\* The bounds of prune_indices bound the sum of every set of K that contains item i.
LEMMA ReachBounds ==
  ASSUME NEW w \in Seq(Int), NEW K \in SUBSET Indices(w), NEW S \in SUBSET K, NEW i \in S
  PROVE  /\ Sum(w, S) <= ReachHigh(w, K, i)
         /\ ReachLow(w, K, i) <= Sum(w, S)
<1> DEFINE n == Len(w)
           Pos == {j \in K : w[j] > 0}
           Neg == {j \in K : w[j] < 0}
           s == Sums(w, S)
           p == Sums(w, Pos)
           m == Sums(w, Neg)
<1>0. n \in Nat /\ i \in 1 .. n /\ \A k \in 1 .. n : w[k] \in Int /\ k - 1 \in 0 .. n
  BY DEF Indices
<1>1. /\ s \in [0 .. n -> Int] /\ p \in [0 .. n -> Int] /\ m \in [0 .. n -> Int]
      /\ s[0] = 0 /\ p[0] = 0 /\ m[0] = 0
      /\ \A k \in 1 .. n : /\ s[k] = s[k - 1] + (IF k \in S THEN w[k] ELSE 0)
                           /\ p[k] = p[k - 1] + (IF k \in Pos THEN w[k] ELSE 0)
                           /\ m[k] = m[k - 1] + (IF k \in Neg THEN w[k] ELSE 0)
  BY SumsStep
<1>2. \A k \in 1 .. n : /\ k \in Pos <=> k \in K /\ w[k] > 0
                        /\ k \in Neg <=> k \in K /\ w[k] < 0
                        /\ k \in S => k \in K
  OBVIOUS
<1> DEFINE T == {k \in 0 .. n :
                   /\ s[k] <= p[k] + (IF i <= k /\ w[i] <= 0 THEN w[i] ELSE 0)
                   /\ m[k] + (IF i <= k /\ w[i] >= 0 THEN w[i] ELSE 0) <= s[k]}
<1> HIDE DEF s, p, m, Pos, Neg, n
<1>3. 0 \in T
  <2>1. ~ (i <= 0) /\ 0 \in 0 .. n
    BY <1>0
  <2> QED BY <1>1, <2>1
<1>4. ASSUME NEW k \in 1 .. n, k - 1 \in T PROVE k \in T
  <2>1. k - 1 \in 0 .. n /\ k \in 0 .. n /\ k \in Int /\ i \in Int /\ w[k] \in Int /\ w[i] \in Int
    BY <1>0
  <2>2. s[k - 1] \in Int /\ p[k - 1] \in Int /\ m[k - 1] \in Int
    BY <1>1, <2>1
  <2>3. /\ s[k] = s[k - 1] + (IF k \in S THEN w[k] ELSE 0)
        /\ p[k] = p[k - 1] + (IF k \in K /\ w[k] > 0 THEN w[k] ELSE 0)
        /\ m[k] = m[k - 1] + (IF k \in K /\ w[k] < 0 THEN w[k] ELSE 0)
    BY <1>1, <1>2
  <2>4. /\ s[k - 1] <= p[k - 1] + (IF i <= k - 1 /\ w[i] <= 0 THEN w[i] ELSE 0)
        /\ m[k - 1] + (IF i <= k - 1 /\ w[i] >= 0 THEN w[i] ELSE 0) <= s[k - 1]
    BY <1>4
  <2>5. (k = i => k \in S) /\ (k \in S => k \in K)
    OBVIOUS
  <2>6. /\ s[k] <= p[k] + (IF i <= k /\ w[i] <= 0 THEN w[i] ELSE 0)
        /\ m[k] + (IF i <= k /\ w[i] >= 0 THEN w[i] ELSE 0) <= s[k]
    <3> DEFINE a == s[k - 1]
               b == p[k - 1]
               c == m[k - 1]
    <3>0. a \in Int /\ b \in Int /\ c \in Int
      BY <2>2
    <3> HIDE DEF T, a, b, c
    <3> DEFINE x == IF w[i] <= 0 THEN w[i] ELSE 0
               y == IF w[i] >= 0 THEN w[i] ELSE 0
    <3>a. x \in Int /\ y \in Int
      BY <2>1
    <3>b. s[k] \in Int /\ p[k] \in Int /\ m[k] \in Int
      BY <1>1, <2>1
    <3>c. /\ s[k] = a + (IF k \in S THEN w[k] ELSE 0)
          /\ p[k] = b + (IF k \in K /\ w[k] > 0 THEN w[k] ELSE 0)
          /\ m[k] = c + (IF k \in K /\ w[k] < 0 THEN w[k] ELSE 0)
      BY <2>3 DEF a, b, c
    <3>1. s[k] - a <= p[k] - b /\ m[k] - c <= s[k] - a
      <4>1. CASE k \in S
        BY <2>1, <2>5, <3>0, <3>c, <4>1, SMTT(20)
      <4>2. CASE k \notin S
        BY <2>1, <3>0, <3>c, <4>2
      <4> QED BY <4>1, <4>2
    <3>2. CASE i = k
      <4>1. s[k] = a + w[k] /\ k \in K
        BY <2>3, <2>5, <3>2 DEF a
      <4>2. a <= b /\ c <= a
        BY <2>1, <2>4, <3>0, <3>2 DEF a, b, c
      <4>3. /\ p[k] = b + (IF w[k] > 0 THEN w[k] ELSE 0)
            /\ m[k] = c + (IF w[k] < 0 THEN w[k] ELSE 0)
            /\ w[k] \in Int
        BY <2>1, <3>c, <4>1
      <4>4. s[k] <= p[k] + (IF w[k] <= 0 THEN w[k] ELSE 0)
        BY <3>0, <4>1, <4>2, <4>3
      <4>5. m[k] + (IF w[k] >= 0 THEN w[k] ELSE 0) <= s[k]
        BY <3>0, <4>1, <4>2, <4>3
      <4> QED BY <2>1, <3>2, <4>4, <4>5
    <3>3. CASE i < k
      <4>1. i <= k - 1 /\ i <= k
        BY <2>1, <3>3
      <4>2. a <= b + x /\ c + y <= a
        BY <2>4, <4>1 DEF a, b, c
      <4>3. s[k] <= p[k] + x /\ m[k] + y <= s[k]
        <5> DEFINE s1 == s[k]
                   p1 == p[k]
                   m1 == m[k]
        <5>1. /\ s1 \in Int /\ p1 \in Int /\ m1 \in Int
              /\ s1 - a <= p1 - b /\ m1 - c <= s1 - a
          BY <3>b, <3>1
        <5> HIDE DEF x, y, s1, p1, m1
        <5>2. s1 <= p1 + x
          BY <3>0, <3>a, <4>2, <5>1
        <5>3. m1 + y <= s1
          BY <3>0, <3>a, <4>2, <5>1
        <5> QED BY <5>2, <5>3 DEF s1, p1, m1
      <4> QED BY <4>1, <4>3
    <3>4. CASE i > k
      <4>1. ~ (i <= k - 1) /\ ~ (i <= k)
        BY <2>1, <3>4
      <4>2. a <= b /\ c <= a
        BY <2>4, <3>0, <4>1 DEF a, b, c
      <4>3. s[k] <= p[k] /\ m[k] <= s[k]
        BY <3>0, <3>b, <3>1, <4>2, SMTT(20)
      <4> QED BY <3>b, <4>1, <4>3
    <3> QED BY <2>1, <3>2, <3>3, <3>4
  <2> QED BY <2>1, <2>6
<1>5. n \in T
  <2> HIDE DEF T
  <2>1. \A k \in 0 .. n : k \in T
    BY <1>0, <1>3, <1>4, UpTo, Zenon
  <2> QED BY <1>0, <2>1
<1>6. s[n] \in Int /\ p[n] \in Int /\ m[n] \in Int /\ i <= n
  BY <1>0, <1>1
<1>7. /\ s[n] <= w[i] + (IF w[i] > 0 THEN p[n] - w[i] ELSE p[n])
      /\ w[i] + (IF w[i] < 0 THEN m[n] - w[i] ELSE m[n]) <= s[n]
  BY <1>0, <1>5, <1>6
<1> QED BY <1>7 DEF s, p, m, Pos, Neg, n, Sum, ReachHigh, ReachLow, Positive, Negative

\* A question has a pool whose rupees are integers.
LEMMA RupeesTyped ==
  ASSUME NEW q \in Question
  PROVE  /\ Rupees(q) \in Seq(Int)
         /\ Len(Rupees(q)) = Len(q.items)
         /\ Indices(Rupees(q)) = 1 .. Len(q.items)
         /\ Len(q.items) \in Nat
         /\ ToRupees(q.target) \in Int
         /\ q.cfg.epsilon \in Nat
<1>1. q.items \in Seq(Item) /\ q.target \in Int /\ q.cfg \in Config
  BY DEF Question
<1>2. Len(q.items) \in Nat /\ \A i \in 1 .. Len(q.items) : q.items[i] \in Item
  BY <1>1
<1>3. \A p \in Int : ToRupees(p) \in Int
  BY DEF ToRupees, PaisePerRupee
<1>4. \A i \in 1 .. Len(q.items) : ToRupees(q.items[i].paise) \in Int
  BY <1>2, <1>3 DEF Item
<1>5. Rupees(q) \in [1 .. Len(q.items) -> Int]
  BY <1>4 DEF Rupees
<1>6. Rupees(q) \in Seq(Int)
  BY <1>2, <1>5
<1>7. Len(Rupees(q)) = Len(q.items)
  BY <1>2, <1>6 DEF Rupees
<1> QED BY <1>1, <1>2, <1>3, <1>6, <1>7 DEF Indices, Config

\* A pass of pruning keeps every solution that the items before it had.
LEMMA SweepKeeps ==
  ASSUME NEW q \in Question, NEW B \in SUBSET (1 .. Len(q.items)), NEW K \in SUBSET B,
         NEW S \in Solutions(q, B), S \subseteq K
  PROVE  S \subseteq Sweep(q, K)
<1> DEFINE w == Rupees(q)
           lo == ToRupees(q.target) - q.cfg.epsilon
           hi == ToRupees(q.target) + q.cfg.epsilon
<1>1. w \in Seq(Int) /\ K \in SUBSET Indices(w) /\ lo \in Int /\ hi \in Int
  BY RupeesTyped
<1>2. Sum(w, S) >= lo /\ Sum(w, S) <= hi
  BY DEF Solutions, InWindow
<1>3. ASSUME NEW i \in S PROVE i \in Sweep(q, K)
  <2>1. Sum(w, S) <= ReachHigh(w, K, i) /\ ReachLow(w, K, i) <= Sum(w, S)
    BY <1>1, ReachBounds
  <2>2. Sum(w, S) \in Int /\ ReachHigh(w, K, i) \in Int /\ ReachLow(w, K, i) \in Int
    <3>1. w[i] \in Int
      BY <1>1 DEF Indices
    <3> HIDE DEF w
    <3> QED BY <1>1, <3>1, SumTyped DEF ReachHigh, ReachLow, Positive, Negative
  <2>3. ReachHigh(w, K, i) >= lo /\ ReachLow(w, K, i) <= hi
    BY <1>1, <1>2, <2>1, <2>2
  <2> QED BY <2>3 DEF Sweep
<1> QED BY <1>3

-----------------------------------------------------------------------------
(***************************************************************************)
(* The walk                                                                *)
(***************************************************************************)

\* LastOf is the greatest index of K up to k, or 0.
LEMMA LastOfGreatest ==
  ASSUME NEW n \in Nat, NEW K \in SUBSET (1 .. n), NEW k \in 0 .. n
  PROVE  /\ LastOf(K, k) \in 0 .. k
         /\ LastOf(K, k) \in K \cup {0}
         /\ {i \in K : i <= LastOf(K, k)} = {i \in K : i <= k}
<1> DEFINE Is(i, m) == i \in 0 .. m /\ i \in K \cup {0} /\ \A j \in K : j <= m => j <= i
           T == {m \in 0 .. n : \E i : Is(i, m)}
<1>0. \A j \in K : j \in Int /\ 1 <= j
  OBVIOUS
<1>1. 0 \in T
  <2>1. Is(0, 0)
    BY <1>0
  <2>2. \E i : Is(i, 0)
    BY <2>1
  <2> HIDE DEF Is
  <2> QED BY <2>2
<1>2. ASSUME NEW m \in 1 .. n, m - 1 \in T PROVE m \in T
  <2>1. PICK i : Is(i, m - 1)
    BY <1>2
  <2>2. CASE m \in K
    <3>1. Is(m, m)
      BY <1>0, <2>2
    <3>2. \E h : Is(h, m)
      BY <3>1
    <3> HIDE DEF Is
    <3> QED BY <3>2
  <2>3. CASE m \notin K
    <3>1. \A j \in K : j <= m => j <= m - 1
      BY <1>0, <2>3
    <3>2. Is(i, m)
      BY <2>1, <3>1
    <3>3. \E h : Is(h, m)
      BY <3>2
    <3> HIDE DEF Is
    <3> QED BY <3>3
  <2> QED BY <2>2, <2>3
<1>3. k \in T
  <2> HIDE DEF T
  <2>1. \A m \in 0 .. n : m \in T
    BY <1>1, <1>2, UpTo, Zenon
  <2> QED BY <2>1
<1>4. \E i \in 0 .. k : i \in K \cup {0} /\ \A j \in K : j <= k => j <= i
  BY <1>3
<1> DEFINE l == LastOf(K, k)
<1>5. l \in 0 .. k /\ l \in K \cup {0} /\ \A j \in K : j <= k => j <= l
  BY <1>4 DEF LastOf
<1> HIDE DEF l
<1>6. \A j \in K : j <= l <=> j <= k
  BY <1>0, <1>5
<1> QED BY <1>5, <1>6 DEF l

\* What a call of backtrack may be: taken items lie above the undecided ones.
Calls(q, K) ==
    {f \in [top : K \cup {0}, rest : Int, chosen : SUBSET K] :
        \A i \in f.chosen : f.top < i}

\* At a leaf nothing is undecided.
LEMMA LeafCompletions ==
  ASSUME NEW q \in Question, NEW K \in SUBSET (1 .. Len(q.items)), NEW f \in Calls(q, K),
         f.top = 0
  PROVE  Completions(q, K, f) = IF f.rest = 0 THEN {f.chosen} ELSE {}
<1>1. {i \in K : i <= f.top} = {}
  <2>1. \A i \in K : ~ (i <= 0)
    BY RupeesTyped
  <2> HIDE DEF Calls
  <2> QED BY <2>1
<1>2. Sum(Rupees(q), {}) = 0
  BY RupeesTyped, SumEmpty
<1> DEFINE empty == {T \in SUBSET {i \in K : i <= f.top} : Sum(Rupees(q), T) = f.rest}
<1>3. f.rest = 0 => empty = {{}}
  BY <1>1, <1>2
<1>4. f.rest # 0 => empty = {}
  BY <1>1, <1>2
<1>5. Completions(q, K, f) = {f.chosen \cup S : S \in empty}
  BY DEF Completions
<1> HIDE DEF empty
<1>6. CASE f.rest = 0
  <2>1. \A S \in empty : f.chosen \cup S = f.chosen
    BY <1>3, <1>6
  <2> QED BY <1>3, <1>5, <1>6, <2>1
<1>7. CASE f.rest # 0
  BY <1>4, <1>5, <1>7
<1> QED BY <1>6, <1>7

\* The two calls below a node, whether or not the index lets them be made.
Below(K, f) == LastOf(K, f.top - 1)
Take(q, K, f) == Frame(Below(K, f), f.rest - Rupees(q)[f.top], f.chosen \cup {f.top})
Skip(K, f) == Frame(Below(K, f), f.rest, f.chosen)

\* They divide the completions of the node between them.
LEMMA NodeCompletions ==
  ASSUME NEW q \in Question, NEW K \in SUBSET (1 .. Len(q.items)), NEW f \in Calls(q, K),
         f.top # 0
  PROVE  /\ Take(q, K, f) \in Calls(q, K) /\ Skip(K, f) \in Calls(q, K)
         /\ Completions(q, K, f) = Completions(q, K, Take(q, K, f))
                                   \cup Completions(q, K, Skip(K, f))
         /\ Completions(q, K, Take(q, K, f)) \cap Completions(q, K, Skip(K, f)) = {}
         /\ Completions(q, K, Take(q, K, f)) # {} <=>
               f.rest - Rupees(q)[f.top] \in Reach(Rupees(q), K)[f.top - 1]
         /\ Completions(q, K, Skip(K, f)) # {} <=>
               f.rest \in Reach(Rupees(q), K)[f.top - 1]
<1> DEFINE w == Rupees(q)
           n == Len(q.items)
           t == f.top
           r == f.rest
           c == f.chosen
           b == Below(K, f)
           P == {i \in K : i <= t - 1}
<1>0. /\ w \in Seq(Int) /\ Len(w) = n /\ n \in Nat /\ K \in SUBSET Indices(w)
      /\ t \in K /\ t \in 1 .. n /\ t - 1 \in 0 .. n /\ w[t] \in Int /\ r \in Int
      /\ c \in SUBSET K /\ (\A i \in c : t < i) /\ (\A i \in K : i \in Int)
  BY RupeesTyped DEF Calls
<1>1. b \in 0 .. t - 1 /\ b \in K \cup {0} /\ {i \in K : i <= b} = P
  BY <1>0, LastOfGreatest DEF Below
<1>2. {i \in K : i <= t} = P \cup {t} /\ P \subseteq 1 .. t - 1 /\ t \notin P
  <2>1. \A i \in K : (i <= t <=> i <= t - 1 \/ i = t) /\ (i <= t - 1 => i \in 1 .. t - 1)
    BY <1>0
  <2>2. ~ (t <= t - 1)
    BY <1>0
  <2>3. t \in K
    BY <1>0
  <2> HIDE DEF t
  <2> QED BY <2>1, <2>2, <2>3
<1>3. \A S \in SUBSET P : Sum(w, S \cup {t}) = Sum(w, S) + w[t] /\ Sum(w, S) \in Int
  <2>1. TAKE S \in SUBSET P
  <2>2. S \subseteq 1 .. t - 1 /\ t \in 1 .. Len(w)
    BY <1>0, <1>2
  <2> HIDE DEF w, t
  <2> QED BY <1>0, <2>2, SumInsert, SumTyped
<1>4. Completions(q, K, f) = {c \cup S : S \in {T \in SUBSET (P \cup {t}) : Sum(w, T) = r}}
  BY <1>2 DEF Completions
<1>5. Completions(q, K, Take(q, K, f)) =
         {(c \cup {t}) \cup S : S \in {T \in SUBSET P : Sum(w, T) = r - w[t]}}
  BY <1>1 DEF Completions, Take, Frame
<1>6. Completions(q, K, Skip(K, f)) =
         {c \cup S : S \in {T \in SUBSET P : Sum(w, T) = r}}
  BY <1>1 DEF Completions, Skip, Frame
<1>7. Take(q, K, f) \in Calls(q, K) /\ Skip(K, f) \in Calls(q, K)
  <2>0. b < t
    BY <1>0, <1>1
  <2>1. r - w[t] \in Int /\ c \cup {t} \in SUBSET K /\ \A i \in c \cup {t} : b < i
    <3> HIDE DEF w, t, r, c, b
    <3> QED BY <1>0, <1>1, <2>0
  <2> HIDE DEF w, t, r, c, b
  <2>2. /\ [top |-> b, rest |-> r - w[t], chosen |-> c \cup {t}] \in Calls(q, K)
        /\ [top |-> b, rest |-> r, chosen |-> c] \in Calls(q, K)
    BY <1>0, <1>1, <2>1 DEF Calls
  <2> QED BY <2>2 DEF Take, Skip, Frame, w, t, r, c, b
<1>8. Reach(w, K)[t - 1] = {Sum(w, S) : S \in SUBSET P}
  <2> DEFINE m == t - 1
  <2>1. m \in 0 .. Len(w)
    BY <1>0
  <2>2. Reach(w, K)[m] = {Sum(w, S) : S \in SUBSET {i \in K : i <= m}}
    <3> HIDE DEF m, w
    <3> QED BY <1>0, <2>1, ReachIsSums, ZenonT(60)
  <2> QED BY <2>2
<1>9. t \notin c
  BY <1>0
<1> HIDE DEF w, n, t, r, c, b, P
<1>10. ASSUME NEW X \in Completions(q, K, f)
       PROVE  X \in Completions(q, K, Take(q, K, f)) \cup Completions(q, K, Skip(K, f))
  <2>1. PICK S \in SUBSET (P \cup {t}) : Sum(w, S) = r /\ X = c \cup S
    BY <1>4, <1>10
  <2>2. CASE t \in S
    <3>1. S \ {t} \in SUBSET P /\ S = (S \ {t}) \cup {t} /\ X = (c \cup {t}) \cup (S \ {t})
      BY <2>1, <2>2
    <3>2. Sum(w, S \ {t}) = r - w[t]
      BY <1>0, <1>3, <2>1, <3>1
    <3> QED BY <1>5, <3>1, <3>2
  <2>3. CASE t \notin S
    BY <1>6, <2>1, <2>3
  <2> QED BY <2>2, <2>3
<1>11. ASSUME NEW X \in Completions(q, K, Take(q, K, f))
       PROVE  X \in Completions(q, K, f) /\ t \in X
  <2>1. PICK S \in SUBSET P : Sum(w, S) = r - w[t] /\ X = (c \cup {t}) \cup S
    BY <1>5, <1>11
  <2>2. Sum(w, S \cup {t}) = r
    BY <1>0, <1>3, <2>1
  <2>3. S \cup {t} \in SUBSET (P \cup {t}) /\ X = c \cup (S \cup {t})
    BY <2>1
  <2> QED BY <1>4, <2>2, <2>3
<1>12. ASSUME NEW X \in Completions(q, K, Skip(K, f))
       PROVE  X \in Completions(q, K, f) /\ t \notin X
  BY <1>2, <1>4, <1>6, <1>9, <1>12
<1> DEFINE With(x) == {T \in SUBSET P : Sum(w, T) = x}
<1>13. \A x : With(x) # {} <=> x \in Reach(w, K)[t - 1]
  BY <1>8
<1>14. /\ Completions(q, K, Take(q, K, f)) = {(c \cup {t}) \cup S : S \in With(r - w[t])}
       /\ Completions(q, K, Skip(K, f)) = {c \cup S : S \in With(r)}
  BY <1>5, <1>6
<1> HIDE DEF With
<1>15. /\ Completions(q, K, Take(q, K, f)) # {} <=> r - w[t] \in Reach(w, K)[t - 1]
       /\ Completions(q, K, Skip(K, f)) # {} <=> r \in Reach(w, K)[t - 1]
  <2>1. Completions(q, K, Take(q, K, f)) # {} <=> With(r - w[t]) # {}
    <3>1. \A S \in With(r - w[t]) : (c \cup {t}) \cup S \in Completions(q, K, Take(q, K, f))
      BY <1>14
    <3>2. \A X \in Completions(q, K, Take(q, K, f)) :
             \E S \in With(r - w[t]) : X = (c \cup {t}) \cup S
      BY <1>14
    <3> QED BY <3>1, <3>2
  <2>2. Completions(q, K, Skip(K, f)) # {} <=> With(r) # {}
    <3>1. \A S \in With(r) : c \cup S \in Completions(q, K, Skip(K, f))
      BY <1>14
    <3>2. \A X \in Completions(q, K, Skip(K, f)) : \E S \in With(r) : X = c \cup S
      BY <1>14
    <3> QED BY <3>1, <3>2
  <2> QED BY <1>13, <2>1, <2>2
<1> QED BY <1>7, <1>10, <1>11, <1>12, <1>15 DEF w, t, r

\* What the calls of a stack would list, and that no set is listed by two of them.
Cover(q, K, st) == UNION {Completions(q, K, st[i]) : i \in 1 .. Len(st)}
Apart(q, K, st) == \A i, j \in 1 .. Len(st) :
                      i # j => Completions(q, K, st[i]) \cap Completions(q, K, st[j]) = {}

\* What two stacks lead to, they lead to together; they are apart where each is and
\* no two of their calls share a set.
LEMMA CoverConcat ==
  ASSUME NEW q, NEW K, NEW X, NEW a \in Seq(X), NEW b \in Seq(X)
  PROVE  /\ a \o b \in Seq(X)
         /\ Cover(q, K, a \o b) = Cover(q, K, a) \cup Cover(q, K, b)
         /\ /\ Apart(q, K, a) /\ Apart(q, K, b)
            /\ Cover(q, K, a) \cap Cover(q, K, b) = {}
            => Apart(q, K, a \o b)
<1> DEFINE c == a \o b
           m == Len(a)
           n == Len(b)
<1>1. /\ m \in Nat /\ n \in Nat /\ c \in Seq(X) /\ Len(c) = m + n
      /\ \A i \in 1 .. m : c[i] = a[i]
      /\ \A i \in 1 .. n : c[m + i] = b[i]
  OBVIOUS
<1>2. ASSUME NEW i \in 1 .. Len(c)
      PROVE  \/ i \in 1 .. m /\ c[i] = a[i]
             \/ i - m \in 1 .. n /\ c[i] = b[i - m]
  <2> HIDE DEF c, m, n
  <2>1. CASE i <= m
    BY <1>1, <2>1
  <2>2. CASE ~ (i <= m)
    <3>1. i - m \in 1 .. n /\ m + (i - m) = i
      BY <1>1, <2>2
    <3> QED BY <1>1, <3>1
  <2> QED BY <2>1, <2>2
<1> HIDE DEF c, m, n
<1>3. Cover(q, K, c) \subseteq Cover(q, K, a) \cup Cover(q, K, b)
  BY <1>2 DEF Cover, m, n
<1>4. Cover(q, K, a) \subseteq Cover(q, K, c)
  <2>1. \A i \in 1 .. m : i \in 1 .. Len(c)
    BY <1>1
  <2> QED BY <1>1, <2>1 DEF Cover, m
<1>5. Cover(q, K, b) \subseteq Cover(q, K, c)
  <2>1. \A i \in 1 .. n : m + i \in 1 .. Len(c)
    BY <1>1
  <2> QED BY <1>1, <2>1 DEF Cover, n
<1>6. ASSUME Apart(q, K, a), Apart(q, K, b), Cover(q, K, a) \cap Cover(q, K, b) = {}
      PROVE  Apart(q, K, c)
  <2>1. SUFFICES ASSUME NEW i \in 1 .. Len(c), NEW j \in 1 .. Len(c), i # j
                 PROVE  Completions(q, K, c[i]) \cap Completions(q, K, c[j]) = {}
    BY DEF Apart
  <2>2. \A k \in 1 .. m : Completions(q, K, a[k]) \subseteq Cover(q, K, a)
    BY DEF Cover, m
  <2>3. \A k \in 1 .. n : Completions(q, K, b[k]) \subseteq Cover(q, K, b)
    BY DEF Cover, n
  <2>4. CASE i \in 1 .. m /\ c[i] = a[i] /\ j \in 1 .. m /\ c[j] = a[j]
    BY <1>6, <2>1, <2>4 DEF Apart, m
  <2>5. CASE /\ i - m \in 1 .. n /\ c[i] = b[i - m]
             /\ j - m \in 1 .. n /\ c[j] = b[j - m]
    <3>1. i - m # j - m
      BY <1>1, <2>1
    <3> QED BY <1>6, <2>5, <3>1 DEF Apart, n
  <2>6. CASE i \in 1 .. m /\ c[i] = a[i] /\ j - m \in 1 .. n /\ c[j] = b[j - m]
    BY <1>6, <2>2, <2>3, <2>6
  <2>7. CASE i - m \in 1 .. n /\ c[i] = b[i - m] /\ j \in 1 .. m /\ c[j] = a[j]
    BY <1>6, <2>2, <2>3, <2>7
  <2> QED BY <1>2, <2>4, <2>5, <2>6, <2>7
<1> QED BY <1>1, <1>3, <1>4, <1>5, <1>6 DEF c

\* A stack leads to what its head leads to and what its tail leads to.
LEMMA CoverTail ==
  ASSUME NEW q, NEW K, NEW X, NEW st \in Seq(X), st # << >>
  PROVE  /\ Head(st) \in X /\ Tail(st) \in Seq(X)
         /\ Cover(q, K, st) = Completions(q, K, Head(st)) \cup Cover(q, K, Tail(st))
         /\ Apart(q, K, st) =>
               /\ Apart(q, K, Tail(st))
               /\ Completions(q, K, Head(st)) \cap Cover(q, K, Tail(st)) = {}
<1> DEFINE n == Len(st)
           h == Head(st)
           t == Tail(st)
<1>1. /\ n \in Nat /\ 1 \in 1 .. n /\ h \in X /\ h = st[1] /\ t \in Seq(X) /\ Len(t) = n - 1
      /\ \A i \in 1 .. n - 1 : t[i] = st[i + 1]
  OBVIOUS
<1> HIDE DEF h, t, n
<1>2. \A i \in 1 .. n : \/ i = 1
                        \/ i - 1 \in 1 .. Len(t) /\ st[i] = t[i - 1]
  <2>1. TAKE i \in 1 .. n
  <2>2. CASE i # 1
    <3>1. i - 1 \in 1 .. n - 1 /\ (i - 1) + 1 = i
      BY <1>1, <2>2
    <3> QED BY <1>1, <3>1
  <2> QED BY <2>2
<1>3. \A i \in 1 .. Len(t) : i + 1 \in 1 .. n /\ i + 1 # 1 /\ t[i] = st[i + 1]
  BY <1>1
<1>4. Cover(q, K, st) = Completions(q, K, h) \cup Cover(q, K, t)
  <2>1. \A x \in Cover(q, K, st) : x \in Completions(q, K, h) \cup Cover(q, K, t)
    BY <1>1, <1>2 DEF Cover, n
  <2>2. Completions(q, K, h) \subseteq Cover(q, K, st)
    BY <1>1 DEF Cover, n
  <2>3. Cover(q, K, t) \subseteq Cover(q, K, st)
    BY <1>3 DEF Cover, n
  <2> QED BY <2>1, <2>2, <2>3
<1>5. ASSUME Apart(q, K, st)
      PROVE  Apart(q, K, t) /\ Completions(q, K, h) \cap Cover(q, K, t) = {}
  <2>1. ASSUME NEW i \in 1 .. Len(t), NEW j \in 1 .. Len(t), i # j
        PROVE  Completions(q, K, t[i]) \cap Completions(q, K, t[j]) = {}
    <3>1. i + 1 # j + 1
      BY <2>1
    <3> QED BY <1>3, <1>5, <3>1 DEF Apart, n
  <2>2. \A i \in 1 .. Len(t) : Completions(q, K, h) \cap Completions(q, K, t[i]) = {}
    BY <1>1, <1>3, <1>5 DEF Apart, n
  <2>3. Apart(q, K, t)
    BY <2>1 DEF Apart
  <2>4. \A x \in Cover(q, K, t) : \E i \in 1 .. Len(t) : x \in Completions(q, K, t[i])
    BY DEF Cover
  <2> QED BY <2>2, <2>3, <2>4
<1> QED BY <1>1, <1>4, <1>5 DEF h, t

\* The empty stack and the stack of one call.
LEMMA CoverSmall ==
  ASSUME NEW q, NEW K
  PROVE  /\ Cover(q, K, << >>) = {} /\ Apart(q, K, << >>)
         /\ \A f : Cover(q, K, << f >>) = Completions(q, K, f) /\ Apart(q, K, << f >>)
<1>1. Len(<< >>) = 0 /\ \A f : Len(<< f >>) = 1 /\ << f >>[1] = f
  OBVIOUS
<1>2. 1 .. 0 = {} /\ 1 .. 1 = {1}
  OBVIOUS
<1>3. Cover(q, K, << >>) = {} /\ Apart(q, K, << >>)
  BY <1>1, <1>2 DEF Cover, Apart
<1>4. ASSUME NEW f
      PROVE  Cover(q, K, << f >>) = Completions(q, K, f) /\ Apart(q, K, << f >>)
  BY <1>1, <1>2 DEF Cover, Apart
<1> QED BY <1>3, <1>4

\* The calls a node makes list what the node lists, each set once.
LEMMA ChildrenCover ==
  ASSUME NEW q \in Question, NEW K \in SUBSET (1 .. Len(q.items)), NEW f \in Calls(q, K),
         f.top # 0
  PROVE  /\ Children(q, K, f) \in Seq(Calls(q, K))
         /\ Cover(q, K, Children(q, K, f)) = Completions(q, K, f)
         /\ Apart(q, K, Children(q, K, f))
<1> DEFINE a == Take(q, K, f)
           b == Skip(K, f)
           reached(rest) == rest \in Reach(Rupees(q), K)[f.top - 1]
           take == IF reached(f.rest - Rupees(q)[f.top]) THEN << a >> ELSE << >>
           skip == IF reached(f.rest) THEN << b >> ELSE << >>
<1>1. Children(q, K, f) = take \o skip
  BY DEF Children, Take, Skip, Below
<1>2. /\ a \in Calls(q, K) /\ b \in Calls(q, K)
      /\ Completions(q, K, f) = Completions(q, K, a) \cup Completions(q, K, b)
      /\ Completions(q, K, a) \cap Completions(q, K, b) = {}
      /\ Completions(q, K, a) # {} <=> reached(f.rest - Rupees(q)[f.top])
      /\ Completions(q, K, b) # {} <=> reached(f.rest)
  BY NodeCompletions
<1> HIDE DEF a, b, reached
<1>c. /\ Cover(q, K, << >>) = {} /\ Apart(q, K, << >>) /\ << >> \in Seq(Calls(q, K))
      /\ Cover(q, K, << a >>) = Completions(q, K, a) /\ Apart(q, K, << a >>)
      /\ Cover(q, K, << b >>) = Completions(q, K, b) /\ Apart(q, K, << b >>)
      /\ << a >> \in Seq(Calls(q, K)) /\ << b >> \in Seq(Calls(q, K))
  <2>1. << >> \in Seq(Calls(q, K)) /\ << a >> \in Seq(Calls(q, K)) /\ << b >> \in Seq(Calls(q, K))
    BY <1>2
  <2> QED BY <2>1, CoverSmall
<1>3. /\ take \in Seq(Calls(q, K)) /\ Apart(q, K, take)
      /\ Cover(q, K, take) = Completions(q, K, a)
  <2>1. CASE reached(f.rest - Rupees(q)[f.top])
    BY <1>2, <1>c, <2>1
  <2>2. CASE ~ reached(f.rest - Rupees(q)[f.top])
    BY <1>2, <1>c, <2>2
  <2> QED BY <2>1, <2>2
<1>4. /\ skip \in Seq(Calls(q, K)) /\ Apart(q, K, skip)
      /\ Cover(q, K, skip) = Completions(q, K, b)
  <2>1. CASE reached(f.rest)
    BY <1>2, <1>c, <2>1
  <2>2. CASE ~ reached(f.rest)
    BY <1>2, <1>c, <2>2
  <2> QED BY <2>1, <2>2
<1> HIDE DEF take, skip
<1> QED BY <1>1, <1>2, <1>3, <1>4, CoverConcat

-----------------------------------------------------------------------------
(***************************************************************************)
(* The shape of the state: types, and what each phase of the call leaves.  *)
(***************************************************************************)

Fresh == totals = {} /\ stack = << >> /\ found = 0 /\ solutions = {}

Shape ==
    /\ TypeOK
    /\ stack \in Seq(Calls(ask, keep))
    /\ pc \in {"pruning", "solving"} => Fresh
    /\ attempt = 0 => base = 1 .. Len(ask.items)

\* What is known of the arguments of the call.
LEMMA AskTyped ==
  ASSUME TypeOK
  PROVE  /\ ask \in Question
         /\ Len(ask.items) \in Nat
         /\ base \in SUBSET (1 .. Len(ask.items)) /\ keep \in SUBSET (1 .. Len(ask.items))
         /\ keep \in SUBSET base
         /\ ask.cfg.enumerateCap \in Nat /\ ask.cfg.enumerateCap >= 2
         /\ Rupees(ask) \in Seq(Int) /\ Len(Rupees(ask)) = Len(ask.items)
<1>1. ask \in Question
  BY SearchConstants DEF TypeOK
<1>2. ask.cfg \in Config
  BY <1>1 DEF Question
<1>3. ask.cfg.enumerateCap \in Nat \ {0, 1}
  BY <1>2 DEF Config
<1>4. base \subseteq 1 .. Len(ask.items) /\ keep \subseteq base
  BY DEF TypeOK
<1>5. /\ Rupees(ask) \in Seq(Int) /\ Len(Rupees(ask)) = Len(ask.items)
      /\ Len(ask.items) \in Nat
  BY <1>1, RupeesTyped
<1>6. ask.cfg.enumerateCap \in Nat /\ ask.cfg.enumerateCap >= 2
  BY <1>3
<1> QED BY <1>1, <1>4, <1>5, <1>6

\* The two ends of Return.
LEMMA ReturnCases ==
  ASSUME NEW u, Return(u)
  PROVE  \/ /\ attempt = 0 \/ u = "AMBIGUOUS"
            /\ answer' = [uniqueness |-> u, scope |-> Scope, members |-> {}]
            /\ pc' = "done"
         \/ /\ attempt # 0 /\ u # "AMBIGUOUS"
            /\ answer' = answer
            /\ pc' = "splitting"
BY DEF Return

\* Return keeps the types of answer and pc.
LEMMA ReturnTyped ==
  ASSUME TypeOK, NEW u \in {"NONE_FOUND", "AMBIGUOUS", "BUDGET_EXCEEDED"}, Return(u), ask' = ask
  PROVE  answer' \in Answers' /\ pc' \in {"done", "splitting"}
<1>1. answer \in Answers /\ Answers' = Answers
  BY DEF TypeOK, Answers
<1>2. [uniqueness |-> u, scope |-> Scope, members |-> {}] \in Answers
  BY DEF Answers, Scope
<1> QED BY <1>1, <1>2, ReturnCases

\* The calls of backtrack on what pruning left are frames.
LEMMA CallsAreFrames == Calls(ask, keep) \subseteq Frames \/ ~ TypeOK
<1>1. SUFFICES ASSUME TypeOK PROVE Calls(ask, keep) \subseteq Frames
  OBVIOUS
<1>2. keep \subseteq 1 .. Len(ask.items) /\ Len(ask.items) \in Nat
  BY <1>1, AskTyped
<1>3. keep \cup {0} \subseteq 0 .. Len(ask.items)
  BY <1>2
<1> QED BY <1>2, <1>3 DEF Calls, Frames

\* The call starts in shape.
LEMMA ShapeInit == Init => Shape
<1>1. SUFFICES ASSUME Init PROVE Shape
  OBVIOUS
<1>2. Pending \in Answers
  BY DEF Pending, Answers
<1>3. << >> \in Seq(Frames) /\ << >> \in Seq(Calls(ask, keep))
  OBVIOUS
<1> QED BY <1>1, <1>2, <1>3 DEF Init, Shape, TypeOK, Fresh

\* Every step keeps the shape: one step of the proof per action.
LEMMA ShapeStep == Shape /\ [Next]_vars => Shape'
<1> SUFFICES ASSUME Shape, [Next]_vars PROVE Shape'
  OBVIOUS
<1> USE DEF Shape
<1>a. /\ ask \in Question /\ Len(ask.items) \in Nat /\ keep \subseteq base
      /\ base \subseteq 1 .. Len(ask.items) /\ keep \subseteq 1 .. Len(ask.items)
  BY AskTyped
<1>1. CASE PrunePass
  <2>1. keep' \subseteq keep /\ Fresh /\ stack' = << >>
    BY <1>1 DEF PrunePass, Sweep, Fresh, search
  <2>2. << >> \in Seq(Frames') /\ << >> \in Seq(Calls(ask', keep'))
    OBVIOUS
  <2>3. Answers' = Answers
    BY <1>1 DEF PrunePass, Answers
  <2> QED BY <1>a, <1>1, <2>1, <2>2, <2>3 DEF PrunePass, TypeOK, Fresh, search
<1>2. CASE Pruned
  <2>1. /\ ask' = ask /\ attempt' = attempt /\ base' = base /\ keep' = keep /\ totals' = totals
        /\ stack' = stack /\ found' = found /\ solutions' = solutions /\ nodes' = nodes /\ Fresh
    BY <1>2 DEF Pruned, search
  <2>2. /\ Frames' = Frames /\ Calls(ask, keep)' = Calls(ask, keep) /\ Answers' = Answers
    BY <2>1 DEF Frames, Calls, Answers
  <2>3. answer \in Answers
    BY DEF TypeOK
  <2>4. answer' \in Answers' /\ pc' \in {"done", "splitting", "solving"}
    <3>1. Return("NONE_FOUND") => answer' \in Answers' /\ pc' \in {"done", "splitting"}
      BY <2>1, ReturnTyped
    <3>2. Return("BUDGET_EXCEEDED") => answer' \in Answers' /\ pc' \in {"done", "splitting"}
      BY <2>1, ReturnTyped
    <3> QED BY <1>2, <2>2, <2>3, <3>1, <3>2 DEF Pruned
  <2> QED BY <2>1, <2>2, <2>4 DEF TypeOK, Fresh
<1>3. CASE Split
  <2>1. SubWindow(ask, attempt') \subseteq 1 .. Len(ask.items)
    BY DEF SubWindow
  <2>2. attempt' \in Nat /\ attempt' # 0
    BY <1>3 DEF Split, TypeOK
  <2>3. << >> \in Seq(Frames') /\ << >> \in Seq(Calls(ask', keep'))
    OBVIOUS
  <2>4. Answers' = Answers
    BY <1>3 DEF Split, Answers
  <2> QED BY <1>3, <2>1, <2>2, <2>3, <2>4 DEF Split, TypeOK, Fresh
<1>4. CASE GiveUp
  <2>1. Frames' = Frames /\ Calls(ask, keep)' = Calls(ask, keep) /\ Answers' = Answers
    BY <1>4 DEF GiveUp, Frames, Calls, Answers
  <2>2. answer' \in Answers
    BY <1>4 DEF GiveUp, Answers
  <2> QED BY <1>4, <2>1, <2>2 DEF GiveUp, TypeOK, search, Fresh
<1>5. CASE Solve
  <2>1. /\ ask' = ask /\ attempt' = attempt /\ base' = base /\ keep' = keep
        /\ stack' = stack /\ found' = found /\ solutions' = solutions /\ nodes' = nodes
    BY <1>5 DEF Solve
  <2>2. /\ Frames' = Frames /\ Calls(ask, keep)' = Calls(ask, keep) /\ Answers' = Answers
    BY <2>1 DEF Frames, Calls, Answers
  <2>3. answer \in Answers /\ totals \subseteq Int
    BY DEF TypeOK
  <2>4. Hits(ask, keep) \subseteq Int
    <3>1. Snapshots(Reach(Rupees(ask), keep), Rupees(ask), keep) /\ Rupees(ask) \in Seq(Int)
          /\ Len(Rupees(ask)) = Len(ask.items)
      BY <1>a, ReachStep, RupeesTyped
    <3>2. Reach(Rupees(ask), keep)[Len(ask.items)] \subseteq Int
      BY <1>a, <3>1 DEF Snapshots
    <3> QED BY <3>2 DEF Hits
  <2>5. answer' \in Answers' /\ pc' \in {"done", "splitting", "walking"} /\ totals' \subseteq Int
    <3>1. Return("NONE_FOUND") => answer' \in Answers' /\ pc' \in {"done", "splitting"}
      BY <2>1, ReturnTyped
    <3>2. Return("BUDGET_EXCEEDED") => answer' \in Answers' /\ pc' \in {"done", "splitting"}
      BY <2>1, ReturnTyped
    <3> QED BY <1>5, <2>2, <2>3, <2>4, <3>1, <3>2 DEF Solve
  <2> QED BY <2>1, <2>2, <2>5 DEF TypeOK
<1>6. CASE NextTotal
  <2>1. PICK total \in totals : /\ totals' = totals \ {total}
                                /\ stack' = << Frame(LastOf(keep, Len(ask.items)), total, {}) >>
    BY <1>6 DEF NextTotal
  <2>2. Frame(LastOf(keep, Len(ask.items)), total, {}) \in Calls(ask, keep)
    <3>0. Len(ask.items) \in 0 .. Len(ask.items) /\ keep \in SUBSET (1 .. Len(ask.items))
      BY <1>a
    <3>1. LastOf(keep, Len(ask.items)) \in keep \cup {0} /\ total \in Int
      BY <1>a, <3>0, LastOfGreatest DEF TypeOK
    <3> QED BY <3>1 DEF Frame, Calls
  <2>3. stack' \in Seq(Calls(ask, keep)) /\ stack' \in Seq(Frames)
    BY <2>1, <2>2, CallsAreFrames
  <2>4. Frames' = Frames /\ Calls(ask, keep)' = Calls(ask, keep) /\ Answers' = Answers
    BY <1>6 DEF NextTotal, Frames, Calls, Answers
  <2> QED BY <1>6, <2>1, <2>3, <2>4 DEF NextTotal, TypeOK
<1>7. CASE Branch
  <2>1. Head(stack) \in Calls(ask, keep) /\ Tail(stack) \in Seq(Calls(ask, keep))
    BY <1>7, CoverTail DEF Branch
  <2>2. Children(ask, keep, Head(stack)) \in Seq(Calls(ask, keep))
    BY <1>a, <1>7, <2>1, ChildrenCover DEF Branch
  <2>3. stack' \in Seq(Calls(ask, keep)) /\ stack' \in Seq(Frames)
    BY <1>7, <2>1, <2>2, CoverConcat, CallsAreFrames DEF Branch
  <2>4. Frames' = Frames /\ Calls(ask, keep)' = Calls(ask, keep) /\ Answers' = Answers
    BY <1>7 DEF Branch, Frames, Calls, Answers
  <2>5. nodes' \in Nat
    BY <1>7 DEF Branch, TypeOK
  <2> QED BY <1>7, <2>3, <2>4, <2>5 DEF Branch, TypeOK
<1>8. CASE Leaf
  <2>1. Head(stack) \in Calls(ask, keep) /\ Tail(stack) \in Seq(Calls(ask, keep))
    BY <1>8, CoverTail DEF Leaf
  <2>2. Head(stack).chosen \subseteq keep
    BY <2>1 DEF Calls
  <2>3. stack' \in Seq(Calls(ask, keep)) /\ stack' \in Seq(Frames)
    BY <1>8, <2>1, CallsAreFrames DEF Leaf
  <2>4. Frames' = Frames /\ Calls(ask, keep)' = Calls(ask, keep) /\ Answers' = Answers
    BY <1>8 DEF Leaf, Frames, Calls, Answers
  <2>5. nodes' \in Nat /\ found' \in Nat /\ solutions' \subseteq SUBSET keep
    <3>1. nodes' \in Nat
      BY <1>8 DEF Leaf, TypeOK
    <3>2. found' = found \/ found' = found + 1
      BY <1>8 DEF Leaf
    <3>3. solutions' = solutions \/ solutions' = solutions \cup {Head(stack).chosen}
      BY <1>8 DEF Leaf
    <3>4. found \in Nat /\ solutions \subseteq SUBSET keep
      BY DEF TypeOK
    <3> QED BY <2>2, <3>1, <3>2, <3>3, <3>4
  <2> QED BY <1>8, <2>3, <2>4, <2>5 DEF Leaf, TypeOK
<1>9. CASE Overrun \/ Count
  <2>1. /\ ask' = ask /\ attempt' = attempt /\ base' = base /\ keep' = keep /\ totals' = totals
        /\ stack' = stack /\ found' = found /\ solutions' = solutions /\ nodes' = nodes
    BY <1>9 DEF Overrun, Count, search
  <2>2. /\ Frames' = Frames /\ Calls(ask, keep)' = Calls(ask, keep) /\ Answers' = Answers
    BY <2>1 DEF Frames, Calls, Answers
  <2>3. \A S \in solutions :
           [uniqueness |-> "UNIQUE", scope |-> Scope, members |-> S] \in Answers
    BY <1>a DEF TypeOK, Answers, Scope
  <2>4. answer' \in Answers' /\ pc' \in {"done", "splitting"}
    <3>1. \A u \in {"NONE_FOUND", "AMBIGUOUS", "BUDGET_EXCEEDED"} :
             Return(u) => answer' \in Answers' /\ pc' \in {"done", "splitting"}
      BY <2>1, ReturnTyped
    <3> QED BY <1>9, <2>2, <2>3, <3>1 DEF Overrun, Count
  <2> QED BY <2>1, <2>2, <2>4 DEF TypeOK
<1>10. CASE UNCHANGED vars
  <2>1. /\ Frames' = Frames /\ Calls(ask, keep)' = Calls(ask, keep) /\ Answers' = Answers
    BY <1>10 DEF vars, search, Frames, Calls, Answers
  <2> QED BY <1>10, <2>1 DEF vars, search, TypeOK, Fresh
<1> QED BY <1>1, <1>2, <1>3, <1>4, <1>5, <1>6, <1>7, <1>8, <1>9, <1>10 DEF Next, Step, Stop

-----------------------------------------------------------------------------
(***************************************************************************)
(* Pruning keeps the solutions                                             *)
(***************************************************************************)

\* Nothing is pruned at the start.
LEMMA KeptInit == Init => SolutionsKept
BY DEF Init, SolutionsKept, Solutions

\* Pruning passes keep the solutions (SweepKeeps), and a sub-window starts unpruned.
LEMMA KeptStep == Shape /\ SolutionsKept /\ [Next]_vars => SolutionsKept'
<1> SUFFICES ASSUME Shape, SolutionsKept, [Next]_vars PROVE SolutionsKept'
  OBVIOUS
<1>1. CASE PrunePass
  <2>1. ask \in Question /\ base \in SUBSET (1 .. Len(ask.items)) /\ keep \in SUBSET base
    BY AskTyped DEF Shape
  <2>2. \A S \in Solutions(ask, base) : S \subseteq Sweep(ask, keep)
    BY <2>1, SweepKeeps DEF SolutionsKept
  <2> QED BY <1>1, <2>2 DEF PrunePass, SolutionsKept
<1>2. CASE Split
  BY <1>2 DEF Split, SolutionsKept, Solutions
<1>3. CASE UNCHANGED << ask, base, keep >>
  BY <1>3 DEF SolutionsKept
<1>4. PrunePass \/ Split \/ UNCHANGED << ask, base, keep >>
  BY DEF Next, Step, Stop, vars, Pruned, GiveUp, Solve, NextTotal, Branch, Leaf, Overrun, Count
<1> QED BY <1>1, <1>2, <1>3, <1>4

\* What pruning left has the solutions that the pool had.
LEMMA SameSolutions ==
  ASSUME Shape, SolutionsKept
  PROVE  Solutions(ask, keep) = Solutions(ask, base)
BY DEF Shape, TypeOK, SolutionsKept, Solutions

-----------------------------------------------------------------------------
(***************************************************************************)
(* The walk lists every solution once                                      *)
(***************************************************************************)

Ahead == Cover(ask, keep, stack) \cup WithTotal(ask, keep, totals)

\* WalkIsExact in terms of the stack as a whole.
Walk ==
    /\ solutions \cup Admitted(ask, Ahead) = Solutions(ask, keep)
    /\ solutions \cap Ahead = {}
    /\ Apart(ask, keep, stack)
    /\ Cover(ask, keep, stack) \cap WithTotal(ask, keep, totals) = {}
    /\ found = Cardinality(solutions)

\* WalkIsExact, in the vocabulary of Cover and Apart.
LEMMA WalkMeans == WalkIsExact <=> (pc = "walking" => Walk)
<1> DEFINE left == [i \in 1 .. Len(stack) |-> Completions(ask, keep, stack[i])]
           later == WithTotal(ask, keep, totals)
           ahead == (UNION {left[i] : i \in 1 .. Len(stack)}) \cup later
<1>1. \A i \in 1 .. Len(stack) : left[i] = Completions(ask, keep, stack[i])
  OBVIOUS
<1>2. WalkIsExact <=>
        (pc = "walking" =>
            /\ solutions \cup Admitted(ask, ahead) = Solutions(ask, keep)
            /\ solutions \cap ahead = {}
            /\ \A i, j \in 1 .. Len(stack) : i # j => left[i] \cap left[j] = {}
            /\ \A i \in 1 .. Len(stack) : left[i] \cap later = {}
            /\ found = Cardinality(solutions))
  BY DEF WalkIsExact
<1> HIDE DEF left
<1>3. UNION {left[i] : i \in 1 .. Len(stack)} = Cover(ask, keep, stack)
  BY <1>1 DEF Cover
<1>4. ahead = Ahead
  BY <1>3 DEF Ahead
<1>5. (\A i, j \in 1 .. Len(stack) : i # j => left[i] \cap left[j] = {})
        <=> Apart(ask, keep, stack)
  BY <1>1 DEF Apart
<1>6. (\A i \in 1 .. Len(stack) : left[i] \cap later = {})
        <=> Cover(ask, keep, stack) \cap later = {}
  <2>1. \A x : x \in Cover(ask, keep, stack) <=> \E i \in 1 .. Len(stack) : x \in left[i]
    BY <1>3
  <2> QED BY <2>1
<1> HIDE DEF ahead
<1> QED BY <1>2, <1>4, <1>5, <1>6 DEF Walk

\* The same after a step.
LEMMA WalkMeansNext == WalkIsExact' <=> (pc = "walking" => Walk)'
BY WalkMeans, PTL

\* The call does not start by walking.
LEMMA WalkInit == Init => WalkIsExact
BY DEF Init, WalkIsExact

\* The index has, in the window, the totals of the sets that solve the question.
LEMMA HitsAreTotals ==
  ASSUME Shape
  PROVE  \A S \in SUBSET keep :
            Sum(Rupees(ask), S) \in Hits(ask, keep) <=> InWindow(ask, Sum(Rupees(ask), S))
<1>1. /\ ask \in Question /\ keep \in SUBSET (1 .. Len(ask.items)) /\ Rupees(ask) \in Seq(Int)
      /\ Len(Rupees(ask)) = Len(ask.items) /\ Len(ask.items) \in Nat
  BY AskTyped DEF Shape
<1>2. Reach(Rupees(ask), keep)[Len(ask.items)] = {Sum(Rupees(ask), S) : S \in SUBSET keep}
  <2> DEFINE n == Len(ask.items)
  <2>1. n \in 0 .. Len(Rupees(ask)) /\ keep \in SUBSET Indices(Rupees(ask))
    BY <1>1 DEF Indices
  <2>2. {i \in keep : i <= n} = keep
    <3>1. \A i \in keep : i <= n
      BY <1>1
    <3> QED BY <3>1
  <2>3. Reach(Rupees(ask), keep)[n] = {Sum(Rupees(ask), S) : S \in SUBSET {i \in keep : i <= n}}
    <3> HIDE DEF n
    <3> QED BY <1>1, <2>1, ReachIsSums
  <2> QED BY <2>2, <2>3
<1> QED BY <1>2 DEF Hits

\* The first state of a walk: no call, and the totals that are reachable in the window.
LEMMA WalkStarts == Shape /\ Solve /\ pc' = "walking" => Walk'
<1> SUFFICES ASSUME Shape, Solve, pc' = "walking" PROVE Walk'
  OBVIOUS
<1>a. /\ ask \in Question /\ keep \in SUBSET (1 .. Len(ask.items)) /\ Rupees(ask) \in Seq(Int)
      /\ Len(Rupees(ask)) = Len(ask.items) /\ Len(ask.items) \in Nat
  BY AskTyped DEF Shape
<1>1. /\ totals' = Hits(ask, keep) /\ UNCHANGED << ask, keep, stack, found, solutions >>
      /\ stack = << >> /\ found = 0 /\ solutions = {}
  <2>1. Fresh
    BY DEF Shape, Solve
  <2>2. \A u : Return(u) => pc' # "walking"
    BY ReturnCases
  <2> QED BY <2>1, <2>2 DEF Fresh, Solve
<1>3. \A S \in SUBSET keep : S \in WithTotal(ask, keep, totals') <=> InWindow(ask, Sum(Rupees(ask), S))
  BY <1>1, HitsAreTotals DEF WithTotal
<1>4. Admitted(ask, WithTotal(ask, keep, totals')) = Solutions(ask, keep)
  BY <1>3 DEF Admitted, Solutions, WithTotal
<1>5. Cover(ask, keep, stack) = {} /\ Apart(ask, keep, stack)
  BY <1>1, CoverSmall
<1>6. Cardinality({}) = 0
  BY FS_EmptySet
<1>7. /\ Solutions(ask, keep)' = Solutions(ask, keep) /\ Cover(ask, keep, stack)' = {}
      /\ Apart(ask, keep, stack)' /\ WithTotal(ask, keep, totals)' = WithTotal(ask, keep, totals')
      /\ ask' = ask
  BY <1>1, <1>5 DEF Cover, Apart
<1>8. Ahead' = WithTotal(ask, keep, totals')
  BY <1>7 DEF Ahead
<1>9. Admitted(ask, Ahead)' = Solutions(ask, keep)
  BY <1>4, <1>7, <1>8 DEF Admitted
<1> QED BY <1>1, <1>6, <1>7, <1>8, <1>9 DEF Walk

\* The sets listed are finitely many.
LEMMA FiniteSolutions == ASSUME Shape PROVE IsFiniteSet(solutions)
<1>1. IsFiniteSet(1 .. Len(ask.items))
  BY AskTyped, FS_Interval DEF Shape
<1>2. IsFiniteSet(keep)
  BY <1>1, AskTyped, FS_Subset DEF Shape
<1>3. IsFiniteSet(SUBSET keep)
  BY <1>2, FS_SUBSET
<1> QED BY <1>3, FS_Subset DEF Shape, TypeOK

\* The root call of a total leads to the sets with that total.
LEMMA NextTotalWalk == Shape /\ Walk /\ NextTotal => Walk'
<1> SUFFICES ASSUME Shape, Walk, NextTotal PROVE Walk'
  OBVIOUS
<1> DEFINE n == Len(ask.items)
<1>a. /\ ask \in Question /\ keep \in SUBSET (1 .. n) /\ n \in Nat /\ n \in 0 .. n
  BY AskTyped DEF Shape
<1>1. PICK total \in totals : /\ totals' = totals \ {total}
                              /\ stack' = << Frame(LastOf(keep, n), total, {}) >>
  BY DEF NextTotal
<1>2. stack = << >> /\ UNCHANGED << ask, keep, found, solutions >>
  BY DEF NextTotal
<1> DEFINE f == Frame(LastOf(keep, n), total, {})
<1>3. Completions(ask, keep, f) = {S \in SUBSET keep : Sum(Rupees(ask), S) = total}
  <2>1. {i \in keep : i <= LastOf(keep, n)} = keep
    <3>1. {i \in keep : i <= n} = keep
      <4>1. \A i \in keep : i <= n
        BY <1>a
      <4> QED BY <4>1
    <3> HIDE DEF n
    <3> QED BY <1>a, <3>1, LastOfGreatest
  <2>2. Completions(ask, keep, f) = {{} \cup S : S \in {T \in SUBSET keep : Sum(Rupees(ask), T) = total}}
    BY <2>1 DEF Completions, Frame
  <2> QED BY <2>2
<1> HIDE DEF f
<1>4. Cover(ask, keep, stack') = Completions(ask, keep, f) /\ Apart(ask, keep, stack')
  BY <1>1, CoverSmall DEF f
<1>5. Cover(ask, keep, stack) = {}
  BY <1>2, CoverSmall
<1>6. /\ WithTotal(ask, keep, totals) = Completions(ask, keep, f) \cup WithTotal(ask, keep, totals')
      /\ Completions(ask, keep, f) \cap WithTotal(ask, keep, totals') = {}
  BY <1>1, <1>3 DEF WithTotal
<1>7. /\ Cover(ask, keep, stack)' = Cover(ask, keep, stack')
      /\ WithTotal(ask, keep, totals)' = WithTotal(ask, keep, totals')
      /\ Apart(ask, keep, stack)' = Apart(ask, keep, stack')
      /\ Solutions(ask, keep)' = Solutions(ask, keep)
  BY <1>2 DEF Cover, WithTotal, Apart
<1>8. Ahead' = Ahead
  BY <1>4, <1>5, <1>6, <1>7 DEF Ahead
<1>9. Admitted(ask, Ahead)' = Admitted(ask, Ahead)
  BY <1>2, <1>8 DEF Admitted
<1> QED BY <1>2, <1>4, <1>6, <1>7, <1>8, <1>9 DEF Walk

\* An inner node leads to what its children lead to, and its children are apart.
LEMMA BranchWalk == Shape /\ Walk /\ Branch => Walk'
<1> SUFFICES ASSUME Shape, Walk, Branch PROVE Walk'
  OBVIOUS
<1> DEFINE f == Head(stack)
           rest == Tail(stack)
           cs == Children(ask, keep, f)
           X == Calls(ask, keep)
<1>a. ask \in Question /\ keep \in SUBSET (1 .. Len(ask.items)) /\ stack \in Seq(X) /\ stack # << >>
  BY AskTyped DEF Shape, Branch
<1>1. /\ stack' = cs \o rest /\ f.top # 0
      /\ UNCHANGED << ask, keep, totals, found, solutions >>
  BY DEF Branch
<1>2. /\ f \in X /\ rest \in Seq(X)
      /\ Cover(ask, keep, stack) = Completions(ask, keep, f) \cup Cover(ask, keep, rest)
      /\ Apart(ask, keep, rest)
      /\ Completions(ask, keep, f) \cap Cover(ask, keep, rest) = {}
  BY <1>a, CoverTail DEF Walk
<1>3. cs \in Seq(X) /\ Cover(ask, keep, cs) = Completions(ask, keep, f) /\ Apart(ask, keep, cs)
  BY <1>a, <1>1, <1>2, ChildrenCover
<1> HIDE DEF f, rest, cs, X
<1>4. Cover(ask, keep, stack') = Cover(ask, keep, stack) /\ Apart(ask, keep, stack')
  BY <1>1, <1>2, <1>3, CoverConcat
<1>7. /\ Cover(ask, keep, stack)' = Cover(ask, keep, stack')
      /\ WithTotal(ask, keep, totals)' = WithTotal(ask, keep, totals)
      /\ Apart(ask, keep, stack)' = Apart(ask, keep, stack')
      /\ Solutions(ask, keep)' = Solutions(ask, keep)
  BY <1>1 DEF Cover, WithTotal, Apart
<1>8. Ahead' = Ahead
  BY <1>4, <1>7 DEF Ahead
<1>9. Admitted(ask, Ahead)' = Admitted(ask, Ahead)
  BY <1>1, <1>8 DEF Admitted
<1> QED BY <1>1, <1>4, <1>7, <1>8, <1>9 DEF Walk

\* A leaf lists the one set it leads to.
LEMMA LeafWalk == Shape /\ Walk /\ Leaf => Walk'
<1> SUFFICES ASSUME Shape, Walk, Leaf PROVE Walk'
  OBVIOUS
<1> DEFINE f == Head(stack)
           rest == Tail(stack)
           X == Calls(ask, keep)
           later == WithTotal(ask, keep, totals)
<1>a. ask \in Question /\ keep \in SUBSET (1 .. Len(ask.items)) /\ stack \in Seq(X) /\ stack # << >>
  BY AskTyped DEF Shape, Leaf
<1>1. /\ stack' = rest /\ f.top = 0
      /\ UNCHANGED << ask, keep, totals >>
      /\ IF f.rest = 0 /\ (ask.cfg.requireNonempty => f.chosen # {})
         THEN found' = found + 1 /\ solutions' = solutions \cup {f.chosen}
         ELSE UNCHANGED << found, solutions >>
  BY DEF Leaf
<1>2. /\ f \in X
      /\ Cover(ask, keep, stack) = Completions(ask, keep, f) \cup Cover(ask, keep, rest)
      /\ Apart(ask, keep, rest)
      /\ Completions(ask, keep, f) \cap Cover(ask, keep, rest) = {}
  BY <1>a, CoverTail DEF Walk
<1>3. Completions(ask, keep, f) = IF f.rest = 0 THEN {f.chosen} ELSE {}
  BY <1>a, <1>1, <1>2, LeafCompletions
<1>4. IsFiniteSet(solutions) /\ found = Cardinality(solutions) /\ found \in Nat
  BY FiniteSolutions DEF Walk, Shape, TypeOK
<1> HIDE DEF f, rest, X
<1>5. /\ Cover(ask, keep, stack)' = Cover(ask, keep, rest)
      /\ WithTotal(ask, keep, totals)' = later
      /\ Apart(ask, keep, stack)' = Apart(ask, keep, rest)
      /\ Solutions(ask, keep)' = Solutions(ask, keep)
      /\ ask' = ask
  BY <1>1 DEF Cover, WithTotal, Apart
<1> HIDE DEF later
<1>6. /\ Ahead' = Cover(ask, keep, rest) \cup later
      /\ Ahead = Completions(ask, keep, f) \cup Cover(ask, keep, rest) \cup later
      /\ Cover(ask, keep, stack) \cap later = {}
  BY <1>2, <1>5 DEF Ahead, later, Walk
<1>7. Cover(ask, keep, rest) \cap later = {} /\ Completions(ask, keep, f) \cap later = {}
  BY <1>2, <1>6
<1>8. /\ solutions \cup Admitted(ask, Ahead) = Solutions(ask, keep) /\ solutions \cap Ahead = {}
  BY DEF Walk
<1>9. CASE f.rest = 0 /\ (ask.cfg.requireNonempty => f.chosen # {})
  <2>1. Admitted(ask, Ahead) = {f.chosen} \cup Admitted(ask, Ahead')
    BY <1>3, <1>6, <1>9 DEF Admitted
  <2>2. f.chosen \notin solutions /\ f.chosen \notin Ahead'
    BY <1>2, <1>3, <1>6, <1>7, <1>8, <1>9
  <2>3. solutions' = solutions \cup {f.chosen} /\ found' = found + 1
    BY <1>1, <1>9
  <2>4. Cardinality(solutions') = found + 1
    BY <1>4, <2>2, <2>3, FS_AddElement
  <2>5. Admitted(ask, Ahead)' = Admitted(ask, Ahead')
    BY <1>5 DEF Admitted
  <2>6. /\ solutions' \cup Admitted(ask, Ahead') = Solutions(ask, keep)
        /\ solutions' \cap Ahead' = {}
    BY <1>6, <1>8, <2>1, <2>2, <2>3
  <2> QED BY <1>2, <1>5, <1>7, <2>3, <2>4, <2>5, <2>6 DEF Walk
<1>10. CASE ~ (f.rest = 0 /\ (ask.cfg.requireNonempty => f.chosen # {}))
  <2>1. Admitted(ask, Ahead) = Admitted(ask, Ahead')
    BY <1>3, <1>6, <1>10 DEF Admitted
  <2>2. UNCHANGED << found, solutions >>
    BY <1>1, <1>10
  <2>3. Admitted(ask, Ahead)' = Admitted(ask, Ahead')
    BY <1>5 DEF Admitted
  <2>4. solutions \cap Ahead' = {}
    BY <1>6, <1>8
  <2> QED BY <1>2, <1>5, <1>7, <1>8, <2>1, <2>2, <2>3, <2>4 DEF Walk
<1> QED BY <1>9, <1>10

\* Every step keeps the walk exact.
LEMMA WalkStep == Shape /\ WalkIsExact /\ [Next]_vars => WalkIsExact'
<1> SUFFICES ASSUME Shape, WalkIsExact, [Next]_vars PROVE WalkIsExact'
  OBVIOUS
<1>0. WalkIsExact' <=> (pc = "walking" => Walk)'
  BY WalkMeansNext
<1> SUFFICES ASSUME pc' = "walking" PROVE Walk'
  BY <1>0
<1>1. CASE Solve
  BY <1>1, WalkStarts
<1>2. CASE NextTotal \/ Branch \/ Leaf
  <2>1. pc = "walking"
    BY <1>2 DEF NextTotal, Branch, Leaf
  <2>2. Walk
    BY <2>1, WalkMeans
  <2> QED BY <1>2, <2>2, NextTotalWalk, BranchWalk, LeafWalk
<1>3. CASE UNCHANGED vars
  <2>1. Walk
    BY <1>3, WalkMeans DEF vars
  <2>2. /\ ask' = ask /\ keep' = keep /\ totals' = totals /\ stack' = stack
        /\ found' = found /\ solutions' = solutions
    BY <1>3 DEF vars, search
  <2>3. /\ Cover(ask, keep, stack)' = Cover(ask, keep, stack)
        /\ WithTotal(ask, keep, totals)' = WithTotal(ask, keep, totals)
        /\ Apart(ask, keep, stack)' = Apart(ask, keep, stack)
        /\ Solutions(ask, keep)' = Solutions(ask, keep)
    BY <2>2 DEF Cover, WithTotal, Apart
  <2>4. Ahead' = Ahead
    BY <2>3 DEF Ahead
  <2>5. Admitted(ask, Ahead)' = Admitted(ask, Ahead)
    BY <2>2, <2>4 DEF Admitted
  <2> QED BY <2>1, <2>2, <2>3, <2>4, <2>5 DEF Walk
<1>4. CASE PrunePass \/ Pruned \/ Split \/ GiveUp \/ Overrun \/ Count
  <2>1. \A u : Return(u) => pc' # "walking"
    BY ReturnCases
  <2> QED BY <1>4, <2>1 DEF PrunePass, Pruned, Split, GiveUp, Overrun, Count
<1> QED BY <1>1, <1>2, <1>3, <1>4 DEF Next, Step, Stop

-----------------------------------------------------------------------------
(***************************************************************************)
(* The verdict                                                             *)
(***************************************************************************)

\* VerdictIsTrue says what an answer tells of the solutions, and that it is the Verdict.
Truth ==
    pc = "done" =>
        /\ answer.uniqueness = "UNIQUE" => Solutions(ask, base) = {answer.members}
        /\ answer.uniqueness = "AMBIGUOUS" => \E S, T \in Solutions(ask, base) : S # T
        /\ answer.uniqueness = "NONE_FOUND" =>
              /\ base = 1 .. Len(ask.items)
              /\ ZeroRupees \/ Solutions(ask, base) \subseteq {{}}
        /\ answer.scope = "FULL" /\ answer.uniqueness # "BUDGET_EXCEEDED" =>
              base = 1 .. Len(ask.items)
Conclusion == [uniqueness |-> answer.uniqueness, members |-> answer.members]
Match ==
    pc = "done" /\ answer.scope = "FULL" /\ answer.uniqueness # "BUDGET_EXCEEDED" =>
        Conclusion = Verdict(ask, base)

LEMMA VerdictMeans == VerdictIsTrue <=> Truth /\ Match
BY DEF VerdictIsTrue, Truth, Match, Conclusion

\* An answer without members, given through Return.
LEMMA ReturnIsTrue ==
  ASSUME Shape, SolutionsKept, ask' = ask, base' = base,
         NEW u \in {"NONE_FOUND", "AMBIGUOUS", "BUDGET_EXCEEDED"}, Return(u),
         u = "NONE_FOUND" => ZeroRupees \/ Solutions(ask, keep) \subseteq {{}},
         u = "AMBIGUOUS" => \E S, T \in Solutions(ask, keep) : S # T
  PROVE  Truth'
<1>1. Solutions(ask, keep) = Solutions(ask, base)
  BY SameSolutions
<1>2. Solutions(ask, base)' = Solutions(ask, base) /\ ZeroRupees' = ZeroRupees
  BY DEF ZeroRupees
<1>3. CASE pc' = "done"
  <2>1. /\ attempt = 0 \/ u = "AMBIGUOUS"
        /\ answer' = [uniqueness |-> u, scope |-> Scope, members |-> {}]
    BY <1>3, ReturnCases
  <2>2. answer'.uniqueness = u /\ answer'.scope = Scope
    BY <2>1
  <2>3. attempt = 0 => base = 1 .. Len(ask.items)
    BY DEF Shape
  <2>4. Scope = "FULL" => attempt = 0
    BY DEF Scope
  <2> QED BY <1>1, <1>2, <2>1, <2>2, <2>3, <2>4 DEF Truth
<1>4. CASE pc' # "done"
  BY <1>4 DEF Truth
<1> QED BY <1>3, <1>4

\* A full list holds two sets; a complete one holds all the solutions.
LEMMA CountIsTrue == Shape /\ SolutionsKept /\ WalkIsExact /\ Count => Truth'
<1> SUFFICES ASSUME Shape, SolutionsKept, WalkIsExact, Count PROVE Truth'
  OBVIOUS
<1>1. Walk /\ ask' = ask /\ base' = base /\ keep' = keep
  BY WalkMeans DEF Count
<1>2. solutions \subseteq Solutions(ask, keep)
  BY <1>1 DEF Walk
<1>3. CASE Capped
  \* the list is full: it holds two different sets at least
  <2>1. Cardinality(solutions) >= 2 /\ IsFiniteSet(solutions)
    <3>1. ask.cfg.enumerateCap \in Nat /\ ask.cfg.enumerateCap >= 2 /\ found \in Nat
      BY AskTyped DEF Shape, TypeOK
    <3>2. found >= ask.cfg.enumerateCap
      BY <1>3 DEF Capped
    <3>3. found >= 2
      BY <3>1, <3>2
    <3> QED BY <1>1, <3>3, FiniteSolutions DEF Walk
  <2>2. solutions # {} /\ \A S \in solutions : solutions # {S}
    <3>1. solutions # {}
      <4>1. CASE Cardinality(solutions) = 0
        BY <4>1, <2>1
      <4>2. CASE Cardinality(solutions) # 0
        BY <4>2, <2>1, FS_EmptySet
      <4> QED BY <4>1, <4>2
    <3>2. ASSUME NEW S \in solutions PROVE solutions # {S}
      <4>1. Cardinality(solutions) # 1
        BY <2>1, FS_CardinalityType
      <4>2. Cardinality({S}) = 1
        BY FS_Singleton
      <4> QED BY <4>1, <4>2
    <3> QED BY <3>1, <3>2
  <2>3. Return("AMBIGUOUS") /\ \E S, T \in Solutions(ask, keep) : S # T
    BY <1>2, <2>2 DEF Count
  <2> QED BY <1>1, <2>3, ReturnIsTrue
<1>4. CASE ~ Capped
  \* the walk is complete: the list is all the solutions
  <2>1. stack = << >> /\ totals = {}
    BY <1>4 DEF Count
  <2>2. Ahead = {}
    BY <2>1, CoverSmall DEF Ahead, WithTotal
  <2>3. solutions = Solutions(ask, keep)
    BY <1>1, <2>2 DEF Walk, Admitted
  <2>4. CASE solutions = {} /\ Return("NONE_FOUND")
    BY <1>1, <2>3, <2>4, ReturnIsTrue
  <2>5. CASE (\E S, T \in solutions : S # T) /\ Return("AMBIGUOUS")
    BY <1>1, <2>3, <2>5, ReturnIsTrue
  <2>6. CASE \E S \in solutions :
                /\ solutions = {S}
                /\ answer' = [uniqueness |-> "UNIQUE", scope |-> Scope, members |-> S]
    <3>1. PICK S \in solutions :
             /\ solutions = {S}
             /\ answer' = [uniqueness |-> "UNIQUE", scope |-> Scope, members |-> S]
      BY <2>6
    <3>2. answer'.uniqueness = "UNIQUE" /\ answer'.scope = Scope /\ answer'.members = S
      BY <3>1
    <3>3. Solutions(ask, base)' = {S}
      BY <1>1, <2>3, <3>1, SameSolutions
    <3>4. Scope = "FULL" => base' = 1 .. Len(ask'.items)
      BY <1>1 DEF Scope, Shape
    <3> QED BY <3>2, <3>3, <3>4 DEF Truth
  <2> QED BY <2>4, <2>5, <2>6 DEF Count
<1> QED BY <1>3, <1>4

\* There is no answer at the start.
LEMMA TruthInit == Init => Truth
BY DEF Init, Truth

\* Every step that answers tells the truth about the unpruned pool.
LEMMA TruthStep ==
  Shape /\ SolutionsKept /\ WalkIsExact /\ Truth /\ [Next]_vars => Truth'
<1> SUFFICES ASSUME Shape, SolutionsKept, WalkIsExact, Truth, [Next]_vars
             PROVE  Truth'
  OBVIOUS
<1>1. CASE Pruned
  <2>1. ask' = ask /\ base' = base
    BY <1>1 DEF Pruned
  <2>2. keep = {} => Solutions(ask, keep) \subseteq {{}}
    BY DEF Solutions
  <2>3. CASE keep = {} /\ Return("NONE_FOUND")
    BY <2>1, <2>2, <2>3, ReturnIsTrue
  <2>4. CASE Return("BUDGET_EXCEEDED")
    BY <2>1, <2>4, ReturnIsTrue
  <2>5. CASE pc' # "done"
    BY <2>5 DEF Truth
  <2> QED BY <1>1, <2>3, <2>4, <2>5 DEF Pruned
<1>2. CASE GiveUp
  <2>1. answer'.uniqueness = "BUDGET_EXCEEDED"
    BY <1>2 DEF GiveUp
  <2> QED BY <2>1 DEF Truth
<1>3. CASE Solve
  <2>1. ask' = ask /\ base' = base
    BY <1>3 DEF Solve
  <2>2. CASE (\E i \in keep : Rupees(ask)[i] = 0) /\ Return("NONE_FOUND")
    <3>1. ZeroRupees
      BY <2>2 DEF ZeroRupees, Shape, TypeOK
    <3> QED BY <2>1, <2>2, <3>1, ReturnIsTrue
  <2>3. CASE Return("BUDGET_EXCEEDED")
    BY <2>1, <2>3, ReturnIsTrue
  <2>4. CASE Hits(ask, keep) = {} /\ Return("NONE_FOUND")
    <3>1. Solutions(ask, keep) = {}
      BY <2>4, HitsAreTotals DEF Solutions
    <3> QED BY <2>1, <2>4, <3>1, ReturnIsTrue
  <2>5. CASE pc' # "done"
    BY <2>5 DEF Truth
  <2> QED BY <1>3, <2>2, <2>3, <2>4, <2>5 DEF Solve
<1>4. CASE Overrun
  BY <1>4, ReturnIsTrue DEF Overrun
<1>5. CASE Count
  BY <1>5, CountIsTrue
<1>6. CASE UNCHANGED vars
  BY <1>6 DEF vars, Truth, ZeroRupees
<1>7. CASE PrunePass \/ Split \/ NextTotal \/ Branch \/ Leaf
  <2>1. pc' # "done"
    BY <1>7 DEF PrunePass, Split, NextTotal, Branch, Leaf
  <2> QED BY <2>1 DEF Truth
<1> QED BY <1>1, <1>2, <1>3, <1>4, <1>5, <1>6, <1>7 DEF Next, Step, Stop

-----------------------------------------------------------------------------
(***************************************************************************)
(* The answer on the full pool is the Verdict                              *)
(***************************************************************************)

\* The passes over a pool, in their order.
PassesRun(p, q, B) ==
    /\ p[0] = B
    /\ \A k \in 1 .. Len(q.items) : p[k] = Sweep(q, p[k - 1])

\* The recursion that defines Passes has a solution.
LEMMA PassesStep ==
  ASSUME NEW q \in Question, NEW B \in SUBSET (1 .. Len(q.items))
  PROVE  PassesRun(Passes(q, B), q, B)
<1> DEFINE n == Len(q.items)
           V == SUBSET (1 .. n)
           f == [k \in 1 .. n |-> [K \in V |-> Sweep(q, K)]]
           Is(p) == p = [k \in 0 .. n |-> IF k = 0 THEN B ELSE Sweep(q, p[k - 1])]
<1>0. n \in Nat /\ B \in V /\ \A k \in 1 .. n : k - 1 \in 0 .. n
  BY RupeesTyped
<1>1. f \in [1 .. n -> [V -> V]]
  <2>1. \A K \in V : Sweep(q, K) \in V
    BY DEF Sweep
  <2> HIDE DEF V, n
  <2> QED BY <2>1
<1>2. PICK p : Iterates(p, n, V, B, f)
  <2> HIDE DEF f, n, V
  <2> QED BY <1>0, <1>1, Iteration
<1>3. \A k \in 1 .. n : p[k] = Sweep(q, p[k - 1])
  <2> TAKE k \in 1 .. n
  <2>1. p[k - 1] \in V
    BY <1>0, <1>2 DEF Iterates
  <2>2. f[k][p[k - 1]] = Sweep(q, p[k - 1])
    <3> HIDE DEF V, n
    <3> QED BY <2>1
  <2> QED BY <1>2, <2>2 DEF Iterates
<1>4. Is(p)
  <2>1. DOMAIN p = 0 .. n /\ p = [k \in 0 .. n |-> p[k]] /\ p[0] = B
    BY <1>2 DEF Iterates
  <2>2. \A k \in 0 .. n : k # 0 => k \in 1 .. n
    BY <1>0
  <2> HIDE DEF n
  <2> QED BY <1>3, <2>1, <2>2
<1>5. Is(Passes(q, B))
  BY <1>4 DEF Passes
<1> DEFINE t == Passes(q, B)
<1>6. t = [k \in 0 .. n |-> IF k = 0 THEN B ELSE Sweep(q, t[k - 1])]
  BY <1>5
<1> HIDE DEF t, n
<1>7. t[0] = B /\ \A k \in 1 .. n : t[k] = Sweep(q, t[k - 1])
  <2>1. 0 \in 0 .. n /\ \A k \in 1 .. n : k \in 0 .. n /\ k # 0
    BY <1>0
  <2> QED BY <1>6, <2>1
<1> QED BY <1>7 DEF t, n, PassesRun

\* A pass that drops nothing is the last that matters.
LEMMA PassesEnd ==
  ASSUME NEW q \in Question, NEW B \in SUBSET (1 .. Len(q.items)),
         NEW n \in 0 .. Len(q.items), Sweep(q, Passes(q, B)[n]) = Passes(q, B)[n]
  PROVE  Survivors(q, B) = Passes(q, B)[n]
<1> DEFINE p == Passes(q, B)
           m == Len(q.items) - n
           T == {k \in 0 .. m : p[n + k] = p[n]}
<1>1. Len(q.items) \in Nat /\ n \in Nat /\ m \in Nat
  BY RupeesTyped
<1>2. \A k \in 1 .. Len(q.items) : p[k] = Sweep(q, p[k - 1])
  BY PassesStep DEF PassesRun
<1> HIDE DEF p
<1>3. 0 \in T
  BY <1>1
<1>4. ASSUME NEW k \in 1 .. m, k - 1 \in T PROVE k \in T
  <2>1. n + k \in 1 .. Len(q.items) /\ (n + k) - 1 = n + (k - 1) /\ k \in 0 .. m
    BY <1>1
  <2>2. p[n + k] = Sweep(q, p[n + (k - 1)])
    BY <1>2, <2>1
  <2>3. p[n + (k - 1)] = p[n]
    BY <1>4
  <2> QED BY <2>1, <2>2, <2>3 DEF p
<1>5. \A k \in 0 .. m : k \in T
  <2> HIDE DEF T, m
  <2> QED BY <1>1, <1>3, <1>4, UpTo, Zenon
<1>6. m \in T /\ n + m = Len(q.items)
  BY <1>1, <1>5
<1> QED BY <1>6 DEF p, Survivors

\* On the full pool the loop of pruning is at one of the Passes, and each has dropped an item;
\* it ends with the Survivors, and a walk is of items the index can see.
PrunedInv ==
    /\ attempt = 0 =>
          IF pc = "pruning"
          THEN \E n \in 0 .. Len(ask.items) :
                  keep = Passes(ask, base)[n] /\ n + Cardinality(keep) <= Len(ask.items)
          ELSE keep = Survivors(ask, base)
    /\ pc \in {"solving", "walking"} => keep # {}
    /\ pc = "walking" => \A i \in keep : Rupees(ask)[i] # 0

LEMMA PrunedInit == Init => PrunedInv
<1> SUFFICES ASSUME Init PROVE PrunedInv
  OBVIOUS
<1>1. ask \in Question
  BY SearchConstants DEF Init
<1>2. Len(ask.items) \in Nat /\ base \in SUBSET (1 .. Len(ask.items))
  BY <1>1, RupeesTyped DEF Init
<1>3. keep = Passes(ask, base)[0]
  BY <1>1, <1>2, PassesStep DEF Init, PassesRun
<1>4. Cardinality(keep) = Len(ask.items)
  BY <1>2, FS_Interval DEF Init
<1>5. 0 \in 0 .. Len(ask.items) /\ 0 + Cardinality(keep) <= Len(ask.items)
  BY <1>2, <1>4
<1> QED BY <1>3, <1>5 DEF Init, PrunedInv

\* The end of the loop.
LEMMA PruningEnds ==
  ASSUME Shape, PrunedInv, pc = "pruning", Sweep(ask, keep) = keep, attempt = 0
  PROVE  keep = Survivors(ask, base)
<1>1. PICK n \in 0 .. Len(ask.items) : keep = Passes(ask, base)[n]
  BY DEF PrunedInv
<1>2. ask \in Question /\ base \in SUBSET (1 .. Len(ask.items))
  BY AskTyped DEF Shape
<1> QED BY <1>1, <1>2, PassesEnd

LEMMA PassKeeps == Shape /\ PrunedInv /\ PrunePass => PrunedInv'
<1> SUFFICES ASSUME Shape, PrunedInv, PrunePass PROVE PrunedInv'
  OBVIOUS
<1>1. /\ pc = "pruning" /\ pc' = pc /\ ask' = ask /\ base' = base /\ attempt' = attempt
      /\ keep' = Sweep(ask, keep) /\ keep' # keep
  BY DEF PrunePass
<1>2. ask \in Question /\ Len(ask.items) \in Nat
      /\ base \in SUBSET (1 .. Len(ask.items)) /\ keep \in SUBSET (1 .. Len(ask.items))
  BY AskTyped DEF Shape
<1>3. SUFFICES ASSUME attempt = 0
               PROVE  \E n \in 0 .. Len(ask.items) :
                         keep' = Passes(ask, base)[n] /\ n + Cardinality(keep') <= Len(ask.items)
  BY <1>1 DEF PrunedInv
<1>4. PICK n \in 0 .. Len(ask.items) :
         keep = Passes(ask, base)[n] /\ n + Cardinality(keep) <= Len(ask.items)
  BY <1>1, <1>3 DEF PrunedInv
<1>5. /\ Cardinality(keep) \in Nat /\ Cardinality(keep') \in Nat
      /\ Cardinality(keep') < Cardinality(keep)
  <2>1. IsFiniteSet(keep)
    <3>1. IsFiniteSet(1 .. Len(ask.items))
      BY <1>2, FS_Interval
    <3> QED BY <1>2, <3>1, FS_Subset
  <2>2. keep' \in SUBSET keep
    BY <1>1 DEF Sweep
  <2>3. /\ IsFiniteSet(keep') /\ Cardinality(keep') <= Cardinality(keep)
        /\ Cardinality(keep) # Cardinality(keep')
    BY <1>1, <2>1, <2>2, FS_Subset
  <2>4. Cardinality(keep) \in Nat /\ Cardinality(keep') \in Nat
    BY <2>1, <2>3, FS_CardinalityType
  <2> QED BY <2>3, <2>4
<1>6. n + 1 \in 1 .. Len(ask.items) /\ (n + 1) - 1 = n
      /\ (n + 1) + Cardinality(keep') <= Len(ask.items)
  BY <1>2, <1>4, <1>5
<1>7. Passes(ask, base)[n + 1] = Sweep(ask, Passes(ask, base)[n])
  BY <1>2, <1>6, PassesStep DEF PassesRun
<1>8. n + 1 \in 0 .. Len(ask.items) /\ keep' = Passes(ask, base)[n + 1]
  BY <1>1, <1>4, <1>6, <1>7
<1> QED BY <1>6, <1>8

LEMMA PrunedStep == Shape /\ PrunedInv /\ [Next]_vars => PrunedInv'
<1> SUFFICES ASSUME Shape, PrunedInv, [Next]_vars PROVE PrunedInv'
  OBVIOUS
<1>1. CASE PrunePass
  BY <1>1, PassKeeps
<1>2. CASE Pruned
  <2>1. /\ ask' = ask /\ base' = base /\ keep' = keep /\ attempt' = attempt
        /\ pc = "pruning" /\ Sweep(ask, keep) = keep
        /\ pc' \in {"done", "splitting", "solving"} /\ (pc' = "solving" => keep # {})
    BY <1>2 DEF Pruned, Return
  <2> QED BY <2>1, PruningEnds DEF PrunedInv
<1>3. CASE Split
  <2>1. attempt' # 0 /\ pc' = "pruning"
    BY <1>3 DEF Split, Shape, TypeOK
  <2> QED BY <2>1 DEF PrunedInv
<1>4. CASE Solve
  <2>1. /\ ask' = ask /\ base' = base /\ keep' = keep /\ attempt' = attempt /\ pc = "solving"
        /\ pc' \in {"done", "splitting", "walking"}
        /\ pc' = "walking" => \A i \in keep : Rupees(ask)[i] # 0
    BY <1>4 DEF Solve, Return
  <2> QED BY <2>1 DEF PrunedInv
<1>5. CASE NextTotal \/ Branch \/ Leaf \/ Overrun \/ Count \/ GiveUp
  <2>1. /\ ask' = ask /\ base' = base /\ keep' = keep /\ attempt' = attempt /\ pc # "pruning"
        /\ pc' \in {pc, "done", "splitting"}
    BY <1>5 DEF NextTotal, Branch, Leaf, Overrun, Count, GiveUp, Return
  <2> QED BY <2>1 DEF PrunedInv
<1>6. CASE UNCHANGED vars
  BY <1>6 DEF vars, PrunedInv
<1> QED BY <1>1, <1>2, <1>3, <1>4, <1>5, <1>6 DEF Next, Step, Stop

\* The three ends of a search of the full pool.
LEMMA MatchNone ==
  ASSUME ask' = ask, base' = base, NEW s,
         answer' = [uniqueness |-> "NONE_FOUND", scope |-> s, members |-> {}],
         Refused(ask, base) \/ Solutions(ask, base) = {}
  PROVE  Match'
<1>1. Conclusion' = [uniqueness |-> "NONE_FOUND", members |-> {}]
  BY DEF Conclusion
<1>2. Verdict(ask, base) = [uniqueness |-> "NONE_FOUND", members |-> {}]
  BY DEF Verdict
<1> QED BY <1>1, <1>2 DEF Match

LEMMA MatchFound ==
  ASSUME Shape, Truth', ask' = ask, base' = base, pc' = "done", ~ Refused(ask, base), NEW s, NEW M,
         \/ answer' = [uniqueness |-> "UNIQUE", scope |-> s, members |-> M]
         \/ answer' = [uniqueness |-> "AMBIGUOUS", scope |-> s, members |-> {}]
  PROVE  Match'
<1> DEFINE sets == Solutions(ask, base)
<1>1. Verdict(ask, base) =
         IF sets = {} THEN [uniqueness |-> "NONE_FOUND", members |-> {}]
         ELSE IF Cardinality(sets) = 1 THEN [uniqueness |-> "UNIQUE", members |-> UNION sets]
         ELSE [uniqueness |-> "AMBIGUOUS", members |-> {}]
  BY DEF Verdict
<1>2. IsFiniteSet(sets)
  <2>1. IsFiniteSet(SUBSET base)
    <3>1. Len(ask.items) \in Nat /\ base \in SUBSET (1 .. Len(ask.items))
      BY AskTyped DEF Shape
    <3>2. IsFiniteSet(1 .. Len(ask.items))
      BY <3>1, FS_Interval
    <3>3. IsFiniteSet(base)
      BY <3>1, <3>2, FS_Subset
    <3> QED BY <3>3, FS_SUBSET
  <2>2. sets \in SUBSET SUBSET base
    BY DEF Solutions
  <2> HIDE DEF sets
  <2> QED BY <2>1, <2>2, FS_Subset
<1>3. /\ answer'.uniqueness = "UNIQUE" => sets = {answer'.members}
      /\ answer'.uniqueness = "AMBIGUOUS" => \E S, T \in sets : S # T
  BY DEF Truth
<1> HIDE DEF sets
<1>4. CASE answer' = [uniqueness |-> "UNIQUE", scope |-> s, members |-> M]
  <2>1. sets = {M} /\ Cardinality({M}) = 1 /\ UNION {M} = M
    BY <1>3, <1>4, FS_Singleton
  <2>2. Conclusion' = [uniqueness |-> "UNIQUE", members |-> M]
    BY <1>4 DEF Conclusion
  <2> QED BY <1>1, <2>1, <2>2 DEF Match
<1>5. CASE answer' = [uniqueness |-> "AMBIGUOUS", scope |-> s, members |-> {}]
  <2>1. PICK S \in sets, T \in sets : S # T
    BY <1>3, <1>5
  <2>2. Cardinality(sets) # 1
    BY <1>2, <2>1, FS_Singleton
  <2>3. Conclusion' = [uniqueness |-> "AMBIGUOUS", members |-> {}]
    BY <1>5 DEF Conclusion
  <2> QED BY <1>1, <2>1, <2>2, <2>3 DEF Match
<1> QED BY <1>4, <1>5

LEMMA MatchCount ==
  ASSUME Shape, SolutionsKept, WalkIsExact, PrunedInv, Truth', Count, pc' = "done", attempt = 0
  PROVE  Match'
<1>1. Walk /\ ask' = ask /\ base' = base /\ pc = "walking"
  BY WalkMeans DEF Count
<1>2. ~ Refused(ask, base)
  BY <1>1 DEF PrunedInv, Refused
<1>3. CASE solutions = {} /\ Return("NONE_FOUND")
  <2>1. ~ Capped
    <3>1. ask.cfg.enumerateCap \in Nat /\ ask.cfg.enumerateCap >= 2
      BY AskTyped DEF Shape
    <3>2. found = 0
      BY <1>1, <1>3, FS_EmptySet DEF Walk
    <3> QED BY <3>1, <3>2 DEF Capped
  <2>2. stack = << >> /\ totals = {}
    BY <2>1 DEF Count
  <2>3. Ahead = {}
    BY <2>2, CoverSmall DEF Ahead, WithTotal
  <2>4. Solutions(ask, base) = {}
    BY <1>1, <1>3, <2>3, SameSolutions DEF Walk, Admitted
  <2> QED BY <1>1, <1>3, <2>4, ReturnCases, MatchNone
<1>4. CASE \E S \in solutions :
              /\ solutions = {S}
              /\ answer' = [uniqueness |-> "UNIQUE", scope |-> Scope, members |-> S]
  BY <1>1, <1>2, <1>4, MatchFound
<1>5. CASE Return("AMBIGUOUS")
  BY <1>1, <1>2, <1>5, ReturnCases, MatchFound
<1> QED BY <1>3, <1>4, <1>5 DEF Count

LEMMA MatchStep ==
  Shape /\ SolutionsKept /\ WalkIsExact /\ PrunedInv /\ Match /\ Truth' /\ [Next]_vars => Match'
<1> SUFFICES ASSUME Shape, SolutionsKept, WalkIsExact, PrunedInv, Match, Truth', [Next]_vars,
                    pc' = "done", answer'.scope = "FULL", answer'.uniqueness # "BUDGET_EXCEEDED"
             PROVE  Match'
  BY DEF Match
<1>1. CASE Pruned
  <2>1. ask' = ask /\ base' = base /\ pc = "pruning" /\ Sweep(ask, keep) = keep
    BY <1>1 DEF Pruned
  <2>2. keep = {} /\ attempt = 0
        /\ answer' = [uniqueness |-> "NONE_FOUND", scope |-> Scope, members |-> {}]
    BY <1>1, ReturnCases DEF Pruned
  <2>3. Refused(ask, base)
    BY <2>1, <2>2, PruningEnds DEF Refused
  <2> QED BY <2>1, <2>2, <2>3, MatchNone
<1>2. CASE Solve
  <2>1. ask' = ask /\ base' = base /\ pc = "solving"
    BY <1>2 DEF Solve
  <2>2. /\ attempt = 0
        /\ answer' = [uniqueness |-> "NONE_FOUND", scope |-> Scope, members |-> {}]
        /\ (\E i \in keep : Rupees(ask)[i] = 0) \/ Hits(ask, keep) = {}
    BY <1>2, ReturnCases DEF Solve
  <2>3. (\E i \in keep : Rupees(ask)[i] = 0) => Refused(ask, base)
    BY <2>1, <2>2 DEF PrunedInv, Refused
  <2>4. Hits(ask, keep) = {} => Solutions(ask, base) = {}
    BY HitsAreTotals, SameSolutions DEF Solutions
  <2> QED BY <2>1, <2>2, <2>3, <2>4, MatchNone
<1>3. CASE Count
  <2>1. attempt = 0
    <3>1. answer'.scope = Scope
      BY <1>3, ReturnCases DEF Count
    <3> QED BY <3>1 DEF Scope
  <2> QED BY <1>3, <2>1, MatchCount
<1>4. CASE Overrun
  <2>1. answer'.uniqueness = "BUDGET_EXCEEDED"
    BY <1>4, ReturnCases DEF Overrun
  <2> QED BY <2>1
<1>5. CASE GiveUp
  <2>1. answer'.uniqueness = "BUDGET_EXCEEDED"
    BY <1>5 DEF GiveUp
  <2> QED BY <2>1
<1>6. CASE UNCHANGED vars
  BY <1>6 DEF vars, Match, Conclusion
<1>7. CASE PrunePass \/ Split \/ NextTotal \/ Branch \/ Leaf
  BY <1>7 DEF PrunePass, Split, NextTotal, Branch, Leaf
<1> QED BY <1>1, <1>2, <1>3, <1>4, <1>5, <1>6, <1>7 DEF Next, Step, Stop

-----------------------------------------------------------------------------
(***************************************************************************)
(* The grid of rupees                                                      *)
(***************************************************************************)

\* A hundred times its rupees is at most 50 paise away from an amount.
LEMMA RupeeNear ==
  ASSUME NEW p \in Int
  PROVE  /\ ToRupees(p) \in Int
         /\ 100 * ToRupees(p) - p <= 50
         /\ 100 * ToRupees(p) - p >= -49
         /\ IsWholeRupee(p) => 100 * ToRupees(p) = p
<1>1. PaisePerRupee = 100 /\ 100 \div 2 = 50
  BY DEF PaisePerRupee
<1>2. ToRupees(p) = (p + 50) \div 100
  BY <1>1 DEF ToRupees
<1>3. IsWholeRupee(p) <=> p % 100 = 0
  BY <1>1 DEF IsWholeRupee
<1> QED BY <1>2, <1>3

\* The members of S that are not whole rupees.
Odd(a, S) == {i \in S : ~ IsWholeRupee(a[i])}
OddUpTo(a, S, k) == {i \in Odd(a, S) : i <= k}

\* Membership in Odd and OddUpTo.
LEMMA OddMembers ==
  ASSUME NEW a, NEW S, NEW k
  PROVE  /\ \A i : i \in Odd(a, S) <=> i \in S /\ ~ IsWholeRupee(a[i])
         /\ \A i : i \in OddUpTo(a, S, k) <=> i \in Odd(a, S) /\ i <= k
BY DEF Odd, OddUpTo

\* The distance between a hundred times the rupees u and the paise v of k odd members.
Near(u, v, k) == 100 * u - v <= 50 * k /\ 100 * u - v >= -50 * k

\* From near to the rounding bound.
LEMMA NearBound ==
  ASSUME NEW u \in Int, NEW v \in Int, NEW k \in Nat, NEW r \in Int, Near(u, v, k),
         100 * r - v <= 50, 100 * r - v >= -49
  PROVE  RoundingBound(k) \in Int /\ u - r <= RoundingBound(k) /\ u - r >= -RoundingBound(k)
<1> DEFINE b == (k + 1) \div 2
<1>1. b \in Int /\ 2 * b <= k + 1 /\ k <= 2 * b
  OBVIOUS
<1>2. 100 * (u - r) <= 50 * k + 49 /\ 100 * (u - r) >= -50 * k - 50
  BY DEF Near
<1>3. RoundingBound(k) = b
  BY DEF RoundingBound
<1> HIDE DEF b
<1> QED BY <1>1, <1>2, <1>3

\* The rupees of a set are near the rupees of its sum.
LEMMA Rounding ==
  ASSUME NEW a \in Seq(Int), NEW w \in Seq(Int), Len(w) = Len(a),
         \A k \in 1 .. Len(a) : w[k] = ToRupees(a[k]),
         NEW S \in SUBSET (1 .. Len(a))
  PROVE  LET off == Sum(w, S) - ToRupees(Sum(a, S))
             bound == RoundingBound(Cardinality(Odd(a, S)))
         IN  bound \in Int /\ off <= bound /\ off >= -bound
<1> DEFINE n == Len(a)
           A == Sums(a, S)
           W == Sums(w, S)
           m(k) == Cardinality(OddUpTo(a, S, k))
           T == {k \in 0 .. n : Near(W[k], A[k], m(k))}
<1>0. n \in Nat /\ n \in 0 .. n /\ S \subseteq 1 .. n
  OBVIOUS
<1>1. /\ A \in [0 .. n -> Int] /\ W \in [0 .. n -> Int]
      /\ A[0] = 0 /\ W[0] = 0
      /\ \A k \in 1 .. n : /\ A[k] = A[k - 1] + (IF k \in S THEN a[k] ELSE 0)
                           /\ W[k] = W[k - 1] + (IF k \in S THEN w[k] ELSE 0)
  BY SumsStep
<1>2. \A k \in 1 .. n : a[k] \in Int /\ w[k] = ToRupees(a[k])
  OBVIOUS
<1>3. \A k : IsFiniteSet(OddUpTo(a, S, k)) /\ m(k) \in Nat
  <2>1. TAKE k
  <2>2. IsFiniteSet(1 .. n) /\ OddUpTo(a, S, k) \in SUBSET (1 .. n)
    <3>1. OddUpTo(a, S, k) \subseteq S
      BY OddMembers
    <3>2. IsFiniteSet(1 .. n)
      <4> HIDE DEF n
      <4> QED BY <1>0, FS_Interval
    <3> QED BY <1>0, <3>1, <3>2
  <2>3. IsFiniteSet(OddUpTo(a, S, k))
    BY <2>2, FS_Subset
  <2> QED BY <2>3, FS_CardinalityType
<1> HIDE DEF n, A, W
<1>4. 0 \in T
  <2>1. m(0) = 0
    <3>1. ASSUME NEW i \in OddUpTo(a, S, 0) PROVE FALSE
      <4>1. i \in S /\ i <= 0
        BY OddMembers
      <4> QED BY <1>0, <4>1
    <3> QED BY <3>1, FS_EmptySet
  <2> HIDE DEF m
  <2> QED BY <1>0, <1>1, <2>1 DEF Near
<1>5. ASSUME NEW k \in 1 .. n, k - 1 \in T PROVE k \in T
  <2> DEFINE O == OddUpTo(a, S, k - 1)
  <2>0. k - 1 \in 0 .. n /\ k \in 0 .. n /\ A[k - 1] \in Int /\ W[k - 1] \in Int
    BY <1>0, <1>1
  <2>1. IsFiniteSet(O) /\ k \notin O
    BY <1>0, <1>3, OddMembers
  <2>2. m(k) \in Nat /\ m(k - 1) \in Nat
    BY <1>3
  <2>3. \A i \in Odd(a, S) : i <= k <=> i <= k - 1 \/ i = k
    <3>1. TAKE i \in Odd(a, S)
    <3>2. i \in 1 .. n
      BY <1>0, OddMembers
    <3> QED BY <1>0, <3>2
  <2>4. k <= k
    BY <1>0
  <2>5. CASE k \in Odd(a, S)
    <3>1. OddUpTo(a, S, k) = O \cup {k}
      <4>1. ASSUME NEW i PROVE i \in OddUpTo(a, S, k) <=> i \in O \/ i = k
        BY <2>5, <2>3, <2>4, OddMembers, ZenonT(60)
      <4> QED BY <4>1
    <3>2. m(k) = m(k - 1) + 1
      BY <2>1, <3>1, FS_AddElement
    <3>3. k \in S
      BY <2>5, OddMembers
    <3>4. /\ 100 * w[k] - a[k] <= 50 /\ 100 * w[k] - a[k] >= -49
          /\ w[k] \in Int /\ a[k] \in Int
      BY <1>2, RupeeNear
    <3> HIDE DEF m
    <3>5. A[k] = A[k - 1] + a[k] /\ W[k] = W[k - 1] + w[k]
      BY <1>1, <3>3
    <3>6. Near(W[k - 1], A[k - 1], m(k - 1))
      BY <1>5
    <3>7. Near(W[k - 1] + w[k], A[k - 1] + a[k], m(k - 1) + 1)
      <4> DEFINE u == W[k - 1]
                 v == A[k - 1]
                 x == w[k]
                 y == a[k]
                 j == m(k - 1)
      <4>1. /\ u \in Int /\ v \in Int /\ x \in Int /\ y \in Int /\ j \in Int
            /\ 100 * x - y <= 50 /\ 100 * x - y >= -49 /\ Near(u, v, j)
        BY <2>0, <2>2, <3>4, <3>6
      <4> HIDE DEF u, v, x, y, j
      <4>2. Near(u + x, v + y, j + 1)
        BY <4>1 DEF Near
      <4> QED BY <4>2 DEF u, v, x, y, j
    <3>8. Near(W[k], A[k], m(k))
      BY <3>2, <3>5, <3>7
    <3> QED BY <2>0, <3>8
  <2>6. CASE k \notin Odd(a, S)
    <3>1. OddUpTo(a, S, k) = O
      <4>1. ASSUME NEW i PROVE i \in OddUpTo(a, S, k) <=> i \in O
        BY <2>6, <2>3, OddMembers
      <4> QED BY <4>1
    <3>2. m(k) = m(k - 1)
      BY <3>1
    <3>3. k \in S => IsWholeRupee(a[k])
      BY <2>6, OddMembers
    <3>4. /\ k \in S => 100 * w[k] = a[k]
          /\ w[k] \in Int /\ a[k] \in Int
      BY <1>2, <3>3, RupeeNear
    <3> HIDE DEF m
    <3>5. /\ k \in S => A[k] = A[k - 1] + a[k] /\ W[k] = W[k - 1] + w[k]
          /\ k \notin S => A[k] = A[k - 1] /\ W[k] = W[k - 1]
      BY <1>1, <2>0
    <3>6. Near(W[k - 1], A[k - 1], m(k - 1))
      BY <1>5
    <3>7. CASE k \in S
      <4>1. Near(W[k - 1] + w[k], A[k - 1] + a[k], m(k - 1))
        <5> DEFINE u == W[k - 1]
                   v == A[k - 1]
                   x == w[k]
                   y == a[k]
                   j == m(k - 1)
        <5>1. /\ u \in Int /\ v \in Int /\ x \in Int /\ y \in Int /\ j \in Int
              /\ 100 * x = y /\ Near(u, v, j)
          BY <2>0, <2>2, <3>4, <3>6, <3>7
        <5> HIDE DEF u, v, x, y, j
        <5>2. Near(u + x, v + y, j)
          BY <5>1 DEF Near
        <5> QED BY <5>2 DEF u, v, x, y, j
      <4>2. Near(W[k], A[k], m(k))
        BY <3>2, <3>5, <3>7, <4>1
      <4> QED BY <2>0, <4>2
    <3>8. CASE k \notin S
      BY <2>0, <3>2, <3>5, <3>6, <3>8
    <3> QED BY <3>7, <3>8
  <2> QED BY <2>5, <2>6
<1>6. n \in T
  <2>1. \A k \in 0 .. n : k \in T
    <3> HIDE DEF T
    <3> QED BY <1>0, <1>4, <1>5, UpTo, Zenon
  <2> QED BY <1>0, <2>1
<1>7. OddUpTo(a, S, n) = Odd(a, S)
  <2>1. ASSUME NEW i PROVE i \in OddUpTo(a, S, n) <=> i \in Odd(a, S)
    <3>1. i \in S => i <= n
      BY <1>0
    <3> QED BY <3>1, OddMembers
  <2> QED BY <2>1
<1> DEFINE c == Cardinality(Odd(a, S))
<1>8. c \in Nat /\ A[n] \in Int /\ W[n] \in Int /\ Near(W[n], A[n], c)
  <2>1. m(n) = c
    BY <1>7
  <2>2. m(n) \in Nat
    BY <1>3
  <2> HIDE DEF m, c
  <2> QED BY <1>0, <1>1, <1>6, <2>1, <2>2
<1>9. Sum(a, S) = A[n] /\ Sum(w, S) = W[n]
  BY DEF Sum, A, W, n
<1>10. /\ ToRupees(A[n]) \in Int
       /\ 100 * ToRupees(A[n]) - A[n] <= 50 /\ 100 * ToRupees(A[n]) - A[n] >= -49
  BY <1>8, RupeeNear
<1>11. /\ RoundingBound(c) \in Int
       /\ W[n] - ToRupees(A[n]) <= RoundingBound(c)
       /\ W[n] - ToRupees(A[n]) >= -RoundingBound(c)
  <2> HIDE DEF c
  <2> QED BY <1>8, <1>10, NearBound
<1> QED BY <1>9, <1>11

\* What VerdictIsTrue says of the solutions, the rounding bound says of the sets that are
\* exact to the paisa.
LEMMA ExactFromVerdict == Shape /\ Truth => ExactIsFound
<1> SUFFICES ASSUME Shape, Truth, pc = "done", ~ ZeroRupees,
                    NEW S \in SUBSET (1 .. Len(ask.items)), S # {},
                    Sum(Paise(ask), S) = ask.target,
                    RoundingBound(Cardinality(
                       {i \in S : ~ IsWholeRupee(ask.items[i].paise)})) <= ask.cfg.epsilon
             PROVE  /\ answer.uniqueness # "NONE_FOUND"
                    /\ answer.uniqueness = "UNIQUE" /\ answer.scope = "FULL" =>
                          answer.members = S
  BY Zenon DEF ExactIsFound
<1> DEFINE a == Paise(ask)
           w == Rupees(ask)
<1>1. ask \in Question /\ Len(ask.items) \in Nat
  BY AskTyped DEF Shape
<1>2. /\ w \in Seq(Int) /\ Len(w) = Len(ask.items)
      /\ ToRupees(ask.target) \in Int /\ ask.cfg.epsilon \in Nat
  BY <1>1, RupeesTyped
<1>3. \A i \in 1 .. Len(ask.items) : ask.items[i].paise \in Int
  <2>1. ask.items \in Seq(Item)
    BY <1>1 DEF Question
  <2>2. \A i \in 1 .. Len(ask.items) : ask.items[i] \in Item
    BY <2>1
  <2> QED BY <2>2 DEF Item
<1>4. a \in Seq(Int) /\ Len(a) = Len(ask.items)
  <2>1. a \in [1 .. Len(ask.items) -> Int]
    BY <1>3 DEF Paise
  <2>2. a \in Seq(Int)
    BY <1>1, <2>1
  <2> QED BY <1>1, <2>1, <2>2 DEF Paise
<1>5. \A k \in 1 .. Len(a) : a[k] = ask.items[k].paise /\ w[k] = ToRupees(a[k])
  BY <1>4 DEF Paise, Rupees
<1>6. Odd(a, S) = {i \in S : ~ IsWholeRupee(ask.items[i].paise)}
  BY <1>4, <1>5 DEF Odd
<1> HIDE DEF a, w
<1> DEFINE off == Sum(w, S) - ToRupees(ask.target)
           bound == RoundingBound(Cardinality(Odd(a, S)))
<1>7. bound \in Int /\ off <= bound /\ off >= -bound
  <2>1. Sum(a, S) = ask.target
    BY DEF a
  <2>2. Len(w) = Len(a) /\ S \in SUBSET (1 .. Len(a))
    BY <1>2, <1>4
  <2> QED BY <1>2, <1>4, <1>5, <2>1, <2>2, Rounding
<1>8. bound <= ask.cfg.epsilon
  BY <1>6
<1>9. Sum(w, S) \in Int
  BY <1>2, SumTyped
<1>10. InWindow(ask, Sum(w, S))
  <2> HIDE DEF bound
  <2> QED BY <1>2, <1>7, <1>8, <1>9 DEF InWindow
<1>11. S \in Solutions(ask, 1 .. Len(ask.items))
  BY <1>10 DEF Solutions, w
<1>12. answer.uniqueness # "NONE_FOUND"
  BY <1>11 DEF Truth
<1>13. ASSUME answer.uniqueness = "UNIQUE", answer.scope = "FULL" PROVE answer.members = S
  BY <1>11, <1>13 DEF Truth
<1> QED BY <1>12, <1>13

-----------------------------------------------------------------------------
(***************************************************************************)
(* The call comes to an end                                                *)
(***************************************************************************)

\* What is left: sub-windows, phases of the current one, and the passes and nodes of a phase.
Phase == IF pc = "pruning" THEN 4 ELSE IF pc = "solving" THEN 3 ELSE IF pc = "walking" THEN 2
         ELSE IF pc = "splitting" THEN 1 ELSE 0
Windows == ask.cfg.maxAttempts - attempt
Waiting == IF stack = << >> THEN 1 ELSE 0
Work == IF pc = "pruning" THEN Cardinality(keep)
        ELSE IF pc = "walking" THEN 2 * (ask.cfg.maxNodes - nodes) + Waiting ELSE 0
Span == Len(ask.items) + 2 * ask.cfg.maxNodes + 2
ToGo == (5 * Windows + Phase) * Span + Work

\* The bounds of the loops.
Bounded == attempt <= ask.cfg.maxAttempts /\ nodes <= ask.cfg.maxNodes

LEMMA Limits ==
  ASSUME Shape
  PROVE  /\ ask.cfg.maxAttempts \in Nat /\ ask.cfg.maxNodes \in Nat /\ Len(ask.items) \in Nat
         /\ attempt \in Nat /\ nodes \in Nat
         /\ IsFiniteSet(keep) /\ Cardinality(keep) \in 0 .. Len(ask.items)
<1>1. ask \in Question /\ Len(ask.items) \in Nat /\ keep \in SUBSET (1 .. Len(ask.items))
  BY AskTyped DEF Shape
<1>2. ask.cfg \in Config
  BY <1>1 DEF Question
<1>3. ask.cfg.maxAttempts \in Nat /\ ask.cfg.maxNodes \in Nat
  BY <1>2 DEF Config
<1>4. IsFiniteSet(1 .. Len(ask.items)) /\ Cardinality(1 .. Len(ask.items)) = Len(ask.items)
  BY <1>1, FS_Interval, SMTT(20)
<1>5. /\ IsFiniteSet(keep) /\ Cardinality(keep) <= Len(ask.items)
  BY <1>1, <1>4, FS_Subset
<1>6. Cardinality(keep) \in Nat
  BY <1>5, FS_CardinalityType
<1> QED BY <1>1, <1>3, <1>5, <1>6 DEF Shape, TypeOK

LEMMA BoundedInit == Init => Bounded
BY ShapeInit, Limits DEF Init, Bounded

LEMMA BoundedStep == Shape /\ Bounded /\ [Next]_vars => Bounded'
<1> SUFFICES ASSUME Shape, Bounded, [Next]_vars PROVE Bounded'
  OBVIOUS
<1>0. /\ attempt \in Nat /\ nodes \in Nat
      /\ ask.cfg.maxAttempts \in Nat /\ ask.cfg.maxNodes \in Nat
  BY Limits
<1>1. CASE Split
  BY <1>0, <1>1 DEF Split, Bounded
<1>2. CASE Branch \/ Leaf
  <2>1. ask' = ask /\ attempt' = attempt /\ nodes' = nodes + 1 /\ nodes < ask.cfg.maxNodes
    BY <1>2 DEF Branch, Leaf
  <2> QED BY <1>0, <2>1 DEF Bounded
<1>3. CASE PrunePass \/ Pruned \/ GiveUp \/ Solve \/ NextTotal \/ Overrun \/ Count \/ UNCHANGED vars
  BY <1>3 DEF PrunePass, Pruned, GiveUp, Solve, NextTotal, Overrun, Count, vars, search, Bounded
<1> QED BY <1>1, <1>2, <1>3 DEF Next, Step, Stop

\* ToGo is a number of the base Span, Work its last digit.
Digits == /\ Windows \in 0 .. ask.cfg.maxAttempts /\ Phase \in 0 .. 4
          /\ Work \in 0 .. Span - 1 /\ Span \in Nat /\ ask.cfg.maxAttempts \in Nat

LEMMA DigitsHold == Shape /\ Bounded => Digits
<1> SUFFICES ASSUME Shape, Bounded PROVE Digits
  OBVIOUS
<1> DEFINE max == ask.cfg.maxNodes
           len == Len(ask.items)
<1>1. /\ ask.cfg.maxAttempts \in Nat /\ max \in Nat /\ len \in Nat
      /\ attempt \in Nat /\ nodes \in Nat /\ Cardinality(keep) \in 0 .. len
  BY Limits
<1>2. attempt <= ask.cfg.maxAttempts /\ nodes <= max
  BY DEF Bounded
<1>3. Waiting \in 0 .. 1
  BY DEF Waiting
<1>4. Span = len + 2 * max + 2
  BY DEF Span
<1>5. Work = Cardinality(keep) \/ Work = 2 * (max - nodes) + Waiting \/ Work = 0
  BY DEF Work
<1> HIDE DEF max, len
<1>6. Span \in Nat /\ Work \in 0 .. Span - 1
  BY <1>1, <1>2, <1>3, <1>4, <1>5
<1>7. Windows \in 0 .. ask.cfg.maxAttempts
  BY <1>1, <1>2 DEF Windows
<1>8. Phase \in 0 .. 4
  BY DEF Phase
<1> QED BY <1>1, <1>6, <1>7, <1>8 DEF Digits

\* A higher digit outweighs the lower one.
LEMMA Weight ==
  ASSUME NEW h \in Nat, NEW k \in Nat, NEW span \in Nat, NEW x, NEW y,
         x \in 0 .. span - 1, y \in 0 .. span - 1,
         h < k \/ (h = k /\ x < y)
  PROVE  h * span + x \in Nat /\ h * span + x < k * span + y
<1>1. h * span \in Nat /\ k * span \in Nat
  OBVIOUS
<1>2. CASE h < k
  <2> DEFINE d == k - h - 1
  <2>1. d \in Nat /\ k = h + 1 + d
    BY <1>2
  <2>2. d * span \in Nat
    BY <2>1
  <2>3. k * span = h * span + span + d * span
    BY <2>1
  <2> QED BY <1>1, <2>2, <2>3
<1>3. CASE h = k /\ x < y
  BY <1>1, <1>3
<1> QED BY <1>2, <1>3

LEMMA Digit ==
  ASSUME NEW v \in Nat, NEW w \in Nat, NEW a \in 0 .. 4, NEW b \in 0 .. 4
  PROVE  /\ 5 * w + a \in Nat
         /\ v = w - 1 \/ (v = w /\ b < a) => 5 * v + b < 5 * w + a
OBVIOUS

\* Every step takes something away from what is left.
LEMMA StepDescends ==
  Shape /\ Digits /\ Digits' /\ Step => ToGo' < ToGo
<1> SUFFICES ASSUME Shape, Digits, Digits', Step PROVE ToGo' < ToGo
  OBVIOUS
<1>1. Span' = Span
  BY DEF Step, PrunePass, Pruned, Split, GiveUp, Solve, NextTotal, Branch, Leaf, Overrun, Count,
         Span
<1>2. /\ Windows \in Nat /\ Phase \in 0 .. 4 /\ Work \in 0 .. Span - 1 /\ Span \in Nat
  BY DEF Digits
<1>3. /\ Windows' \in Nat /\ Phase' \in 0 .. 4 /\ Work' \in 0 .. Span - 1
  <2>1. /\ Windows' \in 0 .. ask'.cfg.maxAttempts /\ ask'.cfg.maxAttempts \in Nat
        /\ Phase' \in 0 .. 4 /\ Work' \in 0 .. Span' - 1
    BY DEF Digits
  <2> QED BY <1>1, <2>1
<1> DEFINE high == 5 * Windows + Phase
           low == 5 * Windows' + Phase'
<1>4. high \in Nat /\ low \in Nat
  BY <1>2, <1>3, Digit
<1>5. low < high \/ (low = high /\ Work' < Work)
  <2>0. nodes \in Nat /\ ask.cfg.maxNodes \in Nat /\ attempt \in Nat
        /\ ask.cfg.maxAttempts \in Nat
    BY Limits
  <2>1. CASE Windows' = Windows - 1
    BY <1>2, <1>3, <2>1, Digit
  <2>2. CASE Windows' = Windows /\ Phase' < Phase
    BY <1>2, <1>3, <2>2, Digit
  <2>3. CASE Windows' = Windows /\ Phase' = Phase /\ Work' < Work
    BY <2>3
  <2>4. CASE Split
    <3>1. Windows' = Windows - 1
      BY <2>0, <2>4 DEF Split, Windows
    <3> QED BY <2>1, <3>1
  <2>5. CASE PrunePass
    <3>1. keep' \in SUBSET keep /\ keep' # keep
      BY <2>5 DEF PrunePass, Sweep
    <3>2. Cardinality(keep') <= Cardinality(keep) /\ Cardinality(keep') # Cardinality(keep)
      BY <3>1, Limits, FS_Subset
    <3>3. Cardinality(keep) \in Nat /\ Cardinality(keep') \in Nat
      BY <3>1, Limits, FS_Subset, FS_CardinalityType
    <3>4. Work = Cardinality(keep) /\ Work' = Cardinality(keep')
      BY <2>5 DEF PrunePass, Work
    <3>5. Windows' = Windows /\ Phase' = Phase
      BY <2>5 DEF PrunePass, Windows, Phase
    <3> QED BY <2>3, <3>2, <3>3, <3>4, <3>5
  <2>6. CASE NextTotal
    <3>1. Waiting = 1 /\ Waiting' = 0
      BY <2>6 DEF NextTotal, Waiting
    <3>2. Work = 2 * (ask.cfg.maxNodes - nodes) + Waiting
          /\ Work' = 2 * (ask.cfg.maxNodes - nodes) + Waiting'
      BY <2>6 DEF NextTotal, Work
    <3>3. Windows' = Windows /\ Phase' = Phase
      BY <2>6 DEF NextTotal, Windows, Phase
    <3>4. Work' < Work
      BY <2>0, <3>1, <3>2
    <3> QED BY <2>3, <3>3, <3>4
  <2>7. CASE Branch \/ Leaf
    <3>0. Waiting' = 1 \/ Waiting' = 0
      BY DEF Waiting
    <3>1. Waiting = 0
      BY <2>7 DEF Branch, Leaf, Waiting
    <3>2. Work = 2 * (ask.cfg.maxNodes - nodes) + Waiting
          /\ Work' = 2 * (ask.cfg.maxNodes - (nodes + 1)) + Waiting'
      BY <2>7 DEF Branch, Leaf, Work
    <3>3. Windows' = Windows /\ Phase' = Phase
      BY <2>7 DEF Branch, Leaf, Windows, Phase
    <3>4. Work' < Work
      BY <2>0, <3>0, <3>1, <3>2
    <3> QED BY <2>3, <3>3, <3>4
  <2>8. CASE Pruned \/ GiveUp \/ Solve \/ Overrun \/ Count
    <3>1. Windows' = Windows
      BY <2>8 DEF Pruned, GiveUp, Solve, Overrun, Count, Windows
    <3>2. Phase' < Phase
      BY <2>8 DEF Pruned, GiveUp, Solve, Overrun, Count, Return, Phase
    <3> QED BY <2>2, <3>1, <3>2
  <2> QED BY <2>4, <2>5, <2>6, <2>7, <2>8 DEF Step
<1> HIDE DEF high, low
<1>6. low * Span + Work' < high * Span + Work
  BY <1>2, <1>3, <1>4, <1>5, Weight
<1>7. ToGo = high * Span + Work
  BY DEF ToGo, high
<1>8. ToGo' = low * Span + Work'
  BY <1>1 DEF ToGo, low
<1> QED BY <1>6, <1>7, <1>8

-----------------------------------------------------------------------------
(***************************************************************************)
(* Theorems                                                                *)
(***************************************************************************)

\* The call keeps its variables in their types.
THEOREM Typed == Spec => []TypeOK
<1>1. Init => Shape
  BY ShapeInit
<1>2. Shape /\ [Next]_vars => Shape'
  BY ShapeStep
<1>3. Shape => TypeOK
  BY DEF Shape
<1> QED BY <1>1, <1>2, <1>3, PTL DEF Spec

\* No pass of pruning drops an item of a set whose sum is in the window, for every pool.
THEOREM PruningKeeps == Spec => []SolutionsKept
<1>1. Init => Shape /\ SolutionsKept
  BY ShapeInit, KeptInit
<1>2. Shape /\ SolutionsKept /\ [Next]_vars => Shape' /\ SolutionsKept'
  BY ShapeStep, KeptStep
<1> QED BY <1>1, <1>2, PTL DEF Spec

\* The walk lists every solution and none twice, for every pool, cap and node budget.
THEOREM WalkListsEachOnce == Spec => []WalkIsExact
<1>1. Init => Shape /\ WalkIsExact
  BY ShapeInit, WalkInit
<1>2. Shape /\ WalkIsExact /\ [Next]_vars => Shape' /\ WalkIsExact'
  BY ShapeStep, WalkStep
<1> QED BY <1>1, <1>2, PTL DEF Spec

\* What solve_search answers is what brute force over the unpruned pool would, for every
\* pool, credit and configuration.
THEOREM VerdictHolds == Spec => []VerdictIsTrue
<1> DEFINE IInv == Shape /\ SolutionsKept /\ WalkIsExact /\ PrunedInv /\ Truth /\ Match
<1>1. Init => IInv
  <2>1. Init => Match
    BY DEF Init, Match
  <2> QED BY <2>1, ShapeInit, KeptInit, WalkInit, PrunedInit, TruthInit
<1>2. IInv /\ [Next]_vars => IInv'
  BY ShapeStep, KeptStep, WalkStep, PrunedStep, TruthStep, MatchStep
<1>3. IInv => VerdictIsTrue
  BY VerdictMeans
<1> QED BY <1>1, <1>2, <1>3, PTL DEF Spec

\* A set that explains the credit to the paisa is not lost on the grid of rupees.
THEOREM ExactSetIsFound == Spec => []ExactIsFound
<1>1. Spec => []Shape
  BY ShapeInit, ShapeStep, PTL DEF Spec
<1>2. VerdictIsTrue => Truth
  BY VerdictMeans
<1>3. Shape /\ Truth => ExactIsFound
  BY ExactFromVerdict
<1> QED BY <1>1, <1>2, <1>3, VerdictHolds, PTL

\* solve_search ends: each of its steps, in whatever order the walk makes them, takes from a
\* number that starts no higher than the sub-windows, items and nodes of the configuration
\* allow.  No cap, budget or sub-window is entered twice (max_enum_nodes, max_attempts).
THEOREM SearchDescends ==
  Spec => /\ [](ToGo \in 0 .. (5 * ask.cfg.maxAttempts + 5) * Span)
          /\ [][Step => ToGo' < ToGo]_vars
<1> DEFINE Limit == ToGo \in 0 .. (5 * ask.cfg.maxAttempts + 5) * Span
           Descent == Step => ToGo' < ToGo
<1>1. Init => Shape /\ Bounded
  BY ShapeInit, BoundedInit
<1>2. Shape /\ Bounded /\ [Next]_vars => Shape' /\ Bounded'
  BY ShapeStep, BoundedStep
<1>3. Shape /\ Bounded => Limit
  <2> SUFFICES ASSUME Shape, Bounded PROVE Limit
    OBVIOUS
  <2> DEFINE max == ask.cfg.maxAttempts
             digit == 5 * Windows + Phase
  <2>1. max \in Nat /\ Windows \in 0 .. max /\ Phase \in 0 .. 4
    BY DigitsHold DEF Digits
  <2>2. Work \in 0 .. Span - 1 /\ Span \in Nat
    BY DigitsHold DEF Digits
  <2> HIDE DEF max
  <2>3. digit \in Nat /\ 5 * max + 5 \in Nat /\ digit < 5 * max + 5
    BY <2>1
  <2>4. 0 \in 0 .. Span - 1
    BY <2>2
  <2> DEFINE top == 5 * max + 5
  <2> HIDE DEF digit, top
  <2>5. digit * Span + Work \in Nat /\ digit * Span + Work < top * Span + 0
    BY <2>2, <2>3, <2>4, Weight DEF top
  <2>6. top * Span \in Nat
    BY <2>2, <2>3 DEF top
  <2>7. ToGo \in 0 .. top * Span
    BY <2>5, <2>6 DEF ToGo, digit
  <2> QED BY <2>7 DEF top, max
<1>4. Shape /\ Digits /\ Digits' => [Descent]_vars
  BY StepDescends
<1>6. Shape /\ Bounded => Digits
  BY DigitsHold
<1> HIDE DEF Limit, Descent
<1>5. Spec => []Limit /\ [][Descent]_vars
  BY <1>1, <1>2, <1>3, <1>4, <1>6, PTL DEF Spec
<1> QED BY <1>5 DEF Limit, Descent

=============================================================================
