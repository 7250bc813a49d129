-------------------------- MODULE ClearGateProofs ---------------------------
(***************************************************************************)
(* What the clearing gate books has one explanation, at every rung, for    *)
(* any statement; what it queues is what it could not book; the ladder     *)
(* clears nothing that its top rung does not (LadderInv, a run beside the  *)
(* run at the top); and the journal adds up to the credits (BooksInv).     *)
(***************************************************************************)
EXTENDS ClearGate, FiniteSetTheorems, WellFoundedInduction, TLAPS

-----------------------------------------------------------------------------
(***************************************************************************)
(* Induction up to a bound, from the well-founded order of Nat.            *)
(***************************************************************************)

NatLess == {p \in Nat \X Nat : p[1] < p[2]}

\* A set of naturals that is not empty has a least member.
LEMMA Least == ASSUME NEW T, T \subseteq Nat, T # {}
               PROVE \E n \in T : \A m \in T : n <= m
<1>1. IsWellFoundedOn(NatLess, Nat)
  BY NatLessThanWellFounded DEF OpToRel, NatLess
<1>2. PICK x \in T : \A y \in T : ~ (<<y, x>> \in NatLess)
  BY <1>1, WFMin, Zenon
<1>3. \A m \in T : ~ (m < x)
  <2>1. TAKE m \in T
  <2>2. <<m, x>> \in Nat \X Nat /\ <<m, x>>[1] = m /\ <<m, x>>[2] = x
    OBVIOUS
  <2> QED BY <1>2, <2>2 DEF NatLess
<1> QED BY <1>3

\* Induction from 0 to n over membership in a set.
LEMMA UpTo == ASSUME NEW n \in Nat, NEW T, 0 \in T,
                     \A k \in 1 .. n : k - 1 \in T => k \in T
              PROVE \A k \in 0 .. n : k \in T
<1> DEFINE Bad == {k \in 0 .. n : k \notin T}
<1>1. SUFFICES ASSUME Bad # {} PROVE FALSE
  OBVIOUS
<1>2. PICK k \in Bad : \A m \in Bad : k <= m
  <2>1. Bad \subseteq Nat
    OBVIOUS
  <2> QED BY <1>1, <2>1, Least
<1>3. k # 0 /\ k - 1 \in 0 .. n /\ k - 1 \notin Bad
  BY <1>2
<1> QED BY <1>2, <1>3

\* A value per index can be built from the value at the index before.
Iterates(s, n, V, z, f) ==
    s \in [0 .. n -> V] /\ s[0] = z /\ \A k \in 1 .. n : s[k] = f[k][s[k - 1]]

\* The recursion that an iteration describes has a solution.
LEMMA Iteration ==
  ASSUME NEW n, NEW V, NEW z, NEW f,
         n \in Nat, z \in V, f \in [1 .. n -> [V -> V]]
  PROVE  \E s : Iterates(s, n, V, z, f)
<1> DEFINE Up(k, s) == s[0] = z /\ \A j \in 1 .. k : s[j] = f[j][s[j - 1]]
           T == {k \in 0 .. n : \E s \in [0 .. k -> V] : Up(k, s)}
<1>1. 0 \in T
  <2> DEFINE s == [j \in 0 .. 0 |-> z]
  <2>1. s \in [0 .. 0 -> V] /\ Up(0, s)
    OBVIOUS
  <2> HIDE DEF s
  <2>2. \E x \in [0 .. 0 -> V] : Up(0, x)
    BY <2>1
  <2> QED BY <2>2
<1>2. ASSUME NEW k \in 1 .. n, k - 1 \in T PROVE k \in T
  <2>1. PICK s \in [0 .. k - 1 -> V] : Up(k - 1, s)
    BY <1>2
  <2> DEFINE t == [j \in 0 .. k |-> IF j = k THEN f[k][s[k - 1]] ELSE s[j]]
  <2>2. s[k - 1] \in V /\ f[k] \in [V -> V]
    OBVIOUS
  <2>3. f[k][s[k - 1]] \in V
    BY <2>2
  <2>4. t \in [0 .. k -> V]
    BY <2>3
  <2>5. t[0] = z
    BY <2>1
  <2>6. ASSUME NEW j \in 1 .. k PROVE t[j] = f[j][t[j - 1]]
    <3>1. CASE j = k
      BY <3>1
    <3>2. CASE j # k
      <4>1. j \in 1 .. k - 1 /\ j \in 0 .. k /\ j - 1 \in 0 .. k /\ j - 1 # k
        BY <3>2
      <4> QED BY <4>1, <2>1, <3>2
    <3> QED BY <3>1, <3>2
  <2> HIDE DEF t
  <2>7. \E x \in [0 .. k -> V] : Up(k, x)
    BY <2>4, <2>5, <2>6
  <2>8. k \in 0 .. n
    OBVIOUS
  <2> HIDE DEF Up
  <2> QED BY <2>7, <2>8
<1>3. n \in T
  <2> HIDE DEF T
  <2>1. \A k \in 1 .. n : k - 1 \in T => k \in T
    BY <1>2
  <2>2. \A k \in 0 .. n : k \in T
    BY <1>1, <2>1, UpTo, Zenon
  <2> QED BY <2>2
<1> QED BY <1>3 DEF Iterates

-----------------------------------------------------------------------------
(***************************************************************************)
(* Sums                                                                    *)
(***************************************************************************)

\* The recursion that defines Sums has a solution, and its values are integers.
LEMMA SumsStep ==
  ASSUME NEW w \in Seq(Int), NEW S
  PROVE /\ Sums(w, S) \in [0 .. Len(w) -> Int]
        /\ Sums(w, S)[0] = 0
        /\ \A k \in 1 .. Len(w) :
              Sums(w, S)[k] = Sums(w, S)[k - 1] + (IF k \in S THEN w[k] ELSE 0)
<1> DEFINE n == Len(w)
           f == [k \in 1 .. n |-> [v \in Int |-> IF k \in S THEN v + w[k] ELSE v]]
           Is(s) == s = [k \in 0 .. n |-> IF k = 0 THEN 0
                                         ELSE IF k \in S THEN s[k - 1] + w[k] ELSE s[k - 1]]
<1>0. n \in Nat /\ 0 \in Int
  OBVIOUS
<1>1. f \in [1 .. n -> [Int -> Int]]
  OBVIOUS
<1>2. PICK s : Iterates(s, n, Int, 0, f)
  <2> HIDE DEF f, n
  <2> QED BY <1>0, <1>1, Iteration
<1>3. ASSUME NEW k \in 1 .. n
      PROVE  s[k] = IF k \in S THEN s[k - 1] + w[k] ELSE s[k - 1]
  <2>0. k - 1 \in 0 .. n
    BY <1>0
  <2>1. s[k - 1] \in Int
    BY <1>2, <2>0 DEF Iterates
  <2>2. f[k][s[k - 1]] = IF k \in S THEN s[k - 1] + w[k] ELSE s[k - 1]
    BY <2>1
  <2> QED BY <1>2, <2>2 DEF Iterates
<1>4. \A k \in 0 .. n : s[k] = IF k = 0 THEN 0
                               ELSE IF k \in S THEN s[k - 1] + w[k] ELSE s[k - 1]
  BY <1>2, <1>3 DEF Iterates
<1>5. Is(s)
  BY <1>2, <1>4 DEF Iterates
<1>6. Is(Sums(w, S))
  BY <1>5 DEF Sums
<1> DEFINE t == Sums(w, S)
<1>7. t = [k \in 0 .. n |-> IF k = 0 THEN 0
                            ELSE IF k \in S THEN t[k - 1] + w[k] ELSE t[k - 1]]
  BY <1>6
<1> HIDE DEF t
<1> HIDE DEF n
<1>8. /\ t[0] = 0
      /\ \A k \in 1 .. n : t[k] = IF k \in S THEN t[k - 1] + w[k] ELSE t[k - 1]
  BY <1>0, <1>7
<1>9. \A k \in 1 .. n : w[k] \in Int
  BY DEF n
<1> DEFINE T == {k \in 0 .. n : t[k] \in Int}
<1>10. 0 \in T /\ \A k \in 1 .. n : k - 1 \in T => k \in T
  BY <1>0, <1>8, <1>9
<1>11. \A k \in 0 .. n : k \in T
  <2> HIDE DEF T
  <2> QED BY <1>0, <1>10, UpTo, Zenon
<1>12. t \in [0 .. n -> Int]
  BY <1>7, <1>11
<1>13. \A k \in 1 .. n : k - 1 \in 0 .. n /\ t[k - 1] \in Int
  BY <1>0, <1>11
<1> QED BY <1>8, <1>9, <1>12, <1>13 DEF t, n

\* A sum of integers is an integer.
LEMMA SumTyped == ASSUME NEW w \in Seq(Int), NEW S PROVE Sum(w, S) \in Int
<1>1. Len(w) \in 0 .. Len(w)
  OBVIOUS
<1> QED BY <1>1, SumsStep DEF Sum

\* Sums are linear: what holds of every amount holds of the totals.
LEMMA SumPlus ==
  ASSUME NEW w \in Seq(Int), NEW u \in Seq(Int), NEW v \in Seq(Int),
         Len(u) = Len(w), Len(v) = Len(w), NEW C, NEW A, NEW B,
         \A k \in 1 .. Len(w) : (IF k \in C THEN w[k] ELSE 0) =
             (IF k \in A THEN u[k] ELSE 0) + (IF k \in B THEN v[k] ELSE 0)
  PROVE  Sum(w, C) = Sum(u, A) + Sum(v, B)
<1> DEFINE n == Len(w)
           s == Sums(w, C)
           a == Sums(u, A)
           b == Sums(v, B)
           T == {j \in 0 .. n : s[j] = a[j] + b[j]}
<1>0. n \in Nat /\ Len(u) = n /\ Len(v) = n
  OBVIOUS
<1>1. /\ s \in [0 .. n -> Int] /\ a \in [0 .. n -> Int] /\ b \in [0 .. n -> Int]
      /\ s[0] = 0 /\ a[0] = 0 /\ b[0] = 0
      /\ \A j \in 1 .. n : /\ s[j] = s[j - 1] + (IF j \in C THEN w[j] ELSE 0)
                           /\ a[j] = a[j - 1] + (IF j \in A THEN u[j] ELSE 0)
                           /\ b[j] = b[j - 1] + (IF j \in B THEN v[j] ELSE 0)
  BY SumsStep, SMTT(20)
<1>2. \A j \in 1 .. n : w[j] \in Int /\ u[j] \in Int /\ v[j] \in Int
  OBVIOUS
<1>3. \A j \in 1 .. n : (IF j \in C THEN w[j] ELSE 0) =
                           (IF j \in A THEN u[j] ELSE 0) + (IF j \in B THEN v[j] ELSE 0)
  OBVIOUS
<1> HIDE DEF s, a, b, n
<1>4. 0 \in T
  BY <1>0, <1>1
<1>5. ASSUME NEW j \in 1 .. n, j - 1 \in T PROVE j \in T
  <2>1. /\ s[j - 1] \in Int /\ a[j - 1] \in Int /\ b[j - 1] \in Int /\ j \in 0 .. n
        /\ s[j - 1] = a[j - 1] + b[j - 1]
    BY <1>0, <1>1, <1>5
  <2>2. /\ s[j] = s[j - 1] + (IF j \in C THEN w[j] ELSE 0)
        /\ a[j] = a[j - 1] + (IF j \in A THEN u[j] ELSE 0)
        /\ b[j] = b[j - 1] + (IF j \in B THEN v[j] ELSE 0)
    BY <1>1
  <2>3. s[j] = a[j] + b[j]
    <3> DEFINE x == IF j \in C THEN w[j] ELSE 0
               y == IF j \in A THEN u[j] ELSE 0
               z == IF j \in B THEN v[j] ELSE 0
    <3>1. x \in Int /\ y \in Int /\ z \in Int
      BY <1>2
    <3>2. x = y + z
      BY <1>3
    <3>3. s[j] = s[j - 1] + x /\ a[j] = a[j - 1] + y /\ b[j] = b[j - 1] + z
      BY <2>2
    <3> HIDE DEF x, y, z
    <3> QED BY <2>1, <3>1, <3>2, <3>3
  <2> QED BY <2>1, <2>3
<1>6. \A j \in 0 .. n : j \in T
  <2> HIDE DEF T
  <2> QED BY <1>0, <1>4, <1>5, UpTo, Zenon
<1>7. n \in T
  BY <1>0, <1>6
<1> QED BY <1>0, <1>7 DEF s, a, b, n, Sum

\* Nothing adds up to nothing.
LEMMA SumZero ==
  ASSUME NEW w \in Seq(Int), NEW C, \A k \in 1 .. Len(w) : k \in C => w[k] = 0
  PROVE  Sum(w, C) = 0
<1>1. Sum(w, C) = Sum(w, C) + Sum(w, C)
  <2>1. \A k \in 1 .. Len(w) : (IF k \in C THEN w[k] ELSE 0) =
            (IF k \in C THEN w[k] ELSE 0) + (IF k \in C THEN w[k] ELSE 0)
    OBVIOUS
  <2> QED BY <2>1, SumPlus
<1> QED BY <1>1, SumTyped

\* Amounts that agree on a set have one sum.
LEMMA SumSame ==
  ASSUME NEW w \in Seq(Int), NEW u \in Seq(Int), Len(u) = Len(w), NEW C,
         \A k \in 1 .. Len(w) : k \in C => w[k] = u[k]
  PROVE  Sum(w, C) = Sum(u, C)
<1>1. Sum(u, {}) = 0 /\ Sum(u, C) \in Int
  BY SumZero, SumTyped
<1>2. Sum(w, C) = Sum(u, C) + Sum(u, {})
  <2>1. \A k \in 1 .. Len(w) : w[k] \in Int /\ u[k] \in Int
    OBVIOUS
  <2>2. \A k \in 1 .. Len(w) : (IF k \in C THEN w[k] ELSE 0) =
            (IF k \in C THEN u[k] ELSE 0) + (IF k \in {} THEN u[k] ELSE 0)
    BY <2>1
  <2> QED BY <2>2, SumPlus
<1> QED BY <1>1, <1>2

\* Disjoint sets add up.
LEMMA SumSplit ==
  ASSUME NEW w \in Seq(Int), NEW A, NEW B, A \cap B = {}
  PROVE  Sum(w, A \cup B) = Sum(w, A) + Sum(w, B)
<1>1. \A k \in 1 .. Len(w) : w[k] \in Int
  OBVIOUS
<1>2. \A k \in 1 .. Len(w) : (IF k \in A \cup B THEN w[k] ELSE 0) =
          (IF k \in A THEN w[k] ELSE 0) + (IF k \in B THEN w[k] ELSE 0)
  BY <1>1
<1> QED BY <1>2, SumPlus

LEMMA SumSingle ==
  ASSUME NEW w \in Seq(Int), NEW i \in 1 .. Len(w)
  PROVE  Sum(w, {i}) = w[i]
<1> DEFINE n == Len(w)
           s == Sums(w, {i})
           T == {j \in 0 .. n : s[j] = IF j < i THEN 0 ELSE w[i]}
<1>0. n \in Nat /\ i \in 1 .. n /\ w[i] \in Int
  OBVIOUS
<1>1. /\ s \in [0 .. n -> Int] /\ s[0] = 0
      /\ \A j \in 1 .. n : s[j] = s[j - 1] + (IF j \in {i} THEN w[j] ELSE 0)
  BY SumsStep
<1> HIDE DEF s, n
<1>2. 0 \in T
  BY <1>0, <1>1
<1>3. ASSUME NEW j \in 1 .. n, j - 1 \in T PROVE j \in T
  <2>1. /\ s[j - 1] = IF j - 1 < i THEN 0 ELSE w[i]
        /\ s[j] = s[j - 1] + (IF j = i THEN w[i] ELSE 0)
    BY <1>1, <1>3
  <2>2. s[j] = IF j < i THEN 0 ELSE w[i]
    BY <1>0, <2>1
  <2> QED BY <1>0, <2>2
<1>4. \A j \in 0 .. n : j \in T
  <2> HIDE DEF T
  <2> QED BY <1>0, <1>2, <1>3, UpTo, Zenon
<1>5. n \in T
  BY <1>0, <1>4
<1> QED BY <1>0, <1>5 DEF s, n, Sum

\* A sum by groups: f[k] is what the members of group k come to.
LEMMA SumGroups ==
  ASSUME NEW w \in Seq(Int), NEW f \in Seq(Int), NEW A, NEW g,
         \A i \in A : g[i] \in 1 .. Len(f),
         \A k \in 1 .. Len(f) : Sum(w, {i \in A : g[i] = k}) = f[k]
  PROVE  Sum(w, A) = Sum(f, 1 .. Len(f))
<1> DEFINE n == Len(f)
           s == Sums(f, 1 .. n)
           upTo(k) == {i \in A : g[i] <= k}
           T == {k \in 0 .. n : Sum(w, upTo(k)) = s[k]}
<1>0. n \in Nat
  OBVIOUS
<1>1. /\ s[0] = 0 /\ \A k \in 1 .. n : f[k] \in Int /\ s[k] = s[k - 1] + f[k]
  BY SumsStep
<1>2. \A i \in A : g[i] \in 1 .. n
  OBVIOUS
<1> HIDE DEF s, n
<1>3. 0 \in T
  <2>1. upTo(0) = {}
    BY <1>2
  <2> HIDE DEF upTo
  <2> QED BY <1>0, <1>1, <2>1, SumZero
<1>4. ASSUME NEW k \in 1 .. n, k - 1 \in T PROVE k \in T
  <2> DEFINE group == {i \in A : g[i] = k}
  <2>1. upTo(k) = upTo(k - 1) \cup group /\ upTo(k - 1) \cap group = {}
    BY <1>0, <1>2
  <2>2. Sum(w, group) = f[k]
    BY DEF n
  <2>3. Sum(w, upTo(k - 1)) = s[k - 1]
    BY <1>4
  <2> HIDE DEF upTo, group
  <2>4. Sum(w, upTo(k)) = s[k - 1] + f[k]
    BY <2>1, <2>2, <2>3, SumSplit
  <2> QED BY <1>0, <1>1, <2>4
<1>5. \A k \in 0 .. n : k \in T
  <2> HIDE DEF T
  <2> QED BY <1>0, <1>3, <1>4, UpTo, Zenon
<1>6. Sum(w, upTo(n)) = s[n]
  BY <1>0, <1>5
<1>7. upTo(n) = A
  BY <1>0, <1>2
<1> QED BY <1>6, <1>7 DEF s, n, Sum

-----------------------------------------------------------------------------
(***************************************************************************)
(* The list of explanations.                                               *)
(***************************************************************************)

\* A finite set has subsets of every smaller size.
LEMMA SubsetOfSize ==
    ASSUME NEW S, IsFiniteSet(S), NEW k \in Nat, k <= Cardinality(S)
    PROVE  kSubset(k, S) # {}
<1>1. PICK f \in Bijection(1 .. Cardinality(S), S) : TRUE
    BY FS_CardinalityType DEF ExistsBijection
<1> DEFINE T == {f[i] : i \in 1 .. k}
           g == [i \in 1 .. k |-> f[i]]
<1>2. Cardinality(S) \in Nat
    BY FS_CardinalityType
<1>3. /\ f \in [1 .. Cardinality(S) -> S]
      /\ \A i, j \in 1 .. Cardinality(S) : f[i] = f[j] => i = j
    BY <1>1 DEF Bijection, Injection, IsInjective
<1>4. 1 .. k \subseteq 1 .. Cardinality(S)
    BY <1>2
<1>5. T \subseteq S
    BY <1>3, <1>4
<1>6. g \in Bijection(1 .. k, T)
    <2>1. g \in [1 .. k -> T]
        OBVIOUS
    <2>2. \A i, j \in 1 .. k : g[i] = g[j] => i = j
        BY <1>3, <1>4
    <2>3. \A t \in T : \E i \in 1 .. k : g[i] = t
        OBVIOUS
    <2> QED BY <2>1, <2>2, <2>3 DEF Bijection, Injection, Surjection, IsInjective
<1>7. IsFiniteSet(1 .. k) /\ Cardinality(1 .. k) = k
    BY FS_Interval
<1>8. Cardinality(T) = k
    BY <1>6, <1>7, FS_Bijection DEF ExistsBijection
<1> QED BY <1>5, <1>8 DEF kSubset

\* A conclusion drawn from all the sets there are.
SureOf(tie, items, sets, book, cleared) ==
    LET sound == {M \in sets : Sound(items, M, book, cleared)}
    IN  /\ tie.infeasible => sets # {} /\ sound = {}
        /\ tie.unique # {} => tie.unique = sound /\ Cardinality(sound) = 1
        /\ tie.unique \subseteq sets

\* disambiguate draws no other.
LEMMA DisambiguateIsSure ==
    ASSUME NEW items, NEW sets, IsFiniteSet(sets), NEW cap \in Nat, NEW book, NEW cleared
    PROVE  SureOf(Disambiguate(items, sets, cap, book, cleared), items, sets, book, cleared)
<1> DEFINE listed == Enumerated(sets, cap)
           sound == {M \in listed : Sound(items, M, book, cleared)}
           complete == listed # {} /\ Cardinality(listed) < cap
           tie == Disambiguate(items, sets, cap, book, cleared)
           all == {M \in sets : Sound(items, M, book, cleared)}
<1>1. /\ tie.infeasible <=> complete /\ sound = {}
      /\ tie.unique = IF complete /\ Cardinality(sound) = 1 THEN sound ELSE {}
    BY DEF Disambiguate
<1>2. complete => listed = sets
    <2>1. CASE Cardinality(sets) <= cap
        BY <2>1 DEF Enumerated
    <2>2. CASE ~ (Cardinality(sets) <= cap)
        <3>1. Cardinality(sets) \in Nat
            BY FS_CardinalityType
        <3>2. kSubset(cap, sets) # {}
            BY <2>2, <3>1, SubsetOfSize
        <3>3. listed \in kSubset(cap, sets)
            BY <2>2, <3>2 DEF Enumerated
        <3>4. Cardinality(listed) = cap
            BY <3>3 DEF kSubset
        <3> QED BY <3>4
    <2> QED BY <2>1, <2>2
<1>3. complete => sound = all
    BY <1>2
<1> HIDE DEF complete, sound, tie
<1>4. /\ tie.infeasible => sets # {} /\ all = {}
      /\ tie.unique # {} => tie.unique = all /\ Cardinality(all) = 1
      /\ tie.unique \subseteq sets
    BY <1>1, <1>2, <1>3 DEF complete
<1> QED BY <1>4 DEF tie, SureOf

(***************************************************************************)
(* The decision table.                                                     *)
(***************************************************************************)

\* A non-empty set of places has a first.
LEMMA FirstOf ==
    ASSUME NEW T, T \subseteq 1 .. 16, T # {}
    PROVE  \E k \in T : \A j \in 1 .. k - 1 : j \notin T
<1>1. T \subseteq Nat
    OBVIOUS
<1>2. PICK k \in T : \A j \in T : k <= j
    BY <1>1, Least
<1> QED BY <1>1, <1>2

\* The last rule always holds, so that one is the first that does.
LEMMA ClassifyIsRule ==
    ASSUME NEW signals, NEW book, NEW cfg
    PROVE  \E k \in 1 .. 16 :
             /\ Classify(signals, book, cfg).class = Rules(signals, book, cfg)[k].class
             /\ Classify(signals, book, cfg).rule = Rules(signals, book, cfg)[k].name
             /\ Rules(signals, book, cfg)[k].holds
             /\ \A j \in 1 .. k - 1 : ~ Rules(signals, book, cfg)[j].holds
<1> DEFINE rules == Rules(signals, book, cfg)
<1>1. DOMAIN rules = 1 .. 16 /\ rules[16].holds
    BY DEF Rules
<1>2. \E k \in 1 .. 16 : rules[k].holds /\ \A j \in 1 .. k - 1 : ~ rules[j].holds
    <2> DEFINE T == {k \in 1 .. 16 : rules[k].holds}
    <2> HIDE DEF rules
    <2>1. T \subseteq 1 .. 16 /\ 16 \in T
        BY <1>1
    <2>2. PICK k \in T : \A j \in 1 .. k - 1 : j \notin T
        BY <2>1, FirstOf
    <2> QED BY <2>2
<1> QED BY <1>1, <1>2 DEF Classify

\* What the classes say of the search.
LEMMA Diagnosed ==
    ASSUME NEW signals, NEW book, NEW cfg
    PROVE  /\ Classify(signals, book, cfg).class \in Classes
           /\ Classify(signals, book, cfg).class = "AMBIGUOUS_DECOMPOSITION" =>
                  signals.uniqueness = "AMBIGUOUS"
           /\ Classify(signals, book, cfg).class = "STRUCTURALLY_INFEASIBLE" => signals.infeasible
           /\ Classify(signals, book, cfg).rule = "fallback_no_delta" =>
                  /\ signals.delta = {}
                  /\ signals.uniqueness \notin {"BUDGET_EXCEEDED", "AMBIGUOUS"}
<1> DEFINE rules == Rules(signals, book, cfg)
<1>1. \A k \in 1 .. 16 : /\ rules[k].class \in Classes
                         /\ rules[k].class = "AMBIGUOUS_DECOMPOSITION" => k = 3
                         /\ rules[k].class = "STRUCTURALLY_INFEASIBLE" => k = 2
                         /\ rules[k].name = "fallback_no_delta" => k = 6
    <2> DEFINE kinds == << "BUDGET_EXCEEDED", "STRUCTURALLY_INFEASIBLE",
                           "AMBIGUOUS_DECOMPOSITION", "ENTITY_UNRESOLVED",
                           "DUPLICATE_CREDIT", "MISSING_RECORD",
                           "RATE_MISMATCH", "SIGN_REVERSAL",
                           "CROSS_WINDOW_UNRESOLVED", "MISSING_RECORD",
                           "ROUNDING_RESIDUE", "UNITEMISED_FEE",
                           "SUSPECTED_WITHHOLDING", "SUSPECTED_WITHHOLDING",
                           "UNITEMISED_FEE", "MISSING_RECORD" >>
    <2>1. \A k \in 1 .. 16 : rules[k].class = kinds[k]
        BY SMTT(30) DEF Rules
    <2>2. \A k \in 1 .. 16 : rules[k].name = "fallback_no_delta" => k = 6
        BY SMTT(30) DEF Rules
    <2> HIDE DEF rules
    <2>3. \A k \in 1 .. 16 : /\ kinds[k] \in Classes
                             /\ kinds[k] = "AMBIGUOUS_DECOMPOSITION" => k = 3
                             /\ kinds[k] = "STRUCTURALLY_INFEASIBLE" => k = 2
        BY SMTT(30) DEF Classes
    <2> QED BY <2>1, <2>2, <2>3
<1>2. /\ signals.uniqueness = "BUDGET_EXCEEDED" => rules[1].holds
      /\ rules[2].holds <=> signals.infeasible
      /\ rules[3].holds <=> signals.uniqueness = "AMBIGUOUS"
      /\ rules[6].holds <=> signals.delta = {}
    BY DEF Rules
<1> HIDE DEF rules
<1>3. PICK k \in 1 .. 16 : /\ Classify(signals, book, cfg).class = rules[k].class
                           /\ Classify(signals, book, cfg).rule = rules[k].name
                           /\ rules[k].holds
                           /\ \A j \in 1 .. k - 1 : ~ rules[j].holds
    BY ClassifyIsRule DEF rules
<1>4. k = 6 => ~ rules[1].holds /\ ~ rules[3].holds
    BY <1>3
<1> QED BY <1>1, <1>2, <1>3, <1>4

-----------------------------------------------------------------------------
(***************************************************************************)
(* One credit.                                                             *)
(***************************************************************************)

LEMMA PoolIsFinite ==
    ASSUME stmt \in Statements, NEW c
    PROVE  /\ Pool(c) \subseteq DOMAIN stmt.items
           /\ IsFiniteSet(Explanations(c))
           /\ \A M \in Explanations(c) : M \subseteq Pool(c)
<1>1. stmt.items \in Seq(LedgerItem)
    BY GateConstants
<1>2. IsFiniteSet(DOMAIN stmt.items)
    <2>1. PICK n \in Nat : DOMAIN stmt.items = 1 .. n
        BY <1>1
    <2>2. IsFiniteSet(1 .. n)
        BY FS_Interval
    <2> QED BY <2>1, <2>2
<1>3. Pool(c) \subseteq DOMAIN stmt.items
    BY DEF Pool
<1>4. IsFiniteSet(SUBSET Pool(c))
    BY <1>2, <1>3, FS_Subset, FS_SUBSET
<1>5. Explanations(c) \subseteq SUBSET Pool(c)
    BY DEF Explanations, Solutions
<1> QED BY <1>3, <1>4, <1>5, FS_Subset

\* What a search may claim.
LEMMA SolveIsTrue ==
    ASSUME stmt \in Statements, NEW c
    PROVE  /\ Solve(c).uniqueness = "UNIQUE" /\ Solve(c).scope = "FULL" =>
                  Explanations(c) = {Solve(c).members}
           /\ Solve(c).uniqueness = "AMBIGUOUS" => \E M, N \in Explanations(c) : M # N
           /\ Solve(c).members \subseteq DOMAIN stmt.items
<1> DEFINE sets == Explanations(c)
<1>1. sets = Solutions(Asked(c), Pool(c))
    BY DEF Explanations
<1>2. IsFiniteSet(sets) /\ \A M \in sets : M \subseteq DOMAIN stmt.items
    BY PoolIsFinite
<1>3. \/ /\ Solve(c).uniqueness \notin {"AMBIGUOUS"}
         /\ ~ (Solve(c).uniqueness = "UNIQUE" /\ Solve(c).scope = "FULL")
         /\ Solve(c).members = {}
      \/ /\ Cardinality(sets) = 1
         /\ Solve(c).uniqueness = "UNIQUE" /\ Solve(c).members = UNION sets
      \/ /\ sets # {} /\ Cardinality(sets) # 1
         /\ Solve(c).uniqueness = "AMBIGUOUS" /\ Solve(c).members = {}
    <2> DEFINE v == Verdict(Asked(c), Pool(c))
    <2>1. \/ v.uniqueness = "NONE_FOUND" /\ v.members = {}
          \/ Cardinality(sets) = 1 /\ v.uniqueness = "UNIQUE" /\ v.members = UNION sets
          \/ /\ sets # {} /\ Cardinality(sets) # 1
             /\ v.uniqueness = "AMBIGUOUS" /\ v.members = {}
        BY <1>1 DEF Verdict
    <2>2. \/ Solve(c) = Unsearched
          \/ Solve(c) = Found("BUDGET_EXCEEDED", "FULL", {}, {})
          \/ Solve(c) = Found("UNIQUE", "REDUCED", {}, {})
          \/ \E near : Solve(c) = Found(v.uniqueness, "FULL", v.members, near)
        BY DEF Solve
    <2> HIDE DEF sets, v
    <2> QED BY <2>1, <2>2 DEF Unsearched, Found
<1> HIDE DEF sets
<1>4. CASE Cardinality(sets) = 1 /\ Solve(c).members = UNION sets /\ Solve(c).uniqueness = "UNIQUE"
    <2>1. PICK M : sets = {M}
        BY <1>2, <1>4, FS_Singleton
    <2> QED BY <1>2, <1>4, <2>1 DEF sets
<1>5. CASE sets # {} /\ Cardinality(sets) # 1 /\ Solve(c).uniqueness = "AMBIGUOUS" /\ Solve(c).members = {}
    <2>1. PICK M \in sets : TRUE
        BY <1>5
    <2>2. sets # {M}
        BY <1>5, FS_Singleton
    <2> QED BY <1>5, <2>1, <2>2 DEF sets
<1> QED BY <1>3, <1>4, <1>5

\* The sets that explain c and are sound when the items cleared are.
SoundGiven(c, cleared) ==
    {M \in Explanations(c) : Sound(stmt.items, M, stmt.book, cleared)}

\* What the judgement of a credit rests on.
Justified(j, c, cleared) ==
    /\ j.credit = c
    /\ j.members \subseteq DOMAIN stmt.items
    /\ j.class \in Classes
    /\ j.disposition = "CLEARED" /\ Named(c) = {} =>
          \/ Explanations(c) = {j.members}
          \/ stmt.flags.disambiguation /\ SoundGiven(c, cleared) = {j.members}
    /\ j.class = "AMBIGUOUS_DECOMPOSITION" => \E M, N \in Explanations(c) : M # N
    /\ j.class = "STRUCTURALLY_INFEASIBLE" =>
          Explanations(c) # {} /\ SoundGiven(c, cleared) = {}
    /\ j.rule = "fallback_no_delta" => j.accepted

LEMMA JudgeIsJustified ==
    ASSUME stmt \in Statements, NEW c, NEW policy, NEW cleared
    PROVE  Justified(Judge(c, policy, cleared), c, cleared)
<1> DEFINE named == Named(c)
           found == IF policy.search THEN Solve(c) ELSE Unsearched
           ties == IF /\ stmt.flags.disambiguation /\ found.uniqueness = "AMBIGUOUS"
                      /\ found.scope = "FULL" /\ Credit(c).effort # "SHORT"
                   THEN Explanations(c) ELSE {}
           tie == Disambiguate(stmt.items, ties, stmt.cfg.cap, stmt.book, cleared)
           solve == IF tie.unique # {} /\ named = {}
                    THEN Found("UNIQUE", "FULL", UNION tie.unique, {}) ELSE found
           full == solve.uniqueness = "UNIQUE" /\ solve.scope = "FULL"
           members == IF named # {} THEN named ELSE IF full THEN solve.members ELSE {}
           outcome == VerifyDecomposition(Credit(c).paise, members, stmt.items, stmt.book)
           delta == DeltaOf(solve, outcome)
           signals == Signals(c, solve, delta, Unresolved(c, policy), tie.infeasible)
           diagnosis == Classify(signals, stmt.book, Derived)
           j == Judge(c, policy, cleared)
<1>1. /\ j.credit = c /\ j.members = members /\ j.accepted = outcome.accepted
      /\ j.class = diagnosis.class /\ j.rule = diagnosis.rule
      /\ j.disposition = "CLEARED" => full
    BY DEF Judge, Searched, Explained, Verified, Weigh, Conclusion, Tie, Settled, Full, Members,
           Explanations
<1>2. /\ signals.uniqueness = solve.uniqueness /\ signals.infeasible = tie.infeasible
      /\ signals.delta = delta
    BY DEF Signals
<1>3. /\ diagnosis.class \in Classes
      /\ diagnosis.class = "AMBIGUOUS_DECOMPOSITION" => solve.uniqueness = "AMBIGUOUS"
      /\ diagnosis.class = "STRUCTURALLY_INFEASIBLE" => tie.infeasible
      /\ diagnosis.rule = "fallback_no_delta" =>
            delta = {} /\ solve.uniqueness \notin {"BUDGET_EXCEEDED", "AMBIGUOUS"}
    <2> HIDE DEF signals
    <2> QED BY <1>2, Diagnosed
<1>4. delta = {} /\ solve.uniqueness \notin {"BUDGET_EXCEEDED", "AMBIGUOUS"} => outcome.accepted
    <2> HIDE DEF outcome, solve
    <2>1. CASE solve.uniqueness = "NONE_FOUND" /\ solve.near # {}
        BY <2>1 DEF DeltaOf
    <2> QED BY <2>1 DEF DeltaOf
<1>5. /\ found.uniqueness = "UNIQUE" /\ found.scope = "FULL" => Explanations(c) = {found.members}
      /\ found.uniqueness = "AMBIGUOUS" => \E M, N \in Explanations(c) : M # N
      /\ found.members \subseteq DOMAIN stmt.items
    BY SolveIsTrue DEF Unsearched, Found
<1>6. IsFiniteSet(ties) /\ stmt.cfg.cap \in Nat
    BY PoolIsFinite, FS_EmptySet, GateConstants
<1>7. /\ tie.infeasible => ties # {} /\ {M \in ties : Sound(stmt.items, M, stmt.book, cleared)} = {}
      /\ tie.unique # {} =>
            /\ tie.unique = {M \in ties : Sound(stmt.items, M, stmt.book, cleared)}
            /\ Cardinality(tie.unique) = 1
      /\ tie.unique \subseteq ties
    <2>1. SureOf(tie, stmt.items, ties, stmt.book, cleared)
        <3> HIDE DEF ties
        <3> QED BY <1>6, DisambiguateIsSure
    <2> HIDE DEF ties, tie
    <2> QED BY <2>1 DEF SureOf
<1>8. ties # {} => stmt.flags.disambiguation /\ ties = Explanations(c)
    OBVIOUS
<1>9. tie.unique # {} => \E M : tie.unique = {M}
    <2> HIDE DEF ties, tie
    <2>1. IsFiniteSet(tie.unique)
        BY <1>6, <1>7, FS_Subset
    <2> QED BY <1>7, <2>1, FS_Singleton
<1> HIDE DEF ties, found
<1>10. /\ solve.uniqueness = found.uniqueness /\ solve.members = found.members
          /\ solve.scope = found.scope
       \/ /\ tie.unique # {} /\ solve.uniqueness = "UNIQUE" /\ solve.members = UNION tie.unique
    BY DEF Found
<1>11. tie.unique # {} => /\ stmt.flags.disambiguation
                          /\ SoundGiven(c, cleared) = {UNION tie.unique}
                          /\ UNION tie.unique \subseteq DOMAIN stmt.items
    <2> HIDE DEF tie
    <2>1. SUFFICES ASSUME NEW M, tie.unique = {M}
                   PROVE  /\ stmt.flags.disambiguation
                          /\ SoundGiven(c, cleared) = {UNION tie.unique}
                          /\ UNION tie.unique \subseteq DOMAIN stmt.items
        BY <1>9
    <2>2. UNION tie.unique = M
        BY <2>1
    <2>3. ties # {} /\ M \in ties
        BY <1>7, <2>1
    <2>4. SoundGiven(c, cleared) = {M}
        BY <1>7, <1>8, <2>1, <2>3 DEF SoundGiven
    <2>5. M \subseteq DOMAIN stmt.items
        BY <1>8, <2>3, PoolIsFinite
    <2> QED BY <1>8, <2>2, <2>3, <2>4, <2>5
<1>12. named \subseteq DOMAIN stmt.items
    BY DEF Named
<1>13. tie.infeasible => Explanations(c) # {} /\ SoundGiven(c, cleared) = {}
    BY <1>7, <1>8 DEF SoundGiven
<1> HIDE DEF named, tie, solve, diagnosis, outcome, j
<1>14. members \subseteq DOMAIN stmt.items
    BY <1>5, <1>10, <1>11, <1>12
<1>15. full /\ named = {} =>
          \/ Explanations(c) = {members}
          \/ stmt.flags.disambiguation /\ SoundGiven(c, cleared) = {members}
    BY <1>5, <1>10, <1>11
<1> HIDE DEF members
<1>16. /\ j.disposition = "CLEARED" /\ Named(c) = {} =>
            \/ Explanations(c) = {j.members}
            \/ stmt.flags.disambiguation /\ SoundGiven(c, cleared) = {j.members}
    BY <1>1, <1>15 DEF named
<1>17. solve.uniqueness = "AMBIGUOUS" => \E M, N \in Explanations(c) : M # N
    BY <1>5, <1>10
<1>18. j.rule = "fallback_no_delta" => j.accepted
    BY <1>1, <1>3, <1>4
<1> QED BY <1>1, <1>3, <1>13, <1>14, <1>16, <1>17, <1>18 DEF Justified, j

-----------------------------------------------------------------------------
(***************************************************************************)
(* The inductive invariant: what was judged was judged on what had been    *)
(* cleared by then, and rows are only added.                               *)
(***************************************************************************)

\* Nothing is written of a credit the loop has not come to.
Past ==
    \A r \in Rungs : /\ \A row \in stored[r] : row.credit < next
                     /\ \A entry \in queue[r] : entry.credit < next

\* Where rows are written, the lifting set is what they hold.
ParentsAreRows ==
    \A r \in Rungs :
        IF Policy(r).writes THEN parents[r] = UNION {row.members : row \in stored[r]}
        ELSE stored[r] = {}

\* An execution returns after its last credit.
LoopIsOver == \A r \in Rungs : ended[r] \in {"exported", "refused"} => next > Len(stmt.credits)

GateInv == TypeOK /\ Past /\ ParentsAreRows /\ LoopIsOver /\ OneExplanation /\ QueueIsHonest

\* The statement and what is made of it stay.
LEMMA StatementStays ==
    ASSUME stmt' = stmt
    PROVE  /\ \A c : /\ Explanations(c)' = Explanations(c)
                     /\ Named(c)' = Named(c) /\ Credit(c)' = Credit(c)
           /\ \A r : Policy(r)' = Policy(r)
           /\ Rows' = Rows /\ Exceptions' = Exceptions
<1>1. \A c : Credit(c)' = Credit(c)
    BY DEF Credit
<1>2. Derived' = Derived
    BY DEF Derived
<1>3. \A c : Asked(c)' = Asked(c)
    BY <1>1, <1>2 DEF Asked
<1>4. \A c : Pool(c)' = Pool(c)
    BY <1>1 DEF Pool
<1>5. \A c : DeclaredCheck(c)' = DeclaredCheck(c)
    BY <1>1 DEF DeclaredCheck
<1>6. \A c : Named(c)' = Named(c)
    BY <1>1, <1>5 DEF Named
<1>7. \A c : Explanations(c)' = Explanations(c)
    BY <1>3, <1>4 DEF Explanations
<1>8. \A r : Policy(r)' = Policy(r)
    BY DEF Policy, Active
<1>9. Rows' = Rows /\ Exceptions' = Exceptions
    BY DEF Rows, Exceptions
<1> QED BY <1>1, <1>6, <1>7, <1>8, <1>9

\* Rows of the credit the loop is at change nothing of what was cleared before it.
LEMMA BeforeStays ==
    ASSUME NEW r, NEW c, NEW n, c \in Nat, n \in Nat, c <= n,
           \A row \in stored'[r] : row \in stored[r] \/ row.credit = n,
           stored[r] \subseteq stored'[r]
    PROVE  ClearedBefore(r, c)' = ClearedBefore(r, c)
<1>1. {w \in stored[r] : w.credit < c} = {w \in stored'[r] : w.credit < c}
    OBVIOUS
<1> QED BY <1>1 DEF ClearedBefore

LEMMA SoundOnesAre ==
    ASSUME NEW r, NEW c
    PROVE  SoundOnes(r, c) = SoundGiven(c, ClearedBefore(r, c))
BY DEF SoundOnes, SoundGiven

LEMMA SoundOnesStay ==
    ASSUME NEW r, NEW c, stmt' = stmt, ClearedBefore(r, c)' = ClearedBefore(r, c)
    PROVE  SoundOnes(r, c)' = SoundOnes(r, c)
BY StatementStays DEF SoundOnes

LEMMA GateInit == Init => GateInv
<1> SUFFICES ASSUME Init PROVE GateInv
    OBVIOUS
<1> USE DEF Init, Empty
<1>1. Len(stmt.credits) \in Nat /\ DOMAIN stmt.credits = 1 .. Len(stmt.credits)
    BY GateConstants
<1>2. TypeOK
    BY <1>1 DEF TypeOK
<1>3. Past /\ ParentsAreRows /\ LoopIsOver
    BY DEF Past, ParentsAreRows, LoopIsOver
<1>4. OneExplanation
    BY DEF OneExplanation
<1>5. QueueIsHonest
    <2>1. \A r \in Rungs : ClearedAt(r) = {} /\ Processed(r) = {}
        BY DEF ClearedAt, Processed
    <2> QED BY <2>1 DEF QueueIsHonest
<1> QED BY <1>2, <1>3, <1>4, <1>5 DEF GateInv

\* QueueIsHonest, at one rung.
Honest(r) ==
    LET queued == {entry.credit : entry \in queue[r]}
    IN  /\ ClearedAt(r) \cap queued = {}
        /\ Policy(r).writes => Processed(r) \subseteq ClearedAt(r) \cup queued
        /\ \A entry \in queue[r] :
              /\ entry.class = "AMBIGUOUS_DECOMPOSITION" =>
                    \E M, N \in Explanations(entry.credit) : M # N
              /\ entry.class = "STRUCTURALLY_INFEASIBLE" =>
                    /\ Explanations(entry.credit) # {}
                    /\ Policy(r).writes => SoundOnes(r, entry.credit) = {}
        /\ \A entry \in log[r] : entry.rule = "fallback_no_delta" => entry.accepted

LEMMA HonestIs == /\ QueueIsHonest <=> \A r \in Rungs : Honest(r)
                  /\ QueueIsHonest' <=> \A r \in Rungs : Honest(r)'
BY DEF QueueIsHonest, Honest

\* The rows and the lifting set agree on what was cleared before the credit the loop is at.
LEMMA BeforeIsParents ==
    ASSUME GateInv, NEW r \in Rungs, Policy(r).writes
    PROVE  ClearedBefore(r, next) = parents[r]
<1>1. {w \in stored[r] : w.credit < next} = stored[r]
    BY DEF GateInv, Past
<1> QED BY <1>1 DEF GateInv, ParentsAreRows, ClearedBefore

LEMMA ProcessKeeps == GateInv /\ Process => GateInv'
<1> SUFFICES ASSUME GateInv, Process PROVE GateInv'
    OBVIOUS
<1> DEFINE J(r) == Judge(next, Policy(r), parents[r])
           cleared(r) == J(r).disposition = "CLEARED"
           row(r) == [credit |-> next, members |-> J(r).members]
           entry(r) == [credit |-> next, class |-> J(r).class]
<1>1. /\ stmt' = stmt /\ ended' = ended /\ next' = next + 1
      /\ next <= Len(stmt.credits) /\ ~ Credit(next).raising
    BY DEF Process
<1>2. /\ stmt \in Statements /\ next \in 1 .. Len(stmt.credits) + 1
      /\ Len(stmt.credits) \in Nat /\ DOMAIN stmt.credits = 1 .. Len(stmt.credits)
      /\ next \in DOMAIN stmt.credits /\ next \in Nat
    BY <1>1, GateConstants DEF GateInv, TypeOK
<1>3. \A r \in Rungs :
        /\ stored'[r] = IF r \in Running /\ cleared(r) /\ Policy(r).writes
                        THEN stored[r] \cup {row(r)} ELSE stored[r]
        /\ queue'[r] = IF r \in Running /\ ~ cleared(r)
                       THEN queue[r] \cup {entry(r)} ELSE queue[r]
        /\ log'[r] = IF r \in Running /\ Policy(r).writes
                     THEN log[r] \cup {Payload(J(r))} ELSE log[r]
        /\ parents'[r] = IF r \in Running /\ cleared(r)
                         THEN parents[r] \cup J(r).members ELSE parents[r]
    BY Zenon DEF Process, Book, With
<1>4. /\ stored' = [r \in Rungs |-> stored'[r]] /\ queue' = [r \in Rungs |-> queue'[r]]
      /\ parents' = [r \in Rungs |-> parents'[r]]
    BY DEF Process, Book, With
<1>5. \A r \in Rungs : Justified(J(r), next, parents[r])
    BY <1>2, JudgeIsJustified
<1> HIDE DEF J
<1>6. \A r \in Rungs : /\ row(r) \in Rows /\ entry(r) \in Exceptions
                       /\ row(r).credit = next /\ row(r).members = J(r).members
                       /\ entry(r).credit = next /\ entry(r).class = J(r).class
                       /\ Payload(J(r)).credit = next
                       /\ J(r).members \subseteq DOMAIN stmt.items
    BY <1>2, <1>5 DEF Justified, Rows, Exceptions, Payload
<1> HIDE DEF row, entry, cleared
<1>a. \A r \in Rungs :
        /\ \/ stored'[r] = stored[r]
           \/ cleared(r) /\ Policy(r).writes /\ stored'[r] = stored[r] \cup {row(r)}
        /\ queue'[r] = queue[r] \/ queue'[r] = queue[r] \cup {entry(r)}
        /\ log'[r] = log[r] \/ log'[r] = log[r] \cup {Payload(J(r))}
        /\ parents'[r] = parents[r] \/ parents'[r] = parents[r] \cup J(r).members
    BY <1>3
<1>7. /\ \A c : Explanations(c)' = Explanations(c) /\ Named(c)' = Named(c)
      /\ \A c : Credit(c)' = Credit(c) /\ \A r : Policy(r)' = Policy(r)
      /\ Rows' = Rows /\ Exceptions' = Exceptions
    BY <1>1, StatementStays
<1>8. \A r \in Rungs : \A c \in Nat : c <= next => SoundOnes(r, c)' = SoundOnes(r, c)
    <2> TAKE r \in Rungs
    <2> TAKE c \in Nat
    <2> HAVE c <= next
    <2>1. \A w \in stored'[r] : w \in stored[r] \/ w.credit = next
        BY <1>a, <1>6
    <2>2. stored[r] \subseteq stored'[r]
        BY <1>a
    <2>3. ClearedBefore(r, c)' = ClearedBefore(r, c)
        BY <1>2, <2>1, <2>2, BeforeStays
    <2> QED BY <1>1, <2>3, SoundOnesStay
<1>9. TypeOK'
    <2>1. \A r \in Rungs : stored[r] \subseteq Rows /\ queue[r] \subseteq Exceptions
        BY DEF GateInv, TypeOK
    <2>2. \A r \in Rungs : stored'[r] \subseteq Rows /\ queue'[r] \subseteq Exceptions
        BY <1>a, <1>6, <2>1
    <2>3. stored' \in [Rungs -> SUBSET Rows] /\ queue' \in [Rungs -> SUBSET Exceptions]
        BY <1>4, <2>2
    <2>4. \A r \in Rungs : parents'[r] \subseteq DOMAIN stmt.items
        BY <1>a, <1>6 DEF GateInv, TypeOK
    <2>5. parents' \in [Rungs -> SUBSET DOMAIN stmt.items]
        BY <1>4, <2>4
    <2>6. \A r \in Rungs : \A e \in log'[r] : e.credit \in DOMAIN stmt.credits
        BY <1>2, <1>a, <1>6 DEF GateInv, TypeOK
    <2> QED BY <1>1, <1>2, <1>7, <2>3, <2>5, <2>6 DEF GateInv, TypeOK
<1>10. Past'
    <2>1. \A r \in Rungs : /\ \A w \in stored[r] : w.credit \in Nat /\ w.credit < next
                           /\ \A e \in queue[r] : e.credit \in Nat /\ e.credit < next
        BY <1>2 DEF GateInv, Past, TypeOK, Rows, Exceptions
    <2>2. \A r \in Rungs : /\ \A w \in stored'[r] : w.credit < next + 1
                           /\ \A e \in queue'[r] : e.credit < next + 1
        <3> TAKE r \in Rungs
        <3>1. \A w \in stored'[r] : w \in stored[r] \/ w.credit = next
            BY <1>a, <1>6
        <3>2. \A e \in queue'[r] : e \in queue[r] \/ e.credit = next
            BY <1>a, <1>6
        <3> QED BY <1>2, <2>1, <3>1, <3>2
    <2> QED BY <1>1, <2>2 DEF Past
<1>11. ParentsAreRows'
    <2> SUFFICES ASSUME NEW r \in Rungs
                 PROVE  IF Policy(r).writes
                        THEN parents'[r] = UNION {w.members : w \in stored'[r]}
                        ELSE stored'[r] = {}
        BY <1>7 DEF ParentsAreRows
    <2>1. CASE Policy(r).writes /\ r \in Running /\ cleared(r)
        <3>1. parents[r] = UNION {w.members : w \in stored[r]}
            BY <2>1 DEF GateInv, ParentsAreRows
        <3>2. {w.members : w \in stored'[r]} = {w.members : w \in stored[r]} \cup {J(r).members}
            <4>1. stored'[r] = stored[r] \cup {row(r)} /\ row(r).members = J(r).members
                BY <1>3, <1>6, <2>1
            <4> QED BY <4>1
        <3>3. UNION {w.members : w \in stored'[r]} = parents[r] \cup J(r).members
            BY <3>1, <3>2
        <3> QED BY <1>3, <2>1, <3>3
    <2>2. CASE ~ (Policy(r).writes /\ r \in Running /\ cleared(r))
        BY <1>3, <2>2 DEF GateInv, ParentsAreRows, Running
    <2> QED BY <2>1, <2>2
<1>12. LoopIsOver'
    BY <1>1, <1>2 DEF GateInv, LoopIsOver
<1>13. OneExplanation'
    <2> SUFFICES ASSUME NEW r \in Rungs, NEW w \in stored'[r], Named(w.credit) = {}
                 PROVE  \/ Explanations(w.credit) = {w.members}
                        \/ stmt.flags.disambiguation /\ SoundOnes(r, w.credit)' = {w.members}
        BY <1>1, <1>7 DEF OneExplanation
    <2>1. CASE w \in stored[r]
        <3>1. w.credit \in Nat /\ w.credit <= next
            BY <1>2, <2>1 DEF GateInv, Past, TypeOK, Rows
        <3> QED BY <1>8, <2>1, <3>1 DEF GateInv, OneExplanation
    <2>2. CASE w \notin stored[r]
        <3>1. w = row(r) /\ cleared(r) /\ Policy(r).writes
            BY <1>a, <2>2
        <3>2. SoundOnes(r, next) = SoundGiven(next, parents[r])
            <4>1. ClearedBefore(r, next) = parents[r]
                BY <3>1, BeforeIsParents
            <4> QED BY <4>1, SoundOnesAre
        <3>3. \A c \in Nat : c = next => SoundOnes(r, c)' = SoundGiven(next, parents[r])
            BY <1>2, <1>8, <3>2
        <3>4. w.credit = next /\ w.members = J(r).members
            BY <1>6, <3>1
        <3>5. \/ Explanations(next) = {J(r).members}
              \/ stmt.flags.disambiguation /\ SoundGiven(next, parents[r]) = {J(r).members}
            BY <1>5, <3>1, <3>4 DEF Justified, cleared
        <3> QED BY <1>2, <3>3, <3>4, <3>5
    <2> QED BY <2>1, <2>2
<1>14. QueueIsHonest'
    <2> SUFFICES ASSUME NEW r \in Rungs PROVE Honest(r)'
        BY HonestIs
    <2>1. Honest(r)
        BY HonestIs DEF GateInv
    <2>2. CASE r \notin Running
        <3>1. stored'[r] = stored[r] /\ queue'[r] = queue[r] /\ log'[r] = log[r]
            BY <1>3, <2>2
        <3>2. Processed(r)' = Processed(r)
            <4>1. ended[r] \in {"halted", "raised"}
                BY <1>1, <1>2, <2>2 DEF GateInv, TypeOK, LoopIsOver, Running
            <4> QED BY <1>1, <4>1 DEF Processed
        <3>3. \A e \in queue[r] : e.credit \in Nat /\ e.credit <= next
            BY <1>2 DEF GateInv, Past, TypeOK, Exceptions
        <3> QED BY <1>7, <1>8, <2>1, <3>1, <3>2, <3>3 DEF Honest, ClearedAt
    <2>3. CASE r \in Running
        <3> DEFINE queued == {e.credit : e \in queue[r]}
        <3>1. ClearedAt(r)' = IF cleared(r) /\ Policy(r).writes
                              THEN ClearedAt(r) \cup {next} ELSE ClearedAt(r)
            <4>1. CASE cleared(r) /\ Policy(r).writes
                <5>1. stored'[r] = stored[r] \cup {row(r)} /\ row(r).credit = next
                    BY <1>3, <1>6, <2>3, <4>1
                <5> QED BY <4>1, <5>1 DEF ClearedAt
            <4>2. CASE ~ (cleared(r) /\ Policy(r).writes)
                <5>1. stored'[r] = stored[r]
                    BY <1>3, <4>2
                <5> QED BY <4>2, <5>1 DEF ClearedAt
            <4> QED BY <4>1, <4>2
        <3>2. queued' = IF cleared(r) THEN queued ELSE queued \cup {next}
            <4>1. CASE cleared(r)
                BY <1>3, <4>1
            <4>2. CASE ~ cleared(r)
                <5>1. queue'[r] = queue[r] \cup {entry(r)} /\ entry(r).credit = next
                    BY <1>3, <1>6, <2>3, <4>2
                <5> QED BY <4>2, <5>1
            <4> QED BY <4>1, <4>2
        <3>3. next \notin ClearedAt(r) /\ next \notin queued
            BY <1>2 DEF GateInv, Past, ClearedAt
        <3>4. /\ ClearedAt(r) \cap queued = {}
              /\ Policy(r).writes => Processed(r) \subseteq ClearedAt(r) \cup queued
            BY <2>1 DEF Honest
        <3>5. Processed(r)' \subseteq Processed(r) \cup {next}
            <4>1. Processed(r) = {c \in 1 .. next - 1 : ~ Credit(c).raising}
                BY <2>3 DEF Processed, Running
            <4>2. Processed(r)' \subseteq {c \in 1 .. next : ~ Credit(c).raising}
                BY <1>1, <1>2, <1>7 DEF Processed
            <4> QED BY <1>2, <4>1, <4>2
        <3> HIDE DEF queued
        <3>6. /\ ClearedAt(r)' \cap queued' = {}
              /\ Policy(r).writes => Processed(r)' \subseteq ClearedAt(r)' \cup queued'
            BY <3>1, <3>2, <3>3, <3>4, <3>5
        <3>7. ASSUME NEW e \in queue'[r]
              PROVE  /\ e.class = "AMBIGUOUS_DECOMPOSITION" =>
                           \E M, N \in Explanations(e.credit) : M # N
                     /\ e.class = "STRUCTURALLY_INFEASIBLE" =>
                           /\ Explanations(e.credit) # {}
                           /\ Policy(r).writes => SoundOnes(r, e.credit)' = {}
            <4>1. CASE e \in queue[r]
                <5>1. e.credit \in Nat /\ e.credit <= next
                    BY <1>2, <4>1 DEF GateInv, Past, TypeOK, Exceptions
                <5> QED BY <1>8, <2>1, <4>1, <5>1 DEF Honest
            <4>2. CASE e \notin queue[r]
                <5>1. e = entry(r)
                    BY <1>a, <4>2
                <5>2. e.credit = next /\ e.class = J(r).class
                    BY <1>6, <5>1
                <5>3. Policy(r).writes => SoundOnes(r, next) = SoundGiven(next, parents[r])
                    BY BeforeIsParents, SoundOnesAre
                <5>4. \A c \in Nat : c = next /\ Policy(r).writes =>
                            SoundOnes(r, c)' = SoundGiven(next, parents[r])
                    BY <1>2, <1>8, <5>3
                <5> QED BY <1>2, <1>5, <5>2, <5>4 DEF Justified
            <4> QED BY <4>1, <4>2
        <3>8. \A e \in log'[r] : e.rule = "fallback_no_delta" => e.accepted
            <4>1. Payload(J(r)).rule = J(r).rule /\ Payload(J(r)).accepted = J(r).accepted
                BY DEF Payload
            <4>2. J(r).rule = "fallback_no_delta" => J(r).accepted
                BY <1>5 DEF Justified
            <4> QED BY <1>a, <2>1, <4>1, <4>2 DEF Honest
        <3> QED BY <1>7, <3>6, <3>7, <3>8 DEF Honest, queued
    <2> QED BY <2>2, <2>3
<1> QED BY <1>9, <1>10, <1>11, <1>12, <1>13, <1>14 DEF GateInv

\* A step that writes no row and no exception and moves on past credits it does not judge.
LEMMA QuietKeeps ==
    ASSUME GateInv, stmt' = stmt, stored' = stored, queue' = queue, parents' = parents,
           next' \in Nat, next <= next', next' <= Len(stmt.credits) + 1,
           \A r \in Rungs : \A e \in log'[r] :
               e \notin log[r] => e.credit \in DOMAIN stmt.credits /\ e.rule = "trace_raised",
           ended' \in [Rungs -> {"running", "exported", "refused", "raised", "halted"}],
           \A r \in Rungs : ended'[r] \in {"exported", "refused"} => next' > Len(stmt.credits),
           \A r \in Rungs : Processed(r)' \subseteq Processed(r)
    PROVE  GateInv'
<1>1. /\ \A c : Explanations(c)' = Explanations(c) /\ Named(c)' = Named(c)
      /\ \A r : Policy(r)' = Policy(r)
      /\ Rows' = Rows /\ Exceptions' = Exceptions
    BY StatementStays
<1>2. /\ next \in 1 .. Len(stmt.credits) + 1 /\ Len(stmt.credits) \in Nat
      /\ DOMAIN stmt.credits = 1 .. Len(stmt.credits)
    BY GateConstants DEF GateInv, TypeOK
<1>3. TypeOK'
    BY <1>1, <1>2 DEF GateInv, TypeOK
<1>4. Past'
    <2>1. \A r \in Rungs : /\ \A w \in stored[r] : w.credit \in Nat /\ w.credit < next
                           /\ \A e \in queue[r] : e.credit \in Nat /\ e.credit < next
        BY <1>2 DEF GateInv, Past, TypeOK, Rows, Exceptions
    <2> QED BY <1>2, <2>1 DEF Past
<1>5. ParentsAreRows' /\ LoopIsOver'
    BY <1>1 DEF GateInv, ParentsAreRows, LoopIsOver
<1>6. \A r, c : SoundOnes(r, c)' = SoundOnes(r, c)
    <2> TAKE r, c
    <2>1. ClearedBefore(r, c)' = ClearedBefore(r, c)
        BY DEF ClearedBefore
    <2> QED BY <2>1, SoundOnesStay
<1>7. OneExplanation'
    BY <1>1, <1>6 DEF GateInv, OneExplanation
<1>8. QueueIsHonest'
    <2> SUFFICES ASSUME NEW r \in Rungs PROVE Honest(r)'
        BY HonestIs
    <2>1. Honest(r) /\ ClearedAt(r)' = ClearedAt(r)
        BY HonestIs DEF GateInv, ClearedAt
    <2>2. \A e \in log'[r] : e.rule = "fallback_no_delta" => e.accepted
        BY <2>1 DEF Honest
    <2> QED BY <1>1, <1>6, <2>1, <2>2 DEF Honest
<1> QED BY <1>3, <1>4, <1>5, <1>7, <1>8 DEF GateInv

LEMMA RaiseKeeps == GateInv /\ Raise => GateInv'
<1> SUFFICES ASSUME GateInv, Raise PROVE GateInv'
    OBVIOUS
<1>1. /\ stmt' = stmt /\ parents' = parents /\ stored' = stored /\ queue' = queue
      /\ next' = next + 1 /\ next <= Len(stmt.credits) /\ Credit(next).raising
    BY DEF Raise
<1>2. /\ next \in 1 .. Len(stmt.credits) + 1 /\ Len(stmt.credits) \in Nat
      /\ DOMAIN stmt.credits = 1 .. Len(stmt.credits)
    BY GateConstants DEF GateInv, TypeOK
<1>3. Raised(next).credit = next /\ Raised(next).rule = "trace_raised"
    BY DEF Raised
<1>4. \A r \in Rungs : log'[r] = log[r] \/ log'[r] = log[r] \cup {Raised(next)}
    <2> TAKE r \in Rungs
    <2>1. CASE stmt.flags.trace
        BY <2>1 DEF Raise
    <2>2. CASE ~ stmt.flags.trace
        BY <2>2 DEF Raise
    <2> QED BY <2>1, <2>2
<1>5. \A r \in Rungs : ended'[r] = ended[r] \/ ended'[r] = "raised"
    <2> TAKE r \in Rungs
    <2>1. CASE stmt.flags.trace
        BY <2>1 DEF Raise
    <2>2. CASE ~ stmt.flags.trace
        BY <2>2 DEF Raise
    <2> QED BY <2>1, <2>2
<1>6. ended' \in [Rungs -> {"running", "exported", "refused", "raised", "halted"}]
    <2>1. ended \in [Rungs -> {"running", "exported", "refused", "raised", "halted"}]
        BY DEF GateInv, TypeOK
    <2>2. CASE stmt.flags.trace
        BY <2>1, <2>2 DEF Raise
    <2>3. CASE ~ stmt.flags.trace
        BY <2>1, <2>3 DEF Raise
    <2> QED BY <2>2, <2>3
<1>7. \A r \in Rungs : Processed(r)' \subseteq Processed(r)
    <2>1. \A c : Credit(c)' = Credit(c)
        BY <1>1 DEF Credit
    <2>2. \A c \in 1 .. next : ~ Credit(c).raising => c \in 1 .. next - 1
        BY <1>1, <1>2
    <2> QED BY <1>1, <1>2, <1>5, <2>1, <2>2 DEF Processed
<1>8. \A r \in Rungs : ended'[r] \in {"exported", "refused"} => next' > Len(stmt.credits)
    BY <1>1, <1>2, <1>5 DEF GateInv, LoopIsOver
<1>9. \A r \in Rungs : \A e \in log'[r] :
          e \notin log[r] => e.credit \in DOMAIN stmt.credits /\ e.rule = "trace_raised"
    BY <1>1, <1>2, <1>3, <1>4
<1> QED BY <1>1, <1>2, <1>6, <1>7, <1>8, <1>9, QuietKeeps

LEMMA ExportKeeps == GateInv /\ Export => GateInv'
<1> SUFFICES ASSUME GateInv, Export PROVE GateInv'
    OBVIOUS
<1>1. /\ stmt' = stmt /\ parents' = parents /\ stored' = stored /\ queue' = queue
      /\ log' = log /\ next' = next /\ next > Len(stmt.credits)
    BY DEF Export
<1>2. next \in 1 .. Len(stmt.credits) + 1 /\ Len(stmt.credits) \in Nat
    BY GateConstants DEF GateInv, TypeOK
<1>3. /\ ended' \in [Rungs -> {"running", "exported", "refused", "raised", "halted"}]
      /\ \A r \in Rungs : ended[r] \in {"halted", "raised"} => ended'[r] = ended[r]
    BY DEF Export, GateInv, TypeOK, Running
<1>4. \A r \in Rungs : Processed(r)' \subseteq Processed(r)
    BY <1>1, <1>3 DEF Processed, Credit
<1> QED BY <1>1, <1>2, <1>3, <1>4, QuietKeeps

LEMMA GateStep == GateInv /\ [Next]_vars => GateInv'
<1> SUFFICES ASSUME GateInv, [Next]_vars PROVE GateInv'
    OBVIOUS
<1>1. CASE Process
    BY <1>1, ProcessKeeps
<1>2. CASE Raise
    BY <1>2, RaiseKeeps
<1>3. CASE Export
    BY <1>3, ExportKeeps
<1>4. CASE UNCHANGED vars
    <2>1. /\ stmt' = stmt /\ parents' = parents /\ stored' = stored /\ queue' = queue
          /\ log' = log /\ next' = next /\ ended' = ended
        BY <1>4 DEF vars
    <2>2. /\ next \in 1 .. Len(stmt.credits) + 1 /\ Len(stmt.credits) \in Nat
          /\ ended \in [Rungs -> {"running", "exported", "refused", "raised", "halted"}]
          /\ \A r \in Rungs : ended[r] \in {"exported", "refused"} => next > Len(stmt.credits)
        BY GateConstants DEF GateInv, TypeOK, LoopIsOver
    <2>3. \A r \in Rungs : Processed(r)' \subseteq Processed(r)
        BY <2>1 DEF Processed, Credit
    <2> QED BY <2>1, <2>2, <2>3, QuietKeeps
<1> QED BY <1>1, <1>2, <1>3, <1>4 DEF Next, Stop

\* The inductive invariant: types, what is written is of credits the loop has been at, the
\* lifting set is what the rows hold, and every row and exception was justified.
THEOREM GateInvariant == Spec => []GateInv
BY GateInit, GateStep, PTL DEF Spec

-----------------------------------------------------------------------------
(***************************************************************************)
(* The ladder: what a rung below NORMAL clears.                            *)
(***************************************************************************)

\* More cleared before makes more sets sound, and the others are those whose refunds found
\* their parent there.
LEMMA SoundGrows ==
    ASSUME NEW items, NEW M, NEW book, NEW lo, NEW hi, lo \subseteq hi
    PROVE  /\ Sound(items, M, book, lo) => Sound(items, M, book, hi)
           /\ Sound(items, M, book, hi) /\ ~ Sound(items, M, book, lo) =>
                 \E i \in Of(items, M, "REFUND") : items[i].parent \in hi \ lo
BY DEF Sound, RefundHasParent

\* What the search and the disambiguation make of a credit under a policy.
FoundBy(c, policy) == IF policy.search THEN Solve(c) ELSE Unsearched
SolveAt(c, policy, cleared) ==
    Settled(Named(c), FoundBy(c, policy), Tie(c, FoundBy(c, policy), cleared))
Holds(c, solve) ==
    VerifyDecomposition(Credit(c).paise, Members(Named(c), solve), stmt.items, stmt.book).accepted

LEMMA ClearsWhen ==
    ASSUME NEW c, NEW policy, NEW cleared
    PROVE  LET j == Judge(c, policy, cleared)
               solve == SolveAt(c, policy, cleared)
           IN  /\ j.members = Members(Named(c), solve)
               /\ j.disposition = "CLEARED" <=> /\ Holds(c, solve) /\ Full(solve)
                                                /\ Unresolved(c, policy) = {}
                                                /\ Credit(c).confident
BY DEF Judge, Searched, Explained, Verified, Weigh, Conclusion, SolveAt, FoundBy, Holds, Full

\* The sets a tie is broken over, and what breaking it gives.
Tied(c, found) ==
    IF /\ stmt.flags.disambiguation /\ found.uniqueness = "AMBIGUOUS"
       /\ found.scope = "FULL" /\ Credit(c).effort # "SHORT"
    THEN Enumerated(Explanations(c), stmt.cfg.cap) ELSE Enumerated({}, stmt.cfg.cap)
SoundOf(L, cleared) == {M \in L : Sound(stmt.items, M, stmt.book, cleared)}
Settles(L) == L # {} /\ Cardinality(L) < stmt.cfg.cap

LEMMA TieIs ==
    ASSUME NEW c, NEW found, NEW cleared
    PROVE  Tie(c, found, cleared).unique =
              IF Settles(Tied(c, found)) /\ Cardinality(SoundOf(Tied(c, found), cleared)) = 1
              THEN SoundOf(Tied(c, found), cleared) ELSE {}
BY DEF Tie, Disambiguate, Tied, SoundOf, Settles

LEMMA TiedArePools ==
    ASSUME stmt \in Statements, NEW c, NEW found
    PROVE  /\ IsFiniteSet(Tied(c, found)) \/ ~ Settles(Tied(c, found))
           /\ Settles(Tied(c, found)) => \A M \in Tied(c, found) : M \subseteq Pool(c)
           /\ found.uniqueness # "AMBIGUOUS" => ~ Settles(Tied(c, found))
<1>1. stmt.cfg.cap \in Nat /\ IsFiniteSet({}) /\ Cardinality({}) = 0
    BY GateConstants, FS_EmptySet
<1>2. Enumerated({}, stmt.cfg.cap) = {}
    BY <1>1 DEF Enumerated
<1>3. CASE Tied(c, found) = {}
    BY <1>1, <1>3 DEF Settles
<1>4. CASE Tied(c, found) # {}
    <2> DEFINE sets == Explanations(c)
    <2>1. Tied(c, found) = Enumerated(sets, stmt.cfg.cap) /\ found.uniqueness = "AMBIGUOUS"
        BY <1>2, <1>4 DEF Tied
    <2>2. IsFiniteSet(sets) /\ \A M \in sets : M \subseteq Pool(c)
        BY PoolIsFinite
    <2> HIDE DEF sets
    <2>3. Tied(c, found) \subseteq sets
        <3>1. CASE Cardinality(sets) <= stmt.cfg.cap
            BY <2>1, <3>1 DEF Enumerated
        <3>2. CASE ~ (Cardinality(sets) <= stmt.cfg.cap)
            <4>1. Cardinality(sets) \in Nat
                BY <2>2, FS_CardinalityType
            <4>2. kSubset(stmt.cfg.cap, sets) # {}
                BY <1>1, <2>2, <3>2, <4>1, SubsetOfSize
            <4>3. Tied(c, found) \in kSubset(stmt.cfg.cap, sets)
                BY <2>1, <3>2, <4>2 DEF Enumerated
            <4> QED BY <4>3 DEF kSubset
        <3> QED BY <3>1, <3>2
    <2> QED BY <2>1, <2>2, <2>3, FS_Subset
<1> QED BY <1>3, <1>4

\* NORMAL and the rungs below, of one credit: what a rung clears, NORMAL clears with the same
\* members, unless what it cleared before lifts a refund of the pool.
LEMMA NormalFollows ==
    ASSUME stmt \in Statements, NEW c, NEW rung \in {"NO_MODEL", "NO_SEARCH"},
           NEW lo, NEW hi, lo \subseteq hi,
           Judge(c, PolicyFor(rung), lo).disposition = "CLEARED"
    PROVE  LET normal == Judge(c, PolicyFor("NORMAL"), hi)
           IN  IF normal.disposition = "CLEARED"
               THEN normal.members = Judge(c, PolicyFor(rung), lo).members
               ELSE \E i \in Of(stmt.items, Pool(c), "REFUND") :
                        stmt.items[i].parent \in hi \ lo
<1> DEFINE policy == PolicyFor(rung)
           normal == PolicyFor("NORMAL")
           found == Solve(c)
           list == Tied(c, found)
           low == SolveAt(c, policy, lo)
           high == SolveAt(c, normal, hi)
<1>1. /\ normal.search /\ normal.model /\ ~ policy.model
      /\ policy.search <=> rung = "NO_MODEL"
    BY DEF PolicyFor
<1>2. Unresolved(c, policy) = {} => Unresolved(c, normal) = {}
    BY <1>1 DEF Unresolved
<1>3. /\ Holds(c, low) /\ Full(low) /\ Unresolved(c, policy) = {} /\ Credit(c).confident
      /\ Judge(c, policy, lo).members = Members(Named(c), low)
      /\ Judge(c, normal, hi).members = Members(Named(c), high)
      /\ Judge(c, normal, hi).disposition = "CLEARED" <=> Holds(c, high) /\ Full(high)
    BY <1>2, ClearsWhen
<1>4. rung = "NO_MODEL"
    <2> SUFFICES ASSUME rung # "NO_MODEL" PROVE FALSE
        OBVIOUS
    <2>1. FoundBy(c, policy) = Unsearched /\ Unsearched.uniqueness = "NONE_FOUND"
        BY <1>1 DEF FoundBy, Unsearched, Found
    <2>2. Tie(c, Unsearched, lo).unique = {}
        BY <2>1, TieIs, TiedArePools
    <2>3. low = Unsearched
        BY <2>1, <2>2 DEF SolveAt, Settled
    <2> QED BY <1>3, <2>1, <2>3 DEF Full
<1>5. FoundBy(c, policy) = found /\ FoundBy(c, normal) = found
    BY <1>1, <1>4 DEF FoundBy
<1> DEFINE mine == SoundOf(list, lo)
           more == SoundOf(list, hi)
           tieL == Tie(c, found, lo).unique
           tieH == Tie(c, found, hi).unique
<1>6. /\ tieL = IF Settles(list) /\ Cardinality(mine) = 1 THEN mine ELSE {}
      /\ tieH = IF Settles(list) /\ Cardinality(more) = 1 THEN more ELSE {}
    BY TieIs
<1>7. /\ low = IF tieL # {} /\ Named(c) = {} THEN Found("UNIQUE", "FULL", UNION tieL, {}) ELSE found
      /\ high = IF tieH # {} /\ Named(c) = {} THEN Found("UNIQUE", "FULL", UNION tieH, {}) ELSE found
    BY <1>5 DEF SolveAt, Settled
<1>8. /\ IsFiniteSet(list) \/ ~ Settles(list)
      /\ Settles(list) => \A M \in list : M \subseteq Pool(c)
      /\ found.uniqueness # "AMBIGUOUS" => ~ Settles(list)
    BY TiedArePools
<1> HIDE DEF policy, normal, found, list, low, high, tieL, tieH
<1>9. CASE low = high
    BY <1>3, <1>9 DEF policy, normal
<1>10. CASE low # high
    <2>1. Named(c) = {} /\ tieL # tieH
        BY <1>7, <1>10
    <2>2. Settles(list) /\ found.uniqueness = "AMBIGUOUS" /\ IsFiniteSet(list)
        BY <1>6, <1>8, <2>1
    <2>3. tieL # {} /\ tieL = mine /\ Cardinality(mine) = 1
        BY <1>3, <1>6, <1>7, <2>2 DEF Full
    <2>4. PICK M : mine = {M}
        <3>1. IsFiniteSet(mine)
            BY <2>2, FS_Subset DEF SoundOf
        <3> QED BY <2>3, <3>1, FS_Singleton
    <2>5. mine \subseteq more
        BY SoundGrows DEF SoundOf
    <2>6. Cardinality(more) # 1
        <3> SUFFICES ASSUME Cardinality(more) = 1 PROVE FALSE
            OBVIOUS
        <3>1. IsFiniteSet(more)
            BY <2>2, FS_Subset DEF SoundOf
        <3>2. PICK N : more = {N}
            BY <3>1, FS_Singleton
        <3>3. more = mine
            BY <2>4, <2>5, <3>2
        <3> QED BY <1>6, <2>1, <2>2, <2>3, <3>3
    <2>7. high = found /\ ~ Full(high)
        BY <1>6, <1>7, <2>2, <2>6 DEF Full
    <2>8. more # {M}
        BY <2>6, FS_Singleton
    <2>9. PICK N \in more : N \notin mine
        BY <2>4, <2>5, <2>8
    <2>10. PICK i \in Of(stmt.items, N, "REFUND") : stmt.items[i].parent \in hi \ lo
        BY <2>9, SoundGrows DEF SoundOf
    <2>11. i \in Of(stmt.items, Pool(c), "REFUND")
        BY <1>8, <2>2, <2>9, <2>10 DEF Of, SoundOf
    <2> QED BY <1>3, <2>7, <2>10, <2>11 DEF policy, normal
<1> QED BY <1>9, <1>10

\* The rungs run side by side; and one that cleared nothing more than NORMAL cleared it with
\* NORMAL's members.
Abreast == \A r \in Lower : ended[r] = "running" => ended["NORMAL"] = "running"
Shadows ==
    \A r \in Lower : ClearedAt(r) \subseteq ClearedAt("NORMAL") => stored[r] \subseteq stored["NORMAL"]

LadderInv == Abreast /\ Shadows /\ OnlyParentsLift

LEMMA LadderInit == Init => LadderInv
<1> SUFFICES ASSUME Init PROVE LadderInv
    OBVIOUS
<1>1. Abreast
    BY DEF Init, Abreast, Lower, Rungs, Policy, Active, PolicyFor
<1>2. Shadows /\ OnlyParentsLift
    BY DEF Init, Empty, Shadows, OnlyParentsLift, ClearedAt, Lower, Rungs
<1> QED BY <1>1, <1>2 DEF LadderInv

\* A credit is lifted at a rung: it is not the first that NORMAL did not clear, or NORMAL had
\* cleared the parent of a refund that may be in it.
Lifted(r, c) ==
    \/ \E d \in ClearedAt(r) \ ClearedAt("NORMAL") : d < c
    \/ \E i \in Of(stmt.items, Pool(c), "REFUND") :
          stmt.items[i].parent \in ClearedBefore("NORMAL", c) \ ClearedBefore(r, c)

LEMMA LiftedIs == /\ OnlyParentsLift <=>
                        \A r \in Lower : \A c \in ClearedAt(r) \ ClearedAt("NORMAL") : Lifted(r, c)
                  /\ OnlyParentsLift' <=>
                        \A r \in Lower' : \A c \in (ClearedAt(r) \ ClearedAt("NORMAL"))' : Lifted(r, c)'
BY DEF OnlyParentsLift, Lifted

\* What the rungs add of the credit the loop is at.
LEMMA ProcessAdds ==
    ASSUME Process, NEW r \in Rungs
    PROVE  LET j == Judge(next, Policy(r), parents[r])
               clears == r \in Running /\ j.disposition = "CLEARED" /\ Policy(r).writes
           IN  /\ stored'[r] = IF clears THEN stored[r] \cup {[credit |-> next, members |-> j.members]}
                               ELSE stored[r]
               /\ ClearedAt(r)' = IF clears THEN ClearedAt(r) \cup {next} ELSE ClearedAt(r)
<1> DEFINE j == Judge(next, Policy(r), parents[r])
           clears == r \in Running /\ j.disposition = "CLEARED" /\ Policy(r).writes
           row == [credit |-> next, members |-> j.members]
<1>1. stored'[r] = IF clears THEN stored[r] \cup {row} ELSE stored[r]
    BY Zenon DEF Process, Book, With
<1>2. row.credit = next
    OBVIOUS
<1> HIDE DEF row, clears
<1>3. ClearedAt(r)' = IF clears THEN ClearedAt(r) \cup {next} ELSE ClearedAt(r)
    BY <1>1, <1>2 DEF ClearedAt
<1> QED BY <1>1, <1>3 DEF row, clears

LEMMA ProcessLifts ==
    ASSUME GateInv, LadderInv, Process
    PROVE  LadderInv'
<1> DEFINE J(r) == Judge(next, Policy(r), parents[r])
           clears(r) == r \in Running /\ J(r).disposition = "CLEARED" /\ Policy(r).writes
           row(r) == [credit |-> next, members |-> J(r).members]
<1>1. /\ stmt' = stmt /\ ended' = ended /\ next' = next + 1
      /\ next <= Len(stmt.credits)
    BY DEF Process
<1>2. /\ stmt \in Statements /\ next \in Nat
    BY <1>1, GateConstants DEF GateInv, TypeOK
<1>3. Lower' = Lower /\ Lower \subseteq {"NO_MODEL", "NO_SEARCH"} /\ "NORMAL" \in Rungs
      /\ \A r \in Lower : r \in Rungs
    BY <1>1 DEF Lower, Rungs
<1>4. \A r \in Rungs : /\ stored'[r] = IF clears(r) THEN stored[r] \cup {row(r)} ELSE stored[r]
                       /\ ClearedAt(r)' = IF clears(r) THEN ClearedAt(r) \cup {next} ELSE ClearedAt(r)
    BY ProcessAdds
<1>5. \A r \in Rungs : next \notin ClearedAt(r)
    BY <1>2 DEF GateInv, Past, ClearedAt
<1>6. \A r \in Lower : /\ Policy(r) = PolicyFor(r) /\ Policy("NORMAL") = PolicyFor("NORMAL")
                       /\ Policy(r).writes /\ Policy("NORMAL").writes
    BY DEF Lower, Policy, Active, PolicyFor
<1>7. ASSUME NEW r \in Lower, clears(r), stored[r] \subseteq stored["NORMAL"]
      PROVE  IF clears("NORMAL") THEN J("NORMAL").members = J(r).members
             ELSE \E i \in Of(stmt.items, Pool(next), "REFUND") :
                     stmt.items[i].parent \in parents["NORMAL"] \ parents[r]
    <2>1. parents[r] \subseteq parents["NORMAL"]
        <3>1. /\ parents[r] = UNION {w.members : w \in stored[r]}
              /\ parents["NORMAL"] = UNION {w.members : w \in stored["NORMAL"]}
            BY <1>3, <1>6 DEF GateInv, ParentsAreRows
        <3> QED BY <1>7, <3>1
    <2>2. "NORMAL" \in Running
        BY <1>3, <1>7 DEF LadderInv, Abreast, Running
    <2>3. J(r).disposition = "CLEARED"
        BY <1>7
    <2>4. IF J("NORMAL").disposition = "CLEARED" THEN J("NORMAL").members = J(r).members
          ELSE \E i \in Of(stmt.items, Pool(next), "REFUND") :
                  stmt.items[i].parent \in parents["NORMAL"] \ parents[r]
        BY <1>2, <1>3, <1>6, <2>1, <2>3, NormalFollows
    <2> QED BY <1>6, <2>2, <2>4
<1>8. \A r \in Rungs : Policy(r).writes => ClearedBefore(r, next) = parents[r]
    BY BeforeIsParents
<1>9. \A r \in Rungs : \A c \in Nat : c <= next => ClearedBefore(r, c)' = ClearedBefore(r, c)
    <2> TAKE r \in Rungs
    <2> TAKE c \in Nat
    <2> HAVE c <= next
    <2>1. row(r).credit = next
        OBVIOUS
    <2> HIDE DEF row
    <2>2. \A w \in stored'[r] : w \in stored[r] \/ w.credit = next
        BY <1>4, <2>1
    <2>3. stored[r] \subseteq stored'[r]
        BY <1>4
    <2> QED BY <1>2, <2>2, <2>3, BeforeStays
<1>10. \A c : Pool(c)' = Pool(c)
    BY <1>1 DEF Pool, Credit
<1>11. \A r \in Rungs : \A c \in ClearedAt(r) : c \in Nat /\ c <= next
    BY <1>2, GateConstants DEF GateInv, TypeOK, Past, Rows, ClearedAt
<1> HIDE DEF J, clears, row
<1>12. Abreast'
    BY <1>1, <1>3 DEF LadderInv, Abreast
<1>13. Shadows'
    <2> SUFFICES ASSUME NEW r \in Lower, ClearedAt(r)' \subseteq ClearedAt("NORMAL")'
                 PROVE  stored'[r] \subseteq stored'["NORMAL"]
        BY <1>3 DEF Shadows
    <2>1. ClearedAt(r) \subseteq ClearedAt("NORMAL")
        BY <1>3, <1>4, <1>5
    <2>2. stored[r] \subseteq stored["NORMAL"]
        BY <2>1 DEF LadderInv, Shadows
    <2>3. CASE clears(r)
        <3>1. clears("NORMAL")
            BY <1>3, <1>4, <1>5, <2>3
        <3>2. row(r) = row("NORMAL")
            BY <1>7, <2>2, <2>3, <3>1 DEF row
        <3> QED BY <1>3, <1>4, <2>2, <2>3, <3>1, <3>2
    <2>4. CASE ~ clears(r)
        BY <1>3, <1>4, <2>2, <2>4
    <2> QED BY <2>3, <2>4
<1>14. OnlyParentsLift'
    <2> SUFFICES ASSUME NEW r \in Lower, NEW c \in (ClearedAt(r) \ ClearedAt("NORMAL"))'
                 PROVE  Lifted(r, c)'
        BY <1>3, LiftedIs
    <2> DEFINE ahead == ClearedAt(r) \ ClearedAt("NORMAL")
    <2>1. ahead \subseteq ahead'
        BY <1>3, <1>4, <1>5, <1>11
    <2>2. CASE c \in ahead
        <3>1. Lifted(r, c)
            BY <2>2, LiftedIs DEF LadderInv
        <3>2. c \in Nat /\ c <= next
            BY <1>3, <1>11, <2>2
        <3>3. /\ ClearedBefore(r, c)' = ClearedBefore(r, c)
              /\ ClearedBefore("NORMAL", c)' = ClearedBefore("NORMAL", c)
            BY <1>3, <1>9, <3>2
        <3> HIDE DEF ahead
        <3>4. \/ \E d \in ahead : d < c
              \/ \E i \in Of(stmt.items, Pool(c), "REFUND") :
                    stmt.items[i].parent \in ClearedBefore("NORMAL", c) \ ClearedBefore(r, c)
            BY <3>1 DEF Lifted, ahead
        <3> QED BY <1>1, <1>10, <2>1, <3>3, <3>4 DEF Lifted, ahead
    <2>3. CASE c \notin ahead /\ ahead # {}
        <3>1. c = next
            BY <1>3, <1>4, <2>3
        <3>2. PICK d \in ahead : d \in Nat /\ d < next
            BY <1>2, <1>3, <1>5, <1>11, <2>3
        <3>3. d \in ahead' /\ d < c
            BY <2>1, <3>1, <3>2
        <3> QED BY <3>3 DEF Lifted
    <2>4. CASE c \notin ahead /\ ahead = {}
        <3>1. c = next /\ clears(r) /\ ~ clears("NORMAL")
            BY <1>3, <1>4, <2>4
        <3>2. stored[r] \subseteq stored["NORMAL"]
            BY <2>4 DEF LadderInv, Shadows
        <3>3. PICK i \in Of(stmt.items, Pool(next), "REFUND") :
                 stmt.items[i].parent \in parents["NORMAL"] \ parents[r]
            BY <1>7, <3>1, <3>2
        <3>4. /\ ClearedBefore(r, next) = parents[r]
              /\ ClearedBefore("NORMAL", next) = parents["NORMAL"]
            BY <1>3, <1>6, <1>8
        <3>5. \A d \in Nat : d = next =>
                 /\ ClearedBefore(r, d)' = parents[r]
                 /\ ClearedBefore("NORMAL", d)' = parents["NORMAL"]
            BY <1>2, <1>3, <1>9, <3>4
        <3> QED BY <1>1, <1>2, <1>10, <3>1, <3>3, <3>5 DEF Lifted
    <2> QED BY <2>2, <2>3, <2>4
<1> QED BY <1>12, <1>13, <1>14 DEF LadderInv

LEMMA LadderStep == GateInv /\ LadderInv /\ [Next]_vars => LadderInv'
<1> SUFFICES ASSUME GateInv, LadderInv, [Next]_vars PROVE LadderInv'
    OBVIOUS
<1>1. CASE Process
    BY <1>1, ProcessLifts
<1>2. CASE Raise \/ Export \/ UNCHANGED vars
    <2>1. stmt' = stmt /\ stored' = stored
        BY <1>2 DEF Raise, Export, vars
    <2>2. Lower' = Lower /\ (\A r : ClearedAt(r)' = ClearedAt(r)) /\ (\A c : Pool(c)' = Pool(c))
          /\ \A r, c : ClearedBefore(r, c)' = ClearedBefore(r, c)
        BY <2>1 DEF Lower, ClearedAt, Pool, Credit, ClearedBefore
    <2>3. Shadows'
        BY <2>1, <2>2 DEF LadderInv, Shadows
    <2>4. OnlyParentsLift'
        BY <2>1, <2>2 DEF LadderInv, OnlyParentsLift
    <2>5. \A r \in Lower : ended'[r] = "running" => ended'["NORMAL"] = "running"
        <3>1. \A r \in Lower : r \in Rungs /\ "NORMAL" \in Rungs
            BY DEF Lower, Rungs
        <3>2. CASE Raise /\ stmt.flags.trace
            BY <3>2 DEF Raise, LadderInv, Abreast
        <3>3. CASE Raise /\ ~ stmt.flags.trace
            BY <3>1, <3>3 DEF Raise, LadderInv, Abreast, Running
        <3>4. CASE Export
            BY <3>1, <3>4 DEF Export, LadderInv, Abreast, Running
        <3>5. CASE UNCHANGED vars
            BY <3>5 DEF vars, LadderInv, Abreast
        <3> QED BY <1>2, <3>2, <3>3, <3>4, <3>5
    <2> QED BY <2>2, <2>3, <2>4, <2>5 DEF LadderInv, Abreast
<1> QED BY <1>1, <1>2 DEF Next, Stop

-----------------------------------------------------------------------------
(***************************************************************************)
(* What the verifier accepts.                                              *)
(***************************************************************************)

\* A function on the first places is a sequence of that length.
LEMMA AsSeq ==
    ASSUME NEW n \in Nat, NEW f, f \in [1 .. n -> Int]
    PROVE  f \in Seq(Int) /\ Len(f) = n
OBVIOUS

\* A ledger and rates as the statements have them.
Ledger(items, book) ==
    /\ items \in Seq(LedgerItem) /\ book \in RateTable
    /\ \A i \in DOMAIN items : items[i].instrument <= Len(book.fees)

LEMMA LedgerTyped ==
    ASSUME NEW items, NEW book, Ledger(items, book)
    PROVE  /\ DOMAIN items = 1 .. Len(items) /\ Len(items) \in Nat
           /\ PaiseOf(items) \in Seq(Int) /\ Len(PaiseOf(items)) = Len(items)
           /\ \A i \in DOMAIN items :
                 /\ PaiseOf(items)[i] = items[i].paise /\ items[i].paise \in Int
                 /\ items[i].instrument \in 0 .. Len(book.fees)
           /\ DOMAIN book.fees = 1 .. Len(book.fees) /\ Len(book.fees) \in Nat
<1>1. items \in Seq(LedgerItem) /\ book.fees \in Seq(Int)
    BY DEF Ledger, RateTable
<1>2. DOMAIN items = 1 .. Len(items) /\ Len(items) \in Nat
      /\ \A i \in 1 .. Len(items) : items[i] \in LedgerItem
    BY <1>1
<1>3. PaiseOf(items) \in [1 .. Len(items) -> Int]
    BY <1>2 DEF PaiseOf, LedgerItem
<1>4. PaiseOf(items) \in Seq(Int) /\ Len(PaiseOf(items)) = Len(items)
    BY <1>2, <1>3, AsSeq
<1> QED BY <1>1, <1>2, <1>4 DEF PaiseOf, LedgerItem, Ledger

\* The gross amount of each instrument's payments in M, and the rates due on them.
Paid(items, M, n) == {i \in Of(items, M, "PAYMENT") : items[i].instrument = n}
DueOn(items, M, book) ==
    RatesDue([n \in DOMAIN book.fees |-> Sum(PaiseOf(items), Paid(items, M, n))], book)
Operational(items, M) == {i \in M : items[i].kind \notin RateDerived}

\* One pass over the ledger's own lines, with the amounts of either side: they are the same.
LEMMA PassMeans ==
    ASSUME NEW items, NEW book, Ledger(items, book), NEW M, M \subseteq DOMAIN items,
           NEW paise, NEW declaredOps \in BOOLEAN, NEW missingOk,
           Accepted(VerifyOne(paise, LinesOf(items), M, items, book, declaredOps, missingOk), M)
    PROVE  /\ paise - (Sum(PaiseOf(items), Operational(items, M)) + DueOn(items, M, book).total) = 0
           /\ \A i \in M \ Operational(items, M) :
                 items[i].paise - Recomputed(LinesOf(items)[i], DueOn(items, M, book)) = 0
<1> DEFINE lines == LinesOf(items)
           known == {l \in M : lines[l].item \in DOMAIN items}
           rated == {l \in known : lines[l].kind \in RateDerived}
           ops == known \ rated
           amount == [l \in DOMAIN lines |->
                         IF l \notin ops THEN 0
                         ELSE IF declaredOps THEN lines[l].paise ELSE items[lines[l].item].paise]
           on(n) == {l \in ops : PaidOn(lines[l], items[lines[l].item], declaredOps) = n}
           gross == [n \in DOMAIN book.fees |-> Sum(amount, on(n))]
           due == RatesDue(gross, book)
           deltas == [l \in DOMAIN lines |->
                         IF l \in rated THEN lines[l].paise - Recomputed(lines[l], due) ELSE 0]
           fast == VerifyOne(paise, lines, M, items, book, declaredOps, missingOk)
<1>1. fast.residual = paise - (Sum(amount, ops) + due.total) /\ fast.deltas = deltas
    BY DEF VerifyOne
<1>2. fast.residual = 0 /\ \A i \in M : fast.deltas[i] = 0
    BY DEF Accepted
<1>3. /\ DOMAIN lines = DOMAIN items
      /\ \A i \in DOMAIN items : /\ lines[i].item = i /\ lines[i].kind = items[i].kind
                                 /\ lines[i].paise = items[i].paise
                                 /\ lines[i].instrument = items[i].instrument
    BY DEF LinesOf
<1>4. ops = Operational(items, M) /\ rated = M \ Operational(items, M)
    BY <1>3 DEF Operational
<1>5. /\ PaiseOf(items) \in Seq(Int) /\ Len(PaiseOf(items)) = Len(items) /\ Len(items) \in Nat
      /\ DOMAIN items = 1 .. Len(items)
      /\ \A i \in DOMAIN items : PaiseOf(items)[i] = items[i].paise /\ items[i].paise \in Int
      /\ DOMAIN book.fees = 1 .. Len(book.fees)
    BY LedgerTyped
<1>6. \A i \in DOMAIN items : i \in ops => amount[i] = PaiseOf(items)[i]
    BY <1>3, <1>5
<1>7. amount \in Seq(Int) /\ Len(amount) = Len(items)
    <2>1. amount \in [1 .. Len(items) -> Int]
        BY <1>3, <1>5
    <2> HIDE DEF amount
    <2> QED BY <1>5, <2>1, AsSeq
<1>8. \A n \in DOMAIN book.fees : on(n) = Paid(items, M, n)
    <2> TAKE n \in DOMAIN book.fees
    <2>1. n # None
        BY <1>5 DEF None
    <2>2. \A i \in ops : PaidOn(lines[i], items[lines[i].item], declaredOps) = n <=>
                            items[i].kind = "PAYMENT" /\ items[i].instrument = n
        BY <1>3, <2>1 DEF PaidOn, None
    <2>3. Paid(items, M, n) \subseteq ops
        BY <1>4 DEF Paid, Of, Operational, RateDerived
    <2>4. \A i \in ops : i \in M
        OBVIOUS
    <2> HIDE DEF ops, lines
    <2> QED BY <2>2, <2>3, <2>4 DEF Paid, Of
<1>9. \A C : C \subseteq ops => Sum(amount, C) = Sum(PaiseOf(items), C)
    <2> TAKE C
    <2> HAVE C \subseteq ops
    <2>1. \A k \in 1 .. Len(amount) : k \in C => amount[k] = PaiseOf(items)[k]
        BY <1>5, <1>6, <1>7
    <2> HIDE DEF amount, ops
    <2> QED BY <1>5, <1>7, <2>1, SumSame
<1>10. gross = [n \in DOMAIN book.fees |-> Sum(PaiseOf(items), Paid(items, M, n))]
    <2>1. \A n \in DOMAIN book.fees : Sum(amount, on(n)) = Sum(PaiseOf(items), Paid(items, M, n))
        <3>1. \A n : on(n) \subseteq ops
            OBVIOUS
        <3> HIDE DEF on, amount, ops
        <3> QED BY <1>8, <1>9, <3>1
    <2> HIDE DEF on, amount
    <2> QED BY <2>1
<1>11. due = DueOn(items, M, book)
    <2> HIDE DEF gross
    <2> QED BY <1>10 DEF DueOn
<1>12. Sum(amount, ops) = Sum(PaiseOf(items), Operational(items, M))
    <2> HIDE DEF amount, ops
    <2> QED BY <1>4, <1>9
<1>13. \A i \in rated : deltas[i] = items[i].paise - Recomputed(lines[i], due) /\ i \in M
    <2>1. \A i \in rated : i \in DOMAIN lines
        BY <1>3
    <2> HIDE DEF due
    <2> QED BY <1>3, <2>1
<1> HIDE DEF fast, deltas, due, amount, ops, rated
<1>14. \A i \in M \ Operational(items, M) : items[i].paise - Recomputed(lines[i], due) = 0
    BY <1>1, <1>2, <1>4, <1>13
<1> QED BY <1>1, <1>2, <1>11, <1>12, <1>14 DEF lines

\* A set that verifies: its operational amounts and the rates due on its payments come to the
\* credit, and its rate lines say what is due.
LEMMA AcceptedMeans ==
    ASSUME NEW items, NEW book, Ledger(items, book), NEW M, M \subseteq DOMAIN items, NEW paise,
           VerifyDecomposition(paise, M, items, book).accepted
    PROVE  /\ paise - (Sum(PaiseOf(items), Operational(items, M)) + DueOn(items, M, book).total) = 0
           /\ \A i \in M \ Operational(items, M) :
                 items[i].paise - Recomputed(LinesOf(items)[i], DueOn(items, M, book)) = 0
<1> DEFINE pass(d) == VerifyOne(paise, LinesOf(items), M, items, book, d, TRUE)
<1>1. Accepted(VerifyDeclared(paise, LinesOf(items), M, items, book, TRUE, TRUE), M)
    BY DEF VerifyDecomposition
<1>2. \E d \in BOOLEAN : VerifyDeclared(paise, LinesOf(items), M, items, book, TRUE, TRUE) = pass(d)
    BY DEF VerifyDeclared, Preferred
<1>3. PICK d \in BOOLEAN : Accepted(pass(d), M)
    BY <1>1, <1>2
<1> QED BY <1>3, PassMeans

LEMMA RatesTyped ==
    ASSUME NEW items, NEW book, Ledger(items, book), NEW M
    PROVE  LET due == DueOn(items, M, book)
           IN  /\ due.fee \in Seq(Int) /\ Len(due.fee) = Len(book.fees)
               /\ due.gst \in Seq(Int) /\ Len(due.gst) = Len(book.fees)
               /\ due.withheld \in Int /\ due.held \in Int
               /\ due.total = Sum(due.fee, 1 .. Len(book.fees)) + Sum(due.gst, 1 .. Len(book.fees))
                                 + due.withheld + due.held
<1> DEFINE gross == [n \in DOMAIN book.fees |-> Sum(PaiseOf(items), Paid(items, M, n))]
           fee == [n \in DOMAIN gross |-> - ApplyBps(gross[n], book.fees[n])]
           gst == [n \in DOMAIN gross |-> ApplyBps(fee[n], book.gst)]
           all == Sum(gross, DOMAIN gross)
           base == IF book.onGross THEN all ELSE - Sum(fee, DOMAIN fee)
           withheld == IF all > 0 THEN - ApplyBps(base, book.withholding) ELSE 0
           held == IF all > 0 THEN - ApplyBps(all, book.reserve) ELSE 0
           due == DueOn(items, M, book)
<1>1. \A a, b \in Int : ApplyBps(a, b) \in Int
    <2>1. \A n \in Int : (2 * n + 10000) \div 20000 \in Int
        OBVIOUS
    <2>2. \A a, b \in Int : a * b \in Int
        OBVIOUS
    <2> QED BY <2>1, <2>2 DEF ApplyBps, RoundHalfUp
<1>2. /\ due.fee = fee /\ due.gst = gst /\ due.withheld = withheld /\ due.held = held
      /\ due.total = Sum(fee, DOMAIN fee) + Sum(gst, DOMAIN gst) + withheld + held
    BY DEF DueOn, RatesDue
<1>3. /\ DOMAIN book.fees = 1 .. Len(book.fees) /\ Len(book.fees) \in Nat
      /\ \A n \in 1 .. Len(book.fees) : book.fees[n] \in Int
      /\ book.gst \in Int /\ book.withholding \in Int /\ book.reserve \in Int
    BY LedgerTyped DEF Ledger, RateTable
<1>4. gross \in [1 .. Len(book.fees) -> Int]
    <2>1. \A n \in 1 .. Len(book.fees) : Sum(PaiseOf(items), Paid(items, M, n)) \in Int
        BY LedgerTyped, SumTyped
    <2>2. gross = [n \in 1 .. Len(book.fees) |-> Sum(PaiseOf(items), Paid(items, M, n))]
        BY <1>3, Zenon
    <2> DEFINE s(n) == Sum(PaiseOf(items), Paid(items, M, n))
    <2>3. gross = [n \in 1 .. Len(book.fees) |-> s(n)] /\ \A n \in 1 .. Len(book.fees) : s(n) \in Int
        BY <2>1, <2>2
    <2> HIDE DEF gross, s
    <2> QED BY <2>3
<1> HIDE DEF gross
<1>5. DOMAIN gross = 1 .. Len(book.fees)
    BY <1>4
<1>6. fee \in [1 .. Len(book.fees) -> Int] /\ DOMAIN fee = 1 .. Len(book.fees)
    <2>1. \A n \in 1 .. Len(book.fees) : ApplyBps(gross[n], book.fees[n]) \in Int
        BY <1>1, <1>3, <1>4
    <2> DEFINE a(n) == ApplyBps(gross[n], book.fees[n])
    <2>2. fee = [n \in 1 .. Len(book.fees) |-> - a(n)]
        BY <1>5
    <2> HIDE DEF a, fee
    <2>3. \A n \in 1 .. Len(book.fees) : - a(n) \in Int
        BY <2>1 DEF a
    <2> QED BY <2>2, <2>3
<1> HIDE DEF fee
<1>7. gst \in [1 .. Len(book.fees) -> Int] /\ DOMAIN gst = 1 .. Len(book.fees)
    <2>1. \A n \in 1 .. Len(book.fees) : ApplyBps(fee[n], book.gst) \in Int
        BY <1>1, <1>3, <1>6
    <2> DEFINE a(n) == ApplyBps(fee[n], book.gst)
    <2>2. gst = [n \in 1 .. Len(book.fees) |-> a(n)]
        BY <1>5
    <2>3. \A n \in 1 .. Len(book.fees) : a(n) \in Int
        BY <2>1
    <2> HIDE DEF a, gst
    <2> QED BY <2>2, <2>3
<1> HIDE DEF gst
<1>8. /\ gross \in Seq(Int) /\ fee \in Seq(Int) /\ gst \in Seq(Int)
      /\ Len(fee) = Len(book.fees) /\ Len(gst) = Len(book.fees)
    BY <1>3, <1>4, <1>6, <1>7, AsSeq
<1>9. all \in Int /\ base \in Int
    BY <1>8, SumTyped
<1> HIDE DEF all, base
<1>10. withheld \in Int /\ held \in Int
    <2>1. ApplyBps(base, book.withholding) \in Int /\ ApplyBps(all, book.reserve) \in Int
        BY <1>1, <1>3, <1>9
    <2> QED BY <2>1
<1> HIDE DEF withheld, held, due
<1> QED BY <1>2, <1>6, <1>7, <1>8, <1>10 DEF due

\* Lines of one kind that are each what is due, once if anything is due, come to what is due.
LEMMA OnceIsDue ==
    ASSUME NEW w \in Seq(Int), NEW I, I \subseteq 1 .. Len(w), NEW amount \in Int,
           \A i \in I : w[i] = amount,
           Cardinality(I) = IF amount = 0 THEN 0 ELSE 1
    PROVE  Sum(w, I) = amount
<1>1. IsFiniteSet(I)
    <2>1. IsFiniteSet(1 .. Len(w))
        BY FS_Interval
    <2> QED BY <2>1, FS_Subset
<1>2. CASE amount = 0
    BY <1>2, SumZero
<1>3. CASE amount # 0
    <2>1. PICK i : I = {i}
        BY <1>1, <1>3, FS_Singleton
    <2> QED BY <2>1, SumSingle
<1> QED BY <1>2, <1>3

\* The fee lines, and the tax lines, of all instruments: those without one are of nothing.
LEMMA LinesAreDue ==
    ASSUME NEW items, NEW book, Ledger(items, book), NEW A, A \subseteq DOMAIN items,
           NEW f \in Seq(Int), Len(f) = Len(book.fees),
           \A i \in A : items[i].paise = IF items[i].instrument = None THEN 0
                                         ELSE f[items[i].instrument],
           \A n \in 1 .. Len(f) : Cardinality({i \in A : items[i].instrument = n}) =
                                     IF f[n] = 0 THEN 0 ELSE 1
    PROVE  Sum(PaiseOf(items), A) = Sum(f, 1 .. Len(f))
<1> DEFINE w == PaiseOf(items)
           none == {i \in A : items[i].instrument = None}
           rest == {i \in A : items[i].instrument # None}
           g == [i \in DOMAIN items |-> items[i].instrument]
           of(n) == {i \in rest : g[i] = n}
<1>1. /\ w \in Seq(Int) /\ Len(w) = Len(items) /\ DOMAIN items = 1 .. Len(items)
      /\ \A i \in DOMAIN items : w[i] = items[i].paise /\ items[i].instrument \in 0 .. Len(book.fees)
      /\ Len(book.fees) \in Nat
    BY LedgerTyped
<1> HIDE DEF w
<1>2. Sum(w, none) = 0
    BY <1>1, SumZero
<1>3. \A i \in rest : g[i] \in 1 .. Len(f)
    BY <1>1 DEF None
<1>4. \A n \in 1 .. Len(f) : Sum(w, of(n)) = f[n]
    <2> TAKE n \in 1 .. Len(f)
    <2>1. of(n) = {i \in A : items[i].instrument = n}
        BY DEF None
    <2>2. \A i \in of(n) : w[i] = f[n]
        BY <1>1 DEF None
    <2>3. of(n) \subseteq 1 .. Len(w) /\ f[n] \in Int
        BY <1>1
    <2>4. Cardinality(of(n)) = IF f[n] = 0 THEN 0 ELSE 1
        BY <2>1
    <2> HIDE DEF of
    <2> QED BY <1>1, <2>2, <2>3, <2>4, OnceIsDue
<1>5. Sum(w, rest) = Sum(f, 1 .. Len(f))
    <2> HIDE DEF rest, g
    <2> QED BY <1>1, <1>3, <1>4, SumGroups, ZenonT(60)
<1>6. A = none \cup rest /\ none \cap rest = {}
    OBVIOUS
<1>7. Sum(w, rest) \in Int
    BY <1>1, SumTyped
<1> HIDE DEF none, rest
<1>8. Sum(w, A) = Sum(w, none) + Sum(w, rest)
    BY <1>1, <1>6, SumSplit
<1> QED BY <1>2, <1>5, <1>7, <1>8 DEF w

\* The items of a statement and its rates are a ledger.
LEMMA StatementIsLedger ==
    ASSUME stmt \in Statements
    PROVE  /\ Ledger(stmt.items, stmt.book)
           /\ DOMAIN stmt.credits = 1 .. Len(stmt.credits) /\ Len(stmt.credits) \in Nat
           /\ \A c \in DOMAIN stmt.credits : Credit(c).paise \in Int
BY GateConstants DEF Ledger, Credit

\* What "itemised" says, with the rates due on the members' payments.
LEMMA ItemisedMeans ==
    ASSUME NEW M, Itemised(M)
    PROVE  LET items == stmt.items
               due == DueOn(items, M, stmt.book)
               lines(kind, n) == {i \in Of(items, M, kind) : items[i].instrument = n}
           IN  /\ \A n \in DOMAIN stmt.book.fees :
                     /\ Cardinality(lines("FEE", n)) = IF due.fee[n] = 0 THEN 0 ELSE 1
                     /\ Cardinality(lines("TAX_GST", n)) = IF due.gst[n] = 0 THEN 0 ELSE 1
               /\ Cardinality(Of(items, M, "TAX_WITHHOLDING")) = IF due.withheld = 0 THEN 0 ELSE 1
               /\ Cardinality(Of(items, M, "RESERVE_HOLD")) = IF due.held = 0 THEN 0 ELSE 1
BY DEF Itemised, DueOn, Paid

\* The verifier derives what the ledger lists: a set that verifies and itemises its rates adds
\* up to the credit, line by line.
LEMMA ItemisedAddsUp ==
    ASSUME stmt \in Statements, NEW M, M \subseteq DOMAIN stmt.items, NEW paise \in Int,
           VerifyDecomposition(paise, M, stmt.items, stmt.book).accepted, Itemised(M)
    PROVE  Sum(PaiseOf(stmt.items), M) = paise
<1> DEFINE items == stmt.items
           book == stmt.book
           w == PaiseOf(items)
           due == DueOn(items, M, book)
           ops == Operational(items, M)
           fees == Of(items, M, "FEE")
           taxes == Of(items, M, "TAX_GST")
           cuts == Of(items, M, "TAX_WITHHOLDING")
           holds == Of(items, M, "RESERVE_HOLD")
           n == Len(book.fees)
<1>1. Ledger(items, book)
    BY StatementIsLedger
<1>2. /\ w \in Seq(Int) /\ DOMAIN items = 1 .. Len(w) /\ n \in Nat
      /\ \A i \in DOMAIN items : w[i] = items[i].paise /\ w[i] \in Int
      /\ DOMAIN book.fees = 1 .. n
    BY <1>1, LedgerTyped
<1>3. /\ paise - (Sum(w, ops) + due.total) = 0
      /\ \A i \in M \ ops : w[i] - Recomputed(LinesOf(items)[i], due) = 0
    <2>1. /\ paise - (Sum(w, ops) + due.total) = 0
          /\ \A i \in M \ ops : items[i].paise - Recomputed(LinesOf(items)[i], due) = 0
        BY <1>1, AcceptedMeans
    <2>2. \A i \in M : w[i] = items[i].paise
        BY <1>2
    <2> HIDE DEF w, due, ops, items
    <2> QED BY <2>1, <2>2
<1>4. /\ due.fee \in Seq(Int) /\ Len(due.fee) = n /\ due.gst \in Seq(Int) /\ Len(due.gst) = n
      /\ due.withheld \in Int /\ due.held \in Int
      /\ due.total = Sum(due.fee, 1 .. n) + Sum(due.gst, 1 .. n) + due.withheld + due.held
    BY <1>1, RatesTyped
<1>5. /\ \A k \in 1 .. n :
            /\ Cardinality({i \in fees : items[i].instrument = k}) = IF due.fee[k] = 0 THEN 0 ELSE 1
            /\ Cardinality({i \in taxes : items[i].instrument = k}) = IF due.gst[k] = 0 THEN 0 ELSE 1
      /\ Cardinality(cuts) = IF due.withheld = 0 THEN 0 ELSE 1
      /\ Cardinality(holds) = IF due.held = 0 THEN 0 ELSE 1
    <2>1. /\ \A k \in DOMAIN book.fees :
                /\ Cardinality({i \in fees : items[i].instrument = k}) = IF due.fee[k] = 0 THEN 0 ELSE 1
                /\ Cardinality({i \in taxes : items[i].instrument = k}) = IF due.gst[k] = 0 THEN 0 ELSE 1
          /\ Cardinality(cuts) = IF due.withheld = 0 THEN 0 ELSE 1
          /\ Cardinality(holds) = IF due.held = 0 THEN 0 ELSE 1
        BY ItemisedMeans
    <2>2. DOMAIN book.fees = 1 .. n
        BY <1>2
    <2> HIDE DEF items, book, due, fees, taxes, cuts, holds, n
    <2> QED BY <2>1, <2>2
<1>6. /\ M = ops \cup (fees \cup (taxes \cup (cuts \cup holds)))
      /\ fees \cup (taxes \cup (cuts \cup holds)) = M \ ops
      /\ ops \cap (fees \cup (taxes \cup (cuts \cup holds))) = {}
      /\ fees \cap (taxes \cup (cuts \cup holds)) = {}
      /\ taxes \cap (cuts \cup holds) = {} /\ cuts \cap holds = {}
    BY DEF Operational, Of, RateDerived
<1>7. \A i \in M :
        /\ LinesOf(items)[i].kind = items[i].kind
        /\ LinesOf(items)[i].instrument = items[i].instrument
    BY DEF LinesOf
<1>8. /\ \A i \in fees : items[i].kind = "FEE" /\ i \in M
      /\ \A i \in taxes : items[i].kind = "TAX_GST" /\ i \in M
      /\ \A i \in cuts : items[i].kind = "TAX_WITHHOLDING" /\ i \in M
      /\ \A i \in holds : items[i].kind = "RESERVE_HOLD" /\ i \in M
    BY DEF Of
<1>9. \A i \in DOMAIN items : items[i].instrument \in 0 .. n
    BY <1>1, LedgerTyped
<1>10. M \subseteq DOMAIN items
    OBVIOUS
<1> DEFINE dueOf(i) == Recomputed(LinesOf(items)[i], due)
<1>11. /\ \A i \in fees : dueOf(i) = IF items[i].instrument = None THEN 0
                                     ELSE due.fee[items[i].instrument]
       /\ \A i \in taxes : dueOf(i) = IF items[i].instrument = None THEN 0
                                      ELSE due.gst[items[i].instrument]
       /\ \A i \in cuts : dueOf(i) = due.withheld
       /\ \A i \in holds : dueOf(i) = due.held
    <2> HIDE DEF due, items, fees, taxes, cuts, holds
    <2> QED BY <1>7, <1>8 DEF Recomputed
<1> HIDE DEF items, book, w, due, ops, fees, taxes, cuts, holds, n, dueOf
<1>12. \A i \in M \ ops : dueOf(i) \in Int => w[i] = dueOf(i)
    BY <1>2, <1>3, <1>10 DEF dueOf
<1>13. /\ \A i \in fees : w[i] = IF items[i].instrument = None THEN 0
                                 ELSE due.fee[items[i].instrument]
       /\ \A i \in taxes : w[i] = IF items[i].instrument = None THEN 0
                                  ELSE due.gst[items[i].instrument]
       /\ \A i \in cuts : w[i] = due.withheld
       /\ \A i \in holds : w[i] = due.held
    <2>1. \A k \in 1 .. n : due.fee[k] \in Int /\ due.gst[k] \in Int
        BY <1>4
    <2>2. \A i \in DOMAIN items : items[i].instrument # None => items[i].instrument \in 1 .. n
        BY <1>2, <1>9 DEF None
    <2>3. \A i \in fees \cup taxes \cup cuts \cup holds : dueOf(i) \in Int /\ i \in M \ ops
        BY <1>4, <1>6, <1>8, <1>10, <1>11, <2>1, <2>2, SMTT(20)
    <2> QED BY <1>11, <1>12, <2>3
<1>14. Sum(w, fees) = Sum(due.fee, 1 .. n)
    <2>1. fees \subseteq DOMAIN items /\ \A i \in fees : items[i].paise = w[i]
        BY <1>2, <1>8, <1>10
    <2>2. /\ due.fee \in Seq(Int) /\ Len(due.fee) = Len(book.fees)
          /\ \A k \in 1 .. Len(due.fee) : Cardinality({i \in fees : items[i].instrument = k}) =
                                           IF due.fee[k] = 0 THEN 0 ELSE 1
        BY <1>4, <1>5 DEF n
    <2>3. \A i \in fees : items[i].paise = IF items[i].instrument = None THEN 0
                                            ELSE due.fee[items[i].instrument]
        BY <1>13, <2>1
    <2> DEFINE f == due.fee
    <2>4. /\ f \in Seq(Int) /\ Len(f) = Len(book.fees)
          /\ \A k \in 1 .. Len(f) : Cardinality({i \in fees : items[i].instrument = k}) =
                                    IF f[k] = 0 THEN 0 ELSE 1
          /\ \A i \in fees : items[i].paise = IF items[i].instrument = None THEN 0
                                             ELSE f[items[i].instrument]
        BY <2>2, <2>3
    <2>5. Sum(PaiseOf(items), fees) = Sum(f, 1 .. Len(f))
        <3> HIDE DEF f
        <3> QED BY <1>1, <2>1, <2>4, LinesAreDue
    <2> QED BY <1>4, <2>5 DEF w
<1>15. Sum(w, taxes) = Sum(due.gst, 1 .. n)
    <2>1. taxes \subseteq DOMAIN items /\ \A i \in taxes : items[i].paise = w[i]
        BY <1>2, <1>8, <1>10
    <2>2. /\ due.gst \in Seq(Int) /\ Len(due.gst) = Len(book.fees)
          /\ \A k \in 1 .. Len(due.gst) : Cardinality({i \in taxes : items[i].instrument = k}) =
                                           IF due.gst[k] = 0 THEN 0 ELSE 1
        BY <1>4, <1>5 DEF n
    <2>3. \A i \in taxes : items[i].paise = IF items[i].instrument = None THEN 0
                                            ELSE due.gst[items[i].instrument]
        BY <1>13, <2>1
    <2> DEFINE f == due.gst
    <2>4. /\ f \in Seq(Int) /\ Len(f) = Len(book.fees)
          /\ \A k \in 1 .. Len(f) : Cardinality({i \in taxes : items[i].instrument = k}) =
                                    IF f[k] = 0 THEN 0 ELSE 1
          /\ \A i \in taxes : items[i].paise = IF items[i].instrument = None THEN 0
                                             ELSE f[items[i].instrument]
        BY <2>2, <2>3
    <2>5. Sum(PaiseOf(items), taxes) = Sum(f, 1 .. Len(f))
        <3> HIDE DEF f
        <3> QED BY <1>1, <2>1, <2>4, LinesAreDue
    <2> QED BY <1>4, <2>5 DEF w
<1>16. Sum(w, cuts) = due.withheld /\ Sum(w, holds) = due.held
    <2>1. cuts \subseteq 1 .. Len(w) /\ holds \subseteq 1 .. Len(w)
        BY <1>2, <1>8, <1>10
    <2> QED BY <1>2, <1>4, <1>5, <1>13, <2>1, OnceIsDue, ZenonT(60)
<1>17. /\ Sum(w, cuts \cup holds) = due.withheld + due.held
       /\ Sum(w, taxes \cup (cuts \cup holds)) = Sum(w, taxes) + Sum(w, cuts \cup holds)
       /\ Sum(w, fees \cup (taxes \cup (cuts \cup holds))) =
             Sum(w, fees) + Sum(w, taxes \cup (cuts \cup holds))
       /\ Sum(w, M) = Sum(w, ops) + Sum(w, fees \cup (taxes \cup (cuts \cup holds)))
    BY <1>2, <1>6, <1>16, SumSplit
<1>18. /\ Sum(w, ops) \in Int /\ Sum(due.fee, 1 .. n) \in Int /\ Sum(due.gst, 1 .. n) \in Int
    BY <1>2, <1>4, SumTyped
<1>19. Sum(w, M) = paise
    <2>1. Sum(w, M) = Sum(w, ops) + due.total /\ due.total \in Int
        BY <1>4, <1>14, <1>15, <1>17, <1>18
    <2> QED BY <1>3, <1>18, <2>1
<1> QED BY <1>19 DEF w, items


-----------------------------------------------------------------------------
(***************************************************************************)
(* The books: what the rows come to.                                       *)
(***************************************************************************)

\* Every row was verified; a credit has one row; and a refusal was over the rows there are.
RowHolds(row) ==
    VerifyDecomposition(Credit(row.credit).paise, row.members, stmt.items, stmt.book).accepted
RowsHold == \A r \in Rungs : \A row \in stored[r] : RowHolds(row)
OneRow == \A r \in Rungs : \A v, w \in stored[r] : v.credit = w.credit => v = w
RefusedOver == \A r \in Rungs : ended[r] = "refused" => ~ Journal(stored[r])

BooksInv == RowsHold /\ OneRow /\ RefusedOver

LEMMA BooksInit == Init => BooksInv
<1> SUFFICES ASSUME Init PROVE BooksInv
    OBVIOUS
<1>1. \A r \in Rungs : stored[r] = {} /\ ended[r] \in {"running", "halted"}
    BY DEF Init, Empty
<1> QED BY <1>1 DEF BooksInv, RowsHold, OneRow, RefusedOver

LEMMA ProcessBooks ==
    ASSUME GateInv, BooksInv, Process
    PROVE  BooksInv'
<1> DEFINE J(r) == Judge(next, Policy(r), parents[r])
           row(r) == [credit |-> next, members |-> J(r).members]
           clears(r) == r \in Running /\ J(r).disposition = "CLEARED" /\ Policy(r).writes
<1>1. stmt' = stmt /\ ended' = ended
    BY DEF Process
<1>2. \A v : RowHolds(v)' <=> RowHolds(v)
    BY <1>1 DEF RowHolds, Credit
<1>3. ASSUME NEW r \in Rungs
      PROVE  stored'[r] = IF clears(r) THEN stored[r] \cup {row(r)} ELSE stored[r]
    BY ProcessAdds
<1>4. ASSUME NEW r \in Rungs, J(r).disposition = "CLEARED"
      PROVE  RowHolds(row(r))
    <2> DEFINE solve == SolveAt(next, Policy(r), parents[r])
    <2>1. J(r).members = Members(Named(next), solve) /\ Holds(next, solve)
        BY <1>4, ClearsWhen
    <2>2. row(r).credit = next /\ row(r).members = Members(Named(next), solve)
        BY <2>1
    <2> HIDE DEF row, solve
    <2> QED BY <2>1, <2>2 DEF RowHolds, Holds
<1>5. \A r \in Rungs : row(r).credit = next /\ \A v \in stored[r] : v.credit # next
    BY DEF GateInv, TypeOK, Past
<1> HIDE DEF J, row
<1>6. RowsHold'
    <2> SUFFICES ASSUME NEW r \in Rungs, NEW v \in stored'[r] PROVE RowHolds(v)'
        BY DEF RowsHold
    <2> QED BY <1>2, <1>3, <1>4 DEF BooksInv, RowsHold
<1>7. OneRow'
    <2>1. ASSUME NEW r \in Rungs, NEW v \in stored'[r], NEW w \in stored'[r], v.credit = w.credit
          PROVE  v = w
        <3>1. \A u \in stored'[r] : u \in stored[r] \/ u = row(r)
            BY <1>3
        <3>2. row(r).credit = next /\ \A u \in stored[r] : u.credit # next
            BY <1>5
        <3>3. \A u, x \in stored[r] : u.credit = x.credit => u = x
            BY DEF BooksInv, OneRow
        <3> QED BY <2>1, <3>1, <3>2, <3>3
    <2> QED BY <2>1 DEF OneRow
<1>8. RefusedOver'
    <2>1. \A r \in Rungs : ended[r] = "refused" => stored'[r] = stored[r]
        BY <1>3 DEF Running
    <2>2. \A r \in Rungs : ended[r] = "refused" => ~ Journal(stored[r])
        BY DEF BooksInv, RefusedOver
    <2>3. ASSUME NEW r \in Rungs, ended'[r] = "refused" PROVE ~ Journal(stored[r])'
        <3>1. ended[r] = "refused"
            BY <1>1, <2>3
        <3>2. stored'[r] = stored[r] /\ ~ Journal(stored[r])
            BY <2>1, <2>2, <3>1
        <3> QED BY <1>1, <3>2 DEF Journal, Postable, Credit
    <2> QED BY <2>3 DEF RefusedOver
<1> QED BY <1>6, <1>7, <1>8 DEF BooksInv

LEMMA BooksStep == GateInv /\ BooksInv /\ [Next]_vars => BooksInv'
<1> SUFFICES ASSUME GateInv, BooksInv, [Next]_vars PROVE BooksInv'
    OBVIOUS
<1>1. CASE Process
    BY <1>1, ProcessBooks
<1>2. CASE Raise \/ Export \/ UNCHANGED vars
    <2>1. stmt' = stmt /\ stored' = stored
        BY <1>2 DEF Raise, Export, vars
    <2>2. /\ \A v : RowHolds(v)' <=> RowHolds(v)
          /\ \A rows : Journal(rows)' <=> Journal(rows)
        BY <2>1 DEF RowHolds, Journal, Postable, Credit
    <2>3. RowsHold' /\ OneRow'
        BY <2>1, <2>2 DEF BooksInv, RowsHold, OneRow
    <2>4. \A r \in Rungs : ended'[r] = "refused" => ended[r] = "refused" \/ ~ Journal(stored[r])
        <3>1. CASE Raise
            BY <3>1 DEF Raise
        <3>2. CASE Export
            BY <3>2 DEF Export
        <3>3. CASE UNCHANGED vars
            BY <3>3 DEF vars
        <3> QED BY <1>2, <3>1, <3>2, <3>3
    <2>5. RefusedOver'
        BY <2>1, <2>2, <2>4 DEF BooksInv, RefusedOver
    <2> QED BY <2>3, <2>5 DEF BooksInv
<1> QED BY <1>1, <1>2 DEF Next, Stop

\* The credits are what the decompositions come to and what none explains, when every
\* decomposition adds up to its credit.
LEMMA BooksBalance ==
    ASSUME stmt \in Statements, NEW rows, rows \subseteq Rows,
           \A v, w \in rows : v.credit = w.credit => v = w,
           \A row \in rows : Sum(PaiseOf(stmt.items), row.members) = Credit(row.credit).paise
    PROVE  Books(rows).holds \/ Books(rows).twice # {}
<1> DEFINE members == [c \in DOMAIN stmt.credits |->
                          UNION {row.members : row \in {w \in rows : w.credit = c}}]
           explained == {c \in DOMAIN stmt.credits : members[c] # {}}
           twice == {i \in DOMAIN stmt.items :
                        \E b, c \in explained : b # c /\ i \in members[b] \cap members[c]}
           received == [c \in DOMAIN stmt.credits |-> Credit(c).paise]
           claimed == [c \in DOMAIN stmt.credits |-> Sum(PaiseOf(stmt.items), members[c])]
           balance == Sum(claimed, explained) + Sum(received, DOMAIN received \ explained)
<1>1. Books(rows).twice = twice
      /\ (Books(rows).holds <=> twice = {} /\ Sum(received, DOMAIN received) = balance)
    BY DEF Books
<1>2. /\ DOMAIN stmt.credits = 1 .. Len(stmt.credits) /\ Len(stmt.credits) \in Nat
      /\ \A c \in DOMAIN stmt.credits : Credit(c).paise \in Int
      /\ Ledger(stmt.items, stmt.book)
    BY StatementIsLedger
<1>3. received \in Seq(Int) /\ Len(received) = Len(stmt.credits) /\ DOMAIN received = 1 .. Len(received)
    <2>1. received \in [1 .. Len(stmt.credits) -> Int]
        BY <1>2
    <2> HIDE DEF received
    <2> QED BY <1>2, <2>1, AsSeq
<1>4. claimed \in Seq(Int) /\ Len(claimed) = Len(stmt.credits)
    <2> DEFINE s(c) == Sum(PaiseOf(stmt.items), members[c])
    <2>1. claimed = [c \in 1 .. Len(stmt.credits) |-> s(c)]
        BY <1>2
    <2>2. \A c \in 1 .. Len(stmt.credits) : s(c) \in Int
        BY <1>2, LedgerTyped, SumTyped
    <2> HIDE DEF s, claimed
    <2>3. claimed \in [1 .. Len(stmt.credits) -> Int]
        BY <2>1, <2>2
    <2> QED BY <1>2, <2>3, AsSeq
<1>5. \A c \in explained : claimed[c] = received[c]
    <2> TAKE c \in explained
    <2>1. c \in DOMAIN stmt.credits
        OBVIOUS
    <2>2. PICK row \in rows : row.credit = c
        OBVIOUS
    <2>3. members[c] = row.members
        <3>1. {w \in rows : w.credit = c} = {row}
            BY <2>2
        <3>2. members[c] = UNION {w.members : w \in {w \in rows : w.credit = c}}
            BY <2>1
        <3> HIDE DEF members
        <3> QED BY <3>1, <3>2
    <2>4. Sum(PaiseOf(stmt.items), row.members) = Credit(c).paise
        BY <2>2
    <2>5. claimed[c] = Sum(PaiseOf(stmt.items), members[c]) /\ received[c] = Credit(c).paise
        BY <2>1
    <2> HIDE DEF claimed, received, members
    <2> QED BY <2>3, <2>4, <2>5
<1>6. explained \subseteq DOMAIN received
    OBVIOUS
<1> HIDE DEF claimed, received, explained, twice, balance
<1>7. Sum(claimed, explained) = Sum(received, explained)
    BY <1>3, <1>4, <1>5, SumSame
<1>8. DOMAIN received = explained \cup (DOMAIN received \ explained)
      /\ explained \cap (DOMAIN received \ explained) = {}
    BY <1>6
<1>9. Sum(received, explained \cup (DOMAIN received \ explained)) =
          Sum(received, explained) + Sum(received, DOMAIN received \ explained)
    BY <1>3, <1>8, SumSplit
<1>10. Sum(received, DOMAIN received) = balance
    BY <1>7, <1>8, <1>9 DEF balance
<1> QED BY <1>1, <1>10

LEMMA BooksAddUp == GateInv /\ BooksInv => LedgerAddsUp
<1> SUFFICES ASSUME GateInv, BooksInv PROVE LedgerAddsUp
    OBVIOUS
<1>1. stmt \in Statements /\ \A r \in Rungs : stored[r] \subseteq Rows
    BY DEF GateInv, TypeOK
<1>2. ASSUME NEW r \in Rungs, NEW row \in stored[r], Itemised(row.members)
      PROVE  Sum(PaiseOf(stmt.items), row.members) = Credit(row.credit).paise
    <2>1. /\ row.members \subseteq DOMAIN stmt.items
          /\ row.credit \in DOMAIN stmt.credits
        BY <1>1 DEF Rows
    <2>2. Credit(row.credit).paise \in Int
        BY <1>1, <2>1, StatementIsLedger
    <2>3. RowHolds(row)
        BY DEF BooksInv, RowsHold
    <2> QED BY <1>1, <1>2, <2>1, <2>2, <2>3, ItemisedAddsUp DEF RowHolds
<1>3. ASSUME NEW r \in Rungs, ended[r] = "refused"
      PROVE  \E row \in stored[r] : ~ Itemised(row.members) \/ \E i \in row.members : ~ Postable(i)
    <2>1. ~ Journal(stored[r])
        BY <1>3 DEF BooksInv, RefusedOver
    <2> QED BY <1>2, <2>1 DEF Journal
<1>4. ASSUME NEW r \in Rungs, \A row \in stored[r] : Itemised(row.members)
      PROVE  Books(stored[r]).holds \/ Books(stored[r]).twice # {}
    <2>1. \A row \in stored[r] : Sum(PaiseOf(stmt.items), row.members) = Credit(row.credit).paise
        BY <1>2, <1>4
    <2>2. \A v, w \in stored[r] : v.credit = w.credit => v = w
        BY DEF BooksInv, OneRow
    <2> QED BY <1>1, <2>1, <2>2, BooksBalance
<1> QED BY <1>2, <1>3, <1>4 DEF LedgerAddsUp

-----------------------------------------------------------------------------
(***************************************************************************)
(* Theorems                                                                *)
(***************************************************************************)

\* The executions keep their variables in their types.
THEOREM GateTyped == Spec => []TypeOK
<1>1. GateInv => TypeOK
    BY DEF GateInv
<1> QED BY <1>1, GateInvariant, PTL

\* SPEC F3 and F31, for any statement, cap, budget and rung: a searched credit is booked only
\* with the one set that explains it, or the one sound set that does.
THEOREM ClearsOneExplanation == Spec => []OneExplanation
<1>1. GateInv => OneExplanation
    BY DEF GateInv
<1> QED BY <1>1, GateInvariant, PTL

\* No silent pass and no false diagnosis: every judged credit is booked or queued, not both,
\* and the class of an exception says what the search found.
THEOREM QueueStaysHonest == Spec => []QueueIsHonest
<1>1. GateInv => QueueIsHonest
    BY DEF GateInv
<1> QED BY <1>1, GateInvariant, PTL

\* ADR-11, gate 6, as the code has it: a rung below NORMAL clears what NORMAL does, with the same
\* members, until a credit whose pool holds a refund that NORMAL alone has cleared the parent of.
THEOREM OnlyParentsHold == Spec => []OnlyParentsLift
<1>1. LadderInv => OnlyParentsLift
    BY DEF LadderInv
<1> QED BY <1>1, LadderInit, LadderStep, GateInvariant, PTL DEF Spec

\* For any statement, rates and flags: the rows that list what their rates come to add up, line
\* by line, to what the verifier derived from the tables; a journal is refused, and the books
\* are out, over another row, an item two credits claim or an amount of the wrong sign.
THEOREM LedgerHolds == Spec => []LedgerAddsUp
BY BooksInit, BooksStep, BooksAddUp, GateInvariant, PTL DEF Spec

=============================================================================
