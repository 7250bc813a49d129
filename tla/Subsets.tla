------------------------------- MODULE Subsets ------------------------------
(***************************************************************************)
(* What the search for a credit's explanation is about: a pool of amounts  *)
(* of both signs, the sets of it whose sum is in the window, the pass of   *)
(* pruning (solver/prune.py) and the index of reachable sums               *)
(* (solver/bitset_dp.py).                                                  *)
(***************************************************************************)
EXTENDS Money, FiniteSets

\* A ledger item as the search sees it: its amount, its age in days at the value date
\* of the credit, and whether its kind is one of those the wide window admits.
Item == [paise : Int, age : Int, widened : BOOLEAN]

\* search.epsilon_rupees, search_cap(cfg), and the keys of config.py's SearchConfig and
\* sub_window_split of the same names.
Config == [epsilon : Nat, maxPool : Nat, maxAxisWidth : Nat, maxNodes : Nat,
           enumerateCap : Nat \ {0, 1}, requireNonempty : BOOLEAN,
           split : BOOLEAN, maxAttempts : Nat]

Question == [items : Seq(Item), target : Int, cfg : Config]

\* amounts_rupees of a pool.
Rupees(q) == [i \in 1 .. Len(q.items) |-> ToRupees(q.items[i].paise)]

InWindow(q, total) ==
    /\ total >= ToRupees(q.target) - q.cfg.epsilon
    /\ total <= ToRupees(q.target) + q.cfg.epsilon

\* The definition the search is measured against: the sets of indices from B whose
\* sum is in the window.
Solutions(q, B) ==
    {S \in SUBSET B : /\ InWindow(q, Sum(Rupees(q), S))
                      /\ q.cfg.requireNonempty => S # {}}

-----------------------------------------------------------------------------
(***************************************************************************)
(* prune_indices                                                           *)
(***************************************************************************)

Positive(w, K) == Sum(w, {i \in K : w[i] > 0})
Negative(w, K) == Sum(w, {i \in K : w[i] < 0})

ReachHigh(w, K, i) ==
    w[i] + (IF w[i] > 0 THEN Positive(w, K) - w[i] ELSE Positive(w, K))
ReachLow(w, K, i) ==
    w[i] + (IF w[i] < 0 THEN Negative(w, K) - w[i] ELSE Negative(w, K))

\* Mutant of Sweep: the remaining negatives are forgotten.
SweepPositives(q, K) ==
    {i \in K : /\ ReachHigh(Rupees(q), K, i) >= ToRupees(q.target) - q.cfg.epsilon
               /\ Rupees(q)[i] <= ToRupees(q.target) + q.cfg.epsilon}

\* One pass of the loop: item i is dropped when every set of K that contains it lies
\* beyond the window.
Sweep(q, K) ==
    {i \in K : /\ ReachHigh(Rupees(q), K, i) >= ToRupees(q.target) - q.cfg.epsilon
               /\ ReachLow(Rupees(q), K, i) <= ToRupees(q.target) + q.cfg.epsilon}

\* The loop on the pool B, pass after pass: one that drops nothing is followed by none that
\* does, and there are at most as many passes as items.
Passes(q, B) ==
    LET keep[n \in 0 .. Len(q.items)] == IF n = 0 THEN B ELSE Sweep(q, keep[n - 1])
    IN  keep
Survivors(q, B) == Passes(q, B)[Len(q.items)]

(***************************************************************************)
(* ReachabilityIndex over the items K                                      *)
(***************************************************************************)

\* The snapshots: Reach(w, K)[k] holds the sums of the sets of K up to index k.
Reach(w, K) ==
    LET r[k \in 0 .. Len(w)] ==
            IF k = 0 THEN {0}
            ELSE IF k \in K THEN r[k - 1] \cup {total + w[k] : total \in r[k - 1]}
                 ELSE r[k - 1]
    IN  r

AxisWidth(w, K) == Positive(w, K) - Negative(w, K) + 1

\* Mutant of Hits: one total is picked, the target or else a closest one.
HitsNearest(q, K) ==
    LET hits == {total \in Reach(Rupees(q), K)[Len(q.items)] : InWindow(q, total)}
        distance(t) == IF t < ToRupees(q.target) THEN ToRupees(q.target) - t
                       ELSE t - ToRupees(q.target)
    IN  {t \in hits : \A u \in hits : \/ distance(t) < distance(u)
                                      \/ distance(t) = distance(u) /\ t <= u}

\* hits_in_window.
Hits(q, K) ==
    {total \in Reach(Rupees(q), K)[Len(q.items)] : InWindow(q, total)}

-----------------------------------------------------------------------------
(***************************************************************************)
(* _solve_one                                                              *)
(***************************************************************************)

\* Pruning leaves nothing, or an item of zero rupees, which the index refuses.
Refused(q, B) == Survivors(q, B) = {} \/ \E i \in Survivors(q, B) : Rupees(q)[i] = 0

\* What a search of the whole pool B concludes unless a bound or the budget ends it.
Verdict(q, B) ==
    LET sets == Solutions(q, B)
        verdict(uniqueness, members) == [uniqueness |-> uniqueness, members |-> members]
    IN  IF Refused(q, B) \/ sets = {} THEN verdict("NONE_FOUND", {})
        ELSE IF Cardinality(sets) = 1 THEN verdict("UNIQUE", UNION sets)
        ELSE verdict("AMBIGUOUS", {})

=============================================================================
