------------------------------- MODULE Money -------------------------------
(***************************************************************************)
(* Monetary arithmetic (money.py).  Every amount is an integer number of   *)
(* paise; the search works on a grid of rupees.                            *)
(***************************************************************************)
EXTENDS Integers, Sequences

PaisePerRupee == 100

\* Mutant of ToRupees: the paise are cut off.
ToRupeesCut(paise) == paise \div PaisePerRupee

ToRupees(paise) == (paise + PaisePerRupee \div 2) \div PaisePerRupee

IsWholeRupee(paise) == paise % PaisePerRupee = 0

\* How far the rupees of a set with m members that are not whole rupees may be from
\* the rupees of its sum.
RoundingBound(m) == (m + 1) \div 2

\* apply_bps of an amount, halves upward.
RoundHalfUp(n, d) == (2 * n + d) \div (2 * d)

ApplyBps(paise, bps) == RoundHalfUp(paise * bps, 10000)

-----------------------------------------------------------------------------
(***************************************************************************)
(* Sums of amounts w over sets of indices.                                 *)
(***************************************************************************)

Indices(w) == 1 .. Len(w)

\* Sums(w, S)[k]: the sum of the amounts of S up to index k.
Sums(w, S) ==
    LET s[k \in 0 .. Len(w)] ==
            IF k = 0 THEN 0 ELSE IF k \in S THEN s[k - 1] + w[k] ELSE s[k - 1]
    IN  s

Sum(w, S) == Sums(w, S)[Len(w)]

=============================================================================
