------------------------------ MODULE Structure -----------------------------
(***************************************************************************)
(* Constraint disambiguation (F31, solver/disambiguate.py): which of the   *)
(* sets the search enumerated respect the relations between their items?   *)
(***************************************************************************)
EXTENDS Verifier, FiniteSetsExt

Of(items, M, kind) == {i \in M : items[i].kind = kind}

\* The paise of a pool.
PaiseOf(items) == [i \in DOMAIN items |-> items[i].paise]

\* order_at_most_one_payment
OneOrderOnePayment(items, M) ==
    \A i, j \in Of(items, M, "PAYMENT") :
        items[i].order = items[j].order /\ items[i].order # None => i = j

\* refund_needs_parent: in the set, or in a set cleared before.
RefundHasParent(items, M, cleared) ==
    \A i \in Of(items, M, "REFUND") : items[i].parent \in M \cup cleared

\* fee_needs_instrument_payment
FeeHasPayment(items, M) ==
    LET paid == {items[i].instrument : i \in Of(items, M, "PAYMENT")}
    IN  \A i \in Of(items, M, "FEE") :
            IF items[i].instrument = None THEN paid # {} ELSE items[i].instrument \in paid

\* gst_equals_fee_rate, of the total of the fees.
GstMatchesFees(items, M, book) ==
    LET fees == Sum(PaiseOf(items), Of(items, M, "FEE"))
        gst == Sum(PaiseOf(items), Of(items, M, "TAX_GST"))
        size == IF fees < 0 THEN - fees ELSE fees
    IN  (fees = 0 /\ gst = 0) \/ gst = - ApplyBps(size, book.gst)

\* reserve_equals_gross
ReserveMatchesGross(items, M, book) ==
    LET held == Sum(PaiseOf(items), Of(items, M, "RESERVE_HOLD"))
        gross == Sum(PaiseOf(items), Of(items, M, "PAYMENT"))
    IN  held = - ApplyBps(gross, book.reserve)

\* representment_needs_chargeback
RepresentmentHasChargeback(items, M) ==
    \A i \in Of(items, M, "REPRESENTMENT") : items[i].parent \in Of(items, M, "CHARGEBACK")

\* solution_violations is empty.
Sound(items, M, book, cleared) ==
    /\ OneOrderOnePayment(items, M)
    /\ RefundHasParent(items, M, cleared)
    /\ FeeHasPayment(items, M)
    /\ GstMatchesFees(items, M, book)
    /\ ReserveMatchesGross(items, M, book)
    /\ RepresentmentHasChargeback(items, M)

\* collect_enumerated under a cap: which sets a full list holds is left open, for a list
\* that is full settles nothing.
Enumerated(sets, cap) ==
    IF Cardinality(sets) <= cap THEN sets ELSE CHOOSE T \in kSubset(cap, sets) : TRUE

\* Mutant of Disambiguate: a full list is taken for a complete one.
DisambiguateCapped(items, sets, cap, book, cleared) ==
    LET sound == {M \in Enumerated(sets, cap) : Sound(items, M, book, cleared)}
    IN  [infeasible |-> sets # {} /\ sound = {},
         unique |-> IF Cardinality(sound) = 1 THEN sound ELSE {}]

\* Mutant of Disambiguate: no list at all is infeasible, too.
DisambiguateNothing(items, sets, cap, book, cleared) ==
    LET listed == Enumerated(sets, cap)
        sound == {M \in listed : Sound(items, M, book, cleared)}
        complete == Cardinality(listed) < cap
    IN  [infeasible |-> complete /\ sound = {},
         unique |-> IF complete /\ Cardinality(sound) = 1 THEN sound ELSE {}]

\* disambiguate: nothing is concluded from a list that is empty or full.
Disambiguate(items, sets, cap, book, cleared) ==
    LET listed == Enumerated(sets, cap)
        sound == {M \in listed : Sound(items, M, book, cleared)}
        complete == listed # {} /\ Cardinality(listed) < cap
    IN  [infeasible |-> complete /\ sound = {},
         unique |-> IF complete /\ Cardinality(sound) = 1 THEN sound ELSE {}]

=============================================================================
