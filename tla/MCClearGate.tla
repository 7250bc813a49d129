---------------------------- MODULE MCClearGate -----------------------------
\* Statements of two credits over picks from eighteen ledger items.
EXTENDS ClearGate, SequencesExt

Known == "known"

\* name is whose business the counterparty is; parent a place in MCItems.
I(kind, paise, day, instrument, order, parent, name) ==
    [kind |-> kind, paise |-> paise, day |-> day, instrument |-> instrument,
     order |-> order, parent |-> parent, name |-> name]

\* 1-4 a card payment with its fee, tax and withholding; 5-8 the same by another
\* instrument; the others tie with them or with each other.
MCItems == <<
    I("PAYMENT", 100000, 6, 1, 1, None, "model"),
    I("FEE", -2000, 6, 1, None, None, Known),
    I("TAX_GST", -360, 6, 1, None, None, Known),
    I("TAX_WITHHOLDING", -1000, 6, None, None, None, Known),
    I("PAYMENT", 60000, 9, 2, 1, None, Known),
    I("FEE", -1200, 9, 2, None, None, Known),
    I("TAX_GST", -216, 9, 2, None, None, Known),
    I("TAX_WITHHOLDING", -600, 9, None, None, None, Known),
    I("ADJUSTMENT", 57984, 8, None, None, None, Known),
    I("RESERVE_RELEASE", 5000, 12, None, None, None, Known),
    I("RESERVE_RELEASE", 7000, 12, None, None, None, Known),
    I("REFUND", -2000, 12, None, None, 1, Known),
    I("CHARGEBACK", -3000, 12, None, None, None, "unknown"),
    I("REPRESENTMENT", 5000, 12, None, None, 13, Known),
    I("BANK_CHARGE", -180, 12, None, None, None, Known),
    I("FEE", 1000, 9, 2, None, None, Known),
    I("FEE", -1100, 9, 2, None, None, Known),
    I("RESERVE_RELEASE", 5000, 12, None, None, None, Known) >>

\* The items of a pick, in their order; a parent outside the pick is an unknown id.
Place(p, i) == IF i = None THEN None
               ELSE IF \E k \in DOMAIN p : p[k] = i THEN CHOOSE k \in DOMAIN p : p[k] = i ELSE 99
Picked(p) == [k \in DOMAIN p |-> [MCItems[p[k]] EXCEPT !.parent = Place(p, @)]]

\* The report's lines: those of the first payment, as the ledger has them, but for what
\* change makes of them.
Lines(p, S, change) ==
    LET listed == SetToSeq(S)
    IN  [l \in DOMAIN listed |->
            [item |-> Place(p, listed[l]), kind |-> MCItems[listed[l]].kind,
             paise |-> IF listed[l] \in DOMAIN change THEN change[listed[l]]
                       ELSE MCItems[listed[l]].paise,
             instrument |-> MCItems[listed[l]].instrument]]

Credit1(paise, day, declared, confident, effort, raising) ==
    [paise |-> paise, day |-> day, declared |-> declared, confident |-> confident,
     effort |-> effort, raising |-> raising]
Plain(paise, day) == Credit1(paise, day, << >>, TRUE, "FULL", FALSE)

Rates(reserve) == [fees |-> << 200, 200 >>, gst |-> 1800, withholding |-> 100,
                  onGross |-> TRUE, reserve |-> reserve]
Cfg(epsilon, cap) ==
    [epsilon |-> epsilon, derived |-> {1}, cap |-> cap, base |-> 5, wide |-> 35,
     ceiling |-> 700, tolerance |-> 15, minDelta |-> 100]

On == [disambiguation |-> TRUE, derivedEpsilon |-> TRUE, namedMembers |-> TRUE,
       declaredOps |-> TRUE, missingRateIds |-> TRUE, degrade |-> TRUE, trace |-> TRUE,
       journal |-> TRUE]
Off == [f \in DOMAIN On |-> FALSE]

S(p, credits, cfg, flags) ==
    [items |-> Picked(p), credits |-> credits, book |-> Rates(0), cfg |-> cfg, flags |-> flags]

\* The refund lift: a first credit only a model resolves, a second tied until the refund's
\* parent is cleared; searched pools, tied, short, capped and reduced.
MCPools == {<< 1, 2, 3, 4, 10, 11, 12 >>, << 5, 6, 7, 8, 10, 11, 12 >>,
            << 5, 6, 7, 8, 9, 11 >>, << 1, 5, 6, 7, 8, 12 >>, << 1, 2, 3, 4, 9 >>,
            << 10, 13, 14, 15 >>, << 11, 12, 14 >>, << 5, 7, 8, 16 >>,
            << 5, 17, 7, 8 >>, << 14, 10, 18 >>, << 5, 6, 7, 8, 13, 14 >>}
Pairs == {<< Plain(96640, 10), Plain(5000, 15) >>,
          << Plain(57984, 10), Plain(57984, 11) >>,
          << Plain(5000, 13), Credit1(2000, 14, << >>, TRUE, "FULL", TRUE) >>,
          << Plain(2000, 13), Plain(100000, 10) >>,
          << Credit1(5000, 14, << >>, TRUE, "SHORT", FALSE),
             Credit1(5000, 15, << >>, TRUE, "REDUCED", FALSE) >>,
          << Credit1(57984, 10, << >>, FALSE, "FULL", FALSE),
             Credit1(5000, 16, << >>, TRUE, "BUDGET", FALSE) >>}
SearchedOnes == {S(p, c, cfg, f) : p \in MCPools, c \in Pairs, cfg \in {Cfg(7, 32), Cfg(0, 2)},
             f \in {On, Off, [On EXCEPT !.degrade = FALSE]}}

\* Settlement reports: exact, with a wrong or an unknown rate line, with an amount the
\* ledger has not, without its rate lines next to another explanation, and with a reversed
\* amount.
WithReport(p, day, S1, change, amounts, flags) ==
    {S(p, << Credit1(paise, day, Lines(p, S1, change), TRUE, "FULL", FALSE),
             Plain(paise, day + 2) >>, Cfg(7, 32), f) : paise \in amounts, f \in flags}
Strict == [On EXCEPT !.namedMembers = FALSE, !.missingRateIds = FALSE, !.declaredOps = FALSE]
Switched == {On, Strict, [On EXCEPT !.namedMembers = FALSE]}
Declared ==
    UNION {WithReport(p, 10, {5, 6, 7, 8}, change, {57984, 58284, 67648}, Switched) :
           p \in {<< 5, 6, 7, 8 >>, << 5, 7, 8 >>, << 5, 6, 7, 8, 9 >>},
           change \in {<< >>, 6 :> -900, 5 :> 70000}}
    \cup WithReport(<< 5, 9 >>, 10, {5}, << >>, {57984, 59184, 58584}, Switched)
    \cup WithReport(<< 5, 16 >>, 10, {5, 16}, << >>, {57984}, Switched)
    \cup WithReport(<< 5 >>, 10, {5}, << >>, {59184, 58584}, Switched)
    \cup WithReport(<< 10, 11, 12 >>, 13, {10, 12}, << >>, {3000, 7000}, Switched)

MCStatements == SearchedOnes \cup Declared

=============================================================================
