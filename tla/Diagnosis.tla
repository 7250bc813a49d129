------------------------------ MODULE Diagnosis -----------------------------
(***************************************************************************)
(* The decision table that gives a credit its exception class              *)
(* (exceptions/classify.py): the first rule that holds.                    *)
(*                                                                         *)
(* A signal that may be absent is a set with at most one member.           *)
(***************************************************************************)
EXTENDS Money, FiniteSets

Abs(n) == IF n < 0 THEN - n ELSE n

RateError(d, gross, bps) == Abs(d * 10000 - bps * gross)

\* _matches_rate
MatchesRate(d, gross, bps, cfg) ==
    /\ gross > 0
    /\ Abs(d) > cfg.ceiling
    /\ Abs(d) >= cfg.minDelta
    /\ RateError(d, gross, bps) <= cfg.tolerance * gross

\* signals: the observables of ExceptionSignals.
Rules(signals, book, cfg) ==
    LET Delta(P(_)) == \E d \in signals.delta : P(d)
        rule(name, class, holds) == [name |-> name, class |-> class, holds |-> holds]
        withheld == Delta(LAMBDA d : MatchesRate(d, signals.gross, book.withholding, cfg))
        fees(d) == {n \in DOMAIN book.fees : MatchesRate(d, signals.gross, book.fees[n], cfg)}
        fee == Delta(LAMBDA d : fees(d) # {})
        closer == Delta(LAMBDA d : \E n \in fees(d) :
                            RateError(d, signals.gross, book.fees[n])
                                < RateError(d, signals.gross, book.withholding))
        said == \E l \in DOMAIN signals.lineDeltas : signals.lineDeltas[l] # 0
    IN  << rule("budget_or_reduced", "BUDGET_EXCEEDED",
                signals.uniqueness = "BUDGET_EXCEEDED" \/ signals.scope = "REDUCED"),
           rule("cpsat_infeasible", "STRUCTURALLY_INFEASIBLE", signals.infeasible),
           rule("uniqueness_ambiguous", "AMBIGUOUS_DECOMPOSITION",
                signals.uniqueness = "AMBIGUOUS"),
           rule("unresolved_entity", "ENTITY_UNRESOLVED", signals.unresolved # {}),
           rule("duplicate_credit", "DUPLICATE_CREDIT", signals.duplicates # {}),
           rule("fallback_no_delta", "MISSING_RECORD", signals.delta = {}),
           rule("declared_line_deltas_explain_residual", "RATE_MISMATCH",
                said /\ Delta(LAMBDA d :
                    Sum(signals.lineDeltas, DOMAIN signals.lineDeltas) = d)),
           rule("delta_equals_minus_twice_member", "SIGN_REVERSAL",
                Cardinality(signals.twice) = 1),
           rule("delta_matches_out_of_window", "CROSS_WINDOW_UNRESOLVED",
                signals.outside # {}),
           rule("delta_equals_one_pool_member", "MISSING_RECORD",
                Cardinality(signals.inPool) = 1),
           rule("abs_delta_within_rounding_ceiling", "ROUNDING_RESIDUE",
                Delta(LAMBDA d : Abs(d) <= cfg.ceiling)),
           rule("rate_shape_fee_smaller_relative_error", "UNITEMISED_FEE",
                withheld /\ fee /\ closer),
           rule("rate_shape_withholding_tiebreak", "SUSPECTED_WITHHOLDING",
                withheld /\ fee),
           rule("rate_shape_withholding", "SUSPECTED_WITHHOLDING", withheld),
           rule("rate_shape_fee", "UNITEMISED_FEE", fee),
           rule("fallback", "MISSING_RECORD", TRUE) >>

\* classify: the first rule that holds.
Classify(signals, book, cfg) ==
    LET rules == Rules(signals, book, cfg)
        first == CHOOSE k \in DOMAIN rules :
                    rules[k].holds /\ \A j \in 1 .. k - 1 : ~ rules[j].holds
    IN  [class |-> rules[first].class, rule |-> rules[first].name]

=============================================================================
