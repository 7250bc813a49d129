---------------------------- MODULE MCRunLedger -----------------------------
(***************************************************************************)
(* Instances of RunLedger.  Three credits; "full" covers all of them,      *)
(* "head" (a smaller --limit) the first two.  Credit 1 has one             *)
(* explanation, credit 2 has two, of which one refunds an item of credit 1 *)
(* and is feasible only when the same call cleared credit 1 before it; the *)
(* other one, alone feasible otherwise, differs with the configuration.    *)
(* Credit 3 has none.                                                      *)
(***************************************************************************)
EXTENDS RunLedger

Of(ms, ns) == [members |-> ms, needs |-> ns]

SameCredits == [r \in Runs |-> IF r = "head" THEN << "k1", "k2" >> ELSE << "k1", "k2", "k3" >>]

OwnFindings == [r \in Runs |-> [c \in Credits |->
    CASE c = "k1" -> {Of({1, 2}, {})}
      [] c = "k2" -> {Of(IF r = "head" THEN {3} ELSE {6}, {}), Of({4, 5}, {1})}
      [] OTHER -> {}]]

LastRaises == [r \in Runs |-> {"k3"}]

\* Any worker executes any run; or each run has one worker that executes it.
ServeAll == [w \in Workers |-> Runs]
ServeOwn == [w \in Workers |-> IF w = "w1" THEN {"head"} ELSE {"full"}]
=============================================================================
