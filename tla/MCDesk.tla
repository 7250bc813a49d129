------------------------------- MODULE MCDesk --------------------------------
(* The desk beside the instances of MCRunLedger.  "head" stops after credit *)
(* 1, so that credit 2 is flagged unless "head" comes first; credit 4,      *)
(* before the last, always clears.  The settlement report declares credit   *)
(* 1, to the paisa in one of the two datasets.                              *)
EXTENDS Desk, MCRunLedger

DeskCredits ==
    [r \in Runs |-> IF r = "head" THEN << "k1" >> ELSE << "k1", "k2", "k4", "k3" >>]
DeskFindings ==
    [r \in Runs |-> [OwnFindings[r] EXCEPT !["k4"] = {Of({7, 8}, {})}]]
FirstProven == [d \in Datasets |-> {"k1"}]
FirstInSql == [d \in Datasets |-> IF d = "sql" THEN {"k1"} ELSE {}]
=============================================================================
