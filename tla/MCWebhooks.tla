----------------------------- MODULE MCWebhooks -----------------------------
(***************************************************************************)
(* Two payments, 4 and 5; two events of one refund of 5, the refund of 4   *)
(* between them, all with ids before the payments; an event with no item.  *)
(***************************************************************************)
EXTENDS Webhooks

Item == [e \in Events |-> IF e = 3 THEN 1 ELSE e]
Parent == [e \in Events |->
    CASE e \in {1, 3} -> 5
      [] e = 2 -> 4
      [] OTHER -> 0]
=============================================================================
