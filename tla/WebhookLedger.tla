--------------------------- MODULE WebhookLedger ----------------------------
(***************************************************************************)
(* What the webhook engine promises: events are received in any order, and *)
(* the ledger grows by one item of a received event at a time, a refund    *)
(* after its parent, until it is rebuilt from zero.                        *)
(***************************************************************************)
CONSTANTS
    Events,         \* event ids
    Payments,       \* events that carry a payment
    Refunds,        \* events that carry a refund
    ItemOf,         \* [Events -> ids]: the item an event carries
    ParentOf        \* [Events -> ids]: the payment a refund names

VARIABLES
    received,       \* events received
    ledger          \* events whose item the ledger holds

ItemsOf(events) == {ItemOf[e] : e \in events}

LedgerInit == received = {} /\ ledger = {}

Receive(e) ==
    /\ e \notin received
    /\ received' = received \cup {e}
    /\ UNCHANGED ledger

Apply(e) ==
    /\ e \in received \cap (Payments \cup Refunds)
    /\ ItemOf[e] \notin ItemsOf(ledger)
    /\ e \in Refunds => ParentOf[e] \in ItemsOf(ledger)
    /\ ledger' = ledger \cup {e}
    /\ UNCHANGED received

Rebuild ==
    /\ ledger' = {}
    /\ UNCHANGED received

LedgerNext == (\E e \in Events : Receive(e) \/ Apply(e)) \/ Rebuild

LedgerSpec == LedgerInit /\ [][LedgerNext]_<< received, ledger >>
=============================================================================
