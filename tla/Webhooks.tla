------------------------------ MODULE Webhooks ------------------------------
(***************************************************************************)
(* The webhook engine of ingest/webhooks.py (F47): one process, one SQLite *)
(* connection, three tables.  deliver stores an event once and tries to    *)
(* apply it; a refund whose parent is not applied is buffered; a write to  *)
(* the ledger flushes the buffer in one pass; replay wipes the ledger and  *)
(* folds the stored log again.  Every commit is a step, and the process    *)
(* may be killed between any two.                                          *)
(*                                                                         *)
(* An event stands for its id and its payload: a second delivery under the *)
(* same id is dropped whatever it carries.  Events are numbered as their   *)
(* ids are ordered.                                                        *)
(***************************************************************************)
EXTENDS Naturals, Sequences

CONSTANTS
    Events, Payments, Refunds, ItemOf, ParentOf,    \* as in WebhookLedger
    Poison,         \* events whose payload makes _item_from_payload raise
    Named,          \* events whose id is under "event_id", not under "id"
    MaxCrashes      \* bound: kills in a behaviour

VARIABLES
    log,            \* webhook_event, in seq order
    applied,        \* applied_item: the events whose item is stored
    buffer,         \* buffer_event
    pc,             \* where the engine is
    at,             \* the row of the log a replay is at, 0 outside a replay
    todo,           \* the buffered events a flush has still to look at
    clean,          \* history: no kill since the engine was new or last wiped
    crashes         \* history: kills so far

vars == << log, applied, buffer, pc, at, todo, clean, crashes >>

Ledger == INSTANCE WebhookLedger WITH received <- {log[i] : i \in DOMAIN log},
                                      ledger <- applied

ASSUME WebhookConstants ==
    /\ Events \subseteq Nat \ {0}
    /\ Payments \subseteq Events /\ Refunds \subseteq Events /\ Poison \subseteq Events
    /\ Payments \cap Refunds = {} /\ Poison \cap (Payments \cup Refunds) = {}
    /\ Named \subseteq Events
    /\ MaxCrashes \in Nat

Logged == {log[i] : i \in DOMAIN log}
PCs == {"idle", "applying", "flushing", "deleting"}

TypeOK ==
    /\ log \in Seq(Events)
    /\ applied \subseteq Payments \cup Refunds
    /\ buffer \subseteq Refunds
    /\ pc \in PCs
    /\ at \in 0 .. Len(log)
    /\ pc # "idle" /\ at = 0 => log # << >>
    /\ pc = "idle" => at = 0
    /\ todo \subseteq Refunds
    /\ clean \in BOOLEAN
    /\ crashes \in Nat

Init ==
    /\ log = << >>
    /\ applied = {} /\ buffer = {}
    /\ pc = "idle" /\ at = 0 /\ todo = {}
    /\ clean = TRUE /\ crashes = 0

\* The event in hand: the row a replay is at, or the one just stored.
Current == IF at > 0 THEN log[at] ELSE log[Len(log)]

\* The event_id column of buffer_event: empty for an event without "event_id".
KeyOf(e) == IF e \in Named THEN e ELSE 0

\* Mutant of WithoutKey: the row is not deleted.
WithoutNothing(events, e) == events

\* DELETE FROM buffer_event WHERE event_id = ?
WithoutKey(events, e) == {f \in events : KeyOf(f) # KeyOf(e)}

\* _try_apply is done: deliver returns, a replay goes to its next row.
Back ==
    IF at > 0 /\ at < Len(log) THEN pc' = "applying" /\ at' = at + 1
    ELSE pc' = "idle" /\ at' = 0

-----------------------------------------------------------------------------
\* deliver: an event stored before is dropped ...
Redeliver(e) ==
    /\ pc = "idle" /\ e \in Logged
    /\ UNCHANGED vars

\* ... a new one is stored and committed.
Deliver(e) ==
    /\ pc = "idle" /\ e \notin Logged
    /\ log' = Append(log, e)
    /\ pc' = "applying"
    /\ UNCHANGED << applied, buffer, at, todo, clean, crashes >>

ItemsOf(events) == {ItemOf[e] : e \in events}

\* Mutant of Waits: a refund is applied whatever its parent.
WaitsNever(e) == FALSE

\* A refund whose parent is not among the applied ids.
Waits(e) == e \in Refunds /\ ParentOf[e] \notin ItemsOf(applied)

IsApplied(e) == ItemOf[e] \in ItemsOf(applied)

\* INSERT OR REPLACE INTO applied_item
WriteItem(e) == applied' = {f \in applied : ItemOf[f] # ItemOf[e]} \cup {e}

\* An event that carries no item: _try_apply returns, or _item_from_payload raises
\* and the call ends there.
Ignore ==
    /\ pc = "applying" /\ Current \notin Payments \cup Refunds
    /\ IF Current \in Poison THEN pc' = "idle" /\ at' = 0 ELSE Back
    /\ UNCHANGED << log, applied, buffer, todo, clean, crashes >>

\* INSERT OR REPLACE INTO buffer_event
Buffer ==
    /\ pc = "applying" /\ Current \in Refunds /\ Waits(Current)
    /\ buffer' = WithoutKey(buffer, Current) \cup {Current}
    /\ Back
    /\ UNCHANGED << log, applied, todo, clean, crashes >>

Known ==
    /\ pc = "applying" /\ Current \in Payments \cup Refunds
    /\ ~ Waits(Current) /\ IsApplied(Current)
    /\ Back
    /\ UNCHANGED << log, applied, buffer, todo, clean, crashes >>

\* Mutant of ApplyItem: the buffer is not flushed.
ApplyUnflushed ==
    /\ pc = "applying" /\ Current \in Payments \cup Refunds
    /\ ~ Waits(Current) /\ ~ IsApplied(Current)
    /\ WriteItem(Current)
    /\ Back
    /\ UNCHANGED << log, buffer, todo, clean, crashes >>

\* The item is written and committed; _flush_buffer reads the buffer.
ApplyItem ==
    /\ pc = "applying" /\ Current \in Payments \cup Refunds
    /\ ~ Waits(Current) /\ ~ IsApplied(Current)
    /\ WriteItem(Current)
    /\ todo' = buffer
    /\ pc' = "flushing"
    /\ UNCHANGED << log, buffer, at, clean, crashes >>

\* ORDER BY event_id
IsNext(e) == e \in todo /\ \A f \in todo : KeyOf(e) <= KeyOf(f)

FlushWaiting(e) ==
    /\ pc = "flushing" /\ IsNext(e) /\ Waits(e)
    /\ todo' = todo \ {e}
    /\ UNCHANGED << log, applied, buffer, pc, at, clean, crashes >>

FlushItem(e) ==
    /\ pc = "flushing" /\ IsNext(e) /\ ~ Waits(e) /\ ~ IsApplied(e)
    /\ WriteItem(e)
    /\ pc' = "deleting"
    /\ UNCHANGED << log, buffer, at, todo, clean, crashes >>

\* The buffered row of an item that is applied is deleted and committed.
DeleteRow(e) ==
    /\ pc \in {"flushing", "deleting"} /\ IsNext(e) /\ ~ Waits(e) /\ IsApplied(e)
    /\ buffer' = WithoutKey(buffer, e)
    /\ todo' = todo \ {e}
    /\ pc' = "flushing"
    /\ UNCHANGED << log, applied, at, clean, crashes >>

EndFlush ==
    /\ pc = "flushing" /\ todo = {}
    /\ Back
    /\ UNCHANGED << log, applied, buffer, todo, clean, crashes >>

\* Mutant of Replay: the payments are taken to be in place.
ReplayRefunds ==
    /\ pc = "idle"
    /\ applied' = applied \cap Payments /\ buffer' = {}
    /\ IF log = << >> THEN UNCHANGED << pc, at >> ELSE pc' = "applying" /\ at' = 1
    /\ clean' = TRUE
    /\ UNCHANGED << log, todo, crashes >>

\* replay: both tables are wiped in one transaction, and the log is folded again.
Replay ==
    /\ pc = "idle"
    /\ applied' = {} /\ buffer' = {}
    /\ IF log = << >> THEN UNCHANGED << pc, at >> ELSE pc' = "applying" /\ at' = 1
    /\ clean' = TRUE
    /\ UNCHANGED << log, todo, crashes >>

\* The process is killed; the next one opens the same file.
Kill ==
    /\ pc # "idle" /\ crashes < MaxCrashes
    /\ pc' = "idle" /\ at' = 0 /\ todo' = {}
    /\ clean' = FALSE
    /\ crashes' = crashes + 1
    /\ UNCHANGED << log, applied, buffer >>

Work ==
    \/ Ignore \/ Buffer \/ Known \/ ApplyItem \/ EndFlush
    \/ \E e \in Refunds : FlushWaiting(e) \/ FlushItem(e) \/ DeleteRow(e)

Next ==
    \/ Work \/ Replay \/ Kill
    \/ \E e \in Events : Deliver(e) \/ Redeliver(e)

Spec == Init /\ [][Next]_vars

\* Calls return, the sender offers what is not stored again and again, and somebody
\* calls replay after a kill.
FairSpec ==
    /\ Spec /\ WF_vars(Work)
    /\ SF_vars(\E e \in Events : Deliver(e))
    /\ SF_vars(~ clean /\ Replay)

-----------------------------------------------------------------------------
\* Events that carry the same item say the same of it, refunds name payments, every
\* event has its id under "event_id", and no payload raises.
WellFormed ==
    /\ \A e, f \in Payments \cup Refunds :
          ItemOf[e] = ItemOf[f] => (e \in Payments <=> f \in Payments) /\ ParentOf[e] = ParentOf[f]
    /\ \A e, f \in Refunds : ParentOf[e] # ItemOf[f]
    /\ Named = Events
    /\ Poison = {}

Orphan(events, e) == e \in Refunds /\ ParentOf[e] \notin ItemsOf(events \cap Payments)

\* The ledger a set of events stands for, whatever the order they arrived in.
LedgerOf(events) == ItemsOf({e \in events \cap (Payments \cup Refunds) : ~ Orphan(events, e)})

\* F47, "ledger-state equality across normal, duplicated, reversed and replayed": when
\* the engine is idle the ledger and the buffer are functions of the set of stored
\* events, unless a kill came in between and no replay has started since.
Settled ==
    pc = "idle" /\ clean =>
        /\ ItemsOf(applied) = LedgerOf(Logged)
        /\ buffer = {e \in Logged : Orphan(Logged, e)}

\* No refund is in the ledger without its parent, at any step of a flush, a replay or
\* a restart.
ParentFirst == \A e \in applied : e \in Refunds => ParentOf[e] \in ItemsOf(applied)

\* An item is stored once and never replaced, except by the wipe of a replay.
ImplementsLedger == Ledger!LedgerSpec

\* All events are eventually applied, whatever the order, the kills and the replays.
EventuallyApplied == []<>(ItemsOf(applied) = LedgerOf(Events))

-----------------------------------------------------------------------------
\* The inductive invariants behind them.
Place == IF at > 0 THEN at ELSE Len(log)

\* The part of the log _try_apply is done with.
Folded == {log[i] : i \in 1 .. (IF pc = "applying" THEN Place - 1 ELSE Place)}

StoredInv ==
    /\ applied \subseteq Logged /\ buffer \subseteq Logged /\ todo \subseteq Logged
    /\ ParentFirst

\* What is folded is applied or buffered, and a flush has still to look at every
\* buffered refund that does not wait.
FoldInv ==
    clean =>
        /\ applied \cup buffer \subseteq Folded
        /\ \A e \in Folded \cap (Payments \cup Refunds) : IsApplied(e) \/ e \in buffer
        /\ pc \in {"idle", "applying"} => \A e \in buffer : Waits(e)
        /\ pc \in {"flushing", "deleting"} =>
              todo \subseteq buffer /\ \A e \in buffer \ todo : Waits(e)

=============================================================================
