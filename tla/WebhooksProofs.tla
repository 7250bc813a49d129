--------------------------- MODULE WebhooksProofs ---------------------------
(***************************************************************************)
(* The webhook engine for any events, any order of delivery and any number *)
(* of kills and replays: it implements WebhookLedger, and, for events that *)
(* are well formed, the idle engine holds the ledger its log stands for.   *)
(***************************************************************************)
EXTENDS Webhooks, FiniteSetTheorems, TLAPS

\* The event in hand is a stored one.
LEMMA CurrentIsLogged ==
    ASSUME TypeOK, pc # "idle"
    PROVE  Current = log[Place] /\ Place \in 1 .. Len(log) /\ Current \in Logged
BY DEF TypeOK, Current, Place, Logged

\* Storing an event adds it to the set of stored events and changes no row before it.
LEMMA AppendToLog ==
    ASSUME TypeOK, NEW e \in Events, log' = Append(log, e)
    PROVE  /\ log' \in Seq(Events) /\ Len(log') = Len(log) + 1
           /\ \A i \in 1 .. Len(log) : log'[i] = log[i]
           /\ log'[Len(log) + 1] = e
           /\ Logged' = Logged \cup {e}
<1>1. /\ log' \in Seq(Events) /\ Len(log') = Len(log) + 1
      /\ \A i \in 1 .. Len(log) : log'[i] = log[i]
      /\ log'[Len(log) + 1] = e
  BY DEF TypeOK
<1>2. DOMAIN log' = DOMAIN log \cup {Len(log) + 1} /\ DOMAIN log = 1 .. Len(log)
  BY <1>1 DEF TypeOK
<1> QED BY <1>1, <1>2 DEF Logged

-----------------------------------------------------------------------------
LEMMA InitTypeOK == Init => TypeOK
BY WebhookConstants DEF Init, TypeOK, PCs

\* Going back keeps the engine inside the log.
LEMMA BackTypeOK ==
    ASSUME TypeOK, pc # "idle", Back, log' = log
    PROVE  /\ pc' \in PCs /\ at' \in 0 .. Len(log')
           /\ (pc' # "idle" /\ at' = 0 => log' # << >>)
           /\ (pc' = "idle" => at' = 0)
BY DEF TypeOK, PCs, Back

LEMMA NextTypeOK == TypeOK /\ [Next]_vars => TypeOK'
<1> SUFFICES ASSUME TypeOK, [Next]_vars PROVE TypeOK'
  OBVIOUS
<1> USE WebhookConstants
<1>1. CASE Ignore
  <2>1. CASE Current \in Poison
    BY <1>1, <2>1 DEF Ignore, TypeOK, PCs
  <2>2. CASE Current \notin Poison
    <3>1. pc # "idle" /\ Back /\ log' = log
      BY <1>1, <2>2 DEF Ignore
    <3> QED BY <1>1, <3>1, BackTypeOK DEF Ignore, TypeOK
  <2> QED BY <2>1, <2>2
<1>2. CASE Buffer
  <2>1. pc # "idle" /\ Back /\ log' = log /\ buffer' \subseteq Refunds
    BY <1>2 DEF Buffer, WithoutKey, TypeOK
  <2> QED BY <1>2, <2>1, BackTypeOK DEF Buffer, TypeOK
<1>3. CASE Known
  <2>1. pc # "idle" /\ Back /\ log' = log
    BY <1>3 DEF Known
  <2> QED BY <1>3, <2>1, BackTypeOK DEF Known, TypeOK
<1>4. CASE ApplyItem
  BY <1>4 DEF ApplyItem, WriteItem, TypeOK, PCs
<1>5. CASE EndFlush
  <2>1. pc # "idle" /\ Back /\ log' = log
    BY <1>5 DEF EndFlush
  <2> QED BY <1>5, <2>1, BackTypeOK DEF EndFlush, TypeOK
<1>6. ASSUME NEW e \in Refunds, FlushWaiting(e) PROVE TypeOK'
  BY <1>6 DEF FlushWaiting, TypeOK
<1>7. ASSUME NEW e \in Refunds, FlushItem(e) PROVE TypeOK'
  BY <1>7 DEF FlushItem, WriteItem, TypeOK, PCs
<1>8. ASSUME NEW e \in Refunds, DeleteRow(e) PROVE TypeOK'
  BY <1>8 DEF DeleteRow, WithoutKey, TypeOK, PCs
<1>9. CASE Replay
  BY <1>9 DEF Replay, TypeOK, PCs
<1>10. CASE Kill
  <2>1. Len(log) \in Nat /\ 0 \in 0 .. Len(log)
    BY DEF TypeOK
  <2>2. /\ log' = log /\ applied' = applied /\ buffer' = buffer
        /\ pc' = "idle" /\ at' = 0 /\ todo' = {} /\ clean' = FALSE
        /\ crashes' = crashes + 1
    BY <1>10 DEF Kill
  <2>3. crashes' \in Nat
    BY <2>2 DEF TypeOK
  <2>4. clean' \in BOOLEAN
    BY <2>2
  <2> QED BY <2>1, <2>2, <2>3, <2>4 DEF TypeOK, PCs
<1>11. ASSUME NEW e \in Events, Deliver(e) PROVE TypeOK'
  <2>1. log' \in Seq(Events) /\ Len(log') = Len(log) + 1
    BY <1>11, AppendToLog DEF Deliver
  <2> QED BY <1>11, <2>1 DEF Deliver, TypeOK, PCs
<1>12. ASSUME NEW e \in Events, Redeliver(e) PROVE TypeOK'
  BY <1>12 DEF Redeliver, TypeOK, vars
<1>13. CASE UNCHANGED vars
  BY <1>13 DEF TypeOK, vars
<1> QED BY <1>1, <1>2, <1>3, <1>4, <1>5, <1>6, <1>7, <1>8, <1>9, <1>10, <1>11, <1>12, <1>13
        DEF Next, Work

\* The engine's tables, its place in the log and its phase keep their types for any events,
\* deliveries, replays and kills (WebhookEngine).
THEOREM WebhooksTyped == Spec => []TypeOK
BY InitTypeOK, NextTypeOK, PTL DEF Spec

-----------------------------------------------------------------------------
LEMMA WriteNew ==
    ASSUME NEW e, ~ IsApplied(e), WriteItem(e)
    PROVE  applied' = applied \cup {e}
BY DEF IsApplied, WriteItem, ItemsOf

LEMMA InitStored == Init => StoredInv
BY DEF Init, StoredInv, ParentFirst

LEMMA NextStored == TypeOK /\ StoredInv /\ [Next]_vars => StoredInv'
<1> SUFFICES ASSUME TypeOK, StoredInv, [Next]_vars PROVE StoredInv'
  OBVIOUS
<1> USE DEF StoredInv
<1>1. CASE Ignore
  BY <1>1 DEF Ignore, Logged, ParentFirst
<1>2. CASE Buffer
  <2>1. Current \in Logged
    BY <1>2, CurrentIsLogged DEF Buffer
  <2> QED BY <1>2, <2>1 DEF Buffer, WithoutKey, Logged, ParentFirst
<1>3. CASE Known
  BY <1>3 DEF Known, Logged, ParentFirst
<1>4. CASE ApplyItem
  <2>1. Current \in Logged
    BY <1>4, CurrentIsLogged DEF ApplyItem
  <2>2. applied' = applied \cup {Current} /\ ~ Waits(Current)
    BY <1>4, WriteNew DEF ApplyItem
  <2>3. ParentFirst'
    BY <2>2 DEF ParentFirst, Waits, ItemsOf
  <2> QED BY <1>4, <2>1, <2>2, <2>3 DEF ApplyItem, Logged
<1>5. CASE EndFlush
  BY <1>5 DEF EndFlush, Logged, ParentFirst
<1>6. ASSUME NEW e \in Refunds, FlushWaiting(e) PROVE StoredInv'
  BY <1>6 DEF FlushWaiting, Logged, ParentFirst
<1>7. ASSUME NEW e \in Refunds, FlushItem(e) PROVE StoredInv'
  <2>1. e \in Logged
    BY <1>7 DEF FlushItem, IsNext
  <2>2. applied' = applied \cup {e} /\ ~ Waits(e)
    BY <1>7, WriteNew DEF FlushItem
  <2>3. ParentFirst'
    BY <2>2 DEF ParentFirst, Waits, ItemsOf
  <2> QED BY <1>7, <2>1, <2>2, <2>3 DEF FlushItem, Logged
<1>8. ASSUME NEW e \in Refunds, DeleteRow(e) PROVE StoredInv'
  BY <1>8 DEF DeleteRow, WithoutKey, Logged, ParentFirst
<1>9. CASE Replay
  BY <1>9 DEF Replay, Logged, ParentFirst
<1>10. CASE Kill
  BY <1>10 DEF Kill, Logged, ParentFirst
<1>11. ASSUME NEW e \in Events, Deliver(e) PROVE StoredInv'
  <2>1. Logged' = Logged \cup {e}
    BY <1>11, AppendToLog DEF Deliver
  <2> QED BY <1>11, <2>1 DEF Deliver, ParentFirst
<1>12. ASSUME NEW e \in Events, Redeliver(e) PROVE StoredInv'
  BY <1>12 DEF Redeliver, Logged, ParentFirst, vars
<1>13. CASE UNCHANGED vars
  BY <1>13 DEF Logged, ParentFirst, vars
<1> QED BY <1>1, <1>2, <1>3, <1>4, <1>5, <1>6, <1>7, <1>8, <1>9, <1>10, <1>11, <1>12, <1>13
        DEF Next, Work

\* No refund is in the ledger without its parent (_try_apply, _flush_buffer), for any
\* events, through every kill and replay.
THEOREM ParentsComeFirst == Spec => []ParentFirst
<1>1. Init => TypeOK /\ StoredInv
  BY InitTypeOK, InitStored
<1>2. TypeOK /\ StoredInv /\ [Next]_vars => (TypeOK /\ StoredInv)'
  BY NextTypeOK, NextStored
<1>3. StoredInv => ParentFirst
  BY DEF StoredInv
<1> QED BY <1>1, <1>2, <1>3, PTL DEF Spec

-----------------------------------------------------------------------------
\* Every commit of deliver, _try_apply, _flush_buffer and replay receives an event,
\* applies one whose parent is there, rebuilds the ledger, or leaves it alone.
THEOREM EngineImplementsLedger == Spec => ImplementsLedger
<1>1. Init => Ledger!LedgerInit
  BY DEF Init, Ledger!LedgerInit
<1>2. TypeOK /\ StoredInv /\ [Next]_vars => [Ledger!LedgerNext]_<< Logged, applied >>
  <2> SUFFICES ASSUME TypeOK, StoredInv, [Next]_vars
               PROVE  Ledger!LedgerNext \/ UNCHANGED << Logged, applied >>
    OBVIOUS
  <2> USE DEF StoredInv
  <2>1. ASSUME NEW e \in Logged \cap (Payments \cup Refunds), ~ Waits(e), ~ IsApplied(e),
               WriteItem(e), log' = log
        PROVE  Ledger!LedgerNext
    <3>1. applied' = applied \cup {e} /\ Logged' = Logged
      BY <2>1, WriteNew DEF Logged
    <3>2. e \in Events
      BY WebhookConstants
    <3>3. Ledger!Apply(e)
      BY <2>1, <3>1 DEF Ledger!Apply, Ledger!ItemsOf, ItemsOf, Waits, IsApplied, Logged
    <3> QED BY <3>2, <3>3 DEF Ledger!LedgerNext
  <2>2. CASE ApplyItem
    <3>1. Current \in Logged
      BY <2>2, CurrentIsLogged DEF ApplyItem
    <3> QED BY <2>2, <3>1, <2>1 DEF ApplyItem
  <2>3. ASSUME NEW e \in Refunds, FlushItem(e) PROVE Ledger!LedgerNext
    <3>1. e \in Logged
      BY <2>3 DEF FlushItem, IsNext
    <3> QED BY <2>3, <3>1, <2>1 DEF FlushItem
  <2>4. CASE Replay
    BY <2>4 DEF Replay, Ledger!LedgerNext, Ledger!Rebuild, Logged
  <2>5. ASSUME NEW e \in Events, Deliver(e) PROVE Ledger!LedgerNext
    <3>1. Logged' = Logged \cup {e} /\ e \notin Logged
      BY <2>5, AppendToLog DEF Deliver
    <3>2. Ledger!Receive(e)
      BY <2>5, <3>1 DEF Deliver, Ledger!Receive, Logged
    <3> QED BY <3>2 DEF Ledger!LedgerNext
  <2>6. CASE Ignore \/ Buffer \/ Known \/ EndFlush \/ Kill
    BY <2>6 DEF Ignore, Buffer, Known, EndFlush, Kill, Logged
  <2>7. ASSUME NEW e \in Refunds, FlushWaiting(e) \/ DeleteRow(e)
        PROVE  UNCHANGED << Logged, applied >>
    BY <2>7 DEF FlushWaiting, DeleteRow, Logged
  <2>8. ASSUME NEW e \in Events, Redeliver(e) PROVE UNCHANGED << Logged, applied >>
    BY <2>8 DEF Redeliver, Logged, vars
  <2>9. CASE UNCHANGED vars
    BY <2>9 DEF Logged, vars
  <2> QED BY <2>2, <2>3, <2>4, <2>5, <2>6, <2>7, <2>8, <2>9 DEF Next, Work
<1>3. Init => TypeOK /\ StoredInv
  BY InitTypeOK, InitStored
<1>4. TypeOK /\ StoredInv /\ [Next]_vars => (TypeOK /\ StoredInv)'
  BY NextTypeOK, NextStored
<1> QED BY <1>1, <1>2, <1>3, <1>4, PTL
        DEF Spec, ImplementsLedger, Ledger!LedgerSpec, Logged

-----------------------------------------------------------------------------
(***************************************************************************)
(* Well-formed events.                                                     *)
(***************************************************************************)

\* Among well-formed events only a payment can end a wait.
LEMMA RefundsEndNoWait ==
    ASSUME WellFormed, NEW e \in Refunds, applied' = applied \cup {e},
           NEW f \in Refunds, Waits(f)
    PROVE  Waits(f)'
BY DEF WellFormed, Waits, ItemsOf

LEMMA KeysAreIds ==
    ASSUME WellFormed, NEW events \in SUBSET Refunds, NEW e \in Refunds
    PROVE  /\ KeyOf(e) = e /\ e \in Nat
           /\ WithoutKey(events, e) = events \ {e}
BY WebhookConstants DEF WellFormed, KeyOf, WithoutKey

\* Where the engine is done with the event in hand, the folded part of the log grows by it.
LEMMA BackFolds ==
    ASSUME TypeOK, pc # "idle", Back, log' = log
    PROVE  /\ pc' \in {"idle", "applying"}
           /\ Folded' = IF pc = "applying" THEN Folded \cup {Current} ELSE Folded
<1>1. Place \in 1 .. Len(log) /\ Current = log[Place] /\ Len(log) \in Nat /\ at \in Nat
  BY CurrentIsLogged DEF TypeOK
<1>2. Folded' = {log[i] : i \in 1 .. Place}
  <2>1. CASE at > 0 /\ at < Len(log)
    <3>1. pc' = "applying" /\ at' = at + 1 /\ Place = at /\ Place' = at + 1
      BY <2>1, <1>1 DEF Back, Place
    <3> QED BY <3>1, <1>1 DEF Folded
  <2>2. CASE ~ (at > 0 /\ at < Len(log))
    <3>1. pc' = "idle" /\ at' = 0 /\ Place = Len(log) /\ Place' = Len(log)
      BY <2>2, <1>1 DEF Back, Place, TypeOK
    <3> QED BY <3>1, <1>1 DEF Folded
  <2> QED BY <2>1, <2>2
<1>3. CASE pc = "applying"
  <2>1. Folded = {log[i] : i \in 1 .. (Place - 1)}
    BY <1>3 DEF Folded
  <2>2. 1 .. Place = (1 .. (Place - 1)) \cup {Place}
    BY <1>1
  <2> QED BY <1>1, <1>2, <1>3, <2>1, <2>2 DEF Back
<1>4. CASE pc # "applying"
  BY <1>2, <1>4 DEF Folded, Back
<1> QED BY <1>3, <1>4

LEMMA InitFolds == Init => FoldInv
<1> SUFFICES ASSUME Init PROVE FoldInv
  OBVIOUS
<1>1. Folded = {}
  BY DEF Init, Folded, Place
<1> QED BY <1>1 DEF Init, FoldInv

\* An event is folded without a write: it carries no item, or its item is applied.
LEMMA FoldWithoutWrite ==
    ASSUME TypeOK, FoldInv, pc = "applying", Back,
           log' = log, applied' = applied, buffer' = buffer, clean' = clean,
           Current \in Payments \cup Refunds => IsApplied(Current)
    PROVE  FoldInv'
<1> SUFFICES ASSUME clean PROVE FoldInv'
  BY DEF FoldInv
<1>1. pc' \in {"idle", "applying"} /\ Folded' = Folded \cup {Current}
  BY BackFolds
<1>2. \A e : (Waits(e) <=> Waits(e)') /\ (IsApplied(e) <=> IsApplied(e)')
  BY DEF Waits, IsApplied
<1> QED BY <1>1, <1>2 DEF FoldInv

LEMMA NextFolds == WellFormed /\ TypeOK /\ FoldInv /\ [Next]_vars => FoldInv'
<1> SUFFICES ASSUME WellFormed, TypeOK, FoldInv, [Next]_vars PROVE FoldInv'
  OBVIOUS
<1>1. CASE Ignore
  <2>1. Back /\ pc = "applying" /\ Current \notin Payments \cup Refunds
    BY <1>1 DEF Ignore, WellFormed
  <2> QED BY <1>1, <2>1, FoldWithoutWrite DEF Ignore
<1>2. CASE Buffer
  <2> SUFFICES ASSUME clean PROVE FoldInv'
    BY <1>2 DEF Buffer, FoldInv
  <2>1. pc' \in {"idle", "applying"} /\ Folded' = Folded \cup {Current}
    BY <1>2, BackFolds DEF Buffer
  <2>2. /\ Current \in Refunds /\ Waits(Current) /\ pc = "applying"
        /\ applied' = applied
        /\ buffer' = WithoutKey(buffer, Current) \cup {Current}
    BY <1>2 DEF Buffer
  <2>3. buffer' = buffer \cup {Current}
    BY <2>2, KeysAreIds DEF TypeOK
  <2>4. \A e : (Waits(e) <=> Waits(e)') /\ (IsApplied(e) <=> IsApplied(e)')
    BY <2>2 DEF Waits, IsApplied
  <2> QED BY <2>1, <2>2, <2>3, <2>4 DEF FoldInv
<1>3. CASE Known
  BY <1>3, FoldWithoutWrite DEF Known
<1>4. CASE ApplyItem
  <2> SUFFICES ASSUME clean PROVE FoldInv'
    BY <1>4 DEF ApplyItem, FoldInv
  <2>1. /\ pc = "applying" /\ pc' = "flushing" /\ todo' = buffer
        /\ applied' = applied \cup {Current} /\ buffer' = buffer
        /\ log' = log /\ at' = at
    BY <1>4, WriteNew DEF ApplyItem
  <2>2. Folded' = Folded \cup {Current}
    <3>1. Place \in 1 .. Len(log) /\ Current = log[Place] /\ Place' = Place
      BY <2>1, CurrentIsLogged DEF Place
    <3>2. 1 .. Place = (1 .. (Place - 1)) \cup {Place}
      BY <3>1 DEF TypeOK
    <3> QED BY <2>1, <3>1, <3>2 DEF Folded
  <2>3. \A e : IsApplied(e) => IsApplied(e)'
    BY <2>1 DEF IsApplied, ItemsOf
  <2>4. \A e \in Folded' \cap (Payments \cup Refunds) : IsApplied(e)' \/ e \in buffer'
    <3>1. SUFFICES ASSUME NEW e \in Folded' \cap (Payments \cup Refunds)
                   PROVE  IsApplied(e)' \/ e \in buffer'
      OBVIOUS
    <3>2. ItemOf[Current] \in ItemsOf(applied)'
      BY <2>1 DEF ItemsOf
    <3>3. CASE e = Current
      BY <3>2, <3>3 DEF IsApplied
    <3>4. CASE e \in Folded
      BY <2>1, <2>3, <3>4 DEF FoldInv
    <3> QED BY <2>2, <3>3, <3>4
  <2> QED BY <2>1, <2>2, <2>4 DEF FoldInv
<1>5. CASE EndFlush
  <2> SUFFICES ASSUME clean PROVE FoldInv'
    BY <1>5 DEF EndFlush, FoldInv
  <2>1. pc' \in {"idle", "applying"} /\ Folded' = Folded
    BY <1>5, BackFolds DEF EndFlush
  <2>2. pc = "flushing" /\ todo = {} /\ applied' = applied /\ buffer' = buffer
    BY <1>5 DEF EndFlush
  <2>3. \A e : (Waits(e) <=> Waits(e)') /\ (IsApplied(e) <=> IsApplied(e)')
    BY <2>2 DEF Waits, IsApplied
  <2> QED BY <2>1, <2>2, <2>3 DEF FoldInv
<1>6. ASSUME NEW e \in Refunds, FlushWaiting(e) PROVE FoldInv'
  <2> SUFFICES ASSUME clean PROVE FoldInv'
    BY <1>6 DEF FlushWaiting, FoldInv
  <2>1. /\ pc = "flushing" /\ pc' = pc /\ Waits(e) /\ todo' = todo \ {e}
        /\ applied' = applied /\ buffer' = buffer /\ log' = log /\ at' = at
    BY <1>6 DEF FlushWaiting
  <2>2. /\ Folded' = Folded
        /\ \A f : (Waits(f) <=> Waits(f)') /\ (IsApplied(f) <=> IsApplied(f)')
    BY <2>1 DEF Folded, Place, Waits, IsApplied
  <2> QED BY <2>1, <2>2 DEF FoldInv
<1>7. ASSUME NEW e \in Refunds, FlushItem(e) PROVE FoldInv'
  <2> SUFFICES ASSUME clean PROVE FoldInv'
    BY <1>7 DEF FlushItem, FoldInv
  <2>1. /\ pc = "flushing" /\ pc' = "deleting" /\ IsNext(e) /\ todo' = todo
        /\ applied' = applied \cup {e} /\ buffer' = buffer /\ log' = log /\ at' = at
    BY <1>7, WriteNew DEF FlushItem
  <2>2. Folded' = Folded
    BY <2>1 DEF Folded, Place
  <2>3. \A f \in buffer \ todo : Waits(f)'
    BY <2>1, RefundsEndNoWait DEF FoldInv, TypeOK
  <2>4. e \in buffer /\ \A f : IsApplied(f) => IsApplied(f)'
    BY <2>1 DEF IsNext, FoldInv, IsApplied, ItemsOf
  <2>5. applied' \cup buffer' \subseteq Folded'
    BY <2>1, <2>2, <2>4 DEF FoldInv
  <2>6. \A f \in Folded' \cap (Payments \cup Refunds) : IsApplied(f)' \/ f \in buffer'
    BY <2>1, <2>2, <2>4 DEF FoldInv
  <2>7. todo' \subseteq buffer'
    BY <2>1 DEF FoldInv
  <2> QED BY <2>1, <2>3, <2>5, <2>6, <2>7 DEF FoldInv
<1>8. ASSUME NEW e \in Refunds, DeleteRow(e) PROVE FoldInv'
  <2> SUFFICES ASSUME clean PROVE FoldInv'
    BY <1>8 DEF DeleteRow, FoldInv
  <2>1. /\ pc \in {"flushing", "deleting"} /\ pc' = "flushing" /\ IsApplied(e)
        /\ todo' = todo \ {e} /\ buffer' = buffer \ {e}
        /\ applied' = applied /\ log' = log /\ at' = at
    BY <1>8, KeysAreIds DEF DeleteRow, TypeOK
  <2>2. /\ Folded' = Folded
        /\ \A f : (Waits(f) <=> Waits(f)') /\ (IsApplied(f) <=> IsApplied(f)')
    BY <2>1 DEF Folded, Place, Waits, IsApplied
  <2> QED BY <2>1, <2>2 DEF FoldInv
<1>9. CASE Replay
  <2>1. Folded' = {}
    <3>1. CASE log = << >>
      BY <1>9, <3>1 DEF Replay, Folded, Place, TypeOK
    <3>2. CASE log # << >>
      BY <1>9, <3>2 DEF Replay, Folded, Place
    <3> QED BY <3>1, <3>2
  <2>2. applied' = {} /\ buffer' = {} /\ pc' \in {"idle", "applying"}
    BY <1>9 DEF Replay
  <2> QED BY <2>1, <2>2 DEF FoldInv
<1>10. CASE Kill
  BY <1>10 DEF Kill, FoldInv
<1>11. ASSUME NEW e \in Events, Deliver(e) PROVE FoldInv'
  <2> SUFFICES ASSUME clean PROVE FoldInv'
    BY <1>11 DEF Deliver, FoldInv
  <2>1. /\ pc = "idle" /\ pc' = "applying" /\ at = 0 /\ at' = 0
        /\ applied' = applied /\ buffer' = buffer /\ log' = Append(log, e)
    BY <1>11 DEF Deliver, TypeOK
  <2>2. Folded' = Folded
    <3>1. /\ Len(log) \in Nat /\ Len(log') = Len(log) + 1
          /\ \A i \in 1 .. Len(log) : log'[i] = log[i]
      BY <2>1, AppendToLog DEF TypeOK
    <3>2. Place = Len(log) /\ Place' - 1 = Len(log)
      BY <2>1, <3>1 DEF Place
    <3> QED BY <2>1, <3>1, <3>2 DEF Folded
  <2>3. \A f : (Waits(f) <=> Waits(f)') /\ (IsApplied(f) <=> IsApplied(f)')
    BY <2>1 DEF Waits, IsApplied
  <2> QED BY <2>1, <2>2, <2>3 DEF FoldInv
<1>12. CASE UNCHANGED vars
  BY <1>12 DEF vars, FoldInv, Folded, Place, Waits, IsApplied
<1>13. ASSUME NEW e \in Events, Redeliver(e) PROVE FoldInv'
  BY <1>12, <1>13 DEF Redeliver
<1> QED BY <1>1, <1>2, <1>3, <1>4, <1>5, <1>6, <1>7, <1>8, <1>9, <1>10, <1>11, <1>12, <1>13
        DEF Next, Work

\* What is folded is the whole log when the engine is idle: applied and waiting are then
\* what the set of stored events says.
LEMMA FoldedIsSettled == WellFormed /\ TypeOK /\ StoredInv /\ FoldInv => Settled
<1> SUFFICES ASSUME WellFormed, TypeOK, StoredInv, FoldInv, pc = "idle", clean
             PROVE  /\ ItemsOf(applied) = LedgerOf(Logged)
                    /\ buffer = {e \in Logged : Orphan(Logged, e)}
  BY DEF Settled
<1>1. Folded = Logged
  BY DEF TypeOK, Folded, Place, Logged
<1>2. ASSUME NEW e \in Refunds PROVE Orphan(Logged, e) <=> Waits(e)
  <2>1. ASSUME NEW f \in applied, ItemOf[f] = ParentOf[e] PROVE f \in Logged \cap Payments
    BY <1>1, <2>1 DEF FoldInv, WellFormed, TypeOK
  <2>2. ASSUME NEW f \in Logged \cap Payments PROVE ItemOf[f] \in ItemsOf(applied)
    BY <1>1, WebhookConstants DEF FoldInv, IsApplied, TypeOK
  <2> QED BY <2>1, <2>2 DEF Orphan, Waits, ItemsOf
<1>3. ASSUME NEW e \in Payments \cup Refunds, IsApplied(e) PROVE ~ Waits(e)
  <2>1. PICK g \in applied : ItemOf[g] = ItemOf[e]
    BY <1>3 DEF IsApplied, ItemsOf
  <2>2. g \in Refunds => ParentOf[g] \in ItemsOf(applied)
    BY DEF StoredInv, ParentFirst
  <2>3. (e \in Payments <=> g \in Payments) /\ ParentOf[g] = ParentOf[e]
    BY <2>1 DEF WellFormed, TypeOK
  <2> QED BY <2>2, <2>3, WebhookConstants DEF Waits, TypeOK
<1>4. \A e \in buffer : e \in Refunds /\ Waits(e) /\ e \in Logged
  BY <1>1 DEF FoldInv, TypeOK
<1>5. \A e : Orphan(Logged, e) => e \in Refunds
  BY DEF Orphan
<1>6. buffer = {e \in Logged : Orphan(Logged, e)}
  BY <1>1, <1>2, <1>3, <1>4, <1>5 DEF FoldInv
<1>7. \A e \in applied : e \in Logged \cap (Payments \cup Refunds) /\ ~ Orphan(Logged, e)
  <2>1. \A e \in applied : IsApplied(e)
    BY DEF IsApplied, ItemsOf
  <2> QED BY <1>1, <1>2, <1>3, <1>5, <2>1 DEF FoldInv, TypeOK
<1>8. \A e \in Logged \cap (Payments \cup Refunds) : ~ Orphan(Logged, e) => IsApplied(e)
  BY <1>1, <1>6 DEF FoldInv
<1> QED BY <1>6, <1>7, <1>8 DEF LedgerOf, ItemsOf, IsApplied

\* F47 for well-formed events, any number of them, delivered in any order and any number
\* of times, with any kills and replays: the idle engine holds the ledger its log stands
\* for, unless it was killed and has not been replayed since.
THEOREM LogDeterminesLedger ==
    ASSUME WellFormed
    PROVE  Spec => []Settled
<1>1. Init => TypeOK /\ StoredInv /\ FoldInv
  BY InitTypeOK, InitStored, InitFolds
<1>2. TypeOK /\ StoredInv /\ FoldInv /\ [Next]_vars => (TypeOK /\ StoredInv /\ FoldInv)'
  BY NextTypeOK, NextStored, NextFolds
<1>3. TypeOK /\ StoredInv /\ FoldInv => Settled
  BY FoldedIsSettled
<1> QED BY <1>1, <1>2, <1>3, PTL DEF Spec
-----------------------------------------------------------------------------
(***************************************************************************)
(* A call comes to an end.                                                 *)
(***************************************************************************)

\* What is left of deliver or replay: rows of the log, and in the current one the rows of
\* the buffer.
RowsLeft == IF pc = "idle" THEN 0 ELSE IF at = 0 THEN 1 ELSE Len(log) + 1 - at
InRow == CASE pc = "applying" -> 2 * Len(log) + 2
           [] pc = "flushing" -> 2 * Cardinality(todo) + 1
           [] pc = "deleting" -> 2 * Cardinality(todo)
           [] pc = "idle"     -> 0
RowSpan == 2 * Len(log) + 3
ToGo == RowsLeft * RowSpan + InRow

\* Every buffered event is a row of the log.
LEMMA BufferedAreRows ==
    ASSUME TypeOK, NEW events, events \subseteq Logged
    PROVE  IsFiniteSet(events) /\ Cardinality(events) \in 0 .. Len(log)
<1>1. Len(log) \in Nat /\ DOMAIN log = 1 .. Len(log)
  BY DEF TypeOK
<1>2. IsFiniteSet(1 .. Len(log)) /\ Cardinality(1 .. Len(log)) = Len(log)
  <2>1. \A n \in Nat : IsFiniteSet(1 .. n) /\ Cardinality(1 .. n) = n
    BY FS_Interval
  <2> QED BY <1>1, <2>1
<1>3. log \in Surjection(1 .. Len(log), Logged)
  BY <1>1 DEF TypeOK, Surjection, Logged
<1>4. IsFiniteSet(Logged) /\ Cardinality(Logged) <= Len(log)
  BY <1>2, <1>3, FS_Surjection
<1>5. IsFiniteSet(events) /\ Cardinality(events) <= Cardinality(Logged)
  BY <1>4, FS_Subset
<1>6. Cardinality(Logged) \in Nat /\ Cardinality(events) \in Nat
  BY <1>4, <1>5, FS_CardinalityType
<1> QED BY <1>1, <1>4, <1>5, <1>6

LEMMA RowDigits ==
    ASSUME TypeOK, StoredInv
    PROVE  /\ RowSpan \in Nat /\ Len(log) \in Nat
           /\ RowsLeft \in 0 .. Len(log) /\ InRow \in 0 .. RowSpan - 1
<1>1. Len(log) \in Nat /\ pc \in PCs /\ at \in 0 .. Len(log) /\ (pc # "idle" /\ at = 0 => Len(log) > 0)
  BY DEF TypeOK
<1>2. Cardinality(todo) \in 0 .. Len(log)
  BY BufferedAreRows DEF StoredInv
<1>3. InRow \in {2 * Len(log) + 2, 2 * Cardinality(todo) + 1, 2 * Cardinality(todo), 0}
  BY <1>1 DEF InRow, PCs
<1> QED BY <1>1, <1>2, <1>3 DEF RowSpan, RowsLeft

\* A row outweighs what is left in one.
LEMMA RowOutweighs ==
    ASSUME NEW h \in Nat, NEW k \in Nat, NEW span \in Nat, NEW x, NEW y,
           x \in 0 .. span - 1, y \in 0 .. span - 1,
           h < k \/ (h = k /\ x < y)
    PROVE  h * span + x \in Nat /\ h * span + x < k * span + y
<1>1. h * span \in Nat /\ k * span \in Nat
  OBVIOUS
<1>2. CASE h < k
  <2> DEFINE d == k - h - 1
  <2>1. d \in Nat /\ k = h + 1 + d
    BY <1>2
  <2>2. d * span \in Nat
    BY <2>1
  <2>3. k * span = h * span + span + d * span
    BY <2>1
  <2> QED BY <1>1, <2>2, <2>3
<1>3. CASE h = k /\ x < y
  BY <1>1, <1>3
<1> QED BY <1>2, <1>3

\* Going back leaves a row behind.
LEMMA BackLeavesRow ==
    ASSUME TypeOK, pc # "idle", Back, log' = log
    PROVE  RowsLeft' < RowsLeft
BY DEF TypeOK, PCs, Back, RowsLeft

\* Taking an event from todo leaves one less.
LEMMA TodoShrinks ==
    ASSUME TypeOK, StoredInv, NEW e \in todo, todo' = todo \ {e}
    PROVE  Cardinality(todo) \in Nat /\ Cardinality(todo') = Cardinality(todo) - 1
<1>1. IsFiniteSet(todo) /\ Cardinality(todo) \in Nat
  BY BufferedAreRows DEF StoredInv, TypeOK
<1>2. Cardinality(todo \ {e}) = Cardinality(todo) - 1
  BY <1>1, FS_RemoveElement
<1> QED BY <1>1, <1>2

\* A step of the engine leaves a row behind, or something of the current one.
LEMMA WorkDescends ==
    ASSUME TypeOK, StoredInv, Work
    PROVE  log' = log /\ (RowsLeft' < RowsLeft \/ (RowsLeft' = RowsLeft /\ InRow' < InRow))
<1>1. CASE Ignore
  <2>1. CASE Current \in Poison
    <3>1. RowsLeft' = 0 /\ log' = log
      BY <1>1, <2>1 DEF Ignore, RowsLeft
    <3>2. RowsLeft > 0
      BY <1>1 DEF Ignore, TypeOK, RowsLeft
    <3> QED BY <3>1, <3>2
  <2>2. CASE Current \notin Poison
    BY <1>1, <2>2, BackLeavesRow DEF Ignore
  <2> QED BY <2>1, <2>2
<1>2. CASE Buffer \/ Known \/ EndFlush
  <2>1. pc # "idle" /\ Back /\ log' = log
    BY <1>2 DEF Buffer, Known, EndFlush
  <2> QED BY <2>1, BackLeavesRow
<1>3. CASE ApplyItem
  <2>1. Cardinality(buffer) \in 0 .. Len(log) /\ Len(log) \in Nat
    BY BufferedAreRows, RowDigits DEF StoredInv
  <2>2. InRow = 2 * Len(log) + 2 /\ InRow' = 2 * Cardinality(buffer) + 1
    BY <1>3 DEF ApplyItem, InRow
  <2>3. InRow' < InRow
    BY <2>1, <2>2
  <2> QED BY <1>3, <2>3 DEF ApplyItem, RowsLeft
<1>4. ASSUME NEW e \in Refunds, FlushWaiting(e)
      PROVE  log' = log /\ RowsLeft' = RowsLeft /\ InRow' < InRow
  <2>1. Cardinality(todo) \in Nat /\ Cardinality(todo') = Cardinality(todo) - 1
    BY <1>4, TodoShrinks DEF FlushWaiting, IsNext
  <2>2. InRow = 2 * Cardinality(todo) + 1 /\ InRow' = 2 * Cardinality(todo') + 1
    BY <1>4 DEF FlushWaiting, InRow
  <2>3. InRow' < InRow
    BY <2>1, <2>2
  <2> QED BY <1>4, <2>3 DEF FlushWaiting, RowsLeft
<1>5. ASSUME NEW e \in Refunds, FlushItem(e)
      PROVE  log' = log /\ RowsLeft' = RowsLeft /\ InRow' < InRow
  <2>1. Cardinality(todo) \in Nat
    BY BufferedAreRows DEF StoredInv, TypeOK
  <2>2. InRow = 2 * Cardinality(todo) + 1 /\ InRow' = 2 * Cardinality(todo)
    BY <1>5 DEF FlushItem, InRow
  <2>3. InRow' < InRow
    BY <2>1, <2>2
  <2> QED BY <1>5, <2>3 DEF FlushItem, RowsLeft
<1>6. ASSUME NEW e \in Refunds, DeleteRow(e)
      PROVE  log' = log /\ RowsLeft' = RowsLeft /\ InRow' < InRow
  <2>1. Cardinality(todo) \in Nat /\ Cardinality(todo') = Cardinality(todo) - 1
    BY <1>6, TodoShrinks DEF DeleteRow, IsNext
  <2>2. /\ InRow = 2 * Cardinality(todo) + 1 \/ InRow = 2 * Cardinality(todo)
        /\ InRow' = 2 * Cardinality(todo') + 1
    BY <1>6 DEF DeleteRow, InRow
  <2>3. InRow' < InRow
    BY <2>1, <2>2
  <2> QED BY <1>6, <2>3 DEF DeleteRow, RowsLeft
<1> QED BY <1>1, <1>2, <1>3, <1>4, <1>5, <1>6 DEF Work

\* deliver and replay return: each of their commits takes from a number no higher than the
\* log allows, so no replay meets a row twice and no flush an event it has looked at
\* (_flush_buffer makes one pass).
THEOREM EngineDescends ==
    Spec => /\ [](ToGo \in 0 .. (Len(log) + 1) * RowSpan)
            /\ [][Work => ToGo' < ToGo]_vars
<1> DEFINE Limit == ToGo \in 0 .. (Len(log) + 1) * RowSpan
           Descent == Work => ToGo' < ToGo
           Inv == TypeOK /\ StoredInv
<1>1. Init => Inv
  BY InitTypeOK, InitStored
<1>2. Inv /\ [Next]_vars => Inv'
  BY NextTypeOK, NextStored
<1>3. Inv => Limit
  <2> SUFFICES ASSUME TypeOK, StoredInv PROVE Limit
    OBVIOUS
  <2> DEFINE top == Len(log) + 1
  <2>1. RowSpan \in Nat /\ top \in Nat /\ RowsLeft \in Nat /\ RowsLeft < top
    BY RowDigits
  <2>2. InRow \in 0 .. RowSpan - 1 /\ 0 \in 0 .. RowSpan - 1
    BY RowDigits
  <2> HIDE DEF top
  <2>3. ToGo \in Nat /\ ToGo < top * RowSpan + 0
    BY <2>1, <2>2, RowOutweighs DEF ToGo
  <2>4. top * RowSpan \in Nat
    BY <2>1
  <2>5. ToGo \in 0 .. top * RowSpan
    BY <2>3, <2>4
  <2> QED BY <2>5 DEF top
<1>4. Inv /\ (RowSpan \in Nat /\ RowsLeft \in Nat /\ InRow \in 0 .. RowSpan - 1)'
        => [Descent]_vars
  <2> SUFFICES ASSUME TypeOK, StoredInv, Work,
                      (RowSpan \in Nat /\ RowsLeft \in Nat /\ InRow \in 0 .. RowSpan - 1)'
               PROVE  ToGo' < ToGo
    OBVIOUS
  <2>1. log' = log /\ (RowsLeft' < RowsLeft \/ (RowsLeft' = RowsLeft /\ InRow' < InRow))
    BY WorkDescends
  <2>2. RowSpan' = RowSpan
    BY <2>1 DEF RowSpan
  <2>3. RowSpan \in Nat /\ RowsLeft \in Nat /\ InRow \in 0 .. RowSpan - 1
    BY RowDigits
  <2>4. RowsLeft' \in Nat /\ InRow' \in 0 .. RowSpan - 1
    BY <2>2
  <2>5. RowsLeft' * RowSpan + InRow' < RowsLeft * RowSpan + InRow
    BY <2>1, <2>3, <2>4, RowOutweighs
  <2> QED BY <2>2, <2>5 DEF ToGo
<1>5. Inv => RowSpan \in Nat /\ RowsLeft \in Nat /\ InRow \in 0 .. RowSpan - 1
  <2> SUFFICES ASSUME TypeOK, StoredInv
               PROVE  RowSpan \in Nat /\ RowsLeft \in Nat /\ InRow \in 0 .. RowSpan - 1
    OBVIOUS
  <2> QED BY RowDigits
<1> HIDE DEF Limit, Descent, Inv
<1>6. Spec => []Limit /\ [][Descent]_vars
  BY <1>1, <1>2, <1>3, <1>4, <1>5, PTL DEF Spec
<1> QED BY <1>6 DEF Limit, Descent
=============================================================================
