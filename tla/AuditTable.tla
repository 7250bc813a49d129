----------------------------- MODULE AuditTable -----------------------------
(***************************************************************************)
(* The audit_entry table of residual_zero.audit, as a set of rows          *)
(*     [seq, run, payload, prev]                                           *)
(* and the statements the code runs against it.  The entry_hash column is  *)
(* HashOf(row): sha256 over the payload and the previous hash is taken to  *)
(* be collision free, so a hash is the sequence of payloads it covers.     *)
(***************************************************************************)
EXTENDS Integers, Sequences

\* GENESIS_PREV_HASH: the hash that covers nothing.
Genesis == << >>

\* Mutant of EntryHash: the previous hash is left out of the digest.
EntryHashAlone(payload, prev) == << payload >>

\* entry_hash = sha256(canonical_json(payload) || 0x00 || prev_hash).
EntryHash(payload, prev) == Append(prev, payload)

HashOf(row) == EntryHash(row.payload, row.prev)

\* SELECT seq, entry_hash FROM audit_entry ORDER BY seq DESC LIMIT 1
IsHead(table, row) == row \in table /\ \A other \in table : other.seq <= row.seq

\* Mutant of Follows: the head's prev_hash is read instead of its entry_hash.
FollowsPrev(table, seq, prev) ==
    \/ table = {} /\ seq = 0 /\ prev = Genesis
    \/ \E row \in table : IsHead(table, row) /\ seq = row.seq + 1 /\ prev = row.prev

\* What append_entry computes from the head it read: genesis and 0 on an empty
\* table, the successor of the head otherwise.
Follows(table, seq, prev) ==
    \/ table = {} /\ seq = 0 /\ prev = Genesis
    \/ \E row \in table : IsHead(table, row) /\ seq = row.seq + 1 /\ prev = HashOf(row)

\* The constraint an INSERT must satisfy on both backends: seq is the primary key.
\* The UNIQUE columns of the PostgreSQL table (prev_hash, entry_hash) are left out
\* of the guard; NoFork in AuditChain shows they never refuse a row the key accepts.
Collides(table, new) == \E row \in table : row.seq = new.seq

\* Mutant of Without: the DELETE has no WHERE clause.
WithoutAny(table, run) == {}

\* DELETE FROM audit_entry WHERE run_id = ?
Without(table, run) == {row \in table : row.run # run}

\* A deletion that leaves of a table only the rows left cuts the chain: a row that stays, or
\* one that was computed from the table, follows a row that goes.
Cuts(table, left, flying) ==
    \E gone \in table \ left, row \in left \cup flying : row.seq = gone.seq + 1

\* verify_chain: walking the rows by seq, each row's prev_hash is the hash of the
\* row before it, and the first row's is genesis.
Adjacent(table, d, e) ==
    d.seq < e.seq /\ ~ \E m \in table : d.seq < m.seq /\ m.seq < e.seq

Verifies(table) ==
    /\ \A e \in table : (\A d \in table : e.seq <= d.seq) => e.prev = Genesis
    /\ \A d, e \in table : Adjacent(table, d, e) => e.prev = HashOf(d)
=============================================================================
