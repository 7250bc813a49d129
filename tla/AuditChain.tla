----------------------------- MODULE AuditChain -----------------------------
(***************************************************************************)
(* The audit chain of one organisation and the writers that share it.      *)
(* Appending (audit.append_entry) is a read-modify-write: read the head,   *)
(* hash against it, insert the successor.  On PostgreSQL the two halves    *)
(* hold a transaction-scoped advisory lock; on SQLite nothing does         *)
(* (Locking = FALSE).  Discarding a run (audit.discard_run) deletes its    *)
(* rows and takes no lock on either backend.                               *)
(***************************************************************************)
EXTENDS AuditTable

CONSTANTS
    Writers,    \* connections that append
    Runs,       \* run identities the rows are attributed to
    Payloads,   \* what an entry says of a credit
    Locking,    \* TRUE: PgConnection.lock_for_append; FALSE: sqlite3.Connection
    MaxSeq      \* bound: no entry is numbered above it

ASSUME ChainConstants == Locking \in BOOLEAN /\ MaxSeq \in Nat

VARIABLES
    audit,      \* the committed rows
    pending,    \* rows computed from a head that was read, not yet inserted
    lock,       \* the writer holding the advisory lock: {} or a singleton
    cut         \* history: a deletion has cut the chain

chainVars == << audit, pending, lock, cut >>

Rows == [seq : Nat, run : Runs, payload : Payloads, prev : Seq(Payloads)]
PendingRows == [writer : Writers, row : Rows]

ChainTypeOK ==
    /\ audit \subseteq Rows
    /\ pending \subseteq PendingRows
    /\ lock \subseteq Writers
    /\ cut \in BOOLEAN

ChainInit ==
    /\ audit = {}
    /\ pending = {}
    /\ lock = {}
    /\ cut = FALSE

InFlight == {p.row : p \in pending}
Busy(w) == \E p \in pending : p.writer = w

NewRow(seq, run, payload, prev) ==
    [seq |-> seq, run |-> run, payload |-> payload, prev |-> prev]

\* Mutant of ReadHead: the lock is not waited for.
ReadHeadUnlocked(w, run, payload) ==
    /\ ~ Busy(w)
    /\ \E seq \in 0 .. MaxSeq, prev \in {Genesis} \cup {HashOf(row) : row \in audit} :
          /\ Follows(audit, seq, prev)
          /\ pending' = pending \cup
                {[writer |-> w, row |-> NewRow(seq, run, payload, prev)]}
    /\ lock' = IF Locking THEN {w} ELSE lock
    /\ UNCHANGED << audit, cut >>

\* Take the lock if there is one, then SELECT the head and compute the new row.
ReadHead(w, run, payload) ==
    /\ ~ Busy(w)
    /\ Locking => lock = {}
    /\ \E seq \in 0 .. MaxSeq, prev \in {Genesis} \cup {HashOf(row) : row \in audit} :
          /\ Follows(audit, seq, prev)
          /\ pending' = pending \cup
                {[writer |-> w, row |-> NewRow(seq, run, payload, prev)]}
    /\ lock' = IF Locking THEN {w} ELSE lock
    /\ UNCHANGED << audit, cut >>

\* The INSERT satisfies the primary key and commits; the lock goes with the
\* transaction.
Insert(p) ==
    /\ p \in pending
    /\ ~ Collides(audit, p.row)
    /\ audit' = audit \cup {p.row}
    /\ pending' = pending \ {p}
    /\ lock' = lock \ {p.writer}
    /\ UNCHANGED cut

\* The transaction ends without a row: the INSERT met the key, the process died,
\* or an exception was raised between the two statements.
Abandon(p) ==
    /\ p \in pending
    /\ pending' = pending \ {p}
    /\ lock' = lock \ {p.writer}
    /\ UNCHANGED << audit, cut >>

\* discard_run's DELETE.
Discard(run) ==
    /\ audit' = Without(audit, run)
    /\ cut' = (cut \/ Cuts(audit, audit', InFlight))
    /\ UNCHANGED << pending, lock >>

ChainNext ==
    \/ \E w \in Writers, run \in Runs, payload \in Payloads : ReadHead(w, run, payload)
    \/ \E p \in pending : Insert(p) \/ Abandon(p)
    \/ \E run \in Runs : Discard(run)

ChainSpec == ChainInit /\ [][ChainNext]_chainVars

-----------------------------------------------------------------------------
(***************************************************************************)
(* Properties.                                                             *)
(***************************************************************************)

\* No two rows claim the same predecessor, and no two rows are the same link:
\* the chain never branches, whatever interleaving of appends and deletions
\* produced it, with or without the lock, and with nothing but the primary key
\* to refuse a row (docstring of audit.append_entry: "collide on seq or fork").
NoFork == \A d, e \in audit : (d.prev = e.prev \/ HashOf(d) = HashOf(e)) => d = e

\* Under the advisory lock an append never meets the primary key either, although
\* discard_run deletes rows, the head among them, without taking the lock.
LockedAppendNeverCollides == Locking => \A p \in pending : ~ Collides(audit, p.row)

\* Whatever is appended, abandoned and discarded, with the lock or without, verify_chain
\* accepts the table, unless a discard deleted a row that another run's row follows, or a row
\* in flight: a failed run that is undone before anybody appends after it leaves no trace.
VerifiesUntilCut == ~ cut => Verifies(audit)

-----------------------------------------------------------------------------
(***************************************************************************)
(* The inductive invariant behind them.                                    *)
(***************************************************************************)
\* seq is a key.
KeyInv == \A d, e \in audit : d.seq = e.seq => d = e

\* A row's number is the length of the history its hash covers, also after
\* deletions have cut rows out of the middle: equal predecessors are equal keys.
DepthInv == \A e \in audit \cup InFlight : e.seq = Len(e.prev)

\* The lock has one holder, who has one row in flight, numbered above the table.
LockInv ==
    Locking => \A p \in pending :
        /\ lock = {p.writer}
        /\ \A q \in pending : q.writer = p.writer => q = p
        /\ \A e \in audit : e.seq < p.row.seq

\* As long as the chain is not cut every row, committed or in flight, has its predecessor.
LinkInv ==
    ~ cut => \A e \in audit \cup InFlight :
        e.seq = 0 \/ \E d \in audit : d.seq = e.seq - 1 /\ e.prev = HashOf(d)

\* The inductive invariant: types, keys, depths, the lock and the links.
ChainInv == ChainTypeOK /\ KeyInv /\ DepthInv /\ LockInv /\ LinkInv
=============================================================================
