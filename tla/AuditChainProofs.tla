-------------------------- MODULE AuditChainProofs --------------------------
(***************************************************************************)
(* ChainInv is inductive, and the properties of AuditChain follow from it, *)
(* for any set of writers, runs and payloads, any number of entries, with  *)
(* or without the lock.  And what verify_chain is for: a table that it     *)
(* accepts holds what the head hash it returns was computed from.          *)
(***************************************************************************)
EXTENDS AuditChain, WellFoundedInduction, TLAPS

\* The hash of a row covers exactly one payload more than the hash it follows:
\* the fact about audit._entry_hash that the whole chain rests on.
LEMMA HashLength ==
    ASSUME NEW row \in Rows
    PROVE  /\ HashOf(row) \in Seq(Payloads)
           /\ Len(HashOf(row)) = Len(row.prev) + 1
BY DEF Rows, HashOf, EntryHash

\* Genesis is the only history of length 0.
LEMMA GenesisLength ==
    ASSUME NEW h \in Seq(Payloads), Len(h) = 0
    PROVE  h = Genesis
BY DEF Genesis

-----------------------------------------------------------------------------
LEMMA ChainInitInv == ChainInit => ChainInv
BY ChainConstants
   DEF ChainInit, ChainInv, ChainTypeOK, KeyInv, DepthInv, LockInv, LinkInv, InFlight

LEMMA ReadHeadInv ==
    ASSUME ChainInv, NEW w \in Writers, NEW run \in Runs, NEW payload \in Payloads,
           ReadHead(w, run, payload)
    PROVE  ChainInv'
<1> DEFINE new(seq, prev) == [writer |-> w, row |-> NewRow(seq, run, payload, prev)]
<1>1. PICK seq \in 0 .. MaxSeq, prev \in {Genesis} \cup {HashOf(row) : row \in audit} :
          /\ Follows(audit, seq, prev)
          /\ pending' = pending \cup {new(seq, prev)}
  BY DEF ReadHead
<1> DEFINE p == new(seq, prev)
<1>2. /\ audit' = audit /\ cut' = cut
      /\ lock' = IF Locking THEN {w} ELSE lock
      /\ Locking => lock = {}
      /\ \A q \in pending : q.writer # w
  BY DEF ReadHead, Busy
<1>3. seq \in Nat /\ MaxSeq \in Nat
  BY ChainConstants
<1>4. prev \in Seq(Payloads) /\ seq = Len(prev)
  <2>1. CASE audit = {} /\ seq = 0 /\ prev = Genesis
    BY <2>1 DEF Genesis
  <2>2. CASE \E row \in audit : IsHead(audit, row) /\ seq = row.seq + 1 /\ prev = HashOf(row)
    <3>1. PICK row \in audit : seq = row.seq + 1 /\ prev = HashOf(row)
      BY <2>2
    <3>2. row \in Rows /\ row.seq = Len(row.prev)
      BY DEF ChainInv, ChainTypeOK, DepthInv
    <3> QED BY <3>1, <3>2, HashLength
  <2> QED BY <1>1, <2>1, <2>2 DEF Follows
<1>5. /\ p.writer = w
      /\ p.row.seq = seq /\ p.row.prev = prev
      /\ p.row \in Rows /\ p \in PendingRows
      /\ pending' = pending \cup {p}
  BY <1>1, <1>3, <1>4 DEF NewRow, Rows, PendingRows
<1>6. InFlight' = InFlight \cup {p.row}
  BY <1>5 DEF InFlight
<1>7. \A e \in audit : e.seq < seq
  <2> SUFFICES ASSUME NEW e \in audit PROVE e.seq < seq
    OBVIOUS
  <2>1. PICK row \in audit : IsHead(audit, row) /\ seq = row.seq + 1
    BY <1>1 DEF Follows
  <2>2. e.seq <= row.seq /\ e.seq \in Nat /\ row.seq \in Nat
    BY <2>1 DEF IsHead, ChainInv, ChainTypeOK, Rows
  <2> QED BY <2>1, <2>2
<1>8. ChainTypeOK'
  BY <1>2, <1>5 DEF ChainInv, ChainTypeOK
<1>9. KeyInv'
  BY <1>2 DEF ChainInv, KeyInv
<1>10. DepthInv'
  BY <1>2, <1>4, <1>5, <1>6 DEF ChainInv, DepthInv
<1>11. LockInv'
  <2> SUFFICES ASSUME Locking, NEW q \in pending'
               PROVE  /\ lock' = {q.writer}
                      /\ \A r \in pending' : r.writer = q.writer => r = q
                      /\ \A e \in audit' : e.seq < q.row.seq
    BY DEF LockInv
  <2>1. pending = {}
    BY <1>2 DEF ChainInv, LockInv
  <2>2. q = p /\ pending' = {p}
    BY <1>5, <2>1
  <2> QED BY <1>2, <1>5, <1>7, <2>2
<1>12. LinkInv'
  <2> SUFFICES ASSUME ~ cut, NEW e \in audit \cup InFlight'
               PROVE  e.seq = 0 \/ \E d \in audit : d.seq = e.seq - 1 /\ e.prev = HashOf(d)
    BY <1>2 DEF LinkInv
  <2>1. CASE e \in audit \cup InFlight
    BY <2>1 DEF ChainInv, LinkInv
  <2>2. CASE e = p.row
    <3>1. CASE seq = 0
      BY <2>2, <3>1, <1>5
    <3>2. CASE \E row \in audit : seq = row.seq + 1 /\ prev = HashOf(row)
      <4>1. PICK row \in audit : seq = row.seq + 1 /\ prev = HashOf(row)
        BY <3>2
      <4>2. row.seq \in Nat
        BY DEF ChainInv, ChainTypeOK, Rows
      <4> QED BY <2>2, <1>5, <4>1, <4>2
    <3> QED BY <1>1, <3>1, <3>2 DEF Follows
  <2> QED BY <1>6, <2>1, <2>2
<1> QED BY <1>8, <1>9, <1>10, <1>11, <1>12 DEF ChainInv

LEMMA InsertInv ==
    ASSUME ChainInv, NEW p \in pending, Insert(p)
    PROVE  ChainInv'
<1>1. /\ audit' = audit \cup {p.row}
      /\ pending' = pending \ {p}
      /\ lock' = lock \ {p.writer}
      /\ cut' = cut
      /\ \A e \in audit : e.seq # p.row.seq
  BY DEF Insert, Collides
<1>2. p \in PendingRows /\ p.row \in Rows
  BY DEF ChainInv, ChainTypeOK, PendingRows
<1>3. p.row \in InFlight /\ InFlight' \subseteq InFlight
  BY <1>1 DEF InFlight
<1>4. ChainTypeOK'
  BY <1>1, <1>2 DEF ChainInv, ChainTypeOK
<1>5. KeyInv'
  BY <1>1 DEF ChainInv, KeyInv
<1>6. DepthInv'
  BY <1>1, <1>3 DEF ChainInv, DepthInv
<1>7. LockInv'
  BY <1>1 DEF ChainInv, LockInv
<1>8. LinkInv'
  BY <1>1, <1>3 DEF ChainInv, LinkInv
<1> QED BY <1>4, <1>5, <1>6, <1>7, <1>8 DEF ChainInv

LEMMA AbandonInv ==
    ASSUME ChainInv, NEW p \in pending, Abandon(p)
    PROVE  ChainInv'
<1>1. /\ audit' = audit /\ cut' = cut
      /\ pending' = pending \ {p}
      /\ lock' = lock \ {p.writer}
  BY DEF Abandon
<1>2. InFlight' \subseteq InFlight
  BY <1>1 DEF InFlight
<1>3. ChainTypeOK'
  BY <1>1 DEF ChainInv, ChainTypeOK
<1>4. KeyInv' /\ DepthInv' /\ LinkInv'
  BY <1>1, <1>2 DEF ChainInv, KeyInv, DepthInv, LinkInv
<1>5. LockInv'
  BY <1>1 DEF ChainInv, LockInv
<1> QED BY <1>3, <1>4, <1>5 DEF ChainInv

LEMMA DiscardInv ==
    ASSUME ChainInv, NEW run \in Runs, Discard(run)
    PROVE  ChainInv'
<1>1. /\ audit' \subseteq audit
      /\ pending' = pending /\ lock' = lock
      /\ cut' = (cut \/ Cuts(audit, audit', InFlight))
      /\ InFlight' = InFlight
  BY DEF Discard, Without, InFlight
<1>2. ChainTypeOK'
  <2>1. cut' \in BOOLEAN
    BY <1>1, Zenon DEF ChainInv, ChainTypeOK
  <2> QED BY <1>1, <2>1 DEF ChainInv, ChainTypeOK
<1>3. KeyInv' /\ DepthInv' /\ LockInv'
  BY <1>1 DEF ChainInv, KeyInv, DepthInv, LockInv
<1>4. LinkInv'
  <2>1. SUFFICES ASSUME ~ cut', NEW e \in audit' \cup InFlight, e.seq # 0
                 PROVE  \E d \in audit' : d.seq = e.seq - 1 /\ e.prev = HashOf(d)
    BY <1>1 DEF LinkInv
  <2>2. ~ cut /\ ~ Cuts(audit, audit', InFlight)
    BY <1>1, <2>1, Zenon
  <2>3. PICK d \in audit : d.seq = e.seq - 1 /\ e.prev = HashOf(d)
    BY <1>1, <2>1, <2>2 DEF ChainInv, LinkInv
  <2>4. e.seq = d.seq + 1
    <3>1. e \in Rows
      BY <1>1 DEF ChainInv, ChainTypeOK, InFlight, PendingRows
    <3> QED BY <2>3, <3>1 DEF Rows
  <2>5. d \in audit'
    BY <2>2, <2>4 DEF Cuts
  <2> QED BY <2>3, <2>5
<1> QED BY <1>2, <1>3, <1>4 DEF ChainInv

-----------------------------------------------------------------------------
\* The invariant holds throughout: audit.append_entry and audit.discard_run keep
\* the keys, the depths, the lock discipline and, until the chain is cut, the links.
THEOREM ChainInvariant == ChainSpec => []ChainInv
<1>1. ChainInv /\ [ChainNext]_chainVars => ChainInv'
  <2> SUFFICES ASSUME ChainInv, [ChainNext]_chainVars PROVE ChainInv'
    OBVIOUS
  <2>1. CASE \E w \in Writers, run \in Runs, payload \in Payloads : ReadHead(w, run, payload)
    BY <2>1, ReadHeadInv
  <2>2. CASE \E p \in pending : Insert(p)
    BY <2>2, InsertInv
  <2>3. CASE \E p \in pending : Abandon(p)
    BY <2>3, AbandonInv
  <2>4. CASE \E run \in Runs : Discard(run)
    BY <2>4, DiscardInv
  <2>5. CASE UNCHANGED chainVars
    BY <2>5 DEF chainVars, ChainInv, ChainTypeOK, KeyInv, DepthInv, LockInv, LinkInv, InFlight
  <2> QED BY <2>1, <2>2, <2>3, <2>4, <2>5 DEF ChainNext
<1> QED BY <1>1, ChainInitInv, PTL DEF ChainSpec

\* The audit chain never forks: not with the lock, not without it, and not when
\* discard_run deletes rows under a writer that has already read the head.
THEOREM ChainNeverForks == ChainSpec => []NoFork
<1>1. ChainInv => NoFork
  <2> SUFFICES ASSUME ChainInv, NEW d \in audit, NEW e \in audit,
                      d.prev = e.prev \/ HashOf(d) = HashOf(e)
               PROVE  d = e
    BY DEF NoFork
  <2>1. d \in Rows /\ e \in Rows /\ d.prev \in Seq(Payloads) /\ e.prev \in Seq(Payloads)
    BY DEF ChainInv, ChainTypeOK, Rows
  <2>2. Len(d.prev) = Len(e.prev)
    <3>1. Len(HashOf(d)) = Len(d.prev) + 1 /\ Len(HashOf(e)) = Len(e.prev) + 1
      BY <2>1, HashLength
    <3>2. Len(d.prev) \in Nat /\ Len(e.prev) \in Nat
      BY <2>1
    <3> QED BY <3>1, <3>2
  <2>3. d.seq = e.seq
    BY <2>2 DEF ChainInv, DepthInv
  <2> QED BY <2>3 DEF ChainInv, KeyInv
<1> QED BY <1>1, ChainInvariant, PTL

\* Under the advisory lock of PgConnection.lock_for_append the INSERT of
\* append_entry is never refused.
THEOREM LockedAppendSucceeds == ChainSpec => []LockedAppendNeverCollides
<1>1. ChainInv => LockedAppendNeverCollides
  <2> SUFFICES ASSUME ChainInv, Locking, NEW p \in pending, NEW e \in audit,
                      e.seq = p.row.seq
               PROVE  FALSE
    BY DEF LockedAppendNeverCollides, Collides
  <2>1. e.seq \in Nat /\ e.seq < p.row.seq
    BY DEF ChainInv, ChainTypeOK, Rows, LockInv
  <2> QED BY <2>1
<1> QED BY <1>1, ChainInvariant, PTL

\* verify_chain accepts the table until the discard of a run cuts it; a discard of the rows
\* nobody follows does not.
THEOREM ChainVerifiesUntilCut == ChainSpec => []VerifiesUntilCut
<1>1. ChainInv => VerifiesUntilCut
  <2> SUFFICES ASSUME ChainInv, ~ cut PROVE Verifies(audit)
    BY DEF VerifiesUntilCut
  <2>1. \A e \in audit : /\ e.seq \in Nat /\ e.prev \in Seq(Payloads) /\ e.seq = Len(e.prev)
                         /\ e.seq = 0 \/ \E d \in audit : d.seq = e.seq - 1 /\ e.prev = HashOf(d)
    BY DEF ChainInv, ChainTypeOK, Rows, DepthInv, LinkInv
  <2>2. ASSUME NEW e \in audit, \A d \in audit : e.seq <= d.seq
        PROVE  e.prev = Genesis
    <3>1. e.seq = 0
      BY <2>1, <2>2
    <3> QED BY <2>1, <3>1, GenesisLength
  <2>3. ASSUME NEW d \in audit, NEW e \in audit, Adjacent(audit, d, e)
        PROVE  e.prev = HashOf(d)
    <3>1. d.seq < e.seq /\ d.seq \in Nat /\ e.seq \in Nat
      BY <2>1, <2>3 DEF Adjacent
    <3>2. PICK c \in audit : c.seq = e.seq - 1 /\ e.prev = HashOf(c)
      BY <2>1, <3>1
    <3>3. c.seq = d.seq
      BY <2>1, <2>3, <3>1, <3>2 DEF Adjacent
    <3>4. c = d
      BY <3>3 DEF ChainInv, KeyInv
    <3> QED BY <3>2, <3>4
  <2> QED BY <2>2, <2>3 DEF Verifies
<1> QED BY <1>1, ChainInvariant, PTL

-----------------------------------------------------------------------------
(***************************************************************************)
(* What the head hash seals.                                               *)
(***************************************************************************)

NatLess == {p \in Nat \X Nat : p[1] < p[2]}

\* A set of naturals that is not empty has a least member.
LEMMA Least == ASSUME NEW T, T \subseteq Nat, T # {}
               PROVE  \E n \in T : \A m \in T : n <= m
<1>1. IsWellFoundedOn(NatLess, Nat)
  BY NatLessThanWellFounded DEF OpToRel, NatLess
<1>2. PICK x \in T : \A y \in T : ~ (<<y, x>> \in NatLess)
  BY <1>1, WFMin, Zenon
<1>3. \A m \in T : ~ (m < x)
  <2>1. TAKE m \in T
  <2>2. <<m, x>> \in Nat \X Nat /\ <<m, x>>[1] = m /\ <<m, x>>[2] = x
    OBVIOUS
  <2> QED BY <1>2, <2>2 DEF NatLess
<1> QED BY <1>3

\* Rows that are numbered have a first one and, where a number bounds them, a last one.
LEMMA FirstRow == ASSUME NEW R, R # {}, \A e \in R : e.seq \in Nat
                  PROVE  \E e \in R : \A d \in R : e.seq <= d.seq
<1> DEFINE T == {e.seq : e \in R}
<1>1. T \subseteq Nat /\ T # {}
  OBVIOUS
<1>2. PICK n \in T : \A m \in T : n <= m
  <2> HIDE DEF T
  <2> QED BY <1>1, Least
<1> QED BY <1>2

LEMMA LastRow == ASSUME NEW R, R # {}, \A e \in R : e.seq \in Nat,
                        NEW n \in Nat, \A e \in R : e.seq <= n
                 PROVE  \E e \in R : \A d \in R : d.seq <= e.seq
<1> DEFINE T == {n - e.seq : e \in R}
<1>1. T \subseteq Nat /\ T # {}
  OBVIOUS
<1>2. PICK k \in T : \A m \in T : k <= m
  <2> HIDE DEF T
  <2> QED BY <1>1, Least
<1>3. PICK e \in R : k = n - e.seq
  OBVIOUS
<1>4. ASSUME NEW d \in R PROVE d.seq <= e.seq
  <2>1. k <= n - d.seq
    BY <1>2
  <2> QED BY <1>3, <2>1
<1> QED BY <1>4

\* Rows as the table may hold them: typed, and keyed by seq.
Keyed(table) == table \subseteq Rows /\ \A d, e \in table : d.seq = e.seq => d = e

\* The head hash that verify_chain returns of a table.
HeadHash(table, h) ==
    \/ table = {} /\ h = Genesis
    \/ \E row \in table : IsHead(table, row) /\ h = HashOf(row)

\* What the hashes cover: a payload and everything before it.  run and seq they do not cover.
Content(table) == {<<row.prev, row.payload>> : row \in table}

\* A hash tells the row: the payload and what is before it.
LEMMA HashTells ==
    ASSUME NEW d \in Rows, NEW e \in Rows, HashOf(d) = HashOf(e)
    PROVE  d.prev = e.prev /\ d.payload = e.payload /\ HashOf(d) # Genesis
<1>1. d.prev \in Seq(Payloads) /\ e.prev \in Seq(Payloads)
  BY DEF Rows
<1>2. Append(d.prev, d.payload) = Append(e.prev, e.payload)
  BY DEF HashOf, EntryHash
<1>3. Len(d.prev) = Len(e.prev)
  <2>1. Len(HashOf(d)) = Len(d.prev) + 1 /\ Len(HashOf(e)) = Len(e.prev) + 1
    BY HashLength
  <2> QED BY <1>1, <2>1
<1>4. d.payload = e.payload
  <2>1. Append(d.prev, d.payload)[Len(d.prev) + 1] = d.payload
    BY <1>1
  <2>2. Append(e.prev, e.payload)[Len(e.prev) + 1] = e.payload
    BY <1>1
  <2> QED BY <1>2, <1>3, <2>1, <2>2
<1>5. d.prev = e.prev
  <2>1. \A i \in 1 .. Len(d.prev) : /\ Append(d.prev, d.payload)[i] = d.prev[i]
                                    /\ Append(e.prev, e.payload)[i] = e.prev[i]
    BY <1>1, <1>3
  <2> QED BY <1>1, <1>2, <1>3, <2>1
<1>6. HashOf(d) # Genesis
  <2>1. Len(HashOf(d)) = Len(d.prev) + 1 /\ Len(Genesis) = 0
    BY HashLength DEF Genesis
  <2> QED BY <1>1, <2>1
<1> QED BY <1>4, <1>5, <1>6

\* A row of a table that verifies is in any other that verifies with the same head: the last
\* one that was not would have a successor that is, and whose predecessor there is the same.
LEMMA HeadCovers ==
    ASSUME NEW S, NEW T, Keyed(S), Keyed(T), Verifies(S), Verifies(T),
           NEW s, NEW t, IsHead(S, s), IsHead(T, t), HashOf(s) = HashOf(t)
    PROVE  Content(S) \subseteq Content(T)
<1> DEFINE in(row) == \E e \in T : e.prev = row.prev /\ e.payload = row.payload
           Bad == {row \in S : ~ in(row)}
<1>1. /\ S \subseteq Rows /\ T \subseteq Rows /\ s \in S /\ t \in T
      /\ \A d \in S : d.seq \in Nat /\ d.seq <= s.seq
      /\ \A e \in T : e.seq \in Nat
  BY DEF Keyed, IsHead, Rows
<1>2. SUFFICES Bad = {}
  BY DEF Content
<1>3. SUFFICES ASSUME Bad # {} PROVE FALSE
  OBVIOUS
<1>4. PICK b \in Bad : \A d \in Bad : d.seq <= b.seq
  <2>1. Bad \subseteq S /\ s.seq \in Nat
    BY <1>1
  <2> HIDE DEF Bad
  <2> QED BY <1>1, <1>3, <2>1, LastRow
<1>5. in(s)
  BY <1>1, HashTells
<1>6. b.seq < s.seq
  <2>1. b # s /\ b \in S
    BY <1>4, <1>5
  <2> QED BY <1>1, <2>1 DEF Keyed
<1> DEFINE after == {d \in S : b.seq < d.seq}
<1>7. PICK y \in after : \A d \in after : y.seq <= d.seq
  <2>1. after # {} /\ \A d \in after : d.seq \in Nat
    BY <1>1, <1>6
  <2> HIDE DEF after
  <2> QED BY <2>1, FirstRow
<1>8. y.prev = HashOf(b)
  <2>1. ~ \E m \in S : b.seq < m.seq /\ m.seq < y.seq
    <3> SUFFICES ASSUME NEW m \in S, b.seq < m.seq, m.seq < y.seq PROVE FALSE
      OBVIOUS
    <3>1. y.seq <= m.seq
      BY <1>7
    <3> QED BY <1>1, <3>1
  <2> QED BY <2>1, <1>4, <1>7 DEF Adjacent, Verifies
<1>9. in(y)
  <2>1. ~ (y.seq <= b.seq) /\ y \in S
    BY <1>1, <1>4, <1>7
  <2> QED BY <1>4, <2>1
<1>10. PICK z \in T : z.prev = HashOf(b)
  BY <1>8, <1>9
<1> DEFINE before == {e \in T : e.seq < z.seq}
<1>11. before # {}
  <2> SUFFICES ASSUME before = {} PROVE FALSE
    OBVIOUS
  <2>1. \A e \in T : z.seq <= e.seq
    BY <1>1
  <2>2. z.prev = Genesis
    BY <2>1 DEF Verifies
  <2>3. HashOf(b) # Genesis
    BY <1>1, <1>4, HashTells
  <2> QED BY <1>10, <2>2, <2>3
<1>12. PICK p \in before : \A e \in before : e.seq <= p.seq
  <2>1. (\A e \in before : e.seq \in Nat /\ e.seq <= z.seq) /\ z.seq \in Nat
    BY <1>1
  <2> HIDE DEF before
  <2> QED BY <1>11, <2>1, LastRow
<1>13. z.prev = HashOf(p)
  <2>1. ~ \E m \in T : p.seq < m.seq /\ m.seq < z.seq
    <3> SUFFICES ASSUME NEW m \in T, p.seq < m.seq, m.seq < z.seq PROVE FALSE
      OBVIOUS
    <3>1. m.seq <= p.seq
      BY <1>12
    <3> QED BY <1>1, <1>12, <3>1
  <2> QED BY <2>1, <1>12 DEF Adjacent, Verifies
<1>14. p.prev = b.prev /\ p.payload = b.payload
  <2>1. p \in Rows /\ b \in Rows /\ HashOf(p) = HashOf(b)
    BY <1>1, <1>4, <1>10, <1>12, <1>13
  <2> QED BY <2>1, HashTells
<1> QED BY <1>4, <1>12, <1>14

\* SPEC F5, "a hash-chained audit record that makes tampering detectable" (verify_chain): two
\* tables it accepts with one head hash hold the same payloads in the same order; whatever is
\* changed, moved, added or taken away shows in the verdict or in the head.
THEOREM SameHeadSameEntries ==
    ASSUME NEW S, NEW T, Keyed(S), Keyed(T), Verifies(S), Verifies(T),
           NEW h, HeadHash(S, h), HeadHash(T, h)
    PROVE  Content(S) = Content(T)
<1>1. \A R : Keyed(R) /\ R # {} /\ HeadHash(R, h) =>
                h # Genesis /\ \E row : IsHead(R, row) /\ h = HashOf(row)
  BY HashTells DEF HeadHash, Keyed, IsHead
<1>2. CASE S = {} \/ T = {}
  <2>1. h = Genesis
    BY <1>2 DEF HeadHash
  <2>2. S = {} /\ T = {}
    BY <1>1, <2>1
  <2> QED BY <2>2
<1>3. CASE S # {} /\ T # {}
  <2>1. PICK s : IsHead(S, s) /\ h = HashOf(s)
    BY <1>1, <1>3
  <2>2. PICK t : IsHead(T, t) /\ h = HashOf(t)
    BY <1>1, <1>3
  <2>3. HashOf(s) = HashOf(t)
    BY <2>1, <2>2
  <2>4. Content(S) \subseteq Content(T)
    BY <2>1, <2>2, <2>3, HeadCovers
  <2>5. Content(T) \subseteq Content(S)
    BY <2>1, <2>2, <2>3, HeadCovers
  <2> QED BY <2>4, <2>5
<1> QED BY <1>2, <1>3

\* Then the head hash seals the log: until the discard of a run cuts it, any table that
\* verify_chain accepts with the head of the log has the log's entries.
THEOREM HeadSealsTheLog ==
    ChainSpec => [](~ cut =>
        \A T \in SUBSET Rows : \A h \in Seq(Payloads) :
            Keyed(T) /\ Verifies(T) /\ HeadHash(T, h) /\ HeadHash(audit, h)
                => Content(T) = Content(audit))
<1>1. ChainInv /\ VerifiesUntilCut =>
        (~ cut =>
            \A T \in SUBSET Rows : \A h \in Seq(Payloads) :
                Keyed(T) /\ Verifies(T) /\ HeadHash(T, h) /\ HeadHash(audit, h)
                    => Content(T) = Content(audit))
  <2>1. ChainInv => Keyed(audit)
    BY DEF ChainInv, ChainTypeOK, KeyInv, Keyed
  <2>2. SUFFICES ASSUME ChainInv, Verifies(audit), NEW T \in SUBSET Rows, NEW h \in Seq(Payloads),
                        Keyed(T), Verifies(T), HeadHash(T, h), HeadHash(audit, h)
                 PROVE  Content(T) = Content(audit)
    BY DEF VerifiesUntilCut
  <2> QED BY <2>1, <2>2, SameHeadSameEntries
<1> QED BY <1>1, ChainInvariant, ChainVerifiesUntilCut, PTL
=============================================================================
