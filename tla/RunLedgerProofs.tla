-------------------------- MODULE RunLedgerProofs ---------------------------
(***************************************************************************)
(* Theorems about RunLedger and Desk, for any workers, runs, credits and   *)
(* datasets and any number of faults.                                      *)
(*                                                                         *)
(* LedgerInv holds with or without the lock and says that no audit entry   *)
(* precedes the decision it records; ClearingInv holds as generally and    *)
(* says what a worker knows of the stored decomposition it is about to     *)
(* replace.  The rest needs more: RunningInv and CompletedInv that no run  *)
(* has two workers (Exclusive), ResumeInv that no two workers share a      *)
(* run's rows (Separate), WholeInv that they share no credit or that       *)
(* closing a connection does not commit.  DeskInv carries them to what a   *)
(* reviewer sees.                                                          *)
(***************************************************************************)
EXTENDS Desk, FiniteSetTheorems, TLAPS

-----------------------------------------------------------------------------
(***************************************************************************)
(* Types.                                                                  *)
(***************************************************************************)

LEMMA LedgerInit == Init => LedgerInv
<1> SUFFICES ASSUME Init PROVE LedgerInv
  OBVIOUS
<1> USE LedgerConstants DEF Init
<1>1. (CHOOSE r \in Runs : TRUE) \in Runs
  OBVIOUS
<1>2. TypeOK
  <2>1. 1 \in Nat \ {0}
    OBVIOUS
  <2> QED BY <1>1, <2>1 DEF TypeOK, RunRow, RunRows, Statuses, PCs, Verdicts
<1>3. IsFiniteSet(audit)
  BY FS_EmptySet
<1> QED BY <1>2, <1>3 DEF LedgerInv, PendingInv, WrittenInv

\* The two verdicts that the tables back, and the one they do not, differ.
LEMMA VerdictsDiffer == Cleared # Flagged /\ Cleared # Raised /\ Flagged # Raised
BY DEF Cleared, Flagged, Raised

\* Every count the ledger keeps is a number as long as the table is finite.
LEMMA CoverageIsNat ==
    ASSUME IsFiniteSet(audit), NEW r PROVE Coverage(r) \in Nat
<1> DEFINE rows == {row \in audit : row.run = r}
<1>1. IsFiniteSet(rows)
  BY FS_Subset
<1>2. IsFiniteSet({e.payload.credit : e \in rows})
  <2> DEFINE T == {e.payload.credit : e \in rows}
             f == [e \in rows |-> e.payload.credit]
  <2>1. f \in Surjection(rows, T)
    BY DEF Surjection
  <2> HIDE DEF rows, T, f
  <2>2. IsFiniteSet(T)
    BY <1>1, <2>1, FS_Surjection
  <2> QED BY <2>2 DEF T
<1> QED BY <1>2, FS_CardinalityType DEF Coverage, Covered

LEMMA AskedIsNat == ASSUME NEW r \in Runs PROVE Asked(r) \in Nat
BY LedgerConstants DEF Asked

\* What a worker holds in memory.
LocalsOK ==
    /\ pc \in [Workers -> PCs]
    /\ pos \in [Workers -> Nat \ {0}]
    /\ seen \in [Workers -> SUBSET Credits]
    /\ parents \in [Workers -> SUBSET Items]
    /\ found \in [Workers -> SUBSET Items]
    /\ prior \in [Workers -> SUBSET Items]
    /\ verdict \in [Workers -> Verdicts]
    /\ computed \in [Workers -> Nat]
    /\ tally \in [Workers -> Nat]

LEMMA LeaveType ==
    ASSUME TypeOK, NEW w \in Workers, Leave(w)
    PROVE  LocalsOK'
BY DEF TypeOK, LocalsOK, Leave, Goto, PCs, Verdicts

\* The row an append computes from the head is a row of the table.
LEMMA NewRowType ==
    ASSUME TypeOK, NEW w \in Workers, NEW c \in Credits, ReadHead(w, c)
    PROVE  pending' \subseteq [writer : Workers, row : Rows]
<1> USE LedgerConstants
<1>1. PICK seq \in 0 .. MaxSeq, prev \in {Genesis} \cup {HashOf(e) : e \in audit} :
          pending' = pending \cup
                {[writer |-> w,
                  row |-> [seq |-> seq, run |-> job[w], prev |-> prev,
                           payload |-> [credit |-> c, verdict |-> verdict[w]]]]}
  BY DEF ReadHead
<1>2. prev \in Seq(Payloads)
  <2>1. CASE prev = Genesis
    BY <2>1 DEF Genesis
  <2>2. CASE \E e \in audit : prev = HashOf(e)
    <3>1. PICK e \in audit : prev = HashOf(e)
      BY <2>2
    <3>2. e.payload \in Payloads /\ e.prev \in Seq(Payloads)
      BY DEF TypeOK, Rows
    <3> QED BY <3>1, <3>2 DEF HashOf, EntryHash
  <2> QED BY <2>1, <2>2
<1>3. [credit |-> c, verdict |-> verdict[w]] \in Payloads
  BY DEF TypeOK, Payloads
<1>4. job[w] \in Runs /\ seq \in Nat
  BY DEF TypeOK
<1> QED BY <1>1, <1>2, <1>3, <1>4 DEF TypeOK, Rows

LEMMA TypeStep ==
    ASSUME TypeOK, IsFiniteSet(audit), [Next]_vars
    PROVE  TypeOK'
<1> USE LedgerConstants
<1> USE DEF TypeOK
<1>0. CASE UNCHANGED vars
  BY <1>0 DEF vars, tables, locals
<1> SUFFICES ASSUME NEW w \in Workers, Work(w) \/ Fault(w) \/ \E r \in Runs : Reuse(w, r)
             PROVE  TypeOK'
  BY <1>0 DEF Next
<1>1. ASSUME NEW r \in Runs, LookUp(w, r) PROVE TypeOK'
  BY <1>1 DEF LookUp, Goto, tables, PCs
<1>2. CASE OpenRow(w)
  BY <1>2, AskedIsNat DEF OpenRow, Goto, RunRow, RunRows, Statuses, PCs
<1>3. CASE Snapshot(w)
  <2>1. {e.payload.credit : e \in audit} \subseteq Credits
    BY DEF Rows, Payloads
  <2> QED BY <1>3, <2>1 DEF Snapshot, Goto, tables, PCs
<1>4. ASSUME NEW c \in Credits, Skip(w, c) PROVE TypeOK'
  BY <1>4, SMTT(30) DEF Skip, tables
<1>5. ASSUME NEW c \in Credits, RaiseTrace(w, c) PROVE TypeOK'
  BY <1>5 DEF RaiseTrace, Goto, tables, PCs, Verdicts
<1>6. ASSUME NEW c \in Credits, Flag(w, c) PROVE TypeOK'
  BY <1>6 DEF Flag, Goto, PCs, Verdicts
<1>7. ASSUME NEW c \in Credits, CheckPrior(w, c) PROVE TypeOK'
  <2>1. PICK x \in Feasible(w, c) : found' = [found EXCEPT ![w] = x.members]
    BY <1>7 DEF CheckPrior
  <2>2. x.members \subseteq Items
    BY <2>1 DEF Feasible, Left, Explanation
  <2> QED BY <1>7, <2>1, <2>2 DEF CheckPrior, Goto, tables, PCs
<1>8. ASSUME NEW c \in Credits, RefuseClear(w, c) PROVE TypeOK'
  BY <1>8 DEF RefuseClear, Goto, tables, PCs
<1>9. ASSUME NEW c \in Credits, WriteCleared(w, c) PROVE TypeOK'
  BY <1>9 DEF WriteCleared, Goto, PCs, Verdicts
<1>10. ASSUME NEW c \in Credits, ReadHead(w, c) PROVE TypeOK'
  <2>1. pending' \subseteq [writer : Workers, row : Rows]
    BY <1>10, NewRowType
  <2> QED BY <1>10, <2>1 DEF ReadHead, Goto, tables, PCs
<1>11. ASSUME NEW p \in pending, Insert(w, p) PROVE TypeOK'
  <2>1. p.row \in Rows /\ p.row.payload.credit \in Credits
    BY DEF Rows, Payloads
  <2>2. audit' \subseteq Rows
    BY <1>11, <2>1 DEF Insert
  <2>3. /\ pending' \subseteq [writer : Workers, row : Rows]
        /\ lock' \subseteq Workers
    BY <1>11 DEF Insert, RollBack
  <2>4. seen' \in [Workers -> SUBSET Credits]
    <3>1. \E s \in SUBSET Credits : seen' = [seen EXCEPT ![w] = s]
      BY <1>11, <2>1 DEF Insert
    <3> QED BY <3>1
  <2>5. /\ pos' \in [Workers -> Nat \ {0}]
        /\ computed' \in [Workers -> Nat]
    BY <1>11 DEF Insert
  <2>6. pc' \in [Workers -> PCs]
    BY <1>11 DEF Insert, Goto, PCs
  <2>7. UNCHANGED << runs, cleared, members, exceptions, job, parents, found, prior, verdict,
                     tally, faults, cut >>
    BY <1>11 DEF Insert
  <2> QED BY <2>2, <2>3, <2>4, <2>5, <2>6, <2>7
<1>12. ASSUME NEW p \in pending, InsertRefused(w, p) PROVE TypeOK'
  BY <1>12, SMTT(20) DEF InsertRefused, RollBack, Goto, tables, PCs
<1>13. CASE EndLoop(w)
  BY <1>13 DEF EndLoop, Goto, tables, PCs
<1>14. CASE CountCoverage(w)
  BY <1>14, CoverageIsNat DEF CountCoverage, Goto, tables, PCs
<1>15. CASE CloseRow(w)
  <2>1. ClosedRow(w) \in RunRows
    <3>1. /\ tally[w] \in Nat /\ computed[w] \in Nat
          /\ Asked(job[w]) \in Nat
      BY AskedIsNat
    <3>2. (IF tally[w] > computed[w] THEN tally[w] - computed[w] ELSE 0) \in Nat
      BY <3>1
    <3>3. (IF tally[w] = Asked(job[w]) THEN "COMPLETED" ELSE "PARTIAL") \in Statuses
      BY DEF Statuses
    <3> QED BY <3>1, <3>2, <3>3 DEF ClosedRow, RunRows
  <2>2. LocalsOK'
    BY <1>15, LeaveType DEF CloseRow
  <2> QED BY <1>15, <2>1, <2>2 DEF CloseRow, LocalsOK
<1>16. CASE Discard(w)
  <2>1. FailedRow(job[w]) \in RunRows
    <3>1. runs[job[w]] \in RunRows /\ "FAILED" \in Statuses
      BY DEF Statuses
    <3>2. [runs[job[w]] EXCEPT !.status = "FAILED"] \in RunRows
      BY <3>1, Zenon DEF RunRows
    <3> QED BY <3>1, <3>2 DEF FailedRow
  <2>2. LocalsOK'
    BY <1>16, LeaveType DEF Discard
  <2> QED BY <1>16, <2>1, <2>2 DEF Discard, Without, LocalsOK
<1>17. CASE Kill(w)
  <2>1. /\ Leave(w) /\ faults' = faults + 1
        /\ pending' \subseteq [writer : Workers, row : Rows] /\ lock' \subseteq Workers
        /\ UNCHANGED << tables, job, cut >>
    BY <1>17 DEF Kill, CountFault, RollBack
  <2>2. LocalsOK'
    BY <2>1, LeaveType
  <2>3. faults' \in Nat
    BY <2>1
  <2>4. UNCHANGED << audit, runs, cleared, members, exceptions, job, cut >>
    BY <2>1 DEF tables
  <2> QED BY <2>1, <2>2, <2>3, <2>4 DEF LocalsOK
<1>18. CASE Fail(w)
  BY <1>18, SMTT(20) DEF Fail, CountFault, RollBack, Goto, tables, PCs
<1>19. CASE InterruptOpen(w)
  <2>1. /\ Leave(w) /\ faults' = faults + 1
        /\ runs' = [runs EXCEPT ![job[w]] = RunRow("ABSENT", 0)]
        /\ UNCHANGED << audit, cleared, members, exceptions, pending, lock, job, cut >>
    BY <1>19 DEF InterruptOpen, CountFault
  <2>2. RunRow("ABSENT", 0) \in RunRows
    BY DEF RunRow, RunRows, Statuses
  <2>3. LocalsOK'
    BY <2>1, LeaveType
  <2>4. runs' \in [Runs -> RunRows] /\ faults' \in Nat
    BY <2>1, <2>2
  <2> QED BY <2>1, <2>3, <2>4 DEF LocalsOK
<1>20. ASSUME NEW c \in Credits, InterruptClear(w, c) PROVE TypeOK'
  <2>1. members' \in [Credits -> SUBSET Items]
    <3>1. CASE members' = members
      BY <3>1
    <3>2. ASSUME NEW k \in found[w], members' = [members EXCEPT ![c] = {i \in found[w] : i < k}]
          PROVE  members' \in [Credits -> SUBSET Items]
      BY <3>2
    <3> QED BY <1>20, <3>1, <3>2 DEF InterruptClear
  <2> QED BY <1>20, <2>1 DEF InterruptClear, CountFault, Goto, PCs
<1>21. CASE InterruptDiscard(w)
  <2>1. /\ Leave(w) /\ faults' = faults + 1
        /\ audit' \subseteq Rows /\ cut' \in BOOLEAN
        /\ UNCHANGED << runs, cleared, members, exceptions, pending, lock, job >>
    BY <1>21 DEF InterruptDiscard, CountFault, Without
  <2>2. LocalsOK' /\ faults' \in Nat
    BY <2>1, LeaveType, SMTT(20)
  <2> QED BY <2>1, <2>2 DEF LocalsOK
<1>22. ASSUME NEW r \in Runs, Reuse(w, r) PROVE TypeOK'
  BY <1>22 DEF Reuse, vars, tables, locals
<1> QED
  BY <1>1, <1>2, <1>3, <1>4, <1>5, <1>6, <1>7, <1>8, <1>9, <1>10, <1>11, <1>12, <1>13,
     <1>14, <1>15, <1>16, <1>17, <1>18, <1>19, <1>20, <1>21, <1>22
  DEF Work, Fault

-----------------------------------------------------------------------------
(***************************************************************************)
(* Rows in flight.                                                         *)
(***************************************************************************)

\* A step of one worker leaves the others where they are.
Others(w) == \A v \in Workers \ {w} : pc'[v] = pc[v] /\ job'[v] = job[v]

\* A step outside append_entry does not touch what is in flight.
LEMMA QuietPending ==
    ASSUME TypeOK, PendingInv, NEW w \in Workers, pc[w] # "inserting", Others(w),
           pending' = pending, lock' = lock
    PROVE  PendingInv'
<1>1. \A p \in pending : p.writer \in Workers \ {w}
  BY DEF TypeOK, PendingInv
<1> QED BY <1>1 DEF PendingInv, Others

\* A transaction that ends takes its row and its lock along.
LEMMA RollBackPending ==
    ASSUME TypeOK, PendingInv, NEW w \in Workers, Others(w), RollBack(w)
    PROVE  PendingInv'
<1>1. \A p \in pending' : p \in pending /\ p.writer \in Workers \ {w}
  BY DEF TypeOK, RollBack
<1>2. lock' \subseteq {p.writer : p \in pending'}
  BY DEF PendingInv, RollBack
<1> QED BY <1>1, <1>2 DEF PendingInv, Others

LEMMA PendingStep ==
    ASSUME TypeOK, PendingInv, [Next]_vars
    PROVE  PendingInv'
<1>0. CASE UNCHANGED vars
  BY <1>0 DEF vars, tables, locals, PendingInv
<1> SUFFICES ASSUME NEW w \in Workers, Work(w) \/ Fault(w) \/ \E r \in Runs : Reuse(w, r)
             PROVE  PendingInv'
  BY <1>0 DEF Next
<1>1. ASSUME NEW r \in Runs, LookUp(w, r) PROVE PendingInv'
  <2>1. Others(w) BY <1>1 DEF LookUp, Goto, Others, TypeOK
  <2> QED BY <1>1, <2>1, QuietPending DEF LookUp
<1>2. CASE OpenRow(w)
  <2>1. Others(w) BY <1>2 DEF OpenRow, Goto, Others, TypeOK
  <2> QED BY <1>2, <2>1, QuietPending DEF OpenRow
<1>3. CASE Snapshot(w)
  <2>1. Others(w) BY <1>3 DEF Snapshot, Goto, Others, TypeOK
  <2> QED BY <1>3, <2>1, QuietPending DEF Snapshot
<1>4. ASSUME NEW c \in Credits, Skip(w, c) PROVE PendingInv'
  BY <1>4, QuietPending DEF Skip, Others
<1>5. ASSUME NEW c \in Credits, RaiseTrace(w, c) PROVE PendingInv'
  <2>1. Others(w) BY <1>5 DEF RaiseTrace, Goto, Others, TypeOK
  <2> QED BY <1>5, <2>1, QuietPending DEF RaiseTrace, Reaches
<1>6. ASSUME NEW c \in Credits, Flag(w, c) PROVE PendingInv'
  <2>1. Others(w) BY <1>6 DEF Flag, Goto, Others, TypeOK
  <2> QED BY <1>6, <2>1, QuietPending DEF Flag, Reaches
<1>7. ASSUME NEW c \in Credits, CheckPrior(w, c) PROVE PendingInv'
  <2>1. Others(w) BY <1>7 DEF CheckPrior, Goto, Others, TypeOK
  <2> QED BY <1>7, <2>1, QuietPending DEF CheckPrior, Reaches
<1>8. ASSUME NEW c \in Credits, RefuseClear(w, c) PROVE PendingInv'
  <2>1. Others(w) BY <1>8 DEF RefuseClear, Goto, Others, TypeOK
  <2> QED BY <1>8, <2>1, QuietPending DEF RefuseClear, Reaches
<1>9. ASSUME NEW c \in Credits, WriteCleared(w, c) PROVE PendingInv'
  <2>1. Others(w) BY <1>9 DEF WriteCleared, Goto, Others, TypeOK
  <2> QED BY <1>9, <2>1, QuietPending DEF WriteCleared
<1>10. ASSUME NEW c \in Credits, ReadHead(w, c) PROVE PendingInv'
  <2>1. PICK p : pending' = pending \cup {p} /\ p.writer = w /\ p.row.run = job[w]
    <3> DEFINE new(seq, prev) ==
          [writer |-> w,
           row |-> [seq |-> seq, run |-> job[w], prev |-> prev,
                    payload |-> [credit |-> c, verdict |-> verdict[w]]]]
    <3>1. PICK seq, prev : pending' = pending \cup {new(seq, prev)}
      BY <1>10 DEF ReadHead
    <3>2. new(seq, prev).writer = w /\ new(seq, prev).row.run = job[w]
      OBVIOUS
    <3> HIDE DEF new
    <3> QED BY <3>1, <3>2
  <2>2. /\ pc[w] # "inserting" /\ pc'[w] = "inserting" /\ job' = job
        /\ \A v \in Workers \ {w} : pc'[v] = pc[v]
        /\ lock' \subseteq lock \cup {w}
    BY <1>10 DEF ReadHead, Goto, TypeOK
  <2>3. \A q \in pending : q.writer \in Workers \ {w}
    BY <2>2 DEF TypeOK, PendingInv
  <2>4. lock' \subseteq {q.writer : q \in pending'}
    <3>1. lock \subseteq {q.writer : q \in pending'}
      BY <2>1 DEF PendingInv
    <3>2. w \in {q.writer : q \in pending'}
      BY <2>1
    <3> QED BY <2>2, <3>1, <3>2
  <2> QED BY <2>1, <2>2, <2>3, <2>4 DEF PendingInv
<1>11. ASSUME NEW p \in pending, Insert(w, p) PROVE PendingInv'
  <2>1. Others(w) BY <1>11 DEF Insert, Goto, Others, TypeOK
  <2> QED BY <1>11, <2>1, RollBackPending DEF Insert
<1>12. ASSUME NEW p \in pending, InsertRefused(w, p) PROVE PendingInv'
  <2>1. Others(w) BY <1>12 DEF InsertRefused, Goto, Others, TypeOK
  <2> QED BY <1>12, <2>1, RollBackPending DEF InsertRefused
<1>13. CASE EndLoop(w)
  <2>1. Others(w) BY <1>13 DEF EndLoop, Goto, Others, TypeOK
  <2> QED BY <1>13, <2>1, QuietPending DEF EndLoop
<1>14. CASE CountCoverage(w)
  <2>1. Others(w) BY <1>14 DEF CountCoverage, Goto, Others, TypeOK
  <2> QED BY <1>14, <2>1, QuietPending DEF CountCoverage
<1>15. CASE CloseRow(w)
  <2>1. Others(w) BY <1>15 DEF CloseRow, Leave, Goto, Others, TypeOK
  <2> QED BY <1>15, <2>1, QuietPending DEF CloseRow
<1>16. CASE Discard(w)
  <2>1. Others(w) BY <1>16 DEF Discard, Leave, Goto, Others, TypeOK
  <2> QED BY <1>16, <2>1, QuietPending DEF Discard
<1>17. CASE Kill(w)
  <2>1. Others(w) BY <1>17 DEF Kill, Leave, Goto, Others, TypeOK
  <2> QED BY <1>17, <2>1, RollBackPending DEF Kill
<1>18. CASE Fail(w)
  <2>1. Others(w) BY <1>18 DEF Fail, Goto, Others, TypeOK
  <2> QED BY <1>18, <2>1, RollBackPending DEF Fail
<1>19. CASE InterruptOpen(w)
  <2>1. Others(w) BY <1>19 DEF InterruptOpen, Leave, Goto, Others, TypeOK
  <2> QED BY <1>19, <2>1, QuietPending DEF InterruptOpen
<1>20. ASSUME NEW c \in Credits, InterruptClear(w, c) PROVE PendingInv'
  <2>1. Others(w) BY <1>20 DEF InterruptClear, Goto, Others, TypeOK
  <2> QED BY <1>20, <2>1, QuietPending DEF InterruptClear
<1>21. CASE InterruptDiscard(w)
  <2>1. Others(w) BY <1>21 DEF InterruptDiscard, Leave, Goto, Others, TypeOK
  <2> QED BY <1>21, <2>1, QuietPending DEF InterruptDiscard
<1>22. ASSUME NEW r \in Runs, Reuse(w, r) PROVE PendingInv'
  BY <1>22 DEF Reuse, vars, tables, locals, PendingInv
<1> QED
  BY <1>1, <1>2, <1>3, <1>4, <1>5, <1>6, <1>7, <1>8, <1>9, <1>10, <1>11, <1>12, <1>13,
     <1>14, <1>15, <1>16, <1>17, <1>18, <1>19, <1>20, <1>21, <1>22
  DEF Work, Fault

-----------------------------------------------------------------------------
(***************************************************************************)
(* Write before log.                                                       *)
(***************************************************************************)

\* No statement ever takes a reconciliation or exception row away.
LEMMA DecisionsStay ==
    ASSUME [Next]_vars
    PROVE  cleared \subseteq cleared' /\ exceptions \subseteq exceptions'
<1>0. CASE UNCHANGED vars
  BY <1>0 DEF vars, tables
<1> SUFFICES ASSUME NEW w \in Workers, Work(w) \/ Fault(w) \/ \E r \in Runs : Reuse(w, r)
             PROVE  cleared \subseteq cleared' /\ exceptions \subseteq exceptions'
  BY <1>0 DEF Next
<1>1. CASE Work(w)
  BY <1>1 DEF Work, LookUp, OpenRow, Snapshot, Skip, RaiseTrace, Flag, CheckPrior,
              RefuseClear, WriteCleared, ReadHead, Insert, InsertRefused, EndLoop,
              CountCoverage, CloseRow, Discard, tables
<1>2. CASE Fault(w)
  BY <1>2 DEF Fault, Kill, Fail, InterruptOpen, InterruptClear, InterruptDiscard, tables
<1>3. CASE \E r \in Runs : Reuse(w, r)
  BY <1>3 DEF Reuse, vars, tables
<1> QED BY <1>1, <1>2, <1>3

\* The decision is in its table after the step.
WrittenNext(v, c) ==
    /\ v = Cleared => c \in cleared'
    /\ v = Flagged => c \in exceptions'

\* A worker's place: what At and its verdict depend on.
Elsewhere(w) ==
    \A v \in Workers \ {w} :
        pc'[v] = pc[v] /\ job'[v] = job[v] /\ pos'[v] = pos[v] /\ verdict'[v] = verdict[v]

\* A step that decides nothing and computes no entry keeps every decision written.
LEMMA WrittenFrame ==
    ASSUME WrittenInv, [Next]_vars, NEW w \in Workers, Elsewhere(w),
           pc'[w] # "appending", pending' \subseteq pending,
           audit' \subseteq audit \cup {p.row : p \in pending}
    PROVE  WrittenInv'
<1>1. \A v, c : Written(v, c) => WrittenNext(v, c)
  BY DecisionsStay DEF Written, WrittenNext
<1>2. ASSUME NEW v \in Workers, pc'[v] = "appending", NEW c \in Credits, At(v, c)'
      PROVE  Written(verdict[v], c) /\ verdict'[v] = verdict[v]
  BY <1>2 DEF Elsewhere, At, Asked, WrittenInv
<1>3. \A e \in audit' : Written(e.payload.verdict, e.payload.credit)
  BY DEF WrittenInv
<1>4. \A p \in pending' : Written(p.row.payload.verdict, p.row.payload.credit)
  BY DEF WrittenInv
<1>5. \A v \in Workers, c \in Credits :
          pc'[v] = "appending" /\ At(v, c)' => WrittenNext(verdict[v], c) /\ verdict'[v] = verdict[v]
  BY <1>1, <1>2
<1>6. \A e \in audit' : WrittenNext(e.payload.verdict, e.payload.credit)
  BY <1>1, <1>3
<1>7. \A p \in pending' : WrittenNext(p.row.payload.verdict, p.row.payload.credit)
  BY <1>1, <1>4
<1> QED BY <1>5, <1>6, <1>7 DEF WrittenInv, Written, WrittenNext

\* A step that decides on a credit leaves the decision in its table.
LEMMA WrittenDecision ==
    ASSUME TypeOK, WrittenInv, [Next]_vars, NEW w \in Workers, NEW c \in Credits,
           At(w, c), Elsewhere(w), job' = job, pos' = pos, WrittenNext(verdict'[w], c),
           pending' = pending, audit' = audit
    PROVE  WrittenInv'
<1>1. \A v, d : Written(v, d) => WrittenNext(v, d)
  BY DecisionsStay DEF Written, WrittenNext
<1>2. \A d \in Credits : At(w, d)' => d = c
  BY DEF At, Asked
<1>3. \A v \in Workers \ {w} : \A d \in Credits :
          pc'[v] = "appending" /\ At(v, d)' => WrittenNext(verdict'[v], d)
  <2> SUFFICES ASSUME NEW v \in Workers \ {w}, NEW d \in Credits,
                      pc'[v] = "appending", At(v, d)'
               PROVE  WrittenNext(verdict'[v], d)
    OBVIOUS
  <2>1. At(v, d) /\ pc[v] = "appending" /\ verdict'[v] = verdict[v]
    BY DEF Elsewhere, At, Asked
  <2>2. Written(verdict[v], d)
    BY <2>1 DEF WrittenInv
  <2> QED BY <1>1, <2>1, <2>2
<1>4. \A e \in audit' : WrittenNext(e.payload.verdict, e.payload.credit)
  BY <1>1 DEF WrittenInv
<1>5. \A p \in pending' : WrittenNext(p.row.payload.verdict, p.row.payload.credit)
  BY <1>1 DEF WrittenInv
<1> QED BY <1>2, <1>3, <1>4, <1>5 DEF WrittenInv, Written, WrittenNext

LEMMA WrittenStep ==
    ASSUME TypeOK, PendingInv, WrittenInv, [Next]_vars
    PROVE  WrittenInv'
<1>0. CASE UNCHANGED vars
  BY <1>0 DEF vars, tables, locals, WrittenInv, Written, At, Asked
<1> SUFFICES ASSUME NEW w \in Workers, Work(w) \/ Fault(w) \/ \E r \in Runs : Reuse(w, r)
             PROVE  WrittenInv'
  BY <1>0 DEF Next
<1>1. ASSUME NEW r \in Runs, LookUp(w, r) PROVE WrittenInv'
  BY <1>1, WrittenFrame DEF LookUp, Goto, Elsewhere, TypeOK, tables
<1>2. CASE OpenRow(w)
  BY <1>2, WrittenFrame DEF OpenRow, Goto, Elsewhere, TypeOK
<1>3. CASE Snapshot(w)
  BY <1>3, WrittenFrame DEF Snapshot, Goto, Elsewhere, TypeOK, tables
<1>4. ASSUME NEW c \in Credits, Skip(w, c) PROVE WrittenInv'
  BY <1>4, WrittenFrame DEF Skip, Elsewhere, TypeOK, tables
<1>5. ASSUME NEW c \in Credits, RaiseTrace(w, c) PROVE WrittenInv'
  <2>1. /\ Elsewhere(w) /\ At(w, c) /\ job' = job /\ pos' = pos
        /\ verdict'[w] = Raised /\ pending' = pending /\ audit' = audit
    BY <1>5 DEF RaiseTrace, Reaches, Goto, Elsewhere, TypeOK, tables
  <2> QED BY <2>1, WrittenDecision, VerdictsDiffer DEF Written, WrittenNext
<1>6. ASSUME NEW c \in Credits, Flag(w, c) PROVE WrittenInv'
  <2>1. /\ Elsewhere(w) /\ At(w, c) /\ job' = job /\ pos' = pos
        /\ verdict'[w] = Flagged /\ pending' = pending /\ audit' = audit
        /\ c \in exceptions'
    BY <1>6 DEF Flag, Reaches, Goto, Elsewhere, TypeOK
  <2> QED BY <2>1, WrittenDecision, VerdictsDiffer DEF Written, WrittenNext
<1>7. ASSUME NEW c \in Credits, CheckPrior(w, c) PROVE WrittenInv'
  BY <1>7, WrittenFrame DEF CheckPrior, Goto, Elsewhere, TypeOK, tables
<1>8. ASSUME NEW c \in Credits, RefuseClear(w, c) PROVE WrittenInv'
  BY <1>8, WrittenFrame DEF RefuseClear, Goto, Elsewhere, TypeOK, tables
<1>9. ASSUME NEW c \in Credits, WriteCleared(w, c) PROVE WrittenInv'
  <2>1. /\ Elsewhere(w) /\ At(w, c) /\ job' = job /\ pos' = pos
        /\ verdict'[w] = Cleared /\ pending' = pending /\ audit' = audit
        /\ c \in cleared'
    BY <1>9 DEF WriteCleared, Goto, Elsewhere, TypeOK
  <2> QED BY <2>1, WrittenDecision, VerdictsDiffer DEF Written, WrittenNext
<1>10. ASSUME NEW c \in Credits, ReadHead(w, c) PROVE WrittenInv'
  <2>1. PICK p : /\ pending' = pending \cup {p}
                 /\ p.row.payload.credit = c /\ p.row.payload.verdict = verdict[w]
    <3> DEFINE new(seq, prev) ==
          [writer |-> w,
           row |-> [seq |-> seq, run |-> job[w], prev |-> prev,
                    payload |-> [credit |-> c, verdict |-> verdict[w]]]]
    <3>1. PICK seq, prev : pending' = pending \cup {new(seq, prev)}
      BY <1>10 DEF ReadHead
    <3>2. /\ new(seq, prev).row.payload.credit = c
          /\ new(seq, prev).row.payload.verdict = verdict[w]
      OBVIOUS
    <3> HIDE DEF new
    <3> QED BY <3>1, <3>2
  <2>2. Written(verdict[w], c)
    BY <1>10 DEF ReadHead, WrittenInv
  <2>3. /\ UNCHANGED << tables, job, pos, verdict >>
        /\ pc'[w] = "inserting" /\ \A v \in Workers \ {w} : pc'[v] = pc[v]
    BY <1>10 DEF ReadHead, Goto, TypeOK
  <2> QED BY <2>1, <2>2, <2>3 DEF WrittenInv, Written, At, Asked, tables
<1>11. ASSUME NEW p \in pending, Insert(w, p) PROVE WrittenInv'
  BY <1>11, WrittenFrame DEF Insert, RollBack, Goto, Elsewhere, TypeOK
<1>12. ASSUME NEW p \in pending, InsertRefused(w, p) PROVE WrittenInv'
  BY <1>12, WrittenFrame DEF InsertRefused, RollBack, Goto, Elsewhere, TypeOK, tables
<1>13. CASE EndLoop(w)
  BY <1>13, WrittenFrame DEF EndLoop, Goto, Elsewhere, TypeOK, tables
<1>14. CASE CountCoverage(w)
  BY <1>14, WrittenFrame DEF CountCoverage, Goto, Elsewhere, TypeOK, tables
<1>15. CASE CloseRow(w)
  BY <1>15, WrittenFrame DEF CloseRow, Leave, Goto, Elsewhere, TypeOK
<1>16. CASE Discard(w)
  BY <1>16, WrittenFrame DEF Discard, Without, Leave, Goto, Elsewhere, TypeOK
<1>17. CASE Kill(w)
  BY <1>17, WrittenFrame DEF Kill, RollBack, Leave, Goto, Elsewhere, TypeOK, tables
<1>18. CASE Fail(w)
  BY <1>18, WrittenFrame DEF Fail, RollBack, Goto, Elsewhere, TypeOK, tables
<1>19. CASE InterruptOpen(w)
  BY <1>19, WrittenFrame DEF InterruptOpen, Leave, Goto, Elsewhere, TypeOK
<1>20. ASSUME NEW c \in Credits, InterruptClear(w, c) PROVE WrittenInv'
  BY <1>20, WrittenFrame DEF InterruptClear, Goto, Elsewhere, TypeOK
<1>21. CASE InterruptDiscard(w)
  BY <1>21, WrittenFrame DEF InterruptDiscard, Without, Leave, Goto, Elsewhere, TypeOK
<1>22. ASSUME NEW r \in Runs, Reuse(w, r) PROVE WrittenInv'
  BY <1>22 DEF Reuse, vars, tables, locals, WrittenInv, Written, At, Asked
<1> QED
  BY <1>1, <1>2, <1>3, <1>4, <1>5, <1>6, <1>7, <1>8, <1>9, <1>10, <1>11, <1>12, <1>13,
     <1>14, <1>15, <1>16, <1>17, <1>18, <1>19, <1>20, <1>21, <1>22
  DEF Work, Fault

\* The audit table stays finite: every coverage is a number.
LEMMA FiniteStep ==
    ASSUME IsFiniteSet(audit), [Next]_vars
    PROVE  IsFiniteSet(audit')
<1>1. \/ audit' \subseteq audit
      \/ \E row : audit' = audit \cup {row}
  <2>0. CASE UNCHANGED vars
    BY <2>0 DEF vars, tables
  <2> SUFFICES ASSUME NEW w \in Workers, Work(w) \/ Fault(w) \/ \E r \in Runs : Reuse(w, r)
               PROVE  audit' \subseteq audit \/ \E row : audit' = audit \cup {row}
    BY <2>0 DEF Next
  <2>1. CASE Work(w)
    BY <2>1 DEF Work, LookUp, OpenRow, Snapshot, Skip, RaiseTrace, Flag, CheckPrior,
                RefuseClear, WriteCleared, ReadHead, Insert, InsertRefused, EndLoop,
                CountCoverage, CloseRow, Discard, Without, tables
  <2>2. CASE Fault(w)
    BY <2>2 DEF Fault, Kill, Fail, InterruptOpen, InterruptClear, InterruptDiscard,
                Without, tables
  <2>3. CASE \E r \in Runs : Reuse(w, r)
    BY <2>3 DEF Reuse, vars, tables
  <2> QED BY <2>1, <2>2, <2>3
<1> QED BY <1>1, FS_Subset, FS_AddElement

LEMMA LedgerStep == LedgerInv /\ [Next]_vars => LedgerInv'
BY TypeStep, FiniteStep, PendingStep, WrittenStep DEF LedgerInv

\* LedgerInv holds in every state of the ledger.
THEOREM LedgerInvariant == Spec => []LedgerInv
BY LedgerInit, LedgerStep, PTL DEF Spec

\* An audit entry never precedes the decision it records, whatever workers are killed,
\* fail, retry or overlap on the same run (orchestrator.run_split).
THEOREM LogFollowsWrite == Spec => []LoggedIsWritten
<1>1. LedgerInv => LoggedIsWritten
  BY DEF LedgerInv, WrittenInv, Written, LoggedIsWritten
<1> QED BY <1>1, LedgerInvariant, PTL

-----------------------------------------------------------------------------
(***************************************************************************)
(* One worker per run.                                                     *)
(***************************************************************************)

\* The run a worker executes is nobody else's.
LEMMA OwnRun ==
    ASSUME TypeOK, RunningInv, Exclusive, NEW v \in Workers, NEW w \in Workers, v # w,
           pc[v] # "idle", pc[w] # "idle"
    PROVE  job[v] # job[w]
BY DEF RunningInv, Exclusive

\* A step of one worker leaves the places and counts of the others alone, and does not
\* touch the row or the coverage of any run but its own.
Aside(w) ==
    /\ pc[w] # "idle"
    /\ job' = job
    /\ \A v \in Workers \ {w} : pc'[v] = pc[v] /\ tally'[v] = tally[v]
    /\ \A r \in Runs \ {job[w]} : runs'[r] = runs[r] /\ Coverage(r)' = Coverage(r)

\* Then what has to be checked is the run of the worker that moved.
LEMMA RunningFrame ==
    ASSUME TypeOK, RunningInv, Exclusive, NEW w \in Workers, Aside(w),
           pc'[w] # "idle" => ~ Complete(job[w])',
           pc'[w] \notin {"idle", "opening"} => runs'[job[w]].status = "RUNNING",
           pc'[w] = "closing" => tally'[w] = Coverage(job[w])',
           Complete(job[w])' => Coverage(job[w])' = Asked(job[w])
    PROVE  RunningInv'
<1>1. \A r \in Runs \ {job[w]} : Complete(r)' = Complete(r)
  BY DEF Aside, Complete
<1>2. ASSUME NEW v \in Workers \ {w}, pc'[v] # "idle"
      PROVE  /\ job'[v] = job[v] /\ job[v] \in Runs \ {job[w]}
             /\ pc'[v] = pc[v] /\ tally'[v] = tally[v]
             /\ runs'[job[v]] = runs[job[v]]
             /\ Coverage(job[v])' = Coverage(job[v])
             /\ Complete(job[v])' = Complete(job[v])
  <2>1. pc[v] # "idle" /\ pc[w] # "idle" /\ pc'[v] = pc[v] /\ tally'[v] = tally[v]
    BY <1>2 DEF Aside
  <2>2. job[v] \in Runs \ {job[w]}
    BY <2>1, OwnRun DEF TypeOK
  <2> QED BY <1>1, <2>1, <2>2 DEF Aside
<1>3. \A v \in Workers : pc'[v] # "idle" => job'[v] \in Serves[v] /\ ~ Complete(job[v])'
  <2>1. pc[w] # "idle" /\ job' = job
    BY DEF Aside
  <2> QED BY <1>2, <2>1 DEF RunningInv
<1>4. \A v \in Workers : pc'[v] \notin {"idle", "opening"} => runs'[job[v]].status = "RUNNING"
  BY <1>2 DEF RunningInv
<1>5. \A v \in Workers : pc'[v] = "closing" => tally'[v] = Coverage(job[v])'
  BY <1>2 DEF RunningInv
<1>6. \A r \in Runs : Complete(r)' => Coverage(r)' = Asked(r)
  BY <1>1 DEF RunningInv, CompleteIsCovered, Aside
<1> QED
  BY <1>3, <1>4, <1>5, <1>6 DEF RunningInv, CompleteIsCovered, Aside, Complete, Coverage, Covered

\* A step that leaves the audit table and the run rows alone, and neither starts, opens
\* nor counts a run.
LEMMA RunningQuiet ==
    ASSUME TypeOK, RunningInv, Exclusive, NEW w \in Workers,
           pc[w] \notin {"idle", "opening"}, pc'[w] # "closing",
           job' = job, audit' = audit, runs' = runs,
           \A v \in Workers \ {w} : pc'[v] = pc[v] /\ tally'[v] = tally[v]
    PROVE  RunningInv'
<1>1. Aside(w)
  BY DEF Aside, Coverage, Covered
<1>2. \A r \in Runs : Complete(r)' = Complete(r) /\ Coverage(r)' = Coverage(r)
  BY DEF Complete, Coverage, Covered
<1>3. job[w] \in Runs /\ job[w]' = job[w]
  BY DEF TypeOK
<1>4. Complete(job[w])' = Complete(job[w]) /\ ~ Complete(job[w])
  BY <1>2, <1>3 DEF RunningInv, Complete
<1>5. runs'[job[w]].status = "RUNNING"
  BY DEF RunningInv
<1> QED BY <1>1, <1>4, <1>5, RunningFrame

LEMMA RunningStep ==
    ASSUME TypeOK, PendingInv, RunningInv, Exclusive, [Next]_vars
    PROVE  RunningInv'
<1>0. ASSUME UNCHANGED vars PROVE RunningInv'
  BY <1>0 DEF vars, tables, locals, RunningInv, CompleteIsCovered, Complete, Coverage, Covered
<1> SUFFICES ASSUME NEW w \in Workers, Work(w) \/ Fault(w) \/ \E r \in Runs : Reuse(w, r)
             PROVE  RunningInv'
  BY <1>0 DEF Next
<1>1. ASSUME NEW r \in Runs, LookUp(w, r) PROVE RunningInv'
  <2>1. /\ pc[w] = "idle" /\ r \in Serves[w] /\ ~ Complete(r)
        /\ pc'[w] = "opening" /\ job'[w] = r
        /\ \A v \in Workers \ {w} : pc'[v] = pc[v] /\ job'[v] = job[v]
        /\ UNCHANGED << audit, runs, tally >>
    BY <1>1 DEF LookUp, Goto, TypeOK, tables
  <2>2. \A q \in Runs : Complete(q)' = Complete(q) /\ Coverage(q)' = Coverage(q)
    BY <2>1 DEF Complete, Coverage, Covered
  <2>3. \A v \in Workers : pc'[v] # "idle" => job'[v] \in Serves[v] /\ ~ Complete(job[v])'
    <3>1. \A v \in Workers \ {w} : pc'[v] # "idle" => job'[v] \in Serves[v] /\ ~ Complete(job[v])'
      BY <2>1 DEF RunningInv, Complete
    <3>2. ~ Complete(job[w])'
      BY <2>1 DEF Complete
    <3> QED BY <2>1, <3>1, <3>2
  <2>4. \A v \in Workers : pc'[v] \notin {"idle", "opening"} => runs'[job'[v]].status = "RUNNING"
    BY <2>1 DEF RunningInv
  <2>5. \A v \in Workers : pc'[v] = "closing" => tally'[v] = Coverage(job[v])'
    <3> SUFFICES ASSUME NEW v \in Workers, pc'[v] = "closing"
                 PROVE  tally'[v] = Coverage(job[v])'
      OBVIOUS
    <3>1. v # w /\ pc[v] = "closing" /\ job'[v] = job[v]
      BY <2>1
    <3>2. tally[v] = Coverage(job[v])
      BY <3>1 DEF RunningInv
    <3>3. Coverage(job[v])' = Coverage(job[v])
      BY <2>1, <3>1 DEF Coverage, Covered
    <3> QED BY <2>1, <3>2, <3>3
  <2>6. CompleteIsCovered'
    BY <2>2 DEF RunningInv, CompleteIsCovered
  <2> QED BY <2>3, <2>4, <2>5, <2>6 DEF RunningInv
<1>2. CASE OpenRow(w)
  <2>1. /\ pc[w] = "opening" /\ pc'[w] = "loading" /\ job' = job /\ audit' = audit /\ tally' = tally
        /\ \A v \in Workers \ {w} : pc'[v] = pc[v]
        /\ runs'[job[w]] = RunRow("RUNNING", Asked(job[w]))
        /\ \A r \in Runs \ {job[w]} : runs'[r] = runs[r]
    BY <1>2 DEF OpenRow, Goto, TypeOK
  <2>2. Aside(w)
    BY <2>1 DEF Aside, Coverage, Covered
  <2>3. ~ Complete(job[w])' /\ runs'[job[w]].status = "RUNNING"
    BY <2>1 DEF Complete, RunRow
  <2> QED BY <2>1, <2>2, <2>3, RunningFrame
<1>3. CASE Snapshot(w)
  BY <1>3, RunningQuiet DEF Snapshot, Goto, TypeOK, tables
<1>4. ASSUME NEW c \in Credits, Skip(w, c) PROVE RunningInv'
  BY <1>4, RunningQuiet DEF Skip, tables
<1>5. ASSUME NEW c \in Credits, RaiseTrace(w, c) PROVE RunningInv'
  BY <1>5, RunningQuiet DEF RaiseTrace, Reaches, Goto, TypeOK, tables
<1>6. ASSUME NEW c \in Credits, Flag(w, c) PROVE RunningInv'
  BY <1>6, RunningQuiet DEF Flag, Reaches, Goto, TypeOK
<1>7. ASSUME NEW c \in Credits, CheckPrior(w, c) PROVE RunningInv'
  BY <1>7, RunningQuiet DEF CheckPrior, Reaches, Goto, TypeOK, tables
<1>8. ASSUME NEW c \in Credits, RefuseClear(w, c) PROVE RunningInv'
  BY <1>8, RunningQuiet DEF RefuseClear, Reaches, Goto, TypeOK, tables
<1>9. ASSUME NEW c \in Credits, WriteCleared(w, c) PROVE RunningInv'
  BY <1>9, RunningQuiet DEF WriteCleared, Goto, TypeOK
<1>10. ASSUME NEW c \in Credits, ReadHead(w, c) PROVE RunningInv'
  BY <1>10, RunningQuiet DEF ReadHead, Goto, TypeOK, tables
<1>11. ASSUME NEW p \in pending, Insert(w, p) PROVE RunningInv'
  <2>1. /\ pc[w] = "inserting" /\ pc'[w] = "looping"
        /\ UNCHANGED << job, runs, tally >> /\ audit' = audit \cup {p.row}
        /\ \A v \in Workers \ {w} : pc'[v] = pc[v]
    BY <1>11 DEF Insert, Goto, TypeOK
  <2>2. p.row.run = job[w]
    BY <1>11 DEF Insert, PendingInv
  <2>3. \A r \in Runs \ {job[w]} : {e \in audit' : e.run = r} = {e \in audit : e.run = r}
    BY <2>1, <2>2
  <2>4. Aside(w)
    BY <2>1, <2>3 DEF Aside, Coverage, Covered
  <2>5. ~ Complete(job[w])' /\ runs'[job[w]].status = "RUNNING"
    BY <2>1 DEF RunningInv, Complete
  <2> QED BY <2>1, <2>4, <2>5, RunningFrame
<1>12. ASSUME NEW p \in pending, InsertRefused(w, p) PROVE RunningInv'
  BY <1>12, RunningQuiet DEF InsertRefused, Goto, TypeOK, tables
<1>13. CASE EndLoop(w)
  BY <1>13, RunningQuiet DEF EndLoop, Goto, TypeOK, tables
<1>14. CASE CountCoverage(w)
  <2>1. /\ pc[w] = "counting" /\ UNCHANGED << job, runs, audit >>
        /\ \A v \in Workers \ {w} : pc'[v] = pc[v] /\ tally'[v] = tally[v]
        /\ tally'[w] = Coverage(job[w])
    BY <1>14 DEF CountCoverage, Goto, TypeOK, tables
  <2>2. Aside(w)
    BY <2>1 DEF Aside, Coverage, Covered
  <2>3. ~ Complete(job[w])' /\ runs'[job[w]].status = "RUNNING"
    BY <2>1 DEF RunningInv, Complete
  <2>4. tally'[w] = Coverage(job[w])'
    BY <2>1 DEF Coverage, Covered
  <2> QED BY <2>1, <2>2, <2>3, <2>4, RunningFrame
<1>15. CASE CloseRow(w)
  <2>1. /\ pc[w] = "closing" /\ pc'[w] = "idle" /\ UNCHANGED << job, audit >>
        /\ \A v \in Workers \ {w} : pc'[v] = pc[v] /\ tally'[v] = tally[v]
        /\ runs'[job[w]] = IF runs[job[w]].status = "ABSENT" THEN runs[job[w]] ELSE ClosedRow(w)
        /\ \A r \in Runs \ {job[w]} : runs'[r] = runs[r]
    BY <1>15 DEF CloseRow, Leave, Goto, TypeOK
  <2>2. Aside(w)
    BY <2>1 DEF Aside, Coverage, Covered
  <2>3. runs'[job[w]] = ClosedRow(w) /\ tally[w] = Coverage(job[w])
    BY <2>1 DEF RunningInv
  <2>4. Complete(job[w])' => Coverage(job[w])' = Asked(job[w])
    BY <2>1, <2>3 DEF Complete, ClosedRow, Coverage, Covered
  <2> QED BY <2>1, <2>2, <2>4, RunningFrame
<1>16. CASE Discard(w)
  <2>1. /\ pc[w] = "discarding" /\ pc'[w] = "idle" /\ job' = job
        /\ audit' = Without(audit, job[w])
        /\ \A v \in Workers \ {w} : pc'[v] = pc[v] /\ tally'[v] = tally[v]
        /\ runs'[job[w]] = FailedRow(job[w])
        /\ \A r \in Runs \ {job[w]} : runs'[r] = runs[r]
    BY <1>16 DEF Discard, Leave, Goto, TypeOK
  <2>2. \A r \in Runs \ {job[w]} : {e \in audit' : e.run = r} = {e \in audit : e.run = r}
    BY <2>1 DEF Without
  <2>3. Aside(w)
    BY <2>1, <2>2 DEF Aside, Coverage, Covered
  <2>4. runs'[job[w]].nCredits = runs[job[w]].nCredits /\ runs'[job[w]].nPersisted = runs[job[w]].nPersisted
    BY <2>1 DEF FailedRow, TypeOK, RunRows
  <2>5. ~ Complete(job[w])'
    BY <2>1, <2>4 DEF RunningInv, Complete
  <2> QED BY <2>1, <2>3, <2>5, RunningFrame
<1>17. CASE Kill(w)
  <2>1. /\ pc[w] # "idle" /\ pc'[w] = "idle" /\ UNCHANGED << job, audit, runs >>
        /\ \A v \in Workers \ {w} : pc'[v] = pc[v] /\ tally'[v] = tally[v]
    BY <1>17 DEF Kill, Leave, Goto, TypeOK, tables
  <2>2. Aside(w)
    BY <2>1 DEF Aside, Coverage, Covered
  <2>3. ~ Complete(job[w])'
    BY <2>1 DEF RunningInv, Complete
  <2> QED BY <2>1, <2>2, <2>3, RunningFrame
<1>18. CASE Fail(w)
  BY <1>18, RunningQuiet DEF Fail, Goto, TypeOK, tables
<1>19. CASE InterruptOpen(w)
  <2>1. /\ pc[w] = "opening" /\ pc'[w] = "idle" /\ UNCHANGED << job, audit >>
        /\ \A v \in Workers \ {w} : pc'[v] = pc[v] /\ tally'[v] = tally[v]
        /\ runs'[job[w]] = RunRow("ABSENT", 0)
        /\ \A r \in Runs \ {job[w]} : runs'[r] = runs[r]
    BY <1>19 DEF InterruptOpen, Leave, Goto, TypeOK
  <2>2. Aside(w)
    BY <2>1 DEF Aside, Coverage, Covered
  <2>3. ~ Complete(job[w])'
    BY <2>1 DEF Complete, RunRow
  <2> QED BY <2>1, <2>2, <2>3, RunningFrame
<1>20. ASSUME NEW c \in Credits, InterruptClear(w, c) PROVE RunningInv'
  BY <1>20, RunningQuiet DEF InterruptClear, Goto, TypeOK
<1>21. CASE InterruptDiscard(w)
  <2>1. /\ pc[w] = "discarding" /\ pc'[w] = "idle" /\ UNCHANGED << job, runs >>
        /\ audit' = Without(audit, job[w])
        /\ \A v \in Workers \ {w} : pc'[v] = pc[v] /\ tally'[v] = tally[v]
    BY <1>21 DEF InterruptDiscard, Leave, Goto, TypeOK
  <2>2. \A r \in Runs \ {job[w]} : {e \in audit' : e.run = r} = {e \in audit : e.run = r}
    BY <2>1 DEF Without
  <2>3. Aside(w)
    BY <2>1, <2>2 DEF Aside, Coverage, Covered
  <2>4. ~ Complete(job[w])'
    BY <2>1 DEF RunningInv, Complete
  <2> QED BY <2>1, <2>3, <2>4, RunningFrame
<1>22. ASSUME NEW r \in Runs, Reuse(w, r) PROVE RunningInv'
  BY <1>22, <1>0 DEF Reuse
<1> QED
  BY <1>1, <1>2, <1>3, <1>4, <1>5, <1>6, <1>7, <1>8, <1>9, <1>10, <1>11, <1>12, <1>13,
     <1>14, <1>15, <1>16, <1>17, <1>18, <1>19, <1>20, <1>21, <1>22
  DEF Work, Fault

LEMMA RunningInit == Init => RunningInv
BY DEF Init, RunningInv, CompleteIsCovered, Complete, RunRow

\* With one worker per run, a run that reads as complete (audit._run_row: "coverage
\* against the dataset") is covered by its own rows, although the row keeps counters and
\* discards, kills and runs over the same credits go on around it.
THEOREM CompleteRunsAreCovered == Exclusive => (Spec => []CompleteIsCovered)
<1> SUFFICES ASSUME Exclusive PROVE Spec => []CompleteIsCovered
  OBVIOUS
<1>1. Init => RunningInv
  BY RunningInit
<1>2. LedgerInv /\ RunningInv /\ [Next]_vars => RunningInv'
  BY RunningStep DEF LedgerInv
<1>3. RunningInv => CompleteIsCovered
  BY DEF RunningInv
<1> QED BY <1>1, <1>2, <1>3, LedgerInvariant, PTL DEF Spec

\* With one worker per run, the rows a COMPLETED run is believed by are never deleted:
\* discard_run only ever meets a run that is RUNNING.
THEOREM CompletedRowsAreKept == Exclusive => (Spec => CompletedRowsStay)
<1> SUFFICES ASSUME Exclusive PROVE Spec => CompletedRowsStay
  OBVIOUS
<1>1. Init => RunningInv
  BY RunningInit
<1>2. LedgerInv /\ RunningInv /\ [Next]_vars => RunningInv'
  BY RunningStep DEF LedgerInv
<1>3. LedgerInv /\ RunningInv /\ [Next]_vars
        => [\A e \in audit : runs[e.run].status = "COMPLETED" => e \in audit']_vars
  <2> SUFFICES ASSUME RunningInv, Next, NEW e \in audit, e \notin audit'
               PROVE  runs[e.run].status # "COMPLETED"
    OBVIOUS
  <2>1. PICK w \in Workers : Work(w) \/ Fault(w) \/ \E r \in Runs : Reuse(w, r)
    BY DEF Next
  <2>2. Discard(w) \/ InterruptDiscard(w)
    <3>1. CASE Work(w)
      BY <3>1 DEF Work, LookUp, OpenRow, Snapshot, Skip, RaiseTrace, Flag, CheckPrior,
                  RefuseClear, WriteCleared, ReadHead, Insert, InsertRefused, EndLoop,
                  CountCoverage, CloseRow, tables
    <3>2. CASE Fault(w)
      BY <3>2 DEF Fault, Kill, Fail, InterruptOpen, InterruptClear, tables
    <3>3. CASE \E r \in Runs : Reuse(w, r)
      BY <3>3 DEF Reuse, vars, tables
    <3> QED BY <2>1, <3>1, <3>2, <3>3
  <2>3. pc[w] = "discarding" /\ e.run = job[w]
    BY <2>2 DEF Discard, InterruptDiscard, Without
  <2> QED BY <2>3 DEF RunningInv
<1> QED BY <1>1, <1>2, <1>3, LedgerInvariant, PTL DEF Spec, CompletedRowsStay

-----------------------------------------------------------------------------
(***************************************************************************)
(* What a run computes, and what it finds already there.                   *)
(***************************************************************************)

LEMMA RunningInvariant == Exclusive => (Spec => []RunningInv)
<1> SUFFICES ASSUME Exclusive PROVE Spec => []RunningInv
  OBVIOUS
<1>1. Init => RunningInv
  BY RunningInit
<1>2. LedgerInv /\ RunningInv /\ [Next]_vars => RunningInv'
  BY RunningStep DEF LedgerInv
<1> QED BY <1>1, <1>2, LedgerInvariant, PTL DEF Spec

LEMMA SeparateIsExclusive == ASSUME Separate PROVE Exclusive
BY DEF Separate, Exclusive

LEMMA CoveredIsFinite ==
    ASSUME IsFiniteSet(audit), NEW r PROVE IsFiniteSet(Covered(r))
<1> DEFINE rows == {row \in audit : row.run = r}
           T == {e.payload.credit : e \in rows}
           f == [e \in rows |-> e.payload.credit]
<1>1. IsFiniteSet(rows)
  BY FS_Subset
<1>2. f \in Surjection(rows, T)
  BY DEF Surjection
<1> HIDE DEF rows, T, f
<1>3. IsFiniteSet(T)
  BY <1>1, <1>2, FS_Surjection
<1> QED BY <1>3 DEF T, rows, Covered

\* Everything a worker has of its own, and another leaves alone.
Stays(v) ==
    /\ pc'[v] = pc[v] /\ job'[v] = job[v] /\ pos'[v] = pos[v] /\ seen'[v] = seen[v]
    /\ verdict'[v] = verdict[v] /\ found'[v] = found[v] /\ prior'[v] = prior[v]
    /\ computed'[v] = computed[v] /\ tally'[v] = tally[v]

\* A step of worker w changes the entries of the run it executes, if any, and logs credits
\* of that run.
Touches(w) ==
    \/ audit' = audit
    \/ /\ pc[w] # "idle"
       /\ \A r \in Runs \ {job[w]} : Coverage(r)' = Coverage(r)
       /\ \A e \in audit' \ audit : e.run = job[w] /\ e.payload.credit \in Listed(job[w])

\* What w does is nothing to another worker.
LEMMA ResumesOther ==
    ASSUME TypeOK, RunningInv, Exclusive, NEW w \in Workers, NEW v \in Workers \ {w},
           Stays(v), Touches(w), Resumes(v)
    PROVE  Resumes(v)'
<1>1. CASE pc[v] = "idle"
  BY <1>1 DEF Stays, Resumes
<1>2. CASE pc[v] # "idle"
  <2>1. job[v] \in Runs /\ job'[v] = job[v] /\ Asked(job'[v]) = Asked(job[v])
    BY DEF Stays, TypeOK
  <2>2. Coverage(job[v])' = Coverage(job[v])
    <3>1. CASE audit' = audit
      BY <2>1, <3>1 DEF Coverage, Covered
    <3>2. CASE pc[w] # "idle" /\ \A r \in Runs \ {job[w]} : Coverage(r)' = Coverage(r)
      <4>1. job[v] \in Runs \ {job[w]}
        BY <1>2, <2>1, <3>2, OwnRun
      <4> QED BY <2>1, <3>2, <4>1 DEF Coverage, Covered
    <3> QED BY <3>1, <3>2 DEF Touches
  <2>3. ASSUME pc[v] \in {"looping", "clearing", "appending", "inserting"}
        PROVE  Skips(v)'
    <3> SUFFICES ASSUME NEW e \in audit', NEW i \in pos[v] .. Asked(job[v]),
                        CreditsOf[job[v]][i] = e.payload.credit, Counts(v, e)'
                 PROVE  e.payload.credit \in seen[v]
      BY <2>1 DEF Stays, Skips
    <3>1. Counts(v, e)
      BY <2>1 DEF Counts
    <3>2. CASE e \in audit
      BY <2>3, <3>1, <3>2 DEF Resumes, Skips
    <3>3. CASE e \notin audit
      <4>1. /\ pc[w] # "idle" /\ e.run = job[w] /\ e.payload.credit \in Listed(job[w])
        BY <3>3 DEF Touches
      <4>2. job[v] # job[w] /\ job[v] \in Serves[v] /\ job[w] \in Serves[w]
        BY <1>2, <4>1, OwnRun DEF RunningInv
      <4>3. Separate
        BY <3>1, <4>1, <4>2 DEF Counts
      <4>4. i \in 1 .. Asked(job[v])
        BY <2>1, AskedIsNat DEF TypeOK, Resumes
      <4> QED BY <4>1, <4>2, <4>3, <4>4 DEF Separate, Listed
    <3> QED BY <3>2, <3>3
  <2> QED BY <2>1, <2>2, <2>3 DEF Resumes, Stays, At
<1> QED BY <1>1, <1>2

\* A worker that leaves has nothing computed.
LEMMA ResumesLeave ==
    ASSUME TypeOK, NEW w \in Workers, Leave(w)
    PROVE  Resumes(w)'
BY DEF TypeOK, Leave, Goto, Resumes

\* Nor has one that is about to discard its run anything to answer for.
LEMMA ResumesDiscarding ==
    ASSUME TypeOK, NEW w \in Workers, Resumes(w), pc'[w] = "discarding", pos' = pos
    PROVE  Resumes(w)'
BY DEF Resumes

\* A step of w that decides on its credit, and leaves the audit table alone.
LEMMA ResumesDecision ==
    ASSUME TypeOK, NEW w \in Workers, NEW c \in Credits, Resumes(w),
           pc[w] \in {"looping", "clearing", "appending", "inserting"}, At(w, c), c \notin seen[w],
           pc'[w] \in {"clearing", "appending", "inserting"},
           verdict'[w] = Raised /\ pc'[w] # "clearing" => c \in Raising[job[w]],
           UNCHANGED << audit, job, pos, seen, computed >>
    PROVE  Resumes(w)'
<1>1. Skips(w)'
  BY DEF Resumes, Skips, Counts, Asked
<1>2. \A d \in Credits : At(w, d)' => d = c
  BY DEF At, Asked
<1>3. RaisedOnce => computed'[w] <= Coverage(job[w])'
  BY DEF Resumes, Coverage, Covered
<1> QED BY <1>1, <1>2, <1>3 DEF Resumes

\* A row goes in for a credit that the run has no row of: one more is computed, one more
\* is covered.
LEMMA ResumesInsert ==
    ASSUME LedgerInv, Exclusive, ResumeInv, NEW w \in Workers, NEW p \in pending, Insert(w, p)
    PROVE  /\ Resumes(w)'
           /\ p.row.run = job[w] /\ p.row.payload.credit \in Listed(job[w])
           /\ \A e \in audit : Counts(w, e) /\ (p.row.payload.verdict = Raised => RaisedOnce)
                  => e.payload.credit # p.row.payload.credit
<1> DEFINE c == p.row.payload.credit
<1>1. /\ pc[w] = "inserting" /\ pc'[w] = "looping" /\ audit' = audit \cup {p.row}
      /\ job' = job /\ pos'[w] = pos[w] + 1 /\ computed'[w] = computed[w] + 1
      /\ seen'[w] = IF verdict[w] = Raised THEN seen[w] ELSE seen[w] \cup {c}
  BY DEF Insert, Goto, LedgerInv, TypeOK
<1>2. /\ p.row.run = job[w] /\ At(w, c) /\ p.row.payload.verdict = verdict[w]
      /\ c \in Credits /\ job[w] \in Runs /\ pos[w] \in Nat \ {0} /\ computed[w] \in Nat
  BY DEF Insert, LedgerInv, PendingInv, ResumeInv, InFlight, TypeOK, Rows, Payloads
<1>3. /\ Asked(job[w]) \in Nat /\ pos[w] >= 1 /\ pos[w] \in 1 .. Asked(job[w])
      /\ CreditsOf[job[w]][pos[w]] = c
  BY <1>2, AskedIsNat DEF At, ResumeInv, Resumes
<1>4. /\ c \notin seen[w] /\ Skips(w)
      /\ verdict[w] = Raised => c \in Raising[job[w]]
      /\ RaisedOnce => computed[w] <= Coverage(job[w])
  BY <1>1, <1>2 DEF ResumeInv, Resumes
<1>5. ASSUME NEW e \in audit, Counts(w, e) PROVE e.payload.credit # c
  BY <1>3, <1>4, <1>5 DEF Skips
<1>6. Skips(w)'
  <2> SUFFICES ASSUME NEW e \in audit', NEW i \in (pos[w] + 1) .. Asked(job[w]),
                      CreditsOf[job[w]][i] = e.payload.credit, Counts(w, e)'
               PROVE  e.payload.credit \in seen'[w]
    BY <1>1 DEF Skips, Asked
  <2>1. Counts(w, e) /\ i \in pos[w] .. Asked(job[w]) /\ i \in 1 .. Asked(job[w])
    BY <1>1, <1>2, <1>3 DEF Counts
  <2>2. CASE e \in audit
    <3>1. e.payload.credit \in seen[w]
      BY <1>4, <2>1, <2>2 DEF Skips
    <3> QED BY <1>1, <3>1
  <2>3. CASE e = p.row /\ verdict[w] = Raised
    <3>1. RaisedOnce
      BY <1>2, <2>1, <2>3 DEF Counts
    <3>2. CreditsOf[job[w]][i] = CreditsOf[job[w]][pos[w]] /\ pos[w] < i
      BY <1>2, <1>3, <2>3
    <3>3. c \notin Raising[job[w]]
      BY <1>2, <1>3, <2>1, <3>1, <3>2 DEF RaisedOnce
    <3> QED BY <1>4, <2>3, <3>3
  <2>4. CASE e = p.row /\ verdict[w] # Raised
    BY <1>1, <2>4
  <2> QED BY <1>1, <2>2, <2>3, <2>4
<1>7. ASSUME RaisedOnce PROVE computed[w] + 1 <= Coverage(job[w])'
  <2>1. c \notin Covered(job[w])
    <3> SUFFICES ASSUME NEW e \in audit, e.run = job[w] PROVE e.payload.credit # c
      BY DEF Covered
    <3> QED BY <1>5, <1>7 DEF Counts
  <2>2. Covered(job[w])' = Covered(job[w]) \cup {c}
    BY <1>1, <1>2 DEF Covered
  <2>3. IsFiniteSet(Covered(job[w]))
    BY CoveredIsFinite DEF LedgerInv
  <2>4. Cardinality(Covered(job[w]) \cup {c}) = Cardinality(Covered(job[w])) + 1
    BY <2>1, <2>3, FS_AddElement
  <2>5. Coverage(job[w])' = Coverage(job[w]) + 1
    BY <2>2, <2>4 DEF Coverage
  <2>6. Coverage(job[w]) \in Nat
    BY CoverageIsNat DEF LedgerInv
  <2> QED BY <1>2, <1>4, <1>7, <2>5, <2>6
<1>8. Resumes(w)'
  BY <1>1, <1>2, <1>3, <1>6, <1>7 DEF Resumes
<1>9. c \in Listed(job[w])
  BY <1>3 DEF Listed
<1> QED BY <1>2, <1>5, <1>8, <1>9

\* What a step does to the worker that takes it.
LEMMA ResumesSelf ==
    ASSUME LedgerInv, RunningInv, Exclusive, ResumeInv, NEW w \in Workers,
           Work(w) \/ Fault(w) \/ \E r \in Runs : Reuse(w, r)
    PROVE  Resumes(w)'
<1> USE LedgerConstants
<1>0. Resumes(w) /\ TypeOK
  BY DEF ResumeInv, LedgerInv
<1>1. ASSUME NEW r \in Runs, LookUp(w, r) PROVE Resumes(w)'
  <2>1. pc[w] = "idle" /\ pc'[w] = "opening" /\ computed' = computed /\ pos' = pos
    BY <1>0, <1>1 DEF LookUp, Goto, TypeOK
  <2> QED BY <1>0, <2>1 DEF Resumes
<1>2. CASE OpenRow(w)
  <2>1. pc[w] = "opening" /\ pc'[w] = "loading" /\ computed' = computed /\ pos' = pos
    BY <1>0, <1>2 DEF OpenRow, Goto, TypeOK
  <2> QED BY <1>0, <2>1 DEF Resumes
<1>3. CASE Snapshot(w)
  <2>1. /\ pc[w] = "loading" /\ pc'[w] = "looping" /\ UNCHANGED << computed, pos, audit, job >>
        /\ seen'[w] = {e.payload.credit : e \in audit}
    BY <1>0, <1>3 DEF Snapshot, Goto, TypeOK, tables
  <2>2. Skips(w)'
    BY <2>1 DEF Skips
  <2>3. computed'[w] = 0 /\ Coverage(job[w])' \in Nat
    <3>1. Coverage(job[w])' = Coverage(job[w])
      BY <2>1 DEF Coverage, Covered
    <3> QED BY <1>0, <2>1, <3>1, CoverageIsNat DEF Resumes, LedgerInv
  <2> QED BY <1>0, <2>1, <2>2, <2>3 DEF Resumes
<1>4. ASSUME NEW c \in Credits, Skip(w, c) PROVE Resumes(w)'
  <2>1. /\ pc[w] = "looping" /\ pc' = pc /\ UNCHANGED << computed, seen, audit, job >>
        /\ pos'[w] = pos[w] + 1 /\ pos[w] \in Nat
    BY <1>0, <1>4 DEF Skip, TypeOK, tables
  <2>2. Skips(w)'
    <3>1. job[w] \in Runs /\ Asked(job[w]) \in Nat
      BY <1>0, AskedIsNat DEF TypeOK
    <3>2. (pos[w] + 1) .. Asked(job[w]) \subseteq pos[w] .. Asked(job[w])
      BY <2>1, <3>1
    <3>3. Skips(w)
      BY <1>0, <2>1 DEF Resumes
    <3> QED BY <2>1, <3>2, <3>3 DEF Skips, Counts, Asked
  <2>3. RaisedOnce => computed'[w] <= Coverage(job[w])'
    BY <1>0, <2>1 DEF Resumes, Coverage, Covered
  <2> QED BY <1>0, <2>1, <2>2, <2>3 DEF Resumes
<1>5. ASSUME NEW c \in Credits, RaiseTrace(w, c) PROVE Resumes(w)'
  BY <1>0, <1>5, ResumesDecision DEF RaiseTrace, Reaches, Goto, TypeOK, tables
<1>6. ASSUME NEW c \in Credits, Flag(w, c) PROVE Resumes(w)'
  BY <1>0, <1>6, ResumesDecision, VerdictsDiffer DEF Flag, Reaches, Goto, TypeOK
<1>7. ASSUME NEW c \in Credits, CheckPrior(w, c) PROVE Resumes(w)'
  BY <1>0, <1>7, ResumesDecision DEF CheckPrior, Reaches, Goto, TypeOK, tables
<1>8. ASSUME NEW c \in Credits, RefuseClear(w, c) PROVE Resumes(w)'
  BY <1>0, <1>8, ResumesDiscarding DEF RefuseClear, Goto, TypeOK
<1>9. ASSUME NEW c \in Credits, WriteCleared(w, c) PROVE Resumes(w)'
  <2>1. c \notin seen[w] /\ At(w, c) /\ pc[w] = "clearing"
    BY <1>0, <1>9 DEF WriteCleared, Resumes
  <2> QED BY <1>0, <1>9, <2>1, ResumesDecision, VerdictsDiffer DEF WriteCleared, Goto, TypeOK
<1>10. ASSUME NEW c \in Credits, ReadHead(w, c) PROVE Resumes(w)'
  <2>1. /\ c \notin seen[w] /\ At(w, c) /\ pc[w] = "appending"
        /\ verdict[w] = Raised => c \in Raising[job[w]]
    BY <1>0, <1>10 DEF ReadHead, Resumes
  <2> QED BY <1>0, <1>10, <2>1, ResumesDecision DEF ReadHead, Goto, TypeOK, tables
<1>11. ASSUME NEW p \in pending, Insert(w, p) PROVE Resumes(w)'
  BY <1>11, ResumesInsert
<1>12. ASSUME NEW p \in pending, InsertRefused(w, p) PROVE Resumes(w)'
  BY <1>0, <1>12, ResumesDiscarding DEF InsertRefused, Goto, TypeOK
<1>13. CASE EndLoop(w)
  <2>1. pc[w] = "looping" /\ pc'[w] = "counting" /\ UNCHANGED << computed, pos, audit, job >>
    BY <1>0, <1>13 DEF EndLoop, Goto, TypeOK, tables
  <2> QED BY <1>0, <2>1 DEF Resumes, Coverage, Covered
<1>14. CASE CountCoverage(w)
  <2>1. /\ pc[w] = "counting" /\ pc'[w] = "closing" /\ computed' = computed /\ pos' = pos
        /\ tally'[w] = Coverage(job[w])
    BY <1>0, <1>14 DEF CountCoverage, Goto, TypeOK
  <2> QED BY <1>0, <2>1 DEF Resumes
<1>15. CASE CloseRow(w) \/ Discard(w) \/ Kill(w) \/ InterruptOpen(w) \/ InterruptDiscard(w)
  BY <1>0, <1>15, ResumesLeave DEF CloseRow, Discard, Kill, InterruptOpen, InterruptDiscard
<1>16. CASE Fail(w)
  BY <1>0, <1>16, ResumesDiscarding DEF Fail, Goto, TypeOK
<1>17. ASSUME NEW c \in Credits, InterruptClear(w, c) PROVE Resumes(w)'
  BY <1>0, <1>17, ResumesDiscarding DEF InterruptClear, Goto, TypeOK
<1>18. ASSUME NEW r \in Runs, Reuse(w, r) PROVE Resumes(w)'
  BY <1>0, <1>18 DEF Reuse, vars, tables, locals, Resumes, Skips, Counts, At, Asked, Coverage, Covered
<1> QED
  BY <1>1, <1>2, <1>3, <1>4, <1>5, <1>6, <1>7, <1>8, <1>9, <1>10, <1>11, <1>12, <1>13,
     <1>14, <1>15, <1>16, <1>17, <1>18
  DEF Work, Fault

\* A step is its worker's: nobody else moves.
LEMMA OthersStay ==
    ASSUME TypeOK, NEW w \in Workers, Work(w) \/ Fault(w) \/ \E r \in Runs : Reuse(w, r),
           NEW v \in Workers \ {w}
    PROVE  Stays(v)
<1> USE DEF TypeOK
<1>1. CASE Work(w)
  <2>1. CASE \E r \in Runs : LookUp(w, r)
    BY <2>1 DEF LookUp, Goto, Stays
  <2>2. CASE OpenRow(w) \/ Snapshot(w) \/ EndLoop(w) \/ CountCoverage(w)
    BY <2>2 DEF OpenRow, Snapshot, EndLoop, CountCoverage, Goto, Stays
  <2>3. CASE CloseRow(w) \/ Discard(w)
    BY <2>3 DEF CloseRow, Discard, Leave, Goto, Stays
  <2>4. ASSUME NEW c \in Credits,
               \/ Skip(w, c) \/ RaiseTrace(w, c) \/ Flag(w, c) \/ CheckPrior(w, c)
               \/ RefuseClear(w, c) \/ WriteCleared(w, c) \/ ReadHead(w, c)
        PROVE  Stays(v)
    BY <2>4 DEF Skip, RaiseTrace, Flag, CheckPrior, RefuseClear, WriteCleared, ReadHead, Goto, Stays
  <2>5. ASSUME NEW p \in pending, Insert(w, p) \/ InsertRefused(w, p) PROVE Stays(v)
    BY <2>5 DEF Insert, InsertRefused, Goto, Stays
  <2> QED BY <1>1, <2>1, <2>2, <2>3, <2>4, <2>5 DEF Work
<1>2. CASE Fault(w)
  BY <1>2 DEF Fault, Kill, Fail, InterruptOpen, InterruptClear, InterruptDiscard, Leave, Goto, Stays
<1>3. CASE \E r \in Runs : Reuse(w, r)
  BY <1>3 DEF Reuse, vars, locals, Stays
<1> QED BY <1>1, <1>2, <1>3

\* What a step does to the table of entries.
LEMMA TableSteps ==
    ASSUME NEW w \in Workers, Work(w) \/ Fault(w) \/ \E r \in Runs : Reuse(w, r)
    PROVE  \/ audit' = audit
           \/ \E p \in pending : Insert(w, p)
           \/ pc[w] # "idle" /\ audit' = Without(audit, job[w])
<1>1. CASE Work(w)
  BY <1>1 DEF Work, LookUp, OpenRow, Snapshot, Skip, RaiseTrace, Flag, CheckPrior, RefuseClear,
              WriteCleared, ReadHead, InsertRefused, EndLoop, CountCoverage, CloseRow, Discard, tables
<1>2. CASE Fault(w)
  BY <1>2 DEF Fault, Kill, Fail, InterruptOpen, InterruptClear, InterruptDiscard, tables
<1>3. CASE \E r \in Runs : Reuse(w, r)
  BY <1>3 DEF Reuse, vars, tables
<1> QED BY <1>1, <1>2, <1>3

LEMMA StepTouches ==
    ASSUME LedgerInv, Exclusive, ResumeInv, NEW w \in Workers,
           Work(w) \/ Fault(w) \/ \E r \in Runs : Reuse(w, r)
    PROVE  Touches(w)
<1>1. CASE audit' = audit
  BY <1>1 DEF Touches
<1>2. ASSUME NEW p \in pending, Insert(w, p) PROVE Touches(w)
  <2>1. pc[w] # "idle" /\ audit' = audit \cup {p.row}
    BY <1>2 DEF Insert
  <2>2. p.row.run = job[w] /\ p.row.payload.credit \in Listed(job[w])
    BY <1>2, ResumesInsert
  <2>3. \A r \in Runs \ {job[w]} : {e \in audit' : e.run = r} = {e \in audit : e.run = r}
    BY <2>1, <2>2
  <2> QED BY <2>1, <2>2, <2>3 DEF Touches, Coverage, Covered
<1>3. CASE pc[w] # "idle" /\ audit' = Without(audit, job[w])
  <2>1. \A r \in Runs \ {job[w]} : {e \in audit' : e.run = r} = {e \in audit : e.run = r}
    BY <1>3 DEF Without
  <2>2. audit' \subseteq audit
    BY <1>3 DEF Without
  <2> QED BY <1>3, <2>1, <2>2 DEF Touches, Coverage, Covered
<1> QED BY <1>1, <1>2, <1>3, TableSteps

\* What a step does to the rows in flight.
LEMMA FlightSteps ==
    ASSUME TypeOK, NEW w \in Workers, Work(w) \/ Fault(w) \/ \E r \in Runs : Reuse(w, r)
    PROVE  \/ UNCHANGED << pending, job, pos, verdict >>
           \/ pending' = {p \in pending : p.writer # w}
           \/ pc[w] # "inserting" /\ pending' = pending
           \/ \E c \in Credits : ReadHead(w, c)
<1>1. CASE Work(w)
  BY <1>1 DEF Work, LookUp, OpenRow, Snapshot, Skip, RaiseTrace, Flag, CheckPrior, RefuseClear, Reaches,
              WriteCleared, Insert, InsertRefused, EndLoop, CountCoverage, CloseRow, Discard, RollBack
<1>2. CASE Fault(w)
  BY <1>2 DEF Fault, Kill, Fail, InterruptOpen, InterruptClear, InterruptDiscard, RollBack
<1>3. CASE \E r \in Runs : Reuse(w, r)
  BY <1>3 DEF Reuse, vars, locals
<1> QED BY <1>1, <1>2, <1>3

LEMMA InFlightStep ==
    ASSUME LedgerInv, ResumeInv, NEW w \in Workers,
           Work(w) \/ Fault(w) \/ \E r \in Runs : Reuse(w, r)
    PROVE  (\A p \in pending : InFlight(p))'
<1>1. TypeOK /\ \A p \in pending : InFlight(p) /\ p.writer \in Workers /\ pc[p.writer] = "inserting"
  BY DEF LedgerInv, ResumeInv, PendingInv, TypeOK
<1>2. ASSUME NEW p \in pending, p.writer # w PROVE InFlight(p)'
  <2>1. Stays(p.writer)
    BY <1>1, <1>2, OthersStay
  <2> QED BY <1>1, <2>1 DEF InFlight, At, Asked, Stays
<1>3. CASE UNCHANGED << pending, job, pos, verdict >>
  BY <1>1, <1>3 DEF InFlight, At, Asked
<1>4. CASE pending' = {p \in pending : p.writer # w}
  BY <1>2, <1>4
<1>5. CASE pc[w] # "inserting" /\ pending' = pending
  BY <1>1, <1>2, <1>5
<1>6. ASSUME NEW c \in Credits, ReadHead(w, c) PROVE (\A p \in pending : InFlight(p))'
  <2>1. PICK q : /\ pending' = pending \cup {q} /\ q.writer = w
                 /\ q.row.payload.credit = c /\ q.row.payload.verdict = verdict[w]
    <3> DEFINE new(seq, prev) ==
          [writer |-> w,
           row |-> [seq |-> seq, run |-> job[w], prev |-> prev,
                    payload |-> [credit |-> c, verdict |-> verdict[w]]]]
    <3>1. PICK seq, prev : pending' = pending \cup {new(seq, prev)}
      BY <1>6 DEF ReadHead
    <3>2. /\ new(seq, prev).writer = w /\ new(seq, prev).row.payload.credit = c
          /\ new(seq, prev).row.payload.verdict = verdict[w]
      OBVIOUS
    <3> HIDE DEF new
    <3> QED BY <3>1, <3>2
  <2>2. pc[w] = "appending" /\ At(w, c) /\ UNCHANGED << job, pos, verdict >>
    BY <1>6 DEF ReadHead
  <2>3. InFlight(q)'
    BY <2>1, <2>2 DEF InFlight, At, Asked
  <2>4. \A p \in pending : p.writer # w
    BY <1>1, <2>2
  <2> QED BY <1>2, <2>1, <2>3, <2>4
<1> QED BY <1>1, <1>3, <1>4, <1>5, <1>6, FlightSteps

\* With nobody else to decide its credits, a worker logs none that is logged.
LEMMA OneEntryStep ==
    ASSUME LedgerInv, Separate, RaisedOnce, ResumeInv, NEW w \in Workers,
           Work(w) \/ Fault(w) \/ \E r \in Runs : Reuse(w, r)
    PROVE  (\A d, e \in audit : d.payload.credit = e.payload.credit => d = e)'
<1>1. \A d, e \in audit : d.payload.credit = e.payload.credit => d = e
  BY DEF ResumeInv
<1>2. CASE audit' \subseteq audit
  BY <1>1, <1>2
<1>3. ASSUME NEW p \in pending, Insert(w, p)
      PROVE  (\A d, e \in audit : d.payload.credit = e.payload.credit => d = e)'
  <2>1. \A e \in audit : e.payload.credit # p.row.payload.credit
    BY <1>3, ResumesInsert, SeparateIsExclusive DEF Counts
  <2>2. audit' = audit \cup {p.row}
    BY <1>3 DEF Insert
  <2> QED BY <1>1, <2>1, <2>2
<1> QED BY <1>2, <1>3, TableSteps DEF Without

\* The rows of runs change when one is opened, closed, discarded or lost.
LEMMA RowSteps ==
    ASSUME NEW w \in Workers, Work(w) \/ Fault(w) \/ \E r \in Runs : Reuse(w, r)
    PROVE  \/ runs' = runs
           \/ CloseRow(w)
           \/ Discard(w)
           \/ /\ pc[w] = "opening"
              /\ \E status \in {"RUNNING", "ABSENT"}, n \in {0, Asked(job[w])} :
                    runs' = [runs EXCEPT ![job[w]] = RunRow(status, n)]
<1>1. CASE Work(w)
  BY <1>1 DEF Work, LookUp, OpenRow, Snapshot, Skip, RaiseTrace, Flag, CheckPrior, RefuseClear,
              WriteCleared, ReadHead, Insert, InsertRefused, EndLoop, CountCoverage, tables
<1>2. CASE Fault(w)
  BY <1>2 DEF Fault, Kill, Fail, InterruptOpen, InterruptClear, InterruptDiscard, tables
<1>3. CASE \E r \in Runs : Reuse(w, r)
  BY <1>3 DEF Reuse, vars, tables
<1> QED BY <1>1, <1>2, <1>3

\* A status other than these is given by CloseRow only, with the numbers it counted.
LEMMA RowAfter ==
    ASSUME TypeOK, NEW w \in Workers, Work(w) \/ Fault(w) \/ \E r \in Runs : Reuse(w, r),
           NEW r \in Runs, runs'[r].status \in {"COMPLETED", "PARTIAL"}
    PROVE  \/ runs'[r] = runs[r]
           \/ CloseRow(w) /\ r = job[w] /\ runs'[r] = ClosedRow(w)
<1>1. CASE runs' = runs
  BY <1>1
<1>2. CASE CloseRow(w)
  BY <1>2 DEF CloseRow, TypeOK
<1>3. CASE Discard(w)
  <2>1. runs' = [runs EXCEPT ![job[w]] = FailedRow(job[w])] /\ job[w] \in Runs
    BY <1>3 DEF Discard, TypeOK
  <2>2. FailedRow(job[w]).status \in {"ABSENT", "FAILED"}
    BY <2>1 DEF FailedRow, TypeOK, RunRows
  <2> QED BY <2>1, <2>2 DEF TypeOK
<1>4. ASSUME NEW status \in {"RUNNING", "ABSENT"}, NEW n,
             runs' = [runs EXCEPT ![job[w]] = RunRow(status, n)]
      PROVE  runs'[r] = runs[r]
  <2>1. RunRow(status, n).status = status
    BY DEF RunRow
  <2> QED BY <1>4, <2>1 DEF TypeOK
<1> QED BY <1>1, <1>2, <1>3, <1>4, RowSteps

LEMMA AccountingStep ==
    ASSUME LedgerInv, RaisedOnce, ResumeInv, NEW w \in Workers,
           Work(w) \/ Fault(w) \/ \E r \in Runs : Reuse(w, r)
    PROVE  AccountingAdds'
<1> SUFFICES ASSUME NEW r \in Runs, runs'[r].status \in {"COMPLETED", "PARTIAL"}
             PROVE  runs'[r].nComputed + runs'[r].nReused = runs'[r].nPersisted
  BY DEF AccountingAdds
<1>1. CASE runs'[r] = runs[r]
  BY <1>1 DEF ResumeInv, AccountingAdds
<1>2. CASE CloseRow(w) /\ r = job[w] /\ runs'[r] = ClosedRow(w)
  <2>1. computed[w] <= tally[w] /\ computed[w] \in Nat /\ tally[w] \in Nat
    BY <1>2 DEF CloseRow, ResumeInv, Resumes, LedgerInv, TypeOK
  <2>2. /\ runs'[r].nComputed = computed[w] /\ runs'[r].nPersisted = tally[w]
        /\ runs'[r].nReused = IF tally[w] > computed[w] THEN tally[w] - computed[w] ELSE 0
    BY <1>2 DEF ClosedRow
  <2> QED BY <2>1, <2>2
<1> QED BY <1>1, <1>2, RowAfter DEF LedgerInv

LEMMA ResumeStep ==
    ASSUME LedgerInv, RunningInv, ResumeInv, Exclusive, [Next]_vars
    PROVE  ResumeInv'
<1>1. CASE UNCHANGED vars
  BY <1>1, ZenonT(60) DEF vars, tables, locals, ResumeInv, Resumes, InFlight, AccountingAdds, Skips, Counts, At,
              Asked, Coverage, Covered
<1>2. ASSUME NEW w \in Workers, Work(w) \/ Fault(w) \/ \E r \in Runs : Reuse(w, r)
      PROVE  ResumeInv'
  <2>1. ASSUME NEW v \in Workers PROVE Resumes(v)'
    <3>1. CASE v = w
      BY <1>2, <3>1, ResumesSelf
    <3>2. CASE v # w
      <4>1. Stays(v) /\ Touches(w) /\ Resumes(v) /\ TypeOK
        BY <1>2, <3>2, OthersStay, StepTouches DEF LedgerInv, ResumeInv
      <4> QED BY <3>2, <4>1, ResumesOther
    <3> QED BY <3>1, <3>2
  <2>2. (\A p \in pending : InFlight(p))'
    BY <1>2, InFlightStep
  <2>3. Separate /\ RaisedOnce =>
            (\A d, e \in audit : d.payload.credit = e.payload.credit => d = e)'
    BY <1>2, OneEntryStep
  <2>4. RaisedOnce => AccountingAdds'
    BY <1>2, AccountingStep
  <2> QED BY <2>1, <2>2, <2>3, <2>4 DEF ResumeInv
<1> QED BY <1>1, <1>2 DEF Next

LEMMA ResumeInit == Init => ResumeInv
<1> SUFFICES ASSUME Init PROVE ResumeInv
  OBVIOUS
<1>1. \A w \in Workers : Resumes(w)
  BY DEF Init, Resumes
<1>2. AccountingAdds
  BY DEF Init, AccountingAdds, RunRow
<1> QED BY <1>1, <1>2 DEF Init, ResumeInv

LEMMA ResumeInvariant == Exclusive => (Spec => []ResumeInv)
<1> SUFFICES ASSUME Exclusive PROVE Spec => []ResumeInv
  OBVIOUS
<1>1. LedgerInv /\ RunningInv /\ ResumeInv /\ [Next]_vars => ResumeInv'
  BY ResumeStep
<1> QED BY <1>1, ResumeInit, RunningInvariant, LedgerInvariant, PTL DEF Spec

\* One credit, one result: when no run and no credit has two workers, whatever is killed,
\* fails, is discarded and recorded again, under whichever identity, logs no credit twice
\* (seen_ids, orchestrator.py:159), provided a credit whose gates raise is listed once.
THEOREM OneResultHolds == Separate /\ RaisedOnce => (Spec => []OneResult)
<1> SUFFICES ASSUME Separate, RaisedOnce PROVE Spec => []OneResult
  OBVIOUS
<1>1. ResumeInv => OneResult
  <2> SUFFICES ASSUME ResumeInv, NEW c \in Credits PROVE Cardinality(Entries(c)) <= 1
    BY DEF OneResult
  <2>1. \A d, e \in Entries(c) : d = e
    BY DEF ResumeInv, Entries
  <2>2. Entries(c) = {} \/ \E e : Entries(c) = {e}
    BY <2>1
  <2> QED BY <2>2, FS_EmptySet, FS_Singleton
<1> QED BY <1>1, ResumeInvariant, SeparateIsExclusive, PTL

\* Whenever a run is closed its numbers add up: with one worker per run, a run has as many
\* rows as it computed credits in this invocation, and the rows it found
\* (complete_run's n_reused, audit.py:302).
THEOREM AccountingHolds == Exclusive /\ RaisedOnce => (Spec => []AccountingAdds)
<1> SUFFICES ASSUME Exclusive, RaisedOnce PROVE Spec => []AccountingAdds
  OBVIOUS
<1>1. ResumeInv => AccountingAdds
  BY DEF ResumeInv
<1> QED BY <1>1, ResumeInvariant, PTL

-----------------------------------------------------------------------------
(***************************************************************************)
(* What is believed, and what is stored.                                   *)
(***************************************************************************)

LEMMA CompletedStep ==
    ASSUME TypeOK, CompletedInv, [Next]_vars
    PROVE  CompletedInv'
<1>1. CASE UNCHANGED vars
  BY <1>1 DEF vars, tables, CompletedInv, Complete
<1>2. ASSUME NEW w \in Workers, Work(w) \/ Fault(w) \/ \E r \in Runs : Reuse(w, r)
      PROVE  CompletedInv'
  <2> SUFFICES ASSUME NEW r \in Runs, runs'[r].status = "COMPLETED", Asked(r) # 0
               PROVE  Complete(r)'
    BY DEF CompletedInv, Asked
  <2>1. CASE runs'[r] = runs[r]
    BY <2>1 DEF CompletedInv, Complete
  <2>2. CASE r = job[w] /\ runs'[r] = ClosedRow(w)
    <3>1. runs'[r].nCredits = Asked(r) /\ runs'[r].nPersisted = tally[w] /\ tally[w] = Asked(r)
      BY <2>2 DEF ClosedRow
    <3> QED BY <3>1 DEF Complete
  <2> QED BY <1>2, <2>1, <2>2, RowAfter
<1> QED BY <1>1, <1>2 DEF Next

LEMMA CompletedInit == Init => CompletedInv
BY DEF Init, CompletedInv, RunRow

LEMMA CompletedInvariant == Spec => []CompletedInv
<1>1. LedgerInv /\ CompletedInv /\ [Next]_vars => CompletedInv'
  BY CompletedStep DEF LedgerInv
<1> QED BY <1>1, CompletedInit, LedgerInvariant, PTL DEF Spec

\* With one worker per run, and something to cover in each, a run that counts as COMPLETED
\* stays what it is: latest_completed_run never finds less than it did.
THEOREM BeliefHolds ==
    Exclusive /\ (\A r \in Runs : Asked(r) # 0) => (Spec => BeliefIsKept)
<1> SUFFICES ASSUME Exclusive, \A r \in Runs : Asked(r) # 0 PROVE Spec => BeliefIsKept
  OBVIOUS
<1>1. TypeOK /\ RunningInv /\ CompletedInv /\ [Next]_vars => [Believed => Believed']_vars
  <2> SUFFICES ASSUME TypeOK, RunningInv, CompletedInv, Next, Believed PROVE Believed'
    OBVIOUS
  <2>1. PICK r \in Runs : runs[r].status = "COMPLETED"
    BY DEF Believed
  <2>2. Complete(r)
    BY <2>1 DEF CompletedInv
  <2>3. PICK w \in Workers : Work(w) \/ Fault(w) \/ \E s \in Runs : Reuse(w, s)
    BY DEF Next
  <2>4. CASE runs' = runs
    BY <2>1, <2>4 DEF Believed
  <2>5. CASE pc[w] # "idle" /\ \A s \in Runs \ {job[w]} : runs'[s] = runs[s]
    <3>1. r # job[w]
      BY <2>2, <2>5 DEF RunningInv
    <3> QED BY <2>1, <2>5, <3>1 DEF Believed
  <2>6. CASE CloseRow(w)
    <3>1. pc[w] # "idle" /\ \A s \in Runs \ {job[w]} : runs'[s] = runs[s]
      BY <2>6 DEF CloseRow, TypeOK
    <3> QED BY <2>5, <3>1
  <2>7. CASE Discard(w)
    <3>1. pc[w] # "idle" /\ \A s \in Runs \ {job[w]} : runs'[s] = runs[s]
      BY <2>7 DEF Discard, TypeOK
    <3> QED BY <2>5, <3>1
  <2>8. CASE /\ pc[w] = "opening"
             /\ \E status \in {"RUNNING", "ABSENT"}, n \in {0, Asked(job[w])} :
                   runs' = [runs EXCEPT ![job[w]] = RunRow(status, n)]
    <3>1. \A s \in Runs \ {job[w]} : runs'[s] = runs[s]
      BY <2>8 DEF TypeOK
    <3> QED BY <2>5, <2>8, <3>1
  <2> QED BY <2>3, <2>4, <2>6, <2>7, <2>8, RowSteps
<1>2. LedgerInv => TypeOK
  BY DEF LedgerInv
<1> QED BY <1>1, <1>2, LedgerInvariant, RunningInvariant, CompletedInvariant, PTL DEF Spec, BeliefIsKept

\* What a step does to the decompositions.
LEMMA MemberSteps ==
    ASSUME NEW w \in Workers, Work(w) \/ Fault(w) \/ \E r \in Runs : Reuse(w, r)
    PROVE  \/ cleared' = cleared /\ members' = members
           \/ \E c \in Credits : WriteCleared(w, c) \/ InterruptClear(w, c)
<1>1. CASE Work(w)
  BY <1>1 DEF Work, LookUp, OpenRow, Snapshot, Skip, RaiseTrace, Flag, CheckPrior, RefuseClear,
              ReadHead, Insert, InsertRefused, EndLoop, CountCoverage, CloseRow, Discard, tables
<1>2. CASE Fault(w)
  BY <1>2 DEF Fault, Kill, Fail, InterruptOpen, InterruptDiscard, tables
<1>3. CASE \E r \in Runs : Reuse(w, r)
  BY <1>3 DEF Reuse, vars, tables
<1> QED BY <1>1, <1>2, <1>3

\* Who comes to the clearing step, and who stays there.
LEMMA ClearingSteps ==
    ASSUME TypeOK, NEW w \in Workers, Work(w) \/ Fault(w) \/ \E r \in Runs : Reuse(w, r),
           pc'[w] = "clearing"
    PROVE  \/ \E c \in Credits : CheckPrior(w, c)
           \/ UNCHANGED vars
<1>1. CASE Work(w)
  BY <1>1 DEF Work, LookUp, OpenRow, Snapshot, Skip, RaiseTrace, Flag, RefuseClear, WriteCleared,
              ReadHead, Insert, InsertRefused, EndLoop, CountCoverage, CloseRow, Discard, Leave, Goto,
              TypeOK
<1>2. CASE Fault(w)
  BY <1>2 DEF Fault, Kill, Fail, InterruptOpen, InterruptClear, InterruptDiscard, Leave, Goto, TypeOK
<1>3. CASE \E r \in Runs : Reuse(w, r)
  BY <1>3 DEF Reuse
<1> QED BY <1>1, <1>2, <1>3

\* What CheckPrior found, and what it found stored.
LEMMA CheckPriorFinds ==
    ASSUME TypeOK, NEW w \in Workers, NEW c \in Credits, CheckPrior(w, c)
    PROVE  /\ Explains(c, found'[w]) /\ ~ Conflicts(c, found'[w]) /\ prior'[w] = members[c]
           /\ At(w, c) /\ UNCHANGED << job, pos, cleared, members >>
<1>1. PICK x \in Feasible(w, c) : /\ Unique(w, c, x) /\ ~ Conflicts(c, x.members)
                                  /\ found' = [found EXCEPT ![w] = x.members]
  BY DEF CheckPrior
<1>2. x \in Explanations[job[w]][c] /\ job[w] \in Runs
  BY <1>1 DEF Feasible, Left, TypeOK
<1>3. Explains(c, x.members)
  BY <1>2 DEF Explains
<1> QED BY <1>1, <1>3 DEF CheckPrior, Reaches, tables, TypeOK

LEMMA AtIsListed ==
    ASSUME TypeOK, NEW w \in Workers, NEW c, At(w, c)
    PROVE  c \in Listed(job[w])
BY AskedIsNat DEF At, Listed, TypeOK

\* Whose turn it is to execute a run is settled when it is looked up.
LEMMA ServesSteps ==
    ASSUME TypeOK, \A v \in Workers : pc[v] # "idle" => job[v] \in Serves[v], [Next]_vars
    PROVE  (\A v \in Workers : pc[v] # "idle" => job[v] \in Serves[v])'
<1>1. CASE UNCHANGED vars
  BY <1>1 DEF vars, locals
<1>2. ASSUME NEW w \in Workers, Work(w) \/ Fault(w) \/ \E r \in Runs : Reuse(w, r)
      PROVE  (\A v \in Workers : pc[v] # "idle" => job[v] \in Serves[v])'
  <2> SUFFICES ASSUME pc'[w] # "idle" PROVE job'[w] \in Serves[w]
    BY <1>2, OthersStay DEF Stays
  <2>1. CASE \E r \in Runs : LookUp(w, r)
    BY <2>1 DEF LookUp, TypeOK
  <2>2. CASE job' = job /\ pc[w] # "idle"
    BY <2>2
  <2>3. CASE UNCHANGED vars
    BY <2>3 DEF vars, locals
  <2>4. CASE Work(w)
    BY <2>1, <2>2, <2>4
    DEF Work, OpenRow, Snapshot, Skip, RaiseTrace, Flag, CheckPrior, RefuseClear, Reaches, WriteCleared,
        ReadHead, Insert, InsertRefused, EndLoop, CountCoverage, CloseRow, Discard
  <2>5. CASE Fault(w)
    BY <2>2, <2>5 DEF Fault, Kill, Fail, InterruptOpen, InterruptClear, InterruptDiscard
  <2> QED BY <1>2, <2>3, <2>4, <2>5 DEF Reuse
<1> QED BY <1>1, <1>2 DEF Next

\* Two workers are never at one credit if they share none.
LEMMA SeparateAt ==
    ASSUME TypeOK, ClearingInv, Separate, NEW v \in Workers, NEW w \in Workers, v # w,
           pc[v] # "idle", pc[w] # "idle", NEW c \in Credits, At(v, c)
    PROVE  ~ At(w, c)
<1> SUFFICES ASSUME At(w, c) PROVE FALSE
  OBVIOUS
<1>1. c \in Listed(job[v]) \cap Listed(job[w])
  BY AtIsListed
<1> QED BY <1>1 DEF ClearingInv, Separate

LEMMA ClearingStep ==
    ASSUME TypeOK, ClearingInv, [Next]_vars
    PROVE  ClearingInv'
<1>1. CASE UNCHANGED vars
  BY <1>1 DEF vars, tables, locals, ClearingInv, At, Asked
<1>2. ASSUME NEW w \in Workers, Work(w) \/ Fault(w) \/ \E r \in Runs : Reuse(w, r)
      PROVE  ClearingInv'
  <2>1. (\A v \in Workers : pc[v] # "idle" => job[v] \in Serves[v])'
    BY ServesSteps DEF ClearingInv
  <2>2. \A d \in Credits : WriteCleared(w, d) \/ InterruptClear(w, d) =>
            /\ pc[w] = "clearing" /\ At(w, d) /\ cleared' = cleared \cup {d}
            /\ \A c \in Credits \ {d} : members'[c] = members[c]
    BY DEF WriteCleared, InterruptClear, TypeOK
  <2>3. ASSUME NEW c \in Credits, c \notin cleared' PROVE members'[c] = {}
    <3>1. cleared \subseteq cleared'
      BY DecisionsStay
    <3>2. c \notin cleared /\ members[c] = {}
      BY <2>3, <3>1 DEF ClearingInv
    <3>3. CASE members' = members
      BY <3>2, <3>3
    <3>4. ASSUME NEW d \in Credits, WriteCleared(w, d) \/ InterruptClear(w, d)
          PROVE  members'[c] = {}
      BY <2>2, <2>3, <3>2, <3>4
    <3> QED BY <1>2, <3>3, <3>4, MemberSteps
  <2>4. ASSUME NEW v \in Workers, pc'[v] = "clearing", NEW c \in Credits, At(v, c)'
        PROVE  prior'[v] \in {{}, found'[v]} /\ (Separate => prior'[v] = members'[c])
    <3>1. CASE UNCHANGED vars
      BY <2>4, <3>1 DEF vars, tables, locals, ClearingInv, At, Asked
    <3>2. ASSUME NEW d \in Credits, CheckPrior(w, d), v = w
          PROVE  prior'[v] \in {{}, found'[v]} /\ (Separate => prior'[v] = members'[c])
      <4>1. /\ ~ Conflicts(d, found'[w]) /\ prior'[w] = members[d]
            /\ At(w, d) /\ UNCHANGED << job, pos, cleared, members >>
        BY <3>2, CheckPriorFinds
      <4>2. c = d
        BY <2>4, <3>2, <4>1 DEF At, Asked
      <4>3. members[c] = {} \/ members[c] = found'[w]
        BY <4>1, <4>2 DEF Conflicts, ClearingInv
      <4> QED BY <3>2, <4>1, <4>2, <4>3
    <3>3. CASE v # w
      <4>1. Stays(v) /\ pc[v] = "clearing" /\ At(v, c)
        BY <1>2, <2>4, <3>3, OthersStay DEF Stays, At, Asked
      <4>2. prior[v] \in {{}, found[v]} /\ (Separate => prior[v] = members[c])
        BY <4>1 DEF ClearingInv
      <4>3. Separate => members'[c] = members[c]
        <5>1. CASE members' = members
          BY <5>1
        <5>2. ASSUME NEW d \in Credits, WriteCleared(w, d) \/ InterruptClear(w, d), Separate
              PROVE  members'[c] = members[c]
          <6>1. c # d
            BY <2>2, <3>3, <4>1, <5>2, SeparateAt
          <6> QED BY <2>2, <5>2, <6>1
        <5> QED BY <1>2, <5>1, <5>2, MemberSteps
      <4> QED BY <4>1, <4>2, <4>3 DEF Stays
    <3> QED BY <1>2, <2>4, <3>1, <3>2, <3>3, ClearingSteps
  <2> QED BY <2>1, <2>3, <2>4 DEF ClearingInv
<1> QED BY <1>1, <1>2 DEF Next

LEMMA ClearingInit == Init => ClearingInv
BY DEF Init, ClearingInv

LEMMA ClearingInvariant == Spec => []ClearingInv
<1>1. LedgerInv /\ ClearingInv /\ [Next]_vars => ClearingInv'
  BY ClearingStep DEF LedgerInv
<1> QED BY <1>1, ClearingInit, LedgerInvariant, PTL DEF Spec

\* What is written is what was found stored, whole or, interrupted, in part.
LEMMA RewritesItself ==
    ASSUME TypeOK, ClearingInv, NEW w \in Workers, NEW c \in cleared, NEW d \in Credits,
           WriteCleared(w, d) \/ InterruptClear(w, d),
           members[c] \notin {{}, members'[c]}
    PROVE  Truncated(c) \/ (~ Separate /\ Overtaken(c))
<1>1. pc[w] = "clearing" /\ At(w, d)
  BY DEF WriteCleared, InterruptClear
<1>2. c = d
  BY DEF WriteCleared, InterruptClear, TypeOK
<1>3. prior[w] \in {{}, found[w]} /\ (Separate => prior[w] = members[c])
  BY <1>1, <1>2 DEF ClearingInv
<1>4. CASE prior[w] # members[c]
  BY <1>1, <1>2, <1>3, <1>4 DEF Overtaken
<1>5. CASE prior[w] = members[c]
  <2>1. found[w] = members[c]
    BY <1>3, <1>5
  <2>2. ~ WriteCleared(w, d)
    BY <1>2, <2>1 DEF WriteCleared, TypeOK
  <2>3. CloseCommits /\ \E k \in found[w] : members'[c] = {i \in found[w] : i < k}
    BY <1>2, <2>2 DEF InterruptClear, TypeOK
  <2> QED BY <2>1, <2>3 DEF Truncated
<1> QED BY <1>4, <1>5

\* A stored decomposition is never replaced by another one, although write_cleared reads
\* what is stored and replaces it later (verify.py:109), for any configurations, orders
\* and faults, on both backends: except by a worker overtaken by another one that decides
\* the same credit, and never when no two workers do.
THEOREM ClearedHolds == Spec => ClearedIsFinal
<1> DEFINE Final == \A c \in cleared : members[c] \notin {{}, members'[c]} =>
                        Truncated(c) \/ (~ Separate /\ Overtaken(c))
<1>1. LedgerInv /\ ClearingInv /\ [Next]_vars => [Final]_vars
  <2> SUFFICES ASSUME TypeOK, ClearingInv, Next, NEW c \in cleared, members[c] \notin {{}, members'[c]}
               PROVE  Truncated(c) \/ (~ Separate /\ Overtaken(c))
    BY DEF LedgerInv
  <2>1. PICK w \in Workers : Work(w) \/ Fault(w) \/ \E r \in Runs : Reuse(w, r)
    BY DEF Next
  <2>2. PICK d \in Credits : WriteCleared(w, d) \/ InterruptClear(w, d)
    BY <2>1, MemberSteps
  <2> QED BY <2>2, RewritesItself
<1> HIDE DEF Final
<1>2. Spec => [][Final]_vars
  BY <1>1, ClearingInvariant, LedgerInvariant, PTL DEF Spec
<1> QED BY <1>2 DEF Final, ClearedIsFinal

\* An interrupted clear tears a decomposition that no entry, written or on its way, is about.
LEMMA TearsNothing ==
    ASSUME LedgerInv, RunningInv, ResumeInv, Separate, NEW w \in Workers, NEW c \in Credits,
           InterruptClear(w, c)
    PROVE  /\ \A e \in audit : e.payload.credit = c => e.payload.verdict # Cleared
           /\ \A p \in pending : p.row.payload.credit # c
           /\ \A v \in Workers : pc[v] = "appending" => ~ At(v, c)
<1>1. pc[w] = "clearing" /\ At(w, c) /\ TypeOK /\ job[w] \in Serves[w]
  BY DEF InterruptClear, LedgerInv, RunningInv
<1>2. c \notin seen[w] /\ Skips(w)
  BY <1>1 DEF ResumeInv, Resumes
<1>3. pos[w] \in pos[w] .. Asked(job[w]) /\ CreditsOf[job[w]][pos[w]] = c
  BY <1>1, AskedIsNat DEF At, TypeOK
<1>4. ASSUME NEW e \in audit, e.payload.credit = c PROVE e.payload.verdict # Cleared
  BY <1>2, <1>3, <1>4, VerdictsDiffer DEF Skips, Counts
<1>5. ASSUME NEW v \in Workers, pc[v] \in {"appending", "inserting"} PROVE ~ At(v, c)
  <2> SUFFICES ASSUME At(v, c) PROVE FALSE
    OBVIOUS
  <2>1. v # w /\ job[v] \in Serves[v]
    BY <1>1, <1>5 DEF RunningInv
  <2>2. c \in Listed(job[v]) \cap Listed(job[w])
    BY <1>1, AtIsListed
  <2> QED BY <1>1, <2>1, <2>2 DEF Separate
<1>6. ASSUME NEW p \in pending PROVE p.row.payload.credit # c
  <2>1. p.writer \in Workers /\ pc[p.writer] = "inserting" /\ At(p.writer, p.row.payload.credit)
    BY DEF LedgerInv, TypeOK, PendingInv, ResumeInv, InFlight
  <2> QED BY <1>5, <2>1
<1> QED BY <1>4, <1>5, <1>6

\* Any other step leaves a credit with an explanation that had one.
LEMMA ExplainedStays ==
    ASSUME TypeOK, WholeInv, NEW w \in Workers, Work(w) \/ Fault(w) \/ \E r \in Runs : Reuse(w, r),
           NEW c \in Credits, ~ InterruptClear(w, c), Explains(c, members[c])
    PROVE  Explains(c, members'[c])
<1>1. CASE members' = members
  BY <1>1
<1>2. ASSUME NEW d \in Credits, WriteCleared(w, d) PROVE Explains(c, members'[c])
  <2>1. Explains(d, found[w]) /\ members' = [members EXCEPT ![d] = found[w]]
    BY <1>2 DEF WriteCleared, WholeInv
  <2> QED BY <2>1 DEF TypeOK
<1>3. ASSUME NEW d \in Credits, InterruptClear(w, d) PROVE Explains(c, members'[c])
  <2>1. c # d
    BY <1>3
  <2>2. members'[c] = members[c]
    BY <1>3, <2>1 DEF InterruptClear, TypeOK
  <2> QED BY <2>2
<1> QED BY <1>1, <1>2, <1>3, MemberSteps

\* What holds of an entry after the step.
StoredNext(payload) == payload.verdict = Cleared => Explains(payload.credit, members'[payload.credit])

\* Who comes to the appending step.
LEMMA AppendingSteps ==
    ASSUME TypeOK, NEW w \in Workers, Work(w) \/ Fault(w) \/ \E r \in Runs : Reuse(w, r),
           pc'[w] = "appending"
    PROVE  \/ verdict'[w] # Cleared
           \/ \E c \in Credits : WriteCleared(w, c)
           \/ UNCHANGED vars
<1>1. CASE Work(w)
  BY <1>1, VerdictsDiffer
  DEF Work, LookUp, OpenRow, Snapshot, Skip, RaiseTrace, Flag, CheckPrior, RefuseClear, Reaches,
      ReadHead, Insert, InsertRefused, EndLoop, CountCoverage, CloseRow, Discard, Leave, Goto, TypeOK
<1>2. CASE Fault(w)
  BY <1>2 DEF Fault, Kill, Fail, InterruptOpen, InterruptClear, InterruptDiscard, Leave, Goto, TypeOK
<1>3. CASE \E r \in Runs : Reuse(w, r)
  BY <1>3 DEF Reuse
<1> QED BY <1>1, <1>2, <1>3

LEMMA WholeStep ==
    ASSUME LedgerInv, WholeInv, ~ CloseCommits \/ (Separate /\ RunningInv /\ ResumeInv), [Next]_vars
    PROVE  WholeInv'
<1>0. TypeOK
  BY DEF LedgerInv
<1>1. CASE UNCHANGED vars
  BY <1>1 DEF vars, tables, locals, WholeInv, Stored, At, Asked
<1>2. ASSUME NEW w \in Workers, Work(w) \/ Fault(w) \/ \E r \in Runs : Reuse(w, r)
      PROVE  WholeInv'
  <2>1. ASSUME NEW payload \in Payloads, Stored(payload),
               ~ (payload.verdict = Cleared /\ InterruptClear(w, payload.credit))
        PROVE  StoredNext(payload)
    BY <1>0, <1>2, <2>1, ExplainedStays DEF Stored, StoredNext, Payloads
  <2>2. ASSUME NEW e \in audit PROVE StoredNext(e.payload)
    <3>1. e.payload \in Payloads /\ Stored(e.payload)
      BY <1>0 DEF TypeOK, Rows, WholeInv
    <3>2. ~ (e.payload.verdict = Cleared /\ InterruptClear(w, e.payload.credit))
      BY <3>1, TearsNothing DEF Payloads, InterruptClear
    <3> QED BY <2>1, <3>1, <3>2
  <2>3. ASSUME NEW p \in pending PROVE StoredNext(p.row.payload)
    <3>1. p.row.payload \in Payloads /\ Stored(p.row.payload)
      BY <1>0 DEF TypeOK, Rows, WholeInv
    <3>2. ~ InterruptClear(w, p.row.payload.credit)
      BY <3>1, TearsNothing DEF Payloads, InterruptClear
    <3> QED BY <2>1, <3>1, <3>2
  <2>4. ASSUME NEW v \in Workers, NEW c \in Credits, At(v, c), pc[v] = "appending"
        PROVE  StoredNext([credit |-> c, verdict |-> verdict[v]])
    <3> DEFINE payload == [credit |-> c, verdict |-> verdict[v]]
    <3>1. payload \in Payloads /\ Stored(payload) /\ payload.credit = c
      BY <1>0, <2>4 DEF TypeOK, Payloads, WholeInv
    <3>2. ~ InterruptClear(w, c)
      BY <2>4, TearsNothing DEF InterruptClear
    <3> HIDE DEF payload
    <3>3. StoredNext(payload)
      BY <2>1, <3>1, <3>2
    <3> QED BY <3>3 DEF payload
  <2>5. ASSUME NEW v \in Workers, NEW c \in Credits, At(v, c)', pc'[v] = "clearing"
        PROVE  Explains(c, found'[v])
    <3>1. CASE v # w
      <4>1. Stays(v) /\ At(v, c) /\ pc[v] = "clearing"
        BY <1>0, <1>2, <2>5, <3>1, OthersStay DEF Stays, At, Asked
      <4> QED BY <4>1 DEF WholeInv, Stays
    <3>2. ASSUME NEW d \in Credits, CheckPrior(w, d), v = w PROVE Explains(c, found'[v])
      <4>1. Explains(d, found'[w]) /\ At(w, d) /\ UNCHANGED << job, pos >>
        BY <1>0, <3>2, CheckPriorFinds
      <4>2. c = d
        BY <2>5, <3>2, <4>1 DEF At, Asked
      <4> QED BY <3>2, <4>1, <4>2
    <3>3. CASE UNCHANGED vars
      BY <2>5, <3>3 DEF vars, locals, WholeInv, At, Asked
    <3> QED BY <1>0, <1>2, <2>5, <3>1, <3>2, <3>3, ClearingSteps
  <2>6. ASSUME NEW v \in Workers, NEW c \in Credits, At(v, c)', pc'[v] = "appending"
        PROVE  StoredNext([credit |-> c, verdict |-> verdict'[v]])
    <3>1. CASE v # w
      <4>1. Stays(v) /\ At(v, c) /\ pc[v] = "appending"
        BY <1>0, <1>2, <2>6, <3>1, OthersStay DEF Stays, At, Asked
      <4> QED BY <2>4, <4>1 DEF Stays
    <3>2. CASE v = w /\ verdict'[w] # Cleared
      BY <3>2 DEF StoredNext
    <3>3. ASSUME NEW d \in Credits, WriteCleared(w, d), v = w
          PROVE  StoredNext([credit |-> c, verdict |-> verdict'[v]])
      <4>1. /\ Explains(d, found[w]) /\ members' = [members EXCEPT ![d] = found[w]]
            /\ At(w, d) /\ UNCHANGED << job, pos >>
        BY <3>3 DEF WriteCleared, WholeInv
      <4>2. c = d
        BY <2>6, <3>3, <4>1 DEF At, Asked
      <4> QED BY <1>0, <4>1, <4>2 DEF StoredNext, TypeOK
    <3>4. CASE UNCHANGED vars
      <4>1. At(v, c) /\ pc[v] = "appending" /\ verdict' = verdict
        BY <2>6, <3>4 DEF vars, locals, At, Asked
      <4> QED BY <2>4, <4>1
    <3> QED BY <1>0, <1>2, <2>6, <3>1, <3>2, <3>3, <3>4, AppendingSteps
  <2>7. ASSUME NEW p \in pending' PROVE StoredNext(p.row.payload)
    <3>1. CASE p \in pending
      BY <2>3, <3>1
    <3>2. ASSUME NEW c \in Credits, ReadHead(w, c), p \notin pending PROVE StoredNext(p.row.payload)
      <4>1. p.row.payload = [credit |-> c, verdict |-> verdict[w]]
        <5> DEFINE new(seq, prev) ==
              [writer |-> w,
               row |-> [seq |-> seq, run |-> job[w], prev |-> prev,
                        payload |-> [credit |-> c, verdict |-> verdict[w]]]]
        <5>1. PICK seq, prev : pending' = pending \cup {new(seq, prev)}
          BY <3>2 DEF ReadHead
        <5>2. new(seq, prev).row.payload = [credit |-> c, verdict |-> verdict[w]]
          OBVIOUS
        <5> HIDE DEF new
        <5> QED BY <3>2, <5>1, <5>2
      <4>2. At(w, c) /\ pc[w] = "appending"
        BY <3>2 DEF ReadHead
      <4> QED BY <2>4, <4>1, <4>2
    <3> QED BY <1>0, <1>2, <3>1, <3>2, FlightSteps
  <2>8. ASSUME NEW e \in audit' PROVE StoredNext(e.payload)
    <3>1. CASE e \in audit
      BY <2>2, <3>1
    <3>2. ASSUME NEW p \in pending, Insert(w, p), e \notin audit PROVE StoredNext(e.payload)
      <4>1. e = p.row
        BY <3>2 DEF Insert
      <4> QED BY <2>3, <4>1
    <3> QED BY <1>2, <3>1, <3>2, TableSteps DEF Without
  <2> QED BY <2>5, <2>6, <2>7, <2>8 DEF WholeInv, Stored, StoredNext
<1> QED BY <1>1, <1>2 DEF Next

LEMMA WholeInit == Init => WholeInv
BY DEF Init, WholeInv

LEMMA WholeInvariant == Separate \/ ~ CloseCommits => (Spec => []WholeInv)
<1>1. ASSUME ~ CloseCommits PROVE Spec => []WholeInv
  <2>1. LedgerInv /\ WholeInv /\ [Next]_vars => WholeInv'
    BY <1>1, WholeStep
  <2> QED BY <2>1, WholeInit, LedgerInvariant, PTL DEF Spec
<1>2. ASSUME Separate PROVE Spec => []WholeInv
  <2>1. LedgerInv /\ RunningInv /\ ResumeInv /\ WholeInv /\ [Next]_vars => WholeInv'
    BY <1>2, WholeStep
  <2>2. Spec => []RunningInv /\ []ResumeInv
    BY <1>2, RunningInvariant, ResumeInvariant, SeparateIsExclusive
  <2> QED BY <2>1, <2>2, WholeInit, LedgerInvariant, PTL DEF Spec
<1> QED BY <1>1, <1>2

\* With one worker per run: a run in execution is RUNNING and not complete, and the coverage
\* its worker counted stays true until the row is closed; what stands logged is not logged
\* again by whoever decides its credit, and the counts follow; and what is logged as cleared
\* is stored whole, across kills, failures, retries and the other workers' appends and
\* discards (runner.record_run, orchestrator.run_split).
THEOREM ExclusiveHolds == Exclusive => (Spec => []ExclusiveInv)
<1> SUFFICES ASSUME Exclusive PROVE Spec => []ExclusiveInv
  OBVIOUS
<1>1. Spec => []RunningInv /\ []ResumeInv /\ []CompletedInv
  BY RunningInvariant, ResumeInvariant, CompletedInvariant, PTL
<1>2. Spec => [](Separate \/ ~ CloseCommits => WholeInv)
  <2>1. CASE Separate \/ ~ CloseCommits
    <3>1. WholeInv => (Separate \/ ~ CloseCommits => WholeInv)
      OBVIOUS
    <3> QED BY <2>1, <3>1, WholeInvariant, PTL
  <2>2. CASE ~ (Separate \/ ~ CloseCommits)
    <3>1. (Separate \/ ~ CloseCommits => WholeInv) <=> TRUE
      BY <2>2
    <3> QED BY <3>1, PTL
  <2> QED BY <2>1, <2>2
<1>3. Spec => []ClearingInv
  BY ClearingInvariant
<1>4. /\ RunningInv /\ ResumeInv /\ CompletedInv /\ ClearingInv
      /\ Separate \/ ~ CloseCommits => WholeInv
      => ExclusiveInv
  BY DEF ExclusiveInv
<1> QED BY <1>1, <1>2, <1>3, <1>4, PTL

-----------------------------------------------------------------------------
(***************************************************************************)
(* A call comes to an end.                                                 *)
(***************************************************************************)

Handling == {"clearing", "appending", "inserting"}

\* What is left of the call a worker is in: four steps for each credit not reached, and
\* what follows them.
Remaining(w) == Asked(job[w]) + 1 - pos[w]
Todo(w) ==
    CASE pc[w] = "idle"       -> 0
      [] pc[w] = "discarding" -> 1
      [] pc[w] = "closing"    -> 2
      [] pc[w] = "counting"   -> 3
      [] pc[w] = "inserting"  -> 4 * Remaining(w) + 1
      [] pc[w] = "appending"  -> 4 * Remaining(w) + 2
      [] pc[w] = "clearing"   -> 4 * Remaining(w) + 3
      [] pc[w] = "looping"    -> 4 * Remaining(w) + 4
      [] pc[w] = "loading"    -> 4 * Remaining(w) + 5
      [] pc[w] = "opening"    -> 4 * Remaining(w) + 6

\* The place of a worker in its credits.
PlaceInv ==
    \A w \in Workers :
        /\ pos[w] \in Nat \ {0} /\ pos[w] <= Asked(job[w]) + 1
        /\ pc[w] \in {"idle", "opening", "loading"} => pos[w] = 1
        /\ pc[w] \in Handling => pos[w] <= Asked(job[w])

\* What a step of a worker does to its place and its label.
LEMMA PlaceSteps ==
    ASSUME TypeOK, PlaceInv, NEW w \in Workers, Work(w) \/ Fault(w)
    PROVE  /\ \A v \in Workers \ {w} : pc'[v] = pc[v] /\ pos'[v] = pos[v] /\ job'[v] = job[v]
           /\ \/ pc[w] = "idle" /\ pc'[w] = "opening" /\ pos'[w] = pos[w]
              \/ pc[w] # "idle" /\ pc'[w] = "idle" /\ pos'[w] = 1 /\ job'[w] = job[w]
              \/ /\ job'[w] = job[w] /\ pos'[w] = pos[w]
                 /\ << pc[w], pc'[w] >> \in
                       {<< "opening", "loading" >>, << "loading", "looping" >>,
                        << "counting", "closing" >>}
              \/ /\ job'[w] = job[w] /\ pos'[w] = pos[w] /\ pos[w] <= Asked(job[w])
                 /\ << pc[w], pc'[w] >> \in
                       {<< "looping", "appending" >>, << "looping", "clearing" >>,
                        << "clearing", "appending" >>, << "appending", "inserting" >>}
              \/ /\ job'[w] = job[w] /\ pos'[w] = pos[w] /\ pos[w] > Asked(job[w])
                 /\ pc[w] = "looping" /\ pc'[w] = "counting"
              \/ /\ job'[w] = job[w] /\ pos'[w] = pos[w] + 1 /\ pos[w] <= Asked(job[w])
                 /\ pc[w] \in {"looping", "inserting"} /\ pc'[w] = "looping"
              \/ /\ job'[w] = job[w] /\ pos'[w] = pos[w]
                 /\ pc[w] \in {"loading", "looping"} \cup Handling /\ pc'[w] = "discarding"
<1> USE DEF TypeOK, Goto, Handling
<1>1. ASSUME NEW r \in Runs, LookUp(w, r)
      PROVE  /\ \A v \in Workers \ {w} : pc'[v] = pc[v] /\ pos'[v] = pos[v] /\ job'[v] = job[v]
             /\ pc[w] = "idle" /\ pc'[w] = "opening" /\ pos'[w] = pos[w]
  BY <1>1 DEF LookUp
<1>2. CASE OpenRow(w) \/ Snapshot(w) \/ CountCoverage(w)
  BY <1>2 DEF OpenRow, Snapshot, CountCoverage
<1>3. ASSUME NEW c \in Credits, RaiseTrace(w, c) \/ Flag(w, c) \/ CheckPrior(w, c)
      PROVE  /\ \A v \in Workers \ {w} : pc'[v] = pc[v] /\ pos'[v] = pos[v] /\ job'[v] = job[v]
             /\ job'[w] = job[w] /\ pos'[w] = pos[w] /\ pos[w] <= Asked(job[w])
             /\ pc[w] = "looping" /\ pc'[w] \in {"appending", "clearing"}
  BY <1>3 DEF RaiseTrace, Flag, CheckPrior, Reaches, At
<1>4. ASSUME NEW c \in Credits, WriteCleared(w, c) \/ ReadHead(w, c)
      PROVE  /\ \A v \in Workers \ {w} : pc'[v] = pc[v] /\ pos'[v] = pos[v] /\ job'[v] = job[v]
             /\ job'[w] = job[w] /\ pos'[w] = pos[w] /\ pos[w] <= Asked(job[w])
             /\ << pc[w], pc'[w] >> \in
                   {<< "clearing", "appending" >>, << "appending", "inserting" >>}
  BY <1>4 DEF WriteCleared, ReadHead, At
<1>5. CASE EndLoop(w)
  BY <1>5 DEF EndLoop
<1>6. ASSUME NEW c \in Credits, Skip(w, c)
      PROVE  /\ \A v \in Workers \ {w} : pc'[v] = pc[v] /\ pos'[v] = pos[v] /\ job'[v] = job[v]
             /\ job'[w] = job[w] /\ pos'[w] = pos[w] + 1 /\ pos[w] <= Asked(job[w])
             /\ pc[w] = "looping" /\ pc'[w] = "looping"
  BY <1>6 DEF Skip, At
<1>7. ASSUME NEW p \in pending, Insert(w, p)
      PROVE  /\ \A v \in Workers \ {w} : pc'[v] = pc[v] /\ pos'[v] = pos[v] /\ job'[v] = job[v]
             /\ job'[w] = job[w] /\ pos'[w] = pos[w] + 1 /\ pos[w] <= Asked(job[w])
             /\ pc[w] = "inserting" /\ pc'[w] = "looping"
  BY <1>7 DEF Insert, PlaceInv
<1>8. ASSUME \/ \E c \in Credits : RefuseClear(w, c) \/ InterruptClear(w, c)
             \/ \E p \in pending : InsertRefused(w, p)
             \/ Fail(w)
      PROVE  /\ \A v \in Workers \ {w} : pc'[v] = pc[v] /\ pos'[v] = pos[v] /\ job'[v] = job[v]
             /\ job'[w] = job[w] /\ pos'[w] = pos[w]
             /\ pc[w] \in {"loading", "looping"} \cup Handling /\ pc'[w] = "discarding"
  BY <1>8 DEF RefuseClear, Reaches, InterruptClear, InsertRefused, Fail
<1>9. CASE CloseRow(w) \/ Discard(w) \/ Kill(w) \/ InterruptOpen(w) \/ InterruptDiscard(w)
  BY <1>9 DEF CloseRow, Discard, Kill, InterruptOpen, InterruptDiscard, Leave
<1> QED BY <1>1, <1>2, <1>3, <1>4, <1>5, <1>6, <1>7, <1>8, <1>9 DEF Work, Fault

LEMMA PlaceInit == Init => PlaceInv
<1> SUFFICES ASSUME Init PROVE PlaceInv
  OBVIOUS
<1>1. \A w \in Workers : Asked(job[w]) \in Nat
  BY LedgerInit, AskedIsNat DEF LedgerInv, TypeOK
<1> QED BY <1>1 DEF Init, PlaceInv, Handling

\* The place keeps within the credits, and what is left shrinks with every step.
LEMMA PlaceStep ==
    ASSUME TypeOK, PlaceInv, NEW w \in Workers, Work(w) \/ Fault(w), job'[w] \in Runs
    PROVE  /\ PlaceInv'
           /\ pc[w] # "idle" => Todo(w)' < Todo(w)
           /\ \A v \in Workers \ {w} : Todo(v)' = Todo(v)
<1>1. /\ Asked(job[w]) \in Nat /\ Asked(job'[w]) \in Nat /\ pos[w] \in Nat \ {0}
      /\ pos[w] <= Asked(job[w]) + 1
      /\ pc[w] \in {"idle", "opening", "loading"} => pos[w] = 1
      /\ pc[w] \in Handling => pos[w] <= Asked(job[w])
  BY AskedIsNat DEF TypeOK, PlaceInv
<1>2. ASSUME NEW v \in Workers \ {w}
      PROVE  /\ Todo(v)' = Todo(v)
             /\ pos'[v] \in Nat \ {0} /\ pos'[v] <= Asked(job'[v]) + 1
             /\ pc'[v] \in {"idle", "opening", "loading"} => pos'[v] = 1
             /\ pc'[v] \in Handling => pos'[v] <= Asked(job'[v])
  <2>1. pc'[v] = pc[v] /\ pos'[v] = pos[v] /\ job'[v] = job[v]
    BY PlaceSteps
  <2> QED BY <2>1 DEF Todo, Remaining, Asked, PlaceInv
<1>3. /\ pos'[w] \in Nat \ {0} /\ pos'[w] <= Asked(job'[w]) + 1
      /\ pc'[w] \in {"idle", "opening", "loading"} => pos'[w] = 1
      /\ pc'[w] \in Handling => pos'[w] <= Asked(job'[w])
  BY <1>1, PlaceSteps DEF Handling
<1>4. ASSUME pc[w] # "idle" PROVE Todo(w)' < Todo(w)
  <2>1. Asked(job'[w]) = Asked(job[w]) /\ pos'[w] \in Nat
    BY <1>1, <1>4, PlaceSteps
  <2> DEFINE n == Asked(job[w])
  <2>2. Remaining(w) = n + 1 - pos[w] /\ Remaining(w)' = n + 1 - pos'[w]
    BY <2>1 DEF Remaining, Asked
  <2>3. n \in Nat /\ pos[w] \in Nat /\ pos[w] <= n + 1 /\ pos'[w] <= n + 1
    BY <1>1, <1>3, <2>1
  <2> HIDE DEF n
  <2>4. Remaining(w) \in Nat /\ Remaining(w)' \in Nat
    BY <2>1, <2>2, <2>3
  <2>5. pos'[w] = pos[w] => Remaining(w)' = Remaining(w)
    BY <2>2
  <2>6. pos'[w] = pos[w] + 1 => Remaining(w)' = Remaining(w) - 1
    BY <2>1, <2>2, <2>3
  <2>7. CASE pc'[w] = "idle"
    BY <1>1, <1>4, <2>4, <2>7 DEF Todo, TypeOK, PCs
  <2>8. CASE pc'[w] = "discarding"
    <3>1. pc[w] \in {"loading", "looping", "clearing", "appending", "inserting"}
      BY <1>4, <2>8, PlaceSteps DEF Handling
    <3>2. pc[w] = "inserting" => Remaining(w) >= 1
      BY <1>1, <2>2, <2>3 DEF Handling, n
    <3> QED BY <2>4, <2>8, <3>1, <3>2 DEF Todo
  <2>9. CASE pos'[w] = pos[w] /\ << pc[w], pc'[w] >> \in
               {<< "opening", "loading" >>, << "loading", "looping" >>, << "counting", "closing" >>,
                << "looping", "appending" >>, << "looping", "clearing" >>,
                << "clearing", "appending" >>, << "appending", "inserting" >>,
                << "looping", "counting" >>}
    BY <2>4, <2>5, <2>9 DEF Todo
  <2>10. CASE pos'[w] = pos[w] + 1 /\ pc[w] \in {"looping", "inserting"} /\ pc'[w] = "looping"
    BY <2>4, <2>6, <2>10 DEF Todo
  <2> QED BY <1>4, <2>7, <2>8, <2>9, <2>10, PlaceSteps
<1> QED BY <1>2, <1>3, <1>4 DEF PlaceInv, Asked

\* record_run ends: each step of a call, and each fault in it, takes from a number no
\* higher than its credits allow, and no step of another worker adds to it
\* (orchestrator.run_split reaches a credit once, whatever the tables say by then).
THEOREM CallsDescend ==
    Spec => /\ [](\A w \in Workers : Todo(w) \in 0 .. 4 * Asked(job[w]) + 6)
            /\ [][\A w \in Workers : Work(w) \/ Fault(w) =>
                      /\ pc[w] # "idle" => Todo(w)' < Todo(w)
                      /\ \A v \in Workers \ {w} : Todo(v)' = Todo(v)]_vars
<1> DEFINE Limit == \A w \in Workers : Todo(w) \in 0 .. 4 * Asked(job[w]) + 6
           Descent == \A w \in Workers : Work(w) \/ Fault(w) =>
                          /\ pc[w] # "idle" => Todo(w)' < Todo(w)
                          /\ \A v \in Workers \ {w} : Todo(v)' = Todo(v)
<1>1. Init => PlaceInv
  BY PlaceInit
<1>2. TypeOK /\ TypeOK' /\ PlaceInv /\ [Next]_vars => PlaceInv' /\ [Descent]_vars
  <2> SUFFICES ASSUME TypeOK, TypeOK', PlaceInv, [Next]_vars
               PROVE  PlaceInv' /\ [Descent]_vars
    OBVIOUS
  <2>1. Descent
    BY PlaceStep DEF TypeOK
  <2>2. CASE UNCHANGED vars \/ \E w \in Workers : \E r \in Runs : Reuse(w, r)
    BY <2>2 DEF Reuse, vars, locals, PlaceInv, Asked
  <2>3. CASE \E w \in Workers : Work(w) \/ Fault(w)
    BY <2>3, PlaceStep DEF TypeOK
  <2> QED BY <2>1, <2>2, <2>3 DEF Next
<1>3. TypeOK /\ PlaceInv => Limit
  <2> SUFFICES ASSUME TypeOK, PlaceInv, NEW w \in Workers
               PROVE  Todo(w) \in 0 .. 4 * Asked(job[w]) + 6
    OBVIOUS
  <2>1. /\ Asked(job[w]) \in Nat /\ pos[w] \in Nat \ {0} /\ pc[w] \in PCs
        /\ pos[w] <= Asked(job[w]) + 1
    BY AskedIsNat DEF TypeOK, PlaceInv
  <2>2. Remaining(w) \in 0 .. Asked(job[w])
    BY <2>1 DEF Remaining
  <2> DEFINE n == Asked(job[w])
             m == Remaining(w)
  <2>3. Todo(w) \in {0, 1, 2, 3, 4 * m + 1, 4 * m + 2, 4 * m + 3, 4 * m + 4, 4 * m + 5, 4 * m + 6}
    BY <2>1 DEF Todo, PCs
  <2> HIDE DEF n, m
  <2> QED BY <2>1, <2>2, <2>3 DEF n, m
<1>4. LedgerInv => TypeOK
  BY DEF LedgerInv
<1> HIDE DEF Limit, Descent
<1>5. Spec => []Limit /\ [][Descent]_vars
  BY <1>1, <1>2, <1>3, <1>4, LedgerInvariant, PTL DEF Spec
<1> QED BY <1>5 DEF Limit, Descent

-----------------------------------------------------------------------------
(***************************************************************************)
(* The review desk beside the runs.                                        *)
(***************************************************************************)

\* Whatever the desk does, the runs behave as RunLedger says: it reads their tables only.
LEMMA DeskIsLedger == DeskSpec => Spec
<1>1. DeskInit => Init
  BY DEF DeskInit
<1>2. [DeskNext]_deskVars => [Next]_vars
  BY DEF DeskNext, deskVars
<1> QED BY <1>1, <1>2, PTL DEF DeskSpec, Spec

LEMMA PageTypes ==
    ASSUME TypeOK, page \in Pages
    PROVE  Audits \subseteq Payloads /\ exceptions \subseteq Credits
BY DEF TypeOK, Audits, Believable, Rows, Payloads

LEMMA DeskInitially == DeskInit => DeskInv
<1> SUFFICES ASSUME DeskInit PROVE DeskInv
  OBVIOUS
<1>1. LedgerInv
  BY LedgerInit DEF DeskInit
<1>2. DeskTypeOK
  BY <1>1 DEF DeskInit, DeskTypeOK, LedgerInv, Pages, Blank
<1>3. PageInv
  BY DEF DeskInit, PageInv, Blank, AutoCleared, Says
<1> QED BY <1>1, <1>2, <1>3 DEF DeskInv

\* The ways a page comes to be what it is: it stays, starts, or reads one table more.
Starts ==
    \/ page' = Blank
    \/ page'.audits = {} /\ page'.rows = {} /\ page'.kind # "batch"
    \/ page'.kind = "batch" /\ page'.at = "done" /\ page'.audits = {} /\ page'.counted = {}
    \/ page'.kind = "batch" /\ page'.at = "counting" /\ page'.audits = Audits /\ page'.counted = {}
CountsRows ==
    /\ page.at = "counting" /\ page'.at = "rows" /\ page'.kind = page.kind
    /\ page'.audits = page.audits /\ page'.rows = page.rows /\ page'.counted = exceptions
ReadsRows ==
    /\ page.at = "rows" /\ page'.kind = page.kind /\ page'.audits = page.audits
    /\ page'.counted = page.counted
    /\ page'.rows = exceptions
    /\ page'.at = IF page.kind = "batch" THEN "done" ELSE "audits"
ReadsAudits ==
    /\ page.at = "audits" /\ page'.kind = page.kind /\ page'.rows = page.rows
    /\ page'.audits = Audits

LEMMA PageSteps ==
    ASSUME TypeOK, page \in Pages, DeskStep
    PROVE  page' \in Pages /\ (page' = page \/ Starts \/ CountsRows \/ ReadsRows \/ ReadsAudits)
<1>1. CASE OpenBatch
  BY <1>1, PageTypes DEF OpenBatch, Shown, Blank, Pages, Starts
<1>2. CASE OpenQueue \/ OpenClose
  BY <1>2 DEF OpenQueue, OpenClose, Shown, Blank, Pages, Starts
<1>3. CASE ListRows
  BY <1>3, PageTypes DEF ListRows, Shown, Pages, ReadsRows
<1>4. CASE ReadAudits
  BY <1>4, PageTypes DEF ReadAudits, Shown, Pages, ReadsAudits
<1>5. CASE Restart
  BY <1>5 DEF Restart, Blank, Pages, Starts
<1>6. CASE CountRows
  BY <1>6, PageTypes DEF CountRows, Shown, Pages, CountsRows
<1> QED BY <1>1, <1>2, <1>3, <1>4, <1>5, <1>6 DEF DeskStep, Know, Record, Ingest

LEMMA DeskTypeStep ==
    ASSUME DeskTypeOK, TypeOK', [DeskNext]_deskVars
    PROVE  DeskTypeOK'
<1>1. CASE UNCHANGED desk
  BY <1>1 DEF desk, DeskTypeOK
<1>2. CASE DeskStep
  <2>1. page' \in Pages
    BY <1>2, PageSteps DEF DeskTypeOK
  <2>2. split' \in {"unread", "none", "read"}
    BY <1>2 DEF DeskTypeOK, DeskStep, OpenBatch, OpenQueue, OpenClose, CountRows, ListRows, ReadAudits, Shown,
                SplitNow, Loaded, Know, Record, Ingest, Restart
  <2>3. dataset' \in Datasets /\ ingested' \in BOOLEAN
    BY <1>2 DEF DeskTypeOK, DeskStep, OpenBatch, OpenQueue, OpenClose, CountRows, ListRows, ReadAudits, Rest,
                Know, Record, Ingest, Restart
  <2>4. checked' \subseteq [by : Reviewers, credit : Credits]
    BY <1>2 DEF DeskTypeOK, DeskStep, OpenBatch, OpenQueue, OpenClose, CountRows, ListRows, ReadAudits, Rest,
                Know, Record, Ingest, Restart
  <2>5. resolution' \in [Credits -> Reviewers \cup {Nobody}]
    BY <1>2 DEF DeskTypeOK, DeskStep, OpenBatch, OpenQueue, OpenClose, CountRows, ListRows, ReadAudits, Rest,
                Know, Record, Ingest, Restart
  <2> QED BY <2>1, <2>2, <2>3, <2>4, <2>5 DEF DeskTypeOK
<1> QED BY <1>1, <1>2 DEF DeskNext, deskVars

\* What the pages believe of the audit table has its row in the table it is about.
LEMMA BelievedIsWritten ==
    ASSUME LedgerInv, NEW d \in Audits
    PROVE  /\ d.verdict.disposition = "CLEARED" => d.credit \in cleared
           /\ d.verdict = Flagged => d.credit \in exceptions
<1>1. Written(d.verdict, d.credit) /\ d.verdict \in Verdicts
  BY DEF LedgerInv, WrittenInv, Audits, Believable, TypeOK, Rows, Payloads
<1> QED BY <1>1 DEF Written, Verdicts, Cleared, Flagged, Raised

LEMMA PageStep ==
    ASSUME DeskInv, [DeskNext]_deskVars
    PROVE  PageInv'
<1>0. TypeOK /\ page \in Pages /\ LedgerInv /\ PageInv
  BY DEF DeskInv, DeskTypeOK
<1>1. cleared \subseteq cleared' /\ exceptions \subseteq exceptions'
  BY DecisionsStay DEF DeskNext, deskVars
<1>2. CASE page' = page
  BY <1>0, <1>1, <1>2 DEF PageInv, AutoCleared, Says
<1>3. CASE DeskStep /\ UNCHANGED vars
  <2>1. UNCHANGED << cleared, exceptions >>
    BY <1>3 DEF vars, tables
  <2>2. \A d \in Audits : /\ d.verdict.disposition = "CLEARED" => d.credit \in cleared
                          /\ d.verdict = Flagged => d.credit \in exceptions
    BY <1>0, BelievedIsWritten
  <2>3. CASE Starts
    BY <2>1, <2>2, <2>3 DEF Starts, Blank, PageInv, AutoCleared, Says
  <2>4. CASE CountsRows \/ ReadsRows
    BY <1>0, <2>1, <2>4 DEF CountsRows, ReadsRows, PageInv, AutoCleared, Says
  <2>5. CASE ReadsAudits
    BY <1>0, <2>1, <2>2, <2>5 DEF ReadsAudits, PageInv, AutoCleared, Says
  <2> QED BY <1>0, <1>2, <1>3, <2>3, <2>4, <2>5, PageSteps
<1> QED BY <1>2, <1>3 DEF DeskNext, deskVars, desk

LEMMA DeskHolds == DeskSpec => []DeskInv
<1>1. DeskInv /\ [DeskNext]_deskVars => [Next]_vars
  BY DEF DeskNext, deskVars
<1>2. DeskInv /\ [DeskNext]_deskVars => DeskInv'
  <2> SUFFICES ASSUME DeskInv, [DeskNext]_deskVars PROVE DeskInv'
    OBVIOUS
  <2>1. LedgerInv'
    BY <1>1, LedgerStep DEF DeskInv
  <2>2. DeskTypeOK'
    BY <2>1, DeskTypeStep DEF DeskInv, LedgerInv
  <2> QED BY <2>1, <2>2, PageStep DEF DeskInv
<1> QED BY <1>2, DeskInitially, PTL DEF DeskSpec

\* The landing page loses no decision: a credit whose believed entry was flagged by a
\* decision is counted, and what is counted is listed on the same page, however runs
\* write, fail, are killed and are discarded between its three statements.
THEOREM FlaggedHolds == DeskSpec => []FlaggedIsListed
<1>1. DeskInv => FlaggedIsListed
  BY DEF DeskInv, PageInv, FlaggedIsListed
<1> QED BY <1>1, DeskHolds, PTL

\* A row the queue offers is accepted when the reviewer comes back to it: exceptions are
\* never deleted, and a table that has a row is found whatever the records are kept in.
THEOREM OfferedHolds == DeskSpec => []OfferedIsAccepted
<1>1. DeskInv => OfferedIsAccepted
  BY DEF DeskInv, PageInv, OfferedIsAccepted, HumanRows, Known, Connected, Untouched
<1> QED BY <1>1, DeskHolds, PTL

\* What a page gives out as cleared is cleared, and as long as an entry says so its stored
\* members are one of its explanations, whole, and every view of the journal that posts
\* what is stored, and refuses nothing, posts it: unless two workers decide the same credit
\* on a connection that commits when it is closed.
THEOREM AutoClearedHolds == Separate \/ ~ CloseCommits => (DeskSpec => []AutoClearedIsPosted)
<1> SUFFICES ASSUME Separate \/ ~ CloseCommits PROVE DeskSpec => []AutoClearedIsPosted
  OBVIOUS
<1>1. Spec => []WholeInv
  BY WholeInvariant
<1>2. DeskInv /\ WholeInv => AutoClearedIsPosted
  <2> SUFFICES ASSUME DeskInv, WholeInv, NEW c \in AutoCleared, Logged(c)
               PROVE  /\ Explains(c, members[c])
                      /\ SplitNow = "read" => \A view \in {"ops", "search"} :
                            c \in Posted(view) \/ Refused(view) \/ Overlaid(view)
    BY DEF DeskInv, PageInv, AutoClearedIsPosted
  <2>1. PICK e \in audit : e.payload = [credit |-> c, verdict |-> Cleared]
    BY DEF Logged
  <2>2. c \in Credits /\ c \in cleared /\ Connected
    BY <2>1 DEF AutoCleared, DeskInv, PageInv, Connected, Untouched
  <2>3. Explains(c, members[c])
    BY <2>1 DEF WholeInv, Stored
  <2>4. members[c] # {}
    BY <2>2, <2>3, LedgerConstants DEF Explains, Explanation
  <2> QED BY <2>2, <2>3, <2>4 DEF Posted, ClearedMembers
<1> QED BY <1>1, <1>2, DeskIsLedger, DeskHolds, PTL


-----------------------------------------------------------------------------
(***************************************************************************)
(* The ledger and its audit chain.                                         *)
(***************************************************************************)
AC == INSTANCE AuditChainProofs WITH Writers <- Workers

LEMMA ChainAssumption == AC!ChainConstants
BY LedgerConstants DEF AC!ChainConstants

\* The worker whose transaction ends has one row in flight, or none and no lock.
LEMMA RollBackChain ==
    ASSUME PendingInv, NEW w \in Workers, RollBack(w)
    PROVE  \/ pending' = pending /\ lock' = lock
           \/ \E p \in pending : pending' = pending \ {p} /\ lock' = lock \ {p.writer}
<1>1. CASE \E p \in pending : p.writer = w
  <2>1. PICK p \in pending : p.writer = w
    BY <1>1
  <2>2. pending' = pending \ {p}
    BY <2>1 DEF RollBack, PendingInv
  <2> QED BY <2>1, <2>2 DEF RollBack
<1>2. CASE ~ \E p \in pending : p.writer = w
  <2>1. pending' = pending
    BY <1>2 DEF RollBack
  <2>2. w \notin lock
    BY <1>2 DEF PendingInv
  <2> QED BY <2>1, <2>2 DEF RollBack
<1> QED BY <1>1, <1>2

\* Every step of the ledger is a step of its chain, or leaves the chain alone.
LEMMA ChainStep ==
    ASSUME TypeOK, PendingInv, [Next]_vars
    PROVE  [AC!ChainNext]_(AC!chainVars)
<1> DEFINE Quiet == UNCHANGED << audit, pending, lock, cut >>
<1>0. CASE UNCHANGED vars
  BY <1>0 DEF vars, tables, AC!chainVars
<1> SUFFICES ASSUME NEW w \in Workers, Work(w) \/ Fault(w) \/ \E r \in Runs : Reuse(w, r)
             PROVE  AC!ChainNext \/ Quiet
  BY <1>0 DEF Next, AC!chainVars
<1>1. ASSUME NEW c \in Credits, ReadHead(w, c) PROVE AC!ChainNext
  <2>1. [credit |-> c, verdict |-> verdict[w]] \in Payloads /\ job[w] \in Runs
    BY DEF Payloads, TypeOK
  <2>2. ~ AC!Busy(w)
    BY <1>1 DEF ReadHead, PendingInv, AC!Busy
  <2>3. AC!ReadHead(w, job[w], [credit |-> c, verdict |-> verdict[w]])
    BY <1>1, <2>2 DEF ReadHead, AC!ReadHead, AC!NewRow, Follows, AC!Follows, IsHead, AC!IsHead,
                      HashOf, AC!HashOf, EntryHash, AC!EntryHash, Genesis, AC!Genesis, tables
  <2> QED BY <2>1, <2>3 DEF AC!ChainNext
<1>2. ASSUME NEW p \in pending, Insert(w, p) PROVE AC!ChainNext
  <2>1. pending' = pending \ {p} /\ lock' = lock \ {p.writer}
    BY <1>2 DEF Insert, RollBack, PendingInv
  <2>2. AC!Insert(p)
    BY <1>2, <2>1 DEF Insert, AC!Insert, Collides, AC!Collides
  <2> QED BY <2>2 DEF AC!ChainNext
<1>3. ASSUME RollBack(w), audit' = audit, cut' = cut PROVE AC!ChainNext \/ Quiet
  BY <1>3, RollBackChain DEF AC!ChainNext, AC!Abandon
<1>4. ASSUME audit' = Without(audit, job[w]), cut' = (cut \/ Cuts(audit, audit', {p.row : p \in pending})),
             pending' = pending, lock' = lock
      PROVE  AC!ChainNext
  <2>1. AC!Discard(job[w])
    BY <1>4 DEF AC!Discard, Without, AC!Without, Cuts, AC!Cuts, AC!InFlight
  <2> QED BY <2>1 DEF AC!ChainNext, TypeOK
<1>5. CASE Work(w)
  <2>1. ASSUME NEW p \in pending, InsertRefused(w, p) PROVE AC!ChainNext \/ Quiet
    BY <2>1, <1>3 DEF InsertRefused, tables
  <2>2. CASE Discard(w)
    BY <2>2, <1>4 DEF Discard
  <2> QED
    BY <1>5, <1>1, <1>2, <2>1, <2>2
    DEF Work, LookUp, OpenRow, Snapshot, Skip, RaiseTrace, Flag, CheckPrior, RefuseClear,
        WriteCleared, EndLoop, CountCoverage, CloseRow, tables
<1>6. CASE Fault(w)
  <2>1. CASE Kill(w) \/ Fail(w)
    BY <2>1, <1>3 DEF Kill, Fail, tables
  <2>2. CASE InterruptDiscard(w)
    BY <2>2, <1>4 DEF InterruptDiscard
  <2> QED BY <1>6, <2>1, <2>2 DEF Fault, InterruptOpen, InterruptClear, tables
<1>7. CASE \E r \in Runs : Reuse(w, r)
  BY <1>7 DEF Reuse, vars, tables
<1> QED BY <1>5, <1>6, <1>7

LEMMA ChainRefinement == Spec => AC!ChainSpec
<1>1. Init => AC!ChainInit
  BY DEF Init, AC!ChainInit
<1>2. LedgerInv /\ [Next]_vars => [AC!ChainNext]_(AC!chainVars)
  BY ChainStep DEF LedgerInv
<1> QED BY <1>1, <1>2, LedgerInvariant, PTL DEF Spec, AC!ChainSpec

\* The runs of an organisation implement AuditChain: nothing record_run does to the
\* audit table is more than appending, abandoning an append, or discarding a run.
THEOREM LedgerImplementsChain == Spec => ImplementsAuditChain
<1>1. AC!ChainInit => Chain!ChainInit
  BY DEF AC!ChainInit, Chain!ChainInit
<1>2. [AC!ChainNext]_(AC!chainVars) => [Chain!ChainNext]_(Chain!chainVars)
  BY DEF AC!chainVars, Chain!chainVars, AC!ChainNext, Chain!ChainNext, AC!ReadHead, Chain!ReadHead,
         AC!Insert, Chain!Insert, AC!Abandon, Chain!Abandon, AC!Discard, Chain!Discard,
         AC!Busy, Chain!Busy, AC!NewRow, Chain!NewRow, AC!Follows, Chain!Follows,
         AC!IsHead, Chain!IsHead, AC!HashOf, Chain!HashOf, AC!EntryHash, Chain!EntryHash,
         AC!Genesis, Chain!Genesis, AC!Collides, Chain!Collides, AC!Without, Chain!Without,
         AC!Cuts, Chain!Cuts, AC!InFlight, Chain!InFlight
<1> QED BY <1>1, <1>2, ChainRefinement, PTL DEF AC!ChainSpec, Chain!ChainSpec, ImplementsAuditChain

\* So verify_chain accepts the table until the discard of a run cuts the chain: a theorem of AuditChain
\* carried over to record_run, for any workers, faults and interleaving.
THEOREM LedgerVerifiesUntilCut == Spec => []VerifiesUntilCut
<1>1. AC!ChainSpec => []AC!VerifiesUntilCut
  BY ChainAssumption, AC!ChainVerifiesUntilCut
<1>2. AC!VerifiesUntilCut => VerifiesUntilCut
  BY DEF VerifiesUntilCut, AC!VerifiesUntilCut, Verifies, AC!Verifies, Adjacent, AC!Adjacent,
         HashOf, AC!HashOf, EntryHash, AC!EntryHash, Genesis, AC!Genesis
<1> QED BY <1>1, <1>2, ChainRefinement, PTL
=============================================================================
