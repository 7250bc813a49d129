----------------------------- MODULE RunLedger ------------------------------
(***************************************************************************)
(* Recording a reconciliation run for one organisation.                    *)
(*                                                                         *)
(* A worker executes runner.record_run for a run identity: look the run    *)
(* up, open its row, take the snapshot of credits that already carry a     *)
(* result, walk the credits in order (orchestrator.run_split), persist     *)
(* each decision (exceptions.write_exception or verify.write_cleared, then *)
(* audit.append_entry, each on its own connection with its own commit),    *)
(* and close the row against the coverage counted from the audit rows.  A  *)
(* failure discards the run's audit rows; a killed process leaves whatever *)
(* it had committed.                                                       *)
(***************************************************************************)
EXTENDS AuditTable, FiniteSets

CONSTANTS
    Workers,        \* processes that may call record_run
    Runs,           \* run identities: organisation, dataset, configuration, limit
    Credits,        \* bank credit ids
    Items,          \* ledger item ids, ordered
    Serves,         \* [Workers -> SUBSET Runs]: the runs a worker is asked for
    CreditsOf,      \* [Runs -> Seq(Credits)]: the rows of the dataset, up to the limit
    Explanations,   \* [Runs -> [Credits -> SUBSET Explanation]]: what the search finds
    Raising,        \* [Runs -> SUBSET Credits]: credits whose gates raise
    Locking,        \* TRUE on PostgreSQL: append_entry takes the advisory lock
    CloseCommits,   \* TRUE on PostgreSQL: PgConnection.close commits what is open
    MaxSeq,         \* bound: no audit entry is numbered above it
    MaxFaults       \* bound: kills, failures and interrupts in a behaviour; once
                    \* refused inserts exceed it too, calls of record_run do not overlap

\* A decomposition of a credit: its members (verify_decomposition accepts no empty
\* set), and the parents of its refunds that are not members themselves.
Explanation == [members : (SUBSET Items) \ {{}}, needs : SUBSET Items]

ASSUME LedgerConstants ==
    /\ Runs # {}
    /\ Items \subseteq Nat
    /\ Serves \in [Workers -> SUBSET Runs]
    /\ CreditsOf \in [Runs -> Seq(Credits)]
    /\ Explanations \in [Runs -> [Credits -> SUBSET Explanation]]
    /\ Raising \in [Runs -> SUBSET Credits]
    /\ Locking \in BOOLEAN /\ CloseCommits \in BOOLEAN
    /\ MaxSeq \in Nat /\ MaxFaults \in Nat

VARIABLES
    audit,          \* audit_entry
    runs,           \* reconciliation_run
    cleared,        \* credits with a CLEARED reconciliation row
    members,        \* decomposition_member: the items stored for each credit
    exceptions,     \* the exception queue
    pending,        \* audit rows computed from the head and not yet inserted
    lock,           \* the worker holding the advisory lock
    pc, job,        \* where each worker is, and the run it executes
    pos, seen,      \* its place in the credits, its snapshot of seen_ids
    parents,        \* its cleared_parents
    found,          \* the members write_cleared is about to store
    prior,          \* the members it found stored when it looked
    verdict,        \* the disposition it is about to log, and the rule that gave it
    computed,       \* its n, the number of credits it computed
    tally,          \* the coverage complete_run counted
    faults,         \* history: faults and refused inserts so far
    cut             \* history: a deletion has cut the audit chain

tables == << audit, runs, cleared, members, exceptions >>
locals == << pc, job, pos, seen, parents, found, prior, verdict, computed, tally >>
vars == << tables, pending, lock, locals, faults, cut >>

\* A disposition and its matched_rule: trace_raised, or whatever decided the credit.
Cleared == [disposition |-> "CLEARED", rule |-> "decided"]
Flagged == [disposition |-> "FLAGGED", rule |-> "decided"]
Raised == [disposition |-> "FLAGGED", rule |-> "trace_raised"]
Verdicts == {Cleared, Flagged, Raised}

Payloads == [credit : Credits, verdict : Verdicts]
Rows == [seq : Nat, run : Runs, payload : Payloads, prev : Seq(Payloads)]
Statuses == {"ABSENT", "RUNNING", "COMPLETED", "PARTIAL", "FAILED"}
RunRows == [status : Statuses, nCredits : Nat, nComputed : Nat, nReused : Nat, nPersisted : Nat]
PCs == {"idle", "opening", "loading", "looping", "clearing", "appending",
        "inserting", "counting", "closing", "discarding"}

TypeOK ==
    /\ audit \subseteq Rows
    /\ runs \in [Runs -> RunRows]
    /\ cleared \subseteq Credits
    /\ members \in [Credits -> SUBSET Items]
    /\ exceptions \subseteq Credits
    /\ pending \subseteq [writer : Workers, row : Rows]
    /\ lock \subseteq Workers
    /\ pc \in [Workers -> PCs]
    /\ job \in [Workers -> Runs]
    /\ pos \in [Workers -> Nat \ {0}]
    /\ seen \in [Workers -> SUBSET Credits]
    /\ parents \in [Workers -> SUBSET Items]
    /\ found \in [Workers -> SUBSET Items]
    /\ prior \in [Workers -> SUBSET Items]
    /\ verdict \in [Workers -> Verdicts]
    /\ computed \in [Workers -> Nat]
    /\ tally \in [Workers -> Nat]
    /\ faults \in Nat
    /\ cut \in BOOLEAN

RunRow(status, credits) ==
    [status |-> status, nCredits |-> credits, nComputed |-> 0, nReused |-> 0, nPersisted |-> 0]

Init ==
    /\ audit = {}
    /\ runs = [r \in Runs |-> RunRow("ABSENT", 0)]
    /\ cleared = {}
    /\ members = [c \in Credits |-> {}]
    /\ exceptions = {}
    /\ pending = {}
    /\ lock = {}
    /\ pc = [w \in Workers |-> "idle"]
    /\ job = [w \in Workers |-> CHOOSE r \in Runs : TRUE]
    /\ pos = [w \in Workers |-> 1]
    /\ seen = [w \in Workers |-> {}]
    /\ parents = [w \in Workers |-> {}]
    /\ found = [w \in Workers |-> {}]
    /\ prior = [w \in Workers |-> {}]
    /\ verdict = [w \in Workers |-> Flagged]
    /\ computed = [w \in Workers |-> 0]
    /\ tally = [w \in Workers |-> 0]
    /\ faults = 0
    /\ cut = FALSE

-----------------------------------------------------------------------------
(***************************************************************************)
(* What the tables say.                                                    *)
(***************************************************************************)

\* persisted_coverage: COUNT(DISTINCT bank_credit_id) WHERE run_id = ?
Covered(r) == {e.payload.credit : e \in {row \in audit : row.run = r}}
Coverage(r) == Cardinality(Covered(r))

\* input_credit_count: the denominator, counted in rows of the bank statement.
Asked(r) == Len(CreditsOf[r])

\* find_run(...)["complete"]: coverage reached the dataset, by the row's own numbers.
Complete(r) == runs[r].nCredits # 0 /\ runs[r].nPersisted = runs[r].nCredits

(***************************************************************************)
(* Opening a run.                                                          *)
(***************************************************************************)

Goto(w, label) == pc' = [pc EXCEPT ![w] = label]

\* The process is done with record_run: everything it held in memory is gone.
Leave(w) ==
    /\ Goto(w, "idle")
    /\ pos' = [pos EXCEPT ![w] = 1]
    /\ seen' = [seen EXCEPT ![w] = {}]
    /\ parents' = [parents EXCEPT ![w] = {}]
    /\ found' = [found EXCEPT ![w] = {}]
    /\ prior' = [prior EXCEPT ![w] = {}]
    /\ verdict' = [verdict EXCEPT ![w] = Flagged]
    /\ computed' = [computed EXCEPT ![w] = 0]
    /\ tally' = [tally EXCEPT ![w] = 0]

\* The transaction a worker has open on the audit connection ends without a row.
RollBack(w) ==
    /\ pending' = {p \in pending : p.writer # w}
    /\ lock' = lock \ {w}

\* A run whose row is complete is returned as it is.
Reuse(w, r) ==
    /\ pc[w] = "idle" /\ r \in Serves[w]
    /\ Complete(r)
    /\ UNCHANGED vars

\* record_run looks the run up, and begin_run does so again before it writes; the
\* second look is the one that counts, and the write is a later statement.
LookUp(w, r) ==
    /\ pc[w] = "idle" /\ r \in Serves[w]
    /\ ~ Complete(r)
    /\ faults <= MaxFaults \/ \A v \in Workers : pc[v] = "idle"
    /\ Goto(w, "opening")
    /\ job' = [job EXCEPT ![w] = r]
    /\ UNCHANGED << tables, pending, lock, pos, seen, parents, found, prior, verdict,
                    computed, tally, faults, cut >>

\* begin_run: DELETE the row of an earlier attempt, INSERT a RUNNING one, commit.
OpenRow(w) ==
    /\ pc[w] = "opening"
    /\ runs' = [runs EXCEPT ![job[w]] = RunRow("RUNNING", Asked(job[w]))]
    /\ Goto(w, "loading")
    /\ UNCHANGED << audit, cleared, members, exceptions, pending, lock, job, pos, seen,
                    parents, found, prior, verdict, computed, tally, faults, cut >>

\* Mutant of Snapshot: seen_ids holds the credits of this run only.
SnapshotOwnRun(w) ==
    /\ pc[w] = "loading"
    /\ seen' = [seen EXCEPT ![w] = Covered(job[w])]
    /\ Goto(w, "looping")
    /\ UNCHANGED << tables, pending, lock, job, pos, parents, found, prior, verdict,
                    computed, tally, faults, cut >>

\* run_split: seen_ids is read once, from the audit rows of every run;
\* cleared_parents starts empty.
Snapshot(w) ==
    /\ pc[w] = "loading"
    /\ seen' = [seen EXCEPT ![w] = {e.payload.credit : e \in audit}]
    /\ Goto(w, "looping")
    /\ UNCHANGED << tables, pending, lock, job, pos, parents, found, prior, verdict,
                    computed, tally, faults, cut >>

-----------------------------------------------------------------------------
(***************************************************************************)
(* One credit.                                                             *)
(***************************************************************************)

At(w, c) ==
    /\ pos[w] <= Asked(job[w])
    /\ c = CreditsOf[job[w]][pos[w]]

Skip(w, c) ==
    /\ pc[w] = "looping" /\ At(w, c)
    /\ c \in seen[w]
    /\ pos' = [pos EXCEPT ![w] = @ + 1]
    /\ UNCHANGED << tables, pending, lock, pc, job, seen, parents, found, prior, verdict,
                    computed, tally, faults, cut >>

\* The explanations left for a credit when the sets cleared before hold the items held: a
\* single one stands by itself, several are filtered by disambiguate.
Left(r, c, held) ==
    LET all == Explanations[r][c]
    IN  IF \E x \in all : all = {x} THEN all
        ELSE {x \in all : x.needs \subseteq held}

\* refund_needs_parent reads cleared_parents.
Feasible(w, c) == Left(job[w], c, parents[w])

Unique(w, c, x) == Feasible(w, c) = {x}

Reaches(w, c) ==
    /\ pc[w] = "looping" /\ At(w, c)
    /\ c \notin seen[w]

\* A gate raised and F52 is on: a FLAGGED entry with rule trace_raised, no
\* exception row.
RaiseTrace(w, c) ==
    /\ Reaches(w, c) /\ c \in Raising[job[w]]
    /\ verdict' = [verdict EXCEPT ![w] = Raised]
    /\ Goto(w, "appending")
    /\ UNCHANGED << tables, pending, lock, job, pos, seen, parents, found, prior, computed,
                    tally, faults, cut >>

\* Mutant of Flag: the exception row is not written.
FlagUnwritten(w, c) ==
    /\ Reaches(w, c) /\ c \notin Raising[job[w]]
    /\ ~ \E x \in Feasible(w, c) : Unique(w, c, x)
    /\ verdict' = [verdict EXCEPT ![w] = Flagged]
    /\ Goto(w, "appending")
    /\ UNCHANGED << tables, pending, lock, job, pos, seen, parents, found, prior, computed,
                    tally, faults, cut >>

\* No unique explanation (FLAGGED and BUDGET_EXCEEDED alike): write_exception.
Flag(w, c) ==
    /\ Reaches(w, c) /\ c \notin Raising[job[w]]
    /\ ~ \E x \in Feasible(w, c) : Unique(w, c, x)
    /\ exceptions' = exceptions \cup {c}
    /\ verdict' = [verdict EXCEPT ![w] = Flagged]
    /\ Goto(w, "appending")
    /\ UNCHANGED << audit, runs, cleared, members, pending, lock, job, pos, seen, parents,
                    found, prior, computed, tally, faults, cut >>

\* Mutant of Conflicts: what is stored is not compared with what is offered.
ConflictsAlways(c, ms) == c \in cleared /\ members[c] # {}

\* Mutant of Conflicts: a different explanation replaces what is stored.
ConflictsNever(c, ms) == FALSE

\* The members already stored for a credit, if they are another explanation.
Conflicts(c, ms) == c \in cleared /\ members[c] # {} /\ members[c] # ms

\* write_cleared reads what is stored ...
CheckPrior(w, c) ==
    /\ Reaches(w, c) /\ c \notin Raising[job[w]]
    /\ \E x \in Feasible(w, c) :
          /\ Unique(w, c, x)
          /\ ~ Conflicts(c, x.members)
          /\ found' = [found EXCEPT ![w] = x.members]
    /\ prior' = [prior EXCEPT ![w] = members[c]]
    /\ Goto(w, "clearing")
    /\ UNCHANGED << tables, pending, lock, job, pos, seen, parents, verdict, computed,
                    tally, faults, cut >>

\* ... and refuses a different explanation with ConflictingClearError ...
RefuseClear(w, c) ==
    /\ Reaches(w, c) /\ c \notin Raising[job[w]]
    /\ \E x \in Feasible(w, c) : Unique(w, c, x) /\ Conflicts(c, x.members)
    /\ Goto(w, "discarding")
    /\ UNCHANGED << tables, pending, lock, job, pos, seen, parents, found, prior, verdict,
                    computed, tally, faults, cut >>

\* ... or replaces the row and its members and commits.  cleared_parents grows.
WriteCleared(w, c) ==
    /\ pc[w] = "clearing" /\ At(w, c)
    /\ cleared' = cleared \cup {c}
    /\ members' = [members EXCEPT ![c] = found[w]]
    /\ parents' = [parents EXCEPT ![w] = @ \cup found[w]]
    /\ verdict' = [verdict EXCEPT ![w] = Cleared]
    /\ Goto(w, "appending")
    /\ UNCHANGED << audit, runs, exceptions, pending, lock, job, pos, seen, found, prior,
                    computed, tally, faults, cut >>

\* Mutant of ReadHead: rows are numbered by COUNT(*).
ReadHeadCounted(w, c) ==
    /\ pc[w] = "appending" /\ At(w, c)
    /\ Locking => lock = {}
    /\ \E seq \in 0 .. MaxSeq, prev \in {Genesis} \cup {HashOf(e) : e \in audit} :
          /\ seq = Cardinality(audit)
          /\ \E n \in 0 .. MaxSeq : Follows(audit, n, prev)
          /\ pending' = pending \cup
                {[writer |-> w,
                  row |-> [seq |-> seq, run |-> job[w], prev |-> prev,
                           payload |-> [credit |-> c, verdict |-> verdict[w]]]]}
    /\ lock' = IF Locking THEN {w} ELSE lock
    /\ Goto(w, "inserting")
    /\ UNCHANGED << tables, job, pos, seen, parents, found, prior, verdict, computed, tally,
                    faults, cut >>

\* append_entry, first half: the lock, the head, the new row.
ReadHead(w, c) ==
    /\ pc[w] = "appending" /\ At(w, c)
    /\ Locking => lock = {}
    /\ \E seq \in 0 .. MaxSeq, prev \in {Genesis} \cup {HashOf(e) : e \in audit} :
          /\ Follows(audit, seq, prev)
          /\ pending' = pending \cup
                {[writer |-> w,
                  row |-> [seq |-> seq, run |-> job[w], prev |-> prev,
                           payload |-> [credit |-> c, verdict |-> verdict[w]]]]}
    /\ lock' = IF Locking THEN {w} ELSE lock
    /\ Goto(w, "inserting")
    /\ UNCHANGED << tables, job, pos, seen, parents, found, prior, verdict, computed, tally,
                    faults, cut >>

\* append_entry, second half, and the end of the iteration.  The path of a raised
\* gate continues without adding the credit to seen_ids.
Insert(w, p) ==
    /\ pc[w] = "inserting" /\ p \in pending /\ p.writer = w
    /\ ~ Collides(audit, p.row)
    /\ audit' = audit \cup {p.row}
    /\ RollBack(w)
    /\ seen' = [seen EXCEPT ![w] = IF verdict[w] = Raised THEN @
                                   ELSE @ \cup {p.row.payload.credit}]
    /\ computed' = [computed EXCEPT ![w] = @ + 1]
    /\ pos' = [pos EXCEPT ![w] = @ + 1]
    /\ Goto(w, "looping")
    /\ UNCHANGED << runs, cleared, members, exceptions, job, parents, found, prior, verdict,
                    tally, faults, cut >>

\* The primary key refuses the row: an IntegrityError ends the run.
InsertRefused(w, p) ==
    /\ pc[w] = "inserting" /\ p \in pending /\ p.writer = w
    /\ Collides(audit, p.row)
    /\ RollBack(w)
    /\ Goto(w, "discarding")
    /\ faults' = faults + 1
    /\ UNCHANGED << tables, job, pos, seen, parents, found, prior, verdict, computed, tally,
                    cut >>

-----------------------------------------------------------------------------
(***************************************************************************)
(* Closing a run.                                                          *)
(***************************************************************************)

EndLoop(w) ==
    /\ pc[w] = "looping" /\ pos[w] > Asked(job[w])
    /\ Goto(w, "counting")
    /\ UNCHANGED << tables, pending, lock, job, pos, seen, parents, found, prior, verdict,
                    computed, tally, faults, cut >>

\* Mutant of CountCoverage: the rows of every run are counted.
CountEveryRun(w) ==
    /\ pc[w] = "counting"
    /\ tally' = [tally EXCEPT ![w] = Cardinality({e.payload.credit : e \in audit})]
    /\ Goto(w, "closing")
    /\ UNCHANGED << tables, pending, lock, job, pos, seen, parents, found, prior, verdict,
                    computed, faults, cut >>

\* complete_run: count the rows ...
CountCoverage(w) ==
    /\ pc[w] = "counting"
    /\ tally' = [tally EXCEPT ![w] = Coverage(job[w])]
    /\ Goto(w, "closing")
    /\ UNCHANGED << tables, pending, lock, job, pos, seen, parents, found, prior, verdict,
                    computed, faults, cut >>

\* ... and record them.  An UPDATE of a row that is not there changes nothing.
ClosedRow(w) ==
    [status |-> IF tally[w] = Asked(job[w]) THEN "COMPLETED" ELSE "PARTIAL",
     nCredits |-> Asked(job[w]),
     nComputed |-> computed[w],
     nReused |-> IF tally[w] > computed[w] THEN tally[w] - computed[w] ELSE 0,
     nPersisted |-> tally[w]]

CloseRow(w) ==
    /\ pc[w] = "closing"
    /\ runs' = [runs EXCEPT ![job[w]] = IF @.status = "ABSENT" THEN @ ELSE ClosedRow(w)]
    /\ Leave(w)
    /\ UNCHANGED << audit, cleared, members, exceptions, pending, lock, job, faults,
                    cut >>

FailedRow(r) ==
    IF runs[r].status = "ABSENT" THEN runs[r] ELSE [runs[r] EXCEPT !.status = "FAILED"]

\* Mutant of Discard: the UPDATE has no WHERE clause.
DiscardEvery(w) ==
    /\ pc[w] = "discarding"
    /\ audit' = Without(audit, job[w])
    /\ cut' = (cut \/ Cuts(audit, audit', {p.row : p \in pending}))
    /\ runs' = [r \in Runs |-> FailedRow(r)]
    /\ Leave(w)
    /\ UNCHANGED << cleared, members, exceptions, pending, lock, job, faults >>

\* Mutant of Discard: the exceptions the run wrote are deleted with its entries.
DiscardQueue(w) ==
    /\ pc[w] = "discarding"
    /\ audit' = Without(audit, job[w])
    /\ cut' = (cut \/ Cuts(audit, audit', {p.row : p \in pending}))
    /\ exceptions' = exceptions \ Covered(job[w])
    /\ runs' = [runs EXCEPT ![job[w]] = FailedRow(job[w])]
    /\ Leave(w)
    /\ UNCHANGED << cleared, members, pending, lock, job, faults >>

\* discard_run: DELETE the audit rows of the run, mark it FAILED, commit.  Its
\* counters, the reconciliation rows and the exceptions stay.
Discard(w) ==
    /\ pc[w] = "discarding"
    /\ audit' = Without(audit, job[w])
    /\ cut' = (cut \/ Cuts(audit, audit', {p.row : p \in pending}))
    /\ runs' = [runs EXCEPT ![job[w]] = FailedRow(job[w])]
    /\ Leave(w)
    /\ UNCHANGED << cleared, members, exceptions, pending, lock, job, faults >>

-----------------------------------------------------------------------------
(***************************************************************************)
(* Faults.                                                                 *)
(***************************************************************************)

CountFault == faults < MaxFaults /\ faults' = faults + 1

\* The process is killed, or an exception ends record_run outside run_split: what
\* was committed stays, the open transaction and its lock go.
Kill(w) ==
    /\ pc[w] # "idle"
    /\ CountFault
    /\ RollBack(w)
    /\ Leave(w)
    /\ UNCHANGED << tables, job, cut >>

\* Mutant of Fail: the open transaction outlives the failure.
FailHolding(w) ==
    /\ pc[w] \in {"loading", "looping", "clearing", "appending", "inserting"}
    /\ CountFault
    /\ Goto(w, "discarding")
    /\ UNCHANGED << tables, pending, lock, job, pos, seen, parents, found, prior, verdict, computed,
                    tally, cut >>

\* An exception ends run_split: record_run goes on to discard the run.
Fail(w) ==
    /\ pc[w] \in {"loading", "looping", "clearing", "appending", "inserting"}
    /\ CountFault
    /\ RollBack(w)
    /\ Goto(w, "discarding")
    /\ UNCHANGED << tables, job, pos, seen, parents, found, prior, verdict, computed, tally,
                    cut >>

\* An interrupt between the DELETE and the INSERT of begin_run, on a backend where
\* closing the connection commits.
InterruptOpen(w) ==
    /\ CloseCommits /\ pc[w] = "opening"
    /\ CountFault
    /\ runs' = [runs EXCEPT ![job[w]] = RunRow("ABSENT", 0)]
    /\ Leave(w)
    /\ UNCHANGED << audit, cleared, members, exceptions, pending, lock, job, cut >>

\* Mutant of InterruptClear: the interrupt is swallowed and the run goes on.
InterruptClearSwallowed(w, c) ==
    /\ CloseCommits /\ pc[w] = "clearing" /\ At(w, c)
    /\ CountFault
    /\ cleared' = cleared \cup {c}
    /\ members' \in {[members EXCEPT ![c] = {i \in found[w] : i < k}] : k \in found[w]}
    /\ verdict' = [verdict EXCEPT ![w] = Cleared]
    /\ Goto(w, "appending")
    /\ UNCHANGED << audit, runs, exceptions, pending, lock, job, pos, seen, parents, found, prior,
                    computed, tally, cut >>

\* An interrupt inside write_cleared: the row is in, the old members are still
\* there, or gone with the new ones, in id order, stored up to some item.
InterruptClear(w, c) ==
    /\ CloseCommits /\ pc[w] = "clearing" /\ At(w, c)
    /\ CountFault
    /\ cleared' = cleared \cup {c}
    /\ members' \in {members} \cup
          {[members EXCEPT ![c] = {i \in found[w] : i < k}] : k \in found[w]}
    /\ Goto(w, "discarding")
    /\ UNCHANGED << audit, runs, exceptions, pending, lock, job, pos, seen, parents, found, prior,
                    verdict, computed, tally, cut >>

\* An interrupt between the DELETE and the UPDATE of discard_run.
InterruptDiscard(w) ==
    /\ CloseCommits /\ pc[w] = "discarding"
    /\ CountFault
    /\ audit' = Without(audit, job[w])
    /\ cut' = (cut \/ Cuts(audit, audit', {p.row : p \in pending}))
    /\ Leave(w)
    /\ UNCHANGED << runs, cleared, members, exceptions, pending, lock, job >>

Fault(w) ==
    \/ Kill(w)
    \/ Fail(w)
    \/ InterruptOpen(w)
    \/ \E c \in Credits : InterruptClear(w, c)
    \/ InterruptDiscard(w)

Work(w) ==
    \/ \E r \in Runs : LookUp(w, r)
    \/ OpenRow(w)
    \/ Snapshot(w)
    \/ \E c \in Credits :
          \/ Skip(w, c)
          \/ RaiseTrace(w, c)
          \/ Flag(w, c)
          \/ CheckPrior(w, c)
          \/ RefuseClear(w, c)
          \/ WriteCleared(w, c)
          \/ ReadHead(w, c)
    \/ \E p \in pending : Insert(w, p) \/ InsertRefused(w, p)
    \/ EndLoop(w)
    \/ CountCoverage(w)
    \/ CloseRow(w)
    \/ Discard(w)

Next == \E w \in Workers : Work(w) \/ Fault(w) \/ \E r \in Runs : Reuse(w, r)

Spec == Init /\ [][Next]_vars

\* Every run is recorded again until it is complete, and a worker that is not killed
\* goes on.
FairSpec ==
    /\ Spec
    /\ \A w \in Workers : WF_vars(Work(w))
    /\ \A w \in Workers : \A r \in Serves[w] : SF_vars(LookUp(w, r))

-----------------------------------------------------------------------------
(***************************************************************************)
(* Properties.                                                             *)
(***************************************************************************)

Entries(c) == {e \in audit : e.payload.credit = c}

\* The decision a verdict stands for is in its table; a raised gate has decided nothing.
Written(v, c) ==
    /\ v = Cleared => c \in cleared
    /\ v = Flagged => c \in exceptions

\* Write before log: an entry that says CLEARED finds its reconciliation row, one
\* that says FLAGGED by a decision its exception row, across kills, failures and
\* retries (orchestrator.run_split commits the decision before append_entry).  The
\* FLAGGED entry of a raised gate has no row.
LoggedIsWritten == \A e \in audit : Written(e.payload.verdict, e.payload.credit)

\* One credit, one result: crash, resume, retry and a second run identity never
\* log a credit twice (the F25 snapshot seen_ids).
OneResult == \A c \in Credits : Cardinality(Entries(c)) <= 1

\* A run that reads as complete is covered by rows: find_run's "complete" trusts the
\* counters complete_run wrote, and discard_run does not reset them.
CompleteIsCovered == \A r \in Runs : Complete(r) => Coverage(r) = Asked(r)

\* The four numbers add up whenever a run is closed: what was persisted was either
\* computed by this invocation or reused from an earlier one.
AccountingAdds ==
    \A r \in Runs : runs[r].status \in {"COMPLETED", "PARTIAL"} =>
        runs[r].nComputed + runs[r].nReused = runs[r].nPersisted

\* verify_chain accepts the chain until the discard of a run cuts it.
VerifiesUntilCut == ~ cut => Verifies(audit)

\* verify_chain accepts the chain (close_ops: "audit chain intact").
ChainVerifies == Verifies(audit)

\* latest_completed_run: once a covered run exists the reader is never given less.
Believed == \E r \in Runs : runs[r].status = "COMPLETED"
BeliefIsKept == [][Believed => Believed']_vars

\* The rows a COMPLETED run is believed by are never deleted.
CompletedRowsStay ==
    [][\A e \in audit : runs[e.run].status = "COMPLETED" => e \in audit']_vars

\* No run and no credit has two workers: one worker, or datasets that share nothing.
Listed(r) == {CreditsOf[r][i] : i \in 1 .. Asked(r)}
Separate ==
    \A v, w \in Workers : v # w =>
        \A r \in Serves[v], s \in Serves[w] : r # s /\ Listed(r) \cap Listed(s) = {}

\* A worker writes a credit although what is stored is not what it found stored.
Overtaken(c) == \E w \in Workers : pc[w] = "clearing" /\ At(w, c) /\ prior[w] # members[c]

\* An interrupted rewrite of a decomposition by itself keeps its items up to some item.
Truncated(c) == CloseCommits /\ \E k \in members[c] : members'[c] = {i \in members[c] : i < k}

\* A stored decomposition is never replaced by another one (write_cleared's promise),
\* for every configuration and order of runs, retries and interrupts, as long as no
\* two workers decide the credit; when they do, only by a worker that had looked at
\* what is stored before another one stored it (verify.py:109).
ClearedIsFinal ==
    [][\A c \in cleared : members[c] \notin {{}, members'[c]} =>
        Truncated(c) \/ (~ Separate /\ Overtaken(c))]_vars

\* What one of the runs finds for the credit, whole.
Explains(c, ms) == \E r \in Runs : \E x \in Explanations[r][c] : x.members = ms

\* An interrupted write_cleared left a part of a decomposition: every later clear of
\* the credit is refused.
Torn == \E c \in cleared : members[c] # {} /\ ~ Explains(c, members[c])

\* A retry gets there: after any kills, failures and discards, in whatever order the
\* identities are recorded again, every credit of a run keeps a result, its own or
\* another run's, unless a torn clear stands in the way (record_run and seen_ids).
EventuallyDecided ==
    \A r \in Runs : <>[](Torn \/ \A i \in 1 .. Asked(r) : Entries(CreditsOf[r][i]) # {})

-----------------------------------------------------------------------------
(***************************************************************************)
(* The inductive invariants behind them.                                   *)
(***************************************************************************)

\* A row in flight belongs to a worker between its two statements, who has no other;
\* the lock is held for a row in flight only.
PendingInv ==
    /\ \A p \in pending : pc[p.writer] = "inserting" /\ p.row.run = job[p.writer]
    /\ \A p, q \in pending : p.writer = q.writer => p = q
    /\ lock \subseteq {p.writer : p \in pending}

\* The decision is written from before the entry is computed until it is in the chain.
WrittenInv ==
    /\ \A w \in Workers : pc[w] = "appending" =>
          \A c \in Credits : At(w, c) => Written(verdict[w], c)
    /\ \A p \in pending : Written(p.row.payload.verdict, p.row.payload.credit)
    /\ \A e \in audit : Written(e.payload.verdict, e.payload.credit)

LedgerInv == TypeOK /\ IsFiniteSet(audit) /\ PendingInv /\ WrittenInv

\* No run has two workers that execute it.
Exclusive == \A v, w \in Workers : v # w => Serves[v] \cap Serves[w] = {}

\* Then a run somebody executes is not complete and, once opened, is RUNNING, and the
\* coverage its worker counted stays what it is until the row is closed.
RunningInv ==
    /\ \A w \in Workers : pc[w] # "idle" => job[w] \in Serves[w] /\ ~ Complete(job[w])
    /\ \A w \in Workers : pc[w] \notin {"idle", "opening"} => runs[job[w]].status = "RUNNING"
    /\ \A w \in Workers : pc[w] = "closing" => tally[w] = Coverage(job[w])
    /\ CompleteIsCovered

\* A credit whose gates raise is in the statement once (it is not added to seen_ids).
RaisedOnce ==
    \A r \in Runs : \A i, j \in 1 .. Asked(r) :
        i < j /\ CreditsOf[r][i] = CreditsOf[r][j] => CreditsOf[r][i] \notin Raising[r]

\* The entries that worker w must not repeat: those of its own run and, if nobody else
\* decides its credits, those of every run.
Counts(w, e) ==
    /\ e.run = job[w] \/ Separate
    /\ e.payload.verdict # Raised \/ RaisedOnce

\* Every credit still before a worker that has such an entry is in its snapshot ...
Skips(w) ==
    \A e \in audit : \A i \in pos[w] .. Asked(job[w]) :
        CreditsOf[job[w]][i] = e.payload.credit /\ Counts(w, e) => e.payload.credit \in seen[w]

\* ... so that the credit it decides has none; and what it computed so far is covered.
Resumes(w) ==
    /\ pc[w] \in {"idle", "opening", "loading"} => computed[w] = 0
    /\ pc[w] \in {"looping", "clearing", "appending", "inserting"} => Skips(w)
    /\ pc[w] \in {"clearing", "appending", "inserting"} =>
          \A c \in Credits : At(w, c) => c \notin seen[w]
    /\ pc[w] \in {"appending", "inserting"} /\ verdict[w] = Raised =>
          \A c \in Credits : At(w, c) => c \in Raising[job[w]]
    /\ RaisedOnce /\ pc[w] \in {"looping", "clearing", "appending", "inserting", "counting"} =>
          computed[w] <= Coverage(job[w])
    /\ RaisedOnce /\ pc[w] = "closing" => computed[w] <= tally[w]

\* A row in flight is the decision its worker stands at.
InFlight(p) == At(p.writer, p.row.payload.credit) /\ p.row.payload.verdict = verdict[p.writer]

ResumeInv ==
    /\ \A w \in Workers : Resumes(w)
    /\ \A p \in pending : InFlight(p)
    /\ Separate /\ RaisedOnce => \A d, e \in audit : d.payload.credit = e.payload.credit => d = e
    /\ RaisedOnce => AccountingAdds

\* A run that counts as COMPLETED reads as complete, unless it has nothing to cover.
CompletedInv == \A r \in Runs : runs[r].status = "COMPLETED" /\ Asked(r) # 0 => Complete(r)

\* What a worker is about to store is what it found stored, if it found anything, and
\* nobody has stored anything else since if nobody else decides its credits.
ClearingInv ==
    /\ \A w \in Workers : pc[w] # "idle" => job[w] \in Serves[w]
    /\ \A c \in Credits : c \notin cleared => members[c] = {}
    /\ \A w \in Workers : pc[w] = "clearing" => \A c \in Credits : At(w, c) =>
          /\ prior[w] \in {{}, found[w]}
          /\ Separate => prior[w] = members[c]

\* A credit that is cleared on the record, or about to be, is stored with an explanation.
Stored(payload) == payload.verdict = Cleared => Explains(payload.credit, members[payload.credit])
WholeInv ==
    /\ \A w \in Workers : \A c \in Credits : At(w, c) =>
          /\ pc[w] = "clearing" => Explains(c, found[w])
          /\ pc[w] = "appending" => Stored([credit |-> c, verdict |-> verdict[w]])
    /\ \A p \in pending : Stored(p.row.payload)
    /\ \A e \in audit : Stored(e.payload)

\* What holds of the ledger when no run has two workers.
ExclusiveInv ==
    /\ RunningInv /\ ResumeInv /\ CompletedInv /\ ClearingInv
    /\ Separate \/ ~ CloseCommits => WholeInv

-----------------------------------------------------------------------------
\* The runs of an organisation use its audit chain as AuditChain describes it: every
\* step of record_run is an append, an abandoned append, a discard, or leaves the
\* chain alone.
Chain == INSTANCE AuditChain WITH Writers <- Workers
ImplementsAuditChain == Chain!ChainSpec
=============================================================================
