----------------------------- MODULE ClearGate ------------------------------
(***************************************************************************)
(* The clearing gate of an execution (orchestrator.run_split): for every   *)
(* credit of a statement, in order, is there one explanation of it, exact  *)
(* to the paisa, that may be booked without a person?                      *)
(*                                                                         *)
(* The same statement is run at every rung of the degradation ladder       *)
(* (runtime/degrade.py) side by side, each run with a database of its own, *)
(* so that what a rung clears can be compared with what another does.      *)
(* What the executions share, and crash in, is module RunLedger's matter.  *)
(*                                                                         *)
(* One account and one currency.  How far a search got (effort), whether   *)
(* the ordering score reaches the threshold (confident) and which tier     *)
(* resolves a counterparty (name) are part of the statement.               *)
(***************************************************************************)
EXTENDS Structure, Subsets, Diagnosis

CONSTANT Statements   \* what run_split may be asked to process

Kinds == {"PAYMENT", "FEE", "TAX_GST", "TAX_WITHHOLDING", "RESERVE_HOLD", "RESERVE_RELEASE",
          "REFUND", "CHARGEBACK", "REPRESENTMENT", "ADJUSTMENT", "BANK_CHARGE"}

\* instrument, order and parent are places, or None; name says who can tell the counterparty.
LedgerItem == [kind : Kinds, paise : Int, day : Int, instrument : Nat, order : Nat,
               parent : Nat, name : {"known", "model", "unknown"}]

\* The rate tables: basis points for each instrument, of the fee and of the gross amount.
RateTable == [fees : Seq(Int), gst : Int, withholding : Int, onGross : BOOLEAN, reserve : Int]

ASSUME GateConstants ==
    \A s \in Statements :
        /\ s.items \in Seq(LedgerItem) /\ s.book \in RateTable
        /\ \A i \in DOMAIN s.items : s.items[i].instrument <= Len(s.book.fees)
        /\ DOMAIN s.credits = 1 .. Len(s.credits) /\ Len(s.credits) \in Nat
        /\ \A c \in DOMAIN s.credits : s.credits[c].paise \in Int
        /\ s.cfg.cap \in Nat

VARIABLES
    stmt,      \* items, credits, rates, configuration and flags
    next,      \* the credit the loop is at
    parents,   \* cleared_parents, for each rung
    stored,    \* the reconciliation rows, with their members
    queue,     \* the exception rows
    log,       \* the payloads of the audit entries
    ended      \* how the execution stands: running, exported, refused or raised

vars == << stmt, next, parents, stored, queue, log, ended >>

-----------------------------------------------------------------------------
(***************************************************************************)
(* The ladder.                                                             *)
(***************************************************************************)

Rungs == {"NORMAL", "NO_MODEL", "NO_SEARCH", "READ_ONLY", "HALTED"}

\* policy_for
PolicyFor(rung) ==
    [model |-> rung = "NORMAL",
     search |-> rung \in {"NORMAL", "NO_MODEL", "READ_ONLY"},
     writes |-> rung \in {"NORMAL", "NO_MODEL", "NO_SEARCH"},
     process |-> rung # "HALTED"]

\* active_rung
Active(rung) == IF stmt.flags.degrade THEN rung ELSE "NORMAL"

Policy(rung) == PolicyFor(Active(rung))

-----------------------------------------------------------------------------
(***************************************************************************)
(* What a credit is judged by.                                             *)
(***************************************************************************)

Credit(c) == stmt.credits[c]

WidenedKinds == {"REFUND", "CHARGEBACK", "REPRESENTMENT", "ADJUSTMENT", "RESERVE_RELEASE"}

\* build_pool: the days before the credit, more of them for the widened kinds.
Pool(c) ==
    {i \in DOMAIN stmt.items :
        LET days == IF stmt.items[i].kind \in WidenedKinds THEN stmt.cfg.wide ELSE stmt.cfg.base
        IN  Credit(c).day - stmt.items[i].day \in 1 .. days}

\* apply_derived_epsilon
Derived ==
    IF stmt.flags.derivedEpsilon /\ stmt.cfg.derived # {}
    THEN LET rupees == CHOOSE e \in stmt.cfg.derived : TRUE
         IN  [stmt.cfg EXCEPT !.epsilon = rupees, !.ceiling = rupees * PaisePerRupee]
    ELSE stmt.cfg

\* The question put to the search.
Asked(c) ==
    [items |-> stmt.items, target |-> Credit(c).paise,
     cfg |-> [epsilon |-> Derived.epsilon, requireNonempty |-> TRUE]]

\* The sets of the pool with a sum in the window.
Explanations(c) == Solutions(Asked(c), Pool(c))

\* prune_indices
Kept(c) == Survivors(Asked(c), Pool(c))

\* nearest_reachable, as a delta in rupees; the lower total on a tie.
Nearest(c) ==
    LET target == ToRupees(Credit(c).paise)
        totals == Reach(Rupees(Asked(c)), Kept(c))[Len(stmt.items)]
        closest == CHOOSE t \in totals : \A u \in totals :
                      \/ Abs(t - target) < Abs(u - target)
                      \/ Abs(t - target) = Abs(u - target) /\ t <= u
    IN  closest - target

Found(uniqueness, scope, members, near) ==
    [uniqueness |-> uniqueness, scope |-> scope, members |-> members, near |-> near]

Unsearched == Found("NONE_FOUND", "FULL", {}, {})

\* solve_search, whose answer on a full pool is the Verdict that module Search shows it to
\* be.  A sub-window's AMBIGUOUS is judged as its UNIQUE is.
Solve(c) ==
    LET verdict == Verdict(Asked(c), Pool(c))
        missed == Explanations(c) = {} /\ ~ Refused(Asked(c), Pool(c))
    IN  IF Kept(c) = {} THEN Unsearched
        ELSE IF Credit(c).effort = "BUDGET" THEN Found("BUDGET_EXCEEDED", "FULL", {}, {})
        ELSE IF Credit(c).effort = "REDUCED" THEN Found("UNIQUE", "REDUCED", {}, {})
        ELSE Found(verdict.uniqueness, "FULL", verdict.members, IF missed THEN {Nearest(c)} ELSE {})

\* verify_declared over the settlement report's lines for the credit.
DeclaredCheck(c) ==
    VerifyDeclared(Credit(c).paise, Credit(c).declared, DOMAIN Credit(c).declared,
                   stmt.items, stmt.book, stmt.flags.declaredOps, stmt.flags.missingRateIds)

\* The members the report names, where it is to be followed.
Named(c) ==
    IF stmt.flags.namedMembers \/ DeclaredCheck(c).ok
    THEN {Credit(c).declared[l].item : l \in DOMAIN Credit(c).declared} \cap DOMAIN stmt.items
    ELSE {}

\* _duplicates
Duplicates(c) ==
    {d \in DOMAIN stmt.credits \ {c} : /\ Credit(d).paise = Credit(c).paise
                                       /\ Abs(Credit(d).day - Credit(c).day) <= 1}

\* Mutant of Unresolved: without a model nobody asks.
UnresolvedUnasked(c, policy) ==
    {i \in Pool(c) : policy.model /\ stmt.items[i].name = "unknown"}

\* resolve: a name is in the ledger's own registry, or the model's to tell, or neither's.
Unresolved(c, policy) ==
    {i \in Pool(c) : \/ stmt.items[i].name = "unknown"
                     \/ stmt.items[i].name = "model" /\ ~ policy.model}

-----------------------------------------------------------------------------
(***************************************************************************)
(* The judgement of one credit.                                            *)
(***************************************************************************)

\* nearest_delta_paise
DeltaOf(solve, outcome) ==
    IF outcome.accepted \/ solve.uniqueness \in {"AMBIGUOUS", "BUDGET_EXCEEDED"} THEN {}
    ELSE IF solve.uniqueness = "NONE_FOUND" /\ solve.near # {}
         THEN {n * PaisePerRupee : n \in solve.near}
         ELSE {outcome.residual}

Signals(c, solve, delta, unresolved, infeasible) ==
    LET paise == PaiseOf(stmt.items)
        matches(I) == {i \in I : \E d \in delta : Abs(paise[i]) = Abs(d)}
    IN  [uniqueness |-> solve.uniqueness, scope |-> solve.scope, infeasible |-> infeasible,
         unresolved |-> unresolved, duplicates |-> Duplicates(c), delta |-> delta,
         lineDeltas |-> IF Credit(c).declared = << >> THEN << >> ELSE DeclaredCheck(c).deltas,
         twice |-> {i \in Pool(c) : \E d \in delta : d = -2 * paise[i]},
         inPool |-> matches(Pool(c)), outside |-> matches(DOMAIN paise \ Pool(c)),
         gross |-> Sum(paise, {i \in Pool(c) : paise[i] > 0})]

\* What disambiguation makes of a search that found more than one set (F31).
Tie(c, found, cleared) ==
    LET sets == IF /\ stmt.flags.disambiguation /\ found.uniqueness = "AMBIGUOUS"
                   /\ found.scope = "FULL" /\ Credit(c).effort # "SHORT"
                THEN Explanations(c) ELSE {}
    IN  Disambiguate(stmt.items, sets, stmt.cfg.cap, stmt.book, cleared)

Settled(named, found, tie) ==
    IF tie.unique # {} /\ named = {} THEN Found("UNIQUE", "FULL", UNION tie.unique, {}) ELSE found

Full(solve) == solve.uniqueness = "UNIQUE" /\ solve.scope = "FULL"

Members(named, solve) == IF named # {} THEN named ELSE IF Full(solve) THEN solve.members ELSE {}

Conclusion(c, solve, members, outcome, unresolved, diagnosis) ==
    LET clears == /\ outcome.accepted /\ Full(solve) /\ unresolved = {}
                  /\ Credit(c).confident
    IN  [credit |-> c, regime |-> IF Credit(c).declared = << >> THEN "B" ELSE "A",
         uniqueness |-> solve.uniqueness, accepted |-> outcome.accepted,
         members |-> members, class |-> diagnosis.class, rule |-> diagnosis.rule,
         disposition |-> IF solve.uniqueness = "BUDGET_EXCEEDED" \/ solve.scope = "REDUCED"
                         THEN "BUDGET_EXCEEDED"
                         ELSE IF clears THEN "CLEARED" ELSE "FLAGGED"]

\* The second half of the loop's body, from the members on.
Weigh(c, solve, members, outcome, unresolved, infeasible) ==
    Conclusion(c, solve, members, outcome, unresolved,
               Classify(Signals(c, solve, DeltaOf(solve, outcome), unresolved, infeasible),
                        stmt.book, Derived))

Verified(c, solve, members, unresolved, infeasible) ==
    Weigh(c, solve, members, VerifyDecomposition(Credit(c).paise, members, stmt.items, stmt.book),
          unresolved, infeasible)

Explained(c, named, solve, unresolved, infeasible) ==
    Verified(c, solve, Members(named, solve), unresolved, infeasible)

Searched(c, policy, named, found, tie) ==
    Explained(c, named, Settled(named, found, tie), Unresolved(c, policy), tie.infeasible)

\* What run_split makes of credit c under a policy, when the sets cleared before it hold
\* the items cleared.
Judge(c, policy, cleared) ==
    LET found == IF policy.search THEN Solve(c) ELSE Unsearched
    IN  Searched(c, policy, Named(c), found, Tie(c, found, cleared))

Payload(j) == [credit |-> j.credit, regime |-> j.regime, uniqueness |-> j.uniqueness,
               accepted |-> j.accepted, class |-> j.class, rule |-> j.rule,
               disposition |-> j.disposition]

\* The entry for a credit whose gates raise.
Raised(c) == [credit |-> c, regime |-> "UNKNOWN", uniqueness |-> "NONE_FOUND",
              accepted |-> FALSE, class |-> "MISSING_RECORD", rule |-> "trace_raised",
              disposition |-> "FLAGGED"]

-----------------------------------------------------------------------------
(***************************************************************************)
(* The loop.                                                               *)
(***************************************************************************)

Empty == [r \in Rungs |-> {}]

Init ==
    /\ stmt \in Statements
    /\ next = 1
    /\ parents = Empty /\ stored = Empty /\ queue = Empty /\ log = Empty
    /\ ended = [r \in Rungs |-> IF Policy(r).process THEN "running" ELSE "halted"]

Running == {r \in Rungs : ended[r] = "running"}

With(f, R, Row(_)) == [r \in Rungs |-> IF r \in R THEN f[r] \cup {Row(r)} ELSE f[r]]

\* Exceptions are written whatever the rung; rows and entries only if it allows writes; and
\* what is cleared lifts refunds from then on whether it is written or not.
Book(judged) ==
    LET cleared == {r \in Running : judged[r].disposition = "CLEARED"}
        writing == {r \in Running : Policy(r).writes}
    IN  /\ stored' = With(stored, cleared \cap writing,
                          LAMBDA r : [credit |-> next, members |-> judged[r].members])
        /\ queue' = With(queue, Running \ cleared,
                         LAMBDA r : [credit |-> next, class |-> judged[r].class])
        /\ log' = With(log, writing, LAMBDA r : Payload(judged[r]))
        /\ parents' = [r \in Rungs |->
                          IF r \in cleared THEN parents[r] \cup judged[r].members ELSE parents[r]]

\* One credit.
Process ==
    /\ Running # {} /\ next <= Len(stmt.credits) /\ ~ Credit(next).raising
    /\ Book([r \in Running |-> Judge(next, Policy(r), parents[r])])
    /\ next' = next + 1
    /\ UNCHANGED << stmt, ended >>

\* A gate raises: the trace entry, where there are traces, is written whatever the rung;
\* without traces the execution ends with the error.
Raise ==
    /\ Running # {} /\ next <= Len(stmt.credits) /\ Credit(next).raising
    /\ IF stmt.flags.trace
       THEN /\ log' = [r \in Rungs |-> IF r \in Running THEN log[r] \cup {Raised(next)} ELSE log[r]]
            /\ UNCHANGED ended
       ELSE /\ ended' = [r \in Rungs |-> IF r \in Running THEN "raised" ELSE ended[r]]
            /\ UNCHANGED log
    /\ next' = next + 1
    /\ UNCHANGED << stmt, parents, stored, queue >>

\* chart_of_accounts.yaml has an account for an item on the side of its expected sign.
Postable(i) ==
    CASE stmt.items[i].kind = "ADJUSTMENT" -> TRUE
      [] stmt.items[i].kind \in {"PAYMENT", "REPRESENTMENT", "RESERVE_RELEASE"} ->
            stmt.items[i].paise > 0
      [] OTHER -> stmt.items[i].paise < 0

\* build_journal does not raise: every member has an account, and the members of every row
\* add up to its credit.
Journal(rows) ==
    \A row \in rows :
        /\ \A i \in row.members : Postable(i)
        /\ Sum(PaiseOf(stmt.items), row.members) = Credit(row.credit).paise

\* identity_from_cleared over the statement: what is in two decompositions, and whether the
\* credits are what the cleared members come to and what no decomposition explains.  A row
\* without members is not among the cleared ones.
Books(rows) ==
    LET members == [c \in DOMAIN stmt.credits |->
                       UNION {row.members : row \in {w \in rows : w.credit = c}}]
        explained == {c \in DOMAIN stmt.credits : members[c] # {}}
        twice == {i \in DOMAIN stmt.items :
                     \E b, c \in explained : b # c /\ i \in members[b] \cap members[c]}
        received == [c \in DOMAIN stmt.credits |-> Credit(c).paise]
        claimed == [c \in DOMAIN stmt.credits |-> Sum(PaiseOf(stmt.items), members[c])]
        balance == Sum(claimed, explained) + Sum(received, DOMAIN received \ explained)
    IN  [twice |-> twice, holds |-> twice = {} /\ Sum(received, DOMAIN received) = balance]

\* After the loop: the journal, where there is one.
Export ==
    /\ Running # {} /\ next > Len(stmt.credits)
    /\ ended' = [r \in Rungs |->
                    IF r \notin Running THEN ended[r]
                    ELSE IF stmt.flags.journal /\ Policy(r).writes /\ ~ Journal(stored[r])
                         THEN "refused" ELSE "exported"]
    /\ UNCHANGED << stmt, next, parents, stored, queue, log >>

\* The executions have returned.
Stop == Running = {} /\ UNCHANGED vars

Next == Process \/ Raise \/ Export \/ Stop

Spec == Init /\ [][Next]_vars
-----------------------------------------------------------------------------
(***************************************************************************)
(* Properties.                                                             *)
(***************************************************************************)

Classes == {"AMBIGUOUS_DECOMPOSITION", "MISSING_RECORD", "DUPLICATE_CREDIT",
            "SUSPECTED_WITHHOLDING", "UNITEMISED_FEE", "ROUNDING_RESIDUE",
            "CROSS_WINDOW_UNRESOLVED", "SIGN_REVERSAL", "ENTITY_UNRESOLVED",
            "BUDGET_EXCEEDED", "RATE_MISMATCH", "STRUCTURALLY_INFEASIBLE"}

\* A reconciliation row, and an exception row.
Rows == [credit : DOMAIN stmt.credits, members : SUBSET DOMAIN stmt.items]
Exceptions == [credit : DOMAIN stmt.credits, class : Classes]

TypeOK ==
    /\ stmt \in Statements
    /\ next \in 1 .. Len(stmt.credits) + 1
    /\ parents \in [Rungs -> SUBSET DOMAIN stmt.items]
    /\ stored \in [Rungs -> SUBSET Rows]
    /\ queue \in [Rungs -> SUBSET Exceptions]
    /\ \A r \in Rungs : \A entry \in log[r] : entry.credit \in DOMAIN stmt.credits
    /\ ended \in [Rungs -> {"running", "exported", "refused", "raised", "halted"}]

\* What an execution had cleared and written before credit c.
ClearedBefore(r, c) == UNION {row.members : row \in {w \in stored[r] : w.credit < c}}

SoundOnes(r, c) ==
    {M \in Explanations(c) : Sound(stmt.items, M, stmt.book, ClearedBefore(r, c))}

\* SPEC F3 and F31: a searched credit is booked only with the one set of its whole pool that
\* explains it within tolerance or, with F31, the one that also respects the relations
\* between its items, against all sets there are and not the capped list: no cap, budget,
\* sub-window or rung makes a guess look unique.
OneExplanation ==
    \A r \in Rungs : \A row \in stored[r] :
        Named(row.credit) = {} =>
            \/ Explanations(row.credit) = {row.members}
            \/ stmt.flags.disambiguation /\ SoundOnes(r, row.credit) = {row.members}

\* M holds the fee, GST, withholding and reserve lines its payments give rise to, once.
Itemised(M) ==
    LET items == stmt.items
        paid(n) == {i \in Of(items, M, "PAYMENT") : items[i].instrument = n}
        due == RatesDue([n \in DOMAIN stmt.book.fees |-> Sum(PaiseOf(items), paid(n))], stmt.book)
        once(I, paise) == Cardinality(I) = IF paise = 0 THEN 0 ELSE 1
        lines(kind, n) == {i \in Of(items, M, kind) : items[i].instrument = n}
    IN  /\ \A n \in DOMAIN stmt.book.fees : /\ once(lines("FEE", n), due.fee[n])
                                            /\ once(lines("TAX_GST", n), due.gst[n])
        /\ once(Of(items, M, "TAX_WITHHOLDING"), due.withheld)
        /\ once(Of(items, M, "RESERVE_HOLD"), due.held)

\* verify.py accepts on rates derived from the table, journal.py posts the ledger's amounts:
\* the two agree on every row whose members itemise their rates, in either regime and from
\* whatever the report declared, so that a journal is refused only over a row that does not
\* itemise them or an amount of the wrong sign, and the books (F33) fail only over such a row
\* or an item that two credits claim.
LedgerAddsUp ==
    \A r \in Rungs :
        /\ \A row \in stored[r] : Itemised(row.members) =>
                Sum(PaiseOf(stmt.items), row.members) = Credit(row.credit).paise
        /\ ended[r] = "refused" => \E row \in stored[r] :
                ~ Itemised(row.members) \/ \E i \in row.members : ~ Postable(i)
        /\ Books(stored[r]).holds \/ Books(stored[r]).twice # {}
                \/ \E row \in stored[r] : ~ Itemised(row.members)

\* The rungs below NORMAL that write, when the ladder is in force.
Lower == IF stmt.flags.degrade THEN {"NO_MODEL", "NO_SEARCH"} ELSE {}
ClearedAt(r) == {row.credit : row \in stored[r]}

\* ADR-11, gate 6: a degraded execution clears nothing that a NORMAL one does not, save in
\* one way.  Where it first does, a credit that NORMAL cleared and the rung did not holds the
\* parent of a refund in the pool; NORMAL then has one more sound set, and refuses what the
\* rung finds unique.
OnlyParentsLift ==
    \A r \in Lower : \A c \in ClearedAt(r) \ ClearedAt("NORMAL") :
        \/ \E d \in ClearedAt(r) \ ClearedAt("NORMAL") : d < c
        \/ \E i \in Of(stmt.items, Pool(c), "REFUND") :
              stmt.items[i].parent \in ClearedBefore("NORMAL", c) \ ClearedBefore(r, c)

Processed(r) == {c \in 1 .. next - 1 : ~ Credit(c).raising /\ ended[r] \notin {"halted", "raised"}}

\* SPEC 5.12, no fourth outcome and no silent pass: a credit an execution has judged is a row
\* or an exception, never both and, where rows are written, never neither; and what its class
\* says of the search is so: ambiguous means two explanations, infeasible means that there is
\* one and none of them is sound, and the fallback MISSING_RECORD without a delta means that
\* nothing is missing, for the members were verified to the paisa.
QueueIsHonest ==
    \A r \in Rungs :
        LET queued == {entry.credit : entry \in queue[r]}
        IN  /\ ClearedAt(r) \cap queued = {}
            /\ Policy(r).writes => Processed(r) \subseteq ClearedAt(r) \cup queued
            /\ \A entry \in queue[r] :
                  /\ entry.class = "AMBIGUOUS_DECOMPOSITION" =>
                        \E M, N \in Explanations(entry.credit) : M # N
                  /\ entry.class = "STRUCTURALLY_INFEASIBLE" =>
                        /\ Explanations(entry.credit) # {}
                        /\ Policy(r).writes => SoundOnes(r, entry.credit) = {}
            /\ \A entry \in log[r] : entry.rule = "fallback_no_delta" => entry.accepted

\* docs/DECISIONS.md, ADR-11: "Degradation / cost governor may refuse work; they cannot
\* introduce a clear that NORMAL did not".
NoClearIntroduced == \A r \in Lower : ClearedAt(r) \subseteq ClearedAt("NORMAL")

=============================================================================
