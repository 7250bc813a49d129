------------------------------- MODULE Search ------------------------------
(***************************************************************************)
(* One call of solver.enumerate.solve_search: which sets of pool items     *)
(* have a sum, on the grid of rupees, within epsilon of a bank credit?     *)
(*                                                                         *)
(* The call prunes the pool to a fixpoint (solver/prune.py), and, if what  *)
(* is left is small enough, builds the index of reachable sums             *)
(* (solver/bitset_dp.py) and walks the decision tree of every reachable    *)
(* total in the window, under one cap on the solutions and one budget of   *)
(* nodes.  A pool that stays too large is retried on sub-windows of days   *)
(* (candidates.split_pool), whose answer is marked REDUCED.                *)
(*                                                                         *)
(* What only describes a result (nearest total, slack, margin, strategy,   *)
(* counts) is left out.                                                    *)
(***************************************************************************)
EXTENDS Subsets

CONSTANT Questions   \* what solve_search may be asked: a pool, a credit, a configuration

ASSUME SearchConstants == Questions \subseteq Question

VARIABLES
    ask,        \* the arguments of the call
    attempt,    \* 0 on the full pool, k on the sub-window of the last k days
    base,       \* the indices of the (sub-window of the) pool the call works on
    keep,       \* what pruning has left of them
    totals,     \* the hit totals not walked yet
    stack,      \* the calls of backtrack still to be made, the next one first
    found,      \* len(solutions)
    solutions,  \* the sets in it
    nodes,      \* calls of backtrack made
    answer,     \* the result, once there is one
    pc

search == << totals, stack, found, solutions, nodes >>
vars == << ask, attempt, base, keep, search, answer, pc >>

-----------------------------------------------------------------------------
(***************************************************************************)
(* solve_search                                                            *)
(***************************************************************************)

Pending == [uniqueness |-> "PENDING", scope |-> "FULL", members |-> {}]
Scope == IF attempt = 0 THEN "FULL" ELSE "REDUCED"

\* An answer without members; a sub-window may only answer UNIQUE or AMBIGUOUS.
Return(uniqueness) ==
    IF attempt = 0 \/ uniqueness = "AMBIGUOUS"
    THEN /\ answer' = [uniqueness |-> uniqueness, scope |-> Scope, members |-> {}]
         /\ pc' = "done"
    ELSE pc' = "splitting" /\ UNCHANGED answer

Init ==
    /\ ask \in Questions
    /\ attempt = 0
    /\ base = 1 .. Len(ask.items)
    /\ keep = base
    /\ totals = {} /\ stack = << >> /\ found = 0 /\ solutions = {} /\ nodes = 0
    /\ answer = Pending
    /\ pc = "pruning"

\* A pass of prune_indices that drops something.
PrunePass ==
    /\ pc = "pruning"
    /\ Sweep(ask, keep) # keep
    /\ keep' = Sweep(ask, keep)
    /\ UNCHANGED << ask, attempt, base, search, answer, pc >>

\* A pass that drops nothing: the pool is empty, too large, or searched.
Pruned ==
    /\ pc = "pruning"
    /\ Sweep(ask, keep) = keep
    /\ \/ /\ keep = {}
          /\ Return("NONE_FOUND")
       \/ /\ keep # {}
          /\ Cardinality(keep) > ask.cfg.maxPool
          /\ IF attempt = 0 /\ ~ ask.cfg.split
             THEN Return("BUDGET_EXCEEDED")
             ELSE pc' = "splitting" /\ UNCHANGED answer
       \/ /\ keep # {}
          /\ Cardinality(keep) <= ask.cfg.maxPool
          /\ pc' = "solving"
          /\ UNCHANGED answer
    /\ UNCHANGED << ask, attempt, base, keep, search >>

\* Sub-window k holds the last k days, and every item of a widened kind.
SubWindow(q, k) ==
    {i \in 1 .. Len(q.items) : q.items[i].widened \/ q.items[i].age \in 1 .. k}

\* Mutant of Split: the last day is tried again and again.
SplitLastDay ==
    /\ pc = "splitting"
    /\ attempt < ask.cfg.maxAttempts
    /\ attempt' = 1
    /\ base' = SubWindow(ask, attempt')
    /\ keep' = base'
    /\ pc' = "pruning"
    /\ totals' = {} /\ stack' = << >> /\ found' = 0 /\ solutions' = {} /\ nodes' = 0
    /\ UNCHANGED << ask, answer >>

\* The next sub-window of split_pool, pruned from the start.
Split ==
    /\ pc = "splitting"
    /\ attempt < ask.cfg.maxAttempts
    /\ attempt' = attempt + 1
    /\ base' = SubWindow(ask, attempt')
    /\ keep' = base'
    /\ pc' = "pruning"
    /\ totals' = {} /\ stack' = << >> /\ found' = 0 /\ solutions' = {} /\ nodes' = 0
    /\ UNCHANGED << ask, answer >>

\* No sub-window is left: the answer is about the full pool.
GiveUp ==
    /\ pc = "splitting"
    /\ attempt >= ask.cfg.maxAttempts
    /\ answer' = [uniqueness |-> "BUDGET_EXCEEDED", scope |-> "FULL", members |-> {}]
    /\ pc' = "done"
    /\ UNCHANGED << ask, attempt, base, keep, search >>

\* _solve_one up to the enumeration.  An item of zero rupees is invisible to the index,
\* which refuses it.
Solve ==
    /\ pc = "solving"
    /\ LET w == Rupees(ask)
       IN  \/ /\ \E i \in keep : w[i] = 0
              /\ Return("NONE_FOUND")
              /\ UNCHANGED totals
           \/ /\ \A i \in keep : w[i] # 0
              /\ AxisWidth(w, keep) > ask.cfg.maxAxisWidth
              /\ Return("BUDGET_EXCEEDED")
              /\ UNCHANGED totals
           \/ /\ \A i \in keep : w[i] # 0
              /\ AxisWidth(w, keep) <= ask.cfg.maxAxisWidth
              /\ totals' = Hits(ask, keep)
              /\ IF totals' = {}
                 THEN Return("NONE_FOUND")
                 ELSE pc' = "walking" /\ UNCHANGED answer
    /\ UNCHANGED << ask, attempt, base, keep, stack, found, solutions, nodes >>

-----------------------------------------------------------------------------
(***************************************************************************)
(* enumerate_solutions                                                     *)
(***************************************************************************)

\* A call of backtrack: the items of keep up to index top are undecided, chosen are
\* taken, and rest is what the undecided ones must add.
Frame(top, rest, chosen) == [top |-> top, rest |-> rest, chosen |-> chosen]

\* The greatest index of K up to k, or 0.
LastOf(K, k) == CHOOSE i \in 0 .. k : /\ i \in K \cup {0}
                                      /\ \A j \in K : j <= k => j <= i

Capped == found >= ask.cfg.enumerateCap

\* for total in totals: totals ascend, and all of them share one list and one cap.
NextTotal ==
    /\ pc = "walking" /\ stack = << >> /\ ~ Capped
    /\ \E total \in totals :
          /\ \A other \in totals : total <= other
          /\ totals' = totals \ {total}
          /\ stack' = << Frame(LastOf(keep, Len(ask.items)), total, {}) >>
    /\ UNCHANGED << ask, attempt, base, keep, found, solutions, nodes, answer, pc >>

\* Mutant of Children: an item that can be taken is taken.
ChildrenGreedy(q, K, f) ==
    LET w == Rupees(q)
        below == LastOf(K, f.top - 1)
        reachable == Reach(w, K)[f.top - 1]
    IN  IF f.rest - w[f.top] \in reachable
        THEN << Frame(below, f.rest - w[f.top], f.chosen \cup {f.top}) >>
        ELSE << Frame(below, f.rest, f.chosen) >>

\* The calls backtrack(f) makes: with the item at its top, and without it, each only
\* where the snapshot below that item says the rest can be reached.
Children(q, K, f) ==
    LET w == Rupees(q)
        below == LastOf(K, f.top - 1)
        reachable == Reach(w, K)[f.top - 1]
        take == IF f.rest - w[f.top] \in reachable
                THEN << Frame(below, f.rest - w[f.top], f.chosen \cup {f.top}) >>
                ELSE << >>
        skip == IF f.rest \in reachable
                THEN << Frame(below, f.rest, f.chosen) >>
                ELSE << >>
    IN  take \o skip

\* A node inside the tree.
Branch ==
    /\ pc = "walking" /\ stack # << >> /\ ~ Capped
    /\ nodes < ask.cfg.maxNodes
    /\ Head(stack).top # 0
    /\ nodes' = nodes + 1
    /\ stack' = Children(ask, keep, Head(stack)) \o Tail(stack)
    /\ UNCHANGED << ask, attempt, base, keep, totals, found, solutions, answer, pc >>

\* A leaf: the chosen items are a solution, unless they are none at all.
Leaf ==
    /\ pc = "walking" /\ stack # << >> /\ ~ Capped
    /\ nodes < ask.cfg.maxNodes
    /\ Head(stack).top = 0
    /\ nodes' = nodes + 1
    /\ stack' = Tail(stack)
    /\ LET f == Head(stack)
       IN  IF f.rest = 0 /\ (ask.cfg.requireNonempty => f.chosen # {})
           THEN found' = found + 1 /\ solutions' = solutions \cup {f.chosen}
           ELSE UNCHANGED << found, solutions >>
    /\ UNCHANGED << ask, attempt, base, keep, totals, answer, pc >>

\* BudgetExceeded: max_enum_nodes.
Overrun ==
    /\ pc = "walking" /\ stack # << >> /\ ~ Capped
    /\ nodes >= ask.cfg.maxNodes
    /\ Return("BUDGET_EXCEEDED")
    /\ UNCHANGED << ask, attempt, base, keep, search >>

\* The list is complete or full; equal sets in it count once.
Count ==
    /\ pc = "walking"
    /\ Capped \/ (stack = << >> /\ totals = {})
    /\ \/ /\ solutions = {}
          /\ Return("NONE_FOUND")
       \/ /\ \E S \in solutions :
                /\ solutions = {S}
                /\ answer' = [uniqueness |-> "UNIQUE", scope |-> Scope, members |-> S]
          /\ pc' = "done"
       \/ /\ \E S, T \in solutions : S # T
          /\ Return("AMBIGUOUS")
    /\ UNCHANGED << ask, attempt, base, keep, search >>

\* The result is the caller's; there is nothing left to do.
Stop == pc = "done" /\ UNCHANGED vars

Step == \/ PrunePass \/ Pruned \/ Split \/ GiveUp \/ Solve
        \/ NextTotal \/ Branch \/ Leaf \/ Overrun \/ Count
Next == Step \/ Stop

Spec == Init /\ [][Next]_vars
FairSpec == Spec /\ WF_vars(Step)

-----------------------------------------------------------------------------
(***************************************************************************)
(* Properties.                                                             *)
(***************************************************************************)

Frames == [top : 0 .. Len(ask.items), rest : Int, chosen : SUBSET (1 .. Len(ask.items))]
Answers == [uniqueness : {"PENDING", "NONE_FOUND", "UNIQUE", "AMBIGUOUS", "BUDGET_EXCEEDED"},
            scope : {"FULL", "REDUCED"}, members : SUBSET (1 .. Len(ask.items))]

TypeOK ==
    /\ ask \in Questions
    /\ attempt \in Nat
    /\ base \subseteq 1 .. Len(ask.items)
    /\ keep \subseteq base
    /\ totals \subseteq Int
    /\ stack \in Seq(Frames)
    /\ found \in Nat
    /\ solutions \subseteq SUBSET keep
    /\ nodes \in Nat
    /\ answer \in Answers
    /\ pc \in {"pruning", "splitting", "solving", "walking", "done"}

\* prune.py: "a feasible item is never removed".  No pass of the pruning loop, on the pool
\* or on a sub-window, drops an item of a set whose sum is in the window, although each
\* pass computes its bounds from what the passes before it left.
SolutionsKept == \A S \in Solutions(ask, base) : S \subseteq keep

\* The sets that call f of backtrack would list, and those with a total in sums.
Completions(q, K, f) ==
    {f.chosen \cup S : S \in {T \in SUBSET {i \in K : i <= f.top} :
                                Sum(Rupees(q), T) = f.rest}}
WithTotal(q, K, sums) == {S \in SUBSET K : Sum(Rupees(q), S) \in sums}

Admitted(q, sets) == {S \in sets : q.cfg.requireNonempty => S # {}}

\* enumerate_solutions lists every solution once: at every node, the sets listed and the
\* sets its pending calls lead to are together all the solutions, none is listed and still
\* to come, and none would be listed by two calls.  This is what makes one list with one cap
\* count solutions: a set listed twice would fill the cap and be counted as one.
WalkIsExact ==
    pc = "walking" =>
        LET left == [i \in 1 .. Len(stack) |-> Completions(ask, keep, stack[i])]
            later == WithTotal(ask, keep, totals)
            ahead == (UNION {left[i] : i \in 1 .. Len(stack)}) \cup later
        IN  /\ solutions \cup Admitted(ask, ahead) = Solutions(ask, keep)
            /\ solutions \cap ahead = {}
            /\ \A i, j \in 1 .. Len(stack) : i # j => left[i] \cap left[j] = {}
            /\ \A i \in 1 .. Len(stack) : left[i] \cap later = {}
            /\ found = Cardinality(solutions)

ZeroRupees == \E i \in base : Rupees(ask)[i] = 0

\* PLAN-P1 0.1, enumerate.py: uniqueness is assessed across the whole window.  Against brute
\* force over the unpruned (sub-window of the) pool: UNIQUE names the only solution there is,
\* AMBIGUOUS means there are two, and NONE_FOUND means there is none, unless an item of the
\* pool rounds to zero rupees; pruning, the order of the walk, the cap and the node budget
\* never show in an answer other than BUDGET_EXCEEDED: an answer on the full pool is the
\* Verdict that module ClearGate reckons with.
VerdictIsTrue ==
    pc = "done" =>
        /\ answer.uniqueness = "UNIQUE" => Solutions(ask, base) = {answer.members}
        /\ answer.uniqueness = "AMBIGUOUS" => \E S, T \in Solutions(ask, base) : S # T
        /\ answer.uniqueness = "NONE_FOUND" =>
              /\ base = 1 .. Len(ask.items)
              /\ ZeroRupees \/ Solutions(ask, base) \subseteq {{}}
        /\ answer.scope = "FULL" /\ answer.uniqueness # "BUDGET_EXCEEDED" =>
              /\ base = 1 .. Len(ask.items)
              /\ [uniqueness |-> answer.uniqueness, members |-> answer.members] =
                    Verdict(ask, base)

Paise(q) == [i \in 1 .. Len(q.items) |-> q.items[i].paise]

\* PLAN-P1 D6, money.py: a set that explains the credit to the paisa is not lost on the
\* rupee grid when epsilon is at least the rounding bound of its members: the search does
\* not answer NONE_FOUND, and an answer UNIQUE on the full pool is that set.
ExactIsFound ==
    pc = "done" /\ ~ ZeroRupees =>
        \A S \in SUBSET (1 .. Len(ask.items)) :
            LET odd == {i \in S : ~ IsWholeRupee(ask.items[i].paise)}
            IN  /\ S # {}
                /\ Sum(Paise(ask), S) = ask.target
                /\ RoundingBound(Cardinality(odd)) <= ask.cfg.epsilon
                => /\ answer.uniqueness # "NONE_FOUND"
                   /\ answer.uniqueness = "UNIQUE" /\ answer.scope = "FULL" =>
                         answer.members = S

\* solve_search answers: every pass drops an item, every node is counted, and there are
\* finitely many sub-windows.
EventuallyAnswered == <>(pc = "done")

=============================================================================
