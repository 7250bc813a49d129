# Residual Zero in TLA+

Residual Zero explains bank credits: for every credit of a bank statement it looks for
the set of ledger items (payments, refunds, fees, ...) whose sum is the credit, clears the
credit when there is exactly one such set, and sends it to an exception queue otherwise.
This directory holds a model of the program in `src/residual_zero` (below, paths are
relative to that directory), the TLC configurations that check it, and TLAPS proofs.

    tlc -config RunLedger_serial.cfg MCRunLedger      a run
    tlapm RunLedgerProofs.tla                         a proof

`PROJECT.json` lists the runs, the lines each definition models, the hazards, the findings
and the theorems.

## The system

| component | state it keeps | operations | what is hard |
|---|---|---|---|
| `audit.py` | `audit_entry` (a hash chain), `reconciliation_run` | append an entry; open, close, discard a run; verify the chain | two statements per append, rows deleted from the middle, counters that outlive rows |
| `runner.py` | none, drives the others | `record_run` for one organisation | called twice, killed, failing half way |
| `orchestrator.py` | locals of one execution | `run_split`: gates, search, disposition, writes | idempotency over credits, memory lost on restart |
| `verify.py`, `solver/fastpath.py` | `reconciliation`, `decomposition_member` | `verify_decomposition`, `verify_declared`, `write_cleared` | check, then replace, in several statements; amounts derived twice |
| `exceptions/` | `exception_queue`, resolutions, work | classify, raise, resolve, assign | console and runs write the same credit |
| `storage/` | connections, migrations | open, commit, migrate, bootstrap | commit on close, crash between migrations, poolers |
| `money.py`, `solver/` | none (one call) | prune, reach, enumerate, disambiguate | rounding, caps and budgets against uniqueness |
| `runtime/` | rung, worker pool | what each rung of the ladder allows | a rung that does less may clear more |
| `books.py`, `journal.py`, `rates.py` | none | conservation, double claims, journal | sums over all credits |
| `identity/`, `tenancy.py` | users, sessions, organisations, the tenant of a request | sign up, create, repoint, bind | crash between creation and schema; concurrent tenants |
| `ingest/webhooks.py` | event log, ledger, buffer | deliver, replay | order, duplicates, kills |
| `ingest/` (others) | cache of pulled settlements | parse, pull | typed failure, fall back |
| `semantic/provider.py` | the deadline of a request, the last call's result | call, explain, rewrite, pick a tool | one budget for calls in series, a provider that stalls |
| `qa/`, `mcp/` | transcript | ask, call a tool | round limits |
| `console/` | caches per organisation, work and resolution rows | pages, close pack, resolve | pages read next to running runs; caches that outlive requests |
| `stream/`, `bitemporal.py`, `controller/` | none | replays and reports | two time axes |

A run goes through them like this. `cli._cmd_run_org` calls `runner.record_run`, which
derives the run identity, asks `audit` whether it is already covered, opens its row and
calls `orchestrator.run_split`. That reads from the audit chain which credits already have
a result, and for each other credit builds a pool, searches, and writes one of: a
decomposition (`verify.write_cleared`) or an exception (`exceptions.write_exception`),
followed by an audit entry (`audit.append_entry`), each through a connection of its own
with its own commit. `record_run` then closes the row against the coverage counted from the
rows, or discards the run's entries when `run_split` raised. The webhook engine stands
beside this: it has its own file and no caller in the program but its tests.

Behind PostgreSQL an append takes an advisory lock and `close` commits what is open; behind
SQLite there is no lock but the database's, and `close` rolls back.

Beside the runs stand the web processes. A request is authenticated (`console/security.py`),
which binds its organisation for its duration (`tenancy.use_tenant`); every page opens its
own connections through `storage/engine.py`, scoped to that organisation's schema, and reads
the tables the runs write. A signup creates an organisation in the shared schema and then
bootstraps its own (`storage/migrate.py`); `record_run` bootstraps it again before each run.
A question to the assistant runs tools and calls a language-model provider over the
network under one deadline.

## Modules

| module | models |
|---|---|
| `AuditTable` | the rows of `audit_entry`, the statements run against them, `verify_chain` |
| `AuditChain` | any number of writers appending (read the head, insert) while runs are discarded |
| `RunLedger` | `record_run` with everything it calls that writes, kills, failures, interrupts |
| `WebhookLedger` | what the webhook engine promises |
| `Webhooks` | `deliver`, `_try_apply`, `_flush_buffer`, `replay`, kills |
| `Money`, `Subsets` | rupee arithmetic; the pool of a search, pruning and reachability as operators |
| `Search` | one call of `solve_search`, from the pool to the verdict |
| `Verifier` | do these lines explain this credit to the paisa: `verify_declared`, `verify_decomposition` |
| `Structure` | `disambiguate`: the six relations between the items of a set |
| `Diagnosis` | `classify`: the decision table of exception classes |
| `ClearGate` | `run_split` with all of the above, at every rung of the ladder; the journal |
| `Tenants` | signing up, creating an organisation, migrating its schema |
| `Desk` | the pages and the resolutions of the review desk, over RunLedger's tables |
| `Ask` | a question to the assistant: tools, provider calls, deadline, status card |
| `Requests` | concurrent requests of several organisations behind a transaction pooler |
| `MC...` | small constants for TLC |
| `...Proofs` | the theorems of the module they are named after |

How they compose. `RunLedger` refines `AuditChain`, and `Webhooks` refines `WebhookLedger`.
`Desk` extends `RunLedger`: its processes and the worker's interleave over one set of tables.
`ClearGate` extends `Subsets`, `Structure` (which extends `Verifier`) and `Diagnosis`; it takes
the search's answer from `Subsets!Verdict`, and `VerdictIsTrue` of `Search` says that what
`solve_search` answers on the full pool is exactly that. `RunLedger` takes what the gates find
as a constant, and `ClearGate` says what they find. `Tenants`, `Ask` and `Requests` share no
state with the others.

### AuditTable and AuditChain

A row is `[seq, run, payload, prev]`. The `entry_hash` column is not stored: sha256 over
the payload and the previous hash is taken to be collision free, so a hash *is* the sequence
of payloads it covers, and `HashOf(row)` appends the row's payload to `prev`. `ReadHead`
is the first half of `append_entry` (lock, `ORDER BY seq DESC LIMIT 1`, the new row),
`Insert` the second, `Abandon` the end of a transaction that did not commit, and `Discard`
the `DELETE` of `discard_run`, which takes no lock; the history variable `cut` is whether one of
them ever took a row that another follows.

### RunLedger

One variable per table, and per worker the locals of `run_split` that decide something:
its place, the snapshot `seen_ids`, `cleared_parents`, `n`. Each commit is an action, and so
is each read whose result is used by a later write: `LookUp` and `OpenRow` (`begin_run`
checks, then deletes and inserts), `CheckPrior` and `WriteCleared`, `ReadHead` and `Insert`,
`CountCoverage` and `CloseRow`. What the gates and the search find for a credit is the
constant `Explanations`, by run, for two configurations may find different sets for one
credit; the one predicate of `disambiguate` that reads state,
`refund_needs_parent`, is `Feasible`. A verdict is a disposition and the rule it was reached
by, because the FLAGGED entry of a raised gate (`Raised`, rule `trace_raised`) has no
exception row and every other one has. `prior` is what `write_cleared` found stored when it
looked. A run identity stands for organisation, dataset,
configuration and limit; runs of one organisation share all tables.

Faults: `Kill` (the process dies, or an exception leaves `record_run` without a discard),
`Fail` (an exception in `run_split`, which leads to the discard), and on PostgreSQL the
three interrupts that end a transaction of several statements half way, because
`PgConnection.close` commits it. `InsertRefused` is the primary key's refusal.

Every step of a worker is a step of AuditChain or leaves the chain alone:
`ImplementsAuditChain`, with `Writers <- Workers` and the variables of the same names.

### Webhooks

An event is its id and payload; a payload is abstracted to the item it carries, the parent a
refund names, or neither. One process, one connection: the engine is in `deliver` or `replay`
or idle, and every commit is a step. The set of applied ids that `_flush_buffer` keeps in
memory is the table itself, since nothing else writes it. Events are numbered as their ids
are ordered, which is the order of the flush. `clean` is history: no kill since the engine
was created or wiped.

`WebhookLedger` has no buffer, no log order and no program counter: events are received,
applied parent first, and the ledger is rebuilt now and then. The log as a set and the
applied items are its two variables.

### Money and Search

`Search` is one call of `solver.enumerate.solve_search` as a state machine: the arguments in
`ask`, and in `pc` the phase. *pruning* is the loop of `prune_indices`, a pass per step
(`Sweep`), each with bounds computed from what the passes before it left. *solving* is
`_solve_one` up to the enumeration: the index of `bitset_dp.py` (`Reach`, one snapshot per
item) and `hits_in_window`. *walking* is `enumerate_solutions`: `backtrack` recurses, so its
pending calls are `stack`, a call per step (`Branch`, `Leaf`), with the one list, the one cap
and the one budget that all totals share; `found` is the length of the list and `solutions`
its elements, which differ when a set is listed twice. `Count` reads the verdict off the
list. *splitting* goes through the sub-windows of `split_pool`, each pruned from the start.
An item is its paise, its age in days and whether its kind is one of the wide window;
`ToRupees` is the half-up rounding of `money.py`.

The definition the search is measured against is `Solutions`: all sets of the unpruned pool with
a sum in the window, by brute force. The definitions it shares with `ClearGate` are in
`Subsets`; `Verdict` is the answer as a function of the pool: none when the pruning
(`Survivors`, the fixpoint of `Sweep`) leaves nothing or an item of zero rupees (`Refused`), and
else what the number of `Solutions` says. Left out is what only describes a result: slack,
margin, strategy, counts; the nearest total and `collect_enumerated` are `ClearGate!Nearest` and
`Structure!Enumerated`.

### Verifier, Structure, Diagnosis, ClearGate

`ClearGate` runs one statement of credits, in order, at every rung of the ladder at once, each
rung with its own tables, so that what a rung clears can be compared with what another does. A
step (`Process`) is one iteration of the loop: `Judge` is what it decides, in the order of the
code (the declared fast path, the search, disambiguation, the ordering score, the verifier), and
`Book` what it writes. `Raise` is an iteration whose gates raise, `Export` the journal after the
loop, `Books` the batch's conservation identity, `Stop` the end of it; a HALTED rung processes
nothing. Items, reports, rates, configuration and flags are the statement; how far a search got
before its budget, whether the ordering score is high enough and which tier knows a counterparty
are parts of it, since they come from clocks, weights and texts.

`Verifier!VerifyOne` derives again what the rate table makes of the payments and compares it
with the lines; `Structure!Sound` is `solution_violations = []`; `Diagnosis!Rules` is the
table in its order, a rule at a time.

### Tenants

One action per commit of `signup_submit` (find, select, insert, bootstrap, create the user), of
`bootstrap_admin`, and of a keeper that bootstraps before a run. `migration[o]` is what the
schema's `schema_migration` says, `structure[o]` what was built, each with the content of the
file: an edited file has another checksum. A version an actor comes to is skipped (`Skip`),
refused (`Refuse`: another checksum, or a statement the schema does not take, which `Executes`
says of the RENAME of 0003), or executed with its row in one transaction (`Apply`). `Fail` is a
stop at any step, or a refused query, which `_applied` takes for a first run; either rolls back.
`Interrupt` does not: an exception between two statements of a version reaches the `finally` of
`bootstrap_tenant`, whose `close` commits what was executed. `begun` holds the versions that
have a statement committed, `structure` those that have them all, and `torn` remembers the
organisations in which that was the RENAME of 0003.

### Desk

`DeskStep` interleaves with RunLedger's steps. A page is assembled a statement at a time
(`OpenBatch`, `CountRows`, `ListRows`, `ReadAudits`, `OpenQueue`, `OpenClose`) and what it has
read so far is `page`; the headline's count of exceptions is a statement of its own. `Posted` is
what a view of the journal posts: the stored decompositions, or, in the default view, the CSV,
the Tally export and the close pack, the credits the overlay can journal as soon as there is one
(`Overlaid`, from the constants `Proven` and `Journalable`); `build_journal` refuses all of it
when one stored decomposition does not sum to its credit (`Refused`). `Believable` is the filter
on runs of `_entry_payloads`; `Gate` and `Says` are the status a row is shown with. `Know` and
`Record` are the two connections of a resolution. `split` is the cache of source records,
`Ingest` the script that fills the tables, `Restart` the desk's.

### Ask

`pc` is the place in a question, from the agent's playbook and the provider's picks to the
explanation and the rewrite. A call (`Dispatch`) sets its timeout to the cap or what is left
of the deadline, and is any number of blocking operations: `Receive` ends one and begins the
next, for `resp.read()` receives until the answer is complete and each receive has the timeout
again. `TimeOut` fires when the operation's time is up, `Tick` passes time everywhere, `Break`
is the connection error the transport does not catch. `ops` counts operations up to the bound
`Ops`, for `WithinBudget` only. `last` is the status card (`record_live_result`), and
`PickFails` the one failure of a pick that is recorded on it. Questions of several requests at
once are not modelled: they share nothing but this card.

### Requests

A request is any sequence of the accessors' calls: `OpenPage`, `OpenWrite`, `Execute`,
`EndTransaction`, `Close`, and `Split`, which reads the cache, or a file corpus whose directory
may be missing, or loads (`BeginLoad`, `EndLoad`) on one more connection. `server` is what each
of the pool's server connections would run a statement under (schema and mode), `conn` what the
process believes (`_path_scoped`) and `ran` what the last statement ran under. A connection
holds a server connection for a transaction only, and `PoolTimeout` is the pooler's answer to
one that finds none. `Repoint` changes an organisation's dataset under its running requests,
`Restart` is the process's.

## Runs

| run | question | bounds | states |
|---|---|---|---|
| `audit_chain` | does the lock and the key keep the chain a chain | 2 writers, 2 runs, 1 payload, seq bound | 3 938 |
| `ledger_serial` | one worker, two overlapping identities, any sequence of retries; is every credit decided in the end | 3 credits, 2 faults, interrupts | 4 726 |
| `ledger_concurrent` | two workers, an identity each, the same credits, no lock | 3 credits, 1 fault and the collisions it leads to | 76 182 |
| `webhooks` | order, duplicates, kills, replays | 6 events, 1 kill | 115 363 |
| `search` | is the verdict the brute-force one, at every cap, budget and sub-window | pools of up to 4 of 8 items, 4 credits, 4 configurations | 17 194 |
| `gate` | what is booked, queued and journalled at every rung | statements of two credits over picks from 18 items | 1 982 |
| `tenants` | signups, an administrator and an edited build race, with stops | 2 signups, 1 administrator, 1 keeper, 2 organisations, 1 fault | 139 775 |
| `desk` | pages and resolutions while runs are recorded | 1 worker, 2 runs, 4 credits, 1 reviewer, 1 fault | 237 821 |
| `ask` | deadlines, failures and the status card | 2 tools, operations counted to 3, ticks of 10 s | 838 154 |
| `requests` | schemas, modes and caches of two organisations | 2 requests, 2 server connections, 1 corpus | 1 114 216 |
| `ledger_discard`, `gate_ladder` | violated, see below | | |

What the passing runs show is in the comment above each property.

Bounds. `MaxFaults` bounds kills, failures and interrupts; two are enough for a fault in the
recovery from a fault. Collisions count too, and once they exceed the bound calls of
`record_run` no longer overlap, which only removes repetitions of what was already explored.
`MaxSeq` bounds the numbers of entries: without it the numbers would only ever be reached by
discarding and appending again, and it is set above every number the other bounds let the
runs reach. Three credits are one that clears at once, one whose two explanations are told
apart by what cleared before it, and one that raises: the three ways through the loop. The
second one's other explanation differs with the run, so that a different set is offered for a
credit that is stored, by a retry, by another identity and by another worker. Two
run identities, one a prefix of the other, are the smallest case of a shared credit. Six
events are two payments, a refund of one, two events of one refund of the other, and an event
with no item, in every order of arrival (so each refund also waits for a payment that has not
come); one kill falls at any commit, in a replay too,
and replays are unbounded.

The items of `search` have both signs, whole and odd paise, two amounts that differ in paise and
not in rupees, and one that rounds to zero rupees; the credits are 49, 98, 349 and 1047 paise.
The configurations make each limit bite on pools of four: a list of two or three, a budget of
three or twelve nodes, an axis of six, a pool of two with and without sub-windows; epsilon is
zero, one or two. The empty set is never admitted in the run, as in the program; the proofs
cover both.

The items of `gate` are a card payment with its fee, tax and withholding, the same by another
instrument, and items that tie with them or with each other, of every kind the relations are
about; the credits are found by search or declared by a report, with a wrong, an unknown or a
missing rate line, a reversed amount, a search that stops short, and gates that raise. Two
credits are enough for the one thing that passes from a credit to the next, the set that
lifts refunds. Every rule of the table but those that need other signals than these decides
somewhere.

`tenants` has a name three actors want and an older organisation at 0002, which an edited build
migrates; one fault (a stop, a refused query, an interrupt) falls at any step. In `desk` one
fault of each kind is enough for a page that straddles a kill, a failure with its discard, or an
interrupted clear; a fourth credit clears in every run, and the settlement report declares the
first, to the paisa in one of the two kinds of records, so that the journal is posted from
either source. `ask` scales the program's 40, 30, 8 and 30 seconds to ticks of ten; each tool is
in the playbook once and may be picked again, so that the tool, repeat and pick limits are all
met. `Horizon` bounds how late a tool may still be running, and no tool call is modelled to last
longer. Receives are not bounded; beyond `Ops` timeouts after the horizon the clocks stop
counting, which nothing then depends on: the budget is used up and so is the agent's time. In
`requests` two server connections are exactly as many as one request may need, so that two
requests exhaust them; `Repointed` names one organisation, for the other's dataset then stays
what it was; requests and server connections are symmetric.

Deadlock is checked in every run but `tenants`, whose actors end: an idle worker, engine, desk
or assistant can always be called again, and a search that has answered stutters.

Fairness. `FairSpec` of RunLedger assumes that a worker that is not killed goes on, which is
what a process does, and that `record_run` is issued again for each identity, however often
others are (strong, because the worker may be busy): nothing in the program does that, an
operator does. `EventuallyDecided` says what this achieves: every credit keeps a result in
the end, its own or another run's; `Torn` is the one way in which it does not. `FairSpec` of
Webhooks assumes that a call returns (weak fairness of the engine's steps), that what is not
stored is offered again and again (strong, because a call may find the engine busy; this is
the sender's at-least-once delivery), and that `replay` is called after a kill, which again
is an operator's task: the program calls it nowhere. `FairSpec` of Search assumes only that a
call that is not killed takes its next step. Ask's assumes that the process goes on, that
time passes and that a timeout fires; that the provider ever answers is not assumed.
`EventuallyEnds` has one hypothesis, that the provider does not send pieces of an answer for
ever: if it does, each within the timeout, the question stays open (`provider.py:302`). In
Tenants a bootstrap that has begun goes on; nobody has to begin one. Desk and Requests
assume nothing.

## What the code does otherwise than it says

Two runs TLC must find violated; `PROJECT.json` quotes the lines.

- `ledger_discard`: discarding a run whose entries another run's follow breaks the chain.
  `VerifiesUntilCut` says that nothing else does.
- `gate_ladder`: a degraded execution clears a credit that NORMAL leaves ambiguous, because
  what it did not clear no longer lifts a refund. `OnlyParentsLift` says that this is the
  only way.

Met while modelling, each shown by the model or readable at the line, without a run of its
own.

Runs and the chain:

- A run over credits that another identity recorded stays PARTIAL, and no retry completes it:
  `seen_ids` is over all runs (`orchestrator.py:159`), coverage is over one, and `runner.py:206`
  says that a retry completes it.
- Two executions of one identity: one completes, the other fails and discards the rows of
  both. `discard_run` leaves the counters, so the row still reads as complete
  (`runner.py:85`) and is never computed again. `CompleteIsCovered` holds under `Exclusive`
  and not without it.
- A run's row that is lost when `begin_run` is interrupted makes the entries of a killed
  execution believed: the desk hides entries of runs it knows to be unfinished (`app.py:394`).
- `write_cleared` promises that a different set for a stored credit is refused
  (`verify.py:100`). Two workers that share the credit may both look before either stores
  (`:109`), and the second then replaces what the first stored. `ClearedIsFinal` names this
  exception (`Overtaken`), which `ledger_concurrent` reaches, and no other.
- Clears and exceptions of a failed run stay; an execution that resumes starts with no
  cleared parents; on PostgreSQL an interrupted `write_cleared` leaves a credit cleared with
  a part of its members, which every later run refuses (`Torn`), and the journal page fails
  on; a page that was read before the run was discarded still calls the credit cleared
  (`AutoClearedIsPosted` therefore speaks of the members only as long as an entry says so);
  with a second worker on the credit an entry may say so too, since its interrupted rewrite
  tears the decomposition that the first has logged; a credit whose gates raise
  is logged FLAGGED without an exception row, so the desk neither counts nor lists it.
- The digest that names a run is taken over the tenant's root, while `run_split` reads
  `data/<split>/rendered`.

Gates:

- A credit the report declares is cleared with the declared members on the strength of a
  search over another set (`docs/SPEC.md:355`); one ledger item may be in two decompositions.
- NO_SEARCH clears nothing at all (`docs/SPEC.md:569` says otherwise) and READ_ONLY still
  writes exceptions. `degrade.step` and `monotonic_coverage` are called by nothing.
- A stream replay never marks an item consumed.

Webhooks: `deliver` takes an event's id from `event_id` or `id` (`webhooks.py:94`), the
buffer from `event_id` alone (`:80`): refunds stored under `id` share one buffer row. A stored
event that cannot be parsed ends every replay at its row.

Organisations:

- `migrate.py:12` calls a migration safe to repeat, and `:82` says that re-running resumes after
  a failure. Two bootstraps at once both run 0003, whose RENAME the loser fails on; the next
  bootstrap succeeds. An interrupt after the RENAME and before the row commits the one without
  the other (`engine.py:157`, `pg.py:191`), and then no bootstrap of that organisation ever
  succeeds. `Repairable` says that this is the only way: an organisation is stuck exactly when
  an interrupt left it so (`torn`).
- A refused query while the ledger is read is taken for an empty ledger (`migrate.py:71`): an
  edited 0001 or 0002 is then run again and its checksum replaced, where it should be reported.
- A signup that stops between the organisation's row and the user leaves the name taken for
  good, and an administrator who adds a user there does not bootstrap.

Desk:

- As soon as the overlay can journal one credit, the default journal, its exports and the close
  pack post the overlay's credits alone (`extra.py:292`, `:352`, `:374`, `:400`): a credit that
  only the search cleared is then on the certificate's count of auto-cleared credits and in
  none of them. `AutoClearedIsPosted` is about the views that post what is stored.

- The batch tile counts the clears among the rows of the queue, the certificate the believed
  entries (`app.py:540`, `extra.py:412`): the two differ. The recorded run is read on a second
  connection, although the comment says the same one. The rows of a PARTIAL run vanish while its
  retry runs.
- "No data" is cached for good, also when it stands for a failed query or an exhausted pool
  (`app.py:259`); `reset_caches` is for use "after an ingest" and nothing calls it.
- A request may hold one server connection while its loader waits for a second: enough
  requests at once wait for each other until the pooler gives up.

Assistant:

- The deadline "bounds the whole request" (`provider.py:123`), but a timeout is per blocking
  operation: a call may end late by one timeout for each operation after its first, which is what
  `WithinBudget` states, and how many there are is up to the provider. Five calls may be made,
  not four.
- A connection that breaks while an answer is read escapes `_default_post` (`Ask!Break`), and
  the question fails although templates "always work" (`finance_controller.py:111`).
- The status card says YES after a pick of a tool (`agent_loop.py:243`), not only "after a
  successful rewrite" (`provider.py:222`), and a pick whose answer is unusable is not recorded.
- An unused provider always leaves an error, so `TEMPLATE_FALLBACK` is recorded for nothing
  (`investigation_log.py:38`).

## Proofs

For every value of the constants (any workers, runs, credits, events, statements, requests;
locked or not), in eight modules:

- `AuditChainProofs`. `ChainInv` is inductive: keys are unique, a row at `seq` has a history of
  length `seq`, a row in flight under the lock is numbered above the table, and each row,
  committed or in flight, follows one that is there until a discard cuts the chain (`Cuts`).
  From it: `NoFork`, `LockedAppendNeverCollides`, `VerifiesUntilCut`. The fact about hashing
  they rest on is the lemma `HashLength`. What the chain is for is `SameHeadSameEntries` (SPEC
  F5, "makes tampering detectable"): two tables that `verify_chain` accepts and that have one
  head hash hold the same payloads in the same order. The n-th rows from the head are compared
  downwards (`HeadCovers`), and a hash without collision tells row from row (`HashTells`).
  `HeadSealsTheLog` adds that, until the chain is cut, any accepted table with the head of the
  log has the log's entries. It is about every table there could be, so no run states it.
- `RunLedgerProofs`. `LedgerInv` is inductive: types; a row in flight belongs to a worker
  between its two statements; and a verdict is in its table from before its entry is
  computed (`LoggedIsWritten` alone is not inductive, it says nothing of entries in flight).
  From it: `LoggedIsWritten`. `LedgerImplementsChain` is the refinement, one step per action,
  and `LedgerVerifiesUntilCut` carries AuditChain's theorem over through it. The other
  properties need assumptions on who executes what, each of which is in the theorem and each
  of which the runs with the property satisfy; without it the property fails (see above):
  - `Exclusive`: no run has two workers, which whoever starts runs has to see to. `RunningInv`:
    a run in execution is RUNNING, is not complete, and keeps the coverage its worker counted.
    From it `CompleteIsCovered` and `CompletedRowsStay`; with `CompletedInv` (a run that counts
    as COMPLETED reads as complete) and something to cover in every run, `BeliefIsKept`.
  - `RaisedOnce`: a credit whose gates raise, which is not added to `seen_ids`, is listed
    once. `ResumeInv`: what a worker has yet to decide and must not repeat is in its
    snapshot, a row in flight is the decision its worker stands at, and what it computed is
    covered. From it `AccountingAdds`, and, where no credit has two workers either
    (`Separate`: one worker, or datasets that share nothing), `OneResult`.
  - Nothing, for `ClearedIsFinal`. `ClearingInv`: what a worker is about to store is what
    `CheckPrior` found stored, if it found anything, and that is still what is stored unless
    another worker decides the credit too. An interrupted rewrite of the set by itself may
    leave a part of it (`Truncated`), on a connection that commits when closed.
  - `Separate` or `~ CloseCommits`: `WholeInv`, what is logged as cleared, or in flight to
    be, is stored whole.

  `ExclusiveInv`, their conjunction, is an invariant of `ledger_concurrent`. `DeskInv` adds what
  a page has read to `LedgerInv`: what it read of a table that only grows is still there, and a
  credit the landing page believes flagged by a decision has its exception by the time the page
  counts those (`PageInv`). From it `FlaggedIsListed` and `OfferedIsAccepted`, without
  assumption, and with `WholeInv` `AutoClearedIsPosted`.
- `WebhooksProofs`. `StoredInv` gives `ParentFirst` and the refinement `ImplementsLedger` for
  any events at all. With `WellFormed` (events of one item agree on it, refunds name payments,
  ids are under `event_id`, no payload raises) `FoldInv` says
  what part of the log is folded at every step, and from it `Settled`: the ledger and the
  buffer of the idle engine are functions of the set of stored events. This is F47's claim
  for any number of events in any order.
- `SearchProofs`. For pools of any size and amounts of either sign: `Shape` (types, and what
  each phase leaves) and `SolutionsKept` are inductive together, and `WalkIsExact` with them:
  a node's completions are divided between its two children (`NodeCompletions`), and a child
  is not called exactly when the snapshot says it has none. Then `Count` alone remains for
  what an answer tells of the solutions (`Truth`): a full list holds two sets because nothing
  is listed twice, a complete one holds everything. That an answer is the `Verdict` (`Match`)
  needs `PrunedInv` besides: on the full pool the loop of pruning stands at one of the
  `Passes`, each of which has dropped an item, so that it ends with the `Survivors`. Both
  make `VerdictIsTrue`. `ExactIsFound` follows from it and from `Rounding`: a hundred times a set's
  rupees is within fifty paise per odd member of its sum. `Sums` and `Reach` are recursive
  functions; what they compute for every input is proved by induction stated as membership of
  a set of indices (`UpTo`, from the well-foundedness of Nat), and that the recursions have a
  solution at all is `Iteration`.
- `ClearGateProofs`. `GateInv` adds to `OneExplanation` and `QueueIsHonest` that rows and
  exceptions are of credits the loop has passed (`Past`), that what lifts refunds is what the
  rows say where rows are written (`ParentsAreRows`: without it "sound" at the time of the
  clear and in the property could differ), and that an execution that ended wrote all it will
  (`LoopIsOver`). Each is the work of one judgement, so the proofs are about `Judge`: how each
  disposition and each class can come about. `LadderInv` compares a rung with NORMAL, beside
  which it runs (`Abreast`): as long as what lifts refunds is the same for both, a judgement
  that clears below clears the same members above (`NormalFollows`, `Shadows`), so that
  `OnlyParentsLift` names the only exception there is. `BooksInv` (rows were verified, a
  credit has one, and a refusal was over these rows) leads to `LedgerAddsUp`: what
  `verify.py` derives from the rate table, payment by payment, and what the journal adds up,
  line by line, are one number when the lines are due once (`LinesAreDue`, `ItemisedAddsUp`),
  from lemmas on sums over the sets of a partition (`SumSplit`, `SumGroups`). It needs that
  every item's instrument has a rate (`GateConstants`), which `config.py` rejects otherwise.
- `TenantsProofs`. `Repairable` needs that an actor between two migrations stands on those
  before, and has read no more than is built (`Standing`), and that 0003 is begun without its
  row only where an interrupt remembered it; `ReadyBeforeUse` that whoever is past the bootstrap
  has an organisation that is whole (`Bootstrapped`), and `OneFounder` that at most one actor
  holds a name it has inserted (`OneHolder`), from the primary key on.
- `AskProofs`. `Bounded` ties time to the operations begun: a call begun with `left` cannot be
  past the budget by more than one timeout for each operation before this one; `Times` and
  `Kinds` are the types, `Picking` the pick limit; `FailureShows` follows from what each return
  records.
- `RequestsProofs`. `Pooled` says that two connections at work never share a server connection,
  that an idle one is at its defaults (`Spare`), and that a connection that has scoped its
  transaction has a server set to its organisation and mode (`Good`, `Apart`); `Cached` that a
  cache entry is of the tenant that keys it. `OwnSchema` and `OwnRecords` follow.

Four theorems are the safe half of the liveness properties. `SearchDescends`, `EngineDescends`
and `QuestionsDescend` count what is left of a search, of `deliver` or `replay`, and of a
question as one number of several digits: sub-windows, phases, items or nodes; rows of the
log, then rows of the buffer; places of a question, what is left of a timeout, time. Each step
takes from it (a higher digit outweighs the lower ones: `Weight`, `RowOutweighs`,
`Outweighs`), and it starts no higher than the constants allow. `CallsDescend` says the same
of every call of `record_run` by itself: its steps and its faults take from `Todo`, and no
step of another worker changes it. So none of them runs for ever, in any interleaving and
whatever is in the tables. The exception is a piece of an answer: the provider may send any
number of them, and `QuestionsDescend` says of each that it gives back no more than one
timeout, so that a question takes no more steps than the limits and the number of pieces it
received allow. That the next step is taken is the fairness TLC assumes.

The proofs assume `ChainConstants`, `LedgerConstants`, `WebhookConstants`, `SearchConstants`,
`GateConstants`, `TenantConstants`, `AskConstants` and `RequestConstants`, which TLC evaluates
on every run.

So every invariant and every action property that a passing run checks is a theorem. Only
model-checked are the four liveness properties `EventuallyDecided`, `EventuallyApplied`,
`EventuallyAnswered` and `EventuallyEnds`: fairness, and the ENABLED behind it, is out of the
prover's reach, and for `EventuallyDecided` and `EventuallyApplied` so is what has to happen
again and again besides (runs recorded, events offered, replays started).

Each proof module states its own lemmas on induction and sums: a lemma with parameters is
cited in the module that states it or one that extends it, and `Search` and `ClearGate`
cannot be extended together.

## Not modelled

The map covers some 4 600 lines, an eighth of the repository and more than a sixth of
`src/residual_zero`. What it leaves out is mostly code that turns text into text, or figures
into reports, and keeps no state:

- the evaluation harness, the generator of synthetic corpora, the certification scripts, the
  browser extension and the tests, which is a third of the repository;
- the parsers of `ingest`: a parse returns all its rows or raises;
- what `console/` computes from the records alone (`extra.py`, `ops_pack.py`,
  `proof_explorer.py`, `facts.py`, `waterfall.py`), the intents, templates, queries and
  validators of `qa/`, and the tools of `mcp/`;
- prompts, redaction and the token budget of the language-model tiers; the cost of a tier
  decides nothing but whether it is asked, which ClearGate leaves open;
- `stream/`, `bitemporal.py` and `controller/`: pure functions of the tables, called after
  the fact. A model of them would restate their queries.

Sessions and tokens (`identity/store.py`) are state that could still be modelled; each of
their operations is one statement in one transaction of the shared schema, so that a model
would say what the statement says. The month close (`console/close_ops.py`) and the
settlement pull (`ingest/mcp_settlements.py`) write nothing and keep nothing.

## Plan

The model is complete along the plan of the project: core runs and chain, webhooks, search,
gates and ladder, organisations, desk, assistant, requests. Every safety and action property of
the passing runs is proved, and that what must end descends. What is left to prove: that what
`RunLedger` takes as a constant (`Explanations`, `Left`) is what `ClearGate` finds, as a
refinement of one execution.
