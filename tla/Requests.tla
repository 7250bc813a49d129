------------------------------ MODULE Requests ------------------------------
(***************************************************************************)
(* Organisations served at once by one process, behind a transaction       *)
(* pooler: the tenant of a request (tenancy.py), the connections opened    *)
(* for it (storage/engine.py, storage/pg.py), the server connections they  *)
(* share, and the caches of the desk (console/app.py).                     *)
(*                                                                         *)
(* Isolation is a search_path, and behind the pooler that is no property   *)
(* of a connection: each transaction may run on another server connection, *)
(* and what is set there must neither be missing nor stay.  A request is   *)
(* any sequence of the accessors' calls; a worker that records a run for   *)
(* an organisation is one as well.                                         *)
(***************************************************************************)
EXTENDS Integers

CONSTANTS
    Requests,
    Orgs,           \* organisations, and their schemas
    Roots,          \* roots of file corpora; an empty one means DEFAULT_RENDERED
    Backends,       \* server connections of the pool
    Repointed,      \* bound: organisations whose dataset is changed
    Sql, Unset, NoData  \* dataset_kind "sql"; the server's own setting; None

ASSUME RequestConstants ==
    /\ Sql \notin Roots
    /\ NoData \notin Roots \cup Orgs \cup {Unset}
    /\ Unset \notin Roots \cup Orgs
    /\ Roots \cap Orgs = {}
    /\ Repointed \subseteq Orgs

VARIABLES
    organization,   \* the dataset of each organisation
    serving,        \* the requests being served
    tenant,         \* [Requests -> Tenants]: _CURRENT, bound by the middleware
    conn,           \* the connections of a request, by what they are opened for
    server,         \* what each server connection would run a statement under
    split,          \* _SPLIT_CACHE, which _OVERLAY_CACHE follows
    shown           \* history: the sources a request has been given

vars == << organization, serving, tenant, conn, server, split, shown >>

Datasets == Roots \cup {Sql}
Tenants == [org : Orgs, dataset : Datasets]
Uses == {"page", "write", "source"}
Handles == Requests \X Uses
Settings == [path : Orgs \cup {Unset}, readonly : BOOLEAN]
Connections ==
    [schema : Orgs \cup {Unset}, readonly : BOOLEAN, state : {"closed", "between", "open", "failed"},
     scoped : BOOLEAN, backend : Backends \cup {Unset}, ran : Settings \cup {Unset}]

TypeOK ==
    /\ organization \in [Orgs -> Datasets]
    /\ serving \subseteq Requests
    /\ tenant \in [Requests -> Tenants \cup {Unset}]
    /\ conn \in [Handles -> Connections]
    /\ server \in [Backends -> Settings]
    /\ split \in [Tenants -> Orgs \cup Roots \cup {Unset, NoData}]
    /\ shown \in [Requests -> SUBSET (Orgs \cup Roots \cup {Unset, NoData})]

Default == [path |-> Unset, readonly |-> FALSE]

Closed ==
    [schema |-> Unset, readonly |-> FALSE, state |-> "closed", scoped |-> FALSE,
     backend |-> Unset, ran |-> Unset]

(* A PgConnection takes a server connection only when it begins to work.   *)
Fresh(schema, readonly) ==
    [Closed EXCEPT !.schema = schema, !.readonly = readonly, !.state = "between"]

Init ==
    /\ organization \in [Orgs -> Datasets]
    /\ serving = {}
    /\ tenant = [r \in Requests |-> Unset]
    /\ conn = [h \in Handles |-> Closed]
    /\ server = [b \in Backends |-> Default]
    /\ split = [t \in Tenants |-> Unset]
    /\ shown = [r \in Requests |-> {}]

-----------------------------------------------------------------------------
Working(h) == conn[h].state \in {"open", "failed"}
Free(b) == \A h \in Handles : Working(h) => conn[h].backend # b

(* The request is inside _load_split, and does nothing else.               *)
Loading(r) == conn[<< r, "source" >>].state # "closed"
MayUse(h) == h[1] \in serving /\ (Loading(h[1]) => h[2] = "source")

(* A credential was resolved, its organisation's row read.                 *)
Arrive(r, o) ==
    /\ r \notin serving
    /\ serving' = serving \cup {r}
    /\ tenant' = [tenant EXCEPT ![r] = [org |-> o, dataset |-> organization[o]]]
    /\ shown' = [shown EXCEPT ![r] = {}]
    /\ UNCHANGED << organization, conn, server, split >>

Opens(h, readonly) ==
    /\ MayUse(h) /\ conn[h].state = "closed"
    /\ conn' = [conn EXCEPT ![h] = Fresh(tenant[h[1]].org, readonly)]

(* _db(), and a write connection of some table owner.                      *)
OpenPage(r) ==
    /\ Opens(<< r, "page" >>, TRUE)
    /\ UNCHANGED << organization, serving, tenant, server, split, shown >>

OpenWrite(r) ==
    /\ Opens(<< r, "write" >>, FALSE)
    /\ UNCHANGED << organization, serving, tenant, server, split, shown >>

-----------------------------------------------------------------------------
(* A connection stays on its server connection for a transaction, and      *)
(* begins the next one on any that is free.                                *)
On(h, b) == IF conn[h].state = "between" THEN Free(b) ELSE b = conn[h].backend

(* _scope: once per transaction.  A writer sets no mode.                   *)
Scope(c, setting) ==
    IF c.scoped THEN setting
    ELSE [path |-> c.schema, readonly |-> setting.readonly \/ c.readonly]

Execute(h, b, outcome) ==
    /\ MayUse(h) /\ conn[h].state \in {"between", "open"} /\ On(h, b)
    /\ server' = [server EXCEPT ![b] = Scope(conn[h], @)]
    /\ conn' = [conn EXCEPT ![h].state = outcome, ![h].scoped = TRUE, ![h].backend = b,
                            ![h].ran = Scope(conn[h], server[b])]
    /\ UNCHANGED << organization, serving, tenant, split, shown >>

(* lock_for_append begins a transaction without _scope.                    *)
LockForAppend(r, b) ==
    LET h == << r, "write" >>
    IN  /\ MayUse(h) /\ conn[h].state \in {"between", "open"} /\ On(h, b)
        /\ conn' = [conn EXCEPT ![h].state = "open", ![h].backend = b]
        /\ UNCHANGED << organization, serving, tenant, server, split, shown >>

(* mutant: commit forgets that SET LOCAL ends with the transaction.        *)
BetweenScoped(c) == [c EXCEPT !.state = "between", !.backend = Unset, !.ran = Unset]

Between(c) == [c EXCEPT !.state = "between", !.scoped = FALSE, !.backend = Unset, !.ran = Unset]

(* What was SET LOCAL, and the mode of the transaction, end with it.       *)
Released(hs) ==
    server' = [b \in Backends |-> IF \E h \in hs : Working(h) /\ conn[h].backend = b
                                  THEN Default ELSE server[b]]

(* commit of a writer, executescript, and rollback_quietly of anybody.     *)
EndTransaction(h) ==
    /\ MayUse(h) /\ Working(h)
    /\ conn[h].readonly => conn[h].state = "failed"
    /\ conn' = [conn EXCEPT ![h] = Between(@)]
    /\ Released({h})
    /\ UNCHANGED << organization, serving, tenant, split, shown >>

Close(h) ==
    /\ MayUse(h) /\ conn[h].state # "closed" /\ h[2] # "source"
    /\ conn' = [conn EXCEPT ![h] = Closed]
    /\ Released({h})
    /\ UNCHANGED << organization, serving, tenant, split, shown >>

-----------------------------------------------------------------------------
(* cache_key: schema, kind and root.                                       *)
CacheKeySchema(t) == [t EXCEPT !.dataset = Sql]        \* mutant: the schema alone
CacheKey(t) == t

Give(r, source) == shown' = [shown EXCEPT ![r] = @ \cup {source}]

(* _split: what is cached, or a file corpus, which needs no connection; a  *)
(* directory that is not there is no data, and that is cached too ...      *)
Split(r, there) ==
    LET key == CacheKey(tenant[r])
        source == IF split[key] # Unset THEN split[key]
                  ELSE IF there THEN tenant[r].dataset ELSE NoData
    IN  /\ r \in serving /\ ~Loading(r)
        /\ split[key] # Unset \/ tenant[r].dataset # Sql
        /\ split' = [split EXCEPT ![key] = source]
        /\ Give(r, source)
        /\ UNCHANGED << organization, serving, tenant, conn, server >>

(* ... or the organisation's own tables, on a connection of its own, which *)
(* may be one more than the request already holds.                         *)
BeginLoad(r) ==
    /\ r \in serving
    /\ split[CacheKey(tenant[r])] = Unset /\ tenant[r].dataset = Sql
    /\ Opens(<< r, "source" >>, TRUE)
    /\ UNCHANGED << organization, serving, tenant, server, split, shown >>

Loads(r, source) ==
    /\ split' = [split EXCEPT ![CacheKey(tenant[r])] = source]
    /\ Give(r, source)
    /\ conn' = [conn EXCEPT ![<< r, "source" >>] = Closed]
    /\ Released({<< r, "source" >>})
    /\ UNCHANGED << organization, serving, tenant >>

(* The rows of the schema the statements ran in; any error is no data, and *)
(* so are empty tables, and both are cached.                               *)
EndLoad(r, empty) ==
    LET c == conn[<< r, "source" >>]
    IN  /\ r \in serving /\ c.state \in {"open", "failed"}
        /\ Loads(r, IF empty \/ c.state = "failed" THEN NoData ELSE c.ran.path)

-----------------------------------------------------------------------------
AllOf(r) == {r} \X Uses

(* A request ends with what it has opened closed, whatever ends it.        *)
Ends(r) ==
    /\ serving' = serving \ {r}
    /\ tenant' = [tenant EXCEPT ![r] = Unset]
    /\ conn' = [h \in Handles |-> IF h[1] = r THEN Closed ELSE conn[h]]
    /\ Released(AllOf(r))
    /\ UNCHANGED << organization, split, shown >>

Respond(r) ==
    /\ r \in serving /\ \A h \in AllOf(r) : conn[h].state = "closed"
    /\ Ends(r)

(* The pooler gives up on a statement that no server connection is free    *)
(* for: an error no accessor expects, but for _load_split.                 *)
PoolTimeout(h) ==
    /\ MayUse(h) /\ conn[h].state = "between" /\ ~ \E b \in Backends : Free(b)
    /\ IF h[2] = "source" THEN Loads(h[1], NoData) ELSE Ends(h[1])

(* set_organization_dataset.                                               *)
Repoint(o, d) ==
    /\ o \in Repointed
    /\ organization' = [organization EXCEPT ![o] = d]
    /\ UNCHANGED << serving, tenant, conn, server, split, shown >>

(* The process is restarted: its connections and caches are gone.          *)
Restart ==
    /\ serving' = {}
    /\ tenant' = [r \in Requests |-> Unset]
    /\ conn' = [h \in Handles |-> Closed]
    /\ Released(Handles)
    /\ split' = [t \in Tenants |-> Unset]
    /\ shown' = [r \in Requests |-> {}]
    /\ UNCHANGED organization

Next ==
    \/ \E r \in Requests :
          \/ \E o \in Orgs : Arrive(r, o)
          \/ OpenPage(r) \/ OpenWrite(r) \/ BeginLoad(r) \/ Respond(r)
          \/ \E there \in BOOLEAN : Split(r, there)
          \/ \E b \in Backends : LockForAppend(r, b)
          \/ \E empty \in BOOLEAN : EndLoad(r, empty)
    \/ \E h \in Handles :
          \/ \E b \in Backends, outcome \in {"open", "failed"} : Execute(h, b, outcome)
          \/ EndTransaction(h) \/ Close(h) \/ PoolTimeout(h)
    \/ \E o \in Orgs, d \in Datasets : Repoint(o, d)
    \/ Restart

Spec == Init /\ [][Next]_vars

-----------------------------------------------------------------------------
(* Every statement runs in the schema of its request's organisation, a     *)
(* reader's read-only and a writer's not, whatever ran before on the       *)
(* server connection it was given (storage/pg.py:113, and the two leaks    *)
(* docs/DEPLOYMENT.md reports under "Transaction pooling").                *)
OwnSchema == \A h \in Handles : conn[h].ran # Unset =>
    conn[h].ran = [path |-> tenant[h[1]].org, readonly |-> conn[h].readonly]

(* "One organisation's loaded corpus can never be served to another"       *)
(* (console/app.py:148), nor the one it was pointed at before: a request   *)
(* is given its own rows, its own corpus, or nothing.                      *)
OwnSource(t) == {NoData, IF t.dataset = Sql THEN t.org ELSE t.dataset}
OwnRecords == \A r \in serving : shown[r] \subseteq OwnSource(tenant[r])
=============================================================================
