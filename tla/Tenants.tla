------------------------------ MODULE Tenants ------------------------------
(***************************************************************************)
(* How an organisation comes to exist on PostgreSQL, and how its schema is *)
(* brought up to date: signup_submit (console/auth_routes.py), main of     *)
(* scripts/bootstrap_admin.py, IdentityStore.create_organization and       *)
(* create_user (identity/store.py), bootstrap_tenant (storage/engine.py)   *)
(* and apply_migrations (storage/migrate.py) over migrations/org.          *)
(*                                                                         *)
(* Founders are signups, admins are runs of bootstrap_admin, keepers are   *)
(* the callers that bootstrap an organisation which exists: record_run     *)
(* before every run and scripts/migrate.py.  Each commit is a step.  Any   *)
(* actor may stop between two of them, a query may fail on the server, and *)
(* an interrupt may make bootstrap_tenant close its connection, which      *)
(* commits, in the middle of a version.                                    *)
(***************************************************************************)
EXTENDS Naturals, FiniteSets, FiniteSetsExt

CONSTANTS
    Founders, Admins, Keepers,  \* the actors, three disjoint sets
    Orgs,           \* the clean slugs; org_id is the slug and the schema its image
    OrgOf,          \* the organisation a founder or an admin asks for
    EmailOf,        \* the address it signs up with
    Sums,           \* checksums of a migration file
    File,           \* File[a][v]: version v as the build actor a runs has it
    Older,          \* Older[o]: versions an organisation of an older build has
    MaxFaults       \* bound: stops, refused queries and interrupts in a behaviour

VARIABLES
    organization,   \* the org rows
    app_user,       \* the user rows: email, org, and the actor that made them
    begun,          \* begun[o]: versions that have a statement committed in o's schema
    structure,      \* structure[o]: versions that have them all
    migration,      \* migration[o][v]: the row schema_migration holds for v
    torn,           \* history: organisations interrupted after the RENAME of 0003
    pc,             \* where each actor is
    org,            \* the organisation it works on
    known,          \* what _applied returned to it
    at,             \* the version apply_migrations is at
    faults          \* history: faults so far

vars == << organization, app_user, begun, structure, migration, torn, pc, org, known, at,
           faults >>

Actors == Founders \cup Admins \cup Keepers
Versions == 1 .. 3      \* 0001_financial, 0002_run, 0003_run_accounting
Latest == Max(Versions)
None == "none"

Partial(f) == DOMAIN f \subseteq Versions /\ \A v \in DOMAIN f : f[v] \in Sums
Stopped == {"done", "refused", "failed"}
PCs == {"find", "select", "insert", "read", "apply", "user", "run"} \cup Stopped

ASSUME TenantConstants ==
    /\ Founders \cap Admins = {} /\ Keepers \cap (Founders \cup Admins) = {}
    /\ OrgOf \in [Founders \cup Admins -> Orgs]
    /\ \A a \in Actors : File[a] \in [Versions -> Sums]
    /\ \A o \in DOMAIN Older : o \in Orgs /\ Partial(Older[o])
    /\ \A o \in DOMAIN Older : \A v \in DOMAIN Older[o] : 1 .. v - 1 \subseteq DOMAIN Older[o]
    /\ MaxFaults \in Nat

TypeOK ==
    /\ organization \subseteq Orgs
    /\ app_user \subseteq [email : {EmailOf[a] : a \in Founders \cup Admins},
                           org : Orgs, by : Actors]
    /\ begun \in [Orgs -> SUBSET Versions] /\ structure \in [Orgs -> SUBSET Versions]
    /\ \A o \in Orgs : Partial(migration[o])
    /\ torn \subseteq Orgs
    /\ pc \in [Actors -> PCs]
    /\ org \in [Actors -> Orgs \cup {None}]
    /\ \A a \in Actors : Partial(known[a])
    /\ at \in [Actors -> 1 .. Latest + 1]
    /\ faults \in 0 .. MaxFaults

Nothing == [v \in {} |-> None]

(* Organisations of an older build have the migrations that build had.     *)
Init ==
    /\ organization = DOMAIN Older
    /\ app_user = {}
    /\ migration = [o \in Orgs |-> IF o \in DOMAIN Older THEN Older[o] ELSE Nothing]
    /\ structure = [o \in Orgs |-> DOMAIN migration[o]]
    /\ begun = structure
    /\ torn = {}
    /\ pc = [a \in Actors |-> IF a \in Keepers THEN "done" ELSE "find"]
    /\ org = [a \in Actors |-> IF a \in Keepers THEN None ELSE OrgOf[a]]
    /\ known = [a \in Actors |-> Nothing]
    /\ at = [a \in Actors |-> 1]
    /\ faults = 0

-----------------------------------------------------------------------------
Go(a, l) == pc' = [pc EXCEPT ![a] = l]

(* The end of a bootstrap: its local variables are gone.                   *)
Return(a, l) ==
    /\ Go(a, l)
    /\ known' = [known EXCEPT ![a] = Nothing]
    /\ at' = [at EXCEPT ![a] = 1]
Identity == << organization, app_user >>
Schemas == << begun, structure, migration, torn >>

(* find_organization: a founder is told the name is taken, an admin joins  *)
(* the organisation without bootstrapping it.                              *)
Find(a) ==
    /\ pc[a] = "find"
    /\ Go(a, IF org[a] \notin organization THEN "select"
             ELSE IF a \in Admins THEN "user" ELSE "refused")
    /\ UNCHANGED << Identity, Schemas, org, known, at, faults >>

(* create_organization selects the slug and inserts the row in one         *)
(* transaction: an AuthError if it sees the slug, the UNIQUE constraint if *)
(* another one commits it after the SELECT.                                *)
Select(a) ==
    /\ pc[a] = "select"
    /\ Go(a, IF org[a] \in organization THEN "refused" ELSE "insert")
    /\ UNCHANGED << Identity, Schemas, org, known, at, faults >>

(* Mutant: a slug that is taken is joined instead of refused.              *)
InsertOrgUpsert(a) ==
    /\ pc[a] = "insert"
    /\ Go(a, "read") /\ organization' = organization \cup {org[a]}
    /\ UNCHANGED << app_user, Schemas, org, known, at, faults >>

InsertOrg(a) ==
    /\ pc[a] = "insert"
    /\ IF org[a] \in organization
       THEN Go(a, "failed") /\ UNCHANGED organization
       ELSE Go(a, "read") /\ organization' = organization \cup {org[a]}
    /\ UNCHANGED << app_user, Schemas, org, known, at, faults >>

(* record_run for its tenant, or scripts/migrate.py --org and --all.       *)
Keep(a) ==
    /\ a \in Keepers /\ pc[a] \in {"done", "failed"}
    /\ \E o \in organization : org' = [org EXCEPT ![a] = o]
    /\ Go(a, "read")
    /\ UNCHANGED << Identity, Schemas, known, at, faults >>

-----------------------------------------------------------------------------
(* bootstrap_tenant creates the schema and calls apply_migrations.         *)
(* _applied reads the ledger once; any exception is taken for a first run. *)
(* Mutant: the exception is taken for a schema that is up to date.         *)
ReadAppliedAll(a, answers) ==
    /\ pc[a] = "read"
    /\ answers \/ faults < MaxFaults
    /\ known' = [known EXCEPT ![a] = IF answers THEN migration[org[a]] ELSE File[a]]
    /\ faults' = IF answers THEN faults ELSE faults + 1
    /\ Go(a, "apply")
    /\ UNCHANGED << Identity, Schemas, org, at >>

ReadApplied(a, answers) ==
    /\ pc[a] = "read"
    /\ answers \/ faults < MaxFaults
    /\ known' = [known EXCEPT ![a] = IF answers THEN migration[org[a]] ELSE Nothing]
    /\ faults' = IF answers THEN faults ELSE faults + 1
    /\ Go(a, "apply")
    /\ UNCHANGED << Identity, Schemas, org, at >>

Mismatch(a) == at[a] \in DOMAIN known[a] /\ known[a][at[a]] # File[a][at[a]]
Skips(a) == at[a] \in DOMAIN known[a] /\ known[a][at[a]] = File[a][at[a]]

(* The statements of a version on a schema: 0001 and 0002 only create and  *)
(* add IF NOT EXISTS, 0003 begins by renaming the column n_processed, which*)
(* is there once.  A version needs the tables of those before it.          *)
Before(v) == 1 .. v - 1
Once == {3}
Executes(o, v) ==
    /\ Before(v) \subseteq structure[o]
    /\ v \in Once => v \notin begun[o]

(* Mutant: the row names the next version.                                 *)
RecordedNext(rows, v, file) ==
    [w \in DOMAIN rows \cup {v + 1} |-> IF w = v + 1 THEN file ELSE rows[w]]
(* Mutant: a version is recorded when the next one is applied.             *)
RecordedBehind(rows, v, file) ==
    IF v = 1 THEN rows
    ELSE [w \in DOMAIN rows \cup {v - 1} |-> IF w = v - 1 THEN file ELSE rows[w]]
Recorded(rows, v, file) ==
    [w \in DOMAIN rows \cup {v} |-> IF w = v THEN file ELSE rows[w]]

With(versions, o, v) == [versions EXCEPT ![o] = @ \cup {v}]

(* The version an actor comes to is skipped, refused or executed: it is    *)
(* recorded as it is, or with another checksum, or not at all, and then a  *)
(* statement may be one the schema does not take.                          *)
Runs(a) ==
    /\ pc[a] = "apply" /\ at[a] <= Latest
    /\ ~Mismatch(a) /\ ~Skips(a) /\ Executes(org[a], at[a])

Skip(a) ==
    /\ pc[a] = "apply" /\ at[a] <= Latest
    /\ Skips(a)
    /\ at' = [at EXCEPT ![a] = @ + 1]
    /\ UNCHANGED << Identity, Schemas, pc, org, known, faults >>

(* Either error leaves the versions before.                                *)
Refuse(a) ==
    /\ pc[a] = "apply" /\ at[a] <= Latest
    /\ Mismatch(a) \/ (~Skips(a) /\ ~Executes(org[a], at[a]))
    /\ Return(a, "failed")
    /\ UNCHANGED << Identity, Schemas, org, faults >>

(* One transaction a version: its statements, its row, the commit.         *)
Apply(a) ==
    /\ Runs(a)
    /\ begun' = With(begun, org[a], at[a])
    /\ structure' = With(structure, org[a], at[a])
    /\ migration' = [migration EXCEPT ![org[a]] = Recorded(@, at[a], File[a][at[a]])]
    /\ at' = [at EXCEPT ![a] = @ + 1]
    /\ UNCHANGED << Identity, torn, pc, org, known, faults >>

(* An exception that is not the server's, Ctrl-C for one, between two      *)
(* statements of a version: bootstrap_tenant closes the connection, and    *)
(* close commits what was executed so far, without the row.                *)
Interrupt(a) ==
    /\ Runs(a) /\ faults < MaxFaults
    /\ begun' = With(begun, org[a], at[a])
    /\ structure' \in {structure, With(structure, org[a], at[a])}
    /\ torn' = IF at[a] \in Once THEN torn \cup {org[a]} ELSE torn
    /\ Return(a, "failed")
    /\ faults' = faults + 1
    /\ UNCHANGED << Identity, migration, org >>

EndApply(a) ==
    /\ pc[a] = "apply" /\ at[a] > Latest
    /\ Return(a, IF a \in Keepers THEN "run" ELSE "user")
    /\ UNCHANGED << Identity, Schemas, org, faults >>

(* A keeper that bootstrapped does its work and may come back.             *)
EndRun(a) ==
    /\ pc[a] = "run"
    /\ Go(a, "done")
    /\ UNCHANGED << Identity, Schemas, org, known, at, faults >>

-----------------------------------------------------------------------------
(* create_user: hash_password accepts the password or not and the address  *)
(* is looked up only now, with the organisation committed.                 *)
Taken(email) == \E u \in app_user : u.email = email

CreateUser(a, accepted) ==
    /\ pc[a] = "user"
    /\ IF ~accepted \/ Taken(EmailOf[a])
       THEN Go(a, "refused") /\ UNCHANGED app_user
       ELSE /\ Go(a, "done")
            /\ app_user' = app_user \cup {[email |-> EmailOf[a], org |-> org[a], by |-> a]}
    /\ UNCHANGED << organization, Schemas, org, known, at, faults >>

(* The process dies, or the server refuses what it asked next: either ends *)
(* the transaction, so that whatever was not committed is rolled back, and *)
(* nobody resumes the call.                                                *)
Fail(a) ==
    /\ pc[a] \notin Stopped /\ faults < MaxFaults
    /\ Return(a, "failed")
    /\ faults' = faults + 1
    /\ UNCHANGED << Identity, Schemas, org >>

-----------------------------------------------------------------------------
Founds(a) ==
    \/ Find(a) \/ Select(a) \/ InsertOrg(a)
    \/ \E accepted \in BOOLEAN : CreateUser(a, accepted)
Migrates(a) ==
    \/ \E answers \in BOOLEAN : ReadApplied(a, answers)
    \/ Skip(a) \/ Refuse(a) \/ Apply(a)
    \/ EndApply(a)
Next == \E a \in Actors :
    Founds(a) \/ Keep(a) \/ Migrates(a) \/ EndRun(a) \/ Interrupt(a) \/ Fail(a)

(* A bootstrap that has begun goes on; nobody has to begin one.            *)
Spec == Init /\ [][Next]_vars /\ \A a \in Actors : WF_vars(Founds(a) \/ Migrates(a) \/ EndRun(a))
-----------------------------------------------------------------------------
(* The next bootstrap succeeds or says which migration was edited, however *)
(* many run at once and whatever stopped half-way: what is recorded is     *)
(* built, what is begun stands on what is built, and 0003, which cannot be *)
(* repeated, is not begun without its row, unless an interrupt committed   *)
(* it (storage/pg.py:189): the organisation can then never be bootstrapped.*)
Stuck(o) == \E v \in Once : v \in begun[o] /\ v \notin DOMAIN migration[o]
Repairable == \A o \in Orgs :
    /\ DOMAIN migration[o] \subseteq structure[o] /\ structure[o] \subseteq begun[o]
    /\ \A v \in begun[o] : Before(v) \subseteq structure[o]
    /\ Stuck(o) <=> o \in torn

(* A founder's account and a run that starts have every table there is,    *)
(* and the ledger says so, although the organisation row is committed long *)
(* before its schema (identity/store.py:272, runner.py:170).               *)
Whole(o) == structure[o] = Versions /\ DOMAIN migration[o] = Versions
ReadyBeforeUse ==
    /\ \A u \in app_user : u.by \in Founders => Whole(u.org)
    /\ \A a \in Actors : pc[a] = "run" => Whole(org[a])

(* Two signups for one name never both found it: nobody else's account is  *)
(* put into an organisation by signing up (console/auth_routes.py:190).    *)
OneFounder == \A u, w \in app_user :
    u.by \in Founders /\ w.by \in Founders /\ u.org = w.org => u = w
=============================================================================
