--------------------------- MODULE TenantsProofs ----------------------------
(***************************************************************************)
(* Bootstrapping organisations, for any number of signups, admins and      *)
(* keepers, any builds, older organisations, stops and interrupts.         *)
(***************************************************************************)
EXTENDS Tenants, TLAPS

(* The variables indexed by actors and organisations are functions of them.*)
Shaped ==
    /\ known = [a \in Actors |-> known[a]]
    /\ migration = [o \in Orgs |-> migration[o]]

(* An actor under way works on an organisation, the one it asked for.      *)
Placed ==
    /\ \A a \in Actors : pc[a] \notin {"done", "failed"} => org[a] \in Orgs
    /\ \A a \in Founders \cup Admins : org[a] = OrgOf[a]
    /\ \A a \in Keepers : pc[a] \notin {"find", "select", "insert", "user"}
    /\ \A a \in Founders \cup Admins : pc[a] # "run"

(* apply_migrations stands on the versions before the one it is at, all    *)
(* recorded, and what _applied returned to it is recorded.                 *)
Standing == \A a \in Actors :
    /\ pc[a] = "apply" => /\ DOMAIN known[a] \subseteq DOMAIN migration[org[a]]
                          /\ Before(at[a]) \subseteq DOMAIN migration[org[a]]
    /\ pc[a] # "apply" => at[a] = 1

(* A founder that comes to its account has bootstrapped.                   *)
Bootstrapped == \A a \in Founders : pc[a] = "user" => Whole(org[a])

(* A founder past the INSERT holds the name, and nobody else does.         *)
Holds(a) == pc[a] \in {"read", "apply", "user"} \/ \E u \in app_user : u.by = a
OneHolder ==
    /\ \A a \in Founders : Holds(a) => org[a] \in organization
    /\ \A a, b \in Founders : Holds(a) /\ Holds(b) /\ org[a] = org[b] => a = b

(* A user row is what its maker inserted.                                  *)
Made == \A u \in app_user :
    /\ u.email = EmailOf[u.by]
    /\ u.by \in Founders \cup Admins /\ u.org = OrgOf[u.by]

TenantInv ==
    /\ TypeOK /\ Shaped /\ Placed
    /\ Repairable /\ Standing
    /\ Bootstrapped /\ ReadyBeforeUse
    /\ OneHolder /\ Made

-----------------------------------------------------------------------------
LEMMA LatestIsThree == Latest = 3 /\ Versions = 1 .. 3
<1>1. \E x \in Versions : \A y \in Versions : x >= y
  <2>1. 3 \in Versions /\ \A y \in Versions : 3 >= y
    BY DEF Versions
  <2> QED BY <2>1
<1> DEFINE m == CHOOSE x \in Versions : \A y \in Versions : x >= y
<1>2. m \in Versions /\ \A y \in Versions : m >= y
  BY <1>1
<1>3. m = 3
  BY <1>2 DEF Versions
<1> QED BY <1>3 DEF Latest, Max, Versions

(* What a step does to the schemas: versions come, in order, or nothing.   *)
Grown == \A o \in Orgs :
    structure[o] \subseteq structure'[o] /\ DOMAIN migration[o] \subseteq DOMAIN migration'[o]

LEMMA InitInv == Init => TenantInv
<1> SUFFICES ASSUME Init PROVE TenantInv
  OBVIOUS
<1> USE TenantConstants, LatestIsThree
<1>1. /\ \A o \in Orgs : Partial(migration[o]) /\ structure[o] = DOMAIN migration[o]
      /\ begun = structure /\ structure \in [Orgs -> SUBSET Versions]
  <2>1. Partial(Nothing)
    BY DEF Partial, Nothing
  <2>2. \A o \in Orgs : Partial(migration[o]) /\ structure[o] = DOMAIN migration[o]
    BY <2>1 DEF Init
  <2>3. structure = [o \in Orgs |-> DOMAIN migration[o]]
    BY DEF Init
  <2> QED BY <2>2, <2>3 DEF Init, Partial
<1>2. \A a \in Actors : known[a] = Nothing /\ Partial(known[a])
  BY DEF Init, Partial, Nothing
<1>3. TypeOK
  BY <1>1, <1>2 DEF Init, TypeOK, Actors, PCs, Stopped
<1>4. Shaped
  BY DEF Init, Shaped
<1>5. Placed
  BY DEF Init, Placed, Actors
<1>6. Repairable
  <2>1. DOMAIN Nothing = {}
    BY DEF Nothing
  <2>2. \A o \in Orgs : \A v \in structure[o] : Before(v) \subseteq structure[o]
    BY <1>1, <2>1 DEF Init, Before
  <2> QED BY <1>1, <2>2 DEF Init, Repairable, Stuck
<1>7. Standing /\ Bootstrapped /\ ReadyBeforeUse
  BY DEF Init, Standing, Bootstrapped, ReadyBeforeUse, Actors
<1>8. OneHolder /\ Made
  BY DEF Init, OneHolder, Holds, Made, Actors
<1> QED BY <1>3, <1>4, <1>5, <1>6, <1>7, <1>8 DEF TenantInv

-----------------------------------------------------------------------------
(* The steps that leave the schemas and what is known of them alone.       *)
SchemasRest == UNCHANGED << begun, structure, migration, torn, known, at >>

LEMMA IdentityInv ==
    TenantInv /\ (\E a \in Actors : Founds(a) \/ EndRun(a)) => TenantInv'
<1> SUFFICES ASSUME TenantInv, NEW a \in Actors, Founds(a) \/ EndRun(a) PROVE TenantInv'
  OBVIOUS
<1> USE TenantConstants, LatestIsThree
<1>0. SchemasRest /\ org' = org
  BY DEF Founds, EndRun, Find, Select, InsertOrg, CreateUser, Go, SchemasRest, Schemas
<1>1. /\ \E l \in PCs : Go(a, l)
      /\ faults' = faults
  BY DEF Founds, EndRun, Find, Select, InsertOrg, CreateUser, Go, PCs, Stopped
<1>2. CASE \/ Find(a) \/ Select(a) \/ EndRun(a)
  <2>1. Identity' = Identity
    BY <1>2 DEF Find, Select, EndRun, Identity
  <2>2. /\ pc[a] \in {"find", "select", "run"}
        /\ pc'[a] \in {"select", "insert", "user", "refused", "done"}
        /\ pc'[a] = "user" => a \in Admins
        /\ pc'[a] \in {"select", "insert", "user"} => a \notin Keepers
        /\ pc' = [pc EXCEPT ![a] = pc'[a]]
    BY <1>2 DEF TenantInv, TypeOK, Find, Select, EndRun, Go, Placed
  <2>3. TypeOK' /\ Shaped' /\ Repairable' /\ Made'
    BY <1>0, <1>1, <2>1 DEF TenantInv, TypeOK, Shaped, Repairable, Stuck, Made, SchemasRest, Identity, Go, Partial
  <2>4. Placed' /\ Standing' /\ Bootstrapped' /\ ReadyBeforeUse'
    <3>1. Placed'
      BY <1>0, <2>2 DEF TenantInv, TypeOK, Placed, Actors
    <3>2. Standing'
      BY <1>0, <2>2 DEF TenantInv, TypeOK, Standing, SchemasRest
    <3>3. Bootstrapped' /\ ReadyBeforeUse'
      BY <1>0, <2>1, <2>2, ZenonT(60) DEF TenantInv, TypeOK, Bootstrapped, ReadyBeforeUse, SchemasRest, Identity, Actors, Whole
    <3> QED BY <3>1, <3>2, <3>3
  <2>5. OneHolder'
    BY <1>0, <2>1, <2>2 DEF TenantInv, TypeOK, OneHolder, Holds, Identity, Actors
  <2> QED BY <2>3, <2>4, <2>5 DEF TenantInv
<1>3. CASE InsertOrg(a)
  <2>1. app_user' = app_user
    BY <1>3 DEF InsertOrg
  <2>2. /\ pc[a] = "insert" /\ a \in Founders \cup Admins
        /\ pc' = [pc EXCEPT ![a] = pc'[a]]
        /\ \/ pc'[a] = "failed" /\ organization' = organization
           \/ /\ pc'[a] = "read" /\ organization' = organization \cup {org[a]}
              /\ org[a] \notin organization
    BY <1>3 DEF TenantInv, TypeOK, InsertOrg, Go, Placed, Actors
  <2>3. TypeOK' /\ Shaped' /\ Repairable' /\ Made'
    BY <1>0, <1>1, <2>1, <2>2 DEF TenantInv, TypeOK, Shaped, Repairable, Stuck, Made, SchemasRest, Go, Placed, Partial
  <2>4. Placed' /\ Standing' /\ Bootstrapped' /\ ReadyBeforeUse'
    BY <1>0, <2>1, <2>2 DEF TenantInv, TypeOK, Placed, Standing, Bootstrapped, ReadyBeforeUse, SchemasRest, Actors, Whole
  <2>5. OneHolder'
    BY <1>0, <2>1, <2>2 DEF TenantInv, TypeOK, OneHolder, Holds, Actors
  <2> QED BY <2>3, <2>4, <2>5 DEF TenantInv
<1>4. CASE \E accepted \in BOOLEAN : CreateUser(a, accepted)
  <2> DEFINE row == [email |-> EmailOf[a], org |-> org[a], by |-> a]
  <2>1. organization' = organization
    BY <1>4 DEF CreateUser
  <2>2. /\ pc[a] = "user" /\ a \in Founders \cup Admins
        /\ pc' = [pc EXCEPT ![a] = pc'[a]]
        /\ org[a] = OrgOf[a] /\ org[a] \in Orgs
        /\ \/ pc'[a] = "refused" /\ app_user' = app_user
           \/ pc'[a] = "done" /\ app_user' = app_user \cup {row}
    BY <1>4 DEF TenantInv, TypeOK, CreateUser, Go, Placed, Actors
  <2>3. row.email = EmailOf[a] /\ row.org = org[a] /\ row.by = a
    OBVIOUS
  <2>4. row \in [email : {EmailOf[b] : b \in Founders \cup Admins}, org : Orgs, by : Actors]
    BY <2>2 DEF Actors
  <2> HIDE DEF row
  <2>5. TypeOK' /\ Shaped' /\ Repairable' /\ Made'
    BY <1>0, <1>1, <2>1, <2>2, <2>3, <2>4 DEF TenantInv, TypeOK, Shaped, Repairable, Stuck, Made, SchemasRest, Go, Partial
  <2>6. Placed' /\ Standing' /\ Bootstrapped' /\ ReadyBeforeUse'
    <3>1. Placed'
      BY <1>0, <2>2 DEF TenantInv, TypeOK, Placed, Actors
    <3>2. Standing'
      BY <1>0, <2>2 DEF TenantInv, TypeOK, Standing, SchemasRest
    <3>3. Bootstrapped'
      BY <1>0, <2>2 DEF TenantInv, TypeOK, Bootstrapped, SchemasRest, Actors, Whole
    <3>4. ReadyBeforeUse'
      <4>1. a \in Founders => Whole(org[a])
        BY <2>2 DEF TenantInv, Bootstrapped
      <4>2. \A b \in Actors : pc'[b] = "run" => pc[b] = "run"
        BY <2>2 DEF TenantInv, TypeOK
      <4> QED BY <1>0, <2>2, <2>3, <4>1, <4>2 DEF TenantInv, ReadyBeforeUse, SchemasRest, Whole
    <3> QED BY <3>1, <3>2, <3>3, <3>4
  <2>7. OneHolder'
    BY <1>0, <2>1, <2>2, <2>3 DEF TenantInv, TypeOK, OneHolder, Holds, Actors
  <2> QED BY <2>5, <2>6, <2>7 DEF TenantInv
<1> QED BY <1>2, <1>3, <1>4 DEF Founds

-----------------------------------------------------------------------------
(* The steps that leave the schemas alone and forget or learn about them.  *)
LEMMA CallInv ==
    TenantInv /\ (\E a \in Actors : \/ Keep(a) \/ EndApply(a) \/ Fail(a)
                                    \/ \E answers \in BOOLEAN : ReadApplied(a, answers))
    => TenantInv'
<1> SUFFICES ASSUME TenantInv, NEW a \in Actors,
                    \/ Keep(a) \/ EndApply(a) \/ Fail(a)
                    \/ \E answers \in BOOLEAN : ReadApplied(a, answers)
             PROVE TenantInv'
  OBVIOUS
<1> USE TenantConstants, LatestIsThree
<1>0. UNCHANGED << begun, structure, migration, torn, organization, app_user >>
  BY DEF Keep, EndApply, Fail, ReadApplied, Identity, Schemas
<1>1. Partial(Nothing) /\ DOMAIN Nothing = {}
  BY DEF Partial, Nothing
<1>2. /\ pc' = [pc EXCEPT ![a] = pc'[a]] /\ pc'[a] \in PCs
      /\ known' = [known EXCEPT ![a] = known'[a]] /\ Partial(known'[a])
      /\ at' = [at EXCEPT ![a] = at'[a]] /\ at'[a] \in 1 .. 4
      /\ org' = [org EXCEPT ![a] = org'[a]] /\ org'[a] \in Orgs \cup {None}
      /\ faults' \in 0 .. MaxFaults
      /\ pc'[a] # "apply" => at'[a] = 1
  <2>1. CASE Keep(a)
    BY <2>1 DEF Keep, Go, TenantInv, TypeOK, Shaped, PCs, Standing
  <2>2. CASE EndApply(a) \/ Fail(a)
    BY <2>2, <1>1 DEF EndApply, Fail, Return, Go, TenantInv, TypeOK, Shaped, PCs, Stopped
  <2>3. CASE \E answers \in BOOLEAN : ReadApplied(a, answers)
    BY <2>3, <1>1 DEF ReadApplied, Go, TenantInv, TypeOK, Shaped, PCs, Placed
  <2> QED BY <2>1, <2>2, <2>3
<1>3. TypeOK' /\ Shaped' /\ Repairable' /\ Made'
  <2>1. TypeOK'
    <3>1. \A b \in Actors : Partial(known'[b])
      BY <1>2 DEF TenantInv, TypeOK, Shaped
    <3>2. \A o \in Orgs : Partial(migration'[o])
      BY <1>0 DEF TenantInv, TypeOK
    <3>3. pc' \in [Actors -> PCs] /\ org' \in [Actors -> Orgs \cup {None}] /\ at' \in [Actors -> 1 .. 4]
      BY <1>2 DEF TenantInv, TypeOK
    <3> QED BY <1>0, <1>2, <3>1, <3>2, <3>3 DEF TenantInv, TypeOK
  <2>2. Shaped'
    BY <1>0, <1>2 DEF TenantInv, Shaped
  <2> QED BY <1>0, <2>1, <2>2 DEF TenantInv, Repairable, Stuck, Made
<1>4. /\ pc'[a] \in {"read", "apply", "user", "run", "failed"}
      /\ pc'[a] = "read" => a \in Keepers /\ org'[a] \in Orgs
      /\ pc'[a] = "apply" => pc[a] = "read"
      /\ pc'[a] = "user" => a \in Founders \cup Admins /\ pc[a] = "apply"
      /\ pc'[a] = "run" => a \in Keepers /\ pc[a] = "apply"
      /\ pc'[a] \in {"user", "run"} => Whole(org[a])
      /\ org'[a] # org[a] => a \in Keepers /\ pc'[a] = "read"
  <2>1. CASE Keep(a)
    BY <2>1 DEF Keep, Go, TenantInv, TypeOK
  <2>2. CASE EndApply(a)
    <3>1. pc[a] = "apply" /\ at[a] = 4 /\ org[a] \in Orgs /\ org' = org
      BY <2>2 DEF EndApply, TenantInv, TypeOK, Placed
    <3>2. Whole(org[a])
      <4>1. Before(4) \subseteq DOMAIN migration[org[a]]
        BY <3>1 DEF TenantInv, Standing
      <4>2. Before(4) = Versions
        BY DEF Before
      <4>3. DOMAIN migration[org[a]] \subseteq structure[org[a]] /\ structure[org[a]] \subseteq Versions
        BY <3>1 DEF TenantInv, TypeOK, Repairable
      <4> QED BY <3>1, <4>1, <4>2, <4>3 DEF TenantInv, TypeOK, Partial, Whole
    <3> QED BY <2>2, <3>1, <3>2 DEF EndApply, Return, Go, TenantInv, TypeOK, Actors
  <2>3. CASE Fail(a) \/ \E answers \in BOOLEAN : ReadApplied(a, answers)
    BY <2>3 DEF Fail, ReadApplied, Return, Go, TenantInv, TypeOK
  <2> QED BY <2>1, <2>2, <2>3
<1>5. Placed'
  BY <1>2, <1>4 DEF TenantInv, TypeOK, Placed, Actors
<1>6. Standing'
  <2>1. pc'[a] = "apply" => /\ at'[a] = 1 /\ org' = org /\ org[a] \in Orgs
                            /\ DOMAIN known'[a] \subseteq DOMAIN migration[org[a]]
    <3>1. CASE \E answers \in BOOLEAN : ReadApplied(a, answers)
      BY <3>1, <1>1 DEF ReadApplied, TenantInv, TypeOK, Shaped, Standing, Placed
    <3>2. CASE Keep(a) \/ EndApply(a) \/ Fail(a)
      BY <3>2 DEF Keep, EndApply, Fail, Return, Go, TenantInv, TypeOK
    <3> QED BY <3>1, <3>2
  <2>2. Before(1) = {}
    BY DEF Before
  <2> QED BY <1>0, <1>2, <2>1, <2>2 DEF TenantInv, TypeOK, Shaped, Standing
<1>7. Bootstrapped' /\ ReadyBeforeUse'
  BY <1>0, <1>2, <1>4, ZenonT(60) DEF TenantInv, TypeOK, Bootstrapped, ReadyBeforeUse, Whole, Actors
<1>8. OneHolder'
  BY <1>0, <1>2, <1>4 DEF TenantInv, TypeOK, OneHolder, Holds, Actors
<1> QED BY <1>3, <1>5, <1>6, <1>7, <1>8 DEF TenantInv

-----------------------------------------------------------------------------
LEMMA AtVersion ==
    ASSUME TenantInv, NEW a \in Actors, pc[a] = "apply", at[a] <= Latest
    PROVE  /\ at[a] \in Versions /\ org[a] \in Orgs /\ File[a][at[a]] \in Sums
           /\ Before(at[a] + 1) = Before(at[a]) \cup {at[a]}
           /\ Before(at[a]) \subseteq DOMAIN migration[org[a]]
           /\ Before(at[a]) \subseteq structure[org[a]]
<1>1. at[a] \in 1 .. 3 /\ org[a] \in Orgs /\ File[a][at[a]] \in Sums
  BY TenantConstants, LatestIsThree DEF TenantInv, TypeOK, Placed
<1>2. Before(at[a] + 1) = Before(at[a]) \cup {at[a]}
  BY <1>1 DEF Before
<1>3. Before(at[a]) \subseteq DOMAIN migration[org[a]]
  BY DEF TenantInv, Standing
<1> QED BY <1>1, <1>2, <1>3, LatestIsThree DEF TenantInv, Repairable

(* A version that is there already is passed over.                         *)
LEMMA SkipInv == TenantInv /\ (\E a \in Actors : Skip(a)) => TenantInv'
<1> SUFFICES ASSUME TenantInv, NEW a \in Actors, Skip(a) PROVE TenantInv'
  OBVIOUS
<1>1. /\ UNCHANGED << organization, app_user, begun, structure, migration, torn, pc, org, known, faults >>
      /\ at' = [at EXCEPT ![a] = at[a] + 1]
      /\ pc[a] = "apply" /\ at[a] <= Latest /\ at[a] \in DOMAIN known[a]
  BY DEF Skip, Skips, Identity, Schemas
<1>2. at[a] \in 1 .. 3 /\ Before(at[a] + 1) = Before(at[a]) \cup {at[a]}
  BY <1>1, AtVersion, LatestIsThree
<1>3. TypeOK' /\ Shaped' /\ Placed'
  BY <1>1, <1>2, LatestIsThree DEF TenantInv, TypeOK, Shaped, Placed
<1>4. Repairable'
  BY <1>1 DEF TenantInv, Repairable, Stuck
<1>5. Standing'
  BY <1>1, <1>2 DEF TenantInv, TypeOK, Standing
<1>6. Bootstrapped' /\ ReadyBeforeUse' /\ OneHolder' /\ Made'
  BY <1>1 DEF TenantInv, Bootstrapped, ReadyBeforeUse, OneHolder, Holds, Made, Whole
<1> QED BY <1>3, <1>4, <1>5, <1>6 DEF TenantInv

(* An error ends the bootstrap and leaves the schema.                      *)
LEMMA RefuseInv == TenantInv /\ (\E a \in Actors : Refuse(a)) => TenantInv'
<1> SUFFICES ASSUME TenantInv, NEW a \in Actors, Refuse(a) PROVE TenantInv'
  OBVIOUS
<1>1. /\ UNCHANGED << organization, app_user, begun, structure, migration, torn, org, faults >>
      /\ pc' = [pc EXCEPT ![a] = "failed"] /\ pc[a] = "apply"
      /\ known' = [known EXCEPT ![a] = Nothing]
      /\ at' = [at EXCEPT ![a] = 1]
  BY DEF Refuse, Return, Go, Identity, Schemas
<1>2. Partial(Nothing)
  BY DEF Partial, Nothing
<1>3. TypeOK' /\ Shaped' /\ Placed'
  <2>1. \A b \in Actors : Partial(known'[b])
    BY <1>1, <1>2 DEF TenantInv, TypeOK, Shaped
  <2>2. pc' \in [Actors -> PCs] /\ at' \in [Actors -> 1 .. 4]
    BY <1>1, LatestIsThree DEF TenantInv, TypeOK, PCs, Stopped
  <2>3. TypeOK'
    BY <1>1, <2>1, <2>2, LatestIsThree DEF TenantInv, TypeOK
  <2> QED BY <1>1, <2>3 DEF TenantInv, TypeOK, Shaped, Placed
<1>4. Standing' /\ Repairable'
  BY <1>1 DEF TenantInv, TypeOK, Shaped, Standing, Repairable, Stuck
<1>5. Bootstrapped' /\ ReadyBeforeUse' /\ OneHolder' /\ Made'
  BY <1>1 DEF TenantInv, TypeOK, Bootstrapped, ReadyBeforeUse, OneHolder, Holds, Made, Whole, Actors
<1> QED BY <1>3, <1>4, <1>5 DEF TenantInv

LEMMA WithVersion ==
    ASSUME NEW f \in [Orgs -> SUBSET Versions], NEW o \in Orgs, NEW v \in Versions
    PROVE  /\ With(f, o, v) \in [Orgs -> SUBSET Versions]
           /\ With(f, o, v)[o] = f[o] \cup {v}
           /\ \A p \in Orgs \ {o} : With(f, o, v)[p] = f[p]
BY DEF With

(* A version is built and recorded by one commit.                          *)
LEMMA ApplyInv == TenantInv /\ (\E a \in Actors : Apply(a)) => TenantInv'
<1> SUFFICES ASSUME TenantInv, NEW a \in Actors, Apply(a) PROVE TenantInv'
  OBVIOUS
<1> DEFINE o == org[a]
           v == at[a]
<1>0. /\ UNCHANGED << organization, app_user, torn, pc, org, known, faults >>
      /\ pc[a] = "apply" /\ at[a] <= Latest
      /\ Executes(o, v)
      /\ at' = [at EXCEPT ![a] = at[a] + 1]
      /\ begun' = With(begun, o, v) /\ structure' = With(structure, o, v)
      /\ migration' = [migration EXCEPT ![o] = Recorded(migration[o], v, File[a][v])]
  BY DEF Apply, Runs, Identity
<1>1. /\ v \in Versions /\ o \in Orgs /\ File[a][v] \in Sums
      /\ Before(v + 1) = Before(v) \cup {v}
      /\ Before(v) \subseteq DOMAIN migration[o] /\ Before(v) \subseteq structure[o]
  BY <1>0, AtVersion
<1>2. /\ begun' \in [Orgs -> SUBSET Versions] /\ structure' \in [Orgs -> SUBSET Versions]
      /\ begun'[o] = begun[o] \cup {v} /\ structure'[o] = structure[o] \cup {v}
      /\ \A p \in Orgs : p # o => begun'[p] = begun[p] /\ structure'[p] = structure[p]
  <2>1. begun \in [Orgs -> SUBSET Versions] /\ structure \in [Orgs -> SUBSET Versions]
    BY DEF TenantInv, TypeOK
  <2> HIDE DEF o, v
  <2> QED BY <1>0, <1>1, <2>1, WithVersion
<1>3. /\ \A p \in Orgs : Partial(migration'[p])
      /\ DOMAIN migration'[o] = DOMAIN migration[o] \cup {v}
      /\ \A p \in Orgs : p # o => migration'[p] = migration[p]
  <2>1. Partial(migration[o]) /\ \A p \in Orgs : Partial(migration[p])
    BY <1>1 DEF TenantInv, TypeOK
  <2>2. /\ migration'[o] = Recorded(migration[o], v, File[a][v])
        /\ \A p \in Orgs : p # o => migration'[p] = migration[p]
    BY <1>0, <1>1 DEF TenantInv, Shaped
  <2> HIDE DEF o, v
  <2>3. /\ Partial(Recorded(migration[o], v, File[a][v]))
        /\ DOMAIN Recorded(migration[o], v, File[a][v]) = DOMAIN migration[o] \cup {v}
    BY <1>1, <2>1 DEF Partial, Recorded
  <2> QED BY <2>1, <2>2, <2>3
<1>4. Grown
  BY <1>2, <1>3 DEF Grown
<1>5. TypeOK'
  BY <1>0, <1>1, <1>2, <1>3, LatestIsThree DEF TenantInv, TypeOK
<1>6. Shaped' /\ Placed'
  BY <1>0, <1>1 DEF TenantInv, TypeOK, Shaped, Placed
<1>7. Repairable'
  <2>1. v \in Once => v \notin begun[o]
    BY <1>0 DEF Executes
  <2>2. \A p \in Orgs : p = o => (Stuck(p)' <=> Stuck(p))
    <3> HIDE DEF o, v
    <3>1. CASE v \in Once
      BY <1>2, <1>3, <2>1, <3>1 DEF Stuck, Once
    <3>2. CASE v \notin Once
      BY <1>2, <1>3, <3>2 DEF Stuck
    <3> QED BY <3>1, <3>2
  <2>3. \A p \in Orgs : p # o => (Stuck(p)' <=> Stuck(p))
    BY <1>2, <1>3 DEF Stuck
  <2>4. Repairable
    BY DEF TenantInv
  <2>5. ASSUME NEW p \in Orgs
        PROVE  /\ DOMAIN migration'[p] \subseteq structure'[p] /\ structure'[p] \subseteq begun'[p]
               /\ \A w \in begun'[p] : Before(w) \subseteq structure'[p]
               /\ Stuck(p)' <=> p \in torn'
    <3>1. CASE p = o
      <4> HIDE DEF o, v
      <4> QED BY <1>0, <1>1, <1>2, <1>3, <2>2, <2>4, <3>1 DEF Repairable
    <3>2. CASE p # o
      <4> HIDE DEF o, v
      <4> QED BY <1>0, <1>2, <1>3, <2>3, <2>4, <3>2 DEF Repairable
    <3> QED BY <3>1, <3>2
  <2> QED BY <2>5 DEF Repairable
<1>8. Standing'
  BY <1>0, <1>1, <1>3, <1>4 DEF TenantInv, TypeOK, Standing, Grown, Placed
<1>9. Bootstrapped' /\ ReadyBeforeUse'
  <2>1. \A p \in Orgs : Whole(p) => Whole(p)'
    BY <1>2, <1>3, <1>4 DEF Whole, Grown, Partial
  <2>2. \A u \in app_user : u.org \in Orgs
    BY DEF TenantInv, TypeOK
  <2>3. \A b \in Actors : pc[b] \in {"user", "run"} => org[b] \in Orgs
    BY DEF TenantInv, Placed
  <2> QED BY <1>0, <2>1, <2>2, <2>3 DEF TenantInv, Bootstrapped, ReadyBeforeUse, Whole, Actors
<1>10. OneHolder' /\ Made'
  BY <1>0 DEF TenantInv, OneHolder, Holds, Made
<1> QED BY <1>5, <1>6, <1>7, <1>8, <1>9, <1>10 DEF TenantInv

(* An interrupt builds and records nothing, but may begin a version.       *)
LEMMA InterruptInv == TenantInv /\ (\E a \in Actors : Interrupt(a)) => TenantInv'
<1> SUFFICES ASSUME TenantInv, NEW a \in Actors, Interrupt(a) PROVE TenantInv'
  OBVIOUS
<1> DEFINE o == org[a]
           v == at[a]
<1>0. /\ UNCHANGED << organization, app_user, migration, org >>
      /\ pc[a] = "apply" /\ at[a] <= Latest
      /\ ~Mismatch(a) /\ ~Skips(a) /\ Executes(o, v)
      /\ pc' = [pc EXCEPT ![a] = "failed"]
      /\ known' = [known EXCEPT ![a] = Nothing]
      /\ at' = [at EXCEPT ![a] = 1]
      /\ begun' = With(begun, o, v)
      /\ structure' \in {structure, With(structure, o, v)}
      /\ torn' = IF v \in Once THEN torn \cup {o} ELSE torn
      /\ faults < MaxFaults /\ faults' = faults + 1
  BY DEF Interrupt, Runs, Identity, Return, Go
<1>1. /\ v \in Versions /\ o \in Orgs
      /\ Before(v) \subseteq structure[o]
  BY <1>0, AtVersion
<1>2. /\ begun' \in [Orgs -> SUBSET Versions] /\ structure' \in [Orgs -> SUBSET Versions]
      /\ begun'[o] = begun[o] \cup {v} /\ structure'[o] \in {structure[o], structure[o] \cup {v}}
      /\ \A p \in Orgs : p # o => begun'[p] = begun[p] /\ structure'[p] = structure[p]
  <2>1. begun \in [Orgs -> SUBSET Versions] /\ structure \in [Orgs -> SUBSET Versions]
    BY DEF TenantInv, TypeOK
  <2> HIDE DEF o, v
  <2> QED BY <1>0, <1>1, <2>1, WithVersion
<1>3. Partial(Nothing)
  BY DEF Partial, Nothing
<1>4. TypeOK' /\ Shaped' /\ Placed'
  <2>1. \A b \in Actors : Partial(known'[b])
    BY <1>0, <1>3 DEF TenantInv, TypeOK, Shaped
  <2>2. pc' \in [Actors -> PCs] /\ at' \in [Actors -> 1 .. 4]
    BY <1>0, LatestIsThree DEF TenantInv, TypeOK, PCs, Stopped
  <2>3. torn' \subseteq Orgs /\ faults' \in 0 .. MaxFaults
    BY <1>0, <1>1, TenantConstants DEF TenantInv, TypeOK
  <2>4. TypeOK'
    BY <1>0, <1>2, <2>1, <2>2, <2>3, LatestIsThree DEF TenantInv, TypeOK
  <2> QED BY <1>0, <2>4 DEF TenantInv, TypeOK, Shaped, Placed
<1>5. Repairable'
  <2>1. v \in Once => v \notin begun[o] /\ v \notin DOMAIN migration[o]
    BY <1>0, <1>1 DEF Executes, TenantInv, Repairable
  <2>2. \A p \in Orgs : p = o => (Stuck(p)' <=> p \in torn')
    <3> HIDE DEF o, v
    <3>1. CASE v \in Once
      BY <1>0, <1>2, <2>1, <3>1 DEF Stuck
    <3>2. CASE v \notin Once
      <4>1. \A p \in Orgs : p = o => (Stuck(p)' <=> Stuck(p))
        BY <1>0, <1>2, <3>2 DEF Stuck
      <4> QED BY <1>0, <3>2, <4>1 DEF TenantInv, Repairable
    <3> QED BY <3>1, <3>2
  <2>3. \A p \in Orgs : p # o => (Stuck(p)' <=> p \in torn')
    BY <1>0, <1>2 DEF Stuck, TenantInv, Repairable
  <2>4. Repairable
    BY DEF TenantInv
  <2>5. ASSUME NEW p \in Orgs
        PROVE  /\ DOMAIN migration'[p] \subseteq structure'[p] /\ structure'[p] \subseteq begun'[p]
               /\ \A w \in begun'[p] : Before(w) \subseteq structure'[p]
    <3>1. CASE p = o
      <4> HIDE DEF o, v
      <4> QED BY <1>0, <1>1, <1>2, <2>4, <3>1 DEF Repairable
    <3>2. CASE p # o
      <4> HIDE DEF o, v
      <4> QED BY <1>0, <1>2, <2>4, <3>2 DEF Repairable
    <3> QED BY <3>1, <3>2
  <2> QED BY <2>2, <2>3, <2>5 DEF Repairable
<1>6. Standing'
  BY <1>0 DEF TenantInv, TypeOK, Shaped, Standing
<1>7. Bootstrapped' /\ ReadyBeforeUse'
  <2>1. \A p \in Orgs : Whole(p) => Whole(p)'
    BY <1>0, <1>1, <1>2 DEF Whole
  <2>2. \A u \in app_user : u.org \in Orgs
    BY DEF TenantInv, TypeOK
  <2>3. \A b \in Actors : pc[b] \in {"user", "run"} => org[b] \in Orgs
    BY DEF TenantInv, Placed
  <2>4. \A b \in Actors : pc'[b] \in {"user", "run"} => pc[b] = pc'[b]
    BY <1>0 DEF TenantInv, TypeOK
  <2> QED BY <1>0, <2>1, <2>2, <2>3, <2>4 DEF TenantInv, Bootstrapped, ReadyBeforeUse, Whole, Actors
<1>8. OneHolder' /\ Made'
  BY <1>0 DEF TenantInv, TypeOK, OneHolder, Holds, Made, Actors
<1> QED BY <1>4, <1>5, <1>6, <1>7, <1>8 DEF TenantInv

LEMMA NextInv == TenantInv /\ [Next]_vars => TenantInv'
<1> SUFFICES ASSUME TenantInv, [Next]_vars PROVE TenantInv'
  OBVIOUS
<1>1. CASE Next
  BY <1>1, IdentityInv, CallInv, SkipInv, RefuseInv, ApplyInv, InterruptInv DEF Next, Migrates
<1>2. CASE UNCHANGED vars
  BY <1>2 DEF vars, TenantInv, TypeOK, Shaped, Placed, Repairable, Stuck, Standing, Bootstrapped,
              ReadyBeforeUse, Whole, OneHolder, Holds, Made
<1> QED BY <1>1, <1>2

LEMMA AlwaysTenantInv == Spec => []TenantInv
BY InitInv, NextInv, PTL DEF Spec

-----------------------------------------------------------------------------
(* Every row and every program counter is one of its kind.                 *)
THEOREM TenantsTyped == Spec => []TypeOK
<1>1. TenantInv => TypeOK
  BY DEF TenantInv
<1> QED BY <1>1, AlwaysTenantInv, PTL

(* Whatever stops a bootstrap, and however many run at once, what the      *)
(* ledger of an organisation names is built, and what stops the next       *)
(* bootstrap for ever is an interrupt inside 0003 and nothing else.        *)
THEOREM AlwaysRepairable == Spec => []Repairable
<1>1. TenantInv => Repairable
  BY DEF TenantInv
<1> QED BY <1>1, AlwaysTenantInv, PTL

(* No founder's account and no run that starts is on a half-built schema.  *)
THEOREM AlwaysReady == Spec => []ReadyBeforeUse
<1>1. TenantInv => ReadyBeforeUse
  BY DEF TenantInv
<1> QED BY <1>1, AlwaysTenantInv, PTL

(* Of all signups for one name at most one gets an account.                *)
THEOREM AlwaysOneFounder == Spec => []OneFounder
<1>1. TenantInv => OneFounder
  <2> SUFFICES ASSUME TenantInv, NEW u \in app_user, NEW w \in app_user,
                      u.by \in Founders, w.by \in Founders, u.org = w.org
               PROVE u = w
    BY DEF OneFounder
  <2>1. Holds(u.by) /\ Holds(w.by)
    BY DEF Holds
  <2>2. org[u.by] = u.org /\ org[w.by] = w.org
    BY DEF TenantInv, Made, Placed
  <2>3. u.by = w.by
    BY <2>1, <2>2 DEF TenantInv, OneHolder
  <2>4. u.email = w.email
    BY <2>3 DEF TenantInv, Made
  <2>5. u = [email |-> u.email, org |-> u.org, by |-> u.by]
        /\ w = [email |-> w.email, org |-> w.org, by |-> w.by]
    BY DEF TenantInv, TypeOK
  <2> QED BY <2>3, <2>4, <2>5
<1> QED BY <1>1, AlwaysTenantInv, PTL
=============================================================================
