----------------------------- MODULE MCTenants -----------------------------
EXTENDS Tenants

MCFounders == {"ann", "bob"}
MCAdmins == {"ops"}
MCKeepers == {"migrate"}
MCOrgs == {"acme", "old"}
MCOrgOf == [a \in MCFounders \cup MCAdmins |-> "acme"]
MCEmailOf == [a \in MCFounders \cup MCAdmins |-> IF a = "ops" THEN "ann" ELSE a]
OneBuild == [a \in MCFounders \cup MCAdmins \cup MCKeepers |-> [v \in 1 .. 3 |-> "a"]]
(* scripts/migrate.py runs a build whose 0001 was edited.                  *)
TwoBuilds == [OneBuild EXCEPT !["migrate"][1] = "b"]
MCOlder == [o \in {"old"} |-> [v \in 1 .. 2 |-> "a"]]
=============================================================================
