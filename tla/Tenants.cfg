CONSTANTS
    Founders <- MCFounders
    Admins <- MCAdmins
    Keepers <- MCKeepers
    Orgs <- MCOrgs
    OrgOf <- MCOrgOf
    EmailOf <- MCEmailOf
    Sums = {"a", "b"}
    File <- TwoBuilds
    Older <- MCOlder
    MaxFaults = 1
SPECIFICATION Spec
INVARIANTS TypeOK Repairable ReadyBeforeUse OneFounder
CHECK_DEADLOCK FALSE
