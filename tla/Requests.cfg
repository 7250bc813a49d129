SPECIFICATION Spec
CONSTANTS
    Requests = {r1, r2}
    Orgs = {acme, bolt}
    Roots = {demo}
    Backends = {b1, b2}
    Repointed = {acme}
    Sql = Sql
    Unset = Unset
    NoData = NoData
SYMMETRY Symmetric
INVARIANTS
    OwnSchema
    OwnRecords
