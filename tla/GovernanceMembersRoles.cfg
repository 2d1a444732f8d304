\* Two users and two organisations: demotions, removals, joins and erasures
\* overlap.  Or two administrators and a third person: two role changes at once.
CONSTANTS
    NULL = NULL
    Users = {u1, u2, u3}
    Bootstrapped = {u1, u2}
    Orgs = {o1, o2}
    MemberIds = {1, 2, 3}
    ChangeIds = {c1, c2}
    Requests = {r1, r2}
SPECIFICATION MCSpec
SYMMETRY SmallSymmetry
CHECK_DEADLOCK FALSE
INVARIANTS
    OrgsKeepAdministrator
    OrgClaimBacked
PROPERTIES
    RoleChangesApproved
