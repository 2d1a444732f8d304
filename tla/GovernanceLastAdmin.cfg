\* Two administrators, one request at a time: one is erased, the other demoted.
CONSTANTS
    NULL = NULL
    Users = {u1, u2}
    Bootstrapped = {u1, u2}
    Orgs = {}
    MemberIds = {}
    ChangeIds = {c1}
    Requests = {r1}
SPECIFICATION Spec
SYMMETRY Symmetry
CHECK_DEADLOCK FALSE
INVARIANT
    LastAdminStays
