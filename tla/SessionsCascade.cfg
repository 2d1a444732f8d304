\* A rotation in flight while its session is revoked.
CONSTANTS
    NULL = NULL
    Users = {u1}
    Admins = {}
    SessionIds = {s1}
    TokenIds = {t1, t2}
    ResetIds = {}
    ChallengeIds = {}
    Requests = {r1, r2}
SPECIFICATION Spec
SYMMETRY Symmetry
CHECK_DEADLOCK FALSE
INVARIANT
    RevocationCascades
