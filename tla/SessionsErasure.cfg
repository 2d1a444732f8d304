\* A password reset in flight while its account is erased.
CONSTANTS
    NULL = NULL
    Users = {u1}
    Admins = {}
    SessionIds = {s1}
    TokenIds = {t1}
    ResetIds = {k1}
    ChallengeIds = {}
    Requests = {r1, r2}
SPECIFICATION Spec
SYMMETRY Symmetry
CHECK_DEADLOCK FALSE
INVARIANT
    ErasedHasNoPassword
