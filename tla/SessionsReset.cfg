\* A login in flight while the password is reset.
CONSTANTS
    NULL = NULL
    Users = {u1}
    Admins = {}
    SessionIds = {s1, s2}
    TokenIds = {t1, t2}
    ResetIds = {k1}
    ChallengeIds = {}
    Requests = {r1, r2}
SPECIFICATION Spec
SYMMETRY Symmetry
CHECK_DEADLOCK FALSE
INVARIANT
    ResetClosesOldSessions
