\* Three requests racing over one session; rotation against revocation and erasure.
CONSTANTS
    NULL = NULL
    Users = {u1}
    Admins = {}
    SessionIds = {s1}
    TokenIds = {t1, t2, t3}
    ResetIds = {}
    ChallengeIds = {}
    Requests = {r1, r2, r3}
SPECIFICATION Spec
SYMMETRY Symmetry
CHECK_DEADLOCK FALSE
INVARIANTS
    TypeOK
    OneLiveToken
    CurrentJtiInUse
    ErasedRotatesOnlyLate
PROPERTIES
    SingleRight
