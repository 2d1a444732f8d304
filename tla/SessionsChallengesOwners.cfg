\* A challenge token presented by two requests, around enrolment and erasure.
\* Or two accounts, one reset token: who revokes whose sessions, and how often
\* a reset token changes a password.
CONSTANTS
    NULL = NULL
    Users = {u1, u2, u3}
    Admins = {u3}
    SessionIds = {s1, s2}
    TokenIds = {t1, t2}
    ResetIds = {k1}
    ChallengeIds = {c1}
    Requests = {r1, r2}
SPECIFICATION Spec
SYMMETRY Symmetry
ACTION_CONSTRAINT StaysApart
CHECK_DEADLOCK FALSE
INVARIANTS
    ChallengeOpensOneSession
    ResetChangesPasswordOnce
PROPERTIES
    OwnerRevokes
