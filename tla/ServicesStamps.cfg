\* Services.cfg for one property: a token issued before a change is refused after it.
CONSTANTS
    NoReplica = NoReplica
    Slots = {x1, x2}
    Turns = {x1, x2}
    Replicas = {p1, p2}
    Trigger = 2
    Retain = 1
    DegradeAt = 2
    StopAt = 3
    DegradeHour = 4
    StopHour = 5
    Cost = 2
    EconomyCost = 1
    MaxMessages = 5
    MaxTies = 1
    MaxMinutes = 1
    MaxFailures = 1
    TwoMinutes = 2
    \* Billing: two webhooks at once for two events, or one at a time for three.
    Subs = {"s1", "s2"}
    MaxEvents = 2
    ThreeEvents = 3
    MaxRepeats = 1
    \* MfaLockout: three failures in three ticks lock for three; the code: five in ten
    \* minutes, for fifteen.
    LockoutFailures = 3
    Window = 2
    Duration = 3
    MaxAttempts = 9
    LockoutTime = 9
    \* RateLimit.
    Limit = 4
    WindowMs = 2
    MaxCalls = 9
    LimiterTime = 7
    MaxStops = 1
    \* AccessTokens: tokens meet only in the claims and the clock, and one of each shows
    \* what two would.
    Tokens = {k1}
    Checks = {r1}
    NoToken = NoToken
    PerSecond = 2
    AccessTtl = 2
    DenylistTtl = 2
    MaxClock = 8
    MaxChanges = 2
    MaxErrors = 1
    \* AuthClient.
    Session = s1
    MaxPairs = 4
    MaxExpiries = 2
    \* OAuth: of two identities one has the address of the account registered by password.
    Users = {"u1", "u2", "u3"}
    Registered = {"u1"}
    Identities = {"g1", "g2"}
    EmailOf <- MCEmailOf
    AddressOf <- MCAddressOf
    States = {"st1", "st2"}
    Nobody = "nobody"
    \* Notifications.
    Events = {1, 2, 3}
    NoEvent = 0
    Workers = {"w1", "w2"}
    Attempts = 2
    MaxStalls = 1
    MaxFaults = 2
    Kind <- MCKind
    MaxPreferences = 1
SPECIFICATION MCSpec
SYMMETRY Symmetry
CHECK_DEADLOCK FALSE
INVARIANTS
    EarlierTokensRejected
