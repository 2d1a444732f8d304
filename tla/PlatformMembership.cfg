\* Platform.cfg for one property: nobody but set_org_role changes an orgRole.
CONSTANTS
    NoEvent = 0
    english = english
    spanish = spanish
    w1 = w1
    Languages = {english, spanish}
    Events = {1, 2, 3}
    Publishable = {1, 3}
    LanguageOf <- MCLanguageOf
    Workers = {w1, w2}
    PlanIds = {1, 2, 3, 4}
    Dates = {1, 2}
    Attempts = 3
    MaxStalls = 1
    MaxFaults = 2
    MaxNights = 0
    MaxReruns = 0
    \* TenantRls: two requests on the one connection of the pool; users in and outside an
    \* organisation.
    Requests = {"r1", "r2"}
    Connections = {"c1"}
    Orgs = {"acme", "globex"}
    OrgOf <- MCOrgOf
    NilOrg = "nil"
    NoRole = "no role"
    Null = "null"
    Empty = ""
    \* Memories.
    MemoryIds = {"e1", "e2", "e3", "e4"}
    NoMemory = "none"
    Facts = {"goal"}
    \* DataKeys.
    Keys = {"k1", "k2"}
    NoKey = "none"
    Tasks = {"t1", "t2"}
    Ttl = 1
    MaxTime = 2
    \* Listings.
    Entries = {1, 2, 3, 4}
    NoEntry = 0
    Times = {1, 2}
    Limit = 1
    Deleters = {"d1"}
    \* Seed: a course with a key, a level under it, a lesson under that, and a badge.
    Ids = {1, 2, 3, 4, 5, 6, 7, 8}
    NoId = 0
    Names = {"course", "level", "lesson", "badge"}
    NoName = "none"
    Script <- MCScript
    Keyed = {"course"}
    ParentOf <- MCParentOf
    Executions = {"s1", "s2"}
    MaxRenames = 1
SPECIFICATION MCSpec
CHECK_DEADLOCK FALSE
INVARIANTS
    OrgRolesByFunctionOnly
