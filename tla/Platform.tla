------------------------------ MODULE Platform ------------------------------
(* What is delivered through the queues, and five parts that share no state   *)
(* with it or with each other, each an instance whose parameters are          *)
(* constants here.                                                            *)
EXTENDS Recommendations

CONSTANTS
    Requests, Connections, OrgOf, Orgs, NilOrg, NoRole, Null, Empty,    \* TenantRls
    MemoryIds, NoMemory, Facts,                                         \* Memories, and Requests
    Keys, NoKey, Tasks, Ttl, MaxTime,                                   \* DataKeys
    Entries, NoEntry, Times, Limit, Deleters,                           \* Listings
    Ids, NoId, Names, NoName, Script, Keyed, ParentOf, Executions, MaxRenames \* Seed

VARIABLES
    conn, req,                                              \* TenantRls
    entry, memory, surfaced, forked,                        \* Memories
    clock, keyRow, activeKeyId, keyCache, task, sealed,     \* DataKeys
    dictionary, deleter, listing, seen, throughout, lost,   \* Listings
    table, execution, overlapped, renames                   \* Seed

Tenants == INSTANCE TenantRls

Learner == INSTANCE Memories WITH Entries <- MemoryIds, NoEntry <- NoMemory, req <- memory

Cipher == INSTANCE DataKeys WITH now <- clock, row <- keyRow

Dictionary == INSTANCE Listings WITH row <- dictionary

Reference == INSTANCE Seed WITH Runs <- Executions, run <- execution

ASSUME PlatformBounds ==
    /\ Tenants!RlsBounds /\ Learner!MemoriesBounds /\ Cipher!DataKeysBounds
    /\ Dictionary!ListingsBounds /\ Reference!SeedBounds

-----------------------------------------------------------------------------
(* What they promise, by the names their modules give it.                     *)

\* A statement reaches only rows its own caller is entitled to.
StatementsAsTheirCaller == Tenants!StatementsAsTheirCaller

\* Requests never update memberships themselves: as a migration says, not as
\* they all do.
OrgRolesByFunctionOnly == Tenants!OrgRolesByFunctionOnly

\* A fact that surfaced once can always surface again.
FactsKeepAVersion == Learner!FactsKeepAVersion

\* A key retired for long is used only after it was cached again.
RetiredKeyOnlyRenewed == Cipher!RetiredKeyOnlyRenewed

\* A listing shows what stays exactly once.
ListedOnce == Dictionary!ListedOnce

\* Repeated runs of the seed leave each row once, where it belongs.
SeededOnce == Reference!SeededOnce
=============================================================================
