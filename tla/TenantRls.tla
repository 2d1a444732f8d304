------------------------------ MODULE TenantRls ------------------------------
(***************************************************************************)
(* Row-level security of app_role: every statement of a request with a     *)
(* tenant context runs in a transaction of its own, on a pooled connection,*)
(* behind one that sets the four session variables the policies read.      *)
(* What a finished transaction leaves in them is not relied on: they may   *)
(* be emptied, or (as tenant-rls.extension.ts reports) still be there.     *)
(*                                                                         *)
(* Rows are those of "User", "Organization", "OrganizationMembership",     *)
(* "AuditLog" and "Subscription", reduced to the columns policies compare. *)
(* A statement is taken on all rows of its table at once: which of them    *)
(* its WHERE picks is the caller's business.                               *)
(*                                                                         *)
(* The privileges of app_role refuse nothing: what 20260730120321 and      *)
(* 20260730121045 revoked, 20260806210659 grants again, every command on   *)
(* every table and column.  What is refused is refused by a policy, or for *)
(* want of one.                                                            *)
(***************************************************************************)
CONSTANTS
    Requests,       \* slots for requests in flight
    Connections,    \* of the pool
    OrgOf,          \* user ids -> organisation of the row, or Null
    Orgs,
    NilOrg,         \* NIL_ORG_ID: castable, and no row's
    NoRole,         \* NO_ORG_ROLE
    Null,
    Empty           \* '' : what a reverted variable holds, and no uuid

\* NIL_ORG_ID and NO_ORG_ROLE are constants that no row and no claim has.
RlsBounds ==
    /\ {NilOrg, Null, Empty} \cap (Orgs \cup DOMAIN OrgOf) = {}
    /\ \A u \in DOMAIN OrgOf : OrgOf[u] \in Orgs \cup {Null}
    /\ Empty \notin {NilOrg, "true", "false"} /\ NoRole # "ENTERPRISE_ADMIN"
    /\ Null \notin Requests

VARIABLES
    conn,       \* Connections -> request whose transaction it runs, and the settings
    req         \* Requests -> its AsyncLocalStorage and the statement under way

vars == <<conn, req>>

Users == DOMAIN OrgOf
\* Those granted to app_role, on all tables.
Commands == {"SELECT", "INSERT", "UPDATE", "DELETE"}

Row(table, user, org) == [table |-> table, user |-> user, org |-> org]

Rows ==
    {Row("User", u, OrgOf[u]) : u \in Users}
    \cup {Row("Organization", Null, o) : o \in Orgs}
    \cup {Row("OrganizationMembership", u, OrgOf[u]) : u \in {v \in Users : OrgOf[v] # Null}}
    \cup {Row("AuditLog", Null, o) : o \in Orgs \cup {Null}}
    \cup {Row("Subscription", u, Null) : u \in Users}
    \cup {Row("Subscription", Null, o) : o \in Orgs}

\* What JwtStrategy.validate returns: claims, which may be older than the rows.
Claims ==
    [user : Users, org : Orgs, role : {"MEMBER", "ENTERPRISE_ADMIN"}, admin : {FALSE}]
    \cup [user : Users, org : {Null}, role : {Null}, admin : BOOLEAN]

NoContext == [user |-> Null, org |-> Null, role |-> Null, admin |-> FALSE]
Reverted == [user |-> Empty, org |-> Empty, role |-> Empty, admin |-> Empty]
Unset == [user |-> Null, org |-> Null, role |-> Null, admin |-> Null]

-----------------------------------------------------------------------------
(* The policies.  A comparison with NULL admits nothing.                    *)

Self(s, row) == s.user # Null /\ row.user = s.user
SameOrg(s, row) == s.org # Null /\ row.org = s.org
OrgAdmin(s, row) == SameOrg(s, row) /\ s.role = "ENTERPRISE_ADMIN"
Admin(s) == s.admin = "true"

user_read(s, row) == Self(s, row) \/ SameOrg(s, row) \/ Admin(s)
user_update(s, row) == Self(s, row) \/ OrgAdmin(s, row) \/ Admin(s)
org_read(s, row) == SameOrg(s, row) \/ Admin(s)
org_update(s, row) == OrgAdmin(s, row) \/ Admin(s)
membership_read(s, row) == SameOrg(s, row) \/ Admin(s)
membership_write(s, row) == OrgAdmin(s, row) \/ Admin(s)
audit_read(s, row) == SameOrg(s, row) \/ Admin(s)
subscription_read(s, row) == Self(s, row) \/ SameOrg(s, row) \/ Admin(s)

ReadPolicy(s, row) ==
    \/ row.table = "User" /\ user_read(s, row)
    \/ row.table = "Organization" /\ org_read(s, row)
    \/ row.table = "OrganizationMembership" /\ membership_read(s, row)
    \/ row.table = "AuditLog" /\ audit_read(s, row)
    \/ row.table = "Subscription" /\ subscription_read(s, row)

\* subscription_read says no FOR, so it is a policy for every command; the ones
\* that are FALSE beside it take nothing away.
WritePolicy(s, cmd, row) ==
    \/ row.table = "User" /\ cmd = "UPDATE" /\ user_update(s, row)
    \/ row.table = "Organization" /\ (IF cmd = "UPDATE" THEN org_update(s, row) ELSE Admin(s))
    \/ row.table = "OrganizationMembership" /\ membership_write(s, row)
    \/ row.table = "AuditLog" /\ cmd = "INSERT"
    \/ row.table = "Subscription" /\ subscription_read(s, row)

Applied(s, cmd, row) == IF cmd = "SELECT" THEN ReadPolicy(s, row) ELSE WritePolicy(s, cmd, row)

\* A row an UPDATE or a DELETE finds must be one a SELECT would.
Admitted(s, cmd, row) ==
    /\ Applied(s, cmd, row)
    /\ cmd \in {"UPDATE", "DELETE"} => Applied(s, "SELECT", row)

\* A policy casts what it compares: '' is neither uuid nor boolean.
Castable(s) == Empty \notin {s.user, s.org, s.admin}

-----------------------------------------------------------------------------
Idle == [pc |-> "idle", ctx |-> NoContext, result |-> {}, failed |-> FALSE, cmd |-> "SELECT"]

Init ==
    /\ conn = [c \in Connections |-> [owner |-> Null, set |-> Unset]]
    /\ req = [r \in Requests |-> Idle]

\* A route without a guard, and the login route whose user has no userId, run
\* without a context.
intercept(r, ctx) ==
    /\ req[r].pc = "idle"
    /\ req' = [req EXCEPT ![r].pc = "ready", ![r].ctx = ctx]
    /\ UNCHANGED conn

String(b) == IF b THEN "true" ELSE "false"

\* As buildSetSessionVarsSql was with null columns left out.
SetPresentOnly(s, ctx) ==
    [s EXCEPT !.user = ctx.user, !.admin = String(ctx.admin),
              !.org = IF ctx.org = Null THEN @ ELSE ctx.org,
              !.role = IF ctx.role = Null THEN @ ELSE ctx.role]

buildSetSessionVarsSql(s, ctx) ==
    [user |-> ctx.user, admin |-> String(ctx.admin),
     org |-> IF ctx.org = Null THEN NilOrg ELSE ctx.org,
     role |-> IF ctx.role = Null THEN NoRole ELSE ctx.role]

\* $transaction([...]) takes a free connection and sets the variables on it.
SetSessionVars(r, c) ==
    /\ req[r].pc = "ready" /\ req[r].ctx # NoContext /\ conn[c].owner = Null
    /\ conn' = [conn EXCEPT ![c] = [owner |-> r, set |-> buildSetSessionVarsSql(@.set, req[r].ctx)]]
    /\ req' = [req EXCEPT ![r].pc = "set"]

Runs(r, s, table, cmd) ==
    req' = [req EXCEPT ![r].pc = "done", ![r].cmd = cmd, ![r].failed = ~ Castable(s),
              ![r].result = IF Castable(s)
                            THEN {row \in Rows : row.table = table /\ Admitted(s, cmd, row)}
                            ELSE {}]

\* The statement itself, second in the transaction.
Query(r, table, cmd) ==
    /\ req[r].pc = "set"
    /\ \E c \in Connections : conn[c].owner = r /\ Runs(r, conn[c].set, table, cmd)
    /\ UNCHANGED conn

\* Without a context the statement passes through, on whatever connection.
PassThrough(r, c, table, cmd) ==
    /\ req[r].pc = "ready" /\ req[r].ctx = NoContext /\ conn[c].owner = Null
    /\ Runs(r, conn[c].set, table, cmd)
    /\ UNCHANGED conn

\* The transaction ends, and the request goes on to its next statement or ends.
Finish(r) ==
    /\ req[r].pc = "done"
    /\ \E left \in {"kept", "reverted"} :
         conn' = [c \in Connections |->
                    IF conn[c].owner # r THEN conn[c]
                    ELSE [owner |-> Null, set |-> IF left = "kept" THEN conn[c].set ELSE Reverted]]
    /\ \/ req' = [req EXCEPT ![r] = [Idle EXCEPT !.pc = "ready", !.ctx = req[r].ctx]]
       \/ req' = [req EXCEPT ![r] = Idle]

Next ==
    \E r \in Requests :
        \/ \E ctx \in Claims \cup {NoContext} : intercept(r, ctx)
        \/ \E c \in Connections : SetSessionVars(r, c)
        \/ \E row \in Rows, cmd \in Commands :
             \/ Query(r, row.table, cmd)
             \/ \E c \in Connections : PassThrough(r, c, row.table, cmd)
        \/ Finish(r)

Spec == Init /\ [][Next]_vars

-----------------------------------------------------------------------------
\* Who may do what to which rows: members see their organisation, its administrator
\* manages its people, everyone has their own profile and subscription, the platform
\* administrator everything, and audit rows are never changed.
Entitled(ctx, cmd, row) ==
    LET mine == row.user = ctx.user
        member == ctx.org # Null /\ row.org = ctx.org
        manager == member /\ ctx.role = "ENTERPRISE_ADMIN"
    IN  \/ /\ row.table = "User"
           /\ \/ cmd = "SELECT" /\ (ctx.admin \/ member \/ mine)
              \/ cmd = "UPDATE" /\ (ctx.admin \/ manager \/ mine)
        \/ /\ row.table = "Organization"
           /\ ctx.admin \/ (cmd = "SELECT" /\ member) \/ (cmd = "UPDATE" /\ manager)
        \/ /\ row.table = "OrganizationMembership"
           /\ ctx.admin \/ (cmd = "SELECT" /\ member) \/ manager
        \/ /\ row.table = "AuditLog"
           /\ cmd = "INSERT" \/ (cmd = "SELECT" /\ (ctx.admin \/ member))
        \/ /\ row.table = "Subscription"
           /\ ctx.admin \/ member \/ mine

\* Whatever ran before on its connection, a statement of a request with a context
\* does not fail on a cast, and reaches only rows its own caller is entitled to.
StatementsAsTheirCaller ==
    \A r \in Requests : (req[r].pc = "done" /\ req[r].ctx # NoContext) =>
        /\ ~ req[r].failed
        /\ \A row \in req[r].result : Entitled(req[r].ctx, req[r].cmd, row)

\* "no freely-updatable columns at this Epic's scope -- [...] orgRole changes go
\* through set_org_role() only" (20260730120321): no request updates memberships
\* itself.  Not so since all was granted again.
OrgRolesByFunctionOnly ==
    \A r \in Requests :
        (req[r].pc = "done" /\ req[r].ctx # NoContext /\ req[r].cmd = "UPDATE") =>
            \A row \in req[r].result : row.table # "OrganizationMembership"
=============================================================================
