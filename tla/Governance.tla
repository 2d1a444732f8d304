----------------------------- MODULE Governance -----------------------------
(***************************************************************************)
(* Who administers what: platform roles (approve_role_change and           *)
(* RoleLifecycleService), organisations and their members (set_org_role,   *)
(* enforce_last_enterprise_admin, OrganizationsService), and the erasure   *)
(* of an account as far as it touches them.                                *)
(*                                                                         *)
(* A request is a process whose steps are its READ COMMITTED statements.   *)
(* What a transaction has written and not committed is kept in its request *)
(* (joined, and a pc that says which row it holds): others do not   *)
(* see it, and wait for it where they would write the same row or take the *)
(* same advisory lock.  A request may stop anywhere (Abort); a transaction *)
(* that stops is rolled back, which is also how a deadlock ends.           *)
(*                                                                         *)
(* A request arrives with claims that agree with the database: how far an  *)
(* accepted token may lag behind it is not a question of this module.  Nor *)
(* are audit rows, events, and MfaGuard.                                   *)
(***************************************************************************)
EXTENDS Naturals, FiniteSets

CONSTANTS
    Users,          \* e-mail addresses, and the "User" rows they may get
    Bootstrapped,   \* those made ADMIN by bootstrap-admin.ts before the start
    Orgs,           \* ids an "Organization" row may be given
    MemberIds,      \* ids of "OrganizationMembership" rows
    ChangeIds,      \* ids of "RoleChangeRequest" rows
    Requests,       \* slots for requests in flight
    NULL

ASSUME GovernanceAssumption ==
    /\ Bootstrapped \subseteq Users
    /\ NULL \notin Users \cup Orgs \cup MemberIds \cup ChangeIds

VARIABLES
    user,       \* Users -> row of "User"
    orgs,       \* organisations that exist
    member,     \* MemberIds -> row of "OrganizationMembership"
    change,     \* ChangeIds -> row of "RoleChangeRequest"
    req         \* Requests -> where each request is and what it holds

vars == <<user, orgs, member, change, req>>

-----------------------------------------------------------------------------

\* ENTERPRISE_ADMIN as a platform role is treated by this code as TEACHER is.
Roles    == {"USER", "TEACHER", "ADMIN"}
OrgRoles == {"MEMBER", "ENTERPRISE_ADMIN"}

UserRow   == [status : {"none", "ACTIVE", "DELETED"}, role : Roles, org : Orgs \cup {NULL}]
MemberRow == [st : {"none", "present", "deleted"}, user : Users \cup {NULL},
              org : Orgs \cup {NULL}, role : OrgRoles]
ChangeRow == [st : {"none", "PENDING", "APPROVED"}, target : Users \cup {NULL},
              from : Roles, to : Roles, by : Users \cup {NULL}]

Steps ==
    {"idle", "target", "create", "approve", "claim", "countAdmins", "setRole",
     "member", "lockOrg", "demote", "setOrgRole", "remove", "removed",
     "invite", "attach", "account", "ownMember", "leave", "erase"}

\* to is the platform role or organisation role asked for; differ is
\* p_require_different_approver; found says that the invited e-mail had a row.
Request == [pc : Steps, caller : Users \cup {NULL}, user : Users \cup {NULL},
            org : Orgs \cup {NULL}, member : MemberIds \cup {NULL},
            change : ChangeIds \cup {NULL}, from : Roles, to : Roles \cup OrgRoles,
            differ : BOOLEAN, found : BOOLEAN,
            todo : SUBSET Users, joined : SUBSET Users]

Idle == [pc |-> "idle", caller |-> NULL, user |-> NULL, org |-> NULL, member |-> NULL,
         change |-> NULL, from |-> "USER", to |-> "USER", differ |-> TRUE, found |-> FALSE,
         todo |-> {}, joined |-> {}]

Active(u)      == user[u].status = "ACTIVE"
IsAdmin(u)     == Active(u) /\ user[u].role = "ADMIN"
Present(m)     == member[m].st = "present"
MembersOf(u, o) == {m \in MemberIds : Present(m) /\ member[m].user = u /\ member[m].org = o}
Administers(m) == Present(m) /\ member[m].role = "ENTERPRISE_ADMIN"

\* assertCallerManagesOrg, on claims signed by signAccessToken: orgRole is
\* looked up for the caller's own organisation only.
Manages(u, o) ==
    \/ IsAdmin(u)
    \/ Active(u) /\ user[u].org = o /\ \E m \in MembersOf(u, o) : Administers(m)

TouchesAdmin(c) == "ADMIN" \in {change[c].from, change[c].to}

\* Mutant: the row itself is counted.
OthersAdministerCountsSelf(m) ==
    \E n \in MemberIds : Administers(n) /\ member[n].org = member[m].org

\* The count both set_org_role and the trigger make.
OthersAdminister(m) ==
    \E n \in MemberIds \ {m} : Administers(n) /\ member[n].org = member[m].org

Proceed(r, step) == req' = [req EXCEPT ![r].pc = step]
Finish(r)        == req' = [req EXCEPT ![r] = Idle]

(* What transactions hold until they end.                                   *)

\* The row approve_role_change has claimed, and its advisory lock (43, 0).
ChangeHeld(c) == \E q \in Requests : req[q].pc \in {"countAdmins", "setRole"} /\ req[q].change = c
AdminLock     == \E q \in Requests : req[q].pc = "setRole" /\ TouchesAdmin(req[q].change)

\* A membership row deleted and not yet committed.
Deleting(q, m)  == req[q].pc \in {"removed", "erase"} /\ req[q].member = m
MemberHeld(m)   == \E q \in Requests : Deleting(q, m)

\* pg_advisory_xact_lock(44, org): taken by set_org_role, and by the trigger
\* when the row it fires for is an ENTERPRISE_ADMIN's.
HoldsOrgLock(q, o) ==
    \/ req[q].pc \in {"demote", "setOrgRole"} /\ req[q].org = o
    \/ \E m \in MemberIds : Deleting(q, m) /\ Administers(m) /\ member[m].org = o
OrgLock(o) == \E q \in Requests : HoldsOrgLock(q, o)

\* A user row inserted or updated by a join that has not committed.
UserHeld(u) == \E q \in Requests : u \in req[q].joined

Init ==
    /\ user = [u \in Users |->
                 IF u \in Bootstrapped THEN [status |-> "ACTIVE", role |-> "ADMIN", org |-> NULL]
                 ELSE [status |-> "none", role |-> "USER", org |-> NULL]]
    /\ orgs = {}
    /\ member = [m \in MemberIds |-> [st |-> "none", user |-> NULL, org |-> NULL, role |-> "MEMBER"]]
    /\ change = [c \in ChangeIds |-> [st |-> "none", target |-> NULL, from |-> "USER",
                                      to |-> "USER", by |-> NULL]]
    /\ req = [r \in Requests |-> Idle]

\* AuthService.register, one transaction: the e-mail must be free, and an
\* insert of the same e-mail under way is waited for.
Register(u) ==
    /\ user[u].status = "none"
    /\ ~UserHeld(u)
    /\ user' = [user EXCEPT ![u].status = "ACTIVE"]
    /\ UNCHANGED <<orgs, member, change, req>>

-----------------------------------------------------------------------------
(* Platform roles.                                                          *)

\* initiateRoleChange, behind @Roles('ADMIN').
Initiate(r, a, t, to) ==
    /\ req[r] = Idle
    /\ IsAdmin(a)
    /\ req' = [req EXCEPT ![r] = [Idle EXCEPT !.pc = "target", !.caller = a, !.user = t, !.to = to]]
    /\ UNCHANGED <<user, orgs, member, change>>

\* The target's role is read here and recorded below as fromRole.
ReadTarget(r) ==
    LET t == req[r].user IN
    /\ req[r].pc = "target"
    /\ IF user[t].status = "none" \/ user[t].role = req[r].to
       THEN Finish(r)
       ELSE req' = [req EXCEPT ![r] = [@ EXCEPT !.pc = "create", !.from = user[t].role]]
    /\ UNCHANGED <<user, orgs, member, change>>

\* The row is committed; a change away from the ADMIN tier is approved at once.
CreateChange(r) ==
    /\ req[r].pc = "create"
    /\ \E c \in ChangeIds :
         /\ change[c].st = "none"
         /\ change' = [change EXCEPT ![c] = [st |-> "PENDING", target |-> req[r].user,
                           from |-> req[r].from, to |-> req[r].to, by |-> req[r].caller]]
         /\ IF "ADMIN" \in {req[r].from, req[r].to}
            THEN Finish(r)
            ELSE req' = [req EXCEPT ![r] = [@ EXCEPT !.pc = "approve", !.change = c, !.differ = FALSE]]
    /\ UNCHANGED <<user, orgs, member>>

\* approveRoleChange, the endpoint: always asks for a second person.
SubmitApproval(r, a, c) ==
    /\ req[r] = Idle
    /\ IsAdmin(a)
    /\ change[c].st # "none"
    /\ req' = [req EXCEPT ![r] = [Idle EXCEPT !.pc = "approve", !.caller = a, !.change = c]]
    /\ UNCHANGED <<user, orgs, member, change>>

\* approve_role_change: the approver is read ...
ReadApprover(r) ==
    /\ req[r].pc = "approve"
    /\ IF IsAdmin(req[r].caller) THEN Proceed(r, "claim") ELSE Finish(r)
    /\ UNCHANGED <<user, orgs, member, change>>

Approvable(r) ==
    LET c == change[req[r].change] IN
    c.st = "PENDING" /\ (req[r].differ => c.by # req[r].caller)

ClaimAfter(r, approvable) ==
    /\ req[r].pc = "claim"
    /\ ~ChangeHeld(req[r].change)
    /\ IF ~approvable THEN Finish(r)
       ELSE Proceed(r, IF TouchesAdmin(req[r].change) THEN "countAdmins" ELSE "setRole")
    /\ UNCHANGED <<user, orgs, member, change>>

\* Mutant: p_require_different_approver forgotten.
ClaimChangeOwn(r) == ClaimAfter(r, change[req[r].change].st = "PENDING")

\* ... the request row is claimed: a claim under way is waited for ...
ClaimChange(r) == ClaimAfter(r, Approvable(r))

\* ... under the advisory lock, the other rows with role ADMIN are counted,
\* whatever their status; fromRole is what the request recorded ...
CountAdmins(r) ==
    LET c == change[req[r].change] IN
    /\ req[r].pc = "countAdmins"
    /\ ~AdminLock
    /\ IF /\ c.from = "ADMIN" /\ c.to # "ADMIN"
          /\ \A u \in Users \ {c.target} : user[u].status = "none" \/ user[u].role # "ADMIN"
       THEN Finish(r)
       ELSE Proceed(r, "setRole")
    /\ UNCHANGED <<user, orgs, member, change>>

\* ... and the role is written, on whatever the target has become; commit.
SetRole(r) ==
    LET c == req[r].change IN
    /\ req[r].pc = "setRole"
    /\ ~UserHeld(change[c].target)
    /\ user' = [user EXCEPT ![change[c].target].role = change[c].to]
    /\ change' = [change EXCEPT ![c].st = "APPROVED"]
    /\ Finish(r)
    /\ UNCHANGED <<orgs, member>>

-----------------------------------------------------------------------------
(* Members of an organisation: role and removal.                            *)

\* changeOrgMemberRole and removeMember, behind assertCallerManagesOrg.
ChangeOrgRole(r, a, u, o, to) ==
    /\ req[r] = Idle
    /\ Manages(a, o)
    /\ req' = [req EXCEPT ![r] = [Idle EXCEPT !.pc = "member", !.caller = a,
                                              !.user = u, !.org = o, !.to = to]]
    /\ UNCHANGED <<user, orgs, member, change>>

\* to = "USER", no organisation role, is how a removal is told apart.
RemoveMember(r, a, u, o) ==
    /\ req[r] = Idle
    /\ Manages(a, o)
    /\ req' = [req EXCEPT ![r] = [Idle EXCEPT !.pc = "member", !.caller = a,
                                              !.user = u, !.org = o]]
    /\ UNCHANGED <<user, orgs, member, change>>

FindMember(r) ==
    LET ms == MembersOf(req[r].user, req[r].org) IN
    /\ req[r].pc = "member"
    /\ IF ms = {} THEN Finish(r)
       ELSE \E m \in ms :
              req' = [req EXCEPT ![r] =
                         [@ EXCEPT !.member = m,
                                   !.pc = IF req[r].to \in OrgRoles THEN "lockOrg" ELSE "remove"]]
    /\ UNCHANGED <<user, orgs, member, change>>

\* set_org_role takes the lock, and only then reads who is asking.
LockOrg(r) ==
    LET a == req[r].caller
        o == req[r].org
    IN
    /\ req[r].pc = "lockOrg"
    /\ ~OrgLock(o)
    /\ IF /\ Present(req[r].member)
          /\ \/ IsAdmin(a)
             \/ Active(a) /\ \E m \in MembersOf(a, o) : Administers(m)
       THEN Proceed(r, "demote")
       ELSE Finish(r)
    /\ UNCHANGED <<user, orgs, member, change>>

Demotes(r) == Administers(req[r].member) /\ req[r].to = "MEMBER"

CheckDemotion(r) ==
    /\ req[r].pc = "demote"
    /\ IF Demotes(r) /\ ~OthersAdminister(req[r].member)
       THEN Finish(r)
       ELSE Proceed(r, "setOrgRole")
    /\ UNCHANGED <<user, orgs, member, change>>

\* The update, with the trigger's own check; no row is no error.  Commit.
WriteOrgRole(r) ==
    LET m == req[r].member IN
    /\ req[r].pc = "setOrgRole"
    /\ ~MemberHeld(m)
    /\ ~UserHeld(req[r].user)
    /\ IF Present(m) /\ (Demotes(r) => OthersAdminister(m))
       THEN member' = [member EXCEPT ![m].role = req[r].to]
       ELSE UNCHANGED member
    /\ Finish(r)
    /\ UNCHANGED <<user, orgs, change>>

\* DELETE of a membership, by removeMember and by requestDeletion: the row is
\* locked, then the trigger takes the lock of the organisation and counts.
\* A row that is gone fails the request, and so does the trigger.
DeleteMember(r) ==
    LET m == req[r].member IN
    /\ req[r].pc \in {"remove", "leave"}
    /\ ~MemberHeld(m)
    /\ Administers(m) => ~OrgLock(req[r].org)
    /\ IF Present(m) /\ (Administers(m) => OthersAdminister(m))
       THEN Proceed(r, IF req[r].pc = "remove" THEN "removed" ELSE "erase")
       ELSE Finish(r)
    /\ UNCHANGED <<user, orgs, member, change>>

RemovalLeaving(r, org) ==
    LET u == req[r].user IN
    /\ req[r].pc = "removed"
    /\ ~UserHeld(u)
    /\ member' = [member EXCEPT ![req[r].member].st = "deleted"]
    /\ user' = [user EXCEPT ![u].org = org]
    /\ Finish(r)
    /\ UNCHANGED <<orgs, change>>

\* Mutant: the user row keeps its organizationId.
CommitRemovalKeepsOrg(r) == RemovalLeaving(r, user[req[r].user].org)

\* removeMember clears organizationId, whichever organisation it names; commit.
CommitRemoval(r) == RemovalLeaving(r, NULL)

-----------------------------------------------------------------------------
(* Joining an organisation.                                                 *)

\* createOrganization, behind @Roles('ADMIN'): the row has a fresh id, and
\* the first member is to be its ENTERPRISE_ADMIN.
CreateOrganization(r, a, o, u) ==
    /\ req[r] = Idle
    /\ IsAdmin(a)
    /\ o \notin orgs
    /\ \A q \in Requests : req[q].org # o
    /\ req' = [req EXCEPT ![r] = [Idle EXCEPT !.pc = "invite", !.caller = a, !.org = o,
                                              !.to = "ENTERPRISE_ADMIN", !.todo = {u}]]
    /\ UNCHANGED <<user, orgs, member, change>>

\* addMembers: the whole batch is one transaction.
AddMembers(r, a, o, us, to) ==
    /\ req[r] = Idle
    /\ Manages(a, o)
    /\ o \in orgs
    /\ us # {}
    /\ req' = [req EXCEPT ![r] = [Idle EXCEPT !.pc = "invite", !.caller = a, !.org = o,
                                              !.to = to, !.todo = us]]
    /\ UNCHANGED <<user, orgs, member, change>>

\* upsertMember looks the e-mail up.  (An erased e-mail is not invited again.)
FindInvited(r, u) ==
    /\ req[r].pc = "invite"
    /\ u \in req[r].todo
    /\ user[u].status # "DELETED"
    /\ IF user[u].org # NULL THEN Finish(r)
       ELSE req' = [req EXCEPT ![r] = [@ EXCEPT !.pc = "attach", !.user = u,
                                                 !.found = (user[u].status # "none")]]
    /\ UNCHANGED <<user, orgs, member, change>>

\* It updates the row it found, by id and without looking again, or inserts
\* one if the e-mail is still free; the membership must be the first of this
\* user here.  Both statements wait for whoever writes the same rows.
Attach(r) ==
    LET u == req[r].user
        o == req[r].org
    IN
    /\ req[r].pc = "attach"
    /\ ~UserHeld(u)
    /\ \A m \in MembersOf(u, o) : ~MemberHeld(m)
    /\ IF (req[r].found \/ user[u].status = "none") /\ MembersOf(u, o) = {}
       THEN req' = [req EXCEPT ![r] = [@ EXCEPT !.pc = "invite",
                                                 !.todo = req[r].todo \ {u},
                                                 !.joined = req[r].joined \cup {u}]]
       ELSE Finish(r)
    /\ UNCHANGED <<user, orgs, member, change>>

\* The commit makes all of it visible at once.
CommitJoin(r) ==
    LET o  == req[r].org
        us == req[r].joined
    IN
    /\ req[r].pc = "invite"
    /\ req[r].todo = {}
    /\ \E id \in [us -> {m \in MemberIds : member[m].st = "none"}] :
         /\ \A u, v \in us : id[u] = id[v] => u = v
         /\ member' = [m \in MemberIds |->
                IF \E u \in us : id[u] = m
                THEN [st |-> "present", user |-> CHOOSE u \in us : id[u] = m,
                      org |-> o, role |-> req[r].to]
                ELSE member[m]]
    /\ user' = [u \in Users |->
           IF u \in us
           THEN [user[u] EXCEPT !.org = o,
                                !.status = IF @ = "none" THEN "ACTIVE" ELSE @]
           ELSE user[u]]
    /\ orgs' = orgs \cup {o}
    /\ Finish(r)
    /\ UNCHANGED change

-----------------------------------------------------------------------------
(* Erasure of an account, as far as memberships go.                         *)

RequestDeletion(r, u) ==
    /\ req[r] = Idle
    /\ Active(u)
    /\ req' = [req EXCEPT ![r] = [Idle EXCEPT !.pc = "account", !.caller = u, !.user = u]]
    /\ UNCHANGED <<user, orgs, member, change>>

\* The organisation of the row read here is the only one it will leave.
ReadAccount(r) ==
    LET u == req[r].user IN
    /\ req[r].pc = "account"
    /\ IF user[u].status = "DELETED" THEN Finish(r)
       ELSE req' = [req EXCEPT ![r] =
                       [@ EXCEPT !.org = user[u].org,
                                 !.pc = IF user[u].org = NULL THEN "erase" ELSE "ownMember"]]
    /\ UNCHANGED <<user, orgs, member, change>>

FindOwnMember(r) ==
    LET ms == MembersOf(req[r].user, req[r].org) IN
    /\ req[r].pc = "ownMember"
    /\ IF ms = {} THEN Proceed(r, "erase")
       ELSE \E m \in ms : req' = [req EXCEPT ![r] = [@ EXCEPT !.pc = "leave", !.member = m]]
    /\ UNCHANGED <<user, orgs, member, change>>

\* The anonymising update and the commit.  The role stays on the row.
CommitErasure(r) ==
    LET u == req[r].user IN
    /\ req[r].pc = "erase"
    /\ ~UserHeld(u)
    /\ user' = [user EXCEPT ![u].status = "DELETED", ![u].org = NULL]
    /\ IF req[r].member = NULL THEN UNCHANGED member
       ELSE member' = [member EXCEPT ![req[r].member].st = "deleted"]
    /\ Finish(r)
    /\ UNCHANGED <<orgs, change>>

\* A failed statement, a deadlock victim, a crash: the transaction is undone.
Abort(r) ==
    /\ req[r] # Idle
    /\ Finish(r)
    /\ UNCHANGED <<user, orgs, member, change>>

-----------------------------------------------------------------------------

RoleStep(r) ==
    \/ \E a, t \in Users, to \in Roles : Initiate(r, a, t, to)
    \/ ReadTarget(r)
    \/ CreateChange(r)
    \/ \E a \in Users, c \in ChangeIds : SubmitApproval(r, a, c)
    \/ ReadApprover(r)
    \/ ClaimChange(r)
    \/ CountAdmins(r)
    \/ SetRole(r)

MemberStep(r) ==
    \/ \E a, u \in Users, o \in Orgs, to \in OrgRoles : ChangeOrgRole(r, a, u, o, to)
    \/ \E a, u \in Users, o \in Orgs : RemoveMember(r, a, u, o)
    \/ FindMember(r)
    \/ LockOrg(r)
    \/ CheckDemotion(r)
    \/ WriteOrgRole(r)
    \/ DeleteMember(r)
    \/ CommitRemoval(r)

JoinStep(r) ==
    \/ \E a, u \in Users, o \in Orgs : CreateOrganization(r, a, o, u)
    \/ \E a \in Users, o \in Orgs, us \in SUBSET Users, to \in OrgRoles : AddMembers(r, a, o, us, to)
    \/ \E u \in Users : FindInvited(r, u)
    \/ Attach(r)
    \/ CommitJoin(r)

ErasureStep(r) ==
    \/ \E u \in Users : RequestDeletion(r, u)
    \/ ReadAccount(r)
    \/ FindOwnMember(r)
    \/ CommitErasure(r)

Next ==
    \/ \E u \in Users : Register(u)
    \/ \E r \in Requests : RoleStep(r) \/ MemberStep(r) \/ JoinStep(r) \/ ErasureStep(r) \/ Abort(r)

Spec == Init /\ [][Next]_vars

-----------------------------------------------------------------------------
(* Properties.                                                              *)

\* Rows and requests have the shape of their tables and steps.
TypeOK ==
    /\ user \in [Users -> UserRow]
    /\ orgs \subseteq Orgs
    /\ member \in [MemberIds -> MemberRow]
    /\ change \in [ChangeIds -> ChangeRow]
    /\ req \in [Requests -> Request]

\* An organisation that exists has a member who administers it, whatever
\* demotions, removals, erasures and joins are under way (set_org_role and
\* the trigger decide on a count that must still hold when they commit).
OrgsKeepAdministrator ==
    \A o \in orgs : \E m \in MemberIds : Administers(m) /\ member[m].org = o

\* The organisation a user row names, from which access tokens get their
\* tenant, is one the user is a member of: two writes in two tables, by
\* removals, joins and erasures that overlap.
OrgClaimBacked ==
    \A u \in Users : user[u].org # NULL => MembersOf(u, user[u].org) # {}

\* No role changes but by a request that is PENDING until then and APPROVED
\* from then on, so none is applied twice; and nobody becomes ADMIN unless a
\* different person approves what one asked for (approve_role_change).
RoleChangesApproved ==
    [][\A u \in Users : user'[u].role # user[u].role =>
         \E c \in ChangeIds, r \in Requests :
             /\ req[r].pc = "setRole" /\ req[r].change = c
             /\ change[c].st = "PENDING" /\ change'[c].st = "APPROVED"
             /\ change[c].target = u /\ user'[u].role = change[c].to
             /\ user'[u].role = "ADMIN" => change[c].by # req[r].caller]_vars

\* What docs/epics/E2-identity-access-platform.md says of approve_role_change:
\* demoting the last remaining ADMIN is blocked.  The code counts rows, and an
\* erased account keeps its role.
LastAdminStays ==
    \A r \in Requests :
        LET c == change[req[r].change] IN
        req[r].pc = "setRole" /\ user[c.target].role = "ADMIN" /\ c.to # "ADMIN"
            => \E u \in Users \ {c.target} : IsAdmin(u)
=============================================================================
