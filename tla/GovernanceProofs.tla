-------------------------- MODULE GovernanceProofs --------------------------
(***************************************************************************)
(* Theorems about Governance, for any number of users, organisations, rows *)
(* and requests.  IInv, at the end, is the inductive invariant they come   *)
(* from.                                                                   *)
(***************************************************************************)
EXTENDS Governance, TLAPS

-----------------------------------------------------------------------------
(* The parts of the invariant.                                              *)

\* Who is asking for what: a request holds what its step is going to use.
Fit(q) ==
    /\ q.pc # "idle" => q.caller \in Users
    /\ q.pc \notin {"idle", "approve", "claim", "countAdmins", "setRole", "invite"} => q.user \in Users
    /\ q.pc \in {"target", "create"} => q.to \in Roles
    /\ q.pc \in {"lockOrg", "demote", "setOrgRole", "invite", "attach"} => q.to \in OrgRoles
    /\ q.pc \in {"member", "lockOrg", "demote", "setOrgRole", "remove", "removed", "invite",
                 "attach", "ownMember", "leave"} => q.org \in Orgs
    /\ q.pc \in {"approve", "claim", "countAdmins", "setRole"} => q.change \in ChangeIds
    /\ q.pc \in {"lockOrg", "demote", "setOrgRole", "remove", "removed", "leave"} =>
         q.member \in MemberIds
    /\ q.pc \in {"account", "ownMember"} => q.member = NULL

Equipped(r) == Fit(req[r])

\* Rows keep the columns they were inserted with (but for orgRole and st).
Recorded ==
    \A c \in ChangeIds : change[c].st # "none" => change[c].target \in Users /\ change[c].by \in Users

\* A request that approves has a row to approve; past the claim the row is
\* PENDING and fit for its approver, and a single-party one is not about ADMIN.
Claimed(r) ==
    LET q == req[r] IN
    /\ q.pc \in {"approve", "claim", "countAdmins", "setRole"} =>
         change[q.change].st # "none" /\ (~q.differ => ~TouchesAdmin(q.change))
    /\ q.pc \in {"countAdmins", "setRole"} => Approvable(r)

ClaimedOnce ==
    \A q, r \in Requests :
        /\ q # r
        /\ req[q].pc \in {"countAdmins", "setRole"} /\ req[r].pc \in {"countAdmins", "setRole"}
        => req[q].change # req[r].change

\* The membership a request found is one of the organisation it names, and is
\* there while the request holds it.
Found(r) ==
    LET q == req[r] IN
    /\ q.pc \in {"lockOrg", "demote", "setOrgRole", "remove", "removed", "leave", "erase"}
       /\ q.member # NULL =>
         member[q.member].st # "none" /\ member[q.member].org = q.org
    /\ q.pc \in {"removed", "erase"} /\ q.member # NULL => Present(q.member)

\* The advisory lock, and the lock of a row being deleted, have one holder.
LocksExclude ==
    \A q, r \in Requests : q # r =>
        /\ \A o \in Orgs \cup {NULL} : ~(HoldsOrgLock(q, o) /\ HoldsOrgLock(r, o))
        /\ \A m \in MemberIds : ~(Deleting(q, m) /\ Deleting(r, m))

\* While an administrator's row is being deleted, another one stays.
DeletionLeavesAnother ==
    \A r \in Requests, m \in MemberIds : Deleting(r, m) /\ Administers(m) => OthersAdminister(m)

\* A join has somebody to bring in, and a new organisation gets administrators.
JoinBrings(r) ==
    LET q == req[r] IN
    /\ q.pc \in {"invite", "attach"} =>
         /\ q.todo \cup q.joined # {}
         /\ q.org \in orgs \/ q.to = "ENTERPRISE_ADMIN"
    /\ q.pc = "attach" => q.user \in q.todo

IInv ==
    /\ TypeOK
    /\ \A r \in Requests : Equipped(r)
    /\ Recorded
    /\ \A r \in Requests : Claimed(r)
    /\ ClaimedOnce
    /\ \A r \in Requests : Found(r)
    /\ LocksExclude
    /\ DeletionLeavesAnother
    /\ \A r \in Requests : JoinBrings(r)
    /\ OrgsKeepAdministrator

-----------------------------------------------------------------------------
(* Types, and what requests are equipped with.                              *)

LEMMA IdleRequest == Idle \in Request
BY DEF Idle, Request, Steps, Roles

RequestStep(r) == RoleStep(r) \/ MemberStep(r) \/ JoinStep(r) \/ ErasureStep(r) \/ Abort(r)

\* A step leaves every other request where it is, and its own well formed.
Moves(r) == \E x \in Request : req' = [req EXCEPT ![r] = x]

LEMMA FinishMoves == ASSUME NEW r, Finish(r) PROVE Moves(r)
BY IdleRequest DEF Finish, Moves

LEMMA ProceedMoves ==
    ASSUME TypeOK, NEW r \in Requests, NEW p \in Steps, Proceed(r, p) PROVE Moves(r)
<1>1. [req[r] EXCEPT !.pc = p] \in Request
  BY DEF TypeOK, Request
<1> QED BY <1>1 DEF Proceed, Moves, TypeOK, Request

LEMMA StepNames == /\ "create" \in Steps /\ "approve" \in Steps /\ "attach" \in Steps
                   /\ "invite" \in Steps /\ "leave" \in Steps
BY DEF Steps

\* Requests that move on with something more in hand.
LEMMA Advanced ==
    ASSUME NEW q \in Request, NEW p \in Steps
    PROVE  /\ \A f \in Roles : [q EXCEPT !.pc = p, !.from = f] \in Request
           /\ \A c \in ChangeIds : [q EXCEPT !.pc = p, !.change = c, !.differ = FALSE] \in Request
           /\ \A m \in MemberIds : [q EXCEPT !.member = m, !.pc = p] \in Request
           /\ \A m \in MemberIds : [q EXCEPT !.pc = p, !.member = m] \in Request
           /\ \A u \in Users, b \in BOOLEAN : [q EXCEPT !.pc = p, !.user = u, !.found = b] \in Request
           /\ \A d, j \in SUBSET Users : [q EXCEPT !.pc = p, !.todo = d, !.joined = j] \in Request
           /\ \A o \in Orgs \cup {NULL} : [q EXCEPT !.org = o, !.pc = p] \in Request
<1>1. \A f \in Roles : [q EXCEPT !.pc = p, !.from = f] \in Request
  BY DEF Request
<1>2. \A c \in ChangeIds : [q EXCEPT !.pc = p, !.change = c, !.differ = FALSE] \in Request
  BY DEF Request
<1>3. \A m \in MemberIds : [q EXCEPT !.member = m, !.pc = p] \in Request
  BY DEF Request
<1>4. \A m \in MemberIds : [q EXCEPT !.pc = p, !.member = m] \in Request
  BY DEF Request
<1>5. \A u \in Users, b \in BOOLEAN : [q EXCEPT !.pc = p, !.user = u, !.found = b] \in Request
  BY DEF Request
<1>6. \A d, j \in SUBSET Users : [q EXCEPT !.pc = p, !.todo = d, !.joined = j] \in Request
  BY DEF Request
<1>7. \A o \in Orgs \cup {NULL} : [q EXCEPT !.org = o, !.pc = p] \in Request
  BY DEF Request
<1> QED BY <1>1, <1>2, <1>3, <1>4, <1>5, <1>6, <1>7

LEMMA RoleStepMoves ==
    ASSUME TypeOK, NEW r \in Requests, Equipped(r), RoleStep(r) PROVE Moves(r)
<1> USE DEF TypeOK
<1>a. ASSUME NEW a \in Users, NEW t \in Users, NEW to \in Roles, Initiate(r, a, t, to) PROVE Moves(r)
  <2>1. [Idle EXCEPT !.pc = "target", !.caller = a, !.user = t, !.to = to] \in Request
    BY DEF Idle, Request, Steps, Roles
  <2> QED BY <1>a, <2>1 DEF Initiate, Moves
<1>b. CASE ReadTarget(r)
  <2>1. req[r].user \in Users
    BY <1>b DEF ReadTarget, Equipped, Fit
  <2>2. user[req[r].user].role \in Roles
    BY <2>1 DEF UserRow
  <2>3. [req[r] EXCEPT !.pc = "create", !.from = user[req[r].user].role] \in Request
    BY <2>2, Advanced, StepNames
  <2> QED BY <1>b, <2>3, FinishMoves DEF ReadTarget, Moves
<1>c. CASE CreateChange(r)
  <2>1. ASSUME NEW c \in ChangeIds
        PROVE  [req[r] EXCEPT !.pc = "approve", !.change = c, !.differ = FALSE] \in Request
    BY Advanced, StepNames
  <2> QED BY <1>c, <2>1, FinishMoves DEF CreateChange, Moves
<1>d. ASSUME NEW a \in Users, NEW c \in ChangeIds, SubmitApproval(r, a, c) PROVE Moves(r)
  <2>1. [Idle EXCEPT !.pc = "approve", !.caller = a, !.change = c] \in Request
    BY DEF Idle, Request, Steps, Roles
  <2> QED BY <1>d, <2>1 DEF SubmitApproval, Moves
<1>e. CASE ReadApprover(r) \/ ClaimChange(r) \/ CountAdmins(r) \/ SetRole(r)
  BY <1>e, FinishMoves, ProceedMoves
     DEF ReadApprover, ClaimChange, ClaimAfter, CountAdmins, SetRole, Steps
<1> QED BY <1>a, <1>b, <1>c, <1>d, <1>e DEF RoleStep

LEMMA MemberStepMoves ==
    ASSUME TypeOK, NEW r \in Requests, Equipped(r), MemberStep(r) PROVE Moves(r)
<1> USE DEF TypeOK
<1>a. ASSUME NEW a \in Users, NEW u \in Users, NEW o \in Orgs, NEW to \in OrgRoles,
             ChangeOrgRole(r, a, u, o, to)
      PROVE  Moves(r)
  <2>1. [Idle EXCEPT !.pc = "member", !.caller = a, !.user = u, !.org = o, !.to = to] \in Request
    BY DEF Idle, Request, Steps, Roles
  <2> QED BY <1>a, <2>1 DEF ChangeOrgRole, Moves
<1>b. ASSUME NEW a \in Users, NEW u \in Users, NEW o \in Orgs, RemoveMember(r, a, u, o)
      PROVE  Moves(r)
  <2>1. [Idle EXCEPT !.pc = "member", !.caller = a, !.user = u, !.org = o] \in Request
    BY DEF Idle, Request, Steps, Roles
  <2> QED BY <1>b, <2>1 DEF RemoveMember, Moves
<1>c. CASE FindMember(r)
  <2>1. ASSUME NEW m \in MemberIds, NEW p \in Steps
        PROVE  [req[r] EXCEPT !.member = m, !.pc = p] \in Request
    BY DEF Request
  <2>2. "lockOrg" \in Steps /\ "remove" \in Steps
    BY DEF Steps
  <2> QED BY <1>c, <2>1, <2>2, FinishMoves DEF FindMember, Moves, MembersOf
<1>d. CASE LockOrg(r) \/ CheckDemotion(r) \/ WriteOrgRole(r) \/ DeleteMember(r) \/ CommitRemoval(r)
  BY <1>d, FinishMoves, ProceedMoves
     DEF LockOrg, CheckDemotion, WriteOrgRole, DeleteMember, CommitRemoval, RemovalLeaving, Steps
<1> QED BY <1>a, <1>b, <1>c, <1>d DEF MemberStep

LEMMA JoinStepMoves ==
    ASSUME TypeOK, NEW r \in Requests, Equipped(r), JoinBrings(r), JoinStep(r) PROVE Moves(r)
<1> USE DEF TypeOK
<1>a. ASSUME NEW a \in Users, NEW o \in Orgs, NEW u \in Users, CreateOrganization(r, a, o, u)
      PROVE  Moves(r)
  <2>1. [Idle EXCEPT !.pc = "invite", !.caller = a, !.org = o,
                     !.to = "ENTERPRISE_ADMIN", !.todo = {u}] \in Request
    BY DEF Idle, Request, Steps, Roles, OrgRoles
  <2> QED BY <1>a, <2>1 DEF CreateOrganization, Moves
<1>b. ASSUME NEW a \in Users, NEW o \in Orgs, NEW us \in SUBSET Users, NEW to \in OrgRoles,
             AddMembers(r, a, o, us, to)
      PROVE  Moves(r)
  <2>1. [Idle EXCEPT !.pc = "invite", !.caller = a, !.org = o, !.to = to, !.todo = us] \in Request
    BY DEF Idle, Request, Steps, Roles
  <2> QED BY <1>b, <2>1 DEF AddMembers, Moves
<1>c. ASSUME NEW u \in Users, FindInvited(r, u) PROVE Moves(r)
  <2>1. [req[r] EXCEPT !.pc = "attach", !.user = u, !.found = (user[u].status # "none")] \in Request
    BY Advanced, StepNames
  <2> QED BY <1>c, <2>1, FinishMoves DEF FindInvited, Moves
<1>d. CASE Attach(r)
  <2>1. req[r].user \in Users
    BY <1>d DEF Attach, Equipped, Fit
  <2>2. [req[r] EXCEPT !.pc = "invite", !.todo = req[r].todo \ {req[r].user},
                       !.joined = req[r].joined \cup {req[r].user}] \in Request
    <3>1. req[r].todo \ {req[r].user} \in SUBSET Users /\ req[r].joined \cup {req[r].user} \in SUBSET Users
      BY <2>1 DEF Request
    <3> QED BY <3>1, Advanced, StepNames
  <2> QED BY <1>d, <2>2, FinishMoves DEF Attach, Moves
<1>e. CASE CommitJoin(r)
  BY <1>e, FinishMoves DEF CommitJoin
<1> QED BY <1>a, <1>b, <1>c, <1>d, <1>e DEF JoinStep

LEMMA ErasureStepMoves ==
    ASSUME TypeOK, NEW r \in Requests, Equipped(r), ErasureStep(r) PROVE Moves(r)
<1> USE DEF TypeOK
<1>a. ASSUME NEW u \in Users, RequestDeletion(r, u) PROVE Moves(r)
  <2>1. [Idle EXCEPT !.pc = "account", !.caller = u, !.user = u] \in Request
    BY DEF Idle, Request, Steps, Roles
  <2> QED BY <1>a, <2>1 DEF RequestDeletion, Moves
<1>b. CASE ReadAccount(r)
  <2>1. user[req[r].user].org \in Orgs \cup {NULL}
    BY <1>b DEF ReadAccount, Equipped, Fit, UserRow
  <2>2. ASSUME NEW p \in Steps
        PROVE  [req[r] EXCEPT !.org = user[req[r].user].org, !.pc = p] \in Request
    BY <2>1 DEF Request
  <2>3. "erase" \in Steps /\ "ownMember" \in Steps
    BY DEF Steps
  <2> QED BY <1>b, <2>2, <2>3, FinishMoves DEF ReadAccount, Moves
<1>c. CASE FindOwnMember(r)
  <2>1. ASSUME NEW m \in MemberIds PROVE [req[r] EXCEPT !.pc = "leave", !.member = m] \in Request
    BY Advanced, StepNames
  <2>2. "erase" \in Steps
    BY DEF Steps
  <2> QED BY <1>c, <2>1, <2>2, ProceedMoves DEF FindOwnMember, Moves, MembersOf
<1>d. CASE CommitErasure(r)
  BY <1>d, FinishMoves DEF CommitErasure
<1> QED BY <1>a, <1>b, <1>c, <1>d DEF ErasureStep

LEMMA StepMoves ==
    ASSUME TypeOK, NEW r \in Requests, Equipped(r), JoinBrings(r), RequestStep(r) PROVE Moves(r)
BY RoleStepMoves, MemberStepMoves, JoinStepMoves, ErasureStepMoves, FinishMoves
   DEF RequestStep, Abort

LEMMA OthersStay ==
    ASSUME TypeOK, NEW r \in Requests, Moves(r)
    PROVE  /\ req' \in [Requests -> Request]
           /\ \A q \in Requests \ {r} : req'[q] = req[q]
BY DEF Moves, TypeOK

LEMMA FinishIdle ==
    ASSUME TypeOK, NEW r \in Requests, Finish(r) PROVE req'[r].pc = "idle"
BY DEF Finish, TypeOK, Idle

LEMMA ProceedKeeps ==
    ASSUME TypeOK, NEW r \in Requests, NEW p \in Steps, Proceed(r, p)
    PROVE  req'[r] = [req[r] EXCEPT !.pc = p]
BY DEF Proceed, TypeOK, Request

\* Each step from one pc to the next brings what the next needs.
LEMMA FitAdvances ==
    ASSUME NEW q \in Request, Fit(q)
    PROVE  /\ q.pc = "target" => \A f \in Roles : Fit([q EXCEPT !.pc = "create", !.from = f])
           /\ q.pc = "create" => \A c \in ChangeIds :
                Fit([q EXCEPT !.pc = "approve", !.change = c, !.differ = FALSE])
           /\ q.pc \in {"approve", "claim", "countAdmins"} =>
                \A p \in {"claim", "countAdmins", "setRole"} : Fit([q EXCEPT !.pc = p])
           /\ q.pc = "member" => \A m \in MemberIds :
                /\ q.to \in OrgRoles => Fit([q EXCEPT !.member = m, !.pc = "lockOrg"])
                /\ Fit([q EXCEPT !.member = m, !.pc = "remove"])
           /\ q.pc = "lockOrg" => Fit([q EXCEPT !.pc = "demote"])
           /\ q.pc = "demote" => Fit([q EXCEPT !.pc = "setOrgRole"])
           /\ q.pc = "remove" => Fit([q EXCEPT !.pc = "removed"])
           /\ q.pc \in {"leave", "ownMember"} => Fit([q EXCEPT !.pc = "erase"])
           /\ q.pc = "invite" => \A u \in Users, b \in BOOLEAN :
                Fit([q EXCEPT !.pc = "attach", !.user = u, !.found = b])
           /\ q.pc = "attach" => \A d, j \in SUBSET Users :
                Fit([q EXCEPT !.pc = "invite", !.todo = d, !.joined = j])
           /\ q.pc = "account" => \A o \in Orgs \cup {NULL} :
                /\ Fit([q EXCEPT !.org = o, !.pc = "erase"])
                /\ o # NULL => Fit([q EXCEPT !.org = o, !.pc = "ownMember"])
           /\ q.pc = "ownMember" => \A m \in MemberIds : Fit([q EXCEPT !.pc = "leave", !.member = m])
<1> USE DEF Request, Fit
<1>1. q.pc = "target" => \A f \in Roles : Fit([q EXCEPT !.pc = "create", !.from = f])
  OBVIOUS
<1>2. q.pc = "create" => \A c \in ChangeIds :
         Fit([q EXCEPT !.pc = "approve", !.change = c, !.differ = FALSE])
  OBVIOUS
<1>3. q.pc \in {"approve", "claim", "countAdmins"} =>
         \A p \in {"claim", "countAdmins", "setRole"} : Fit([q EXCEPT !.pc = p])
  OBVIOUS
<1>4. q.pc = "member" => \A m \in MemberIds :
         /\ q.to \in OrgRoles => Fit([q EXCEPT !.member = m, !.pc = "lockOrg"])
         /\ Fit([q EXCEPT !.member = m, !.pc = "remove"])
  OBVIOUS
<1>5. /\ q.pc = "lockOrg" => Fit([q EXCEPT !.pc = "demote"])
      /\ q.pc = "demote" => Fit([q EXCEPT !.pc = "setOrgRole"])
      /\ q.pc = "remove" => Fit([q EXCEPT !.pc = "removed"])
      /\ q.pc \in {"leave", "ownMember"} => Fit([q EXCEPT !.pc = "erase"])
  OBVIOUS
<1>6. q.pc = "invite" => \A u \in Users, b \in BOOLEAN :
         Fit([q EXCEPT !.pc = "attach", !.user = u, !.found = b])
  OBVIOUS
<1>7. q.pc = "attach" => \A d, j \in SUBSET Users :
         Fit([q EXCEPT !.pc = "invite", !.todo = d, !.joined = j])
  OBVIOUS
<1>8. q.pc = "account" => \A o \in Orgs \cup {NULL} :
         /\ Fit([q EXCEPT !.org = o, !.pc = "erase"])
         /\ o # NULL => Fit([q EXCEPT !.org = o, !.pc = "ownMember"])
  OBVIOUS
<1>9. q.pc = "ownMember" => \A m \in MemberIds : Fit([q EXCEPT !.pc = "leave", !.member = m])
  OBVIOUS
<1> HIDE DEF Request, Fit
<1> QED BY <1>1, <1>2, <1>3, <1>4, <1>5, <1>6, <1>7, <1>8, <1>9

LEMMA FitIdle == ASSUME NEW q, q.pc = "idle" PROVE Fit(q)
BY DEF Fit

LEMMA RoleEquips ==
    ASSUME TypeOK, NEW r \in Requests, Equipped(r), RoleStep(r) PROVE Equipped(r)'
<1>0. req[r] \in Request /\ Fit(req[r])
  BY DEF TypeOK, Equipped
<1> USE DEF TypeOK, Equipped
<1>a. ASSUME NEW a \in Users, NEW t \in Users, NEW to \in Roles, Initiate(r, a, t, to)
      PROVE  Equipped(r)'
  BY <1>a DEF Initiate, Idle, Fit
<1>b. CASE ReadTarget(r)
  <2>1. user[req[r].user].role \in Roles
    BY <1>0, <1>b DEF ReadTarget, Fit, UserRow
  <2> QED BY <1>0, <1>b, <2>1, FinishIdle, FitAdvances, FitIdle DEF ReadTarget
<1>c. CASE CreateChange(r)
  BY <1>0, <1>c, FinishIdle, FitAdvances, FitIdle DEF CreateChange
<1>d. ASSUME NEW a \in Users, NEW c \in ChangeIds, SubmitApproval(r, a, c) PROVE Equipped(r)'
  BY <1>d DEF SubmitApproval, Idle, Fit
<1>e. CASE ReadApprover(r) \/ ClaimChange(r) \/ CountAdmins(r) \/ SetRole(r)
  <2>1. {"claim", "countAdmins", "setRole"} \subseteq Steps
    BY DEF Steps
  <2> QED BY <1>0, <1>e, <2>1, FinishIdle, ProceedKeeps, FitAdvances, FitIdle
          DEF ReadApprover, ClaimChange, ClaimAfter, CountAdmins, SetRole
<1> QED BY <1>a, <1>b, <1>c, <1>d, <1>e DEF RoleStep

LEMMA MemberEquips ==
    ASSUME TypeOK, NEW r \in Requests, Equipped(r), MemberStep(r) PROVE Equipped(r)'
<1>0. req[r] \in Request /\ Fit(req[r])
  BY DEF TypeOK, Equipped
<1> USE DEF TypeOK, Equipped
<1>a. ASSUME NEW a \in Users, NEW u \in Users, NEW o \in Orgs, NEW to \in OrgRoles,
             ChangeOrgRole(r, a, u, o, to)
      PROVE  Equipped(r)'
  BY <1>a DEF ChangeOrgRole, Idle, Fit
<1>b. ASSUME NEW a \in Users, NEW u \in Users, NEW o \in Orgs, RemoveMember(r, a, u, o)
      PROVE  Equipped(r)'
  BY <1>b DEF RemoveMember, Idle, Fit
<1>c. CASE FindMember(r)
  <2>1. CASE Finish(r)
    BY <2>1, FinishIdle, FitIdle
  <2>2. CASE \E m \in MemberIds :
                req' = [req EXCEPT ![r] =
                           [@ EXCEPT !.member = m,
                                     !.pc = IF req[r].to \in OrgRoles THEN "lockOrg" ELSE "remove"]]
    <3>1. PICK m \in MemberIds :
              req'[r] = [req[r] EXCEPT !.member = m,
                                       !.pc = IF req[r].to \in OrgRoles THEN "lockOrg" ELSE "remove"]
      BY <2>2
    <3>2. req[r].pc = "member"
      BY <1>c DEF FindMember
    <3>3. /\ req[r].to \in OrgRoles => Fit([req[r] EXCEPT !.member = m, !.pc = "lockOrg"])
          /\ Fit([req[r] EXCEPT !.member = m, !.pc = "remove"])
      BY <1>0, <3>2, FitAdvances
    <3> QED BY <3>1, <3>3
  <2> QED BY <1>c, <2>1, <2>2 DEF FindMember, MembersOf
<1>d. CASE LockOrg(r)
  <2>1. "demote" \in Steps
    BY DEF Steps
  <2> QED BY <1>0, <1>d, <2>1, FinishIdle, ProceedKeeps, FitAdvances, FitIdle DEF LockOrg
<1>e. CASE CheckDemotion(r)
  <2>1. "setOrgRole" \in Steps
    BY DEF Steps
  <2> QED BY <1>0, <1>e, <2>1, FinishIdle, ProceedKeeps, FitAdvances, FitIdle DEF CheckDemotion
<1>f. CASE DeleteMember(r)
  <2>1. "removed" \in Steps /\ "erase" \in Steps
    BY DEF Steps
  <2> QED BY <1>0, <1>f, <2>1, FinishIdle, ProceedKeeps, FitAdvances, FitIdle DEF DeleteMember
<1>g. CASE WriteOrgRole(r) \/ CommitRemoval(r)
  BY <1>g, FinishIdle, FitIdle DEF WriteOrgRole, CommitRemoval, RemovalLeaving
<1> QED BY <1>a, <1>b, <1>c, <1>d, <1>e, <1>f, <1>g DEF MemberStep

LEMMA JoinEquips ==
    ASSUME TypeOK, NEW r \in Requests, Equipped(r), JoinBrings(r), JoinStep(r)
    PROVE  Equipped(r)'
<1>0. req[r] \in Request /\ Fit(req[r])
  BY DEF TypeOK, Equipped
<1> USE DEF TypeOK, Equipped
<1>a. ASSUME NEW a \in Users, NEW o \in Orgs, NEW u \in Users, CreateOrganization(r, a, o, u)
      PROVE  Equipped(r)'
  BY <1>a DEF CreateOrganization, Idle, OrgRoles, Fit
<1>b. ASSUME NEW a \in Users, NEW o \in Orgs, NEW us \in SUBSET Users, NEW to \in OrgRoles,
             AddMembers(r, a, o, us, to)
      PROVE  Equipped(r)'
  BY <1>b DEF AddMembers, Idle, Fit
<1>c. ASSUME NEW u \in Users, FindInvited(r, u) PROVE Equipped(r)'
  <2>1. CASE Finish(r)
    BY <2>1, FinishIdle, FitIdle
  <2>2. CASE ~Finish(r)
    <3>1. req'[r] = [req[r] EXCEPT !.pc = "attach", !.user = u, !.found = (user[u].status # "none")]
      BY <1>c, <2>2 DEF FindInvited
    <3>2. req[r].pc = "invite" /\ (user[u].status # "none") \in BOOLEAN
      BY <1>c DEF FindInvited
    <3>3. Fit([req[r] EXCEPT !.pc = "attach", !.user = u, !.found = (user[u].status # "none")])
      BY <1>0, <3>2, FitAdvances
    <3> QED BY <3>1, <3>3
  <2> QED BY <2>1, <2>2
<1>d. CASE Attach(r)
  <2>1. req[r].user \in Users
    BY <1>0, <1>d DEF Attach, Fit
  <2>2. req[r].todo \ {req[r].user} \in SUBSET Users /\ req[r].joined \cup {req[r].user} \in SUBSET Users
    BY <1>0, <2>1 DEF Request
  <2>3. CASE Finish(r)
    BY <2>3, FinishIdle, FitIdle
  <2>4. CASE ~Finish(r)
    <3>1. req'[r] = [req[r] EXCEPT !.pc = "invite", !.todo = req[r].todo \ {req[r].user},
                                   !.joined = req[r].joined \cup {req[r].user}]
      BY <1>d, <2>4 DEF Attach
    <3>2. req[r].pc = "attach"
      BY <1>d DEF Attach
    <3>3. Fit([req[r] EXCEPT !.pc = "invite", !.todo = req[r].todo \ {req[r].user},
                             !.joined = req[r].joined \cup {req[r].user}])
      BY <1>0, <2>2, <3>2, FitAdvances
    <3> QED BY <3>1, <3>3
  <2> QED BY <2>3, <2>4
<1>e. CASE CommitJoin(r)
  BY <1>e, FinishIdle, FitIdle DEF CommitJoin
<1> QED BY <1>a, <1>b, <1>c, <1>d, <1>e DEF JoinStep

LEMMA ErasureEquips ==
    ASSUME TypeOK, NEW r \in Requests, Equipped(r), ErasureStep(r) PROVE Equipped(r)'
<1>0. req[r] \in Request /\ Fit(req[r])
  BY DEF TypeOK, Equipped
<1> USE DEF TypeOK, Equipped
<1>a. ASSUME NEW u \in Users, RequestDeletion(r, u) PROVE Equipped(r)'
  BY <1>a DEF RequestDeletion, Idle, Fit
<1>b. CASE ReadAccount(r)
  <2>1. user[req[r].user].org \in Orgs \cup {NULL}
    BY <1>0, <1>b DEF ReadAccount, UserRow, Fit
  <2>2. CASE Finish(r)
    BY <2>2, FinishIdle, FitIdle
  <2>3. CASE ~Finish(r)
    <3>1. PICK o \in Orgs \cup {NULL} : o = user[req[r].user].org
      BY <2>1
    <3>2. req'[r] = [req[r] EXCEPT !.org = o, !.pc = IF o = NULL THEN "erase" ELSE "ownMember"]
      BY <1>b, <2>3, <3>1 DEF ReadAccount
    <3>3. req[r].pc = "account"
      BY <1>b DEF ReadAccount
    <3>4. CASE o = NULL
      <4>1. Fit([req[r] EXCEPT !.org = o, !.pc = "erase"])
        BY <1>0, <3>3, FitAdvances
      <4> QED BY <3>2, <3>4, <4>1
    <3>5. CASE o # NULL
      <4>1. Fit([req[r] EXCEPT !.org = o, !.pc = "ownMember"])
        BY <1>0, <3>3, <3>5, FitAdvances
      <4> QED BY <3>2, <3>5, <4>1
    <3> QED BY <3>4, <3>5
  <2> QED BY <2>2, <2>3
<1>c. CASE FindOwnMember(r)
  <2>1. "erase" \in Steps
    BY DEF Steps
  <2>2. req[r].pc = "ownMember"
    BY <1>c DEF FindOwnMember
  <2>3. CASE Proceed(r, "erase")
    BY <1>0, <2>1, <2>2, <2>3, ProceedKeeps, FitAdvances
  <2>4. CASE ~Proceed(r, "erase")
    <3>1. PICK m \in MemberIds : req'[r] = [req[r] EXCEPT !.pc = "leave", !.member = m]
      BY <1>c, <2>4 DEF FindOwnMember, MembersOf
    <3>2. Fit([req[r] EXCEPT !.pc = "leave", !.member = m])
      BY <1>0, <2>2, FitAdvances
    <3> QED BY <3>1, <3>2
  <2> QED BY <2>3, <2>4
<1>d. CASE CommitErasure(r)
  BY <1>d, FinishIdle, FitIdle DEF CommitErasure
<1> QED BY <1>a, <1>b, <1>c, <1>d DEF ErasureStep

LEMMA EquippedNext ==
    ASSUME TypeOK, \A r \in Requests : Equipped(r) /\ JoinBrings(r), [Next]_vars
    PROVE  \A r \in Requests : Equipped(r)'
<1>1. CASE UNCHANGED req
  BY <1>1 DEF Equipped
<1>2. ASSUME NEW r \in Requests, RequestStep(r) PROVE \A q \in Requests : Equipped(q)'
  <2>1. Moves(r)
    BY <1>2, StepMoves
  <2>2. \A q \in Requests \ {r} : Equipped(q)'
    BY <2>1, OthersStay DEF Equipped
  <2>3. Equipped(r)'
    BY <1>2, RoleEquips, MemberEquips, JoinEquips, ErasureEquips, FinishIdle, FitIdle
       DEF RequestStep, Abort, Equipped
  <2> QED BY <2>2, <2>3
<1> QED BY <1>1, <1>2 DEF Next, RequestStep, Register, vars

-----------------------------------------------------------------------------
(* The statements that write a table, and what no step does to a row.       *)

LEMMA QuietOrWrites ==
    ASSUME NEW r \in Requests, RequestStep(r)
    PROVE  \/ UNCHANGED <<user, orgs, member, change>>
           \/ CreateChange(r) \/ SetRole(r) \/ WriteOrgRole(r)
           \/ CommitRemoval(r) \/ CommitErasure(r) \/ CommitJoin(r)
<1>a. CASE RoleStep(r)
  BY <1>a DEF RoleStep, Initiate, ReadTarget, SubmitApproval, ReadApprover, ClaimChange,
              ClaimAfter, CountAdmins
<1>b. CASE MemberStep(r)
  BY <1>b DEF MemberStep, ChangeOrgRole, RemoveMember, FindMember, LockOrg, CheckDemotion, DeleteMember
<1>c. CASE JoinStep(r)
  BY <1>c DEF JoinStep, CreateOrganization, AddMembers, FindInvited, Attach
<1>d. CASE ErasureStep(r)
  BY <1>d DEF ErasureStep, RequestDeletion, ReadAccount, FindOwnMember
<1>e. CASE Abort(r)
  BY <1>e DEF Abort
<1> QED BY <1>a, <1>b, <1>c, <1>d, <1>e DEF RequestStep

\* What a join writes into the membership table: unused rows, one per user.
LEMMA JoinWrites ==
    ASSUME TypeOK, NEW r \in Requests, Equipped(r), CommitJoin(r)
    PROVE  /\ req[r].org \in Orgs /\ req[r].to \in OrgRoles
           /\ member' \in [MemberIds -> MemberRow]
           /\ \A m \in MemberIds : member[m].st # "none" => member'[m] = member[m]
           /\ \A m \in MemberIds : member'[m] # member[m] => member'[m].role = req[r].to
           /\ req[r].joined # {} =>
                \E m \in MemberIds : /\ member'[m].st = "present" /\ member'[m].org = req[r].org
                                     /\ member'[m].role = req[r].to
<1> DEFINE us == req[r].joined
<1>1. us \in SUBSET Users /\ req[r].org \in Orgs /\ req[r].to \in OrgRoles
  BY DEF TypeOK, Request, CommitJoin, Equipped, Fit
<1>2. PICK id \in [us -> {m \in MemberIds : member[m].st = "none"}] :
          member' = [m \in MemberIds |->
              IF \E u \in us : id[u] = m
              THEN [st |-> "present", user |-> CHOOSE u \in us : id[u] = m,
                    org |-> req[r].org, role |-> req[r].to]
              ELSE member[m]]
  BY DEF CommitJoin
<1>3. ASSUME NEW m \in MemberIds, NEW u \in us, id[u] = m
      PROVE  /\ member[m].st = "none"
             /\ member'[m] = [st |-> "present", user |-> CHOOSE v \in us : id[v] = m,
                              org |-> req[r].org, role |-> req[r].to]
             /\ (CHOOSE v \in us : id[v] = m) \in Users
  <2>1. \E v \in us : id[v] = m
    BY <1>3
  <2>2. (CHOOSE v \in us : id[v] = m) \in us
    BY <2>1
  <2> QED BY <1>1, <1>2, <1>3, <2>1, <2>2
<1>4. ASSUME NEW m \in MemberIds, ~\E u \in us : id[u] = m PROVE member'[m] = member[m]
  BY <1>2, <1>4
<1>5. member' \in [MemberIds -> MemberRow]
  <2>1. ASSUME NEW m \in MemberIds PROVE member'[m] \in MemberRow
    <3>1. CASE \E u \in us : id[u] = m
      <4>1. PICK u \in us : id[u] = m
        BY <3>1
      <4>2. PICK v \in Users : member'[m] = [st |-> "present", user |-> v,
                                             org |-> req[r].org, role |-> req[r].to]
        BY <1>3, <4>1
      <4> QED BY <1>1, <4>2 DEF MemberRow
    <3>2. CASE ~\E u \in us : id[u] = m
      BY <1>4, <3>2 DEF TypeOK
    <3> QED BY <3>1, <3>2
  <2> QED BY <1>2, <2>1
<1>6. \A m \in MemberIds : member[m].st # "none" => member'[m] = member[m]
  BY <1>3, <1>4
<1>7. ASSUME NEW m \in MemberIds, member'[m] # member[m] PROVE member'[m].role = req[r].to
  <2>1. PICK u \in us : id[u] = m
    BY <1>4, <1>7
  <2>2. PICK w : member'[m] = [st |-> "present", user |-> w, org |-> req[r].org, role |-> req[r].to]
    BY <1>3, <2>1
  <2> QED BY <2>2
<1>8. ASSUME us # {}
      PROVE  \E m \in MemberIds : /\ member'[m].st = "present" /\ member'[m].org = req[r].org
                                  /\ member'[m].role = req[r].to
  <2>1. PICK u \in us : TRUE
    BY <1>8
  <2>2. id[u] \in MemberIds
    BY <1>2
  <2>3. PICK w : member'[id[u]] = [st |-> "present", user |-> w, org |-> req[r].org, role |-> req[r].to]
    BY <1>3, <2>2
  <2> QED BY <2>2, <2>3
<1> QED BY <1>1, <1>5, <1>6, <1>7, <1>8

LEMMA WritesTyped ==
    ASSUME TypeOK, NEW r \in Requests, Equipped(r), Recorded, Claimed(r), Found(r),
           \/ CreateChange(r) \/ SetRole(r) \/ WriteOrgRole(r)
           \/ CommitRemoval(r) \/ CommitErasure(r) \/ CommitJoin(r)
    PROVE  /\ user' \in [Users -> UserRow] /\ orgs' \subseteq Orgs
           /\ member' \in [MemberIds -> MemberRow] /\ change' \in [ChangeIds -> ChangeRow]
<1> USE DEF TypeOK
<1>0. Fit(req[r]) /\ req[r] \in Request
  BY DEF Equipped
<1>a. CASE CreateChange(r)
  <2>1. req[r].user \in Users /\ req[r].caller \in Users /\ req[r].to \in Roles /\ req[r].from \in Roles
    BY <1>0, <1>a DEF CreateChange, Fit, Request
  <2>2. ASSUME NEW c \in ChangeIds
        PROVE  [st |-> "PENDING", target |-> req[r].user, from |-> req[r].from,
                to |-> req[r].to, by |-> req[r].caller] \in ChangeRow
    BY <2>1 DEF ChangeRow
  <2> QED BY <1>a, <2>2 DEF CreateChange
<1>b. CASE SetRole(r)
  <2>1. req[r].change \in ChangeIds
    BY <1>0, <1>b DEF SetRole, Fit
  <2>2. change[req[r].change].to \in Roles
    BY <2>1 DEF ChangeRow
  <2>3. user' \in [Users -> UserRow]
    BY <1>b, <2>2 DEF SetRole, UserRow
  <2>4. change' \in [ChangeIds -> ChangeRow]
    BY <1>b DEF SetRole, ChangeRow
  <2> QED BY <1>b, <2>3, <2>4 DEF SetRole
<1>c. CASE WriteOrgRole(r)
  <2>1. req[r].to \in OrgRoles
    BY <1>0, <1>c DEF WriteOrgRole, Fit
  <2> QED BY <1>c, <2>1 DEF WriteOrgRole, MemberRow
<1>d. CASE CommitRemoval(r)
  <2>0. \A u \in Users : [user[u] EXCEPT !.org = NULL] \in UserRow
    BY DEF UserRow
  <2>1. user' \in [Users -> UserRow]
    BY <1>d, <2>0 DEF CommitRemoval, RemovalLeaving
  <2>2. member' \in [MemberIds -> MemberRow]
    BY <1>d DEF CommitRemoval, RemovalLeaving, MemberRow
  <2> QED BY <1>d, <2>1, <2>2 DEF CommitRemoval, RemovalLeaving
<1>e. CASE CommitErasure(r)
  <2>0. \A u \in Users : [user[u] EXCEPT !.status = "DELETED", !.org = NULL] \in UserRow
    BY DEF UserRow
  <2>1. user' \in [Users -> UserRow]
    BY <1>e, <2>0 DEF CommitErasure
  <2>2. member' \in [MemberIds -> MemberRow]
    BY <1>e DEF CommitErasure, MemberRow
  <2> QED BY <1>e, <2>1, <2>2 DEF CommitErasure
<1>f. CASE CommitJoin(r)
  <2>1. req[r].org \in Orgs
    BY <1>f, JoinWrites
  <2>2. user' \in [Users -> UserRow]
    <3>1. ASSUME NEW u \in Users
          PROVE  [user[u] EXCEPT !.org = req[r].org,
                                 !.status = IF @ = "none" THEN "ACTIVE" ELSE @] \in UserRow
      BY <2>1 DEF UserRow
    <3> QED BY <1>f, <3>1 DEF CommitJoin
  <2> QED BY <1>f, <2>1, <2>2, JoinWrites DEF CommitJoin
<1> QED BY <1>a, <1>b, <1>c, <1>d, <1>e, <1>f

LEMMA TypeNext ==
    ASSUME TypeOK, \A r \in Requests : Equipped(r) /\ Claimed(r) /\ Found(r) /\ JoinBrings(r),
           Recorded, [Next]_vars
    PROVE  TypeOK'
<1>1. CASE UNCHANGED vars
  BY <1>1 DEF vars, TypeOK
<1>2. ASSUME NEW u \in Users, Register(u) PROVE TypeOK'
  BY <1>2 DEF Register, TypeOK, UserRow
<1>3. ASSUME NEW r \in Requests, RequestStep(r) PROVE TypeOK'
  <2>1. req' \in [Requests -> Request]
    BY <1>3, StepMoves, OthersStay
  <2>2. CASE UNCHANGED <<user, orgs, member, change>>
    BY <2>1, <2>2 DEF TypeOK
  <2>3. CASE \/ CreateChange(r) \/ SetRole(r) \/ WriteOrgRole(r)
             \/ CommitRemoval(r) \/ CommitErasure(r) \/ CommitJoin(r)
    BY <2>1, <2>3, WritesTyped DEF TypeOK
  <2> QED BY <1>3, <2>2, <2>3, QuietOrWrites
<1> QED BY <1>1, <1>2, <1>3 DEF Next, RequestStep

LEMMA RowsKeep ==
    ASSUME TypeOK, NEW r \in Requests, Equipped(r), Claimed(r), Recorded, RequestStep(r)
    PROVE  /\ \A m \in MemberIds : member[m].st # "none" =>
                /\ member'[m].st # "none"
                /\ member'[m].user = member[m].user /\ member'[m].org = member[m].org
           /\ \A c \in ChangeIds : change[c].st # "none" =>
                /\ change'[c].st # "none"
                /\ change'[c].target = change[c].target /\ change'[c].by = change[c].by
                /\ change'[c].from = change[c].from /\ change'[c].to = change[c].to
           /\ Recorded'
<1> USE DEF TypeOK, MemberRow, ChangeRow, Recorded
<1>0. Fit(req[r]) /\ req[r] \in Request
  BY DEF Equipped
<1>a. CASE UNCHANGED <<user, orgs, member, change>>
  BY <1>a
<1>b. CASE CreateChange(r)
  <2>1. req[r].user \in Users /\ req[r].caller \in Users
    BY <1>0, <1>b DEF CreateChange, Fit
  <2> QED BY <1>b, <2>1 DEF CreateChange
<1>c. CASE SetRole(r)
  <2>1. \A c \in ChangeIds : change'[c] = change[c] \/ change'[c] = [change[c] EXCEPT !.st = "APPROVED"]
    BY <1>c DEF SetRole
  <2>2. ASSUME NEW c \in ChangeIds, change[c].st # "none"
        PROVE  /\ change'[c].st # "none"
               /\ change'[c].target = change[c].target /\ change'[c].by = change[c].by
               /\ change'[c].from = change[c].from /\ change'[c].to = change[c].to
    <3>1. PICK row \in ChangeRow : row = change[c]
      OBVIOUS
    <3>2. CASE change'[c] = [row EXCEPT !.st = "APPROVED"]
      BY <3>1, <3>2
    <3> QED BY <2>1, <2>2, <3>1, <3>2
  <2>3. \A c \in ChangeIds : change[c].st = "none" => req[r].change # c
    BY <1>c DEF Claimed, SetRole
  <2>4. \A c \in ChangeIds : change[c].st = "none" => change'[c].st = "none"
    BY <1>c, <2>3 DEF SetRole
  <2>5. Recorded'
    BY <2>2, <2>4
  <2> QED BY <1>c, <2>2, <2>5 DEF SetRole
<1>d. CASE WriteOrgRole(r)
  BY <1>d DEF WriteOrgRole
<1>e. CASE CommitRemoval(r)
  BY <1>e DEF CommitRemoval, RemovalLeaving
<1>f. CASE CommitErasure(r)
  BY <1>f DEF CommitErasure
<1>g. CASE CommitJoin(r)
  BY <1>g, JoinWrites DEF CommitJoin
<1> QED BY <1>a, <1>b, <1>c, <1>d, <1>e, <1>f, <1>g, QuietOrWrites

-----------------------------------------------------------------------------
(* Where the steps of each kind leave a request.                            *)

LEMMA ProceedPc ==
    ASSUME TypeOK, NEW r \in Requests, NEW p, Proceed(r, p)
    PROVE  /\ req'[r].pc = p /\ req'[r].caller = req[r].caller /\ req'[r].user = req[r].user
           /\ req'[r].org = req[r].org /\ req'[r].member = req[r].member
           /\ req'[r].change = req[r].change /\ req'[r].differ = req[r].differ
           /\ req'[r].to = req[r].to
BY DEF Proceed, TypeOK, Request

LEMMA AdvancedPc ==
    ASSUME NEW q \in Request, NEW p
    PROVE  /\ \A f : [q EXCEPT !.pc = p, !.from = f].pc = p
           /\ \A c, b : [q EXCEPT !.pc = p, !.change = c, !.differ = b].pc = p
           /\ \A m : [q EXCEPT !.member = m, !.pc = p].pc = p
           /\ \A m : [q EXCEPT !.pc = p, !.member = m].pc = p
           /\ \A o : [q EXCEPT !.org = o, !.pc = p].pc = p
           /\ \A d, j : [q EXCEPT !.pc = p, !.todo = d, !.joined = j].pc = p
BY DEF Request

LEMMA RolePc ==
    ASSUME TypeOK, NEW r \in Requests, RoleStep(r)
    PROVE  req'[r].pc \in {"idle", "target", "create", "approve", "claim", "countAdmins", "setRole"}
<1>a. ASSUME NEW a, NEW t, NEW to, Initiate(r, a, t, to) PROVE req'[r].pc = "target"
  BY <1>a DEF Initiate, Idle, TypeOK
<1>b. CASE ReadTarget(r)
  <2>1. req[r] \in Request
    BY DEF TypeOK
  <2>2. CASE ~Finish(r)
    <3>1. req'[r] = [req[r] EXCEPT !.pc = "create", !.from = user[req[r].user].role]
      BY <1>b, <2>2 DEF ReadTarget, TypeOK
    <3> QED BY <2>1, <3>1, AdvancedPc
  <2> QED BY <2>2, FinishIdle
<1>c. CASE CreateChange(r)
  <2>1. req[r] \in Request
    BY DEF TypeOK
  <2>2. CASE ~Finish(r)
    <3>1. PICK c \in ChangeIds :
              req'[r] = [req[r] EXCEPT !.pc = "approve", !.change = c, !.differ = FALSE]
      BY <1>c, <2>2 DEF CreateChange, TypeOK
    <3> QED BY <2>1, <3>1, AdvancedPc
  <2> QED BY <2>2, FinishIdle
<1>d. ASSUME NEW a, NEW c, SubmitApproval(r, a, c) PROVE req'[r].pc = "approve"
  BY <1>d DEF SubmitApproval, Idle, TypeOK
<1>e. CASE ReadApprover(r) \/ ClaimChange(r) \/ CountAdmins(r) \/ SetRole(r)
  BY <1>e, FinishIdle, ProceedPc DEF ReadApprover, ClaimChange, ClaimAfter, CountAdmins, SetRole
<1> QED BY <1>a, <1>b, <1>c, <1>d, <1>e DEF RoleStep

LEMMA MemberPc ==
    ASSUME TypeOK, NEW r \in Requests, MemberStep(r)
    PROVE  req'[r].pc \in {"idle", "member", "lockOrg", "demote", "setOrgRole", "remove", "removed", "erase"}
<1>a. ASSUME NEW a, NEW u, NEW o, NEW to, ChangeOrgRole(r, a, u, o, to) PROVE req'[r].pc = "member"
  BY <1>a DEF ChangeOrgRole, Idle, TypeOK
<1>b. ASSUME NEW a, NEW u, NEW o, RemoveMember(r, a, u, o) PROVE req'[r].pc = "member"
  BY <1>b DEF RemoveMember, Idle, TypeOK
<1>c. CASE FindMember(r)
  <2>1. req[r] \in Request
    BY DEF TypeOK
  <2>2. CASE ~Finish(r)
    <3>1. PICK m \in MemberIds :
              req'[r] = [req[r] EXCEPT !.member = m,
                             !.pc = IF req[r].to \in OrgRoles THEN "lockOrg" ELSE "remove"]
      BY <1>c, <2>2 DEF FindMember, MembersOf, TypeOK
    <3> QED BY <2>1, <3>1, AdvancedPc
  <2> QED BY <2>2, FinishIdle
<1>d. CASE LockOrg(r) \/ CheckDemotion(r) \/ DeleteMember(r)
  BY <1>d, FinishIdle, ProceedPc DEF LockOrg, CheckDemotion, DeleteMember
<1>e. CASE WriteOrgRole(r) \/ CommitRemoval(r)
  BY <1>e, FinishIdle DEF WriteOrgRole, CommitRemoval, RemovalLeaving
<1> QED BY <1>a, <1>b, <1>c, <1>d, <1>e DEF MemberStep

LEMMA JoinPc ==
    ASSUME TypeOK, NEW r \in Requests, JoinStep(r)
    PROVE  req'[r].pc \in {"idle", "invite", "attach"}
<1>a. ASSUME NEW a, NEW o, NEW u, CreateOrganization(r, a, o, u) PROVE req'[r].pc = "invite"
  BY <1>a DEF CreateOrganization, Idle, TypeOK
<1>b. ASSUME NEW a, NEW o, NEW us, NEW to, AddMembers(r, a, o, us, to) PROVE req'[r].pc = "invite"
  BY <1>b DEF AddMembers, Idle, TypeOK
<1>c. ASSUME NEW u, FindInvited(r, u) PROVE req'[r].pc \in {"idle", "attach"}
  BY <1>c, FinishIdle DEF FindInvited, TypeOK, Request
<1>d. CASE Attach(r)
  <2>1. req[r] \in Request
    BY DEF TypeOK
  <2>2. CASE ~Finish(r)
    <3>1. req'[r] = [req[r] EXCEPT !.pc = "invite", !.todo = req[r].todo \ {req[r].user},
                                   !.joined = req[r].joined \cup {req[r].user}]
      BY <1>d, <2>2 DEF Attach, TypeOK
    <3> QED BY <2>1, <3>1, AdvancedPc
  <2> QED BY <2>2, FinishIdle
<1>e. CASE CommitJoin(r)
  BY <1>e, FinishIdle DEF CommitJoin
<1> QED BY <1>a, <1>b, <1>c, <1>d, <1>e DEF JoinStep

LEMMA ErasurePc ==
    ASSUME TypeOK, NEW r \in Requests, ErasureStep(r)
    PROVE  req'[r].pc \in {"idle", "account", "ownMember", "leave", "erase"}
<1>a. ASSUME NEW u, RequestDeletion(r, u) PROVE req'[r].pc = "account"
  BY <1>a DEF RequestDeletion, Idle, TypeOK
<1>b. CASE ReadAccount(r)
  <2>1. req[r] \in Request
    BY DEF TypeOK
  <2>2. CASE ~Finish(r)
    <3>1. req'[r] = [req[r] EXCEPT !.org = user[req[r].user].org,
                         !.pc = IF user[req[r].user].org = NULL THEN "erase" ELSE "ownMember"]
      BY <1>b, <2>2 DEF ReadAccount, TypeOK
    <3> QED BY <2>1, <3>1, AdvancedPc
  <2> QED BY <2>2, FinishIdle
<1>c. CASE FindOwnMember(r)
  <2>1. req[r] \in Request
    BY DEF TypeOK
  <2>2. CASE ~Proceed(r, "erase")
    <3>1. PICK m : req'[r] = [req[r] EXCEPT !.pc = "leave", !.member = m]
      BY <1>c, <2>2 DEF FindOwnMember, TypeOK
    <3> QED BY <2>1, <3>1, AdvancedPc
  <2> QED BY <2>2, ProceedPc
<1>d. CASE CommitErasure(r)
  BY <1>d, FinishIdle DEF CommitErasure
<1> QED BY <1>a, <1>b, <1>c, <1>d DEF ErasureStep

-----------------------------------------------------------------------------
(* Claims on role change requests.                                          *)

\* A request that gets to the claim, or past it, comes from the step before,
\* or arrives with the row it is about.
LEMMA ClaimedOwn ==
    ASSUME TypeOK, NEW r \in Requests, Equipped(r), Claimed(r), Recorded, RequestStep(r)
    PROVE  /\ Claimed(r)'
           /\ req'[r].pc \in {"countAdmins", "setRole"} /\ req[r].pc \notin {"countAdmins", "setRole"}
                => req'[r].change = req[r].change /\ ~ChangeHeld(req[r].change)
           /\ req'[r].pc \in {"countAdmins", "setRole"} => req'[r].change = req[r].change
<1> DEFINE Goal ==
        /\ Claimed(r)'
        /\ req'[r].pc \in {"countAdmins", "setRole"} /\ req[r].pc \notin {"countAdmins", "setRole"}
             => req'[r].change = req[r].change /\ ~ChangeHeld(req[r].change)
        /\ req'[r].pc \in {"countAdmins", "setRole"} => req'[r].change = req[r].change
<1>0. ASSUME req'[r].pc \notin {"approve", "claim", "countAdmins", "setRole"} PROVE Goal
  BY <1>0 DEF Claimed
<1>a. CASE MemberStep(r) \/ JoinStep(r) \/ ErasureStep(r) \/ Abort(r)
  BY <1>0, <1>a, MemberPc, JoinPc, ErasurePc, FinishIdle DEF Abort
<1>b. ASSUME NEW a, NEW t, NEW to, Initiate(r, a, t, to) PROVE Goal
  <2>1. req'[r].pc = "target"
    BY <1>b DEF Initiate, Idle, TypeOK
  <2> QED BY <1>0, <2>1
<1>c. CASE ReadTarget(r)
  <2>1. req'[r].pc \in {"idle", "create"}
    BY <1>c, FinishIdle DEF ReadTarget, TypeOK, Request
  <2> QED BY <1>0, <2>1
<1>d. CASE CreateChange(r)
  <2>1. CASE Finish(r)
    BY <1>0, <2>1, FinishIdle
  <2>2. CASE ~Finish(r)
    <3>1. PICK c \in ChangeIds :
              /\ change' = [change EXCEPT ![c] = [st |-> "PENDING", target |-> req[r].user,
                                from |-> req[r].from, to |-> req[r].to, by |-> req[r].caller]]
              /\ "ADMIN" \notin {req[r].from, req[r].to}
              /\ req' = [req EXCEPT ![r] = [@ EXCEPT !.pc = "approve", !.change = c, !.differ = FALSE]]
      BY <1>d, <2>2 DEF CreateChange
    <3>2. req'[r].pc = "approve" /\ req'[r].change = c
      BY <3>1 DEF TypeOK, Request
    <3>3. change'[c].st = "PENDING" /\ "ADMIN" \notin {change'[c].from, change'[c].to}
      BY <3>1 DEF TypeOK
    <3> QED BY <3>2, <3>3 DEF Claimed, TouchesAdmin
  <2> QED BY <2>1, <2>2
<1>e. ASSUME NEW a, NEW c, SubmitApproval(r, a, c) PROVE Goal
  <2>1. req'[r].pc = "approve" /\ req'[r].change = c /\ req'[r].differ = TRUE /\ change'[c].st # "none"
    BY <1>e DEF SubmitApproval, Idle, TypeOK
  <2> QED BY <2>1 DEF Claimed
<1>f. CASE ReadApprover(r)
  <2>1. CASE Proceed(r, "claim")
    BY <1>f, <2>1, ProceedPc DEF ReadApprover, Claimed, TouchesAdmin
  <2> QED BY <1>0, <1>f, <2>1, FinishIdle DEF ReadApprover
<1>g. CASE ClaimChange(r)
  <2>1. CASE Finish(r)
    BY <1>0, <2>1, FinishIdle
  <2>2. CASE ~Finish(r)
    <3>1. PICK p \in {"countAdmins", "setRole"} : Proceed(r, p) /\ UNCHANGED change
                 /\ Approvable(r) /\ ~ChangeHeld(req[r].change) /\ req[r].pc = "claim"
      BY <1>g, <2>2 DEF ClaimChange, ClaimAfter
    <3> QED BY <3>1, ProceedPc DEF Claimed, TouchesAdmin, Approvable
  <2> QED BY <2>1, <2>2
<1>h. CASE CountAdmins(r)
  <2>1. CASE Proceed(r, "setRole")
    BY <1>h, <2>1, ProceedPc DEF CountAdmins, Claimed, TouchesAdmin, Approvable
  <2> QED BY <1>0, <1>h, <2>1, FinishIdle DEF CountAdmins
<1>i. CASE SetRole(r)
  BY <1>0, <1>i, FinishIdle DEF SetRole
<1> QED BY <1>a, <1>b, <1>c, <1>d, <1>e, <1>f, <1>g, <1>h, <1>i DEF RequestStep, RoleStep

\* Only SetRole resolves a request, and only the one it claimed.
LEMMA OnlySetRoleResolves ==
    ASSUME TypeOK, NEW r \in Requests, Equipped(r), RequestStep(r),
           NEW c \in ChangeIds, change[c].st = "PENDING", change'[c].st # "PENDING"
    PROVE  SetRole(r) /\ req[r].change = c
<1>1. CASE CreateChange(r)
  BY <1>1 DEF CreateChange, TypeOK
<1>2. CASE SetRole(r)
  BY <1>2 DEF SetRole, TypeOK
<1>3. CASE WriteOrgRole(r) \/ CommitRemoval(r) \/ CommitErasure(r) \/ CommitJoin(r)
  BY <1>3 DEF WriteOrgRole, CommitRemoval, RemovalLeaving, CommitErasure, CommitJoin
<1> QED BY <1>1, <1>2, <1>3, QuietOrWrites

LEMMA ClaimedNext ==
    ASSUME TypeOK, \A r \in Requests : Equipped(r) /\ Claimed(r) /\ JoinBrings(r),
           Recorded, ClaimedOnce, [Next]_vars
    PROVE  (\A r \in Requests : Claimed(r)') /\ ClaimedOnce'
<1>1. CASE UNCHANGED <<change, req>>
  BY <1>1 DEF Claimed, ClaimedOnce, TouchesAdmin, Approvable
<1>2. ASSUME NEW r \in Requests, RequestStep(r)
      PROVE  (\A q \in Requests : Claimed(q)') /\ ClaimedOnce'
  <2>1. \A q \in Requests \ {r} : req'[q] = req[q]
    BY <1>2, StepMoves, OthersStay
  <2>2. ASSUME NEW q \in Requests \ {r} PROVE Claimed(q)'
    <3>1. SUFFICES ASSUME req[q].pc \in {"approve", "claim", "countAdmins", "setRole"}
                   PROVE  Claimed(q)'
      BY <2>1 DEF Claimed
    <3> DEFINE c == req[q].change
    <3>2. c \in ChangeIds /\ change[c].st # "none"
      BY <3>1 DEF Claimed, Equipped, Fit
    <3>3. /\ change'[c].st # "none" /\ change'[c].by = change[c].by
          /\ change'[c].from = change[c].from /\ change'[c].to = change[c].to
      BY <1>2, <3>2, RowsKeep
    <3>4. req[q].pc \in {"countAdmins", "setRole"} => change'[c].st = "PENDING"
      <4>1. SUFFICES ASSUME req[q].pc \in {"countAdmins", "setRole"}, change'[c].st # "PENDING"
                     PROVE  FALSE
        OBVIOUS
      <4>2. change[c].st = "PENDING"
        BY <4>1 DEF Claimed, Approvable
      <4>3. SetRole(r) /\ req[r].change = c
        BY <1>2, <3>2, <4>1, <4>2, OnlySetRoleResolves
      <4> QED BY <4>1, <4>3 DEF SetRole, ClaimedOnce
    <3> QED BY <2>1, <3>1, <3>3, <3>4 DEF Claimed, TouchesAdmin, Approvable
  <2>3. ClaimedOnce'
    <3>1. ASSUME NEW q \in Requests \ {r}, req'[q].pc \in {"countAdmins", "setRole"},
                 req'[r].pc \in {"countAdmins", "setRole"}
          PROVE  req'[q].change # req'[r].change
      BY <1>2, <2>1, <3>1, ClaimedOwn DEF ClaimedOnce, ChangeHeld
    <3> QED BY <2>1, <3>1 DEF ClaimedOnce
  <2> QED BY <1>2, <2>2, <2>3, ClaimedOwn
<1> QED BY <1>1, <1>2 DEF Next, RequestStep, Register, vars

-----------------------------------------------------------------------------
(* Memberships that requests hold, and the locks of an organisation.        *)

\* Where the holder of a membership row, or of a lock, comes from: it held it
\* before, or it waited until nobody did.
LEMMA FoundOwn ==
    ASSUME TypeOK, NEW r \in Requests, Equipped(r), Found(r), RequestStep(r)
    PROVE  /\ Found(r)'
           /\ \A m \in MemberIds : Deleting(r, m)' =>
                \/ Deleting(r, m)
                \/ /\ ~MemberHeld(m) /\ UNCHANGED member /\ member[m].org = req[r].org
                   /\ Administers(m) => ~OrgLock(req[r].org) /\ OthersAdminister(m)
           /\ req'[r].pc \in {"demote", "setOrgRole"} =>
                /\ UNCHANGED member /\ req'[r].org = req[r].org
                /\ req[r].pc \in {"demote", "setOrgRole"} \/ ~OrgLock(req[r].org)
<1> DEFINE Goal ==
        /\ Found(r)'
        /\ \A m \in MemberIds : Deleting(r, m)' =>
             \/ Deleting(r, m)
             \/ /\ ~MemberHeld(m) /\ UNCHANGED member /\ member[m].org = req[r].org
                /\ Administers(m) => ~OrgLock(req[r].org) /\ OthersAdminister(m)
        /\ req'[r].pc \in {"demote", "setOrgRole"} =>
             /\ UNCHANGED member /\ req'[r].org = req[r].org
             /\ req[r].pc \in {"demote", "setOrgRole"} \/ ~OrgLock(req[r].org)
<1>0. ASSUME req'[r].pc \notin {"lockOrg", "demote", "setOrgRole", "remove", "removed", "leave", "erase"}
      PROVE  Goal
  BY <1>0 DEF Found, Deleting
<1>1. ASSUME Finish(r) PROVE Goal
  BY <1>0, <1>1, FinishIdle
<1>2. req[r] \in Request /\ Fit(req[r])
  BY DEF TypeOK, Equipped
<1>a. CASE RoleStep(r) \/ JoinStep(r) \/ Abort(r)
  BY <1>0, <1>a, RolePc, JoinPc, FinishIdle DEF Abort
<1>b. ASSUME NEW a, NEW u, NEW o, NEW to, ChangeOrgRole(r, a, u, o, to) PROVE Goal
  <2>1. req'[r].pc = "member"
    BY <1>b DEF ChangeOrgRole, Idle, TypeOK
  <2> QED BY <1>0, <2>1
<1>c. ASSUME NEW a, NEW u, NEW o, RemoveMember(r, a, u, o) PROVE Goal
  <2>1. req'[r].pc = "member"
    BY <1>c DEF RemoveMember, Idle, TypeOK
  <2> QED BY <1>0, <2>1
<1>d. CASE FindMember(r)
  <2>1. CASE ~Finish(r)
    <3>1. PICK m \in MembersOf(req[r].user, req[r].org), p \in {"lockOrg", "remove"} :
              req'[r] = [req[r] EXCEPT !.member = m, !.pc = p]
      BY <1>d, <2>1 DEF FindMember, TypeOK
    <3>2. m \in MemberIds /\ member[m].st = "present" /\ member[m].org = req[r].org
      BY DEF MembersOf, Present
    <3>3. req'[r].pc \in {"lockOrg", "remove"} /\ req'[r].member = m /\ req'[r].org = req[r].org
      BY <1>2, <3>1 DEF Request
    <3> QED BY <1>d, <3>2, <3>3 DEF FindMember, Found, Deleting
  <2> QED BY <1>1, <2>1
<1>e. CASE LockOrg(r)
  <2>1. CASE Proceed(r, "demote")
    BY <1>e, <2>1, ProceedPc DEF LockOrg, Found, Deleting
  <2> QED BY <1>1, <1>e, <2>1 DEF LockOrg
<1>f. CASE CheckDemotion(r)
  <2>1. CASE Proceed(r, "setOrgRole")
    BY <1>f, <2>1, ProceedPc DEF CheckDemotion, Found, Deleting
  <2> QED BY <1>1, <1>f, <2>1 DEF CheckDemotion
<1>g. CASE WriteOrgRole(r) \/ CommitRemoval(r) \/ CommitErasure(r)
  BY <1>1, <1>g DEF WriteOrgRole, CommitRemoval, RemovalLeaving, CommitErasure
<1>h. CASE DeleteMember(r)
  <2>1. CASE ~Finish(r)
    <3> DEFINE m == req[r].member
    <3>1. PICK p \in {"removed", "erase"} : Proceed(r, p)
      BY <1>h, <2>1 DEF DeleteMember
    <3>2. /\ ~MemberHeld(m) /\ UNCHANGED member /\ Present(m)
          /\ Administers(m) => ~OrgLock(req[r].org) /\ OthersAdminister(m)
      BY <1>h, <2>1 DEF DeleteMember
    <3>3. m \in MemberIds /\ member[m].org = req[r].org /\ m # NULL
      BY <1>h, <1>2, GovernanceAssumption DEF DeleteMember, Fit, Found
    <3>4. /\ req'[r].pc \in {"removed", "erase"} /\ req'[r].member = m /\ req'[r].org = req[r].org
      BY <3>1, ProceedPc
    <3>5. Found(r)'
      BY <3>2, <3>3, <3>4 DEF Found, Present
    <3> QED BY <3>2, <3>3, <3>4, <3>5 DEF Deleting
  <2> QED BY <1>1, <2>1
<1>i. ASSUME NEW u, RequestDeletion(r, u) PROVE Goal
  <2>1. req'[r].pc = "account"
    BY <1>i DEF RequestDeletion, Idle, TypeOK
  <2> QED BY <1>0, <2>1
<1>j. CASE ReadAccount(r)
  <2>1. CASE ~Finish(r)
    <3> DEFINE o == user[req[r].user].org
               p == IF o = NULL THEN "erase" ELSE "ownMember"
    <3>1. req'[r] = [req[r] EXCEPT !.org = o, !.pc = p]
      BY <1>j, <2>1 DEF ReadAccount, TypeOK
    <3>2. req[r].member = NULL
      BY <1>j, <1>2 DEF ReadAccount, Fit
    <3>3. req'[r].pc \in {"erase", "ownMember"} /\ req'[r].member = NULL
      BY <1>2, <3>1, <3>2 DEF Request
    <3> QED BY <3>3, GovernanceAssumption DEF Found, Deleting
  <2> QED BY <1>1, <2>1
<1>k. CASE FindOwnMember(r)
  <2>0. req[r].member = NULL
    BY <1>k, <1>2 DEF FindOwnMember, Fit
  <2>1. CASE Proceed(r, "erase")
    BY <2>0, <2>1, ProceedPc, GovernanceAssumption DEF Found, Deleting
  <2>2. CASE ~Proceed(r, "erase")
    <3>1. PICK m \in MembersOf(req[r].user, req[r].org) :
              req'[r] = [req[r] EXCEPT !.pc = "leave", !.member = m]
      BY <1>k, <2>2 DEF FindOwnMember, TypeOK
    <3>2. m \in MemberIds /\ member[m].st = "present" /\ member[m].org = req[r].org
      BY DEF MembersOf, Present
    <3>3. req'[r].pc = "leave" /\ req'[r].member = m /\ req'[r].org = req[r].org
      BY <1>2, <3>1 DEF Request
    <3> QED BY <1>k, <3>2, <3>3 DEF FindOwnMember, Found, Deleting
  <2> QED BY <2>1, <2>2
<1> QED BY <1>a, <1>b, <1>c, <1>d, <1>e, <1>f, <1>g, <1>h, <1>i, <1>j, <1>k
        DEF RequestStep, MemberStep, ErasureStep

\* Who may change a membership row, and how.
LEMMA MemberWrites ==
    ASSUME TypeOK, NEW r \in Requests, Equipped(r), Found(r), RequestStep(r),
           NEW m \in MemberIds, member'[m] # member[m]
    PROVE  \/ CommitJoin(r) /\ member[m].st = "none"
           \/ /\ WriteOrgRole(r) /\ req[r].pc = "setOrgRole" /\ req[r].member = m /\ ~MemberHeld(m)
              /\ member[m].org = req[r].org /\ member'[m].st = member[m].st
              /\ member'[m].role = req[r].to
              /\ Demotes(r) => OthersAdminister(m)
           \/ Deleting(r, m)
<1>1. CASE WriteOrgRole(r)
  <2>1. req[r].pc = "setOrgRole" /\ req[r].member = m /\ ~MemberHeld(m)
    BY <1>1 DEF WriteOrgRole, TypeOK
  <2>2. member[m].org = req[r].org
    BY <2>1, GovernanceAssumption DEF Found
  <2>3. member' = [member EXCEPT ![m].role = req[r].to] /\ (Demotes(r) => OthersAdminister(m))
    BY <1>1, <2>1 DEF WriteOrgRole
  <2>4. member[m] \in MemberRow
    BY DEF TypeOK
  <2>5. member'[m].st = member[m].st /\ member'[m].role = req[r].to
    BY <2>3, <2>4 DEF TypeOK, MemberRow
  <2> QED BY <1>1, <2>1, <2>2, <2>3, <2>5
<1>2. CASE CommitRemoval(r)
  BY <1>2 DEF CommitRemoval, RemovalLeaving, Deleting, TypeOK
<1>3. CASE CommitErasure(r)
  BY <1>3 DEF CommitErasure, Deleting, TypeOK
<1>4. CASE CommitJoin(r)
  BY <1>4, JoinWrites
<1>5. CASE CreateChange(r) \/ SetRole(r)
  BY <1>5 DEF CreateChange, SetRole
<1> QED BY <1>1, <1>2, <1>3, <1>4, <1>5, QuietOrWrites

\* A row somebody else is deleting stays as it is.
LEMMA HeldRowStays ==
    ASSUME TypeOK, \A q \in Requests : Equipped(q) /\ Found(q), LocksExclude,
           NEW r \in Requests, RequestStep(r), NEW q \in Requests \ {r},
           NEW m \in MemberIds, Deleting(q, m)
    PROVE  member'[m] = member[m]
<1>1. member[m].st = "present" /\ MemberHeld(m) /\ ~Deleting(r, m)
  BY GovernanceAssumption DEF Found, Deleting, Present, MemberHeld, LocksExclude
<1> QED BY <1>1, MemberWrites

LEMMA FoundNext ==
    ASSUME TypeOK, NEW r \in Requests, RequestStep(r), LocksExclude, Recorded,
           \A q \in Requests : Equipped(q) /\ Found(q) /\ Claimed(q) /\ JoinBrings(q)
    PROVE  \A q \in Requests : Found(q)'
<1>1. \A q \in Requests \ {r} : req'[q] = req[q]
  BY StepMoves, OthersStay
<1>2. ASSUME NEW q \in Requests \ {r} PROVE Found(q)'
  <2> DEFINE m == req[q].member
  <2>1. CASE m = NULL
    BY <1>1, <2>1 DEF Found
  <2>2. CASE m # NULL
    <3>1. m \in MemberIds
      BY <2>2 DEF TypeOK, Request
    <3>2. member[m].st # "none" => member'[m].st # "none" /\ member'[m].org = member[m].org
      BY <3>1, RowsKeep
    <3>3. Deleting(q, m) => member'[m] = member[m]
      BY <3>1, HeldRowStays
    <3> QED BY <1>1, <2>2, <3>2, <3>3 DEF Found, Deleting, Present
  <2> QED BY <2>1, <2>2
<1> QED BY <1>2, FoundOwn

\* What others hold after a step they held before it.
LEMMA OthersHold ==
    ASSUME TypeOK, NEW r \in Requests, RequestStep(r), LocksExclude,
           \A q \in Requests : Equipped(q) /\ Found(q) /\ JoinBrings(q),
           NEW q \in Requests \ {r}
    PROVE  /\ \A o \in Orgs \cup {NULL} : HoldsOrgLock(q, o)' => HoldsOrgLock(q, o)
           /\ \A m \in MemberIds : Deleting(q, m)' => Deleting(q, m) /\ member'[m] = member[m]
<1>1. req'[q] = req[q]
  BY StepMoves, OthersStay
<1>2. ASSUME NEW m \in MemberIds, Deleting(q, m)'
      PROVE  Deleting(q, m) /\ member'[m] = member[m]
  <2>1. Deleting(q, m)
    BY <1>1, <1>2 DEF Deleting
  <2> QED BY <2>1, HeldRowStays
<1>3. ASSUME NEW o \in Orgs \cup {NULL}, HoldsOrgLock(q, o)' PROVE HoldsOrgLock(q, o)
  <2>1. CASE req'[q].pc \in {"demote", "setOrgRole"} /\ req'[q].org = o
    BY <1>1, <2>1 DEF HoldsOrgLock
  <2>2. CASE \E m \in MemberIds : Deleting(q, m)' /\ Administers(m)' /\ member'[m].org = o
    BY <1>2, <2>2 DEF HoldsOrgLock, Administers, Present
  <2> QED BY <1>3, <2>1, <2>2 DEF HoldsOrgLock
<1> QED BY <1>2, <1>3

\* What a request holds after its own step it held before, or nobody did.
LEMMA OwnHolds ==
    ASSUME TypeOK, NEW r \in Requests, RequestStep(r), Equipped(r), Found(r)
    PROVE  /\ \A o \in Orgs \cup {NULL} : HoldsOrgLock(r, o)' => HoldsOrgLock(r, o) \/ ~OrgLock(o)
           /\ \A m \in MemberIds : Deleting(r, m)' => Deleting(r, m) \/ ~MemberHeld(m)
<1>1. ASSUME NEW m \in MemberIds, Deleting(r, m)' PROVE Deleting(r, m) \/ ~MemberHeld(m)
  BY <1>1, FoundOwn
<1>2. ASSUME NEW o \in Orgs \cup {NULL}, HoldsOrgLock(r, o)' PROVE HoldsOrgLock(r, o) \/ ~OrgLock(o)
  <2>1. CASE req'[r].pc \in {"demote", "setOrgRole"} /\ req'[r].org = o
    BY <2>1, FoundOwn DEF HoldsOrgLock
  <2>2. ASSUME NEW m \in MemberIds, Deleting(r, m)', Administers(m)', member'[m].org = o
        PROVE  HoldsOrgLock(r, o) \/ ~OrgLock(o)
    <3>1. CASE Deleting(r, m)
      <4>1. ~WriteOrgRole(r) /\ ~CommitJoin(r) /\ ~CommitRemoval(r) /\ ~CommitErasure(r)
        <5>1. req[r].pc \in {"removed", "erase"} /\ req'[r].pc \in {"removed", "erase"}
          BY <2>2, <3>1 DEF Deleting
        <5> QED BY <5>1, FinishIdle
                DEF WriteOrgRole, CommitJoin, CommitRemoval, RemovalLeaving, CommitErasure
      <4>2. UNCHANGED member
        BY <4>1, QuietOrWrites DEF CreateChange, SetRole
      <4> QED BY <2>2, <3>1, <4>2 DEF HoldsOrgLock, Administers, Present
    <3>2. CASE ~Deleting(r, m)
      <4>1. /\ UNCHANGED member /\ member[m].org = req[r].org
            /\ Administers(m) => ~OrgLock(req[r].org)
        BY <2>2, <3>2, FoundOwn
      <4> QED BY <2>2, <4>1 DEF Administers, Present
    <3> QED BY <3>1, <3>2
  <2> QED BY <1>2, <2>1, <2>2 DEF HoldsOrgLock
<1> QED BY <1>1, <1>2

LEMMA LocksNext ==
    ASSUME TypeOK, NEW r \in Requests, RequestStep(r), LocksExclude,
           \A q \in Requests : Equipped(q) /\ Found(q) /\ JoinBrings(q)
    PROVE  LocksExclude'
<1>1. ASSUME NEW p \in Requests \ {r}, NEW q \in Requests \ {r}, p # q
      PROVE  /\ \A o \in Orgs \cup {NULL} : ~(HoldsOrgLock(p, o) /\ HoldsOrgLock(q, o))'
             /\ \A m \in MemberIds : ~(Deleting(p, m) /\ Deleting(q, m))'
  BY <1>1, OthersHold DEF LocksExclude
<1>2. ASSUME NEW q \in Requests \ {r}
      PROVE  /\ \A o \in Orgs \cup {NULL} : ~(HoldsOrgLock(r, o) /\ HoldsOrgLock(q, o))'
             /\ \A m \in MemberIds : ~(Deleting(r, m) /\ Deleting(q, m))'
  <2>1. ASSUME NEW o \in Orgs \cup {NULL}, HoldsOrgLock(r, o)', HoldsOrgLock(q, o)' PROVE FALSE
    <3>1. HoldsOrgLock(q, o)
      BY <2>1, OthersHold
    <3>2. HoldsOrgLock(r, o)
      BY <2>1, <3>1, OwnHolds DEF OrgLock
    <3> QED BY <3>1, <3>2 DEF LocksExclude
  <2>2. ASSUME NEW m \in MemberIds, Deleting(r, m)', Deleting(q, m)' PROVE FALSE
    <3>1. Deleting(q, m)
      BY <2>2, OthersHold
    <3>2. Deleting(r, m)
      BY <2>2, <3>1, OwnHolds DEF MemberHeld
    <3> QED BY <3>1, <3>2 DEF LocksExclude
  <2> QED BY <2>1, <2>2
<1> QED BY <1>1, <1>2 DEF LocksExclude

LEMMA DeletionNext ==
    ASSUME TypeOK, NEW r \in Requests, RequestStep(r), LocksExclude, DeletionLeavesAnother,
           \A q \in Requests : Equipped(q) /\ Found(q) /\ JoinBrings(q)
    PROVE  DeletionLeavesAnother'
<1> SUFFICES ASSUME NEW q \in Requests, NEW m \in MemberIds, Deleting(q, m)', Administers(m)'
             PROVE  OthersAdminister(m)'
  BY DEF DeletionLeavesAnother
<1>1. ASSUME UNCHANGED member, OthersAdminister(m) PROVE OthersAdminister(m)'
  BY <1>1 DEF OthersAdminister, Administers, Present
<1>2. ASSUME UNCHANGED member PROVE Administers(m)
  BY <1>2 DEF Administers, Present
<1>3. CASE q = r /\ ~Deleting(r, m)
  BY <1>1, <1>2, <1>3, FoundOwn
<1>4. CASE q = r /\ Deleting(r, m)
  <2>1. ~WriteOrgRole(r) /\ ~CommitJoin(r) /\ ~CommitRemoval(r) /\ ~CommitErasure(r)
    <3>1. req[r].pc \in {"removed", "erase"} /\ req'[r].pc \in {"removed", "erase"}
      BY <1>4 DEF Deleting
    <3> QED BY <3>1, FinishIdle
            DEF WriteOrgRole, CommitJoin, CommitRemoval, RemovalLeaving, CommitErasure
  <2>2. UNCHANGED member
    BY <2>1, QuietOrWrites DEF CreateChange, SetRole
  <2> QED BY <1>1, <1>2, <1>4, <2>2 DEF DeletionLeavesAnother
<1>5. CASE q # r
  <2> DEFINE o == member[m].org
  <2>1. Deleting(q, m) /\ member'[m] = member[m] /\ Administers(m)
    BY <1>5, OthersHold DEF Administers, Present
  <2>2. o \in Orgs \cup {NULL} /\ HoldsOrgLock(q, o)
    BY <2>1 DEF HoldsOrgLock, TypeOK, MemberRow
  <2>3. PICK n \in MemberIds \ {m} : Administers(n) /\ member[n].org = o
    BY <2>1 DEF DeletionLeavesAnother, OthersAdminister
  <2>4. member'[n] = member[n]
    <3>1. SUFFICES ASSUME member'[n] # member[n] PROVE HoldsOrgLock(r, o)
      BY <1>5, <2>2 DEF LocksExclude
    <3> QED BY <2>3, <3>1, MemberWrites DEF HoldsOrgLock, Administers, Present
  <2> QED BY <2>1, <2>3, <2>4 DEF OthersAdminister, Administers, Present
<1> QED BY <1>3, <1>4, <1>5

-----------------------------------------------------------------------------
(* Joins, and the administrators of an organisation.                        *)

LEMMA OnlyJoinsCreate ==
    ASSUME NEW r \in Requests, RequestStep(r)
    PROVE  orgs' = orgs \/ (CommitJoin(r) /\ orgs' = orgs \cup {req[r].org})
BY QuietOrWrites
   DEF CreateChange, SetRole, WriteOrgRole, CommitRemoval, RemovalLeaving, CommitErasure, CommitJoin

LEMMA JoinOwn ==
    ASSUME TypeOK, NEW r \in Requests, Equipped(r), JoinBrings(r), RequestStep(r)
    PROVE  JoinBrings(r)'
<1>0. ASSUME req'[r].pc \notin {"invite", "attach"} PROVE JoinBrings(r)'
  BY <1>0 DEF JoinBrings
<1>1. ASSUME Finish(r) PROVE JoinBrings(r)'
  BY <1>0, <1>1, FinishIdle
<1>2. req[r] \in Request /\ req' \in [Requests -> Request]
  BY StepMoves, OthersStay DEF TypeOK
<1>a. CASE RoleStep(r) \/ MemberStep(r) \/ ErasureStep(r) \/ Abort(r)
  BY <1>0, <1>1, <1>a, RolePc, MemberPc, ErasurePc DEF Abort
<1>b. ASSUME NEW a, NEW o, NEW u, CreateOrganization(r, a, o, u) PROVE JoinBrings(r)'
  <2>1. req'[r].pc = "invite" /\ req'[r].to = "ENTERPRISE_ADMIN" /\ req'[r].todo = {u}
    BY <1>b DEF CreateOrganization, Idle, TypeOK
  <2> QED BY <2>1 DEF JoinBrings
<1>c. ASSUME NEW a, NEW o, NEW us, NEW to, AddMembers(r, a, o, us, to) PROVE JoinBrings(r)'
  <2>1. req'[r].pc = "invite" /\ req'[r].org = o /\ req'[r].todo = us /\ us # {} /\ o \in orgs'
    BY <1>c DEF AddMembers, Idle, TypeOK
  <2> QED BY <2>1 DEF JoinBrings
<1>d. ASSUME NEW u \in Users, FindInvited(r, u) PROVE JoinBrings(r)'
  <2>1. CASE ~Finish(r)
    <3>1. req'[r] = [req[r] EXCEPT !.pc = "attach", !.user = u,
                                   !.found = (user[u].status # "none")]
      BY <1>d, <2>1 DEF FindInvited, TypeOK
    <3>2. /\ req'[r].pc = "attach" /\ req'[r].user = u /\ req'[r].todo = req[r].todo
          /\ req'[r].joined = req[r].joined /\ req'[r].org = req[r].org /\ req'[r].to = req[r].to
      BY <1>2, <3>1 DEF Request
    <3> QED BY <1>d, <3>2 DEF FindInvited, JoinBrings
  <2> QED BY <1>1, <2>1
<1>e. CASE Attach(r)
  <2>1. CASE ~Finish(r)
    <3>1. req'[r] = [req[r] EXCEPT !.pc = "invite", !.todo = req[r].todo \ {req[r].user},
                                   !.joined = req[r].joined \cup {req[r].user}]
      BY <1>e, <2>1 DEF Attach, TypeOK
    <3>2. /\ req'[r].pc = "invite" /\ req'[r].joined = req[r].joined \cup {req[r].user}
          /\ req'[r].org = req[r].org /\ req'[r].to = req[r].to
      BY <1>2, <3>1 DEF Request
    <3> QED BY <1>e, <3>2 DEF Attach, JoinBrings
  <2> QED BY <1>1, <2>1
<1>f. CASE CommitJoin(r)
  BY <1>1, <1>f DEF CommitJoin
<1> QED BY <1>a, <1>b, <1>c, <1>d, <1>e, <1>f DEF RequestStep, JoinStep

LEMMA JoinNext ==
    ASSUME TypeOK, NEW r \in Requests, RequestStep(r),
           \A q \in Requests : Equipped(q) /\ JoinBrings(q)
    PROVE  \A q \in Requests : JoinBrings(q)'
<1>1. ASSUME NEW q \in Requests \ {r} PROVE JoinBrings(q)'
  <2>1. req'[q] = req[q] /\ orgs \subseteq orgs'
    BY StepMoves, OthersStay, OnlyJoinsCreate
  <2> QED BY <2>1 DEF JoinBrings
<1> QED BY <1>1, JoinOwn

LEMMA AdministratorNext ==
    ASSUME TypeOK, NEW r \in Requests, RequestStep(r), Recorded,
           DeletionLeavesAnother, OrgsKeepAdministrator,
           Equipped(r), Claimed(r), Found(r), JoinBrings(r)
    PROVE  OrgsKeepAdministrator'
<1> SUFFICES ASSUME NEW o \in orgs' PROVE \E m \in MemberIds : (Administers(m) /\ member[m].org = o)'
  BY DEF OrgsKeepAdministrator
<1>1. CASE o \notin orgs
  <2>1. CommitJoin(r) /\ o = req[r].org
    BY <1>1, OnlyJoinsCreate
  <2>2. req[r].joined # {} /\ req[r].to = "ENTERPRISE_ADMIN"
    BY <1>1, <2>1 DEF CommitJoin, JoinBrings
  <2> QED BY <2>1, <2>2, JoinWrites DEF Administers, Present
<1>2. CASE o \in orgs
  <2>1. PICK m \in MemberIds : Administers(m) /\ member[m].org = o
    BY <1>2 DEF OrgsKeepAdministrator
  <2>2. ASSUME NEW n \in MemberIds, Administers(n), member[n].org = o, member'[n] = member[n]
        PROVE  (Administers(n) /\ member[n].org = o)'
    BY <2>2 DEF Administers, Present
  <2>3. CASE member'[m] = member[m]
    BY <2>1, <2>2, <2>3
  <2>4. CASE member'[m] # member[m] /\ WriteOrgRole(r)
    <3>1. /\ req[r].member = m /\ member'[m].st = "present" /\ member'[m].role = req[r].to
          /\ member'[m].org = o /\ (Demotes(r) => OthersAdminister(m))
      <4>1. req[r].pc = "setOrgRole" /\ req[r].member = m
        BY <2>4 DEF WriteOrgRole, TypeOK
      <4>2. ~CommitJoin(r) /\ ~Deleting(r, m)
        BY <4>1 DEF CommitJoin, Deleting
      <4>3. member'[m].org = o
        BY <2>1, RowsKeep DEF Administers, Present
      <4> QED BY <2>1, <2>4, <4>2, <4>3, MemberWrites DEF Administers, Present
    <3>2. CASE req[r].to = "ENTERPRISE_ADMIN"
      BY <3>1, <3>2 DEF Administers, Present
    <3>3. CASE req[r].to # "ENTERPRISE_ADMIN"
      <4>1. Demotes(r)
        BY <2>1, <2>4, <3>1, <3>3 DEF WriteOrgRole, Demotes, Equipped, Fit, OrgRoles
      <4>2. PICK n \in MemberIds \ {m} : Administers(n) /\ member[n].org = o
        BY <2>1, <3>1, <4>1 DEF OthersAdminister
      <4>3. member'[n] = member[n]
        BY <2>4, <3>1 DEF WriteOrgRole, TypeOK
      <4> QED BY <2>2, <4>2, <4>3
    <3> QED BY <3>2, <3>3
  <2>5. CASE member'[m] # member[m] /\ ~WriteOrgRole(r)
    <3>1. Deleting(r, m)
      BY <2>1, <2>5, MemberWrites DEF Administers, Present
    <3>2. PICK n \in MemberIds \ {m} : Administers(n) /\ member[n].org = o
      BY <2>1, <3>1 DEF DeletionLeavesAnother, OthersAdminister
    <3>3. member'[n] = member[n]
      <4>1. ~CommitJoin(r) /\ ~Deleting(r, n)
        BY <3>1 DEF CommitJoin, Deleting
      <4> QED BY <2>5, <4>1, MemberWrites
    <3> QED BY <2>2, <3>2, <3>3
  <2> QED BY <2>3, <2>4, <2>5
<1> QED BY <1>1, <1>2

-----------------------------------------------------------------------------
(* The invariant holds, and what follows from it.                           *)

LEMMA InitInv == ASSUME Init PROVE IInv
<1>1. /\ \A r \in Requests : req[r] = Idle
      /\ \A q \in Requests : req[q].pc = "idle"
  BY DEF Init, Idle
<1>2. TypeOK
  <2>1. \A r \in Requests : req[r] \in Request
    BY <1>1, IdleRequest
  <2>2. user \in [Users -> UserRow]
    BY DEF Init, UserRow, Roles
  <2>3. member \in [MemberIds -> MemberRow] /\ change \in [ChangeIds -> ChangeRow]
    BY DEF Init, MemberRow, OrgRoles, ChangeRow, Roles
  <2> QED BY <2>1, <2>2, <2>3 DEF Init, TypeOK
<1>3. Recorded /\ OrgsKeepAdministrator
  BY DEF Init, Recorded, OrgsKeepAdministrator
<1>4. \A r \in Requests : Equipped(r) /\ Claimed(r) /\ Found(r) /\ JoinBrings(r)
  BY <1>1 DEF Equipped, Fit, Claimed, Found, JoinBrings
<1>5. ClaimedOnce /\ DeletionLeavesAnother
  BY <1>1 DEF ClaimedOnce, DeletionLeavesAnother, Deleting
<1>6. LocksExclude
  BY <1>1 DEF LocksExclude, HoldsOrgLock, Deleting
<1> QED BY <1>2, <1>3, <1>4, <1>5, <1>6 DEF IInv

LEMMA QuietInv ==
    ASSUME IInv, UNCHANGED <<orgs, member, change, req>>, TypeOK' PROVE IInv'
<1> USE DEF IInv
<1>1. /\ (\A r \in Requests : Equipped(r))' /\ Recorded'
      /\ (\A r \in Requests : Claimed(r))' /\ ClaimedOnce'
  BY DEF Equipped, Recorded, Claimed, ClaimedOnce, TouchesAdmin, Approvable
<1>2. (\A r \in Requests : Found(r))' /\ (\A r \in Requests : JoinBrings(r))'
  BY DEF Found, JoinBrings, Present
<1>3. \A m \in MemberIds : /\ Administers(m)' <=> Administers(m)
                           /\ OthersAdminister(m)' <=> OthersAdminister(m)
                           /\ \A q \in Requests : Deleting(q, m)' <=> Deleting(q, m)
  BY DEF Administers, Present, OthersAdminister, Deleting
<1>4. \A q \in Requests, o \in Orgs \cup {NULL} : HoldsOrgLock(q, o)' <=> HoldsOrgLock(q, o)
  BY <1>3 DEF HoldsOrgLock
<1>5. LocksExclude'
  BY <1>3, <1>4 DEF LocksExclude
<1>6. DeletionLeavesAnother' /\ OrgsKeepAdministrator'
  BY <1>3 DEF DeletionLeavesAnother, OrgsKeepAdministrator
<1> QED BY <1>1, <1>2, <1>5, <1>6

LEMMA NextInv == ASSUME IInv, [Next]_vars PROVE IInv'
<1>1. TypeOK'
  BY TypeNext DEF IInv
<1>2. ASSUME NEW r \in Requests, RequestStep(r) PROVE IInv'
  <2> USE DEF IInv
  <2>1. (\A q \in Requests : Equipped(q))'
    BY EquippedNext
  <2>2. (\A q \in Requests : Claimed(q))' /\ ClaimedOnce'
    BY ClaimedNext
  <2>3. Recorded'
    BY <1>2, RowsKeep
  <2>4. (\A q \in Requests : Found(q))' /\ LocksExclude' /\ DeletionLeavesAnother'
    BY <1>2, FoundNext, LocksNext, DeletionNext
  <2>5. (\A q \in Requests : JoinBrings(q))' /\ OrgsKeepAdministrator'
    BY <1>2, JoinNext, AdministratorNext
  <2> QED BY <1>1, <2>1, <2>2, <2>3, <2>4, <2>5
<1>3. CASE UNCHANGED vars
  BY <1>1, <1>3, QuietInv DEF vars
<1>4. ASSUME NEW u \in Users, Register(u) PROVE IInv'
  BY <1>1, <1>4, QuietInv DEF Register
<1> QED BY <1>2, <1>3, <1>4 DEF Next, RequestStep

THEOREM Invariance == Spec => []IInv
<1>1. Init => IInv
  BY InitInv
<1>2. IInv /\ [Next]_vars => IInv'
  BY NextInv
<1> QED BY <1>1, <1>2, PTL DEF Spec

\* Rows and requests keep the shape of their tables and steps, in every
\* interleaving of the statements of role, membership and erasure requests.
THEOREM TypeCorrect == Spec => []TypeOK
<1>1. IInv => TypeOK
  BY DEF IInv
<1> QED BY <1>1, Invariance, PTL

\* However demotions, removals, erasures and joins overlap and wherever they
\* stop, an organisation that exists has an ENTERPRISE_ADMIN (set_org_role and
\* enforce_last_enterprise_admin, both under the lock of the organisation).
THEOREM AdministratorsStay == Spec => []OrgsKeepAdministrator
<1>1. IInv => OrgsKeepAdministrator
  BY DEF IInv
<1> QED BY <1>1, Invariance, PTL

\* What RoleChangesApproved says of one step.
RoleApproved ==
    \A u \in Users : user'[u].role # user[u].role =>
         \E c \in ChangeIds, r \in Requests :
             /\ req[r].pc = "setRole" /\ req[r].change = c
             /\ change[c].st = "PENDING" /\ change'[c].st = "APPROVED"
             /\ change[c].target = u /\ user'[u].role = change[c].to
             /\ user'[u].role = "ADMIN" => change[c].by # req[r].caller

\* Only SetRole writes a role, and what it holds then is PENDING and approved
\* by somebody else where it makes an ADMIN.
LEMMA RoleWrites ==
    ASSUME IInv, NEW r \in Requests, RequestStep(r),
           NEW u \in Users, user'[u].role # user[u].role
    PROVE  SetRole(r) /\ change[req[r].change].target = u
<1> USE DEF IInv, TypeOK
<1>1. CASE SetRole(r)
  BY <1>1 DEF SetRole
<1>2. CASE CommitRemoval(r)
  BY <1>2 DEF CommitRemoval, RemovalLeaving, UserRow
<1>3. CASE CommitErasure(r)
  BY <1>3 DEF CommitErasure, UserRow
<1>4. CASE CommitJoin(r)
  <2>1. user'[u] = user[u] \/ user'[u] = [user[u] EXCEPT !.org = req[r].org,
                                 !.status = IF @ = "none" THEN "ACTIVE" ELSE @]
    BY <1>4 DEF CommitJoin
  <2>2. user[u] \in UserRow
    OBVIOUS
  <2> QED BY <2>1, <2>2 DEF UserRow
<1>5. CASE CreateChange(r) \/ WriteOrgRole(r)
  BY <1>5 DEF CreateChange, WriteOrgRole
<1> QED BY <1>1, <1>2, <1>3, <1>4, <1>5, QuietOrWrites

LEMMA StepApproved == ASSUME IInv, [Next]_vars PROVE RoleApproved
<1>1. ASSUME NEW r \in Requests, RequestStep(r), NEW u \in Users, user'[u].role # user[u].role
      PROVE  \E c \in ChangeIds, q \in Requests :
                 /\ req[q].pc = "setRole" /\ req[q].change = c
                 /\ change[c].st = "PENDING" /\ change'[c].st = "APPROVED"
                 /\ change[c].target = u /\ user'[u].role = change[c].to
                 /\ user'[u].role = "ADMIN" => change[c].by # req[q].caller
  <2> DEFINE c == req[r].change
  <2>1. SetRole(r) /\ change[c].target = u
    BY <1>1, RoleWrites
  <2>2. c \in ChangeIds /\ req[r].pc = "setRole"
    BY <2>1 DEF SetRole, IInv, Equipped, Fit
  <2>3. change[c].st = "PENDING" /\ (req[r].differ => change[c].by # req[r].caller)
        /\ (~req[r].differ => change[c].to # "ADMIN")
    BY <2>2 DEF IInv, Claimed, Approvable, TouchesAdmin
  <2>4. change'[c].st = "APPROVED" /\ user'[u].role = change[c].to
    BY <2>1, <2>2 DEF SetRole, IInv, TypeOK, ChangeRow, UserRow
  <2> QED BY <2>1, <2>2, <2>3, <2>4
<1>2. ASSUME NEW v \in Users, Register(v), NEW u \in Users PROVE user'[u].role = user[u].role
  <2>1. user[u] \in UserRow /\ (user'[u] = user[u] \/ user'[u] = [user[u] EXCEPT !.status = "ACTIVE"])
    BY <1>2 DEF Register, IInv, TypeOK
  <2> QED BY <2>1 DEF UserRow
<1> QED BY <1>1, <1>2 DEF RoleApproved, Next, RequestStep, vars

\* A role is written only for a request that was PENDING and is APPROVED from
\* then on, and ADMIN only on the word of two people, whatever requests,
\* approvals and role changes overlap (approve_role_change).
THEOREM RolesApproved == Spec => RoleChangesApproved
<1>1. IInv /\ [Next]_vars => [RoleApproved]_vars
  BY StepApproved
<1>2. Spec => [][RoleApproved]_vars
  BY <1>1, Invariance, PTL DEF Spec
<1> QED BY <1>2 DEF RoleChangesApproved, RoleApproved

-----------------------------------------------------------------------------
(* The organisation a user row names.                                       *)

\* The membership a request is about to write is the one of the user whose row
\* it is about to write with it.
Theirs(r) ==
    LET q == req[r] IN
    q.pc \in {"lockOrg", "demote", "setOrgRole", "remove", "removed", "leave", "erase"}
    /\ q.member # NULL => member[q.member].user = q.user

\* With IInv, the inductive invariant behind OrgClaimBacked: a removal or an
\* erasure takes the organisation off the very row whose membership it deletes.
BackedInv == (\A r \in Requests : Theirs(r)) /\ OrgClaimBacked

\* A join leaves a membership for everyone it brought in.
LEMMA JoinBacks ==
    ASSUME TypeOK, NEW r \in Requests, CommitJoin(r), NEW u \in req[r].joined
    PROVE  \E m \in MemberIds : /\ member'[m].st = "present"
                                /\ member'[m].user = u /\ member'[m].org = req[r].org
<1> DEFINE us == req[r].joined
<1>1. PICK id \in [us -> {m \in MemberIds : member[m].st = "none"}] :
          /\ \A v, w \in us : id[v] = id[w] => v = w
          /\ member' = [m \in MemberIds |->
              IF \E v \in us : id[v] = m
              THEN [st |-> "present", user |-> CHOOSE v \in us : id[v] = m,
                    org |-> req[r].org, role |-> req[r].to]
              ELSE member[m]]
  BY DEF CommitJoin
<1>2. id[u] \in MemberIds
  BY <1>1
<1>3. (CHOOSE v \in us : id[v] = id[u]) = u
  BY <1>1
<1>4. member'[id[u]] = [st |-> "present", user |-> u, org |-> req[r].org, role |-> req[r].to]
  BY <1>1, <1>2, <1>3
<1> QED BY <1>2, <1>4

LEMMA TheirsOwn ==
    ASSUME TypeOK, NEW r \in Requests, Equipped(r), Theirs(r), RequestStep(r)
    PROVE  Theirs(r)'
<1>0. ASSUME req'[r].pc \notin {"lockOrg", "demote", "setOrgRole", "remove", "removed", "leave", "erase"}
      PROVE  Theirs(r)'
  BY <1>0 DEF Theirs
<1>1. ASSUME Finish(r) PROVE Theirs(r)'
  BY <1>0, <1>1, FinishIdle
<1>2. req[r] \in Request /\ Fit(req[r])
  BY DEF TypeOK, Equipped
<1>3. ASSUME NEW m \in MembersOf(req[r].user, req[r].org), NEW p,
             \/ req'[r] = [req[r] EXCEPT !.member = m, !.pc = p]
             \/ req'[r] = [req[r] EXCEPT !.pc = p, !.member = m],
             UNCHANGED member
      PROVE  Theirs(r)'
  <2>1. req'[r].member = m /\ req'[r].user = req[r].user
    BY <1>2, <1>3 DEF Request
  <2> QED BY <1>3, <2>1 DEF MembersOf, Theirs
<1>4. ASSUME NEW p, Proceed(r, p), UNCHANGED member,
             req[r].pc \in {"lockOrg", "demote", "remove", "leave"} \/ req[r].member = NULL
      PROVE  Theirs(r)'
  BY <1>4, ProceedPc DEF Theirs
<1>a. CASE RoleStep(r) \/ JoinStep(r) \/ Abort(r)
  BY <1>0, <1>a, RolePc, JoinPc, FinishIdle DEF Abort
<1>b. ASSUME NEW a, NEW u, NEW o, NEW to, ChangeOrgRole(r, a, u, o, to) PROVE Theirs(r)'
  <2>1. req'[r].pc = "member"
    BY <1>b DEF ChangeOrgRole, Idle, TypeOK
  <2> QED BY <1>0, <2>1
<1>c. ASSUME NEW a, NEW u, NEW o, RemoveMember(r, a, u, o) PROVE Theirs(r)'
  <2>1. req'[r].pc = "member"
    BY <1>c DEF RemoveMember, Idle, TypeOK
  <2> QED BY <1>0, <2>1
<1>d. CASE FindMember(r)
  BY <1>1, <1>3, <1>d DEF FindMember, TypeOK
<1>e. CASE LockOrg(r) \/ CheckDemotion(r) \/ DeleteMember(r)
  BY <1>1, <1>4, <1>e DEF LockOrg, CheckDemotion, DeleteMember
<1>f. CASE WriteOrgRole(r) \/ CommitRemoval(r) \/ CommitErasure(r)
  BY <1>1, <1>f DEF WriteOrgRole, CommitRemoval, RemovalLeaving, CommitErasure
<1>g. ASSUME NEW u, RequestDeletion(r, u) PROVE Theirs(r)'
  <2>1. req'[r].pc = "account"
    BY <1>g DEF RequestDeletion, Idle, TypeOK
  <2> QED BY <1>0, <2>1
<1>h. CASE ReadAccount(r)
  <2>1. CASE ~Finish(r)
    <3> DEFINE o == user[req[r].user].org
               p == IF o = NULL THEN "erase" ELSE "ownMember"
    <3>1. req'[r] = [req[r] EXCEPT !.org = o, !.pc = p]
      BY <1>h, <2>1 DEF ReadAccount, TypeOK
    <3>2. req'[r].member = NULL
      BY <1>2, <1>h, <3>1 DEF ReadAccount, Fit, Request
    <3> QED BY <3>2 DEF Theirs
  <2> QED BY <1>1, <2>1
<1>i. CASE FindOwnMember(r)
  <2>1. req[r].member = NULL
    BY <1>2, <1>i DEF FindOwnMember, Fit
  <2> QED BY <1>3, <1>4, <1>i, <2>1 DEF FindOwnMember, TypeOK
<1> QED BY <1>a, <1>b, <1>c, <1>d, <1>e, <1>f, <1>g, <1>h, <1>i
        DEF RequestStep, MemberStep, ErasureStep

LEMMA TheirsNext ==
    ASSUME IInv, NEW r \in Requests, RequestStep(r), \A q \in Requests : Theirs(q)
    PROVE  \A q \in Requests : Theirs(q)'
<1> USE DEF IInv
<1>1. ASSUME NEW q \in Requests \ {r} PROVE Theirs(q)'
  <2>1. req'[q] = req[q]
    BY StepMoves, OthersStay
  <2>2. ASSUME NEW m \in MemberIds, member[m].st # "none" PROVE member'[m].user = member[m].user
    BY <2>2, RowsKeep
  <2>3. req[q].member \in MemberIds \cup {NULL}
    BY DEF TypeOK, Request
  <2> QED BY <2>1, <2>2, <2>3 DEF Theirs, Found
<1> QED BY <1>1, TheirsOwn

\* A statement that leaves the user's organisation and their memberships alone
\* leaves the one backed by the other.
LEMMA BackedNext ==
    ASSUME IInv, BackedInv, NEW r \in Requests, RequestStep(r) PROVE OrgClaimBacked'
<1> USE DEF IInv, TypeOK
<1> SUFFICES ASSUME NEW u \in Users, user'[u].org # NULL
             PROVE  \E m \in MemberIds : /\ member'[m].st = "present" /\ member'[m].user = u
                                         /\ member'[m].org = user'[u].org
  BY DEF OrgClaimBacked, MembersOf, Present
<1>1. ASSUME user'[u].org = user[u].org
      PROVE  \E m \in MemberIds : /\ member[m].st = "present" /\ member[m].user = u
                                  /\ member[m].org = user'[u].org
  BY <1>1 DEF BackedInv, OrgClaimBacked, MembersOf, Present
<1>2. user[u] \in UserRow /\ \A m \in MemberIds : member[m] \in MemberRow
  OBVIOUS
<1>a. CASE UNCHANGED <<user, orgs, member, change>> \/ CreateChange(r)
  BY <1>1, <1>a DEF CreateChange
<1>b. CASE SetRole(r)
  <2>1. user'[u].org = user[u].org
    BY <1>2, <1>b DEF SetRole, UserRow
  <2> QED BY <1>1, <1>b, <2>1 DEF SetRole
<1>c. CASE WriteOrgRole(r)
  <2>1. user'[u].org = user[u].org
    BY <1>c DEF WriteOrgRole
  <2>2. PICK m \in MemberIds : /\ member[m].st = "present" /\ member[m].user = u
                               /\ member[m].org = user'[u].org
    BY <1>1, <2>1
  <2>3. member'[m] = member[m] \/ member'[m] = [member[m] EXCEPT !.role = req[r].to]
    BY <1>c DEF WriteOrgRole
  <2> QED BY <1>2, <2>2, <2>3 DEF MemberRow
<1>d. CASE CommitRemoval(r) \/ CommitErasure(r)
  <2> DEFINE n == req[r].member
  <2>1. u # req[r].user
    BY <1>2, <1>d DEF CommitRemoval, RemovalLeaving, CommitErasure, UserRow
  <2>2. user'[u] = user[u]
    BY <1>d, <2>1 DEF CommitRemoval, RemovalLeaving, CommitErasure
  <2>3. PICK m \in MemberIds : /\ member[m].st = "present" /\ member[m].user = u
                               /\ member[m].org = user'[u].org
    BY <1>1, <2>2
  <2>4. n = NULL \/ member[n].user = req[r].user
    BY <1>d DEF CommitRemoval, RemovalLeaving, CommitErasure, BackedInv, Theirs
  <2>5. m # NULL
    BY GovernanceAssumption
  <2>6. m # n
    BY <2>1, <2>3, <2>4, <2>5
  <2>7. member'[m] = member[m]
    BY <1>d, <2>6 DEF CommitRemoval, RemovalLeaving, CommitErasure
  <2> QED BY <2>3, <2>7
<1>e. CASE CommitJoin(r)
  <2>1. CASE u \in req[r].joined
    <3>1. user'[u].org = req[r].org
      BY <1>2, <1>e, <2>1 DEF CommitJoin, UserRow
    <3> QED BY <1>e, <2>1, <3>1, JoinBacks
  <2>2. CASE u \notin req[r].joined
    <3>1. user'[u] = user[u]
      BY <1>e, <2>2 DEF CommitJoin
    <3>2. PICK m \in MemberIds : /\ member[m].st = "present" /\ member[m].user = u
                                 /\ member[m].org = user'[u].org
      BY <1>1, <3>1
    <3>3. member'[m] = member[m]
      BY <1>e, <3>2, JoinWrites
    <3> QED BY <3>2, <3>3
  <2> QED BY <2>1, <2>2
<1> QED BY <1>a, <1>b, <1>c, <1>d, <1>e, QuietOrWrites

\* The organisation a user row names, and the user's tokens with it, is one the
\* user is a member of, whatever removals, joins and erasures of the same
\* person overlap: each writes the two rows in one transaction, and none writes
\* the user row of somebody else's membership.
THEOREM ClaimsBacked == Spec => []OrgClaimBacked
<1>1. Init => BackedInv
  BY DEF Init, BackedInv, Theirs, OrgClaimBacked, Idle
<1>2. IInv /\ BackedInv /\ [Next]_vars => BackedInv'
  <2>1. ASSUME IInv, BackedInv, NEW r \in Requests, RequestStep(r) PROVE BackedInv'
    BY <2>1, TheirsNext, BackedNext DEF BackedInv
  <2>2. ASSUME IInv, BackedInv, NEW u \in Users, Register(u) PROVE BackedInv'
    <3>1. \A v \in Users : user'[v].org = user[v].org
      BY <2>2 DEF Register, IInv, TypeOK, UserRow
    <3> QED BY <2>2, <3>1 DEF Register, BackedInv, Theirs, OrgClaimBacked, MembersOf, Present
  <2>3. ASSUME BackedInv, UNCHANGED vars PROVE BackedInv'
    BY <2>3 DEF vars, BackedInv, Theirs, OrgClaimBacked, MembersOf, Present
  <2> QED BY <2>1, <2>2, <2>3 DEF Next, RequestStep
<1>3. BackedInv => OrgClaimBacked
  BY DEF BackedInv
<1> QED BY <1>1, <1>2, <1>3, Invariance, PTL DEF Spec
=============================================================================
