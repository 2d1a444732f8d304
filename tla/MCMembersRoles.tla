--------------------------- MODULE MCMembersRoles ---------------------------
(* Two instances of Governance in one run of TLC, chosen at the start: the  *)
(* members of two organisations, or platform roles.                         *)
EXTENDS MCGovernance

VARIABLE
    aside       \* the administrator who takes no part while members are
                \* studied; NULL where everybody does, and roles are studied

mcVars == <<vars, aside>>

\* Memberships get their ids in order, which stands for the symmetry of the ids.
InOrder(row) == \A i, j \in DOMAIN row : i < j /\ row[j].st # "none" => row[i].st # "none"
SmallSymmetry ==
    Permutations(Orgs) \cup Permutations(ChangeIds) \cup Permutations(Requests)
        \cup Permutations(Bootstrapped)

\* No organisation is created.
RolesNext ==
    /\ aside = NULL
    /\ \/ \E u \in Users : Register(u)
       \/ \E r \in Requests : RoleStep(r) \/ ErasureStep(r) \/ Abort(r)

\* No role change is asked for, and the one aside neither acts nor is acted on.
People == Users \ {aside}

\* The steps that choose people, and all others.
Chooses(r) ==
    \/ \E a, u \in People, o \in Orgs, to \in OrgRoles : ChangeOrgRole(r, a, u, o, to)
    \/ \E a, u \in People, o \in Orgs : RemoveMember(r, a, u, o) \/ CreateOrganization(r, a, o, u)
    \/ \E a \in People, o \in Orgs, us \in SUBSET People, to \in OrgRoles :
          AddMembers(r, a, o, us, to)
    \/ \E u \in People : FindInvited(r, u) \/ RequestDeletion(r, u)

Continues(r) ==
    \/ FindMember(r) \/ LockOrg(r) \/ CheckDemotion(r) \/ WriteOrgRole(r)
    \/ DeleteMember(r) \/ CommitRemoval(r) \/ Attach(r) \/ CommitJoin(r)
    \/ ReadAccount(r) \/ FindOwnMember(r) \/ CommitErasure(r) \/ Abort(r)

MembersNext ==
    /\ aside # NULL
    /\ \/ \E u \in People : Register(u)
       \/ \E r \in Requests : Chooses(r) \/ Continues(r)
    /\ InOrder(member')

MCInit == Init /\ aside \in Bootstrapped \cup {NULL}
MCNext == (RolesNext \/ MembersNext) /\ UNCHANGED aside
MCSpec == MCInit /\ [][MCNext]_mcVars
=============================================================================
