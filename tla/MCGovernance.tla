---------------------------- MODULE MCGovernance ----------------------------
(* Instances of Governance for TLC.                                         *)
EXTENDS Governance, TLC

\* Ids and request slots are interchangeable, and so are the users: all are
\* administrators from the start, or none is.
Symmetry ==
    Permutations(Orgs) \cup Permutations(MemberIds) \cup Permutations(ChangeIds)
        \cup Permutations(Requests) \cup Permutations(Bootstrapped)
        \cup Permutations(Users \ Bootstrapped)
=============================================================================
