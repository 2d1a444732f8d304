----------------------------- MODULE MCSessions -----------------------------
(* Instances of Sessions for TLC.                                           *)
EXTENDS Sessions, TLC

\* Ids and request slots are interchangeable.
Symmetry ==
    Permutations(SessionIds) \cup Permutations(TokenIds) \cup Permutations(Requests)

\* The accounts that have taken part.
Party ==
    LET owners == {req[r].user : r \in Requests} \cup {session[s].user : s \in SessionIds}
                  \cup {reset[k].user : k \in ResetIds}
                  \cup {challenge[c].user : c \in ChallengeIds}
    IN {u \in Users : u \in owners \/ user[u].mfa \/ ~Active(u) \/ user[u].version > 0}

\* Two instances in one: administrators who reset no password, or the others with
\* one session between them.
Apart ==
    \/ /\ Party \subseteq Admins
       /\ \A r \in Requests : req[r].pc # "issueReset"
    \/ /\ Party \cap Admins = {}
       /\ Cardinality({s \in SessionIds : session[s].st # "none"}) <= 1

StaysApart == Apart'
=============================================================================
