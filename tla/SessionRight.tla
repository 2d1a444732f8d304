---------------------------- MODULE SessionRight ----------------------------
(***************************************************************************)
(* What rotation promises of a session, without requests, rows or tokens:  *)
(* the right to refresh a session is a single thing.  It is brought into   *)
(* being once, it is either usable or being exchanged by one request, and  *)
(* once it is gone nothing brings it back.  Sessions implements this.      *)
(*                                                                         *)
(* Revoking takes away a right that is usable.  A right that is being      *)
(* exchanged may survive a revocation: it is given up only when the        *)
(* exchange fails, or when the session's row is deleted.                   *)
(***************************************************************************)
CONSTANT SessionIds

VARIABLE right  \* SessionIds -> {"none", "pending", "usable", "gone"}

Init == right = [s \in SessionIds |-> "none"]

\* A session is opened; its first refresh token is not yet stored.
Open(s) ==
    /\ right[s] = "none"
    /\ right' = [right EXCEPT ![s] = "pending"]

\* A refresh token is stored.
Mint(s) ==
    /\ right[s] = "pending"
    /\ right' = [right EXCEPT ![s] = "usable"]

\* The refresh token is claimed by the request that will replace it.
Exchange(s) ==
    /\ right[s] = "usable"
    /\ right' = [right EXCEPT ![s] = "pending"]

\* Revocation, erasure, or the end of the request holding the right; several
\* sessions of a user may lose it in one step.
Lose(S) ==
    /\ \A s \in S : right[s] \in {"pending", "usable"}
    /\ right' = [s \in SessionIds |-> IF s \in S THEN "gone" ELSE right[s]]

Next ==
    \/ \E s \in SessionIds : Open(s) \/ Mint(s) \/ Exchange(s)
    \/ \E S \in SUBSET SessionIds : Lose(S)

Spec == Init /\ [][Next]_right
=============================================================================
