------------------------------- MODULE OAuth --------------------------------
(***************************************************************************)
(* OAuthService: a sign-in or a linking starts with a state row, comes     *)
(* back from the provider with an external identity, and ends in a         *)
(* session, a new account, a linked account or a refusal.  Callbacks run   *)
(* side by side, statement by statement, with erasures among them.         *)
(*                                                                         *)
(* An identity is a (provider, providerAccountId) pair; its profile has an *)
(* e-mail address, which is that of an account or of nobody yet.           *)
(***************************************************************************)
EXTENDS Naturals

CONSTANTS
    Users,          \* ids of "User" rows
    Registered,     \* those there from the start, by password
    Identities,     \* external identities
    EmailOf,        \* Identities -> address of the profile
    AddressOf,      \* Registered -> address of the account
    States,         \* ids of "OAuthState" rows
    Requests,
    Nobody

VARIABLES
    user,           \* Users -> st "none", "ACTIVE", "DELETED", and address
    state,          \* States -> st, user it was tagged with
    account,        \* Identities -> user of the "OAuthAccount", or Nobody
    origin,         \* Identities -> "", "created", or the state that linked it (ghost)
    opened,         \* States -> sessions opened or accounts linked by it (ghost)
    req

vars == <<user, state, account, origin, opened, req>>

Idle == [pc |-> "idle", state |-> "", identity |-> "", user |-> Nobody]
Goes(r, held) == req' = [req EXCEPT ![r] = held]

Holder(email) == {u \in Users : user[u].st # "none" /\ user[u].address = email}

-----------------------------------------------------------------------------
\* Tagged with the caller when an authenticated user asks to link.
createState ==
    /\ \E s \in States, u \in {Nobody} \cup {v \in Users : user[v].st = "ACTIVE"} :
         /\ state[s].st = "none"
         /\ state' = [state EXCEPT ![s] = [st |-> "unused", user |-> u]]
    /\ UNCHANGED <<user, account, origin, opened, req>>

\* Expiry turns the callback away before it changes anything.
Callback(r, s, i) ==
    /\ req[r] = Idle /\ state[s].st # "none"
    /\ Goes(r, [Idle EXCEPT !.pc = "consume", !.state = s, !.identity = i])
    /\ UNCHANGED <<user, state, account, origin, opened>>

\* Without WHERE usedAt IS NULL.
consumeStateUnguarded(r) ==
    LET s == req[r].state IN
    /\ req[r].pc = "consume"
    /\ state' = [state EXCEPT ![s].st = "used"]
    /\ Goes(r, [req[r] EXCEPT !.user = state[s].user,
                              !.pc = IF state[s].user # Nobody THEN "link" ELSE "account"])
    /\ UNCHANGED <<user, account, origin, opened>>

\* One statement claims the state; its tag is read afterwards and never changes.
consumeState(r) ==
    LET s == req[r].state IN
    /\ req[r].pc = "consume"
    /\ IF state[s].st = "unused"
       THEN /\ state' = [state EXCEPT ![s].st = "used"]
            /\ Goes(r, [req[r] EXCEPT !.user = state[s].user,
                                      !.pc = IF state[s].user # Nobody THEN "link" ELSE "account"])
       ELSE Goes(r, Idle) /\ UNCHANGED state
    /\ UNCHANGED <<user, account, origin, opened>>

\* handleProviderProfile: matched by identity, never by address.
FindAccount(r) ==
    LET u == account[req[r].identity] IN
    /\ req[r].pc = "account"
    /\ Goes(r, [req[r] EXCEPT !.user = u, !.pc = IF u # Nobody THEN "session" ELSE "email"])
    /\ UNCHANGED <<user, state, account, origin, opened>>

\* The address of an account already there: sign in by its address.
CheckEmailLinks(r) ==
    /\ req[r].pc = "email"
    /\ IF Holder(EmailOf[req[r].identity]) = {}
       THEN Goes(r, [req[r] EXCEPT !.pc = "create"]) /\ UNCHANGED account
       ELSE \E u \in Holder(EmailOf[req[r].identity]) :
              /\ account' = [account EXCEPT ![req[r].identity] = u]
              /\ Goes(r, [req[r] EXCEPT !.pc = "session", !.user = u])
    /\ UNCHANGED <<user, state, origin, opened>>

\* link_required when the address belongs to an account.
CheckEmail(r) ==
    /\ req[r].pc = "email"
    /\ Goes(r, IF Holder(EmailOf[req[r].identity]) = {}
               THEN [req[r] EXCEPT !.pc = "create"] ELSE Idle)
    /\ UNCHANGED <<user, state, account, origin, opened>>

\* User, account and consents in one transaction; a taken address or identity
\* rolls it back.
CreateUser(r) ==
    LET i == req[r].identity IN
    /\ req[r].pc = "create"
    /\ IF Holder(EmailOf[i]) = {} /\ account[i] = Nobody
       THEN \E u \in Users :
              /\ user[u].st = "none"
              /\ user' = [user EXCEPT ![u] = [st |-> "ACTIVE", address |-> EmailOf[i]]]
              /\ account' = [account EXCEPT ![i] = u]
              /\ origin' = [origin EXCEPT ![i] = "created"]
              /\ Goes(r, [req[r] EXCEPT !.pc = "session", !.user = u])
       ELSE Goes(r, Idle) /\ UNCHANGED <<user, account, origin>>
    /\ UNCHANGED <<state, opened>>

\* issueSession; the account is not looked at again.
issueSession(r) ==
    /\ req[r].pc = "session"
    /\ opened' = [opened EXCEPT ![req[r].state] = @ + 1]
    /\ Goes(r, Idle)
    /\ UNCHANGED <<user, state, account, origin>>

\* The unique key turns away an identity that is linked, to whomever.
linkProviderToUser(r) ==
    LET i == req[r].identity IN
    /\ req[r].pc = "link"
    /\ IF account[i] = Nobody
       THEN /\ account' = [account EXCEPT ![i] = req[r].user]
            /\ origin' = [origin EXCEPT ![i] = req[r].state]
            /\ opened' = [opened EXCEPT ![req[r].state] = @ + 1]
       ELSE UNCHANGED <<account, origin, opened>>
    /\ Goes(r, Idle)
    /\ UNCHANGED <<user, state>>

\* requestDeletion: the accounts go, the row stays, under an address of its own.
Erase(u) ==
    /\ user[u].st = "ACTIVE"
    /\ user' = [user EXCEPT ![u] = [st |-> "DELETED", address |-> ""]]
    /\ account' = [i \in Identities |-> IF account[i] = u THEN Nobody ELSE account[i]]
    /\ origin' = [i \in Identities |-> IF account[i] = u THEN "" ELSE origin[i]]
    /\ UNCHANGED <<state, opened, req>>

\* A statement throws, or the process dies.
CallbackStops(r) ==
    /\ req[r] # Idle
    /\ Goes(r, Idle)
    /\ UNCHANGED <<user, state, account, origin, opened>>

Init ==
    /\ user = [u \in Users |-> IF u \in Registered THEN [st |-> "ACTIVE", address |-> AddressOf[u]]
                               ELSE [st |-> "none", address |-> ""]]
    /\ state = [s \in States |-> [st |-> "none", user |-> Nobody]]
    /\ account = [i \in Identities |-> Nobody]
    /\ origin = [i \in Identities |-> ""]
    /\ opened = [s \in States |-> 0]
    /\ req = [r \in Requests |-> Idle]

Next ==
    \/ createState
    \/ \E u \in Users : Erase(u)
    \/ \E r \in Requests :
         \/ \E s \in States, i \in Identities : Callback(r, s, i)
         \/ consumeState(r) \/ FindAccount(r) \/ CheckEmail(r) \/ CreateUser(r)
         \/ issueSession(r) \/ linkProviderToUser(r) \/ CallbackStops(r)

Spec == Init /\ [][Next]_vars

-----------------------------------------------------------------------------
\* "Never by email": an identity belongs to an account only because the account was
\* made for it, or because a state that the account's user asked for was consumed;
\* and no state, however often its callback is replayed, opens or links twice.
IdentityProved ==
    /\ \A i \in Identities : account[i] # Nobody =>
         \/ origin[i] = "created" /\ account[i] \notin Registered
         \/ origin[i] \in States /\ state[origin[i]] = [st |-> "used", user |-> account[i]]
    /\ \A s \in States : opened[s] <= 1
=============================================================================
