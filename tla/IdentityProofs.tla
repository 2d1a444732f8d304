---------------------------- MODULE IdentityProofs ----------------------------
(***************************************************************************)
(* Theorems about who a request or a browser is taken for: sign-in with a  *)
(* provider (SignIn, an instance of OAuth), the tokens that are served     *)
(* (Bearers, of AccessTokens) and the browser that refreshes its session   *)
(* (Browser, of AuthClient). The three share no state; each has an         *)
(* invariant of its own.                                                   *)
(*                                                                         *)
(* SignInInv: past the claim of a state one callback at most is at work,   *)
(* and what an identity is attached to was created for it or asked for.    *)
(* BearerInv: what a request knows when it passed the staleness check and  *)
(* the denylist, in seconds, against what happened, in ticks. BrowserInv:  *)
(* while refreshes take turns, the session's right is with the one that is *)
(* out or with the cookie jar.                                             *)
(***************************************************************************)
EXTENDS Services, TLAPS

-----------------------------------------------------------------------------
(* SignIn.                                                                  *)

Addresses == {""} \cup {AddressOf[u] : u \in Registered} \cup {EmailOf[i] : i \in Identities}

UserRow == [st : {"none", "ACTIVE", "DELETED"}, address : Addresses]

StateRow == [st : {"none", "unused", "used"}, user : Users \cup {Nobody}]

Claimant == {"account", "email", "create", "session", "link"}

CallbackHeld == [pc : {"idle", "consume"} \cup Claimant, state : States \cup {""},
         identity : Identities \cup {""}, user : Users \cup {Nobody}]

SignInShape ==
    /\ user \in [Users -> UserRow]
    /\ state \in [States -> StateRow]
    /\ account \in [Identities -> Users \cup {Nobody}]
    /\ opened \in [States -> Nat]
    /\ origin \in [Identities -> {"", "created"} \cup States]
    /\ req \in [Slots -> CallbackHeld]

\* An account that was registered by password is never taken for a new one.
RegisteredStay == \A u \in Registered \cap Users : user[u].st # "none"

PastClaim(r) == req[r].pc \in Claimant

\* A callback has a state and an identity in hand; past the claim the state is
\* used, has led to nothing yet, and a linking is for the user it was tagged with.
Equipped(r) ==
    /\ req[r].pc # "idle" => /\ req[r].state \in States /\ req[r].identity \in Identities
                             /\ state[req[r].state].st # "none"
    /\ PastClaim(r) => state[req[r].state].st = "used" /\ opened[req[r].state] = 0
    /\ req[r].pc = "link" => req[r].user = state[req[r].state].user

\* A state is claimed once.
ClaimedOnce ==
    \A q, r \in Slots : PastClaim(q) /\ PastClaim(r) /\ req[q].state = req[r].state => q = r

\* What a state led to, it led to once, after its claim.
OpenedOnce == \A s \in States : opened[s] <= 1 /\ (opened[s] # 0 => state[s].st = "used")

\* Each identity's account is accounted for.
Proved(i) ==
    account[i] # Nobody =>
        \/ origin[i] = "created" /\ account[i] \notin Registered
        \/ origin[i] \in States /\ state[origin[i]] = [st |-> "used", user |-> account[i]]

SignInInv ==
    /\ SignInShape /\ RegisteredStay /\ ClaimedOnce /\ OpenedOnce
    /\ \A r \in Slots : Equipped(r)
    /\ \A i \in Identities : Proved(i)

-----------------------------------------------------------------------------
(* What a callback's steps have in common.                                  *)

LEMMA CallbackIdle == SignIn!Idle \in CallbackHeld /\ SignIn!Idle.pc = "idle"
BY DEF SignIn!Idle, CallbackHeld

\* A callback moves on.  Used states stay as they are, and only the claimant of a
\* state adds to what it led to: the other callbacks are as well equipped as before.
LEMMA CallbackMoves ==
    ASSUME SignInInv, NEW r \in Slots, NEW held \in CallbackHeld, SignIn!Goes(r, held),
           \A s \in States : state'[s] # state[s] => state[s].st # "used" /\ state'[s].st # "none",
           \A s \in States : opened'[s] # opened[s] => PastClaim(r) /\ s = req[r].state,
           held.pc # "idle" => /\ held.state \in States /\ held.identity \in Identities
                               /\ state'[held.state].st # "none",
           held.pc \in Claimant =>
               /\ state'[held.state].st = "used" /\ opened'[held.state] = 0
               /\ \/ PastClaim(r) /\ held.state = req[r].state
                  \/ state[held.state].st # "used",
           held.pc = "link" => held.user = state'[held.state].user
    PROVE  /\ req' \in [Slots -> CallbackHeld] /\ ClaimedOnce' /\ \A q \in Slots : Equipped(q)'
<1>1. /\ req' \in [Slots -> CallbackHeld] /\ req'[r] = held
      /\ \A q \in Slots : q # r => req'[q] = req[q]
  BY DEF SignIn!Goes, SignInInv, SignInShape
<1>2. PastClaim(r)' <=> held.pc \in Claimant
  BY <1>1 DEF PastClaim
<1>3. \A q \in Slots : q # r => (PastClaim(q)' <=> PastClaim(q))
  BY <1>1 DEF PastClaim
<1>4. Equipped(r)'
  BY <1>1, <1>2 DEF Equipped
<1>5. ASSUME NEW q \in Slots, q # r PROVE Equipped(q)'
  <2>1. Equipped(q)
    BY DEF SignInInv
  <2>2. ASSUME req[q].pc # "idle"
        PROVE  /\ req[q].state \in States /\ req[q].identity \in Identities
               /\ state'[req[q].state].st # "none"
    BY <2>1, <2>2 DEF Equipped
  <2>3. ASSUME PastClaim(q)
        PROVE  /\ state'[req[q].state] = state[req[q].state] /\ state[req[q].state].st = "used"
               /\ opened'[req[q].state] = 0
    <3>1. req[q].pc # "idle"
      BY <2>3 DEF PastClaim, Claimant
    <3>2. req[q].state \in States /\ state[req[q].state].st = "used" /\ opened[req[q].state] = 0
      BY <2>1, <2>3, <3>1 DEF Equipped
    <3>3. ~(PastClaim(r) /\ req[q].state = req[r].state)
      BY <1>5, <2>3 DEF SignInInv, ClaimedOnce
    <3> QED BY <3>2, <3>3
  <2>4. req[q].pc = "link" => PastClaim(q) /\ req[q].user = state[req[q].state].user
    BY <2>1 DEF Equipped, PastClaim, Claimant
  <2> QED BY <1>1, <1>3, <1>5, <2>2, <2>3, <2>4 DEF Equipped
<1>6. ASSUME NEW q \in Slots, q # r, PastClaim(q)', PastClaim(r)'
      PROVE  req'[q].state # req'[r].state
  <2>1. PastClaim(q) /\ req'[q].state = req[q].state /\ held.state = req'[r].state
    BY <1>1, <1>3, <1>6
  <2>2. state[req[q].state].st = "used"
    BY <2>1 DEF SignInInv, Equipped
  <2>3. CASE PastClaim(r) /\ held.state = req[r].state
    BY <1>6, <2>1, <2>3 DEF SignInInv, ClaimedOnce
  <2>4. CASE state[held.state].st # "used"
    BY <2>1, <2>2, <2>4
  <2> QED BY <1>2, <1>6, <2>3, <2>4
<1>7. ClaimedOnce'
  <2>1. ASSUME NEW p \in Slots, NEW q \in Slots, PastClaim(p)', PastClaim(q)',
               req'[p].state = req'[q].state, p # q
        PROVE  FALSE
    <3>1. CASE p = r \/ q = r
      BY <1>6, <2>1, <3>1
    <3>2. CASE p # r /\ q # r
      BY <1>1, <1>3, <2>1, <3>2 DEF SignInInv, ClaimedOnce
    <3> QED BY <3>1, <3>2
  <2> QED BY <2>1 DEF ClaimedOnce
<1> QED BY <1>1, <1>4, <1>5, <1>7

\* A callback ends, or goes on with the state it has, and writes nothing.
LEMMA CallbackLooks ==
    ASSUME SignInInv, NEW r \in Slots, NEW held \in CallbackHeld, SignIn!Goes(r, held),
           UNCHANGED <<user, state, account, origin, opened>>,
           held.pc # "idle" => /\ held.state \in States /\ held.identity \in Identities
                               /\ state[held.state].st # "none",
           held.pc \in Claimant => PastClaim(r) /\ held.state = req[r].state,
           held.pc # "link"
    PROVE  SignInInv'
<1>1. PastClaim(r) => state[req[r].state].st = "used" /\ opened[req[r].state] = 0
  BY DEF SignInInv, Equipped
<1>2. req' \in [Slots -> CallbackHeld] /\ ClaimedOnce' /\ \A q \in Slots : Equipped(q)'
  BY <1>1, CallbackMoves
<1>3. SignInShape' /\ RegisteredStay' /\ OpenedOnce' /\ \A i \in Identities : Proved(i)'
  BY <1>2 DEF SignInInv, SignInShape, RegisteredStay, OpenedOnce, Proved
<1> QED BY <1>2, <1>3 DEF SignInInv

-----------------------------------------------------------------------------
(* Every step keeps the invariant.                                          *)

LEMMA CreateStateKeeps == SignInInv /\ SignIn!createState => SignInInv'
<1> SUFFICES ASSUME SignInInv, SignIn!createState PROVE SignInInv'
  OBVIOUS
<1>1. PICK s \in States, u \in Users \cup {Nobody} :
        /\ state[s].st = "none" /\ state' = [state EXCEPT ![s] = [st |-> "unused", user |-> u]]
  BY DEF SignIn!createState
<1>2. UNCHANGED <<user, account, origin, opened, req>>
  BY DEF SignIn!createState
<1>3. /\ state' \in [States -> StateRow] /\ state'[s].st = "unused"
      /\ \A t \in States : t # s => state'[t] = state[t]
  BY <1>1 DEF SignInInv, SignInShape, StateRow
<1>4. \A t \in States : state[t].st # "none" => state'[t] = state[t]
  BY <1>1, <1>3
<1>5. SignInShape' /\ RegisteredStay' /\ ClaimedOnce'
  BY <1>2, <1>3 DEF SignInInv, SignInShape, RegisteredStay, ClaimedOnce, PastClaim
<1>6. OpenedOnce'
  BY <1>2, <1>4 DEF SignInInv, OpenedOnce
<1>7. ASSUME NEW r \in Slots PROVE Equipped(r)'
  <2>1. Equipped(r) /\ req'[r] = req[r]
    BY <1>2 DEF SignInInv
  <2>2. PastClaim(r) => req[r].pc # "idle"
    BY DEF PastClaim, Claimant
  <2>3. req[r].pc = "link" => req[r].pc # "idle"
    OBVIOUS
  <2> QED BY <1>2, <1>4, <2>1, <2>2, <2>3 DEF Equipped, PastClaim
<1>8. ASSUME NEW i \in Identities PROVE Proved(i)'
  BY <1>2, <1>4 DEF SignInInv, Proved
<1> QED BY <1>5, <1>6, <1>7, <1>8 DEF SignInInv

LEMMA CallbackKeeps ==
    ASSUME SignInInv, NEW r \in Slots, NEW s \in States, NEW i \in Identities, SignIn!Callback(r, s, i)
    PROVE  SignInInv'
<1> DEFINE held == [SignIn!Idle EXCEPT !.pc = "consume", !.state = s, !.identity = i]
<1>1. held \in CallbackHeld /\ held.pc = "consume" /\ held.state = s /\ held.identity = i
  BY DEF CallbackHeld, SignIn!Idle
<1>2. SignIn!Goes(r, held) /\ state[s].st # "none" /\ UNCHANGED <<user, state, account, origin, opened>>
  BY DEF SignIn!Callback
<1>3. "consume" \notin Claimant
  BY DEF Claimant
<1> HIDE DEF held
<1> QED BY <1>1, <1>2, <1>3, CallbackLooks

LEMMA ConsumeKeeps ==
    ASSUME SignInInv, NEW r \in Slots, SignIn!consumeState(r)
    PROVE  SignInInv'
<1>1. /\ req[r].pc = "consume" /\ req[r] \in CallbackHeld /\ Equipped(r)
      /\ UNCHANGED <<user, account, origin, opened>>
  BY DEF SignIn!consumeState, SignInInv, SignInShape
<1>2. PICK s \in States : s = req[r].state /\ req[r].identity \in Identities
  BY <1>1 DEF Equipped
<1>3. CASE state[s].st = "unused"
  <2> DEFINE pc == IF state[s].user # Nobody THEN "link" ELSE "account"
             held == [req[r] EXCEPT !.user = state[s].user, !.pc = pc]
  <2>1. SignIn!Goes(r, held) /\ state' = [state EXCEPT ![s].st = "used"]
    BY <1>2, <1>3 DEF SignIn!consumeState
  <2>2. state[s] \in StateRow
    BY DEF SignInInv, SignInShape
  <2>3. pc \in Claimant
    BY DEF Claimant
  <2> HIDE DEF pc
  <2>4. /\ held \in CallbackHeld /\ held.pc = pc /\ held.state = s /\ held.user = state[s].user
        /\ held.identity = req[r].identity
    BY <1>1, <1>2, <2>2, <2>3 DEF CallbackHeld, StateRow
  <2> HIDE DEF held
  <2>5. /\ state' \in [States -> StateRow] /\ state'[s].st = "used" /\ state'[s].user = state[s].user
        /\ \A t \in States : t # s => state'[t] = state[t]
    BY <2>1, <2>2 DEF SignInInv, SignInShape, StateRow
  <2>6. opened[s] = 0
    BY <1>3 DEF SignInInv, OpenedOnce
  <2>7. req' \in [Slots -> CallbackHeld] /\ ClaimedOnce' /\ \A q \in Slots : Equipped(q)'
    BY <1>1, <1>2, <1>3, <2>1, <2>3, <2>4, <2>5, <2>6, CallbackMoves
  <2>8. OpenedOnce'
    BY <1>1, <2>5 DEF SignInInv, OpenedOnce
  <2>9. \A t \in States : state[t].st = "used" => state'[t] = state[t]
    BY <1>3, <2>5
  <2>10. \A i \in Identities : Proved(i)'
    BY <1>1, <2>9 DEF SignInInv, Proved
  <2> QED BY <1>1, <2>5, <2>7, <2>8, <2>10 DEF SignInInv, SignInShape, RegisteredStay
<1>4. CASE state[s].st # "unused"
  BY <1>1, <1>2, <1>4, CallbackIdle, CallbackLooks DEF SignIn!consumeState, Claimant
<1> QED BY <1>3, <1>4

LEMMA FindKeeps ==
    ASSUME SignInInv, NEW r \in Slots, SignIn!FindAccount(r) \/ SignIn!CheckEmail(r) \/ SignIn!CallbackStops(r)
    PROVE  SignInInv'
<1>1. /\ req[r] \in CallbackHeld /\ Equipped(r) /\ UNCHANGED <<user, state, account, origin, opened>>
  BY DEF SignIn!FindAccount, SignIn!CheckEmail, SignIn!CallbackStops, SignInInv, SignInShape
<1>2. CASE SignIn!Goes(r, SignIn!Idle)
  BY <1>1, <1>2, CallbackIdle, CallbackLooks DEF Claimant
<1>3. ASSUME NEW pc \in {"session", "email", "create"}, NEW u \in Users \cup {Nobody}, PastClaim(r),
             SignIn!Goes(r, [req[r] EXCEPT !.user = u, !.pc = pc])
      PROVE  SignInInv'
  <2> DEFINE held == [req[r] EXCEPT !.user = u, !.pc = pc]
  <2>1. /\ held \in CallbackHeld /\ held.pc = pc /\ held.state = req[r].state
        /\ held.identity = req[r].identity
    BY <1>1 DEF CallbackHeld, Claimant
  <2>2. pc # "link" /\ pc # "idle"
    OBVIOUS
  <2> HIDE DEF held
  <2>3. req[r].state \in States /\ req[r].identity \in Identities /\ state[req[r].state].st # "none"
    BY <1>1, <1>3 DEF Equipped, PastClaim, Claimant
  <2>4. SignIn!Goes(r, held)
    BY <1>3 DEF held
  <2> QED BY <1>1, <1>3, <2>1, <2>2, <2>3, <2>4, CallbackLooks
<1>4. CASE SignIn!FindAccount(r)
  <2>1. PastClaim(r) /\ req[r].identity \in Identities
    BY <1>1, <1>4 DEF SignIn!FindAccount, PastClaim, Claimant, Equipped
  <2>2. PICK u \in Users \cup {Nobody} : u = account[req[r].identity]
    BY <2>1 DEF SignInInv, SignInShape
  <2> QED BY <1>3, <1>4, <2>1, <2>2 DEF SignIn!FindAccount
<1>5. CASE SignIn!CheckEmail(r)
  <2>1. PastClaim(r) /\ req[r].user \in Users \cup {Nobody}
    BY <1>1, <1>5 DEF SignIn!CheckEmail, PastClaim, Claimant, CallbackHeld
  <2>2. [req[r] EXCEPT !.pc = "create"] = [req[r] EXCEPT !.user = req[r].user, !.pc = "create"]
    BY <1>1 DEF CallbackHeld
  <2> QED BY <1>2, <1>3, <1>5, <2>1, <2>2 DEF SignIn!CheckEmail
<1>6. CASE SignIn!CallbackStops(r)
  BY <1>2, <1>6 DEF SignIn!CallbackStops
<1> QED BY <1>4, <1>5, <1>6

LEMMA CreateUserKeeps ==
    ASSUME SignInInv, NEW r \in Slots, SignIn!CreateUser(r)
    PROVE  SignInInv'
<1>1. /\ req[r].pc = "create" /\ req[r] \in CallbackHeld /\ PastClaim(r) /\ Equipped(r)
      /\ UNCHANGED <<state, opened>>
  BY DEF SignIn!CreateUser, SignInInv, SignInShape, PastClaim, Claimant
<1>2. PICK i \in Identities : i = req[r].identity
  BY <1>1 DEF Equipped
<1>3. CASE SignIn!Goes(r, SignIn!Idle) /\ UNCHANGED <<user, account, origin>>
  BY <1>1, <1>3, CallbackIdle, CallbackLooks DEF Claimant
<1>4. CASE ~(SignIn!Goes(r, SignIn!Idle) /\ UNCHANGED <<user, account, origin>>)
  <2> DEFINE new == [st |-> "ACTIVE", address |-> EmailOf[i]]
  <2>1. PICK u \in Users :
          /\ user[u].st = "none" /\ user' = [user EXCEPT ![u] = new]
          /\ account' = [account EXCEPT ![i] = u] /\ origin' = [origin EXCEPT ![i] = "created"]
          /\ SignIn!Goes(r, [req[r] EXCEPT !.pc = "session", !.user = u])
    BY <1>2, <1>4 DEF SignIn!CreateUser
  <2>2. new \in UserRow /\ new.st = "ACTIVE"
    BY DEF UserRow, Addresses
  <2> DEFINE held == [req[r] EXCEPT !.pc = "session", !.user = u]
  <2>3. held \in CallbackHeld /\ held.pc = "session" /\ held.state = req[r].state /\ held.identity = i
    BY <1>1, <1>2 DEF CallbackHeld, Claimant
  <2> HIDE DEF new, held
  <2>4. req[r].state \in States /\ state[req[r].state].st = "used" /\ opened[req[r].state] = 0
    BY <1>1 DEF Equipped
  <2>5. req' \in [Slots -> CallbackHeld] /\ ClaimedOnce' /\ \A q \in Slots : Equipped(q)'
    <3>1. SignIn!Goes(r, held)
      BY <2>1 DEF held
    <3> QED BY <1>1, <2>3, <2>4, <3>1, CallbackMoves
  <2>6. SignInShape'
    BY <1>1, <2>1, <2>2, <2>5 DEF SignInInv, SignInShape
  <2>7. RegisteredStay' /\ OpenedOnce'
    BY <1>1, <2>1, <2>2 DEF SignInInv, SignInShape, RegisteredStay, OpenedOnce
  <2>8. u \notin Registered
    BY <2>1 DEF SignInInv, RegisteredStay
  <2>9. ASSUME NEW j \in Identities PROVE Proved(j)'
    <3>1. CASE j = i
      BY <2>1, <2>8, <3>1 DEF SignInInv, SignInShape, Proved
    <3>2. CASE j # i
      <4>1. account'[j] = account[j] /\ origin'[j] = origin[j]
        BY <2>1, <3>2 DEF SignInInv, SignInShape
      <4> QED BY <1>1, <4>1 DEF SignInInv, Proved
    <3> QED BY <3>1, <3>2
  <2> QED BY <2>5, <2>6, <2>7, <2>9 DEF SignInInv
<1> QED BY <1>3, <1>4

\* The first session or linking a state leads to.
FirstOpening(s) ==
    /\ opened' \in [States -> Nat] /\ opened'[s] = 1 /\ opened'[s] <= 1
    /\ \A t \in States : t # s => opened'[t] = opened[t]

LEMMA OneMore ==
    ASSUME NEW s \in States, opened \in [States -> Nat], opened[s] = 0,
           opened' = [opened EXCEPT ![s] = opened[s] + 1]
    PROVE  FirstOpening(s)
BY DEF FirstOpening

\* The claimant of a state ends, having opened a session or linked an account by it.
LEMMA Opens ==
    ASSUME SignInInv, NEW r \in Slots, PastClaim(r), SignIn!Goes(r, SignIn!Idle), UNCHANGED <<user, state>>,
           NEW s \in States, s = req[r].state, FirstOpening(s),
           account' \in [Identities -> Users \cup {Nobody}],
           origin' \in [Identities -> {"", "created"} \cup States],
           \A i \in Identities : Proved(i)'
    PROVE  SignInInv'
<1>1. req[r].pc # "idle"
  BY DEF PastClaim, Claimant
<1>2. state[s].st = "used" /\ opened[s] = 0
  BY <1>1 DEF SignInInv, Equipped
<1>3. /\ opened' \in [States -> Nat] /\ opened'[s] <= 1
      /\ \A t \in States : t # s => opened'[t] = opened[t]
  BY DEF FirstOpening
<1>4. req' \in [Slots -> CallbackHeld] /\ ClaimedOnce' /\ \A q \in Slots : Equipped(q)'
  <2>1. SignIn!Idle.pc \notin Claimant /\ SignIn!Idle.pc # "link"
    BY CallbackIdle DEF Claimant
  <2> QED BY <1>2, <1>3, <2>1, CallbackIdle, CallbackMoves
<1>5. OpenedOnce'
  <2>1. ASSUME NEW t \in States PROVE opened'[t] <= 1 /\ (opened'[t] # 0 => state'[t].st = "used")
    <3>1. CASE t = s
      <4>1. opened'[t] <= 1
        BY <1>3, <3>1
      <4>2. state'[t].st = "used"
        BY <1>2, <3>1
      <4> QED BY <4>1, <4>2
    <3>2. CASE t # s
      BY <1>3, <3>2 DEF SignInInv, OpenedOnce
    <3> QED BY <3>1, <3>2
  <2> QED BY <2>1 DEF OpenedOnce
<1> QED BY <1>3, <1>4, <1>5 DEF SignInInv, SignInShape, RegisteredStay

LEMMA SessionKeeps ==
    ASSUME SignInInv, NEW r \in Slots, SignIn!issueSession(r)
    PROVE  SignInInv'
<1>0. PICK s \in States : s = req[r].state
  BY DEF SignIn!issueSession, SignInInv, Equipped
<1>1. PastClaim(r) /\ UNCHANGED <<state, account, origin>>
  BY DEF SignIn!issueSession, PastClaim, Claimant
<1>2. \A i \in Identities : Proved(i)'
  BY <1>1 DEF SignInInv, Proved
<1>3. opened' = [opened EXCEPT ![s] = opened[s] + 1] /\ opened[s] = 0
  BY <1>0, <1>1 DEF SignIn!issueSession, SignInInv, Equipped
<1>4. FirstOpening(s)
  BY <1>3, OneMore DEF SignInInv, SignInShape
<1> QED BY <1>0, <1>1, <1>2, <1>4, Opens DEF SignIn!issueSession, SignInInv, SignInShape

LEMMA LinkKeeps ==
    ASSUME SignInInv, NEW r \in Slots, SignIn!linkProviderToUser(r)
    PROVE  SignInInv'
<1>1. /\ req[r].pc = "link" /\ req[r] \in CallbackHeld /\ PastClaim(r) /\ Equipped(r) /\ SignIn!Goes(r, SignIn!Idle)
      /\ UNCHANGED <<user, state>>
  BY DEF SignIn!linkProviderToUser, SignInInv, SignInShape, PastClaim, Claimant
<1>2. PICK i \in Identities : i = req[r].identity
  BY <1>1 DEF Equipped
<1>3. CASE account[i] = Nobody
  <2>1. PICK s \in States, u \in Users \cup {Nobody} :
          /\ s = req[r].state /\ u = req[r].user
          /\ state[s].st = "used" /\ state[s].user = u /\ opened[s] = 0
    BY <1>1 DEF Equipped, CallbackHeld
  <2>2. /\ account' = [account EXCEPT ![i] = u] /\ origin' = [origin EXCEPT ![i] = s]
        /\ opened' = [opened EXCEPT ![s] = opened[s] + 1]
    BY <1>2, <1>3, <2>1 DEF SignIn!linkProviderToUser
  <2>3. /\ account' \in [Identities -> Users \cup {Nobody}] /\ account'[i] = u
        /\ origin' \in [Identities -> {"", "created"} \cup States] /\ origin'[i] = s
        /\ \A j \in Identities : j # i => account'[j] = account[j] /\ origin'[j] = origin[j]
    BY <2>2 DEF SignInInv, SignInShape
  <2>4. state[s] = [st |-> "used", user |-> u]
    BY <2>1 DEF SignInInv, SignInShape, StateRow
  <2>5. ASSUME NEW j \in Identities PROVE Proved(j)'
    <3>1. CASE j = i
      BY <1>1, <2>3, <2>4, <3>1 DEF Proved
    <3>2. CASE j # i
      BY <1>1, <2>3, <3>2 DEF SignInInv, Proved
    <3> QED BY <3>1, <3>2
  <2>6. opened[s] = 0
    BY <2>1
  <2>7. FirstOpening(s)
    BY <2>2, <2>6, OneMore DEF SignInInv, SignInShape
  <2> QED BY <1>1, <2>1, <2>3, <2>5, <2>7, Opens
<1>4. CASE account[i] # Nobody
  <2>1. UNCHANGED <<account, origin, opened>>
    BY <1>2, <1>4 DEF SignIn!linkProviderToUser
  <2> QED BY <1>1, <2>1, CallbackIdle, CallbackLooks DEF Claimant
<1> QED BY <1>3, <1>4

LEMMA EraseKeeps ==
    ASSUME SignInInv, NEW u \in Users, SignIn!Erase(u)
    PROVE  SignInInv'
<1> DEFINE new == [st |-> "DELETED", address |-> ""]
<1>1. /\ user' = [user EXCEPT ![u] = new] /\ UNCHANGED <<state, opened, req>>
      /\ account' = [i \in Identities |-> IF account[i] = u THEN Nobody ELSE account[i]]
      /\ origin' = [i \in Identities |-> IF account[i] = u THEN "" ELSE origin[i]]
  BY DEF SignIn!Erase
<1>2. new \in UserRow /\ new.st = "DELETED"
  BY DEF UserRow, Addresses
<1> HIDE DEF new
<1>3. SignInShape' /\ RegisteredStay'
  BY <1>1, <1>2 DEF SignInInv, SignInShape, RegisteredStay
<1>4. ClaimedOnce' /\ OpenedOnce' /\ \A r \in Slots : Equipped(r)'
  BY <1>1 DEF SignInInv, ClaimedOnce, OpenedOnce, Equipped, PastClaim
<1>5. ASSUME NEW i \in Identities, account'[i] # Nobody
      PROVE  account'[i] = account[i] /\ origin'[i] = origin[i]
  BY <1>1, <1>5
<1>6. \A i \in Identities : Proved(i)'
  BY <1>1, <1>5 DEF SignInInv, Proved
<1> QED BY <1>3, <1>4, <1>6 DEF SignInInv

-----------------------------------------------------------------------------
LEMMA SignInStarts == SignIn!Init => SignInInv
<1> SUFFICES ASSUME SignIn!Init PROVE SignInInv
  OBVIOUS
<1>1. SignInShape
  <2>1. user \in [Users -> UserRow]
    BY DEF SignIn!Init, UserRow, Addresses
  <2>2. state \in [States -> StateRow]
    BY DEF SignIn!Init, StateRow
  <2> QED BY <2>1, <2>2, CallbackIdle DEF SignIn!Init, SignInShape
<1>2. RegisteredStay /\ OpenedOnce /\ \A i \in Identities : Proved(i)
  <2>1. RegisteredStay /\ \A i \in Identities : Proved(i)
    BY DEF SignIn!Init, RegisteredStay, Proved
  <2>2. \A s \in States : opened[s] = 0
    BY DEF SignIn!Init
  <2> QED BY <2>1, <2>2 DEF OpenedOnce
<1>3. \A r \in Slots : req[r].pc = "idle" /\ ~PastClaim(r)
  BY CallbackIdle DEF SignIn!Init, PastClaim, Claimant
<1>4. ClaimedOnce /\ \A r \in Slots : Equipped(r)
  BY <1>3 DEF ClaimedOnce, Equipped
<1> QED BY <1>1, <1>2, <1>4 DEF SignInInv, SignIn!Init

LEMMA SignInKept == SignInInv /\ [SignIn!Next]_(SignIn!vars) => SignInInv'
<1> SUFFICES ASSUME SignInInv, [SignIn!Next]_(SignIn!vars) PROVE SignInInv'
  OBVIOUS
<1>1. CASE UNCHANGED SignIn!vars
  BY <1>1 DEF SignIn!vars, SignInInv, SignInShape, RegisteredStay, ClaimedOnce, OpenedOnce, Equipped, PastClaim, Proved
<1> QED BY <1>1, CreateStateKeeps, CallbackKeeps, ConsumeKeeps, FindKeeps, CreateUserKeeps,
           SessionKeeps, LinkKeeps, EraseKeeps DEF SignIn!Next

\* OAuthService links "never by email": through replayed and overlapping callbacks,
\* erasures and callbacks that stop, an identity's account was made for it or is
\* that of the user who asked for the state it was linked by, and a state leads to
\* one session or one linked account at most.
THEOREM IdentityIsProved == SignIn!Spec => []IdentityProved
<1>1. SignInInv => IdentityProved
  BY DEF SignInInv, OpenedOnce, Proved, IdentityProved, SignIn!IdentityProved
<1> QED BY <1>1, SignInStarts, SignInKept, PTL DEF SignIn!Spec
-----------------------------------------------------------------------------
(* Bearers.                                                                 *)

TokenRow == [st : {"none", "read", "signed"}, claims : Nat, signed : Nat]

BearerHeld == [pc : {"idle", "stale", "denylist", "served"}, token : Tokens \cup {NoToken},
         claims : Nat, revoked : BOOLEAN, outdated : BOOLEAN, errors : {0, 1}, at : Nat]

BearerShape ==
    /\ ticks \in Nat /\ claims \in 0..MaxChanges /\ changedAt \in [1..MaxChanges -> Nat]
    /\ token \in [Tokens -> TokenRow] /\ denylist \in [Tokens -> Nat] /\ denied \subseteq Tokens
    /\ outdated \subseteq Tokens
    /\ bearer \in [Checks -> BearerHeld]

Lifetime == DenylistTtl * PerSecond

\* A token was signed in the past, and an entry made for it ends a lifetime later
\* than that at the earliest.
EntriesOutlive ==
    \A t \in Tokens :
        /\ token[t].signed <= ticks
        /\ t \in denied => token[t].st = "signed" /\ token[t].signed + Lifetime <= denylist[t]

\* A token that misses change n was signed no earlier than in the second in which
\* that change, or one since, began.
SignedLate(t, n) ==
    token[t].claims < n => \E m \in n..claims : Bearers!Second(changedAt[m]) <= Bearers!iat(t)

\* What validate has found out so far.
Knows(r) ==
    LET c == bearer[r] IN
    /\ c.pc # "idle" => /\ c.token \in Tokens /\ token[c.token].st = "signed"
                        /\ c.claims <= claims /\ (c.revoked => c.token \in denied)
    /\ c.pc \in {"denylist", "served"} => SignedLate(c.token, c.claims)
    /\ c.pc = "served" /\ c.errors = 0 /\ c.revoked => token[c.token].signed + Lifetime <= c.at

BearerInv == BearerShape /\ EntriesOutlive /\ \A r \in Checks : Knows(r)

-----------------------------------------------------------------------------
(* Seconds.                                                                 *)

LEMMA Divided ==
    ASSUME Bearers!TokensBounds, NEW a \in Nat
    PROVE  /\ Bearers!Second(a) \in Nat /\ Bearers!Second(a) * PerSecond <= a
           /\ a < Bearers!Second(a) * PerSecond + PerSecond
BY DEF Bearers!TokensBounds, Bearers!Second

\* Counting in seconds keeps the lengths that are whole seconds.
LEMMA SecondsLater ==
    ASSUME Bearers!TokensBounds, NEW a \in Nat, NEW b \in Nat, NEW d \in Nat, a + d * PerSecond <= b
    PROVE  Bearers!Second(a) + d <= Bearers!Second(b)
<1>1. PICK m \in Nat, n \in Nat :
        m = Bearers!Second(a) /\ n = Bearers!Second(b) /\ m * PerSecond <= a /\ b < n * PerSecond + PerSecond
  BY Divided
<1>2. ASSUME n < m + d PROVE FALSE
  <2>1. n + 1 <= m + d /\ (n + 1) * PerSecond <= (m + d) * PerSecond
    BY <1>2 DEF Bearers!TokensBounds
  <2>2. /\ (m + d) * PerSecond = m * PerSecond + d * PerSecond
        /\ (n + 1) * PerSecond = n * PerSecond + PerSecond
    BY DEF Bearers!TokensBounds
  <2> QED BY <1>1, <2>1, <2>2 DEF Bearers!TokensBounds
<1> QED BY <1>1, <1>2

LEMMA LifetimeIsNat == Bearers!TokensBounds => Lifetime \in Nat
BY DEF Bearers!TokensBounds, Lifetime

-----------------------------------------------------------------------------
(* Every step keeps the invariant.                                          *)

\* Rows only grow: what a request that rests has found out stays so.
ClaimsGrow ==
    /\ claims' \in Nat /\ claims <= claims' /\ denied \subseteq denied'
    /\ \A t \in Tokens : token[t].st = "signed" => token'[t] = token[t]
    /\ \A n \in 1..claims : changedAt'[n] = changedAt[n]

LEMMA KnowsStays ==
    ASSUME BearerInv, ClaimsGrow, NEW r \in Checks, bearer'[r] = bearer[r]
    PROVE  Knows(r)'
<1>1. CASE bearer[r].pc = "idle"
  BY <1>1 DEF Knows
<1>2. CASE bearer[r].pc # "idle"
  <2>1. PICK t \in Tokens, n \in Nat, k \in Nat :
          /\ t = bearer[r].token /\ n = bearer[r].claims /\ k = token[t].claims
          /\ token[t].st = "signed" /\ token'[t] = token[t]
          /\ n <= claims /\ (bearer[r].revoked => t \in denied)
    BY <1>2 DEF BearerInv, BearerShape, BearerHeld, TokenRow, Knows, ClaimsGrow
  <2>2. n <= claims' /\ (k < n => \A m \in n..claims : m \in n..claims' /\ changedAt'[m] = changedAt[m])
    <3>1. claims \in Nat /\ n <= claims /\ claims' \in Nat /\ claims <= claims'
      BY <2>1 DEF BearerInv, BearerShape, ClaimsGrow
    <3>2. k < n => \A m \in n..claims : m \in 1..claims /\ m \in n..claims'
      BY <2>1, <3>1
    <3> QED BY <3>1, <3>2 DEF ClaimsGrow
  <2>3. bearer[r].pc \in {"denylist", "served"} => SignedLate(t, n)'
    <3>1. SUFFICES ASSUME bearer[r].pc \in {"denylist", "served"}, k < n
                   PROVE  \E m \in n..claims' : Bearers!Second(changedAt'[m]) <= Bearers!iat(t)'
      BY <2>1 DEF SignedLate
    <3>2. PICK m \in n..claims : Bearers!Second(changedAt[m]) <= Bearers!Second(token[t].signed)
      BY <2>1, <3>1 DEF BearerInv, Knows, SignedLate, Bearers!iat
    <3>3. Bearers!Second(changedAt'[m]) <= Bearers!iat(t)'
      BY <2>1, <2>2, <3>1, <3>2 DEF Bearers!iat, Bearers!Second
    <3> QED BY <2>2, <3>1, <3>3
  <2>4. bearer[r].pc = "served" /\ bearer[r].errors = 0 /\ bearer[r].revoked
          => token'[t].signed + Lifetime <= bearer[r].at
    BY <2>1 DEF BearerInv, Knows
  <2> QED BY <2>1, <2>2, <2>3, <2>4 DEF Knows, ClaimsGrow, SignedLate, Bearers!iat
<1> QED BY <1>1, <1>2

\* A request's step: the rows rest.
LEMMA RequestMoves ==
    ASSUME BearerInv, NEW r \in Checks, NEW held \in BearerHeld, Bearers!Goes(r, held),
           UNCHANGED <<ticks, claims, changedAt, outdated, token, denylist, denied>>,
           held.pc # "idle" => /\ held.token \in Tokens /\ token[held.token].st = "signed"
                               /\ held.claims <= claims /\ (held.revoked => held.token \in denied),
           held.pc \in {"denylist", "served"} => SignedLate(held.token, held.claims),
           held.pc = "served" /\ held.errors = 0 /\ held.revoked
               => token[held.token].signed + Lifetime <= held.at
    PROVE  BearerInv'
<1>1. /\ bearer' \in [Checks -> BearerHeld] /\ bearer'[r] = held
      /\ \A q \in Checks : q # r => bearer'[q] = bearer[q]
  BY DEF Bearers!Goes, BearerInv, BearerShape
<1>2. BearerShape' /\ EntriesOutlive'
  BY <1>1 DEF BearerInv, BearerShape, EntriesOutlive
<1>3. Knows(r)'
  BY <1>1 DEF Knows, SignedLate, Bearers!iat, Bearers!Second
<1>4. ClaimsGrow
  BY DEF ClaimsGrow, BearerInv, BearerShape
<1> QED BY <1>1, <1>2, <1>3, <1>4, KnowsStays DEF BearerInv

LEMMA TokenReads ==
    ASSUME BearerInv, NEW t \in Tokens, Bearers!ReadUser(t)
    PROVE  BearerInv'
<1> DEFINE new == [st |-> "read", claims |-> claims, signed |-> 0]
<1>1. /\ token[t].st = "none" /\ token' = [token EXCEPT ![t] = new]
      /\ UNCHANGED <<ticks, claims, changedAt, outdated, denylist, denied, bearer>>
  BY DEF Bearers!ReadUser
<1>2. new \in TokenRow /\ new.st = "read" /\ new.signed = 0
  BY DEF TokenRow, BearerInv, BearerShape
<1> HIDE DEF new
<1>3. /\ token' \in [Tokens -> TokenRow] /\ token'[t] = new
      /\ \A q \in Tokens : q # t => token'[q] = token[q]
  BY <1>1, <1>2 DEF BearerInv, BearerShape
<1>4. ClaimsGrow
  BY <1>1, <1>3 DEF ClaimsGrow, BearerInv, BearerShape
<1>5. ASSUME NEW q \in Tokens
      PROVE  /\ token'[q].signed <= ticks
             /\ q \in denied => token'[q].st = "signed" /\ token'[q].signed + Lifetime <= denylist[q]
  <2>1. CASE q = t
    <3>1. q \notin denied
      BY <1>1, <2>1 DEF BearerInv, EntriesOutlive
    <3>2. ticks \in Nat /\ token'[q].signed = 0
      BY <1>2, <1>3, <2>1 DEF BearerInv, BearerShape
    <3>3. 0 <= ticks
      BY <3>2
    <3> QED BY <3>1, <3>2, <3>3
  <2>2. CASE q # t
    BY <1>3, <2>2 DEF BearerInv, EntriesOutlive
  <2> QED BY <2>1, <2>2
<1>6. BearerShape' /\ EntriesOutlive'
  BY <1>1, <1>3, <1>5 DEF BearerInv, BearerShape, EntriesOutlive, Lifetime
<1> QED BY <1>1, <1>4, <1>6, KnowsStays DEF BearerInv

LEMMA TokenIsSigned ==
    ASSUME BearerInv, NEW t \in Tokens, Bearers!signAccessToken(t)
    PROVE  BearerInv'
<1> DEFINE new == [token[t] EXCEPT !.st = "signed", !.signed = ticks]
<1>1. /\ token[t].st = "read" /\ token' = [token EXCEPT ![t] = new]
      /\ UNCHANGED <<ticks, claims, changedAt, outdated, denylist, denied, bearer>>
  BY DEF Bearers!signAccessToken, BearerInv, BearerShape, TokenRow
<1>2. new \in TokenRow /\ new.signed = ticks
  BY DEF TokenRow, BearerInv, BearerShape
<1> HIDE DEF new
<1>3. /\ token' \in [Tokens -> TokenRow] /\ token'[t] = new
      /\ \A q \in Tokens : q # t => token'[q] = token[q]
  BY <1>1, <1>2 DEF BearerInv, BearerShape
<1>4. ClaimsGrow
  BY <1>1, <1>3 DEF ClaimsGrow, BearerInv, BearerShape
<1>5. ASSUME NEW q \in Tokens
      PROVE  /\ token'[q].signed <= ticks
             /\ q \in denied => token'[q].st = "signed" /\ token'[q].signed + Lifetime <= denylist[q]
  <2>1. CASE q = t
    <3>1. q \notin denied
      BY <1>1, <2>1 DEF BearerInv, EntriesOutlive
    <3>2. ticks \in Nat /\ token'[q].signed = ticks
      BY <1>2, <1>3, <2>1 DEF BearerInv, BearerShape
    <3>3. ticks <= ticks
      BY <3>2
    <3> QED BY <3>1, <3>2, <3>3
  <2>2. CASE q # t
    BY <1>3, <2>2 DEF BearerInv, EntriesOutlive
  <2> QED BY <2>1, <2>2
<1>6. BearerShape' /\ EntriesOutlive'
  BY <1>1, <1>3, <1>5 DEF BearerInv, BearerShape, EntriesOutlive, Lifetime
<1> QED BY <1>1, <1>4, <1>6, KnowsStays DEF BearerInv

LEMMA EntryIsMade ==
    ASSUME Bearers!TokensBounds, BearerInv, NEW t \in Tokens, Bearers!add(t)
    PROVE  BearerInv'
<1>1. token[t].st = "signed" /\ UNCHANGED <<ticks, claims, changedAt, outdated, token, bearer>>
  BY DEF Bearers!add
<1>2. PICK ends \in Nat :
        /\ ends = ticks + Lifetime
        /\ \/ denylist' = [denylist EXCEPT ![t] = ends] /\ denied' = denied \cup {t}
           \/ UNCHANGED <<denylist, denied>>
  <2>1. ticks + Lifetime \in Nat
    BY LifetimeIsNat DEF BearerInv, BearerShape
  <2> QED BY <2>1 DEF Bearers!add, Lifetime
<1>3. /\ denylist' \in [Tokens -> Nat] /\ denied' \subseteq Tokens /\ denied \subseteq denied'
      /\ \A q \in Tokens : q # t => denylist'[q] = denylist[q] /\ (q \in denied' => q \in denied)
  BY <1>2 DEF BearerInv, BearerShape
<1>4. ClaimsGrow
  BY <1>1, <1>3 DEF ClaimsGrow, BearerInv, BearerShape
<1>5. ASSUME NEW q \in Tokens, q \in denied'
      PROVE  token[q].st = "signed" /\ token[q].signed + Lifetime <= denylist'[q]
  <2>1. CASE UNCHANGED <<denylist, denied>> \/ q # t
    BY <1>3, <1>5, <2>1 DEF BearerInv, EntriesOutlive
  <2>2. CASE q = t /\ denylist' = [denylist EXCEPT ![t] = ends]
    <3>1. PICK signed \in Nat : signed = token[q].signed /\ signed <= ticks
      BY DEF BearerInv, BearerShape, EntriesOutlive, TokenRow
    <3>2. denylist'[q] = ends
      BY <2>2 DEF BearerInv, BearerShape
    <3>3. signed + Lifetime <= ends
      BY <1>2, <3>1, LifetimeIsNat DEF BearerInv, BearerShape
    <3> QED BY <1>1, <2>2, <3>1, <3>2, <3>3
  <2> QED BY <1>2, <2>1, <2>2
<1>6. BearerShape' /\ EntriesOutlive'
  BY <1>1, <1>3, <1>5 DEF BearerInv, BearerShape, EntriesOutlive, Lifetime
<1> QED BY <1>1, <1>4, <1>6, KnowsStays DEF BearerInv

LEMMA ClaimsChange ==
    ASSUME Bearers!TokensBounds, BearerInv, NEW began \in 1..ticks, Bearers!ChangeClaims(began)
    PROVE  BearerInv'
<1>1. /\ MaxChanges \in Nat /\ claims \in 0..MaxChanges /\ claims < MaxChanges /\ ticks \in Nat
      /\ claims' = claims + 1 /\ changedAt' = [changedAt EXCEPT ![claims + 1] = began]
      /\ UNCHANGED <<ticks, token, denylist, denied, bearer>>
  BY DEF Bearers!TokensBounds, Bearers!ChangeClaims, BearerInv, BearerShape
<1>2. claims + 1 \in 1..MaxChanges /\ claims' \in 0..MaxChanges /\ claims \in Nat /\ began \in Nat
  BY <1>1
<1>3. /\ changedAt' \in [1..MaxChanges -> Nat]
      /\ \A n \in 1..MaxChanges : n # claims + 1 => changedAt'[n] = changedAt[n]
  BY <1>1, <1>2 DEF BearerInv, BearerShape
<1>4. \A n \in 1..claims : n \in 1..MaxChanges /\ n # claims + 1
  BY <1>1
<1>5. ClaimsGrow
  BY <1>1, <1>2, <1>3, <1>4 DEF ClaimsGrow
<1>6. outdated' \subseteq Tokens
  BY DEF Bearers!ChangeClaims, BearerInv, BearerShape
<1>7. BearerShape' /\ EntriesOutlive'
  BY <1>1, <1>2, <1>3, <1>6 DEF BearerInv, BearerShape, EntriesOutlive
<1> QED BY <1>1, <1>5, <1>7, KnowsStays DEF BearerInv

LEMMA ClockTicks ==
    ASSUME Bearers!TokensBounds, BearerInv, Bearers!Tick
    PROVE  BearerInv'
<1>1. /\ ticks \in Nat /\ ticks' = ticks + 1
      /\ UNCHANGED <<claims, changedAt, outdated, token, denylist, denied, bearer>>
  BY DEF Bearers!Tick, BearerInv, BearerShape
<1>2. ticks' \in Nat /\ \A n \in Nat : n <= ticks => n <= ticks'
  BY <1>1
<1>3. \A t \in Tokens : token[t].signed \in Nat
  BY DEF BearerInv, BearerShape, TokenRow
<1>4. EntriesOutlive'
  BY <1>1, <1>2, <1>3 DEF BearerInv, EntriesOutlive
<1>5. ClaimsGrow /\ BearerShape'
  BY <1>1, <1>2 DEF ClaimsGrow, BearerInv, BearerShape
<1> QED BY <1>1, <1>4, <1>5, KnowsStays DEF BearerInv

LEMMA BearerIdle == Bearers!Idle \in BearerHeld /\ Bearers!Idle.pc = "idle"
BY DEF Bearers!Idle, BearerHeld

LEMMA RequestComes ==
    ASSUME BearerInv, NEW r \in Checks, NEW t \in Tokens, Bearers!Present(r, t)
    PROVE  BearerInv'
<1> DEFINE held == [Bearers!Idle EXCEPT !.pc = "stale", !.token = t, !.claims = claims,
                                !.revoked = t \in denied, !.outdated = t \in outdated]
<1>1. /\ token[t].st = "signed" /\ Bearers!Goes(r, held)
      /\ UNCHANGED <<ticks, claims, changedAt, outdated, token, denylist, denied>>
  BY DEF Bearers!Present
<1>2. claims \in Nat /\ claims <= claims
  BY DEF BearerInv, BearerShape
<1>3. /\ held \in BearerHeld /\ held.pc = "stale" /\ held.token = t /\ held.claims = claims
      /\ held.revoked = (t \in denied)
  <2> DEFINE b == t \in denied
             d == t \in outdated
  <2>1. b \in BOOLEAN /\ d \in BOOLEAN
    OBVIOUS
  <2> HIDE DEF b, d
  <2>2. [Bearers!Idle EXCEPT !.pc = "stale", !.token = t, !.claims = claims, !.revoked = b,
                             !.outdated = d] \in BearerHeld
    BY <1>2, <2>1 DEF Bearers!Idle, BearerHeld
  <2>3. held = [Bearers!Idle EXCEPT !.pc = "stale", !.token = t, !.claims = claims, !.revoked = b,
                                    !.outdated = d]
    BY DEF b, d
  <2> QED BY <2>2, <2>3 DEF Bearers!Idle, b, d
<1> HIDE DEF held
<1> QED BY <1>1, <1>2, <1>3, RequestMoves

\* What the check compares with is the stamp of the last change.
LEMMA FreshIsLate ==
    ASSUME Bearers!TokensBounds, BearerInv, NEW t \in Tokens, NEW n \in Nat, n <= claims,
           ~ (Bearers!iat(t) < Bearers!Second(Bearers!tokensValidAfter))
    PROVE  SignedLate(t, n)
<1>1. PICK k \in Nat, signed \in Nat : k = token[t].claims /\ signed = token[t].signed
  BY DEF BearerInv, BearerShape, TokenRow
<1>2. SUFFICES ASSUME k < n
               PROVE  \E m \in n..claims : Bearers!Second(changedAt[m]) <= Bearers!Second(signed)
  BY <1>1 DEF SignedLate, Bearers!iat
<1>3. claims # 0 /\ claims \in n..claims /\ claims \in 1..MaxChanges
  BY <1>2 DEF Bearers!TokensBounds, BearerInv, BearerShape
<1>4. PICK last \in Nat : last = changedAt[claims]
  BY <1>3 DEF BearerInv, BearerShape
<1>5. ~ (Bearers!Second(signed) < Bearers!Second(last))
  BY <1>1, <1>3, <1>4 DEF Bearers!iat, Bearers!tokensValidAfter
<1>6. Bearers!Second(last) \in Nat /\ Bearers!Second(signed) \in Nat
  BY Divided
<1> QED BY <1>3, <1>4, <1>5, <1>6

LEMMA StaleIsAsked ==
    ASSUME Bearers!TokensBounds, BearerInv, NEW r \in Checks, Bearers!isTokenStale(r)
    PROVE  BearerInv'
<1>1. PICK c \in BearerHeld :
        /\ c = bearer[r] /\ c.pc = "stale" /\ c.token \in Tokens /\ token[c.token].st = "signed"
        /\ c.claims \in Nat /\ c.claims <= claims /\ (c.revoked => c.token \in denied)
  <2>1. bearer[r] \in BearerHeld /\ bearer[r].pc = "stale" /\ bearer[r].claims \in Nat
    BY DEF Bearers!isTokenStale, BearerInv, BearerShape, BearerHeld
  <2> QED BY <2>1 DEF BearerInv, Knows
<1>2. UNCHANGED <<ticks, claims, changedAt, outdated, token, denylist, denied>>
  BY DEF Bearers!isTokenStale
<1>3. CASE Bearers!iat(c.token) < Bearers!Second(Bearers!tokensValidAfter)
  BY <1>1, <1>2, <1>3, BearerIdle, RequestMoves DEF Bearers!isTokenStale
<1>4. CASE ~ (Bearers!iat(c.token) < Bearers!Second(Bearers!tokensValidAfter))
  <2> DEFINE held == [c EXCEPT !.pc = "denylist"]
  <2>1. Bearers!Goes(r, held)
    BY <1>1, <1>4 DEF Bearers!isTokenStale
  <2>2. /\ held \in BearerHeld /\ held.pc = "denylist" /\ held.token = c.token
        /\ held.claims = c.claims /\ held.revoked = c.revoked
    BY DEF BearerHeld
  <2>3. SignedLate(c.token, c.claims)
    BY <1>1, <1>4, FreshIsLate
  <2> HIDE DEF held
  <2> QED BY <1>1, <1>2, <2>1, <2>2, <2>3, RequestMoves
<1> QED BY <1>3, <1>4

LEMMA DenylistIsAsked ==
    ASSUME Bearers!TokensBounds, BearerInv, NEW r \in Checks, Bearers!isDenylisted(r)
    PROVE  BearerInv'
<1>1. PICK c \in BearerHeld :
        /\ c = bearer[r] /\ c.pc = "denylist" /\ c.token \in Tokens /\ token[c.token].st = "signed"
        /\ c.claims <= claims /\ (c.revoked => c.token \in denied) /\ SignedLate(c.token, c.claims)
  <2>1. bearer[r] \in BearerHeld /\ bearer[r].pc = "denylist"
    BY DEF Bearers!isDenylisted, BearerInv, BearerShape
  <2> QED BY <2>1 DEF BearerInv, Knows
<1>2. UNCHANGED <<ticks, claims, changedAt, outdated, token, denylist, denied>> /\ ticks \in Nat
  BY DEF Bearers!isDenylisted, BearerInv, BearerShape
<1>3. CASE Bearers!Goes(r, Bearers!Idle)
  BY <1>2, <1>3, BearerIdle, RequestMoves
<1>4. CASE ~ (denylist[c.token] > ticks) /\ Bearers!Goes(r, [c EXCEPT !.pc = "served", !.at = ticks])
  <2> DEFINE held == [c EXCEPT !.pc = "served", !.at = ticks]
  <2>1. /\ held \in BearerHeld /\ held.pc = "served" /\ held.token = c.token /\ held.at = ticks
        /\ held.claims = c.claims /\ held.revoked = c.revoked
    BY <1>2 DEF BearerHeld
  <2>2. Bearers!Goes(r, held)
    BY <1>4
  <2> HIDE DEF held
  <2>3. c.token \in denied => token[c.token].signed + Lifetime <= ticks
    <3>1. PICK signed \in Nat, ends \in Nat :
            /\ signed = token[c.token].signed /\ ends = denylist[c.token]
            /\ c.token \in denied => signed + Lifetime <= ends
      BY <1>1 DEF BearerInv, BearerShape, TokenRow, EntriesOutlive
    <3>2. ends <= ticks
      BY <1>2, <1>4, <3>1
    <3> QED BY <1>2, <3>1, <3>2, LifetimeIsNat
  <2> QED BY <1>1, <1>2, <2>1, <2>2, <2>3, RequestMoves
<1>5. CASE Bearers!Goes(r, [c EXCEPT !.pc = "served", !.at = ticks, !.errors = 1])
  <2> DEFINE held == [c EXCEPT !.pc = "served", !.at = ticks, !.errors = 1]
  <2>1. /\ held \in BearerHeld /\ held.pc = "served" /\ held.token = c.token /\ held.errors = 1
        /\ held.claims = c.claims /\ held.revoked = c.revoked
    BY <1>2 DEF BearerHeld
  <2>2. Bearers!Goes(r, held)
    BY <1>5
  <2> HIDE DEF held
  <2> QED BY <1>1, <1>2, <2>1, <2>2, RequestMoves
<1> QED BY <1>1, <1>3, <1>4, <1>5 DEF Bearers!isDenylisted

LEMMA RequestEnds ==
    ASSUME BearerInv, NEW r \in Checks, Bearers!Answered(r)
    PROVE  BearerInv'
BY BearerIdle, RequestMoves DEF Bearers!Answered

LEMMA NothingHappens ==
    ASSUME BearerInv, UNCHANGED Bearers!vars
    PROVE  BearerInv'
<1>1. ClaimsGrow
  BY DEF ClaimsGrow, Bearers!vars, BearerInv, BearerShape
<1>2. BearerShape' /\ EntriesOutlive'
  BY DEF Bearers!vars, BearerInv, BearerShape, EntriesOutlive
<1> QED BY <1>1, <1>2, KnowsStays DEF BearerInv, Bearers!vars

LEMMA BearerStarts ==
    ASSUME Bearers!TokensBounds, Bearers!Init
    PROVE  BearerInv
<1>1. BearerShape
  <2>1. changedAt \in [1..MaxChanges -> Nat] /\ claims \in 0..MaxChanges
    BY DEF Bearers!TokensBounds, Bearers!Init
  <2>2. token \in [Tokens -> TokenRow] /\ denylist \in [Tokens -> Nat]
    BY DEF Bearers!Init, TokenRow
  <2> QED BY <2>1, <2>2, BearerIdle DEF Bearers!Init, BearerShape
<1>2. EntriesOutlive
  <2>1. 0 <= ticks /\ \A t \in Tokens : token[t].signed = 0 /\ t \notin denied
    BY DEF Bearers!Init
  <2> QED BY <2>1 DEF EntriesOutlive
<1>3. \A r \in Checks : Knows(r)
  BY BearerIdle DEF Bearers!Init, Knows
<1> QED BY <1>1, <1>2, <1>3 DEF BearerInv

LEMMA BearerKept ==
    ASSUME Bearers!TokensBounds, BearerInv, [Bearers!Next]_(Bearers!vars)
    PROVE  BearerInv'
<1>1. ASSUME NEW t \in Tokens, Bearers!ReadUser(t) \/ Bearers!signAccessToken(t) \/ Bearers!add(t)
      PROVE  BearerInv'
  BY <1>1, TokenReads, TokenIsSigned, EntryIsMade
<1>2. ASSUME NEW r \in Checks, NEW t \in Tokens, Bearers!Present(r, t)
      PROVE  BearerInv'
  BY <1>2, RequestComes
<1>3. ASSUME NEW r \in Checks, Bearers!isTokenStale(r) \/ Bearers!isDenylisted(r) \/ Bearers!Answered(r)
      PROVE  BearerInv'
  BY <1>3, StaleIsAsked, DenylistIsAsked, RequestEnds
<1>4. ASSUME NEW began \in 1..ticks, Bearers!ChangeClaims(began)
      PROVE  BearerInv'
  BY <1>4, ClaimsChange
<1> QED BY <1>1, <1>2, <1>3, <1>4, ClockTicks, NothingHappens DEF Bearers!Next

-----------------------------------------------------------------------------
(* The theorems.                                                            *)

\* A request with a token whose session was revoked before it began: if Redis
\* answered and the entry was gone, the token has expired by then.
LEMMA RefusedWhileAlive ==
    ASSUME Bearers!TokensBounds, BearerInv
    PROVE  RevokedRefused
<1> SUFFICES ASSUME NEW r \in Checks, Bearers!Served(r), bearer[r].errors = 0, bearer[r].revoked,
                    Bearers!Unexpired(bearer[r].token, bearer[r].at)
             PROVE  FALSE
  BY DEF RevokedRefused, Bearers!RevokedRefused
<1>1. PICK t \in Tokens, at \in Nat, signed \in Nat :
        /\ t = bearer[r].token /\ at = bearer[r].at /\ signed = token[t].signed
        /\ signed + Lifetime <= at
  BY DEF BearerInv, BearerShape, BearerHeld, TokenRow, Knows, Bearers!Served
<1>2. Bearers!Second(signed) + DenylistTtl <= Bearers!Second(at)
  BY <1>1, SecondsLater DEF Bearers!TokensBounds, Lifetime
<1>3. Bearers!Second(at) < Bearers!Second(signed) + AccessTtl
  BY <1>1 DEF Bearers!Unexpired, Bearers!iat
<1>4. Bearers!Second(at) \in Nat /\ Bearers!Second(signed) \in Nat
  BY Divided
<1> QED BY <1>2, <1>3, <1>4 DEF Bearers!TokensBounds

\* The denylist's promise: a token whose entry was made before a request began is
\* not served while it is unexpired, unless Redis fails to answer.
THEOREM RevokedAreRefused == Bearers!Spec => []RevokedRefused
<1> USE ServicesBounds
<1>1. Bearers!Init => BearerInv
  BY BearerStarts
<1>2. BearerInv /\ [Bearers!Next]_(Bearers!vars) => BearerInv'
  BY BearerKept
<1>3. BearerInv => RevokedRefused
  BY RefusedWhileAlive
<1> QED BY <1>1, <1>2, <1>3, PTL DEF Bearers!Spec

\* What tokensValidAfter promises, with its second of tolerance: claims older than
\* the row a request met are served only with a token signed in the second in which
\* a change that made them old, or one committed since, began, or later.
THEOREM OldClaimsComeLate == Bearers!Spec => []OldClaimsAreLate
<1> USE ServicesBounds
<1>1. Bearers!Init => BearerInv
  BY BearerStarts
<1>2. BearerInv /\ [Bearers!Next]_(Bearers!vars) => BearerInv'
  BY BearerKept
<1>3. BearerInv => OldClaimsAreLate
  <2> SUFFICES ASSUME BearerInv, NEW r \in Checks, Bearers!Served(r),
                      token[bearer[r].token].claims < bearer[r].claims
               PROVE  \E m \in bearer[r].claims..claims :
                        Bearers!iat(bearer[r].token) >= Bearers!Second(changedAt[m])
    BY DEF OldClaimsAreLate, Bearers!OldClaimsAreLate
  <2>1. PICK t \in Tokens, n \in Nat, k \in Nat, signed \in Nat :
          /\ t = bearer[r].token /\ n = bearer[r].claims /\ k = token[t].claims
          /\ signed = token[t].signed /\ k < n /\ n <= claims /\ SignedLate(t, n)
    BY DEF BearerInv, BearerShape, BearerHeld, TokenRow, Knows, Bearers!Served
  <2>2. PICK m \in n..claims : Bearers!Second(changedAt[m]) <= Bearers!Second(signed)
    BY <2>1 DEF SignedLate, Bearers!iat
  <2>3. Bearers!Second(changedAt[m]) \in Nat /\ Bearers!Second(signed) \in Nat
    <3>1. m \in 1..MaxChanges
      BY <2>1 DEF Bearers!TokensBounds, BearerInv, BearerShape
    <3> QED BY <3>1, Divided DEF BearerInv, BearerShape
  <2> QED BY <2>1, <2>2, <2>3 DEF Bearers!iat
<1> QED BY <1>1, <1>2, <1>3, PTL DEF Bearers!Spec

-----------------------------------------------------------------------------
(* Browser.  While the refreshes take turns, the one that is out has the    *)
(* session's right or the token it stands for, and nobody else does.        *)

CallHeld == [pc : {"idle", "sent", "refresh", "claim", "mint", "respond", "me", "refused"},
             token : Nat, cookie : Nat, boot : BOOLEAN, retried : BOOLEAN]

BrowserShape ==
    /\ right \in [{Session} -> {"pending", "usable", "gone"}]
    /\ {live, issued, jar, store, lost} \subseteq Nat
    /\ call \in [Slots -> CallHeld]

OneIsOut == \A c, d \in Slots : Browser!Out(c) /\ Browser!Out(d) => c = d

\* A refresh goes out with the live token, and comes back with it.
Carries(c) ==
    /\ Browser!At(c, "claim") => right[Session] = "usable" /\ call[c].cookie = live /\ jar = live
    /\ Browser!At(c, "mint") => right[Session] = "pending"
    /\ Browser!At(c, "respond") => right[Session] = "usable" /\ call[c].cookie = live
    /\ ~ Browser!At(c, "refused")

AtRest == (\A c \in Slots : ~ Browser!Out(c)) => right[Session] = "usable" /\ jar = live

InTurns ==
    ~ overlapped /\ lost = 0 =>
        /\ OneIsOut /\ AtRest /\ \A c \in Slots : Carries(c)
        /\ signedOut \in {"no", "expired"}

BrowserInv == BrowserShape /\ InTurns

LEMMA CallIdle == Browser!Idle \in CallHeld /\ Browser!Idle.pc = "idle"
BY DEF Browser!Idle, CallHeld

\* A call moves on; the others are where they were.
LEMMA CallMoves ==
    ASSUME BrowserInv, NEW c \in Slots, NEW held \in CallHeld, Browser!Goes(c, held)
    PROVE  /\ call' \in [Slots -> CallHeld] /\ call'[c] = held
           /\ \A d \in Slots : d # c => call'[d] = call[d]
BY DEF BrowserInv, BrowserShape, Browser!Goes

\* A call that is not out, and does not go out, leaves the server and the cookie.
LEMMA CallAside ==
    ASSUME BrowserInv, NEW c \in Slots, NEW held \in CallHeld, Browser!Goes(c, held),
           UNCHANGED <<right, live, issued, jar, overlapped>>, store' \in Nat, lost' = lost,
           ~ Browser!Out(c), held.pc \in {"idle", "sent", "refresh"},
           signedOut' = signedOut \/ signedOut' = "expired"
               \/ (signedOut' = "refused" /\ Browser!At(c, "refused"))
    PROVE  BrowserInv'
<1>1. /\ call' \in [Slots -> CallHeld] /\ call'[c] = held
      /\ \A d \in Slots : d # c => call'[d] = call[d]
  BY CallMoves
<1>2. BrowserShape'
  BY <1>1 DEF BrowserInv, BrowserShape
<1>3. \A d \in Slots : Browser!Out(d)' <=> Browser!Out(d)
  BY <1>1 DEF Browser!Out
<1>4. SUFFICES ASSUME ~ overlapped, lost = 0
               PROVE  (/\ OneIsOut /\ AtRest /\ \A d \in Slots : Carries(d)
                       /\ signedOut \in {"no", "expired"})'
  BY <1>2 DEF BrowserInv, InTurns
<1>5. /\ OneIsOut /\ AtRest /\ \A d \in Slots : Carries(d) /\ signedOut \in {"no", "expired"}
  BY <1>4 DEF BrowserInv, InTurns
<1>6. OneIsOut' /\ AtRest'
  BY <1>3, <1>5 DEF OneIsOut, AtRest
<1>7. ASSUME NEW d \in Slots PROVE Carries(d)'
  BY <1>1, <1>5 DEF Carries, Browser!At
<1>8. signedOut' \in {"no", "expired"}
  BY <1>5 DEF Carries
<1> QED BY <1>6, <1>7, <1>8

\* The call that is out, and only that one, changes what the server has.
LEMMA CallOut ==
    ASSUME BrowserInv, NEW c \in Slots, NEW held \in CallHeld, Browser!Goes(c, held),
           BrowserShape', UNCHANGED <<signedOut, lost>>, overlapped => overlapped',
           ~ overlapped' /\ lost = 0 =>
               /\ \A d \in Slots \ {c} : ~ Browser!Out(d)
               /\ Carries(c)'
               /\ ~ Browser!Out(c)' => right'[Session] = "usable" /\ jar' = live'
    PROVE  BrowserInv'
<1>1. /\ call' \in [Slots -> CallHeld] /\ call'[c] = held
      /\ \A d \in Slots : d # c => call'[d] = call[d]
  BY CallMoves
<1>2. SUFFICES ASSUME ~ overlapped', ~ overlapped, lost = 0
               PROVE  (/\ OneIsOut /\ AtRest /\ \A d \in Slots : Carries(d)
                       /\ signedOut \in {"no", "expired"})'
  BY DEF BrowserInv, InTurns
<1>3. \A d \in Slots \ {c} : ~ Browser!Out(d)' /\ ~ Browser!At(d, "refused")'
  BY <1>1, <1>2 DEF BrowserInv, InTurns, Carries, Browser!Out, Browser!At
<1>4. OneIsOut' /\ AtRest'
  BY <1>2, <1>3 DEF OneIsOut, AtRest
<1>5. ASSUME NEW d \in Slots \ {c} PROVE Carries(d)'
  BY <1>3 DEF Carries, Browser!Out, Browser!At
<1>6. signedOut' \in {"no", "expired"}
  BY <1>2 DEF BrowserInv, InTurns
<1> QED BY <1>2, <1>4, <1>5, <1>6

LEMMA AuthedKeeps ==
    ASSUME BrowserInv, NEW c \in Slots,
           Browser!authed(c) \/ Browser!Served(c) \/ Browser!LoadPage(c)
    PROVE  BrowserInv'
<1>1. CASE Browser!authed(c)
  <2> DEFINE held == [Browser!Idle EXCEPT !.pc = "sent", !.token = store]
  <2>1. held \in CallHeld /\ held.pc = "sent"
    BY CallIdle DEF CallHeld, BrowserInv, BrowserShape
  <2>2. /\ Browser!Goes(c, held) /\ UNCHANGED <<right, live, issued, jar, overlapped, store, lost>>
        /\ signedOut' = signedOut /\ ~ Browser!Out(c) /\ store \in Nat
    BY <1>1 DEF Browser!authed, Browser!server, Browser!At, Browser!Out, BrowserInv, BrowserShape
  <2> HIDE DEF held
  <2> QED BY <2>1, <2>2, CallAside
<1>2. CASE Browser!Served(c)
  <2>1. PICK held \in CallHeld : Browser!Goes(c, held) /\ held.pc \in {"idle", "refresh"}
    BY <1>2, CallIdle DEF Browser!Served, CallHeld, BrowserInv, BrowserShape
  <2>2. /\ UNCHANGED <<right, live, issued, jar, overlapped, store, lost>>
        /\ signedOut' = signedOut /\ ~ Browser!Out(c) /\ store \in Nat
    BY <1>2 DEF Browser!Served, Browser!server, Browser!At, Browser!Out, BrowserInv, BrowserShape
  <2> QED BY <2>1, <2>2, CallAside
<1>3. CASE Browser!LoadPage(c)
  <2> DEFINE held == [Browser!Idle EXCEPT !.pc = "refresh", !.boot = TRUE]
  <2>1. held \in CallHeld /\ held.pc = "refresh"
    BY CallIdle DEF CallHeld
  <2>2. /\ Browser!Goes(c, held) /\ UNCHANGED <<right, live, issued, jar, overlapped, lost>>
        /\ signedOut' = signedOut /\ ~ Browser!Out(c) /\ store' \in Nat
    BY <1>3 DEF Browser!LoadPage, Browser!server, Browser!At, Browser!Out
  <2> HIDE DEF held
  <2> QED BY <2>1, <2>2, CallAside
<1> QED BY <1>1, <1>2, <1>3

LEMMA SendRefreshKeeps ==
    ASSUME BrowserInv, NEW c \in Slots, Browser!SendRefresh(c)
    PROVE  BrowserInv'
<1> DEFINE held == [call[c] EXCEPT !.pc = "claim", !.cookie = jar]
<1>1. held \in CallHeld /\ held.pc = "claim" /\ held.cookie = jar
  BY DEF CallHeld, BrowserInv, BrowserShape
<1>2. /\ Browser!Goes(c, held) /\ UNCHANGED <<right, live, issued, jar, store, signedOut, lost>>
      /\ overlapped' = (overlapped \/ \E d \in Slots \ {c} : Browser!Out(d))
      /\ ~ Browser!Out(c)
  BY DEF Browser!SendRefresh, Browser!server, Browser!At, Browser!Out
<1> HIDE DEF held
<1>3. call' \in [Slots -> CallHeld] /\ call'[c] = held
  BY <1>1, <1>2, CallMoves
<1>4. BrowserShape'
  BY <1>2, <1>3 DEF BrowserInv, BrowserShape
<1>5. ASSUME ~ overlapped', lost = 0
      PROVE  /\ \A d \in Slots \ {c} : ~ Browser!Out(d)
             /\ Carries(c)' /\ Browser!Out(c)'
  <2>1. right[Session] = "usable" /\ jar = live
    BY <1>2, <1>5 DEF BrowserInv, InTurns, AtRest
  <2> QED BY <1>1, <1>2, <1>3, <1>5, <2>1 DEF Carries, Browser!At, Browser!Out
<1> QED BY <1>1, <1>2, <1>4, <1>5, CallOut

LEMMA ClaimCookieKeeps ==
    ASSUME BrowserInv, NEW c \in Slots, Browser!ClaimCookie(c)
    PROVE  BrowserInv'
<1>1. PICK held \in CallHeld :
        /\ Browser!Goes(c, held) /\ held.pc \in {"mint", "refused"}
        /\ call[c].cookie = live => held.pc = "mint"
  <2>1. \A pc \in {"mint", "refused"} : [call[c] EXCEPT !.pc = pc] \in CallHeld
    BY DEF CallHeld, BrowserInv, BrowserShape
  <2>2. \A pc \in {"mint", "refused"} : [call[c] EXCEPT !.pc = pc].pc = pc
    BY DEF CallHeld, BrowserInv, BrowserShape
  <2> QED BY <2>1, <2>2 DEF Browser!ClaimCookie
<1>2. /\ live' = 0 /\ UNCHANGED <<issued, jar, store, signedOut, overlapped, lost>>
      /\ Browser!At(c, "claim")
  BY DEF Browser!ClaimCookie
<1>3. /\ right' \in [{Session} -> {"pending", "usable", "gone"}]
      /\ call[c].cookie = live => right'[Session] = "pending"
  BY DEF Browser!ClaimCookie, Browser!SR!Exchange, Browser!SR!Lose, BrowserInv, BrowserShape
<1>4. call' \in [Slots -> CallHeld] /\ call'[c] = held
  BY <1>1, CallMoves
<1>5. BrowserShape'
  BY <1>2, <1>3, <1>4 DEF BrowserInv, BrowserShape
<1>6. ASSUME ~ overlapped', lost = 0
      PROVE  /\ \A d \in Slots \ {c} : ~ Browser!Out(d)
             /\ Carries(c)' /\ Browser!Out(c)'
  <2>1. Browser!Out(c) /\ call[c].cookie = live /\ \A d \in Slots \ {c} : ~ Browser!Out(d)
    BY <1>2, <1>6 DEF BrowserInv, InTurns, OneIsOut, Carries, Browser!At, Browser!Out
  <2> QED BY <1>1, <1>3, <1>4, <2>1 DEF Carries, Browser!At, Browser!Out
<1> QED BY <1>1, <1>2, <1>5, <1>6, CallOut

LEMMA MintPairKeeps ==
    ASSUME BrowserInv, NEW c \in Slots, Browser!MintPair(c)
    PROVE  BrowserInv'
<1> DEFINE held == [call[c] EXCEPT !.pc = "respond", !.cookie = issued + 1]
<1>1. held \in CallHeld /\ held.pc = "respond" /\ held.cookie = issued + 1 /\ issued + 1 \in Nat
  <2>1. call[c] \in CallHeld /\ issued \in Nat
    BY DEF BrowserInv, BrowserShape
  <2>2. issued + 1 \in Nat
    BY <2>1
  <2> QED BY <2>1, <2>2 DEF CallHeld
<1>2. /\ Browser!Goes(c, held) /\ live' = issued + 1 /\ issued' = issued + 1
      /\ UNCHANGED <<jar, store, signedOut, overlapped, lost>> /\ Browser!At(c, "mint")
  BY DEF Browser!MintPair
<1> HIDE DEF held
<1>3. /\ right' \in [{Session} -> {"pending", "usable", "gone"}] /\ right'[Session] = "usable"
  BY DEF Browser!MintPair, Browser!SR!Mint, BrowserInv, BrowserShape
<1>4. call' \in [Slots -> CallHeld] /\ call'[c] = held
  BY <1>1, <1>2, CallMoves
<1>5. BrowserShape'
  BY <1>1, <1>2, <1>3, <1>4 DEF BrowserInv, BrowserShape
<1>6. ASSUME ~ overlapped', lost = 0
      PROVE  /\ \A d \in Slots \ {c} : ~ Browser!Out(d)
             /\ Carries(c)' /\ Browser!Out(c)'
  <2>1. Browser!Out(c) /\ \A d \in Slots \ {c} : ~ Browser!Out(d)
    BY <1>2, <1>6 DEF BrowserInv, InTurns, OneIsOut, Browser!At, Browser!Out
  <2> QED BY <1>1, <1>2, <1>3, <1>4, <2>1 DEF Carries, Browser!At, Browser!Out
<1> QED BY <1>1, <1>2, <1>5, <1>6, CallOut

LEMMA PairArrivesKeeps ==
    ASSUME BrowserInv, NEW c \in Slots, Browser!PairArrives(c)
    PROVE  BrowserInv'
<1> DEFINE held == [call[c] EXCEPT !.pc = "me", !.token = call[c].cookie]
<1>1. held \in CallHeld /\ held.pc = "me" /\ call[c].cookie \in Nat
  BY DEF CallHeld, BrowserInv, BrowserShape
<1>2. /\ Browser!Goes(c, held) /\ jar' = call[c].cookie
      /\ UNCHANGED <<right, live, issued, store, signedOut, overlapped, lost>>
      /\ Browser!At(c, "respond")
  BY DEF Browser!PairArrives, Browser!server
<1> HIDE DEF held
<1>3. call' \in [Slots -> CallHeld] /\ call'[c] = held
  BY <1>1, <1>2, CallMoves
<1>4. BrowserShape'
  BY <1>1, <1>2, <1>3 DEF BrowserInv, BrowserShape
<1>5. ASSUME ~ overlapped', lost = 0
      PROVE  /\ \A d \in Slots \ {c} : ~ Browser!Out(d)
             /\ Carries(c)' /\ right'[Session] = "usable" /\ jar' = live'
  <2>1. /\ Browser!Out(c) /\ \A d \in Slots \ {c} : ~ Browser!Out(d)
        /\ right[Session] = "usable" /\ call[c].cookie = live
    BY <1>2, <1>5 DEF BrowserInv, InTurns, OneIsOut, Carries, Browser!At, Browser!Out
  <2> QED BY <1>1, <1>2, <1>3, <2>1 DEF Carries, Browser!At
<1> QED BY <1>1, <1>2, <1>4, <1>5, CallOut

LEMMA AnswerKeeps ==
    ASSUME BrowserInv, NEW c \in Slots, Browser!KnowsUser(c) \/ Browser!GivesUp(c)
    PROVE  BrowserInv'
<1>1. CASE Browser!KnowsUser(c)
  <2>1. PICK held \in CallHeld :
          /\ Browser!Goes(c, held) /\ held.pc \in {"idle", "sent"} /\ store' \in Nat
          /\ signedOut' = signedOut \/ signedOut' = "expired"
    <3>1. CASE Browser!Valid(call[c].token)
      <4>1. call[c].token \in Nat
        BY DEF BrowserInv, BrowserShape, CallHeld
      <4>2. /\ [Browser!Idle EXCEPT !.pc = "sent", !.token = call[c].token, !.retried = TRUE]
                  \in CallHeld
            /\ [Browser!Idle EXCEPT !.pc = "sent", !.token = call[c].token, !.retried = TRUE].pc
                  = "sent"
        BY <4>1, CallIdle DEF CallHeld
      <4> QED BY <1>1, <3>1, <4>1, <4>2, CallIdle DEF Browser!KnowsUser
    <3>2. CASE ~ Browser!Valid(call[c].token)
      BY <1>1, <3>2, CallIdle DEF Browser!KnowsUser
    <3> QED BY <3>1, <3>2
  <2>2. /\ UNCHANGED <<right, live, issued, jar, overlapped, lost>> /\ ~ Browser!Out(c)
    BY <1>1 DEF Browser!KnowsUser, Browser!server, Browser!At, Browser!Out
  <2> QED BY <2>1, <2>2, CallAside
<1>2. CASE Browser!GivesUp(c)
  <2>1. /\ Browser!Goes(c, Browser!Idle) /\ store' \in Nat
        /\ signedOut' = "refused" /\ Browser!At(c, "refused")
        /\ UNCHANGED <<right, live, issued, jar, overlapped, lost>> /\ ~ Browser!Out(c)
    BY <1>2 DEF Browser!GivesUp, Browser!server, Browser!At, Browser!Out
  <2> QED BY <2>1, CallIdle, CallAside
<1> QED BY <1>1, <1>2

LEMMA CallFailsKeeps ==
    ASSUME BrowserInv, NEW c \in Slots, Browser!CallFails(c)
    PROVE  BrowserInv'
<1>1. lost \in Nat /\ lost' = lost + 1
  BY DEF Browser!CallFails, BrowserInv, BrowserShape
<1>2. call' \in [Slots -> CallHeld]
  BY CallIdle, CallMoves DEF Browser!CallFails
<1>3. right' \in [{Session} -> {"pending", "usable", "gone"}] /\ store' \in Nat
  BY DEF Browser!CallFails, Browser!SR!Lose, BrowserInv, BrowserShape
<1>4. UNCHANGED <<live, issued, jar>>
  BY DEF Browser!CallFails
<1> QED BY <1>1, <1>2, <1>3, <1>4 DEF BrowserInv, BrowserShape, InTurns

LEMMA BrowserStarts == Browser!Init => BrowserInv
<1> SUFFICES ASSUME Browser!Init PROVE BrowserInv
  OBVIOUS
<1>1. BrowserShape
  BY CallIdle DEF Browser!Init, BrowserShape
<1>2. \A c \in Slots : call[c].pc = "idle"
  BY CallIdle DEF Browser!Init
<1> QED BY <1>1, <1>2 DEF BrowserInv, InTurns, OneIsOut, AtRest, Carries, Browser!Init,
                         Browser!Out, Browser!At

LEMMA BrowserKept == BrowserInv /\ [Browser!Next]_(Browser!vars) => BrowserInv'
<1> SUFFICES ASSUME BrowserInv, [Browser!Next]_(Browser!vars) PROVE BrowserInv'
  OBVIOUS
<1>1. CASE Browser!Expire \/ UNCHANGED Browser!vars
  <2>1. UNCHANGED <<right, live, issued, jar, store, call, signedOut, overlapped, lost>>
    BY <1>1 DEF Browser!Expire, Browser!vars, Browser!server
  <2> QED BY <2>1 DEF BrowserInv, BrowserShape, InTurns, OneIsOut, AtRest, Carries,
                      Browser!Out, Browser!At
<1> QED BY <1>1, AuthedKeeps, SendRefreshKeeps, ClaimCookieKeeps, MintPairKeeps, PairArrivesKeeps,
           AnswerKeeps, CallFailsKeeps DEF Browser!Next

\* The client's half of rotation: as long as no two refreshes are out at once and no
\* answer is lost, a browser with any number of calls keeps its session, and the
\* cookie it holds is the one the server would exchange.
THEOREM RefreshesInTurn == Browser!Spec => []OneRefreshAtATimeKeepsSession
<1>1. BrowserInv => OneRefreshAtATimeKeepsSession
  <2> SUFFICES ASSUME BrowserInv, ~ overlapped, lost = 0
               PROVE  /\ right[Session] # "gone"
                      /\ (\A c \in Slots : ~ Browser!Out(c)) => jar = live
                      /\ signedOut \in {"no", "expired"}
    BY DEF OneRefreshAtATimeKeepsSession, Browser!OneRefreshAtATimeKeepsSession
  <2>1. AtRest /\ signedOut \in {"no", "expired"} /\ \A c \in Slots : Carries(c)
    BY DEF BrowserInv, InTurns
  <2>2. CASE \A c \in Slots : ~ Browser!Out(c)
    BY <2>1, <2>2 DEF AtRest
  <2>3. ASSUME NEW c \in Slots, Browser!Out(c) PROVE right[Session] # "gone"
    BY <2>1, <2>3 DEF Carries, Browser!Out, Browser!At
  <2> QED BY <2>1, <2>2, <2>3
<1> QED BY <1>1, BrowserStarts, BrowserKept, PTL DEF Browser!Spec
=============================================================================
