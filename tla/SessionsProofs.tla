--------------------------- MODULE SessionsProofs ---------------------------
(***************************************************************************)
(* Theorems about Sessions, for any number of users, rows and requests.    *)
(* IInv is the inductive invariant they come from: its parts are proved    *)
(* one after the other, each with one step per action.  The refinement of  *)
(* SessionRight, from the same invariant, is at the end.                   *)
(***************************************************************************)
EXTENDS Sessions, FiniteSetTheorems, TLAPS

-----------------------------------------------------------------------------
(* What the two ways of ending a statement do to the request.               *)

LEMMA NothingErased == {} \in Erasable
BY DEF Erasable

LEMMA IdleRequest == Idle \in Request
BY NothingErased DEF Idle, Request, Steps

LEMMA MintingRequest ==
    ASSUME NEW q \in Request, NEW n \in TokenIds
    PROVE  /\ [q EXCEPT !.pc = "touch", !.new = n] \in Request
           /\ \A s \in SessionIds :
                 [q EXCEPT !.pc = "mint", !.session = s, !.new = n] \in Request
<1>1. "touch" \in Steps /\ "mint" \in Steps
  BY DEF Steps
<1> QED BY <1>1 DEF Request

LEMMA ProceedType ==
    ASSUME req \in [Requests -> Request], NEW r \in Requests, NEW p \in Steps, Proceed(r, p)
    PROVE  req' \in [Requests -> Request]
BY DEF Proceed, Request

LEMMA ProceedKeeps ==
    ASSUME req \in [Requests -> Request], NEW r \in Requests, NEW p \in Steps, Proceed(r, p)
    PROVE  /\ req'[r].pc = p
           /\ req'[r].user = req[r].user /\ req'[r].version = req[r].version
           /\ req'[r].session = req[r].session /\ req'[r].token = req[r].token
           /\ req'[r].new = req[r].new /\ req'[r].key = req[r].key
           /\ req'[r].doomed = req[r].doomed
BY DEF Proceed, Request

LEMMA FinishType ==
    ASSUME req \in [Requests -> Request], NEW r \in Requests, Finish(r)
    PROVE  req' \in [Requests -> Request]
BY IdleRequest DEF Finish

LEMMA DenyType ==
    ASSUME req \in [Requests -> Request], NEW r \in Requests, NEW jtis \in SUBSET TokenIds,
           DenyNext(r, jtis)
    PROVE  req' \in [Requests -> Request]
<1>1. [req[r] EXCEPT !.pc = "deny", !.jtis = jtis] \in Request
  BY DEF Request, Steps
<1> QED BY <1>1, IdleRequest DEF DenyNext

-----------------------------------------------------------------------------
(* References between rows, and from requests to rows, never dangle: ids    *)
(* are drawn once, and a deleted row keeps its id and its columns.          *)

TokenRefers(t) ==
    token[t].st # "none" =>
        /\ t \in issued
        /\ token[t].session \in SessionIds
        /\ session[token[t].session].st # "none"

SessionRefers(s) ==
    session[s].st # "none" => session[s].user \in Users /\ session[s].jti \in issued

RequestRefers(r) ==
    /\ req[r].pc # "idle" => req[r].user \in Users
    /\ req[r].pc \in {"mint", "claim", "account", "rotate", "touch", "respond", "revoke"} =>
         req[r].session \in SessionIds /\ session[req[r].session].st # "none"
    /\ req[r].pc \in {"mint", "touch", "respond"} => req[r].new \in issued
    /\ req[r].pc \in {"claim", "account", "rotate"} =>
         /\ req[r].token \in TokenIds
         /\ token[req[r].token].st # "none"
         /\ token[req[r].token].session = req[r].session
    /\ req[r].pc \in {"claimChallenge", "verify", "reread", "open"} => req[r].key \notin ResetIds
    /\ req[r].pc = "claimChallenge" => req[r].key \in ChallengeIds
    /\ req[r].pc = "claimReset" => req[r].key \in ResetIds
    /\ req[r].pc # "erase" => req[r].doomed = {}
    /\ \A s \in SessionIds : s \in req[r].doomed =>
         session[s].st # "none" /\ session[s].user = req[r].user
    /\ \A k \in ResetIds : k \in req[r].doomed => reset[k].st # "none"

Refer ==
    /\ \A t \in TokenIds : TokenRefers(t)
    /\ \A s \in SessionIds : SessionRefers(s)
    /\ \A k \in ResetIds : reset[k].st # "none" => reset[k].user \in Users
    /\ \A c \in ChallengeIds : challenge[c].st # "none" => challenge[c].user \in Users
    /\ \A r \in Requests : RequestRefers(r)

\* A token id on its way into the database is not there yet and belongs to one
\* request.
FreshIds ==
    /\ \A r \in Requests : req[r].pc = "mint" => token[req[r].new].st = "none"
    /\ \A q, r \in Requests :
         /\ q # r
         /\ req[q].pc \in {"mint", "touch", "respond"}
         /\ req[r].pc \in {"mint", "touch", "respond"}
         => req[q].new # req[r].new

LEMMA TypeInit == Init => TypeOK
BY IdleRequest DEF Init, TypeOK, UserRow, SessionRow, SessionState, TokenRow, TokenState,
   ResetRow, ChallengeRow, GrantState

LEMMA TypeNext == ASSUME TypeOK, Refer, [Next]_vars PROVE TypeOK'
<1> USE DEF TypeOK, accounts
<1>a. ASSUME NEW r \in Requests, NEW u \in Users, Login(r, u) PROVE TypeOK'
  <2>1. [Idle EXCEPT !.pc = IF StepUp(u) THEN "challenge" ELSE "open",
                     !.user = u, !.version = user[u].version] \in Request
    BY NothingErased DEF Idle, Request, Steps, UserRow
  <2> QED BY <1>a, <2>1 DEF Login
<1>b. ASSUME NEW r \in Requests, CreateChallenge(r) PROVE TypeOK'
  <2>1. req' \in [Requests -> Request]
    BY <1>b, FinishType DEF CreateChallenge
  <2>2. challenge' \in [ChallengeIds -> ChallengeRow]
    BY <1>b DEF CreateChallenge, ChallengeRow, GrantState, Request
  <2> QED BY <1>b, <2>1, <2>2 DEF CreateChallenge
<1>c. ASSUME NEW r \in Requests, NEW c \in ChallengeIds, RedeemChallenge(r, c) PROVE TypeOK'
  <2>1. [Idle EXCEPT !.pc = "claimChallenge", !.key = c, !.user = challenge[c].user,
                     !.version = challenge[c].version] \in Request
    BY NothingErased DEF Idle, Request, Steps, ChallengeRow
  <2> QED BY <1>c, <2>1 DEF RedeemChallenge
<1>d. ASSUME NEW r \in Requests, ClaimChallenge(r) PROVE TypeOK'
  <2>1. req' \in [Requests -> Request]
    BY <1>d, FinishType, ProceedType DEF ClaimChallenge, Steps
  <2>2. challenge' \in [ChallengeIds -> ChallengeRow]
    BY <1>d DEF ClaimChallenge, ChallengeRow, GrantState
  <2> QED BY <1>d, <2>1, <2>2 DEF ClaimChallenge
<1>e. ASSUME NEW r \in Requests, VerifyCode(r) \/ RereadUser(r) \/ ReadAccount(r) PROVE TypeOK'
  <2>1. req' \in [Requests -> Request]
    BY <1>e, FinishType, ProceedType DEF VerifyCode, RereadUser, ReadAccount, Steps
  <2> QED BY <1>e, <2>1 DEF VerifyCode, RereadUser, ReadAccount
<1>f. ASSUME NEW r \in Requests, OpenSession(r) PROVE TypeOK'
  <2>1. PICK s \in SessionIds, n \in TokenIds \ issued :
            /\ session' = [session EXCEPT ![s] =
                   [st |-> "open", user |-> req[r].user, jti |-> n,
                    version |-> req[r].version, via |-> req[r].key,
                    late |-> Erasing(req[r].user)]]
            /\ issued' = issued \cup {n}
            /\ req' = [req EXCEPT ![r] = [@ EXCEPT !.pc = "mint", !.session = s, !.new = n]]
    BY <1>f DEF OpenSession
  <2>2. req' \in [Requests -> Request]
    <3>1. [req[r] EXCEPT !.pc = "mint", !.session = s, !.new = n] \in Request
      BY MintingRequest
    <3> QED BY <2>1, <3>1
  <2>3. session' \in [SessionIds -> SessionRow]
    <3>1. req[r].key \in ChallengeIds \cup {NULL}
      BY <1>f DEF OpenSession, Refer, RequestRefers, Request
    <3>2. Erasing(req[r].user) \in BOOLEAN
      BY DEF Erasing
    <3>3. [st |-> "open", user |-> req[r].user, jti |-> n, version |-> req[r].version,
           via |-> req[r].key, late |-> Erasing(req[r].user)] \in SessionRow
      BY <3>1, <3>2 DEF SessionRow, SessionState, Request
    <3> QED BY <2>1, <3>3
  <2> QED BY <1>f, <2>1, <2>2, <2>3 DEF OpenSession
<1>g. ASSUME NEW r \in Requests, MintFirst(r) PROVE TypeOK'
  <2>1. req' \in [Requests -> Request]
    BY <1>g, FinishType, ProceedType DEF MintFirst, Steps
  <2>2. token' \in [TokenIds -> TokenRow]
    BY <1>g DEF MintFirst, TokenRow, TokenState, Refer, RequestRefers
  <2> QED BY <1>g, <2>1, <2>2 DEF MintFirst
<1>h. ASSUME NEW r \in Requests, Respond(r) PROVE TypeOK'
  <2>1. req' \in [Requests -> Request]
    BY <1>h, FinishType DEF Respond
  <2> QED BY <1>h, <2>1 DEF Respond, Refer, RequestRefers
<1>i. ASSUME NEW r \in Requests, NEW t \in TokenIds, PresentToken(r, t) PROVE TypeOK'
  <2>1. [Idle EXCEPT !.pc = "claim", !.token = t, !.session = token[t].session,
                     !.user = session[token[t].session].user] \in Request
    BY <1>i, NothingErased DEF PresentToken, TokenExists, Idle, Request, Steps, Refer, TokenRefers,
       TokenRow, SessionRow
  <2> QED BY <1>i, <2>1 DEF PresentToken
<1>j. ASSUME NEW r \in Requests, Claim(r) PROVE TypeOK'
  <2>1. req' \in [Requests -> Request]
    BY <1>j, FinishType, ProceedType DEF Claim, Steps
  <2>2. token' \in [TokenIds -> TokenRow]
    BY <1>j DEF Claim, TokenRow, TokenState
  <2> QED BY <1>j, <2>1, <2>2 DEF Claim
<1>k. ASSUME NEW r \in Requests, MintRotated(r) PROVE TypeOK'
  <2>1. CASE UNCHANGED <<token, issued>> /\ Finish(r)
    BY <1>k, <2>1, FinishType DEF MintRotated
  <2>2. ASSUME NEW n \in TokenIds \ issued,
               token' = [token EXCEPT ![n] = [st |-> "live", session |-> req[r].session,
                                              from |-> req[r].token]],
               issued' = issued \cup {n},
               req' = [req EXCEPT ![r] = [@ EXCEPT !.pc = "touch", !.new = n]]
        PROVE  TypeOK'
    <3>1. req' \in [Requests -> Request]
      <4>1. [req[r] EXCEPT !.pc = "touch", !.new = n] \in Request
        BY <2>2, MintingRequest
      <4> QED BY <2>2, <4>1
    <3>2. token' \in [TokenIds -> TokenRow]
      BY <2>2 DEF TokenRow, TokenState, Request
    <3> QED BY <1>k, <2>2, <3>1, <3>2 DEF MintRotated
  <2> QED BY <1>k, <2>1, <2>2 DEF MintRotated
<1>l. ASSUME NEW r \in Requests, Touch(r) PROVE TypeOK'
  <2>1. req' \in [Requests -> Request]
    BY <1>l, FinishType, ProceedType DEF Touch, Steps
  <2>2. session' \in [SessionIds -> SessionRow]
    BY <1>l DEF Touch, SessionRow, SessionState, Request
  <2> QED BY <1>l, <2>1, <2>2 DEF Touch
<1>m. ASSUME NEW r \in Requests, NEW u \in Users, NEW t \in TokenIds, Logout(r, u, t)
      PROVE  TypeOK'
  <2>1. [Idle EXCEPT !.pc = "revoke", !.user = u, !.session = token[t].session] \in Request
    BY NothingErased DEF Idle, Request, Steps, TokenRow
  <2> QED BY <1>m, <2>1 DEF Logout
<1>n. ASSUME NEW r \in Requests, NEW u \in Users, NEW s \in SessionIds, RevokeOwnSession(r, u, s)
      PROVE  TypeOK'
  <2>1. [Idle EXCEPT !.pc = "revoke", !.user = u, !.session = s] \in Request
    BY NothingErased DEF Idle, Request, Steps
  <2> QED BY <1>n, <2>1 DEF RevokeOwnSession
<1>o. ASSUME NEW r \in Requests, RevokeSession(r) PROVE TypeOK'
  <2>1. CASE ~Exists(req[r].session)
    BY <1>o, <2>1, FinishType DEF RevokeSession
  <2>2. CASE Exists(req[r].session)
    <3>1. req[r].session \in SessionIds /\ session[req[r].session].jti \in TokenIds
      BY <1>o DEF RevokeSession, Refer, RequestRefers, SessionRefers
    <3>2. req' \in [Requests -> Request]
      BY <1>o, <2>2, <3>1, DenyType DEF RevokeSession
    <3>3. session' = [session EXCEPT ![req[r].session].st = "revoked"]
      BY <1>o, <2>2 DEF RevokeSession
    <3>4. session' \in [SessionIds -> SessionRow]
      BY <3>3 DEF SessionRow, SessionState
    <3>5. token' \in [TokenIds -> TokenRow]
      BY <1>o, <2>2 DEF RevokeSession, TokenRow, TokenState
    <3> QED BY <1>o, <3>2, <3>4, <3>5 DEF RevokeSession
  <2> QED BY <2>1, <2>2
<1>p. ASSUME NEW r \in Requests, Deny(r) PROVE TypeOK'
  <2>1. PICK j \in req[r].jtis : /\ denylist' \in {denylist \cup {j}, denylist}
                                /\ DenyNext(r, req[r].jtis \ {j})
    BY <1>p DEF Deny
  <2>2. req[r].jtis \in SUBSET TokenIds
    BY DEF Request
  <2>3. req' \in [Requests -> Request]
    BY <2>1, <2>2, DenyType
  <2> QED BY <1>p, <2>1, <2>2, <2>3 DEF Deny
<1>q. ASSUME NEW r \in Requests, NEW u \in Users, RequestReset(r, u) PROVE TypeOK'
  <2>1. [Idle EXCEPT !.pc = "issueReset", !.user = u] \in Request
    BY NothingErased DEF Idle, Request, Steps
  <2> QED BY <1>q, <2>1 DEF RequestReset
<1>r. ASSUME NEW r \in Requests, IssueReset(r) PROVE TypeOK'
  <2>1. req' \in [Requests -> Request]
    BY <1>r, FinishType DEF IssueReset
  <2>2. reset' \in [ResetIds -> ResetRow]
    BY <1>r DEF IssueReset, ResetRow, GrantState, Request
  <2> QED BY <1>r, <2>1, <2>2 DEF IssueReset
<1>s. ASSUME NEW r \in Requests, NEW k \in ResetIds, PresentReset(r, k) PROVE TypeOK'
  <2>1. [Idle EXCEPT !.pc = "claimReset", !.key = k, !.user = reset[k].user] \in Request
    BY NothingErased DEF Idle, Request, Steps, ResetRow
  <2> QED BY <1>s, <2>1 DEF PresentReset
<1>t. ASSUME NEW r \in Requests, ClaimReset(r) PROVE TypeOK'
  <2>1. req' \in [Requests -> Request]
    BY <1>t, FinishType, ProceedType DEF ClaimReset, Steps
  <2>2. reset' \in [ResetIds -> ResetRow]
    BY <1>t DEF ClaimReset, ResetRow, GrantState
  <2> QED BY <1>t, <2>1, <2>2 DEF ClaimReset
<1>u. ASSUME NEW r \in Requests, SetPassword(r) PROVE TypeOK'
  <2>1. req' \in [Requests -> Request]
    BY <1>u, ProceedType DEF SetPassword, Steps
  <2>2. user' \in [Users -> UserRow]
    <3> DEFINE u == req[r].user
    <3>1. u \in Users
      BY <1>u DEF SetPassword, Refer, RequestRefers
    <3>2. [user[u] EXCEPT !.hasPassword = TRUE, !.version = user[u].version + 1] \in UserRow
      <4>1. user[u] \in UserRow
        BY <3>1
      <4>2. user[u].version + 1 \in Nat
        BY <4>1 DEF UserRow
      <4> QED BY <4>1, <4>2 DEF UserRow
    <3>3. user' = [user EXCEPT ![u] = [user[u] EXCEPT !.hasPassword = TRUE,
                                                     !.version = user[u].version + 1]]
      BY <1>u DEF SetPassword
    <3> HIDE DEF u
    <3> QED BY <3>1, <3>2, <3>3
  <2> QED BY <1>u, <2>1, <2>2 DEF SetPassword
<1>v. ASSUME NEW r \in Requests, RevokeAllSessions(r) PROVE TypeOK'
  <2> DEFINE open == {s \in SessionIds : session[s].st = "open" /\ session[s].user = req[r].user}
  <2>1. {session[s].jti : s \in open} \in SUBSET TokenIds
    BY DEF Refer, SessionRefers
  <2>2. req' \in [Requests -> Request]
    BY <1>v, <2>1, DenyType DEF RevokeAllSessions
  <2>3. session' \in [SessionIds -> SessionRow]
    BY <1>v DEF RevokeAllSessions, SessionRow, SessionState
  <2>4. token' \in [TokenIds -> TokenRow]
    BY <1>v DEF RevokeAllSessions, TokenRow, TokenState
  <2> QED BY <1>v, <2>2, <2>3, <2>4 DEF RevokeAllSessions
<1>w. ASSUME NEW u \in Users, EnrollMfa(u) PROVE TypeOK'
  BY <1>w DEF EnrollMfa, UserRow
<1>x. ASSUME NEW r \in Requests, NEW u \in Users, EraseRows(r, u) PROVE TypeOK'
  <2> DEFINE rows == {s \in SessionIds : Exists(s) /\ session[s].user = u}
                       \cup {k \in ResetIds : reset[k].st \in {"unused", "used"} /\ reset[k].user = u}
  <2>1. rows \in Erasable
    BY DEF Erasable
  <2>2. req' = [req EXCEPT ![r] = [Idle EXCEPT !.pc = "erase", !.user = u, !.doomed = rows]]
    BY <1>x DEF EraseRows
  <2> HIDE DEF rows
  <2>3. [Idle EXCEPT !.pc = "erase", !.user = u, !.doomed = rows] \in Request
    BY <2>1 DEF Idle, Request, Steps
  <2> QED BY <1>x, <2>2, <2>3 DEF EraseRows
<1>xx. ASSUME NEW r \in Requests, CommitErasure(r) PROVE TypeOK'
  <2>1. user' \in [Users -> UserRow]
    BY <1>xx DEF CommitErasure, UserRow
  <2>2. session' \in [SessionIds -> SessionRow]
    BY <1>xx DEF CommitErasure, SessionRow, SessionState
  <2>3. token' \in [TokenIds -> TokenRow]
    BY <1>xx DEF CommitErasure, TokenRow, TokenState
  <2>4. reset' \in [ResetIds -> ResetRow]
    BY <1>xx DEF CommitErasure, ResetRow, GrantState
  <2>5. req' \in [Requests -> Request]
    BY <1>xx, FinishType DEF CommitErasure
  <2> QED BY <1>xx, <2>1, <2>2, <2>3, <2>4, <2>5 DEF CommitErasure
<1>y. ASSUME NEW r \in Requests, Abort(r) PROVE TypeOK'
  BY <1>y, FinishType DEF Abort
<1>z. CASE UNCHANGED vars
  BY <1>z DEF vars
<1> QED BY <1>a, <1>b, <1>c, <1>d, <1>e, <1>f, <1>g, <1>h, <1>i, <1>j, <1>k, <1>l, <1>m, <1>n,
           <1>o, <1>p, <1>q, <1>r, <1>s, <1>t, <1>u, <1>v, <1>w, <1>x, <1>xx, <1>y, <1>z
        DEF Next, SignIn, Rotate, Revoke, ResetPassword, Erase

-----------------------------------------------------------------------------
(* What every step keeps.                                                   *)

\* A request's step leaves the other requests alone.
LEMMA Alone ==
    ASSUME TypeOK, NEW r \in Requests, NEW q \in Requests, q # r,
           SignIn(r) \/ Rotate(r) \/ Revoke(r) \/ ResetPassword(r) \/ Erase(r) \/ Abort(r)
    PROVE  req'[q] = req[q]
<1> USE DEF TypeOK, Proceed, Finish, DenyNext
<1>1. CASE SignIn(r)
  BY <1>1 DEF SignIn, Login, CreateChallenge, RedeemChallenge, ClaimChallenge, VerifyCode,
     RereadUser, OpenSession, MintFirst, Respond
<1>2. CASE Rotate(r)
  BY <1>2 DEF Rotate, PresentToken, Claim, ReadAccount, MintRotated, Touch
<1>3. CASE Revoke(r)
  BY <1>3 DEF Revoke, Logout, RevokeOwnSession, RevokeSession, Deny
<1>4. CASE ResetPassword(r)
  BY <1>4 DEF ResetPassword, RequestReset, IssueReset, PresentReset, ClaimReset, SetPassword,
     RevokeAllSessions
<1>5. CASE Erase(r)
  BY <1>5 DEF Erase, EraseRows, CommitErasure
<1>6. CASE Abort(r)
  BY <1>6 DEF Abort
<1> QED BY <1>1, <1>2, <1>3, <1>4, <1>5, <1>6

\* A step is one request's, or an account's, or nothing.
LEMMA OneMoves ==
    ASSUME TypeOK, [Next]_vars, NEW q \in Requests, NEW r \in Requests, q # r, req'[r] # req[r]
    PROVE  req'[q] = req[q]
<1>1. PICK a \in Requests : SignIn(a) \/ Rotate(a) \/ Revoke(a) \/ ResetPassword(a) \/ Erase(a) \/ Abort(a)
  BY DEF Next, vars, EnrollMfa
<1>2. a = r
  BY <1>1, Alone
<1> QED BY <1>1, <1>2, Alone

\* How a request comes to the steps the proofs ask about.
Arrived(r) ==
    /\ req'[r].pc = "claim" => \E t \in TokenIds : PresentToken(r, t)
    /\ req'[r].pc = "account" => Claim(r)
    /\ req'[r].pc = "rotate" => ReadAccount(r)
    /\ req'[r].pc = "mint" => OpenSession(r)
    /\ req'[r].pc = "touch" => MintRotated(r)
    /\ req'[r].pc = "respond" => MintFirst(r) \/ Touch(r)
    /\ req'[r].pc = "revoke" => \/ Claim(r)
                                \/ \E u \in Users, t \in TokenIds : Logout(r, u, t)
                                \/ \E u \in Users, s \in SessionIds : RevokeOwnSession(r, u, s)
    /\ req'[r].pc = "claimReset" => \E k \in ResetIds : PresentReset(r, k)
    /\ req'[r].pc = "password" => ClaimReset(r)
    /\ req'[r].pc = "revokeAll" => SetPassword(r)
    /\ req'[r].pc = "verify" => ClaimChallenge(r)
    /\ req'[r].pc = "reread" => VerifyCode(r)
    /\ req'[r].pc = "open" => RereadUser(r) \/ \E u \in Users : Login(r, u)
    /\ req'[r].pc = "erase" => \E u \in Users : EraseRows(r, u)

LEMMA Arrivals ==
    ASSUME TypeOK, [Next]_vars, NEW r \in Requests, req'[r] # req[r]
    PROVE  Arrived(r)
<1> USE DEF TypeOK, Arrived
<1>0. ASSUME Finish(r) PROVE Arrived(r)
  BY <1>0 DEF Finish, Idle
<1>1. ASSUME Proceed(r, "password"), ClaimReset(r) PROVE Arrived(r)
  BY <1>1, ProceedKeeps DEF Steps
<1>2. ASSUME NEW jtis, DenyNext(r, jtis) PROVE Arrived(r)
  BY <1>2 DEF DenyNext, Idle, Request
<1>3. CASE SignIn(r)
  <2>1. ASSUME NEW u \in Users, Login(r, u) PROVE Arrived(r)
    BY <2>1 DEF Login, Idle
  <2>2. ASSUME NEW c \in ChallengeIds, RedeemChallenge(r, c) PROVE Arrived(r)
    BY <2>2 DEF RedeemChallenge, Idle
  <2>3. CASE CreateChallenge(r) \/ Respond(r)
    BY <2>3, <1>0 DEF CreateChallenge, Respond
  <2>6. CASE ClaimChallenge(r)
    BY <2>6, <1>0, ProceedKeeps DEF ClaimChallenge, Steps
  <2>7. CASE VerifyCode(r)
    BY <2>7, <1>0, ProceedKeeps DEF VerifyCode, Steps
  <2>8. CASE RereadUser(r)
    BY <2>8, <1>0, ProceedKeeps DEF RereadUser, Steps
  <2>4. CASE OpenSession(r)
    <3>1. req'[r].pc = "mint"
      BY <2>4 DEF OpenSession, Request
    <3> QED BY <2>4, <3>1
  <2>5. CASE MintFirst(r)
    BY <2>5, <1>0, ProceedKeeps DEF MintFirst, Steps
  <2> QED BY <1>3, <2>1, <2>2, <2>3, <2>4, <2>5, <2>6, <2>7, <2>8 DEF SignIn
<1>4. CASE Rotate(r)
  <2>1. ASSUME NEW t \in TokenIds, PresentToken(r, t) PROVE Arrived(r)
    BY <2>1 DEF PresentToken, Idle
  <2>2. CASE Claim(r)
    BY <2>2, ProceedKeeps DEF Claim, Steps
  <2>3. CASE ReadAccount(r)
    BY <2>3, <1>0, ProceedKeeps DEF ReadAccount, Steps
  <2>4. CASE MintRotated(r) /\ ~Finish(r)
    <3>1. PICK n \in TokenIds \ issued :
              req' = [req EXCEPT ![r] = [@ EXCEPT !.pc = "touch", !.new = n]]
      BY <2>4 DEF MintRotated
    <3> QED BY <2>4, <3>1 DEF Request
  <2>5. CASE Touch(r)
    BY <2>5, <1>0, ProceedKeeps DEF Touch, Steps
  <2> QED BY <1>0, <1>4, <2>1, <2>2, <2>3, <2>4, <2>5 DEF Rotate
<1>5. CASE Revoke(r)
  <2>1. CASE RevokeSession(r) \/ Deny(r)
    BY <2>1, <1>0, <1>2 DEF RevokeSession, Deny
  <2>2. ASSUME NEW u \in Users, NEW t \in TokenIds, Logout(r, u, t) PROVE Arrived(r)
    BY <2>2 DEF Logout, Idle
  <2>3. ASSUME NEW u \in Users, NEW s \in SessionIds, RevokeOwnSession(r, u, s) PROVE Arrived(r)
    BY <2>3 DEF RevokeOwnSession, Idle
  <2> QED BY <1>5, <2>1, <2>2, <2>3 DEF Revoke
<1>6. CASE ResetPassword(r)
  <2>1. ASSUME NEW u \in Users, RequestReset(r, u) PROVE Arrived(r)
    BY <2>1 DEF RequestReset, Idle
  <2>2. ASSUME NEW k \in ResetIds, PresentReset(r, k) PROVE Arrived(r)
    BY <2>2 DEF PresentReset, Idle
  <2>3. CASE IssueReset(r) \/ ClaimReset(r) \/ RevokeAllSessions(r)
    BY <2>3, <1>0, <1>1, <1>2 DEF IssueReset, ClaimReset, RevokeAllSessions
  <2>4. CASE SetPassword(r)
    BY <2>4, ProceedKeeps DEF SetPassword, Steps
  <2> QED BY <1>6, <2>1, <2>2, <2>3, <2>4 DEF ResetPassword
<1>9. CASE Erase(r)
  <2>1. ASSUME NEW u \in Users, EraseRows(r, u) PROVE Arrived(r)
    BY <2>1 DEF EraseRows, Idle
  <2> QED BY <1>0, <1>9, <2>1 DEF Erase, CommitErasure
<1>7. CASE Abort(r)
  BY <1>7, <1>0 DEF Abort
<1>8. ASSUME NEW q \in Requests, q # r,
             SignIn(q) \/ Rotate(q) \/ Revoke(q) \/ ResetPassword(q) \/ Erase(q) \/ Abort(q)
      PROVE  FALSE
  BY <1>8, Alone
<1> QED BY <1>3, <1>4, <1>5, <1>6, <1>7, <1>8, <1>9 DEF Next, vars, EnrollMfa

\* A row that was inserted stays, and keeps its references.
Kept ==
    /\ issued \subseteq issued'
    /\ \A t \in TokenIds : token[t].st # "none" =>
         token'[t].st # "none" /\ token'[t].session = token[t].session
    /\ \A s \in SessionIds : session[s].st # "none" =>
         /\ session'[s].st # "none"
         /\ session'[s].user = session[s].user /\ session'[s].late = session[s].late
    /\ \A k \in ResetIds : reset[k].st # "none" => reset'[k].st # "none"

LEMMA RowsKept == ASSUME TypeOK, Refer, FreshIds, [Next]_vars PROVE Kept
<1> USE DEF TypeOK, Kept, TokenRow, SessionRow, ResetRow, accounts
<1>1. ASSUME NEW r \in Requests, SignIn(r) PROVE Kept
  <2>1. CASE OpenSession(r)
    BY <2>1 DEF OpenSession
  <2>2. CASE MintFirst(r)
    BY <2>2 DEF MintFirst, FreshIds
  <2>3. CASE UNCHANGED <<session, token, reset, issued>>
    BY <2>3
  <2> QED BY <1>1, <2>1, <2>2, <2>3 DEF SignIn, Login, CreateChallenge, RedeemChallenge,
             ClaimChallenge, VerifyCode, RereadUser, Respond
<1>2. ASSUME NEW r \in Requests, Rotate(r) PROVE Kept
  <2>1. CASE Claim(r)
    BY <2>1 DEF Claim
  <2>2. CASE MintRotated(r)
    BY <2>2 DEF MintRotated, Refer, TokenRefers
  <2>3. CASE Touch(r)
    <3>1. ASSUME NEW s \in SessionIds
          PROVE  /\ session'[s].st = session[s].st
                 /\ session'[s].user = session[s].user /\ session'[s].late = session[s].late
      BY <2>3 DEF Touch
    <3>2. UNCHANGED <<token, reset, issued>>
      BY <2>3 DEF Touch
    <3> QED BY <3>1, <3>2
  <2>4. CASE UNCHANGED <<session, token, reset, issued>>
    BY <2>4
  <2> QED BY <1>2, <2>1, <2>2, <2>3, <2>4 DEF Rotate, PresentToken, ReadAccount
<1>3. ASSUME NEW r \in Requests, Revoke(r) PROVE Kept
  <2>1. CASE RevokeSession(r)
    <3>1. ASSUME NEW s \in SessionIds, session[s].st # "none"
          PROVE  /\ session'[s].st # "none"
                 /\ session'[s].user = session[s].user /\ session'[s].late = session[s].late
      BY <2>1, <3>1 DEF RevokeSession
    <3>2. ASSUME NEW t \in TokenIds, token[t].st # "none"
          PROVE  token'[t].st # "none" /\ token'[t].session = token[t].session
      BY <2>1, <3>2 DEF RevokeSession
    <3>3. UNCHANGED <<reset, issued>>
      BY <2>1 DEF RevokeSession
    <3> QED BY <3>1, <3>2, <3>3
  <2>2. CASE UNCHANGED <<session, token, reset, issued>>
    BY <2>2
  <2> QED BY <1>3, <2>1, <2>2 DEF Revoke, Logout, RevokeOwnSession, Deny
<1>4. ASSUME NEW r \in Requests, ResetPassword(r) PROVE Kept
  <2>1. CASE RevokeAllSessions(r)
    BY <2>1 DEF RevokeAllSessions
  <2>2. CASE IssueReset(r) \/ ClaimReset(r)
    BY <2>2 DEF IssueReset, ClaimReset
  <2>3. CASE UNCHANGED <<session, token, reset, issued>>
    BY <2>3
  <2> QED BY <1>4, <2>1, <2>2, <2>3 DEF ResetPassword, RequestReset, PresentReset, SetPassword
<1>5. ASSUME NEW r \in Requests, Abort(r) PROVE Kept
  BY <1>5 DEF Abort
<1>8. ASSUME NEW r \in Requests, Erase(r) PROVE Kept
  <2>1. ASSUME NEW u \in Users, EraseRows(r, u) PROVE Kept
    BY <2>1 DEF EraseRows
  <2>2. CASE CommitErasure(r)
    BY <2>2 DEF CommitErasure
  <2> QED BY <1>8, <2>1, <2>2 DEF Erase
<1>6. ASSUME NEW u \in Users, EnrollMfa(u) PROVE Kept
  BY <1>6 DEF EnrollMfa
<1>7. CASE UNCHANGED vars
  BY <1>7 DEF vars
<1> QED BY <1>1, <1>2, <1>3, <1>4, <1>5, <1>6, <1>7, <1>8 DEF Next

-----------------------------------------------------------------------------
(* References stay sound.                                                   *)

LEMMA ReferInit == Init => Refer /\ FreshIds
BY DEF Init, Refer, TokenRefers, SessionRefers, RequestRefers, FreshIds, Idle

\* The request that takes the step.
LEMMA OwnRefers ==
    ASSUME TypeOK, Refer, Kept, NEW r \in Requests,
           SignIn(r) \/ Rotate(r) \/ Revoke(r) \/ ResetPassword(r) \/ Erase(r) \/ Abort(r)
    PROVE  RequestRefers(r)'
<1> USE DEF TypeOK, Refer, RequestRefers, Kept
<1>0. ASSUME Finish(r) PROVE RequestRefers(r)'
  BY <1>0 DEF Finish, Idle
<1>1. ASSUME NEW u \in Users, Login(r, u) PROVE RequestRefers(r)'
  BY <1>1, ConstantsAssumption DEF Login, Idle
<1>2. ASSUME NEW c \in ChallengeIds, RedeemChallenge(r, c) PROVE RequestRefers(r)'
  BY <1>2, ConstantsAssumption DEF RedeemChallenge, Idle
<1>3. CASE ClaimChallenge(r)
  BY <1>3, <1>0, ConstantsAssumption, ProceedKeeps DEF ClaimChallenge, Steps
<1>4. CASE VerifyCode(r) \/ RereadUser(r)
  BY <1>4, <1>0, ProceedKeeps DEF VerifyCode, RereadUser, Steps
<1>5. CASE OpenSession(r)
  <2>1. PICK s \in SessionIds, n \in TokenIds \ issued :
            /\ session' = [session EXCEPT ![s] =
                   [st |-> "open", user |-> req[r].user, jti |-> n,
                    version |-> req[r].version, via |-> req[r].key,
                    late |-> Erasing(req[r].user)]]
            /\ issued' = issued \cup {n}
            /\ req' = [req EXCEPT ![r] = [@ EXCEPT !.pc = "mint", !.session = s, !.new = n]]
    BY <1>5 DEF OpenSession
  <2> QED BY <1>5, <2>1 DEF OpenSession, Request
<1>6. CASE MintFirst(r)
  BY <1>6, <1>0, ProceedKeeps DEF MintFirst, Steps
<1>7. ASSUME NEW t \in TokenIds, PresentToken(r, t) PROVE RequestRefers(r)'
  BY <1>7 DEF PresentToken, TokenExists, TokenRefers, SessionRefers, Idle
<1>8. CASE Claim(r)
  BY <1>8, <1>0, ProceedKeeps DEF Claim, Steps
<1>9. CASE ReadAccount(r)
  BY <1>9, <1>0, ProceedKeeps DEF ReadAccount, Steps
<1>10. CASE MintRotated(r)
  <2>1. ASSUME NEW n \in TokenIds \ issued,
               token' = [token EXCEPT ![n] = [st |-> "live", session |-> req[r].session,
                                              from |-> req[r].token]],
               issued' = issued \cup {n},
               req' = [req EXCEPT ![r] = [@ EXCEPT !.pc = "touch", !.new = n]]
        PROVE  RequestRefers(r)'
    <3>1. /\ req'[r].pc = "touch" /\ req'[r].new = n
          /\ req'[r].user = req[r].user /\ req'[r].session = req[r].session
          /\ req'[r].doomed = req[r].doomed
      BY <2>1 DEF Request
    <3>2. req[r].pc = "rotate" /\ req[r].doomed = {}
      BY <1>10 DEF MintRotated
    <3> QED BY <2>1, <3>1, <3>2
  <2> QED BY <1>10, <2>1, <1>0 DEF MintRotated
<1>11. CASE Touch(r)
  BY <1>11, <1>0, ProceedKeeps DEF Touch, Steps
<1>12. ASSUME NEW u \in Users, NEW t \in TokenIds, Logout(r, u, t) PROVE RequestRefers(r)'
  BY <1>12 DEF Logout, TokenExists, TokenRefers, Idle
<1>13. ASSUME NEW u \in Users, NEW s \in SessionIds, RevokeOwnSession(r, u, s)
       PROVE  RequestRefers(r)'
  BY <1>13 DEF RevokeOwnSession, Exists, Idle
<1>14. ASSUME NEW jtis, DenyNext(r, jtis), req[r].user \in Users, req[r].doomed = {}
       PROVE  RequestRefers(r)'
  <2>1. CASE jtis = {}
    BY <1>14, <2>1, <1>0 DEF DenyNext, Finish
  <2>2. CASE jtis # {}
    <3>1. /\ req'[r].pc = "deny"
          /\ req'[r].user = req[r].user /\ req'[r].doomed = req[r].doomed
      BY <1>14, <2>2 DEF DenyNext, Request
    <3> QED BY <1>14, <3>1
  <2> QED BY <2>1, <2>2
<1>15. CASE RevokeSession(r)
  BY <1>15, <1>0, <1>14 DEF RevokeSession
<1>16. CASE Deny(r)
  BY <1>16, <1>14 DEF Deny
<1>17. ASSUME NEW u \in Users, RequestReset(r, u) PROVE RequestRefers(r)'
  BY <1>17 DEF RequestReset, Idle
<1>18. ASSUME NEW k \in ResetIds, PresentReset(r, k) PROVE RequestRefers(r)'
  BY <1>18 DEF PresentReset, Idle
<1>19. CASE ClaimReset(r)
  BY <1>19, <1>0, ProceedKeeps DEF ClaimReset, Steps
<1>20. CASE SetPassword(r)
  BY <1>20, ProceedKeeps DEF SetPassword, Steps
<1>21. CASE RevokeAllSessions(r)
  BY <1>21, <1>14 DEF RevokeAllSessions
<1>22. CASE CreateChallenge(r) \/ Respond(r) \/ IssueReset(r) \/ CommitErasure(r) \/ Abort(r)
  BY <1>22, <1>0 DEF CreateChallenge, Respond, IssueReset, CommitErasure, Abort
<1>23. ASSUME NEW u \in Users, EraseRows(r, u) PROVE RequestRefers(r)'
  <2> DEFINE rows == {s \in SessionIds : Exists(s) /\ session[s].user = u}
                       \cup {k \in ResetIds : reset[k].st \in {"unused", "used"} /\ reset[k].user = u}
  <2>1. req'[r] = [Idle EXCEPT !.pc = "erase", !.user = u, !.doomed = rows]
    BY <1>23 DEF EraseRows
  <2>2. /\ \A s \in SessionIds : s \in rows => session[s].st # "none" /\ session[s].user = u
        /\ \A k \in ResetIds : k \in rows => reset[k].st # "none"
    BY ConstantsAssumption DEF Exists
  <2> HIDE DEF rows
  <2>3. req'[r].pc = "erase" /\ req'[r].user = u /\ req'[r].doomed = rows
    BY <2>1 DEF Idle
  <2> QED BY <1>23, <2>2, <2>3 DEF EraseRows, accounts
<1> QED BY <1>1, <1>2, <1>3, <1>4, <1>5, <1>6, <1>7, <1>8, <1>9, <1>10, <1>11, <1>12, <1>13,
           <1>15, <1>16, <1>17, <1>18, <1>19, <1>20, <1>21, <1>22, <1>23
        DEF SignIn, Rotate, Revoke, ResetPassword, Erase

\* Where a live token comes from: one of the two INSERTs.
Minted(r, t) ==
    /\ req[r].pc \in {"mint", "rotate"}
    /\ Exists(req[r].session)
    /\ t \in issued'
    /\ token[t].st = "none"
    /\ token' = [token EXCEPT ![t] =
           [st |-> "live", session |-> req[r].session,
            from |-> IF req[r].pc = "mint" THEN NULL ELSE req[r].token]]
    /\ req'[r].pc = IF req[r].pc = "mint" THEN "respond" ELSE "touch"
    /\ req'[r].new = t /\ req'[r].session = req[r].session
    /\ IF req[r].pc = "mint" THEN req[r].new = t ELSE t \notin issued
    /\ UNCHANGED <<user, session, delivered>>

LEMMA LiveIsMinted ==
    ASSUME TypeOK, Refer, FreshIds, [Next]_vars, NEW t \in TokenIds,
           \/ token[t].st = "none" /\ token'[t].st # "none"
           \/ ~Live(t) /\ Live(t)'
    PROVE  \E r \in Requests : Minted(r, t) /\ (MintFirst(r) \/ MintRotated(r))
<1> USE DEF TypeOK, Live, TokenExists, TokenRow
<1>1. CASE token' = token
  BY <1>1
<1>2. ASSUME NEW r \in Requests, MintFirst(r) PROVE Minted(r, t)
  <2>1. req[r].new = t /\ Exists(req[r].session) /\ Proceed(r, "respond")
    BY <1>2, <1>1 DEF MintFirst
  <2>2. req[r].pc = "mint" /\ t \in issued' /\ token[t].st = "none"
    BY <1>2, <2>1 DEF MintFirst, Refer, RequestRefers, FreshIds
  <2>3. req'[r].pc = "respond" /\ req'[r].new = t /\ req'[r].session = req[r].session
    BY <2>1, ProceedKeeps DEF Steps
  <2> QED BY <1>2, <2>1, <2>2, <2>3 DEF MintFirst, Minted, accounts
<1>3. ASSUME NEW r \in Requests, MintRotated(r) PROVE Minted(r, t)
  <2>1. PICK n \in TokenIds \ issued :
            /\ token' = [token EXCEPT ![n] = [st |-> "live", session |-> req[r].session,
                                              from |-> req[r].token]]
            /\ issued' = issued \cup {n}
            /\ req' = [req EXCEPT ![r] = [@ EXCEPT !.pc = "touch", !.new = n]]
    BY <1>3, <1>1 DEF MintRotated
  <2>2. n = t /\ token[t].st = "none"
    BY <2>1 DEF Refer, TokenRefers
  <2>3. CanRotate(r) /\ req[r].pc = "rotate"
    BY <1>3, <1>1 DEF MintRotated
  <2>4. req'[r].pc = "touch" /\ req'[r].new = t /\ req'[r].session = req[r].session
    BY <2>1, <2>2 DEF Request
  <2> QED BY <1>3, <2>1, <2>2, <2>3, <2>4 DEF MintRotated, CanRotate, Minted, accounts
<1>4. ASSUME NEW r \in Requests,
             Claim(r) \/ RevokeSession(r) \/ RevokeAllSessions(r) \/ CommitErasure(r)
      PROVE  FALSE
  BY <1>4 DEF Claim, RevokeSession, RevokeAllSessions, CommitErasure
<1>5. ASSUME NEW u \in Users, EnrollMfa(u) PROVE FALSE
  BY <1>1, <1>5 DEF EnrollMfa
<1>6. PICK r \in Requests : SignIn(r) \/ Rotate(r) \/ Revoke(r) \/ ResetPassword(r) \/ Erase(r) \/ Abort(r)
  BY <1>1, <1>5 DEF Next, vars
<1>7. MintFirst(r) \/ MintRotated(r)
  BY <1>1, <1>4, <1>6 DEF SignIn, Rotate, Revoke, ResetPassword, Erase, EraseRows, Login, CreateChallenge,
     RedeemChallenge, ClaimChallenge, VerifyCode, RereadUser, OpenSession, Respond, PresentToken,
     ReadAccount, Touch, Logout, RevokeOwnSession, Deny, RequestReset, IssueReset, PresentReset,
     ClaimReset, SetPassword, Abort
<1> QED BY <1>2, <1>3, <1>7

LEMMA SessionReferNext ==
    ASSUME TypeOK, Refer, Kept, [Next]_vars, NEW s \in SessionIds
    PROVE  SessionRefers(s)'
<1> USE DEF TypeOK, Refer, SessionRefers, SessionRow, Kept
<1>1. ASSUME NEW r \in Requests, OpenSession(r) PROVE SessionRefers(s)'
  BY <1>1 DEF OpenSession, RequestRefers
<1>2. ASSUME NEW r \in Requests, Touch(r) PROVE SessionRefers(s)'
  BY <1>2 DEF Touch, RequestRefers
<1>3. ASSUME NEW r \in Requests, RevokeSession(r) PROVE SessionRefers(s)'
  BY <1>3 DEF RevokeSession, Exists
<1>4. ASSUME NEW r \in Requests, RevokeAllSessions(r) PROVE SessionRefers(s)'
  BY <1>4 DEF RevokeAllSessions
<1>5. ASSUME NEW r \in Requests, CommitErasure(r) PROVE SessionRefers(s)'
  BY <1>5 DEF CommitErasure, RequestRefers
<1>6. CASE UNCHANGED session
  BY <1>6
<1> QED BY <1>1, <1>2, <1>3, <1>4, <1>5, <1>6
        DEF Next, vars, SignIn, Rotate, Revoke, ResetPassword, Erase, Login, CreateChallenge,
            RedeemChallenge, ClaimChallenge, VerifyCode, RereadUser, MintFirst, Respond,
            PresentToken, Claim, ReadAccount, MintRotated, Logout, RevokeOwnSession, Deny,
            RequestReset, IssueReset, PresentReset, ClaimReset, SetPassword, EraseRows, EnrollMfa, Abort

LEMMA ReferNext == ASSUME TypeOK, Refer, FreshIds, [Next]_vars PROVE Refer'
<1>1. Kept
  BY RowsKept
<1>2. TypeOK'
  BY TypeNext
<1>3. ASSUME NEW t \in TokenIds PROVE TokenRefers(t)'
  <2>1. CASE token[t].st # "none"
    BY <1>1, <2>1 DEF Refer, TokenRefers, Kept
  <2>2. CASE token[t].st = "none" /\ token'[t].st # "none"
    <3>1. PICK r \in Requests : Minted(r, t)
      BY <2>2, LiveIsMinted
    <3> QED BY <1>1, <3>1 DEF Minted, Refer, RequestRefers, TokenRefers, TypeOK, Kept
  <2> QED BY <2>1, <2>2 DEF TokenRefers
<1>4. ASSUME NEW s \in SessionIds PROVE SessionRefers(s)'
  BY <1>1, SessionReferNext
<1>5. ASSUME NEW k \in ResetIds, reset'[k].st # "none" PROVE reset'[k].user \in Users
  <2>1. ASSUME NEW r \in Requests, IssueReset(r) PROVE reset'[k].user \in Users
    BY <1>5, <2>1 DEF IssueReset, Refer, RequestRefers, TypeOK
  <2>2. ASSUME NEW r \in Requests, ClaimReset(r) PROVE reset'[k].user \in Users
    <3>1. req[r].key \in ResetIds
      BY <2>2 DEF ClaimReset, Refer, RequestRefers
    <3>2. /\ reset[k].st # "none"
          /\ reset'[k].user = reset[k].user
      BY <1>5, <2>2, <3>1 DEF ClaimReset, TypeOK, ResetRow
    <3> QED BY <3>2 DEF Refer
  <2>3. ASSUME NEW r \in Requests, CommitErasure(r) PROVE reset'[k].user \in Users
    BY <1>5, <2>3 DEF CommitErasure, Refer, RequestRefers, TypeOK, ResetRow
  <2>4. CASE UNCHANGED reset
    BY <1>5, <2>4 DEF Refer
  <2> QED BY <2>1, <2>2, <2>3, <2>4 DEF Next, vars, SignIn, Rotate, Revoke, ResetPassword, Erase,
             Login, CreateChallenge, RedeemChallenge, ClaimChallenge, VerifyCode, RereadUser,
             OpenSession, MintFirst, Respond, PresentToken, Claim, ReadAccount, MintRotated, Touch,
             Logout, RevokeOwnSession, RevokeSession, Deny, RequestReset, PresentReset,
             SetPassword, RevokeAllSessions, EraseRows, CommitErasure, EnrollMfa, Abort, accounts
<1>6. ASSUME NEW c \in ChallengeIds, challenge'[c].st # "none" PROVE challenge'[c].user \in Users
  <2>1. ASSUME NEW r \in Requests, CreateChallenge(r) PROVE challenge'[c].user \in Users
    BY <1>6, <2>1 DEF CreateChallenge, Refer, RequestRefers, TypeOK
  <2>2. ASSUME NEW r \in Requests, ClaimChallenge(r) PROVE challenge'[c].user \in Users
    BY <1>6, <2>2 DEF ClaimChallenge, Refer, RequestRefers, TypeOK, ChallengeRow
  <2>3. CASE UNCHANGED challenge
    BY <1>6, <2>3 DEF Refer
  <2> QED BY <2>1, <2>2, <2>3 DEF Next, vars, SignIn, Rotate, Revoke, ResetPassword, Erase,
             Login, RedeemChallenge, VerifyCode, RereadUser,
             OpenSession, MintFirst, Respond, PresentToken, Claim, ReadAccount, MintRotated, Touch,
             Logout, RevokeOwnSession, RevokeSession, Deny, RequestReset, IssueReset, PresentReset,
             ClaimReset, SetPassword, RevokeAllSessions, EraseRows, CommitErasure, EnrollMfa, Abort, accounts
<1>7. ASSUME NEW q \in Requests PROVE RequestRefers(q)'
  <2>1. CASE req'[q] = req[q]
    BY <1>1, <2>1 DEF Refer, RequestRefers, Kept, TypeOK
  <2>2. CASE req'[q] # req[q]
    <3>1. PICK r \in Requests :
              SignIn(r) \/ Rotate(r) \/ Revoke(r) \/ ResetPassword(r) \/ Erase(r) \/ Abort(r)
      BY <2>2 DEF Next, vars, EnrollMfa
    <3>2. q = r
      BY <2>2, <3>1, Alone
    <3> QED BY <1>1, <3>1, <3>2, OwnRefers
  <2> QED BY <2>1, <2>2
<1> QED BY <1>3, <1>4, <1>5, <1>6, <1>7 DEF Refer

-----------------------------------------------------------------------------
(* Token ids stay fresh.                                                    *)

\* A request that carries a new token id drew it now or carried it already.
LEMMA IdDrawn ==
    ASSUME TypeOK, [Next]_vars, NEW r \in Requests, req'[r] # req[r],
           req'[r].pc \in {"mint", "touch", "respond"}
    PROVE  \/ /\ req[r].pc \in {"mint", "touch"}
              /\ req'[r].new = req[r].new
              /\ req'[r].pc = "respond"
           \/ /\ req'[r].new \in TokenIds \ issued
              /\ req'[r].pc = "mint" => token' = token
<1> USE DEF TypeOK
<1>0. ~Finish(r)
  BY DEF Finish, Idle
<1>1. CASE req'[r].pc = "mint"
  <2>1. OpenSession(r)
    BY <1>1, Arrivals DEF Arrived
  <2> QED BY <2>1 DEF OpenSession, Request
<1>2. CASE req'[r].pc = "touch"
  <2>1. MintRotated(r)
    BY <1>2, Arrivals DEF Arrived
  <2>2. PICK n \in TokenIds \ issued :
            req' = [req EXCEPT ![r] = [@ EXCEPT !.pc = "touch", !.new = n]]
    BY <1>0, <2>1 DEF MintRotated
  <2> QED BY <1>2, <2>2 DEF Request
<1>3. CASE req'[r].pc = "respond"
  <2>1. MintFirst(r) \/ Touch(r)
    BY <1>3, Arrivals DEF Arrived
  <2> QED BY <1>0, <1>3, <2>1, ProceedKeeps DEF MintFirst, Touch, Steps
<1> QED BY <1>1, <1>2, <1>3

LEMMA FreshNext == ASSUME TypeOK, Refer, FreshIds, [Next]_vars PROVE FreshIds'
<1>1. ASSUME NEW r \in Requests, req'[r].pc = "mint" PROVE token'[req'[r].new].st = "none"
  <2>1. CASE req'[r] = req[r]
    <3> DEFINE t == req[r].new
    <3>1. t \in TokenIds /\ t \in issued /\ token[t].st = "none"
      BY <1>1, <2>1 DEF Refer, RequestRefers, FreshIds, TypeOK
    <3>2. SUFFICES ASSUME token'[t].st # "none" PROVE FALSE
      BY <2>1
    <3>3. PICK q \in Requests : Minted(q, t)
      BY <3>1, <3>2, LiveIsMinted
    <3>4. q # r /\ req[q].pc = "mint" /\ req[q].new = req[r].new
      BY <1>1, <2>1, <3>1, <3>3 DEF Minted
    <3> QED BY <1>1, <2>1, <3>4 DEF FreshIds
  <2>2. CASE req'[r] # req[r]
    <3>1. req'[r].new \in TokenIds \ issued /\ token' = token
      BY <1>1, <2>2, IdDrawn
    <3> QED BY <3>1 DEF Refer, TokenRefers
  <2> QED BY <2>1, <2>2
<1>2. ASSUME NEW q \in Requests, NEW r \in Requests, q # r,
             req'[q].pc \in {"mint", "touch", "respond"},
             req'[r].pc \in {"mint", "touch", "respond"}
      PROVE  req'[q].new # req'[r].new
  <2>1. CASE req'[q] = req[q] /\ req'[r] = req[r]
    BY <1>2, <2>1 DEF FreshIds
  <2>2. ASSUME NEW a \in {q, r}, NEW b \in {q, r}, a # b, req'[a] # req[a]
        PROVE  req'[a].new # req'[b].new
    <3>1. req'[b] = req[b]
      BY <1>2, <2>2, OneMoves
    <3>2. req[b].pc \in {"mint", "touch", "respond"} /\ req[b].new \in issued
      BY <1>2, <2>2, <3>1 DEF Refer, RequestRefers
    <3> QED BY <1>2, <2>2, <3>1, <3>2, IdDrawn DEF FreshIds
  <2> QED BY <1>2, <2>1, <2>2
<1> QED BY <1>1, <1>2 DEF FreshIds

-----------------------------------------------------------------------------
(* One live token.                                                          *)

\* A request comes to hold a session by opening it, or by claiming the live
\* token of it, which that step revokes.
LEMMA HoldIsTaken ==
    ASSUME TypeOK, Refer, [Next]_vars, NEW r \in Requests, NEW s \in SessionIds,
           ~Holds(r, s), Holds(r, s)'
    PROVE  \/ /\ req[r].pc = "open" /\ req'[r].session = s
              /\ session[s].st = "none" /\ session'[s].st = "open"
              /\ \A n \in SessionIds \ {s} : session'[n] = session[n]
              /\ token' = token
           \/ \E t \in TokenIds :
                /\ req[r].pc = "claim" /\ t = req[r].token
                /\ Live(t) /\ token[t].session = s
                /\ token' = [token EXCEPT ![t].st = "revoked"]
                /\ session' = session
<1> USE DEF TypeOK, Holds
<1>0. req'[r] # req[r] /\ ~Finish(r)
  BY DEF Finish, Idle
<1>1. CASE req'[r].pc = "mint"
  <2>1. OpenSession(r)
    BY <1>0, <1>1, Arrivals DEF Arrived
  <2>2. PICK n \in SessionIds, j \in TokenIds \ issued :
            /\ session[n].st = "none"
            /\ session' = [session EXCEPT ![n] =
                   [st |-> "open", user |-> req[r].user, jti |-> j,
                    version |-> req[r].version, via |-> req[r].key,
                    late |-> Erasing(req[r].user)]]
            /\ req' = [req EXCEPT ![r] = [@ EXCEPT !.pc = "mint", !.session = n, !.new = j]]
    BY <2>1 DEF OpenSession
  <2>3. s = n /\ req'[r].session = s
    BY <2>2 DEF Request
  <2> QED BY <2>1, <2>2, <2>3 DEF OpenSession
<1>2. CASE req'[r].pc = "account"
  <2>1. Claim(r)
    BY <1>0, <1>2, Arrivals DEF Arrived
  <2>2. Live(req[r].token) /\ Proceed(r, "account")
        /\ token' = [token EXCEPT ![req[r].token].st = "revoked"]
    BY <1>2, <2>1, ProceedKeeps DEF Claim, Steps
  <2>3. req[r].session = s
    BY <2>2, ProceedKeeps DEF Steps
  <2> QED BY <2>1, <2>2, <2>3 DEF Claim, Refer, RequestRefers
<1>3. CASE req'[r].pc = "rotate"
  <2>1. ReadAccount(r)
    BY <1>0, <1>3, Arrivals DEF Arrived
  <2> QED BY <1>0, <2>1, ProceedKeeps DEF ReadAccount, Steps
<1> QED BY <1>1, <1>2, <1>3

LEMMA OneLiveNext ==
    ASSUME TypeOK, Refer, FreshIds, OneLiveToken, [Next]_vars
    PROVE  OneLiveToken'
<1> USE DEF Live
<1>k. Kept /\ TypeOK'
  BY RowsKept, TypeNext
\* Two live tokens: the one that is not new was there when the other was minted
\* by a request that held the session.
<1>1. ASSUME NEW s \in SessionIds, NEW t1 \in TokenIds, NEW t2 \in TokenIds,
             Live(t1)', Live(t2)', token'[t1].session = s, token'[t2].session = s
      PROVE  t1 = t2
  <2>1. CASE Live(t1) /\ Live(t2)
    <3>1. token[t1].session = s /\ token[t2].session = s
      BY <1>k, <1>1, <2>1 DEF Kept
    <3> QED BY <2>1, <3>1 DEF OneLiveToken
  <2>2. ASSUME NEW a \in {t1, t2}, NEW b \in {t1, t2}, a # b, ~Live(a) PROVE FALSE
    <3>1. PICK r \in Requests : Minted(r, a)
      BY <1>1, <2>2, LiveIsMinted
    <3>2. token'[b] = token[b] /\ Live(b) /\ token[b].session = s
      BY <1>1, <2>2, <3>1 DEF Minted, TypeOK
    <3>3. Holds(r, s)
      BY <1>1, <2>2, <3>1 DEF Minted, Holds, TypeOK
    <3> QED BY <3>2, <3>3 DEF OneLiveToken
  <2> QED BY <2>1, <2>2
<1>2. ASSUME NEW s \in SessionIds, NEW t \in TokenIds, NEW r \in Requests,
             Live(t)', token'[t].session = s, Holds(r, s)'
      PROVE  FALSE
  <2>1. CASE ~Live(t)
    <3>1. PICK q \in Requests : Minted(q, t)
      BY <1>2, <2>1, LiveIsMinted
    <3>2. Holds(q, s) /\ ~Holds(q, s)' /\ req'[q] # req[q]
      BY <1>2, <3>1 DEF Minted, Holds, TypeOK
    <3>3. Holds(r, s) /\ q # r
      BY <1>2, <3>2, OneMoves DEF Holds
    <3> QED BY <3>2, <3>3 DEF OneLiveToken
  <2>2. CASE Live(t)
    <3>1. token[t].session = s
      BY <1>k, <1>2, <2>2 DEF Kept
    <3>2. ~Holds(r, s)
      BY <2>2, <3>1 DEF OneLiveToken
    <3>3. session[s].st # "none"
      BY <2>2, <3>1 DEF Refer, TokenRefers
    <3>4. PICK a \in TokenIds : /\ Live(a) /\ token[a].session = s
                               /\ token' = [token EXCEPT ![a].st = "revoked"]
      BY <1>2, <3>2, <3>3, HoldIsTaken
    <3>5. a = t
      BY <2>2, <3>1, <3>4 DEF OneLiveToken
    <3> QED BY <1>2, <3>4, <3>5 DEF TypeOK, TokenRow
  <2> QED BY <2>1, <2>2
<1>3. ASSUME NEW s \in SessionIds, NEW r1 \in Requests, NEW r2 \in Requests,
             Holds(r1, s)', Holds(r2, s)'
      PROVE  r1 = r2
  <2>1. CASE Holds(r1, s) /\ Holds(r2, s)
    BY <2>1 DEF OneLiveToken
  <2>2. ASSUME NEW a \in {r1, r2}, NEW b \in {r1, r2}, a # b, ~Holds(a, s) PROVE FALSE
    <3>1. req'[b] = req[b] /\ Holds(b, s)
      BY <1>3, <2>2, OneMoves DEF Holds
    <3>2. session[s].st # "none"
      BY <3>1 DEF Holds, Refer, RequestRefers
    <3>3. \E t \in TokenIds : Live(t) /\ token[t].session = s
      BY <1>3, <2>2, <3>2, HoldIsTaken
    <3> QED BY <3>1, <3>3 DEF OneLiveToken
  <2> QED BY <2>1, <2>2
<1> QED BY <1>1, <1>2, <1>3 DEF OneLiveToken, Holds

-----------------------------------------------------------------------------
(* The access token a revocation will name.                                 *)

\* Clients present what was delivered to them, so a token that is not delivered
\* yet cannot be exchanged: until then the session's jti is its minter's to set.
Follows(r) ==
    /\ req[r].pc \in {"claim", "account", "rotate"} => req[r].token \in delivered
    /\ req[r].pc = "mint" =>
         req[r].new \notin delivered /\ session[req[r].session].jti = req[r].new
    /\ req[r].pc = "touch" =>
         /\ req[r].new \notin delivered
         /\ token[req[r].new].st # "none"
         /\ token[req[r].new].session = req[r].session
         /\ \A q \in Requests : ~Holds(q, req[r].session)
         /\ \A t \in TokenIds : Live(t) /\ token[t].session = req[r].session => t = req[r].new
    /\ req[r].pc = "respond" =>
         /\ token[req[r].new].st # "none"
         /\ Live(req[r].new) => session[token[req[r].new].session].jti = req[r].new

JtiFollows == \A r \in Requests : Follows(r)

LEMMA JtiIsSet ==
    ASSUME TypeOK, Refer, [Next]_vars, NEW s \in SessionIds, session'[s].jti # session[s].jti
    PROVE  \/ session[s].st = "none"
           \/ \E r \in Requests : /\ req[r].pc = "touch" /\ req[r].session = s
                                 /\ UNCHANGED <<token, delivered>>
<1> USE DEF TypeOK, SessionRow
<1>1. ASSUME NEW r \in Requests, OpenSession(r) PROVE session[s].st = "none"
  BY <1>1 DEF OpenSession
<1>2. ASSUME NEW r \in Requests, Touch(r) PROVE req[r].pc = "touch" /\ req[r].session = s
  BY <1>2 DEF Touch
<1>3. ASSUME NEW r \in Requests, RevokeSession(r) \/ RevokeAllSessions(r) PROVE FALSE
  <2>1. CASE RevokeSession(r)
    BY <2>1 DEF RevokeSession
  <2>2. CASE RevokeAllSessions(r)
    BY <2>2 DEF RevokeAllSessions
  <2> QED BY <1>3, <2>1, <2>2
<1>4. ASSUME NEW r \in Requests, CommitErasure(r) PROVE FALSE
  BY <1>4 DEF CommitErasure
<1>5. ~UNCHANGED session
  OBVIOUS
<1>6. \E r \in Requests : OpenSession(r) \/ Touch(r) \/ RevokeSession(r) \/ RevokeAllSessions(r)
  BY <1>4, <1>5
     DEF Next, vars, SignIn, Rotate, Revoke, ResetPassword, Erase, Login, CreateChallenge,
         RedeemChallenge, ClaimChallenge, VerifyCode, RereadUser, MintFirst, Respond,
         PresentToken, Claim, ReadAccount, MintRotated, Logout, RevokeOwnSession, Deny,
         RequestReset, IssueReset, PresentReset, ClaimReset, SetPassword, EraseRows, EnrollMfa, Abort
<1> QED BY <1>1, <1>2, <1>3, <1>6 DEF Touch

LEMMA DeliveredByRespond ==
    ASSUME TypeOK, [Next]_vars
    PROVE  \/ delivered' = delivered
           \/ \E r \in Requests : /\ req[r].pc = "respond"
                                 /\ delivered' = delivered \cup {req[r].new}
                                 /\ UNCHANGED <<session, token>>
<1>1. ASSUME NEW r \in Requests, Respond(r)
      PROVE  /\ req[r].pc = "respond"
             /\ delivered' = delivered \cup {req[r].new}
             /\ UNCHANGED <<session, token>>
  BY <1>1 DEF Respond
<1>2. delivered' = delivered \/ \E r \in Requests : Respond(r)
  BY DEF Next, vars, SignIn, Rotate, Revoke, ResetPassword, Erase, Login, CreateChallenge,
         RedeemChallenge, ClaimChallenge, VerifyCode, RereadUser, OpenSession, MintFirst,
         PresentToken, Claim, ReadAccount, MintRotated, Touch, Logout, RevokeOwnSession,
         RevokeSession, Deny, RequestReset, IssueReset, PresentReset, ClaimReset, SetPassword,
         RevokeAllSessions, EraseRows, CommitErasure, EnrollMfa, Abort
<1> QED BY <1>1, <1>2

\* A request that does not move keeps what it relied on.
LEMMA FollowsKept ==
    ASSUME TypeOK, Refer, FreshIds, OneLiveToken, JtiFollows, [Next]_vars,
           NEW r \in Requests, req'[r] = req[r]
    PROVE  Follows(r)'
<1> USE DEF Live
<1>k. Kept
  BY RowsKept
<1>1. req'[r].pc \in {"claim", "account", "rotate"} => req'[r].token \in delivered'
  BY DeliveredByRespond DEF JtiFollows, Follows
<1>2. req[r].pc \in {"mint", "touch"} => req[r].new \notin delivered'
  BY DeliveredByRespond DEF JtiFollows, Follows, FreshIds
<1>3. CASE req[r].pc = "mint"
  <2>1. Holds(r, req[r].session) /\ req[r].session \in SessionIds
        /\ session[req[r].session].st # "none"
    BY <1>3 DEF Holds, Refer, RequestRefers
  <2>2. session'[req[r].session].jti = session[req[r].session].jti
    BY <2>1, JtiIsSet DEF JtiFollows, Follows
  <2> QED BY <1>2, <1>3, <2>2 DEF JtiFollows, Follows
<1>4. CASE req[r].pc = "touch"
  <2> DEFINE s == req[r].session
             n == req[r].new
  <2>1. s \in SessionIds /\ session[s].st # "none" /\ n \in TokenIds
    BY <1>4 DEF Refer, RequestRefers, TypeOK
  <2>2. token'[n].st # "none" /\ token'[n].session = s
    BY <1>k, <1>4, <2>1 DEF JtiFollows, Follows, Kept
  <2>3. ASSUME NEW q \in Requests, Holds(q, s)' PROVE FALSE
    <3>1. ~Holds(q, s)
      BY <1>4 DEF JtiFollows, Follows
    <3>2. PICK t \in TokenIds : /\ req[q].pc = "claim" /\ t = req[q].token
                               /\ Live(t) /\ token[t].session = s
      BY <2>1, <2>3, <3>1, HoldIsTaken
    <3> QED BY <1>4, <3>2 DEF JtiFollows, Follows
  <2>4. ASSUME NEW t \in TokenIds, Live(t)', token'[t].session = s PROVE t = n
    <3>1. CASE Live(t)
      BY <1>k, <1>4, <2>4, <3>1 DEF JtiFollows, Follows, Kept
    <3>2. CASE ~Live(t)
      <4>1. PICK q \in Requests : Minted(q, t)
        BY <2>4, <3>2, LiveIsMinted
      <4>2. Holds(q, s)
        BY <2>4, <4>1 DEF Minted, Holds, TypeOK
      <4> QED BY <1>4, <4>2 DEF JtiFollows, Follows
    <3> QED BY <3>1, <3>2
  <2> QED BY <1>2, <1>4, <2>2, <2>3, <2>4 DEF Follows
<1>5. CASE req[r].pc = "respond"
  <2> DEFINE n == req[r].new
             s == token[n].session
  <2>1. n \in TokenIds /\ n \in issued /\ token[n].st # "none"
    BY <1>5 DEF Refer, RequestRefers, TypeOK, JtiFollows, Follows
  <2>2. s \in SessionIds /\ session[s].st # "none"
    BY <2>1 DEF Refer, TokenRefers
  <2>3. token'[n].st # "none" /\ token'[n].session = s
    BY <1>k, <2>1 DEF Kept
  <2>4. ASSUME Live(n)' PROVE session'[s].jti = n
    <3>1. Live(n)
      <4>1. SUFFICES ASSUME ~Live(n) PROVE FALSE
        OBVIOUS
      <4>2. PICK q \in Requests : Minted(q, n)
        BY <2>1, <2>4, <4>1, LiveIsMinted
      <4> QED BY <2>1, <4>2 DEF Minted
    <3>2. session[s].jti = n
      BY <1>5, <3>1 DEF JtiFollows, Follows
    <3>3. SUFFICES ASSUME session'[s].jti # session[s].jti PROVE FALSE
      BY <3>2
    <3>4. PICK q \in Requests : req[q].pc = "touch" /\ req[q].session = s
      BY <2>2, <3>3, JtiIsSet
    <3>5. req[q].new = n /\ q # r
      BY <1>5, <2>1, <3>1, <3>4 DEF JtiFollows, Follows
    <3> QED BY <1>5, <3>4, <3>5 DEF FreshIds
  <2> QED BY <1>5, <2>3, <2>4 DEF Follows
<1> QED BY <1>1, <1>3, <1>4, <1>5 DEF Follows

\* The request that moves.
LEMMA FollowsOwn ==
    ASSUME TypeOK, Refer, FreshIds, OneLiveToken, JtiFollows, [Next]_vars,
           NEW r \in Requests, req'[r] # req[r]
    PROVE  Follows(r)'
<1> USE DEF Live
<1>0. ~Finish(r) \/ req'[r].pc = "idle"
  BY DEF Finish, TypeOK, Idle
<1>1. CASE req'[r].pc \in {"claim", "account", "rotate"}
  <2>1. CASE req'[r].pc = "claim"
    <3>1. PICK t \in TokenIds : PresentToken(r, t)
      BY <2>1, Arrivals DEF Arrived
    <3> QED BY <2>1, <3>1 DEF PresentToken, Follows, TypeOK, Idle
  <2>2. CASE req'[r].pc \in {"account", "rotate"}
    <3>1. Claim(r) \/ ReadAccount(r)
      BY <2>2, Arrivals DEF Arrived
    <3> QED BY <2>2, <1>0, <3>1, ProceedKeeps
            DEF Claim, ReadAccount, Follows, JtiFollows, TypeOK, Steps
  <2> QED BY <1>1, <2>1, <2>2
<1>2. CASE req'[r].pc = "mint"
  <2>1. OpenSession(r)
    BY <1>2, Arrivals DEF Arrived
  <2>2. PICK s \in SessionIds, n \in TokenIds \ issued :
            /\ session' = [session EXCEPT ![s] =
                   [st |-> "open", user |-> req[r].user, jti |-> n,
                    version |-> req[r].version, via |-> req[r].key,
                    late |-> Erasing(req[r].user)]]
            /\ req' = [req EXCEPT ![r] = [@ EXCEPT !.pc = "mint", !.session = s, !.new = n]]
    BY <2>1 DEF OpenSession
  <2>3. req'[r].session = s /\ req'[r].new = n
    BY <2>2 DEF TypeOK, Request
  <2> QED BY <1>2, <2>1, <2>2, <2>3 DEF OpenSession, Follows, TypeOK
<1>3. CASE req'[r].pc = "touch"
  <2>1. MintRotated(r) /\ ~Finish(r)
    BY <1>0, <1>3, Arrivals DEF Arrived
  <2>2. PICK n \in TokenIds \ issued :
            /\ token' = [token EXCEPT ![n] = [st |-> "live", session |-> req[r].session,
                                              from |-> req[r].token]]
            /\ req' = [req EXCEPT ![r] = [@ EXCEPT !.pc = "touch", !.new = n]]
    BY <2>1 DEF MintRotated
  <2> DEFINE s == req[r].session
  <2>3. req'[r].session = s /\ req'[r].new = n
    BY <2>2 DEF TypeOK, Request
  <2>4. Holds(r, s) /\ s \in SessionIds
    BY <2>1 DEF MintRotated, Holds, Refer, RequestRefers
  <2>5. n \notin delivered'
    BY <2>1, <2>2 DEF MintRotated, TypeOK
  <2>6. token'[n].st = "live" /\ token'[n].session = s
    BY <2>2 DEF TypeOK
  <2>7. ASSUME NEW q \in Requests, Holds(q, s)' PROVE FALSE
    <3>1. q # r
      BY <1>3, <2>7 DEF Holds
    <3>2. Holds(q, s)
      BY <2>3, <2>7, <3>1, OneMoves DEF Holds
    <3> QED BY <2>4, <3>1, <3>2 DEF OneLiveToken
  <2>8. ASSUME NEW t \in TokenIds, Live(t)', token'[t].session = s PROVE t = n
    <3>1. SUFFICES ASSUME t # n PROVE FALSE
      OBVIOUS
    <3>2. Live(t) /\ token[t].session = s
      BY <2>2, <2>8, <3>1 DEF TypeOK
    <3> QED BY <2>4, <3>2 DEF OneLiveToken
  <2> QED BY <1>3, <2>3, <2>5, <2>6, <2>7, <2>8 DEF Follows
<1>4. CASE req'[r].pc = "respond"
  <2>1. CASE MintFirst(r)
    <3>1. /\ req[r].pc = "mint" /\ Proceed(r, "respond")
          /\ token' = [token EXCEPT ![req[r].new] =
                 [st |-> "live", session |-> req[r].session, from |-> NULL]]
          /\ UNCHANGED session
      BY <1>0, <1>4, <2>1 DEF MintFirst
    <3>2. req'[r].new = req[r].new
      BY <3>1, ProceedKeeps DEF TypeOK, Steps
    <3>3. req[r].new \in TokenIds
      BY <3>1 DEF Refer, RequestRefers, TypeOK
    <3> QED BY <1>4, <3>1, <3>2, <3>3 DEF Follows, JtiFollows, TypeOK
  <2>2. CASE Touch(r)
    <3>1. /\ req[r].pc = "touch" /\ Proceed(r, "respond")
          /\ session' = [session EXCEPT ![req[r].session].jti = req[r].new]
          /\ UNCHANGED token
      BY <1>0, <1>4, <2>2 DEF Touch
    <3>2. req'[r].new = req[r].new
      BY <3>1, ProceedKeeps DEF TypeOK, Steps
    <3>3. req[r].session \in SessionIds
      BY <3>1 DEF Refer, RequestRefers
    <3> QED BY <1>4, <3>1, <3>2, <3>3 DEF Follows, JtiFollows, TypeOK, SessionRow
  <2> QED BY <1>4, <2>1, <2>2, Arrivals DEF Arrived
<1> QED BY <1>1, <1>2, <1>3, <1>4 DEF Follows

LEMMA CurrentJtiNext ==
    ASSUME TypeOK, Refer, FreshIds, JtiFollows, CurrentJtiInUse, [Next]_vars
    PROVE  CurrentJtiInUse'
<1> USE DEF Live
<1>1. SUFFICES ASSUME NEW t \in delivered', Live(t)' PROVE session'[token'[t].session].jti = t
  BY DEF CurrentJtiInUse
<1>2. Kept
  BY RowsKept
<1>3. CASE t \notin delivered
  <2>1. PICK r \in Requests : /\ req[r].pc = "respond" /\ t = req[r].new
                             /\ UNCHANGED <<session, token>>
    BY <1>3, DeliveredByRespond
  <2> QED BY <1>1, <2>1 DEF JtiFollows, Follows
<1>4. CASE t \in delivered
  <2> DEFINE s == token[t].session
  <2>1. t \in TokenIds /\ t \in issued
    BY <1>4 DEF TypeOK
  <2>2. Live(t)
    <3>1. SUFFICES ASSUME ~Live(t) PROVE FALSE
      OBVIOUS
    <3>2. PICK r \in Requests : Minted(r, t)
      BY <1>1, <2>1, <3>1, LiveIsMinted
    <3> QED BY <1>4, <2>1, <3>2 DEF Minted, JtiFollows, Follows
  <2>3. s \in SessionIds /\ session[s].st # "none" /\ token'[t].session = s
    BY <1>2, <2>1, <2>2 DEF Refer, TokenRefers, Kept
  <2>4. SUFFICES ASSUME session'[s].jti # session[s].jti PROVE FALSE
    BY <1>4, <2>2, <2>3 DEF CurrentJtiInUse
  <2>5. PICK r \in Requests : req[r].pc = "touch" /\ req[r].session = s
    BY <2>3, <2>4, JtiIsSet
  <2> QED BY <1>4, <2>1, <2>2, <2>5 DEF JtiFollows, Follows
<1> QED BY <1>3, <1>4

-----------------------------------------------------------------------------
(* A refresh token that exists has its session's row: the foreign key when  *)
(* it is stored, and an erasure deletes both.                               *)

TokenHasSession == \A t \in TokenIds : TokenExists(t) => Exists(token[t].session)

LEMMA SessionGoesByErasure ==
    ASSUME TypeOK, Refer, [Next]_vars, NEW s \in SessionIds, Exists(s), ~Exists(s)'
    PROVE  \E r \in Requests : CommitErasure(r) /\ s \in req[r].doomed
<1> USE DEF TypeOK, SessionRow, Exists
<1>1. ASSUME NEW r \in Requests, OpenSession(r) PROVE FALSE
  BY <1>1 DEF OpenSession
<1>2. ASSUME NEW r \in Requests, Touch(r) PROVE FALSE
  BY <1>2 DEF Touch
<1>3. ASSUME NEW r \in Requests, RevokeSession(r) PROVE FALSE
  BY <1>3 DEF RevokeSession
<1>4. ASSUME NEW r \in Requests, RevokeAllSessions(r) PROVE FALSE
  BY <1>4 DEF RevokeAllSessions
<1>5. ASSUME NEW r \in Requests, CommitErasure(r) PROVE s \in req[r].doomed
  BY <1>5 DEF CommitErasure
<1>6. ~UNCHANGED session
  OBVIOUS
<1> QED BY <1>1, <1>2, <1>3, <1>4, <1>5, <1>6
        DEF Next, vars, SignIn, Rotate, Revoke, ResetPassword, Erase, Login, CreateChallenge,
            RedeemChallenge, ClaimChallenge, VerifyCode, RereadUser, MintFirst, Respond,
            PresentToken, Claim, ReadAccount, MintRotated, Logout, RevokeOwnSession, Deny,
            RequestReset, IssueReset, PresentReset, ClaimReset, SetPassword, EraseRows, EnrollMfa,
            Abort

LEMMA TokenStillThere ==
    ASSUME TypeOK, Refer, FreshIds, [Next]_vars,
           NEW t \in TokenIds, token[t].st # "none", TokenExists(t)'
    PROVE  TokenExists(t) /\ token'[t].from = token[t].from
<1> USE DEF TypeOK, TokenRow, TokenExists, Live
<1>1. ASSUME NEW r \in Requests, MintFirst(r) PROVE token'[t] = token[t]
  BY <1>1 DEF MintFirst, FreshIds
<1>2. ASSUME NEW r \in Requests, MintRotated(r) PROVE token'[t] = token[t]
  BY <1>2 DEF MintRotated, Refer, TokenRefers
<1>3. ASSUME NEW r \in Requests, Claim(r) \/ RevokeSession(r) \/ RevokeAllSessions(r)
      PROVE  TokenExists(t) /\ token'[t].from = token[t].from
  BY <1>3 DEF Claim, RevokeSession, RevokeAllSessions
<1>4. ASSUME NEW r \in Requests, CommitErasure(r)
      PROVE  TokenExists(t) /\ token'[t].from = token[t].from
  BY <1>4 DEF CommitErasure
<1>5. CASE UNCHANGED token
  BY <1>5
<1> QED BY <1>1, <1>2, <1>3, <1>4, <1>5
        DEF Next, vars, SignIn, Rotate, Revoke, ResetPassword, Erase, Login, CreateChallenge,
            RedeemChallenge, ClaimChallenge, VerifyCode, RereadUser, OpenSession, Respond,
            PresentToken, ReadAccount, Touch, Logout, RevokeOwnSession, Deny, RequestReset,
            IssueReset, PresentReset, ClaimReset, SetPassword, EraseRows, EnrollMfa, Abort

LEMMA TokenHasSessionNext ==
    ASSUME TypeOK, Refer, FreshIds, TokenHasSession, [Next]_vars
    PROVE  TokenHasSession'
<1>1. SUFFICES ASSUME NEW t \in TokenIds, TokenExists(t)' PROVE Exists(token[t].session)'
  BY DEF TokenHasSession
<1>2. CASE token[t].st = "none"
  <2>1. PICK r \in Requests : Minted(r, t)
    BY <1>1, <1>2, LiveIsMinted DEF TokenExists
  <2>2. token'[t].session = req[r].session
    BY <2>1 DEF Minted, TypeOK
  <2> QED BY <2>1, <2>2 DEF Minted, Exists
<1>3. CASE token[t].st # "none"
  <2>1. TokenExists(t)
    BY <1>1, <1>3, TokenStillThere
  <2>2. PICK s \in SessionIds : s = token[t].session /\ Exists(s) /\ token'[t].session = s
    BY <1>3, <2>1, RowsKept DEF Refer, TokenRefers, TokenHasSession, Kept
  <2>3. ASSUME NEW r \in Requests, CommitErasure(r), s \in req[r].doomed PROVE FALSE
    BY <1>1, <2>1, <2>2, <2>3 DEF CommitErasure, TokenExists, TypeOK, TokenRow
  <2>4. Exists(s)'
    BY <2>2, <2>3, SessionGoesByErasure
  <2> QED BY <2>2, <2>4 DEF Exists
<1> QED BY <1>2, <1>3

-----------------------------------------------------------------------------
(* Erasure and ownership.                                                   *)

\* A request that rotates or revokes a session does so for its owner, and one
\* that is about to rotate saw the owner ACTIVE: an erasure since then has
\* deleted the session, unless it was opened too late.  An erasure has every
\* session of the account that is not late.
ActsForOwner(r) ==
    /\ req[r].pc \in {"claim", "account", "rotate", "revoke"} =>
         req[r].user = session[req[r].session].user
    /\ req[r].pc = "rotate" /\ Exists(req[r].session) =>
         Active(session[req[r].session].user) \/ session[req[r].session].late
    /\ req[r].pc = "erase" =>
         \A s \in SessionIds :
            Exists(s) /\ session[s].user = req[r].user /\ ~session[s].late => s \in req[r].doomed

ActForOwners == \A r \in Requests : ActsForOwner(r)

LEMMA StatusChanges ==
    ASSUME TypeOK, [Next]_vars, NEW u \in Users
    PROVE  \/ user'[u].status = user[u].status
           \/ \E r \in Requests : CommitErasure(r) /\ req[r].user = u
<1> USE DEF TypeOK, UserRow
<1>1. ASSUME NEW r \in Requests, SetPassword(r) PROVE user'[u].status = user[u].status
  <2>1. user' = [user EXCEPT ![req[r].user] = [user[req[r].user] EXCEPT !.hasPassword = TRUE,
                                               !.version = user[req[r].user].version + 1]]
    BY <1>1 DEF SetPassword
  <2> QED BY <2>1
<1>2. ASSUME NEW v \in Users, EnrollMfa(v) PROVE user'[u].status = user[u].status
  BY <1>2 DEF EnrollMfa
<1>3. ASSUME NEW r \in Requests, CommitErasure(r), req[r].user # u
      PROVE  user'[u].status = user[u].status
  BY <1>3 DEF CommitErasure
<1>4. \/ UNCHANGED user
      \/ \E r \in Requests : SetPassword(r) \/ CommitErasure(r)
      \/ \E v \in Users : EnrollMfa(v)
  BY DEF Next, vars, SignIn, Rotate, Revoke, ResetPassword, Erase, Login, CreateChallenge,
         RedeemChallenge, ClaimChallenge, VerifyCode, RereadUser, OpenSession, MintFirst, Respond,
         PresentToken, Claim, ReadAccount, MintRotated, Touch, Logout, RevokeOwnSession,
         RevokeSession, Deny, RequestReset, IssueReset, PresentReset, ClaimReset,
         RevokeAllSessions, EraseRows, Abort, accounts
<1> QED BY <1>1, <1>2, <1>3, <1>4

\* Nothing that an erasure deletes comes back, and an erasure takes every
\* session that is not late along with the account.
LEMMA SessionStillThere ==
    ASSUME TypeOK, Refer, ActForOwners, [Next]_vars,
           NEW s \in SessionIds, session[s].st # "none", Exists(s)'
    PROVE  /\ Exists(s)
           /\ session[s].late \/ user'[session[s].user].status = user[session[s].user].status
<1> USE DEF TypeOK, SessionRow, Exists
<1>1. Exists(s)
  <2>1. ASSUME NEW r \in Requests,
               OpenSession(r) \/ Touch(r) \/ RevokeSession(r) \/ RevokeAllSessions(r)
        PROVE  Exists(s)
    BY <2>1 DEF OpenSession, Touch, RevokeSession, RevokeAllSessions
  <2>2. ASSUME NEW r \in Requests, CommitErasure(r) PROVE Exists(s)
    BY <2>2 DEF CommitErasure
  <2>3. CASE UNCHANGED session
    BY <2>3
  <2> QED BY <2>1, <2>2, <2>3
          DEF Next, vars, SignIn, Rotate, Revoke, ResetPassword, Erase, Login, CreateChallenge,
              RedeemChallenge, ClaimChallenge, VerifyCode, RereadUser, MintFirst, Respond,
              PresentToken, Claim, ReadAccount, MintRotated, Logout, RevokeOwnSession, Deny,
              RequestReset, IssueReset, PresentReset, ClaimReset, SetPassword, EraseRows,
              EnrollMfa, Abort
<1>2. session[s].user \in Users
  BY DEF Refer, SessionRefers
<1>3. ASSUME NEW r \in Requests, CommitErasure(r), req[r].user = session[s].user, ~session[s].late
      PROVE  FALSE
  <2>1. s \in req[r].doomed
    BY <1>1, <1>3 DEF ActForOwners, ActsForOwner, CommitErasure
  <2> QED BY <1>3, <2>1 DEF CommitErasure
<1> QED BY <1>1, <1>2, <1>3, StatusChanges

LEMMA OpenedLate ==
    ASSUME TypeOK, Refer, [Next]_vars, NEW s \in SessionIds,
           session[s].st = "none", session'[s].st # "none"
    PROVE  \E u \in Users : session'[s].user = u /\ session'[s].late = Erasing(u)
<1> USE DEF TypeOK, SessionRow
<1>1. ASSUME NEW r \in Requests, OpenSession(r)
      PROVE  session'[s].user = req[r].user /\ session'[s].late = Erasing(req[r].user)
             /\ req[r].user \in Users
  BY <1>1 DEF OpenSession, Refer, RequestRefers
<1>2. ASSUME NEW r \in Requests, Touch(r) PROVE FALSE
  BY <1>2 DEF Touch
<1>3. ASSUME NEW r \in Requests, RevokeSession(r) PROVE FALSE
  BY <1>3 DEF RevokeSession, Exists
<1>4. ASSUME NEW r \in Requests, RevokeAllSessions(r) PROVE FALSE
  BY <1>4 DEF RevokeAllSessions
<1>5. ASSUME NEW r \in Requests, CommitErasure(r) PROVE FALSE
  BY <1>5 DEF CommitErasure, Refer, RequestRefers
<1>6. ~UNCHANGED session
  OBVIOUS
<1>7. \E r \in Requests : OpenSession(r)
  BY <1>2, <1>3, <1>4, <1>5, <1>6
        DEF Next, vars, SignIn, Rotate, Revoke, ResetPassword, Erase, Login, CreateChallenge,
            RedeemChallenge, ClaimChallenge, VerifyCode, RereadUser, MintFirst, Respond,
            PresentToken, Claim, ReadAccount, MintRotated, Logout, RevokeOwnSession, Deny,
            RequestReset, IssueReset, PresentReset, ClaimReset, SetPassword, EraseRows, EnrollMfa,
            Abort
<1> QED BY <1>1, <1>7

LEMMA ActForOwnersNext ==
    ASSUME TypeOK, Refer, FreshIds, ActForOwners, [Next]_vars
    PROVE  ActForOwners'
<1> SUFFICES ASSUME NEW r \in Requests PROVE ActsForOwner(r)'
  BY DEF ActForOwners
<1>k. Kept
  BY RowsKept
<1>1. CASE req'[r] = req[r]
  <2>1. req[r].pc \in {"claim", "account", "rotate", "revoke"} =>
          req[r].session \in SessionIds /\ session[req[r].session].st # "none"
    BY DEF Refer, RequestRefers
  <2>2. ASSUME req[r].pc = "erase", NEW s \in SessionIds,
               Exists(s)', session'[s].user = req[r].user, ~session'[s].late
        PROVE  s \in req[r].doomed
    <3>1. CASE session[s].st = "none"
      <4>1. PICK u \in Users : session'[s].user = u /\ session'[s].late = Erasing(u)
        BY <2>2, <3>1, OpenedLate DEF Exists
      <4> QED BY <2>2, <4>1 DEF Erasing
    <3>2. CASE session[s].st # "none"
      <4>1. Exists(s)
        BY <2>2, <3>2, SessionStillThere
      <4> QED BY <1>k, <2>2, <3>2, <4>1 DEF Kept, ActForOwners, ActsForOwner
    <3> QED BY <3>1, <3>2
  <2>3. /\ req'[r].pc \in {"claim", "account", "rotate", "revoke"} =>
             req'[r].user = session'[req'[r].session].user
        /\ req'[r].pc = "rotate" /\ Exists(req[r].session)' =>
             \/ user'[session'[req'[r].session].user].status = "ACTIVE"
             \/ session'[req'[r].session].late
    BY <1>k, <1>1, <2>1, SessionStillThere DEF ActForOwners, ActsForOwner, Kept, Active
  <2> QED BY <1>1, <2>2, <2>3 DEF ActsForOwner, Active
<1>2. CASE req'[r] # req[r]
  <2>0. Finish(r) => req'[r].pc = "idle"
    BY DEF Finish, TypeOK, Idle
  <2>1. CASE req'[r].pc = "claim"
    <3>1. PICK t \in TokenIds : PresentToken(r, t)
      BY <1>2, <2>1, Arrivals DEF Arrived
    <3> QED BY <2>1, <3>1 DEF PresentToken, ActsForOwner, TypeOK, Idle
  <2>2. CASE req'[r].pc = "account"
    <3>1. Claim(r) /\ Proceed(r, "account")
      BY <1>2, <2>2, Arrivals, ProceedKeeps DEF Arrived, Claim, TypeOK, Steps
    <3> QED BY <2>2, <3>1, ProceedKeeps DEF Claim, ActForOwners, ActsForOwner, TypeOK, Steps
  <2>3. CASE req'[r].pc = "rotate"
    <3>1. ReadAccount(r) /\ Proceed(r, "rotate") /\ Active(req[r].user)
      BY <1>2, <2>0, <2>3, Arrivals DEF Arrived, ReadAccount
    <3> QED BY <2>3, <3>1, ProceedKeeps
            DEF ReadAccount, ActForOwners, ActsForOwner, TypeOK, Steps, accounts, Active
  <2>4. CASE req'[r].pc = "revoke"
    <3>1. CASE Claim(r)
      <4>1. Proceed(r, "revoke")
        BY <2>4, <3>1, ProceedKeeps DEF Claim, TypeOK, Steps
      <4> QED BY <2>4, <3>1, <4>1, ProceedKeeps
              DEF Claim, ActForOwners, ActsForOwner, TypeOK, Steps
    <3>2. ASSUME NEW u \in Users, NEW t \in TokenIds, Logout(r, u, t) PROVE ActsForOwner(r)'
      BY <2>4, <3>2 DEF Logout, ActsForOwner, TypeOK, Idle
    <3>3. ASSUME NEW u \in Users, NEW s \in SessionIds, RevokeOwnSession(r, u, s)
          PROVE  ActsForOwner(r)'
      BY <2>4, <3>3 DEF RevokeOwnSession, ActsForOwner, TypeOK, Idle
    <3> QED BY <1>2, <2>4, <3>1, <3>2, <3>3, Arrivals DEF Arrived
  <2>5. CASE req'[r].pc = "erase"
    <3>1. PICK u \in Users : EraseRows(r, u)
      BY <1>2, <2>5, Arrivals DEF Arrived
    <3>2. /\ req'[r].user = u
          /\ \A s \in SessionIds : Exists(s) /\ session[s].user = u => s \in req'[r].doomed
      BY <3>1 DEF EraseRows, TypeOK, Idle
    <3>3. UNCHANGED session
      BY <3>1 DEF EraseRows
    <3> QED BY <2>5, <3>2, <3>3 DEF ActsForOwner, Exists
  <2> QED BY <2>1, <2>2, <2>3, <2>4, <2>5 DEF ActsForOwner
<1> QED BY <1>1, <1>2

LEMMA ErasedNext ==
    ASSUME TypeOK, Refer, FreshIds, TokenHasSession, TokenHasSession', ActForOwners,
           ErasedRotatesOnlyLate, [Next]_vars
    PROVE  ErasedRotatesOnlyLate'
<1>1. SUFFICES ASSUME NEW t \in TokenIds, TokenExists(t)', token'[t].from # NULL
               PROVE  \/ user'[session'[token'[t].session].user].status = "ACTIVE"
                      \/ session'[token'[t].session].late
  BY DEF ErasedRotatesOnlyLate, Active
<1>2. Kept
  BY RowsKept
<1>3. CASE token[t].st = "none"
  <2>1. PICK r \in Requests : Minted(r, t)
    BY <1>1, <1>3, LiveIsMinted DEF TokenExists
  <2>2. token'[t].session = req[r].session /\ req[r].pc = "rotate" /\ Exists(req[r].session)
    BY <1>1, <2>1 DEF Minted, TypeOK
  <2>3. Active(session[req[r].session].user) \/ session[req[r].session].late
    BY <2>2 DEF ActForOwners, ActsForOwner
  <2> QED BY <2>1, <2>2, <2>3 DEF Minted, Active
<1>4. CASE token[t].st # "none"
  <2> DEFINE s == token[t].session
  <2>1. TokenExists(t) /\ token[t].from # NULL
    BY <1>1, <1>4, TokenStillThere
  <2>2. s \in SessionIds /\ session[s].st # "none" /\ session[s].user \in Users
    BY <1>4 DEF Refer, TokenRefers, SessionRefers
  <2>3. /\ token'[t].session = s
        /\ session'[s].user = session[s].user /\ session'[s].late = session[s].late
    BY <1>2, <1>4, <2>2 DEF Kept
  <2>4. user[session[s].user].status = "ACTIVE" \/ session[s].late
    BY <2>1 DEF ErasedRotatesOnlyLate, Active
  <2>5. session'[s].st \in {"open", "revoked"}
    BY <1>1, <2>3 DEF TokenHasSession, Exists
  <2>6. session[s].late \/ user'[session[s].user].status = user[session[s].user].status
    BY <2>2, <2>5, SessionStillThere DEF Exists
  <2> QED BY <2>3, <2>4, <2>6
<1> QED BY <1>3, <1>4

-----------------------------------------------------------------------------
(* Only owners revoke.                                                      *)

LEMMA OwnerRevokesNext ==
    ASSUME TypeOK, Refer, ActForOwners, [Next]_vars, NEW s \in SessionIds,
           session[s].st = "open", session'[s].st = "revoked"
    PROVE  \E r \in Requests : /\ req[r].pc \in {"revoke", "revokeAll"}
                               /\ req[r].user = session[s].user
                               /\ req'[r].pc # req[r].pc
<1> USE DEF TypeOK, SessionRow
<1>0. ASSUME NEW r \in Requests, NEW jtis, DenyNext(r, jtis) PROVE req'[r].pc \in {"deny", "idle"}
  BY <1>0 DEF DenyNext, Idle, Request
<1>1. ASSUME NEW r \in Requests, RevokeSession(r)
      PROVE  /\ req[r].pc = "revoke" /\ req[r].user = session[s].user
             /\ req'[r].pc # req[r].pc
  <2>1. req[r].pc = "revoke" /\ req[r].session = s
    BY <1>1 DEF RevokeSession
  <2>2. req'[r].pc \in {"deny", "idle"}
    BY <1>0, <1>1 DEF RevokeSession, Exists
  <2> QED BY <2>1, <2>2 DEF ActForOwners, ActsForOwner
<1>2. ASSUME NEW r \in Requests, RevokeAllSessions(r)
      PROVE  /\ req[r].pc = "revokeAll" /\ req[r].user = session[s].user
             /\ req'[r].pc # req[r].pc
  <2>1. req[r].pc = "revokeAll" /\ req[r].user = session[s].user
    BY <1>2 DEF RevokeAllSessions
  <2>2. req'[r].pc \in {"deny", "idle"}
    BY <1>0, <1>2 DEF RevokeAllSessions
  <2> QED BY <2>1, <2>2
<1>3. ASSUME NEW r \in Requests, OpenSession(r) \/ Touch(r) PROVE FALSE
  <2>1. CASE OpenSession(r)
    BY <2>1 DEF OpenSession
  <2>2. CASE Touch(r)
    BY <2>2 DEF Touch
  <2> QED BY <1>3, <2>1, <2>2
<1>4. ASSUME NEW r \in Requests, CommitErasure(r) PROVE FALSE
  BY <1>4 DEF CommitErasure
<1>5. ~UNCHANGED session
  OBVIOUS
<1>6. \E r \in Requests : RevokeSession(r) \/ RevokeAllSessions(r)
  BY <1>3, <1>4, <1>5
     DEF Next, vars, SignIn, Rotate, Revoke, ResetPassword, Erase, Login, CreateChallenge,
         RedeemChallenge, ClaimChallenge, VerifyCode, RereadUser, MintFirst, Respond,
         PresentToken, Claim, ReadAccount, MintRotated, Logout, RevokeOwnSession, Deny,
         RequestReset, IssueReset, PresentReset, ClaimReset, SetPassword, EraseRows, EnrollMfa, Abort
<1> QED BY <1>1, <1>2, <1>6

-----------------------------------------------------------------------------
(* One session per challenge.                                               *)

\* A request that won the claim of challenge c and may yet open a session.
Won(r, c) == req[r].pc \in {"verify", "reread", "open"} /\ req[r].key = c

\* A challenge leads to one request or one session, and to neither before it
\* is used.
ChallengeSpent ==
    \A c \in ChallengeIds :
        /\ \A r \in Requests : Won(r, c) =>
             /\ challenge[c].st = "used"
             /\ \A q \in Requests : Won(q, c) => q = r
             /\ \A s \in SessionIds : session[s].via # c
        /\ \A s \in SessionIds : session[s].via = c => challenge[c].st = "used"

LEMMA ViaIsSet ==
    ASSUME TypeOK, [Next]_vars, NEW s \in SessionIds, session'[s].via # session[s].via
    PROVE  \E r \in Requests :
             /\ req[r].pc = "open" /\ req'[r].pc = "mint"
             /\ session'[s].via = req[r].key
             /\ \A n \in SessionIds \ {s} : session'[n] = session[n]
<1> USE DEF TypeOK, SessionRow
<1>1. ASSUME NEW r \in Requests, OpenSession(r)
      PROVE  /\ req[r].pc = "open" /\ req'[r].pc = "mint"
             /\ session'[s].via = req[r].key
             /\ \A n \in SessionIds \ {s} : session'[n] = session[n]
  <2>1. req'[r].pc = "mint"
    BY <1>1 DEF OpenSession, Request
  <2> QED BY <1>1, <2>1 DEF OpenSession
<1>2. ASSUME NEW r \in Requests, Touch(r) \/ RevokeSession(r) \/ RevokeAllSessions(r) PROVE FALSE
  <2>1. CASE Touch(r)
    BY <2>1 DEF Touch
  <2>2. CASE RevokeSession(r)
    BY <2>2 DEF RevokeSession
  <2>3. CASE RevokeAllSessions(r)
    BY <2>3 DEF RevokeAllSessions
  <2> QED BY <1>2, <2>1, <2>2, <2>3
<1>3. ASSUME NEW r \in Requests, CommitErasure(r) PROVE FALSE
  BY <1>3 DEF CommitErasure
<1>4. ~UNCHANGED session
  OBVIOUS
<1>5. \E r \in Requests : OpenSession(r)
  BY <1>2, <1>3, <1>4
     DEF Next, vars, SignIn, Rotate, Revoke, ResetPassword, Erase, Login, CreateChallenge,
         RedeemChallenge, ClaimChallenge, VerifyCode, RereadUser, MintFirst, Respond,
         PresentToken, Claim, ReadAccount, MintRotated, Logout, RevokeOwnSession, Deny,
         RequestReset, IssueReset, PresentReset, ClaimReset, SetPassword, EraseRows, EnrollMfa, Abort
<1> QED BY <1>1, <1>5

LEMMA UsedStaysUsed ==
    ASSUME TypeOK, [Next]_vars, NEW c \in ChallengeIds, challenge[c].st = "used"
    PROVE  challenge'[c].st = "used"
<1>1. ASSUME NEW r \in Requests, CreateChallenge(r) PROVE challenge'[c].st = "used"
  BY <1>1 DEF CreateChallenge, TypeOK
<1>2. ASSUME NEW r \in Requests, ClaimChallenge(r) PROVE challenge'[c].st = "used"
  BY <1>2 DEF ClaimChallenge, TypeOK, ChallengeRow
<1>3. UNCHANGED challenge \/ \E r \in Requests : CreateChallenge(r) \/ ClaimChallenge(r)
  BY DEF Next, vars, SignIn, Rotate, Revoke, ResetPassword, Erase, Login, RedeemChallenge, VerifyCode,
         RereadUser, OpenSession, MintFirst, Respond, PresentToken, Claim, ReadAccount,
         MintRotated, Touch, Logout, RevokeOwnSession, RevokeSession, Deny, RequestReset,
         IssueReset, PresentReset, ClaimReset, SetPassword, RevokeAllSessions, EraseRows, CommitErasure, EnrollMfa, Abort, accounts
<1> QED BY <1>1, <1>2, <1>3

LEMMA WonByClaim ==
    ASSUME TypeOK, [Next]_vars, NEW r \in Requests, NEW c \in ChallengeIds, ~Won(r, c), Won(r, c)'
    PROVE  challenge[c].st = "unused" /\ challenge'[c].st = "used" /\ UNCHANGED session
<1> USE DEF TypeOK, Won
<1>0. req'[r] # req[r] /\ ~Finish(r)
  BY DEF Finish, Idle
<1>1. CASE req'[r].pc = "verify"
  <2>1. ClaimChallenge(r)
    BY <1>0, <1>1, Arrivals DEF Arrived
  <2>2. /\ challenge[req[r].key].st = "unused" /\ Proceed(r, "verify")
        /\ challenge' = [challenge EXCEPT ![req[r].key].st = "used"]
    BY <1>0, <2>1 DEF ClaimChallenge
  <2>3. req[r].key = c
    BY <2>2, ProceedKeeps DEF Steps
  <2> QED BY <2>1, <2>2, <2>3 DEF ClaimChallenge, ChallengeRow
<1>2. CASE req'[r].pc \in {"reread", "open"}
  <2>1. VerifyCode(r) \/ RereadUser(r) \/ \E u \in Users : Login(r, u)
    BY <1>0, <1>2, Arrivals DEF Arrived
  <2>2. CASE VerifyCode(r) \/ RereadUser(r)
    BY <1>0, <2>2, ProceedKeeps DEF VerifyCode, RereadUser, Steps
  <2>3. ASSUME NEW u \in Users, Login(r, u) PROVE FALSE
    <3>1. req'[r].key = NULL
      BY <2>3 DEF Login, Idle
    <3> QED BY <3>1, ConstantsAssumption
  <2> QED BY <2>1, <2>2, <2>3
<1> QED BY <1>1, <1>2

LEMMA ChallengeSpentNext ==
    ASSUME TypeOK, ChallengeSpent, [Next]_vars
    PROVE  ChallengeSpent'
<1> SUFFICES ASSUME NEW c \in ChallengeIds
             PROVE  /\ \A r \in Requests : Won(r, c)' =>
                         /\ challenge'[c].st = "used"
                         /\ \A q \in Requests : Won(q, c)' => q = r
                         /\ \A s \in SessionIds : session'[s].via # c
                    /\ \A s \in SessionIds : session'[s].via = c => challenge'[c].st = "used"
  BY DEF ChallengeSpent, Won
<1>1. ASSUME NEW r \in Requests, Won(r, c)'
      PROVE  /\ challenge'[c].st = "used"
             /\ \A q \in Requests : Won(q, c)' => q = r
             /\ \A s \in SessionIds : session'[s].via # c
  <2>1. CASE Won(r, c)
    <3>1. challenge[c].st = "used"
      BY <2>1 DEF ChallengeSpent
    <3>2. ASSUME NEW q \in Requests, Won(q, c)' PROVE q = r
      BY <2>1, <3>1, <3>2, WonByClaim DEF ChallengeSpent
    <3>3. ASSUME NEW s \in SessionIds, session'[s].via = c PROVE FALSE
      <4>1. PICK q \in Requests : /\ req[q].pc = "open" /\ req'[q].pc = "mint"
                                 /\ session'[s].via = req[q].key
        BY <2>1, <3>3, ViaIsSet DEF ChallengeSpent
      <4>2. q = r
        BY <2>1, <3>3, <4>1 DEF ChallengeSpent, Won
      <4> QED BY <1>1, <4>1, <4>2 DEF Won
    <3> QED BY <3>1, <3>2, <3>3, UsedStaysUsed
  <2>2. CASE ~Won(r, c)
    <3>1. challenge[c].st = "unused" /\ challenge'[c].st = "used" /\ UNCHANGED session
      BY <1>1, <2>2, WonByClaim
    <3>2. ASSUME NEW q \in Requests, Won(q, c)', q # r PROVE FALSE
      <4>1. Won(q, c)
        BY <1>1, <2>2, <3>2, OneMoves DEF Won
      <4> QED BY <3>1, <4>1 DEF ChallengeSpent
    <3> QED BY <3>1, <3>2 DEF ChallengeSpent
  <2> QED BY <2>1, <2>2
<1>2. ASSUME NEW s \in SessionIds, session'[s].via = c PROVE challenge'[c].st = "used"
  <2>1. CASE session[s].via = c
    BY <2>1, UsedStaysUsed DEF ChallengeSpent
  <2>2. CASE session[s].via # c
    <3>1. PICK q \in Requests : req[q].pc = "open" /\ session'[s].via = req[q].key
      BY <1>2, <2>2, ViaIsSet
    <3> QED BY <1>2, <3>1, UsedStaysUsed DEF ChallengeSpent, Won
  <2> QED BY <2>1, <2>2
<1> QED BY <1>1, <1>2

LEMMA ChallengeOpensOneNext ==
    ASSUME TypeOK, TypeOK', ChallengeSpent, ChallengeOpensOneSession, [Next]_vars
    PROVE  ChallengeOpensOneSession'
<1>1. SUFFICES ASSUME NEW s1 \in SessionIds, NEW s2 \in SessionIds, s1 # s2,
                      session'[s1].via # NULL, session'[s1].via = session'[s2].via
               PROVE  FALSE
  BY DEF ChallengeOpensOneSession
<1>2. CASE session'[s1].via = session[s1].via /\ session'[s2].via = session[s2].via
  BY <1>1, <1>2 DEF ChallengeOpensOneSession
<1>3. ASSUME NEW a \in {s1, s2}, NEW b \in {s1, s2}, a # b, session'[a].via # session[a].via
      PROVE  FALSE
  <2>1. PICK r \in Requests : /\ req[r].pc = "open" /\ session'[a].via = req[r].key
                             /\ \A n \in SessionIds \ {a} : session'[n] = session[n]
    BY <1>3, ViaIsSet
  <2>2. req[r].key \in ChallengeIds
    BY <1>1, <1>3, <2>1 DEF TypeOK, SessionRow
  <2>3. Won(r, req[r].key) /\ session[b].via = req[r].key
    BY <1>1, <1>3, <2>1 DEF Won
  <2> QED BY <2>2, <2>3, <1>3 DEF ChallengeSpent
<1> QED BY <1>1, <1>2, <1>3

-----------------------------------------------------------------------------
(* One change of the password per reset token.                              *)

\* A request that claimed reset token k and has yet to store the password.
Spending(r, k) == req[r].pc = "password" /\ req[r].key = k

\* The used reset tokens of an account, and those that have done their work:
\* the password is stored, or the request stopped before it.
Used(u)    == {k \in ResetIds : reset[k].st = "used" /\ reset[k].user = u}
Applied(u) == {k \in Used(u) : \A r \in Requests : ~Spending(r, k)}

\* A request confirms a reset of its own account, is alone in having claimed
\* its token, and an erasure deletes reset tokens of its own account only.
ResetHeld(r) ==
    /\ req[r].pc \in {"claimReset", "password"} =>
         /\ req[r].key \in ResetIds
         /\ reset[req[r].key].st # "none"
         /\ reset[req[r].key].user = req[r].user
    /\ \A k \in ResetIds : Spending(r, k) =>
         /\ reset[k].st # "unused"
         /\ \A q \in Requests : Spending(q, k) => q = r
    /\ \A k \in ResetIds : k \in req[r].doomed => reset[k].user = req[r].user

ResetsHeld == \A r \in Requests : ResetHeld(r)

DeletedWithAccount == \A k \in ResetIds : reset[k].st = "deleted" => ~Active(reset[k].user)

\* No bound on the number of reset tokens is assumed: only finitely many have
\* been used.
PasswordBacked ==
    \A u \in Users : Active(u) =>
        /\ IsFiniteSet(Used(u))
        /\ user[u].version <= Cardinality(Applied(u))

LEMMA ResetMoves ==
    ASSUME TypeOK, [Next]_vars, NEW k \in ResetIds, reset'[k] # reset[k]
    PROVE  \E r \in Requests :
             \/ IssueReset(r) /\ reset[k].st = "none" /\ reset'[k].st = "unused"
             \/ /\ ClaimReset(r) /\ req[r].key = k /\ reset[k].st = "unused"
                /\ reset'[k].st = "used" /\ reset'[k].user = reset[k].user
                /\ Proceed(r, "password")
             \/ /\ CommitErasure(r) /\ k \in req[r].doomed
                /\ reset'[k].st = "deleted" /\ reset'[k].user = reset[k].user
<1> USE DEF TypeOK, ResetRow
<1>1. PICK r \in Requests : IssueReset(r) \/ ClaimReset(r) \/ CommitErasure(r)
  BY DEF Next, vars, SignIn, Rotate, Revoke, ResetPassword, Erase, Login, CreateChallenge,
         RedeemChallenge, ClaimChallenge, VerifyCode, RereadUser, OpenSession, MintFirst, Respond,
         PresentToken, Claim, ReadAccount, MintRotated, Touch, Logout, RevokeOwnSession,
         RevokeSession, Deny, RequestReset, PresentReset, SetPassword, RevokeAllSessions,
         EraseRows, EnrollMfa, Abort, accounts
<1>2. CASE IssueReset(r)
  <2>1. PICK j \in ResetIds : /\ reset[j].st = "none"
                              /\ reset' = [reset EXCEPT ![j] = [st |-> "unused", user |-> req[r].user]]
    BY <1>2 DEF IssueReset
  <2>2. j = k
    BY <2>1
  <2> QED BY <1>2, <2>1, <2>2
<1>3. CASE ClaimReset(r)
  <2>1. /\ reset[req[r].key].st = "unused" /\ Proceed(r, "password")
        /\ reset' = [reset EXCEPT ![req[r].key].st = "used"]
    BY <1>3 DEF ClaimReset
  <2>2. req[r].key = k
    BY <2>1
  <2> QED BY <1>3, <2>1, <2>2
<1>4. CASE CommitErasure(r)
  BY <1>4 DEF CommitErasure
<1> QED BY <1>1, <1>2, <1>3, <1>4

LEMMA SpendingBegins ==
    ASSUME TypeOK, [Next]_vars, NEW r \in Requests, NEW k \in ResetIds,
           ~Spending(r, k), Spending(r, k)'
    PROVE  /\ ClaimReset(r) /\ req[r].key = k
           /\ reset[k].st = "unused" /\ reset'[k].st = "used" /\ UNCHANGED user
<1> USE DEF TypeOK, Spending
<1>1. ClaimReset(r) /\ ~Finish(r)
  BY Arrivals DEF Arrived, Finish, Idle
<1>2. Proceed(r, "password") /\ reset' = [reset EXCEPT ![req[r].key].st = "used"]
      /\ reset[req[r].key].st = "unused"
  BY <1>1 DEF ClaimReset
<1>3. req[r].key = k
  BY <1>2, ProceedKeeps DEF Steps
<1> QED BY <1>1, <1>2, <1>3 DEF ClaimReset, ResetRow

\* Only SetPassword moves the version, by one, of its own account.
LEMMA VersionMoves ==
    ASSUME TypeOK, Refer, [Next]_vars, NEW u \in Users, user'[u].version # user[u].version
    PROVE  \E r \in Requests :
             /\ req[r].pc = "password" /\ req[r].user = u /\ req'[r].pc = "revokeAll"
             /\ user'[u].version = user[u].version + 1 /\ UNCHANGED reset
<1> USE DEF TypeOK, UserRow
<1>1. ASSUME NEW r \in Requests, CommitErasure(r) PROVE FALSE
  BY <1>1 DEF CommitErasure
<1>2. ASSUME NEW v \in Users, EnrollMfa(v) PROVE FALSE
  BY <1>2 DEF EnrollMfa
<1>3. PICK r \in Requests : SetPassword(r)
  BY <1>1, <1>2
     DEF Next, vars, SignIn, Rotate, Revoke, ResetPassword, Erase, Login, CreateChallenge,
         RedeemChallenge, ClaimChallenge, VerifyCode, RereadUser, OpenSession, MintFirst, Respond,
         PresentToken, Claim, ReadAccount, MintRotated, Touch, Logout, RevokeOwnSession,
         RevokeSession, Deny, RequestReset, IssueReset, PresentReset, ClaimReset,
         RevokeAllSessions, EraseRows, Abort, accounts
<1>4. req'[r].pc = "revokeAll"
  BY <1>3, ProceedKeeps DEF SetPassword, Steps
<1>5. req[r].user \in Users
  BY <1>3 DEF SetPassword, Refer, RequestRefers
<1>6. user' = [user EXCEPT ![req[r].user] =
                  [user[req[r].user] EXCEPT !.hasPassword = TRUE,
                                            !.version = user[req[r].user].version + 1]]
  BY <1>3 DEF SetPassword
<1>7. req[r].user = u
  BY <1>5, <1>6
<1> QED BY <1>3, <1>4, <1>6, <1>7 DEF SetPassword

LEMMA ResetHeldOthers ==
    ASSUME TypeOK, ResetsHeld, Kept, [Next]_vars,
           NEW k \in ResetIds, reset[k].st # "none"
    PROVE  reset'[k].user = reset[k].user /\ (reset[k].st # "unused" => reset'[k].st # "unused")
BY ResetMoves

LEMMA ResetsHeldNext ==
    ASSUME TypeOK, Refer, FreshIds, ResetsHeld, [Next]_vars
    PROVE  ResetsHeld'
<1> SUFFICES ASSUME NEW r \in Requests PROVE ResetHeld(r)'
  BY DEF ResetsHeld
<1> USE DEF TypeOK
<1>0. ResetHeld(r) /\ Kept
  BY RowsKept DEF ResetsHeld
<1>1. ASSUME req'[r].pc \in {"claimReset", "password"}
      PROVE  /\ req'[r].key \in ResetIds
             /\ reset'[req'[r].key].st # "none"
             /\ reset'[req'[r].key].user = req'[r].user
  <2>1. CASE req'[r] = req[r]
    BY <1>0, <1>1, <2>1, ResetHeldOthers DEF ResetHeld, Kept
  <2>2. ASSUME NEW k \in ResetIds, PresentReset(r, k)
        PROVE  /\ req'[r].key \in ResetIds
               /\ reset'[req'[r].key].st # "none"
               /\ reset'[req'[r].key].user = req'[r].user
    <3>1. req'[r].key = k /\ req'[r].user = reset[k].user /\ reset[k].st = "unused" /\ UNCHANGED reset
      BY <2>2 DEF PresentReset, Idle, accounts
    <3> QED BY <3>1
  <2>3. CASE ClaimReset(r) /\ req'[r] # req[r]
    <3>2. Proceed(r, "password") /\ req[r].pc = "claimReset"
      BY <1>1, <2>3 DEF ClaimReset, Finish, Idle
    <3>3. req'[r].key = req[r].key /\ req'[r].user = req[r].user
      BY <3>2, ProceedKeeps DEF Steps
    <3> QED BY <1>0, <3>2, <3>3, ResetHeldOthers DEF ResetHeld, Kept
  <2> QED BY <1>1, <2>1, <2>2, <2>3, Arrivals DEF Arrived
<1>2. ASSUME NEW k \in ResetIds, Spending(r, k)'
      PROVE  reset'[k].st # "unused" /\ \A q \in Requests : Spending(q, k)' => q = r
  <2>1. CASE Spending(r, k)
    <3>1. reset[k].st \notin {"none", "unused"} /\ \A q \in Requests : Spending(q, k) => q = r
      BY <1>0, <2>1 DEF ResetHeld, Spending
    <3>2. ASSUME NEW q \in Requests, Spending(q, k)', q # r PROVE FALSE
      BY <3>1, <3>2, SpendingBegins
    <3> QED BY <1>0, <3>1, <3>2, ResetHeldOthers
  <2>2. CASE ~Spending(r, k)
    <3>1. reset[k].st = "unused" /\ reset'[k].st = "used"
      BY <1>2, <2>2, SpendingBegins
    <3>2. ASSUME NEW q \in Requests, Spending(q, k)', q # r PROVE FALSE
      <4>1. req'[r] # req[r]
        BY <1>2, <2>2 DEF Spending
      <4>2. Spending(q, k)
        BY <3>2, <4>1, OneMoves DEF Spending
      <4> QED BY <3>1, <4>2 DEF ResetsHeld, ResetHeld
    <3> QED BY <3>1, <3>2
  <2> QED BY <2>1, <2>2
<1>3. ASSUME NEW k \in ResetIds, k \in req'[r].doomed PROVE reset'[k].user = req'[r].user
  <2>1. CASE req'[r] = req[r]
    <3>1. reset[k].st # "none" /\ reset[k].user = req[r].user
      BY <1>0, <1>3, <2>1 DEF ResetHeld, Refer, RequestRefers
    <3> QED BY <1>0, <2>1, <3>1, ResetHeldOthers
  <2>2. CASE req'[r] # req[r]
    <3>1. Refer'
      BY <1>0, ReferNext
    <3>2. req'[r].pc = "erase"
      BY <1>3, <3>1 DEF Refer, RequestRefers
    <3>3. PICK u \in Users : EraseRows(r, u)
      BY <2>2, <3>2, Arrivals DEF Arrived
    <3> QED BY <1>3, <3>3, ConstantsAssumption DEF EraseRows, Idle, accounts
  <2> QED BY <2>1, <2>2
<1> QED BY <1>1, <1>2, <1>3 DEF ResetHeld

LEMMA DeletedWithAccountNext ==
    ASSUME TypeOK, Refer, FreshIds, ResetsHeld, DeletedWithAccount, [Next]_vars
    PROVE  DeletedWithAccount'
<1> SUFFICES ASSUME NEW k \in ResetIds, reset'[k].st = "deleted" PROVE user'[reset'[k].user].status # "ACTIVE"
  BY DEF DeletedWithAccount, Active
<1> USE DEF TypeOK
<1>0. reset[k].st # "none" => reset[k].user \in Users
  BY DEF Refer
<1>1. CASE reset'[k] = reset[k]
  <2>1. user[reset[k].user].status # "ACTIVE"
    BY <1>1 DEF DeletedWithAccount, Active
  <2>2. ASSUME NEW r \in Requests, CommitErasure(r), req[r].user = reset[k].user
        PROVE  user'[reset[k].user].status = "DELETED"
    BY <1>0, <1>1, <2>2 DEF CommitErasure, UserRow
  <2> QED BY <1>0, <1>1, <2>1, <2>2, StatusChanges
<1>2. CASE reset'[k] # reset[k]
  <2>1. PICK r \in Requests : /\ CommitErasure(r) /\ k \in req[r].doomed
                              /\ reset'[k].user = reset[k].user
    BY <1>1, <1>2, ResetMoves
  <2>2. reset[k].user = req[r].user /\ req[r].user \in Users
    BY <2>1 DEF ResetsHeld, ResetHeld, Refer, RequestRefers, CommitErasure
  <2>3. user'[req[r].user].status = "DELETED"
    BY <2>1, <2>2 DEF CommitErasure, UserRow
  <2> QED BY <2>1, <2>2, <2>3
<1> QED BY <1>1, <1>2

LEMMA PasswordBackedNext ==
    ASSUME TypeOK, Refer, FreshIds, ResetsHeld, DeletedWithAccount, PasswordBacked, [Next]_vars
    PROVE  PasswordBacked'
<1> SUFFICES ASSUME NEW u \in Users, Active(u)'
             PROVE  /\ IsFiniteSet(Used(u)')
                    /\ user'[u].version <= Cardinality(Applied(u)')
  BY DEF PasswordBacked
<1> USE DEF TypeOK
<1>0. Kept
  BY RowsKept
<1>1. Active(u) /\ IsFiniteSet(Used(u)) /\ user[u].version <= Cardinality(Applied(u))
  <2>1. Active(u)
    <3>1. ASSUME NEW r \in Requests, CommitErasure(r), req[r].user = u
          PROVE  user'[u].status = "DELETED"
      BY <3>1 DEF CommitErasure, UserRow
    <3> QED BY <3>1, StatusChanges DEF Active
  <2> QED BY <2>1 DEF PasswordBacked
<1>2. IsFiniteSet(Used(u)')
  <2>1. CASE \E k \in ResetIds : reset'[k].st = "used" /\ reset[k].st # "used"
    <3>1. PICK k \in ResetIds : reset'[k].st = "used" /\ reset[k].st # "used"
      BY <2>1
    <3>2. PICK r \in Requests : ClaimReset(r) /\ req[r].key = k
      BY <3>1, ResetMoves
    <3>3. \A j \in ResetIds \ {k} : reset'[j] = reset[j]
      BY <3>2 DEF ClaimReset
    <3>4. Used(u)' \subseteq Used(u) \cup {k}
      BY <3>3 DEF Used
    <3>5. IsFiniteSet(Used(u) \cup {k})
      BY <1>1, FS_AddElement
    <3> QED BY <3>4, <3>5, FS_Subset
  <2>2. CASE ~ \E k \in ResetIds : reset'[k].st = "used" /\ reset[k].st # "used"
    <3>1. Used(u)' \subseteq Used(u)
      BY <1>0, <2>2, ResetHeldOthers DEF Used, GrantState
    <3> QED BY <1>1, <3>1, FS_Subset
  <2> QED BY <2>1, <2>2
<1>3. Applied(u) \subseteq Applied(u)' /\ IsFiniteSet(Applied(u)')
  <2>1. ASSUME NEW k \in Applied(u) PROVE k \in Applied(u)'
    <3>1. k \in ResetIds /\ reset[k].st = "used" /\ reset[k].user = u
      BY DEF Applied, Used
    <3>2. ASSUME NEW r \in Requests, CommitErasure(r), k \in req[r].doomed PROVE FALSE
      <4>1. req[r].user = u
        BY <3>1, <3>2 DEF ResetsHeld, ResetHeld
      <4>2. user'[u].status = "DELETED"
        BY <3>2, <4>1 DEF CommitErasure, UserRow
      <4> QED BY <4>2 DEF Active
    <3>3. reset'[k] = reset[k]
      BY <3>1, <3>2, ResetMoves
    <3>4. ASSUME NEW r \in Requests, Spending(r, k)' PROVE FALSE
      BY <3>1, <3>4, SpendingBegins DEF Applied
    <3> QED BY <3>1, <3>3, <3>4 DEF Applied, Used
  <2>2. Applied(u)' \subseteq Used(u)'
    BY DEF Applied, Used
  <2> QED BY <1>2, <2>1, <2>2, FS_Subset
<1>4. IsFiniteSet(Applied(u)) /\ Cardinality(Applied(u)) <= Cardinality(Applied(u)')
      /\ Cardinality(Applied(u)) \in Nat /\ Cardinality(Applied(u)') \in Nat
  BY <1>3, FS_Subset, FS_CardinalityType
<1>7. user[u].version \in Nat
  BY DEF UserRow
<1>5. CASE user'[u].version = user[u].version
  BY <1>1, <1>2, <1>4, <1>5, <1>7
<1>6. CASE user'[u].version # user[u].version
  <2>1. PICK r \in Requests : /\ req[r].pc = "password" /\ req[r].user = u
                              /\ req'[r].pc = "revokeAll"
                              /\ user'[u].version = user[u].version + 1 /\ UNCHANGED reset
    BY <1>6, VersionMoves
  <2>2. PICK k \in ResetIds : reset[k].st # "none" /\ reset[k].user = u /\ Spending(r, k)
    BY <2>1 DEF ResetsHeld, ResetHeld, Spending
  <2>3. reset[k].st = "used"
    BY <1>1, <2>2 DEF ResetsHeld, ResetHeld, DeletedWithAccount, ResetRow, GrantState
  <2>4. k \notin Applied(u)
    BY <2>2 DEF Applied
  <2>5. k \in Applied(u)'
    <3>1. ASSUME NEW q \in Requests, Spending(q, k)' PROVE FALSE
      <4>1. q # r
        BY <2>1, <3>1 DEF Spending
      <4>2. Spending(q, k)
        BY <2>1, <3>1, <4>1, OneMoves DEF Spending
      <4> QED BY <2>2, <4>1, <4>2 DEF ResetsHeld, ResetHeld
    <3> QED BY <2>1, <2>2, <2>3, <3>1 DEF Applied, Used
  <2>6. Applied(u) \cup {k} \subseteq Applied(u)'
    BY <1>3, <2>5
  <2>7. Cardinality(Applied(u) \cup {k}) = Cardinality(Applied(u)) + 1
    BY <1>4, <2>4, FS_AddElement
  <2>8. Cardinality(Applied(u)) + 1 <= Cardinality(Applied(u)')
    BY <1>3, <2>6, <2>7, FS_Subset
  <2> QED BY <1>1, <1>2, <1>4, <1>7, <2>1, <2>8
<1> QED BY <1>5, <1>6

LEMMA BackedIsOnce ==
    ASSUME TypeOK, PasswordBacked PROVE ResetChangesPasswordOnce
<1> SUFFICES ASSUME NEW u \in Users, Active(u)
             PROVE  user[u].version <= Cardinality(Used(u))
  BY DEF ResetChangesPasswordOnce, Used
<1>1. IsFiniteSet(Used(u)) /\ user[u].version <= Cardinality(Applied(u))
  BY DEF PasswordBacked
<1>2. Applied(u) \subseteq Used(u)
  BY DEF Applied
<1>3. /\ Cardinality(Applied(u)) <= Cardinality(Used(u))
      /\ Cardinality(Applied(u)) \in Nat /\ Cardinality(Used(u)) \in Nat
  BY <1>1, <1>2, FS_Subset, FS_CardinalityType
<1>4. user[u].version \in Nat
  BY DEF TypeOK, UserRow
<1> QED BY <1>1, <1>3, <1>4

-----------------------------------------------------------------------------
(* The inductive invariant, and the theorems.                               *)

IInv ==
    /\ TypeOK
    /\ Refer
    /\ FreshIds
    /\ OneLiveToken
    /\ TokenHasSession
    /\ JtiFollows
    /\ CurrentJtiInUse
    /\ ActForOwners
    /\ ErasedRotatesOnlyLate
    /\ ChallengeSpent
    /\ ChallengeOpensOneSession
    /\ ResetsHeld
    /\ DeletedWithAccount
    /\ PasswordBacked

LEMMA IInvInit == Init => IInv
<1> SUFFICES ASSUME Init PROVE IInv
  OBVIOUS
<1>1. TypeOK /\ Refer /\ FreshIds
  BY TypeInit, ReferInit
<1>2. OneLiveToken /\ TokenHasSession /\ CurrentJtiInUse /\ ErasedRotatesOnlyLate
  BY DEF Init, OneLiveToken, TokenHasSession, CurrentJtiInUse, ErasedRotatesOnlyLate, Live,
     TokenExists, Holds, Idle
<1>3. JtiFollows /\ ActForOwners
  BY DEF Init, JtiFollows, Follows, ActForOwners, ActsForOwner, Idle
<1>4. ChallengeSpent /\ ChallengeOpensOneSession
  BY ConstantsAssumption DEF Init, ChallengeSpent, Won, ChallengeOpensOneSession, Idle
<1>5. ResetsHeld /\ DeletedWithAccount
  BY DEF Init, ResetsHeld, ResetHeld, Spending, DeletedWithAccount, Idle
<1>6. PasswordBacked
  <2>1. ASSUME NEW u \in Users
        PROVE  IsFiniteSet(Used(u)) /\ user[u].version <= Cardinality(Applied(u))
    <3>1. Used(u) = {} /\ Applied(u) = {}
      BY DEF Init, Used, Applied
    <3>2. user[u].version = 0
      BY DEF Init
    <3> QED BY <3>1, <3>2, FS_EmptySet
  <2> QED BY <2>1 DEF PasswordBacked
<1> QED BY <1>1, <1>2, <1>3, <1>4, <1>5, <1>6 DEF IInv

LEMMA IInvNext == IInv /\ [Next]_vars => IInv'
<1> SUFFICES ASSUME IInv, [Next]_vars PROVE IInv'
  OBVIOUS
<1> USE DEF IInv
<1>1. TypeOK'
  BY TypeNext
<1>2. Refer' /\ FreshIds'
  BY ReferNext, FreshNext
<1>3. OneLiveToken' /\ TokenHasSession'
  BY OneLiveNext, TokenHasSessionNext
<1>4. JtiFollows'
  BY FollowsKept, FollowsOwn DEF JtiFollows
<1>5. CurrentJtiInUse'
  BY CurrentJtiNext
<1>6. ActForOwners' /\ ErasedRotatesOnlyLate'
  BY <1>3, ActForOwnersNext, ErasedNext
<1>7. ChallengeSpent' /\ ChallengeOpensOneSession'
  BY <1>1, ChallengeSpentNext, ChallengeOpensOneNext
<1>8. ResetsHeld' /\ DeletedWithAccount' /\ PasswordBacked'
  BY ResetsHeldNext, DeletedWithAccountNext, PasswordBackedNext
<1> QED BY <1>1, <1>2, <1>3, <1>4, <1>5, <1>6, <1>7, <1>8

LEMMA Inductive == Spec => []IInv
BY IInvInit, IInvNext, PTL DEF Spec

\* Every row and every request in flight keeps the shape the schema gives it.
THEOREM TypeCorrect == Spec => []TypeOK
BY Inductive, PTL DEF IInv

\* refreshSession's claim: however many requests present tokens of a session,
\* it never has two live refresh tokens, nor one beside a request about to
\* store one.
THEOREM RotationKeepsOneToken == Spec => []OneLiveToken
BY Inductive, PTL DEF IInv

\* What a revocation denylists is the access token that went out with the
\* refresh token still in use: rotations never leave currentJti behind.
THEOREM RevocationNamesCurrentToken == Spec => []CurrentJtiInUse
BY Inductive, PTL DEF IInv

\* requestDeletion wins against a rotation that read the account before it,
\* unless the session was opened while the erasure was running.
THEOREM ErasureStopsRotation == Spec => []ErasedRotatesOnlyLate
BY Inductive, PTL DEF IInv

\* completeMfaChallenge's claim: one challenge token, at most one session.
THEOREM ChallengeIsSingleUse == Spec => []ChallengeOpensOneSession
BY Inductive, PTL DEF IInv

\* confirmPasswordReset's claim: the password of an account that is not erased
\* has changed no more often than reset tokens of it were spent, with any
\* number of requests presenting them.
THEOREM ResetsChangePasswordOnce == Spec => []ResetChangesPasswordOnce
<1>1. IInv => ResetChangesPasswordOnce
  BY BackedIsOnce DEF IInv
<1> QED BY <1>1, Inductive, PTL

\* logout and revokeSession act for the owner, although ownership is read in an
\* earlier statement than the one that revokes.
THEOREM RevocationIsOwners == Spec => OwnerRevokes
<1>1. IInv /\ [Next]_vars =>
        [\A s \in SessionIds :
           session[s].st = "open" /\ session'[s].st = "revoked" =>
              \E r \in Requests : /\ req[r].pc \in {"revoke", "revokeAll"}
                                  /\ req[r].user = session[s].user
                                  /\ req'[r].pc # req[r].pc]_vars
  BY OwnerRevokesNext DEF IInv
<1> QED BY <1>1, Inductive, PTL DEF Spec, OwnerRevokes

-----------------------------------------------------------------------------
(* Sessions implements SessionRight: every step of a request or an account  *)
(* is one of its steps on the right to refresh, or changes no right.        *)

rights == [s \in SessionIds |-> RightOf(s)]

\* RightOf(s)', spelled out.
LEMMA RightValues ==
    ASSUME NEW s \in SessionIds
    PROVE  /\ Usable(s) => RightOf(s) = "usable"
           /\ ~Usable(s) /\ Exists(s) /\ Held(s) => RightOf(s) = "pending"
           /\ ~Usable(s) /\ ~(Exists(s) /\ Held(s)) /\ session[s].st = "none" => RightOf(s) = "none"
           /\ ~Usable(s) /\ ~(Exists(s) /\ Held(s)) /\ session[s].st # "none" => RightOf(s) = "gone"
           /\ Usable(s)' => RightOf(s)' = "usable"
           /\ ~Usable(s)' /\ Exists(s)' /\ Held(s)' => RightOf(s)' = "pending"
           /\ ~Usable(s)' /\ ~(Exists(s)' /\ Held(s)') /\ session'[s].st = "none" =>
                RightOf(s)' = "none"
           /\ ~Usable(s)' /\ ~(Exists(s)' /\ Held(s)') /\ session'[s].st # "none" =>
                RightOf(s)' = "gone"
BY DEF RightOf

\* A session nobody has touched: same row, same live tokens, same holders.
LEMMA SameRight ==
    ASSUME NEW s \in SessionIds, session'[s] = session[s],
           \A t \in TokenIds : (Live(t) /\ token[t].session = s) <=> (Live(t) /\ token[t].session = s)',
           \A r \in Requests : Holds(r, s) <=> Holds(r, s)'
    PROVE  RightOf(s)' = RightOf(s)
<1>1. Usable(s) <=> Usable(s)'
  BY DEF Usable
<1>2. Held(s) <=> Held(s)'
  BY DEF Held
<1>3. Exists(s) <=> Exists(s)'
  BY DEF Exists
<1> QED BY <1>1, <1>2, <1>3 DEF RightOf

\* Storing a token gives its session a usable right.
LEMMA MintStep ==
    ASSUME IInv, [Next]_vars, NEW r \in Requests, NEW t \in TokenIds, ~Live(t), Minted(r, t)
    PROVE  \E m \in SessionIds : SR!Mint(m)
<1>1. PICK m \in SessionIds : m = req[r].session /\ Holds(r, m) /\ Exists(m)
  BY DEF IInv, Refer, RequestRefers, Minted, Holds
<1>2. rights[m] = "pending"
  <2>1. ~Usable(m)
    BY <1>1 DEF IInv, OneLiveToken, Usable
  <2>2. Held(m)
    BY <1>1 DEF Held
  <2> QED BY <1>1, <2>1, <2>2, RightValues DEF rights
<1>3. token'[t].st = "live" /\ token'[t].session = m /\ session' = session
      /\ \A a \in TokenIds \ {t} : token'[a] = token[a]
  BY <1>1 DEF Minted, IInv, TypeOK
<1>4. req'[r] # req[r] /\ req'[r].pc \in {"respond", "touch"}
  BY DEF Minted
<1>5. RightOf(m)' = "usable"
  BY <1>1, <1>3, RightValues DEF Usable, Live
<1>6. ASSUME NEW s \in SessionIds, s # m PROVE RightOf(s)' = RightOf(s)
  <2>1. ASSUME NEW q \in Requests PROVE Holds(q, s) <=> Holds(q, s)'
    <3>1. CASE q = r
      BY <1>1, <1>4, <1>6, <3>1 DEF Holds
    <3>2. CASE q # r
      BY <1>4, <3>2, OneMoves DEF IInv, Holds
    <3> QED BY <3>1, <3>2
  <2>2. ASSUME NEW a \in TokenIds
        PROVE  (Live(a) /\ token[a].session = s) <=> (Live(a) /\ token[a].session = s)'
    BY <1>3, <1>6 DEF Live
  <2> QED BY <1>3, <1>6, <2>1, <2>2, SameRight
<1>7. SR!Mint(m)
  BY <1>2, <1>5, <1>6 DEF SR!Mint, rights
<1> QED BY <1>7

\* Opening a session brings its right into being; claiming its token makes the
\* right the claimer's.
LEMMA HoldStep ==
    ASSUME IInv, [Next]_vars, NEW r \in Requests, NEW m \in SessionIds, ~Holds(r, m), Holds(r, m)'
    PROVE  SR!Open(m) \/ SR!Exchange(m)
<1>1. req'[r] # req[r]
  BY DEF Holds
<1>2. ASSUME NEW q \in Requests, NEW s \in SessionIds, s # m, req[r].pc \in {"open", "claim"}
      PROVE  Holds(q, s) <=> Holds(q, s)'
  BY <1>1, <1>2, OneMoves DEF IInv, Holds
<1>3. CASE /\ req[r].pc = "open"
           /\ session[m].st = "none" /\ session'[m].st = "open"
           /\ \A n \in SessionIds \ {m} : session'[n] = session[n]
           /\ token' = token
  <2>1. ~Usable(m) /\ ~Usable(m)'
    BY <1>3 DEF Usable, Live, IInv, Refer, TokenRefers
  <2>2. RightOf(m) = "none"
    BY <1>3, <2>1, RightValues DEF Exists
  <2>3. RightOf(m)' = "pending"
    BY <1>3, <2>1, RightValues DEF Exists, Held
  <2>4. ASSUME NEW s \in SessionIds, s # m PROVE RightOf(s)' = RightOf(s)
    BY <1>2, <1>3, <2>4, SameRight DEF Live
  <2> QED BY <2>2, <2>3, <2>4 DEF SR!Open
<1>4. ASSUME NEW t \in TokenIds, req[r].pc = "claim", Live(t), token[t].session = m,
             token' = [token EXCEPT ![t].st = "revoked"], session' = session
      PROVE  SR!Exchange(m)
  <2>1. Usable(m) /\ Exists(m)
    BY <1>4 DEF Usable, IInv, TokenHasSession, TokenExists, Live
  <2>2. RightOf(m) = "usable"
    BY <2>1, RightValues
  <2>3. /\ token'[t].st = "revoked" /\ token'[t].session = m
        /\ \A a \in TokenIds \ {t} : token'[a] = token[a]
    BY <1>4 DEF IInv, TypeOK, TokenRow
  <2>4. ~Usable(m)'
    <3>1. ASSUME NEW a \in TokenIds, Live(a)', token'[a].session = m PROVE FALSE
      <4>1. a # t /\ Live(a) /\ token[a].session = m
        BY <2>3, <3>1 DEF Live
      <4> QED BY <1>4, <4>1 DEF IInv, OneLiveToken
    <3> QED BY <3>1 DEF Usable
  <2>5. RightOf(m)' = "pending"
    BY <1>4, <2>1, <2>4, RightValues DEF Exists, Held
  <2>6. ASSUME NEW s \in SessionIds, s # m PROVE RightOf(s)' = RightOf(s)
    <3>1. ASSUME NEW a \in TokenIds
          PROVE  (Live(a) /\ token[a].session = s) <=> (Live(a) /\ token[a].session = s)'
      BY <1>4, <2>3, <2>6 DEF Live
    <3> QED BY <1>2, <1>4, <2>6, <3>1, SameRight
  <2> QED BY <2>2, <2>5, <2>6 DEF SR!Exchange
<1> QED BY <1>3, <1>4, HoldIsTaken DEF IInv

\* A session's row comes with a request that holds it.
LEMMA OpenedIsHeld ==
    ASSUME TypeOK, Refer, [Next]_vars, NEW s \in SessionIds,
           session[s].st = "none", session'[s].st # "none"
    PROVE  \E r \in Requests : Holds(r, s)'
<1> USE DEF TypeOK, SessionRow
<1>1. ASSUME NEW r \in Requests, OpenSession(r) PROVE Holds(r, s)'
  <2>1. PICK n \in SessionIds, j \in TokenIds :
            /\ session' = [session EXCEPT ![n] =
                   [st |-> "open", user |-> req[r].user, jti |-> j,
                    version |-> req[r].version, via |-> req[r].key,
                    late |-> Erasing(req[r].user)]]
            /\ req' = [req EXCEPT ![r] = [@ EXCEPT !.pc = "mint", !.session = n, !.new = j]]
    BY <1>1 DEF OpenSession
  <2>2. n = s
    BY <2>1
  <2> QED BY <2>1, <2>2 DEF Holds, Request
<1>2. ASSUME NEW r \in Requests, Touch(r) PROVE FALSE
  BY <1>2 DEF Touch
<1>3. ASSUME NEW r \in Requests, RevokeSession(r) PROVE FALSE
  BY <1>3 DEF RevokeSession, Exists
<1>4. ASSUME NEW r \in Requests, RevokeAllSessions(r) PROVE FALSE
  BY <1>4 DEF RevokeAllSessions
<1>5. ASSUME NEW r \in Requests, CommitErasure(r) PROVE FALSE
  BY <1>5 DEF CommitErasure, Refer, RequestRefers
<1>6. ~UNCHANGED session
  OBVIOUS
<1> QED BY <1>1, <1>2, <1>3, <1>4, <1>5, <1>6
        DEF Next, vars, SignIn, Rotate, Revoke, ResetPassword, Erase, Login, CreateChallenge,
            RedeemChallenge, ClaimChallenge, VerifyCode, RereadUser, MintFirst, Respond,
            PresentToken, Claim, ReadAccount, MintRotated, Logout, RevokeOwnSession, Deny,
            RequestReset, IssueReset, PresentReset, ClaimReset, SetPassword, EraseRows, EnrollMfa, Abort

\* Any other step only takes rights away, if it touches them at all.
LEMMA LoseStep ==
    ASSUME IInv, [Next]_vars,
           \A t \in TokenIds : Live(t)' => Live(t),
           \A r \in Requests, s \in SessionIds : Holds(r, s)' => Holds(r, s)
    PROVE  SR!Next \/ rights' = rights
<1> DEFINE S == {s \in SessionIds : RightOf(s)' # RightOf(s)}
<1>1. ASSUME NEW s \in SessionIds
      PROVE  \/ RightOf(s)' = RightOf(s)
             \/ RightOf(s) \in {"pending", "usable"} /\ RightOf(s)' = "gone"
  <2>1. Usable(s)' => Usable(s)
    BY RowsKept DEF IInv, Usable, Live, Kept, Refer, TokenRefers
  <2>2. Held(s)' => Held(s)
    BY DEF Held
  <2>3. Usable(s) => ~Held(s)
    BY DEF IInv, OneLiveToken, Usable, Held
  <2>4. CASE session[s].st = "none"
    <3>1. ~Usable(s) /\ ~Held(s)
      BY <2>4 DEF IInv, Refer, TokenRefers, RequestRefers, Usable, Held, Holds, Live
    <3>2. session'[s].st = "none"
      BY <2>4, <3>1, OpenedIsHeld DEF IInv, Held
    <3> QED BY <2>1, <2>2, <2>4, <3>1, <3>2, RightValues DEF Exists
  <2>5. CASE session[s].st # "none"
    <3>1. session'[s].st # "none" /\ (Exists(s)' => Exists(s))
      BY <2>5, RowsKept, SessionStillThere DEF IInv, Kept
    <3> QED BY <2>1, <2>2, <2>3, <2>5, <3>1, RightValues
  <2> QED BY <2>4, <2>5
<1>2. CASE S = {}
  BY <1>2 DEF rights
<1>3. CASE S # {}
  <2>1. SR!Lose(S)
    BY <1>1 DEF SR!Lose
  <2> QED BY <2>1 DEF SR!Next
<1> QED BY <1>2, <1>3

\* Every step of Sessions is a step of SessionRight, or changes no right.
LEMMA StepSimulates == IInv /\ [Next]_vars => [SR!Next]_rights
<1> SUFFICES ASSUME IInv, [Next]_vars PROVE SR!Next \/ rights' = rights
  OBVIOUS
<1>1. ASSUME NEW t \in TokenIds, ~Live(t), Live(t)' PROVE SR!Next
  <2>1. PICK r \in Requests : Minted(r, t)
    BY <1>1, LiveIsMinted DEF IInv
  <2> QED BY <1>1, <2>1, MintStep DEF SR!Next
<1>2. ASSUME NEW r \in Requests, NEW s \in SessionIds, ~Holds(r, s), Holds(r, s)' PROVE SR!Next
  BY <1>2, HoldStep DEF SR!Next
<1> QED BY <1>1, <1>2, LoseStep

LEMMA InitSimulates == Init => SR!Init
<1> SUFFICES ASSUME Init, NEW s \in SessionIds PROVE RightOf(s) = "none"
  BY DEF SR!Init
<1> QED BY DEF Init, RightOf, Usable, Held, Holds, Live, Exists, Idle

\* Rotation, revocation, erasure and lost responses included, implement a right
\* that is single and never comes back once it is gone.
THEOREM SessionsImplementSessionRight == Spec => SingleRight
<1> QED BY Inductive, InitSimulates, StepSimulates, PTL
        DEF Spec, SingleRight, SR!Spec, rights
=============================================================================
