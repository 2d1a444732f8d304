------------------------------ MODULE Sessions ------------------------------
(***************************************************************************)
(* The session core of apps/api: how AuthService and UsersService open,    *)
(* rotate and revoke sessions.  A request runs as a process whose steps    *)
(* are its database (or Redis) statements, because nothing but a single    *)
(* statement is atomic there: no method of AuthService that appears here   *)
(* opens a transaction.  Requests interleave freely and may stop after any *)
(* statement (a crash, a failed statement, a failed event publication, a   *)
(* response the client never receives).                                    *)
(*                                                                         *)
(* Not in this module: token expiry (it only turns a request away before   *)
(* its first write, which here is the request not being made), the clock   *)
(* behind tokensValidAfter, the TOTP lockout, OAuth sign-in, roles and     *)
(* organisations.                                                          *)
(***************************************************************************)
EXTENDS Naturals, FiniteSets

CONSTANTS
    Users,          \* rows of "User" that exist when the model starts
    Admins,         \* those whose role asks for the MFA step-up
    SessionIds,     \* ids a "Session" row may be given
    TokenIds,       \* ids of refresh tokens; the access token returned with a
                    \* refresh token is known here by the same id
    ResetIds,       \* ids of "PasswordResetToken" rows
    ChallengeIds,   \* ids of "MfaChallengeToken" rows
    Requests,       \* slots for requests in flight
    NULL

ASSUME ConstantsAssumption ==
    /\ Admins \subseteq Users
    /\ NULL \notin Users \cup SessionIds \cup TokenIds
    /\ NULL \notin ResetIds \cup ChallengeIds
    /\ ResetIds \cap (ChallengeIds \cup SessionIds) = {}    \* ids of three tables

VARIABLES
    user,       \* Users -> row: status, passwordHash present, mfaEnrolled
    session,    \* SessionIds -> row of "Session"
    token,      \* TokenIds -> row of "RefreshToken"
    reset,      \* ResetIds -> row of "PasswordResetToken"
    challenge,  \* ChallengeIds -> row of "MfaChallengeToken"
    issued,     \* token ids already drawn (randomUUID never repeats)
    delivered,  \* token ids whose response has reached the client
    denylist,   \* access tokens on the Redis jti denylist
    req         \* Requests -> where each request is and what it holds

accounts == <<user, reset, challenge>>
vars == <<user, session, token, reset, challenge, issued, delivered, denylist, req>>

-----------------------------------------------------------------------------
(* A row that was never inserted is "none"; a deleted row is "deleted" and  *)
(* its id is never used again.                                              *)

SessionState == {"none", "open", "revoked", "deleted"}
TokenState   == {"none", "live", "revoked", "deleted"}
GrantState   == {"none", "unused", "used", "deleted"}

\* The columns the code below reads or writes.  version counts changes of the
\* password; a session remembers which password, and which challenge token,
\* it was opened with, and whether its owner was being erased just then.
UserRow    == [status : {"ACTIVE", "DELETED"}, hasPassword : BOOLEAN, version : Nat, mfa : BOOLEAN]
SessionRow == [st : SessionState, user : Users \cup {NULL}, jti : TokenIds \cup {NULL},
               version : Nat, via : ChallengeIds \cup {NULL}, late : BOOLEAN]
TokenRow   == [st : TokenState, session : SessionIds \cup {NULL}, from : TokenIds \cup {NULL}]
ResetRow   == [st : GrantState, user : Users \cup {NULL}]
ChallengeRow == [st : GrantState, user : Users \cup {NULL}, version : Nat]

Erasable == SUBSET (SessionIds \cup ResetIds)   \* rows one erasure deletes

Steps ==
    {"idle", "challenge", "claimChallenge", "verify", "reread", "open", "mint",
     "claim", "account", "rotate", "touch", "respond", "revoke", "deny",
     "issueReset", "claimReset", "password", "revokeAll", "erase"}

Request == [pc : Steps, user : Users \cup {NULL}, version : Nat, session : SessionIds \cup {NULL},
            token : TokenIds \cup {NULL}, new : TokenIds \cup {NULL},
            key : ResetIds \cup ChallengeIds \cup {NULL}, jtis : SUBSET TokenIds,
            doomed : Erasable]

Idle == [pc |-> "idle", user |-> NULL, version |-> 0, session |-> NULL,
         token |-> NULL, new |-> NULL, key |-> NULL, jtis |-> {}, doomed |-> {}]

\* A session row and a refresh-token row that the database holds.
Exists(s)      == session[s].st \in {"open", "revoked"}
TokenExists(t) == token[t].st \in {"live", "revoked"}
Live(t)        == token[t].st = "live"
Active(u)      == user[u].status = "ACTIVE"

\* Rows an erasure has deleted in a transaction it has not committed: readers
\* still see them, a statement that would write them (or insert a row that
\* references them) waits for the transaction to end.
Locked(x)   == \E r \in Requests : x \in req[r].doomed
Erasing(u)  == \E r \in Requests : req[r].pc = "erase" /\ req[r].user = u

Proceed(r, step)   == req' = [req EXCEPT ![r].pc = step]
Finish(r)          == req' = [req EXCEPT ![r] = Idle]

Init ==
    /\ user = [u \in Users |-> [status |-> "ACTIVE", hasPassword |-> TRUE,
                                version |-> 0, mfa |-> FALSE]]
    /\ session = [s \in SessionIds |-> [st |-> "none", user |-> NULL, jti |-> NULL,
                                        version |-> 0, via |-> NULL, late |-> FALSE]]
    /\ token = [t \in TokenIds |-> [st |-> "none", session |-> NULL, from |-> NULL]]
    /\ reset = [k \in ResetIds |-> [st |-> "none", user |-> NULL]]
    /\ challenge = [c \in ChallengeIds |-> [st |-> "none", user |-> NULL, version |-> 0]]
    /\ issued = {}
    /\ delivered = {}
    /\ denylist = {}
    /\ req = [r \in Requests |-> Idle]

-----------------------------------------------------------------------------
(* Signing in.                                                              *)

\* loginResponse: an ADMIN or ENTERPRISE_ADMIN who enrolled gets a challenge.
StepUp(u) == u \in Admins /\ user[u].mfa

\* validateCredentials: the row is read, the password verified against what
\* was read, and the caller goes on with that snapshot.  A deleted account is
\* turned away only by its missing hash.  version is which password it proved.
Login(r, u) ==
    /\ req[r] = Idle
    /\ user[u].hasPassword
    /\ req' = [req EXCEPT ![r] =
                 [Idle EXCEPT !.pc = IF StepUp(u) THEN "challenge" ELSE "open",
                              !.user = u, !.version = user[u].version]]
    /\ UNCHANGED <<accounts, session, token, issued, delivered, denylist>>

\* createMfaChallengeToken: the only outcome of a stepped-up login.
CreateChallenge(r) ==
    /\ req[r].pc = "challenge"
    /\ \E c \in ChallengeIds :
         /\ challenge[c].st = "none"
         /\ challenge' = [challenge EXCEPT ![c] =
                [st |-> "unused", user |-> req[r].user, version |-> req[r].version]]
    /\ Finish(r)
    /\ UNCHANGED <<user, reset, session, token, issued, delivered, denylist>>

\* completeMfaChallenge reads the token ...
RedeemChallenge(r, c) ==
    /\ req[r] = Idle
    /\ challenge[c].st = "unused"
    /\ req' = [req EXCEPT ![r] =
                 [Idle EXCEPT !.pc = "claimChallenge", !.key = c,
                              !.user = challenge[c].user, !.version = challenge[c].version]]
    /\ UNCHANGED <<accounts, session, token, issued, delivered, denylist>>

\* A claim that forgets WHERE usedAt IS NULL.
ClaimChallengeUnguarded(r) ==
    /\ req[r].pc = "claimChallenge"
    /\ challenge' = [challenge EXCEPT ![req[r].key].st = "used"]
    /\ Proceed(r, "verify")
    /\ UNCHANGED <<user, reset, session, token, issued, delivered, denylist>>

\* ... claims it with UPDATE ... WHERE usedAt IS NULL, whether or not the
\* code will turn out right ...
ClaimChallenge(r) ==
    /\ req[r].pc = "claimChallenge"
    /\ IF challenge[req[r].key].st = "unused"
       THEN /\ challenge' = [challenge EXCEPT ![req[r].key].st = "used"]
            /\ Proceed(r, "verify")
       ELSE /\ Finish(r)
            /\ UNCHANGED challenge
    /\ UNCHANGED <<user, reset, session, token, issued, delivered, denylist>>

\* ... verifies the code, which can be right only while mfaSecret is present ...
VerifyCode(r) ==
    /\ req[r].pc = "verify"
    /\ \/ user[req[r].user].mfa /\ Proceed(r, "reread")
       \/ Finish(r)
    /\ UNCHANGED <<accounts, session, token, issued, delivered, denylist>>

\* ... and re-reads the account before it issues a session.
RereadUser(r) ==
    /\ req[r].pc = "reread"
    /\ IF Active(req[r].user) THEN Proceed(r, "open") ELSE Finish(r)
    /\ UNCHANGED <<accounts, session, token, issued, delivered, denylist>>

\* issueSession, first statement: session.create with the jti just signed.
\* The user row always exists (it is never hard-deleted), so neither the
\* account's status nor its password is looked at again.
OpenSession(r) ==
    /\ req[r].pc = "open"
    /\ \E s \in SessionIds, n \in TokenIds \ issued :
         /\ session[s].st = "none"
         /\ session' = [session EXCEPT ![s] =
                [st |-> "open", user |-> req[r].user, jti |-> n,
                 version |-> req[r].version, via |-> req[r].key,
                 late |-> Erasing(req[r].user)]]
         /\ issued' = issued \cup {n}
         /\ req' = [req EXCEPT ![r] = [@ EXCEPT !.pc = "mint", !.session = s, !.new = n]]
    /\ UNCHANGED <<accounts, token, delivered, denylist>>

\* issueSession, second statement: the session's first refresh token.  The
\* foreign key fails when the session row has been deleted meanwhile.
MintFirst(r) ==
    /\ req[r].pc = "mint"
    /\ ~Locked(req[r].session)
    /\ IF Exists(req[r].session)
       THEN /\ token' = [token EXCEPT ![req[r].new] =
                   [st |-> "live", session |-> req[r].session, from |-> NULL]]
            /\ Proceed(r, "respond")
       ELSE /\ Finish(r)
            /\ UNCHANGED token
    /\ UNCHANGED <<accounts, session, issued, delivered, denylist>>

\* The response, with both tokens, reaches the client.
Respond(r) ==
    /\ req[r].pc = "respond"
    /\ delivered' = delivered \cup {req[r].new}
    /\ Finish(r)
    /\ UNCHANGED <<accounts, session, token, issued, denylist>>

-----------------------------------------------------------------------------
(* Rotating: AuthService.refreshSession.                                    *)

\* The client presents a token it was given, current or long spent.
PresentToken(r, t) ==
    /\ req[r] = Idle
    /\ t \in delivered
    /\ TokenExists(t)
    /\ req' = [req EXCEPT ![r] =
                 [Idle EXCEPT !.pc = "claim", !.token = t, !.session = token[t].session,
                              !.user = session[token[t].session].user]]
    /\ UNCHANGED <<accounts, session, token, issued, delivered, denylist>>

\* A claim that forgets WHERE revokedAt IS NULL.
ClaimUnguarded(r) ==
    /\ req[r].pc = "claim"
    /\ ~Locked(req[r].session)
    /\ token' = [token EXCEPT ![req[r].token].st = IF @ = "live" THEN "revoked" ELSE @]
    /\ Proceed(r, "account")
    /\ UNCHANGED <<accounts, session, issued, delivered, denylist>>

\* UPDATE ... WHERE revokedAt IS NULL: one request wins; zero rows is reuse.
Claim(r) ==
    /\ req[r].pc = "claim"
    /\ ~Locked(req[r].session)
    /\ IF Live(req[r].token)
       THEN /\ token' = [token EXCEPT ![req[r].token].st = "revoked"]
            /\ Proceed(r, "account")
       ELSE /\ Proceed(r, "revoke")
            /\ UNCHANGED token
    /\ UNCHANGED <<accounts, session, issued, delivered, denylist>>

\* A rotation that does not look at the account again.
ReadAccountUnchecked(r) ==
    /\ req[r].pc = "account"
    /\ Proceed(r, "rotate")
    /\ UNCHANGED <<accounts, session, token, issued, delivered, denylist>>

\* The owner must still be ACTIVE; the old token stays spent if not.
ReadAccount(r) ==
    /\ req[r].pc = "account"
    /\ IF Active(req[r].user) THEN Proceed(r, "rotate") ELSE Finish(r)
    /\ UNCHANGED <<accounts, session, token, issued, delivered, denylist>>

\* The constraints an INSERT with rotatedFromId meets: both foreign keys, and
\* rotatedFromId is unique.
CanRotate(r) ==
    /\ Exists(req[r].session)
    /\ TokenExists(req[r].token)
    /\ \A t \in TokenIds : TokenExists(t) => token[t].from # req[r].token

\* refreshToken.create.  Whether the session has been revoked since the claim
\* is not asked.
MintRotated(r) ==
    /\ req[r].pc = "rotate"
    /\ ~Locked(req[r].session)
    /\ \/ /\ CanRotate(r)
          /\ \E n \in TokenIds \ issued :
               /\ token' = [token EXCEPT ![n] = [st |-> "live", session |-> req[r].session,
                                                 from |-> req[r].token]]
               /\ issued' = issued \cup {n}
               /\ req' = [req EXCEPT ![r] = [@ EXCEPT !.pc = "touch", !.new = n]]
       \/ /\ ~CanRotate(r)
          /\ Finish(r)
          /\ UNCHANGED <<token, issued>>
    /\ UNCHANGED <<accounts, session, delivered, denylist>>

\* A rotation that leaves the session's currentJti as it was.
TouchKeepsJti(r) ==
    /\ req[r].pc = "touch"
    /\ ~Locked(req[r].session)
    /\ IF Exists(req[r].session) THEN Proceed(r, "respond") ELSE Finish(r)
    /\ UNCHANGED <<accounts, session, token, issued, delivered, denylist>>

\* The access token is signed and becomes the session's currentJti; updating a
\* row that is gone is an error.
Touch(r) ==
    /\ req[r].pc = "touch"
    /\ ~Locked(req[r].session)
    /\ IF Exists(req[r].session)
       THEN /\ session' = [session EXCEPT ![req[r].session].jti = req[r].new]
            /\ Proceed(r, "respond")
       ELSE /\ Finish(r)
            /\ UNCHANGED session
    /\ UNCHANGED <<accounts, token, issued, delivered, denylist>>

-----------------------------------------------------------------------------
(* Revoking.                                                                *)

\* AuthService.logout: the cookie names the session, the Bearer token the
\* caller u, and they must agree.
Logout(r, u, t) ==
    /\ req[r] = Idle
    /\ t \in delivered
    /\ TokenExists(t)
    /\ session[token[t].session].user = u
    /\ req' = [req EXCEPT ![r] = [Idle EXCEPT !.pc = "revoke", !.user = u,
                                              !.session = token[t].session]]
    /\ UNCHANGED <<accounts, session, token, issued, delivered, denylist>>

\* UsersService.revokeSession without its ownership check.
RevokeAnySession(r, u, s) ==
    /\ req[r] = Idle
    /\ Exists(s)
    /\ req' = [req EXCEPT ![r] = [Idle EXCEPT !.pc = "revoke", !.user = u, !.session = s]]
    /\ UNCHANGED <<accounts, session, token, issued, delivered, denylist>>

\* UsersService.revokeSession: the caller's own session, whatever its state.
RevokeOwnSession(r, u, s) ==
    /\ req[r] = Idle
    /\ Exists(s)
    /\ session[s].user = u
    /\ req' = [req EXCEPT ![r] = [Idle EXCEPT !.pc = "revoke", !.user = u, !.session = s]]
    /\ UNCHANGED <<accounts, session, token, issued, delivered, denylist>>

\* Hands the jtis a revocation returned to the denylist loop.
DenyNext(r, jtis) ==
    req' = [req EXCEPT ![r] = IF jtis = {} THEN Idle
                              ELSE [@ EXCEPT !.pc = "deny", !.jtis = jtis]]

\* AuthService.revokeSession: one statement revokes the session and the live
\* tokens under it, and returns currentJti.
RevokeSession(r) ==
    /\ req[r].pc = "revoke"
    /\ ~Locked(req[r].session)
    /\ LET s == req[r].session IN
         IF Exists(s)
         THEN /\ session' = [session EXCEPT ![s].st = "revoked"]
              /\ token' = [t \in TokenIds |->
                     IF Live(t) /\ token[t].session = s
                     THEN [token[t] EXCEPT !.st = "revoked"] ELSE token[t]]
              /\ DenyNext(r, {session[s].jti})
         ELSE /\ Finish(r)
              /\ UNCHANGED <<session, token>>
    /\ UNCHANGED <<accounts, issued, delivered, denylist>>

\* A revocation that denylists the session's id in place of its jti.
DenySessionId(r) ==
    /\ req[r].pc = "deny"
    /\ \E j \in req[r].jtis :
         /\ denylist' = denylist \cup {req[r].session}
         /\ DenyNext(r, req[r].jtis \ {j})
    /\ UNCHANGED <<accounts, session, token, issued, delivered>>

\* JtiDenylistService.add, one jti at a time; a Redis error is swallowed.
Deny(r) ==
    /\ req[r].pc = "deny"
    /\ \E j \in req[r].jtis :
         /\ denylist' \in {denylist \cup {j}, denylist}
         /\ DenyNext(r, req[r].jtis \ {j})
    /\ UNCHANGED <<accounts, session, token, issued, delivered>>

-----------------------------------------------------------------------------
(* Password reset.                                                          *)

\* requestPasswordReset finds an account with a password ...
RequestReset(r, u) ==
    /\ req[r] = Idle
    /\ user[u].hasPassword
    /\ req' = [req EXCEPT ![r] = [Idle EXCEPT !.pc = "issueReset", !.user = u]]
    /\ UNCHANGED <<accounts, session, token, issued, delivered, denylist>>

\* ... and inserts a reset token, which reaches the user by mail.
IssueReset(r) ==
    /\ req[r].pc = "issueReset"
    /\ \E k \in ResetIds :
         /\ reset[k].st = "none"
         /\ reset' = [reset EXCEPT ![k] = [st |-> "unused", user |-> req[r].user]]
    /\ Finish(r)
    /\ UNCHANGED <<user, challenge, session, token, issued, delivered, denylist>>

\* confirmPasswordReset reads the token ...
PresentReset(r, k) ==
    /\ req[r] = Idle
    /\ reset[k].st = "unused"
    /\ req' = [req EXCEPT ![r] = [Idle EXCEPT !.pc = "claimReset", !.key = k,
                                              !.user = reset[k].user]]
    /\ UNCHANGED <<accounts, session, token, issued, delivered, denylist>>

\* A claim that forgets WHERE usedAt IS NULL.
ClaimResetUnguarded(r) ==
    /\ req[r].pc = "claimReset"
    /\ ~Locked(req[r].key)
    /\ reset' = [reset EXCEPT ![req[r].key].st = "used"]
    /\ Proceed(r, "password")
    /\ UNCHANGED <<user, challenge, session, token, issued, delivered, denylist>>

\* ... claims it with UPDATE ... WHERE usedAt IS NULL ...
ClaimReset(r) ==
    /\ req[r].pc = "claimReset"
    /\ ~Locked(req[r].key)
    /\ IF reset[req[r].key].st = "unused"
       THEN /\ reset' = [reset EXCEPT ![req[r].key].st = "used"]
            /\ Proceed(r, "password")
       ELSE /\ Finish(r)
            /\ UNCHANGED reset
    /\ UNCHANGED <<user, challenge, session, token, issued, delivered, denylist>>

\* ... stores the new hash on the user row, whatever its status is by now ...
SetPassword(r) ==
    /\ req[r].pc = "password"
    /\ LET u == req[r].user IN
         user' = [user EXCEPT ![u] = [@ EXCEPT !.hasPassword = TRUE,
                                               !.version = user[u].version + 1]]
    /\ Proceed(r, "revokeAll")
    /\ UNCHANGED <<reset, challenge, session, token, issued, delivered, denylist>>

\* ... and revokes, in one statement, every session and live token of the user.
RevokeAllSessions(r) ==
    /\ req[r].pc = "revokeAll"
    /\ LET u    == req[r].user
           open == {s \in SessionIds : session[s].st = "open" /\ session[s].user = u}
           live == {t \in TokenIds : Live(t) /\ session[token[t].session].user = u}
       IN /\ \A s \in open \cup {token[t].session : t \in live} : ~Locked(s)
          /\ session' = [s \in SessionIds |->
                IF s \in open THEN [session[s] EXCEPT !.st = "revoked"] ELSE session[s]]
          /\ token' = [t \in TokenIds |->
                IF t \in live THEN [token[t] EXCEPT !.st = "revoked"] ELSE token[t]]
          /\ DenyNext(r, {session[s].jti : s \in open})
    /\ UNCHANGED <<accounts, issued, delivered, denylist>>

-----------------------------------------------------------------------------
(* The account itself.                                                      *)

\* complete_mfa_enrollment(), called by MfaService.completeEnrollment.  No status
\* is asked for: a request authenticated before an erasure may arrive after it.
EnrollMfa(u) ==
    /\ u \in Admins
    /\ ~user[u].mfa
    /\ user' = [user EXCEPT ![u].mfa = TRUE]
    /\ UNCHANGED <<reset, challenge, session, token, issued, delivered, denylist, req>>

\* UsersService.requestDeletion, one READ COMMITTED transaction.  It deletes
\* the sessions, refresh tokens and reset tokens it finds (challenge tokens are
\* left alone) ...
EraseRows(r, u) ==
    /\ req[r] = Idle
    /\ user[u].status # "DELETED"
    /\ LET rows == {s \in SessionIds : Exists(s) /\ session[s].user = u}
                   \cup {k \in ResetIds : reset[k].st \in {"unused", "used"} /\ reset[k].user = u}
       IN /\ \A x \in rows : ~Locked(x)
          /\ req' = [req EXCEPT ![r] = [Idle EXCEPT !.pc = "erase", !.user = u, !.doomed = rows]]
    /\ UNCHANGED <<accounts, session, token, issued, delivered, denylist>>

\* ... then anonymises the user row, which is kept, and commits.  A row
\* inserted after the deletes survives them.
CommitErasure(r) ==
    /\ req[r].pc = "erase"
    /\ user' = [user EXCEPT ![req[r].user] =
          [@ EXCEPT !.status = "DELETED", !.hasPassword = FALSE, !.mfa = FALSE]]
    /\ session' = [s \in SessionIds |->
          IF s \in req[r].doomed THEN [session[s] EXCEPT !.st = "deleted"] ELSE session[s]]
    /\ token' = [t \in TokenIds |->
          IF TokenExists(t) /\ token[t].session \in req[r].doomed
          THEN [token[t] EXCEPT !.st = "deleted"] ELSE token[t]]
    /\ reset' = [k \in ResetIds |->
          IF k \in req[r].doomed THEN [reset[k] EXCEPT !.st = "deleted"] ELSE reset[k]]
    /\ Finish(r)
    /\ UNCHANGED <<challenge, issued, delivered, denylist>>

\* A request stops between two statements, or before its response arrives; an
\* erasure that stops is rolled back.
Abort(r) ==
    /\ req[r].pc # "idle"
    /\ Finish(r)
    /\ UNCHANGED <<accounts, session, token, issued, delivered, denylist>>

-----------------------------------------------------------------------------

SignIn(r) ==
    \/ \E u \in Users : Login(r, u)
    \/ CreateChallenge(r)
    \/ \E c \in ChallengeIds : RedeemChallenge(r, c)
    \/ ClaimChallenge(r) \/ VerifyCode(r) \/ RereadUser(r)
    \/ OpenSession(r) \/ MintFirst(r) \/ Respond(r)

Rotate(r) ==
    \/ \E t \in TokenIds : PresentToken(r, t)
    \/ Claim(r) \/ ReadAccount(r) \/ MintRotated(r) \/ Touch(r)

Revoke(r) ==
    \/ \E u \in Users, t \in TokenIds : Logout(r, u, t)
    \/ \E u \in Users, s \in SessionIds : RevokeOwnSession(r, u, s)
    \/ RevokeSession(r) \/ Deny(r)

ResetPassword(r) ==
    \/ \E u \in Users : RequestReset(r, u)
    \/ IssueReset(r)
    \/ \E k \in ResetIds : PresentReset(r, k)
    \/ ClaimReset(r) \/ SetPassword(r) \/ RevokeAllSessions(r)

Erase(r) ==
    \/ \E u \in Users : EraseRows(r, u)
    \/ CommitErasure(r)

Next ==
    \/ \E r \in Requests :
          SignIn(r) \/ Rotate(r) \/ Revoke(r) \/ ResetPassword(r) \/ Erase(r) \/ Abort(r)
    \/ \E u \in Users : EnrollMfa(u)

Spec == Init /\ [][Next]_vars

-----------------------------------------------------------------------------
(* Properties.                                                              *)

\* Every row and every request in flight has the shape the schema gives it.
TypeOK ==
    /\ user \in [Users -> UserRow]
    /\ session \in [SessionIds -> SessionRow]
    /\ token \in [TokenIds -> TokenRow]
    /\ reset \in [ResetIds -> ResetRow]
    /\ challenge \in [ChallengeIds -> ChallengeRow]
    /\ issued \subseteq TokenIds
    /\ delivered \subseteq issued
    /\ denylist \subseteq TokenIds
    /\ req \in [Requests -> Request]

\* A request that may still store a refresh token for session s: it opened the
\* session, or it claimed the session's previous token.
Holds(r, s) == req[r].pc \in {"mint", "account", "rotate"} /\ req[r].session = s

\* "Exactly one succeeds" (refreshSession): however many requests present the
\* tokens of a session, the session has at most one live refresh token, and
\* none while a request is on its way to store one.
OneLiveToken ==
    \A s \in SessionIds :
        /\ \A t1, t2 \in TokenIds :
              Live(t1) /\ Live(t2) /\ token[t1].session = s /\ token[t2].session = s => t1 = t2
        /\ \A t \in TokenIds, r \in Requests :
              Live(t) /\ token[t].session = s => ~Holds(r, s)
        /\ \A r1, r2 \in Requests : Holds(r1, s) /\ Holds(r2, s) => r1 = r2

\* Session.currentJti is what revocation denylists, so it has to name the
\* access token that went out with the refresh token still in use: rotations
\* of one session never leave it pointing at an older one.
CurrentJtiInUse ==
    \A t \in delivered : Live(t) => session[token[t].session].jti = t

\* requestDeletion against refreshSession: the account's status, read before the
\* new token is stored, and the foreign keys, which meet the deleted rows, keep
\* an erased account from rotating.  One case is left: a session opened while
\* the erasure was already running may carry a rotated token past it.
ErasedRotatesOnlyLate ==
    \A t \in TokenIds :
        TokenExists(t) /\ token[t].from # NULL =>
            LET s == session[token[t].session] IN Active(s.user) \/ s.late

\* Two requests that present one challenge token open at most one session.
ChallengeOpensOneSession ==
    \A s1, s2 \in SessionIds :
        session[s1].via # NULL /\ session[s1].via = session[s2].via => s1 = s2

\* Requests that present one reset token change the password at most once: the
\* password of an account has changed no more often than reset tokens of it
\* were spent.
ResetChangesPasswordOnce ==
    \A u \in Users : Active(u) =>
        user[u].version <= Cardinality({k \in ResetIds : reset[k].st = "used" /\ reset[k].user = u})

\* Only a request of the session's owner revokes it: the ownership checks of
\* logout and of DELETE /users/me/sessions/:id, read before the revoking
\* statement, still hold when it runs.
OwnerRevokes ==
    [][\A s \in SessionIds :
         session[s].st = "open" /\ session'[s].st = "revoked" =>
            \E r \in Requests : /\ req[r].pc \in {"revoke", "revokeAll"}
                                /\ req[r].user = session[s].user
                                /\ req'[r].pc # req[r].pc]_vars

\* "Revoking a Session cascades to revoke every RefreshToken under it"
\* (identity.prisma, and revokeSession's own comment).  A rotation that has
\* claimed its token before the revocation stores the next one after it.
RevocationCascades ==
    \A t \in TokenIds : Live(t) => session[token[t].session].st = "open"

\* "Revokes all existing sessions on success" (confirmPasswordReset): once the
\* reset has revoked them, no open session of the user rests on the password
\* before.  A login that verified the old password opens one afterwards.
ResetClosesOldSessions ==
    \A r \in Requests :
        req[r].pc = "deny" /\ req[r].key \in ResetIds =>
            \A s \in SessionIds :
                session[s].st = "open" /\ session[s].user = req[r].user =>
                    session[s].version = user[req[r].user].version

\* DELETED is the terminal state of an account, anonymised: no password is
\* left on it.  A reset that claimed its token before the deletion stores one.
ErasedHasNoPassword ==
    \A u \in Users : user[u].status = "DELETED" => ~user[u].hasPassword

\* The right to refresh session s, as SessionRight sees it.
Usable(s) == \E t \in TokenIds : Live(t) /\ token[t].session = s
Held(s)   == \E r \in Requests : Holds(r, s)

RightOf(s) ==
    IF Usable(s) THEN "usable"
    ELSE IF Exists(s) /\ Held(s) THEN "pending"
    ELSE IF session[s].st = "none" THEN "none" ELSE "gone"

SR == INSTANCE SessionRight WITH right <- [s \in SessionIds |-> RightOf(s)]

\* Rotation implements the single right of SessionRight: a right that is gone
\* (revoked, lost with a response, spent by an aborted rotation) stays gone.
SingleRight == SR!Spec
=============================================================================
