---------------------------- MODULE AccessTokens ----------------------------
(***************************************************************************)
(* Access tokens of one user after they were signed: what JwtStrategy,     *)
(* isTokenStale and the jti denylist let through, while the user's claims  *)
(* change and sessions are revoked.  The clock is in ticks, PerSecond to   *)
(* the second; iat and the comparison with tokensValidAfter are in whole   *)
(* seconds.  Claims (role, organizationId, orgRole) are the number of the  *)
(* change they were read after.  A change is a transaction: the stamp it   *)
(* gives tokensValidAfter is of the moment it began, and others see both   *)
(* when it commits.                                                        *)
(***************************************************************************)
EXTENDS Naturals

CONSTANTS
    Tokens, Requests,
    PerSecond,
    AccessTtl,      \* JWT_ACCESS_TTL, in seconds
    DenylistTtl,    \* DENYLIST_TTL_SECONDS
    NoToken,
    MaxClock,       \* bound: ticks
    MaxChanges,     \* bound: changes of the claims
    MaxErrors       \* bound: Redis errors

\* The life of an entry is a constant of its own: "If JWT_ACCESS_TTL is ever
\* changed, this needs updating alongside it".
TokensBounds ==
    /\ PerSecond \in Nat \ {0} /\ AccessTtl \in Nat /\ DenylistTtl \in Nat /\ MaxChanges \in Nat
    /\ AccessTtl <= DenylistTtl

VARIABLES
    clock,
    claims,         \* number of changes so far
    changedAt,      \* change -> its stamp; tokensValidAfter is that of the last
    outdated,       \* tokens signed in a second before that a change committed in (ghost)
    token,          \* Tokens -> st, claims it carries, tick it was signed at
    denylist,       \* Tokens -> tick its entry expires at, 0 without one
    denied,         \* tokens an entry was made for (ghost)
    req,            \* Requests -> where validate is, and the facts at its start
    errors

vars == <<clock, claims, changedAt, outdated, token, denylist, denied, req, errors>>

Idle == [pc |-> "idle", token |-> NoToken, claims |-> 0, revoked |-> FALSE, outdated |-> FALSE,
         errors |-> 0, at |-> 0]
Goes(r, held) == req' = [req EXCEPT ![r] = held]

Second(tick) == tick \div PerSecond
iat(t) == Second(token[t].signed)
Unexpired(t, tick) == Second(tick) < iat(t) + AccessTtl

-----------------------------------------------------------------------------
(* Signing.                                                                 *)

\* Login and refresh read the user's row ...
ReadUser(t) ==
    /\ token[t].st = "none"
    /\ token' = [token EXCEPT ![t] = [st |-> "read", claims |-> claims, signed |-> 0]]
    /\ UNCHANGED <<clock, claims, changedAt, outdated, denylist, denied, req, errors>>

\* ... and sign what they read, at a later moment.
signAccessToken(t) ==
    /\ token[t].st = "read"
    /\ token' = [token EXCEPT ![t].st = "signed", ![t].signed = clock]
    /\ UNCHANGED <<clock, claims, changedAt, outdated, denylist, denied, req, errors>>

-----------------------------------------------------------------------------
(* Changing claims, revoking.                                               *)

\* A role approval, an organisation role, a removal, a reset, an erasure.  What
\* tokensValidAfter gets is of the moment the change began: now() is the start of
\* its transaction, new Date() a moment before the UPDATE.  It waits for locks, and
\* is seen when it commits; a change that began earlier may commit later.
ChangeClaims(began) ==
    /\ claims < MaxChanges
    /\ claims' = claims + 1
    /\ changedAt' = [changedAt EXCEPT ![claims + 1] = began]
    /\ outdated' = outdated \cup
            {t \in Tokens : token[t].st = "signed" /\ iat(t) < Second(clock)}
    /\ UNCHANGED <<clock, token, denylist, denied, req, errors>>

tokensValidAfter == IF claims = 0 THEN 0 ELSE changedAt[claims]

\* An entry whose life is one second short of the token's.
addShort(t) ==
    /\ token[t].st = "signed"
    /\ denylist' = [denylist EXCEPT ![t] = clock + (DenylistTtl - 1) * PerSecond]
    /\ denied' = denied \cup {t}
    /\ UNCHANGED <<clock, claims, changedAt, outdated, token, req, errors>>

\* JtiDenylistService.add; its Redis error is swallowed.
add(t) ==
    /\ token[t].st = "signed"
    /\ \/ /\ denylist' = [denylist EXCEPT ![t] = clock + DenylistTtl * PerSecond]
          /\ denied' = denied \cup {t}
          /\ UNCHANGED errors
       \/ /\ errors < MaxErrors /\ errors' = errors + 1
          /\ UNCHANGED <<denylist, denied>>
    /\ UNCHANGED <<clock, claims, changedAt, outdated, token, req>>

-----------------------------------------------------------------------------
(* A request with a Bearer token.                                           *)

\* passport-jwt has checked the signature and exp.
Present(r, t) ==
    /\ req[r] = Idle
    /\ token[t].st = "signed" /\ Unexpired(t, clock)
    /\ Goes(r, [Idle EXCEPT !.pc = "stale", !.token = t, !.claims = claims,
                            !.revoked = t \in denied, !.outdated = t \in outdated])
    /\ UNCHANGED <<clock, claims, changedAt, outdated, token, denylist, denied, errors>>

\* As isTokenStale would be if the second of the change were not rounded down but
\* given a second's grace.
isTokenStaleWithGrace(r) ==
    /\ req[r].pc = "stale"
    /\ Goes(r, IF iat(req[r].token) + 1 < Second(tokensValidAfter) THEN Idle
               ELSE [req[r] EXCEPT !.pc = "denylist"])
    /\ UNCHANGED <<clock, claims, changedAt, outdated, token, denylist, denied, errors>>

isTokenStale(r) ==
    /\ req[r].pc = "stale"
    /\ Goes(r, IF iat(req[r].token) < Second(tokensValidAfter) THEN Idle
               ELSE [req[r] EXCEPT !.pc = "denylist"])
    /\ UNCHANGED <<clock, claims, changedAt, outdated, token, denylist, denied, errors>>

\* Fails open.  Redis drops an entry at the tick it expires.
isDenylisted(r) ==
    /\ req[r].pc = "denylist"
    /\ \/ /\ Goes(r, IF denylist[req[r].token] > clock THEN Idle
                     ELSE [req[r] EXCEPT !.pc = "served", !.at = clock])
          /\ UNCHANGED errors
       \/ /\ errors < MaxErrors /\ errors' = errors + 1
          /\ Goes(r, [req[r] EXCEPT !.pc = "served", !.at = clock, !.errors = 1])
    /\ UNCHANGED <<clock, claims, changedAt, outdated, token, denylist, denied>>

Answered(r) ==
    /\ req[r].pc = "served"
    /\ Goes(r, Idle)
    /\ UNCHANGED <<clock, claims, changedAt, outdated, token, denylist, denied, errors>>

Tick == clock < MaxClock /\ clock' = clock + 1
        /\ UNCHANGED <<claims, changedAt, outdated, token, denylist, denied, req, errors>>

Init ==
    /\ clock = 1 /\ claims = 0 /\ errors = 0
    /\ changedAt = [n \in 1..MaxChanges |-> 0]
    /\ token = [t \in Tokens |-> [st |-> "none", claims |-> 0, signed |-> 0]]
    /\ denylist = [t \in Tokens |-> 0] /\ denied = {} /\ outdated = {}
    /\ req = [r \in Requests |-> Idle]

Next ==
    \/ Tick
    \/ \E began \in 1..clock : ChangeClaims(began)
    \/ \E t \in Tokens : ReadUser(t) \/ signAccessToken(t) \/ add(t)
    \/ \E r \in Requests :
         \/ \E t \in Tokens : Present(r, t)
         \/ isTokenStale(r) \/ isDenylisted(r) \/ Answered(r)

Spec == Init /\ [][Next]_vars

-----------------------------------------------------------------------------
Served(r) == req[r].pc = "served"

\* "A denylist entry only ever needs to outlive the token it denies", and it does:
\* its life is counted from the revocation, the token's from the second it was
\* signed in.  A token whose session was revoked (and the entry made) before a
\* request began is not served while it is unexpired, unless Redis fails to answer.
RevokedRefused ==
    \A r \in Requests : Served(r) /\ req[r].errors = 0 /\ Unexpired(req[r].token, req[r].at)
        => ~ req[r].revoked

\* A request that begins after a change of claims is served with older ones only
\* when their token was signed in the second the change began in or later: never
\* with one of an earlier second, however long the change waited for its locks and
\* whatever is signed, asked and changed meanwhile.  A later change counts in its
\* place, whose stamp may be older.
OldClaimsAreLate ==
    \A r \in Requests :
        LET t == req[r].token IN
        Served(r) /\ token[t].claims < req[r].claims
            => \E n \in req[r].claims..claims : iat(t) >= Second(changedAt[n])

\* "A role or org-membership change bumps tokensValidAfter, so a still-
\* cryptographically-valid token issued before the change is rejected on the holder's
\* very next request" (API_GUIDELINES.md): one signed in a second before that in which
\* the change committed is served to no request that begins after it.  Not so when it
\* was signed while the change was under way.
EarlierTokensRejected == \A r \in Requests : Served(r) => ~ req[r].outdated
=============================================================================
