------------------------------ MODULE Services ------------------------------
(* The parts of LinguaAI that share no state with the conversation or with    *)
(* each other, each an instance whose parameters are constants here.  What    *)
(* the requests, webhooks and calls of different instances do meets nowhere:  *)
(* the slots they run in are the same.                                        *)
EXTENDS Conversation

CONSTANTS
    Slots,                                                              \* requests, webhooks, calls
    Subs, MaxEvents, MaxRepeats,                                        \* Billing
    LockoutFailures, Window, Duration, MaxAttempts, LockoutTime,        \* MfaLockout
    Limit, WindowMs, MaxCalls, LimiterTime, MaxStops,                   \* RateLimit
    Tokens, Checks, NoToken, PerSecond, AccessTtl, DenylistTtl,
    MaxClock, MaxChanges, MaxErrors,                                    \* AccessTokens
    Session, MaxPairs, MaxExpiries,                                     \* AuthClient
    Users, Registered, Identities, EmailOf, AddressOf, States, Nobody,  \* OAuth
    Events, NoEvent, Workers, Attempts, MaxStalls, MaxFaults, Kind,
    MaxPreferences                                                      \* Notifications

VARIABLES
    sent, row, invoice, entitlement, announced, acked, hook, highest, disordered,
    hookFailures, repeats,                                              \* Billing
    now, occurredAt, enrolled, verifying,                               \* MfaLockout
    time, counter, caller, allowed, calls, stops,                       \* RateLimit
    ticks, claims, changedAt, outdated, token, denylist, denied,
    bearer, errors,                                                     \* AccessTokens
    right, live, issued, expired, refused, jar, store, call, signedOut, overlapped,
    expiries, lost,                                                     \* AuthClient
    user, state, account, origin, opened, req,                          \* OAuth
    queue, job, run, handled, faults, optedIn, mails, log, suppressed, changes
                                                                        \* Notifications

Webhooks == INSTANCE Billing WITH Handlers <- Slots, failures <- hookFailures

Lockout == INSTANCE MfaLockout WITH
    Requests <- Slots, MaxFailures <- LockoutFailures, MaxTime <- LockoutTime

Limiter == INSTANCE RateLimit WITH Requests <- Slots, MaxTime <- LimiterTime, now <- time

Bearers == INSTANCE AccessTokens WITH Requests <- Checks, clock <- ticks, req <- bearer

Browser == INSTANCE AuthClient WITH Calls <- Slots, denied <- refused, failures <- lost

SignIn == INSTANCE OAuth WITH Requests <- Slots

Mailer == INSTANCE Notifications WITH MaxChanges <- MaxPreferences

ASSUME ServicesBounds ==
    /\ Lockout!LockoutBounds /\ Limiter!LimitBounds /\ Bearers!TokensBounds
    /\ NoEvent \notin Events /\ IsFiniteSet(Workers)

-----------------------------------------------------------------------------
(* What they promise, by the names their modules give it.                     *)

\* Webhooks handled in order leave rows and entitlement as Stripe last said.
InOrderDeliveryConverges == Webhooks!InOrderDeliveryConverges

\* Overlapping wrong codes exceed the lockout's limit by fewer than the requests.
GuessesBounded == Lockout!GuessesBounded

\* Fewer than twice the limit pass in any stretch as long as the window.
FewerThanTwice == Limiter!FewerThanTwice

\* A denylisted token is refused as long as it lives.
RevokedRefused == Bearers!RevokedRefused

\* Old claims are served only from the second on in which their change began; not
\* only from the one it committed in, as API_GUIDELINES.md has it.
OldClaimsAreLate == Bearers!OldClaimsAreLate
EarlierTokensRejected == Bearers!EarlierTokensRejected

\* The client keeps its session while its refreshes take turns.
OneRefreshAtATimeKeepsSession == Browser!OneRefreshAtATimeKeepsSession

\* An identity is never attached to an account by its address.
IdentityProved == SignIn!IdentityProved

\* A job done has its mail out, unless the preference held it back.
DoneMeansMailed == Mailer!DoneMeansMailed
=============================================================================
