----------------------------- MODULE MfaLockout -----------------------------
(***************************************************************************)
(* The TOTP lockout of MfaService for one user: completeEnrollment and     *)
(* verifyChallengeCode both count the latest failures, verify the code and *)
(* record the attempt, in three statements.  Time is in ticks that divide  *)
(* the window and the lockout.                                             *)
(***************************************************************************)
EXTENDS Naturals, FiniteSets

CONSTANTS
    Requests,       \* slots for verifications in flight
    MaxFailures,    \* LOCKOUT_MAX_FAILURES
    Window,         \* LOCKOUT_WINDOW_MS
    Duration,       \* LOCKOUT_DURATION_MS
    MaxAttempts,    \* bound: rows of "MfaVerificationAttempt" with succeeded = false
    MaxTime         \* bound: ticks

\* Ten minutes and fifteen in the code: who is locked out stays so for longer than
\* the failures that locked them out may be apart.
LockoutBounds ==
    /\ MaxFailures \in Nat \ {0} /\ Window \in Nat /\ Duration \in Nat /\ Window < Duration
    /\ IsFiniteSet(Requests)

VARIABLES
    now,
    occurredAt,     \* failures, in the order they were recorded -> when
    enrolled,       \* mfaEnrolled, written with the secret
    verifying       \* Requests -> "idle", "enroll", "challenge": past enforceLockout

vars == <<now, occurredAt, enrolled, verifying>>

Failures == DOMAIN occurredAt

\* As the query would be with orderBy "asc": the oldest failures decide.
LockedByOldest ==
    /\ Cardinality(Failures) >= MaxFailures
    /\ occurredAt[MaxFailures] - occurredAt[1] <= Window
    /\ now < occurredAt[MaxFailures] + Duration

\* The latest MaxFailures failures are no further apart than the window, and
\* the newest is younger than the lockout.
Locked ==
    LET newest == Cardinality(Failures)
        oldest == newest - MaxFailures + 1
    IN  /\ newest >= MaxFailures
        /\ occurredAt[newest] - occurredAt[oldest] <= Window
        /\ now < occurredAt[newest] + Duration

\* A challenge needs an enrolled secret, an enrolment brings its own.
enforceLockout(r, kind) ==
    /\ verifying[r] = "idle"
    /\ kind = "challenge" => enrolled
    /\ ~ Locked
    /\ verifying' = [verifying EXCEPT ![r] = kind]
    /\ UNCHANGED <<now, occurredAt, enrolled>>

recordFailure(r) ==
    /\ verifying[r] # "idle" /\ Cardinality(Failures) < MaxAttempts
    /\ occurredAt' = [i \in 1..Cardinality(Failures) + 1 |-> IF i \in Failures THEN occurredAt[i] ELSE now]
    /\ verifying' = [verifying EXCEPT ![r] = "idle"]
    /\ UNCHANGED <<now, enrolled>>

\* Failures stay counted after a success.
recordSuccess(r) ==
    /\ verifying[r] # "idle"
    /\ enrolled' = (enrolled \/ verifying[r] = "enroll")
    /\ verifying' = [verifying EXCEPT ![r] = "idle"]
    /\ UNCHANGED <<now, occurredAt>>

Tick == now < MaxTime /\ now' = now + 1 /\ UNCHANGED <<occurredAt, enrolled, verifying>>

Init ==
    /\ now = 0 /\ enrolled = FALSE
    /\ occurredAt = [i \in {} |-> 0]
    /\ verifying = [r \in Requests |-> "idle"]

Next ==
    \/ Tick
    \/ \E r \in Requests :
         \/ \E kind \in {"enroll", "challenge"} : enforceLockout(r, kind)
         \/ recordFailure(r) \/ recordSuccess(r)

Spec == Init /\ [][Next]_vars

-----------------------------------------------------------------------------
\* Counting before recording lets guesses overlap, but no further than there are
\* requests in flight: in any stretch of time as long as the window, failed codes
\* exceed the limit by fewer than that, and slow requests of an earlier stretch
\* are among them.
GuessesBounded ==
    \A start \in 0..now :
        Cardinality({i \in Failures : start <= occurredAt[i] /\ occurredAt[i] <= start + Window})
            < MaxFailures + Cardinality(Requests)
=============================================================================
