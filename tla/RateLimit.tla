------------------------------ MODULE RateLimit ------------------------------
(***************************************************************************)
(* RateLimiter.consume and the guard around it, for one key in Redis: the  *)
(* counter is incremented and, by the caller that created it, given its    *)
(* expiry, in two commands.                                                *)
(***************************************************************************)
EXTENDS Naturals, FiniteSets

CONSTANTS
    Requests,       \* slots for guarded requests in flight
    Limit,          \* max of the route's configuration
    WindowMs,       \* windowMs, in ticks
    MaxCalls,       \* bound: commands sent
    MaxTime,        \* bound: ticks
    MaxStops        \* bound: requests that stop, or meet a Redis error, half way

LimitBounds == Limit \in Nat \ {0} /\ WindowMs \in Nat \ {0}

VARIABLES
    now,
    counter,    \* the key: count, 0 when it does not exist, and expiry, 0 without one
    caller,     \* Requests -> "idle", "expire": between its two commands
    allowed,    \* calls let through so far -> when each was counted (ghost)
    calls, stops

vars == <<now, counter, caller, allowed, calls, stops>>

Record == [i \in 1..Cardinality(DOMAIN allowed) + 1 |->
             IF i \in DOMAIN allowed THEN allowed[i] ELSE now]

\* As consume would be if it compared the count before the increment.
consumeOldCount(r) ==
    /\ caller[r] = "idle" /\ calls < MaxCalls
    /\ calls' = calls + 1
    /\ counter' = [counter EXCEPT !.count = @ + 1]
    /\ caller' = [caller EXCEPT ![r] = IF counter.count = 0 THEN "expire" ELSE "idle"]
    /\ allowed' = IF counter.count <= Limit THEN Record ELSE allowed
    /\ UNCHANGED <<now, stops>>

\* INCR; the answer is the new count.  The first caller goes on to PEXPIRE.
consume(r) ==
    /\ caller[r] = "idle" /\ calls < MaxCalls
    /\ calls' = calls + 1
    /\ counter' = [counter EXCEPT !.count = @ + 1]
    /\ caller' = [caller EXCEPT ![r] = IF counter'.count = 1 THEN "expire" ELSE "idle"]
    /\ allowed' = IF counter'.count <= Limit THEN Record ELSE allowed
    /\ UNCHANGED <<now, stops>>

\* PEXPIRE.
SetExpiry(r) ==
    /\ caller[r] = "expire"
    /\ counter' = [counter EXCEPT !.expiry = now + WindowMs]
    /\ caller' = [caller EXCEPT ![r] = "idle"]
    /\ UNCHANGED <<now, allowed, calls, stops>>

\* The guard fails closed: the request it stops is turned away.
Stops(r) ==
    /\ caller[r] = "expire" /\ stops < MaxStops
    /\ stops' = stops + 1
    /\ caller' = [caller EXCEPT ![r] = "idle"]
    /\ UNCHANGED <<now, counter, allowed, calls>>

\* Redis drops a key whose time has come.
Tick ==
    /\ now < MaxTime
    /\ now' = now + 1
    /\ counter' = IF counter.expiry = now' THEN [count |-> 0, expiry |-> 0] ELSE counter
    /\ UNCHANGED <<caller, allowed, calls, stops>>

Init ==
    /\ now = 1 /\ counter = [count |-> 0, expiry |-> 0]
    /\ caller = [r \in Requests |-> "idle"]
    /\ allowed = [i \in {} |-> 0] /\ calls = 0 /\ stops = 0

Next == Tick \/ \E r \in Requests : consume(r) \/ SetExpiry(r) \/ Stops(r)

Spec == Init /\ [][Next]_vars

-----------------------------------------------------------------------------
\* However late the expiry is set and whoever stops before setting it: a stretch as
\* long as the window meets two fixed windows, and not the first request of the
\* earlier one, so fewer than twice the limit pass in it.
FewerThanTwice ==
    \A start \in 1..now :
        Cardinality({i \in DOMAIN allowed : start <= allowed[i] /\ allowed[i] < start + WindowMs})
            < 2 * Limit
==============================================================================
