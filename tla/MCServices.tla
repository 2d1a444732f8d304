----------------------------- MODULE MCServices -----------------------------
(* A behaviour is one of the services, as scenario says, and leaves the       *)
(* variables of the others as they are.  minutes: a conversation of more than *)
(* one minute in which nothing fails.  serial billing: webhooks for more      *)
(* events, as long as they are begun in order and one at a time.              *)
EXTENDS Services, TLC

CONSTANTS TwoMinutes, ThreeEvents

VARIABLE scenario

MCEmailOf == [i \in {"g1", "g2"} |-> IF i = "g1" THEN "a@x" ELSE "b@x"]
MCAddressOf == [u \in {"u1"} |-> "a@x"]
MCKind == <<"welcome", "reset", "other">>

Minutes == INSTANCE Conversation WITH MaxMinutes <- TwoMinutes, MaxTies <- 0, MaxFailures <- 0

Serial == INSTANCE Billing WITH
    MaxEvents <- ThreeEvents, Handlers <- Slots, failures <- hookFailures

MCInit ==
    /\ scenario \in {"conversation", "minutes", "billing", "serial billing", "lockout", "limiter",
                     "bearers", "browser", "sign-in", "mailer"}
    /\ Init /\ Webhooks!Init /\ Lockout!Init /\ Limiter!Init /\ Bearers!Init /\ Browser!Init
    /\ SignIn!Init /\ Mailer!Init

webhooks == <<sent, row, invoice, entitlement, announced, acked, hook, highest, disordered,
              hookFailures, repeats>>
mailer == <<queue, job, run, handled, faults, optedIn, mails, log, suppressed, changes>>
lockout == <<now, occurredAt, enrolled, verifying>>
limiter == <<time, counter, caller, allowed, calls, stops>>
bearers == <<ticks, claims, changedAt, outdated, token, denylist, denied, bearer, errors>>
browser == <<right, live, issued, expired, refused, jar, store, call, signedOut, overlapped,
             expiries, lost>>
signIn == <<user, state, account, origin, opened, req>>

MCNext ==
    /\ \/ /\ \/ scenario = "conversation" /\ Next
             \/ scenario = "minutes" /\ Minutes!Next
          /\ UNCHANGED <<webhooks, mailer, lockout, limiter, bearers, browser, signIn>>
       \/ /\ \/ scenario = "billing" /\ Webhooks!Next
             \/ scenario = "serial billing" /\ Serial!Next /\ ~ disordered'
          /\ UNCHANGED <<vars, mailer, lockout, limiter, bearers, browser, signIn>>
       \/ /\ scenario = "mailer" /\ Mailer!Next
          /\ UNCHANGED <<vars, webhooks, lockout, limiter, bearers, browser, signIn>>
       \/ /\ scenario = "lockout" /\ Lockout!Next
          /\ UNCHANGED <<vars, webhooks, mailer, limiter, bearers, browser, signIn>>
       \/ /\ scenario = "limiter" /\ Limiter!Next
          /\ UNCHANGED <<vars, webhooks, mailer, lockout, bearers, browser, signIn>>
       \/ /\ scenario = "bearers" /\ Bearers!Next
          /\ UNCHANGED <<vars, webhooks, mailer, lockout, limiter, browser, signIn>>
       \/ /\ scenario = "browser" /\ Browser!Next
          /\ UNCHANGED <<vars, webhooks, mailer, lockout, limiter, bearers, signIn>>
       \/ /\ scenario = "sign-in" /\ SignIn!Next
          /\ UNCHANGED <<vars, webhooks, mailer, lockout, limiter, bearers, browser>>
    /\ UNCHANGED scenario

MCSpec == MCInit /\ [][MCNext]_<<scenario, vars, webhooks, mailer, lockout, limiter, bearers, browser, signIn>>

Symmetry == Permutations(Slots) \cup Permutations(Replicas)
=============================================================================
