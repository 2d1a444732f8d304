---------------------------- MODULE Notifications ----------------------------
(***************************************************************************)
(* The consumer of the domain events that sends mail, which is             *)
(* NotificationDispatcher, for one user whose preference may change        *)
(* (NotificationPreferencesService of apps/api) while jobs wait.  Sending  *)
(* and logging are two steps; what throws in either is logged as FAILED    *)
(* and thrown again, so that the queue retries it.                         *)
(*                                                                         *)
(* The user row is never missing: it is committed before its events are    *)
(* published, and erasure keeps it.                                        *)
(***************************************************************************)
EXTENDS EventQueue

CONSTANTS
    Kind,           \* Events -> "welcome", "reset", or "other" for the types not wired
    MaxChanges      \* bound: changes of the preference

VARIABLES
    optedIn,        \* EMAIL and SYSTEM; SECURITY_ALERT cannot be changed
    mails,          \* Events -> mails that went out
    log,            \* Events -> rows of "NotificationLog": SENT, FAILED
    suppressed,     \* events whose mail the preference held back (ghost)
    changes

nvars == <<optedIn, mails, log, suppressed, changes>>
vars == <<qvars, nvars>>

\* updatePreference; the event it publishes has no consumer.
updatePreference ==
    /\ changes < MaxChanges
    /\ changes' = changes + 1
    /\ optedIn' = ~ optedIn
    /\ UNCHANGED <<qvars, mails, log, suppressed>>

Handled(w) == handled' = handled \cup {run[w].event} /\ Goes(w, "ack", NoEvent)

\* Events of a type that is not wired are done at once.
dispatch(w) ==
    /\ run[w].pc = "begin"
    /\ \/ Kind[run[w].event] = "other" /\ Handled(w)
       \/ Kind[run[w].event] = "welcome" /\ Goes(w, "preference", NoEvent) /\ UNCHANGED handled
       \/ Kind[run[w].event] = "reset" /\ Goes(w, "send", NoEvent) /\ UNCHANGED handled
    /\ UNCHANGED <<queue, job, faults, nvars>>

\* Password-reset mails never ask.
isOptedIn(w) ==
    /\ run[w].pc = "preference"
    /\ IF optedIn THEN Goes(w, "send", NoEvent) /\ UNCHANGED <<handled, suppressed>>
       ELSE Handled(w) /\ suppressed' = suppressed \cup {run[w].event}
    /\ UNCHANGED <<queue, job, faults, optedIn, mails, log, changes>>

send(w) ==
    /\ run[w].pc = "send"
    /\ mails' = [mails EXCEPT ![run[w].event] = @ + 1]
    /\ Goes(w, "log", NoEvent)
    /\ UNCHANGED <<queue, job, handled, faults, optedIn, log, suppressed, changes>>

writeSentLog(w) ==
    /\ run[w].pc = "log"
    /\ log' = [log EXCEPT ![run[w].event].SENT = @ + 1]
    /\ Handled(w)
    /\ UNCHANGED <<queue, job, faults, optedIn, mails, suppressed, changes>>

\* The mail server refuses, or the mail is out and its log cannot be written.
SendOrLogFails(w) ==
    /\ run[w].pc \in {"send", "log"} /\ faults < MaxFaults
    /\ faults' = faults + 1
    /\ Goes(w, "catch", NoEvent)
    /\ UNCHANGED <<queue, job, handled, nvars>>

\* Without the throw: the job counts as done.
SwallowError(w) ==
    /\ run[w].pc = "catch"
    /\ log' = [log EXCEPT ![run[w].event].FAILED = @ + 1]
    /\ Handled(w)
    /\ UNCHANGED <<queue, job, faults, optedIn, mails, suppressed, changes>>

LogAndRethrow(w) ==
    /\ run[w].pc = "catch"
    /\ log' = [log EXCEPT ![run[w].event].FAILED = @ + 1]
    /\ Rethrow(w)
    /\ UNCHANGED <<faults, optedIn, mails, suppressed, changes>>

\* What a query or the FAILED row itself throws is not caught.
Uncaught(w) == run[w].pc \in {"begin", "preference", "catch"} /\ Throws(w)

Init ==
    /\ QueueInit
    /\ optedIn = TRUE /\ changes = 0 /\ suppressed = {}
    /\ mails = [e \in Events |-> 0]
    /\ log = [e \in Events |-> [SENT |-> 0, FAILED |-> 0]]

Next ==
    \/ updatePreference
    \/ \E w \in Workers :
         \/ dispatch(w) \/ isOptedIn(w) \/ send(w) \/ writeSentLog(w)
         \/ SendOrLogFails(w) \/ LogAndRethrow(w)
         \/ (Take(w) \/ Ack(w) \/ Dies(w) \/ Uncaught(w)) /\ UNCHANGED nvars
    \/ \E e \in Events : (publish(e) \/ BackoffEnds(e) \/ Stalls(e)) /\ UNCHANGED nvars

Spec == Init /\ [][Next]_vars

-----------------------------------------------------------------------------
\* Whatever throws, stalls or dies: a job done has its mail out and logged as sent,
\* unless the preference held it back, which it never does to a password reset; no
\* row says SENT without a mail; and retries are all there is to repeat a mail:
\* no more go out than attempts failed, claims ran out, and one.
DoneMeansMailed ==
    \A e \in Events :
        /\ job[e].st = "done" /\ Kind[e] # "other" /\ e \notin suppressed => log[e].SENT > 0
        /\ e \in suppressed => Kind[e] = "welcome"
        /\ log[e].SENT <= mails[e]
        /\ mails[e] <= job[e].tries + job[e].stalls + 1
=============================================================================
