----------------------------- MODULE AuthClient -----------------------------
(***************************************************************************)
(* The browser client (createAuthClient) against the refresh endpoint: a   *)
(* tab whose calls carry the access token of an in-memory store, and which *)
(* answer a 401 by trading the refresh cookie for a new pair and trying    *)
(* once more.  Calls run side by side; nothing makes their refreshes take  *)
(* turns.                                                                  *)
(*                                                                         *)
(* Pairs of tokens are numbered as they are issued.  The server is what    *)
(* SessionRight promises of one session, with the number of the refresh    *)
(* token that is live; the model starts when the user has signed in.       *)
(***************************************************************************)
EXTENDS Naturals

CONSTANTS
    Calls,          \* slots for calls in flight
    Session,
    MaxPairs,       \* bound: token pairs issued
    MaxExpiries,    \* bound: times every access token so far has expired
    MaxFailures     \* bound: requests or answers lost, refreshes that stop half way

VARIABLES
    right,          \* of SessionRight
    live,           \* the refresh token the server would exchange, 0 without one
    issued,         \* token pairs issued
    expired,        \* access tokens up to this one have expired
    denied,         \* access tokens on the denylist
    jar,            \* the refresh cookie of the browser
    store,          \* access token of the session store, 0 when cleared
    call,           \* Calls -> where each is, and the tokens it holds
    signedOut,      \* why the client gave the session up, "no" while it has not (ghost)
    overlapped,     \* a refresh was sent while another was out (ghost)
    expiries, failures

vars == <<right, live, issued, expired, denied, jar, store, call, signedOut, overlapped,
          expiries, failures>>
server == <<right, live, issued, denied>>
time == <<expired, expiries>>

SR == INSTANCE SessionRight WITH SessionIds <- {Session}

Idle == [pc |-> "idle", token |-> 0, cookie |-> 0, boot |-> FALSE, retried |-> FALSE]
At(c, pc) == call[c].pc = pc
Goes(c, held) == call' = [call EXCEPT ![c] = held]
Out(c) == call[c].pc \in {"claim", "mint", "respond"}

Valid(token) == token > expired /\ token \notin denied

-----------------------------------------------------------------------------
(* authed and raw.                                                          *)

\* The pages are shown once the load has its answer.
authed(c) ==
    /\ At(c, "idle") /\ signedOut = "no"
    /\ \A d \in Calls : ~ call[d].boot
    /\ Goes(c, [Idle EXCEPT !.pc = "sent", !.token = store])
    /\ UNCHANGED <<server, time, jar, store, signedOut, overlapped, failures>>

\* A first 401 leads to bootstrapSession, a second one is the caller's.
Served(c) ==
    /\ At(c, "sent")
    /\ Goes(c, IF Valid(call[c].token) \/ call[c].retried THEN Idle
               ELSE [call[c] EXCEPT !.pc = "refresh"])
    /\ UNCHANGED <<server, time, jar, store, signedOut, overlapped, failures>>

-----------------------------------------------------------------------------
(* bootstrapSession, also what a page load begins with.                     *)

LoadPage(c) ==
    /\ \A d \in Calls : At(d, "idle")
    /\ signedOut = "no"
    /\ store' = 0
    /\ Goes(c, [Idle EXCEPT !.pc = "refresh", !.boot = TRUE])
    /\ UNCHANGED <<server, time, jar, signedOut, overlapped, failures>>

SendRefresh(c) ==
    /\ At(c, "refresh")
    /\ Goes(c, [call[c] EXCEPT !.pc = "claim", !.cookie = jar])
    /\ overlapped' = (overlapped \/ \E d \in Calls \ {c} : Out(d))
    /\ UNCHANGED <<server, time, jar, store, signedOut, failures>>

\* The server claims the live token.  Any other one is reuse: what is usable is
\* revoked, and the session's current access token denylisted.
ClaimCookie(c) ==
    /\ At(c, "claim")
    /\ IF call[c].cookie = live
       THEN /\ SR!Exchange(Session)
            /\ live' = 0
            /\ Goes(c, [call[c] EXCEPT !.pc = "mint"])
            /\ UNCHANGED denied
       ELSE /\ IF right[Session] = "usable" THEN SR!Lose({Session}) ELSE UNCHANGED right
            /\ live' = 0
            /\ denied' = denied \cup {issued}
            /\ Goes(c, [call[c] EXCEPT !.pc = "refused"])
    /\ UNCHANGED <<issued, time, jar, store, signedOut, overlapped, failures>>

MintPair(c) ==
    /\ At(c, "mint") /\ issued < MaxPairs
    /\ SR!Mint(Session)
    /\ issued' = issued + 1 /\ live' = issued + 1
    /\ Goes(c, [call[c] EXCEPT !.pc = "respond", !.cookie = issued + 1])
    /\ UNCHANGED <<denied, time, jar, store, signedOut, overlapped, failures>>

\* As the answer would be without credentials: 'include': its cookie is dropped.
PairArrivesUnstored(c) ==
    /\ At(c, "respond")
    /\ Goes(c, [call[c] EXCEPT !.pc = "me", !.token = call[c].cookie])
    /\ UNCHANGED <<server, time, jar, store, signedOut, overlapped, failures>>

\* The browser keeps the cookie; the client asks who it is with the new token.
PairArrives(c) ==
    /\ At(c, "respond")
    /\ jar' = call[c].cookie
    /\ Goes(c, [call[c] EXCEPT !.pc = "me", !.token = call[c].cookie])
    /\ UNCHANGED <<server, time, store, signedOut, overlapped, failures>>

\* setSession, and one more try with what the store now holds; or clear.
KnowsUser(c) ==
    /\ At(c, "me")
    /\ IF Valid(call[c].token)
       THEN /\ store' = call[c].token
            /\ Goes(c, IF call[c].boot THEN Idle
                       ELSE [Idle EXCEPT !.pc = "sent", !.token = store', !.retried = TRUE])
            /\ UNCHANGED signedOut
       ELSE /\ store' = 0 /\ signedOut' = "expired"
            /\ Goes(c, Idle)
    /\ UNCHANGED <<server, time, jar, overlapped, failures>>

\* A 401 to the refresh clears the store; the pages go to the login form.
GivesUp(c) ==
    /\ At(c, "refused")
    /\ store' = 0 /\ signedOut' = "refused"
    /\ Goes(c, Idle)
    /\ UNCHANGED <<server, time, jar, overlapped, failures>>

\* A request or an answer is lost, or the refresh stops between claim and mint:
\* bootstrapSession clears the store whatever the error, authed passes it on.
CallFails(c) ==
    /\ call[c].pc \in {"sent", "claim", "mint", "respond", "me"} /\ failures < MaxFailures
    /\ failures' = failures + 1
    /\ IF At(c, "sent") THEN UNCHANGED <<store, signedOut>> ELSE store' = 0 /\ signedOut' = "failed"
    /\ IF At(c, "mint") THEN SR!Lose({Session}) ELSE UNCHANGED right
    /\ Goes(c, Idle)
    /\ UNCHANGED <<live, issued, denied, time, jar, overlapped>>

\* The tab sat idle past the life of an access token.
Expire ==
    /\ expiries < MaxExpiries
    /\ expiries' = expiries + 1
    /\ expired' = issued
    /\ UNCHANGED <<server, jar, store, call, signedOut, overlapped, failures>>

Init ==
    /\ right = [s \in {Session} |-> "usable"]
    /\ live = 1 /\ issued = 1 /\ jar = 1 /\ store = 1
    /\ expired = 0 /\ denied = {}
    /\ call = [c \in Calls |-> Idle]
    /\ signedOut = "no" /\ overlapped = FALSE /\ expiries = 0 /\ failures = 0

Next ==
    \/ Expire
    \/ \E c \in Calls :
         \/ authed(c) \/ Served(c) \/ LoadPage(c) \/ SendRefresh(c) \/ ClaimCookie(c)
         \/ MintPair(c) \/ PairArrives(c) \/ KnowsUser(c) \/ GivesUp(c) \/ CallFails(c)

Spec == Init /\ [][Next]_vars

-----------------------------------------------------------------------------
\* While no two refreshes were out at once and nothing was lost, whatever expires
\* and whichever calls wait: the session is neither revoked nor given up, and the
\* cookie in the browser is the one the server would exchange.  The user is signed
\* out only when a pair just received expired before it was used.
OneRefreshAtATimeKeepsSession ==
    (~ overlapped /\ failures = 0) =>
        /\ right[Session] # "gone"
        /\ (\A c \in Calls : ~ Out(c)) => jar = live
        /\ signedOut \in {"no", "expired"}
=============================================================================
