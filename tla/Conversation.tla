---------------------------- MODULE Conversation ----------------------------
(***************************************************************************)
(* The orchestrator of ai-engine for one agent session: turns (requests    *)
(* that send a message), the rolling summary with its cache in every       *)
(* replica and its durable row, and the cost circuit breaker.              *)
(*                                                                         *)
(* Messages are numbered in the order of their rows.  A summary is the     *)
(* set of messages folded into it.  A turn is the steps between its        *)
(* statements, model calls and Redis commands; any of them may fail, which *)
(* ends the turn and leaves what was written.                              *)
(***************************************************************************)
EXTENDS Naturals, FiniteSets, Sequences

CONSTANTS
    Turns,          \* slots for requests in flight
    Replicas,       \* processes of ai-engine
    NoReplica,
    Trigger,        \* ROLLING_SUMMARY_TRIGGER_MESSAGE_COUNT
    Retain,         \* ROLLING_SUMMARY_RETAIN_RECENT_COUNT
    DegradeAt, StopAt,          \* thresholds of a minute's spend
    DegradeHour, StopHour,      \* and of an hour's
    Cost, EconomyCost,          \* of one call, by tier
    MaxMessages,    \* bound: rows of "AIMessage"
    MaxTies,        \* bound: messages stamped in the millisecond of the one before
    MaxMinutes,     \* bound: minutes of the hour
    MaxFailures     \* bound: turns that fail half way

ASSUME ConversationAssumption ==
    /\ Retain \in Nat \ {0} /\ Trigger \in Nat /\ Retain <= Trigger
    /\ {DegradeAt, StopAt, DegradeHour, StopHour, Cost, EconomyCost} \subseteq Nat \ {0}
    /\ EconomyCost <= Cost
    /\ {MaxMessages, MaxTies, MaxFailures} \subseteq Nat /\ MaxMinutes \in Nat \ {0}
    /\ IsFiniteSet(Turns) /\ NoReplica \notin Replicas

VARIABLES
    status,     \* of the session: "none", "ACTIVE", "ENDED"
    stamps,     \* createdAt of the messages, one after the other
    durable,    \* rollingSummary and summarizedThroughAt of the session row
    cache,      \* Replicas -> RollingSummaryCache entry
    turn,       \* Turns -> where each request is and what it holds
    minute, hour,   \* spend in the current buckets
    clock,
    failures

vars == <<status, stamps, durable, cache, turn, minute, hour, clock, failures>>

NoSummary == [through |-> 0, about |-> {}]
Messages == DOMAIN stamps

Idle == [pc |-> "idle", replica |-> NoReplica, read |-> 0, held |-> NoSummary,
         context |-> {}, price |-> 0]
At(t, pc) == turn[t].pc = pc
Goes(t, held) == turn' = [turn EXCEPT ![t] = held]

-----------------------------------------------------------------------------
(* The cost circuit breaker.                                                *)

\* resolveState, were the hour's bucket left out.
CheckOnlyMinute ==
    IF minute >= StopAt THEN "HARD_STOP" ELSE IF minute >= DegradeAt THEN "DEGRADE" ELSE "NONE"

resolveState ==
    IF minute >= StopAt \/ hour >= StopHour THEN "HARD_STOP"
    ELSE IF minute >= DegradeAt \/ hour >= DegradeHour THEN "DEGRADE" ELSE "NONE"

\* The turn goes on to step pc at the tier's price, or is refused.
resolveTierOrThrow(t, pc) ==
    /\ Goes(t, IF resolveState = "HARD_STOP" THEN Idle
               ELSE [turn[t] EXCEPT !.pc = pc,
                                    !.price = IF resolveState = "DEGRADE" THEN EconomyCost ELSE Cost])
    /\ UNCHANGED <<status, stamps, durable, cache, minute, hour, clock, failures>>

\* Both buckets are those of now, not those the breaker read.
recordUsage(t) ==
    /\ minute' = minute + turn[t].price
    /\ hour' = hour + turn[t].price

NextMinute ==
    /\ clock < MaxMinutes
    /\ clock' = clock + 1 /\ minute' = 0
    /\ UNCHANGED <<status, stamps, durable, cache, turn, hour, failures>>

-----------------------------------------------------------------------------
(* The session and its messages.                                            *)

startSession ==
    /\ status = "none"
    /\ status' = "ACTIVE"
    /\ UNCHANGED <<stamps, durable, cache, turn, minute, hour, clock, failures>>

\* Clears the cache of the replica that handles the request.
endSession ==
    /\ status # "none"
    /\ status' = "ENDED"
    /\ \E p \in Replicas : cache' = [cache EXCEPT ![p] = NoSummary]
    /\ UNCHANGED <<stamps, durable, turn, minute, hour, clock, failures>>

Ties == Cardinality({i \in Messages : i > 1 /\ stamps[i] = stamps[i - 1]})

CreateMessage ==
    LET last == IF stamps = <<>> THEN 0 ELSE stamps[Len(stamps)] IN
    /\ Len(stamps) < MaxMessages
    /\ \/ stamps' = Append(stamps, last + 1)
       \/ Ties < MaxTies /\ last > 0 /\ stamps' = Append(stamps, last)

-----------------------------------------------------------------------------
(* One turn: sendMessage and streamMessage.                                 *)

prepareGeneration(t) ==
    /\ At(t, "idle") /\ status = "ACTIVE"
    /\ \E p \in Replicas :
         Goes(t, [Idle EXCEPT !.pc = "user", !.replica = p, !.held = durable])
    /\ UNCHANGED <<status, stamps, durable, cache, minute, hour, clock, failures>>

CreateUserMessage(t) ==
    /\ At(t, "user")
    /\ CreateMessage
    /\ Goes(t, [turn[t] EXCEPT !.pc = "read"])
    /\ UNCHANGED <<status, durable, cache, minute, hour, clock, failures>>

\* The last k messages of a set.
Recent(set, k) == {i \in set : Cardinality({j \in set : j > i}) < k}

\* buildContext, did it take the cached summary with the boundary of the row.
buildContextMixed(t) ==
    LET c == turn[t]
        cached == IF cache[c.replica] # NoSummary
                  THEN [cache[c.replica] EXCEPT !.through = IF @ >= c.held.through THEN @ ELSE c.held.through]
                  ELSE c.held
        tail == {i \in Messages : stamps[i] > cached.through}
    IN  /\ At(t, "read")
        /\ cache' = cache
        /\ Goes(t, [c EXCEPT !.pc = IF Cardinality(tail) <= Trigger THEN "tier" ELSE "fold",
                             !.read = Len(stamps), !.held = cached, !.context = tail])
        /\ UNCHANGED <<status, stamps, durable, minute, hour, clock, failures>>

\* All messages are read; the cache of the replica is asked first, then the
\* row as it was when the turn began.
buildContext(t) ==
    LET c == turn[t]
        cached == IF cache[c.replica] # NoSummary THEN cache[c.replica] ELSE c.held
        tail == {i \in Messages : stamps[i] > cached.through}
    IN  /\ At(t, "read")
        /\ cache' = [cache EXCEPT ![c.replica] = cached]
        /\ Goes(t, [c EXCEPT !.pc = IF Cardinality(tail) <= Trigger THEN "tier" ELSE "fold",
                             !.read = Len(stamps), !.held = cached, !.context = tail])
        /\ UNCHANGED <<status, stamps, durable, minute, hour, clock, failures>>

CheckBeforeSummary(t) == At(t, "fold") /\ resolveTierOrThrow(t, "summarize")

\* summarize, were the boundary the last message read.
summarizeThroughLast(t) ==
    LET c == turn[t]
        recent == Recent(c.context, Retain)
        summary == [through |-> stamps[c.read], about |-> c.held.about \cup (c.context \ recent)]
    IN  /\ At(t, "summarize")
        /\ recordUsage(t)
        /\ cache' = [cache EXCEPT ![c.replica] = summary]
        /\ Goes(t, [c EXCEPT !.pc = "save", !.held = summary, !.context = recent, !.price = 0])
        /\ UNCHANGED <<status, stamps, durable, clock, failures>>

\* The older part of the tail joins the summary; its last message is the
\* boundary.  The cache is set as soon as the usage is recorded.
summarize(t) ==
    LET c == turn[t]
        recent == Recent(c.context, Retain)
        old == c.context \ recent
        last == CHOOSE i \in old : \A j \in old : j <= i
        summary == [through |-> stamps[last], about |-> c.held.about \cup old]
    IN  /\ At(t, "summarize")
        /\ recordUsage(t)
        /\ cache' = [cache EXCEPT ![c.replica] = summary]
        /\ Goes(t, [c EXCEPT !.pc = "save", !.held = summary, !.context = recent, !.price = 0])
        /\ UNCHANGED <<status, stamps, durable, clock, failures>>

SaveSummary(t) ==
    /\ At(t, "save")
    /\ durable' = turn[t].held
    /\ Goes(t, [turn[t] EXCEPT !.pc = "tier"])
    /\ UNCHANGED <<status, stamps, cache, minute, hour, clock, failures>>

CheckBeforeReply(t) == At(t, "tier") /\ resolveTierOrThrow(t, "generate")

\* The reply came (from the first provider, or from the second when the first
\* failed before any content) and its usage is recorded.
generate(t) ==
    /\ At(t, "generate")
    /\ recordUsage(t)
    /\ Goes(t, [Idle EXCEPT !.pc = "reply", !.replica = turn[t].replica])
    /\ UNCHANGED <<status, stamps, durable, cache, clock, failures>>

\* The session is not looked at again.
finalizeAssistantReply(t) ==
    /\ At(t, "reply")
    /\ CreateMessage
    /\ Goes(t, Idle)
    /\ UNCHANGED <<status, durable, cache, minute, hour, clock, failures>>

\* A statement, a model call or a command throws, or the process dies.
TurnFails(t) ==
    /\ ~ At(t, "idle") /\ failures < MaxFailures
    /\ failures' = failures + 1
    /\ Goes(t, Idle)
    /\ UNCHANGED <<status, stamps, durable, cache, minute, hour, clock>>

\* A replica starts again: its cache and its turns are gone.
ReplicaRestarts ==
    /\ failures < MaxFailures
    /\ failures' = failures + 1
    /\ \E p \in Replicas :
         /\ cache' = [cache EXCEPT ![p] = NoSummary]
         /\ turn' = [t \in Turns |-> IF turn[t].replica = p THEN Idle ELSE turn[t]]
    /\ UNCHANGED <<status, stamps, durable, minute, hour, clock>>

Init ==
    /\ status = "none" /\ stamps = <<>>
    /\ durable = NoSummary
    /\ cache = [p \in Replicas |-> NoSummary]
    /\ turn = [t \in Turns |-> Idle]
    /\ minute = 0 /\ hour = 0 /\ clock = 1
    /\ failures = 0

Next ==
    \/ startSession \/ endSession \/ NextMinute \/ ReplicaRestarts
    \/ \E t \in Turns :
         \/ prepareGeneration(t) \/ CreateUserMessage(t) \/ buildContext(t)
         \/ CheckBeforeSummary(t) \/ summarize(t) \/ SaveSummary(t)
         \/ CheckBeforeReply(t) \/ generate(t) \/ finalizeAssistantReply(t)
         \/ TurnFails(t)

Spec == Init /\ [][Next]_vars

-----------------------------------------------------------------------------
Summaries == {durable} \cup {cache[p] : p \in Replicas}

\* Stamps never decrease, summaries are of messages there are, and a turn holds
\* what its place in the code says.
TypeOK ==
    /\ status \in {"none", "ACTIVE", "ENDED"}
    /\ \A i, j \in Messages : i < j => stamps[i] <= stamps[j]
    /\ \A s \in Summaries : s.about \subseteq Messages
    /\ \A t \in Turns : /\ (At(t, "idle") <=> turn[t].replica = NoReplica)
                        /\ turn[t].read <= Len(stamps)
                        /\ turn[t].context \subseteq 1..turn[t].read
                        /\ turn[t].price \in {0, EconomyCost, Cost}
    /\ minute <= hour /\ clock \in 1..MaxMinutes /\ failures \in 0..MaxFailures

\* "So information isn't lost": what the model is sent, summary and context
\* together, covers every message the turn read, whichever replica served the
\* turns before, however old its cache or the row it read was, and wherever one
\* of them stopped; provided no two messages share a createdAt.
ContextComplete ==
    Ties = 0 => \A t \in Turns : turn[t].pc \in {"tier", "generate"} =>
        turn[t].held.about \cup turn[t].context = 1..turn[t].read

\* A summary, cached anywhere or stored, is of the messages up to its boundary:
\* overlapping turns may move the boundary back, never apart from the summary.
SummaryMatchesBoundary ==
    Ties = 0 => \A s \in Summaries : s.about = {i \in Messages : stamps[i] <= s.through}

\* The breaker is asked before the money is spent: a minute's and an hour's spend
\* overshoot their limit, by at most one call for every turn in flight.
OvershootBounded ==
    /\ minute < StopAt + Cardinality(Turns) * Cost
    /\ hour < StopHour + Cardinality(Turns) * Cost
=============================================================================
