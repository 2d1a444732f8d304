------------------------- MODULE ConversationProofs -------------------------
(***************************************************************************)
(* Theorems about Conversation, for any number of turns, replicas and      *)
(* messages, any thresholds and prices.  IInv, below, is the inductive     *)
(* invariant they come from.                                               *)
(***************************************************************************)
EXTENDS Conversation, FiniteSetTheorems, WellFoundedInduction, TLAPS

-----------------------------------------------------------------------------
(* The parts of the invariant.                                              *)

Summary == [through : Nat, about : SUBSET Nat]

Places == {"idle", "user", "read", "fold", "summarize", "save", "tier", "generate", "reply"}

Request == [pc : Places, replica : Replicas \cup {NoReplica}, read : Nat, held : Summary,
            context : SUBSET Nat, price : {0, EconomyCost, Cost}]

Shape ==
    /\ stamps \in Seq(Nat)
    /\ durable \in Summary
    /\ cache \in [Replicas -> Summary]
    /\ turn \in [Turns -> Request]
    /\ minute \in Nat /\ hour \in Nat /\ clock \in Nat /\ failures \in Nat

\* A turn read what there was to read, and holds what its place in the code
\* says; what it is about to fold is longer than the part that is kept.
Fit(c, n) ==
    /\ c \in Request
    /\ c.pc = "idle" <=> c.replica = NoReplica
    /\ c.read <= n /\ c.context \subseteq 1..c.read
    /\ c.held.about \subseteq 1..n
    /\ c.pc \in {"fold", "summarize"} =>
         \E a \in 1..c.read : c.context = a..c.read /\ a + Trigger <= c.read

NoTies == \A i \in Messages : i > 1 => stamps[i] # stamps[i - 1]

\* Without ties a stamp is the number of its message, a summary is of the
\* messages up to its boundary ...
Numbered == \A i \in Messages : stamps[i] = i

Exact(s, n) == s.through \in 0..n /\ s.about = 1..s.through

\* ... and the context goes on from there to the last message read.
Follows(c, n) ==
    /\ Exact(c.held, n)
    /\ c.pc \in {"fold", "summarize", "save", "tier", "generate"} =>
         /\ c.held.through <= c.read
         /\ c.context = (c.held.through + 1)..c.read

Exactly ==
    NoTies => /\ Numbered
              /\ \A s \in Summaries : Exact(s, Len(stamps))
              /\ \A t \in Turns : Follows(turn[t], Len(stamps))

\* The turns the breaker has let through to a call it has not been paid for.
Paying == {t \in Turns : turn[t].pc \in {"summarize", "generate"}}

\* What is spent, and what the calls under way may still cost.
Funded ==
    /\ minute + Cardinality(Paying) * Cost < StopAt + Cardinality(Turns) * Cost
    /\ hour + Cardinality(Paying) * Cost < StopHour + Cardinality(Turns) * Cost

IInv ==
    /\ Shape
    /\ TypeOK
    /\ \A t \in Turns : Fit(turn[t], Len(stamps))
    /\ Exactly
    /\ Funded

-----------------------------------------------------------------------------
(* The end of a sequence of messages.                                       *)

\* The least-number principle, for a set.
NatLess == {p \in Nat \X Nat : p[1] < p[2]}

LEMMA LeastNatural ==
    ASSUME NEW T \in SUBSET Nat, T # {}
    PROVE  \E n \in T : \A m \in T : n <= m
<1>1. NatLess = OpToRel(<, Nat)
  BY DEF NatLess, OpToRel
<1>2. IsWellFoundedOn(NatLess, Nat)
  BY ONLY <1>1, NatLessThanWellFounded, Zenon
<1>3. T \subseteq Nat
  OBVIOUS
<1>4. PICK n \in T : \A m \in T : ~(<<m, n>> \in NatLess)
  BY <1>2, <1>3, WFMin
<1>5. \A m \in T : ~(m < n)
  BY <1>4 DEF NatLess
<1> QED BY <1>5

\* The messages stamped after a boundary are the last ones.
LEMMA TailIsEnd ==
    ASSUME NEW s \in Seq(Nat), \A i, j \in DOMAIN s : i < j => s[i] <= s[j], NEW x \in Nat
    PROVE  \E a \in 1..(Len(s) + 1) : {i \in DOMAIN s : s[i] > x} = a..Len(s)
<1> DEFINE tail == {i \in DOMAIN s : s[i] > x}
<1>0. DOMAIN s = 1..Len(s) /\ Len(s) \in Nat /\ \A i \in 1..Len(s) : s[i] \in Nat
  OBVIOUS
<1>1. CASE tail = {}
  <2>1. tail = (Len(s) + 1)..Len(s)
    BY <1>0, <1>1
  <2> QED BY <1>0, <2>1
<1>2. CASE tail # {}
  <2>0. tail \in SUBSET Nat
    BY <1>0
  <2>1. PICK a \in tail : \A m \in tail : a <= m
    <3> HIDE DEF tail
    <3> QED BY <1>2, <2>0, LeastNatural
  <2>2. a \in 1..Len(s)
    BY <1>0
  <2>3. ASSUME NEW i \in a..Len(s) PROVE i \in tail
    <3>1. i \in DOMAIN s /\ a \in DOMAIN s /\ (i = a \/ a < i)
      BY <1>0, <2>2
    <3>2. s[a] <= s[i] /\ s[a] \in Nat /\ s[i] \in Nat
      BY <1>0, <3>1
    <3>3. s[a] > x
      OBVIOUS
    <3> QED BY <3>1, <3>2, <3>3
  <2>4. ASSUME NEW i \in tail PROVE i \in a..Len(s)
    BY <1>0, <2>1
  <2>5. tail = a..Len(s)
    BY <2>3, <2>4
  <2> QED BY <1>0, <2>2, <2>5
<1> QED BY <1>1, <1>2

\* The last k of an interval.
LEMMA RecentOfInterval ==
    ASSUME NEW a \in Nat, NEW b \in Nat, NEW k \in Nat
    PROVE  Recent(a..b, k) = {i \in a..b : i > b - k}
<1>1. ASSUME NEW i \in a..b
      PROVE  Cardinality({j \in a..b : j > i}) < k <=> i > b - k
  <2>1. {j \in a..b : j > i} = (i + 1)..b
    OBVIOUS
  <2>2. Cardinality((i + 1)..b) = IF i + 1 > b THEN 0 ELSE b - (i + 1) + 1
    BY FS_Interval
  <2>3. Cardinality((i + 1)..b) = b - i
    BY <2>2
  <2>4. Cardinality({j \in a..b : j > i}) = b - i
    BY <2>1, <2>3
  <2>5. b - i < k <=> i > b - k
    OBVIOUS
  <2> QED BY <2>4, <2>5
<1> QED BY <1>1 DEF Recent
-----------------------------------------------------------------------------
(* What one turn does.                                                      *)

LEMMA FitGrows ==
    ASSUME NEW c, NEW n \in Nat, NEW m \in Nat, n <= m, Fit(c, n)
    PROVE  Fit(c, m) /\ (Follows(c, n) => Follows(c, m))
<1>1. c.read \in Nat /\ c.held.about \subseteq 1..m
  BY DEF Fit, Request
<1>2. Fit(c, m)
  BY <1>1 DEF Fit
<1>3. Follows(c, n) => Follows(c, m)
  BY DEF Follows, Exact
<1> QED BY <1>2, <1>3

Older(c) == c.context \ Recent(c.context, Retain)

Folded(c) == [through |-> stamps[CHOOSE i \in Older(c) : \A j \in Older(c) : j <= i],
              about |-> c.held.about \cup Older(c)]

\* The older part of a long context is not empty, and its last message is the
\* one before the part that is kept.
LEMMA Folding ==
    ASSUME Shape, NEW c, Fit(c, Len(stamps)), c.pc = "summarize"
    PROVE  /\ Folded(c) \in Summary
           /\ Folded(c).about \subseteq Messages
           /\ Recent(c.context, Retain) = (c.read - Retain + 1)..c.read
           /\ Recent(c.context, Retain) \subseteq c.context
           /\ Numbered /\ Follows(c, Len(stamps)) =>
                /\ Exact(Folded(c), Len(stamps))
                /\ Folded(c).through = c.read - Retain
<1> DEFINE n == Len(stamps)
           b == c.read - Retain
<1>0. /\ n \in Nat /\ Messages = 1..n /\ \A i \in 1..n : stamps[i] \in Nat
      /\ Retain \in Nat \ {0} /\ Trigger \in Nat /\ Retain <= Trigger
  BY ConversationAssumption DEF Shape, Messages
<1>1. /\ c.read \in Nat /\ c.read <= n /\ c.held.about \subseteq 1..n
      /\ c.held \in Summary
  BY DEF Fit, Request
<1>2. PICK a \in 1..c.read : c.context = a..c.read /\ a + Trigger <= c.read
  BY DEF Fit
<1>3. b \in Nat /\ a <= b /\ b <= n /\ a \in Nat \ {0} /\ b >= 1
  BY <1>0, <1>1, <1>2
<1>4. Recent(c.context, Retain) = {i \in a..c.read : i > b}
  BY <1>0, <1>1, <1>2, RecentOfInterval
<1>5. Recent(c.context, Retain) = (b + 1)..c.read
  BY <1>3, <1>4
<1>6. Older(c) = a..b
  BY <1>0, <1>1, <1>2, <1>3, <1>4 DEF Older
<1>7. (CHOOSE i \in Older(c) : \A j \in Older(c) : j <= i) = b
  <2>1. \E i \in Older(c) : \A j \in Older(c) : j <= i
    BY <1>3, <1>6
  <2>2. PICK i : i = CHOOSE k \in Older(c) : \A j \in Older(c) : j <= k
    OBVIOUS
  <2>3. i \in a..b /\ \A j \in a..b : j <= i
    BY <1>6, <2>1, <2>2
  <2>4. i = b
    BY <1>3, <2>3
  <2> QED BY <2>2, <2>4
<1>8. Folded(c) = [through |-> stamps[b], about |-> c.held.about \cup a..b]
  BY <1>6, <1>7 DEF Folded
<1>9. c.held.about \cup a..b \subseteq 1..n
  BY <1>1, <1>3
<1>10. Folded(c) \in Summary /\ Folded(c).about \subseteq Messages
  BY <1>0, <1>3, <1>8, <1>9 DEF Summary
<1>11. ASSUME Numbered, Follows(c, n)
       PROVE  Exact(Folded(c), n) /\ Folded(c).through = b
  <2>1. stamps[b] = b
    BY <1>0, <1>3, <1>11 DEF Numbered
  <2>2. /\ c.held.about = 1..c.held.through /\ c.held.through \in 0..n
        /\ a..c.read = (c.held.through + 1)..c.read
    BY <1>2, <1>11 DEF Follows, Exact
  <2>3. a = c.held.through + 1
    BY <1>1, <1>2, <2>2
  <2>4. c.held.about \cup a..b = 1..b
    BY <1>3, <2>2, <2>3
  <2> QED BY <1>3, <1>8, <2>1, <2>4 DEF Exact
<1>12. Recent(c.context, Retain) \subseteq c.context
  BY DEF Recent
<1> QED BY <1>5, <1>10, <1>11, <1>12

\* What buildContext takes for the summary.
Cached(c) == IF cache[c.replica] # NoSummary THEN cache[c.replica] ELSE c.held

LEMMA CachedFits ==
    ASSUME IInv, NEW t \in Turns, ~At(t, "idle")
    PROVE  /\ Cached(turn[t]) \in Summary
           /\ Cached(turn[t]).about \subseteq Messages
           /\ NoTies => Exact(Cached(turn[t]), Len(stamps))
<1>1. turn[t] \in Request /\ turn[t].replica \in Replicas
  BY DEF IInv, Fit, Request, At
<1>2. cache[turn[t].replica] \in Summaries
  BY <1>1 DEF Summaries
<1>3. turn[t].held \in Summary /\ cache[turn[t].replica] \in Summary
  BY <1>1 DEF Request, IInv, Shape
<1>4. turn[t].held.about \subseteq Messages /\ cache[turn[t].replica].about \subseteq Messages
  BY <1>2 DEF IInv, Fit, TypeOK, Messages, Shape
<1>5. NoTies => /\ Exact(turn[t].held, Len(stamps))
                /\ Exact(cache[turn[t].replica], Len(stamps))
  BY <1>2 DEF IInv, Exactly, Follows
<1> QED BY <1>3, <1>4, <1>5 DEF Cached

-----------------------------------------------------------------------------
(* The messages and their stamps.                                           *)

Extends ==
    /\ stamps' \in Seq(Nat)
    /\ Len(stamps) <= Len(stamps')
    /\ \A i \in Messages : stamps'[i] = stamps[i]
    /\ \A i, j \in Messages' : i < j => stamps'[i] <= stamps'[j]
    /\ NoTies' => NoTies
    /\ NoTies' /\ Numbered => Numbered'

LEMMA SameStamps == ASSUME IInv, UNCHANGED stamps PROVE Extends
<1>1. Messages' = Messages
  BY DEF Messages
<1> QED BY <1>1 DEF Extends, IInv, Shape, TypeOK, NoTies, Numbered

\* A new message is stamped with the time of the last one, which is a tie, or a
\* later one, which without ties is its number.
LEMMA MessageExtends == ASSUME IInv, CreateMessage PROVE Extends
<1> DEFINE n == Len(stamps)
           last == IF stamps = <<>> THEN 0 ELSE stamps[n]
<1>0. /\ n \in Nat /\ stamps \in Seq(Nat) /\ Messages = 1..n
      /\ \A i \in 1..n : stamps[i] \in Nat
      /\ \A i, j \in 1..n : i < j => stamps[i] <= stamps[j]
  BY DEF IInv, Shape, TypeOK, Messages
<1>1. last \in Nat /\ (n = 0 => last = 0) /\ (n > 0 => n \in 1..n /\ last = stamps[n])
  BY <1>0
<1>2. PICK x \in Nat : /\ stamps' = Append(stamps, x)
                       /\ x = last + 1 \/ (x = last /\ last > 0)
  <2>1. stamps' = Append(stamps, last + 1) \/ (stamps' = Append(stamps, last) /\ last > 0)
    BY DEF CreateMessage
  <2> HIDE DEF last
  <2> QED BY <1>1, <2>1
<1>3. /\ stamps' \in Seq(Nat) /\ Len(stamps') = n + 1 /\ Messages' = 1..(n + 1)
      /\ \A i \in 1..n : stamps'[i] = stamps[i]
      /\ stamps'[n + 1] = x
  BY <1>0, <1>2 DEF Messages
<1> HIDE DEF last
<1>4. \A i \in 1..n : stamps[i] <= last
  <2> SUFFICES ASSUME NEW i \in 1..n PROVE stamps[i] <= last
    OBVIOUS
  <2>1. n > 0 /\ last = stamps[n] /\ n \in 1..n
    BY <1>0, <1>1
  <2>2. i = n \/ i < n
    BY <1>0
  <2>3. stamps[i] <= stamps[n]
    BY <1>0, <2>1, <2>2
  <2> QED BY <2>1, <2>3
<1>5. ASSUME NEW i \in 1..(n + 1), NEW j \in 1..(n + 1), i < j PROVE stamps'[i] <= stamps'[j]
  <2>1. i \in 1..n /\ (j \in 1..n \/ j = n + 1)
    BY <1>0, <1>5
  <2>2. CASE j \in 1..n
    BY <1>0, <1>3, <1>5, <2>1, <2>2
  <2>3. CASE j = n + 1
    <3>1. stamps'[i] <= last /\ stamps'[i] \in Nat /\ stamps'[j] = x
      BY <1>0, <1>3, <1>4, <2>1, <2>3
    <3> QED BY <1>1, <1>2, <3>1
  <2> QED BY <2>1, <2>2, <2>3
<1>6. ASSUME NoTies' PROVE NoTies
  <2> SUFFICES ASSUME NEW i \in 1..n, i > 1 PROVE stamps[i] # stamps[i - 1]
    BY <1>0 DEF NoTies
  <2>1. i \in 1..(n + 1) /\ i - 1 \in 1..n
    BY <1>0
  <2>2. stamps'[i] # stamps'[i - 1]
    BY <1>3, <1>6, <2>1 DEF NoTies
  <2> QED BY <1>3, <2>1, <2>2
<1>7. ASSUME NoTies', Numbered PROVE Numbered'
  <2>1. x = last + 1
    <3> SUFFICES ASSUME x = last, last > 0 PROVE FALSE
      BY <1>2
    <3>1. n > 0 /\ n + 1 \in 1..(n + 1) /\ n + 1 > 1 /\ (n + 1) - 1 = n /\ n \in 1..n
      BY <1>0, <1>1
    <3>2. stamps'[n + 1] # stamps'[n]
      BY <1>3, <1>7, <3>1 DEF NoTies
    <3> QED BY <1>1, <1>3, <3>1, <3>2
  <2>2. last = n
    BY <1>0, <1>1, <1>7 DEF Numbered
  <2>3. \A i \in 1..n : stamps[i] = i
    BY <1>0, <1>7 DEF Numbered
  <2> QED BY <1>0, <1>3, <2>1, <2>2, <2>3 DEF Numbered
<1>8. n <= Len(stamps')
  BY <1>0, <1>3
<1> QED BY <1>0, <1>3, <1>5, <1>6, <1>7, <1>8 DEF Extends

TurnStep(t) ==
    \/ prepareGeneration(t) \/ CreateUserMessage(t) \/ buildContext(t)
    \/ CheckBeforeSummary(t) \/ summarize(t) \/ SaveSummary(t)
    \/ CheckBeforeReply(t) \/ generate(t) \/ finalizeAssistantReply(t)
    \/ TurnFails(t)

SessionStep == startSession \/ endSession \/ NextMinute \/ ReplicaRestarts

LEMMA NextExtends == ASSUME IInv, [Next]_vars PROVE Extends
<1>1. CASE UNCHANGED vars
  BY <1>1, SameStamps DEF vars
<1>2. ASSUME NEW t \in Turns, CreateUserMessage(t) \/ finalizeAssistantReply(t) PROVE Extends
  BY <1>2, MessageExtends DEF CreateUserMessage, finalizeAssistantReply
<1>3. ASSUME NEW t \in Turns, TurnStep(t), ~CreateUserMessage(t), ~finalizeAssistantReply(t)
      PROVE  Extends
  BY <1>3, SameStamps
     DEF TurnStep, prepareGeneration, buildContext, CheckBeforeSummary, summarize, SaveSummary,
         CheckBeforeReply, generate, TurnFails, resolveTierOrThrow
<1>4. CASE SessionStep
  BY <1>4, SameStamps DEF SessionStep, startSession, endSession, NextMinute, ReplicaRestarts
<1> QED BY <1>1, <1>2, <1>3, <1>4 DEF Next, TurnStep, SessionStep

-----------------------------------------------------------------------------
(* Where a step leaves the turns.                                           *)

LEMMA IdleStands == ASSUME NEW n \in Nat PROVE Fit(Idle, n) /\ Follows(Idle, n)
<1>1. Idle \in Request
  BY DEF Idle, NoSummary, Request, Places, Summary
<1>2. Idle.held.about = 1..0 /\ Idle.held.through = 0 /\ Idle.pc = "idle"
  BY DEF Idle, NoSummary
<1>3. Fit(Idle, n)
  BY <1>1, <1>2 DEF Fit, Idle
<1>4. Idle.held.about = 1..Idle.held.through /\ Idle.held.through \in 0..n
  BY <1>2
<1> QED BY <1>2, <1>3, <1>4 DEF Follows, Exact

\* What a record is after a change of its place or price alone.
LEMMA Moved ==
    ASSUME NEW c \in Request, NEW p \in Places
    PROVE  /\ [c EXCEPT !.pc = p] \in Request
           /\ [c EXCEPT !.pc = p].pc = p
           /\ [c EXCEPT !.pc = p].replica = c.replica /\ [c EXCEPT !.pc = p].read = c.read
           /\ [c EXCEPT !.pc = p].held = c.held /\ [c EXCEPT !.pc = p].context = c.context
BY DEF Request

Stands(x) == Fit(x, Len(stamps)) /\ (NoTies => Follows(x, Len(stamps)))

LEMMA PrepareMoves ==
    ASSUME IInv, NEW t \in Turns, prepareGeneration(t)
    PROVE  \E x : turn' = [turn EXCEPT ![t] = x] /\ Stands(x)
<1>1. PICK p \in Replicas : turn' = [turn EXCEPT ![t] = [Idle EXCEPT !.pc = "user", !.replica = p,
                                                                    !.held = durable]]
  BY DEF prepareGeneration, Goes
<1> DEFINE x == [Idle EXCEPT !.pc = "user", !.replica = p, !.held = durable]
<1>2. durable \in Summary /\ Len(stamps) \in Nat /\ durable.about \subseteq 1..Len(stamps)
  BY DEF IInv, Shape, TypeOK, Summaries, Messages
<1>3. /\ x \in Request /\ x.pc = "user" /\ x.replica = p /\ x.held = durable
      /\ x.read = 0 /\ x.context = {}
  BY <1>2 DEF Idle, Request, Places
<1>4. p # NoReplica
  BY ConversationAssumption
<1>5. Fit(x, Len(stamps))
  BY <1>2, <1>3, <1>4 DEF Fit
<1>6. NoTies => Exact(durable, Len(stamps))
  BY DEF IInv, Exactly, Summaries
<1>7. NoTies => Follows(x, Len(stamps))
  BY <1>3, <1>6 DEF Follows
<1> QED BY <1>1, <1>5, <1>7 DEF Stands

LEMMA ContextMoves ==
    ASSUME IInv, NEW t \in Turns, buildContext(t)
    PROVE  \E x : turn' = [turn EXCEPT ![t] = x] /\ Stands(x)
<1> DEFINE c == turn[t]
           n == Len(stamps)
           s == Cached(c)
           tail == {i \in Messages : stamps[i] > s.through}
           p == IF Cardinality(tail) <= Trigger THEN "tier" ELSE "fold"
           x == [c EXCEPT !.pc = p, !.read = n, !.held = s, !.context = tail]
<1>1. turn' = [turn EXCEPT ![t] = x]
  BY DEF buildContext, Cached, Goes
<1>2. c \in Request /\ c.replica # NoReplica /\ n \in Nat /\ Messages = 1..n
  BY DEF buildContext, At, IInv, Fit, Shape, Messages
<1>3. s \in Summary /\ s.about \subseteq 1..n /\ (NoTies => Exact(s, n))
  BY <1>2, CachedFits DEF buildContext, At
<1> HIDE DEF s
<1>4. s.through \in Nat
  BY <1>3 DEF Summary
<1>5. PICK a \in 1..(n + 1) : tail = a..n
  BY <1>2, <1>4, TailIsEnd DEF IInv, Shape, TypeOK, Messages
<1>6. /\ x \in Request /\ x.pc = p /\ x.replica = c.replica /\ x.read = n /\ x.held = s
      /\ x.context = tail
  <2>1. p \in Places
    BY DEF Places
  <2>2. tail \in SUBSET Nat
    BY <1>2
  <2> HIDE DEF p, tail
  <2> QED BY <1>2, <1>3, <2>1, <2>2 DEF Request
<1>7. ASSUME p = "fold" PROVE a \in 1..n /\ a + Trigger <= n
  <2>0. a \in Int /\ n \in Int
    BY <1>2
  <2>1. Cardinality(a..n) = IF a > n THEN 0 ELSE n - a + 1
    BY <2>0, FS_Interval
  <2>2. ~(Cardinality(a..n) <= Trigger)
    <3> HIDE DEF tail
    <3> QED BY <1>5, <1>7
  <2> QED BY <1>2, <2>1, <2>2, ConversationAssumption
<1>8. p \in {"tier", "fold"}
  OBVIOUS
<1> HIDE DEF p, x
<1>9. Fit(x, n)
  BY <1>2, <1>3, <1>5, <1>6, <1>7, <1>8 DEF Fit
<1>10. ASSUME NoTies PROVE Follows(x, n)
  <2>1. \A i \in 1..n : stamps[i] = i
    BY <1>2, <1>10 DEF IInv, Exactly, Numbered
  <2>2. s.through \in 0..n
    BY <1>3, <1>10 DEF Exact
  <2>3. tail = (s.through + 1)..n
    BY <1>2, <2>1, <2>2
  <2> QED BY <1>3, <1>6, <1>10, <2>2, <2>3 DEF Follows
<1> QED BY <1>1, <1>9, <1>10 DEF Stands

LEMMA CheckMoves ==
    ASSUME IInv, NEW t \in Turns, NEW p, resolveTierOrThrow(t, p),
           \/ At(t, "fold") /\ p = "summarize"
           \/ At(t, "tier") /\ p = "generate"
    PROVE  \E x : turn' = [turn EXCEPT ![t] = x] /\ Stands(x)
<1> DEFINE c == turn[t]
           q == IF resolveState = "DEGRADE" THEN EconomyCost ELSE Cost
           x == [c EXCEPT !.pc = p, !.price = q]
<1>1. turn' = [turn EXCEPT ![t] = Idle] \/ turn' = [turn EXCEPT ![t] = x]
  BY DEF resolveTierOrThrow, Goes
<1>2. p \in Places /\ p # "idle" /\ q \in {0, EconomyCost, Cost} /\ Len(stamps) \in Nat
  BY DEF Places, IInv, Shape
<1>3. Fit(c, Len(stamps)) /\ c \in Request /\ (NoTies => Follows(c, Len(stamps)))
  BY DEF IInv, Fit, Exactly
<1> HIDE DEF q
<1>4. /\ x \in Request /\ x.pc = p /\ x.replica = c.replica /\ x.read = c.read
      /\ x.held = c.held /\ x.context = c.context
  BY <1>2, <1>3 DEF Request
<1> HIDE DEF x
<1>5. Fit(x, Len(stamps)) /\ (NoTies => Follows(x, Len(stamps)))
  BY <1>3, <1>4 DEF At, Fit, Follows
<1> QED BY <1>1, <1>2, <1>5, IdleStands DEF Stands

LEMMA SummarizeMoves ==
    ASSUME IInv, NEW t \in Turns, summarize(t)
    PROVE  \E x : turn' = [turn EXCEPT ![t] = x] /\ Stands(x)
<1> DEFINE c == turn[t]
           s == Folded(c)
           k == Recent(c.context, Retain)
           x == [c EXCEPT !.pc = "save", !.held = s, !.context = k, !.price = 0]
<1>1. turn' = [turn EXCEPT ![t] = x]
  BY DEF summarize, Goes, Folded, Older
<1>2. Fit(c, Len(stamps)) /\ c \in Request /\ c.pc = "summarize" /\ Len(stamps) \in Nat
      /\ c.read \in Nat
  BY DEF summarize, At, IInv, Fit, Shape, Request
<1>3. /\ s \in Summary /\ s.about \subseteq 1..Len(stamps)
      /\ k = (c.read - Retain + 1)..c.read /\ k \subseteq c.context
      /\ Numbered /\ Follows(c, Len(stamps)) =>
           Exact(s, Len(stamps)) /\ s.through = c.read - Retain
  BY <1>2, Folding DEF IInv, Shape, Messages
<1> HIDE DEF s, k
<1>4. /\ x \in Request /\ x.pc = "save" /\ x.replica = c.replica /\ x.read = c.read
      /\ x.held = s /\ x.context = k
  <2>1. k \in SUBSET Nat
    BY <1>2, <1>3 DEF Request
  <2> QED BY <1>2, <1>3, <2>1 DEF Request, Places
<1> HIDE DEF x
<1>5. Fit(x, Len(stamps))
  BY <1>2, <1>3, <1>4 DEF Fit
<1>6. ASSUME NoTies PROVE Follows(x, Len(stamps))
  <2>1. Exact(s, Len(stamps)) /\ s.through = c.read - Retain
    BY <1>3, <1>6 DEF IInv, Exactly
  <2> QED BY <1>2, <1>3, <1>4, <2>1, ConversationAssumption DEF Follows
<1> QED BY <1>1, <1>5, <1>6 DEF Stands

\* The turns whose record stays but for the place.
LEMMA PlaceMoves ==
    ASSUME IInv, NEW t \in Turns, CreateUserMessage(t) \/ SaveSummary(t)
    PROVE  \E x : turn' = [turn EXCEPT ![t] = x] /\ Stands(x)
<1> DEFINE c == turn[t]
<1>1. Fit(c, Len(stamps)) /\ c \in Request /\ (NoTies => Follows(c, Len(stamps)))
  BY DEF IInv, Fit, Exactly
<1>2. CASE CreateUserMessage(t)
  <2> DEFINE x == [c EXCEPT !.pc = "read"]
  <2>1. "read" \in Places /\ turn' = [turn EXCEPT ![t] = x] /\ c.pc = "user"
    BY <1>2 DEF Places, CreateUserMessage, Goes, At
  <2>2. /\ x \in Request /\ x.pc = "read" /\ x.replica = c.replica /\ x.read = c.read
        /\ x.held = c.held /\ x.context = c.context
    BY <1>1, <2>1, Moved
  <2> HIDE DEF x
  <2> QED BY <1>1, <2>1, <2>2 DEF Stands, Fit, Follows
<1>3. CASE SaveSummary(t)
  <2> DEFINE x == [c EXCEPT !.pc = "tier"]
  <2>1. "tier" \in Places /\ turn' = [turn EXCEPT ![t] = x] /\ c.pc = "save"
    BY <1>3 DEF Places, SaveSummary, Goes, At
  <2>2. /\ x \in Request /\ x.pc = "tier" /\ x.replica = c.replica /\ x.read = c.read
        /\ x.held = c.held /\ x.context = c.context
    BY <1>1, <2>1, Moved
  <2> HIDE DEF x
  <2> QED BY <1>1, <2>1, <2>2 DEF Stands, Fit, Follows
<1> QED BY <1>2, <1>3

LEMMA LastMoves ==
    ASSUME IInv, NEW t \in Turns, generate(t) \/ finalizeAssistantReply(t) \/ TurnFails(t)
    PROVE  \E x : turn' = [turn EXCEPT ![t] = x] /\ Stands(x)
<1>0. Len(stamps) \in Nat
  BY DEF IInv, Shape
<1>1. CASE finalizeAssistantReply(t) \/ TurnFails(t)
  BY <1>0, <1>1, IdleStands DEF finalizeAssistantReply, TurnFails, Goes, Stands
<1>2. CASE generate(t)
  <2> DEFINE c == turn[t]
             x == [Idle EXCEPT !.pc = "reply", !.replica = c.replica]
  <2>1. turn' = [turn EXCEPT ![t] = x]
    BY <1>2 DEF generate, Goes
  <2>2. c.replica \in Replicas /\ c.replica # NoReplica
    BY <1>2 DEF generate, At, IInv, Fit, Request
  <2>3. /\ x \in Request /\ x.pc = "reply" /\ x.replica = c.replica /\ x.read = 0
        /\ x.held = NoSummary /\ x.context = {}
    BY <2>2 DEF Idle, Request, Places, Summary, NoSummary
  <2>4. NoSummary.about = 1..NoSummary.through /\ NoSummary.through \in 0..Len(stamps)
        /\ NoSummary.about \subseteq 1..Len(stamps)
    BY <1>0 DEF NoSummary
  <2> HIDE DEF x
  <2>5. Fit(x, Len(stamps))
    BY <1>0, <2>2, <2>3, <2>4 DEF Fit
  <2>6. Follows(x, Len(stamps))
    BY <2>3, <2>4 DEF Follows, Exact
  <2> QED BY <2>1, <2>5, <2>6 DEF Stands
<1> QED BY <1>1, <1>2

LEMMA StepMoves ==
    ASSUME IInv, NEW t \in Turns, TurnStep(t)
    PROVE  \E x : turn' = [turn EXCEPT ![t] = x] /\ Stands(x)
BY PrepareMoves, ContextMoves, CheckMoves, SummarizeMoves, PlaceMoves, LastMoves
   DEF TurnStep, CheckBeforeSummary, CheckBeforeReply

\* Every turn stands where it is, after a step of its own or of another.
LEMMA TurnsNext ==
    ASSUME IInv, [Next]_vars
    PROVE  /\ turn' \in [Turns -> Request]
           /\ \A t \in Turns : Fit(turn'[t], Len(stamps'))
           /\ NoTies' => \A t \in Turns : Follows(turn'[t], Len(stamps'))
<1>0. /\ Len(stamps) \in Nat /\ Len(stamps') \in Nat /\ Len(stamps) <= Len(stamps')
      /\ NoTies' => NoTies
      /\ turn \in [Turns -> Request]
  BY NextExtends DEF Extends, IInv, Shape
<1>1. \A t \in Turns : Stands(turn[t])
  BY DEF IInv, Exactly, Stands
<1>2. Stands(Idle)
  BY <1>0, IdleStands DEF Stands
<1>3. ASSUME NEW x, Stands(x)
      PROVE  Fit(x, Len(stamps')) /\ (NoTies' => Follows(x, Len(stamps')))
  BY <1>0, <1>3, FitGrows DEF Stands
<1>4. \A t \in Turns : Fit(turn'[t], Len(stamps')) /\ (NoTies' => Follows(turn'[t], Len(stamps')))
  <2>2. ASSUME NEW r \in Turns, TurnStep(r)
        PROVE  \A t \in Turns : /\ Fit(turn'[t], Len(stamps'))
                                /\ NoTies' => Follows(turn'[t], Len(stamps'))
    <3>1. PICK x : turn' = [turn EXCEPT ![r] = x] /\ Stands(x)
      BY <2>2, StepMoves
    <3>2. \A t \in Turns : turn'[t] = x \/ turn'[t] = turn[t]
      BY <1>0, <3>1
    <3> QED BY <1>1, <1>3, <3>1, <3>2
  <2>3. CASE ReplicaRestarts
    <3>1. \A t \in Turns : turn'[t] = Idle \/ turn'[t] = turn[t]
      BY <2>3 DEF ReplicaRestarts
    <3> QED BY <1>1, <1>2, <1>3, <3>1
  <2>4. CASE turn' = turn
    BY <1>1, <1>3, <2>4
  <2> QED BY <2>2, <2>3, <2>4 DEF Next, vars, TurnStep, startSession, endSession, NextMinute
<1>5. turn' \in [Turns -> Request]
  <2>1. ASSUME NEW r \in Turns, TurnStep(r) PROVE turn' \in [Turns -> Request]
    <3>1. PICK x : turn' = [turn EXCEPT ![r] = x] /\ x \in Request
      BY <2>1, StepMoves DEF Stands, Fit
    <3> QED BY <1>0, <3>1
  <2>2. CASE ReplicaRestarts
    <3>1. \A t \in Turns : turn'[t] \in Request
      BY <1>4 DEF Fit
    <3> QED BY <2>2, <3>1 DEF ReplicaRestarts
  <2>3. CASE turn' = turn
    BY <1>0, <2>3
  <2> QED BY <2>1, <2>2, <2>3 DEF Next, vars, TurnStep, startSession, endSession, NextMinute
<1> QED BY <1>4, <1>5

-----------------------------------------------------------------------------
(* The summaries, in the row and in the replicas' caches.                   *)

\* A summary that may be stored: of messages there are, up to its boundary.
Keepable(s) ==
    /\ s \in Summary
    /\ s.about \subseteq Messages
    /\ NoTies => Exact(s, Len(stamps))

LEMMA NoSummaryKept == ASSUME IInv PROVE Keepable(NoSummary)
<1>1. /\ NoSummary.about = 1..NoSummary.through /\ NoSummary.through \in 0..Len(stamps)
      /\ NoSummary.about = {} /\ NoSummary \in Summary
  BY DEF NoSummary, IInv, Shape, Summary
<1> QED BY <1>1 DEF Keepable, Exact

LEMMA AllKeepable ==
    ASSUME IInv
    PROVE  /\ Keepable(durable) /\ \A p \in Replicas : Keepable(cache[p])
           /\ \A t \in Turns : Keepable(turn[t].held)
<1>1. \A s \in Summaries : Keepable(s)
  BY DEF IInv, Shape, TypeOK, Exactly, Summaries, Keepable
<1>2. \A t \in Turns : Keepable(turn[t].held)
  BY DEF IInv, Shape, Fit, Request, Messages, Exactly, Follows, Keepable
<1> QED BY <1>1, <1>2 DEF Summaries

\* A step keeps or resets what is stored, or stores what a turn holds, takes
\* from a cache or has just folded.
LEMMA StoresKeepable ==
    ASSUME IInv, [Next]_vars
    PROVE  /\ Keepable(durable') /\ DOMAIN cache' = Replicas
           /\ \A p \in Replicas : Keepable(cache'[p])
           /\ cache' = [p \in Replicas |-> cache'[p]]
<1>0. cache \in [Replicas -> Summary]
  BY DEF IInv, Shape
<1> DEFINE Goal == /\ Keepable(durable') /\ DOMAIN cache' = Replicas
                   /\ \A p \in Replicas : Keepable(cache'[p])
                   /\ cache' = [p \in Replicas |-> cache'[p]]
<1>1. CASE cache' = cache /\ durable' = durable
  BY <1>0, <1>1, AllKeepable
<1>2. ASSUME NEW p, NEW s, Keepable(s), cache' = [cache EXCEPT ![p] = s], durable' = durable
      PROVE  Goal
  <2>1. \A q \in Replicas : cache'[q] = s \/ cache'[q] = cache[q]
    BY <1>0, <1>2
  <2> QED BY <1>0, <1>2, <2>1, AllKeepable
<1>3. CASE endSession \/ ReplicaRestarts
  BY <1>2, <1>3, NoSummaryKept DEF endSession, ReplicaRestarts
<1>4. ASSUME NEW t \in Turns, buildContext(t) PROVE Goal
  <2>1. cache' = [cache EXCEPT ![turn[t].replica] = Cached(turn[t])] /\ durable' = durable
    BY <1>4 DEF buildContext, Cached
  <2>2. Keepable(Cached(turn[t]))
    BY <1>4, CachedFits DEF buildContext, At, Keepable
  <2> QED BY <1>2, <2>1, <2>2
<1>5. ASSUME NEW t \in Turns, summarize(t) PROVE Goal
  <2>1. cache' = [cache EXCEPT ![turn[t].replica] = Folded(turn[t])] /\ durable' = durable
    BY <1>5 DEF summarize, Folded, Older
  <2>2. Keepable(Folded(turn[t]))
    BY <1>5, Folding DEF summarize, At, IInv, Exactly, Keepable
  <2> QED BY <1>2, <2>1, <2>2
<1>6. ASSUME NEW t \in Turns, SaveSummary(t) PROVE Goal
  BY <1>0, <1>6, AllKeepable DEF SaveSummary
<1> QED BY <1>1, <1>3, <1>4, <1>5, <1>6
        DEF Next, vars, startSession, NextMinute, prepareGeneration, CreateUserMessage,
            CheckBeforeSummary, CheckBeforeReply, resolveTierOrThrow, generate,
            finalizeAssistantReply, TurnFails

LEMMA SummariesNext ==
    ASSUME IInv, [Next]_vars
    PROVE  /\ durable' \in Summary /\ cache' \in [Replicas -> Summary]
           /\ \A s \in Summaries' : s.about \subseteq Messages'
           /\ NoTies' => \A s \in Summaries' : Exact(s, Len(stamps'))
<1>1. /\ \A s \in Summaries' : Keepable(s)
      /\ durable' \in Summary /\ cache' \in [Replicas -> Summary]
  BY StoresKeepable DEF Summaries, Keepable
<1>2. /\ Len(stamps) \in Nat /\ Len(stamps') \in Nat /\ Len(stamps) <= Len(stamps')
      /\ NoTies' => NoTies
      /\ Messages = 1..Len(stamps) /\ Messages' = 1..Len(stamps')
  BY NextExtends DEF Extends, IInv, Shape, Messages
<1>3. ASSUME NEW s \in Summaries'
      PROVE  s.about \subseteq Messages' /\ (NoTies' => Exact(s, Len(stamps')))
  BY <1>1, <1>2 DEF Keepable, Exact
<1> QED BY <1>1, <1>3

-----------------------------------------------------------------------------
(* The money.                                                               *)

LEMMA PayingFinite ==
    ASSUME IInv
    PROVE  /\ Cardinality(Paying) \in Nat /\ Cardinality(Turns) \in Nat
           /\ Cardinality(Paying) <= Cardinality(Turns)
           /\ IsFiniteSet(Paying)
<1>1. Paying \subseteq Turns /\ IsFiniteSet(Turns)
  BY ConversationAssumption DEF Paying
<1> QED BY <1>1, FS_Subset, FS_CardinalityType

\* What the arithmetic of the breaker comes to, for one bucket: a call let
\* through while the bucket is below its limit, a call paid, and a call that
\* ends unpaid or a bucket that starts again.
LEMMA Budget ==
    ASSUME NEW spent \in Nat, NEW limit \in Nat, NEW all \in Nat, NEW price \in Nat,
           NEW k \in Nat, NEW m \in Nat, m <= all, spent + k * price < limit + all * price
    PROVE  /\ spent < limit => spent + m * price < limit + all * price
           /\ m <= k => \A less \in 0..spent : less + m * price < limit + all * price
           /\ k = m + 1 => \A p \in 0..price : spent + p + m * price < limit + all * price
           /\ k <= all => spent < limit + all * price
<1>1. m * price \in Nat /\ k * price \in Nat /\ all * price \in Nat
  OBVIOUS
<1>2. m * price <= all * price
  OBVIOUS
<1>3. spent < limit => spent + m * price < limit + all * price
  BY <1>1, <1>2
<1>4. ASSUME m <= k, NEW less \in 0..spent PROVE less + m * price < limit + all * price
  <2>1. m * price <= k * price
    BY <1>4
  <2> QED BY <1>1, <2>1
<1>5. ASSUME k = m + 1, NEW p \in 0..price PROVE spent + p + m * price < limit + all * price
  <2>1. k * price = m * price + price
    BY <1>5
  <2> QED BY <1>1, <2>1
<1>6. spent < limit + all * price
  BY <1>1
<1> QED BY <1>3, <1>4, <1>5, <1>6

\* How the money moves: a call is paid and its turn paying no more, or the
\* breaker lets one more through with both buckets below their limits, or no
\* turn starts paying and no bucket grows.
LEMMA Pays ==
    ASSUME IInv, [Next]_vars
    PROVE  \/ \E t \in Paying : /\ Paying' = Paying \ {t}
                                /\ minute' = minute + turn[t].price /\ hour' = hour + turn[t].price
           \/ minute < StopAt /\ hour < StopHour /\ minute' = minute /\ hour' = hour
           \/ Paying' \subseteq Paying /\ minute' \in 0..minute /\ hour' = hour
<1> DEFINE Goal ==
           \/ \E t \in Paying : /\ Paying' = Paying \ {t}
                                /\ minute' = minute + turn[t].price /\ hour' = hour + turn[t].price
           \/ minute < StopAt /\ hour < StopHour /\ minute' = minute /\ hour' = hour
           \/ Paying' \subseteq Paying /\ minute' \in 0..minute /\ hour' = hour
<1>0. minute \in Nat /\ hour \in Nat /\ turn \in [Turns -> Request]
  BY DEF IInv, Shape
<1>1. ASSUME NEW t \in Turns, NEW x, turn' = [turn EXCEPT ![t] = x],
             x.pc \notin {"summarize", "generate"}
      PROVE  Paying' = Paying \ {t}
  BY <1>0, <1>1 DEF Paying
<1>2. Idle.pc = "idle"
  BY DEF Idle
<1>3. ASSUME NEW t \in Turns, NEW p, resolveTierOrThrow(t, p) PROVE Goal
  <2>1. CASE resolveState = "HARD_STOP"
    <3>1. turn' = [turn EXCEPT ![t] = Idle] /\ minute' = minute /\ hour' = hour
      BY <1>3, <2>1 DEF resolveTierOrThrow, Goes
    <3>2. Paying' = Paying \ {t}
      BY <1>1, <1>2, <3>1
    <3> QED BY <1>0, <3>1, <3>2
  <2>2. CASE resolveState # "HARD_STOP"
    <3>1. minute < StopAt /\ hour < StopHour
      BY <1>0, <2>2, ConversationAssumption DEF resolveState
    <3> QED BY <1>3, <3>1 DEF resolveTierOrThrow
  <2> QED BY <2>1, <2>2
<1>4. ASSUME NEW t \in Turns, summarize(t) PROVE Goal
  <2>1. PICK k, s : turn' = [turn EXCEPT ![t] = [turn[t] EXCEPT !.pc = "save", !.held = s,
                                                                !.context = k, !.price = 0]]
    BY <1>4 DEF summarize, Goes
  <2>2. [turn[t] EXCEPT !.pc = "save", !.held = s, !.context = k, !.price = 0].pc = "save"
    BY <1>0 DEF Request
  <2>3. Paying' = Paying \ {t}
    BY <1>1, <2>1, <2>2
  <2> QED BY <1>4, <2>3 DEF summarize, At, recordUsage, Paying
<1>5. ASSUME NEW t \in Turns, generate(t) PROVE Goal
  <2>1. turn' = [turn EXCEPT ![t] = [Idle EXCEPT !.pc = "reply", !.replica = turn[t].replica]]
    BY <1>5 DEF generate, Goes
  <2>2. [Idle EXCEPT !.pc = "reply", !.replica = turn[t].replica].pc = "reply"
    BY DEF Idle
  <2>3. Paying' = Paying \ {t}
    BY <1>1, <2>1, <2>2
  <2> QED BY <1>5, <2>3 DEF generate, At, recordUsage, Paying
<1>6. ASSUME NEW t \in Turns,
             \/ prepareGeneration(t) \/ CreateUserMessage(t) \/ buildContext(t) \/ SaveSummary(t)
             \/ finalizeAssistantReply(t) \/ TurnFails(t)
      PROVE  Goal
  <2>0. minute' = minute /\ hour' = hour
    BY <1>6 DEF prepareGeneration, CreateUserMessage, buildContext, SaveSummary,
                finalizeAssistantReply, TurnFails
  <2>1. PICK x : turn' = [turn EXCEPT ![t] = x] /\ x.pc \notin {"summarize", "generate"}
    <3>1. CASE finalizeAssistantReply(t) \/ TurnFails(t)
      BY <1>2, <3>1 DEF finalizeAssistantReply, TurnFails, Goes
    <3>2. CASE CreateUserMessage(t) \/ SaveSummary(t)
      <4>1. \A p : [turn[t] EXCEPT !.pc = p].pc = p
        BY <1>0 DEF Request
      <4> QED BY <3>2, <4>1 DEF CreateUserMessage, SaveSummary, Goes
    <3>3. CASE prepareGeneration(t)
      <4>1. PICK p : turn' = [turn EXCEPT ![t] = [Idle EXCEPT !.pc = "user", !.replica = p,
                                                             !.held = durable]]
        BY <3>3 DEF prepareGeneration, Goes
      <4>2. [Idle EXCEPT !.pc = "user", !.replica = p, !.held = durable].pc = "user"
        BY DEF Idle
      <4> QED BY <4>1, <4>2
    <3>4. CASE buildContext(t)
      <4> DEFINE s == Cached(turn[t])
                 k == {i \in Messages : stamps[i] > s.through}
                 p == IF Cardinality(k) <= Trigger THEN "tier" ELSE "fold"
                 x == [turn[t] EXCEPT !.pc = p, !.read = Len(stamps), !.held = s, !.context = k]
      <4>1. turn' = [turn EXCEPT ![t] = x]
        BY <3>4 DEF buildContext, Cached, Goes
      <4>2. p \notin {"summarize", "generate"}
        OBVIOUS
      <4> HIDE DEF s, k, p
      <4>3. x.pc = p
        BY <1>0 DEF Request
      <4> QED BY <4>1, <4>2, <4>3
    <3> QED BY <1>6, <3>1, <3>2, <3>3, <3>4
  <2>2. Paying' = Paying \ {t}
    BY <1>1, <2>1
  <2> QED BY <1>0, <2>0, <2>2
<1>7. CASE ReplicaRestarts
  <2>1. \A t \in Turns : turn'[t] = turn[t] \/ turn'[t].pc = "idle"
    BY <1>2, <1>7 DEF ReplicaRestarts
  <2>2. Paying' \subseteq Paying
    BY <2>1 DEF Paying
  <2> QED BY <1>0, <1>7, <2>2 DEF ReplicaRestarts
<1>8. CASE startSession \/ endSession \/ NextMinute \/ UNCHANGED vars
  <2>1. Paying' = Paying
    BY <1>8 DEF startSession, endSession, NextMinute, vars, Paying
  <2> QED BY <1>0, <1>8, <2>1 DEF startSession, endSession, NextMinute, vars
<1> QED BY <1>3, <1>4, <1>5, <1>6, <1>7, <1>8
        DEF Next, CheckBeforeSummary, CheckBeforeReply

LEMMA MoneyNext ==
    ASSUME IInv, [Next]_vars, turn' \in [Turns -> Request]
    PROVE  minute' \in Nat /\ hour' \in Nat /\ minute' <= hour' /\ Funded'
<1>0. /\ minute \in Nat /\ hour \in Nat /\ minute <= hour
      /\ StopAt \in Nat /\ StopHour \in Nat /\ Cost \in Nat /\ EconomyCost \in Nat
      /\ EconomyCost <= Cost
  BY ConversationAssumption DEF IInv, Shape, TypeOK
<1>1. \A t \in Turns : turn[t].price \in 0..Cost
  <2>1. \A t \in Turns : turn[t].price \in {0, EconomyCost, Cost}
    BY DEF IInv, TypeOK
  <2> QED BY <1>0, <2>1
<1>2. /\ Cardinality(Paying) \in Nat /\ Cardinality(Turns) \in Nat /\ IsFiniteSet(Paying)
  BY PayingFinite
<1>3. Paying' \subseteq Turns
  BY DEF Paying
<1>4. Cardinality(Paying') \in Nat /\ Cardinality(Paying') <= Cardinality(Turns)
  BY <1>3, FS_Subset, FS_CardinalityType, ConversationAssumption
<1>5. /\ minute + Cardinality(Paying) * Cost < StopAt + Cardinality(Turns) * Cost
      /\ hour + Cardinality(Paying) * Cost < StopHour + Cardinality(Turns) * Cost
  BY DEF IInv, Funded
<1>6. ASSUME NEW t \in Paying, Paying' = Paying \ {t},
             minute' = minute + turn[t].price, hour' = hour + turn[t].price
      PROVE  minute' \in Nat /\ hour' \in Nat /\ minute' <= hour' /\ Funded'
  <2>1. Cardinality(Paying) = Cardinality(Paying') + 1
    <3>1. Cardinality(Paying \ {t}) = Cardinality(Paying) - 1
      BY <1>2, FS_RemoveElement
    <3> QED BY <1>2, <1>4, <1>6, <3>1
  <2>2. turn[t].price \in 0..Cost /\ turn[t].price \in Nat
    BY <1>0, <1>1 DEF Paying
  <2>3. /\ minute + turn[t].price + Cardinality(Paying') * Cost < StopAt + Cardinality(Turns) * Cost
        /\ hour + turn[t].price + Cardinality(Paying') * Cost < StopHour + Cardinality(Turns) * Cost
    BY <1>0, <1>2, <1>4, <1>5, <2>1, <2>2, Budget
  <2>4. minute' \in Nat /\ hour' \in Nat /\ minute' <= hour'
    BY <1>0, <1>6, <2>2
  <2> QED BY <1>6, <2>3, <2>4 DEF Funded
<1>7. ASSUME minute < StopAt, hour < StopHour, minute' = minute, hour' = hour
      PROVE  Funded'
  <2>1. /\ minute + Cardinality(Paying') * Cost < StopAt + Cardinality(Turns) * Cost
        /\ hour + Cardinality(Paying') * Cost < StopHour + Cardinality(Turns) * Cost
    BY <1>0, <1>2, <1>4, <1>5, <1>7, Budget
  <2> QED BY <1>7, <2>1 DEF Funded
<1>8. ASSUME Paying' \subseteq Paying, minute' \in 0..minute, hour' = hour
      PROVE  minute' \in Nat /\ minute' <= hour' /\ Funded'
  <2>1. Cardinality(Paying') <= Cardinality(Paying)
    BY <1>2, <1>8, FS_Subset
  <2>2. hour \in 0..hour
    BY <1>0
  <2>3. /\ minute' + Cardinality(Paying') * Cost < StopAt + Cardinality(Turns) * Cost
        /\ hour + Cardinality(Paying') * Cost < StopHour + Cardinality(Turns) * Cost
    BY <1>0, <1>2, <1>4, <1>5, <1>8, <2>1, <2>2, Budget
  <2>4. minute' \in Nat /\ minute' <= hour
    BY <1>0, <1>8
  <2> QED BY <1>8, <2>3, <2>4 DEF Funded
<1> QED BY <1>0, <1>6, <1>7, <1>8, Pays

-----------------------------------------------------------------------------
(* The invariant holds, and what follows from it.                           *)

LEMMA InitInv == ASSUME Init PROVE IInv
<1>0. /\ Len(stamps) = 0 /\ Messages = {} /\ stamps \in Seq(Nat)
      /\ \A s \in Summaries : s = NoSummary
      /\ \A t \in Turns : turn[t] = Idle
  BY DEF Init, Messages, Summaries
<1>1. NoSummary.about = {} /\ NoSummary.through = 0 /\ NoSummary \in Summary
  BY DEF NoSummary, Summary
<1>2. \A t \in Turns : Fit(turn[t], Len(stamps)) /\ Follows(turn[t], Len(stamps))
  BY <1>0, IdleStands
<1>3. Shape
  <2>1. turn \in [Turns -> Request]
    BY <1>2 DEF Init, Fit
  <2> QED BY <1>0, <1>1, <2>1 DEF Shape, Init
<1>4. TypeOK
  <2>1. \A t \in Turns : /\ At(t, "idle") /\ turn[t].replica = NoReplica /\ turn[t].read = 0
                         /\ turn[t].context = {} /\ turn[t].price = 0
    BY <1>0 DEF At, Idle
  <2>2. minute <= hour /\ clock \in 1..MaxMinutes /\ failures \in 0..MaxFailures
    BY ConversationAssumption DEF Init
  <2>3. status \in {"none", "ACTIVE", "ENDED"}
    BY DEF Init
  <2> QED BY <1>0, <1>1, <2>1, <2>2, <2>3 DEF TypeOK
<1>5. Exactly
  <2>1. 0 \in 0..Len(stamps) /\ {} = 1..0
    BY <1>0
  <2>2. \A s \in Summaries : Exact(s, Len(stamps))
    BY <1>0, <1>1, <2>1 DEF Exact
  <2>3. Numbered
    BY <1>0 DEF Numbered
  <2> QED BY <1>2, <2>2, <2>3 DEF Exactly
<1>6. Funded
  <2>1. Paying = {}
    BY <1>0 DEF Paying, Idle
  <2>2. Cardinality(Paying) = 0 /\ Cardinality(Turns) \in Nat
    BY <2>1, FS_EmptySet, FS_CardinalityType, ConversationAssumption
  <2>3. /\ minute = 0 /\ hour = 0 /\ Cost \in Nat
        /\ StopAt \in Nat \ {0} /\ StopHour \in Nat \ {0}
    BY ConversationAssumption DEF Init
  <2>4. Cardinality(Turns) * Cost \in Nat /\ 0 * Cost = 0
    BY <2>2, <2>3
  <2> QED BY <2>2, <2>3, <2>4 DEF Funded
<1> QED BY <1>2, <1>3, <1>4, <1>5, <1>6 DEF IInv

LEMMA CountersNext ==
    ASSUME IInv, [Next]_vars
    PROVE  /\ status' \in {"none", "ACTIVE", "ENDED"}
           /\ clock' \in 1..MaxMinutes /\ failures' \in 0..MaxFailures
<1>1. /\ status \in {"none", "ACTIVE", "ENDED"} /\ clock \in 1..MaxMinutes
      /\ failures \in 0..MaxFailures /\ MaxMinutes \in Nat /\ MaxFailures \in Nat
  BY ConversationAssumption DEF IInv, TypeOK
<1>2. status' = status \/ status' \in {"ACTIVE", "ENDED"}
  BY DEF Next, vars, startSession, endSession, NextMinute, ReplicaRestarts, prepareGeneration,
         CreateUserMessage, buildContext, CheckBeforeSummary, CheckBeforeReply,
         resolveTierOrThrow, summarize, SaveSummary, generate, finalizeAssistantReply, TurnFails
<1>3. clock' = clock \/ (clock < MaxMinutes /\ clock' = clock + 1)
  BY DEF Next, vars, startSession, endSession, NextMinute, ReplicaRestarts, prepareGeneration,
         CreateUserMessage, buildContext, CheckBeforeSummary, CheckBeforeReply,
         resolveTierOrThrow, summarize, SaveSummary, generate, finalizeAssistantReply, TurnFails
<1>4. failures' = failures \/ (failures < MaxFailures /\ failures' = failures + 1)
  BY DEF Next, vars, startSession, endSession, NextMinute, ReplicaRestarts, prepareGeneration,
         CreateUserMessage, buildContext, CheckBeforeSummary, CheckBeforeReply,
         resolveTierOrThrow, summarize, SaveSummary, generate, finalizeAssistantReply, TurnFails
<1> QED BY <1>1, <1>2, <1>3, <1>4

LEMMA NextInv == ASSUME IInv, [Next]_vars PROVE IInv'
<1>1. /\ turn' \in [Turns -> Request]
      /\ \A t \in Turns : Fit(turn'[t], Len(stamps'))
      /\ NoTies' => \A t \in Turns : Follows(turn'[t], Len(stamps'))
  BY TurnsNext
<1>2. minute' \in Nat /\ hour' \in Nat /\ minute' <= hour' /\ Funded'
  BY <1>1, MoneyNext
<1>3. /\ status' \in {"none", "ACTIVE", "ENDED"}
      /\ clock' \in 1..MaxMinutes /\ failures' \in 0..MaxFailures
      /\ clock' \in Nat /\ failures' \in Nat
  BY CountersNext
<1>4. /\ durable' \in Summary /\ cache' \in [Replicas -> Summary]
      /\ \A s \in Summaries' : s.about \subseteq Messages'
      /\ NoTies' => \A s \in Summaries' : Exact(s, Len(stamps'))
  BY SummariesNext
<1>5. /\ stamps' \in Seq(Nat)
      /\ \A i, j \in Messages' : i < j => stamps'[i] <= stamps'[j]
      /\ NoTies' => Numbered'
  BY NextExtends DEF Extends, IInv, Exactly
<1>6. Shape'
  BY <1>1, <1>2, <1>3, <1>4, <1>5 DEF Shape
<1>7. TypeOK'
  <2>1. \A t \in Turns : /\ (turn'[t].pc = "idle" <=> turn'[t].replica = NoReplica)
                         /\ turn'[t].read <= Len(stamps')
                         /\ turn'[t].context \subseteq 1..turn'[t].read
                         /\ turn'[t].price \in {0, EconomyCost, Cost}
    BY <1>1 DEF Fit, Request
  <2> QED BY <1>2, <1>3, <1>4, <1>5, <2>1 DEF TypeOK, At
<1>8. Exactly'
  BY <1>1, <1>4, <1>5 DEF Exactly
<1> QED BY <1>1, <1>2, <1>6, <1>7, <1>8 DEF IInv

THEOREM Invariance == Spec => []IInv
<1>1. Init => IInv
  BY InitInv
<1>2. IInv /\ [Next]_vars => IInv'
  BY NextInv
<1> QED BY <1>1, <1>2, PTL DEF Spec

\* Ties, counted, are none.
LEMMA TiesCount == ASSUME IInv, Ties = 0 PROVE NoTies
<1> DEFINE tied == {i \in Messages : i > 1 /\ stamps[i] = stamps[i - 1]}
<1>1. Len(stamps) \in Nat /\ Messages = 1..Len(stamps)
  BY DEF IInv, Shape, Messages
<1>2. IsFiniteSet(Messages)
  BY <1>1, FS_Interval
<1>3. IsFiniteSet(tied) /\ Cardinality(tied) = 0
  BY <1>2, FS_Subset DEF Ties
<1>4. tied = {}
  <2> HIDE DEF tied
  <2> QED BY <1>3, FS_EmptySet
<1> QED BY <1>4 DEF NoTies

\* Turns, summaries and the breaker's counters keep their shape, whatever the
\* overlap of turns, restarts of replicas and failures of a turn.
THEOREM TypeCorrect == Spec => []TypeOK
<1>1. IInv => TypeOK
  BY DEF IInv
<1> QED BY <1>1, Invariance, PTL

\* "So information isn't lost": the summary and the context a model is sent
\* cover every message the turn read, for any number of turns and replicas
\* however stale their caches (ContextBuilderService.buildContext and
\* SummarizationService), provided no two messages share a createdAt.
THEOREM ContextsComplete == Spec => []ContextComplete
<1>1. IInv => ContextComplete
  <2> SUFFICES ASSUME IInv, Ties = 0, NEW t \in Turns, turn[t].pc \in {"tier", "generate"}
               PROVE  turn[t].held.about \cup turn[t].context = 1..turn[t].read
    BY DEF ContextComplete
  <2>1. Follows(turn[t], Len(stamps)) /\ turn[t] \in Request
    BY TiesCount DEF IInv, Exactly, Fit
  <2>2. /\ turn[t].held.about = 1..turn[t].held.through
        /\ turn[t].held.through <= turn[t].read
        /\ turn[t].context = (turn[t].held.through + 1)..turn[t].read
        /\ turn[t].held.through \in Nat /\ turn[t].read \in Nat
    BY <2>1 DEF Follows, Exact, Request, Summary
  <2> QED BY <2>2
<1> QED BY <1>1, Invariance, PTL

\* A summary, in the session row or in any replica's cache, is of the messages
\* up to its boundary: overlapping turns may take the boundary back, but never
\* part it from the summary, for the two are always written together.
THEOREM SummariesMatch == Spec => []SummaryMatchesBoundary
<1>1. IInv => SummaryMatchesBoundary
  <2> SUFFICES ASSUME IInv, Ties = 0, NEW s \in Summaries
               PROVE  s.about = {i \in Messages : stamps[i] <= s.through}
    BY DEF SummaryMatchesBoundary
  <2>1. /\ s.through \in 0..Len(stamps) /\ s.about = 1..s.through
        /\ Messages = 1..Len(stamps) /\ Len(stamps) \in Nat
        /\ \A i \in Messages : stamps[i] = i
    BY TiesCount DEF IInv, Exactly, Exact, Numbered, Messages, Shape
  <2> QED BY <2>1
<1> QED BY <1>1, Invariance, PTL

\* The spend of a minute and of an hour pass their limits by less than one call
\* of every turn in flight: the breaker reads the buckets before the call and
\* the usage is added after it, so every turn may have read them below the limit.
THEOREM OvershootIsBounded == Spec => []OvershootBounded
<1>1. IInv => OvershootBounded
  <2> SUFFICES ASSUME IInv PROVE OvershootBounded
    OBVIOUS
  <2>1. /\ minute \in Nat /\ hour \in Nat /\ StopAt \in Nat /\ StopHour \in Nat /\ Cost \in Nat
    BY ConversationAssumption DEF IInv, Shape
  <2>2. /\ minute < StopAt + Cardinality(Turns) * Cost
        /\ hour < StopHour + Cardinality(Turns) * Cost
    BY <2>1, PayingFinite, Budget DEF IInv, Funded
  <2> QED BY <2>2 DEF OvershootBounded
<1> QED BY <1>1, Invariance, PTL
=============================================================================
