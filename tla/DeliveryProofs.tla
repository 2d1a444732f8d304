--------------------------- MODULE DeliveryProofs ---------------------------
(***************************************************************************)
(* Theorems about Recommendations and the queue it is a consumer of, for   *)
(* any number of events, workers, plans and nights: the queue implements   *)
(* what Delivery promises, but for its liveness (Implements), and serial   *)
(* delivery leaves the newest attempt in the plan (SerialDelivery).        *)
(***************************************************************************)
EXTENDS Recommendations, FiniteSetTheorems, TLAPS

-----------------------------------------------------------------------------
(* The queue and its consumer, whatever fails: parts of the invariant.      *)

Owners == Workers \cup {CHOOSE w \in Workers : TRUE}

JobRow == [st : JobState, tries : Nat, stalls : Nat, owner : Owners]

Hand == [event : Events \cup {NoEvent}, pc : {"idle", "begin", "write", "ack"},
         held : PlanIds \cup {NoEvent}]

PlanRow == [lang : Languages, event : Events, weak : BOOLEAN]

Night == [pc : {"idle", "next", "upsert", "readWeak", "weak", "publish"}, todo : SUBSET PlanIds,
          plan : PlanIds \cup {NoEvent}, xp : Nat, activities : Nat, weak : BOOLEAN,
          held : PlanRow \cup {NoPlan}]

QueueShape ==
    /\ queue \in Seq(Events) /\ job \in [Events -> JobRow] /\ run \in [Workers -> Hand]
    /\ handled \subseteq Events /\ faults \in Nat

\* A job is in the queue, once, while it waits and only then.
Queued ==
    /\ \A i \in 1..Len(queue) : job[queue[i]].st = "waiting"
    /\ \A i, j \in 1..Len(queue) : queue[i] = queue[j] => i = j

\* A worker has a published event in hand; at "ack" its handler has run.
InHand(w) ==
    LET c == run[w] IN
    /\ c.pc = "idle" => c = Free
    /\ c.pc # "idle" => c.event \in Events /\ job[c.event].st # "unsent"
    /\ c.pc = "ack" => c.event \in handled

QueueInv == QueueShape /\ Queued /\ \A w \in Workers : InHand(w)

-----------------------------------------------------------------------------
(* The rows, whatever fails.                                                *)

RowsShape ==
    /\ plan \in [PlanIds -> PlanRow \cup {NoPlan}]
    /\ job2 \in Night
    /\ disturbed \in BOOLEAN

\* The nightly job works on plans there are, and holds one that was there.
NightHolds ==
    /\ job2.todo \subseteq Active
    /\ job2.pc \notin {"idle", "next"} => job2.plan \in Active
    /\ job2.pc = "weak" => job2.held \in PlanRow

\* Attempts are published in the order they completed in.
SentInOrder ==
    \A e \in Events : job[e].st # "unsent" =>
        /\ e \in Publishable
        /\ \A k \in Publishable : job[k].st = "unsent" => e < k

\* A plan a worker found stays.
PlansHeld == \A w \in Workers : run[w].held # NoEvent => run[w].held \in Active

RowsInv == RowsShape /\ NightHolds /\ SentInOrder /\ PlansHeld

-----------------------------------------------------------------------------
(* As long as deliveries neither overlap nor fail.                          *)

Taken == {e \in Events : job[e].st \in {"active", "done"}}

\* Jobs are taken in the order of their attempts, each by the worker that has
\* it in hand, and done when they were handled.
InOrder ==
    /\ \A e \in Events : /\ job[e].st \notin {"delayed", "failed"}
                         /\ job[e].st = "active" =>
                              job[e].owner \in Workers /\ run[job[e].owner].event = e
                         /\ job[e].st = "done" => e \in handled
    /\ \A w \in Workers : run[w].pc # "idle" => Owns(w)
    /\ \A i, j \in 1..Len(queue) : i < j => queue[i] < queue[j]
    /\ \A e \in Taken, i \in 1..Len(queue) : e < queue[i]
    /\ handled \subseteq Taken

\* A worker that has not written yet has a newer attempt than all that were
\* handled; one that has read writes before any other reads, and what it read
\* is what there is.
OneAtATime ==
    /\ \A w \in Workers : Busy(w) => \A k \in handled : k < run[w].event
    /\ \A w \in Workers : run[w].pc = "write" =>
         LET c == run[w] IN
         /\ job2.pc # "weak"
         /\ \A v \in Workers : v # w /\ Busy(v) => run[v].pc = "begin" /\ c.event < run[v].event
         /\ IF c.held = NoEvent THEN Plans(LanguageOf[c.event]) = {}
                                ELSE c.held \in Plans(LanguageOf[c.event])

\* A language has one plan, from the newest attempt handled; the nightly job
\* writes back what is there.
Newest ==
    /\ \A p, q \in PlanIds : plan[p] # NoPlan /\ plan[q].lang = plan[p].lang => p = q
    /\ \A k \in handled, p \in PlanIds : plan[p].lang = LanguageOf[k] => k <= plan[p].event
    /\ job2.pc = "weak" => job2.held = plan[job2.plan]

Serially == ~disturbed /\ faults = 0 => InOrder /\ OneAtATime /\ Newest

IInv == QueueInv /\ RowsInv /\ Serially

-----------------------------------------------------------------------------
(* The queue: what its operators do.                                        *)

LEMMA Dequeued ==
    ASSUME NEW q \in Seq(Events), q # <<>>
    PROVE  /\ Head(q) \in Events /\ Tail(q) \in Seq(Events)
           /\ Len(q) \in Nat \ {0} /\ Head(q) = q[1]
           /\ Len(Tail(q)) = Len(q) - 1
           /\ \A i \in 1..Len(Tail(q)) : i + 1 \in 1..Len(q) /\ Tail(q)[i] = q[i + 1]
<1>1. Len(q) \in Nat /\ Len(q) # 0
  OBVIOUS
<1>2. Head(q) \in Events /\ Tail(q) \in Seq(Events) /\ Head(q) = q[1] /\ Len(Tail(q)) = Len(q) - 1
  OBVIOUS
<1>3. ASSUME NEW i \in 1..Len(Tail(q)) PROVE i + 1 \in 1..Len(q) /\ Tail(q)[i] = q[i + 1]
  BY <1>1, <1>2
<1> QED BY <1>1, <1>2, <1>3

LEMMA Enqueued ==
    ASSUME NEW q \in Seq(Events), NEW e \in Events
    PROVE  /\ Append(q, e) \in Seq(Events) /\ Len(q) \in Nat
           /\ Len(Append(q, e)) = Len(q) + 1 /\ Append(q, e)[Len(q) + 1] = e
           /\ \A i \in 1..Len(q) : Append(q, e)[i] = q[i]
           /\ \A i \in 1..Len(Append(q, e)) : i \in 1..Len(q) \/ i = Len(q) + 1
OBVIOUS

LEMMA Jumped ==
    ASSUME NEW q \in Seq(Events), NEW e \in Events
    PROVE  /\ (<<e>> \o q) \in Seq(Events) /\ Len(q) \in Nat
           /\ Len(<<e>> \o q) = Len(q) + 1 /\ (<<e>> \o q)[1] = e
           /\ \A i \in 1..Len(<<e>> \o q) : i = 1 \/ (i - 1 \in 1..Len(q) /\ (<<e>> \o q)[i] = q[i - 1])
OBVIOUS

\* A job that comes to wait at either end of the queue was not in it.
LEMMA JoinsQueue ==
    ASSUME QueueInv, NEW e \in Events, job[e].st # "waiting", job'[e].st = "waiting",
           \A k \in Events : k # e => job'[k] = job[k],
           queue' = Append(queue, e) \/ queue' = <<e>> \o queue
    PROVE  queue' \in Seq(Events) /\ Queued'
<1>0. queue \in Seq(Events) /\ \A i \in 1..Len(queue) : queue[i] \in Events
  BY DEF QueueInv, QueueShape
<1>1. \A i \in 1..Len(queue) : job[queue[i]].st = "waiting" /\ queue[i] # e
  BY DEF QueueInv, Queued
<1>2. CASE queue' = Append(queue, e)
  <2>1. queue' \in Seq(Events) /\ \A i \in 1..Len(queue') : job'[queue'[i]].st = "waiting"
    BY <1>0, <1>1, <1>2, Enqueued
  <2>2. ASSUME NEW i \in 1..Len(queue'), NEW j \in 1..Len(queue'), queue'[i] = queue'[j]
        PROVE  i = j
    <3>1. /\ \/ i \in 1..Len(queue) /\ queue'[i] = queue[i]
             \/ i = Len(queue) + 1 /\ queue'[i] = e
          /\ \/ j \in 1..Len(queue) /\ queue'[j] = queue[j]
             \/ j = Len(queue) + 1 /\ queue'[j] = e
      BY <1>0, <1>2, Enqueued
    <3> QED BY <1>1, <2>2, <3>1 DEF QueueInv, Queued
  <2> QED BY <2>1, <2>2 DEF Queued
<1>3. CASE queue' = <<e>> \o queue
  <2>1. queue' \in Seq(Events) /\ \A i \in 1..Len(queue') : job'[queue'[i]].st = "waiting"
    BY <1>0, <1>1, <1>3, Jumped
  <2>2. ASSUME NEW i \in 1..Len(queue'), NEW j \in 1..Len(queue'), queue'[i] = queue'[j]
        PROVE  i = j
    <3>1. /\ \/ i - 1 \in 1..Len(queue) /\ queue'[i] = queue[i - 1]
             \/ i = 1 /\ queue'[i] = e
          /\ \/ j - 1 \in 1..Len(queue) /\ queue'[j] = queue[j - 1]
             \/ j = 1 /\ queue'[j] = e
      BY <1>0, <1>3, Jumped
    <3>2. i - 1 \in 1..Len(queue) /\ j - 1 \in 1..Len(queue) => i - 1 = j - 1
      BY <2>2, <3>1, <1>1 DEF QueueInv, Queued
    <3> QED BY <1>1, <2>2, <3>1, <3>2
  <2> QED BY <2>1, <2>2 DEF Queued
<1> QED BY <1>2, <1>3

LEMMA SameQueue ==
    ASSUME QueueInv, queue' = queue,
           \A k \in Events : job[k].st = "waiting" => job'[k].st = "waiting"
    PROVE  queue' \in Seq(Events) /\ Queued'
<1>1. \A i \in 1..Len(queue) : queue[i] \in Events
  BY DEF QueueInv, QueueShape
<1> QED BY <1>1 DEF QueueInv, QueueShape, Queued

\* What is in other hands stays fit, and so does a hand left as it was.
LEMMA HandsStay ==
    ASSUME QueueInv, handled \subseteq handled',
           \A k \in Events : job[k].st # "unsent" => job'[k].st # "unsent",
           NEW w \in Workers, run'[w] = run[w] \/ run'[w] = Free
    PROVE  InHand(w)'
<1>1. InHand(w)
  BY DEF QueueInv
<1>2. CASE run'[w] = run[w]
  BY <1>1, <1>2 DEF InHand
<1>3. CASE run'[w] = Free
  BY <1>3 DEF InHand, Free
<1> QED BY <1>2, <1>3

LEMMA FreeIsHand == Free \in Hand /\ Free.pc = "idle" /\ Free.held = NoEvent /\ Free.event = NoEvent
BY DEF Free, Hand

LEMMA Gone ==
    ASSUME QueueShape, NEW w \in Workers, NEW pc \in {"write", "ack"},
           NEW held \in PlanIds \cup {NoEvent}, Goes(w, pc, held)
    PROVE  /\ run' \in [Workers -> Hand]
           /\ run'[w].event = run[w].event /\ run'[w].pc = pc /\ run'[w].held = held
           /\ \A v \in Workers : v # w => run'[v] = run[v]
<1>1. run[w] \in Hand
  BY DEF QueueShape
<1>2. run' = [run EXCEPT ![w] = [run[w] EXCEPT !.pc = pc, !.held = held]]
  BY <1>1 DEF Goes, QueueShape, Hand
<1>3. [run[w] EXCEPT !.pc = pc, !.held = held] \in Hand
  BY <1>1 DEF Hand
<1> QED BY <1>1, <1>2, <1>3 DEF QueueShape, Hand

LEMMA JobSet ==
    ASSUME job \in [Events -> JobRow], NEW e \in Events, NEW new \in JobRow,
           job' = [job EXCEPT ![e] = new]
    PROVE  /\ job' \in [Events -> JobRow]
           /\ job'[e] = new
           /\ \A k \in Events : k # e => job'[k] = job[k]
OBVIOUS

-----------------------------------------------------------------------------
(* The queue: its invariant, action by action, and what each step is of     *)
(* Delivery.                                                                *)

LEMMA QueueSends ==
    ASSUME QueueAssumption, QueueInv, NEW e \in Events, publish(e)
    PROVE  QueueInv' /\ D!Send(e)
<1> DEFINE new == [job[e] EXCEPT !.st = "waiting"]
<1>1. /\ job[e].st = "unsent" /\ queue' = Append(queue, e)
      /\ UNCHANGED <<run, handled, faults>>
      /\ job' = [job EXCEPT ![e] = new]
  BY DEF publish, QueueInv, QueueShape, JobRow
<1>2. new \in JobRow /\ new.st = "waiting"
  BY DEF QueueInv, QueueShape, JobRow, JobState
<1> HIDE DEF new
<1>3. /\ job' \in [Events -> JobRow] /\ job'[e].st = "waiting"
      /\ \A k \in Events : k # e => job'[k] = job[k]
  BY <1>1, <1>2, JobSet DEF QueueInv, QueueShape
<1>4. queue' \in Seq(Events) /\ Queued'
  BY <1>1, <1>3, JoinsQueue
<1>5. \A w \in Workers : InHand(w)'
  BY <1>1, <1>3, HandsStay
<1>6. QueueInv'
  BY <1>1, <1>3, <1>4, <1>5 DEF QueueInv, QueueShape
<1>7. D!Send(e)
  BY <1>1, <1>3 DEF D!Send, outcome
<1> QED BY <1>6, <1>7

LEMMA QueueTakes ==
    ASSUME QueueAssumption, QueueInv, NEW w \in Workers, Take(w)
    PROVE  QueueInv' /\ UNCHANGED <<outcome, handled>>
<1> DEFINE e == Head(queue)
           new == [job[e] EXCEPT !.st = "active", !.owner = w]
           hand == [event |-> e, pc |-> "begin", held |-> NoEvent]
<1>0. queue \in Seq(Events) /\ queue # <<>>
  BY DEF Take, QueueInv, QueueShape
<1>1. /\ run[w] = Free /\ run' = [run EXCEPT ![w] = hand]
      /\ queue' = Tail(queue) /\ UNCHANGED <<handled, faults>>
      /\ job' = [job EXCEPT ![e].st = "active", ![e].owner = w]
  BY DEF Take
<1>2. /\ e \in Events /\ Tail(queue) \in Seq(Events) /\ Len(queue) \in Nat \ {0} /\ e = queue[1]
      /\ Len(Tail(queue)) = Len(queue) - 1
      /\ \A i \in 1..Len(Tail(queue)) : i + 1 \in 1..Len(queue) /\ Tail(queue)[i] = queue[i + 1]
  BY <1>0, Dequeued
<1>3. job[e].st = "waiting"
  BY <1>2 DEF QueueInv, Queued
<1> HIDE DEF e
<1>4. job' = [job EXCEPT ![e] = new]
  BY <1>1, <1>2 DEF QueueInv, QueueShape, JobRow
<1>5. new \in JobRow /\ new.st = "active"
  BY <1>2 DEF QueueInv, QueueShape, JobRow, JobState, Owners
<1> HIDE DEF new
<1>6. /\ job' \in [Events -> JobRow] /\ job'[e].st = "active"
      /\ \A k \in Events : k # e => job'[k] = job[k]
  BY <1>2, <1>4, <1>5, JobSet DEF QueueInv, QueueShape
<1>7. hand \in Hand /\ hand.event = e /\ hand.pc = "begin"
  BY <1>2 DEF Hand
<1> HIDE DEF hand
<1>8. run' \in [Workers -> Hand] /\ run'[w] = hand /\ \A v \in Workers : v # w => run'[v] = run[v]
  BY <1>1, <1>7 DEF QueueInv, QueueShape
<1>9. ASSUME NEW v \in Workers PROVE InHand(v)'
  <2>1. CASE v = w
    BY <1>2, <1>6, <1>7, <1>8, <2>1 DEF InHand
  <2>2. CASE v # w
    BY <1>1, <1>6, <1>8, <2>2, HandsStay
  <2> QED BY <2>1, <2>2
<1>10. Queued'
  <2>1. \A i \in 1..Len(queue') : i + 1 \in 1..Len(queue) /\ queue'[i] = queue[i + 1]
                                  /\ queue[i + 1] \in Events /\ queue[i + 1] # e
    <3>1. ASSUME NEW i \in 1..Len(queue')
          PROVE  /\ i + 1 \in 1..Len(queue) /\ queue'[i] = queue[i + 1] /\ i + 1 # 1
                 /\ 1 \in 1..Len(queue)
      BY <1>1, <1>2
    <3>2. \A i \in 1..Len(queue) : queue[i] \in Events
      BY <1>0
    <3> QED BY <1>2, <3>1, <3>2 DEF QueueInv, Queued
  <2>2. \A i \in 1..Len(queue') : job'[queue'[i]].st = "waiting"
    BY <1>6, <2>1 DEF QueueInv, Queued
  <2>3. ASSUME NEW i \in 1..Len(queue'), NEW j \in 1..Len(queue'), queue'[i] = queue'[j]
        PROVE  i = j
    <3>1. i + 1 = j + 1
      BY <2>1, <2>3 DEF QueueInv, Queued
    <3> QED BY <3>1
  <2> QED BY <2>2, <2>3 DEF Queued
<1>11. QueueInv'
  BY <1>1, <1>2, <1>6, <1>8, <1>9, <1>10 DEF QueueInv, QueueShape
<1>12. \A k \in Events : outcome'[k] = outcome[k]
  BY <1>3, <1>6 DEF outcome
<1>13. outcome' = outcome
  BY <1>3, <1>6 DEF outcome
<1> QED BY <1>1, <1>11, <1>13

\* A worker that lets go of its job, whatever it says of it.
LEMMA LetsGo ==
    ASSUME QueueInv, NEW w \in Workers, run' = [run EXCEPT ![w] = Free],
           job' \in [Events -> JobRow], handled' = handled, faults' \in Nat, queue' = queue,
           \A k \in Events : /\ job[k].st = "waiting" => job'[k].st = "waiting"
                             /\ job[k].st # "unsent" => job'[k].st # "unsent"
    PROVE  QueueInv'
<1>1. queue' \in Seq(Events) /\ Queued'
  BY SameQueue
<1>2. run' \in [Workers -> Hand] /\ \A v \in Workers : run'[v] = run[v] \/ run'[v] = Free
  BY FreeIsHand DEF QueueInv, QueueShape
<1>3. \A v \in Workers : InHand(v)'
  BY <1>2, HandsStay
<1> QED BY <1>1, <1>2, <1>3 DEF QueueInv, QueueShape

LEMMA QueueAcks ==
    ASSUME QueueAssumption, QueueInv, NEW w \in Workers, Ack(w)
    PROVE  QueueInv' /\ (UNCHANGED <<outcome, handled>> \/ \E e \in Events : D!Done(e))
<1> DEFINE e == run[w].event
           new == [job[e] EXCEPT !.st = "done"]
<1>1. /\ run[w].pc = "ack" /\ run' = [run EXCEPT ![w] = Free]
      /\ UNCHANGED <<queue, handled, faults>>
      /\ job' = IF Owns(w) THEN [job EXCEPT ![e].st = "done"] ELSE job
  BY DEF Ack
<1>2. e \in Events /\ e \in handled
  BY <1>1 DEF QueueInv, InHand
<1>3. CASE ~Owns(w)
  <2>1. job' = job
    BY <1>1, <1>3
  <2>2. QueueInv'
    BY <1>1, <2>1, LetsGo DEF QueueInv, QueueShape
  <2> QED BY <1>1, <2>1, <2>2 DEF outcome
<1>4. CASE Owns(w)
  <2>1. job[e].st = "active"
    BY <1>4 DEF Owns
  <2>2. job' = [job EXCEPT ![e] = new]
    BY <1>1, <1>4 DEF QueueInv, QueueShape, JobRow
  <2>3. new \in JobRow /\ new.st = "done"
    BY <1>2 DEF QueueInv, QueueShape, JobRow, JobState
  <2> HIDE DEF new
  <2>4. PICK k \in Events : k = e
    BY <1>2
  <2>5. /\ job' \in [Events -> JobRow] /\ job'[k].st = "done"
        /\ \A i \in Events : i # k => job'[i] = job[i]
    BY <2>2, <2>3, <2>4, JobSet DEF QueueInv, QueueShape
  <2>6. QueueInv'
    BY <1>1, <2>1, <2>4, <2>5, LetsGo DEF QueueInv, QueueShape
  <2>7. D!Done(k)
    BY <1>1, <1>2, <2>1, <2>4, <2>5 DEF D!Done, outcome
  <2> QED BY <2>6, <2>7
<1> QED BY <1>3, <1>4

LEMMA QueueThrows ==
    ASSUME QueueAssumption, QueueInv, NEW w \in Workers, Throws(w)
    PROVE  QueueInv' /\ (UNCHANGED <<outcome, handled>> \/ \E e \in Events : D!GiveUp(e))
<1> DEFINE e == run[w].event
           st == IF job[e].tries + 1 < Attempts THEN "delayed" ELSE "failed"
           new == [job[e] EXCEPT !.tries = @ + 1, !.st = st]
<1>1. /\ e # NoEvent /\ run' = [run EXCEPT ![w] = Free]
      /\ UNCHANGED <<queue, handled>> /\ faults' = faults + 1
      /\ job' = IF ~ Owns(w) THEN job ELSE [job EXCEPT ![e].tries = @ + 1, ![e].st = st]
  BY DEF Throws, Rethrow
<1>2. e \in Events
  BY <1>1 DEF QueueInv, QueueShape, Hand
<1>5. faults' \in Nat /\ job[e] \in JobRow /\ job \in [Events -> JobRow]
  BY <1>1, <1>2 DEF QueueInv, QueueShape
<1>3. CASE ~Owns(w)
  <2>1. job' = job
    BY <1>1, <1>3
  <2>2. QueueInv'
    BY <1>1, <1>5, <2>1, LetsGo
  <2> QED BY <1>1, <2>1, <2>2 DEF outcome
<1>4. CASE Owns(w)
  <2>1. job[e].st = "active"
    BY <1>4 DEF Owns
  <2>2. job' = [job EXCEPT ![e] = new]
    BY <1>1, <1>4 DEF QueueInv, QueueShape, JobRow
  <2>3. new \in JobRow /\ new.st = st
    <3>1. job[e].tries + 1 \in Nat
      BY <1>5 DEF JobRow
    <3>2. st \in JobState
      BY DEF JobState
    <3> HIDE DEF st
    <3> QED BY <1>5, <3>1, <3>2 DEF JobRow
  <2> HIDE DEF new
  <2>4. PICK k \in Events : k = e
    BY <1>2
  <2>5. /\ job' \in [Events -> JobRow] /\ job'[k].st \in {"delayed", "failed"}
        /\ \A i \in Events : i # k => job'[i] = job[i]
    BY <2>2, <2>3, <2>4, JobSet DEF QueueInv, QueueShape
  <2>6. QueueInv'
    BY <1>1, <1>5, <2>1, <2>4, <2>5, LetsGo
  <2>7. CASE job'[k].st = "delayed"
    <3>1. outcome' = outcome
      BY <2>1, <2>4, <2>5, <2>7 DEF outcome
    <3> QED BY <1>1, <2>6, <3>1
  <2>8. CASE job'[k].st = "failed"
    <3>1. D!GiveUp(k)
      BY <1>1, <2>1, <2>4, <2>5, <2>8 DEF D!GiveUp, outcome
    <3> QED BY <2>6, <3>1
  <2> QED BY <2>5, <2>7, <2>8
<1> QED BY <1>3, <1>4

LEMMA QueueLosesWorker ==
    ASSUME QueueInv, NEW w \in Workers, Dies(w)
    PROVE  QueueInv' /\ UNCHANGED <<outcome, handled>>
<1>1. /\ run' = [run EXCEPT ![w] = Free] /\ faults' = faults + 1
      /\ UNCHANGED <<queue, job, handled>>
  BY DEF Dies
<1>2. faults' \in Nat /\ job' \in [Events -> JobRow]
  BY <1>1 DEF QueueInv, QueueShape
<1>3. QueueInv'
  BY <1>1, <1>2, LetsGo
<1> QED BY <1>1, <1>3 DEF outcome

\* A job that waits again.
LEMMA WaitsAgain ==
    ASSUME QueueInv, NEW e \in Events, NEW new \in JobRow, new.st = "waiting",
           job[e].st \in {"active", "delayed"}, job' = [job EXCEPT ![e] = new],
           queue' = Append(queue, e) \/ queue' = <<e>> \o queue,
           UNCHANGED <<run, handled>>, faults' \in Nat
    PROVE  QueueInv' /\ UNCHANGED <<outcome, handled>>
<1>1. /\ job' \in [Events -> JobRow] /\ job'[e].st = "waiting"
      /\ \A k \in Events : k # e => job'[k] = job[k]
  BY JobSet DEF QueueInv, QueueShape
<1>2. queue' \in Seq(Events) /\ Queued'
  BY <1>1, JoinsQueue
<1>3. \A w \in Workers : InHand(w)'
  BY <1>1, HandsStay
<1>4. QueueInv'
  BY <1>1, <1>2, <1>3 DEF QueueInv, QueueShape
<1>5. outcome' = outcome
  BY <1>1 DEF outcome
<1> QED BY <1>4, <1>5

LEMMA QueueBacksOff ==
    ASSUME QueueAssumption, QueueInv, NEW e \in Events, BackoffEnds(e)
    PROVE  QueueInv' /\ UNCHANGED <<outcome, handled>>
<1> DEFINE new == [job[e] EXCEPT !.st = "waiting"]
<1>1. /\ job[e].st = "delayed" /\ queue' = Append(queue, e) /\ UNCHANGED <<run, handled, faults>>
      /\ job' = [job EXCEPT ![e] = new]
  BY DEF BackoffEnds, QueueInv, QueueShape, JobRow
<1>2. new \in JobRow /\ new.st = "waiting" /\ faults' \in Nat
  BY <1>1 DEF QueueInv, QueueShape, JobRow, JobState
<1> HIDE DEF new
<1> QED BY <1>1, <1>2, WaitsAgain

LEMMA QueueStalls ==
    ASSUME QueueAssumption, QueueInv, NEW e \in Events, Stalls(e)
    PROVE  QueueInv' /\ (UNCHANGED <<outcome, handled>> \/ D!GiveUp(e))
<1>1. job[e].st = "active" /\ UNCHANGED <<run, handled>> /\ faults' \in Nat
  BY DEF Stalls, QueueInv, QueueShape
<1>2. CASE job[e].stalls < MaxStalls
  <2> DEFINE new == [job[e] EXCEPT !.st = "waiting", !.stalls = @ + 1]
  <2>1. job' = [job EXCEPT ![e] = new] /\ queue' = <<e>> \o queue
    BY <1>2 DEF Stalls, QueueInv, QueueShape, JobRow
  <2>2. new \in JobRow /\ new.st = "waiting"
    <3>1. job[e] \in JobRow
      BY DEF QueueInv, QueueShape
    <3>2. job[e].stalls + 1 \in Nat /\ "waiting" \in JobState
      BY <3>1 DEF JobRow, JobState
    <3> QED BY <3>1, <3>2 DEF JobRow
  <2> HIDE DEF new
  <2> QED BY <1>1, <2>1, <2>2, WaitsAgain
<1>3. CASE ~(job[e].stalls < MaxStalls)
  <2> DEFINE new == [job[e] EXCEPT !.st = "failed"]
  <2>1. job' = [job EXCEPT ![e] = new] /\ queue' = queue
    BY <1>3 DEF Stalls, QueueInv, QueueShape, JobRow
  <2>2. new \in JobRow /\ new.st = "failed"
    BY DEF QueueInv, QueueShape, JobRow, JobState
  <2> HIDE DEF new
  <2>3. /\ job' \in [Events -> JobRow] /\ job'[e].st = "failed"
        /\ \A k \in Events : k # e => job'[k] = job[k]
    BY <2>1, <2>2, JobSet DEF QueueInv, QueueShape
  <2>4. queue' \in Seq(Events) /\ Queued'
    BY <1>1, <2>1, <2>3, SameQueue
  <2>5. \A w \in Workers : InHand(w)'
    BY <1>1, <2>3, HandsStay
  <2>6. QueueInv'
    BY <1>1, <2>3, <2>4, <2>5 DEF QueueInv, QueueShape
  <2>7. D!GiveUp(e)
    BY <1>1, <2>3 DEF D!GiveUp, outcome
  <2> QED BY <2>6, <2>7
<1> QED BY <1>2, <1>3

\* What the consumer's two steps are to the queue: the second handles the event.
LEMMA HandlerGoes ==
    ASSUME QueueInv, NEW w \in Workers, run[w].pc # "idle",
           NEW pc \in {"write", "ack"}, NEW held \in PlanIds \cup {NoEvent}, Goes(w, pc, held),
           UNCHANGED <<queue, job, faults>>,
           handled' = IF pc = "ack" THEN handled \cup {run[w].event} ELSE handled
    PROVE  QueueInv' /\ (UNCHANGED <<outcome, handled>> \/ \E e \in Events : D!Handle(e))
<1>1. /\ run' \in [Workers -> Hand]
      /\ run'[w].event = run[w].event /\ run'[w].pc = pc /\ run'[w].held = held
      /\ \A v \in Workers : v # w => run'[v] = run[v]
  BY Gone DEF QueueInv
<1>2. PICK e \in Events : e = run[w].event
  BY DEF QueueInv, InHand
<1>3. job[e].st # "unsent"
  BY <1>2 DEF QueueInv, InHand
<1>4. handled \subseteq handled' /\ handled' \subseteq Events
  BY <1>2 DEF QueueInv, QueueShape
<1>5. InHand(w)'
  BY <1>1, <1>2, <1>3 DEF InHand
<1>6. \A v \in Workers : InHand(v)'
  BY <1>1, <1>4, <1>5, HandsStay
<1>7. QueueInv'
  BY <1>1, <1>4, <1>6, SameQueue DEF QueueInv, QueueShape
<1>8. outcome' = outcome /\ outcome[e] # "unsent"
  BY <1>3 DEF outcome
<1>9. pc = "ack" => D!Handle(e)
  BY <1>2, <1>8 DEF D!Handle
<1> QED BY <1>7, <1>8, <1>9

LEMMA ConsumerHandles ==
    ASSUME RecommendationsAssumption, IInv, NEW w \in Workers, ReadPlan(w) \/ WritePlan(w)
    PROVE  QueueInv' /\ (UNCHANGED <<outcome, handled>> \/ \E e \in Events : D!Handle(e))
<1>0. QueueInv
  BY DEF IInv
<1>1. CASE ReadPlan(w)
  <2>1. PICK held \in PlanIds \cup {NoEvent} : Goes(w, "write", held)
    BY <1>1 DEF ReadPlan, Plans
  <2>2. run[w].pc = "begin" /\ UNCHANGED <<queue, job, faults, handled>>
    BY <1>1 DEF ReadPlan
  <2> QED BY <1>0, <2>1, <2>2, HandlerGoes
<1>2. CASE WritePlan(w)
  <2>1. /\ run[w].pc = "write" /\ UNCHANGED <<queue, job, faults>>
        /\ Goes(w, "ack", NoEvent) /\ handled' = handled \cup {run[w].event}
    BY <1>2 DEF WritePlan
  <2> QED BY <1>0, <2>1, HandlerGoes
<1> QED BY <1>1, <1>2

\* The nightly job, and whatever else leaves the queue as it is.
LEMMA QueueRests ==
    ASSUME QueueInv, UNCHANGED <<queue, job, run, handled>>, faults' \in Nat
    PROVE  QueueInv' /\ UNCHANGED <<outcome, handled>>
<1>1. \A w \in Workers : InHand(w)'
  BY HandsStay
<1>2. queue' \in Seq(Events) /\ Queued'
  BY SameQueue
<1>3. QueueInv'
  BY <1>1, <1>2 DEF QueueInv, QueueShape
<1> QED BY <1>3 DEF outcome

LEMMA QueueSteps ==
    ASSUME QueueAssumption, QueueInv, QueueStep
    PROVE  /\ QueueInv' /\ handled' = handled
           /\ UNCHANGED outcome \/ \E e \in Events : D!Done(e) \/ D!GiveUp(e)
<1>1. ASSUME NEW w \in Workers, Take(w) \/ Ack(w) \/ Throws(w) \/ Dies(w)
      PROVE  /\ QueueInv' /\ handled' = handled
             /\ UNCHANGED outcome \/ \E e \in Events : D!Done(e) \/ D!GiveUp(e)
  BY <1>1, QueueTakes, QueueAcks, QueueThrows, QueueLosesWorker DEF D!Done, D!GiveUp
<1>2. ASSUME NEW e \in Events, BackoffEnds(e) \/ Stalls(e)
      PROVE  /\ QueueInv' /\ handled' = handled
             /\ UNCHANGED outcome \/ \E k \in Events : D!Done(k) \/ D!GiveUp(k)
  BY <1>2, QueueBacksOff, QueueStalls DEF D!GiveUp
<1> QED BY <1>1, <1>2 DEF QueueStep

\* The queue's own steps publish nothing, and a worker's hand is emptied or
\* keeps the plan it found.
LEMMA QueueKeepsSent ==
    ASSUME QueueAssumption, QueueInv, QueueStep
    PROVE  /\ \A k \in Events : job'[k].st = "unsent" <=> job[k].st = "unsent"
           /\ \A w \in Workers : run'[w].held = run[w].held \/ run'[w].held = NoEvent
<1>1. \A k \in Events : outcome'[k] = "unsent" <=> outcome[k] = "unsent"
  BY QueueSteps DEF D!Done, D!GiveUp, outcome
<1>2. \A k \in Events : (job[k].st = "unsent" <=> outcome[k] = "unsent")
                        /\ (job'[k].st = "unsent" <=> outcome'[k] = "unsent")
  BY DEF outcome
<1>3. ASSUME NEW w \in Workers, Take(w) \/ Ack(w) \/ Throws(w) \/ Dies(w), NEW v \in Workers
      PROVE  run'[v].held = run[v].held \/ run'[v].held = NoEvent
  <2> DEFINE hand == [event |-> Head(queue), pc |-> "begin", held |-> NoEvent]
  <2>1. run' = [run EXCEPT ![w] = Free] \/ run' = [run EXCEPT ![w] = hand]
    BY <1>3 DEF Take, Ack, Throws, Rethrow, Dies
  <2>2. hand.held = NoEvent
    OBVIOUS
  <2> HIDE DEF hand
  <2> QED BY <2>1, <2>2, FreeIsHand DEF QueueInv, QueueShape
<1>4. ASSUME NEW e \in Events, BackoffEnds(e) \/ Stalls(e) PROVE run' = run
  BY <1>4 DEF BackoffEnds, Stalls
<1> QED BY <1>1, <1>2, <1>3, <1>4 DEF QueueStep

-----------------------------------------------------------------------------
(* The rows: their invariant, action by action.                             *)

LEMMA NoPlanIsNone ==
    ASSUME RecommendationsAssumption, NEW p, p \in PlanRow
    PROVE  p # NoPlan /\ p.lang \in Languages /\ p.lang # NoPlan.lang
BY DEF RecommendationsAssumption, PlanRow, NoPlan

\* The plan a consumer writes.
LEMMA PlanWritten ==
    ASSUME RecommendationsAssumption, QueueInv, RowsInv, NEW w \in Workers, WritePlan(w)
    PROVE  \E p \in PlanIds :
             /\ plan' \in [PlanIds -> PlanRow \cup {NoPlan}]
             /\ plan'[p] # NoPlan /\ plan'[p].event = run[w].event
             /\ \A q \in PlanIds : q # p => plan'[q] = plan[q]
             /\ IF run[w].held # NoEvent
                THEN p = run[w].held /\ plan[p] # NoPlan /\ plan'[p].lang = plan[p].lang
                ELSE plan[p] = NoPlan /\ plan'[p].lang = LanguageOf[run[w].event]
<1> DEFINE e == run[w].event
<1>0. run[w].pc = "write" /\ e \in Events /\ LanguageOf[e] \in Languages
  BY DEF WritePlan, QueueInv, InHand, RecommendationsAssumption
<1>1. plan \in [PlanIds -> PlanRow \cup {NoPlan}]
  BY DEF RowsInv, RowsShape
<1>2. CASE run[w].held # NoEvent
  <2>1. PICK p \in PlanIds : p = run[w].held /\ plan[p] # NoPlan
    BY <1>2 DEF RowsInv, PlansHeld, Active
  <2> DEFINE new == [plan[p] EXCEPT !.event = e, !.weak = FALSE]
  <2>2. plan' = [plan EXCEPT ![p] = new]
    BY <1>1, <1>2, <2>1 DEF WritePlan
  <2>3. plan[p] \in PlanRow
    BY <1>1, <2>1
  <2>4. new \in PlanRow /\ new.event = e /\ new.lang = plan[p].lang
    BY <1>0, <2>3 DEF PlanRow
  <2> HIDE DEF new
  <2>5. plan'[p] = new /\ \A q \in PlanIds : q # p => plan'[q] = plan[q]
    BY <1>1, <2>2
  <2>6. plan' \in [PlanIds -> PlanRow \cup {NoPlan}]
    BY <1>1, <2>2, <2>4
  <2> QED BY <1>2, <2>1, <2>4, <2>5, <2>6, NoPlanIsNone
<1>3. CASE run[w].held = NoEvent
  <2> DEFINE new == [lang |-> LanguageOf[e], event |-> e, weak |-> FALSE]
  <2>1. PICK p \in PlanIds : plan[p] = NoPlan /\ plan' = [plan EXCEPT ![p] = new]
    BY <1>3 DEF WritePlan, Active
  <2>2. new \in PlanRow /\ new.event = e /\ new.lang = LanguageOf[e]
    BY <1>0 DEF PlanRow
  <2> HIDE DEF new
  <2>3. plan'[p] = new /\ \A q \in PlanIds : q # p => plan'[q] = plan[q]
    BY <1>1, <2>1
  <2>4. plan' \in [PlanIds -> PlanRow \cup {NoPlan}]
    BY <1>1, <2>1, <2>2
  <2> QED BY <1>3, <2>1, <2>2, <2>3, <2>4, NoPlanIsNone
<1> QED BY <1>2, <1>3

\* As long as no plan is undone and the nightly job stays as it is.
LEMMA RowsStay ==
    ASSUME RecommendationsAssumption, RowsInv, plan' \in [PlanIds -> PlanRow \cup {NoPlan}], disturbed' \in BOOLEAN,
           \A p \in PlanIds : plan[p] # NoPlan => plan'[p] # NoPlan,
           job2' = job2,
           \A k \in Events : job'[k].st = "unsent" <=> job[k].st = "unsent",
           \A w \in Workers : run'[w].held = run[w].held \/ run'[w].held = NoEvent
                              \/ (run'[w].held \in PlanIds /\ plan'[run'[w].held] # NoPlan)
    PROVE  RowsInv'
<1>1. Active \subseteq Active' /\ Active' = {p \in PlanIds : plan'[p] # NoPlan}
  BY DEF Active
<1>2. RowsShape'
  BY DEF RowsInv, RowsShape
<1>3. NightHolds'
  BY <1>1 DEF RowsInv, NightHolds
<1>4. SentInOrder'
  BY DEF RowsInv, SentInOrder, RecommendationsAssumption
<1>5. PlansHeld'
  BY <1>1 DEF RowsInv, PlansHeld
<1> QED BY <1>2, <1>3, <1>4, <1>5 DEF RowsInv

LEMMA RowsUnderQueue ==
    ASSUME QueueAssumption, RecommendationsAssumption, QueueInv, RowsInv, QueueStep,
           UNCHANGED rvars
    PROVE  RowsInv'
BY QueueKeepsSent, RowsStay DEF rvars, RowsInv, RowsShape

LEMMA RowsWhenPublished ==
    ASSUME RecommendationsAssumption, QueueInv, RowsInv, NEW e \in Events, Published(e),
           UNCHANGED rvars
    PROVE  RowsInv'
<1>1. /\ e \in Publishable /\ \A k \in Publishable : k < e => job[k].st # "unsent"
      /\ run' = run /\ UNCHANGED <<plan, job2, disturbed>>
      /\ \A k \in Events : k # e => job'[k] = job[k]
      /\ job'[e].st = "waiting" /\ job[e].st = "unsent"
  BY DEF Published, publish, rvars, QueueInv, QueueShape, JobRow
<1>2. e \in Nat /\ \A k \in Publishable : k \in Events /\ k \in Nat
  BY DEF RecommendationsAssumption
<1>3. SentInOrder'
  <2>1. ASSUME NEW k \in Publishable, job'[k].st = "unsent" PROVE e < k /\ job[k].st = "unsent"
    <3>1. k # e /\ job[k].st = "unsent"
      BY <1>1, <1>2, <2>1
    <3>2. ~(k < e)
      BY <1>1, <3>1
    <3> QED BY <1>2, <3>1, <3>2
  <2>2. ASSUME NEW f \in Events, job'[f].st # "unsent"
        PROVE  f \in Publishable /\ \A k \in Publishable : job'[k].st = "unsent" => f < k
    <3>1. CASE f = e
      BY <1>1, <2>1, <3>1
    <3>2. CASE f # e
      BY <1>1, <2>1, <2>2, <3>2 DEF RowsInv, SentInOrder
    <3> QED BY <3>1, <3>2
  <2> QED BY <2>2 DEF SentInOrder
<1>4. RowsShape' /\ NightHolds' /\ PlansHeld'
  BY <1>1 DEF RowsInv, RowsShape, NightHolds, PlansHeld, Active
<1> QED BY <1>3, <1>4 DEF RowsInv

LEMMA RowsRead ==
    ASSUME RecommendationsAssumption, QueueInv, RowsInv, NEW w \in Workers, ReadPlan(w)
    PROVE  RowsInv'
<1>1. /\ run[w].pc = "begin" /\ UNCHANGED <<job, plan, job2>>
      /\ disturbed' \in BOOLEAN
  BY DEF ReadPlan, RowsInv, RowsShape
<1>2. run[w].event \in Events /\ LanguageOf[run[w].event] \in Languages
  BY <1>1 DEF QueueInv, InHand, RecommendationsAssumption
<1>3. PICK held \in PlanIds \cup {NoEvent} :
        Goes(w, "write", held) /\ (held = NoEvent \/ plan[held] # NoPlan)
  <2>1. \A p \in Plans(LanguageOf[run[w].event]) : p \in PlanIds /\ plan[p] # NoPlan
    BY <1>2, NoPlanIsNone DEF Plans, NoPlan, RecommendationsAssumption
  <2> QED BY <2>1 DEF ReadPlan
<1>4. run'[w].held = held /\ \A v \in Workers : v # w => run'[v] = run[v]
  BY <1>3, Gone DEF QueueInv
<1>5. \A v \in Workers : run'[v].held = run[v].held \/ run'[v].held = NoEvent
                         \/ (run'[v].held \in PlanIds /\ plan'[run'[v].held] # NoPlan)
  BY <1>1, <1>3, <1>4
<1> QED BY <1>1, <1>5, RowsStay DEF RowsInv, RowsShape

LEMMA RowsWritten ==
    ASSUME RecommendationsAssumption, QueueInv, RowsInv, NEW w \in Workers, WritePlan(w)
    PROVE  RowsInv'
<1>1. Goes(w, "ack", NoEvent) /\ UNCHANGED <<job, job2, disturbed>>
  BY DEF WritePlan
<1>2. run'[w].held = NoEvent /\ \A v \in Workers : v # w => run'[v] = run[v]
  BY <1>1, Gone DEF QueueInv
<1>3. /\ plan' \in [PlanIds -> PlanRow \cup {NoPlan}]
      /\ \A q \in PlanIds : plan[q] # NoPlan => plan'[q] # NoPlan
  BY PlanWritten
<1> QED BY <1>1, <1>2, <1>3, RowsStay DEF RowsInv, RowsShape

LEMMA AsleepIsNight ==
    /\ Asleep \in Night /\ Asleep.pc = "idle"
    /\ [Asleep EXCEPT !.pc = "next", !.todo = Active] \in Night
BY DEF Asleep, Night, Active

LEMMA NightMoves ==
    ASSUME RowsInv, UNCHANGED <<job, run>>, disturbed' \in BOOLEAN, NEW next \in Night, job2' = next,
           plan' \in [PlanIds -> PlanRow \cup {NoPlan}],
           \A p \in PlanIds : plan[p] # NoPlan => plan'[p] # NoPlan,
           next.todo \subseteq Active,
           next.pc \notin {"idle", "next"} => next.plan \in Active,
           next.pc = "weak" => next.held \in PlanRow
    PROVE  RowsInv'
<1>1. Active \subseteq Active'
  BY DEF Active
<1>2. RowsShape' /\ NightHolds' /\ SentInOrder' /\ PlansHeld'
  BY <1>1 DEF RowsInv, RowsShape, NightHolds, SentInOrder, PlansHeld
<1> QED BY <1>2 DEF RowsInv

\* A step of the night that leaves the plans alone.
LEMMA NightLooks ==
    ASSUME RowsInv, UNCHANGED <<job, run, plan>>, disturbed' \in BOOLEAN,
           NEW next \in Night, job2' = next,
           next.todo \subseteq Active,
           next.pc \notin {"idle", "next"} => next.plan \in Active,
           next.pc = "weak" => next.held \in PlanRow
    PROVE  RowsInv'
BY NightMoves DEF RowsInv, RowsShape

LEMMA RowsAtNight ==
    ASSUME RecommendationsAssumption, RowsInv, Nightly
    PROVE  RowsInv'
<1>0. /\ job2 \in Night /\ disturbed \in BOOLEAN /\ plan \in [PlanIds -> PlanRow \cup {NoPlan}]
      /\ NightHolds
  BY DEF RowsInv, RowsShape
<1>1. CASE StartNight \/ NightRestarts
  <2> DEFINE next == [Asleep EXCEPT !.pc = "next", !.todo = Active]
  <2>1. job2' = next /\ UNCHANGED <<job, run, plan, disturbed>>
    BY <1>1 DEF StartNight, NightRestarts, qvars
  <2>2. next \in Night /\ next.pc = "next" /\ next.todo = Active
    BY AsleepIsNight DEF Asleep
  <2> HIDE DEF next
  <2> QED BY <1>0, <2>1, <2>2, NightLooks
<1>2. CASE computeGoal
  <2>1. PICK p \in job2.todo, weak \in BOOLEAN :
          job2' = [job2 EXCEPT !.pc = "upsert", !.todo = @ \ {p}, !.plan = p, !.weak = weak,
                     !.xp = Round(BaseXp * computeAdjustmentMultiplier),
                     !.activities = Round(BaseActivities * computeAdjustmentMultiplier)
                                    + (IF weak THEN 1 ELSE 0)]
    BY <1>2 DEF computeGoal
  <2> DEFINE x == Round(BaseXp * computeAdjustmentMultiplier)
             n == Round(BaseActivities * computeAdjustmentMultiplier) + (IF weak THEN 1 ELSE 0)
             next == [job2 EXCEPT !.pc = "upsert", !.todo = job2.todo \ {p}, !.plan = p,
                                  !.weak = weak, !.xp = x, !.activities = n]
  <2>2. job2' = next
    BY <2>1
  <2>3. x \in Nat /\ n \in Nat
    <3>1. computeAdjustmentMultiplier \in {9, 10, 11}
      BY DEF computeAdjustmentMultiplier
    <3>2. \A m \in {9, 10, 11} : Round(BaseXp * m) \in Nat /\ Round(BaseActivities * m) \in Nat
      BY DEF Round, BaseXp, BaseActivities
    <3> QED BY <3>1, <3>2
  <2> HIDE DEF x, n
  <2>4. p \in Active /\ p \in PlanIds /\ job2.todo \subseteq Active
    BY <1>0 DEF NightHolds, Active
  <2>5. next \in Night /\ next.pc = "upsert" /\ next.todo \subseteq Active /\ next.plan = p
    BY <1>0, <2>3, <2>4 DEF Night
  <2>6. UNCHANGED <<job, run, plan, disturbed>>
    BY <1>2 DEF computeGoal, qvars
  <2> HIDE DEF next
  <2> QED BY <1>0, <2>2, <2>4, <2>5, <2>6, NightLooks
<1>3. CASE UpsertGoal
  <2> DEFINE next == [job2 EXCEPT !.pc = IF job2.weak THEN "readWeak" ELSE "publish"]
  <2>1. job2.pc = "upsert" /\ job2' = next /\ UNCHANGED <<job, run, plan, disturbed>>
    BY <1>3 DEF UpsertGoal, qvars
  <2>2. /\ next \in Night /\ next.pc \in {"readWeak", "publish"}
        /\ next.todo = job2.todo /\ next.plan = job2.plan
    BY <1>0 DEF Night
  <2> HIDE DEF next
  <2> QED BY <1>0, <2>1, <2>2, NightLooks DEF NightHolds
<1>4. CASE ReadMilestones
  <2> DEFINE next == [job2 EXCEPT !.pc = "weak", !.held = plan[job2.plan]]
  <2>1. job2.pc = "readWeak" /\ job2' = next /\ UNCHANGED <<job, run, plan>> /\ disturbed' \in BOOLEAN
    BY <1>0, <1>4 DEF ReadMilestones, qvars
  <2>2. job2.plan \in Active /\ plan[job2.plan] \in PlanRow
    BY <1>0, <2>1 DEF NightHolds, Active
  <2>3. /\ next \in Night /\ next.pc = "weak" /\ next.todo = job2.todo /\ next.plan = job2.plan
        /\ next.held = plan[job2.plan]
    BY <1>0, <2>2 DEF Night
  <2> HIDE DEF next
  <2> QED BY <1>0, <2>1, <2>2, <2>3, NightLooks DEF NightHolds
<1>5. CASE recordWeakSkillsOnPlan
  <2> DEFINE next == [job2 EXCEPT !.pc = "publish", !.held = NoPlan]
             new == [job2.held EXCEPT !.weak = TRUE]
  <2>1. /\ job2.pc = "weak" /\ job2' = next /\ plan' = [plan EXCEPT ![job2.plan] = new]
        /\ UNCHANGED <<job, run, disturbed>>
    BY <1>5 DEF recordWeakSkillsOnPlan, qvars
  <2>2. job2.plan \in Active /\ job2.held \in PlanRow
    BY <1>0, <2>1 DEF NightHolds
  <2>3. new \in PlanRow
    BY <2>2 DEF PlanRow
  <2> HIDE DEF new
  <2>4. /\ plan' \in [PlanIds -> PlanRow \cup {NoPlan}]
        /\ \A p \in PlanIds : plan[p] # NoPlan => plan'[p] # NoPlan
    BY <1>0, <2>1, <2>3, NoPlanIsNone
  <2>5. next \in Night /\ next.pc = "publish" /\ next.todo = job2.todo /\ next.plan = job2.plan
    BY <1>0 DEF Night
  <2> HIDE DEF next
  <2> QED BY <1>0, <2>1, <2>2, <2>4, <2>5, NightMoves DEF NightHolds
<1>6. CASE PublishReady
  <2> DEFINE next == [job2 EXCEPT !.pc = "next"]
  <2>1. job2' = next /\ UNCHANGED <<job, run, plan, disturbed>>
    BY <1>6 DEF PublishReady, qvars
  <2>2. next \in Night /\ next.pc = "next" /\ next.todo = job2.todo
    BY <1>0 DEF Night
  <2> HIDE DEF next
  <2> QED BY <1>0, <2>1, <2>2, NightLooks DEF NightHolds
<1>7. CASE EndNight
  <2>1. job2' = Asleep /\ UNCHANGED <<job, run, plan, disturbed>>
    BY <1>7 DEF EndNight, qvars
  <2>2. Asleep.todo = {}
    BY DEF Asleep
  <2> QED BY <1>0, <2>1, <2>2, AsleepIsNight, NightLooks
<1>8. CASE PlanFails
  <2> DEFINE next == [job2 EXCEPT !.pc = "next", !.held = NoPlan]
  <2>1. job2' = next /\ UNCHANGED <<job, run, plan, disturbed>>
    BY <1>8 DEF PlanFails
  <2>2. next \in Night /\ next.pc = "next" /\ next.todo = job2.todo
    BY <1>0 DEF Night
  <2> HIDE DEF next
  <2> QED BY <1>0, <2>1, <2>2, NightLooks DEF NightHolds
<1> QED BY <1>1, <1>2, <1>3, <1>4, <1>5, <1>6, <1>7, <1>8 DEF Nightly

LEMMA QueueAtNight ==
    ASSUME QueueInv, Nightly
    PROVE  QueueInv' /\ UNCHANGED <<outcome, handled>>
<1>1. UNCHANGED qvars \/ PlanFails
  BY DEF Nightly, StartNight, NightRestarts, computeGoal, UpsertGoal, ReadMilestones,
         recordWeakSkillsOnPlan, PublishReady, EndNight
<1>2. UNCHANGED <<queue, job, run, handled>> /\ faults' \in Nat
  BY <1>1 DEF PlanFails, qvars, QueueInv, QueueShape
<1> QED BY <1>2, QueueRests

-----------------------------------------------------------------------------
(* Deliveries that neither overlap nor fail.                                *)

\* Calm now is calm before: both flags only rise.
LEMMA CalmBefore ==
    ASSUME RecommendationsAssumption, IInv, [Next]_vars, ~disturbed', faults' = 0
    PROVE  ~disturbed /\ faults = 0 /\ InOrder /\ OneAtATime /\ Newest
<1>0. faults \in Nat /\ disturbed \in BOOLEAN
  BY DEF IInv, QueueInv, QueueShape, RowsInv, RowsShape
<1>1. ~disturbed
  BY <1>0 DEF Next, QueueStep, rvars, vars, ReadPlan, WritePlan, Nightly, StartNight, NightRestarts,
         computeGoal, UpsertGoal, ReadMilestones, recordWeakSkillsOnPlan, PublishReady, EndNight,
         PlanFails
<1>2. faults = 0
  <2>1. faults' = faults \/ faults' = faults + 1
    <3>1. CASE QueueStep
      BY <3>1 DEF QueueStep, Take, Ack, Throws, Dies, BackoffEnds, Stalls
    <3>2. CASE \E e \in Events : Published(e)
      BY <3>2 DEF Published, publish
    <3>3. CASE \E w \in Workers : ReadPlan(w) \/ WritePlan(w)
      BY <3>3 DEF ReadPlan, WritePlan
    <3>4. CASE Nightly
      <4>1. UNCHANGED qvars \/ PlanFails
        BY <3>4 DEF Nightly, StartNight, NightRestarts, computeGoal, UpsertGoal, ReadMilestones,
               recordWeakSkillsOnPlan, PublishReady, EndNight
      <4> QED BY <4>1 DEF PlanFails, qvars
    <3> QED BY <3>1, <3>2, <3>3, <3>4 DEF Next, vars, qvars
  <2> QED BY <1>0, <2>1
<1> QED BY <1>1, <1>2 DEF IInv, Serially

\* Without faults no job is abandoned, and the queue only publishes, hands out
\* and acknowledges.
LEMMA CalmQueue ==
    ASSUME IInv, InOrder, faults = 0, QueueStep, faults' = 0
    PROVE  \E w \in Workers : Take(w) \/ Ack(w)
<1>1. ASSUME NEW e \in Events, Stalls(e) PROVE FALSE
  <2>1. ~Abandoned(e)
    BY <1>1 DEF Stalls, InOrder, Abandoned
  <2> QED BY <1>1, <2>1 DEF Stalls
<1>2. ASSUME NEW e \in Events, BackoffEnds(e) PROVE FALSE
  BY <1>2 DEF BackoffEnds, InOrder
<1>3. ASSUME NEW w \in Workers, Throws(w) \/ Dies(w) PROVE FALSE
  BY <1>3 DEF Throws, Dies
<1> QED BY <1>1, <1>2, <1>3 DEF QueueStep

LEMMA InHandFacts ==
    ASSUME RecommendationsAssumption, QueueAssumption, IInv, InOrder, NEW w \in Workers,
           run[w].pc # "idle"
    PROVE  /\ run[w].event \in Events /\ run[w].event \in Taken /\ run[w].event # NoEvent
           /\ job[run[w].event].st = "active" /\ job[run[w].event].owner = w
BY DEF IInv, QueueInv, InHand, InOrder, Owns, Taken

LEMMA CalmPublish ==
    ASSUME RecommendationsAssumption, QueueAssumption, IInv, InOrder, OneAtATime, Newest,
           NEW e \in Events, Published(e), UNCHANGED rvars
    PROVE  InOrder' /\ OneAtATime' /\ Newest'
<1>1. /\ job[e].st = "unsent" /\ job'[e].st = "waiting" /\ queue' = Append(queue, e)
      /\ \A k \in Events : k # e => job'[k] = job[k]
      /\ UNCHANGED <<run, handled, plan, job2>> /\ e \in Publishable
  BY DEF Published, publish, rvars, IInv, QueueInv, QueueShape, JobRow
<1>2. queue \in Seq(Events) /\ \A i \in 1..Len(queue) : queue[i] \in Events
  BY DEF IInv, QueueInv, QueueShape
<1>3. \A k \in Events : job[k].st # "unsent" => k < e
  BY <1>1 DEF IInv, RowsInv, SentInOrder
<1>4. Taken' = Taken
  BY <1>1 DEF Taken
<1>5. \A i \in 1..Len(queue) : queue[i] < e
  BY <1>2, <1>3 DEF IInv, QueueInv, Queued
<1>6. \A i \in 1..Len(queue') : \/ i \in 1..Len(queue) /\ queue'[i] = queue[i]
                                \/ i = Len(queue) + 1 /\ queue'[i] = e
  BY <1>1, <1>2, Enqueued
<1>7. Len(queue) \in Nat
  BY <1>2
<1>8. \A i, j \in 1..Len(queue') : i < j => queue'[i] < queue'[j]
  <2>1. ASSUME NEW i \in 1..Len(queue'), NEW j \in 1..Len(queue'), i < j
        PROVE  queue'[i] < queue'[j]
    <3>1. i \in 1..Len(queue) /\ queue'[i] = queue[i]
      BY <1>6, <1>7, <2>1
    <3>2. CASE j \in 1..Len(queue) /\ queue'[j] = queue[j]
      BY <2>1, <3>1, <3>2 DEF InOrder
    <3>3. CASE queue'[j] = e
      BY <1>5, <3>1, <3>3
    <3> QED BY <1>6, <3>2, <3>3
  <2> QED BY <2>1
<1>9. \A k \in Taken, i \in 1..Len(queue') : k < queue'[i]
  BY <1>3, <1>6 DEF InOrder, Taken
<1>10. \A k \in Events : /\ job'[k].st \notin {"delayed", "failed"}
                         /\ job'[k].st = "active" =>
                              job'[k].owner \in Workers /\ run'[job'[k].owner].event = k
                         /\ job'[k].st = "done" => k \in handled'
  BY <1>1 DEF InOrder
<1>11. ASSUME NEW w \in Workers, run'[w].pc # "idle" PROVE Owns(w)'
  <2>1. run[w].event \in Events /\ job[run[w].event].st = "active" /\ job[run[w].event].owner = w
        /\ run[w].event # NoEvent
    BY <1>1, <1>11, InHandFacts
  <2> QED BY <1>1, <2>1 DEF Owns
<1>12. InOrder'
  BY <1>1, <1>4, <1>8, <1>9, <1>10, <1>11 DEF InOrder
<1>13. OneAtATime' /\ Newest'
  BY <1>1 DEF OneAtATime, Newest, Busy, Plans
<1> QED BY <1>12, <1>13

LEMMA CalmTake ==
    ASSUME RecommendationsAssumption, QueueAssumption, IInv, InOrder, OneAtATime, Newest,
           NEW w \in Workers, Take(w), UNCHANGED rvars
    PROVE  InOrder' /\ OneAtATime' /\ Newest'
<1> DEFINE hand == [event |-> Head(queue), pc |-> "begin", held |-> NoEvent]
<1>1. /\ run[w] = Free /\ run' = [run EXCEPT ![w] = hand]
      /\ queue' = Tail(queue) /\ UNCHANGED <<handled, plan, job2>>
      /\ job' = [job EXCEPT ![Head(queue)].st = "active", ![Head(queue)].owner = w]
      /\ queue \in Seq(Events) /\ queue # <<>>
  BY DEF Take, rvars, IInv, QueueInv, QueueShape
<1>2. PICK e \in Events : /\ e = Head(queue) /\ e = queue[1] /\ Len(queue) \in Nat \ {0}
                          /\ Len(queue') = Len(queue) - 1
                          /\ \A i \in 1..Len(queue') : i + 1 \in 1..Len(queue) /\ queue'[i] = queue[i + 1]
  BY <1>1, Dequeued
<1>3. 1 \in 1..Len(queue) /\ job[e].st = "waiting"
  <2>1. 1 \in 1..Len(queue)
    BY <1>2
  <2> QED BY <1>2, <2>1 DEF IInv, QueueInv, Queued
<1>4. /\ job'[e].st = "active" /\ job'[e].owner = w
      /\ \A k \in Events : k # e => job'[k] = job[k]
  BY <1>1, <1>2 DEF IInv, QueueInv, QueueShape, JobRow
<1>5. hand.event = e /\ hand.pc = "begin" /\ hand.held = NoEvent
  BY <1>2
<1> HIDE DEF hand
<1>6. run'[w] = hand /\ \A v \in Workers : v # w => run'[v] = run[v]
  BY <1>1 DEF IInv, QueueInv, QueueShape
<1>7. Taken' = Taken \cup {e}
  BY <1>3, <1>4 DEF Taken
<1>8. \A k \in Taken : k < e
  BY <1>2, <1>3 DEF InOrder
<1>9. run[w].event = NoEvent /\ NoEvent \notin Events
  BY <1>1 DEF Free, QueueAssumption
<1>10. ASSUME NEW k \in Events
       PROVE  /\ job'[k].st \notin {"delayed", "failed"}
              /\ job'[k].st = "active" =>
                   job'[k].owner \in Workers /\ run'[job'[k].owner].event = k
              /\ job'[k].st = "done" => k \in handled'
  <2>1. CASE k = e
    BY <1>4, <1>5, <1>6, <2>1
  <2>2. CASE k # e
    <3>1. job'[k] = job[k] /\ job[k].st \notin {"delayed", "failed"}
          /\ (job[k].st = "done" => k \in handled)
      BY <1>4, <2>2 DEF InOrder
    <3>2. ASSUME job[k].st = "active"
          PROVE  job[k].owner \in Workers /\ run'[job[k].owner].event = k
      <4>1. job[k].owner \in Workers /\ run[job[k].owner].event = k
        BY <3>2 DEF InOrder
      <4>2. job[k].owner # w
        BY <1>9, <4>1
      <4> QED BY <1>6, <4>1, <4>2
    <3> QED BY <1>1, <3>1, <3>2
  <2> QED BY <2>1, <2>2
<1>11. ASSUME NEW v \in Workers, run'[v].pc # "idle" PROVE Owns(v)'
  <2>1. CASE v = w
    BY <1>2, <1>4, <1>5, <1>6, <1>9, <2>1 DEF Owns
  <2>2. CASE v # w
    <3>1. run[v].event \in Events /\ job[run[v].event].st = "active" /\ job[run[v].event].owner = v
          /\ run[v].event # NoEvent
      BY <1>6, <1>11, <2>2, InHandFacts
    <3>2. run[v].event # e
      BY <1>3, <3>1
    <3> QED BY <1>4, <1>6, <2>2, <3>1, <3>2 DEF Owns
  <2> QED BY <2>1, <2>2
<1>12. \A i, j \in 1..Len(queue') : i < j => queue'[i] < queue'[j]
  <2>1. ASSUME NEW i \in 1..Len(queue'), NEW j \in 1..Len(queue'), i < j
        PROVE  queue[i + 1] < queue[j + 1]
    <3>1. i + 1 < j + 1 /\ i + 1 \in 1..Len(queue) /\ j + 1 \in 1..Len(queue)
      BY <1>2, <2>1
    <3> QED BY <3>1 DEF InOrder
  <2> QED BY <1>2, <2>1
<1>13. \A k \in Taken', i \in 1..Len(queue') : k < queue'[i]
  <2>1. ASSUME NEW i \in 1..Len(queue') PROVE e < queue'[i] /\ \A k \in Taken : k < queue'[i]
    <3>1. 1 < i + 1 /\ i + 1 \in 1..Len(queue) /\ queue'[i] = queue[i + 1]
      BY <1>2
    <3> QED BY <1>2, <1>3, <3>1 DEF InOrder
  <2> QED BY <1>7, <2>1
<1>14. InOrder'
  BY <1>1, <1>7, <1>10, <1>11, <1>12, <1>13 DEF InOrder
<1>15. ASSUME NEW v \in Workers, Busy(v)' PROVE \A k \in handled' : k < run'[v].event
  <2>1. CASE v = w
    BY <1>1, <1>5, <1>6, <1>8, <2>1 DEF InOrder
  <2>2. CASE v # w
    BY <1>1, <1>6, <1>15, <2>2 DEF OneAtATime, Busy
  <2> QED BY <2>1, <2>2
<1>16. ASSUME NEW v \in Workers, run'[v].pc = "write"
       PROVE  /\ v # w /\ run'[v] = run[v] /\ run[v].pc = "write"
              /\ \A u \in Workers : u # v /\ Busy(u)' =>
                   run'[u].pc = "begin" /\ run'[v].event < run'[u].event
  <2>1. v # w /\ run'[v] = run[v] /\ run[v].pc = "write"
    BY <1>5, <1>6, <1>16
  <2>2. run[v].event < e
    BY <1>8, <2>1, InHandFacts
  <2>3. ASSUME NEW u \in Workers, u # v, Busy(u)'
        PROVE  run'[u].pc = "begin" /\ run'[v].event < run'[u].event
    <3>1. CASE u = w
      BY <1>5, <1>6, <2>1, <2>2, <3>1
    <3>2. CASE u # w
      BY <1>6, <2>1, <2>3, <3>2 DEF OneAtATime, Busy
    <3> QED BY <3>1, <3>2
  <2> QED BY <2>1, <2>3
<1>17. OneAtATime'
  BY <1>1, <1>15, <1>16 DEF OneAtATime, Plans
<1>18. Newest'
  BY <1>1 DEF Newest
<1> QED BY <1>14, <1>17, <1>18

LEMMA CalmAck ==
    ASSUME RecommendationsAssumption, QueueAssumption, IInv, InOrder, OneAtATime, Newest,
           NEW w \in Workers, Ack(w), UNCHANGED rvars
    PROVE  InOrder' /\ OneAtATime' /\ Newest'
<1>1. /\ run[w].pc = "ack" /\ run' = [run EXCEPT ![w] = Free]
      /\ UNCHANGED <<queue, handled, plan, job2>>
  BY DEF Ack, rvars
<1>2. PICK e \in Events : /\ e = run[w].event /\ job[e].st = "active" /\ job[e].owner = w
                          /\ e # NoEvent
  BY <1>1, InHandFacts
<1>3. e \in handled
  BY <1>1, <1>2 DEF IInv, QueueInv, InHand
<1>4. Owns(w)
  BY <1>2 DEF Owns
<1>5. /\ job'[e].st = "done"
      /\ \A k \in Events : k # e => job'[k] = job[k]
  BY <1>2, <1>4 DEF Ack, IInv, QueueInv, QueueShape, JobRow
<1>6. run'[w] = Free /\ \A v \in Workers : v # w => run'[v] = run[v]
  BY <1>1 DEF IInv, QueueInv, QueueShape
<1>7. Taken' = Taken
  BY <1>2, <1>5 DEF Taken
<1>8. \A k \in Events : /\ job'[k].st \notin {"delayed", "failed"}
                        /\ job'[k].st = "active" =>
                             job'[k].owner \in Workers /\ run'[job'[k].owner].event = k
                        /\ job'[k].st = "done" => k \in handled'
  <2>1. ASSUME NEW k \in Events, k # e, job[k].st = "active"
        PROVE  job[k].owner \in Workers /\ run'[job[k].owner].event = k
    <3>1. job[k].owner \in Workers /\ run[job[k].owner].event = k
      BY <2>1 DEF InOrder
    <3>2. job[k].owner # w
      BY <1>2, <2>1, <3>1
    <3> QED BY <1>6, <3>1, <3>2
  <2> QED BY <1>1, <1>3, <1>5, <2>1 DEF InOrder
<1>9. ASSUME NEW v \in Workers, run'[v].pc # "idle" PROVE Owns(v)'
  <2>1. v # w /\ run'[v] = run[v]
    BY <1>6, <1>9, FreeIsHand
  <2>2. run[v].event \in Events /\ job[run[v].event].st = "active" /\ job[run[v].event].owner = v
        /\ run[v].event # NoEvent
    BY <1>9, <2>1, InHandFacts
  <2>3. run[v].event # e
    BY <1>2, <2>1, <2>2
  <2> QED BY <1>5, <2>1, <2>2, <2>3 DEF Owns
<1>10. InOrder'
  BY <1>1, <1>7, <1>8, <1>9 DEF InOrder
<1>11. \A v \in Workers : run'[v].pc # "idle" => run'[v] = run[v]
  BY <1>6, FreeIsHand
<1>12. \A v \in Workers : Busy(v)' => Busy(v) /\ run'[v] = run[v]
  BY <1>11 DEF Busy
<1>13. OneAtATime'
  BY <1>1, <1>11, <1>12 DEF OneAtATime, Plans
<1>14. Newest'
  BY <1>1 DEF Newest
<1> QED BY <1>10, <1>13, <1>14

\* A worker's handler goes on: the jobs are where they were.
LEMMA CalmHands ==
    ASSUME RecommendationsAssumption, QueueAssumption, IInv, InOrder,
           NEW w \in Workers, run[w].pc # "idle",
           NEW pc \in {"write", "ack"}, NEW held \in PlanIds \cup {NoEvent}, Goes(w, pc, held),
           UNCHANGED <<queue, job>>, handled \subseteq handled', handled' \subseteq Taken
    PROVE  InOrder'
<1>1. /\ run'[w].event = run[w].event
      /\ \A v \in Workers : v # w => run'[v] = run[v]
  BY Gone DEF IInv, QueueInv
<1>2. \A v \in Workers : run'[v].event = run[v].event
  BY <1>1
<1>3. Taken' = Taken
  BY DEF Taken
<1>4. \A v \in Workers : run'[v].pc # "idle" => run[v].pc # "idle"
  BY <1>1
<1>5. \A v \in Workers : run'[v].pc # "idle" => Owns(v)'
  BY <1>2, <1>4 DEF InOrder, Owns
<1> QED BY <1>2, <1>3, <1>5 DEF InOrder

LEMMA CalmRead ==
    ASSUME RecommendationsAssumption, QueueAssumption, IInv, InOrder, OneAtATime, Newest,
           NEW w \in Workers, ReadPlan(w), ~disturbed'
    PROVE  InOrder' /\ OneAtATime' /\ Newest'
<1>1. /\ run[w].pc = "begin" /\ UNCHANGED <<queue, job, handled, plan, job2>>
      /\ job2.pc # "weak" /\ \A v \in Workers \ {w} : ~Busy(v)
  BY DEF ReadPlan
<1>2. PICK held \in PlanIds \cup {NoEvent} :
        /\ Goes(w, "write", held)
        /\ IF held = NoEvent THEN Plans(LanguageOf[run[w].event]) = {}
                             ELSE held \in Plans(LanguageOf[run[w].event])
  <2>1. \A p \in Plans(LanguageOf[run[w].event]) : p \in PlanIds /\ p # NoEvent
    BY DEF Plans, RecommendationsAssumption
  <2> QED BY <2>1 DEF ReadPlan
<1>3. /\ run'[w].event = run[w].event /\ run'[w].pc = "write" /\ run'[w].held = held
      /\ \A v \in Workers : v # w => run'[v] = run[v]
  BY <1>2, Gone DEF IInv, QueueInv
<1>4. InOrder'
  BY <1>1, <1>2, CalmHands DEF InOrder
<1>5. \A v \in Workers : v # w => ~Busy(v)' /\ run'[v].pc # "write"
  BY <1>1, <1>3 DEF Busy
<1>6. \A k \in handled' : k < run'[w].event
  BY <1>1, <1>3 DEF OneAtATime, Busy
<1>7. OneAtATime'
  BY <1>1, <1>2, <1>3, <1>5, <1>6 DEF OneAtATime, Plans
<1>8. Newest'
  BY <1>1 DEF Newest
<1> QED BY <1>4, <1>7, <1>8

LEMMA CalmWrite ==
    ASSUME RecommendationsAssumption, QueueAssumption, IInv, InOrder, OneAtATime, Newest,
           NEW w \in Workers, WritePlan(w)
    PROVE  InOrder' /\ OneAtATime' /\ Newest'
<1> DEFINE e == run[w].event
           held == run[w].held
<1>1. /\ run[w].pc = "write" /\ UNCHANGED <<queue, job, job2>>
      /\ Goes(w, "ack", NoEvent) /\ handled' = handled \cup {e}
  BY DEF WritePlan
<1>2. e \in Events /\ e \in Taken /\ e \in Nat
  BY <1>1, InHandFacts DEF RecommendationsAssumption
<1>3. /\ job2.pc # "weak" /\ \A k \in handled : k < e
      /\ \A v \in Workers : v # w /\ Busy(v) => run[v].pc = "begin" /\ e < run[v].event
      /\ IF held = NoEvent THEN Plans(LanguageOf[e]) = {} ELSE held \in Plans(LanguageOf[e])
  BY <1>1 DEF OneAtATime, Busy
<1>4. /\ run'[w].pc = "ack"
      /\ \A v \in Workers : v # w => run'[v] = run[v]
  BY <1>1, Gone DEF IInv, QueueInv
<1>5. InOrder'
  <2>1. handled \subseteq handled' /\ handled' \subseteq Taken
    BY <1>1, <1>2 DEF InOrder
  <2> QED BY <1>1, <2>1, CalmHands
<1>6. \A v \in Workers : /\ run'[v].pc # "write"
                         /\ Busy(v)' => v # w /\ Busy(v) /\ run'[v] = run[v]
  BY <1>3, <1>4 DEF Busy
<1>7. ASSUME NEW v \in Workers, Busy(v)', NEW k \in handled' PROVE k < run'[v].event
  <2>1. v # w /\ Busy(v) /\ run'[v] = run[v] /\ e < run[v].event
    BY <1>3, <1>6, <1>7
  <2> QED BY <1>1, <1>7, <2>1 DEF OneAtATime
<1>8. OneAtATime'
  BY <1>6, <1>7 DEF OneAtATime
<1>9. PICK p \in PlanIds :
        /\ plan'[p] # NoPlan /\ plan'[p].event = e
        /\ \A q \in PlanIds : q # p => plan'[q] = plan[q]
        /\ IF held # NoEvent
           THEN p = held /\ plan[p] # NoPlan /\ plan'[p].lang = plan[p].lang
           ELSE plan[p] = NoPlan /\ plan'[p].lang = LanguageOf[e]
  BY PlanWritten DEF IInv
<1>10. plan'[p].lang = LanguageOf[e]
  BY <1>3, <1>9 DEF Plans
<1>11. \A q \in PlanIds : q # p => plan[q].lang # LanguageOf[e]
  BY <1>3, <1>9 DEF Plans, Newest
<1>12. \A q, o \in PlanIds : plan'[q] # NoPlan /\ plan'[o].lang = plan'[q].lang => q = o
  BY <1>9, <1>10, <1>11 DEF Newest
<1>13. ASSUME NEW k \in handled', NEW q \in PlanIds, plan'[q].lang = LanguageOf[k]
       PROVE  k <= plan'[q].event
  <2>1. CASE q = p
    <3>1. k < e \/ k = e
      BY <1>1, <1>3, <1>13
    <3>2. k \in Events
      BY <1>1, <1>2, <1>13 DEF IInv, QueueInv, QueueShape
    <3> QED BY <1>2, <1>9, <2>1, <3>1, <3>2 DEF RecommendationsAssumption
  <2>2. CASE q # p
    <3>1. plan'[q] = plan[q] /\ k # e
      BY <1>9, <1>11, <1>13, <2>2
    <3> QED BY <1>1, <1>13, <3>1 DEF Newest
  <2> QED BY <2>1, <2>2
<1>14. Newest'
  BY <1>1, <1>3, <1>12, <1>13 DEF Newest
<1> QED BY <1>5, <1>8, <1>14

\* The night leaves the jobs and the workers as they are, and the language and
\* the event of every plan.
LEMMA CalmRests ==
    ASSUME InOrder, OneAtATime, Newest, UNCHANGED qvars,
           \A p \in PlanIds : /\ plan'[p].lang = plan[p].lang /\ plan'[p].event = plan[p].event
                              /\ plan'[p] # NoPlan => plan[p] # NoPlan,
           job2'.pc = "weak" => /\ job2'.held = plan'[job2'.plan]
                                /\ \A w \in Workers : run[w].pc # "write"
    PROVE  InOrder' /\ OneAtATime' /\ Newest'
<1>1. UNCHANGED <<queue, job, run, handled>>
  BY DEF qvars
<1>2. InOrder'
  BY <1>1 DEF InOrder, Taken, Owns
<1>3. \A lang : Plans(lang)' = Plans(lang)
  BY DEF Plans
<1>4. \A w \in Workers : Busy(w)' = Busy(w)
  BY <1>1 DEF Busy
<1>5. OneAtATime'
  BY <1>1, <1>3, <1>4 DEF OneAtATime
<1>6. Newest'
  BY <1>1 DEF Newest
<1> QED BY <1>2, <1>5, <1>6

LEMMA CalmNight ==
    ASSUME RecommendationsAssumption, IInv, InOrder, OneAtATime, Newest, Nightly,
           ~disturbed', faults' = 0
    PROVE  InOrder' /\ OneAtATime' /\ Newest'
<1>0. /\ job2 \in Night /\ plan \in [PlanIds -> PlanRow \cup {NoPlan}] /\ faults \in Nat
      /\ NightHolds
  BY DEF IInv, RowsInv, RowsShape, QueueInv, QueueShape
<1>1. CASE StartNight \/ NightRestarts \/ computeGoal \/ UpsertGoal \/ PublishReady \/ EndNight
  <2>1. UNCHANGED qvars /\ plan' = plan
    BY <1>1 DEF StartNight, NightRestarts, computeGoal, UpsertGoal, PublishReady, EndNight
  <2>2. job2'.pc # "weak"
    <3>1. CASE StartNight \/ NightRestarts
      BY <3>1 DEF StartNight, NightRestarts, Asleep
    <3>2. CASE computeGoal
      BY <1>0, <3>2 DEF computeGoal, Night
    <3>3. CASE UpsertGoal \/ PublishReady
      BY <1>0, <3>3 DEF UpsertGoal, PublishReady, Night
    <3>4. CASE EndNight
      BY <3>4 DEF EndNight, Asleep
    <3> QED BY <1>1, <3>1, <3>2, <3>3, <3>4
  <2> QED BY <2>1, <2>2, CalmRests
<1>2. CASE ReadMilestones
  <2>1. /\ UNCHANGED qvars /\ plan' = plan /\ \A w \in Workers : ~Busy(w)
        /\ job2' = [job2 EXCEPT !.pc = "weak", !.held = plan[job2.plan]]
    BY <1>2 DEF ReadMilestones
  <2>2. job2'.held = plan[job2.plan] /\ job2'.plan = job2.plan
    BY <1>0, <2>1 DEF Night
  <2>3. \A w \in Workers : run[w].pc # "write"
    BY <2>1 DEF Busy
  <2> QED BY <2>1, <2>2, <2>3, CalmRests
<1>3. CASE recordWeakSkillsOnPlan
  <2> DEFINE new == [plan[job2.plan] EXCEPT !.weak = TRUE]
  <2>1. /\ job2.pc = "weak" /\ UNCHANGED qvars
        /\ plan' = [plan EXCEPT ![job2.plan] = [job2.held EXCEPT !.weak = TRUE]]
        /\ job2' = [job2 EXCEPT !.pc = "publish", !.held = NoPlan]
    BY <1>3 DEF recordWeakSkillsOnPlan
  <2>2. PICK p \in PlanIds : p = job2.plan /\ plan[p] # NoPlan
    BY <1>0, <2>1 DEF NightHolds, Active
  <2>3. job2.held = plan[p]
    BY <2>1, <2>2 DEF Newest
  <2>4. plan[p] \in PlanRow
    BY <1>0, <2>2
  <2>5. plan' = [plan EXCEPT ![p] = new] /\ new.lang = plan[p].lang /\ new.event = plan[p].event
    BY <2>1, <2>2, <2>3, <2>4 DEF PlanRow
  <2> HIDE DEF new
  <2>6. plan'[p] = new /\ \A q \in PlanIds : q # p => plan'[q] = plan[q]
    BY <1>0, <2>5
  <2>7. job2'.pc # "weak"
    BY <1>0, <2>1 DEF Night
  <2> QED BY <2>1, <2>2, <2>5, <2>6, <2>7, CalmRests
<1>4. ~PlanFails
  BY <1>0 DEF PlanFails
<1> QED BY <1>1, <1>2, <1>3, <1>4 DEF Nightly

-----------------------------------------------------------------------------
(* The invariant, inductively.                                              *)

LEMMA Starts == QueueAssumption /\ RecommendationsAssumption /\ Init => IInv
<1> SUFFICES ASSUME QueueAssumption, RecommendationsAssumption, Init PROVE IInv
  OBVIOUS
<1>1. /\ queue = <<>> /\ handled = {} /\ faults = 0 /\ plan = [p \in PlanIds |-> NoPlan]
      /\ job2 = Asleep /\ disturbed = FALSE /\ run = [w \in Workers |-> Free]
      /\ \A e \in Events : job[e].st = "unsent"
  BY DEF Init, QueueInit
<1>2. job \in [Events -> JobRow]
  <2>1. (CHOOSE w \in Workers : TRUE) \in Owners /\ "unsent" \in JobState
    BY DEF Owners, JobState
  <2> QED BY <2>1 DEF Init, QueueInit, JobRow
<1>3. \A w \in Workers : run[w] = Free
  BY <1>1
<1>4. \A p \in PlanIds : plan[p] = NoPlan
  BY <1>1
<1>5. Len(queue) = 0 /\ 1..0 = {} /\ queue \in Seq(Events)
  BY <1>1
<1>6. QueueInv
  <2>1. QueueShape
    BY <1>1, <1>2, <1>5, FreeIsHand DEF QueueShape
  <2>2. Queued
    BY <1>5 DEF Queued
  <2>3. \A w \in Workers : InHand(w)
    BY <1>3, FreeIsHand DEF InHand
  <2> QED BY <2>1, <2>2, <2>3 DEF QueueInv
<1>7. RowsInv
  <2>1. RowsShape
    BY <1>1, AsleepIsNight DEF RowsShape
  <2>2. NightHolds
    BY <1>1 DEF NightHolds, Asleep
  <2>3. SentInOrder /\ PlansHeld
    BY <1>1, <1>3, FreeIsHand DEF SentInOrder, PlansHeld
  <2> QED BY <2>1, <2>2, <2>3 DEF RowsInv
<1>8. InOrder
  <2>1. Taken = {}
    BY <1>1 DEF Taken
  <2> QED BY <1>1, <1>3, <1>5, <2>1, FreeIsHand DEF InOrder
<1>9. OneAtATime
  BY <1>3, FreeIsHand DEF OneAtATime, Busy
<1>10. Newest
  BY <1>1, <1>4, AsleepIsNight DEF Newest
<1> QED BY <1>6, <1>7, <1>8, <1>9, <1>10 DEF IInv, Serially

\* What a step is: of the queue or a publication, of a consumer, of the night.
LEMMA QueueKept ==
    ASSUME QueueAssumption, RecommendationsAssumption, IInv, [Next]_vars
    PROVE  QueueInv' /\ (UNCHANGED <<outcome, handled>> \/ D!Next)
<1>0. QueueInv
  BY DEF IInv
<1>1. CASE QueueStep
  BY <1>0, <1>1, QueueSteps DEF D!Next, D!Done, D!GiveUp
<1>2. CASE \E e \in Events : Published(e)
  BY <1>0, <1>2, QueueSends DEF D!Next, Published
<1>3. CASE \E w \in Workers : ReadPlan(w) \/ WritePlan(w)
  BY <1>3, ConsumerHandles DEF D!Next
<1>4. CASE Nightly
  BY <1>0, <1>4, QueueAtNight
<1>5. CASE UNCHANGED vars
  <2>1. UNCHANGED <<queue, job, run, handled>> /\ faults' \in Nat
    BY <1>0, <1>5 DEF vars, qvars, QueueInv, QueueShape
  <2> QED BY <1>0, <2>1, QueueRests
<1> QED BY <1>1, <1>2, <1>3, <1>4, <1>5 DEF Next

LEMMA RowsKept ==
    ASSUME QueueAssumption, RecommendationsAssumption, IInv, [Next]_vars
    PROVE  RowsInv'
<1>0. QueueInv /\ RowsInv
  BY DEF IInv
<1>1. CASE QueueStep /\ UNCHANGED rvars
  BY <1>0, <1>1, RowsUnderQueue
<1>2. CASE (\E e \in Events : Published(e)) /\ UNCHANGED rvars
  BY <1>0, <1>2, RowsWhenPublished
<1>3. CASE \E w \in Workers : ReadPlan(w) \/ WritePlan(w)
  BY <1>0, <1>3, RowsRead, RowsWritten
<1>4. CASE Nightly
  BY <1>0, <1>4, RowsAtNight
<1>5. CASE UNCHANGED vars
  <2>1. UNCHANGED <<job, run, plan, job2, disturbed>>
    BY <1>5 DEF vars, qvars, rvars
  <2> QED BY <1>0, <2>1, RowsStay DEF RowsInv, RowsShape
<1> QED BY <1>1, <1>2, <1>3, <1>4, <1>5 DEF Next

LEMMA CalmKept ==
    ASSUME QueueAssumption, RecommendationsAssumption, IInv, [Next]_vars,
           ~disturbed', faults' = 0
    PROVE  InOrder' /\ OneAtATime' /\ Newest'
<1>0. ~disturbed /\ faults = 0 /\ InOrder /\ OneAtATime /\ Newest
  BY CalmBefore
<1>1. CASE QueueStep /\ UNCHANGED rvars
  <2>1. PICK w \in Workers : Take(w) \/ Ack(w)
    BY <1>0, <1>1, CalmQueue
  <2> QED BY <1>0, <1>1, <2>1, CalmTake, CalmAck
<1>2. CASE (\E e \in Events : Published(e)) /\ UNCHANGED rvars
  BY <1>0, <1>2, CalmPublish
<1>3. CASE \E w \in Workers : ReadPlan(w) \/ WritePlan(w)
  BY <1>0, <1>3, CalmRead, CalmWrite
<1>4. CASE Nightly
  BY <1>0, <1>4, CalmNight
<1>5. CASE UNCHANGED vars
  <2>1. UNCHANGED qvars /\ UNCHANGED <<plan, job2>>
    BY <1>5 DEF vars, rvars
  <2>2. job2.pc = "weak" => \A w \in Workers : run[w].pc # "write"
    BY <1>0 DEF OneAtATime
  <2>3. job2.pc = "weak" => job2.held = plan[job2.plan]
    BY <1>0 DEF Newest
  <2> QED BY <1>0, <2>1, <2>2, <2>3, CalmRests
<1> QED BY <1>1, <1>2, <1>3, <1>4, <1>5 DEF Next

LEMMA Kept == QueueAssumption /\ RecommendationsAssumption /\ IInv /\ [Next]_vars => IInv'
BY QueueKept, RowsKept, CalmKept DEF IInv, Serially

THEOREM Inductive == Spec => []IInv
BY QueueAssumption, RecommendationsAssumption, Starts, Kept, PTL DEF Spec

-----------------------------------------------------------------------------
\* The queue of a consumer, its workers' crashes, stalls and retries included,
\* is an implementation of what the fan-out promises it (EventQueue.D): an event
\* is done only when its handler ran to its end, is settled once, and is not
\* handled before it was published.
THEOREM Implements == Spec => D!Init /\ [][D!Next]_D!vars
<1>1. Init => D!Init
  BY DEF Init, QueueInit, D!Init, outcome
<1>2. IInv /\ [Next]_vars => [D!Next]_D!vars
  BY QueueAssumption, RecommendationsAssumption, QueueKept DEF D!vars
<1> QED BY <1>1, <1>2, Inductive, PTL DEF Spec

LEMMA OnePlanEach ==
    ASSUME RecommendationsAssumption, IInv, Newest, NEW lang \in Languages
    PROVE  Cardinality(Plans(lang)) <= 1
<1>1. \A p \in Plans(lang) : p \in PlanIds /\ plan[p].lang = lang /\ plan[p] # NoPlan
  BY DEF Plans, NoPlan, RecommendationsAssumption
<1>2. CASE Plans(lang) = {}
  BY <1>2, FS_EmptySet
<1>3. CASE Plans(lang) # {}
  <2>1. PICK p : p \in Plans(lang)
    BY <1>3
  <2>2. Plans(lang) = {p}
    BY <1>1, <2>1 DEF Newest
  <2> QED BY <2>2, FS_Singleton
<1> QED BY <1>2, <1>3

\* LearningPlanService and DailyGoalService: as long as deliveries neither
\* overlap nor fail, a language has at most one learning plan, and once an
\* attempt's job is done its plan is from that attempt or a newer one, whatever
\* the nightly job wrote to it in between.
THEOREM SerialDelivery == Spec => []SerialDeliveryKeepsNewest
<1>1. ASSUME IInv PROVE SerialDeliveryKeepsNewest
  <2>1. SUFFICES ASSUME ~disturbed, faults = 0, NEW lang \in Languages
                 PROVE  /\ Cardinality(Plans(lang)) <= 1
                        /\ \A e \in Events : job[e].st = "done" /\ LanguageOf[e] = lang =>
                             \A p \in Plans(lang) : plan[p].event >= e
    BY DEF SerialDeliveryKeepsNewest
  <2>2. InOrder /\ Newest
    BY <1>1, <2>1 DEF IInv, Serially
  <2>3. ASSUME NEW e \in Events, job[e].st = "done", LanguageOf[e] = lang, NEW p \in Plans(lang)
        PROVE  plan[p].event >= e
    <3>1. e <= plan[p].event
      BY <2>2, <2>3 DEF InOrder, Newest, Plans
    <3>2. e \in Nat /\ plan[p].event \in Nat
      <4>1. plan[p] \in PlanRow
        BY <1>1, <2>3, RecommendationsAssumption
           DEF Plans, IInv, RowsInv, RowsShape, NoPlan, RecommendationsAssumption
      <4> QED BY <4>1, RecommendationsAssumption DEF PlanRow, RecommendationsAssumption
    <3> QED BY <3>1, <3>2
  <2> QED BY <1>1, <2>2, <2>3, OnePlanEach, RecommendationsAssumption
<1> QED BY <1>1, Inductive, PTL
=============================================================================
