----------------------------- MODULE EventQueue -----------------------------
(***************************************************************************)
(* The queue of one registered consumer of the domain events: publish adds *)
(* a job, workers take jobs one at a time, a handler that throws has its   *)
(* job retried with backoff up to PUBLISH_ATTEMPTS attempts, and a job     *)
(* whose worker stopped renewing its claim (the process died, or was only  *)
(* too slow) goes back to the queue.  A slow worker runs on: its job may   *)
(* then be handled by two workers at once.                                 *)
(*                                                                         *)
(* The handler is the business of the module that extends this one: it     *)
(* runs between Take, which leaves the worker at "begin", and "ack".       *)
(***************************************************************************)
EXTENDS Naturals, Sequences, FiniteSets

CONSTANTS
    Events,         \* published events of the type the consumer handles
    Workers,        \* workers listening on the queue, over all processes
    Attempts,       \* PUBLISH_ATTEMPTS
    MaxStalls,      \* times a job may go back to the queue by itself
    MaxFaults,      \* bound: handlers that throw, workers that stall or die
    NoEvent

ASSUME QueueAssumption ==
    /\ Attempts \in Nat \ {0} /\ MaxStalls \in Nat /\ MaxFaults \in Nat
    /\ NoEvent \notin Events

VARIABLES
    queue,      \* jobs waiting, oldest first
    job,        \* Events -> st, tries (attempts that failed), stalls, owner
    run,        \* Workers -> event in hand and where its handler is
    handled,    \* events whose handler ran to its end (ghost)
    faults

qvars == <<queue, job, run, handled, faults>>

JobState == {"unsent", "waiting", "active", "delayed", "done", "failed"}

Free == [event |-> NoEvent, pc |-> "idle", held |-> NoEvent]

\* The worker still owns the job it is running.
Owns(w) == run[w].event # NoEvent /\ job[run[w].event].st = "active"
                                  /\ job[run[w].event].owner = w

Goes(w, pc, held) == run' = [run EXCEPT ![w].pc = pc, ![w].held = held]

-----------------------------------------------------------------------------
\* One consumer's share of the fan-out.
publish(e) ==
    /\ job[e].st = "unsent"
    /\ job' = [job EXCEPT ![e].st = "waiting"]
    /\ queue' = Append(queue, e)
    /\ UNCHANGED <<run, handled, faults>>

Take(w) ==
    /\ run[w] = Free /\ queue # <<>>
    /\ run' = [run EXCEPT ![w] = [event |-> Head(queue), pc |-> "begin", held |-> NoEvent]]
    /\ job' = [job EXCEPT ![Head(queue)].st = "active", ![Head(queue)].owner = w]
    /\ queue' = Tail(queue)
    /\ UNCHANGED <<handled, faults>>

\* The handler has returned.  Only the owner's word counts.
Ack(w) ==
    LET e == run[w].event IN
    /\ run[w].pc = "ack"
    /\ job' = IF Owns(w) THEN [job EXCEPT ![e].st = "done"] ELSE job
    /\ run' = [run EXCEPT ![w] = Free]
    /\ UNCHANGED <<queue, handled, faults>>

\* An exception leaves the handler: the job waits out its backoff, or has failed
\* for good.
Rethrow(w) ==
    LET e == run[w].event IN
    /\ job' = IF ~ Owns(w) THEN job
              ELSE [job EXCEPT ![e].tries = @ + 1,
                               ![e].st = IF job[e].tries + 1 < Attempts THEN "delayed" ELSE "failed"]
    /\ run' = [run EXCEPT ![w] = Free]
    /\ UNCHANGED <<queue, handled>>

Throws(w) ==
    /\ run[w].event # NoEvent /\ run[w].pc # "ack" /\ faults < MaxFaults
    /\ faults' = faults + 1
    /\ Rethrow(w)

BackoffEnds(e) ==
    /\ job[e].st = "delayed"
    /\ job' = [job EXCEPT ![e].st = "waiting"]
    /\ queue' = Append(queue, e)
    /\ UNCHANGED <<run, handled, faults>>

\* The process dies with the job in hand.
Dies(w) ==
    /\ run[w] # Free /\ faults < MaxFaults
    /\ faults' = faults + 1
    /\ run' = [run EXCEPT ![w] = Free]
    /\ UNCHANGED <<queue, job, handled>>

Abandoned(e) == job[e].st = "active" /\ run[job[e].owner].event # e

\* As Stalls would be if a stalled job were marked and never queued again.
StallsUnqueued(e) ==
    /\ job[e].st = "active" /\ Abandoned(e)
    /\ job' = [job EXCEPT ![e].st = "waiting", ![e].stalls = @ + 1]
    /\ UNCHANGED <<queue, run, handled, faults>>

\* The claim on an active job runs out: always when its worker died, and when
\* its worker is merely slow (a fault).  Next in line, or failed for good.
Stalls(e) ==
    /\ job[e].st = "active"
    /\ IF Abandoned(e) THEN UNCHANGED faults ELSE faults < MaxFaults /\ faults' = faults + 1
    /\ IF job[e].stalls < MaxStalls
       THEN /\ job' = [job EXCEPT ![e].st = "waiting", ![e].stalls = @ + 1]
            /\ queue' = <<e>> \o queue
       ELSE /\ job' = [job EXCEPT ![e].st = "failed"]
            /\ UNCHANGED queue
    /\ UNCHANGED <<run, handled>>

QueueStep ==
    \/ \E w \in Workers : Take(w) \/ Ack(w) \/ Throws(w) \/ Dies(w)
    \/ \E e \in Events : BackoffEnds(e) \/ Stalls(e)

QueueInit ==
    /\ queue = <<>>
    /\ job = [e \in Events |-> [st |-> "unsent", tries |-> 0, stalls |-> 0,
                                owner |-> CHOOSE w \in Workers : TRUE]]
    /\ run = [w \in Workers |-> Free]
    /\ handled = {}
    /\ faults = 0

\* A free worker takes what waits, a handler's result is recorded, a backoff
\* ends and the claim of a dead worker runs out.
QueueFairness ==
    /\ \A w \in Workers : WF_qvars(Take(w)) /\ WF_qvars(Ack(w))
    /\ \A e \in Events : WF_qvars(BackoffEnds(e)) /\ WF_qvars(Abandoned(e) /\ Stalls(e))

\* What the queue shows of Delivery.
outcome == [e \in Events |-> IF job[e].st \in {"waiting", "active", "delayed"}
                             THEN "pending" ELSE job[e].st]
D == INSTANCE Delivery

DeliverySpec == D!Spec
=============================================================================
