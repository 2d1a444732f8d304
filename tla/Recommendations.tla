-------------------------- MODULE Recommendations ---------------------------
(***************************************************************************)
(* The recommendation engine for one learner: the consumer of              *)
(* assessment.attempt.completed that creates and updates learning plans    *)
(* (one per language), and the nightly job that gives every active plan a  *)
(* daily goal for tomorrow, records weak skills on the plan and publishes  *)
(* recommendation.daily_goal.ready.  Both write LearningPlan.milestones.   *)
(*                                                                         *)
(* Events are numbered in the order their attempts completed.  The steps   *)
(* are the statements; neither the consumer nor the job opens a            *)
(* transaction.                                                            *)
(***************************************************************************)
EXTENDS EventQueue

CONSTANTS
    Languages,
    LanguageOf,     \* Events -> language of the attempt
    PlanIds,        \* ids of "LearningPlan" rows, given in order
    Dates,          \* dates that may have a daily goal
    Publishable,    \* bound: events that are published
    MaxNights,      \* bound: nightly runs, one for each date
    MaxReruns       \* bound: times a nightly job is retried from its start

ASSUME RecommendationsAssumption ==
    /\ Events \subseteq Nat \ {0} /\ NoEvent = 0
    /\ LanguageOf \in [Events -> Languages]
    /\ PlanIds \subseteq Nat \ {0} /\ Publishable \subseteq Events
    /\ NoEvent \notin Languages
    /\ MaxReruns \in Nat /\ MaxNights \in Nat /\ 1..MaxNights \subseteq Dates

VARIABLES
    plan,       \* PlanIds -> "LearningPlan": language, event its milestones are from, weak
    goal,       \* dates -> "DailyGoal" of the learner for that date, or NoGoal
    ready,      \* daily_goal.ready events published: date and the target announced
    night,      \* date of the current nightly run
    job2,       \* the nightly job: where it is and what it holds
    reruns,
    disturbed   \* a handler overlapped another or the nightly job's write of
                \* milestones, or a fault reordered events (ghost)

rvars == <<plan, goal, ready, night, job2, reruns, disturbed>>
vars == <<qvars, rvars>>

NoPlan == [lang |-> NoEvent, event |-> NoEvent, weak |-> FALSE]
NoGoal == [plan |-> NoEvent, xp |-> 0, activities |-> 0, completed |-> FALSE]

Plans(lang) == {p \in PlanIds : plan[p].lang = lang}
Active == {p \in PlanIds : plan[p] # NoPlan}
Busy(w) == run[w].pc \in {"begin", "write"}

-----------------------------------------------------------------------------
(* LearningPlanService.handleAssessmentAttemptCompleted.                    *)

\* As ReadPlan would be without the lookup of the language's plan.
ReadNoPlan(w) ==
    /\ run[w].pc = "begin"
    /\ Goes(w, "write", NoEvent)
    /\ disturbed' = (disturbed \/ faults > 0 \/ job2.pc = "weak"
                               \/ \E v \in Workers \ {w} : Busy(v))
    /\ UNCHANGED <<queue, job, handled, faults, plan, goal, ready, night, job2, reruns>>

\* Whatever the order of findFirst, it returns one of the plans there are.
ReadPlan(w) ==
    LET e == run[w].event IN
    /\ run[w].pc = "begin"
    /\ \/ Plans(LanguageOf[e]) = {} /\ Goes(w, "write", NoEvent)
       \/ \E p \in Plans(LanguageOf[e]) : Goes(w, "write", p)
    /\ disturbed' = (disturbed \/ faults > 0 \/ job2.pc = "weak"
                               \/ \E v \in Workers \ {w} : Busy(v))
    /\ UNCHANGED <<queue, job, handled, faults, plan, goal, ready, night, job2, reruns>>

\* As WritePlan would be if it updated plans and created none.
WritePlanUpdates(w) ==
    LET p == run[w].held IN
    /\ run[w].pc = "write"
    /\ plan' = IF p = NoEvent THEN plan ELSE [plan EXCEPT ![p].event = run[w].event]
    /\ handled' = handled \cup {run[w].event}
    /\ Goes(w, "ack", NoEvent)
    /\ UNCHANGED <<queue, job, faults, goal, ready, night, job2, reruns, disturbed>>

WritePlan(w) ==
    LET e == run[w].event
        p == run[w].held
    IN  /\ run[w].pc = "write"
        /\ IF p # NoEvent
           THEN plan' = [plan EXCEPT ![p] = [@ EXCEPT !.event = e, !.weak = FALSE]]
           ELSE \E new \in PlanIds \ Active :
                  /\ \A other \in PlanIds \ Active : new <= other
                  /\ plan' = [plan EXCEPT ![new] = [lang |-> LanguageOf[e], event |-> e,
                                                    weak |-> FALSE]]
        /\ handled' = handled \cup {e}
        /\ Goes(w, "ack", NoEvent)
        /\ UNCHANGED <<queue, job, faults, goal, ready, night, job2, reruns, disturbed>>

-----------------------------------------------------------------------------
(* DailyGoalService.generateForPlan, for one plan after the other.          *)

BaseXp == 50
BaseActivities == 3

\* The last three goals the learner has, tomorrow's included when it exists.
Recent ==
    LET dates == {d \in DOMAIN goal : goal[d] # NoGoal}
    IN  {d \in dates : Cardinality({k \in dates : k > d}) < 3}

\* Tenths: 11 from six tenths of the goals completed, 9 up to four tenths.
computeAdjustmentMultiplier ==
    LET done == Cardinality({d \in Recent : goal[d].completed})
        all == Cardinality(Recent)
    IN  IF all = 0 THEN 10
        ELSE IF 10 * done >= 6 * all THEN 11
        ELSE IF 10 * done <= 4 * all THEN 9 ELSE 10

Round(tenths) == (tenths + 5) \div 10

Asleep == [pc |-> "idle", todo |-> {}, plan |-> NoEvent, xp |-> 0, activities |-> 0,
           weak |-> FALSE, held |-> NoPlan]

StartNight ==
    /\ job2.pc = "idle" /\ night < MaxNights
    /\ night' = night + 1
    /\ job2' = [Asleep EXCEPT !.pc = "next", !.todo = Active]
    /\ UNCHANGED <<qvars, plan, goal, ready, reruns, disturbed>>

\* Weak skills come from the learner's history and answers: either may be.
computeGoal ==
    /\ job2.pc = "next"
    /\ \E p \in job2.todo, weak \in BOOLEAN :
         job2' = [job2 EXCEPT !.pc = "upsert", !.todo = @ \ {p}, !.plan = p, !.weak = weak,
                    !.xp = Round(BaseXp * computeAdjustmentMultiplier),
                    !.activities = Round(BaseActivities * computeAdjustmentMultiplier)
                                   + (IF weak THEN 1 ELSE 0)]
    /\ UNCHANGED <<qvars, plan, goal, ready, night, reruns, disturbed>>

\* The row is unique for the learner and the date, whatever the plan.
UpsertGoal ==
    /\ job2.pc = "upsert"
    /\ goal' = [goal EXCEPT ![night] = [plan |-> job2.plan, xp |-> job2.xp,
                                        activities |-> job2.activities, completed |-> @.completed]]
    /\ job2' = [job2 EXCEPT !.pc = IF job2.weak THEN "readWeak" ELSE "publish"]
    /\ UNCHANGED <<qvars, plan, ready, night, reruns, disturbed>>

ReadMilestones ==
    /\ job2.pc = "readWeak"
    /\ job2' = [job2 EXCEPT !.pc = "weak", !.held = plan[job2.plan]]
    /\ disturbed' = (disturbed \/ \E w \in Workers : Busy(w))
    /\ UNCHANGED <<qvars, plan, goal, ready, night, reruns>>

recordWeakSkillsOnPlan ==
    /\ job2.pc = "weak"
    /\ plan' = [plan EXCEPT ![job2.plan] = [job2.held EXCEPT !.weak = TRUE]]
    /\ job2' = [job2 EXCEPT !.pc = "publish", !.held = NoPlan]
    /\ UNCHANGED <<qvars, goal, ready, night, reruns, disturbed>>

PublishReady ==
    /\ job2.pc = "publish"
    /\ ready' = ready \cup {[date |-> night, xp |-> job2.xp, activities |-> job2.activities]}
    /\ job2' = [job2 EXCEPT !.pc = "next"]
    /\ UNCHANGED <<qvars, plan, goal, night, reruns, disturbed>>

EndNight ==
    /\ job2.pc = "next" /\ job2.todo = {}
    /\ job2' = Asleep
    /\ UNCHANGED <<qvars, plan, goal, ready, night, reruns, disturbed>>

\* A plan's failure is caught: the next plan's turn.
PlanFails ==
    /\ job2.pc \notin {"idle", "next"} /\ faults < MaxFaults
    /\ faults' = faults + 1
    /\ job2' = [job2 EXCEPT !.pc = "next", !.held = NoPlan]
    /\ UNCHANGED <<queue, job, run, handled, plan, goal, ready, night, reruns, disturbed>>

\* The process dies; the job is taken up again from its start.
NightRestarts ==
    /\ job2.pc # "idle" /\ reruns < MaxReruns
    /\ reruns' = reruns + 1
    /\ job2' = [Asleep EXCEPT !.pc = "next", !.todo = Active]
    /\ UNCHANGED <<qvars, plan, goal, ready, night, disturbed>>

Nightly ==
    \/ StartNight \/ computeGoal \/ UpsertGoal \/ ReadMilestones \/ recordWeakSkillsOnPlan
    \/ PublishReady \/ EndNight \/ PlanFails \/ NightRestarts

-----------------------------------------------------------------------------
Init ==
    /\ QueueInit
    /\ plan = [p \in PlanIds |-> NoPlan]
    /\ goal = [d \in Dates |-> NoGoal]
    /\ ready = {} /\ night = 0 /\ job2 = Asleep /\ reruns = 0 /\ disturbed = FALSE

\* Attempts complete in the order of their numbers.
Published(e) == e \in Publishable /\ publish(e) /\ \A k \in Publishable : k < e => job[k].st # "unsent"

Next ==
    \/ (QueueStep \/ \E e \in Events : Published(e)) /\ UNCHANGED rvars
    \/ \E w \in Workers : ReadPlan(w) \/ WritePlan(w)
    \/ Nightly

\* The workers run their handlers to the end; no promise that an attempt is
\* ever completed or that the nightly job runs.
Fairness ==
    /\ QueueFairness
    /\ \A w \in Workers : WF_vars(ReadPlan(w)) /\ WF_vars(WritePlan(w))

Spec == Init /\ [][Next]_vars /\ Fairness

-----------------------------------------------------------------------------
\* Jobs are in the queue exactly while they wait, active ones have an owner, and
\* rows and the nightly job keep their shape.
TypeOK ==
    /\ job \in [Events -> [st : JobState, tries : 0..Attempts, stalls : 0..MaxStalls, owner : Workers]]
    /\ \A e \in Events : job[e].st = "waiting" <=> \E i \in DOMAIN queue : queue[i] = e
    /\ Cardinality({queue[i] : i \in DOMAIN queue}) = Len(queue)
    /\ plan \in [PlanIds -> {NoPlan} \cup [lang : Languages, event : Events, weak : BOOLEAN]]
    /\ faults \in 0..MaxFaults /\ night \in {0} \cup Dates

\* Deliveries that neither overlap nor fail leave one plan for each language, and
\* once the queue is drained it is from the newest attempt in that language.
SerialDeliveryKeepsNewest ==
    (~ disturbed /\ faults = 0) =>
        \A lang \in Languages :
            /\ Cardinality(Plans(lang)) <= 1
            /\ \A e \in Events : job[e].st = "done" /\ LanguageOf[e] = lang =>
                 \A p \in Plans(lang) : plan[p].event >= e

\* Every published completion ends with a plan for its language, or its job is
\* given up on, which takes PUBLISH_ATTEMPTS failures or repeated stalls.
CompletionIsPlanned ==
    \A e \in Events : (job[e].st # "unsent") ~>
        (job[e].st = "failed" \/ Plans(LanguageOf[e]) # {})
=============================================================================
