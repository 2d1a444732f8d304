----------------------------- MODULE Assessment -----------------------------
(***************************************************************************)
(* AssessmentService of apps/api for one learner and one language: an      *)
(* attempt serves items skill by skill, the adaptive selector decides from *)
(* the answers which item is next and when a skill is done, completion     *)
(* bands every skill, stores the learner's proficiency levels and          *)
(* publishes assessment.attempt.completed.                                 *)
(*                                                                         *)
(* A request is the steps between its statements: all its reads up to the  *)
(* first write are one step, and the write acts on what was read.          *)
(* Difficulty is counted in quarters, as the selector's target moves.      *)
(***************************************************************************)
EXTENDS Naturals, FiniteSets, Sequences

CONSTANTS
    Attempts,       \* ids of "AssessmentAttempt" rows
    Requests,       \* slots for requests in flight
    Items,          \* active items of the language
    SkillOf,        \* Items -> skill
    BandOf,         \* Items -> index in BAND_ORDER
    DifficultyOf,   \* Items -> difficulty, in quarters
    Skills,         \* SKILL_ORDER, as a sequence
    MaxStops,       \* bound: requests that stop half way
    MaxLate,        \* bound: answers of an attempt stored out of turn
    NoAttempt

Bands == 0..5                   \* BAND_ORDER: A1, A2, B1, B2, C1, C2
StartBand == 2
MaxItemsPerSkill == 5
StabilizeStreak == 2

SkillSet == {Skills[i] : i \in DOMAIN Skills}
Objective == SkillSet \ {"WRITING"}

\* Difficulty is counted in quarters; the column is not limited.
AssessmentBounds ==
    /\ Skills \in Seq(SkillSet) /\ SkillOf \in [Items -> SkillSet] /\ BandOf \in [Items -> Bands]
    /\ DifficultyOf \in [Items -> Nat] /\ MaxStops \in Nat /\ MaxLate \in Nat
    /\ NoAttempt \notin Attempts

VARIABLES
    status,     \* Attempts -> "none", "IN_PROGRESS", "COMPLETED"
    responses,  \* Attempts -> rows of "AssessmentResponse" by createdAt: item, correct
    level,      \* skills with a "ProficiencyLevel" -> band, low, and the attempt (ghost)
    history,    \* Attempts -> how often its results went into ProficiencyLevelHistory
    published,  \* Attempts -> assessment.attempt.completed events
    replies,    \* Attempts -> results its successful completions answered (ghost)
    late,       \* Attempts -> answers stored that were no longer the ones to give (ghost)
    req,        \* Requests -> where each request is and what it holds
    stops

vars == <<status, responses, level, history, published, replies, late, req, stops>>

-----------------------------------------------------------------------------
(* AdaptiveItemSelectionService.                                            *)

\* One answer moves the target by a quarter; past 1 or 0 the band moves.
AfterAnswer(s, correct) ==
    CASE correct /\ s.target = 4   -> [band |-> IF s.band = 5 THEN 5 ELSE s.band + 1, target |-> 1]
      [] correct /\ s.target < 4   -> [s EXCEPT !.target = @ + 1]
      [] ~ correct /\ s.target = 0 -> [band |-> IF s.band = 0 THEN 0 ELSE s.band - 1, target |-> 3]
      [] ~ correct /\ s.target > 0 -> [s EXCEPT !.target = @ - 1]

\* The state after each prefix of the answers; state[0] is the start.
computeRunningState(answers) ==
    LET state[i \in 0..Len(answers)] ==
          IF i = 0 THEN [band |-> StartBand, target |-> 2]
                   ELSE AfterAnswer(state[i - 1], answers[i])
    IN  state

\* hasStabilized, were the bands of served items compared: two answers suffice.
StabilizesOnTwo(answers) ==
    LET state == computeRunningState(answers)
        n == Len(answers)
    IN  n >= StabilizeStreak /\ \A i \in (n - StabilizeStreak + 1)..n : state[i].band = state[n].band

hasStabilized(answers) ==
    LET state == computeRunningState(answers)
        n == Len(answers)
    IN  n > StabilizeStreak /\ \A i \in (n - StabilizeStreak + 1)..n : state[i].band = state[n].band

Gap(a, b) == IF a >= b THEN a - b ELSE b - a

\* Nearest band with an item left, then nearest difficulty; of equals, the
\* query's order decides, which it leaves open.
Closest(items, s) ==
    LET near == {i \in items : \A j \in items : Gap(BandOf[i], s.band) <= Gap(BandOf[j], s.band)}
    IN  {i \in near : \A j \in near : Gap(DifficultyOf[i], s.target) <= Gap(DifficultyOf[j], s.target)}

selectNext(candidates, answers) ==
    IF Len(answers) >= MaxItemsPerSkill \/ hasStabilized(answers)
    THEN {}
    ELSE Closest(candidates, computeRunningState(answers)[Len(answers)])

-----------------------------------------------------------------------------
(* What an attempt serves.                                                  *)

InSkill(rows, s) ==
    LET given[i \in 0..Len(rows)] ==
          IF i = 0 THEN <<>>
          ELSE IF SkillOf[rows[i].item] = s THEN Append(given[i - 1], rows[i]) ELSE given[i - 1]
    IN  given[Len(rows)]

\* isCorrect is null for a writing answer, which the selector reads as wrong.
Answers(rows, s) ==
    LET given == InSkill(rows, s) IN [i \in DOMAIN given |-> s # "WRITING" /\ given[i].correct]
Answered(rows) == {rows[i].item : i \in DOMAIN rows}

Servable(rows, s) ==
    selectNext({i \in Items : SkillOf[i] = s} \ Answered(rows), Answers(rows, s))

\* The items that may be served next: those of the first skill not done.
computeNextServableItem(rows) ==
    LET open == {k \in DOMAIN Skills : Servable(rows, Skills[k]) # {}}
    IN  IF open = {} THEN {}
        ELSE Servable(rows, Skills[CHOOSE k \in open : \A j \in open : k <= j])

-----------------------------------------------------------------------------
(* Banding.                                                                 *)

\* Upper bounds, in hundredths of the weighted accuracy, of bands 0..4.
Thresholds == <<30, 45, 60, 75, 90>>

Weight(rows, only) ==
    LET w[i \in 0..Len(rows)] ==
          IF i = 0 THEN 0
          ELSE w[i - 1] + (IF rows[i].correct \/ ~ only THEN DifficultyOf[rows[i].item] ELSE 0)
    IN  w[Len(rows)]

\* LowConfidence, did only the number of answers count.
LowConfidenceByCount(n, correct) == n < 3

\* confidence = (min(n/5, 1) + 1 - 4p(1-p)) / 2 is below one half.
LowConfidence(n, correct) ==
    LET served == IF n > MaxItemsPerSkill THEN MaxItemsPerSkill ELSE n
    IN  served * n * n < MaxItemsPerSkill * 4 * correct * (n - correct)

computeSkillBanding(rows) ==
    LET n == Len(rows)
        correct == Cardinality({i \in 1..n : rows[i].correct})
        passed == {k \in 1..5 : /\ Weight(rows, FALSE) > 0
                                /\ 100 * Weight(rows, TRUE) >= Thresholds[k] * Weight(rows, FALSE)}
    IN  IF n = 0 THEN [band |-> 0, low |-> TRUE]
                 ELSE [band |-> Cardinality(passed), low |-> LowConfidence(n, correct)]

\* A writing answer carries the AI's own level; correct stands for a confident
\* critique of a good text.  A skill without a writing answer is left out.
computeWritingBanding(rows) ==
    LET last == rows[Len(rows)] IN [band |-> IF last.correct THEN 5 ELSE 0, low |-> ~ last.correct]

computeProficiencyResults(rows) ==
    [s \in Objective \cup (IF InSkill(rows, "WRITING") = <<>> THEN {} ELSE {"WRITING"}) |->
        IF s = "WRITING" THEN computeWritingBanding(InSkill(rows, s))
                         ELSE computeSkillBanding(InSkill(rows, s))]

-----------------------------------------------------------------------------
(* Requests.                                                                *)

Idle == [pc |-> "idle", type |-> "PLACEMENT", attempt |-> NoAttempt, item |-> NoAttempt, correct |-> FALSE,
         result |-> [s \in {} |-> 0]]
At(r, pc) == req[r].pc = pc
Step(r, held) == req' = [req EXCEPT ![r] = held]

\* No attempt in progress; a reassessment also wants a completed one.
startAttempt(r) ==
    /\ At(r, "idle")
    /\ \A a \in Attempts : status[a] # "IN_PROGRESS"
    /\ \E type \in {"PLACEMENT", "REASSESSMENT"} :
         /\ type = "REASSESSMENT" => \E a \in Attempts : status[a] = "COMPLETED"
         /\ Step(r, [Idle EXCEPT !.pc = "create", !.type = type])
    /\ UNCHANGED <<status, responses, level, history, published, replies, late, stops>>

CreateAttempt(r) ==
    /\ At(r, "create")
    /\ \E a \in Attempts :
         /\ status[a] = "none"
         /\ status' = [status EXCEPT ![a] = "IN_PROGRESS"]
    /\ Step(r, Idle)
    /\ UNCHANGED <<responses, level, history, published, replies, late, stops>>

\* The attempt, the item, whether it was answered, and whether it is the one
\* the selector would serve now; then it is scored (a writing item by a call
\* to the AI engine, which may fail: RequestStops).
submitResponse(r) ==
    /\ At(r, "idle")
    /\ \E a \in Attempts, correct \in BOOLEAN :
         /\ status[a] = "IN_PROGRESS"
         /\ \E i \in computeNextServableItem(responses[a]) :
              Step(r, [Idle EXCEPT !.pc = "save", !.attempt = a, !.item = i, !.correct = correct])
    /\ UNCHANGED <<status, responses, level, history, published, replies, late, stops>>

SaveResponse(r) ==
    LET a == req[r].attempt IN
    /\ At(r, "save")
    /\ responses' = [responses EXCEPT
                       ![a] = Append(@, [item |-> req[r].item, correct |-> req[r].correct])]
    /\ IF req[r].item \in computeNextServableItem(responses[a])
       THEN UNCHANGED late
       ELSE late[a] < MaxLate /\ late' = [late EXCEPT ![a] = @ + 1]
    /\ Step(r, Idle)
    /\ UNCHANGED <<status, level, history, published, replies, stops>>

\* completeAttempt without the look for an item left to serve.
completeAttemptUnchecked(r) ==
    /\ At(r, "idle")
    /\ \E a \in Attempts :
         LET result == computeProficiencyResults(responses[a]) IN
         \/ /\ status[a] = "COMPLETED"
            /\ replies' = [replies EXCEPT ![a] = @ \cup {result}]
            /\ UNCHANGED req
         \/ /\ status[a] = "IN_PROGRESS"
            /\ Step(r, [Idle EXCEPT !.pc = "commit", !.attempt = a, !.result = result])
            /\ UNCHANGED replies
    /\ UNCHANGED <<status, responses, level, history, published, late, stops>>

\* A completed attempt is answered at once from its rows; one in progress must
\* have nothing left to serve.
completeAttempt(r) ==
    /\ At(r, "idle")
    /\ \E a \in Attempts :
         LET result == computeProficiencyResults(responses[a]) IN
         \/ /\ status[a] = "COMPLETED"
            /\ replies' = [replies EXCEPT ![a] = @ \cup {result}]
            /\ UNCHANGED req
         \/ /\ status[a] = "IN_PROGRESS"
            /\ computeNextServableItem(responses[a]) = {}
            /\ Step(r, [Idle EXCEPT !.pc = "commit", !.attempt = a, !.result = result])
            /\ UNCHANGED replies
    /\ UNCHANGED <<status, responses, level, history, published, late, stops>>

\* The transaction: the status (unconditionally), every level and its history.
CommitCompletion(r) ==
    LET a == req[r].attempt
        result == req[r].result
    IN  /\ At(r, "commit")
        /\ status' = [status EXCEPT ![a] = "COMPLETED"]
        /\ level' = [s \in DOMAIN level \cup DOMAIN result |->
                       IF s \in DOMAIN result
                       THEN [band |-> result[s].band, low |-> result[s].low, attempt |-> a]
                       ELSE level[s]]
        /\ history' = [history EXCEPT ![a] = @ + 1]
        /\ Step(r, [req[r] EXCEPT !.pc = "publish"])
        /\ UNCHANGED <<responses, published, replies, late, stops>>

PublishCompleted(r) ==
    LET a == req[r].attempt IN
    /\ At(r, "publish")
    /\ published' = [published EXCEPT ![a] = @ + 1]
    /\ replies' = [replies EXCEPT ![a] = @ \cup {req[r].result}]
    /\ Step(r, Idle)
    /\ UNCHANGED <<status, responses, level, history, late, stops>>

RequestStops(r) ==
    /\ ~ At(r, "idle") /\ stops < MaxStops
    /\ Step(r, Idle)
    /\ stops' = stops + 1
    /\ UNCHANGED <<status, responses, level, history, published, replies, late>>

Init ==
    /\ status = [a \in Attempts |-> "none"]
    /\ responses = [a \in Attempts |-> <<>>]
    /\ level = [s \in {} |-> 0]
    /\ history = [a \in Attempts |-> 0]
    /\ published = [a \in Attempts |-> 0]
    /\ replies = [a \in Attempts |-> {}]
    /\ late = [a \in Attempts |-> 0]
    /\ req = [r \in Requests |-> Idle]
    /\ stops = 0

Next == \E r \in Requests :
    \/ startAttempt(r) \/ CreateAttempt(r)
    \/ submitResponse(r) \/ SaveResponse(r)
    \/ completeAttempt(r) \/ CommitCompletion(r) \/ PublishCompleted(r)
    \/ RequestStops(r)

Spec == Init /\ [][Next]_vars

-----------------------------------------------------------------------------
\* Rows, results and what a request carries keep their shape; an attempt that
\* was never created has no answers.
TypeOK ==
    /\ status \in [Attempts -> {"none", "IN_PROGRESS", "COMPLETED"}]
    /\ \A a \in Attempts :
         /\ \A i \in DOMAIN responses[a] : responses[a][i] \in [item : Items, correct : BOOLEAN]
         /\ status[a] = "none" => responses[a] = <<>>
    /\ DOMAIN level \subseteq SkillSet
    /\ \A s \in DOMAIN level : level[s] \in [band : Bands, low : BOOLEAN, attempt : Attempts]
    /\ stops \in 0..MaxStops /\ late \in [Attempts -> 0..MaxLate]

\* "Comparing served-item bands would make every skill stabilize after exactly
\* 2 items": a completed attempt has at least three answers in every objective
\* skill, or has used up the items of the skill.
NoEarlyStop ==
    \A a \in Attempts : status[a] = "COMPLETED" =>
        \A s \in Objective :
            \/ Len(Answers(responses[a], s)) > StabilizeStreak
            \/ {i \in Items : SkillOf[i] = s} \subseteq Answered(responses[a])

\* Two equal bands in a row are reached after four answers at the latest, so
\* without overlapping answers no skill comes to MAX_ITEMS_PER_SKILL, and the
\* selector never leaves the bands next to B1.
StaysNearStart ==
    \A a \in Attempts : late[a] = 0 =>
        \A s \in Objective :
            LET answers == Answers(responses[a], s)
            IN  /\ Len(answers) < MaxItemsPerSkill
                /\ computeRunningState(answers)[Len(answers)].band
                     \in (StartBand - 1)..(StartBand + 1)

\* Both sides of the stop rule: not too early, and before the maximum.
StopsWhenStable == NoEarlyStop /\ StaysNearStart

\* A retake is recommended for an objective skill exactly when nothing was
\* served or the at most three answers disagree.
RetakeOnMixedAnswers ==
    \A a \in Attempts : status[a] = "COMPLETED" /\ late[a] = 0 =>
        \A s \in Objective :
            LET answers == Answers(responses[a], s)
            IN  computeSkillBanding(InSkill(responses[a], s)).low
                  <=> \/ answers = <<>>
                      \/ Len(answers) <= 3 /\ {answers[i] : i \in DOMAIN answers} = BOOLEAN

\* A completed attempt has nothing left to serve, also after an overlapping
\* answer landed behind its completion; and completing it again answers the same
\* numbers, unless a late answer was stored in between.
CompletionSettles ==
    \A a \in Attempts :
        /\ status[a] = "COMPLETED" => computeNextServableItem(responses[a]) = {}
        /\ late[a] = 0 => Cardinality(replies[a]) <= 1
=============================================================================
