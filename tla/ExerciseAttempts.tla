-------------------------- MODULE ExerciseAttempts --------------------------
(***************************************************************************)
(* ExerciseAttemptsService.submitAttempt of apps/api: a learner answers    *)
(* the exercises of one lesson, while authors edit and publish the course  *)
(* (CourseContent) and every answer feeds the learner's gamification       *)
(* (Gamification) in the same request.  The three interact: an attempt is  *)
(* scored against the row an author may be editing, pins a ContentVersion, *)
(* and decides from what it read earlier whether it is the first one,      *)
(* hence whether it earns XP and may complete the lesson.                  *)
(***************************************************************************)
EXTENDS CourseContent, Gamification

CONSTANTS
    Exercises,      \* rows of "Exercise" of the lesson that can be answered
                    \* (SPEAKING_PROMPT exercises are not among them)
    MaxSubmits      \* bound: answers submitted

ASSUME AttemptsAssumption == Exercises \subseteq Leaves /\ MaxSubmits \in Nat

VARIABLES
    attempts,       \* rows of "ExerciseAttempt": exercise, content answered, pinned version
    completions,    \* learning.lesson.completed events published
    submits         \* bound counter

avars == <<attempts, completions, submits>>
vars == <<cvars, gvars, avars>>

attempted == {a.exercise : a \in attempts}

\* The exercises a lesson asks for: the row is not deleted; whether its
\* activity or its lesson is, the query does not look.
LessonExercises == {x \in Exercises : Owned(x)}

-----------------------------------------------------------------------------
\* The exercise, the publication of its course and the prior attempt.
submitAttempt(r) ==
    /\ At(r, "idle") /\ submits < MaxSubmits
    /\ \E x \in Exercises, correct \in BOOLEAN :
         /\ Owned(x) /\ published
         /\ To(r, [Blank EXCEPT !.pc = "pin", !.exercise = x, !.correct = correct,
                                !.first = x \notin attempted, !.content = row[x].content])
    /\ submits' = submits + 1
    /\ UNCHANGED <<cvars, day, learner, ghosts, failures, attempts, completions>>

\* 0 stands for a null contentVersionId.
getCurrentVersionId(r) ==
    /\ At(r, "pin")
    /\ To(r, [call[r] EXCEPT !.pc = "create", !.pin = Highest(call[r].exercise)])
    /\ UNCHANGED <<cvars, day, learner, ghosts, failures, avars>>

CreateAttempt(r) ==
    LET c == call[r] IN
    /\ At(r, "create")
    /\ attempts' = attempts \cup {[exercise |-> c.exercise, content |-> c.content, pin |-> c.pin]}
    /\ To(r, [c EXCEPT !.pc = "streak"])
    /\ UNCHANGED <<cvars, day, learner, ghosts, failures, completions, submits>>

\* maybeEmitLessonCompleted, were a lesson completed only while no other answer
\* is in flight.
maybeEmitWhenAlone(r) ==
    LET complete == /\ call[r].type = "EXERCISE_ANSWERED" /\ call[r].first
                    /\ LessonExercises # {} /\ LessonExercises \subseteq attempted
                    /\ \A q \in Requests \ {r} : At(q, "idle")
    IN  /\ ActivityRecorded(r)
        /\ completions' = completions + (IF complete THEN 1 ELSE 0)
        /\ To(r, IF complete THEN [call[r] EXCEPT !.pc = "streak", !.type = "LESSON_COMPLETED"]
                             ELSE Blank)
        /\ UNCHANGED <<cvars, day, learner, ghosts, failures, attempts, submits>>

\* After recordActivity: a first attempt looks whether the lesson is complete;
\* a complete lesson is announced and is an activity itself.
maybeEmitLessonCompleted(r) ==
    LET complete == /\ call[r].type = "EXERCISE_ANSWERED" /\ call[r].first
                    /\ LessonExercises # {} /\ LessonExercises \subseteq attempted
    IN  /\ ActivityRecorded(r)
        /\ completions' = completions + (IF complete THEN 1 ELSE 0)
        /\ To(r, IF complete THEN [call[r] EXCEPT !.pc = "streak", !.type = "LESSON_COMPLETED"]
                             ELSE Blank)
        /\ UNCHANGED <<cvars, day, learner, ghosts, failures, attempts, submits>>

\* A statement or a publication throws: what was written before stays.
RequestFails(r) ==
    /\ ~ At(r, "idle") /\ failures < MaxFailures
    /\ To(r, Blank)
    /\ failures' = failures + 1
    /\ UNCHANGED <<cvars, day, learner, ghosts, avars>>

Init ==
    /\ ContentInit
    /\ GamificationInit
    /\ attempts = {} /\ completions = 0 /\ submits = 0

Next ==
    \/ \E a \in Authors : Authoring(a) /\ UNCHANGED <<gvars, avars>>
    \/ \E r \in Requests :
         \/ submitAttempt(r) \/ getCurrentVersionId(r) \/ CreateAttempt(r)
         \/ maybeEmitLessonCompleted(r) \/ RequestFails(r)
         \/ recordActivity(r) /\ UNCHANGED <<cvars, avars>>
    \/ NextDay /\ UNCHANGED <<cvars, avars>>

Spec == Init /\ [][Next]_vars

-----------------------------------------------------------------------------
Quiet == \A r \in Requests : At(r, "idle")

\* The rows and what a request carries keep their shape; counters stay within
\* what the requests can add to them.
TypeOK ==
    /\ day \in 1..LastDay /\ published \in BOOLEAN /\ overlap \in BOOLEAN
    /\ row \in [Rows -> [there : BOOLEAN, deleted : BOOLEAN, content : 0..MaxEdits + 1]]
    /\ streak \in {NoRow} \cup [current : 1..LastDay, longest : 1..LastDay, last : 1..LastDay]
    /\ xp \in {NoRow} \cup [total : Nat, level : Nat \ {0}, lessons : 0..2 * MaxSubmits]
    /\ mission \in [Missions -> [progress : Nat, done : BOOLEAN]]
    /\ earned \subseteq Badges
    /\ attempts \subseteq [exercise : Exercises, content : 1..MaxEdits + 1, pin : 0..MaxEdits + 1]
    /\ submits \in 0..MaxSubmits /\ completions \in 0..MaxSubmits

\* Numbers of versions leave no gap, and version 1 exists for every leaf that
\* was in the tree when a committed publication read it: whatever edits,
\* publications and failures interleave with the backfill.
VersionsComplete ==
    \A x \in Leaves :
        /\ Numbers(x) = 1..Highest(x)
        /\ x \in backfilled => Numbers(x) # {}

\* A version that attempts may have pinned is never rewritten or removed, by
\* a later edit, a second publication or a collision of two edits.
VersionsImmutable ==
    [][\A x \in Leaves : \A n \in Numbers(x) :
           n \in DOMAIN version'[x] /\ version'[x][n] = version[x][n]]_vars

\* As long as authors work one at a time and none stops half way, the latest
\* version of a leaf is the row learners are served.
SequentialEditsVersioned ==
    (~ overlap /\ \A a \in Authors : author[a].pc = "idle") =>
        \A x \in Leaves : Numbers(x) # {} => version[x][Highest(x)] = row[x].content

\* The streak is backed by activity: the learner was active on each of the
\* `current` days that end with the last one, however stale the row an update
\* was computed from; and the longest streak is at least the current one.
StreakEarned ==
    streak # NoRow =>
        /\ streak.current <= streak.last
        /\ (streak.last - streak.current + 1)..streak.last \subseteq active
        /\ streak.longest >= streak.current

\* A level written late may be behind the XP it stands for, never ahead of it.
LevelNeverAhead == xp # NoRow => xp.level <= computeLevel(xp.total)

\* When no request is running and none failed, a learner who answered every
\* exercise the lesson asks for has had its completion announced, in whatever
\* order the answers overlapped: one of the first attempts sees them all.
CompletionNotLost ==
    (Quiet /\ failures = 0 /\ LessonExercises # {} /\ LessonExercises \subseteq attempted
           /\ \A x \in Exercises : ~ row[x].deleted)
        => completions > 0

\* And every mission it brought to its target has paid its reward.
MissionRewarded ==
    (Quiet /\ failures = 0) => \A m \in Missions : mission[m].done => m \in rewarded

=============================================================================
