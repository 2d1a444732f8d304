----------------------------- MODULE MCLearning -----------------------------
(* One learner.  The lesson: instances of ExerciseAttempts for one activity   *)
(* with two exercises.  answers: the course is as it is, two requests answer  *)
(* its exercises three times across a midnight.  failing: two answers, and    *)
(* one request may fail.  authoring: the exercises are still to be written,   *)
(* two authors make three edits, creations, deletions or publications, and    *)
(* one answer comes in.                                                       *)
(* The placement test: instances of Assessment for five reading items around  *)
(* B1, one of grammar and one of writing, each with a difficulty of its band. *)
(* stopping: one of two requests stops half way.  late: one answer is stored  *)
(* out of turn.                                                               *)
(* A behaviour is one of these; the other component's variables stay put.     *)
EXTENDS Learning, TLC

CONSTANTS course, lesson, activity, e1, e2, xpMission, streakMission, lessonBadge
VARIABLE scenario

MCParent == [x \in Rows \ {course} |->
                IF x = lesson THEN course ELSE IF x = activity THEN lesson ELSE activity]
MCMetric == [m \in Missions |-> IF m = xpMission THEN "XP_EARNED" ELSE "STREAK_DAYS"]
MCCriterion == [b \in Badges |-> "LESSONS_COMPLETED"]
MCTwo == [x \in Missions |-> 2]
MCFive == [x \in Missions |-> 5]
MCOne == [x \in Badges |-> 1]

Answers == INSTANCE ExerciseAttempts WITH MaxEdits <- 1, MaxFailures <- 0
Failing == INSTANCE ExerciseAttempts WITH MaxEdits <- 1, MaxSubmits <- 2
Writing == INSTANCE ExerciseAttempts WITH
    Initial <- {course, lesson, activity}, MaxSubmits <- 1, MaxFailures <- 0, LastDay <- 1

MCItems == {"r1", "r2", "r3", "r4", "r5", "g1", "w1"}
MCSkills == <<"READING", "GRAMMAR", "WRITING">>
MCSkillOf == [i \in MCItems |-> IF i = "g1" THEN "GRAMMAR" ELSE IF i = "w1" THEN "WRITING" ELSE "READING"]
MCBandOf == [i \in MCItems |-> IF i = "r1" THEN 0 ELSE IF i \in {"r4", "r5"} THEN 4 ELSE 2]
MCDifficultyOf == [i \in MCItems |-> IF i \in {"r1", "r4"} THEN 1 ELSE IF i \in {"r3", "r5"} THEN 3 ELSE 2]

\* Here MaxLate is 0; there an answer may come late instead of a stop.
Late == INSTANCE Assessment WITH published <- completed, MaxStops <- 0, MaxLate <- 1

placement == <<status, responses, level, history, completed, replies, late, req, stops>>

MCInit ==
    /\ \/ scenario \in {"answers", "stopping", "late"} /\ Answers!Init
       \/ scenario = "failing" /\ Failing!Init
       \/ scenario = "authoring" /\ Writing!Init
    /\ Placement!Init

MCNext ==
    /\ \/ /\ \/ scenario = "answers" /\ Answers!Next
             \/ scenario = "failing" /\ Failing!Next
             \/ scenario = "authoring" /\ Writing!Next
          /\ UNCHANGED placement
       \/ /\ \/ scenario = "stopping" /\ Placement!Next
             \/ scenario = "late" /\ Late!Next
          /\ UNCHANGED vars
    /\ UNCHANGED scenario

MCSpec == MCInit /\ [][MCNext]_<<vars, placement, scenario>>

MCSymmetry == Permutations(Requests) \cup Permutations(Exercises) \cup Permutations(Authors)
=============================================================================
