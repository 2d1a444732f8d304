------------------------------ MODULE Learning ------------------------------
(* A lesson that is authored and answered, and a placement test, for one      *)
(* learner.  They share no state; what requests of one and of the other do    *)
(* meets nowhere, so that the slots they run in are the same.                 *)
EXTENDS ExerciseAttempts, Sequences

CONSTANTS
    Attempts, NoAttempt, Items, SkillOf, BandOf, DifficultyOf, Skills, MaxStops, MaxLate
                                                                        \* Assessment
VARIABLES
    status, responses, level, history, completed, replies, late, req, stops

Placement == INSTANCE Assessment WITH published <- completed

ASSUME PlacementAssumption == Placement!AssessmentBounds

-----------------------------------------------------------------------------
(* What the placement test promises, by the names Assessment gives it.        *)

\* A skill is left neither after two answers nor as late as the maximum.
StopsWhenStable == Placement!StopsWhenStable

\* A retake is recommended exactly for few answers that disagree.
RetakeOnMixedAnswers == Placement!RetakeOnMixedAnswers

\* A completed attempt has nothing to serve, and completes to the same numbers.
CompletionSettles == Placement!CompletionSettles
=============================================================================
