---------------------------- MODULE Gamification ----------------------------
(***************************************************************************)
(* GamificationService of apps/api for one learner (every row it touches   *)
(* is keyed by userId): streak, XP and level, missions and badges.         *)
(* recordActivity is called in the middle of a request, so it is written   *)
(* here as the steps between two of its database statements; the caller    *)
(* (ExerciseAttempts) starts it by moving the request to "streak" and      *)
(* resumes when ActivityRecorded.  Nothing here opens a transaction:       *)
(* calls of concurrent requests interleave between any two statements, and *)
(* a statement or a publication that fails (Fail) ends the whole request.  *)
(***************************************************************************)
EXTENDS Naturals, FiniteSets

CONSTANTS
    Requests,       \* slots for requests in flight
    Missions,       \* rows of "Mission" that are active
    Badges,         \* rows of "Badge" with criteria the parser recognises
    Metric,         \* Missions -> {"XP_EARNED", "LESSONS_COMPLETED", "STREAK_DAYS"}
    Target,         \* Missions -> targetValue
    Reward,         \* Missions -> rewardXp
    Criterion,      \* Badges -> {"STREAK_DAYS", "LESSONS_COMPLETED", "XP_EARNED"}
    Threshold,      \* Badges -> threshold
    XpPerAnswer, XpPerLesson, XpPerLevel,
    LastDay,        \* bound: the calendar the model runs through is 1..LastDay
    MaxFailures,    \* bound: requests that stop half way
    NoRow           \* a unique row that was never inserted

ASSUME GamificationAssumption ==
    /\ XpPerAnswer \in Nat /\ XpPerLesson \in Nat /\ XpPerLevel \in Nat \ {0}
    /\ LastDay \in Nat /\ MaxFailures \in Nat
    /\ Reward \in [Missions -> Nat]
    /\ Metric \in [Missions -> {"XP_EARNED", "LESSONS_COMPLETED", "STREAK_DAYS"}]
    /\ Target \in [Missions -> Nat \ {0}] /\ Threshold \in [Badges -> Nat \ {0}]
    /\ NoRow \notin Missions \cup [total : Nat, level : Nat, lessons : Nat]

VARIABLES
    day,        \* today in the timezone frozen on the streak row
    streak,     \* the "Streak" row: current, longest, last (active day)
    xp,         \* the "UserXP" row: total, level, lessons
    mission,    \* Missions -> the "UserMission" row: progress, done
    earned,     \* badges with a "UserBadge" row
    call,       \* Requests -> where each request is and what it holds
    active,     \* days on which an activity was recorded (ghost)
    rewarded,   \* missions whose reward was paid (ghost)
    failures

learner == <<streak, xp, mission, earned>>
ghosts == <<active, rewarded>>
gvars == <<day, learner, call, ghosts, failures>>

computeLevel(total) == total \div XpPerLevel + 1

Larger(a, b) == IF a >= b THEN a ELSE b

-----------------------------------------------------------------------------
(* The streak.                                                              *)

\* computeStreakUpdate, did a second activity of a day extend the streak too.
SameDayExtends(row, today) ==
    LET next == IF today <= row.last + 1 THEN row.current + 1 ELSE 1
    IN  [current |-> next, longest |-> Larger(row.longest, next), last |-> today]

computeStreakUpdate(row, today) ==
    LET next == IF today = row.last + 1 THEN row.current + 1 ELSE 1
    IN  IF today = row.last
        THEN row
        ELSE [current |-> next, longest |-> Larger(row.longest, next), last |-> today]

Blank == [pc |-> "idle", type |-> "EXERCISE_ANSWERED", first |-> FALSE, correct |-> FALSE,
          exercise |-> NoRow, content |-> 0, pin |-> 0,
          streak |-> NoRow, length |-> 0, delta |-> 0, amount |-> 0, level |-> 0,
          mission |-> NoRow, todo |-> [m \in {} |-> 0], badges |-> {}]

\* Go to step pc, keeping what the request holds.
At(r, pc) == call[r].pc = pc
To(r, held) == call' = [call EXCEPT ![r] = held]

\* Where recordActivity goes once the streak is settled at the given length.
AfterStreak(c, length) ==
    LET here == [c EXCEPT !.length = length]
    IN  CASE c.type = "LESSON_COMPLETED"   -> [here EXCEPT !.pc = "count"]
          [] c.type = "EXERCISE_ANSWERED" /\ c.first /\ c.correct ->
                 [here EXCEPT !.pc = "award", !.amount = XpPerAnswer, !.delta = XpPerAnswer]
          [] OTHER -> [here EXCEPT !.pc = "missions"]

ReadStreak(r) ==
    /\ At(r, "streak")
    /\ active' = active \cup {day}
    /\ LET c == [call[r] EXCEPT !.delta = 0]
           next == IF streak = NoRow THEN [current |-> 1, longest |-> 1, last |-> day]
                                     ELSE computeStreakUpdate(streak, day)
       IN  To(r, IF next = streak
                 THEN AfterStreak(c, streak.current)
                 ELSE [c EXCEPT !.pc = IF streak = NoRow THEN "createStreak" ELSE "updateStreak",
                                !.streak = next])
    /\ UNCHANGED <<day, learner, rewarded, failures>>

\* Streak.userId is unique: the second of two creations fails and, with it,
\* the request (the driver's error is not caught).
CreateStreak(r) ==
    /\ At(r, "createStreak")
    /\ IF streak = NoRow
       THEN /\ streak' = call[r].streak
            /\ To(r, AfterStreak(call[r], call[r].streak.current))
            /\ UNCHANGED failures
       ELSE /\ To(r, Blank)
            /\ failures' = failures + 1
            /\ UNCHANGED streak
    /\ UNCHANGED <<day, xp, mission, earned, ghosts>>

UpdateStreak(r) ==
    /\ At(r, "updateStreak")
    /\ streak' = call[r].streak
    /\ To(r, AfterStreak(call[r], call[r].streak.current))
    /\ UNCHANGED <<day, xp, mission, earned, ghosts, failures>>

-----------------------------------------------------------------------------
(* XP and level.                                                            *)

XpRow == IF xp = NoRow THEN [total |-> 0, level |-> 1, lessons |-> 0] ELSE xp

CountLesson(r) ==
    /\ At(r, "count")
    /\ xp' = [XpRow EXCEPT !.lessons = @ + 1]
    /\ To(r, [call[r] EXCEPT !.pc = "award", !.amount = XpPerLesson, !.delta = XpPerLesson])
    /\ UNCHANGED <<day, streak, mission, earned, ghosts, failures>>

\* awardXp is called before the missions, and again for each mission done.
AfterAward(c) == [c EXCEPT !.pc = IF c.mission = NoRow THEN "missions" ELSE "mission",
                           !.mission = NoRow]

\* upsert ... increment returns the row it wrote; the level is compared with
\* that row, not with the row as it is when the level is written.
AwardXp(r) ==
    /\ At(r, "award")
    /\ LET total == XpRow.total + call[r].amount
       IN  /\ xp' = [XpRow EXCEPT !.total = total,
                                  !.level = IF xp = NoRow THEN computeLevel(total) ELSE @]
           /\ To(r, IF xp'.level = computeLevel(total)
                    THEN AfterAward(call[r])
                    ELSE [call[r] EXCEPT !.pc = "level", !.level = computeLevel(total)])
    /\ rewarded' = rewarded \cup ({call[r].mission} \ {NoRow})
    /\ UNCHANGED <<day, streak, mission, earned, active, failures>>

\* SetLevel, were the level raised by one instead of set.
SetLevelByOne(r) ==
    /\ At(r, "level")
    /\ xp' = [xp EXCEPT !.level = @ + 1]
    /\ To(r, AfterAward(call[r]))
    /\ UNCHANGED <<day, streak, mission, earned, ghosts, failures>>

SetLevel(r) ==
    /\ At(r, "level")
    /\ xp' = [xp EXCEPT !.level = call[r].level]
    /\ To(r, AfterAward(call[r]))
    /\ UNCHANGED <<day, streak, mission, earned, ghosts, failures>>

-----------------------------------------------------------------------------
(* Missions.                                                                *)

nextMissionProgress(m, progress, c) ==
    CASE Metric[m] = "XP_EARNED"         -> progress + c.delta
      [] Metric[m] = "LESSONS_COMPLETED" -> progress + (IF c.type = "LESSON_COMPLETED" THEN 1 ELSE 0)
      [] Metric[m] = "STREAK_DAYS"       -> Larger(progress, c.length)

\* Enrolment (createMany, skipDuplicates) adds a row with no progress, which
\* is how a mission without a row reads here.  The snapshot holds the missions
\* this activity moves, with the progress they had when they were read.
ReadMissions(r) ==
    /\ At(r, "missions")
    /\ LET moved == {m \in Missions : /\ ~ mission[m].done
                                      /\ nextMissionProgress(m, mission[m].progress, call[r])
                                           # mission[m].progress}
       IN  To(r, [call[r] EXCEPT !.pc = "mission",
                                 !.todo = [m \in moved |-> mission[m].progress]])
    /\ UNCHANGED <<day, learner, ghosts, failures>>

\* ApplyMission, were the reward paid only to the call that hits the target
\* exactly.
ApplyMissionFromSnapshot(r) ==
    /\ At(r, "mission")
    /\ \E m \in DOMAIN call[r].todo :
         LET progress == nextMissionProgress(m, call[r].todo[m], call[r])
             here == [call[r] EXCEPT !.todo = [k \in DOMAIN @ \ {m} |-> @[k]]]
         IN  /\ mission' = [mission EXCEPT ![m] = [progress |-> progress, done |-> progress >= Target[m]]]
             /\ To(r, IF progress = Target[m]
                      THEN [here EXCEPT !.pc = "award", !.mission = m, !.amount = Reward[m]]
                      ELSE here)
    /\ UNCHANGED <<day, streak, xp, earned, ghosts, failures>>

ApplyMission(r) ==
    /\ At(r, "mission")
    /\ \E m \in DOMAIN call[r].todo :
         LET progress == nextMissionProgress(m, call[r].todo[m], call[r])
             rest == [k \in DOMAIN call[r].todo \ {m} |-> call[r].todo[k]]
             here == [call[r] EXCEPT !.todo = rest]
             reached == progress >= Target[m]
         IN  /\ mission' = [mission EXCEPT ![m] = [progress |-> progress, done |-> @.done \/ reached]]
             /\ To(r, IF reached
                      THEN [here EXCEPT !.pc = "award", !.mission = m, !.amount = Reward[m]]
                      ELSE here)
    /\ UNCHANGED <<day, streak, xp, earned, ghosts, failures>>

-----------------------------------------------------------------------------
(* Badges.                                                                  *)

BadgeValue(b) ==
    CASE Criterion[b] = "STREAK_DAYS"       -> IF streak = NoRow THEN 0 ELSE streak.current
      [] Criterion[b] = "LESSONS_COMPLETED" -> XpRow.lessons
      [] Criterion[b] = "XP_EARNED"         -> XpRow.total

ReadBadges(r) ==
    /\ At(r, "mission") /\ DOMAIN call[r].todo = {}
    /\ To(r, [call[r] EXCEPT !.pc = "badge",
                             !.badges = {b \in Badges \ earned : BadgeValue(b) >= Threshold[b]}])
    /\ UNCHANGED <<day, learner, ghosts, failures>>

\* createMany with skipDuplicates: a badge that a concurrent call inserted
\* meanwhile stays as it is.
AwardBadge(r) ==
    /\ At(r, "badge")
    /\ \E b \in call[r].badges :
         /\ earned' = earned \cup {b}
         /\ To(r, [call[r] EXCEPT !.badges = @ \ {b}])
    /\ UNCHANGED <<day, streak, xp, mission, ghosts, failures>>

\* recordActivity has nothing left to do: its caller goes on.
ActivityRecorded(r) == At(r, "badge") /\ call[r].badges = {}

recordActivity(r) ==
    \/ ReadStreak(r) \/ CreateStreak(r) \/ UpdateStreak(r)
    \/ CountLesson(r) \/ AwardXp(r) \/ SetLevel(r)
    \/ ReadMissions(r) \/ ApplyMission(r)
    \/ ReadBadges(r) \/ AwardBadge(r)

\* Midnight in the learner's timezone.
NextDay ==
    /\ day < LastDay
    /\ day' = day + 1
    /\ UNCHANGED <<learner, call, ghosts, failures>>

GamificationInit ==
    /\ day = 1
    /\ streak = NoRow /\ xp = NoRow /\ earned = {}
    /\ mission = [m \in Missions |-> [progress |-> 0, done |-> FALSE]]
    /\ call = [r \in Requests |-> Blank]
    /\ active = {}
    /\ rewarded = {}
    /\ failures = 0
=============================================================================
