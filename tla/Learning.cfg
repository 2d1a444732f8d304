\* One lesson, two authors and two requests.  The bounds that set the scenarios
\* apart, and the placement test, are in MCLearning.
CONSTANTS
    NoRow = NoRow
    course = course
    Course = course
    lesson = lesson
    activity = activity
    e1 = e1
    e2 = e2
    xpMission = xpMission
    streakMission = streakMission
    lessonBadge = lessonBadge
    Rows = {course, lesson, activity, e1, e2}
    Parent <- MCParent
    Leaves = {lesson, activity, e1, e2}
    Initial = {course, lesson, activity, e1, e2}
    Exercises = {e1, e2}
    Authors = {a1, a2}
    MaxEdits = 3
    Requests = {r1, r2}
    MaxSubmits = 3
    MaxFailures = 1
    LastDay = 2
    Missions = {xpMission, streakMission}
    Badges = {lessonBadge}
    Metric <- MCMetric
    Target <- MCTwo
    Reward <- MCFive
    Criterion <- MCCriterion
    Threshold <- MCOne
    XpPerAnswer = 1
    XpPerLesson = 5
    XpPerLevel = 10
    Attempts = {"p1"}
    NoAttempt = "none"
    Items <- MCItems
    Skills <- MCSkills
    SkillOf <- MCSkillOf
    BandOf <- MCBandOf
    DifficultyOf <- MCDifficultyOf
    MaxStops = 1
    MaxLate = 0
SPECIFICATION MCSpec
CHECK_DEADLOCK FALSE
SYMMETRY MCSymmetry
INVARIANTS
    StreakEarned
    LevelNeverAhead
    CompletionNotLost
    MissionRewarded
    VersionsComplete
    SequentialEditsVersioned
    StopsWhenStable
    RetakeOnMixedAnswers
    CompletionSettles
PROPERTIES
    VersionsImmutable
