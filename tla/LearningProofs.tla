--------------------------- MODULE LearningProofs ---------------------------
(***************************************************************************)
(* Theorems about ExerciseAttempts and the two parts it composes, for any  *)
(* course, any number of authors, requests, missions and badges.  The      *)
(* content and the learner's rows have an inductive invariant each         *)
(* (ContentInv and LearnerInv); CompletionInv relates them.  Last comes    *)
(* the placement test, for any items, skills and attempts: TestInv, on     *)
(* what the first few answers of a skill do to the selector.               *)
(***************************************************************************)
EXTENDS Learning, FiniteSetTheorems, WellFoundedInduction, TLAPS

-----------------------------------------------------------------------------
(* The content: parts of the invariant.                                     *)

RowShape == [there : BOOLEAN, deleted : BOOLEAN, content : Nat]

Trees == UNION {[D -> Nat] : D \in SUBSET Leaves}

Draft == [pc : {"idle", "check", "number", "insert", "publish"}, row : Rows,
          content : Nat, number : Nat, tree : Trees]

ContentShape ==
    /\ row \in [Rows -> RowShape]
    /\ published \in BOOLEAN /\ overlap \in BOOLEAN
    /\ version = [x \in Leaves |-> version[x]]
    /\ author \in [Authors -> Draft]

\* Numbers of versions leave no gap.
Dense == \A x \in Leaves : \E h \in Nat : Numbers(x) = 1..h

\* Only rows of a published course that were created have versions.
Published == \A x \in Leaves : Numbers(x) # {} => published /\ row[x].there

Backfilled == \A x \in Leaves : x \in backfilled => Numbers(x) # {}

\* An edit is of a leaf that was created, goes on to a snapshot only when the
\* course is published, and holds a number that is taken or the next one.
Drafted(a) ==
    LET c == author[a] IN
    /\ c.pc \in {"check", "number", "insert"} => c.row \in Leaves /\ row[c.row].there
    /\ c.pc \in {"number", "insert"} => published
    /\ c.pc = "insert" => c.number \in 1..(Highest(c.row) + 1)
    /\ c.pc = "publish" => \A x \in DOMAIN c.tree : row[x].there

Editing(a, x) == author[a].pc \in {"check", "number", "insert"} /\ author[a].row = x

\* While authors take turns, one at most is at work, what it read is what there
\* is, and the latest version of every leaf but its own is the row.
InTurn ==
    ~overlap =>
        /\ \A a, b \in Authors : a = b \/ author[a].pc = "idle" \/ author[b].pc = "idle"
        /\ \A a \in Authors :
             LET c == author[a] IN
             /\ c.pc \in {"check", "number", "insert"} => c.content = row[c.row].content
             /\ c.pc = "insert" => c.number = Highest(c.row) + 1
             /\ c.pc = "publish" => \A x \in DOMAIN c.tree : c.tree[x] = row[x].content
        /\ \A x \in Leaves : Numbers(x) # {} =>
             \/ version[x][Highest(x)] = row[x].content
             \/ \E a \in Authors : Editing(a, x)

ContentInv ==
    /\ ContentShape /\ Dense /\ Published /\ Backfilled
    /\ \A a \in Authors : Drafted(a)
    /\ InTurn

-----------------------------------------------------------------------------
(* The parts of the invariant of the learner's rows.                        *)

Steps == {"idle", "pin", "create", "streak", "createStreak", "updateStreak", "count", "award",
          "level", "missions", "mission", "badge"}

StreakRow == [current : Nat \ {0}, longest : Nat, last : Nat]
XpShape == [total : Nat, level : Nat, lessons : Nat]

Held == [pc : Steps, type : {"EXERCISE_ANSWERED", "LESSON_COMPLETED"}, first : BOOLEAN,
         correct : BOOLEAN, exercise : Exercises \cup {NoRow}, content : Nat, pin : Nat,
         streak : StreakRow \cup {NoRow}, length : Nat, delta : Nat, amount : Nat, level : Nat,
         mission : Missions \cup {NoRow}, todo : UNION {[D -> Nat] : D \in SUBSET Missions},
         badges : SUBSET Badges]

LearnerShape ==
    /\ day \in Nat \ {0} /\ failures \in Nat
    /\ streak \in StreakRow \cup {NoRow}
    /\ xp \in XpShape \cup {NoRow}
    /\ mission \in [Missions -> [progress : Nat, done : BOOLEAN]]
    /\ call \in [Requests -> Held]

\* What StreakEarned says of a row, stored or about to be.
Earned(s, days) ==
    /\ s.current <= s.last
    /\ (s.last - s.current + 1)..s.last \subseteq days
    /\ s.longest >= s.current

StreaksEarned ==
    /\ streak # NoRow => Earned(streak, active)
    /\ \A r \in Requests : call[r].pc \in {"createStreak", "updateStreak"} =>
         call[r].streak \in StreakRow /\ Earned(call[r].streak, active)

\* The level of the row, or on its way to it, is within the XP there is by now.
LevelsBehind ==
    /\ XpRow.level <= computeLevel(XpRow.total)
    /\ \A r \in Requests : At(r, "level") =>
         xp # NoRow /\ call[r].level <= computeLevel(XpRow.total)

\* Unless a request failed, the reward of a mission done is paid or being paid.
RewardsUnderWay ==
    failures = 0 => \A m \in Missions : mission[m].done =>
        m \in rewarded \/ \E r \in Requests : At(r, "award") /\ call[r].mission = m

LearnerInv == LearnerShape /\ StreaksEarned /\ LevelsBehind /\ RewardsUnderWay

-----------------------------------------------------------------------------
(* Where the two meet.                                                      *)

\* What was answered, or is about to be, was created; an answer about to be
\* stored that nothing precedes is a first one.
Answered ==
    /\ attempted \subseteq {x \in Exercises : row[x].there}
    /\ \A r \in Requests : call[r].pc \in {"pin", "create"} =>
         /\ call[r].exercise \in Exercises /\ row[call[r].exercise].there
         /\ call[r].first \/ call[r].exercise \in attempted
         /\ call[r].type = "EXERCISE_ANSWERED"

\* A first attempt, stored, on its way to look whether the lesson is complete.
WillLook(c) ==
    c.pc \notin {"idle", "pin", "create"} /\ c.first /\ c.type = "EXERCISE_ANSWERED"

LessonDone ==
    /\ LessonExercises # {} /\ LessonExercises \subseteq attempted
    /\ \A x \in Exercises : row[x].there => ~row[x].deleted

CompletionComing ==
    completions \in Nat
    /\ (failures = 0 /\ LessonDone => completions > 0 \/ \E r \in Requests : WillLook(call[r]))

CompletionInv == Answered /\ CompletionComing

IInv == ContentInv /\ LearnerInv /\ CompletionInv

-----------------------------------------------------------------------------
(* The content: what the operators do.                                      *)

LEMMA HighestIs ==
    ASSUME NEW x, NEW h \in Nat, Numbers(x) = 1..h
    PROVE  Highest(x) = h
<1>1. CASE h = 0
  <2>1. 1..h = {}
    BY <1>1
  <2> QED BY <1>1, <2>1 DEF Highest
<1>2. CASE h # 0
  <2>1. h \in 1..h /\ \A k \in 1..h : k <= h
    BY <1>2
  <2>2. \A n \in 1..h : (\A k \in 1..h : k <= n) => n = h
    BY <2>1
  <2>3. 1..h # {}
    BY <2>1
  <2> QED BY <2>1, <2>2, <2>3 DEF Highest
<1> QED BY <1>1, <1>2

LEMMA HighestIsNext ==
    ASSUME NEW x, NEW h \in Nat, Numbers(x)' = 1..h
    PROVE  Highest(x)' = h
<1>1. CASE h = 0
  <2>1. 1..h = {}
    BY <1>1
  <2> QED BY <1>1, <2>1 DEF Highest
<1>2. CASE h # 0
  <2>1. h \in 1..h /\ \A k \in 1..h : k <= h
    BY <1>2
  <2>2. \A n \in 1..h : (\A k \in 1..h : k <= n) => n = h
    BY <2>1
  <2>3. 1..h # {}
    BY <2>1
  <2> QED BY <2>1, <2>2, <2>3 DEF Highest
<1> QED BY <1>1, <1>2

LEMMA DenseHighest ==
    ASSUME Dense, NEW x \in Leaves
    PROVE  Highest(x) \in Nat /\ Numbers(x) = 1..Highest(x)
<1>1. PICK h \in Nat : Numbers(x) = 1..h
  BY DEF Dense
<1>2. Highest(x) = h
  BY <1>1, HighestIs
<1> QED BY <1>1, <1>2

LEMMA Moved ==
    ASSUME author \in [Authors -> Draft], NEW a \in Authors, NEW held \in Draft, Moves(a, held)
    PROVE  /\ author' \in [Authors -> Draft]
           /\ author'[a] = held
           /\ \A b \in Authors : b # a => author'[b] = author[b]
BY DEF Moves

LEMMA RestingIsDraft ==
    ContentAssumption => /\ Resting \in Draft /\ Resting.pc = "idle"
                         /\ Resting.row = Course /\ DOMAIN Resting.tree = {}
<1> SUFFICES ASSUME ContentAssumption PROVE Resting \in Draft /\ DOMAIN Resting.tree = {}
  BY DEF Resting
<1>1. [x \in {} |-> 0] \in [{} -> Nat]
  OBVIOUS
<1>2. [x \in {} |-> 0] \in Trees
  BY <1>1 DEF Trees
<1> QED BY <1>2 DEF Draft, Resting, ContentAssumption

\* One more version of a leaf, of a number that was free.
LEMMA OneMore ==
    ASSUME NEW x \in Leaves, NEW h \in Nat, Numbers(x) = 1..h, NEW n \in 1..(h + 1),
           n \notin Numbers(x), NEW c, version'[x] = WithVersion(x, n, c)
    PROVE  /\ n = h + 1
           /\ Numbers(x)' = 1..(h + 1)
           /\ Highest(x)' = h + 1
           /\ version'[x][h + 1] = c
           /\ \A k \in 1..h : k \in DOMAIN version'[x] /\ version'[x][k] = version[x][k]
<1>1. n = h + 1
  OBVIOUS
<1>2. Numbers(x) \cup {n} = 1..(h + 1)
  BY <1>1
<1>3. version'[x] = [k \in 1..(h + 1) |-> IF k = n THEN c ELSE version[x][k]]
  BY <1>2 DEF WithVersion
<1>4. Numbers(x)' = 1..(h + 1)
  BY <1>3 DEF Numbers
<1>5. Highest(x)' = h + 1
  BY <1>4, HighestIsNext
<1>6. version'[x][h + 1] = c
  BY <1>1, <1>3
<1>7. \A k \in 1..h : k \in 1..(h + 1) /\ k # n
  BY <1>1
<1>8. \A k \in 1..h : k \in DOMAIN version'[x] /\ version'[x][k] = version[x][k]
  BY <1>3, <1>7
<1> QED BY <1>1, <1>4, <1>5, <1>6, <1>8

\* What a creation, a deletion or an update leaves.
LEMMA RowWritten ==
    ASSUME row \in [Rows -> RowShape], NEW x \in Rows, Create(x) \/ Delete(x) \/ Update(x)
    PROVE  /\ row' \in [Rows -> RowShape]
           /\ \A y \in Rows : y # x => row'[y] = row[y]
           /\ row'[x].there
           /\ ~Create(x) => row[x].there /\ (row[x].deleted => row'[x].deleted)
           /\ Delete(x) => row'[x].content = row[x].content
           /\ Update(x) => row'[x].content = row[x].content + 1
           /\ Create(x) => ~row[x].there
<1>0. row[x] \in RowShape
  OBVIOUS
<1>1. CASE Create(x)
  BY <1>0, <1>1 DEF Create, Delete, Update, RowShape, Owned
<1>2. CASE Delete(x)
  BY <1>0, <1>2 DEF Create, Delete, Update, RowShape, Owned
<1>3. CASE Update(x)
  BY <1>0, <1>3 DEF Create, Delete, Update, RowShape, Owned
<1> QED BY <1>1, <1>2, <1>3

-----------------------------------------------------------------------------
(* The content: its invariant, action by action.                            *)

LEMMA SameVersions ==
    ASSUME version' = version
    PROVE  \A x : Numbers(x)' = Numbers(x) /\ Highest(x)' = Highest(x)
BY DEF Numbers, Highest

\* An author who begins finds, in turn, nobody at work and every leaf as its
\* latest version has it.
LEMMA BeginsInTurn ==
    ASSUME ContentInv, NEW a \in Authors, Begin(a)
    PROVE  /\ overlap' \in BOOLEAN
           /\ ~overlap' => /\ ~overlap
                           /\ \A b \in Authors : author[b].pc = "idle"
                           /\ \A x \in Leaves : Numbers(x) # {} =>
                                version[x][Highest(x)] = row[x].content
<1>1. overlap' \in BOOLEAN /\ (~overlap' => ~overlap /\ Alone(a))
  BY DEF Begin, ContentInv, ContentShape
<1>2. ~overlap' => \A b \in Authors : author[b].pc = "idle"
  BY <1>1 DEF Begin, Alone
<1> QED BY <1>1, <1>2 DEF ContentInv, InTurn, Editing

\* A row written leaves what is drafted elsewhere as it was.
LEMMA DraftsStay ==
    ASSUME ContentAssumption, ContentInv, version' = version, published' = published,
           NEW x \in Rows, Create(x) \/ Delete(x) \/ Update(x)
    PROVE  /\ \A y \in Leaves : row[y].there => row'[y].there
           /\ \A b \in Authors : author'[b] = author[b] => Drafted(b)'
           /\ Dense' /\ Published'
<1>1. \A y \in Rows : row[y].there => row'[y].there
  BY RowWritten DEF ContentInv, ContentShape
<1>2. \A y \in Leaves : y \in Rows /\ (row[y].there => row'[y].there)
  BY <1>1 DEF ContentAssumption
<1>3. ASSUME NEW b \in Authors, author'[b] = author[b] PROVE Drafted(b)'
  <2>1. Drafted(b) /\ author[b] \in Draft
    BY DEF ContentInv, ContentShape
  <2>2. author[b].tree \in Trees
    BY <2>1 DEF Draft
  <2>3. DOMAIN author[b].tree \subseteq Leaves
    BY <2>2 DEF Trees
  <2> QED BY <1>2, <1>3, <2>1, <2>3, SameVersions DEF Drafted
<1>4. Dense' /\ Published'
  BY <1>2, SameVersions DEF ContentInv, Dense, Published
<1> QED BY <1>2, <1>3, <1>4

LEMMA ContentStructureEdit ==
    ASSUME ContentAssumption, ContentInv, NEW a \in Authors, StructureEdit(a)
    PROVE  ContentInv'
<1>1. PICK x \in Rows \ Leaves : Create(x) \/ Delete(x) \/ Update(x)
  BY DEF StructureEdit
<1>2. Begin(a) /\ UNCHANGED <<published, version, author, backfilled>>
  BY DEF StructureEdit
<1>3. row' \in [Rows -> RowShape] /\ \A y \in Leaves : row'[y] = row[y]
  BY <1>1, RowWritten DEF ContentInv, ContentShape, ContentAssumption
<1>4. Dense' /\ Published' /\ \A b \in Authors : Drafted(b)'
  BY <1>1, <1>2, DraftsStay
<1>5. Backfilled'
  BY <1>2, SameVersions DEF ContentInv, Backfilled
<1>6. ContentShape'
  BY <1>2, <1>3, BeginsInTurn DEF ContentInv, ContentShape
<1>7. InTurn'
  BY <1>2, <1>3, BeginsInTurn, SameVersions DEF InTurn
<1> QED BY <1>4, <1>5, <1>6, <1>7 DEF ContentInv

LEMMA ContentLeafEdit ==
    ASSUME ContentAssumption, ContentInv, NEW a \in Authors, LeafEdit(a)
    PROVE  ContentInv'
<1>1. PICK x \in Leaves :
         \/ (Create(x) \/ Delete(x)) /\ UNCHANGED author
         \/ /\ Update(x)
            /\ Moves(a, [Resting EXCEPT !.pc = "check", !.row = x, !.content = row[x].content + 1])
  BY DEF LeafEdit
<1> DEFINE held == [Resting EXCEPT !.pc = "check", !.row = x, !.content = row[x].content + 1]
<1>2. Begin(a) /\ UNCHANGED <<published, version, backfilled>>
  BY DEF LeafEdit
<1>3. x \in Rows /\ row[x] \in RowShape
  BY DEF ContentAssumption, ContentInv, ContentShape
<1>4. Create(x) \/ Delete(x) \/ Update(x)
  BY <1>1
<1>5. /\ row' \in [Rows -> RowShape]
      /\ \A y \in Leaves : y # x => row'[y] = row[y]
      /\ row'[x].there
  BY <1>3, <1>4, RowWritten DEF ContentInv, ContentShape, ContentAssumption
<1>6. /\ \A b \in Authors : author'[b] = author[b] => Drafted(b)'
      /\ Dense' /\ Published'
  BY <1>2, <1>3, <1>4, DraftsStay
<1>7. Backfilled'
  BY <1>2, SameVersions DEF ContentInv, Backfilled
<1>8. held \in Draft /\ held.pc = "check" /\ held.row = x /\ held.content = row[x].content + 1
  <2>1. row[x].content + 1 \in Nat
    BY <1>3 DEF RowShape
  <2>2. Resting \in Draft
    BY RestingIsDraft
  <2> QED BY <1>3, <2>1, <2>2 DEF Draft
<1>9. CASE (Create(x) \/ Delete(x)) /\ UNCHANGED author
  <2>1. ContentShape'
    BY <1>2, <1>5, <1>9, BeginsInTurn DEF ContentInv, ContentShape
  <2>2. Numbers(x) # {} => row'[x].content = row[x].content
    <3>1. CASE Create(x)
      BY <1>3, <3>1 DEF Create, ContentInv, Published
    <3>2. CASE Delete(x)
      BY <1>3, <3>2, RowWritten DEF ContentInv, ContentShape
    <3> QED BY <1>9, <3>1, <3>2
  <2>3. InTurn'
    BY <1>2, <1>5, <1>9, <2>2, BeginsInTurn, SameVersions DEF InTurn
  <2> QED BY <1>6, <1>7, <1>9, <2>1, <2>3 DEF ContentInv
<1>10. CASE Update(x) /\ Moves(a, held)
  <2>1. row'[x].content = row[x].content + 1
    BY <1>3, <1>10, RowWritten DEF ContentInv, ContentShape
  <2>2. /\ author' \in [Authors -> Draft]
        /\ author'[a] = held
        /\ \A b \in Authors : b # a => author'[b] = author[b]
    <3> HIDE DEF held
    <3> QED BY <1>8, <1>10, Moved DEF ContentInv, ContentShape
  <2>3. ContentShape'
    BY <1>2, <1>5, <2>2, BeginsInTurn DEF ContentInv, ContentShape
  <2>4. Drafted(a)'
    <3>1. author'[a].pc = "check" /\ author'[a].row = x
      BY <1>8, <2>2
    <3> QED BY <1>5, <3>1 DEF Drafted
  <2>5. InTurn'
    <3> SUFFICES ASSUME ~overlap' PROVE InTurn'
      BY DEF InTurn
    <3>1. /\ \A b \in Authors : b # a => author'[b].pc = "idle"
          /\ \A y \in Leaves : Numbers(y) # {} => version[y][Highest(y)] = row[y].content
      BY <1>2, <2>2, BeginsInTurn
    <3>2. author'[a].pc = "check" /\ author'[a].row = x /\ author'[a].content = row'[x].content
      BY <1>8, <2>1, <2>2
    <3>3. Editing(a, x)'
      BY <3>2 DEF Editing
    <3> QED BY <1>2, <1>5, <3>1, <3>2, <3>3, SameVersions DEF InTurn
  <2> QED BY <1>6, <1>7, <2>2, <2>3, <2>4, <2>5 DEF ContentInv
<1> QED BY <1>1, <1>9, <1>10

LEMMA ContentCheck ==
    ASSUME ContentAssumption, ContentInv, NEW a \in Authors, snapshotIfPublished(a)
    PROVE  ContentInv'
<1> DEFINE held == IF published THEN [author[a] EXCEPT !.pc = "number"] ELSE Resting
<1>1. /\ author[a].pc = "check" /\ Moves(a, held)
      /\ UNCHANGED <<row, published, version, edits, overlap, backfilled>>
  BY DEF snapshotIfPublished
<1>2. author[a] \in Draft /\ Drafted(a)
  BY DEF ContentInv, ContentShape
<1>3. /\ held \in Draft
      /\ IF published THEN /\ held.pc = "number" /\ held.row = author[a].row
                           /\ held.content = author[a].content
                      ELSE held.pc = "idle"
  BY <1>2, RestingIsDraft DEF Draft
<1>4. /\ author' \in [Authors -> Draft]
      /\ author'[a] = held
      /\ \A b \in Authors : b # a => author'[b] = author[b]
  <2> HIDE DEF held
  <2> QED BY <1>1, <1>3, Moved DEF ContentInv, ContentShape
<1>5. \A x : Numbers(x)' = Numbers(x) /\ Highest(x)' = Highest(x)
  BY <1>1, SameVersions
<1> HIDE DEF held
<1>6. ContentShape' /\ Dense' /\ Published' /\ Backfilled'
  BY <1>1, <1>4, <1>5 DEF ContentInv, ContentShape, Dense, Published, Backfilled
<1>7. ASSUME NEW b \in Authors PROVE Drafted(b)'
  <2>1. CASE b = a
    BY <1>1, <1>2, <1>3, <1>4, <2>1 DEF Drafted
  <2>2. CASE b # a
    <3>1. Drafted(b)
      BY DEF ContentInv
    <3> QED BY <1>1, <1>4, <1>5, <2>2, <3>1 DEF Drafted
  <2> QED BY <2>1, <2>2
<1>8. InTurn'
  <2> SUFFICES ASSUME ~overlap' PROVE InTurn'
    BY DEF InTurn
  <2>1. ~overlap /\ InTurn
    BY <1>1 DEF ContentInv
  <2>2. \A b \in Authors : b # a => author'[b].pc = "idle"
    BY <1>1, <1>4, <2>1 DEF InTurn
  <2>3. author'[a].pc \in {"number", "idle"} /\ (author'[a].pc = "number" =>
          author'[a].content = row'[author'[a].row].content)
    BY <1>1, <1>3, <1>4, <2>1 DEF InTurn
  <2>4. ASSUME NEW x \in Leaves, Numbers(x)' # {}
        PROVE  \/ version'[x][Highest(x)'] = row'[x].content
               \/ \E b \in Authors : Editing(b, x)'
    <3>1. published
      BY <1>5, <2>4 DEF ContentInv, Published
    <3>2. CASE version[x][Highest(x)] = row[x].content
      BY <1>1, <1>5, <3>2
    <3>3. CASE \E b \in Authors : Editing(b, x)
      <4>1. Editing(a, x)
        BY <1>4, <2>1, <3>3, <1>1 DEF InTurn, Editing
      <4> QED BY <1>3, <1>4, <3>1, <4>1 DEF Editing
    <3> QED BY <1>5, <2>1, <2>4, <3>2, <3>3 DEF InTurn
  <2> QED BY <2>2, <2>3, <2>4 DEF InTurn
<1> QED BY <1>6, <1>7, <1>8 DEF ContentInv

LEMMA ContentReadNumber ==
    ASSUME ContentAssumption, ContentInv, NEW a \in Authors, ReadNumber(a)
    PROVE  ContentInv'
<1> DEFINE held == [author[a] EXCEPT !.pc = "insert", !.number = Highest(author[a].row) + 1]
<1>1. /\ author[a].pc = "number" /\ Moves(a, held)
      /\ UNCHANGED <<row, published, version, edits, overlap, backfilled>>
  BY DEF ReadNumber
<1>2. author[a] \in Draft /\ Drafted(a)
  BY DEF ContentInv, ContentShape
<1>3. author[a].row \in Leaves /\ row[author[a].row].there /\ published
  BY <1>1, <1>2 DEF Drafted
<1>4. Highest(author[a].row) \in Nat /\ Highest(author[a].row) + 1 \in Nat
  BY <1>3, DenseHighest DEF ContentInv
<1>5. /\ held \in Draft
      /\ held.pc = "insert" /\ held.row = author[a].row /\ held.content = author[a].content
      /\ held.number = Highest(author[a].row) + 1
  BY <1>2, <1>4 DEF Draft
<1>6. /\ author' \in [Authors -> Draft]
      /\ author'[a] = held
      /\ \A b \in Authors : b # a => author'[b] = author[b]
  <2> HIDE DEF held
  <2> QED BY <1>1, <1>5, Moved DEF ContentInv, ContentShape
<1>7. \A x : Numbers(x)' = Numbers(x) /\ Highest(x)' = Highest(x)
  BY <1>1, SameVersions
<1> HIDE DEF held
<1>8. ContentShape' /\ Dense' /\ Published' /\ Backfilled'
  BY <1>1, <1>6, <1>7 DEF ContentInv, ContentShape, Dense, Published, Backfilled
<1>9. ASSUME NEW b \in Authors PROVE Drafted(b)'
  <2>1. CASE b = a
    <3>1. Highest(author[a].row) + 1 \in 1..(Highest(author[a].row) + 1)
      BY <1>4
    <3>2. author'[a].number = Highest(author[a].row) + 1 /\ author'[a].row = author[a].row
      BY <1>5, <1>6
    <3>3. (author[a].number \in 1..(Highest(author[a].row) + 1))'
      BY <1>7, <3>1, <3>2
    <3> QED BY <1>1, <1>3, <1>5, <1>6, <2>1, <3>3 DEF Drafted
  <2>2. CASE b # a
    <3>1. Drafted(b)
      BY DEF ContentInv
    <3> QED BY <1>1, <1>6, <1>7, <2>2, <3>1 DEF Drafted
  <2> QED BY <2>1, <2>2
<1>10. InTurn'
  <2> SUFFICES ASSUME ~overlap' PROVE InTurn'
    BY DEF InTurn
  <2>1. ~overlap /\ InTurn
    BY <1>1 DEF ContentInv
  <2>2. \A b \in Authors : b # a => author'[b].pc = "idle"
    BY <1>1, <1>6, <2>1 DEF InTurn
  <2>3. /\ author'[a].pc = "insert"
        /\ author'[a].content = row'[author'[a].row].content
        /\ (author[a].number = Highest(author[a].row) + 1)'
    BY <1>1, <1>5, <1>6, <1>7, <2>1 DEF InTurn
  <2>4. \A b \in Authors, x \in Leaves : Editing(b, x) => Editing(b, x)'
    BY <1>1, <1>5, <1>6 DEF Editing
  <2>5. \A x \in Leaves : Numbers(x)' # {} =>
          \/ version'[x][Highest(x)'] = row'[x].content
          \/ \E b \in Authors : Editing(b, x)'
    BY <1>1, <1>7, <2>1, <2>4 DEF InTurn
  <2> QED BY <2>2, <2>3, <2>5 DEF InTurn
<1> QED BY <1>8, <1>9, <1>10 DEF ContentInv

\* The versions a snapshot or a backfill leaves.
LEMMA Versioned ==
    ASSUME ContentAssumption, ContentInv, NEW a \in Authors,
           InsertVersion(a) \/ BackfillVersions(a)
    PROVE  /\ version' = [x \in Leaves |-> version'[x]]
           /\ Dense'
           /\ \A x \in Leaves :
                /\ Highest(x) \in Nat /\ Highest(x)' \in Nat /\ Highest(x) <= Highest(x)'
                /\ Numbers(x)' = 1..Highest(x)'
                /\ \A n \in Numbers(x) :
                     n \in DOMAIN version'[x] /\ version'[x][n] = version[x][n]
<1>0. version = [x \in Leaves |-> version[x]]
  BY DEF ContentInv, ContentShape
<1> DEFINE Good(x) ==
      \/ version'[x] = version[x]
      \/ \E n \in 1..(Highest(x) + 1), c \in Nat :
           n \notin Numbers(x) /\ version'[x] = WithVersion(x, n, c)
<1>1. \A x \in Leaves : Highest(x) \in Nat /\ Numbers(x) = 1..Highest(x)
  BY DenseHighest DEF ContentInv
<1>2. version' = [x \in Leaves |-> version'[x]] /\ \A x \in Leaves : Good(x)
  <2>1. CASE InsertVersion(a)
    <3> DEFINE c == author[a]
    <3>1. /\ c.pc = "insert"
          /\ version' = IF c.number \in Numbers(c.row) THEN version
                        ELSE [version EXCEPT ![c.row] = WithVersion(c.row, c.number, c.content)]
      BY <2>1 DEF InsertVersion
    <3>2. c \in Draft /\ Drafted(a)
      BY DEF ContentInv, ContentShape
    <3>3. c.content \in Nat
      BY <3>2 DEF Draft
    <3>4. c.row \in Leaves /\ c.number \in 1..(Highest(c.row) + 1)
      BY <3>1, <3>2 DEF Drafted
    <3>5. CASE c.number \in Numbers(c.row)
      BY <1>0, <3>1, <3>5
    <3>6. CASE c.number \notin Numbers(c.row)
      <4>1. version' = [version EXCEPT ![c.row] = WithVersion(c.row, c.number, c.content)]
        BY <3>1, <3>6
      <4>2. version'[c.row] = WithVersion(c.row, c.number, c.content)
        BY <1>0, <3>4, <4>1
      <4>3. version' = [x \in Leaves |-> version'[x]]
            /\ \A x \in Leaves : x # c.row => version'[x] = version[x]
        BY <1>0, <4>1
      <4>4. Good(c.row)
        BY <3>3, <3>4, <3>6, <4>2
      <4> QED BY <4>3, <4>4
    <3> QED BY <3>5, <3>6
  <2>2. CASE BackfillVersions(a)
    <3> DEFINE c == author[a]
    <3>1. version' = [x \in Leaves |-> IF x \in DOMAIN c.tree /\ Numbers(x) = {}
                                       THEN WithVersion(x, 1, c.tree[x])
                                       ELSE version[x]]
      BY <2>2 DEF BackfillVersions
    <3>2. c \in Draft
      BY DEF ContentInv, ContentShape
    <3>3. c.tree \in Trees
      BY <3>2 DEF Draft
    <3>4. \A x \in DOMAIN c.tree : c.tree[x] \in Nat
      BY <3>3 DEF Trees
    <3>5. version' = [x \in Leaves |-> version'[x]]
      BY <3>1
    <3>6. ASSUME NEW x \in Leaves PROVE Good(x)
      <4>1. CASE x \in DOMAIN c.tree /\ Numbers(x) = {}
        <5>1. version'[x] = WithVersion(x, 1, c.tree[x])
          BY <3>1, <4>1
        <5>2. 1 \in 1..(Highest(x) + 1) /\ c.tree[x] \in Nat /\ 1 \notin Numbers(x)
          BY <1>1, <3>4, <4>1
        <5> QED BY <5>1, <5>2
      <4>2. CASE ~(x \in DOMAIN c.tree /\ Numbers(x) = {})
        BY <3>1, <4>2
      <4> QED BY <4>1, <4>2
    <3> QED BY <3>5, <3>6
  <2> QED BY <2>1, <2>2
<1>3. ASSUME NEW x \in Leaves
      PROVE  /\ Highest(x)' \in Nat /\ Highest(x) <= Highest(x)'
             /\ Numbers(x)' = 1..Highest(x)'
             /\ \A n \in Numbers(x) :
                  n \in DOMAIN version'[x] /\ version'[x][n] = version[x][n]
  <2>1. CASE version'[x] = version[x]
    <3>1. Numbers(x)' = Numbers(x)
      BY <2>1 DEF Numbers
    <3>2. Highest(x)' = Highest(x)
      BY <1>1, <3>1, HighestIsNext
    <3> QED BY <1>1, <2>1, <3>1, <3>2 DEF Numbers
  <2>2. CASE \E n \in 1..(Highest(x) + 1), c \in Nat :
               n \notin Numbers(x) /\ version'[x] = WithVersion(x, n, c)
    <3>1. PICK n \in 1..(Highest(x) + 1), c \in Nat :
            n \notin Numbers(x) /\ version'[x] = WithVersion(x, n, c)
      BY <2>2
    <3>2. /\ Numbers(x)' = 1..(Highest(x) + 1)
          /\ Highest(x)' = Highest(x) + 1
          /\ \A k \in 1..Highest(x) : k \in DOMAIN version'[x] /\ version'[x][k] = version[x][k]
      BY <1>1, <3>1, OneMore
    <3> QED BY <1>1, <3>2
  <2> QED BY <1>2, <2>1, <2>2
<1>4. Dense'
  BY <1>3 DEF Dense
<1> QED BY <1>1, <1>2, <1>3, <1>4

LEMMA ContentInsert ==
    ASSUME ContentAssumption, ContentInv, NEW a \in Authors, InsertVersion(a)
    PROVE  ContentInv'
<1> DEFINE c == author[a]
<1>1. /\ c.pc = "insert" /\ Moves(a, Resting)
      /\ version' = IF c.number \in Numbers(c.row) THEN version
                    ELSE [version EXCEPT ![c.row] = WithVersion(c.row, c.number, c.content)]
      /\ UNCHANGED <<row, published, edits, overlap, backfilled>>
  BY DEF InsertVersion
<1>2. c \in Draft /\ Drafted(a)
  BY DEF ContentInv, ContentShape
<1>3. c.row \in Leaves /\ row[c.row].there /\ published /\ c.number \in 1..(Highest(c.row) + 1)
  BY <1>1, <1>2 DEF Drafted
<1>4. /\ author' \in [Authors -> Draft]
      /\ author'[a].pc = "idle"
      /\ \A b \in Authors : b # a => author'[b] = author[b]
  BY <1>1, RestingIsDraft, Moved DEF ContentInv, ContentShape
<1>5. /\ version' = [x \in Leaves |-> version'[x]]
      /\ Dense'
      /\ \A x \in Leaves : /\ Highest(x) \in Nat /\ Highest(x)' \in Nat
                           /\ Highest(x) <= Highest(x)' /\ Numbers(x)' = 1..Highest(x)'
                           /\ \A n \in Numbers(x) : n \in Numbers(x)'
  BY Versioned DEF Numbers
<1>6. \A x \in Leaves : x # c.row => version'[x] = version[x]
  BY <1>1 DEF ContentInv, ContentShape
<1>7. ASSUME NEW x \in Leaves, x # c.row
      PROVE  Numbers(x)' = Numbers(x) /\ Highest(x)' = Highest(x)
  <2>1. version'[x] = version[x]
    BY <1>6, <1>7
  <2> QED BY <2>1 DEF Numbers, Highest
<1>8. ContentShape'
  BY <1>1, <1>4, <1>5 DEF ContentInv, ContentShape
<1>9. Published' /\ Backfilled'
  BY <1>1, <1>3, <1>5, <1>7 DEF ContentInv, Published, Backfilled
<1>10. ASSUME NEW b \in Authors PROVE Drafted(b)'
  <2>1. CASE b = a
    BY <1>4, <2>1 DEF Drafted
  <2>2. CASE b # a
    <3>1. Drafted(b) /\ author'[b] = author[b] /\ author[b] \in Draft
      BY <1>4, <2>2 DEF ContentInv, ContentShape
    <3>2. ASSUME NEW x \in Leaves, author[b].number \in 1..(Highest(x) + 1)
          PROVE  author[b].number \in 1..(Highest(x)' + 1)
      BY <1>5, <3>2
    <3>3. author[b].pc = "insert" => (author[b].number \in 1..(Highest(author[b].row) + 1))'
      BY <3>1, <3>2 DEF Drafted
    <3> QED BY <1>1, <3>1, <3>3 DEF Drafted
  <2> QED BY <2>1, <2>2
<1>11. InTurn'
  <2> SUFFICES ASSUME ~overlap' PROVE InTurn'
    BY DEF InTurn
  <2>1. ~overlap /\ InTurn
    BY <1>1 DEF ContentInv
  <2>2. \A b \in Authors : author'[b].pc = "idle"
    BY <1>1, <1>4, <2>1 DEF InTurn
  <2>3. PICK y \in Leaves : y = c.row
    BY <1>3
  <2>4. c.content = row[y].content /\ c.number = Highest(y) + 1
    BY <1>1, <2>1, <2>3 DEF InTurn
  <2>5. Highest(y) \in Nat /\ Numbers(y) = 1..Highest(y)
    BY DenseHighest DEF ContentInv
  <2>6. c.number \in 1..(Highest(y) + 1) /\ c.number \notin Numbers(y)
    BY <2>4, <2>5
  <2>7. version'[y] = WithVersion(y, c.number, c.content)
    BY <1>1, <2>3, <2>6 DEF ContentInv, ContentShape
  <2>8. Highest(y)' = Highest(y) + 1 /\ version'[y][Highest(y) + 1] = c.content
    BY <2>5, <2>6, <2>7, OneMore
  <2>9. ASSUME NEW x \in Leaves, Numbers(x)' # {}
        PROVE  version'[x][Highest(x)'] = row'[x].content
    <3>1. CASE x = y
      BY <1>1, <2>4, <2>8, <3>1
    <3>2. CASE x # y
      <4>1. \A b \in Authors : ~Editing(b, x)
        BY <1>1, <2>1, <2>3, <3>2 DEF InTurn, Editing
      <4>2. version[x][Highest(x)] = row[x].content
        BY <1>7, <2>1, <2>3, <2>9, <3>2, <4>1 DEF InTurn
      <4> QED BY <1>1, <1>6, <1>7, <2>3, <3>2, <4>2
    <3> QED BY <3>1, <3>2
  <2> QED BY <2>2, <2>9 DEF InTurn
<1> QED BY <1>5, <1>8, <1>9, <1>10, <1>11 DEF ContentInv

LEMMA ContentPublish ==
    ASSUME ContentAssumption, ContentInv, NEW a \in Authors, publishCourse(a)
    PROVE  ContentInv'
<1> DEFINE there == {x \in Leaves : row[x].there}
           read == [x \in there |-> row[x].content]
           held == [Resting EXCEPT !.pc = "publish", !.tree = read]
<1>1. /\ Begin(a) /\ Moves(a, held)
      /\ UNCHANGED <<row, published, version, backfilled>>
  BY DEF publishCourse
<1>2. held \in Draft /\ held.pc = "publish" /\ held.tree = read
  <2>1. \A x \in there : row[x].content \in Nat
    BY DEF ContentInv, ContentShape, RowShape, ContentAssumption
  <2>2. read \in [there -> Nat] /\ there \in SUBSET Leaves
    BY <2>1
  <2>3. read \in Trees
    BY <2>2 DEF Trees
  <2> HIDE DEF read
  <2>4. Resting \in Draft
    BY RestingIsDraft
  <2> QED BY <2>3, <2>4 DEF Draft
<1>3. DOMAIN read = there /\ \A x \in there : read[x] = row[x].content
  OBVIOUS
<1> HIDE DEF read
<1>4. /\ author' \in [Authors -> Draft]
      /\ author'[a] = held
      /\ \A b \in Authors : b # a => author'[b] = author[b]
  <2> HIDE DEF held
  <2> QED BY <1>1, <1>2, Moved DEF ContentInv, ContentShape
<1>5. author'[a].pc = "publish" /\ author'[a].tree = read
  BY <1>2, <1>4
<1>6. \A x : Numbers(x)' = Numbers(x) /\ Highest(x)' = Highest(x)
  BY <1>1, SameVersions
<1> HIDE DEF held
<1>7. ContentShape'
  BY <1>1, <1>4, BeginsInTurn DEF ContentInv, ContentShape
<1>8. Dense' /\ Published' /\ Backfilled'
  BY <1>1, <1>6 DEF ContentInv, Dense, Published, Backfilled
<1>9. ASSUME NEW b \in Authors PROVE Drafted(b)'
  <2>1. CASE b = a
    BY <1>1, <1>3, <1>5, <2>1 DEF Drafted
  <2>2. CASE b # a
    <3>1. Drafted(b)
      BY DEF ContentInv
    <3> QED BY <1>1, <1>4, <1>6, <2>2, <3>1 DEF Drafted
  <2> QED BY <2>1, <2>2
<1>10. InTurn'
  <2> SUFFICES ASSUME ~overlap' PROVE InTurn'
    BY DEF InTurn
  <2>1. /\ \A b \in Authors : b # a => author'[b].pc = "idle"
        /\ \A x \in Leaves : Numbers(x)' # {} => version'[x][Highest(x)'] = row'[x].content
    BY <1>1, <1>4, <1>6, BeginsInTurn
  <2> QED BY <1>1, <1>3, <1>5, <2>1 DEF InTurn
<1> QED BY <1>7, <1>8, <1>9, <1>10 DEF ContentInv

LEMMA ContentBackfill ==
    ASSUME ContentAssumption, ContentInv, NEW a \in Authors, BackfillVersions(a)
    PROVE  ContentInv'
<1> DEFINE c == author[a]
<1>1. /\ c.pc = "publish" /\ Moves(a, Resting) /\ published'
      /\ version' = [x \in Leaves |-> IF x \in DOMAIN c.tree /\ Numbers(x) = {}
                                      THEN WithVersion(x, 1, c.tree[x])
                                      ELSE version[x]]
      /\ backfilled' = backfilled \cup DOMAIN c.tree
      /\ UNCHANGED <<row, edits, overlap>> /\ published' \in BOOLEAN
  BY DEF BackfillVersions
<1>2. c \in Draft /\ Drafted(a)
  BY DEF ContentInv, ContentShape
<1>3. c.tree \in Trees
  BY <1>2 DEF Draft
<1>4. DOMAIN c.tree \subseteq Leaves /\ \A x \in DOMAIN c.tree : row[x].there
  BY <1>1, <1>2, <1>3 DEF Drafted, Trees
<1>5. /\ author' \in [Authors -> Draft]
      /\ author'[a].pc = "idle"
      /\ \A b \in Authors : b # a => author'[b] = author[b]
  BY <1>1, RestingIsDraft, Moved DEF ContentInv, ContentShape
<1>6. /\ version' = [x \in Leaves |-> version'[x]]
      /\ Dense'
      /\ \A x \in Leaves : /\ Highest(x) \in Nat /\ Highest(x)' \in Nat
                           /\ Highest(x) <= Highest(x)' /\ Numbers(x)' = 1..Highest(x)'
                           /\ \A n \in Numbers(x) : n \in Numbers(x)'
  BY Versioned DEF Numbers
<1>7. ASSUME NEW x \in Leaves, x \in DOMAIN c.tree, Numbers(x) = {}
      PROVE  Numbers(x)' = 1..1 /\ Highest(x)' = 1 /\ version'[x][1] = c.tree[x]
  <2>1. version'[x] = WithVersion(x, 1, c.tree[x])
    BY <1>1, <1>7
  <2>2. Numbers(x) = 1..0 /\ 1 \in 1..(0 + 1) /\ 1 \notin Numbers(x)
    BY <1>7
  <2>3. Numbers(x)' = 1..(0 + 1) /\ Highest(x)' = 0 + 1 /\ version'[x][0 + 1] = c.tree[x]
    <3> DEFINE read == c.tree[x]
    <3>1. version'[x] = WithVersion(x, 1, read)
      BY <2>1
    <3> HIDE DEF read
    <3>2. PICK h \in Nat : h = 0
      OBVIOUS
    <3>3. 1 \in 1..(h + 1) /\ Numbers(x) = 1..h /\ 1 \notin Numbers(x)
      BY <2>2, <3>2
    <3>4. Numbers(x)' = 1..(h + 1) /\ Highest(x)' = h + 1 /\ version'[x][h + 1] = read
      BY <3>1, <3>3, OneMore
    <3> QED BY <3>2, <3>4 DEF read
  <2> QED BY <2>3
<1>8. ASSUME NEW x \in Leaves, ~(x \in DOMAIN c.tree /\ Numbers(x) = {})
      PROVE  version'[x] = version[x] /\ Numbers(x)' = Numbers(x) /\ Highest(x)' = Highest(x)
  <2>1. version'[x] = version[x]
    BY <1>1, <1>8
  <2> QED BY <2>1 DEF Numbers, Highest
<1>9. ContentShape'
  BY <1>1, <1>5, <1>6 DEF ContentInv, ContentShape
<1>10. Published' /\ Backfilled'
  <2>1. Published'
    BY <1>1, <1>4, <1>8 DEF ContentInv, Published
  <2>2. ASSUME NEW x \in Leaves, x \in backfilled' PROVE Numbers(x)' # {}
    <3>1. CASE x \in DOMAIN c.tree /\ Numbers(x) = {}
      BY <1>7, <3>1
    <3>2. CASE ~(x \in DOMAIN c.tree /\ Numbers(x) = {})
      BY <1>1, <1>8, <2>2, <3>2 DEF ContentInv, Backfilled
    <3> QED BY <3>1, <3>2
  <2> QED BY <2>1, <2>2 DEF Backfilled
<1>11. ASSUME NEW b \in Authors PROVE Drafted(b)'
  <2>1. CASE b = a
    BY <1>5, <2>1 DEF Drafted
  <2>2. CASE b # a
    <3>1. Drafted(b) /\ author'[b] = author[b] /\ author[b] \in Draft
      BY <1>5, <2>2 DEF ContentInv, ContentShape
    <3>2. ASSUME NEW x \in Leaves, author[b].number \in 1..(Highest(x) + 1)
          PROVE  author[b].number \in 1..(Highest(x)' + 1)
      BY <1>6, <3>2
    <3>3. author[b].pc = "insert" => (author[b].number \in 1..(Highest(author[b].row) + 1))'
      BY <3>1, <3>2 DEF Drafted
    <3> QED BY <1>1, <3>1, <3>3 DEF Drafted
  <2> QED BY <2>1, <2>2
<1>12. InTurn'
  <2> SUFFICES ASSUME ~overlap' PROVE InTurn'
    BY DEF InTurn
  <2>1. ~overlap /\ InTurn
    BY <1>1 DEF ContentInv
  <2>2. \A b \in Authors : author'[b].pc = "idle"
    BY <1>1, <1>5, <2>1 DEF InTurn
  <2>3. /\ \A x \in DOMAIN c.tree : c.tree[x] = row[x].content
        /\ \A b \in Authors : author[b].pc \notin {"check", "number", "insert"}
    BY <1>1, <2>1 DEF InTurn
  <2>4. ASSUME NEW x \in Leaves, Numbers(x)' # {}
        PROVE  version'[x][Highest(x)'] = row'[x].content
    <3>1. CASE x \in DOMAIN c.tree /\ Numbers(x) = {}
      BY <1>1, <1>7, <2>3, <3>1
    <3>2. CASE ~(x \in DOMAIN c.tree /\ Numbers(x) = {})
      BY <1>1, <1>8, <2>1, <2>3, <2>4, <3>2 DEF InTurn, Editing
    <3> QED BY <3>1, <3>2
  <2> QED BY <2>2, <2>4 DEF InTurn
<1> QED BY <1>6, <1>9, <1>10, <1>11, <1>12 DEF ContentInv

LEMMA ContentStops ==
    ASSUME ContentAssumption, ContentInv, NEW a \in Authors, AuthorStops(a)
    PROVE  ContentInv'
<1>1. /\ Moves(a, Resting) /\ overlap' = TRUE
      /\ UNCHANGED <<row, published, version, edits, backfilled>>
  BY DEF AuthorStops
<1>2. /\ author' \in [Authors -> Draft]
      /\ author'[a].pc = "idle"
      /\ \A b \in Authors : b # a => author'[b] = author[b]
  BY <1>1, RestingIsDraft, Moved DEF ContentInv, ContentShape
<1>3. \A x : Numbers(x)' = Numbers(x) /\ Highest(x)' = Highest(x)
  BY <1>1, SameVersions
<1>4. ContentShape' /\ Dense' /\ Published' /\ Backfilled' /\ InTurn'
  BY <1>1, <1>2, <1>3 DEF ContentInv, ContentShape, Dense, Published, Backfilled, InTurn
<1>5. ASSUME NEW b \in Authors PROVE Drafted(b)'
  <2>1. Drafted(b)
    BY DEF ContentInv
  <2> QED BY <1>1, <1>2, <1>3, <2>1 DEF Drafted
<1> QED BY <1>4, <1>5 DEF ContentInv

LEMMA ContentIdle == ContentInv /\ UNCHANGED cvars => ContentInv'
<1> SUFFICES ASSUME ContentInv, UNCHANGED cvars PROVE ContentInv'
  OBVIOUS
<1>1. UNCHANGED <<row, published, version, author, overlap, backfilled>>
  BY DEF cvars
<1>2. \A x : Numbers(x)' = Numbers(x) /\ Highest(x)' = Highest(x)
  BY <1>1, SameVersions
<1>3. ContentShape' /\ Dense' /\ Published' /\ Backfilled'
  BY <1>1, <1>2 DEF ContentInv, ContentShape, Dense, Published, Backfilled
<1>4. ASSUME NEW a \in Authors PROVE Drafted(a)'
  <2>1. Drafted(a)
    BY DEF ContentInv
  <2> QED BY <1>1, <1>2, <2>1 DEF Drafted
<1>5. InTurn'
  BY <1>1, <1>2 DEF ContentInv, InTurn, Editing
<1> QED BY <1>3, <1>4, <1>5 DEF ContentInv

LEMMA ContentStarts == ContentAssumption /\ ContentInit => ContentInv
<1> SUFFICES ASSUME ContentAssumption, ContentInit PROVE ContentInv
  OBVIOUS
<1>1. \A x \in Leaves : Numbers(x) = {}
  BY DEF ContentInit, Numbers
<1>2. 1..0 = {} /\ 0 \in Nat
  OBVIOUS
<1>3. ContentShape
  <2>1. row \in [Rows -> RowShape]
    BY DEF ContentInit, RowShape
  <2>2. author \in [Authors -> Draft]
    BY RestingIsDraft DEF ContentInit
  <2>3. version = [x \in Leaves |-> version[x]]
    BY DEF ContentInit
  <2> QED BY <2>1, <2>2, <2>3 DEF ContentInit, ContentShape
<1>4. Dense /\ Published /\ Backfilled
  BY <1>1, <1>2 DEF ContentInit, Dense, Published, Backfilled
<1>5. \A a \in Authors : author[a].pc = "idle"
  BY RestingIsDraft DEF ContentInit
<1>6. (\A a \in Authors : Drafted(a)) /\ InTurn
  BY <1>1, <1>5 DEF Drafted, InTurn
<1> QED BY <1>3, <1>4, <1>6 DEF ContentInv

\* Every step of a request leaves the content alone.
LEMMA StepsOfContent ==
    ASSUME [Next]_vars
    PROVE  (\E a \in Authors : Authoring(a) /\ UNCHANGED <<gvars, avars>>) \/ UNCHANGED cvars
BY DEF Next, vars, submitAttempt, getCurrentVersionId, CreateAttempt, maybeEmitLessonCompleted,
       RequestFails

LEMMA ContentKept == ContentInv /\ [Next]_vars => ContentInv'
<1> SUFFICES ASSUME ContentInv, [Next]_vars PROVE ContentInv'
  OBVIOUS
<1> USE ContentAssumption
<1>1. ASSUME NEW a \in Authors, Authoring(a) PROVE ContentInv'
  BY <1>1, ContentStructureEdit, ContentLeafEdit, ContentCheck, ContentReadNumber,
     ContentInsert, ContentPublish, ContentBackfill, ContentStops DEF Authoring
<1>2. CASE UNCHANGED cvars
  BY <1>2, ContentIdle
<1> QED BY <1>1, <1>2, StepsOfContent

\* Numbers of versions leave no gap, and what a committed publication read has
\* one at least.
THEOREM VersionsAreComplete == Spec => []VersionsComplete
<1>1. Init => ContentInv
  BY ContentAssumption, ContentStarts DEF Init
<1>2. ContentInv => VersionsComplete
  <2> SUFFICES ASSUME ContentInv PROVE VersionsComplete
    OBVIOUS
  <2>1. \A x \in Leaves : Numbers(x) = 1..Highest(x)
    BY DenseHighest DEF ContentInv
  <2> QED BY <2>1 DEF ContentInv, Backfilled, VersionsComplete
<1> QED BY <1>1, <1>2, ContentKept, PTL DEF Spec

\* No step rewrites or removes a version: a pin stays what it was.
THEOREM VersionsStay == Spec => VersionsImmutable
<1>1. Init => ContentInv
  BY ContentAssumption, ContentStarts DEF Init
<1>2. ContentInv /\ [Next]_vars =>
        [\A x \in Leaves : \A n \in Numbers(x) :
             n \in DOMAIN version'[x] /\ version'[x][n] = version[x][n]]_vars
  <2> SUFFICES ASSUME ContentInv, [Next]_vars
               PROVE  \A x \in Leaves : \A n \in Numbers(x) :
                        n \in DOMAIN version'[x] /\ version'[x][n] = version[x][n]
    OBVIOUS
  <2>1. CASE version' = version
    BY <2>1 DEF Numbers
  <2>2. ASSUME NEW a \in Authors, Authoring(a)
        PROVE  \/ version' = version
               \/ InsertVersion(a) \/ BackfillVersions(a)
    BY <2>2 DEF Authoring, StructureEdit, LeafEdit, snapshotIfPublished, ReadNumber,
         publishCourse, AuthorStops
  <2> QED BY <2>1, <2>2, StepsOfContent, Versioned, ContentAssumption DEF cvars
<1> QED BY <1>1, <1>2, ContentKept, PTL DEF Spec, VersionsImmutable

\* Authors who take turns, none stopping half way, leave every leaf with a
\* version that is the row learners are served.
THEOREM EditsInTurnAreVersioned == Spec => []SequentialEditsVersioned
<1>1. Init => ContentInv
  BY ContentAssumption, ContentStarts DEF Init
<1>2. ContentInv => SequentialEditsVersioned
  BY DEF ContentInv, InTurn, Editing, SequentialEditsVersioned
<1> QED BY <1>1, <1>2, ContentKept, PTL DEF Spec

-----------------------------------------------------------------------------
(* The learner's rows: what the operators do.                               *)

LEMMA LevelMonotone ==
    ASSUME GamificationAssumption, NEW a \in Nat, NEW b \in Nat, a <= b
    PROVE  /\ computeLevel(a) \in Nat /\ computeLevel(a) >= 1
           /\ computeLevel(a) <= computeLevel(b)
<1>1. XpPerLevel \in Nat \ {0}
  BY DEF GamificationAssumption
<1>2. a \div XpPerLevel \in Nat /\ b \div XpPerLevel \in Nat
  BY <1>1
<1>3. a \div XpPerLevel <= b \div XpPerLevel
  BY <1>1
<1> QED BY <1>2, <1>3 DEF computeLevel

LEMMA CallMoved ==
    ASSUME call \in [Requests -> Held], NEW r \in Requests, NEW held \in Held, To(r, held)
    PROVE  /\ call' \in [Requests -> Held]
           /\ call'[r] = held
           /\ \A q \in Requests : q # r => call'[q] = call[q]
BY DEF To

LEMMA BlankIsHeld == Blank \in Held /\ Blank.pc = "idle"
<1>1. [m \in {} |-> 0] \in [{} -> Nat]
  OBVIOUS
<1>2. [m \in {} |-> 0] \in UNION {[D -> Nat] : D \in SUBSET Missions}
  BY <1>1
<1> QED BY <1>2 DEF Blank, Held, Steps

LEMMA AfterStreakIsHeld ==
    ASSUME GamificationAssumption, NEW c \in Held, NEW length \in Nat
    PROVE  /\ AfterStreak(c, length) \in Held
           /\ AfterStreak(c, length).pc \in {"count", "award", "missions"}
           /\ AfterStreak(c, length).first = c.first /\ AfterStreak(c, length).type = c.type
<1> DEFINE here == [c EXCEPT !.length = length]
<1>0. here \in Held /\ XpPerAnswer \in Nat
  BY DEF Held, GamificationAssumption
<1>1. AfterStreak(c, length) \in
        {[here EXCEPT !.pc = "count"],
         [here EXCEPT !.pc = "award", !.amount = XpPerAnswer, !.delta = XpPerAnswer],
         [here EXCEPT !.pc = "missions"]}
  <2>1. CASE c.type = "LESSON_COMPLETED"
    BY <2>1 DEF AfterStreak
  <2>2. CASE c.type # "LESSON_COMPLETED" /\ c.first /\ c.correct
    <3>1. c.type = "EXERCISE_ANSWERED"
      BY <2>2 DEF Held
    <3> QED BY <2>2, <3>1 DEF AfterStreak
  <2>3. CASE c.type # "LESSON_COMPLETED" /\ ~(c.first /\ c.correct)
    BY <2>3 DEF AfterStreak
  <2> QED BY <2>1, <2>2, <2>3
<1>2. [here EXCEPT !.pc = "count"] \in Held
  BY DEF Held, Steps
<1>3. [here EXCEPT !.pc = "award", !.amount = XpPerAnswer, !.delta = XpPerAnswer] \in Held
  BY <1>0 DEF Held, Steps
<1>4. [here EXCEPT !.pc = "missions"] \in Held
  BY DEF Held, Steps
<1>5. /\ AfterStreak(c, length).pc \in {"count", "award", "missions"}
      /\ AfterStreak(c, length).first = here.first /\ AfterStreak(c, length).type = here.type
  <2>1. PICK h \in Held : h = here
    BY <1>0
  <2>2. /\ [h EXCEPT !.pc = "count"].pc = "count"
        /\ [h EXCEPT !.pc = "count"].first = h.first /\ [h EXCEPT !.pc = "count"].type = h.type
    BY DEF Held
  <2>3. \A n : LET award == [h EXCEPT !.pc = "award", !.amount = n, !.delta = n]
               IN  award.pc = "award" /\ award.first = h.first /\ award.type = h.type
    BY DEF Held
  <2>4. /\ [h EXCEPT !.pc = "missions"].pc = "missions"
        /\ [h EXCEPT !.pc = "missions"].first = h.first /\ [h EXCEPT !.pc = "missions"].type = h.type
    BY DEF Held
  <2>5. AfterStreak(c, length) \in
          {[h EXCEPT !.pc = "count"],
           [h EXCEPT !.pc = "award", !.amount = XpPerAnswer, !.delta = XpPerAnswer],
           [h EXCEPT !.pc = "missions"]}
    BY <1>1, <2>1
  <2> HIDE DEF here
  <2>6. CASE AfterStreak(c, length) = [h EXCEPT !.pc = "count"]
    BY <2>1, <2>2, <2>6
  <2>7. CASE AfterStreak(c, length)
               = [h EXCEPT !.pc = "award", !.amount = XpPerAnswer, !.delta = XpPerAnswer]
    BY <2>1, <2>3, <2>7
  <2>8. CASE AfterStreak(c, length) = [h EXCEPT !.pc = "missions"]
    BY <2>1, <2>4, <2>8
  <2> QED BY <2>5, <2>6, <2>7, <2>8
<1>6. here.first = c.first /\ here.type = c.type
  BY DEF Held
<1> QED BY <1>1, <1>2, <1>3, <1>4, <1>5, <1>6

\* A row updated on a day is backed by the days of the row it came from, and
\* by that day.
LEMMA StreakGrows ==
    ASSUME NEW s \in StreakRow, NEW days, Earned(s, days), NEW today \in Nat \ {0}, today \in days
    PROVE  computeStreakUpdate(s, today) \in StreakRow /\ Earned(computeStreakUpdate(s, today), days)
<1> DEFINE next == IF today = s.last + 1 THEN s.current + 1 ELSE 1
<1>0. s.current \in Nat \ {0} /\ s.longest \in Nat /\ s.last \in Nat
  BY DEF StreakRow
<1>1. CASE today = s.last
  BY <1>1 DEF computeStreakUpdate
<1>2. CASE today # s.last
  <2> DEFINE t == computeStreakUpdate(s, today)
  <2>1. t = [current |-> next, longest |-> Larger(s.longest, next), last |-> today]
    BY <1>2 DEF computeStreakUpdate
  <2>2. next \in Nat \ {0} /\ Larger(s.longest, next) \in Nat /\ Larger(s.longest, next) >= next
    BY <1>0 DEF Larger
  <2>3. t.current = next /\ t.longest = Larger(s.longest, next) /\ t.last = today
    BY <2>1
  <2>4. next <= today /\ (today - next + 1)..today \subseteq days
    <3>1. CASE today = s.last + 1
      <4>1. next = s.current + 1 /\ s.current <= s.last
        BY <3>1 DEF Earned
      <4>2. \A d \in (today - next + 1)..today : d \in (s.last - s.current + 1)..s.last \/ d = today
        BY <1>0, <3>1, <4>1
      <4> QED BY <1>0, <3>1, <4>1, <4>2 DEF Earned
    <3>2. CASE today # s.last + 1
      <4>1. next = 1
        BY <3>2
      <4>2. today # 0
        BY <1>0, <1>2
      <4>3. \A d \in (today - 1 + 1)..today : d = today
        OBVIOUS
      <4> QED BY <4>1, <4>2, <4>3
    <3> QED BY <3>1, <3>2
  <2>5. t \in StreakRow
    BY <2>1, <2>2 DEF StreakRow
  <2>6. Earned(t, days)
    BY <2>2, <2>3, <2>4 DEF Earned
  <2> QED BY <2>5, <2>6
<1> QED BY <1>1, <1>2

-----------------------------------------------------------------------------
(* The learner's rows: their invariant, step by step.                       *)

\* What a step of a request has to show for what it writes.
LEMMA LearnerStep ==
    ASSUME GamificationAssumption, LearnerInv,
           NEW r \in Requests, NEW held \in Held, To(r, held),
           day' \in Nat \ {0}, failures' \in Nat, failures' = 0 => failures = 0,
           active \subseteq active', rewarded \subseteq rewarded',
           streak' \in StreakRow \cup {NoRow},
           streak' # NoRow => Earned(streak', active'),
           xp' \in XpShape \cup {NoRow}, xp # NoRow => xp' # NoRow,
           XpRow.total <= XpRow'.total,
           XpRow'.level <= computeLevel(XpRow'.total),
           mission' \in [Missions -> [progress : Nat, done : BOOLEAN]],
           held.pc \in {"createStreak", "updateStreak"} =>
             held.streak \in StreakRow /\ Earned(held.streak, active'),
           held.pc = "level" => xp' # NoRow /\ held.level <= computeLevel(XpRow'.total),
           \A m \in Missions : mission'[m].done =>
             mission[m].done \/ (held.pc = "award" /\ held.mission = m),
           failures' = 0 /\ At(r, "award") =>
             \A m \in Missions : call[r].mission = m => m \in rewarded'
    PROVE  LearnerInv'
<1>1. /\ call' \in [Requests -> Held]
      /\ call'[r] = held
      /\ \A q \in Requests : q # r => call'[q] = call[q]
  BY CallMoved DEF LearnerInv, LearnerShape
<1>2. LearnerShape'
  BY <1>1 DEF LearnerShape
<1>3. StreaksEarned'
  <2>1. ASSUME NEW q \in Requests, call'[q].pc \in {"createStreak", "updateStreak"}
        PROVE  call'[q].streak \in StreakRow /\ Earned(call'[q].streak, active')
    <3>1. CASE q = r
      BY <1>1, <2>1, <3>1
    <3>2. CASE q # r
      <4>1. call[q].streak \in StreakRow /\ Earned(call[q].streak, active) /\ call'[q] = call[q]
        BY <1>1, <2>1, <3>2 DEF LearnerInv, StreaksEarned
      <4> QED BY <4>1 DEF Earned
    <3> QED BY <3>1, <3>2
  <2> QED BY <2>1 DEF StreaksEarned
<1>4. LevelsBehind'
  <2>1. ASSUME NEW q \in Requests, call'[q].pc = "level"
        PROVE  xp' # NoRow /\ call'[q].level <= computeLevel(XpRow'.total)
    <3>1. CASE q = r
      BY <1>1, <2>1, <3>1
    <3>2. CASE q # r
      <4>1. xp # NoRow /\ call[q].level <= computeLevel(XpRow.total) /\ call'[q] = call[q]
        BY <1>1, <2>1, <3>2 DEF LearnerInv, LevelsBehind, At
      <4>2. XpRow.total \in Nat /\ XpRow'.total \in Nat
        BY DEF LearnerInv, LearnerShape, XpRow, XpShape
      <4>3. computeLevel(XpRow.total) <= computeLevel(XpRow'.total)
            /\ computeLevel(XpRow.total) \in Nat /\ computeLevel(XpRow'.total) \in Nat
        BY <4>2, LevelMonotone
      <4>4. call[q].level \in Nat
        BY DEF LearnerInv, LearnerShape, Held
      <4> QED BY <4>1, <4>3, <4>4
    <3> QED BY <3>1, <3>2
  <2> QED BY <2>1 DEF LevelsBehind, At
<1>5. RewardsUnderWay'
  <2> SUFFICES ASSUME failures' = 0, NEW m \in Missions, mission'[m].done
               PROVE  m \in rewarded' \/ \E q \in Requests : call'[q].pc = "award" /\ call'[q].mission = m
    BY DEF RewardsUnderWay, At
  <2>1. CASE held.pc = "award" /\ held.mission = m
    BY <1>1, <2>1
  <2>2. CASE mission[m].done
    <3>1. CASE m \in rewarded
      BY <3>1
    <3>2. CASE m \notin rewarded
      <4>1. PICK q \in Requests : At(q, "award") /\ call[q].mission = m
        BY <2>2, <3>2 DEF LearnerInv, RewardsUnderWay
      <4>2. CASE q = r
        BY <4>1, <4>2
      <4>3. CASE q # r
        BY <1>1, <4>1, <4>3 DEF At
      <4> QED BY <4>2, <4>3
    <3> QED BY <3>1, <3>2
  <2> QED BY <2>1, <2>2
<1> QED BY <1>2, <1>3, <1>4, <1>5 DEF LearnerInv

\* A step that writes no row, and goes on to no write but perhaps an award.
LEMMA LearnerReads ==
    ASSUME GamificationAssumption, LearnerInv,
           NEW r \in Requests, NEW held \in Held, To(r, held),
           UNCHANGED <<day, streak, xp, mission, ghosts>>,
           failures' = failures \/ failures' = failures + 1,
           ~At(r, "award") \/ failures' = failures + 1,
           held.pc \notin {"createStreak", "updateStreak", "level"}
    PROVE  LearnerInv'
<1>1. /\ UNCHANGED <<day, streak, xp, mission, active, rewarded>>
      /\ failures \in Nat
  BY DEF ghosts, LearnerInv, LearnerShape
<1>2. failures' \in Nat /\ (failures' = 0 => failures = 0 /\ ~At(r, "award"))
  BY <1>1
<1>3. XpRow' = XpRow /\ XpRow.total \in Nat /\ XpRow.level <= computeLevel(XpRow.total)
  BY <1>1 DEF XpRow, LearnerInv, LearnerShape, XpShape, LevelsBehind
<1>4. XpRow.total <= XpRow'.total
  BY <1>3
<1>5. day \in Nat \ {0} /\ streak \in StreakRow \cup {NoRow} /\ xp \in XpShape \cup {NoRow}
      /\ mission \in [Missions -> [progress : Nat, done : BOOLEAN]]
      /\ (streak # NoRow => Earned(streak, active))
  BY DEF LearnerInv, LearnerShape, StreaksEarned
<1> QED BY <1>1, <1>2, <1>3, <1>4, <1>5, LearnerStep

LEMMA LearnerTypes ==
    ASSUME LearnerInv
    PROVE  /\ day \in Nat \ {0} /\ failures \in Nat
           /\ streak \in StreakRow \cup {NoRow}
           /\ streak # NoRow => Earned(streak, active)
           /\ xp \in XpShape \cup {NoRow}
           /\ XpRow \in XpShape /\ XpRow.total \in Nat /\ XpRow.level \in Nat
           /\ XpRow.total <= XpRow.total
           /\ XpRow.level <= computeLevel(XpRow.total)
           /\ mission \in [Missions -> [progress : Nat, done : BOOLEAN]]
           /\ call \in [Requests -> Held]
<1>1. XpRow \in XpShape
  BY DEF LearnerInv, LearnerShape, XpRow, XpShape
<1>2. XpRow.total \in Nat /\ XpRow.level \in Nat
  BY <1>1 DEF XpShape
<1> QED BY <1>1, <1>2 DEF LearnerInv, LearnerShape, StreaksEarned, LevelsBehind

LEMMA LearnerReadStreak ==
    ASSUME GamificationAssumption, LearnerInv, NEW r \in Requests, ReadStreak(r)
    PROVE  LearnerInv'
<1> DEFINE c == [call[r] EXCEPT !.delta = 0]
           next == IF streak = NoRow THEN [current |-> 1, longest |-> 1, last |-> day]
                                     ELSE computeStreakUpdate(streak, day)
           write == [c EXCEPT !.pc = IF streak = NoRow THEN "createStreak" ELSE "updateStreak",
                              !.streak = next]
           held == IF next = streak THEN AfterStreak(c, streak.current) ELSE write
<1>1. /\ At(r, "streak") /\ To(r, held)
      /\ active' = active \cup {day}
      /\ UNCHANGED <<day, streak, xp, mission, rewarded, failures>>
  BY DEF ReadStreak, learner
<1>2. c \in Held
  <2>1. call[r] \in Held
    BY LearnerTypes
  <2> QED BY <2>1 DEF Held
<1>3. streak # NoRow => streak \in StreakRow /\ Earned(streak, active')
  BY <1>1, LearnerTypes DEF Earned
<1>4. next \in StreakRow /\ Earned(next, active')
  <2>0. day \in Nat \ {0} /\ day \in active'
    BY <1>1, LearnerTypes
  <2>1. CASE streak = NoRow
    <3>1. next = [current |-> 1, longest |-> 1, last |-> day]
      BY <2>1
    <3>2. \A d \in (day - 1 + 1)..day : d = day
      BY <2>0
    <3>3. next.current = 1 /\ next.longest = 1 /\ next.last = day
      BY <3>1
    <3> QED BY <2>0, <3>1, <3>2, <3>3 DEF StreakRow, Earned
  <2>2. CASE streak # NoRow
    BY <1>3, <2>0, <2>2, StreakGrows
  <2> QED BY <2>1, <2>2
<1>5. next = streak => streak \in StreakRow /\ streak.current \in Nat
  BY <1>4 DEF StreakRow
<1> HIDE DEF c, next
<1>6. write \in Held /\ write.pc \in {"createStreak", "updateStreak"} /\ write.streak = next
  BY <1>2, <1>4 DEF Held, Steps
<1>7. next = streak => /\ AfterStreak(c, streak.current) \in Held
                       /\ AfterStreak(c, streak.current).pc \in {"count", "award", "missions"}
  BY <1>2, <1>5, AfterStreakIsHeld
<1>8. /\ held \in Held
      /\ held.pc \in {"createStreak", "updateStreak"} =>
           held.streak \in StreakRow /\ Earned(held.streak, active')
      /\ held.pc \notin {"level", "idle"}
  <2> HIDE DEF write
  <2> QED BY <1>4, <1>6, <1>7
<1> HIDE DEF held
<1>9. /\ XpRow' = XpRow /\ ~At(r, "award")
      /\ streak' # NoRow => Earned(streak', active')
      /\ failures' \in Nat
  BY <1>1, <1>3, LearnerTypes DEF XpRow, At
<1> QED BY <1>1, <1>8, <1>9, LearnerTypes, LearnerStep

LEMMA LearnerCreateStreak ==
    ASSUME GamificationAssumption, LearnerInv, NEW r \in Requests, CreateStreak(r)
    PROVE  LearnerInv'
<1> DEFINE held == AfterStreak(call[r], call[r].streak.current)
<1>1. At(r, "createStreak") /\ UNCHANGED <<day, xp, mission, earned, ghosts>>
  BY DEF CreateStreak
<1>2. CASE streak = NoRow
  <2>1. streak' = call[r].streak /\ To(r, held) /\ UNCHANGED failures
    BY <1>2 DEF CreateStreak
  <2>2. call[r] \in Held /\ call[r].streak \in StreakRow /\ Earned(call[r].streak, active)
    BY <1>1, LearnerTypes DEF At, LearnerInv, StreaksEarned
  <2>3. call[r].streak.current \in Nat
    BY <2>2 DEF StreakRow
  <2>4. held \in Held /\ held.pc \in {"count", "award", "missions"}
    BY <2>2, <2>3, AfterStreakIsHeld
  <2> HIDE DEF held
  <2>5. /\ XpRow' = XpRow /\ ~At(r, "award") /\ active' = active /\ rewarded' = rewarded
        /\ Earned(streak', active')
    BY <1>1, <2>1, <2>2 DEF XpRow, At, ghosts
  <2> QED BY <1>1, <2>1, <2>2, <2>4, <2>5, LearnerTypes, LearnerStep
<1>3. CASE streak # NoRow
  <2>1. To(r, Blank) /\ failures' = failures + 1 /\ UNCHANGED streak
    BY <1>3 DEF CreateStreak
  <2> QED BY <1>1, <2>1, BlankIsHeld, LearnerReads
<1> QED BY <1>2, <1>3

LEMMA LearnerUpdateStreak ==
    ASSUME GamificationAssumption, LearnerInv, NEW r \in Requests, UpdateStreak(r)
    PROVE  LearnerInv'
<1> DEFINE held == AfterStreak(call[r], call[r].streak.current)
<1>1. /\ At(r, "updateStreak") /\ UNCHANGED <<day, xp, mission, earned, ghosts, failures>>
      /\ streak' = call[r].streak /\ To(r, held)
  BY DEF UpdateStreak
<1>2. call[r] \in Held /\ call[r].streak \in StreakRow /\ Earned(call[r].streak, active)
  BY <1>1, LearnerTypes DEF At, LearnerInv, StreaksEarned
<1>3. call[r].streak.current \in Nat
  BY <1>2 DEF StreakRow
<1>4. held \in Held /\ held.pc \in {"count", "award", "missions"}
  BY <1>2, <1>3, AfterStreakIsHeld
<1> HIDE DEF held
<1>5. /\ XpRow' = XpRow /\ ~At(r, "award") /\ active' = active /\ rewarded' = rewarded
      /\ Earned(streak', active')
  BY <1>1, <1>2 DEF XpRow, At, ghosts
<1> QED BY <1>1, <1>2, <1>4, <1>5, LearnerTypes, LearnerStep

LEMMA LearnerCountLesson ==
    ASSUME GamificationAssumption, LearnerInv, NEW r \in Requests, CountLesson(r)
    PROVE  LearnerInv'
<1> DEFINE held == [call[r] EXCEPT !.pc = "award", !.amount = XpPerLesson, !.delta = XpPerLesson]
<1>1. /\ At(r, "count") /\ To(r, held) /\ xp' = [XpRow EXCEPT !.lessons = @ + 1]
      /\ UNCHANGED <<day, streak, mission, active, rewarded, failures>>
  BY DEF CountLesson, ghosts
<1>2. call[r] \in Held /\ XpPerLesson \in Nat
  BY LearnerTypes DEF GamificationAssumption
<1>3. held \in Held /\ held.pc = "award"
  BY <1>2 DEF Held, Steps
<1>4. xp' \in XpShape /\ xp'.total = XpRow.total /\ xp'.level = XpRow.level
  <2>1. XpRow \in XpShape
    BY LearnerTypes
  <2> QED BY <1>1, <2>1 DEF XpShape
<1>5. xp' # NoRow
  BY <1>4 DEF XpShape, GamificationAssumption
<1>6. XpRow' = xp'
  BY <1>5 DEF XpRow
<1> HIDE DEF held
<1>7. ~At(r, "award")
  BY <1>1 DEF At
<1> QED BY <1>1, <1>3, <1>4, <1>5, <1>6, <1>7, LearnerTypes, LearnerStep

LEMMA AfterAwardIsHeld ==
    ASSUME NEW c \in Held
    PROVE  AfterAward(c) \in Held /\ AfterAward(c).pc \in {"missions", "mission"}
           /\ AfterAward(c).first = c.first /\ AfterAward(c).type = c.type
BY DEF AfterAward, Held, Steps

LEMMA LearnerAwardXp ==
    ASSUME GamificationAssumption, LearnerInv, NEW r \in Requests, AwardXp(r)
    PROVE  LearnerInv'
<1> DEFINE total == XpRow.total + call[r].amount
           risen == IF xp = NoRow THEN computeLevel(total) ELSE XpRow.level
           write == [call[r] EXCEPT !.pc = "level", !.level = computeLevel(total)]
           held == IF xp'.level = computeLevel(total) THEN AfterAward(call[r]) ELSE write
<1>1. /\ At(r, "award") /\ To(r, held)
      /\ xp' = [XpRow EXCEPT !.total = total, !.level = risen]
      /\ rewarded' = rewarded \cup ({call[r].mission} \ {NoRow})
      /\ UNCHANGED <<day, streak, mission, active, failures>>
  BY DEF AwardXp
<1>2. call[r] \in Held /\ call[r].amount \in Nat
  BY LearnerTypes DEF Held
<1>3. total \in Nat /\ XpRow.total <= total
  BY <1>2, LearnerTypes
<1> HIDE DEF total
<1>4. /\ computeLevel(total) \in Nat
      /\ computeLevel(XpRow.total) \in Nat /\ computeLevel(XpRow.total) <= computeLevel(total)
  BY <1>3, LevelMonotone, LearnerTypes
<1>5. risen \in Nat /\ risen <= computeLevel(total)
  BY <1>4, LearnerTypes
<1> HIDE DEF risen
<1>6. xp' \in XpShape /\ xp'.total = total /\ xp'.level = risen
  <2>1. XpRow \in XpShape
    BY LearnerTypes
  <2> QED BY <1>1, <1>3, <1>5, <2>1 DEF XpShape
<1>7. xp' # NoRow
  BY <1>6 DEF XpShape, GamificationAssumption
<1>8. XpRow' = xp'
  BY <1>7 DEF XpRow
<1>9. write \in Held /\ write.pc = "level" /\ write.level = computeLevel(total)
  BY <1>2, <1>4 DEF Held, Steps
<1>10. AfterAward(call[r]) \in Held /\ AfterAward(call[r]).pc \in {"missions", "mission"}
  BY <1>2, AfterAwardIsHeld
<1> HIDE DEF write
<1>11. /\ held \in Held /\ held.pc \in {"level", "missions", "mission"}
       /\ held.pc = "level" => held.level = computeLevel(total)
  BY <1>9, <1>10
<1> HIDE DEF held
<1>12. /\ computeLevel(total) <= computeLevel(total)
       /\ active \subseteq active' /\ rewarded \subseteq rewarded'
       /\ \A m \in Missions : call[r].mission = m => m \in rewarded'
  BY <1>1, <1>4 DEF GamificationAssumption
<1> QED BY <1>1, <1>3, <1>5, <1>6, <1>7, <1>8, <1>11, <1>12, LearnerTypes, LearnerStep

LEMMA LearnerSetLevel ==
    ASSUME GamificationAssumption, LearnerInv, NEW r \in Requests, SetLevel(r)
    PROVE  LearnerInv'
<1> DEFINE held == AfterAward(call[r])
<1>1. /\ At(r, "level") /\ To(r, held) /\ xp' = [xp EXCEPT !.level = call[r].level]
      /\ UNCHANGED <<day, streak, mission, active, rewarded, failures>>
  BY DEF SetLevel, ghosts
<1>2. call[r] \in Held /\ call[r].level \in Nat
  BY LearnerTypes DEF Held
<1>3. xp # NoRow /\ call[r].level <= computeLevel(XpRow.total)
  BY <1>1 DEF LearnerInv, LevelsBehind
<1>4. xp \in XpShape /\ XpRow = xp
  BY <1>3, LearnerTypes DEF XpRow
<1>5. xp' \in XpShape /\ xp'.total = XpRow.total /\ xp'.level = call[r].level
  BY <1>1, <1>2, <1>4 DEF XpShape
<1>6. xp' # NoRow
  BY <1>5 DEF XpShape, GamificationAssumption
<1>7. XpRow' = xp'
  BY <1>6 DEF XpRow
<1>8. held \in Held /\ held.pc \in {"missions", "mission"}
  BY <1>2, AfterAwardIsHeld
<1> HIDE DEF held
<1>9. ~At(r, "award")
  BY <1>1 DEF At
<1> QED BY <1>1, <1>3, <1>5, <1>6, <1>7, <1>8, <1>9, LearnerTypes, LearnerStep

LEMMA ProgressIsNumber ==
    ASSUME GamificationAssumption, NEW m \in Missions, NEW p \in Nat, NEW c \in Held
    PROVE  nextMissionProgress(m, p, c) \in Nat
<1>1. c.delta \in Nat /\ c.length \in Nat
  BY DEF Held
<1>2. Metric[m] \in {"XP_EARNED", "LESSONS_COMPLETED", "STREAK_DAYS"}
  BY DEF GamificationAssumption
<1>3. CASE Metric[m] = "XP_EARNED"
  BY <1>1, <1>3 DEF nextMissionProgress
<1>4. CASE Metric[m] = "LESSONS_COMPLETED"
  BY <1>4 DEF nextMissionProgress
<1>5. CASE Metric[m] = "STREAK_DAYS"
  BY <1>1, <1>5 DEF nextMissionProgress, Larger
<1> QED BY <1>2, <1>3, <1>4, <1>5

LEMMA LearnerReadMissions ==
    ASSUME GamificationAssumption, LearnerInv, NEW r \in Requests, ReadMissions(r)
    PROVE  LearnerInv'
<1> DEFINE moved == {m \in Missions : /\ ~ mission[m].done
                                      /\ nextMissionProgress(m, mission[m].progress, call[r])
                                           # mission[m].progress}
           todo == [m \in moved |-> mission[m].progress]
           held == [call[r] EXCEPT !.pc = "mission", !.todo = todo]
<1>1. At(r, "missions") /\ To(r, held) /\ UNCHANGED <<day, learner, ghosts, failures>>
  BY DEF ReadMissions
<1>2. todo \in UNION {[D -> Nat] : D \in SUBSET Missions}
  <2>1. \A m \in moved : mission[m].progress \in Nat
    BY LearnerTypes
  <2>2. moved \in SUBSET Missions
    OBVIOUS
  <2> HIDE DEF moved
  <2>3. todo \in [moved -> Nat]
    BY <2>1
  <2> QED BY <2>2, <2>3
<1> HIDE DEF todo
<1>3. call[r] \in Held
  BY LearnerTypes
<1>4. held \in Held /\ held.pc = "mission"
  BY <1>2, <1>3 DEF Held, Steps
<1> HIDE DEF held
<1>5. ~At(r, "award")
  BY <1>1 DEF At
<1> QED BY <1>1, <1>4, <1>5, LearnerReads DEF learner

LEMMA LearnerApplyMission ==
    ASSUME GamificationAssumption, LearnerInv, NEW r \in Requests, ApplyMission(r)
    PROVE  LearnerInv'
<1>1. PICK m \in DOMAIN call[r].todo :
        LET progress == nextMissionProgress(m, call[r].todo[m], call[r])
            rest == [k \in DOMAIN call[r].todo \ {m} |-> call[r].todo[k]]
            here == [call[r] EXCEPT !.todo = rest]
            reached == progress >= Target[m]
        IN  /\ mission' = [mission EXCEPT ![m] = [progress |-> progress, done |-> @.done \/ reached]]
            /\ To(r, IF reached
                     THEN [here EXCEPT !.pc = "award", !.mission = m, !.amount = Reward[m]]
                     ELSE here)
  BY DEF ApplyMission
<1> DEFINE progress == nextMissionProgress(m, call[r].todo[m], call[r])
           rest == [k \in DOMAIN call[r].todo \ {m} |-> call[r].todo[k]]
           here == [call[r] EXCEPT !.todo = rest]
           reached == progress >= Target[m]
           pay == [here EXCEPT !.pc = "award", !.mission = m, !.amount = Reward[m]]
           held == IF reached THEN pay ELSE here
<1>2. /\ mission' = [mission EXCEPT ![m] = [progress |-> progress, done |-> mission[m].done \/ reached]]
      /\ To(r, held)
  BY <1>1
<1>3. At(r, "mission") /\ UNCHANGED <<day, streak, xp, active, rewarded, failures>>
  BY DEF ApplyMission, ghosts
<1>4. call[r] \in Held /\ call[r].pc = "mission"
  BY <1>3, LearnerTypes DEF At
<1>5. call[r].todo \in UNION {[D -> Nat] : D \in SUBSET Missions}
  BY <1>4 DEF Held
<1>6. m \in Missions /\ \A k \in DOMAIN call[r].todo : k \in Missions /\ call[r].todo[k] \in Nat
  BY <1>5
<1>7. rest \in UNION {[D -> Nat] : D \in SUBSET Missions}
  <2>1. (DOMAIN call[r].todo \ {m}) \in SUBSET Missions
    BY <1>6
  <2>2. rest \in [(DOMAIN call[r].todo \ {m}) -> Nat]
    BY <1>6
  <2> QED BY <2>1, <2>2
<1>8. progress \in Nat /\ Target[m] \in Nat /\ Reward[m] \in Nat
  BY <1>4, <1>6, ProgressIsNumber DEF GamificationAssumption
<1> HIDE DEF rest, progress
<1>9. here \in Held /\ here.pc = "mission"
  BY <1>4, <1>7 DEF Held
<1> HIDE DEF here
<1>10. pay \in Held /\ pay.pc = "award" /\ pay.mission = m
  BY <1>6, <1>8, <1>9 DEF Held, Steps
<1> HIDE DEF pay
<1>11. /\ held \in Held /\ held.pc \in {"mission", "award"}
       /\ reached => held.pc = "award" /\ held.mission = m
  BY <1>9, <1>10
<1>12. /\ mission' \in [Missions -> [progress : Nat, done : BOOLEAN]]
       /\ \A k \in Missions : mission'[k].done => mission[k].done \/ (k = m /\ reached)
  <2>1. mission \in [Missions -> [progress : Nat, done : BOOLEAN]]
    BY LearnerTypes
  <2>2. (mission[m].done \/ reached) \in BOOLEAN
    OBVIOUS
  <2> DEFINE now == [progress |-> progress, done |-> mission[m].done \/ reached]
  <2>3. now \in [progress : Nat, done : BOOLEAN] /\ (now.done <=> mission[m].done \/ reached)
    BY <1>8, <2>2
  <2>4. mission' = [mission EXCEPT ![m] = now]
    BY <1>2
  <2> HIDE DEF now
  <2> QED BY <1>6, <2>1, <2>3, <2>4
<1> HIDE DEF held
<1>13. ~At(r, "award") /\ XpRow' = XpRow
  BY <1>3 DEF At, XpRow
<1>14. \A k \in Missions : mission'[k].done => mission[k].done \/ (held.pc = "award" /\ held.mission = k)
  BY <1>11, <1>12
<1> QED BY <1>2, <1>3, <1>11, <1>12, <1>13, <1>14, LearnerTypes, LearnerStep

LEMMA LearnerReadBadges ==
    ASSUME GamificationAssumption, LearnerInv, NEW r \in Requests, ReadBadges(r)
    PROVE  LearnerInv'
<1> DEFINE badges == {b \in Badges \ earned : BadgeValue(b) >= Threshold[b]}
           held == [call[r] EXCEPT !.pc = "badge", !.badges = badges]
<1>1. At(r, "mission") /\ To(r, held) /\ UNCHANGED <<day, learner, ghosts, failures>>
  BY DEF ReadBadges
<1>2. badges \in SUBSET Badges
  OBVIOUS
<1> HIDE DEF badges
<1>3. call[r] \in Held
  BY LearnerTypes
<1>4. held \in Held /\ held.pc = "badge"
  BY <1>2, <1>3 DEF Held, Steps
<1> HIDE DEF held
<1>5. ~At(r, "award")
  BY <1>1 DEF At
<1> QED BY <1>1, <1>4, <1>5, LearnerReads DEF learner

LEMMA LearnerAwardBadge ==
    ASSUME GamificationAssumption, LearnerInv, NEW r \in Requests, AwardBadge(r)
    PROVE  LearnerInv'
<1>1. At(r, "badge") /\ UNCHANGED <<day, streak, xp, mission, ghosts, failures>>
  BY DEF AwardBadge
<1>2. PICK b \in call[r].badges : To(r, [call[r] EXCEPT !.badges = @ \ {b}])
  BY DEF AwardBadge
<1> DEFINE held == [call[r] EXCEPT !.badges = @ \ {b}]
<1>3. call[r] \in Held /\ call[r].pc = "badge"
  BY <1>1, LearnerTypes DEF At
<1>4. held \in Held /\ held.pc = "badge" /\ To(r, held)
  BY <1>2, <1>3 DEF Held
<1> HIDE DEF held
<1>5. ~At(r, "award")
  BY <1>1 DEF At
<1> QED BY <1>1, <1>4, <1>5, LearnerReads

LEMMA LearnerActs ==
    ASSUME GamificationAssumption, LearnerInv, NEW r \in Requests, recordActivity(r)
    PROVE  LearnerInv'
BY LearnerReadStreak, LearnerCreateStreak, LearnerUpdateStreak, LearnerCountLesson,
   LearnerAwardXp, LearnerSetLevel, LearnerReadMissions, LearnerApplyMission,
   LearnerReadBadges, LearnerAwardBadge DEF recordActivity

\* Midnight, and whatever happens to the course.
LEMMA LearnerIdle ==
    ASSUME GamificationAssumption, LearnerInv, UNCHANGED <<learner, call, ghosts, failures>>,
           day' = day \/ day' = day + 1
    PROVE  LearnerInv'
<1>1. UNCHANGED <<streak, xp, mission, call, active, rewarded, failures>>
  BY DEF learner, ghosts
<1>2. day' \in Nat \ {0}
  BY LearnerTypes
<1>3. XpRow' = XpRow /\ \A r, pc : At(r, pc)' <=> At(r, pc)
  BY <1>1 DEF XpRow, At
<1>4. LearnerShape' /\ StreaksEarned'
  BY <1>1, <1>2 DEF LearnerInv, LearnerShape, StreaksEarned
<1>5. LevelsBehind' /\ RewardsUnderWay'
  BY <1>1, <1>3 DEF LearnerInv, LevelsBehind, RewardsUnderWay
<1> QED BY <1>4, <1>5 DEF LearnerInv

LEMMA LearnerStarts == GamificationAssumption /\ GamificationInit => LearnerInv
<1> SUFFICES ASSUME GamificationAssumption, GamificationInit PROVE LearnerInv
  OBVIOUS
<1>1. XpRow = [total |-> 0, level |-> 1, lessons |-> 0]
  BY DEF GamificationInit, XpRow
<1>2. call \in [Requests -> Held] /\ \A r \in Requests : call[r].pc = "idle"
  BY BlankIsHeld DEF GamificationInit
<1>3. LearnerShape
  BY <1>2 DEF GamificationInit, LearnerShape
<1>4. LevelsBehind
  BY <1>1, <1>2, LevelMonotone DEF LevelsBehind, At
<1>5. StreaksEarned /\ RewardsUnderWay
  BY <1>2 DEF GamificationInit, StreaksEarned, RewardsUnderWay
<1> QED BY <1>3, <1>4, <1>5 DEF LearnerInv

-----------------------------------------------------------------------------
(* The requests: the invariant, step by step.                               *)

LEMMA LessonDoneStays ==
    ASSUME row' = row, attempts' = attempts
    PROVE  attempted' = attempted /\ (LessonDone' <=> LessonDone)
BY DEF attempted, LessonDone, LessonExercises, Owned

\* What a step of a request that stores no answer has to show.
LEMMA CompletionStep ==
    ASSUME LearnerInv, CompletionInv, NEW r \in Requests, NEW held \in Held, To(r, held),
           row' = row, attempts' = attempts,
           completions' \in Nat, completions' >= completions,
           failures' = 0 => failures = 0,
           held.pc \in {"pin", "create"} =>
             /\ held.exercise \in Exercises /\ row[held.exercise].there
             /\ held.first \/ held.exercise \in attempted
             /\ held.type = "EXERCISE_ANSWERED",
           failures' = 0 /\ LessonDone /\ WillLook(call[r]) => WillLook(held) \/ completions' > 0
    PROVE  CompletionInv'
<1>1. /\ call'[r] = held
      /\ \A q \in Requests : q # r => call'[q] = call[q]
  BY CallMoved DEF LearnerInv, LearnerShape
<1>2. Answered'
  <2>1. attempted' = attempted
    BY LessonDoneStays
  <2>2. ASSUME NEW q \in Requests, call'[q].pc \in {"pin", "create"}
        PROVE  /\ call'[q].exercise \in Exercises /\ row'[call'[q].exercise].there
               /\ call'[q].first \/ call'[q].exercise \in attempted'
               /\ call'[q].type = "EXERCISE_ANSWERED"
    <3>1. CASE q = r
      BY <1>1, <2>1, <2>2, <3>1
    <3>2. CASE q # r
      BY <1>1, <2>1, <2>2, <3>2 DEF CompletionInv, Answered
    <3> QED BY <3>1, <3>2
  <2>3. attempted' \subseteq {x \in Exercises : row'[x].there}
    BY <2>1 DEF CompletionInv, Answered
  <2> QED BY <2>2, <2>3 DEF Answered
<1>3. CompletionComing'
  <2>0. completions \in Nat
    BY DEF CompletionInv, CompletionComing
  <2> SUFFICES ASSUME failures' = 0, LessonDone'
               PROVE  completions' > 0 \/ \E q \in Requests : WillLook(call'[q])
    BY DEF CompletionComing
  <2>1. LessonDone
    BY LessonDoneStays
  <2>2. CASE completions > 0
    BY <2>0, <2>2
  <2>3. CASE ~(completions > 0)
    <3>1. PICK q \in Requests : WillLook(call[q])
      BY <2>1, <2>3 DEF CompletionInv, CompletionComing
    <3>2. CASE q = r
      BY <1>1, <2>1, <3>1, <3>2
    <3>3. CASE q # r
      BY <1>1, <3>1, <3>3
    <3> QED BY <3>2, <3>3
  <2> QED BY <2>2, <2>3
<1> QED BY <1>2, <1>3 DEF CompletionInv

LEMMA RequestSubmits ==
    ASSUME AttemptsAssumption, ContentAssumption, GamificationAssumption, IInv,
           NEW r \in Requests, submitAttempt(r)
    PROVE  IInv'
<1>1. PICK x \in Exercises, correct \in BOOLEAN :
        /\ Owned(x) /\ published
        /\ To(r, [Blank EXCEPT !.pc = "pin", !.exercise = x, !.correct = correct,
                               !.first = x \notin attempted, !.content = row[x].content])
  BY DEF submitAttempt
<1> DEFINE held == [Blank EXCEPT !.pc = "pin", !.exercise = x, !.correct = correct,
                                 !.first = x \notin attempted, !.content = row[x].content]
<1>2. /\ At(r, "idle") /\ To(r, held)
      /\ UNCHANGED <<cvars, day, learner, ghosts, failures, attempts, completions>>
  BY <1>1 DEF submitAttempt
<1>3. row[x].content \in Nat /\ (x \notin attempted) \in BOOLEAN
  BY DEF AttemptsAssumption, ContentAssumption, IInv, ContentInv, ContentShape, RowShape
<1>4. /\ held \in Held /\ held.pc = "pin" /\ held.exercise = x
      /\ held.type = "EXERCISE_ANSWERED" /\ (held.first <=> x \notin attempted)
  <2>1. Blank \in Held /\ Blank.type = "EXERCISE_ANSWERED"
    BY BlankIsHeld DEF Blank
  <2> QED BY <1>3, <2>1 DEF Held, Steps
<1> HIDE DEF held
<1>5. UNCHANGED <<day, streak, xp, mission, ghosts, failures, row, attempts, completions>>
  BY <1>2 DEF learner, cvars
<1>6. LearnerInv'
  BY <1>2, <1>4, <1>5, LearnerReads DEF IInv, At
<1>7. ContentInv'
  BY <1>2, ContentIdle DEF IInv
<1>8. completions \in Nat /\ ~WillLook(call[r]) /\ row[x].there
  BY <1>1, <1>2 DEF IInv, CompletionInv, CompletionComing, WillLook, At, Owned
<1>9. CompletionInv'
  BY <1>2, <1>4, <1>5, <1>8, CompletionStep DEF IInv
<1> QED BY <1>6, <1>7, <1>9 DEF IInv

LEMMA RequestPins ==
    ASSUME AttemptsAssumption, ContentAssumption, GamificationAssumption, IInv,
           NEW r \in Requests, getCurrentVersionId(r)
    PROVE  IInv'
<1> DEFINE held == [call[r] EXCEPT !.pc = "create", !.pin = Highest(call[r].exercise)]
<1>1. /\ At(r, "pin") /\ To(r, held)
      /\ UNCHANGED <<cvars, day, learner, ghosts, failures, avars>>
  BY DEF getCurrentVersionId
<1>2. /\ call[r] \in Held /\ call[r].exercise \in Exercises /\ row[call[r].exercise].there
      /\ call[r].first \/ call[r].exercise \in attempted
      /\ call[r].type = "EXERCISE_ANSWERED"
  BY <1>1, LearnerTypes DEF IInv, CompletionInv, Answered, At
<1>3. Highest(call[r].exercise) \in Nat
  BY <1>2, DenseHighest DEF IInv, ContentInv, AttemptsAssumption
<1>4. /\ held \in Held /\ held.pc = "create" /\ held.exercise = call[r].exercise
      /\ held.first = call[r].first /\ held.type = call[r].type
  BY <1>2, <1>3 DEF Held, Steps
<1> HIDE DEF held
<1>5. UNCHANGED <<day, streak, xp, mission, ghosts, failures, row, attempts, completions>>
  BY <1>1 DEF learner, cvars, avars
<1>6. LearnerInv'
  BY <1>1, <1>4, <1>5, LearnerReads DEF IInv, At
<1>7. ContentInv'
  BY <1>1, ContentIdle DEF IInv
<1>8. completions \in Nat /\ ~WillLook(call[r])
  BY <1>1 DEF IInv, CompletionInv, CompletionComing, WillLook, At
<1>9. CompletionInv'
  BY <1>1, <1>2, <1>4, <1>5, <1>8, CompletionStep DEF IInv
<1> QED BY <1>6, <1>7, <1>9 DEF IInv

LEMMA RequestCreates ==
    ASSUME AttemptsAssumption, ContentAssumption, GamificationAssumption, IInv,
           NEW r \in Requests, CreateAttempt(r)
    PROVE  IInv'
<1> DEFINE c == call[r]
           held == [c EXCEPT !.pc = "streak"]
           new == [exercise |-> c.exercise, content |-> c.content, pin |-> c.pin]
<1>1. /\ At(r, "create") /\ To(r, held) /\ attempts' = attempts \cup {new}
      /\ UNCHANGED <<cvars, day, learner, ghosts, failures, completions>>
  BY DEF CreateAttempt
<1>2. /\ c \in Held /\ c.exercise \in Exercises /\ row[c.exercise].there
      /\ c.first \/ c.exercise \in attempted
      /\ c.type = "EXERCISE_ANSWERED"
  BY <1>1, LearnerTypes DEF IInv, CompletionInv, Answered, At
<1>3. held \in Held /\ held.pc = "streak" /\ held.first = c.first /\ held.type = c.type
  BY <1>2 DEF Held, Steps
<1> HIDE DEF held
<1>4. UNCHANGED <<day, streak, xp, mission, ghosts, failures, row, completions>>
  BY <1>1 DEF learner, cvars
<1>5. LearnerInv'
  BY <1>1, <1>3, <1>4, LearnerReads DEF IInv, At
<1>6. ContentInv'
  BY <1>1, ContentIdle DEF IInv
<1>7. attempted' = attempted \cup {c.exercise}
  <2>1. new.exercise = c.exercise
    OBVIOUS
  <2> HIDE DEF new
  <2> QED BY <1>1, <2>1 DEF attempted
<1>8. /\ call'[r] = held
      /\ \A q \in Requests : q # r => call'[q] = call[q]
  BY <1>1, <1>3, CallMoved DEF IInv, LearnerInv, LearnerShape
<1>9. Answered'
  <2>1. ASSUME NEW q \in Requests, call'[q].pc \in {"pin", "create"}
        PROVE  /\ call'[q].exercise \in Exercises /\ row'[call'[q].exercise].there
               /\ call'[q].first \/ call'[q].exercise \in attempted'
               /\ call'[q].type = "EXERCISE_ANSWERED"
    <3>1. q # r
      BY <1>3, <1>8, <2>1
    <3> QED BY <1>4, <1>7, <1>8, <2>1, <3>1 DEF IInv, CompletionInv, Answered
  <2>2. attempted' \subseteq {x \in Exercises : row'[x].there}
    BY <1>2, <1>4, <1>7 DEF IInv, CompletionInv, Answered
  <2> QED BY <2>1, <2>2 DEF Answered
<1>10. CompletionComing'
  <2>1. completions' \in Nat
    BY <1>4 DEF IInv, CompletionInv, CompletionComing
  <2> SUFFICES ASSUME failures' = 0, LessonDone'
               PROVE  completions' > 0 \/ \E q \in Requests : WillLook(call'[q])
    BY <2>1 DEF CompletionComing
  <2>2. CASE c.first
    <3>1. WillLook(call'[r])
      BY <1>2, <1>3, <1>8, <2>2 DEF WillLook
    <3> QED BY <3>1
  <2>3. CASE ~c.first
    <3>1. attempted' = attempted
      BY <1>2, <1>7, <2>3
    <3>2. LessonDone
      BY <1>4, <3>1 DEF LessonDone, LessonExercises, Owned
    <3>3. completions > 0 \/ \E q \in Requests : WillLook(call[q])
      BY <1>4, <3>2 DEF IInv, CompletionInv, CompletionComing
    <3>4. \A q \in Requests : WillLook(call[q]) => q # r
      BY <1>1 DEF WillLook, At
    <3> QED BY <1>4, <1>8, <3>3, <3>4
  <2> QED BY <2>2, <2>3
<1> QED BY <1>5, <1>6, <1>9, <1>10 DEF IInv, CompletionInv

LEMMA RequestEmits ==
    ASSUME GamificationAssumption, IInv, NEW r \in Requests, maybeEmitLessonCompleted(r)
    PROVE  IInv'
<1> DEFINE complete == /\ call[r].type = "EXERCISE_ANSWERED" /\ call[r].first
                       /\ LessonExercises # {} /\ LessonExercises \subseteq attempted
           next == [call[r] EXCEPT !.pc = "streak", !.type = "LESSON_COMPLETED"]
           held == IF complete THEN next ELSE Blank
<1>1. /\ At(r, "badge") /\ To(r, held)
      /\ completions' = completions + (IF complete THEN 1 ELSE 0)
      /\ UNCHANGED <<cvars, day, learner, ghosts, failures, attempts, submits>>
  BY DEF maybeEmitLessonCompleted, ActivityRecorded
<1>2. call[r] \in Held /\ completions \in Nat
  BY LearnerTypes DEF IInv, CompletionInv, CompletionComing
<1>3. next \in Held /\ next.pc = "streak"
  BY <1>2 DEF Held, Steps
<1>4. held \in Held /\ held.pc \in {"streak", "idle"}
  <2> HIDE DEF next
  <2> QED BY <1>3, BlankIsHeld
<1>5. /\ completions' \in Nat /\ completions' >= completions
      /\ complete => completions' > 0
  BY <1>1, <1>2
<1>6. LessonDone /\ WillLook(call[r]) => complete
  BY DEF LessonDone, WillLook
<1> HIDE DEF held, complete
<1>7. UNCHANGED <<day, streak, xp, mission, ghosts, failures, row, attempts>>
  BY <1>1 DEF learner, cvars
<1>8. LearnerInv'
  BY <1>1, <1>4, <1>7, LearnerReads DEF IInv, At
<1>9. ContentInv'
  BY <1>1, ContentIdle DEF IInv
<1>10. CompletionInv'
  BY <1>1, <1>4, <1>5, <1>6, <1>7, CompletionStep DEF IInv
<1> QED BY <1>8, <1>9, <1>10 DEF IInv

LEMMA RequestStops ==
    ASSUME GamificationAssumption, IInv, NEW r \in Requests, RequestFails(r)
    PROVE  IInv'
<1>1. /\ To(r, Blank) /\ failures' = failures + 1
      /\ UNCHANGED <<cvars, day, learner, ghosts, avars>>
  BY DEF RequestFails
<1>2. UNCHANGED <<day, streak, xp, mission, ghosts, row, attempts, completions>>
  BY <1>1 DEF learner, cvars, avars
<1>3. LearnerInv'
  BY <1>1, <1>2, BlankIsHeld, LearnerReads DEF IInv
<1>4. ContentInv'
  BY <1>1, ContentIdle DEF IInv
<1>5. completions \in Nat /\ completions >= completions /\ failures' # 0
  BY <1>1, LearnerTypes DEF IInv, CompletionInv, CompletionComing
<1>6. CompletionInv'
  BY <1>1, <1>2, <1>5, BlankIsHeld, CompletionStep DEF IInv
<1> QED BY <1>3, <1>4, <1>6 DEF IInv

\* An activity being recorded keeps what its caller will look at, or fails.
LEMMA ActivityKeepsCaller ==
    ASSUME GamificationAssumption, LearnerInv, NEW r \in Requests, recordActivity(r)
    PROVE  \E held \in Held :
             /\ To(r, held)
             /\ held.pc \notin {"pin", "create"}
             /\ failures' = failures + 1 \/ (failures' = failures /\ (WillLook(call[r]) => WillLook(held)))
<1> DEFINE CarriesOn(held) == held.pc \notin {"idle", "pin", "create"}
                         /\ held.first = call[r].first /\ held.type = call[r].type
           Goes == \E held \in Held : To(r, held) /\ CarriesOn(held) /\ failures' = failures
<1>0. call[r] \in Held /\ XpPerLesson \in Nat /\ call' \in [Requests -> Held]
  <2>1. LearnerInv'
    BY LearnerActs
  <2> QED BY <2>1, LearnerTypes DEF GamificationAssumption, LearnerInv, LearnerShape
<1>1. SUFFICES Goes \/ (To(r, Blank) /\ failures' = failures + 1)
  BY BlankIsHeld DEF WillLook
<1>2. \A held : To(r, held) => held \in Held
  BY <1>0 DEF To, LearnerInv, LearnerShape
<1>3. ASSUME NEW held, To(r, held), CarriesOn(held), failures' = failures PROVE Goes
  BY <1>2, <1>3
<1>4. ASSUME NEW length \in Nat PROVE CarriesOn(AfterStreak(call[r], length))
  BY <1>0, AfterStreakIsHeld
<1>5. CASE ReadStreak(r)
  <2> DEFINE c == [call[r] EXCEPT !.delta = 0]
             next == IF streak = NoRow THEN [current |-> 1, longest |-> 1, last |-> day]
                                       ELSE computeStreakUpdate(streak, day)
             write == [c EXCEPT !.pc = IF streak = NoRow THEN "createStreak" ELSE "updateStreak",
                                !.streak = next]
             held == IF next = streak THEN AfterStreak(c, streak.current) ELSE write
  <2>1. To(r, held) /\ failures' = failures
    BY <1>5 DEF ReadStreak
  <2>2. c \in Held /\ c.first = call[r].first /\ c.type = call[r].type
    BY <1>0 DEF Held
  <2> HIDE DEF next
  <2>3. CarriesOn(write)
    BY <1>0 DEF Held
  <2>4. next = streak => CarriesOn(AfterStreak(c, streak.current))
    <3>1. next = streak => streak.current \in Nat
      <4>1. CASE streak = NoRow
        BY <4>1 DEF next
      <4>2. CASE streak # NoRow
        BY <4>2, LearnerTypes DEF StreakRow
      <4> QED BY <4>1, <4>2
    <3> HIDE DEF c
    <3> QED BY <2>2, <3>1, AfterStreakIsHeld
  <2> HIDE DEF write, c
  <2>5. CarriesOn(held)
    BY <2>3, <2>4
  <2> HIDE DEF held
  <2> QED BY <1>3, <2>1, <2>5
<1>6. CASE CreateStreak(r) \/ UpdateStreak(r)
  <2>1. call[r].streak.current \in Nat
    <3>1. call[r].streak \in StreakRow
      BY <1>6 DEF CreateStreak, UpdateStreak, At, LearnerInv, StreaksEarned
    <3> QED BY <3>1 DEF StreakRow
  <2>2. \/ To(r, AfterStreak(call[r], call[r].streak.current)) /\ failures' = failures
        \/ To(r, Blank) /\ failures' = failures + 1
    BY <1>6 DEF CreateStreak, UpdateStreak
  <2> QED BY <1>3, <1>4, <2>1, <2>2
<1>7. CASE CountLesson(r)
  <2> DEFINE held == [call[r] EXCEPT !.pc = "award", !.amount = XpPerLesson, !.delta = XpPerLesson]
  <2>1. To(r, held) /\ failures' = failures
    BY <1>7 DEF CountLesson
  <2>2. CarriesOn(held)
    BY <1>0 DEF Held
  <2> HIDE DEF held
  <2> QED BY <1>3, <2>1, <2>2
<1>8. CASE AwardXp(r) \/ SetLevel(r)
  <2> DEFINE total == XpRow.total + call[r].amount
             write == [call[r] EXCEPT !.pc = "level", !.level = computeLevel(total)]
  <2>1. (To(r, AfterAward(call[r])) \/ To(r, write)) /\ failures' = failures
    BY <1>8 DEF AwardXp, SetLevel
  <2>2. CarriesOn(AfterAward(call[r]))
    BY <1>0, AfterAwardIsHeld
  <2> HIDE DEF total
  <2>3. CarriesOn(write)
    BY <1>0 DEF Held
  <2> HIDE DEF write
  <2> QED BY <1>3, <2>1, <2>2, <2>3
<1>9. CASE ReadMissions(r)
  <2> DEFINE todo == [m \in {m \in Missions :
                               /\ ~ mission[m].done
                               /\ nextMissionProgress(m, mission[m].progress, call[r])
                                    # mission[m].progress} |-> mission[m].progress]
             held == [call[r] EXCEPT !.pc = "mission", !.todo = todo]
  <2>1. To(r, held) /\ failures' = failures
    BY <1>9 DEF ReadMissions
  <2> HIDE DEF todo
  <2>2. CarriesOn(held)
    BY <1>0 DEF Held
  <2> HIDE DEF held
  <2> QED BY <1>3, <2>1, <2>2
<1>10. CASE ApplyMission(r)
  <2>1. PICK m \in DOMAIN call[r].todo :
          LET progress == nextMissionProgress(m, call[r].todo[m], call[r])
              rest == [k \in DOMAIN call[r].todo \ {m} |-> call[r].todo[k]]
              here == [call[r] EXCEPT !.todo = rest]
          IN  To(r, IF progress >= Target[m]
                    THEN [here EXCEPT !.pc = "award", !.mission = m, !.amount = Reward[m]]
                    ELSE here)
    BY <1>10 DEF ApplyMission
  <2> DEFINE rest == [k \in DOMAIN call[r].todo \ {m} |-> call[r].todo[k]]
             here == [call[r] EXCEPT !.todo = rest]
             pay == [here EXCEPT !.pc = "award", !.mission = m, !.amount = Reward[m]]
  <2>2. (To(r, pay) \/ To(r, here)) /\ failures' = failures
    BY <1>10, <2>1 DEF ApplyMission
  <2> HIDE DEF rest
  <2>3. call[r].pc = "mission"
    BY <1>10 DEF ApplyMission, At
  <2>4. CarriesOn(here) /\ CarriesOn(pay)
    BY <1>0, <2>3 DEF Held
  <2> HIDE DEF here, pay
  <2> QED BY <1>3, <2>2, <2>4
<1>11. CASE ReadBadges(r) \/ AwardBadge(r)
  <2>1. PICK badges : To(r, [call[r] EXCEPT !.pc = "badge", !.badges = badges])
    <3>1. CASE ReadBadges(r)
      BY <3>1 DEF ReadBadges
    <3>2. CASE AwardBadge(r)
      <4>1. PICK b \in call[r].badges : To(r, [call[r] EXCEPT !.badges = @ \ {b}])
        BY <3>2 DEF AwardBadge
      <4>2. call[r].pc = "badge"
        BY <3>2 DEF AwardBadge, At
      <4>3. [call[r] EXCEPT !.badges = @ \ {b}]
              = [call[r] EXCEPT !.pc = "badge", !.badges = call[r].badges \ {b}]
        BY <1>0, <4>2 DEF Held
      <4> QED BY <4>1, <4>3
    <3> QED BY <1>11, <3>1, <3>2
  <2> DEFINE held == [call[r] EXCEPT !.pc = "badge", !.badges = badges]
  <2>2. CarriesOn(held)
    BY <1>0 DEF Held
  <2>3. failures' = failures
    BY <1>11 DEF ReadBadges, AwardBadge
  <2> HIDE DEF held
  <2> QED BY <1>3, <2>1, <2>2, <2>3 DEF held
<1> QED BY <1>5, <1>6, <1>7, <1>8, <1>9, <1>10, <1>11 DEF recordActivity

LEMMA RequestRecords ==
    ASSUME GamificationAssumption, IInv, NEW r \in Requests, recordActivity(r),
           UNCHANGED <<cvars, avars>>
    PROVE  IInv'
<1>1. LearnerInv'
  BY LearnerActs DEF IInv
<1>2. ContentInv'
  BY ContentIdle DEF IInv
<1>3. PICK held \in Held :
        /\ To(r, held)
        /\ held.pc \notin {"pin", "create"}
        /\ failures' = failures + 1 \/ (failures' = failures /\ (WillLook(call[r]) => WillLook(held)))
  BY ActivityKeepsCaller DEF IInv
<1>4. failures \in Nat /\ completions \in Nat /\ row' = row /\ UNCHANGED <<attempts, completions>>
  BY LearnerTypes DEF IInv, CompletionInv, CompletionComing, cvars, avars
<1>5. CompletionInv'
  BY <1>3, <1>4, CompletionStep DEF IInv
<1> QED BY <1>1, <1>2, <1>5 DEF IInv

\* Rows are created, never undone: what authors do completes no lesson.
LEMMA RowsOfAuthoring ==
    ASSUME ContentAssumption, ContentInv, NEW a \in Authors, Authoring(a)
    PROVE  \A x \in Leaves : /\ row[x].there => row'[x].there
                             /\ row[x].there /\ row[x].deleted => row'[x].deleted
<1>1. CASE StructureEdit(a) \/ LeafEdit(a)
  <2>1. PICK x \in Rows : Create(x) \/ Delete(x) \/ Update(x)
    BY <1>1 DEF StructureEdit, LeafEdit, ContentAssumption
  <2>2. /\ \A y \in Rows : y # x => row'[y] = row[y]
        /\ row'[x].there
        /\ row[x].there /\ row[x].deleted => row'[x].deleted
    BY <2>1, RowWritten DEF ContentInv, ContentShape
  <2> QED BY <2>2 DEF ContentAssumption
<1>2. CASE row' = row
  BY <1>2
<1> QED BY <1>1, <1>2 DEF Authoring, snapshotIfPublished, ReadNumber, InsertVersion,
           publishCourse, BackfillVersions, AuthorStops

LEMMA AuthorsWork ==
    ASSUME AttemptsAssumption, ContentAssumption, GamificationAssumption, IInv,
           NEW a \in Authors, Authoring(a), UNCHANGED <<gvars, avars>>
    PROVE  IInv'
<1>1. ContentInv'
  BY ContentStructureEdit, ContentLeafEdit, ContentCheck, ContentReadNumber,
     ContentInsert, ContentPublish, ContentBackfill, ContentStops DEF IInv, Authoring
<1>2. UNCHANGED <<learner, call, ghosts, failures, day, attempts, completions>>
  BY DEF gvars, avars
<1>3. LearnerInv'
  BY <1>2, LearnerIdle DEF IInv
<1>4. \A x \in Exercises : /\ row[x].there => row'[x].there
                           /\ row[x].there /\ row[x].deleted => row'[x].deleted
  BY RowsOfAuthoring DEF IInv, AttemptsAssumption
<1>5. attempted' = attempted
  BY <1>2 DEF attempted
<1>6. Answered'
  BY <1>2, <1>4, <1>5 DEF IInv, CompletionInv, Answered
<1>7. CompletionComing'
  <2> SUFFICES ASSUME failures' = 0, LessonDone'
               PROVE  completions' > 0 \/ \E r \in Requests : WillLook(call'[r])
    BY <1>2 DEF IInv, CompletionInv, CompletionComing
  <2>1. /\ \E x \in Exercises : row'[x].there /\ ~row'[x].deleted
        /\ \A x \in Exercises : row'[x].there => ~row'[x].deleted /\ x \in attempted
    BY <1>5 DEF LessonDone, LessonExercises, Owned
  <2>2. \A x \in attempted : x \in Exercises /\ row[x].there
    BY DEF IInv, CompletionInv, Answered
  <2>3. LessonDone
    BY <1>4, <2>1, <2>2 DEF LessonDone, LessonExercises, Owned
  <2> QED BY <1>2, <2>3 DEF IInv, CompletionInv, CompletionComing
<1> QED BY <1>1, <1>3, <1>6, <1>7 DEF IInv, CompletionInv

LEMMA Starts == Init => IInv
<1> SUFFICES ASSUME Init PROVE IInv
  OBVIOUS
<1>1. ContentInv /\ LearnerInv
  BY ContentAssumption, GamificationAssumption, ContentStarts, LearnerStarts DEF Init
<1>2. attempted = {} /\ completions = 0 /\ \A r \in Requests : call[r].pc = "idle"
  BY BlankIsHeld DEF Init, GamificationInit, attempted
<1>3. CompletionInv
  BY <1>2 DEF CompletionInv, Answered, CompletionComing, LessonDone
<1> QED BY <1>1, <1>3 DEF IInv

LEMMA Kept == IInv /\ [Next]_vars => IInv'
<1> SUFFICES ASSUME IInv, [Next]_vars PROVE IInv'
  OBVIOUS
<1> USE AttemptsAssumption, ContentAssumption, GamificationAssumption
<1>1. ASSUME NEW a \in Authors, Authoring(a), UNCHANGED <<gvars, avars>> PROVE IInv'
  BY <1>1, AuthorsWork
<1>2. ASSUME NEW r \in Requests,
             \/ submitAttempt(r) \/ getCurrentVersionId(r) \/ CreateAttempt(r)
             \/ maybeEmitLessonCompleted(r) \/ RequestFails(r)
             \/ recordActivity(r) /\ UNCHANGED <<cvars, avars>>
      PROVE  IInv'
  BY <1>2, RequestSubmits, RequestPins, RequestCreates, RequestEmits, RequestStops, RequestRecords
<1>3. ASSUME UNCHANGED <<cvars, avars, learner, call, ghosts, failures>>,
             day' = day \/ day' = day + 1
      PROVE  IInv'
  <2>1. ContentInv' /\ LearnerInv'
    BY <1>3, ContentIdle, LearnerIdle DEF IInv
  <2>2. UNCHANGED <<row, attempts, completions, call, failures>>
    BY <1>3 DEF cvars, avars
  <2>3. attempted' = attempted /\ (LessonDone' <=> LessonDone)
    BY <2>2, LessonDoneStays
  <2>4. CompletionInv'
    BY <2>2, <2>3 DEF IInv, CompletionInv, Answered, CompletionComing
  <2> QED BY <2>1, <2>4 DEF IInv
<1>4. CASE NextDay /\ UNCHANGED <<cvars, avars>>
  BY <1>3, <1>4 DEF NextDay
<1>5. CASE UNCHANGED vars
  BY <1>3, <1>5 DEF vars, gvars
<1> QED BY <1>1, <1>2, <1>4, <1>5 DEF Next

\* A streak is backed by the days of activity it counts, however stale the row
\* an update was computed from.
THEOREM StreaksAreEarned == Spec => []StreakEarned
<1>1. IInv => StreakEarned
  BY DEF IInv, LearnerInv, StreaksEarned, Earned, StreakEarned
<1> QED BY <1>1, Starts, Kept, PTL DEF Spec

\* A level, written whenever the request gets to it, is never ahead of the XP.
THEOREM LevelsAreNeverAhead == Spec => []LevelNeverAhead
<1>1. IInv => LevelNeverAhead
  BY DEF IInv, LearnerInv, LevelsBehind, XpRow, LevelNeverAhead
<1> QED BY <1>1, Starts, Kept, PTL DEF Spec

\* When nothing runs and nothing failed, a mission that is done paid its reward.
THEOREM RewardsArePaid == Spec => []MissionRewarded
<1>1. IInv => MissionRewarded
  BY DEF IInv, LearnerInv, RewardsUnderWay, Quiet, At, MissionRewarded
<1> QED BY <1>1, Starts, Kept, PTL DEF Spec

\* When nothing runs and nothing failed, a lesson whose every exercise was
\* answered was announced, in whatever order the answers overlapped.
THEOREM CompletionsAreAnnounced == Spec => []CompletionNotLost
<1>1. IInv => CompletionNotLost
  BY DEF IInv, CompletionInv, CompletionComing, LessonDone, WillLook, Quiet, At, CompletionNotLost
<1> QED BY <1>1, Starts, Kept, PTL DEF Spec

-----------------------------------------------------------------------------
(* The placement test: the selector on the few answers a skill has.         *)

\* Where the selector stands: a band and a target, in quarters.
Standing == [band : 0..5, target : 0..4]

StandingAfter(answers, i) == Placement!computeRunningState(answers)[i]

\* The function the recursion defines is there, as long as it is written out.
LEMMA RunningState ==
    ASSUME NEW answers \in Seq(BOOLEAN), Len(answers) <= 4
    PROVE  /\ StandingAfter(answers, 0) = [band |-> 2, target |-> 2]
           /\ \A i \in 1..Len(answers) :
                StandingAfter(answers, i) =
                    Placement!AfterAnswer(StandingAfter(answers, i - 1), answers[i])
<1> DEFINE first == [band |-> 2, target |-> 2]
           second == Placement!AfterAnswer(first, answers[1])
           third == Placement!AfterAnswer(second, answers[2])
           fourth == Placement!AfterAnswer(third, answers[3])
           fifth == Placement!AfterAnswer(fourth, answers[4])
           state == [i \in 0..Len(answers) |->
                       IF i = 0 THEN first ELSE IF i = 1 THEN second ELSE IF i = 2 THEN third
                       ELSE IF i = 3 THEN fourth ELSE fifth]
<1>1. Len(answers) \in Nat
  OBVIOUS
<1>2. state = [i \in 0..Len(answers) |->
                 IF i = 0 THEN first ELSE Placement!AfterAnswer(state[i - 1], answers[i])]
  BY <1>1
<1>3. Placement!computeRunningState(answers) =
        [i \in 0..Len(answers) |->
           IF i = 0 THEN first
           ELSE Placement!AfterAnswer(Placement!computeRunningState(answers)[i - 1], answers[i])]
  BY <1>2 DEF Placement!computeRunningState, Placement!StartBand
<1> HIDE DEF state, second, third, fourth, fifth
<1>4. 0 \in 0..Len(answers) /\ \A i \in 1..Len(answers) : i \in 0..Len(answers) /\ i # 0
  BY <1>1
<1> QED BY <1>3, <1>4 DEF StandingAfter

\* One answer from a standing that is none of the two ends of all bands.
LEMMA OneAnswer ==
    ASSUME NEW s \in Standing, NEW c \in BOOLEAN
    PROVE  /\ Placement!AfterAnswer(s, c) \in Standing
           /\ c /\ s.target < 4 => Placement!AfterAnswer(s, c) = [band |-> s.band, target |-> s.target + 1]
           /\ ~ c /\ s.target > 0 => Placement!AfterAnswer(s, c) = [band |-> s.band, target |-> s.target - 1]
           /\ c /\ s.target = 4 /\ s.band < 5 =>
                Placement!AfterAnswer(s, c) = [band |-> s.band + 1, target |-> 1]
           /\ ~ c /\ s.target = 0 /\ s.band > 0 =>
                Placement!AfterAnswer(s, c) = [band |-> s.band - 1, target |-> 3]
  BY DEF Placement!AfterAnswer, Standing

Stands(band, target) == [band |-> band, target |-> target]

\* All three alike.
Alike(answers) == answers[1] = answers[2] /\ answers[2] = answers[3]

\* Where up to four answers lead: the band moves with a third equal one only.
LEMMA FourAnswers ==
    ASSUME NEW answers \in Seq(BOOLEAN), Len(answers) <= 4
    PROVE  /\ \A i \in 0..Len(answers) : /\ StandingAfter(answers, i).band \in 1..3
                                         /\ StandingAfter(answers, i).target \in 0..4
           /\ Len(answers) >= 3 =>
                /\ StandingAfter(answers, 2).band = 2
                /\ StandingAfter(answers, 3).band # 2 <=> Alike(answers)
           /\ Len(answers) >= 4 => StandingAfter(answers, 4).band = StandingAfter(answers, 3).band
<1> DEFINE n == Len(answers)
<1>1. n \in Nat /\ \A i \in 1..n : answers[i] \in BOOLEAN
  OBVIOUS
<1>2. \A i \in 1..n : StandingAfter(answers, i) =
        Placement!AfterAnswer(StandingAfter(answers, i - 1), answers[i])
  BY RunningState
<1>3. \A band \in 0..5, target \in 0..4 :
        /\ Stands(band, target) \in Standing
        /\ Stands(band, target).band = band /\ Stands(band, target).target = target
  BY DEF Stands, Standing
<1>4. \A band \in 1..4, target \in 0..4, c \in BOOLEAN :
        Placement!AfterAnswer(Stands(band, target), c) =
          IF c THEN IF target < 4 THEN Stands(band, target + 1) ELSE Stands(band + 1, 1)
               ELSE IF target > 0 THEN Stands(band, target - 1) ELSE Stands(band - 1, 3)
  <2>1. SUFFICES ASSUME NEW band \in 1..4, NEW target \in 0..4, NEW c \in BOOLEAN
                 PROVE  Placement!AfterAnswer(Stands(band, target), c) =
                          IF c THEN IF target < 4 THEN Stands(band, target + 1) ELSE Stands(band + 1, 1)
                               ELSE IF target > 0 THEN Stands(band, target - 1) ELSE Stands(band - 1, 3)
    OBVIOUS
  <2>2. band \in 0..5 /\ band < 5 /\ band > 0
    OBVIOUS
  <2>3. Stands(band, target) \in Standing /\ Stands(band, target).band = band
        /\ Stands(band, target).target = target
    BY <1>3, <2>2
  <2>4. target < 4 \/ target = 4
    OBVIOUS
  <2>5. target > 0 \/ target = 0
    OBVIOUS
  <2>6. CASE c
    BY <2>2, <2>3, <2>4, <2>6, OneAnswer DEF Stands
  <2>7. CASE ~ c
    BY <2>2, <2>3, <2>5, <2>7, OneAnswer DEF Stands
  <2> QED BY <2>6, <2>7
<1>5. StandingAfter(answers, 0) = Stands(2, 2)
  BY RunningState DEF Stands
<1>6. n >= 1 => StandingAfter(answers, 1) = Stands(2, IF answers[1] THEN 3 ELSE 1)
  <2>1. ASSUME n >= 1
        PROVE  StandingAfter(answers, 1) = Placement!AfterAnswer(Stands(2, 2), answers[1])
    BY <1>1, <1>2, <1>5, <2>1
  <2> QED BY <1>1, <1>4, <2>1
<1>7. n >= 2 => StandingAfter(answers, 2) =
        Stands(2, IF answers[1] # answers[2] THEN 2 ELSE IF answers[1] THEN 4 ELSE 0)
  <2>1. ASSUME n >= 2
        PROVE  StandingAfter(answers, 2) =
                 Placement!AfterAnswer(Stands(2, IF answers[1] THEN 3 ELSE 1), answers[2])
    BY <1>1, <1>2, <1>6, <2>1
  <2> QED BY <1>1, <1>4, <2>1
<1>8. n >= 3 => StandingAfter(answers, 3) =
        IF answers[1] = answers[2] /\ answers[2] = answers[3]
        THEN IF answers[1] THEN Stands(3, 1) ELSE Stands(1, 3)
        ELSE Stands(2, IF answers[1] # answers[2] THEN IF answers[3] THEN 3 ELSE 1
                       ELSE IF answers[1] THEN 3 ELSE 1)
  <2>1. ASSUME n >= 3
        PROVE  StandingAfter(answers, 3) =
                 Placement!AfterAnswer(
                   Stands(2, IF answers[1] # answers[2] THEN 2 ELSE IF answers[1] THEN 4 ELSE 0),
                   answers[3])
    BY <1>1, <1>2, <1>7, <2>1
  <2> QED BY <1>1, <1>4, <2>1
<1>9. n >= 4 => /\ StandingAfter(answers, 4).band = StandingAfter(answers, 3).band
                /\ StandingAfter(answers, 4).target \in 0..4
  <2>1. ASSUME n >= 4
        PROVE  StandingAfter(answers, 4) =
                 Placement!AfterAnswer(StandingAfter(answers, 3), answers[4])
    BY <1>1, <1>2, <2>1
  <2>2. ASSUME n >= 3
        PROVE  \E band \in 1..3, target \in {1, 3} : StandingAfter(answers, 3) = Stands(band, target)
    BY <1>1, <1>8, <2>2
  <2> QED BY <1>1, <1>3, <1>4, <2>1, <2>2
<1>10. n >= 2 => StandingAfter(answers, 2).band = 2 /\ StandingAfter(answers, 2).target \in 0..4
  BY <1>3, <1>7
<1>11. n >= 3 => /\ StandingAfter(answers, 3).band # 2 <=> Alike(answers)
                 /\ StandingAfter(answers, 3).band \in 1..3
                 /\ StandingAfter(answers, 3).target \in 0..4
  <2>1. CASE Alike(answers)
    BY <1>1, <1>3, <1>8, <2>1 DEF Alike
  <2>2. CASE ~ Alike(answers)
    BY <1>1, <1>3, <1>8, <2>2 DEF Alike
  <2> QED BY <2>1, <2>2
<1>12. n >= 1 => StandingAfter(answers, 1).band = 2 /\ StandingAfter(answers, 1).target \in 0..4
  BY <1>3, <1>6
<1>13. StandingAfter(answers, 0).band = 2 /\ StandingAfter(answers, 0).target = 2
  BY <1>3, <1>5
<1>14. ASSUME NEW i \in 0..n
       PROVE  StandingAfter(answers, i).band \in 1..3 /\ StandingAfter(answers, i).target \in 0..4
  <2>1. i \in {0, 1, 2, 3, 4}
    BY <1>1
  <2> QED BY <1>1, <1>9, <1>10, <1>11, <1>12, <1>13, <2>1
<1> QED BY <1>1, <1>9, <1>10, <1>11, <1>14

\* A skill has answers enough with a third one that differs, and with a fourth.
Enough(answers) == Len(answers) >= 4 \/ (Len(answers) = 3 /\ ~ Alike(answers))

LEMMA EnoughAnswers ==
    ASSUME NEW answers \in Seq(BOOLEAN)
    PROVE  Enough(answers) <=> (Len(answers) >= 5 \/ Placement!hasStabilized(answers))
<1> DEFINE n == Len(answers)
<1>1. n \in Nat
  OBVIOUS
<1>2. Placement!hasStabilized(answers) <=>
        n > 2 /\ \A i \in (n - 1)..n : StandingAfter(answers, i).band = StandingAfter(answers, n).band
  BY <1>1 DEF Placement!hasStabilized, Placement!StabilizeStreak, StandingAfter
<1>3. Placement!hasStabilized(answers) <=>
        n > 2 /\ StandingAfter(answers, n - 1).band = StandingAfter(answers, n).band
  <2>1. n > 2 => \A i \in (n - 1)..n : i = n - 1 \/ i = n
    BY <1>1
  <2>2. n > 2 => n - 1 \in (n - 1)..n /\ n \in (n - 1)..n
    BY <1>1
  <2> QED BY <1>2, <2>1, <2>2
<1>4. CASE n <= 2
  <2>1. ~ (n >= 5) /\ ~ (n > 2) /\ ~ (n >= 4) /\ ~ (n = 3)
    BY <1>1, <1>4
  <2> QED BY <1>3, <2>1 DEF Enough
<1>5. CASE n = 3
  <2>1. n - 1 = 2 /\ n <= 4 /\ n >= 3
    BY <1>5
  <2>2. StandingAfter(answers, 2).band = 2 /\ (StandingAfter(answers, 3).band # 2 <=> Alike(answers))
    BY <2>1, FourAnswers
  <2> QED BY <1>3, <1>5, <2>1, <2>2 DEF Enough
<1>6. CASE n = 4
  <2>1. n - 1 = 3 /\ n <= 4
    BY <1>6
  <2>2. StandingAfter(answers, 4).band = StandingAfter(answers, 3).band
    BY <1>6, <2>1, FourAnswers
  <2>3. n > 2 /\ n >= 4
    BY <1>6
  <2>4. Placement!hasStabilized(answers)
    BY <1>3, <1>6, <2>1, <2>2, <2>3
  <2>5. Enough(answers)
    BY <2>3 DEF Enough
  <2> QED BY <2>4, <2>5
<1>7. CASE n >= 5
  <2>1. n >= 4
    BY <1>1, <1>7
  <2>2. Enough(answers)
    BY <2>1 DEF Enough
  <2> QED BY <1>7, <2>2
<1>8. n <= 2 \/ n = 3 \/ n = 4 \/ n >= 5
  <2> HIDE DEF n
  <2> QED BY <1>1
<1> QED BY <1>4, <1>5, <1>6, <1>7, <1>8

\* The least-number principle, for a set.
Smaller == {p \in Nat \X Nat : p[1] < p[2]}

LEMMA LeastOf ==
    ASSUME NEW T \in SUBSET Nat, T # {}
    PROVE  \E n \in T : \A m \in T : n <= m
<1>1. Smaller = OpToRel(<, Nat)
  BY DEF Smaller, OpToRel
<1>2. IsWellFoundedOn(Smaller, Nat)
  BY ONLY <1>1, NatLessThanWellFounded, Zenon
<1>3. PICK n \in T : \A m \in T : ~(<<m, n>> \in Smaller)
  BY <1>2, WFMin
<1>4. \A m \in T : ~ (m < n)
  BY <1>3 DEF Smaller
<1> QED BY <1>4

\* Of items left, one is closest.
LEMMA SomeAreClosest ==
    ASSUME Placement!AssessmentBounds, NEW items \in SUBSET Items, items # {},
           NEW s, s.band \in Nat, s.target \in Nat
    PROVE  Placement!Closest(items, s) # {}
<1>1. \A i \in items : BandOf[i] \in Nat /\ DifficultyOf[i] \in Nat
  BY DEF Placement!AssessmentBounds, Placement!Bands
<1>2. \A a, b \in Nat : Placement!Gap(a, b) \in Nat
  BY DEF Placement!Gap
<1>3. ASSUME NEW among \in SUBSET items, among # {},
             NEW f, \A i \in among : f[i] \in Nat
      PROVE  \E i \in among : \A j \in among : f[i] <= f[j]
  <2> DEFINE values == {f[i] : i \in among}
  <2>1. values \in SUBSET Nat /\ values # {}
    BY <1>3
  <2> HIDE DEF values
  <2>2. PICK v \in values : \A w \in values : v <= w
    BY <2>1, LeastOf
  <2> QED BY <2>2 DEF values
<1> DEFINE byBand == [i \in items |-> Placement!Gap(BandOf[i], s.band)]
           near == {i \in items : \A j \in items :
                      Placement!Gap(BandOf[i], s.band) <= Placement!Gap(BandOf[j], s.band)}
           byTarget == [i \in near |-> Placement!Gap(DifficultyOf[i], s.target)]
<1>4. near # {}
  <2>1. \A i \in items : byBand[i] \in Nat
    BY <1>1, <1>2
  <2>2. \E i \in items : \A j \in items : byBand[i] <= byBand[j]
    <3> HIDE DEF byBand
    <3> QED BY <1>3, <2>1
  <2> QED BY <2>2
<1>5. \E i \in near : \A j \in near : byTarget[i] <= byTarget[j]
  <2>1. \A i \in near : byTarget[i] \in Nat
    BY <1>1, <1>2
  <2>2. near \in SUBSET items
    OBVIOUS
  <2> HIDE DEF near, byTarget
  <2> QED BY <1>3, <1>4, <2>1, <2>2
<1> QED BY <1>5 DEF Placement!Closest

-----------------------------------------------------------------------------
(* The answers of a skill among those of an attempt.                        *)

AnswerRow == [item : Items, correct : BOOLEAN]

\* The rows of the skill, after each prefix of n rows.
Picks(given, rows, s, n) ==
    given = [i \in 0..n |->
               IF i = 0 THEN <<>>
               ELSE IF SkillOf[rows[i].item] = s THEN Append(given[i - 1], rows[i]) ELSE given[i - 1]]

LEMMA PicksAre ==
    ASSUME NEW n \in Nat, NEW given, NEW rows, NEW s, Picks(given, rows, s, n)
    PROVE  /\ given[0] = <<>>
           /\ \A i \in 1..n : given[i] = IF SkillOf[rows[i].item] = s
                                         THEN Append(given[i - 1], rows[i]) ELSE given[i - 1]
<1>1. 0 \in 0..n /\ \A i \in 1..n : i \in 0..n /\ i # 0
  OBVIOUS
<1>2. \A i \in 0..n : given[i] =
        IF i = 0 THEN <<>>
        ELSE IF SkillOf[rows[i].item] = s THEN Append(given[i - 1], rows[i]) ELSE given[i - 1]
  BY DEF Picks
<1> QED BY <1>1, <1>2

LEMMA PicksExist ==
    ASSUME NEW n \in Nat, NEW rows, NEW s
    PROVE  \E given : Picks(given, rows, s, n)
<1> DEFINE without == {m \in Nat : ~ \E given : Picks(given, rows, s, m)}
<1>1. ASSUME without # {} PROVE FALSE
  <2>1. PICK m \in without : \A k \in without : m <= k
    <3>1. without \in SUBSET Nat
      OBVIOUS
    <3> HIDE DEF without
    <3> QED BY <1>1, <3>1, LeastOf
  <2>2. CASE m = 0
    <3> DEFINE given == [i \in 0..0 |-> <<>>]
    <3>1. Picks(given, rows, s, 0)
      BY DEF Picks
    <3> QED BY <2>1, <2>2, <3>1
  <2>3. CASE m # 0
    <3>1. m - 1 \in Nat /\ ~ (m <= m - 1)
      BY <2>1, <2>3
    <3>2. PICK given : Picks(given, rows, s, m - 1)
      BY <2>1, <3>1
    <3> DEFINE last == IF SkillOf[rows[m].item] = s THEN Append(given[m - 1], rows[m]) ELSE given[m - 1]
               longer == [i \in 0..m |-> IF i = m THEN last ELSE given[i]]
    <3>3. /\ given[0] = <<>>
          /\ \A i \in 1..m - 1 : given[i] = IF SkillOf[rows[i].item] = s
                                            THEN Append(given[i - 1], rows[i]) ELSE given[i - 1]
      BY <3>1, <3>2, PicksAre
    <3>4. /\ longer[m] = last /\ \A i \in 0..m - 1 : longer[i] = given[i]
          /\ m \in Nat
      BY <2>1, <2>3
    <3>5. ASSUME NEW i \in 0..m
          PROVE  longer[i] = IF i = 0 THEN <<>>
                             ELSE IF SkillOf[rows[i].item] = s
                                  THEN Append(longer[i - 1], rows[i]) ELSE longer[i - 1]
      <4> HIDE DEF longer
      <4>1. CASE i = 0
        BY <2>3, <3>3, <3>4, <4>1
      <4>2. CASE i = m
        <5>1. m - 1 \in 0..m - 1
          BY <3>1
        <5> QED BY <2>3, <3>4, <4>2, <5>1
      <4>3. CASE i # 0 /\ i # m
        <5>1. i \in 1..m - 1 /\ i - 1 \in 0..m - 1 /\ i \in 0..m - 1
          BY <3>4, <4>3
        <5> QED BY <3>3, <3>4, <4>3, <5>1
      <4> QED BY <4>1, <4>2, <4>3
    <3>6. Picks(longer, rows, s, m)
      <4>1. longer = [i \in 0..m |-> longer[i]]
        OBVIOUS
      <4> HIDE DEF longer
      <4> QED BY <3>5, <4>1 DEF Picks
    <3> QED BY <2>1, <3>6
  <2> QED BY <2>2, <2>3
<1> QED BY <1>1

LEMMA InSkillPicks ==
    ASSUME NEW rows, Len(rows) \in Nat, NEW s
    PROVE  \E given : Picks(given, rows, s, Len(rows)) /\ Placement!InSkill(rows, s) = given[Len(rows)]
<1>1. \E given : given = [i \in 0..Len(rows) |->
                            IF i = 0 THEN <<>>
                            ELSE IF SkillOf[rows[i].item] = s THEN Append(given[i - 1], rows[i])
                                 ELSE given[i - 1]]
  <2>1. PICK given : Picks(given, rows, s, Len(rows))
    BY PicksExist
  <2>2. given = [i \in 0..Len(rows) |->
                   IF i = 0 THEN <<>>
                   ELSE IF SkillOf[rows[i].item] = s THEN Append(given[i - 1], rows[i])
                        ELSE given[i - 1]]
    BY <2>1 DEF Picks
  <2> QED BY <2>2
<1> DEFINE made == CHOOSE given : given = [i \in 0..Len(rows) |->
                            IF i = 0 THEN <<>>
                            ELSE IF SkillOf[rows[i].item] = s THEN Append(given[i - 1], rows[i])
                                 ELSE given[i - 1]]
<1>2. Picks(made, rows, s, Len(rows))
  BY <1>1 DEF Picks
<1>3. Placement!InSkill(rows, s) = made[Len(rows)]
  BY DEF Placement!InSkill
<1> QED BY <1>2, <1>3

\* What is picked from a prefix does not depend on what follows.
LEMMA PicksAgree ==
    ASSUME NEW n \in Nat, NEW m \in Nat, n <= m, NEW rows, NEW more, NEW s, NEW given, NEW longer,
           Picks(given, rows, s, n), Picks(longer, more, s, m), \A i \in 1..n : more[i] = rows[i]
    PROVE  \A i \in 0..n : longer[i] = given[i]
<1> DEFINE apart == {i \in 0..n : longer[i] # given[i]}
<1>1. ASSUME apart # {} PROVE FALSE
  <2>1. PICK i \in apart : \A k \in apart : i <= k
    <3>1. apart \in SUBSET Nat
      OBVIOUS
    <3> HIDE DEF apart
    <3> QED BY <1>1, <3>1, LeastOf
  <2>2. i # 0
    BY <2>1, PicksAre
  <2>3. i \in 1..n /\ i \in 1..m /\ i - 1 \in 0..n /\ ~ (i <= i - 1)
    BY <2>1, <2>2
  <2>4. longer[i - 1] = given[i - 1]
    BY <2>1, <2>3
  <2>5. /\ given[i] = IF SkillOf[rows[i].item] = s
                      THEN Append(given[i - 1], rows[i]) ELSE given[i - 1]
        /\ longer[i] = IF SkillOf[more[i].item] = s
                       THEN Append(longer[i - 1], more[i]) ELSE longer[i - 1]
    BY <2>3, PicksAre
  <2> QED BY <2>1, <2>3, <2>4, <2>5
<1> QED BY <1>1

LEMMA InSkillGrows ==
    ASSUME NEW rows \in Seq(AnswerRow), NEW w \in AnswerRow, NEW s
    PROVE  Placement!InSkill(Append(rows, w), s) =
             IF SkillOf[w.item] = s THEN Append(Placement!InSkill(rows, s), w)
             ELSE Placement!InSkill(rows, s)
<1> DEFINE more == Append(rows, w)
           n == Len(rows)
<1>1. /\ n \in Nat /\ Len(more) = n + 1 /\ more[n + 1] = w
      /\ \A i \in 1..n : more[i] = rows[i]
  OBVIOUS
<1>2. PICK given : Picks(given, rows, s, n) /\ Placement!InSkill(rows, s) = given[n]
  BY <1>1, InSkillPicks
<1> HIDE DEF more
<1>3. PICK longer : Picks(longer, more, s, n + 1) /\ Placement!InSkill(more, s) = longer[n + 1]
  <2>1. Len(more) \in Nat
    BY <1>1
  <2> QED BY <1>1, <2>1, InSkillPicks
<1> HIDE DEF n
<1>4. longer[n] = given[n]
  BY <1>1, <1>2, <1>3, PicksAgree
<1>5. longer[n + 1] = IF SkillOf[more[n + 1].item] = s
                      THEN Append(longer[n + 1 - 1], more[n + 1]) ELSE longer[n + 1 - 1]
  BY <1>1, <1>3, PicksAre
<1>6. n + 1 - 1 = n
  BY <1>1
<1>7. Placement!InSkill(more, s) =
        IF SkillOf[w.item] = s THEN Append(Placement!InSkill(rows, s), w)
        ELSE Placement!InSkill(rows, s)
  BY <1>1, <1>2, <1>3, <1>4, <1>5, <1>6
<1> QED BY <1>7 DEF more

LEMMA InSkillOfNone == \A s : Placement!InSkill(<<>>, s) = <<>>
<1>1. ASSUME NEW s PROVE Placement!InSkill(<<>>, s) = <<>>
  <2>1. Len(<<>>) = 0
    OBVIOUS
  <2>2. PICK given : Picks(given, <<>>, s, 0) /\ Placement!InSkill(<<>>, s) = given[0]
    BY <2>1, InSkillPicks
  <2> QED BY <2>2, PicksAre
<1> QED BY <1>1

\* Answers, row by row; a writing answer counts as wrong.
LEMMA AnswersAre ==
    ASSUME NEW rows, NEW s, Placement!InSkill(rows, s) \in Seq(AnswerRow)
    PROVE  /\ Placement!Answers(rows, s) \in Seq(BOOLEAN)
           /\ Len(Placement!Answers(rows, s)) = Len(Placement!InSkill(rows, s))
           /\ \A i \in 1..Len(Placement!InSkill(rows, s)) :
                Placement!Answers(rows, s)[i] <=>
                  s # "WRITING" /\ Placement!InSkill(rows, s)[i].correct
<1>1. PICK given \in Seq(AnswerRow) : given = Placement!InSkill(rows, s)
  OBVIOUS
<1> DEFINE answers == [i \in 1..Len(given) |-> s # "WRITING" /\ given[i].correct]
<1>2. Placement!Answers(rows, s) = answers
  BY <1>1 DEF Placement!Answers
<1>3. Len(given) \in Nat /\ \A i \in 1..Len(given) : (s # "WRITING" /\ given[i].correct) \in BOOLEAN
  OBVIOUS
<1>4. answers \in Seq(BOOLEAN) /\ Len(answers) = Len(given)
  BY <1>3
<1>5. \A i \in 1..Len(given) : answers[i] <=> s # "WRITING" /\ given[i].correct
  OBVIOUS
<1> QED BY <1>1, <1>2, <1>4, <1>5

\* One more answer of the skill comes last; one of another skill leaves it alone.
LEMMA AnswersGrow ==
    ASSUME NEW rows \in Seq(AnswerRow), NEW w \in AnswerRow, NEW s,
           Placement!InSkill(rows, s) \in Seq(AnswerRow)
    PROVE  LET before == Placement!Answers(rows, s)
               after == Placement!Answers(Append(rows, w), s)
           IN  /\ Placement!InSkill(Append(rows, w), s) \in Seq(AnswerRow)
               /\ after \in Seq(BOOLEAN) /\ before \in Seq(BOOLEAN)
               /\ SkillOf[w.item] # s => after = before
               /\ SkillOf[w.item] = s =>
                    /\ Len(after) = Len(before) + 1
                    /\ \A i \in 1..Len(before) : after[i] = before[i]
<1>1. PICK given \in Seq(AnswerRow) : given = Placement!InSkill(rows, s)
  OBVIOUS
<1>2. PICK more \in Seq(AnswerRow) :
        /\ more = Placement!InSkill(Append(rows, w), s)
        /\ more = IF SkillOf[w.item] = s THEN Append(given, w) ELSE given
  BY <1>1, InSkillGrows
<1> DEFINE before == Placement!Answers(rows, s)
           after == Placement!Answers(Append(rows, w), s)
<1>3. /\ before \in Seq(BOOLEAN) /\ Len(before) = Len(given)
      /\ \A i \in 1..Len(given) : before[i] <=> s # "WRITING" /\ given[i].correct
  BY <1>1, AnswersAre
<1>4. /\ after \in Seq(BOOLEAN) /\ Len(after) = Len(more)
      /\ \A i \in 1..Len(more) : after[i] <=> s # "WRITING" /\ more[i].correct
  BY <1>2, AnswersAre
<1>5. SkillOf[w.item] # s => after = before
  BY <1>1, <1>2 DEF Placement!Answers
<1> HIDE DEF before, after
<1>6. ASSUME SkillOf[w.item] = s
      PROVE  /\ Len(after) = Len(before) + 1
             /\ \A i \in 1..Len(before) : after[i] = before[i]
  <2>1. Len(more) = Len(given) + 1 /\ \A i \in 1..Len(given) : more[i] = given[i]
    BY <1>2, <1>6
  <2>2. \A i \in 1..Len(before) : i \in 1..Len(given) /\ i \in 1..Len(more)
    BY <1>3, <2>1
  <2>3. \A i \in 1..Len(before) : before[i] \in BOOLEAN /\ after[i] \in BOOLEAN
    BY <1>3, <1>4, <2>2
  <2>4. \A i \in 1..Len(before) : before[i] <=> after[i]
    BY <1>3, <1>4, <2>1, <2>2
  <2> QED BY <1>3, <1>4, <2>1, <2>3, <2>4
<1>7. more \in Seq(AnswerRow)
  OBVIOUS
<1> QED BY <1>2, <1>3, <1>4, <1>5, <1>6 DEF before, after

-----------------------------------------------------------------------------
(* What is left to serve.                                                   *)

Left(rows, s) == {i \in Items : SkillOf[i] = s} \ Placement!Answered(rows)

Over(rows) == Placement!computeNextServableItem(rows) = {}

LEMMA ServedWhenOpen ==
    ASSUME NEW rows, NEW s, Placement!InSkill(rows, s) \in Seq(AnswerRow)
    PROVE  /\ Placement!Servable(rows, s) = {} <=>
                Enough(Placement!Answers(rows, s)) \/ Left(rows, s) = {}
           /\ Placement!Servable(rows, s) \subseteq Left(rows, s)
<1> DEFINE answers == Placement!Answers(rows, s)
           standing == StandingAfter(answers, Len(answers))
<1>1. answers \in Seq(BOOLEAN)
  BY AnswersAre
<1>2. Placement!Servable(rows, s) =
        IF Len(answers) >= 5 \/ Placement!hasStabilized(answers) THEN {}
        ELSE Placement!Closest(Left(rows, s), standing)
  BY DEF Placement!Servable, Placement!selectNext, Placement!MaxItemsPerSkill, Left, StandingAfter
<1>3. \A items, t : Placement!Closest(items, t) \subseteq items
  BY DEF Placement!Closest
<1>4. ASSUME ~ Enough(answers), Left(rows, s) # {}
      PROVE  Placement!Closest(Left(rows, s), standing) # {}
  <2>1. Len(answers) <= 4
    BY <1>1, <1>4 DEF Enough
  <2>2. standing.band \in Nat /\ standing.target \in Nat
    <3>1. Len(answers) \in 0..Len(answers)
      BY <1>1
    <3>2. standing.band \in 1..3 /\ standing.target \in 0..4
      BY <1>1, <2>1, <3>1, FourAnswers
    <3> QED BY <3>2
  <2>3. Left(rows, s) \in SUBSET Items
    BY DEF Left
  <2> HIDE DEF standing
  <2> QED BY <1>4, <2>2, <2>3, SomeAreClosest, PlacementAssumption
<1> HIDE DEF answers, standing
<1>5. (Len(answers) >= 5 \/ Placement!hasStabilized(answers)) <=> Enough(answers)
  BY <1>1, EnoughAnswers
<1>6. CASE Enough(answers)
  BY <1>2, <1>5, <1>6 DEF answers
<1>7. CASE ~ Enough(answers)
  <2>1. Placement!Servable(rows, s) = Placement!Closest(Left(rows, s), standing)
    BY <1>2, <1>5, <1>7
  <2>2. Left(rows, s) = {} => Placement!Servable(rows, s) = {}
    BY <1>3, <2>1
  <2>3. Left(rows, s) # {} => Placement!Servable(rows, s) # {}
    BY <1>4, <1>7, <2>1
  <2> QED BY <1>3, <1>7, <2>1, <2>2, <2>3 DEF answers
<1> QED BY <1>6, <1>7

LEMMA OverWhenAllDone ==
    ASSUME NEW rows
    PROVE  /\ Over(rows) <=> \A k \in DOMAIN Skills : Placement!Servable(rows, Skills[k]) = {}
           /\ \A i \in Placement!computeNextServableItem(rows) :
                \E k \in DOMAIN Skills : i \in Placement!Servable(rows, Skills[k])
<1> DEFINE open == {k \in DOMAIN Skills : Placement!Servable(rows, Skills[k]) # {}}
           first == CHOOSE k \in open : \A j \in open : k <= j
<1>1. Placement!computeNextServableItem(rows) =
        IF open = {} THEN {} ELSE Placement!Servable(rows, Skills[first])
  BY DEF Placement!computeNextServableItem
<1>2. open # {} => first \in open
  <2>1. open \in SUBSET Nat
    BY PlacementAssumption DEF Placement!AssessmentBounds
  <2> HIDE DEF open
  <2>2. open # {} => \E k \in open : \A j \in open : k <= j
    BY <2>1, LeastOf
  <2> QED BY <2>2
<1> HIDE DEF first
<1> QED BY <1>1, <1>2 DEF Over

\* A skill that is done stays done, whatever is stored behind its last answer.
LEMMA DoneStays ==
    ASSUME NEW rows \in Seq(AnswerRow), NEW w \in AnswerRow, NEW s,
           Placement!InSkill(rows, s) \in Seq(AnswerRow), Placement!Servable(rows, s) = {}
    PROVE  Placement!Servable(Append(rows, w), s) = {}
<1> DEFINE before == Placement!Answers(rows, s)
           after == Placement!Answers(Append(rows, w), s)
<1>1. Enough(before) \/ Left(rows, s) = {}
  BY ServedWhenOpen
<1>2. /\ Placement!InSkill(Append(rows, w), s) \in Seq(AnswerRow)
      /\ after \in Seq(BOOLEAN) /\ before \in Seq(BOOLEAN)
      /\ SkillOf[w.item] # s => after = before
      /\ SkillOf[w.item] = s => Len(after) = Len(before) + 1
  BY AnswersGrow
<1> HIDE DEF before, after
<1>3. Enough(before) => Enough(after)
  <2>1. CASE SkillOf[w.item] # s
    BY <1>2, <2>1
  <2>2. CASE SkillOf[w.item] = s
    <3>1. PICK n \in Nat : n = Len(before) /\ n + 1 = Len(after)
      BY <1>2, <2>2
    <3>2. Enough(before) => n >= 3
      BY <3>1 DEF Enough
    <3> QED BY <3>1, <3>2 DEF Enough
  <2> QED BY <2>1, <2>2
<1>4. Left(Append(rows, w), s) \subseteq Left(rows, s)
  <2>1. \A i \in 1..Len(rows) : i \in 1..Len(Append(rows, w)) /\ Append(rows, w)[i] = rows[i]
    OBVIOUS
  <2>2. DOMAIN rows = 1..Len(rows) /\ DOMAIN Append(rows, w) = 1..Len(Append(rows, w))
    OBVIOUS
  <2>3. Placement!Answered(rows) \subseteq Placement!Answered(Append(rows, w))
    BY <2>1, <2>2 DEF Placement!Answered
  <2> QED BY <2>3 DEF Left
<1>5. Enough(after) \/ Left(Append(rows, w), s) = {}
  BY <1>1, <1>3, <1>4
<1> QED BY <1>2, <1>5, ServedWhenOpen DEF after

LEMMA OverStays ==
    ASSUME NEW rows \in Seq(AnswerRow), NEW w \in AnswerRow, Over(rows),
           \A s \in Placement!SkillSet : Placement!InSkill(rows, s) \in Seq(AnswerRow)
    PROVE  Over(Append(rows, w))
<1>1. ASSUME NEW k \in DOMAIN Skills PROVE Placement!Servable(Append(rows, w), Skills[k]) = {}
  <2>1. Skills[k] \in Placement!SkillSet
    BY DEF Placement!SkillSet
  <2>2. Placement!Servable(rows, Skills[k]) = {}
    BY OverWhenAllDone
  <2> QED BY <2>1, <2>2, DoneStays
<1> QED BY <1>1, OverWhenAllDone

-----------------------------------------------------------------------------
(* The invariant of an attempt.                                             *)

Result(rows) == Placement!computeProficiencyResults(rows)

Results == {Result(rows) : rows \in Seq(AnswerRow)} \cup {[s \in {} |-> 0]}

TestCall == [pc : {"idle", "create", "save", "commit", "publish"}, type : {"PLACEMENT", "REASSESSMENT"},
             attempt : Attempts \cup {NoAttempt}, item : Items \cup {NoAttempt}, correct : BOOLEAN,
             result : Results]

TestShape ==
    /\ status \in [Attempts -> {"none", "IN_PROGRESS", "COMPLETED"}]
    /\ responses \in [Attempts -> Seq(AnswerRow)]
    /\ replies = [a \in Attempts |-> replies[a]]
    /\ late \in [Attempts -> Nat]
    /\ req \in [Requests -> TestCall]

RowsOfSkills ==
    \A a \in Attempts, s \in Placement!SkillSet : Placement!InSkill(responses[a], s) \in Seq(AnswerRow)

\* While no answer was late, a fourth in a skill came only after three alike.
ServedOnly(a) ==
    late[a] = 0 =>
        \A s \in Placement!SkillSet :
            LET answers == Placement!Answers(responses[a], s)
            IN  Len(answers) <= 4 /\ (Len(answers) = 4 => Alike(answers))

\* A completed attempt has nothing left, and while no answer was late there is
\* one result to answer.
ResultStands(a) ==
    /\ status[a] = "COMPLETED" \/ replies[a] # {} => Over(responses[a])
    /\ late[a] = 0 => replies[a] \subseteq {Result(responses[a])}

\* So has an attempt about to be completed, and the request holds that result.
HoldsResult(c) ==
    /\ c.pc = "save" => c.attempt \in Attempts /\ c.item \in Items
    /\ c.pc \in {"commit", "publish"} =>
         /\ c.attempt \in Attempts /\ Over(responses[c.attempt])
         /\ late[c.attempt] = 0 => c.result = Result(responses[c.attempt])

TestInv ==
    /\ TestShape /\ RowsOfSkills
    /\ \A a \in Attempts : ServedOnly(a) /\ ResultStands(a)
    /\ \A r \in Requests : HoldsResult(req[r])

LEMMA TestStarts == Placement!Init => TestInv
<1> SUFFICES ASSUME Placement!Init PROVE TestInv
  OBVIOUS
<1>1. /\ status = [a \in Attempts |-> "none"] /\ responses = [a \in Attempts |-> <<>>]
      /\ replies = [a \in Attempts |-> {}] /\ late = [a \in Attempts |-> 0]
      /\ req = [r \in Requests |-> Placement!Idle]
  BY DEF Placement!Init
<1>2. Placement!Idle \in TestCall /\ Placement!Idle.pc = "idle"
  BY DEF Placement!Idle, TestCall, Results
<1>3. TestShape
  <2>1. <<>> \in Seq(AnswerRow) /\ 0 \in Nat
    OBVIOUS
  <2> QED BY <1>1, <1>2, <2>1 DEF TestShape
<1>4. \A s : Placement!InSkill(<<>>, s) \in Seq(AnswerRow) /\ Len(Placement!InSkill(<<>>, s)) = 0
  <2>1. <<>> \in Seq(AnswerRow) /\ Len(<<>>) = 0
    OBVIOUS
  <2> QED BY <2>1, InSkillOfNone
<1>5. RowsOfSkills
  BY <1>1, <1>4 DEF RowsOfSkills
<1>6. ASSUME NEW a \in Attempts PROVE ServedOnly(a) /\ ResultStands(a)
  <2>1. \A s : Len(Placement!Answers(<<>>, s)) = 0
    BY <1>4, AnswersAre
  <2> QED BY <1>1, <2>1 DEF ServedOnly, ResultStands
<1>7. \A r \in Requests : HoldsResult(req[r])
  BY <1>1, <1>2 DEF HoldsResult
<1> QED BY <1>3, <1>5, <1>6, <1>7 DEF TestInv

\* A step that stores no answer.
LEMMA NothingStored ==
    ASSUME TestInv, UNCHANGED <<responses, late>>, NEW r \in Requests, NEW held \in TestCall,
           req' = [req EXCEPT ![r] = held], HoldsResult(held),
           status' \in [Attempts -> {"none", "IN_PROGRESS", "COMPLETED"}],
           replies' = [a \in Attempts |-> replies'[a]], \A a \in Attempts : ResultStands(a)'
    PROVE  TestInv'
<1>1. TestShape'
  BY DEF TestInv, TestShape
<1>2. RowsOfSkills'
  BY DEF TestInv, RowsOfSkills
<1>3. \A a \in Attempts : ServedOnly(a)'
  BY DEF TestInv, ServedOnly
<1>4. ASSUME NEW q \in Requests PROVE HoldsResult(req[q])'
  <2>1. req'[q] = IF q = r THEN held ELSE req[q]
    BY DEF TestInv, TestShape
  <2>2. HoldsResult(req[q])
    BY DEF TestInv
  <2> QED BY <2>1, <2>2 DEF HoldsResult
<1> QED BY <1>1, <1>2, <1>3, <1>4 DEF TestInv

\* What a request turns into, other than by EXCEPT of what it was.
LEMMA IdleCall ==
    /\ Placement!Idle \in TestCall /\ HoldsResult(Placement!Idle)
    /\ \A type \in {"PLACEMENT", "REASSESSMENT"} :
         LET held == [Placement!Idle EXCEPT !.pc = "create", !.type = type]
         IN  held \in TestCall /\ HoldsResult(held)
    /\ \A a \in Attempts, i \in Items, correct \in BOOLEAN :
         LET held == [Placement!Idle EXCEPT !.pc = "save", !.attempt = a, !.item = i, !.correct = correct]
         IN  held \in TestCall /\ HoldsResult(held)
<1> DEFINE idle == Placement!Idle
<1>1. /\ idle \in TestCall /\ idle.pc = "idle"
      /\ idle = [pc |-> idle.pc, type |-> idle.type, attempt |-> idle.attempt, item |-> idle.item,
                 correct |-> idle.correct, result |-> idle.result]
  BY DEF Placement!Idle, TestCall, Results
<1> HIDE DEF idle
<1>2. ASSUME NEW type \in {"PLACEMENT", "REASSESSMENT"}
      PROVE  LET held == [idle EXCEPT !.pc = "create", !.type = type]
             IN  held \in TestCall /\ held.pc = "create"
  BY <1>1 DEF TestCall
<1>3. /\ HoldsResult(idle)
      /\ \A c : c.pc = "create" => HoldsResult(c)
      /\ \A c : c.pc = "save" /\ c.attempt \in Attempts /\ c.item \in Items => HoldsResult(c)
  BY <1>1 DEF HoldsResult
<1>4. \A type \in {"PLACEMENT", "REASSESSMENT"} :
        LET held == [idle EXCEPT !.pc = "create", !.type = type]
        IN  held \in TestCall /\ HoldsResult(held)
  BY <1>2, <1>3
<1>5. \A a \in Attempts, i \in Items, correct \in BOOLEAN :
        LET held == [idle EXCEPT !.pc = "save", !.attempt = a, !.item = i, !.correct = correct]
        IN  held \in TestCall /\ HoldsResult(held)
  <2>1. ASSUME NEW a \in Attempts, NEW i \in Items, NEW correct \in BOOLEAN
        PROVE  LET held == [idle EXCEPT !.pc = "save", !.attempt = a, !.item = i, !.correct = correct]
               IN  held \in TestCall /\ HoldsResult(held)
    <3>1. PICK held : held = [idle EXCEPT !.pc = "save", !.attempt = a, !.item = i, !.correct = correct]
      OBVIOUS
    <3>2. held \in TestCall /\ held.pc = "save" /\ held.attempt = a /\ held.item = i
      BY <1>1, <3>1 DEF TestCall
    <3>3. HoldsResult(held)
      BY <1>3, <3>2
    <3> QED BY <3>1, <3>2, <3>3
  <2> QED BY <2>1
<1> QED BY <1>1, <1>3, <1>4, <1>5 DEF idle

LEMMA RepliesStand ==
    ASSUME TestInv, UNCHANGED <<status, responses, replies, late>>
    PROVE  /\ status' \in [Attempts -> {"none", "IN_PROGRESS", "COMPLETED"}]
           /\ replies' = [a \in Attempts |-> replies'[a]]
           /\ \A a \in Attempts : ResultStands(a)'
BY DEF TestInv, TestShape, ResultStands

LEMMA StartKeeps ==
    ASSUME TestInv, NEW r \in Requests, Placement!startAttempt(r)
    PROVE  TestInv'
<1>1. PICK type \in {"PLACEMENT", "REASSESSMENT"} :
        req' = [req EXCEPT ![r] = [Placement!Idle EXCEPT !.pc = "create", !.type = type]]
  BY DEF Placement!startAttempt, Placement!Step
<1>2. UNCHANGED <<status, responses, replies, late>>
  BY DEF Placement!startAttempt
<1> QED BY <1>1, <1>2, IdleCall, RepliesStand, NothingStored

LEMMA CreateKeeps ==
    ASSUME TestInv, NEW r \in Requests, Placement!CreateAttempt(r)
    PROVE  TestInv'
<1>1. PICK a \in Attempts : status[a] = "none" /\ status' = [status EXCEPT ![a] = "IN_PROGRESS"]
  BY DEF Placement!CreateAttempt
<1>2. req' = [req EXCEPT ![r] = Placement!Idle] /\ UNCHANGED <<responses, replies, late>>
  BY DEF Placement!CreateAttempt, Placement!Step
<1>3. status' \in [Attempts -> {"none", "IN_PROGRESS", "COMPLETED"}]
  BY <1>1 DEF TestInv, TestShape
<1>4. replies' = [b \in Attempts |-> replies'[b]]
  BY <1>2 DEF TestInv, TestShape
<1>5. ASSUME NEW b \in Attempts PROVE ResultStands(b)'
  <2>1. status'[b] = "COMPLETED" => status[b] = "COMPLETED"
    BY <1>1 DEF TestInv, TestShape
  <2> QED BY <1>2, <2>1 DEF TestInv, ResultStands
<1> QED BY <1>2, <1>3, <1>4, <1>5, IdleCall, NothingStored

LEMMA SubmitKeeps ==
    ASSUME TestInv, NEW r \in Requests, Placement!submitResponse(r)
    PROVE  TestInv'
<1>1. PICK a \in Attempts, correct \in BOOLEAN :
        \E i \in Placement!computeNextServableItem(responses[a]) :
          req' = [req EXCEPT ![r] = [Placement!Idle EXCEPT !.pc = "save", !.attempt = a, !.item = i,
                                                           !.correct = correct]]
  BY DEF Placement!submitResponse, Placement!Step
<1>2. PICK i \in Placement!computeNextServableItem(responses[a]) :
        req' = [req EXCEPT ![r] = [Placement!Idle EXCEPT !.pc = "save", !.attempt = a, !.item = i,
                                                         !.correct = correct]]
  BY <1>1
<1>3. i \in Items
  <2>1. PICK k \in DOMAIN Skills : i \in Placement!Servable(responses[a], Skills[k])
    BY <1>2, OverWhenAllDone
  <2>2. Skills[k] \in Placement!SkillSet
    BY DEF Placement!SkillSet
  <2>3. Placement!InSkill(responses[a], Skills[k]) \in Seq(AnswerRow)
    BY <2>2 DEF TestInv, RowsOfSkills
  <2> QED BY <2>1, <2>3, ServedWhenOpen DEF Left
<1>4. UNCHANGED <<status, responses, replies, late>>
  BY DEF Placement!submitResponse
<1>5. [Placement!Idle EXCEPT !.pc = "save", !.attempt = a, !.item = i, !.correct = correct] \in TestCall
      /\ HoldsResult([Placement!Idle EXCEPT !.pc = "save", !.attempt = a, !.item = i, !.correct = correct])
  BY <1>3, IdleCall
<1> QED BY <1>2, <1>4, <1>5, RepliesStand, NothingStored

LEMMA StopKeeps ==
    ASSUME TestInv, NEW r \in Requests, Placement!RequestStops(r)
    PROVE  TestInv'
<1>1. req' = [req EXCEPT ![r] = Placement!Idle] /\ UNCHANGED <<status, responses, replies, late>>
  BY DEF Placement!RequestStops, Placement!Step
<1> QED BY <1>1, IdleCall, RepliesStand, NothingStored

LEMMA CompleteKeeps ==
    ASSUME TestInv, NEW r \in Requests, Placement!completeAttempt(r)
    PROVE  TestInv'
<1>1. PICK a \in Attempts :
        \/ /\ status[a] = "COMPLETED"
           /\ replies' = [replies EXCEPT ![a] = @ \cup {Result(responses[a])}] /\ req' = req
        \/ /\ Over(responses[a]) /\ replies' = replies
           /\ req' = [req EXCEPT ![r] = [Placement!Idle EXCEPT !.pc = "commit", !.attempt = a,
                                                               !.result = Result(responses[a])]]
  BY DEF Placement!completeAttempt, Placement!Step, Over, Result
<1>2. UNCHANGED <<status, responses, late>>
  BY DEF Placement!completeAttempt
<1>3. CASE /\ status[a] = "COMPLETED"
           /\ replies' = [replies EXCEPT ![a] = @ \cup {Result(responses[a])}] /\ req' = req
  <2>1. req' = [req EXCEPT ![r] = req[r]] /\ req[r] \in TestCall /\ HoldsResult(req[r])
    BY <1>3 DEF TestInv, TestShape
  <2>2. replies' = [b \in Attempts |-> replies'[b]]
    BY <1>3 DEF TestInv, TestShape
  <2>3. ASSUME NEW b \in Attempts PROVE ResultStands(b)'
    <3>1. ResultStands(b) /\ replies'[b] = IF b = a THEN replies[a] \cup {Result(responses[a])}
                                           ELSE replies[b]
      BY <1>3 DEF TestInv, TestShape
    <3> QED BY <1>2, <1>3, <3>1 DEF ResultStands
  <2>4. status' \in [Attempts -> {"none", "IN_PROGRESS", "COMPLETED"}]
    BY <1>2 DEF TestInv, TestShape
  <2> QED BY <1>2, <2>1, <2>2, <2>3, <2>4, NothingStored
<1>4. CASE /\ Over(responses[a]) /\ replies' = replies
           /\ req' = [req EXCEPT ![r] = [Placement!Idle EXCEPT !.pc = "commit", !.attempt = a,
                                                               !.result = Result(responses[a])]]
  <2> DEFINE held == [Placement!Idle EXCEPT !.pc = "commit", !.attempt = a,
                                            !.result = Result(responses[a])]
  <2>1. responses[a] \in Seq(AnswerRow) /\ Result(responses[a]) \in Results
    BY DEF TestInv, TestShape, Results
  <2>2. held \in TestCall /\ held.pc = "commit" /\ held.attempt = a /\ held.result = Result(responses[a])
    BY <2>1 DEF Placement!Idle, TestCall
  <2>3. HoldsResult(held)
    BY <1>4, <2>2 DEF HoldsResult
  <2>4. req' = [req EXCEPT ![r] = held]
    BY <1>4
  <2> HIDE DEF held
  <2> QED BY <1>2, <1>4, <2>2, <2>3, <2>4, RepliesStand, NothingStored
<1> QED BY <1>1, <1>3, <1>4

LEMMA CommitKeeps ==
    ASSUME TestInv, NEW r \in Requests, Placement!CommitCompletion(r)
    PROVE  TestInv'
<1>1. PICK a \in Attempts : a = req[r].attempt /\ Over(responses[a])
  BY DEF TestInv, HoldsResult, Placement!CommitCompletion, Placement!At
<1>2. /\ req[r].pc = "commit" /\ status' = [status EXCEPT ![a] = "COMPLETED"]
      /\ req' = [req EXCEPT ![r] = [req[r] EXCEPT !.pc = "publish"]]
      /\ UNCHANGED <<responses, replies, late>>
  BY <1>1 DEF Placement!CommitCompletion, Placement!Step, Placement!At
<1> DEFINE held == [req[r] EXCEPT !.pc = "publish"]
<1>3. PICK c \in TestCall : c = req[r] /\ HoldsResult(c)
  BY DEF TestInv, TestShape
<1>4. held \in TestCall /\ held.pc = "publish" /\ held.attempt = c.attempt /\ held.result = c.result
  BY <1>3 DEF TestCall
<1>5. HoldsResult(held)
  BY <1>2, <1>3, <1>4 DEF HoldsResult
<1>6. req' = [req EXCEPT ![r] = held]
  BY <1>2
<1> HIDE DEF held
<1>7. status' \in [Attempts -> {"none", "IN_PROGRESS", "COMPLETED"}]
  BY <1>2 DEF TestInv, TestShape
<1>8. replies' = [b \in Attempts |-> replies'[b]]
  BY <1>2 DEF TestInv, TestShape
<1>9. ASSUME NEW b \in Attempts PROVE ResultStands(b)'
  <2>1. ResultStands(b) /\ status'[b] = IF b = a THEN "COMPLETED" ELSE status[b]
    BY <1>2 DEF TestInv, TestShape
  <2> QED BY <1>1, <1>2, <2>1 DEF ResultStands
<1> QED BY <1>2, <1>4, <1>5, <1>6, <1>7, <1>8, <1>9, NothingStored

LEMMA PublishKeeps ==
    ASSUME TestInv, NEW r \in Requests, Placement!PublishCompleted(r)
    PROVE  TestInv'
<1>1. PICK a \in Attempts :
        /\ a = req[r].attempt /\ Over(responses[a])
        /\ late[a] = 0 => req[r].result = Result(responses[a])
  BY DEF TestInv, HoldsResult, Placement!PublishCompleted, Placement!At
<1>2. /\ replies' = [replies EXCEPT ![a] = @ \cup {req[r].result}]
      /\ req' = [req EXCEPT ![r] = Placement!Idle] /\ UNCHANGED <<status, responses, late>>
  BY <1>1 DEF Placement!PublishCompleted, Placement!Step
<1>3. replies' = [b \in Attempts |-> replies'[b]]
  BY <1>2 DEF TestInv, TestShape
<1>4. ASSUME NEW b \in Attempts PROVE ResultStands(b)'
  <2>1. ResultStands(b) /\ replies'[b] = IF b = a THEN replies[a] \cup {req[r].result} ELSE replies[b]
    BY <1>2 DEF TestInv, TestShape
  <2> QED BY <1>1, <1>2, <2>1 DEF ResultStands
<1>5. status' \in [Attempts -> {"none", "IN_PROGRESS", "COMPLETED"}]
  BY <1>2 DEF TestInv, TestShape
<1> QED BY <1>2, <1>3, <1>4, <1>5, IdleCall, NothingStored

-----------------------------------------------------------------------------
(* An answer is stored.                                                     *)

\* An answer in its turn is of a skill that is open, with at most three alike.
LEMMA InItsTurn ==
    ASSUME NEW rows \in Seq(AnswerRow), NEW w \in AnswerRow,
           \A s \in Placement!SkillSet : Placement!InSkill(rows, s) \in Seq(AnswerRow),
           w.item \in Placement!computeNextServableItem(rows),
           NEW s \in Placement!SkillSet,
           LET before == Placement!Answers(rows, s)
           IN  Len(before) <= 4 /\ (Len(before) = 4 => Alike(before))
    PROVE  LET after == Placement!Answers(Append(rows, w), s)
           IN  Len(after) <= 4 /\ (Len(after) = 4 => Alike(after))
<1> DEFINE before == Placement!Answers(rows, s)
           after == Placement!Answers(Append(rows, w), s)
<1>1. PICK k \in DOMAIN Skills : w.item \in Placement!Servable(rows, Skills[k])
  BY OverWhenAllDone
<1>2. Skills[k] \in Placement!SkillSet
  BY DEF Placement!SkillSet
<1>3. /\ w.item \in Left(rows, Skills[k])
      /\ ~ Enough(Placement!Answers(rows, Skills[k]))
  BY <1>1, <1>2, ServedWhenOpen
<1>4. SkillOf[w.item] = Skills[k]
  BY <1>3 DEF Left
<1>5. /\ after \in Seq(BOOLEAN) /\ before \in Seq(BOOLEAN)
      /\ SkillOf[w.item] # s => after = before
      /\ SkillOf[w.item] = s =>
           Len(after) = Len(before) + 1 /\ \A i \in 1..Len(before) : after[i] = before[i]
  BY AnswersGrow
<1>6. Len(before) <= 4 /\ (Len(before) = 4 => Alike(before))
  OBVIOUS
<1>7. SkillOf[w.item] = s => ~ Enough(before)
  BY <1>3, <1>4
<1> HIDE DEF before, after
<1>8. CASE SkillOf[w.item] # s
  BY <1>5, <1>6, <1>8 DEF before, after
<1>9. CASE SkillOf[w.item] = s
  <2>1. PICK n \in Nat : n = Len(before) /\ n + 1 = Len(after)
    BY <1>5, <1>9
  <2>2. n <= 3 /\ (n = 3 => Alike(before))
    BY <1>7, <1>9, <2>1 DEF Enough
  <2>3. n = 3 => after[1] = before[1] /\ after[2] = before[2] /\ after[3] = before[3]
    BY <1>5, <1>9, <2>1
  <2>4. n + 1 <= 4 /\ (n + 1 = 4 => Alike(after))
    BY <2>2, <2>3 DEF Alike
  <2> QED BY <2>1, <2>4 DEF after
<1> QED BY <1>8, <1>9

LEMMA SaveKeeps ==
    ASSUME TestInv, NEW r \in Requests, Placement!SaveResponse(r)
    PROVE  TestInv'
<1>1. PICK a \in Attempts, w \in AnswerRow :
        /\ a = req[r].attempt /\ w = [item |-> req[r].item, correct |-> req[r].correct]
        /\ req[r].item \in Items
  <2>1. req[r].pc = "save" /\ req[r] \in TestCall
    BY DEF Placement!SaveResponse, Placement!At, TestInv, TestShape
  <2>2. req[r].attempt \in Attempts /\ req[r].item \in Items
    BY <2>1 DEF TestInv, HoldsResult
  <2>3. req[r].correct \in BOOLEAN
    BY <2>1 DEF TestCall
  <2>4. [item |-> req[r].item, correct |-> req[r].correct] \in AnswerRow
    BY <2>2, <2>3 DEF AnswerRow
  <2> QED BY <2>2, <2>4
<1>2. /\ responses' = [responses EXCEPT ![a] = Append(@, w)]
      /\ req' = [req EXCEPT ![r] = Placement!Idle] /\ UNCHANGED <<status, replies>>
  BY <1>1 DEF Placement!SaveResponse, Placement!Step
<1>3. \/ w.item \in Placement!computeNextServableItem(responses[a]) /\ late' = late
      \/ late' = [late EXCEPT ![a] = @ + 1]
  BY <1>1 DEF Placement!SaveResponse
<1>4. responses[a] \in Seq(AnswerRow) /\ late \in [Attempts -> Nat]
  BY DEF TestInv, TestShape
<1>5. /\ responses'[a] = Append(responses[a], w) /\ responses'[a] \in Seq(AnswerRow)
      /\ \A b \in Attempts : b # a => responses'[b] = responses[b]
      /\ responses' \in [Attempts -> Seq(AnswerRow)]
  BY <1>2, <1>4 DEF TestInv, TestShape
<1>6. /\ late' \in [Attempts -> Nat]
      /\ \A b \in Attempts : b # a => late'[b] = late[b]
      /\ late'[a] = 0 => /\ late[a] = 0
                         /\ w.item \in Placement!computeNextServableItem(responses[a])
                         /\ ~ Over(responses[a])
  <2>1. CASE w.item \in Placement!computeNextServableItem(responses[a]) /\ late' = late
    BY <1>4, <2>1 DEF Over
  <2>2. CASE late' = [late EXCEPT ![a] = @ + 1]
    <3>1. late'[a] = late[a] + 1 /\ late[a] \in Nat
      BY <1>4, <2>2
    <3>2. late'[a] # 0
      BY <3>1
    <3> QED BY <1>4, <2>2, <3>2
  <2> QED BY <1>3, <2>1, <2>2
<1>7. \A s \in Placement!SkillSet : Placement!InSkill(responses[a], s) \in Seq(AnswerRow)
  BY DEF TestInv, RowsOfSkills
<1>8. Over(responses[a]) => Over(responses'[a])
  BY <1>4, <1>5, <1>7, OverStays
<1>9. TestShape'
  BY <1>2, <1>5, <1>6, IdleCall DEF TestInv, TestShape
<1>10. RowsOfSkills'
  <2>1. ASSUME NEW b \in Attempts, NEW s \in Placement!SkillSet
        PROVE  Placement!InSkill(responses'[b], s) \in Seq(AnswerRow)
    <3>1. CASE b = a
      BY <1>4, <1>5, <1>7, <3>1, AnswersGrow
    <3>2. CASE b # a
      BY <1>5, <3>2 DEF TestInv, RowsOfSkills
    <3> QED BY <3>1, <3>2
  <2> QED BY <2>1 DEF RowsOfSkills
<1>11. ASSUME NEW b \in Attempts PROVE ServedOnly(b)'
  <2>1. ServedOnly(b)
    BY DEF TestInv
  <2>2. CASE b # a
    BY <1>5, <1>6, <2>1, <2>2 DEF ServedOnly
  <2>3. CASE b = a /\ late'[a] = 0
    <3>1. ASSUME NEW s \in Placement!SkillSet
          PROVE  LET after == Placement!Answers(responses'[a], s)
                 IN  Len(after) <= 4 /\ (Len(after) = 4 => Alike(after))
      <4>1. LET before == Placement!Answers(responses[a], s)
            IN  Len(before) <= 4 /\ (Len(before) = 4 => Alike(before))
        BY <1>6, <2>1, <2>3 DEF ServedOnly
      <4>2. w.item \in Placement!computeNextServableItem(responses[a])
        BY <1>6, <2>3
      <4> QED BY <1>4, <1>5, <1>7, <4>1, <4>2, InItsTurn
    <3> QED BY <2>3, <3>1 DEF ServedOnly
  <2>4. CASE b = a /\ late'[a] # 0
    BY <2>4 DEF ServedOnly
  <2> QED BY <2>2, <2>3, <2>4
<1>12. ASSUME NEW b \in Attempts PROVE ResultStands(b)'
  <2>1. ResultStands(b)
    BY DEF TestInv
  <2>2. CASE b # a
    BY <1>2, <1>5, <1>6, <2>1, <2>2 DEF ResultStands
  <2>3. CASE b = a
    <3>1. status[a] = "COMPLETED" \/ replies[a] # {} => Over(responses'[a])
      BY <1>8, <2>1, <2>3 DEF ResultStands
    <3>2. late'[a] = 0 => replies[a] = {}
      BY <1>6, <2>1, <2>3 DEF ResultStands
    <3>3. (status[a] = "COMPLETED" \/ replies[a] # {} => Over(responses[a]))'
      BY <1>2, <3>1 DEF Over
    <3>4. (late[a] = 0 => replies[a] \subseteq {Result(responses[a])})'
      BY <1>2, <3>2
    <3> QED BY <2>3, <3>3, <3>4 DEF ResultStands
  <2> QED BY <2>2, <2>3
<1>13. ASSUME NEW q \in Requests PROVE HoldsResult(req[q])'
  <2>1. CASE q = r
    <3>1. req'[q] = Placement!Idle
      BY <1>2, <2>1 DEF TestInv, TestShape
    <3>2. req'[q].pc = "idle"
      BY <3>1 DEF Placement!Idle
    <3> QED BY <3>2 DEF HoldsResult
  <2>2. CASE q # r
    <3>1. req'[q] = req[q] /\ HoldsResult(req[q])
      BY <1>2, <2>2 DEF TestInv, TestShape
    <3>2. ASSUME req[q].pc \in {"commit", "publish"}
          PROVE  /\ req[q].attempt \in Attempts /\ Over(responses'[req[q].attempt])
                 /\ late'[req[q].attempt] = 0 => req[q].result = Result(responses'[req[q].attempt])
      <4>1. PICK b \in Attempts : /\ b = req[q].attempt /\ Over(responses[b])
                                  /\ late[b] = 0 => req[q].result = Result(responses[b])
        BY <3>1, <3>2 DEF HoldsResult
      <4>2. CASE b = a
        BY <1>6, <1>8, <4>1, <4>2
      <4>3. CASE b # a
        BY <1>5, <1>6, <4>1, <4>3
      <4> QED BY <4>1, <4>2, <4>3
    <3> QED BY <3>1, <3>2 DEF HoldsResult
  <2> QED BY <2>1, <2>2
<1> QED BY <1>9, <1>10, <1>11, <1>12, <1>13 DEF TestInv

LEMMA TestKeeps == TestInv /\ [Placement!Next]_Placement!vars => TestInv'
<1> SUFFICES ASSUME TestInv, [Placement!Next]_Placement!vars PROVE TestInv'
  OBVIOUS
<1>1. CASE UNCHANGED Placement!vars
  <2>1. UNCHANGED <<status, responses, replies, late, req>>
    BY <1>1 DEF Placement!vars
  <2> QED BY <2>1 DEF TestInv, TestShape, RowsOfSkills, ServedOnly, ResultStands, HoldsResult
<1>2. ASSUME NEW r \in Requests,
             \/ Placement!startAttempt(r) \/ Placement!CreateAttempt(r)
             \/ Placement!submitResponse(r) \/ Placement!SaveResponse(r)
             \/ Placement!completeAttempt(r) \/ Placement!CommitCompletion(r)
             \/ Placement!PublishCompleted(r) \/ Placement!RequestStops(r)
      PROVE  TestInv'
  BY <1>2, StartKeeps, CreateKeeps, SubmitKeeps, SaveKeeps, CompleteKeeps, CommitKeeps, PublishKeeps,
     StopKeeps
<1> QED BY <1>1, <1>2 DEF Placement!Next

\* In every state of the placement test, an attempt that is completed, or about
\* to be, has nothing left to serve, and without late answers holds one result
\* and at most four answers in a skill.
THEOREM TestInvariant == Placement!Spec => []TestInv
  BY TestStarts, TestKeeps, PTL DEF Placement!Spec

\* No skill of a completed attempt was left early, and without late answers the
\* selector takes no skill to the maximum nor leaves the bands next to B1.
THEOREM SkillsEndInTime == Placement!Spec => []StopsWhenStable
<1>1. ASSUME TestInv PROVE Placement!NoEarlyStop
  <2>1. ASSUME NEW a \in Attempts, status[a] = "COMPLETED", NEW s \in Placement!Objective
        PROVE  \/ Len(Placement!Answers(responses[a], s)) > 2
               \/ {i \in Items : SkillOf[i] = s} \subseteq Placement!Answered(responses[a])
    <3>1. PICK k \in DOMAIN Skills : s = Skills[k]
      BY DEF Placement!Objective, Placement!SkillSet
    <3>2. Placement!InSkill(responses[a], s) \in Seq(AnswerRow)
      BY <1>1 DEF TestInv, RowsOfSkills, Placement!Objective
    <3>3. Placement!Servable(responses[a], s) = {}
      BY <1>1, <2>1, <3>1, OverWhenAllDone DEF TestInv, ResultStands
    <3>4. PICK answers \in Seq(BOOLEAN) : answers = Placement!Answers(responses[a], s)
      BY <3>2, AnswersAre
    <3>5. CASE Enough(Placement!Answers(responses[a], s))
      <4>1. Len(answers) >= 4 \/ Len(answers) = 3
        BY <3>4, <3>5 DEF Enough
      <4>2. Len(answers) > 2
        <5>1. PICK n \in Nat : n = Len(answers)
          BY <3>4
        <5>2. n > 2
          BY <4>1, <5>1
        <5> QED BY <5>1, <5>2
      <4> QED BY <3>4, <4>2
    <3>6. CASE Left(responses[a], s) = {}
      BY <3>6 DEF Left
    <3> QED BY <3>2, <3>3, <3>5, <3>6, ServedWhenOpen
  <2> QED BY <2>1 DEF Placement!NoEarlyStop, Placement!StabilizeStreak
<1>2. ASSUME TestInv PROVE Placement!StaysNearStart
  <2>1. ASSUME NEW a \in Attempts, late[a] = 0, NEW s \in Placement!Objective
        PROVE  LET answers == Placement!Answers(responses[a], s)
               IN  /\ Len(answers) < 5
                   /\ Placement!computeRunningState(answers)[Len(answers)].band \in 1..3
    <3>1. s \in Placement!SkillSet
      BY DEF Placement!Objective
    <3>2. PICK answers \in Seq(BOOLEAN) : answers = Placement!Answers(responses[a], s)
      <4>1. Placement!InSkill(responses[a], s) \in Seq(AnswerRow)
        BY <1>2, <3>1 DEF TestInv, RowsOfSkills
      <4> QED BY <4>1, AnswersAre
    <3>3. Len(answers) <= 4
      BY <1>2, <2>1, <3>1, <3>2 DEF TestInv, ServedOnly
    <3>4. Len(answers) \in 0..Len(answers) /\ Len(answers) < 5
      BY <3>3
    <3>5. StandingAfter(answers, Len(answers)).band \in 1..3
      BY <3>3, <3>4, FourAnswers
    <3> QED BY <3>2, <3>4, <3>5 DEF StandingAfter
  <2>2. (2 - 1)..(2 + 1) = 1..3
    OBVIOUS
  <2> QED BY <2>1, <2>2 DEF Placement!StaysNearStart, Placement!MaxItemsPerSkill, Placement!StartBand
<1>3. TestInv => StopsWhenStable
  BY <1>1, <1>2 DEF StopsWhenStable, Placement!StopsWhenStable
<1> QED BY <1>3, TestInvariant, PTL

-----------------------------------------------------------------------------
(* The confidence of a skill that was not answered late.                    *)

LEMMA SameCount == \A S : Placement!Cardinality(S) = Cardinality(S)
BY Zenon DEF Placement!Cardinality, Cardinality

LEMMA FirstNumbers ==
    ASSUME NEW n \in Nat \ {0} PROVE IsFiniteSet(1..n) /\ Cardinality(1..n) = n
<1>1. 1 \in Int /\ n \in Int /\ ~ (1 > n) /\ n - 1 + 1 = n
  OBVIOUS
<1> QED BY <1>1, FS_Interval

\* How many of at most four answers are right, of which a fourth follows three alike.
LEMMA RightAnswers ==
    ASSUME NEW n \in 1..4, NEW right \in SUBSET (1..n),
           n = 4 => (1 \in right <=> 2 \in right) /\ (2 \in right <=> 3 \in right)
    PROVE  /\ Cardinality(right) \in 0..n
           /\ Cardinality(right) = 0 <=> right = {}
           /\ Cardinality(right) = n <=> right = 1..n
           /\ n = 4 => Cardinality(right) # 2
<1> DEFINE c == Cardinality(right)
<1>1. IsFiniteSet(1..n) /\ Cardinality(1..n) = n
  BY FirstNumbers
<1>2. IsFiniteSet(right) /\ c \in Nat /\ c <= n /\ (c = n <=> right = 1..n)
  BY <1>1, FS_Subset, FS_CardinalityType
<1>3. c = 0 <=> right = {}
  BY <1>2, FS_EmptySet
<1>4. ASSUME n = 4 PROVE c # 2
  <2>1. CASE 1 \in right
    <3>1. 1..3 \subseteq right
      BY <1>4, <2>1
    <3>2. Cardinality(1..3) = 3
      <4>1. PICK m \in Nat \ {0} : m = 3
        OBVIOUS
      <4>2. Cardinality(1..m) = m
        BY FirstNumbers
      <4> QED BY <4>1, <4>2
    <3>3. Cardinality(1..3) <= c
      BY <1>2, <3>1, FS_Subset
    <3> QED BY <1>2, <3>2, <3>3
  <2>2. CASE 1 \notin right
    <3>1. right \subseteq {4}
      BY <1>4, <2>2
    <3>2. IsFiniteSet({4}) /\ Cardinality({4}) = 1
      BY FS_Singleton
    <3>3. c <= 1
      BY <3>1, <3>2, FS_Subset
    <3> QED BY <1>2, <3>3
  <2> QED BY <2>1, <2>2
<1> QED BY <1>2, <1>3, <1>4

LEMMA LowWhenMixed ==
    ASSUME NEW n \in 1..4, NEW c \in 0..n, n = 4 => c # 2
    PROVE  Placement!LowConfidence(n, c) <=> n <= 3 /\ c # 0 /\ c # n
<1>1. Placement!LowConfidence(n, c) <=> n * n * n < 5 * 4 * c * (n - c)
  BY DEF Placement!LowConfidence, Placement!MaxItemsPerSkill
<1>2. n \in {1, 2, 3, 4} /\ c \in {0, 1, 2, 3, 4}
  OBVIOUS
<1> QED BY <1>1, <1>2

\* A retake is recommended of a completed attempt without late answers exactly
\* in the skills that were not asked, or whose two or three answers disagree.
THEOREM RetakesAreForMixedAnswers == Placement!Spec => []RetakeOnMixedAnswers
<1>1. ASSUME TestInv, NEW a \in Attempts, status[a] = "COMPLETED", late[a] = 0,
             NEW s \in Placement!Objective
      PROVE  LET answers == Placement!Answers(responses[a], s)
             IN  Placement!computeSkillBanding(Placement!InSkill(responses[a], s)).low
                   <=> \/ answers = <<>>
                       \/ Len(answers) <= 3 /\ {answers[i] : i \in DOMAIN answers} = BOOLEAN
  <2>1. s \in Placement!SkillSet /\ s # "WRITING"
    BY DEF Placement!Objective
  <2>2. PICK given \in Seq(AnswerRow) : given = Placement!InSkill(responses[a], s)
    BY <1>1, <2>1 DEF TestInv, RowsOfSkills
  <2>3. PICK answers \in Seq(BOOLEAN) : answers = Placement!Answers(responses[a], s)
    BY <2>2, AnswersAre
  <2>4. Len(answers) = Len(given) /\ \A i \in 1..Len(given) : answers[i] <=> given[i].correct
    BY <2>1, <2>2, <2>3, AnswersAre
  <2>5. Len(answers) <= 4 /\ (Len(answers) = 4 => Alike(answers))
    BY <1>1, <2>1, <2>3 DEF TestInv, ServedOnly
  <2> DEFINE n == Len(given)
             right == {i \in 1..n : given[i].correct}
             mixed == {answers[i] : i \in DOMAIN answers} = BOOLEAN
  <2>6. Placement!computeSkillBanding(given).low <=>
          n = 0 \/ Placement!LowConfidence(n, Cardinality(right))
    <3> DEFINE passed == {k \in 1..5 :
                           /\ Placement!Weight(given, FALSE) > 0
                           /\ 100 * Placement!Weight(given, TRUE)
                                >= Placement!Thresholds[k] * Placement!Weight(given, FALSE)}
    <3>1. Placement!computeSkillBanding(given) =
            IF n = 0 THEN [band |-> 0, low |-> TRUE]
            ELSE [band |-> Cardinality(passed), low |-> Placement!LowConfidence(n, Cardinality(right))]
      BY SameCount DEF Placement!computeSkillBanding
    <3>2. Placement!LowConfidence(n, Cardinality(right)) \in BOOLEAN
      BY DEF Placement!LowConfidence
    <3> HIDE DEF n, right, passed
    <3> QED BY <3>1, <3>2
  <2>7. /\ n \in Nat /\ n <= 4 /\ DOMAIN answers = 1..n
        /\ \A i \in 1..n : answers[i] \in BOOLEAN /\ (answers[i] <=> i \in right)
    BY <2>4, <2>5
  <2>8. answers = <<>> <=> n = 0
    BY <2>4
  <2> HIDE DEF n
  <2>9. CASE n = 0
    BY <2>2, <2>3, <2>6, <2>8, <2>9
  <2>10. CASE n # 0
    <3>1. n \in 1..4 /\ right \in SUBSET (1..n)
      BY <2>7, <2>10
    <3>2. n = 4 => (1 \in right <=> 2 \in right) /\ (2 \in right <=> 3 \in right)
      BY <2>4, <2>5, <2>7 DEF Alike, n
    <3>3. mixed <=> right # {} /\ right # 1..n
      <4>1. ASSUME right # {}, right # 1..n PROVE mixed
        <5>1. PICK i \in 1..n : answers[i] = TRUE
          BY <2>7, <4>1
        <5>2. PICK j \in 1..n : answers[j] = FALSE
          BY <2>7, <4>1
        <5> QED BY <2>7, <5>1, <5>2
      <4>2. ASSUME mixed PROVE right # {} /\ right # 1..n
        <5>1. PICK i \in 1..n : answers[i] = TRUE
          BY <2>7, <4>2
        <5>2. PICK j \in 1..n : answers[j] = FALSE
          BY <2>7, <4>2
        <5> QED BY <2>7, <5>1, <5>2
      <4> QED BY <4>1, <4>2
    <3> DEFINE c == Cardinality(right)
    <3> HIDE DEF right, mixed
    <3>4. c \in 0..n /\ (c = 0 <=> right = {}) /\ (c = n <=> right = 1..n) /\ (n = 4 => c # 2)
      BY <3>1, <3>2, RightAnswers
    <3> HIDE DEF c
    <3>5. Placement!LowConfidence(n, c) <=> n <= 3 /\ c # 0 /\ c # n
      BY <3>1, <3>4, LowWhenMixed
    <3>6. Placement!computeSkillBanding(given).low <=> n <= 3 /\ mixed
      BY <2>6, <2>10, <3>3, <3>4, <3>5 DEF c
    <3>7. Len(answers) = n
      BY <2>4 DEF n
    <3> QED BY <2>2, <2>3, <2>8, <2>10, <3>6, <3>7 DEF mixed
  <2> QED BY <2>9, <2>10
<1>2. TestInv => RetakeOnMixedAnswers
  BY <1>1 DEF RetakeOnMixedAnswers, Placement!RetakeOnMixedAnswers
<1> QED BY <1>2, TestInvariant, PTL

\* A completed attempt has nothing left to serve, and completing it again
\* answers the same result as long as no late answer was stored.
THEOREM CompletionsSettle == Placement!Spec => []CompletionSettles
<1>1. ASSUME TestInv PROVE CompletionSettles
  <2>1. ASSUME NEW a \in Attempts
        PROVE  /\ status[a] = "COMPLETED" => Placement!computeNextServableItem(responses[a]) = {}
               /\ late[a] = 0 => Cardinality(replies[a]) <= 1
    <3>1. ResultStands(a)
      BY <1>1 DEF TestInv
    <3>2. IsFiniteSet({Result(responses[a])}) /\ Cardinality({Result(responses[a])}) = 1
      BY FS_Singleton
    <3>3. late[a] = 0 => Cardinality(replies[a]) <= 1
      BY <3>1, <3>2, FS_Subset DEF ResultStands
    <3>4. status[a] = "COMPLETED" => Placement!computeNextServableItem(responses[a]) = {}
      BY <3>1 DEF ResultStands, Over
    <3> QED BY <3>3, <3>4
  <2> QED BY <2>1, SameCount DEF CompletionSettles, Placement!CompletionSettles
<1> QED BY <1>1, TestInvariant, PTL
=============================================================================
