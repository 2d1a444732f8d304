--------------------------- MODULE CourseContent ----------------------------
(***************************************************************************)
(* Course authoring in apps/api: the rows of one course (Course, Level,    *)
(* Unit, and the leaves Lesson, Activity, Quiz and Exercise), their        *)
(* creation, update, soft deletion and publication, and the ContentVersion *)
(* rows that publication and edits of leaves leave behind.                 *)
(*                                                                         *)
(* An edit of a leaf is four statements outside any transaction: update    *)
(* the row, read publishedAt, read the highest version, insert the next.   *)
(* publishCourse runs its backfill in a transaction, of which other        *)
(* requests see the commit; it read the tree before.                       *)
(***************************************************************************)
EXTENDS Naturals, FiniteSets

CONSTANTS
    Course,         \* the course, the root of the rows
    Rows,           \* ids of the rows, Course included
    Parent,         \* Rows \ {Course} -> Rows
    Leaves,         \* rows whose edits are versioned
    Initial,        \* rows that exist, in the draft course, when the model starts
    Authors,        \* content managers' requests in flight
    MaxEdits        \* bound: creations, updates, deletions and publications

ASSUME ContentAssumption ==
    /\ Course \in Rows /\ Leaves \subseteq Rows \ {Course}
    /\ Parent \in [Rows \ {Course} -> Rows]
    /\ Initial \subseteq Rows /\ MaxEdits \in Nat

VARIABLES
    row,        \* Rows -> the row: there, deleted, content (counts its revisions)
    published,  \* Course.publishedAt is set
    version,    \* Leaves -> [version number -> content of the snapshot]
    author,     \* Authors -> where each request is and what it holds
    edits,      \* bound counter
    overlap,    \* two authors were in flight at once, or one stopped half way (ghost)
    backfilled  \* leaves in the tree some committed publication read (ghost)

cvars == <<row, published, version, author, edits, overlap, backfilled>>

Numbers(x) == DOMAIN version[x]
Highest(x) == IF Numbers(x) = {} THEN 0
              ELSE CHOOSE n \in Numbers(x) : \A k \in Numbers(x) : k <= n

\* One row of "ContentVersion" more; (entityType, entityId, versionNumber) is unique.
WithVersion(x, n, content) ==
    [k \in Numbers(x) \cup {n} |-> IF k = n THEN content ELSE version[x][k]]

Resting == [pc |-> "idle", row |-> Course, content |-> 0, number |-> 0, tree |-> [x \in {} |-> 0]]
Moves(a, held) == author' = [author EXCEPT ![a] = held]
Alone(a) == \A b \in Authors \ {a} : author[b].pc = "idle"

\* getOwnedCourse, getOwnedLesson, ...: 404 for a row that is not there or deleted.
Owned(x) == row[x].there /\ ~ row[x].deleted

Begin(a) ==
    /\ author[a].pc = "idle" /\ edits < MaxEdits
    /\ edits' = edits + 1
    /\ overlap' = (overlap \/ ~ Alone(a))

-----------------------------------------------------------------------------
Create(x) ==
    /\ ~ row[x].there /\ x # Course
    /\ Owned(Parent[x])
    /\ row' = [row EXCEPT ![x] = [there |-> TRUE, deleted |-> FALSE, content |-> 1]]

Delete(x) ==
    /\ Owned(x)
    /\ row' = [row EXCEPT ![x].deleted = TRUE]

Update(x) ==
    /\ Owned(x)
    /\ row' = [row EXCEPT ![x].content = @ + 1]

\* Course, Level and Unit: one statement after the existence check.
StructureEdit(a) ==
    /\ Begin(a)
    /\ \E x \in Rows \ Leaves : Create(x) \/ Delete(x) \/ Update(x)
    /\ UNCHANGED <<published, version, author, backfilled>>

\* LeafEdit, were the snapshot of the row as it was before the update.
LeafEditSnapshotsOld(a) ==
    /\ Begin(a)
    /\ \E x \in Leaves :
         \/ (Create(x) \/ Delete(x)) /\ UNCHANGED author
         \/ /\ Update(x)
            /\ Moves(a, [Resting EXCEPT !.pc = "check", !.row = x, !.content = row[x].content])
    /\ UNCHANGED <<published, version, backfilled>>

\* Lesson, Activity, Quiz and Exercise: only an update goes on to a snapshot.
LeafEdit(a) ==
    /\ Begin(a)
    /\ \E x \in Leaves :
         \/ (Create(x) \/ Delete(x)) /\ UNCHANGED author
         \/ /\ Update(x)
            /\ Moves(a, [Resting EXCEPT !.pc = "check", !.row = x, !.content = row[x].content + 1])
    /\ UNCHANGED <<published, version, backfilled>>

snapshotIfPublished(a) ==
    /\ author[a].pc = "check"
    /\ Moves(a, IF published THEN [author[a] EXCEPT !.pc = "number"] ELSE Resting)
    /\ UNCHANGED <<row, published, version, edits, overlap, backfilled>>

ReadNumber(a) ==
    /\ author[a].pc = "number"
    /\ Moves(a, [author[a] EXCEPT !.pc = "insert", !.number = Highest(author[a].row) + 1])
    /\ UNCHANGED <<row, published, version, edits, overlap, backfilled>>

\* InsertVersion, were it an upsert on the version number.
UpsertVersion(a) ==
    LET c == author[a] IN
    /\ c.pc = "insert"
    /\ version' = [version EXCEPT ![c.row] = WithVersion(c.row, c.number, c.content)]
    /\ Moves(a, Resting)
    /\ UNCHANGED <<row, published, edits, overlap, backfilled>>

\* The number may have been taken since: the insert fails, the edit stays.
InsertVersion(a) ==
    LET c == author[a] IN
    /\ c.pc = "insert"
    /\ version' = IF c.number \in Numbers(c.row) THEN version
                  ELSE [version EXCEPT ![c.row] = WithVersion(c.row, c.number, c.content)]
    /\ Moves(a, Resting)
    /\ UNCHANGED <<row, published, edits, overlap, backfilled>>

-----------------------------------------------------------------------------
\* publishCourse up to the backfill's read of the tree (deleted rows included).
publishCourse(a) ==
    /\ Begin(a)
    /\ Owned(Course)
    /\ Moves(a, [Resting EXCEPT !.pc = "publish",
                   !.tree = [x \in {l \in Leaves : row[l].there} |-> row[x].content]])
    /\ UNCHANGED <<row, published, version, backfilled>>

\* BackfillVersions, did only the first publication backfill.
BackfillOnce(a) ==
    LET c == author[a] IN
    /\ c.pc = "publish"
    /\ published' = TRUE
    /\ version' = [x \in Leaves |-> IF x \in DOMAIN c.tree /\ Numbers(x) = {} /\ ~ published
                                    THEN WithVersion(x, 1, c.tree[x])
                                    ELSE version[x]]
    /\ backfilled' = backfilled \cup DOMAIN c.tree
    /\ Moves(a, Resting)
    /\ UNCHANGED <<row, edits, overlap>>

\* ensureVersionExists for every row of the tree, and the commit.
BackfillVersions(a) ==
    LET c == author[a] IN
    /\ c.pc = "publish"
    /\ published' = TRUE
    /\ version' = [x \in Leaves |-> IF x \in DOMAIN c.tree /\ Numbers(x) = {}
                                    THEN WithVersion(x, 1, c.tree[x])
                                    ELSE version[x]]
    /\ backfilled' = backfilled \cup DOMAIN c.tree
    /\ Moves(a, Resting)
    /\ UNCHANGED <<row, edits, overlap>>

\* A request that stops between two statements; for a publication, the
\* transaction rolls back (also when a version it inserts was inserted meanwhile).
AuthorStops(a) ==
    /\ author[a].pc # "idle"
    /\ Moves(a, Resting)
    /\ overlap' = TRUE
    /\ UNCHANGED <<row, published, version, edits, backfilled>>

Authoring(a) ==
    \/ StructureEdit(a) \/ LeafEdit(a)
    \/ snapshotIfPublished(a) \/ ReadNumber(a) \/ InsertVersion(a)
    \/ publishCourse(a) \/ BackfillVersions(a)
    \/ AuthorStops(a)

ContentInit ==
    /\ row = [x \in Rows |-> [there |-> x \in Initial, deleted |-> FALSE,
                              content |-> IF x \in Initial THEN 1 ELSE 0]]
    /\ published = FALSE
    /\ version = [x \in Leaves |-> [n \in {} |-> 0]]
    /\ author = [a \in Authors |-> Resting]
    /\ edits = 0
    /\ overlap = FALSE
    /\ backfilled = {}
=============================================================================
