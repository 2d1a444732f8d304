-------------------------------- MODULE Seed --------------------------------
(* The reference data script (packages/database/scripts/seed.ts): for each row *)
(* of a fixed list, in order, an upsert under a unique key, or a search and,  *)
(* if nothing was found, an insert.  Runs may stop anywhere and be repeated,  *)
(* overlap, or meet rows that somebody has renamed since.                     *)
EXTENDS Naturals, Sequences

CONSTANTS
    Ids,            \* ids of rows
    NoId,
    Names,          \* what the script looks a row up by: its title, code, prompt, ...
    Script,         \* the names, in the order of main
    Keyed,          \* those with a unique key
    ParentOf,       \* Names -> the name of the row it belongs to, or NoName
    NoName,
    Runs,           \* executions of the script
    MaxRenames      \* bound on edits

\* Each name is there once, after the one it belongs to.
SeedBounds ==
    /\ Script \in Seq(Names) /\ Script # <<>> /\ Keyed \subseteq Names
    /\ NoId \notin Ids /\ NoName \notin Names /\ "missing" \notin Names \cup {NoName}
    /\ \A n \in Names : \E i \in 1..Len(Script) :
         /\ \A j \in 1..Len(Script) : Script[j] = n <=> j = i
         /\ ParentOf[n] # NoName => \E j \in 1..i - 1 : Script[j] = ParentOf[n]

VARIABLES
    table,          \* Ids -> name and parent of the row, or Missing
    run,            \* Runs -> how far it is, and the row it has for each name
    overlapped,     \* whether a run was started beside another
    renames

vars == <<table, run, overlapped, renames>>

Missing == [name |-> "missing", parent |-> NoId]
NotStarted == [pc |-> "before", at |-> 0, found |-> [n \in Names |-> NoId]]

Init ==
    /\ table = [i \in Ids |-> Missing]
    /\ run = [r \in Runs |-> NotStarted]
    /\ overlapped = FALSE
    /\ renames = 0

Stored == {i \in Ids : table[i] # Missing}
Under(r, n) == IF ParentOf[n] = NoName THEN NoId ELSE run[r].found[ParentOf[n]]
Matching(r, n) == {i \in Stored : table[i] = [name |-> n, parent |-> Under(r, n)]}
Running(r) == run[r].pc \in {"find", "create"}
Wanted(r) == Script[run[r].at]

-----------------------------------------------------------------------------
main(r) ==
    /\ run[r].pc = "before"
    /\ run' = [run EXCEPT ![r].pc = "find", ![r].at = 1]
    /\ overlapped' = (overlapped \/ \E q \in Runs : Running(q))
    /\ UNCHANGED <<table, renames>>

\* On to the next row, with i as the row for the present one.
Proceed(r, i) ==
    run' = [run EXCEPT ![r].pc = IF run[r].at = Len(Script) THEN "ended" ELSE "find",
                       ![r].at = IF run[r].at = Len(Script) THEN @ ELSE @ + 1,
                       ![r].found[Wanted(r)] = i]

\* Ids are random: which one a new row has makes no difference.
Insert(r) ==
    LET i == CHOOSE id \in Ids : id \notin Stored
    IN  /\ Ids # Stored
        /\ table' = [table EXCEPT ![i] = [name |-> Wanted(r), parent |-> Under(r, Wanted(r))]]
        /\ Proceed(r, i)

\* Languages, the course, exam programs and plans.
upsert(r) ==
    /\ run[r].pc = "find" /\ Wanted(r) \in Keyed
    /\ \/ /\ Matching(r, Wanted(r)) = {}
          /\ Insert(r)
       \/ /\ \E i \in Matching(r, Wanted(r)) : Proceed(r, i)
          /\ UNCHANGED table
    /\ UNCHANGED <<overlapped, renames>>

\* findFirst that looks only at names, not at where the row belongs.
FoundAnywhere(r, n) == {i \in Stored : table[i].name = n}

\* findFirst has no order: any of several matching rows.
Found(r, n) == Matching(r, n)

findFirst(r) ==
    /\ run[r].pc = "find" /\ Wanted(r) \notin Keyed
    /\ \/ \E i \in Found(r, Wanted(r)) : Proceed(r, i)
       \/ Found(r, Wanted(r)) = {} /\ run' = [run EXCEPT ![r].pc = "create"]
    /\ UNCHANGED <<table, overlapped, renames>>

create(r) ==
    /\ run[r].pc = "create"
    /\ Insert(r)
    /\ UNCHANGED <<overlapped, renames>>

Stops(r) ==
    /\ Running(r)
    /\ run' = [run EXCEPT ![r].pc = "stopped"]
    /\ UNCHANGED <<table, overlapped, renames>>

\* An author gives a row another title; a key stays.
Rename(i) ==
    /\ renames < MaxRenames /\ i \in Stored /\ table[i].name \notin Keyed
    /\ table' = [table EXCEPT ![i].name = NoName]      \* none of the script's
    /\ renames' = renames + 1
    /\ UNCHANGED <<run, overlapped>>

Next ==
    \/ \E r \in Runs : main(r) \/ upsert(r) \/ findFirst(r) \/ create(r) \/ Stops(r)
    \/ \E i \in Ids : Rename(i)

Spec == Init /\ [][Next]_vars

-----------------------------------------------------------------------------
Rows(n) == {i \in Stored : table[i].name = n}

\* A run that ends has led every row of the script back to the one it belongs to,
\* whatever ran, stopped or was renamed before; and a row is there twice only
\* where runs overlapped (and never, with a unique key), or under a parent that
\* was itself replaced after a new title.
SeededOnce ==
    /\ \A r \in Runs : run[r].pc = "ended" =>
         \A n \in Names : /\ run[r].found[n] \in Stored
                          /\ table[run[r].found[n]].parent = Under(r, n)
    /\ \A n \in Names : (n \in Keyed \/ ~ overlapped) =>
         \A i, j \in Rows(n) : table[i].parent = table[j].parent => i = j
=============================================================================
