------------------------------ MODULE Listings ------------------------------
(* A listing read page by page while rows come and go: the personal           *)
(* dictionary of one user (personal-dictionary.service.ts), and the audit log *)
(* (audit.service.ts), which has the same statement and no deletions.  Rows   *)
(* are ordered by the time they were created, which a transaction that        *)
(* commits late may have fixed long before, and then by a random id.          *)
EXTENDS Integers, FiniteSets

CONSTANTS
    Entries,        \* ids, numbers so that they are ordered
    NoEntry,
    Times,
    Limit,          \* rows per page
    Deleters        \* requests that delete an entry

ListingsBounds ==
    /\ Entries \subseteq Nat /\ NoEntry \notin Entries
    /\ Times \subseteq Nat \ {0} /\ Limit \in Nat \ {0}

VARIABLES
    row,            \* Entries -> the time of creation, Unwritten or Gone
    deleter,        \* Deleters -> the entry found, or NoEntry
    listing,        \* the reader: whether under way or done, and its cursor
    seen,           \* Entries -> how often a page had it
    throughout,     \* entries there since the listing began
    lost            \* whether a cursor's row was gone when it was used

vars == <<row, deleter, listing, seen, throughout, lost>>

Unwritten == 0
Gone == -1

Present == {e \in Entries : row[e] \in Times}

\* Order of the listing: newest first.
Before(d, e) == row[d] > row[e] \/ (row[d] = row[e] /\ d > e)

Init ==
    /\ row = [e \in Entries |-> Unwritten]
    /\ deleter = [d \in Deleters |-> NoEntry]
    /\ listing = [pc |-> "idle", cursor |-> NoEntry]
    /\ seen = [e \in Entries |-> 0]
    /\ throughout = {}
    /\ lost = FALSE

-----------------------------------------------------------------------------
\* create of the dictionary, and every write of the audit log.
create(e, at) ==
    /\ row[e] = Unwritten
    /\ row' = [row EXCEPT ![e] = at]
    /\ UNCHANGED <<deleter, listing, seen, throughout, lost>>

getOwnedEntry(d, e) ==
    /\ deleter[d] = NoEntry /\ e \in Present
    /\ deleter' = [deleter EXCEPT ![d] = e]
    /\ UNCHANGED <<row, listing, seen, throughout, lost>>

\* Of two requests that found the row, the second fails.
delete(d) ==
    /\ deleter[d] # NoEntry
    /\ row' = [row EXCEPT ![deleter[d]] = Gone]
    /\ throughout' = throughout \ {deleter[d]}
    /\ deleter' = [deleter EXCEPT ![d] = NoEntry]
    /\ UNCHANGED <<listing, seen, lost>>

-----------------------------------------------------------------------------
\* The rows a cursor leaves: from its own row on, none if that is gone.
From(cursor) ==
    {e \in Present : cursor = NoEntry \/ (cursor \in Present /\ ~ Before(e, cursor))}

Position(e, rows) == Cardinality({d \in rows : Before(d, e)})

\* Of the rows, those from offset skip on, take of them.
Slice(rows, skip, take) ==
    {e \in rows : Position(e, rows) >= skip /\ Position(e, rows) < skip + take}

\* list that asks for no row beyond its page, and so takes every page for the last.
listShort(cursor) ==
    [page |-> Slice(From(cursor), IF cursor = NoEntry THEN 0 ELSE 1, Limit), more |-> FALSE]

\* One row more than the page holds tells whether there is another page.
list(cursor) ==
    LET rows == Slice(From(cursor), IF cursor = NoEntry THEN 0 ELSE 1, Limit + 1)
    IN  [page |-> Slice(rows, 0, Limit), more |-> Cardinality(rows) > Limit]

Last(page) == CHOOSE e \in page : \A d \in page \ {e} : Before(d, e)

Show(cursor) ==
    LET result == list(cursor)
    IN  /\ seen' = [e \in Entries |-> seen[e] + (IF e \in result.page THEN 1 ELSE 0)]
        /\ listing' = IF result.more THEN [pc |-> "listing", cursor |-> Last(result.page)]
                                     ELSE [pc |-> "done", cursor |-> NoEntry]

FirstPage ==
    /\ listing.pc = "idle"
    /\ Show(NoEntry)
    /\ throughout' = Present
    /\ UNCHANGED <<row, deleter, lost>>

NextPage ==
    /\ listing.pc = "listing"
    /\ Show(listing.cursor)
    /\ lost' = (listing.cursor \notin Present)
    /\ UNCHANGED <<row, deleter, throughout>>

Next ==
    \/ \E e \in Entries, at \in Times : create(e, at)
    \/ \E d \in Deleters : (\E e \in Entries : getOwnedEntry(d, e)) \/ delete(d)
    \/ FirstPage \/ NextPage

Spec == Init /\ [][Next]_vars

-----------------------------------------------------------------------------
\* No entry is listed twice, whatever is written meanwhile; and when the listing
\* ends, every entry that was there all the time was listed, unless the row a
\* cursor named was deleted before it was used.
ListedOnce ==
    /\ \A e \in Entries : seen[e] <= 1
    /\ (listing.pc = "done" /\ ~ lost) => \A e \in throughout : seen[e] = 1
=============================================================================
