------------------------------ MODULE Memories ------------------------------
(* Long-term memories of one learner (memory-manager.service.ts).  A fact has *)
(* versions: an entry is written, then its embedding, then the entry it       *)
(* replaces is pointed at it; each is a statement of its own, and the caller  *)
(* may stop after any.  Only an entry with an embedding and without a         *)
(* successor is found again.                                                  *)
EXTENDS FiniteSets

CONSTANTS
    Entries,        \* ids of AIMemoryEntry
    NoEntry,
    Facts,          \* what entries are about
    Requests

MemoriesBounds == NoEntry \notin Entries

VARIABLES
    entry,          \* Entries -> the row: its fact, whether embedded, and its successor
    req,            \* Requests -> the statement next, the entry replaced and the new one
    surfaced,       \* entries some retrieval has returned
    forked          \* whether two corrections began from one entry, or one stopped before the last step

vars == <<entry, req, surfaced, forked>>

Unwritten == [written |-> FALSE]
Row(fact) == [written |-> TRUE, fact |-> fact, embedded |-> FALSE, next |-> NoEntry]
Idle == [pc |-> "idle", old |-> NoEntry, new |-> NoEntry, fact |-> NoEntry]

Written == {e \in Entries : entry[e].written}

\* What retrieveRelevantMemories selects from.
Current == {e \in Written : entry[e].embedded /\ entry[e].next = NoEntry}

Init ==
    /\ entry = [e \in Entries |-> Unwritten]
    /\ req = [r \in Requests |-> Idle]
    /\ surfaced = {}
    /\ forked = FALSE

-----------------------------------------------------------------------------
\* A request to remember a fact of its own.
writeMemory(r, f) ==
    /\ req[r].pc = "idle" /\ \A e \in Written : entry[e].fact # f
    /\ \A q \in Requests : req[q].fact # f
    /\ req' = [req EXCEPT ![r] = [Idle EXCEPT !.pc = "create", !.fact = f]]
    /\ UNCHANGED <<entry, surfaced, forked>>

\* A correction of an entry that was retrieved, by now perhaps corrected already.
supersedeMemory(r, old) ==
    /\ req[r].pc = "idle" /\ old \in surfaced
    /\ req' = [req EXCEPT ![r] = [Idle EXCEPT !.pc = "create", !.old = old, !.fact = entry[old].fact]]
    /\ forked' = (forked \/ entry[old].next # NoEntry \/ \E q \in Requests : req[q].old = old)
    /\ UNCHANGED <<entry, surfaced>>

\* Ids are random: which one a new entry has makes no difference.
CreateEntry(r) ==
    LET e == CHOOSE id \in Entries : id \notin Written
    IN  /\ req[r].pc = "create" /\ Entries # Written
        /\ entry' = [entry EXCEPT ![e] = Row(req[r].fact)]
        /\ req' = [req EXCEPT ![r].pc = "embed", ![r].new = e]
        /\ UNCHANGED <<surfaced, forked>>

AfterEmbedding(r) ==
    IF req[r].old = NoEntry THEN Idle ELSE [req[r] EXCEPT !.pc = "point"]

\* SetEmbedding with its failure ignored.
SetEmbeddingMaybe(r) ==
    /\ req[r].pc = "embed"
    /\ \E ok \in BOOLEAN : entry' = [entry EXCEPT ![req[r].new].embedded = ok]
    /\ req' = [req EXCEPT ![r] = AfterEmbedding(r)]
    /\ UNCHANGED <<surfaced, forked>>

SetEmbedding(r) ==
    /\ req[r].pc = "embed"
    /\ entry' = [entry EXCEPT ![req[r].new].embedded = TRUE]
    /\ req' = [req EXCEPT ![r] = AfterEmbedding(r)]
    /\ UNCHANGED <<surfaced, forked>>

PointForward(r) ==
    LET old == req[r].old
    IN  /\ req[r].pc = "point"
        /\ entry' = [entry EXCEPT ![old].next = req[r].new]
        /\ req' = [req EXCEPT ![r] = Idle]
        /\ UNCHANGED <<surfaced, forked>>

\* The pool, the confidence floor and the token budget leave some of the current
\* entries, always the best one if any passes the floor.
retrieveRelevantMemories ==
    /\ \E found \in SUBSET Current : surfaced' = surfaced \cup found
    /\ UNCHANGED <<entry, req, forked>>

\* The model provider or a statement fails, or the caller goes away.
Stops(r) ==
    /\ req[r].pc # "idle"
    /\ forked' = (forked \/ req[r].pc = "point")
    /\ req' = [req EXCEPT ![r] = Idle]
    /\ UNCHANGED <<entry, surfaced>>

Next ==
    \/ retrieveRelevantMemories
    \/ \E r \in Requests :
         \/ \E f \in Facts : writeMemory(r, f)
         \/ \E e \in Entries : supersedeMemory(r, e)
         \/ CreateEntry(r) \/ SetEmbedding(r) \/ PointForward(r) \/ Stops(r)

Spec == Init /\ [][Next]_vars

-----------------------------------------------------------------------------
\* What is being replaced just now: its successor is embedded and not yet pointed at.
BeingReplaced(e) == \E r \in Requests : req[r].pc = "point" /\ req[r].old = e

\* A fact that has surfaced can surface for ever, through corrections that
\* overlap, come late or stop half way; and while none of them went astray, it
\* does so in one version, but for the moment in which one replaces the other.
FactsKeepAVersion ==
    /\ \A e \in surfaced : \E c \in Current : entry[c].fact = entry[e].fact
    /\ ~ forked => \A c, d \in Current :
         (c # d /\ entry[c].fact = entry[d].fact) => BeingReplaced(c) \/ BeingReplaced(d)
=============================================================================
