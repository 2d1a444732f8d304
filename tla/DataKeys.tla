------------------------------ MODULE DataKeys ------------------------------
(* Keys under which messages of the conversation are encrypted                *)
(* (ai-message-cipher.ts), as one process uses them: the id of the key it     *)
(* encrypts with, and a cache of unwrapped keys with a time to live.  A read  *)
(* of the table and the call that unwraps what was read are apart, and tasks  *)
(* of the process interleave there.  Keys are retired by hand: no code does.  *)
(* A restart of the process empties its cache.                                *)
EXTENDS Integers

CONSTANTS
    Keys,           \* ids of EncryptionDataKey
    NoKey,
    Tasks,          \* encryptions under way in the process
    Ttl,            \* DATA_KEY_CACHE_TTL_MS
    MaxTime         \* bound on the clock

DataKeysBounds == NoKey \notin Keys /\ Ttl \in Nat \ {0}

VARIABLES
    now,
    row,            \* Keys -> the row: when created and retired
    activeKeyId,
    keyCache,       \* Keys -> when cached, and whether the key was retired by then
    task,           \* Tasks -> the step next and the key it holds
    sealed          \* the last encryption, if its key was retired: how long ago, and whether cached since

vars == <<now, row, activeKeyId, keyCache, task, sealed>>

Never == -1
Missing == [created |-> Never, retired |-> Never]
Uncached == [at |-> Never, late |-> FALSE]
WithActive == [age |-> 0, late |-> FALSE]
Idle == [pc |-> "idle", key |-> NoKey]

Stored == {k \in Keys : row[k].created # Never}
Active == {k \in Stored : row[k].retired = Never}

Init ==
    /\ now = 0
    /\ row = [k \in Keys |-> Missing]
    /\ activeKeyId = NoKey
    /\ keyCache = [k \in Keys |-> Uncached]
    /\ task = [t \in Tasks |-> Idle]
    /\ sealed = WithActive

-----------------------------------------------------------------------------
Cached(k) == keyCache[k].at # Never

\* Freshness forgotten: a key stays cached until the process ends.
isCached(k) == Cached(k)

isFresh(k) == Cached(k) /\ now - keyCache[k].at < Ttl

ActiveIsFresh == activeKeyId # NoKey /\ isFresh(activeKeyId)

\* The message is stored with the id of the key in front.
Seal(k, late) ==
    sealed' = IF k \in Active THEN WithActive ELSE [age |-> now - row[k].retired, late |-> late]

CacheKey(k) == keyCache' = [keyCache EXCEPT ![k] = [at |-> now, late |-> row'[k].retired # Never]]

encryptAiMessageContent(t) ==
    /\ task[t].pc = "idle"
    /\ \/ /\ ActiveIsFresh
          /\ Seal(activeKeyId, keyCache[activeKeyId].late)
          /\ UNCHANGED task
       \/ /\ ~ ActiveIsFresh
          /\ task' = [task EXCEPT ![t].pc = "find"]
          /\ UNCHANGED sealed
    /\ UNCHANGED <<now, row, activeKeyId, keyCache>>

\* The newest active key (of two as old as each other, either), or none.
FindActiveKey(t) ==
    /\ task[t].pc = "find"
    /\ \/ \E k \in Active :
            /\ \A j \in Active : row[j].created <= row[k].created
            /\ task' = [task EXCEPT ![t] = [pc |-> "unwrap", key |-> k]]
       \/ Active = {} /\ task' = [task EXCEPT ![t].pc = "generate"]
    /\ UNCHANGED <<now, row, activeKeyId, keyCache, sealed>>

\* Unwrapped; the row may have been retired since it was read.
UseFound(t) ==
    LET k == task[t].key
    IN  /\ task[t].pc = "unwrap"
        /\ UNCHANGED <<now, row>>
        /\ activeKeyId' = k
        /\ CacheKey(k) /\ Seal(k, TRUE)
        /\ task' = [task EXCEPT ![t] = Idle]

\* Ids are random: which one a new key has makes no difference.
CreateKey(t) ==
    /\ task[t].pc = "generate" /\ Keys # Stored
    /\ LET k == CHOOSE key \in Keys : key \notin Stored
       IN  /\ row' = [row EXCEPT ![k].created = now]
           /\ activeKeyId' = k
           /\ CacheKey(k)
    /\ sealed' = WithActive
    /\ task' = [task EXCEPT ![t] = Idle]
    /\ UNCHANGED now

\* Reading a message; each stored key has encrypted one.  What is unwrapped never
\* changes, so that only the moment of caching counts.
decryptAiMessageContent(k) ==
    /\ k \in Stored /\ ~ isFresh(k)
    /\ UNCHANGED <<now, row, activeKeyId, task, sealed>>
    /\ CacheKey(k)

Fails(t) ==
    /\ task[t].pc # "idle"
    /\ task' = [task EXCEPT ![t] = Idle]
    /\ UNCHANGED <<now, row, activeKeyId, keyCache, sealed>>

Restart ==
    /\ activeKeyId' = NoKey
    /\ keyCache' = [k \in Keys |-> Uncached]
    /\ task' = [t \in Tasks |-> Idle]
    /\ UNCHANGED <<now, row, sealed>>

Retire(k) ==
    /\ k \in Active
    /\ row' = [row EXCEPT ![k].retired = now]
    /\ UNCHANGED <<now, activeKeyId, keyCache, task, sealed>>

Tick ==
    /\ now < MaxTime
    /\ now' = now + 1
    /\ UNCHANGED <<row, activeKeyId, keyCache, task, sealed>>

Next ==
    \/ \E t \in Tasks :
         \/ encryptAiMessageContent(t) \/ FindActiveKey(t) \/ UseFound(t)
         \/ CreateKey(t) \/ Fails(t)
    \/ \E k \in Keys : decryptAiMessageContent(k) \/ Retire(k)
    \/ Restart \/ Tick

Spec == Init /\ [][Next]_vars

-----------------------------------------------------------------------------
\* A process encrypts with a key retired for longer than the time to live only
\* if it cached the key again after that: for a message it had to read, or by an
\* encryption that had found it while it was active.
RetiredKeyOnlyRenewed == sealed.age >= Ttl => sealed.late
=============================================================================
