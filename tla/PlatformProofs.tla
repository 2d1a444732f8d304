--------------------------- MODULE PlatformProofs ---------------------------
(***************************************************************************)
(* Theorems about the five instances of Platform: row-level security       *)
(* (Tenants, an instance of TenantRls), the memories of a learner          *)
(* (Learner, of Memories), data keys (Cipher, of DataKeys), listings by    *)
(* pages (Dictionary, of Listings) and the reference data script           *)
(* (Reference, of Seed).                                                   *)
(*                                                                         *)
(* They share no state and little reasoning; each part below states its    *)
(* inductive invariant (TenantInv, CipherInv, MemoryInv, SeedInv,          *)
(* ListingInv), shows that the initial states have it and that every       *)
(* action keeps it, and ends in the theorem.                               *)
(***************************************************************************)
EXTENDS Platform, FiniteSetTheorems, WellFoundedInduction, TLAPS

-----------------------------------------------------------------------------
(* Tenants: the settings of a transaction are those of its own caller.      *)

USE DEF Tenants!Commands

\* What the session variables may hold.
Settings ==
    [user : Tenants!Users \cup {Empty, Null}, org : Orgs \cup {NilOrg, Empty, Null},
     role : {"MEMBER", "ENTERPRISE_ADMIN", NoRole, Empty, Null},
     admin : {"true", "false", Empty, Null}]

Transaction == [owner : Requests \cup {Null}, set : Settings]

Callers == Tenants!Claims \cup {Tenants!NoContext}

TenantHeld ==
    [pc : {"idle", "ready", "set", "done"}, ctx : Callers, result : SUBSET Tenants!Rows,
     failed : BOOLEAN, cmd : Tenants!Commands]

TenantShape == conn \in [Connections -> Transaction] /\ req \in [Requests -> TenantHeld]

\* What a transaction of ctx sets, whatever the connection had.
Own(ctx) == [user |-> ctx.user, admin |-> Tenants!String(ctx.admin),
             org |-> IF ctx.org = Null THEN NilOrg ELSE ctx.org,
             role |-> IF ctx.role = Null THEN NoRole ELSE ctx.role]

\* A connection is a request's only once the variables are set on it.
OwnSettings ==
    \A r \in Requests : \A c \in Connections : conn[c].owner = r =>
        /\ req[r].pc \notin {"idle", "ready"}
        /\ req[r].pc = "set" => req[r].ctx # Tenants!NoContext /\ conn[c].set = Own(req[r].ctx)

TenantInv == TenantShape /\ OwnSettings /\ StatementsAsTheirCaller

LEMMA RlsIsBounded == Tenants!RlsBounds
BY PlatformBounds DEF PlatformBounds

\* What a caller's settings admit, the caller is entitled to.
LEMMA AdmittedIsEntitled ==
    ASSUME NEW ctx \in Tenants!Claims, NEW cmd \in Tenants!Commands, NEW row \in Tenants!Rows,
           Tenants!Admitted(Own(ctx), cmd, row)
    PROVE  Tenants!Entitled(ctx, cmd, row)
<1> DEFINE s == Own(ctx)
<1>1. /\ ctx.user \in Tenants!Users /\ ctx.org \in Orgs \cup {Null} /\ ctx.admin \in BOOLEAN
      /\ ctx.user # Null
  BY RlsIsBounded DEF Tenants!Claims, Tenants!RlsBounds, Tenants!Users
<1>2. row.org \in Orgs \cup {Null} /\ row.table \in {"User", "Organization", "OrganizationMembership", "AuditLog",
                                                     "Subscription"}
  BY RlsIsBounded DEF Tenants!Rows, Tenants!Row, Tenants!RlsBounds, Tenants!Users
<1>3. Tenants!Self(s, row) => row.user = ctx.user
  BY DEF Tenants!Self, Own
<1>4. Tenants!SameOrg(s, row) => ctx.org # Null /\ row.org = ctx.org
  BY <1>1, <1>2, RlsIsBounded DEF Tenants!SameOrg, Own, Tenants!RlsBounds
<1>5. Tenants!OrgAdmin(s, row) => ctx.org # Null /\ row.org = ctx.org /\ ctx.role = "ENTERPRISE_ADMIN"
  BY <1>4, RlsIsBounded DEF Tenants!OrgAdmin, Own, Tenants!RlsBounds
<1>6. Tenants!Admin(s) => ctx.admin
  BY <1>1 DEF Tenants!Admin, Own, Tenants!String
<1>7. Tenants!Applied(s, cmd, row)
  BY DEF Tenants!Admitted
<1> HIDE DEF s
<1>8. CASE cmd = "SELECT"
  <2>1. Tenants!ReadPolicy(s, row)
    BY <1>7, <1>8 DEF Tenants!Applied
  <2> QED
    BY <2>1, <1>3, <1>4, <1>6, <1>8 DEF Tenants!ReadPolicy, Tenants!Entitled,
       Tenants!user_read, Tenants!org_read, Tenants!membership_read, Tenants!audit_read,
       Tenants!subscription_read
<1>9. CASE cmd # "SELECT"
  <2>1. Tenants!WritePolicy(s, cmd, row)
    BY <1>7, <1>9 DEF Tenants!Applied
  <2> QED
    BY <2>1, <1>2, <1>3, <1>4, <1>5, <1>6, <1>9 DEF Tenants!WritePolicy, Tenants!Entitled,
       Tenants!user_update, Tenants!org_update, Tenants!membership_write, Tenants!subscription_read
<1> QED BY <1>8, <1>9

LEMMA OwnIsCastable ==
    ASSUME NEW ctx \in Tenants!Claims
    PROVE  Own(ctx) \in Settings /\ Tenants!Castable(Own(ctx))
<1>1. /\ ctx.user \in Tenants!Users /\ ctx.org \in Orgs \cup {Null} /\ ctx.admin \in BOOLEAN
      /\ ctx.role \in {"MEMBER", "ENTERPRISE_ADMIN", Null}
  BY DEF Tenants!Claims
<1> QED BY <1>1, RlsIsBounded
  DEF Own, Settings, Tenants!Castable, Tenants!RlsBounds, Tenants!String, Tenants!Users

LEMMA TenantStarts == Tenants!Init => TenantInv
<1> SUFFICES ASSUME Tenants!Init PROVE TenantInv
  OBVIOUS
<1>1. Tenants!Idle \in TenantHeld /\ Tenants!Idle.pc = "idle"
  BY DEF Tenants!Idle, TenantHeld, Callers
<1>2. [owner |-> Null, set |-> Tenants!Unset] \in Transaction
  BY DEF Transaction, Settings, Tenants!Unset
<1>3. Null \notin Requests
  BY RlsIsBounded DEF Tenants!RlsBounds
<1> QED BY <1>1, <1>2, <1>3
  DEF Tenants!Init, TenantInv, TenantShape, OwnSettings, StatementsAsTheirCaller,
      Tenants!StatementsAsTheirCaller

LEMMA SetSessionVarsKeeps ==
    ASSUME TenantInv, NEW r \in Requests, NEW c \in Connections, Tenants!SetSessionVars(r, c)
    PROVE  TenantInv'
<1> DEFINE ctx == req[r].ctx
<1>1. ctx \in Tenants!Claims /\ ctx # Tenants!NoContext /\ req[r] \in TenantHeld
  BY DEF Tenants!SetSessionVars, TenantInv, TenantShape, TenantHeld, Callers
<1>2. conn' = [conn EXCEPT ![c] = [owner |-> r, set |-> Own(ctx)]]
  BY DEF Tenants!SetSessionVars, Tenants!buildSetSessionVarsSql, Own
<1>3. [owner |-> r, set |-> Own(ctx)] \in Transaction
  BY <1>1, OwnIsCastable DEF Transaction
<1>4. req' = [req EXCEPT ![r].pc = "set"] /\ req[r].pc = "ready"
  BY DEF Tenants!SetSessionVars
<1>5. TenantShape'
  BY <1>1, <1>2, <1>3, <1>4 DEF TenantInv, TenantShape, TenantHeld
<1>6. OwnSettings'
  BY <1>1, <1>2, <1>4 DEF TenantInv, TenantShape, TenantHeld, Transaction, OwnSettings
<1>7. StatementsAsTheirCaller'
  BY <1>4 DEF TenantInv, TenantShape, TenantHeld, StatementsAsTheirCaller,
     Tenants!StatementsAsTheirCaller
<1> QED BY <1>5, <1>6, <1>7 DEF TenantInv

LEMMA RunsHeld ==
    ASSUME TenantInv, NEW r \in Requests, NEW s, NEW rows, NEW cmd \in Tenants!Commands,
           Tenants!Runs(r, s, rows, cmd)
    PROVE  /\ req' \in [Requests -> TenantHeld]
           /\ req'[r].pc = "done" /\ req'[r].ctx = req[r].ctx /\ req'[r].cmd = cmd
           /\ Tenants!Castable(s) => ~ req'[r].failed
           /\ \A row \in req'[r].result : row \in Tenants!Rows /\ Tenants!Admitted(s, cmd, row)
           /\ \A q \in Requests \ {r} : req'[q] = req[q]
<1> DEFINE result == IF Tenants!Castable(s)
                     THEN {row \in Tenants!Rows : row.table = rows /\ Tenants!Admitted(s, cmd, row)}
                     ELSE {}
           failed == ~ Tenants!Castable(s)
<1>1. req' = [req EXCEPT ![r].pc = "done", ![r].cmd = cmd, ![r].failed = failed, ![r].result = result]
  BY DEF Tenants!Runs
<1>2. result \in SUBSET Tenants!Rows /\ failed \in BOOLEAN
  BY DEF Tenants!Castable
<1>3. \A row \in result : row \in Tenants!Rows /\ Tenants!Admitted(s, cmd, row)
  OBVIOUS
<1>4. Tenants!Castable(s) => ~ failed
  OBVIOUS
<1> HIDE DEF result, failed
<1>5. req[r] \in TenantHeld /\ req \in [Requests -> TenantHeld]
  BY DEF TenantInv, TenantShape
<1>6. PICK held : held = [req[r] EXCEPT !.pc = "done", !.cmd = cmd, !.failed = failed, !.result = result]
  OBVIOUS
<1>7. /\ held \in TenantHeld /\ held.pc = "done" /\ held.ctx = req[r].ctx /\ held.cmd = cmd
      /\ held.failed = failed /\ held.result = result
  BY <1>2, <1>5, <1>6 DEF TenantHeld
<1>8. req' = [req EXCEPT ![r] = held]
  BY <1>1, <1>5, <1>6
<1> QED BY <1>3, <1>4, <1>5, <1>7, <1>8

LEMMA QueryKeeps ==
    ASSUME TenantInv, NEW r \in Requests, NEW rows, NEW cmd \in Tenants!Commands,
           Tenants!Query(r, rows, cmd)
    PROVE  TenantInv'
<1>1. PICK c \in Connections : conn[c].owner = r /\ Tenants!Runs(r, conn[c].set, rows, cmd)
  BY DEF Tenants!Query
<1>2. conn' = conn /\ req[r].pc = "set"
  BY DEF Tenants!Query
<1>3. conn[c].set = Own(req[r].ctx) /\ req[r].ctx \in Tenants!Claims
  BY <1>1, <1>2 DEF TenantInv, TenantShape, TenantHeld, OwnSettings, Callers
<1>4. ~ req'[r].failed /\ \A row \in req'[r].result : Tenants!Entitled(req'[r].ctx, req'[r].cmd, row)
  BY <1>1, <1>3, RunsHeld, OwnIsCastable, AdmittedIsEntitled
<1>5. TenantShape'
  BY <1>1, <1>2, RunsHeld DEF TenantInv, TenantShape
<1>6. OwnSettings'
  BY <1>1, <1>2, RunsHeld DEF TenantInv, OwnSettings
<1>7. StatementsAsTheirCaller'
  BY <1>1, <1>4, RunsHeld DEF TenantInv, StatementsAsTheirCaller, Tenants!StatementsAsTheirCaller
<1> QED BY <1>5, <1>6, <1>7 DEF TenantInv

LEMMA PassThroughKeeps ==
    ASSUME TenantInv, NEW r \in Requests, NEW c \in Connections, NEW rows,
           NEW cmd \in Tenants!Commands, Tenants!PassThrough(r, c, rows, cmd)
    PROVE  TenantInv'
<1>1. /\ Tenants!Runs(r, conn[c].set, rows, cmd) /\ conn' = conn
      /\ req[r].pc = "ready" /\ req[r].ctx = Tenants!NoContext
  BY DEF Tenants!PassThrough
<1>2. TenantShape'
  BY <1>1, RunsHeld DEF TenantInv, TenantShape
<1>3. OwnSettings'
  BY <1>1, RunsHeld DEF TenantInv, OwnSettings
<1>4. StatementsAsTheirCaller'
  BY <1>1, RunsHeld DEF TenantInv, StatementsAsTheirCaller, Tenants!StatementsAsTheirCaller
<1> QED BY <1>2, <1>3, <1>4 DEF TenantInv

LEMMA FinishKeeps ==
    ASSUME TenantInv, NEW r \in Requests, Tenants!Finish(r)
    PROVE  TenantInv'
<1>1. PICK left \in {"kept", "reverted"} :
        conn' = [c \in Connections |->
                   IF conn[c].owner # r THEN conn[c]
                   ELSE [owner |-> Null, set |-> IF left = "kept" THEN conn[c].set ELSE Tenants!Reverted]]
  BY DEF Tenants!Finish
<1>2. Tenants!Reverted \in Settings
  BY DEF Tenants!Reverted, Settings
<1>3. /\ conn' \in [Connections -> Transaction]
      /\ \A c \in Connections : conn'[c].owner # r /\ (conn'[c].owner \in Requests => conn'[c] = conn[c])
  BY <1>1, <1>2, RlsIsBounded DEF TenantInv, TenantShape, Transaction, Tenants!RlsBounds
<1>4. PICK held \in TenantHeld : req' = [req EXCEPT ![r] = held] /\ held.pc \in {"idle", "ready"}
  <2>1. Tenants!Idle \in TenantHeld /\ Tenants!Idle.pc = "idle"
    BY DEF Tenants!Idle, TenantHeld, Callers
  <2>2. [Tenants!Idle EXCEPT !.pc = "ready", !.ctx = req[r].ctx] \in TenantHeld
    BY DEF Tenants!Idle, TenantHeld, TenantInv, TenantShape
  <2>3. [Tenants!Idle EXCEPT !.pc = "ready", !.ctx = req[r].ctx].pc = "ready"
    BY DEF Tenants!Idle
  <2> QED BY <2>1, <2>2, <2>3 DEF Tenants!Finish
<1>5. TenantShape'
  BY <1>3, <1>4 DEF TenantInv, TenantShape
<1>6. OwnSettings'
  BY <1>3, <1>4 DEF TenantInv, TenantShape, OwnSettings
<1>7. StatementsAsTheirCaller'
  BY <1>4 DEF TenantInv, TenantShape, StatementsAsTheirCaller, Tenants!StatementsAsTheirCaller
<1> QED BY <1>5, <1>6, <1>7 DEF TenantInv

LEMMA InterceptKeeps ==
    ASSUME TenantInv, NEW r \in Requests, NEW ctx \in Callers, Tenants!intercept(r, ctx)
    PROVE  TenantInv'
<1>1. req' = [req EXCEPT ![r].pc = "ready", ![r].ctx = ctx] /\ conn' = conn /\ req[r].pc = "idle"
  BY DEF Tenants!intercept
<1>2. TenantShape'
  BY <1>1 DEF TenantInv, TenantShape, TenantHeld
<1>3. OwnSettings'
  BY <1>1 DEF TenantInv, TenantShape, TenantHeld, OwnSettings
<1>4. StatementsAsTheirCaller'
  BY <1>1 DEF TenantInv, TenantShape, TenantHeld, StatementsAsTheirCaller,
     Tenants!StatementsAsTheirCaller
<1> QED BY <1>2, <1>3, <1>4 DEF TenantInv

\* Whatever the transaction before left on a connection, a statement of a request
\* with a context is admitted to no row its caller is not entitled to, and fails on
\* no cast: for any users, organisations, pool and requests (TenantRlsExtension).
THEOREM EachAsItsCaller == Tenants!Spec => []StatementsAsTheirCaller
<1>1. ASSUME TenantInv, [Tenants!Next]_(Tenants!vars) PROVE TenantInv'
  <2>1. CASE Tenants!Next
    BY <1>1, <2>1, InterceptKeeps, SetSessionVarsKeeps, QueryKeeps, PassThroughKeeps, FinishKeeps
       DEF Tenants!Next, Callers
  <2>2. CASE UNCHANGED Tenants!vars
    BY <1>1, <2>2 DEF Tenants!vars, TenantInv, TenantShape, OwnSettings, StatementsAsTheirCaller,
       Tenants!StatementsAsTheirCaller
  <2> QED BY <1>1, <2>1, <2>2
<1>2. TenantInv => StatementsAsTheirCaller
  BY DEF TenantInv
<1> QED BY <1>1, <1>2, TenantStarts, PTL DEF Tenants!Spec

-----------------------------------------------------------------------------
(* Cipher: a key cached before it was retired is fresh for so long.         *)

Moment == Nat \cup {Cipher!Never}

KeyRow == [created : Moment, retired : Moment]

TaskHeld == [pc : {"idle", "find", "unwrap", "generate"}, key : Keys \cup {NoKey}]

CipherShape ==
    /\ clock \in Nat /\ keyRow \in [Keys -> KeyRow]
    /\ activeKeyId \in Keys \cup {NoKey}
    /\ keyCache \in [Keys -> [at : Moment, late : BOOLEAN]]
    /\ task \in [Tasks -> TaskHeld]
    /\ sealed \in [age : Int, late : BOOLEAN]

\* Only stored keys are cached, and those cached early were not yet retired then.
CachedInTime ==
    \A k \in Keys : Cipher!Cached(k) =>
        /\ k \in Cipher!Stored /\ keyCache[k].at <= clock
        /\ (~ keyCache[k].late /\ keyRow[k].retired # Cipher!Never) =>
             keyCache[k].at <= keyRow[k].retired

FoundIsStored == \A t \in Tasks : task[t].pc = "unwrap" => task[t].key \in Cipher!Stored

CipherInv == CipherShape /\ CachedInTime /\ FoundIsStored /\ RetiredKeyOnlyRenewed

LEMMA KeysAreBounded == NoKey \notin Keys /\ Ttl \in Nat \ {0}
BY PlatformBounds DEF PlatformBounds, Cipher!DataKeysBounds

LEMMA CipherStarts == Cipher!Init => CipherInv
<1> SUFFICES ASSUME Cipher!Init PROVE CipherInv
  OBVIOUS
<1>1. CipherShape
  BY DEF Cipher!Init, CipherShape, Cipher!Missing, Cipher!Uncached, Cipher!WithActive, Cipher!Idle,
     Cipher!Never, KeyRow, Moment, TaskHeld
<1>2. CachedInTime
  BY DEF Cipher!Init, CachedInTime, Cipher!Cached, Cipher!Uncached
<1>3. FoundIsStored
  BY DEF Cipher!Init, FoundIsStored, Cipher!Idle
<1>4. RetiredKeyOnlyRenewed
  BY KeysAreBounded DEF Cipher!Init, RetiredKeyOnlyRenewed, Cipher!RetiredKeyOnlyRenewed,
     Cipher!WithActive
<1> QED BY <1>1, <1>2, <1>3, <1>4 DEF CipherInv

\* A key is cached; rows only come to be stored.
LEMMA CachingKeeps ==
    ASSUME CipherInv, NEW k \in Cipher!Stored', Cipher!CacheKey(k), clock' = clock,
           keyRow' \in [Keys -> KeyRow], Cipher!Stored \subseteq Cipher!Stored',
           \A j \in Keys \ {k} : keyRow'[j] = keyRow[j]
    PROVE  keyCache' \in [Keys -> [at : Moment, late : BOOLEAN]] /\ CachedInTime'
<1>1. keyCache' = [keyCache EXCEPT ![k] = [at |-> clock, late |-> keyRow'[k].retired # Cipher!Never]]
  BY DEF Cipher!CacheKey
<1>2. k \in Keys
  BY DEF Cipher!Stored
<1>3. [at |-> clock, late |-> keyRow'[k].retired # Cipher!Never] \in [at : Moment, late : BOOLEAN]
  BY DEF CipherInv, CipherShape, Moment
<1>4. keyCache' \in [Keys -> [at : Moment, late : BOOLEAN]]
  BY <1>1, <1>2, <1>3 DEF CipherInv, CipherShape
<1>5. ASSUME NEW j \in Keys, Cipher!Cached(j)'
      PROVE  /\ j \in Cipher!Stored' /\ keyCache'[j].at <= clock'
             /\ (~ keyCache'[j].late /\ keyRow'[j].retired # Cipher!Never) =>
                  keyCache'[j].at <= keyRow'[j].retired
  <2>1. CASE j = k
    <3>1. keyCache'[j] = [at |-> clock, late |-> keyRow'[j].retired # Cipher!Never]
      BY <1>1, <1>2, <2>1 DEF CipherInv, CipherShape
    <3> DEFINE late == keyRow'[j].retired # Cipher!Never
    <3>2. keyCache'[j].at = clock /\ keyCache'[j].late = late
      <4>1. keyCache'[j] = [at |-> clock, late |-> late]
        BY <3>1
      <4> HIDE DEF late
      <4> QED BY <4>1
    <3>3. j \in Cipher!Stored' /\ keyCache'[j].at <= clock'
      BY <2>1, <3>2 DEF CipherInv, CipherShape
    <3> QED BY <3>2, <3>3, Zenon
  <2>2. CASE j # k
    <3>1. keyCache'[j] = keyCache[j] /\ keyRow'[j] = keyRow[j]
      BY <1>1, <2>2 DEF CipherInv, CipherShape
    <3> QED BY <1>5, <3>1 DEF CipherInv, CachedInTime, Cipher!Cached
  <2> QED BY <2>1, <2>2
<1> QED BY <1>4, <1>5 DEF CachedInTime

LEMMA EncryptKeeps ==
    ASSUME CipherInv, NEW t \in Tasks, Cipher!encryptAiMessageContent(t)
    PROVE  CipherInv'
<1>1. UNCHANGED <<clock, keyRow, activeKeyId, keyCache>>
  BY DEF Cipher!encryptAiMessageContent
<1>2. CachedInTime'
  BY <1>1 DEF CipherInv, CachedInTime, Cipher!Cached, Cipher!Stored
<1>3. CASE Cipher!ActiveIsFresh /\ Cipher!Seal(activeKeyId, keyCache[activeKeyId].late) /\ task' = task
  <2> DEFINE k == activeKeyId
  <2>1. k \in Keys /\ Cipher!Cached(k) /\ clock - keyCache[k].at < Ttl
    BY <1>3 DEF Cipher!ActiveIsFresh, Cipher!isFresh, CipherInv, CipherShape
  <2>2. /\ keyCache[k].at \in Nat /\ keyCache[k].late \in BOOLEAN /\ clock \in Nat
        /\ keyRow[k].retired \in Moment /\ keyRow[k].created \in Moment
    BY <2>1 DEF CipherInv, CipherShape, Cipher!Cached, Moment, KeyRow
  <2>3. k \in Cipher!Stored
    BY <2>1 DEF CipherInv, CachedInTime
  <2>4. CASE k \in Cipher!Active
    <3>1. sealed' = Cipher!WithActive
      BY <1>3, <2>4 DEF Cipher!Seal
    <3>2. sealed' \in [age : Int, late : BOOLEAN] /\ RetiredKeyOnlyRenewed'
      BY <3>1, KeysAreBounded DEF Cipher!WithActive, RetiredKeyOnlyRenewed,
         Cipher!RetiredKeyOnlyRenewed
    <3> QED BY <1>1, <1>2, <1>3, <3>2 DEF CipherInv, CipherShape, FoundIsStored, Cipher!Stored
  <2>5. CASE k \notin Cipher!Active
    <3>1. sealed' = [age |-> clock - keyRow[k].retired, late |-> keyCache[k].late]
      BY <1>3, <2>5 DEF Cipher!Seal
    <3>2. keyRow[k].retired \in Nat /\ keyRow[k].retired # Cipher!Never
      BY <2>2, <2>3, <2>5 DEF Cipher!Active, Moment, Cipher!Never
    <3>3. ~ keyCache[k].late => clock - keyRow[k].retired < Ttl
      <4>1. ~ keyCache[k].late => keyCache[k].at <= keyRow[k].retired
        BY <2>1, <3>2 DEF CipherInv, CachedInTime
      <4> QED BY <4>1, <2>1, <2>2, <3>2, KeysAreBounded
    <3>4. clock - keyRow[k].retired \in Int
      BY <2>2, <3>2
    <3>5. RetiredKeyOnlyRenewed'
      BY <3>1, <3>3, <3>4, <2>2, KeysAreBounded DEF RetiredKeyOnlyRenewed, Cipher!RetiredKeyOnlyRenewed
    <3> QED BY <1>1, <1>2, <1>3, <2>2, <3>1, <3>4, <3>5
      DEF CipherInv, CipherShape, FoundIsStored, Cipher!Stored
  <2> QED BY <2>4, <2>5
<1>4. CASE task' = [task EXCEPT ![t].pc = "find"] /\ sealed' = sealed
  BY <1>1, <1>2, <1>4 DEF CipherInv, CipherShape, FoundIsStored, TaskHeld, Cipher!Stored,
     RetiredKeyOnlyRenewed, Cipher!RetiredKeyOnlyRenewed
<1> QED BY <1>3, <1>4 DEF Cipher!encryptAiMessageContent

LEMMA FindActiveKeyKeeps ==
    ASSUME CipherInv, NEW t \in Tasks, Cipher!FindActiveKey(t)
    PROVE  CipherInv'
<1>1. UNCHANGED <<clock, keyRow, activeKeyId, keyCache, sealed>>
  BY DEF Cipher!FindActiveKey
<1>2. PICK held \in TaskHeld : /\ task' = [task EXCEPT ![t] = held]
                               /\ held.pc = "unwrap" => held.key \in Cipher!Stored
  <2>1. CASE Cipher!Active = {} /\ task' = [task EXCEPT ![t].pc = "generate"]
    <3>1. [task[t] EXCEPT !.pc = "generate"] \in TaskHeld
      BY DEF CipherInv, CipherShape, TaskHeld
    <3> QED BY <2>1, <3>1 DEF CipherInv, CipherShape, TaskHeld
  <2>2. ASSUME NEW k \in Cipher!Active, task' = [task EXCEPT ![t] = [pc |-> "unwrap", key |-> k]]
        PROVE  \E held \in TaskHeld : /\ task' = [task EXCEPT ![t] = held]
                                      /\ held.pc = "unwrap" => held.key \in Cipher!Stored
    <3>1. [pc |-> "unwrap", key |-> k] \in TaskHeld /\ k \in Cipher!Stored
      BY DEF TaskHeld, Cipher!Active, Cipher!Stored
    <3> QED BY <2>2, <3>1
  <2> QED BY <2>1, <2>2 DEF Cipher!FindActiveKey
<1> QED BY <1>1, <1>2 DEF CipherInv, CipherShape, CachedInTime, FoundIsStored, Cipher!Cached,
       Cipher!Stored, RetiredKeyOnlyRenewed, Cipher!RetiredKeyOnlyRenewed

LEMMA UseFoundKeeps ==
    ASSUME CipherInv, NEW t \in Tasks, Cipher!UseFound(t)
    PROVE  CipherInv'
<1> DEFINE k == task[t].key
<1>1. /\ UNCHANGED <<clock, keyRow>> /\ activeKeyId' = k /\ Cipher!CacheKey(k)
      /\ Cipher!Seal(k, TRUE) /\ task' = [task EXCEPT ![t] = Cipher!Idle] /\ task[t].pc = "unwrap"
  BY DEF Cipher!UseFound
<1>2. k \in Cipher!Stored /\ k \in Keys /\ Cipher!Stored' = Cipher!Stored
  BY <1>1 DEF CipherInv, FoundIsStored, Cipher!Stored
<1>3. keyCache' \in [Keys -> [at : Moment, late : BOOLEAN]] /\ CachedInTime'
  <2>1. keyRow' \in [Keys -> KeyRow] /\ \A j \in Keys : keyRow'[j] = keyRow[j]
    BY <1>1 DEF CipherInv, CipherShape
  <2> QED BY <1>1, <1>2, <2>1, CachingKeeps
<1>4. Cipher!Idle \in TaskHeld /\ Cipher!Idle.pc = "idle"
  BY DEF Cipher!Idle, TaskHeld
<1>5. sealed' \in [age : Int, late : BOOLEAN] /\ RetiredKeyOnlyRenewed'
  <2>1. CASE k \in Cipher!Active
    <3>1. sealed' = Cipher!WithActive
      BY <1>1, <2>1 DEF Cipher!Seal
    <3> QED BY <3>1, KeysAreBounded DEF Cipher!WithActive, RetiredKeyOnlyRenewed,
           Cipher!RetiredKeyOnlyRenewed
  <2>2. CASE k \notin Cipher!Active
    <3>1. sealed' = [age |-> clock - keyRow[k].retired, late |-> TRUE]
      BY <1>1, <2>2 DEF Cipher!Seal
    <3>2. clock - keyRow[k].retired \in Int
      BY <1>2 DEF CipherInv, CipherShape, KeyRow, Moment, Cipher!Never
    <3> QED BY <3>1, <3>2 DEF RetiredKeyOnlyRenewed, Cipher!RetiredKeyOnlyRenewed
  <2> QED BY <2>1, <2>2
<1> QED BY <1>1, <1>2, <1>3, <1>4, <1>5 DEF CipherInv, CipherShape, FoundIsStored

LEMMA CreateKeyKeeps ==
    ASSUME CipherInv, NEW t \in Tasks, Cipher!CreateKey(t)
    PROVE  CipherInv'
<1> DEFINE k == CHOOSE key \in Keys : key \notin Cipher!Stored
<1>1. /\ keyRow' = [keyRow EXCEPT ![k].created = clock] /\ activeKeyId' = k /\ Cipher!CacheKey(k)
      /\ sealed' = Cipher!WithActive /\ task' = [task EXCEPT ![t] = Cipher!Idle] /\ clock' = clock
      /\ Keys # Cipher!Stored
  BY DEF Cipher!CreateKey
<1>2. k \in Keys
  <2>1. \E key \in Keys : key \notin Cipher!Stored
    BY <1>1 DEF Cipher!Stored
  <2> QED BY <2>1
<1> HIDE DEF k
<1>3. /\ keyRow' \in [Keys -> KeyRow] /\ k \in Cipher!Stored' /\ Cipher!Stored \subseteq Cipher!Stored'
      /\ \A j \in Keys \ {k} : keyRow'[j] = keyRow[j]
  BY <1>1, <1>2 DEF CipherInv, CipherShape, KeyRow, Moment, Cipher!Stored, Cipher!Never
<1>4. keyCache' \in [Keys -> [at : Moment, late : BOOLEAN]] /\ CachedInTime'
  BY <1>1, <1>3, CachingKeeps
<1>5. Cipher!Idle \in TaskHeld /\ Cipher!Idle.pc = "idle"
  BY DEF Cipher!Idle, TaskHeld
<1>6. sealed' \in [age : Int, late : BOOLEAN] /\ RetiredKeyOnlyRenewed'
  BY <1>1, KeysAreBounded DEF Cipher!WithActive, RetiredKeyOnlyRenewed, Cipher!RetiredKeyOnlyRenewed
<1>7. FoundIsStored'
  BY <1>1, <1>3, <1>5 DEF CipherInv, CipherShape, FoundIsStored
<1> QED BY <1>1, <1>2, <1>3, <1>4, <1>5, <1>6, <1>7 DEF CipherInv, CipherShape

LEMMA DecryptKeeps ==
    ASSUME CipherInv, NEW k \in Keys, Cipher!decryptAiMessageContent(k)
    PROVE  CipherInv'
<1>1. /\ k \in Cipher!Stored /\ Cipher!CacheKey(k)
      /\ UNCHANGED <<clock, keyRow, activeKeyId, task, sealed>>
  BY DEF Cipher!decryptAiMessageContent
<1>2. Cipher!Stored' = Cipher!Stored
  BY <1>1 DEF Cipher!Stored
<1>3. keyCache' \in [Keys -> [at : Moment, late : BOOLEAN]] /\ CachedInTime'
  <2>1. keyRow' \in [Keys -> KeyRow] /\ \A j \in Keys : keyRow'[j] = keyRow[j]
    BY <1>1 DEF CipherInv, CipherShape
  <2> QED BY <1>1, <1>2, <2>1, CachingKeeps
<1> QED BY <1>1, <1>2, <1>3 DEF CipherInv, CipherShape, FoundIsStored, RetiredKeyOnlyRenewed,
       Cipher!RetiredKeyOnlyRenewed

LEMMA CipherAsideKeeps ==
    ASSUME CipherInv,
           \/ \E t \in Tasks : Cipher!Fails(t)
           \/ \E k \in Keys : Cipher!Retire(k)
           \/ Cipher!Restart \/ Cipher!Tick
    PROVE  CipherInv'
<1>1. ASSUME NEW t \in Tasks, Cipher!Fails(t) PROVE CipherInv'
  BY <1>1 DEF Cipher!Fails, Cipher!Idle, TaskHeld, CipherInv, CipherShape, CachedInTime,
     FoundIsStored, Cipher!Cached, Cipher!Stored, RetiredKeyOnlyRenewed, Cipher!RetiredKeyOnlyRenewed
<1>2. ASSUME NEW k \in Keys, Cipher!Retire(k) PROVE CipherInv'
  <2>1. /\ keyRow' = [keyRow EXCEPT ![k].retired = clock]
        /\ UNCHANGED <<clock, activeKeyId, keyCache, task, sealed>>
    BY <1>2 DEF Cipher!Retire
  <2>2. keyRow' \in [Keys -> KeyRow] /\ Cipher!Stored' = Cipher!Stored
    BY <2>1 DEF CipherInv, CipherShape, KeyRow, Moment, Cipher!Stored
  <2>3. CachedInTime'
    BY <2>1, <2>2 DEF CipherInv, CipherShape, CachedInTime, Cipher!Cached, KeyRow
  <2> QED BY <2>1, <2>2, <2>3 DEF CipherInv, CipherShape, FoundIsStored, RetiredKeyOnlyRenewed,
         Cipher!RetiredKeyOnlyRenewed
<1>3. CASE Cipher!Restart
  BY <1>3 DEF Cipher!Restart, Cipher!Uncached, Cipher!Never, Cipher!Idle, TaskHeld, Moment, CipherInv,
     CipherShape, CachedInTime, FoundIsStored, Cipher!Cached, RetiredKeyOnlyRenewed,
     Cipher!RetiredKeyOnlyRenewed
<1>4. CASE Cipher!Tick
  <2>1. clock' = clock + 1 /\ UNCHANGED <<keyRow, activeKeyId, keyCache, task, sealed>>
    BY <1>4 DEF Cipher!Tick
  <2>2. CachedInTime'
    BY <2>1 DEF CipherInv, CipherShape, CachedInTime, Cipher!Cached, Cipher!Stored, Moment,
       Cipher!Never
  <2> QED BY <2>1, <2>2 DEF CipherInv, CipherShape, FoundIsStored, Cipher!Stored,
         RetiredKeyOnlyRenewed, Cipher!RetiredKeyOnlyRenewed
<1> QED BY <1>1, <1>2, <1>3, <1>4

\* However encryptions, readings, failures, restarts and the end of keys fall, a
\* message is encrypted with a key retired for the time to live or longer only if
\* the key was cached again after its end (encryptAiMessageContent).
THEOREM RetiredKeysRunOut == Cipher!Spec => []RetiredKeyOnlyRenewed
<1>1. ASSUME CipherInv, [Cipher!Next]_(Cipher!vars) PROVE CipherInv'
  <2>1. CASE Cipher!Next
    BY <1>1, <2>1, EncryptKeeps, FindActiveKeyKeeps, UseFoundKeeps, CreateKeyKeeps, DecryptKeeps,
       CipherAsideKeeps DEF Cipher!Next
  <2>2. CASE UNCHANGED Cipher!vars
    BY <1>1, <2>2 DEF Cipher!vars, CipherInv, CipherShape, CachedInTime, FoundIsStored,
       Cipher!Cached, Cipher!Stored, RetiredKeyOnlyRenewed, Cipher!RetiredKeyOnlyRenewed
  <2> QED BY <1>1, <2>1, <2>2
<1>2. CipherInv => RetiredKeyOnlyRenewed
  BY DEF CipherInv
<1> QED BY <1>1, <1>2, CipherStarts, PTL DEF Cipher!Spec
-----------------------------------------------------------------------------
(* Learner: the versions of a fact.                                         *)

MemoryRow == [written : {TRUE}, fact : Facts \ {NoMemory}, embedded : BOOLEAN,
              next : MemoryIds \cup {NoMemory}]

MemoryHeld == [pc : {"idle", "create", "embed", "point"}, old : MemoryIds \cup {NoMemory},
               new : MemoryIds \cup {NoMemory}, fact : Facts \cup {NoMemory}]

MemoryShape ==
    /\ entry \in [MemoryIds -> MemoryRow \cup {Learner!Unwritten}]
    /\ memory \in [Requests -> MemoryHeld]
    /\ surfaced \subseteq MemoryIds

Embedded == {e \in Learner!Written : entry[e].embedded}

\* Only what is embedded surfaces, is corrected or has a successor.
VersionsHeld ==
    /\ surfaced \subseteq Embedded
    /\ \A e \in Learner!Written \ Embedded : entry[e].next = NoMemory
    /\ \A r \in Requests :
         /\ memory[r].pc = "idle" => memory[r].old = NoMemory /\ memory[r].fact = NoMemory
         /\ memory[r].pc # "idle" => memory[r].fact \in Facts \ {NoMemory}
         /\ memory[r].old # NoMemory =>
              memory[r].old \in Embedded /\ entry[memory[r].old].fact = memory[r].fact
         /\ memory[r].pc = "embed" => memory[r].new \in Learner!Written \ Embedded
         /\ memory[r].pc = "point" => memory[r].old # NoMemory /\ memory[r].new \in Embedded
         /\ memory[r].pc \in {"embed", "point"} => entry[memory[r].new].fact = memory[r].fact
    /\ \A r, q \in Requests : (memory[r].pc = "embed" /\ memory[q].pc = "embed" /\ r # q) =>
         memory[r].new # memory[q].new

\* In some order of creation, each embedded version has a current one that is
\* not older, and what replaces an entry is younger than it.
Youngest(rank) ==
    /\ rank \in [MemoryIds -> Nat]
    /\ \A e \in Embedded : \E c \in Learner!Current :
         entry[c].fact = entry[e].fact /\ rank[e] <= rank[c]
    /\ \A r \in Requests : (memory[r].pc \in {"embed", "point"} /\ memory[r].old # NoMemory) =>
         rank[memory[r].old] < rank[memory[r].new]

\* An entry without a successor has one correction at most, a new fact one request.
Unforked ==
    \A r \in Requests :
        /\ memory[r].old # NoMemory =>
             /\ entry[memory[r].old].next = NoMemory
             /\ \A q \in Requests \ {r} : memory[q].old # memory[r].old
        /\ (memory[r].pc # "idle" /\ memory[r].old = NoMemory) =>
             /\ \A e \in Learner!Written : entry[e].fact = memory[r].fact =>
                  memory[r].pc = "embed" /\ e = memory[r].new
             /\ \A q \in Requests \ {r} : memory[q].fact # memory[r].fact

OneVersion ==
    \A c, d \in Learner!Current : (c # d /\ entry[c].fact = entry[d].fact) =>
        Learner!BeingReplaced(c) \/ Learner!BeingReplaced(d)

MemoryInv ==
    /\ MemoryShape /\ VersionsHeld
    /\ \E rank : Youngest(rank)
    /\ ~ forked => Unforked /\ OneVersion

LEMMA MemoriesAreBounded == NoMemory \notin MemoryIds
BY PlatformBounds DEF PlatformBounds, Learner!MemoriesBounds

LEMMA MemoryIdle ==
    /\ Learner!Idle \in MemoryHeld /\ Learner!Idle.pc = "idle"
    /\ Learner!Idle.old = NoMemory /\ Learner!Idle.fact = NoMemory
BY DEF Learner!Idle, MemoryHeld

LEMMA WrittenRow ==
    ASSUME MemoryShape
    PROVE  /\ Learner!Written \subseteq MemoryIds
           /\ \A e \in Learner!Written : entry[e] \in MemoryRow
BY DEF MemoryShape, Learner!Written, Learner!Unwritten

LEMMA MemoryStarts == Learner!Init => MemoryInv
<1> SUFFICES ASSUME Learner!Init PROVE MemoryInv
  OBVIOUS
<1>1. MemoryShape /\ Learner!Written = {} /\ Embedded = {} /\ Learner!Current = {}
  BY MemoryIdle DEF Learner!Init, MemoryShape, Learner!Written, Learner!Unwritten, Embedded,
     Learner!Current
<1>2. \A r \in Requests : memory[r] = Learner!Idle
  BY DEF Learner!Init
<1>3. VersionsHeld
  BY <1>1, <1>2, MemoryIdle DEF Learner!Init, VersionsHeld
<1>4. Youngest([e \in MemoryIds |-> 0])
  BY <1>1, <1>2, MemoryIdle DEF Youngest
<1>5. Unforked /\ OneVersion
  BY <1>1, <1>2, MemoryIdle DEF Unforked, OneVersion
<1> QED BY <1>1, <1>3, <1>4, <1>5 DEF MemoryInv

LEMMA RetrieveKeeps ==
    ASSUME MemoryInv, Learner!retrieveRelevantMemories
    PROVE  MemoryInv'
<1>1. PICK found \in SUBSET Learner!Current : surfaced' = surfaced \cup found
  BY DEF Learner!retrieveRelevantMemories
<1>2. UNCHANGED <<entry, memory, forked>>
  BY DEF Learner!retrieveRelevantMemories
<1>3. found \subseteq Embedded /\ found \subseteq MemoryIds
  BY DEF Learner!Current, Embedded, Learner!Written
<1>4. /\ Learner!Written' = Learner!Written /\ Embedded' = Embedded
      /\ Learner!Current' = Learner!Current
  BY <1>2 DEF Learner!Written, Learner!Current, Embedded
<1>5. MemoryShape' /\ VersionsHeld'
  BY <1>1, <1>2, <1>3, <1>4 DEF MemoryInv, MemoryShape, VersionsHeld
<1>6. \E rank : Youngest(rank)'
  BY <1>2, <1>4 DEF MemoryInv, Youngest
<1>7. ~ forked' => (Unforked /\ OneVersion)'
  BY <1>2, <1>4 DEF MemoryInv, Unforked, OneVersion, Learner!BeingReplaced
<1> QED BY <1>5, <1>6, <1>7 DEF MemoryInv

\* A request begins, or stops: no row changes.
LEMMA MemoryMoves ==
    ASSUME MemoryInv, NEW r \in Requests, NEW held \in MemoryHeld,
           memory' = [memory EXCEPT ![r] = held], UNCHANGED <<entry, surfaced>>,
           held.pc \in {"idle", "create"}, held.pc = "idle" => held.old = NoMemory /\ held.fact = NoMemory,
           held.pc = "create" => held.fact \in Facts \ {NoMemory},
           held.old # NoMemory => held.old \in Embedded /\ entry[held.old].fact = held.fact
    PROVE  /\ MemoryShape' /\ VersionsHeld' /\ \E rank : Youngest(rank)'
           /\ Learner!Written' = Learner!Written /\ Embedded' = Embedded
           /\ Learner!Current' = Learner!Current
           /\ memory'[r] = held /\ \A q \in Requests \ {r} : memory'[q] = memory[q]
<1>1. /\ Learner!Written' = Learner!Written /\ Embedded' = Embedded
      /\ Learner!Current' = Learner!Current
  BY DEF Learner!Written, Learner!Current, Embedded
<1>2. memory'[r] = held /\ \A q \in Requests \ {r} : memory'[q] = memory[q]
  BY DEF MemoryInv, MemoryShape
<1>3. MemoryShape'
  BY DEF MemoryInv, MemoryShape
<1>4. VersionsHeld'
  BY <1>1, <1>2 DEF MemoryInv, VersionsHeld
<1>5. \E rank : Youngest(rank)'
  BY <1>1, <1>2 DEF MemoryInv, Youngest
<1> QED BY <1>1, <1>2, <1>3, <1>4, <1>5

LEMMA WriteMemoryKeeps ==
    ASSUME MemoryInv, NEW r \in Requests, NEW f \in Facts, Learner!writeMemory(r, f)
    PROVE  MemoryInv'
<1> DEFINE held == [Learner!Idle EXCEPT !.pc = "create", !.fact = f]
<1>1. /\ held \in MemoryHeld /\ held.pc = "create" /\ held.old = NoMemory /\ held.fact = f
  BY DEF Learner!Idle, MemoryHeld
<1>2. /\ memory' = [memory EXCEPT ![r] = held] /\ UNCHANGED <<entry, surfaced, forked>>
      /\ memory[r].pc = "idle" /\ \A e \in Learner!Written : entry[e].fact # f
      /\ \A q \in Requests : memory[q].fact # f
  BY DEF Learner!writeMemory
<1> HIDE DEF held
<1>0. f # NoMemory
  BY <1>2 DEF MemoryInv, VersionsHeld
<1>3. /\ MemoryShape' /\ VersionsHeld' /\ \E rank : Youngest(rank)'
      /\ Learner!Written' = Learner!Written /\ Embedded' = Embedded
      /\ Learner!Current' = Learner!Current
      /\ memory'[r] = held /\ \A q \in Requests \ {r} : memory'[q] = memory[q]
  BY <1>0, <1>1, <1>2, MemoryMoves
<1>4. ASSUME ~ forked' PROVE Unforked' /\ OneVersion'
  <2>1. Unforked /\ OneVersion
    BY <1>2, <1>4 DEF MemoryInv
  <2>2. Unforked'
    BY <1>1, <1>2, <1>3, <2>1 DEF Unforked
  <2>3. OneVersion'
    BY <1>2, <1>3, <2>1 DEF OneVersion, Learner!BeingReplaced
  <2> QED BY <2>2, <2>3
<1> QED BY <1>3, <1>4 DEF MemoryInv

LEMMA SupersedeKeeps ==
    ASSUME MemoryInv, NEW r \in Requests, NEW old \in MemoryIds, Learner!supersedeMemory(r, old)
    PROVE  MemoryInv'
<1> DEFINE held == [Learner!Idle EXCEPT !.pc = "create", !.old = old, !.fact = entry[old].fact]
<1>1. old \in Embedded /\ entry[old].fact \in Facts \ {NoMemory} /\ old # NoMemory /\ old \in Learner!Written
  BY WrittenRow, MemoriesAreBounded
     DEF Learner!supersedeMemory, MemoryInv, VersionsHeld, Embedded, MemoryRow
<1>2. /\ held \in MemoryHeld /\ held.pc = "create" /\ held.old = old /\ held.fact = entry[old].fact
  BY <1>1 DEF Learner!Idle, MemoryHeld
<1>3. /\ memory' = [memory EXCEPT ![r] = held] /\ UNCHANGED <<entry, surfaced>>
      /\ memory[r].pc = "idle"
      /\ forked' = (forked \/ entry[old].next # NoMemory \/ \E q \in Requests : memory[q].old = old)
  BY DEF Learner!supersedeMemory
<1> HIDE DEF held
<1>4. /\ MemoryShape' /\ VersionsHeld' /\ \E rank : Youngest(rank)'
      /\ Learner!Written' = Learner!Written /\ Embedded' = Embedded
      /\ Learner!Current' = Learner!Current
      /\ memory'[r] = held /\ \A q \in Requests \ {r} : memory'[q] = memory[q]
  BY <1>1, <1>2, <1>3, MemoryMoves
<1>5. ASSUME ~ forked' PROVE Unforked' /\ OneVersion'
  <2>1. Unforked /\ OneVersion /\ entry[old].next = NoMemory /\ \A q \in Requests : memory[q].old # old
    BY <1>3, <1>5 DEF MemoryInv
  <2>2. Unforked'
    <3>1. ASSUME NEW q \in Requests \ {r}, memory[q].pc # "idle", memory[q].old = NoMemory
          PROVE  memory[q].fact # held.fact
      <4>1. entry[old].fact = memory[q].fact => memory[q].pc = "embed" /\ old = memory[q].new
        BY <1>1, <2>1, <3>1 DEF Unforked
      <4>2. ~ (memory[q].pc = "embed" /\ old = memory[q].new)
        BY <1>1 DEF MemoryInv, VersionsHeld
      <4> QED BY <4>1, <4>2, <1>2
    <3> QED BY <1>1, <1>2, <1>3, <1>4, <2>1, <3>1 DEF Unforked
  <2>3. OneVersion'
    BY <1>3, <1>4, <2>1 DEF OneVersion, Learner!BeingReplaced
  <2> QED BY <2>2, <2>3
<1> QED BY <1>4, <1>5 DEF MemoryInv

LEMMA StopsKeeps ==
    ASSUME MemoryInv, NEW r \in Requests, Learner!Stops(r)
    PROVE  MemoryInv'
<1>1. /\ memory' = [memory EXCEPT ![r] = Learner!Idle] /\ UNCHANGED <<entry, surfaced>>
      /\ forked' = (forked \/ memory[r].pc = "point")
  BY DEF Learner!Stops
<1>2. /\ MemoryShape' /\ VersionsHeld' /\ \E rank : Youngest(rank)'
      /\ Learner!Written' = Learner!Written /\ Embedded' = Embedded
      /\ Learner!Current' = Learner!Current
      /\ memory'[r] = Learner!Idle /\ \A q \in Requests \ {r} : memory'[q] = memory[q]
  BY <1>1, MemoryIdle, MemoryMoves
<1>3. ASSUME ~ forked' PROVE Unforked' /\ OneVersion'
  <2>1. Unforked /\ OneVersion /\ memory[r].pc # "point"
    BY <1>1, <1>3 DEF MemoryInv
  <2>2. Unforked'
    <3>1. \A q \in Requests : memory[q].pc # "idle" => memory[q].fact # NoMemory
      BY DEF MemoryInv, VersionsHeld
    <3> QED BY <1>1, <1>2, <2>1, <3>1, MemoryIdle DEF Unforked
  <2>3. OneVersion'
    BY <1>1, <1>2, <2>1 DEF OneVersion, Learner!BeingReplaced
  <2> QED BY <2>2, <2>3
<1> QED BY <1>2, <1>3 DEF MemoryInv

LEMMA CreateEntryKeeps ==
    ASSUME MemoryInv, NEW r \in Requests, Learner!CreateEntry(r)
    PROVE  MemoryInv'
<1> DEFINE e == CHOOSE id \in MemoryIds : id \notin Learner!Written
           old == memory[r].old
<1>1. /\ entry' = [entry EXCEPT ![e] = Learner!Row(memory[r].fact)]
      /\ memory' = [memory EXCEPT ![r].pc = "embed", ![r].new = e]
      /\ memory[r].pc = "create" /\ UNCHANGED <<surfaced, forked>> /\ MemoryIds # Learner!Written
  BY DEF Learner!CreateEntry
<1>2. e \in MemoryIds /\ e \notin Learner!Written
  <2>1. \E id \in MemoryIds : id \notin Learner!Written
    BY <1>1 DEF Learner!Written
  <2> QED BY <2>1
<1> HIDE DEF e
<1>3. /\ memory[r].fact \in Facts \ {NoMemory} /\ memory[r] \in MemoryHeld
      /\ Learner!Row(memory[r].fact) \in MemoryRow
  BY <1>1 DEF MemoryInv, MemoryShape, VersionsHeld, MemoryRow, Learner!Row
<1>4. /\ entry'[e] = Learner!Row(memory[r].fact)
      /\ \A d \in MemoryIds \ {e} : entry'[d] = entry[d]
      /\ entry' \in [MemoryIds -> MemoryRow \cup {Learner!Unwritten}]
  BY <1>1, <1>2, <1>3 DEF MemoryInv, MemoryShape
<1>5. /\ entry'[e].written /\ ~ entry'[e].embedded /\ entry'[e].next = NoMemory
      /\ entry'[e].fact = memory[r].fact
  BY <1>4 DEF Learner!Row
<1>6. /\ Learner!Written' = Learner!Written \cup {e} /\ Learner!Written \subseteq MemoryIds
      /\ \A d \in Learner!Written : entry'[d] = entry[d]
  BY <1>2, <1>4, <1>5 DEF Learner!Written
<1>7. Embedded' = Embedded /\ Learner!Current' = Learner!Current
  BY <1>5, <1>6 DEF Embedded, Learner!Current
<1>8. /\ memory' \in [Requests -> MemoryHeld]
      /\ memory'[r].pc = "embed" /\ memory'[r].new = e
      /\ memory'[r].old = old /\ memory'[r].fact = memory[r].fact
      /\ \A q \in Requests \ {r} : memory'[q] = memory[q]
  BY <1>1, <1>2 DEF MemoryInv, MemoryShape, MemoryHeld
<1>9. MemoryShape'
  BY <1>1, <1>4, <1>8 DEF MemoryInv, MemoryShape
<1>10. Embedded \subseteq Learner!Written /\ e \notin Embedded
  BY <1>2 DEF Embedded
<1>11. VersionsHeld'
  <2>1. surfaced' \subseteq Embedded' /\ \A d \in Learner!Written' \ Embedded' : entry'[d].next = NoMemory
    BY <1>1, <1>5, <1>6, <1>7 DEF MemoryInv, VersionsHeld
  <2>2. ASSUME NEW q \in Requests
        PROVE  /\ memory'[q].pc = "idle" => memory'[q].old = NoMemory /\ memory'[q].fact = NoMemory
               /\ memory'[q].pc # "idle" => memory'[q].fact \in Facts \ {NoMemory}
               /\ memory'[q].old # NoMemory =>
                    memory'[q].old \in Embedded' /\ entry'[memory'[q].old].fact = memory'[q].fact
               /\ memory'[q].pc = "embed" => memory'[q].new \in Learner!Written' \ Embedded'
               /\ memory'[q].pc = "point" => memory'[q].old # NoMemory /\ memory'[q].new \in Embedded'
               /\ memory'[q].pc \in {"embed", "point"} => entry'[memory'[q].new].fact = memory'[q].fact
    <3>1. CASE q = r
      BY <1>3, <1>5, <1>6, <1>7, <1>8, <1>10, <3>1 DEF MemoryInv, VersionsHeld
    <3>2. CASE q # r
      BY <1>6, <1>7, <1>8, <1>10, <3>2 DEF MemoryInv, VersionsHeld
    <3> QED BY <3>1, <3>2
  <2>3. ASSUME NEW p \in Requests, NEW q \in Requests, memory'[p].pc = "embed",
               memory'[q].pc = "embed", p # q
        PROVE  memory'[p].new # memory'[q].new
    BY <1>2, <1>8, <2>3 DEF MemoryInv, VersionsHeld
  <2> QED BY <2>1, <2>2, <2>3 DEF VersionsHeld
<1>12. \E rank : Youngest(rank)'
  <2>1. PICK rank : Youngest(rank)
    BY DEF MemoryInv
  <2> DEFINE later == [rank EXCEPT ![e] = IF old = NoMemory THEN 0 ELSE rank[old] + 1]
  <2>2. old # NoMemory => old \in Embedded /\ old # e /\ old \in MemoryIds
    BY <1>6, <1>10 DEF MemoryInv, VersionsHeld
  <2>3. /\ later \in [MemoryIds -> Nat] /\ \A d \in MemoryIds \ {e} : later[d] = rank[d]
        /\ old # NoMemory => later[old] < later[e]
    BY <1>2, <2>1, <2>2 DEF Youngest
  <2>4. \A d \in Embedded' : \E c \in Learner!Current' :
          entry'[c].fact = entry'[d].fact /\ later[d] <= later[c]
    <3>1. \A d \in Embedded : d \in MemoryIds \ {e} /\ entry'[d] = entry[d]
      BY <1>6, <1>10
    <3>2. Learner!Current \subseteq Embedded
      BY DEF Learner!Current, Embedded
    <3> QED BY <1>7, <2>1, <2>3, <3>1, <3>2 DEF Youngest
  <2>5. ASSUME NEW q \in Requests, memory'[q].pc \in {"embed", "point"}, memory'[q].old # NoMemory
        PROVE  later[memory'[q].old] < later[memory'[q].new]
    <3>1. CASE q = r
      BY <1>8, <2>3, <2>5, <3>1
    <3>2. CASE q # r
      <4>1. /\ memory[q].old \in Embedded /\ memory[q].new \in Learner!Written
            /\ rank[memory[q].old] < rank[memory[q].new]
        BY <1>8, <2>1, <2>5, <3>2 DEF Youngest, MemoryInv, VersionsHeld, Embedded
      <4> QED BY <1>2, <1>6, <1>8, <1>10, <2>3, <3>2, <4>1
    <3> QED BY <3>1, <3>2
  <2> HIDE DEF later
  <2> QED BY <2>3, <2>4, <2>5 DEF Youngest
<1>13. ASSUME ~ forked' PROVE Unforked' /\ OneVersion'
  <2>1. Unforked /\ OneVersion
    BY <1>1, <1>13 DEF MemoryInv
  <2>2. ASSUME NEW q \in Requests
        PROVE  /\ memory'[q].old # NoMemory =>
                    /\ entry'[memory'[q].old].next = NoMemory
                    /\ \A p \in Requests \ {q} : memory'[p].old # memory'[q].old
               /\ (memory'[q].pc # "idle" /\ memory'[q].old = NoMemory) =>
                    /\ \A d \in Learner!Written' : entry'[d].fact = memory'[q].fact =>
                         memory'[q].pc = "embed" /\ d = memory'[q].new
                    /\ \A p \in Requests \ {q} : memory'[p].fact # memory'[q].fact
    <3>1. \A p \in Requests : memory'[p].old = memory[p].old /\ memory'[p].fact = memory[p].fact
      BY <1>8
    <3>2. memory[q].old # NoMemory => memory[q].old \in Learner!Written
      BY <1>10 DEF MemoryInv, VersionsHeld
    <3>3. memory'[q].old # NoMemory =>
            /\ entry'[memory'[q].old].next = NoMemory
            /\ \A p \in Requests \ {q} : memory'[p].old # memory'[q].old
      BY <1>6, <2>1, <3>1, <3>2 DEF Unforked
    <3>4. CASE q = r
      BY <1>1, <1>5, <1>6, <1>8, <2>1, <3>1, <3>3, <3>4 DEF Unforked
    <3>5. CASE q # r
      BY <1>5, <1>6, <1>8, <2>1, <3>1, <3>3, <3>5 DEF Unforked
    <3> QED BY <3>4, <3>5
  <2>3. OneVersion'
    <3>1. \A c \in Learner!Current : entry'[c] = entry[c]
      BY <1>6 DEF Learner!Current
    <3>2. \A c : Learner!BeingReplaced(c) => Learner!BeingReplaced(c)'
      BY <1>1, <1>8 DEF Learner!BeingReplaced
    <3> QED BY <1>7, <2>1, <3>1, <3>2 DEF OneVersion
  <2>4. Unforked'
    BY <2>2 DEF Unforked
  <2> QED BY <2>3, <2>4
<1> QED BY <1>9, <1>11, <1>12, <1>13 DEF MemoryInv

LEMMA SetEmbeddingKeeps ==
    ASSUME MemoryInv, NEW r \in Requests, Learner!SetEmbedding(r)
    PROVE  MemoryInv'
<1> DEFINE e == memory[r].new
           old == memory[r].old
           held == Learner!AfterEmbedding(r)
<1>1. /\ entry' = [entry EXCEPT ![e].embedded = TRUE] /\ memory' = [memory EXCEPT ![r] = held]
      /\ memory[r].pc = "embed" /\ UNCHANGED <<surfaced, forked>>
  BY DEF Learner!SetEmbedding
<1>2. /\ e \in Learner!Written \ Embedded /\ e \in MemoryIds /\ entry[e] \in MemoryRow
      /\ entry[e].next = NoMemory /\ memory[r] \in MemoryHeld
  BY <1>1, WrittenRow DEF MemoryInv, MemoryShape, VersionsHeld
<1>3. /\ held \in MemoryHeld
      /\ IF old = NoMemory THEN held = Learner!Idle
         ELSE /\ held.pc = "point" /\ held.old = old /\ held.new = e /\ held.fact = memory[r].fact
  BY <1>2, MemoryIdle DEF Learner!AfterEmbedding, MemoryHeld
<1>4. /\ entry'[e] = [entry[e] EXCEPT !.embedded = TRUE]
      /\ \A d \in MemoryIds \ {e} : entry'[d] = entry[d]
  BY <1>1, <1>2 DEF MemoryInv, MemoryShape
<1>5. /\ entry'[e] \in MemoryRow /\ entry'[e].written /\ entry'[e].embedded
      /\ entry'[e].next = NoMemory /\ entry'[e].fact = entry[e].fact
  BY <1>2, <1>4 DEF MemoryRow
<1>6. /\ memory'[r] = held /\ \A q \in Requests \ {r} : memory'[q] = memory[q]
  BY <1>1 DEF MemoryInv, MemoryShape
<1> HIDE DEF held
<1>7. /\ Learner!Written' = Learner!Written /\ Embedded' = Embedded \cup {e}
      /\ Learner!Current' = Learner!Current \cup {e}
  <2>1. Learner!Written' = Learner!Written
    BY <1>2, <1>4, <1>5 DEF Learner!Written
  <2>2. Learner!Written \subseteq MemoryIds
    BY DEF Learner!Written
  <2>3. \A d \in Learner!Written \ {e} : entry'[d] = entry[d]
    BY <1>4, <2>2
  <2>4. Embedded' = Embedded \cup {e}
    BY <1>2, <1>5, <2>1, <2>3 DEF Embedded
  <2>5. Learner!Current' = Learner!Current \cup {e}
    BY <1>2, <1>5, <2>1, <2>3 DEF Learner!Current
  <2> QED BY <2>1, <2>4, <2>5
<1>8. \A d \in MemoryIds : entry'[d].fact = entry[d].fact /\ entry'[d].next = entry[d].next
  BY <1>2, <1>4, <1>5
<1>9. Embedded \subseteq MemoryIds /\ Learner!Written \subseteq MemoryIds /\ Learner!Current \subseteq Embedded
  BY DEF Embedded, Learner!Written, Learner!Current
<1>10. MemoryShape'
  BY <1>1, <1>3, <1>4, <1>5 DEF MemoryInv, MemoryShape
<1>11. old # NoMemory => old \in Embedded /\ entry[old].fact = memory[r].fact
  BY DEF MemoryInv, VersionsHeld
<1>12. VersionsHeld'
  <2>1. surfaced' \subseteq Embedded' /\ \A d \in Learner!Written' \ Embedded' : entry'[d].next = NoMemory
    BY <1>1, <1>7, <1>8, <1>9 DEF MemoryInv, VersionsHeld
  <2>2. ASSUME NEW q \in Requests
        PROVE  /\ memory'[q].pc = "idle" => memory'[q].old = NoMemory /\ memory'[q].fact = NoMemory
               /\ memory'[q].pc # "idle" => memory'[q].fact \in Facts \ {NoMemory}
               /\ memory'[q].old # NoMemory =>
                    memory'[q].old \in Embedded' /\ entry'[memory'[q].old].fact = memory'[q].fact
               /\ memory'[q].pc = "embed" => memory'[q].new \in Learner!Written' \ Embedded'
               /\ memory'[q].pc = "point" => memory'[q].old # NoMemory /\ memory'[q].new \in Embedded'
               /\ memory'[q].pc \in {"embed", "point"} => entry'[memory'[q].new].fact = memory'[q].fact
    <3>1. CASE q = r
      <4>1. memory[r].fact \in Facts \ {NoMemory} /\ entry[e].fact = memory[r].fact
        BY <1>1 DEF MemoryInv, VersionsHeld
      <4> QED BY <1>2, <1>3, <1>6, <1>7, <1>8, <1>9, <1>11, <3>1, <4>1, MemoryIdle
    <3>2. CASE q # r
      <4>1. memory[q].pc = "embed" => memory[q].new # e
        BY <1>1, <3>2 DEF MemoryInv, VersionsHeld
      <4>2. memory[q].pc = "point" => memory[q].new \in MemoryIds
        BY <1>9 DEF MemoryInv, VersionsHeld
      <4> QED BY <1>6, <1>7, <1>8, <1>9, <3>2, <4>1, <4>2 DEF MemoryInv, VersionsHeld
    <3> QED BY <3>1, <3>2
  <2>3. ASSUME NEW p \in Requests, NEW q \in Requests, memory'[p].pc = "embed",
               memory'[q].pc = "embed", p # q
        PROVE  memory'[p].new # memory'[q].new
    BY <1>3, <1>6, <2>3, MemoryIdle DEF MemoryInv, VersionsHeld
  <2> QED BY <2>1, <2>2, <2>3 DEF VersionsHeld
<1>13. \E rank : Youngest(rank)'
  <2>1. PICK rank : Youngest(rank)
    BY DEF MemoryInv
  <2>2. \A d \in Embedded' : \E c \in Learner!Current' :
          entry'[c].fact = entry'[d].fact /\ rank[d] <= rank[c]
    <3>1. rank[e] <= rank[e]
      BY <1>2, <2>1 DEF Youngest
    <3> QED BY <1>7, <1>8, <1>9, <2>1, <3>1 DEF Youngest
  <2>3. ASSUME NEW q \in Requests, memory'[q].pc \in {"embed", "point"}, memory'[q].old # NoMemory
        PROVE  rank[memory'[q].old] < rank[memory'[q].new]
    BY <1>1, <1>3, <1>6, <2>1, <2>3, MemoryIdle DEF Youngest
  <2> QED BY <2>1, <2>2, <2>3 DEF Youngest
<1>14. ASSUME ~ forked' PROVE Unforked' /\ OneVersion'
  <2>1. Unforked /\ OneVersion
    BY <1>1, <1>14 DEF MemoryInv
  <2>2. \A q \in Requests : memory'[q].old # NoMemory => memory'[q].old = memory[q].old /\ memory[q].old \in MemoryIds
    BY <1>3, <1>6, <1>9, MemoryIdle DEF MemoryInv, VersionsHeld
  <2>3. ASSUME NEW q \in Requests, memory'[q].pc # "idle", memory'[q].old = NoMemory
        PROVE  /\ \A d \in Learner!Written' : entry'[d].fact = memory'[q].fact =>
                    memory'[q].pc = "embed" /\ d = memory'[q].new
               /\ \A p \in Requests \ {q} : memory'[p].fact # memory'[q].fact
    <3>1. q # r /\ memory'[q] = memory[q] /\ memory[q].fact # NoMemory
      BY <1>3, <1>6, <2>3, MemoryIdle, MemoriesAreBounded DEF MemoryInv, VersionsHeld
    <3>2. \A p \in Requests : memory'[p].fact \in {memory[p].fact, NoMemory}
      BY <1>3, <1>6, MemoryIdle
    <3> QED BY <1>7, <1>8, <1>9, <2>1, <2>3, <3>1, <3>2 DEF Unforked
  <2>4. Unforked'
    BY <1>8, <2>1, <2>2, <2>3 DEF Unforked
  <2>5. \A c : Learner!BeingReplaced(c) => Learner!BeingReplaced(c)'
    BY <1>1, <1>6 DEF Learner!BeingReplaced
  <2>6. ASSUME NEW d \in Learner!Current, entry[d].fact = entry[e].fact
        PROVE  Learner!BeingReplaced(d)'
    <3>1. entry[e].fact = memory[r].fact /\ d \in Learner!Written /\ d # e
      BY <1>1, <1>2, <1>9 DEF MemoryInv, VersionsHeld, Learner!Current
    <3>2. old # NoMemory
      BY <1>1, <2>1, <2>6, <3>1 DEF Unforked
    <3>3. CASE d = old
      BY <1>3, <1>6, <3>2, <3>3 DEF Learner!BeingReplaced
    <3>4. CASE d # old
      <4>1. old \in Learner!Current /\ entry[old].fact = entry[d].fact
        BY <1>11, <2>1, <2>6, <3>1, <3>2 DEF Unforked, Learner!Current, Embedded
      <4>2. ~ Learner!BeingReplaced(old)
        BY <1>1, <2>1, <3>2 DEF Unforked, Learner!BeingReplaced
      <4> QED BY <2>1, <2>5, <3>4, <4>1, <4>2 DEF OneVersion
    <3> QED BY <3>3, <3>4
  <2>7. OneVersion'
    BY <1>2, <1>7, <1>8, <1>9, <2>1, <2>5, <2>6 DEF OneVersion
  <2> QED BY <2>4, <2>7
<1> QED BY <1>10, <1>12, <1>13, <1>14 DEF MemoryInv

LEMMA PointForwardKeeps ==
    ASSUME MemoryInv, NEW r \in Requests, Learner!PointForward(r)
    PROVE  MemoryInv'
<1> DEFINE old == memory[r].old
           e == memory[r].new
<1>1. /\ entry' = [entry EXCEPT ![old].next = e] /\ memory' = [memory EXCEPT ![r] = Learner!Idle]
      /\ memory[r].pc = "point" /\ UNCHANGED <<surfaced, forked>>
  BY DEF Learner!PointForward
<1>2. /\ old # NoMemory /\ old \in Embedded /\ e \in Embedded
      /\ entry[old].fact = entry[e].fact /\ entry[old].fact = memory[r].fact
  BY <1>1 DEF MemoryInv, VersionsHeld
<1>3. /\ Embedded \subseteq MemoryIds /\ Learner!Written \subseteq MemoryIds
      /\ Learner!Current \subseteq Embedded /\ Embedded \subseteq Learner!Written
      /\ entry[old] \in MemoryRow /\ e # NoMemory
  BY <1>2, WrittenRow, MemoriesAreBounded DEF Embedded, Learner!Written, Learner!Current, MemoryInv
<1>4. /\ entry'[old] = [entry[old] EXCEPT !.next = e]
      /\ \A d \in MemoryIds \ {old} : entry'[d] = entry[d]
  BY <1>1, <1>2, <1>3 DEF MemoryInv, MemoryShape
<1>5. /\ entry'[old] \in MemoryRow /\ entry'[old].written /\ entry'[old].embedded
      /\ entry'[old].next = e /\ entry'[old].fact = entry[old].fact
  <2>1. entry[old].embedded
    BY <1>2 DEF Embedded
  <2>2. e \in MemoryIds
    BY <1>2, <1>3
  <2>3. entry'[old] \in MemoryRow /\ entry'[old].next = e /\ entry'[old].fact = entry[old].fact
    BY <1>3, <1>4, <2>2 DEF MemoryRow
  <2>4. entry'[old].embedded = entry[old].embedded /\ entry'[old].written
    BY <1>3, <1>4, <2>2 DEF MemoryRow
  <2> QED BY <2>1, <2>3, <2>4
<1>6. memory'[r] = Learner!Idle /\ \A q \in Requests \ {r} : memory'[q] = memory[q]
  BY <1>1 DEF MemoryInv, MemoryShape
<1>7. /\ Learner!Written' = Learner!Written /\ Embedded' = Embedded
      /\ Learner!Current' = Learner!Current \ {old}
  BY <1>2, <1>3, <1>4, <1>5 DEF Learner!Written, Embedded, Learner!Current
<1>8. \A d \in MemoryIds : entry'[d].fact = entry[d].fact
  BY <1>4, <1>5
<1>9. MemoryShape'
  BY <1>1, <1>4, <1>5, MemoryIdle DEF MemoryInv, MemoryShape
<1>10. VersionsHeld'
  <2>1. /\ surfaced' \subseteq Embedded'
        /\ \A d \in Learner!Written' \ Embedded' : entry'[d].next = NoMemory
    BY <1>1, <1>2, <1>3, <1>4, <1>7 DEF MemoryInv, VersionsHeld
  <2>2. ASSUME NEW q \in Requests
        PROVE  /\ memory'[q].pc = "idle" => memory'[q].old = NoMemory /\ memory'[q].fact = NoMemory
               /\ memory'[q].pc # "idle" => memory'[q].fact \in Facts \ {NoMemory}
               /\ memory'[q].old # NoMemory =>
                    memory'[q].old \in Embedded' /\ entry'[memory'[q].old].fact = memory'[q].fact
               /\ memory'[q].pc = "embed" => memory'[q].new \in Learner!Written' \ Embedded'
               /\ memory'[q].pc = "point" => memory'[q].old # NoMemory /\ memory'[q].new \in Embedded'
               /\ memory'[q].pc \in {"embed", "point"} => entry'[memory'[q].new].fact = memory'[q].fact
    <3>1. CASE q = r
      BY <1>6, <3>1, MemoryIdle
    <3>2. CASE q # r
      <4>1. memory[q].pc \in {"embed", "point"} => memory[q].new \in MemoryIds
        BY <1>3 DEF MemoryInv, VersionsHeld
      <4> QED BY <1>3, <1>6, <1>7, <1>8, <3>2, <4>1 DEF MemoryInv, VersionsHeld
    <3> QED BY <3>1, <3>2
  <2>3. ASSUME NEW p \in Requests, NEW q \in Requests, memory'[p].pc = "embed",
               memory'[q].pc = "embed", p # q
        PROVE  memory'[p].new # memory'[q].new
    BY <1>6, <2>3, MemoryIdle DEF MemoryInv, VersionsHeld
  <2> QED BY <2>1, <2>2, <2>3 DEF VersionsHeld
<1>11. \E rank : Youngest(rank)'
  <2>1. PICK rank : Youngest(rank)
    BY DEF MemoryInv
  <2>2. PICK c2 \in Learner!Current : entry[c2].fact = entry[e].fact /\ rank[e] <= rank[c2]
    BY <1>2, <2>1 DEF Youngest
  <2>3. rank[old] < rank[e] /\ \A d \in MemoryIds : rank[d] \in Nat
    BY <1>1, <1>2, <2>1 DEF Youngest
  <2>4. rank[old] <= rank[c2] /\ c2 # old
    BY <1>2, <1>3, <2>2, <2>3
  <2>5. ASSUME NEW d \in Embedded
        PROVE  \E c \in Learner!Current \ {old} : entry[c].fact = entry[d].fact /\ rank[d] <= rank[c]
    <3>1. PICK c \in Learner!Current : entry[c].fact = entry[d].fact /\ rank[d] <= rank[c]
      BY <2>1 DEF Youngest
    <3>2. CASE c # old
      BY <3>1, <3>2
    <3>3. CASE c = old
      <4>1. rank[d] <= rank[c2]
        BY <1>2, <1>3, <2>3, <2>4, <3>1, <3>3
      <4> QED BY <1>2, <2>2, <2>4, <3>1, <3>3, <4>1
    <3> QED BY <3>2, <3>3
  <2>6. \A q \in Requests : (memory'[q].pc \in {"embed", "point"} /\ memory'[q].old # NoMemory) =>
          rank[memory'[q].old] < rank[memory'[q].new]
    BY <1>6, <2>1, MemoryIdle DEF Youngest
  <2>7. \A d \in Embedded' : \E c \in Learner!Current' :
          entry'[c].fact = entry'[d].fact /\ rank[d] <= rank[c]
    BY <1>3, <1>7, <1>8, <2>5
  <2> QED BY <2>1, <2>6, <2>7 DEF Youngest
<1>12. ASSUME ~ forked' PROVE Unforked' /\ OneVersion'
  <2>1. Unforked /\ OneVersion
    BY <1>1, <1>12 DEF MemoryInv
  <2>2. \A q \in Requests \ {r} : memory'[q].old # NoMemory =>
          memory[q].old \in MemoryIds \ {old} /\ entry'[memory[q].old].next = entry[memory[q].old].next
    BY <1>2, <1>3, <1>4, <1>6, <2>1 DEF MemoryInv, VersionsHeld, Unforked
  <2>3. \A q \in Requests : memory[q].pc # "idle" => memory[q].fact # NoMemory
    BY DEF MemoryInv, VersionsHeld
  <2>4. Unforked'
    BY <1>3, <1>6, <1>7, <1>8, <2>1, <2>2, <2>3, MemoryIdle DEF Unforked
  <2>5. \A c : (Learner!BeingReplaced(c) /\ c # old) => Learner!BeingReplaced(c)'
    BY <1>6 DEF Learner!BeingReplaced
  <2>6. OneVersion'
    BY <1>3, <1>7, <1>8, <2>1, <2>5 DEF OneVersion
  <2> QED BY <2>4, <2>6
<1> QED BY <1>9, <1>10, <1>11, <1>12 DEF MemoryInv

\* Through corrections that overlap, come late or stop half way, a fact that was
\* retrieved once keeps a version that can be retrieved, and while none of them
\* went astray just one, but for the moment one replaces another (MemoryManager).
THEOREM FactsStay == Learner!Spec => []FactsKeepAVersion
<1>1. ASSUME MemoryInv, [Learner!Next]_(Learner!vars) PROVE MemoryInv'
  <2>1. CASE Learner!Next
    BY <1>1, <2>1, RetrieveKeeps, WriteMemoryKeeps, SupersedeKeeps, StopsKeeps, CreateEntryKeeps,
       SetEmbeddingKeeps, PointForwardKeeps DEF Learner!Next
  <2>2. CASE UNCHANGED Learner!vars
    <3>1. UNCHANGED <<entry, memory, surfaced, forked>>
      BY <2>2 DEF Learner!vars
    <3>2. /\ Learner!Written' = Learner!Written /\ Embedded' = Embedded
          /\ Learner!Current' = Learner!Current
      BY <3>1 DEF Learner!Written, Learner!Current, Embedded
    <3> QED BY <1>1, <3>1, <3>2 DEF MemoryInv, MemoryShape, VersionsHeld, Youngest, Unforked,
           OneVersion, Learner!BeingReplaced
  <2> QED BY <1>1, <2>1, <2>2
<1>2. MemoryInv => FactsKeepAVersion
  BY DEF MemoryInv, VersionsHeld, Youngest, OneVersion, FactsKeepAVersion, Learner!FactsKeepAVersion
<1> QED BY <1>1, <1>2, MemoryStarts, PTL DEF Learner!Spec

-----------------------------------------------------------------------------
(* Reference: the rows of the script.                                       *)

TableRow == [name : Names \cup {NoName, "missing"}, parent : Ids \cup {NoId}]

RunHeld == [pc : {"before", "find", "create", "ended", "stopped"}, at : 0..Len(Script),
            found : [Names -> Ids \cup {NoId}]]

\* Where the script has the name, after the name it belongs to.
Placed(n, i) ==
    /\ \A j \in 1..Len(Script) : Script[j] = n <=> j = i
    /\ ParentOf[n] # NoName => \E j \in 1..i - 1 : Script[j] = ParentOf[n]

PlaceOf(n) == CHOOSE i \in 1..Len(Script) : Placed(n, i)

SeedShape ==
    /\ table \in [Ids -> TableRow]
    /\ execution \in [Executions -> RunHeld]
    /\ \A r \in Executions : Reference!Running(r) => execution[r].at \in 1..Len(Script)

\* What a run has done so far leads to stored rows, each where it belongs.
LedBack ==
    \A r \in Executions : execution[r].pc \in {"find", "create", "ended"} =>
        \A n \in Names : (execution[r].pc = "ended" \/ PlaceOf(n) < execution[r].at) =>
            /\ execution[r].found[n] \in Reference!Stored
            /\ table[execution[r].found[n]].parent = Reference!Under(r, n)

EachOnce ==
    \A n \in Names : (n \in Keyed \/ ~ overlapped) =>
        \A i, j \in Reference!Rows(n) : table[i].parent = table[j].parent => i = j

\* What a run alone is about to insert is still missing.
StillMissing ==
    \A r \in Executions : execution[r].pc = "create" =>
        /\ Reference!Wanted(r) \notin Keyed
        /\ ~ overlapped => Reference!Matching(r, Reference!Wanted(r)) = {}

OneRun == ~ overlapped => \A r, q \in Executions : Reference!Running(r) /\ Reference!Running(q) => r = q

SeedInv == SeedShape /\ LedBack /\ EachOnce /\ StillMissing /\ OneRun

LEMMA SeedIsBounded == Reference!SeedBounds
BY PlatformBounds DEF PlatformBounds

LEMMA ScriptOrder ==
    /\ Len(Script) \in Nat /\ Len(Script) >= 1
    /\ \A i \in 1..Len(Script) : Script[i] \in Names /\ PlaceOf(Script[i]) = i
    /\ \A n \in Names :
         /\ PlaceOf(n) \in 1..Len(Script) /\ Script[PlaceOf(n)] = n
         /\ ParentOf[n] # NoName => ParentOf[n] \in Names /\ PlaceOf(ParentOf[n]) < PlaceOf(n)
<1>1. /\ Script \in Seq(Names) /\ Script # <<>>
      /\ \A n \in Names : \E i \in 1..Len(Script) : Placed(n, i)
  BY SeedIsBounded DEF Reference!SeedBounds, Placed
<1>2. /\ Len(Script) \in Nat /\ Len(Script) >= 1
      /\ \A i \in 1..Len(Script) : Script[i] \in Names
  BY <1>1
<1>3. \A n \in Names : PlaceOf(n) \in 1..Len(Script) /\ Placed(n, PlaceOf(n))
  BY <1>1 DEF PlaceOf
<1>4. \A i \in 1..Len(Script) : PlaceOf(Script[i]) = i
  BY <1>2, <1>3 DEF Placed
<1>5. ASSUME NEW n \in Names, ParentOf[n] # NoName
      PROVE  ParentOf[n] \in Names /\ PlaceOf(ParentOf[n]) < PlaceOf(n)
  <2>1. PICK j \in 1..PlaceOf(n) - 1 : Script[j] = ParentOf[n]
    BY <1>3, <1>5 DEF Placed
  <2>2. j \in 1..Len(Script) /\ j < PlaceOf(n)
    BY <1>2, <1>3, <2>1
  <2> QED BY <1>2, <1>4, <2>1, <2>2
<1> QED BY <1>2, <1>3, <1>4, <1>5 DEF Placed

LEMMA SeedStarts == Reference!Init => SeedInv
<1> SUFFICES ASSUME Reference!Init PROVE SeedInv
  OBVIOUS
<1>1. /\ Reference!NotStarted \in RunHeld /\ Reference!NotStarted.pc = "before"
      /\ Reference!Missing \in TableRow
  BY ScriptOrder DEF Reference!NotStarted, RunHeld, Reference!Missing, TableRow
<1>2. /\ table \in [Ids -> TableRow] /\ Reference!Stored = {}
      /\ execution \in [Executions -> RunHeld] /\ \A r \in Executions : execution[r].pc = "before"
  BY <1>1 DEF Reference!Init, Reference!Stored
<1> QED BY <1>2 DEF SeedInv, SeedShape, LedBack, EachOnce, StillMissing, OneRun,
       Reference!Running, Reference!Rows

\* A run goes on with row i, there now and where it belongs.
LEMMA ProceedKeeps ==
    ASSUME SeedInv, NEW r \in Executions, Reference!Running(r), NEW i \in Ids, Reference!Proceed(r, i),
           i \in Reference!Stored',
           table'[i].parent = Reference!Under(r, Reference!Wanted(r)),
           \A j \in Reference!Stored :
             j \in Reference!Stored' /\ table'[j].parent = table[j].parent
    PROVE  /\ execution' \in [Executions -> RunHeld]
           /\ \A q \in Executions : Reference!Running(q)' => execution'[q].at \in 1..Len(Script)
           /\ LedBack'
           /\ execution'[r].pc \in {"find", "ended"}
           /\ \A q \in Executions \ {r} : execution'[q] = execution[q]
<1> DEFINE k == execution[r].at
           last == k = Len(Script)
           n == Reference!Wanted(r)
<1>1. /\ execution' = [execution EXCEPT ![r].pc = IF last THEN "ended" ELSE "find",
                                        ![r].at = IF last THEN @ ELSE @ + 1,
                                        ![r].found[n] = i]
      /\ execution[r] \in RunHeld /\ k \in 1..Len(Script) /\ execution \in [Executions -> RunHeld]
  BY DEF Reference!Proceed, SeedInv, SeedShape
<1>2. n \in Names /\ PlaceOf(n) = k /\ Len(Script) \in Nat
  BY <1>1, ScriptOrder DEF Reference!Wanted
<1>3. /\ execution'[r].pc = IF last THEN "ended" ELSE "find"
      /\ execution'[r].at = IF last THEN k ELSE k + 1
      /\ execution'[r].found = [execution[r].found EXCEPT ![n] = i]
      /\ \A q \in Executions \ {r} : execution'[q] = execution[q]
  BY <1>1 DEF RunHeld
<1>4. execution'[r].at \in 1..Len(Script) /\ execution' \in [Executions -> RunHeld]
  <2>1. execution'[r].at \in 1..Len(Script)
    BY <1>1, <1>2, <1>3
  <2>2. [execution[r].found EXCEPT ![n] = i] \in [Names -> Ids \cup {NoId}]
    BY <1>1, <1>2 DEF RunHeld
  <2>3. execution'[r] = [pc |-> IF last THEN "ended" ELSE "find", at |-> IF last THEN k ELSE k + 1,
                         found |-> [execution[r].found EXCEPT ![n] = i]]
    BY <1>1 DEF RunHeld
  <2>4. execution'[r].at \in 0..Len(Script)
    BY <1>2, <2>1
  <2> HIDE DEF n, last, k
  <2>5. execution'[r] \in RunHeld
    BY <1>3, <2>2, <2>3, <2>4 DEF RunHeld
  <2>6. execution' = [execution EXCEPT ![r] = execution'[r]]
    BY <1>1
  <2> QED BY <1>1, <2>1, <2>5, <2>6
<1> HIDE DEF n, last, k
<1>5. \A q \in Executions : Reference!Running(q)' => execution'[q].at \in 1..Len(Script)
  BY <1>3, <1>4 DEF SeedInv, SeedShape, Reference!Running
<1>6. ASSUME NEW m \in Names, last \/ PlaceOf(m) < execution'[r].at
      PROVE  /\ execution'[r].found[m] \in Reference!Stored'
             /\ table'[execution'[r].found[m]].parent = Reference!Under(r, m)'
  <2>1. PlaceOf(m) <= k /\ PlaceOf(m) \in 1..Len(Script) /\ (PlaceOf(m) = k => m = n)
    BY <1>1, <1>2, <1>3, <1>6, ScriptOrder DEF last, n, Reference!Wanted, k
  <2>2. Reference!Under(r, m)' = Reference!Under(r, m)
    <3>1. ParentOf[m] # NoName => ParentOf[m] \in Names \ {n}
      BY <1>1, <1>2, <2>1, ScriptOrder
    <3> QED BY <1>1, <1>3, <3>1 DEF Reference!Under, RunHeld
  <2>3. CASE m = n
    BY <1>1, <1>2, <1>3, <2>2, <2>3 DEF n, RunHeld
  <2>4. CASE m # n
    <3>1. execution'[r].found[m] = execution[r].found[m] /\ PlaceOf(m) < k
      BY <1>1, <1>3, <2>1, <2>4 DEF RunHeld
    <3>2. /\ execution[r].found[m] \in Reference!Stored
          /\ table[execution[r].found[m]].parent = Reference!Under(r, m)
      BY <3>1 DEF SeedInv, LedBack, Reference!Running, k
    <3> QED BY <2>2, <3>1, <3>2
  <2> QED BY <2>3, <2>4
<1>7. LedBack'
  <2>1. ASSUME NEW q \in Executions, q # r, execution'[q].pc \in {"find", "create", "ended"},
               NEW m \in Names, execution'[q].pc = "ended" \/ PlaceOf(m) < execution'[q].at
        PROVE  /\ execution'[q].found[m] \in Reference!Stored'
               /\ table'[execution'[q].found[m]].parent = Reference!Under(q, m)'
    <3>1. execution'[q] = execution[q] /\ Reference!Under(q, m)' = Reference!Under(q, m)
      BY <1>3, <2>1 DEF Reference!Under
    <3>2. /\ execution[q].found[m] \in Reference!Stored
          /\ table[execution[q].found[m]].parent = Reference!Under(q, m)
      BY <2>1, <3>1 DEF SeedInv, LedBack
    <3> QED BY <3>1, <3>2
  <2>2. execution'[r].pc = "ended" => last
    BY <1>3
  <2> QED BY <1>6, <2>1, <2>2 DEF LedBack
<1> QED BY <1>3, <1>4, <1>5, <1>7

LEMMA InsertKeeps ==
    ASSUME SeedInv, NEW r \in Executions, Reference!Running(r), Reference!Insert(r),
           overlapped' = overlapped,
           (Reference!Wanted(r) \in Keyed \/ ~ overlapped) =>
             Reference!Matching(r, Reference!Wanted(r)) = {}
    PROVE  SeedInv'
<1> DEFINE i == CHOOSE id \in Ids : id \notin Reference!Stored
           n == Reference!Wanted(r)
           row == [name |-> n, parent |-> Reference!Under(r, n)]
<1>1. /\ table' = [table EXCEPT ![i] = row] /\ Reference!Proceed(r, i) /\ Ids # Reference!Stored
  BY DEF Reference!Insert
<1>2. i \in Ids /\ i \notin Reference!Stored
  <2>1. \E id \in Ids : id \notin Reference!Stored
    BY <1>1 DEF Reference!Stored
  <2> QED BY <2>1
<1> HIDE DEF i
<1>3. n \in Names /\ execution[r] \in RunHeld
  BY ScriptOrder DEF Reference!Wanted, SeedInv, SeedShape
<1>4. row \in TableRow /\ row # Reference!Missing
  <2>1. Reference!Under(r, n) \in Ids \cup {NoId}
    BY <1>3, ScriptOrder DEF Reference!Under, RunHeld
  <2>2. n # "missing"
    BY <1>3, SeedIsBounded DEF Reference!SeedBounds
  <2> HIDE DEF n
  <2> QED BY <1>3, <2>1, <2>2 DEF TableRow, Reference!Missing
<1>5. /\ table' \in [Ids -> TableRow] /\ table'[i] = row
      /\ \A j \in Ids \ {i} : table'[j] = table[j]
  BY <1>1, <1>2, <1>4 DEF SeedInv, SeedShape
<1>6. Reference!Stored' = Reference!Stored \cup {i} /\ Reference!Stored \subseteq Ids \ {i}
  BY <1>2, <1>4, <1>5 DEF Reference!Stored
<1>7. row.name = n /\ row.parent = Reference!Under(r, n)
  OBVIOUS
<1>8. /\ execution' \in [Executions -> RunHeld]
      /\ \A q \in Executions : Reference!Running(q)' => execution'[q].at \in 1..Len(Script)
      /\ LedBack' /\ execution'[r].pc \in {"find", "ended"}
      /\ \A q \in Executions \ {r} : execution'[q] = execution[q]
  BY <1>1, <1>2, <1>5, <1>6, <1>7, ProceedKeeps
<1>9. EachOnce'
  <2>1. ASSUME NEW m \in Names, m \in Keyed \/ ~ overlapped,
               NEW a \in Reference!Rows(m)', NEW b \in Reference!Rows(m)',
               table'[a].parent = table'[b].parent, a # b
        PROVE  FALSE
    <3>1. \A c \in Reference!Rows(m)' : c = i \/ (c \in Reference!Rows(m) /\ table'[c] = table[c])
      BY <1>5, <1>6 DEF Reference!Rows
    <3>2. CASE a # i /\ b # i
      BY <2>1, <3>1, <3>2 DEF SeedInv, EachOnce
    <3>3. ASSUME NEW c \in Reference!Rows(m), table[c].parent = row.parent, m = n
          PROVE  FALSE
      <4>1. c \in Reference!Stored /\ c \in Ids /\ table[c] \in TableRow /\ table[c].name = n
        BY <3>3 DEF Reference!Rows, Reference!Stored, SeedInv, SeedShape
      <4>2. table[c] = row
        BY <1>7, <3>3, <4>1 DEF TableRow
      <4>3. c \in Reference!Matching(r, n)
        BY <4>1, <4>2 DEF Reference!Matching
      <4> QED BY <2>1, <3>3, <4>3
    <3>4. a = i => m = n
      BY <1>5, <1>7 DEF Reference!Rows
    <3>5. b = i => m = n
      BY <1>5, <1>7 DEF Reference!Rows
    <3> QED BY <1>5, <2>1, <3>1, <3>2, <3>3, <3>4, <3>5
  <2> QED BY <2>1 DEF EachOnce
<1>10. OneRun'
  BY <1>8 DEF SeedInv, OneRun, Reference!Running
<1>11. StillMissing'
  <2>1. ASSUME NEW q \in Executions, execution'[q].pc = "create"
        PROVE  /\ Reference!Wanted(q)' \notin Keyed /\ overlapped
    BY <1>8, <2>1 DEF SeedInv, StillMissing, OneRun, Reference!Running, Reference!Wanted
  <2> QED BY <2>1 DEF StillMissing
<1> QED BY <1>5, <1>8, <1>9, <1>10, <1>11 DEF SeedInv, SeedShape

\* Going on with a row that was found.
LEMMA FoundKeeps ==
    ASSUME SeedInv, NEW r \in Executions, Reference!Running(r),
           NEW i \in Reference!Matching(r, Reference!Wanted(r)), Reference!Proceed(r, i),
           UNCHANGED <<table, overlapped>>
    PROVE  SeedInv'
<1>1. i \in Ids /\ i \in Reference!Stored /\ Reference!Stored' = Reference!Stored
  BY DEF Reference!Matching, Reference!Stored
<1>2. table'[i].parent = Reference!Under(r, Reference!Wanted(r))
  BY DEF Reference!Matching
<1>3. /\ execution' \in [Executions -> RunHeld]
      /\ \A q \in Executions : Reference!Running(q)' => execution'[q].at \in 1..Len(Script)
      /\ LedBack' /\ execution'[r].pc \in {"find", "ended"}
      /\ \A q \in Executions \ {r} : execution'[q] = execution[q]
  BY <1>1, <1>2, ProceedKeeps
<1>4. EachOnce' /\ OneRun'
  BY <1>1, <1>3 DEF SeedInv, EachOnce, OneRun, Reference!Rows, Reference!Running
<1>5. StillMissing'
  BY <1>1, <1>3 DEF SeedInv, StillMissing, Reference!Matching, Reference!Wanted, Reference!Under
<1> QED BY <1>3, <1>4, <1>5 DEF SeedInv, SeedShape

LEMMA MainKeeps ==
    ASSUME SeedInv, NEW r \in Executions, Reference!main(r)
    PROVE  SeedInv'
<1>1. /\ execution' = [execution EXCEPT ![r].pc = "find", ![r].at = 1] /\ table' = table
      /\ overlapped' = (overlapped \/ \E q \in Executions : Reference!Running(q))
      /\ execution[r].pc = "before" /\ execution[r] \in RunHeld
  BY DEF Reference!main, SeedInv, SeedShape
<1>2. /\ execution' \in [Executions -> RunHeld] /\ execution'[r].pc = "find" /\ execution'[r].at = 1
      /\ \A q \in Executions \ {r} : execution'[q] = execution[q]
  <2>1. 1 \in 0..Len(Script)
    BY ScriptOrder
  <2> QED BY <1>1, <2>1 DEF SeedInv, SeedShape, RunHeld
<1>3. SeedShape'
  <2>1. 1 \in 1..Len(Script)
    BY ScriptOrder
  <2> QED BY <1>1, <1>2, <2>1 DEF SeedInv, SeedShape, Reference!Running
<1>4. Reference!Stored' = Reference!Stored
  BY <1>1 DEF Reference!Stored
<1>5. LedBack'
  <2>1. \A n \in Names : ~ PlaceOf(n) < 1
    BY ScriptOrder
  <2> QED BY <1>1, <1>2, <1>4, <2>1 DEF SeedInv, LedBack, Reference!Under
<1>6. EachOnce'
  BY <1>1, <1>4 DEF SeedInv, EachOnce, Reference!Rows
<1>7. OneRun'
  BY <1>1, <1>2 DEF SeedInv, OneRun, Reference!Running
<1>8. StillMissing'
  BY <1>1, <1>2, <1>4 DEF SeedInv, StillMissing, Reference!Matching, Reference!Wanted, Reference!Under
<1> QED BY <1>3, <1>5, <1>6, <1>7, <1>8 DEF SeedInv

\* findFirst found nothing, or the run stops.
LEMMA RunMoves ==
    ASSUME SeedInv, NEW r \in Executions, NEW pc \in {"create", "stopped"}, Reference!Running(r),
           execution' = [execution EXCEPT ![r].pc = pc], UNCHANGED <<table, overlapped>>,
           pc = "create" => /\ Reference!Wanted(r) \notin Keyed
                            /\ Reference!Matching(r, Reference!Wanted(r)) = {}
    PROVE  SeedInv'
<1>1. /\ execution' \in [Executions -> RunHeld] /\ execution'[r].pc = pc
      /\ \A q \in Executions : execution'[q].at = execution[q].at /\ execution'[q].found = execution[q].found
      /\ \A q \in Executions \ {r} : execution'[q] = execution[q]
  BY DEF SeedInv, SeedShape, RunHeld
<1>2. SeedShape'
  BY <1>1 DEF SeedInv, SeedShape, Reference!Running
<1>3. Reference!Stored' = Reference!Stored
  BY DEF Reference!Stored
<1>4. LedBack'
  BY <1>1, <1>3 DEF SeedInv, LedBack, Reference!Under, Reference!Running
<1>5. EachOnce'
  BY <1>3 DEF SeedInv, EachOnce, Reference!Rows
<1>6. OneRun'
  BY <1>1 DEF SeedInv, OneRun, Reference!Running
<1>7. StillMissing'
  BY <1>1, <1>3 DEF SeedInv, StillMissing, Reference!Matching, Reference!Wanted, Reference!Under
<1> QED BY <1>2, <1>4, <1>5, <1>6, <1>7 DEF SeedInv

LEMMA RenameKeeps ==
    ASSUME SeedInv, NEW i \in Ids, Reference!Rename(i)
    PROVE  SeedInv'
<1>1. /\ table' = [table EXCEPT ![i].name = NoName] /\ i \in Reference!Stored
      /\ UNCHANGED <<execution, overlapped>> /\ table[i] \in TableRow
  BY DEF Reference!Rename, SeedInv, SeedShape
<1>2. NoName \notin Names /\ NoName # "missing"
  BY SeedIsBounded DEF Reference!SeedBounds
<1>3. /\ table' \in [Ids -> TableRow] /\ table'[i].name = NoName
      /\ \A j \in Ids : table'[j].parent = table[j].parent
      /\ \A j \in Ids \ {i} : table'[j] = table[j]
  BY <1>1 DEF SeedInv, SeedShape, TableRow
<1>4. Reference!Stored' = Reference!Stored /\ Reference!Stored \subseteq Ids
  BY <1>1, <1>2, <1>3 DEF Reference!Stored, Reference!Missing
<1>5. LedBack'
  BY <1>1, <1>3, <1>4 DEF SeedInv, LedBack, Reference!Under
<1>6. \A n \in Names : Reference!Rows(n)' \subseteq Reference!Rows(n)
  BY <1>2, <1>3, <1>4 DEF Reference!Rows
<1>7. EachOnce'
  BY <1>1, <1>3, <1>4, <1>6 DEF SeedInv, EachOnce, Reference!Rows
<1>8. StillMissing'
  <2>1. ASSUME NEW r \in Executions, execution[r].pc = "create"
        PROVE  Reference!Matching(r, Reference!Wanted(r))' \subseteq
                 Reference!Matching(r, Reference!Wanted(r))
    <3> DEFINE n == Reference!Wanted(r)
               under == Reference!Under(r, n)
    <3>1. n \in Names
      BY <2>1, ScriptOrder DEF SeedInv, SeedShape, Reference!Running, Reference!Wanted
    <3>2. Reference!Wanted(r)' = n /\ Reference!Under(r, n)' = under
      BY <1>1 DEF Reference!Wanted, Reference!Under
    <3>3. \A j \in Reference!Stored : table'[j] = [name |-> n, parent |-> under] => table'[j] = table[j]
      BY <1>2, <1>3, <1>4, <3>1
    <3> QED BY <1>4, <3>2, <3>3 DEF Reference!Matching
  <2> QED BY <1>1, <2>1 DEF SeedInv, StillMissing, Reference!Wanted
<1>9. OneRun' /\ SeedShape'
  BY <1>1, <1>3 DEF SeedInv, SeedShape, OneRun, Reference!Running
<1> QED BY <1>5, <1>7, <1>8, <1>9 DEF SeedInv

\* However often the script runs, stops and runs again, alone or beside itself, and
\* whatever is renamed between: a run that ends has led each row of the script back
\* to the one it belongs to; and no row is there twice, with a unique key ever, and
\* without one as long as runs do not overlap (main of seed.ts).
THEOREM SeededOnceOnly == Reference!Spec => []SeededOnce
<1>1. ASSUME SeedInv, [Reference!Next]_(Reference!vars) PROVE SeedInv'
  <2>1. ASSUME NEW r \in Executions, Reference!upsert(r) PROVE SeedInv'
    <3>1. /\ Reference!Running(r) /\ overlapped' = overlapped
      BY <2>1 DEF Reference!upsert, Reference!Running
    <3>2. CASE Reference!Matching(r, Reference!Wanted(r)) = {} /\ Reference!Insert(r)
      BY <1>1, <3>1, <3>2, InsertKeeps
    <3>3. ASSUME NEW i \in Reference!Matching(r, Reference!Wanted(r)), Reference!Proceed(r, i),
                 table' = table
          PROVE  SeedInv'
      BY <1>1, <3>1, <3>3, FoundKeeps
    <3> QED BY <2>1, <3>2, <3>3 DEF Reference!upsert
  <2>2. ASSUME NEW r \in Executions, Reference!findFirst(r) PROVE SeedInv'
    <3>1. Reference!Running(r) /\ Reference!Wanted(r) \notin Keyed /\ UNCHANGED <<table, overlapped>>
      BY <2>2 DEF Reference!findFirst, Reference!Running
    <3>2. ASSUME NEW i \in Reference!Matching(r, Reference!Wanted(r)), Reference!Proceed(r, i)
          PROVE  SeedInv'
      BY <1>1, <3>1, <3>2, FoundKeeps
    <3>3. CASE /\ Reference!Matching(r, Reference!Wanted(r)) = {}
               /\ execution' = [execution EXCEPT ![r].pc = "create"]
      BY <1>1, <3>1, <3>3, RunMoves
    <3> QED BY <2>2, <3>2, <3>3 DEF Reference!findFirst, Reference!Found
  <2>3. ASSUME NEW r \in Executions, Reference!create(r) PROVE SeedInv'
    <3>1. /\ Reference!Running(r) /\ Reference!Insert(r) /\ overlapped' = overlapped
          /\ (Reference!Wanted(r) \in Keyed \/ ~ overlapped) =>
               Reference!Matching(r, Reference!Wanted(r)) = {}
      BY <1>1, <2>3 DEF Reference!create, Reference!Running, SeedInv, StillMissing
    <3> QED BY <1>1, <3>1, InsertKeeps
  <2>4. ASSUME NEW r \in Executions, Reference!Stops(r) PROVE SeedInv'
    BY <1>1, <2>4, RunMoves DEF Reference!Stops
  <2>5. CASE UNCHANGED Reference!vars
    BY <1>1, <2>5 DEF Reference!vars, SeedInv, SeedShape, LedBack, EachOnce, StillMissing, OneRun,
       Reference!Running, Reference!Rows, Reference!Stored, Reference!Matching, Reference!Wanted,
       Reference!Under
  <2> QED BY <1>1, <2>1, <2>2, <2>3, <2>4, <2>5, MainKeeps, RenameKeeps DEF Reference!Next
<1>2. SeedInv => SeededOnce
  BY DEF SeedInv, LedBack, EachOnce, SeededOnce, Reference!SeededOnce
<1> QED BY <1>1, <1>2, SeedStarts, PTL DEF Reference!Spec

-----------------------------------------------------------------------------
(* Dictionary: an order, the positions in it, and the pages.                *)

ListingHeld == [pc : {"idle", "listing", "done"}, cursor : Entries \cup {NoEntry}]

ListingShape ==
    /\ dictionary \in [Entries -> Times \cup {Dictionary!Unwritten, Dictionary!Gone}]
    /\ deleter \in [Deleters -> Entries \cup {NoEntry}]
    /\ listing \in ListingHeld
    /\ seen \in [Entries -> {0, 1}]
    /\ throughout \subseteq Dictionary!Present /\ lost \in BOOLEAN
    /\ IsFiniteSet(Dictionary!Present)

LEMMA ListingsAreBounded ==
    Entries \subseteq Nat /\ NoEntry \notin Entries /\ Times \subseteq Nat \ {0} /\ Limit \in Nat \ {0}
BY PlatformBounds DEF PlatformBounds, Dictionary!ListingsBounds

LEMMA InOrder ==
    ASSUME ListingShape
    PROVE  /\ \A d, e \in Entries : d = e \/ Dictionary!Before(d, e) \/ Dictionary!Before(e, d)
           /\ \A d, e \in Entries : Dictionary!Before(d, e) => d # e /\ ~ Dictionary!Before(e, d)
           /\ \A c, d, e \in Entries : Dictionary!Before(c, d) /\ Dictionary!Before(d, e) =>
                Dictionary!Before(c, e)
<1>1. Times \cup {Dictionary!Unwritten, Dictionary!Gone} \subseteq Int
  BY ListingsAreBounded DEF Dictionary!Unwritten, Dictionary!Gone
<1>2. \A e \in Entries : e \in Nat /\ dictionary[e] \in Int
  BY <1>1, ListingsAreBounded DEF ListingShape
<1> QED BY <1>2 DEF Dictionary!Before

\* The cardinality of the instance is the one the library reasons about.
LEMMA Counted ==
    /\ \A S : Dictionary!Cardinality(S) = Cardinality(S)
    /\ \A S : Dictionary!IsFiniteSet(S) = IsFiniteSet(S)
BY Zenon DEF Dictionary!Cardinality, Cardinality, Dictionary!IsFiniteSet, IsFiniteSet

LEMMA PositionIs ==
    ASSUME NEW rows, NEW e
    PROVE  Dictionary!Position(e, rows) = Cardinality({d \in rows : Dictionary!Before(d, e)})
BY Counted DEF Dictionary!Position

LEMMA PositionIsNatural ==
    ASSUME NEW rows, IsFiniteSet(rows), NEW e
    PROVE  Dictionary!Position(e, rows) \in Nat
<1> DEFINE ahead == {d \in rows : Dictionary!Before(d, e)}
<1>1. ahead \in SUBSET rows
  OBVIOUS
<1>2. IsFiniteSet(ahead)
  BY <1>1, FS_Subset
<1> QED BY <1>2, FS_CardinalityType, PositionIs

LEMMA PositionGrows ==
    ASSUME ListingShape, NEW rows \in SUBSET Entries, IsFiniteSet(rows),
           NEW d \in rows, NEW e \in rows, Dictionary!Before(d, e)
    PROVE  Dictionary!Position(d, rows) < Dictionary!Position(e, rows)
<1> DEFINE fewer == {c \in rows : Dictionary!Before(c, d)}
           more == {c \in rows : Dictionary!Before(c, e)}
<1>1. fewer \in SUBSET more /\ d \in more /\ d \notin fewer /\ more \in SUBSET rows
  BY InOrder
<1>2. Dictionary!Position(d, rows) = Cardinality(fewer) /\ Dictionary!Position(e, rows) = Cardinality(more)
  BY PositionIs
<1> HIDE DEF fewer, more
<1>3. IsFiniteSet(more)
  BY <1>1, FS_Subset
<1>4. IsFiniteSet(fewer) /\ Cardinality(fewer) <= Cardinality(more) /\ Cardinality(fewer) # Cardinality(more)
  BY <1>1, <1>3, FS_Subset
<1>5. Cardinality(fewer) \in Nat /\ Cardinality(more) \in Nat
  BY <1>3, <1>4, FS_CardinalityType
<1> QED BY <1>2, <1>4, <1>5

NatLess == {p \in Nat \X Nat : p[1] < p[2]}

LEMMA LeastNumber ==
    ASSUME NEW T \in SUBSET Nat, T # {}
    PROVE  \E m \in T : \A n \in T : m <= n
<1>1. NatLess = OpToRel(<, Nat)
  BY DEF NatLess, OpToRel
<1>2. IsWellFoundedOn(NatLess, Nat)
  BY ONLY <1>1, NatLessThanWellFounded, Zenon
<1>3. PICK m \in T : \A n \in T : ~ (<<n, m>> \in NatLess)
  BY <1>2, WFMin
<1>4. \A n \in T : ~ n < m
  BY <1>3 DEF NatLess
<1> QED BY <1>4

LEMMA FirstOf ==
    ASSUME ListingShape, NEW rows \in SUBSET Entries, IsFiniteSet(rows),
           NEW T \in SUBSET rows, T # {}
    PROVE  \E e \in T : \A d \in T \ {e} : Dictionary!Before(e, d)
<1> DEFINE places == {Dictionary!Position(e, rows) : e \in T}
<1>1. places \in SUBSET Nat /\ places # {}
  BY PositionIsNatural
<1>2. PICK m \in places : \A n \in places : m <= n
  BY <1>1, LeastNumber
<1>3. PICK e \in T : m = Dictionary!Position(e, rows)
  BY <1>2
<1>4. ASSUME NEW d \in T \ {e} PROVE Dictionary!Before(e, d)
  <2>1. Dictionary!Position(e, rows) <= Dictionary!Position(d, rows)
    BY <1>2, <1>3
  <2>2. ~ Dictionary!Before(d, e)
    BY <2>1, PositionGrows, PositionIsNatural
  <2> QED BY <2>2, InOrder
<1> QED BY <1>4

LEMMA LastOf ==
    ASSUME ListingShape, NEW rows \in SUBSET Entries, IsFiniteSet(rows), rows # {}
    PROVE  /\ Dictionary!Last(rows) \in rows
           /\ \A d \in rows \ {Dictionary!Last(rows)} : Dictionary!Before(d, Dictionary!Last(rows))
<1> DEFINE n == Cardinality(rows)
           places == {n - Dictionary!Position(e, rows) : e \in rows}
<1>1. n \in Nat /\ \A e \in rows : Dictionary!Position(e, rows) \in Nat /\ Dictionary!Position(e, rows) <= n
  <2>1. ASSUME NEW e \in rows PROVE Dictionary!Position(e, rows) <= n
    <3>1. {d \in rows : Dictionary!Before(d, e)} \in SUBSET rows
      OBVIOUS
    <3> QED BY <3>1, FS_Subset, PositionIs
  <2> QED BY <2>1, PositionIsNatural, FS_CardinalityType
<1>2. places \in SUBSET Nat /\ places # {}
  BY <1>1
<1>3. PICK m \in places : \A k \in places : m <= k
  BY <1>2, LeastNumber
<1>4. PICK e \in rows : m = n - Dictionary!Position(e, rows)
  BY <1>3
<1>5. ASSUME NEW d \in rows \ {e} PROVE Dictionary!Before(d, e)
  <2>1. Dictionary!Position(d, rows) <= Dictionary!Position(e, rows)
    <3>1. n - Dictionary!Position(e, rows) <= n - Dictionary!Position(d, rows)
      BY <1>3, <1>4
    <3> QED BY <1>1, <3>1
  <2>2. ~ Dictionary!Before(e, d)
    BY <1>1, <2>1, PositionGrows
  <2> QED BY <2>2, InOrder
<1> QED BY <1>5 DEF Dictionary!Last

\* A page of S from position skip on, as list cuts it.
LEMMA PageOf ==
    ASSUME ListingShape, NEW S \in SUBSET Entries, IsFiniteSet(S), NEW skip \in Nat,
           Cardinality({d \in S : Dictionary!Position(d, S) < skip}) <= skip,
           NEW rows, rows = Dictionary!Slice(S, skip, Limit + 1),
           NEW page, page = Dictionary!Slice(rows, 0, Limit)
    PROVE  /\ IsFiniteSet(page) /\ page \subseteq S
           /\ \A e \in page : Dictionary!Position(e, S) >= skip
           /\ \A p \in page : \A e \in S \ page :
                Dictionary!Position(e, S) >= skip => Dictionary!Before(p, e)
           /\ Cardinality(rows) > Limit => page # {}
           /\ ~ Cardinality(rows) > Limit =>
                \A e \in S : Dictionary!Position(e, S) >= skip => e \in page
<1> DEFINE passed == {d \in S : Dictionary!Position(d, S) < skip}
<1>1. /\ \A e : e \in rows <=> /\ e \in S /\ Dictionary!Position(e, S) >= skip
                              /\ Dictionary!Position(e, S) < skip + (Limit + 1)
      /\ \A e : e \in page <=> /\ e \in rows /\ Dictionary!Position(e, rows) >= 0
                              /\ Dictionary!Position(e, rows) < 0 + Limit
  BY DEF Dictionary!Slice
<1>2. page \subseteq rows /\ rows \subseteq S /\ IsFiniteSet(rows) /\ IsFiniteSet(page)
  BY <1>1, FS_Subset
<1>3. /\ \A e : Dictionary!Position(e, S) \in Nat /\ Dictionary!Position(e, rows) \in Nat
      /\ Limit \in Nat \ {0}
  BY <1>2, PositionIsNatural, ListingsAreBounded
<1>4. ASSUME NEW p \in page, NEW e \in S \ page, Dictionary!Position(e, S) >= skip
      PROVE  Dictionary!Before(p, e)
  <2>1. SUFFICES ASSUME Dictionary!Before(e, p) PROVE FALSE
    BY <1>2, InOrder
  <2>2. e \in rows
    <3>1. Dictionary!Position(e, S) < Dictionary!Position(p, S)
      BY <1>2, <2>1, PositionGrows
    <3> QED BY <1>1, <1>2, <1>3, <1>4, <3>1
  <2>3. Dictionary!Position(e, rows) < Dictionary!Position(p, rows)
    BY <1>2, <2>1, <2>2, PositionGrows
  <2> QED BY <1>1, <1>3, <2>2, <2>3
<1>5. Cardinality(rows) \in Nat
  BY <1>2, FS_CardinalityType
<1>6. ASSUME Cardinality(rows) > Limit PROVE page # {}
  <2>1. rows # {}
    BY <1>3, <1>6, FS_EmptySet
  <2>2. PICK e \in rows : \A d \in rows \ {e} : Dictionary!Before(e, d)
    BY <1>2, <2>1, FirstOf
  <2>3. {d \in rows : Dictionary!Before(d, e)} = {}
    BY <1>2, <2>2, InOrder
  <2>4. Dictionary!Position(e, rows) = 0
    BY <2>3, FS_EmptySet, PositionIs
  <2> QED BY <1>1, <1>3, <2>4
<1>7. ASSUME ~ Cardinality(rows) > Limit, NEW x \in S, Dictionary!Position(x, S) >= skip, x \notin page
      PROVE  FALSE
  <2> DEFINE T == {e \in S \ page : Dictionary!Position(e, S) >= skip}
  <2>0. T \in SUBSET S /\ T # {}
    BY <1>7
  <2> HIDE DEF T
  <2>1. PICK e \in T : \A d \in T \ {e} : Dictionary!Before(e, d)
    BY <2>0, FirstOf
  <2> USE DEF T
  <2>2. CASE e \in rows
    <3> DEFINE ahead == {d \in rows : Dictionary!Before(d, e)}
    <3>1. ahead \in SUBSET (rows \ {e})
      BY <1>2, InOrder
    <3>2. IsFiniteSet(rows \ {e}) /\ Cardinality(rows \ {e}) = Cardinality(rows) - 1
      BY ONLY <1>2, <2>2, FS_RemoveElement
    <3>3. Cardinality(ahead) <= Cardinality(rows) - 1
      BY <3>1, <3>2, FS_Subset
    <3>4. Dictionary!Position(e, rows) >= Limit
      BY <1>1, <1>3, <2>1, <2>2
    <3>5. Dictionary!Position(e, rows) <= Cardinality(rows) - 1
      BY <3>3, PositionIs
    <3> QED BY <1>3, <1>5, <1>7, <3>4, <3>5
  <2>3. CASE e \notin rows
    <3> DEFINE ahead == {d \in S : Dictionary!Before(d, e)}
    <3>1. Dictionary!Position(e, S) >= skip + (Limit + 1)
      BY <1>1, <1>3, <2>1, <2>3
    <3>2. ahead \subseteq passed \cup rows
      <4>1. ASSUME NEW d \in S, Dictionary!Before(d, e), Dictionary!Position(d, S) >= skip
            PROVE  d \in rows
        <5>1. d \notin T
          BY <2>1, <4>1, InOrder
        <5> QED BY <1>2, <4>1, <5>1
      <4> QED BY <1>3, <4>1
    <3>3. IsFiniteSet(passed) /\ IsFiniteSet(passed \cup rows) /\ Cardinality(passed \cap rows) \in Nat
          /\ Cardinality(passed \cup rows) = Cardinality(passed) + Cardinality(rows) - Cardinality(passed \cap rows)
      <4>1. IsFiniteSet(passed) /\ IsFiniteSet(passed \cap rows)
        BY <1>2, FS_Subset
      <4> HIDE DEF passed
      <4> QED BY <1>2, <4>1, FS_Union, FS_CardinalityType
    <3>4. Cardinality(passed) \in Nat /\ Cardinality(passed) <= skip
      BY <3>3, FS_CardinalityType
    <3>5. Cardinality(ahead) <= Cardinality(passed \cup rows)
      BY <3>2, <3>3, FS_Subset
    <3>6. Cardinality(ahead) = Dictionary!Position(e, S)
      BY PositionIs
    <3> HIDE DEF passed, ahead
    <3>7. Cardinality(passed \cup rows) <= skip + Limit
      BY <1>3, <1>5, <1>7, <3>3, <3>4
    <3> QED BY <1>3, <1>5, <3>1, <3>3, <3>4, <3>5, <3>6, <3>7
  <2> QED BY <2>2, <2>3
<1>8. \A e \in page : Dictionary!Position(e, S) >= skip
  BY <1>1, <1>2
<1> QED BY <1>2, <1>4, <1>6, <1>7, <1>8

\* What is listed so far lies up to the cursor, and what was not lies behind it.
UpToCursor ==
    /\ \A e \in Entries : seen[e] = 1 => dictionary[e] # Dictionary!Unwritten /\ listing.pc # "idle"
    /\ listing.pc = "listing" => listing.cursor \in Entries /\ seen[listing.cursor] = 1
    /\ (listing.pc = "listing" /\ listing.cursor \in Dictionary!Present) =>
         /\ \A e \in Dictionary!Present : seen[e] = 1 =>
              e = listing.cursor \/ Dictionary!Before(e, listing.cursor)
         /\ \A e \in throughout : seen[e] = 0 => Dictionary!Before(listing.cursor, e)
    /\ (listing.pc = "done" /\ ~ lost) => \A e \in throughout : seen[e] = 1

ListingInv == ListingShape /\ UpToCursor

LEMMA WhatIsPresent ==
    /\ Dictionary!Unwritten \notin Times /\ Dictionary!Gone \notin Times
    /\ Dictionary!Unwritten # Dictionary!Gone
    /\ Dictionary!Present \subseteq Entries
BY ListingsAreBounded DEF Dictionary!Unwritten, Dictionary!Gone, Dictionary!Present

LEMMA ListingStarts == Dictionary!Init => ListingInv
<1> SUFFICES ASSUME Dictionary!Init PROVE ListingInv
  OBVIOUS
<1>1. Dictionary!Present = {}
  BY WhatIsPresent DEF Dictionary!Init, Dictionary!Present
<1>2. ListingShape
  BY <1>1, FS_EmptySet DEF Dictionary!Init, ListingShape, ListingHeld
<1>3. UpToCursor
  BY DEF Dictionary!Init, UpToCursor
<1> QED BY <1>2, <1>3 DEF ListingInv

LEMMA CreateKeeps ==
    ASSUME ListingInv, NEW e \in Entries, NEW at \in Times, Dictionary!create(e, at)
    PROVE  ListingInv'
<1>1. /\ dictionary' = [dictionary EXCEPT ![e] = at] /\ dictionary[e] = Dictionary!Unwritten
      /\ UNCHANGED <<deleter, listing, seen, throughout, lost>>
  BY DEF Dictionary!create
<1>2. /\ Dictionary!Present' = Dictionary!Present \cup {e} /\ e \notin Dictionary!Present
      /\ \A d \in Entries \ {e} : dictionary'[d] = dictionary[d]
      /\ dictionary'[e] = at
  BY <1>1, WhatIsPresent DEF ListingInv, ListingShape, Dictionary!Present
<1>3. IsFiniteSet(Dictionary!Present \cup {e})
  BY FS_AddElement DEF ListingInv, ListingShape
<1>4. ListingShape'
  BY <1>1, <1>2, <1>3 DEF ListingInv, ListingShape
<1>5. seen[e] # 1
  BY <1>1 DEF ListingInv, UpToCursor
<1>6. \A c, d \in Dictionary!Present : Dictionary!Before(c, d)' <=> Dictionary!Before(c, d)
  BY <1>2, WhatIsPresent DEF Dictionary!Before
<1>7. listing.pc = "listing" /\ listing.cursor \in Dictionary!Present' =>
        listing.cursor \in Dictionary!Present \/ listing.cursor = e
  BY <1>2
<1>8. UpToCursor'
  <2>1. \A d \in Entries : seen'[d] = 1 => dictionary'[d] # Dictionary!Unwritten /\ listing'.pc # "idle"
    BY <1>1, <1>2, <1>5 DEF ListingInv, UpToCursor
  <2>2. ASSUME listing.pc = "listing", listing.cursor \in Dictionary!Present
        PROVE  /\ \A d \in Dictionary!Present' : seen'[d] = 1 =>
                    d = listing'.cursor \/ Dictionary!Before(d, listing.cursor)'
               /\ \A d \in throughout' : seen'[d] = 0 => Dictionary!Before(listing.cursor, d)'
    <3>1. throughout \subseteq Dictionary!Present
      BY DEF ListingInv, ListingShape
    <3> QED BY <1>1, <1>2, <1>5, <1>6, <2>2, <3>1 DEF ListingInv, UpToCursor
  <2>3. ~ (listing.pc = "listing" /\ listing.cursor = e)
    BY <1>5 DEF ListingInv, UpToCursor
  <2> QED BY <1>1, <1>7, <2>1, <2>2, <2>3 DEF ListingInv, UpToCursor
<1> QED BY <1>4, <1>8 DEF ListingInv

LEMMA DeleteKeeps ==
    ASSUME ListingInv, NEW d \in Deleters, Dictionary!delete(d)
    PROVE  ListingInv'
<1> DEFINE e == deleter[d]
<1>1. /\ e \in Entries /\ dictionary' = [dictionary EXCEPT ![e] = Dictionary!Gone]
      /\ throughout' = throughout \ {e} /\ deleter' = [deleter EXCEPT ![d] = NoEntry]
      /\ UNCHANGED <<listing, seen, lost>>
  BY DEF Dictionary!delete, ListingInv, ListingShape
<1> HIDE DEF e
<1>2. /\ Dictionary!Present' = Dictionary!Present \ {e}
      /\ \A c \in Entries \ {e} : dictionary'[c] = dictionary[c]
      /\ dictionary'[e] = Dictionary!Gone
  BY <1>1, WhatIsPresent DEF ListingInv, ListingShape, Dictionary!Present
<1>3. IsFiniteSet(Dictionary!Present \ {e})
  BY FS_RemoveElement DEF ListingInv, ListingShape
<1>4. ListingShape'
  BY <1>1, <1>2, <1>3 DEF ListingInv, ListingShape
<1>5. \A b, c \in Dictionary!Present' : Dictionary!Before(b, c)' <=> Dictionary!Before(b, c)
  BY <1>2, WhatIsPresent DEF Dictionary!Before
<1>6. throughout' \subseteq Dictionary!Present' /\ Dictionary!Present' \subseteq Dictionary!Present
  BY <1>1, <1>2 DEF ListingInv, ListingShape
<1>7. UpToCursor'
  <2>1. \A c \in Entries : seen'[c] = 1 => dictionary'[c] # Dictionary!Unwritten /\ listing'.pc # "idle"
    BY <1>1, <1>2, WhatIsPresent DEF ListingInv, UpToCursor
  <2> QED BY <1>1, <1>5, <1>6, <2>1 DEF ListingInv, UpToCursor
<1> QED BY <1>4, <1>7 DEF ListingInv

LEMMA GetOwnedEntryKeeps ==
    ASSUME ListingInv, NEW d \in Deleters, NEW e \in Entries, Dictionary!getOwnedEntry(d, e)
    PROVE  ListingInv'
<1>1. /\ deleter' = [deleter EXCEPT ![d] = e]
      /\ UNCHANGED <<dictionary, listing, seen, throughout, lost>>
  BY DEF Dictionary!getOwnedEntry
<1>2. Dictionary!Present' = Dictionary!Present /\ \A b, c : Dictionary!Before(b, c)' <=> Dictionary!Before(b, c)
  BY <1>1 DEF Dictionary!Present, Dictionary!Before
<1> QED BY <1>1, <1>2 DEF ListingInv, ListingShape, UpToCursor

\* A page of S from position skip on is shown, of which nothing was listed before,
\* and everything that was there all the time and not listed is in S.
LEMMA ShowKeeps ==
    ASSUME ListingInv, NEW cursor \in Entries \cup {NoEntry}, Dictionary!Show(cursor),
           UNCHANGED <<dictionary, deleter>>, throughout' \in SUBSET Dictionary!Present,
           lost' \in BOOLEAN, listing.pc # "done",
           NEW S, S = Dictionary!From(cursor),
           NEW skip \in Nat, skip = IF cursor = NoEntry THEN 0 ELSE 1,
           Cardinality({d \in S : Dictionary!Position(d, S) < skip}) <= skip,
           \A e \in S : Dictionary!Position(e, S) >= skip => seen[e] = 0,
           \A d \in Dictionary!Present : \A e \in S :
             seen[d] = 1 /\ Dictionary!Position(e, S) >= skip => Dictionary!Before(d, e),
           \A e \in throughout' : seen[e] = 0 => e \in S /\ Dictionary!Position(e, S) >= skip
    PROVE  ListingInv'
<1> DEFINE rows == Dictionary!Slice(S, skip, Limit + 1)
           page == Dictionary!Slice(rows, 0, Limit)
           more == Cardinality(rows) > Limit
<1>1. /\ seen' = [e \in Entries |-> seen[e] + (IF e \in page THEN 1 ELSE 0)]
      /\ listing' = IF more THEN [pc |-> "listing", cursor |-> Dictionary!Last(page)]
                            ELSE [pc |-> "done", cursor |-> NoEntry]
  BY Counted DEF Dictionary!Show, Dictionary!list
<1>2. S \in SUBSET Dictionary!Present /\ IsFiniteSet(S) /\ S \in SUBSET Entries
  <2>1. S \in SUBSET Dictionary!Present
    BY DEF Dictionary!From
  <2> QED BY <2>1, FS_Subset, WhatIsPresent DEF ListingInv, ListingShape
<1>3. /\ IsFiniteSet(page) /\ page \subseteq S
      /\ \A e \in page : Dictionary!Position(e, S) >= skip
      /\ \A p \in page : \A e \in S \ page :
           Dictionary!Position(e, S) >= skip => Dictionary!Before(p, e)
      /\ more => page # {}
      /\ ~ more => \A e \in S : Dictionary!Position(e, S) >= skip => e \in page
  BY <1>2, PageOf DEF ListingInv
<1>4. /\ Dictionary!Present' = Dictionary!Present
      /\ \A d, e : Dictionary!Before(d, e)' <=> Dictionary!Before(d, e)
  BY DEF Dictionary!Present, Dictionary!Before
<1> HIDE DEF rows, page, more
<1>5. /\ seen' \in [Entries -> {0, 1}]
      /\ \A e \in Entries : seen'[e] = 1 <=> seen[e] = 1 \/ e \in page
      /\ \A e \in Entries : seen'[e] = 0 <=> seen[e] = 0 /\ e \notin page
  <2>1. \A e \in Entries : seen[e] \in {0, 1} /\ (e \in page => seen[e] = 0)
    BY <1>3 DEF ListingInv, ListingShape
  <2>2. \A e \in Entries : seen'[e] = IF e \in page THEN 1 ELSE seen[e]
    BY <1>1, <2>1
  <2>3. seen' \in [Entries -> {0, 1}]
    BY <1>1, <2>1
  <2> QED BY <2>1, <2>2, <2>3
<1>6. ASSUME more
      PROVE  /\ Dictionary!Last(page) \in page
             /\ \A d \in page \ {Dictionary!Last(page)} : Dictionary!Before(d, Dictionary!Last(page))
  BY <1>2, <1>3, <1>6, LastOf DEF ListingInv
<1>7. listing' \in ListingHeld
  BY <1>1, <1>2, <1>3, <1>6 DEF ListingHeld
<1>8. ListingShape'
  BY <1>4, <1>5, <1>7 DEF ListingInv, ListingShape
<1>9. \A e \in Entries : seen'[e] = 1 => dictionary'[e] # Dictionary!Unwritten /\ listing'.pc # "idle"
  <2>1. \A e \in page : dictionary[e] # Dictionary!Unwritten
    BY <1>2, <1>3, WhatIsPresent DEF Dictionary!Present
  <2>2. listing'.pc # "idle"
    BY <1>1
  <2> QED BY <1>5, <2>1, <2>2 DEF ListingInv, UpToCursor
<1>10. CASE more
  <2> DEFINE last == Dictionary!Last(page)
  <2>1. listing'.pc = "listing" /\ listing'.cursor = last /\ last \in Entries /\ last \in S
    BY <1>1, <1>2, <1>3, <1>6, <1>10
  <2>2. seen'[last] = 1
    BY <1>5, <1>6, <1>10, <2>1
  <2>3. ASSUME NEW e \in Dictionary!Present, seen'[e] = 1
        PROVE  e = last \/ Dictionary!Before(e, last)
    BY <1>3, <1>5, <1>6, <1>10, <2>1, <2>3, WhatIsPresent
  <2>4. ASSUME NEW e \in throughout', seen'[e] = 0
        PROVE  Dictionary!Before(last, e)
    BY <1>3, <1>5, <1>6, <1>10, <2>4, WhatIsPresent
  <2>5. UpToCursor'
    BY <1>4, <1>9, <2>1, <2>2, <2>3, <2>4 DEF UpToCursor
  <2> QED BY <1>8, <2>5 DEF ListingInv
<1>11. CASE ~ more
  <2>1. listing'.pc = "done"
    BY <1>1, <1>11
  <2>2. \A e \in throughout' : seen'[e] = 1
    BY <1>3, <1>5, <1>11, WhatIsPresent
  <2>3. UpToCursor'
    BY <1>9, <2>1, <2>2 DEF UpToCursor
  <2> QED BY <1>8, <2>3 DEF ListingInv
<1> QED BY <1>10, <1>11

LEMMA FirstPageKeeps ==
    ASSUME ListingInv, Dictionary!FirstPage
    PROVE  ListingInv'
<1>1. /\ listing.pc = "idle" /\ Dictionary!Show(NoEntry) /\ throughout' = Dictionary!Present
      /\ UNCHANGED <<dictionary, deleter, lost>>
  BY DEF Dictionary!FirstPage
<1>2. Dictionary!Present = Dictionary!From(NoEntry)
  BY DEF Dictionary!From
<1>3. \A e \in Entries : seen[e] = 0
  BY <1>1 DEF ListingInv, ListingShape, UpToCursor
<1>4. \A e : Dictionary!Position(e, Dictionary!Present) \in Nat
  BY PositionIsNatural DEF ListingInv, ListingShape
<1>5. {d \in Dictionary!Present : Dictionary!Position(d, Dictionary!Present) < 0} = {}
  BY <1>4
<1>6. \A e \in Dictionary!Present :
        seen[e] = 0 /\ Dictionary!Position(e, Dictionary!Present) >= 0
  BY <1>3, <1>4, WhatIsPresent
<1>7. lost' \in BOOLEAN
  BY <1>1 DEF ListingInv, ListingShape
<1> QED BY <1>1, <1>2, <1>5, <1>6, <1>7, ShowKeeps, FS_EmptySet

LEMMA NextPageKeeps ==
    ASSUME ListingInv, Dictionary!NextPage
    PROVE  ListingInv'
<1> DEFINE k == listing.cursor
           S == Dictionary!From(k)
<1>1. /\ listing.pc = "listing" /\ Dictionary!Show(k) /\ lost' = (k \notin Dictionary!Present)
      /\ UNCHANGED <<dictionary, deleter, throughout>>
  BY DEF Dictionary!NextPage
<1>2. k \in Entries /\ k # NoEntry
  BY <1>1, ListingsAreBounded DEF ListingInv, UpToCursor
<1>3. CASE k \in Dictionary!Present
  <2>1. /\ S = {e \in Dictionary!Present : ~ Dictionary!Before(e, k)}
        /\ k \in S /\ S \in SUBSET Dictionary!Present /\ S \in SUBSET Entries
    BY <1>2, <1>3, InOrder, WhatIsPresent DEF Dictionary!From, ListingInv
  <2> HIDE DEF S
  <2>2. \A e \in S \ {k} : Dictionary!Before(k, e)
    BY <1>2, <2>1, InOrder DEF ListingInv
  <2>3. IsFiniteSet(S)
    BY <2>1, FS_Subset DEF ListingInv, ListingShape
  <2>4. \A e : Dictionary!Position(e, S) \in Nat
    BY <2>3, PositionIsNatural
  <2>5. \A e \in S \ {k} : Dictionary!Position(e, S) >= 1
    <3>1. ASSUME NEW e \in S \ {k} PROVE Dictionary!Position(e, S) >= 1
      <4>1. Dictionary!Position(k, S) < Dictionary!Position(e, S)
        BY <2>1, <2>2, <2>3, PositionGrows DEF ListingInv
      <4> QED BY <2>4, <4>1
    <3> QED BY <3>1
  <2>6. Dictionary!Position(k, S) = 0
    <3>1. {d \in S : Dictionary!Before(d, k)} = {}
      BY <2>1
    <3> QED BY <3>1, PositionIs, FS_EmptySet
  <2>7. {d \in S : Dictionary!Position(d, S) < 1} = {k}
    BY <2>1, <2>4, <2>5, <2>6
  <2>8. Cardinality({d \in S : Dictionary!Position(d, S) < 1}) <= 1
    BY <2>7, FS_Singleton
  <2>9. /\ \A e \in Dictionary!Present : seen[e] = 1 => e = k \/ Dictionary!Before(e, k)
        /\ \A e \in throughout : seen[e] = 0 => Dictionary!Before(k, e)
        /\ throughout \in SUBSET Dictionary!Present
    BY <1>1, <1>3 DEF ListingInv, ListingShape, UpToCursor
  <2>10. \A e \in S : Dictionary!Position(e, S) >= 1 => seen[e] = 0
    BY <2>1, <2>6, <2>9 DEF ListingInv, ListingShape
  <2>11. \A d \in Dictionary!Present : \A e \in S :
           seen[d] = 1 /\ Dictionary!Position(e, S) >= 1 => Dictionary!Before(d, e)
    BY <1>2, <2>1, <2>2, <2>6, <2>9, InOrder, WhatIsPresent DEF ListingInv
  <2>12. \A e \in throughout' : seen[e] = 0 => e \in S /\ Dictionary!Position(e, S) >= 1
    <3>1. ASSUME NEW e \in throughout, seen[e] = 0 PROVE e \in S \ {k}
      BY <1>2, <2>1, <2>9, <3>1, InOrder, WhatIsPresent DEF ListingInv
    <3> QED BY <1>1, <2>5, <3>1
  <2>13. 1 = IF k = NoEntry THEN 0 ELSE 1
    BY <1>2
  <2>14. S = Dictionary!From(k)
    BY DEF S
  <2>15. UNCHANGED <<dictionary, deleter>> /\ throughout' \in SUBSET Dictionary!Present /\ lost' \in BOOLEAN
    BY <1>1, <2>9
  <2> HIDE DEF k
  <2> QED BY <1>1, <1>2, <2>8, <2>10, <2>11, <2>12, <2>13, <2>14, <2>15, ShowKeeps
<1>4. CASE k \notin Dictionary!Present
  <2>1. S = {}
    BY <1>2, <1>4 DEF Dictionary!From
  <2>2. Dictionary!Slice(S, 1, Limit + 1) = {} /\ Dictionary!Slice({}, 0, Limit) = {}
    BY <2>1 DEF Dictionary!Slice
  <2>3. seen' = [e \in Entries |-> seen[e] + 0] /\ listing' = [pc |-> "done", cursor |-> NoEntry]
    <3>1. /\ Dictionary!list(k).page = {}
          /\ Dictionary!list(k).more = (Dictionary!Cardinality({}) > Limit)
      BY <1>2, <2>1, <2>2 DEF Dictionary!list
    <3>2. Dictionary!Cardinality({}) = 0
      BY Counted, FS_EmptySet
    <3>3. ~ Dictionary!list(k).more
      <4>1. ~ Dictionary!Cardinality({}) > Limit
        BY <3>2, ListingsAreBounded
      <4> QED BY ONLY <3>1, <4>1, Zenon
    <3> QED BY <1>1, <3>1, <3>3 DEF Dictionary!Show
  <2>4. seen' = seen
    BY <2>3 DEF ListingInv, ListingShape
  <2>5. Dictionary!Present' = Dictionary!Present
    BY <1>1 DEF Dictionary!Present
  <2>6. ListingShape'
    BY <1>1, <2>3, <2>4, <2>5 DEF ListingInv, ListingShape, ListingHeld
  <2>7. UpToCursor'
    BY <1>1, <1>4, <2>3, <2>4 DEF ListingInv, UpToCursor
  <2> QED BY <2>6, <2>7 DEF ListingInv
<1> QED BY <1>3, <1>4

\* A listing read page by page while entries come and go, of any number and with any
\* page size, has nothing twice, and at its end has everything that was there all
\* the time, unless a row its cursor named was deleted (list of the dictionary).
THEOREM EachListedOnce == Dictionary!Spec => []ListedOnce
<1>1. ASSUME ListingInv, [Dictionary!Next]_(Dictionary!vars) PROVE ListingInv'
  <2>1. CASE UNCHANGED Dictionary!vars
    <3>1. UNCHANGED <<dictionary, deleter, listing, seen, throughout, lost>>
      BY <2>1 DEF Dictionary!vars
    <3>2. /\ Dictionary!Present' = Dictionary!Present
          /\ \A b, c : Dictionary!Before(b, c)' <=> Dictionary!Before(b, c)
      BY <3>1 DEF Dictionary!Present, Dictionary!Before
    <3> QED BY <1>1, <3>1, <3>2 DEF ListingInv, ListingShape, UpToCursor
  <2> QED BY <1>1, <2>1, CreateKeeps, GetOwnedEntryKeeps, DeleteKeeps, FirstPageKeeps, NextPageKeeps
     DEF Dictionary!Next
<1>2. ListingInv => ListedOnce
  <2>1. 0 <= 1 /\ 1 <= 1
    OBVIOUS
  <2> QED BY <2>1 DEF ListingInv, ListingShape, UpToCursor, ListedOnce, Dictionary!ListedOnce
<1> QED BY <1>1, <1>2, ListingStarts, PTL DEF Dictionary!Spec
=============================================================================
