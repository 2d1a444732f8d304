# LinguaAI in TLA+

Specifications of the parts of LinguaAI whose correctness depends on the order
in which things happen: statements of overlapping requests, transactions that
wait for each other, requests that stop half way, messages that come twice or
late. The modules are written from the code under `src/`; `PROJECT.json` names
for every definition the lines it stands for. TLC checks small instances,
TLAPS proves the safety properties that matter most for every size.

Contents: 1 the system · 2 what is modelled · 3 Sessions · 4 Governance ·
5 Learning · 6 Delivery and platform · 7 Services · 8 the runs · 9 fairness ·
10 the theorems · 11 where the code and its documents disagree · 12 what is
left out, and why · 13 plan · 14 running it

Paths below are relative to `src/`; `A/` is `apps/api/src/modules/`, `AI/` is
`services/ai-engine/src/`.

## 1. The system

LinguaAI is a TypeScript monorepo: a NestJS API (`apps/api`) on PostgreSQL
through Prisma, with Redis for the token denylist and rate limits; services for
AI conversation, notification and recommendation that consume domain events
from BullMQ queues; two Next.js front ends that share an auth client. Several
API replicas run at once. Only what is inside one SQL statement, or in one of
the few explicit transactions (READ COMMITTED), is atomic. Every request of a
tenant is wrapped statement by statement in a small transaction that sets the
row-level security context, so a method with three statements is three
transactions.

The components, with the state each keeps and what makes it hard:

| Component | State | Operations | Interacts with | Hard behaviour | Correct when |
|---|---|---|---|---|---|
| Sessions and tokens (`A/auth/auth.service.ts`, `A/users/users.service.ts`) | `User`, `Session`, `RefreshToken`, `PasswordResetToken`, `MfaChallengeToken` | login, MFA challenge, refresh, logout, revoke one/all, password reset, erasure | denylist, MFA, every guard | no transaction around rotation, reset or login; requests race over one token and stop between statements | one live refresh token per session; claims win once; revocation and erasure are final |
| Denylist, JWT validation, guards (`A/auth/jti-denylist.service.ts`, `strategies/`, `guards/`) | Redis keys with TTL, claims inside tokens | deny, validate | sessions, governance | fails open; whole-second `iat`; claims older than the row | a revoked token is refused until it would have expired |
| MFA (`A/auth/mfa/mfa.service.ts`) | `mfaSecret`, attempts | enrol, verify, lockout | sessions | failures counted before the attempt is recorded | at most five guesses per window |
| OAuth (`A/auth/oauth.service.ts`) | `OAuthState`, `OAuthAccount` | create/consume state, link, sign in | sessions, provider | replayed callback; concurrent first sign-ins | a state is used once; one account per identity |
| Role governance (`A/users/role-lifecycle.service.ts`, `approve_role_change`) | `User.role`, `RoleChangeRequest` | initiate, approve | MFA, audit | the request records a role that may change; two approvers; last administrator | two people for ADMIN; a request is applied once |
| Organizations (`A/organizations/organizations.service.ts`, `set_org_role`, trigger) | `Organization`, `OrganizationMembership`, `User.organizationId` | create, add members, remove, change role | erasure, tenant claims | counting under advisory locks; two tables say where a user belongs | an organisation keeps an administrator; both tables agree |
| Audit log | append-only rows | write, read | all of the above | none of its own | rows are never changed |
| Billing (`A/billing/billing.service.ts`) | `Subscription`, `Entitlement`, `Invoice` | webhooks | Stripe | events reordered, repeated, retried | the entitlement is that of a paid subscription |
| Course and versioning (`A/course/*`) | course tree, `ContentVersion` | edit, publish, restore | attempts | version numbers read, then inserted | numbers unique and dense; what is published has a version |
| Attempts and gamification (`exercise-attempts.service.ts`, `gamification.service.ts`) | attempts, XP, streak, missions, badges | submit, record activity | events, recommendation | read-modify-write by overlapping activities | rewards are paid once; streaks follow the calendar |
| Assessment (`A/assessment/*`) | attempts, responses, proficiency | start, answer, complete | gamification, recommendation | check-then-act on the attempt's status; adaptive selection | one result per attempt; bands are monotone |
| Conversation (`AI/orchestrator`, `AI/cost`, `AI/gateway`) | `AIAgentSession`, `AIMessage`, rolling summary and its caches, cost buckets | start, turn (also streamed), end, summarise | model providers | a model call between reads and writes; a cache per replica; check-then-spend | no message is lost from the context; spending is bounded |
| AI memory (`AI/memory`) | memories with `supersededByEntryId` | write, supersede, retrieve | conversation | two writes, the new one first | one current memory per chain |
| Events and notification (`packages/events`, `services/notification-service`) | queues, `NotificationLog` | publish, consume, retry | all producers | at-least-once; published after commit, not with it | a mail is sent at least once, logged truthfully |
| Recommendation (`services/recommendation-engine`) | plans, goals, weaknesses | consume events | events | duplicates and reordering against find-then-create | one plan per learner and language; goals count each activity once |
| Rate limiter (`apps/api/src/common/rate-limit`) | Redis counters | hit | guards | INCR and PEXPIRE are two commands | at most N per window; a window ends |
| Auth client (`packages/auth-client`) | access token in memory, cookie | call, refresh on 401 | sessions | concurrent 401s, several tabs | a legitimate client is not taken for a thief |
| Vocabulary, notification preferences | dictionary entries, one preference per channel | create, list by pages, delete; update | notification | a listing while rows come and go | a listing shows what stays exactly once |
| Message encryption (`packages/database/src/encryption`) | `EncryptionDataKey`, a cache per process | encrypt, decrypt | conversation | a cached key outlives its retirement | a retired key is not used for long |
| Reference data (`packages/database/scripts/seed.ts`) | rows the product starts with | run | catalogue, billing | repeated, interrupted, overlapping runs | each row is there once |
| Row-level security (`apps/api/src/database`, `packages/database/migrations`) | request context, session variables of pooled connections | every statement | database | what an earlier request left on a connection | a statement reaches only what its own caller may |
| Front ends, UI, validation, configuration, observability, analytics and speech skeletons | none that outlives a request on the server | | | | |

Every hazard found while reading, at its line, is in `PROJECT.json` under
`hazards`, with the properties that cover it or the reason none does yet.

## 2. What is modelled

| Module | What it is |
|---|---|
| `Sessions` | sign-in, rotation, revocation, password reset, erasure, at statement granularity |
| `SessionRight` | the abstract specification: the right to refresh a session is a single thing |
| `SessionsProofs` | the inductive invariant of `Sessions`, its theorems, and the proof that it implements `SessionRight` |
| `Governance`, `GovernanceProofs` | platform roles, organisations, members, erasure; its inductive invariant and theorems |
| `CourseContent` | authoring: rows of a course, publication, the versions edits leave |
| `Gamification` | `recordActivity`: streak, XP and level, missions, badges |
| `ExerciseAttempts` | `submitAttempt`, over `CourseContent` and `Gamification` |
| `Assessment` | the adaptive placement test: attempts, item selection, banding |
| `EventQueue`, `Delivery` | one consumer's queue of domain events; what the fan-out promises it |
| `Recommendations` | learning plans from completed assessments, over `EventQueue`, and the nightly goals |
| `Notifications` | the mail dispatcher and preferences, over `EventQueue` |
| `Conversation` | one agent session: turns, rolling summary and its caches, cost breaker |
| `Billing` | Stripe webhooks into subscription, invoice and entitlement |
| `AccessTokens` | what signed claims are good for while rows change and sessions are revoked |
| `MfaLockout`, `RateLimit` | counting failed codes; counting requests in Redis |
| `AuthClient` | the browser's refreshes against `SessionRight` |
| `OAuth` | states, callbacks, accounts created, found and linked |
| `TenantRls` | session variables on pooled connections, and the policies that read them |
| `Memories` | memories of a learner, their corrections and retrieval |
| `DataKeys` | the keys messages are encrypted with, cached per process |
| `Listings` | the personal dictionary and the audit log, read by pages |
| `Seed` | the reference data script |
| `Learning` | `ExerciseAttempts`, and an instance of `Assessment` that shares no state with it: `Placement` |
| `Services` | `Conversation`, and instances of the seven modules beside it that share no state with it: `Webhooks`, `Lockout`, `Limiter`, `Bearers`, `Browser`, `SignIn`, `Mailer` |
| `Platform` | `Recommendations`, and instances of five more: `Tenants`, `Learner`, `Cipher`, `Dictionary`, `Reference` |
| `LearningProofs`, `DeliveryProofs`, `ConversationProofs` | theorems about `ExerciseAttempts` and what it extends and about `Placement`, `Recommendations` and its queue, `Conversation` |
| `IdentityProofs` | theorems about `OAuth`, `AccessTokens`, `AuthClient`, by their instances in `Services` |
| `ServicesProofs` | theorems about `RateLimit`, `MfaLockout`, `Notifications`, `Billing`, by theirs |
| `PlatformProofs` | theorems about the five instances of `Platform` |
| `MCSessions`, `MCGovernance`, `MCLearning`, `MCPlatform`, `MCServices` | instances for TLC |
| `MCMembersRoles` | two instances of `Governance` in one run |

The modules share a form. A *request* (call, turn, webhook, worker, task) is a
slot of a function: a record whose `pc` names the next statement and whose
other fields are the local variables of the method it runs. Each action is one
SQL statement, Redis command or call of another service, with the code around
it up to the next: its guards are the conditions and the `WHERE` clause, its
early returns are the branches that end the request. A request may end after
any statement: a crash, a failed statement, a lost connection. Requests
interleave in every order.

Rows have a state before they are inserted, and where rows are removed one
after; ids are drawn once (`randomUUID`), so a bound on ids is a bound on how
many rows a behaviour inserts. Where the code opens a transaction, what it has
written and not committed is kept with its request, invisible to others; a
statement that would write a row so held waits, as it does in PostgreSQL, and
so does one that references a row another transaction has deleted. Most of the
code opens none, and that is what most of the modules are about.

Variables and fields no statement reads (`active`, `rewarded`, `overlapped`,
`disordered`, `origin` and the like) record history for the properties; the
modules say which they are.

## 3. Sessions

State: `user` (status, whether there is a password, how many times it was
changed, MFA enrolled), `session`, `token` (refresh tokens), `reset`,
`challenge`, `denylist`, and three pieces the code does not keep: `issued` (ids
drawn), `delivered` (tokens a client has received: only these can be
presented), and on a session row `version`, `via` and `late` (which password
and which challenge it was opened with, and whether an erasure of its owner was
running), which only properties read. The access token that goes out with a
refresh token has the same id, so `session[s].jti = t` says that `currentJti`
is the token delivered with refresh token `t`.

| Code | Actions |
|---|---|
| `login`: `validateCredentials`, `loginResponse`, `createMfaChallengeToken`, `issueSession` | `Login`, `CreateChallenge`, `OpenSession`, `MintFirst`, `Respond` |
| `completeMfaChallenge` | `RedeemChallenge`, `ClaimChallenge`, `VerifyCode`, `RereadUser`, then `OpenSession` ... |
| `refreshSession` | `PresentToken`, `Claim`, `ReadAccount`, `MintRotated`, `Touch`, `Respond`; a spent token goes to `RevokeSession` |
| `logout`, `UsersService.revokeSession`, `revokeSession` | `Logout`, `RevokeOwnSession`, `RevokeSession`, `Deny` |
| `requestPasswordReset`, `confirmPasswordReset`, `revokeAllSessions` | `RequestReset`, `IssueReset`, `PresentReset`, `ClaimReset`, `SetPassword`, `RevokeAllSessions`, `Deny` |
| `UsersService.requestDeletion` | `EraseRows` (the deletes), `CommitErasure` (the update and the commit) |
| `complete_mfa_enrollment` | `EnrollMfa` |

The status read of `requestDeletion` is taken together with its deletes; its
membership part is in `Governance`. `Logout` and `RevokeOwnSession` read the
owner in one step and revoke in a later one.

Properties: `OneLiveToken` (rotation leaves one live token and one request on
its way to store one, never both), `CurrentJtiInUse` (what a revocation will
denylist is the access token in use), `ErasedRotatesOnlyLate` (an erased
account has no rotated token, but for a session opened while the erasure ran),
`ChallengeOpensOneSession`, `ResetChangesPasswordOnce`, `OwnerRevokes`, and
`SingleRight`: under the mapping `RightOf` every behaviour is one of
`SessionRight`, where a right is `pending`, `usable` or `gone` and a right that
is gone never comes back. The mapping makes a session's right `usable` while a
live token exists and `pending` while a request holds it.

## 4. Governance

State: `user` (status, platform role, `organizationId`), `orgs`, `member`,
`change` (rows of `RoleChangeRequest`), `req`.

| Code | Actions |
|---|---|
| `AuthService.register` | `Register` |
| `initiateRoleChange` | `Initiate`, `ReadTarget`, `CreateChange`; away from ADMIN on to the approval, single-party |
| `approveRoleChange`, `approve_role_change` | `SubmitApproval`, `ReadApprover`, `ClaimChange`, `CountAdmins`, `SetRole` |
| `changeOrgMemberRole`, `set_org_role` | `ChangeOrgRole`, `FindMember`, `LockOrg`, `CheckDemotion`, `WriteOrgRole` |
| `removeMember`, the trigger `enforce_last_enterprise_admin` | `RemoveMember`, `FindMember`, `DeleteMember`, `CommitRemoval` |
| `createOrganization`, `addMembers`, `upsertMember` | `CreateOrganization`, `AddMembers`, `FindInvited`, `Attach`, `CommitJoin` |
| `requestDeletion` | `RequestDeletion`, `ReadAccount`, `FindOwnMember`, `DeleteMember`, `CommitErasure` |

Locks. `HoldsOrgLock` is `pg_advisory_xact_lock(44, org)`: `set_org_role` takes
it first, the trigger takes it while it holds the row it fires for. `AdminLock`
is the lock `(43, 0)`. `ChangeHeld`, `MemberHeld` and `UserHeld` are rows
written and not committed. The two orders in which row and advisory lock are
taken can deadlock; PostgreSQL then aborts one of the two, which is `Abort`.

A PL/pgSQL function that is `VOLATILE`, as these are, sees in each of its
statements what has committed until then. That is why counting after the lock
is enough, and the model takes each statement as a step for the same reason.

`Bootstrapped` are the administrators made by `bootstrap-admin.ts` before the
first request; it can be run for several addresses. An e-mail that was erased
is not invited again: its row would be a new one, of a new user.

The caller's claims are taken to agree with the database when the request
arrives, and may be out of date from the next step on. That tokens carry claims
older than their signature is the subject of `AccessTokens` (section 7).

Properties: `OrgsKeepAdministrator` (through every overlap of demotions,
removals, erasures and joins), `OrgClaimBacked` (the organisation a user row
names, from which tokens get their tenant, is one the user is a member of),
`RoleChangesApproved` (no role is written but for a request that was PENDING
and is APPROVED from then on; ADMIN only on the word of two people).

`OrgsKeepAdministrator` speaks of the membership row, as the trigger does. The
code does not keep more: a join that commits between `ReadAccount` and
`CommitErasure` leaves a membership with a DELETED user.

## 5. Learning

`ExerciseAttempts` extends `Gamification` and `CourseContent`: one request
answers an exercise while authors edit the course, and records its activity
before it returns. `Assessment` stands by itself;
`Learning` puts the two beside each other.

| Code | Actions |
|---|---|
| `createCourse` ... `updateExercise`, `deleteExercise` (`A/course/course-hierarchy.service.ts`, `lesson-content.service.ts`) | `StructureEdit`, `LeafEdit` with `Create`, `Update`, `Delete` |
| `snapshotIfPublished`, `createNextVersion` | `snapshotIfPublished`, `ReadNumber`, `InsertVersion` |
| `publishCourse`, `backfillVersionsForCourse` | `publishCourse`, `BackfillVersions` |
| `submitAttempt`, `maybeEmitLessonCompleted` | `submitAttempt`, `CreateAttempt`, `maybeEmitLessonCompleted` |
| `recordActivity`: `updateStreak`, `awardXp`, `applyMissionProgress`, `evaluateBadges` | `ReadStreak`, `CreateStreak`, `UpdateStreak`, `CountLesson`, `AwardXp`, `SetLevel`, `ReadMissions`, `ApplyMission`, `ReadBadges`, `AwardBadge` |
| `computeLevel`, `computeStreakUpdate`, `nextMissionProgress` | operators of the same names |
| `startAttempt`, `submitResponse`, `completeAttempt` of the assessment | `startAttempt`, `CreateAttempt`, `submitResponse`, `SaveResponse`, `completeAttempt`, `CommitCompletion`, `PublishCompleted`; a stop anywhere is `RequestStops` |
| `computeRunningState`, `hasStabilized`, `selectNext`, `computeSkillBanding`, `computeWritingBanding` | operators of the same names, targets in quarters and confidence in whole numbers |

A row of the course is its revision number and a version is a pair of a number
and a revision. An answer is correct or not; an activity counts once for its
type. The critique of a writing item is confident or not.

Properties. `VersionsComplete`: numbers of versions leave no gap and whatever a
publication found has one. `VersionsImmutable`: no version is rewritten or
removed, not by a second publication nor by a collision of numbers.
`SequentialEditsVersioned`: while authors take turns and none stops half way,
the newest version is the row (overlapping edits may leave another, section
11). `StreakEarned`: a streak is backed by activity on each of its days,
however stale the row it was computed from. `LevelNeverAhead`: a level written
late is behind the XP, never ahead. `CompletionNotLost`: whoever answered the
last exercise, the completion of the lesson is announced. `MissionRewarded`: a
mission brought to its target has paid. `StopsWhenStable`: the adaptive test
leaves a skill neither after two answers nor as late as the maximum, and stays
in the bands next to the one it starts in. `RetakeOnMixedAnswers`: a retake is
recommended exactly when at most three answers disagree. `CompletionSettles`: a
completed attempt has nothing left to serve, and completing it again answers
the same numbers.

## 6. Delivery and platform

**The queue.** `EventQueue` is one BullMQ queue as `packages/events` sets it
up: `publish`, and as actions of BullMQ `Take`, `Ack`, `Throws` (retry after a
backoff until the attempts are used up), `BackoffEnds`, `Dies`, and `Stalls`,
which hands on the job of a worker that died or is only too slow. A slow worker
runs on: a job may be handled by two workers at once. `Delivery` is what a
consumer may rely on: an event is handled at least once before it is settled as
done, may be handled more than once and out of order, and is settled or given
up in the end. `DeliverySpec` (checked) says that the queue implements it, under
the mapping that calls waiting, active and delayed jobs pending.

| Code | Actions |
|---|---|
| `handleAssessmentAttemptCompleted` (`learning-plan.service.ts`) | `ReadPlan`, `WritePlan` |
| `runBatch`, its retry by the queue (`daily-goal-batch-runner.service.ts`, `daily-goal.module.ts`) | `StartNight`, `PlanFails`, `EndNight`, `NightRestarts` |
| `generateForPlan`, `recordWeakSkillsOnPlan` (`daily-goal.service.ts`) | `computeGoal`, `UpsertGoal`, `ReadMilestones`, `recordWeakSkillsOnPlan`, `PublishReady` |
| `dispatch`, `sendAndLog` (`notification-dispatcher.service.ts`), `isOptedIn`, `updatePreference` | `dispatch`, `isOptedIn`, `send`, `writeSentLog`, `SendOrLogFails`, `LogAndRethrow`, `updatePreference` |
| `buildSetSessionVarsSql`, `$allOperations`, `TenantContextInterceptor.intercept` | `SetSessionVars`, `Query`, `PassThrough`, `intercept`; the policies by their names in the migrations; `Commands` for the grants |
| `writeMemory`, `supersedeMemory`, `retrieveRelevantMemories` | `writeMemory`, `supersedeMemory`, `CreateEntry`, `SetEmbedding`, `PointForward`, `retrieveRelevantMemories` |
| `encryptAiMessageContent`, `getOrCreateActiveDataKey`, `getDataKeyById` | `encryptAiMessageContent`, `FindActiveKey`, `UseFound`, `CreateKey`, `decryptAiMessageContent` |
| `PersonalDictionaryService.create`, `list`, `delete`; `AuditService.list` | `create`, `FirstPage`, `NextPage`, `getOwnedEntry`, `delete` |
| `main` of `seed.ts`: upserts, and searches followed by inserts | `main`, `upsert`, `findFirst`, `create` |

Properties. `SerialDeliveryKeepsNewest`: where deliveries neither overlap nor
fail, a language has one plan, from its newest attempt. `CompletionIsPlanned`
(liveness): every completed attempt that was published leads to a plan or to a
job given up. `DoneMeansMailed`: a job done has its mail out and logged, unless
the preference held it back, and mails are repeated only by retries.
`StatementsAsTheirCaller`: whatever earlier transactions left on a connection,
a statement of a request with a tenant context does not fail on a cast and
reaches only rows its own caller may reach, by a statement of who may do what
that is not the policies'. It is about rows and callers: which columns and
commands a request should not have at all is another matter (the run
`memberships`, section 11). `FactsKeepAVersion`: a fact that surfaced once can
always surface again, and in one version unless corrections overlapped or
stopped before their last statement. `RetiredKeyOnlyRenewed`: a key retired for
longer than the time to live is used only after the process cached it again.
`ListedOnce`: a listing shows no entry twice and none too few of those that
stayed, unless the row its cursor named was deleted. `SeededOnce`: a run that
ends has each row where it belongs, and twice only where runs overlapped over
rows without a unique key, or under a parent that was replaced.

## 7. Services

| Code | Module and actions |
|---|---|
| `startSession`, `sendMessage`, `streamMessage`, `endSession` (`AI/orchestrator/orchestrator.service.ts`) | `Conversation`: `startSession`, `prepareGeneration`, `CreateUserMessage`, `buildContext`, `summarize`, `SaveSummary`, `generate`, `finalizeAssistantReply`, `endSession`; `TurnFails`, `ReplicaRestarts` |
| `CircuitBreakerService`, `CostService.recordUsage` | `resolveState`, `CheckBeforeReply`, `recordUsage`, `NextMinute` |
| `handleWebhookEvent`, `syncSubscription`, `syncEntitlement`, `syncInvoice` (`A/billing/billing.service.ts`) | `Billing`: the same, with `FindSubscription`, `PublishChange`, `Answer`; Stripe is `StripeEvent`, failures `WebhookFails` |
| `signAccessToken`, `JwtStrategy.validate`, `isTokenStale`, `JtiDenylistService` | `AccessTokens`: `ReadUser`, `signAccessToken`, `Present`, `isTokenStale`, `isDenylisted`, `add`; `ChangeClaims`, `Tick` |
| `enforceLockout`, `recordAttempt` (`A/auth/mfa/mfa.service.ts`) | `MfaLockout`: `enforceLockout`, `recordFailure`, `recordSuccess` |
| `RateLimiter.consume`, its guard | `RateLimit`: `consume`, `SetExpiry`, `Stops` |
| `createAuthClient` (`packages/auth-client/src/client.ts`) | `AuthClient`: `authed`, `SendRefresh`, `PairArrives`, `GivesUp`, `LoadPage`; the server is an instance of `SessionRight` |
| `OAuthService`: `createState`, `consumeState`, `handleProviderProfile`, `linkProviderToUser` | `OAuth`: `createState`, `Callback`, `consumeState`, `FindAccount`, `CheckEmail`, `CreateUser`, `issueSession`, `linkProviderToUser`, `Erase` |

`AuthClient` composes with `Sessions` through the abstract specification: the
server of the model is `SessionRight` for one session, which `Sessions` is
proved to implement (section 10). `Sessions` knows a revoked token only as an
element of `denylist`; `AccessTokens` adds the clock, the life of an entry and
Redis errors. `MfaLockout` is the part of `VerifyCode` that `Sessions` leaves
open.

Properties. `ContextComplete`: what the model is sent, summary and recent
messages, covers every message the turn read, whatever replica served the
turns before, however old its cache and wherever one stopped, as long as no two
messages share a creation time. `SummaryMatchesBoundary`: a summary, stored or
cached, is of exactly the messages up to its boundary. `OvershootBounded`:
spending exceeds a limit by less than a call for each turn in flight.
`InOrderDeliveryConverges`: events handled one at a time and in order leave
rows, entitlement and announcement as Stripe last said, whatever failed and was
retried. `RevokedRefused`: a token whose revocation is on the denylist is
refused as long as it lives, unless Redis fails. `OldClaimsAreLate`: claims
older than the row are served only with a token signed in or after the second in
which their change, or one committed since, began. A change is seen when it
commits, and gives `tokensValidAfter` a stamp of the moment it began (`now()` of
its transaction, or `new Date()` before the UPDATE), with locks waited for in
between: `ChangeClaims(began)` takes any earlier tick for the stamp, so that
changes may commit against the order of their stamps. One clock serves the
application and the database. Changes are those that set `tokensValidAfter`; a
join does not. `GuessesBounded`: failed codes in a window exceed the
limit by fewer than the requests in flight. `FewerThanTwice`: fewer than twice
the limit pass in any stretch as long as the window.
`OneRefreshAtATimeKeepsSession`: while refreshes do not overlap and nothing is
lost, the client never loses its session. `IdentityProved`: an external
identity belongs to an account only because the account was made for it or
because its own user asked, and a state is good for one outcome.

## 8. The runs

| Run | Instance | Shows |
|---|---|---|
| `rotation` | 1 user, 1 session, 3 tokens, 3 requests | `TypeOK`, `OneLiveToken`, `CurrentJtiInUse`, `ErasedRotatesOnlyLate`, `SingleRight`; 139 thousand states |
| `tokens_used_twice` | 2 requests; 1 administrator, 2 sessions, 2 tokens, 1 challenge, or 2 users, 1 session, 2 tokens, 1 reset token | `ChallengeOpensOneSession`, `ResetChangesPasswordOnce`, `OwnerRevokes`; 860 thousand |
| `members_roles` | 2 requests; 2 users, 1 administrator, 2 organisations, 3 memberships, or 3 users, 2 administrators, 2 change requests | `OrgsKeepAdministrator`, `OrgClaimBacked`, `RoleChangesApproved`; 2.8 million |
| `learning` | one learner, scenarios below | the properties of section 5; 1.1 million |
| `delivery` | one queue, and five parts of the platform, scenarios below | the properties of section 6 but `DoneMeansMailed`; 203 thousand, with liveness |
| `services` | scenarios below | the properties of section 7 and `DoneMeansMailed`; 1.8 million |
| `cascade`, `reset`, `erasure`, `last_admin`, `stamps`, `memberships` | the smallest instance that shows it, for the last two that of `services` and `delivery` | a statement of the documents that the code does not keep, see 11 |

`learning`, `delivery` and `services` check parts that share no state. Their
modules for TLC extend `Learning`, `Platform` and `Services`, take a few
parts a second time with other bounds (`TwoMinutes`, `ThreeEvents` and the like),
and have a variable `scenario` chosen at the start: a behaviour is one instance
at work while the variables of the others stay as they are. The states of a
scenario are those the instance would have in a run of its own. The theorems of
section 10 are about the very instances of these three that TLC
explores, with their constants arbitrary instead of those of the `.cfg`.

Two more runs hold two instances each. In `tokens_used_twice` the action
constraint `StaysApart` lets administrators act, or the other accounts, not both.
In `members_roles` the variable `aside` names the administrator who takes no part
while members are studied and nobody asks for a role change; it is `NULL` where
roles are studied, without organisations.

*learning.* `answers`: the course is as it is, two requests answer two
exercises three times across a midnight. `failing`: one of them may stop
anywhere. `authoring`: two authors make three edits, creations, deletions or
publications while an answer comes in. `stopping`: a placement test of seven
items in three skills by two requests, one of which may stop; five items of one
skill around the starting band are what the stop rule needs to be reached from
above, from below and by using up the items. `late`: an answer is stored behind
a completion.

*delivery.* `deliveries`: two attempts in one language, two workers, two
faults (an exception, a death, a slow worker), one stall allowed, three
attempts: enough for a job to be retried after a fault, handled twice at once,
and given up. `nights`: attempts in two languages, two nightly runs, one of
them restarted. `faulty night`: a plan fails in the nightly run, or the
consumer does. `tenants`: two requests share one connection; their callers are
every combination of user, organisation and role, one user is in no
organisation, and an ended transaction leaves its settings or empty ones.
`memories`: a fact in up to four versions, two requests that write, correct and
stop. `keys`: two keys, two encryptions, a time to live of one tick in two.
`listing`: pages of one row over four, at two times of creation, so that ties,
late commits and deletions on either side of the cursor occur. `seed`: a course
with a unique key, a level in it, a lesson in that and a badge; two runs that
overlap, stop and repeat, and one row that gets another title.

*services.* `conversation`: two turns over two replicas, five messages, two of
which may share a time, one failure; summaries fold two messages and keep one,
so that two summaries overlap. `minutes`: the same across a minute. `billing`:
two subscriptions, two webhooks at once for two events, one failure, one
delivery repeated. `serial billing`: three events one at a time. `lockout`:
three failures in three ticks lock for three (the code: five in ten
minutes lock for fifteen). `limiter`: four calls in two ticks, one caller that stops
between the two commands. `bearers`: one token, two changes of claims, seconds
of two ticks, one Redis error. `browser`: two calls and a page load over four
pairs of tokens, two expiries, one lost answer. `sign-in`: two identities, one
with the address of an account registered by password, two states, three
accounts, erasures. `mailer`: a welcome, a reset and another event, two workers,
two faults, a preference that changes.

Why the bounds are enough to be worth something. Every race named in the
hazards is between two requests; three are given to rotation because reuse
detection makes a third party of the loser of a claim, and three tokens let one
session rotate twice while an old token is presented again. Two sessions on one
challenge are what the property forbids. Two users are needed to revoke
somebody else's session. Two organisations let a user be claimed by both; three
memberships let one be deleted and a new one take its place. Two
administrators and a third person allow promotion, demotion and approval by a
bystander, the author and the target. Limits, thresholds and times to live are
scaled down so that each is reached, passed by overlapping requests, and left
again within the bound on the clock. Users, rows and requests are
interchangeable where symmetry is declared. The properties that have a theorem
hold at every size; the others are shown at these sizes only.

Each property of a passing run has a mutant in `PROJECT.json`: a definition of
the model with a plausible mistake (a claim that forgets `usedAt IS NULL`, a
count that counts the row itself, a null column left out of the session
variables) on which the run finds the property violated.

Every run has `CHECK_DEADLOCK FALSE` because a behaviour really ends when all
ids are used, all events sent and all requests done.

## 9. Fairness

Only `delivery` states fairness, and only what the machinery promises by
itself:

- a worker that is free takes a waiting job, a handler that runs goes on to its
  end (`ReadPlan`, `WritePlan`) and its result is recorded (`Take`, `Ack`):
  workers are processes that loop as long as the service is up;
- a delayed job is promoted when its backoff is over (`BackoffEnds`);
- the stalled check of BullMQ finds the job of a worker that died (`Stalls`
  when `Abandoned`).

Weak fairness is enough: each stays enabled until it happens. Nothing is
promised of what people or the calendar do (attempts completing, nightly runs
starting), nor of the number of faults, which is bounded and small: a
behaviour in which every attempt of a job fails ends with the job given up, as
`CompletionIsPlanned` and `Delivery` say. The other modules promise no progress:
a request may always fail, and its caller may or may not try again.

## 10. The theorems

Every theorem is about a `Spec` with arbitrary constants: any number of users,
rows, requests, messages, days and ticks. What is assumed of the constants is
named where they are declared, and TLC evaluates it in the runs:

| Assumption | Says | Because |
|---|---|---|
| `ConstantsAssumption`, `GovernanceAssumption` | `NULL` is no id, ids of different tables differ, administrators are users | primary keys are UUIDs |
| `ContentAssumption`, `AttemptsAssumption` | the course is a row, leaves are rows below it, exercises are leaves | foreign keys of the course tree |
| `GamificationAssumption` | thresholds, targets and XP per level are positive; every mission has one of the three metrics | the seeded rows and the enum |
| `QueueAssumption`, `RecommendationsAssumption` | at least one attempt; ids are not the null values; attempts are numbered in the order they completed | BullMQ; UUIDs; the numbering is the model's |
| `PlacementAssumption` (`AssessmentBounds`) | skills are a finite sequence; each item has one of them, a band and a difficulty in quarters | `SKILL_ORDER`, `BAND_ORDER`; the column is a float without a limit |
| `ConversationAssumption` | prices and limits are positive, the economy model costs no more, a summary keeps at most as many messages as trigger it; finitely many turns | the constants of `AI/`; a process has finitely many requests |
| `TokensBounds` | an entry of the denylist lives at least as long as a token | both are 15 minutes; `jti-denylist.service.ts:12` asks that it stay so |
| `LimitBounds` | limit and window are positive | `auth-rate-limits.ts` |
| `LockoutBounds` | the lockout is longer than the window it counts in; finitely many requests | 15 and 10 minutes, `mfa.service.ts:16` |
| `ServicesBounds` | the three above for the instances of `Services`; the null event is none; finitely many workers | a queue has a configured concurrency |
| `RlsBounds` | the placeholder organisation, `NULL` and the empty string are no ids and not each other; a user's organisation is one or `NULL`; the placeholder role is no administrator | the constants of `tenant-rls.extension.ts`, UUIDs |
| `MemoriesBounds`, `DataKeysBounds`, `ListingsBounds` | null values are no ids; the time to live and the page size are positive | `ai-message-cipher.ts`, the defaults of the query schemas |
| `SeedBounds` | the script has each name once, after its parent | the order of `main` in `seed.ts` |
| `PlatformBounds` | the five of its instances | |

A module that is only instantiated states its bounds as a definition;
`PlacementAssumption`, `ServicesBounds` and `PlatformBounds` assume them of the
instances, and the runs evaluate them. Of the bounds of an exploration (how many times something fails,
how long it goes on) only that they are numbers is assumed where anything is, so
that nothing rests on their being small.

**Sessions.** `IInv` in `SessionsProofs` is

- `TypeOK`; `Refer`: what rows and requests refer to has been inserted, and a
  request holds the row its next statement writes; `FreshIds`: an id not drawn
  is nowhere;
- `OneLiveToken`, inductive with those two: a token becomes live only by the
  request that holds its session's right, which then gives it up;
- `TokenHasSession`: no token outlives its session row; `JtiFollows`: between
  `MintRotated` and `Touch` the jti is about to follow the token, and no other
  request can rotate in between, which gives `CurrentJtiInUse`;
- `ActForOwners`: a request acts for the owner of the session it rotates or
  revokes; past its check a rotation has an active owner, or a session that is
  gone or was opened late; an erasure under way is about to delete every
  session of its account that was not opened late. This and the foreign keys
  give `ErasedRotatesOnlyLate`;
- `ChallengeSpent`: a request past the claim of a challenge, and a session
  opened with it, are the only one, and the challenge is used;
- `ResetsHeld`, `DeletedWithAccount`, `PasswordBacked`: a request past the claim
  of a reset token is alone in it, tokens are deleted with their account only,
  and an active account's password was changed at most as often as it has used
  tokens whose request is through. Counting only those is what makes it
  inductive: between `ClaimReset` and `SetPassword` a token is used and has
  changed nothing yet.

From it: `TypeCorrect`, `RotationKeepsOneToken`, `RevocationNamesCurrentToken`,
`ErasureStopsRotation`, `ChallengeIsSingleUse`, `ResetsChangePasswordOnce`,
`RevocationIsOwners`, and `SessionsImplementSessionRight` (the property
`SingleRight`): each step of `Sessions` opens, mints, exchanges or loses rights
of `SessionRight`, or changes none.

**Governance.** `IInv` in `GovernanceProofs` is

- `TypeOK`; `Equipped`: a request holds what its step will use; `Recorded`: a
  change request keeps its columns;
- `Claimed`, `ClaimedOnce`: past the claim a change is PENDING, held by one
  request, and its approver is not its author unless it is not about ADMIN;
- `Found`: the membership a request found belongs to the organisation it
  names, and is there while it is held; `LocksExclude`: the organisation's lock
  and a row being deleted have one holder;
- `DeletionLeavesAnother`: while the row of an administrator is deleted and not
  committed, another administrator of that organisation stays. This is what the
  count of the trigger must still mean at the commit, and it is stable because
  whoever could take the other one away needs the same lock;
- `JoinBrings`: a join that has done its work has somebody to bring, and a new
  organisation gets administrators;
- `OrgsKeepAdministrator`.

From it: `TypeCorrect`, `AdministratorsStay`, `RolesApproved`. `ClaimsBacked`
(the property `OrgClaimBacked`) adds that a request that takes a membership away
found it with the very user whose row it will clear (`Theirs`); the two tables
then change together at `CommitJoin`, `CommitRemoval` and `CommitErasure`.

**Learning.** `IInv` in `LearningProofs` has three parts, proved one after the
other.

- `ContentInv`: version numbers are `1..h` (`Dense`); only rows of a published
  course have versions, and whatever a publication found has one; an edit that is
  about to insert holds a number that is taken or the next (`Drafted`), so that a
  collision inserts nothing and no gap appears. `InTurn` is conditional on what
  `SequentialEditsVersioned` presupposes: then one author is at work, what it
  read is what there is, and every leaf but its own has its row as newest
  version. From it `VersionsAreComplete`, `VersionsStay`,
  `EditsInTurnAreVersioned`.
- `LearnerInv`: what `StreakEarned` says of the stored row is said of every row
  on its way to be stored too (`StreaksEarned`): days of activity are only added,
  so a stale row written late is as well backed as when it was read. The level of
  the row, and one held by a request, is that of a total the XP has reached
  (`LevelsBehind`). While nothing failed, a mission done has paid or a request is
  at `AwardXp` for it (`RewardsUnderWay`). From it `StreaksAreEarned`,
  `LevelsAreNeverAhead`, `RewardsArePaid`.
- `CompletionInv`: when every exercise of the lesson was attempted, the
  completion was announced or a request with a first attempt has not looked yet
  (`CompletionComing`). From it `CompletionsAreAnnounced`.

**Placement test.** `TestInv` in `LearningProofs`: a completed attempt, one that
answered a result and one about to be committed have nothing left to serve
(`ResultStands`, `HoldsResult`), which stays true whatever is stored behind them
(`OverStays`: a skill that is done stays done); while no answer came late, a
skill has at most four answers, a fourth after three alike only (`ServedOnly`),
and the result a request holds, and each it answered, is that of the rows. Under
it lie lemmas about the selector for any items, bands and difficulties: where up
to four answers lead (`FourAnswers`), that the stop rule is `Enough` — a third
answer that differs, or a fourth (`EnoughAnswers`) —, that an item is served
whenever one is left in a skill that is not done (`ServedWhenOpen`), and what one
more row adds to the answers of each skill (`AnswersGrow`, over the recursive
function `InSkill` by a least counterexample). From it `SkillsEndInTime`,
`RetakesAreForMixedAnswers`, with the count of right answers behind the
confidence (`RightAnswers`, `LowWhenMixed`), and `CompletionsSettle`.

**Delivery.** `IInv` in `DeliveryProofs`:

- `QueueInv`: a job is in the queue once while it waits and only then; a worker
  has a published event in hand, and has handled it when it is about to
  acknowledge. `Implements` follows: every behaviour of the queue is one of
  `Delivery`, its initial states and every step. It is the safety half of
  `DeliverySpec`; the liveness half stays with TLC.
- `RowsInv`: plans stay, the nightly job holds plans there are, attempts are
  published in the order of their completion.
- `Serially`, while no delivery overlapped and nothing failed: jobs are taken in
  order (`InOrder`), between a worker's read and its write no other reads and
  what it read is what there is (`OneAtATime`), and a plan is from the newest
  attempt handled (`Newest`). `SerialDelivery` follows.

**Conversation.** `IInv` in `ConversationProofs` is `TypeOK`, `Fit` (a turn holds
what its place in the code says), `Exactly` and `Funded`. `Exactly` says, while
no two messages share a time, that stamps number the messages, that every
summary there is (the row, each replica's cache, each turn in flight) is of
exactly the messages up to its boundary, and that the context of a turn goes on
from the boundary it holds to the last message it read. An overlapping turn may
put an older summary back: it is exact too. `Funded` adds to what is spent what
the calls let through may still cost; that sum is what the check of the breaker
bounds. From them `TypeCorrect`, `ContextsComplete`, `SummariesMatch`,
`OvershootIsBounded`. That the messages after a boundary are the last ones needs
a least element, which `WFMin` of the library gives.

**OAuth.** `SignInInv` in `IdentityProofs`: one callback at most is past the claim of a
state (`ClaimedOnce`), it holds the tag the state has, and the state led to
nothing before it and to one thing after (`Equipped`, `OpenedOnce`); each
identity's account was created for it or comes from a used state with that
account as its tag (`Proved`). The creation of an account takes a row that was
not there, hence none registered by password (`RegisteredStay`). From it
`IdentityIsProved`.

**Access tokens.** `BearerInv` in `IdentityProofs`: an entry for a token ends a
lifetime after its signing or later (`EntriesOutlive`); a request past the
staleness check, whose token misses a change, holds one signed in or after the
second of the stamp of that change or of a later one (`SignedLate`: of the last
when it asked, which may be older than the others), and one served without an
error, with a token that was denied before, finds that token's lifetime over
(`Knows`). Stamps are in no order, and the invariant asks for none. Ticks and
seconds differ: `SecondsLater` is the fact about division by `PerSecond` that
carries the argument from one to the other. From it `RevokedAreRefused` and `OldClaimsComeLate`.

**Auth client.** `BrowserInv` in `IdentityProofs` says, while refreshes take
turns and nothing was lost, where the session's right is (`InTurns`): one request
at most is out; at `claim` it carries the live token, which is the one in the
jar; between claim and mint the right is pending, so that no other token is good;
after the mint it carries the new live token, which the jar does not have yet;
and when none is out, jar and server agree. No call ever reaches `refused`. The
server is the very `SessionRight` that `Sessions` is proved to implement, so
`RefreshesInTurn` is the client's half of rotation.

**Limits.** `RateLimit` and `MfaLockout` record times in order, and their
properties follow from one lemma (`FewInAStretch`): if times w places apart are
more than a span apart, no stretch of that span has more than w of them. What
keeps the distance is, in each, a sentence about the calls to come: for the rate
limiter, calls older than the last `Limit` before the counter's own are a window
ago (`Spread`), because the counter's expiry is a window or more after the first
call it counted (`Expires`); for the lockout, a failure that would be one too many
together with those still in flight is out of the window already (`Spaced`),
because the check that let the last of them in saw it so, or waited out a lockout
longer than the window. From them `PassesAreBounded` and `GuessesAreBounded`.

**Mails.** `MailerInv` in `ServicesProofs`. `Queued`: what is queued waits, and
once. `Settles`: a job done, or a worker about to say so, has its mail logged as
sent or its event held back by the preference. `Counts` is what bounds the
mails, and is about the work still ahead: the mails of an event, plus the
workers with it in hand that have yet to send, are at most the number of times
its job was taken; what is logged as sent, plus the workers about to log, at
most the mails. A slow worker whose job was handed on counts as one of the former
until it has sent, and each taking is paid for by a failed try, a stall, or the
one try there is. From it `DoneIsMailed`.

**Billing.** `BillingInv` in `ServicesProofs`. `InTurn`: begun in order and one at
a time, only the newest event is in hand, in one hand. `Follows`, while every
older event was answered, says of *every* event begun how much of it is already
there (`Told`): the row, once the newest handling of it for its subscription
passed the upsert; the entitlement, the announcement, the invoice, each from the
step that writes it. Events answered before, the event under way and one that
failed half way and will be sent again are the same case, which is what makes a
handler's failure after any statement keep the invariant. `Handling` says that a
subscription past its upsert has a row, `PaidAfterOpen` that no invoice is told
twice, so that the newest event of an invoice is the one the row must have. From
it `WebhooksConverge`.

**Tenants.** `TenantInv` in `PlatformProofs`: a connection is a request's own only
once its variables are set (`OwnSettings`), and then they are all four those of
its context, whatever the transaction before left there: `buildSetSessionVarsSql`
sets each, a `NULL` as its placeholder. With that, each policy of the
migrations, under grants that refuse nothing, is compared with the entitlement of the caller for every table,
command and row. From it `EachAsItsCaller`.

**Memories.** `MemoryInv` in `PlatformProofs`. That a fact keeps a current version
needs that chains of successors end, while corrections overlap and stop: there is
a rank of the entries, in some order of creation, such that each embedded version
has a current one that is not older, and a correction under way replaces an entry
by a younger one (`Youngest`). The rank exists and is no variable of the model: a
step that creates an entry is given a new one. While nothing forked, an entry
without a successor has one correction at most and a new fact one request
(`Unforked`), which gives `OneVersion`. From them `FactsStay`.

**Data keys.** `CipherInv` in `PlatformProofs`: what is cached is stored, and a key
that was cached before its end has a time of caching no later than its end
(`CachedInTime`); a cache entry fresh at its use is then as near to the key's end
as the time to live. From it `RetiredKeysRunOut`.

**Reference data.** `SeedInv` in `PlatformProofs`: what a run has found or created
so far is stored under the parent the script gives it (`LedBack`); rows of one
name and parent are one (`EachOnce`), because a run about to insert without a
unique key is about to insert what is still missing (`StillMissing`), which holds
as long as it is the only one (`OneRun`); titles given by authors hide a row from
the next search, and the hidden row keeps its name no more. From it
`SeededOnceOnly`.

**Listings.** `ListingInv` in `PlatformProofs`: the pages so far lie at or before
the cursor, and what was there all the time and is not listed lies behind it
(`UpToCursor`). The lemmas below it are about the order: a row's position is the
number of rows before it, positions are different and grow with the order, a page
is a stretch of them, and when fewer rows come than were asked for none is left
(`InOrder`, `PositionGrows`, `PageOf`, `LastOf`). Both orders of creation times,
any ties and any page size are covered. From it `EachListedOnce`.

**Only model-checked.** Liveness (`CompletionIsPlanned`, the fair half of
`DeliverySpec`) and ENABLED are outside what the provers here can do. Recursive
operators are too, and no module declares one; induction over data is possible
only in the form of a least counterexample, as in `ConversationProofs`,
`LearningProofs`, `ServicesProofs` and `PlatformProofs`. Every safety property
a run checks has its theorem.

## 11. Where the code and its documents disagree

Six runs end in a violation, each of a sentence of the repository:

- `cascade` (`RevocationCascades`) — "Revoking a Session cascades ... to revoke every RefreshToken
  under it" (`identity.prisma`). A rotation that claimed its token before the
  revocation stores the next one after it, live, under the revoked session, and
  `refreshSession` never looks at the session's `revokedAt`.
- `reset` (`ResetClosesOldSessions`) — a password reset "revokes all existing sessions on success". A
  login that verified the old password and has not yet stored its session opens
  it afterwards.
- `erasure` (`ErasedHasNoPassword`) — `DELETED` is "the terminal state this anonymization moves the row
  to". A reset that claimed its token before the erasure stores a password on
  the erased row.
- `last_admin` (`LastAdminStays`) — "Demoting the last remaining ADMIN in the system is blocked
  outright" (`docs/epics/E2-identity-access-platform.md:559`). The count in
  `approve_role_change` includes erased accounts, whose rows keep the role. It
  needs no concurrency: the run has a single request at a time.
- `stamps` (`EarlierTokensRejected`) — "a still-cryptographically-valid token
  issued before the change is rejected on the holder's very next request"
  (`docs/API_GUIDELINES.md:88`). The stamp is the start of the transaction; a
  token signed from the old row while it waits for its locks is newer than that,
  and is served with the old claims after the commit. When a change that began
  earlier commits later, the stamp even goes back, and tokens refused before are
  good again. What does hold is `OldClaimsAreLate`.
- `memberships` (`OrgRolesByFunctionOnly`) — "orgRole changes go through
  set_org_role() only" (`20260730120321_add_privileged_column_allowlist`). The
  later `20260806210659` grants every command on all tables to `app_role` again,
  and `membership_update` admits an organisation's administrator. The same grant
  gives back every column of `User` and UPDATE on `RoleChangeRequest`, which has
  no policy. Audit rows stay unchangeable, for want of a policy for UPDATE or
  DELETE. No code of the repository issues such an UPDATE: the run is about what
  the schema lets through.

Seen while modelling, without a run of their own. The properties above are
stated so as to be true beside them; most are steps the models take.

*Identity.* A request's `fromRole` may be out of date, so that a user promoted
to ADMIN in the meantime is demoted by one person and without a count (`:553`
asks for two); a request never expires, although `expiresAt` is stored (`:257`,
`:553`, `:990` say 72 hours); two organisations that add one user at the same
time leave two memberships (the comment at
`A/organizations/organizations.service.ts:352` says one organisation at most);
a join during an erasure leaves a membership with a DELETED user. `bootstrap-admin.ts`
counts administrators, erased ones too, outside its transaction. Joining an
organisation leaves `tokensValidAfter` as it is, where `API_GUIDELINES.md:88`
says a change of membership bumps it. An OAuth sign-in on an
existing account looks at SUSPENDED only, and a linking whose callback comes
after the erasure attaches the identity to a DELETED user. Two calls that get a
401 at once refresh with the same cookie, and the server takes the second for a
thief (`packages/auth-client/src/client.ts:112`). The rate limiter says "one or
two extra requests" (`rate-limiter.ts:12`) where nearly twice the limit pass
across two windows; a stop between its two commands leaves a counter that never
expires.

*Learning.* `lesson.completed` can be published twice by two overlapping first
attempts (the comment at `A/course/exercise-attempts.service.ts:165` says
once). An exercise created in a live course has no version until it is edited
or the course published again, and attempts on it pin none. Overlapping edits
can leave the newest version other than the row. The adaptive selector settles
every skill within four answers, so that `MAX_ITEMS_PER_SKILL` is never
reached. Overlapping completions of an assessment write its history twice; a
publication that fails after the commit loses the event.

*Delivery.* Overlapping deliveries leave two plans for one language, or one
that goes back to an older attempt. Nothing in the repository sets
`DailyGoal.completed`, so goals are only ever adjusted downwards.

*Conversation.* Messages with the same creation time can fall out of the
context. `endSession` clears the cache of the replica that serves it only. A
reply is stored without another look at the session's status. Embedding calls
and the assessment and drafting services do not ask the breaker, which is said
to be "checked before each AI request" (`circuit-breaker.service.ts:17`).

*Billing.* The cancellation of an older subscription takes the entitlement of a
newer one. An invoice that arrives before its subscription's row is
acknowledged and dropped.

*Platform.* Every message that is read renews a cached data key, so that a
process goes on encrypting with a retired key for as long as old messages are
read (`ai-message-cipher.ts` bounds this "to this window" of fifteen minutes);
two first uses create two active keys. Overlapping corrections of a memory
leave two current versions ("only the current version of a fact should ever
surface", `memory-manager.service.ts:93`). A page whose cursor row was deleted
is empty and ends the listing. Catalogue listings skip and take over an order
by title alone, so that rows of equal titles may be repeated or missed.
Subscriptions may be written by whoever may read them: `subscription_read` names
no command and is a policy for all of them, the mistake that
`20260730111547_fix_rls_read_policy_scope` corrected in three others, where
`20260806210659` says that "INSERT/UPDATE/DELETE are all denied to app_role". The
seed finds soft-deleted rows and takes them for present; missions are found by
type, metric and reward where the comment says by title.

## 12. What is left out, and why

- Expiry of tokens and challenges in `Sessions`: it only turns a request away
  before its first write, which in the model is the request not being made.
- `PENDING_VERIFICATION` (accounts are registered ACTIVE), `SUSPENDED` (no code
  sets it).
- Audit rows and most events: written with or after the change, read by nothing
  here. `EventQueue` is one queue; the fan-out to several shares no state.
- `ENTERPRISE_ADMIN` as a platform role is one more value that the code of
  `Governance` treats as it treats `TEACHER`.
- Tables without a policy (`RoleChangeRequest`, the learner's own), on which a
  statement of `app_role` is limited by its WHERE alone.
- Scoring, wording, prices, embeddings, ranking: what they compute is a choice
  among the outcomes the control flow tells apart.
- Validation schemas, configuration, logging, health checks, pipelines: no state
  of their own. Front ends and UI library: rendering and forms; their session
  handling is `AuthClient`. The analytics and speech services are skeletons.
- `MAX_ITEMS_PER_SKILL`, provider failover, streaming back-pressure, the
  listings of the catalogue: no protocol across statements, or unreachable.

The definitions stand for about an eighth of the repository's implementation
lines. What is left is mostly of the kinds just named; modelling it would say
nothing that could be wrong.

## 13. What could come next

The plan of modules, runs and proofs is carried out: each safety property of
section 8 is a theorem of section 10. What would extend it:

1. Liveness beyond TLC's instances, when a prover for ENABLED is at hand:
   `CompletionIsPlanned`, and the fair half of `DeliverySpec`.
2. Refinement in more places: `Recommendations` and `Notifications` promise one
   effect per event where nothing overlaps, which `Delivery` could state once.
3. The catalogue listings and the streaming of replies, should they come to
   hold state across statements (section 12).

Proofs follow the form of section 10: references, locks and claims first, the
property last, one lemma per part, one step per action.

## 14. Running it

    tlc -workers 2 -config SessionsRotation.cfg MCSessions
    tlc -workers 2 -config GovernanceMembersRoles.cfg MCMembersRoles
    tlc -workers 2 -config Learning.cfg MCLearning
    tlc -workers 2 -config Platform.cfg MCPlatform
    tlc -workers 2 -config Services.cfg MCServices
    tlapm SessionsProofs.tla
    tlapm GovernanceProofs.tla
    tlapm LearningProofs.tla
    tlapm DeliveryProofs.tla
    tlapm ConversationProofs.tla
    tlapm IdentityProofs.tla
    tlapm ServicesProofs.tla
    tlapm PlatformProofs.tla

`Learning`, `Platform` and `Services` take two to three minutes with two
workers, the other runs about a minute or less. Each of the proofs takes several
minutes, except `IdentityProofs` and `ConversationProofs`, which take less.
