# Verification of EventFlow Plus

TLA+ models of EventFlow Plus (NestJS, Prisma/Postgres, Redis, BullMQ, a Vue
console): the event pipeline, the rule engine, the administration of rules and
sources, signing in, and the console's pages. They are model-checked with TLC, and
every safety property of theirs is proved with TLAPS.
Paths are relative to the repository; `src/src/` is the backend, `src/frontend/` the
console.

Contents: [the system](#the-system) · [modules](#modules-and-the-code) ·
[how the code is modelled](#how-the-code-is-modelled) ·
[runs](#the-runs) · [fairness](#fairness) · [proofs](#what-is-proved) ·
[disagreements](#where-the-code-and-its-documentation-disagree) ·
[not modelled](#what-is-not-modelled) · [plan](#plan)

## The system

One Node process serves the HTTP API and hosts the BullMQ workers
(`docker-compose.yml` restarts it unless stopped). Its state lives in Postgres
(rows), in Redis (queues, idempotency keys) and in memory (handlers in progress,
one per outstanding promise chain). An event travels like this:

```
 client --POST /events--> EventsService.submitEvent
                            |  idempotency key (Redis), Event row (Postgres)
                            v
                 queue 'event-processing'
                            v
          EventConsumer -> EventProcessingService.processEvent
                            |  matching rules, one ActionExecution row per action
                            v
                 queue 'action-execution'
                            v
          ActionExecutionWorker.process -> WebhooksService.callWebhook
                            |  WebhookDelivery row, rule counters
                            v  (last attempt failed)
          'failed' listener -> FailedExecution row, queue 'dead-letter'
```

### Inventory

| Component | Code | State | Operations that change state | What makes it correct |
|---|---|---|---|---|
| Event submission | `events/events.service.ts` | `Event` rows, jobs of `event-processing` | submitEvent, reprocessEvent | an accepted event has a job; a repeated correlationId creates no second event |
| Idempotency | `events/services/idempotency.service.ts` | Redis keys with a TTL | checkIdempotency, storeIdempotencyKey, removeIdempotencyKey | a key names an existing event; Redis never decides alone |
| Event consumer and fan-out | `events/consumers/event.consumer.ts`, `events/services/event-processing.service.ts` | event status, `ActionExecution` rows, jobs of `action-execution`, executionCount | process, processEvent, queueRuleActions | every matching rule gets all its actions; retries create a bounded number of duplicates; no row without a job unless a failure explains it |
| Action worker | `workers/action-execution.worker.ts` | execution status, successCount, failureCount, `FailedExecution`, jobs of `dead-letter` | process, onActionJobFailed | bounded attempts, one outcome per attempt, dead letter exactly for exhausted actions |
| Webhooks | `webhooks/webhooks.service.ts` | `WebhookDelivery` rows | callWebhook, handleWebhookError, storeDelivery | success means that the target answered; every request leaves a row |
| Executions API | `executions/executions.service.ts` | execution status | retryExecution | a reset execution is processed again |
| Queue configuration | `app.module.ts`, `queue/queue.service.ts` | none of its own | attempts, backoff | see the workers |
| Rule engine | `rules/services/rule-engine.service.ts` | none | validateConditionStructure, evaluateConditions, getEvaluationDetails, generateConditionDescription | a rule fires exactly as its conditions read; a preview with a payload foretells the event; a text that can be read in one way tells what the rule does |
| Rule management | `rules/rules.service.ts` | `AutomationRule`, `AuditLog` | create, update, delete (soft), activate | a switch or deletion by its own request is audited (a PATCH is not); a rule goes on or off only by a call that asks for it |
| Sources and keys | `sources/sources.service.ts` | `AppSource` | create, update, delete, activate, regenerate key | a rule fires beyond the source it was last given only after that source's deletion; a replaced key opens nothing; a stored key is known to somebody |
| Authentication | `auth/`, `frontend/src/stores/auth.ts`, `api/axios.ts`, `router/` | `RefreshToken`, `User`; `localStorage` and the store of a tab | login, refreshTokens, logout, setup; the bearer and API-key checks | one successor per refresh token; a signed-out tab leaves the application |
| Console pages | `frontend/src/views/`, `stores/dashboard.ts`, the list and report queries of `events`, `executions`, `admin` | the mounted view, the dashboard store, requests in flight | load, filter, page, retry, refresh | what a page shows becomes true again; a report's numbers fit together |
| Retry worker | `workers/retry.worker.ts` | execution status | process | nothing adds a job to its queue: dead code |
| Metrics, health | `common/metrics/`, `health/` | counters in memory | queries | nothing else reads them |
| Redis, Prisma wrappers | `common/redis/`, `common/database/` | connections | I/O | their failures are the failing statements below |

How they interact: submission and fan-out share `Event.status`, which both write
without reading it first; administration and fan-out share the rules, which the
fan-out reads while they are edited, switched and, with their source, set free;
the API-key check reads the sources before an event is stored; fan-out and the action worker share the execution row
and its job, which are created in two steps; worker, listener and executions API
all write `ActionExecution.status`; everything else goes through a queue, which
delivers at least once.

What is hard: every `await` is a point where another handler may run, so checks
go stale (idempotency check, dead-letter check); row and job are never written
together, so a crash or a failing statement separates them; BullMQ re-runs a job
that failed, that stalled, or whose lock expired under a run that still
executes; the 'failed' listener is not part of the job, so nothing repeats it. A rule or a
source and its audit row, an old refresh token and the new one, the counts of a
report are separate statements too. In the browser, pages act on what they loaded
some time ago, answers arrive in any order and are never cancelled, and tabs share
one `localStorage`.
`PROJECT.json` lists each of these hazards with its line and the properties that
watch it.

## Modules and the code

| Module | Models | State and its counterpart |
|---|---|---|
| `EventIngestion` | submitEvent, IdempotencyService | `pc`: where each request is; `rows`, `status`: `Event`; `cache`: Redis keys; `found`: the local `existing`; `queued`: jobs `process-event-<id>`; `seen`: history |
| `EventProcessing` | steps 5-6 of submitEvent, reprocessEvent, setRuleActive, EventConsumer, EventProcessingService, the `event-processing` queue | `status`, `matched`: `Event`; `active`: `isActive`; `executions`: rows, named by job, attempt, rule and action; `queued`: their jobs; `counted`: the increments of executionCount; `calls`: API calls in progress; `job`: BullMQ job hashes; `runs`: process() in progress |
| `ActionExecution` | the last two steps of queueRuleActions, ActionExecutionWorker, WebhooksService, retryExecution, the `action-execution` queue | `exec`: row; `adding`: `await actionQueue.add`; `job`, `runs` as above; `handlers`: onActionJobFailed in progress; `failed`, `dlq`: `FailedExecution`, dead-letter jobs; `calls`, `answered`: what the target saw; `deliveries`: `WebhookDelivery`; `counted`: increments of successCount and failureCount |
| `RuleEngine` | RuleEngineService, and createRule, testRule, validateConditions and the evaluation of findMatchingRules as far as they ask it | `rule`, `text`: `conditions` and `conditionText` of a rule; `answer`: the last answer |
| `Administration` | RulesService, SourcesService, validateApiKey, findMatchingRules; RulesView with its modals, SourcesView | `rules`, `sources`, `audits`: rows; `call`: the handler running for each administrator; `list`, `form`, `dialog`, `timers`: the pages' state; `post`: a `POST /events`, with what it has read so far; `intended`, `changes`, `seen`, `lost`, `live`: histories |
| `Sessions` | AuthService, JwtAuthGuard, JwtStrategy, LocalStrategy; auth store, axios interceptors, router guard, LoginView, Sidebar | `users`, `rows`, `expires`: rows; `call`: the handler of each client or tab; `held`: a client's token; `tab`: page (with or without a timer) and `isAuthenticated` of the store; `saved`: `localStorage.tokens`; `poll`: a view's request; `now`: seconds; `logins`, `doubled`, `revokers`, `unlucky`: histories |
| `Console` | DashboardView with its store, EventsView, ExecutionsView; listEvents, getEventStats, listExecutions, getStats, getDashboardStats | `rows`: the two tables; `view`: the mounted view; `store`: the dashboard store; `flight`: the set of requests on their way, each in a slot of its own, with the queries still to run and the results so far |
| `BoundedRetry` | abstract: what the action queue promises of an action | `phase`, `tries`, `recorded` |
| `MC*` | instances for TLC | |
| `*Proofs` | theorems about the module named | |

`ActionExecution` implements `BoundedRetry`: an action is accepted once, tried at
most `Limit` times, gets one final verdict after at least one try, and a failure
is recorded only after `Enough` tries. The refinement mapping takes `phase` from
the job's state and `tries` from `attemptsMade`; `Limit` is
`MaxAttempts + MaxStalled`, because a recovered stall starts the job again without
counting as a failure. The jobs of `EventProcessing` implement it as well, with
nothing ever recorded: that queue has no listener for its failures.

The three components meet at rows and jobs: a request of `EventIngestion` that
reaches "enqueue" is a `CreateEvent` of `EventProcessing`, and an element of its
`queued` is an action of `ActionExecution` after `EnqueueAction`. Each pair is
modelled with the half it needs. `RuleEngine` decides what `EventProcessing`'s
constant `Matching` stands for, and `Administration` what is in force when it is read;
`Administration` leaves the conditions out (a rule has a definition `def`).

### Actions

Each module has one action per statement that an `await` separates from the
next, named for the function or for what the statement does; `PROJECT.json` maps
every definition to its lines. The value that a handler holds in local variables
across an `await` is in the record of its run, its call or its `pc`.

* `EventIngestion`: Submit, LookUp (redis.get), Load (findUnique of the cached
  id), Find (findFirst), Populate (setting the key after a hit), CreateEvent,
  StoreKey, Enqueue, UpdateStatus, Evict, Crash.
* `EventProcessing`: CreateEvent, AddEventJob, UpdateStatus; ReprocessEvent,
  ResetStatus; ToggleRule; Start, Evaluate, Mark, CreateExecution, EnqueueAction,
  CountRule, MarkError, Resolve, Reject; Promote, RecoverStalled, LoseLock, Crash.
* `RuleEngine`: a request or an event is one step, for nothing in it awaits:
  CreateRule, UpdateRule, ValidateConditions (the preview), TestRule, FindMatchingRules.
* `Administration`: LoadRules, ToggleRule, DeleteRule, EditRule, CloseForm,
  SubmitForm, SubmitRule, PatchRule (a PATCH that the form does not send); StoreRule,
  UpdateRule, SetRuleActive, WriteAudit, AnswerRules; OpenDialog, CloseModal,
  SubmitSource and the source handlers; Send, ReadSources, ValidateApiKey, StoreEvent,
  FindMatchingRules (Refuse sends a request away); Fail.
* `Sessions`: Login, Refresh, Logout, Setup and the statements behind them (FindUser,
  FindToken, RevokeToken, SignTokens, StoreToken, CreateUser, Answer, Fail);
  AnswerLogin, Navigate, Ask (a view's request; Poll is the Ask of a timer), AnswerPoll,
  LosePoll, ClickLogout, Leave, Reload; SwitchUser
  (by hand in the database: no endpoint does it), Tick.
* `Console`: Insert and Finish (the pipeline); Query, Answer, Refuse and Lose for a
  request in flight; Refresh, Visit, NextPage, PrevPage, HandleFilter, Retry.
* `ActionExecution`: CreateExecution, EnqueueAction; Start, Begin, CallAnswered,
  CallUnanswered, ActPlaceholder, StoreDelivery, Succeed, CountSuccess, Fail,
  CountFailure, Resolve, Reject; OnActionJobFailed (the event BullMQ emits, part
  of the step that fails the job), FindExecution, FindFailed, CreateFailed,
  MarkPermanentlyFailed, EnqueueDeadLetter; RetryExecution; Promote,
  RecoverStalled, LoseLock, Crash.

## How the code is modelled

* **Failing statements.** A statement of Postgres, Redis or BullMQ may be
  *refused* (not applied) or *unacked* (applied, its reply lost). Both reject the
  promise, so both lead where the code's `catch` leads. In `EventIngestion` they
  are unbounded; elsewhere `Budget` bounds them.
* **Crashes** drop what is in memory and keep rows and jobs. A rejection nobody
  awaits (the listener's, for `@OnWorkerEvent` handlers are not awaited) ends the
  process: a failing statement of the listener is a crash.
* **BullMQ** (4.18) is external: one record per job (`state`, `attemptsMade`, stalled
  count, lock). A fetched job has a new lock token; completing or failing it needs
  the token; a job whose lock is gone is stalled and is put back, or failed after
  `maxStalledCount` (the default, 1). A run that lost its lock keeps executing.
  `attemptsMade` is increased when the job is fetched. Settled jobs are removed from
  Redis some time later; the model keeps them, as the verdict they got.
* **Abstracted data.** Payloads, headers, bodies, durations and log lines are left
  out. A correlation (source and correlationId) is one value; `Key`, the Redis
  key of a correlation, is any function, because `buildKey` deletes characters and
  is not injective. The conditions of rules are the constant `Matching`, the
  rules that would match each event. Rules are evaluated in any order, which
  covers every priority order. A rule has at least one action because
  `validateActions` demands it; the fan-out works on the rules as findMatchingRules
  read them, so editing a rule changes later runs only and is left out here; rules
  are only soft-deleted, so a rule's row is always there. `receivedAt` is the clock
  of the process, so the "newest" matching row may be any of them.
* **JavaScript values.** `RuleEngine` has undefined, null, numbers, texts, lists and
  objects. String(), Number(), localeCompare, includes and RegExp are constants; the
  instance gives them the results JavaScript has for the values it uses. Numbers are
  integers, and Number() of a text is a set that is empty for NaN. `Element` is what
  `v[part]` finds where `part` is no member of an object: an item of a list, a character
  of a text, a length, what a prototype has.
* **Descriptions** are sequences of words and leaves. The text of a leaf is a template, so
  it may be read as something else: a field named `a == 1 AND b`, or a list in the place of
  a name. `LeafText` is what a leaf's text reads as, and a condition is `Legible` when each
  of its leaves reads as itself and it has no empty group.
* **PATCH /rules/:id** writes the properties that were sent; `Keep` stands for one that
  was not. The edit form sends all but the status and the source, and anyone with the API
  may send those. The history `intended` is the source a rule was last given.
* **Recursion.** The recursive functions of RuleEngineService are recursive functions
  over the conditions (`Valid`) and over those that validation accepts (`Accepted`:
  everything else); the walk along the parts of a field and the joining of texts
  recurse over indices. `Depth` is a constant because nothing in the code needs it: it
  says that a condition, which came as JSON, is a finite tree. The messages of a
  group are a set, for details are lists that nothing but the console's order tells apart.
* **Tokens and keys.** A signed token is a function of the user and the second in
  which it is signed (the payload has `iat` and nothing random), so two of one user
  in one second are the same text. API keys are numbers in the order in which they
  are generated, and a source is named by its first key, so neither is used twice;
  bcrypt and JWT are ideal.
* **Handlers of `Sessions`** are records with the same fields, whatever the call: a
  field that the call does not use is None.
* **Requests of the console.** `flight` is a set; a request's slot tells it from an
  equal one and names it for fairness. `inserts` bounds the rows added to the tables, which
  start empty or with one row each. A request runs its queries in any order, one step
  each, and its answer may arrive after any other; a list and its total are one
  step, which only hides a total that differs by what was inserted between the two.
  A request whose view was unmounted is dropped unless the shared store or a row
  still feels it.
* **Time** appears as enabledness: a delayed job may be promoted at any time, a
  lock may expire, a key may be evicted (its TTL, memory pressure or a restart of
  Redis). Two reprocess calls within one millisecond produce the same jobId and
  the second addition is ignored; the model allows this for a job still waiting.
* **Steps merged.** Statements that touch nothing another step reads in between are one
  step: the dashboard's statistics and its health figures (`fetchHealth` writes only what a
  card shows), the guard's read of the user and the answer, and the comparisons of one key
  with the hashes that one query read.
* **Histories.** `seen`, `calls`, `answered` and `counted` record what happened so that
  properties can speak of it. `counted` holds attempts instead of a number: its
  cardinality is the code's counter.
* **Numbers.** No counter of the code comes near a width limit: attempts are
  bounded by theorem, row counters are Postgres integers that grow by one.

## The runs

`CHECK_DEADLOCK FALSE` in the configurations of the pipeline and of `sessions`: all
work may be done and no request, fault or operator may follow. In the others an
administrator, an event or a timer can always follow, and deadlock is checked.

| Run | Instance | Checks |
|---|---|---|
| `action_faults` | one webhook action, 2 attempts, 2 slots; one refused and one unacked statement, one crash, one expired lock, one manual retry, in every order | TypeOK, CallsBounded, DeadLetterExhausted, SoleRecorder, FinalFailureRecorded, SuccessWasAnswered, AuditTrail, OneOutcomePerAttempt, KeepsPromise |
| `action_liveness` | a webhook and a placeholder action, one slot, one restart of a stalled job allowed; any two of: a crash, two expired locks, an unacked statement; fair | EnqueuedTerminates, EveryActionSettles |
| `action_manual_retry` | one manual retry; fair | *violated*: PendingIsProcessed |
| `ingestion_requests` | 4 requests: 2 of one correlation, 1 of another with the same Redis key, 1 without; any faults | TypeOK, NoLateDuplicate, CacheSound, DuplicateNamesEvent, AnsweredIsQueued |
| `ingestion_race` | 2 requests of one correlation | *violated*: OneEventPerCorrelation |
| `processing_faults` | 1 event, rules of 2 and 1 actions, 2 attempts, 2 slots; one refused and one unacked statement, one crash, one expired lock, in every order | TypeOK, FanoutComplete, DuplicatesBounded, OrphansExplained, ErrorIsUnfinished |
| `processing_reprocess` | 1 event, 1 rule of 2 actions, the first job and a reprocess job, 2 slots; one refused statement, one crash, the rule switched off or on; fair | EveryMatchIsQueued |
| `processing_status` | no fault; fair | *violated*: EvaluationEnds |
| `rule_engine` | every operator on fields that are there, nested, within a list or a text, and missing, with 4 values; groups of up to two over four leaves, negations, groups of groups, empty groups, malformed conditions; 4 lists of actions, 3 of them refused; 5 payloads; two leaves whose texts read as others | RuleFiresByItsClauses, OneBadLeafSilencesTheRule, DetailsExplainTheResult, PreviewForetellsTheEvent, SameTextSameMeaning |
| `administration` | 2 administrators (one with the sources page, both with the rules page and PATCH), 1 rule, a source and room for another, 3 keys, 2 calls, 1 post, one failed statement or lost answer | RevokedKeyRefused, FiresInScope, ChangesAudited, StoredKeyIsKnown, ToggleDoesWhatItSaid |
| `sessions` | 1 user, 2 API clients, 2 tabs with one `localStorage`, perhaps a session of earlier, 2 more calls, 3 seconds with lifetimes of 1, one failed statement or lost answer; fair | TokensConserved, HeldTokenIsValid, RefreshWasEntitled, SignedOutTabLeaves |
| `console` | 2 pages opened one after the other, 2 requests in flight, tables empty or with a row each and one row inserted, page size 1, 2 clicks, one lost request; fair | LoadingMeansWaiting, ReportsNearlyAdd, ChartFollowsStats, ConsoleSettles |

Why the bounds are enough to be interesting:

* *Two attempts* give a first, a retried and, with one stall, a third start; every
  rule about the "last" attempt is exercised on both sides.
* *Two slots* let a run without a lock go on beside the newer run of its job,
  which is where stale writes come from. *One slot* with two expired locks, or one and a
  crash, lets that run hold the only slot, and lets a job stall once more than BullMQ
  tolerates: it may block the worker, but not for ever.
* *One of each fault* in one run combines them pairwise and more; a second fault
  of a kind repeats the interleavings around another statement.
  `action_faults` and `processing_faults` are the two large runs.
* *Two rules, one with two actions*, make the loop over rules and the loop over
  actions both take more than one turn.
* *An earlier session* of some client lets two calls be two overlapping refreshes, or a
  refresh and a logout; *two tabs* let one sign in or out under the other.
* *Two calls* of two administrators, or of an administrator and of the edit form of
  the other, are the smallest overlap; three keys let two regenerations of one
  source cross each other. A post may be sent at any moment with any key so far.
* *Every operator with every pair of kinds* that its code tells apart, alone in a rule;
  depth three only matters where a group holds a group, and there over few leaves (the
  theorems hold for every depth). With each condition the instance has its parts, as the
  theorems assume.
* *Lifetimes of one second in three seconds* make each token pass every comparison
  on both sides, and let two tokens be signed in one second and in different ones.
* *Two pages and two requests in flight* let an answer overtake another and outlive its
  view; a page size of one gives a second page with two rows;
  a database that starts empty gives reports without a row.
* *Two correlations with one key* are the smallest case in which the cache answers
  for the wrong correlation; a request without a correlationId shares nothing.

Every property of a passing run has a mutant of the code's model (the operators
commented "Mutant:") that violates it: an error swallowed, a loop one short, a
token shared, a listener that does not look at attemptsMade.

Properties worth a second look:

* `NoLateDuplicate` is what idempotency does guarantee, whatever Redis does: a
  request that *begins* after its correlation has a row creates none. The stronger
  reading is violated (`ingestion_race`).
* `OrphansExplained` counts rows without a job: each needs a failing statement or
  one of at most `Concurrency` runs that a crash cut off.
* `AuditTrail` counts requests without a delivery row the same way, because
  storeDelivery swallows its own failure.
* `ErrorIsUnfinished` holds only while no lock expires; a run that lost its lock
  does write ERROR over a completed job's verdict.
* `EveryActionSettles` leaves out crashes, expired locks and manual retries, each
  of which really can leave the row and the job in disagreement.
* `AnsweredIsQueued` is what an answer to `POST /events` is worth: "accepted" has its
  job; "duplicate" has it too, unless the request that created the event is still at
  work or failed, for nothing makes up for a job that was not added.
* `OneBadLeafSilencesTheRule`: map evaluates every condition of a group before every or some
  looks at the results, so `any` does not protect a rule from a pattern that does not compile.
* `PreviewForetellsTheEvent` speaks of a preview with a payload; without one, a pattern
  that does not compile passes. `SameTextSameMeaning` speaks of `Legible` conditions: of
  the others two may read alike and mean different things.
* `FiresInScope`, `ChangesAudited` and `ToggleDoesWhatItSaid` count a PATCH that sends
  `sourceId` or `isActive` as asked for, and it leaves no audit row: only a rule that
  nobody gave away fires elsewhere, once its source is deleted.
* `RevokedKeyRefused` speaks of a moment *within* the request: the sources are read
  once, and the key may be replaced before the event is stored.
* `StoredKeyIsKnown` follows a key from its hash to a screen: it may be lost with an
  answer, or wiped by closeModal from a dialog that was closed before it came.
* `TokensConserved` counts refreshes that came second as the excuse for an additional
  token; `HeldTokenIsValid` needs an excuse for every token a client is left without.
* `SignedOutTabLeaves` is about views with a timer. The rules and the sources ask once, on
  mounting, and analytics never: a tab may stay there without a token for as long as nobody
  touches it.
* `ChartFollowsStats` has the doughnut show a success on an empty database, where the card
  shows 0: generateChartData divides by `total || 1`.
* `ConsoleSettles` is about a page that polls and never cancels: whatever an old
  answer overwrote, the timer repairs.

## Fairness

In `ActionExecution` and `EventProcessing`, `FairSpec` assumes weak fairness of: every
handler's next step (a settled promise
is continued by Node's event loop; a statement is eventually answered or fails,
the HTTP client has a timeout), the fetching of waiting jobs, the promotion of
delayed jobs and the recovery of stalled jobs (timers of the BullMQ worker, which
runs as long as the process does). It is stated per event or per execution and
per job. In `ActionExecution`, row creation needs no fairness, for the
liveness properties start from an added job.

In `Sessions` it is the timer of the dashboard, the events or the executions while mounted
(Poll: the other views have none, and nothing makes them ask), the answer to a request that is not
lost (AnswerPoll) and the page load the interceptor asked for (Leave); in `Console` the
timer (Refresh) and, for each slot, the next query or the answer of the request in it (Serve):
the API answers every request that reaches it. Handlers of
`/auth` need none: the one liveness property there is about polls.

Nothing is assumed of clients, users, operators, the clock, faults or evictions: they
may never happen. `EventIngestion`, `RuleEngine` and `Administration` have
safety properties only.

## What is proved

For all values of the constants that satisfy the named assumptions
(`ConstantsAssumption`, `IngestionAssumption`, `ProcessingAssumption`,
`RuleEngineAssumption`, `AdministrationAssumption`, `SessionsAssumption`,
`ConsoleAssumption`): any number of events, rules, conditions, payloads, requests, slots, attempts, administrators, keys, users, clients, tabs and
table rows, and any budget of faults. The assumptions give the constants their types and
keep apart values that stand for different things (a client is not a tab, None is
neither a user, a token nor a number); the bounds (MaxTime, MaxInserts, MaxFlight, ...) may be any
numbers, and a MaxFlight of at least 2 is what the refresh of a list page needs.
`RuleEngineAssumption` says that conditions are finite trees and fields sequences of names,
that any part of a condition can be sent alone, that the text of a leaf reads as words
and leaves, and that String(undefined) is "undefined" and Number(undefined) NaN. Nothing
else is assumed of String, Number, localeCompare, includes, RegExp, of `v[part]` and of
what a leaf reads as.

| Module | Theorems |
|---|---|
| `ActionExecutionProofs` | TypeCorrect, Inductive, CallsAreBounded, DeadLetterIsExhausted, RecorderIsSole, FinalFailureIsRecorded, HolderIsNewest, TerminalStays, PromiseIsKept |
| `ActionRecordProofs` | RecordIsInductive, SuccessIsAnswered, OneOutcome, TrailIsComplete |
| `EventIngestionProofs` | IngestionInductive, IngestionTypeCorrect, LateRequestsCreateNothing, KeysAreSound, DuplicatesNameEvents, AnsweredAreQueued |
| `EventProcessingProofs` | ProcessingInductive, ProcessingTypes, FanoutIsComplete, DuplicatesAreBounded, VerdictInductive, ErrorIsNotFinal, OrphansAreExplained, PromiseIsKept |
| `RuleEngineProofs` | AnswersAreOfTheRule, RulesFireByTheirClauses, ABadLeafSilencesTheRule, DetailsExplainEveryResult, PreviewsForetell, TextsTellTheMeaning |
| `AdministrationProofs` | Inductive, TypeCorrect, AccessIsCurrent, ScopeIsKept, KeyIsKnown, AuditIsKept, StatusAsAsked |
| `SessionsProofs` | SessionsInductive, SessionsTyped, TokensAreConserved, HeldTokensAreValid, RefreshesAreEntitled |
| `ConsoleProofs` | ConsoleInductive, ConsoleTyped, LoadingEnds, ReportsAgree, ChartIsOfTheCards |

The arguments:

* **ActionExecution.** `IInv` adds to the properties: a job is startable only
  while its starts stay below `MaxAttempts` plus the stalls used (`JobInv`), the
  lock is 0 or the newest start, runs have distinct start numbers (`RunInv`),
  a listener exists only for a job failed at `MaxAttempts` or later
  (`HandlerInv`). None of the properties is inductive alone: that one listener
  exists needs that a failed job is never failed again, which needs that only a
  lock holder settles it, which needs that lock tokens are unique. The refinement
  proof maps every step to Accept, Try, Decide, Record or a stutter of
  `BoundedRetry`.
* **What an action's rows say** (`RecordInv`, on top of `IInv`). A run that is past its
  call of a webhook has an answer (`AnswerInv`), which is why a SUCCESS has one. An
  attempt is counted by its own run only, and by both counters only when an increment was
  applied and its reply lost: `OutcomeInv` bounds the attempts that have both counts *or are
  about to*, because the second count comes steps after the lost reply that excuses it.
  `AuditTrail` compares cardinalities: one step adds at most one attempt to the
  requests without a row, and only by spending a refused insert.
* **EventIngestion.** `IngestionInv` says what each program point of submitEvent may
  rely on (`ProgressInv`) and that a request which began late has a matching row
  that is not its own (`LateInv`); rows are never removed, so the database query
  finds it.
* **EventProcessing.** `IInv` has the job part above, the distinctness of runs,
  and the loop invariant `LoopInv`: what of a run's rules is counted, what of the
  current rule is queued, and that the rows of an attempt lie before its current
  action. Rows name the attempt that made them, so the steps of one run do not
  disturb the loop invariant of another.
  `VerdictInv` adds that while no lock has expired each run holds its job's lock, so a job
  has one run (`LockInv`); that an event in ERROR has a job that is unsettled, which for an
  active job means that its run has not got past a verdict (`ErrorInv`: without the
  condition on the run, the job could complete and leave the ERROR behind); and that at
  most `Concurrency` runs exist, so that one crash orphans at most as many rows
  (`OrphanInv`; a refused or unacked addition orphans one).
  For the refinement of `BoundedRetry`, `JobInv` has that an active job was started once
  at least: a job that stalls too often fails without its run, and the promise is that no
  verdict comes before a try. A second addition under a name that is taken, which a
  reprocess call within the same millisecond makes, maps to a stutter.
* **RuleEngine.** The state is simple (`IInv`: what is stored passed validation and has its
  generated text or the user's own; the last answer is the evaluator's about it). What
  takes work is to compare the evaluator with definitions that do not evaluate. The
  library's induction and recursion theorems take operators as parameters, so
  `RuleEngineProofs` begins with its own, over sets and functions: a set that has
  every element whose parts it has has them all (`Induction`, from the least depth
  of a counterexample), and a step from the values of the parts to a value of the whole
  has a function (`Recursion`, from the least relation closed under the step). With
  them each recursive function of the model is shown to obey its recursion, and then, by
  induction over conditions: the evaluator throws exactly when a leaf does and
  reaches every leaf (`EvaluationReachesLeaves`); its result is that of the
  disjunctive normal form, for the condition and its negation at once, because `not`
  turns the sign (`NormalForm`); and a text can be read back in one way only. For the last
  (`UniqueReading`) the induction must speak of texts with something behind them: if
  two texts, each followed by anything, are equal, the conditions mean the same and
  what follows is equal. Two groups are read member by member (`GroupsReadAlike`): before
  each member but the first stands AND or OR, and neither is a closing parenthesis, so the
  groups end together. A group of one member reads the same for `all` and `any`, and
  means the same; an empty one reads the same and does not, hence the exception. The
  induction runs over the legible conditions (`Solid`), whose parts are legible too.
  `PreviewsForetell` needs `EvaluationReachesLeaves` and `NormalForm` for the condition of
  the preview instead of the rule's.
* **Administration.** `Inv` adds that rows of rules stay and are made once (`RowsInv`:
  without it an update might meet no row, and a creation revive a switched-off one);
  that a source about to be stored is new (`FreshInv`: otherwise a rule set free by a
  deletion might come back into a scope); that a key which is live now has been seen
  live by every request that carries it, also when it was read but not yet compared
  (`AccessInv`); that a rule's scope is the one it was last given, or it is every source
  and the one it was given is gone (`ScopeInv`: updateRule changes both sides together,
  a deletion only the row);
  that what an open dialog holds has been seen and that a dialog is empty while its
  key is being made (`DialogInv`); and that audit rows and pending handlers together
  never exceed the changes (`AuditInv`: its upper half alone does not say why an
  audit row has a change).

* **Sessions.** `KnownInv` says what a handler knows at each statement (its user
  exists, its token was stored). For `HeldTokenIsValid` the invariant must speak of the token
  in an answer that has not arrived, and of a client whose own refresh has revoked its
  token and is still under way (`HeldInv`). `TokensConserved` is inductive once the sets it
  counts are known to be finite: revoking takes a token from one set and puts its
  caller into the other, and a revocation that finds the token revoked already pays with
  `doubled`. A logout or deactivation never takes back that a refresh was entitled,
  so `EntitledInv` is stated of the moment of the check. The session there may be at the
  start counts as one login.
* **Console.** `IInv` knows of each request what its finished queries found (`GotOK`): a
  count lies between the rows there were when the request was sent and those there are
  now, and so does the sum of the groups, since the statuses of one table split its rows
  (lemma `GroupsAdd`); the tables only grow. Two such numbers differ by at most what was
  inserted in between, which is `ReportsNearlyAdd`. `SentOK` says whose a request is: only
  requests to the store or of Retry outlive their view, and those of earlier visits have a
  smaller `by`, which is why an old refresh of the dashboard can change the cards but
  not the chart. `ChartInv` says that the chart is `ChartOf` the store's statistics while
  no request of the own visit is under way; that those are numbers (`Counted`) turns it
  into what `ChartFollowsStats` says of the cards.

Model-checked only: the liveness properties (`EnqueuedTerminates`,
`EveryActionSettles`, `EveryMatchIsQueued`, `SignedOutTabLeaves`, `ConsoleSettles`), for
liveness under fairness and ENABLED are outside the prover. That the constants of an
instance are what JavaScript computes is the instance's business: `MCRuleEngine` defines
them for its values, and the only RECURSIVE operator of the project, `MCDepth`.
`HolderIsNewest` and `TerminalStays` state `LockHolderIsNewest` and
`TerminalJobStays`, which no run checks on their own; nor does one check `KeepsPromise` of
`EventProcessing`, while `action_faults` checks that of `ActionExecution`.

## Where the code and its documentation disagree

Three runs are expected to find a violation; each `finding` in `PROJECT.json` quotes
the line that the code contradicts.

1. `action_manual_retry`: `POST /executions/:id/retry` says "queued for retry" and only
   resets the row; no job is added.
2. `ingestion_race`: check and insert are separate and nothing in the schema makes
   a correlation unique.
3. `processing_status`: the last step of submitEvent overwrites the worker's verdict
   with PROCESSING, without any fault.

Observed while reading, without a run of their own:

* *Pipeline.* callWebhook accepts every HTTP status (`webhooks.service.ts:57`), so 4xx
  and 5xx are stored as success and never retried. The dead letter is written by a
  listener after the job has failed: a crash in between loses it
  (`action-execution.worker.ts:40`). Row and key of an event are stored before its job is
  added: when the addition fails, the client's repetition is a duplicate of an event that is
  never processed (`events.service.ts:106`). `attemptCount` never exceeds 1, since it
  is computed from a constant in the job's data (`action-execution.worker.ts:111`), while
  ExecutionsView shows "n / max" of it. COMPLETED and PARTIAL are never
  written. `priority` is passed to BullMQ, where lower numbers come first, while the
  schema says higher. Redis is configured to evict any key, jobs included.
  `enableShutdownHooks` is never called, so a stop of the container is a crash.
* *Rules.* A missing field compares as the text "undefined", and the seeded rules write
  `payload.amount` where the payload has `amount`: "High Value Payment Alert" fires on
  every payment. CreateRuleModal's example `{"and": [...]}` is refused. The DTOs' own examples name
  fields in the same way. A rule's update writes no audit row, even when
  it switches or rescopes the rule (`rules.service.ts:96`, `:103`), and a deleted rule can be activated again. `?isActive=false`
  becomes true (`@Type(() => Boolean)`). A rule of a deleted source becomes one
  of every source. A success rate divides actions by events and may exceed 100.
* *Sources.* The toggle of SourcesView sends `isActive` by PATCH, which the DTO
  refuses; its guide says `Authorization: Bearer` while the server reads `X-API-Key`.
* *Signing in.* The console never refreshes its token, never calls initAuth (every
  reload goes to /login) and does not revoke its refresh token when signing out; a wrong
  password is a 401 that reloads the page under its error message. Setup "can
  only be used when no users exist" (`auth.controller.ts:43`) is not enforced. A lifetime
  in a unit the parser does not know ("2w") becomes 7 days.
* *Console.* The events page offers filters that the API answers with 400; its Reprocess
  button waits for a status no event has. "Successful Executions" counts those that are
  pending. ExecutionsView shows a total of 1 when there is none and ignores
  PERMANENTLY_FAILED. Lists are ordered by time without a tiebreaker. Without an
  execution the doughnut shows one success (`DashboardView.vue:291`). Analytics
  shows constants.

## What is not modelled

* *Retry worker*: no job ever reaches its queue.
* *Metrics and health*, `QueueService`, checkIdempotencyBatch, getRuleStats, getRulesSummary and
  the details pages: they only read, and nothing acts on what they return.
* *Redis and Prisma wrappers*: their failures are the failing statements.
* *Roles*: RolesGuard is a comparison of the user's role with a decorator; an
  administrator of the models is somebody it lets pass.
* *Hashing, signing, HTTP parsing, DTO validation, charts, formatting*: libraries and
  layout, except where a property is about what they do (status filters, API keys, the
  text of a condition).
* *updateSource* (name, description, metadata) and the rules page's filters: nothing
  modelled reads them.
* *The order of jobs*: BullMQ's priorities are any order, which covers the code's.

## Plan

Done in this order, most important behaviour first: `ActionExecution` with
`BoundedRetry`, `EventIngestion`, `EventProcessing` and the proofs of each; then
`RuleEngine`, `Administration` with its proofs, `Sessions` and `Console`; then the
proofs of what counts (`OneOutcomePerAttempt`, `AuditTrail`, `OrphansExplained`,
`TokensConserved`, `ReportsNearlyAdd`), of the remaining safety properties, last those of
`RuleEngine`, and of the second refinement of `BoundedRetry`. Left:

1. `Pipeline`: `EventIngestion`, `EventProcessing` and `ActionExecution` composed
   for one event, with an abstract specification "an accepted event's matching
   actions each end delivered or dead-lettered unless a failure is on record".
2. The counters of a rule together (executionCount, successCount, failureCount), for the
   success rates that are computed from them.
