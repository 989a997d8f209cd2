# Oriflux: a verification project

Oriflux is a multi-tenant web and API analytics service.  A FastAPI ingestion
service writes enriched events to capped Redis Streams; a workers container
drains them into ClickHouse and runs the scheduled jobs (alerts, digests,
anomalies, insights, exports); an API service serves queries, administration
and billing from PostgreSQL and ClickHouse; SDKs, a dashboard and an MCP server
sit around them.  The modules here model the parts whose correctness depends on
the order of steps or on what a query compiles to, TLC checks them on small
instances, and TLAPS proves the main safety properties for every value of the
constants.

Paths below are relative to `src/api/src/oriflux/` unless they name another
top directory.

## Inventory

| component | state it keeps | operations | what is hard | what makes it correct |
|---|---|---|---|---|
| ingestion bus (`storage/redis_stream.py`) | two capped Redis Streams | XADD with MAXLEN ~ | the cap trims what nobody read yet | the newest MAXLEN entries are never trimmed |
| micro-batcher (`workers/batcher.py`, `workers/main.py`) | consumer group: cursor, pending list, consumers; `last_tick` | one iteration: own pending entries, XAUTOCLAIM, XINFO + DELCONSUMER, new entries, insert, XACK | crash or hang at any await, restarts under another hostname, partial inserts | nothing is acked before it is stored; everything settles in the end |
| alert evaluator (`alerting/`, `api/alerts.py`) | `alert_rules`, `alert_events` | a run every 60 s; rule CRUD | a run works on rules it loaded earlier; commit and notification are two steps; posts are retried | one open event per rule, announced once, following the metric |
| digests (`workers/digest_job.py`, `api/digest.py`) | `digest_subscriptions`, the ledger `digest_sends` | an hourly run; subscribe, unsubscribe | the run works on a snapshot; mail and ledger row are two steps | the ledger only holds what went out; a due digest gets there |
| ingestion gate (`ingest/auth.py`, `ratelimit.py`, `quota.py`, `ingest/main.py`) | key cache and limit cache per replica; Redis counters | resolve, count, reject | caches filled across an await; several replicas | a revoked key dies; the quota holds across replicas |
| Stripe billing (`api/billing.py`) | `stripe_events`, the organization's plan | checkout, portal, webhook | duplicated, concurrent and reordered events; lost answers | an event is committed once and never acknowledged unapplied; the plan ends up as Stripe has it |
| sessions, users, visitor hash (`enrichment/`) | salts, session ids, bindings, cadence counters in Redis; one memoised salt per process | session_for, identify, user_for, cadence, visitor_hash | expiry between two commands; clocks apart at midnight | one salt a day, one session a visit, no user given to another session |
| SDKs (`src/sdk/`) | aggregation window, circuit breaker | record, flush | the window overflows; a post that timed out may be stored | rows claim no more than was served, nothing counts twice, memory is released |
| revenue webhooks (`connectors/`, `ingest/main.py`) | none of its own | map and publish | providers redeliver | a sale arrives, and counts once |
| periodic jobs: anomalies, insights, exports, GeoIP (`workers/`) | their unique keys, objects in MinIO, two files | runs sent by beat | several containers share one queue; runs fail half way; beat forgets when the container is replaced | an anomaly in one alarm, no day without its dumps and insights but for what ends every run of it, databases that renew |
| query registry and engine, funnels, retention (`query/`) | none | compile a request to SQL | copies of rows, sessions over midnight, filters chosen by strangers | scopes hold, copies do not count, breakdowns add up |
| goals, overview, public dashboards (`api/goals.py`, `tools.py`, `public.py`) | goals, share tokens | several queries for one answer | the table changes between them | a rate is a rate |
| live map (`api/live.py`) | sockets and one task per organization | connect, disconnect, broadcast | the task ends while sockets come | a broadcaster exists while sockets do |
| AI gateway (`ai/`) | `ai_usage` | chat, embed; a question is up to three calls | check, call and record are three steps | a bounded overspend |
| tenancy (`api/admin.py`) | memberships, keys, projects | role edits; single-transaction CRUD | roles are decided on as they were read | only owners make or unmake owners |
| crawler and geo tables, annotations, dashboard, landing site, MCP packaging | constant tables, rows | look-ups, CRUD, rendering | little that depends on order | not modelled, see the end |

How they interact: a request passes the **ingestion gate** (key, rate limit,
quota; the plan it meters by is set by **billing** and the keys are revoked by
the admin API), is enriched (**sessions**, geo, crawlers) and published on the
**ingestion bus**; the **micro-batcher** moves it to ClickHouse, in copies if
need be, from which **queries**, the **alert evaluator**, the **digests** and
the other jobs read.  The workers container runs the batchers beside one Celery
process with one worker (`celery_app.py:241`) and an embedded beat; requests of
the API service run at any time.

PROJECT.json lists every component with its status, and under `hazards` what in
this code is hard to test, each at its line, with the properties that would
catch it.

## Conventions

- One action is one atomic step of the code: one Redis command, one SQL
  transaction or statement, one HTTP call.  Everything that runs between two
  `await`s is one action; everything else may happen between two actions.
- Times (idle times, intervals, time-outs) are not counted: what they allow may
  happen at any moment the code does not exclude.  The exceptions are `Visits`,
  whose properties are about the lifetimes of keys, and the hours of `Jobs`.
- Failures are counted in `faults` and bounded by `MaxFaults`.  Each bound is a
  constant and stands in the guard of the action it bounds.
- Variables marked "(history)" are read by no guard; they record what a
  property talks about.
- An operator introduced by "Slip:" is not part of the system.  It is the next
  definition with a plausible mistake, kept beside it; PROJECT.json's `mutants`
  says which property catches it.

## Modules

### Delivery and Batcher

`Delivery` is what the bus promises: published entries are stored before they
settle (before nothing will hand them to a worker again), unless the capped
stream had overflowed.  It knows nothing of groups, workers or crashes.

`Batcher` is the code.  Both batchers of the workers container are instances of
one class, so there is one stream and one group.

| state | code |
|---|---|
| `lastId`, `trimTo` | the stream; XADD with approximate MAXLEN may trim any old entries but the newest `MaxLen` |
| `group`, `delivered`, `owner`, `members`, `idle` | the consumer group: last-delivered-id, pending entries, consumers, and who has been idle for `claim_idle_ms` |
| `pc`, `ids`, `events`, `victims` | the locals of one `run_once` |
| `ticked`, `hung` | `last_tick` is set; older than `batch_stall_s` |
| `stored`, `twice` | rows of the table, and history of repeated inserts, which ReplacingMergeTree folds |

`run_once` is `EnsureGroup`, `ReadOwn`, then (nothing pending) `Claim`,
`Inspect`, `Prune`... `EndPrune`, `ReadNew`, then `Insert`, `Ack`.  `Handle` is
the decoding, which raises on a payload the model class rejects.  `RedisError`,
`InsertFails` (part of the block may have landed), `Hang` and `Crash` are the
failures, `HealthRestart` the 503 of `/healthz`; a replaced container has
another hostname, hence another element of `Consumers`.

### AlertEvaluator

One beat-driven run at a time against the CRUD of rules.  A run is `Load`, then
per rule `Evaluate` (the ClickHouse query), `SelectOpenEvent`, `StoreEvent` (the
commit) and `Notify`, up to three attempts.  The rule objects stay as loaded, so
`loaded` keeps the thresholds a run judges by while `threshold` is the table.  A
rule deleted under the run makes the insert fail (`StoreFails`), outside any
`try`, and ends the run.  A metric is a level 0 or 1 compared with a threshold
0 or 1: all a verdict can tell apart.

### Digest

`run_digests` and the preferences API.  `LoadSubscriptions` is the snapshot,
`Take` the look at the period and the ledger, `Mail` and `Commit` the two steps
whose order matters, `CommitRefused` the IntegrityError, `MailFails` and
`RunLost` what ends a run.  `UnsubscribeRefused` is the foreign key of
`digest_sends`, which has no cascade in the migration.

### IngestGate

A request (`req`) goes through `Resolve` (cache hit), `Lookup` and `Remember`
(PostgreSQL, then the cache, across an await), `Meter` (limit cache hit),
`ReadPlan` and `StoreLimit`, `Count` (the pipelined INCRBY) and `Publish`.  The
caches belong to a replica, the counter to Redis.  Counters stop at `Full`,
beyond every cutoff, where all comparisons have come out.

One month's counter is modelled, which begins at 0 with `TurnMonth`, at any
moment: limits that are in the caches then, or about to be, were read in the
month before.  A request counts for the month that its clock said at `Meter`
(`ours`); those of the month before are `CountEarlier`.  `offered`, the limits in
force since the month began or remembered then, and `admitted` are history.

### Billing

The customer acts at Stripe (`Checkout`, `Update`, `Cancel`, `OtherEvent`), which
numbers its events; `Deliver` starts a webhook request for any event, also one
already acknowledged, and several may run at once.  `Insert` is the flush of the
event's primary key, which blocks while another open transaction holds it;
`Duplicate` the IntegrityError; `LoadOrg`, `Commit` and `Answer` the rest of the
transaction and the 2xx.  `Fail` is an exception, a crash or a lost answer at
any of these steps.  As with the ORM, the plan is written only if it differs
from the one the session read.

### Visits

What `collect` does to an admitted request: the salt of its day and the hash
(`Recall` from the process's memo, else `SetSalt`, `GetSalt`), the session
(`SetSession`, `GetSession`, `Slide`), then `Identify`, or `UserFor`, `Count`,
`ExpireCadence` and `Publish`.  Each is one Redis command.  A key is a value
with the tick at which it expires; `Tick` drops what is due, whatever requests
are between two commands.  `SET NX` draws a token when there is none, so that
two draws are never equal, as random ones are not.

A process in `Ahead` has a clock one tick ahead, and `DayOf` goes by the clock of
the process at the start of the request.  `Crash` replaces a process with its
memo and its requests.  A key that is not found after `SET NX` and `GET` is tried
for once more (`Retry`), then the request fails.  `Fail` is a Redis command that
raises, applied or not: the request ends and nothing is undone, as when its
process is killed.  `hashed`, `seen`, `named`, `since` and `orphans` are history;
the last two say when a counter was begun, and which were left without a time to
live because the request between INCR and EXPIRE was cut short.

### Senders

Two kinds of clients that post on their own account.  The SDK (one of the two,
`sdk`) counts a request in a cell of route and address, `Record`; when the
window is full the Python SDK drops the address, the Node SDK keeps a cell of
its own for each route.  `Flush` drains the window into a post, `Skip` drops it
while the breaker is open; `Accept`, `Refuse` (4xx) and `Fail` (5xx or no
answer, when the rows may be stored all the same) end a post.  Python has one
thread for this, Node may have several posts under way and cuts a window at the
length the service accepts; they also differ in what a 4xx is to the breaker.
`StoreRows` is `collect_api_metrics` with the rows of `ApiMinuteRow.from_entry`.

A payment provider delivers each charge until it is answered: `Charge`, with
the event id and the time of the delivery.

### Jobs

The jobs of beat other than alerts and digests.  Every container has a beat and
a worker.  `Start` takes a task off the queue they share and reads what there is
to do, and `Quiet`, `Detect`, `Daily` or `Refresh` do one project, schedule or
file of it.  `Alarm` is the end of a detection that found something.
`Fail` ends a run with what it has committed, `Replace` a container, whose
successor queues a GeoIP refresh (`kick_startup_jobs`).

The insights and the dumps are sent by each beat once in 24 hours, at the hour of
the day at which its container was started: `phase`, and `Tick`, which sends
them.  A run is about the day in which it starts, so a task that waits past
midnight is of no use to its own day.  Such tasks, runs that fail, and
containers replaced before their hour are counted in `spoilt` (history);
`dropped` (history) holds the anomalies of failed runs.  `Beat` sends the other
two jobs, whose intervals are hours, at any time.

The unique keys of `anomaly_events` and `insights` and the object name of a dump
are what makes `anomalies` and `daily` sets.

### Query and MCQuery

The registry (`DIMENSIONS`, `METRICS`), the requests it allows (`Valid`,
`Requests`), and what the compiled SQL answers, as functions from the copies of
rows in a table: `Read` is FROM, FINAL and WHERE, `Lines` the GROUP BY,
`Aggregated` the inner aggregation by session, `Value` the aggregate, `Result`
the whole.  `Funnel` and `Retention` are the other two queries, `Compared` a
request with the period before it, `PublicQuery`, `Overview` and `ApiHealth`
what handlers make of `Result` for a share or a project.  No step of the system
computes these; the properties look at them in every table that can be stored.

The steps are rows stored again (`Store`, as the batcher may) and merged
(`Merge`), the rate of a goal as two queries with changes in between
(`ReadVisitors`, `ReadConverting`), and the hub of the live map from await to
await (`Connect`, `Disconnect`, the `Broadcast...` actions).  A connect starts a
broadcaster if there is none or the last one is done (`Unattended`); a
broadcaster that found no sockets has ended in the same step that looked
(`Loop`), so that no connect meets one on its way out.  `MCQuery` has the rows:
two organizations, one with two projects, a session over midnight, events
without a session, a sale and a minute of API requests.

### Organization

Requests of one organization against its rows in PostgreSQL, READ COMMITTED.
An edit of a membership is `AddMember` (the role of the actor is read),
`LoadMembership` (the row of the target is read and the rule about owners
applied), `CommitMembership`.  A question is `Begin`, then for each of its calls
`Check` and `Answer`: compile, repair at most once, phrase; jobs make single
calls (`prose`).  `Fail` may record the tokens of a call or not.  `NewMonth` lets
the usage start anew.

## Runs

| run | specification | shows |
|---|---|---|
| `batcher` | `FairSpec`, 3 containers in turn, 3 entries, stream of 2, batches of 2, one undecodable entry, 1 failure | nothing settles before it is stored; duplicates need a failure; `Batcher` implements `Delivery`; what can be read settles although workers hang and crash |
| `alerts` | `FairSpec`, 2 rules, 2 moves, 3 failures | one open event per rule, the channel tells the state, announced once, events follow the metric |
| `digest` | `FairSpec`, 2 members, a Monday and a first of the month, 2 subscriptions, 1 failure | the ledger means mailed; a repeat has a cause; a due digest gets recorded |
| `gate` | `FairSpec`, 1 replica, 2 requests, batches to 2, cutoffs 1 and 2 and no limit, the month before and the month | the quota holds through plan changes and with limits remembered from the month before; a revoked key is refused for good; a plan takes hold |
| `billing` | `FairSpec`, 2 subscriptions, 3 events, 2 requests at once, 1 failure | applied once, never acknowledged unapplied, the plan is Stripe's, every event is applied |
| `visits` | `Spec`, 1 visitor, 2 processes (one ahead), 2 requests, days of 3 ticks, 5 ticks, 2 processes killed or commands failed | a day has one salt, a visit one session, a user stays with the session, a cadence counter counts recent events |
| `senders` | `SendersFairSpec`, both SDKs, 2 routes, callers known and unknown, window of 1 cell, posts of 2 entries, 3 requests, 2 failures | rows are honest, nothing counts twice or vanishes before a failure, memory is released, charges arrive |
| `jobs` | `FairSpec`, 2 containers, 1 project, 1 schedule, the exports, days of 2 hours, 3 hours, 1 deviation, 1 failure | one alarm per anomaly, an anomaly nobody tells of is a failed run's, databases renew, a day without its dumps has a cause for each container |
| `query` | `Spec`, 8 rows of which 3 at a time with up to 2 copies, 4 periods, 4 funnels, 2 goals, 2 sockets | scopes hold, copies do not count, answers add up, rates are rates, sockets are served |
| `organization` | `OrgSpec`, 3 users, 2 requests, a budget of 2, calls to 2 tokens | overspending is bounded, owners answer for owners |
| `digest_unsubscribe` | `Spec`, 1 member | **violated**: `UnsubscribeHonored`, see Findings |
| `senders_revenue` | `SendersSpec`, as `senders` | **violated**: `RevenueCountedOnce`, see Findings |

Why the bounds are enough.  Two actors show every race these components have
(two workers, two requests, two rules, two members, two containers), and a third
container name lets a restarted worker be restarted again.

- `batcher`: the stream holds fewer entries than are published, so it overflows,
  and the undecodable entry comes behind good ones.
- `alerts`: three failures are a whole notification lost.
- `digest`: the two cadences fall due on different days, and the days change
  during runs.
- `gate`: a batch of two is larger than the smaller cutoff, so a batch straddles
  it.  One replica has all the races of a cache; that the quota holds across
  replicas is proved for any number of them.  The month may begin at any point
  of the requests in hand and of the plan's changes.
- `billing`: three events are a subscription, its change and its end, or two
  subscriptions and one end.
- `visits`: five ticks reach into the second day by either clock; a session lasts
  two, so it ends and is followed by another; a request takes up to one tick, so
  keys expire between its commands.  The salt outlives its day by
  `DayLen + MaxDelay < SaltTTL`, which 26 hours give the code.  The longest gap
  of two events that can still matter, a session's, is shorter than the run.  Two
  faults cut two requests short in the same window, or one in each of two.
- `senders`: a window of one cell overflows with the second address, two routes
  make a post longer than the service accepts, two failures open the breaker.
- `jobs`: days of two hours let both beats send at the same hour, at two hours of
  a day, and a task wait past midnight; the third hour is one of the next day.
  One deviation is found in one hour by two runs.  The insights differ from the
  exports in nothing the model has but the set of their items; the proofs have
  both.  Of the last hour, in which nothing goes stale, liveness is asked.
- `query`: three rows are two that differ and a copy, or a funnel's two steps and
  a stranger; each pair of rows that could be confused (another project, another
  organization, another day, no session) is among the eight.
  The period of both days holds the two page views of the session over midnight.
- `organization`: an edit needs an actor, a target and someone who changes it
  under the edit; two calls are what overspends together.

`MCVisits` and `MCOrganization` add the symmetry of requests and of users, whose
properties are safety.

`visits`, `senders`, `senders_revenue`, `jobs` and `query` set CHECK_DEADLOCK
FALSE: with their bounds used up these models stop (no tick, request, row or
failure is left), which the system does not.

### Fairness

- Batcher: weak fairness of a worker's own steps (the event loop runs), of
  `Start` and `HealthRestart` (Swarm restarts what exits or fails its check) and
  of `GoIdle` (time passes).  None of publishers or failures.
- AlertEvaluator, Digest: weak fairness of the run as a whole; beat sends the
  task every 60 s or every hour, and the worker runs it.  None of the requests
  of members, nor of the failures, which are finite.
- IngestGate: weak fairness of each request in flight and of the expiry of each
  cache entry, which carries a time; none of arrivals, revocations or plan
  changes.
- Billing: weak fairness of each webhook request, strong fairness of the
  delivery of each event not acknowledged yet: Stripe retries, and finds a
  request slot although others come and go.
- Senders: weak fairness of the flush (the SDKs' timers), of the end of each post
  (it times out) and of the deliveries of a charge (providers retry).  None of
  requests, failures or the breaker's cool-down.
- Jobs: of the GeoIP refresh only: weak fairness of its beat, strong fairness of
  its start, as the broker hands tasks out in their order and a worker is free
  again and again, and weak fairness of each worker's run.  A container replaced
  more often than the interval would postpone it each time; replacements are
  bounded, and each queues a refresh itself.
- Visits, Query, Organization: none, their properties are safety.

`EveryEntrySettles` excepts what an undecodable payload may block: it is retried
for ever by design of the loop, before anything else of its worker.

## Findings

- `digest_unsubscribe`: after the first recorded digest the foreign key refuses
  the DELETE, against "DELETE = unsubscribe, honored immediately".
- `senders_revenue`: a redelivered revenue webhook has the same event id and
  another timestamp, and the events table collapses rows by both, so the charge
  counts twice, against "the ClickHouse dedup absorbs duplicates".

Other behaviour met while modelling, which no run is spent on:

- DELCONSUMER acts on an earlier XINFO.  With a second worker alive, entries it
  reads between the two commands vanish from the pending list, and are lost if
  it dies before its insert.  The stack file runs one replica; check
  `NeverForgotten` of `Batcher` with `Overlap = TRUE` for the trace.
- The ledger row of a digest is committed after the mail, so a crash in between
  repeats it, against "can never go out twice".  `TwiceNeedsACause` says how far
  that goes.
- Requests that miss the key cache together all look the key up, against "at
  most once per key per TTL".
- `PlanIsStripes` has two hypotheses (events come in order; no second
  subscription beside the first) because the webhook guards neither.
- A limit is remembered by organization (`quota.py:68-83`) and the counter is the
  month's, so that the first minutes of a month may be metered by a larger plan
  of the last one: `QuotaHolds` counts such limits as offered.
- A cadence counter whose EXPIRE is lost, to a killed process or to a failing
  command, keeps counting till midnight, and its visitor is a bot for the rest of
  the day, against "in the last ~minute" (`enrichment/sessions.py:44`).
  `CadenceIsRecent` says that those are the only ones, and that the day ends them.
- A run of the anomaly detection that fails after a commit leaves a row no alarm
  will count; a schedule whose dump fails ends the run for those behind it.
- A daily run that fails is not sent again that day, and the next writes another
  date: the day has no dump.  The same befalls a container replaced before its
  hour (`celery_app.py:242`, no volume keeps beat's schedule), so that one
  replaced every day sends none.  `MissedDaysHaveCauses` says what else cannot.
- The Node SDK cuts a window at 4000 entries without a word (`aggregator.ts:130`),
  which `NothingIsLostUnasked` has as an exception.
- Funnels read without FINAL although `clickhouse.py:5-7` says that queries use
  it; a copy only matters when one row can meet two steps, which is the condition
  of `CopiesDoNotCount`.
- A query for the one day of 28 February of a leap year with the year before to
  compare with has both ends of that period on 28 February, as 29 February
  becomes the 28th (`api/main.py:80-87`): the period is empty and the request
  fails.
- A broadcaster that cannot make its executor (`live.py:91`, outside the `try`)
  is dead until the next connect.
- The sole owner may give up the role, and an owner may be demoted by an admin
  whose edit read the row before the promotion.
- A session of more than 30 minutes after identify() loses its user.

## Proofs

Proved for every value of the constants that satisfies the module's `ASSUME`,
which TLC evaluates in the runs:

| module | theorem | inductive invariant and why it is needed |
|---|---|---|
| BatcherProofs | `TypeCorrect` | `GroupInv`: the cursor is 0 until the group exists, and no worker is past `EnsureGroup` before |
| | `NoEntryLost` | `CarryInv`: what a worker will ack it has read or found trimmed, and at its `Ack` it is stored; `OneLive`: one worker at a time; `VictimsInv`: nothing becomes pending on a consumer between XINFO and DELCONSUMER. Without them `Ack` and `Prune` could settle anything |
| | `BatcherImplementsDelivery` | step simulation: each action is a `Publish`, `Store`, `Settle` or stutter of `Delivery` under `settled <- {e : Settled(e)}` |
| | `ExactlyOnceWithoutFaults` | `OnceInv`: until a failure or a death, a stored entry is pending on nobody, or on a worker about to ack it, so that nothing that is read is stored |
| AlertProofs | `TypeCorrect`, `NeverTwoOpenEvents`, `ChannelIsRight`, `CopiesHaveCauses` | `StoresWhatItSelected`: the verdict about to be committed still fits the stored event; `SendsWhatItStored`: what is sent is what was committed; `NewIsUntouched`, `AttemptsEnd` |
| DigestProofs | `TypeCorrect` | `KnownIds`: the snapshot only holds subscriptions once created |
| | `LedgerIsTrue`, `TwiceHasACause` | `HandFollowsTheDigest`; `OneLookEach`: a subscription is looked at once per run; `MailedIsFollowed`: without a failure, what went out is in the ledger, about to be, or its subscription is gone and out of the run's reach |
| AccessProofs | `TypeCorrect`, `QuotaKept` | `LimitsWereOffered`: from the month's beginning on, every limit that is remembered, or in a request that counts for the month or is about to fill a cache (`Matters`), was offered; `AdmittedIsCounted`: the counter is never behind what was let through; `NothingYet`: the month starts from nothing |
| | `OrgTypeCorrect`, `BudgetKept` | `BudgetInv`: what is spent, and one full call of each request that waits for the model, stay within the bound. `OverspendIsBounded` alone is not inductive, since an answer adds tokens long after its check |
| | `OwnersAnswer` | `EditInv`: an edit about to be committed that touches the role of owner was asked by an owner |
| BillingProofs | `TypeCorrect`, `ReplayIsNoOp`, `AckedWasApplied` | `LedgerInv`: an id is in one open transaction at most, and who answers found or put it in the ledger; `AppliedIsLedger` |
| | `PlanFollowsStripe` | `OrderInv`: as long as no event is late, all events before one that is logged or in hand are acknowledged; `PlanInv`: the plan is that of the last event logged, and still the one a request in its transaction has read; `StripeInv`: with one subscription at a time the last event says what was bought |
| VisitsProofs | `TypeCorrect`, `OneSaltADay`, `UsersStayInTheirSession`, `CountsAreRecent`, `SessionsEndByInactivity` | `IInv`, see below |
| CountsProofs (Query) | `TenantsAreApart` | no invariant: that a result depends on the rows of its scope only, from `ReadsOrg`, `ReadsProject` and `PublicIsScoped`, whatever the filters |
| | `DuplicatesAreHarmless` | `TypeOK`: FINAL makes the registry's answers functions of which rows there are (`FinalOnce`); for a funnel, every copy that meets a step can be replaced by the first of its row when no row meets two (`RowsReachAsFar`, `FunnelOnce`) |
| | `NumbersAddUp` | no invariant: sums by group are sums over rows (`RowsAddUp`), or numbers of sessions (`SessionsAddUp`); two periods that meet are one (`PeriodsAddUp`); a user is of one cohort, that of the first week (`CohortsAddUp`) |
| | `RatesAreRates`, `WatchersAreServed` | `IInv`: `TypeOK` with the visitors read so far, and no sockets without a broadcaster; `PercentIsBounded` is the arithmetic |
| CountsProofs (Senders) | `SendersTypeCorrect`, `OverflowClaimsNothing`, `LostPostsDoNotCountTwice`, `OnlyFaultsLose` | `SendersIInv`, see below |
| JobsProofs | `TypeCorrect`, `NeverAlarmedTwice`, `SilenceHasACause` | `FoundInv`: what a run has found is in the table, in no alarm, and in no other run; `RowsInv`: a row is in an alarm, in a run's hands, or dropped, and in one of these only; `WindowInv`: a run is about an hour or a day that has begun |
| | `MissedDaysExplained` | `CountInv`: as long as no run has done all of a day's work, each container's run of that day is still to be sent (`Pending`), in the queue (`Waiting`), under way (`Busy`) or spoilt, so that when nothing is under way any more all are spoilt; `WorkInv`: what a daily run has no longer to do is done |

AccessProofs and CountsProofs each reason about two modules; that is why
`Organization` and `Senders` have names of their own for `Init`, `Next`, `Spec`
and `TypeOK` (`OrgInit`, `SendersInit` and so on).

**Visits.**  None of its properties is inductive.  `PathInv` says what a request
has at each step of `collect`, and that its time is within `MaxDelay` of its
process's clock.  `TokenInv` counts the tokens that requests may still draw, so
that there always is one; `FreshInv` says that a token drawn is the salt of one
day or a session id, never both.  `SaltInv` is the one about time: the salt of a
day is stored until the last request of that day can have asked for it, by
whichever clock (`End`), and all that was hashed, or that a process remembers,
was hashed with it; this is where `DayLen + MaxDelay < SaltTTL` is needed.
`SessionInv` says that a session last slid at some time lives for `SessionGap`
from then, `UserInv` that a binding, or a request that has a user, was named in
that session.  `CadenceInv` says that a request with a visitor hash has hashed it
on its day (`HashedInv`), and that a counter was begun on the day of its salt and
has a time to live that began with it, or a request that is about to give it one,
which came before the count began and ends within its delay (`BeganInv`), or was
left without (`Counter`).

**Senders.**  Rows say too little: what an SDK holds, and what is on its way,
will be rows.  `HeldInv` is the account of a route, rows with window and posts,
which no step raises but `Record`; `LossInv` is its equality as long as nothing
failed or was cut, and `BreakerInv` says that an open breaker is a failure that
was, since an open breaker drops the window.  `HonestInv` is the account of an
address in which cells marked as overflow do not count, as they become rows
without an address (`Claimed`); for it, `MarksInv` keeps the marks with the
requests they are about from window to post.  `KeysInv` says that no more than
`MaxKeys` cells of the window are unmarked.

**Sums.**  Both modules add up with the folds of the community modules, whose
order is not known, and induction over sets cannot be instantiated.  The facts
about sums (that they are well defined, split, add, compare, and can be taken by
a key, `TotalByKey`) are proved without it: of the sets for which a sum were
wrong, if there were any, there would be one without such a proper subset
(`Smallest`, from the library's theorem that strict inclusion of finite sets is
well founded), and removing an element of it gives a contradiction.  `Extremes`
is the same for `Max` and `Min`.

`YearBefore` of CountsProofs, a lemma, says that a period of two days or more has
a period of the year before to be compared with; the one day that has none is
among the findings.

`NoEntryLost`, `ExactlyOnceWithoutFaults` and `BatcherImplementsDelivery` assume
one worker at a time (`Overlap = FALSE`), as deployed.

The assumptions on constants are those of each module's `ASSUME`.  Beside the
types and finiteness of what is enumerated, those that matter are the lifetimes
of `Visits`, as the code has them; for `Query`, that rows have a time and an
amount, which is an integer of either sign (refunds and churn are negative,
`connectors/revenue.py:6`), that a period starts before it ends, and that a
funnel has 2 to 8 steps (`query/funnel.py`); and for `Senders` that routes,
addresses and posts are finitely many.

Only model-checked: the liveness properties (`EveryEntrySettles`,
`EventsFollowTheMetric`, `DueDigestIsRecorded`, `RevokedKeyDies`,
`PlanTakesHold`, `EveryEventIsApplied`, `MemoryIsReleased`, `ChargesArrive`,
`DatabasesRenew`), which rest on fairness and are out of the
prover's reach.  Every invariant and action property of a passing run is a
theorem.
The `TypeCorrect` theorems state type invariants that the other proofs rest on;
where no run lists one, the proof alone shows it.

## Not modelled

- Crawler lists, user agents and geo look-ups: functions of constant tables.
- Annotations, anomalies, connectors, classification and infrastructure API, and
  the creation, listing and deletion of projects, keys, goals, shares and
  organizations: single transactions without interplay.  Of keys, revocation is in `IngestGate`.
- Dashboard, landing site, MCP packaging, deployment: interface, content and
  configuration.  `src/deploy/docker-stack.yml` is read for replicas and
  restarts.
- Inside modelled components: the rate limiter is a refusal that may happen (one
  atomic INCR and a comparison); signatures and the mapping of providers'
  payloads; the customer id of billing, which leaves no trace on the plan;
  rendering and numbers of digests; prompts and parsing of model answers;
  histograms and byte counts of the SDKs; quantiles, segments and CSV of queries.

What a further step would take up: `AlertEvaluator` with two runs at once, as a
scaled workers service would have; an abstract ledger (snapshot, effect, unique
row) implemented by `Digest` and `Jobs`.
