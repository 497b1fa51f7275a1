# TLA+ verification of GrainGuard

GrainGuard is a multi-tenant telemetry platform made of small services around
PostgreSQL, Kafka, Redis, Cassandra, RabbitMQ, Stripe and Auth0.  This directory
models the parts of it whose correctness depends on the order in which
independent processes, requests and callbacks take their steps, checks them with
TLC on small instances and proves most of their safety properties for every size
with TLAPS.

## 1. The system

| Part | State | Operations | What makes it hard |
|---|---|---|---|
| telemetry-service | `devices`, `telemetry_readings`, `outbox_events` | create a device, record a reading, each one transaction with an outbox row; outbox workers publish batches | crash between Kafka and commit, several replicas, unacknowledged writes |
| saga-orchestrator | `sagas`, Kafka offsets | five event handlers, a worker pool with retries and a DLQ, recovery worker | handlers interleave on one saga, repeated and late events, restarts, out-of-order commits |
| asset-registry | `devices` (shared) | attach, allocate quota, detach; answers as events | failed commands are committed, the quota is checked by counting |
| read-model-builder | read database, Redis, offsets, circuit breaker | batch projection of telemetry | duplicates, reordering, cache written after the commit |
| workflow-alerts, jobs-worker | in-memory maps, RabbitMQ queues, preferences, endpoints | risk events to alerts, emails, webhooks, exports, digests | acknowledgements, retries, dead letters, closed channels, lost answers |
| gateway: tenants, team, SSO, keys, billing, devices | `tenants`, `tenant_users`, `tenant_invites`, `api_keys`, `tenant_billing`, Auth0, Stripe | REST routes made of several awaits; Stripe events applied by the jobs-worker | check-then-act between requests, stale tokens, reordered and repeated events |
| gateway: latest reading; bff | Redis caches and locks, circuit breakers | cached reads | stampede locks that expire, caches filled late, half-open breakers on several pods |
| dashboard | the lists on the screen, import dialog, login redirect | handlers of six settings pages and the bulk import | overlapping handlers, late and lost answers, two tabs |
| gateway: rate limits | one sorted set per address | every limiter on a request's way | count and add are separate; routers count requests of later routers |
| cdc-transformer, cassandra-writer, dlq-reprocessor, ingest-service, risk-engine, search-indexer | offsets, caches | consume, write, commit | see section 5 |

Devices flow through the system like this.  The telemetry-service commits a
device and a `device_created_v1` outbox row; the outbox worker publishes it on
`device.events`; the orchestrator inserts a saga and sends
`tenant.attach_device`; the asset-registry answers `tenant_attached_v1`; the
orchestrator sends `quota.allocate_device`; the answer `quota_allocated_v1`
completes the saga and `quota_allocation_failed_v1` starts compensation
(`tenant.detach_device`, `tenant_detached_v1`).  Readings take the same outbox
to `telemetry.events`, from which the read models are built; the gateway and the
bff serve them.  Risk scores come back over Kafka and become alerts.

## 2. Modules

| Module | Models |
|---|---|
| `ProvisionSaga`, `MCProvisionSaga` | saga-orchestrator, asset-registry and the start of a saga, composed over Kafka |
| `ProvisionSaga_proofs` | its inductive invariant, six safety theorems, and the invariant of a provisioning in which nothing fails |
| `AtLeastOnce`, `Outbox`, `MCOutbox`, `Outbox_proofs` | what ADR-002 promises of the outbox, the outbox, its theorems and the refinement |
| `TelemetryProjection`, `MCTelemetryProjection`, `TelemetryProjection_proofs` | the read-model-builder's telemetry path and its safety theorems |
| `JobQueue` | a RabbitMQ queue with acknowledgements, dead letters and a time to live |
| `AlertJobs`, `MCAlertJobs` | workflow-alerts and the jobs-worker's queues, composed |
| `AlertJobs_proofs` | the invariants of its two halves, and their theorems |
| `Tenancy` | the gateway's routes on a tenant, its team, keys and single sign-on |
| `Billing`, `MCBilling` | `Tenancy` with the subscription, Stripe events and devices |
| `ReadStore`, `BffReads`, `DeviceQuery` | what both readers share; the bff's queries; the gateway's latest route |
| `ReadPath`, `MCReadPath` | both readers composed over one table |
| `ReadPath_proofs` | their invariant: the bff's requests, the gateway's, and the theorems of the composition |
| `TenancyInvariant`, `Tenancy_proofs` | what is invariant of a tenant, and that its routes preserve it |
| `BillingSteps_proofs`, `Billing_proofs` | the invariant of `Billing`: Stripe, its queue and workers; checkout, devices, every step together, and the theorems |
| `RateLimit`, `Dashboard`, `MCDashboard` | the limiter; the dashboard's pages over the gateway's routes |

In every module `budget` is the scenario chosen in `Init`: which actors take
part and how often clients act and each kind of fault happens; `used` counts
what is spent.  Each fault is an alternative of the step it hits.

### ProvisionSaga

One action per database statement or Kafka write of a handler, since other
workers, the recovery worker and restarts come in between.  `sagas` is the
table (one row per correlation id), `log`, `fetched` and `committed` are
`device.events` with the group's offsets, `jobs` holds the messages in flight
with the next statement (`pc`) and the attempt of each handler, `commands` is a
bag because `device.commands` is written with the LeastBytes balancer and so
has no order, `asset` is the command in hand, `stuck` the rows a recovery round
selected.

| Action | Code |
|---|---|
| `CreateDevice`, `RecordTelemetry`, `OutboxPublish` | `create_device.go`, `record_telemetry.go`, `outbox_worker.go` |
| `FetchMessage`, `Succeed`, `Fail`, `CommitResult`, `OrchestratorCrash` | `consumer/kafka_consumer.go` |
| `FindSaga`, `CreateSaga`, `Publish`, `MarkFailed`, `UpdateStepStatus`, `HandlerError` | `provision_saga.go` with `postgres_saga_repository.go`; `CommandFor` and `Outcome` tabulate what the five handlers send and write |
| `Recover`, `RetryCommand`, `RetryOrCompensate` | `recovery_worker.go` |
| `HandleAttachDevice`, `HandleAllocateQuota`, `HandleDetachDevice`, `PublishAnswer`, `CommitCommand`, `AssetCrash` | asset-registry `handler.go`, `command_consumer.go`, `event_publisher.go` |

Kafka is modelled from how the code uses it: kafka-go writers built without
`RequiredAcks` may lose a write they report good; `CommitMessages` with
`CommitInterval` 0 sets the group's offset to the message's own, also backwards.
One tenant with a constant plan is modelled; "older than 5 minutes" is any row.

### Outbox

`createdAt` gives each inserted row its place, `batch` and `marked` are the rows
a worker's open transaction has locked: still to be sent, and sent and updated.
`Record` is the business transaction; `SelectBatch`, `PublishRow`,
`PublishFails`, `CommitBatch` and `Crash` are `processBatch`.  Both event types
take this path.  The writer asks for no acknowledgement, so that `PublishRow` may
lose a write that is reported good: `lost` has the events of such writes, which
`AtLeastOnce` drops by a step of its own.  Rows that cannot be decoded are left
out, since no writer in the repository inserts one.

### TelemetryProjection

One partition of `telemetry.events` is a sequence of readings, repetitions and
any order included, as `AtLeastOnce` leaves open.  `queue` is the channel
between the fetch loop and the workers, `batch`, `pc` and `attempt` are the
worker's progress through `flush`, `due` the versions a committed transaction
still has to write to Redis.

| Action | Code |
|---|---|
| `FetchMessage`, `FetchError` | `runFetchLoop` with `CircuitBreaker.Allow` and `Failure` |
| `Receive`, `Flush` | the accumulation loop of `StartBatch` |
| `Transaction`, `TransactionFails` | `HandleTelemetryBatch` up to its commit, within `retryWithBackoff` |
| `WriteCache`, `ExpireCache` | the Redis pipeline, and the end of the five minutes it gives each pointer |
| `DeadLetter`, `CommitBatch` | the DLQ loop, `CommitMessages` |
| `Shutdown`, `Restart`, `Crash` | `main`, which does not wait for the workers |

The transaction is one step: its `INSERT ... ON CONFLICT` statements lock the
rows they touch, so concurrent batches that share an event or a device are
ordered by PostgreSQL, and a deadlock is one of the failed calls.  Migration
000004 makes `event_id` the primary key of the history, which is why a reading
that is new at two places of a batch (`Repeats`) fails every attempt.  A
consumer group that has not committed yet (`committed` = -1) restarts at the end
of the topic.  Messages the handler cannot decode are left out, as it skips them
without a trace; the channel's capacity of 2000 only delays the fetch loop.

### AlertJobs

`pos`, `committed` and `evaluating` are the Kafka loop of workflow-alerts, whose
`eachMessage` awaits a query between its checks and `publishAlert`; `cooldowns`
and `processed` are its two maps, which a restart forgets.  `queues` are the four
RabbitMQ queues; per queue `pc` and `msg` say where the jobs-worker's handler is
(`prefetch(1)` gives it one message), and `chan` is the channel all handlers
share.  `accepted`, `sent`, `skipped` and `alertLog` are history.

| Action | Code |
|---|---|
| `EachMessage`, `PublishAlert`, `RestartWorkflow` | `workflow-alerts` |
| `Consume`, `AckJob`, `NackJob`, `RequeueCopy`, `RetryAfterDelay`, `CloseChannel`, `RestartWorker`, `ExpireJob` | the consumers of the jobs-worker, their two forms of retry, `connection.ts` |
| `AlertEmail`, `AlertWebhooks` | `handlers/alert.ts` with the recipients' preferences |
| `SendEmail`, `PostExport`, `DeliverWebhook`, `AckThrows`, `UpdateEndpointStatus` | `handlers/email.ts`, `export.ts`, `webhook.ts` |
| `RunDigestCycle`, `PutPreferences`, `EditEndpoint`, `PublishJob` | `handlers/digest.ts`, the gateway's settings routes, other publishers |

`recordDelivery` changes nothing: its INSERT names no `tenant_id`, which migration
000005 makes NOT NULL, so it fails every time and the error is only logged; it is
part of `DeliverWebhook`.  The acknowledgement of a delivered webhook is inside
the try block, hence `AckThrows`.

One jobs-worker process is modelled, while the chart deploys two.  Two of them
never hold the same delivery; that a job is taken up a second time needs a
redelivery, which a closed channel brings about here as well.

### Tenancy and Billing

`Tenancy` has one tenant: its row, `tenant_users`, `tenant_invites` and
`api_keys`, Auth0's copy of tenant and roles (`auth0`), the claims in each
user's token (`token`, renewed only by `Login`) and Auth0's organization and
connections (`idp`).  Each user has at most one request under way; `req` says
which query or call comes next, so a route with n awaits is n actions.

| Action | Code |
|---|---|
| `Register`, `Login` | `routes/tenants.ts`, `lib/auth.ts` |
| `Invite`, `InviteChecks`, `InsertInvite`, `RevokeInvite`, `SelectInvite`, `AcceptInvite`, `PutRole`, `SelectMember`, `RemoveMember` | `routes/teamMembers.ts` |
| `CountAdmins`, `ReadSelf`, `LeaveTenant`, `CommitErase` and `EraseTenant`, `EraseDevices` of `Billing` | `routes/account.ts` |
| `CreateKey`, `RevokeKey` | `routes/apiKeys.ts` |
| `CreateOrg` to `ClearConnection` | `routes/sso.ts` with `lib/auth0-mgmt.ts`, whose calls may fail or lose their answer |
| `Checkout`, `CreateCustomer`, `UpsertCustomer`, `CreateSession`, `StripeWebhook`, `QueueEvent` | `routes/billing.ts` |
| `CompleteCheckout`, `ChangeSubscription`, `SwitchPrice`, `Redeliver` | Stripe (external); a switch of the price in the billing portal keeps the metadata, and so the plan the worker reads |
| `ConnectWorker`, `ConsumeEvent`, `BeginStripeEvent`, `CommitStripeEvent`, `QueueOwnerEmail`, `AckEvent`, `FailStripeEvent`, `RetryEvent` | `jobs-worker/src/handlers/stripe.ts`, one transaction per event |
| `CheckQuota`, `InsertImportJob`, `CreateRow`, `DeleteDevice` | `services/planEnforcement.ts`, `routes/devices.ts`, `routes/devicesImport.ts` |

`devices` has no foreign key to `tenants`, which is why erasing it is a
statement of its own.  Event types the worker ignores, payloads it cannot parse,
the status column of `bulk_import_jobs` and the audit log are left out.  An
import that has created its rows ends the gateway's process (see Dashboard);
`Billing` lets the requests of others run on, as they do on another pod.

### ReadPath

`ReadStore` has a row of `device_telemetry_latest`, known by its version, and the
versions not yet written to Redis.  `BffReads` takes a query through resolver
cache, resolver lock, data-source cache and lock, circuit breaker, database and
back, one Redis or Postgres call a step (`lib/redis.ts`, `lib/circuitBreaker.ts`,
`resolvers.ts`, `datasources/`); `Outer`, `LocksOuter` and `Inner` tabulate
which keys the seven queries use.  `DeviceQuery` is `services/device-query.ts`
with `cacheBreaker.ts`.  `ReadPath` composes both with the writer.  The row
exists and belongs to the reader's tenant; every entry may expire at any time; a
lock may expire before its holder is done; `syncToRedis` is best effort and may
be lost; `allowRequest` is evaluated at the step of the Redis call it guards; the
lock value of process id and milliseconds is taken to be unique.

### Dashboard

`stored` are the rows in Postgres, `shown` those on the screen of each tab, `ops`
the handlers in flight: a handler is a sequence of `apiFetch` calls (`Handler`,
`Call`, `Load`), and what it does to the list happens when an answer arrives
(`AnswerOk`, `AnswerFailed`, `After`).  `Offered` lists what a page lets the user
do; `MayStart` keeps out what a disabled button keeps out.  `Send` and
`LoginRequired` are `apiFetch` up to the request and its missing token,
`Redirect` and `RedirectFails` the recovery of the login; `Count`, `Add`,
`NextLimiter` are the limiters on the way; `Route` tabulates what the gateway's
routes do to rows, `ServeLoad`, `ServeChange` and `ServeImport` run it; `Stream`,
`ImportRefused` and `Reset` are the bulk import dialog.

An import that has reached its rows never finishes in the dialog: before the last
event `devicesImport.ts` updates `failed_rows`, a column `bulk_import_jobs` does
not have, outside any try block, and the rejection ends the process.  `Stream` has
that break without a fault; a break before the first row is one.

The `_csrf` cookie is never set, so `/health` is asked before each changing call
and the retry branch for a rejected token never runs.  The SSO page's row and
Auth0's listing are read in one step, and connecting or disabling is one step
here, as `Tenancy` has those calls one by one.  The scenarios with the limiter use
pages that load with one request.

## 3. Runs

| Run | Distinct states | Shows |
|---|---|---|
| `SagaFailures` | 1.8 million | one failure anywhere plus a recovery round: a saga that FAILED without an error has removed its device (`CompensatedIsGone`); outcomes are the asset-registry's word (`OutcomeWasDecided`) |
| `SagaQuota` | 560 thousand | two devices, whose answers are on different partitions, compete for one place: `QuotaRespected`, `DeletedWasRefused`; a saga completed without failure or recovery left its device registered (`CompletedIsRegistered`); every registered device gets a saga and a refused one is deleted (`ProvisioningSettles`) |
| `SagaStuck` (violated) | | ADR-003 line 58, `EverySagaEnds`: a saga left STARTED by a restart is never retried |
| `Outbox` | 110 thousand | with one lost write: copies of an event are bounded by the failures (`DuplicatesNeedFailure`); the outbox refines `AtLeastOnce` (`ImplementsAtLeastOnce`); every recorded event is published in the end, and is in Kafka unless its write was lost there (`EventuallySent`) |
| `Projection` | 170 thousand | the row is the newest processed reading (`LatestIsNewest`); losses need one of four named faults (`LossNeedsFault`); dead letters need a failure or a repeated reading (`DeadLettersNeedCause`); every reading is handled unless the breaker tripped (`EveryReadingHandled`); in the end Redis has no pointer to an old version, whatever failed and in whatever order two workers wrote (`PointersSettle`) |
| `ProjectionLoss` (violated) | | ADR-007 line 33, `CommittedWasHandled`: with two workers a commit covers what the other still holds, and a crash loses it |
| `Alerts` | 90 thousand | `TypeOK`; no accepted job vanishes (`NothingLost`); copies of a job are bounded by its causes and the faults (`DuplicatesNeedFault`); alerts of a device keep the cool-down (`AlertsSpaced`); `QueuesDrain` |
| `Billing` | 280 thousand | twelve scenarios: `TypeOK`; no member, invite, key or billing row comes back after the tenant is erased, and without overlap or a failing quota check no device (`NothingOutlivesTenant`); requests that do not overlap use an invite once (`InvitesUsedOnce`) and, without a fault, leave the organization and connection recorded that Auth0 has (`SsoRecordMatches`); each Stripe event is applied once, never vanishes and is given up only after all attempts (`EventsHandledOnce`); one worker leaves enabled the devices that the gateway's own rule admits (`DevicesMatchPlan`) and, when the last event it applied is the last that Stripe sent, leaves Stripe's status and the plan bought at checkout, also after a switch of the price (`LastEventDecides`); overshoot of the quota is bounded by the requests that raced (`OvershootBounded`); where members leave one at a time, the last admin's deletion and no other erases the tenant (`LastAdminDecides`); queued events settle (`EventsSettle`) |
| `BillingDelivery` (violated) | | README line 336, `EventsReachWorker`: gateway and worker declare the Stripe queue differently, so the webhook is refused |
| `ReadPath` | 70 thousand | seventeen scenarios: `TypeOK`; a lock belongs to the request it was given to while none outlives its time, and is given back (`LocksSound`); it excludes nobody from reading, since losers read as well; an empty answer needs a rival or a fault (`EmptyNeedsRival`); caches catch up (`FreshInTheEnd`); `CircuitCloses`; every request is answered (`ReadsEnd`) |
| `ReadSelfLock` (violated) | | `resolvers.ts` line 33, `NeverWaitsForItself`: `allTelemetry` waits for a lock it holds itself |
| `Dashboard` | 260 thousand | nineteen scenarios: `TypeOK`; a page at rest shows what is stored (`PageShowsStored`) unless its handlers raced, an answer was lost or another tab changed a row since; an upload is refused only because of other requests of its minute (`LoneImportAdmitted`); a spinner has a request behind it or a failed redirect (`SpinnerExplained`); every handler ends (`HandlersEnd`) |

What a document claims and the code keeps only under a condition is stated with
that condition and passes: `CompletedIsRegistered` (ADR-003 line 59),
`EventuallySent` and `MarkedWasSent` (ADR-002 line 60, "Zero event loss under any
failure condition": a lost write is the exception), `DeadLettersNeedCause` (ADR-007
line 30), `CacheFollows` (`openapi.yaml` line 117, by proof), `LastAdminDecides`.

What section 4 proves for every value of the constants and no scenario makes
more interesting is left to the proof: the type invariants of the saga, the
outbox and the projection, `AnswersHaveSaga`, `RowInOneTransaction`,
`MarkedWasSent`, `CacheNotAhead` and `BreakerCountsAllErrors`.

Bounds.  One device reaches every interleaving of the handlers of one saga with
retries, recovery and restarts; two are needed only where they share the plan's
limit.  Two messages in flight suffice for one handler to overtake another, two
attempts for a retry after a failure (the code has three).  For the outbox, two
workers and a batch of two over three rows give full, partial and competing
batches, and one lost write leaves rows beside it that are not lost.  For the projection, two readings of one device in either order and
three messages give duplicates within a batch and across batches, two workers
give every order of their transactions, cache writes and commits, and three
fetch errors with a threshold of two take the breaker through all its states.
For alerts, four events (a score, a worse one, a repetition, a safe one), two
attempts and one fault meet every branch of each handler.  For billing, two users
are enough for any race of two requests, two workers for any of two events; the
limits of one and two devices put both sides of the quota within three rows.  For
the read path, two readers on two pods and thresholds of two show every
hand-over of a lock and every state of a breaker.  For the dashboard, two clicks
give every overlap of two handlers; limits are the real 1000 and 10, since one
upload passes seven limiters.

`CHECK_DEADLOCK FALSE` (all runs but `ReadPath` and `ReadSelfLock`): when the
bounded requests are used up and every queue is empty, the system really has
nothing to do.  In `ReadPath` clients ask without end, so a deadlock would be a
stuck reader and is checked.

Fairness is weak fairness of each process's next step.  Saga, outbox and
projection: consumers and the asset-registry loop without end, tickers drive the
recovery and outbox workers, a stopped process is started again; Redis drops a
pointer that nobody renews.  Alerts: the
Kafka consumer polls, RabbitMQ pushes to an open channel, a stopped worker is
restarted.  Billing: an await ends, Kubernetes restarts a worker, and in
`BillingDelivery` Stripe repeats an event that was not accepted.  Read path:
clients keep asking, entries with a time to live expire, cool-downs end.
Dashboard: a request ends, and a redirect that was begun happens unless it fails.
Nothing is assumed of users, and failures are never required.  The liveness of
the saga is checked without recovery rounds; their safety is in `SagaFailures`.
`EveryReadingHandled` excepts a breaker that has left "closed": once it has
opened, been half-open and fallen silent, the code itself fetches no more.

## 4. Proofs

Every theorem is about all values of the constants that satisfy the named
assumptions, and about every scenario in `Budgets`: any number of requests,
faults, crashes and repetitions.

`ProvisionSaga_proofs` proves `Spec => []SagaInv` for any devices, partitions,
pool size and limit, and from it five safety properties.  None of these is
inductive alone.  `AnswersHaveSaga` needs to know that whoever holds a message or
command past its lookup has a saga (`JobsInv`, `CommandsInv`, `StuckInv`), also a
recovery round that works from old rows; `CompensatedIsGone` needs that
`tenant_detached_v1`, published or about to be, is only said of a device that is
gone for good (`EventsInv`); `DeletedWasRefused` needs every detach command on its
way to belong to a refused device; `QuotaRespected` needs a grant to count from
the moment it is decided, before it is published (`QuotaInv`).  The argument is
that the log only grows, so what was once said stays said.

`CompletedIsRegistered` is about a provisioning without failures, and needs
another argument: that the asset-registry decides about a device only once.
`ChainInv` says that a device has at most one token.  A token is whatever will
lead to the decision about its quota or is that decision: a message of the log
that is still to be handled, a handler before its publish, a command on its way,
the registry's command in hand, or a published decision.  Each step hands the
token on (`Handover`) or leaves it alone (`TokensSame`); that a message fetched
once is not fetched again is `FetchInv`.  Two decisions about one device would be
two tokens, so a device that was granted was not refused, and only refused ones
are deleted.

`Outbox_proofs` proves `Spec => []OutboxInv` and that the outbox implements
`AtLeastOnce`, for any number of lost writes.  `DuplicatesNeedFailure` becomes inductive
once an event that is not marked is known to have at most one copy per failure.

`TelemetryProjection_proofs` is for any readings, devices, workers, batch sizes,
attempts and threshold.

| Theorem | Strengthening, and why it is needed |
|---|---|
| `LogTheorem` | `LogInv`: offsets in the channel and in batches were fetched, and a worker past filling has a batch; without it the offset that is committed is undefined |
| `LatestTheorem` | `RowInv`.  The step is the upsert of a batch (`UpsertKeepsNewest`): a batch with new readings of a device has a newest one (`NewestExists`), because a finite set of places has no endless chain of later ones (`LastOfLatest`, from the well-foundedness of strict inclusion) |
| `CacheTheorem` | `CacheInv`: what a worker still has to write to Redis is a version the database has, and versions never go back (`UpsertVersion`) |
| `LossTheorem` | `LossInv`: every offset fetched is handled or in flight, and a batch past its transaction is handled.  A crash falls back to the committed offset, so a single worker also needs that it receives, holds and commits in the order of the topic (`InOrder`) |
| `DeadLetterTheorem` | `QuietInv`, while nothing failed: channel and batches hold each offset once and in order (`Ascending`), so a reading that is new at two places of a batch is at two places of the topic (`RepeatsIsRepetition`) |
| `CacheFollowsTheorem` | `QuietInv`, with one worker: what it still has to write is all that keeps Redis from having the row's version or none (`OnlyDue`) |
| `BreakerTheorem` | `BreakerInv`: no step but a restart lowers the count |
| `TypeTheorem` | `RestInv`: a batch that is being attempted has attempts left; with `LogInv`, `CacheInv` and `BreakerInv` it gives `TypeOK` |

`ReadPath_proofs` proves `Spec => [](BffInv /\ GatewayInv)` for any readers,
callers, pods and thresholds, and from it `TypeOK`, `LocksSound` and
`EmptyNeedsRival`.  `ReadersInv` says which locks a request holds at each point of
its way (`Control`); with `LockInv`, that as long as no lock expired early Redis
has each held lock for its holder and nobody holds two, it gives the exclusion.
An empty answer may come from a cache, so `EmptyNeedsRival` needs that an empty
list is cached only under the two keys of lists and for the same reason
(`CacheInv`).  For the gateway, an owner that is not late is the one Redis names,
and without a fault whoever Redis names is on its way to unlock.

`AlertJobs_proofs` is for any topic, recipients, finite set of endpoints, retries
and windows.  `FlowTheorem` and `JobTheorem` prove the invariants of
workflow-alerts and of the jobs-worker.

| Part | What it says, and which theorem needs it |
|---|---|
| `FlowInv` | the two maps are not older than any alert of this run, and what `eachMessage` read in them still holds when its await is over, since time only helps (`AlertsSpacedTheorem`) |
| `QueueInv`, `DataInv` | the broker holds exactly the message a handler is at work on while the channel is open, and a handler that will send a copy has a retry left (`AlertTypes`) |
| `LossInv` | a handler that goes on to acknowledge its message has finished the job or left a copy of it; an alert under way has an email, sent or unwanted, for each recipient it is past (`NothingLostTheorem`) |

`Billing_proofs` proves `Spec => []BillingInv` for any users, invites, keys,
workers, subscriptions and limits.  `TenancyInv` is its part about the routes of
`Tenancy`, which the steps of `Billing` leave alone or extend.

| Part | What it says, and which theorem needs it |
|---|---|
| `RowShapes`, `ReqShapes` | the types of rows, and of a request at each of its awaits; while requests do not overlap there is at most one |
| `Unregistered`, `Erased` | before the registration and after the erasure there are no members, open invites or keys (`NothingOutlivesTenantTheorem`) |
| `InviteInv` | what a request has checked of the invites holds until it writes, as long as requests do not overlap (`InvitesUsedOnceTheorem`) |
| `LeaveInv` | the number of admins that an account deletion has read is still theirs (`LastAdminDecidesTheorem`) |
| `SsoInv` | the tenants row and Auth0 differ only by what the request under way has done and not yet saved (`SsoRecordMatchesTheorem`) |
| `ShopReq`, `StripeInv`, `RowsInv` | requests, sessions, events and the billing row name customers and subscriptions that exist (`BillingTypes`) |
| `QueueInv` | every message is about an event and has one retry per fault, unless the plan it activates is of an erased tenant; an event that was queued is in the queue, in hand, logged or dead (`EventsHandledOnceTheorem`) |
| `LogInv` | only one worker at a time is between reading an event as new and its email: the row lock on `stripe_events` (`EventsHandledOnceTheorem`) |
| `PlanInv` | the context a lone worker has read is still what the rows say, so that the limit it computes is the gateway's (`DevicesMatchPlanTheorem`) |
| `DeviceInv` | an erasure that overlapped with nothing deletes all devices (`NothingOutlivesTenantTheorem`) |

Assumptions, each stated where the constants are declared and evaluated by TLC in
the runs: `Devices`, `Events` and `Users` finite, finitely many workers in a
scenario; `PartitionOf`, `DeviceOf`, `RecordedAt` and `PodOf` functions, bounds
natural numbers, sizes and thresholds positive; a consumer group that has
committed offset 0 or none at first; `Free` and `Nobody` are no readers; a team
that has members has an admin and users outside it have other tenants' tokens;
limits are natural numbers or -1 for unlimited, and what has a price has a limit;
finitely many endpoints, at least one attempt per queue, and what other
publishers put in a queue is an export or cannot be read.

Only model-checked:

- all liveness properties, which are beyond the prover;
- `LastEventDecides`, which compares the plan with the last event of a
  subscription: its strengthening has to say, for every prefix of the log, which
  event the billing row was last written by;
- `OvershootBounded`, whose strengthening sums over the requests in flight the rows
  each may still add, and `DuplicatesNeedFault`, whose one counts the copies of a
  job: that a step changes such a sum by one term needs induction over a finite
  set;
- `Dashboard`, whose limiters are bags of requests and whose handlers are
  sequences of calls: proofs over bags are slow beyond use with this prover, and
  `PageShowsStored` needs what each handler in flight will still do to the list.

## 5. Not modelled

- cdc-transformer, cassandra-writer and dlq-reprocessor are consumers of one
  loop: fetch, write, commit.  How such a loop loses messages is what
  `TelemetryProjection` shows with more around it.  In all three a commit can
  cover a message before it whose write failed or still waits for its flush.
- ingest-service: caches of keys and devices whose only question is for how many
  seconds an entry may be stale, which needs real time.
- risk-engine: a scoring function without state, whose specification would be its
  own definition.
- search-indexer, Elasticsearch and the bff's search: documents are indexed one by
  one with auto-commit, and nothing reads them back into other state.
- The projection of devices: the same consumer with one message per transaction.
- GraphQL subscriptions and the telemetry watcher forward notifications; no later
  request reads what they hold.
- Other gateway routes read only; the audit log is append-only; the webhook test
  route leaves no row.  `csrf.ts`, `apiKey.ts` and `middleware/planEnforcement.ts`
  are mounted nowhere; API versioning, validation and the development login keep
  no state.  Auth0's own invitation e-mails are Auth0's.
- Other dashboard pages make one call or show Apollo's cache, whose state is the
  library's.
- Logging, tracing, metrics, health endpoints, deployment manifests, load
  generators and tools.  The leader election of ADR-006 and ADR-010 has no code.
