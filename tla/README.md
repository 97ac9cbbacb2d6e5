# ExportKit: specifications, model checks and proofs

ExportKit is an export service: an Express API and a dashboard accept export
requests, BullMQ workers turn them into files in object storage, Postgres
(through Prisma) keeps what customers see, and the customer is told by email and
webhook. This directory holds TLA+ models of it, TLC configurations that check
them on small instances, and TLAPS proofs of its concurrent core.

Paths below are relative to the repository (`src/queue/events.ts` is the file
`src/queue/events.ts` of the backend). Several services are published as stubs
("See private repository for implementation"); where a model needs one, it uses
the contract that its comment, its callers and its tests state, and the map in
`PROJECT.json` marks the definition as external.

## Inventory

| Component | Keeps | Operations | Hard because |
|---|---|---|---|
| Job producers (`services/job-service.ts`, `queue/workers/schedule.ts`) | nothing; write BullMQ and Postgres | `createJob`, `processSchedule`: add to the queue, then create the row | two stores, no transaction |
| Export worker (`queue/workers.ts`) | BullMQ job state, lock, attempts | `processExportJob`, `stopWorker` | retries, crashes, stalled jobs, two processes |
| Queue-event listener (`queue/events.ts`) | row status, result, progress, expiry; usage, deliveries, emails | handlers of `completed`, `failed`, `progress` | a listener per process, each handling every event; a chain of awaits, each of which may fail; events missed while disconnected |
| Process shutdown (`index.ts`, `worker.ts`, `lib/graceful-shutdown.ts`) | stage of the process | cleanup in order, force timer, second signal | order of closing against work in flight |
| Webhook delivery (`services/webhook-service.ts`) | delivery row, and two columns of the customer's row as the breaker | `isCircuitOpen`, `recordSuccess`, `recordFailure`, `deliverWebhook` (stub) | ten concurrent deliveries share counters that are read and reset in separate calls |
| Notification worker (`queue/workers/notification.ts`) | nothing of its own; BullMQ's attempts | `processNotificationJob` | consent read when the job runs, retries, a worker that dies after sending |
| Scheduled exports (`queue/workers/schedule.ts`, `services/schedule-service.ts`) | `nextRunAt`, `lastRunAt` | `getDueSchedules` (stub), `processSchedule`, `markScheduleRun` | failure between creating the job and advancing the schedule; two workers; edits in between |
| Retention cleanup (`queue/workers/retention-cleanup.ts`, `lib/r2/lifecycle.ts`) | deletes rows of six tables; a rule of the bucket deletes files | `runRetentionCleanup` | rows change between two calls; one part fails; rows no filter ever matches |
| Runaway-client breaker (`lib/circuit-breaker/*`, `middleware/circuit-breaker.ts`) | a Redis counter per client and payload | `incrementAndCheck` | `INCR` and `EXPIRE` are two calls |
| Usage alerts and caps (`services/usage-service.ts`) | usage and alert rows | `checkUsageCap`, `recordJobUsage` (stub), `checkAndSendAlerts` | check then act; row written before the email is queued |
| Billing (`services/billing-service.ts`) | subscription row | Stripe event handlers, `calculateOverage` | events repeated, out of order and at once |
| Account deletion (`services/account-deletion-service.ts`) | the customer's rows and files | `deleteAccount` (stub), `deleteCustomerR2Objects`, `anonymizeAuditLogs` | exports in flight, a crash half-way, a listing in pages |
| Operational alerts (`services/alert-service.ts`) | in-memory windows, cooldowns | `recordApiRequest`, `checkAlerts` (stubs) | sliding windows in one process |
| Request chain (`api/server.ts`, `api/middleware/*`, routes) | Redis windows, API keys, `req.apiKey` | limiters, `authenticateApiKey`, `requireScope`, `requireTeamRole`, breaker, handlers (stubs), error handler | order of the gates, Redis failure, a key revoked meanwhile, a promise nobody catches |
| Cursor and streams (`lib/cursors`, `lib/streams`), pagination | position in a table, text written, buffers | `createPrismaCursor` and its variant with progress, the JSON and CSV formatters, `listApiKeys` | rows deleted or added while paging; failure half-way; back pressure |
| React hook (`packages/react`) | status, progress, abort flag | `exportData`, `pollJobStatus`, `cancel` | callbacks after cancel, two calls at once |
| MCP server (`packages/mcp-server`) | none | `create_export`, `get_job_status`, `list_jobs`, `download_export` | an answer lost after the request was obeyed; calls side by side |
| Storage, audit, consent, branding, signup, health, templates, dashboard | little or none in this repository | I/O, wording, or stubs | not modelled; see the end |

Interaction: producers add to `export-queue` and write the row; workers fetch
from it, update the row and upload; BullMQ publishes the outcome on an event
stream that the listeners of both processes read; listeners write the row, the
usage record and the delivery row and add to the email, webhook and notification
queues, which further workers drain. Scheduled jobs (due schedules, retention)
are repeatable BullMQ jobs. The request chain stands before every producer; the
usage service is called by the completed handler and before an export; the
retention cleanup and the account deletion remove what the others have written;
the React hook and the MCP server are clients of the API.

The hazards this gives are listed, with their lines and the properties that
cover them, under `hazards` in `PROJECT.json`.

## Plan

| # | Module | Question | State |
|---|---|---|---|
| 1 | ExportJobs, JobLifecycle | from producer to notification; the abstract life of a job | done, proved |
| 2 | WebhookDelivery | deliveries against the customer's circuit breaker | done, proved |
| 3 | RunawayBreaker | the Redis counter of identical requests | done, proved |
| 4 | ScheduleChecker | due schedules, queueing, `markScheduleRun`, edits | done, proved |
| 5 | UseExport | the React hook with polling, cancelling and late answers | done, proved |
| 6 | ApiGateway | rate limits, the order of the gates, revoked keys, rejections nobody catches, shutdown | done, proved |
| 7 | TableReaders | exports and list walks over a table that changes | done, proved |
| 8 | UsageBilling | Stripe's events, caps, usage and its alerts | done, proved |
| 9 | DataRemoval | cleanup, bucket rule and account deletion against exports; the email worker | done, proved |
| 10 | McpTools | tools against an API that loses answers | done, proved |
| 11 | JobProgress | the progress column against completion | left out: the column is only shown |
| 12 | GracefulShutdown | the force timer and the second signal | left out: a forced exit is a crash of ExportJobs, at every stage |
| 13 | AlertMonitor | sliding windows, cooldowns | left out: the functions are stubs |

Each module has one passing run that asks all its questions at once. Every safety
property of a passing run, invariant or action property, is also a theorem; what
the runs alone show is liveness. Where a property has an exception, the exception is
something the code really does: the formula names it, the comment above it says what
then happens, and the hazard it belongs to says in `PROJECT.json` that it is not covered.
Compositions worth having: ExportJobs with WebhookDelivery (a queued hook is
delivered or given up), ScheduleChecker with ExportJobs (one run per due date).

## ExportJobs

One element of `Jobs` is a BullMQ job; `Procs` are the processes, `Apis` those
that are API servers. A step is the code between two awaits, so every
interleaving of producers, runs and handlers is there.

| Variables | Stand for |
|---|---|
| `producer` | where `createJob` / `processSchedule` is: the queue first, the row second |
| `bull`, `made`, `stalled`, `started`, `lock` | BullMQ's state of the job (external): state, attemptsMade, stalled count, and which run holds the lock |
| `runs` | calls of `processExportJob`, before (`picked`) and after (`exporting`) the first update |
| `stage`, `exits` | a process's life: `up`; an API server shutting down is `deaf` (listener closed), a worker `draining`; `closing`; `down` |
| `row`, `attempts`, `completedAt`, `expires`, `usage` | the columns of the job's row and its usage record |
| `handler`, `heard`, `seen` | which await each process's handler of the job's final event is at, which event it was given, and the `attemptsMade` the failed handler read |
| `emails`, `deliveries`, `hooks`, `warnings` | what has been put on the other queues, and the delivery rows |

Actions follow the code: `Enqueue`, `CreateRow`, `CreateRowLost` (producers);
`PickUp`, `StartRun`, `FinishRun`, `RunThrows` (`processExportJob`);
`LockExpired` in its two cases `RecoverDead` and `StallAlive` (BullMQ's stalled
check); `MarkCompleted`, `SetJobExpiration`, `ScheduleWarning`,
`RecordJobUsage`, `QueueEmail`, `CreateDelivery`, `EnqueueHook` (completed
handler); `ReadAttempts`, `IncrementAttempts` and the same last three (failed
handler); `HandlerThrows`, `StepSkipped` (what each `try` block catches);
`BeginShutdown`, `CloseRest`, `Exit`, `Crash`, `Restart`.

`Faults` selects what may go wrong, so that each run names what its property
depends on. Without `"stall"` no live run loses its lock.

BullMQ is modelled from how the code uses it: a result is taken only from the
holder of the lock; a failed attempt is queued again until `MaxAttempts`; only a
final failure is published; a listener that is not connected misses the event
(it reads from the end of the stream). Backoff delays, priorities and the
concurrency of 5 only order or delay steps and are left out.

The two listeners (`src/worker.ts:25`, `src/api/server.ts:246`) each handle every event.
`BilledOnce` says that the export is billed once; each listener sends an email and a
webhook of its own, so the customer may hear of one job twice, and
`NoticesMatchOutcome` says only that what is told is true. A process that dies, or a
queue that throws, between `CreateDelivery` and `EnqueueHook` (`events.ts:254`, `:262`)
leaves a delivery row that nothing takes up. A run that lost its lock marks the row
PROCESSING without looking at it (`workers.ts:49`) and can overwrite COMPLETED: that is
why run `live` and the refinement are for `"stall" \notin Faults`.

`OutcomeReported` is that a completion and a final failure are told. For failures
it leaves out what the code leaves out: an export that BullMQ gives up after
stalls, or whose attempts found no row, has a smaller count in the row than the
three the handler asks for (`events.ts:370`) and is reported to nobody. For
completions it leaves out exports during which a process stopped: the API server
closes its listener before its worker (`src/index.ts:93`), so what that worker
completes in between is heard only by another process's listener, if there is one.

**Abstract specification.** `JobLifecycle` is what an API client may rely on:
QUEUED, PROCESSING, COMPLETED in that order, an outcome decided once, and a
customer who is told of the outcome only, of completion only when the row shows
it. ExportJobs implements it with `status` the row, `outcome` BullMQ's final
state and `told` the notices sent.

## WebhookDelivery

The deliveries of one customer. `Slots` is the concurrency of `webhookWorker`
over all processes; the breaker is `failCount` and `sinceOk`
(`webhookFailCount` and the age of `webhookLastSuccess`). `isCircuitOpen` is
`CheckCircuit`, `Pause`, `ResetCircuit` and `ResetThrows`: the reset after the
cooldown is a write of its own, so other deliveries can come between check,
reset and post. `recordSuccess` / `recordFailure` are the two updates of one
`Promise.all`, in either order (`UpdateRow`, `UpdateCustomer`), each of which
may throw (`UpdateThrows`). `EndAttempt` and `AttemptThrows` are the worker's
return and throw, `Lose` a process that dies, `DeleteCustomer` the deletion of
the account. The body of `deliverWebhook` is a stub: `Post` and the order of the
calls follow its comment. 4xx, 5xx and network errors are one answer, because
every error is retried.

What it shows: ten deliveries read the count before any of them raises it, so
more posts than the threshold go to a failing endpoint, but never more than
`Slots - 1` more (`OvershootBounded`); and however resets and updates interleave,
the breaker is open only after a full row of failures (`OpensForCause`). A reset that
is written late wipes out failures counted since the check, so that the breaker opens
later than it might; nothing forbids that.
`DeliveredIsFinal` has two exceptions that the code really has: a process that
dies, or an update that throws, after the endpoint accepted the post; the
delivery is then made again and may end FAILED.

Not run, but read in the code and in the model: the cooldown is measured from the
last success (`CircuitOpen`), so after ten failures of an endpoint that last
succeeded 30 minutes ago, or never, the breaker does not stay open at all, while
`src/services/webhook-service.ts:104-105` says it "remains open for 30 minutes";
and `NonRetryableWebhookError` (line 41: "will not trigger a retry") extends
`Error`, not BullMQ's `UnrecoverableError`, and is retried.

## RunawayBreaker

One key, `circuit:<api key>:<payload hash>`: `count` and `ttl` are Redis's,
`counted`, `maker` and `resent` are histories. `CountUp` and `SetLimit` are INCR and
EXPIRE as Redis executes them, `Incr` and `Expire` the same with their answers in
`incrementAndCheck`, `FailOpen` the catch block of the middleware, `LoseAnswer`
either command executed, its answer lost with the connection, and the command still to
be sent again by ioredis (`connection.ts:24-27`), once per request and command;
`Outage` Redis going away and coming back, `Crash` a process that dies. `KeyTick` lets
the window pass and removes the key.

What it shows: no key lets more than the threshold through, whatever overlaps, is lost
or is repeated; a request is refused only for cause as long as none of those counted
was counted twice; the window is fixed by the first request (`LimitOnlyShrinks`), as
long as no EXPIRE is executed twice, because a second one begins the window anew; and
it ends (`WindowEnds`), unless the request that made the key was not told that it was
the first (its INCR was repeated) or ended between its two commands (`counter.ts:42`):
then nobody sets a limit and the key never goes away. No other request, fault or
interleaving keeps a key for ever.

Read in the code and not run: the middleware "fails open on Redis errors"
(`src/api/middleware/circuit-breaker.ts:14-15`), but it uses the BullMQ
connection, made with `maxRetriesPerRequest: null`, on which commands wait for
Redis instead of failing.

## ScheduleChecker

`now` counts intervals of the repeatable job `check-due-schedules`; `waiting` is
whether one waits. `Check` is the schedule worker reading the due schedules;
`QueueExport`, `CreateRow`, `ReadCron`, `WriteNextRun` are the awaits of
`processSchedule` and `markScheduleRun`; `SkipSchedule` and `ScheduleThrows` are
its catch block before and after the export was queued; `Crash` is a process
that dies, whose job BullMQ queues again. `UpdateCron`, `Toggle`,
`DeleteSchedule` are the customers, who make at most `MaxEdits` edits. A cron
expression is a period; the next date is counted from `ranAt`, the time at which
`markScheduleRun` was called, which may be earlier than the read of the expression. With `"slow"` in `Faults` a check may last longer than the
interval; `shared` remembers the schedules that two workers have had at once.

What it shows: the queue is written first and `nextRunAt` three awaits later, so
"once per date" is not unconditional. `AgainOnlyIfCut` says exactly when a date is
run twice: its processing was cut short after the export was queued, or two
checks had the schedule at the same time. It is proved with every fault. The second
cause needs no error: every process that imports `workers.ts` has a schedule
worker with a concurrency of 1 of its own, and BullMQ schedules the next check when
the last is taken (`schedule.ts:135`); without `"slow"` there is one check at a time
(`OneCheckAtATime`).

Read and not run: `markScheduleRun` reads `cronExpr` and writes `nextRunAt` in two
calls; an edit in between is overwritten with a date of the old expression, which
`src/services/schedule-service.ts:154` does not expect. A schedule paused or
deleted after the due ones were read is still run.

## UseExport

`pc` is where each call of `exportData` is: awaiting `create`, `poll` or
`download`, asleep on the timer, `stuck` (its timer was cleared, so nothing will
wake it), `resolved` or `rejected`. All calls share `controller`
(`abortControllerRef`), `timer` (`pollingTimeoutRef`) and the state. `Start` is
`exportData` up to its first await, `Reject` the catch and finally blocks,
`Cancel` and `Unmount` what the component does, `JobStep` the server, of which
nothing says that it ends a job. `stale` are the calls whose closure holds the status
FAILED. `Uses` selects what the component does.

`InProgressShown` and `OutcomeIsOfLast` (error, link and status) hold for calls that
overlap, are cancelled or superseded, until an earlier call writes to the state after
a later one was made (`intruded`), and hold again from the next call on. What is shown
in between is wrong: the catch block (`useExport.ts:158`) and the finally block
(line 165) do not ask whose state they reset, so the late rejection of the earlier
call clears the flag, and drops the abort controller, of the later one.
`RejectionShown` (a rejected call shows FAILED) has one exception more: the catch
block compares with the status that the render saw in which the call was made (line
159), so a call that is made from a render showing FAILED and fails again leaves what
it had set, QUEUED or a later status, on the screen.

`EveryCallSettles` is about calls whose job has ended, or that were aborted, or whose
component is gone: they return or throw, but for one kind, a call whose timer was
cleared while it slept, by `cancel()` (line 70) or by another call, which stays `stuck`.
Of a call whose job never ends nothing is said, and there are such jobs: the row of an
export that has failed for good stays PROCESSING (`failed_status`), so that the hook
polls for ever.

## ApiGateway

`Requests` go from `new` through `sustained`, `burst`, `auth`, `gate` and `handler` to
an `answer`; `RouteTable` has, per route, its limiters' tier, gate, method, status of
success, and whether its handler is wrapped. `hits` are the limiters' counters in
Redis (external: the library's fixed windows), `log` what they counted, when, and what
was told. The two limiters of a pair are two steps (`Limits`), each with a Redis
command of its own, so that others, a tick or a shutdown come between; `Unheard` is a
command that Redis ran and whose answer was lost: the connection sends it again, and
the request counts twice, or it is closed and the request fails; `LimiterFails` is a
command that Redis rejects. `Authenticate`, `Gate` (scope, team role, runaway breaker
or none) and `Handle` follow. The bodies of the handlers are not in the repository:
one succeeds, and DELETE /keys/:id then has revoked the key, or its promise rejects.
`asyncHandler` (`keys.ts:111`) passes a rejection on to the error handler; the handlers
of jobs, team and auth are async functions without it, and so is `requireTeamRole`: in
Express 4 nobody catches those promises (`Unhandled`), the request is left hanging, and
the process's handler of unhandled rejections starts the shutdown, which `StopServer`
ends by cutting connections. What a handler may refuse is left out, and so no property
speaks of the statuses that the annotations list.

What it shows. `LimitsKept`: fixed windows let at most twice the limit through in any
span, and a refusal has its cause within the window, among requests of the same
address that were let through or counted unheard; the address, because the limiters run
before authentication (`rate-limit.ts:87` asks for `req.apiKey`, which is not set yet).
`BurstOnlyAfterDelay`: `rate-limit.ts:97` has the burst limiter prevent short spikes of
clients, but the limiter before it has half its limit and a longer window, so that a
burst is refused only if the commands of requests that the sustained limiter passed
earlier were delayed and came together, or were executed twice. `RevokedStaysOut`: a
request that comes with a key revoked before is answered by the limiters or with 401
or an error, whatever is under way; one that came before the revocation may be served
after it. `EveryRequestEnds`: every request is answered or cut by the shutdown.

## TableReaders

A row is its place in the order: `in` the query's result, `out` of it, or `absent`.
An export is a generator (`Fetch`, `Yield`, `Resume`, `Final`: the two cursors of
`prisma-cursor.ts`), a bounded `flow` and a formatter (`WriteRow`, `Flush`, `Close`);
`FailExport` may end it anywhere, also while `flush` awaits the last report, when the
closing bracket is pushed already (`json-array-stream.ts:178-191`). A walk asks for one page after another
(`FindPage`, `CountPage`: two queries of one `Promise.all`; `RespondPage`).
`Create` and `Remove` are the others, between any two steps.

What it shows (`ExportSound`): no row twice and none out of order, and progress
that only rises, to the number of rows; every row that matched all along is in the
export if the rows it paused at still matched. That condition is real and the
model shows both ways it fails: when the cursor's row was deleted the next batch
is empty and the export ends early as if complete; when it merely ceased to match,
`skip: 1` skips another row. The text of a JSON export that is closed is one array of
all its rows, and that of one that failed is broken off or the whole array, never a
shorter one (`WellFormedJson`), with and without progress. `WalkSound`: the walk misses a key only if one
was removed or made between the two queries of one page, and repeats one only if
one was created. Every export and every walk ends, through back pressure and changes of
the table, because a batch that is not full is the last (`ReadingEnds`).

Read and not run: the CSV header is made of the first row's keys alone
(`csv-formatter.ts:113`), while `p3-csv-streaming.test.ts:7-12` states the property
for all rows; rows of one query have the same columns, pushed payloads need not.

## UsageBilling

`stripe` is Stripe's own subscription and `events` what it tells: a checkout, an
update, a deletion. `Deliver` is a delivery, of any event, in any order, up to
`MaxDeliveries` times; `HandleCheckout` is an upsert, the other handlers are
`FindRow` and `WriteRow`, with other events between them. An event is not begun
again while it is being handled. `order` remembers whether events came late,
twice or overlapped, and whether a checkout was `outdated` (handled after a later
checkout or deletion) or came `across` a deletion (between its query and its update).
An export of the API goes through `ReadPlan` and `CheckCap` (`checkUsageCap`), one of a
schedule does not (`QueueScheduled`: `processSchedule` asks for the plan's priority
only); both through `RecordUsage` and `RecordAgain` (a second listener, a completion
that is repeated), and `LookAtPlan`, `LookAtUsage`, `CreateAlert`, `QueueEmail`
(`checkAndSendAlerts`), any of which may fail (`AlertFails`). `NextMonth` begins a
billing period; it is read again by each call.

What it shows: in order, the row agrees with Stripe (`PaidAgrees`). However late,
repeated or overlapping the events were handled (`SubscriptionTracked`), the customer
ends up on a paid plan exactly while there is a subscription, and on that one, with
one exception that the code really has: a checkout that is `outdated` or `across`. The
upsert of a checkout asks nothing (`billing-service.ts:67-125`), so one that is
redelivered after its deletion gives back a plan nobody pays for, and one that comes
after a later checkout names the older subscription, whose deletion then ends the plan
of the newer; nothing corrects either. Usage counts once; the free limit is exceeded
by no more than what the API had in flight at one time and what schedules exported in
the month (`UsageBounded`), although `usage-service.ts:36` calls free customers
"hard-capped at 100%": for scheduled exports there is no cap, also after a
downgrade. An alert is sent at most once, and at least once if no check failed
(`AlertedOnce`): one that fails after its row was created is lost, since the row keeps
the next check from sending it. The overage is the least number of increments that
covers the rows above the limit.
A usage record is the pair of an export and the month it is counted in: the
record's unique `jobId` is `Fresh`, and what a month has used is `Rows` for each of
its records (`CountedOnce`, a part of `UsageBounded`).

Read and not run: `checkUsageCap` gives a customer without a subscription 10,000
rows (`usage-service.ts:52`), the seeded FREE plan 100,000; paid plans are never
capped (line 67) although `seed-plans.ts:25` and `:39` note "No overage — hard
cap" of both; the handler of `subscription.updated` never writes `planId`
(`billing-service.ts:141-150`) although its comment (line 128) names plan changes.

## DataRemoval

One customer with one API key, a few jobs with row, run and file, one row in each
table that goes by age. Time is in days. `Cleanup` is `runRetentionCleanup` part
by part (`FindKeys` and `DropKeys` are two calls), with `CleanupError` what each
part's catch block collects. `Lifecycle` is the bucket's rule. `Erase` is the
deletion of the account: `EraseRows` the transaction, `ListFiles` and `EraseFile`
the loop over pages, `EraseCrash` a server that stops between. `deleteAccount`'s
body is a stub: its order is what its tests observe. `MailStep` is
`processNotificationJob` (consent, sending, completion), `FailMail` a throw or a
worker that dies, also after it has sent.

What it shows: a part that fails keeps no other from running, and a key with a job
in progress keeps its row (`CleanupSound`); a file has its row and a link has its
file as long as the customer's days do not exceed the bucket's (`FilesMatchRows`);
an erased account's rows stay away (`ErasureHolds`), and its files go: at once if
nothing was under way, else by the bucket's rule in the end (`GoesInTheEnd`), also
after a crash. An email is sent, refused or given up, and a marketing one only
with consent while the customer is there.

Exceptions that the code really has, each one visible in a property's condition: an
export in flight when the account is deleted uploads a file that only the
bucket's rule removes; an answer of `DeleteObjects` that lists the file among its
errors is not looked at, and the deletion ends without an error; an audit entry
written after the answer names the customer. Failed jobs stay PROCESSING (see
`failed_status`), so neither they nor their key's row are ever purged, nor is a job
whose `fileExpiresAt` could not be set. Read and not run:
`configureRetentionPolicy` is called by nothing in this repository; seven days are
the bucket's rule whatever the customer's `retentionDays`; a marketing email is
sent if the customer's row is gone (`notification.ts:58`); Resend's SDK answers
`{data: null, error}` instead of throwing (`notification.ts:218`), so such a job
completes with nothing sent, while `email-delivery.test.ts:132-133` expects a
failed sending to be retried; usage alerts ask for `emailNotifications` when queued
and for `marketingEmails` when sent.

## McpTools

`ToolCalls` of one session, side by side (the SDK does not wait for one before the
next): `CallTool` parses the input, `Api` is the API's answer to the request,
`Lose` a connection that fails before or after the request was obeyed, `Receive`
what the tool makes of the answer. `Create` queues the export and then makes its row
(`job-service.ts:26-27`, `Queue`), so that a request that fails with a 500 may have
queued it, with or without a row. `ApiJobStep` lets jobs go on, as JobLifecycle says,
and their files go.

What it shows: a call queues at most one job; if its input was refused, by the server's
schema or with a 4xx of the API, it queued none; success names the job this call made
(`AnswersAreTrue`). An error that reports a 500 or a lost answer tells nothing: the
export may be under way, and an assistant that tries again makes a second one. An
answer is of the time of its call (`AnswerOfItsTime`).

Read and not run: the API answers a list as `{data, pagination}`, and the client
reads `jobs`, `total`, `offset`, `limit` (`client.ts:84-104`, `types.ts:68-73`),
so `list_jobs` answers with undefined fields where `tools.ts:79` formats jobs;
`create_export` offers `xlsx`, which the API's `createJobSchema`
(`api/routes/jobs.ts:155`) refuses, though `schemas.ts:4` says that the schemas
match.

## Runs

| Run | Instance | Shows | Size |
|---|---|---|---|
| `faults` | ExportJobs: one job, an API server and a worker process, three attempts, one stall, one exit, every fault and channel | the safety of what the customer is told, billed and shown | 1.1 M states |
| `live` | the same with failing runs, crashes and shutdowns, two exits, fair | JobLifecycle is implemented (so a COMPLETED row stays so), jobs settle, completions and failures are reported | 16 k |
| `webhook_faults` | two deliveries, two slots, two attempts, one stall, threshold 2, every fault, fair | overshoot, cause, finality, termination | 675 k |
| `runaway_faults` | three requests, threshold 2, window 2, every fault, fair | the threshold is kept, refusals have a cause, the window ends but for its maker | 64 k |
| `schedule_faults` | two processes, two schedules (one whose calls throw), periods 1 and 2, two ticks, one crash, one edit, slow checks, fair | a date is run again only if cut or shared; the other schedule is run | 1.06 M |
| `useexport_uses` | two calls, all uses, fair | the hook shows the last call and its failure until another writes; calls whose job has ended settle | 16 k |
| `gateway_requests` | three requests in five scenes, limits of one and two, windows of 2 ticks and 1, one lost answer, fair | limits, refusals, bursts, revoked keys, every request ends | 549 k |
| `readers_changes` | six ids, four rows at first, batches of two, three changes, each kind of reader, fair | order, completeness, well-formed text, progress, walks, termination | 140 k |
| `billing_usage` | four events; or three exports, one of a schedule; or two exports and an event; each event twice, two months | subscription against Stripe, usage counted once, cap, alerts, overage | 2.5 M |
| `removal_removal` | two jobs, four scenes of cleanup, deletion, exports, tables and emails, one error per cleanup, one object per page, two tries, fair | what goes, what stays, and that everything goes in the end | 78 k |
| `mcp_calls` | three calls, two jobs | one job per call, true answers, of their time | 1.44 M |
| `failed_status` | smallest instance that shows it | violated: see Findings | |

A property of a run is often the conjunction of named parts that a reader may want
one by one (`LimitsKept == SpanBound /\ RefusedForCause`); each part has a mutant
of its own in `PROJECT.json`. Every module has a type invariant (`TypeOK`, `BreakerTypeOK`, `McpTypeOK`). It is no
run's property: it is a theorem of each.
Likewise `CompletedIsFinal` and `LimitOnlyShrinks` are theorems only.

Why the bounds are enough to be of interest. ExportJobs: jobs share no state but
the processes, so one job with two listeners has every race between a job's
producer, runs and handlers; three attempts distinguish first, middle and last;
a second exit lets both processes be down together. WebhookDelivery: two slots
let two deliveries pass the check together at a count one below the threshold,
with two attempts each the threshold is crossed and reset again. RunawayBreaker:
three requests pass the threshold of 2, and six counts are possible when each
is executed twice. ScheduleChecker: a period of 1 is due at every tick, so a date
that was cut is checked again and new dates fall due. UseExport: the refs hold
one call each, so two calls have every pair of owner and intruder. ApiGateway:
three requests are one more than twice the limit of 1, and let a key be revoked
between two others; a request can arrive in each of two windows, and with a delay and
a lost answer the burst limit of 2 is passed. TableReaders: six
ids give three batches of two, so that there is a first, middle and last batch, a
full and a short one; three changes move a row out, another in, and the cursor's row
away. UsageBilling: four events are a purchase, its end, another purchase and an
update in every order and twice; three exports of 4 rows pass both thresholds of a
limit of 4 and overshoot it together. DataRemoval: ages are told apart up to one day
beyond the longest limit; two jobs on pages of one make the listing go on, with a job
on either side. McpTools: two calls overlap a third, and can name a job of another.
`CHECK_DEADLOCK FALSE` everywhere: all of these systems may come to rest, when every
job, delivery, request or call has ended and the bounds are used up.

## Fairness

Weak fairness of what a living process does next (fetch, go on with a run or a
handler, exit, restart under its supervisor, BullMQ's stalled check) and of timers
and the clock: Node's event loop and BullMQ's polling give each of them a turn.
Strong fairness of `Take` in WebhookDelivery (slots come and go; BullMQ's wait
list is first in, first out) and of Redis commands in RunawayBreaker (the
connection comes and goes; ioredis sends what waits when it is back). Strong
fairness in DataRemoval of `Day` and of the parts of the cleanup that must succeed
some day (`StartCleanup`, `FindKeys`, `DropKeys`, `PurgeJobs`): time does not stop
because a cleanup runs each day, and a part does not fail every day. ApiGateway
assumes that a request's next step and the shutdown come, TableReaders that the
reader goes on, UseExport that requests return or fail and timers fire, but not that a
job ends. UsageBilling and McpTools have no liveness property. Nothing is
assumed of faults, customers or the end of an outage.

## Findings

One run is expected to find a violation; its property is a sentence of the
repository.

- `failed_status`: the failed handler never sets FAILED (`events.ts:350` against
  the comment at line 348 and `queues.ts:106`): a job that has failed for good is
  shown as PROCESSING for ever.

The other disagreements between code and comments or tests that the models contain
are conditions of the properties that hold; they are described with the modules:
failures after stalls (ExportJobs), the order of the shutdown (ExportJobs), the
cooldown and the error that is not to be retried (WebhookDelivery), `INCR` without
`EXPIRE` and failing open (RunawayBreaker), overlapping checks (ScheduleChecker),
the stale status and the job that never ends (UseExport), the burst limiter that no
client's spike reaches (ApiGateway), the CSV header (TableReaders), the plan of a changed
subscription, the late checkout and the caps (UsageBilling), the emails that were not taken
(DataRemoval), the list and the formats (McpTools).

## Proofs

`tlapm` checks, for every value of the constants that the named assumptions
allow:

| Module | Theorems | Argument |
|---|---|---|
| ExportJobs_proofs | TypeCorrect; CompletedJobsHaveRows, NoticesTellTheOutcome, ReportedCompletionsAreRecorded, ExportsAreBilledOnce, QueuedHooksAreTracked | the properties are not inductive: `QueueInv` adds that a run past its first update has seen the row and that only active jobs are locked (so a final job stays final), `EventInv` that the place of a handler tells what was recorded. `IInv = QueueInv /\ EventInv /\ Safety` |
| ExportJobs_proofs, second part | CompletedStays; Refinement | for `"stall" \notin Faults`. `OneRunPerJob`: every run holds its job's lock; `RowFollowsRun`: the row follows that run. Each step is then a step of JobLifecycle or leaves its variables alone |
| WebhookDelivery_proofs | WebhookTypes, Overshoot, OpensOnlyForCause; DeliveredStaysDelivered | `Shape`, `SlotsKept` (active deliveries are at most the slots), `OvershootBounded` itself, and `CauseKnown` (the count never runs ahead of the row of failures). A post is let through only below the threshold, and then what is in flight is at most what is active. For `DeliveredIsFinal`, `ThrowsDoubted` and `DeliveredOnce`: a delivery whose update or process failed after the post is `doubted`, and one that is DELIVERED and not doubted is over, or at the end of the attempt that delivered it |
| ApiGateway_proofs | GatewayTypesHold; BurstNeedsDelay, LimitsAreKept, RevocationHolds | `Counters`, per limiter, tier and address: a counter has as many hits as were logged since it began, no more than the limit of them passed, as many as the limit were not refused, and no span that ends where it began has more passes than the limit (`WindowCounted`), so that no span of a window has more than twice the limit (`SpansBounded`) and every refusal its cause (`Caused`). `Placed`: who is before a limiter was told nothing by it, and is told once. For the burst limiter (`SpikeIsLate`): what it counted in its window, with no delay and no repetition, the sustained one passed within a window of its own, no more than twice its limit. `BarredInvalid`: a revoked key stays revoked, and who came with one is not known at authentication |
| ApiGateway_proofs, of RunawayBreaker | BreakerTypes, AtMostThresholdPass, RefusalHasCause, LimitIsKept | `KeyLives`, `LimitSetOnce` (until an EXPIRE is executed twice, the request that sets the limit is the one that created the key), `ThroughCounted` (who passed, or is about to, was counted); `CauseInv`: the count is the number of requests counted unless one was counted twice, and who is refused has seen a count above the threshold |
| ScheduleChecker_proofs | ScheduleTypes, RunAgainOnlyIfCut; OneCheckAtATime | for every set of faults. `OneDate` and `OneHolder` (a worker has a schedule once; two have it only if it is `shared`), `HeldIsNewest` (the date a worker has was not run before, or was cut or shared), `RunMovesOn` (of a date that was run and not cut, `nextRunAt` is past it or a worker is about to move it). `OneCheck` and `Alone`, for `"slow" \notin Faults`: nothing is shared |
| UsageBilling_proofs | BillingTypesHold; PlanFollowsSubscription, InOrderPlanAgrees; UsageIsBounded, ThresholdsAlertedOnce; OverageIsLeastAlways | `TrackInv`: events are numbered, what comes after Stripe's present subscription began only changes it, a row is on a paid plan exactly if it names a subscription; and as long as no checkout was overtaken or came across a deletion (`Kept`), the row names the newest subscription whose checkout was handled, or none where each of those has its deletion (`RowIsNewest`). `OrderInv`: in order, the events handled are a prefix, and the row is what the last of them left. `CapInv`: records per month, whatever `NextMonth` does meanwhile, with `WithinReach` (what is used and what was let through stay below limit, peak and what the schedules exported). `TellInv`: who claimed a threshold by creating its row queues its email, and what a look has reached stays reached |
| DataRemoval_proofs | RemovalTypesHold; CleanupIsSound, FilesAndRowsMatch, ErasureIsLasting, AlertsHaveConsent | `KeyKept` (a revoked key makes no new jobs, so what the query saw still holds at the delete), `ThoroughSoFar` (per part: what it took is not over again before the run ends). `StageOf`: row, run and file of an export, a completed row being as old as its file. `CustomerFirst`, `NothingComes`, `Swept`: the files up to the listing's token are gone or on the page at hand, which rests on `PageIsFirst` and `TokenIsLast`, facts about finite sets of numbers. `ConsentInv` for the emails |
| ApiClients_proofs, of UseExport | UseTypesHold; FlagIsTrue, OutcomeIsTrue | `HookInv`: while the hook is mounted a call that acts and is not the last was given up (`OthersGivenUp`); and until such a call writes to the state (`intruded`), flag, error, link and status follow the last call's `pc` (`ShowsLast`). A new call sets all of them, which restores it |
| ApiClients_proofs, of McpTools | McpTypesHold; ToldIsTrue, TimeIsKept | `MadeInOrder` (the API numbers its jobs, so the next one is new), `Agrees`: a call makes nothing before its request is sent, nothing twice, nothing if it is refused, and what is on its way back with success says what it made. `Timely`: what a call noted when it began is below what its job is now, because no job goes back (`StatusGrows`, with `UpTo` an order by `StatusOrder`) |
| TableReaders_proofs | ReadersTypesHold; ExportIsSound, JsonIsWellFormed; WalkIsSound | `InOrder` (the cursor of a query is the last row given away, and what the batch holds comes after it), `Covered` (a steady row is given away, in the batch, or after both while the generator goes on). It rests on `WindowIsFull`: a window that leaves a row out at its end holds `take` rows, all before that one, which is a bijection between its rows and their ranks. `Reported` and `Spelled` (the text is the beginning of an array while the export is open, the whole array once it has ended, and one of the two if it failed). `NoneTwice` and `NoneMissed` place each row of a walk by its rank against the page's offset; a removal lowers ranks, a creation raises them |

The assumptions are the named ones of the modules. Most only say that bounds are
positive numbers and sets finite. Four carry weight and come from the code:
`RowOutlivesFile` of DataRemoval (the bucket's rule removes a file after 7 days, the
cleanup the row after 90: without it a file could be left without a row),
`LimitAssumption` and `WindowsAssumption` of ApiGateway (`rate-limit.ts:8-28`: in each
tier the burst limit is at least twice the sustained one, 10 s lie within 60 s),
`StartsAssumption` of UsageBilling (the customers it starts with have a plan of
`PlansAssumption` or none), and `"stall" \notin Faults` of Refinement, a hypothesis
of the theorem.

Only model-checked: the liveness properties (fairness and ENABLED are beyond the
prover), one or two per run: EveryJobSettles and OutcomeReported, EveryDeliveryEnds,
WindowEnds, OthersStillRun, EveryCallSettles, EveryRequestEnds, ReadingEnds,
GoesInTheEnd.

RunawayBreaker is proved in one module with ApiGateway, whose gate it is, and McpTools
with UseExport, the other client of the API; that is why the names of those two
modules are distinct.

## Not modelled

- Operational alerts: the functions that fill and evaluate the windows are stubs.
  The error rate's window is filled by the API server's requests
  (`server.ts:111`) in the API server's memory, while the worker process runs a
  monitor of its own (`worker.ts:28`), whose window stays empty.
- The progress column: `events.ts:491` writes it for each event without waiting for
  the last, so an older value may come last, also after the completed handler has
  set 100. It is only shown.
- Smaller hazards without a property: a scheduled export that is paused or deleted
  after the check has read it (`schedule.ts:118`); every webhook error is retried
  (`workers.ts:250`); a key that is revoked behind the gate
  of a request still serves it (`auth.ts:108`).
- The timer of the graceful shutdown and the second signal: they end a process at
  any point, as `Crash` in ExportJobs does.
- Object storage, audit, consent, branding, data export, sub-processors and signup
  are I/O or stubs; health checks read other services; emails, dashboard and
  OpenAPI texts are wording; versions in headers, logging, prices, the hash of a
  payload, signatures and the IP allowlist's arithmetic are sequential functions
  that unit tests cover.

Abstracted everywhere: payloads, wording, logging, delays (backoff and priorities
only order steps), the content of cron expressions. Bodies that are stubs in this
repository (`createJob`, `deliverWebhook`, `getDueSchedules`, `deleteAccount`,
`recordJobUsage`, `validateApiKey`, the route handlers) are external in the map.
