# Verification of Construct Flow

TLA+ models of the Construct Flow back end (`src/apps/*`, Go micro-services), the TLC
instances that check them and TLAPS proofs of the properties that matter most.

* `X.tla` is the model of a component, `MCX.tla` the constants of its small instances,
  `<run>.cfg` one TLC run, `XProofs.tla` the proofs about `X`.
* `tlc -config <run>.cfg MCX.tla` checks a run, `tlapm XProofs.tla` a proof module.
* Abstract specifications: `TaskHistory` (what the task table promises), `Delivery` (what
  the event bus promises). `TaskService` and `EventBus` implement them, checked and proved.
* `PROJECT.json` says which lines of the source each definition translates, which mutant
  of the code each property must catch, which hazards of the code it covers.

## 1. The system

| component | state | operations | interacts with |
|---|---|---|---|
| gw-gateway | Redis counters `ratelimit:<ip>` | rate limit, JWT check, RBAC (casbin), HTTP handlers | gRPC calls to task-, user- and notification-service |
| user-service | tables `companies`, `users` | Register, Login, GetUser | called by the gateway and task-service |
| task-service | tables `projects`, `tasks`; Redis `lock:task:assign:<id>` | project and task CRUD, AssignTask, UpdateTaskStatus | publishes `task.assigned`, `task.status_changed` |
| notification-service | table `notifications`; Redis `event:<id>`, TTL 24 h | two consumers, list / mark read / count | consumes the task events |
| report-service | table `report_jobs`; MinIO | RequestReport, status, list; generator consumer | publishes `report.requested`, `report.completed`, consumes the first |
| audit-service | table `audit_logs` | consumer of every event, query | consumes all events |
| search-service | Elasticsearch indices | indexer consumer, search | consumes `task.*`, `file.uploaded`, `report.completed` |
| file-service | table `files`; S3 | presign, confirm, download URL, migrate, delete | clients store in S3 themselves |
| scheduler-service | Redis `cron:<job>` | cron jobs run by one pod per tick | publishes `deadline.*`, `report.requested`, `file.lifecycle` |
| RabbitMQ | exchange `constructflow.events`, queues, dead-letter queues | deliver, ack, nack, dead-letter | all of the above |

Every service runs as several pods that share PostgreSQL and Redis. No service uses a
database transaction around more than one statement, a row lock, a version column or
publisher confirms; that is where the hard behaviour comes from:

* **interleaving**: a handler reads a row, decides on its copy, writes it (or its id) back,
  while other handlers do the same;
* **locks with a TTL**: the assignment lock and the cron locks disappear by time;
* **delivery**: consumers acknowledge by hand, requeue on failure, and a crash redelivers;
* **partial failure**: Redis key, then row; row, then event; company, then user; upload,
  then status; INCR, then EXPIRE. Each pair can stop in the middle;
* **time**: cron ticks against lock TTLs, clocks of pods against the clock of Redis.

What makes each part correct: rows of a tenant change by requests of that tenant only;
a write is an authorised change of some version that was there; an acknowledged message
was handled; a status and an event tell of something that exists; a job runs once per
tick; a limit admits no more than it says and blocks nobody for ever.

## 2. What is modelled

An action is the code from one call that leaves the process to the next, so two requests
interleave exactly where the Go code lets them. A call that may fail has a failing action,
and where the effect may have happened without its answer both outcomes are allowed.

### TaskData, TaskHistory, TaskService (task-service: tasks)

`TaskService` is the set of requests in flight (`Worker`; a goroutine of some pod), the
table (`rows`), Redis (`locks`, and `expiring`, the keys that have a TTL) and the events RabbitMQ accepted (`events`). `pc[w]` is the
next call of the handler of `w`.

| code | action |
|---|---|
| `AssignTask`: `SetNX` | `AssignAcquire`, `AssignAcquireFails` (no reply, key set or not); `SetKey` sets key and TTL in one command |
| `FindByID` of task and user | `AssignLoad` |
| `Update` | `AssignSave` |
| `Publish` | `AssignPublish` |
| deferred `Del` | `AssignRelease` (may fail: the context of the request is cancelled) |
| `UpdateTaskStatus` | `StatusLoad`, `StatusSave`, `StatusPublish` |
| `UpdateTask`, `CreateTask`, `DeleteTask` | `EditLoad`, `EditSave`, `CreateTask`, `DeleteTask` |
| a pod dies, Redis drops a key | `Crash`, `LockExpires` |

`AssignTask` and `CreateTask` do not look at the role of the caller; they rely on the
gateway, whose casbin policy and routes are `AccessPolicy`. `Receive` takes a request only
when it is `Admitted` there, with the company, user and role of its token. `UpdateTask` and
`DeleteTask` have no route and no check: anyone inside the cluster may send them.

`Save` writes all columns of the copy and, when the row was soft-deleted meanwhile,
upserts it as live again; that is what gorm's `Save` does. `SetNXReply` answers a held key
with `redis.Nil` as an error, as go-redis `SetArgs` does. Empty request fields
(`ErrInvalidInput` before the first call) are left out: they change nothing. Only a key with
a TTL expires (`LockExpires`): a lock that a lost reply or a crash leaves behind is freed
because SET carried its TTL with it (`LockFreed`; `LocksExpire` is its safety half).

Three variables are history, not code: `versions` (live rows the table has held), `overrun`
(tasks with a request that outlived its lock) and `served` (the bound `MaxRequests`).

`TaskHistory` is the abstract promise: a row is replaced by ONE authorised edit of SOME
version that was once visible. It is what a lost-update design still guarantees: no mixing
of two versions, no edit that nobody was entitled to (only a manager or admin of the
company creates or assigns), no tenant crossing. `TaskService`
implements it (`ImplementsHistory`, checked and proved).

### ProjectService, Listing (task-service: projects; the lists of all services)

Same style for projects; `CreateTaskCheck`/`CreateTaskInsert` are the two calls of
CreateTask. `late` marks requests received while their project was deleted.

`Listing` puts a client beside these requests that reads the list page by page. Projects,
tasks, notifications, report jobs, audit logs and files are all listed by a `Count` and a
`SELECT ... ORDER BY created_at DESC OFFSET LIMIT` without a transaction (`Count`, `Find`);
what differs is the page size: every list but that of files replaces one that is too large
by the default, and only some answers tell the client so (`limited`, `tells`). The client
goes on while `page * size < total`, with the size it was told. Rows that leave, come or
come back between the statements are the interleaving: `left` and `uncounted` are history
and name the two cases in which a row may be missed. Distinct `created_at` are an
assumption; nothing in the code breaks ties.

### WorkQueue, NotificationService (RabbitMQ, notification-service)

`WorkQueue` is the frame all consumers share: `Deliver`, `Reply` with Ack, requeue or
dead-letter, `ChannelCloses` (the goroutines finish their message and end, nothing opens
the channel again) and `PodRestarts`. A queue is a set, because two pods take its messages
in any order and a buffered message of a closed channel goes back. `x-death` counts
dead-letterings only, so `RetryCount` stays 0 for a message that is requeued.

`NotificationService` extends it with the steps of a handler: `Decode`, `CheckKey` (Redis
SET NX, again answered by an error when the key exists), `Create`, and `Acknowledge` or
`Reject`, each with its failure; and with `MarkRead`, `MarkAllRead` and the expiry of keys.
`unguarded` (events whose key was not working: Redis failed, or it expired) is history.

### ReportService

`Request`, `PublishRequested` are RequestReport; `MarkProcessing`, `Upload`, `MarkReady`,
`Announce`, `AcknowledgeRequest`, `RejectRequest` the generator consumer on `WorkQueue`. `SetStatus` is
unconditional (`UPDATE ... WHERE id = ?`), as in the repository. `PublishOther` is the
weekly job of the scheduler, whose message names no report job. `orphaned` (history) marks
messages given back while the goroutine that held them went on.

### CronLock (scheduler-service)

One job; ticks are the multiples of `Interval` on the clock of each pod (`Ahead` of the
clock of Redis, `now`). `Fire`, `ReadClock`, `Lock` (SET NX with the TTL that ends at the
next tick of this pod), `LockFails`, `Finish`, `Crash`, `TimePasses`. `MaxDelay` bounds the
time from a tick to the arrival of its SET; together with the clock differences it has to
stay below the interval (assumption `TimingAssumption`; the shortest cron interval is a
minute). The jobs themselves publish and return; each has a key of its own.

### FileService

`serving[h]` is a request between its read and its write: the row or list it saw. Writes
are by id alone (`WHERE id = ? AND deleted_at IS NULL`), so what the read established has
to last. `MigrateStorage` carries its list from file to file; `stale` in its record is
history (files another migration moved since they were listed), and `saw` in the record of
a confirmation is the status that was read. `age` abstracts `created_at` to the two
thresholds of `StorageTierPolicy`. Bytes in S3 are written by the client and not modelled.

### SearchIndexer

Here order matters, so the queue is `log` (order of publication) with `ready` as the part
that waits; a requeued event returns to its old place, and each pod has a `buffer` without
limit (no `Qos` call). `Publish` takes events in any order and may leave some out: services
publish after their transaction and drop the error. `Put` replaces the whole document.
`again` (history) marks events that were delivered more than once.

### AuthRequests, RateLimit, Accounts, Sessions, Gateway

`RateLimit` is the middleware: `Incr`, `Expire`, their failures and `KeyExpires`; a failing
Redis lets requests pass. `Accounts` is Register: `ResolveCompany`, `CheckEmail`,
`InsertUser`, `RegisterFails`. `Sessions` is Login (`FindByEmail` takes the row with the
smallest id, whatever its company), the claims of the token, and the middleware of the
protected routes: a call is served with the claims of some token, whose role casbin checks
(`AccessPolicy`). A token is what it says and who issued it; bcrypt and RS256 are
abstracted to that. `AuthRequests` has the kinds of requests and the translation of errors
to gRPC codes and HTTP statuses. `Gateway` composes them: a request reaches user-service
when the limiter passed it. A login whose SELECT fails is answered like one with a wrong
password (`SelectFails`). `admitted`, `lost`, `overtaken`, `shutOut` (logins refused although
the password was right) and `unread` (logins whose SELECT failed) are history.

### Deployment, AuditConsumer, EventBus, Delivery

The services as one system on one RabbitMQ. `Deployment` is the plan of each `main.go`:
tables migrated one by one, Redis, the connection, then exchange by exchange, dead-letter
queue, binding, queue, binding. `EventBus` runs pods of any services along their plans.

| code | action |
|---|---|
| AutoMigrate: look for the table, `CREATE TABLE` | `CheckTable`, `CreateTable` (fails when another pod was faster: `log.Fatalf`) |
| Ping, Dial, `declareTopology` | `PingRedis`, `DialBroker`, `Declare` (one declaration) |
| consumers and server start | `StartServing` |
| Publish to the exchange | `Publish`: a copy to each bound queue, or lost (no confirms, not mandatory) |
| consumers | `Take`, `Answer` |
| `log.Fatalf`, signals, crashes | `PodFails`: starts again from the top, with everything declared so far still there |
| channel or broker fails | `ChannelCloses`, `BrokerRestarts` |

What happens inside a handler is in the modules of the services; here a handler answers
with what those modules allow. `AuditConsumer` is the exception, its handler is one INSERT:
which columns of the row an event fills decides what it can answer.

`Delivery` is what the services count on: a queue that listens gets a copy of every event
it wants, all queues at once, and loses it only by handling it or into its own dead-letter
queue. A queue listens when it and all its bindings have been declared; `Debts` (ready or in
a handler) is the refinement mapping. The consumers are shown to implement it too, each on
queues that are set up (`QueuesImplementDelivery` of `WorkQueue`, `QueueImplementsDelivery`
of `SearchIndexer`): what `EventBus` leaves out of their handlers changes nothing of what
the bus promises.

## 3. Runs

| run | what it shows | bounds |
|---|---|---|
| task_core | tenant isolation, only managers choose assignees, events tell of commits, rules break only through stale copies, `ImplementsHistory` | 1 task, 3 users of 2 companies, 2 requests at a time, 3 in all, every kind |
| task_lock | the lock excludes until a request outlives its TTL; the copy of an assignment is fresh; the lock is freed | 3 requests at a time, 3 in all, assignments and deletions |
| project_core | tasks stay in their project's company; a request after a deletion changes nothing; a walk over pages misses a row only for the reasons named | 3 projects, of which requests touch one, 3 requests at a time, 4 in all, 2 companies; page sizes 0 (default 2), 1 and 4 (too large) on three kinds of lists |
| notify_core | no acknowledged event without its notification; every event settles | 3 events (one unreadable), 2 queues, 2 pods, 2 failures |
| report_core | what is ready or announced exists; acknowledged jobs are ready; every request is generated | a job, a weekly request, an unreadable message, 2 pods, 3 failures |
| cron_core | a tick runs once; runs do not overlap unless one outlives its key; no two ticks in a row are skipped | 3 pods, clocks 0, 1, 0 ahead, delay to 2, interval 4, three ticks, 1 failure |
| file_core | writes stay in the tenant; a tier gets warmer only by a stale list; a confirmed size stays unless a confirmation read an older status | 1 file of either of 2 companies, 3 requests at a time, unbounded in number |
| search_core | a document goes back only for three reasons; every event is indexed | 2 changes of a document, 1 unreadable, 2 pods, 2 failures |
| gateway_core | the limit per key; the right password is refused only after a race of registrations or a failed SELECT; callers are who a login proved; a blocked client recovers | 2 registrations, a login, a call, 2 addresses, limit 2, failures unlimited |
| events_core | starts that race or break off leave no queue without its dead-letter queue; dead letters come from consumers; `ImplementsDelivery`; every pod comes up | 3 pods, four choices of services that together are all nine, 2 events on 2 keys, one failure at any step |

Runs that find what a document or comment says and the code does not do:

| run | document | code |
|---|---|---|
| notify_v_once | "If the key already exists, this event was already processed -> skip" | the existing key is an error and taken for "Redis unavailable": a second row |
| events_v_audit | "EventConsumer consumes all domain events and appends to the audit log" | no event carries a `user_id`, and `BeforeState` is the empty string: no INSERT succeeds, and the event is requeued for ever |

Why the bounds are enough. Rows, files, documents and keys are independent (no action
reads or writes two), so one is general. A stale copy needs two requests, a stale copy
after a delete or a third state a third; a lock that is deleted by a stranger needs three
holders; a duplicated message needs two pods, a goroutine that outlives its channel and
then stops two failures, and a retry in between a third. A key that lives too long shows
within two ticks, the horizon has three. A list needs a row before and one behind the row
that moves, and pages smaller than the list. A dead letter needs a service that rejects and
another that shares its key; the order of declarations shows with any two keys. Where requests, failures or time are bounded, the
system stops by itself: CHECK_DEADLOCK FALSE. Symmetry is used for workers, handlers and
files, and never in a run with a liveness property.

**Fairness.** Handlers that run are scheduled and their calls return or fail (`WF` on their
steps). This is an assumption for `elastic/client.go`, whose HTTP client has no timeout.
Redis drops keys when their TTL is over. Consumers set no prefetch limit, so the broker
pushes every message to the buffer of some consumer, which works through it: `WF` on
`Push` and `Work` in `SearchIndexer`; where the queue is a set the same fact is `SF` on the
delivery of each message to each consumer (`ReportService`), and `WF` on deliveries where
no message fails for ever (`NotificationService`). Nothing is assumed of clients, pods are
never sure to be restarted, and the liveness of consumers is claimed only while one pod
keeps its channel, because nothing in the code opens a closed one again. `EventBus` has two
specifications: `StartSpec` assumes that starts go on (`restart: unless-stopped`,
Deployments of k8s), and `FairSpec` that the broker delivers and handlers answer too.

Some properties of the passing runs say "only if a copy is stale", "unless a lock was outlived",
"unless a reply was lost". They bound a hazard the code does not prevent: nothing ELSE can do
the damage. `note` in the hazards of PROJECT.json says which.

### Divergences without a run

Seen while modelling; the models have the behaviour, the properties leave room for it.

* The documents describe the assignment as `UPDATE task SET assigned_to`; the whole, maybe
  stale, row is written. A held lock is answered with Internal, not 409.
* "allowedTransitions defines the valid task status state machine"
  (`update_task_status.go:11`), yet two legal changes of the same row store `done` ->
  `blocked`: the second is decided on a stale copy (`OnlyStaleSavesBreakRules`).
* "After 3 failures -> message goes to <queue>.dlq" (`PROJECT_DEEP_DIVE.md:306`): requeueing
  does not count in `x-death`, so retries have no end. It is proved for all instances that
  notification-service and report-service dead-letter nothing they can read
  (`NotificationRetriesNeverEnd`, `ReportRetriesNeverEnd`), that no report job is ever
  stored as `failed` (`NoJobEverFails`), and that the queue of audit-service only grows
  (`AuditQueueOnlyGrows`).
* The README lists events that nobody publishes (`user.login`, `file.uploaded`) or that no
  queue is bound to (`deadline.*`, `file.lifecycle`).
* A dead letter lies in the dead-letter queues of all services that bind its key.
* An update of a project read before its deletion brings it back.
* `task.status_changed` as task-service publishes it names no user: nobody is notified.
* A report job stays `queued` when Publish fails, and `processing` when a goroutine of a
  closed channel comes last and stops.
* search asks for `title`, `description`, `name`; the events carry `task_title`. Only
  assignments and status changes are published, not "every task/project change".
* The rate limit is a fixed window, not "sliding", and its key has no TTL when EXPIRE fails: at the limit
  the client is then blocked for good (`LostExpiryBlocksForEver`).
* Documents disagree on e-mail addresses. `architecture.md:265` and `PROJECT_DEEP_DIVE.md:178`
  ("same email, different companies = OK"), `init.sql:27`, the comment at `register.go:55` and
  the text of `ErrEmailExists` speak of the company; `init.sql:28` ("One email may register for one
  company only") and `e2e-test-results.md:123-125`, where the first reading is a bug that was
  fixed, of all companies. The code does the second: `ExistsByEmail` ignores the company,
  and a registration in another company is answered with 409. `OnlyRacesShutOut` and the
  theorem `AccountsShareEmailsOnlyByRaces` are about that code; under the first reading
  `OnlyRacesShutOut` could not hold, because login knows no company. The index still spans
  e-mail and company, so two concurrent registrations in two companies are both stored.
* A failed registration leaves its company behind.
* Documents give 30/90 days for storage tiers, the code 180 days and 2 years; the scheduler's
  `file.lifecycle` has no consumer; documents give a fixed TTL of 55 s for cron locks.

## 4. Proofs

All are for any values of the constants, under the named assumptions of the modules.

`TaskServiceProofs`: any number of tasks, users, companies, workers and requests.

* `TaskServiceTypeOK`: the type invariant.
* `AssignmentMutualExclusion` (`AssignersExclusive`). Not inductive alone: the
  strengthening says that a task that is not overrun and has a request inside has its
  lock set to that request. It holds because only `LockExpires` frees the key of a request
  inside (and then marks the task), and `Del` by a request inside can only free its own.
* `TaskServiceImplementsHistory`: the invariant ties every copy held by a request to a
  version that was in the table (`snap` is in `versions`), with the rights checked on it.
  That only managers and admins create and assign rests on `AccessPolicy`
  (`OnlyManagersAdmitted`), not on task-service.
* `LockedCopiesAreFresh` (`LockedSnapshotFresh`): where assignments are the only updates, the
  copy under the lock has the assignee of the table, since another assignment would have to
  be inside. It uses the invariant of the lock.
* `NoLockWithoutTTL` (`LocksExpire`): no lost reply or crash leaves a lock without a TTL; the
  part of `LockFreed` that is the code's and not the scheduler's.
* `AssigneesStayInTenant`, `WritersAreEntitled`, `OnlyStaleCopiesBreakRules`,
  `EventsTellOfCommits`: action properties and invariants from the same invariant.

`ConsumerProofs` is about the two consumers on `WorkQueue`, and starts with what its steps
do for any handler: they keep the types (`QueueTypeOK`) and the place of a message
(`OnePlace`: it waits, is with one pod, or is answered), and a message leaves the broker only
by a Reply (`MovesKeepMessages`). On these lemmas rest:

* `NoNotificationLost`: no acknowledged event is without its notification. The strengthening
  is that a goroutine which is about to acknowledge has its notification in the table.
* `DuplicatesArePaidFor`: events are notified twice (`notify_v_once`), but every row after
  the first costs a failure. The induction counts: the rows of an event, the goroutines that
  may still store one while they hold its message (`Promising`), and the event itself while
  it waits, are together at most the failures so far and one for its publication
  (`RowsArePaid`). A failed INSERT, a closed channel and a restart each pay for what they
  give back.
* `ReadyMeansStored`, `AcknowledgedMeansReady`: what is ready or announced is in MinIO; an
  acknowledged job is ready. Not inductive alone: a status is overwritten by whoever comes
  last, so one has to know who may come. A goroutine at work holds its message, or the
  channel closed under it and the message is marked `orphaned` (`HeldOrOrphaned`); since a
  message is at one place, two goroutines have the same one only then
  (`OneGoroutinePerMessage`). Then the calls of one goroutine come in order: a row is
  stored before its message (`RowsBeforeMessages`), uploaded before ready
  (`UploadedBeforeReady`), ready before Ack (`ReadyBeforeAck`).
* `NotificationImplementsDelivery`, `ReportImplementsDelivery`: a Reply that counts is a step
  of `Delivery` for the queue of its message, as the message is nowhere else (`OnePlace`);
  deliveries, requeues, closed channels and restarts change nothing of what is owed
  (`MovesImplementDelivery`).
* `NotificationRetriesNeverEnd`, `ReportRetriesNeverEnd`, `NoJobEverFails`: what the retry
  counter never reaches. Deaths are at most one, `MaxRetries` is three.

`SearchIndexerProofs`: any events, documents, pods and failures.

* `IndexGoesForward` (`IndexGoesBackOnlyFor`): a PUT replaces a newer document by an older
  one only after a late publication, a redelivery or with another pod at work. The invariant
  follows the order of publication through the broker: of what was never given back the
  queue sends the oldest first (`OldestFirst`), and the buffer of a pod, the event it works
  on and the documents it has put keep that order (`InOrder`). `ChannelInv` says which events
  a channel holds, `LogInv` that an event is published once.
* `AckedMeansIndexed` (`AckedEventsWereIndexed`) and `NothingIsSkipped` (`NoEventSkipped`):
  an acknowledged event was indexed; and a published one that can be read waits, is with a
  pod, or was indexed, through all failures. This is the safety half of `EveryEventIndexed`.
* `IndexerImplementsDelivery`: buffers that are dropped, answers on closed channels and
  redeliveries leave an event owed.

`CronLockProofs`: a tick runs once, for any clocks and delays below the interval. A run of
tick k sets a key that lives beyond the last moment at which a SET for k can reach Redis.
The strengthening measures everything by `At(p, k)`, the instant of tick k on the clock of
pod p: a pending attempt is at most `MaxDelay` past its tick (`AttemptsAreFresh`), and the
key covers every run until the next tick of the pod that ran it (`KeyCoversRuns`).
`NoTwoTicksSkipped`: a key that an attempt finds is that of its own tick or of the one before
(`KeyHasOwner`), because clocks and delays stay below the interval; and a key of a tick
without trouble was set by a run.

`FileServiceProofs`: all properties of file_core. Rows only move forward (a confirmed file
stays confirmed, a company never changes, ages grow), so a read that passed its checks stays
right about everything but the size, the deletion mark and, for a migration, the tiers that
are marked stale; the invariant has one such conjunct for each kind of request in flight.

`GatewayProofs`: accounts share an address only by races (`AccountsShareEmailsOnlyByRaces`).
A registration that is about to insert relies on a check that may be old; the invariant says
that the check still holds, or somebody inserted the address since and the registration is
marked `overtaken`. `OnlyRacesShutAccountsOut` follows: a login that misses an account with
its credentials found another account of the address, or its SELECT failed (`unread`), which
the code takes for a wrong password. `CallersAreGenuine`: claims in tokens
and in calls are those of an account a login gave address and password of.
`KeyAdmitsWithinLimit`: a key counts at least as many requests as it admits, and one more as
long as the request that created it waits for its EXPIRE; there is only one such request,
because a key without a TTL cannot die (`CountInv`). `CountedKeysDie` is the safety half of
`BlockedClientsRecover`: a key that counts has its TTL, or a request that is to set it, or its
EXPIRE was lost; and once it is lost nothing sets it again, and at the limit the client is
admitted no more (`LostExpiryBlocksForEver`).

`ListingProofs`: the properties of project_core, for any number of projects, requests and
page sizes. `ProjectInv` says that a copy held by a request is of the caller's company and
that rows never change theirs. For the walk: a row that was there all the time and has not
been seen is still ahead (`UnseenAreAhead`: its place is beyond the pages read), and the
count of a page is at least the number of rows unless one came since (`CountIsEnough`);
lemmas about places in a finite ordered set carry both. The theorems about `ProjectService`
hold of the composition because walks leave its variables alone (lemma `ListingLeavesProjects`).

`EventBusProofs`: any services, pods, events, keys and failures. The assumption about the
plans (`PlanAssumption`: a queue is bound to its own keys only, each after its dead-letter
queue, and all before the service serves) is evaluated by TLC on the real plans. Its
invariant: what stands in the plan before a pod's position, and needs the broker, is
declared (`PlansAreKept`), queues are bound to their keys only (`BindingsFit`), what a queue
owes came by a binding (`OwedByBinding`), and an event is in one place of a queue
(`OneCopy`). With it each step of the bus is a step or a stutter of `Delivery`.
`NothingIsAudited` and `AuditQueueOnlyGrows` carry the finding of `events_v_audit` to every
deployment: audit-service acknowledges no event, gives up only those it cannot read, and
owes all others for ever. `EventsAreHandledOnce` shows what the refinement is good for: an
invariant of `Delivery`, that no queue owes what it has handled, proved of the abstract steps
alone and carried over to the bus.

Every invariant and action property of a run that passes is stated by a theorem. The
definitions `DuplicatesCostFailures`, `AckedEventsWereIndexed`, `NoEventSkipped`,
`QueuesImplementDelivery`, `QueueImplementsDelivery`, `KeysDieUnlessLost`, `UndyingKeysBlock` and
`HandledOnce`, `LocksExpire` are in no run: they are proved for all instances.

Only model-checked: liveness, which is out of the prover's reach (`LockFreed`,
`EveryEventSettles`, `EveryReportGenerated`, `EveryEventIndexed`, `BlockedClientsRecover`,
`EveryPodStarts`).

## 5. Not modelled

* gRPC contracts: generated code without behaviour of its own. The same holds for the
  swagger document of the gateway.
* Configuration: reading the environment, opening ports, key files. Pure I/O.
* The schema and the deployment: data. Constraints the code runs into (the unique index,
  uuid and jsonb columns) are in the modules of the services.
* HTTP parsing, bcrypt and signatures: functions of one request.
* Queries of search-service: one request to Elasticsearch, which changes nothing. Single-row
  reads of the other services: one SELECT.
* Bytes in S3: written by clients.

Worth adding: the events of `TaskService` as the input of its consumers (at most the last
event of a task is lost).
