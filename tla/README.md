# A verification of the generation platform

TLA+ models, TLC runs and TLAPS proofs for the server in `server/` and two parts
of the web client in `src/` (paths below are relative to the repository). The platform lets a
user start generation tasks (images, chats, agent workspaces, research reports)
that run in the background of a Node process, cost points, may be stopped from
any instance behind the load balancer, and share MySQL and an optional Redis.

What can go wrong is rarely in one function. It is in the order of awaits: a
charge taken before a task that never runs, a refund sent twice or not at all, a
record overwritten by somebody who read it too early, a counter that is never
decremented, two transactions that read the same balance. The models are about
these orders; prompts, images, providers and formatting are left out.

## Inventory

| Component | State it keeps | Operations | What makes it correct |
|---|---|---|---|
| Task execution: `server/generation-tasks` (`service.ts`, `task-runtime-governor.ts`, executors, `execution-strategies.ts`) | `runningGenerationTasks`, abort controllers, `refundCommitted`; the record; runtime, abort flag and lock in Redis | run in background, take/renew/release the lock, write the outcome, refund, stop, snapshot | one refund at most; the points follow the outcome; every started task settles; subscribers hear of it |
| Task submission: `task-lifecycle-service.ts`, `redis/idempotency.ts`, `redis/concurrency.ts` | claims and counters in Redis; charge and record in MySQL | claim, acquire slots, charge, create, complete, start, clean up | one task per key; limits hold; slots come back; nobody frees another's claim |
| Redis coordination: `server/redis` | locks, claims, counters, channels, caches, rate limits | Lua scripts and single commands; all are no-ops or grants when Redis is away | token comparison, expiry, no blocking outage |
| Point ledger: `marketing-center/service.ts`, `db/retry.ts` | rows of `point_account_logs`; the balance is the newest row | consume, refund, reward, card, paid order, compensation | never overdrawn; each source credited once; the newest row is the sum |
| Payments, memberships: `marketing-center`, `marketing-center/payment` | orders, intents, transactions, grants, subscriptions | create order, create intent, webhook, local confirmation | one grant per paid order, one paid row per grant, no paid time lost |
| Event stream: `task-stream-subscription.ts`, `event-bus.ts`, `task-event-replay.ts`, `redis/pubsub.ts`; the client in `src/api/generation-tasks.ts` | subscribers per record and user, replay caches, channel handlers, Redis subscriptions; the client's `lastEventId` | subscribe, replay, broadcast, clean up, reconnect | no lost, repeated or reordered event, no leaked or deaf subscriber, the end is learnt |
| Workflow definitions: `workflow-definitions/service.ts` | a definition row and its version rows | create, save a version, autosave, publish, update, delete | one published version, dense numbers, releases do not change |
| Workflow editor: `src/views/workflow` | canvas, current workflow, autosave timer, save and opening in flight | edit, autosave, open, new, back, leave | no edit lost in silence, no content under another workflow's id |
| Generation records and sessions | records, outputs, runs, conversations | CRUD | the status a write leaves |
| Research runtime: `server/research` | run, phases, sources, budget | plan, search, read, write | phases in order, budget kept |
| Authentication: `server/auth` | sessions, codes | login, verify, rate limits | a code is used once |
| Administration (`admin-*`) | audit rows | lists, edits, compensation | audited, once |
| Configuration (`system-config`, `provider-config`, `skill-config`, `storage*`, `asset-items`) | rows and caches | CRUD | caches follow writes |
| HTTP server, rest of the web client, scripts | - | routing, user interface | - |

Interactions: a request calls the submission, which claims its key and slots in
Redis, charges through the ledger, creates the record and starts the execution
without awaiting it. The execution owns a lease in Redis, reports to the runtime
key and the event bus, and ends in the handlers of its strategy, which refund
through the ledger. Stop and snapshot requests reach any instance and talk to the
execution through memory (same instance) or through Redis and the record (other
instances). Administrators compensate through the same ledger. A paid order ends
in a credit of the ledger, a subscription and a grant, in one transaction. The
event bus carries the execution's events over Redis to the instances that hold
the streams of its clients. The editor's autosave is one of the requests that the
workflow definitions serve.

Hard behaviours, all listed with their lines under `hazards` in `PROJECT.json`:
interleaved requests and timers, check-then-act over awaits, leases and claims
that expire, Redis outages, calls that throw half-way through a clean-up,
crashes of the process that holds a task's only memory, transactions that are
retried, and snapshots of the database that are older than what is committed.

## Modules

`TaskExecution` - one task from `setLocalRunningTask` to the end of
`runTaskInBackground`'s `finally`. `pc` is where that function is; each await is
a step. The variables are the record's status, the REFUND rows, three Redis keys
(runtime, abort flag, lock), the instance's own locals (`abort`,
`refundCommitted`, `lockLost`, the renewal timer and the patch it fires), and a
program counter per stop or snapshot request with the instance that serves it.
The four strategies differ in where they look at the abort signal, in the order
of writing and publishing the result, and in the workspace's own catch block
(`InnerCatch`). `strategy` and `deployment` are chosen in `Init` and never
change. The ghost `writer` remembers who wrote the record last.

`TaskSubmission` - any number of requests to start tasks, with their idempotency
keys and the counters of user, skill and provider; the task each starts ends in
one step. A deployment without Redis is an outage that does not end. A provider
is always present (without one the code takes two scopes; the model's third
counter then has no contention).

`PointLedger` - one user's rows. Locking writers (`consumeGenerationPoints`,
`refundGenerationPoints`) take `FOR UPDATE` on the user's row and then read the
newest row; the others (rewards, cards, paid orders) read in the snapshot of
their transaction, insert under a unique index and hold the foreign key's share
of the user's row. `latest` is the newest committed row; the ghost `total` the
sum of all committed changes. `executeGenerationPointCompensation` reads the
refunds, then the record, then refunds.

`PointAccount` - the abstract account: a balance, and for each booking one atomic
step that the balance must cover (`Take`) or that adds to it (`GiveBack`).
`PointLedger` implements it under
`INSTANCE PointAccount WITH balance <- latest.balance, applied <- Committed`.

`PaymentOrder` - the orders of one user and the handlers that serve requests for
them, again and again. A handler takes the order's Redis lock (webhook, local
confirmation) or none (intent), then runs a transaction: a webhook reads, which
fixes its snapshot, then locks the row; the others lock first. `snap` is what the
transaction sees, the committed rows are what its inserts meet, and all its writes
are one step (`Confirm`, `CreateIntent`), because nobody sees them before the
commit. Unique indexes are the `...Clash` operators. The lease expires at any
time; deadlocks retry with a new snapshot; an instance may crash.

`StreamSubscribers` - the streams of one user on one record at one instance. `pc`
runs through `subscribeGenerationTaskStream` and the calls below it, one step per
stretch between awaits; the response may end at any of them. `creator`,
`handlers` and `listening` are the channel's entry in `channelHandlers`, its set
and Redis's side of it; `unsubscribe` the entry of `remoteUnsubscribeMap`.

`TaskStream` - the events of one task on their way to one client: counter and
cache of the executing instance, the caches of those that hear it, the list in
Redis that all of them append to, the pipe of the response, and the client with
its `lastEventId`. The terminal event is number `NEvents`. `After` is the
filter of a replay, written with the rank of each kept entry, which can be proved
about; `MCTaskStream` has TLC compare it with `SelectSeq`.

`WorkflowVersions` - one definition with its versions. `request` holds what each
session's request has read (`Reading`); the transaction writes on the strength of
that. The two requests of "save and publish" are `CreateVersion`, `PublishSaved`
and `Publish`. A version's content is the session that wrote it.

`WorkflowEditor` - one tab: `canvas`, `currentId`, `saved` (what `isCanvasDirty`
compares with), the timer, `saving` (`autosaveInFlight`), `opening`
(`workflowLoadingByRoute`) and `leaving` (who waits for `flushAutosave`). Contents
carry the workflow they belong to and the number of their last edit. The ghosts
`hurried`, `failed` and `crossed` record the causes the properties name.

The `...Proofs` modules hold the theorems of the component they are named after;
the `MC` modules give the constants that a `.cfg` cannot. `PointLedger` and
`PaymentOrder` meet in the credit: a commit of the one is a row of the other,
which is why `PaymentOrder` only counts the credits of an order.

## Runs

| Run | Question | Bounds |
|---|---|---|
| `exec_safety` | do record, refund and events agree whatever happens? | 3 strategies, with and without Redis, 2 instances, 1 stop, 1 snapshot, 1 outage, 2 throwing calls, a crash: 3.7 million states |
| `exec_settles` | does a started task settle, and does a stop win? | 3 strategies, no crash, no throwing call, 1 outage: 291,000 states |
| `sub_clicks` | two clicks, one key | 2 faults of any kind |
| `sub_slots` | two tasks, one provider slot; do counters drain? | 1 fault of any kind |
| `ledger_account` | is the ledger an account? | 2 consumptions the balance covers once, 2 refunds, 1 compensation, 2 attempts |
| `ledger_credits` | what holds in spite of unlocked credits? | 2 consumptions, a refund, a forced compensation, 2 credits of one day |
| `pay_orders` | is a paid order granted, once, and is nothing taken back? | 2 orders of one level, held before or not, 2 handlers, 6 payloads, 2 attempts, 1 deadlock or crash: 268,000 states |
| `pay_intent` | violation: an order with an intent cannot be paid | 1 recharge order, its intent, its payment |
| `stream_subscribers` | who stays counted, who is deaf? | 3 streams, limit 2, 1 outage, symmetric: 267,000 states |
| `stream_delivery` | which events does a client get, and in which order? | 2 instances, 4 events, caches of 2, 1 broken connection, 1 event that finds Redis away: 3.1 million states |
| `workflow_versions` | do concurrent requests keep the versions in order? | 2 sessions, symmetric, 4 versions: 3 million states |
| `workflow_editor` | what does the autosave lose, and why? | 2 stored and 2 new workflows, 3 edits, 1 failing request: 650,000 states |

What the properties of the newer runs say, next to what may be expected:
- `GrantedOnce`, `BenefitIsPaid` and `GrantedIsFinal` hold although two webhooks
  may confirm one order from equally old snapshots: the indexes decide.
  `TimeIsLostOnlyToStaleReads` is an exact statement of a weakness: two orders of
  a level the user already has, confirmed at the same time, may add their time to
  the same old end, and what one of them paid for is lost. (A level the user does
  not have yet is safe: the second insert of its row fails.)
- `OnlyLateHandlersLeak`, `OverrunNeedsOverlap`, `OpenStreamsHear` and
  `IdleRecordIsForgotten` say under which circumstances subscribers leak, exceed
  their limit, or hear nothing; outside them none of this happens.
- `OnceAndInOrder` and `NothingIsBehind` are what the comments of
  `task-event-replay.ts` promise for one instance. `SameInstanceInOrder` is what is
  left of it at an instance that only hears the events.
- `ReleaseAlteredOnlyByStaleAutosave` and `ActiveIsLostOnlyToStaleAutosave` tie the
  two bad outcomes of a late autosave to that autosave alone.
- `UnsavedHasACause` and `LossHasACause` do the same for the editor's edits.
Each of these conditions is needed: without any one of them TLC finds the property
violated. `IdleRecordIsForgotten` needs no condition on outages: a stream that met one
has failed, not been released.

Why the bounds are enough: an execution has one runner, and each hazard needs at
most one request of each kind on the other instance; two throwing calls let the
workspace's catch and the shell's handler fail in the same run. A research report
behaves as a chat that saves no partial content, so `exec_safety` leaves it out. Two submissions
are what one key or one slot can be contested by, and the provider is full at one
while the user and the skill are not, so a refusal returns slots already taken.
Two consumptions of which the opening balance covers either but not both are the
smallest overdraft. Two handlers are two deliveries at once, and two orders of one
level are what a subscription row can be contested by. Three streams exceed a
limit of two and let one join while another leaves and a third is being set up
(four were checked as well, without a difference). Four events overflow caches of
two and leave something to replay; one away instance is enough, for the client's
numbers know only the instance it is connected to. Four versions allow a draft,
its release, a later save and an autosave that started before all of them. Three
edits allow one before, one during and one after a save. The proofs remove these
bounds for the safety properties they cover.
`CHECK_DEADLOCK FALSE` everywhere: the modelled requests, events and edits are
finite, and the system stops when all are served.

### Fairness

`TaskExecution!FairSpec` assumes that the runner of a started task is scheduled
and its awaited calls return or throw (the HTTP client has header and body
timeouts, Redis and MySQL clients have connect and command timeouts), and that a
patch in flight finishes. `TaskSubmission!FairSpec` assumes it of each received
request. Nothing is assumed of Redis coming back, of users, of expiry or of
timers. A crash is excluded in `exec_settles`: after one, nobody but a later
reader closes the record.
`PaymentOrder!FairSpec`: Redis removes a lock at its TTL (`PX`), a transaction
goes on (strongly fair, because a row that is locked again and again still gets
free), and a provider repeats a notification until a delivery finds the lock free,
as payment providers do; nothing is assumed of users. `TaskStream!FairSpec`: the
task goes on emitting (that it ends is `ExecutedTaskSettles`), awaits of a
subscription return, a stream ends after `SSE_MAX_CONNECTION_MS`, and a client
whose stream ended connects again, as its retry loop does; nothing is assumed of
Redis delivering messages. `WorkflowEditor!FairSpec`: timers fire, the server
answers or the request fails, promises resume.

### Where the code departs from what its sources say

A run shows this one:
1. `recordPaymentTransaction` (`marketing-center/service.ts:800`) gives the row of
   an intent and the row of the payment that answers it the same provider payment
   id, which is unique. Once an intent was created, no genuine webhook can be
   confirmed; the tests start from an order in `PAYING` without the intent's row
   (`tests/no-call/payment-provider-adapter.test.ts:319`). `GenuinePaymentIsGranted`
   therefore excludes orders with an intent.

The models contain the steps of these, and no property speaks of them:
2. `refundTaskPointsIfNeeded` sets `refundCommitted` before the await
   (`generation-tasks/service.ts:412`). If the refund throws in the workspace's
   catch block, the shell's refund is skipped and the user pays for a failed task,
   against `marketing-center/service.ts:385`.
3. `resolveTaskRecordSnapshot` (`task-stream-subscription.ts:24-50`) acts on the
   record it read before asking for the runtime. A completed record is closed as
   stopped, with the old content, when the runner finishes in between; the comment
   at line 21 speaks of unfinished records only.
4. The catch block of `startGenerationTask` awaits the slot release before it
   frees the key; when that throws, the key stays pending for ten minutes, against
   `redis/idempotency.ts:166`.
5. Rewards, cards and paid orders write the ledger without the user's row lock
   (`marketing-center/service.ts:634` and others), although line 188 says that the
   lock serialises the writes of a user. A consumption committed between their
   first SELECT and their insert vanishes from the balance; this is why
   `ledger_account` has no credits.
6. `executeGenerationPointCompensation` checks for refunds outside the
   transaction that refunds; with a runner's refund in between the user is
   refunded twice, and no unique index stops it, against
   `admin-marketing/service.ts:677`.
7. The REJECTED row of a wrong amount (`marketing-center/service.ts:1447`) is
   rolled back by the throw that follows it, while the tests, whose mock has no
   transactions, count one row.
8. An autosave decides on a status read before its transaction
   (`workflow-definitions/service.ts:622`): it overwrites a version published
   meanwhile, although the schema calls versions complete snapshots and a stable
   input of execution and publication (`prisma/schema.prisma:430`).
9. `tryLoadWorkflowByRoute` raises `workflowLoadingByRoute` before
   `flushAutosave` (`src/views/workflow/index.vue:281`), which then saves nothing:
   opening another workflow drops what the timer was about to save.
10. "Local data covers the request" (`task-event-replay.ts:75`) is decided by the
    oldest cached number; a cache filled from Redis has holes wherever the
    instance was not subscribed.

Seen while modelling, and not claimed otherwise by any source:
- with Redis configured but away, `acquireRedisLock` returns null as if the lock
  were taken: the charged task ends in `SkipExecution`, without a refund and with
  an open record (a later snapshot closes it as stopped, unpaid back);
- a submission that fails after its record was created frees the key and keeps
  record and charge (`OneTaskPerKey` excludes faults for this reason);
- the renewal timer's `patchSharedTaskRuntime` may write an old status back;
  records and points do not suffer (`PatchRead`, `PatchWrite` are in the model);
- after a crash of the instance nobody refunds;
- a stream of a finished record ends before its clean-up is attached
  (`task-stream-subscription.ts:121`) and stays counted against its user;
- a SUBSCRIBE that fails leaves the channel's entry behind (`redis/pubsub.ts:63`),
  and an outage stores an unsubscribe function that does nothing
  (`event-bus.ts:48`): later streams of the record hear no other instance. The same
  happens without an outage when a client leaves while SUBSCRIBE is pending and an
  event then drops its response;
- a live event may overtake the replay (`task-stream-subscription.ts:86-114`), and
  every instance that hears an event appends it to the shared list
  (`task-event-replay.ts:56`), so a replay from Redis may repeat events; the client
  does not compare numbers before it hands an event on;
- a save in flight that is overtaken by the opening of another workflow sets the
  current id back (`index.vue:632`), and the next save stores one workflow's canvas
  under the other's id (`crossed`);
- a timer that fires during a save is swallowed (`index.vue:657`).

## Proofs

Proved for every value of the constants allowed by the named assumptions
(`ExecutionAssumption`, `SubmissionAssumption`, `LedgerAssumption`,
`PaymentAssumption`, `StreamsAssumption`, `StreamAssumption`, `VersionsAssumption`,
`EditorAssumption`), which say only that constants have their types and that
disjoint sets are disjoint; in `PaymentOrder` also that the idempotency key of an
intent is not that of a payment. Each component's type invariant is a theorem, and
is part of the inductive invariants below.

*Execution.* `IInv` = types, `Accounting` (a refund row implies the flag, one row
at most), `WriterInv` (outsiders only ever write "stopped"), `ControlInv` (which
locals are set where), `EventInv` and `MoneyInv` (for each place, what was
written and given back). `MoneyInv` is needed because `NoFreeDelivery` and
`RunnerSettlesItsCharge` speak only of ended tasks: it carries the agreement of
record and ledger through the handlers, where they disagree for a moment.
`Inductive` proves it; `TypeCorrect`, `RefundOnce`, `NoFreeDeliveryHolds`,
`RunnerSettlesItsChargeHolds`, `LostLockIsRefundedHolds` and
`SubscribersAreToldHolds` follow. `StopInFlightHolds` is about whole behaviours: from
a stop in flight on `OnTheWayOut` holds for ever (the runner is at a place from which no
write of the result can be reached), and before it `Unwritten` (nothing was completed).
It holds with crashes and throwing calls too, which the run leaves out.

*Submission.* `CountInv` (without uncounted grants, each counter is at least the
number of its holders and at most its limit) gives `AdmissionBoundHolds`, with
cardinality lemmas for acquiring and releasing. `ClaimInv` (without faults a
pending or completed entry belongs to the submission in that phase) gives
`OneTaskPerKeyHolds`, and that Redis is there, from which `SlotsMatchHoldersHolds`
shows that the counters are exact. `ForeignClaimSurvivesHolds` is an action property from the
types.

*Ledger.* `LInv` = `Retrying`, `Alone` (one locking writer past its lock, and no
credit past its insert with it), `Current` (what a locking writer read is still
the newest balance), `Clocked` (stamps below the clock) and `Funded` (a
consumption past its check is covered). It yields `NeverOverdrawnHolds` and
`LockedRowsAreExactHolds` with unlocked credits present. `OneClaim` gives
`CreditedOnceHolds`. Without unlocked credits (`ASSUME Credits = {}`),
`Sound` gives `LedgerIsRunningSumHolds` and the refinement `LedgerIsAnAccount`:
a commit maps to `Take` or `GiveBack`, all else stutters. The assumption is needed:
with one reward TLC finds `LedgerIsRunningSum` violated.

*Payments.* `PInv` = types, `Sound` of the committed rows and of every snapshot
(grant, credit, VERIFIED row and status of an order agree), `Owned` (whoever works on
an order has seen it created, and a locked row has one owner), `Current` (what an
intent or a local confirmation has read under the lock is still the order's status)
and `Waiting` (only a webhook waits for the row with a snapshot). `Sound` of the
snapshots is needed because a confirmation decides on its snapshot and inserts into
the committed rows: `BenefitsGrantedOnce`, `BenefitsArePaid` and `GrantsAreFinal`
compare the two through the indexes and nowhere use the Redis lock.
`MembershipTimeLoss` is an action property from the same invariant.

*Streams.* `SInv` = types, `Placed` (who is counted, and who has a handler or an
empty subscription, given its `pc`) and `Alone` (without an overlap one stream at a
time is set up, it found no subscription if it is binding, the only handler is the one
in the map, and those counted or admitted are within the limit). It gives
`LeaksAreLate` and `LimitHoldsInTurn`, with cardinality lemmas as for the slots.
`Kept` (the counts follow the streams, and whoever is left with the channel's entry is
on the way or will take it away) gives `TheLastOneCleansUp`. `Wired` (while no outage
and no leak has happened, the connection is bound before the channel is made and
whoever is past the subscription has a handler) gives `NeighboursDoNotDeafen`; it is
proved by steps whose end has no outage and no leak either, which is why `Kept` must
say that leaks stay.

*Delivery.* `DInv` = types, `HomeCached` (the executing instance has the newest
numbers up to the counter, without a gap), `AwayCached` (the others have rising
numbers, all below those Redis still has for them), `Staged` (what the pipe and the
request hold at each stage of a connection), `SameOnward` and `Unbroken`. `Onward`, for
a client of one instance: what it has and what its pipe holds rise, across the seam
too, and the instance has cached at least that far. The last part makes it inductive:
the next event of the instance is above all it has cached, hence above all it has
told. `Seamless`, while the executing instance has dropped nothing: there is no gap
either, and a live stream is up to date. They give `OneInstanceKeepsOrder`,
`NothingIsSkippedOrRepeated` and `LiveStreamIsUpToDate`, for caches of any cap and any
number of broken connections. A replay is `After` of a rising list, hence the rest of
it from some place on (`AfterIsTheRest`); that place, and the ranks, come from the
least element of a set of numbers, not from induction over the list.

*Versions.* `WInv` = types, `OnePublished`, `VersionsAreDense`, `Readings` (versions a
request has read still exist, and the latest number it read is at most the
definition's) and `OwnVersions` (a version a session saved for publication exists, has
the session's content, is no draft, and no autosave has decided on it as a draft).
`ReleasesAreStable`, `SavedIsPublished` and `ActiveIsKept` are action properties from
it.

*Editor.* `EInv` = types, `Home` (contents of canvas, server and save belong to their
workflow unless `crossed`), `InFlight` (a save holds the canvas unless an edit
hurried or the ids crossed, and from the reply on it is on the server) and `Pending`
(an unsaved edit without a pending opening has a cause, a save in flight, or a timer
while nobody leaves). `Pending` is what makes `UnsavedHasACause` inductive: it says at
every step who will save the edit.

The ledger's and the payments' proofs rest on the database as the models have it:
repeatable read, `FOR UPDATE` against other row locks and the share lock of a
foreign key, unique indexes, and `createdAt` in the order of the inserts (servers'
clocks agree to the millisecond and the insert order within one is kept). Those of
the versions rest on transactions of blind writes that MySQL orders or rolls back.

Only model-checked: liveness (`ExecutedTaskSettles`, `SlotsDrain`,
`GenuinePaymentIsGranted`, `ClientLearnsTheEnd`, `EditsAreStored`), which rests on
fairness, hence on `ENABLED`; that `After` equals `SelectSeq`, which is recursive; and
the violation. Every other property of a passing run is a theorem.

## Not modelled, and why

- What providers answer, prompts, contents, images, events of progress: data.
- Rate limits, JSON caches and their invalidation, the inspection routes of
  Redis: advisory or read-only.
- Research phases: they run one after the other inside one task, which
  `TaskExecution` has as a strategy; their plans and budgets are data.
- Authentication: single statements, except for the codes.
- Redemption of cards and rewards beyond the credit they end in.
- A second connection of the Redis subscriber that two first subscribers may open
  at once (`redis/client.ts:74`): the models have one.
- In `WorkflowEditor`, other tabs (they are in `WorkflowVersions`), "save and
  publish" from the panel, and a creation whose reply is lost, which would make
  a second workflow.
- Administration lists, dashboards, configuration CRUD, storage, encryption,
  HTTP plumbing: single statements or pure I/O.
- The rest of the web client (pages, stores, dialogs, canvas rendering): user
  interface over single requests, two thirds of the repository's lines.

## Plan

Done: `TaskExecution`, `TaskSubmission`, `PointLedger` with `PointAccount`;
`PaymentOrder`; `StreamSubscribers` and `TaskStream`; `WorkflowVersions` and
`WorkflowEditor`; the proofs named above.

Worth doing next:
1. A composition of submission and execution that follows the charge from
   `Consume` to refund or result, with outages; the skipped task belongs there.
2. `ExecutionLock`: the lease with several holders; `TaskExecution` uses its
   single-holder case. Theorem: a release never frees another's lease.
3. Verification codes, and the agent-workspace reducer of the client.
