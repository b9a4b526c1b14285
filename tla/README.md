# A verification project for infinite-Image-Hosting

The repository is an image-hosting service: a Go backend
(`src/yuexiang-image-backend`, called *backend* below) with two processes, an
API server (`cmd/api`) and an image worker (`cmd/worker`), and two React
clients, one page for users and one for administrators. This directory holds
TLA+ models of the control of the backend and of both clients, TLC runs over
small instances of them, and theorems about them that TLAPS checks for all
values of the constants. `PROJECT.json` is the index: components, runs,
mutants, the map from definitions to source lines, findings, hazards, theorems.

Paths below are relative to *backend*; `server.go` is `internal/api/server.go`,
*user* is `src/yuexiang-image-user-web/src/App.tsx` and *admin* is
`src/yuexiang-image-admin-web/src/App.tsx`.

## 1. Inventory

### How the parts interact

A process keeps **all** state in one `memoryState` behind one `RWMutex`. A
handler locks it, snapshots everything, changes it, unlocks, and calls
`persistState`, which under a second mutex rewrites the **whole** database from
the memory of that moment. If the save fails the handler puts its snapshot
back. If something that must follow the save fails (a mail, a queue entry) it
puts the snapshot back and saves again. Some handlers leave the lock in the
middle, to call IF-Pay or the object store, and come back. The worker is a
second process with a memory of its own over the same database; API server and
worker talk through a Redis stream.

Each client is one React tree. It knows the server only from the answers to its
calls, which come in any order, late, or never, and whose handlers run on
whatever page there is by then. The user page keeps a token in its state and in
`localStorage`; the tabs of the administration share one token in
`localStorage`, read it anew for each call, and tell each other when it goes.

| component | state | operations | hard about it | correct when |
|---|---|---|---|---|
| write path (`server.go`, `state_postgres.go`) | memory, rollback snapshots, PostgreSQL, `persistMu` | `NewServer`, `Load`, `Save`, `persistState`, `persistOrRollback`, `restoreSnapshotAndPersist` | overlapping handlers roll back each other; ambiguous commits; crashes; two processes | an acknowledged change is never lost, a refused one leaves no trace, every request is answered |
| orders and IF-Pay (`server.go`, `internal/ifpay`) | orders, seen webhooks, payments in flight | `createIFPayCheckout`, `ifpayWebhook`, mark paid, cancel, refund | the lock is dropped around `CreatePayment`; webhooks repeat, come late and out of order; timeouts | paid means paid for; paid and closed orders stay so; one subscription per order; money is noticed |
| subscriptions (`internal/domain/subscription.go`) | one subscription per user, the plan shown | register, activate, refund, grant, redeem, expire, purge; the clock | seven operations keep two fields in step | the plan shown is the plan held; only paid subscriptions allow uploads |
| task queue and worker loop (`internal/queue`, `cmd/worker`) | stream, consumer group with pending list, dead letters | `Enqueue`, `Receive`, `ClaimStale`, `Ack`, `MoveToDeadLetter`, `RequeueDeadLetter` | workers die between any two commands; slow workers are overtaken; administrators race | no task is lost, none lives twice, each is settled |
| images, usage, object storage (`internal/storage`, `internal/domain/usage.go`) | images with status and variants, used bytes, objects | upload, import, delete, moderate, purge, process | objects are written before and removed after the state that names them; quota is checked before the lock | bytes counted are bytes stored; stored images have their objects; frozen images stay frozen |
| accounts and codes (`internal/security/auth.go`) | users, sessions, verification and reset codes | register, login, verify, forgot, reset, delete | codes are replaced and used once while handlers roll back each other | one use per code, the newest one counts |
| administrator authentication | administrators, pending bootstraps (15 minutes), sessions (12 hours) | bootstrap, login, logout | two bootstraps at once | one first administrator |
| invitations (`internal/domain/invites.go`) | codes, counters, usages | create, redeem, switch off | limits per code, user, address, device | limits are never exceeded |
| image delivery, access policy | bytes and requests counted per user | serve, sign, decide | counters under concurrency | decision as specified; quota enforced |
| audit logs, risk events | bounded lists | append, load | a start loads only the newest | what must be kept is kept |
| rate limiter | windows per client | count, reset | window boundary | limit per window |
| user page (*user*) | token, user, usage, gallery; the state of the mounted view; calls in flight | sign in, register, verify, reset, IF-Pay, upload, gallery, orders, keys, import, profile | answers that belong to an earlier account or were overtaken by a write; effects and their clean-up; views that are left | the user shown owns the token; lists end up as the server's; no spinner without a call |
| administration (*admin*) | token shared by tabs; gate or console; rows, flags and dialog of the view; calls in flight | bootstrap, sign in and out, 19 operations in 17 views | a 401 or a storage event ends the session of every tab; operations with flags and dialogs race with navigation; forms round | no console without a session; flags are calls in flight; rows are the server's; plans keep their quota |
| API keys, albums, plan catalogue, backup, mail, configuration, metrics, deployment | see `PROJECT.json` | | | |

### What is hard to test

`PROJECT.json` lists the hazards with their lines and the properties that would
catch each. The ones that shaped the models: the rollback of the whole memory
under other handlers' feet (`server.go:389`, `:409`), the payment error that
does not look at the order (`:1672`), the webhook that arrives before the
payment id (`:1757`), the empty payment id under a unique index
(`state_postgres.go:301`), deaths and overtaking in the worker
(`cmd/worker/main.go:69`, `queue.go:318`) and administrators who requeue the
same dead letter (`queue.go:219`). Of the clients: the session check whose
abandoned failure still signs out (*user*:440), an upload that is answered in
somebody else's session (*user*:651), the 401 that ends a newer session
(*admin*:233), the plan form that rounds (*admin*:276) and the row that is sent
back whole (*admin*:907).

## 2. Modules

| module | role |
|---|---|
| `DurableStore` | abstract: what a client of the API may rely on |
| `StatePersistence` | the write path of any process, any requests |
| `Limits` | the write path with what a handler must find before it changes anything: quotas, invitations, the first administrator |
| `Billing` | orders, IF-Pay, subscriptions |
| `TaskQueue` | Redis stream, workers, dead letters |
| `ImageLifecycle` | images, usage and objects in the API server and the worker |
| `UserWeb` | the user page against an external server |
| `AdminWeb` | the tabs of the administration against an external server |
| `MC...` | constants for TLC |
| `...Proofs` | theorems about the module of that name; for `UserWeb`, those on what the page shows are in `UserWebPageProofs` |

Definitions named `...` after a comment `Mutant` are not part of a model: each
is what a plausible bug would make of the definition after it, and some run's
property fails when it takes its place.

### StatePersistence

Only *which requests' effects* memory, a snapshot, a save in progress or the
database contains is kept: each is a set of requests. `phase[p]` is how far
process `p` has started, `holder[p]` who holds its `persistMu`, `image[p]` what
the save under way writes, `pc[r]` and `snap[r]` the handler of request `r`.

| action | code |
|---|---|
| `BootLoad`, `BootSave` | `NewServer` loads, then saves back, before it serves |
| `Mutate` | lock, `snapshotStateLocked`, change, unlock |
| `BeginSave` | take `persistMu`, take the save's own snapshot |
| `SaveCommits`, `SaveFails` | the transaction's outcome; a failed COMMIT may have taken effect |
| `RollBack` | `persistOrRollback`'s error branch; the worker does not roll back |
| `Accept`, `DeliveryFails`, `Refuse` | what follows the save, `restoreSnapshotAndPersist`, the answer |
| `Crash` | the process dies anywhere |

`met[r]` is history: the requests whose handlers overlapped `r`'s.
`SaveFails` may leave the database with the old or the new contents: a lost
answer to COMMIT is a fault the code is exposed to. `Kind` says which of the
three shapes of handler a request has: persist; persist and then mail or
enqueue; the worker's persist without rollback.

`DurableStore` is what a client is promised: success is said only of what is
stored and stays stored, an error only of what is not stored later.
`KeepsPromise` is the refinement, with `stored <- db` and the answers derived
from `pc`.

### Limits

Extends `StatePersistence`: the state is still a set of requests, and what a
*meter* shows is what the requests in it add up to (`Used`). Meters are the
metrics of a plan (`internal/domain/usage.go`), the five limits of an invitation
(`invites.go:83`), and, with a limit of one, the first administrator
(`server.go:1144`) and the account of an email (`server.go:985`). A request is
admitted while every meter it checks stays within its limit.

| action | code |
|---|---|
| `CheckAndCount` | `recordImageDelivery`, the API-key branch of `userAuth`, `redeemInvite`, `adminBootstrapComplete`, `register`: check and change in one locked section |
| `TurnAway` | the check fails; a delivery leaves a risk entry |
| `CheckUpload`, `UploadBreaksOff`, `CountUpload` | `uploadImage`: check under `RLock`, write objects, count under `Lock` without looking again, now with the variants' bytes |
| `RecordRisk` | `recordRisk` after a refused or failed delivery: a request of its own, whose failing save rolls back like any other |
| `AnswerFailure`, `Die`, the rest | the handlers of `StatePersistence` |

An import adds bytes and checks nothing: a request with `Checks[r] = {}`. `due`
is what a running handler will still do without asking, `seen` the usage an
upload was checked against. `overran` is history: a request enters it when it
passes a limit *and* there is a reason: it does not check that meter, or it is
an upload whose meter grew since its check, or whose own cost did. Dropping
either reason makes `LimitsHold` fail.

### Billing

An order is one checkout by its owner for a plan. Each locked section of a
handler is one action with its save; a save that merely fails undoes its
section (no step), except in the two sections that follow a payment request.
`pc[o]` is the checkout handler: `CheckoutStart` creates the order and unlocks,
`CheckoutAttach` and `CheckoutError` are the two ways it comes back.
`gateway[o]` is IF-Pay's own record and moves by itself (`GatewayCreates`,
`GatewaySettles`): a payment may be created although the client saw an error.
Every event IF-Pay emits stays in `emitted` and may be delivered whenever and as
often as it likes, in two forms: with the order id in its payload, or with the
payment id alone. `Webhook` is the whole handler: the duplicate check, the order
lookup, the operation, the save. `Commit` knows the one thing the database
refuses: two orders without payment id, because both store the empty string
under a unique index.

Dates are abstracted to `term`: *running* before `EndsAt`, *retained* before
`RetentionEndsAt`, *over* after it. `TermPasses` ages memory and database
together, since both hold dates, not ages. History fields: `vouched` (an
administrator marked it paid), `granted` (subscriptions issued for it),
`overrun` (paid or closed at the moment its payment request failed, and set to
failed nevertheless).

### TaskQueue

Redis is external: `stream` grows, `delivered` is the group's last id, `pel[i]`
the pending record of entry `i` with owner, delivery count and whether it has
been idle for the claim time. A worker alternates `ClaimStale` and `Receive`;
either gives it a batch (`Hand`), whose delivery counts it then reads (`Count`),
and whose messages it then works on one by one: `Succeed` then `Ack`, or `Fail`,
which short of the limit leaves the entry pending and otherwise leads to `Bury`.
Failing commands drop what the code drops (`CallFails`, `CountFails`,
`FinishFails`), and `Dies` takes a worker away between any two commands.
`RequeueDeadLetter` is two actions, `AdminRead` and `AdminRequeue`, because it
reads before its transaction. `known[w]` is the set of images the worker loaded
when it started: `ProcessTask` fails for any other.

`disturbed` is history, per task: a delivery of it was cut short by a fault, or
another worker was handed it while one still held it, or its dead letter was put
back after it had been deleted.

### ImageLifecycle

Two processes, `"api"` and `"worker"`, each with its memory (`mem[p]`: status
and variant bytes per image, bytes counted per user), one database and one
object storage (`objects`, a set of keys `<<image, "original">>` or
`<<image, kind>>`). `Boot` loads; load and save-back are one step here, since
`StatePersistence` has what happens between them.

A request to the API server is a `job`, run once, in the order of the code:
`UploadPut` or `ImportPut` writes objects under fresh ids, `Create` is the locked
section; `DeleteImage`, `AdminDeleteImage`, `AdminFreezeImage` and
`AdminPurgeExpired` are locked sections that note which objects to remove. Then
`Save` or `SaveFails` (the database may hold the change all the same; the
snapshot comes back; uploads and imports go on to remove what they wrote), then
`RemoveObject` key by key, or `Enqueue`, or `EnqueueFails`, which undoes the
upload, removes and saves again (`SaveUndone`). The import takes its snapshot
before it writes objects (`server.go:2554`), the upload after.

The worker runs `ProcessImageVariants` as `ProcessRead`, `ProcessPut`,
`ProcessCommit` (merge, moderation, the difference in bytes) and `ProcessSave`,
without a rollback. libvips is external: it makes any variants of any size up
to `MaxVariant`. A task that fails stays in `tasks`; what becomes of it is the
subject of `TaskQueue`.

History: `gone` (the deletion was saved, or the upload refused), `again` (an
administrator deleted or froze the image after its deletion), `strayed` (a
removal failed, the server died, or a rollback changed the image of another
request). Subscriptions are left to `Billing`: an upload may be allowed and a
user's retention over at any time.

### UserWeb

`app` is the state of the `App` component (view, user, whose usage, token,
IF-Pay flag, gallery), `ui` the local state of the view that is mounted, `kept`
the token in `localStorage`, `wire` the calls in flight. A call is sent with
what its handler closed over, is served or refused, and is answered: three
steps, between which anything else may happen. The server is external and as
small as the answers need: sessions, accounts, names, images with their
privacy, and the number of orders and key changes of an account.

`Render` is React. It commits a new `app`; if the view on the screen
(`Screen`) changes it mounts the new one and lets calls of the old one stop
mattering to it (`live`); it runs the effects whose dependencies changed
(`LoadEffect` on a token, `OrdersEffect` and `KeysEffect` in their views) and
their clean-ups (`Cleaned`). Every action of the page ends in it, so no effect
can be forgotten.

| actions | code |
|---|---|
| `OpenAuth` ... `Navigate`, `Logout`, `SwitchMode` | links, menu, `handleLogout` (*user*:593), `AuthView` |
| `Submit`, `StartIFPayOAuth` | the forms of `AuthView`; `startIFPayOAuth` |
| `SignedIn`, `IFPayCallback`, `AuthAnswered`, `OAuthStarted` | `handleLogin` to `handleResetPassword` and the callback effect |
| `Loaded`, `LoadFailed` | the session effect (*user*:426) |
| `UploadFile`, `UploadAnswered`, `UploadShown` | `handleUpload`, whose success is shown 250 ms later |
| `Select`, `DeleteImage`, `TogglePrivacy` and their answers | `GalleryView`, `ImageDetailView` |
| `Checkout`, `CheckedOut`, `RefreshOrders`, `OrdersAnswered` | `PricingView` and `handleCheckout` |
| `CreateKey`, `RevokeKey`, `KeyWritten`, `KeysAnswered`, `ImportBackup`, `SaveProfile` | `ApiView`, `BackupView`, `SettingsView` |
| `Reload`, `Reopen` | the page is left, also for IF-Pay, and opened again |

`astray` is history: the topics (session, usage, gallery, detail, profile, rows)
that an answer has put out of step because a write overtook it, because it
belonged to an account that is no longer the page's, or because a write's
answer was lost. A full answer of the page's own account settles its topics
again. So the properties say exactly what the page shows in every behaviour in
which none of these three happened to the topic, and what is left of it in the
others.

A *journey* bounds a behaviour: the views and forms it visits, the accounts and
images, and how many sessions, reloads, calls in flight and faults. TLC explores
the union of the journeys of `MCUserWeb`.

### AdminWeb

`tabs[t]` is a tab: at its gate (`admin` false: `loading`, `needs` for the
first administrator, `begun` for the second factor's code, `submitting`) or in
the console, with one view mounted, its `rows` or `form`, its flags (`busy`:
the operations that hold one) and its dialog. `key` is the token that all tabs
share, and a call takes it when it is sent (`Ask`).

| actions | code |
|---|---|
| `SubmitCurrentStep`, `StatusAnswered`, `Started`, `Authenticated`, `AuthFailed` | `AdminAuthGate` |
| `Denied`, `LoggedOut` (`ClearAdminSession`) | `adminFetch` on a 401, `handleLogout` |
| `HandleStorage` | the storage event in the other tabs; `told` is an event on its way |
| `Navigate`, `Refresh` | `AdminConsole`; the search and refresh buttons of images, audit log, open platform and queue |
| `Confirm`, `Cancel`, `Open...` | the dialogs |
| `SetUserStatus`, `SavePlan`, `SetPlanPublication`, `ModerateImage`, `RequeueDeadLetter`, `SaveConfig`, ... | the handler of each operation up to its `await` |
| `Loaded`, `LoadFailed`, `OpDone`, `OpFailed` | what follows the `await`: rows or form, flag, dialog, and the read that follows most operations |

The views share one shape, which the code repeats for each: read when mounted,
operations with a flag, a read after most of them. `FlagOf`, `Confirmed`,
`Reloading` and `Filling` say in what they differ. A quota is counted in
quarters of a GB, so that `ToGBInput` can round.

History: `behind` (tabs whose rows were overtaken by a write, of theirs or of
others, or whose answer was lost), `lapsed` (tabs let in by a status answer
after the session had ended), `wanted` (the quota last meant for a plan),
`undone` (plans that a publication from outdated rows has written).

## 3. Runs

Every run finishes without error, except the two marked *violation*, each of
which shows one disagreement of section 6.

| run | instance | checks |
|---|---|---|
| `persistence_settles` | 1 process; 2 plain, 1 delivering; 3 in flight; saves and deliveries fail; 1 crash | `AckedIsDurable`, `SoloRefusedLeavesNoTrace`, `EveryRequestSettles` |
| `limits` | 1 process; 2 uploads, 2 deliveries, 1 risk entry; 3 meters with a limit of 1; 2 in flight; saves fail; 1 crash | `LimitTypeOK`, `LimitsHold`, `AnsweredFitLimits` |
| `persistence_serial` | 1 process; plain, delivering, task; one in flight; all faults; 2 crashes | `KeepsPromise` |
| `persistence_overlap_loses` | 1 process; 1 plain, 1 delivering | *violation* of `EveryAckedIsDurable` |
| `billing_order` | 1 user, 1 order, 2 plans, all events in both forms | `TypeOK`, `PaidNeedsMoney`, `PlanFollowsSubscription`, `OneGrantPerOrder`, `ReceivedSuccessIsHonoured`, `PaidStaysPaid`, `ClosedStaysClosed`, `MoneyIsNoticed` |
| `billing_orders` | 1 user, 2 orders of the plan held already, successes and refunds without order ids | `UploadsArePaidFor`, `UnmatchedAreOfOneOrder` |
| `billing_paid_fails` | as `billing_order` | *violation* of `EveryPaidStaysPaid` |
| `queue_faults` | 2 workers, 2 administrators, 2 tasks, batches of 2, 2 retries, 1 fault | `TypeOK`, `NothingIsLost`, `DeadLettersHaveFailed`, `DeadLettersAreUndone`, `OneCopy` |
| `queue_settles` | 2 workers, 1 task, 2 faults | `EveryTaskSettles` |
| `images_lifecycle` | 3 requests, 2 images of 1 user with the same hash, 1 kind of variant of size 1 or none, room for one upload, 1 fault | `TypeOK`, `StorageIsCounted`, `ShownHasObjects`, `NoOriginalLeftOver` |
| `web_user` | 14 journeys; 3 accounts, 1 image, up to 2 sessions, 3 calls in flight, 1 reload, 1 fault | `TypeOK`, `ShownUserOwnsToken`, `TokenIsChecked`, `PageIsServers`, `RowsAreServers`, `NothingSpinsForever` |
| `web_admin` | 19 journeys; up to 2 tabs, 2 rows, 2 sessions, 3 calls in flight, 1 reload, 1 fault | `TypeOK`, `ConsoleHasSession`, `BusyIsInFlight`, `SubmittedIsShown`, `GateIsTrue`, `RowsAreServers`, `QuotaIsWanted` |

What the properties say is in the comment before each. The ones that need a
word here:

* `AckedIsDurable` excuses a request only if a handler it overlapped rolled
  back. Three requests in flight are the least in which a save carries the
  changes of two others, one of which is rolled back while the third is
  acknowledged.
* `LimitsHold` speaks of all states the code keeps, the snapshots that a failing
  handler may put back over what others have counted since included. It bounds
  the excess: without the requests that overran a limit, the others fit.
  `AnsweredFitLimits` speaks of answers: two people told that they are the first
  administrator need not both be in one state, if a rollback or a restart came
  between. It has the exception of `AckedIsDurable`.
* `SoloRefusedLeavesNoTrace` is about saves whose outcome is known: an ambiguous
  COMMIT leaves the refused change in the database until the next save.
* `OneGrantPerOrder`, `PaidStaysPaid`, `ClosedStaysClosed`,
  `ReceivedSuccessIsHonoured` make one exception, by name: an order that was
  *overrun*. `billing_paid_fails` shows that the exception is needed.
* `UnmatchedAreOfOneOrder` bounds what a success without order id can lose: an
  event finds no order only while memory does not know its payment, because the
  request failed or is under way, or the id was not saved before a restart; that
  is one order at a time, since the database refuses the next checkout. That the
  refusal hurts the next customer is a disagreement of section 6.
* `DeadLettersHaveFailed`, `DeadLettersAreUndone` and `OneCopy` excuse only the
  very task whose delivery was disturbed; the other task of the run shares
  batches, workers and faults with it.
* `StorageIsCounted` is about each process by itself: the two memories drift
  apart, and each stays consistent. It excuses users with an image in `again`.
* `ShownHasObjects` and `NoOriginalLeftOver` are the two directions of "what is
  shown is stored": the first under every fault, the second but for `strayed`.
* `TokenIsChecked` has no exception: whatever is late or lost, a page with a
  token and no user has a live session check of that very token in flight.
* `PageIsServers` and the two `RowsAreServers` speak of
  moments at which all calls are answered; the hard part is that a write, an
  effect and a read of two views or two accounts may have been answered in any
  order before.
* `QuotaIsWanted` follows a quota through reading, rounding, editing, saving and
  publishing in two tabs. It is about whole GBs: the form changes any other
  number, and a quota below half a GB becomes *no limit* (*admin*:276).

**Bounds.** `MaxInFlight`, `MaxCrashes`, `MaxEntries`, `MaxFaults` and
`MaxVariant`, and for the clients the journeys and `MaxWrites`, are the only
ones. Requests, orders and tasks are run once each. Two requests and one
crash reach every known way to lose data, and the theorems cover the rest;
`AckedIsDurable` was also run with a task as fourth request, three in flight,
ambiguous commits and a crash (2.7 million states). In `limits` uploads wait
between check and count outside the two in flight, so that four handlers run at
once; every limit is one, and the deliveries, the uploads' events and their
bytes each contend for it. An
order's events are finite by the life cycle of a payment. With two tasks and
two entries a task can be requeued while the other has not been enqueued, and
batches of two mix tasks; with one task and three entries, three retries and
the same faults (9.9 million states) the properties of `queue_faults` hold
too. `queue_faults` uses symmetry of workers, tasks and administrators,
`images_lifecycle` of requests and images, `limits` of uploads and of deliveries;
all check invariants only. Three
requests are an upload and two that race over its image, or two uploads and a
rollback; a second processing may find a variant or lose it.

The clients' views share little state, so a journey visits the views that do:
upload with gallery, checkout with IF-Pay, import with gallery, two accounts
after each other on one view, one plan or order list in two tabs. Two calls in
flight are the least that can overtake each other, the third is the late one of
an earlier view or session. One fault is enough because every topic it touches
leaves the property until it is settled again. A journey with a third call has
one session, one with two sessions has two calls, except where few forms are
visited. The queue view has a journey with three calls, since a read of it is two
calls one after the other and its refresh button starts another at any time.

**Larger instances.** The runs are sized to end in a minute on two cores. These
larger instances passed as well: `limits` with uncertain commits and failing
deliveries (1.5 million states), `images_lifecycle` with variants of sizes 1 and
2 (1.5 million), `web_user` with three calls in flight in two sessions for
upload, checkout, keys and profile, and two images in an import (1.4 million),
`web_admin` with three calls and a lost one on the sign-in pages of two tabs and
with two rows, two views and a fault together (1.6 million).

**Fairness.** `StatePersistence!LiveSpec`: a handler that has begun runs on (no
step of it waits for a client, each save has a 10 s context, Go's mutexes serve
the longest waiter), and a started process loads (`docker-compose.full.yml`
restarts containers). No fairness on `Mutate`: nobody has to send a request.
`Billing!LiveSpec`: IF-Pay repeats an event until it is answered; nothing is
assumed of administrators, checkouts or the clock. `TaskQueue!LiveSpec`: weak
fairness of each worker, of enqueueing and of ageing; none of administrators.
The clients have none: a server need not answer, so `NothingSpinsForever` and
`BusyIsInFlight` say instead that what waits has a call to wait for.

`CHECK_DEADLOCK` stays on everywhere: `Quiescent` is the idle server, workers
poll for ever, IF-Pay and administrators can always act, and on a page there is
always something to click.

## 4. Proofs

| theorem | states | assumes |
|---|---|---|
| `StatePersistenceProofs!TypeCorrect` | `TypeOK` | |
| `...!AckedDurable` | `AckedIsDurable` | one process |
| `...!SoloTraceless` | `SoloRefusedLeavesNoTrace` | one process, saves with a known outcome |
| `...!SerialRefinement` | `KeepsPromise` | one process, one request in flight |
| `LimitsProofs!ImplementsWritePath` | `Spec` of `StatePersistence` | |
| `...!LimitTypeCorrect`, `LimitsAlwaysHold` | `LimitTypeOK`, `LimitsHold` | |
| `...!AnswersFit` | `AnsweredFitLimits` | one process |
| `...!StrictLimitsAlwaysHold` | no state exceeds a limit that is checked and counted in one section | |
| `...!AtMostOneWinner` | at such a limit of one, two undisturbed requests are never both acknowledged | one process |
| `BillingProofs!TypeCorrect`, `MoneyFirst`, `PlanTrue`, `GrantedOnce`, `UploadsPaid`, `PaidIsKept`, `ClosedIsKept`, `SuccessHonoured`, `UnmatchedIsOne` | `TypeOK`, `PaidNeedsMoney`, `PlanFollowsSubscription`, `OneGrantPerOrder`, `UploadsArePaidFor`, `PaidStaysPaid`, `ClosedStaysClosed`, `ReceivedSuccessIsHonoured`, `UnmatchedAreOfOneOrder` | |
| `TaskQueueProofs!TypeCorrect`, `NothingLost` | `TypeOK`, `NothingIsLost` | |
| `...!OneCopyOnly`, `DeadLettersFailed`, `DeadLettersUndone` | `OneCopy`, `DeadLettersHaveFailed`, `DeadLettersAreUndone` | |
| `ImageLifecycleProofs!Types` | `TypeOK` | |
| `...!ObjectsAreThere`, `ShownImagesHaveObjects` | `IInv`, `ShownHasObjects` | |
| `...!OriginalsAccounted`, `NothingLeftOver` | `OInv`, `NoOriginalLeftOver` | |
| `...!EveryStateIsCounted`, `StorageCounts` | `AllCounted`, `StorageIsCounted` | |
| `UserWebProofs!AlwaysChecked`, `NothingSpins` | `TokenIsChecked`, `NothingSpinsForever` | |
| `UserWebPageProofs!TypesHold`, `UserOwnsToken`, `RowsAreTrue`, `PageIsTrue` | `TypeOK`, `ShownUserOwnsToken`, `RowsAreServers`, `PageIsServers` | |
| `AdminWebProofs!Types`, `ConsoleSession`, `BusyTrue`, `SubmittedShown`, `GateAnswers`, `RowsTrue`, `QuotaKept` | `TypeOK`, `ConsoleHasSession`, `BusyIsInFlight`, `SubmittedIsShown`, `GateIsTrue`, `RowsAreServers`, `QuotaIsWanted` | |

All take the named assumptions on constants of their modules and nothing else;
the bounds are arbitrary, so they bound nothing. Two assumptions are there for
the proofs: `KindAssumption` of `ImageLifecycle`, that no variant is named like
the original's key, and `RoomAssumption` of `AdminWeb`, that the bound on calls
in flight leaves each tab the call it opens with. `FiniteAssumption` and
`TabAssumption` say that images, kinds and tabs are finitely many.

**StatePersistence.** None of the properties is inductive: why an acknowledged
request survives depends on every place its effect can be overwritten from. The
invariant behind `AckedDurable` follows the effect through memory, the save in
progress, the database and the snapshots of every handler in flight: a snapshot
taken without it belongs to a handler the request overlapped, and putting that
snapshot back is what makes the request disturbed. `FlightInvariant` is the
common ground (who holds `persistMu` is saving, a dead process has no handlers,
handlers in flight together have met). `SoloTraceless` is the dual: the effect
of a refused solo request is in none of those places. `SerialRefinement` adds
that with one request in flight the snapshot is the database before it.

**Limits.** `ImplementsWritePath` gives every theorem above to handlers that check
first. `LimitsHold` is inductive with `DueWasAdmitted`: an upload under way was
admitted for what it was checked against. `CountStaysWithin` is the lemma about
numbers: who counts without overrunning leaves all of the memory within the
limit. Every part of it is then within the limit too (`PartIsWithin`), so
`CountFits` holds for the requests that overran nothing; all else moves whole
states around, and a state that fits fits wherever it is put. The limit is thus
exceeded by no more than the requests in `overran` add, in any state. `AnswersFit` joins `LimitsHold` of the database with
`AckedDurable`: what was acknowledged and not disturbed is there.
`OnlySurprisesOverrun` says who can be in `overran`: who does not ask, or an
upload. Where all ask and count in one section (`Strict`) it is nobody, hence
`StrictLimitsAlwaysHold`, and one winner where there is room for one
(`AtMostOneWinner`). `Used` is a
parameter, assumed to be what a sum of costs is (`UsedAssumption`, which TLC
evaluates on the instance).

**Billing.** `IInv` says that memory and database differ in payment ids only
(`Agree`, because `CheckoutAttach` may fail to save and is not rolled back),
that the fields of a state are consistent with each other (`Consistent`: the
plan shown, the number of grants for each status, and that a subscription an
order brought still carries that order's plan, by which a refund will find it),
that successes are real, and that an order is overrun at most once. Every
operation is shown once to be `Sound`: consistent again, and progress of every
order. A handler that commits a sound successor keeps `IInv` (`CommitKeeps`);
the checkout's sections, which do not fit that shape, have a lemma of their own.
`SuccessHonoured` needs two facts more (`HInv`): a payment is only asked for, and
so a success only reported, for an order that exists (`Asked`), and what memory
*or* database has noted as seen has been honoured in memory, since an event is
noted in the section that acts on it and progress takes nothing back. `UnmatchedIsOne`
adds that events are about payments IF-Pay knows (`Reported`): with `Asked` their
orders exist, and with `Agree` memory holds no more orders without a payment id
than the database.

**TaskQueue.** `QInv` adds to `NothingIsLost` what a worker holds: its messages
were delivered, and what it is about to acknowledge has been processed. The
lemmas are one for each way an action touches Redis: add, hand out, finish, or
leave alone. The three properties of a task in course lean on each other, and
none is inductive. `CInv` joins them: an entry that is held is pending and held
once, by one worker and in one slot (`HeldOnce`); a task is one entry or one
letter (`Single`); an entry was delivered as often as it was tried, and once
more while it is held (`Attempts`), and a worker's count is no larger
(`Counts`), so that what is buried has failed often enough; and what was done
is about to be acknowledged (`Finished`), so that it is not buried. Every step
that would break one of these ends the course of the task: it enters
`disturbed`. `ShrinkHeld` and `LettersKept` do the steps that only let go.

**ImageLifecycle.** `ShownHasObjects` speaks of two memories, but what a memory
shows next comes from the database or from a snapshot, so `IInv` says of
memories, database and snapshots alike that they are backed: what they know of
an image is in the object storage unless the image is `gone`. A handler that
removes objects does so for images that are `gone`, one that has written objects
still finds them, and the image the worker is at stays active in the worker's
own memory. Store and `gone` only change in one direction (`Weaker`), under
which everything stays backed. `HandlerStep` and `WorkerStep` do the step of one
actor once for all; each action's lemma shows what its new record and memory
are. Bytes play no part.

`NoOriginalLeftOver` is the other direction, and needs to know where the image
of each original went. `OInv` says that an original in the storage, not
strayed, is shown by the API server, or about to be shown by a handler that
wrote it, or about to be removed by a handler that must (`Accounted`), and the
same of the snapshot a handler may put back (`SnapAccounted`), except that the
images this rollback would hit are strayed by it. Ids are fresh (`MintedFirst`,
`PutUnknown`) and no two makers share one (`MakersApart`).

`StorageIsCounted` needs memories, database and snapshots to count alike
(`AllCounted`), the latter two because they become memories. `Occupied` is a sum
over a set, defined by a fold. What a fold over a set is (`TotalStep`: an
element's value and the rest's sum, whichever element) takes an induction over
subsets, which `SetInduction` does by a least counterexample; from it come the lemmas for taking an image out (`TotalTake`),
for values that do not change (`TotalSame`) and for disjoint sets.

**UserWeb.** Who asks is a matter of effects: the session check is started and
abandoned by `Render`, after any handler. `CheckInv` adds to `TokenIsChecked`
the shapes of records, and that an answer which brings a user brings a real one
(`CallTrue`): a sign-in or a profile that set the token and no user would leave
nobody to ask. `Render` keeps the check of the token, or starts one; `ServedStep`
and `ReplyStep`, `PageStep` and `DoneStep` do the step of the server and of the
page once for all, and each handler's lemma shows what page it leaves.

The other theorems take `CheckInv` as given, and each repeats that division of
work: one lemma for `Render`, one for what the server makes of the calls in
flight, then the handlers, for which "What each step does" says once how every
action changes the page. `SpinInv` strengthens `NothingSpinsForever` by the kinds of call that the mounted
view may wait for, since a call of a view that is gone ends nothing. `OwnInv`
follows ownership through everything a token or a user can come from: the calls
in flight and their answers (`CallOwns`), the registration that waits for its
code (`PendingOwns`), localStorage and the page (`PageOwns`). `RowsInv` says that
the rows are the server's *or a call will bring them* (`BringsOrders`,
`BringsKeys`: a read that matters, or a write whose answer makes the view read
again), and that an answer which is not stale carries them; it needs `OwnInv` to
know whose they are.

`PageIsServers` needs two more of that kind. `ProfileInv` is the profile's, which
only `verify` and `profile` change, and their answers bring it. `PicInv` is
the gallery's, and goes image by image: what the page shows of an image is `Right`
or a call is `Coming` that will change it, which may be a load of everything, or
one upload, import, deletion or toggle of that image. One case is not of this
form. An upload prepends its image without looking whether the gallery has it, so
an upload that nothing overtook must be sure that no list, on the page or in any
answer, has its image as private (`Fresh`, `Plain`); else the image would be
shown twice. The detail view is a copy of an item (`DetailAt`): it is in the
gallery or what will change the gallery will change or close it.

`TypeOK` comes last because it needs the others: a session check is of a token,
so its answer is of an account (`OwnInv`), and images are items (`PicInv`).
`TypeInv` adds what makes the rest inductive. Sessions stay within their bound as
the calls that may still make one (`Opening`) are counted with them; a code is
verified for an account of a session, so for a registered one; and the nickname
that SettingsView holds is one that may be saved, since the view is mounted with
a user's (`AliasSort`).

**AdminWeb.** One invariant, `AInv`, carries all seven theorems. `CallsInv` says
what a call is whatever became of its tab: an operation belongs to its view, a
`save` sends the whole quota that was meant, only a status answer lets in.
`TabsInv` relates a tab with the calls that matter to it, both ways: every call
has its flag, its dialog, its waiting gate or its mounted view, and every flag
and every waiting gate has its call, of which those that share a flag are one.
`RowsInv` says that a tab which is not behind shows the server's rows *or has an
answer coming*, and that an answer in flight which is not stale carries the
server's rows, and a publication which is not outdated the server's quota: the
last is what `QuotaIsWanted` needs, and why the properties of rows and of quotas
are one induction. `MountStep` and its kin do a tab that turns to another gate
or view, `DeadStep` and `LiveStep` an answer that no longer matters and one that
does, `ServerStep` and `AnswerStep` a call that is served; each action's lemma
shows which it is.

**Only model-checked.** Liveness (`EveryRequestSettles`, `MoneyIsNoticed`,
`EveryTaskSettles`), which the prover does not reach.

## 5. Not modelled, and why

* Columns, JSON, formatting, validation of inputs: data no property tells apart.
* Codes and their replacement, administrators' setups and sessions, the rate
  limiter, the access decision: planned, below. Of `Limits`: what makes a request
  refused whatever the meters show (dates and states of invitations, banned users,
  unverified emails, an owner without a plan, a file over the limit for one), and
  usage that shrinks by a deletion, which only makes room. Usage is never reset by
  the month; no code does.
* What a deletion leaves when the worker is at the image: it writes variants
  after the API server has removed them, and its save brings the image back in
  the database (`server.go:2018`, `:2080`, against `docs/api.md:22`).
  `ImageLifecycle` has these steps; its properties are about originals and about
  each memory, where the code keeps them.
* Overlapping rollbacks *inside* Billing: `Billing` takes each section with its
  save as one step, and `StatePersistence` shows what overlapping sections do to
  each other. A module that composes the two is planned.
* Two processes in one run: `StatePersistence` has them (`Procs`, `Host`,
  `TasksOnWorker`), but with two nothing is durable (section 6).
* The in-memory queue and store of development; cryptography.
* Of the user page: the plan catalogue, the documents' text, toasts, avatar
  checks, signed URLs, the request to destroy an account, the export, search and
  filters. They read, or write, without touching what another part shows. The
  session check reads account and images with two calls at once (*user*:429) and
  shows them together; the two are one read here.
* Of the administration: the details dialog of a row, filters and CSV, the
  fields of the invitation form and the effect that chooses its plan, plans that
  are visible and not for sale, slugs, typed reasons and the word `PURGE`, the
  health check, the texts of notices. `OpenPlatformView` reads with two calls at
  once; they are one here. The queue's driver is Redis, without which there are
  no dead letters to show. A dialog's overlay is taken to keep every click from
  the page behind it, the keyboard included. When a tab is loaded again, its
  calls that have not reached the server never do.
* The clients' servers are what the API documents, not `Billing` and
  `ImageLifecycle`: a composition would multiply both.

## 6. Where the code and what is said of it disagree

Two runs reproduce a disagreement, quoted in `PROJECT.json`:

1. `persistence_overlap_loses`: a failing mail or queue entry takes back
   *everybody's* changes since its handler began, saved and acknowledged or not
   (`server.go:409`).
2. `billing_paid_fails`: a payment request that fails after the order was paid
   sets it to failed (`server.go:1672`), which every other path refuses
   (`server.go:3166`).
Others follow from the same models by changing a configuration or dropping an
exception:

* the worker fails every image uploaded after its start (`server.go:1991`;
  `docs/api.md:79` has it process uploads): `EveryUploadIsProcessed` of
  `TaskQueue` under `LiveSpec` with one worker, one task, `Admins = {}`,
  `Flaky = {}`, `RetryLimit = 2`, `BatchSize = 1`, `MaxEntries = 1`,
  `MaxFaults = 0`.
* with `Procs = {api, worker}` and `Host <- TasksOnWorker`, `AckedIsDurable`
  fails: the worker's `persistState` rewrites the database from the memory it
  loaded at its start (`server.go:2080`; `docs/api.md:79`).
* a refused change comes back: of two overlapping requests whose saves fail, the
  second's snapshot contains the first's change (`server.go:389`).
* a second subscription is issued for an overrun order that is marked paid again
  (`docs/runbook.md:21` calls marking paid idempotent): the 2 in
  `OneGrantPerOrder`.
* a success that carries no order id and arrives before the payment id is stored
  is recorded as seen and lost (`server.go:1757`; `docs/runbook.md:20`):
  `ReceivedSuccessIsHonoured` without its condition on "named".
* an order that never got its payment id makes the database refuse the next
  checkout (`state_postgres.go:301` against `migrations/001_initial.sql:137`):
  `CheckoutStart`'s second disjunct.
* a task is buried after fewer failures than the limit when a worker died with
  it (`cmd/worker/main.go:77`; `docs/api.md:80`): `DeadLettersHaveFailed`
  without `disturbed`.
* a session check that fails after another sign-in signs the new session out and
  leaves its user on the screen (*user*:440): `ShownUserOwnsToken` without
  "session" in `astray`.
* an import does not reach the gallery (*user*:2274): `PageIsServers` without
  it.
* a status answer that the end of the session overtook opens a console without
  a token (*admin*:2368): `ConsoleHasSession` without `lapsed`.
* opening and saving a plan of a quarter GB takes its limit away (*admin*:276):
  `QuotaIsWanted` for every quota.

## 7. Plan

1. Write path, billing, task queue: done, with the theorems above.
2. `ImageLifecycle`: done, with a theorem for `ShownHasObjects`; left is what
   holds of variants and of moderation across the processes (an image the worker
   froze is still shown by the API server, against `docs/runbook.md:28`).
3. `UserWeb` and `AdminWeb`: done, both clients in the views and operations
   listed above.
4. `Accounts` and `AdminAuth`: codes that are replaced and used once; sessions;
   bootstrap. One run each or one together.
5. Composition of the checkout with overlapping rollbacks: the zero order of
   `server.go:1689`.
6. Quotas, invitation limits and the first administrator: done in `Limits`. Left:
   rate limiter, audit truncation, and the pure decisions (access policy, variant
   merge) against reference definitions.
7. Proofs: the safety properties of all runs are done. What a later component
   states comes with its theorem.
