# MingWant Studio in TLA+

A verification development for MingWant Studio: the life of a paid generation
task in the Go backend, the adapter that sells a web work bench as a video API,
the synchronisation of user data and the generation batches in the browser, and
the bridge between coding agents and the canvas. It is model-checked with TLC,
and most safety properties are proved with TLAPS for all values of the
constants. All paths below are relative to the repository.

1. [The system](#1-the-system) – its parts, their state and what makes them correct
2. [The modules](#2-the-modules) – what is written and what is planned, in order
3. [TaskLifecycle](#3-tasklifecycle) – one billed task of the backend
4. [DolaAdapter](#4-dolaadapter) – leases, submissions and restarts of the adapter
5. [UserDataSync](#5-userdatasync) – documents of several users in one browser
6. [CanvasAgent and CodexTurns](#6-canvasagent-and-codexturns) – the local agent server
7. [CanvasGeneration](#7-canvasgeneration) – batches of paid generations on a canvas
8. [Runs](#8-runs) – what each run checks, its bounds, the fairness
9. [Where the code departs from its documents](#9-where-the-code-departs-from-its-documents)
10. [Proofs](#10-proofs) – what is proved, from what, and how
11. [What is not modelled](#11-what-is-not-modelled)

## 1. The system

Users describe images, videos, texts or storyboards on a canvas; the backend
turns a request into a *task*, reserves credits for it in a *billing order*, and
a *Worker* of one of several backend processes sends it to an external AI
provider, which charges for every accepted request. The backend processes share
one database (SQLite or PostgreSQL) and, optionally, Redis. One of the providers
is this repository's own *Dola adapter*, which drives browser pages. The canvas
itself lives in the browser: it is stored there, copied to the backend, edited
by the user, by generation tasks that come back, and by coding agents through a
local server. None of these parts shares a transaction with another: the
program's main problems are to never pay twice, never refund what was sent,
never charge for what was not delivered, and never lose or mix up what a user
made, whatever crashes, reloads or arrives late.

| Part (source) | State | Operations | Interacts through | Hard behaviour | Correct when |
|---|---|---|---|---|---|
| Task execution (`service/service.go`, `worker.go`, `provider.go`, `task_provider_checkpoint.go`) | row of `tasks`: status, lease owner and expiry, provider call state, provider task id, checkpointed result, next poll | claim, renew, preflight, dispatch checkpoint, create, poll, defer, checkpoint, complete, fail, recover after panic | conditional UPDATEs of the row; the order; the provider | leases that lapse while the Worker runs, crashes between statements, late answers | one create per attempt, a late Worker changes nothing, every task ends |
| Cancellation and retry (`service.go`, `repository/finance.go`) | the same row, `activeCancels` of each process | CancelTask, RetryTask | conditional UPDATEs racing the Worker's | the order to refund was read earlier; a retry replaces it | a refund only if nothing was sent |
| Billing orders (`repository/finance.go`, `service/finance.go`) | order status: reserved, running, uncertain, settled, refunded | reserve, mark running, mark uncertain, settle, refund, manual resolution | separate transactions after the row's | one of the two writes fails | settled iff delivered, everything unclear is under review |
| Credit accounts (`repository/finance.go`, `credit_policy.go`) | available and reserved balance, ledger entries, redeem codes | grants, reservations, settlement, refund, adjustment, redemption | conditional UPDATE of the account | concurrent requests of one user | balances equal the ledger, never negative |
| Streaming proxy billing (`handler/auth.go`, `stream_proxy.go`, `service/finance.go`) | an order without a task, an idempotency key | reserve, proxy, settle or refund | HTTP, orders | client disconnects, repeated key | one charge per key |
| Provider request log (`service/admin.go`) | `api_call_logs`, provider task id in order and task | LogAPICall | three statements, no transaction | crash between them | a billable success is never forgotten |
| RunningHub queue (`provider_runninghub_queue.go`) | next poll of waiting tasks, account slot | wait for capacity, defer, guard recovery | row and slot lease | lease lost while waiting | waiting costs no execution time, no double start |
| Runtime coordinator (`coordination.go`) | slot leases, rate windows, circuit counters (memory or Redis) | acquire, renew, release, allow, record result | Redis scripts | expiry under a live holder, two variants of the code | never more holders than the limit |
| Worker dispatcher (`worker.go`) | started/stopping flags, local slots, wait group | start, cycle, restart after a panic, shutdown | channels and mutexes | stop during a claim, panic in the loop | shutdown returns, no task is claimed after it |
| Manual and delivery recovery (`provider_task_recovery.go`, `task_delivery_recovery.go`) | a `manual-recovery:` lease on a finished row | query a failed task, resume a checkpointed delivery | the row, the order | recovery races a retry or another recovery | a delivered result is charged once |
| Generated resources and quotas (`generated_resource.go`, `upload_quota.go`, `storage_*.go`) | pending/ready resources, daily and stored bytes | claim, write, confirm, reserve, release | row locks, in-memory locks, object store | a pending row of a dead Worker | no lost or overwritten object, quota never drifts |
| Channel probe (`channel_probe.go`) | probe result and configuration hash of a model | probe task and its recording | tasks | result of an older configuration | a stale probe does not mark a channel healthy |
| Accounts, registration, e-mail codes (`auth.go`, `registration.go`, `email.go`) | users, sessions, codes with attempt counters | register, log in, verify | single transactions | attempts counted concurrently | a code is used once |
| Projects, characters, shots (`project*.go`) | documents of a project | edits, references to task outputs | single transactions | repeated registration of a task output | one output per task |
| Administration, settings, analytics | settings, reports | CRUD | database | little | – |
| Provider protocols (`provider_*.go`) | none of their own | encode and decode requests of eight providers | HTTP | partial streams, wrong status | outcome classified as not sent, refused or unclear |
| Canvas share (`canvas_share.go`, `user_data.go`) | shared snapshots, documents | save, share, revoke | HTTP | concurrent saves | no lost update |
| Dola adapter (`dola-adapter/src`) | tasks and browser accounts in a JSON file, leases, quotas, browser runtimes | create, pump, submit, rotate, poll, download, release, PATCH, recover | serialised store, one asynchronous run per due task | failed writes after memory has changed, crash between two writes, an answer that never comes | a prompt is sent once, a page has one driver, leases end |
| User data synchronisation (`web/src/services/user-data-sync.ts`, `lib/user-session.ts`, the stores) | stores in memory, a snapshot per user in the browser, versions known of the backend | edit, persist, log in and out, merge, batch, delete | timers, storage, HTTP | a session change or an edit during an await, failed downloads, reload | nothing of a user is lost, deleted unasked or given to another |
| Canvas agent bridge (`canvas-agent/src/canvas-session.ts`, `canvas-local-agent-*.ts(x)`) | event streams, last canvas state, waiting calls; approval and state queue of the page | tool calls, approval, state and result posts | SSE and HTTP | old streams that close late, posts given up that arrive, 30 s time-out | a result follows its canvas, no call is dropped |
| Codex turns (`canvas-agent/src/agents.ts`, `codex-thread.ts`) | app-server process, current thread, queue of turns, active thread of a canvas | start, resume, list, delete, turn | JSON-RPC on a pipe | two starts at once, exit at any await, answers out of order | a turn reaches its own thread and ends |
| Canvas generation (`web/src/pages/canvas/use-canvas-generation*.ts`) | node metadata, batch items, controllers, recovery | schedule, submit, track, store, stop, cancel, retry, recover | React state, task API | stale reads across awaits, lost creation answers, reloads | one paid task per item, success means media, every item ends |
| Canvas editor and pages (rest of `web/src`) | what the user sees | rendering, geometry, forms | – | little | – |

`PROJECT.json` lists the same parts with their status, and under `hazards` the
places where a test would hardly reach, each with the properties that watch it.

## 2. The modules

| Module | What it is |
|---|---|
| `TaskLifecycle` | one billed task: row, orders, Worker goroutines of several processes, cancel and retry handlers |
| `TaskLifecycleProofs` | proved about it: types, attempts, provider ids, terminal rows |
| `TaskBillingProofs` | further: one create request per order, the call state, settlement |
| `TaskRefundProofs` | further: refunds, while leases hold and while they lapse |
| `PaidJob` | abstract: what a relay in front of a provider that charges per request promises its callers |
| `DolaAdapter` | the Dola adapter; implements `PaidJob` |
| `DolaAdapterProofs` | proved: all its safety properties and the refinement |
| `UserDataSync` | two stores, their persistence and their copy on the backend, through sessions |
| `UserDataSyncProofs` | proved: all its safety properties |
| `CanvasAgent` | tool calls between the local server and the canvas pages |
| `CodexTurns` | threads and turns of the Codex app-server |
| `CanvasGeneration` | scheduler, executor and recovery of a storyboard batch |
| `CanvasAgentProofs`, `CodexTurnsProofs`, `CanvasGenerationProofs` | proved: all safety properties of the three |
| `MC…` | instances of each for TLC; one `.cfg` per run |

The modules do not share state, because the programs do not: a task of the
backend, a video of the adapter, the browser's documents and the agent server
meet only at HTTP requests, which each module models on its own side with every
outcome the other side may give (accepted, refused, lost before or after it took
effect). `PaidJob` is the common promise of the two relays.

Still planned, in this order:

1. `CreditLedger`: accounts, reservations, settlement, refunds, grants keyed by a
   unique reference, redeem codes, adjustments, proxied calls; balances equal the
   sum of the ledger and each order leaves the reserved state once.
2. `RuntimeSlots`: acquire, renew and release with expiry, local and Redis.
3. `WorkerDispatcher`: cycles, local slots, restart after a panic, shutdown.
4. `TaskRecovery`, which extends `TaskLifecycle` by manual queries and delivery
   recovery of finished rows.
5. `ResourceQuota`: pending resources and the daily upload quota.

No module uses RECURSIVE operators, so that each can be proved about.

Operators named `X_Word` above `X` are `X` with a plausible mistake (a dropped
condition, a forgotten release, a swapped order). They are not part of a
specification: substituted for `X`, each makes the property listed for it in
`PROJECT.json` fail, which shows that the property depends on that line.

## 3. TaskLifecycle

### State

| Variable | Code |
|---|---|
| `task` | the row: `status`, `billing_order_id` (`order`, named by the attempt that reserved it), `provider_call_state`, `provider_request_id` (`req`: 0, or the attempt whose create was answered with it), result checkpoint (`ckpt`), `lease_owner`, lease not expired (`lease`), next poll reached (`due`), execution time spent (`age`) |
| `order`, `orderReq` | `billing_orders.status` per attempt; whether the order knows a provider task id |
| `billable` | a billable successful call of the task is in `api_call_logs` (the code looks it up by task, not by order) |
| `run[c]` | the goroutine of the c-th claim: program counter, process, and its in-memory copy of the row (`tx.Save` later writes the whole copy back); `sent` is what its create request came to at the provider, which the program itself cannot read |
| `active[p]` | `activeCancels[task.ID]` of a process: which goroutine a cancellation reaches |
| `cancel`, `retry` | a CancelTask request between its statements; a RetryTask that has passed its checks |
| `up`, `claims`, `used` | processes alive; counters for the bounds; the attempts an administrator resolved and, as history, those whose running order a Worker refunded after a conflict (`used.clashed`) |

### Actions

Each action is one database statement or transaction, or one provider round
trip, with the decision the code takes on its result; between two of them any
other goroutine, handler, crash or expiry may come. A call that fails on its way
to the provider, a lost lease, a cancelled context and a passed deadline are
alternatives of the action in which they are noticed. In the order of
`processClaimedTask`:

`ClaimNextTask` → `Hydrate` → `Decide` (may a recovered task continue?) →
[`Capacity`, `CapacityFailed` for a queued account] →
`PrepareClaimedTaskProviderCall` → `MarkBillingRead` (the SELECT of the order) →
`MarkBillingRunning` (its conditional UPDATE) → `Dispatch` → `Send` →
`LogOrder`, `LogTask` (LogAPICall) → `Poll` → `Refresh` → `Defer`, or `Persist`
→ `Reread` → `Checkpoint` → `Complete` → `Settle`; a failure goes through
[`Salvage`] → `JudgeFailure` → `SaveTerminal` → [`Conflict`] → `Billing`, or
through `SaveAlways` → `Billing` where the code does not look at the outcome of
the save. `Panic`/`PanicJudge` are `recoverWorkerTaskPanic`. `CancelRead` …
`CancelReview` are CancelTask, `RetryCheck`/`RetryTx` RetryTask with the user's
confirmation, `ResolveBillingOrder` the administrator. The environment:
`LeaseExpires`, `RenewTaskLease`, `Timeout`, `PollDue`, `Crash`.

Abstractions: a create is *accepted*, *refused* (a definite HTTP error), or has
no usable answer, and then the program goes by the type and the words of the
error (`billingFailureUncertain`, `service/finance.go:618`): one it knows, such as a
time-out, a reset or a 5xx, is ambiguous (*maybe*); any other, such as a plain
EOF, passes for a refusal although the provider may have taken the request
(*broken*). A poll ends with success, a definite
failure, an unclear one or "pending" – the budget of transient poll errors is
folded into "pending". A result is its checkpoint flag. `age` counts deferred
polls, and `Timeout` lets the clock reach the deadline at any moment.

### Switches

`Pollable` selects asynchronous video tasks (with a provider task id that a
recovered Worker can poll) or synchronous ones; `Queued` adds the RunningHub
account queue. `Faults` switches kinds of failure on: `local` (a local statement
fails), `panic`, `lapse` (a *live* Worker's lease expires), and four that the
documents exclude and the code does not: `sameOwner`, `crashInLog`, `billing`,
`overlap` (section 9). A run names the faults it allows.

### Properties

| Property | Says |
|---|---|
| `TypeOK` | types of all variables |
| `NoRefundOfKnownRequest` | an order refunded without an administrator was not accepted by the provider, nor did it fail with an error the program knows to be ambiguous; except after the conflict in `MarkBillingRunning` |
| `OneCreatePerAttempt` | an order pays for at most one create request, however often its lease changes hands |
| `CallStateHonest` | the stored call state never says "not dispatched" after a request of the row's attempt left |
| `RequestIdOfAttempt` | a provider task id in the row is that of the row's own attempt |
| `SettledIsDelivered` | an order settles automatically only for a delivered result of its own attempt |
| `DeliveredNotRefunded` | a delivered result is never refunded automatically, with the same exception |
| `RowNeverRegresses` | no late Worker brings an earlier attempt back into the row |
| `TerminalIsFinal` | a finished task changes its status only by a retry with a later order |
| `CallStateForward` | within an attempt the call state only moves forward |
| `AttemptInv` | the inductive invariant of section 10 |
| `TaskEnds` | every accepted task ends |
| `OrderEnds` | without a crash, every order is settled, refunded or put under review |

`AutoRefundNeverSent`, defined beside `NoRefundOfKnownRequest` and checked by no
run, is what the documents promise: no automatic refund of anything that may
have reached the provider. The code does not keep it in two ways, which are the
first rows of the table in section 9: an error whose words it does not know, and
a stale `MarkBillingRunning`. The property that is checked and proved leaves out
exactly these.


## 4. DolaAdapter

The adapter (`dola-adapter/src`) has one process, a JSON store and one browser
page per account. Its module models two clients' videos on their way through it.

| Variable | Code |
|---|---|
| `mem`, `disk` | the store's state in memory and its file: per account enabled, state, lease owner and expiry, cooldown and quota reset; per task status, account, tried accounts, quota note, next poll, age |
| `proc[t]` | the run of `processTask` for t (an entry of `activeTasks`) and what it carries across its awaits |
| `pendingFail` | updates of the pump's catch handler, which nobody awaits |
| `runtime`, `login` | browser runtimes alive; the account whose login page is being opened |
| `admin` | a PATCH of an account between its read and its write |
| `sends`, `known` | ghosts: requests the provider may have taken; accounts whose quota it said is used up |
| `faults` | counters for the bounds |

Every `await` is a step boundary. The order is that of `service.mjs`:
`CreateVideo`, `Pump`, then a submission `Claim` → `WaitAccount`, or `Mark` →
`EnsureRuntime` → `Connect` → `Send` → `Reply` → `Accepted` → `NoteQuota`, with
`ReleaseAccount` → `Requeue` or `FailTask` for what goes wrong; and a poll
`CheckAge` → `ClaimExisting` → `EnsureRuntime` → `QueryChain` → `TestReady` →
`MarkDownloading` → `Download` → `Succeed` → `ReleaseDone`, with `Repoll` and
`RenewForRetry` (after which a failed write leaves the lease to the pump's
handler). `CatchUpdate` is the pump's handler, `PatchRead`/`PatchApply` the
administrator, `BrowserLost`, `OpenLogin` and `LoginConnects` the browser;
`BecomesDue`, `TaskTimesOut`, `LeaseExpires`, `CooldownEnds` and `QuotaRefills`
the clock; `Crash` loses memory and starts from the file with the store's
recovery, and so does `CatchUpdateFails`, an unawaited update that cannot be
written and ends the process. A callback of `store.mutate` and the write of the
file are one step, because the store serialises them, but the write may fail
*after* memory has changed (`NotPersisted`): every caller then takes its error
path with a state that has moved on. `ReadyCheck` says whether the name
`isCreationReady` resolves (section 9).

Two assumptions are not enforced by the code. The lease (`leaseMs`, 45 minutes by
default, configurable from one minute, `config.mjs:85`) is longer than any
single run, so that `LeaseExpires` comes only between the runs of its holder; a
shorter setting lets a second run claim a page in use. And an Enter key that
fails has sent nothing, so that the click on the button that replaces it
(`browser-worker.mjs:282`) is the only send; `Send` is both.

`PaidJob` is the abstract promise: a job is *waiting*, *sent*, *delivered* or
*failed*, and is sent again only after the provider refused it. `ImplementsRelay`
states the refinement; the mapping `Phase` reads the phase from the task's status
and, for an open task, from what has left for the provider. A step of the lease,
browser or store machinery is a stutter there.

| Property | Says |
|---|---|
| `SubmittedAtMostOnce` | the provider is asked again only after it refused, whatever crashes, fails to write or changes account |
| `OneRunPerPage` | two runs never drive the same page, also after leases were taken over or cleared by a restart |
| `BusyIsLeased` | no account is busy without a lease; such an account would be skipped until the next restart |
| `LeaseOutlivesTaskOnlyByFailedWrite` | an account stays leased to a finished task only when a write has failed |
| `ExhaustedNotClaimed` | an account reported as out of quota is not claimed before its reset |
| `ImplementsRelay` | the adapter implements `PaidJob` |
| `AcceptedTaskEnds`, `LeaseEnds` | every accepted video ends; every lease comes back |
| `FinishedVideoIsDownloaded` | refuted, section 9 |

## 5. UserDataSync

Canvas projects and assets live in two stores in memory, are persisted 400 ms
after a change in the browser under a key that names the user, and are copied to
the backend 1200 ms after a change. A document is its `updatedAt`; `Gone` is its
absence.

| Variable | Code |
|---|---|
| `server[u]`, `cookie` | u's documents on the backend; the user the backend takes requests for |
| `disk[s]`, `pending` | the snapshot of a scope in the browser; the one waiting for its timer |
| `store`, `media` | the two stores; documents with media that is only local |
| `scope`, `active` | the active user scope; `activeRemoteUserId` |
| `versions`, `applying`, `timer`, `queued`, `batch` | versions known of the backend, `applyingRemoteState`, `syncTimer`, `syncQueued`, `syncPromise` with the batch it runs |
| `session` | the run of `applyUserSession` and the snapshot its merge will use |
| `calls` | links and deletions of assets on their way to the backend |
| `latest`, `seen`, `deleted` | ghosts: the user's last edit of a document, what he ever had on the backend, what he deleted |
| `raced`, `missed`, `failed` | ghosts: see below |

User actions are `Edit`, `CreateProject`, `DeleteProject`, `DeleteAsset`,
`SaveCanvas`, `LinkAsset`, `Login`, `Logout`, `Reload` and an edit on another
device; a deletion of an asset changes the store when the backend has answered
(`DeleteReturns`) and not at all when its answer is lost, whatever the backend
did (`DeleteFails`), and a link ends likewise (`LinkReturns`, `LinkFails`);
`Begin` → `Restore` → `ListReturns` → `FetchReturns` → `FirstSaveEnds` (or
`SyncFails`) is `applyUserSession`; `TimerFires` → `Upload` → `SendUpsert` →
`SendDelete` (or `RequestFails`) is a batch. The backend refuses a document of
another owner (`Accepts`). One step is what runs between two awaits that wait
for the network or the storage.

| Property | Says |
|---|---|
| `NothingLost` | the last edit of a document not deleted is in the page, waiting for the timer, on the disk of its owner or on his backend |
| `OnlyDeletedIsRemoved` | the backend loses only what its user deleted: an empty store after a restore or a reload is no deletion |
| `OwnData` | nothing of a user reaches another's backend or disk |
| `QuietIsSynced` | a logged-in page at rest has sent everything |
| `BackendFallback` | refuted, section 9 |

The first four hold *unless* `raced`. The ghost is set at exactly six places
where the code overwrites newer content or lets old work meet a new session: a
batch's write-back of the list it read before its uploads, the merge of a login
over edits made during its download, a session change with a batch, link or
deletion under way, a link or a deletion that returns during another session
change, and a reload within the 400 ms of the persistence timer. The code loses
or delays data there, as a reader of these lines can see; the properties say
that it does nowhere else. `missed` marks the logins whose download failed
(section 9), `failed` a last attempt that failed, after which nothing promises a
further one.

## 6. CanvasAgent and CodexTurns

`CanvasAgent` is the bridge between a coding agent and the pages. The server
keeps one stream per `clientId` (`clients`), the last canvas state (`state`) and
the calls that wait (`pending`, `call`). A page keeps its stream and whether it
believes itself connected (`conn`, `connected`), its canvas as a version number,
the version its 300 ms timer is armed with and whether a state is known to be
lost (`sync`), the call before the user (`confirm`) and the queue of states to
post (`queue`). Between them are `opening` and `sockets` (streams the server has
not accepted, or not seen closed), `events`, `results`, and `late`: requests
given up by the page which may still arrive. Actions: `CallTool`, `CallRefused`,
`CallTimesOut`; `Enable`, `Disconnect`, `OpenEvents`, `CloseEvents`, `Hello`;
`HandleToolCall`, `Approve`, `Reject` (also of a call whose rejection is on its
way: nothing disables the button); `Edit`, `Render`, `EditTimerFires` (which
posts the version the timer was armed with), `StateStored`, `StateLost`;
`ResultArrives`, `ResultLost`, `LateArrives`.

| Property | Says |
|---|---|
| `ResultAfterState` | the agent hears *done* only when the server has had the canvas the operations produced |
| `NoCallForgotten` | with no loss and no closed stream, a waiting call is on its way, before the user, or on its way back, unless the answer to another call's rejection took it off the screen |
| `ConnectedIsHeard` | a page that calls itself connected has had its state stored since, and its stream is the registered one |
| `StateMovesForward` | the server's canvas of a page goes back only by a request the page had given up, or by a timer armed before a tool call posted a newer one |

Two ghosts name the code's exceptions: `overlap`, a stream opened before the
server saw the older one of the same `clientId` close (the late close then
deletes the newer one, `canvas-session.ts:27`), and `swept`, the calls that were
cleared from the screen by the answer to the rejection of another call
(`canvas-local-agent-panel.tsx:377`). The third exception is visible in the queue:
a post of the timer is marked *overtaken* when it is not the page's canvas of that
moment. All three are cases of section 9.

`CodexTurns` is the Codex side: `app`, `current` and `active` are `codexApp`,
`codexThreadId` and the active thread of each canvas; `proc`, `loaded`, `owner`,
`rollout`, `archived` and `turn` the app-server's processes, threads and turns;
`job` what each HTTP request is doing, `queue` the chain of turns. Actions follow
the routes and `runCodexTurn`: `PostTurn`, `PostOther`, `Started` (a turn whose
thread has become the current one during the start is sent at once), `RunTurn`, the
answers `ThreadStarted`, `ThreadRead`, `ThreadNotRead`, `ThreadResumed`,
`ThreadArchived`, `ThreadsListed`, and `TurnBegins`, `TurnRefused`,
`TurnReplies`, `TurnCompletes`, which come in either order; `RequestFails` and
`Exit` at any point.

| Property | Says |
|---|---|
| `TurnInItsThread` | a turn goes to a thread of its own canvas, never replaces a conversation with turns, and reaches a process that has the thread (the last unless two processes were alive at once: ghost `raced`, `agents.ts:38`) |
| `TurnsEnd` | every posted request ends, so that no turn blocks the queue |

## 7. CanvasGeneration

A storyboard batch puts one item per target node into a queue that the page
works off. `node` is the metadata the node keeps (status, bound task, the task's
last status seen, content, the *recovery uncertain* lock), `item` the batch item,
`run` the executor's call for a node (with its controller), `stray` creations
nobody waits for any more, `task` the backend's tasks, `rec` and `due` the
recovery, `sched` the items the scheduler has read, `asking` the retry
dialog, `cancel` a cancellation under way. `Commit` is a change of the nodes
followed by the reconciliation of the batch, as the page does it in one render.

Actions: `ScheduleStart`, `ScheduleEnd`; `Submit`, `PrepareEnds`, `Accept`,
`Refused`, `LoseReply`, `Bind`, `Poll`, `RunFails`, `Stored`, `StoppedTracking`;
`CancelItem`, `CancelAnswered`, `StopRemaining`, `RetryAsk`, `RetryAnswered`;
`RecoverStart`, `RecoverForOthers`, `RecoverRead`, `RecoverPoll`,
`RecoverFails`, `RecoverStored`; `TaskEnds`, `StrayAccepted`, `Reload`.

| Property | Says |
|---|---|
| `OnePaidResult` | a node has at most one task that runs or has succeeded |
| `SucceededHasContent` | an item succeeds only when its node shows the media of its own task that succeeded |
| `BoundItemEnds` | an item whose task is known ends, in this page or after a reload |
| `RetryableIsUnsent` | refuted, section 9 |

`OnePaidResult` and `BoundItemEnds` exempt two sets of nodes: `lost`, with a
creation whose answer was lost (which section 9 refutes), and `overlapped`, where
a recovery or an earlier run still followed one attempt when a confirmed retry
began another. There the program may pay twice or leave an item without
an end, and no document promises otherwise.

## 8. Runs

| Run | Instance | Question | States | Time |
|---|---|---|---|---|
| `TaskSync` | synchronous, 2 processes, 2 attempts, 3 claims, one crash, one cancellation, leases lapse under live Workers | refunds, one create, honest call state, settlement, terminal and attempt order | 1.7 M | 45 s |
| `TaskPoll` | asynchronous on a queued account, same bounds, local statements fail | provider task id, call state, inductive invariant, refunds | 2.3 M | 75 s |
| `TaskLive` | asynchronous, 1 attempt, 3 claims, panics, crash, cancellation, manual resolution | does everything end | 81,000 | 15 s |
| `DolaFaults` | 2 videos, 1 account, 2 attempts, one crash, one failed write, one PATCH of any kind | one send, one driver, no lost account | 2.7 M | 60 s |
| `DolaLive` | the same pair, one crash, a lost or reconnected browser, fair | ends, leases, quota, refinement of `PaidJob` | 250,000 | 100 s |
| `DolaReadyCheck` | the same pair, no faults | refuted, section 9 | – | 1 s |
| `DataSessions` | 2 users, an asset that is on the backend at the start and a canvas that is not, 2 edits, 2 logins, one failure, one reload, one edit elsewhere | nothing lost, removed unasked, mixed up or left unsent | 7.5 M | 2 min |
| `DataFallback` | the same with the canvas there instead, without a reload | refuted, section 9 | – | 1 s |
| `AgentBridge` | 1 page, 2 calls, 2 streams, one edit or repeated rejection, one lost request | results, forgotten calls, connection, order of states | 9.8 M | 2.5 min |
| `CodexTurns` | 2 requests, 2 canvases, 2 processes, 5 threads, 2 exits, fair | threads of turns, ends | 144,000 | 15 s |
| `CanvasGeneration` | 1 node, 3 tasks, 2 retries, one lost answer, one reload, one failed query or write, fair | one paid result, media, ends | 791,000 | 80 s |
| `CanvasLostCreate` | 2 nodes, one retry, one lost answer | refuted, section 9 | – | 1 s |

**Bounds.** *TaskLifecycle*: two processes for a lease to change hands, two
attempts for a late answer to meet a retried row, three claims for a retry after
a take-over or two take-overs of one attempt. One crash and one cancellation
may come at every step of every goroutine. `MaxAge` 1 gives one deferred poll
before the deadline, and `Timeout` can take even that. *DolaAdapter*: two tasks
competing for one account is the situation in which leases, cooldowns and quotas
matter; with more accounts tasks meet less. Two attempts give one rotation
and, as the account has been tried, the wait that follows it. *UserDataSync*:
two users to mix up; one document of each kind, because a batch sends projects
first and deletes last, one of them to be created and one to be downloaded; one
failure, of a batch's request or of a deletion; two
edits, one before and one during a batch or a merge; two sessions for the work of
one to reach the other. *CanvasAgent*: a page and two calls, because calls meet at
the page's one pending tool; two streams for one to close late. At most
`MaxEvents` edits, repeated rejections, streams and losses happen in one behaviour,
and a call is rejected twice at most. *CodexTurns*: two
requests are the head of the queue and one behind it, or two that start a process
at once; five threads suffice for a turn to need a new one after each exit, so
that the bound never blocks a request. *CanvasGeneration*: items meet only in the
scheduler's capacity and in the recovery's passes; capacity is a free choice of a
subset and `OtherNodes` supplies the passes that other nodes cause, so one node
meets everything. The run that is refuted uses two.

**Symmetry** is used in the runs without liveness whose processes, tasks, calls or
accounts are interchangeable, never in the runs with liveness.

**Deadlock checking** is off everywhere because every system may stop: tasks are
finished, nobody has to act, or a bound is reached.

**Fairness.** `TaskLive`: a goroutine and a handler run on until they return
(`WF(Step(c))`, `WF(CancelStep)`, `WF(RetryTx)`); the dispatcher polls every two
seconds (`WF` of a claim by some process); a lease nobody renews expires after
45 s and a next poll becomes due. Cancelling, retrying, resolving, crashing and
panicking are never forced. `MaxClaim` cannot hide a livelock: with one deferred
poll, one crash and one first claim, three claims end every attempt, and
`TaskEnds` would fail if they did not. `OrderEnds` is stated for behaviours
without a crash, since a crash between the terminal row and the order leaves the
order open for an administrator. `DolaLive`: the pump ticks every second, a run
goes on (connecting and loading a page have a time limit; that a request made
inside a page is answered or fails is assumed), next polls become due, and
the task's time passes. `CodexTurns`: the app-server answers or exits; nothing in
the agent limits its time, so the property holds under this assumption only.
`CanvasGeneration`: tasks end, queries and media writes return, and the page's
timers fire; the scheduler and the user are not forced, because `BoundItemEnds`
speaks of items that have their task. `DataSessions` and `AgentBridge` check
safety only: both systems promise progress only while the user keeps the page
open and the network works.

## 9. Where the code departs from its documents

Three are runs that fail with the property named, and entries of `findings` with
the quoted line.

- **`DolaReadyCheck`** – `processProcessing` calls `isCreationReady`
  (`service.mjs:238`), which `dola-protocol.mjs` exports and `service.mjs` does
  not import. When the conversation first shows a creation, the call raises a
  ReferenceError, the catch block takes it for a provider error, and the task
  fails with its video paid and finished. Nothing else of the module depends on
  it: `DolaFaults` checks both outcomes of the name, `DolaLive` the program with
  the name bound.
- **`DataFallback`** – a login stores the versions of all remote documents
  (`user-data-sync.ts:27`) before it downloads them. When a download fails, the
  login goes on with a page that lacks the document, and the next batch takes it
  for one the user deleted and deletes it from the backend.
- **`CanvasLostCreate`** – when the answer to a creation is lost, the executor
  (`use-canvas-generation-executor.ts:257`) puts the node into the error state
  without a task; the branch that would lock it is for nodes that are not
  in that state, so the item is offered for a retry while its task runs.

The backend has further ones, which are no runs here but can be reproduced with
`TaskLifecycle` by its switches. The instance is 2 processes, `MaxAge` 1,
`MaxResolve` 0, 2 claims, no crash or cancellation unless named. Most share a
pattern: the row is guarded by a conditional UPDATE, and the order is changed
afterwards by a decision the UPDATE did not protect.

| Settings | Property that fails | What happens |
|---|---|---|
| no fault, 1 attempt | `AutoRefundNeverSent` | the connection breaks after the dispatch with an error that contains none of the words of `billingFailureUncertain` (`service/finance.go:618`), such as a plain EOF or an HTTP/2 GOAWAY; the order is refunded though the provider may have accepted the request. `CHANGELOG.md:190` says "连接中断及响应超限均按费用不确定处理" |
| `{"lapse"}`, 1 attempt | `AutoRefundNeverSent` (and `used.clashed = {}`) | a Worker reads the order as reserved (`repository/finance.go:566`) and loses the row; the Worker that takes over sets the order running and sends the request; the UPDATE of the first finds no reserved order, and `service.go:1323` refunds the running one. `CHANGELOG.md:170` says of the dispatch boundary "Worker 崩溃与租约恢复也复用该边界，避免…已经调用后错误退款" |
| `Pollable`, `Queued`, `{"lapse"}`, 1 attempt | `NoRefundOfKnownRequest` | `failClaimedTaskBeforeProvider` refunds although its save conflicted; the Worker that took over sends the request for free |
| `Pollable`, `{"lapse"}`, 1 attempt | `NoRefundOfKnownRequest` | the lease lapses between LogAPICall's order and its task; the Worker that takes over polls the id, is refused, finds no billable log yet and refunds the accepted request |
| `{"lapse", "local"}`, 1 attempt | `NoRefundOfKnownRequest` | a statement of `MarkBillingRunning` fails; before its refund the goroutine loses the row, and the Worker that takes over sets the order running and sends the request |
| `{"sameOwner"}`, 2 attempts, 1 cancellation | `RowNeverRegresses` | two goroutines of one process carry the same lease owner; after cancel, retry and a new claim, the older one's save puts the old attempt back |
| `Pollable`, `{"crashInLog"}`, 1 attempt, 1 crash | `NoRefundOfKnownRequest` | LogAPICall writes order, task and log separately; the recovered poll has the id but no billable log, and its failure is refunded |
| `{"overlap"}`, 2 attempts, 1 cancellation | `NoRefundOfKnownRequest` | CancelTask refunds the order of a row it read before another cancellation and a retry exchanged it |
| `{"panic"}`, 2 attempts, 3 claims, 1 cancellation, 1 crash | `NoRefundOfKnownRequest` | `recoverWorkerTaskPanic` (`worker.go:381`) judges its own order by the call state of the stored row, which a retry has reset for a later attempt |
| `Pollable`, `{"billing"}`, 1 attempt | `NoRefundOfKnownRequest` | a failing statement in `MarkBillingRunning` on the way to a *poll* refunds an accepted request as unsent |

One more concerns the review list, a query that is not in the model: cancellation
and refund are two statements (`service.go:884`). After a crash between them and
a confirmed retry, the list (`finance.go:470`) shows the old reserved order only
while the task is failed or cancelled; once the new attempt runs or succeeds, the
credits of the old one stay frozen where no administrator sees them.

The passing runs contain the first two cases, and their properties exempt exactly
these: requests with an unknown error, and orders refunded behind the conflict.
They leave the others out by the switches: they let leases lapse only for tasks
that are neither polled nor queued, and not together with `local`, so that the
properties can be seen to hold everywhere else.

The agent bridge has two, which `AgentBridge` contains and its properties exempt
by name:

- **A later call is dropped.** `rejectPendingTool` waits for the answer to its
  request before it clears `pendingTool`, whichever call that is by then
  (`canvas-local-agent-panel.tsx:367-379`); the buttons stay enabled meanwhile
  (`canvas-agent-chat-ui.tsx:92`). When the call has been rejected twice, or
  approved while its rejection was on its way, and another call is on the screen
  when the later answer comes, that call disappears, and the agent waits for it
  until the server's time-out (`swept`).
- **The server's canvas goes back.** The effect's timer posts the snapshot of its
  closure (215-230). When a tool call has just posted a newer one (337-341), whose
  rendering has not replaced the timer yet, the older one follows it in the queue,
  although `canvas-local-agent-transport.ts:17` serialises the posts so that an
  older snapshot cannot replace a newer one, and the panel (340) wants the agent never to
  act on an old state. The rendering arms the timer anew, and 300 ms later the
  server has the newer canvas again (`Overtaken`).

## 10. Proofs

All theorems hold for every value of the constants that the module's named
ASSUMEs admit, not only for the instances of section 8. The column "beyond" names
what a theorem assumes in addition.

| Module | Theorem | Property | Beyond |
|---|---|---|---|
| `TaskLifecycleProofs` | `TypeCorrect` | `TypeOK` | – |
| | `AttemptCorrect`, `RequestIdCorrect` | `AttemptInv`, `RequestIdOfAttempt` | `"sameOwner" \notin Faults` |
| | `RowCorrect`, `TerminalCorrect` | `RowNeverRegresses`, `TerminalIsFinal` (of steps) | the same |
| `TaskBillingProofs` | `OneCreateCorrect`, `CallStateCorrect`, `SettledCorrect` | `OneCreatePerAttempt`, `CallStateHonest`, `SettledIsDelivered` | the same |
| | `CallForwardCorrect` | `CallStateForward` (of steps) | the same |
| `TaskRefundProofs` | `RefundCorrect`, `DeliveredCorrect` | `NoRefundOfKnownRequest` and `used.clashed = {}`; `DeliveredNotRefunded` | `Faults \subseteq {"local"}` |
| | `LapseRefundCorrect`, `LapseDeliveredCorrect` | the same two | `~Pollable`, `Faults \subseteq {"lapse", "crashInLog"}` |
| `DolaAdapterProofs` | `TypeCorrect` | `TypeOK` | – |
| | `AskedAtMostOnce`, `OneRunDrivesAPage`, `BusyAccountsAreLeased`, `LeasesEndWithTheirTask` | `SubmittedAtMostOnce`, `OneRunPerPage`, `BusyIsLeased`, `LeaseOutlivesTaskOnlyByFailedWrite` | – |
| | `ExhaustedAccountsRest` | `ExhaustedNotClaimed` (of steps) | – |
| | `AdapterImplementsRelay` | `ImplementsRelay`, the refinement of `PaidJob` | `MaxWriteFailures = 0` |
| `UserDataSyncProofs` | `TypeCorrect` | `TypeOK` | – |
| | `OwnCorrect`, `KeptCorrect`, `SentCorrect`, `RemovedCorrect` | `OwnData`, `NothingLost`, `QuietIsSynced`, `OnlyDeletedIsRemoved` | – |
| `CanvasAgentProofs` | `TypeCorrect`, `ConnectionCorrect`, `ResultCorrect`, `CallsCorrect` | `TypeOK`, `ConnectedIsHeard`, `ResultAfterState`, `NoCallForgotten` | – |
| | `StateCorrect` | `StateMovesForward` (of steps) | – |
| `CodexTurnsProofs` | `TypeCorrect`, `TurnsStayInTheirThread` | `TypeOK`, `TurnInItsThread` | – |
| `CanvasGenerationProofs` | `TypeCorrect`, `OneItemPaysOnce`, `SuccessIsShown` | `TypeOK`, `OnePaidResult`, `SucceededHasContent` | – |

**The assumptions are necessary.** With `sameOwner` on, TLC finds the
counterexample of section 9. Refunds have two theorems each: one for every kind of
task whose leases hold (`local` statements may fail), one for tasks without
provider polls whose leases may lapse (and whose log may be half written). With
polls, with a queue, or with `local` besides, lapsing leases break
`NoRefundOfKnownRequest`, and so does each of the other faults: these are rows of
section 9. The properties exempt the orders behind a conflict of
`MarkBillingRunning`; the first pair of theorems shows that there are none while
leases hold (`used.clashed = {}` is part of `RefundCorrect`), the second pair says
that with lapsing leases, and the settings they assume, it is the only exception
besides the requests with an unknown error. A failed write shows a caller of
the adapter a task that the file will not know after a restart, so that the
adapter does not keep the promise of `PaidJob` then; the other theorems about it
need no such assumption.

**TaskLifecycle: attempts.** "A late Worker changes nothing" is not inductive by
itself: the conditional save compares the lease owner and the status, not the
attempt. `AttemptInv` says why that is enough. (1) a process runs at most one
goroutine of the task (`OneGoroutinePerProc`, from the claim's guard); (2) whoever
holds the row – running, and leased to its process – works on the row's own
attempt, with that attempt's provider id or none (`HolderIsCurrent`); (3) orders
are reserved in sequence up to the row's (`AttemptsInSequence`); (4) the row's
provider id belongs to its attempt. A claim makes its goroutine the only holder
(`ClaimAttempt`); a retry starts only from a finished row, which nobody holds, and
takes a later order (`RetryAttempt`, `RetryIsLater`). Every other action is a
frame: it neither changes a goroutine's process and order, nor gives the row to
another owner, nor touches the row's attempt (`NextKeepsGoroutines`,
`NextKeepsRow`, `NextKeepsOrders`), and `FrameAttempt` shows that such a step
preserves the invariant. The action properties follow because an action writes an
attempt into the row only as its holder or as a retry (`StepIsForward`).

**TaskLifecycle: money.** `CreateInv` adds what a goroutine's place says about the
provider: who is on the way to the checkpoint of `Dispatch` and holds the row
is the first of its attempt (`AheadInv`), its copy of the call state is the
row's except while it waits for the provider (`MemoryInv`), and once it has
passed, the row says *dispatched* and the order is no longer reserved (`FiredInv`),
so that the next goroutine stops at the checkpoint. `DeliveryInv` adds that a
provider id stands for an accepted request (`RequestInv`) and that the
places behind a successful poll do too (`ResultInv`). A refund is decided by what
a goroutine has in memory some statements before it takes place, so that
`MoneyInv` states, for each place, which plan its memory can lead to (`PlanInv`),
that a provider id in an open order is in the log, or about to be (`LoggedInv`),
that an attempt has one live goroutine, which holds the row while that runs
(`LeaseInv`; this is what `lapse` takes away), that a cancellation finishes
before a retry may begin (`HandlerInv`; this is what `overlap` takes away), and
that no goroutine finds its order running in `MarkBillingRunning` after it has read
another status (`ClashInv`).

With `lapse` an attempt has several goroutines, and those that lost the row still
act on its order; `LapseInv` takes the place of `MoneyInv`. Call an attempt
`Dead` when nothing of it is at the provider and the row is past it, terminal, or
running out of time. Only a holder in time passes the checkpoint (`Fires`), so
that a dead attempt stays dead (`DeadKept`). Whoever decides on a refund either
holds the row of an attempt the provider does not have until it saves the
terminal row with the same UPDATE (`VerdictInv`), or has seen that the time of
the attempt is over, or has met the conflict that puts the order among the
excused; when it pays back, the attempt is dead or its order closed,
and every order refunded automatically is of a dead attempt (`DeadInv`).

**DolaAdapter.** `RunInv` relates the place of each run to what memory, file and
provider know of its task: before the prompt is sent, and as long as the provider
may have it, neither memory nor file shows a task to be submitted – which is why
the order "write *submitting*, then send" survives a crash and a failed write.
`LeaseInv` says that a run on a page holds a live lease; `CleanInv` that,
as long as no write has failed, each lease belongs to a run that will release it;
`KnownInv` that a lease and the note of an empty quota travel together. For the
refinement each action is shown to be one step of `PaidJob` or a stutter of it
(`NextRelay`).

**UserDataSync.** `DataInv` has two parts that always hold: no document carries a
time that has not come (`ClockInv`), and cookie, scope and `activeRemoteUserId`
name one user at a time (`SessionInv`). The others hold while nothing has
`raced`, which the ghosts allow to be assumed of every earlier step
(`GhostsStay`). A session change stops timer, batch and links first, so that the
page is at rest until its download is merged (`PageInv`); hence whatever is kept,
shown or being sent belongs to the user of the scope (`OwnerInv`). The canvases of
the store are in the timer's snapshot or on the disk, its assets on the disk
(`LocalInv`), so that the flush leaves the disk equal to the store when the scope
changes, and the last edit of a document is in its owner's store or on his disk
(`KeptInv`) – the theorem does not need the copy on the backend that
`NothingLost` also admits. A document known to the backend and absent from the
page was deleted by the user, or is about to be fetched, and a batch removes
only such (`PageHas`, `BatchHas`). A batch for which no further round is asked
sends what the stores have (`BatchSent`), so that they agree with the
versions when it ends (`SentInv`).

**CanvasAgent.** A call is in one place of one page and runs once (`PlaceInv`);
the streams of a page are numbered and a greeting belongs to one that the server
has open (`StreamInv`); a timer is armed with no version to come (`TimerInv`), and
queued, stored and given-up versions of a canvas are in order but for the
overtaken ones (`OrderInv`); every result stands behind a stored state (`BackedInv`); and
each handler hands a call on (`CallInv`, which counts streams by `Cardinality`).

**CodexTurns.** The queue keeps turns apart: only its head has gone past waiting
(`QueueInv`), so that no turn begins on a thread that the head takes for empty and
replaces (`ReplacedInv`). Nothing keeps processes apart; `ProcInv` says what holds
of the globals until a second one is started.

**CanvasGeneration.** The page keeps no record of what it has sent. `AttemptInv`
says what each place may know: as long as a creation of a node may still reach
the backend, no task of the node runs or has succeeded, and only that creation
points at it; what points at a task points at the only one that may
run or have succeeded, which is the newest (`NewestInv`), the one a recovery finds.

**Only model-checked**: everything about liveness, which is outside what TLAPS
proves here (`TaskEnds`, `OrderEnds`, `AcceptedTaskEnds`, `LeaseEnds`, `TurnsEnd`,
`BoundItemEnds`). The violated properties of section 9 are counterexamples of TLC
and need no proof.

To check: `tlc -config TaskSync.cfg MCTaskLifecycle` and likewise for the other
runs; `tlapm TaskLifecycleProofs.tla` and likewise for the other proof modules.
Each passing run takes between twenty seconds and a few minutes, a proof module
up to some ten minutes.


## 11. What is not modelled

*TaskLifecycle*: tasks without an order (a user's own channel), which skip every
billing step; the legacy call states "" and "prepared" and rows written by
earlier versions; the second request of a structure repair, which sends a new
create under the same checkpoint; RunningHub's own checkpoint of a submitted
workflow; agent sessions, task logs and notifications; request keys and the limit
of active tasks; the wording of errors, by which a retry asks for confirmation
(the model's user always confirms). Manual queries and delivery recovery of
finished tasks are planned; until then a checkpointed task can simply not be
retried.

*DolaAdapter*: adding accounts, several accounts on one endpoint (the guard is
modelled, no run has two), the parsing of the provider's answers, the HTTP layer
and its authentication.

*UserDataSync*: several tabs of one browser, the steps inside a media upload, the
garbage collection of local media, and the viewport saved when a canvas page
closes.

*CanvasAgent*: reading tools, which only read `state`; the MCP server and the
content of operations; undoing a batch and sending a message post the canvas at once,
which is the timer's post without the wait. *CodexTurns*: turns of Claude, attachments, event
normalisation, the configuration file.

*CanvasGeneration*: image, text and audio modes, retries outside a batch, target
nodes deleted under an item, several batches of one source, and the stop of a
single node.

*Elsewhere*: the parts of section 1 that have no module here; `PROJECT.json` says
for each whether it is planned. Most of the TypeScript code is the user
interface – rendering, geometry, forms, lists, prompts and the encodings of eight
providers' requests – and vendored WebAssembly glue. It computes its result from
the state it is given and interleaves with nothing, so a model of states and steps
would only repeat it; a small part of the lines, the parts that wait for others
and act on what they knew before, is what the five modules are about. Record
keeping in single transactions, HTTP routing, storage migration,
administration and reports are left out for the same reason.
