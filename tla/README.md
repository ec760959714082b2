# A TLA+ model of the Etsy AI growth agent

The repository is a service that analyses Etsy listings with an AI model,
proposes changes, and writes approved changes back to Etsy. A FastAPI server
answers the browser, Celery workers do the long work, Postgres holds the rows,
Redis holds the credit reservations (and the broker's queues). This directory
models the parts where several of these act on the same state, checks them
with TLC and proves the most important results with TLAPS.

## 1. Inventory

### Who runs what

| actor | what it is | what bounds its concurrency |
|---|---|---|
| HTTP request | a synchronous FastAPI handler in a thread of the server | none between requests: each has its own session |
| Celery delivery | one execution of a task message by a worker process | `task_acks_late`, prefetch 1: a message is acknowledged after the task returned, so it may be delivered again |
| Beat | queues the daily fan-out at 07:00 UTC when it is enabled | one |
| webhook | an `async` handler with a synchronous session on the server's event loop | none between deliveries of one event |
| external | Etsy, Anthropic, Paddle, SendGrid | answer late, twice, or never |

One database session is one READ COMMITTED transaction (`db/session.py`). A
flush sends the pending UPDATEs and with them locks the rows; commit is at the
end of the request or task; an exception rolls everything back. Nothing in the
code uses `SELECT ... FOR UPDATE`, a version column or a conditional UPDATE, so
an UPDATE writes what the session computed from the row it loaded, after
waiting for whoever has the row locked. Redis commands take effect at once and
no rollback undoes them.

### Components

| component | state | operations | hard behaviour | what makes it correct |
|---|---|---|---|---|
| credit reservations `services/credit_service.py` | `credits:reserved:{user}`, `credits:run:{run}`, `credits:daily:{user}:{date}` | reserve (one script), settle, release (several commands) | expiry between two commands, two settlements at once, midnight | nothing is charged twice; no hold outlives its expiry; the counter covers the holds |
| SEO analysis `api/routes/seo.py`, `tasks/seo.py` | `agent_runs`, `users.credits_balance`, the message | trigger, analyse, fail, settle | stale runs superseded while alive, redelivery, worker death, commit before dispatch | one analysis and one charge per run; refused requests leave nothing; every run ends |
| optimizations `api/routes/optimizations.py`, `seo.py` apply | `listing_optimizations`, the listing's mirror, Etsy's listing | create, approve, reject, apply | two requests on one row, Etsy answers late or not at all | only approved changes reach Etsy; the row's status follows its state machine; the mirror is what Etsy has |
| Paddle webhooks `api/routes/webhooks.py`, `services/paddle_service.py` | `paddle_events`, the users row, `credit_transactions` | one handler per event | redelivered, concurrent, reordered events; failed handlers | each event is applied once; the ledger adds up to the balance |
| daily agent `tasks/agent.py` | `agent_runs`, message chain and chord | fan out, sync, analyse, synthesise, notify | a chain that stops, duplicated messages, totals updated in parallel | a reserved run is settled or released; one digest per run |
| store sync and tokens `tasks/sync.py`, `services/etsy_token_service.py` | `stores`, `listings` | sync, refresh the token, disconnect | two syncs share one rotating refresh token | every end the code handles keeps a store's tokens; every sync ends |
| OAuth connection `api/routes/stores.py` | `oauth:state:*`, `stores` | initiate, callback | two callbacks with one state, limit checked before insert | a reconnected store is active; a disconnected one can be reconnected |
| rate limiter `services/rate_limiter.py` | one Redis hash | acquire | clocks of several processes, expiry | at most capacity + rate x time grants |
| run event stream `api/routes/agent.py` | none (polls `agent_runs`) | stream | progress that is never committed; a status that changes after the stream ended | one terminal event, true when it was sent |
| low-credit notice `services/notification_service.py` | `low_credit_notified:*`, `notifications` | check and notify | two settlements below the threshold at once; flag set, then rollback; a flag of 30 days in a month of 31 | one notice per flag |
| accounts `api/routes/auth.py` | `users`, `sessions` | register, login, refresh, logout, onboarding | register twice at once; two tokens of one second; answered before committed | one account per address; no refresh after logout |
| AI gateway and listing rules `services/ai_service.py`, `schemas/seo.py`, `services/etsy_validation.py` | none | call, retry, clamp, clean, validate | a model that answers anything; limits written down twice | every billed token is counted; nothing the validator would refuse for a limit leaves the schema |
| frontend `frontend/` | component state | poll, stream, buttons | a stream and a reload | out of scope except as the user of the API |

### The plan

The order is by how much a mistake costs: money and the write to Etsy first.

| module | models | status |
|---|---|---|
| `CreditStore` | the Redis keys of one account, one operator per command | done |
| `SeoAnalysis` (extends `CreditStore`) | trigger, task, settlement, broker, crashes | done |
| `Optimization` | create, approve, reject, apply, Etsy | done |
| `PaddleWebhook` | events, handlers, ledger, retries, event loop | done |
| `SeoAnalysisProofs` | type correctness, the safety invariants, the refinement `KeepsThePromise` | done |
| `OptimizationProofs`, `PaddleWebhookProofs` | type correctness, the safety invariants, `MirrorAfterAnswer`, `StaleColumnsStay` | done |
| `RunCharge` | the abstract life of a run's charge; `SeoAnalysis` implements it (`KeepsThePromise`) | done |
| `DailyAgent` (extends `CreditStore`) | the daily chain and chord: fan-out, reservation, totals, settlement, low-credit notice, redelivery | done |
| `EventStream` (extends `DailyAgent`) | a browser that follows a run | done |
| `StoreSync` | sync, token rotation, OAuth connection | done |
| `Accounts` | registration, sessions, logout, onboarding | done |
| `RateLimiter` | the token bucket script with lagging clocks | done |
| `RateLimiterProofs` | type correctness, `Paid`, `NeverTooFast` | done |
| `Proposal` | what the language model answers, from the gateway to the validator | done |
| `AccountsProofs` | type correctness, `OneAccountPerEmail`, `LogoutIsFinal` | done |
| `StoreSyncProofs` | type correctness, `TokenKept` | done |
| `EventStreamProofs` (for `DailyAgent` too) | type correctness and the safety invariants of both | done |
| `ProposalProofs` | type correctness and the safety invariants | done |

Every safety property that a run checks is proved. What the plan has left: the
daily run as a second implementation of `RunCharge`, and the bounds under which
the properties of section 3 that fail would hold.

## 2. The modules

Each module has, in this order: constants and their named assumption, state,
`TypeOK`, `Init`, one action per step at which another process can come in
between, `Next`, `Spec`, and the properties. The inductive invariant is at the
end of the module or at the head of its proofs. A
definition that begins its comment with "Variant:" is a plausible mistake in the
definition below it; it is not part of the specification, and shows that the
property it is paired with notices the mistake.

### How a database session is modelled

All modules use the same reading of `db/session.py` and SQLAlchemy:

* a query returns the committed row (READ COMMITTED) and the object keeps what
  was loaded (`expire_on_commit=False`; nothing refreshes it);
* a flush sends one UPDATE per changed row, with the columns whose value differs
  from the one loaded; it waits while another transaction has the row, then
  locks it. That is why a write is two steps, flush and commit, with a `lock`
  variable between them, and why the committed values come from the loaded ones;
* the commit at the end of the request or task publishes everything at once; an
  exception or the death of the process publishes nothing and unlocks.

### CreditStore — `services/credit_service.py`

Variables `reserved`/`resTTL`, `hold`/`holdTTL`, `daily` are the keys
`credits:reserved:{user}`, `credits:run:{run}` and today's `credits:daily:...`.
`Reserve` and `Denied` are the two results of the reserve script;
`RefundDaily`, `DecrReserved` and `DeleteHold` are the commands of `settle` and
`release`, which are not atomic together, so each is an operator of its own.
`PassTime` is one tick of every expiry. A missing key reads as 0; a DECRBY on a
missing key creates one without an expiry (`Forever`); midnight names a new
daily key.

### SeoAnalysis — `api/routes/seo.py`, `tasks/seo.py`, `celery_app.py`

One account. Process `<<r, 0>>` is the request that asks for run `r`, `<<r, n>>`
the n-th delivery of its message.

| code | actions |
|---|---|
| `get_current_user`, then the check for a run in progress | `Authenticate`, `RefuseInProgress`, `FindStale` |
| the loop over stalled runs with `release`, and its flush | `SupersedeNext`, the Redis steps, `FlushStale` |
| `reserve`, its refusals, the commit, `apply_async` | `ReserveGranted`, `ReserveDenied`, `CommitRun`, `Dispatch` |
| `analyze_single` up to the flush of "running" | `Receive`, `FlushRunning` |
| success and `_fail_run` | `AnalysisSucceeds`, `ReadUser`, `AnalysisFails` |
| `settle` / `release`, command by command | `GetHold`, `Refund`, `Decrement`, `Delete`, `RedisRaises` |
| the session's commit; acknowledgement after the return | `CommitResult`, `Acknowledge` |
| a server or worker dies; redelivery | `RequestDies`, `WorkerDies`, `Redeliver` |
| expiry, ageing of a run, midnight | `Tick`, `Midnight` |

"running" is flushed and never committed, so no other session reads it; the row
lock it takes is the only thing that keeps a second delivery out.
`charged[r]` and `faulted[r]` are history variables: what committed settlements
took, and whether a Redis call settling or releasing `r` raised.

### Optimization — `api/routes/optimizations.py`, `api/routes/seo.py` (apply)

One listing. A row is named by the request that creates it and the field it
changes; a value is named by the row that proposes it, so "this text is on
Etsy" is `etsy[f] = o`. `CreateLoad`/`CreateCommit` are the route that turns an
analysis into pending rows; `DecisionLoad`/`DecisionFlush`/`DecisionCommit` are
approve and reject; `ApplyLoad`, `ApplyValidate`, `ApplyFlush`, `GetToken`,
`Patch`, `MirrorFlush`, `ApplyCommit` and `MarkFailed` are apply. `Patch` has
the four outcomes of a remote write: done and known, done and unknown (timeout),
not done and unknown, refused. `Dies` is a server that dies, or an exception no
handler catches.

### PaddleWebhook — `api/routes/webhooks.py`, `services/paddle_service.py`

One user. `After(e, u)` is `service.handle`: the users row after an event of
each type. The handler is a coroutine that never awaits after reading the body,
so from `CheckRecord` to `FlushEvent` it has its server's event loop (`loop[s]`),
also while a flush waits. A handler may raise on a date it cannot parse when it
has changed part of the row (`Begun`); the commit of the failure publishes that
too, so a failed creation leaves an active user without tier or credits. A
session that has ended keeps nothing of what it loaded (`Forget`). The end of the session (`get_db`) runs in a thread
that the loop must start, `StartCommit`, and only then comes `Commit`.
`ServerDies` rolls back everything one process had open. `LoadBalance` and
`Settle` are the charge of a run by a Celery task, reduced to what it does to
`users.credits_balance`; `SeoAnalysis` has the whole of it.

The deferred commit is what FastAPI does since a dependency with `yield` is a
synchronous generator (run in the thread pool) and its exit follows the
response. The lock file names 0.136.3; `pyproject.toml` gives a lower bound only.

### RunCharge — the promise behind `credit_service.py`

The abstract specification: a run's credits are held at most once, what is
charged was held and is held no longer, and a run is charged at most once. Its
only variable is a phase per run. `SeoAnalysis` maps its state to it (`PhaseOf`:
what the hold, the committed charge and the request's position say together) and
`KeepsThePromise` is `Charging!Spec`. A run whose Redis calls raised is
"faulted", from where the abstract specification promises nothing. The
refinement is what rules out a second hold after a charge and a charge that was
never held, which no single-state invariant of the detailed model says.

### DailyAgent — `tasks/agent.py`, `services/notification_service.py`

One account. `queue` is the broker, `work[w]` the task a worker slot executes
with what its session loaded, `chord[r]` the parts of a chord still to return.

| code | actions |
|---|---|
| `daily_agent_fan_out` | `Fire` |
| a worker takes a message | `Take` |
| `run_daily_agent` | `StartSkips`, `StartLoads`, `ReserveGranted`, `ReserveDenied`, `InsertRun`, `LaunchChain` |
| `sync_store_listings` in the chain | `SyncReturns`, `SyncGivesUp` |
| `fan_out_seo` | `FanOutFlushes`, `FanOutCommits`, `NothingToAnalyze`, `LaunchChord` |
| `analyze_for_daily`, the chord's counter | `AnalysisFails`, `AnalysisCommits`, `PartReturns` |
| `synthesize_daily` | `SynthesisFlushes`, `Gather`, `SynthesisCommits`, `SynthesisReturns` |
| `notify_daily_complete` with `settle` and the low-credit check | `LoadUser`, `GetHold`, `Decrement`, `Delete`, `CheckLow`, `SetFlag`, `NotifyCommits`, `RedisRaises` |
| redelivery, a dead worker, an expired hold | `Redeliver`, `Crash`, `ExpireHolds` |
| the flag's 30 days are over, its month is not | `FlagExpires` |

`Write` is SQLAlchemy's UPDATE: a column reaches the row only if the task gave it
another value than it had loaded, which is why parts that overlap lose each
other's additions to the totals. A message that comes twice starts a line of its
own, with its own chord, as Celery does.

### EventStream — `api/routes/agent.py`

On top of `DailyAgent`: `Poll` reads the committed row as `run_event_stream`
does, and `stream[r]` is the last event the client had. A stream that timed out
may be opened again, so "open" stands for both.

### StoreSync — `tasks/sync.py`, `services/etsy_token_service.py`, `api/routes/stores.py`

The columns of a store's row that several processes write: `status`,
`sync_status` and the tokens. A token is a number in the order of issue. The
sync is `TakeSync`, `FlushSyncing`, `UseToken`, `FetchPage`, `FetchRejected` and
its three ends `SyncSucceeds`, `Disconnect`, `SyncError` (with `Retry`);
`get_valid_access_token` is `RefreshAccepted`, `RefreshRefused`,
`RefreshRaises`; the request that applies an optimization is here for its use of
the tokens only (`ApplyLoads`, `ApplyFlushes`, `ApplyCommits`); connecting is
`Initiate`, `Callback`, `Exchange`, `FindStore`, `FlushStore`, `DispatchFirst`,
`Connected`, `ConnectFails`. The sync flushes "syncing" and holds the row's lock
until it ends: nobody ever reads that value, so the check `SYNC_IN_PROGRESS`
never refuses anything (`SyncInProgressIsRefused`, section 3). Its own session
does believe it (`Believed`), so whatever its end makes of `sync_status` is a
change and is written.

A session may lose the token it refreshed in two ways, told apart by two history
variables. `Dies` is the death of a process and adds the used token to `lost`, as
does `RefreshRaises` when Etsy's answer is lost. `Raises` is an exception that no
handler of the code catches and adds it to `dropped`: in `apply_optimization`
anything but `StoreNotConnectedError`, a timeout or a status (the rate limiter
gives up, Etsy cannot be reached), in the sync a row that Postgres refuses, after
which the handler's own commit raises.

### Accounts — `api/routes/auth.py`, `core/security.py`, `api/dependencies.py`

A request is named by itself and goes from its arrival through the steps at
which another may come in between: the check, the hash, the flush, the answer,
the commit. Two facts of the code make it interesting: a token is a user and a
second (`create_refresh_token` puts nothing else in it), and the answer is sent
before the commit.

### RateLimiter — `services/rate_limiter.py`

`Granted` and `Refused` are the two results of the script for a process that
sends time `t`, at most `MaxLag` behind the clock; `GiveUp` and `AskAgain` are
the loop of `acquire`. Time is in ticks and tokens in parts, so that a tick may
bring less than one token. `back` is a history variable: how far the field
`last` has gone back in all.

### Proposal — `services/ai_service.py`, `schemas/seo.py`, `services/etsy_validation.py`

The way of one answer of the language model: `ToolCalled`, `Prose` (the retry),
`CallFails`; `Clamped` and `Cleaned` are the validators of the schema; `Propose`
is the route that makes a row of it and `Check` the validation before the
write. The answer is any text and any tags up to one more than the limits. A
text is its length and its length without trailing blanks, a tag a word with or
without capitals and padding, which is all the code tells apart.

## 3. What TLC checks

Run any of them in this directory with `tlc -config X.cfg M`.

### Runs that pass

**`onestore`** (`MCSeoAnalysis`, `SeoAnalysis_onestore.cfg`). Two runs of one
store, a balance that pays for one, a worker crash and a redelivery of the first,
and a midnight between any two steps.
`KeepsThePromise`: every step is a step of `RunCharge` or changes nothing of it.
`ChargeAtMostOnce`: a run is charged its cost once or nothing, whatever crashes,
redeliveries and superseding requests do. `OneAnalysisPerRun`: no two deliveries
are inside the analysis together. `CounterOutlivesHolds`: the counter never
forgets credits that a run can still settle. `RefusalLeavesNothing`: a refused
request leaves no hold, row or message.

**`redelivery`** (`SeoAnalysis_redelivery.cfg`). One run delivered up to three
times, with Redis calls that raise anywhere in settle and release.
`MessageHasRow`: no worker is told of a row that is not committed. `RunFinishes`: a dispatched run ends
completed or failed, unless its pool killed the task (Celery then acknowledges
the message, since `task_reject_on_worker_lost` is not set).
`HoldsExpire`: every hold goes away by itself.

**`gate`** (`MCOptimization`, `Optimization_gate.cfg`). Four requests, three at
once, over two fields. `WrittenWasApproved`: nothing reaches Etsy that no user
approved. `OneApplyPerRow`: two applications of a row are never in the call
together. `ShownWasWritten`: what is shown as applied was written.
`EveryRequestAnswered`: the waits for the optimization row and then the listing
row form no cycle.

**`sequential`** (`Optimization_sequential.cfg`). The same requests one after
the other. `MirrorAfterAnswer`: the mirror is the listing on Etsy, unless a call
timed out or a server died. It fails with concurrent requests (below), so this
run is the condition under which it holds.

**`event`** (`MCPaddleWebhook`, `PaddleWebhook_once.cfg`). Three deliveries of
a creation, a change of plan and a top-up in any order and repeated, handlers
that fail before or after their first changes, a server that dies, and a run
charged meanwhile. `AppliedOnce`: an event that never failed is
applied exactly when it is recorded, and once. `RecordedIsApplied`: no event is
acknowledged as done whose effects were lost. `StaleColumnsStay`: a delivery
that loaded the row before another one changed it does not undo columns its
event is not about. `EndsOrFreezes`: a delivery ends, or its server's loop is
waiting for itself; there is no other way to get stuck.

**`daily`** (`MCDailyAgent`, `DailyAgent_daily.cfg`). A daily run on two workers
and two listings, with a crash, redelivery, Redis error or expiry at any point,
and a client that follows it. `BalanceFallsOnce`: a run's cost is taken once,
even when two deliveries of notify settle at once. `DigestIsComplete`: the
digest covers every analysis, because the callback comes after the last part.
`TotalsAreLogged`: overlapping parts lose additions and never invent any.
`OneNoticePerFlag`: two settlements below the threshold write one notice, as
long as the flag of the first is there.
`ToldIsFinished`: a client that was told "completed" finds the digest and the
settlement. `RunCompletes`: a run whose workflow was launched completes, unless
its sync gave up or a death took its message.

**`sync`** (`MCStoreSync`, `StoreSync_sync.cfg`). Two syncs, an application and a
connection on one store. `TokenKept`: the stored refresh token is good, was
revoked, or its successor is in a session that will commit it, unless an answer
or a process was lost or an exception that nobody catches rolled the successor
back. So every end that has a handler (success, disconnection, a failed sync,
an application that Etsy refuses or does not answer) commits what was refreshed,
whoever else wrote the row. The uncaught exceptions do lose a store's token:
`RefreshIsPersisted` below. `SyncEnds`: nobody waits for the store's row for ever.

**`accounts`** (`MCAccounts`, `Accounts_accounts.cfg`). Four requests about one
address over three seconds. `OneAccountPerEmail`; `LogoutIsFinal`: a session that
a logout has ended never grants again, not even when a login in the same second
makes the same token; `RequestEnds`.

**`limiter`** (`MCRateLimiter`, `RateLimiter_limiter.cfg`). Two processes, clocks
that lag by a tick, a bucket that Redis forgets. `Paid`: what was granted and what
is left was paid for by time, and by nothing else but steps of `last` backwards.
`AcquireEnds`: a process that others outrun gives up.

**`proposal`** (`MCProposal`, `Proposal_proposal.cfg`). Every answer over five
words. `RefusedForNoLimit`: of what the schema lets through the validator refuses
only what the schema does not look at. `SentIsAcceptable`: nothing that Etsy's
limits exclude is sent. `UsageIsBilled`: a used answer reports every token billed
for it.

### Runs that find a disagreement

| run | the sentence | what happens |
|---|---|---|
| `reconnect` | "Reconnect: same shop may be re-linked (e.g. after token revocation)" (`stores.py:215`) | the callback loaded the store as active and waits for its row behind the sync that disconnects it; "active" is no change to what it loaded and is not written: reconnected and still disconnected |
| `stranded` | "the user has to reconnect the store via OAuth" (`sync.py:146`) | the limit counts the disconnected store itself, so the owner of a tier with one store is refused |

Further counterexamples, kept as configurations that end in a violation of the
property they name (marked *: the same constants, with this property in place of
the one the configuration names):

| configuration | property | what happens |
|---|---|---|
| `SeoAnalysis_overdraft.cfg` | `NoOverdraft`: "preventing concurrent overdraft" (`credit_service.py:3`) | reserve compares the hold counter with a balance loaded at authentication; a settlement in between removes its hold, and both runs are granted |
| `SeoAnalysis_allowance.cfg` | `DailyAllowance`: "can never burn more than the tier's daily allowance" (`credit_service.py:10`) | superseding a stalled run refunds its daily credits, its worker settles it all the same |
| `SeoAnalysis_failed.cfg`* | `OneLiveRunPerStore` | two requests check for a run in progress before either inserts one |
| `SeoAnalysis_charged.cfg` | `CompletedRunIsCharged` | the hold expires before the analysis ends; it is settled at zero |
| `SeoAnalysis_failed.cfg` | `FailedRunIsNotCharged` | a superseding request writes "failed" over the charged run |
| `SeoAnalysis_lostupdate.cfg` | `BalancePays` | two settlements subtract from one loaded balance |
| `SeoAnalysis_failed.cfg`* | `NothingHeldNothingReserved` | a hold expires and its part of the counter stays until the counter expires |
| `Optimization_rejected.cfg` | `RejectedIsNotWritten`: "Human-in-the-loop approval gate" (`optimization.py:12`) | a rejection that loaded the row as pending overwrites the approval and the application that came between |
| `Optimization_retry.cfg` | `RetryIsPossible`: "Etsy API timed out; retry later" (`optimizations.py:240`) | the row is marked failed, and no request takes a failed row |
| `Optimization_rejected.cfg`* | `WriteNeedsApproved` | a second apply that loaded the row as approved writes it again after the first committed |
| `Optimization_onepending.cfg` | `OnePendingPerField` | two concurrent creations |
| `Optimization_mirror.cfg` | `MirrorIsConsistent` | two rows of one field are written to Etsy in one order and committed in the other |
| `Optimization_hash.cfg` | `HashIsOfContent` | the hash is computed from columns loaded before another apply changed them |
| `PaddleWebhook_frozen.cfg` | `HealthAnswers`: "GET /health" (`README.md:83`) | a flush blocks the event loop on a row whose owner needs the loop to commit |
| `PaddleWebhook_reapplied.cfg` | `NeverReapplied`: "a successfully processed event is never re-applied" (`webhooks.py:43`) | two overlapping retries of an event that failed before both apply it |
| `PaddleWebhook_sync.cfg` | `BalanceInSync`: "keep ... credit balances in sync with billing events" (`paddle_service.py:3`) | two grants start from one loaded balance; one is lost |
| `StoreSync_disconnected.cfg` | `DisconnectedMeansRevoked` | an application refreshes the token between a sync's load and its refresh: the sync presents the used token, is refused, and disconnects the store |
| `StoreSync_sync.cfg`* | `RefreshIsPersisted`: "refreshing and persisting it if stale" (`etsy_token_service.py:20`) | an application refreshes the token, then the rate limiter gives up or Etsy cannot be reached; `apply_optimization` catches neither, the session is rolled back, and the row keeps a refresh token that Etsy has used up |
| `StoreSync_disconnected.cfg`* | `SyncInProgressIsRefused`: "Sync already running" (`stores.py:103`) | "syncing" is flushed and never committed, so a second sync is queued while the first is at work |
| `DailyAgent_daily.cfg`* | `OneNoticePerCycle`: "one in-app notification and one email per billing cycle" (`notification_service.py:5`) | the flag is set on the first of a month of 31 days and expires on the last, where another settlement writes a second notice |
| `StoreSync_firstsync.cfg` | `SyncFindsStore` | the callback queues the first sync before its commit; a worker that is quicker finds no store |
| `StoreSync_limit.cfg` | `WithinStoreLimit` | two connections are started before either inserts its store |
| `Accounts_collide.cfg` | `LoginGivesSession` | a logout and a login in the second of an earlier login make the same refresh token again; the unique key fails at the commit, after the client was answered |
| `RateLimiter_toofast.cfg` | `NeverTooFastAtAll` | clocks that lag set `last` back, and the same ticks refill the bucket twice |
| `Proposal_unfit.cfg` | `ProposalIsValid` | tags alike but for their case, or a title of blanks, make a proposal that no application can ever send |

What the daily agent does under redelivery that none of its properties forbids,
since no line of the repository does: a notify that comes again finds no hold and
overwrites `credits_used` with 0; a fan-out that comes again sets a completed
run back to "running" and starts a second chord; a start that comes again makes
a second run; an analysis that comes again is counted twice; a sync that exhausts
its retries leaves the run pending for ever. Two of them need no fault at all:
parts of a chord that overlap lose each other's additions to the totals, and a
run longer than the 600 seconds of its hold is settled at zero.

### Bounds, and why they are enough

* Two runs are the least for a request to meet another request, a stalled run or
  a settlement, and no action of the code involves more than two (a superseding
  request treats stalled runs one by one). One run with three deliveries is the
  least for a delivery to meet both a dead and a live one.
* `Cost` 2 and balances of 2 or 4 are zero, one or two runs' worth of credits.
  `DailyCap` 4 lets both runs in; where the cap is the question it is 2.
  `TTL` is 2 ticks and `StaleAfter` 1: a hold outlives the moment its run counts
  as stalled, as 600 seconds and `STALE_RUN_AFTER` do in the code, and both
  orders of "expired" and "settled" occur.
* `Unlucky` and `MaxDeliveries` bound crashes: a run in `Unlucky` may lose every
  delivery but the last. Without the bound a worker could die for ever and
  nothing would finish. `MaxMidnights` bounds the days; in one day the daily
  count only has to be compared with one key.
* Four requests are the least for create, approve, apply and a rival; three in
  flight (`MaxLive`) let a request wait for one that itself waits. Two fields
  are the least for the mirror's columns to be about different rows.
* Three deliveries are the least for an event that fails and two retries that
  overlap, with one server (one Uvicorn process, as the Dockerfile runs it). The
  three kinds of event are one that may fail halfway, one whose effect depends on
  the row as loaded and one that only grants. A renewal and the changes of status
  are in the configurations that end in a violation (`Purchases`, `Changes`). The
  theorems of section 4 cover every kind and any number of servers.
* One crash, redelivery, Redis error or expiry in `daily` already gives two
  lines of one run, two settlements of one hold or a second run; the first
  firing of Beat and two listings are the least for a chord with an order. The
  low-credit flag expires once at most: the second one outlives the month.
* In `sync` two syncs, an application and a connection are one user of the
  tokens of every kind and one of a kind twice. One token that ages or is
  revoked, one fault and one retry reach every end of each of them.
* In `accounts` four requests are a registration, a login, a logout and one
  more; ticks 0 to 2 hold the same second, the last second of an access token
  (`AccessLife` 1) and of a refresh token (`RefreshLife` 2).
* In `limiter` the bucket holds two tokens and a tick brings half of one;
  `KeyLife` 5 is the shortest for which a forgotten bucket would be full, lag
  included (`RateAssumption`), and `MaxTime` 9 lets it be forgotten once.
* In `proposal` the limits are 2, the answers reach one above them, and the words
  are three ordinary ones, one too long and a blank one. The schema and the
  validator write each limit down for themselves and the model has one constant
  for both: that the two numbers agree is read in the source, not checked; what
  is checked is the order of strip, drop and cut.
* Deadlock is checked in every run; the only states without a successor action of
  the code are those where everything has ended (`AllDone`, `AllAnswered`,
  `AllEnded`, `Idle`, `Quiet`,
  `Over`, `Ended`).

`RequestSymmetry` is used where only invariants or action properties that treat
all requests alike are checked, never with liveness.

### Fairness

Weak fairness is assumed of steps a running process takes by itself: a thread or
task goes on (the AI client, the Etsy client and Redis have timeouts or answer),
row locks are granted when they are free, time passes, and the broker redelivers
the message of a worker that is gone. There is none for what nobody is obliged to
do: a user's request, a notification's arrival, a crash, a duplicate while the
first delivery is alive, a midnight. A
request to connect a store, a user's login and Beat's firing are likewise free.
In `RateLimiter` time passes and a process that asks goes on; that it is ever
granted a token is not promised, by the code neither. Strong fairness is assumed nowhere: no step
of the code is promised to win a race it keeps losing.

## 4. What is proved

The theorems hold for every value of the constants that satisfies the named
assumptions (`CreditAssumption`, `SeoAssumption`, `OptimizationAssumption`,
`PaddleAssumption`, `RateAssumption`, `AccountsAssumption`, `SyncAssumption`,
`DailyAssumption`, `StreamAssumption`, `ProposalAssumption`): any number of runs,
stores, deliveries, workers, listings, requests, fields, events and servers, any
costs, expiries, rates, limits and capacities. The bounds of the model
(`MaxFaults`, `MaxLive`, `MaxRetries`, `MaxTime` and the like) are constants too:
the theorems hold for all of them. The theorems state `Spec => []P`, or `Spec => P` for
an action property or a refinement, with the plain, unfair specification. One has
a hypothesis: `MirrorIsTrue` assumes `MaxLive = 1`, since its property is about
one request at a time and fails for two (`Optimization_mirror.cfg`).

| module | theorem | property |
|---|---|---|
| `SeoAnalysisProofs` | `TypeCorrect` | `TypeOK` |
| | `OneAnalysis` | `OneAnalysisPerRun` |
| | `CounterOutlives` | `CounterOutlivesHolds` |
| | `MessageFindsRow` | `MessageHasRow` |
| | `ChargedOnce` | `ChargeAtMostOnce` |
| | `NothingLeft` | `RefusalLeavesNothing` |
| | `KeepsPromise` | `KeepsThePromise`, that is, `Charging!Spec` |
| `OptimizationProofs` | `TypeCorrect` | `TypeOK` |
| | `Gate` | `GateInv` |
| | `HumanGate` | `WrittenWasApproved` |
| | `AppliesExclude` | `OneApplyPerRow` |
| | `ShownIsTrue` | `ShownWasWritten` |
| | `MirrorIsTrue` | `MirrorAfterAnswer` |
| `PaddleWebhookProofs` | `TypeCorrect` | `TypeOK` |
| | `Once` | `OnceInv` |
| | `NeverTwice` | `AppliedOnce` |
| | `NoEmptyRecord` | `RecordedIsApplied` |
| | `StaleStays` | `StaleColumnsStay` |
| `RateLimiterProofs` | `TypeCorrect` | `TypeOK` |
| | `AllPaid` | `Paid` |
| | `KeepsTheRate` | `NeverTooFast` |
| `AccountsProofs` | `TypeCorrect` | `TypeOK` |
| | `OneAccount` | `OneAccountPerEmail` |
| | `EndedStaysEnded` | `LogoutIsFinal` |
| `StoreSyncProofs` | `TypeCorrect` | `TypeOK` |
| | `TokenIsKept` | `TokenKept` |
| `EventStreamProofs` | `TypeCorrect` | `TypeOK` |
| | `OneNotice` | `OneNoticePerFlag` |
| | `Totals` | `TotalsAreLogged` |
| | `Digest` | `DigestIsComplete` |
| | `ChargedOnce` | `BalanceFallsOnce` |
| | `ToldTheEnd` | `ToldIsFinished` |
| `ProposalProofs` | `TypeCorrect` | `TypeOK` |
| | `EveryTokenCounts` | `UsageIsBilled` |
| | `LimitsAgree` | `RefusedForNoLimit` |
| | `AcceptableOnly` | `SentIsAcceptable` |

**A run is charged once.** `ChargeAtMostOnce` is not inductive: the state before
the fatal step already has two deliveries that have read the hold. `ChargeInv`
adds what excludes it. `LockInv`: inside the analysis a delivery has its run's
row. `DispatchInv`: only the request creates the hold, and it has dispatched
before anything is delivered, so no hold comes back. `VictimInv`, `HoldInv`: a
delivery settles its own run, and a hold is the cost or nothing. `OnceInv`: a
delivery that has read a positive hold finds nothing charged yet, and at its
commit the hold is deleted. The proof takes the steps of one process (all other
processes' entries unchanged, lemma `OthersUnmoved`) and then the other steps.
The condition "no Redis call of its own raised" is needed: a swallowed exception
leaves a hold that a redelivery charges again.

**Only approved changes reach Etsy.** `GateInv` adds that a request in the call
has its row locked (`CallHoldsRow`), that its row had been approved when it
passed the check (`ApprovedByThen`; approval is kept as history because the
status may be overwritten, see `rejected`), and that what a session has loaded of
the mirror, and what Etsy confirmed, was written (`ConfirmedIsWritten`).

**An event is applied once.** `OnceInv` adds that a delivery past its flush has
the event's row or key (`OpenHasRow`), that for an event that never failed the
row was absent when it looked and still is (`FirstSeenAbsent`), and that such an
event is never recorded as failed. Type correctness needs `GrantsOnly`: no
handler takes credits away, so the ledger's amounts are natural numbers. A
failure commits what its handler had begun, which is never a grant (`BegunType`,
`BegunColumns`).

**No token without time.** `Paid` is not inductive alone: a bucket that Redis has
forgotten comes back full, and what pays for that is not in it. `WrittenInv`
adds that `last` is no later than the last write, and that a key that does not
exist was never used or was not written for `KeyLife`. By `RateAssumption` a
bucket left alone that long would be full at any time a process may send
(`RefilledIsPaid`), so forgetting it gives nothing away. `StoreKeeps` is the
script's step, for a grant and a refusal alike; products of two variables are
compared by `RateKeepsOrder` only. `NeverTooFast` follows: with `back = 0` what
pays is `last`, which is never after the clock.

**A refused request leaves nothing.** `OpeningInv`: until its request has
reserved, a run has no hold, no row and no message. What could break it is
another request that supersedes stalled runs and writes "failed" into their rows:
`StaleInv` says that it only ever found runs that have a row.

**A run's charge keeps its promise.** The refinement maps a run to its phase,
computed from its hold, its history of charges and its request (`PhaseOf`). Its
proof goes step by step: `Edge` lists the moves `RunCharge` allows, and each
action of `SeoAnalysis` moves the phase of one run along an edge, or of many from
"held" when keys expire, or none. It needs `PhaseInv`: `ChargeInv` (a deleted hold
was read, or was worth nothing), `OpeningInv` and `StaleInv`.

**The mirror is true after a quiet answer.** `MirrorInv`: with one request in
flight, its view of the listing is the mirror, the mirror is what Etsy has, and
between Etsy's yes and the commit Etsy is ahead by the field written. The
invariant says this only while no answer was in doubt (`Quiet`).

**A stale row does no harm outside its event.** `NewIsAfter`: what a delivery will
write is what its event makes of the row it loaded, or what a handler that raised
had made of it. `AfterColumns` and `BegunColumns`: no handler touches a column
outside `Columns`. So the columns in which the two rows differ,
the only ones the UPDATE has, are the event's own.

**One account, and a logout that lasts.** `KeyInv` is the unique key over rows
inserted and not committed as well as committed ones: the registration that
waits finds either. Logins and onboarding may answer before they commit, so
`PlaceInv` says who can be where, and `SessionInv` that a session in the table,
or in the set a logout is about to revoke, belongs to an account. For
`LogoutIsFinal` `RevokedInv` is carried from the commit on: the same token made
again by a login of the same second meets the unique key.

**No handled end throws a refresh token away.** `FreshInv`: what a session got
from Etsy and has not committed is private to it: good (or revoked by the owner,
or lost with an answer), stored nowhere, and known to nobody else. Hence a session
that dies, or is rolled back by an uncaught exception, loses only its own, and
every other end writes it. `ApartInv` keeps shops apart. The row lock is not among the
reasons: a session that refreshed writes its columns whoever wrote the row last.

**The daily run.** `DailyInv` has a part for each question. Who is at work on
what: `LabelInv`, `FiredInv`, `AloneInv` (until its start commits, nothing else
knows a run). Totals: `TotalInv` extends the bound to what sessions have loaded
and will write back. Charging: `SettledInv`, `CostInv` and `BalanceInv`; a
settlement that is going to deduct loaded the balance when its own run had not
been charged, so what it subtracts from counts the other runs' prices at most
(`Price`), and a redelivered notify finds the hold deleted. The notice:
`NoticeInv`, a flag excludes a second bearer, and the flag's expiry
(`NoticeExpires`, `LapsedStays`) allows one more. The digest, which is promised
while nothing fails: `LineInv` (no second line of a run), `SpreadInv` (parts of a
chord are the only things of a run that are under way together, each listing
once) and `DigestInv` (before synthesis has committed no notify exists, after it
nothing analyses, so the count it gathered is the final one). `SummaryInv` and
`SettledInv` give `ToldInv` what the browser is told: a row that says "completed"
was closed by a notify.

**The two lists of limits agree.** `AnswerInv` says what an answer has left when
it is used (`CleanInv`), what it has cost (`BilledInv`) and that the verdict is
about it (`VerdictInv`). The loop that cleans tags is a recursive function; for
answers of any length, `LoopExists` shows that it is defined and `LoopIsClean`
what it returns, both by the least counterexample (`LeastExists`, from the
library's theorem on well-founded relations), since induction over a predicate
cannot be instantiated by the provers.

**Model-checked only.** The liveness properties (`RunFinishes`, `HoldsExpire`,
`EveryRequestAnswered`, `EndsOrFreezes`, `RunCompletes`, `SyncEnds`,
`RequestEnds`, `AcquireEnds`): fairness and ENABLED are outside what the prover
handles. That a property fails is TLC's to show: the two violation runs and the
configurations of section 3. `ChargeInv`, `GateInv`, `OnceInv`, `MirrorInv` and the
other inductive invariants of the proofs are in no run's list.

## 5. What is not modelled

* The content of a description's analysis, prompts, e-mails, encryption, settings and
  administration scripts: no concurrent state of their own.
* Payload validation and signatures in the webhook: rejected before any state is
  read.
* The argument `actual_cost` of `settle`: no caller passes it.
* The task's branch "Listing not found": nothing deletes a listing.
* `retry_count` and dates: written, and read by nothing modelled.
* A database that fails at commit is an exception, that is, the death of the
  request; a commit whose outcome is unknown to the client does not arise (the
  server and the database are taken to agree).
* Which listings a daily run picks, how a listing's columns are taken from Etsy's
  answer, its pictures, the competitor search before an analysis.
* The routes that only read (runs, listings, billing) and the flag that a
  notification was read.
* The description's limit of 102400 characters, and the texts of the schema that
  no rule of Etsy is about.
* A limiter set to less than one request per second: its capacity is the rate,
  so it holds no whole token and every acquire times out. The assumption of the
  model does not exclude it; no setting of the repository has it.
* That an OAuth state belongs to the user who comes back with it: one owner.
* The frontend: to the server it is requests in any order, which the models have.
