# MarketMind in TLA+

MarketMind collects financial news from three sites (wscn, cls, jin10) and market
data from Binance, and serves them to a web interface. What is hard in it is not the
parsing but the collection itself: several processes share a PostgreSQL ledger, each
of them may crash, stall, lose an advisory lock or be replaced, administrators pause,
cancel, resume and restart runs at any moment, and no page may be lost, committed twice
or written by a process that was replaced. This directory models that.

File names below are relative to `src/backend/src/marketmind/`.

## 1. Inventory

| Part | State | Operations | Interacts with |
| --- | --- | --- | --- |
| Source executor (`runtime.py`) | `source_runtimes` row: status, generation, owner, lease, restart history; two advisory locks per source | take the lock, apply commands, spend the restart budget, claim a batch, supervise a worker, record its exit | page worker (child process), API (commands), session worker, alerts |
| Page worker (`scrapy_worker.py`) | its batch: run, source generation, run generation, task generation; the task lease | claim the task, fetch, renew the lease, commit the page or record the failure | ledger rows, site adapters, source egress |
| Ingestion (`ingestion.py`) | news items, revisions, changes, occurrences; task, run checkpoint | one transaction per page | page worker; change feed reads what it commits |
| Control API (`controls.py`) | runs, commands, idempotency keys, config versions, enabled switches | create a run, pause, resume, cancel, retry, restart, patch | executor applies its commands |
| Scheduler (`scheduler.py`) | `next_run_at`, `recovery_scheduled_at` | create due realtime runs and recovery backfills | ledger |
| Login session (`sessions.py`, `session_worker.py`) | session row with a generation, login attempts; one advisory lock for the worker | request, refresh, cancel, revoke, publish a QR code, verify, publish the session, recheck it | pauses and releases the source's runs, fences its page worker |
| Change feed (`changes.py`) | none; the consumer's cursor has one offset per source and a turn | read the next changes | ingestion, through the trigger that numbers changes |
| Alerts (`alerts.py`) | alert events, deliveries, Telegram settings | open, count, resolve an alert | every worker; outbox |
| Outbox (`notification_worker.py`) | deliveries with leases; the offline incident file | claim, send, finish; handle and reconcile a database outage | Telegram, alerts |
| Egress and rate limit (`proxy_runtime.py`, `proxies.py`) | egress state, health, leases, checks; Redis keys | select an egress, fail over, throttle, note a response, check a proxy | page worker, session worker |
| Market data (`market_worker.py`, `market_service.py`) | quotes, bars, sync runs, a bounded queue | stream, poll, consume, backfill, shut down | Binance |
| Adapters, browser, analysis, authentication, UI | request-local or pure | parse, drive a browser, compute, log in, render | |

What makes each part correct, and what is hard about it:

* **Executor, worker, ingestion.** Interleavings of executors, orphaned workers, commands
  and login losses; crashes between any two transactions; leases that run out under a
  working process. One writer at a time; pages of a run committed once, in order, without
  a gap; commands cut off the batches before them; the restart budget and the pause hold;
  runs and commands do not hang.
* **Login session.** A browser works for minutes while administrators cancel, refresh or
  revoke: a result may be published only for the generation it was started under, and a
  revoked session never comes back.
* **Change feed.** A consumer that polls with its cursor sees every change of a source once
  and in order, although change numbers are allocated by concurrent transactions, answers are
  lost and sources are added; a number or a URL names one item.
* **Outbox.** At-least-once delivery with at most five attempts, across worker crashes and
  across a database outage that is recorded in a file and merged back.
* **Egress.** Fail-over only moves forward, a paused egress stays paused until it is
  recovered, a proxy in use is not deleted, requests of one source keep their distance.
* **Market data.** The tables catch up with the stream; what was queued before a stop is
  stored; the worker stops when asked although its queue is bounded.

`PROJECT.json` lists the hazards at their lines with the properties that cover them.

## 2. Modules

| Module | What it is |
| --- | --- |
| `SourceLedger` | executor, page worker, commands, login session effects and timers of one source, over the ledger rows |
| `FencedLog` | what the ledger promises: one page per epoch, written by the holder of the epoch |
| `MCSourceLedger` | symmetry for TLC |
| `SourceLedgerProofs` | types, one writer, commands fence, the rows agree, restarts, the refinement of `FencedLog`, and what the advisory locks add |
| `FencedLogProofs` | one page per epoch |
| `NotificationOutbox` | alerts, their deliveries, the notification workers and their incident files |
| `NotificationOutboxProofs` | outcomes, episodes and the switch, for any number of workers; types, the budget, recorded incidents and final successes for one |
| `SourceSession` | the saved login of a source, its attempts, the session workers and their browsers, the page worker that reads with it |
| `MCSourceSession` | symmetry for TLC |
| `SourceSessionProofs` | one open attempt; revoked and replaced logins stay out; never anonymous again |
| `NewsFeed` | news items, revisions and changes as pages commit them, and the consumer of the change feed |
| `MCNewsFeed` | two sources for TLC |
| `NewsFeedProofs` | identity, the log, the consumer's order and the turns of the sources |
| `ProxyEgress` | the egress of one source, its contexts and leases, proxy health, proxy checks |
| `MCProxyEgress` | two proxies for TLC |
| `ProxyEgressProofs` | a proxy in use exists; the egress moves forward and for cause |
| `MarketWorker` | stream, poll, consumer, `serve` and backfill over quotes and bars |
| `MCMarketWorker` | two symbols for TLC |
| `MarketWorkerProofs` | no event is lost but with the consumer, the bar catches up, an interrupted run is drained |
| `Recursion` | lemmas: a recursive function over `1 .. n` exists and unfolds |

### SourceLedger

One source with one collector. The variables are the rows and the processes:

| Variable | Code |
| --- | --- |
| `rt` | `SourceRuntime`: `gen` is `generation`, `lease` is `lease_expires_at` as none, live or expired, `fresh` counts the restart stamps inside the 30-minute window, `pending` is `restart_pending`, `backoff` is `retry_at` in the future |
| `enabled` | `Source.enabled` and `Collector.enabled` |
| `run` | `CrawlRun`: `gen`, `page`, `base` are `generation`, `page`, `batch_start_page` of its checkpoint |
| `task` | `CrawlTask` by run and page (`business_key` is `page:n`): `tries` is `attempt` less `retry_base`, `due` is `retry_at` |
| `cmd` | `ControlCommand` in creation order. `over`, `base` and `at` record the runs a command took effect on, their pages and the source generation; `base` is the code's `baseline`, `at` is a history variable |
| `log` | history variable: per run, the source generations that committed its pages |
| `srcLock`, `todo` | the executor whose `commands()` transaction holds the Source row, and the commands it has still to apply |
| `ex`, `exLock` | executor processes with their place in `execute_source`, and the executor advisory lock |
| `wk`, `wkLock` | page workers with their place in the spider, and the worker advisory lock |
| `faults` | disturbances so far (bound) |

Every handler takes the Source row first (`runtime_row`), so a transaction is one step and
is enabled only when `srcLock = None`. `commands()` applies several commands in one
transaction, each in a savepoint of its own: one step per command, while `srcLock` keeps
everyone else out. API transactions do not take the row; under READ COMMITTED they see
the rows as before or after, which is what `Ready` in their guards says.

| Action | Code |
| --- | --- |
| `ScheduleRun`, `SubmitRun`, `SubmitAction`, `SubmitRetry`, `SubmitRestart`, `PatchEnabled` | `schedule_once`; `create_run`, `run_action`, `retry`, `restart`, `patch_source` and `patch_collector` of the API |
| `BeginCommands`, `RejectCommand`, `ApplyPause`, `ApplyCancel`, `ApplyRun`, `ApplyRecovery`, `PollRestart` | `commands`, `apply_command`, `resume_run`, `fence_tasks` |
| `Acquire`, `LeaseWaited`, `TakeOver`, `LockGone`, `ProbeWorker` | `execute_source` |
| `RestartBudget`, `ClaimBatch`, `NothingToClaim` | `restart_budget`, `claim_batch` |
| `Spawn`, `SpawnFails`, `Renew`, `Superseded`, `Reap`, `RecordExit` | `supervise`, `record_exit` |
| `Start`, `Download`, `DownloadRefused`, `Heartbeat` | the spider's `start`, the download handler, `heartbeat` |
| `Commit`, `Fail`, `Discarded`, `Exit` | `persist_page`, `failed`, the refused answers, the exit code of `main` |
| `PauseForLogin`, `PublishSession` | `pause_source_runs`, the release in `_publish_session` |
| `WorkerCrash`, `ExecutorCrash`, `LoseExecutorLock`, `LoseWorkerLock` | processes killed, database sessions gone |
| `LeaseExpires`, `TaskLeaseExpires`, `RetryDue`, `BackoffOver`, `StampAges` | time |

What is abstracted: the Redis queue (a stale request is dropped by the generation check in
`download`, and the ledger rows decide everything else), the wording and the reasons of
pauses, `consecutive_failures` (it only sets the length of a back-off), node names, alerts,
`created_at` order within a lane (one collector has one active run per lane), the one-batch
mode of the CLI, and the reset of the source egress after a recovery (it touches no ledger
row). A database error in `supervise` ends the executor and terminates its worker: here an
`ExecutorCrash` and a `WorkerCrash`. `schedule_once` can create both lanes' runs in one
transaction: here two steps.

### FencedLog

A log per run, written under epochs. `Advance` starts an epoch, `Grant` gives it to a run
once, `Revoke` takes it back, `Write` appends one page and ends the authority. The ledger
implements it with the source generation as the epoch and the run of the only worker that
still passes the fences as the holder: `ImplementsFencedLog`.

### NotificationOutbox

Composed with nothing: the other workers only add alerts to it.

| Variable | Code |
| --- | --- |
| `rows` | `alert_events` in creation order, each with its `notification_deliveries` row: `id`, `kind`, `alert` (the event's status), `rel` (`related_alert_id`) and `st`, `tries`, `hist`, `due`, `token` of the delivery. A test notification is a row without an event. `due` stands for `next_attempt_at` or `lease_expires_at`, whichever the status looks at; `token` is the number of the attempt that holds the lease |
| `file` | `database-incident.json` of each worker; `due` as above |
| `on` | `TelegramSettings.enabled` |
| `wk` | the worker: place in `run_worker`, the settings of its cycle (`config`), the delivery it works on, the token of its claim, the result of its request |
| `calls`, `known`, `late` | history variables: requests per message, messages whose success was recorded, requests after the switch went off |
| `made`, `faults`, `switches` | bounds |

| Action | Code |
| --- | --- |
| `ReadConfiguration` | `read_configuration`, and whether `reconcile_database_outage` has a file |
| `Report`, `Import`, `Recover`, `Unlink` | the three transactions of `reconcile_database_outage` and the removal of the file |
| `CycleFails` | the journal cannot be written before the removal |
| `CheckRedis`, `NoHealthDue` | `check_redis` |
| `ClaimDelivery`, `ClaimExhausted`, `NothingToSend` | `claim_delivery` |
| `SendTelegram`, `SendDisabled`, `FinishDelivery` | the request or its omission, `finish_delivery` |
| `OpenIncident`, `ReadIncident`, `ClaimOffline`, `ExhaustOffline`, `NothingOffline`, `SendOffline`, `FinishOffline` | `handle_database_outage`, one step per write of the file |
| `DbFails`, and the second disjunct of `Answers` | `except SQLAlchemyError`: a transaction fails, or commits without the worker knowing |
| `Crash`, `Restart` | the process |
| `RowDue`, `FileDue` | retry delays and leases run out |
| `TestTelegram`, `PatchTelegram` | the administrator |

A claim may take any delivery that is due (the code takes the oldest), and a request has the
outcomes sent, refused, or to be retried; whether there is a usable configuration is part of
that choice. A request counts as made whatever its outcome. `SKIP LOCKED` never skips here, since a
transaction is one step. Deliveries of an unconfigured Bot, the occurrence counter and the
texts are left out.

### SourceSession

Composed with the ledger by what it does to it: `rt` and `run` are the status of the source
runtime and of the source's run, `reader` is a page worker; `SourceLedger` has the same
effects as `PauseForLogin` and `PublishSession`.

| Variable | Code |
| --- | --- |
| `ses` | `SourceSession`: `gen` is `generation`, `enc` tells which login the encrypted state came from, `validated` and `revoked` are `validated_at` and `revoked_at`, `old` says that the time a recheck counts from is past |
| `att` | `LoginAttempt` in creation order: `qr` is the stored image, `due` that `expires_at` has passed |
| `file` | the configured local session file exists |
| `wk`, `lock` | session workers: place in `run`, the job of the source, the alerts handed to threads; the advisory lock |
| `alert` | the `waiting_login` alert |
| `revokes`, `barred`, `known` | history: revocations, the first login that is not revoked, whether credentials were ever known |

| Action | Code |
| --- | --- |
| `NewAttempt`, `PollAttempt`, `CancelAttempt`, `RevokeSession`, `RevokeLost` | `create_attempt` and `refresh_attempt`, `get_attempt` and `get_qr`, `cancel_attempt`, `revoke_session` and its failure after the file is gone |
| `Expire` (part of almost every handler) | `expire_attempts` |
| `StartWorker`, `Bootstrap`, `Loop`, `Guard` | the lock in `run`, `bootstrap`, a round of `run` with `_schedule`, `_guard` |
| `PublishQr`, `Confirming`, `OpenFresh`, `PublishLogin`, `FinishAttempt` | the browser login: `_publish_qr`, `_confirming`, the second browser, `_publish_session`, `_finish_attempt` |
| `ConfirmSession`, `RejectSession` | the two ends of `_verify` |
| `Notified`, `WriteAlert`, `LoseAlert` | `emit_alert` in a thread |
| `StopWorker`, `DiscardContexts`, `CrashWorker`, `LoseLock` | SIGTERM, `_discard_contexts`, the process killed, its database connection lost |
| `AttemptDue`, `SessionAges` | `expires_at`, `RECHECK_INTERVAL` |
| `ClaimPage`, `OpenPage`, `OpenAnonymous`, `PageNeedsLogin`, `CommitPage`, `CommitRefused` | the page worker: `load_session`, `persist_page` and their failures |

A browser job is one step from an await to the next. `run` asks its connection every second
and a browser takes longer for a step, so a job of a worker without the lock is taken to end
at most one more step (`late`). `_discard_contexts` works on connections of its own: an old
worker that stops fails the attempt of the worker that has taken over. An attempt's
`action_required` and `failed` are one status. Encryption and the QR image are left out; an
administrator's pause is in `SourceLedger`.

### NewsFeed

| Variable | Code |
| --- | --- |
| `news` | `NewsItem` by source: `id` is `source_item_id`, `url` the canonical URL, `rev` the current revision |
| `log` | `NewsChange` by source, each with its `NewsRevision`; the place is the `change_id` |
| `present` | rows of `sources` |
| `cursor`, `req` | the consumer's cursor; the request being answered, one source at a time, its items by source (what the consumer applies is an order within a source) |
| `got`, `lead` | the change ids the consumer applied; history for fairness between sources |

`CommitPage` is the article part of `persist_page`: recognition by number or URL
(`Known`), the conflict that rolls the page back, `Unchanged` contents, a new item or
revision and its change. `AskChanges`, `ReadSource`, `ServeSource` and `NewCursor` are
`changes`, `BeginAnew` is the consumer after the refusal of its cursor, `Receive` and
`LoseAnswer` its luck. `AddSource` is a migration. A page is one step because three locks,
each enough by itself, are held to the end of its transaction: the Source row, the advisory
lock of the source and the row of `source_change_sequences`. Each source is read by a
statement of its own, between which pages are committed. Occurrences, raw documents and the
search text are left out. A source can get into a state where pages fail for ever: with one
item known by its number under URL 1 and another by URL 2, every article with that number
and URL 2 names both (`ingestion.py:78`); `CommitPage` is then not enabled for such a page.

### ProxyEgress

| Variable | Code |
| --- | --- |
| `config` | `permission_config` and `config_version` of the source |
| `endpoints`, `cooling` | `proxy_endpoints`; `cooldown_until` of `proxy_source_health` |
| `egress` | the row of `source_egress_states`: proxy, version, direct fallback, paused |
| `contexts`, `leases` | the request context of each process, `proxy_leases` |
| `checks`, `job` | `proxy_checks`, and the check the proxy worker is at |
| `faulted`, `faults` | history: proxies a connection over which failed; bound |

| Action | Code |
| --- | --- |
| `PatchSource`, `UpdateProxy`, `DeleteProxy`, `AskCheck`, `ResetTransport` | `patch_source`, the three handlers of `proxies.py`, `reset_source_transport` |
| `SelectProxy`, `Exhaust`, `SelectDirect` | `_select_transport` |
| `Succeed`, `RecordSuccess`, `FailToConnect`, `RecordFailure` | `note_response`, `note_transport_failure`, before and after they wait for the lock of the Redis script |
| `CloseContext`, `HeartbeatFails`, `CrashUser`, `LeaseExpires`, `CooldownEnds` | `source_transport`, its heartbeat, the process, time |
| `ClaimCheck`, `ReadDetails`, `ProbeSucceeds`, `ProbeRestricted`, `ProbeFails`, `BlameProxy`, `FinishCheck`, `CrashProxyWorker`, `CheckLeaseExpires` | the proxy worker |

A lease is taken to run out only if its process died or its heartbeat failed: it is renewed
every 30 seconds for 120. The four minutes of a check are taken to suffice its worker,
because `_finish_check` has no fence (a late first answer would end the check another worker
has claimed). `consecutive_failures` only sets the length of a cooldown. `update_proxy` may
change the address a context is using; its late failure counts against the new one. The
spacing of requests (`throttle`) is not modelled.

### MarketWorker

| Variable | Code |
| --- | --- |
| `quotes`, `bar`, `alert` | `event_at` of `market_quotes`, one row of `market_bars`, the alert |
| `main`, `stop`, `run` | `serve`, the stop event, the row of `market_sync_runs` |
| `stream`, `poll`, `consumer`, `queue` | the tasks, and the queue between the first and the last |
| `backfill` | `backfill`, a process of its own |
| `now`, `count` | the exchange's clock; history: events put, stored, put before the stop, and the newest bar put |

`ReceiveEvent` to `StreamEnds` are `_stream_forever`, `PollNext` to `PollAgain`
`_poll_quotes`, `Consume`, `ConsumeTimesOut` and `ConsumerEnds` `_consume`, `Join`,
`TaskStopped` and `Close` `serve`, `Signal` its signal handlers, the four `Backfill` actions
`backfill` of `market_service.py`. Between two awaits a task is one step. What the model
shows of the code beside its properties:

* The poll keeps its transaction over the awaits between two symbols
  (`market_worker.py:84`). A consumer that needs one of these rows blocks the event loop,
  the poll cannot commit, and after the lock timeout of 5 seconds the consumer fails and its
  batch is lost: `ConsumeTimesOut`.
* If the consumer is gone when the stop comes, or fails while the queue is drained,
  `queue.join` waits for ever (`:167`). `StopEnds` therefore says "or the consumer failed".
* `store_bars` has no guard: a backfill that read the bar while it was open replaces the
  complete one, and never asks for it again (`market_service.py:109`, `:161`).
  `TablesCatchUp` therefore says "unless backfill wrote it".
* A successful poll resolves the alert of a stream that is down (`market_worker.py:95`).
* A quote asked for by REST has the local clock's time (`binance_market.py:104`), so with a
  clock ahead it hides quotes of the stream; the model has one clock.
* A process that is killed leaves its row `running`; a crash is not an action here.

The stream of equities repeats that of cryptocurrencies and is left out.

## 3. Runs

Every run finishes within five minutes on two cores, and deadlock is checked in every run.

| Run | Instance | Shows |
| --- | --- | --- |
| `ledger_commands` | 2 runs, 1 executor, 1 worker, 4 generations, 2 pages, 2 commands, no faults | `LedgerContiguous`, `ActiveRunHasWork`, `OneActivePerLane`, `RestartProven`, `FinalRunsStay` |
| `ledger_crash` | 1 run, 1 executor, 2 workers, 3 generations, 1 command, 2 of: executor or worker crash, failed spawn, timeout, stall, login loss, disabled source; restart stamps age | `BudgetHolds`, `OneFetcher`, `PauseHolds` |
| `ledger_splitbrain` | 2 runs, 2 executors, 2 workers, 2 generations, 2 crashes or lost locks | `OneWriter`, `ImplementsFencedLog` |
| `ledger_liveness` | 1 run, 1 executor, 2 workers, 2 pages, 2 tries, 1 command, 1 fault, no symmetry | `RunsComeToRest`, `CommandsSettle` |
| `outbox_outage` | 1 worker, 1 outage, 4 database errors or crashes, 1 switch of the settings, 2 attempts, no symmetry | `TypeOK`, `BudgetHolds`, `IncidentsRecorded`, `OffWithinOneCycle`, `SuccessIsFinal`, `DeliveriesSettle`, `OutagesClose` |
| `outbox_workers` | 2 workers, 1 alert or test, 1 error or crash, 2 attempts, no outage | `EpisodesPaired`, `OutcomesBelong` |
| `outage_swallowed` | 1 worker, 2 outages, 3 errors or crashes, 2 attempts | `NewOutageNewIncident` is violated |
| `session` | 1 session worker, 1 attempt, 1 revocation, 1 fault, a page worker | `RevokedReadsFenced`, `AttemptsSettle`, `WaitingIsRechecked`, `AlertFollows` |
| `session_takeover` | 2 session workers, 2 attempts, 1 revocation, 1 fault | `OneLiveAttempt`, `OldLoginsStayOut` |
| `news_feed` | 2 sources of which one is added, 3 pages of one article with or without a number, 2 URLs, 2 contents of which one is complete, answers of 1 or 2 changes | `TypeOK`, `IdentityUnique`, `LogTellsNews`, `AppliedInOrder`, `FairTurns`, `ChangesArrive` |
| `egress` | 2 proxies in one order or none, 1 process, 1 check, 2 configurations, 1 fault | `UsedProxyExists`, `ForwardOnly`, `ChecksSettle` |
| `market` | 2 symbols, a queue and a batch of 2, 3 events, a bar that closes at time 1 | `TypeOK`, `TablesCatchUp`, `InterruptedIsDrained`, `StopEnds` |

Bounds of the ledger. `MaxRestarts` is 1 (3 in the code) and `MaxTries` 1 or 2 (4): the guards
compare a counter with a limit, and the limit is reached with fewer steps. Two workers are
enough for an orphan beside a current one, two executors for a split brain; a third adds no
new pair. Two or three generations are enough for a batch, the one that replaces it, and a
command between them. `MaxGen` bounds `ClaimBatch` and `PauseForLogin`; in `ledger_liveness` no
behaviour reaches it, so that it cuts off nothing a liveness property needs: with one fault,
one command and two pages at most eight generations are claimed. `MaxFaults` counts
disturbances, `MaxCommands` commands, `MaxPage` pages (the last page never says "more").
`Spare` keeps a run identity for a pending restart. The proofs need none of these bounds.

In `NotificationOutbox` `MaxAttempts` is 2 (5 in the code): it is only compared with the
counter, and 2 is enough for a failed attempt, its retry and an exhausted budget. Four
errors or crashes are enough for an outage of several cycles with an attempt that is
interrupted and a budget used up during the outage, or for two interruptions of one merge. A
second outage starts a file of its own only after the first one's recovery is committed and
its file removed; with 2 outages, 3 errors and no switch the safety properties were found to
hold as well (850 thousand states). The third error in `outage_swallowed` is the outage that
is lost. These bounds stop only disturbances and new alerts, never a
step that a liveness property needs.

The other bounds (`MaxAttempts`, `MaxRevokes` and `MaxFaults` of `SourceSession`, `MaxPages`
and `MaxChanges` of `NewsFeed`, `MaxVersion` and `MaxFaults` of `ProxyEgress`, `MaxEvents` and
`MaxTime` of `MarketWorker`) stop administrators, sites, faults and the exchange, which no
liveness property counts on. Two attempts and one revocation give a browser of a revoked
login beside a new one; one attempt is enough for what comes to an end, since a new one ends
the one before. In `news_feed` three pages reach a number and a URL that meet in one article,
a revision between two requests, and a source with more to tell than one answer holds. In
`egress` two proxies are enough for a first, a next and an exhausted order, and the second
version for a context of the configuration before. In `market` three events are one more than
the queue holds; two symbols make the poll await with a row locked.

Fairness (`FairSpec`): each executor and each worker that can take a step eventually takes
one, and leases, back-offs and retry delays run out. The processes poll (`sleep(2)`, a wait
of 5 seconds in `supervise`, `sleep(15)` in `heartbeat`) and PostgreSQL grants the row lock
in turn; a worker's step may be disabled again and again by transactions of others, hence
strong fairness for workers. A notification worker is restarted and goes on polling, and
delays and leases run out; database errors are bounded, so the database answers in the end.
A session worker is restarted when the lock is free (strong, because another one may hold it
again and again), a browser answers or fails within the timeouts of `session_worker.py`,
threads end, attempts and sessions age. The consumer of the feed is not in the repository;
it is assumed to keep asking, and not to lose every answer. The proxy worker goes on and the
lease of a check runs out. The event loop runs the consumer and `serve` when they can go on;
the stream and the poll need no fairness for `StopEnds`. Nothing is assumed of
administrators, the scheduler, the sites, the exchange or faults.

### Disagreements with the documentation

`outage_swallowed` is a run of the project. TLC showed the others too, with constants or
properties that are named here and are in no run.

* `docs/phase-1-plan.md` 5.3 allows three automatic restarts in 30 minutes. `restart_budget`
  and `claim_batch` are two transactions and the lock is checked only at the top of the loop:
  an executor that lost its lock after its `SELECT 1` passes the budget beside the one that
  took over, and both restarts are counted (2 executors, `"executor_lock"` among the
  `Disturbances`). With the lock kept, `BudgetHolds` holds (`ledger_crash`).
* Section 5.2 says of a disabled plan that existing runs go on. `claim_batch` asks for the
  enabled flags, so a queued run of a disabled source waits until it is enabled again.
* Section 10.2 says that a database outage is recorded as an event after the recovery.
  `reconcile_database_outage` commits the recovery before it removes the incident file. When
  the worker stops in between, or the journal cannot be written, the next database error
  finds the file and goes on with the incident that is over: its event ids exist already,
  so the new outage is never recorded, and if the old message was sent there is none for it
  (`outage_swallowed`).
* Section 16.5 says that the attempts made during the outage count against the delivery. The
  alert, and with it a pending delivery, is committed before the attempts are merged; a
  notification worker beside a `--health-only` prober claims it in between. With one worker
  `BudgetHolds` and `SuccessIsFinal` hold (`outbox_outage`, and `BudgetHoldsAlone` and
  `SuccessIsFinalAlone` for every budget and any number of outages).
* `proxy_runtime.py:182` says that a context with a failed connection cannot establish
  recovery. `note_response` looks at that before it waits for the lock of the Redis script
  (`proxy_runtime.py:185`): a request of the same context that fails to connect in between is
  recorded first, and the recovery after it clears the cooldown (`Succeed`, `FailToConnect`,
  `RecordFailure`, `RecordSuccess` of one context).

A limit: `PauseHolds` is checked while the worker lock is kept (`ledger_crash`). `failed()` does
not look at the source's status, so a worker of the current generation that outlived both its
executor and its lock sets a source paused by an exhausted budget to `waiting_login`, which a
verified login turns into `idle`. Adding `"worker_lock"` to `Disturbances` shows it.

## 4. Proofs

For `SourceLedger`, any number of runs, executors, workers, pages, commands and generations:

* `TypeCorrect`: `Spec => []TypeOK`, from `TypeInv`, which adds to `TypeOK` what the program
  counters imply: a supervising executor has a worker, a claimed batch has a run, the holder
  of the source row is at one of the three places where commands are applied, a worker at
  work has a run. Without these the EXCEPTs of later steps would not be typed.
* `OneWriterAlways` and `CommandsFenceAlways`, from `FenceInv`:
  `Issued` (generations of batches and commands were issued by the source row),
  `Distinct` (no two batches in the hands of an executor or a worker share a source generation),
  `LeftBehind` (the run generation a batch holds is not ahead of the run's, and strictly behind
  it once a command was applied to the run after the batch was claimed).
  Two writers would both hold the current source generation, which `Distinct` forbids. Almost
  every action is quiet for `FenceInv` (`QuietStep`: generations only grow, batches are dropped
  but not changed); only `ClaimBatch` and `Spawn` need an argument of their own. The proof uses
  neither the advisory locks nor the leases: fencing by generations is enough.
* `RowsAgree`: `Spec => [](TypeInv /\ RowsInv)`. `RowsInv` is `LedgerContiguous`,
  `ActiveRunHasWork`, `OneActivePerLane` and `Named` (a run that was never created has no
  tasks, and commands are about runs that exist). Each of the first three needs the others: a
  resumed run finds its page because the pages are contiguous, and stays alone in its lane
  because only an active run is resumed. Every action moves the rows of a run in one of five
  ways (`RowsMove`: kept, cancelled, entered, begun, page committed); each way keeps `RowsInv`.
  From the same moves follows `FinalRunsStayAlways`.
* `RestartProvenAlways`, from `PagesAfter`: the pages a run got after a command was applied
  to it carry generations greater than the command's. That is what `CommandsFence` gives.
* `UnspentAlways` and `ImplementsFencedLogAlways`. An epoch a page was committed with is not
  the epoch of any batch still to come, so a grant of the abstract log is always of an unused
  epoch; with `OneWriter` the holder is unique. `RefinesStep` maps each kind of ledger step to
  `Grant`, `Write`, `Advance`, `Revoke` or a stutter.
* `BudgetHoldsAlways` assumes that the executor lock is not lost, `OneFetcherAlways` that the
  worker lock is not lost, `PauseHoldsAlways` both. The assumptions say which faults are left
  out; crashes, stalls, timeouts and expired leases stay in. They are needed: with the faults
  left in TLC shows `BudgetHolds` and `PauseHolds` violated (end of section 3). The invariants
  are `AloneInv` (one executor runs, past the budget check the budget has room, a running
  source is the batch of that executor), `WorkerAlone` (a worker past its start holds the
  lock) and `PauseInv` (an executor checks the budget only when no worker fetches, and nobody
  may write to a paused source).
* `EpochsOrderPages`: `Spec => []OnePagePerEpoch` for `FencedLog`, assuming `ConstantsFit`.

For `SourceSession`, any number of workers, attempts, revocations and faults, from `SessionInv`:

* `RowsFit`: attempts are created in order; an open one is the only one and has the
  generation of the session row; an attempt that is open or still to come is of a login
  after the last revocation, and so are the stored credentials; at generation 0 nothing was
  revoked. `WorkersFit`: a job is of a generation of the past or the present, and a recheck of
  the present one has credentials that were not revoked. `Traced`: the row shows what was
  stored or revoked once. `ReaderFits`: a page read with revoked credentials is fenced.
* From it `SessionTypeCorrect`, `OneLiveAttemptHolds`, `RevokedReadsFencedHolds`,
  `RevokedStaysOutHolds` (stored credentials are never those of a revoked login, the part of
  `OldLoginsStayOut` about revocation as an invariant) and `NeverAnonymousAgainHolds`.
* The argument: a revocation raises the generation and ends the open attempt. A login is
  published only while its attempt is open, a recheck only under the generation it began in,
  the local file only at generation 0. The advisory lock and the bound on what a worker does
  without it (`late`) are not used: the generation is enough.
* `OldLoginsStayOutHolds` says more: a login that was replaced does not come back either. The
  generation is not enough for that, since `_publish_session` leaves it alone: a recheck of the
  login stored before and a new login may be under way in one generation, in two workers of
  which the first lost the lock. `TakeoverInv` is the invariant. `Later`: whatever attempt is
  open or still to come is of a later login than the stored one. `Apart`: while a recheck can
  still write, it has what is stored, no attempt waits, and no login past its QR code can write;
  the worker of either holds the lock unless nobody does or the holder has yet to run
  bootstrap. `BootIdle`: a worker before bootstrap has no job. Most steps only end things
  (`Moves`); the four that do not are bootstrap (it ends the attempts it finds open), the round
  of `run` that gives out a job (only with the lock, and a login before a recheck),
  `_publish_qr` and `_publish_session` of a login. Here the lock and `late` are used: a worker
  without the lock is taken to end at most one more step of its browser, as the loop of `run`
  asks its connection every second.

For `ProxyEgress`, any proxies, processes, checks, lists and versions, from `EgressInv`:

* `ContextsFit`: a context was opened as its configuration allowed, and has its lease while it
  takes requests. `Protected`: leases and unfinished checks are of proxies that exist.
  `JobFits`, `EgressFits` (an egress of the current version is one the configuration can lead
  to), and every proxy that cools down was at fault.
* From it `EgressTypeCorrect`, `UsedProxiesStay`, `DirectOnlyWhenAllowed`,
  `EgressMovesForward` and `EgressRotatesForCause`. That the egress moves forward is a fact
  about `Candidates`, the rest of the list from the current proxy on.

For `NotificationOutbox`, any number of workers, alerts, outages and faults, from `OutboxInv`:

* `RowsFit`, `FilesFit`, `WorkersFit`: a delivery or file that is `sending` ends its history
  with its one open attempt, whose number is the lease token. `Merges`: an entry a merge
  brought into a delivery is still in the incident file, so that the next merge of the file
  replaces nothing with less. `Episodes`: of each kind one alert is active, and a failure is
  resolved exactly if a recovery names it. `OffFits`: while notifications are off, the requests
  made since and the workers whose cycle began before are together no more than the workers.
* From it `EpisodesPairedAlways`, `OffWithinOneCycleAlways` and `OutcomesBelongAlways`. The
  last one is the fence of `finish_delivery`: an attempt number is never used twice within a
  delivery while its lease token is out, so the closed attempt is the answering worker's.

For `NotificationOutbox` with one worker (`OneWorker`), any number of alerts, outages, faults,
switches and attempts, from `OutboxInv` and `SoleInv`:

* The assumption is what the deployment runs: one `notification-worker`
  (`docs/phase-1-plan.md:413`). It is needed: a worker beside a `--health-only` prober sends
  too often (end of section 3). Crashes, restarts, lost answers, leases that run out and
  interrupted merges stay in. TLC found `SoleInv` to hold with one worker before it was
  proved: with 1 outage, 2 attempts, 4 faults and 1 switch (78 thousand states), and with 2
  outages, 1 other alert, 1 attempt and 3 faults (3 million states).
* `IdsFit`: `Down(i)` and `Up(i)` name the alert and the recovery of an incident that was
  opened, at most one row each, the second related to the first; any other row is named by its
  place. `NumbersFit`: a history has one entry for each attempt. `BehindFit` is the heart of
  it: while the file is there, the delivery of its incident is not ahead of it. It has only
  entries a merge brought, no more attempts than the file, and is `sent` only if the file is.
  So the merge finds nothing of others to keep (`MergedAlone`), and what it leaves alone is
  already there (`KeptSynced`). `DoneFit`: an incident is in its file or has its recovery.
  `ActiveFit`: an active database alert is that of the file. `CallFit`: the requests made for a
  message are no more than the attempts counted in the file or, without it, in the delivery.
  `KnownFit`: a recorded success is still recorded.
* `Place` is what the worker relies on at its place in `run_worker`: it reaches the outbox only
  without a file, sends only after the attempt was counted, and removes the file only when the
  delivery has its attempts and outcome and the recovery is recorded.
* The argument for the merge: a lost answer or a crash leaves the file where it was, and the
  worker comes back to `Report`, which finds the alert by its id, and to `Recover`, which finds
  the recovery. `RowsBound` counts the rows: an incident has one alert, a failure one
  recovery, so that `Ids` has a name for every row.
* From it `TypeOKAlone`, `BudgetHoldsAlone`, `IncidentsRecordedAlone` and
  `SuccessIsFinalAlone`. A delivery or file a request is made for is `sending`
  (`RequestUnknown`), and `CallFit` ties what was counted to it.

For `MarketWorker`, any symbols, queue and batch sizes, from `MarketInv`: `Accounts` (what was
put is stored or in the queue, unless the consumer failed, and then something was lost),
`NewestBar` (the last bar of the queue, or without one the stored bar, is the newest put) and
`Stops` (`serve` leaves `join` only when everything put before the stop is stored). From it
`MarketTypeCorrect`, `TablesCatchUpAlways` and `InterruptedIsDrainedAlways`.

For `NewsFeed`, any sources, articles, pages and limits, from `FeedInv`:

* `StoreFits`: in the tables of a source no two rows share a number or a URL, and the changes
  of a row begin with its creation, end with its current revision and differ in succession.
  This is kept by each article of a page, and so by a page (`Aligned`).
* `CursorFits`, `Applied`, `ReqFits`: what the consumer applied of a source is `1 .. n` for the
  offset `n` of its cursor; the queue read for a source goes on from there whatever is
  committed meanwhile, and the items of the answer are its head.
* `LeadFits`: a source that waits while another is served comes before it when the turn goes
  round, so it is served before the other is served again. The turn is a place in the list of
  sources (`Ahead`), and a cursor is of one list.
* From it `FeedTypeCorrect`, `IdentityUniqueAlways`, `LogTellsNewsAlways`,
  `AppliedInOrderAlways` and `FairTurnsAlways`.

`OtherEntries`, `StoreBatch`, `ListOf` and `Aligned` are recursive functions. The library's
induction theorems have an operator as a parameter, which no installed prover can instantiate;
`Recursion` has instead the existence of such a function as a fact about sets, and what it
computes is shown by a least counterexample (`LeastOf`), separately for each function.

Assumptions: `BoundsAssumption` and `BoundsAreNat` (the bounds are naturals, the limits
positive), `NoneAssumption`, `NoneIsNoRow` and `NobodyIsNoWorker` (`None` is no run, process, lane,
action, proxy, check or session worker), `ListsAreOrders` (a list of proxies names none twice: `validate_source_config` refuses
it otherwise), `OutboxAssumption` (finitely many workers), `OrderAssumption` of `MarketWorker` (some
symbols, in an order that may repeat one) and of `NewsFeed` (some sources, each once: `code` is
unique), `NoneAssumption` (`None` is no cursor).

Proved and in no run: `TypeOK` of `SourceLedger`, `SourceSession` and `ProxyEgress`,
`CommandsFence`, `Unspent`, `OnePagePerEpoch`, `RevokedStaysOut`, `NeverAnonymousAgain`,
`DirectOnlyIfAllowed`, `RotatedForCause`.

Model-checked only: liveness under fairness, which is out of the prover's reach:
`RunsComeToRest`, `CommandsSettle`, `DeliveriesSettle`, `OutagesClose`, `AttemptsSettle`,
`WaitingIsRechecked`, `AlertFollows`, `ChangesArrive`, `ChecksSettle` and `StopEnds`. Every
invariant and action property of the passing runs is a theorem; `TypeOK`, `BudgetHolds`,
`IncidentsRecorded` and `SuccessIsFinal` of `NotificationOutbox` are theorems for one worker,
as in `outbox_outage`.

## 5. Plan

1. `SourceLedger`, `FencedLog` and their first proofs (done).
2. `NotificationOutbox`, model-checked (done).
3. `SourceSession` and `ProxyEgress` with their invariants proved, `NewsFeed` and
   `MarketWorker` (done).
4. Left to model: `RateGate` (`throttle` and the cooldown scripts in Redis), `Scheduler`
   (`next_run_at`, recovery backfills, idempotency keys, and a manual collection that resumes
   a run beside the executor), `ClsReplay` (the pages cls is asked for again).
5. Invariants, action properties and the refinement proved for `SourceLedger`,
   `SourceSession`, `NotificationOutbox`, `MarketWorker` and `NewsFeed` (done).
6. `TypeOK`, `BudgetHolds`, `IncidentsRecorded` and `SuccessIsFinal` of `NotificationOutbox`
   proved for one worker (done).

## 6. Not modelled

Parsing in the adapters, the browser (what it returns is a choice of `SourceSession`), analysis
and indicators (pure computations on text or floating-point series), authentication and read
endpoints (request-local), schemas and configuration, the web interface. The command line runs
the executor for one batch and is planned with `Scheduler`. Of the migrations, the index of
active runs, the numbering of changes and the cursor reset by a new source are in the modules;
the rest declares the rows they take as variables. `PROJECT.json` names each with its reason.
