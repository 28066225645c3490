# Verification of the strategy platform

TLA+ models of the strategy platform service (`src/`), model-checked with TLC and,
where it matters most, proved with TLAPS. The platform runs freqtrade strategies:
it backtests every strategy once a day, recomputes trading signals every hour, and
serves both through a FastAPI application. PostgreSQL keeps the data, Redis is the
Celery broker, a cache, a lock and a counter store.

Paths below are relative to the repository; the package is `src/src`.

## 1. Inventory

| # | Component | Code | State it keeps | Operations |
|---|---|---|---|---|
| 1 | Daily backtests: queue, worker, task table | `workers/tasks/backtest_tasks.py`, `workers/celery_app.py`, `workers/db.py`, `models/backtest.py`, `freqtrade_bridge/backtester.py`, `runner.py`, `strategy_registry.py` | `backtest_tasks` (UNIQUE strategy, date), `backtest_results`, figures on `strategies`, queue `backtest` | `run_all_backtests_task`, `run_backtest_task` |
| 2 | Backtest submission | `services/admin_backtest_service.py`, `api/admin_backtests.py` | a PENDING row and a message | `submit_backtest`; reads `get_task`, `list_tasks` |
| 3 | Strategy administration | `admin/views.py`, `admin/auth.py` | `strategies` and everything that cascades from it | edit, delete |
| 4 | Signal refresh coordinator | `workers/tasks/signal_coord_task.py`, `workers/redis_client.py`, `freqtrade_bridge/data_downloader.py` | `lock:signal_refresh`, `signal:consecutive_failures`, candle files | `generate_all_signals_task` |
| 5 | Signal computation and publication | `freqtrade_bridge/signal_calculator.py`, `workers/tasks/signal_tasks.py`, `services/signal_service.py`, `api/signals.py`, `models/signal.py` | `trading_signals`, Redis lists `signal:{strategy}` | `compute_all_signals`, `upsert_signal`, `_update_redis_cache`; the readers |
| 6 | Pair metrics | `services/pair_metrics_service.py`, `metrics_validator.py`, `models/strategy_pair_metrics.py` | `strategy_pair_metrics`, one row per strategy, pair, timeframe | `upsert_pair_metrics` with validation, COALESCE, time guard, retry |
| 7 | Trial access | `services/trial_service.py`, `api/trial.py` | Redis: a trial per visitor (3 days), a count per address (24 h) | `init_trial`, `get_trial`, `is_trial_active` |
| 8 | Accounts, tokens, membership | `services/auth_service.py`, `core/security.py`, `core/deps.py`, `models/user.py`, `schemas/` | `users`; JWTs held by clients | `register`, `login`, `refresh_access_token`, `get_current_user`, field visibility |
| 9 | Research reports | `api/admin_reports.py`, `services/report_service.py`, `models/report.py` | `research_reports`, `report_coins` | create, update, delete, read |
| 10 | Read-only queries | `services/strategy_service.py`, `backtest_service.py`, their routers | none | pagination, filters |
| 11 | freqtrade strategies, market data fetch | `freqtrade_bridge/strategies/*`, `signal_fetcher.py` | none | indicator arithmetic |
| 12 | Seeds and migrations | `freqtrade_bridge/seeds/*`, `migrations/versions/*` | schema, initial data | run once |
| 13 | Application shell | `main.py`, `api/app.py`, `core/*`, `utils/*` | none | wiring, settings, logging, errors |

### How the components interact

- Beat (1) sends `run_all_backtests_task` once a day; that task sends one
  `run_backtest_task` for each active strategy. An administrator's request (2) writes
  a PENDING row *and* sends the same message. The worker looks the row up by strategy
  and date, or makes its own. Row and message are two systems with no common commit.
- A finished backtest writes, in one transaction, the result, the strategy's figures,
  backtest signals (5) and the pair metrics (6).
- Beat, or an administrator, sends `generate_all_signals_task` (4). It takes a Redis
  lock with an expiry, downloads candles, and lets the calculator (5) write all the
  signals in one transaction, while each strategy's Redis list is rewritten entry by
  entry before the commit. The API's readers (5) look at Redis first, then at the table.
- Deleting a strategy in the admin site (3) cascades to tasks, results, signals and
  pair metrics, under whatever task is running.
- Trials (7) and accounts (8) are used by the API only.

### Which behaviours are hard, and what makes each component right

1. *Backtests.* `acks_late` gives at-least-once delivery: after a worker crash, and
   after the broker's visibility timeout, a message comes twice. The idempotency check,
   the UNIQUE constraint and `concurrency=1` have to turn that into one run a day.
   Status, result and figures have to agree whatever is interrupted; a row that reads
   RUNNING has to be executed by somebody; the queue has to come to rest.
2. *Submission.* The message leaves before the commit. Either order of worker and
   commit, and a failing commit, have to leave rows and messages that fit.
3. *Administration.* A cascade under a running task must not bring rows back.
4. *Coordinator.* A lock that expires on its own, is deleted without asking whose it
   is, and is left behind by a crash: how many refreshes can overlap, and does the lock
   always come free. A counter kept outside the transaction it counts.
5. *Signals.* One failing combination must not take the others with it; two refreshes
   lock rows in different orders; the cache is written in two steps and before the
   commit; a stale computation must not replace a newer signal.
6. *Pair metrics.* Two writers in any order, missing figures, older timestamps, a retry
   inside a transaction that the first error aborted.
7. *Trials.* A limit that is read first and counted later, with keys that expire.
8. *Accounts.* Check-then-insert on the address; tokens that outlive a change of the
   account; which field which tier sees.
9. *Reports.* Delete-then-insert of the coins by two requests; an update and a deletion
   that lock report and coins in opposite orders.
10. *Lists.* Count and page are two statements and two pages two requests, while rows
   come, move and go.
11. *Strategies.* All strategies write into one DataFrame; the same direction is worked
   out in three places; rolling windows, fills and crossings must not look ahead, and no
   exit may cancel an entry on the same candle.
12. *Seeds.* Trades are paired by two copies of one loop whose figures are stored side
   by side.

Component 13 keeps no state.

`PROJECT.json` lists every hazard with its line and the properties that cover it.

## 2. Plan

| Order | Module | Subject | State |
|---|---|---|---|
| 1 | `TaskLifecycle` | abstract: what the task table promises its readers | done |
| 2 | `BacktestTasks` | components 1, 2 and the deletion of 3, composed | done |
| 3 | `BacktestTasksProofs` | types, row ownership, one run a day, results, refinement of `TaskLifecycle` | done |
| 4 | `SignalRefresh` | component 4 and the calculator of 5, composed | done |
| 5 | `SignalRefreshProofs` | types, bounded overlap, signals only advance; cache and counter after undisturbed refreshes | done |
| 6 | `Trials`, `TrialsProofs` | component 7: concurrent requests, expiry, faults; types, trials kept, the bound on trials | done |
| 7 | `PairMetrics`, `PairMetricsProofs` | component 6: the merge, the writers, the guard, the retry, the edit form | done |
| 8 | `Accounts`, `AccountsProofs` | component 8 and the paywall of 5 | done |
| 9 | `Reports`, `ReportsProofs` | component 9: concurrent replacement and deletion | done |
| 10 | `StrategySignals` | component 11 and the extraction of 5 and 12 | done |
| 11 | `Figures` | the figures of the seeds and of live updates | done |
| 12 | `Listings` | component 10: pages of a list that changes | done |
| 13 | `MCRecords`, `MCAlgorithms` | instances of 7, 8, 9, 12 and of 10, 11 | done |
| 14 | `RecordsProofs` | types and skipped rows of `Listings`; all of `MCRecords` together | done |
| 15 | `AlgorithmsProofs` | types, entries, look-ahead, trades, figures, live drawdown; both together | done |

`BacktestTasks` and `SignalRefresh` compose their components, since their subject is the
interaction. They share no variable: the queues are separate, and the signals a backtest
stores have `signal_source = backtest`, which the refresh's partial unique index
excludes. `PairMetrics` composes what meets on one table: backtests, live updates, the
edit form and the deletion of the strategy.

`PairMetrics`, `Accounts`, `Reports` and `Listings` share no variable with each other, nor
do `StrategySignals` and `Figures`. Their joint state would be a product that holds no
further behaviour, so `MCRecords` and `MCAlgorithms` choose a *focus* at the start, and
only that module moves. Every property speaks of one module, so what holds under each
focus holds of the product.

Left for later: the deletion of a strategy under a refresh.

## 3. The models

In all models an action is the code between two points at which another process can see
or change what it works on: one statement of a READ COMMITTED transaction, a commit,
one Redis command, one message. What only the process itself can see is part of the
action beside it. Figures, prices, names and logging are left out.

Some operators are marked *slip*. They are no part of the model; each is a plausible
mistake in the definition after it, used to confirm that a property can fail.

### 3.1 BacktestTasks and TaskLifecycle

| Variable | Stands for |
|---|---|
| `task[k]` | the committed status of the row with key k = (strategy, date); "none" when there is no row |
| `open[k]` | the transaction (worker or request) with an uncommitted row k; others that insert k wait on it |
| `results[k]` | number of committed `BacktestResult` rows of k, standing for all that is stored with them |
| `runs[k]` | history: how many backtests were started for k |
| `queue[m]` | copies of message m in the broker; m is a strategy, or `Daily` |
| `worker[w]` | program counter, message, the date read when the task began, strategies left to dispatch |
| `request[r]` | program counter, strategy and date of one `submit_backtest` |
| `strategies`, `today`, `lastBeat` | rows of `strategies`; the date; the day Beat last fired |
| `faults`, `crashes`, `redeliveries` | budgets already used |

`run_backtest_task`, statement by statement:

| Code (`backtest_tasks.py`) | Action |
|---|---|
| message taken, `today = date.today()` | `Receive` |
| lines 65-89: row of today RUNNING or DONE, or no such strategy: return | `SkipMessage` |
| registry lookup; unknown: FAILED row, commit, return | `CheckRegistry`, `RecordUnregistered` |
| SELECT the PENDING row | `FindPending` |
| none: add and flush a row (outside the try block) | `InsertPending` |
| status RUNNING, commit | `StartRun` |
| freqtrade, parse, result, figures, signals, metrics, DONE, commit | `FinishDone` |
| the except branches: FAILED, commit | `FinishFailed` |
| the row is gone under the worker | `RowGone` |
| a flush or commit fails, the handler's own commit raises too | `Abort` |

`RowGone`, `Abort` and every return end in `Ack`: `acks_late` without
`task_reject_on_worker_lost` acknowledges a message whose task raised or whose pool
process was killed. `Crash` is the whole worker going down, which returns the message;
`Redeliver` is the broker's visibility timeout. `submit_backtest` is `SubmitBegin`
(checks), `SubmitFlush` (insert), `SubmitSend`, `SubmitCommit` and `SubmitAbort`.
`DeleteStrategy` waits for transactions with a new row that refers to the strategy, as
the foreign key makes it, then removes tasks and results.

`TaskLifecycle` is what a reader of the table may rely on according to the enum
`TaskStatus`: none, then pending, running, done or failed, never back, and "removed" for
good with the strategy. `BacktestTasks` implements it under `status <- Status`, which is
the committed status, or "removed" when the strategy is gone. A worker's own row goes
from none to running in one visible step, because its insert and RUNNING share a commit.

### 3.2 SignalRefresh

A signal is known by the candle it was computed from, a number that only grows; 0 is
none. `file[p]`, `rows[c]`, `cache[s][p]`, `worker[w].loaded[p]` and
`worker[w].seen[p]` hold such numbers: the local file, the committed row of a
combination, the Redis list, the frames in `_df_cache`, and the list as it was read.
`lock` holds the *owner* of the lock, although the key itself only holds "1"; no action
decides by it except whether it is None, and `LockExpires`/`Overrun`, which differ only
in whether the owner still runs. `held[c]` is the transaction that has
written row c and not yet committed.

| Code | Action |
|---|---|
| SET NX EX 600; key there: return; Redis down: raise | `Acquire`, `Skip`, `AcquireFails` |
| read strategies and pairs, find the stale files | `Plan` |
| `freqtrade download-data`, fallback to local files | `Download` |
| load the frame, run the strategy, extract the signal | `Compute`, or `SkipCombo` when any of it fails |
| `upsert_signal` | `Upsert`, `UpsertFails`, `DeadlockVictim` |
| `_update_redis_cache` | `CacheGet`, `CacheSet`, `CacheFails` |
| outer commit; its failure, or a failing SAVEPOINT | `Commit`, `TransactionFails` |
| the counter of failures | `CountSuccess`, `CountFailure`, `CountFails` |
| finally: DEL | `Release`, `ReleaseFails` |
| the process or the worker dies | `Crash` |

The environment: `Trigger` (Beat or `POST /admin/signals/refresh`), `LockExpires`,
`Overrun`, `NewCandle`, `CacheExpires`. Over-approximations, each allowing more than the
code does: combinations are taken in any order (the code's order is that of a query
without ORDER BY and of a list made of a set); a file one candle behind may count as
fresh or stale (the code allows two periods of wall-clock time); any set of strategies
may be read as active, the empty one too; a download that fails or is killed may have
updated any of the stale files.

### 3.3 Trials

| Variable | Stands for |
|---|---|
| `clock` | the time, by which Redis expires keys |
| `trial[v]` | the last value of the key `trial:v`: when it was made, for which address, and when it expires |
| `hits[a]` | the key `trial_ip:a`: its number and its expiry |
| `thread[t]` | the thread of the API that runs `init_trial` (`asyncio.to_thread`), its visitor and address, and the time it read |
| `uncounted` | history: visitors whose trial was stored by a request that failed before it knew the trial counted |
| `faults` | budget already used |

| Code (`trial_service.py`) | Action |
|---|---|
| GET of the trial; there: answered at once, no step of the model | `Lookup` |
| GET of the count; at the limit: refused | `Refuse`, `Admit` |
| SET NX EX | `Create`, `CreatedByOther` |
| GET after a lost race; the key gone meanwhile: goes on to count | `Reread`, `RereadNothing` |
| INCR and EXPIRE in one MULTI | `Charge` |
| Redis error or process death before the command; after it, the reply lost | `Fail`, `ReplyLost` |

After a lost reply the request fails or the Redis client repeats the command (redis-py
does either, by version and by how the connection was made). A key whose expiry has
passed reads as absent (`HasTrial`, `Hits`), so expiry is no action of its own.

Seen while modelling, and stated by no run: a refused request gets a dictionary without
`created_at`, so the route `api/trial.py:71` raises KeyError and answers 500, whereas the
docstring promises None.

### 3.4 PairMetrics

One strategy; a row of figures for each pair. A figure is the writer that measured it, so
that a lost or resurrected figure is visible; `source` names the writer, of which
`data_source` shows only the kind. `own[w]` holds the row versions of writer w's open
transaction, which are also its row locks.

| Code (`pair_metrics_service.py`, `backtest_tasks.py`, `signal_tasks.py`) | Action |
|---|---|
| the metrics part of a backtest, of a live update | `Start` |
| `validate_metrics` fails: return, on to the next pair | `SkipInvalid` |
| `now`, the statement built and sent | `Send` |
| INSERT ... ON CONFLICT DO UPDATE ... WHERE older | `Execute` (`Inserted`, `Merged`, `Newer`) |
| foreign key: the strategy is gone | `Orphaned` |
| OperationalError; sleep; the same statement again | `StatementFails`, `RetryRefused` |
| the caller's commit | `Commit` |
| the worker dies | `Die` |
| the admin's edit form, opened and saved | `OpenForm`, `SaveForm` |
| the strategy is deleted | `DeleteStrategy` |

The retry repeats the statement in a transaction PostgreSQL has aborted, so it is refused
for certain, and the whole batch is rolled back. Timestamps are taken
before the statement runs: a writer can wait for a row with an old timestamp in hand. The
live writer is called by `generate_signals_task` only, which looks strategies up by id
where the registry knows names, and fails before it gets there; it is modelled as written.

### 3.5 Accounts

`CheckEmail` and `InsertAccount` are the two halves of `register`, `Login` and `Refresh`
give tokens, `Arrive` is the dependency of `core/deps.py` that reads the account, `Answer`
the rest of the request: the paywall of the signals, which asks Redis for the trial
at that time, and `filter_by_tier`. `EditAccount` is the admin site, `TrialChanges` stands
for module `Trials`, `HourPasses` for the expiry of tokens. `during[c]` is history: the
standings (account and trial) there were since request c arrived. A field is its least
tier, a password the registration that chose it.

### 3.6 Reports

`update_report` is `SelectReport`, `WriteText`, `FindCoins`, `DeleteCoins` and
`StoreReport` or `NoReport`; a DELETE takes two actions because it deletes the coins it
*found*, after it may have waited. `delete_report` is `SelectForDelete` (the ORM loads the
coins), `RemoveCoins`, `RemoveReport` and `Cascade`. Each waits for the locks
PostgreSQL would make it wait for; `EndDeadlock` refuses either of two that wait for each
other. Readers take two SELECTs. A list of coins is the request that sent it; `earlier[u]`
is history: the updates that were over when u began. Lists are taken to be non-empty:
an update with an empty list would make "no coins" a legal reading.

### 3.7 StrategySignals

The ten strategies as operators on a frame: what they mark as entry and exit, row by row,
NaN and shifts included. Windows over highs and lows are computed; what TA-Lib
and qtpylib compute is an arbitrary pair of columns, since nothing in the code depends on
how they compute it. `Populated` is what a strategy leaves in the four signal columns,
`Realtime` the signal of the last row (`SignalCalculator`, `signal_fetcher`), `Seeded` the
history the seeds extract. `LoadFrame` appends a candle, `RunStrategy` runs one
strategy on the shared frame, in any order.

`SignalsAssumption` includes `Oversold <= ExitLevel <= Overbought`: the defaults of RSI and
Stochastic are so and nothing in the platform changes them, but their declared ranges
alone would allow an exit on the candle of an entry.

### 3.8 Figures

`_compute_pair_metrics` and the second copy of its pairing loop in
`_compute_strategy_aggregate`, and `compute_live_metrics`, in exact fractions. Left out:
rounding, the root in the Sharpe ratio, means over pairs.

### 3.9 Listings

A table with a sort key per row, writers that insert, move and delete (several at once by
a cascade), and a client that asks for page after page until the total it was last given
is covered: `CountRows`, then `FetchPage`. `kept` are the rows there all along; `late`
and `shifts` count what disturbed the walk. Rows with equal keys have no order: the lists
sort by `signal_at`, `created_at` or `total_return` alone, which are not unique. With such
ties a page may repeat or miss rows of a table that never changes, hence `~tied`.

## 4. What the runs check

| Run | Instance | Shows |
|---|---|---|
| `one_worker` | 1 worker, 2 strategies (one not in the registry), 1 request, 2 days, 1 fault, 1 crash | `TypeOK`; `OpenRowsAreHeld`: an uncommitted row belongs to one transaction that works on it; `RunsOncePerDay`; `ResultsMatchStatus`: one result if DONE, none otherwise; `RunningIsExecuting`: without faults, RUNNING means executing; `StatusMovesForward`: refinement of `TaskLifecycle` |
| `two_workers` | 2 workers, 1 strategy, 2 requests, 1 redelivery, fairness | `DoneHasResult` also with two processes; `RunningEnds`, `RequestsAnswered` (no request waits for ever on another's row) and `Quiesces` (messages end; nothing is put back) when nothing fails |
| `crash` | 1 worker, 1 crash, fairness | violation of `RunningEnds`, see below |
| `send_first` | 1 worker, 1 request | violation of `PendingHasMessage` |
| `resubmit` | 1 worker, 2 requests | violation of `AlwaysAccepted` |
| `signal_safety` | 2 workers, 1 strategy, 2 pairs, 2 candles, 2 triggers, 1 overrun, 1 fault, 1 crash | `TypeOK`; `RefreshesBounded`; `SignalsAdvance`; `CacheMatchesRows`; `FailuresCounted` |
| `signal_liveness` | 2 workers, 2 pairs, 2 triggers, 1 overrun, 1 crash, fairness | `LockFreed` although its owner died; `RefreshEnds` although two refreshes deadlock on each other's rows |
| `signal_overrun` | 2 workers, 2 triggers, 1 overrun | violation of `OneRefresh` |
| `trials` | 2 threads, 5 visitors, 1 address, limit 2, window 2, trial 3, 4 instants, 1 fault | `TypeOK`; `TrialsBounded`: the limit is passed by at most one per other thread and one per fault; `TrialNeverReset` |
| `trials_refused` | 1 thread, 3 visitors, no fault | violation of `RefusedOnlyWhenFull` |
| `records`, focus metrics | 2 pairs, 1 backtest, 1 live update, 1 figure, 3 readings of the clock, 1 fault, 1 form, fairness | `StampsAdvance`: no older row replaces a newer one; `FiguresKept`: no measured figure returns to NULL; `BatchIsWhole`: the rows of a backtest appear together; `WritersEnd`, also behind a writer whose statement failed |
| `records`, focus accounts | 1 address, 2 registrations, 1 client, tiers free and vip1, 4 hours, 1 change | `RegisteredOwns`; `SessionsEnd`: refreshing does not prolong a session without end; `ServedAsEntitled`: a request shows only what its account was entitled to at some moment of it |
| `records`, focus reports | 2 updates, 1 deletion, 1 reader, fairness | `NoOrphanCoins`; `ListsReplaced`: two lists together only if their requests overlapped and not both wrote the text; `NoGapRead`; `UpdatesEnd` in spite of deadlocks |
| `records`, focus lists | 3 rows, pages of 2, 4 places, 2 disturbances | `NoneSkipped`: a row is missed only for a row moved, deleted, or inserted between count and page |
| `algorithms`, focus signals | frames of 4 candles over 3 prices, or 2 candles with indicators over 3 levels and NaN | `FrameShared`: sharing the frame changes nothing; `EntryStands`: no entry is cancelled on its own candle; `SeedsMatchRealtime`: the seeds record what refreshes would have published, without look-ahead |
| `algorithms`, focus figures | histories of 5 seeded signals of 2 pairs, 3 prices; 7 live signals, window 5 | `TradesPaired` against a definition without a loop; `FiguresAgree`; `LiveDrawdown`: what the estimate means and when it passes 1 |

### Findings

- *crash.* A worker dies after committing RUNNING. The redelivered message meets the
  idempotency check, which treats RUNNING like DONE, and is dropped. Nothing resets the
  row. README and module comment say the task is queued again; it is, and then skipped.
- *send_first.* `send_task` precedes the commit. A worker quick enough sees no PENDING
  row, inserts its own, waits for the request's commit and dies on the UNIQUE constraint
  outside its try block. The accepted task has lost its only message.
- *resubmit.* "A task can always be queued" does not hold: a second submission for a
  strategy and day ends in an IntegrityError, after a FAILED task too.
- *signal_overrun.* The lock's 600 seconds are said to be the task's time limit, and
  refreshes to exclude each other. The task has no limit, and nothing renews the lock.
- *trials_refused.* The count is said to be that of the last 24 hours. Every creation
  restarts the key's expiry, so it counts every trial since the address was last unused
  for 24 hours, and refuses an address that made fewer than five in the last day.

Seen while modelling, and stated by no run of their own:

- Two updates that send only coins and overlap leave both lists (each DELETE saw only the
  old one), although `coins` is documented as "传入则全量替换"
  (`api/admin_reports.py:48`). `ListsReplaced` states exactly when.
- The live drawdown is documented as "归一化到 [0, 1]" (`signal_tasks.py:314-324`); it is
  above 1 whenever sells lead by more than the peak. `LiveDrawdown` states when.
- A live estimate replaces figures and `data_source` of a backtest if it is newer.
- `StrategyService.list_strategies` says "仅返回 is_active=True" and does not filter.
- Signals served from the cache are its first `limit` entries in the order they were
  first cached; the table gives the newest first.
- A backtest without a result file is parsed as `{}` and stored as DONE with zero figures
  (`backtester.py:214`).

### Bounds

Two workers are the fewest that can interfere, and with two pairs they can lock rows in
opposite orders; the code treats strategies alike, so one registered and one
unregistered strategy cover its branches. Two days are needed for a message that is
consumed after midnight. Two triggers, one crash and one overrun suffice for a late owner
that deletes its successor's lock. Two candles are needed for a stale signal to exist. One
fault at every statement is all a property "as long as nothing failed" distinguishes.
For `Trials`, the instance has one visitor more than the limit, the threads and the fault let
through, so the bound can be passed, and time for a window to end while a trial lasts
and for a trial to expire; `TrialTime >= Window` keeps the proportion of the code (three
days, one day). For
`PairMetrics`, a batch of two pairs is the smallest that can be half written, one
writer of each kind meets on one row, and the clock has a reading before, between and
after. For `Accounts`, four hours see a refresh token used at its last hour and the access
token from it expire. For `Reports`, two updates and the deletion give every pair of
transactions that can wait for each other. For `Listings`, three rows make two pages and
two disturbances can add up. The algorithms' windows are 1 to 3 candles instead of 4 to 55, so
that a frame of 4 fills each window and has a row after it; three prices give below,
equal and above. Five seeded signals hold two trades with a signal to ignore; seven live
ones pass a window of five. What a larger instance could add is, for safety, left to the
theorems, which bound nothing; for liveness it stays open.

The configurations say `CHECK_DEADLOCK FALSE` because the system may stop: when all
triggers, requests, days and faults of an instance are used and the queues are empty,
nothing is left to do. That it does not stop *earlier* is what `RequestsAnswered`,
`Quiesces`, `LockFreed` and `RefreshEnds` say.

### Fairness

`FairSpec` of `BacktestTasks` gives weak fairness to each worker's own steps and each
started request: a Celery worker goes on with its message and takes the next one, and the
server completes a request. It assumes that freqtrade terminates; the code runs it without
a timeout. `FairSpec` of `SignalRefresh` gives it to each worker's steps (`subprocess.run`
has `timeout=300`, and PostgreSQL ends a deadlock by an error, which is one of these steps)
and to the expiry of a key that nobody renews. Nothing forces Beat, an administrator,
a new candle, a fault or a crash. `MetricsFairness` and `ReportsFairness` let a worker or a
request run to its end once begun, and PostgreSQL end a deadlock; nothing forces a backtest
to start, a form to be saved or a visitor to read on.

## 5. What is proved

Every invariant and every action property a passing run checks is a theorem, and so is the
refinement of `TaskLifecycle`. All theorems hold for every value of the constants allowed
by the named assumption of the module: any strategies, workers, requests, pairs, days,
candles, prices, parameters and any budgets.

**BacktestTasksProofs**

- `TypeCorrect`: `TypeOK` is inductive by itself.
- `RowsAreHeld`, `OpenRowsHeld`, `DoneTasksHaveResults`: *any number of workers, any
  faults*. `RowInv` adds to `OpenRowsAreHeld` that a worker or a request past its first check
  works on an existing strategy's key, that a request between its flush and its commit
  holds its row (`KeysAreRows`), and that the row a worker is about to start or runs is
  there (`WorkedRowsExist`). Without these a start could create a row out of nothing while
  another transaction holds the key.
- `OneRunPerDay`, `ResultExactlyWhenDone`, `RunningMeansExecuting`,
  `BacktestTasksImplementsLifecycle`: under `OneWorker`, at most one worker process,
  which is how the compose files deploy the queue (`--concurrency=1`). The inductive
  `OneWorkerInv` adds `WorkerOwnsRow`: the row about to be started is still PENDING or the
  worker's own, the row it runs is still RUNNING, and a row not started has no run behind
  it. That is what fails with two processes: nothing locks the row between the SELECT
  and the commit of RUNNING. The refinement maps each step to a step of `TaskLifecycle`
  or a stutter.

**SignalRefreshProofs**

- `TypeCorrect`, from `TypeOK /\ ComboInv` (a worker at a step about a combination has
  one, with its candles loaded).
- `RefreshesAreBounded`: at most `1 + overruns` refreshes run at a time, for any number
  of workers, crashes and faults. The invariant is `LockInv`,
  `Cardinality(Running \ {lock}) <= overruns`. A late owner that deletes its
  successor's lock leaves a worker without the lock, but it ends in the same step, so the
  number does not grow. With no overrun this is mutual exclusion.
- `SignalsOnlyAdvance`: while no refresh outlived its lock, a stored signal is never
  replaced by one of an older candle. `RefreshInv` says where candles are in memory
  (`FramesInv`), that a written row belongs to a calculator with its candles (`HeldInv`),
  that nothing is newer than its origin (`VersionsInv`) and that frames in memory are as
  new as the table (`FreshInv`). At a commit the worker is alone by `LockInv`, and its frames
  came from files no older than any row then in the table.

The same module, about runs in which nothing was disturbed (`Calm`); budgets are not
given back, so what is calm now always was, and by `LockInv` one refresh runs at a time.

- `FailuresAreCounted`: by `CountInv`, the counter is behind the failures in a row by the
  refresh that is about to count, and by nothing else.
- `CacheFollowsRows`: the cache is written before the commit, so it runs ahead of the table.
  `CacheInv` compares it with `Final`, what the table holds or will hold when the
  transaction that has written the row commits, and so the list a refresh has read, but
  for the combination being cached, whose row that refresh holds.

**TrialsProofs**

- `TypeCorrect`; `TrialsAreKept`, an action property: only SET NX writes a trial, and
  only when its key is gone.
- `TrialsAreBounded`: for any limit, window, threads and faults. `IInv` sorts the recent
  trials of an address: *pending* (a thread is about to count them), *uncounted* (lost to
  a fault, `FaultInv`) and *counted*. The counted ones are never more than the count
  (`HitsInv`), which needs that the count's key outlives them (`WindowInv`, from the very
  EXPIRE that makes `trials_refused` fail). A thread is let in below the limit
  and leaves when it has counted, so counted trials and threads in between stay within
  limit and threads (`LimitInv`). `StepKinds` splits the steps into those that make no trial
  settled and those that count one.

**PairMetricsProofs**

- `MetricsTypeCorrect`, from `MetricsInv`, which adds that a statement is sent for one of the
  writer's pairs (`Sent`) and that an open form shows a row (`FormShown`).
- `StampsOnlyAdvance`, `FiguresAreKept`: `MetricsInv` also says that one transaction holds a row
  (`Exclusive`) and that a held version either is the committed one, or is newer and has
  its figures (`HeldFollows`). A commit then replaces rows only by followers. What a
  statement saw is the committed row or its own version, because it waited for the lock.
- `BatchesAreWhole` adds where a batch stands: the rows it holds are those of the
  pairs it has passed (`BatchHolds`), by its own hand or found newer (`HeldOrigin`), with
  timestamps in order of the pairs (`BatchInOrder`); rows saved by hand are exempt.

**AccountsProofs**

- `AccountsTypeCorrect`, with `SignupsAddressed`: a registration that looked has an address.
- `TheRegisteredOwn`: inductive with the types, since nothing but an insert sets a password.
- `SessionsDoEnd`: `TokensEnd` bounds the expiry of both kinds of tokens by the last login;
  an access token from a refresh starts before the refresh token's end.
- `RequestsServedAsEntitled`: `Handled` says that the standing a request read on arrival is
  among those recorded, and so is the present one, by which the paywall is decided;
  the two cases of the paywall choose between them.

**ReportsProofs**

- `ReportsTypeCorrect`, `NoCoinsAreOrphans`, `NoGapIsRead`: `ReportsInv` adds that only an
  update with a list has found coins (`Targets`) and that a report has coins exactly
  when it is there (`CoinsOfReport`), which no step breaks as removal and insertion of a
  list share a commit.
- `ListsAreReplaced`: at most one open update has written the text (`OneWriter`), what a
  DELETE did not find came from an overlapping request that did not write the text too
  (`FoundEarlier`), stored lists belong to updates that are over (`CoinsAreStored`), and
  so do the updates a request counts as earlier (`EarlierEnded`).

**RecordsProofs**

- `ListingsTypeCorrect`; `NoRowIsSkipped`: for any table and page size. With keys that differ,
  a row's place in the list is its *rank*, the number of rows before it. `ListingsInv`
  says that of the rows that were there all along, those the walk has missed, whose rank lies
  within the pages read, are at most as many as rows were moved or deleted: an insertion
  only raises ranks, a removal or a move lowers each rank by one at most, and a page takes
  exactly the rows whose ranks are on it (`PageRanks`). When the walk ends, whatever is
  left lies beyond the total counted last, and the list exceeds that by the late
  insertions at most.
- `RecordsTypeCorrect`, `RecordsAreSafe`: by `RecordsCompose` a behaviour of `MCRecords` is one
  of each of its four modules, so all that is proved of them holds of it.

**AlgorithmsProofs**. The strategies:

- `SignalsTypeCorrect`, `StrategiesDoNotMix`, `EntriesStand`: `SignalsInv` says that the columns are
  what the strategy that ran leaves on the frame, whatever was in them. For each of the ten
  strategies a lemma shows that its conditions exclude each other row by row
  (`AroonStands`, ...). It takes the facts about windows that make them do so: a close above
  the highest of a longer window is above that of a shorter one, a lower band lies not above an
  upper one, the bottom of the cloud not above its top, wherever neither is NaN.
- `SeedsAreRealtime`: a frame that is cut off has columns that are the whole frame's, cut off
  (`CutColumn`, `CutWindow`), and every operator the strategies are built of keeps that, so
  every strategy does (`AroonCut`, ..., `PopulatedCut`). A fill from below or a shift from the
  next row would not.

The figures. TLA+'s folds are recursive functions on sets of positions; `FoldExists` builds
one up position by position, by an induction whose hypothesis is a set (`AllNumbers`)
instead of a formula, and a lemma for each loop (`PairUpRun`, `BookRun`, `WalkRun`, ...)
says that the fold holds at each position what the loop would.

- `FiguresTypeCorrect`; `TradesArePaired`: after n signals the loop has as many trades as there
  are pairs of a first buy and the next sell up to n, in their places, and its pending
  price is that of the buy that opens the next (`PairedUpTo`, `PairUpStep`).
- `FiguresDoAgree`: `FallCovers` keeps the deepest fall below 1 and no less than what was lost,
  since the peak is at least 1. That a positive total return means gains above losses is the
  inequality of the means: `MeanBounds` says that the product of the factors so far is at
  most the power of their mean. A further trade keeps it (`MeansStep`) because a power lies
  above its tangents (`Tangent`); everything is multiplied out to whole numbers.
- `LiveDrawdownTells`: `WalkedUpTo` relates sum, peak and fall after n signals to how many of
  them sell and buy.
- `AlgorithmsTypeCorrect`, `AlgorithmsAreSafe`: the same of `MCAlgorithms`, by `AlgorithmsCompose`.

**Only model-checked:** the liveness properties `RunningEnds`, `RequestsAnswered`, `Quiesces`,
`LockFreed`, `RefreshEnds`, `WritersEnd` and `UpdatesEnd`: fairness and ENABLED are out of the
prover's reach.

## 6. What is not modelled

- *Backtests:* a commit whose outcome is lost with the connection; an exception other
  than a database error between `session.add(result)` and the commit, after which the
  handler's commit would store the result with FAILED; output without trades, which is
  DONE with zero figures; the directory `/tmp/freqtrade_jobs/<id>`, which two deliveries
  of a task would share; rows edited by hand in the admin site; `get_task`, `list_tasks`.
- *Signals:* deletion of a strategy under a refresh (its upserts would fail one by one, as
  `UpsertFails`); more than one timeframe (a pair stands for pair and timeframe); garbage in
  the cache (the code starts a new list); redelivery by visibility timeout, which is one
  more `Trigger`; the readers' choice between cache and table; `generate_signals_task` up to
  its metrics, which is not scheduled and fails at its lookup; signals stored by a backtest.
- *Trials:* how the client's address is found in the request headers; `get_trial` and
  `is_trial_active`, which only read; an eviction of keys by Redis.
- *Pair metrics:* `validate_metrics`' ranges (valid or not); rows created by hand.
- *Accounts:* hashing, address syntax, the X-API-Key, which has no account behind it; a
  change of JWT secret.
- *Reports:* `create_report`, one transaction nobody sees before its commit; a list emptied
  by an update.
- *Lists:* single-row reads, `get_latest_per_pair` (one statement), filters.
- *Strategies:* TA-Lib's arithmetic; stop loss, take profit, the confidence's candle part,
  tags and snapshots, on which no direction depends; `custom_stoploss`, switched off, and
  `custom_exit`; the candle fetch.
- *Seeds and migrations:* the INSERTs, which run once and alone.
- *Application shell:* wiring, settings, logging, envelopes: no state of its own.
