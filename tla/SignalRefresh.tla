--------------------------- MODULE SignalRefresh ---------------------------
(***************************************************************************)
(* The hourly refresh of the trading signals, generate_all_signals_task:   *)
(* the Redis lock that keeps refreshes apart, the download of the candles  *)
(* (DataDownloader), the computation of one signal for every strategy and  *)
(* pair inside one transaction (SignalCalculator), the Redis cache the     *)
(* readers look at first, and the counter of consecutive failures.         *)
(*                                                                         *)
(* A signal is known by the candle it was computed from: a number, 0 for   *)
(* none.  The configuration has one timeframe.                             *)
(***************************************************************************)
EXTENDS Naturals, FiniteSets

CONSTANTS
    Strategies,     \* ids of the strategies
    Pairs,          \* trading pairs
    Workers,        \* worker processes of queue "signal"
    None,           \* no worker, no combination
    MaxCandle,      \* bound: candles 1..MaxCandle
    MaxTriggers,    \* bound: messages sent by Beat and the administrators
    MaxOverruns,    \* bound: refreshes that outlive the lock's 600 seconds
    MaxFaults,      \* bound: database and Redis errors
    MaxCrashes      \* bound: crashes of a worker

Combos == Strategies \X Pairs

ASSUME ConstantsAssumption ==
    /\ None \notin Workers \cup Combos
    /\ IsFiniteSet(Workers)
    /\ MaxCandle \in Nat \ {0}
    /\ MaxTriggers \in Nat
    /\ MaxOverruns \in Nat
    /\ MaxFaults \in Nat
    /\ MaxCrashes \in Nat

VARIABLES
    queue,      \* copies of the message in the broker
    lock,       \* who set lock:signal_refresh (the key itself holds "1")
    candle,     \* the newest candle the exchange serves
    file,       \* file[p]: last candle in the local file of p, 0: no file
    rows,       \* rows[c]: committed realtime signal of combination c
    held,       \* held[c]: the open transaction that has written row c
    cache,      \* cache[s][p]: signal of p in the Redis list of s
    worker,     \* worker[w]: where process w is in the task
    counter,    \* signal:consecutive_failures
    streak,     \* refreshes that failed since the last one that did not (history)
    triggers,   \* messages sent so far
    overruns,   \* refreshes that lost their lock to its expiry so far
    faults,     \* faults so far
    crashes     \* crashes so far

database == <<rows, held>>
budgets == <<triggers, overruns, faults, crashes>>
vars == <<queue, lock, candle, file, database, cache, worker, counter, streak, budgets>>

----------------------------------------------------------------------------
(* Types *)

Versions == 0..MaxCandle

WorkerState == [pc : {"idle", "plan", "download", "compute", "upsert", "get", "set",
                      "done", "failed", "release"},
                todo : SUBSET Combos,           \* combinations not yet looked at
                combo : Combos \cup {None},     \* the one being worked on
                stale : SUBSET Pairs,           \* pairs to download
                loaded : [Pairs -> Versions],   \* _df_cache, 0: not loaded
                seen : [Pairs -> Versions]]     \* the Redis list as it was read

Nothing == [p \in Pairs |-> 0]

Idle == [pc |-> "idle", todo |-> {}, combo |-> None, stale |-> {},
         loaded |-> Nothing, seen |-> Nothing]

TypeOK ==
    /\ queue \in Nat
    /\ lock \in Workers \cup {None}
    /\ candle \in 1..MaxCandle
    /\ file \in [Pairs -> Versions]
    /\ rows \in [Combos -> Versions]
    /\ held \in [Combos -> Workers \cup {None}]
    /\ cache \in [Strategies -> [Pairs -> Versions]]
    /\ worker \in [Workers -> WorkerState]
    /\ counter \in Nat /\ streak \in Nat
    /\ triggers \in 0..MaxTriggers
    /\ overruns \in 0..MaxOverruns
    /\ faults \in 0..MaxFaults
    /\ crashes \in 0..MaxCrashes

Init ==
    /\ queue = 0
    /\ lock = None
    /\ candle = 1
    /\ file \in [Pairs -> 0..1]
    /\ rows = [c \in Combos |-> 0]
    /\ held = [c \in Combos |-> None]
    /\ cache = [s \in Strategies |-> Nothing]
    /\ worker = [w \in Workers |-> Idle]
    /\ counter = 0 /\ streak = 0
    /\ triggers = 0 /\ overruns = 0 /\ faults = 0 /\ crashes = 0

----------------------------------------------------------------------------
(* Helpers.  An operator marked "slip" is no part of the model: it is a      *)
(* plausible mistake in the definition that follows it, and putting it in   *)
(* that definition's place must break a property.                           *)

Running == {w \in Workers : worker[w].pc # "idle"}

TakeUnchecked == queue' = queue - 1     \* slip
Take == queue > 0 /\ queue' = queue - 1

Goto(w, pc) == worker' = [worker EXCEPT ![w].pc = pc]

\* The calculator is gone, and what it had in memory with it.
Leave(w, pc) == worker' = [worker EXCEPT ![w] = [Idle EXCEPT !.pc = pc]]

\* The combination is dealt with, one way or another.
NextCombo(w) ==
    worker' = [worker EXCEPT ![w].pc = "compute", ![w].combo = None, ![w].seen = Nothing]

\* The task has returned or raised: its message is acknowledged.
Ack(w) == Leave(w, "idle")

Fault == faults < MaxFaults /\ faults' = faults + 1

\* COMMIT and ROLLBACK release the rows a transaction has written.
ReleaseRows(w) == held' = [c \in Combos |-> IF held[c] = w THEN None ELSE held[c]]

\* The candles of p this refresh computes with: those it loaded before, or else
\* the file as it is now.
Loaded(w, p) == IF worker[w].loaded[p] # 0 THEN worker[w].loaded[p] ELSE file[p]

Waiting(w) == worker[w].pc = "upsert" /\ held[worker[w].combo] # None

\* w is on a cycle of transactions each waiting for a row of the next one.
Deadlocked(w) == \E S \in SUBSET Workers :
    /\ w \in S
    /\ \A u \in S : Waiting(u)
    /\ S = {held[worker[u].combo] : u \in S}

----------------------------------------------------------------------------
(* The lock *)

\* SET lock:signal_refresh 1 NX EX 600
AcquireUnchecked(w) ==      \* slip
    /\ worker[w].pc = "idle"
    /\ Take
    /\ lock' = w
    /\ Goto(w, "plan")
    /\ UNCHANGED <<candle, file, database, cache, counter, streak, budgets>>
Acquire(w) ==
    /\ worker[w].pc = "idle"
    /\ Take
    /\ lock = None
    /\ lock' = w
    /\ Goto(w, "plan")
    /\ UNCHANGED <<candle, file, database, cache, counter, streak, budgets>>

\* The key is there already: the message ends without a refresh.
Skip(w) ==
    /\ worker[w].pc = "idle"
    /\ Take
    /\ lock # None
    /\ UNCHANGED <<lock, candle, file, database, cache, worker, counter, streak, budgets>>

\* Redis is not there: the task raises before it begins, and is not counted.
AcquireFails(w) ==
    /\ worker[w].pc = "idle"
    /\ Take
    /\ Fault
    /\ UNCHANGED <<lock, candle, file, database, cache, worker, counter, streak,
                   triggers, overruns, crashes>>

----------------------------------------------------------------------------
(* Phase one: DataDownloader.download_market_data *)

\* Which strategies are active, and their pairs, is edited in the admin site:
\* anything may be read, also nothing (a failed query gives an empty list and
\* the configured pairs).  A file is fresh when its last candle is at most two
\* periods old, which a file one candle behind may or may not be.
Plan(w) ==
    /\ worker[w].pc = "plan"
    /\ \E active \in SUBSET Strategies, pairs \in (SUBSET Pairs) \ {{}} :
        \E fresh \in SUBSET {p \in pairs : file[p] > 0 /\ candle <= file[p] + 1} :
            worker' = [worker EXCEPT
                ![w].todo = active \X pairs,
                ![w].stale = pairs \ fresh,
                ![w].pc = IF pairs = fresh THEN "compute" ELSE "download"]
    /\ UNCHANGED <<queue, lock, candle, file, database, cache, counter, streak, budgets>>

\* freqtrade download-data brings some of the files up to date, whether it
\* succeeds, fails or is killed after 300 seconds.  A failure ends the refresh
\* only if none of the stale pairs has a file to fall back on.
Download(w) ==
    /\ worker[w].pc = "download"
    /\ \E got \in SUBSET worker[w].stale, ok \in BOOLEAN :
        /\ file' = [p \in Pairs |-> IF p \in got THEN candle ELSE file[p]]
        /\ IF ok \/ \E p \in worker[w].stale : file'[p] > 0
           THEN /\ worker' = [worker EXCEPT ![w].pc = "compute", ![w].stale = {}]
                /\ UNCHANGED streak
           ELSE /\ Leave(w, "failed")
                /\ streak' = streak + 1
    /\ UNCHANGED <<queue, lock, candle, database, cache, counter, budgets>>

----------------------------------------------------------------------------
(* Phase two: SignalCalculator.compute_all_signals *)

\* The next combination, in the order of two unordered collections: its candles
\* are loaded, once for all strategies, and the strategy is run on them.
Compute(w) ==
    /\ worker[w].pc = "compute"
    /\ \E c \in worker[w].todo :
        /\ Loaded(w, c[2]) > 0
        /\ worker' = [worker EXCEPT
             ![w].pc = "upsert", ![w].combo = c, ![w].todo = @ \ {c},
             ![w].loaded[c[2]] = Loaded(w, c[2])]
    /\ UNCHANGED <<queue, lock, candle, file, database, cache, counter, streak, budgets>>

\* There is no file, it cannot be read, the strategy has no class or raises: the
\* savepoint is rolled back and the next combination is tried.
RetryCombo(w) ==      \* slip
    /\ worker[w].pc = "compute"
    /\ \E c \in worker[w].todo :
        worker' = [worker EXCEPT ![w].loaded[c[2]] = Loaded(w, c[2])]
    /\ UNCHANGED <<queue, lock, candle, file, database, cache, counter, streak, budgets>>
SkipCombo(w) ==
    /\ worker[w].pc = "compute"
    /\ \E c \in worker[w].todo :
        \E v \in {worker[w].loaded[c[2]], Loaded(w, c[2])} :
            worker' = [worker EXCEPT ![w].todo = @ \ {c}, ![w].loaded[c[2]] = v]
    /\ UNCHANGED <<queue, lock, candle, file, database, cache, counter, streak, budgets>>

\* INSERT ... ON CONFLICT DO UPDATE waits for a row another transaction has
\* written; the savepoint is released and the row stays locked to the end.
Upsert(w) ==
    /\ worker[w].pc = "upsert"
    /\ ~Waiting(w)
    /\ held' = [held EXCEPT ![worker[w].combo] = w]
    /\ Goto(w, "get")
    /\ UNCHANGED <<queue, lock, candle, file, rows, cache, counter, streak, budgets>>

\* PostgreSQL ends a deadlock with an error for one of the waiting statements.
DeadlockVictim(w) ==
    /\ Deadlocked(w)
    /\ NextCombo(w)
    /\ UNCHANGED <<queue, lock, candle, file, database, cache, counter, streak, budgets>>

\* Any other error of the statement: this combination is given up.
UpsertFails(w) ==
    /\ worker[w].pc = "upsert"
    /\ Fault
    /\ NextCombo(w)
    /\ UNCHANGED <<queue, lock, candle, file, database, cache, counter, streak, triggers,
                   overruns, crashes>>

\* _update_redis_cache reads the strategy's list, replaces one entry and writes
\* the list back, before the transaction is committed.
CacheGet(w) ==
    /\ worker[w].pc = "get"
    /\ worker' = [worker EXCEPT ![w].pc = "set", ![w].seen = cache[worker[w].combo[1]]]
    /\ UNCHANGED <<queue, lock, candle, file, database, cache, counter, streak, budgets>>

CacheSet(w) ==
    LET s == worker[w].combo[1]
        p == worker[w].combo[2]
    IN  /\ worker[w].pc = "set"
        /\ cache' = [cache EXCEPT ![s] =
                        [worker[w].seen EXCEPT ![p] = worker[w].loaded[p]]]
        /\ NextCombo(w)
        /\ UNCHANGED <<queue, lock, candle, file, database, counter, streak, budgets>>

\* A Redis error is only logged.
CacheFails(w) ==
    /\ worker[w].pc \in {"get", "set"}
    /\ Fault
    /\ NextCombo(w)
    /\ UNCHANGED <<queue, lock, candle, file, database, cache, counter, streak, triggers,
                   overruns, crashes>>

\* All the signals of the refresh become visible together.
CommitForgotten(w) ==      \* slip
    /\ worker[w].pc = "compute"
    /\ worker[w].todo = {}
    /\ ReleaseRows(w)
    /\ streak' = 0
    /\ Leave(w, "done")
    /\ UNCHANGED <<queue, lock, candle, file, rows, cache, counter, budgets>>
Commit(w) ==
    /\ worker[w].pc = "compute"
    /\ worker[w].todo = {}
    /\ rows' = [c \in Combos |-> IF held[c] = w THEN worker[w].loaded[c[2]] ELSE rows[c]]
    /\ ReleaseRows(w)
    /\ streak' = 0
    /\ Leave(w, "done")
    /\ UNCHANGED <<queue, lock, candle, file, cache, counter, budgets>>

\* The connection is lost or the commit fails: none of the signals is stored.
TransactionFails(w) ==
    /\ worker[w].pc \in {"compute", "upsert"}
    /\ Fault
    /\ ReleaseRows(w)
    /\ streak' = streak + 1
    /\ Leave(w, "failed")
    /\ UNCHANGED <<queue, lock, candle, file, rows, cache, counter, triggers, overruns,
                   crashes>>

----------------------------------------------------------------------------
(* The end of the task *)

CountOnly(w) ==      \* slip
    /\ worker[w].pc = "done"
    /\ Goto(w, "release")
    /\ UNCHANGED <<queue, lock, candle, file, database, cache, counter, streak, budgets>>
CountSuccess(w) ==
    /\ worker[w].pc = "done"
    /\ counter' = 0
    /\ Goto(w, "release")
    /\ UNCHANGED <<queue, lock, candle, file, database, cache, streak, budgets>>

CountFailure(w) ==
    /\ worker[w].pc = "failed"
    /\ counter' = counter + 1
    /\ Goto(w, "release")
    /\ UNCHANGED <<queue, lock, candle, file, database, cache, streak, budgets>>

CountFails(w) ==
    /\ worker[w].pc \in {"done", "failed"}
    /\ Fault
    /\ Goto(w, "release")
    /\ UNCHANGED <<queue, lock, candle, file, database, cache, counter, streak, triggers,
                   overruns, crashes>>

\* DEL lock:signal_refresh, whoever has set it.
Release(w) ==
    /\ worker[w].pc = "release"
    /\ lock' = None
    /\ Ack(w)
    /\ UNCHANGED <<queue, candle, file, database, cache, counter, streak, budgets>>

ReleaseFails(w) ==
    /\ worker[w].pc = "release"
    /\ Fault
    /\ Ack(w)
    /\ UNCHANGED <<queue, lock, candle, file, database, cache, counter, streak, triggers,
                   overruns, crashes>>

\* The worker goes down, and its message comes back; or only the process is
\* killed, and Celery acknowledges the message.  Either way nobody takes the
\* lock away.
Crash(w) ==
    /\ worker[w].pc # "idle"
    /\ crashes < MaxCrashes
    /\ crashes' = crashes + 1
    /\ queue' \in {queue, queue + 1}
    /\ ReleaseRows(w)
    /\ Ack(w)
    /\ UNCHANGED <<lock, candle, file, rows, cache, counter, streak, triggers, overruns,
                   faults>>

----------------------------------------------------------------------------
(* Environment *)

\* Beat, every hour, or POST /admin/signals/refresh.
Trigger ==
    /\ triggers < MaxTriggers
    /\ triggers' = triggers + 1
    /\ queue' = queue + 1
    /\ UNCHANGED <<lock, candle, file, database, cache, worker, counter, streak, overruns,
                   faults, crashes>>

\* The 600 seconds of a lock pass whose owner is gone.
NoExpiry ==      \* slip
    /\ lock # None
    /\ lock \notin Running
    /\ UNCHANGED vars
LockExpires ==
    /\ lock # None
    /\ lock \notin Running
    /\ lock' = None
    /\ UNCHANGED <<queue, candle, file, database, cache, worker, counter, streak, budgets>>

\* They pass while the owner is still at work: a download may take 300 seconds,
\* and the computation has no limit.
Overrun ==
    /\ lock \in Running
    /\ overruns < MaxOverruns
    /\ overruns' = overruns + 1
    /\ lock' = None
    /\ UNCHANGED <<queue, candle, file, database, cache, worker, counter, streak, triggers,
                   faults, crashes>>

NewCandle ==
    /\ candle < MaxCandle
    /\ candle' = candle + 1
    /\ UNCHANGED <<queue, lock, file, database, cache, worker, counter, streak, budgets>>

\* A list lives for 3600 seconds after it was last written.
CacheExpires(s) ==
    /\ cache[s] # Nothing
    /\ cache' = [cache EXCEPT ![s] = Nothing]
    /\ UNCHANGED <<queue, lock, candle, file, database, worker, counter, streak, budgets>>

----------------------------------------------------------------------------
WorkerStep(w) ==
    \/ Acquire(w) \/ Skip(w) \/ Plan(w) \/ Download(w)
    \/ Compute(w) \/ SkipCombo(w) \/ Upsert(w) \/ DeadlockVictim(w)
    \/ CacheGet(w) \/ CacheSet(w) \/ Commit(w)
    \/ CountSuccess(w) \/ CountFailure(w) \/ Release(w)

WorkerFault(w) ==
    \/ AcquireFails(w) \/ UpsertFails(w) \/ CacheFails(w) \/ TransactionFails(w)
    \/ CountFails(w) \/ ReleaseFails(w) \/ Crash(w)

Next ==
    \/ \E w \in Workers : WorkerStep(w) \/ WorkerFault(w)
    \/ Trigger
    \/ LockExpires
    \/ Overrun
    \/ NewCandle
    \/ \E s \in Strategies : CacheExpires(s)

Spec == Init /\ [][Next]_vars

\* A process goes on with its message and takes the next one (the subprocess has
\* a time limit, PostgreSQL resolves deadlocks), and a key that nobody renews
\* expires.  Nobody has to trigger, and no candle has to come.
FairSpec ==
    /\ Spec
    /\ \A w \in Workers : WF_vars(WorkerStep(w))
    /\ WF_vars(LockExpires)

----------------------------------------------------------------------------
(* Properties *)

\* Through crashes, failed releases and a late owner that deletes its
\* successor's lock: every refresh beyond the first one at a time is due to one
\* expiry of the lock under a running owner (lock:signal_refresh, NX EX 600).
RefreshesBounded == Cardinality(Running) <= 1 + overruns

\* A refresh is never started beside another one ("skip the trigger if the last
\* task is not finished, by a lock whose TTL is the task's time limit").
OneRefresh == Cardinality(Running) <= 1

\* While no refresh outlived its lock, the signal of a combination is never
\* replaced by one from an older candle, whatever fails or crashes (upsert_signal
\* overwrites without comparing).
SignalsAdvance ==
    [][overruns' = 0 => \A c \in Combos : rows'[c] >= rows[c]]_vars

\* When nothing failed and no refresh is running, a cached signal is the one in
\* the table, although the cache is written before the commit, read and written
\* in two steps, and expires in between (_update_redis_cache).
CacheMatchesRows ==
    Running = {} /\ faults = 0 /\ crashes = 0 /\ overruns = 0 =>
        \A s \in Strategies, p \in Pairs : cache[s][p] \in {0, rows[<<s, p>>]}

\* When no refresh is running, and none was disturbed, the counter that raises
\* the alarm at 3 is the number of failed refreshes in a row.
FailuresCounted ==
    Running = {} /\ faults = 0 /\ crashes = 0 /\ overruns = 0 => counter = streak

\* The lock is free again some day, after a crash and a failed release too.
LockFreed == lock # None ~> lock = None

\* A refresh ends, also when two of them wait for each other's rows.
RefreshEnds == \A w \in Workers : w \in Running ~> w \notin Running
=============================================================================
