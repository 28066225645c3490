--------------------------- MODULE BacktestTasks ---------------------------
(***************************************************************************)
(* The daily backtests: the backtest_tasks table, the Celery queue         *)
(* "backtest", the worker processes that run run_backtest_task and         *)
(* run_all_backtests_task, Celery Beat, and the administrators' requests   *)
(* to AdminBacktestService.submit_backtest.                                *)
(*                                                                         *)
(* One action is the code between two points at which another process can  *)
(* see or change what it works on: a statement of a READ COMMITTED         *)
(* transaction, a commit, a message sent to the broker.                    *)
(***************************************************************************)
EXTENDS Naturals

CONSTANTS
    Strategies,         \* ids of the rows of table strategies
    Registered,         \* those whose name strategy_registry.lookup knows
    Workers,            \* worker processes of queue "backtest"
    Requests,           \* administrators' submissions, each handled once
    Daily,              \* the message of run_all_backtests_task
    None,               \* no transaction, no message, no strategy
    MaxDay,             \* bound: days 1..MaxDay
    MaxFaults,          \* bound: database or broker errors, killed pool processes
    MaxCrashes,         \* bound: crashes of a whole worker
    MaxRedeliveries     \* bound: visibility timeouts of unacknowledged messages

ASSUME ConstantsAssumption ==
    /\ Registered \subseteq Strategies
    /\ Daily \notin Strategies
    /\ None \notin Strategies \cup Workers \cup Requests \cup {Daily}
    /\ Workers \cap Requests = {}
    /\ MaxDay \in Nat \ {0}
    /\ MaxFaults \in Nat
    /\ MaxCrashes \in Nat
    /\ MaxRedeliveries \in Nat

VARIABLES
    today,          \* the date both the API and the workers read
    lastBeat,       \* the last day on which Beat sent its message
    strategies,     \* the rows of table strategies
    task,           \* task[k]: committed status of the row with key k
    results,        \* results[k]: committed BacktestResult rows of task k
    runs,           \* runs[k]: backtests started for k (history)
    open,           \* open[k]: the transaction with an uncommitted row k
    queue,          \* queue[m]: copies of message m in the broker
    worker,         \* worker[w]: where process w is in its message
    request,        \* request[r]: where request r is in submit_backtest
    faults,         \* faults so far
    crashes,        \* crashes so far
    redeliveries    \* visibility timeouts so far

table == <<strategies, task, results, runs, open>>
budgets == <<faults, crashes, redeliveries>>
vars == <<today, lastBeat, table, queue, worker, request, budgets>>

----------------------------------------------------------------------------
(* Types *)

Days == 1..MaxDay
Messages == Strategies \cup {Daily}

\* UNIQUE (strategy_id, scheduled_date): at most one row for every key.
Keys == Strategies \X Days
TaskStatus == {"none", "pending", "running", "done", "failed"}

WorkerState == [pc : {"idle", "collect", "dispatch", "check", "reject", "find",
                      "insert", "claim", "run"},
                msg : Messages \cup {None},
                day : Days,
                todo : SUBSET Strategies]

RequestState == [pc : {"new", "flush", "send", "commit", "accepted", "rejected"},
                 strategy : Strategies \cup {None},
                 day : Days]

Idle == [pc |-> "idle", msg |-> None, day |-> 1, todo |-> {}]

TypeOK ==
    /\ today \in Days
    /\ lastBeat \in 0..MaxDay
    /\ strategies \subseteq Strategies
    /\ task \in [Keys -> TaskStatus]
    /\ results \in [Keys -> Nat]
    /\ runs \in [Keys -> Nat]
    /\ open \in [Keys -> Workers \cup Requests \cup {None}]
    /\ queue \in [Messages -> Nat]
    /\ worker \in [Workers -> WorkerState]
    /\ request \in [Requests -> RequestState]
    /\ faults \in 0..MaxFaults
    /\ crashes \in 0..MaxCrashes
    /\ redeliveries \in 0..MaxRedeliveries

Init ==
    /\ today = 1
    /\ lastBeat = 0
    /\ strategies = Strategies
    /\ task = [k \in Keys |-> "none"]
    /\ results = [k \in Keys |-> 0]
    /\ runs = [k \in Keys |-> 0]
    /\ open = [k \in Keys |-> None]
    /\ queue = [m \in Messages |-> 0]
    /\ worker = [w \in Workers |-> Idle]
    /\ request = [r \in Requests |-> [pc |-> "new", strategy |-> None, day |-> 1]]
    /\ faults = 0
    /\ crashes = 0
    /\ redeliveries = 0

----------------------------------------------------------------------------
(* Helpers.  An operator marked "slip" is no part of the model: it is a      *)
(* plausible mistake in the definition that follows it, and putting it in   *)
(* that definition's place must break a property.                           *)

\* The row a worker, or a request, works on: its strategy and the date it
\* read when it began, not the date at which it writes.
Key(w) == <<worker[w].msg, worker[w].day>>
RequestKey(r) == <<request[r].strategy, request[r].day>>

\* INSERT waits while another transaction holds an uncommitted row with the
\* same key, and fails on a committed one or on a deleted strategy.
InsertWaits(k) == open[k] # None
NoUniqueConstraint(k) == k[1] \notin strategies     \* slip
InsertFails(k) == task[k] # "none" \/ k[1] \notin strategies

Send(m) == queue' = [queue EXCEPT ![m] = @ + 1]
TakeUnchecked(m) == queue' = [queue EXCEPT ![m] = @ - 1]     \* slip
Take(m) == queue[m] > 0 /\ queue' = [queue EXCEPT ![m] = @ - 1]
Goto(w, pc) == worker' = [worker EXCEPT ![w].pc = pc]
RequestGoto(r, pc) == request' = [request EXCEPT ![r].pc = pc]

\* The task function has returned or raised; acks_late acknowledges its
\* message in both cases (task_acks_on_failure_or_timeout is left on).
Ack(w) == worker' = [worker EXCEPT ![w] = Idle]

LeaveOpen(t) == UNCHANGED open     \* slip
Rollback(t) == open' = [k \in Keys |-> IF open[k] = t THEN None ELSE open[k]]

----------------------------------------------------------------------------
(* run_all_backtests_task *)

\* The broker hands a message to an idle worker (prefetch multiplier 1).
Receive(w) ==
    /\ worker[w].pc = "idle"
    /\ \E m \in Messages :
        /\ Take(m)
        /\ worker' = [worker EXCEPT ![w] =
                        [pc |-> IF m = Daily THEN "collect" ELSE "check",
                         msg |-> m, day |-> today, todo |-> {}]]
    /\ UNCHANGED <<today, lastBeat, table, request, budgets>>

\* is_active is edited in the admin site at any time: any subset may be read.
CollectActive(w) ==
    /\ worker[w].pc = "collect"
    /\ \E active \in SUBSET strategies :
        worker' = [worker EXCEPT ![w].pc = "dispatch", ![w].todo = active]
    /\ UNCHANGED <<today, lastBeat, table, queue, request, budgets>>

Dispatch(w) ==
    /\ worker[w].pc = "dispatch"
    /\ \E s \in worker[w].todo :
        /\ Send(s)
        /\ worker' = [worker EXCEPT ![w].todo = @ \ {s}]
    /\ UNCHANGED <<today, lastBeat, table, request, budgets>>

DispatchDone(w) ==
    /\ worker[w].pc = "dispatch"
    /\ worker[w].todo = {}
    /\ Ack(w)
    /\ UNCHANGED <<today, lastBeat, table, queue, request, budgets>>

----------------------------------------------------------------------------
(* run_backtest_task *)

\* Idempotency check: a task of today that is running or done, or a strategy
\* that is gone, ends the message.
RetryWhenSkipped(w) ==      \* slip
    /\ worker[w].pc = "check"
    /\ task[Key(w)] \in {"running", "done"} \/ worker[w].msg \notin strategies
    /\ Send(worker[w].msg)
    /\ Ack(w)
    /\ UNCHANGED <<today, lastBeat, table, request, budgets>>
SkipMessage(w) ==
    /\ worker[w].pc = "check"
    /\ \/ task[Key(w)] \in {"running", "done"}
       \/ worker[w].msg \notin strategies
    /\ Ack(w)
    /\ UNCHANGED <<today, lastBeat, table, queue, request, budgets>>

CheckRegistry(w) ==
    /\ worker[w].pc = "check"
    /\ task[Key(w)] \notin {"running", "done"}
    /\ worker[w].msg \in strategies
    /\ Goto(w, IF worker[w].msg \in Registered THEN "find" ELSE "reject")
    /\ UNCHANGED <<today, lastBeat, table, queue, request, budgets>>

\* A strategy without a registry entry: a FAILED row is inserted and committed.
\* When the day has a row already the IntegrityError ends the message.
RecordUnregistered(w) ==
    /\ worker[w].pc = "reject"
    /\ ~InsertWaits(Key(w))
    /\ task' = IF InsertFails(Key(w)) THEN task
               ELSE [task EXCEPT ![Key(w)] = "failed"]
    /\ Ack(w)
    /\ UNCHANGED <<today, lastBeat, strategies, results, runs, open, queue,
                   request, budgets>>

\* The row the API prepared, or else one of the worker's own.
FindAnyRow(w) ==      \* slip
    /\ worker[w].pc = "find"
    /\ Goto(w, IF task[Key(w)] # "none" THEN "claim" ELSE "insert")
    /\ UNCHANGED <<today, lastBeat, table, queue, request, budgets>>
FindPending(w) ==
    /\ worker[w].pc = "find"
    /\ Goto(w, IF task[Key(w)] = "pending" THEN "claim" ELSE "insert")
    /\ UNCHANGED <<today, lastBeat, table, queue, request, budgets>>

\* add and flush stand outside the try block: an IntegrityError ends the message.
InsertPending(w) ==
    /\ worker[w].pc = "insert"
    /\ ~InsertWaits(Key(w))
    /\ \/ /\ InsertFails(Key(w))
          /\ Ack(w)
          /\ UNCHANGED open
       \/ /\ ~InsertFails(Key(w))
          /\ open' = [open EXCEPT ![Key(w)] = w]
          /\ Goto(w, "claim")
    /\ UNCHANGED <<today, lastBeat, strategies, task, results, runs, queue,
                   request, budgets>>

\* status = RUNNING is committed whatever the row holds by now; the worker's
\* own row becomes visible with it.
StartRun(w) ==
    /\ worker[w].pc = "claim"
    /\ worker[w].msg \in strategies
    /\ task' = [task EXCEPT ![Key(w)] = "running"]
    /\ runs' = [runs EXCEPT ![Key(w)] = @ + 1]
    /\ Rollback(w)
    /\ Goto(w, "run")
    /\ UNCHANGED <<today, lastBeat, strategies, results, queue, request, budgets>>

\* The result, the strategy's figures, the signals, the pair metrics and
\* status = DONE are one commit; "results" stands for all of them.
DoneWithoutResult(w) ==      \* slip
    /\ worker[w].pc = "run"
    /\ worker[w].msg \in strategies
    /\ task' = [task EXCEPT ![Key(w)] = "done"]
    /\ Ack(w)
    /\ UNCHANGED <<today, lastBeat, strategies, results, runs, open, queue, request,
                   budgets>>
FinishDone(w) ==
    /\ worker[w].pc = "run"
    /\ worker[w].msg \in strategies
    /\ task' = [task EXCEPT ![Key(w)] = "done"]
    /\ results' = [results EXCEPT ![Key(w)] = @ + 1]
    /\ Ack(w)
    /\ UNCHANGED <<today, lastBeat, strategies, runs, open, queue, request, budgets>>

\* freqtrade, the file system or the parsing of the output failed.
FailedKeepsResult(w) ==      \* slip
    /\ worker[w].pc = "run"
    /\ worker[w].msg \in strategies
    /\ task' = [task EXCEPT ![Key(w)] = "failed"]
    /\ results' = [results EXCEPT ![Key(w)] = @ + 1]
    /\ Ack(w)
    /\ UNCHANGED <<today, lastBeat, strategies, runs, open, queue, request, budgets>>
FailureUnrecorded(w) ==      \* slip
    /\ worker[w].pc = "run"
    /\ worker[w].msg \in strategies
    /\ Ack(w)
    /\ UNCHANGED <<today, lastBeat, table, queue, request, budgets>>
FinishFailed(w) ==
    /\ worker[w].pc = "run"
    /\ worker[w].msg \in strategies
    /\ task' = [task EXCEPT ![Key(w)] = "failed"]
    /\ Ack(w)
    /\ UNCHANGED <<today, lastBeat, strategies, results, runs, open, queue, request,
                   budgets>>

\* The strategy was deleted under the worker: its UPDATE matches no row.
RowGone(w) ==
    /\ worker[w].pc \in {"claim", "run"}
    /\ worker[w].msg \notin strategies
    /\ Ack(w)
    /\ UNCHANGED <<today, lastBeat, table, queue, request, budgets>>

\* A database error rolls the transaction back and cannot be recorded in the
\* same session; a killed pool process never returns.  Celery acknowledges
\* both (task_reject_on_worker_lost is left off): the message is lost.
Abort(w) ==
    /\ worker[w].pc # "idle"
    /\ faults < MaxFaults
    /\ faults' = faults + 1
    /\ Rollback(w)
    /\ Ack(w)
    /\ UNCHANGED <<today, lastBeat, strategies, task, results, runs, queue, request,
                   crashes, redeliveries>>

\* The whole worker goes down: its unacknowledged message is delivered again.
Crash(w) ==
    /\ worker[w].pc # "idle"
    /\ crashes < MaxCrashes
    /\ crashes' = crashes + 1
    /\ Rollback(w)
    /\ Send(worker[w].msg)
    /\ Ack(w)
    /\ UNCHANGED <<today, lastBeat, strategies, task, results, runs, request,
                   faults, redeliveries>>

\* The broker's visibility timeout passes during a long task: the message is
\* delivered a second time while the first delivery is still worked on.
Redeliver(w) ==
    /\ worker[w].pc # "idle"
    /\ redeliveries < MaxRedeliveries
    /\ redeliveries' = redeliveries + 1
    /\ Send(worker[w].msg)
    /\ UNCHANGED <<today, lastBeat, table, worker, request, faults, crashes>>

----------------------------------------------------------------------------
(* AdminBacktestService.submit_backtest *)

\* The strategy has to exist and to be registered; the row is dated today.
SubmitBegin(r) ==
    /\ request[r].pc = "new"
    /\ \E s \in Strategies :
        request' = [request EXCEPT ![r] =
            [pc |-> IF s \in strategies \cap Registered THEN "flush" ELSE "rejected",
             strategy |-> s, day |-> today]]
    /\ UNCHANGED <<today, lastBeat, table, queue, worker, budgets>>

SubmitFlush(r) ==
    /\ request[r].pc = "flush"
    /\ ~InsertWaits(RequestKey(r))
    /\ \/ /\ InsertFails(RequestKey(r))
          /\ RequestGoto(r, "rejected")
          /\ UNCHANGED open
       \/ /\ ~InsertFails(RequestKey(r))
          /\ open' = [open EXCEPT ![RequestKey(r)] = r]
          /\ RequestGoto(r, "send")
    /\ UNCHANGED <<today, lastBeat, strategies, task, results, runs, queue, worker,
                   budgets>>

\* The message leaves before the row it is about is committed.
SubmitSend(r) ==
    /\ request[r].pc = "send"
    /\ Send(request[r].strategy)
    /\ RequestGoto(r, "commit")
    /\ UNCHANGED <<today, lastBeat, table, worker, budgets>>

SubmitCommit(r) ==
    /\ request[r].pc = "commit"
    /\ task' = [task EXCEPT ![RequestKey(r)] = "pending"]
    /\ Rollback(r)
    /\ RequestGoto(r, "accepted")
    /\ UNCHANGED <<today, lastBeat, strategies, results, runs, queue, worker, budgets>>

\* The broker or the database fails under the request: the session is closed
\* and its row with it; a message that has left is not taken back.
SubmitAbort(r) ==
    /\ request[r].pc \in {"flush", "send", "commit"}
    /\ faults < MaxFaults
    /\ faults' = faults + 1
    /\ Rollback(r)
    /\ RequestGoto(r, "rejected")
    /\ UNCHANGED <<today, lastBeat, strategies, task, results, runs, queue, worker,
                   crashes, redeliveries>>

----------------------------------------------------------------------------
(* Environment *)

\* Beat fires once a day, at 02:00.
BeatTick ==
    /\ lastBeat < today
    /\ lastBeat' = today
    /\ Send(Daily)
    /\ UNCHANGED <<today, table, worker, request, budgets>>

NextDay ==
    /\ today < MaxDay
    /\ today' = today + 1
    /\ UNCHANGED <<lastBeat, table, queue, worker, request, budgets>>

\* Deleting a strategy in the admin site cascades to its tasks and results.  It
\* waits for the transactions that hold a new row referring to the strategy.
DeleteStrategy(s) ==
    /\ s \in strategies
    /\ \A d \in Days : open[<<s, d>>] = None
    /\ strategies' = strategies \ {s}
    /\ task' = [k \in Keys |-> IF k[1] = s THEN "none" ELSE task[k]]
    /\ results' = [k \in Keys |-> IF k[1] = s THEN 0 ELSE results[k]]
    /\ UNCHANGED <<today, lastBeat, runs, open, queue, worker, request, budgets>>

----------------------------------------------------------------------------
WorkerStep(w) ==
    \/ Receive(w) \/ CollectActive(w) \/ Dispatch(w) \/ DispatchDone(w)
    \/ SkipMessage(w) \/ CheckRegistry(w) \/ RecordUnregistered(w)
    \/ FindPending(w) \/ InsertPending(w) \/ StartRun(w)
    \/ FinishDone(w) \/ FinishFailed(w) \/ RowGone(w)

SubmitStep(r) == SubmitFlush(r) \/ SubmitSend(r) \/ SubmitCommit(r)

Next ==
    \/ \E w \in Workers : WorkerStep(w) \/ Abort(w) \/ Crash(w) \/ Redeliver(w)
    \/ \E r \in Requests : SubmitBegin(r) \/ SubmitStep(r) \/ SubmitAbort(r)
    \/ BeatTick
    \/ NextDay
    \/ \E s \in Strategies : DeleteStrategy(s)

Spec == Init /\ [][Next]_vars

\* A running worker goes on with its message and takes the next one, freqtrade
\* terminates (it is run without a timeout), and a request that began is served.
\* Nobody has to submit, to delete or to fail, and Beat may be down.
FairSpec ==
    /\ Spec
    /\ \A w \in Workers : WF_vars(WorkerStep(w))
    /\ \A r \in Requests : WF_vars(SubmitStep(r))

----------------------------------------------------------------------------
(* Properties *)

HeldRow(k) ==
    /\ task[k] = "none" /\ k[1] \in strategies
    /\ \/ \E w \in Workers : open[k] = w /\ worker[w].pc = "claim" /\ Key(w) = k
       \/ \E r \in Requests :
            open[k] = r /\ request[r].pc \in {"send", "commit"} /\ RequestKey(r) = k

\* A transaction holds an uncommitted row only for an existing strategy that
\* has no committed row of that day, and it holds it only while it still works
\* on that row (UNIQUE constraint, session context managers).
OpenRowsAreHeld == \A k \in Keys : open[k] # None => HeldRow(k)

\* With any number of workers: a task that reads DONE has its BacktestResult
\* (and the figures stored with it), because they are one commit.
DoneHasResult == \A k \in Keys : task[k] = "done" => results[k] > 0

\* A backtest is started at most once for a strategy and a day, whatever is
\* redelivered, resubmitted or crashes ("prevents repeated backtests of the
\* same day", BacktestTask).
RunsOncePerDay == \A k \in Keys : runs[k] <= 1

\* A task has a result exactly when it is DONE, and then exactly one.
ResultsMatchStatus ==
    \A k \in Keys : results[k] = IF task[k] = "done" THEN 1 ELSE 0

\* As long as nothing failed, a task that reads RUNNING is being executed.
RunningIsExecuting ==
    faults = 0 /\ crashes = 0 => \A k \in Keys : task[k] = "running" =>
        \E w \in Workers : worker[w].pc = "run" /\ Key(w) = k

\* What a reader of the table sees of a task, removed with its strategy.
Status == [k \in Keys |-> IF k[1] \in strategies THEN task[k] ELSE "removed"]

\* The status of every task only moves forward (enum TaskStatus).
Lifecycle == INSTANCE TaskLifecycle WITH Tasks <- Keys, status <- Status
StatusMovesForward == Lifecycle!Spec

\* A task that reads RUNNING is DONE or FAILED some day ("acks_late: the task
\* is queued again when its worker crashes", README and backtest_tasks.py).
RunningEnds ==
    \A k \in Keys : task[k] = "running" ~> Status[k] \in {"done", "failed", "removed"}

\* A submission that began is answered: no request waits for ever on the row
\* another transaction holds.
RequestsAnswered ==
    \A r \in Requests : request[r].pc = "flush" ~> request[r].pc \in {"accepted", "rejected"}

\* Once nobody submits any more, the queue is empty and the workers are idle for good.
Quiesces == <>[](\A m \in Messages : queue[m] = 0) /\ <>[](\A w \in Workers : worker[w].pc = "idle")

\* A task of today that reads PENDING has a message that will start it: one in
\* the queue, or one a worker has not yet finished with (submit_backtest:
\* "creates the PENDING task, queues it asynchronously, returns its id").
PendingHasMessage ==
    \A k \in Keys : task[k] = "pending" /\ k[2] = today =>
        \/ queue[k[1]] > 0
        \/ \E w \in Workers : worker[w].pc # "idle" /\ Key(w) = k

\* A submission for a registered strategy is refused only if something failed
\* ("a task can always be queued", AdminBacktestService).
AlwaysAccepted ==
    faults = 0 => \A r \in Requests :
        request[r].pc = "rejected" => request[r].strategy \notin strategies \cap Registered
=============================================================================
