--------------------------- MODULE TaskLifecycle ---------------------------
(***************************************************************************)
(* What the backtest_tasks table promises to its readers (the enum         *)
(* TaskStatus and the BacktestTask model): the status of a task only moves *)
(* forward, PENDING -> RUNNING -> DONE | FAILED, and a finished task stays *)
(* as it is until its strategy is deleted, which removes the task for      *)
(* good.  The detailed specification BacktestTasks is shown to implement   *)
(* this one.                                                               *)
(***************************************************************************)
CONSTANT Tasks      \* the tasks, one for every strategy and day

VARIABLE status     \* status[t]: what a reader of the table sees of task t

Statuses == {"none", "pending", "running", "done", "failed", "removed"}

TypeOK == status \in [Tasks -> Statuses]

Init == status = [t \in Tasks |-> "none"]

Move(t, from, to) == status[t] = from /\ status' = [status EXCEPT ![t] = to]

\* The administrator queues a task; a worker creates one as it starts it; a
\* strategy missing from the registry is recorded as failed at once.
Create(t) == \E to \in {"pending", "running", "failed"} : Move(t, "none", to)

Start(t) == Move(t, "pending", "running")

Finish(t) == \E to \in {"done", "failed"} : Move(t, "running", to)

\* ON DELETE CASCADE takes away all the tasks of a strategy at once.
Remove(T) == status' = [t \in Tasks |-> IF t \in T THEN "removed" ELSE status[t]]

Next == \/ \E t \in Tasks : Create(t) \/ Start(t) \/ Finish(t)
        \/ \E T \in SUBSET Tasks : Remove(T)

Spec == Init /\ [][Next]_status
=============================================================================
