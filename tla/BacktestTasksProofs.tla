------------------------ MODULE BacktestTasksProofs ------------------------
(***************************************************************************)
(* Theorems about BacktestTasks, for any strategies, workers, requests,    *)
(* days and budgets of faults, crashes and redeliveries.                   *)
(***************************************************************************)
EXTENDS BacktestTasks, TLAPS

\* Counting one more, at whatever place, keeps a function a function to Nat.
LEMMA Increment ==
    ASSUME NEW S, NEW f \in [S -> Nat], NEW x
    PROVE  [f EXCEPT ![x] = @ + 1] \in [S -> Nat]
<1> DEFINE g == [f EXCEPT ![x] = @ + 1]
<1>1. \A y \in S : g[y] \in Nat
  <2> TAKE y \in S
  <2>1. CASE y = x
    BY <2>1
  <2>2. CASE y # x
    BY <2>2
  <2> QED BY <2>1, <2>2
<1>2. g = [y \in S |-> g[y]]
  OBVIOUS
<1> HIDE DEF g
<1>3. g \in [S -> Nat]
  BY <1>1, <1>2
<1> QED BY <1>3 DEF g

\* The types hold at the start.
LEMMA TypeInit == Init => TypeOK
BY ConstantsAssumption DEF Init, TypeOK, Idle, WorkerState, RequestState, Days,
   Messages, Keys, TaskStatus

\* Every step keeps the types.
LEMMA TypeStep == TypeOK /\ [Next]_vars => TypeOK'
<1> SUFFICES ASSUME TypeOK, [Next]_vars PROVE TypeOK'
  OBVIOUS
<1> USE ConstantsAssumption DEF TypeOK, WorkerState, Messages, TaskStatus, Days
<1>1. ASSUME NEW w \in Workers, Receive(w) PROVE TypeOK'
  <2>1. PICK m \in Messages : Take(m) /\ worker' = [worker EXCEPT ![w] =
          [pc |-> IF m = Daily THEN "collect" ELSE "check",
           msg |-> m, day |-> today, todo |-> {}]]
    BY <1>1 DEF Receive
  <2>2. queue' \in [Messages -> Nat]
    BY <2>1 DEF Take
  <2>3. worker' \in [Workers -> WorkerState]
    BY <2>1
  <2> QED BY <1>1, <2>2, <2>3 DEF Receive, table, budgets
<1>2. ASSUME NEW w \in Workers, CollectActive(w) PROVE TypeOK'
  <2>1. PICK active \in SUBSET strategies :
          worker' = [worker EXCEPT ![w].pc = "dispatch", ![w].todo = active]
    BY <1>2 DEF CollectActive
  <2>2. [worker[w] EXCEPT !.pc = "dispatch", !.todo = active] \in WorkerState
    BY ZenonT(60)
  <2>3. worker' = [worker EXCEPT ![w] = [worker[w] EXCEPT !.pc = "dispatch", !.todo = active]]
    BY <2>1
  <2>4. worker' \in [Workers -> WorkerState]
    BY <2>2, <2>3
  <2> QED BY <1>2, <2>4 DEF CollectActive, table, budgets
<1>3. ASSUME NEW w \in Workers, Dispatch(w) PROVE TypeOK'
  BY <1>3 DEF Dispatch, Send, table, budgets
<1>4. ASSUME NEW w \in Workers, DispatchDone(w) PROVE TypeOK'
  BY <1>4 DEF DispatchDone, Ack, Idle, table, budgets
<1>5. ASSUME NEW w \in Workers, SkipMessage(w) PROVE TypeOK'
  BY <1>5 DEF SkipMessage, Ack, Idle, table, budgets
<1>6. ASSUME NEW w \in Workers, CheckRegistry(w) PROVE TypeOK'
  BY <1>6 DEF CheckRegistry, Goto, table, budgets
<1>7. ASSUME NEW w \in Workers, RecordUnregistered(w) PROVE TypeOK'
  <2>1. worker' \in [Workers -> WorkerState]
    BY <1>7 DEF RecordUnregistered, Ack, Goto, Idle
  <2>2. task' \in [Keys -> TaskStatus]
    BY <1>7 DEF RecordUnregistered
  <2> QED BY <1>7, <2>1, <2>2 DEF RecordUnregistered, budgets
<1>8. ASSUME NEW w \in Workers, FindPending(w) PROVE TypeOK'
  BY <1>8 DEF FindPending, Goto, table, budgets
<1>9. ASSUME NEW w \in Workers, InsertPending(w) PROVE TypeOK'
  BY <1>9 DEF InsertPending, Goto, Ack, Idle, budgets
<1>10. ASSUME NEW w \in Workers, StartRun(w) PROVE TypeOK'
  <2>1. worker' \in [Workers -> WorkerState]
    BY <1>10 DEF StartRun, Ack, Goto, Idle
  <2>2. /\ task' \in [Keys -> TaskStatus]
        /\ runs' \in [Keys -> Nat]
        /\ open' \in [Keys -> Workers \cup Requests \cup {None}]
    BY <1>10, Increment DEF StartRun, Rollback
  <2> QED BY <1>10, <2>1, <2>2 DEF StartRun, budgets
<1>11. ASSUME NEW w \in Workers, FinishDone(w) PROVE TypeOK'
  <2>1. worker' \in [Workers -> WorkerState]
    BY <1>11 DEF FinishDone, Ack, Goto, Idle
  <2>2. task' \in [Keys -> TaskStatus] /\ results' \in [Keys -> Nat]
    BY <1>11, Increment DEF FinishDone
  <2> QED BY <1>11, <2>1, <2>2 DEF FinishDone, budgets
<1>12. ASSUME NEW w \in Workers, FinishFailed(w) PROVE TypeOK'
  <2>1. worker' \in [Workers -> WorkerState]
    BY <1>12 DEF FinishFailed, Ack, Goto, Idle
  <2>2. task' \in [Keys -> TaskStatus]
    BY <1>12 DEF FinishFailed
  <2> QED BY <1>12, <2>1, <2>2 DEF FinishFailed, budgets
<1>13. ASSUME NEW w \in Workers, RowGone(w) PROVE TypeOK'
  BY <1>13 DEF RowGone, Ack, Idle, table, budgets
<1>14. ASSUME NEW w \in Workers, Abort(w) PROVE TypeOK'
  BY <1>14 DEF Abort, Ack, Idle, Rollback
<1>15. ASSUME NEW w \in Workers, Crash(w) PROVE TypeOK'
  BY <1>15, Increment DEF Crash, Ack, Idle, Rollback, Send
<1>16. ASSUME NEW w \in Workers, Redeliver(w) PROVE TypeOK'
  BY <1>16, Increment DEF Redeliver, Send, table
<1>17. ASSUME NEW r \in Requests, SubmitBegin(r) PROVE TypeOK'
  BY <1>17 DEF SubmitBegin, RequestState, table, budgets
<1>18. ASSUME NEW r \in Requests, SubmitFlush(r) PROVE TypeOK'
  BY <1>18, SMTT(30) DEF SubmitFlush, RequestGoto, RequestState, budgets
<1>19. ASSUME NEW r \in Requests, SubmitSend(r) PROVE TypeOK'
  BY <1>19, Increment DEF SubmitSend, Send, RequestGoto, RequestState, table, budgets
<1>20. ASSUME NEW r \in Requests, SubmitCommit(r) PROVE TypeOK'
  BY <1>20, ZenonT(60) DEF SubmitCommit, Rollback, RequestGoto, RequestState, budgets
<1>21. ASSUME NEW r \in Requests, SubmitAbort(r) PROVE TypeOK'
  BY <1>21 DEF SubmitAbort, Rollback, RequestGoto, RequestState
<1>22. CASE BeatTick
  BY <1>22 DEF BeatTick, Send, table, budgets
<1>23. CASE NextDay
  BY <1>23 DEF NextDay, table, budgets
<1>24. ASSUME NEW s \in Strategies, DeleteStrategy(s) PROVE TypeOK'
  BY <1>24 DEF DeleteStrategy, budgets
<1>25. CASE UNCHANGED vars
  BY <1>25 DEF vars, table, budgets
<1> QED
  BY <1>1, <1>2, <1>3, <1>4, <1>5, <1>6, <1>7, <1>8, <1>9, <1>10, <1>11, <1>12,
     <1>13, <1>14, <1>15, <1>16, <1>17, <1>18, <1>19, <1>20, <1>21, <1>22, <1>23,
     <1>24, <1>25 DEF Next, WorkerStep, SubmitStep

\* Type correctness: no step takes a variable out of its type, a count of
\* messages below zero or a budget over its bound.
THEOREM TypeCorrect == Spec => []TypeOK
<1> QED BY TypeInit, TypeStep, PTL DEF Spec

----------------------------------------------------------------------------
(* Any number of workers: open rows, and results *)

\* A worker past the first check, and a request past its own, works on a row
\* of the table; a request keeps its row open until it commits.
KeysAreRows ==
    /\ \A w \in Workers :
        worker[w].pc \in {"check", "reject", "find", "insert", "claim", "run"}
            => worker[w].msg \in Strategies
    /\ \A r \in Requests :
        request[r].pc \in {"flush", "send", "commit"} => request[r].strategy \in Strategies
    /\ \A r \in Requests :
        request[r].pc \in {"send", "commit"} => open[RequestKey(r)] = r

\* The row a worker starts or runs exists, committed or in the worker's own
\* transaction, unless its strategy was deleted, and the row with it.
WorkedRowsExist ==
    /\ \A w \in Workers : worker[w].pc = "claim" /\ worker[w].msg \in strategies
            => task[Key(w)] # "none" \/ open[Key(w)] = w
    /\ \A w \in Workers : worker[w].pc = "run" /\ worker[w].msg \in strategies
            => task[Key(w)] # "none"
    /\ \A k \in Keys : k[1] \notin strategies => task[k] = "none"

RowInv == TypeOK /\ KeysAreRows /\ WorkedRowsExist /\ OpenRowsAreHeld

\* Recording an unregistered strategy writes FAILED to one row that did not exist
\* and that no transaction holds, or to none.
LEMMA RecordUnregisteredWrites ==
    ASSUME TypeOK, NEW w \in Workers, RecordUnregistered(w)
    PROVE  \A k \in Keys : \/ task'[k] = task[k]
                           \/ /\ open[k] = None /\ k[1] \in strategies
                              /\ task[k] = "none" /\ task'[k] = "failed"
<1>1. open[Key(w)] = None
  BY DEF RecordUnregistered, InsertWaits
<1>2. CASE task' = task
  BY <1>2
<1>3. CASE task' # task
  <2>1. /\ task' = [task EXCEPT ![Key(w)] = "failed"]
        /\ task[Key(w)] = "none" /\ Key(w)[1] \in strategies
    BY <1>3 DEF RecordUnregistered, InsertFails
  <2> QED BY <1>1, <2>1 DEF TypeOK
<1> QED BY <1>2, <1>3

\* Recording an unregistered strategy takes no row from under another worker.
LEMMA RecordUnregisteredKeeps ==
    ASSUME TypeOK, WorkedRowsExist, NEW w \in Workers, RecordUnregistered(w),
           KeysAreRows
    PROVE  WorkedRowsExist'
<1>1. /\ UNCHANGED <<open, strategies>>
      /\ \A v \in Workers \ {w} : worker'[v] = worker[v]
      /\ worker'[w].pc = "idle"
  BY DEF RecordUnregistered, Ack, Idle, TypeOK
<1>2. \A k \in Keys : task[k] # "none" => task'[k] # "none"
  BY RecordUnregisteredWrites
<1>3. \A v \in Workers : worker[v].pc \in {"claim", "run"} => Key(v) \in Keys
  BY DEF KeysAreRows, TypeOK, Key, Keys, WorkerState
<1>4. \A k \in Keys : k[1] \notin strategies => task'[k] = task[k]
  BY RecordUnregisteredWrites
<1> QED BY <1>1, <1>2, <1>3, <1>4 DEF WorkedRowsExist, Key

\* Looking for a pending row moves its worker, on to the row it found or on to
\* an insertion, and changes no row.
LEMMA FindPendingMoves ==
    ASSUME TypeOK, NEW w \in Workers, FindPending(w)
    PROVE  /\ UNCHANGED <<strategies, task, results, runs, open>>
           /\ \A v \in Workers : worker'[v].msg = worker[v].msg /\ worker'[v].day = worker[v].day
           /\ \A v \in Workers : v # w => worker'[v].pc = worker[v].pc
           /\ worker[w].pc = "find"
           /\ worker'[w].pc = IF task[Key(w)] = "pending" THEN "claim" ELSE "insert"
BY DEF FindPending, Goto, TypeOK, WorkerState, table

\* The row a worker goes on to claim exists.
LEMMA FindPendingFinds ==
    ASSUME TypeOK, WorkedRowsExist, NEW w \in Workers, FindPending(w)
    PROVE  WorkedRowsExist'
BY FindPendingMoves, ZenonT(60) DEF WorkedRowsExist, Key

\* Every step keeps RowInv: what a worker or a request works on stays a row of
\* the table, and open rows stay with the transaction that works on them.
LEMMA RowStep == RowInv /\ [Next]_vars => RowInv'
<1> SUFFICES ASSUME RowInv, [Next]_vars PROVE RowInv'
  OBVIOUS
<1>1. TypeOK'
  BY TypeStep DEF RowInv
<1>2. KeysAreRows' /\ WorkedRowsExist' /\ OpenRowsAreHeld'
  <2> DEFINE Rows == KeysAreRows /\ WorkedRowsExist /\ OpenRowsAreHeld
  <2> USE ConstantsAssumption DEF RowInv, TypeOK, KeysAreRows, WorkedRowsExist,
      OpenRowsAreHeld, HeldRow, Key, RequestKey, WorkerState, RequestState, Messages, Keys
  <2>1. ASSUME NEW w \in Workers, Receive(w) PROVE Rows'
    BY <2>1 DEF Receive, Take, table, budgets
  <2>2. ASSUME NEW w \in Workers, CollectActive(w) PROVE Rows'
    BY <2>2 DEF CollectActive, table, budgets
  <2>3. ASSUME NEW w \in Workers, Dispatch(w) PROVE Rows'
    BY <2>3 DEF Dispatch, Send, table, budgets
  <2>4. ASSUME NEW w \in Workers, DispatchDone(w) PROVE Rows'
    BY <2>4 DEF DispatchDone, Ack, Idle, table, budgets
  <2>5. ASSUME NEW w \in Workers, SkipMessage(w) PROVE Rows'
    BY <2>5 DEF SkipMessage, Ack, Idle, table, budgets
  <2>6. ASSUME NEW w \in Workers, CheckRegistry(w) PROVE Rows'
    BY <2>6 DEF CheckRegistry, Goto, table, budgets
  <2>7. ASSUME NEW w \in Workers, RecordUnregistered(w) PROVE Rows'
    <3>1. UNCHANGED <<open, strategies, request>> /\ worker' = [worker EXCEPT ![w] = Idle]
      BY <2>7 DEF RecordUnregistered, Ack
    <3>2. \A k \in Keys : \/ task'[k] = task[k]
                          \/ open[k] = None /\ k[1] \in strategies /\ task'[k] = "failed"
      BY <2>7, RecordUnregisteredWrites
    <3>3. KeysAreRows'
      BY <2>7, <3>1 DEF RecordUnregistered, Idle
    <3>4. WorkedRowsExist'
      BY <2>7, RecordUnregisteredKeeps
    <3>5. OpenRowsAreHeld'
      <4>1. worker[w].pc = "reject" /\ \A v \in Workers \ {w} : worker'[v] = worker[v]
        BY <2>7, <3>1 DEF RecordUnregistered
      <4>2. \A k \in Keys : open[k] # None => task'[k] = "none"
        BY <3>2
      <4> QED BY <3>1, <4>1, <4>2
    <3> QED BY <3>3, <3>4, <3>5
  <2>8. ASSUME NEW w \in Workers, FindPending(w) PROVE Rows'
    <3>1. OpenRowsAreHeld'
      BY <2>8 DEF FindPending, Goto, table, budgets
    <3>2. CASE task[Key(w)] = "pending"
      <4>1. worker' = [worker EXCEPT ![w].pc = "claim"]
        BY <2>8, <3>2 DEF FindPending, Goto
      <4>2. UNCHANGED <<task, open, strategies, request>>
        BY <2>8 DEF FindPending, table
      <4>3. KeysAreRows'
        BY <2>8, <4>1, <4>2 DEF FindPending
      <4> QED BY <3>1, <4>3, <2>8, FindPendingFinds
    <3>3. CASE task[Key(w)] # "pending"
      <4>1. worker' = [worker EXCEPT ![w].pc = "insert"]
        BY <2>8, <3>3 DEF FindPending, Goto
      <4> QED BY <2>8, <3>1, <4>1 DEF FindPending, table, budgets
    <3> QED BY <3>2, <3>3
  <2>9. ASSUME NEW w \in Workers, InsertPending(w) PROVE Rows'
    <3>1. CASE InsertFails(Key(w)) /\ Ack(w) /\ UNCHANGED open
      BY <2>9, <3>1 DEF InsertPending, Ack, Idle, budgets
    <3>2. CASE /\ ~InsertFails(Key(w))
               /\ open' = [open EXCEPT ![Key(w)] = w]
               /\ Goto(w, "claim")
      <4>1. /\ Key(w) \in Keys /\ open[Key(w)] = None /\ task[Key(w)] = "none"
            /\ worker[w].msg \in strategies /\ UNCHANGED <<task, strategies, request>>
        BY <2>9, <3>2 DEF InsertPending, InsertWaits, InsertFails, budgets
      <4>2. KeysAreRows'
        BY <4>1, <3>2 DEF Goto
      <4>3. WorkedRowsExist'
        BY <4>1, <3>2 DEF Goto
      <4>4. OpenRowsAreHeld'
        <5>1. SUFFICES ASSUME NEW k \in Keys, open'[k] # None
                       PROVE  HeldRow(k)'
          BY <4>1 DEF OpenRowsAreHeld
        <5>2. CASE k = Key(w)
          BY <3>2, <4>1, <5>2 DEF Goto
        <5>3. CASE k # Key(w)
          <6>1. open[k] # None /\ open'[k] = open[k]
            BY <3>2, <5>1, <5>3
          <6> QED BY <2>9, <3>2, <4>1, <6>1 DEF InsertPending, Goto
        <5> QED BY <5>2, <5>3
      <4> QED BY <4>2, <4>3, <4>4
    <3> QED BY <2>9, <3>1, <3>2 DEF InsertPending
  <2>10. ASSUME NEW w \in Workers, StartRun(w) PROVE Rows'
    BY <2>10 DEF StartRun, Rollback, Goto, budgets
  <2>11. ASSUME NEW w \in Workers, FinishDone(w) PROVE Rows'
    BY <2>11 DEF FinishDone, Ack, Idle, budgets
  <2>12. ASSUME NEW w \in Workers, FinishFailed(w) PROVE Rows'
    BY <2>12 DEF FinishFailed, Ack, Idle, budgets
  <2>13. ASSUME NEW w \in Workers, RowGone(w) PROVE Rows'
    BY <2>13 DEF RowGone, Ack, Idle, table, budgets
  <2>14. ASSUME NEW w \in Workers, Abort(w) PROVE Rows'
    BY <2>14 DEF Abort, Rollback, Ack, Idle
  <2>15. ASSUME NEW w \in Workers, Crash(w) PROVE Rows'
    BY <2>15 DEF Crash, Rollback, Send, Ack, Idle
  <2>16. ASSUME NEW w \in Workers, Redeliver(w) PROVE Rows'
    BY <2>16 DEF Redeliver, Send, table
  <2>17. ASSUME NEW r \in Requests, SubmitBegin(r) PROVE Rows'
    BY <2>17 DEF SubmitBegin, table, budgets
  <2>18. ASSUME NEW r \in Requests, SubmitFlush(r) PROVE Rows'
    <3>1. CASE InsertFails(RequestKey(r)) /\ RequestGoto(r, "rejected") /\ UNCHANGED open
      BY <2>18, <3>1 DEF SubmitFlush, RequestGoto, budgets
    <3>2. CASE /\ ~InsertFails(RequestKey(r))
               /\ open' = [open EXCEPT ![RequestKey(r)] = r]
               /\ RequestGoto(r, "send")
      <4>1. /\ RequestKey(r) \in Keys /\ open[RequestKey(r)] = None
            /\ task[RequestKey(r)] = "none" /\ request[r].strategy \in strategies
            /\ UNCHANGED <<task, strategies, worker>>
        BY <2>18, <3>2 DEF SubmitFlush, InsertWaits, InsertFails, budgets
      <4>2. KeysAreRows'
        BY <4>1, <3>2 DEF RequestGoto
      <4>3. WorkedRowsExist'
        BY <4>1, <3>2 DEF RequestGoto
      <4>4. OpenRowsAreHeld'
        <5>1. SUFFICES ASSUME NEW k \in Keys, open'[k] # None
                       PROVE  HeldRow(k)'
          BY <4>1 DEF OpenRowsAreHeld
        <5>2. CASE k = RequestKey(r)
          BY <3>2, <4>1, <5>2 DEF RequestGoto
        <5>3. CASE k # RequestKey(r)
          <6>1. open[k] # None /\ open'[k] = open[k]
            BY <3>2, <5>1, <5>3
          <6> QED BY <2>18, <3>2, <4>1, <6>1 DEF SubmitFlush, RequestGoto
        <5> QED BY <5>2, <5>3
      <4> QED BY <4>2, <4>3, <4>4
    <3> QED BY <2>18, <3>1, <3>2 DEF SubmitFlush
  <2>19. ASSUME NEW r \in Requests, SubmitSend(r) PROVE Rows'
    BY <2>19 DEF SubmitSend, Send, RequestGoto, table, budgets
  <2>20. ASSUME NEW r \in Requests, SubmitCommit(r) PROVE Rows'
    BY <2>20 DEF SubmitCommit, Rollback, RequestGoto, budgets
  <2>21. ASSUME NEW r \in Requests, SubmitAbort(r) PROVE Rows'
    BY <2>21 DEF SubmitAbort, Rollback, RequestGoto
  <2>22. CASE BeatTick
    BY <2>22 DEF BeatTick, Send, table, budgets
  <2>23. CASE NextDay
    BY <2>23 DEF NextDay, table, budgets
  <2>24. ASSUME NEW s \in Strategies, DeleteStrategy(s) PROVE Rows'
    BY <2>24 DEF DeleteStrategy, budgets
  <2>25. CASE UNCHANGED vars
    BY <2>25 DEF vars, table, budgets
  <2> QED
    BY <2>1, <2>2, <2>3, <2>4, <2>5, <2>6, <2>7, <2>8, <2>9, <2>10, <2>11, <2>12,
       <2>13, <2>14, <2>15, <2>16, <2>17, <2>18, <2>19, <2>20, <2>21, <2>22, <2>23,
       <2>24, <2>25 DEF Next, WorkerStep, SubmitStep
<1> QED BY <1>1, <1>2 DEF RowInv

\* RowInv holds in every reachable state, with any number of workers.
THEOREM RowsAreHeld == Spec => []RowInv
<1>1. Init => RowInv
  <2>1. Init => TypeOK
    BY TypeInit
  <2>2. Init => KeysAreRows /\ WorkedRowsExist /\ OpenRowsAreHeld
    BY DEF Init, Idle, KeysAreRows, WorkedRowsExist, OpenRowsAreHeld
  <2> QED BY <2>1, <2>2 DEF RowInv
<1> QED BY <1>1, RowStep, PTL DEF Spec

\* With any number of workers, through any crash, fault or redelivery: an
\* uncommitted row belongs to the one transaction that works on it, and no
\* committed row of its key exists beside it.
THEOREM OpenRowsHeld == Spec => []OpenRowsAreHeld
<1>1. RowInv => OpenRowsAreHeld
  BY DEF RowInv
<1> QED BY <1>1, RowsAreHeld, PTL

\* With any number of workers, through any crash, fault or redelivery: a task
\* that reads DONE has its result.
THEOREM DoneTasksHaveResults == Spec => []DoneHasResult
<1>1. Init => DoneHasResult
  BY DEF Init, DoneHasResult
<1>2. RowInv /\ DoneHasResult /\ [Next]_vars => DoneHasResult'
  <2> SUFFICES ASSUME RowInv, DoneHasResult, [Next]_vars PROVE DoneHasResult'
    OBVIOUS
  <2> USE DEF DoneHasResult, RowInv, TypeOK
  <2>1. ASSUME NEW w \in Workers, Receive(w) PROVE DoneHasResult'
    BY <2>1 DEF Receive, Take, table, budgets
  <2>2. ASSUME NEW w \in Workers, CollectActive(w) PROVE DoneHasResult'
    BY <2>2 DEF CollectActive, table, budgets
  <2>3. ASSUME NEW w \in Workers, Dispatch(w) PROVE DoneHasResult'
    BY <2>3 DEF Dispatch, Send, table, budgets
  <2>4. ASSUME NEW w \in Workers, DispatchDone(w) PROVE DoneHasResult'
    BY <2>4 DEF DispatchDone, Ack, Idle, table, budgets
  <2>5. ASSUME NEW w \in Workers, SkipMessage(w) PROVE DoneHasResult'
    BY <2>5 DEF SkipMessage, Ack, Idle, table, budgets
  <2>6. ASSUME NEW w \in Workers, CheckRegistry(w) PROVE DoneHasResult'
    BY <2>6 DEF CheckRegistry, Goto, table, budgets
  <2>7. ASSUME NEW w \in Workers, RecordUnregistered(w) PROVE DoneHasResult'
    BY <2>7, SMTT(30) DEF RecordUnregistered, Ack, Idle, InsertWaits, InsertFails, budgets
  <2>8. ASSUME NEW w \in Workers, FindPending(w) PROVE DoneHasResult'
    BY <2>8 DEF FindPending, Goto, table, budgets
  <2>9. ASSUME NEW w \in Workers, InsertPending(w) PROVE DoneHasResult'
    BY <2>9 DEF InsertPending, InsertWaits, InsertFails, Goto, Ack, Idle, budgets
  <2>10. ASSUME NEW w \in Workers, StartRun(w) PROVE DoneHasResult'
    BY <2>10 DEF StartRun, Rollback, Goto, budgets
  <2>11. ASSUME NEW w \in Workers, FinishDone(w) PROVE DoneHasResult'
    BY <2>11 DEF FinishDone, Ack, Idle, budgets
  <2>12. ASSUME NEW w \in Workers, FinishFailed(w) PROVE DoneHasResult'
    BY <2>12 DEF FinishFailed, Ack, Idle, budgets
  <2>13. ASSUME NEW w \in Workers, RowGone(w) PROVE DoneHasResult'
    BY <2>13 DEF RowGone, Ack, Idle, table, budgets
  <2>14. ASSUME NEW w \in Workers, Abort(w) PROVE DoneHasResult'
    BY <2>14 DEF Abort, Rollback, Ack, Idle
  <2>15. ASSUME NEW w \in Workers, Crash(w) PROVE DoneHasResult'
    BY <2>15 DEF Crash, Rollback, Send, Ack, Idle
  <2>16. ASSUME NEW w \in Workers, Redeliver(w) PROVE DoneHasResult'
    BY <2>16 DEF Redeliver, Send, table
  <2>17. ASSUME NEW r \in Requests, SubmitBegin(r) PROVE DoneHasResult'
    BY <2>17 DEF SubmitBegin, table, budgets
  <2>18. ASSUME NEW r \in Requests, SubmitFlush(r) PROVE DoneHasResult'
    BY <2>18 DEF SubmitFlush, InsertWaits, InsertFails, RequestGoto, budgets
  <2>19. ASSUME NEW r \in Requests, SubmitSend(r) PROVE DoneHasResult'
    BY <2>19 DEF SubmitSend, Send, RequestGoto, table, budgets
  <2>20. ASSUME NEW r \in Requests, SubmitCommit(r) PROVE DoneHasResult'
    BY <2>20 DEF SubmitCommit, Rollback, RequestGoto, budgets
  <2>21. ASSUME NEW r \in Requests, SubmitAbort(r) PROVE DoneHasResult'
    BY <2>21 DEF SubmitAbort, Rollback, RequestGoto
  <2>22. CASE BeatTick
    BY <2>22 DEF BeatTick, Send, table, budgets
  <2>23. CASE NextDay
    BY <2>23 DEF NextDay, table, budgets
  <2>24. ASSUME NEW s \in Strategies, DeleteStrategy(s) PROVE DoneHasResult'
    BY <2>24 DEF DeleteStrategy, budgets
  <2>25. CASE UNCHANGED vars
    BY <2>25 DEF vars, table, budgets
  <2> QED
    BY <2>1, <2>2, <2>3, <2>4, <2>5, <2>6, <2>7, <2>8, <2>9, <2>10, <2>11, <2>12,
       <2>13, <2>14, <2>15, <2>16, <2>17, <2>18, <2>19, <2>20, <2>21, <2>22, <2>23,
       <2>24, <2>25 DEF Next, WorkerStep, SubmitStep
<1> QED BY <1>1, <1>2, RowsAreHeld, PTL DEF Spec

----------------------------------------------------------------------------
(* One worker process, as deployed (concurrency=1) *)

OneWorker == \A v, w \in Workers : v = w

\* What the single worker knows when it writes: the row it is about to start
\* is still PENDING, or is its own uncommitted one; the row it runs is still
\* RUNNING.  A row that was not started has no run behind it.
WorkerOwnsRow ==
    /\ \A w \in Workers : worker[w].pc = "claim" /\ worker[w].msg \in strategies
            => task[Key(w)] = "pending" \/ open[Key(w)] = w
    /\ \A w \in Workers : worker[w].pc = "run" /\ worker[w].msg \in strategies
            => task[Key(w)] = "running"
    /\ \A k \in Keys : k[1] \in strategies /\ task[k] \in {"none", "pending"}
            => runs[k] = 0

OneWorkerInv == RowInv /\ WorkerOwnsRow /\ RunsOncePerDay /\ ResultsMatchStatus
                       /\ RunningIsExecuting

\* The row a worker found by looking for a pending one is still PENDING.
LEMMA FindPendingFindsPending ==
    ASSUME TypeOK, WorkerOwnsRow, NEW w \in Workers, FindPending(w)
    PROVE  WorkerOwnsRow'
BY FindPendingMoves, ZenonT(60) DEF WorkerOwnsRow, Key

\* Recording an unregistered strategy starts and finishes nothing.
LEMMA RecordUnregisteredOwns ==
    ASSUME OneWorker, OneWorkerInv, NEW w \in Workers, RecordUnregistered(w)
    PROVE  WorkerOwnsRow' /\ RunsOncePerDay' /\ ResultsMatchStatus' /\ RunningIsExecuting'
<1>1. \A k \in Keys : task'[k] = task[k] \/ (task[k] = "none" /\ task'[k] = "failed")
  BY RecordUnregisteredWrites DEF OneWorkerInv, RowInv
<1>2. /\ UNCHANGED <<strategies, results, runs, faults, crashes>>
      /\ worker[w].pc = "reject"
  BY DEF RecordUnregistered, budgets
<1>3. \A v \in Workers : v = w /\ worker'[v].pc = "idle"
  BY DEF RecordUnregistered, Ack, Idle, OneWorker, OneWorkerInv, RowInv, TypeOK
<1>4. WorkerOwnsRow'
  BY <1>1, <1>2, <1>3 DEF WorkerOwnsRow, OneWorkerInv
<1>5. RunsOncePerDay' /\ ResultsMatchStatus'
  BY <1>1, <1>2 DEF RunsOncePerDay, ResultsMatchStatus, OneWorkerInv
<1>6. RunningIsExecuting'
  BY <1>1, <1>2, <1>3 DEF RunningIsExecuting, OneWorkerInv
<1> QED BY <1>4, <1>5, <1>6

\* With one worker process, every step keeps OneWorkerInv: nobody else starts or
\* finishes the row the worker is about to start or is running.
LEMMA OneWorkerStep ==
    ASSUME OneWorker, OneWorkerInv, [Next]_vars
    PROVE  OneWorkerInv'
<1>1. RowInv'
  BY RowStep DEF OneWorkerInv
<1>2. WorkerOwnsRow' /\ RunsOncePerDay' /\ ResultsMatchStatus' /\ RunningIsExecuting'
  <2> DEFINE Goal == WorkerOwnsRow /\ RunsOncePerDay /\ ResultsMatchStatus /\ RunningIsExecuting
  <2> USE ConstantsAssumption DEF OneWorker, OneWorkerInv, WorkerOwnsRow, RunsOncePerDay,
      ResultsMatchStatus, RunningIsExecuting, RowInv, TypeOK, KeysAreRows, WorkedRowsExist,
      OpenRowsAreHeld, HeldRow, Key, RequestKey, WorkerState, RequestState, Keys
  <2>1. ASSUME NEW w \in Workers, Receive(w) PROVE Goal'
    BY <2>1 DEF Receive, Take, table, budgets
  <2>2. ASSUME NEW w \in Workers, CollectActive(w) PROVE Goal'
    BY <2>2 DEF CollectActive, table, budgets
  <2>3. ASSUME NEW w \in Workers, Dispatch(w) PROVE Goal'
    BY <2>3 DEF Dispatch, Send, table, budgets
  <2>4. ASSUME NEW w \in Workers, DispatchDone(w) PROVE Goal'
    BY <2>4 DEF DispatchDone, Ack, Idle, table, budgets
  <2>5. ASSUME NEW w \in Workers, SkipMessage(w) PROVE Goal'
    BY <2>5 DEF SkipMessage, Ack, Idle, table, budgets
  <2>6. ASSUME NEW w \in Workers, CheckRegistry(w) PROVE Goal'
    BY <2>6 DEF CheckRegistry, Goto, table, budgets
  <2>7. ASSUME NEW w \in Workers, RecordUnregistered(w) PROVE Goal'
    BY <2>7, RecordUnregisteredOwns DEF OneWorkerInv
  <2>8. ASSUME NEW w \in Workers, FindPending(w) PROVE Goal'
    <3>1. WorkerOwnsRow'
      BY <2>8, FindPendingFindsPending DEF OneWorkerInv
    <3>2. RunsOncePerDay' /\ ResultsMatchStatus'
      <4>1. UNCHANGED <<task, runs, results>>
        BY <2>8, FindPendingMoves
      <4> QED BY <4>1
    <3>3. RunningIsExecuting'
      BY <2>8, FindPendingMoves DEF FindPending, budgets
    <3> QED BY <3>1, <3>2, <3>3
  <2>9. ASSUME NEW w \in Workers, InsertPending(w) PROVE Goal'
    <3>1. UNCHANGED <<today, strategies, task, results, runs, request, budgets>>
      BY <2>9 DEF InsertPending
    <3>2. CASE InsertFails(Key(w)) /\ Ack(w) /\ UNCHANGED open
      BY <2>9, <3>1, <3>2 DEF InsertPending, Ack, Idle, budgets
    <3>3. CASE /\ ~InsertFails(Key(w))
               /\ open' = [open EXCEPT ![Key(w)] = w]
               /\ Goto(w, "claim")
      BY <2>9, <3>1, <3>3 DEF InsertPending, InsertWaits, InsertFails, Goto, budgets
    <3> QED BY <2>9, <3>2, <3>3 DEF InsertPending
  <2>10. ASSUME NEW w \in Workers, StartRun(w) PROVE Goal'
    BY <2>10 DEF StartRun, Rollback, Goto, budgets
  <2>11. ASSUME NEW w \in Workers, FinishDone(w) PROVE Goal'
    BY <2>11 DEF FinishDone, Ack, Idle, budgets
  <2>12. ASSUME NEW w \in Workers, FinishFailed(w) PROVE Goal'
    BY <2>12 DEF FinishFailed, Ack, Idle, budgets
  <2>13. ASSUME NEW w \in Workers, RowGone(w) PROVE Goal'
    BY <2>13 DEF RowGone, Ack, Idle, table, budgets
  <2>14. ASSUME NEW w \in Workers, Abort(w) PROVE Goal'
    BY <2>14 DEF Abort, Rollback, Ack, Idle
  <2>15. ASSUME NEW w \in Workers, Crash(w) PROVE Goal'
    BY <2>15 DEF Crash, Rollback, Send, Ack, Idle
  <2>16. ASSUME NEW w \in Workers, Redeliver(w) PROVE Goal'
    BY <2>16 DEF Redeliver, Send, table
  <2>17. ASSUME NEW r \in Requests, SubmitBegin(r) PROVE Goal'
    BY <2>17 DEF SubmitBegin, table, budgets
  <2>18. ASSUME NEW r \in Requests, SubmitFlush(r) PROVE Goal'
    BY <2>18 DEF SubmitFlush, InsertWaits, InsertFails, RequestGoto, budgets
  <2>19. ASSUME NEW r \in Requests, SubmitSend(r) PROVE Goal'
    BY <2>19 DEF SubmitSend, Send, RequestGoto, table, budgets
  <2>20. ASSUME NEW r \in Requests, SubmitCommit(r) PROVE Goal'
    BY <2>20 DEF SubmitCommit, Rollback, RequestGoto, budgets
  <2>21. ASSUME NEW r \in Requests, SubmitAbort(r) PROVE Goal'
    BY <2>21 DEF SubmitAbort, Rollback, RequestGoto
  <2>22. CASE BeatTick
    BY <2>22 DEF BeatTick, Send, table, budgets
  <2>23. CASE NextDay
    BY <2>23 DEF NextDay, table, budgets
  <2>24. ASSUME NEW s \in Strategies, DeleteStrategy(s) PROVE Goal'
    BY <2>24 DEF DeleteStrategy, budgets
  <2>25. CASE UNCHANGED vars
    BY <2>25 DEF vars, table, budgets
  <2> QED
    BY <2>1, <2>2, <2>3, <2>4, <2>5, <2>6, <2>7, <2>8, <2>9, <2>10, <2>11, <2>12,
       <2>13, <2>14, <2>15, <2>16, <2>17, <2>18, <2>19, <2>20, <2>21, <2>22, <2>23,
       <2>24, <2>25 DEF Next, WorkerStep, SubmitStep
<1> QED BY <1>1, <1>2 DEF OneWorkerInv

\* OneWorkerInv holds in every reachable state of a system with one worker.
THEOREM OneWorkerInvariant == ASSUME OneWorker PROVE Spec => []OneWorkerInv
<1>1. Init => OneWorkerInv
  <2>1. Init => RowInv
    BY TypeInit DEF Init, Idle, RowInv, KeysAreRows, WorkedRowsExist, OpenRowsAreHeld
  <2>2. Init => WorkerOwnsRow /\ RunsOncePerDay /\ ResultsMatchStatus /\ RunningIsExecuting
    BY DEF Init, Idle, WorkerOwnsRow, RunsOncePerDay, ResultsMatchStatus, RunningIsExecuting
  <2> QED BY <2>1, <2>2 DEF OneWorkerInv
<1>2. OneWorkerInv /\ [Next]_vars => OneWorkerInv'
  BY OneWorkerStep
<1> QED BY <1>1, <1>2, PTL DEF Spec

\* With one worker process, no strategy is backtested twice for one day,
\* whatever crashes, fails, is redelivered or resubmitted.
THEOREM OneRunPerDay == ASSUME OneWorker PROVE Spec => []RunsOncePerDay
<1>1. OneWorkerInv => RunsOncePerDay
  BY DEF OneWorkerInv
<1> QED BY <1>1, OneWorkerInvariant, PTL

\* With one worker process, a task has exactly one result when it reads DONE
\* and none otherwise: a failed or interrupted run leaves nothing behind.
THEOREM ResultExactlyWhenDone == ASSUME OneWorker PROVE Spec => []ResultsMatchStatus
<1>1. OneWorkerInv => ResultsMatchStatus
  BY DEF OneWorkerInv
<1> QED BY <1>1, OneWorkerInvariant, PTL

\* With one worker process, a task that reads RUNNING is being run as long as
\* nothing failed.
THEOREM RunningMeansExecuting == ASSUME OneWorker PROVE Spec => []RunningIsExecuting
<1>1. OneWorkerInv => RunningIsExecuting
  BY DEF OneWorkerInv
<1> QED BY <1>1, OneWorkerInvariant, PTL

----------------------------------------------------------------------------
(* The refinement *)

\* A step that writes one row moves that task's status and no other.
LEMMA WriteMovesOne ==
    ASSUME OneWorkerInv, NEW k \in Keys, NEW to \in TaskStatus, k[1] \in strategies,
           UNCHANGED strategies, task' = [task EXCEPT ![k] = to]
    PROVE  Lifecycle!Move(k, task[k], to)
<1>1. Status[k] = task[k]
  BY DEF Status
<1>2. Status' = [Status EXCEPT ![k] = to]
  <2>1. Status' = [j \in Keys |-> IF j[1] \in strategies THEN task'[j] ELSE "removed"]
    BY DEF Status
  <2>2. \A j \in Keys : task'[j] = IF j = k THEN to ELSE task[j]
    BY DEF OneWorkerInv, RowInv, TypeOK
  <2> QED BY <2>1, <2>2 DEF Status
<1> QED BY <1>1, <1>2 DEF Lifecycle!Move

\* Every step moves the statuses as TaskLifecycle allows, or not at all.
LEMMA LifecycleStep ==
    ASSUME OneWorker, OneWorkerInv, [Next]_vars
    PROVE  [Lifecycle!Next]_Status
<1> DEFINE Goal == [Lifecycle!Next]_Status
<1>a. ASSUME UNCHANGED <<strategies, task>> PROVE Goal
  BY <1>a DEF Status
<1>1. ASSUME NEW w \in Workers, Receive(w) PROVE Goal
  BY <1>a, <1>1 DEF Receive, table
<1>2. ASSUME NEW w \in Workers, CollectActive(w) PROVE Goal
  BY <1>a, <1>2 DEF CollectActive, table
<1>3. ASSUME NEW w \in Workers, Dispatch(w) PROVE Goal
  BY <1>a, <1>3 DEF Dispatch, table
<1>4. ASSUME NEW w \in Workers, DispatchDone(w) PROVE Goal
  BY <1>a, <1>4 DEF DispatchDone, table
<1>5. ASSUME NEW w \in Workers, SkipMessage(w) PROVE Goal
  BY <1>a, <1>5 DEF SkipMessage, table
<1>6. ASSUME NEW w \in Workers, CheckRegistry(w) PROVE Goal
  BY <1>a, <1>6 DEF CheckRegistry, table
<1>7. ASSUME NEW w \in Workers, FindPending(w) PROVE Goal
  BY <1>a, <1>7 DEF FindPending, table
<1>8. ASSUME NEW w \in Workers, InsertPending(w) PROVE Goal
  BY <1>a, <1>8 DEF InsertPending
<1>9. ASSUME NEW w \in Workers, RowGone(w) PROVE Goal
  BY <1>a, <1>9 DEF RowGone, table
<1>10. ASSUME NEW w \in Workers, Abort(w) PROVE Goal
  BY <1>a, <1>10 DEF Abort
<1>11. ASSUME NEW w \in Workers, Crash(w) PROVE Goal
  BY <1>a, <1>11 DEF Crash
<1>12. ASSUME NEW w \in Workers, Redeliver(w) PROVE Goal
  BY <1>a, <1>12 DEF Redeliver, table
<1>13. ASSUME NEW w \in Workers, RecordUnregistered(w) PROVE Goal
  <2>1. Key(w) \in Keys
    BY <1>13 DEF RecordUnregistered, Key, Keys, OneWorkerInv, RowInv, TypeOK,
       KeysAreRows, WorkerState
  <2>2. CASE InsertFails(Key(w))
    BY <1>a, <1>13, <2>2 DEF RecordUnregistered
  <2>3. CASE ~InsertFails(Key(w))
    <3>1. Lifecycle!Move(Key(w), "none", "failed")
      BY <1>13, <2>1, <2>3, WriteMovesOne DEF RecordUnregistered, InsertFails, TaskStatus
    <3> QED BY <2>1, <3>1 DEF Lifecycle!Next, Lifecycle!Create
  <2> QED BY <2>2, <2>3
<1>14. ASSUME NEW w \in Workers, StartRun(w) PROVE Goal
  <2>1. Key(w) \in Keys
    BY <1>14 DEF StartRun, Key, Keys, OneWorkerInv, RowInv, TypeOK, KeysAreRows, WorkerState
  <2>2. Lifecycle!Move(Key(w), task[Key(w)], "running")
    BY <1>14, <2>1, WriteMovesOne DEF StartRun, Key, TaskStatus
  <2>3. task[Key(w)] \in {"none", "pending"}
    <3>1. task[Key(w)] = "pending" \/ open[Key(w)] = w
      BY <1>14 DEF StartRun, OneWorkerInv, WorkerOwnsRow
    <3>2. open[Key(w)] # None => task[Key(w)] = "none"
      BY <2>1 DEF OneWorkerInv, RowInv, OpenRowsAreHeld, HeldRow
    <3> QED BY <3>1, <3>2, ConstantsAssumption
  <2> QED BY <2>1, <2>2, <2>3 DEF Lifecycle!Next, Lifecycle!Create, Lifecycle!Start
<1>15. ASSUME NEW w \in Workers, FinishDone(w) PROVE Goal
  <2>1. Key(w) \in Keys
    BY <1>15 DEF FinishDone, Key, Keys, OneWorkerInv, RowInv, TypeOK, KeysAreRows, WorkerState
  <2>2. task[Key(w)] = "running"
    BY <1>15 DEF FinishDone, OneWorkerInv, WorkerOwnsRow
  <2>3. Lifecycle!Move(Key(w), "running", "done")
    BY <1>15, <2>1, <2>2, WriteMovesOne DEF FinishDone, Key, TaskStatus
  <2> QED BY <2>1, <2>3 DEF Lifecycle!Next, Lifecycle!Finish
<1>16. ASSUME NEW w \in Workers, FinishFailed(w) PROVE Goal
  <2>1. Key(w) \in Keys
    BY <1>16 DEF FinishFailed, Key, Keys, OneWorkerInv, RowInv, TypeOK,
       KeysAreRows, WorkerState
  <2>2. task[Key(w)] = "running"
    BY <1>16 DEF FinishFailed, OneWorkerInv, WorkerOwnsRow
  <2>3. Lifecycle!Move(Key(w), "running", "failed")
    BY <1>16, <2>1, <2>2, WriteMovesOne DEF FinishFailed, Key, TaskStatus
  <2> QED BY <2>1, <2>3 DEF Lifecycle!Next, Lifecycle!Finish
<1>17. ASSUME NEW r \in Requests, SubmitBegin(r) PROVE Goal
  BY <1>a, <1>17 DEF SubmitBegin, table
<1>18. ASSUME NEW r \in Requests, SubmitFlush(r) PROVE Goal
  BY <1>a, <1>18 DEF SubmitFlush
<1>19. ASSUME NEW r \in Requests, SubmitSend(r) PROVE Goal
  BY <1>a, <1>19 DEF SubmitSend, table
<1>20. ASSUME NEW r \in Requests, SubmitAbort(r) PROVE Goal
  BY <1>a, <1>20 DEF SubmitAbort
<1>21. ASSUME NEW r \in Requests, SubmitCommit(r) PROVE Goal
  <2>1. RequestKey(r) \in Keys /\ open[RequestKey(r)] = r
    BY <1>21 DEF SubmitCommit, RequestKey, Keys, OneWorkerInv, RowInv, TypeOK, KeysAreRows,
       RequestState
  <2>2. task[RequestKey(r)] = "none" /\ RequestKey(r)[1] \in strategies
    BY <2>1, ConstantsAssumption DEF OneWorkerInv, RowInv, OpenRowsAreHeld, HeldRow
  <2>3. Lifecycle!Move(RequestKey(r), "none", "pending")
    BY <1>21, <2>1, <2>2, WriteMovesOne DEF SubmitCommit, TaskStatus
  <2> QED BY <2>1, <2>3 DEF Lifecycle!Next, Lifecycle!Create
<1>22. CASE BeatTick
  BY <1>a, <1>22 DEF BeatTick, table
<1>23. CASE NextDay
  BY <1>a, <1>23 DEF NextDay, table
<1>24. ASSUME NEW s \in Strategies, DeleteStrategy(s) PROVE Goal
  <2> DEFINE T == {k \in Keys : k[1] = s}
  <2>1. Status' = [k \in Keys |-> IF k \in T THEN "removed" ELSE Status[k]]
    BY <1>24 DEF DeleteStrategy, Status
  <2>2. Lifecycle!Remove(T)
    BY <2>1 DEF Lifecycle!Remove
  <2> QED BY <2>2 DEF Lifecycle!Next
<1>25. CASE UNCHANGED vars
  BY <1>a, <1>25 DEF vars, table
<1> QED
  BY <1>1, <1>2, <1>3, <1>4, <1>5, <1>6, <1>7, <1>8, <1>9, <1>10, <1>11, <1>12,
     <1>13, <1>14, <1>15, <1>16, <1>17, <1>18, <1>19, <1>20, <1>21, <1>22, <1>23,
     <1>24, <1>25 DEF Next, WorkerStep, SubmitStep

\* With one worker process, the table keeps the promise of TaskStatus: the
\* status of a task only moves forward, PENDING -> RUNNING -> DONE | FAILED.
THEOREM BacktestTasksImplementsLifecycle ==
    ASSUME OneWorker PROVE Spec => StatusMovesForward
<1>1. Init => Lifecycle!Init
  BY DEF Init, Lifecycle!Init, Status, Keys
<1>2. OneWorkerInv /\ [Next]_vars => [Lifecycle!Next]_Status
  BY LifecycleStep
<1> QED BY <1>1, <1>2, OneWorkerInvariant, PTL DEF Spec, StatusMovesForward, Lifecycle!Spec
=============================================================================
