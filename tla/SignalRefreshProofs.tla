------------------------ MODULE SignalRefreshProofs ------------------------
(***************************************************************************)
(* Theorems about SignalRefresh, for any strategies, pairs, workers and    *)
(* candles, and any budgets of overruns, faults and crashes.               *)
(***************************************************************************)
EXTENDS SignalRefresh, FiniteSetTheorems, TLAPS

\* The states in which the calculator is in memory.
Computing == {"compute", "upsert", "get", "set"}

\* A worker at one of the steps about a combination has one, with its candles.
ComboInv == \A w \in Workers :
    worker[w].pc \in {"upsert", "get", "set"} =>
        /\ worker[w].combo \in Combos
        /\ worker[w].loaded[worker[w].combo[2]] > 0

\* A combination is a strategy and a pair.
LEMMA ComboParts == \A c \in Combos : c[1] \in Strategies /\ c[2] \in Pairs
BY DEF Combos

\* The control states.
PCs == {"idle", "plan", "download", "compute", "upsert", "get", "set",
        "done", "failed", "release"}

\* Moving a worker, leaving the calculator and going on to the next combination
\* keep the workers' records in their type.
LEMMA GotoType ==
    ASSUME worker \in [Workers -> WorkerState], NEW w \in Workers, NEW pc \in PCs,
           Goto(w, pc)
    PROVE  worker' \in [Workers -> WorkerState]
BY ZenonT(60) DEF Goto, WorkerState, PCs

\* The same, of the calculator that is left.
LEMMA LeaveType ==
    ASSUME worker \in [Workers -> WorkerState], NEW w \in Workers, NEW pc \in PCs,
           Leave(w, pc)
    PROVE  worker' \in [Workers -> WorkerState]
<1>1. Nothing \in [Pairs -> Versions]
  BY ConstantsAssumption DEF Nothing, Versions
<1>2. [Idle EXCEPT !.pc = pc] \in WorkerState
  BY <1>1 DEF Idle, WorkerState, PCs
<1> QED BY <1>2 DEF Leave

\* The same, of the next combination.
LEMMA NextComboType ==
    ASSUME worker \in [Workers -> WorkerState], NEW w \in Workers, NextCombo(w)
    PROVE  worker' \in [Workers -> WorkerState]
<1>1. Nothing \in [Pairs -> Versions]
  BY ConstantsAssumption DEF Nothing, Versions
<1> DEFINE r == [worker[w] EXCEPT !.pc = "compute", !.combo = None, !.seen = Nothing]
<1>2. r \in WorkerState
  BY <1>1 DEF WorkerState
<1>3. worker' = [worker EXCEPT ![w] = r]
  BY DEF NextCombo
<1> QED BY <1>2, <1>3

\* So do the updates of several fields.
LEMMA PlanType ==
    ASSUME worker \in [Workers -> WorkerState], NEW w \in Workers, NEW pc \in PCs,
           NEW todo \in SUBSET Combos, NEW stale \in SUBSET Pairs,
           worker' = [worker EXCEPT ![w].todo = todo, ![w].stale = stale, ![w].pc = pc]
    PROVE  worker' \in [Workers -> WorkerState]
<1> DEFINE r == [worker[w] EXCEPT !.todo = todo, !.stale = stale, !.pc = pc]
<1>1. r \in WorkerState
  BY DEF WorkerState, PCs
<1>2. worker' = [worker EXCEPT ![w] = r]
  OBVIOUS
<1> QED BY <1>1, <1>2

\* The same, of a combination that is computed.
LEMMA ComputeType ==
    ASSUME worker \in [Workers -> WorkerState], NEW w \in Workers,
           NEW c \in Combos, NEW v \in Versions,
           worker' = [worker EXCEPT ![w].pc = "upsert", ![w].combo = c,
                        ![w].todo = worker[w].todo \ {c}, ![w].loaded[c[2]] = v]
    PROVE  worker' \in [Workers -> WorkerState]
<1> DEFINE f == [worker[w].loaded EXCEPT ![c[2]] = v]
           r == [worker[w] EXCEPT !.pc = "upsert", !.combo = c,
                                  !.todo = worker[w].todo \ {c}, !.loaded = f]
<1>1. f \in [Pairs -> Versions]
  BY ComboParts DEF WorkerState
<1>2. worker' = [worker EXCEPT ![w] = r]
  OBVIOUS
<1> HIDE DEF f
<1>3. r \in WorkerState
  BY <1>1 DEF WorkerState
<1> QED BY <1>2, <1>3

\* The same, of a combination that is given up.
LEMMA SkipComboType ==
    ASSUME worker \in [Workers -> WorkerState], NEW w \in Workers,
           NEW c \in Combos, NEW v \in Versions,
           worker' = [worker EXCEPT ![w].todo = worker[w].todo \ {c},
                                    ![w].loaded[c[2]] = v]
    PROVE  worker' \in [Workers -> WorkerState]
<1> DEFINE f == [worker[w].loaded EXCEPT ![c[2]] = v]
           r == [worker[w] EXCEPT !.todo = worker[w].todo \ {c}, !.loaded = f]
<1>1. f \in [Pairs -> Versions]
  BY ComboParts DEF WorkerState
<1>2. worker' = [worker EXCEPT ![w] = r]
  OBVIOUS
<1> HIDE DEF f
<1>3. r \in WorkerState
  BY <1>1 DEF WorkerState
<1> QED BY <1>2, <1>3

\* The same, of the Redis list that is read.
LEMMA CacheGetType ==
    ASSUME worker \in [Workers -> WorkerState], NEW w \in Workers,
           NEW f \in [Pairs -> Versions],
           worker' = [worker EXCEPT ![w].pc = "set", ![w].seen = f]
    PROVE  worker' \in [Workers -> WorkerState]
<1> DEFINE r == [worker[w] EXCEPT !.pc = "set", !.seen = f]
<1>1. r \in WorkerState
  BY DEF WorkerState
<1>2. worker' = [worker EXCEPT ![w] = r]
  OBVIOUS
<1> QED BY <1>1, <1>2

\* The types hold at the start, when nobody works.
LEMMA TypeInit == Init => TypeOK /\ ComboInv
BY ConstantsAssumption DEF Init, TypeOK, ComboInv, Idle, Nothing, WorkerState, Versions

\* Every step keeps the types.
LEMMA TypeStep ==
    TypeOK /\ ComboInv /\ [Next]_vars => TypeOK'
<1> SUFFICES ASSUME TypeOK, ComboInv, [Next]_vars PROVE TypeOK'
  OBVIOUS
<1> USE ConstantsAssumption DEF TypeOK
<1>1. ASSUME NEW w \in Workers, Acquire(w) PROVE TypeOK'
  <2>1. worker' \in [Workers -> WorkerState]
    BY <1>1, GotoType DEF Acquire, PCs
  <2> QED BY <1>1, <2>1 DEF Acquire, Take, database, budgets
<1>2. ASSUME NEW w \in Workers, Skip(w) PROVE TypeOK'
  BY <1>2 DEF Skip, Take, database, budgets
<1>3. ASSUME NEW w \in Workers, AcquireFails(w) PROVE TypeOK'
  BY <1>3 DEF AcquireFails, Take, Fault, database, budgets
<1>4. ASSUME NEW w \in Workers, Plan(w) PROVE TypeOK'
  <2>1. PICK active \in SUBSET Strategies, pairs \in (SUBSET Pairs) \ {{}} :
          \E fresh \in SUBSET {p \in pairs : file[p] > 0 /\ candle <= file[p] + 1} :
            worker' = [worker EXCEPT
                ![w].todo = active \X pairs,
                ![w].stale = pairs \ fresh,
                ![w].pc = IF pairs = fresh THEN "compute" ELSE "download"]
    BY <1>4 DEF Plan
  <2> DEFINE todo == active \X pairs
  <2>2. todo \in SUBSET Combos
    BY DEF Combos
  <2>3. PICK fresh : worker' = [worker EXCEPT
                ![w].todo = todo,
                ![w].stale = pairs \ fresh,
                ![w].pc = IF pairs = fresh THEN "compute" ELSE "download"]
    BY <2>1
  <2> HIDE DEF todo
  <2> DEFINE pc == IF pairs = fresh THEN "compute" ELSE "download"
  <2>4. pc \in PCs
    BY DEF PCs
  <2> DEFINE stale == pairs \ fresh
  <2>5. stale \in SUBSET Pairs
    OBVIOUS
  <2>6. worker' = [worker EXCEPT ![w].todo = todo, ![w].stale = stale, ![w].pc = pc]
    BY <2>3
  <2> HIDE DEF pc, stale
  <2>7. worker' \in [Workers -> WorkerState]
    BY <2>2, <2>4, <2>5, <2>6, PlanType
  <2> QED BY <1>4, <2>7 DEF Plan, database, budgets
<1>5. ASSUME NEW w \in Workers, Download(w) PROVE TypeOK'
  <2>1. file' \in [Pairs -> Versions]
    BY <1>5, ConstantsAssumption DEF Download, Versions
  <2>2. CASE /\ worker' = [worker EXCEPT ![w].pc = "compute", ![w].stale = {}]
             /\ UNCHANGED streak
    <3>1. [worker[w] EXCEPT !.pc = "compute", !.stale = {}] \in WorkerState
      BY ZenonT(60) DEF WorkerState
    <3>2. worker' = [worker EXCEPT ![w] = [worker[w] EXCEPT !.pc = "compute", !.stale = {}]]
      BY <2>2
    <3>3. worker' \in [Workers -> WorkerState]
      BY <3>1, <3>2
    <3> QED BY <1>5, <2>1, <2>2, <3>3 DEF Download, database, budgets
  <2>3. CASE Leave(w, "failed") /\ streak' = streak + 1
    <3>1. worker' \in [Workers -> WorkerState]
      BY <2>3, LeaveType DEF PCs
    <3> QED BY <1>5, <2>1, <2>3, <3>1 DEF Download, database, budgets
  <2> QED BY <1>5, <2>2, <2>3 DEF Download
<1>6. ASSUME NEW w \in Workers, Compute(w) PROVE TypeOK'
  <2>1. PICK c \in worker[w].todo : worker' = [worker EXCEPT
             ![w].pc = "upsert", ![w].combo = c, ![w].todo = worker[w].todo \ {c},
             ![w].loaded[c[2]] = Loaded(w, c[2])]
    BY <1>6 DEF Compute
  <2>2. c \in Combos
    BY DEF WorkerState
  <2>3. c[2] \in Pairs
    BY <2>2, ComboParts
  <2>4. Loaded(w, c[2]) \in Versions
    BY <2>3 DEF Loaded, WorkerState
  <2>8. worker' \in [Workers -> WorkerState]
    BY <2>1, <2>2, <2>4, ComputeType
  <2> QED BY <1>6, <2>8 DEF Compute, database, budgets
<1>7. ASSUME NEW w \in Workers, SkipCombo(w) PROVE TypeOK'
  <2>1. PICK c \in worker[w].todo : \E v \in {worker[w].loaded[c[2]], Loaded(w, c[2])} :
           worker' = [worker EXCEPT ![w].todo = worker[w].todo \ {c}, ![w].loaded[c[2]] = v]
    BY <1>7 DEF SkipCombo
  <2>2. PICK v \in {worker[w].loaded[c[2]], Loaded(w, c[2])} :
           worker' = [worker EXCEPT ![w].todo = worker[w].todo \ {c}, ![w].loaded[c[2]] = v]
    BY <2>1
  <2>3. c \in Combos /\ c[2] \in Pairs
    BY ComboParts DEF WorkerState
  <2>4. v \in Versions
    BY <2>3 DEF Loaded, WorkerState
  <2>8. worker' \in [Workers -> WorkerState]
    BY <2>2, <2>3, <2>4, SkipComboType
  <2> QED BY <1>7, <2>8 DEF SkipCombo, database, budgets
<1>8. ASSUME NEW w \in Workers, Upsert(w) PROVE TypeOK'
  <2>1. worker' \in [Workers -> WorkerState]
    BY <1>8, GotoType DEF Upsert, PCs
  <2>2. held' \in [Combos -> Workers \cup {None}]
    BY <1>8 DEF Upsert
  <2> QED BY <1>8, <2>1, <2>2 DEF Upsert, budgets
<1>9. ASSUME NEW w \in Workers, DeadlockVictim(w) PROVE TypeOK'
  <2>1. worker' \in [Workers -> WorkerState]
    BY <1>9, NextComboType DEF DeadlockVictim, PCs
  <2> QED BY <1>9, <2>1 DEF DeadlockVictim, database, budgets
<1>10. ASSUME NEW w \in Workers, UpsertFails(w) PROVE TypeOK'
  <2>1. worker' \in [Workers -> WorkerState]
    BY <1>10, NextComboType DEF UpsertFails, PCs
  <2> QED BY <1>10, <2>1 DEF UpsertFails, Fault, database, budgets
<1>11. ASSUME NEW w \in Workers, CacheGet(w) PROVE TypeOK'
  <2>1. worker[w].combo[1] \in Strategies
    BY <1>11, ComboParts DEF CacheGet, ComboInv
  <2>2. cache[worker[w].combo[1]] \in [Pairs -> Versions]
    BY <2>1
  <2>3. worker' \in [Workers -> WorkerState]
    BY <1>11, <2>2, CacheGetType DEF CacheGet
  <2> QED BY <1>11, <2>3 DEF CacheGet, database, budgets
<1>12. ASSUME NEW w \in Workers, CacheSet(w) PROVE TypeOK'
  <2>1. worker[w].combo[1] \in Strategies /\ worker[w].combo[2] \in Pairs
    BY <1>12, ComboParts DEF CacheSet, ComboInv
  <2>2. worker[w].seen \in [Pairs -> Versions] /\ worker[w].loaded \in [Pairs -> Versions]
    BY DEF WorkerState
  <2>3. [worker[w].seen EXCEPT ![worker[w].combo[2]] =
            worker[w].loaded[worker[w].combo[2]]] \in [Pairs -> Versions]
    BY <2>1, <2>2
  <2>4. cache' \in [Strategies -> [Pairs -> Versions]]
    BY <1>12, <2>1, <2>3 DEF CacheSet
  <2>5. worker' \in [Workers -> WorkerState]
    BY <1>12, NextComboType DEF CacheSet
  <2> QED BY <1>12, <2>4, <2>5 DEF CacheSet, database, budgets
<1>13. ASSUME NEW w \in Workers, CacheFails(w) PROVE TypeOK'
  <2>1. worker' \in [Workers -> WorkerState]
    BY <1>13, NextComboType DEF CacheFails, PCs
  <2> QED BY <1>13, <2>1 DEF CacheFails, Fault, database, budgets
<1>14. ASSUME NEW w \in Workers, Commit(w) PROVE TypeOK'
  <2>1. worker' \in [Workers -> WorkerState]
    BY <1>14, LeaveType DEF Commit, PCs
  <2>2. rows' \in [Combos -> Versions]
    <3>1. \A c \in Combos : worker[w].loaded[c[2]] \in Versions
      BY ComboParts DEF WorkerState
    <3> QED BY <1>14, <3>1 DEF Commit
  <2>3. held' \in [Combos -> Workers \cup {None}]
    BY <1>14 DEF Commit, ReleaseRows
  <2> QED BY <1>14, <2>1, <2>2, <2>3 DEF Commit, budgets
<1>15. ASSUME NEW w \in Workers, TransactionFails(w) PROVE TypeOK'
  <2>1. worker' \in [Workers -> WorkerState]
    BY <1>15, LeaveType DEF TransactionFails, PCs
  <2> QED BY <1>15, <2>1 DEF TransactionFails, Fault, ReleaseRows, database, budgets
<1>16. ASSUME NEW w \in Workers, CountSuccess(w) PROVE TypeOK'
  <2>1. worker' \in [Workers -> WorkerState]
    BY <1>16, GotoType DEF CountSuccess, PCs
  <2> QED BY <1>16, <2>1 DEF CountSuccess, database, budgets
<1>17. ASSUME NEW w \in Workers, CountFailure(w) PROVE TypeOK'
  <2>1. worker' \in [Workers -> WorkerState]
    BY <1>17, GotoType DEF CountFailure, PCs
  <2> QED BY <1>17, <2>1 DEF CountFailure, database, budgets
<1>18. ASSUME NEW w \in Workers, CountFails(w) PROVE TypeOK'
  <2>1. worker' \in [Workers -> WorkerState]
    BY <1>18, GotoType DEF CountFails, PCs
  <2> QED BY <1>18, <2>1 DEF CountFails, Fault, database, budgets
<1>19. ASSUME NEW w \in Workers, Release(w) PROVE TypeOK'
  <2>1. worker' \in [Workers -> WorkerState]
    BY <1>19, LeaveType DEF Release, Ack, PCs
  <2> QED BY <1>19, <2>1 DEF Release, database, budgets
<1>20. ASSUME NEW w \in Workers, ReleaseFails(w) PROVE TypeOK'
  <2>1. worker' \in [Workers -> WorkerState]
    BY <1>20, LeaveType DEF ReleaseFails, Ack, PCs
  <2> QED BY <1>20, <2>1 DEF ReleaseFails, Fault, database, budgets
<1>21. ASSUME NEW w \in Workers, Crash(w) PROVE TypeOK'
  <2>1. worker' \in [Workers -> WorkerState]
    BY <1>21, LeaveType DEF Crash, Ack, PCs
  <2> QED BY <1>21, <2>1 DEF Crash, ReleaseRows, database, budgets
<1>22. CASE Trigger
  BY <1>22 DEF Trigger, database, budgets
<1>23. CASE LockExpires
  BY <1>23 DEF LockExpires, database, budgets
<1>24. CASE Overrun
  BY <1>24 DEF Overrun, database, budgets
<1>25. CASE NewCandle
  BY <1>25, ConstantsAssumption DEF NewCandle, database, budgets
<1>26. ASSUME NEW s \in Strategies, CacheExpires(s) PROVE TypeOK'
  <2>1. cache' \in [Strategies -> [Pairs -> Versions]]
    BY <1>26, ConstantsAssumption DEF CacheExpires, Nothing, Versions
  <2> QED BY <1>26, <2>1 DEF CacheExpires, database, budgets
<1>27. CASE UNCHANGED vars
  BY <1>27 DEF vars, database, budgets
<1> QED
  BY <1>1, <1>2, <1>3, <1>4, <1>5, <1>6, <1>7, <1>8, <1>9, <1>10, <1>11, <1>12, <1>13,
     <1>14, <1>15, <1>16, <1>17, <1>18, <1>19, <1>20, <1>21, <1>22, <1>23, <1>24, <1>25,
     <1>26, <1>27 DEF Next, WorkerStep, WorkerFault

\* Every step keeps the combination of a worker that is about one.
LEMMA ComboStep ==
    TypeOK /\ ComboInv /\ [Next]_vars => ComboInv'
<1> SUFFICES ASSUME TypeOK, ComboInv, [Next]_vars PROVE ComboInv'
  OBVIOUS
<1> USE DEF TypeOK, ComboInv
<1>1. ASSUME NEW w \in Workers, Acquire(w) PROVE ComboInv'
  BY <1>1 DEF Acquire, Take, Goto, database, budgets
<1>2. ASSUME NEW w \in Workers, Skip(w) PROVE ComboInv'
  BY <1>2 DEF Skip, Take, database, budgets
<1>3. ASSUME NEW w \in Workers, AcquireFails(w) PROVE ComboInv'
  BY <1>3 DEF AcquireFails, Take, Fault, database, budgets
<1>4. ASSUME NEW w \in Workers, Plan(w) PROVE ComboInv'
  <2>1. worker'[w].pc \in {"compute", "download"}
    BY <1>4 DEF Plan
  <2>2. \A u \in Workers \ {w} : worker'[u] = worker[u]
    BY <1>4 DEF Plan
  <2> QED BY <2>1, <2>2
<1>5. ASSUME NEW w \in Workers, Download(w) PROVE ComboInv'
  <2>1. worker'[w].pc \in {"compute", "failed"}
    <3>1. CASE worker' = [worker EXCEPT ![w].pc = "compute", ![w].stale = {}]
      BY <3>1
    <3>2. CASE Leave(w, "failed")
      BY <3>2 DEF Leave, Idle
    <3> QED BY <1>5, <3>1, <3>2 DEF Download
  <2>2. \A u \in Workers \ {w} : worker'[u] = worker[u]
    BY <1>5 DEF Download, Leave
  <2> QED BY <2>1, <2>2
<1>6. ASSUME NEW w \in Workers, Compute(w) PROVE ComboInv'
  <2>1. PICK c \in worker[w].todo :
          /\ Loaded(w, c[2]) > 0
          /\ worker' = [worker EXCEPT
               ![w].pc = "upsert", ![w].combo = c, ![w].todo = worker[w].todo \ {c},
               ![w].loaded[c[2]] = Loaded(w, c[2])]
    BY <1>6 DEF Compute
  <2>2. c \in Combos /\ c[2] \in Pairs
    BY ComboParts DEF WorkerState
  <2>3. worker[w].loaded \in [Pairs -> Versions]
    BY DEF WorkerState
  <2>4. worker'[w].combo = c /\ worker'[w].loaded[c[2]] = Loaded(w, c[2])
    BY <2>1, <2>2, <2>3
  <2>5. \A u \in Workers \ {w} : worker'[u] = worker[u]
    BY <2>1
  <2> QED BY <2>1, <2>2, <2>4, <2>5
<1>7. ASSUME NEW w \in Workers, SkipCombo(w) PROVE ComboInv'
  BY <1>7 DEF SkipCombo, Loaded, database, budgets
<1>8. ASSUME NEW w \in Workers, Upsert(w) PROVE ComboInv'
  BY <1>8 DEF Upsert, Waiting, Goto, database, budgets
<1>9. ASSUME NEW w \in Workers, DeadlockVictim(w) PROVE ComboInv'
  BY <1>9 DEF DeadlockVictim, Deadlocked, Waiting, NextCombo, Nothing, database, budgets
<1>10. ASSUME NEW w \in Workers, UpsertFails(w) PROVE ComboInv'
  BY <1>10 DEF UpsertFails, Fault, NextCombo, Nothing, database, budgets
<1>11. ASSUME NEW w \in Workers, CacheGet(w) PROVE ComboInv'
  BY <1>11 DEF CacheGet, database, budgets
<1>12. ASSUME NEW w \in Workers, CacheSet(w) PROVE ComboInv'
  BY <1>12 DEF CacheSet, NextCombo, Nothing, database, budgets
<1>13. ASSUME NEW w \in Workers, CacheFails(w) PROVE ComboInv'
  BY <1>13 DEF CacheFails, Fault, NextCombo, Nothing, database, budgets
<1>14. ASSUME NEW w \in Workers, Commit(w) PROVE ComboInv'
  BY <1>14 DEF Commit, ReleaseRows, Leave, Idle, Nothing, database, budgets
<1>15. ASSUME NEW w \in Workers, TransactionFails(w) PROVE ComboInv'
  BY <1>15 DEF TransactionFails, Fault, ReleaseRows, Leave, Idle, Nothing, database,
     budgets
<1>16. ASSUME NEW w \in Workers, CountSuccess(w) PROVE ComboInv'
  BY <1>16 DEF CountSuccess, Goto, database, budgets
<1>17. ASSUME NEW w \in Workers, CountFailure(w) PROVE ComboInv'
  BY <1>17 DEF CountFailure, Goto, database, budgets
<1>18. ASSUME NEW w \in Workers, CountFails(w) PROVE ComboInv'
  BY <1>18 DEF CountFails, Fault, Goto, database, budgets
<1>19. ASSUME NEW w \in Workers, Release(w) PROVE ComboInv'
  BY <1>19 DEF Release, Ack, Leave, Idle, Nothing, database, budgets
<1>20. ASSUME NEW w \in Workers, ReleaseFails(w) PROVE ComboInv'
  BY <1>20 DEF ReleaseFails, Fault, Ack, Leave, Idle, Nothing, database, budgets
<1>21. ASSUME NEW w \in Workers, Crash(w) PROVE ComboInv'
  BY <1>21 DEF Crash, ReleaseRows, Ack, Leave, Idle, Nothing, database, budgets
<1>22. CASE Trigger
  BY <1>22 DEF Trigger, database, budgets
<1>23. CASE LockExpires
  BY <1>23 DEF LockExpires, database, budgets
<1>24. CASE Overrun
  BY <1>24 DEF Overrun, database, budgets
<1>25. CASE NewCandle
  BY <1>25 DEF NewCandle, database, budgets
<1>26. ASSUME NEW s \in Strategies, CacheExpires(s) PROVE ComboInv'
  BY <1>26 DEF CacheExpires, Nothing, database, budgets
<1>27. CASE UNCHANGED vars
  BY <1>27 DEF vars, database, budgets
<1> QED
  BY <1>1, <1>2, <1>3, <1>4, <1>5, <1>6, <1>7, <1>8, <1>9, <1>10, <1>11, <1>12, <1>13,
     <1>14, <1>15, <1>16, <1>17, <1>18, <1>19, <1>20, <1>21, <1>22, <1>23, <1>24, <1>25,
     <1>26, <1>27 DEF Next, WorkerStep, WorkerFault

\* Type correctness: no step takes a variable out of its type, the count of
\* messages below zero or a budget over its bound.
THEOREM TypeCorrect == Spec => []TypeOK
<1>1. TypeOK /\ ComboInv /\ [Next]_vars => (TypeOK /\ ComboInv)'
  BY TypeStep, ComboStep
<1>2. Spec => [](TypeOK /\ ComboInv)
  BY TypeInit, <1>1, PTL DEF Spec
<1> QED BY <1>2, PTL

----------------------------------------------------------------------------
(* Mutual exclusion, up to the overruns *)

\* The running workers that do not own the lock have lost it to its expiry.
LockInv == Cardinality(Running \ {lock}) <= overruns

\* There are finitely many workers, so these sets have a size.
LEMMA RunningFinite ==
    IsFiniteSet(Running \ {lock}) /\ Cardinality(Running \ {lock}) \in Nat
<1>1. Running \ {lock} \subseteq Workers
  BY DEF Running
<1>2. IsFiniteSet(Running \ {lock})
  BY <1>1, ConstantsAssumption, FS_Subset
<1> QED BY <1>2, FS_CardinalityType

\* Nobody runs at the start.
LEMMA LockInit == Init => LockInv
<1> SUFFICES ASSUME Init PROVE LockInv
  OBVIOUS
<1>1. Running \ {lock} = {}
  BY DEF Init, Running, Idle
<1>2. Cardinality(Running \ {lock}) = 0
  BY <1>1, FS_EmptySet
<1>3. overruns = 0
  BY DEF Init
<1> QED BY <1>2, <1>3 DEF LockInv

\* A step after which nobody else is without the lock keeps the invariant.
LEMMA NoOneElse ==
    ASSUME LockInv, TypeOK, overruns' = overruns,
           Running' \ {lock'} \subseteq Running \ {lock}
    PROVE  LockInv'
<1>1. /\ IsFiniteSet(Running \ {lock})
      /\ Cardinality(Running \ {lock}) \in Nat
  BY RunningFinite
<1>2. Cardinality(Running' \ {lock'}) <= Cardinality(Running \ {lock})
  BY <1>1, FS_Subset
<1>3. Cardinality(Running' \ {lock'}) \in Nat
  BY <1>1, FS_Subset, FS_CardinalityType
<1> QED BY <1>1, <1>2, <1>3 DEF LockInv, TypeOK

\* Only an overrun leaves one more worker without the lock: a late owner
\* deletes its successor's lock, but ends with it.
LEMMA LockStep ==
    TypeOK /\ LockInv /\ [Next]_vars => LockInv'
<1> SUFFICES ASSUME TypeOK, LockInv, [Next]_vars PROVE LockInv'
  OBVIOUS
<1> USE ConstantsAssumption DEF TypeOK
<1>1. ASSUME NEW w \in Workers, Acquire(w) PROVE LockInv'
  <2>1. Running' \ {lock'} \subseteq Running \ {lock} /\ overruns' = overruns
    BY <1>1 DEF Running, Acquire, Take, Goto, database, budgets
  <2> QED BY <2>1, NoOneElse
<1>2. ASSUME NEW w \in Workers, Skip(w) PROVE LockInv'
  <2>1. Running' \ {lock'} \subseteq Running \ {lock} /\ overruns' = overruns
    BY <1>2 DEF Running, Skip, Take, database, budgets
  <2> QED BY <2>1, NoOneElse
<1>3. ASSUME NEW w \in Workers, AcquireFails(w) PROVE LockInv'
  <2>1. Running' \ {lock'} \subseteq Running \ {lock} /\ overruns' = overruns
    BY <1>3 DEF Running, AcquireFails, Take, Fault, database, budgets
  <2> QED BY <2>1, NoOneElse
<1>4. ASSUME NEW w \in Workers, Plan(w) PROVE LockInv'
  <2>1. Running' \ {lock'} \subseteq Running \ {lock} /\ overruns' = overruns
    BY <1>4 DEF Running, Plan, database, budgets
  <2> QED BY <2>1, NoOneElse
<1>5. ASSUME NEW w \in Workers, Download(w) PROVE LockInv'
  <2>1. worker'[w].pc \in {"compute", "failed"}
    <3>1. CASE worker' = [worker EXCEPT ![w].pc = "compute", ![w].stale = {}]
      BY <3>1
    <3>2. CASE Leave(w, "failed")
      BY <3>2 DEF Leave, Idle
    <3> QED BY <1>5, <3>1, <3>2 DEF Download
  <2>2. \A u \in Workers \ {w} : worker'[u] = worker[u]
    BY <1>5 DEF Download, Leave
  <2>3. Running' \ {lock'} \subseteq Running \ {lock} /\ overruns' = overruns
    BY <1>5, <2>1, <2>2 DEF Download, Running, budgets
  <2> QED BY <2>3, NoOneElse
<1>6. ASSUME NEW w \in Workers, Compute(w) PROVE LockInv'
  <2>1. Running' \ {lock'} \subseteq Running \ {lock} /\ overruns' = overruns
    BY <1>6 DEF Running, Compute, Loaded, database, budgets
  <2> QED BY <2>1, NoOneElse
<1>7. ASSUME NEW w \in Workers, SkipCombo(w) PROVE LockInv'
  <2>1. Running' \ {lock'} \subseteq Running \ {lock} /\ overruns' = overruns
    BY <1>7 DEF Running, SkipCombo, Loaded, database, budgets
  <2> QED BY <2>1, NoOneElse
<1>8. ASSUME NEW w \in Workers, Upsert(w) PROVE LockInv'
  <2>1. Running' \ {lock'} \subseteq Running \ {lock} /\ overruns' = overruns
    BY <1>8 DEF Running, Upsert, Waiting, Goto, database, budgets
  <2> QED BY <2>1, NoOneElse
<1>9. ASSUME NEW w \in Workers, DeadlockVictim(w) PROVE LockInv'
  <2>1. Running' \ {lock'} \subseteq Running \ {lock} /\ overruns' = overruns
    BY <1>9 DEF Running, DeadlockVictim, Deadlocked, Waiting, NextCombo, Nothing, database,
       budgets
  <2> QED BY <2>1, NoOneElse
<1>10. ASSUME NEW w \in Workers, UpsertFails(w) PROVE LockInv'
  <2>1. Running' \ {lock'} \subseteq Running \ {lock} /\ overruns' = overruns
    BY <1>10 DEF Running, UpsertFails, Fault, NextCombo, Nothing, database, budgets
  <2> QED BY <2>1, NoOneElse
<1>11. ASSUME NEW w \in Workers, CacheGet(w) PROVE LockInv'
  <2>1. Running' \ {lock'} \subseteq Running \ {lock} /\ overruns' = overruns
    BY <1>11 DEF Running, CacheGet, database, budgets
  <2> QED BY <2>1, NoOneElse
<1>12. ASSUME NEW w \in Workers, CacheSet(w) PROVE LockInv'
  <2>1. Running' \ {lock'} \subseteq Running \ {lock} /\ overruns' = overruns
    BY <1>12 DEF Running, CacheSet, NextCombo, Nothing, database, budgets
  <2> QED BY <2>1, NoOneElse
<1>13. ASSUME NEW w \in Workers, CacheFails(w) PROVE LockInv'
  <2>1. Running' \ {lock'} \subseteq Running \ {lock} /\ overruns' = overruns
    BY <1>13 DEF Running, CacheFails, Fault, NextCombo, Nothing, database, budgets
  <2> QED BY <2>1, NoOneElse
<1>14. ASSUME NEW w \in Workers, Commit(w) PROVE LockInv'
  <2>1. Running' \ {lock'} \subseteq Running \ {lock} /\ overruns' = overruns
    BY <1>14 DEF Running, Commit, ReleaseRows, Leave, Idle, Nothing, database, budgets
  <2> QED BY <2>1, NoOneElse
<1>15. ASSUME NEW w \in Workers, TransactionFails(w) PROVE LockInv'
  <2>1. Running' \ {lock'} \subseteq Running \ {lock} /\ overruns' = overruns
    BY <1>15 DEF Running, TransactionFails, Fault, ReleaseRows, Leave, Idle, Nothing,
       database, budgets
  <2> QED BY <2>1, NoOneElse
<1>16. ASSUME NEW w \in Workers, CountSuccess(w) PROVE LockInv'
  <2>1. Running' \ {lock'} \subseteq Running \ {lock} /\ overruns' = overruns
    BY <1>16 DEF Running, CountSuccess, Goto, database, budgets
  <2> QED BY <2>1, NoOneElse
<1>17. ASSUME NEW w \in Workers, CountFailure(w) PROVE LockInv'
  <2>1. Running' \ {lock'} \subseteq Running \ {lock} /\ overruns' = overruns
    BY <1>17 DEF Running, CountFailure, Goto, database, budgets
  <2> QED BY <2>1, NoOneElse
<1>18. ASSUME NEW w \in Workers, CountFails(w) PROVE LockInv'
  <2>1. Running' \ {lock'} \subseteq Running \ {lock} /\ overruns' = overruns
    BY <1>18 DEF Running, CountFails, Fault, Goto, database, budgets
  <2> QED BY <2>1, NoOneElse
<1>19. ASSUME NEW w \in Workers, Release(w) PROVE LockInv'
  <2>1. Running' = Running \ {w} /\ lock' = None /\ w \in Running
    BY <1>19 DEF Running, Release, Ack, Leave, Idle
  <2>2. None \notin Running
    BY DEF Running
  <2>3. CASE lock = w \/ lock \notin Running
    <3>1. Running' \ {lock'} \subseteq Running \ {lock} /\ overruns' = overruns
      BY <1>19, <2>1, <2>3 DEF Release, budgets
    <3> QED BY <3>1, NoOneElse
  <2>4. CASE lock # w /\ lock \in Running
    <3> DEFINE rest == (Running \ {lock}) \ {w}
    <3>1. Running' \ {lock'} = rest \cup {lock}
      BY <2>1, <2>2, <2>4
    <3>2. /\ IsFiniteSet(rest)
          /\ Cardinality(rest) = Cardinality(Running \ {lock}) - 1
      BY <2>1, <2>4, RunningFinite, FS_RemoveElement
    <3>3. Cardinality(rest \cup {lock}) = Cardinality(rest) + 1
      BY <3>2, FS_AddElement
    <3>4. Cardinality(rest) + 1 = Cardinality(Running \ {lock})
      BY <3>2, RunningFinite
    <3>5. Cardinality(Running' \ {lock'}) = Cardinality(Running \ {lock})
      BY <3>1, <3>3, <3>4
    <3> QED BY <1>19, <3>5 DEF LockInv, Release, budgets
  <2> QED BY <2>3, <2>4
<1>20. ASSUME NEW w \in Workers, ReleaseFails(w) PROVE LockInv'
  <2>1. Running' \ {lock'} \subseteq Running \ {lock} /\ overruns' = overruns
    BY <1>20 DEF Running, ReleaseFails, Fault, Ack, Leave, Idle, Nothing, database, budgets
  <2> QED BY <2>1, NoOneElse
<1>21. ASSUME NEW w \in Workers, Crash(w) PROVE LockInv'
  <2>1. Running' \ {lock'} \subseteq Running \ {lock} /\ overruns' = overruns
    BY <1>21 DEF Running, Crash, ReleaseRows, Ack, Leave, Idle, Nothing, database, budgets
  <2> QED BY <2>1, NoOneElse
<1>22. CASE Trigger
  <2>1. Running' \ {lock'} \subseteq Running \ {lock} /\ overruns' = overruns
    BY <1>22 DEF Running, Trigger, database, budgets
  <2> QED BY <2>1, NoOneElse
<1>23. CASE LockExpires
  <2>1. Running' \ {lock'} \subseteq Running \ {lock} /\ overruns' = overruns
    BY <1>23 DEF Running, LockExpires, database, budgets
  <2> QED BY <2>1, NoOneElse
<1>24. CASE Overrun
  <2>1. Running' = Running /\ lock' = None /\ lock \in Running /\ overruns' = overruns + 1
    BY <1>24 DEF Running, Overrun
  <2>2. Running' \ {lock'} = (Running \ {lock}) \cup {lock}
    BY <2>1 DEF Running
  <2>3. Cardinality(Running' \ {lock'}) = Cardinality(Running \ {lock}) + 1
    BY <2>2, RunningFinite, FS_AddElement
  <2> QED BY <2>1, <2>3, RunningFinite DEF LockInv
<1>25. CASE NewCandle
  <2>1. Running' \ {lock'} \subseteq Running \ {lock} /\ overruns' = overruns
    BY <1>25 DEF Running, NewCandle, database, budgets
  <2> QED BY <2>1, NoOneElse
<1>26. ASSUME NEW s \in Strategies, CacheExpires(s) PROVE LockInv'
  <2>1. Running' \ {lock'} \subseteq Running \ {lock} /\ overruns' = overruns
    BY <1>26 DEF Running, CacheExpires, Nothing, database, budgets
  <2> QED BY <2>1, NoOneElse
<1>27. CASE UNCHANGED vars
  BY <1>27 DEF vars, database, budgets, LockInv, Running
<1> QED
  BY <1>1, <1>2, <1>3, <1>4, <1>5, <1>6, <1>7, <1>8, <1>9, <1>10, <1>11, <1>12, <1>13,
     <1>14, <1>15, <1>16, <1>17, <1>18, <1>19, <1>20, <1>21, <1>22, <1>23, <1>24, <1>25,
     <1>26, <1>27 DEF Next, WorkerStep, WorkerFault

\* The invariants of the lock and of the types hold together.
LEMMA LockInvariant == Spec => [](TypeOK /\ ComboInv /\ LockInv)
<1>1. TypeOK /\ ComboInv /\ LockInv /\ [Next]_vars => (TypeOK /\ ComboInv /\ LockInv)'
  BY TypeStep, ComboStep, LockStep
<1> QED BY TypeInit, LockInit, <1>1, PTL DEF Spec

\* For any number of workers, triggers, crashes and faults, at most one refresh
\* more runs at a time than locks have expired under a running owner.
THEOREM RefreshesAreBounded == Spec => []RefreshesBounded
<1>1. TypeOK /\ LockInv => RefreshesBounded
  <2> SUFFICES ASSUME TypeOK, LockInv PROVE RefreshesBounded
    OBVIOUS
  <2>1. /\ IsFiniteSet(Running \ {lock})
        /\ Cardinality(Running \ {lock}) \in Nat
    BY RunningFinite
  <2>2. Cardinality((Running \ {lock}) \cup {lock}) <= Cardinality(Running \ {lock}) + 1
    BY <2>1, FS_AddElement
  <2>3. /\ IsFiniteSet((Running \ {lock}) \cup {lock})
        /\ Cardinality((Running \ {lock}) \cup {lock}) \in Nat
    BY <2>1, FS_AddElement, FS_CardinalityType
  <2>4. Running \subseteq (Running \ {lock}) \cup {lock}
    OBVIOUS
  <2>5. /\ Cardinality(Running) <= Cardinality((Running \ {lock}) \cup {lock})
        /\ Cardinality(Running) \in Nat
    BY <2>3, <2>4, FS_Subset, FS_CardinalityType
  <2> QED BY <2>1, <2>2, <2>3, <2>5 DEF RefreshesBounded, LockInv, TypeOK
<1> QED BY LockInvariant, <1>1, PTL

----------------------------------------------------------------------------
(* Signals never go back to an older candle *)

\* Only a calculator has candles in memory.
FramesInv == \A w \in Workers, p \in Pairs :
    worker[w].loaded[p] > 0 => worker[w].pc \in Computing

\* An uncommitted row is one of a calculator that has the candles of its pair.
HeldInv == \A c \in Combos, w \in Workers :
    held[c] = w => worker[w].pc \in Computing /\ worker[w].loaded[c[2]] > 0

\* Nothing is newer than what it was made from.
VersionsInv ==
    /\ \A p \in Pairs : file[p] <= candle
    /\ \A w \in Workers, p \in Pairs : worker[w].loaded[p] <= file[p]
    /\ \A c \in Combos : rows[c] <= file[c[2]]

\* While locks are not lost, candles in memory are as new as the signals stored.
FreshInv ==
    overruns = 0 => \A w \in Workers, c \in Combos :
        worker[w].loaded[c[2]] > 0 => rows[c] <= worker[w].loaded[c[2]]

\* What a step does to the candles in memory: it keeps them, drops them, or
\* loads them from the file as it is; afterwards they are a calculator's.
LoadedKept == \A u \in Workers, p \in Pairs :
    /\ worker'[u].loaded[p] \in {worker[u].loaded[p], 0, file[p]}
    /\ worker'[u].loaded[p] > 0 => worker'[u].pc \in Computing

\* Every step treats the candles in memory so.
LEMMA LoadedStep ==
    TypeOK /\ FramesInv /\ [Next]_vars => LoadedKept
<1> SUFFICES ASSUME TypeOK, FramesInv, [Next]_vars PROVE LoadedKept
  OBVIOUS
<1> USE DEF TypeOK, FramesInv, LoadedKept, Computing
<1>1. ASSUME NEW w \in Workers, Acquire(w) PROVE LoadedKept
  BY <1>1 DEF Acquire, Take, Goto, database, budgets
<1>2. ASSUME NEW w \in Workers, Skip(w) PROVE LoadedKept
  BY <1>2 DEF Skip, Take, database, budgets
<1>3. ASSUME NEW w \in Workers, AcquireFails(w) PROVE LoadedKept
  BY <1>3 DEF AcquireFails, Take, Fault, database, budgets
<1>4. ASSUME NEW w \in Workers, Plan(w) PROVE LoadedKept
  <2>1. worker'[w].loaded = worker[w].loaded
    BY <1>4 DEF Plan
  <2>2. \A u \in Workers \ {w} : worker'[u] = worker[u]
    BY <1>4 DEF Plan
  <2> QED BY <1>4, <2>1, <2>2 DEF Plan, Computing
<1>5. ASSUME NEW w \in Workers, Download(w) PROVE LoadedKept
  <2>1. \A u \in Workers \ {w} : worker'[u] = worker[u]
    BY <1>5 DEF Download, Leave
  <2>2. CASE worker' = [worker EXCEPT ![w].pc = "compute", ![w].stale = {}]
    BY <2>1, <2>2
  <2>3. CASE Leave(w, "failed")
    BY <2>1, <2>3 DEF Leave, Idle, Nothing
  <2> QED BY <1>5, <2>2, <2>3 DEF Download
<1>6. ASSUME NEW w \in Workers, Compute(w) PROVE LoadedKept
  <2>1. PICK c \in worker[w].todo : worker' = [worker EXCEPT
             ![w].pc = "upsert", ![w].combo = c, ![w].todo = worker[w].todo \ {c},
             ![w].loaded[c[2]] = Loaded(w, c[2])]
    BY <1>6 DEF Compute
  <2>2. worker[w].loaded \in [Pairs -> Versions]
    BY DEF WorkerState
  <2>3. \A p \in Pairs :
          worker'[w].loaded[p] \in {worker[w].loaded[p], Loaded(w, p)}
    BY <2>1, <2>2
  <2>4. \A u \in Workers \ {w} : worker'[u] = worker[u]
    BY <2>1
  <2> QED BY <2>1, <2>3, <2>4 DEF Loaded
<1>7. ASSUME NEW w \in Workers, SkipCombo(w) PROVE LoadedKept
  <2>1. PICK c \in worker[w].todo : \E v \in {worker[w].loaded[c[2]], Loaded(w, c[2])} :
           worker' = [worker EXCEPT ![w].todo = worker[w].todo \ {c}, ![w].loaded[c[2]] = v]
    BY <1>7 DEF SkipCombo
  <2>2. worker[w].loaded \in [Pairs -> Versions]
    BY DEF WorkerState
  <2>3. \A p \in Pairs :
          worker'[w].loaded[p] \in {worker[w].loaded[p], Loaded(w, p)}
    BY <2>1, <2>2
  <2>4. worker'[w].pc = "compute"
    BY <1>7, <2>1 DEF SkipCombo
  <2>5. \A u \in Workers \ {w} : worker'[u] = worker[u]
    BY <2>1
  <2> QED BY <2>3, <2>4, <2>5 DEF Loaded
<1>8. ASSUME NEW w \in Workers, Upsert(w) PROVE LoadedKept
  BY <1>8 DEF Upsert, Waiting, Goto, database, budgets
<1>9. ASSUME NEW w \in Workers, DeadlockVictim(w) PROVE LoadedKept
  BY <1>9 DEF DeadlockVictim, Deadlocked, Waiting, NextCombo, Nothing, database, budgets
<1>10. ASSUME NEW w \in Workers, UpsertFails(w) PROVE LoadedKept
  BY <1>10 DEF UpsertFails, Fault, NextCombo, Nothing, database, budgets
<1>11. ASSUME NEW w \in Workers, CacheGet(w) PROVE LoadedKept
  BY <1>11 DEF CacheGet, database, budgets
<1>12. ASSUME NEW w \in Workers, CacheSet(w) PROVE LoadedKept
  BY <1>12 DEF CacheSet, NextCombo, Nothing, database, budgets
<1>13. ASSUME NEW w \in Workers, CacheFails(w) PROVE LoadedKept
  BY <1>13 DEF CacheFails, Fault, NextCombo, Nothing, database, budgets
<1>14. ASSUME NEW w \in Workers, Commit(w) PROVE LoadedKept
  BY <1>14 DEF Commit, ReleaseRows, Leave, Idle, Nothing, database, budgets
<1>15. ASSUME NEW w \in Workers, TransactionFails(w) PROVE LoadedKept
  BY <1>15 DEF TransactionFails, Fault, ReleaseRows, Leave, Idle, Nothing, database,
     budgets
<1>16. ASSUME NEW w \in Workers, CountSuccess(w) PROVE LoadedKept
  BY <1>16 DEF CountSuccess, Goto, database, budgets
<1>17. ASSUME NEW w \in Workers, CountFailure(w) PROVE LoadedKept
  BY <1>17 DEF CountFailure, Goto, database, budgets
<1>18. ASSUME NEW w \in Workers, CountFails(w) PROVE LoadedKept
  BY <1>18 DEF CountFails, Fault, Goto, database, budgets
<1>19. ASSUME NEW w \in Workers, Release(w) PROVE LoadedKept
  BY <1>19 DEF Release, Ack, Leave, Idle, Nothing, database, budgets
<1>20. ASSUME NEW w \in Workers, ReleaseFails(w) PROVE LoadedKept
  BY <1>20 DEF ReleaseFails, Fault, Ack, Leave, Idle, Nothing, database, budgets
<1>21. ASSUME NEW w \in Workers, Crash(w) PROVE LoadedKept
  BY <1>21 DEF Crash, ReleaseRows, Ack, Leave, Idle, Nothing, database, budgets
<1>22. CASE Trigger
  BY <1>22 DEF Trigger, database, budgets
<1>23. CASE LockExpires
  BY <1>23 DEF LockExpires, database, budgets
<1>24. CASE Overrun
  BY <1>24 DEF Overrun, database, budgets
<1>25. CASE NewCandle
  BY <1>25 DEF NewCandle, database, budgets
<1>26. ASSUME NEW s \in Strategies, CacheExpires(s) PROVE LoadedKept
  BY <1>26 DEF CacheExpires, Nothing, database, budgets
<1>27. CASE UNCHANGED vars
  BY <1>27 DEF vars, database, budgets
<1> QED
  BY <1>1, <1>2, <1>3, <1>4, <1>5, <1>6, <1>7, <1>8, <1>9, <1>10, <1>11, <1>12, <1>13,
     <1>14, <1>15, <1>16, <1>17, <1>18, <1>19, <1>20, <1>21, <1>22, <1>23, <1>24, <1>25,
     <1>26, <1>27 DEF Next, WorkerStep, WorkerFault

\* A row stays uncommitted no longer than the calculator that wrote it lives.
LEMMA HeldStep ==
    TypeOK /\ ComboInv /\ HeldInv /\ [Next]_vars => HeldInv'
<1> SUFFICES ASSUME TypeOK, ComboInv, HeldInv, [Next]_vars PROVE HeldInv'
  OBVIOUS
<1> USE ConstantsAssumption DEF TypeOK, HeldInv, Computing
<1>1. ASSUME NEW w \in Workers, Acquire(w) PROVE HeldInv'
  BY <1>1 DEF Acquire, Take, Goto, database, budgets
<1>2. ASSUME NEW w \in Workers, Skip(w) PROVE HeldInv'
  BY <1>2 DEF Skip, Take, database, budgets
<1>3. ASSUME NEW w \in Workers, AcquireFails(w) PROVE HeldInv'
  BY <1>3 DEF AcquireFails, Take, Fault, database, budgets
<1>4. ASSUME NEW w \in Workers, Plan(w) PROVE HeldInv'
  <2>1. \A u \in Workers \ {w} : worker'[u] = worker[u]
    BY <1>4 DEF Plan
  <2> QED BY <1>4, <2>1 DEF Plan, database
<1>5. ASSUME NEW w \in Workers, Download(w) PROVE HeldInv'
  <2>1. \A u \in Workers \ {w} : worker'[u] = worker[u]
    BY <1>5 DEF Download, Leave
  <2> QED BY <1>5, <2>1 DEF Download, database
<1>6. ASSUME NEW w \in Workers, Compute(w) PROVE HeldInv'
  <2>1. PICK c \in worker[w].todo : Loaded(w, c[2]) > 0 /\ worker' = [worker EXCEPT
             ![w].pc = "upsert", ![w].combo = c, ![w].todo = worker[w].todo \ {c},
             ![w].loaded[c[2]] = Loaded(w, c[2])]
    BY <1>6 DEF Compute
  <2>2. worker[w].loaded \in [Pairs -> Versions]
    BY DEF WorkerState
  <2>3. \A p \in Pairs : worker[w].loaded[p] > 0 => worker'[w].loaded[p] > 0
    BY <2>1, <2>2
  <2>4. \A u \in Workers \ {w} : worker'[u] = worker[u]
    BY <2>1
  <2>5. \A d \in Combos : d[2] \in Pairs
    BY ComboParts
  <2> QED BY <1>6, <2>1, <2>3, <2>4, <2>5 DEF Compute, database
<1>7. ASSUME NEW w \in Workers, SkipCombo(w) PROVE HeldInv'
  <2>1. PICK c \in worker[w].todo : \E v \in {worker[w].loaded[c[2]], Loaded(w, c[2])} :
           worker' = [worker EXCEPT ![w].todo = worker[w].todo \ {c}, ![w].loaded[c[2]] = v]
    BY <1>7 DEF SkipCombo
  <2>2. worker[w].loaded \in [Pairs -> Versions]
    BY DEF WorkerState
  <2>3. \A p \in Pairs : worker[w].loaded[p] > 0 => worker'[w].loaded[p] > 0
    BY <2>1, <2>2 DEF Loaded
  <2>4. worker'[w].pc = "compute" /\ UNCHANGED held
    BY <1>7, <2>1 DEF SkipCombo, database
  <2>5. \A u \in Workers \ {w} : worker'[u] = worker[u]
    BY <2>1
  <2>6. \A d \in Combos : d[2] \in Pairs
    BY ComboParts
  <2> QED BY <2>3, <2>4, <2>5, <2>6
<1>8. ASSUME NEW w \in Workers, Upsert(w) PROVE HeldInv'
  <2>1. /\ worker[w].combo \in Combos
        /\ worker[w].loaded[worker[w].combo[2]] > 0
    BY <1>8 DEF Upsert, ComboInv
  <2>2. /\ worker'[w].pc = "get"
        /\ worker'[w].loaded = worker[w].loaded
    BY <1>8 DEF Upsert, Goto
  <2>3. \A u \in Workers \ {w} : worker'[u] = worker[u]
    BY <1>8 DEF Upsert, Goto
  <2>4. held' = [held EXCEPT ![worker[w].combo] = w]
    BY <1>8 DEF Upsert
  <2>5. \A c \in Combos : held'[c] = w => c = worker[w].combo \/ held[c] = w
    BY <2>1, <2>4
  <2>6. \A c \in Combos, u \in Workers \ {w} : held'[c] = u => held[c] = u
    BY <2>1, <2>4
  <2> QED BY <2>1, <2>2, <2>3, <2>5, <2>6
<1>9. ASSUME NEW w \in Workers, DeadlockVictim(w) PROVE HeldInv'
  BY <1>9 DEF DeadlockVictim, Deadlocked, Waiting, NextCombo, Nothing, database, budgets
<1>10. ASSUME NEW w \in Workers, UpsertFails(w) PROVE HeldInv'
  BY <1>10 DEF UpsertFails, Fault, NextCombo, Nothing, database, budgets
<1>11. ASSUME NEW w \in Workers, CacheGet(w) PROVE HeldInv'
  BY <1>11 DEF CacheGet, database, budgets
<1>12. ASSUME NEW w \in Workers, CacheSet(w) PROVE HeldInv'
  BY <1>12 DEF CacheSet, NextCombo, Nothing, database, budgets
<1>13. ASSUME NEW w \in Workers, CacheFails(w) PROVE HeldInv'
  BY <1>13 DEF CacheFails, Fault, NextCombo, Nothing, database, budgets
<1>14. ASSUME NEW w \in Workers, Commit(w) PROVE HeldInv'
  <2>1. \A u \in Workers \ {w} : worker'[u] = worker[u]
    BY <1>14 DEF Commit, Ack, Leave
  <2>2. \A c \in Combos : held'[c] # w /\ held'[c] \in {held[c], None}
    BY <1>14 DEF Commit, ReleaseRows
  <2> QED BY <2>1, <2>2
<1>15. ASSUME NEW w \in Workers, TransactionFails(w) PROVE HeldInv'
  <2>1. \A u \in Workers \ {w} : worker'[u] = worker[u]
    BY <1>15 DEF TransactionFails, Ack, Leave
  <2>2. \A c \in Combos : held'[c] # w /\ held'[c] \in {held[c], None}
    BY <1>15 DEF TransactionFails, ReleaseRows
  <2> QED BY <2>1, <2>2
<1>16. ASSUME NEW w \in Workers, CountSuccess(w) PROVE HeldInv'
  BY <1>16 DEF CountSuccess, Goto, database, budgets
<1>17. ASSUME NEW w \in Workers, CountFailure(w) PROVE HeldInv'
  BY <1>17 DEF CountFailure, Goto, database, budgets
<1>18. ASSUME NEW w \in Workers, CountFails(w) PROVE HeldInv'
  BY <1>18 DEF CountFails, Fault, Goto, database, budgets
<1>19. ASSUME NEW w \in Workers, Release(w) PROVE HeldInv'
  BY <1>19 DEF Release, Ack, Leave, Idle, Nothing, database, budgets
<1>20. ASSUME NEW w \in Workers, ReleaseFails(w) PROVE HeldInv'
  BY <1>20 DEF ReleaseFails, Fault, Ack, Leave, Idle, Nothing, database, budgets
<1>21. ASSUME NEW w \in Workers, Crash(w) PROVE HeldInv'
  <2>1. \A u \in Workers \ {w} : worker'[u] = worker[u]
    BY <1>21 DEF Crash, Ack, Leave
  <2>2. \A c \in Combos : held'[c] # w /\ held'[c] \in {held[c], None}
    BY <1>21 DEF Crash, ReleaseRows
  <2> QED BY <2>1, <2>2
<1>22. CASE Trigger
  BY <1>22 DEF Trigger, database, budgets
<1>23. CASE LockExpires
  BY <1>23 DEF LockExpires, database, budgets
<1>24. CASE Overrun
  BY <1>24 DEF Overrun, database, budgets
<1>25. CASE NewCandle
  BY <1>25 DEF NewCandle, database, budgets
<1>26. ASSUME NEW s \in Strategies, CacheExpires(s) PROVE HeldInv'
  BY <1>26 DEF CacheExpires, Nothing, database, budgets
<1>27. CASE UNCHANGED vars
  BY <1>27 DEF vars, database, budgets
<1> QED
  BY <1>1, <1>2, <1>3, <1>4, <1>5, <1>6, <1>7, <1>8, <1>9, <1>10, <1>11, <1>12, <1>13,
     <1>14, <1>15, <1>16, <1>17, <1>18, <1>19, <1>20, <1>21, <1>22, <1>23, <1>24, <1>25,
     <1>26, <1>27 DEF Next, WorkerStep, WorkerFault

\* Files only grow, up to the newest candle there is, and an overrun is counted.
FilesGrow ==
    /\ candle <= candle'
    /\ \A p \in Pairs : file[p] <= file'[p] /\ file'[p] <= candle'
    /\ overruns' \in {overruns, overruns + 1}

\* Every step treats the files so.
LEMMA FilesStep ==
    TypeOK /\ VersionsInv /\ [Next]_vars => FilesGrow
<1> SUFFICES ASSUME TypeOK, VersionsInv, [Next]_vars PROVE FilesGrow
  OBVIOUS
<1> USE ConstantsAssumption DEF TypeOK, VersionsInv, FilesGrow, Versions
<1>1. ASSUME NEW w \in Workers, Acquire(w) PROVE FilesGrow
  BY <1>1 DEF Acquire, Take, Goto, database, budgets
<1>2. ASSUME NEW w \in Workers, Skip(w) PROVE FilesGrow
  BY <1>2 DEF Skip, Take, database, budgets
<1>3. ASSUME NEW w \in Workers, AcquireFails(w) PROVE FilesGrow
  BY <1>3 DEF AcquireFails, Take, Fault, database, budgets
<1>4. ASSUME NEW w \in Workers, Plan(w) PROVE FilesGrow
  BY <1>4 DEF Plan, database, budgets
<1>5. ASSUME NEW w \in Workers, Download(w) PROVE FilesGrow
  <2>1. \A p \in Pairs : file'[p] \in {file[p], candle}
    BY <1>5 DEF Download
  <2>2. overruns' = overruns /\ candle' = candle
    BY <1>5 DEF Download, budgets
  <2> QED BY <2>1, <2>2
<1>6. ASSUME NEW w \in Workers, Compute(w) PROVE FilesGrow
  BY <1>6 DEF Compute, Loaded, database, budgets
<1>7. ASSUME NEW w \in Workers, SkipCombo(w) PROVE FilesGrow
  BY <1>7 DEF SkipCombo, Loaded, database, budgets
<1>8. ASSUME NEW w \in Workers, Upsert(w) PROVE FilesGrow
  BY <1>8 DEF Upsert, Waiting, Goto, database, budgets
<1>9. ASSUME NEW w \in Workers, DeadlockVictim(w) PROVE FilesGrow
  BY <1>9 DEF DeadlockVictim, Deadlocked, Waiting, NextCombo, Nothing, database, budgets
<1>10. ASSUME NEW w \in Workers, UpsertFails(w) PROVE FilesGrow
  BY <1>10 DEF UpsertFails, Fault, NextCombo, Nothing, database, budgets
<1>11. ASSUME NEW w \in Workers, CacheGet(w) PROVE FilesGrow
  BY <1>11 DEF CacheGet, database, budgets
<1>12. ASSUME NEW w \in Workers, CacheSet(w) PROVE FilesGrow
  BY <1>12 DEF CacheSet, NextCombo, Nothing, database, budgets
<1>13. ASSUME NEW w \in Workers, CacheFails(w) PROVE FilesGrow
  BY <1>13 DEF CacheFails, Fault, NextCombo, Nothing, database, budgets
<1>14. ASSUME NEW w \in Workers, Commit(w) PROVE FilesGrow
  BY <1>14 DEF Commit, ReleaseRows, Leave, Idle, Nothing, database, budgets
<1>15. ASSUME NEW w \in Workers, TransactionFails(w) PROVE FilesGrow
  BY <1>15 DEF TransactionFails, Fault, ReleaseRows, Leave, Idle, Nothing, database,
     budgets
<1>16. ASSUME NEW w \in Workers, CountSuccess(w) PROVE FilesGrow
  BY <1>16 DEF CountSuccess, Goto, database, budgets
<1>17. ASSUME NEW w \in Workers, CountFailure(w) PROVE FilesGrow
  BY <1>17 DEF CountFailure, Goto, database, budgets
<1>18. ASSUME NEW w \in Workers, CountFails(w) PROVE FilesGrow
  BY <1>18 DEF CountFails, Fault, Goto, database, budgets
<1>19. ASSUME NEW w \in Workers, Release(w) PROVE FilesGrow
  BY <1>19 DEF Release, Ack, Leave, Idle, Nothing, database, budgets
<1>20. ASSUME NEW w \in Workers, ReleaseFails(w) PROVE FilesGrow
  BY <1>20 DEF ReleaseFails, Fault, Ack, Leave, Idle, Nothing, database, budgets
<1>21. ASSUME NEW w \in Workers, Crash(w) PROVE FilesGrow
  BY <1>21 DEF Crash, ReleaseRows, Ack, Leave, Idle, Nothing, database, budgets
<1>22. CASE Trigger
  BY <1>22 DEF Trigger, database, budgets
<1>23. CASE LockExpires
  BY <1>23 DEF LockExpires, database, budgets
<1>24. CASE Overrun
  BY <1>24 DEF Overrun, database, budgets
<1>25. CASE NewCandle
  BY <1>25 DEF NewCandle, database, budgets
<1>26. ASSUME NEW s \in Strategies, CacheExpires(s) PROVE FilesGrow
  BY <1>26 DEF CacheExpires, Nothing, database, budgets
<1>27. CASE UNCHANGED vars
  BY <1>27 DEF vars, database, budgets
<1> QED
  BY <1>1, <1>2, <1>3, <1>4, <1>5, <1>6, <1>7, <1>8, <1>9, <1>10, <1>11, <1>12, <1>13,
     <1>14, <1>15, <1>16, <1>17, <1>18, <1>19, <1>20, <1>21, <1>22, <1>23, <1>24, <1>25,
     <1>26, <1>27 DEF Next, WorkerStep, WorkerFault

\* Only a commit changes the table.
RowsKept == UNCHANGED rows \/ \E v \in Workers : Commit(v)

\* Every step treats the table so.
LEMMA RowsStep ==
    [Next]_vars => RowsKept
<1> SUFFICES ASSUME [Next]_vars PROVE RowsKept
  OBVIOUS
<1> USE DEF RowsKept
<1>1. ASSUME NEW w \in Workers, Acquire(w) PROVE RowsKept
  BY <1>1 DEF Acquire, Take, Goto, database, budgets
<1>2. ASSUME NEW w \in Workers, Skip(w) PROVE RowsKept
  BY <1>2 DEF Skip, Take, database, budgets
<1>3. ASSUME NEW w \in Workers, AcquireFails(w) PROVE RowsKept
  BY <1>3 DEF AcquireFails, Take, Fault, database, budgets
<1>4. ASSUME NEW w \in Workers, Plan(w) PROVE RowsKept
  BY <1>4 DEF Plan, database, budgets
<1>5. ASSUME NEW w \in Workers, Download(w) PROVE RowsKept
  BY <1>5 DEF Download, Leave, Idle, Nothing, database, budgets
<1>6. ASSUME NEW w \in Workers, Compute(w) PROVE RowsKept
  BY <1>6 DEF Compute, Loaded, database, budgets
<1>7. ASSUME NEW w \in Workers, SkipCombo(w) PROVE RowsKept
  BY <1>7 DEF SkipCombo, Loaded, database, budgets
<1>8. ASSUME NEW w \in Workers, Upsert(w) PROVE RowsKept
  BY <1>8 DEF Upsert, Waiting, Goto, database, budgets
<1>9. ASSUME NEW w \in Workers, DeadlockVictim(w) PROVE RowsKept
  BY <1>9 DEF DeadlockVictim, Deadlocked, Waiting, NextCombo, Nothing, database, budgets
<1>10. ASSUME NEW w \in Workers, UpsertFails(w) PROVE RowsKept
  BY <1>10 DEF UpsertFails, Fault, NextCombo, Nothing, database, budgets
<1>11. ASSUME NEW w \in Workers, CacheGet(w) PROVE RowsKept
  BY <1>11 DEF CacheGet, database, budgets
<1>12. ASSUME NEW w \in Workers, CacheSet(w) PROVE RowsKept
  BY <1>12 DEF CacheSet, NextCombo, Nothing, database, budgets
<1>13. ASSUME NEW w \in Workers, CacheFails(w) PROVE RowsKept
  BY <1>13 DEF CacheFails, Fault, NextCombo, Nothing, database, budgets
<1>14. ASSUME NEW w \in Workers, Commit(w) PROVE RowsKept
  BY <1>14
<1>15. ASSUME NEW w \in Workers, TransactionFails(w) PROVE RowsKept
  BY <1>15 DEF TransactionFails, Fault, ReleaseRows, Leave, Idle, Nothing, database,
     budgets
<1>16. ASSUME NEW w \in Workers, CountSuccess(w) PROVE RowsKept
  BY <1>16 DEF CountSuccess, Goto, database, budgets
<1>17. ASSUME NEW w \in Workers, CountFailure(w) PROVE RowsKept
  BY <1>17 DEF CountFailure, Goto, database, budgets
<1>18. ASSUME NEW w \in Workers, CountFails(w) PROVE RowsKept
  BY <1>18 DEF CountFails, Fault, Goto, database, budgets
<1>19. ASSUME NEW w \in Workers, Release(w) PROVE RowsKept
  BY <1>19 DEF Release, Ack, Leave, Idle, Nothing, database, budgets
<1>20. ASSUME NEW w \in Workers, ReleaseFails(w) PROVE RowsKept
  BY <1>20 DEF ReleaseFails, Fault, Ack, Leave, Idle, Nothing, database, budgets
<1>21. ASSUME NEW w \in Workers, Crash(w) PROVE RowsKept
  BY <1>21 DEF Crash, ReleaseRows, Ack, Leave, Idle, Nothing, database, budgets
<1>22. CASE Trigger
  BY <1>22 DEF Trigger, database, budgets
<1>23. CASE LockExpires
  BY <1>23 DEF LockExpires, database, budgets
<1>24. CASE Overrun
  BY <1>24 DEF Overrun, database, budgets
<1>25. CASE NewCandle
  BY <1>25 DEF NewCandle, database, budgets
<1>26. ASSUME NEW s \in Strategies, CacheExpires(s) PROVE RowsKept
  BY <1>26 DEF CacheExpires, Nothing, database, budgets
<1>27. CASE UNCHANGED vars
  BY <1>27 DEF vars, database, budgets
<1> QED
  BY <1>1, <1>2, <1>3, <1>4, <1>5, <1>6, <1>7, <1>8, <1>9, <1>10, <1>11, <1>12, <1>13,
     <1>14, <1>15, <1>16, <1>17, <1>18, <1>19, <1>20, <1>21, <1>22, <1>23, <1>24, <1>25,
     <1>26, <1>27 DEF Next, WorkerStep, WorkerFault

\* A commit finds its rows no newer than what it stores.
LEMMA CommitAdvances ==
    ASSUME TypeOK, HeldInv, FreshInv, overruns = 0, NEW w \in Workers, Commit(w),
           NEW c \in Combos
    PROVE  rows'[c] >= rows[c]
<1>1. rows[c] \in Nat
  BY DEF TypeOK, Versions
<1>2. CASE held[c] = w
  BY <1>1, <1>2 DEF Commit, HeldInv, FreshInv
<1>3. CASE held[c] # w
  BY <1>1, <1>3 DEF Commit
<1> QED BY <1>2, <1>3

\* As long as no lock was lost, nobody else is at work when a refresh commits.
LEMMA CommitAlone ==
    ASSUME TypeOK, LockInv, FramesInv, overruns = 0, NEW w \in Workers, Commit(w)
    PROVE  \A u \in Workers, p \in Pairs : worker'[u].loaded[p] = 0
<1>1. Running \ {lock} = {}
  BY RunningFinite, FS_EmptySet DEF LockInv
<1>2. w \in Running
  BY DEF Commit, Running
<1>3. \A u \in Workers \ {w} : u \notin Running
  BY <1>1, <1>2
<1>4. \A u \in Workers \ {w}, p \in Pairs : worker[u].loaded[p] = 0
  <2> TAKE u \in Workers \ {w}, p \in Pairs
  <2>1. worker[u].loaded[p] \in Nat
    BY DEF TypeOK, WorkerState, Versions
  <2>2. worker[u].pc = "idle"
    BY <1>3 DEF Running
  <2> QED BY <2>1, <2>2 DEF FramesInv, Computing
<1>5. worker' = [worker EXCEPT ![w] = [Idle EXCEPT !.pc = "done"]]
  BY DEF Commit, Leave
<1>6. \A u \in Workers \ {w} : worker'[u] = worker[u]
  BY <1>5
<1>7. worker'[w].loaded = Nothing
  BY <1>5 DEF TypeOK, Idle
<1> QED BY <1>4, <1>6, <1>7 DEF Nothing

\* Nothing gets newer than what it was made from.
LEMMA VersionsStep ==
    TypeOK /\ ComboInv /\ FramesInv /\ VersionsInv /\ [Next]_vars => VersionsInv'
<1> SUFFICES ASSUME TypeOK, ComboInv, FramesInv, VersionsInv, [Next]_vars
             PROVE  VersionsInv'
  OBVIOUS
<1>1. LoadedKept /\ FilesGrow /\ TypeOK'
  BY LoadedStep, FilesStep, TypeStep
<1>2. \A p \in Pairs : file[p] \in Nat /\ file'[p] \in Nat
  BY <1>1 DEF TypeOK, Versions
<1>3. \A w \in Workers, p \in Pairs : worker'[w].loaded[p] <= file'[p]
  <2> TAKE w \in Workers, p \in Pairs
  <2>1. worker[w].loaded[p] \in Nat
    BY DEF TypeOK, WorkerState, Versions
  <2> QED BY <1>1, <1>2, <2>1 DEF LoadedKept, FilesGrow, VersionsInv
<1>4. \A c \in Combos : rows'[c] <= file'[c[2]]
  <2> TAKE c \in Combos
  <2>1. c[2] \in Pairs
    BY ComboParts
  <2>2. rows[c] \in Nat /\ rows[c] <= file[c[2]]
    BY DEF TypeOK, Versions, VersionsInv
  <2>3. CASE UNCHANGED rows
    BY <1>1, <1>2, <2>1, <2>2, <2>3 DEF FilesGrow
  <2>4. ASSUME NEW w \in Workers, Commit(w) PROVE rows'[c] <= file'[c[2]]
    <3>1. worker[w].loaded[c[2]] \in Nat
      BY <2>1 DEF TypeOK, WorkerState, Versions
    <3>2. rows'[c] \in {rows[c], worker[w].loaded[c[2]]}
      BY <2>4 DEF Commit
    <3> QED BY <1>1, <1>2, <2>1, <2>2, <3>1, <3>2 DEF FilesGrow, VersionsInv
  <2> QED BY <2>3, <2>4, RowsStep DEF RowsKept
<1> QED BY <1>1, <1>3, <1>4 DEF FilesGrow, VersionsInv

\* Candles in memory stay as new as the table while locks are not lost.
LEMMA FreshStep ==
    TypeOK /\ LockInv /\ FramesInv /\ VersionsInv /\ FreshInv /\ [Next]_vars
        => FreshInv'
<1> SUFFICES ASSUME TypeOK, LockInv, FramesInv, VersionsInv, FreshInv, [Next]_vars,
                    overruns' = 0, NEW u \in Workers, NEW c \in Combos,
                    worker'[u].loaded[c[2]] > 0
             PROVE  rows'[c] <= worker'[u].loaded[c[2]]
  BY DEF FreshInv
<1>1. LoadedKept /\ FilesGrow
  BY LoadedStep, FilesStep
<1>2. overruns = 0
  BY <1>1 DEF FilesGrow, TypeOK
<1>3. c[2] \in Pairs
  BY ComboParts
<1>4. CASE UNCHANGED rows
  <2>1. worker[u].loaded[c[2]] \in Nat /\ file[c[2]] \in Nat /\ rows[c] \in Nat
    BY <1>3 DEF TypeOK, WorkerState, Versions
  <2> QED BY <1>1, <1>2, <1>3, <1>4, <2>1 DEF LoadedKept, VersionsInv, FreshInv
<1>5. ASSUME NEW w \in Workers, Commit(w) PROVE FALSE
  BY <1>2, <1>3, <1>5, CommitAlone
<1> QED BY <1>4, <1>5, RowsStep DEF RowsKept

\* The inductive invariant behind SignalsAdvance.
RefreshInv ==
    /\ TypeOK /\ ComboInv /\ LockInv
    /\ FramesInv /\ HeldInv /\ VersionsInv /\ FreshInv

\* It holds at the start.
LEMMA RefreshInit == Init => RefreshInv
<1> SUFFICES ASSUME Init PROVE RefreshInv
  OBVIOUS
<1>1. TypeOK /\ ComboInv /\ LockInv
  BY TypeInit, LockInit
<1>2. \A w \in Workers, p \in Pairs : worker[w].loaded[p] = 0
  BY DEF Init, Idle, Nothing
<1>3. \A c \in Combos : rows[c] = 0 /\ held[c] = None /\ c[2] \in Pairs
  BY ComboParts DEF Init
<1>4. candle = 1 /\ \A p \in Pairs : file[p] \in 0..1
  BY DEF Init
<1>5. FramesInv /\ FreshInv
  BY <1>2, <1>3 DEF FramesInv, FreshInv
<1>6. HeldInv
  BY <1>3, ConstantsAssumption DEF HeldInv
<1>7. VersionsInv
  BY <1>2, <1>3, <1>4 DEF VersionsInv
<1> QED BY <1>1, <1>5, <1>6, <1>7 DEF RefreshInv

\* Every step keeps it.
LEMMA RefreshStep == RefreshInv /\ [Next]_vars => RefreshInv'
<1> SUFFICES ASSUME RefreshInv, [Next]_vars PROVE RefreshInv'
  OBVIOUS
<1> USE DEF RefreshInv
<1>1. TypeOK' /\ ComboInv' /\ LockInv'
  BY TypeStep, ComboStep, LockStep
<1>2. FramesInv'
  BY LoadedStep DEF LoadedKept, FramesInv
<1>3. HeldInv' /\ VersionsInv' /\ FreshInv'
  BY HeldStep, VersionsStep, FreshStep
<1> QED BY <1>1, <1>2, <1>3

\* For any number of workers, through any crash and any fault: while no refresh
\* outlived its lock, a stored signal is never replaced by an older one.
THEOREM SignalsOnlyAdvance == Spec => SignalsAdvance
<1>1. RefreshInv /\ [Next]_vars
        => [overruns' = 0 => \A c \in Combos : rows'[c] >= rows[c]]_vars
  <2> SUFFICES ASSUME RefreshInv, [Next]_vars, overruns' = 0, NEW c \in Combos
               PROVE  rows'[c] >= rows[c]
    OBVIOUS
  <2> USE DEF RefreshInv
  <2>1. overruns = 0
    BY FilesStep DEF FilesGrow, TypeOK
  <2>2. rows[c] \in Nat
    BY DEF TypeOK, Versions
  <2>3. CASE UNCHANGED rows
    BY <2>2, <2>3
  <2>4. ASSUME NEW w \in Workers, Commit(w) PROVE rows'[c] >= rows[c]
    BY <2>1, <2>4, CommitAdvances
  <2> QED BY <2>3, <2>4, RowsStep DEF RowsKept
<1> QED BY RefreshInit, RefreshStep, <1>1, PTL DEF Spec, SignalsAdvance

-----------------------------------------------------------------------------
(* Undisturbed refreshes, and what they leave behind in Redis: the cached  *)
(* signals and the counter of failures.                                    *)

\* Nothing failed so far, nobody crashed and no lock was lost.
Calm == faults = 0 /\ crashes = 0 /\ overruns = 0

\* Then one worker runs at a time.
Alone == \A v, w \in Workers : v \in Running /\ w \in Running => v = w

\* The counter is behind the refreshes that failed by the one about to count.
CountInv ==
    Calm => /\ \A w \in Workers : /\ worker[w].pc = "done" => streak = 0
                                  /\ worker[w].pc = "failed" => streak = counter + 1
            /\ (\A w \in Workers : worker[w].pc \notin {"done", "failed"}) => counter = streak

\* A refresh that has stored a signal and not yet cached it.
Caching(w) == worker[w].pc \in {"get", "set"}

\* What the table holds of c when the refresh that has written it commits.
Final(c) == IF held[c] = None THEN rows[c] ELSE worker[held[c]].loaded[c[2]]

(* The cache holds what the table holds or is about to hold, and so does   *)
(* the list a refresh has read; but for the combination that is being      *)
(* cached.                                                                 *)
CacheInv ==
    Calm => /\ \A w \in Workers : Caching(w) => held[worker[w].combo] = w
            /\ \A s \in Strategies, p \in Pairs :
                 (\A w \in Workers : Caching(w) => worker[w].combo # <<s, p>>)
                   => cache[s][p] \in {0, Final(<<s, p>>)}
            /\ \A w \in Workers, s \in Strategies, p \in Pairs :
                 worker[w].pc = "set" /\ worker[w].combo[1] = s /\ worker[w].combo[2] # p
                   => worker[w].seen[p] \in {0, Final(<<s, p>>)}

-----------------------------------------------------------------------------
(* Undisturbed steps *)

\* Budgets are not given back: what is calm now always was.
LEMMA CalmSteps ==
    ASSUME TypeOK, [Next]_vars, Calm'
    PROVE  /\ Calm
           /\ \/ \E w \in Workers : WorkerStep(w)
              \/ Trigger \/ LockExpires \/ NewCandle
              \/ \E s \in Strategies : CacheExpires(s)
              \/ UNCHANGED vars
<1> USE DEF TypeOK, Calm
<1>1. ASSUME NEW w \in Workers, WorkerFault(w) PROVE FALSE
  BY <1>1 DEF WorkerFault, AcquireFails, UpsertFails, CacheFails, TransactionFails,
     CountFails, ReleaseFails, Crash, Fault
<1>2. ~Overrun
  BY DEF Overrun
<1>3. \/ \E w \in Workers : WorkerStep(w)
      \/ Trigger \/ LockExpires \/ NewCandle
      \/ \E s \in Strategies : CacheExpires(s)
      \/ UNCHANGED vars
  BY <1>1, <1>2 DEF Next
<1>4. ASSUME NEW w \in Workers, WorkerStep(w) PROVE UNCHANGED <<faults, crashes, overruns>>
  BY <1>4 DEF WorkerStep, Acquire, Skip, Plan, Download, Compute, SkipCombo, Upsert,
     DeadlockVictim, CacheGet, CacheSet, Commit, CountSuccess, CountFailure, Release, budgets
<1>5. ASSUME \/ Trigger \/ LockExpires \/ NewCandle
             \/ \E s \in Strategies : CacheExpires(s)
             \/ UNCHANGED vars
      PROVE  UNCHANGED <<faults, crashes, overruns>>
  BY <1>5 DEF Trigger, LockExpires, NewCandle, CacheExpires, vars, budgets
<1> QED BY <1>3, <1>4, <1>5

\* Without overruns the lock does keep refreshes apart.
LEMMA OneAtATime == TypeOK /\ LockInv /\ overruns = 0 => Alone
<1> SUFFICES ASSUME TypeOK, LockInv, overruns = 0 PROVE Alone
  OBVIOUS
<1>1. Running \ {lock} = {}
  BY RunningFinite, FS_EmptySet DEF LockInv
<1> QED BY <1>1 DEF Alone

-----------------------------------------------------------------------------
(* The counter of failures *)

\* A step that is none of the ends of a refresh.
LEMMA NotCounted ==
    ASSUME CountInv, Calm' => Calm, UNCHANGED <<counter, streak>>,
           \A w \in Workers : worker[w].pc \in {"done", "failed"}
                                \/ worker'[w].pc \in {"done", "failed"}
                              => worker'[w].pc = worker[w].pc
    PROVE  CountInv'
BY DEF CountInv

\* The end of one refresh, when there is no other.
LEMMA CountedAlone ==
    ASSUME NEW w \in Workers, \A v \in Workers : v # w => worker'[v].pc = "idle",
           \/ worker'[w].pc = "done" /\ streak' = 0
           \/ worker'[w].pc = "failed" /\ streak' = counter' + 1
           \/ worker'[w].pc \notin {"done", "failed"} /\ counter' = streak'
    PROVE  CountInv'
BY DEF CountInv

\* Who runs alone leaves all others idle.
LEMMA OthersIdle ==
    ASSUME TypeOK, Alone, NEW w \in Workers, w \in Running,
           \A v \in Workers : v # w => worker'[v] = worker[v]
    PROVE  \A v \in Workers : v # w => worker[v].pc = "idle" /\ worker'[v].pc = "idle"
BY DEF Alone, Running

LEMMA CountStep == RefreshInv /\ CountInv /\ [Next]_vars => CountInv'
<1> SUFFICES ASSUME RefreshInv, CountInv, [Next]_vars, Calm'
             PROVE  CountInv'
  BY DEF CountInv
<1>0. Calm /\ TypeOK /\ Alone
  BY CalmSteps, OneAtATime DEF RefreshInv, Calm
<1>1. ASSUME NEW w \in Workers, Acquire(w) PROVE CountInv'
  <2>1. worker[w].pc = "idle" /\ worker'[w].pc = "plan"
        /\ \A v \in Workers : v # w => worker'[v] = worker[v]
    BY <1>0, <1>1 DEF Acquire, Goto, TypeOK, WorkerState
  <2> QED BY <1>0, <1>1, <2>1, NotCounted DEF Acquire
<1>2. ASSUME NEW w \in Workers, Skip(w) PROVE CountInv'
  BY <1>0, <1>2, NotCounted DEF Skip
<1>3. ASSUME NEW w \in Workers, Plan(w) PROVE CountInv'
  <2>1. worker[w].pc = "plan" /\ worker'[w].pc \in {"compute", "download"}
        /\ \A v \in Workers : v # w => worker'[v] = worker[v]
    BY <1>0, <1>3 DEF Plan, TypeOK, WorkerState
  <2> QED BY <1>0, <1>3, <2>1, NotCounted DEF Plan
<1>4. ASSUME NEW w \in Workers, Download(w) PROVE CountInv'
  <2>1. worker[w].pc = "download" /\ counter' = counter
    BY <1>4 DEF Download
  <2>2. CASE worker' = [worker EXCEPT ![w].pc = "compute", ![w].stale = {}] /\ UNCHANGED streak
    <3>1. worker'[w].pc = "compute" /\ \A v \in Workers : v # w => worker'[v] = worker[v]
      BY <1>0, <2>2 DEF TypeOK, WorkerState
    <3> QED BY <1>0, <2>1, <2>2, <3>1, NotCounted
  <2>3. CASE Leave(w, "failed") /\ streak' = streak + 1
    <3>1. worker'[w].pc = "failed" /\ \A v \in Workers : v # w => worker'[v] = worker[v]
      BY <1>0, <2>3 DEF Leave, Idle, TypeOK
    <3>2. w \in Running
      BY <2>1 DEF Running
    <3>3. \A v \in Workers : v # w => worker[v].pc = "idle" /\ worker'[v].pc = "idle"
      BY <1>0, <3>1, <3>2, OthersIdle
    <3>4. counter = streak
      BY <1>0, <2>1, <3>3 DEF CountInv
    <3> QED BY <2>1, <2>3, <3>1, <3>3, <3>4, CountedAlone
  <2> QED BY <1>4, <2>2, <2>3 DEF Download
<1>5. ASSUME NEW w \in Workers, Compute(w) PROVE CountInv'
  <2>1. worker[w].pc = "compute" /\ worker'[w].pc = "upsert"
        /\ \A v \in Workers : v # w => worker'[v] = worker[v]
    BY <1>0, <1>5 DEF Compute, TypeOK, WorkerState
  <2> QED BY <1>0, <1>5, <2>1, NotCounted DEF Compute
<1>6. ASSUME NEW w \in Workers, SkipCombo(w) PROVE CountInv'
  <2>1. worker[w].pc = "compute" /\ worker'[w].pc = "compute"
        /\ \A v \in Workers : v # w => worker'[v] = worker[v]
    BY <1>0, <1>6 DEF SkipCombo, TypeOK, WorkerState
  <2> QED BY <1>0, <1>6, <2>1, NotCounted DEF SkipCombo
<1>7. ASSUME NEW w \in Workers, Upsert(w) PROVE CountInv'
  <2>1. worker[w].pc = "upsert" /\ worker'[w].pc = "get"
        /\ \A v \in Workers : v # w => worker'[v] = worker[v]
    BY <1>0, <1>7 DEF Upsert, Goto, TypeOK, WorkerState
  <2> QED BY <1>0, <1>7, <2>1, NotCounted DEF Upsert
<1>8. ASSUME NEW w \in Workers, DeadlockVictim(w) PROVE CountInv'
  <2>1. worker[w].pc = "upsert" /\ worker'[w].pc = "compute"
        /\ \A v \in Workers : v # w => worker'[v] = worker[v]
    BY <1>0, <1>8 DEF DeadlockVictim, Deadlocked, Waiting, NextCombo, TypeOK, WorkerState
  <2> QED BY <1>0, <1>8, <2>1, NotCounted DEF DeadlockVictim
<1>9. ASSUME NEW w \in Workers, CacheGet(w) PROVE CountInv'
  <2>1. worker[w].pc = "get" /\ worker'[w].pc = "set"
        /\ \A v \in Workers : v # w => worker'[v] = worker[v]
    BY <1>0, <1>9 DEF CacheGet, TypeOK, WorkerState
  <2> QED BY <1>0, <1>9, <2>1, NotCounted DEF CacheGet
<1>10. ASSUME NEW w \in Workers, CacheSet(w) PROVE CountInv'
  <2>1. worker[w].pc = "set" /\ worker'[w].pc = "compute"
        /\ \A v \in Workers : v # w => worker'[v] = worker[v]
    BY <1>0, <1>10 DEF CacheSet, NextCombo, TypeOK, WorkerState
  <2> QED BY <1>0, <1>10, <2>1, NotCounted DEF CacheSet
<1>11. ASSUME NEW w \in Workers, Commit(w) PROVE CountInv'
  <2>1. worker'[w].pc = "done" /\ streak' = 0 /\ w \in Running
        /\ \A v \in Workers : v # w => worker'[v] = worker[v]
    BY <1>0, <1>11 DEF Commit, Leave, Idle, TypeOK, Running
  <2>2. \A v \in Workers : v # w => worker'[v].pc = "idle"
    BY <1>0, <2>1, OthersIdle
  <2> QED BY <2>1, <2>2, CountedAlone
<1>12. ASSUME NEW w \in Workers, CountSuccess(w) PROVE CountInv'
  <2>1. worker[w].pc = "done" /\ worker'[w].pc = "release" /\ w \in Running
        /\ \A v \in Workers : v # w => worker'[v] = worker[v]
    BY <1>0, <1>12 DEF CountSuccess, Goto, TypeOK, WorkerState, Running
  <2>2. \A v \in Workers : v # w => worker'[v].pc = "idle"
    BY <1>0, <2>1, OthersIdle
  <2>3. counter' = streak'
    BY <1>0, <1>12, <2>1 DEF CountSuccess, CountInv
  <2> QED BY <2>1, <2>2, <2>3, CountedAlone
<1>13. ASSUME NEW w \in Workers, CountFailure(w) PROVE CountInv'
  <2>1. worker[w].pc = "failed" /\ worker'[w].pc = "release" /\ w \in Running
        /\ \A v \in Workers : v # w => worker'[v] = worker[v]
    BY <1>0, <1>13 DEF CountFailure, Goto, TypeOK, WorkerState, Running
  <2>2. \A v \in Workers : v # w => worker'[v].pc = "idle"
    BY <1>0, <2>1, OthersIdle
  <2>3. counter' = streak'
    BY <1>0, <1>13, <2>1 DEF CountFailure, CountInv
  <2> QED BY <2>1, <2>2, <2>3, CountedAlone
<1>14. ASSUME NEW w \in Workers, Release(w) PROVE CountInv'
  <2>1. worker[w].pc = "release" /\ worker'[w].pc = "idle"
        /\ \A v \in Workers : v # w => worker'[v] = worker[v]
    BY <1>0, <1>14 DEF Release, Ack, Leave, Idle, TypeOK
  <2> QED BY <1>0, <1>14, <2>1, NotCounted DEF Release
<1>15. CASE \/ Trigger \/ LockExpires \/ NewCandle
            \/ \E s \in Strategies : CacheExpires(s)
            \/ UNCHANGED vars
  <2>1. UNCHANGED <<worker, counter, streak>>
    BY <1>15 DEF Trigger, LockExpires, NewCandle, CacheExpires, vars
  <2> QED BY <1>0, <2>1, NotCounted
<1>16. \/ \E w \in Workers : WorkerStep(w)
       \/ Trigger \/ LockExpires \/ NewCandle
       \/ \E s \in Strategies : CacheExpires(s)
       \/ UNCHANGED vars
  BY <1>0, CalmSteps
<1> QED BY <1>1, <1>2, <1>3, <1>4, <1>5, <1>6, <1>7, <1>8, <1>9, <1>10, <1>11, <1>12, <1>13,
           <1>14, <1>15, <1>16 DEF WorkerStep

(* For any number of workers, triggers and failed downloads: as long as no *)
(* step was disturbed, the counter that raises the alarm is the number of  *)
(* refreshes that failed in a row.                                         *)
THEOREM FailuresAreCounted == Spec => []FailuresCounted
<1>1. Init => CountInv
  BY DEF Init, CountInv, Idle
<1>2. CountInv => FailuresCounted
  BY DEF CountInv, FailuresCounted, Calm, Running
<1> QED BY <1>1, <1>2, RefreshInit, RefreshStep, CountStep, PTL DEF Spec

-----------------------------------------------------------------------------
(* The cached signals *)

\* What the table will hold stays the same while the row, its holder and the
\* holder's candles do.
LEMMA FinalKept ==
    ASSUME NEW c \in Combos, held'[c] = held[c], rows'[c] = rows[c],
           held[c] # None => worker'[held[c]].loaded[c[2]] = worker[held[c]].loaded[c[2]]
    PROVE  Final(c)' = Final(c)
BY DEF Final

\* A step of a worker that is not about to cache anything, before or after it.
LEMMA NotCached ==
    ASSUME TypeOK, ComboInv, CacheInv, Calm' => Calm, NEW w \in Workers,
           cache' = cache, ~Caching(w), worker'[w].pc \notin {"get", "set"},
           \A v \in Workers : v # w => worker'[v] = worker[v],
           \A c \in Combos : held'[c] = held[c] \/ held[c] = w,
           \A c \in Combos : Final(c)' = Final(c)
    PROVE  CacheInv'
<1> SUFFICES ASSUME Calm' PROVE CacheInv'
  BY DEF CacheInv
<1>1. ~Caching(w)'
  BY DEF Caching
<1>2. \A v \in Workers : v # w => (Caching(v)' <=> Caching(v)) /\ worker'[v] = worker[v]
  BY DEF Caching
<1>3. \A v \in Workers : Caching(v) => worker[v].combo \in Combos
  BY DEF ComboInv, Caching
<1>4. \A v \in Workers : Caching(v)' => held'[worker'[v].combo] = v
  BY <1>1, <1>2, <1>3 DEF CacheInv
<1>5. ASSUME NEW s \in Strategies, NEW p \in Pairs,
             \A v \in Workers : Caching(v)' => worker'[v].combo # <<s, p>>
      PROVE  cache'[s][p] \in {0, Final(<<s, p>>)'}
  <2>1. <<s, p>> \in Combos
    BY DEF Combos
  <2>2. \A v \in Workers : Caching(v) => worker[v].combo # <<s, p>>
    BY <1>2, <1>5
  <2>3. cache[s][p] \in {0, Final(<<s, p>>)}
    BY <2>2 DEF CacheInv
  <2>4. Final(<<s, p>>)' = Final(<<s, p>>)
    BY <2>1
  <2> QED BY <2>3, <2>4
<1>6. ASSUME NEW v \in Workers, NEW s \in Strategies, NEW p \in Pairs,
             worker'[v].pc = "set", worker'[v].combo[1] = s, worker'[v].combo[2] # p
      PROVE  worker'[v].seen[p] \in {0, Final(<<s, p>>)'}
  <2>1. v # w /\ worker'[v] = worker[v]
    BY <1>1, <1>2, <1>6
  <2>2. <<s, p>> \in Combos
    BY DEF Combos
  <2>3. worker[v].seen[p] \in {0, Final(<<s, p>>)}
    BY <1>6, <2>1 DEF CacheInv
  <2>4. Final(<<s, p>>)' = Final(<<s, p>>)
    BY <2>2
  <2> QED BY <2>1, <2>3, <2>4
<1> QED BY <1>4, <1>5, <1>6 DEF CacheInv

\* A step that leaves all workers alone.
LEMMA NobodyMoves ==
    ASSUME CacheInv, Calm' => Calm, UNCHANGED <<worker, held, rows>>,
           \A s \in Strategies, p \in Pairs : cache'[s][p] \in {0, cache[s][p]}
    PROVE  CacheInv'
<1>1. \A c : Final(c)' = Final(c)
  BY DEF Final
<1>2. \A w \in Workers : Caching(w)' <=> Caching(w)
  BY DEF Caching
<1> SUFFICES ASSUME Calm' PROVE CacheInv'
  BY DEF CacheInv
<1>3. \A w \in Workers : Caching(w)' => held'[worker'[w].combo] = w
  BY <1>2 DEF CacheInv
<1>4. ASSUME NEW s \in Strategies, NEW p \in Pairs,
             \A w \in Workers : Caching(w)' => worker'[w].combo # <<s, p>>
      PROVE  cache'[s][p] \in {0, Final(<<s, p>>)'}
  <2>1. cache[s][p] \in {0, Final(<<s, p>>)}
    BY <1>2, <1>4 DEF CacheInv
  <2> QED BY <1>1, <2>1
<1>5. ASSUME NEW w \in Workers, NEW s \in Strategies, NEW p \in Pairs,
             worker'[w].pc = "set", worker'[w].combo[1] = s, worker'[w].combo[2] # p
      PROVE  worker'[w].seen[p] \in {0, Final(<<s, p>>)'}
  <2>1. worker[w].seen[p] \in {0, Final(<<s, p>>)}
    BY <1>5 DEF CacheInv
  <2> QED BY <1>1, <2>1
<1> QED BY <1>3, <1>4, <1>5 DEF CacheInv

\* A refresh that writes a row, and is going to cache it.
LEMMA UpsertCached ==
    ASSUME RefreshInv, CacheInv, Alone, Calm, NEW w \in Workers, Upsert(w)
    PROVE  CacheInv'
<1> DEFINE c == worker[w].combo
<1>0. TypeOK /\ ComboInv
  BY DEF RefreshInv
<1>1. /\ worker[w].pc = "upsert" /\ c \in Combos /\ held[c] = None /\ w \in Running
      /\ held' = [held EXCEPT ![c] = w] /\ rows' = rows /\ cache' = cache
  BY <1>0 DEF Upsert, Waiting, ComboInv, Running
<1>2. /\ worker'[w].pc = "get" /\ worker'[w].combo = c
      /\ \A v \in Workers : worker'[v].loaded = worker[v].loaded
      /\ \A v \in Workers : v # w => worker'[v] = worker[v]
  BY <1>0 DEF Upsert, Goto, TypeOK, WorkerState
<1>3. \A v \in Workers : v # w => worker[v].pc = "idle" /\ worker'[v].pc = "idle"
  BY <1>0, <1>1, <1>2, OthersIdle
<1>4. \A d \in Combos : d # c => Final(d)' = Final(d)
  BY <1>0, <1>1, <1>2 DEF Final, TypeOK
<1>5. \A v \in Workers : ~Caching(v)
  BY <1>1, <1>3 DEF Caching
<1>6. Caching(w)' /\ \A v \in Workers : Caching(v)' => v = w
  BY <1>2, <1>3 DEF Caching
<1>7. held'[c] = w
  BY <1>0, <1>1 DEF TypeOK
<1>8. ASSUME NEW s \in Strategies, NEW p \in Pairs,
             \A v \in Workers : Caching(v)' => worker'[v].combo # <<s, p>>
      PROVE  cache'[s][p] \in {0, Final(<<s, p>>)'}
  <2>1. <<s, p>> \in Combos /\ <<s, p>> # c
    BY <1>2, <1>6, <1>8 DEF Combos
  <2>2. cache[s][p] \in {0, Final(<<s, p>>)}
    BY <1>5 DEF CacheInv
  <2>3. Final(<<s, p>>)' = Final(<<s, p>>)
    BY <1>4, <2>1
  <2> QED BY <1>1, <2>2, <2>3
<1>9. \A v \in Workers : worker'[v].pc # "set"
  BY <1>2, <1>3
<1> HIDE DEF c
<1> QED BY <1>2, <1>6, <1>7, <1>8, <1>9 DEF CacheInv

\* A refresh that reads the strategy's list.
LEMMA GetCached ==
    ASSUME RefreshInv, CacheInv, Alone, Calm, NEW w \in Workers, CacheGet(w)
    PROVE  CacheInv'
<1> DEFINE c == worker[w].combo
<1>0. TypeOK /\ ComboInv
  BY DEF RefreshInv
<1>1. /\ worker[w].pc = "get" /\ c \in Combos /\ w \in Running
      /\ held' = held /\ rows' = rows /\ cache' = cache /\ held[c] = w
  BY <1>0 DEF CacheGet, ComboInv, Running, database, CacheInv, Caching
<1>2. /\ worker'[w].pc = "set" /\ worker'[w].combo = c /\ worker'[w].seen = cache[c[1]]
      /\ \A v \in Workers : worker'[v].loaded = worker[v].loaded
      /\ \A v \in Workers : v # w => worker'[v] = worker[v]
  <2> DEFINE r == [worker[w] EXCEPT !.pc = "set", !.seen = cache[c[1]]]
  <2>1. worker[w] \in WorkerState
    BY <1>0 DEF TypeOK
  <2>2. r.pc = "set" /\ r.combo = c /\ r.seen = cache[c[1]] /\ r.loaded = worker[w].loaded
    BY <2>1 DEF WorkerState
  <2>3. worker' = [worker EXCEPT ![w] = r]
    BY DEF CacheGet
  <2> HIDE DEF r
  <2> QED BY <1>0, <2>2, <2>3 DEF TypeOK
<1>3. \A v \in Workers : v # w => worker[v].pc = "idle" /\ worker'[v].pc = "idle"
  BY <1>0, <1>1, <1>2, OthersIdle
<1>4. \A d \in Combos : Final(d)' = Final(d)
  BY <1>0, <1>1, <1>2 DEF Final, TypeOK
<1>5. /\ Caching(w) /\ Caching(w)'
      /\ \A v \in Workers : Caching(v) \/ Caching(v)' => v = w
  BY <1>1, <1>2, <1>3 DEF Caching
<1>6. ASSUME NEW s \in Strategies, NEW p \in Pairs, <<s, p>> # c
      PROVE  cache'[s][p] \in {0, Final(<<s, p>>)'}
  <2>1. <<s, p>> \in Combos
    BY DEF Combos
  <2>2. cache[s][p] \in {0, Final(<<s, p>>)}
    BY <1>5, <1>6 DEF CacheInv
  <2>3. Final(<<s, p>>)' = Final(<<s, p>>)
    BY <1>4, <2>1
  <2> QED BY <1>1, <2>2, <2>3
<1>7. \A v \in Workers : Caching(v)' => held'[worker'[v].combo] = v
  BY <1>1, <1>2, <1>5
<1>8. ASSUME NEW v \in Workers, NEW s \in Strategies, NEW p \in Pairs,
             worker'[v].pc = "set", worker'[v].combo[1] = s, worker'[v].combo[2] # p
      PROVE  worker'[v].seen[p] \in {0, Final(<<s, p>>)'}
  <2>1. v = w
    BY <1>3, <1>8
  <2>2. c[1] = s /\ <<s, p>> # c
    BY <1>2, <1>8, <2>1
  <2>3. worker'[v].seen[p] = cache[s][p]
    BY <1>2, <2>1, <2>2
  <2> QED BY <1>1, <1>6, <2>2, <2>3
<1>9. ASSUME NEW s \in Strategies, NEW p \in Pairs,
             \A v \in Workers : Caching(v)' => worker'[v].combo # <<s, p>>
      PROVE  cache'[s][p] \in {0, Final(<<s, p>>)'}
  BY <1>2, <1>5, <1>6, <1>9
<1> QED BY <1>7, <1>8, <1>9 DEF CacheInv

\* A refresh that writes the list back.
LEMMA SetCached ==
    ASSUME RefreshInv, CacheInv, Alone, Calm, NEW w \in Workers, CacheSet(w)
    PROVE  CacheInv'
<1> DEFINE c == worker[w].combo
<1>0. TypeOK /\ ComboInv
  BY DEF RefreshInv
<1>1. /\ worker[w].pc = "set" /\ c \in Combos /\ w \in Running
      /\ held' = held /\ rows' = rows /\ held[c] = w
      /\ c[1] \in Strategies /\ c[2] \in Pairs
  BY <1>0, ComboParts DEF CacheSet, ComboInv, Running, database, CacheInv, Caching
<1>2. /\ worker'[w].pc = "compute"
      /\ \A v \in Workers : worker'[v].loaded = worker[v].loaded
      /\ \A v \in Workers : v # w => worker'[v] = worker[v]
  <2> DEFINE r == [worker[w] EXCEPT !.pc = "compute", !.combo = None, !.seen = Nothing]
  <2>1. worker[w] \in WorkerState
    BY <1>0 DEF TypeOK
  <2>2. r.pc = "compute" /\ r.loaded = worker[w].loaded
    BY <2>1 DEF WorkerState
  <2>3. worker' = [worker EXCEPT ![w] = r]
    BY DEF CacheSet, NextCombo
  <2> HIDE DEF r
  <2> QED BY <1>0, <2>2, <2>3 DEF TypeOK
<1>3. \A v \in Workers : v # w => worker[v].pc = "idle" /\ worker'[v].pc = "idle"
  BY <1>0, <1>1, <1>2, OthersIdle
<1>4. \A d \in Combos : Final(d)' = Final(d)
  BY <1>0, <1>1, <1>2 DEF Final, TypeOK
<1>5. \A v \in Workers : Caching(v) => v = w
  BY <1>3 DEF Caching
<1>6. \A v \in Workers : ~Caching(v)' /\ worker'[v].pc # "set"
  BY <1>2, <1>3 DEF Caching
<1>7. /\ \A s \in Strategies : s # c[1] => cache'[s] = cache[s]
      /\ \A p \in Pairs : p # c[2] => cache'[c[1]][p] = worker[w].seen[p]
      /\ cache'[c[1]][c[2]] = worker[w].loaded[c[2]]
  <2>1. worker[w].seen \in [Pairs -> Versions] /\ cache \in [Strategies -> [Pairs -> Versions]]
    BY <1>0 DEF TypeOK, WorkerState
  <2> QED BY <1>1, <2>1 DEF CacheSet
<1>8. ASSUME NEW s \in Strategies, NEW p \in Pairs
      PROVE  cache'[s][p] \in {0, Final(<<s, p>>)'}
  <2>1. <<s, p>> \in Combos
    BY DEF Combos
  <2>2. cache'[s][p] \in {0, Final(<<s, p>>)}
    <3>1. CASE s # c[1]
      <4>1. \A v \in Workers : Caching(v) => worker[v].combo # <<s, p>>
        BY <1>5, <3>1
      <4> QED BY <1>7, <3>1, <4>1 DEF CacheInv
    <3>2. CASE s = c[1] /\ p # c[2]
      BY <1>1, <1>7, <3>2 DEF CacheInv
    <3>3. CASE s = c[1] /\ p = c[2]
      <4>1. <<s, p>> = c /\ w # None
        BY <1>1, <3>3, ConstantsAssumption DEF Combos
      <4>2. Final(c) = worker[w].loaded[c[2]]
        BY <1>1, <4>1 DEF Final
      <4> QED BY <1>7, <3>3, <4>1, <4>2
    <3> QED BY <3>1, <3>2, <3>3
  <2> QED BY <1>4, <2>1, <2>2
<1> QED BY <1>6, <1>8 DEF CacheInv

LEMMA CacheStep == RefreshInv /\ CacheInv /\ [Next]_vars => CacheInv'
<1> SUFFICES ASSUME RefreshInv, CacheInv, [Next]_vars, Calm'
             PROVE  CacheInv'
  BY DEF CacheInv
<1>0. Calm /\ TypeOK /\ ComboInv /\ HeldInv /\ Alone
  BY CalmSteps, OneAtATime DEF RefreshInv, Calm
<1>1. ASSUME NEW w \in Workers, NEW pc \in PCs \ {"get", "set"}, Goto(w, pc), ~Caching(w),
             UNCHANGED <<cache, held, rows>>
      PROVE  CacheInv'
  <2>1. /\ worker'[w].pc \notin {"get", "set"}
        /\ \A v \in Workers : worker'[v].loaded = worker[v].loaded
        /\ \A v \in Workers : v # w => worker'[v] = worker[v]
    BY <1>0, <1>1 DEF Goto, TypeOK, WorkerState
  <2>2. \A c \in Combos : Final(c)' = Final(c)
    BY <1>0, <1>1, <2>1 DEF Final, TypeOK
  <2> QED BY <1>0, <1>1, <2>1, <2>2, NotCached
<1>2. ASSUME NEW w \in Workers, NEW pc \in PCs \ {"get", "set"}, Leave(w, pc),
             worker[w].pc \notin Computing, UNCHANGED <<cache, held, rows>>
      PROVE  CacheInv'
  <2>1. /\ worker'[w].pc \notin {"get", "set"} /\ ~Caching(w)
        /\ \A v \in Workers : v # w => worker'[v] = worker[v]
    BY <1>0, <1>2 DEF Leave, Idle, TypeOK, Caching, Computing
  <2>2. \A c \in Combos : held[c] # w
    BY <1>0, <1>2 DEF HeldInv
  <2>3. \A c \in Combos : Final(c)' = Final(c)
    BY <1>0, <1>2, <2>1, <2>2 DEF Final, TypeOK
  <2> QED BY <1>0, <1>2, <2>1, <2>3, NotCached
<1>3. ASSUME NEW w \in Workers, Plan(w) PROVE CacheInv'
  <2>1. /\ worker'[w].pc \notin {"get", "set"} /\ ~Caching(w)
        /\ worker'[w].loaded = worker[w].loaded
        /\ \A v \in Workers : v # w => worker'[v] = worker[v]
    BY <1>0, <1>3 DEF Plan, TypeOK, WorkerState, Caching
  <2>2. UNCHANGED <<cache, held, rows>>
    BY <1>3 DEF Plan, database
  <2>3. \A c \in Combos : Final(c)' = Final(c)
    BY <1>0, <2>1, <2>2 DEF Final, TypeOK
  <2> QED BY <1>0, <2>1, <2>2, <2>3, NotCached
<1>4. ASSUME NEW w \in Workers, Download(w) PROVE CacheInv'
  <2>1. worker[w].pc = "download" /\ UNCHANGED <<cache, held, rows>>
    BY <1>4 DEF Download, database
  <2>2. CASE worker' = [worker EXCEPT ![w].pc = "compute", ![w].stale = {}]
    <3>1. /\ worker'[w].pc \notin {"get", "set"} /\ ~Caching(w)
          /\ worker'[w].loaded = worker[w].loaded
          /\ \A v \in Workers : v # w => worker'[v] = worker[v]
      BY <1>0, <2>1, <2>2 DEF TypeOK, WorkerState, Caching
    <3>2. \A c \in Combos : Final(c)' = Final(c)
      BY <1>0, <2>1, <3>1 DEF Final, TypeOK
    <3> QED BY <1>0, <2>1, <3>1, <3>2, NotCached
  <2>3. CASE Leave(w, "failed")
    BY <1>2, <2>1, <2>3 DEF PCs, Computing
  <2> QED BY <1>4, <2>2, <2>3 DEF Download
<1>5. ASSUME NEW w \in Workers, NEW c \in worker[w].todo, worker[w].pc = "compute",
             worker'[w].pc \in {"compute", "upsert"},
             \A v \in Workers : v # w => worker'[v] = worker[v],
             \A p \in Pairs : p # c[2] => worker'[w].loaded[p] = worker[w].loaded[p],
             worker'[w].loaded[c[2]] \in {worker[w].loaded[c[2]], Loaded(w, c[2])},
             UNCHANGED <<cache, held, rows>>
      PROVE  CacheInv'
  <2>1. \A p \in Pairs : worker[w].loaded[p] # 0 =>
          worker'[w].loaded[p] = worker[w].loaded[p]
    BY <1>5 DEF Loaded
  <2>2. \A d \in Combos : held[d] = w => worker[w].loaded[d[2]] # 0 /\ d[2] \in Pairs
    BY <1>0, ComboParts DEF HeldInv
  <2>3. \A d \in Combos : Final(d)' = Final(d)
    BY <1>0, <1>5, <2>1, <2>2 DEF Final, TypeOK
  <2>4. ~Caching(w)
    BY <1>5 DEF Caching
  <2> QED BY <1>0, <1>5, <2>3, <2>4, NotCached
<1>6. ASSUME NEW w \in Workers, Compute(w) PROVE CacheInv'
  <2>1. PICK c \in worker[w].todo : worker' = [worker EXCEPT
             ![w].pc = "upsert", ![w].combo = c, ![w].todo = worker[w].todo \ {c},
             ![w].loaded[c[2]] = Loaded(w, c[2])]
    BY <1>6 DEF Compute
  <2>2. worker[w] \in WorkerState /\ c[2] \in Pairs
    BY <1>0, ComboParts DEF TypeOK, WorkerState
  <2>3. /\ worker'[w].pc = "upsert" /\ worker'[w].loaded[c[2]] = Loaded(w, c[2])
        /\ \A p \in Pairs : p # c[2] => worker'[w].loaded[p] = worker[w].loaded[p]
        /\ \A v \in Workers : v # w => worker'[v] = worker[v]
    BY <1>0, <2>1, <2>2 DEF TypeOK, WorkerState
  <2>4. worker[w].pc = "compute" /\ UNCHANGED <<cache, held, rows>>
    BY <1>6 DEF Compute, database
  <2> QED BY <1>5, <2>3, <2>4
<1>7. ASSUME NEW w \in Workers, SkipCombo(w) PROVE CacheInv'
  <2>1. PICK c \in worker[w].todo : \E v \in {worker[w].loaded[c[2]], Loaded(w, c[2])} :
           worker' = [worker EXCEPT ![w].todo = worker[w].todo \ {c}, ![w].loaded[c[2]] = v]
    BY <1>7 DEF SkipCombo
  <2>2. worker[w] \in WorkerState /\ c[2] \in Pairs
    BY <1>0, ComboParts DEF TypeOK, WorkerState
  <2>3. worker[w].pc = "compute" /\ UNCHANGED <<cache, held, rows>>
    BY <1>7 DEF SkipCombo, database
  <2>4. /\ worker'[w].pc = "compute"
        /\ worker'[w].loaded[c[2]] \in {worker[w].loaded[c[2]], Loaded(w, c[2])}
        /\ \A p \in Pairs : p # c[2] => worker'[w].loaded[p] = worker[w].loaded[p]
        /\ \A v \in Workers : v # w => worker'[v] = worker[v]
    BY <1>0, <2>1, <2>2, <2>3 DEF TypeOK, WorkerState
  <2> QED BY <1>5, <2>3, <2>4
<1>8. ASSUME NEW w \in Workers, DeadlockVictim(w) PROVE CacheInv'
  <2> DEFINE r == [worker[w] EXCEPT !.pc = "compute", !.combo = None, !.seen = Nothing]
  <2>1. worker[w] \in WorkerState
    BY <1>0 DEF TypeOK
  <2>2. r.pc = "compute" /\ r.loaded = worker[w].loaded
    BY <2>1 DEF WorkerState
  <2>3. worker' = [worker EXCEPT ![w] = r]
    BY <1>8 DEF DeadlockVictim, NextCombo
  <2> HIDE DEF r
  <2>4. /\ worker'[w].pc = "compute" /\ worker'[w].loaded = worker[w].loaded
        /\ \A v \in Workers : v # w => worker'[v] = worker[v]
    BY <1>0, <2>2, <2>3 DEF TypeOK
  <2>5. ~Caching(w) /\ UNCHANGED <<cache, held, rows>>
    BY <1>8 DEF DeadlockVictim, Deadlocked, Waiting, Caching, database
  <2>6. \A c \in Combos : Final(c)' = Final(c)
    BY <1>0, <2>4, <2>5 DEF Final, TypeOK
  <2> QED BY <1>0, <2>4, <2>5, <2>6, NotCached
<1>9. ASSUME NEW w \in Workers, Commit(w) PROVE CacheInv'
  <2>1. /\ worker[w].pc = "compute" /\ w \in Running /\ cache' = cache
        /\ worker'[w].pc = "done"
        /\ \A v \in Workers : v # w => worker'[v] = worker[v]
    BY <1>0, <1>9 DEF Commit, Leave, Idle, TypeOK, Running
  <2>2. \A c \in Combos : held[c] \in {None, w}
    <3> SUFFICES ASSUME NEW c \in Combos, NEW v \in Workers, held[c] = v PROVE v = w
      BY <1>0 DEF TypeOK
    <3>1. v \in Running
      BY <1>0 DEF HeldInv, Computing, Running
    <3> QED BY <1>0, <2>1, <3>1 DEF Alone
  <2>3. \A c \in Combos : held'[c] = None
    BY <1>9, <2>2 DEF Commit, ReleaseRows
  <2>4. \A c \in Combos : rows'[c] = Final(c)
    BY <1>9, <2>2, ConstantsAssumption DEF Commit, Final
  <2>5. \A c \in Combos : Final(c)' = Final(c)
    BY <2>3, <2>4 DEF Final
  <2>6. \A c \in Combos : held'[c] = held[c] \/ held[c] = w
    BY <2>2, <2>3
  <2>7. ~Caching(w)
    BY <2>1 DEF Caching
  <2> QED BY <1>0, <2>1, <2>5, <2>6, <2>7, NotCached
<1>10. ASSUME NEW w \in Workers,
              Acquire(w) \/ CountSuccess(w) \/ CountFailure(w)
       PROVE  CacheInv'
  <2>1. (Goto(w, "plan") \/ Goto(w, "release")) /\ ~Caching(w) /\ UNCHANGED <<cache, held, rows>>
    BY <1>10 DEF Acquire, CountSuccess, CountFailure, Caching, database
  <2> QED BY <1>1, <2>1 DEF PCs
<1>11. ASSUME NEW w \in Workers, Release(w) PROVE CacheInv'
  <2>1. Leave(w, "idle") /\ worker[w].pc \notin Computing /\ UNCHANGED <<cache, held, rows>>
    BY <1>11 DEF Release, Ack, Computing, database
  <2> QED BY <1>2, <2>1 DEF PCs
<1>12. ASSUME NEW w \in Workers, Upsert(w) \/ CacheGet(w) \/ CacheSet(w) PROVE CacheInv'
  BY <1>0, <1>12, UpsertCached, GetCached, SetCached
<1>13. CASE \/ \E w \in Workers : Skip(w)
            \/ Trigger \/ LockExpires \/ NewCandle \/ UNCHANGED vars
  <2>1. UNCHANGED <<worker, held, rows, cache>>
    BY <1>13 DEF Skip, Trigger, LockExpires, NewCandle, vars, database
  <2> QED BY <1>0, <2>1, NobodyMoves
<1>14. ASSUME NEW s \in Strategies, CacheExpires(s) PROVE CacheInv'
  <2>1. UNCHANGED <<worker, held, rows>>
    BY <1>14 DEF CacheExpires, database
  <2>2. \A t \in Strategies, p \in Pairs : cache'[t][p] \in {0, cache[t][p]}
    BY <1>0, <1>14 DEF CacheExpires, Nothing, TypeOK
  <2> QED BY <1>0, <2>1, <2>2, NobodyMoves
<1>15. \/ \E w \in Workers : WorkerStep(w)
       \/ Trigger \/ LockExpires \/ NewCandle
       \/ \E s \in Strategies : CacheExpires(s)
       \/ UNCHANGED vars
  BY <1>0, CalmSteps
<1> QED BY <1>3, <1>4, <1>6, <1>7, <1>8, <1>9, <1>10, <1>11, <1>12, <1>13, <1>14, <1>15
        DEF WorkerStep

(* For any strategies, pairs and number of refreshes: when none was        *)
(* disturbed and none is running, a cached signal is the one in the table. *)
THEOREM CacheFollowsRows == Spec => []CacheMatchesRows
<1>1. Init => CacheInv
  BY DEF Init, CacheInv, Caching, Idle, Nothing
<1>2. RefreshInv /\ CacheInv => CacheMatchesRows
  <2> SUFFICES ASSUME RefreshInv, CacheInv, Running = {}, Calm,
                      NEW s \in Strategies, NEW p \in Pairs
               PROVE  cache[s][p] \in {0, rows[<<s, p>>]}
    BY DEF CacheMatchesRows, Calm
  <2>1. \A w \in Workers : worker[w].pc = "idle"
    BY DEF Running
  <2>2. <<s, p>> \in Combos
    BY DEF Combos
  <2>3. held[<<s, p>>] = None
    BY <2>1, <2>2 DEF RefreshInv, HeldInv, Computing, TypeOK
  <2>4. cache[s][p] \in {0, Final(<<s, p>>)}
    BY <2>1 DEF CacheInv, Caching
  <2> QED BY <2>3, <2>4 DEF Final
<1> QED BY <1>1, <1>2, RefreshInit, RefreshStep, CacheStep, PTL DEF Spec
=============================================================================
