---------------------------- MODULE TrialsProofs ----------------------------
(***************************************************************************)
(* Theorems about Trials, for any threads, visitors, addresses, limit,     *)
(* window and lifetime of a trial, and any budget of faults.               *)
(***************************************************************************)
EXTENDS Trials, FiniteSetTheorems, TLAPS

\* The threads' records stay in their type when a thread moves or returns.
LEMMA GotoType ==
    ASSUME thread \in [Threads -> ThreadState], NEW t \in Threads,
           NEW pc \in {"idle", "count", "create", "reread", "charge"}, Goto(t, pc)
    PROVE  thread' \in [Threads -> ThreadState]
<1> DEFINE r == [thread[t] EXCEPT !.pc = pc]
<1>1. r \in ThreadState
  BY DEF ThreadState
<1>2. thread' = [thread EXCEPT ![t] = r]
  BY DEF Goto
<1> QED BY <1>1, <1>2

\* The same, of a thread that returns.
LEMMA ReturnType ==
    ASSUME thread \in [Threads -> ThreadState], NEW t \in Threads, Return(t)
    PROVE  thread' \in [Threads -> ThreadState]
BY DEF Return, Idle, ThreadState

\* The same, of a thread that is let in.
LEMMA AdmitType ==
    ASSUME thread \in [Threads -> ThreadState], NEW t \in Threads, NEW n \in Nat,
           thread' = [thread EXCEPT ![t].pc = "create", ![t].now = n]
    PROVE  thread' \in [Threads -> ThreadState]
<1> DEFINE r == [thread[t] EXCEPT !.pc = "create", !.now = n]
<1>1. r \in ThreadState
  BY DEF ThreadState
<1>2. thread' = [thread EXCEPT ![t] = r]
  OBVIOUS
<1> QED BY <1>1, <1>2

\* A trial that is stored, and an address that is counted, have their types.
LEMMA StoreType ==
    ASSUME TypeOK, NEW t \in Threads, thread[t].pc # "idle", StoreTrial(t)
    PROVE  trial' \in [Visitors -> Trial]
<1> DEFINE r == [at |-> thread[t].now, until |-> clock + TrialTime, ip |-> thread[t].ip]
<1>1. clock \in Nat /\ thread[t].now \in Nat /\ thread[t].ip \in Addresses
  BY ConstantsAssumption DEF TypeOK, ThreadState
<1>2. r \in Trial
  BY <1>1, ConstantsAssumption DEF Trial
<1>3. trial' = [trial EXCEPT ![thread[t].visitor] = r]
  BY DEF StoreTrial
<1> QED BY <1>2, <1>3 DEF TypeOK

\* The same, of the count of an address.
LEMMA CountType ==
    ASSUME TypeOK, NEW t \in Threads, thread[t].pc # "idle", CountHit(t)
    PROVE  hits' \in [Addresses -> Count]
<1> DEFINE r == [n |-> Hits(thread[t].ip) + 1, until |-> clock + Window]
<1>1. clock \in Nat /\ thread[t].ip \in Addresses
  BY ConstantsAssumption DEF TypeOK
<1>2. Hits(thread[t].ip) \in Nat
  BY <1>1 DEF TypeOK, Hits, Count
<1>3. r \in Count
  BY <1>1, <1>2, ConstantsAssumption DEF Count
<1>4. hits' = [hits EXCEPT ![thread[t].ip] = r]
  BY DEF CountHit
<1> QED BY <1>3, <1>4 DEF TypeOK

\* A thread at work has a visitor and an address.
Busy == \A t \in Threads : thread[t].pc # "idle" =>
            thread[t].visitor \in Visitors /\ thread[t].ip \in Addresses

\* Whoever goes on with a request keeps its visitor and address.
LEMMA GotoBusy ==
    ASSUME TypeOK, NEW t \in Threads, thread[t].pc # "idle",
           NEW pc \in {"idle", "count", "create", "reread", "charge"}, Goto(t, pc)
    PROVE  Busy'
BY DEF Goto, TypeOK, ThreadState, Busy

\* Whoever returns has none.
LEMMA ReturnBusy ==
    ASSUME TypeOK, NEW t \in Threads, Return(t)
    PROVE  Busy'
BY DEF Return, Idle, TypeOK, Busy

\* The types hold at the start.
LEMMA TypeInit == Init => TypeOK
BY ConstantsAssumption DEF Init, TypeOK, Idle, Trial, Count, ThreadState

\* Every step keeps the types.
LEMMA TypeStep == TypeOK /\ [Next]_vars => TypeOK'
<1> SUFFICES ASSUME TypeOK, [Next]_vars PROVE TypeOK'
  OBVIOUS
<1>0. thread \in [Threads -> ThreadState]
  BY DEF TypeOK
<1>1. ASSUME NEW t \in Threads, Lookup(t) PROVE TypeOK'
  <2>1. PICK v \in Visitors, a \in Addresses : thread' = [thread EXCEPT ![t] =
          [pc |-> "count", visitor |-> v, ip |-> a, now |-> 0]]
    BY <1>1 DEF Lookup
  <2>2. thread' \in [Threads -> ThreadState]
    BY <1>0, <2>1 DEF ThreadState
  <2>3. Busy'
    BY <2>1 DEF TypeOK, Busy
  <2> QED BY <1>1, <2>2, <2>3 DEF Lookup, TypeOK, Busy
<1>2. ASSUME NEW t \in Threads, Refuse(t) PROVE TypeOK'
  BY <1>2, <1>0, ReturnType, ReturnBusy DEF Refuse, TypeOK, Busy
<1>3. ASSUME NEW t \in Threads, Admit(t) PROVE TypeOK'
  <2>0. clock \in Nat
    BY ConstantsAssumption DEF TypeOK
  <2>1. thread' \in [Threads -> ThreadState]
    BY <1>3, <1>0, <2>0, AdmitType DEF Admit
  <2>2. Busy'
    BY <1>3 DEF Admit, TypeOK, ThreadState, Busy
  <2> QED BY <1>3, <2>1, <2>2 DEF Admit, TypeOK, Busy
<1>4. ASSUME NEW t \in Threads, Create(t) PROVE TypeOK'
  <2>1. thread' \in [Threads -> ThreadState] /\ Busy'
    BY <1>4, <1>0, GotoType, GotoBusy DEF Create
  <2>2. trial' \in [Visitors -> Trial]
    BY <1>4, StoreType DEF Create
  <2> QED BY <1>4, <2>1, <2>2 DEF Create, TypeOK, Busy
<1>5. ASSUME NEW t \in Threads, CreatedByOther(t) PROVE TypeOK'
  BY <1>5, <1>0, GotoType, GotoBusy DEF CreatedByOther, TypeOK, Busy
<1>6. ASSUME NEW t \in Threads, Reread(t) PROVE TypeOK'
  BY <1>6, <1>0, ReturnType, ReturnBusy DEF Reread, TypeOK, Busy
<1>7. ASSUME NEW t \in Threads, RereadNothing(t) PROVE TypeOK'
  BY <1>7, <1>0, GotoType, GotoBusy DEF RereadNothing, TypeOK, Busy
<1>8. ASSUME NEW t \in Threads, Charge(t) PROVE TypeOK'
  <2>1. thread' \in [Threads -> ThreadState] /\ Busy'
    BY <1>8, <1>0, ReturnType, ReturnBusy DEF Charge
  <2>2. hits' \in [Addresses -> Count]
    BY <1>8, CountType DEF Charge
  <2> QED BY <1>8, <2>1, <2>2 DEF Charge, TypeOK, Busy
<1>9. ASSUME NEW t \in Threads, Fail(t) PROVE TypeOK'
  <2>1. thread' \in [Threads -> ThreadState] /\ Busy'
    BY <1>9, <1>0, ReturnType, ReturnBusy DEF Fail
  <2>2. faults' \in 0..MaxFaults
    BY <1>9, ConstantsAssumption DEF Fail, Fault, TypeOK
  <2>3. uncounted' \subseteq Visitors
    BY <1>9 DEF Fail, TypeOK
  <2> QED BY <1>9, <2>1, <2>2, <2>3 DEF Fail, TypeOK, Busy
<1>10. ASSUME NEW t \in Threads, ReplyLost(t) PROVE TypeOK'
  <2>1. thread' \in [Threads -> ThreadState] /\ Busy'
    <3>1. CASE Return(t)
      BY <3>1, <1>0, ReturnType, ReturnBusy
    <3>2. CASE UNCHANGED thread
      BY <3>2 DEF TypeOK, Busy
    <3> QED BY <1>10, <3>1, <3>2 DEF ReplyLost
  <2>2. faults' \in 0..MaxFaults
    BY <1>10, ConstantsAssumption DEF ReplyLost, Fault, TypeOK
  <2>3. trial' \in [Visitors -> Trial] /\ hits' \in [Addresses -> Count]
    BY <1>10, StoreType, CountType DEF ReplyLost, TypeOK
  <2>4. uncounted' \subseteq Visitors
    BY <1>10 DEF ReplyLost, TypeOK
  <2> QED BY <1>10, <2>1, <2>2, <2>3, <2>4 DEF ReplyLost, TypeOK, Busy
<1>11. CASE Tick
  BY <1>11, ConstantsAssumption DEF Tick, TypeOK
<1>12. CASE UNCHANGED vars
  BY <1>12 DEF vars, TypeOK
<1> QED BY <1>1, <1>2, <1>3, <1>4, <1>5, <1>6, <1>7, <1>8, <1>9, <1>10, <1>11, <1>12
        DEF Next

\* For any instance: the state stays in its types (init_trial).
THEOREM TypeCorrect == Spec => []TypeOK
BY TypeInit, TypeStep, PTL DEF Spec

----------------------------------------------------------------------------
(* A trial is not reset *)

\* For any instance: a trial that has not expired stays as it is, whoever asks
\* for it at the same time (SET NX in init_trial).
THEOREM TrialsAreKept == Spec => TrialNeverReset
<1>1. TypeOK /\ [Next]_vars => [\A v \in Visitors : HasTrial(v) => trial'[v] = trial[v]]_vars
  <2> SUFFICES ASSUME TypeOK, Next, NEW v \in Visitors, HasTrial(v)
               PROVE  trial'[v] = trial[v]
    OBVIOUS
  <2>1. CASE \E t \in Threads : StoreTrial(t)
    BY <2>1 DEF StoreTrial, TypeOK
  <2>2. CASE UNCHANGED trial
    BY <2>2
  <2> QED BY <2>1, <2>2 DEF Next, Lookup, Refuse, Admit, Create, CreatedByOther, Reread,
          RereadNothing, Charge, Fail, ReplyLost, Tick
<1> QED BY <1>1, TypeCorrect, PTL DEF Spec, TrialNeverReset

----------------------------------------------------------------------------
(* The trials of an address are bounded                                     *)
(*                                                                          *)
(* A recent trial of an address is counted (its thread is done with it and  *)
(* the count's key still lives), about to be counted, or lost to a fault.   *)
(* The counted ones are never more than the count, and a thread goes from   *)
(* being let in to counting its trial, one for one.                         *)

\* Threads that were let in and have not counted their trial, and the visitors
\* whose trial is about to be counted.
InFlight(a) == {t \in Threads :
                    thread[t].pc \in {"create", "reread", "charge"} /\ thread[t].ip = a}
Charging(a) == {t \in Threads : thread[t].pc = "charge" /\ thread[t].ip = a}
Pending(a) == {thread[t].visitor : t \in Charging(a)}

\* Trials that nothing keeps from being counted, and the recent ones of them.
Settled(a) == {v \in Visitors : trial[v].ip = a /\ v \notin uncounted /\ v \notin Pending(a)}
Counted(a) == Settled(a) \cap Recent(a)

PastInv == /\ \A v \in Visitors : trial[v].at <= clock
           /\ \A t \in Threads : thread[t].now <= clock
WindowInv == \A a \in Addresses : \A v \in Settled(a) : trial[v].at + Window <= hits[a].until
HitsInv == \A a \in Addresses : Cardinality(Counted(a)) <= Hits(a)
LimitInv == \A a \in Addresses :
                Cardinality(Counted(a)) + Cardinality(InFlight(a)) + 1
                    <= Limit + Cardinality(Threads)
FaultInv == Cardinality(uncounted) <= faults

IInv == TypeOK /\ PastInv /\ WindowInv /\ HitsInv /\ LimitInv /\ FaultInv

\* Every set that is counted is finite.
LEMMA Finite ==
    ASSUME TypeOK, NEW a \in Addresses
    PROVE  /\ IsFiniteSet(uncounted) /\ Cardinality(uncounted) \in Nat
           /\ IsFiniteSet(Counted(a)) /\ Cardinality(Counted(a)) \in Nat
           /\ IsFiniteSet(InFlight(a)) /\ Cardinality(InFlight(a)) \in Nat
           /\ Cardinality(Threads) \in Nat
<1>1. uncounted \subseteq Visitors /\ Counted(a) \subseteq Visitors /\ InFlight(a) \subseteq Threads
  BY DEF TypeOK, Counted, Settled, InFlight
<1>2. IsFiniteSet(uncounted) /\ IsFiniteSet(Counted(a)) /\ IsFiniteSet(InFlight(a))
  BY <1>1, FS_Subset, ConstantsAssumption
<1> QED BY <1>2, FS_CardinalityType, ConstantsAssumption

\* The visitors about to be counted are no more than the threads about to count.
LEMMA PendingBound ==
    ASSUME TypeOK, NEW a \in Addresses
    PROVE  IsFiniteSet(Pending(a)) /\ Cardinality(Pending(a)) <= Cardinality(InFlight(a))
           /\ Cardinality(Pending(a)) \in Nat
<1> DEFINE f == [t \in Charging(a) |-> thread[t].visitor]
<1>1. Charging(a) \subseteq InFlight(a) /\ IsFiniteSet(InFlight(a))
  BY Finite DEF Charging, InFlight
<1>2. IsFiniteSet(Charging(a)) /\ Cardinality(Charging(a)) <= Cardinality(InFlight(a))
  BY <1>1, FS_Subset
<1>3. f \in Surjection(Charging(a), Pending(a))
  BY DEF Pending, Surjection
<1>4. IsFiniteSet(Pending(a)) /\ Cardinality(Pending(a)) <= Cardinality(Charging(a))
  BY <1>2, <1>3, FS_Surjection
<1>5. Cardinality(Pending(a)) \in Nat /\ Cardinality(Charging(a)) \in Nat
        /\ Cardinality(InFlight(a)) \in Nat
  BY <1>1, <1>2, <1>4, FS_CardinalityType
<1> QED BY <1>2, <1>4, <1>5

\* What the invariant is for: the bound on the recent trials.
LEMMA InvBounds == IInv => TrialsBounded
<1> SUFFICES ASSUME IInv, NEW a \in Addresses
             PROVE  Cardinality(Recent(a)) + 1 <= Limit + Cardinality(Threads) + faults
  BY DEF TrialsBounded
<1> DEFINE A == Counted(a) \cup Pending(a)
<1>0. TypeOK
  BY DEF IInv
<1>1. Recent(a) \subseteq A \cup uncounted
  BY DEF Recent, Counted, Settled
<1>2. IsFiniteSet(Counted(a)) /\ IsFiniteSet(Pending(a)) /\ IsFiniteSet(uncounted)
  BY <1>0, Finite, PendingBound
<1>3. IsFiniteSet(A) /\ IsFiniteSet(A \cup uncounted)
  BY <1>2, FS_Union
<1>4. Cardinality(A) <= Cardinality(Counted(a)) + Cardinality(Pending(a))
  <2>1. Cardinality(A) = Cardinality(Counted(a)) + Cardinality(Pending(a))
                            - Cardinality(Counted(a) \cap Pending(a))
    BY <1>2, FS_Union
  <2>2. Cardinality(Counted(a) \cap Pending(a)) \in Nat
    BY <1>2, FS_Intersection, FS_CardinalityType
  <2> QED BY <2>1, <2>2, <1>2, FS_CardinalityType
<1>5. Cardinality(A \cup uncounted) <= Cardinality(A) + Cardinality(uncounted)
  <2> HIDE DEF A
  <2>1. Cardinality(A \cup uncounted) = Cardinality(A) + Cardinality(uncounted)
                            - Cardinality(A \cap uncounted)
    BY <1>2, <1>3, FS_Union
  <2>2. Cardinality(A \cap uncounted) \in Nat
    BY <1>2, <1>3, FS_Intersection, FS_CardinalityType
  <2> QED BY <2>1, <2>2, <1>2, <1>3, FS_CardinalityType
<1>6. Cardinality(Recent(a)) <= Cardinality(A \cup uncounted)
  BY <1>1, <1>3, FS_Subset
<1>7. /\ Cardinality(Counted(a)) + Cardinality(InFlight(a)) + 1 <= Limit + Cardinality(Threads)
      /\ Cardinality(uncounted) <= faults
  BY DEF IInv, LimitInv, FaultInv
<1>8. Cardinality(Pending(a)) <= Cardinality(InFlight(a)) /\ Cardinality(Pending(a)) \in Nat
  BY <1>0, PendingBound
<1>9. /\ Cardinality(Recent(a)) \in Nat /\ Cardinality(A) \in Nat
      /\ Cardinality(A \cup uncounted) \in Nat
  BY <1>1, <1>3, FS_Subset, FS_CardinalityType
<1>10. faults \in Nat /\ Limit \in Nat
  BY <1>0, ConstantsAssumption DEF TypeOK
<1> HIDE DEF A
<1> QED BY <1>4, <1>5, <1>6, <1>7, <1>8, <1>9, <1>10, <1>0, Finite

\* It holds at the start: there is nothing to count.
LEMMA InvInit == Init => IInv
<1> SUFFICES ASSUME Init PROVE IInv
  OBVIOUS
<1>1. TypeOK
  BY TypeInit
<1>2. \A a \in Addresses : Settled(a) = {} /\ Counted(a) = {} /\ InFlight(a) = {}
  BY ConstantsAssumption DEF Init, Settled, Counted, InFlight, Idle
<1>3. Cardinality({}) = 0 /\ Cardinality(Threads) \in Nat
  BY FS_EmptySet, FS_CardinalityType, ConstantsAssumption
<1>4. PastInv
  BY DEF Init, PastInv, Idle
<1>5. WindowInv
  BY <1>2 DEF WindowInv
<1>6. HitsInv
  BY <1>2, <1>3 DEF HitsInv, Hits, Init
<1>7. LimitInv
  BY <1>2, <1>3, ConstantsAssumption DEF LimitInv
<1>8. FaultInv
  BY <1>3 DEF FaultInv, Init
<1> QED BY <1>1, <1>4, <1>5, <1>6, <1>7, <1>8 DEF IInv
----------------------------------------------------------------------------
(* The steps                                                                *)

\* The step in which a thread counts its trial and is done with it.
Charged(t) ==
    /\ thread[t].pc = "charge"
    /\ CountHit(t)
    /\ Return(t)
    /\ UNCHANGED <<clock, trial, uncounted>>

\* In every other step no trial becomes settled.
Keeps(a) == \A v \in Settled(a)' : v \in Settled(a) /\ trial'[v] = trial[v]

\* What a step leaves at its place keeps the trials unsettled.
LEMMA KeepsByThreads ==
    ASSUME UNCHANGED <<trial, uncounted>>, NEW a \in Addresses,
           \A s \in Threads : thread[s].pc = "charge" => thread'[s] = thread[s]
    PROVE  Keeps(a)
<1>1. Pending(a) \subseteq Pending(a)'
  BY DEF Pending, Charging
<1> QED BY <1>1 DEF Keeps, Settled

\* A thread that moves to another place of init_trial disturbs no other.
LEMMA KeepsByMove ==
    ASSUME TypeOK, UNCHANGED <<trial, uncounted>>, NEW a \in Addresses,
           NEW t \in Threads, thread[t].pc # "charge", NEW r, thread' = [thread EXCEPT ![t] = r]
    PROVE  Keeps(a)
<1>1. \A s \in Threads : thread[s].pc = "charge" => thread'[s] = thread[s]
  BY DEF TypeOK
<1> QED BY <1>1, KeepsByThreads

\* A trial that is stored is not settled: it is about to be counted, or it is
\* among the uncounted.
LEMMA KeepsByStore ==
    ASSUME TypeOK, NEW t \in Threads, thread[t].pc = "create", StoreTrial(t), NEW a \in Addresses,
           \A s \in Threads \ {t} : thread'[s] = thread[s],
           \A w \in Visitors \ {thread[t].visitor} : w \in uncounted => w \in uncounted',
           \/ thread[t].visitor \in uncounted'
           \/ /\ thread'[t].pc = "charge"
              /\ thread'[t].ip = thread[t].ip
              /\ thread'[t].visitor = thread[t].visitor
    PROVE  Keeps(a)
<1> DEFINE v == thread[t].visitor
<1>1. v \in Visitors
  BY DEF TypeOK
<1>2. \A w \in Visitors : w # v => trial'[w] = trial[w]
  BY DEF StoreTrial, TypeOK
<1>3. trial'[v].ip = thread[t].ip
  BY <1>1 DEF StoreTrial, TypeOK
<1>4. v \notin Settled(a)'
  BY <1>3 DEF Settled, Pending, Charging
<1>5. Pending(a) \subseteq Pending(a)'
  BY DEF Pending, Charging
<1> QED BY <1>2, <1>4, <1>5 DEF Keeps, Settled

\* The steps are of two kinds.
LEMMA StepKinds ==
    ASSUME TypeOK, [Next]_vars, NEW a \in Addresses
    PROVE  Keeps(a) \/ \E t \in Threads : Charged(t)
<1>1. ASSUME NEW t \in Threads, Lookup(t) PROVE Keeps(a)
  <2>1. PICK r : thread' = [thread EXCEPT ![t] = r]
    BY <1>1 DEF Lookup
  <2> QED BY <1>1, <2>1, KeepsByMove DEF Lookup
<1>2. ASSUME NEW t \in Threads, Refuse(t) \/ Reread(t) PROVE Keeps(a)
  BY <1>2, KeepsByMove DEF Refuse, Reread, Return
<1>3. ASSUME NEW t \in Threads, Admit(t) \/ CreatedByOther(t) \/ RereadNothing(t) PROVE Keeps(a)
  <2>1. thread[t].pc # "charge" /\ UNCHANGED <<trial, uncounted>>
    BY <1>3 DEF Admit, CreatedByOther, RereadNothing
  <2>2. \A s \in Threads : s # t => thread'[s] = thread[s]
    BY <1>3 DEF Admit, CreatedByOther, RereadNothing, Goto, TypeOK
  <2> QED BY <2>1, <2>2, KeepsByThreads
<1>4. ASSUME NEW t \in Threads, Create(t) PROVE Keeps(a)
  <2>1. thread[t].pc = "create" /\ StoreTrial(t) /\ uncounted' = uncounted \ {thread[t].visitor}
    BY <1>4 DEF Create
  <2>2. \A s \in Threads \ {t} : thread'[s] = thread[s]
    BY <1>4 DEF Create, Goto, TypeOK
  <2>3. /\ thread'[t].pc = "charge" /\ thread'[t].ip = thread[t].ip
        /\ thread'[t].visitor = thread[t].visitor
    BY <1>4 DEF Create, Goto, TypeOK, ThreadState
  <2> QED BY <2>1, <2>2, <2>3, KeepsByStore
<1>5. ASSUME NEW t \in Threads, Charge(t) PROVE Charged(t)
  BY <1>5 DEF Charge, Charged
<1>6. ASSUME NEW t \in Threads, Fail(t) PROVE Keeps(a)
  <2>1. CASE thread[t].pc # "charge"
    BY <1>6, <2>1, KeepsByMove DEF Fail, Return
  <2>2. CASE thread[t].pc = "charge"
    <3>1. uncounted' = uncounted \cup {thread[t].visitor} /\ UNCHANGED trial
      BY <1>6, <2>2 DEF Fail
    <3>2. \A s \in Threads \ {t} : thread'[s] = thread[s]
      BY <1>6 DEF Fail, Return, TypeOK
    <3>3. Pending(a) \subseteq Pending(a)' \cup {thread[t].visitor}
      BY <3>2 DEF Pending, Charging
    <3> QED BY <3>1, <3>3 DEF Keeps, Settled
  <2> QED BY <2>1, <2>2
<1>7. ASSUME NEW t \in Threads, ReplyLost(t) PROVE Keeps(a) \/ Charged(t)
  <2>1. CASE thread[t].pc = "create"
    <3>1. StoreTrial(t) /\ uncounted' = uncounted \cup {thread[t].visitor}
      BY <1>7, <2>1 DEF ReplyLost
    <3>2. \A s \in Threads \ {t} : thread'[s] = thread[s]
      BY <1>7 DEF ReplyLost, Return, TypeOK
    <3> QED BY <2>1, <3>1, <3>2, KeepsByStore
  <2>2. CASE thread[t].pc # "create"
    <3>1. thread[t].pc = "charge" /\ CountHit(t) /\ UNCHANGED <<clock, trial, uncounted>>
      BY <1>7, <2>2 DEF ReplyLost
    <3>2. CASE UNCHANGED thread
      BY <3>1, <3>2, KeepsByThreads
    <3>3. CASE Return(t)
      BY <3>1, <3>3 DEF Charged
    <3> QED BY <1>7, <3>2, <3>3 DEF ReplyLost
  <2> QED BY <2>1, <2>2
<1>8. CASE Tick \/ UNCHANGED vars
  BY <1>8, KeepsByThreads DEF Tick, vars
<1> QED BY <1>1, <1>2, <1>3, <1>4, <1>5, <1>6, <1>7, <1>8 DEF Next

\* What the steps do to the clock and to the counts.
LEMMA ClockAndHits ==
    ASSUME TypeOK, [Next]_vars
    PROVE  /\ clock' >= clock
           /\ \/ UNCHANGED hits
              \/ UNCHANGED clock /\ \E t \in Threads : thread[t].pc = "charge" /\ CountHit(t)
<1>1. clock \in Nat
  BY ConstantsAssumption DEF TypeOK
<1>2. UNCHANGED clock => clock' >= clock
  BY <1>1
<1>3. ASSUME NEW t \in Threads, ReplyLost(t)
      PROVE  UNCHANGED clock /\ (UNCHANGED hits \/ (thread[t].pc = "charge" /\ CountHit(t)))
  BY <1>3 DEF ReplyLost
<1>4. ASSUME NEW t \in Threads, Charge(t)
      PROVE  UNCHANGED clock /\ thread[t].pc = "charge" /\ CountHit(t)
  BY <1>4 DEF Charge
<1>5. ASSUME NEW t \in Threads,
             Lookup(t) \/ Refuse(t) \/ Admit(t) \/ Create(t) \/ CreatedByOther(t) \/ Reread(t)
                \/ RereadNothing(t) \/ Fail(t)
      PROVE  UNCHANGED <<clock, hits>>
  BY <1>5 DEF Lookup, Refuse, Admit, Create, CreatedByOther, Reread, RereadNothing, Fail
<1>6. CASE Tick
  BY <1>1, <1>6 DEF Tick
<1>7. CASE UNCHANGED vars
  BY <1>2, <1>7 DEF vars
<1> QED BY <1>2, <1>3, <1>4, <1>5, <1>6, <1>7 DEF Next

\* Counting raises the count of one address by one, and starts its window.
LEMMA HitsAfter ==
    ASSUME TypeOK, NEW t \in Threads, thread[t].pc = "charge", CountHit(t), UNCHANGED clock,
           NEW a \in Addresses
    PROVE  /\ Hits(a) \in Nat
           /\ a = thread[t].ip => Hits(a)' = Hits(a) + 1 /\ hits'[a].until = clock + Window
           /\ a # thread[t].ip => Hits(a)' = Hits(a) /\ hits'[a] = hits[a]
<1>1. clock \in Nat
  BY ConstantsAssumption DEF TypeOK
<1>2. Hits(a) \in Nat
  BY <1>1 DEF Hits, TypeOK, Count
<1>3. CASE a = thread[t].ip
  <2>1. hits'[a] = [n |-> Hits(a) + 1, until |-> clock + Window]
    BY <1>3 DEF CountHit, TypeOK
  <2>2. clock + Window > clock
    BY <1>1, ConstantsAssumption
  <2> QED BY <1>2, <1>3, <2>1, <2>2 DEF Hits
<1>4. CASE a # thread[t].ip
  <2>1. hits'[a] = hits[a]
    BY <1>4 DEF CountHit, TypeOK
  <2> QED BY <1>2, <1>4, <2>1 DEF Hits
<1> QED BY <1>3, <1>4
----------------------------------------------------------------------------
(* The invariant is inductive                                               *)

\* A trial is created in the past, and so was it when its thread looked at the clock.
LEMMA PastStep == TypeOK /\ PastInv /\ [Next]_vars => PastInv'
<1> SUFFICES ASSUME TypeOK, PastInv, [Next]_vars PROVE PastInv'
  OBVIOUS
<1>1. clock \in Nat /\ clock' \in Nat /\ clock' >= clock
  BY TypeStep, ClockAndHits, ConstantsAssumption DEF TypeOK
<1>2. ASSUME NEW v \in Visitors PROVE trial'[v].at <= clock'
  <2>1. trial[v].at <= clock /\ trial[v].at \in Nat
    BY DEF PastInv, TypeOK, Trial
  <2>2. CASE trial'[v] = trial[v]
    BY <1>1, <2>1, <2>2
  <2>3. CASE trial'[v] # trial[v]
    <3>1. PICK t \in Threads : StoreTrial(t)
      BY <2>3 DEF Next, Lookup, Refuse, Admit, Create, CreatedByOther, Reread,
           RereadNothing, Charge, Fail, ReplyLost, Tick, vars
    <3>2. trial'[v].at = thread[t].now
      BY <2>3, <3>1 DEF StoreTrial, TypeOK
    <3>3. thread[t].now <= clock /\ thread[t].now \in Nat
      BY DEF PastInv, TypeOK, ThreadState
    <3> QED BY <1>1, <3>2, <3>3
  <2> QED BY <2>2, <2>3
<1>3. ASSUME NEW s \in Threads PROVE thread'[s].now <= clock'
  <2>1. thread[s].now <= clock /\ thread[s].now \in Nat
    BY DEF PastInv, TypeOK, ThreadState
  <2>2. CASE thread'[s].now = thread[s].now
    BY <1>1, <2>1, <2>2
  <2>3. ASSUME NEW t \in Threads, Lookup(t) PROVE thread'[s].now \in {0, thread[s].now}
    BY <2>3 DEF Lookup, TypeOK
  <2>4. ASSUME NEW t \in Threads, Return(t) PROVE thread'[s].now \in {0, thread[s].now}
    BY <2>4 DEF Return, Idle, TypeOK
  <2>5. ASSUME NEW t \in Threads, Admit(t) PROVE thread'[s].now \in {clock, thread[s].now}
    BY <2>5 DEF Admit, TypeOK, ThreadState
  <2>6. ASSUME NEW t \in Threads, NEW pc, Goto(t, pc) PROVE thread'[s].now = thread[s].now
    BY <2>6 DEF Goto, TypeOK, ThreadState
  <2>7. thread'[s].now \in {0, clock, thread[s].now}
    BY <2>3, <2>4, <2>5, <2>6 DEF Next, Refuse, Create, CreatedByOther, Reread,
         RereadNothing, Charge, Fail, ReplyLost, Tick, vars
  <2> QED BY <1>1, <2>1, <2>7
<1> QED BY <1>2, <1>3 DEF PastInv

\* A trial is lost to the count only by a fault.
LEMMA FaultStep == TypeOK /\ FaultInv /\ [Next]_vars => FaultInv'
<1> SUFFICES ASSUME TypeOK, FaultInv, [Next]_vars PROVE FaultInv'
  OBVIOUS
<1>1. IsFiniteSet(uncounted) /\ Cardinality(uncounted) \in Nat /\ faults \in Nat
  <2>1. uncounted \subseteq Visitors
    BY DEF TypeOK
  <2> QED BY <2>1, FS_Subset, FS_CardinalityType, ConstantsAssumption DEF TypeOK
<1>2. CASE uncounted' \subseteq uncounted /\ faults' = faults
  <2>1. IsFiniteSet(uncounted') /\ Cardinality(uncounted') <= Cardinality(uncounted)
    BY <1>1, <1>2, FS_Subset
  <2>2. Cardinality(uncounted') \in Nat
    BY <2>1, FS_CardinalityType
  <2> QED BY <1>1, <1>2, <2>1, <2>2 DEF FaultInv
<1>3. ASSUME NEW v, uncounted' = uncounted \cup {v} \/ uncounted' = uncounted,
             faults' = faults + 1
      PROVE  FaultInv'
  <2> DEFINE more == uncounted \cup {v}
  <2>1. /\ IsFiniteSet(more)
        /\ Cardinality(more) \in {Cardinality(uncounted), Cardinality(uncounted) + 1}
    BY <1>1, FS_AddElement
  <2> HIDE DEF more
  <2>2. CASE uncounted' = more
    BY <1>1, <1>3, <2>1, <2>2 DEF FaultInv
  <2>3. CASE uncounted' = uncounted
    BY <1>1, <1>3, <2>3 DEF FaultInv
  <2> QED BY <1>3, <2>2, <2>3 DEF more
<1>4. ASSUME NEW t \in Threads, Fail(t) \/ ReplyLost(t) PROVE FaultInv'
  BY <1>3, <1>4 DEF Fail, ReplyLost, Fault
<1>5. CASE ~\E t \in Threads : Fail(t) \/ ReplyLost(t)
  BY <1>2, <1>5 DEF Next, Lookup, Refuse, Admit, Create, CreatedByOther, Reread,
       RereadNothing, Charge, Tick, vars
<1> QED BY <1>4, <1>5

\* A settled trial belongs to a window that outlives it.
LEMMA WindowStep == TypeOK /\ PastInv /\ WindowInv /\ [Next]_vars => WindowInv'
<1> SUFFICES ASSUME TypeOK, PastInv, WindowInv, [Next]_vars, NEW a \in Addresses,
                    NEW v \in Settled(a)'
             PROVE  trial'[v].at + Window <= hits'[a].until
  BY DEF WindowInv
<1>1. v \in Visitors
  BY DEF Settled
<1>2. clock \in Nat /\ trial[v].at \in Nat /\ trial[v].at <= clock /\ hits[a].until \in Nat
  BY <1>1, ConstantsAssumption DEF TypeOK, PastInv, Trial, Count
<1>3. ASSUME NEW t \in Threads, thread[t].pc = "charge", CountHit(t), UNCHANGED <<clock, trial>>,
             a = thread[t].ip
      PROVE  trial'[v].at + Window <= hits'[a].until
  BY <1>2, <1>3, HitsAfter, ConstantsAssumption
<1>4. CASE Keeps(a)
  <2>1. v \in Settled(a) /\ trial'[v] = trial[v]
    BY <1>4 DEF Keeps
  <2>2. trial[v].at + Window <= hits[a].until
    BY <2>1 DEF WindowInv
  <2>3. CASE UNCHANGED hits
    BY <2>1, <2>2, <2>3
  <2>4. ASSUME NEW t \in Threads, thread[t].pc = "charge", CountHit(t), UNCHANGED clock
        PROVE  trial'[v].at + Window <= hits'[a].until
    BY <1>2, <2>1, <2>2, <2>4, HitsAfter, ConstantsAssumption
  <2> QED BY <2>3, <2>4, ClockAndHits
<1>5. ASSUME NEW t \in Threads, Charged(t) PROVE trial'[v].at + Window <= hits'[a].until
  <2>1. CASE a = thread[t].ip
    BY <1>3, <1>5, <2>1 DEF Charged
  <2>2. CASE a # thread[t].ip
    <3>1. Pending(a) \subseteq Pending(a)'
      BY <1>5, <2>2 DEF Charged, Return, Pending, Charging, TypeOK
    <3>2. v \in Settled(a) /\ trial'[v] = trial[v]
      BY <1>5, <3>1 DEF Charged, Settled
    <3>3. hits'[a] = hits[a]
      BY <1>5, <2>2, HitsAfter DEF Charged
    <3> QED BY <3>2, <3>3 DEF WindowInv
  <2> QED BY <2>1, <2>2
<1> QED BY <1>4, <1>5, StepKinds

\* What a step does to the counted trials of an address.
LEMMA CountedAfter ==
    ASSUME TypeOK, [Next]_vars, NEW a \in Addresses
    PROVE  /\ Keeps(a) => Counted(a)' \subseteq Counted(a)
           /\ \A t \in Threads : Charged(t) =>
                    /\ Counted(a)' \subseteq Counted(a) \cup {thread[t].visitor}
                    /\ a # thread[t].ip => Counted(a)' \subseteq Counted(a)
<1>1. ASSUME Keeps(a) PROVE Counted(a)' \subseteq Counted(a)
  <2> SUFFICES ASSUME NEW v \in Counted(a)' PROVE v \in Recent(a)
    BY <1>1 DEF Counted, Keeps
  <2>1. v \in Visitors /\ trial'[v].ip = a /\ trial'[v].at + Window > clock'
    BY DEF Counted, Recent
  <2>2. trial'[v] = trial[v]
    BY <1>1 DEF Counted, Keeps
  <2>3. clock \in Nat /\ clock' \in Nat /\ clock' >= clock /\ trial[v].at \in Nat
    BY <2>1, TypeStep, ClockAndHits, ConstantsAssumption DEF TypeOK, Trial
  <2> QED BY <2>1, <2>2, <2>3, ConstantsAssumption DEF Recent
<1>2. ASSUME NEW t \in Threads, Charged(t)
      PROVE  /\ Counted(a)' \subseteq Counted(a) \cup {thread[t].visitor}
             /\ a # thread[t].ip => Counted(a)' \subseteq Counted(a)
  <2>1. Recent(a)' = Recent(a)
    BY <1>2 DEF Charged, Recent
  <2>2. \A s \in Threads \ {t} : thread'[s] = thread[s]
    BY <1>2 DEF Charged, Return, TypeOK
  <2>3. Pending(a) \subseteq Pending(a)' \cup {thread[t].visitor}
    BY <2>2 DEF Pending, Charging
  <2>4. a # thread[t].ip => Pending(a) \subseteq Pending(a)'
    BY <2>2 DEF Pending, Charging
  <2> QED BY <1>2, <2>1, <2>3, <2>4 DEF Charged, Counted, Settled
<1> QED BY <1>1, <1>2

\* A set with at most one element more is larger by at most one.
LEMMA OneMore ==
    ASSUME NEW S, NEW T, NEW x, IsFiniteSet(S), T \subseteq S \cup {x}
    PROVE  IsFiniteSet(T) /\ Cardinality(T) \in Nat /\ Cardinality(T) <= Cardinality(S) + 1
<1> DEFINE more == S \cup {x}
<1>1. /\ IsFiniteSet(more)
      /\ Cardinality(more) \in {Cardinality(S), Cardinality(S) + 1}
  BY FS_AddElement
<1>2. IsFiniteSet(T) /\ Cardinality(T) <= Cardinality(more)
  BY <1>1, FS_Subset
<1>3. Cardinality(T) \in Nat /\ Cardinality(S) \in Nat
  BY <1>2, FS_CardinalityType
<1> HIDE DEF more
<1> QED BY <1>1, <1>2, <1>3

\* A set that gains nothing is not larger.
LEMMA NoMore ==
    ASSUME NEW S, NEW T, IsFiniteSet(S), T \subseteq S
    PROVE  Cardinality(T) \in Nat /\ Cardinality(S) \in Nat /\ Cardinality(T) <= Cardinality(S)
BY FS_Subset, FS_CardinalityType

\* The count is never less than the trials it stands for, and when its key
\* expires none of them is recent.
LEMMA HitsStep == TypeOK /\ WindowInv /\ HitsInv /\ [Next]_vars => HitsInv'
<1> SUFFICES ASSUME TypeOK, WindowInv, HitsInv, [Next]_vars, NEW a \in Addresses
             PROVE  Cardinality(Counted(a)') <= Hits(a)'
  BY DEF HitsInv
<1>1. clock \in Nat /\ clock' \in Nat /\ clock' >= clock
  BY TypeStep, ClockAndHits, ConstantsAssumption DEF TypeOK
<1>2. hits[a].until \in Nat /\ hits[a].n \in Nat
  BY DEF TypeOK, Count
<1>3. IsFiniteSet(Counted(a)) /\ Cardinality(Counted(a)) \in Nat
        /\ Cardinality(Counted(a)) <= Hits(a)
  BY Finite DEF HitsInv
<1>4. CASE Keeps(a)
  <2>1. Cardinality(Counted(a)') \in Nat /\ Cardinality(Counted(a)') <= Cardinality(Counted(a))
    BY <1>3, <1>4, CountedAfter, NoMore
  <2>2. ASSUME NEW t \in Threads, thread[t].pc = "charge", CountHit(t), UNCHANGED clock
        PROVE  Cardinality(Counted(a)') <= Hits(a)'
    <3>1. Hits(a) \in Nat /\ Hits(a)' \in {Hits(a), Hits(a) + 1}
      BY <2>2, HitsAfter
    <3> QED BY <1>3, <2>1, <3>1
  <2>3. CASE UNCHANGED hits /\ hits[a].until > clock'
    <3>1. Hits(a)' = Hits(a) /\ Hits(a) \in Nat
      BY <1>1, <1>2, <2>3 DEF Hits
    <3> QED BY <1>3, <2>1, <3>1
  <2>4. CASE UNCHANGED hits /\ ~(hits[a].until > clock')
    <3>1. Hits(a)' = 0
      BY <2>4 DEF Hits
    <3>2. ASSUME NEW v \in Counted(a)' PROVE FALSE
      <4>1. v \in Settled(a) /\ trial'[v] = trial[v] /\ v \in Visitors
        BY <1>4, <3>2 DEF Keeps, Counted, Settled
      <4>2. trial[v].at + Window <= hits[a].until /\ trial[v].at + Window > clock'
        BY <3>2, <4>1 DEF WindowInv, Counted, Recent
      <4>3. trial[v].at \in Nat
        BY <4>1 DEF TypeOK, Trial
      <4> QED BY <1>1, <1>2, <2>4, <4>2, <4>3, ConstantsAssumption
    <3>3. Counted(a)' = {}
      BY <3>2
    <3> QED BY <3>1, <3>3, FS_EmptySet
  <2> QED BY <2>2, <2>3, <2>4, ClockAndHits
<1>5. ASSUME NEW t \in Threads, Charged(t) PROVE Cardinality(Counted(a)') <= Hits(a)'
  <2>1. /\ Hits(a) \in Nat
        /\ a = thread[t].ip => Hits(a)' = Hits(a) + 1
        /\ a # thread[t].ip => Hits(a)' = Hits(a)
    BY <1>5, HitsAfter DEF Charged
  <2>2. CASE a = thread[t].ip
    <3>1. Cardinality(Counted(a)') \in Nat
            /\ Cardinality(Counted(a)') <= Cardinality(Counted(a)) + 1
      BY <1>3, <1>5, CountedAfter, OneMore
    <3> QED BY <1>3, <2>1, <2>2, <3>1
  <2>3. CASE a # thread[t].ip
    <3>1. Cardinality(Counted(a)') \in Nat /\ Cardinality(Counted(a)') <= Cardinality(Counted(a))
      BY <1>3, <1>5, <2>3, CountedAfter, NoMore
    <3> QED BY <1>3, <2>1, <2>3, <3>1
  <2> QED BY <2>2, <2>3
<1> QED BY <1>4, <1>5, StepKinds

\* The threads that were let in: one that is let in joins them, others only leave.
LEMMA InFlightAfter ==
    ASSUME TypeOK, [Next]_vars, NEW a \in Addresses
    PROVE  \/ InFlight(a)' \subseteq InFlight(a)
           \/ Hits(a) < Limit /\ Keeps(a)
<1>1. ASSUME NEW t \in Threads, \A s \in Threads \ {t} : thread'[s] = thread[s],
             \/ thread'[t].pc \in {"idle", "count"}
             \/ thread[t].pc \in {"create", "reread", "charge"} /\ thread'[t].ip = thread[t].ip
      PROVE  InFlight(a)' \subseteq InFlight(a)
  BY <1>1 DEF InFlight
<1>2. ASSUME NEW t \in Threads, Return(t) PROVE InFlight(a)' \subseteq InFlight(a)
  <2>1. thread'[t].pc = "idle" /\ \A s \in Threads \ {t} : thread'[s] = thread[s]
    BY <1>2 DEF Return, Idle, TypeOK
  <2> QED BY <1>1, <2>1
<1>3. ASSUME NEW t \in Threads, NEW pc, Goto(t, pc), thread[t].pc \in {"create", "reread", "charge"}
      PROVE  InFlight(a)' \subseteq InFlight(a)
  <2>1. thread'[t].ip = thread[t].ip /\ \A s \in Threads \ {t} : thread'[s] = thread[s]
    BY <1>3 DEF Goto, TypeOK, ThreadState
  <2> QED BY <1>1, <1>3, <2>1
<1>4. ASSUME NEW t \in Threads, Lookup(t) PROVE InFlight(a)' \subseteq InFlight(a)
  <2>1. thread'[t].pc = "count" /\ \A s \in Threads \ {t} : thread'[s] = thread[s]
    BY <1>4 DEF Lookup, TypeOK
  <2> QED BY <1>1, <2>1
<1>5. ASSUME NEW t \in Threads, Admit(t)
      PROVE  InFlight(a)' \subseteq InFlight(a) \/ (Hits(a) < Limit /\ Keeps(a))
  <2>1. thread'[t].ip = thread[t].ip /\ \A s \in Threads \ {t} : thread'[s] = thread[s]
    BY <1>5 DEF Admit, TypeOK, ThreadState
  <2>2. CASE thread[t].ip = a
    <3>1. \A s \in Threads : thread[s].pc = "charge" => thread'[s] = thread[s]
      BY <1>5, <2>1 DEF Admit
    <3> QED BY <1>5, <2>2, <3>1, KeepsByThreads DEF Admit
  <2>3. CASE thread[t].ip # a
    BY <2>1, <2>3 DEF InFlight
  <2> QED BY <2>2, <2>3
<1>6. CASE UNCHANGED thread
  BY <1>6 DEF InFlight
<1> QED BY <1>2, <1>3, <1>4, <1>5, <1>6 DEF Next, Refuse, Create, CreatedByOther, Reread,
       RereadNothing, Charge, Fail, ReplyLost, Tick, vars

\* The count plus the threads that were let in stays below the limit and the threads.
LEMMA LimitStep == TypeOK /\ HitsInv /\ LimitInv /\ [Next]_vars => LimitInv'
<1> SUFFICES ASSUME TypeOK, HitsInv, LimitInv, [Next]_vars, NEW a \in Addresses
             PROVE  Cardinality(Counted(a)') + Cardinality(InFlight(a)') + 1
                        <= Limit + Cardinality(Threads)
  BY DEF LimitInv
<1>1. /\ IsFiniteSet(Counted(a)) /\ Cardinality(Counted(a)) \in Nat
      /\ IsFiniteSet(InFlight(a)) /\ Cardinality(InFlight(a)) \in Nat
      /\ Cardinality(Threads) \in Nat /\ Limit \in Nat /\ IsFiniteSet(Threads)
  BY Finite, ConstantsAssumption
<1>2. /\ Cardinality(Counted(a)) <= Hits(a)
      /\ Cardinality(Counted(a)) + Cardinality(InFlight(a)) + 1 <= Limit + Cardinality(Threads)
  BY DEF HitsInv, LimitInv
<1>3. ASSUME Hits(a) < Limit, Keeps(a)
      PROVE  Cardinality(Counted(a)') + Cardinality(InFlight(a)') + 1
                <= Limit + Cardinality(Threads)
  <2>1. Cardinality(Counted(a)') \in Nat /\ Cardinality(Counted(a)') <= Cardinality(Counted(a))
    BY <1>1, <1>3, CountedAfter, NoMore
  <2>2. InFlight(a)' \subseteq Threads
    BY DEF InFlight
  <2>3. Cardinality(InFlight(a)') \in Nat /\ Cardinality(InFlight(a)') <= Cardinality(Threads)
    BY <1>1, <2>2, NoMore
  <2>4. Hits(a) \in Nat
    BY DEF Hits, TypeOK, Count
  <2> QED BY <1>1, <1>2, <1>3, <2>1, <2>3, <2>4
<1>4. CASE Keeps(a) /\ InFlight(a)' \subseteq InFlight(a)
  <2>1. Cardinality(Counted(a)') \in Nat /\ Cardinality(Counted(a)') <= Cardinality(Counted(a))
    BY <1>1, <1>4, CountedAfter, NoMore
  <2>2. Cardinality(InFlight(a)') \in Nat
          /\ Cardinality(InFlight(a)') <= Cardinality(InFlight(a))
    BY <1>1, <1>4, NoMore
  <2> QED BY <1>1, <1>2, <2>1, <2>2
<1>5. ASSUME NEW t \in Threads, Charged(t)
      PROVE  Cardinality(Counted(a)') + Cardinality(InFlight(a)') + 1
                <= Limit + Cardinality(Threads)
  <2>1. CASE a # thread[t].ip
    <3>1. Cardinality(Counted(a)') \in Nat /\ Cardinality(Counted(a)') <= Cardinality(Counted(a))
      BY <1>1, <1>5, <2>1, CountedAfter, NoMore
    <3>2. InFlight(a)' \subseteq InFlight(a)
      BY <1>5 DEF Charged, Return, Idle, InFlight, TypeOK
    <3>3. Cardinality(InFlight(a)') \in Nat
            /\ Cardinality(InFlight(a)') <= Cardinality(InFlight(a))
      BY <1>1, <3>2, NoMore
    <3> QED BY <1>1, <1>2, <3>1, <3>3
  <2>2. CASE a = thread[t].ip
    <3>1. Cardinality(Counted(a)') \in Nat
            /\ Cardinality(Counted(a)') <= Cardinality(Counted(a)) + 1
      BY <1>1, <1>5, CountedAfter, OneMore
    <3>2. t \in InFlight(a) /\ InFlight(a)' \subseteq InFlight(a) \ {t}
      BY <1>5, <2>2 DEF Charged, Return, Idle, InFlight, TypeOK
    <3>3. IsFiniteSet(InFlight(a) \ {t})
            /\ Cardinality(InFlight(a) \ {t}) = Cardinality(InFlight(a)) - 1
      BY <1>1, <3>2, FS_RemoveElement
    <3>4. Cardinality(InFlight(a)') \in Nat
            /\ Cardinality(InFlight(a)') <= Cardinality(InFlight(a) \ {t})
      BY <3>2, <3>3, NoMore
    <3> QED BY <1>1, <1>2, <3>1, <3>3, <3>4
  <2> QED BY <2>1, <2>2
<1> QED BY <1>3, <1>4, <1>5, StepKinds, InFlightAfter

\* Every step keeps the invariant.
LEMMA InvStep == IInv /\ [Next]_vars => IInv'
BY TypeStep, PastStep, WindowStep, HitsStep, LimitStep, FaultStep DEF IInv

\* For any instance: the recent trials of an address pass the limit by no more
\* than the other threads at work and the faults (init_trial).
THEOREM TrialsAreBounded == Spec => []TrialsBounded
<1>1. Spec => []IInv
  BY InvInit, InvStep, PTL DEF Spec
<1> QED BY <1>1, InvBounds, PTL

=============================================================================
