----------------------------- MODULE ReportsProofs -----------------------------
(***************************************************************************)
(* Theorems about Reports, for any number of updates and visitors.         *)
(***************************************************************************)
EXTENDS Reports, TLAPS

States == {"new", "selected", "written", "deleting", "inserting", "stored", "refused"}
UpdateState == [state : States, text : BOOLEAN, list : BOOLEAN, target : SUBSET Authors]

\* A DELETE that began.
Found(u) == update[u].state \in {"deleting", "inserting"}

\* Only an update with a list has found coins.
Targets ==
    \A u \in Updates : /\ Found(u) => update[u].list
                       /\ update[u].state = "written" => update[u].target = {}
                       /\ update[u].state \in {"new", "selected"} => update[u].target = {}

\* A report that is there has coins, and one that is not has none.
CoinsOfReport == exists <=> coins # {}

ReportsInv == ReportsTypeOK /\ Targets /\ CoinsOfReport

-----------------------------------------------------------------------------
(* Types *)

\* What becomes of an update that takes a step.
LEMMA StepChange ==
    ASSUME ReportsTypeOK, NEW u \in Updates, NEW st \in States, Step(u, st)
    PROVE  /\ update' \in [Updates -> UpdateState]
           /\ \A v \in Updates : /\ update'[v].text = update[v].text
                                 /\ update'[v].list = update[v].list
                                 /\ update'[v].target = update[v].target
                                 /\ v # u => update'[v] = update[v]
           /\ update'[u].state = st
<1> DEFINE r == [update[u] EXCEPT !.state = st]
<1>1. update \in [Updates -> UpdateState]
  BY DEF ReportsTypeOK, UpdateState, States
<1>2. /\ r \in UpdateState /\ r.state = st /\ r.text = update[u].text
      /\ r.list = update[u].list /\ r.target = update[u].target
  BY <1>1 DEF UpdateState
<1>3. update' = [update EXCEPT ![u] = r]
  BY DEF Step
<1> HIDE DEF r
<1> QED BY <1>1, <1>2, <1>3

\* And of one that takes a step with other coins to delete.
LEMMA TargetChange ==
    ASSUME ReportsTypeOK, NEW u \in Updates, NEW st \in States, NEW S \in SUBSET Authors,
           update' = [update EXCEPT ![u].state = st, ![u].target = S]
    PROVE  /\ update' \in [Updates -> UpdateState]
           /\ \A v \in Updates : /\ update'[v].text = update[v].text
                                 /\ update'[v].list = update[v].list
                                 /\ v # u => update'[v] = update[v]
           /\ update'[u].state = st /\ update'[u].target = S
<1> DEFINE r == [update[u] EXCEPT !.state = st, !.target = S]
<1>1. update \in [Updates -> UpdateState]
  BY DEF ReportsTypeOK, UpdateState, States
<1>2. /\ r \in UpdateState /\ r.state = st /\ r.text = update[u].text
      /\ r.list = update[u].list /\ r.target = S
  BY <1>1 DEF UpdateState
<1>3. update' = [update EXCEPT ![u] = r]
  BY <1>1
<1> HIDE DEF r
<1> QED BY <1>1, <1>2, <1>3

\* The type of the updates, in one word.
LEMMA UpdateType ==
    ReportsTypeOK <=>
      /\ exists \in BOOLEAN /\ text \in Authors /\ coins \subseteq Authors
      /\ update \in [Updates -> UpdateState]
      /\ earlier \in [Updates -> SUBSET Updates]
      /\ reader \in [Readers -> [state : {"idle", "report", "read"},
                                 text : Authors, coins : SUBSET Authors]]
      /\ deletion \in [state : {"new", "loaded", "removing", "cascading", "over", "refused"},
                       target : SUBSET Authors]
BY DEF ReportsTypeOK, UpdateState, States

LEMMA ReportsInvInit == ReportsInit => ReportsInv
<1> SUFFICES ASSUME ReportsInit PROVE ReportsInv
  OBVIOUS
<1>1. ReportsTypeOK
  BY DEF ReportsInit, ReportsTypeOK, Authors
<1>2. Targets /\ CoinsOfReport
  BY DEF ReportsInit, Targets, CoinsOfReport, Found
<1> QED BY <1>1, <1>2 DEF ReportsInv

\* A request that selects the report.
LEMMA SelectChange ==
    ASSUME ReportsTypeOK, NEW u \in Updates, NEW t \in BOOLEAN, NEW l \in BOOLEAN,
           SelectReport(u, t, l)
    PROVE  /\ update' \in [Updates -> UpdateState]
           /\ \A v \in Updates : v # u => update'[v] = update[v]
           /\ update'[u].state \in {"selected", "refused"} /\ update'[u].target = {}
<1> DEFINE r == [state |-> IF exists THEN "selected" ELSE "refused",
                 text |-> t, list |-> l, target |-> {}]
<1>1. r \in UpdateState /\ r.state \in {"selected", "refused"} /\ r.target = {}
  BY DEF UpdateState, States
<1>2. update' = [update EXCEPT ![u] = r]
  BY DEF SelectReport
<1> HIDE DEF r
<1> QED BY <1>1, <1>2, UpdateType

\* A visitor who reads on.
LEMMA ReaderType ==
    ASSUME ReportsTypeOK, NEW r \in Readers, ReadReport(r) \/ ReadCoins(r)
    PROVE  reader' \in [Readers -> [state : {"idle", "report", "read"},
                                    text : Authors, coins : SUBSET Authors]]
<1> DEFINE R == [state : {"idle", "report", "read"}, text : Authors, coins : SUBSET Authors]
<1>1. CASE ReadReport(r)
  BY <1>1 DEF ReadReport, ReportsTypeOK
<1>2. CASE ReadCoins(r)
  <2> DEFINE new == [reader[r] EXCEPT !.state = "read", !.coins = coins]
  <2>1. reader[r] \in R /\ coins \in SUBSET Authors /\ reader \in [Readers -> R]
    BY DEF ReportsTypeOK
  <2>2. new \in R
    BY <2>1
  <2>3. reader' = [reader EXCEPT ![r] = new]
    BY <1>2, <2>1 DEF ReadCoins
  <2> HIDE DEF new, R
  <2>4. reader' \in [Readers -> R]
    BY <2>1, <2>2, <2>3
  <2> QED BY <2>4 DEF R
<1> QED BY <1>1, <1>2

LEMMA ReportsInvStep == ReportsInv /\ [ReportsNext]_reportsVars => ReportsInv'
<1> SUFFICES ASSUME ReportsInv, [ReportsNext]_reportsVars
             PROVE  ReportsInv'
  OBVIOUS
<1>0. ReportsTypeOK /\ Targets /\ CoinsOfReport
  BY DEF ReportsInv
<1>1. ASSUME NEW u \in Updates, NEW t \in BOOLEAN, NEW l \in BOOLEAN, SelectReport(u, t, l)
      PROVE  ReportsInv'
  <2>1. Targets'
    BY <1>0, <1>1, SelectChange DEF Targets, Found
  <2>2. earlier' \in [Updates -> SUBSET Updates]
    BY <1>0, <1>1 DEF SelectReport, ReportsTypeOK, Ended
  <2> QED BY <1>0, <1>1, <2>1, <2>2, SelectChange
          DEF ReportsTypeOK, UpdateState, States, SelectReport, ReportsInv, CoinsOfReport
<1>2. ASSUME NEW u \in Updates, WriteText(u)
      PROVE  ReportsInv'
  <2>1. PICK st \in {"refused", "written"} : Step(u, st)
    BY <1>2 DEF WriteText
  <2>2. update[u].state = "selected"
    BY <1>2 DEF WriteText
  <2>3. update' \in [Updates -> UpdateState] /\ Targets'
    BY <1>0, <2>1, <2>2, StepChange DEF Targets, Found, States
  <2> QED BY <1>0, <1>2, <2>3 DEF ReportsTypeOK, UpdateState, States, WriteText, ReportsInv, CoinsOfReport
<1>3. ASSUME NEW u \in Updates, FindCoins(u)
      PROVE  ReportsInv'
  <2>1. update' \in [Updates -> UpdateState] /\ Targets'
    <3>1. /\ coins \in SUBSET Authors /\ "deleting" \in States
          /\ update' = [update EXCEPT ![u].state = "deleting", ![u].target = coins]
          /\ update[u].list
      BY <1>0, <1>3 DEF FindCoins, ReportsTypeOK, States
    <3>2. /\ update' \in [Updates -> UpdateState]
          /\ \A v \in Updates : v # u => update'[v] = update[v]
          /\ update'[u].state = "deleting" /\ update'[u].list
      <4>1. ReportsTypeOK
        BY <1>0
      <4> QED BY <3>1, <4>1, TargetChange, ZenonT(30)
    <3> QED BY <1>0, <3>2 DEF Targets, Found
  <2> QED BY <1>0, <1>3, <2>1 DEF ReportsTypeOK, UpdateState, States, FindCoins, ReportsInv, CoinsOfReport
<1>4. ASSUME NEW u \in Updates, DeleteCoins(u)
      PROVE  ReportsInv'
  <2>1. update' \in [Updates -> UpdateState] /\ Targets'
    <3> DEFINE S == update[u].target \cap coins
    <3>1. S \in SUBSET Authors /\ "inserting" \in States /\ update[u].list
      BY <1>0, <1>4 DEF DeleteCoins, ReportsTypeOK, States, Targets, Found
    <3>2. update' = [update EXCEPT ![u].state = "inserting", ![u].target = S]
      BY <1>0, <1>4 DEF DeleteCoins, ReportsTypeOK
    <3> HIDE DEF S
    <3>3. /\ update' \in [Updates -> UpdateState]
          /\ \A v \in Updates : v # u => update'[v] = update[v]
          /\ update'[u].state = "inserting" /\ update'[u].list
      <4>1. ReportsTypeOK
        BY <1>0
      <4> QED BY <3>1, <3>2, <4>1, TargetChange, ZenonT(30)
    <3> QED BY <1>0, <3>3 DEF Targets, Found
  <2> QED BY <1>0, <1>4, <2>1 DEF ReportsTypeOK, UpdateState, States, DeleteCoins, ReportsInv, CoinsOfReport
<1>5. ASSUME NEW u \in Updates, StoreReport(u)
      PROVE  ReportsInv'
  <2>1. update' \in [Updates -> UpdateState] /\ Targets'
    BY <1>0, <1>5, StepChange DEF StoreReport, Targets, Found, States
  <2>2. CASE update[u].list
    <3>1. exists /\ u \in coins' /\ exists' = exists
      BY <1>5, <2>2 DEF StoreReport
    <3>2. coins' \subseteq Authors /\ text' \in Authors
      BY <1>0, <1>5 DEF StoreReport, ReportsTypeOK, Authors
    <3> QED BY <1>0, <1>5, <2>1, <3>1, <3>2 DEF ReportsTypeOK, UpdateState, States, StoreReport, ReportsInv, CoinsOfReport
  <2>3. CASE ~update[u].list
    <3>1. update[u].target = {}
      BY <1>0, <1>5, <2>3 DEF StoreReport, Targets, Found
    <3>2. coins' = coins /\ text' \in Authors
      BY <1>0, <1>5, <2>3, <3>1 DEF StoreReport, ReportsTypeOK, Authors
    <3> QED BY <1>0, <1>5, <2>1, <3>2 DEF ReportsTypeOK, UpdateState, States, StoreReport, ReportsInv, CoinsOfReport
  <2> QED BY <2>2, <2>3
<1>6. ASSUME NEW u \in Updates, NoReport(u)
      PROVE  ReportsInv'
  <2>1. update' \in [Updates -> UpdateState] /\ Targets'
    BY <1>0, <1>6, StepChange DEF NoReport, Targets, Found, States
  <2> QED BY <1>0, <1>6, <2>1 DEF ReportsTypeOK, UpdateState, States, NoReport, ReportsInv, CoinsOfReport
<1>7. ASSUME NEW u \in Updates, EndDeadlock(u)
      PROVE  ReportsInv'
  <2>1. CASE Step(u, "refused") /\ UNCHANGED deletion
    <3>1. update' \in [Updates -> UpdateState] /\ Targets'
      BY <1>0, <2>1, StepChange DEF Targets, Found, States
    <3> QED BY <1>0, <1>7, <2>1, <3>1 DEF ReportsTypeOK, UpdateState, States, EndDeadlock, ReportsInv, CoinsOfReport
  <2>2. CASE deletion' = [deletion EXCEPT !.state = "refused"] /\ UNCHANGED update
    BY <1>0, <1>7, <2>2 DEF EndDeadlock, ReportsTypeOK, ReportsInv, CoinsOfReport, Targets, Found
  <2> QED BY <1>7, <2>1, <2>2 DEF EndDeadlock
<1>8. CASE SelectForDelete \/ RemoveCoins \/ RemoveReport
  <2>1. UNCHANGED <<exists, text, coins, update, earlier, reader>>
    BY <1>8 DEF SelectForDelete, RemoveCoins, RemoveReport
  <2>2. deletion' \in [state : {"new", "loaded", "removing", "cascading", "over", "refused"},
                       target : SUBSET Authors]
    BY <1>0, <1>8 DEF SelectForDelete, RemoveCoins, RemoveReport, ReportsTypeOK
  <2> QED BY <1>0, <2>1, <2>2 DEF ReportsInv, ReportsTypeOK, CoinsOfReport, Targets, Found
<1>9. CASE Cascade
  BY <1>0, <1>9 DEF Cascade, ReportsInv, ReportsTypeOK, CoinsOfReport, Targets, Found
<1>10. ASSUME NEW r \in Readers, ReadReport(r) \/ ReadCoins(r)
       PROVE  ReportsInv'
  <2>1. UNCHANGED <<exists, text, coins, update, earlier, deletion>>
    BY <1>10 DEF ReadReport, ReadCoins
  <2> QED BY <1>0, <1>10, <2>1, ReaderType DEF ReportsInv, ReportsTypeOK, CoinsOfReport, Targets, Found
<1>11. CASE UNCHANGED reportsVars
  BY <1>0, <1>11 DEF reportsVars, ReportsInv, ReportsTypeOK, CoinsOfReport, Targets, Found
<1> QED BY <1>1, <1>2, <1>3, <1>4, <1>5, <1>6, <1>7, <1>8, <1>9, <1>10, <1>11
        DEF ReportsNext, UpdateStep, DeletionStep

(* Reports, coins, requests and readers keep their types.                  *)
THEOREM ReportsTypeCorrect == ReportsSpec => []ReportsTypeOK
<1>1. ReportsInv => ReportsTypeOK
  BY DEF ReportsInv
<1> QED BY <1>1, ReportsInvInit, ReportsInvStep, PTL DEF ReportsSpec

(* Whatever updates are under way when a report is deleted, none of them   *)
(* leaves coins without a report.                                          *)
THEOREM NoCoinsAreOrphans == ReportsSpec => []NoOrphanCoins
<1>1. ReportsInv => NoOrphanCoins
  BY DEF ReportsInv, CoinsOfReport, NoOrphanCoins
<1> QED BY <1>1, ReportsInvInit, ReportsInvStep, PTL DEF ReportsSpec

(* No visitor finds a report between the removal of its old coins and the  *)
(* insertion of its new ones.                                              *)
THEOREM NoGapIsRead == ReportsSpec => NoGapRead
<1>1. ReportsInv /\ [ReportsNext]_reportsVars =>
        [\A r \in Readers :
           (reader[r].state = "report" /\ reader'[r].state = "read")
             => (reader'[r].coins = {} <=> ~exists)]_reportsVars
  <2> SUFFICES ASSUME ReportsInv, ReportsNext, NEW r \in Readers,
                      reader[r].state = "report", reader'[r].state = "read"
               PROVE  reader'[r].coins = {} <=> ~exists
    BY DEF reportsVars
  <2>1. \E q \in Readers : ReadReport(q) \/ ReadCoins(q)
    BY DEF ReportsNext, UpdateStep, DeletionStep, SelectReport, WriteText, FindCoins,
           DeleteCoins, StoreReport, NoReport, EndDeadlock, SelectForDelete, RemoveCoins,
           RemoveReport, Cascade
  <2>2. PICK q \in Readers : ReadReport(q) \/ ReadCoins(q)
    BY <2>1
  <2>3. q = r
    BY <2>2 DEF ReadReport, ReadCoins, ReportsInv, ReportsTypeOK
  <2>4. ReadCoins(r)
    BY <2>2, <2>3 DEF ReadReport
  <2>5. reader'[r].coins = coins
    BY <2>4 DEF ReadCoins, ReportsInv, ReportsTypeOK
  <2> QED BY <2>5 DEF ReportsInv, CoinsOfReport
<1> QED BY <1>1, ReportsInvInit, ReportsInvStep, PTL DEF ReportsSpec, NoGapRead

-----------------------------------------------------------------------------
(* Lists replace lists *)

\* One writer of the text at a time.
OneWriter == \A u, v \in Updates : u # v => ~(LocksText(u) /\ LocksText(v))

\* What a DELETE passed over came after it: a list whose request overlapped,
\* and did not write the text as well.
FoundEarlier ==
    \A u \in Updates : Found(u) =>
      /\ First \in coins => First \in update[u].target
      /\ \A v \in (coins \cap Updates) \ update[u].target :
           v \notin earlier[u] /\ ~(update[u].text /\ update[v].text)

CoinsAreStored == \A u \in coins \cap Updates : update[u].state = "stored"

EarlierEnded ==
    \A u, v \in Updates : v \in earlier[u] => update[v].state \in {"stored", "refused"}

ListsInv == OneWriter /\ FoundEarlier /\ CoinsAreStored /\ EarlierEnded /\ ListsReplaced

\* A step of one request that has not ended, and stores nothing.
LEMMA RequestMoves ==
    ASSUME ListsInv, NEW u \in Updates,
           update[u].state \notin {"stored", "refused"},
           \A v \in Updates : v # u => update'[v] = update[v],
           update'[u].text = update[u].text,
           coins' = coins, earlier' = earlier,
           \/ LocksText(u)' => LocksText(u)
           \/ \A v \in Updates \ {u} : ~LocksText(v),
           Found(u)' => \/ coins \subseteq update'[u].target
                        \/ Found(u) /\ update[u].target \cap coins \subseteq update'[u].target
    PROVE  ListsInv'
<1>0. OneWriter /\ FoundEarlier /\ CoinsAreStored /\ EarlierEnded /\ ListsReplaced
  BY DEF ListsInv
<1>1. u \notin coins
  BY <1>0 DEF CoinsAreStored
<1>2. \A v \in Updates : update'[v].text = update[v].text
  OBVIOUS
<1>3. \A v \in Updates : v # u => (LocksText(v)' <=> LocksText(v)) /\ (Found(v)' <=> Found(v))
  BY DEF LocksText, Open, Found
<1>4. OneWriter'
  <2> SUFFICES ASSUME NEW v \in Updates, NEW w \in Updates, v # w,
                      LocksText(v)', LocksText(w)'
               PROVE  FALSE
    BY DEF OneWriter, LocksText, Open
  <2>1. CASE v # u /\ w # u
    BY <2>1, <1>0, <1>3 DEF OneWriter
  <2>2. CASE v = u
    BY <2>2, <1>0, <1>3 DEF OneWriter
  <2>3. CASE w = u
    BY <2>3, <1>0, <1>3 DEF OneWriter
  <2> QED BY <2>1, <2>2, <2>3
<1>5. FoundEarlier'
  <2> SUFFICES ASSUME NEW w \in Updates, Found(w)'
               PROVE  /\ First \in coins => First \in update'[w].target
                      /\ \A v \in (coins \cap Updates) \ update'[w].target :
                           v \notin earlier[w] /\ ~(update[w].text /\ update[v].text)
    BY <1>2 DEF FoundEarlier, Found
  <2>1. CASE w # u
    BY <2>1, <1>0, <1>3 DEF FoundEarlier
  <2>2. CASE w = u /\ coins \subseteq update'[u].target
    BY <2>2
  <2>3. CASE w = u /\ Found(u) /\ update[u].target \cap coins \subseteq update'[u].target
    BY <2>3, <1>0 DEF FoundEarlier
  <2> QED BY <2>1, <2>2, <2>3
<1>6. CoinsAreStored'
  BY <1>0, <1>1 DEF CoinsAreStored
<1>7. EarlierEnded'
  BY <1>0 DEF EarlierEnded
<1>8. ListsReplaced'
  BY <1>0, <1>2 DEF ListsReplaced
<1> QED BY <1>4, <1>5, <1>6, <1>7, <1>8 DEF ListsInv

\* A request that stores its list.
LEMMA ListIsStored ==
    ASSUME ReportsInv, ListsInv, NEW u \in Updates, StoreReport(u), update[u].list
    PROVE  ListsInv'
<1>0. /\ OneWriter /\ FoundEarlier /\ CoinsAreStored /\ EarlierEnded /\ ListsReplaced
      /\ ReportsTypeOK
  BY DEF ListsInv, ReportsInv
<1>1. /\ coins' = (coins \ update[u].target) \cup {u} /\ earlier' = earlier
      /\ update[u].state = "inserting" /\ Found(u) /\ Step(u, "stored")
  BY DEF StoreReport, Found
<1>2. /\ update' \in [Updates -> UpdateState]
      /\ \A v \in Updates : /\ update'[v].text = update[v].text
                            /\ update'[v].target = update[v].target
                            /\ v # u => update'[v] = update[v]
      /\ update'[u].state = "stored"
  <2>1. "stored" \in States
    BY DEF States
  <2> QED BY <1>0, <1>1, <2>1, StepChange
<1>3. \A v \in Updates : Found(v)' => Found(v) /\ v # u
  BY <1>2 DEF Found
<1>4. u \notin coins /\ u # First
  BY <1>0, <1>1, ReportsAssumption DEF CoinsAreStored
<1>5. First \notin coins'
  BY <1>0, <1>1, <1>4 DEF FoundEarlier
<1>6. \A v \in Updates : u \notin earlier[v]
  BY <1>0, <1>1 DEF EarlierEnded
<1>7. OneWriter'
  BY <1>0, <1>2 DEF OneWriter, LocksText, Open
<1>8. FoundEarlier'
  <2> SUFFICES ASSUME NEW w \in Updates, Found(w)',
                      NEW v \in (coins' \cap Updates) \ update[w].target
               PROVE  v \notin earlier[w] /\ ~(update[w].text /\ update[v].text)
    BY <1>1, <1>2, <1>5 DEF FoundEarlier, Found
  <2>1. Found(w) /\ w # u
    BY <1>3
  <2>2. CASE v = u
    BY <2>1, <2>2, <1>0, <1>1, <1>6 DEF OneWriter, LocksText, Open, Found
  <2>3. CASE v # u
    BY <2>1, <2>3, <1>0, <1>1 DEF FoundEarlier
  <2> QED BY <2>2, <2>3
<1>9. CoinsAreStored'
  BY <1>0, <1>1, <1>2 DEF CoinsAreStored
<1>10. EarlierEnded'
  BY <1>0, <1>1, <1>2 DEF EarlierEnded
<1>11. ListsReplaced'
  <2>1. \A v \in coins \cap Updates : v \notin update[u].target =>
          v \notin earlier[u] /\ ~(update[u].text /\ update[v].text)
    BY <1>0, <1>1 DEF FoundEarlier
  <2> SUFFICES ASSUME NEW v \in coins' \cap Updates, NEW w \in coins' \cap Updates, v # w
               PROVE  /\ v \notin earlier[w] /\ w \notin earlier[v]
                      /\ ~(update[v].text /\ update[w].text)
    BY <1>1, <1>2, <1>5 DEF ListsReplaced
  <2>2. CASE v = u
    BY <2>1, <2>2, <1>1, <1>6
  <2>3. CASE w = u
    BY <2>1, <2>3, <1>1, <1>6
  <2>4. CASE v # u /\ w # u
    BY <2>4, <1>0, <1>1 DEF ListsReplaced
  <2> QED BY <2>2, <2>3, <2>4
<1> QED BY <1>7, <1>8, <1>9, <1>10, <1>11 DEF ListsInv

\* A request that stores a text only, or nothing.
LEMMA TextIsStored ==
    ASSUME ReportsInv, ListsInv, NEW u \in Updates, StoreReport(u), ~update[u].list
    PROVE  ListsInv'
<1>1. /\ ReportsTypeOK /\ "stored" \in States /\ Step(u, "stored") /\ earlier' = earlier
      /\ update[u].state \notin {"stored", "refused"}
  BY DEF ReportsInv, StoreReport, States
<1>2. coins' = coins
  BY DEF StoreReport, ReportsInv, Targets, Found
<1>3. /\ \A v \in Updates : /\ update'[v].text = update[v].text
                            /\ v # u => update'[v] = update[v]
      /\ update'[u].state = "stored"
  BY <1>1, StepChange
<1>4. ~LocksText(u)' /\ ~Found(u)'
  BY <1>3 DEF LocksText, Open, Found
<1> QED BY <1>1, <1>2, <1>3, <1>4, RequestMoves

LEMMA ListsInvStep ==
    ReportsInv /\ ListsInv /\ [ReportsNext]_reportsVars => ListsInv'
<1> SUFFICES ASSUME ReportsInv, ListsInv, [ReportsNext]_reportsVars
             PROVE  ListsInv'
  OBVIOUS
<1>0. /\ OneWriter /\ FoundEarlier /\ CoinsAreStored /\ EarlierEnded /\ ListsReplaced
      /\ ReportsTypeOK
  BY DEF ListsInv, ReportsInv
<1>1. ASSUME NEW u \in Updates, NEW t \in BOOLEAN, NEW l \in BOOLEAN, SelectReport(u, t, l)
      PROVE  ListsInv'
  <2>1. /\ update' \in [Updates -> UpdateState]
        /\ \A v \in Updates : v # u => update'[v] = update[v]
        /\ update'[u].state \in {"selected", "refused"}
    BY <1>0, <1>1, SelectChange
  <2>2. /\ u \notin coins /\ coins' = coins /\ update[u].state = "new"
        /\ \A v \in Updates : v # u => earlier'[v] = earlier[v]
        /\ earlier'[u] = Ended
    BY <1>0, <1>1 DEF SelectReport, CoinsAreStored, ReportsTypeOK
  <2>3. ~LocksText(u)' /\ ~Found(u)'
    BY <2>1 DEF LocksText, Open, Found
  <2>4. OneWriter'
    BY <1>0, <2>1, <2>3 DEF OneWriter, LocksText, Open
  <2>5. FoundEarlier'
    BY <1>0, <2>1, <2>2, <2>3 DEF FoundEarlier, Found
  <2>6. CoinsAreStored'
    BY <1>0, <2>1, <2>2 DEF CoinsAreStored
  <2>7. EarlierEnded'
    BY <1>0, <2>1, <2>2 DEF EarlierEnded, Ended
  <2>8. ListsReplaced'
    BY <1>0, <2>1, <2>2 DEF ListsReplaced
  <2> QED BY <2>4, <2>5, <2>6, <2>7, <2>8 DEF ListsInv
<1>2. ASSUME NEW u \in Updates, WriteText(u)
      PROVE  ListsInv'
  <2>1. PICK st \in {"refused", "written"} : Step(u, st)
    BY <1>2 DEF WriteText
  <2>2. /\ st \in States /\ update[u].state = "selected" /\ coins' = coins /\ earlier' = earlier
        /\ update[u].text => \A v \in Updates \ {u} : ~LocksText(v)
    BY <1>2 DEF WriteText, States
  <2>3. /\ \A v \in Updates : /\ update'[v].text = update[v].text
                              /\ v # u => update'[v] = update[v]
        /\ update'[u].state = st
    BY <1>0, <2>1, <2>2, StepChange
  <2>4. ~Found(u)' /\ (LocksText(u)' => update[u].text)
    BY <2>3 DEF LocksText, Found
  <2> QED BY <2>2, <2>3, <2>4, RequestMoves
<1>3. ASSUME NEW u \in Updates, FindCoins(u)
      PROVE  ListsInv'
  <2>1. /\ coins \in SUBSET Authors /\ "deleting" \in States
        /\ update' = [update EXCEPT ![u].state = "deleting", ![u].target = coins]
        /\ update[u].state = "written" /\ coins' = coins /\ earlier' = earlier
    BY <1>0, <1>3 DEF FindCoins, ReportsTypeOK, States
  <2>2. /\ \A v \in Updates : /\ update'[v].text = update[v].text
                              /\ v # u => update'[v] = update[v]
        /\ update'[u].state = "deleting" /\ update'[u].target = coins
    BY <1>0, <2>1, TargetChange
  <2>3. LocksText(u)' => LocksText(u)
    BY <2>1, <2>2 DEF LocksText, Open
  <2> QED BY <2>1, <2>2, <2>3, RequestMoves
<1>4. ASSUME NEW u \in Updates, DeleteCoins(u)
      PROVE  ListsInv'
  <2> DEFINE S == update[u].target \cap coins
  <2>1. /\ S \in SUBSET Authors /\ "inserting" \in States
        /\ update' = [update EXCEPT ![u].state = "inserting", ![u].target = S]
        /\ update[u].state = "deleting" /\ coins' = coins /\ earlier' = earlier
    BY <1>0, <1>4 DEF DeleteCoins, ReportsTypeOK, States
  <2>2. Found(u) /\ update[u].target \cap coins \subseteq S
    BY <2>1 DEF Found
  <2> HIDE DEF S
  <2>3. /\ \A v \in Updates : /\ update'[v].text = update[v].text
                              /\ v # u => update'[v] = update[v]
        /\ update'[u].state = "inserting" /\ update'[u].target = S
    BY <1>0, <2>1, TargetChange
  <2>4. LocksText(u)' => LocksText(u)
    BY <2>1, <2>3 DEF LocksText, Open
  <2> QED BY <2>1, <2>2, <2>3, <2>4, RequestMoves
<1>5. ASSUME NEW u \in Updates, StoreReport(u)
      PROVE  ListsInv'
  BY <1>5, ListIsStored, TextIsStored
<1>6. ASSUME NEW u \in Updates, Step(u, "refused"), coins' = coins, earlier' = earlier,
             update[u].state \in {"deleting", "inserting"}
      PROVE  ListsInv'
  <2>1. "refused" \in States
    BY DEF States
  <2>2. /\ \A v \in Updates : /\ update'[v].text = update[v].text
                              /\ v # u => update'[v] = update[v]
        /\ update'[u].state = "refused"
    BY <1>0, <1>6, <2>1, StepChange
  <2>3. ~LocksText(u)' /\ ~Found(u)'
    BY <2>2 DEF LocksText, Open, Found
  <2> QED BY <1>6, <2>2, <2>3, RequestMoves
<1>7. ASSUME coins' \subseteq coins, UNCHANGED <<update, earlier>>
      PROVE  ListsInv'
  <2>1. First \in coins' => coins' = {First}
    BY <1>0, <1>7 DEF ListsReplaced
  <2> QED BY <1>0, <1>7, <2>1 DEF ListsInv, OneWriter, LocksText, Open, FoundEarlier, Found,
             CoinsAreStored, EarlierEnded, ListsReplaced
<1>8. ASSUME NEW u \in Updates, NoReport(u) \/ EndDeadlock(u)
      PROVE  ListsInv'
  BY <1>6, <1>7, <1>8 DEF NoReport, EndDeadlock, Deadlocked
<1>9. CASE \/ DeletionStep \/ SelectForDelete \/ UNCHANGED reportsVars
           \/ \E r \in Readers : ReadReport(r) \/ ReadCoins(r)
  BY <1>7, <1>9 DEF DeletionStep, RemoveCoins, RemoveReport, Cascade, SelectForDelete,
     ReadReport, ReadCoins, reportsVars
<1> QED BY <1>1, <1>2, <1>3, <1>4, <1>5, <1>8, <1>9 DEF ReportsNext, UpdateStep

(* Two lists are stored together only if their requests overlapped, and    *)
(* not both of them wrote a text.                                          *)
THEOREM ListsAreReplaced == ReportsSpec => []ListsReplaced
<1>1. ReportsInit => ListsInv
  BY ReportsAssumption DEF ReportsInit, ListsInv, OneWriter, LocksText, Open, FoundEarlier,
     Found, CoinsAreStored, EarlierEnded, ListsReplaced
<1>2. ListsInv => ListsReplaced
  BY DEF ListsInv
<1> QED BY <1>1, <1>2, ReportsInvInit, ReportsInvStep, ListsInvStep, PTL DEF ReportsSpec
=============================================================================
