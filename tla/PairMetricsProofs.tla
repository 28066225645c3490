--------------------------- MODULE PairMetricsProofs ---------------------------
(***************************************************************************)
(* Theorems about PairMetrics, for any pairs, writers and figures, any     *)
(* readings of the clock and any number of faults and of edits by hand.    *)
(***************************************************************************)
EXTENDS PairMetrics, TLAPS

Version == Row \cup {NoRow}

\* A statement that was sent is for one of the writer's pairs.
Sent == \A w \in Writers : phase[w] \in {"sent", "failed"} => at[w] <= last[w]

\* Nobody holds a row another writer holds.
Exclusive ==
    \A v, w \in Writers, p \in Pairs : v # w => ~(Held(v, p) /\ Held(w, p))

(* A version may follow another one: there was none, it is the same, or it *)
(* is newer and has every figure the other one had.                        *)
Follows(new, old) ==
    \/ old = NoRow
    \/ new = old
    \/ /\ new.stamp > old.stamp
       /\ \A f \in Fields : old.figures[f] # Missing => new.figures[f] # Missing

\* What a transaction holds follows what is in the table.
HeldFollows == \A w \in Writers, p \in Pairs : Held(w, p) => Follows(own[w][p], rows[p])

\* An open form shows a row, and there is an edit left for it.
FormShown ==
    form # NoForm => form.pair \in Pairs /\ form.row \in Row /\ edits < MaxEdits

MetricsInv == MetricsTypeOK /\ Sent /\ FormShown /\ Exclusive /\ HeldFollows

-----------------------------------------------------------------------------
(* The upsert *)

\* NoRow is not a row, and no writer is NULL.
LEMMA RowIsNoNoRow == NoRow \notin Row /\ Missing \notin Writers
BY MetricsAssumption DEF Row

\* What INSERT makes is a row.
LEMMA InsertedRow ==
    ASSUME MetricsTypeOK, NEW w \in Writers
    PROVE  Inserted(w) \in Row
BY DEF Inserted, Row, MetricsTypeOK

\* What DO UPDATE makes of a row is one.
LEMMA MergedRow ==
    ASSUME MetricsTypeOK, NEW w \in Writers, NEW old \in Row
    PROVE  Merged(old, w) \in Row
BY DEF Merged, Row, MetricsTypeOK

\* An upsert leaves a row behind.
LEMMA UpsertedRow ==
    ASSUME MetricsTypeOK, NEW w \in Writers, NEW old \in Version
    PROVE  Upserted(old, w) \in Row
<1>1. CASE old = NoRow
  BY <1>1, InsertedRow DEF Upserted
<1>2. CASE old # NoRow /\ Newer(old, w)
  <2>1. old \in Row
    BY <1>2 DEF Version
  <2> QED BY <1>2, <2>1, MergedRow DEF Upserted
<1>3. CASE old # NoRow /\ ~Newer(old, w)
  BY <1>3 DEF Upserted, Version
<1> QED BY <1>1, <1>2, <1>3

\* The figures and the timestamp of a merged row.
LEMMA MergedFollows ==
    ASSUME MetricsTypeOK, NEW w \in Writers, NEW old \in Row, Newer(old, w)
    PROVE  Follows(Merged(old, w), old)
<1>1. Merged(old, w).stamp > old.stamp
  BY DEF Merged, Newer, Row, MetricsTypeOK
<1>2. ASSUME NEW f \in Fields, old.figures[f] # Missing
      PROVE  Merged(old, w).figures[f] # Missing
  BY <1>2, RowIsNoNoRow DEF Merged
<1> QED BY <1>1, <1>2 DEF Follows

\* Versions that follow one another in turn.
LEMMA FollowsInTurn ==
    ASSUME NEW a \in Row, NEW b \in Version, NEW c \in Version,
           Follows(a, b), Follows(b, c), b = NoRow => c = NoRow
    PROVE  Follows(a, c)
<1>1. CASE c = NoRow
  BY <1>1 DEF Follows
<1>2. CASE c # NoRow
  <2>1. a \in Row /\ b \in Row /\ c \in Row
    BY <1>2 DEF Version
  <2>2. a.stamp \in Nat /\ b.stamp \in Nat /\ c.stamp \in Nat
    BY <2>1 DEF Row
  <2>3. b # NoRow
    BY <2>1, RowIsNoNoRow
  <2> QED BY <1>2, <2>2, <2>3 DEF Follows
<1> QED BY <1>1, <1>2

\* An upsert follows the version it found.
LEMMA UpsertedFollows ==
    ASSUME MetricsTypeOK, NEW w \in Writers, NEW old \in Version
    PROVE  Follows(Upserted(old, w), old)
<1>1. CASE old = NoRow
  BY <1>1 DEF Follows
<1>2. CASE old # NoRow /\ Newer(old, w)
  <2>1. old \in Row
    BY <1>2 DEF Version
  <2> QED BY <1>2, <2>1, MergedFollows DEF Upserted
<1>3. CASE old # NoRow /\ ~Newer(old, w)
  BY <1>3 DEF Upserted, Follows
<1> QED BY <1>1, <1>2, <1>3

\* A transaction sees a version of the row or none.
LEMMA SeenVersion ==
    ASSUME MetricsTypeOK, NEW w \in Writers, NEW p \in Pairs
    PROVE  Seen(w, p) \in Version
BY DEF MetricsTypeOK, Seen, Version

\* What a transaction sees follows what is in the table.
LEMMA SeenFollows ==
    ASSUME MetricsInv, NEW w \in Writers, NEW p \in Pairs
    PROVE  /\ Follows(Seen(w, p), rows[p])
           /\ Seen(w, p) = NoRow => rows[p] = NoRow
BY DEF MetricsInv, HeldFollows, Seen, Held, Follows

-----------------------------------------------------------------------------
(* The invariant *)

LEMMA MetricsInvInit == MetricsInit => MetricsInv
<1> SUFFICES ASSUME MetricsInit PROVE MetricsInv
  OBVIOUS
<1> USE MetricsAssumption
<1>1. MetricsTypeOK
  BY DEF MetricsInit, MetricsTypeOK, NothingHeld, NoForm, Pairs
<1>2. Sent
  BY DEF MetricsInit, Sent
<1>3. \A w \in Writers, p \in Pairs : ~Held(w, p)
  BY DEF MetricsInit, Held, NothingHeld
<1>4. FormShown
  BY DEF MetricsInit, FormShown
<1> QED BY <1>1, <1>2, <1>3, <1>4 DEF MetricsInv, Exclusive, HeldFollows

\* Rolling back keeps the types of the versions.
LEMMA RollbackType ==
    ASSUME MetricsTypeOK, NEW w \in Writers, Rollback(w)
    PROVE  own' \in [Writers -> [Pairs -> Row \cup {NoRow}]]
BY DEF Rollback, NothingHeld, MetricsTypeOK

\* Committing makes a table of what the transaction sees.
LEMMA CommitType ==
    ASSUME MetricsTypeOK, NEW w \in Writers, rows' = [p \in Pairs |-> Seen(w, p)]
    PROVE  rows' \in [Pairs -> Row \cup {NoRow}]
BY SeenVersion DEF Version

\* A form that is saved leaves a row, or none where there was none.
LEMMA SavedType ==
    ASSUME MetricsTypeOK, FormShown, SaveForm
    PROVE  rows' \in [Pairs -> Row \cup {NoRow}]
<1>1. PICK typed \in SUBSET Fields :
        rows' = [rows EXCEPT ![form.pair] =
                    IF @ = NoRow THEN NoRow
                    ELSE [form.row EXCEPT !.figures =
                            [f \in Fields |-> IF f \in typed THEN Hand ELSE @[f]]]]
  BY DEF SaveForm
<1> DEFINE figures == [f \in Fields |-> IF f \in typed THEN Hand ELSE form.row.figures[f]]
<1> DEFINE new == [form.row EXCEPT !.figures = figures]
<1>2. form.row \in Row
  BY DEF FormShown, SaveForm
<1>3. figures \in [Fields -> Writers \cup {Missing, Hand}]
  BY <1>2 DEF Row
<1>4. new \in Row
  <2> HIDE DEF figures
  <2> QED BY <1>2, <1>3 DEF Row
<1>5. rows' = [rows EXCEPT ![form.pair] = IF @ = NoRow THEN NoRow ELSE new]
  BY <1>1
<1> HIDE DEF new
<1> QED BY <1>4, <1>5 DEF MetricsTypeOK

-----------------------------------------------------------------------------
(* Every step keeps the types. *)

LEMMA MetricsTypeStep == MetricsInv /\ [MetricsNext]_metricsVars => MetricsTypeOK' /\ Sent' /\ FormShown'
<1> SUFFICES ASSUME MetricsInv, [MetricsNext]_metricsVars
             PROVE  MetricsTypeOK' /\ Sent' /\ FormShown'
  OBVIOUS
<1> USE MetricsAssumption
<1>0. MetricsTypeOK /\ Sent /\ FormShown
  BY DEF MetricsInv
<1>1. ASSUME NEW w \in Writers, NEW p \in Pairs, Start(w, p)
      PROVE  MetricsTypeOK' /\ Sent' /\ FormShown'
  BY <1>0, <1>1 DEF Start, MetricsTypeOK, Sent, FormShown, Pairs
<1>2. ASSUME NEW w \in Writers, SkipInvalid(w)
      PROVE  MetricsTypeOK' /\ Sent' /\ FormShown'
  BY <1>0, <1>2 DEF SkipInvalid, MetricsTypeOK, Sent, FormShown, Pairs
<1>3. ASSUME NEW w \in Writers, Send(w)
      PROVE  MetricsTypeOK' /\ Sent' /\ FormShown'
  BY <1>0, <1>3 DEF Send, MetricsTypeOK, Sent, FormShown, Pairs
<1>4. ASSUME NEW w \in Writers, Execute(w)
      PROVE  MetricsTypeOK' /\ Sent' /\ FormShown'
  <2>1. at[w] \in Pairs
    BY <1>0, <1>4 DEF Execute, Sent, MetricsTypeOK, Pairs
  <2>2. Upserted(Seen(w, at[w]), w) \in Row
    BY <1>0, <2>1, SeenVersion, UpsertedRow
  <2>3. own' \in [Writers -> [Pairs -> Row \cup {NoRow}]]
    BY <1>0, <1>4, <2>1, <2>2 DEF Execute, MetricsTypeOK
  <2>4. at' \in [Writers -> 1..(NPairs + 1)]
    BY <1>0, <1>4, <2>1 DEF Execute, MetricsTypeOK, Pairs
  <2> QED BY <1>0, <1>4, <2>3, <2>4 DEF Execute, MetricsTypeOK, Sent, FormShown
<1>5. ASSUME NEW w \in Writers, Orphaned(w)
      PROVE  MetricsTypeOK' /\ Sent' /\ FormShown'
  BY <1>0, <1>5, RollbackType DEF Orphaned, MetricsTypeOK, Sent, FormShown
<1>6. ASSUME NEW w \in Writers, StatementFails(w)
      PROVE  MetricsTypeOK' /\ Sent' /\ FormShown'
  BY <1>0, <1>6 DEF StatementFails, MetricsTypeOK, Sent, FormShown
<1>7. ASSUME NEW w \in Writers, RetryRefused(w)
      PROVE  MetricsTypeOK' /\ Sent' /\ FormShown'
  BY <1>0, <1>7, RollbackType DEF RetryRefused, MetricsTypeOK, Sent, FormShown
<1>8. ASSUME NEW w \in Writers, Commit(w)
      PROVE  MetricsTypeOK' /\ Sent' /\ FormShown'
  <2>1. rows' \in [Pairs -> Row \cup {NoRow}]
    BY <1>0, <1>8, CommitType DEF Commit
  <2> QED BY <1>0, <1>8, <2>1, RollbackType DEF Commit, MetricsTypeOK, Sent, FormShown
<1>9. ASSUME NEW w \in Writers, Die(w)
      PROVE  MetricsTypeOK' /\ Sent' /\ FormShown'
  BY <1>0, <1>9, RollbackType DEF Die, MetricsTypeOK, Sent, FormShown
<1>10. ASSUME NEW p \in Pairs, OpenForm(p)
       PROVE  MetricsTypeOK' /\ Sent' /\ FormShown'
  <2>1. rows[p] \in Row
    BY <1>0, <1>10 DEF OpenForm, MetricsTypeOK
  <2>2. form' \in [pair : 0..NPairs, row : Row \cup {NoRow}]
    BY <1>10, <2>1 DEF OpenForm, Pairs
  <2>3. FormShown'
    BY <1>10, <2>1 DEF OpenForm, FormShown
  <2> QED BY <1>0, <1>10, <2>2, <2>3 DEF OpenForm, MetricsTypeOK, Sent
<1>11. CASE SaveForm
  <2>1. rows' \in [Pairs -> Row \cup {NoRow}]
    BY <1>0, <1>11, SavedType
  <2>2. edited' \subseteq Pairs
    BY <1>0, <1>11 DEF SaveForm, MetricsTypeOK, FormShown
  <2>3. form' \in [pair : 0..NPairs, row : Row \cup {NoRow}] /\ FormShown'
    BY <1>11 DEF SaveForm, NoForm, FormShown
  <2>4. edits' \in 0..MaxEdits
    BY <1>0, <1>11 DEF SaveForm, MetricsTypeOK, FormShown
  <2> QED BY <1>0, <1>11, <2>1, <2>2, <2>3, <2>4 DEF SaveForm, MetricsTypeOK, Sent
<1>12. CASE DeleteStrategy
  BY <1>0, <1>12 DEF DeleteStrategy, NothingHeld, MetricsTypeOK, Sent, FormShown
<1>13. CASE ClockTick
  BY <1>0, <1>13 DEF ClockTick, MetricsTypeOK, Sent, FormShown
<1>14. CASE UNCHANGED metricsVars
  BY <1>0, <1>14 DEF metricsVars, MetricsTypeOK, Sent, FormShown
<1> QED
  BY <1>1, <1>2, <1>3, <1>4, <1>5, <1>6, <1>7, <1>8, <1>9, <1>10, <1>11, <1>12, <1>13, <1>14
  DEF MetricsNext, WriterStep

-----------------------------------------------------------------------------
(* Every step keeps what is held apart, and newer than the table. *)

\* Whoever rolls back holds nothing, the others what they held.
LEMMA RollbackHolds ==
    ASSUME MetricsInv, NEW w \in Writers, Rollback(w)
    PROVE  /\ \A p \in Pairs : ~Held(w, p)'
           /\ \A v \in Writers \ {w} : own'[v] = own[v]
BY DEF Rollback, NothingHeld, Held, MetricsInv, MetricsTypeOK

\* A rollback alone disturbs nothing.
LEMMA RollbackKeeps ==
    ASSUME MetricsInv, NEW w \in Writers, Rollback(w), UNCHANGED rows
    PROVE  Exclusive' /\ HeldFollows'
BY RollbackHolds DEF MetricsInv, Exclusive, HeldFollows, Held

\* Nor does a step that leaves table and transactions alone.
LEMMA UntouchedKeeps ==
    ASSUME MetricsInv, UNCHANGED <<rows, own>>
    PROVE  Exclusive' /\ HeldFollows'
BY DEF MetricsInv, Exclusive, HeldFollows, Held, Follows

\* An upsert keeps the row to itself, and what it makes of it follows.
LEMMA ExecuteKeeps ==
    ASSUME MetricsInv, NEW w \in Writers, Execute(w)
    PROVE  Exclusive' /\ HeldFollows'
<1> DEFINE p == at[w]
           new == Upserted(Seen(w, p), w)
<1>1. p \in Pairs
  BY MetricsAssumption DEF MetricsInv, Execute, Sent, MetricsTypeOK, Pairs
<1>2. new \in Row /\ new # NoRow
  BY <1>1, SeenVersion, UpsertedRow, RowIsNoNoRow DEF MetricsInv
<1>3. Follows(new, rows[p])
  <2>1. Seen(w, p) \in Version /\ rows[p] \in Version
    BY <1>1, SeenVersion DEF MetricsInv, MetricsTypeOK, Version
  <2>2. Follows(new, Seen(w, p))
    BY <2>1, UpsertedFollows DEF MetricsInv
  <2>3. Follows(Seen(w, p), rows[p]) /\ (Seen(w, p) = NoRow => rows[p] = NoRow)
    BY <1>1, SeenFollows
  <2> QED BY <1>2, <2>1, <2>2, <2>3, FollowsInTurn
<1>4. /\ \A v \in Writers, q \in Pairs :
            own'[v][q] = IF v = w /\ q = p THEN new ELSE own[v][q]
      /\ UNCHANGED rows /\ ~Locked(w, p)
  <2> HIDE DEF new
  <2>1. own' = [own EXCEPT ![w][p] = new] /\ UNCHANGED rows /\ ~Locked(w, p)
    BY DEF Execute, new
  <2> QED BY <1>1, <2>1 DEF MetricsInv, MetricsTypeOK
<1> HIDE DEF new, p
<1>5. Exclusive'
  BY <1>1, <1>4 DEF MetricsInv, Exclusive, Held, Locked
<1>6. HeldFollows'
  <2> SUFFICES ASSUME NEW v \in Writers, NEW q \in Pairs, Held(v, q)'
               PROVE  Follows(own'[v][q], rows'[q])
    BY DEF HeldFollows, Follows
  <2>1. CASE v = w /\ q = p
    BY <1>1, <1>3, <1>4, <2>1
  <2>2. CASE ~(v = w /\ q = p)
    BY <1>4, <2>2 DEF MetricsInv, HeldFollows, Held
  <2> QED BY <2>1, <2>2
<1> QED BY <1>5, <1>6

\* A commit changes only rows that nobody else holds.
LEMMA CommitKeeps ==
    ASSUME MetricsInv, NEW w \in Writers, Commit(w)
    PROVE  Exclusive' /\ HeldFollows'
<1>1. Rollback(w) /\ rows' = [p \in Pairs |-> Seen(w, p)]
  BY DEF Commit
<1>2. Exclusive'
  BY <1>1, RollbackHolds DEF MetricsInv, Exclusive, Held
<1>3. HeldFollows'
  <2> SUFFICES ASSUME NEW v \in Writers, NEW q \in Pairs, Held(v, q)'
               PROVE  Follows(own'[v][q], rows'[q])
    BY DEF HeldFollows, Follows
  <2>1. v # w /\ own'[v] = own[v] /\ Held(v, q)
    BY <1>1, RollbackHolds DEF Held
  <2>2. ~Held(w, q)
    BY <2>1 DEF MetricsInv, Exclusive
  <2>3. rows'[q] = rows[q]
    BY <1>1, <2>2 DEF Seen
  <2> QED BY <2>1, <2>3 DEF MetricsInv, HeldFollows
<1> QED BY <1>2, <1>3

\* A form is saved over a row that nobody holds.
LEMMA SaveKeeps ==
    ASSUME MetricsInv, SaveForm
    PROVE  Exclusive' /\ HeldFollows'
<1>1. UNCHANGED own /\ \A w \in Writers : ~Held(w, form.pair)
  BY DEF SaveForm
<1>2. \A q \in Pairs : q # form.pair => rows'[q] = rows[q]
  BY DEF SaveForm, MetricsInv, MetricsTypeOK
<1>3. Exclusive'
  BY <1>1 DEF MetricsInv, Exclusive, Held
<1>4. HeldFollows'
  BY <1>1, <1>2 DEF MetricsInv, HeldFollows, Held, Follows
<1> QED BY <1>3, <1>4

LEMMA MetricsInvStep == MetricsInv /\ [MetricsNext]_metricsVars => MetricsInv'
<1> SUFFICES ASSUME MetricsInv, [MetricsNext]_metricsVars
             PROVE  Exclusive' /\ HeldFollows'
  BY MetricsTypeStep DEF MetricsInv
<1>1. ASSUME NEW w \in Writers, Execute(w)
      PROVE  Exclusive' /\ HeldFollows'
  BY <1>1, ExecuteKeeps
<1>2. ASSUME NEW w \in Writers, Commit(w)
      PROVE  Exclusive' /\ HeldFollows'
  BY <1>2, CommitKeeps
<1>3. ASSUME NEW w \in Writers, Orphaned(w) \/ RetryRefused(w) \/ Die(w)
      PROVE  Exclusive' /\ HeldFollows'
  BY <1>3, RollbackKeeps DEF Orphaned, RetryRefused, Die
<1>4. ASSUME NEW w \in Writers, NEW p \in Pairs, Start(w, p)
      PROVE  Exclusive' /\ HeldFollows'
  BY <1>4, UntouchedKeeps DEF Start
<1>5. CASE SaveForm
  BY <1>5, SaveKeeps
<1>6. CASE DeleteStrategy
  <2>1. UNCHANGED own /\ \A w \in Writers, p \in Pairs : ~Held(w, p)
    BY <1>6 DEF DeleteStrategy
  <2> QED BY <2>1 DEF Exclusive, HeldFollows, Held
<1>7. CASE ClockTick \/ UNCHANGED metricsVars
  BY <1>7, UntouchedKeeps DEF ClockTick, metricsVars
<1>8. ASSUME NEW p \in Pairs, OpenForm(p)
      PROVE  Exclusive' /\ HeldFollows'
  BY <1>8, UntouchedKeeps DEF OpenForm
<1>9. ASSUME NEW w \in Writers, SkipInvalid(w) \/ Send(w) \/ StatementFails(w)
      PROVE  Exclusive' /\ HeldFollows'
  BY <1>9, UntouchedKeeps DEF SkipInvalid, Send, StatementFails
<1> QED BY <1>1, <1>2, <1>3, <1>4, <1>5, <1>6, <1>7, <1>8, <1>9 DEF MetricsNext, WriterStep

-----------------------------------------------------------------------------
(* Every row, transaction and form keeps its type. *)
THEOREM MetricsTypeCorrect == MetricsSpec => []MetricsTypeOK
<1>1. MetricsInv => MetricsTypeOK
  BY DEF MetricsInv
<1> QED BY <1>1, MetricsInvInit, MetricsInvStep, PTL DEF MetricsSpec

\* A step that neither edits nor deletes leaves a row that follows the old one.
LEMMA RowsFollow ==
    ASSUME MetricsInv, [MetricsNext]_metricsVars, NEW p \in Pairs,
           rows[p] # NoRow, listed', edits' = edits
    PROVE  rows'[p] # NoRow /\ Follows(rows'[p], rows[p])
<1> USE MetricsAssumption
<1>1. ASSUME NEW w \in Writers, Commit(w)
      PROVE  rows'[p] # NoRow /\ Follows(rows'[p], rows[p])
  <2>1. rows'[p] = Seen(w, p)
    BY <1>1 DEF Commit
  <2> QED BY <2>1, SeenFollows
<1>2. CASE UNCHANGED rows
  BY <1>2 DEF Follows
<1>3. CASE SaveForm
  BY <1>3 DEF SaveForm, MetricsInv, MetricsTypeOK
<1>4. CASE DeleteStrategy
  BY <1>4 DEF DeleteStrategy
<1>5. \/ \E w \in Writers : Commit(w)
      \/ UNCHANGED rows \/ SaveForm \/ DeleteStrategy
  BY DEF MetricsNext, WriterStep, Start, SkipInvalid, Send, Execute, Orphaned,
         RetryRefused, StatementFails, Die, OpenForm, ClockTick, metricsVars
<1> QED BY <1>1, <1>2, <1>3, <1>4, <1>5

(* A row is replaced, other than by hand, only by a later one, whatever    *)
(* statements wait for one another and whichever of them fail.             *)
THEOREM StampsOnlyAdvance == MetricsSpec => StampsAdvance
<1>1. MetricsInv /\ [MetricsNext]_metricsVars =>
        [\A p \in Pairs :
           (rows[p] # NoRow /\ rows'[p] # rows[p] /\ listed' /\ edits' = edits)
             => rows'[p] # NoRow /\ rows'[p].stamp > rows[p].stamp]_metricsVars
  BY RowsFollow DEF Follows
<1> QED BY <1>1, MetricsInvInit, MetricsInvStep, PTL DEF MetricsSpec, StampsAdvance

(* A figure once measured is not replaced by NULL, whatever transactions   *)
(* hold which versions of the row.                                         *)
THEOREM FiguresAreKept == MetricsSpec => FiguresKept
<1>1. MetricsInv /\ [MetricsNext]_metricsVars =>
        [\A p \in Pairs : \A f \in Fields :
           (/\ rows[p] # NoRow /\ rows[p].figures[f] # Missing
            /\ listed' /\ edits' = edits)
             => rows'[p] # NoRow /\ rows'[p].figures[f] # Missing]_metricsVars
  BY RowsFollow DEF Follows
<1> QED BY <1>1, MetricsInvInit, MetricsInvStep, PTL DEF MetricsSpec, FiguresKept

-----------------------------------------------------------------------------
(* The rows of one backtest *)

Working(w) == phase[w] \in {"next", "sent", "failed"}

\* A clock reading is not in the future.
StampsPast == \A w \in Writers : stamp[w] <= clock

\* A backtest writes all pairs and holds those it has come past; with figures
\* that are out of range it holds none.
BatchHolds ==
    \A b \in Batches :
      /\ Working(b) => last[b] = NPairs
      /\ phase[b] = "sent" => valid[b]
      /\ \A p \in Pairs : Held(b, p) <=> Working(b) /\ valid[b] /\ p < at[b]

\* What a transaction holds it wrote itself, no later than now, unless it found
\* a newer row and left it as it was.
HeldOrigin ==
    \A w \in Writers, p \in Pairs :
      Held(w, p) => \/ own[w][p] = rows[p]
                    \/ own[w][p].source = w /\ own[w][p].stamp <= stamp[w]

\* A backtest writes its rows one after the other.
BatchInOrder ==
    \A b \in Batches, p, q \in Pairs :
      (p < q /\ Held(b, p) /\ Held(b, q))
        => own[b][p] = rows[p] \/ own[b][q].stamp >= own[b][p].stamp

BatchInv == StampsPast /\ BatchHolds /\ HeldOrigin /\ BatchInOrder /\ BatchIsWhole

LEMMA BatchInvInit == MetricsInit => BatchInv
<1> SUFFICES ASSUME MetricsInit PROVE BatchInv
  OBVIOUS
<1>1. \A w \in Writers, p \in Pairs : ~Held(w, p) /\ rows[p] = NoRow
  BY DEF MetricsInit, Held, NothingHeld
<1>2. \A w \in Writers : ~Working(w) /\ stamp[w] = 0 /\ clock = 0
  BY DEF MetricsInit, Working
<1>3. StampsPast
  BY <1>2 DEF StampsPast
<1>4. BatchHolds
  BY <1>1, <1>2 DEF BatchHolds, Writers, Working
<1>5. HeldOrigin /\ BatchInOrder /\ BatchIsWhole
  BY <1>1 DEF HeldOrigin, BatchInOrder, BatchIsWhole, Writers
<1> QED BY <1>3, <1>4, <1>5 DEF BatchInv

\* A step that leaves table, transactions and edits alone, and takes no reading
\* of the clock back.
LEMMA QuietKeeps ==
    ASSUME MetricsInv, BatchInv, UNCHANGED <<rows, own, edited>>,
           \A w \in Writers : stamp'[w] >= stamp[w], MetricsTypeOK'
    PROVE  HeldOrigin' /\ BatchInOrder' /\ BatchIsWhole'
<1>1. \A w \in Writers, p \in Pairs : Held(w, p) => own[w][p] \in Row
  BY DEF MetricsInv, MetricsTypeOK, Held
<1>2. HeldOrigin'
  <2> SUFFICES ASSUME NEW w \in Writers, NEW p \in Pairs, Held(w, p)'
               PROVE  (\/ own[w][p] = rows[p]
                       \/ own[w][p].source = w /\ own[w][p].stamp <= stamp[w])'
    BY DEF HeldOrigin
  <2>1. Held(w, p) /\ own[w][p] \in Row
    BY <1>1 DEF Held
  <2>2. own[w][p].stamp \in Int /\ stamp[w] \in Int /\ stamp'[w] \in Int
    BY <2>1 DEF Row, MetricsInv, MetricsTypeOK
  <2> QED BY <2>1, <2>2 DEF BatchInv, HeldOrigin
<1>3. BatchInOrder' /\ BatchIsWhole'
  BY DEF BatchInv, BatchInOrder, BatchIsWhole, Held
<1> QED BY <1>2, <1>3

\* A rollback alone.
LEMMA RollbackBatches ==
    ASSUME MetricsInv, BatchInv, NEW w \in Writers, Rollback(w),
           UNCHANGED <<rows, edited, stamp>>
    PROVE  HeldOrigin' /\ BatchInOrder' /\ BatchIsWhole'
BY RollbackHolds DEF BatchInv, HeldOrigin, BatchInOrder, BatchIsWhole, Held, Writers

\* An upsert leaves a row no older than its own timestamp: its own one, or the
\* one it found.
LEMMA UpsertedStamp ==
    ASSUME MetricsTypeOK, NEW w \in Writers, NEW old \in Version
    PROVE  /\ Upserted(old, w).stamp >= stamp[w]
           /\ Upserted(old, w) # old =>
                Upserted(old, w).source = w /\ Upserted(old, w).stamp = stamp[w]
<1>1. stamp[w] \in Nat
  BY MetricsAssumption DEF MetricsTypeOK
<1>2. CASE old = NoRow
  BY <1>1, <1>2 DEF Upserted, Inserted
<1>3. CASE old # NoRow /\ Newer(old, w)
  BY <1>1, <1>3 DEF Upserted, Merged
<1>4. CASE old # NoRow /\ ~Newer(old, w)
  <2>1. old \in Row /\ old.stamp \in Nat
    BY <1>4, MetricsAssumption DEF Version, Row
  <2> QED BY <1>1, <1>4, <2>1 DEF Upserted, Newer
<1> QED BY <1>2, <1>3, <1>4

\* What a step of Execute changes.
LEMMA ExecuteChange ==
    ASSUME MetricsInv, NEW w \in Writers, Execute(w)
    PROVE  /\ at[w] \in Pairs
           /\ Upserted(Seen(w, at[w]), w) \in Row
           /\ \A v \in Writers, q \in Pairs :
                own'[v][q] = IF v = w /\ q = at[w] THEN Upserted(Seen(w, at[w]), w)
                             ELSE own[v][q]
           /\ UNCHANGED <<rows, edited, stamp, clock, last, valid>>
           /\ at' = [at EXCEPT ![w] = @ + 1] /\ phase' = [phase EXCEPT ![w] = "next"]
           /\ phase[w] = "sent"
<1> DEFINE new == Upserted(Seen(w, at[w]), w)
<1>1. at[w] \in Pairs
  BY MetricsAssumption DEF MetricsInv, Execute, Sent, MetricsTypeOK, Pairs
<1>2. new \in Row
  BY <1>1, SeenVersion, UpsertedRow DEF MetricsInv
<1> HIDE DEF new
<1>3. own' = [own EXCEPT ![w][at[w]] = new]
  BY DEF Execute, new
<1>4. \A v \in Writers, q \in Pairs :
        own'[v][q] = IF v = w /\ q = at[w] THEN new ELSE own[v][q]
  BY <1>1, <1>3 DEF MetricsInv, MetricsTypeOK
<1> QED BY <1>1, <1>2, <1>4 DEF Execute, new

LEMMA ExecuteBatches ==
    ASSUME MetricsInv, BatchInv, NEW w \in Writers, Execute(w)
    PROVE  HeldOrigin' /\ BatchInOrder' /\ BatchIsWhole'
<1> DEFINE p == at[w]
           old == Seen(w, p)
           new == Upserted(old, w)
<1>1. /\ p \in Pairs /\ new \in Row /\ phase[w] = "sent"
      /\ \A v \in Writers, q \in Pairs :
           own'[v][q] = IF v = w /\ q = p THEN new ELSE own[v][q]
      /\ UNCHANGED <<rows, edited, stamp>>
  BY ExecuteChange
<1>2. /\ new.stamp >= stamp[w]
      /\ new # old => new.source = w /\ new.stamp = stamp[w]
  BY <1>1, SeenVersion, UpsertedStamp DEF MetricsInv
<1>3. new = rows[p] \/ (new.source = w /\ new.stamp <= stamp[w])
  <2>1. CASE new # old
    <3>1. stamp[w] \in Nat
      BY MetricsAssumption DEF MetricsInv, MetricsTypeOK
    <3> QED BY <1>2, <2>1, <3>1
  <2>2. CASE new = old /\ ~Held(w, p)
    BY <2>2 DEF Seen
  <2>3. CASE new = old /\ Held(w, p)
    BY <1>1, <2>3 DEF Seen, BatchInv, HeldOrigin
  <2> QED BY <2>1, <2>2, <2>3
<1> HIDE DEF new, old, p
<1>4. HeldOrigin'
  BY <1>1, <1>3 DEF BatchInv, HeldOrigin, Held
<1>5. BatchInOrder'
  <2> SUFFICES ASSUME NEW b \in Batches, NEW q \in Pairs, NEW r \in Pairs,
                      q < r, Held(b, q)', Held(b, r)'
               PROVE  own'[b][q] = rows'[q] \/ own'[b][r].stamp >= own'[b][q].stamp
    BY DEF BatchInOrder
  <2>1. b \in Writers
    BY DEF Writers
  <2>2. CASE b # w
    BY <1>1, <2>1, <2>2 DEF BatchInv, BatchInOrder, Held
  <2>3. CASE b = w
    <3>1. \A x \in Pairs : Held(w, x) => x < p
      BY <2>3 DEF BatchInv, BatchHolds, p
    <3>2. \A x \in Pairs : Held(w, x)' => x = p \/ (x < p /\ Held(w, x))
      BY <1>1, <3>1 DEF Held
    <3>3. q < p /\ Held(w, q) /\ own'[b][q] = own[w][q]
      BY <1>1, <2>1, <2>3, <3>2 DEF Pairs
    <3>4. CASE r # p
      <4>1. Held(w, r) /\ own'[b][r] = own[w][r]
        BY <1>1, <2>1, <2>3, <3>2, <3>4
      <4> QED BY <1>1, <2>3, <3>3, <4>1 DEF BatchInv, BatchInOrder
    <3>5. CASE r = p
      <4>1. own[w][q] = rows[q] \/ own[w][q].stamp <= stamp[w]
        BY <3>3 DEF BatchInv, HeldOrigin
      <4>2. own[w][q].stamp \in Int /\ stamp[w] \in Int /\ new.stamp \in Int
        BY <1>1, <3>3, MetricsAssumption DEF MetricsInv, MetricsTypeOK, Held, Row
      <4> QED BY <1>1, <1>2, <2>1, <2>3, <3>3, <3>5, <4>1, <4>2
    <3> QED BY <3>4, <3>5
  <2> QED BY <2>2, <2>3
<1>6. BatchIsWhole'
  BY <1>1 DEF BatchInv, BatchIsWhole
<1> QED BY <1>4, <1>5, <1>6

LEMMA CommitBatches ==
    ASSUME MetricsInv, BatchInv, NEW w \in Writers, Commit(w)
    PROVE  HeldOrigin' /\ BatchInOrder' /\ BatchIsWhole'
<1>1. /\ Rollback(w) /\ \A p \in Pairs : rows'[p] = Seen(w, p)
      /\ UNCHANGED <<edited, stamp>> /\ phase[w] = "next" /\ at[w] > last[w]
  BY DEF Commit
<1>2. \A v \in Writers, q \in Pairs : Held(v, q)' =>
        v # w /\ Held(v, q) /\ own'[v] = own[v] /\ rows'[q] = rows[q]
  <2> SUFFICES ASSUME NEW v \in Writers, NEW q \in Pairs, Held(v, q)'
               PROVE  v # w /\ Held(v, q) /\ own'[v] = own[v] /\ rows'[q] = rows[q]
    OBVIOUS
  <2>1. v # w /\ own'[v] = own[v] /\ Held(v, q)
    BY <1>1, RollbackHolds DEF Held
  <2>2. ~Held(w, q)
    BY <2>1 DEF MetricsInv, Exclusive
  <2> QED BY <1>1, <2>1, <2>2 DEF Seen
<1>3. HeldOrigin' /\ BatchInOrder'
  BY <1>1, <1>2 DEF BatchInv, HeldOrigin, BatchInOrder, Writers
<1>4. BatchIsWhole'
  <2> SUFFICES ASSUME NEW p \in Pairs, NEW q \in Pairs,
                      rows'[p] # NoRow, rows'[p].source \in Batches, {p, q} \cap edited = {}
               PROVE  rows'[q] # NoRow /\ (p < q => rows'[q].stamp >= rows'[p].stamp)
    BY <1>1 DEF BatchIsWhole
  <2>1. rows'[p] \in Row /\ Seen(w, q) \in Version /\ rows[q] \in Version
    BY <1>1, SeenVersion DEF MetricsInv, MetricsTypeOK, Version
  <2>2. CASE rows'[p] = rows[p]
    <3>1. rows[q] # NoRow /\ (p < q => rows[q].stamp >= rows[p].stamp)
      BY <2>2 DEF BatchInv, BatchIsWhole
    <3>2. rows'[q] # NoRow /\ Follows(rows'[q], rows[q])
      BY <1>1, <3>1, SeenFollows
    <3>3. rows'[q] \in Row /\ rows[q] \in Row
      BY <1>1, <2>1, <3>1, <3>2 DEF Version
    <3>4. rows'[q].stamp \in Int /\ rows[q].stamp \in Int /\ rows[p].stamp \in Int
      BY <2>1, <2>2, <3>3 DEF Row
    <3> QED BY <2>2, <3>1, <3>2, <3>4 DEF Follows
  <2>3. CASE rows'[p] # rows[p]
    <3>1. Held(w, p) /\ rows'[p] = own[w][p] /\ own[w][p].source = w
      BY <1>1, <2>3 DEF Seen, BatchInv, HeldOrigin
    <3>2. w \in Batches
      BY <3>1
    <3>3. valid[w] /\ last[w] = NPairs
      BY <1>1, <3>1, <3>2 DEF BatchInv, BatchHolds, Working
    <3>4. q < at[w]
      BY <1>1, <3>3, MetricsAssumption DEF Pairs, MetricsInv, MetricsTypeOK
    <3>5. Held(w, q) /\ rows'[q] = own[w][q]
      BY <1>1, <3>2, <3>3, <3>4 DEF BatchInv, BatchHolds, Working, Seen
    <3> QED BY <2>3, <3>1, <3>2, <3>5 DEF BatchInv, BatchInOrder, Held
  <2> QED BY <2>2, <2>3
<1> QED BY <1>3, <1>4

\* A form that is saved takes its pair out of the comparison.
LEMMA SaveBatches ==
    ASSUME MetricsInv, BatchInv, SaveForm
    PROVE  HeldOrigin' /\ BatchInOrder' /\ BatchIsWhole'
<1>1. /\ UNCHANGED <<own, stamp>> /\ \A w \in Writers : ~Held(w, form.pair)
      /\ edited' = edited \cup {form.pair}
  BY DEF SaveForm
<1>2. \A q \in Pairs : q # form.pair => rows'[q] = rows[q]
  BY DEF SaveForm, MetricsInv, MetricsTypeOK
<1>3. HeldOrigin' /\ BatchInOrder'
  BY <1>1, <1>2 DEF BatchInv, HeldOrigin, BatchInOrder, Held, Writers
<1>4. BatchIsWhole'
  BY <1>1, <1>2 DEF BatchInv, BatchIsWhole
<1> QED BY <1>3, <1>4

LEMMA DeleteBatches ==
    ASSUME MetricsInv, BatchInv, DeleteStrategy
    PROVE  HeldOrigin' /\ BatchInOrder' /\ BatchIsWhole'
<1>1. UNCHANGED own /\ \A w \in Writers, p \in Pairs : ~Held(w, p)
  BY DEF DeleteStrategy
<1>2. \A p \in Pairs : rows'[p] = NoRow
  BY DEF DeleteStrategy, NothingHeld
<1> QED BY <1>1, <1>2 DEF HeldOrigin, BatchInOrder, BatchIsWhole, Held, Writers

\* The clock and the pairs a backtest has come past.
LEMMA HoldsStep ==
    ASSUME MetricsInv, BatchInv, [MetricsNext]_metricsVars, MetricsTypeOK'
    PROVE  StampsPast' /\ BatchHolds'
<1> USE MetricsAssumption
<1>0. MetricsTypeOK /\ StampsPast /\ BatchHolds /\ \A b \in Batches : b \in Writers
  BY DEF MetricsInv, BatchInv, Writers
<1>1. ASSUME NEW w \in Writers, NEW p \in Pairs, Start(w, p)
      PROVE  StampsPast' /\ BatchHolds'
  <2>1. BatchHolds'
    BY <1>0, <1>1 DEF Start, MetricsTypeOK, BatchHolds, Working, Held, Pairs
  <2> QED BY <1>0, <1>1, <2>1 DEF Start, StampsPast
<1>2. ASSUME NEW w \in Writers, SkipInvalid(w)
      PROVE  StampsPast' /\ BatchHolds'
  BY <1>0, <1>2 DEF SkipInvalid, MetricsTypeOK, StampsPast, BatchHolds, Working, Held
<1>3. ASSUME NEW w \in Writers, Send(w)
      PROVE  StampsPast' /\ BatchHolds'
  BY <1>0, <1>3 DEF Send, MetricsTypeOK, StampsPast, BatchHolds, Working, Held
<1>4. ASSUME NEW w \in Writers, Execute(w)
      PROVE  StampsPast' /\ BatchHolds'
  <2>1. UNCHANGED <<stamp, clock>>
    BY <1>4 DEF Execute
  <2> DEFINE new == Upserted(Seen(w, at[w]), w)
  <2>2. /\ at[w] \in Pairs /\ new # NoRow /\ phase[w] = "sent"
        /\ \A v \in Writers, q \in Pairs :
             own'[v][q] = IF v = w /\ q = at[w] THEN new ELSE own[v][q]
        /\ UNCHANGED <<last, valid>> /\ at' = [at EXCEPT ![w] = @ + 1]
        /\ phase' = [phase EXCEPT ![w] = "next"]
    BY <1>4, ExecuteChange, RowIsNoNoRow
  <2> HIDE DEF new
  <2>3. w \in Batches => valid[w]
    BY <1>0, <1>4, <2>2 DEF BatchHolds
  <2>4. ASSUME NEW b \in Batches, b # w
        PROVE  /\ Working(b)' => last'[b] = NPairs
               /\ phase'[b] = "sent" => valid'[b]
               /\ \A p \in Pairs : Held(b, p)' <=> Working(b)' /\ valid'[b] /\ p < at'[b]
    <3>1. at'[b] = at[b] /\ phase'[b] = phase[b] /\ \A p \in Pairs : own'[b][p] = own[b][p]
      BY <1>0, <2>2, <2>4 DEF MetricsTypeOK
    <3> QED BY <1>0, <2>2, <3>1 DEF BatchHolds, Working, Held
  <2>5. ASSUME w \in Batches
        PROVE  /\ Working(w)' => last'[w] = NPairs
               /\ phase'[w] = "sent" => valid'[w]
               /\ \A p \in Pairs : Held(w, p)' <=> Working(w)' /\ valid'[w] /\ p < at'[w]
    <3>1. at'[w] = at[w] + 1 /\ phase'[w] = "next" /\ at[w] \in Nat
      BY <1>0, <2>2 DEF MetricsTypeOK
    <3>2. \A p \in Pairs : Held(w, p)' <=> p = at[w] \/ Held(w, p)
      BY <2>2 DEF Held
    <3>3. \A p \in Pairs : Held(w, p) <=> p < at[w]
      BY <1>0, <2>2, <2>3, <2>5 DEF BatchHolds, Working
    <3>4. \A p \in Pairs : p < at[w] + 1 <=> p = at[w] \/ p < at[w]
      BY <3>1 DEF Pairs
    <3> QED BY <1>0, <2>2, <2>3, <2>5, <3>1, <3>2, <3>3, <3>4 DEF BatchHolds, Working
  <2>6. BatchHolds'
    BY <2>4, <2>5 DEF BatchHolds
  <2> QED BY <1>0, <2>1, <2>6 DEF StampsPast
<1>5. ASSUME NEW w \in Writers, Orphaned(w) \/ RetryRefused(w) \/ Die(w) \/ Commit(w)
      PROVE  StampsPast' /\ BatchHolds'
  <2>1. Rollback(w) /\ UNCHANGED <<stamp, clock, last, valid, at>>
        /\ phase' = [phase EXCEPT ![w] = "done"]
    BY <1>5 DEF Orphaned, RetryRefused, Die, Commit
  <2>2. BatchHolds'
    BY <1>0, <2>1, RollbackHolds DEF MetricsTypeOK, BatchHolds, Working, Held
  <2> QED BY <1>0, <2>1, <2>2 DEF StampsPast
<1>6. ASSUME NEW w \in Writers, StatementFails(w)
      PROVE  StampsPast' /\ BatchHolds'
  BY <1>0, <1>6 DEF StatementFails, MetricsTypeOK, StampsPast, BatchHolds, Working, Held
<1>7. CASE ClockTick
  BY <1>0, <1>7 DEF ClockTick, MetricsTypeOK, StampsPast, BatchHolds, Working, Held
<1>8. CASE SaveForm \/ DeleteStrategy \/ UNCHANGED metricsVars
  BY <1>0, <1>8 DEF SaveForm, DeleteStrategy, metricsVars, StampsPast, BatchHolds, Working, Held
<1>9. ASSUME NEW p \in Pairs, OpenForm(p)
      PROVE  StampsPast' /\ BatchHolds'
  BY <1>0, <1>9 DEF OpenForm, StampsPast, BatchHolds, Working, Held
<1> QED BY <1>1, <1>2, <1>3, <1>4, <1>5, <1>6, <1>7, <1>8, <1>9 DEF MetricsNext, WriterStep

LEMMA BatchInvStep ==
    MetricsInv /\ BatchInv /\ [MetricsNext]_metricsVars /\ MetricsInv' => BatchInv'
<1> SUFFICES ASSUME MetricsInv, BatchInv, [MetricsNext]_metricsVars, MetricsTypeOK'
             PROVE  HeldOrigin' /\ BatchInOrder' /\ BatchIsWhole'
  BY HoldsStep DEF BatchInv, MetricsInv
<1>0. \A w \in Writers : stamp[w] \in Int /\ stamp[w] <= clock
  BY DEF MetricsInv, MetricsTypeOK, BatchInv, StampsPast
<1>1. ASSUME NEW w \in Writers, Execute(w)
      PROVE  HeldOrigin' /\ BatchInOrder' /\ BatchIsWhole'
  BY <1>1, ExecuteBatches
<1>2. ASSUME NEW w \in Writers, Commit(w)
      PROVE  HeldOrigin' /\ BatchInOrder' /\ BatchIsWhole'
  BY <1>2, CommitBatches
<1>3. ASSUME NEW w \in Writers, Orphaned(w) \/ RetryRefused(w) \/ Die(w)
      PROVE  HeldOrigin' /\ BatchInOrder' /\ BatchIsWhole'
  BY <1>3, RollbackBatches DEF Orphaned, RetryRefused, Die
<1>4. ASSUME NEW w \in Writers, Send(w)
      PROVE  HeldOrigin' /\ BatchInOrder' /\ BatchIsWhole'
  <2>1. UNCHANGED <<rows, own, edited>> /\ stamp' = [stamp EXCEPT ![w] = clock]
    BY <1>4 DEF Send
  <2>2. \A v \in Writers : stamp'[v] >= stamp[v]
    BY <1>0, <2>1 DEF MetricsInv, MetricsTypeOK
  <2> QED BY <2>1, <2>2, QuietKeeps
<1>5. ASSUME UNCHANGED <<rows, own, edited, stamp>>
      PROVE  HeldOrigin' /\ BatchInOrder' /\ BatchIsWhole'
  BY <1>0, <1>5, QuietKeeps
<1>6. CASE SaveForm
  BY <1>6, SaveBatches
<1>7. CASE DeleteStrategy
  BY <1>7, DeleteBatches
<1>8. \/ \E w \in Writers : \/ Execute(w) \/ Commit(w) \/ Send(w)
                            \/ Orphaned(w) \/ RetryRefused(w) \/ Die(w)
      \/ UNCHANGED <<rows, own, edited, stamp>> \/ SaveForm \/ DeleteStrategy
  BY DEF MetricsNext, WriterStep, Start, SkipInvalid, StatementFails, OpenForm,
         ClockTick, metricsVars
<1> QED BY <1>1, <1>2, <1>3, <1>4, <1>5, <1>6, <1>7, <1>8

(* A backtest's rows appear together and in order, whatever statements     *)
(* fail, workers die and live updates come between.                        *)
THEOREM BatchesAreWhole == MetricsSpec => []BatchIsWhole
<1>1. BatchInv => BatchIsWhole
  BY DEF BatchInv
<1> QED BY <1>1, MetricsInvInit, MetricsInvStep, BatchInvInit, BatchInvStep, PTL DEF MetricsSpec
=============================================================================
