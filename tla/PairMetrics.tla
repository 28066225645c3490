------------------------------ MODULE PairMetrics ------------------------------
(***************************************************************************)
(* The table strategy_pair_metrics of one strategy: a row of figures for   *)
(* every pair (and timeframe), written                                     *)
(*                                                                         *)
(*  - by a backtest (_upsert_metrics_for_backtest), which upserts the rows *)
(*    of all pairs, one after the other, in the transaction that also      *)
(*    stores its result;                                                   *)
(*  - by a live update (try_upsert_live_metrics), which upserts one row in *)
(*    a transaction of its own;                                            *)
(*  - by hand, in the edit form of the admin site;                         *)
(*  - by the deletion of the strategy, which cascades.                     *)
(*                                                                         *)
(* An upsert takes its timestamp before the statement runs, and the        *)
(* statement may then wait for the row: PostgreSQL locks a row that a      *)
(* transaction inserted, updated or met in ON CONFLICT until the           *)
(* transaction ends, and evaluates the WHERE of ON CONFLICT on the newest  *)
(* committed version.  A transaction sees its own versions, others see     *)
(* them after the commit (READ COMMITTED).                                 *)
(*                                                                         *)
(* A figure is represented by the writer that measured it.                 *)
(***************************************************************************)
EXTENDS Integers

CONSTANTS
    NPairs,     \* the strategy's pairs are 1..NPairs, in the order of strategy.pairs
    Batches,    \* backtests of the strategy that get as far as writing metrics
    Lives,      \* live updates
    Fields,     \* the nullable figures of a row
    MaxClock,   \* bound: readings of the clock
    MaxFaults,  \* bound: statements that fail, and workers that die
    MaxEdits,   \* bound: forms saved by hand
    Missing,    \* NULL
    Hand,       \* a figure typed in by an administrator
    NoRow       \* there is no row

Pairs == 1..NPairs
Writers == Batches \cup Lives

(* NoRow and the two markers are told apart from rows and writers, and a   *)
(* writer is a backtest or a live update.                                  *)
ASSUME MetricsAssumption ==
    /\ NPairs \in Nat \ {0}
    /\ MaxClock \in Nat /\ MaxFaults \in Nat /\ MaxEdits \in Nat
    /\ Batches \cap Lives = {}
    /\ {Missing, Hand} \cap Writers = {} /\ Missing # Hand
    /\ NoRow \notin [figures : [Fields -> Writers \cup {Missing, Hand}],
                     source : Writers, stamp : 0..MaxClock]

VARIABLES
    clock,      \* datetime.now
    listed,     \* the strategy exists
    rows,       \* the committed table
    phase,      \* where each writer is
    at, last,   \* the pair a writer upserts next, and its last one
    known,      \* the figures that are not None in what a writer measured
    valid,      \* whether its figures pass validate_metrics
    stamp,      \* the last_updated_at of its current upsert
    own,        \* the row versions its open transaction holds
    form,       \* the edit form an administrator has open
    edited,     \* the pairs whose row was saved by hand
    edits, faults

metricsVars == <<clock, listed, rows, phase, at, last, known, valid, stamp, own,
                 form, edited, edits, faults>>

(* A row: data_source is refined to the writer that set it. *)
Row == [figures : [Fields -> Writers \cup {Missing, Hand}],
        source : Writers, stamp : 0..MaxClock]

NoForm == [pair |-> 0, row |-> NoRow]

MetricsTypeOK ==
    /\ clock \in 0..MaxClock
    /\ listed \in BOOLEAN
    /\ rows \in [Pairs -> Row \cup {NoRow}]
    /\ phase \in [Writers -> {"idle", "next", "sent", "failed", "done"}]
    /\ at \in [Writers -> 1..(NPairs + 1)]
    /\ last \in [Writers -> Pairs]
    /\ known \in [Writers -> SUBSET Fields]
    /\ valid \in [Writers -> BOOLEAN]
    /\ stamp \in [Writers -> 0..MaxClock]
    /\ own \in [Writers -> [Pairs -> Row \cup {NoRow}]]
    /\ form \in [pair : 0..NPairs, row : Row \cup {NoRow}]
    /\ edited \subseteq Pairs
    /\ edits \in 0..MaxEdits
    /\ faults \in 0..MaxFaults

NothingHeld == [p \in Pairs |-> NoRow]

MetricsInit ==
    /\ clock = 0
    /\ listed = TRUE
    /\ rows = NothingHeld
    /\ phase = [w \in Writers |-> "idle"]
    /\ at = [w \in Writers |-> 1]
    /\ last = [w \in Writers |-> 1]
    /\ known = [w \in Writers |-> {}]
    /\ valid = [w \in Writers |-> TRUE]
    /\ stamp = [w \in Writers |-> 0]
    /\ own = [w \in Writers |-> NothingHeld]
    /\ form = NoForm
    /\ edited = {}
    /\ edits = 0
    /\ faults = 0

-----------------------------------------------------------------------------
(* The statement of one upsert. *)

(* INSERT ... VALUES *)
Inserted(w) ==
    [figures |-> [f \in Fields |-> IF f \in known[w] THEN w ELSE Missing],
     source |-> w, stamp |-> stamp[w]]

(* Slip: the new row replaces the old one column by column. *)
Replaced(old, w) == Inserted(w)

(* DO UPDATE SET: for either source a figure that was not measured keeps   *)
(* its old value, by COALESCE or by the choice made in Python; data_source *)
(* and last_updated_at are always the new ones.                            *)
Merged(old, w) ==
    [figures |-> [f \in Fields |-> IF f \in known[w] THEN w ELSE old.figures[f]],
     source |-> w, stamp |-> stamp[w]]

(* Slip: an upsert with the row's own timestamp is accepted. *)
NotOlder(old, w) == old.stamp <= stamp[w]

(* WHERE last_updated_at < excluded.last_updated_at *)
Newer(old, w) == old.stamp < stamp[w]

(* The version of a row after the upsert.  A row the WHERE leaves alone is *)
(* locked all the same.                                                    *)
Upserted(old, w) ==
    IF old = NoRow THEN Inserted(w)
    ELSE IF Newer(old, w) THEN Merged(old, w) ELSE old

Held(w, p) == own[w][p] # NoRow
Locked(w, p) == \E v \in Writers \ {w} : Held(v, p)
Seen(w, p) == IF Held(w, p) THEN own[w][p] ELSE rows[p]

Rollback(w) == own' = [own EXCEPT ![w] = NothingHeld]

-----------------------------------------------------------------------------
(* The writers. *)

(* A backtest or a live update comes to its metrics: for all pairs or for  *)
(* one, with some figures None (too few signals, no losing trade, a value  *)
(* freqtrade did not report) and perhaps one out of range.                 *)
Start(w, p) ==
    /\ phase[w] = "idle"
    /\ w \in Batches => p = 1
    /\ at' = [at EXCEPT ![w] = p]
    /\ last' = [last EXCEPT ![w] = IF w \in Batches THEN NPairs ELSE p]
    /\ \E k \in SUBSET Fields : known' = [known EXCEPT ![w] = k]
    /\ \E v \in BOOLEAN : valid' = [valid EXCEPT ![w] = v]
    /\ phase' = [phase EXCEPT ![w] = "next"]
    /\ UNCHANGED <<clock, listed, rows, stamp, own, form, edited, edits, faults>>

(* Slip: no check that pairs are left. *)
SkipPastTheLast(w) ==
    /\ phase[w] = "next" /\ at[w] <= NPairs + 1
    /\ ~valid[w]
    /\ at' = [at EXCEPT ![w] = @ + 1]
    /\ UNCHANGED <<clock, listed, rows, phase, last, known, valid, stamp, own,
                   form, edited, edits, faults>>

(* upsert_pair_metrics returns without writing when a figure is out of     *)
(* range; the caller goes on with the next pair.                           *)
SkipInvalid(w) ==
    /\ phase[w] = "next" /\ at[w] <= last[w]
    /\ ~valid[w]
    /\ at' = [at EXCEPT ![w] = @ + 1]
    /\ UNCHANGED <<clock, listed, rows, phase, last, known, valid, stamp, own,
                   form, edited, edits, faults>>

(* The timestamp is taken and the statement built and sent. *)
Send(w) ==
    /\ phase[w] = "next" /\ at[w] <= last[w]
    /\ valid[w]
    /\ stamp' = [stamp EXCEPT ![w] = clock]
    /\ phase' = [phase EXCEPT ![w] = "sent"]
    /\ UNCHANGED <<clock, listed, rows, at, last, known, valid, own, form, edited,
                   edits, faults>>

(* The statement runs, once nobody else holds the row. *)
Execute(w) ==
    /\ phase[w] = "sent"
    /\ ~Locked(w, at[w])
    /\ Seen(w, at[w]) # NoRow \/ listed
    /\ own' = [own EXCEPT ![w][at[w]] = Upserted(Seen(w, at[w]), w)]
    /\ at' = [at EXCEPT ![w] = @ + 1]
    /\ phase' = [phase EXCEPT ![w] = "next"]
    /\ UNCHANGED <<clock, listed, rows, last, known, valid, stamp, form, edited,
                   edits, faults>>

(* The strategy is gone: the INSERT breaks the foreign key, the error is   *)
(* no OperationalError and ends the transaction.                           *)
Orphaned(w) ==
    /\ phase[w] = "sent"
    /\ ~Locked(w, at[w])
    /\ Seen(w, at[w]) = NoRow /\ ~listed
    /\ Rollback(w)
    /\ phase' = [phase EXCEPT ![w] = "done"]
    /\ UNCHANGED <<clock, listed, rows, at, last, known, valid, stamp, form, edited,
                   edits, faults>>

(* The statement raises an OperationalError: the server has aborted the    *)
(* transaction, which keeps its locks until it is rolled back.             *)
StatementFails(w) ==
    /\ phase[w] = "sent" /\ faults < MaxFaults
    /\ faults' = faults + 1
    /\ phase' = [phase EXCEPT ![w] = "failed"]
    /\ UNCHANGED <<clock, listed, rows, at, last, known, valid, stamp, own, form,
                   edited, edits>>

(* Slip: the caller commits the rows written before the failed statement. *)
RetryCommits(w) ==
    /\ phase[w] = "failed"
    /\ rows' = [p \in Pairs |-> Seen(w, p)]
    /\ Rollback(w)
    /\ phase' = [phase EXCEPT ![w] = "done"]
    /\ UNCHANGED <<clock, listed, at, last, known, valid, stamp, form, edited,
                   edits, faults>>

(* Slip: the error is swallowed and the session stays open. *)
RetrySwallowed(w) ==
    /\ phase[w] = "failed"
    /\ phase' = [phase EXCEPT ![w] = "done"]
    /\ UNCHANGED <<clock, listed, rows, at, last, known, valid, stamp, own, form,
                   edited, edits, faults>>

(* After the delay the statement is sent again, in the aborted transaction *)
(* or on the lost connection: it is refused with an error that is not      *)
(* retried, and the caller's session rolls everything back.                *)
RetryRefused(w) ==
    /\ phase[w] = "failed"
    /\ Rollback(w)
    /\ phase' = [phase EXCEPT ![w] = "done"]
    /\ UNCHANGED <<clock, listed, rows, at, last, known, valid, stamp, form, edited,
                   edits, faults>>

(* All pairs are written: the caller commits. *)
Commit(w) ==
    /\ phase[w] = "next" /\ at[w] > last[w]
    /\ rows' = [p \in Pairs |-> Seen(w, p)]
    /\ Rollback(w)
    /\ phase' = [phase EXCEPT ![w] = "done"]
    /\ UNCHANGED <<clock, listed, at, last, known, valid, stamp, form, edited, edits,
                   faults>>

(* The worker dies: the server rolls its transaction back. *)
Die(w) ==
    /\ phase[w] \in {"next", "sent", "failed"} /\ faults < MaxFaults
    /\ faults' = faults + 1
    /\ Rollback(w)
    /\ phase' = [phase EXCEPT ![w] = "done"]
    /\ UNCHANGED <<clock, listed, rows, at, last, known, valid, stamp, form, edited,
                   edits>>

-----------------------------------------------------------------------------
(* The admin site. *)

(* The edit form is opened: it shows the row as it is now. *)
OpenForm(p) ==
    /\ form = NoForm /\ edits < MaxEdits
    /\ rows[p] # NoRow
    /\ form' = [pair |-> p, row |-> rows[p]]
    /\ UNCHANGED <<clock, listed, rows, phase, at, last, known, valid, stamp, own,
                   edited, edits, faults>>

(* The form is saved with some figures changed.  It holds every column but *)
(* the key, so that all of them return to what the form showed.            *)
SaveForm ==
    /\ form # NoForm
    /\ \A w \in Writers : ~Held(w, form.pair)
    /\ \E typed \in SUBSET Fields :
         rows' = [rows EXCEPT ![form.pair] =
                    IF @ = NoRow THEN NoRow
                    ELSE [form.row EXCEPT !.figures =
                            [f \in Fields |-> IF f \in typed THEN Hand ELSE @[f]]]]
    /\ edited' = edited \cup {form.pair}
    /\ edits' = edits + 1
    /\ form' = NoForm
    /\ UNCHANGED <<clock, listed, phase, at, last, known, valid, stamp, own, faults>>

(* The strategy is deleted, and its rows with it (ON DELETE CASCADE), once *)
(* nobody holds one of them.                                               *)
DeleteStrategy ==
    /\ listed
    /\ \A w \in Writers, p \in Pairs : ~Held(w, p)
    /\ listed' = FALSE
    /\ rows' = NothingHeld
    /\ UNCHANGED <<clock, phase, at, last, known, valid, stamp, own, form, edited,
                   edits, faults>>

ClockTick ==
    /\ clock < MaxClock
    /\ clock' = clock + 1
    /\ UNCHANGED <<listed, rows, phase, at, last, known, valid, stamp, own, form,
                   edited, edits, faults>>

-----------------------------------------------------------------------------
WriterStep(w) ==
    \/ SkipInvalid(w) \/ Send(w) \/ Execute(w) \/ Orphaned(w)
    \/ RetryRefused(w) \/ Commit(w)

MetricsNext ==
    \/ \E w \in Writers : \/ \E p \in Pairs : Start(w, p)
                          \/ WriterStep(w)
                          \/ StatementFails(w)
                          \/ Die(w)
    \/ \E p \in Pairs : OpenForm(p)
    \/ SaveForm
    \/ DeleteStrategy
    \/ ClockTick

MetricsSpec == MetricsInit /\ [][MetricsNext]_metricsVars

(* A worker process runs what it has begun to its end. *)
MetricsFairness == \A w \in Writers : WF_metricsVars(WriterStep(w))

-----------------------------------------------------------------------------
(* Properties *)

(* A row is replaced, other than by hand or by the deletion, only by one   *)
(* with a later timestamp, however long a statement waited for its row.    *)
StampsAdvance ==
    [][\A p \in Pairs :
         (rows[p] # NoRow /\ rows'[p] # rows[p] /\ listed' /\ edits' = edits)
           => rows'[p] # NoRow /\ rows'[p].stamp > rows[p].stamp]_metricsVars

(* What was once measured for a pair is never replaced by NULL: a writer   *)
(* that lacks a figure, or an earlier version of the row held by an open   *)
(* transaction, does not lose it.                                          *)
FiguresKept ==
    [][\A p \in Pairs : \A f \in Fields :
         (/\ rows[p] # NoRow /\ rows[p].figures[f] # Missing
          /\ listed' /\ edits' = edits)
           => rows'[p] # NoRow /\ rows'[p].figures[f] # Missing]_metricsVars

(* The rows of one backtest appear together: where its row for one pair is *)
(* in the table, every pair has a row, and the later ones have one at      *)
(* least as new.                                                           *)
BatchIsWhole ==
    \A p, q \in Pairs :
      (rows[p] # NoRow /\ rows[p].source \in Batches /\ {p, q} \cap edited = {})
        => rows[q] # NoRow /\ (p < q => rows[q].stamp >= rows[p].stamp)

(* Every writer that began comes to an end, also when it waits for the     *)
(* rows of another one whose statement failed.                             *)
WritersEnd == \A w \in Writers : phase[w] = "next" ~> phase[w] = "done"
=============================================================================
