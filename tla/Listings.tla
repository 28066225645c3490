-------------------------------- MODULE Listings --------------------------------
(***************************************************************************)
(* The paged lists: strategies, backtest results, backtest tasks, pair     *)
(* metrics, signals and reports are listed alike.  A request for a page    *)
(* runs SELECT count(...) and then SELECT ... ORDER BY ... LIMIT ...       *)
(* OFFSET, each on its own snapshot, and answers with the rows and the     *)
(* total.  Between any two of these statements the table changes: rows are *)
(* inserted, change their place (an upsert brings a new signal_at or a new *)
(* total_return) and are deleted, several at once by a cascade.            *)
(*                                                                         *)
(* A client goes through all pages: it asks for one after the other until  *)
(* the total it was last given is covered.  What it can rely on is stated  *)
(* here for one list; the filters of a list choose the table.              *)
(***************************************************************************)
EXTENDS Integers, FiniteSets

CONSTANTS
    Ids,         \* the rows there can be
    PageSize,
    MaxKey,      \* bound: the places in the order are 1..MaxKey
    MaxShifts    \* bound: changes to the table during a walk

ASSUME ListingsAssumption ==
    /\ IsFiniteSet(Ids) /\ Ids # {}
    /\ PageSize \in Nat \ {0}
    /\ MaxKey \in Nat /\ MaxShifts \in Nat

VARIABLES
    key,     \* the sort key of each row, 0 for a row that is not there
    walk,    \* the client's way through the pages
    kept,    \* the rows there since its beginning
    late,    \* rows inserted since the page's total was counted
    shifts,  \* rows moved or deleted since its beginning
    tied     \* two rows had the same key at some time since

listingsVars == <<key, walk, kept, late, shifts, tied>>

Walking == walk.state \in {"request", "counted"}

ListingsTypeOK ==
    /\ key \in [Ids -> 0..MaxKey]
    /\ walk \in [state : {"idle", "request", "counted", "done"},
                 page : 1..(Cardinality(Ids) + 1), total : 0..Cardinality(Ids),
                 seen : SUBSET Ids]
    /\ kept \subseteq Ids
    /\ late \in 0..MaxShifts
    /\ shifts \in 0..(MaxShifts * Cardinality(Ids))
    /\ tied \in BOOLEAN

ListingsInit ==
    /\ key = [i \in Ids |-> 0]
    /\ walk = [state |-> "idle", page |-> 1, total |-> 0, seen |-> {}]
    /\ kept = {}
    /\ late = 0
    /\ shifts = 0
    /\ tied = FALSE

Listed == {i \in Ids : key[i] # 0}
Tied == \E i, j \in Listed : i # j /\ key[i] = key[j]

-----------------------------------------------------------------------------
(* The writers of the tables.  During a walk their changes are counted.    *)

Disturb == walk.state # "done" /\ (Walking => late + shifts < MaxShifts)

AddRow(i, k) ==
    /\ Disturb
    /\ key[i] = 0
    /\ key' = [key EXCEPT ![i] = k]
    /\ late' = IF walk.state = "counted" THEN late + 1 ELSE late
    /\ tied' = (tied \/ Tied')
    /\ UNCHANGED <<walk, kept, shifts>>

MoveRow(i, k) ==
    /\ Disturb
    /\ key[i] \notin {0, k}
    /\ key' = [key EXCEPT ![i] = k]
    /\ shifts' = IF Walking THEN shifts + 1 ELSE shifts
    /\ tied' = (tied \/ Tied')
    /\ UNCHANGED <<walk, kept, late>>

RemoveRows(S) ==
    /\ Disturb
    /\ S # {} /\ S \subseteq Listed
    /\ key' = [i \in Ids |-> IF i \in S THEN 0 ELSE key[i]]
    /\ kept' = kept \ S
    /\ shifts' = IF Walking THEN shifts + Cardinality(S) ELSE shifts
    /\ UNCHANGED <<walk, late, tied>>

-----------------------------------------------------------------------------
(* One request. *)

(* Slip: no ORDER BY. *)
InAnyOrder(S) == TRUE

(* ORDER BY: the rows of S come first.  Rows with one key are in no        *)
(* particular order.                                                       *)
InOrder(S) == \A i \in S, j \in Listed \ S : key[i] >= key[j]

Offset(page) == (page - 1) * PageSize
AtMost(m, n) == IF m <= n THEN m ELSE n

(* LIMIT page_size OFFSET offset: whether S can be the page. *)
IsPage(S, page) ==
    LET n == Cardinality(Listed) IN
    \E before \in SUBSET (Listed \ S) :
      /\ Cardinality(before) = AtMost(Offset(page), n)
      /\ Cardinality(S) = AtMost(PageSize, n - Cardinality(before))
      /\ InOrder(before) /\ InOrder(before \cup S)

BeginWalk ==
    /\ walk.state = "idle"
    /\ walk' = [walk EXCEPT !.state = "request"]
    /\ kept' = Listed
    /\ late' = 0
    /\ tied' = Tied
    /\ UNCHANGED <<key, shifts>>

CountRows ==
    /\ walk.state = "request"
    /\ walk' = [walk EXCEPT !.state = "counted", !.total = Cardinality(Listed)]
    /\ late' = 0
    /\ UNCHANGED <<key, kept, shifts, tied>>

(* The page is read and the answer given; the client takes the total from  *)
(* it and asks for the next page, or is through.                           *)
FetchPage ==
    /\ walk.state = "counted"
    /\ \E S \in SUBSET Listed :
         /\ IsPage(S, walk.page)
         /\ walk' = [walk EXCEPT
              !.seen = @ \cup S,
              !.state = IF walk.page * PageSize >= walk.total THEN "done" ELSE "request",
              !.page = IF walk.page * PageSize >= walk.total THEN @ ELSE @ + 1]
    /\ UNCHANGED <<key, kept, late, shifts, tied>>

ListingsNext ==
    \/ \E i \in Ids, k \in 1..MaxKey : AddRow(i, k) \/ MoveRow(i, k)
    \/ \E S \in SUBSET Ids : RemoveRows(S)
    \/ BeginWalk \/ CountRows \/ FetchPage

ListingsSpec == ListingsInit /\ [][ListingsNext]_listingsVars

-----------------------------------------------------------------------------
(* Properties *)

(* A row that is there all along is missed only because of a row that was  *)
(* moved or deleted, or inserted between the last count and its page: one  *)
(* row at most for each of those.  An insertion before that costs nothing, *)
(* at whatever place; but all this holds only of rows with different keys. *)
NoneSkipped ==
    walk.state = "done" /\ ~tied => Cardinality(kept \ walk.seen) <= late + shifts
=============================================================================
