-------------------------------- MODULE Reports --------------------------------
(***************************************************************************)
(* One research report and its list of coins (api/admin_reports.py), kept  *)
(* in two tables, changed by concurrent requests and read by visitors.     *)
(*                                                                         *)
(* An update selects the report, writes the changed text, deletes the      *)
(* coins and inserts its own, in one transaction.  PostgreSQL runs each    *)
(* statement on its own snapshot (READ COMMITTED):                         *)
(*                                                                         *)
(*  - an UPDATE of the report waits for another transaction that updated   *)
(*    it, and so makes the rest of the two updates follow one another;     *)
(*  - DELETE takes the coins that were committed when it began, waits for  *)
(*    another transaction that is deleting one of them, and passes over    *)
(*    those that are then gone: coins committed while it waited it does    *)
(*    not see;                                                             *)
(*  - INSERT of a coin needs the report (foreign key): it waits for a      *)
(*    transaction that is deleting it.                                     *)
(*                                                                         *)
(* A deletion loads the coins, deletes those it loaded, then the report;   *)
(* ON DELETE CASCADE takes the coins that have come since.  So an update   *)
(* and a deletion lock report and coins in different orders, and may wait  *)
(* for each other until PostgreSQL refuses one of them.                    *)
(*                                                                         *)
(* A list of coins is represented by the request that sent it: it is       *)
(* inserted and deleted as a whole.  Lists are not empty.                  *)
(***************************************************************************)
EXTENDS Integers

CONSTANTS
    Updates,    \* the PUT requests
    Readers,    \* the requests of visitors
    First       \* the list the report was created with

ASSUME ReportsAssumption == First \notin Updates

VARIABLES
    exists,     \* the report is in research_reports
    text,       \* whose text it has
    coins,      \* the lists in report_coins
    update,     \* the state of each PUT request
    earlier,    \* the PUT requests that had ended when each one began
    reader,     \* what each visitor has read
    deletion    \* the DELETE request

reportsVars == <<exists, text, coins, update, earlier, reader, deletion>>

Authors == Updates \cup {First}

ReportsTypeOK ==
    /\ exists \in BOOLEAN
    /\ text \in Authors
    /\ coins \subseteq Authors
    /\ update \in [Updates ->
         [state : {"new", "selected", "written", "deleting", "inserting", "stored",
                   "refused"},
          text : BOOLEAN, list : BOOLEAN,  \* whether the request has a text, a list
          target : SUBSET Authors]]        \* the coins its DELETE found
    /\ earlier \in [Updates -> SUBSET Updates]
    /\ reader \in [Readers -> [state : {"idle", "report", "read"},
                               text : Authors, coins : SUBSET Authors]]
    /\ deletion \in [state : {"new", "loaded", "removing", "cascading", "over", "refused"},
                     target : SUBSET Authors]   \* the coins it loaded

(* create_report has stored the report and its coins in one transaction.   *)
ReportsInit ==
    /\ exists = TRUE
    /\ text = First
    /\ coins = {First}
    /\ update = [u \in Updates |-> [state |-> "new", text |-> FALSE, list |-> FALSE,
                                    target |-> {}]]
    /\ earlier = [u \in Updates |-> {}]
    /\ reader = [r \in Readers |-> [state |-> "idle", text |-> First, coins |-> {}]]
    /\ deletion = [state |-> "new", target |-> {}]

Step(u, state) == update' = [update EXCEPT ![u].state = state]
Ended == {u \in Updates : update[u].state \in {"stored", "refused"}}
Open(u) == update[u].state \in {"written", "deleting", "inserting"}

(* Row locks: of an update on the report's row, from its UPDATE or its     *)
(* INSERT on, and on the coins it has deleted.                             *)
LocksText(u) == Open(u) /\ update[u].text

(* Slip: DELETE locks the coins it found before it waits for others. *)
LocksFoundCoins(u) ==
    IF update[u].state \in {"deleting", "inserting"} THEN update[u].target ELSE {}

LocksCoins(u) == IF update[u].state = "inserting" THEN update[u].target ELSE {}

(* And those of the deletion. *)
DeletionLocksReport == deletion.state = "cascading"
DeletionLocksCoins ==
    IF deletion.state \in {"removing", "cascading"} THEN deletion.target ELSE {}

-----------------------------------------------------------------------------
(* update_report *)

(* The report is selected; without it the answer is 404. *)
SelectReport(u, hasText, hasList) ==
    /\ update[u].state = "new"
    /\ update' = [update EXCEPT ![u] =
         [state |-> IF exists THEN "selected" ELSE "refused",
          text |-> hasText, list |-> hasList, target |-> {}]]
    /\ earlier' = [earlier EXCEPT ![u] = Ended]
    /\ UNCHANGED <<exists, text, coins, reader, deletion>>

(* Slip: the text is not flushed before the coins are deleted. *)
WriteTextAtCommit(u) ==
    /\ update[u].state = "selected"
    /\ Step(u, IF update[u].text /\ ~exists THEN "refused" ELSE "written")
    /\ UNCHANGED <<exists, text, coins, earlier, reader, deletion>>

(* The changed text is flushed: the UPDATE waits for other writers of the  *)
(* row.  A report that is gone by then ends the request.                   *)
WriteText(u) ==
    /\ update[u].state = "selected"
    /\ update[u].text =>
         /\ \A v \in Updates \ {u} : ~LocksText(v)
         /\ ~DeletionLocksReport
    /\ Step(u, IF update[u].text /\ ~exists THEN "refused" ELSE "written")
    /\ UNCHANGED <<exists, text, coins, earlier, reader, deletion>>

(* DELETE begins: it will delete the coins it sees now. *)
FindCoins(u) ==
    /\ update[u].state = "written" /\ update[u].list
    /\ update' = [update EXCEPT ![u].state = "deleting", ![u].target = coins]
    /\ UNCHANGED <<exists, text, coins, earlier, reader, deletion>>

(* Slip: the old coins are deleted in a transaction of their own. *)
DeleteCoinsAndCommit(u) ==
    /\ update[u].state = "deleting"
    /\ update' = [update EXCEPT ![u].state = "inserting",
                                ![u].target = @ \cap coins]
    /\ coins' = coins \ update[u].target
    /\ UNCHANGED <<exists, text, earlier, reader, deletion>>

(* DELETE ends, once nobody else holds one of them; those that were        *)
(* deleted meanwhile are passed over.                                      *)
DeleteCoins(u) ==
    /\ update[u].state = "deleting"
    /\ \A v \in Updates \ {u} : LocksCoins(v) \cap update[u].target = {}
    /\ DeletionLocksCoins \cap update[u].target = {}
    /\ update' = [update EXCEPT ![u].state = "inserting",
                                ![u].target = @ \cap coins]
    /\ UNCHANGED <<exists, text, coins, earlier, reader, deletion>>

(* Slip: no foreign key from coins to their report. *)
StoreWithoutReport(u) ==
    /\ \/ update[u].state = "inserting"
       \/ update[u].state = "written" /\ ~update[u].list
    /\ text' = IF update[u].text THEN u ELSE text
    /\ coins' = (coins \ update[u].target) \cup (IF update[u].list THEN {u} ELSE {})
    /\ Step(u, "stored")
    /\ UNCHANGED <<exists, earlier, reader, deletion>>

(* The coins are inserted and the transaction committed.  Without the      *)
(* report the foreign key refuses them.                                    *)
StoreReport(u) ==
    /\ \/ update[u].state = "inserting"
       \/ update[u].state = "written" /\ ~update[u].list
    /\ update[u].list => exists /\ ~DeletionLocksReport
    /\ text' = IF update[u].text THEN u ELSE text
    /\ coins' = (coins \ update[u].target) \cup (IF update[u].list THEN {u} ELSE {})
    /\ Step(u, "stored")
    /\ UNCHANGED <<exists, earlier, reader, deletion>>

NoReport(u) ==
    /\ update[u].state = "inserting" /\ ~exists
    /\ Step(u, "refused")
    /\ UNCHANGED <<exists, text, coins, earlier, reader, deletion>>

-----------------------------------------------------------------------------
(* delete_report *)

(* The report is selected and its coins loaded; without it, 404. *)
SelectForDelete ==
    /\ deletion.state = "new"
    /\ deletion' = IF exists THEN [state |-> "loaded", target |-> coins]
                   ELSE [deletion EXCEPT !.state = "refused"]
    /\ UNCHANGED <<exists, text, coins, update, earlier, reader>>

(* The loaded coins are deleted, once nobody else holds one of them. *)
RemoveCoins ==
    /\ deletion.state = "loaded"
    /\ \A u \in Updates : LocksCoins(u) \cap deletion.target = {}
    /\ deletion' = [state |-> "removing", target |-> deletion.target \cap coins]
    /\ UNCHANGED <<exists, text, coins, update, earlier, reader>>

(* The report's row is locked, once no update holds it. *)
RemoveReport ==
    /\ deletion.state = "removing"
    /\ \A u \in Updates : ~LocksText(u)
    /\ deletion' = [deletion EXCEPT !.state = "cascading"]
    /\ UNCHANGED <<exists, text, coins, update, earlier, reader>>

(* The coins that are left are deleted with it, and the whole committed.   *)
Cascade ==
    /\ deletion.state = "cascading"
    /\ \A u \in Updates : LocksCoins(u) = {}
    /\ exists' = FALSE
    /\ coins' = {}
    /\ deletion' = [deletion EXCEPT !.state = "over"]
    /\ UNCHANGED <<text, update, earlier, reader>>

(* An update and the deletion wait for each other: the one has the report  *)
(* and wants the coins, or has coins and wants the report, the other the   *)
(* reverse.                                                                *)
Deadlocked(u) ==
    \/ /\ deletion.state = "removing" /\ LocksText(u)
       /\ update[u].state = "deleting"
       /\ update[u].target \cap deletion.target # {}
    \/ /\ deletion.state = "cascading"
       /\ update[u].state = "inserting" /\ LocksCoins(u) # {}

(* One of the two is refused and rolled back. *)
EndDeadlock(u) ==
    /\ Deadlocked(u)
    /\ \/ Step(u, "refused") /\ UNCHANGED deletion
       \/ deletion' = [deletion EXCEPT !.state = "refused"] /\ UNCHANGED update
    /\ UNCHANGED <<exists, text, coins, earlier, reader>>

-----------------------------------------------------------------------------
(* get_report and list_reports: one SELECT for reports, one for the coins  *)
(* of those it found.                                                      *)
ReadReport(r) ==
    /\ reader[r].state = "idle" /\ exists
    /\ reader' = [reader EXCEPT ![r] = [state |-> "report", text |-> text, coins |-> {}]]
    /\ UNCHANGED <<exists, text, coins, update, earlier, deletion>>

ReadCoins(r) ==
    /\ reader[r].state = "report"
    /\ reader' = [reader EXCEPT ![r].state = "read", ![r].coins = coins]
    /\ UNCHANGED <<exists, text, coins, update, earlier, deletion>>

-----------------------------------------------------------------------------
UpdateStep(u) ==
    \/ WriteText(u) \/ FindCoins(u) \/ DeleteCoins(u) \/ StoreReport(u) \/ NoReport(u)
    \/ EndDeadlock(u)

DeletionStep == RemoveCoins \/ RemoveReport \/ Cascade

ReportsNext ==
    \/ \E u \in Updates : \/ \E t, l \in BOOLEAN : SelectReport(u, t, l)
                          \/ UpdateStep(u)
    \/ SelectForDelete
    \/ DeletionStep
    \/ \E r \in Readers : ReadReport(r) \/ ReadCoins(r)

ReportsSpec == ReportsInit /\ [][ReportsNext]_reportsVars

(* A request that was begun is run to its end. *)
ReportsFairness ==
    /\ \A u \in Updates : WF_reportsVars(UpdateStep(u))
    /\ WF_reportsVars(DeletionStep)

-----------------------------------------------------------------------------
(* Properties *)

(* A deleted report leaves no coins behind, whatever update was under way. *)
NoOrphanCoins == ~exists => coins = {}

(* A list replaces all lists stored before: two lists are in the table     *)
(* together only if their requests overlapped, and not both of them wrote  *)
(* a text, which would have made one wait for the other.                   *)
ListsReplaced ==
    /\ First \in coins => coins = {First}
    /\ \A u, v \in coins \cap Updates : u # v =>
         /\ u \notin earlier[v] /\ v \notin earlier[u]
         /\ ~(update[u].text /\ update[v].text)

(* No visitor reads a report between the removal of its coins and the      *)
(* insertion of the new ones: an empty list means the report was deleted.  *)
NoGapRead ==
    [][\A r \in Readers :
         (reader[r].state = "report" /\ reader'[r].state = "read")
           => (reader'[r].coins = {} <=> ~exists)]_reportsVars

(* Two updates never wait for each other, and an update and a deletion     *)
(* that do are told so: each update ends.                                  *)
UpdatesEnd ==
    \A u \in Updates :
      update[u].state = "selected" ~> update[u].state \in {"stored", "refused"}
=============================================================================
