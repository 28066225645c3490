------------------------------- MODULE MCRecords -------------------------------
(***************************************************************************)
(* Instances of PairMetrics, Accounts, Reports and Listings for TLC.  The  *)
(* four share no variable: instead of every combination of their states,   *)
(* one of them, chosen at the start, moves.                                *)
(***************************************************************************)
EXTENDS PairMetrics, Accounts, Reports, Listings

VARIABLE focus

RecordsInit ==
    /\ focus \in {"metrics", "accounts", "reports", "lists"}
    /\ MetricsInit /\ AccountsInit /\ ReportsInit /\ ListingsInit

RecordsNext ==
    /\ \/ /\ focus = "metrics" /\ MetricsNext
          /\ UNCHANGED <<accountsVars, reportsVars, listingsVars>>
       \/ /\ focus = "accounts" /\ AccountsNext
          /\ UNCHANGED <<metricsVars, reportsVars, listingsVars>>
       \/ /\ focus = "reports" /\ ReportsNext
          /\ UNCHANGED <<metricsVars, accountsVars, listingsVars>>
       \/ /\ focus = "lists" /\ ListingsNext
          /\ UNCHANGED <<metricsVars, accountsVars, reportsVars>>
    /\ UNCHANGED focus

RecordsSpec ==
    /\ RecordsInit
    /\ [][RecordsNext]_<<focus, metricsVars, accountsVars, reportsVars, listingsVars>>
    /\ MetricsFairness /\ ReportsFairness

(* Types of the four modules: every row, token, request, lock and page     *)
(* stays what its table or its client can hold.                            *)
RecordsTypeOK == MetricsTypeOK /\ AccountsTypeOK /\ ReportsTypeOK /\ ListingsTypeOK
=============================================================================
