---------------------------- MODULE UsageLedger ----------------------------
(***************************************************************************)
(* What the usage tables promise to the reader of usage_daily, "the        *)
(* numbers a deployment is licensed on" (tables/usage/usage_daily.yaml):   *)
(* what a published day counts has landed in a source table, and a number  *)
(* once published is only ever replaced by one that counts more.           *)
(*                                                                         *)
(* The ledger says nothing of windows, clocks, refreshes or retention.     *)
(* UsageRollup implements it with published <- usage_daily.                *)
(***************************************************************************)
EXTENDS Naturals

CONSTANTS
    Views,      \* the minute views, each the owner of its own metrics
    Minutes     \* the UTC minutes of the deployment's life

VARIABLES
    readings,   \* readings[v][m]: readings of minute m in view v's source
    published   \* published[v][m]: those that minute m adds to its day's row

ledger == <<readings, published>>

Nothing == [v \in Views |-> [m \in Minutes |-> 0]]

LedgerInit ==
    /\ readings = Nothing
    /\ published = Nothing

\* Readings only arrive.
Arrive ==
    /\ readings' \in [Views -> [Minutes -> Nat]]
    /\ \A v \in Views, m \in Minutes : readings'[v][m] >= readings[v][m]
    /\ UNCHANGED published

\* Published numbers catch up with the readings, by any amount and in any order.
Publish ==
    /\ published' \in [Views -> [Minutes -> Nat]]
    /\ \A v \in Views, m \in Minutes :
          /\ published'[v][m] >= published[v][m]
          /\ published'[v][m] <= readings[v][m]
    /\ UNCHANGED readings

LedgerSpec == LedgerInit /\ [][Arrive \/ Publish]_ledger
=============================================================================
