--------------------------- MODULE MCUsageRollup ---------------------------
(***************************************************************************)
(* UsageRollup for TLC.                                                    *)
(***************************************************************************)
EXTENDS UsageRollup

CONSTANT Up     \* the views that keep running in the liveness run

\* One and the same window for every view.
OneMinuteLate == [v \in Views |-> 1]
ThreeMinutesLate == [v \in Views |-> 3]

FairSpec == Spec /\ Fairness(Up)

\* The views that keep running publish every minute still in reach.
UpViewsConverge == Converges(Up)
=============================================================================
