-------------------------- MODULE MCContinuitySweep --------------------------
(* An action or a blocker under one or two sweepers.                        *)
EXTENDS ContinuitySweep, TLC

OneAction == 1 :> "action"
OneBlocker == 1 :> "blocker"

SweeperSymmetry == Permutations(Sweepers)
=============================================================================
