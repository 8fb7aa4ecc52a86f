----------------------------- MODULE MCTaskBoard -----------------------------
(* One task and two records, so that a second one can be orphaned.          *)
EXTENDS TaskBoard, TLC

Symmetry == Permutations(Requests) \cup Permutations(Records)
=============================================================================
