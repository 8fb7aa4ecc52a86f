--------------------------- MODULE MCRecordService ---------------------------
(* Small instances of the record service; its clients are interchangeable.  *)
EXTENDS RecordService, TLC

ClientSymmetry == Permutations(Clients)
=============================================================================
