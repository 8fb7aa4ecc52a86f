------------------------- MODULE MCSharedConnection -------------------------
(* Every handler there is, one at a time.                                   *)
EXTENDS SharedConnection
=============================================================================
