--------------------------- MODULE MCInboxThreads ---------------------------
(* One thread, one request at a time, two answers at a time. Symmetry is    *)
(* left out: the run checks liveness.                                       *)
EXTENDS InboxThreads
=============================================================================
