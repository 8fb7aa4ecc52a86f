-------------------------- MODULE MCScheduledJobs --------------------------
(* One item to post about, every job.                                      *)
EXTENDS ScheduledJobs
=============================================================================
