---------------------------- MODULE MCJobManager ----------------------------
(* Two jobs, which share the close and the retry.                          *)
EXTENDS JobManager
=============================================================================
