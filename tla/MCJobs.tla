------------------------------- MODULE MCJobs -------------------------------
(* Two jobs of one front thread. *)
EXTENDS Jobs
=============================================================================
