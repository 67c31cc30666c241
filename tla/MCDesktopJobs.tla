---------------------------- MODULE MCDesktopJobs ----------------------------
(* DesktopJobs for TLC. *)
EXTENDS DesktopJobs
=============================================================================
