----------------------------- MODULE MCScanJobs -----------------------------
(* Instances of ScanJobs for TLC. *)
EXTENDS ScanJobs

CONSTANTS j1, j2, c1, c2
=============================================================================
