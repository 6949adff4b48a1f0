---------------------------- MODULE MCJobQueues ----------------------------
(* Three jobs, two calls that overlap, and pools for a pause by every job.    *)
EXTENDS JobQueues

CONSTANTS c1, c2, j1, j2, j3
=============================================================================
