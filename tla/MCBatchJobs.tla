---------------------------- MODULE MCBatchJobs ----------------------------
(* Instances of BatchJobs small enough for TLC. *)
EXTENDS BatchJobs, TLC

CONSTANTS s1, s2, b1, b2, b3, c1
=============================================================================
