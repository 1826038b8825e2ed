-------------------------- MODULE MCBreakpointWait --------------------------
(* Instances of BreakpointWait small enough for TLC. *)
EXTENDS BreakpointWait, TLC

CONSTANTS t1, t2, t3, b1, b2

\* Calls are interchangeable: each makes one call of any operation.
TaskSymmetry == Permutations(Tasks)
=============================================================================
