------------------------- MODULE MCSessionLifecycle -------------------------
(* Instances of SessionLifecycle small enough for TLC. *)
EXTENDS SessionLifecycle, TLC

CONSTANTS s1, s2, c1, c2, k1, k2

\* Callers and stop tasks are interchangeable: every use of them is a
\* quantifier, and each makes one call.
TaskSymmetry == Permutations(Callers) \cup Permutations(Stoppers)
=============================================================================
