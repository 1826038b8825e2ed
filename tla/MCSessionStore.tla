--------------------------- MODULE MCSessionStore ---------------------------
(* Instances of SessionStore small enough for TLC. *)
EXTENDS SessionStore, TLC

CONSTANTS s1, s2, r1, r2, r3

\* Sessions and requests are interchangeable: each is only quantified over.
StoreSymmetry == Permutations(Requests) \cup Permutations(Sessions)
=============================================================================
