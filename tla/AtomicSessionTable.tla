------------------------- MODULE AtomicSessionTable -------------------------
(* What sessions.json promises to the requests that update it: one table    *)
(* of session records in which every update is a single step, so that no    *)
(* update is ever lost (session/session_manager.py, module docstring).      *)
EXTENDS Naturals

CONSTANTS Sessions, None

VARIABLE table  \* the calls counted for each recorded session, or None

TypeOK == table \in [Sessions -> Nat \cup {None}]

Init == TypeOK

\* A session is recorded, by a start or by a relaunch under the same id.
Create(s) == table' = [table EXCEPT ![s] = 0]

\* A recorded session counts one more call.
Touch(s) == table[s] # None /\ table' = [table EXCEPT ![s] = @ + 1]

\* Sessions are removed, by a stop, an aborted start or the collector.
Remove(on) == table' = [s \in Sessions |-> IF s \in on THEN None ELSE table[s]]

Next == \/ \E s \in Sessions : Create(s) \/ Touch(s)
        \/ \E on \in SUBSET Sessions : Remove(on)

Spec == Init /\ [][Next]_table
=============================================================================
