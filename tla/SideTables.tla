----------------------------- MODULE SideTables -----------------------------
(***************************************************************************)
(* The tables the server process keeps beside its sessions: the candidates *)
(* of value scans (tools/scan.py), the memory snapshots of diff_memory     *)
(* (tools/diff.py), the probe registry (service/probe_observer.py,         *)
(* tools/state_observer.py) and the zero streaks of probe addresses        *)
(* (core/value_staleness.py).                                              *)
(*                                                                         *)
(* All of them are global, so calls of several sessions meet in them, and  *)
(* every call that reads memory looks a table up before its await and      *)
(* writes it back after.  The session lock only orders the reads of memory *)
(* and is left out.                                                        *)
(***************************************************************************)
EXTENDS Naturals, Sequences, FiniteSets, SequencesExt

CONSTANTS
    Callers,        \* tool calls
    Sessions,
    Handles,        \* fresh handles, in the order they are given out
    Cells,          \* the addresses a value scan may find
    Configured,     \* the probe names of addresses.yaml
    UserProbes,     \* the names users register
    TableCap,       \* _MAX_VALUE_SESSIONS, _MAX_SNAPSHOTS
    Streak,         \* STALE_ADDRESS_STREAK
    MaxFileEdits    \* bound: times addresses.yaml becomes unreadable

ASSUME TablesAssumption ==
    /\ TableCap \in Nat \ {0} /\ Streak \in Nat \ {0} /\ MaxFileEdits \in Nat

SnapKinds == {"value", "diff"}

VARIABLES
    table,      \* kind -> sequence of [handle, owner, cells, passes], oldest first
    issued,     \* number of handles given out
    registered, \* session -> probe name -> "yaml", "user" or "none"
    seeded,     \* sessions whose registry was seeded
    zeros,      \* session -> consecutive zero readings of the probed address
    yaml,       \* addresses.yaml: [ok, edits]
    stopped,    \* sessions that ended
    caller      \* the calls: [pc, kind, s, h, base, found, flag]

tableVars == <<table, issued, registered, seeded, zeros, yaml, stopped, caller>>

Fresh == [pc |-> "idle", kind |-> "none", s |-> "none", h |-> 0, base |-> {},
          res |-> "none"]
NoProbes == [n \in Configured \cup UserProbes |-> "none"]

TablesInit ==
    /\ table = [k \in SnapKinds |-> <<>>]
    /\ issued = 0
    /\ registered = [s \in Sessions |-> NoProbes]
    /\ seeded = {}
    /\ zeros = [s \in Sessions |-> 0]
    /\ yaml = [ok |-> TRUE, edits |-> 0]
    /\ stopped = {}
    /\ caller = [c \in Callers |-> Fresh]

Entry(kind, h) == {i \in DOMAIN table[kind] : table[kind][i].handle = h}
Finish(c, res) == caller' = [caller EXCEPT ![c].pc = "end", ![c].res = res]
StillRegistry == UNCHANGED <<registered, seeded, zeros, yaml, stopped>>

-----------------------------------------------------------------------------
(* Value scans and snapshots. *)

\* initial, snapshot: the memory is read first.
BeginRead(c, kind, s) ==
    /\ caller[c].pc = "idle"
    /\ caller' = [caller EXCEPT ![c] = [Fresh EXCEPT !.pc = "read", !.kind = kind, !.s = s]]
    /\ UNCHANGED <<table, issued>> /\ StillRegistry

\* The oldest handle makes room, whichever session owns it.
MakeRoom(q) == IF Len(q) >= TableCap THEN SubSeq(q, Len(q) - TableCap + 2, Len(q)) ELSE q

\* Evict and insert, with no await between the two.
StoreEntry(c, kind, found) ==
    table' = [table EXCEPT ![kind] =
        Append(MakeRoom(@),
               [handle |-> issued + 1, owner |-> caller[c].s, cells |-> found, passes |-> 1])]

Stored(c, kind) ==
    /\ caller[c].pc = "read" /\ caller[c].kind = kind
    /\ issued < Cardinality(Handles)
    /\ \/ /\ caller[c].s \in stopped
          /\ Finish(c, "failed") /\ UNCHANGED <<table, issued>>
       \/ /\ caller[c].s \notin stopped
          /\ \E found \in SUBSET Cells : StoreEntry(c, kind, found)
          /\ issued' = issued + 1
          /\ Finish(c, "ok")
    /\ StillRegistry

InitialScan(c) == Stored(c, "value")
TakeSnapshot(c) == Stored(c, "diff")

\* narrow, compare: the handle is looked up, and its owner checked, before the read.
LookUp(c, kind, s, h) ==
    /\ caller[c].pc = "idle" /\ h <= issued
    /\ IF \E i \in Entry(kind, h) : table[kind][i].owner = s
       THEN \E i \in Entry(kind, h) :
              caller' = [caller EXCEPT ![c] =
                 [Fresh EXCEPT !.pc = "reread", !.kind = kind, !.s = s, !.h = h,
                               !.base = table[kind][i].cells]]
       ELSE Finish(c, "invalid")
    /\ UNCHANGED <<table, issued>> /\ StillRegistry

WithCells(q, h, kept) ==
    [i \in DOMAIN q |-> IF q[i].handle = h
                        THEN [q[i] EXCEPT !.cells = kept, !.passes = @ + 1] ELSE q[i]]

\* The candidates that still hold replace the handle's, which may be gone by now
\* and may have been narrowed by another call since they were looked up.
Narrowed(c) ==
    /\ caller[c].pc = "reread" /\ caller[c].kind = "value"
    /\ \/ caller[c].s \in stopped /\ Finish(c, "failed") /\ UNCHANGED table
       \/ \E kept \in SUBSET caller[c].base :
            /\ table' = [table EXCEPT !["value"] = WithCells(@, caller[c].h, kept)]
            /\ Finish(c, "ok")
    /\ UNCHANGED issued /\ StillRegistry

\* A comparison uses the bytes it looked up, evicted meanwhile or not.
Compared(c) ==
    /\ caller[c].pc = "reread" /\ caller[c].kind = "diff"
    /\ \E res \in {"ok", "failed"} :
          /\ res = "ok" => caller[c].s \notin stopped
          /\ Finish(c, res)
    /\ UNCHANGED <<table, issued>> /\ StillRegistry

\* drop: only the owner may.
Drop(c, kind, s, h) ==
    /\ caller[c].pc = "idle" /\ h <= issued
    /\ \/ /\ \E i \in Entry(kind, h) :
               table[kind][i].owner = s /\ table' = [table EXCEPT ![kind] = RemoveAt(@, i)]
          /\ Finish(c, "ok")
       \/ /\ \A i \in Entry(kind, h) : table[kind][i].owner # s
          /\ UNCHANGED table /\ Finish(c, "invalid")
    /\ UNCHANGED issued /\ StillRegistry

-----------------------------------------------------------------------------
(* Probes. *)

\* addresses(): a file that cannot be parsed counts as an empty one.
Names == IF yaml.ok THEN Configured ELSE {}

\* The first call of a session seeds it; an entry of the user stays.
Seeded(s) ==
    IF s \in seeded THEN registered[s]
    ELSE [n \in DOMAIN registered[s] |->
             IF n \in Names /\ registered[s][n] = "none" THEN "yaml" ELSE registered[s][n]]

WithProbes(c, s, probes) ==
    /\ caller[c].pc = "idle"
    /\ seeded' = seeded \cup {s}
    /\ registered' = [registered EXCEPT ![s] = probes]
    /\ Finish(c, "ok")
    /\ UNCHANGED <<table, issued, zeros, yaml, stopped>>

Register(c, s, n) == WithProbes(c, s, [Seeded(s) EXCEPT ![n] = "user"])
List(c, s) == WithProbes(c, s, Seeded(s))

\* Mutant: clear takes the configured probes as well.
ClearableAll(s) == DOMAIN registered[s]

\* What clear may take: the names the configuration does not list now.
Clearable(s) == DOMAIN registered[s] \ Names

ClearAll(c, s) ==
    WithProbes(c, s, [n \in DOMAIN registered[s] |->
                         IF n \in Clearable(s) THEN "none" ELSE Seeded(s)[n]])
ClearOne(c, s, n) ==
    WithProbes(c, s, IF n \in Clearable(s) THEN [Seeded(s) EXCEPT ![n] = "none"] ELSE Seeded(s))

\* observe resolves its probes before the read.
ReadConfigured(c, s) ==
    /\ caller[c].pc = "idle"
    /\ seeded' = seeded \cup {s}
    /\ registered' = [registered EXCEPT ![s] = Seeded(s)]
    /\ caller' = [caller EXCEPT ![c] =
         [Fresh EXCEPT !.s = s,
                       !.pc = IF \E n \in DOMAIN registered[s] : Seeded(s)[n] # "none"
                              THEN "observe" ELSE "end",
                       !.res = IF \E n \in DOMAIN registered[s] : Seeded(s)[n] # "none"
                               THEN "none" ELSE "invalid"]]
    /\ UNCHANGED <<table, issued, zeros, yaml, stopped>>

\* A zero extends the address's streak, anything else ends it, a failed read
\* says nothing.
Classify(s, zero) == zeros' = [zeros EXCEPT ![s] = IF zero THEN @ + 1 ELSE 0]

Observed(c) ==
    LET s == caller[c].s IN
    /\ caller[c].pc = "observe"
    /\ \/ Finish(c, "failed") /\ UNCHANGED zeros
       \/ \E zero \in BOOLEAN :
            /\ zeros[s] < Streak \/ ~zero
            /\ Classify(s, zero)
            /\ Finish(c, IF zero /\ zeros[s] + 1 >= Streak THEN "stale" ELSE "ok")
    /\ UNCHANGED <<table, issued, registered, seeded, yaml, stopped>>

\* The session's tables are reclaimed when it ends; scans and snapshots stay.
DropSession(s) ==
    /\ s \notin stopped
    /\ stopped' = stopped \cup {s}
    /\ seeded' = seeded \ {s}
    /\ registered' = [registered EXCEPT ![s] = NoProbes]
    /\ zeros' = [zeros EXCEPT ![s] = 0]
    /\ UNCHANGED <<table, issued, yaml, caller>>

\* addresses.yaml is edited: unreadable for a while, then whole again.
EditYaml ==
    /\ ~yaml.ok \/ yaml.edits < MaxFileEdits
    /\ yaml' = [ok |-> ~yaml.ok, edits |-> yaml.edits + (IF yaml.ok THEN 1 ELSE 0)]
    /\ UNCHANGED <<table, issued, registered, seeded, zeros, stopped, caller>>

TablesNext ==
    \/ \E c \in Callers, k \in SnapKinds, s \in Sessions : BeginRead(c, k, s)
    \/ \E c \in Callers : InitialScan(c) \/ TakeSnapshot(c) \/ Narrowed(c) \/ Compared(c) \/ Observed(c)
    \/ \E c \in Callers, k \in SnapKinds, s \in Sessions, h \in Handles :
          LookUp(c, k, s, h) \/ Drop(c, k, s, h)
    \/ \E c \in Callers, s \in Sessions : List(c, s) \/ ClearAll(c, s) \/ ReadConfigured(c, s)
    \/ \E c \in Callers, s \in Sessions, n \in Configured \cup UserProbes :
          Register(c, s, n) \/ ClearOne(c, s, n)
    \/ \E s \in Sessions : DropSession(s)
    \/ EditYaml

TablesSpec == TablesInit /\ [][TablesNext]_tableVars

-----------------------------------------------------------------------------
(* Properties. *)

(* No table grows past its cap, however many calls are reading memory when   *)
(* room is made: _evict_oldest_if_full runs after the read, and nothing     *)
(* awaits between it and the insertion.                                     *)
TablesBounded == \A k \in SnapKinds : Len(table[k]) <= TableCap

(* As long as addresses.yaml stays readable, a seeded session has every      *)
(* configured probe, whatever was registered and cleared: `the baseline is   *)
(* what must survive', tools/state_observer.py.                             *)
BaselineSurvives ==
    yaml.edits = 0 =>
        \A s \in seeded, n \in Configured : registered[s][n] # "none"

(* A clear takes no configured probe: `clear removes user-registered probes  *)
(* only, so the configured baseline survives', tools/state_observer.py:245. *)
ClearKeepsBaseline ==
    [][\A c \in Callers, s \in Sessions :
          ClearAll(c, s) =>
             \A n \in Configured : registered[s][n] = "yaml" => registered'[s][n] # "none"]_tableVars

(* Calls that await between their look into a table and their insertion, and *)
(* a registry that is seeded late, leave the tables within their caps and    *)
(* the configured probes in place.                                          *)
TablesHold == TablesBounded /\ BaselineSurvives
=============================================================================
