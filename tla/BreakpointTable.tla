--------------------------- MODULE BreakpointTable ---------------------------
(***************************************************************************)
(* The edits of tools/breakpoint.py: set, remove, update and list of CPU    *)
(* and of memory breakpoints. PPSSPP holds the breakpoints; the conditions  *)
(* are held by core/cond_filter.py, by address, and judged here at a hit.   *)
(*                                                                         *)
(* One edit runs at a time (the session lock); PPSSPP's own user may remove *)
(* a breakpoint at any time, and an answer may be lost after its effect.    *)
(***************************************************************************)
EXTENDS Integers, FiniteSets

CONSTANTS
    Spots,          \* addresses that take a breakpoint
    Sizes,          \* sizes of memory breakpoints callers pass
    Conditions,     \* condition texts
    MaxEdits,       \* bound: edits
    MaxFaults       \* bound: lost requests and removals by PPSSPP's user

VARIABLES
    points,     \* PPSSPP's table: set of breakpoints
    filters,    \* cond_filter._filters of the session: address -> condition or "none"
    edit,       \* the edit under way (NoEdit)
    edits, faults,
    doubt       \* history: addresses two breakpoints shared, that a fault touched, or
                \* where the breakpoint to update was not

editVars == <<points, filters, edit, edits, faults, doubt>>

Flags == {"default", "yes", "no"}       \* "default": the caller left it out
CpuActs == {"set", "remove", "update"}
MemActs == {"mem_set", "mem_remove", "mem_update"}

NoPoint == [kind |-> "none", at |-> 0, size |-> 0, on |-> FALSE,
            read |-> FALSE, write |-> FALSE, change |-> FALSE, asked |-> "none"]
NoEdit == [pc |-> "idle", act |-> "none", at |-> 0, size |-> 0, cond |-> "none",
           on |-> "default", read |-> "default", write |-> "default",
           found |-> NoPoint, res |-> "none"]

EditInit ==
    /\ points = {} /\ filters = [a \in Spots |-> "none"]
    /\ edit = NoEdit /\ edits = 0 /\ faults = 0 /\ doubt = {}

Given(flag, otherwise) == IF flag = "default" THEN otherwise ELSE flag = "yes"
EditAt(pc) == edit.pc = pc
EditEnds(res) == edit' = [NoEdit EXCEPT !.res = res]

-----------------------------------------------------------------------------
(* A call, and the checks made before the session is entered. *)

\* Address 0 and, for a memory breakpoint, a size below 1 are refused.
Accepted(r) ==
    /\ r.at # 0 \/ r.act \in {"list", "mem_list"}
    /\ r.act \in MemActs => r.size >= 1

\* The condition: absent, "" or a text; a list goes straight to its request.
EditArrives ==
    /\ EditAt("idle") /\ edits < MaxEdits /\ edits' = edits + 1
    /\ \E act \in CpuActs \cup MemActs \cup {"list", "mem_list"},
          at \in Spots \cup {0}, size \in Sizes \cup {0},
          cond \in Conditions \cup {"none", ""}, on \in {"default", "no"},
          read, write \in Flags :
         LET r == [NoEdit EXCEPT !.act = act, !.at = at, !.size = size, !.cond = cond,
                                 !.on = on, !.read = read, !.write = write] IN
         /\ act \notin MemActs => size = 0
         /\ act \notin {"mem_set", "mem_update"} => read = "default" /\ write = "default"
         /\ act \in {"remove", "mem_remove", "list", "mem_list"} => cond = "none" /\ on = "default"
         /\ act \in {"list", "mem_list"} => at = 0
         /\ edit' = IF ~Accepted(r) THEN [NoEdit EXCEPT !.res = "ARGS_INVALID"]
                    ELSE [r EXCEPT !.pc = CASE act \in {"list", "mem_list"} -> "answer"
                                            [] act \in {"remove", "mem_remove", "mem_update"} -> "find"
                                            [] OTHER -> "request"]
    /\ UNCHANGED <<points, filters, faults, doubt>>

\* find_mem_bp: the first at the address, whatever size the caller passed.
Matches == {p \in points : p.at = edit.at /\ p.kind = IF edit.act = "remove" THEN "cpu" ELSE "mem"}

\* A removal, and an update of a memory breakpoint, look it up first.
Finds ==
    /\ EditAt("find")
    /\ IF Matches = {} THEN EditEnds("BREAKPOINT_ERROR")
       ELSE \E p \in Matches : edit' = [edit EXCEPT !.pc = "request", !.found = p]
    /\ UNCHANGED <<points, filters, edits, faults, doubt>>

LookupFails ==
    /\ EditAt("find") /\ faults < MaxFaults /\ faults' = faults + 1
    /\ EditEnds("failed")
    /\ UNCHANGED <<points, filters, edits, doubt>>

-----------------------------------------------------------------------------
(* The request, as the client sends it and PPSSPP carries it out. *)

\* What the caller asks of the condition: to keep it, none, or a text.
AskedAfter(old) == IF edit.act \in {"update", "mem_update"} /\ edit.cond = "none" THEN old
                   ELSE IF edit.cond \in Conditions THEN edit.cond ELSE "none"

\* mem_bp_add always sends its flags; a new breakpoint replaces its twin.
Added ==
    [kind |-> IF edit.act = "set" THEN "cpu" ELSE "mem", at |-> edit.at,
     size |-> edit.size, on |-> Given(edit.on, TRUE),
     read |-> edit.act = "mem_set" /\ Given(edit.read, TRUE),
     write |-> edit.act = "mem_set" /\ Given(edit.write, TRUE),
     change |-> FALSE, asked |-> AskedAfter("none")]

\* Mutant: a flag the caller leaves out is left out of the request.
MergedUnread == [read |-> Given(edit.read, FALSE), write |-> Given(edit.write, FALSE),
                 change |-> FALSE]

\* PPSSPP takes an absent flag for false: the current ones are merged in.
Merged == [read |-> Given(edit.read, edit.found.read),
           write |-> Given(edit.write, edit.found.write),
           change |-> edit.found.change]

Target == {p \in points : IF edit.act = "update" THEN p.kind = "cpu" /\ p.at = edit.at
                          ELSE p.kind = "mem" /\ p.at = edit.at /\ p.size = edit.found.size}

Updated(p) ==
    IF edit.act = "update" THEN [p EXCEPT !.on = Given(edit.on, @), !.asked = AskedAfter(@)]
    ELSE [p EXCEPT !.on = Given(edit.on, @), !.asked = AskedAfter(@), !.read = Merged.read,
                   !.write = Merged.write, !.change = Merged.change]

TableAfter ==
    CASE edit.act \in {"set", "mem_set"} ->
           {p \in points : ~(p.kind = Added.kind /\ p.at = edit.at /\ p.size = edit.size)}
               \cup {Added}
      [] edit.act = "remove" -> {p \in points : ~(p.kind = "cpu" /\ p.at = edit.at)}
      [] edit.act = "mem_remove" -> points \ Target
      [] OTHER -> (points \ Target) \cup {Updated(p) : p \in Target}

Shared(table) == {a \in Spots : Cardinality({p \in table : p.at = a}) > 1}

\* PPSSPP carries the request out; the answer is on its way.
Carries ==
    /\ EditAt("request")
    /\ points' = TableAfter
    /\ doubt' = doubt \cup Shared(TableAfter)
                      \cup {a \in {edit.at} : Target = {} /\ edit.act \in {"update", "mem_update"}}
    /\ edit' = [edit EXCEPT !.pc = "carried"]
    /\ UNCHANGED <<filters, edits, faults>>

\* The connection fails with the request, before or after its effect.
RequestLost ==
    /\ edit.pc \in {"request", "carried"} /\ faults < MaxFaults /\ faults' = faults + 1
    /\ EditEnds("failed") /\ doubt' = doubt \cup {edit.at}
    /\ UNCHANGED <<points, filters, edits>>

-----------------------------------------------------------------------------
(* The answer: the condition is filed, then the list is read. *)

\* An update without a condition keeps it, with "" drops it; a set without
\* one drops what an older breakpoint left; a removal drops it.
FilterAfter ==
    IF edit.act \in {"update", "mem_update"} /\ edit.cond = "none" THEN filters[edit.at]
    ELSE IF edit.act \in {"remove", "mem_remove"} \/ edit.cond \notin Conditions THEN "none"
    ELSE edit.cond

FilesCondition ==
    /\ EditAt("carried")
    /\ filters' = [filters EXCEPT ![edit.at] = FilterAfter]
    /\ edit' = [edit EXCEPT !.pc = "answer"]
    /\ UNCHANGED <<points, edits, faults, doubt>>

EditAnswered ==
    /\ EditAt("answer") /\ EditEnds("ok")
    /\ UNCHANGED <<points, filters, edits, faults, doubt>>

AnswerFails ==
    /\ EditAt("answer") /\ faults < MaxFaults /\ faults' = faults + 1 /\ EditEnds("failed")
    /\ UNCHANGED <<points, filters, edits, doubt>>

\* PPSSPP's user removes a breakpoint in its own window.
Vanishes ==
    /\ faults < MaxFaults /\ faults' = faults + 1
    /\ \E p \in points : points' = points \ {p} /\ doubt' = doubt \cup {p.at}
    /\ UNCHANGED <<filters, edit, edits>>

\* ... or arms one there, also one that stops on changes only.
UserArms ==
    /\ faults < MaxFaults /\ faults' = faults + 1
    /\ \E a \in Spots, n \in Sizes :
         /\ ~\E p \in points : p.kind = "mem" /\ p.at = a /\ p.size = n
         /\ points' = points \cup {[NoPoint EXCEPT !.kind = "mem", !.at = a, !.size = n,
                                     !.on = TRUE, !.write = TRUE, !.change = TRUE]}
         /\ doubt' = doubt \cup {a}
    /\ UNCHANGED <<filters, edit, edits>>

\* The session stops (cond_filter.drop_session), and PPSSPP with it.
EditedSessionEnds ==
    /\ EditAt("idle") /\ points # {}
    /\ points' = {} /\ filters' = [a \in Spots |-> "none"] /\ doubt' = {}
    /\ UNCHANGED <<edit, edits, faults>>

EditNext ==
    \/ EditArrives \/ Finds \/ LookupFails \/ Carries \/ RequestLost
    \/ FilesCondition \/ EditAnswered \/ AnswerFails \/ Vanishes \/ UserArms
    \/ EditedSessionEnds

EditSpec == EditInit /\ [][EditNext]_editVars

-----------------------------------------------------------------------------
(* Properties. *)

(* No update turns a flag of a watchpoint that its caller did not name, and *)
(* none touches a watchpoint other than one at its address: what tests     *)
(* after the update find is what the set armed.                            *)
UpdateKeepsFlags ==
    [][edit.act = "mem_update" /\ EditAt("request") /\ edit'.pc = "carried" =>
         \A p \in points : p.kind = "mem" =>
            \E q \in points' :
                /\ q.kind = "mem" /\ q.at = p.at /\ q.size = p.size /\ q.change = p.change
                /\ q.read \in {p.read, Given(edit.read, p.read)}
                /\ q.write \in {p.write, Given(edit.write, p.write)}
                /\ (q # p => p.at = edit.at)]_editVars

(* Between edits the condition held for an address is the one its only      *)
(* breakpoint was last given, if nothing was lost and it was never shared.  *)
LoneConditionHolds ==
    \A p \in points : EditAt("idle") /\ p.at \notin doubt => filters[p.at] = p.asked

(* `one entry per armed conditional breakpoint`: where two breakpoints share *)
(* an address, each is judged by its own condition.                        *)
ConditionIsOwn ==
    \A p, q \in points :
        EditAt("idle") /\ faults = 0 /\ p # q /\ p.at = q.at =>
            filters[p.at] = p.asked /\ filters[q.at] = q.asked

(* An edit of tools/breakpoint.py changes the breakpoint and the condition   *)
(* it names, and no other, though it asks PPSSPP first and changes the       *)
(* condition last.                                                          *)
EditsAreLocal == UpdateKeepsFlags /\ []LoneConditionHolds
=============================================================================
