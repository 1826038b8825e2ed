------------------------------ MODULE FrontDoor ------------------------------
(***************************************************************************)
(* What a tools/call meets before a tool: the middleware chain of           *)
(* middleware.py (request id, token buckets, the check of the arguments),   *)
(* the session a call without one is given (session/client_helper.py), and  *)
(* the session tool (tools/session.py) that makes and ends the sessions.    *)
(*                                                                         *)
(* A tick of the clock is the time in which a bucket regains one token.     *)
(***************************************************************************)
EXTENDS Integers, FiniteSets

CONSTANTS
    Clients,        \* concurrent requests
    Games,          \* session ids
    ToolNames,      \* names that are, or become, tools
    Rates,          \* rate_limit(): tokens of a full bucket, as configured
    BucketTtl,      \* _BUCKET_TTL_S in ticks
    PruneAbove,     \* _PRUNE_THRESHOLD
    PruneEvery,     \* _PRUNE_INTERVAL_S in ticks
    Placements,     \* where clients write a session id: "arguments", "params"
    BootPolls,      \* polls that fit timeout_s of wait_ready
    MaxClock,       \* bound: ticks
    MaxCalls        \* bound: calls admitted

ASSUME FrontAssumption ==
    /\ Rates \subseteq Int /\ BucketTtl \in Nat /\ \A r \in Rates : BucketTtl >= r
    /\ {PruneAbove, PruneEvery, MaxClock, MaxCalls} \subseteq Nat
    /\ BootPolls \in Nat \ {0}
    /\ Placements \subseteq {"arguments", "params"}

VARIABLES
    rate,       \* _rate, read once
    clock,
    buckets,    \* _buckets: set of [key, tokens, last]
    pruned,     \* _last_prune
    offered,    \* the names that are tools now
    games,      \* the active sessions -> "booting", "ready", "wedged"
    door,       \* client -> its request (NoCall)
    past        \* history: set of [no, at, key, sid, name] of the calls admitted

frontVars == <<rate, clock, buckets, pruned, offered, games, door, past>>

NoCall == [pc |-> "idle", name |-> "none", sid |-> "none", at |-> "arguments",
           act |-> "none", left |-> 0, res |-> "none"]

FrontInit ==
    /\ rate \in Rates /\ clock = 0 /\ buckets = {} /\ pruned = 0
    /\ offered \in SUBSET ToolNames
    /\ games = [s \in {} |-> "booting"]
    /\ door = [c \in Clients |-> NoCall]
    /\ past = {}

Knock(c, r) == door' = [door EXCEPT ![c] = r]
Answered(c, res) == Knock(c, [NoCall EXCEPT !.res = res])
Refused(c) == Knock(c, [door[c] EXCEPT !.pc = "idle", !.res = "RATE_LIMIT_EXCEEDED"])
AtDoor(c, pc) == door[c].pc = pc

-----------------------------------------------------------------------------
(* Time, the tools of exposed scripts, and the emulators. *)

Ticks ==
    /\ clock < MaxClock /\ clock' = clock + 1
    /\ UNCHANGED <<rate, buckets, pruned, offered, games, door, past>>

ScriptsReload ==
    /\ offered' \in SUBSET ToolNames
    /\ UNCHANGED <<rate, clock, buckets, pruned, games, door, past>>

GameBoots ==
    /\ \E s \in DOMAIN games : /\ games[s] = "booting"
                               /\ \E how \in {"ready", "wedged"} :
                                    games' = [games EXCEPT ![s] = how]
    /\ UNCHANGED <<rate, clock, buckets, pruned, offered, door, past>>

Without1(s) == [g \in DOMAIN games \ {s} |-> games[g]]

GameDies ==
    /\ \E s \in DOMAIN games : games' = Without1(s)
    /\ UNCHANGED <<rate, clock, buckets, pruned, offered, door, past>>

-----------------------------------------------------------------------------
(* The middleware chain. *)

\* A call by name, known or not, with its session id in one of two places.
CallArrives(c) ==
    /\ AtDoor(c, "idle")
    /\ \E name \in ToolNames \cup {"unknown"}, sid \in Games \cup {"none"}, at \in Placements :
         Knock(c, [NoCall EXCEPT !.pc = "limit", !.name = name, !.sid = sid, !.at = at])
    /\ UNCHANGED <<rate, clock, buckets, pruned, offered, games, past>>

\* _extract_session_id looks beside the arguments, not into them.
SessionSeen(r) == IF r.at = "params" /\ r.sid # "none" THEN r.sid ELSE "__global__"

\* Whatever is no tool at the moment shares one bucket.
BucketKey(r) ==
    IF r.name \in offered THEN <<SessionSeen(r), r.name>> ELSE <<"__unknown__", "__unknown__">>

\* Mutant: every bucket but the one in use is dropped.
PrunedAll(key) ==
    IF Cardinality(buckets) > PruneAbove /\ clock - pruned >= PruneEvery
    THEN {b \in buckets : b.key = key} ELSE buckets

\* Buckets idle for long go, now and then; never the one in use.
Pruned(key) ==
    IF Cardinality(buckets) > PruneAbove /\ clock - pruned >= PruneEvery
    THEN {b \in buckets : b.key = key \/ clock - b.last < BucketTtl} ELSE buckets

\* Tokens regained since the last call, up to a full bucket.
TokensOf(key) ==
    IF \E b \in buckets : b.key = key
    THEN LET b == CHOOSE x \in buckets : x.key = key
             sum == b.tokens + (clock - b.last) IN
         IF sum < rate THEN sum ELSE rate
    ELSE rate

\* A refused call changes no bucket but for the pruning.
Limit(c) ==
    LET key == BucketKey(door[c])
        kept == Pruned(key)
        tokens == TokensOf(key) IN
    /\ AtDoor(c, "limit") /\ rate > 0
    /\ pruned' = IF Cardinality(buckets) > PruneAbove /\ clock - pruned >= PruneEvery
                 THEN clock ELSE pruned
    /\ IF tokens < 1
       THEN Refused(c) /\ buckets' = kept /\ UNCHANGED past
       ELSE /\ Cardinality(past) < MaxCalls
            /\ buckets' = {b \in kept : b.key # key}
                          \cup {[key |-> key, tokens |-> tokens - 1, last |-> clock]}
            /\ past' = past \cup {[no |-> Cardinality(past), at |-> clock, key |-> key,
                                   sid |-> door[c].sid, name |-> door[c].name]}
            /\ Knock(c, [door[c] EXCEPT !.pc = "arguments"])
    /\ UNCHANGED <<rate, clock, offered, games>>

\* rate_limit() <= 0 switches the limiter off.
Unlimited(c) ==
    /\ AtDoor(c, "limit") /\ rate <= 0
    /\ Knock(c, [door[c] EXCEPT !.pc = "arguments"])
    /\ UNCHANGED <<rate, clock, buckets, pruned, offered, games, past>>

\* tool_error_middleware: arguments that do not validate end the call; what
\* is no tool is left to the SDK.
CheckArguments(c) ==
    /\ AtDoor(c, "arguments")
    /\ IF door[c].name \notin offered THEN Answered(c, "METHOD_NOT_FOUND")
       ELSE Answered(c, "ARGS_INVALID") \/ Knock(c, [door[c] EXCEPT !.pc = "resolve"])
    /\ UNCHANGED <<rate, clock, buckets, pruned, offered, games, past>>

-----------------------------------------------------------------------------
\* resolve_session_id: only a session that is alone is taken unasked.
Resolve(c) ==
    /\ AtDoor(c, "resolve")
    /\ \/ /\ door[c].sid # "none"
          /\ Knock(c, [door[c] EXCEPT !.pc = "tool"])
       \/ /\ door[c].sid = "none" /\ Cardinality(DOMAIN games) = 1
          /\ \E s \in DOMAIN games : Knock(c, [door[c] EXCEPT !.pc = "tool", !.sid = s])
       \/ /\ door[c].sid = "none" /\ Cardinality(DOMAIN games) # 1
          /\ Answered(c, IF games = <<>> THEN "SESSION_NOT_FOUND" ELSE "SESSION_AMBIGUOUS")
       \/ Knock(c, [door[c] EXCEPT !.pc = "session"])     \* the session tool
    /\ UNCHANGED <<rate, clock, buckets, pruned, offered, games, past>>

ToolRuns(c) ==
    /\ AtDoor(c, "tool")
    /\ Answered(c, IF door[c].sid \in DOMAIN games THEN "ok" ELSE "SESSION_NOT_FOUND")
    /\ UNCHANGED <<rate, clock, buckets, pruned, offered, games, past>>

-----------------------------------------------------------------------------
(* The session tool. *)

SessionList(c) ==
    /\ AtDoor(c, "session") /\ Answered(c, "ok")
    /\ UNCHANGED <<rate, clock, buckets, pruned, offered, games, past>>

\* get, stop and wait_ready need an id; start needs a disc and an address.
SessionRefused(c) ==
    /\ AtDoor(c, "session") /\ Answered(c, "ARGS_INVALID")
    /\ UNCHANGED <<rate, clock, buckets, pruned, offered, games, past>>

SessionGet(c) ==
    /\ AtDoor(c, "session") /\ door[c].sid # "none"
    /\ Answered(c, IF door[c].sid \in DOMAIN games THEN "ok" ELSE "SESSION_NOT_FOUND")
    /\ UNCHANGED <<rate, clock, buckets, pruned, offered, games, past>>

SessionStop(c) ==
    /\ AtDoor(c, "session") /\ door[c].sid # "none"
    /\ games' = Without1(door[c].sid)
    /\ Answered(c, IF door[c].sid \in DOMAIN games THEN "ok" ELSE "SESSION_NOT_FOUND")
    /\ UNCHANGED <<rate, clock, buckets, pruned, offered, past>>

\* A start may end at once, or wait for the game; a failed wait leaves the
\* session there.
SessionStart(c) ==
    /\ AtDoor(c, "session")
    /\ \/ \E s \in Games \ DOMAIN games :
            /\ games' = [g \in DOMAIN games \cup {s} |->
                            IF g = s THEN "booting" ELSE games[g]]
            /\ \E next \in {"ready", "done"} :
                 IF next = "done" THEN Answered(c, "ok")
                 ELSE Knock(c, [door[c] EXCEPT !.pc = "waitready", !.sid = s, !.left = BootPolls])
       \/ Answered(c, "LAUNCH_FAILED") /\ UNCHANGED games
    /\ UNCHANGED <<rate, clock, buckets, pruned, offered, past>>

SessionWait(c) ==
    /\ AtDoor(c, "session") /\ door[c].sid # "none"
    /\ IF door[c].sid \in DOMAIN games
       THEN Knock(c, [door[c] EXCEPT !.pc = "waitready", !.left = BootPolls])
       ELSE Answered(c, "SESSION_NOT_FOUND")
    /\ UNCHANGED <<rate, clock, buckets, pruned, offered, games, past>>

\* _wait_ready_cpu: one probe, without the session lock.
ReadyPoll(c) ==
    LET s == door[c].sid IN
    /\ AtDoor(c, "waitready")
    /\ IF s \in DOMAIN games /\ games[s] = "ready" THEN Answered(c, "ready")
       ELSE IF door[c].left > 1 THEN Knock(c, [door[c] EXCEPT !.left = @ - 1])
       ELSE Answered(c, "BOOT_TIMEOUT")
    /\ UNCHANGED <<rate, clock, buckets, pruned, offered, games, past>>

FrontNext ==
    \/ Ticks \/ ScriptsReload \/ GameBoots \/ GameDies
    \/ \E c \in Clients :
         \/ CallArrives(c) \/ Limit(c) \/ Unlimited(c) \/ CheckArguments(c) \/ Resolve(c)
         \/ ToolRuns(c) \/ SessionList(c) \/ SessionRefused(c) \/ SessionGet(c)
         \/ SessionStop(c) \/ SessionStart(c) \/ SessionWait(c) \/ ReadyPoll(c)

FrontSpec == FrontInit /\ [][FrontNext]_frontVars

-----------------------------------------------------------------------------
(* Properties. *)

(* In no span of time does a bucket admit more calls than a full one and the *)
(* tokens it regains meanwhile, whatever was pruned in between.             *)
AdmittedInSpan ==
    \A x, y \in past :
        x.key = y.key /\ x.at <= y.at =>
            Cardinality({z \in past : z.key = x.key /\ x.at <= z.at /\ z.at <= y.at})
                <= rate + (y.at - x.at)

(* `one session cannot exhaust another session's budget for the same tool':  *)
(* a session's call is refused only after as many calls of its own.         *)
SessionBudgetIsOwn ==
    \A c \in Clients :
        door[c].res = "RATE_LIMIT_EXCEEDED" /\ door[c].sid # "none" /\ door[c].name \in offered =>
            Cardinality({z \in past : z.sid = door[c].sid /\ z.name = door[c].name}) >= rate
=============================================================================
