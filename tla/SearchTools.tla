------------------------------ MODULE SearchTools ------------------------------
(***************************************************************************)
(* Tools that collect a list step by step and must say when it is not all:  *)
(* search_disasm loops over an event that finds one match at a time,        *)
(* analyze_log filters a log that a running game still writes, and health   *)
(* runs a battery of checks, each of which may fail, under one headline.    *)
(***************************************************************************)
EXTENDS Integers, Sequences, FiniteSets

CONSTANTS
    CodeTop,        \* instructions are at 1..CodeTop
    EndArguments,   \* ends of searches that clients send; 0 is none
    Maxes,          \* max_results and limit that clients send
    ResultsCap,     \* _MAX_RESULTS_CAP
    MatchCap,       \* MAX_LOG_MATCHES
    LogLines,       \* classes of log lines: subsets of {"severity", "filter"}
    LogMax,         \* MAX_LOG_BYTES, in lines
    MaxPatches      \* bound: changes of the code or the log during a job

ASSUME SearchAssumption ==
    /\ {CodeTop, ResultsCap, LogMax, MaxPatches} \subseteq Nat
    /\ EndArguments \subseteq Nat /\ Maxes \subseteq Int

VARIABLES
    hitsIn,     \* PPSSPP: addresses whose disassembly contains the text searched
    log,        \* the mirrored PPSSPP log
    job         \* the tool call

searchVars == <<hitsIn, log, job>>

NoJob == [pc |-> "idle", start |-> 0, end |-> 0, max |-> 0, cur |-> 0, found |-> <<>>,
          all |-> FALSE, filter |-> FALSE, capped |-> FALSE, total |-> 0, patched |-> 0,
          checks |-> <<>>, game |-> "unknown", listing |-> TRUE, res |-> "none"]

SearchInit ==
    /\ hitsIn \in SUBSET (1..CodeTop)
    /\ log = <<>> /\ job = NoJob

\* A call leaves nothing behind: one call is all there is to check.
Rests == job.pc = "idle"
Fixed == UNCHANGED <<hitsIn, log>>
SearchDone(res) == [job EXCEPT !.pc = "end", !.res = res]
InvalidArgs == [NoJob EXCEPT !.pc = "end", !.res = "ARGS_INVALID"]

-----------------------------------------------------------------------------
(* search_disasm. *)

SearchArrives ==
    /\ Rests /\ Fixed
    /\ \E start \in 0..CodeTop, end \in EndArguments, max \in Maxes :
         job' = IF start = 0 \/ max \notin 1..ResultsCap THEN InvalidArgs
                ELSE [NoJob EXCEPT !.pc = "search", !.start = start, !.end = end,
                                   !.max = max, !.cur = start]

Lowest(s) == CHOOSE n \in s : \A m \in s : n <= m

\* memory.searchDisasm: without an end beyond the address it wraps around.
FirstHits(from, end) ==
    IF end > from THEN {h \in hitsIn : from <= h /\ h < end}
    ELSE IF \E h \in hitsIn : h >= from THEN {h \in hitsIn : h >= from} ELSE hitsIn

Visited == {job.found[n] : n \in DOMAIN job.found}

\* Mutant: the search goes on from the match itself.
AfterItself(hit) == hit

\* The next search starts one instruction after the match.
After(hit) == hit + 1

\* _collect_matches: until the cap, the end, no match, or a match seen before.
SearchStep ==
    /\ job.pc = "search" /\ Fixed
    /\ LET hits == FirstHits(job.cur, job.end)
           over == Len(job.found) >= job.max \/ (job.end > job.start /\ job.cur >= job.end) IN
       job' = IF over \/ hits = {} \/ Lowest(hits) \in Visited THEN SearchDone("ok")
              ELSE [job EXCEPT !.found = Append(@, Lowest(hits)), !.cur = After(Lowest(hits))]

-----------------------------------------------------------------------------
(* analyze_log. *)

\* The log as the games so far have written it.
LogArrives ==
    /\ Rests /\ UNCHANGED hitsIn
    /\ \E n \in 0..(LogMax + 1) : log' \in [1..n -> LogLines]
    /\ \E filter, all \in BOOLEAN, limit \in Maxes :
         job' = IF Len(log') > LogMax THEN InvalidArgs
                ELSE [NoJob EXCEPT !.pc = "log", !.filter = filter, !.all = all,
                                   !.max = limit, !.cur = 1]

\* filter_mode: the filter adds to the severities, or narrows them.
Wanted(line) ==
    IF job.filter /\ job.all THEN line = {"severity", "filter"}
    ELSE "severity" \in line \/ (job.filter /\ "filter" \in line)

\* The file is read while it grows; the cap stops the scan.
LogReads ==
    /\ job.pc = "log" /\ job.cur <= Len(log) /\ ~job.capped /\ Fixed
    /\ job' = IF Wanted(log[job.cur])
              THEN [job EXCEPT !.cur = @ + 1, !.found = Append(@, job.cur),
                               !.capped = Len(job.found) + 1 >= MatchCap]
              ELSE [job EXCEPT !.cur = @ + 1]

\* Truncated: by the cap of the scan, or by the limit.
Cut == job.capped \/ (job.max > 0 /\ Len(job.found) > job.max)

LogEnds ==
    /\ job.pc = "log" /\ (job.capped \/ job.cur > Len(log)) /\ Fixed
    /\ LET shown == IF job.max > 0 /\ Len(job.found) > job.max
                    THEN SubSeq(job.found, 1, job.max) ELSE job.found IN
       job' = [job EXCEPT !.pc = "end", !.total = Len(job.found), !.found = shown,
                          !.res = IF Cut THEN "truncated" ELSE "ok"]

\* A running game logs; patches change its code.
LogGrows ==
    /\ job.pc = "log" /\ Len(log) < LogMax
    /\ \E line \in LogLines : log' = Append(log, line)
    /\ UNCHANGED <<hitsIn, job>>

CodeChanges ==
    /\ job.pc = "search" /\ job.patched < MaxPatches
    /\ \E c \in SUBSET (1..CodeTop) : hitsIn' = c
    /\ job' = [job EXCEPT !.patched = @ + 1]
    /\ UNCHANGED log

-----------------------------------------------------------------------------
(* health, with the battery of a session. *)

Battery == <<"iso_loaded", "cpu_running", "ws_connected", "game_mode_valid">>

HealthArrives ==
    /\ Rests /\ Fixed
    /\ \E listing \in BOOLEAN :     \* sessions.json was read, or is malformed
         job' = [NoJob EXCEPT !.pc = "health", !.listing = listing, !.cur = 1]

Verdict(v) == [job EXCEPT !.checks = Append(@, v), !.cur = @ + 1]

\* game.status serves two checks; one that failed or said nothing is asked again.
GameStatus == IF job.game = "unknown" THEN {"unknown", "untitled", "paused", "running"}
              ELSE {job.game}

HealthCheck ==
    /\ job.pc = "health" /\ job.cur <= Len(Battery) /\ Fixed
    /\ CASE Battery[job.cur] = "ws_connected" -> job' = Verdict(TRUE)
         [] Battery[job.cur] = "game_mode_valid" -> \E ok \in BOOLEAN : job' = Verdict(ok)
         [] OTHER -> \E g \in GameStatus :
              job' = [Verdict(IF Battery[job.cur] = "iso_loaded" THEN g \in {"paused", "running"}
                              ELSE g = "running") EXCEPT !.game = g]

\* The session is gone, busy or lost: one failed entry ends the battery.
HealthBreaks ==
    /\ job.pc = "health" /\ job.cur <= Len(Battery) /\ Fixed
    /\ job' = [Verdict(FALSE) EXCEPT !.cur = Len(Battery) + 1]

AllPassed == job.checks # <<>> /\ \A n \in DOMAIN job.checks : job.checks[n]

\* The headline follows the session list and the battery.
Headline == IF job.listing /\ AllPassed THEN "ok" ELSE "degraded"

HealthEnds ==
    /\ job.pc = "health" /\ job.cur > Len(Battery) /\ Fixed
    /\ job' = SearchDone(Headline)

SearchNext ==
    \/ SearchArrives \/ SearchStep \/ LogArrives \/ LogReads \/ LogEnds \/ LogGrows
    \/ CodeChanges \/ HealthArrives \/ HealthCheck \/ HealthBreaks \/ HealthEnds

SearchSpec == SearchInit /\ [][SearchNext]_searchVars

-----------------------------------------------------------------------------
(* Properties. *)

Searched == job.pc = "end" /\ job.start > 0 /\ job.res = "ok" /\ job.patched = 0

\* What a search is asked for: the matches before its end, or all of them.
WantedHits == IF job.end > job.start THEN {h \in hitsIn : job.start <= h /\ h < job.end} ELSE hitsIn

(* A search lists every match of its range, or of the whole code when it     *)
(* has no end, each once, unless it reaches max_results.                     *)
SearchFinds ==
    Searched /\ (job.end = 0 \/ job.end >= job.start) =>
        /\ Cardinality(Visited) = Len(job.found)
        /\ Visited \subseteq WantedHits
        /\ Len(job.found) < job.max => Visited = WantedHits

(* `end (u32, optional): end address; if <= address, a loop search`: a loop  *)
(* search lists every match whatever the end it ignores.                    *)
LoopIgnoresEnd == Searched /\ job.end < job.start /\ Len(job.found) < job.max => Visited = hitsIn

(* `truncated=true covers both an explicit limit cut and the internal cap`:  *)
(* a list that is not said to be truncated holds every line wanted of those *)
(* the log had when its end was reached, in their order.                    *)
TruncationIsTold ==
    job.pc = "end" /\ job.res = "ok" /\ job.cur > 0 /\ job.start = 0 /\ job.checks = <<>> =>
        /\ job.cur > Len(log)
        /\ Visited = {n \in 1..Len(log) : Wanted(log[n])}
        /\ \A i, j \in DOMAIN job.found : i < j => job.found[i] < job.found[j]

(* `The headline must not read "ok" while this same response reports a       *)
(* failed battery`: every check then ran and passed, the two that read the   *)
(* game's status from one answer.                                           *)
HeadlineIsHonest ==
    job.pc = "end" /\ job.checks # <<>> /\ job.res = "ok" =>
        Len(job.checks) = Len(Battery) /\ AllPassed /\ job.game = "running"

(* What search_disasm, analyze_log and health report is complete, or says    *)
(* that it is not, though the game writes its code and its log meanwhile.    *)
ReportsAreComplete == SearchFinds /\ TruncationIsTold /\ HeadlineIsHonest
=============================================================================
