----------------------------- MODULE MemoryScan -----------------------------
(***************************************************************************)
(* The readers that walk over emulated memory in several requests: the     *)
(* byte-pattern scan (service/scan_service.py), the value and string scans *)
(* and the narrowing of candidates (tools/scan.py, service/scan_engine.py),*)
(* and the polling watch (tools/watch_value.py).                           *)
(*                                                                         *)
(* One call is modelled at a time.  Memory is a function from addresses to *)
(* byte values, with at most one unmapped hole; a read that touches the    *)
(* hole is refused, any read may time out, and PPSSPP may answer a read    *)
(* with fewer bytes than asked.                                            *)
(***************************************************************************)
EXTENDS Naturals, Sequences, FiniteSets, SequencesExt, FiniteSetsExt

CONSTANTS
    MemTop,         \* last address
    ByteValues,     \* the values of a byte
    ScanJobs,       \* the calls: [kind, pat, lo, hi, chunk, max, width, from, bg]
    DefaultLength,  \* DEFAULT_STRING_CAP, disassemble's default count
    MaxRead,        \* MAX_SINGLE_READ_BYTES
    ForegroundMax,  \* FOREGROUND_SCAN_LIMIT_BYTES
    MaxLines,       \* _MAX_DISASM_COUNT
    MaxTimeouts,    \* SCAN_MAX_CONSECUTIVE_READ_FAILURES
    MaxChanges,     \* the changes a watch records before it stops
    MaxPokes        \* bound: times the game changes the watched byte

ASSUME ScanAssumption ==
    /\ {MemTop, MaxRead, DefaultLength, ForegroundMax, MaxLines, MaxTimeouts,
        MaxChanges} \subseteq Nat \ {0}
    /\ MaxPokes \in Nat
    /\ ByteValues \subseteq 0 .. 255
\* An empty pattern is answered before there is a scan, and segments are a multiple
\* of the width of a value.
ASSUME ScanJobsAssumption ==
    \A job \in ScanJobs :
        /\ {job.lo, job.hi, job.chunk, job.max} \subseteq Nat /\ job.width \in Nat \ {0}
        /\ job.pat \in Seq(Nat) /\ Len(job.pat) > 0
        /\ job.from \subseteq Nat /\ IsFiniteSet(job.from)
        /\ job.kind = "value" => MaxRead % job.width = 0

VARIABLES
    mem,        \* PPSSPP: the bytes
    hole,       \* PPSSPP: an unmapped address, or 0
    pokes,      \* times the game changed the watched byte
    scan        \* the call and its locals

scanVars == <<mem, hole, pokes, scan>>

\* No byte: what a watch has before its first reading.
Unseen == 256

Start(job) ==
    [job |-> job, pc |-> "ask", found |-> <<>>, fails |-> 0,
     cursor |-> IF job.kind \in {"narrow", "watch"} THEN 1 ELSE job.lo,
     clean |-> TRUE, more |-> FALSE, first |-> Unseen, last |-> Unseen]

ScanInit ==
    /\ mem \in [1 .. MemTop -> ByteValues]
    /\ hole \in 0 .. MemTop
    /\ pokes = 0
    /\ scan \in {Start(job) : job \in ScanJobs}

Least(a, b) == IF a < b THEN a ELSE b
Rank(a, S) == Cardinality({b \in S : b < a})
Ascending(S) == [i \in 1 .. Cardinality(S) |-> CHOOSE a \in S : Rank(a, S) = i - 1]
Prefix(s, n) == SubSeq(s, 1, Least(n, Len(s)))
Readable(lo, hi) == hole \notin lo .. (hi - 1)
Running(kind) == scan.pc = "run" /\ scan.job.kind = kind
Now(s) == scan' = s /\ UNCHANGED <<mem, hole, pokes>>

\* The little-endian value of `width' bytes at an address (1 or 2 here).
ValueAt(a, width) == IF width = 1 THEN mem[a] ELSE mem[a] + 256 * mem[a + 1]

-----------------------------------------------------------------------------
(* The tools' front doors. *)

\* A long pattern or string scan becomes a background job; a session has one such
\* job at a time, and a narrowing is never one.
Dispatch ==
    LET job == scan.job
        background == \/ job.bg
                      \/ job.kind \in {"pattern", "strings"} /\ job.hi - job.lo > ForegroundMax IN
    /\ scan.pc = "ask"
    /\ \/ background /\ Now([scan EXCEPT !.pc = "refused"])
       \/ (background => job.kind # "narrow") /\ Now([scan EXCEPT !.pc = "run"])

\* read_bytes, capped; the bytes are what is found.
ReadBytes ==
    LET job == scan.job IN
    /\ Running("bytes")
    /\ Now(IF job.hi - job.lo > MaxRead THEN [scan EXCEPT !.pc = "refused"]
           ELSE IF ~Readable(job.lo, job.hi) THEN [scan EXCEPT !.pc = "aborted"]
           ELSE [scan EXCEPT !.pc = "end", !.found = SubSeq(mem, job.lo, job.hi - 1)])

\* read_string: a bounded read, cut at its first zero byte; a string that fills
\* the bound is reported as truncated.
ReadString ==
    LET cap == Least(IF scan.job.max = 0 THEN DefaultLength ELSE scan.job.max, MaxRead)
        last == Least(scan.job.lo + cap - 1, MemTop)
        text == {i \in scan.job.lo .. last : \A j \in scan.job.lo .. i : mem[j] # 0} IN
    /\ Running("string")
    /\ Now(IF ~Readable(scan.job.lo, last + 1) THEN [scan EXCEPT !.pc = "aborted"]
           ELSE [scan EXCEPT !.pc = "end", !.found = Ascending(text),
                             !.more = Cardinality(text) >= cap])

\* disassemble: no count means the default, a count past the cap the cap.
Disassemble ==
    LET count == Least(IF scan.job.max = 0 THEN DefaultLength ELSE scan.job.max, MaxLines) IN
    /\ Running("disasm")
    /\ Now([scan EXCEPT !.pc = "end", !.more = scan.job.max > MaxLines,
                        !.found = SubSeq(mem, scan.job.lo, Least(scan.job.lo + count - 1, MemTop))])

-----------------------------------------------------------------------------
(* A chunk that cannot be read. *)

\* Refused reads are skipped; too many timeouts in a row abort the scan.
Skip(chunkEnd) ==
    \/ scan' = [scan EXCEPT !.cursor = chunkEnd, !.clean = FALSE]
    \/ scan' = [scan EXCEPT !.cursor = chunkEnd, !.clean = FALSE, !.fails = @ + 1,
                            !.pc = IF scan.fails = MaxTimeouts THEN "aborted" ELSE @]

(* scan_memory. *)

Overlap == Len(scan.job.pat) - 1
Occurs(a) == \A i \in 1 .. Len(scan.job.pat) : mem[a + i - 1] = scan.job.pat[i]

\* A read carries the chunk and the overlap and stays within the read budget.
EffectiveChunk ==
    LET room == IF MaxRead > Overlap THEN MaxRead - Overlap ELSE 1 IN
    Least(scan.job.chunk, room)

\* Mutant: the read stops at the chunk's end.
ReadEndExact(chunkEnd) == chunkEnd

ReadEnd(chunkEnd) ==
    IF chunkEnd < scan.job.hi THEN Least(chunkEnd + Overlap, scan.job.hi) ELSE chunkEnd

\* The occurrences that begin in the chunk and lie wholly in the data.
HitsIn(chunkEnd, dataEnd) ==
    {a \in scan.cursor .. (chunkEnd - 1) :
        a + Len(scan.job.pat) <= dataEnd /\ Occurs(a)}

ScanChunk ==
    /\ Running("pattern")
    /\ scan.cursor < scan.job.hi /\ Len(scan.found) < scan.job.max
    /\ LET chunkEnd == Least(scan.cursor + EffectiveChunk, scan.job.hi)
           size == ReadEnd(chunkEnd) - scan.cursor IN
       \/ Skip(chunkEnd)
       \/ /\ Readable(scan.cursor, scan.cursor + size)
          /\ \E got \in 0 .. size :
                scan' = [scan EXCEPT
                    !.found = Prefix(@ \o Ascending(HitsIn(chunkEnd, scan.cursor + got)),
                                     scan.job.max),
                    !.cursor = IF got < size THEN @ + got ELSE chunkEnd,
                    !.fails = 0,
                    !.clean = @ /\ got = size]
    /\ UNCHANGED <<mem, hole, pokes>>

ScanPatternEnds ==
    /\ Running("pattern")
    /\ scan.cursor >= scan.job.hi \/ Len(scan.found) >= scan.job.max
    /\ Now([scan EXCEPT !.pc = "end"])

-----------------------------------------------------------------------------
(* The value and string scans, over segments that do not overlap. *)

\* The offsets of a block that hold the value, aligned or not.
BlockHits(end) ==
    {a \in scan.cursor .. (end - 1) :
        a + scan.job.width <= end /\ ValueAt(a, scan.job.width) = scan.job.pat[1]}

\* The printable runs of a block that are long enough, each by its first byte.
Runs(end) ==
    LET printable(a) == a \in scan.cursor .. (end - 1) /\ mem[a] = scan.job.pat[1] IN
    {a \in scan.cursor .. (end - 1) :
        /\ \A b \in a .. (a + scan.job.width - 1) : printable(b)
        /\ ~printable(a - 1)}

\* A full result ends a value scan; a string scan stops at the first one over.
Segment(kind) ==
    /\ Running(kind)
    /\ scan.cursor < scan.job.hi
    /\ LET end == Least(scan.cursor + MaxRead, scan.job.hi) IN
       \/ Skip(end)
       \/ /\ Readable(scan.cursor, end)
          /\ \E got \in scan.cursor .. end :
                LET found == IF kind = "value" THEN BlockHits(got) ELSE Runs(got)
                    hits == scan.found \o Ascending(found) IN
                scan' = [scan EXCEPT !.found = Prefix(hits, scan.job.max), !.cursor = end,
                                     !.fails = 0, !.clean = @ /\ got = end,
                                     !.more = Len(hits) > scan.job.max,
                                     !.pc = IF \/ kind = "value" /\ Len(hits) >= scan.job.max
                                               \/ Len(hits) > scan.job.max
                                            THEN "end" ELSE @]
    /\ UNCHANGED <<mem, hole, pokes>>

ValueSegment == Segment("value")
StringSegment == Segment("strings")

SegmentsEnd ==
    /\ Running("value") \/ Running("strings")
    /\ scan.cursor >= scan.job.hi
    /\ Now([scan EXCEPT !.pc = "end"])

-----------------------------------------------------------------------------
(* Narrowing: candidates are read in merged runs. *)

RunSpan(run) == Last(run) - Head(run) + scan.job.width

\* Neighbours no further apart than the width share a run, so a candidate begins
\* one when those below it are all further away.
RunStarts(addrs) ==
    {a \in addrs : \A b \in addrs : b < a => a - b > scan.job.width}
RunFrom(first, addrs) ==
    {a \in addrs : first <= a /\ \A b \in RunStarts(addrs) : b <= a => b <= first}
MergeRuns(addrs) ==
    [i \in 1 .. Cardinality(RunStarts(addrs)) |->
        Ascending(RunFrom(Ascending(RunStarts(addrs))[i], addrs))]

Holding(a) == ValueAt(a, scan.job.width) = scan.job.pat[1]

\* The cursor counts the runs that have been read.  A merged read may come back
\* short; one that is refused or lost is repeated candidate by candidate.  A
\* candidate whose bytes are not all there is dropped without a word.
NarrowRun ==
    LET runs == MergeRuns(scan.job.from) IN
    /\ Running("narrow")
    /\ scan.cursor <= Len(runs)
    /\ LET run == runs[scan.cursor]
           data == Head(run) + RunSpan(run)
           single == {a \in ToSet(run) : Readable(a, a + scan.job.width) /\ Holding(a)}
           keep(hits, all) == Now([scan EXCEPT !.cursor = @ + 1, !.clean = @ /\ all,
                                               !.found = @ \o Ascending(hits)]) IN
       \/ /\ Readable(Head(run), data)
          /\ \E got \in Head(run) .. data :
                keep({a \in ToSet(run) : a + scan.job.width <= got /\ Holding(a)}, got = data)
       \/ \E lost \in SUBSET single : keep(single \ lost, lost = {})

NarrowEnds ==
    /\ Running("narrow")
    /\ scan.cursor > Len(MergeRuns(scan.job.from))
    /\ Now([scan EXCEPT !.pc = "end"])

-----------------------------------------------------------------------------
(* The watch: the cursor counts frames; a change stops it at the cap. *)

Poke ==
    /\ Running("watch") /\ pokes < MaxPokes
    /\ \E v \in ByteValues : mem' = [mem EXCEPT ![scan.job.lo] = v]
    /\ pokes' = pokes + 1
    /\ UNCHANGED <<hole, scan>>

Poll ==
    /\ Running("watch") /\ scan.cursor < scan.job.hi
    /\ LET v == mem[scan.job.lo]
           changed == scan.first # Unseen /\ v # scan.last
           found == IF changed THEN Append(scan.found, <<scan.last, v>>) ELSE scan.found IN
       IF ~Readable(scan.job.lo, scan.job.lo + 1)
       THEN Now([scan EXCEPT !.pc = "aborted"])
       ELSE IF changed /\ Len(found) >= MaxChanges
       THEN Now([scan EXCEPT !.found = found, !.pc = "end"])
       ELSE Now([scan EXCEPT !.found = found, !.last = v,
                             !.first = IF @ = Unseen THEN v ELSE @,
                             !.cursor = Least(@ + scan.job.chunk, scan.job.hi)])

PollEnds ==
    /\ Running("watch") /\ scan.cursor >= scan.job.hi
    /\ Now([scan EXCEPT !.pc = "end"])

ScanNext ==
    \/ Dispatch \/ ReadBytes \/ ReadString \/ Disassemble
    \/ ScanChunk \/ ScanPatternEnds \/ ValueSegment \/ StringSegment \/ SegmentsEnd
    \/ NarrowRun \/ NarrowEnds \/ Poke \/ Poll \/ PollEnds

ScanSpec == ScanInit /\ [][ScanNext]_scanVars

-----------------------------------------------------------------------------
(* Properties. *)

JobEnded(kind) == scan.pc = "end" /\ scan.job.kind = kind

(* A pattern scan reports true occurrences only, each once and in order,     *)
(* whatever the reads do; and all of them, up to the limit, when every read  *)
(* was answered in full: scan_memory's chunks overlap by one byte less than *)
(* the pattern.                                                             *)
ScanFinds ==
    LET job == scan.job
        all == {a \in job.lo .. (job.hi - Len(job.pat)) : Occurs(a)} IN
    job.kind = "pattern" =>
        /\ ToSet(scan.found) \subseteq all
        /\ \A i, j \in DOMAIN scan.found : i < j => scan.found[i] < scan.found[j]
        /\ scan.pc = "end" /\ scan.clean => scan.found = Prefix(Ascending(all), job.max)

(* A value scan misses no aligned value of a range it could read: segments   *)
(* are a multiple of every width, so only unaligned values straddle them.   *)
ValueScanFinds ==
    LET job == scan.job IN
    JobEnded("value") /\ scan.clean /\ Len(scan.found) < job.max =>
        {a \in job.lo .. (job.hi - job.width) :
            (a - job.lo) % job.width = 0 /\ ValueAt(a, job.width) = job.pat[1]}
        \subseteq ToSet(scan.found)

Survivors == {a \in scan.job.from : Readable(a, a + scan.job.width) /\ Holding(a)}

(* A narrowing keeps no candidate that fails the comparison; and each that    *)
(* holds, also around unmapped memory, unless a read that PPSSPP could have  *)
(* answered was lost or came back short: _narrow_candidates "semantics match *)
(* the per-address reader".                                                  *)
NarrowIsExact ==
    JobEnded("narrow") =>
        /\ ToSet(scan.found) \subseteq Survivors
        /\ scan.clean => ToSet(scan.found) = Survivors

(* What a caller cannot tell: that a candidate is missing because its read    *)
(* failed, not because it does not hold.                                    *)
NarrowLosesNothing == JobEnded("narrow") => ToSet(scan.found) = Survivors

(* Chunks, segments and merged runs of scan_memory, _scan_value and          *)
(* _narrow_candidates change the requests and not the answer: a scan that    *)
(* could read everything reports exactly what is there.                     *)
ScansAreExact == ScanFinds /\ ValueScanFinds /\ NarrowIsExact
=============================================================================
