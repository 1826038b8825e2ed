----------------------------- MODULE WriteGuard -----------------------------
(***************************************************************************)
(* The guard in front of every memory write                                *)
(* (service/memory_protection.py) and the two tools behind it:             *)
(* write_memory (tools/memory.py), one write, and assemble                 *)
(* (tools/assemble.py), one write per instruction.                         *)
(*                                                                         *)
(* Addresses are naturals; a span [lo, hi) is a record.  The guard runs    *)
(* twice: before the session is opened, with the little it knows from the  *)
(* configuration, and inside it, with the module list PPSSPP reports.      *)
(***************************************************************************)
EXTENDS Naturals, FiniteSets

CONSTANTS
    KernelEnd,      \* end of PROTECTED_RANGE_KERNEL
    PlainInKernel,  \* _ALLOWED_IN_KERNEL_SPAN: scratchpad and VRAM
    Declared,       \* the data addresses.yaml declares
    Base,           \* the game module's load base
    Margin,         \* SAFETY_MARGIN_BYTES
    HeuristicSize,  \* HEURISTIC_TOP_PRX_SIZE
    Images,         \* the module lists a session may have loaded
    Writes,         \* the writes callers ask for: [tool, lo, bytes, force]
    InstrWidth,     \* bytes of one MIPS instruction
    MaxInstructions \* _MAX_INSTRUCTIONS

Span(lo, bytes) == [lo |-> lo, hi |-> lo + bytes]
Bytes(span) == span.lo .. (span.hi - 1)
Overlaps(a, b) == a.lo < b.hi /\ b.lo < a.hi

\* A module list is a set of [lo, size, top]: `top' when its name says so.
\* The entries the guard takes for the game module.
GameEntries(mods) == {m \in mods : m.size > 0 /\ (m.lo = Base \/ m.top)}
\* The code PPSSPP really loaded for the game.
GameCode(mods) == UNION {Bytes(Span(m.lo, m.size)) : m \in {n \in mods : n.lo = Base}}

ASSUME GuardAssumption ==
    /\ KernelEnd \in Nat /\ Base \in Nat /\ Margin \in Nat /\ HeuristicSize \in Nat
    /\ InstrWidth \in Nat \ {0} /\ MaxInstructions \in Nat \ {0}
    /\ \A w \in Writes :
         /\ w.lo \in Nat /\ w.bytes \in Nat /\ w.force \in BOOLEAN
         /\ w.tool \in {"write_memory", "assemble"}
         \* a program is a number of instructions
         /\ w.tool = "assemble" => \E n \in 0 .. w.bytes : w.bytes = n * InstrWidth
    /\ \A mods \in Images :
         IsFiniteSet(mods) /\ \A m \in mods : m.lo \in Nat /\ m.size \in Nat
    \* the heuristic over-approximates every image, and no other module both
    \* carries the game's name and outsizes it
    /\ \A mods \in Images :
         /\ GameCode(mods) \subseteq Bytes(Span(Base, HeuristicSize))
         /\ \A m, n \in GameEntries(mods) : m.lo = Base /\ n.lo # Base => n.size < m.size

VARIABLES
    image,      \* PPSSPP: the modules of the session
    patched,    \* PPSSPP: the addresses written so far
    write       \* the call: what it asked for, and how far it got

guardVars == <<image, patched, write>>

GuardIdle == [pc |-> "idle", tool |-> "none", lo |-> 0, bytes |-> 0,
              force |-> FALSE, done |-> 0, res |-> "none"]

GuardInit ==
    /\ image \in Images
    /\ patched = {}
    /\ write = GuardIdle

-----------------------------------------------------------------------------
(* The guard. *)

\* The extent assumed for the game module when the list yields none.
Narrow == Span(Base, Margin)
Conservative == Span(Base, HeuristicSize)

\* The game module's code, from the module list: its largest entry and a margin.
CodeSection(mods, unknown) ==
    IF GameEntries(mods) = {} THEN unknown
    ELSE LET best == CHOOSE m \in GameEntries(mods) :
                         \A n \in GameEntries(mods) : n.size <= m.size
         IN Span(best.lo, best.size + Margin)

EffectiveRanges(mods, unknown) == {Span(0, KernelEnd), CodeSection(mods, unknown)}

\* A write that touches a declared or a plain span is let through whole.
InAllowedSpan(span) == \E s \in PlainInKernel \cup Declared : Overlaps(span, s)

Protected(span, mods, unknown) ==
    /\ ~InAllowedSpan(span)
    /\ \E r \in EffectiveRanges(mods, unknown) : Overlaps(span, r)

\* A write of no bytes is checked as one byte.
AskedSpan == Span(write.lo, IF write.bytes = 0 THEN 1 ELSE write.bytes)

-----------------------------------------------------------------------------
(* The tools. *)

GuardEnd(res) == write' = [write EXCEPT !.pc = "end", !.res = res]

\* assemble refuses a null address, no instruction, or too many of them.
BadAssembly(w) ==
    /\ w.tool = "assemble"
    /\ w.lo = 0 \/ w.bytes = 0 \/ w.bytes > MaxInstructions * InstrWidth

\* Everything before the session is opened: the arguments, and the pre-flight.
GuardPreflight(w) ==
    LET asked == [write EXCEPT !.tool = w.tool, !.lo = w.lo, !.bytes = w.bytes,
                               !.force = w.force]
        early == [asked EXCEPT !.pc = "end"]
        span == Span(w.lo, IF w.bytes = 0 THEN 1 ELSE w.bytes) IN
    /\ write.pc = "idle"
    /\ write' =
         IF BadAssembly(w)
         THEN [early EXCEPT !.res = "invalid"]
         ELSE IF ~w.force /\ Protected(span, {}, Narrow)
         THEN [early EXCEPT !.res = "protected"]
         ELSE IF w.bytes = 0 THEN [early EXCEPT !.res = "invalid"]
         ELSE [asked EXCEPT !.pc = "open"]
    /\ UNCHANGED <<image, patched>>

\* Mutant: with no module list the second pass keeps the pre-flight's extent.
AuthoritativeNarrow(known) ==
    IF ~write.force /\ Protected(AskedSpan, known, Narrow)
    THEN GuardEnd("protected")
    ELSE write' = [write EXCEPT !.pc = "write"]

Authoritative(known) ==
    IF ~write.force /\ Protected(AskedSpan, known, Conservative)
    THEN GuardEnd("protected")
    ELSE write' = [write EXCEPT !.pc = "write"]

\* The session's own module list; {} when it cannot be had.
Check ==
    /\ write.pc = "open"
    /\ \E known \in {image, {}} : Authoritative(known)
    /\ UNCHANGED <<image, patched>>

\* write_memory: one request; its value may not fit the width it names.
Store ==
    /\ write.pc = "write" /\ write.tool = "write_memory"
    /\ \/ GuardEnd("out of range") /\ UNCHANGED patched
       \/ /\ \E res \in {"ok", "timeout"} : GuardEnd(res)
          /\ patched' = patched \cup Bytes(AskedSpan)
       \/ GuardEnd("timeout") /\ UNCHANGED patched
    /\ UNCHANGED image

NextSpan == Span(write.lo + write.done, InstrWidth)

\* assemble: the next instruction is encoded and written.
Assemble ==
    /\ write.pc = "write" /\ write.tool = "assemble"
    /\ write.done < write.bytes
    /\ write' = [write EXCEPT !.done = @ + InstrWidth]
    /\ patched' = patched \cup Bytes(NextSpan)
    /\ UNCHANGED image

\* The next instruction is refused, or its answer never comes though PPSSPP may
\* have written it: the call reports the instructions before it.
AssembleFails ==
    /\ write.pc = "write" /\ write.tool = "assemble"
    /\ write.done < write.bytes
    /\ GuardEnd(IF write.done = 0 THEN "failed" ELSE "partial")
    /\ patched' \in {patched, patched \cup Bytes(NextSpan)}
    /\ UNCHANGED image

Assembled ==
    /\ write.pc = "write" /\ write.tool = "assemble"
    /\ write.done = write.bytes
    /\ GuardEnd("ok")
    /\ UNCHANGED <<image, patched>>

GuardNext ==
    \/ \E w \in Writes : GuardPreflight(w)
    \/ Check \/ Store \/ Assemble \/ AssembleFails \/ Assembled

GuardSpec == GuardInit /\ [][GuardNext]_guardVars

-----------------------------------------------------------------------------
(* Properties. *)

Untouchable == Bytes(Span(0, KernelEnd)) \cup GameCode(image)

(* A write nobody forced, clear of every exempt span, changes no byte of the *)
(* kernel or of the game's code, whether or not the module list was known:  *)
(* the fail-closed extent of memory_protection.py.                          *)
UnforcedIsClear ==
    ~write.force /\ ~InAllowedSpan(AskedSpan) => patched \cap Untouchable = {}

(* The range assemble reports as written is in memory, and memory holds at   *)
(* most one instruction more: tools/assemble.py's partial-write report.      *)
PartialIsReported ==
    write.tool = "assemble" =>
        /\ Bytes(Span(write.lo, write.done)) \subseteq patched
        /\ patched \subseteq Bytes(Span(write.lo, write.done + InstrWidth))

(* The exemption is of the declared data only: `Name the legitimate region   *)
(* covering [address, end)', service/memory_protection.py:235.               *)
ExemptionCovers ==
    ~write.force =>
        patched \cap Untouchable \subseteq
            UNION {Bytes(s) : s \in PlainInKernel \cup Declared}

(* Through both judgements of the guard and a failure anywhere in assemble,  *)
(* what is written is allowed, and what is reported is what was written.    *)
WritesAreAccounted == UnforcedIsClear /\ PartialIsReported
=============================================================================
