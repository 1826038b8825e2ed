------------------------ MODULE MemoryTools_proofs ------------------------
(***************************************************************************)
(* The guard of memory writes, for any layout of memory, any module list   *)
(* and any width of an instruction; the server's tables, for any number of *)
(* sessions, calls and entries; what the search, log and health tools      *)
(* report, for any code and any log; and what the scans report, for any    *)
(* memory, hole and lengths of chunks and reads.                           *)
(***************************************************************************)
EXTENDS WriteGuard, SideTables, SearchTools, MemoryScan, SequenceTheorems, FiniteSetTheorems,
        WellFoundedInduction, TLAPS

-----------------------------------------------------------------------------
(* The extent the guard takes the game's code for *)

\* A module list that is not empty has a largest entry, so the extent
\* _code_section chooses exists.
LEMMA LargestExists ==
  ASSUME NEW S, IsFiniteSet(S), S # {}, \A m \in S : m.size \in Nat
  PROVE  \E m \in S : \A n \in S : n.size <= m.size
  <1> DEFINE HasLargest(U) == \E m \in U : \A n \in U : n.size <= m.size
             Bad == {U \in SUBSET S : U # {} /\ ~HasLargest(U)}
  <1>1. SUFFICES Bad = {}
    OBVIOUS
  <1>2. SUFFICES ASSUME Bad # {} PROVE FALSE
    BY <1>2
  <1>3. IsWellFoundedOn(StrictSubsetOrdering(S), FiniteSubsetsOf(S))
    BY FS_StrictSubsetOrderingWellFounded
  <1>4. Bad \subseteq FiniteSubsetsOf(S)
    BY FS_Subset DEF FiniteSubsetsOf
  <1>5. PICK U \in Bad : \A V \in Bad : ~(<<V, U>> \in StrictSubsetOrdering(S))
    BY <1>2, <1>3, <1>4, WFMin
  <1>6. PICK x \in U : TRUE
    BY <1>5
  <1>7. U \ {x} \notin Bad
    <2>1. U \ {x} \in SUBSET S /\ U \in SUBSET S /\ U \ {x} \subseteq U /\ U \ {x} # U
      BY <1>5, <1>6
    <2>2. <<U \ {x}, U>> \in StrictSubsetOrdering(S)
      BY <2>1 DEF StrictSubsetOrdering
    <2> QED
      BY <1>5, <2>2
  <1>8. x \in S /\ x.size \in Nat /\ U \subseteq S
    BY <1>5, <1>6
  <1>9. CASE U \ {x} = {}
    <2>1. \A n \in U : n.size <= x.size
      BY <1>8, <1>9
    <2> QED
      BY <1>5, <1>6, <2>1
  <1>10. CASE HasLargest(U \ {x})
    <2>1. PICK m \in U \ {x} : \A n \in U \ {x} : n.size <= m.size
      BY <1>10
    <2>2. CASE x.size <= m.size
      <3>1. m \in U /\ \A n \in U : n.size <= m.size
        BY <2>1, <2>2
      <3> QED
        BY <1>5, <3>1
    <2>3. CASE ~(x.size <= m.size)
      <3>1. m.size \in Nat /\ \A n \in U : n.size \in Nat
        BY <1>8, <2>1
      <3>2. \A n \in U : n.size <= x.size
        BY <1>8, <2>1, <2>3, <3>1
      <3> QED
        BY <1>5, <1>6, <3>2
    <2> QED
      BY <2>2, <2>3
  <1> QED
    BY <1>5, <1>7, <1>9, <1>10

\* The code PPSSPP loaded for the game lies inside the extent the guard protects
\* inside a session, with the module list or without it.
LEMMA CodeIsCovered ==
  ASSUME NEW mods \in Images, NEW known \in {mods, {}}
  PROVE  /\ GameCode(mods) \subseteq Bytes(CodeSection(known, Conservative))
         /\ \E lo, bytes \in Nat : CodeSection(known, Conservative) = Span(lo, bytes)
  <1> USE GuardAssumption
  <1>1. CASE GameEntries(known) = {}
    BY <1>1 DEF CodeSection, Conservative
  <1>2. CASE GameEntries(known) # {}
    <2>1. known = mods
      BY <1>2 DEF GameEntries
    <2> DEFINE E == GameEntries(mods)
               best == CHOOSE m \in E : \A n \in E : n.size <= m.size
    <2>2. IsFiniteSet(E) /\ E # {} /\ E \subseteq mods
      BY <1>2, <2>1, FS_Subset DEF GameEntries
    <2>3. \E m \in E : \A n \in E : n.size <= m.size
      BY <2>2, LargestExists
    <2>4. best \in E /\ \A n \in E : n.size <= best.size
      BY <2>3
    <2>5. CodeSection(known, Conservative) = Span(best.lo, best.size + Margin)
      BY <1>2, <2>1 DEF CodeSection
    <2> HIDE DEF best
    <2>6. best.lo \in Nat /\ best.size \in Nat
      BY <2>2, <2>4
    <2>7. ASSUME NEW m \in mods, m.lo = Base, NEW a \in Bytes(Span(m.lo, m.size))
          PROVE  a \in Bytes(Span(best.lo, best.size + Margin))
      <3>1. m.lo \in Nat /\ m.size \in Nat /\ m.size > 0
        BY <2>7 DEF Bytes, Span
      <3>2. m \in E
        BY <2>7, <3>1 DEF GameEntries
      <3>3. m.size <= best.size
        BY <2>4, <3>2
      <3>4. best.lo = Base
        <4>1. best.lo # Base => best.size < m.size
          BY <2>4, <2>7, <3>2
        <4> QED
          BY <2>6, <3>1, <3>3, <4>1
      <3> QED
        BY <2>6, <2>7, <3>1, <3>3, <3>4 DEF Bytes, Span
    <2> QED
      BY <2>5, <2>6, <2>7 DEF GameCode
  <1> QED
    BY <1>1, <1>2

\* Spans that do not overlap have no byte in common (_overlaps).
LEMMA Disjoint ==
  ASSUME NEW a \in Nat, NEW m \in Nat, NEW b \in Nat, NEW n \in Nat,
         ~Overlaps(Span(a, m), Span(b, n))
  PROVE  Bytes(Span(a, m)) \cap Bytes(Span(b, n)) = {}
  BY DEF Overlaps, Bytes, Span

LEMMA SpanGrows ==
  ASSUME NEW lo \in Nat, NEW m \in Nat, NEW n \in Nat, m <= n
  PROVE  Bytes(Span(lo, m)) \subseteq Bytes(Span(lo, n))
  BY DEF Bytes, Span

LEMMA SpanJoins ==
  ASSUME NEW lo \in Nat, NEW m \in Nat, NEW n \in Nat
  PROVE  Bytes(Span(lo, m)) \cup Bytes(Span(lo + m, n)) = Bytes(Span(lo, m + n))
  BY DEF Bytes, Span

LEMMA SpanEmpty == ASSUME NEW lo \in Nat PROVE Bytes(Span(lo, 0)) = {}
  BY DEF Bytes, Span

\* A program that is not done has room for one instruction more.
LEMMA RoomForOne ==
  ASSUME NEW b \in Nat, NEW d \in Nat, NEW W \in Nat \ {0}, d < b,
         NEW n \in 0 .. b, b = d + n * W
  PROVE  d + W <= b /\ \E k \in 0 .. b : b = d + W + k * W
  <1>1. n # 0
    <2>1. 0 * W = 0
      OBVIOUS
    <2> QED
      BY <2>1
  <1> DEFINE k == n - 1
  <1>2. k \in Nat /\ k \in 0 .. b /\ n = k + 1
    BY <1>1
  <1> HIDE DEF k
  <1>3. (k + 1) * W = k * W + W
    BY <1>2
  <1>4. k * W \in Nat
    BY <1>2
  <1>5. b = d + W + k * W
    BY <1>2, <1>3, <1>4
  <1> QED
    BY <1>2, <1>4, <1>5

-----------------------------------------------------------------------------
(* Writes *)

WriteTypes ==
    /\ image \in Images
    /\ write \in [pc : {"idle", "open", "write", "end"},
                  tool : {"none", "write_memory", "assemble"},
                  lo : Nat, bytes : Nat, force : BOOLEAN, done : Nat,
                  res : {"none", "invalid", "protected", "out of range", "ok",
                         "timeout", "failed", "partial"}]
    /\ write.pc = "idle" => write.tool = "none"

\* The guard inside the session let the call through.
LetThrough ==
    write.force \/ \E known \in {image, {}} : ~Protected(AskedSpan, known, Conservative)

\* Nothing is written before, and only what was asked for after.
Permitted ==
    /\ write.pc \in {"idle", "open"} => patched = {} /\ write.done = 0
    /\ write.pc \in {"open", "write"} => write.bytes > 0
    /\ write.pc = "write" \/ patched # {} => LetThrough
    /\ patched \subseteq Bytes(Span(write.lo, write.bytes))

\* What is left of a program is a number of instructions.
WholeInstructions ==
    write.tool = "assemble" =>
        \E n \in 0 .. write.bytes : write.bytes = write.done + n * InstrWidth

\* Between two instructions memory holds the ones that are done.
InStep ==
    write.pc = "write" =>
        patched = IF write.tool = "assemble" THEN Bytes(Span(write.lo, write.done)) ELSE {}

GuardInv == WriteTypes /\ Permitted /\ WholeInstructions /\ InStep /\ PartialIsReported

LEMMA GuardInitInv == GuardInit => GuardInv
  BY DEF GuardInit, GuardIdle, GuardInv, WriteTypes, Permitted, WholeInstructions,
         InStep, PartialIsReported

LEMMA WriteFacts ==
  ASSUME GuardInv
  PROVE  /\ write.lo \in Nat /\ write.bytes \in Nat /\ write.done \in Nat
         /\ write.force \in BOOLEAN /\ image \in Images
  BY DEF GuardInv, WriteTypes

LEMMA Widths == InstrWidth \in Nat \ {0} /\ KernelEnd \in Nat
  BY GuardAssumption

\* What the guard judges depends on the call and the module list only.
LEMMA LetThroughFrame ==
  ASSUME image' = image, write'.lo = write.lo, write'.bytes = write.bytes,
         write'.force = write.force
  PROVE  LetThrough' <=> LetThrough
  BY DEF LetThrough, AskedSpan

\* The arguments and the pre-flight: nothing is written yet.
LEMMA InvPreflight ==
  ASSUME GuardInv, NEW w \in Writes, GuardPreflight(w)
  PROVE  GuardInv'
  <1> USE DEF GuardInv, WriteTypes
  <1>0. /\ w.lo \in Nat /\ w.bytes \in Nat /\ w.force \in BOOLEAN
        /\ w.tool \in {"write_memory", "assemble"}
    BY GuardAssumption
  <1>8. write.done = 0 /\ patched = {}
    BY DEF GuardPreflight, Permitted
  <1>1. /\ write' \in [pc : {"open", "end"}, tool : {"write_memory", "assemble"},
                       lo : Nat, bytes : Nat, force : BOOLEAN, done : Nat,
                       res : {"none", "invalid", "protected", "out of range", "ok",
                              "timeout", "failed", "partial"}]
        /\ write'.tool = w.tool /\ write'.bytes = w.bytes /\ write'.lo = w.lo
        /\ write'.done = 0
        /\ write'.pc = "open" => write'.bytes > 0
    <2> DEFINE asked == [write EXCEPT !.tool = w.tool, !.lo = w.lo, !.bytes = w.bytes,
                                      !.force = w.force]
    <2>1. \/ write' = [asked EXCEPT !.pc = "end", !.res = "invalid"]
          \/ write' = [asked EXCEPT !.pc = "end", !.res = "protected"]
          \/ write' = [asked EXCEPT !.pc = "open"] /\ w.bytes # 0
      BY Zenon DEF GuardPreflight
    <2>2. /\ asked \in [pc : {"idle", "open", "write", "end"},
                         tool : {"write_memory", "assemble"},
                         lo : Nat, bytes : Nat, force : BOOLEAN, done : Nat,
                         res : {"none", "invalid", "protected", "out of range", "ok",
                                "timeout", "failed", "partial"}]
          /\ asked.tool = w.tool /\ asked.bytes = w.bytes /\ asked.lo = w.lo
          /\ asked.done = 0
      BY <1>0, <1>8
    <2> HIDE DEF asked, GuardInv
    <2>3. CASE write' = [asked EXCEPT !.pc = "end", !.res = "invalid"]
      BY <2>2, <2>3
    <2>4. CASE write' = [asked EXCEPT !.pc = "end", !.res = "protected"]
      BY <2>2, <2>4
    <2>5. CASE write' = [asked EXCEPT !.pc = "open"] /\ w.bytes # 0
      <3>1. w.bytes > 0
        BY <1>0, <2>5
      <3> QED
        BY <2>2, <2>5, <3>1
    <2> QED
      BY <2>1, <2>3, <2>4, <2>5
  <1>2. WriteTypes' /\ patched' = {} /\ write'.pc # "write"
    BY <1>1 DEF GuardPreflight, Permitted
  <1>3. Permitted' /\ InStep'
    BY <1>1, <1>2 DEF Permitted, InStep
  <1>4. WholeInstructions'
    <2>1. ASSUME w.tool = "assemble"
          PROVE  \E n \in 0 .. w.bytes : w.bytes = 0 + n * InstrWidth
      <3> HIDE DEF GuardInv
      <3>1. PICK n \in 0 .. w.bytes : w.bytes = n * InstrWidth
        BY GuardAssumption, <2>1
      <3>2. w.bytes = 0 + n * InstrWidth
        BY <1>0, <3>1
      <3> QED
        BY <3>1, <3>2
    <2> QED
      BY <1>1, <2>1 DEF WholeInstructions
  <1>5. PartialIsReported'
    BY <1>0, <1>1, <1>2, SpanEmpty DEF PartialIsReported
  <1> QED
    BY <1>2, <1>3, <1>4, <1>5

\* The judgement with the session's module list.
LEMMA InvCheck ==
  ASSUME GuardInv, Check
  PROVE  GuardInv'
  <1> USE DEF GuardInv, WriteTypes
  <1>1. PICK known \in {image, {}} : Authoritative(known)
    BY DEF Check
  <1>2. /\ write'.lo = write.lo /\ write'.bytes = write.bytes
        /\ write'.force = write.force /\ write'.tool = write.tool
        /\ write'.done = write.done
        /\ write'.pc \in {"write", "end"}
        /\ image' = image /\ patched' = patched
    BY <1>1 DEF Check, Authoritative, GuardEnd
  <1>3. WriteTypes'
    BY <1>1 DEF Check, Authoritative, GuardEnd
  <1>4. write'.pc = "write" => LetThrough
    BY <1>1 DEF Check, Authoritative, GuardEnd, LetThrough
  <1>5. Permitted'
    BY <1>2, <1>4, LetThroughFrame DEF Permitted, Check
  <1>6. WholeInstructions' /\ PartialIsReported' /\ InStep'
    BY <1>2 DEF WholeInstructions, PartialIsReported, InStep, Permitted, Check, Bytes, Span
  <1> QED
    BY <1>3, <1>5, <1>6

\* write_memory's one request.
LEMMA InvStore ==
  ASSUME GuardInv, Store
  PROVE  GuardInv'
  <1> USE DEF GuardInv, WriteTypes
  <1>1. /\ write'.lo = write.lo /\ write'.bytes = write.bytes
        /\ write'.force = write.force /\ write'.tool = "write_memory"
        /\ write'.pc = "end" /\ image' = image
    BY DEF Store, GuardEnd
  <1>2. WriteTypes'
    BY DEF Store, GuardEnd
  <1>3. AskedSpan = Span(write.lo, write.bytes)
    <2>1. write.bytes > 0
      BY DEF Store, Permitted
    <2> HIDE DEF GuardInv
    <2>2. write.bytes # 0
      BY <2>1, WriteFacts
    <2> QED
      BY <2>2 DEF AskedSpan
  <1>4. Permitted'
    BY <1>1, <1>3, LetThroughFrame DEF Permitted, Store
  <1>5. WholeInstructions' /\ PartialIsReported' /\ InStep'
    BY <1>1 DEF WholeInstructions, PartialIsReported, InStep
  <1> QED
    BY <1>2, <1>4, <1>5

\* The next instruction lies in the program, right after the ones that are done.
LEMMA NextInstruction ==
  ASSUME GuardInv, write.pc = "write", write.tool = "assemble", write.done < write.bytes
  PROVE  /\ write.done + InstrWidth <= write.bytes
         /\ \E n \in 0 .. write.bytes : write.bytes = write.done + InstrWidth + n * InstrWidth
         /\ Bytes(NextSpan) \subseteq Bytes(Span(write.lo, write.bytes))
         /\ patched \cup Bytes(NextSpan) = Bytes(Span(write.lo, write.done + InstrWidth))
  <1>1. /\ write.lo \in Nat /\ write.bytes \in Nat /\ write.done \in Nat
        /\ InstrWidth \in Nat \ {0}
    BY WriteFacts, Widths
  <1>2. PICK n \in 0 .. write.bytes : write.bytes = write.done + n * InstrWidth
    BY DEF GuardInv, WholeInstructions
  <1>3. /\ write.done + InstrWidth <= write.bytes
        /\ \E k \in 0 .. write.bytes : write.bytes = write.done + InstrWidth + k * InstrWidth
    BY <1>1, <1>2, RoomForOne
  <1>4. patched = Bytes(Span(write.lo, write.done))
    BY DEF GuardInv, InStep
  <1>5. patched \cup Bytes(NextSpan) = Bytes(Span(write.lo, write.done + InstrWidth))
    BY <1>1, <1>4, SpanJoins DEF NextSpan
  <1>6. Bytes(Span(write.lo, write.done + InstrWidth)) \subseteq Bytes(Span(write.lo, write.bytes))
    <2>1. write.done + InstrWidth \in Nat
      BY <1>1
    <2> QED
      BY <1>1, <1>3, <2>1, SpanGrows
  <1> QED
    BY <1>3, <1>5, <1>6

LEMMA InvAssemble ==
  ASSUME GuardInv, Assemble
  PROVE  GuardInv'
  <1> USE DEF GuardInv, WriteTypes
  <1>1. /\ write'.lo = write.lo /\ write'.bytes = write.bytes
        /\ write'.force = write.force /\ write'.tool = "assemble"
        /\ write'.done = write.done + InstrWidth
        /\ write'.pc = "write" /\ image' = image
    BY DEF Assemble
  <1>2. WriteTypes'
    <2>1. write.done + InstrWidth \in Nat
      <3> HIDE DEF GuardInv
      <3> QED
        BY WriteFacts, Widths
    <2> QED
      BY <2>1 DEF Assemble
  <1>3. patched' = Bytes(Span(write'.lo, write'.done))
    BY <1>1, NextInstruction DEF Assemble
  <1>4. Permitted'
    BY <1>1, NextInstruction, LetThroughFrame DEF Permitted, Assemble
  <1>5. WholeInstructions' /\ InStep'
    BY <1>1, <1>3, NextInstruction DEF WholeInstructions, InStep, Assemble
  <1>6. PartialIsReported'
    <2> HIDE DEF GuardInv
    <2>1. /\ write'.lo \in Nat /\ write'.done \in Nat /\ InstrWidth \in Nat
          /\ write'.done + InstrWidth \in Nat /\ write'.done <= write'.done + InstrWidth
      BY <1>1, WriteFacts, Widths
    <2> QED
      BY <1>3, <2>1, SpanGrows DEF PartialIsReported
  <1> QED
    BY <1>2, <1>4, <1>5, <1>6

\* An instruction that fails may have been written.
LEMMA InvAssembleFails ==
  ASSUME GuardInv, AssembleFails
  PROVE  GuardInv'
  <1> USE DEF GuardInv, WriteTypes
  <1>1. /\ write'.lo = write.lo /\ write'.bytes = write.bytes
        /\ write'.force = write.force /\ write'.tool = "assemble"
        /\ write'.done = write.done
        /\ write'.pc = "end" /\ image' = image
    BY DEF AssembleFails, GuardEnd
  <1>2. WriteTypes'
    BY DEF AssembleFails, GuardEnd
  <1>3. patched' \in {patched, patched \cup Bytes(NextSpan)}
    BY DEF AssembleFails
  <1>4. Permitted'
    BY <1>1, <1>3, NextInstruction, LetThroughFrame DEF Permitted, AssembleFails
  <1>5. WholeInstructions' /\ InStep'
    BY <1>1 DEF WholeInstructions, InStep, AssembleFails
  <1>6. PartialIsReported'
    <2>1. patched = Bytes(Span(write.lo, write.done))
      BY DEF InStep, AssembleFails
    <2>2. Bytes(Span(write.lo, write.done)) \subseteq
              Bytes(Span(write.lo, write.done + InstrWidth))
      <3> HIDE DEF GuardInv
      <3>1. /\ write.lo \in Nat /\ write.done \in Nat /\ InstrWidth \in Nat
            /\ write.done + InstrWidth \in Nat /\ write.done <= write.done + InstrWidth
        BY WriteFacts, Widths
      <3> QED
        BY <3>1, SpanGrows
    <2>3. CASE patched' = patched
      BY <1>1, <2>1, <2>2, <2>3 DEF PartialIsReported
    <2>4. CASE patched' = patched \cup Bytes(NextSpan)
      BY <1>1, <2>1, <2>2, <2>4, NextInstruction DEF PartialIsReported, AssembleFails
    <2> QED
      BY <1>3, <2>3, <2>4
  <1> QED
    BY <1>2, <1>4, <1>5, <1>6

LEMMA InvAssembled ==
  ASSUME GuardInv, Assembled
  PROVE  GuardInv'
  <1> USE DEF GuardInv, WriteTypes
  <1>1. /\ write'.lo = write.lo /\ write'.bytes = write.bytes
        /\ write'.force = write.force /\ write'.tool = "assemble"
        /\ write'.done = write.done
        /\ write'.pc = "end" /\ image' = image /\ patched' = patched
    BY DEF Assembled, GuardEnd
  <1>2. WriteTypes'
    BY DEF Assembled, GuardEnd
  <1>3. Permitted'
    BY <1>1, LetThroughFrame DEF Permitted, Assembled
  <1>4. WholeInstructions' /\ InStep' /\ PartialIsReported'
    BY <1>1 DEF WholeInstructions, InStep, PartialIsReported, Assembled
  <1> QED
    BY <1>2, <1>3, <1>4

LEMMA GuardNextInv == GuardInv /\ [GuardNext]_guardVars => GuardInv'
  <1> SUFFICES ASSUME GuardInv, [GuardNext]_guardVars PROVE GuardInv'
    OBVIOUS
  <1>1. CASE UNCHANGED guardVars
    BY <1>1, LetThroughFrame DEF guardVars, GuardInv, WriteTypes, Permitted,
                                 WholeInstructions, InStep, PartialIsReported
  <1> QED
    BY <1>1, InvPreflight, InvCheck, InvStore, InvAssemble, InvAssembleFails, InvAssembled
       DEF GuardNext

LEMMA GuardCorrect == GuardSpec => []GuardInv
  BY GuardInitInv, GuardNextInv, PTL DEF GuardSpec

\* A write that was let through and is clear of the exempt spans meets neither
\* the kernel nor the code of the game, whichever list it was judged by.
LEMMA ClearOfUntouchable ==
  ASSUME GuardInv, ~write.force, ~InAllowedSpan(AskedSpan), patched # {}
  PROVE  patched \cap Untouchable = {}
  <1>1. PICK known \in {image, {}} : ~Protected(AskedSpan, known, Conservative)
    BY DEF GuardInv, Permitted, LetThrough
  <1>2. /\ ~Overlaps(AskedSpan, Span(0, KernelEnd))
        /\ ~Overlaps(AskedSpan, CodeSection(known, Conservative))
    BY <1>1 DEF Protected, EffectiveRanges
  <1>3. /\ write.lo \in Nat /\ write.bytes \in Nat /\ KernelEnd \in Nat
        /\ patched \subseteq Bytes(Span(write.lo, write.bytes))
    BY WriteFacts, Widths DEF GuardInv, Permitted
  <1>4. write.bytes # 0
    BY <1>3, SpanEmpty
  <1>5. AskedSpan = Span(write.lo, write.bytes)
    BY <1>4 DEF AskedSpan
  <1>6. Bytes(AskedSpan) \cap Bytes(Span(0, KernelEnd)) = {}
    BY <1>2, <1>3, <1>5, Disjoint
  <1>7. Bytes(AskedSpan) \cap Bytes(CodeSection(known, Conservative)) = {}
    <2>1. image \in Images
      BY WriteFacts
    <2>2. PICK lo \in Nat, bytes \in Nat : CodeSection(known, Conservative) = Span(lo, bytes)
      BY <2>1, CodeIsCovered
    <2>3. ~Overlaps(Span(write.lo, write.bytes), Span(lo, bytes))
      BY <1>2, <1>5, <2>2
    <2> QED
      BY <1>3, <1>5, <2>2, <2>3, Disjoint
  <1>8. GameCode(image) \subseteq Bytes(CodeSection(known, Conservative))
    BY WriteFacts, CodeIsCovered
  <1> QED
    BY <1>3, <1>5, <1>6, <1>7, <1>8 DEF Untouchable

\* Through both judgements of the guard, and a failure anywhere in assemble, a
\* write nobody forced leaves the kernel and the game's code alone, and what a
\* call reports as written is what it wrote.
THEOREM WritesCorrect == GuardSpec => []WritesAreAccounted
  <1>1. GuardInv => UnforcedIsClear
    BY ClearOfUntouchable DEF UnforcedIsClear
  <1>2. GuardInv => WritesAreAccounted
    BY <1>1 DEF GuardInv, WritesAreAccounted
  <1> QED
    BY <1>2, GuardCorrect, PTL

-----------------------------------------------------------------------------
(* Scans and snapshots *)

Entries == [handle : Nat, owner : Sessions, cells : SUBSET Cells, passes : Nat]

CallRecords ==
    [pc : {"idle", "read", "reread", "observe", "end"}, kind : {"none"} \cup SnapKinds,
     s : Sessions \cup {"none"}, h : Handles \cup {0}, base : SUBSET Cells,
     res : {"none", "ok", "failed", "invalid", "stale"}]

\* A call that awaits does so for a session.
CallsTyped ==
    /\ caller \in [Callers -> CallRecords]
    /\ \A c \in Callers :
          caller[c].pc \in {"read", "reread", "observe"} => caller[c].s \in Sessions

EntriesTyped == table \in [SnapKinds -> Seq(Entries)] /\ issued \in Nat

\* A table is in the order its handles were given out, so a handle names at most
\* one entry, and the first entry is the oldest.
InOrder(q) == \A i, j \in 1 .. Len(q) : i < j => q[i].handle < q[j].handle
HandlesInOrder ==
    \A k \in SnapKinds :
        InOrder(table[k]) /\ \A i \in 1 .. Len(table[k]) : table[k][i].handle <= issued

EntriesInv == CallsTyped /\ EntriesTyped /\ HandlesInOrder /\ TablesBounded

\* _evict_oldest_if_full: what stays is the younger end of the table.
LEMMA RoomIsMade ==
  ASSUME NEW S, NEW q \in Seq(S), Len(q) <= TableCap
  PROVE  /\ MakeRoom(q) \in Seq(S) /\ Len(MakeRoom(q)) < TableCap
         /\ \E k \in Nat : \A i \in 1 .. Len(MakeRoom(q)) :
               i + k \in 1 .. Len(q) /\ MakeRoom(q)[i] = q[i + k]
  <1>1. Len(q) \in Nat /\ TableCap \in Nat \ {0}
    BY TablesAssumption, LenProperties
  <1>2. CASE Len(q) >= TableCap
    <2>1. Len(q) = TableCap /\ MakeRoom(q) = SubSeq(q, 2, Len(q))
      BY <1>1, <1>2 DEF MakeRoom
    <2>2. \A i \in 2 .. Len(q) : q[i] \in S
      BY <1>1, ElementOfSeq
    <2>3. /\ MakeRoom(q) \in Seq(S)
          /\ Len(MakeRoom(q)) = IF 2 <= Len(q) THEN Len(q) - 2 + 1 ELSE 0
          /\ \A i \in 1 .. Len(q) - 2 + 1 : MakeRoom(q)[i] = q[2 + i - 1]
      BY <1>1, <2>1, <2>2, SubSeqProperties
    <2>4. Len(MakeRoom(q)) = Len(q) - 1
      BY <1>1, <2>1, <2>3
    <2>5. \A i \in 1 .. Len(MakeRoom(q)) : i + 1 \in 1 .. Len(q) /\ MakeRoom(q)[i] = q[i + 1]
      BY <1>1, <2>3, <2>4
    <2>6. Len(MakeRoom(q)) < TableCap
      BY <1>1, <2>1, <2>4
    <2>7. \E k \in Nat : \A i \in 1 .. Len(MakeRoom(q)) :
             i + k \in 1 .. Len(q) /\ MakeRoom(q)[i] = q[i + k]
      <3> WITNESS 1 \in Nat
      <3> QED
        BY <2>5
    <2> QED
      BY <2>3, <2>6, <2>7
  <1>3. CASE ~(Len(q) >= TableCap)
    <2>1. MakeRoom(q) = q
      BY <1>3 DEF MakeRoom
    <2>2. MakeRoom(q) \in Seq(S) /\ Len(MakeRoom(q)) < TableCap
      BY <1>1, <1>3, <2>1
    <2>3. \E k \in Nat : \A i \in 1 .. Len(MakeRoom(q)) :
             i + k \in 1 .. Len(q) /\ MakeRoom(q)[i] = q[i + k]
      <3>1. \A i \in 1 .. Len(q) : i + 0 = i
        BY <1>1
      <3> WITNESS 0 \in Nat
      <3> QED
        BY <2>1, <3>1
    <2> QED
      BY <2>2, <2>3
  <1> QED
    BY <1>2, <1>3

\* Taking one entry out keeps the others, in their order.
LEMMA EntryIsTaken ==
  ASSUME NEW S, NEW q \in Seq(S), NEW i \in 1 .. Len(q)
  PROVE  /\ RemoveAt(q, i) \in Seq(S) /\ Len(RemoveAt(q, i)) = Len(q) - 1
         /\ \A j \in 1 .. Len(q) - 1 :
               RemoveAt(q, i)[j] = IF j < i THEN q[j] ELSE q[j + 1]
  <1> DEFINE front == SubSeq(q, 1, i - 1)
             back == SubSeq(q, i + 1, Len(q))
  <1>1. Len(q) \in Nat /\ i \in Nat /\ 1 <= i /\ i <= Len(q)
    BY LenProperties
  <1>2. \A j \in 1 .. Len(q) : q[j] \in S
    BY ElementOfSeq
  <1>3. /\ front \in Seq(S)
        /\ Len(front) = IF 1 <= i - 1 THEN i - 1 - 1 + 1 ELSE 0
        /\ \A j \in 1 .. i - 1 - 1 + 1 : front[j] = q[1 + j - 1]
    <2>1. i - 1 \in Int /\ \A j \in 1 .. i - 1 : q[j] \in S
      BY <1>1, <1>2
    <2> HIDE DEF front
    <2> QED
      BY <2>1, SubSeqProperties DEF front
  <1>4. /\ back \in Seq(S)
        /\ Len(back) = IF i + 1 <= Len(q) THEN Len(q) - (i + 1) + 1 ELSE 0
        /\ \A j \in 1 .. Len(q) - (i + 1) + 1 : back[j] = q[i + 1 + j - 1]
    <2>1. i + 1 \in Int /\ Len(q) \in Int /\ \A j \in i + 1 .. Len(q) : q[j] \in S
      BY <1>1, <1>2
    <2> HIDE DEF back
    <2> QED
      BY <2>1, SubSeqProperties DEF back
  <1>5. RemoveAt(q, i) = front \o back
    BY DEF RemoveAt
  <1> HIDE DEF front, back
  <1>6. Len(front) = i - 1 /\ Len(back) = Len(q) - i
    BY <1>1, <1>3, <1>4
  <1>7. /\ front \o back \in Seq(S)
        /\ Len(front \o back) = Len(front) + Len(back)
        /\ \A j \in 1 .. Len(front) + Len(back) :
              (front \o back)[j] = IF j <= Len(front) THEN front[j] ELSE back[j - Len(front)]
    BY <1>3, <1>4, ConcatProperties
  <1>8. Len(front) + Len(back) = Len(q) - 1
    BY <1>1, <1>6
  <1>9. ASSUME NEW j \in 1 .. Len(q) - 1
        PROVE  RemoveAt(q, i)[j] = IF j < i THEN q[j] ELSE q[j + 1]
    <2>1. CASE j < i
      <3>1. j <= Len(front) /\ j \in 1 .. i - 1 - 1 + 1 /\ 1 + j - 1 = j
        BY <1>1, <1>6, <2>1
      <3> QED
        BY <1>3, <1>5, <1>7, <1>8, <2>1, <3>1
    <2>2. CASE ~(j < i)
      <3> DEFINE k == j - Len(front)
      <3>1. /\ ~(j <= Len(front)) /\ k \in 1 .. Len(q) - (i + 1) + 1
            /\ i + 1 + k - 1 = j + 1
        BY <1>1, <1>6, <2>2
      <3>2. back[k] = q[i + 1 + k - 1]
        BY <1>4, <3>1
      <3>3. RemoveAt(q, i)[j] = back[k]
        BY <1>5, <1>7, <1>8, <3>1
      <3> HIDE DEF k
      <3> QED
        BY <2>2, <3>1, <3>2, <3>3
    <2> QED
      BY <2>1, <2>2
  <1> QED
    BY <1>5, <1>7, <1>8, <1>9

\* A step that replaces one call's record by a typed one.
LEMMA CallTyped ==
  ASSUME CallsTyped, NEW c \in Callers, NEW r \in CallRecords,
         caller' = [caller EXCEPT ![c] = r],
         r.pc \in {"read", "reread", "observe"} => r.s \in Sessions
  PROVE  CallsTyped'
  BY DEF CallsTyped

LEMMA FinishTyped ==
  ASSUME CallsTyped, NEW c \in Callers,
         NEW res \in {"none", "ok", "failed", "invalid", "stale"}, Finish(c, res)
  PROVE  CallsTyped'
  <1> DEFINE r == [caller[c] EXCEPT !.pc = "end", !.res = res]
  <1>1. caller[c] \in CallRecords
    BY DEF CallsTyped
  <1>2. r \in CallRecords /\ r.pc = "end"
    BY <1>1 DEF CallRecords
  <1>3. caller' = [caller EXCEPT ![c] = r]
    BY DEF Finish
  <1> HIDE DEF r
  <1> QED
    BY <1>2, <1>3, CallTyped

LEMMA EntryTyped ==
  ASSUME EntriesTyped, NEW k \in SnapKinds, NEW i \in 1 .. Len(table[k])
  PROVE  /\ table[k][i] \in Entries /\ table[k][i].handle \in Nat
         /\ table[k][i].cells \in SUBSET Cells
  <1>1. table[k] \in Seq(Entries)
    BY DEF EntriesTyped
  <1>2. table[k][i] \in Entries
    BY <1>1, ElementOfSeq
  <1> QED
    BY <1>2 DEF Entries

LEMMA CallsStep ==
  ASSUME CallsTyped, EntriesTyped, [TablesNext]_tableVars
  PROVE  CallsTyped'
  <1>1. ASSUME NEW c \in Callers, NEW k \in SnapKinds, NEW s \in Sessions, BeginRead(c, k, s)
        PROVE  CallsTyped'
    <2> DEFINE r == [Fresh EXCEPT !.pc = "read", !.kind = k, !.s = s]
    <2>1. r \in CallRecords /\ r.s \in Sessions
      BY DEF Fresh, CallRecords
    <2>2. caller' = [caller EXCEPT ![c] = r]
      BY <1>1 DEF BeginRead
    <2> HIDE DEF r
    <2> QED
      BY <2>1, <2>2, CallTyped
  <1>2. ASSUME NEW c \in Callers, NEW k \in SnapKinds, Stored(c, k)
        PROVE  CallsTyped'
    BY <1>2, FinishTyped DEF Stored
  <1>3. ASSUME NEW c \in Callers, Narrowed(c) \/ Compared(c)
        PROVE  CallsTyped'
    BY <1>3, FinishTyped DEF Narrowed, Compared
  <1>4. ASSUME NEW c \in Callers, Observed(c)
        PROVE  CallsTyped'
    BY <1>4, FinishTyped DEF Observed
  <1>5. ASSUME NEW c \in Callers, NEW k \in SnapKinds, NEW s \in Sessions, NEW h \in Handles,
               LookUp(c, k, s, h)
        PROVE  CallsTyped'
    <2>1. CASE Finish(c, "invalid")
      BY <2>1, FinishTyped
    <2>2. ASSUME NEW i \in Entry(k, h),
                 caller' = [caller EXCEPT ![c] =
                   [Fresh EXCEPT !.pc = "reread", !.kind = k, !.s = s, !.h = h,
                                 !.base = table[k][i].cells]]
          PROVE  CallsTyped'
      <3> DEFINE r == [Fresh EXCEPT !.pc = "reread", !.kind = k, !.s = s, !.h = h,
                                    !.base = table[k][i].cells]
      <3>1. table[k] \in Seq(Entries) /\ i \in 1 .. Len(table[k])
        BY LenProperties DEF EntriesTyped, Entry
      <3>2. table[k][i].cells \in SUBSET Cells
        BY <3>1, EntryTyped
      <3>3. r \in CallRecords /\ r.s \in Sessions
        BY <3>2 DEF Fresh, CallRecords
      <3>4. caller' = [caller EXCEPT ![c] = r]
        BY <2>2
      <3> HIDE DEF r
      <3> QED
        BY <3>3, <3>4, CallTyped
    <2> QED
      BY <1>5, <2>1, <2>2 DEF LookUp
  <1>6. ASSUME NEW c \in Callers, NEW k \in SnapKinds, NEW s \in Sessions, NEW h \in Handles,
               Drop(c, k, s, h)
        PROVE  CallsTyped'
    BY <1>6, FinishTyped DEF Drop
  <1>7. ASSUME NEW c \in Callers, NEW s \in Sessions, NEW probes, WithProbes(c, s, probes)
        PROVE  CallsTyped'
    BY <1>7, FinishTyped DEF WithProbes
  <1>8. ASSUME NEW c \in Callers, NEW s \in Sessions, ReadConfigured(c, s)
        PROVE  CallsTyped'
    <2> DEFINE has == \E n \in DOMAIN registered[s] : Seeded(s)[n] # "none"
               r == [Fresh EXCEPT !.s = s, !.pc = IF has THEN "observe" ELSE "end",
                                  !.res = IF has THEN "none" ELSE "invalid"]
    <2>1. caller' = [caller EXCEPT ![c] = r]
      BY <1>8 DEF ReadConfigured
    <2> HIDE DEF has
    <2>2. r \in CallRecords /\ r.s \in Sessions
      BY DEF Fresh, CallRecords
    <2> HIDE DEF r
    <2> QED
      BY <2>1, <2>2, CallTyped
  <1>9. CASE UNCHANGED caller
    BY <1>9 DEF CallsTyped
  <1>10. ASSUME NEW c \in Callers, NEW s \in Sessions, List(c, s) \/ ClearAll(c, s)
         PROVE  CallsTyped'
    BY <1>7, <1>10 DEF List, ClearAll
  <1>11. ASSUME NEW c \in Callers, NEW s \in Sessions, NEW n, Register(c, s, n) \/ ClearOne(c, s, n)
         PROVE  CallsTyped'
    BY <1>7, <1>11 DEF Register, ClearOne
  <1>12. CASE (\E s \in Sessions : DropSession(s)) \/ EditYaml
    BY <1>9, <1>12 DEF DropSession, EditYaml
  <1>13. ASSUME NEW c \in Callers, InitialScan(c) \/ TakeSnapshot(c)
         PROVE  CallsTyped'
    BY <1>2, <1>13 DEF InitialScan, TakeSnapshot, SnapKinds
  <1>14. CASE UNCHANGED tableVars
    BY <1>9, <1>14 DEF tableVars
  <1> QED
    BY <1>1, <1>3, <1>4, <1>5, <1>6, <1>8, <1>10, <1>11, <1>12, <1>13, <1>14 DEF TablesNext

\* Evict and insert: the new handle is the largest, the table has room for it.
LEMMA EntryStored ==
  ASSUME EntriesInv, NEW c \in Callers, NEW kind \in SnapKinds, NEW found \in SUBSET Cells,
         caller[c].s \in Sessions, StoreEntry(c, kind, found), issued' = issued + 1
  PROVE  EntriesTyped' /\ HandlesInOrder' /\ TablesBounded'
  <1> DEFINE q == MakeRoom(table[kind])
             e == [handle |-> issued + 1, owner |-> caller[c].s, cells |-> found, passes |-> 1]
             new == Append(q, e)
  <1>1. table[kind] \in Seq(Entries) /\ Len(table[kind]) <= TableCap /\ issued \in Nat
    BY DEF EntriesInv, EntriesTyped, TablesBounded
  <1>2. e \in Entries /\ e.handle = issued + 1
    BY <1>1 DEF Entries
  <1>3. q \in Seq(Entries) /\ Len(q) < TableCap /\ Len(q) \in Nat /\ TableCap \in Nat
    BY <1>1, RoomIsMade, LenProperties, TablesAssumption
  <1>4. PICK k \in Nat : \A i \in 1 .. Len(q) :
           i + k \in 1 .. Len(table[kind]) /\ q[i] = table[kind][i + k]
    BY <1>1, RoomIsMade
  <1>5. \A i \in 1 .. Len(table[kind]) :
           table[kind][i].handle \in Nat /\ table[kind][i].handle <= issued
    BY EntryTyped DEF EntriesInv, HandlesInOrder
  <1>6. InOrder(table[kind])
    BY DEF EntriesInv, HandlesInOrder
  <1>7. table' = [table EXCEPT ![kind] = new]
    BY DEF StoreEntry
  <1> HIDE DEF q, e
  <1>8. /\ new \in Seq(Entries) /\ Len(new) = Len(q) + 1
        /\ \A i \in 1 .. Len(q) : new[i] = q[i]
        /\ new[Len(q) + 1] = e
    BY <1>2, <1>3, AppendProperties
  <1> HIDE DEF new
  <1>9. \A i \in 1 .. Len(q) : q[i].handle <= issued /\ q[i].handle \in Nat
    BY <1>4, <1>5
  <1>10. \A i, j \in 1 .. Len(q) : i < j => q[i].handle < q[j].handle
    <2> TAKE i, j \in 1 .. Len(q)
    <2> HAVE i < j
    <2>1. i + k \in 1 .. Len(table[kind]) /\ j + k \in 1 .. Len(table[kind]) /\ i + k < j + k
      BY <1>3, <1>4
    <2>2. table[kind][i + k].handle < table[kind][j + k].handle
      BY <1>6, <2>1 DEF InOrder
    <2> QED
      BY <1>4, <2>2
  <1>11. InOrder(new)
    <2> SUFFICES ASSUME NEW i \in 1 .. Len(new), NEW j \in 1 .. Len(new), i < j
                 PROVE  new[i].handle < new[j].handle
      BY DEF InOrder
    <2>1. i \in 1 .. Len(q)
      BY <1>3, <1>8
    <2>2. CASE j = Len(q) + 1
      BY <1>1, <1>2, <1>8, <1>9, <2>1, <2>2
    <2>3. CASE j # Len(q) + 1
      <3>1. j \in 1 .. Len(q)
        BY <1>3, <1>8, <2>3
      <3> QED
        BY <1>8, <1>10, <2>1, <3>1
    <2> QED
      BY <2>2, <2>3
  <1>12. \A i \in 1 .. Len(new) : new[i].handle <= issued + 1
    <2> TAKE i \in 1 .. Len(new)
    <2>1. CASE i = Len(q) + 1
      BY <1>1, <1>2, <1>8, <2>1
    <2>2. CASE i \in 1 .. Len(q)
      BY <1>1, <1>8, <1>9, <2>2
    <2> QED
      BY <1>3, <1>8, <2>1, <2>2
  <1>13. EntriesTyped'
    BY <1>1, <1>7, <1>8 DEF EntriesInv, EntriesTyped
  <1>14. ASSUME NEW k2 \in SnapKinds
         PROVE  /\ InOrder(table'[k2]) /\ Len(table'[k2]) <= TableCap
                /\ \A i \in 1 .. Len(table'[k2]) : table'[k2][i].handle <= issued + 1
    <2>1. CASE k2 = kind
      <3>1. table'[k2] = new
        BY <1>7, <2>1 DEF EntriesInv, EntriesTyped
      <3>2. Len(new) <= TableCap
        BY <1>3, <1>8
      <3> QED
        BY <1>11, <1>12, <3>1, <3>2
    <2>2. CASE k2 # kind
      <3>1. table'[k2] = table[k2]
        BY <1>7, <2>2 DEF EntriesInv, EntriesTyped
      <3>2. \A i \in 1 .. Len(table[k2]) :
               table[k2][i].handle \in Nat /\ table[k2][i].handle <= issued
        BY EntryTyped DEF EntriesInv, HandlesInOrder
      <3>3. \A i \in 1 .. Len(table[k2]) : table[k2][i].handle <= issued + 1
        BY <1>1, <3>2
      <3> QED
        BY <3>1, <3>3 DEF EntriesInv, HandlesInOrder, TablesBounded
    <2> QED
      BY <2>1, <2>2
  <1> QED
    BY <1>13, <1>14 DEF HandlesInOrder, TablesBounded, InOrder

\* Narrowing changes the cells and the count of entries that are there.
LEMMA EntryNarrowed ==
  ASSUME EntriesInv, NEW c \in Callers, Narrowed(c)
  PROVE  EntriesTyped' /\ HandlesInOrder' /\ TablesBounded'
  <1>1. issued' = issued
    BY DEF Narrowed
  <1>2. CASE UNCHANGED table
    BY <1>1, <1>2 DEF EntriesInv, EntriesTyped, HandlesInOrder, TablesBounded, InOrder
  <1>3. ASSUME NEW kept \in SUBSET caller[c].base,
               table' = [table EXCEPT !["value"] = WithCells(@, caller[c].h, kept)]
        PROVE  EntriesTyped' /\ HandlesInOrder' /\ TablesBounded'
    <2> DEFINE q == table["value"]
               new == WithCells(q, caller[c].h, kept)
    <2>1. q \in Seq(Entries) /\ DOMAIN q = 1 .. Len(q) /\ Len(q) \in Nat
      BY LenProperties DEF EntriesInv, EntriesTyped, SnapKinds
    <2>2. kept \in SUBSET Cells
      BY <1>3 DEF EntriesInv, CallsTyped, CallRecords
    <2>3. ASSUME NEW i \in 1 .. Len(q)
          PROVE  new[i] \in Entries /\ new[i].handle = q[i].handle
      <3>1. q[i] \in Entries
        BY <2>1, ElementOfSeq
      <3> DEFINE e == q[i]
      <3>2. e.passes + 1 \in Nat
        BY <3>1 DEF Entries
      <3> HIDE DEF e
      <3>3. /\ [e EXCEPT !.cells = kept, !.passes = @ + 1] \in Entries
            /\ [e EXCEPT !.cells = kept, !.passes = @ + 1].handle = e.handle
        BY <2>2, <3>1, <3>2 DEF Entries, e
      <3> QED
        BY <2>1, <3>1, <3>3 DEF WithCells, e
    <2>4. DOMAIN new = 1 .. Len(q)
      BY <2>1 DEF WithCells
    <2>5. table' = [table EXCEPT !["value"] = new]
      BY <1>3
    <2>6. new \in [1 .. Len(q) -> Entries]
      BY <2>1, <2>3 DEF WithCells
    <2> HIDE DEF new
    <2>7. new \in Seq(Entries) /\ Len(new) = Len(q)
      BY <2>1, <2>6, IsASeq
    <2>8. \A k \in SnapKinds :
             /\ Len(table'[k]) = Len(table[k])
             /\ \A i \in 1 .. Len(table[k]) : table'[k][i].handle = table[k][i].handle
      BY <2>3, <2>5, <2>7 DEF EntriesInv, EntriesTyped
    <2>9. EntriesTyped'
      BY <1>1, <2>5, <2>7 DEF EntriesInv, EntriesTyped
    <2> QED
      BY <1>1, <2>8, <2>9 DEF EntriesInv, HandlesInOrder, TablesBounded, InOrder
  <1> QED
    BY <1>2, <1>3 DEF Narrowed

\* Dropping takes one entry out of its table.
LEMMA EntryDropped ==
  ASSUME EntriesInv, NEW c \in Callers, NEW kind \in SnapKinds, NEW s \in Sessions,
         NEW h \in Handles, Drop(c, kind, s, h)
  PROVE  EntriesTyped' /\ HandlesInOrder' /\ TablesBounded'
  <1>1. issued' = issued
    BY DEF Drop
  <1>2. CASE UNCHANGED table
    BY <1>1, <1>2 DEF EntriesInv, EntriesTyped, HandlesInOrder, TablesBounded, InOrder
  <1>3. ASSUME NEW i \in Entry(kind, h), table' = [table EXCEPT ![kind] = RemoveAt(@, i)]
        PROVE  EntriesTyped' /\ HandlesInOrder' /\ TablesBounded'
    <2> DEFINE q == table[kind]
               new == RemoveAt(q, i)
    <2>1. q \in Seq(Entries) /\ Len(q) \in Nat /\ i \in 1 .. Len(q) /\ Len(q) <= TableCap
      BY LenProperties DEF EntriesInv, EntriesTyped, TablesBounded, Entry
    <2>2. /\ new \in Seq(Entries) /\ Len(new) = Len(q) - 1
          /\ \A j \in 1 .. Len(q) - 1 : new[j] = IF j < i THEN q[j] ELSE q[j + 1]
      BY <2>1, EntryIsTaken
    <2>3. table' = [table EXCEPT ![kind] = new]
      BY <1>3
    <2> HIDE DEF new
    <2>4. EntriesTyped'
      BY <1>1, <2>2, <2>3 DEF EntriesInv, EntriesTyped
    <2>5. Len(new) <= TableCap
      BY <2>1, <2>2, TablesAssumption
    <2>6. InOrder(new)
      <3> SUFFICES ASSUME NEW a \in 1 .. Len(new), NEW b \in 1 .. Len(new), a < b
                   PROVE  new[a].handle < new[b].handle
        BY DEF InOrder
      <3> DEFINE a1 == IF a < i THEN a ELSE a + 1
                 b1 == IF b < i THEN b ELSE b + 1
      <3>1. a1 \in 1 .. Len(q) /\ b1 \in 1 .. Len(q) /\ a1 < b1
        BY <2>1, <2>2
      <3>2. new[a] = q[a1] /\ new[b] = q[b1]
        BY <2>2
      <3> HIDE DEF a1, b1
      <3> QED
        BY <3>1, <3>2 DEF EntriesInv, HandlesInOrder, InOrder
    <2>7. \A j \in 1 .. Len(new) : new[j].handle <= issued
      <3> TAKE j \in 1 .. Len(new)
      <3> DEFINE j1 == IF j < i THEN j ELSE j + 1
      <3>1. j1 \in 1 .. Len(q)
        BY <2>1, <2>2
      <3>2. new[j] = q[j1]
        BY <2>2
      <3> HIDE DEF j1
      <3> QED
        BY <3>1, <3>2 DEF EntriesInv, HandlesInOrder
    <2>8. \A k \in SnapKinds : table'[k] = IF k = kind THEN new ELSE table[k]
      BY <2>3 DEF EntriesInv, EntriesTyped
    <2> QED
      BY <1>1, <2>4, <2>5, <2>6, <2>7, <2>8
         DEF EntriesInv, HandlesInOrder, TablesBounded, InOrder
  <1> QED
    BY <1>2, <1>3 DEF Drop

LEMMA EntriesStep ==
  ASSUME EntriesInv, [TablesNext]_tableVars
  PROVE  EntriesInv'
  <1>1. CallsTyped'
    BY CallsStep DEF EntriesInv
  <1>2. CASE UNCHANGED <<table, issued>>
    BY <1>1, <1>2 DEF EntriesInv, EntriesTyped, HandlesInOrder, TablesBounded, InOrder
  <1>3. ASSUME NEW c \in Callers, NEW k \in SnapKinds, Stored(c, k)
        PROVE  EntriesInv'
    <2>1. caller[c].s \in Sessions
      BY <1>3 DEF EntriesInv, CallsTyped, Stored
    <2> QED
      BY <1>1, <1>2, <1>3, <2>1, EntryStored DEF Stored, EntriesInv
  <1>4. ASSUME NEW c \in Callers, NEW k \in SnapKinds, NEW s \in Sessions, NEW h \in Handles,
               LookUp(c, k, s, h) \/ Drop(c, k, s, h)
        PROVE  EntriesInv'
    BY <1>1, <1>2, <1>4, EntryDropped DEF LookUp, EntriesInv
  <1>5. ASSUME NEW c \in Callers,
               InitialScan(c) \/ TakeSnapshot(c) \/ Narrowed(c) \/ Compared(c) \/ Observed(c)
        PROVE  EntriesInv'
    <2>1. CASE InitialScan(c) \/ TakeSnapshot(c)
      BY <1>3, <2>1 DEF InitialScan, TakeSnapshot, SnapKinds
    <2>2. CASE Narrowed(c)
      BY <1>1, <2>2, EntryNarrowed DEF EntriesInv
    <2>3. CASE Compared(c) \/ Observed(c)
      BY <1>2, <2>3 DEF Compared, Observed
    <2> QED
      BY <1>5, <2>1, <2>2, <2>3
  <1>6. ASSUME NEW c \in Callers, NEW s \in Sessions,
               List(c, s) \/ ClearAll(c, s) \/ ReadConfigured(c, s)
        PROVE  EntriesInv'
    BY <1>2, <1>6 DEF List, ClearAll, ReadConfigured, WithProbes
  <1>7. ASSUME NEW c \in Callers, NEW s \in Sessions, NEW n, Register(c, s, n) \/ ClearOne(c, s, n)
        PROVE  EntriesInv'
    BY <1>2, <1>7 DEF Register, ClearOne, WithProbes
  <1>8. CASE (\E s \in Sessions : DropSession(s)) \/ EditYaml
    BY <1>2, <1>8 DEF DropSession, EditYaml
  <1>9. CASE \E c \in Callers, k \in SnapKinds, s \in Sessions : BeginRead(c, k, s)
    BY <1>2, <1>9 DEF BeginRead
  <1>10. CASE UNCHANGED tableVars
    BY <1>2, <1>10 DEF tableVars
  <1> QED
    BY <1>4, <1>5, <1>6, <1>7, <1>8, <1>9, <1>10 DEF TablesNext

-----------------------------------------------------------------------------
(* Probes *)

Registries == [Configured \cup UserProbes -> {"yaml", "user", "none"}]

ProbesTyped ==
    /\ registered \in [Sessions -> Registries]
    /\ seeded \subseteq Sessions
    /\ yaml \in [ok : BOOLEAN, edits : Nat]

\* A file that was not edited is whole.
YamlWhole == yaml.edits = 0 => yaml.ok

ProbesInv == ProbesTyped /\ YamlWhole /\ BaselineSurvives

\* A registry with the configured probes, if the file can be read.
WithBaseline(probes) ==
    /\ probes \in Registries
    /\ yaml.edits = 0 => \A n \in Configured : probes[n] # "none"

LEMMA SeedingKeepsBaseline ==
  ASSUME ProbesInv, NEW s \in Sessions
  PROVE  WithBaseline(Seeded(s))
  <1>1. registered[s] \in Registries /\ DOMAIN registered[s] = Configured \cup UserProbes
    BY DEF ProbesInv, ProbesTyped, Registries
  <1>2. CASE s \in seeded
    BY <1>1, <1>2 DEF ProbesInv, BaselineSurvives, WithBaseline, Seeded
  <1>3. CASE s \notin seeded
    <2>1. Seeded(s) \in Registries
      BY <1>1, <1>3 DEF Seeded, Registries
    <2>2. ASSUME yaml.edits = 0, NEW n \in Configured
          PROVE  Seeded(s)[n] # "none"
      <3>1. n \in Names
        BY <2>2 DEF ProbesInv, YamlWhole, Names
      <3> QED
        BY <1>1, <1>3, <3>1 DEF Seeded
    <2> QED
      BY <2>1, <2>2 DEF WithBaseline
  <1> QED
    BY <1>2, <1>3

LEMMA BaselineKept ==
  ASSUME ProbesInv, NEW s \in Sessions, NEW probes, WithBaseline(probes),
         registered' = [registered EXCEPT ![s] = probes], seeded' = seeded \cup {s}, yaml' = yaml
  PROVE  ProbesInv'
  BY DEF ProbesInv, ProbesTyped, YamlWhole, BaselineSurvives, WithBaseline

LEMMA ProbesStep ==
  ASSUME ProbesInv, [TablesNext]_tableVars
  PROVE  ProbesInv'
  <1>1. CASE UNCHANGED <<registered, seeded, yaml>>
    BY <1>1 DEF ProbesInv, ProbesTyped, YamlWhole, BaselineSurvives
  <1>2. ASSUME NEW c \in Callers, NEW s \in Sessions, NEW probes, WithProbes(c, s, probes),
               WithBaseline(probes)
        PROVE  ProbesInv'
    BY <1>2, BaselineKept DEF WithProbes
  <1>3. ASSUME NEW c \in Callers, NEW s \in Sessions, List(c, s)
        PROVE  ProbesInv'
    BY <1>2, <1>3, SeedingKeepsBaseline DEF List
  <1>4. ASSUME NEW c \in Callers, NEW s \in Sessions, ReadConfigured(c, s)
        PROVE  ProbesInv'
    BY <1>4, SeedingKeepsBaseline, BaselineKept DEF ReadConfigured
  <1>5. ASSUME NEW c \in Callers, NEW s \in Sessions, NEW n \in Configured \cup UserProbes,
               Register(c, s, n)
        PROVE  ProbesInv'
    <2>1. WithBaseline([Seeded(s) EXCEPT ![n] = "user"])
      BY SeedingKeepsBaseline DEF WithBaseline, Registries
    <2> QED
      BY <1>2, <1>5, <2>1 DEF Register
  <1>6. ASSUME NEW s \in Sessions
        PROVE  /\ DOMAIN registered[s] = Configured \cup UserProbes
               /\ yaml.edits = 0 => Clearable(s) \cap Configured = {}
    BY DEF ProbesInv, ProbesTyped, Registries, YamlWhole, Clearable, Names
  <1>7. ASSUME NEW c \in Callers, NEW s \in Sessions, ClearAll(c, s)
        PROVE  ProbesInv'
    <2>1. WithBaseline([n \in DOMAIN registered[s] |->
                           IF n \in Clearable(s) THEN "none" ELSE Seeded(s)[n]])
      BY <1>6, SeedingKeepsBaseline DEF WithBaseline, Registries
    <2> QED
      BY <1>2, <1>7, <2>1 DEF ClearAll
  <1>8. ASSUME NEW c \in Callers, NEW s \in Sessions, NEW n \in Configured \cup UserProbes,
               ClearOne(c, s, n)
        PROVE  ProbesInv'
    <2>1. CASE n \in Clearable(s)
      <3>1. WithBaseline([Seeded(s) EXCEPT ![n] = "none"])
        BY <1>6, <2>1, SeedingKeepsBaseline DEF WithBaseline, Registries
      <3> QED
        BY <1>2, <1>8, <2>1, <3>1 DEF ClearOne
    <2>2. CASE n \notin Clearable(s)
      BY <1>2, <1>8, <2>2, SeedingKeepsBaseline DEF ClearOne
    <2> QED
      BY <2>1, <2>2
  <1>9. ASSUME NEW s \in Sessions, DropSession(s)
        PROVE  ProbesInv'
    <2>1. NoProbes \in Registries
      BY DEF NoProbes, Registries
    <2> QED
      BY <1>9, <2>1 DEF DropSession, ProbesInv, ProbesTyped, YamlWhole, BaselineSurvives
  <1>10. CASE EditYaml
    <2>1. yaml.ok \in BOOLEAN /\ yaml.edits \in Nat
      BY DEF ProbesInv, ProbesTyped
    <2>2. /\ yaml' = [ok |-> ~yaml.ok, edits |-> yaml.edits + (IF yaml.ok THEN 1 ELSE 0)]
          /\ UNCHANGED <<registered, seeded>>
      BY <1>10 DEF EditYaml
    <2>3. /\ yaml' \in [ok : BOOLEAN, edits : Nat]
          /\ yaml'.edits = 0 => yaml.edits = 0 /\ ~yaml.ok
      BY <2>1, <2>2
    <2>4. yaml'.edits # 0
      BY <2>3 DEF ProbesInv, YamlWhole
    <2>5. registered' = registered /\ seeded' = seeded
      BY <2>2
    <2>6. ProbesTyped' /\ YamlWhole' /\ BaselineSurvives'
      <3>1. ProbesTyped'
        BY <2>3, <2>5 DEF ProbesInv, ProbesTyped
      <3>2. YamlWhole' /\ BaselineSurvives'
        BY <2>4 DEF YamlWhole, BaselineSurvives
      <3> QED
        BY <3>1, <3>2
    <2> QED
      BY <2>6 DEF ProbesInv
  <1>11. CASE \E c \in Callers, k \in SnapKinds, s \in Sessions : BeginRead(c, k, s)
    BY <1>1, <1>11 DEF BeginRead, StillRegistry
  <1>12. CASE \E c \in Callers : \/ InitialScan(c) \/ TakeSnapshot(c) \/ Narrowed(c)
                                \/ Compared(c) \/ Observed(c)
    BY <1>1, <1>12 DEF InitialScan, TakeSnapshot, Stored, Narrowed, Compared, Observed,
                       StillRegistry
  <1>13. CASE \E c \in Callers, k \in SnapKinds, s \in Sessions, h \in Handles :
                LookUp(c, k, s, h) \/ Drop(c, k, s, h)
    <2>1. ASSUME NEW c \in Callers, NEW k \in SnapKinds, NEW s \in Sessions, NEW h \in Handles
          PROVE  LookUp(c, k, s, h) \/ Drop(c, k, s, h) => StillRegistry
      <3>1. LookUp(c, k, s, h) => StillRegistry
        BY DEF LookUp
      <3>2. Drop(c, k, s, h) => StillRegistry
        BY DEF Drop
      <3> QED
        BY <3>1, <3>2
    <2> QED
      BY <1>1, <1>13, <2>1 DEF StillRegistry
  <1>14. CASE UNCHANGED tableVars
    BY <1>1, <1>14 DEF tableVars
  <1>15. CASE \E c \in Callers, s \in Sessions :
                 List(c, s) \/ ClearAll(c, s) \/ ReadConfigured(c, s)
    BY <1>3, <1>4, <1>7, <1>15
  <1>16. CASE \E c \in Callers, s \in Sessions, n \in Configured \cup UserProbes :
                 Register(c, s, n) \/ ClearOne(c, s, n)
    BY <1>5, <1>8, <1>16
  <1>17. CASE \E s \in Sessions : DropSession(s)
    BY <1>9, <1>17
  <1> QED
    BY <1>10, <1>11, <1>12, <1>13, <1>14, <1>15, <1>16, <1>17 DEF TablesNext

-----------------------------------------------------------------------------
(* Theorems of the tables *)

LEMMA TablesInitInv == TablesInit => EntriesInv /\ ProbesInv
  <1> SUFFICES ASSUME TablesInit PROVE EntriesInv /\ ProbesInv
    OBVIOUS
  <1>1. Fresh \in CallRecords /\ Fresh.pc = "idle"
    BY DEF Fresh, CallRecords
  <1>2. CallsTyped
    BY <1>1 DEF TablesInit, CallsTyped
  <1>3. /\ table = [k \in SnapKinds |-> <<>>] /\ issued = 0
        /\ <<>> \in Seq(Entries) /\ Len(<<>>) = 0
    BY EmptySeq DEF TablesInit
  <1>4. EntriesInv
    BY <1>2, <1>3, TablesAssumption
       DEF EntriesInv, EntriesTyped, HandlesInOrder, InOrder, TablesBounded
  <1>5. ProbesInv
    BY DEF TablesInit, NoProbes, ProbesInv, ProbesTyped, Registries, YamlWhole,
           BaselineSurvives
  <1> QED
    BY <1>4, <1>5

\* Handles are given out in order and name one entry each, so what makes room is
\* the oldest entry and a drop takes no other call's.
THEOREM HandlesCorrect == TablesSpec => []HandlesInOrder
  <1>1. EntriesInv => HandlesInOrder
    BY DEF EntriesInv
  <1> QED
    BY <1>1, TablesInitInv, EntriesStep, PTL DEF TablesSpec

\* However many calls await between their look into a table and their insertion,
\* no table outgrows its cap; and whatever is registered and cleared, a seeded
\* session has every configured probe as long as addresses.yaml can be read.
THEOREM TablesCorrect == TablesSpec => []TablesHold
  <1>1. EntriesInv /\ ProbesInv => TablesHold
    BY DEF EntriesInv, ProbesInv, TablesHold
  <1> QED
    BY <1>1, TablesInitInv, EntriesStep, ProbesStep, PTL DEF TablesSpec

-----------------------------------------------------------------------------
(* Searches, logs and health: for any code, log and limits *)

Rising(f) == \A i, j \in DOMAIN f : i < j => f[i] < f[j]

JobTyped ==
    /\ {"pc", "start", "end", "max", "cur", "found", "all", "filter", "capped", "total",
        "patched", "checks", "game", "listing", "res"} \subseteq DOMAIN job
    /\ {job.start, job.end, job.cur, job.patched} \subseteq Nat /\ job.max \in Int
    /\ job.found \in Seq(Nat) /\ job.checks \in Seq(BOOLEAN)

CodeTyped == hitsIn \subseteq 1 .. CodeTop /\ log \in Seq(LogLines)

\* What a search has found lies before its cursor; a loop search that has
\* wrapped around had found all from its start on.
Covered ==
    /\ Visited \subseteq hitsIn
    /\ job.end > job.start =>
          /\ job.cur >= job.start
          /\ \A h \in hitsIn :
                h \in Visited <=> job.start <= h /\ h < job.cur /\ h < job.end
    /\ job.end = 0 \/ job.end = job.start =>
          \/ /\ job.cur >= job.start
             /\ \A h \in hitsIn : h \in Visited <=> job.start <= h /\ h < job.cur
          \/ /\ job.cur <= job.start
             /\ \A h \in hitsIn : h \in Visited <=> job.start <= h \/ h < job.cur

HuntInv ==
    job.pc = "search" =>
        /\ job.start > 0 /\ job.cur > 0 /\ job.checks = <<>>
        /\ IsFiniteSet(Visited) /\ Cardinality(Visited) = Len(job.found)
        /\ job.patched = 0 => Covered

LogInv ==
    job.pc = "log" =>
        /\ job.start = 0 /\ job.cur \in 1 .. Len(log) + 1 /\ job.checks = <<>>
        /\ Visited = {n \in 1 .. job.cur - 1 : Wanted(log[n])}
        /\ Rising(job.found)

\* The battery asks in its order, and a game that runs stays asked.
HealthInv ==
    job.pc = "health" =>
        /\ job.start = 0 /\ job.cur \in 1 .. 5
        /\ job.cur = 1 <=> job.checks = <<>>
        /\ AllPassed => Len(job.checks) = job.cur - 1
        /\ AllPassed /\ job.cur > 2 => job.game = "running"

SearchInv ==
    /\ JobTyped /\ CodeTyped
    /\ HuntInv /\ LogInv /\ HealthInv
    /\ SearchFinds /\ TruncationIsTold /\ HeadlineIsHonest

LEMMA LowestExists ==
  ASSUME NEW s, s \subseteq Nat, s # {}
  PROVE  Lowest(s) \in s /\ \A m \in s : Lowest(s) <= m
  <1> DEFINE R == OpToRel(<, Nat)
  <1>1. IsWellFoundedOn(R, Nat)
    BY NatLessThanWellFounded, Zenon
  <1>2. R = {ss \in Nat \X Nat : ss[1] < ss[2]}
    BY Zenon DEF OpToRel
  <1> HIDE DEF R
  <1>3. PICK n \in s : \A m \in s : ~ (<<m, n>> \in R)
    BY <1>1, WFMin
  <1>4. \A m \in s : m \in Nat /\ n \in Nat /\ ~(m < n)
    BY <1>2, <1>3
  <1>5. \A m \in s : n <= m
    BY <1>4
  <1> QED
    BY <1>5 DEF Lowest

\* What a list has when one more is put behind it.
LEMMA OneMore ==
  ASSUME NEW f \in Seq(Nat), NEW x \in Nat
  PROVE  /\ Append(f, x) \in Seq(Nat) /\ Len(Append(f, x)) = Len(f) + 1
         /\ {Append(f, x)[n] : n \in DOMAIN Append(f, x)} = {f[n] : n \in DOMAIN f} \cup {x}
         /\ Rising(f) /\ (\A n \in DOMAIN f : f[n] < x) => Rising(Append(f, x))
  <1>1. /\ Append(f, x) \in Seq(Nat) /\ Len(Append(f, x)) = Len(f) + 1 /\ Len(f) \in Nat
        /\ DOMAIN Append(f, x) = 1 .. Len(f) + 1 /\ DOMAIN f = 1 .. Len(f)
        /\ \A n \in 1 .. Len(f) : Append(f, x)[n] = f[n] /\ f[n] \in Nat
        /\ Append(f, x)[Len(f) + 1] = x
    OBVIOUS
  <1> DEFINE g == Append(f, x)
             l == Len(f)
  <1> HIDE DEF g, l
  <1>2. 1 .. l + 1 = (1 .. l) \cup {l + 1} /\ l \in Nat
    BY <1>1 DEF l
  <1>3. {g[n] : n \in 1 .. l + 1} = {g[n] : n \in 1 .. l} \cup {g[l + 1]}
    BY <1>2
  <1>4. {g[n] : n \in 1 .. l} = {f[n] : n \in 1 .. l}
    BY <1>1 DEF g, l
  <1>5. {g[n] : n \in DOMAIN g} = {f[n] : n \in DOMAIN f} \cup {x}
    BY <1>1, <1>3, <1>4 DEF g, l
  <1>6. ASSUME Rising(f), \A n \in DOMAIN f : f[n] < x PROVE Rising(g)
    <2> SUFFICES ASSUME NEW i \in 1 .. l + 1, NEW j \in 1 .. l + 1, i < j
                 PROVE  g[i] < g[j]
      BY <1>1 DEF Rising, g, l
    <2>1. i \in 1 .. l
      BY <1>2
    <2>2. CASE j \in 1 .. l
      BY <1>1, <1>6, <2>1, <2>2 DEF Rising, g, l
    <2>3. CASE j = l + 1
      BY <1>1, <1>6, <2>1, <2>3 DEF g, l
    <2> QED
      BY <1>2, <2>2, <2>3
  <1> QED
    BY <1>1, <1>5, <1>6 DEF g

LEMMA SearchInitial == SearchInit => SearchInv
  <1> SUFFICES ASSUME SearchInit PROVE SearchInv
    OBVIOUS
  <1>1. job.pc = "idle" /\ job.start = 0 /\ job.end = 0 /\ job.cur = 0 /\ job.patched = 0
        /\ job.max = 0 /\ job.found = <<>> /\ job.checks = <<>>
    BY DEF SearchInit, NoJob
  <1>2. JobTyped
    BY <1>1 DEF SearchInit, NoJob, JobTyped
  <1>3. CodeTyped
    BY DEF SearchInit, CodeTyped
  <1> QED
    BY <1>1, <1>2, <1>3 DEF SearchInv, HuntInv, LogInv, HealthInv, SearchFinds, Searched,
       TruncationIsTold, HeadlineIsHonest

-----------------------------------------------------------------------------
(* The steps *)

\* A call refused for its arguments, or one that begins.
LEMMA ArrivalsKeep ==
  ASSUME SearchInv, SearchArrives \/ LogArrives \/ HealthArrives
  PROVE  SearchInv'
  <1>1. CodeTop \in Nat /\ EndArguments \subseteq Nat /\ Maxes \subseteq Int
    BY SearchAssumption
  <1>2. CASE SearchArrives
    <2>1. PICK start \in 0..CodeTop, end \in EndArguments, max \in Maxes :
             job' = IF start = 0 \/ max \notin 1..ResultsCap THEN InvalidArgs
                    ELSE [NoJob EXCEPT !.pc = "search", !.start = start, !.end = end,
                                       !.max = max, !.cur = start]
      BY <1>2 DEF SearchArrives
    <2>2. CodeTyped' /\ start \in Nat /\ end \in Nat /\ max \in Int
      <3>1. UNCHANGED <<hitsIn, log>> /\ CodeTyped
        BY <1>2 DEF SearchArrives, Fixed, SearchInv
      <3>2. CodeTyped'
        BY <3>1 DEF CodeTyped
      <3>3. start \in Nat /\ end \in Nat /\ max \in Int
        BY <1>1
      <3> QED
        BY <3>2, <3>3
    <2>3. CASE job' = InvalidArgs
      <3>1. /\ job'.pc = "end" /\ job'.res = "ARGS_INVALID" /\ job'.start = 0 /\ job'.end = 0
            /\ job'.cur = 0 /\ job'.patched = 0 /\ job'.max = 0 /\ job'.found = <<>>
            /\ job'.checks = <<>>
        BY <2>3 DEF InvalidArgs, NoJob
      <3>2. JobTyped'
        BY <2>3, <3>1 DEF JobTyped, InvalidArgs, NoJob
      <3> QED
        BY <2>2, <3>1, <3>2 DEF SearchInv, HuntInv, LogInv, HealthInv, SearchFinds, Searched,
           TruncationIsTold, HeadlineIsHonest
    <2>4. CASE start # 0 /\ job' = [NoJob EXCEPT !.pc = "search", !.start = start, !.end = end,
                                                 !.max = max, !.cur = start]
      <3>1. /\ job'.pc = "search" /\ job'.start = start /\ job'.end = end
            /\ job'.cur = start /\ job'.patched = 0 /\ job'.max = max /\ job'.found = <<>>
            /\ job'.checks = <<>>
        BY <2>4 DEF NoJob
      <3>2. JobTyped'
        BY <2>2, <2>4, <3>1 DEF JobTyped, NoJob
      <3>3. Visited' = {} /\ IsFiniteSet(Visited') /\ Cardinality(Visited') = 0
            /\ Len(job'.found) = 0
        <4>1. DOMAIN job'.found = {} /\ Len(job'.found) = 0
          BY <3>1
        <4>2. Visited' = {}
          BY <4>1 DEF Visited
        <4> QED
          BY <4>1, <4>2, FS_EmptySet
      <3>4. Covered'
        <4>1. hitsIn' \subseteq Nat
          BY <1>1, <2>2 DEF CodeTyped
        <4> QED
          BY <2>2, <3>1, <3>3, <4>1 DEF Covered
      <3>5. HuntInv'
        BY <2>2, <2>4, <3>1, <3>3, <3>4 DEF HuntInv
      <3> QED
        BY <2>2, <3>1, <3>2, <3>5 DEF SearchInv, LogInv, HealthInv, SearchFinds, Searched,
           TruncationIsTold, HeadlineIsHonest
    <2> QED
      BY <2>1, <2>3, <2>4
  <1>3. CASE LogArrives
    <2>1. /\ hitsIn' = hitsIn
          /\ \E n \in 0..(LogMax + 1) : log' \in [1..n -> LogLines]
          /\ \E filter, all \in BOOLEAN, limit \in Maxes :
               job' = IF Len(log') > LogMax THEN InvalidArgs
                      ELSE [NoJob EXCEPT !.pc = "log", !.filter = filter, !.all = all,
                                         !.max = limit, !.cur = 1]
      BY <1>3 DEF LogArrives
    <2>2. log' \in Seq(LogLines)
      BY <2>1, SearchAssumption
    <2>3. CodeTyped'
      BY <2>1, <2>2 DEF SearchInv, CodeTyped
    <2>4. CASE job' = InvalidArgs
      <3>1. /\ job'.pc = "end" /\ job'.res = "ARGS_INVALID" /\ job'.start = 0 /\ job'.end = 0
            /\ job'.cur = 0 /\ job'.patched = 0 /\ job'.max = 0 /\ job'.found = <<>>
            /\ job'.checks = <<>>
        BY <2>4 DEF InvalidArgs, NoJob
      <3>2. JobTyped'
        BY <2>4, <3>1 DEF JobTyped, InvalidArgs, NoJob
      <3> QED
        BY <2>3, <3>1, <3>2 DEF SearchInv, HuntInv, LogInv, HealthInv, SearchFinds, Searched,
           TruncationIsTold, HeadlineIsHonest
    <2>5. CASE \E filter, all \in BOOLEAN, limit \in Maxes :
                  job' = [NoJob EXCEPT !.pc = "log", !.filter = filter, !.all = all,
                                       !.max = limit, !.cur = 1]
      <3>1. PICK filter \in BOOLEAN, all \in BOOLEAN, limit \in Maxes :
                  job' = [NoJob EXCEPT !.pc = "log", !.filter = filter, !.all = all,
                                       !.max = limit, !.cur = 1]
        BY <2>5
      <3>2. /\ job'.pc = "log" /\ job'.start = 0 /\ job'.end = 0
            /\ job'.cur = 1 /\ job'.patched = 0 /\ job'.max = limit /\ job'.found = <<>>
            /\ job'.checks = <<>>
        BY <3>1 DEF NoJob
      <3>3. JobTyped'
        BY <3>1, <3>2, SearchAssumption DEF JobTyped, NoJob
      <3>4. Visited' = {} /\ Rising(job'.found)
        BY <3>2 DEF Visited, Rising
      <3>5. Len(log') \in Nat
        BY <2>2
      <3>6. LogInv'
        BY <3>2, <3>4, <3>5 DEF LogInv
      <3> QED
        BY <2>3, <3>2, <3>3, <3>6 DEF SearchInv, HuntInv, HealthInv, SearchFinds, Searched,
           TruncationIsTold, HeadlineIsHonest
    <2> QED
      BY <2>1, <2>4, <2>5
  <1>4. CASE HealthArrives
    <2>1. PICK listing \in BOOLEAN :
             job' = [NoJob EXCEPT !.pc = "health", !.listing = listing, !.cur = 1]
      BY <1>4 DEF HealthArrives
    <2>2. /\ job'.pc = "health" /\ job'.start = 0 /\ job'.end = 0
          /\ job'.cur = 1 /\ job'.patched = 0 /\ job'.max = 0 /\ job'.found = <<>>
          /\ job'.checks = <<>>
      BY <2>1 DEF NoJob
    <2>3. JobTyped' /\ CodeTyped'
      <3>1. UNCHANGED <<hitsIn, log>> /\ CodeTyped
        BY <1>4 DEF HealthArrives, Fixed, SearchInv
      <3>2. CodeTyped'
        BY <3>1 DEF CodeTyped
      <3>3. JobTyped'
        BY <2>1, <2>2 DEF JobTyped, NoJob
      <3> QED
        BY <3>2, <3>3
    <2>4. HealthInv'
      BY <2>2 DEF HealthInv, AllPassed
    <2> QED
      BY <2>2, <2>3, <2>4 DEF SearchInv, HuntInv, LogInv, SearchFinds, Searched,
         TruncationIsTold, HeadlineIsHonest
  <1> QED
    BY <1>2, <1>3, <1>4

\* Where a search has nothing more to find it has found what it was asked for.
LEMMA SearchExhausted ==
  ASSUME SearchInv, job.pc = "search", job.patched = 0, job.end = 0 \/ job.end >= job.start
  PROVE  /\ Visited \subseteq WantedHits
         /\ job.end > job.start /\ job.cur >= job.end => Visited = WantedHits
         /\ (job.end > job.start => job.cur < job.end) /\ FirstHits(job.cur, job.end) = {}
               => Visited = WantedHits
         /\ (job.end > job.start => job.cur < job.end) /\ FirstHits(job.cur, job.end) # {}
            /\ Lowest(FirstHits(job.cur, job.end)) \in Visited => Visited = WantedHits
  <1>1. /\ job.start \in Nat /\ job.end \in Nat /\ job.cur \in Nat /\ job.start > 0
        /\ hitsIn \subseteq Nat /\ Covered
    BY SearchAssumption DEF SearchInv, JobTyped, CodeTyped, HuntInv
  <1> DEFINE hits == FirstHits(job.cur, job.end)
             low == Lowest(hits)
  <1>2. hits \subseteq hitsIn
    BY DEF FirstHits
  <1>3. hits # {} => low \in hits /\ \A m \in hits : low <= m
    BY <1>1, <1>2, LowestExists
  <1>4. CASE job.end > job.start
    <2>1. WantedHits = {h \in hitsIn : job.start <= h /\ h < job.end}
      BY <1>4 DEF WantedHits
    <2>2. /\ job.cur >= job.start /\ Visited \subseteq hitsIn
          /\ \A h \in hitsIn :
                h \in Visited <=> job.start <= h /\ h < job.cur /\ h < job.end
      BY <1>1, <1>4 DEF Covered
    <2>3. job.cur < job.end => hits = {h \in hitsIn : job.cur <= h /\ h < job.end}
      BY <1>1 DEF FirstHits
    <2> HIDE DEF hits, low
    <2>4. job.cur < job.end /\ hits # {} => low \notin Visited
      <3> SUFFICES ASSUME job.cur < job.end, hits # {} PROVE low \notin Visited
        OBVIOUS
      <3>1. low \in hitsIn /\ low \in Nat /\ job.cur <= low
        BY <1>1, <1>3, <2>3 DEF hits, low
      <3> QED
        BY <1>1, <2>2, <3>1
    <2>5. Visited \subseteq WantedHits
      BY <2>1, <2>2
    <2>6. ASSUME job.cur >= job.end \/ hits = {} PROVE Visited = WantedHits
      <3> SUFFICES ASSUME NEW h \in hitsIn, job.start <= h, h < job.end PROVE h \in Visited
        BY <2>1, <2>5
      <3>1. h \in Nat
        BY <1>1
      <3>2. h < job.cur
        BY <1>1, <2>3, <2>6, <3>1
      <3> QED
        BY <2>2, <3>2
    <2> QED
      BY <1>4, <2>4, <2>5, <2>6 DEF hits, low
  <1>5. CASE job.end = 0 \/ job.end = job.start
    <2>1. WantedHits = hitsIn
      BY <1>1, <1>5 DEF WantedHits
    <2>2. \/ /\ job.cur >= job.start
             /\ \A h \in hitsIn : h \in Visited <=> job.start <= h /\ h < job.cur
          \/ /\ job.cur <= job.start
             /\ \A h \in hitsIn : h \in Visited <=> job.start <= h \/ h < job.cur
      BY <1>1, <1>5 DEF Covered
    <2>3. ~(job.end > job.start)
      BY <1>1, <1>5
    <2>4. hits = IF job.end > job.cur THEN {h \in hitsIn : job.cur <= h /\ h < job.end}
                 ELSE IF \E h \in hitsIn : h >= job.cur THEN {h \in hitsIn : h >= job.cur}
                 ELSE hitsIn
      BY DEF FirstHits
    <2> HIDE DEF hits, low
    <2>5. Visited \subseteq hitsIn
      BY <1>1 DEF Covered
    <2>6. hits = {} => Visited = hitsIn
      <3>1. CASE job.end > job.cur
        <4> SUFFICES ASSUME hits = {}, NEW h \in hitsIn PROVE h \in Visited
          BY <2>5
        <4>1. h \in Nat /\ ~(job.cur <= h /\ h < job.end)
          BY <1>1, <2>4, <3>1
        <4> QED
          BY <1>1, <1>5, <2>2, <3>1, <4>1
      <3>2. CASE ~(job.end > job.cur)
        <4>1. hits = {} => hitsIn = {}
          BY <2>4, <3>2
        <4> QED
          BY <2>5, <4>1
      <3> QED
        BY <3>1, <3>2
    <2>7. hits # {} /\ low \in Visited => Visited = hitsIn
      <3> SUFFICES ASSUME hits # {}, low \in Visited, NEW h \in hitsIn PROVE h \in Visited
        BY <2>5
      <3>1. low \in hits /\ low \in Nat /\ h \in Nat /\ (h \in hits => low <= h)
        BY <1>1, <1>2, <1>3 DEF hits
      <3>2. CASE job.end > job.cur
        BY <1>1, <1>5, <2>2, <2>4, <3>1, <3>2
      <3>3. CASE ~(job.end > job.cur) /\ \E x \in hitsIn : x >= job.cur
        <4>1. low >= job.cur /\ (h >= job.cur => low <= h) /\ low \in hitsIn
          BY <1>2, <2>4, <3>1, <3>3
        <4>2. CASE job.cur >= job.start /\ \A x \in hitsIn :
                        x \in Visited <=> job.start <= x /\ x < job.cur
          <5>1. low < job.cur
            BY <4>1, <4>2
          <5> QED
            BY <1>1, <3>1, <4>1, <5>1
        <4>3. CASE \A x \in hitsIn : x \in Visited <=> job.start <= x \/ x < job.cur
          <5>1. job.start <= low \/ low < job.cur
            BY <4>1, <4>3
          <5>2. job.start <= h \/ h < job.cur
            BY <1>1, <3>1, <4>1, <5>1
          <5> QED
            BY <4>3, <5>2
        <4> QED
          BY <2>2, <4>2, <4>3
      <3>4. CASE ~(job.end > job.cur) /\ ~\E x \in hitsIn : x >= job.cur
        <4>1. low <= h /\ h < job.cur /\ low \in hitsIn
          BY <1>1, <1>2, <2>4, <3>1, <3>4
        <4>2. CASE job.cur >= job.start /\ \A x \in hitsIn :
                        x \in Visited <=> job.start <= x /\ x < job.cur
          <5>1. job.start <= low
            BY <4>1, <4>2
          <5>2. job.start <= h
            BY <1>1, <3>1, <4>1, <5>1
          <5> QED
            BY <4>1, <4>2, <5>2
        <4>3. CASE \A x \in hitsIn : x \in Visited <=> job.start <= x \/ x < job.cur
          BY <4>1, <4>3
        <4> QED
          BY <2>2, <4>2, <4>3
      <3> QED
        BY <3>2, <3>3, <3>4
    <2> QED
      BY <2>1, <2>3, <2>5, <2>6, <2>7 DEF hits, low
  <1> QED
    BY <1>1, <1>4, <1>5

\* One more match moves the cursor behind it and leaves no match between.
LEMMA SearchAdvances ==
  ASSUME SearchInv, job.pc = "search", job.patched = 0,
         job.end > job.start => job.cur < job.end,
         NEW low, FirstHits(job.cur, job.end) # {},
         low = Lowest(FirstHits(job.cur, job.end)), low \notin Visited,
         Visited' = Visited \cup {low}, job'.cur = low + 1, job'.end = job.end,
         job'.start = job.start, hitsIn' = hitsIn
  PROVE  Covered'
  <1>1. /\ job.start \in Nat /\ job.end \in Nat /\ job.cur \in Nat /\ job.start > 0
        /\ hitsIn \subseteq Nat /\ Covered
    BY SearchAssumption DEF SearchInv, JobTyped, CodeTyped, HuntInv
  <1> DEFINE hits == FirstHits(job.cur, job.end)
  <1>2. hits \subseteq hitsIn
    BY DEF FirstHits
  <1>3. low \in hits /\ (\A m \in hits : low <= m) /\ low \in hitsIn /\ low \in Nat
    BY <1>1, <1>2, LowestExists
  <1>4. ASSUME job.end > job.start
        PROVE  /\ job'.cur >= job.start
               /\ \A h \in hitsIn :
                     h \in Visited' <=> job.start <= h /\ h < job'.cur /\ h < job.end
    <2>1. /\ job.cur >= job.start
          /\ \A h \in hitsIn :
                h \in Visited <=> job.start <= h /\ h < job.cur /\ h < job.end
      BY <1>1, <1>4 DEF Covered
    <2>2. hits = {h \in hitsIn : job.cur <= h /\ h < job.end}
      BY <1>1, <1>4 DEF FirstHits
    <2> HIDE DEF hits
    <2>3. \A h \in hitsIn : h < low + 1 /\ h < job.end <=> h = low \/ (h < job.cur /\ h < job.end)
      BY <1>1, <1>3, <2>2
    <2> QED
      BY <1>1, <1>3, <2>1, <2>2, <2>3
  <1>5. ASSUME job.end = 0 \/ job.end = job.start
        PROVE  \/ /\ job'.cur >= job.start
                  /\ \A h \in hitsIn : h \in Visited' <=> job.start <= h /\ h < job'.cur
               \/ /\ job'.cur <= job.start
                  /\ \A h \in hitsIn : h \in Visited' <=> job.start <= h \/ h < job'.cur
    <2>1. hits = IF job.end > job.cur THEN {h \in hitsIn : job.cur <= h /\ h < job.end}
                 ELSE IF \E h \in hitsIn : h >= job.cur THEN {h \in hitsIn : h >= job.cur}
                 ELSE hitsIn
      BY DEF FirstHits
    <2> HIDE DEF hits
    <2>2. CASE job.cur >= job.start
               /\ \A h \in hitsIn : h \in Visited <=> job.start <= h /\ h < job.cur
      <3>1. ~(job.end > job.cur)
        BY <1>1, <1>5, <2>2
      <3>2. CASE \E h \in hitsIn : h >= job.cur
        <4>1. low >= job.cur /\ \A h \in hitsIn : h >= job.cur => low <= h
          BY <1>3, <2>1, <3>1, <3>2
        <4>2. \A h \in hitsIn : h < low + 1 <=> h = low \/ h < job.cur
          BY <1>1, <1>3, <4>1
        <4> QED
          BY <1>1, <1>3, <2>2, <4>1, <4>2
      <3>3. CASE ~\E h \in hitsIn : h >= job.cur
        <4>1. \A h \in hitsIn : low <= h /\ h < job.cur
          BY <1>1, <1>3, <2>1, <3>1, <3>3
        <4>2. low < job.start
          BY <1>1, <1>3, <2>2, <4>1
        <4>3. \A h \in hitsIn : h < low + 1 <=> h = low
          BY <1>1, <1>3, <4>1
        <4> QED
          BY <1>1, <1>3, <2>2, <4>1, <4>2, <4>3
      <3> QED
        BY <3>2, <3>3
    <2>3. CASE job.cur <= job.start
               /\ \A h \in hitsIn : h \in Visited <=> job.start <= h \/ h < job.cur
      <3>1. low < job.start /\ low >= job.cur
        BY <1>1, <1>3, <2>3
      <3>2. \A h \in hitsIn : h >= job.cur /\ h < job.start => low <= h
        BY <1>1, <1>3, <1>5, <2>1, <3>1
      <3>3. \A h \in hitsIn : h < job.start => (h < low + 1 <=> h = low \/ h < job.cur)
        BY <1>1, <1>3, <3>1, <3>2
      <3> QED
        BY <1>1, <1>3, <2>3, <3>1, <3>3
    <2> QED
      BY <1>1, <1>5, <2>2, <2>3 DEF Covered
  <1>6. Visited' \subseteq hitsIn'
    BY <1>1, <1>3 DEF Covered
  <1> QED
    BY <1>4, <1>5, <1>6 DEF Covered

LEMMA SearchKeeps ==
  ASSUME SearchInv, SearchStep
  PROVE  SearchInv'
  <1> DEFINE hits == FirstHits(job.cur, job.end)
             low == Lowest(hits)
             over == Len(job.found) >= job.max \/ (job.end > job.start /\ job.cur >= job.end)
  <1>1. /\ job.pc = "search" /\ hitsIn' = hitsIn /\ log' = log
        /\ job' = IF over \/ hits = {} \/ low \in Visited THEN SearchDone("ok")
                  ELSE [job EXCEPT !.found = Append(@, low), !.cur = low + 1]
    BY DEF SearchStep, Fixed, After
  <1>2. CodeTyped' /\ JobTyped
    BY <1>1 DEF SearchInv, CodeTyped
  <1>3. CASE over \/ hits = {} \/ low \in Visited
    <2>1. /\ job'.pc = "end" /\ job'.found = job.found /\ job'.start = job.start
          /\ job'.end = job.end /\ job'.max = job.max /\ job'.patched = job.patched
          /\ job'.cur = job.cur /\ job'.checks = job.checks /\ JobTyped' /\ job'.game = job.game
      BY <1>1, <1>2, <1>3 DEF SearchDone, JobTyped
    <2>2. Visited' = Visited
      BY <2>1 DEF Visited
    <2>3. WantedHits' = WantedHits
      BY <1>1, <2>1 DEF WantedHits
    <2>4. job.start > 0 /\ Cardinality(Visited) = Len(job.found) /\ job.start \in Nat
          /\ Len(job.found) \in Nat /\ job.max \in Int
          /\ job.end \in Nat /\ job.cur \in Nat
      BY <1>1, <1>2 DEF SearchInv, HuntInv, JobTyped
    <2>5. SearchFinds'
      <3> SUFFICES ASSUME job.patched = 0, job.end = 0 \/ job.end >= job.start
                   PROVE  /\ Visited \subseteq WantedHits
                          /\ Len(job.found) < job.max => Visited = WantedHits
        BY <2>1, <2>2, <2>3, <2>4 DEF SearchFinds, Searched
      <3> HIDE DEF hits, low
      <3> QED
        BY <1>1, <1>3, <2>4, SearchExhausted DEF hits, low
    <2>6. TruncationIsTold'
      BY <2>1, <2>4 DEF TruncationIsTold
    <2>7. HeadlineIsHonest'
      BY <1>1, <2>1 DEF HeadlineIsHonest, SearchInv, HuntInv
    <2> QED
      BY <1>2, <2>1, <2>5, <2>6, <2>7 DEF SearchInv, HuntInv, LogInv, HealthInv
  <1>4. CASE ~over /\ hits # {} /\ low \notin Visited
    <2>1. hits \subseteq hitsIn /\ hitsIn \subseteq Nat
      BY SearchAssumption DEF FirstHits, SearchInv, CodeTyped
    <2>2. low \in Nat
      BY <1>4, <2>1, LowestExists
    <2>3. job' = [job EXCEPT !.found = Append(job.found, low), !.cur = low + 1]
      BY <1>1, <1>4
    <2> HIDE DEF low
    <2>4. /\ job'.pc = "search" /\ job'.found = Append(job.found, low)
          /\ job'.start = job.start /\ job'.end = job.end /\ job'.max = job.max
          /\ job'.patched = job.patched /\ job'.cur = low + 1 /\ job'.checks = job.checks
          /\ job.found \in Seq(Nat)
      BY <1>1, <1>2, <2>3 DEF JobTyped
    <2>5. JobTyped'
      BY <1>2, <2>2, <2>3, <2>4 DEF JobTyped
    <2>6. Visited' = Visited \cup {low} /\ Len(job'.found) = Len(job.found) + 1
          /\ Len(job.found) \in Nat
      <3> DEFINE f == job.found
                 g == job'.found
      <3>1. f \in Seq(Nat) /\ g = Append(f, low)
        BY <2>4
      <3>2. Visited = {f[n] : n \in DOMAIN f} /\ Visited' = {g[n] : n \in DOMAIN g}
        BY DEF Visited
      <3> HIDE DEF f, g
      <3>3. /\ Len(Append(f, low)) = Len(f) + 1 /\ Len(f) \in Nat
            /\ {Append(f, low)[n] : n \in DOMAIN Append(f, low)}
                  = {f[n] : n \in DOMAIN f} \cup {low}
        BY <2>2, <3>1, OneMore
      <3>4. Visited' = Visited \cup {low} /\ Len(g) = Len(f) + 1
        BY <3>1, <3>2, <3>3
      <3> QED
        BY <3>3, <3>4 DEF f, g
    <2>7. IsFiniteSet(Visited) /\ Cardinality(Visited) = Len(job.found) /\ job.start > 0
          /\ job.checks = <<>>
      BY <1>1 DEF SearchInv, HuntInv
    <2>8. IsFiniteSet(Visited') /\ Cardinality(Visited') = Len(job'.found)
      BY <1>4, <2>6, <2>7, FS_AddElement
    <2>9. job.patched = 0 => Covered'
      <3>1. job.end > job.start => job.cur < job.end
        BY <1>2, <1>4 DEF JobTyped
      <3>2. FirstHits(job.cur, job.end) # {} /\ low = Lowest(FirstHits(job.cur, job.end))
        BY <1>4 DEF low
      <3> HIDE DEF hits
      <3> QED
        BY <1>1, <1>4, <2>4, <2>6, <3>1, <3>2, SearchAdvances
    <2>10. HuntInv'
      BY <2>2, <2>4, <2>7, <2>8, <2>9 DEF HuntInv
    <2> QED
      BY <1>2, <2>4, <2>5, <2>10 DEF SearchInv, LogInv, HealthInv, SearchFinds, Searched,
         TruncationIsTold, HeadlineIsHonest
  <1> QED
    BY <1>3, <1>4

\* The log grows behind the scan, which passes its lines in their order.
LEMMA LogKeeps ==
  ASSUME SearchInv, LogReads \/ LogEnds \/ LogGrows
  PROVE  SearchInv'
  <1>1. /\ job.pc = "log" /\ job.start = 0 /\ job.cur \in 1 .. Len(log) + 1 /\ job.checks = <<>>
        /\ Visited = {n \in 1 .. job.cur - 1 : Wanted(log[n])} /\ Rising(job.found)
        /\ JobTyped /\ CodeTyped /\ hitsIn' = hitsIn
    BY DEF LogReads, LogEnds, LogGrows, Fixed, SearchInv, LogInv
  <1>2. Len(log) \in Nat /\ job.cur \in Nat /\ job.cur >= 1 /\ job.cur <= Len(log) + 1
        /\ job.found \in Seq(Nat)
    BY <1>1 DEF CodeTyped, JobTyped
  <1>3. CASE LogReads
    <2>1. job.cur <= Len(log) /\ log' = log
      BY <1>3 DEF LogReads, Fixed
    <2>2. /\ job'.pc = "log" /\ job'.start = 0 /\ job'.cur = job.cur + 1 /\ job'.checks = <<>>
          /\ job'.filter = job.filter /\ job'.all = job.all /\ JobTyped'
          /\ job'.found = IF Wanted(log[job.cur]) THEN Append(job.found, job.cur) ELSE job.found
      <3>1. CASE Wanted(log[job.cur])
        <4>1. job' = [job EXCEPT !.cur = @ + 1, !.found = Append(job.found, job.cur),
                                 !.capped = Len(job.found) + 1 >= MatchCap]
          BY <1>3, <3>1 DEF LogReads
        <4>2. Append(job.found, job.cur) \in Seq(Nat) /\ job.cur + 1 \in Nat
          BY <1>2
        <4> QED
          BY <1>1, <3>1, <4>1, <4>2 DEF JobTyped
      <3>2. CASE ~Wanted(log[job.cur])
        <4>1. job' = [job EXCEPT !.cur = @ + 1]
          BY <1>3, <3>2 DEF LogReads
        <4>2. job.cur + 1 \in Nat
          BY <1>2
        <4> QED
          BY <1>1, <3>2, <4>1, <4>2 DEF JobTyped
      <3> QED
        BY <3>1, <3>2
    <2>3. \A n : Wanted(log[n])' <=> Wanted(log[n])
      BY <2>1, <2>2 DEF Wanted
    <2>4. job'.cur - 1 = job.cur /\ 1 .. job.cur = (1 .. job.cur - 1) \cup {job.cur}
      BY <1>2, <2>2
    <2>5. Visited' = {n \in 1 .. job.cur : Wanted(log[n])} /\ Rising(job'.found)
      <3>1. CASE Wanted(log[job.cur])
        <4>1. Visited' = Visited \cup {job.cur}
          <5>1. job'.found = Append(job.found, job.cur)
            BY <2>2, <3>1
          <5>2. {Append(job.found, job.cur)[n] : n \in DOMAIN Append(job.found, job.cur)}
                   = {job.found[n] : n \in DOMAIN job.found} \cup {job.cur}
            BY <1>2, OneMore
          <5> QED
            BY <5>1, <5>2, Zenon DEF Visited
        <4>2. \A n \in DOMAIN job.found : job.found[n] < job.cur
          <5>1. \A n \in DOMAIN job.found : job.found[n] \in 1 .. job.cur - 1
            BY <1>1 DEF Visited
          <5> QED
            BY <1>2, <5>1
        <4>3. Rising(job'.found)
          BY <1>1, <1>2, <2>2, <3>1, <4>2, OneMore
        <4> QED
          BY <1>1, <2>4, <3>1, <4>1, <4>3
      <3>2. CASE ~Wanted(log[job.cur])
        <4>1. Visited' = Visited /\ Rising(job'.found)
          BY <1>1, <2>2, <3>2 DEF Visited
        <4> QED
          BY <1>1, <2>4, <3>2, <4>1
      <3> QED
        BY <3>1, <3>2
    <2>6. LogInv'
      <3>1. job'.cur \in 1 .. Len(log') + 1
        BY <1>2, <2>1, <2>2
      <3>2. Visited' = {n \in 1 .. job'.cur - 1 : Wanted(log[n])'}
        BY <2>3, <2>4, <2>5
      <3> QED
        BY <2>2, <2>5, <3>1, <3>2 DEF LogInv
    <2>7. CodeTyped'
      BY <1>1, <2>1 DEF CodeTyped
    <2> QED
      BY <2>2, <2>6, <2>7 DEF SearchInv, HuntInv, HealthInv, SearchFinds, Searched,
         TruncationIsTold, HeadlineIsHonest
  <1>4. CASE LogEnds
    <2> DEFINE shown == IF job.max > 0 /\ Len(job.found) > job.max
                        THEN SubSeq(job.found, 1, job.max) ELSE job.found
    <2>1. /\ job.capped \/ job.cur > Len(log)
          /\ log' = log
          /\ job' = [job EXCEPT !.pc = "end", !.total = Len(job.found), !.found = shown,
                                !.res = IF Cut THEN "truncated" ELSE "ok"]
      BY <1>4 DEF LogEnds, Fixed
    <2>2. shown \in Seq(Nat)
      <3>1. job.max \in Int
        BY <1>1 DEF JobTyped
      <3>2. job.max > 0 /\ Len(job.found) > job.max => SubSeq(job.found, 1, job.max) \in Seq(Nat)
        BY <1>2, <3>1
      <3> QED
        BY <1>2, <3>2
    <2> HIDE DEF shown
    <2>3. /\ job'.pc = "end" /\ job'.start = 0 /\ job'.cur = job.cur /\ job'.checks = <<>>
          /\ job'.filter = job.filter /\ job'.all = job.all /\ job'.found = shown
          /\ job'.res = IF Cut THEN "truncated" ELSE "ok"
      BY <1>1, <2>1 DEF JobTyped
    <2>4. JobTyped' /\ CodeTyped'
      <3>1. CodeTyped'
        BY <1>1, <2>1 DEF CodeTyped
      <3>2. JobTyped'
        BY <1>1, <2>1, <2>2 DEF JobTyped
      <3> QED
        BY <3>1, <3>2
    <2>5. TruncationIsTold'
      <3> SUFFICES ASSUME job'.res = "ok"
                   PROVE  /\ job'.cur > Len(log')
                          /\ Visited' = {n \in 1 .. Len(log') : Wanted(log[n])'}
                          /\ Rising(job'.found)
        BY DEF TruncationIsTold, Rising
      <3>1. ~Cut
        BY <2>3
      <3>2. job'.found = job.found /\ job.cur > Len(log)
        BY <2>1, <2>3, <3>1 DEF Cut, shown
      <3>3. job.cur - 1 = Len(log)
        BY <1>2, <3>2
      <3>4. \A n : Wanted(log[n])' <=> Wanted(log[n])
        BY <2>1, <2>3 DEF Wanted
      <3>5. Visited' = Visited
        BY <3>2 DEF Visited
      <3> QED
        BY <1>1, <2>1, <2>3, <3>2, <3>3, <3>4, <3>5
    <2> QED
      BY <2>3, <2>4, <2>5 DEF SearchInv, HuntInv, LogInv, HealthInv, SearchFinds, Searched,
         HeadlineIsHonest
  <1>5. CASE LogGrows
    <2>1. PICK line \in LogLines : log' = Append(log, line)
      BY <1>5 DEF LogGrows
    <2>2. job' = job
      BY <1>5 DEF LogGrows
    <2>3. log' \in Seq(LogLines) /\ Len(log') = Len(log) + 1
          /\ \A n \in 1 .. Len(log) : log'[n] = log[n]
      BY <1>1, <2>1 DEF CodeTyped
    <2>4. JobTyped' /\ CodeTyped'
      BY <1>1, <2>2, <2>3 DEF JobTyped, CodeTyped
    <2>5. \A n \in 1 .. job.cur - 1 : Wanted(log[n])' <=> Wanted(log[n])
      <3> SUFFICES ASSUME NEW n \in 1 .. job.cur - 1 PROVE Wanted(log[n])' <=> Wanted(log[n])
        OBVIOUS
      <3>1. n \in 1 .. Len(log)
        BY <1>2
      <3>2. log'[n] = log[n]
        BY <2>3, <3>1
      <3> QED
        BY <2>2, <3>2 DEF Wanted
    <2>6. job'.cur \in 1 .. Len(log') + 1
      BY <1>2, <2>2, <2>3
    <2>7. Visited' = {n \in 1 .. job'.cur - 1 : Wanted(log[n])'} /\ Rising(job'.found)
      BY <1>1, <2>2, <2>5 DEF Visited
    <2>8. LogInv'
      BY <1>1, <2>2, <2>6, <2>7 DEF LogInv
    <2> QED
      BY <1>1, <2>2, <2>4, <2>8 DEF SearchInv, HuntInv, HealthInv, SearchFinds, Searched,
         TruncationIsTold, HeadlineIsHonest
  <1> QED
    BY <1>3, <1>4, <1>5

\* A battery that passes to its end has asked a game that runs.
LEMMA HealthKeeps ==
  ASSUME SearchInv, HealthCheck \/ HealthBreaks \/ HealthEnds
  PROVE  SearchInv'
  <1>1. /\ job.pc = "health" /\ job.start = 0 /\ job.cur \in 1 .. 5
        /\ job.cur = 1 <=> job.checks = <<>>
        /\ AllPassed => Len(job.checks) = job.cur - 1
        /\ AllPassed /\ job.cur > 2 => job.game = "running"
        /\ JobTyped /\ CodeTyped
    BY DEF HealthCheck, HealthBreaks, HealthEnds, SearchInv, HealthInv
  <1>2. CodeTyped'
    BY <1>1 DEF HealthCheck, HealthBreaks, HealthEnds, Fixed, CodeTyped
  <1>3. Len(Battery) = 4 /\ Battery[1] = "iso_loaded" /\ Battery[2] = "cpu_running"
        /\ Battery[3] = "ws_connected" /\ Battery[4] = "game_mode_valid"
    BY DEF Battery
  <1>4. job.checks \in Seq(BOOLEAN) /\ job.cur \in Nat /\ Len(job.checks) \in Nat
    BY <1>1 DEF JobTyped
  <1>5. ASSUME NEW v \in BOOLEAN
        PROVE  /\ Append(job.checks, v) \in Seq(BOOLEAN) /\ Append(job.checks, v) # <<>>
               /\ Len(Append(job.checks, v)) = Len(job.checks) + 1
               /\ (\A n \in DOMAIN Append(job.checks, v) : Append(job.checks, v)[n]) =>
                     v /\ \A n \in DOMAIN job.checks : job.checks[n]
    <2>1. /\ Append(job.checks, v) \in Seq(BOOLEAN)
          /\ Len(Append(job.checks, v)) = Len(job.checks) + 1
          /\ DOMAIN Append(job.checks, v) = 1 .. Len(job.checks) + 1
          /\ DOMAIN job.checks = 1 .. Len(job.checks)
          /\ Append(job.checks, v)[Len(job.checks) + 1] = v
          /\ \A n \in 1 .. Len(job.checks) : Append(job.checks, v)[n] = job.checks[n]
      BY <1>4
    <2>2. Len(job.checks) + 1 \in 1 .. Len(job.checks) + 1
          /\ \A n \in 1 .. Len(job.checks) : n \in 1 .. Len(job.checks) + 1
      BY <1>4
    <2>3. Append(job.checks, v) # <<>>
      <3>1. \A q : q = <<>> => Len(q) = 0
        OBVIOUS
      <3>2. Len(Append(job.checks, v)) # 0
        BY <1>4, <2>1
      <3> QED
        BY <3>1, <3>2, Zenon
    <2> QED
      BY <2>1, <2>2, <2>3
  <1>6. CASE HealthCheck
    <2>1. job.cur \in 1 .. 4
      BY <1>1, <1>3, <1>6 DEF HealthCheck
    <2> DEFINE Moves(v, g) ==
                 /\ DOMAIN job' = DOMAIN job /\ job'.pc = job.pc /\ job'.start = job.start
                 /\ job'.end = job.end /\ job'.max = job.max /\ job'.patched = job.patched
                 /\ job'.found = job.found /\ job'.checks = Append(job.checks, v)
                 /\ job'.cur = job.cur + 1 /\ job'.game = g
    <2>2. \E v \in BOOLEAN : \E g :
             /\ Moves(v, g)
             /\ job.cur = 2 => (v => g = "running")
             /\ job.cur > 2 => g = job.game
      <3>1. CASE job.cur = 3
        <4>1. job' = [job EXCEPT !.checks = Append(@, TRUE), !.cur = @ + 1]
          BY <1>3, <1>6, <3>1 DEF HealthCheck, Verdict
        <4>2. Moves(TRUE, job.game)
          BY <1>1, <4>1 DEF JobTyped
        <4>3. job.cur # 2
          BY <3>1
        <4> HIDE DEF Moves
        <4> QED
          BY <4>2, <4>3, Zenon
      <3>2. CASE job.cur = 4
        <4>1. PICK v \in BOOLEAN : job' = Verdict(v)
          BY <1>3, <1>6, <3>2 DEF HealthCheck
        <4>2. job' = [job EXCEPT !.checks = Append(@, v), !.cur = @ + 1]
          BY <4>1 DEF Verdict
        <4>3. Moves(v, job.game)
          BY <1>1, <4>2 DEF JobTyped
        <4> HIDE DEF Moves
        <4> QED
          BY <3>2, <4>3
      <3>3. CASE job.cur = 1
        <4>1. PICK g : job' = [Verdict(g \in {"paused", "running"}) EXCEPT !.game = g]
          BY <1>3, <1>6, <3>3 DEF HealthCheck
        <4> DEFINE v == g \in {"paused", "running"}
        <4>2. v \in BOOLEAN
          OBVIOUS
        <4>3. job' = [[job EXCEPT !.checks = Append(@, v), !.cur = @ + 1] EXCEPT !.game = g]
          BY <4>1 DEF Verdict
        <4> HIDE DEF v
        <4>4. Moves(v, g)
          BY <1>1, <4>3 DEF JobTyped
        <4>5. job.cur # 2 /\ ~(job.cur > 2)
          BY <3>3
        <4> HIDE DEF Moves
        <4> QED
          BY <4>2, <4>4, <4>5, Zenon
      <3>4. CASE job.cur = 2
        <4>1. PICK g : job' = [Verdict(g = "running") EXCEPT !.game = g]
          BY <1>3, <1>6, <3>4 DEF HealthCheck
        <4> DEFINE v == g = "running"
        <4>2. v \in BOOLEAN /\ (v => g = "running")
          OBVIOUS
        <4>3. job' = [[job EXCEPT !.checks = Append(@, v), !.cur = @ + 1] EXCEPT !.game = g]
          BY <4>1 DEF Verdict
        <4> HIDE DEF v
        <4>4. Moves(v, g)
          BY <1>1, <4>3 DEF JobTyped
        <4> HIDE DEF Moves
        <4> QED
          BY <3>4, <4>2, <4>4
      <3> QED
        BY <2>1, <3>1, <3>2, <3>3, <3>4
    <2>3. PICK v \in BOOLEAN, g \in {job'.game} :
             /\ job'.pc = "health" /\ job'.start = 0 /\ job'.cur = job.cur + 1
             /\ job'.checks = Append(job.checks, v) /\ job'.game = g /\ JobTyped'
             /\ job.cur = 2 => (v => g = "running")
             /\ job.cur > 2 => g = job.game
      BY <1>1, <1>4, <1>5, <2>2 DEF JobTyped
    <2>4. AllPassed' => v /\ Len(job'.checks) = Len(job.checks) + 1
                        /\ \A n \in DOMAIN job.checks : job.checks[n]
      BY <1>5, <2>3 DEF AllPassed
    <2>5. AllPassed' => Len(job'.checks) = job'.cur - 1
                        /\ (job'.cur > 2 => job'.game = "running")
      <3>1. CASE job.checks = <<>>
        <4>1. job.cur = 1 /\ Len(job.checks) = 0
          BY <1>1, <3>1
        <4> QED
          BY <2>3, <2>4, <4>1
      <3>2. CASE job.checks # <<>>
        <4>1. AllPassed' => AllPassed
          BY <2>4, <3>2 DEF AllPassed
        <4>2. AllPassed' => Len(job'.checks) = job'.cur - 1
          BY <1>1, <1>4, <2>3, <2>4, <4>1
        <4>3. job.cur > 1
          BY <1>1, <1>4, <3>2
        <4>4. AllPassed' => job'.game = "running"
          <5>1. CASE job.cur = 2
            BY <2>3, <2>4, <5>1
          <5>2. CASE job.cur > 2
            BY <1>1, <2>3, <4>1, <5>2
          <5> QED
            BY <1>4, <4>3, <5>1, <5>2
        <4> QED
          BY <4>2, <4>4
      <3> QED
        BY <3>1, <3>2
    <2>6. job'.cur \in 1 .. 5 /\ job'.cur # 1 /\ job'.checks # <<>>
      BY <1>5, <2>1, <2>3
    <2>7. HealthInv'
      BY <2>3, <2>5, <2>6 DEF HealthInv
    <2> QED
      BY <1>2, <2>3, <2>7 DEF SearchInv, HuntInv, LogInv, SearchFinds, Searched,
         TruncationIsTold, HeadlineIsHonest
  <1>7. CASE HealthBreaks
    <2>1. job' = [[job EXCEPT !.checks = Append(@, FALSE), !.cur = @ + 1] EXCEPT !.cur = 5]
      BY <1>3, <1>7 DEF HealthBreaks, Verdict
    <2>2. /\ DOMAIN job' = DOMAIN job /\ job'.pc = job.pc /\ job'.start = job.start
          /\ job'.end = job.end /\ job'.max = job.max /\ job'.patched = job.patched
          /\ job'.found = job.found /\ job'.checks = Append(job.checks, FALSE) /\ job'.cur = 5
      BY <1>1, <2>1 DEF JobTyped
    <2>5. JobTyped'
      BY <1>1, <1>5, <2>2 DEF JobTyped
    <2>3. ~AllPassed' /\ job'.checks # <<>>
      BY <1>5, <2>2 DEF AllPassed
    <2>4. HealthInv'
      <3>1. job'.cur \in 1 .. 5 /\ job'.cur # 1 /\ job'.start = 0
        BY <1>1, <2>2
      <3> QED
        BY <2>3, <3>1, Zenon DEF HealthInv
    <2> QED
      BY <1>1, <1>2, <2>2, <2>4, <2>5 DEF SearchInv, HuntInv, LogInv, SearchFinds, Searched,
         TruncationIsTold, HeadlineIsHonest
  <1>8. CASE HealthEnds
    <2>1. job.cur = 5 /\ job' = [job EXCEPT !.pc = "end", !.res = Headline]
      BY <1>1, <1>3, <1>8 DEF HealthEnds, SearchDone
    <2>2. /\ job'.pc = "end" /\ job'.start = 0 /\ job'.checks = job.checks
          /\ job'.game = job.game /\ job'.res = Headline /\ JobTyped'
      BY <1>1, <2>1 DEF JobTyped
    <2>3. job'.checks # <<>> /\ (AllPassed' <=> AllPassed)
      BY <1>1, <2>1, <2>2 DEF AllPassed
    <2>4. HeadlineIsHonest'
      <3>1. job'.res = "ok" => AllPassed
        BY <2>2 DEF Headline
      <3> QED
        BY <1>1, <1>3, <2>1, <2>2, <2>3, <3>1 DEF HeadlineIsHonest, Battery
    <2> QED
      BY <1>2, <2>2, <2>3, <2>4 DEF SearchInv, HuntInv, LogInv, HealthInv, SearchFinds, Searched,
         TruncationIsTold
  <1> QED
    BY <1>6, <1>7, <1>8

\* A patch during a search frees its report from what the code held.
LEMMA CodeChangesKeep ==
  ASSUME SearchInv, CodeChanges
  PROVE  SearchInv'
  <1>1. PICK c \in SUBSET (1 .. CodeTop) : hitsIn' = c
    BY DEF CodeChanges
  <1>2. /\ job.pc = "search" /\ log' = log /\ job' = [job EXCEPT !.patched = @ + 1]
        /\ JobTyped /\ CodeTyped /\ job.start > 0 /\ job.cur > 0 /\ job.checks = <<>>
        /\ IsFiniteSet(Visited) /\ Cardinality(Visited) = Len(job.found)
        /\ job.patched \in Nat
    BY SMT DEF CodeChanges, SearchInv, HuntInv, JobTyped
  <1>3. /\ job'.pc = "search" /\ job'.start = job.start /\ job'.cur = job.cur
        /\ job'.checks = <<>> /\ job'.found = job.found /\ job'.patched = job.patched + 1
        /\ JobTyped'
    <2>1. job.patched + 1 \in Nat /\ "patched" \in DOMAIN job
      BY <1>2 DEF JobTyped
    <2>2. /\ DOMAIN job' = DOMAIN job /\ job'.pc = job.pc /\ job'.start = job.start
          /\ job'.end = job.end /\ job'.max = job.max /\ job'.patched = job.patched + 1
          /\ job'.found = job.found /\ job'.checks = job.checks /\ job'.cur = job.cur
      BY <1>2, <2>1 DEF JobTyped
    <2> QED
      BY <1>2, <2>1, <2>2 DEF JobTyped
  <1>4. CodeTyped'
    BY <1>1, <1>2 DEF CodeTyped
  <1>5. Visited' = Visited /\ job'.patched # 0
    BY <1>2, <1>3 DEF Visited
  <1> QED
    BY <1>2, <1>3, <1>4, <1>5 DEF SearchInv, HuntInv, LogInv, HealthInv, SearchFinds, Searched,
       TruncationIsTold, HeadlineIsHonest

LEMMA SearchKept ==
  ASSUME SearchInv, [SearchNext]_searchVars
  PROVE  SearchInv'
  <1>1. CASE SearchArrives \/ LogArrives \/ HealthArrives
    BY <1>1, ArrivalsKeep
  <1>2. CASE SearchStep
    BY <1>2, SearchKeeps
  <1>3. CASE LogReads \/ LogEnds \/ LogGrows
    BY <1>3, LogKeeps
  <1>4. CASE HealthCheck \/ HealthBreaks \/ HealthEnds
    BY <1>4, HealthKeeps
  <1>5. CASE CodeChanges
    BY <1>5, CodeChangesKeep
  <1>6. CASE UNCHANGED searchVars
    <2>1. hitsIn' = hitsIn /\ log' = log /\ job' = job
      BY <1>6 DEF searchVars
    <2>2. Visited' = Visited /\ WantedHits' = WantedHits /\ AllPassed' = AllPassed
          /\ Rising(job'.found) = Rising(job.found)
      BY <2>1 DEF Visited, WantedHits, AllPassed
    <2>3. \A n : Wanted(log[n])' = Wanted(log[n])
      BY <2>1 DEF Wanted
    <2>4. JobTyped' /\ CodeTyped' /\ HuntInv'
      BY <2>1, <2>2 DEF SearchInv, JobTyped, CodeTyped, HuntInv, Covered
    <2>5. LogInv' /\ HealthInv'
      BY <2>1, <2>2, <2>3 DEF SearchInv, LogInv, HealthInv
    <2>6. SearchFinds' /\ HeadlineIsHonest'
      BY <2>1, <2>2 DEF SearchInv, SearchFinds, Searched, HeadlineIsHonest
    <2>7. TruncationIsTold'
      BY <2>1, <2>2, <2>3 DEF SearchInv, TruncationIsTold
    <2> QED
      BY <2>4, <2>5, <2>6, <2>7 DEF SearchInv
  <1> QED
    BY <1>1, <1>2, <1>3, <1>4, <1>5, <1>6 DEF SearchNext

(* What search_disasm lists is every match of its range or of all the code,  *)
(* what analyze_log calls untruncated is every wanted line of the log as it  *)
(* ended, and health says ok only of a battery that passed against a running *)
(* game: for any code, log, limits and argument values.                      *)
THEOREM SearchCorrect == SearchSpec => []ReportsAreComplete
  <1>1. SearchInv => ReportsAreComplete
    BY DEF SearchInv, ReportsAreComplete
  <1> QED
    BY <1>1, SearchInitial, SearchKept, PTL DEF SearchSpec

-----------------------------------------------------------------------------
(* What a scan reports: addresses in ascending order *)

\* Of two addresses the lower one has fewer below it.
LEMMA RankLess ==
  ASSUME NEW S \in SUBSET Nat, IsFiniteSet(S), NEW a \in S, NEW b \in S, a < b
  PROVE  Rank(a, S) \in Nat /\ Rank(b, S) \in Nat /\ Rank(a, S) < Rank(b, S)
  <1> DEFINE A == {c \in S : c < a}
             B == {c \in S : c < b}
  <1>1. a \in Nat /\ b \in Nat /\ \A c \in S : c \in Nat
    OBVIOUS
  <1>2. A \in SUBSET B /\ a \in B /\ a \notin A /\ B \in SUBSET S
    <2>1. \A c \in A : c \in B
      BY <1>1
    <2>2. a \in B /\ a \notin A
      BY <1>1
    <2> QED
      BY <2>1, <2>2
  <1> HIDE DEF A, B
  <1>3. IsFiniteSet(B)
    BY <1>2, FS_Subset
  <1>4. IsFiniteSet(A) /\ Cardinality(A) <= Cardinality(B) /\ Cardinality(A) # Cardinality(B)
    BY <1>2, <1>3, FS_Subset
  <1>5. Cardinality(A) \in Nat /\ Cardinality(B) \in Nat
    BY <1>3, <1>4, FS_CardinalityType
  <1> QED
    BY <1>4, <1>5 DEF Rank, A, B

LEMMA RankRange ==
  ASSUME NEW S \in SUBSET Nat, IsFiniteSet(S), NEW a \in S
  PROVE  Cardinality(S) \in Nat /\ Rank(a, S) \in 0 .. Cardinality(S) - 1
  <1> DEFINE A == {c \in S : c < a}
  <1>1. A \in SUBSET S /\ a \notin A /\ A # S
    OBVIOUS
  <1> HIDE DEF A
  <1>2. IsFiniteSet(A) /\ Cardinality(A) <= Cardinality(S) /\ Cardinality(A) # Cardinality(S)
    BY <1>1, FS_Subset
  <1>3. Cardinality(A) \in Nat /\ Cardinality(S) \in Nat
    BY <1>2, FS_CardinalityType
  <1> QED
    BY <1>2, <1>3 DEF Rank, A

\* Every rank below the number of addresses is taken, by one of them.
LEMMA RankTaken ==
  ASSUME NEW S \in SUBSET Nat, IsFiniteSet(S), NEW k \in 0 .. Cardinality(S) - 1
  PROVE  \E a \in S : Rank(a, S) = k
  <1> DEFINE n == Cardinality(S)
             r == [a \in S |-> Rank(a, S)]
  <1>1. n \in Nat
    BY FS_CardinalityType
  <1> HIDE DEF n
  <1>2. \A a \in S : Rank(a, S) \in 0 .. n - 1
    BY RankRange DEF n
  <1>3. \A a, b \in S : Rank(a, S) = Rank(b, S) => a = b
    <2> SUFFICES ASSUME NEW a \in S, NEW b \in S, Rank(a, S) = Rank(b, S), a # b PROVE FALSE
      OBVIOUS
    <2>1. a < b \/ b < a
      OBVIOUS
    <2>2. CASE a < b
      BY <2>2, RankLess
    <2>3. CASE b < a
      BY <2>3, RankLess
    <2> QED
      BY <2>1, <2>2, <2>3
  <1>4. r \in Injection(S, 0 .. n - 1)
    <2>1. r \in [S -> 0 .. n - 1] /\ \A a \in S : r[a] = Rank(a, S)
      BY <1>2
    <2> HIDE DEF r
    <2>2. \A a, b \in S : r[a] = r[b] => a = b
      BY <1>3, <2>1
    <2> QED
      BY <2>1, <2>2 DEF Injection, IsInjective
  <1>5. IsFiniteSet(0 .. n - 1) /\ Cardinality(0 .. n - 1) = n
    BY <1>1, FS_Interval
  <1> HIDE DEF r
  <1>6. r \in Surjection(S, 0 .. n - 1)
    BY <1>4, <1>5, FS_Injection DEF n
  <1> QED
    BY <1>6 DEF Surjection, r, n

LEMMA AscendingIs ==
  ASSUME NEW S \in SUBSET Nat, IsFiniteSet(S)
  PROVE  /\ Ascending(S) \in Seq(S) /\ Ascending(S) \in Seq(Nat)
         /\ Len(Ascending(S)) = Cardinality(S) /\ Cardinality(S) \in Nat
         /\ DOMAIN Ascending(S) = 1 .. Cardinality(S)
         /\ Rising(Ascending(S)) /\ ToSet(Ascending(S)) = S
         /\ \A i \in 1 .. Cardinality(S) : Rank(Ascending(S)[i], S) = i - 1
  <1> DEFINE n == Cardinality(S)
             f == Ascending(S)
  <1>1. n \in Nat
    BY FS_CardinalityType
  <1>2. f = [i \in 1 .. n |-> CHOOSE a \in S : Rank(a, S) = i - 1]
    BY DEF Ascending
  <1> HIDE DEF n, f
  <1>3. \A i \in 1 .. n : f[i] \in S /\ Rank(f[i], S) = i - 1
    <2> SUFFICES ASSUME NEW i \in 1 .. n
                 PROVE  f[i] \in S /\ Rank(f[i], S) = i - 1
      OBVIOUS
    <2>1. i - 1 \in 0 .. n - 1
      BY <1>1
    <2>2. \E a \in S : Rank(a, S) = i - 1
      BY <2>1, RankTaken DEF n
    <2> QED
      BY <1>2, <2>2
  <1>4. f \in [1 .. n -> S]
    BY <1>2, <1>3
  <1>5. f \in Seq(S) /\ f \in Seq(Nat) /\ Len(f) = n /\ DOMAIN f = 1 .. n
    <2>1. f \in [1 .. n -> Nat] /\ DOMAIN f = 1 .. n
      BY <1>4
    <2>2. f \in Seq(S)
      BY <1>1, <1>4
    <2>3. f \in Seq(Nat)
      BY <1>1, <2>1
    <2> QED
      BY <1>1, <2>1, <2>2, <2>3
  <1>6. Rising(f)
    <2> SUFFICES ASSUME NEW i \in 1 .. n, NEW j \in 1 .. n, i < j PROVE f[i] < f[j]
      BY <1>5 DEF Rising
    <2>1. f[i] \in S /\ f[j] \in S /\ Rank(f[i], S) = i - 1 /\ Rank(f[j], S) = j - 1
      BY <1>3
    <2>2. f[i] # f[j]
      BY <1>1, <2>1
    <2>3. ~(f[j] < f[i])
      <3>1. f[j] < f[i] => Rank(f[j], S) < Rank(f[i], S)
        BY <2>1, RankLess
      <3> QED
        BY <1>1, <2>1, <3>1
    <2>4. f[i] \in Nat /\ f[j] \in Nat
      BY <2>1
    <2> QED
      BY <2>2, <2>3, <2>4
  <1>7. ToSet(f) = S
    <2>1. \A a \in S : \E i \in 1 .. n : f[i] = a
      <3> SUFFICES ASSUME NEW a \in S PROVE \E i \in 1 .. n : f[i] = a
        OBVIOUS
      <3> DEFINE i == Rank(a, S) + 1
      <3>1. i \in 1 .. n /\ i - 1 = Rank(a, S)
        BY <1>1, RankRange DEF n
      <3> HIDE DEF i
      <3>2. f[i] \in S /\ Rank(f[i], S) = Rank(a, S)
        BY <1>3, <3>1
      <3>3. ~(f[i] < a) /\ ~(a < f[i])
        <4>1. f[i] < a => Rank(f[i], S) < Rank(a, S) /\ Rank(a, S) \in Nat
          BY <3>2, RankLess
        <4>2. a < f[i] => Rank(a, S) < Rank(f[i], S) /\ Rank(a, S) \in Nat
          BY <3>2, RankLess
        <4> QED
          BY <3>2, <4>1, <4>2
      <3>4. f[i] \in Nat /\ a \in Nat
        BY <3>2
      <3> QED
        BY <3>1, <3>3, <3>4
    <2> QED
      BY <1>3, <1>5, <2>1 DEF ToSet
  <1> QED
    BY <1>1, <1>3, <1>5, <1>6, <1>7 DEF n, f

\* A list of addresses that rises is the ascending list of its members.
LEMMA RisingIsAscending ==
  ASSUME NEW f \in Seq(Nat), Rising(f)
  PROVE  IsFiniteSet(ToSet(f)) /\ ToSet(f) \in SUBSET Nat /\ f = Ascending(ToSet(f))
  <1> DEFINE n == Len(f)
             S == ToSet(f)
  <1>1. n \in Nat /\ DOMAIN f = 1 .. n /\ f \in [1 .. n -> Nat] /\ \A i \in 1 .. n : f[i] \in Nat
    OBVIOUS
  <1>2. S = {f[i] : i \in 1 .. n} /\ S \in SUBSET Nat
    BY <1>1 DEF ToSet
  <1>3. \A i, j \in 1 .. n : i < j => f[i] < f[j]
    BY <1>1 DEF Rising
  <1> HIDE DEF n, S
  <1>4. \A i, j \in 1 .. n : f[i] = f[j] => i = j
    <2> SUFFICES ASSUME NEW i \in 1 .. n, NEW j \in 1 .. n, f[i] = f[j], i # j PROVE FALSE
      OBVIOUS
    <2>1. f[i] \in Nat /\ f[j] \in Nat /\ (i < j \/ j < i)
      BY <1>1
    <2> QED
      BY <1>3, <2>1
  <1>5. f \in Bijection(1 .. n, S)
    <2>1. f \in [1 .. n -> S]
      BY <1>1, <1>2
    <2>2. \A t \in S : \E i \in 1 .. n : f[i] = t
      BY <1>2
    <2>3. f \in Injection(1 .. n, S)
      BY <1>4, <2>1 DEF Injection, IsInjective
    <2>4. f \in Surjection(1 .. n, S)
      BY <2>1, <2>2 DEF Surjection
    <2> QED
      BY <2>3, <2>4 DEF Bijection
  <1>6. IsFiniteSet(1 .. n) /\ Cardinality(1 .. n) = n
    BY <1>1, FS_Interval
  <1>7. IsFiniteSet(S) /\ Cardinality(S) = n
    BY <1>5, <1>6, FS_Bijection DEF ExistsBijection
  <1>8. \A i \in 1 .. n : Rank(f[i], S) = i - 1
    <2> SUFFICES ASSUME NEW i \in 1 .. n PROVE Rank(f[i], S) = i - 1
      OBVIOUS
    <2> DEFINE B == {b \in S : b < f[i]}
               g == [k \in 1 .. i - 1 |-> f[k]]
    <2>1. \A k \in 1 .. n : f[k] < f[i] <=> k < i
      <3> SUFFICES ASSUME NEW k \in 1 .. n PROVE f[k] < f[i] <=> k < i
        OBVIOUS
      <3>1. f[k] \in Nat /\ f[i] \in Nat /\ (k < i \/ k = i \/ i < k)
        BY <1>1
      <3> QED
        BY <1>1, <1>3, <3>1
    <2>2. B = {f[k] : k \in 1 .. i - 1}
      BY <1>1, <1>2, <2>1
    <2>3. \A k \in 1 .. i - 1 : k \in 1 .. n
      BY <1>1
    <2> HIDE DEF B
    <2>4. g \in Bijection(1 .. i - 1, B)
      <3>1. g \in [1 .. i - 1 -> B] /\ \A k \in 1 .. i - 1 : g[k] = f[k]
        BY <2>2
      <3>2. \A b \in B : \E k \in 1 .. i - 1 : f[k] = b
        BY <2>2
      <3> HIDE DEF g
      <3>3. g \in Injection(1 .. i - 1, B)
        <4>1. \A k, l \in 1 .. i - 1 : g[k] = g[l] => k = l
          BY <1>4, <2>3, <3>1
        <4> QED
          BY <3>1, <4>1 DEF Injection, IsInjective
      <3>4. g \in Surjection(1 .. i - 1, B)
        BY <3>1, <3>2 DEF Surjection
      <3> QED
        BY <3>3, <3>4 DEF Bijection
    <2> HIDE DEF g
    <2>5. IsFiniteSet(1 .. i - 1) /\ Cardinality(1 .. i - 1) = i - 1
      BY <1>1, FS_Interval
    <2>6. Cardinality(B) = i - 1
      BY <2>4, <2>5, FS_Bijection DEF ExistsBijection
    <2> QED
      BY <2>6 DEF Rank, B
  <1> DEFINE h == Ascending(S)
  <1>9. /\ h \in Seq(Nat) /\ Len(h) = n
        /\ \A i \in 1 .. n : h[i] \in S /\ Rank(h[i], S) = i - 1
    <2>1. /\ h \in Seq(S) /\ h \in Seq(Nat) /\ Len(h) = n
          /\ \A i \in 1 .. n : Rank(h[i], S) = i - 1
      BY <1>2, <1>7, AscendingIs
    <2> HIDE DEF h
    <2> QED
      BY <2>1, ElementOfSeq
  <1> HIDE DEF h
  <1>10. \A i \in 1 .. n : f[i] = h[i]
    <2> SUFFICES ASSUME NEW i \in 1 .. n PROVE f[i] = h[i]
      OBVIOUS
    <2>1. f[i] \in S /\ h[i] \in S /\ Rank(f[i], S) = i - 1 /\ Rank(h[i], S) = i - 1
      BY <1>2, <1>8, <1>9
    <2>2. ~(f[i] < h[i])
      <3>1. f[i] < h[i] => Rank(f[i], S) \in Nat /\ Rank(f[i], S) < Rank(h[i], S)
        BY <1>2, <1>7, <2>1, RankLess
      <3> QED
        BY <2>1, <3>1
    <2>3. ~(h[i] < f[i])
      <3>1. h[i] < f[i] => Rank(h[i], S) \in Nat /\ Rank(h[i], S) < Rank(f[i], S)
        BY <1>2, <1>7, <2>1, RankLess
      <3> QED
        BY <2>1, <3>1
    <2>4. f[i] \in Nat /\ h[i] \in Nat
      BY <1>2, <2>1
    <2> QED
      BY <2>2, <2>3, <2>4
  <1>11. f = h
    BY <1>9, <1>10, SeqEqual DEF n
  <1> QED
    BY <1>2, <1>7, <1>11 DEF h, S

LEMMA ConcatSet ==
  ASSUME NEW f \in Seq(Nat), NEW g \in Seq(Nat)
  PROVE  f \o g \in Seq(Nat) /\ ToSet(f \o g) = ToSet(f) \cup ToSet(g)
  <1> DEFINE h == f \o g
             l == Len(f)
             m == Len(g)
  <1>1. /\ h \in Seq(Nat) /\ Len(h) = l + m /\ l \in Nat /\ m \in Nat
        /\ \A i \in 1 .. l + m : h[i] = IF i <= l THEN f[i] ELSE g[i - l]
    BY ConcatProperties
  <1>2. DOMAIN f = 1 .. l /\ DOMAIN g = 1 .. m /\ DOMAIN h = 1 .. l + m
    BY <1>1
  <1> HIDE DEF h, l, m
  <1>3. \A i \in 1 .. l : i \in 1 .. l + m /\ h[i] = f[i] /\ f[i] \in ToSet(f)
    <2>1. \A i \in 1 .. l : i \in 1 .. l + m /\ h[i] = f[i]
      BY <1>1
    <2> QED
      BY <1>2, <2>1 DEF ToSet
  <1>4. \A i \in 1 .. m : l + i \in 1 .. l + m /\ h[l + i] = g[i] /\ g[i] \in ToSet(g)
    <2>1. \A i \in 1 .. m : l + i \in 1 .. l + m /\ ~(l + i <= l) /\ (l + i) - l = i
      BY <1>1
    <2>2. \A i \in 1 .. m : h[l + i] = g[i]
      BY <1>1, <2>1
    <2> QED
      BY <1>2, <2>1, <2>2 DEF ToSet
  <1>5. \A i \in 1 .. l + m : i \in 1 .. l \/ \E k \in 1 .. m : i = l + k
    <2> SUFFICES ASSUME NEW i \in 1 .. l + m, i \notin 1 .. l
                 PROVE  \E k \in 1 .. m : i = l + k
      OBVIOUS
    <2>1. i - l \in 1 .. m /\ i = l + (i - l)
      BY <1>1
    <2> QED
      BY <2>1
  <1>6. ToSet(h) = ToSet(f) \cup ToSet(g)
    <2>1. \A i \in 1 .. l + m : h[i] \in ToSet(f) \cup ToSet(g)
      <3> SUFFICES ASSUME NEW i \in 1 .. l + m PROVE h[i] \in ToSet(f) \cup ToSet(g)
        OBVIOUS
      <3>1. CASE i \in 1 .. l
        BY <1>3, <3>1
      <3>2. CASE i \notin 1 .. l
        BY <1>4, <1>5, <3>2
      <3> QED
        BY <3>1, <3>2
    <2>2. \A a \in ToSet(f) : \E i \in 1 .. l + m : h[i] = a
      BY <1>2, <1>3 DEF ToSet
    <2>3. \A a \in ToSet(g) : \E i \in 1 .. l + m : h[i] = a
      BY <1>2, <1>4 DEF ToSet
    <2> QED
      BY <1>2, <2>1, <2>2, <2>3 DEF ToSet
  <1> QED
    BY <1>1, <1>6 DEF h

\* The addresses of two parts of memory, in order, are those of the first and
\* then those of the second.
LEMMA JoinRising ==
  ASSUME NEW f \in Seq(Nat), NEW g \in Seq(Nat), Rising(f), Rising(g),
         \A a \in ToSet(f), b \in ToSet(g) : a < b
  PROVE  Rising(f \o g)
  <1> DEFINE h == f \o g
             l == Len(f)
             m == Len(g)
  <1>1. /\ h \in Seq(Nat) /\ Len(h) = l + m /\ l \in Nat /\ m \in Nat
        /\ \A i \in 1 .. l + m : h[i] = IF i <= l THEN f[i] ELSE g[i - l]
    BY ConcatProperties
  <1>2. DOMAIN f = 1 .. l /\ DOMAIN g = 1 .. m /\ DOMAIN h = 1 .. l + m
    BY <1>1
  <1> HIDE DEF h, l, m
  <1>3. \A i \in 1 .. l : i \in 1 .. l + m /\ h[i] = f[i] /\ f[i] \in ToSet(f)
    <2>1. \A i \in 1 .. l : i \in 1 .. l + m /\ h[i] = f[i]
      BY <1>1
    <2> QED
      BY <1>2, <2>1 DEF ToSet
  <1>4. \A i \in 1 .. m : l + i \in 1 .. l + m /\ h[l + i] = g[i] /\ g[i] \in ToSet(g)
    <2>1. \A i \in 1 .. m : l + i \in 1 .. l + m /\ ~(l + i <= l) /\ (l + i) - l = i
      BY <1>1
    <2>2. \A i \in 1 .. m : h[l + i] = g[i]
      BY <1>1, <2>1
    <2> QED
      BY <1>2, <2>1, <2>2 DEF ToSet
  <1>5. \A i \in 1 .. l + m : i \in 1 .. l \/ \E k \in 1 .. m : i = l + k
    <2> SUFFICES ASSUME NEW i \in 1 .. l + m, i \notin 1 .. l
                 PROVE  \E k \in 1 .. m : i = l + k
      OBVIOUS
    <2>1. i - l \in 1 .. m /\ i = l + (i - l)
      BY <1>1
    <2> QED
      BY <2>1
  <1>6. Rising(h)
    <2> SUFFICES ASSUME NEW i \in 1 .. l + m, NEW j \in 1 .. l + m, i < j PROVE h[i] < h[j]
      BY <1>2 DEF Rising
    <2>1. CASE j \in 1 .. l
      <3>1. i \in 1 .. l
        BY <1>1, <2>1
      <3> QED
        BY <1>2, <1>3, <2>1, <3>1 DEF Rising
    <2>2. CASE i \in 1 .. l /\ j \notin 1 .. l
      <3>1. PICK k \in 1 .. m : j = l + k
        BY <1>5, <2>2
      <3> QED
        BY <1>3, <1>4, <2>2, <3>1
    <2>3. CASE i \notin 1 .. l /\ j \notin 1 .. l
      <3>1. PICK k \in 1 .. m : i = l + k
        BY <1>5, <2>3
      <3>2. PICK n \in 1 .. m : j = l + n
        BY <1>5, <2>3
      <3>3. k < n
        BY <1>1, <3>1, <3>2
      <3>4. g[k] < g[n]
        BY <1>2, <3>3 DEF Rising
      <3> QED
        BY <1>4, <3>1, <3>2, <3>4
    <2> QED
      BY <2>1, <2>2, <2>3
  <1> QED
    BY <1>6 DEF h

LEMMA AscendingJoin ==
  ASSUME NEW S \in SUBSET Nat, NEW T \in SUBSET Nat, IsFiniteSet(S), IsFiniteSet(T),
         \A a \in S, b \in T : a < b
  PROVE  Ascending(S) \o Ascending(T) = Ascending(S \cup T)
  <1> DEFINE f == Ascending(S)
             g == Ascending(T)
  <1>1. f \in Seq(Nat) /\ Rising(f) /\ ToSet(f) = S
    BY AscendingIs
  <1>2. g \in Seq(Nat) /\ Rising(g) /\ ToSet(g) = T
    BY AscendingIs
  <1> HIDE DEF f, g
  <1>3. f \o g \in Seq(Nat) /\ Rising(f \o g) /\ ToSet(f \o g) = S \cup T
    BY <1>1, <1>2, ConcatSet, JoinRising
  <1>4. f \o g = Ascending(S \cup T)
    BY <1>3, RisingIsAscending
  <1> QED
    BY <1>4 DEF f, g

\* What a limit on the number of results leaves.
LEMMA PrefixIs ==
  ASSUME NEW s \in Seq(Nat), NEW n \in Nat
  PROVE  /\ Prefix(s, n) \in Seq(Nat)
         /\ Len(Prefix(s, n)) = Least(n, Len(s)) /\ Least(n, Len(s)) \in 0 .. Len(s)
         /\ \A i \in 1 .. Least(n, Len(s)) : Prefix(s, n)[i] = s[i]
         /\ ToSet(Prefix(s, n)) \subseteq ToSet(s)
         /\ Rising(s) => Rising(Prefix(s, n))
         /\ Len(s) <= n => Prefix(s, n) = s
  <1> DEFINE l == Least(n, Len(s))
             p == Prefix(s, n)
  <1>1. Len(s) \in Nat /\ DOMAIN s = 1 .. Len(s) /\ l \in Nat /\ l <= Len(s)
    BY DEF Least
  <1>0. Len(s) <= n => l = Len(s)
    BY DEF Least
  <1>2. p = SubSeq(s, 1, l)
    BY DEF Prefix
  <1> HIDE DEF l, p
  <1>3. \A i \in 1 .. l : i \in 1 .. Len(s) /\ s[i] \in Nat
    <2>1. \A i \in 1 .. l : i \in 1 .. Len(s)
      BY <1>1
    <2> QED
      BY <2>1, ElementOfSeq
  <1>4. /\ p \in Seq(Nat) /\ Len(p) = l
        /\ \A i \in 1 .. l : p[i] = s[i]
    <2>1. 1 \in Int /\ l \in Int /\ l - 1 + 1 = l /\ (1 <= l \/ l = 0)
      BY <1>1
    <2>2. /\ p \in Seq(Nat) /\ Len(p) = IF 1 <= l THEN l - 1 + 1 ELSE 0
          /\ \A i \in 1 .. l - 1 + 1 : p[i] = s[1 + i - 1]
      BY <1>2, <1>3, <2>1, SubSeqProperties
    <2>3. \A i \in 1 .. l : 1 + i - 1 = i
      BY <1>1
    <2> QED
      BY <2>1, <2>2, <2>3
  <1>5. DOMAIN p = 1 .. l
    BY <1>4
  <1>6. ToSet(p) \subseteq ToSet(s)
    BY <1>1, <1>3, <1>4, <1>5 DEF ToSet
  <1>7. Rising(s) => Rising(p)
    BY <1>1, <1>3, <1>4, <1>5 DEF Rising
  <1>8. Len(s) <= n => p = s
    BY <1>0, <1>1, <1>4, SeqEqual
  <1> QED
    BY <1>1, <1>4, <1>6, <1>7, <1>8 DEF l, p

LEMMA PrefixFull ==
  ASSUME NEW s \in Seq(Nat), NEW n \in Nat, n <= Len(s)
  PROVE  /\ Prefix(s, n) \in Seq(Nat) /\ Len(Prefix(s, n)) = n
         /\ \A i \in 1 .. n : Prefix(s, n)[i] = s[i]
  <1>1. Least(n, Len(s)) = n
    <2>1. Len(s) \in Nat
      OBVIOUS
    <2> QED
      BY <2>1 DEF Least
  <1>2. /\ Prefix(s, n) \in Seq(Nat) /\ Len(Prefix(s, n)) = Least(n, Len(s))
        /\ \A i \in 1 .. Least(n, Len(s)) : Prefix(s, n)[i] = s[i]
    BY PrefixIs
  <1> QED
    BY <1>1, <1>2

\* Cutting what is there before more is added does not change what is left.
LEMMA PrefixJoin ==
  ASSUME NEW s \in Seq(Nat), NEW t \in Seq(Nat), NEW n \in Nat
  PROVE  /\ Prefix(Prefix(s, n) \o t, n) = Prefix(s \o t, n)
         /\ Len(Prefix(s, n)) >= n => Prefix(s \o t, n) = Prefix(s, n)
  <1> DEFINE p == Prefix(s, n)
             u == s \o t
             v == p \o t
  <1>1. /\ p \in Seq(Nat) /\ Len(p) = Least(n, Len(s))
        /\ \A i \in 1 .. Len(p) : p[i] = s[i]
        /\ Len(s) <= n => p = s
    BY PrefixIs
  <1>2. Len(s) \in Nat /\ Len(t) \in Nat /\ Len(p) \in Nat
    BY <1>1
  <1>3. Len(p) = IF n < Len(s) THEN n ELSE Len(s)
    BY <1>1 DEF Least
  <1> HIDE DEF p
  <1>4. /\ u \in Seq(Nat) /\ Len(u) = Len(s) + Len(t)
        /\ \A i \in 1 .. Len(s) + Len(t) : u[i] = IF i <= Len(s) THEN s[i] ELSE t[i - Len(s)]
    BY ConcatProperties
  <1>5. /\ v \in Seq(Nat) /\ Len(v) = Len(p) + Len(t)
        /\ \A i \in 1 .. Len(p) + Len(t) : v[i] = IF i <= Len(p) THEN p[i] ELSE t[i - Len(p)]
    BY <1>1, ConcatProperties
  <1> HIDE DEF u, v
  <1>6. CASE Len(s) <= n
    <2>1. p = s
      BY <1>1, <1>6
    <2>2. v = u
      BY <2>1 DEF u, v
    <2>3. Len(p) >= n => Prefix(u, n) = Prefix(s, n)
      <3> SUFFICES ASSUME Len(p) >= n PROVE Prefix(u, n) = Prefix(s, n)
        OBVIOUS
      <3>1. Len(s) = n /\ n <= Len(u)
        BY <1>2, <1>3, <1>4, <1>6, <2>1
      <3>2. /\ Prefix(u, n) \in Seq(Nat) /\ Len(Prefix(u, n)) = n
            /\ \A i \in 1 .. n : Prefix(u, n)[i] = u[i]
        BY <1>4, <3>1, PrefixFull
      <3>3. \A i \in 1 .. n : u[i] = s[i]
        BY <1>2, <1>4, <3>1
      <3>4. Prefix(u, n) = s
        BY <3>1, <3>2, <3>3, SeqEqual
      <3> QED
        BY <2>1, <3>4 DEF p
    <2> QED
      BY <2>2, <2>3 DEF p, u, v
  <1>7. CASE ~(Len(s) <= n)
    <2>1. Len(p) = n /\ n <= Len(u) /\ n <= Len(v)
      BY <1>2, <1>3, <1>4, <1>5, <1>7
    <2>2. /\ Prefix(u, n) \in Seq(Nat) /\ Len(Prefix(u, n)) = n
          /\ \A i \in 1 .. n : Prefix(u, n)[i] = u[i]
      BY <1>4, <2>1, PrefixFull
    <2>3. /\ Prefix(v, n) \in Seq(Nat) /\ Len(Prefix(v, n)) = n
          /\ \A i \in 1 .. n : Prefix(v, n)[i] = v[i]
      BY <1>5, <2>1, PrefixFull
    <2>4. \A i \in 1 .. n : u[i] = s[i] /\ v[i] = p[i] /\ p[i] = s[i]
      <3>1. \A i \in 1 .. n : /\ i \in 1 .. Len(s) + Len(t) /\ i <= Len(s)
                              /\ i \in 1 .. Len(p) + Len(t) /\ i <= Len(p)
        BY <1>2, <1>7, <2>1
      <3> QED
        BY <1>1, <1>4, <1>5, <2>1, <3>1
    <2>5. Prefix(u, n) = p
      BY <1>1, <2>1, <2>2, <2>4, SeqEqual
    <2>6. Prefix(v, n) = p
      BY <1>1, <2>1, <2>3, <2>4, SeqEqual
    <2> QED
      BY <2>5, <2>6 DEF p, u, v
  <1> QED
    BY <1>6, <1>7

-----------------------------------------------------------------------------
(* Chunks, segments and runs change the requests and not the answer *)

ScanFields == {"job", "pc", "found", "fails", "cursor", "clean", "more", "first", "last"}
ScanTyped ==
    /\ DOMAIN scan = ScanFields
    /\ scan.job \in ScanJobs /\ scan.cursor \in Nat /\ scan.clean \in BOOLEAN
    /\ scan.pc \in {"ask", "run", "refused", "aborted", "end"}

\* A scan never moves back; a narrowing begins with the first run.
ScanOrigin ==
    /\ scan.job.kind \in {"pattern", "value"} => scan.job.lo <= scan.cursor
    /\ scan.job.kind = "narrow" => scan.cursor > 0

\* The occurrences that begin below an address.
HitsBelow(c) ==
    {a \in scan.job.lo .. (c - 1) : a + Len(scan.job.pat) <= scan.job.hi /\ Occurs(a)}

\* A pattern scan has reported the occurrences below its cursor, up to the limit.
PatternInv ==
    scan.job.kind = "pattern" =>
        /\ scan.found \in Seq(Nat) /\ Rising(scan.found)
        /\ ToSet(scan.found) \subseteq HitsBelow(scan.cursor)
        /\ scan.clean => scan.found = Prefix(Ascending(HitsBelow(scan.cursor)), scan.job.max)
        /\ scan.pc = "end" => scan.cursor >= scan.job.hi \/ Len(scan.found) >= scan.job.max

Aligned(a) == (a - scan.job.lo) % scan.job.width = 0
Holds(a) == ValueAt(a, scan.job.width) = scan.job.pat[1]

\* A value scan stands between two aligned values and has missed none of those
\* behind it, unless it is full.
ValueInv ==
    scan.job.kind = "value" =>
        /\ scan.found \in Seq(Nat)
        /\ scan.cursor >= scan.job.hi \/ Aligned(scan.cursor)
        /\ scan.clean /\ Len(scan.found) < scan.job.max =>
              \A a \in scan.job.lo .. (scan.job.hi - scan.job.width) :
                  a < scan.cursor /\ Aligned(a) /\ Holds(a) => a \in ToSet(scan.found)
        /\ scan.pc = "end" => scan.cursor >= scan.job.hi \/ Len(scan.found) >= scan.job.max

Survives(a) == Readable(a, a + scan.job.width) /\ Holding(a)
RunsDone == {a \in scan.job.from :
                \E i \in 1 .. Len(MergeRuns(scan.job.from)) :
                    i < scan.cursor /\ a \in ToSet(MergeRuns(scan.job.from)[i])}

\* A narrowing has kept only candidates of the runs it has read that still hold, and
\* all of them while every read was answered.
NarrowInv ==
    scan.job.kind = "narrow" =>
        /\ scan.found \in Seq(Nat)
        /\ ToSet(scan.found) \subseteq {a \in RunsDone : Survives(a)}
        /\ scan.clean => {a \in RunsDone : Survives(a)} \subseteq ToSet(scan.found)
        /\ scan.pc = "end" => scan.cursor > Len(MergeRuns(scan.job.from))

ScanInv == ScanTyped /\ ScanOrigin /\ PatternInv /\ ValueInv /\ NarrowInv

LEMMA EmptyAscending ==
  /\ <<>> \in Seq(Nat) /\ Rising(<<>>) /\ ToSet(<<>>) = {} /\ Ascending({}) = <<>>
  /\ \A n \in Nat : Prefix(<<>>, n) = <<>>
  <1>1. <<>> \in Seq(Nat) /\ Rising(<<>>) /\ ToSet(<<>>) = {} /\ Len(<<>>) = 0
    BY DEF Rising, ToSet
  <1>2. Ascending({}) = <<>>
    BY <1>1, RisingIsAscending
  <1>3. \A n \in Nat : Prefix(<<>>, n) = <<>>
    <2> SUFFICES ASSUME NEW n \in Nat PROVE Prefix(<<>>, n) = <<>>
      OBVIOUS
    <2>1. Len(<<>>) <= n
      BY <1>1
    <2>2. Len(<<>>) <= n => Prefix(<<>>, n) = <<>>
      BY <1>1, PrefixIs
    <2> QED
      BY <2>1, <2>2
  <1> QED
    BY <1>1, <1>2, <1>3

LEMMA ScanInitInv == ScanInit => ScanInv
  <1> SUFFICES ASSUME ScanInit PROVE ScanInv
    OBVIOUS
  <1>1. PICK call \in ScanJobs : scan = Start(call)
    BY DEF ScanInit
  <1>2. /\ call.lo \in Nat /\ call.hi \in Nat /\ call.max \in Nat /\ call.width \in Nat \ {0}
        /\ call.from \subseteq Nat
    BY ScanJobsAssumption
  <1>3. /\ DOMAIN scan = ScanFields /\ scan.job = call /\ scan.pc = "ask" /\ scan.found = <<>>
        /\ scan.cursor = (IF call.kind \in {"narrow", "watch"} THEN 1 ELSE call.lo)
        /\ scan.clean = TRUE
    BY <1>1 DEF Start, ScanFields
  <1>4. ScanTyped /\ ScanOrigin
    <2>1. scan.cursor \in Nat
      BY <1>2, <1>3
    <2>2. call.kind \in {"pattern", "value"} => scan.cursor = call.lo
      BY <1>3
    <2>3. ScanTyped
      BY <1>3, <2>1 DEF ScanTyped
    <2>4. ScanOrigin
      BY <1>2, <1>3, <2>2 DEF ScanOrigin
    <2> QED
      BY <2>3, <2>4
  <1>5. PatternInv
    <2> SUFFICES ASSUME call.kind = "pattern" PROVE PatternInv
      BY <1>3 DEF PatternInv
    <2>1. scan.cursor = call.lo
      BY <1>3
    <2>2. HitsBelow(scan.cursor) = {}
      BY <1>2, <1>3, <2>1 DEF HitsBelow
    <2> QED
      BY <1>2, <1>3, <2>2, EmptyAscending DEF PatternInv
  <1>6. ValueInv
    <2> SUFFICES ASSUME call.kind = "value" PROVE ValueInv
      BY <1>3 DEF ValueInv
    <2>1. scan.cursor = call.lo
      BY <1>3
    <2>2. call.lo - call.lo = 0 /\ 0 % call.width = 0
      BY <1>2
    <2>3. Aligned(scan.cursor)
      BY <1>3, <2>1, <2>2 DEF Aligned
    <2>4. \A a \in call.lo .. (call.hi - call.width) : ~(a < call.lo)
      BY <1>2
    <2> QED
      BY <1>3, <2>1, <2>3, <2>4, EmptyAscending DEF ValueInv
  <1>7. NarrowInv
    <2> SUFFICES ASSUME call.kind = "narrow" PROVE NarrowInv
      BY <1>3 DEF NarrowInv
    <2>1. RunsDone = {}
      BY <1>3 DEF RunsDone
    <2> QED
      BY <1>3, <2>1, EmptyAscending DEF NarrowInv
  <1> QED
    BY <1>4, <1>5, <1>6, <1>7 DEF ScanInv


LEMMA ScanJob ==
  ASSUME ScanTyped
  PROVE  /\ scan.job.lo \in Nat /\ scan.job.hi \in Nat /\ scan.job.chunk \in Nat
         /\ scan.job.max \in Nat /\ scan.job.width \in Nat \ {0}
         /\ scan.job.pat \in Seq(Nat) /\ Len(scan.job.pat) \in Nat \ {0}
         /\ scan.job.from \in SUBSET Nat /\ IsFiniteSet(scan.job.from)
         /\ scan.job.kind = "value" => MaxRead % scan.job.width = 0
         /\ MaxRead \in Nat \ {0}
  <1>1. scan.job \in ScanJobs
    BY DEF ScanTyped
  <1>2. Len(scan.job.pat) \in Nat /\ scan.job.pat \in Seq(Nat) /\ Len(scan.job.pat) > 0
    BY <1>1, ScanJobsAssumption
  <1>3. MaxRead \in Nat \ {0}
    BY ScanAssumption
  <1>4. /\ {scan.job.lo, scan.job.hi, scan.job.chunk, scan.job.max} \subseteq Nat
        /\ scan.job.width \in Nat \ {0} /\ scan.job.from \in SUBSET Nat
        /\ IsFiniteSet(scan.job.from)
        /\ scan.job.kind = "value" => MaxRead % scan.job.width = 0
    BY <1>1, ScanJobsAssumption
  <1>5. /\ scan.job.lo \in Nat /\ scan.job.hi \in Nat /\ scan.job.chunk \in Nat
        /\ scan.job.max \in Nat
    BY <1>4
  <1> QED
    BY <1>2, <1>3, <1>4, <1>5

\* What has been found below an address is a finite set of addresses.
LEMMA HitsBelowIs ==
  ASSUME ScanTyped, NEW c \in Nat
  PROVE  /\ HitsBelow(c) \in SUBSET Nat /\ IsFiniteSet(HitsBelow(c))
         /\ \A a \in HitsBelow(c) : a < c
         /\ \A d \in Nat : c <= d => HitsBelow(c) \subseteq HitsBelow(d)
  <1>1. scan.job.lo \in Nat /\ scan.job.hi \in Nat /\ Len(scan.job.pat) \in Nat
    BY ScanJob
  <1>2. HitsBelow(c) \subseteq scan.job.lo .. (c - 1)
    BY DEF HitsBelow
  <1>3. IsFiniteSet(scan.job.lo .. (c - 1))
    <2>1. scan.job.lo \in Int /\ c - 1 \in Int
      BY <1>1
    <2> QED
      BY <2>1, FS_Interval
  <1>4. IsFiniteSet(HitsBelow(c))
    BY <1>2, <1>3, FS_Subset
  <1>5. \A a \in scan.job.lo .. (c - 1) : a \in Nat /\ a < c
    BY <1>1
  <1>6. \A d \in Nat : c <= d => HitsBelow(c) \subseteq HitsBelow(d)
    <2> SUFFICES ASSUME NEW d \in Nat, c <= d, NEW a \in HitsBelow(c)
                 PROVE  a \in HitsBelow(d)
      OBVIOUS
    <2>1. a \in scan.job.lo .. (c - 1) /\ a + Len(scan.job.pat) <= scan.job.hi /\ Occurs(a)
      BY DEF HitsBelow
    <2>2. a \in scan.job.lo .. (d - 1)
      BY <1>1, <2>1
    <2> QED
      BY <2>1, <2>2 DEF HitsBelow
  <1> QED
    BY <1>2, <1>4, <1>5, <1>6

\* A step that only ends the call, or lets it start, keeps what is known of it.
LEMMA ScanKeeps ==
  ASSUME ScanInv, mem' = mem, hole' = hole, ScanTyped', scan'.job = scan.job,
         scan'.found = scan.found, scan'.cursor = scan.cursor, scan'.clean = scan.clean,
         scan'.pc = "end" /\ scan.job.kind = "pattern" =>
            scan.cursor >= scan.job.hi \/ Len(scan.found) >= scan.job.max,
         scan'.pc = "end" /\ scan.job.kind = "value" =>
            scan.cursor >= scan.job.hi \/ Len(scan.found) >= scan.job.max,
         scan'.pc = "end" /\ scan.job.kind = "narrow" =>
            scan.cursor > Len(MergeRuns(scan.job.from))
  PROVE  ScanInv'
  <1>1. ScanOrigin'
    BY DEF ScanInv, ScanOrigin
  <1>2. PatternInv'
    <2>1. HitsBelow(scan.cursor)' = HitsBelow(scan.cursor)
      BY DEF HitsBelow, Occurs
    <2> QED
      BY <2>1 DEF ScanInv, PatternInv
  <1>3. ValueInv'
    <2>1. \A a : (Holds(a) <=> Holds(a)') /\ (Aligned(a) <=> Aligned(a)')
      BY DEF Holds, Aligned, ValueAt
    <2>2. Aligned(scan.cursor)' <=> Aligned(scan.cursor)
      BY DEF Aligned
    <2> QED
      BY <2>1, <2>2 DEF ScanInv, ValueInv
  <1>4. NarrowInv'
    <2>1. MergeRuns(scan.job.from)' = MergeRuns(scan.job.from)
      BY DEF MergeRuns, RunStarts, RunFrom
    <2>2. RunsDone' = RunsDone
      BY <2>1 DEF RunsDone
    <2>3. \A a : Survives(a) <=> Survives(a)'
      BY DEF Survives, Readable, Holding, ValueAt
    <2> QED
      BY <2>1, <2>2, <2>3 DEF ScanInv, NarrowInv
  <1> QED
    BY <1>1, <1>2, <1>3, <1>4 DEF ScanInv

\* Nothing is claimed of the other readers.
LEMMA OtherReaders ==
  ASSUME ScanTyped', scan'.job.kind \notin {"pattern", "value", "narrow"}
  PROVE  ScanInv'
  BY DEF ScanInv, ScanOrigin, PatternInv, ValueInv, NarrowInv

LEMMA DispatchScan ==
  ASSUME ScanInv, Dispatch
  PROVE  ScanInv'
  <1>1. DOMAIN scan = ScanFields
    BY DEF ScanInv, ScanTyped
  <1>2. mem' = mem /\ hole' = hole
    BY DEF Dispatch, Now
  <1>3. scan' = [scan EXCEPT !.pc = "refused"] \/ scan' = [scan EXCEPT !.pc = "run"]
    BY DEF Dispatch, Now
  <1>4. /\ DOMAIN scan' = ScanFields /\ scan'.job = scan.job /\ scan'.found = scan.found
        /\ scan'.cursor = scan.cursor /\ scan'.clean = scan.clean
        /\ scan'.pc \in {"refused", "run"}
    BY <1>1, <1>3 DEF ScanFields
  <1>5. ScanTyped'
    BY <1>4 DEF ScanInv, ScanTyped
  <1> QED
    BY <1>2, <1>4, <1>5, ScanKeeps

LEMMA EndScan ==
  ASSUME ScanInv, ScanPatternEnds \/ SegmentsEnd \/ NarrowEnds
  PROVE  ScanInv'
  <1>1. DOMAIN scan = ScanFields
    BY DEF ScanInv, ScanTyped
  <1>2. mem' = mem /\ hole' = hole /\ scan' = [scan EXCEPT !.pc = "end"]
    BY DEF ScanPatternEnds, SegmentsEnd, NarrowEnds, Now
  <1>3. /\ scan.job.kind = "pattern" =>
              scan.cursor >= scan.job.hi \/ Len(scan.found) >= scan.job.max
        /\ scan.job.kind = "value" => scan.cursor >= scan.job.hi
        /\ scan.job.kind = "narrow" => scan.cursor > Len(MergeRuns(scan.job.from))
    BY DEF ScanPatternEnds, SegmentsEnd, NarrowEnds, Running
  <1>4. /\ DOMAIN scan' = ScanFields /\ scan'.job = scan.job /\ scan'.found = scan.found
        /\ scan'.cursor = scan.cursor /\ scan'.clean = scan.clean /\ scan'.pc = "end"
    BY <1>1, <1>2 DEF ScanFields
  <1>5. ScanTyped'
    BY <1>4 DEF ScanInv, ScanTyped
  <1> QED
    BY <1>2, <1>3, <1>4, <1>5, ScanKeeps

\* A chunk that cannot be read is passed over, and the scan is no longer clean.
LEMMA SkipIs ==
  ASSUME DOMAIN scan = ScanFields, scan.pc \in {"ask", "run", "refused", "aborted", "end"},
         NEW e, Skip(e)
  PROVE  /\ DOMAIN scan' = ScanFields /\ scan'.job = scan.job /\ scan'.found = scan.found
         /\ scan'.cursor = e /\ scan'.clean = FALSE
         /\ scan'.pc \in {"aborted", scan.pc}
  <1> DEFINE n == scan.fails + 1
             p == IF scan.fails = MaxTimeouts THEN "aborted" ELSE scan.pc
  <1>1. p \in {"aborted", scan.pc}
    OBVIOUS
  <1>2. \/ scan' = [scan EXCEPT !.cursor = e, !.clean = FALSE]
        \/ scan' = [scan EXCEPT !.cursor = e, !.clean = FALSE, !.fails = n, !.pc = p]
    BY DEF Skip, ScanFields
  <1> HIDE DEF n, p
  <1> QED
    BY <1>1, <1>2 DEF ScanFields

\* The readers nothing is claimed of keep their call.
LEMMA OtherScans ==
  ASSUME ScanInv,
         \/ ReadBytes \/ ReadString \/ Disassemble \/ StringSegment
         \/ Poke \/ Poll \/ PollEnds
  PROVE  ScanInv'
  <1>1. /\ DOMAIN scan = ScanFields /\ scan.job \in ScanJobs /\ scan.cursor \in Nat
        /\ scan.clean \in BOOLEAN
        /\ scan.pc \in {"ask", "run", "refused", "aborted", "end"}
    BY DEF ScanInv, ScanTyped
  <1>2. /\ scan.job.lo \in Nat /\ scan.job.hi \in Nat /\ scan.job.chunk \in Nat
        /\ MaxRead \in Nat
    BY ScanJob DEF ScanInv
  <1>3. scan.job.kind \notin {"pattern", "value", "narrow"}
    BY DEF ReadBytes, ReadString, Disassemble, StringSegment, Segment, Poke, Poll, PollEnds,
           Running
  <1>4. ScanTyped' /\ scan'.job = scan.job
    <2>1. CASE ReadBytes
      <3>1. \/ scan' = [scan EXCEPT !.pc = "refused"]
            \/ scan' = [scan EXCEPT !.pc = "aborted"]
            \/ \E f : scan' = [scan EXCEPT !.pc = "end", !.found = f]
        BY <2>1 DEF ReadBytes, Now
      <3> QED
        BY <1>1, <3>1 DEF ScanTyped, ScanFields
    <2>2. CASE ReadString
      <3>1. \/ scan' = [scan EXCEPT !.pc = "aborted"]
            \/ \E f, m : scan' = [scan EXCEPT !.pc = "end", !.found = f, !.more = m]
        BY <2>2 DEF ReadString, Now
      <3> QED
        BY <1>1, <3>1 DEF ScanTyped, ScanFields
    <2>3. CASE Disassemble
      <3>1. \E f, m : scan' = [scan EXCEPT !.pc = "end", !.more = m, !.found = f]
        BY <2>3 DEF Disassemble, Now
      <3> QED
        BY <1>1, <3>1 DEF ScanTyped, ScanFields
    <2>4. CASE StringSegment
      <3> DEFINE e == Least(scan.cursor + MaxRead, scan.job.hi)
      <3>1. e \in Nat
        BY <1>1, <1>2 DEF Least
      <3> HIDE DEF e
      <3>2. CASE ~Skip(e)
        <4>1. PICK got \in scan.cursor .. e :
                LET hits == scan.found \o Ascending(Runs(got)) IN
                scan' = [scan EXCEPT !.found = Prefix(hits, scan.job.max), !.cursor = e,
                                     !.fails = 0, !.clean = scan.clean /\ got = e,
                                     !.more = Len(hits) > scan.job.max,
                                     !.pc = IF \/ "strings" = "value" /\ Len(hits) >= scan.job.max
                                               \/ Len(hits) > scan.job.max
                                            THEN "end" ELSE scan.pc]
          BY <1>1, <2>4, <3>2 DEF StringSegment, Segment, ScanFields, e
        <4> DEFINE hits == scan.found \o Ascending(Runs(got))
                   f == Prefix(hits, scan.job.max)
                   c == scan.clean /\ got = e
                   m == Len(hits) > scan.job.max
                   p == IF \/ "strings" = "value" /\ Len(hits) >= scan.job.max
                           \/ Len(hits) > scan.job.max
                        THEN "end" ELSE scan.pc
        <4>2. c \in BOOLEAN /\ p \in {"ask", "run", "refused", "aborted", "end"}
          BY <1>1
        <4>3. scan' = [scan EXCEPT !.found = f, !.cursor = e, !.fails = 0, !.clean = c,
                                   !.more = m, !.pc = p]
          BY <4>1
        <4> HIDE DEF f, c, m, p
        <4> QED
          BY <1>1, <3>1, <4>2, <4>3 DEF ScanTyped, ScanFields
      <3>3. CASE Skip(e)
        <4>1. /\ DOMAIN scan' = ScanFields /\ scan'.job = scan.job
              /\ scan'.cursor = e /\ scan'.clean = FALSE
              /\ scan'.pc \in {"aborted", scan.pc}
          BY <1>1, <3>3, SkipIs
        <4> QED
          BY <1>1, <3>1, <4>1 DEF ScanTyped
      <3> QED
        BY <3>2, <3>3
    <2>5. CASE Poke
      <3>1. scan' = scan
        BY <2>5 DEF Poke
      <3> QED
        BY <1>1, <3>1 DEF ScanTyped
    <2>6. CASE Poll
      <3> DEFINE e == Least(scan.cursor + scan.job.chunk, scan.job.hi)
      <3>1. e \in Nat
        BY <1>1, <1>2 DEF Least
      <3> HIDE DEF e
      <3> DEFINE v == mem[scan.job.lo]
                 changed == scan.first # Unseen /\ v # scan.last
                 f == IF changed THEN Append(scan.found, <<scan.last, v>>) ELSE scan.found
                 n == IF scan.first = Unseen THEN v ELSE scan.first
      <3>2. \/ scan' = [scan EXCEPT !.pc = "aborted"]
            \/ scan' = [scan EXCEPT !.found = f, !.pc = "end"]
            \/ scan' = [scan EXCEPT !.found = f, !.last = v, !.first = n, !.cursor = e]
        BY <1>1, <2>6 DEF Poll, Now, ScanFields, e
      <3> HIDE DEF v, changed, f, n
      <3> QED
        BY <1>1, <3>1, <3>2 DEF ScanTyped, ScanFields
    <2>7. CASE PollEnds
      <3>1. scan' = [scan EXCEPT !.pc = "end"]
        BY <2>7 DEF PollEnds, Now
      <3> QED
        BY <1>1, <3>1 DEF ScanTyped, ScanFields
    <2> QED
      BY <2>1, <2>2, <2>3, <2>4, <2>5, <2>6, <2>7
  <1> QED
    BY <1>3, <1>4, OtherReaders

LEMMA StutterScan ==
  ASSUME ScanInv, UNCHANGED scanVars
  PROVE  ScanInv'
  <1>1. mem' = mem /\ hole' = hole /\ scan' = scan
    BY DEF scanVars
  <1>2. ScanTyped'
    BY <1>1 DEF ScanInv, ScanTyped
  <1>3. /\ scan.pc = "end" /\ scan.job.kind = "pattern" =>
              scan.cursor >= scan.job.hi \/ Len(scan.found) >= scan.job.max
        /\ scan.pc = "end" /\ scan.job.kind = "value" =>
              scan.cursor >= scan.job.hi \/ Len(scan.found) >= scan.job.max
        /\ scan.pc = "end" /\ scan.job.kind = "narrow" =>
              scan.cursor > Len(MergeRuns(scan.job.from))
    BY DEF ScanInv, PatternInv, ValueInv, NarrowInv
  <1> QED
    BY <1>1, <1>2, <1>3, ScanKeeps

\* The arithmetic of a chunk: it does not go back, and is read with its overlap
\* within the range.
LEMMA ChunkBounds ==
  ASSUME NEW c \in Nat, NEW hi \in Nat, NEW k \in Nat, NEW l \in Nat \ {0}, c < hi
  PROVE  LET e == Least(c + k, hi)
             r == IF e < hi THEN Least(e + (l - 1), hi) ELSE e IN
         /\ e \in Nat /\ r \in Nat /\ c <= e /\ e <= r /\ r <= hi
         /\ \A a \in Nat : a < e => (a + l <= r <=> a + l <= hi)
  BY DEF Least

LEMMA ChunkIs ==
  ASSUME ScanTyped, scan.cursor < scan.job.hi
  PROVE  LET e == Least(scan.cursor + EffectiveChunk, scan.job.hi)
             r == ReadEnd(e) IN
         /\ e \in Nat /\ r \in Nat /\ scan.cursor <= e /\ e <= r /\ r <= scan.job.hi
         /\ \A a \in Nat : a < e =>
               (a + Len(scan.job.pat) <= r <=> a + Len(scan.job.pat) <= scan.job.hi)
  <1> DEFINE k == EffectiveChunk
             l == Len(scan.job.pat)
  <1>1. scan.job.hi \in Nat /\ scan.job.chunk \in Nat /\ l \in Nat \ {0} /\ MaxRead \in Nat
    BY ScanJob
  <1>2. scan.cursor \in Nat
    BY DEF ScanTyped
  <1>3. k \in Nat
    <2> DEFINE room == IF MaxRead > l - 1 THEN MaxRead - (l - 1) ELSE 1
    <2>1. room \in Nat
      BY <1>1
    <2>2. k = Least(scan.job.chunk, room)
      BY DEF EffectiveChunk, Overlap
    <2> HIDE DEF room, k
    <2> QED
      BY <1>1, <2>1, <2>2 DEF Least
  <1> HIDE DEF k
  <1> DEFINE e == Least(scan.cursor + k, scan.job.hi)
  <1>4. ReadEnd(e) = IF e < scan.job.hi THEN Least(e + (l - 1), scan.job.hi) ELSE e
    BY DEF ReadEnd, Overlap
  <1> DEFINE r == IF e < scan.job.hi THEN Least(e + (l - 1), scan.job.hi) ELSE e
  <1>5. /\ e \in Nat /\ r \in Nat /\ scan.cursor <= e /\ e <= r /\ r <= scan.job.hi
        /\ \A a \in Nat : a < e => (a + l <= r <=> a + l <= scan.job.hi)
    BY <1>1, <1>2, <1>3, ChunkBounds
  <1>6. ReadEnd(e) = r
    BY <1>4
  <1> HIDE DEF e, r, l
  <1> QED
    BY <1>5, <1>6 DEF e, r, l, k

\* What a chunk adds are occurrences of the range that begin at or above the
\* cursor, and below the next one; a chunk read in full adds all of them.
LEMMA HitsOf ==
  ASSUME ScanTyped, scan.cursor < scan.job.hi, scan.job.lo <= scan.cursor,
         NEW e, NEW r, e = Least(scan.cursor + EffectiveChunk, scan.job.hi), r = ReadEnd(e),
         NEW got \in 0 .. r - scan.cursor
  PROVE  LET H == HitsIn(e, scan.cursor + got)
             d == IF got < r - scan.cursor THEN scan.cursor + got ELSE e IN
         /\ H \in SUBSET Nat /\ IsFiniteSet(H) /\ d \in Nat /\ scan.cursor <= d
         /\ \A a \in H : scan.cursor <= a
         /\ H \subseteq HitsBelow(d)
         /\ got = r - scan.cursor => HitsBelow(scan.cursor) \cup H = HitsBelow(e) /\ d = e
  <1> DEFINE c == scan.cursor
             l == Len(scan.job.pat)
             H == HitsIn(e, c + got)
             d == IF got < r - c THEN c + got ELSE e
  <1>1. /\ e \in Nat /\ r \in Nat /\ c <= e /\ e <= r /\ r <= scan.job.hi
        /\ \A a \in Nat : a < e => (a + l <= r <=> a + l <= scan.job.hi)
    BY ChunkIs
  <1>2. /\ scan.job.lo \in Nat /\ scan.job.hi \in Nat /\ l \in Nat \ {0} /\ c \in Nat
        /\ scan.job.lo <= c
    BY ScanJob DEF ScanTyped
  <1>3. H = {a \in c .. (e - 1) : a + l <= c + got /\ Occurs(a)}
    BY DEF HitsIn
  <1>4. \A x : HitsBelow(x) = {a \in scan.job.lo .. (x - 1) : a + l <= scan.job.hi /\ Occurs(a)}
    BY DEF HitsBelow
  <1>5. d \in Nat /\ c <= d /\ got \in Nat /\ c + got <= r
    BY <1>1, <1>2
  <1> HIDE DEF l, c
  <1>6. \A a \in H : a \in Nat /\ c <= a /\ a < e /\ a + l <= c + got /\ Occurs(a)
    <2> HIDE DEF H
    <2> QED
      BY <1>1, <1>2, <1>3
  <1>7. IsFiniteSet(H)
    <2>1. c \in Int /\ e - 1 \in Int
      BY <1>1, <1>2
    <2>2. IsFiniteSet(c .. (e - 1))
      BY <2>1, FS_Interval
    <2>3. H \subseteq c .. (e - 1)
      BY <1>3
    <2> QED
      BY <2>2, <2>3, FS_Subset
  <1> HIDE DEF H
  <1>8. H \subseteq HitsBelow(d)
    <2> SUFFICES ASSUME NEW a \in H PROVE a \in HitsBelow(d)
      OBVIOUS
    <2>1. a \in Nat /\ c <= a /\ a < e /\ a + l <= c + got /\ Occurs(a)
      BY <1>6
    <2>2. a + l <= scan.job.hi
      BY <1>1, <1>2, <1>5, <2>1
    <2>3. a \in scan.job.lo .. (d - 1)
      BY <1>1, <1>2, <1>5, <2>1
    <2> HIDE DEF d
    <2> QED
      BY <1>4, <2>1, <2>2, <2>3
  <1>9. ASSUME got = r - c
        PROVE  HitsBelow(c) \cup H = HitsBelow(e) /\ d = e
    <2>1. d = e /\ c + got = r
      BY <1>1, <1>2, <1>9
    <2>2. HitsBelow(c) \subseteq HitsBelow(e)
      <3>1. scan.cursor \in Nat /\ scan.cursor <= e
        BY <1>1, <1>2 DEF c
      <3>2. \A x \in Nat : scan.cursor <= x => HitsBelow(scan.cursor) \subseteq HitsBelow(x)
        BY <3>1, HitsBelowIs
      <3> QED
        BY <1>1, <3>1, <3>2 DEF c
    <2>3. \A a \in HitsBelow(e) : a \in HitsBelow(c) \cup H
      <3> SUFFICES ASSUME NEW a \in HitsBelow(e), a \notin HitsBelow(c) PROVE a \in H
        OBVIOUS
      <3>1. a \in scan.job.lo .. (e - 1) /\ a + l <= scan.job.hi /\ Occurs(a)
        BY <1>4
      <3>2. a \notin scan.job.lo .. (c - 1)
        BY <1>4, <3>1
      <3>3. a \in Nat /\ a < e /\ a \in c .. (e - 1)
        BY <1>1, <1>2, <3>1, <3>2
      <3>4. a + l <= c + got
        BY <1>1, <2>1, <3>1, <3>3
      <3> QED
        BY <1>3, <3>1, <3>3, <3>4
    <2> HIDE DEF d
    <2> QED
      BY <1>8, <2>1, <2>2, <2>3
  <1> HIDE DEF d
  <1> QED
    BY <1>5, <1>6, <1>7, <1>8, <1>9 DEF H, c, d

LEMMA ReportTyped ==
  ASSUME NEW found \in Seq(Nat), NEW H \in SUBSET Nat, IsFiniteSet(H), NEW max \in Nat
  PROVE  /\ Prefix(found \o Ascending(H), max) \in Seq(Nat)
         /\ ToSet(Prefix(found \o Ascending(H), max)) \subseteq ToSet(found) \cup H
  <1> DEFINE g == Ascending(H)
             h == found \o g
  <1>1. g \in Seq(Nat) /\ ToSet(g) = H
    BY AscendingIs
  <1> HIDE DEF g
  <1>2. h \in Seq(Nat) /\ ToSet(h) = ToSet(found) \cup H
    BY <1>1, ConcatSet
  <1> HIDE DEF h
  <1>3. Prefix(h, max) \in Seq(Nat) /\ ToSet(Prefix(h, max)) \subseteq ToSet(h)
    BY <1>2, PrefixIs
  <1> QED
    BY <1>2, <1>3 DEF g, h

LEMMA ReportMore ==
  ASSUME NEW found \in Seq(Nat), NEW S \in SUBSET Nat, NEW H \in SUBSET Nat, NEW max \in Nat,
         IsFiniteSet(S), IsFiniteSet(H), \A a \in S, b \in H : a < b,
         Rising(found), ToSet(found) \subseteq S,
         NEW more, more = Prefix(found \o Ascending(H), max)
  PROVE  /\ more \in Seq(Nat) /\ Rising(more) /\ ToSet(more) \subseteq S \cup H
         /\ found = Prefix(Ascending(S), max) => more = Prefix(Ascending(S \cup H), max)
  <1> DEFINE g == Ascending(H)
             h == found \o g
  <1>1. g \in Seq(Nat) /\ Rising(g) /\ ToSet(g) = H
    BY AscendingIs
  <1> HIDE DEF g
  <1>2. \A a \in ToSet(found), b \in ToSet(g) : a < b
    BY <1>1
  <1>3. h \in Seq(Nat) /\ ToSet(h) = ToSet(found) \cup H
    BY <1>1, ConcatSet
  <1>4. Rising(h)
    BY <1>1, <1>2, JoinRising
  <1> HIDE DEF h
  <1>5. /\ Prefix(h, max) \in Seq(Nat) /\ ToSet(Prefix(h, max)) \subseteq ToSet(h)
        /\ Rising(Prefix(h, max))
    BY <1>3, <1>4, PrefixIs
  <1>6. ASSUME found = Prefix(Ascending(S), max)
        PROVE  Prefix(h, max) = Prefix(Ascending(S \cup H), max)
    <2>1. Ascending(S) \in Seq(Nat)
      BY AscendingIs
    <2>2. Prefix(Prefix(Ascending(S), max) \o g, max) = Prefix(Ascending(S) \o g, max)
      BY <1>1, <2>1, PrefixJoin
    <2>3. Ascending(S) \o g = Ascending(S \cup H)
      BY AscendingJoin DEF g
    <2> QED
      BY <1>6, <2>2, <2>3 DEF h
  <1> QED
    BY <1>3, <1>5, <1>6 DEF g, h

LEMMA PatternChunk ==
  ASSUME ScanInv, ScanChunk
  PROVE  ScanInv'
  <1> DEFINE e == Least(scan.cursor + EffectiveChunk, scan.job.hi)
             r == ReadEnd(e)
             c == scan.cursor
  <1>1. /\ DOMAIN scan = ScanFields /\ scan.job \in ScanJobs /\ c \in Nat
        /\ scan.clean \in BOOLEAN /\ scan.job.kind = "pattern" /\ scan.pc = "run"
        /\ scan.job.lo <= c /\ c < scan.job.hi /\ scan.job.max \in Nat /\ ScanTyped
        /\ mem' = mem
    BY ScanJob DEF ScanInv, ScanTyped, ScanOrigin, ScanChunk, Running
  <1>2. /\ scan.found \in Seq(Nat) /\ Rising(scan.found)
        /\ ToSet(scan.found) \subseteq HitsBelow(c)
        /\ scan.clean => scan.found = Prefix(Ascending(HitsBelow(c)), scan.job.max)
    BY <1>1 DEF ScanInv, PatternInv
  <1>3. e \in Nat /\ r \in Nat /\ c <= e /\ e <= r
    BY <1>1, ChunkIs
  <1>0. scan.job.lo \in Nat
    BY <1>1, ScanJob
  <1>4. \/ Skip(e)
        \/ \E got \in 0 .. r - c :
              scan' = [scan EXCEPT
                  !.found = Prefix(scan.found \o Ascending(HitsIn(e, c + got)), scan.job.max),
                  !.cursor = IF got < r - c THEN c + got ELSE e,
                  !.fails = 0,
                  !.clean = scan.clean /\ got = r - c]
    BY <1>1 DEF ScanChunk, ScanFields
  <1> HIDE DEF e, r, c
  <1>5. CASE Skip(e)
    <2>1. /\ DOMAIN scan' = ScanFields /\ scan'.job = scan.job /\ scan'.found = scan.found
          /\ scan'.cursor = e /\ scan'.clean = FALSE /\ scan'.pc \in {"aborted", "run"}
      BY <1>1, <1>5, SkipIs
    <2>2. ScanTyped'
      BY <1>1, <1>3, <2>1 DEF ScanTyped
    <2>3. ScanOrigin'
      BY <1>0, <1>1, <1>3, <2>1 DEF ScanOrigin
    <2>4. HitsBelow(c) \subseteq HitsBelow(e)
      BY <1>1, <1>3, HitsBelowIs
    <2>5. HitsBelow(scan.cursor)' = HitsBelow(e)
      BY <1>1, <2>1 DEF HitsBelow, Occurs
    <2>6. PatternInv'
      BY <1>2, <2>1, <2>4, <2>5 DEF PatternInv
    <2> QED
      BY <1>1, <2>1, <2>2, <2>3, <2>6 DEF ScanInv, ValueInv, NarrowInv
  <1>6. CASE ~Skip(e)
    <2>1. PICK got \in 0 .. r - c :
              scan' = [scan EXCEPT
                  !.found = Prefix(scan.found \o Ascending(HitsIn(e, c + got)), scan.job.max),
                  !.cursor = IF got < r - c THEN c + got ELSE e,
                  !.fails = 0,
                  !.clean = scan.clean /\ got = r - c]
      BY <1>4, <1>6
    <2> DEFINE H == HitsIn(e, c + got)
               d == IF got < r - c THEN c + got ELSE e
               more == Prefix(scan.found \o Ascending(H), scan.job.max)
               k == scan.clean /\ got = r - c
    <2>2. scan' = [scan EXCEPT !.found = more, !.cursor = d, !.fails = 0, !.clean = k]
      BY <2>1
    <2>3. /\ H \in SUBSET Nat /\ IsFiniteSet(H) /\ d \in Nat /\ c <= d
          /\ \A a \in H : c <= a
          /\ H \subseteq HitsBelow(d)
          /\ got = r - c => HitsBelow(c) \cup H = HitsBelow(e) /\ d = e
      BY <1>1, HitsOf DEF e, r, c
    <2>4. k \in BOOLEAN /\ (k => scan.clean /\ got = r - c)
      BY <1>1
    <2> HIDE DEF H, d, k, more
    <2>5. /\ DOMAIN scan' = ScanFields /\ scan'.job = scan.job /\ scan'.found = more
          /\ scan'.cursor = d /\ scan'.clean = k /\ scan'.pc = "run"
      BY <1>1, <2>2 DEF ScanFields
    <2>6. /\ HitsBelow(c) \in SUBSET Nat /\ IsFiniteSet(HitsBelow(c))
          /\ HitsBelow(c) \subseteq HitsBelow(d)
          /\ \A a \in HitsBelow(c) : a < c
      BY <1>1, <2>3, HitsBelowIs
    <2>7. \A a \in HitsBelow(c), b \in H : a < b
      <3> SUFFICES ASSUME NEW a \in HitsBelow(c), NEW b \in H PROVE a < b
        OBVIOUS
      <3>1. a \in Nat /\ b \in Nat /\ a < c /\ c <= b
        BY <2>3, <2>6
      <3> QED
        BY <1>1, <3>1
    <2>8. /\ more \in Seq(Nat) /\ Rising(more) /\ ToSet(more) \subseteq HitsBelow(c) \cup H
          /\ scan.found = Prefix(Ascending(HitsBelow(c)), scan.job.max)
                => more = Prefix(Ascending(HitsBelow(c) \cup H), scan.job.max)
      <3> DEFINE L == HitsBelow(c)
                 old == scan.found
                 limit == scan.job.max
      <3>1. old \in Seq(Nat) /\ Rising(old) /\ ToSet(old) \subseteq L /\ limit \in Nat
        BY <1>1, <1>2
      <3>2. L \in SUBSET Nat /\ IsFiniteSet(L) /\ \A a \in L, b \in H : a < b
        BY <2>6, <2>7
      <3>3. more = Prefix(old \o Ascending(H), limit)
        BY DEF more
      <3> HIDE DEF L, old, limit
      <3>4. /\ more \in Seq(Nat) /\ Rising(more) /\ ToSet(more) \subseteq L \cup H
            /\ old = Prefix(Ascending(L), limit) => more = Prefix(Ascending(L \cup H), limit)
        <4>1. H \in SUBSET Nat /\ IsFiniteSet(H)
          BY <2>3
        <4>2. more \in Seq(Nat) /\ ToSet(more) \subseteq ToSet(old) \cup H
          <5>1. /\ Prefix(old \o Ascending(H), limit) \in Seq(Nat)
                /\ ToSet(Prefix(old \o Ascending(H), limit)) \subseteq ToSet(old) \cup H
            BY <4>1, <3>1, ReportTyped
          <5> QED
            BY <5>1, <3>3
        <4>3. Rising(more)
          BY <4>1, <3>1, <3>2, <3>3, ReportMore
        <4>4. ToSet(more) \subseteq L \cup H
          BY <3>1, <4>2
        <4>5. old = Prefix(Ascending(L), limit) => more = Prefix(Ascending(L \cup H), limit)
          BY <4>1, <3>1, <3>2, <3>3, ReportMore
        <4> QED
          BY <4>2, <4>3, <4>4, <4>5
      <3> QED
        BY <3>4 DEF L, old, limit
    <2>9. HitsBelow(scan.cursor)' = HitsBelow(d)
      BY <1>1, <2>5 DEF HitsBelow, Occurs
    <2>10. ScanTyped'
      BY <1>1, <2>3, <2>4, <2>5 DEF ScanTyped
    <2>11. ScanOrigin'
      BY <1>0, <1>1, <2>3, <2>5 DEF ScanOrigin
    <2>12. ToSet(more) \subseteq HitsBelow(d)
      BY <2>3, <2>6, <2>8
    <2>13. k => more = Prefix(Ascending(HitsBelow(d)), scan.job.max)
      BY <1>2, <2>3, <2>4, <2>8
    <2>14. PatternInv'
      BY <2>5, <2>8, <2>9, <2>12, <2>13 DEF PatternInv
    <2> QED
      BY <1>1, <2>5, <2>10, <2>11, <2>14 DEF ScanInv, ValueInv, NarrowInv
  <1> QED
    BY <1>5, <1>6

\* Aligned addresses are at least a width apart, and a block's length later is
\* aligned again.
LEMMA Multiples ==
  ASSUME NEW x \in Int, NEW y \in Int, NEW w \in Nat \ {0}, x % w = 0, y % w = 0
  PROVE  (x + y) % w = 0 /\ (x < y => x + w <= y)
  <1>1. ASSUME NEW z \in Int, z % w = 0
        PROVE  \E q \in Int : z = q * w
    <2>1. z = (z \div w) * w /\ z \div w \in Int
      BY <1>1
    <2> QED
      BY <2>1
  <1>2. PICK p \in Int : x = p * w
    BY <1>1
  <1>3. PICK q \in Int : y = q * w
    BY <1>1
  <1>4. x + y = (p + q) * w
    BY <1>2, <1>3
  <1>5. \A n \in Int : (n * w) % w = 0
    OBVIOUS
  <1>6. p * w < q * w => p * w + w <= q * w
    OBVIOUS
  <1>7. x < y => x + w <= y
    BY <1>2, <1>3, <1>6
  <1>8. p + q \in Int
    OBVIOUS
  <1> QED
    BY <1>4, <1>5, <1>7, <1>8

\* The hits of a block are addresses of the block.
LEMMA BlockHitsIs ==
  ASSUME ScanTyped, NEW got \in Nat, scan.cursor <= got
  PROVE  BlockHits(got) \in SUBSET Nat /\ IsFiniteSet(BlockHits(got))
  <1>1. scan.cursor \in Nat
    BY DEF ScanTyped
  <1>2. BlockHits(got) \subseteq scan.cursor .. (got - 1)
    BY DEF BlockHits
  <1>3. IsFiniteSet(scan.cursor .. (got - 1))
    <2>1. scan.cursor \in Int /\ got - 1 \in Int
      BY <1>1
    <2> QED
      BY <2>1, FS_Interval
  <1>4. \A a \in scan.cursor .. (got - 1) : a \in Nat
    BY <1>1
  <1> QED
    BY <1>2, <1>3, <1>4, FS_Subset

\* A result that is not full has cut nothing.
LEMMA NotFull ==
  ASSUME NEW found \in Seq(Nat), NEW H \in SUBSET Nat, IsFiniteSet(H), NEW max \in Nat
  PROVE  LET hits == found \o Ascending(H)
             more == Prefix(hits, max) IN
         /\ hits \in Seq(Nat) /\ more \in Seq(Nat)
         /\ Len(hits) >= max => Len(more) >= max
         /\ Len(more) < max => /\ Len(found) < max /\ ToSet(found) \subseteq ToSet(more)
                               /\ H \subseteq ToSet(more)
  <1> DEFINE g == Ascending(H)
             h == found \o g
             p == Prefix(h, max)
  <1>1. g \in Seq(Nat) /\ ToSet(g) = H /\ Len(g) \in Nat
    BY AscendingIs
  <1> HIDE DEF g
  <1>2. h \in Seq(Nat) /\ ToSet(h) = ToSet(found) \cup H
    BY <1>1, ConcatSet
  <1>3. Len(h) = Len(found) + Len(g) /\ Len(found) \in Nat
    BY <1>1, ConcatProperties
  <1> HIDE DEF h
  <1>4. p \in Seq(Nat) /\ Len(p) = Least(max, Len(h)) /\ (Len(h) <= max => p = h)
    BY <1>2, PrefixIs
  <1> HIDE DEF p
  <1>5. Len(h) >= max => Len(p) >= max
    BY <1>1, <1>3, <1>4 DEF Least
  <1>6. ASSUME Len(p) < max
        PROVE  Len(found) < max /\ ToSet(found) \subseteq ToSet(p) /\ H \subseteq ToSet(p)
    <2>1. Len(h) < max
      BY <1>1, <1>3, <1>5, <1>6
    <2>2. p = h /\ Len(found) < max
      BY <1>1, <1>3, <1>4, <2>1
    <2> QED
      BY <1>2, <2>2
  <1> QED
    BY <1>2, <1>4, <1>5, <1>6 DEF g, h, p

\* The end of a block that ends before the range is aligned.
LEMMA BlockEnd ==
  ASSUME ScanTyped, scan.job.kind = "value", scan.job.lo <= scan.cursor,
         scan.cursor < scan.job.hi, Aligned(scan.cursor),
         NEW e, e = Least(scan.cursor + MaxRead, scan.job.hi)
  PROVE  /\ e \in Nat /\ scan.cursor <= e /\ e <= scan.job.hi
         /\ e < scan.job.hi => Aligned(e)
         /\ \A a \in Nat : a < e /\ Aligned(a) /\ a + scan.job.width <= scan.job.hi
                              => a + scan.job.width <= e
  <1> DEFINE c == scan.cursor
             lo == scan.job.lo
             hi == scan.job.hi
             w == scan.job.width
  <1>1. /\ lo \in Nat /\ hi \in Nat /\ w \in Nat \ {0} /\ c \in Nat /\ MaxRead \in Nat
        /\ lo <= c /\ c < hi
    BY ScanJob DEF ScanTyped
  <1>2. MaxRead % w = 0
    BY ScanJob
  <1>3. (c - lo) % w = 0
    BY DEF Aligned
  <1>4. \A a : Aligned(a) <=> (a - lo) % w = 0
    BY DEF Aligned
  <1>5. e = Least(c + MaxRead, hi)
    OBVIOUS
  <1> HIDE DEF c, lo, hi, w
  <1>6. e \in Nat /\ c <= e /\ e <= hi /\ (e < hi => e = c + MaxRead)
    BY <1>1, <1>5 DEF Least
  <1>7. e < hi => (e - lo) % w = 0
    <2>1. c - lo \in Int /\ MaxRead \in Int
      BY <1>1
    <2>2. ((c - lo) + MaxRead) % w = 0
      BY <1>1, <1>2, <1>3, <2>1, Multiples
    <2>3. e < hi => e - lo = (c - lo) + MaxRead
      BY <1>1, <1>6
    <2> QED
      BY <2>2, <2>3
  <1>8. ASSUME NEW a \in Nat, a < e, (a - lo) % w = 0, a + w <= hi
        PROVE  a + w <= e
    <2>1. CASE e = hi
      BY <1>8, <2>1
    <2>2. CASE e # hi
      <3>1. e < hi
        BY <1>1, <1>6, <2>2
      <3>2. (e - lo) % w = 0 /\ a - lo \in Int /\ e - lo \in Int /\ a - lo < e - lo
        BY <1>1, <1>6, <1>7, <1>8, <3>1
      <3>3. (a - lo) + w <= e - lo
        BY <1>1, <1>8, <3>2, Multiples
      <3> QED
        BY <1>1, <1>6, <3>3
    <2> QED
      BY <2>1, <2>2
  <1> QED
    BY <1>4, <1>6, <1>7, <1>8 DEF c, lo, hi, w

LEMMA ValueBlock ==
  ASSUME ScanInv, ValueSegment
  PROVE  ScanInv'
  <1> DEFINE e == Least(scan.cursor + MaxRead, scan.job.hi)
             c == scan.cursor
  <1>1. /\ DOMAIN scan = ScanFields /\ scan.job \in ScanJobs /\ c \in Nat
        /\ scan.clean \in BOOLEAN /\ scan.job.kind = "value" /\ scan.pc = "run"
        /\ scan.job.lo <= c /\ c < scan.job.hi /\ ScanTyped /\ mem' = mem
    BY DEF ScanInv, ScanTyped, ScanOrigin, ValueSegment, Segment, Running
  <1>2. /\ scan.job.lo \in Nat /\ scan.job.hi \in Nat /\ scan.job.max \in Nat
        /\ scan.job.width \in Nat \ {0}
    BY <1>1, ScanJob
  <1>3. scan.found \in Seq(Nat) /\ Aligned(c)
    <2>1. ~(c >= scan.job.hi)
      BY <1>1, <1>2
    <2> QED
      BY <1>1, <2>1 DEF ScanInv, ValueInv
  <1>4. scan.clean /\ Len(scan.found) < scan.job.max =>
              \A a \in scan.job.lo .. (scan.job.hi - scan.job.width) :
                  a < c /\ Aligned(a) /\ Holds(a) => a \in ToSet(scan.found)
    BY <1>1 DEF ScanInv, ValueInv
  <1>5. /\ e \in Nat /\ c <= e /\ e <= scan.job.hi
        /\ e < scan.job.hi => Aligned(e)
        /\ \A a \in Nat : a < e /\ Aligned(a) /\ a + scan.job.width <= scan.job.hi
                              => a + scan.job.width <= e
    BY <1>1, <1>3, BlockEnd
  <1>6. \/ Skip(e)
        \/ \E got \in c .. e :
              LET hits == scan.found \o Ascending(BlockHits(got)) IN
              scan' = [scan EXCEPT !.found = Prefix(hits, scan.job.max), !.cursor = e,
                                   !.fails = 0, !.clean = scan.clean /\ got = e,
                                   !.more = Len(hits) > scan.job.max,
                                   !.pc = IF \/ "value" = "value" /\ Len(hits) >= scan.job.max
                                             \/ Len(hits) > scan.job.max
                                          THEN "end" ELSE scan.pc]
    BY <1>1 DEF ValueSegment, Segment, ScanFields
  <1> HIDE DEF e
  <1>7. ASSUME scan'.job = scan.job, scan'.cursor = e
        PROVE  /\ \A a : (Holds(a) <=> Holds(a)') /\ (Aligned(a) <=> Aligned(a)')
               /\ scan'.cursor >= scan.job.hi \/ Aligned(scan.cursor)'
    <2>1. \A a : (Holds(a) <=> Holds(a)') /\ (Aligned(a) <=> Aligned(a)')
      BY <1>1, <1>7 DEF Holds, Aligned, ValueAt
    <2>2. Aligned(scan.cursor)' <=> Aligned(e)
      BY <1>7 DEF Aligned
    <2>3. e >= scan.job.hi \/ e < scan.job.hi
      BY <1>2, <1>5
    <2> QED
      BY <1>5, <1>7, <2>1, <2>2, <2>3
  <1>8. CASE Skip(e)
    <2>1. /\ DOMAIN scan' = ScanFields /\ scan'.job = scan.job /\ scan'.found = scan.found
          /\ scan'.cursor = e /\ scan'.clean = FALSE /\ scan'.pc \in {"aborted", "run"}
      BY <1>1, <1>8, SkipIs
    <2>2. ScanTyped'
      BY <1>1, <1>5, <2>1 DEF ScanTyped
    <2>3. ScanOrigin'
      BY <1>1, <1>2, <1>5, <2>1 DEF ScanOrigin
    <2>4. scan'.cursor >= scan.job.hi \/ Aligned(scan.cursor)'
      BY <1>7, <2>1
    <2>5. ValueInv'
      BY <1>3, <2>1, <2>4 DEF ValueInv
    <2> QED
      BY <1>1, <2>1, <2>2, <2>3, <2>5 DEF ScanInv, PatternInv, NarrowInv
  <1>9. CASE ~Skip(e)
    <2>1. PICK got \in c .. e :
              LET hits == scan.found \o Ascending(BlockHits(got)) IN
              scan' = [scan EXCEPT !.found = Prefix(hits, scan.job.max), !.cursor = e,
                                   !.fails = 0, !.clean = scan.clean /\ got = e,
                                   !.more = Len(hits) > scan.job.max,
                                   !.pc = IF \/ "value" = "value" /\ Len(hits) >= scan.job.max
                                             \/ Len(hits) > scan.job.max
                                          THEN "end" ELSE scan.pc]
      BY <1>6, <1>9
    <2> DEFINE H == BlockHits(got)
               hits == scan.found \o Ascending(H)
               more == Prefix(hits, scan.job.max)
               k == scan.clean /\ got = e
               over == Len(hits) > scan.job.max
               p == IF \/ "value" = "value" /\ Len(hits) >= scan.job.max
                       \/ Len(hits) > scan.job.max
                    THEN "end" ELSE scan.pc
    <2>2. scan' = [scan EXCEPT !.found = more, !.cursor = e, !.fails = 0, !.clean = k,
                               !.more = over, !.pc = p]
      BY <2>1
    <2>3. H \in SUBSET Nat /\ IsFiniteSet(H)
      <3>1. got \in Nat /\ c <= got
        BY <1>1, <1>5
      <3> QED
        BY <1>1, <3>1, BlockHitsIs
    <2>4. /\ more \in Seq(Nat)
          /\ Len(hits) >= scan.job.max => Len(more) >= scan.job.max
          /\ Len(more) < scan.job.max =>
                /\ Len(scan.found) < scan.job.max
                /\ ToSet(scan.found) \subseteq ToSet(more) /\ H \subseteq ToSet(more)
          /\ hits \in Seq(Nat)
      <3> HIDE DEF H
      <3> QED
        BY <1>2, <1>3, <2>3, NotFull
    <2>5. k \in BOOLEAN /\ (k => scan.clean /\ got = e)
      BY <1>1
    <2>6. p \in {"run", "end"} /\ (p = "end" => Len(more) >= scan.job.max)
      <3>1. Len(hits) \in Nat
        BY <2>4
      <3> HIDE DEF hits, more
      <3>2. Len(hits) > scan.job.max => Len(hits) >= scan.job.max
        BY <1>2, <3>1
      <3> QED
        BY <1>1, <2>4, <3>2
    <2> HIDE DEF hits, more, k, over, p
    <2>7. /\ DOMAIN scan' = ScanFields /\ scan'.job = scan.job /\ scan'.found = more
          /\ scan'.cursor = e /\ scan'.clean = k /\ scan'.pc = p
      BY <1>1, <2>2 DEF ScanFields
    <2>8. ScanTyped'
      BY <1>1, <1>5, <2>5, <2>6, <2>7 DEF ScanTyped
    <2>9. ScanOrigin'
      BY <1>1, <1>2, <1>5, <2>7 DEF ScanOrigin
    <2>10. ASSUME k, Len(more) < scan.job.max,
                  NEW a \in scan.job.lo .. (scan.job.hi - scan.job.width),
                  a < e, Aligned(a), Holds(a)
           PROVE  a \in ToSet(more)
      <3>1. CASE a < c
        BY <1>4, <2>4, <2>5, <2>10, <3>1
      <3>2. CASE ~(a < c)
        <4>1. a \in Nat /\ a \in c .. (e - 1) /\ a + scan.job.width <= scan.job.hi
          BY <1>1, <1>2, <1>5, <2>10, <3>2
        <4>2. a + scan.job.width <= e /\ got = e
          BY <1>5, <2>5, <2>10, <4>1
        <4>3. a \in H
          BY <2>10, <4>1, <4>2 DEF BlockHits, Holds
        <4> HIDE DEF H
        <4> QED
          BY <2>4, <2>10, <4>3
      <3> QED
        BY <3>1, <3>2
    <2>11. /\ \A a : (Holds(a) <=> Holds(a)') /\ (Aligned(a) <=> Aligned(a)')
           /\ scan'.cursor >= scan.job.hi \/ Aligned(scan.cursor)'
      BY <1>7, <2>7
    <2>12. ValueInv'
      <3>1. scan.clean' /\ Len(scan.found') < scan.job'.max =>
              \A a \in scan.job'.lo .. (scan.job'.hi - scan.job'.width) :
                  a < scan.cursor' /\ Aligned(a)' /\ Holds(a)' => a \in ToSet(scan.found')
        <4> SUFFICES ASSUME k, Len(more) < scan.job.max,
                            NEW a \in scan.job.lo .. (scan.job.hi - scan.job.width),
                            a < e, Aligned(a)', Holds(a)'
                     PROVE  a \in ToSet(more)
          BY <2>7
        <4>1. Aligned(a) /\ Holds(a)
          BY <2>11
        <4> QED
          BY <2>10, <4>1
      <3>2. scan.found' \in Seq(Nat)
        BY <2>4, <2>7
      <3>3. scan.pc' = "end" => Len(scan.found') >= scan.job'.max
        BY <2>6, <2>7
      <3> QED
        BY <2>7, <2>11, <3>1, <3>2, <3>3 DEF ValueInv
    <2> QED
      BY <1>1, <2>7, <2>8, <2>9, <2>12 DEF ScanInv, PatternInv, NarrowInv
  <1> QED
    BY <1>8, <1>9

\* The first and the last address of an ascending list bound the others.
LEMMA AscendingEnds ==
  ASSUME NEW S \in SUBSET Nat, IsFiniteSet(S), S # {}
  PROVE  LET f == Ascending(S) IN
         /\ Head(f) \in S /\ Last(f) \in S
         /\ \A a \in S : Head(f) <= a /\ a <= Last(f)
  <1> DEFINE f == Ascending(S)
             n == Len(f)
  <1>1. f \in Seq(S) /\ f \in Seq(Nat) /\ Rising(f) /\ ToSet(f) = S
    BY AscendingIs
  <1> HIDE DEF f
  <1>2. n \in Nat /\ DOMAIN f = 1 .. n /\ \A i \in 1 .. n : f[i] \in S /\ f[i] \in Nat
    BY <1>1, ElementOfSeq
  <1>3. \A a \in S : \E i \in 1 .. n : f[i] = a
    BY <1>1, <1>2 DEF ToSet
  <1>4. n > 0 /\ 1 \in 1 .. n /\ n \in 1 .. n
    <2>1. PICK i \in 1 .. n : TRUE
      BY <1>3
    <2> QED
      BY <1>2, <2>1
  <1>5. Head(f) = f[1] /\ Last(f) = f[n]
    <2>1. f # <<>>
      BY <1>2, <1>4
    <2>2. Head(f) = f[1]
      BY <1>1, <2>1, HeadTailProperties
    <2> QED
      BY <2>2 DEF Last
  <1> HIDE DEF n
  <1>6. \A i \in 1 .. n : f[1] <= f[i] /\ f[i] <= f[n]
    <2> SUFFICES ASSUME NEW i \in 1 .. n PROVE f[1] <= f[i] /\ f[i] <= f[n]
      OBVIOUS
    <2>1. (i = 1 \/ 1 < i) /\ (i = n \/ i < n)
      BY <1>2
    <2>2. f[1] \in Nat /\ f[i] \in Nat /\ f[n] \in Nat
      BY <1>2, <1>4
    <2>3. (1 < i => f[1] < f[i]) /\ (i < n => f[i] < f[n])
      BY <1>1, <1>2, <1>4 DEF Rising
    <2> QED
      BY <2>1, <2>2, <2>3
  <1>7. \A a \in S : f[1] <= a /\ a <= f[n]
    BY <1>3, <1>6
  <1> QED
    BY <1>2, <1>4, <1>5, <1>7 DEF f

\* A run is an ascending list of candidates, the first of which begins it.
LEMMA RunIs ==
  ASSUME NEW S \in SUBSET Nat, IsFiniteSet(S), scan.job.width \in Nat
  PROVE  /\ RunStarts(S) \in SUBSET Nat /\ IsFiniteSet(RunStarts(S))
         /\ Len(MergeRuns(S)) = Cardinality(RunStarts(S)) /\ Len(MergeRuns(S)) \in Nat
         /\ \A i \in 1 .. Len(MergeRuns(S)) :
               LET g == Ascending(RunStarts(S))[i] IN
               /\ g \in RunStarts(S) /\ MergeRuns(S)[i] = Ascending(RunFrom(g, S))
               /\ RunFrom(g, S) \in SUBSET S /\ IsFiniteSet(RunFrom(g, S)) /\ g \in RunFrom(g, S)
  <1> DEFINE G == RunStarts(S)
             f == Ascending(G)
             n == Cardinality(G)
  <1>1. G \in SUBSET S
    BY DEF RunStarts
  <1>2. G \in SUBSET Nat /\ IsFiniteSet(G)
    BY <1>1, FS_Subset
  <1>3. f \in Seq(G) /\ Len(f) = n /\ n \in Nat
    BY <1>2, AscendingIs
  <1>4. MergeRuns(S) = [i \in 1 .. n |-> Ascending(RunFrom(f[i], S))]
    BY DEF MergeRuns
  <1> HIDE DEF f, n
  <1>5. Len(MergeRuns(S)) = n
    BY <1>3, <1>4
  <1>6. ASSUME NEW i \in 1 .. n
        PROVE  /\ f[i] \in G /\ MergeRuns(S)[i] = Ascending(RunFrom(f[i], S))
               /\ RunFrom(f[i], S) \in SUBSET S /\ IsFiniteSet(RunFrom(f[i], S))
               /\ f[i] \in RunFrom(f[i], S)
    <2>1. f[i] \in G
      BY <1>3, ElementOfSeq
    <2>2. MergeRuns(S)[i] = Ascending(RunFrom(f[i], S))
      BY <1>4
    <2>3. RunFrom(f[i], S) \in SUBSET S
      BY DEF RunFrom
    <2>4. IsFiniteSet(RunFrom(f[i], S))
      BY <2>3, FS_Subset
    <2>5. f[i] \in S /\ f[i] \in Nat
      BY <1>1, <2>1
    <2>6. f[i] \in RunFrom(f[i], S)
      BY <2>5 DEF RunFrom
    <2> QED
      BY <2>1, <2>2, <2>3, <2>4, <2>6
  <1> QED
    BY <1>2, <1>3, <1>5, <1>6 DEF f, n

\* No candidate is left out: it belongs to the run that begins last at or below it.
LEMMA RunsCover ==
  ASSUME NEW S \in SUBSET Nat, IsFiniteSet(S), scan.job.width \in Nat, NEW a \in S
  PROVE  \E i \in 1 .. Len(MergeRuns(S)) : a \in ToSet(MergeRuns(S)[i])
  <1> DEFINE G == RunStarts(S)
             B == {g \in G : g <= a}
  <1>1. G \in SUBSET S /\ G \in SUBSET Nat /\ IsFiniteSet(G) /\ S # {}
    BY RunIs DEF RunStarts
  <1>2. B # {}
    <2> DEFINE m == Head(Ascending(S))
    <2>1. m \in S /\ \A b \in S : m <= b
      BY <1>1, AscendingEnds
    <2> HIDE DEF m
    <2>2. m \in G
      <3>1. \A b \in S : ~(b < m)
        BY <2>1
      <3> QED
        BY <2>1, <3>1 DEF RunStarts
    <2> HIDE DEF G
    <2> QED
      BY <2>1, <2>2
  <1>3. B \in SUBSET Nat /\ IsFiniteSet(B)
    BY <1>1, FS_Subset
  <1> DEFINE g == Last(Ascending(B))
  <1> HIDE DEF G
  <1>4. g \in B /\ \A b \in B : b <= g
    BY <1>2, <1>3, AscendingEnds
  <1> HIDE DEF g
  <1>5. g \in G /\ g <= a /\ \A b \in G : b <= a => b <= g
    BY <1>4
  <1>6. a \in RunFrom(g, S)
    BY <1>5 DEF RunFrom, G
  <1>7. ToSet(Ascending(G)) = G /\ DOMAIN Ascending(G) = 1 .. Cardinality(G)
    BY <1>1, AscendingIs
  <1>8. PICK i \in 1 .. Cardinality(G) : Ascending(G)[i] = g
    BY <1>5, <1>7 DEF ToSet
  <1>9. i \in 1 .. Len(MergeRuns(S))
    BY RunIs DEF G
  <1>10. MergeRuns(S)[i] = Ascending(RunFrom(g, S)) /\ RunFrom(g, S) \in SUBSET S
         /\ IsFiniteSet(RunFrom(g, S))
    BY <1>8, <1>9, RunIs DEF G
  <1>11. RunFrom(g, S) \in SUBSET Nat
    BY <1>10
  <1>12. ToSet(MergeRuns(S)[i]) = RunFrom(g, S)
    BY <1>10, <1>11, AscendingIs
  <1> QED
    BY <1>6, <1>9, <1>12

LEMMA NarrowOneRun ==
  ASSUME ScanInv, NarrowRun
  PROVE  ScanInv'
  <1> DEFINE from == scan.job.from
             runs == MergeRuns(from)
             c == scan.cursor
             w == scan.job.width
             run == runs[c]
             data == Head(run) + RunSpan(run)
             part(got) == {a \in ToSet(run) : a + w <= got /\ Holding(a)}
             single == {a \in ToSet(run) : Readable(a, a + w) /\ Holding(a)}
             Kept(X, all) == scan' = [scan EXCEPT !.cursor = c + 1, !.clean = scan.clean /\ all,
                                                  !.found = scan.found \o Ascending(X)]
  <1>1. /\ DOMAIN scan = ScanFields /\ scan.job \in ScanJobs /\ c \in Nat
        /\ scan.clean \in BOOLEAN /\ scan.job.kind = "narrow" /\ scan.pc = "run"
        /\ ScanTyped
    BY DEF ScanInv, ScanTyped, NarrowRun, Running
  <1>2. from \in SUBSET Nat /\ IsFiniteSet(from) /\ w \in Nat
    BY <1>1, ScanJob
  <1>3. mem' = mem /\ hole' = hole /\ c <= Len(runs)
    BY <1>1 DEF NarrowRun, Now
  <1>8. \/ /\ Readable(Head(run), data)
           /\ \E got \in Head(run) .. data : Kept(part(got), got = data)
        \/ \E lost \in SUBSET single : Kept(single \ lost, lost = {})
    BY <1>1 DEF NarrowRun, Now, ScanFields
  <1>4. /\ scan.found \in Seq(Nat) /\ ToSet(scan.found) \subseteq {a \in RunsDone : Survives(a)}
        /\ scan.clean => {a \in RunsDone : Survives(a)} \subseteq ToSet(scan.found)
    BY <1>1 DEF ScanInv, NarrowInv
  <1>5. data = Head(run) + (Last(run) - Head(run) + w)
    BY DEF RunSpan
  <1> HIDE DEF data, Kept
  <1>6. CASE c \in 1 .. Len(runs)
    <2>1. PICK S \in SUBSET from : run = Ascending(S) /\ IsFiniteSet(S) /\ S # {}
      <3> DEFINE g == Ascending(RunStarts(from))[c]
      <3>1. /\ run = Ascending(RunFrom(g, from)) /\ RunFrom(g, from) \in SUBSET from
            /\ IsFiniteSet(RunFrom(g, from)) /\ g \in RunFrom(g, from)
        BY <1>2, <1>6, RunIs
      <3> HIDE DEF g, run, from
      <3> QED
        BY <3>1
    <2>2. ToSet(run) = S /\ S \in SUBSET Nat
      BY <1>2, <2>1, AscendingIs
    <2>3. /\ Head(run) \in Nat /\ Last(run) \in Nat
          /\ \A a \in S : a \in Nat /\ Head(run) <= a /\ a <= Last(run)
      BY <2>1, <2>2, AscendingEnds
    <2> HIDE DEF run
    <2>4. PICK X \in SUBSET {a \in S : Survives(a)}, all \in BOOLEAN :
             Kept(X, all) /\ (all => X = {a \in S : Survives(a)})
      <3>1. single = {a \in S : Survives(a)}
        BY <2>2 DEF Survives
      <3>2. CASE \E lost \in SUBSET single : Kept(single \ lost, lost = {})
        <4>1. PICK lost \in SUBSET single : Kept(single \ lost, lost = {})
          BY <3>2
        <4> DEFINE X == single \ lost
                   all == lost = {}
        <4>2. X \in SUBSET {a \in S : Survives(a)} /\ all \in BOOLEAN
              /\ (all => X = {a \in S : Survives(a)}) /\ Kept(X, all)
          BY <3>1, <4>1
        <4> HIDE DEF X, all
        <4> QED
          BY <4>2
      <3>3. CASE /\ Readable(Head(run), data)
                 /\ \E got \in Head(run) .. data : Kept(part(got), got = data)
        <4>1. PICK got \in Head(run) .. data : Kept(part(got), got = data)
          BY <3>3
        <4>2. data = Last(run) + w
          BY <1>2, <1>5, <2>3
        <4>3. \A a \in S : a + w <= data /\ Readable(a, a + w)
          <5> SUFFICES ASSUME NEW a \in S PROVE a + w <= data /\ Readable(a, a + w)
            OBVIOUS
          <5>1. a \in Nat /\ Head(run) <= a /\ a <= Last(run)
            BY <2>3
          <5>2. a + w <= data
            BY <1>2, <2>3, <4>2, <5>1
          <5>3. a .. (a + w - 1) \subseteq Head(run) .. (data - 1)
            BY <1>2, <2>3, <4>2, <5>1
          <5>4. hole \notin Head(run) .. (data - 1)
            BY <3>3 DEF Readable
          <5>5. hole \notin a .. (a + w - 1)
            BY ONLY <5>3, <5>4, Zenon
          <5>6. Readable(a, a + w)
            BY <1>2, <5>1, <5>5 DEF Readable
          <5> QED
            BY <5>2, <5>6
        <4> DEFINE X == part(got)
                   all == got = data
        <4>4. X = {a \in S : a + w <= got /\ Holding(a)}
          BY <2>2
        <4>5. all \in BOOLEAN /\ Kept(X, all)
          BY <4>1
        <4>6. X \in SUBSET {a \in S : Survives(a)}
          BY <4>3, <4>4 DEF Survives
        <4>7. all => X = {a \in S : Survives(a)}
          BY <4>3, <4>4 DEF Survives
        <4> HIDE DEF X, all
        <4> QED
          BY <4>5, <4>6, <4>7
      <3> QED
        BY <1>8, <3>2, <3>3
    <2> DEFINE found == scan.found \o Ascending(X)
    <2>5. found \in Seq(Nat) /\ ToSet(found) = ToSet(scan.found) \cup X
      <3>1. X \in SUBSET Nat /\ IsFiniteSet(X)
        <4>1. X \in SUBSET S
          OBVIOUS
        <4> QED
          BY <2>1, <2>2, <4>1, FS_Subset
      <3> DEFINE g == Ascending(X)
      <3>2. g \in Seq(Nat) /\ ToSet(g) = X
        BY <3>1, AscendingIs
      <3> HIDE DEF g
      <3>3. scan.found \o g \in Seq(Nat) /\ ToSet(scan.found \o g) = ToSet(scan.found) \cup X
        BY <1>4, <3>2, ConcatSet
      <3> QED
        BY <3>3 DEF g
    <2>6. scan' = [scan EXCEPT !.cursor = c + 1, !.clean = scan.clean /\ all, !.found = found]
      BY <2>4 DEF Kept
    <2> HIDE DEF found
    <2>7. /\ DOMAIN scan' = ScanFields /\ scan'.job = scan.job /\ scan'.found = found
          /\ scan'.cursor = c + 1 /\ scan'.clean = (scan.clean /\ all) /\ scan'.pc = "run"
      BY <1>1, <2>6 DEF ScanFields
    <2>8. ScanTyped' /\ ScanOrigin'
      <3>1. ScanTyped'
        BY <1>1, <2>7 DEF ScanTyped
      <3> QED
        BY <1>1, <2>7, <3>1 DEF ScanOrigin
    <2>9. RunsDone' = RunsDone \cup S
      <3>1. MergeRuns(scan.job.from)' = runs
        BY <2>7 DEF MergeRuns, RunStarts, RunFrom
      <3>2. RunsDone' = {a \in from : \E i \in 1 .. Len(runs) : i < c + 1 /\ a \in ToSet(runs[i])}
        BY <2>7, <3>1 DEF RunsDone
      <3>3. RunsDone = {a \in from : \E i \in 1 .. Len(runs) : i < c /\ a \in ToSet(runs[i])}
        BY DEF RunsDone
      <3>4. Len(runs) \in Nat
        BY <1>2, RunIs
      <3>5. ToSet(runs[c]) = S
        BY <2>2 DEF run
      <3> HIDE DEF runs, from
      <3>6. \A i \in 1 .. Len(runs) : i < c + 1 <=> (i < c \/ i = c)
        BY <1>1, <3>4
      <3> QED
        BY <1>6, <3>2, <3>3, <3>5, <3>6
    <2>10. \A a : Survives(a) <=> Survives(a)'
      BY <1>3, <2>7 DEF Survives, Readable, Holding, ValueAt
    <2>11. {a \in RunsDone' : Survives(a)'} =
             {a \in RunsDone : Survives(a)} \cup {a \in S : Survives(a)}
      BY <2>9, <2>10
    <2>12. /\ ToSet(scan.found)' = ToSet(scan.found) \cup X
           /\ scan'.clean => scan.clean /\ all
      BY <1>1, <2>5, <2>7
    <2>13. NarrowInv'
      <3>1. ToSet(scan.found)' \subseteq {a \in RunsDone' : Survives(a)'}
        BY <1>4, <2>11, <2>12
      <3>2. scan'.clean => {a \in RunsDone' : Survives(a)'} \subseteq ToSet(scan.found)'
        BY <1>4, <2>4, <2>11, <2>12
      <3> QED
        BY <2>5, <2>7, <3>1, <3>2 DEF NarrowInv
    <2> QED
      BY <1>1, <2>7, <2>8, <2>13 DEF ScanInv, PatternInv, ValueInv
  <1>7. c # 0
    BY <1>1 DEF ScanInv, ScanOrigin
  <1> QED
    BY <1>1, <1>2, <1>3, <1>6, <1>7, RunIs

LEMMA ScanStep == ScanInv /\ [ScanNext]_scanVars => ScanInv'
  <1>1. CASE ScanInv /\ Dispatch
    BY <1>1, DispatchScan
  <1>2. CASE ScanInv /\ ScanChunk
    BY <1>2, PatternChunk
  <1>3. CASE ScanInv /\ ValueSegment
    BY <1>3, ValueBlock
  <1>4. CASE ScanInv /\ NarrowRun
    BY <1>4, NarrowOneRun
  <1>5. CASE ScanInv /\ (ScanPatternEnds \/ SegmentsEnd \/ NarrowEnds)
    BY <1>5, EndScan
  <1>6. CASE ScanInv /\ (\/ ReadBytes \/ ReadString \/ Disassemble \/ StringSegment
                         \/ Poke \/ Poll \/ PollEnds)
    BY <1>6, OtherScans
  <1>7. CASE ScanInv /\ UNCHANGED scanVars
    BY <1>7, StutterScan
  <1> QED
    BY <1>1, <1>2, <1>3, <1>4, <1>5, <1>6, <1>7 DEF ScanNext

\* A pattern scan that ended has gone through the range or is full, so it has
\* reported what there is, up to the limit.
LEMMA PatternEnded ==
  ASSUME ScanInv
  PROVE  ScanFinds
  <1> SUFFICES ASSUME scan.job.kind = "pattern" PROVE ScanFinds
    BY DEF ScanFinds
  <1> DEFINE lo == scan.job.lo
             hi == scan.job.hi
             max == scan.job.max
             c == scan.cursor
             l == Len(scan.job.pat)
             all == {a \in lo .. (hi - l) : Occurs(a)}
             below == HitsBelow(c)
  <1>1. lo \in Nat /\ hi \in Nat /\ max \in Nat /\ l \in Nat \ {0} /\ c \in Nat /\ ScanTyped
    BY ScanJob DEF ScanInv, ScanTyped
  <1>2. /\ scan.found \in Seq(Nat) /\ Rising(scan.found) /\ ToSet(scan.found) \subseteq below
        /\ scan.clean => scan.found = Prefix(Ascending(below), max)
        /\ scan.pc = "end" => c >= hi \/ Len(scan.found) >= max
    BY DEF ScanInv, PatternInv
  <1>3. below = {a \in lo .. (c - 1) : a + l <= hi /\ Occurs(a)}
    BY DEF HitsBelow
  <1>4. below \in SUBSET Nat /\ IsFiniteSet(below)
    BY <1>1, HitsBelowIs
  <1> HIDE DEF lo, hi, max, c, l, below
  <1>5. below \subseteq all /\ \A a \in all : a \in below \/ c <= a
    <2>1. \A a \in lo .. (c - 1) : a + l <= hi => a \in lo .. (hi - l)
      BY <1>1
    <2>2. \A a \in lo .. (hi - l) : a + l <= hi /\ (a \in lo .. (c - 1) \/ c <= a)
      BY <1>1
    <2> QED
      BY <1>3, <2>1, <2>2
  <1>6. c >= hi => below = all
    <2>1. \A a \in lo .. (hi - l) : c >= hi => ~(c <= a)
      BY <1>1
    <2> QED
      BY <1>5, <2>1
  <1>7. all \in SUBSET Nat /\ IsFiniteSet(all)
    <2>1. lo \in Int /\ hi - l \in Int
      BY <1>1
    <2>2. IsFiniteSet(lo .. (hi - l))
      BY <2>1, FS_Interval
    <2>3. \A a \in lo .. (hi - l) : a \in Nat
      BY <1>1
    <2> QED
      BY <2>2, <2>3, FS_Subset
  <1> DEFINE rest == all \ below
  <1>8. /\ rest \in SUBSET Nat /\ IsFiniteSet(rest) /\ below \cup rest = all
        /\ \A a \in below, b \in rest : a < b
    <2>1. rest \in SUBSET all /\ below \cup rest = all /\ \A b \in rest : c <= b /\ b \in Nat
      BY <1>5, <1>7
    <2>2. IsFiniteSet(rest)
      BY <1>7, <2>1, FS_Subset
    <2>3. \A a \in below : a \in Nat /\ a < c
      <3>1. \A a \in lo .. (c - 1) : a \in Nat /\ a < c
        BY <1>1
      <3> QED
        BY <1>3, <3>1
    <2>4. \A x, y \in Nat : x < c /\ c <= y => x < y
      BY <1>1
    <2> HIDE DEF rest, all
    <2>5. \A a \in below, b \in rest : a < b
      BY <2>1, <2>3, <2>4
    <2> QED
      BY <1>7, <2>1, <2>2, <2>5
  <1> HIDE DEF all, rest
  <1>9. ASSUME scan.pc = "end", scan.clean
        PROVE  scan.found = Prefix(Ascending(all), max)
    <2>1. scan.found = Prefix(Ascending(below), max)
      BY <1>2, <1>9
    <2>2. CASE c >= hi
      BY <1>6, <2>1, <2>2
    <2>3. CASE Len(scan.found) >= max
      <3>1. Ascending(below) \in Seq(Nat) /\ Ascending(rest) \in Seq(Nat)
        BY <1>4, <1>8, AscendingIs
      <3>2. Ascending(below) \o Ascending(rest) = Ascending(all)
        BY <1>4, <1>8, AscendingJoin
      <3>3. Prefix(Ascending(below) \o Ascending(rest), max) = Prefix(Ascending(below), max)
        <4> DEFINE s == Ascending(below)
                   t == Ascending(rest)
        <4>1. s \in Seq(Nat) /\ t \in Seq(Nat) /\ Len(Prefix(s, max)) >= max
          BY <2>1, <2>3, <3>1
        <4> HIDE DEF s, t
        <4>2. Prefix(s \o t, max) = Prefix(s, max)
          BY <1>1, <4>1, PrefixJoin
        <4> QED
          BY <4>2 DEF s, t
      <3> QED
        BY <2>1, <3>2, <3>3
    <2> QED
      BY <1>2, <1>9, <2>2, <2>3
  <1>10. ToSet(scan.found) \subseteq all
    BY <1>2, <1>5
  <1>11. \A i, j \in DOMAIN scan.found : i < j => scan.found[i] < scan.found[j]
    BY <1>2 DEF Rising
  <1> QED
    BY <1>9, <1>10, <1>11 DEF ScanFinds, all, lo, hi, max, l

\* A value scan that is not full has gone through the whole range.
LEMMA ValueEnded ==
  ASSUME ScanInv
  PROVE  ValueScanFinds
  <1> SUFFICES ASSUME scan.job.kind = "value", scan.pc = "end", scan.clean,
                      Len(scan.found) < scan.job.max,
                      NEW a \in scan.job.lo .. (scan.job.hi - scan.job.width),
                      (a - scan.job.lo) % scan.job.width = 0,
                      ValueAt(a, scan.job.width) = scan.job.pat[1]
               PROVE  a \in ToSet(scan.found)
    BY DEF ValueScanFinds, JobEnded
  <1>1. /\ scan.job.lo \in Nat /\ scan.job.hi \in Nat /\ scan.job.max \in Nat
        /\ scan.job.width \in Nat \ {0} /\ scan.cursor \in Nat
    BY ScanJob DEF ScanInv, ScanTyped
  <1>2. scan.found \in Seq(Nat) /\ (scan.cursor >= scan.job.hi \/ Len(scan.found) >= scan.job.max)
    BY DEF ScanInv, ValueInv
  <1>3. Len(scan.found) \in Nat
    BY <1>2
  <1>4. a < scan.cursor
    BY <1>1, <1>2, <1>3
  <1>5. Aligned(a) /\ Holds(a)
    BY DEF Aligned, Holds
  <1> QED
    BY <1>4, <1>5 DEF ScanInv, ValueInv

\* A narrowing that ended has read every run, and every candidate is in one.
LEMMA NarrowEnded ==
  ASSUME ScanInv
  PROVE  NarrowIsExact
  <1> SUFFICES ASSUME scan.job.kind = "narrow", scan.pc = "end" PROVE NarrowIsExact
    BY DEF NarrowIsExact, JobEnded
  <1> DEFINE from == scan.job.from
             runs == MergeRuns(from)
  <1>1. from \in SUBSET Nat /\ IsFiniteSet(from) /\ scan.job.width \in Nat /\ scan.cursor \in Nat
    BY ScanJob DEF ScanInv, ScanTyped
  <1>2. /\ ToSet(scan.found) \subseteq {a \in RunsDone : Survives(a)}
        /\ scan.clean => {a \in RunsDone : Survives(a)} \subseteq ToSet(scan.found)
        /\ scan.cursor > Len(runs)
    BY DEF ScanInv, NarrowInv
  <1>3. Len(runs) \in Nat
    BY <1>1, RunIs
  <1>4. RunsDone = from
    <2>1. \A a \in from : \E i \in 1 .. Len(runs) : a \in ToSet(runs[i])
      BY <1>1, RunsCover
    <2>2. RunsDone = {a \in from : \E i \in 1 .. Len(runs) :
                                       i < scan.cursor /\ a \in ToSet(runs[i])}
      BY DEF RunsDone
    <2> HIDE DEF runs, from
    <2>3. \A i \in 1 .. Len(runs) : i < scan.cursor
      BY <1>1, <1>2, <1>3
    <2> QED
      BY <2>1, <2>2, <2>3
  <1> QED
    BY <1>2, <1>4 DEF NarrowIsExact, Survivors, Survives

\* The chunks of scan_memory, the segments of _scan_value and the merged runs of
\* _narrow_candidates change the requests and not the answer: for any memory,
\* any unmapped hole, any lengths of chunks and reads, and any reads that fail,
\* time out or come back short.
THEOREM ScansCorrect == ScanSpec => []ScansAreExact
  <1>1. ScanInv => ScansAreExact
    BY PatternEnded, ValueEnded, NarrowEnded DEF ScansAreExact
  <1> QED
    BY <1>1, ScanInitInv, ScanStep, PTL DEF ScanSpec
===========================================================================
