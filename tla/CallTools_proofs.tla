-------------------------- MODULE CallTools_proofs --------------------------
(***************************************************************************)
(* What PPSSPP is asked by the query tools and in which state of the CPU,  *)
(* for any tool whose plan is sound and any number of calls; and what the  *)
(* caller of a request that is not answered is told, for any number of     *)
(* calls and any size of the ring of call records.                         *)
(***************************************************************************)
EXTENDS QueryTools, CallDiagnosis, SequenceTheorems, TLAPS

-----------------------------------------------------------------------------
(* The plans: for any plan that is sound, and so for every tool *)

StepEvents == {"cpu.setReg", "cpu.evaluate", "cpu.stepOver", "cpu.stepOut", "hle.thread.wake",
    "hle.thread.stop", "hle.backtrace", "hle.func.scan", "hle.func.add", "hle.func.remove",
    "gpu.buffer.renderColor", "gpu.buffer.renderDepth", "gpu.buffer.renderStencil",
    "gpu.buffer.texture", "gpu.buffer.clut"}

\* What a table says of an event is what the two sets above say.
Classified(f) ==
    \A e \in DOMAIN f : /\ f[e] = "stepping" <=> e \in StepEvents
                        /\ f[e] = "running" <=> e \in FrameEvents

LEMMA MergeIs ==
  ASSUME NEW f, NEW g
  PROVE  /\ DOMAIN Merge(f, g) = DOMAIN f \cup DOMAIN g
         /\ \A x \in DOMAIN f : Merge(f, g)[x] = f[x]
         /\ \A x \in DOMAIN g : x \notin DOMAIN f => Merge(f, g)[x] = g[x]
  <1>1. DOMAIN Merge(f, g) = DOMAIN f \cup DOMAIN g
    BY Zenon DEF Merge
  <1>2. \A x \in DOMAIN f : Merge(f, g)[x] = f[x]
    BY Zenon DEF Merge
  <1>3. \A x \in DOMAIN g : x \notin DOMAIN f => Merge(f, g)[x] = g[x]
    BY Zenon DEF Merge
  <1> QED
    BY <1>1, <1>2, <1>3

LEMMA MergeDomain ==
  ASSUME NEW f, NEW g
  PROVE  /\ DOMAIN (f ++ g) = DOMAIN f \cup DOMAIN g
         /\ \A x \in DOMAIN f : (f ++ g)[x] = f[x]
         /\ \A x \in DOMAIN g : x \notin DOMAIN f => (f ++ g)[x] = g[x]
  <1>1. f ++ g = Merge(f, g)
    BY Zenon DEF ++
  <1>2. /\ DOMAIN Merge(f, g) = DOMAIN f \cup DOMAIN g
        /\ \A x \in DOMAIN f : Merge(f, g)[x] = f[x]
        /\ \A x \in DOMAIN g : x \notin DOMAIN f => Merge(f, g)[x] = g[x]
    BY MergeIs, Zenon
  <1> QED
    BY <1>1, <1>2

LEMMA MergeClassified ==
  ASSUME NEW f, NEW g, Classified(f), Classified(g)
  PROVE  Classified(f ++ g)
  <1> SUFFICES ASSUME NEW e \in DOMAIN (f ++ g)
               PROVE  /\ (f ++ g)[e] = "stepping" <=> e \in StepEvents
                      /\ (f ++ g)[e] = "running" <=> e \in FrameEvents
    BY Zenon DEF Classified
  <1>0. /\ DOMAIN (f ++ g) = DOMAIN f \cup DOMAIN g
        /\ \A x \in DOMAIN f : (f ++ g)[x] = f[x]
        /\ \A x \in DOMAIN g : x \notin DOMAIN f => (f ++ g)[x] = g[x]
    BY MergeDomain, Zenon
  <1>1. CASE e \in DOMAIN f
    <2>1. (f ++ g)[e] = f[e]
      BY <1>1, <1>0, Zenon
    <2> QED
      BY <1>1, <2>1, Zenon DEF Classified
  <1>2. CASE e \in DOMAIN g /\ e \notin DOMAIN f
    <2>1. (f ++ g)[e] = g[e]
      BY <1>2, <1>0, Zenon
    <2> QED
      BY <1>2, <2>1, Zenon DEF Classified
  <1> QED
    BY <1>0, <1>1, <1>2, Zenon

LEMMA ContractClassified == Classified(Contract)
  <1> USE MergeClassified
  <1>1. Classified(MemoryEvents)
    BY DEF MemoryEvents, All, Classified, StepEvents, FrameEvents
  <1>2. Classified(CpuEvents)
    <2>1. Classified(All({"cpu.getAllRegs", "cpu.getReg", "cpu.status"}, "none"))
      BY DEF All, Classified, StepEvents, FrameEvents
    <2>2. Classified(All({"cpu.setReg", "cpu.evaluate"}, "stepping"))
      BY DEF All, Classified, StepEvents, FrameEvents
    <2> QED
      BY <2>1, <2>2 DEF CpuEvents
  <1>3. Classified(SteppingEvents)
    <2>1. Classified(All({"cpu.stepInto", "cpu.runUntil", "cpu.nextHLE", "cpu.stepping",
                          "cpu.resume"}, "none"))
      BY DEF All, Classified, StepEvents, FrameEvents
    <2>2. Classified(All({"cpu.stepOver", "cpu.stepOut"}, "stepping"))
      BY DEF All, Classified, StepEvents, FrameEvents
    <2> QED
      BY <2>1, <2>2 DEF SteppingEvents
  <1>4. Classified(BreakpointEvents)
    BY DEF BreakpointEvents, All, Classified, StepEvents, FrameEvents
  <1>5. Classified(HleEvents)
    <2>1. Classified(All({"hle.thread.list", "hle.module.list", "hle.func.list"}, "none"))
      BY DEF All, Classified, StepEvents, FrameEvents
    <2>2. Classified(All({"hle.thread.wake", "hle.thread.stop", "hle.backtrace", "hle.func.scan",
                          "hle.func.add", "hle.func.remove"}, "stepping"))
      BY DEF All, Classified, StepEvents, FrameEvents
    <2> QED
      BY <2>1, <2>2 DEF HleEvents
  <1>6. Classified(DisasmEvents) /\ Classified(InputEvents) /\ Classified(SystemEvents)
    BY DEF DisasmEvents, InputEvents, SystemEvents, All, Classified, StepEvents, FrameEvents
  <1>7. Classified(BufferEvents) /\ Classified(FlipEvents)
    BY DEF BufferEvents, FlipEvents, All, Classified, StepEvents, FrameEvents
  <1>8. Classified(ReplayEvents) /\ Classified(FeedEvents)
    BY DEF ReplayEvents, FeedEvents, All, Classified, StepEvents, FrameEvents
  <1> QED
    BY <1>1, <1>2, <1>3, <1>4, <1>5, <1>6, <1>7, <1>8 DEF Contract

\* The events the tools ask.
PlanEvents == StepEvents \cup {"gpu.record.dump", "cpu.getReg", "cpu.getAllRegs",
    "hle.module.list", "hle.func.list", "hle.thread.list", "memory.disasm", "memory.assemble",
    "game.status", "memory.mapping", "game.reset", "memory.info.search"}

LEMMA Domains ==
  ASSUME NEW S, NEW need, NEW f, NEW g
  PROVE  DOMAIN All(S, need) = S /\ DOMAIN (f ++ g) = DOMAIN f \cup DOMAIN g
  BY MergeDomain DEF All

LEMMA MergeKeeps ==
  ASSUME NEW f, NEW g
  PROVE  DOMAIN f \subseteq DOMAIN (f ++ g) /\ DOMAIN g \subseteq DOMAIN (f ++ g)
  BY MergeDomain, Zenon

LEMMA PlanEventsKnown == PlanEvents \subseteq DOMAIN Contract
  <1>1. {"cpu.getReg", "cpu.getAllRegs"} \subseteq DOMAIN CpuEvents
    <2> DEFINE f == All({"cpu.getAllRegs", "cpu.getReg", "cpu.status"}, "none")
    <2>1. {"cpu.getReg", "cpu.getAllRegs"} \subseteq DOMAIN f
      BY DEF All
    <2> QED
      BY <2>1, MergeKeeps, Zenon DEF CpuEvents
  <1>2. {"cpu.setReg", "cpu.evaluate"} \subseteq DOMAIN CpuEvents
    <2> DEFINE f == All({"cpu.setReg", "cpu.evaluate"}, "stepping")
    <2>1. {"cpu.setReg", "cpu.evaluate"} \subseteq DOMAIN f
      BY DEF All
    <2> QED
      BY <2>1, MergeKeeps, Zenon DEF CpuEvents
  <1>3. {"cpu.stepOver", "cpu.stepOut"} \subseteq DOMAIN SteppingEvents
    <2> DEFINE f == All({"cpu.stepOver", "cpu.stepOut"}, "stepping")
    <2>1. {"cpu.stepOver", "cpu.stepOut"} \subseteq DOMAIN f
      BY DEF All
    <2> QED
      BY <2>1, MergeKeeps, Zenon DEF SteppingEvents
  <1>4. {"hle.module.list", "hle.func.list", "hle.thread.list"} \subseteq DOMAIN HleEvents
    <2> DEFINE f == All({"hle.thread.list", "hle.module.list", "hle.func.list"}, "none")
    <2>1. {"hle.module.list", "hle.func.list", "hle.thread.list"} \subseteq DOMAIN f
      BY DEF All
    <2> QED
      BY <2>1, MergeKeeps, Zenon DEF HleEvents
  <1>5. {"hle.thread.wake", "hle.thread.stop", "hle.backtrace", "hle.func.scan",
         "hle.func.add", "hle.func.remove"} \subseteq DOMAIN HleEvents
    <2> DEFINE f == All({"hle.thread.wake", "hle.thread.stop", "hle.backtrace",
                         "hle.func.scan", "hle.func.add", "hle.func.remove"}, "stepping")
    <2>1. {"hle.thread.wake", "hle.thread.stop", "hle.backtrace", "hle.func.scan",
           "hle.func.add", "hle.func.remove"} \subseteq DOMAIN f
      BY DEF All
    <2> QED
      BY <2>1, MergeKeeps, Zenon DEF HleEvents
  <1>6. {"memory.disasm", "memory.assemble"} \subseteq DOMAIN DisasmEvents
    BY DEF DisasmEvents, All
  <1>7. {"game.status", "memory.mapping", "game.reset", "memory.info.search"}
           \subseteq DOMAIN SystemEvents
    BY DEF SystemEvents, All
  <1>8. {"gpu.buffer.renderColor", "gpu.buffer.renderDepth", "gpu.buffer.renderStencil",
         "gpu.buffer.texture", "gpu.buffer.clut"} \subseteq DOMAIN BufferEvents
    BY DEF BufferEvents, All
  <1>9. {"gpu.record.dump"} \subseteq DOMAIN FlipEvents
    BY DEF FlipEvents, All
  <1>10. DOMAIN CpuEvents \cup DOMAIN SteppingEvents \cup DOMAIN HleEvents
         \cup DOMAIN DisasmEvents \cup DOMAIN SystemEvents \cup DOMAIN BufferEvents
         \cup DOMAIN FlipEvents \subseteq DOMAIN Contract
    <2> DEFINE c2 == MemoryEvents ++ CpuEvents
               c3 == c2 ++ SteppingEvents
               c5 == c3 ++ BreakpointEvents ++ HleEvents
               c6 == c5 ++ DisasmEvents
               c8 == c6 ++ InputEvents ++ SystemEvents
               c9 == c8 ++ BufferEvents
               c10 == c9 ++ FlipEvents
    <2>1. DOMAIN CpuEvents \subseteq DOMAIN c2
      BY MergeKeeps
    <2>2. DOMAIN c2 \cup DOMAIN SteppingEvents \subseteq DOMAIN c3
      BY MergeKeeps, Zenon
    <2>3. DOMAIN c3 \subseteq DOMAIN (c3 ++ BreakpointEvents)
      BY MergeKeeps, Zenon
    <2>4. DOMAIN (c3 ++ BreakpointEvents) \cup DOMAIN HleEvents \subseteq DOMAIN c5
      BY MergeKeeps, Zenon
    <2>5. DOMAIN c5 \cup DOMAIN DisasmEvents \subseteq DOMAIN c6
      BY MergeKeeps, Zenon
    <2>6. DOMAIN c6 \subseteq DOMAIN (c6 ++ InputEvents)
      BY MergeKeeps, Zenon
    <2>7. DOMAIN (c6 ++ InputEvents) \cup DOMAIN SystemEvents \subseteq DOMAIN c8
      BY MergeKeeps, Zenon
    <2>8. DOMAIN c8 \cup DOMAIN BufferEvents \subseteq DOMAIN c9
      BY MergeKeeps, Zenon
    <2>9. DOMAIN c9 \cup DOMAIN FlipEvents \subseteq DOMAIN c10
      BY MergeKeeps, Zenon
    <2>10. DOMAIN c10 \subseteq DOMAIN (c10 ++ ReplayEvents)
      BY MergeKeeps, Zenon
    <2>11. DOMAIN (c10 ++ ReplayEvents) \subseteq DOMAIN Contract
      BY MergeKeeps, Zenon DEF Contract
    <2> HIDE DEF c2, c3, c5, c6, c8, c9, c10
    <2> QED
      BY <2>1, <2>2, <2>3, <2>4, <2>5, <2>6, <2>7, <2>8, <2>9, <2>10, <2>11
  <1> QED
    BY <1>1, <1>2, <1>3, <1>4, <1>5, <1>6, <1>7, <1>8, <1>9, <1>10 DEF PlanEvents, StepEvents

\* A plan: blocks that enter and leave with_stepping are nested (d counts the
\* blocks around each step), an event of E is asked right behind an entry, and
\* one that needs a running CPU right behind the two probes.
PlanSteps == [do : {"enter", "leave", "probe", "judge"}]
             \cup [do : {"ask", "try"}, event : PlanEvents]

SoundStep(p, d, E, i) ==
    /\ p[i].do = "enter" => d[i + 1] = d[i] + 1
    /\ p[i].do = "leave" => d[i] > 0 /\ d[i + 1] = d[i] - 1
    /\ p[i].do \notin {"enter", "leave"} => d[i + 1] = d[i]
    /\ p[i].do = "probe" => i < Len(p) /\ p[i + 1].do = "judge"
    /\ p[i].do = "ask" /\ p[i].event \in E => i > 1 /\ p[i - 1].do = "enter"
    /\ p[i].do = "ask" /\ p[i].event \in FrameEvents => i > 1 /\ p[i - 1].do = "judge"

Sound(p, d, E) ==
    /\ p \in Seq(PlanSteps)
    /\ d \in [1 .. Len(p) + 1 -> Nat] /\ d[1] = 0 /\ d[Len(p) + 1] = 0
    /\ \A i \in 1 .. Len(p) : SoundStep(p, d, E, i)

SoundPlan(p, E) == \E d : Sound(p, d, E)

LEMMA AskAtSound ==
  ASSUME NEW E, NEW e \in PlanEvents, e \notin E, e \notin FrameEvents
  PROVE  SoundPlan(AskAt(e), E)
  <1> DEFINE p == AskAt(e)
             d == [i \in 1 .. 2 |-> 0]
  <1>1. p \in Seq(PlanSteps) /\ Len(p) = 1 /\ p[1].do = "ask" /\ p[1].event = e
    BY DEF AskAt, PlanSteps
  <1> HIDE DEF p
  <1>2. Sound(p, d, E)
    BY <1>1 DEF Sound, SoundStep
  <1> QED
    BY <1>2 DEF SoundPlan, p

LEMMA TrySound ==
  ASSUME NEW E, NEW e \in PlanEvents
  PROVE  SoundPlan(Try(e), E)
  <1> DEFINE p == Try(e)
             d == [i \in 1 .. 2 |-> 0]
  <1>1. p \in Seq(PlanSteps) /\ Len(p) = 1 /\ p[1].do = "try" /\ p[1].event = e
    BY DEF Try, PlanSteps
  <1> HIDE DEF p
  <1>2. Sound(p, d, E)
    BY <1>1 DEF Sound, SoundStep
  <1> QED
    BY <1>2 DEF SoundPlan, p

LEMMA ConcatIs ==
  ASSUME NEW S, NEW a \in Seq(S), NEW b \in Seq(S)
  PROVE  /\ a \o b \in Seq(S)
         /\ Len(a \o b) = Len(a) + Len(b)
         /\ \A i \in 1 .. Len(a) : (a \o b)[i] = a[i]
         /\ \A i \in 1 .. Len(b) : (a \o b)[Len(a) + i] = b[i]
  OBVIOUS

\* The steps of a block.
LEMMA SteppedIs ==
  ASSUME NEW p \in Seq(PlanSteps)
  PROVE  /\ Stepped(p) \in Seq(PlanSteps) /\ Len(Stepped(p)) = Len(p) + 2
         /\ Stepped(p)[1].do = "enter" /\ Stepped(p)[Len(p) + 2].do = "leave"
         /\ \A i \in 1 .. Len(p) : Stepped(p)[i + 1] = p[i]
  <1> DEFINE a == <<[do |-> "enter"]>>
             z == <<[do |-> "leave"]>>
  <1>1. a \in Seq(PlanSteps) /\ Len(a) = 1 /\ a[1].do = "enter"
        /\ z \in Seq(PlanSteps) /\ Len(z) = 1 /\ z[1].do = "leave"
    BY DEF PlanSteps
  <1>2. Stepped(p) = a \o p \o z
    BY DEF Stepped
  <1> HIDE DEF a, z
  <1>3. a \o p \in Seq(PlanSteps) /\ Len(a \o p) = Len(p) + 1 /\ (a \o p)[1] = a[1]
        /\ \A i \in 1 .. Len(p) : (a \o p)[i + 1] = p[i]
    <2> DEFINE l == Len(p)
    <2>3. l \in Nat /\ 1 \in 1 .. 1 + l /\ 1 + l = l + 1
      OBVIOUS
    <2>4. a \o p \in Seq(PlanSteps)
      BY <1>1
    <2>6. Len(a \o p) = 1 + l
      <3>1. Len(a \o p) = Len(a) + Len(p)
        BY <1>1, ConcatIs, Zenon
      <3> QED
        BY <1>1, <3>1
    <2>5. (a \o p)[1] = a[1]
      BY <1>1, <2>3
    <2>1. a \o p \in Seq(PlanSteps) /\ Len(a \o p) = Len(p) + 1 /\ (a \o p)[1] = a[1]
      BY <2>3, <2>4, <2>5, <2>6
    <2>2. ASSUME NEW i \in 1 .. Len(p) PROVE (a \o p)[i + 1] = p[i]
      <3>1. i + 1 \in 1 .. Len(p) + 1 /\ i + 1 > 1 /\ (i + 1) - 1 = i
        OBVIOUS
      <3> QED
        BY <1>1, <2>1, <3>1
    <2> QED
      BY <2>1, <2>2
  <1> DEFINE b == a \o p
  <1> HIDE DEF b
  <1>4. b \o z \in Seq(PlanSteps) /\ Len(b \o z) = Len(p) + 2
        /\ \A i \in 1 .. Len(p) + 1 : (b \o z)[i] = b[i]
        /\ (b \o z)[Len(p) + 2] = z[1]
    BY <1>1, <1>3 DEF b
  <1>5. 1 \in 1 .. Len(p) + 1 /\ \A i \in 1 .. Len(p) : i + 1 \in 1 .. Len(p) + 1
    OBVIOUS
  <1> QED
    BY <1>1, <1>2, <1>3, <1>4, <1>5 DEF b

LEMMA SteppedSound ==
  ASSUME NEW p, NEW E, SoundPlan(p, E)
  PROVE  SoundPlan(Stepped(p), E)
  <1>1. PICK d : Sound(p, d, E)
    BY DEF SoundPlan
  <1> DEFINE q == Stepped(p)
             l == Len(p)
             c == [i \in 1 .. l + 3 |-> IF i \in 2 .. l + 2 THEN d[i - 1] + 1 ELSE 0]
  <1>2. p \in Seq(PlanSteps) /\ l \in Nat /\ d \in [1 .. l + 1 -> Nat]
        /\ d[1] = 0 /\ d[l + 1] = 0
    BY <1>1 DEF Sound
  <1>3. q \in Seq(PlanSteps) /\ Len(q) = l + 2 /\ q[1].do = "enter" /\ q[l + 2].do = "leave"
        /\ \A i \in 1 .. l : q[i + 1] = p[i]
    BY <1>2, SteppedIs
  <1>4. /\ c \in [1 .. l + 3 -> Nat] /\ c[1] = 0 /\ c[l + 3] = 0
        /\ \A i \in 1 .. l + 1 : c[i + 1] = d[i] + 1
    BY <1>2
  <1>5. \A i \in 1 .. l : SoundStep(p, d, E, i)
    BY <1>1 DEF Sound
  <1> HIDE DEF q, l, c
  <1>6. SoundStep(q, c, E, 1)
    BY <1>2, <1>3, <1>4 DEF SoundStep
  <1>7. SoundStep(q, c, E, l + 2)
    <2>1. c[l + 2] = 1
      BY <1>2, <1>4
    <2> QED
      BY <1>2, <1>3, <1>4, <2>1 DEF SoundStep
  <1>8. ASSUME NEW i \in 1 .. l PROVE SoundStep(q, c, E, i + 1)
    <2>1. SoundStep(p, d, E, i) /\ q[i + 1] = p[i] /\ c[i + 1] = d[i] + 1
          /\ c[(i + 1) + 1] = d[i + 1] + 1 /\ d[i] \in Nat /\ d[i + 1] \in Nat
      <3>1. i \in 1 .. l + 1 /\ i + 1 \in 1 .. l + 1
        BY <1>2
      <3> QED
        BY <1>2, <1>3, <1>4, <1>5, <3>1
    <2>2. i > 1 => q[(i + 1) - 1] = p[i - 1]
      BY <1>2, <1>3
    <2>3. i < l => q[(i + 1) + 1] = p[i + 1]
      BY <1>2, <1>3
    <2>4. /\ i + 1 > 1 /\ (i + 1) - 1 = i /\ l = Len(p) /\ l \in Nat
          /\ i < l => i + 1 < Len(q)
      BY <1>2, <1>3 DEF l
    <2>5. /\ q[i + 1].do = "enter" => c[(i + 1) + 1] = c[i + 1] + 1
          /\ q[i + 1].do = "leave" => c[i + 1] > 0 /\ c[(i + 1) + 1] = c[i + 1] - 1
          /\ q[i + 1].do \notin {"enter", "leave"} => c[(i + 1) + 1] = c[i + 1]
      BY <2>1 DEF SoundStep
    <2>6. /\ q[i + 1].do = "probe" => i + 1 < Len(q) /\ q[(i + 1) + 1].do = "judge"
          /\ q[i + 1].do = "ask" /\ q[i + 1].event \in E => q[(i + 1) - 1].do = "enter"
          /\ q[i + 1].do = "ask" /\ q[i + 1].event \in FrameEvents
                => q[(i + 1) - 1].do = "judge"
      BY <2>1, <2>2, <2>3, <2>4 DEF SoundStep
    <2> QED
      BY <2>4, <2>5, <2>6 DEF SoundStep
  <1>9. \A i \in 1 .. Len(q) : SoundStep(q, c, E, i)
    <2> SUFFICES ASSUME NEW i \in 1 .. l + 2 PROVE SoundStep(q, c, E, i)
      BY <1>3
    <2>1. CASE i = 1 \/ i = l + 2
      BY <1>6, <1>7, <2>1
    <2>2. CASE i # 1 /\ i # l + 2
      <3>1. i - 1 \in 1 .. l /\ (i - 1) + 1 = i
        BY <1>2, <2>2
      <3> QED
        BY <1>8, <3>1
    <2> QED
      BY <2>1, <2>2
  <1>10. Sound(q, c, E)
    BY <1>2, <1>3, <1>4, <1>9 DEF Sound
  <1> QED
    BY <1>10 DEF SoundPlan, q

LEMMA SteppedAskSound ==
  ASSUME NEW E, NEW e \in PlanEvents, e \notin FrameEvents
  PROVE  SoundPlan(Stepped(AskAt(e)), E)
  <1> DEFINE p == AskAt(e)
             q == Stepped(p)
             d == [i \in 1 .. 4 |-> IF i \in {2, 3} THEN 1 ELSE 0]
  <1>1. p \in Seq(PlanSteps) /\ Len(p) = 1 /\ p[1].do = "ask" /\ p[1].event = e
    BY DEF AskAt, PlanSteps
  <1> HIDE DEF p
  <1>2. /\ q \in Seq(PlanSteps) /\ Len(q) = 3
        /\ q[1].do = "enter" /\ q[2] = p[1] /\ q[3].do = "leave"
    <2>1. Len(p) + 2 = 3 /\ 1 \in 1 .. Len(p) /\ 1 + 1 = 2
      BY <1>1
    <2>2. /\ q \in Seq(PlanSteps) /\ Len(q) = Len(p) + 2
          /\ q[1].do = "enter" /\ q[Len(p) + 2].do = "leave"
          /\ \A i \in 1 .. Len(p) : q[i + 1] = p[i]
      BY <1>1, SteppedIs
    <2>3. q[1 + 1] = p[1]
      BY <2>1, <2>2, Zenon
    <2> QED
      BY <2>1, <2>2, <2>3
  <1> HIDE DEF q
  <1>3. SoundStep(q, d, E, 1) /\ SoundStep(q, d, E, 2) /\ SoundStep(q, d, E, 3)
    BY <1>1, <1>2 DEF SoundStep
  <1>4. d \in [1 .. 4 -> Nat] /\ d[1] = 0 /\ d[4] = 0
    OBVIOUS
  <1> HIDE DEF d
  <1>5. Sound(q, d, E)
    BY <1>2, <1>3, <1>4 DEF Sound
  <1> QED
    BY <1>5 DEF SoundPlan, q, p

LEMMA ConcatSound ==
  ASSUME NEW p, NEW q, NEW E, SoundPlan(p, E), SoundPlan(q, E)
  PROVE  SoundPlan(p \o q, E)
  <1>1. PICK d : Sound(p, d, E)
    BY DEF SoundPlan
  <1>2. PICK c : Sound(q, c, E)
    BY DEF SoundPlan
  <1> DEFINE r == p \o q
             l == Len(p)
             m == Len(q)
             b == [i \in 1 .. (l + m) + 1 |-> IF i <= l THEN d[i] ELSE c[i - l]]
  <1>3. /\ p \in Seq(PlanSteps) /\ l \in Nat /\ d \in [1 .. l + 1 -> Nat]
        /\ d[1] = 0 /\ d[l + 1] = 0
        /\ q \in Seq(PlanSteps) /\ m \in Nat /\ c \in [1 .. m + 1 -> Nat]
        /\ c[1] = 0 /\ c[m + 1] = 0
    BY <1>1, <1>2 DEF Sound
  <1>4. /\ r \in Seq(PlanSteps) /\ Len(r) = l + m
        /\ \A i \in 1 .. l : r[i] = p[i]
        /\ \A i \in 1 .. m : r[l + i] = q[i]
    BY <1>3
  <1>5. /\ b \in [1 .. (l + m) + 1 -> Nat]
        /\ \A i \in 1 .. l + 1 : b[i] = d[i]
        /\ \A i \in 1 .. m + 1 : b[l + i] = c[i]
    BY <1>3
  <1>6. (\A i \in 1 .. l : SoundStep(p, d, E, i)) /\ \A i \in 1 .. m : SoundStep(q, c, E, i)
    BY <1>1, <1>2 DEF Sound
  <1> HIDE DEF r, l, m, b
  <1>7. ASSUME NEW i \in 1 .. l PROVE SoundStep(r, b, E, i)
    <2>1. SoundStep(p, d, E, i) /\ r[i] = p[i] /\ b[i] = d[i] /\ b[i + 1] = d[i + 1]
      BY <1>3, <1>4, <1>5, <1>6
    <2>2. (i > 1 => r[i - 1] = p[i - 1]) /\ (i < l => r[i + 1] = p[i + 1])
      <3>1. (i > 1 => i - 1 \in 1 .. l) /\ (i < l => i + 1 \in 1 .. l)
        BY <1>3
      <3> QED
        BY <1>4, <3>1
    <2> QED
      BY <1>3, <1>4, <2>1, <2>2 DEF SoundStep, l
  <1>8. ASSUME NEW i \in 1 .. m PROVE SoundStep(r, b, E, l + i)
    <2>1. SoundStep(q, c, E, i) /\ r[l + i] = q[i] /\ b[l + i] = c[i]
          /\ b[(l + i) + 1] = c[i + 1] /\ c[i] \in Nat /\ c[i + 1] \in Nat
      <3>1. (l + i) + 1 = l + (i + 1) /\ i + 1 \in 1 .. m + 1 /\ i \in 1 .. m + 1
        BY <1>3
      <3>2. b[l + i] = c[i] /\ b[l + (i + 1)] = c[i + 1]
        BY <1>5, <3>1
      <3>3. c[i] \in Nat /\ c[i + 1] \in Nat
        BY <1>3, <3>1
      <3> QED
        BY <1>4, <1>6, <3>1, <3>2, <3>3
    <2>2. i > 1 => r[(l + i) - 1] = q[i - 1]
      <3>1. i > 1 => i - 1 \in 1 .. m /\ (l + i) - 1 = l + (i - 1)
        BY <1>3
      <3> QED
        BY <1>4, <3>1
    <2>3. i < m => r[(l + i) + 1] = q[i + 1]
      <3>1. i < m => i + 1 \in 1 .. m /\ (l + i) + 1 = l + (i + 1)
        BY <1>3
      <3> QED
        BY <1>4, <3>1
    <2>4. (i > 1 => l + i > 1) /\ (i < m => l + i < Len(r)) /\ m = Len(q)
      BY <1>3, <1>4 DEF m
    <2> QED
      BY <2>1, <2>2, <2>3, <2>4 DEF SoundStep
  <1>9. \A i \in 1 .. Len(r) : SoundStep(r, b, E, i)
    <2> SUFFICES ASSUME NEW i \in 1 .. l + m PROVE SoundStep(r, b, E, i)
      BY <1>4
    <2>1. CASE i <= l
      BY <1>3, <1>7, <2>1
    <2>2. CASE i > l
      <3>1. i - l \in 1 .. m /\ l + (i - l) = i
        BY <1>3, <2>2
      <3> QED
        BY <1>8, <3>1
    <2> QED
      BY <1>3, <2>1, <2>2
  <1>10. b[1] = 0 /\ b[(l + m) + 1] = 0
    <2>1. 1 \in 1 .. l + 1 /\ (l + m) + 1 = l + (m + 1) /\ m + 1 \in 1 .. m + 1
      BY <1>3
    <2> QED
      BY <1>3, <1>5, <2>1
  <1>11. Sound(r, b, E)
    BY <1>3, <1>4, <1>5, <1>9, <1>10 DEF Sound
  <1> QED
    BY <1>11 DEF SoundPlan, r

\* The events a tool must ask right behind an entry.
Guarded(op) == IF op \in HighTrust THEN StepEvents \cup Sampled ELSE StepEvents
PlansSound(f) == \A op \in DOMAIN f : SoundPlan(f[op], Guarded(op))

LEMMA MergePlans ==
  ASSUME NEW f, NEW g, PlansSound(f), PlansSound(g)
  PROVE  PlansSound(f ++ g)
  <1> SUFFICES ASSUME NEW op \in DOMAIN (f ++ g) PROVE SoundPlan((f ++ g)[op], Guarded(op))
    BY Zenon DEF PlansSound
  <1>0. /\ DOMAIN (f ++ g) = DOMAIN f \cup DOMAIN g
        /\ \A x \in DOMAIN f : (f ++ g)[x] = f[x]
        /\ \A x \in DOMAIN g : x \notin DOMAIN f => (f ++ g)[x] = g[x]
    BY MergeDomain, Zenon
  <1>1. CASE op \in DOMAIN f
    <2>1. (f ++ g)[op] = f[op]
      BY <1>1, <1>0, Zenon
    <2> QED
      BY <1>1, <2>1, Zenon DEF PlansSound
  <1>2. CASE op \in DOMAIN g /\ op \notin DOMAIN f
    <2>1. (f ++ g)[op] = g[op]
      BY <1>2, <1>0, Zenon
    <2> QED
      BY <1>2, <2>1, Zenon DEF PlansSound
  <1> QED
    BY <1>0, <1>1, <1>2, Zenon

\* The sound plans of the request methods, by the event they ask.
LEMMA AskPlain ==
  ASSUME NEW op, op \notin HighTrust,
         NEW e \in PlanEvents, e \notin StepEvents, e \notin FrameEvents
  PROVE  SoundPlan(AskAt(e), Guarded(op))
  BY AskAtSound DEF Guarded

LEMMA AskStepped ==
  ASSUME NEW op, NEW e \in PlanEvents, e \notin FrameEvents
  PROVE  SoundPlan(Stepped(AskAt(e)), Guarded(op))
  BY SteppedAskSound

\* require_running before the one request that needs a running CPU.
LEMMA RecordSound == SoundPlan(FlipCalls.gpu_record_dump, StepEvents)
  <1> DEFINE p == FlipCalls.gpu_record_dump
             d == [i \in 1 .. 4 |-> 0]
  <1>1. PICK a, b : /\ p = a \o b /\ a = <<[do |-> "probe"], [do |-> "judge"]>>
                    /\ b = <<[do |-> "ask", event |-> "gpu.record.dump"]>>
    BY DEF FlipCalls, AskAt
  <1>2. a \in Seq(PlanSteps) /\ b \in Seq(PlanSteps)
    BY <1>1 DEF PlanSteps, PlanEvents
  <1> HIDE DEF p
  <1>3. /\ p \in Seq(PlanSteps) /\ Len(p) = 3
        /\ p[1].do = "probe" /\ p[2].do = "judge" /\ p[3].do = "ask"
        /\ p[3].event = "gpu.record.dump"
    <2>1. Len(a) = 2 /\ Len(b) = 1 /\ a[1].do = "probe" /\ a[2].do = "judge"
          /\ b[1].do = "ask" /\ b[1].event = "gpu.record.dump"
      BY <1>1
    <2>2. p \in Seq(PlanSteps) /\ Len(p) = Len(a) + Len(b)
      BY <1>1, <1>2, ConcatIs, Zenon
    <2>3. \A i \in 1 .. 2 : p[i] = a[i]
      BY <1>1, <1>2, <2>1, ConcatIs
    <2>4. p[3] = b[1]
      BY <1>1, <1>2, <2>1, ConcatIs
    <2> QED
      BY <2>1, <2>2, <2>3, <2>4
  <1>4. d \in [1 .. 4 -> Nat] /\ d[1] = 0 /\ d[2] = 0 /\ d[3] = 0 /\ d[4] = 0
    OBVIOUS
  <1>5. "gpu.record.dump" \notin StepEvents
    BY DEF StepEvents
  <1> HIDE DEF d
  <1>6. SoundStep(p, d, StepEvents, 1) /\ SoundStep(p, d, StepEvents, 2)
        /\ SoundStep(p, d, StepEvents, 3)
    BY <1>3, <1>4, <1>5 DEF SoundStep
  <1>7. Sound(p, d, StepEvents)
    BY <1>3, <1>4, <1>6 DEF Sound
  <1> QED
    BY <1>7 DEF SoundPlan, p

LEMMA PlansAreSound == PlansSound(Plan)
  <1> USE AskPlain, AskStepped
  <1>1. PlansSound(QueryPlans)
    <2>1. /\ QueryPlans.register_safe = Stepped(AskAt("cpu.getReg"))
          /\ QueryPlans.registers_safe = Stepped(AskAt("cpu.getAllRegs"))
          /\ \A op \in DOMAIN QueryPlans : op \in {"register_safe", "registers_safe"}
      BY DEF QueryPlans, RegisterCalls
    <2>2. {"cpu.getReg", "cpu.getAllRegs"} \subseteq PlanEvents
          /\ "cpu.getReg" \notin FrameEvents /\ "cpu.getAllRegs" \notin FrameEvents
      BY DEF PlanEvents, FrameEvents
    <2> QED
      BY <2>1, <2>2 DEF PlansSound
  <1>2. PlansSound(OtherQueryPlans)
    <2>1. /\ OtherQueryPlans.game_state = AskAt("game.status")
          /\ OtherQueryPlans.register_raw = AskAt("cpu.getReg")
          /\ OtherQueryPlans.registers_raw = AskAt("cpu.getAllRegs")
          /\ OtherQueryPlans.backtrace = Stepped(AskAt("hle.backtrace"))
          /\ OtherQueryPlans.threads = Stepped(AskAt("hle.thread.list"))
          /\ OtherQueryPlans.modules = AskAt("hle.module.list")
          /\ OtherQueryPlans.funcs = AskAt("hle.func.list")
      BY DEF OtherQueryPlans, SystemCalls, RegisterCalls, FunctionCalls, ThreadCalls
    <2>2. /\ OtherQueryPlans.func_scan
               = Stepped(AskAt("hle.func.scan")) \o AskAt("hle.func.list")
          /\ OtherQueryPlans.func_add = Stepped(AskAt("hle.func.add")) \o Try("hle.func.list")
          /\ OtherQueryPlans.func_remove = Stepped(AskAt("hle.func.remove"))
      BY DEF OtherQueryPlans, FunctionCalls
    <2>3. \A op \in DOMAIN OtherQueryPlans :
            op \in {"game_state", "register_raw", "registers_raw", "backtrace", "threads",
                    "modules", "funcs", "func_scan", "func_add", "func_remove"}
      BY DEF OtherQueryPlans
    <2>4. \A e \in {"game.status", "cpu.getReg", "cpu.getAllRegs", "hle.module.list",
                    "hle.func.list"} :
            e \in PlanEvents /\ e \notin StepEvents /\ e \notin FrameEvents
      BY DEF PlanEvents, StepEvents, FrameEvents
    <2>5. \A e \in {"hle.backtrace", "hle.thread.list", "hle.func.scan", "hle.func.add",
                    "hle.func.remove"} : e \in PlanEvents /\ e \notin FrameEvents
      BY DEF PlanEvents, StepEvents, FrameEvents
    <2>6. \A op \in {"game_state", "register_raw", "registers_raw", "modules", "funcs",
                     "func_scan", "func_add"} : op \notin HighTrust
      BY DEF HighTrust
    <2>7. SoundPlan(OtherQueryPlans.func_scan, Guarded("func_scan"))
      BY <2>2, <2>4, <2>5, <2>6, ConcatSound
    <2>8. SoundPlan(OtherQueryPlans.func_add, Guarded("func_add"))
      BY <2>2, <2>4, <2>5, <2>6, ConcatSound, TrySound
    <2>9. \A op \in {"game_state", "register_raw", "registers_raw", "modules", "funcs"} :
            SoundPlan(OtherQueryPlans[op], Guarded(op))
      BY <2>1, <2>4, <2>6
    <2>10. \A op \in {"backtrace", "threads", "func_remove"} :
            SoundPlan(OtherQueryPlans[op], Guarded(op))
      BY <2>1, <2>2, <2>5
    <2> QED
      BY <2>3, <2>7, <2>8, <2>9, <2>10 DEF PlansSound
  <1>3. PlansSound(ContextPlans)
    <2> DEFINE around == AskAt("memory.mapping") \o AskAt("memory.disasm")
    <2>1. /\ ContextPlans.context = around
          /\ ContextPlans.context_stack = around \o Stepped(Stepped(AskAt("hle.backtrace")))
          /\ \A op \in DOMAIN ContextPlans : op \in {"context", "context_stack"}
      BY DEF ContextPlans, SystemCalls, DisasmCalls, FunctionCalls
    <2>2. \A e \in {"memory.mapping", "memory.disasm"} :
            e \in PlanEvents /\ e \notin StepEvents /\ e \notin FrameEvents
      BY DEF PlanEvents, StepEvents, FrameEvents
    <2>3. "hle.backtrace" \in PlanEvents /\ "hle.backtrace" \notin FrameEvents
          /\ "context" \notin HighTrust /\ "context_stack" \notin HighTrust
      BY DEF PlanEvents, StepEvents, FrameEvents, HighTrust
    <2>4. ASSUME NEW op \in {"context", "context_stack"} PROVE SoundPlan(around, Guarded(op))
      BY <2>2, <2>3, ConcatSound
    <2>5. SoundPlan(Stepped(Stepped(AskAt("hle.backtrace"))), Guarded("context_stack"))
      BY <2>3, SteppedSound
    <2> HIDE DEF around
    <2>6. SoundPlan(ContextPlans.context_stack, Guarded("context_stack"))
      BY <2>1, <2>4, <2>5, ConcatSound
    <2> QED
      BY <2>1, <2>4, <2>6 DEF PlansSound
  <1>4. PlansSound(BufferPlans)
    <2>1. \A b \in DOMAIN BufferCalls :
            \E e \in PlanEvents : e \notin FrameEvents /\ BufferCalls[b] = AskAt(e)
      BY DEF BufferCalls, PlanEvents, StepEvents, FrameEvents
    <2>2. DOMAIN BufferPlans = DOMAIN BufferCalls
          /\ \A b \in DOMAIN BufferCalls : BufferPlans[b] = Stepped(BufferCalls[b])
      BY DEF BufferPlans
    <2> QED
      BY <2>1, <2>2 DEF PlansSound
  <1>5. PlansSound(EvaluatePlan)
    <2>1. DOMAIN EvaluatePlan = {"evaluate"}
          /\ EvaluatePlan.evaluate = Stepped(AskAt("cpu.evaluate"))
      BY DEF EvaluatePlan, RegisterCalls
    <2>2. "cpu.evaluate" \in PlanEvents /\ "cpu.evaluate" \notin FrameEvents
      BY DEF PlanEvents, StepEvents, FrameEvents
    <2> QED
      BY <2>1, <2>2 DEF PlansSound
  <1>6. PlansSound(WriteRegisterPlan)
    <2>1. DOMAIN WriteRegisterPlan = {"write_register"}
          /\ WriteRegisterPlan.write_register = Stepped(AskAt("cpu.setReg"))
      BY DEF WriteRegisterPlan, RegisterCalls
    <2>2. "cpu.setReg" \in PlanEvents /\ "cpu.setReg" \notin FrameEvents
      BY DEF PlanEvents, StepEvents, FrameEvents
    <2> QED
      BY <2>1, <2>2 DEF PlansSound
  <1>7. PlansSound(MemoryMapPlan) /\ PlansSound(SearchInfoPlan)
    <2>1. /\ DOMAIN MemoryMapPlan = {"memory_map"}
          /\ MemoryMapPlan.memory_map = AskAt("memory.mapping")
          /\ DOMAIN SearchInfoPlan = {"search_memory_info"}
          /\ SearchInfoPlan.search_memory_info = AskAt("memory.info.search")
      BY DEF MemoryMapPlan, SearchInfoPlan, Search, SystemCalls
    <2>2. \A e \in {"memory.mapping", "memory.info.search"} :
            e \in PlanEvents /\ e \notin StepEvents /\ e \notin FrameEvents
      BY DEF PlanEvents, StepEvents, FrameEvents
    <2>3. "memory_map" \notin HighTrust /\ "search_memory_info" \notin HighTrust
      BY DEF HighTrust
    <2> QED
      BY <2>1, <2>2, <2>3 DEF PlansSound
  <1>8. PlansSound(GpuRecordPlan)
    <2>1. DOMAIN GpuRecordPlan = {"gpu_record"}
          /\ GpuRecordPlan.gpu_record = FlipCalls.gpu_record_dump
          /\ Guarded("gpu_record") = StepEvents
      BY DEF GpuRecordPlan, Guarded, HighTrust
    <2> QED
      BY <2>1, RecordSound DEF PlansSound
  <1>9. PlansSound(SafePcPlan)
    <2>1. DOMAIN SafePcPlan = {"safe_get_pc"}
          /\ SafePcPlan.safe_get_pc = Stepped(AskAt("cpu.getAllRegs"))
      BY DEF SafePcPlan, ThreadCalls
    <2>2. "cpu.getAllRegs" \in PlanEvents /\ "cpu.getAllRegs" \notin FrameEvents
      BY DEF PlanEvents, StepEvents, FrameEvents
    <2> QED
      BY <2>1, <2>2 DEF PlansSound
  <1> QED
    BY <1>1, <1>2, <1>3, <1>4, <1>5, <1>6, <1>7, <1>8, <1>9, MergePlans DEF Plan

-----------------------------------------------------------------------------
(* A call along its plan *)

\* The blocks around each step of an operation's plan.
Depth(op) == CHOOSE d : Sound(Plan[op], d, Guarded(op))

LEMMA DepthSound ==
  ASSUME NEW op \in DOMAIN Plan
  PROVE  /\ Len(Plan[op]) \in Nat /\ Plan[op] \in Seq(PlanSteps)
         /\ Depth(op) \in [1 .. Len(Plan[op]) + 1 -> Nat]
         /\ Depth(op)[1] = 0 /\ Depth(op)[Len(Plan[op]) + 1] = 0
         /\ \A i \in 1 .. Len(Plan[op]) : SoundStep(Plan[op], Depth(op), Guarded(op), i)
  <1>1. SoundPlan(Plan[op], Guarded(op))
    BY PlansAreSound, Zenon DEF PlansSound
  <1>2. Sound(Plan[op], Depth(op), Guarded(op))
    BY <1>1, Zenon DEF SoundPlan, Depth
  <1> QED
    BY <1>2 DEF Sound

LEMMA PlanStep ==
  ASSUME NEW op \in DOMAIN Plan, NEW i \in 1 .. Len(Plan[op])
  PROVE  /\ i + 1 \in 1 .. Len(Plan[op]) + 1 /\ (i + 1) - 1 = i /\ i + 1 \in Nat \ {0}
         /\ Depth(op)[i] \in Nat /\ Depth(op)[i + 1] \in Nat
         /\ SoundStep(Plan[op], Depth(op), Guarded(op), i)
         /\ Plan[op][i].do \in {"enter", "leave", "probe", "judge", "ask", "try"}
         /\ Plan[op][i].do \in {"ask", "try"} => Plan[op][i].event \in PlanEvents
  <1>1. i + 1 \in 1 .. Len(Plan[op]) + 1 /\ (i + 1) - 1 = i /\ i \in 1 .. Len(Plan[op]) + 1
        /\ i + 1 \in Nat \ {0}
    BY DepthSound
  <1>2. Plan[op][i] \in PlanSteps
    BY DepthSound
  <1>3. Plan[op][i].do \in {"enter", "leave", "probe", "judge", "ask", "try"}
        /\ (Plan[op][i].do \in {"ask", "try"} => Plan[op][i].event \in PlanEvents)
    BY <1>2 DEF PlanSteps
  <1>4. Depth(op)[i] \in Nat /\ Depth(op)[i + 1] \in Nat
    BY <1>1, DepthSound
  <1> QED
    BY <1>1, <1>3, <1>4, DepthSound

\* PPSSPP's answers, by the two sets.
LEMMA Answers ==
  ASSUME NEW e \in PlanEvents, stepping \in BOOLEAN
  PROVE  /\ AskAnswers(e) = "refused" <=> e \in StepEvents /\ ~stepping
         /\ AskAnswers(e) = "timeout" <=> e \in FrameEvents /\ stepping
         /\ AskAnswers(e) \in {"ok", "refused", "timeout"}
  <1>1. /\ Contract[e] = "stepping" <=> e \in StepEvents
        /\ Contract[e] = "running" <=> e \in FrameEvents
    BY ContractClassified, PlanEventsKnown, Zenon DEF Classified
  <1>2. CASE Contract[e] = "stepping"
    <2>1. AskAnswers(e) = IF stepping THEN "ok" ELSE "refused"
      BY <1>2 DEF AskAnswers
    <2> QED
      BY <1>1, <1>2, <2>1
  <1>3. CASE Contract[e] = "running"
    <2>1. AskAnswers(e) = IF stepping THEN "timeout" ELSE "ok"
      BY <1>3 DEF AskAnswers
    <2> QED
      BY <1>1, <1>3, <2>1
  <1>4. CASE Contract[e] # "stepping" /\ Contract[e] # "running"
    <2>1. AskAnswers(e) = "ok"
      BY <1>4 DEF AskAnswers
    <2> QED
      BY <1>1, <1>4, <2>1
  <1> QED
    BY <1>2, <1>3, <1>4

Failures == {"STEPPING_FAILED", "WS_DISCONNECTED", "CPU_STATE_ERROR", "FUNC_NOT_FOUND", "lost",
             "RESUME_FAILED", "cancelled"}

AskType == [pc : {"idle", "run", "pausing", "unwind", "end"}, op : DOMAIN Plan \cup {"none"},
            at : Nat \ {0}, resumes : Seq(BOOLEAN), seen : BOOLEAN, blind : BOOLEAN,
            halted : BOOLEAN, met : Nat, lost : Nat, before : BOOLEAN, misread : BOOLEAN,
            res : Failures \cup {"none", "ok", "refused", "timeout"}]

QType == stepping \in BOOLEAN /\ ask \in AskType

\* A call that runs is on its plan, inside as many blocks as it has entered.
QPlace ==
    ask.pc \in {"run", "pausing"} =>
        /\ ask.op \in DOMAIN Plan /\ ask.at \in 1 .. Len(Plan[ask.op]) + 1
        /\ Len(ask.resumes) = Depth(ask.op)[ask.at]
        /\ ask.pc = "pausing" => ask.at <= Len(Plan[ask.op]) /\ Todo.do = "enter"

\* Unless others meddle, the CPU is paused behind an entry and runs behind the
\* two probes.
QState ==
    ask.pc = "run" /\ ask.met = 0 /\ ask.at > 1 =>
        /\ Plan[ask.op][ask.at - 1].do = "enter" => stepping
        /\ Plan[ask.op][ask.at - 1].do = "judge" /\ ~ask.blind => ~stepping

QResults ==
    /\ ask.pc = "unwind" => ask.res # "ok"
    /\ ask.pc \in {"unwind", "end"} /\ ask.met = 0 /\ ~ask.blind
          => ask.res \notin {"refused", "timeout"}

QTrust == ask.op \in HighTrust /\ ask.met = 0 => ask.halted

\* What the enclosing blocks will put back: nothing when the CPU was paused,
\* and the outermost one resumes it when it ran.
QPut ==
    ask.met = 0 /\ ~ask.misread =>
        /\ ask.pc \in {"run", "pausing"} /\ ask.before =>
              /\ stepping /\ ask.pc = "run"
              /\ \A i \in 1 .. Len(ask.resumes) : ~ask.resumes[i]
        /\ ask.pc \in {"run", "pausing"} /\ ~ask.before =>
              /\ ask.resumes = <<>> => ~stepping
              /\ ask.resumes # <<>> => ask.resumes[1]
        /\ ask.pc = "end" /\ ask.res = "ok" => stepping = ask.before

QInv == QType /\ QPlace /\ QState /\ QResults /\ QTrust /\ QPut

\* A call with one of its fields changed.
LEMMA Updates ==
  ASSUME NEW a \in AskType
  PROVE  /\ \A v \in {"idle", "run", "pausing", "unwind", "end"} : [a EXCEPT !.pc = v] \in AskType
         /\ \A v \in Nat \ {0} : [a EXCEPT !.at = v] \in AskType
         /\ \A v \in Seq(BOOLEAN) : [a EXCEPT !.resumes = v] \in AskType
         /\ \A v \in BOOLEAN : [a EXCEPT !.blind = v] \in AskType
         /\ \A v \in BOOLEAN : [a EXCEPT !.misread = v] \in AskType
         /\ \A v \in Nat : [a EXCEPT !.lost = v] \in AskType
         /\ \A v \in Nat : [a EXCEPT !.met = v] \in AskType
         /\ \A v \in Failures \cup {"none", "ok", "refused", "timeout"} :
               [a EXCEPT !.res = v] \in AskType
         /\ Lost(a) \in AskType
  <1>1. \A v \in {"idle", "run", "pausing", "unwind", "end"} : [a EXCEPT !.pc = v] \in AskType
    BY DEF AskType
  <1>2. \A v \in Nat \ {0} : [a EXCEPT !.at = v] \in AskType
    BY DEF AskType
  <1>3. \A v \in Seq(BOOLEAN) : [a EXCEPT !.resumes = v] \in AskType
    BY DEF AskType
  <1>4. \A v \in BOOLEAN : [a EXCEPT !.blind = v] \in AskType
    BY DEF AskType
  <1>5. \A v \in BOOLEAN : [a EXCEPT !.misread = v] \in AskType
    BY DEF AskType
  <1>6. \A v \in Nat : [a EXCEPT !.lost = v] \in AskType
    BY DEF AskType
  <1>7. \A v \in Nat : [a EXCEPT !.met = v] \in AskType
    BY DEF AskType
  <1>8. \A v \in Failures \cup {"none", "ok", "refused", "timeout"} :
          [a EXCEPT !.res = v] \in AskType
    BY DEF AskType
  <1>9. Lost(a) \in AskType
    BY <1>6 DEF AskType, Lost
  <1> QED
    BY <1>1, <1>2, <1>3, <1>4, <1>5, <1>6, <1>7, <1>8, <1>9

LEMMA RaisedType ==
  ASSUME ask \in AskType, NEW r \in Failures \cup {"none", "ok", "refused", "timeout"}
  PROVE  Raised(r) \in AskType
  BY DEF AskType, Raised

LEMMA NextType ==
  ASSUME ask \in AskType
  PROVE  Next1 \in AskType
  BY DEF AskType, Next1

\* At a step of its plan.
LEMMA OnPlan ==
  ASSUME QInv, ask.pc \in {"run", "pausing"}, ask.at <= Len(Plan[ask.op])
  PROVE  /\ ask.op \in DOMAIN Plan /\ ask.at \in 1 .. Len(Plan[ask.op])
         /\ ask.at + 1 \in 1 .. Len(Plan[ask.op]) + 1 /\ (ask.at + 1) - 1 = ask.at
         /\ ask.at + 1 \in Nat \ {0} /\ Len(Plan[ask.op]) \in Nat
         /\ Depth(ask.op)[ask.at] \in Nat /\ Depth(ask.op)[ask.at + 1] \in Nat
         /\ Len(ask.resumes) = Depth(ask.op)[ask.at]
         /\ SoundStep(Plan[ask.op], Depth(ask.op), Guarded(ask.op), ask.at)
         /\ Todo.do \in {"enter", "leave", "probe", "judge", "ask", "try"}
         /\ Todo.do \in {"ask", "try"} => Todo.event \in PlanEvents
  <1>1. ask.op \in DOMAIN Plan /\ ask.at \in 1 .. Len(Plan[ask.op]) + 1
        /\ Len(ask.resumes) = Depth(ask.op)[ask.at]
    BY DEF QInv, QPlace
  <1>2. Len(Plan[ask.op]) \in Nat
    BY <1>1, DepthSound
  <1>3. ask.at \in 1 .. Len(Plan[ask.op])
    BY <1>1, <1>2
  <1> QED
    BY <1>1, <1>2, <1>3, PlanStep DEF Todo

\* An exception on the way keeps the invariant, if it is not PPSSPP's refusal.
LEMMA RaisedKeeps ==
  ASSUME QInv, QType', ask.pc \in {"run", "pausing"}, ask'.pc = "unwind", ask'.op = ask.op,
         ask'.met = ask.met, ask'.blind = ask.blind, ask'.halted = ask.halted,
         ask'.res # "ok", ask'.res \in {"refused", "timeout"} => ask.met # 0 \/ ask.blind
  PROVE  QInv'
  <1>1. QPlace' /\ QState' /\ QPut'
    BY DEF QPlace, QState, QPut
  <1>2. QResults'
    BY DEF QResults
  <1>3. QTrust'
    BY DEF QInv, QTrust
  <1> QED
    BY <1>1, <1>2, <1>3 DEF QInv

LEMMA FailsKeeps ==
  ASSUME QInv, ask.pc \in {"run", "pausing"}, stepping' \in BOOLEAN,
         NEW r \in Failures, ask' \in {Raised(r), Lost(Raised(r))}
  PROVE  QInv'
  <1>1. ask \in AskType /\ Raised(r) \in AskType /\ Lost(Raised(r)) \in AskType
    BY RaisedType, Updates DEF QInv, QType
  <1>2. r \notin {"ok", "refused", "timeout"}
    BY DEF Failures
  <1>3. /\ ask'.pc = "unwind" /\ ask'.op = ask.op /\ ask'.met = ask.met
        /\ ask'.blind = ask.blind /\ ask'.halted = ask.halted /\ ask'.res = r
    <2>1. /\ Raised(r).pc = "unwind" /\ Raised(r).op = ask.op /\ Raised(r).met = ask.met
          /\ Raised(r).blind = ask.blind /\ Raised(r).halted = ask.halted
          /\ Raised(r).res = r
      <3>1. DOMAIN ask = {"pc", "op", "at", "resumes", "seen", "blind", "halted", "met", "lost",
                          "before", "misread", "res"}
        BY <1>1 DEF AskType
      <3> QED
        BY <3>1 DEF Raised
    <2>2. CASE ask' = Raised(r)
      BY <2>1, <2>2, Zenon
    <2>3. CASE ask' = Lost(Raised(r))
      <3> DEFINE x == Raised(r)
      <3>1. DOMAIN x = {"pc", "op", "at", "resumes", "seen", "blind", "halted", "met", "lost",
                        "before", "misread", "res"}
        BY <1>1 DEF AskType
      <3> HIDE DEF x
      <3>2. /\ Lost(x).pc = x.pc /\ Lost(x).op = x.op /\ Lost(x).met = x.met
            /\ Lost(x).blind = x.blind /\ Lost(x).halted = x.halted /\ Lost(x).res = x.res
        BY <3>1 DEF Lost
      <3> QED
        BY <2>1, <2>3, <3>2, Zenon DEF x
    <2> QED
      BY <2>2, <2>3
  <1>4. QType'
    BY <1>1 DEF QType
  <1> QED
    BY <1>2, <1>3, <1>4, RaisedKeeps

LEMMA ArrivesKeeps ==
  ASSUME QInv, AskArrives
  PROVE  QInv'
  <1>1. PICK op \in DOMAIN Plan :
          ask' = [NoAsk EXCEPT !.pc = "run", !.op = op, !.before = stepping]
    BY DEF AskArrives
  <1>2. stepping' = stepping /\ stepping \in BOOLEAN
    BY DEF AskArrives, QInv, QType
  <1>3. /\ ask'.pc = "run" /\ ask'.op = op /\ ask'.at = 1 /\ ask'.resumes = <<>>
        /\ ask'.halted = TRUE /\ ask'.before = stepping /\ ask'.res = "none"
    BY <1>1 DEF NoAsk
  <1>4. QType'
    <2>1. NoAsk \in AskType
      <3>1. <<>> \in Seq(BOOLEAN)
        OBVIOUS
      <3> QED
        BY <3>1 DEF NoAsk, AskType
    <2>2. [NoAsk EXCEPT !.pc = "run"] \in AskType
      BY <2>1, Updates
    <2>3. ask' = [[[NoAsk EXCEPT !.pc = "run"] EXCEPT !.op = op] EXCEPT !.before = stepping]
      BY <1>1 DEF NoAsk
    <2> QED
      BY <1>2, <2>2, <2>3 DEF QType, AskType
  <1>5. QPlace'
    <2>1. 1 \in 1 .. Len(Plan[op]) + 1 /\ Depth(op)[1] = 0 /\ Len(<<>>) = 0
      BY DepthSound
    <2> QED
      BY <1>3, <2>1 DEF QPlace
  <1>6. QState' /\ QResults' /\ QTrust'
    BY <1>3 DEF QState, QResults, QTrust
  <1>7. QPut'
    <2>1. \A i \in 1 .. Len(<<>>) : ~ask'.resumes[i]
      OBVIOUS
    <2> QED
      BY <1>2, <1>3, <2>1 DEF QPut
  <1> QED
    BY <1>4, <1>5, <1>6, <1>7 DEF QInv

\* A list of flags with one more, and with one less.
LEMMA Pushed ==
  ASSUME NEW s \in Seq(BOOLEAN), NEW b \in BOOLEAN
  PROVE  /\ Append(s, b) \in Seq(BOOLEAN) /\ Len(Append(s, b)) = Len(s) + 1
         /\ Append(s, b) # <<>>
         /\ \A i \in 1 .. Len(s) : Append(s, b)[i] = s[i]
         /\ Append(s, b)[Len(s) + 1] = b
  OBVIOUS

LEMMA PoppedIs ==
  ASSUME NEW s \in Seq(BOOLEAN), Len(s) > 0
  PROVE  /\ SubSeq(s, 1, Len(s) - 1) \in Seq(BOOLEAN)
         /\ Len(SubSeq(s, 1, Len(s) - 1)) = Len(s) - 1
         /\ \A i \in 1 .. Len(s) - 1 : SubSeq(s, 1, Len(s) - 1)[i] = s[i]
  <1> DEFINE n == Len(s) - 1
  <1>1. n \in Nat /\ 1 \in Int /\ n - 1 + 1 = n /\ (1 <= n \/ n = 0)
        /\ \A i \in 1 .. n : i \in 1 .. Len(s) /\ 1 + i - 1 = i
    <2>1. Len(s) \in Nat
      BY LenProperties
    <2>2. n \in Nat /\ (1 <= n \/ n = 0) /\ n - 1 + 1 = n /\ n <= Len(s)
      <3>1. n \in Nat
        BY <2>1
      <3>2. n <= Len(s)
        BY <2>1
      <3> HIDE DEF n
      <3>3. 1 <= n \/ n = 0
        BY <3>1
      <3>4. n - 1 + 1 = n
        BY <3>1
      <3> QED
        BY <3>1, <3>2, <3>3, <3>4
    <2> HIDE DEF n
    <2>3. \A i \in 1 .. n : i \in 1 .. Len(s) /\ 1 + i - 1 = i
      BY <2>1, <2>2
    <2> QED
      BY <2>2, <2>3
  <1>2. \A i \in 1 .. n : s[i] \in BOOLEAN
    BY <1>1, ElementOfSeq
  <1> HIDE DEF n
  <1>3. /\ SubSeq(s, 1, n) \in Seq(BOOLEAN)
        /\ Len(SubSeq(s, 1, n)) = IF 1 <= n THEN n - 1 + 1 ELSE 0
        /\ \A i \in 1 .. n - 1 + 1 : SubSeq(s, 1, n)[i] = s[1 + i - 1]
    BY <1>1, <1>2, SubSeqProperties
  <1>4. Len(SubSeq(s, 1, n)) = n
    BY <1>1, <1>3
  <1>5. \A i \in 1 .. n : SubSeq(s, 1, n)[i] = s[i]
    BY <1>1, <1>3
  <1> QED
    BY <1>3, <1>4, <1>5 DEF n

\* Going on inside one more block.
LEMMA EnteredKeeps ==
  ASSUME QInv, ask.pc \in {"run", "pausing"}, ask.at <= Len(Plan[ask.op]), Todo.do = "enter",
         NEW b \in BOOLEAN, stepping' = TRUE,
         ask' = [Next1 EXCEPT !.pc = "run", !.resumes = Append(@, b)],
         ask.met = 0 /\ ~ask.misread /\ ask.before => ~b,
         ask.met = 0 /\ ~ask.misread /\ ~ask.before /\ ask.resumes = <<>> => b
  PROVE  QInv'
  <1>1. ask.op \in DOMAIN Plan /\ ask.at \in 1 .. Len(Plan[ask.op])
        /\ ask.at + 1 \in 1 .. Len(Plan[ask.op]) + 1 /\ (ask.at + 1) - 1 = ask.at
        /\ Depth(ask.op)[ask.at + 1] = Depth(ask.op)[ask.at] + 1
        /\ Len(ask.resumes) = Depth(ask.op)[ask.at]
    BY OnPlan DEF SoundStep, Todo
  <1>2. /\ ask.resumes \in Seq(BOOLEAN) /\ ask.at \in Nat \ {0}
    BY DEF QInv, QType, AskType
  <1>3. /\ ask'.pc = "run" /\ ask'.op = ask.op /\ ask'.at = ask.at + 1
        /\ ask'.resumes = Append(ask.resumes, b) /\ ask'.blind = ask.blind
        /\ ask'.halted = ask.halted /\ ask'.met = ask.met /\ ask'.before = ask.before
        /\ ask'.misread = ask.misread /\ ask'.res = ask.res
    BY DEF QInv, QType, AskType, Next1
  <1>4. QType'
    <2>1. Append(ask.resumes, b) \in Seq(BOOLEAN) /\ ask.at + 1 \in Nat \ {0}
      BY <1>2, Pushed
    <2> QED
      BY <2>1 DEF QInv, QType, AskType, Next1
  <1>5. QPlace'
    <2>1. Len(ask'.resumes) = Depth(ask.op)[ask.at + 1]
      BY <1>1, <1>2, <1>3, Pushed
    <2> QED
      BY <1>1, <1>3, <2>1 DEF QPlace
  <1>6. QState'
    BY <1>1, <1>3 DEF QState, Todo
  <1>7. QResults'
    BY <1>3 DEF QResults
  <1>8. QTrust'
    BY <1>3 DEF QInv, QTrust
  <1>9. QPut'
    <2> SUFFICES ASSUME ask.met = 0, ~ask.misread
                 PROVE  /\ ask.before => \A i \in 1 .. Len(ask'.resumes) : ~ask'.resumes[i]
                        /\ ~ask.before => ask'.resumes[1] /\ ask'.resumes # <<>>
      BY <1>3 DEF QPut
    <2>1. ask.before => \A i \in 1 .. Len(ask.resumes) : ~ask.resumes[i]
      BY DEF QInv, QPut
    <2>2. ~ask.before /\ ask.resumes # <<>> => ask.resumes[1]
      BY DEF QInv, QPut
    <2>3. ask.before => \A i \in 1 .. Len(ask'.resumes) : ~ask'.resumes[i]
      <3> SUFFICES ASSUME ask.before, NEW i \in 1 .. Len(ask.resumes) + 1
                   PROVE  ~ask'.resumes[i]
        BY <1>2, <1>3, Pushed
      <3>1. CASE i \in 1 .. Len(ask.resumes)
        BY <1>2, <1>3, <2>1, <3>1, Pushed
      <3>2. CASE i = Len(ask.resumes) + 1
        <4>1. ask'.resumes[i] = b
          <5>1. Append(ask.resumes, b)[Len(ask.resumes) + 1] = b
            BY <1>2, Pushed
          <5> QED
            BY <1>3, <3>2, <5>1, Zenon
        <4>2. b = FALSE
          <5>1. ~b
            BY Zenon
          <5> QED
            BY <5>1
        <4>3. ask'.resumes[i] = FALSE
          BY <4>1, <4>2, Zenon
        <4> QED
          BY <4>3
      <3>3. i \in 1 .. Len(ask.resumes) \/ i = Len(ask.resumes) + 1
        <4>1. Len(ask.resumes) \in Nat
          BY <1>2
        <4> QED
          BY <4>1
      <3> QED
        BY <3>1, <3>2, <3>3, Zenon
    <2>4. ~ask.before => ask'.resumes[1]
      <3>1. CASE ask.resumes = <<>>
        <4>1. Len(ask.resumes) + 1 = 1
          BY <3>1
        <4> QED
          BY <1>2, <1>3, <3>1, <4>1, Pushed
      <3>2. CASE ask.resumes # <<>>
        <4>1. 1 \in 1 .. Len(ask.resumes)
          BY <1>2, <3>2
        <4> QED
          BY <1>2, <1>3, <2>2, <3>2, <4>1, Pushed
      <3> QED
        BY <3>1, <3>2
    <2> QED
      BY <1>2, <1>3, <2>3, <2>4, Pushed
  <1> QED
    BY <1>4, <1>5, <1>6, <1>7, <1>8, <1>9 DEF QInv

LEMMA ProbesKeep ==
  ASSUME QInv, EnterProbes
  PROVE  QInv'
  <1>1. /\ ask.pc = "run" /\ ask.at <= Len(Plan[ask.op]) /\ Todo.do = "enter"
        /\ stepping' = stepping /\ stepping \in BOOLEAN
    BY DEF EnterProbes, Does, QInv, QType
  <1>2. CASE stepping /\ ask' = [Next1 EXCEPT !.resumes = Append(@, FALSE)]
    <2>1. ask' = [Next1 EXCEPT !.pc = "run", !.resumes = Append(@, FALSE)]
      BY <1>1, <1>2 DEF QInv, QType, AskType, Next1
    <2>2. ask.met = 0 /\ ~ask.misread /\ ~ask.before => ask.resumes # <<>>
      BY <1>1, <1>2 DEF QInv, QPut
    <2> QED
      BY <1>1, <1>2, <2>1, <2>2, EnteredKeeps
  <1>3. CASE \/ ~stepping /\ ask' = [ask EXCEPT !.pc = "pausing"]
             \/ ask' = [Lost(ask) EXCEPT !.pc = "pausing",
                                         !.misread = @ \/ (stepping /\ ask.before)]
    <2>1. /\ ask'.pc = "pausing" /\ ask'.op = ask.op /\ ask'.at = ask.at
          /\ ask'.resumes = ask.resumes /\ ask'.blind = ask.blind
          /\ ask'.halted = ask.halted /\ ask'.met = ask.met /\ ask'.before = ask.before
          /\ ask'.misread \in {ask.misread, ask.misread \/ (stepping /\ ask.before)}
          /\ ask'.res = ask.res
      BY <1>3 DEF QInv, QType, AskType, Lost
    <2>2. QType'
      <3>1. ask \in AskType /\ Lost(ask) \in AskType
            /\ (ask.misread \/ (stepping /\ ask.before)) \in BOOLEAN
        BY Updates DEF QInv, QType
      <3>2. CASE ask' = [ask EXCEPT !.pc = "pausing"]
        BY <1>1, <3>1, <3>2, Updates DEF QType
      <3>3. CASE ask' = [Lost(ask) EXCEPT !.pc = "pausing",
                                          !.misread = @ \/ (stepping /\ ask.before)]
        <4>1. [Lost(ask) EXCEPT !.pc = "pausing"] \in AskType
          BY <3>1, Updates
        <4>2. ask' = [[Lost(ask) EXCEPT !.pc = "pausing"]
                        EXCEPT !.misread = ask.misread \/ (stepping /\ ask.before)]
          BY <3>1, <3>3 DEF Lost, AskType
        <4> QED
          BY <1>1, <3>1, <4>1, <4>2, Updates DEF QType
      <3> QED
        BY <1>3, <3>2, <3>3
    <2>3. QPlace'
      BY <1>1, <2>1 DEF QInv, QPlace, Todo
    <2>4. QState' /\ QResults'
      BY <2>1 DEF QState, QResults
    <2>5. QTrust'
      BY <2>1 DEF QInv, QTrust
    <2>6. QPut'
      <3>1. ask.met = 0 /\ ~ask'.misread => ~ask.misread
        BY <2>1 DEF QInv, QType, AskType
      <3>2. ask.met = 0 /\ ~ask'.misread => ~ask.before
        <4>1. ask.met = 0 /\ ~ask.misread /\ ask.before => stepping
          BY <1>1 DEF QInv, QPut
        <4>2. CASE ~stepping
          BY <3>1, <4>1, <4>2
        <4>3. CASE ask' = [Lost(ask) EXCEPT !.pc = "pausing",
                                            !.misread = @ \/ (stepping /\ ask.before)]
          <5>1. ask'.misread = (ask.misread \/ (stepping /\ ask.before))
            BY <4>3 DEF Lost, QInv, QType, AskType
          <5> QED
            BY <3>1, <4>1, <5>1
        <4> QED
          BY <1>3, <4>2, <4>3
      <3>3. ask.met = 0 /\ ~ask'.misread =>
              (ask.resumes = <<>> => ~stepping) /\ (ask.resumes # <<>> => ask.resumes[1])
        BY <1>1, <3>1, <3>2 DEF QInv, QPut
      <3> QED
        BY <1>1, <2>1, <3>2, <3>3 DEF QPut
    <2> QED
      BY <2>2, <2>3, <2>4, <2>5, <2>6 DEF QInv
  <1> QED
    BY <1>1, <1>2, <1>3 DEF EnterProbes

LEMMA PausesKeep ==
  ASSUME QInv, EnterPauses
  PROVE  QInv'
  <1>1. ask.pc = "pausing" /\ ask.at <= Len(Plan[ask.op]) /\ Todo.do = "enter"
        /\ stepping \in BOOLEAN
    BY DEF EnterPauses, QInv, QType, QPlace
  <1>2. CASE stepping' = TRUE /\ ask' = [Next1 EXCEPT !.pc = "run", !.resumes = Append(@, TRUE)]
    <2>1. ask.met = 0 /\ ~ask.misread => ~ask.before
      BY <1>1 DEF QInv, QPut
    <2> QED
      BY <1>1, <1>2, <2>1, EnteredKeeps
  <1>3. CASE stepping' \in {stepping, TRUE} /\ ask' = Lost(Raised("STEPPING_FAILED"))
    <2>1. stepping' \in BOOLEAN /\ "STEPPING_FAILED" \in Failures
      BY <1>1, <1>3 DEF Failures
    <2> QED
      BY <1>1, <1>3, <2>1, FailsKeeps
  <1> QED
    BY <1>2, <1>3 DEF EnterPauses

\* Going on inside the same blocks.
LEMMA GoesOnKeeps ==
  ASSUME QInv, QType', ask.pc = "run", ask'.pc = "run", ask'.op = ask.op,
         ask.op \in DOMAIN Plan, ask'.at \in 1 .. Len(Plan[ask.op]) + 1,
         Depth(ask.op)[ask'.at] = Len(ask.resumes), ask'.resumes = ask.resumes,
         ask'.met = ask.met, ask'.before = ask.before, ask'.misread = ask.misread,
         stepping' = stepping, Plan[ask.op][ask'.at - 1].do # "enter",
         Plan[ask.op][ask'.at - 1].do = "judge" /\ ~ask'.blind => ~stepping,
         ask.op \in HighTrust /\ ask.met = 0 => ask'.halted
  PROVE  QInv'
  <1>1. QPlace'
    BY DEF QPlace
  <1>2. QState' /\ QResults' /\ QTrust'
    BY DEF QState, QResults, QTrust
  <1>3. QPut'
    BY DEF QInv, QPut
  <1> QED
    BY <1>1, <1>2, <1>3 DEF QInv

LEMMA ProbeKeeps ==
  ASSUME QInv, Probe
  PROVE  QInv'
  <1>1. /\ ask.pc = "run" /\ ask.at <= Len(Plan[ask.op]) /\ Todo.do = "probe"
        /\ stepping' = stepping /\ stepping \in BOOLEAN /\ ask \in AskType
    BY DEF Probe, Does, QInv, QType
  <1>2. /\ ask.op \in DOMAIN Plan /\ ask.at \in 1 .. Len(Plan[ask.op])
        /\ ask.at + 1 \in 1 .. Len(Plan[ask.op]) + 1 /\ (ask.at + 1) - 1 = ask.at
        /\ Depth(ask.op)[ask.at + 1] = Len(ask.resumes)
        /\ ask.at < Len(Plan[ask.op]) /\ Plan[ask.op][ask.at + 1].do = "judge"
        /\ Len(Plan[ask.op]) \in Nat /\ ask.at \in Nat
    BY <1>1, OnPlan DEF SoundStep, Todo
  <1>3. ask.op \in HighTrust /\ ask.met = 0 => ask.halted
    BY DEF QInv, QTrust
  <1>4. CASE ask' = [Next1 EXCEPT !.seen = stepping]
    <2>1. QType'
      <3>1. Next1 \in AskType
        BY <1>1, NextType
      <3> QED
        BY <1>1, <1>4, <3>1 DEF QType, AskType
    <2>2. /\ ask'.pc = "run" /\ ask'.op = ask.op /\ ask'.at = ask.at + 1
          /\ ask'.resumes = ask.resumes /\ ask'.met = ask.met /\ ask'.before = ask.before
          /\ ask'.misread = ask.misread /\ ask'.halted = ask.halted
      BY <1>1, <1>4 DEF AskType, Next1
    <2>3. Plan[ask.op][ask'.at - 1].do = "probe"
      BY <1>1, <1>2, <2>2 DEF Todo
    <2> QED
      BY <1>1, <1>2, <1>3, <2>1, <2>2, <2>3, GoesOnKeeps
  <1>5. CASE ask' = Lost([ask EXCEPT !.at = @ + 2, !.blind = TRUE])
    <2>1. QType'
      <3>1. ask.at + 2 \in Nat \ {0}
        BY <1>2
      <3>2. [ask EXCEPT !.at = ask.at + 2] \in AskType
        BY <1>1, <3>1, Updates
      <3>3. [ask EXCEPT !.at = @ + 2, !.blind = TRUE]
              = [[ask EXCEPT !.at = ask.at + 2] EXCEPT !.blind = TRUE]
        BY <1>1 DEF AskType
      <3>4. [ask EXCEPT !.at = @ + 2, !.blind = TRUE] \in AskType
        BY <3>2, <3>3, Updates
      <3> QED
        BY <1>1, <1>5, <3>4, Updates DEF QType
    <2>2. /\ ask'.pc = "run" /\ ask'.op = ask.op /\ ask'.at = ask.at + 2
          /\ ask'.resumes = ask.resumes /\ ask'.met = ask.met /\ ask'.before = ask.before
          /\ ask'.misread = ask.misread /\ ask'.halted = ask.halted /\ ask'.blind = TRUE
      BY <1>1, <1>5 DEF AskType, Lost
    <2>3. ask.at + 2 \in 1 .. Len(Plan[ask.op]) + 1 /\ (ask.at + 2) - 1 = ask.at + 1
          /\ ask.at + 1 \in 1 .. Len(Plan[ask.op]) /\ (ask.at + 1) + 1 = ask.at + 2
      BY <1>2
    <2>4. Plan[ask.op][ask'.at - 1].do = "judge"
      BY <1>2, <2>2, <2>3
    <2>5. Depth(ask.op)[ask'.at] = Len(ask.resumes)
      <3>1. SoundStep(Plan[ask.op], Depth(ask.op), Guarded(ask.op), ask.at + 1)
        BY <1>2, <2>3, PlanStep
      <3> QED
        BY <1>2, <2>2, <2>3, <3>1 DEF SoundStep
    <2> QED
      BY <1>1, <1>2, <1>3, <2>1, <2>2, <2>3, <2>4, <2>5, GoesOnKeeps
  <1>6. CASE ask' = Lost(Raised("WS_DISCONNECTED"))
    BY <1>1, <1>6, FailsKeeps DEF Failures
  <1> QED
    BY <1>4, <1>5, <1>6 DEF Probe

LEMMA JudgeKeeps ==
  ASSUME QInv, Judge
  PROVE  QInv'
  <1>1. /\ ask.pc = "run" /\ ask.at <= Len(Plan[ask.op]) /\ Todo.do = "judge"
        /\ stepping' = stepping /\ stepping \in BOOLEAN /\ ask \in AskType
    BY DEF Judge, Does, QInv, QType
  <1>2. /\ ask.op \in DOMAIN Plan /\ ask.at \in 1 .. Len(Plan[ask.op])
        /\ ask.at + 1 \in 1 .. Len(Plan[ask.op]) + 1 /\ (ask.at + 1) - 1 = ask.at
        /\ ask.at + 1 \in Nat \ {0}
        /\ Depth(ask.op)[ask.at + 1] = Len(ask.resumes)
    BY <1>1, OnPlan DEF SoundStep, Todo
  <1>3. ask.op \in HighTrust /\ ask.met = 0 => ask.halted
    BY DEF QInv, QTrust
  <1>4. CASE ask' = IF ask.seen \/ stepping THEN Raised("CPU_STATE_ERROR") ELSE Next1
    <2>1. CASE ask.seen \/ stepping
      BY <1>1, <1>4, <2>1, FailsKeeps DEF Failures
    <2>2. CASE ~(ask.seen \/ stepping)
      <3>1. QType'
        BY <1>1, <1>4, <2>2, NextType DEF QType
      <3>2. /\ ask'.pc = "run" /\ ask'.op = ask.op /\ ask'.at = ask.at + 1
            /\ ask'.resumes = ask.resumes /\ ask'.met = ask.met /\ ask'.before = ask.before
            /\ ask'.misread = ask.misread /\ ask'.halted = ask.halted
        BY <1>1, <1>4, <2>2 DEF AskType, Next1
      <3>3. Plan[ask.op][ask'.at - 1].do = "judge"
        BY <1>1, <1>2, <3>2 DEF Todo
      <3> QED
        BY <1>1, <1>2, <1>3, <2>2, <3>1, <3>2, <3>3, GoesOnKeeps
    <2> QED
      BY <2>1, <2>2
  <1>5. CASE ask' = Lost([ask EXCEPT !.at = @ + 1, !.blind = TRUE])
    <2>1. QType'
      <3>1. [ask EXCEPT !.at = ask.at + 1] \in AskType
        BY <1>1, <1>2, Updates
      <3>2. [ask EXCEPT !.at = @ + 1, !.blind = TRUE]
              = [[ask EXCEPT !.at = ask.at + 1] EXCEPT !.blind = TRUE]
        BY <1>1 DEF AskType
      <3>3. [ask EXCEPT !.at = @ + 1, !.blind = TRUE] \in AskType
        BY <3>1, <3>2, Updates
      <3> QED
        BY <1>1, <1>5, <3>3, Updates DEF QType
    <2>2. /\ ask'.pc = "run" /\ ask'.op = ask.op /\ ask'.at = ask.at + 1
          /\ ask'.resumes = ask.resumes /\ ask'.met = ask.met /\ ask'.before = ask.before
          /\ ask'.misread = ask.misread /\ ask'.halted = ask.halted /\ ask'.blind = TRUE
      BY <1>1, <1>5 DEF AskType, Lost
    <2>3. Plan[ask.op][ask'.at - 1].do = "judge"
      BY <1>1, <1>2, <2>2 DEF Todo
    <2> QED
      BY <1>1, <1>2, <1>3, <2>1, <2>2, <2>3, GoesOnKeeps
  <1>6. CASE ask' = Lost(Raised("WS_DISCONNECTED"))
    BY <1>1, <1>6, FailsKeeps DEF Failures
  <1> QED
    BY <1>4, <1>5, <1>6 DEF Judge

LEMMA AsksKeep ==
  ASSUME QInv, Asks
  PROVE  QInv'
  <1>1. /\ ask.pc = "run" /\ ask.at <= Len(Plan[ask.op]) /\ Todo.do = "ask"
        /\ stepping' = stepping /\ stepping \in BOOLEAN /\ ask \in AskType
    BY DEF Asks, Does, QInv, QType
  <1>2. /\ ask.op \in DOMAIN Plan /\ ask.at \in 1 .. Len(Plan[ask.op])
        /\ ask.at + 1 \in 1 .. Len(Plan[ask.op]) + 1 /\ (ask.at + 1) - 1 = ask.at
        /\ Depth(ask.op)[ask.at + 1] = Len(ask.resumes) /\ Todo.event \in PlanEvents
    BY <1>1, OnPlan DEF SoundStep, Todo
  <1>3. /\ Todo.event \in Guarded(ask.op)
              => ask.at > 1 /\ Plan[ask.op][ask.at - 1].do = "enter"
        /\ Todo.event \in FrameEvents
              => ask.at > 1 /\ Plan[ask.op][ask.at - 1].do = "judge"
    BY <1>1, OnPlan DEF SoundStep, Todo
  \* The state it asks in.
  <1>4. /\ ask.met = 0 /\ Todo.event \in Guarded(ask.op) => stepping
        /\ ask.met = 0 /\ ~ask.blind /\ Todo.event \in FrameEvents => ~stepping
    BY <1>1, <1>3 DEF QInv, QState
  <1>5. StepEvents \subseteq Guarded(ask.op)
        /\ (ask.op \in HighTrust => Sampled \subseteq Guarded(ask.op))
    BY DEF Guarded
  <1> DEFINE a == AskAnswers(Todo.event)
  <1>6. /\ a = "refused" <=> Todo.event \in StepEvents /\ ~stepping
        /\ a = "timeout" <=> Todo.event \in FrameEvents /\ stepping
        /\ a \in {"ok", "refused", "timeout"}
    BY <1>1, <1>2, Answers
  <1> HIDE DEF a
  <1>7. CASE a = "ok" /\ ask' = [Next1 EXCEPT !.halted = @ /\ (Todo.event \in Sampled => stepping)]
    <2>1. QType'
      <3> DEFINE n == Next1
                 h == n.halted /\ (Todo.event \in Sampled => stepping)
      <3>1. n \in AskType
        BY <1>1, NextType
      <3>2. ask' = [n EXCEPT !.halted = h] /\ h \in BOOLEAN
        BY <1>7
      <3> HIDE DEF n, h
      <3>3. ask' \in AskType
        BY <3>1, <3>2 DEF AskType
      <3> QED
        BY <1>1, <3>3 DEF QType
    <2>2. /\ ask'.pc = "run" /\ ask'.op = ask.op /\ ask'.at = ask.at + 1
          /\ ask'.resumes = ask.resumes /\ ask'.met = ask.met /\ ask'.before = ask.before
          /\ ask'.misread = ask.misread
          /\ ask'.halted = (ask.halted /\ (Todo.event \in Sampled => stepping))
      BY <1>1, <1>7 DEF AskType, Next1
    <2>3. Plan[ask.op][ask'.at - 1].do = "ask"
      BY <1>1, <1>2, <2>2 DEF Todo
    <2>4. ask.op \in HighTrust /\ ask.met = 0 => ask'.halted
      <3>1. ask.op \in HighTrust /\ ask.met = 0 => ask.halted
        BY DEF QInv, QTrust
      <3>2. ask.op \in HighTrust /\ ask.met = 0 /\ Todo.event \in Sampled => stepping
        BY <1>4, <1>5
      <3> QED
        BY <2>2, <3>1, <3>2
    <2> QED
      BY <1>1, <1>2, <2>1, <2>2, <2>3, <2>4, GoesOnKeeps
  <1>8. CASE a # "ok" /\ ask' = Raised(a)
    <2>1. QType'
      BY <1>1, <1>6, <1>8, RaisedType DEF QType
    <2>2. /\ ask'.pc = "unwind" /\ ask'.op = ask.op /\ ask'.met = ask.met
          /\ ask'.blind = ask.blind /\ ask'.halted = ask.halted /\ ask'.res = a
      BY <1>1, <1>8 DEF AskType, Raised
    <2>3. ask.met # 0 \/ ask.blind
      BY <1>4, <1>5, <1>6, <1>8
    <2> QED
      BY <1>1, <1>8, <2>1, <2>2, <2>3, RaisedKeeps
  <1>9. CASE ask' = Raised("FUNC_NOT_FOUND") \/ ask' = Lost(Raised("lost"))
    BY <1>1, <1>9, FailsKeeps DEF Failures
  <1> QED
    BY <1>7, <1>8, <1>9 DEF Asks, a

LEMMA TriesKeep ==
  ASSUME QInv, Tries
  PROVE  QInv'
  <1>1. /\ ask.pc = "run" /\ ask.at <= Len(Plan[ask.op]) /\ Todo.do = "try"
        /\ stepping' = stepping /\ ask' = Next1 /\ stepping \in BOOLEAN /\ ask \in AskType
    BY DEF Tries, Does, QInv, QType
  <1>2. /\ ask.op \in DOMAIN Plan /\ ask.at \in 1 .. Len(Plan[ask.op])
        /\ ask.at + 1 \in 1 .. Len(Plan[ask.op]) + 1 /\ (ask.at + 1) - 1 = ask.at
        /\ Depth(ask.op)[ask.at + 1] = Len(ask.resumes)
    BY <1>1, OnPlan DEF SoundStep, Todo
  <1>3. ask.op \in HighTrust /\ ask.met = 0 => ask.halted
    BY DEF QInv, QTrust
  <1>4. QType'
    BY <1>1, NextType DEF QType
  <1>5. /\ ask'.pc = "run" /\ ask'.op = ask.op /\ ask'.at = ask.at + 1
        /\ ask'.resumes = ask.resumes /\ ask'.met = ask.met /\ ask'.before = ask.before
        /\ ask'.misread = ask.misread /\ ask'.halted = ask.halted
    BY <1>1 DEF AskType, Next1
  <1>6. Plan[ask.op][ask'.at - 1].do = "try"
    BY <1>1, <1>2, <1>5 DEF Todo
  <1> QED
    BY <1>1, <1>2, <1>3, <1>4, <1>5, <1>6, GoesOnKeeps

LEMMA PoppedType ==
  ASSUME NEW a \in AskType, Len(a.resumes) > 0
  PROVE  /\ Popped(a) \in AskType
         /\ Popped(a).resumes = SubSeq(a.resumes, 1, Len(a.resumes) - 1)
         /\ Popped(a).pc = a.pc /\ Popped(a).op = a.op /\ Popped(a).at = a.at
         /\ Popped(a).blind = a.blind /\ Popped(a).halted = a.halted /\ Popped(a).met = a.met
         /\ Popped(a).before = a.before /\ Popped(a).misread = a.misread
         /\ Popped(a).res = a.res
  <1>1. a.resumes \in Seq(BOOLEAN)
    BY DEF AskType
  <1>2. SubSeq(a.resumes, 1, Len(a.resumes) - 1) \in Seq(BOOLEAN)
    BY <1>1, PoppedIs
  <1> DEFINE s == SubSeq(a.resumes, 1, Len(a.resumes) - 1)
  <1> HIDE DEF s
  <1>3. Popped(a) = [a EXCEPT !.resumes = s]
    BY DEF Popped, s
  <1>4. Popped(a) \in AskType
    BY <1>2, <1>3, Updates DEF s
  <1>5. /\ Popped(a).resumes = s
        /\ Popped(a).pc = a.pc /\ Popped(a).op = a.op /\ Popped(a).at = a.at
        /\ Popped(a).blind = a.blind /\ Popped(a).halted = a.halted /\ Popped(a).met = a.met
        /\ Popped(a).before = a.before /\ Popped(a).misread = a.misread
        /\ Popped(a).res = a.res
    BY <1>3 DEF AskType
  <1> QED
    BY <1>4, <1>5 DEF s

LEMMA LeavesKeep ==
  ASSUME QInv, AskLeaves
  PROVE  QInv'
  <1>1. /\ ask.pc = "run" /\ ask.at <= Len(Plan[ask.op]) /\ Todo.do = "leave"
        /\ stepping \in BOOLEAN /\ ask \in AskType
    BY DEF AskLeaves, Does, QInv, QType
  <1>2. /\ ask.op \in DOMAIN Plan /\ ask.at \in 1 .. Len(Plan[ask.op])
        /\ ask.at + 1 \in 1 .. Len(Plan[ask.op]) + 1 /\ (ask.at + 1) - 1 = ask.at
        /\ Len(ask.resumes) > 0
        /\ Depth(ask.op)[ask.at + 1] = Len(ask.resumes) - 1
    BY <1>1, OnPlan DEF SoundStep, Todo
  <1> DEFINE s == ask.resumes
             n == Len(s)
             t == SubSeq(s, 1, n - 1)
  <1>3. s \in Seq(BOOLEAN) /\ n \in Nat /\ n > 0
    BY <1>1, <1>2 DEF AskType
  <1>4. t \in Seq(BOOLEAN) /\ Len(t) = n - 1 /\ \A i \in 1 .. n - 1 : t[i] = s[i]
    BY <1>3, PoppedIs
  <1>5. TopResume = s[n] /\ TopResume \in BOOLEAN
    <2>1. n \in 1 .. n
      BY <1>3
    <2> QED
      BY <1>3, <2>1 DEF TopResume
  <1>6. CASE ask' = Popped(Next1) /\ stepping' = (stepping /\ ~TopResume)
    <2>1. /\ Next1 \in AskType /\ Next1.resumes = s /\ Next1.pc = "run" /\ Next1.op = ask.op
          /\ Next1.at = ask.at + 1 /\ Next1.blind = ask.blind /\ Next1.halted = ask.halted
          /\ Next1.met = ask.met /\ Next1.before = ask.before /\ Next1.misread = ask.misread
          /\ Next1.res = ask.res
      <3>1. Next1 \in AskType
        BY <1>1, NextType
      <3> QED
        BY <1>1, <3>1 DEF Next1, AskType
    <2>2. /\ ask' \in AskType /\ ask'.resumes = t /\ ask'.pc = "run" /\ ask'.op = ask.op
          /\ ask'.at = ask.at + 1 /\ ask'.blind = ask.blind /\ ask'.halted = ask.halted
          /\ ask'.met = ask.met /\ ask'.before = ask.before /\ ask'.misread = ask.misread
          /\ ask'.res = ask.res
      BY <1>2, <1>6, <2>1, PoppedType
    <2> HIDE DEF s, n, t
    <2>3. QType'
      BY <1>1, <1>6, <2>2 DEF QType
    <2>4. QPlace'
      BY <1>2, <1>4, <2>2 DEF QPlace, n, s
    <2>5. QState'
      BY <1>1, <1>2, <2>2 DEF QState, Todo
    <2>6. QResults'
      BY <2>2 DEF QResults
    <2>7. QTrust'
      BY <2>2 DEF QInv, QTrust
    <2>8. QPut'
      <3> SUFFICES ASSUME ask.met = 0, ~ask.misread
                   PROVE  /\ ask.before => stepping' /\ \A i \in 1 .. Len(t) : ~t[i]
                          /\ ~ask.before => (t = <<>> => ~stepping') /\ (t # <<>> => t[1])
        BY <2>2 DEF QPut
      <3>1. /\ ask.before => stepping /\ \A i \in 1 .. n : ~s[i]
            /\ ~ask.before => (s # <<>> => s[1])
        BY <1>1 DEF QInv, QPut, s, n
      <3>2. ASSUME ask.before PROVE stepping' /\ \A i \in 1 .. Len(t) : ~t[i]
        <4>1. n \in 1 .. n /\ \A i \in 1 .. n - 1 : i \in 1 .. n
          BY <1>3
        <4>2. ~s[n] /\ stepping
          BY <3>1, <3>2, <4>1, Zenon
        <4>3. stepping'
          BY <1>5, <1>6, <4>2, Zenon
        <4>4. ASSUME NEW i \in 1 .. n - 1 PROVE ~t[i]
          <5>1. t[i] = s[i] /\ i \in 1 .. n
            BY <1>4, <4>1
          <5> QED
            BY <3>1, <3>2, <5>1
        <4> QED
          BY <1>4, <4>3, <4>4
      <3>3. ASSUME ~ask.before PROVE (t = <<>> => ~stepping') /\ (t # <<>> => t[1])
        <4>1. s # <<>>
          BY <1>3 DEF n
        <4>2. s[1]
          BY <3>1, <3>3, <4>1, Zenon
        <4>3. CASE t = <<>>
          <5>1. n = 1
            <6>1. Len(t) = 0
              BY <4>3
            <6> QED
              BY <1>3, <1>4, <6>1
          <5>2. TopResume
            BY <1>5, <4>2, <5>1
          <5> QED
            BY <1>6, <4>3, <5>2, Zenon
        <4>4. CASE t # <<>>
          <5>1. Len(t) # 0
            BY <1>4, <4>4
          <5>2. 1 \in 1 .. n - 1
            BY <1>3, <1>4, <5>1
          <5>3. t[1] = s[1]
            BY <1>4, <5>2, Zenon
          <5> QED
            BY <4>2, <4>4, <5>3
        <4> QED
          BY <4>3, <4>4, Zenon
      <3> QED
        BY <3>2, <3>3, Zenon
    <2> QED
      BY <2>3, <2>4, <2>5, <2>6, <2>7, <2>8 DEF QInv
  <1>7. CASE ask' = Lost(Popped(Raised("RESUME_FAILED"))) /\ UNCHANGED stepping
    <2> DEFINE r == Raised("RESUME_FAILED")
    <2>1. /\ r \in AskType /\ r.pc = "unwind" /\ r.op = ask.op /\ r.met = ask.met
          /\ r.blind = ask.blind /\ r.halted = ask.halted /\ r.res = "RESUME_FAILED"
          /\ r.resumes = s
      <3>1. r \in AskType
        BY <1>1, RaisedType DEF Failures
      <3> QED
        BY <1>1, <3>1 DEF Raised, AskType
    <2> HIDE DEF r
    <2> DEFINE x == Popped(r)
    <2>2. /\ x \in AskType /\ x.pc = "unwind" /\ x.op = ask.op /\ x.met = ask.met
          /\ x.blind = ask.blind /\ x.halted = ask.halted /\ x.res = "RESUME_FAILED"
      BY <1>2, <2>1, PoppedType
    <2>3. ask' = Lost(x)
      BY <1>7 DEF r
    <2> HIDE DEF x
    <2>4. /\ ask' \in AskType /\ ask'.pc = "unwind" /\ ask'.op = ask.op /\ ask'.met = ask.met
          /\ ask'.blind = ask.blind /\ ask'.halted = ask.halted /\ ask'.res = "RESUME_FAILED"
      <3>1. ask' \in AskType
        BY <2>2, <2>3, Updates
      <3> QED
        BY <2>2, <2>3, <3>1 DEF Lost, AskType
    <2>5. QType'
      BY <1>1, <1>7, <2>4 DEF QType
    <2> QED
      BY <1>1, <2>4, <2>5, RaisedKeeps
  <1> QED
    BY <1>6, <1>7 DEF AskLeaves

LEMMA UnwindsKeep ==
  ASSUME QInv, Unwinds
  PROVE  QInv'
  <1>1. /\ ask.pc = "unwind" /\ ask' = Popped(ask) /\ ask \in AskType /\ stepping \in BOOLEAN
    BY DEF Unwinds, QInv, QType
  <1>2. stepping' \in BOOLEAN
    BY <1>1 DEF Unwinds
  <1>3. Len(ask.resumes) > 0
    <2>1. ask.resumes \in Seq(BOOLEAN) /\ ask.resumes # <<>>
      BY <1>1 DEF Unwinds, AskType
    <2> QED
      BY <2>1, EmptySeq
  <1>4. /\ ask' \in AskType /\ ask'.pc = "unwind" /\ ask'.op = ask.op /\ ask'.met = ask.met
        /\ ask'.blind = ask.blind /\ ask'.halted = ask.halted /\ ask'.res = ask.res
    BY <1>1, <1>3, PoppedType
  <1>5. QType'
    BY <1>2, <1>4 DEF QType
  <1>6. QPlace' /\ QState' /\ QPut'
    BY <1>4 DEF QPlace, QState, QPut
  <1>7. QResults'
    BY <1>1, <1>4 DEF QInv, QResults
  <1>8. QTrust'
    BY <1>4 DEF QInv, QTrust
  <1> QED
    BY <1>5, <1>6, <1>7, <1>8 DEF QInv

LEMMA EndsKeep ==
  ASSUME QInv, AskEnds
  PROVE  QInv'
  <1>1. ask \in AskType /\ stepping' = stepping /\ stepping \in BOOLEAN
    BY DEF AskEnds, QInv, QType
  <1>2. CASE ask.pc = "run" /\ ask.at > Len(Plan[ask.op])
             /\ ask' = [ask EXCEPT !.pc = "end", !.res = "ok"]
    <2>1. ask' \in AskType
      <3>1. [ask EXCEPT !.pc = "end"] \in AskType
        BY <1>1, Updates
      <3>2. ask' = [[ask EXCEPT !.pc = "end"] EXCEPT !.res = "ok"]
        BY <1>1, <1>2 DEF AskType
      <3> QED
        BY <3>1, <3>2, Updates
    <2>2. /\ ask'.pc = "end" /\ ask'.op = ask.op /\ ask'.met = ask.met
          /\ ask'.halted = ask.halted /\ ask'.before = ask.before
          /\ ask'.misread = ask.misread /\ ask'.res = "ok"
      BY <1>1, <1>2 DEF AskType
    <2>3. QPlace' /\ QState' /\ QResults'
      BY <2>2 DEF QPlace, QState, QResults
    <2>4. QTrust'
      BY <2>2 DEF QInv, QTrust
    <2>5. ask.resumes = <<>>
      <3>1. ask.op \in DOMAIN Plan /\ ask.at \in 1 .. Len(Plan[ask.op]) + 1
            /\ Len(ask.resumes) = Depth(ask.op)[ask.at]
        BY <1>2 DEF QInv, QPlace
      <3>2. ask.at = Len(Plan[ask.op]) + 1
        <4>1. Len(Plan[ask.op]) \in Nat
          BY <3>1, DepthSound
        <4> QED
          BY <1>2, <3>1, <4>1
      <3>3. Len(ask.resumes) = 0
        BY <3>1, <3>2, DepthSound
      <3>4. ask.resumes \in Seq(BOOLEAN)
        BY <1>1 DEF AskType
      <3> QED
        BY <3>3, <3>4, EmptySeq
    <2>6. ask.met = 0 /\ ~ask.misread => stepping = ask.before
      <3>1. ask.before \in BOOLEAN
        BY <1>1 DEF AskType
      <3>2. ask.met = 0 /\ ~ask.misread /\ ask.before => stepping
        BY <1>2 DEF QInv, QPut
      <3>3. ask.met = 0 /\ ~ask.misread /\ ~ask.before => ~stepping
        BY <1>2, <2>5 DEF QInv, QPut
      <3> QED
        BY <1>1, <3>1, <3>2, <3>3
    <2>7. QPut'
      BY <1>1, <2>2, <2>6 DEF QPut
    <2> QED
      BY <1>1, <2>1, <2>3, <2>4, <2>7 DEF QInv, QType
  <1>3. CASE ask.pc = "unwind" /\ ask' = [ask EXCEPT !.pc = "end"]
    <2>1. ask' \in AskType
      BY <1>1, <1>3, Updates
    <2>2. /\ ask'.pc = "end" /\ ask'.op = ask.op /\ ask'.met = ask.met
          /\ ask'.blind = ask.blind /\ ask'.halted = ask.halted /\ ask'.res = ask.res
      BY <1>1, <1>3 DEF AskType
    <2>3. ask.res # "ok"
      BY <1>3 DEF QInv, QResults
    <2>4. QPlace' /\ QState' /\ QPut'
      BY <2>2, <2>3 DEF QPlace, QState, QPut
    <2>5. QResults'
      BY <1>3, <2>2 DEF QInv, QResults
    <2>6. QTrust'
      BY <2>2 DEF QInv, QTrust
    <2> QED
      BY <1>1, <2>1, <2>4, <2>5, <2>6 DEF QInv, QType
  <1> QED
    BY <1>2, <1>3 DEF AskEnds

LEMMA MeddlesKeeps ==
  ASSUME QInv, Meddles
  PROVE  QInv'
  <1>1. ask \in AskType /\ stepping' \in BOOLEAN
    BY DEF Meddles, QInv, QType
  <1>2. CASE ask' = NoAsk
    <2>1. NoAsk \in AskType
      <3>1. <<>> \in Seq(BOOLEAN)
        OBVIOUS
      <3> QED
        BY <3>1 DEF NoAsk, AskType
    <2>2. ask'.pc = "idle" /\ ask'.halted = TRUE
      BY <1>2 DEF NoAsk
    <2> QED
      BY <1>1, <1>2, <2>1, <2>2 DEF QInv, QType, QPlace, QState, QResults, QTrust, QPut
  <1>3. CASE ask.pc \notin {"idle", "end"} /\ ask' = [ask EXCEPT !.met = @ + 1]
    <2>1. ask.met + 1 \in Nat /\ ask.met + 1 # 0
      BY <1>1 DEF AskType
    <2>2. ask' \in AskType
      BY <1>1, <1>3, <2>1, Updates
    <2>3. /\ ask'.pc = ask.pc /\ ask'.op = ask.op /\ ask'.at = ask.at
          /\ ask'.resumes = ask.resumes /\ ask'.met # 0 /\ ask'.res = ask.res
      BY <1>1, <1>3, <2>1 DEF AskType
    <2>4. QState' /\ QTrust' /\ QPut'
      BY <2>3 DEF QState, QTrust, QPut
    <2>5. QPlace'
      BY <2>3 DEF QInv, QPlace, Todo
    <2>6. QResults'
      BY <2>3 DEF QInv, QResults
    <2> QED
      BY <1>1, <2>2, <2>4, <2>5, <2>6 DEF QInv, QType
  <1> QED
    BY <1>2, <1>3 DEF Meddles

LEMMA QueryStarts ==
  ASSUME QueryInit
  PROVE  QInv
  <1>1. NoAsk \in AskType
    <2>1. <<>> \in Seq(BOOLEAN)
      OBVIOUS
    <2> QED
      BY <2>1 DEF NoAsk, AskType
  <1>2. ask = NoAsk /\ stepping \in BOOLEAN /\ ask.pc = "idle" /\ ask.halted = TRUE
    BY DEF QueryInit, NoAsk
  <1> QED
    BY <1>1, <1>2 DEF QInv, QType, QPlace, QState, QResults, QTrust, QPut

LEMMA QueryStep ==
  ASSUME QInv, [QueryNext]_queryVars
  PROVE  QInv'
  <1>1. CASE AskArrives
    BY <1>1, ArrivesKeeps
  <1>2. CASE EnterProbes \/ EnterPauses
    BY <1>2, ProbesKeep, PausesKeep
  <1>3. CASE Probe \/ Judge
    BY <1>3, ProbeKeeps, JudgeKeeps
  <1>4. CASE Asks \/ Tries
    BY <1>4, AsksKeep, TriesKeep
  <1>5. CASE AskLeaves \/ Unwinds \/ AskEnds
    BY <1>5, LeavesKeep, UnwindsKeep, EndsKeep
  <1>6. CASE AskCancelled
    BY <1>6, FailsKeeps DEF AskCancelled, Failures, QInv, QType
  <1>7. CASE Meddles
    BY <1>7, MeddlesKeeps
  <1>8. CASE UNCHANGED queryVars
    BY <1>8 DEF queryVars, QInv, QType, QPlace, QState, QResults, QTrust, QPut, Todo
  <1> QED
    BY <1>1, <1>2, <1>3, <1>4, <1>5, <1>6, <1>7, <1>8 DEF QueryNext

(* Whatever the plans of the tools nest, every event is asked in the state    *)
(* WS_EVENT_CONTRACTS wants of the CPU, what is labelled trustworthy was read  *)
(* from a paused CPU, and with_stepping leaves the CPU as it found it.         *)
THEOREM AsksCorrect == QuerySpec => []AsksAreInState
  <1>1. QInv => AsksAreInState
    BY DEF QInv, AsksAreInState, AskedInState, TrustIsTrue, PutBack, QResults, QTrust, QPut
  <1> QED
    BY <1>1, QueryStarts, QueryStep, PTL DEF QuerySpec

-----------------------------------------------------------------------------
(* The observer of the game *)

GameEvents == {"game.start", "game.pause", "game.resume", "game.quit"}

\* The states of the game an event can come from, and the one it leaves.
Leaves(e) == CASE e = "game.start" -> {"none", "quit"} [] e = "game.pause" -> {"running"}
               [] e = "game.resume" -> {"paused"} [] e = "game.quit" -> {"running", "paused"}
Reaches(e) == CASE e \in {"game.start", "game.resume"} -> "running"
                [] e = "game.pause" -> "paused" [] e = "game.quit" -> "quit"

WorldType ==
    /\ emu \in [game : {"none", "running", "paused", "quit"}, stepping : BOOLEAN,
                alive : BOOLEAN]
    /\ wire \in Seq(GameEvents)
    /\ observer \in {"loading", "running", "paused", "quit", "none"}

\* The broadcasts under way lead, one from the other, to where the game is.
WireLeads ==
    /\ \A i \in 1 .. Len(wire) : i > 1 => Reaches(wire[i - 1]) \in Leaves(wire[i])
    /\ wire # <<>> => emu.game = Reaches(wire[Len(wire)]) /\ observer # "none"

\* An observer that says `running' is right, or the next broadcast says why not.
RunningOrTold ==
    observer = "running" =>
        IF wire = <<>> THEN emu.game = "running" ELSE "running" \in Leaves(wire[1])

WorldInv == WorldType /\ WireLeads /\ RunningOrTold

LEMMA WorldStarts ==
  ASSUME DiagInit
  PROVE  WorldInv
  <1>1. WorldType
    <2>1. <<>> \in Seq(GameEvents)
      OBVIOUS
    <2> QED
      BY <2>1 DEF DiagInit, WorldType
  <1>2. WireLeads /\ RunningOrTold
    BY DEF DiagInit, WireLeads, RunningOrTold
  <1> QED
    BY <1>1, <1>2 DEF WorldInv

LEMMA GameEventKeeps ==
  ASSUME WorldInv, NEW e \in GameEvents, GameEvent(e, Leaves(e), Reaches(e))
  PROVE  WorldInv'
  <1>1. /\ emu.game \in Leaves(e) /\ emu' = [emu EXCEPT !.game = Reaches(e)]
        /\ wire' = IF observer = "none" THEN wire ELSE Append(wire, e)
        /\ observer' = observer
    BY DEF GameEvent
  <1>2. WorldType
    BY DEF WorldInv
  <1>3. Reaches(e) \in {"running", "paused", "quit"}
    BY DEF Reaches, GameEvents
  <1> DEFINE g == Reaches(e)
  <1> HIDE DEF g
  <1>4. emu'.game = g /\ emu' \in [game : {"none", "running", "paused", "quit"},
                                   stepping : BOOLEAN, alive : BOOLEAN]
    BY <1>1, <1>2, <1>3 DEF WorldType, g
  <1>5. CASE observer = "none"
    <2>1. wire = <<>> /\ wire' = <<>>
      BY <1>1, <1>5 DEF WorldInv, WireLeads
    <2> QED
      BY <1>1, <1>2, <1>4, <1>5, <2>1 DEF WorldInv, WorldType, WireLeads, RunningOrTold
  <1>6. CASE observer # "none"
    <2> DEFINE l == Len(wire)
    <2>1. wire \in Seq(GameEvents) /\ l \in Nat
      BY <1>2 DEF WorldType
    <2>2. /\ wire' \in Seq(GameEvents) /\ Len(wire') = l + 1 /\ wire' # <<>>
          /\ \A i \in 1 .. l : wire'[i] = wire[i]
          /\ wire'[l + 1] = e
      BY <1>1, <1>6, <2>1
    <2>3. l # 0 => wire # <<>> /\ emu.game = Reaches(wire[l])
      BY <2>1 DEF WorldInv, WireLeads
    <2>4. \A i \in 1 .. l : i > 1 => Reaches(wire[i - 1]) \in Leaves(wire[i])
      BY DEF WorldInv, WireLeads
    <2> HIDE DEF l
    <2>5. ASSUME NEW i \in 1 .. l + 1, i > 1 PROVE Reaches(wire'[i - 1]) \in Leaves(wire'[i])
      <3>1. CASE i = l + 1
        <4>1. i - 1 = l /\ l \in 1 .. l /\ l # 0
          BY <2>1, <2>5, <3>1
        <4>2. wire'[i - 1] = wire[l] /\ wire'[i] = e
          BY <2>2, <3>1, <4>1
        <4> QED
          BY <1>1, <2>3, <4>1, <4>2
      <3>2. CASE i # l + 1
        <4>1. i \in 1 .. l /\ i - 1 \in 1 .. l
          BY <2>1, <2>5, <3>2
        <4> QED
          BY <2>2, <2>4, <2>5, <4>1
      <3> QED
        BY <3>1, <3>2
    <2>6. WireLeads'
      BY <1>1, <1>4, <1>6, <2>2, <2>5 DEF WireLeads, g
    <2>7. RunningOrTold'
      <3> SUFFICES ASSUME observer = "running" PROVE "running" \in Leaves(wire'[1])
        BY <1>1, <2>2 DEF RunningOrTold
      <3>1. CASE l = 0
        <4>1. wire = <<>> /\ wire'[1] = e
          BY <2>1, <2>2, <3>1, EmptySeq DEF l
        <4>2. emu.game = "running"
          BY <4>1 DEF WorldInv, RunningOrTold
        <4> QED
          BY <1>1, <4>1, <4>2
      <3>2. CASE l # 0
        <4>1. 1 \in 1 .. l /\ wire # <<>>
          BY <2>1, <2>3, <3>2
        <4>2. wire'[1] = wire[1]
          BY <2>2, <4>1
        <4> QED
          BY <4>1, <4>2 DEF WorldInv, RunningOrTold
      <3> QED
        BY <3>1, <3>2
    <2> QED
      BY <1>1, <1>2, <1>4, <2>2, <2>6, <2>7 DEF WorldInv, WorldType
  <1> QED
    BY <1>5, <1>6

LEMMA EmuGameKeeps ==
  ASSUME WorldInv, EmuGame
  PROVE  WorldInv'
  <1>1. /\ Leaves("game.start") = {"none", "quit"} /\ Reaches("game.start") = "running"
        /\ Leaves("game.pause") = {"running"} /\ Reaches("game.pause") = "paused"
        /\ Leaves("game.resume") = {"paused"} /\ Reaches("game.resume") = "running"
        /\ Leaves("game.quit") = {"running", "paused"} /\ Reaches("game.quit") = "quit"
    BY DEF Leaves, Reaches
  <1>2. \A e \in GameEvents : GameEvent(e, Leaves(e), Reaches(e)) => WorldInv'
    BY GameEventKeeps
  <1>3. {"game.start", "game.pause", "game.resume", "game.quit"} \subseteq GameEvents
    BY DEF GameEvents
  <1>4. \E e \in GameEvents : GameEvent(e, Leaves(e), Reaches(e))
    <2>1. CASE GameEvent("game.start", {"none", "quit"}, "running")
      BY <1>1, <1>3, <2>1
    <2>2. CASE GameEvent("game.pause", {"running"}, "paused")
      BY <1>1, <1>3, <2>2
    <2>3. CASE GameEvent("game.resume", {"paused"}, "running")
      BY <1>1, <1>3, <2>3
    <2>4. CASE GameEvent("game.quit", {"running", "paused"}, "quit")
      BY <1>1, <1>3, <2>4
    <2> QED
      BY <2>1, <2>2, <2>3, <2>4, Zenon DEF EmuGame
  <1> QED
    BY <1>2, <1>4, Zenon

\* The observer takes the oldest broadcast.
LEMMA AppliesKeeps ==
  ASSUME WorldInv, ApplyTransition
  PROVE  WorldInv'
  <1> DEFINE l == Len(wire)
             e == wire[1]
  <1>1. /\ WorldType /\ wire \in Seq(GameEvents) /\ wire # <<>> /\ l \in Nat /\ l > 0
        /\ emu' = emu /\ wire' = Tail(wire)
    <2>1. WorldType /\ wire # <<>> /\ emu' = emu /\ wire' = Tail(wire)
      BY DEF WorldInv, ApplyTransition
    <2>2. wire \in Seq(GameEvents)
      BY <2>1 DEF WorldType
    <2>3. l \in Nat /\ l # 0
      BY <2>1, <2>2, EmptySeq
    <2> QED
      BY <2>1, <2>2, <2>3
  <1>2. e \in GameEvents /\ observer' = Transition(observer, e)
    <2>1. Head(wire) = e
      BY <1>1
    <2>2. e \in GameEvents
      BY <1>1
    <2> QED
      BY <2>1, <2>2 DEF ApplyTransition
  <1>3. /\ wire' \in Seq(GameEvents) /\ Len(wire') = l - 1
        /\ \A i \in 1 .. l - 1 : wire'[i] = wire[i + 1]
    BY <1>1, HeadTailProperties
  <1>4. /\ \A i \in 1 .. l : i > 1 => Reaches(wire[i - 1]) \in Leaves(wire[i])
        /\ emu.game = Reaches(wire[l]) /\ observer # "none"
    BY <1>1 DEF WorldInv, WireLeads
  <1>5. observer' \in {"loading", "running", "paused", "quit", "none"} /\ observer' # "none"
    <2>1. observer \in {"loading", "running", "paused", "quit", "none"}
      BY <1>1 DEF WorldType
    <2> HIDE DEF e
    <2> QED
      BY <1>2, <1>4, <2>1 DEF Transition
  <1>6. WorldType'
    BY <1>1, <1>3, <1>5 DEF WorldType
  <1> HIDE DEF l
  <1>7. WireLeads'
    <2>1. ASSUME NEW i \in 1 .. Len(wire'), i > 1
          PROVE  Reaches(wire'[i - 1]) \in Leaves(wire'[i])
      <3>1. /\ i \in 1 .. l - 1 /\ i - 1 \in 1 .. l - 1 /\ i + 1 \in 1 .. l /\ i + 1 > 1
            /\ (i - 1) + 1 = i /\ (i + 1) - 1 = i
        BY <1>1, <1>3, <2>1
      <3>2. wire'[i] = wire[i + 1] /\ wire'[i - 1] = wire[i]
        BY <1>3, <3>1
      <3>3. Reaches(wire[(i + 1) - 1]) \in Leaves(wire[i + 1])
        BY <1>4, <3>1
      <3> QED
        BY <3>1, <3>2, <3>3
    <2>2. ASSUME wire' # <<>> PROVE emu'.game = Reaches(wire'[Len(wire')])
      <3>1. l - 1 \in 1 .. l - 1 /\ (l - 1) + 1 = l
        <4>1. Len(wire') # 0
          BY <1>3, <2>2, EmptySeq
        <4> QED
          BY <1>1, <1>3, <4>1
      <3>2. wire'[l - 1] = wire[l]
        BY <1>3, <3>1
      <3> QED
        BY <1>1, <1>3, <1>4, <3>2
    <2> QED
      BY <1>5, <2>1, <2>2 DEF WireLeads
  <1>8. RunningOrTold'
    <2> SUFFICES ASSUME observer' = "running"
                 PROVE  IF wire' = <<>> THEN emu'.game = "running"
                        ELSE "running" \in Leaves(wire'[1])
      BY DEF RunningOrTold
    <2>1. Reaches(e) = "running"
      <3>1. observer = "running" => "running" \in Leaves(e)
        BY <1>1 DEF WorldInv, RunningOrTold
      <3> HIDE DEF e
      <3>2. "running" \in Leaves(e) => e \in {"game.pause", "game.quit"}
        BY <1>2 DEF Leaves, GameEvents
      <3>3. observer # "running"
        BY <1>2, <3>1, <3>2 DEF Transition
      <3>4. e \in {"game.start", "game.resume"}
        BY <1>2, <3>3 DEF Transition
      <3> QED
        BY <3>4 DEF Reaches
    <2>2. CASE wire' = <<>>
      <3>1. l = 1
        <4>1. Len(wire') = 0
          BY <2>2
        <4> QED
          BY <1>1, <1>3, <4>1
      <3> QED
        BY <1>1, <1>4, <2>1, <2>2, <3>1
    <2>3. CASE wire' # <<>>
      <3>1. 1 \in 1 .. l - 1 /\ 2 \in 1 .. l /\ 2 > 1 /\ 2 - 1 = 1 /\ 1 + 1 = 2
        <4>1. Len(wire') # 0
          BY <1>3, <2>3, EmptySeq
        <4> QED
          BY <1>1, <1>3, <4>1
      <3>2. wire'[1] = wire[2]
        BY <1>3, <3>1
      <3>3. Reaches(wire[2 - 1]) \in Leaves(wire[2])
        BY <1>4, <3>1
      <3> QED
        BY <2>1, <2>3, <3>1, <3>2, <3>3
    <2> QED
      BY <2>2, <2>3
  <1> QED
    BY <1>6, <1>7, <1>8 DEF WorldInv

LEMMA WorldStep ==
  ASSUME WorldInv, [DiagNext]_diagVars
  PROVE  WorldInv'
  <1>1. CASE EmuGame
    BY <1>1, EmuGameKeeps
  <1>2. CASE ApplyTransition
    BY <1>2, AppliesKeeps
  <1>3. ASSUME UNCHANGED <<wire, observer>>, emu'.game = emu.game, WorldType'
        PROVE  WorldInv'
    BY <1>3 DEF WorldInv, WireLeads, RunningOrTold
  <1>4. CASE EmuSteps
    <2>1. emu' = [emu EXCEPT !.stepping = ~emu.stepping] /\ UNCHANGED <<wire, observer>>
      BY <1>4 DEF EmuSteps
    <2>2. (~emu.stepping) \in BOOLEAN /\ WorldType
      BY DEF WorldInv
    <2> DEFINE b == ~emu.stepping
    <2> HIDE DEF b
    <2>3. emu'.game = emu.game /\ WorldType'
      BY <2>1, <2>2 DEF WorldType, b
    <2> QED
      BY <1>3, <2>1, <2>3
  <1>5. CASE EmuDies
    <2>1. emu' = [emu EXCEPT !.alive = FALSE] /\ UNCHANGED <<wire, observer>> /\ WorldType
      BY <1>5 DEF EmuDies, WorldInv
    <2>2. emu'.game = emu.game /\ WorldType'
      BY <2>1 DEF WorldType
    <2> QED
      BY <1>3, <2>1, <2>2
  <1>6. ASSUME UNCHANGED <<emu, wire, observer>> PROVE WorldInv'
    BY <1>6 DEF WorldInv, WorldType, WireLeads, RunningOrTold
  <1>7. CASE EmuAdvances \/ UNCHANGED diagVars
    BY <1>6, <1>7 DEF EmuAdvances, StillWorld, diagVars
  <1>8. ASSUME NEW event, LateAnswer(event) PROVE WorldInv'
    BY <1>6, <1>8 DEF LateAnswer, StillWorld
  <1>9. ASSUME NEW c, NEW event, Ask(c, event) PROVE WorldInv'
    BY <1>6, <1>9 DEF Ask, StillWorld
  <1>10. ASSUME NEW c, \/ FirstProbe(c) \/ SecondProbe(c) \/ Issue(c) \/ Answer(c)
                       \/ CallTimesOut(c) \/ ProbeSettles(c) \/ CallCancelled(c)
                       \/ ProbeCancelled(c) \/ Report(c)
         PROVE  WorldInv'
    BY <1>6, <1>10 DEF FirstProbe, SecondProbe, Issue, Answer, CallTimesOut, ProbeSettles,
       CallCancelled, ProbeCancelled, Report, StillWorld
  <1> QED
    BY <1>1, <1>2, <1>4, <1>5, <1>7, <1>8, <1>9, <1>10 DEF DiagNext

-----------------------------------------------------------------------------
(* The records of the calls *)

RecordType == [event : Events, ticket : Nat, settled : BOOLEAN, timedOut : BOOLEAN,
               error : {"none", "PPSSPP error", "no response", "CancelledError",
                        "ConnectionError"},
               stepping : {"unknown", "yes", "no"}, seen : BOOLEAN]
CallType == [pc : {"idle", "probe0", "gap", "issue", "wait", "probe", "raise", "end"},
             event : Events \cup {"none"}, stepping0 : BOOLEAN, moved : BOOLEAN, ticket : Nat,
             probe : Nat,
             raised : {"none", "CPU_STATE_ERROR", "ConnectionError", "TimeoutError",
                       "RuntimeError"},
             told : {"none", "expected_stall", "unknown", "pairing_broken", "no_producer"},
             code : {"none", "ok", "cancelled", "abandoned", "WS_DISCONNECTED", "WS_TIMEOUT",
                     "CPU_STATE_ERROR", "CPU_FREEZE_SUSPECTED", "PPSSPP_ERROR"}]

RingType ==
    /\ ring \in Seq(RecordType) /\ tickets \in Nat
    /\ request \in [Requesters -> CallType]

\* What a call has while it is under way; only one that has ended was
\* cancelled during its probe.
CallsHold ==
    \A c \in Requesters :
        /\ request[c].pc \notin {"idle", "end"} => request[c].event \in Events
        /\ request[c].pc = "raise" => request[c].raised # "none"
        /\ request[c].code = "abandoned" => request[c].pc = "end"

\* A call that an open record may belong to.
Owns(r, ticket) ==
    \/ r.pc \in {"wait", "probe"} /\ r.ticket = ticket
    \/ r.pc = "probe" /\ r.probe = ticket
    \/ r.code = "abandoned" /\ r.ticket = ticket

OpenAreOwned ==
    \A i \in 1 .. Len(ring) :
        ring[i].settled \/ \E c \in Requesters : Owns(request[c], ring[i].ticket)

DiagInv == RingType /\ CallsHold /\ OpenAreOwned

LEMMA DiagStarts ==
  ASSUME DiagInit
  PROVE  DiagInv
  <1>1. Unasked \in CallType
    BY DEF Unasked, CallType
  <1>2. <<>> \in Seq(RecordType) /\ 1 .. Len(<<>>) = {}
    OBVIOUS
  <1>3. RingType
    BY <1>1, <1>2 DEF DiagInit, RingType
  <1>4. CallsHold
    BY DEF DiagInit, CallsHold, Unasked
  <1>5. OpenAreOwned
    BY <1>2 DEF DiagInit, OpenAreOwned
  <1> QED
    BY <1>3, <1>4, <1>5 DEF DiagInv

\* A call moves: an open record it no longer owns was not its own before.
LEMMA CallMoves ==
  ASSUME DiagInv, NEW c \in Requesters, NEW r \in CallType,
         request' = [request EXCEPT ![c] = r], ring' \in Seq(RecordType), tickets' \in Nat,
         r.pc \notin {"idle", "end"} => r.event \in Events,
         r.pc = "raise" => r.raised # "none",
         r.code = "abandoned" => r.pc = "end",
         \A i \in 1 .. Len(ring') :
            \/ ring'[i].settled \/ Owns(r, ring'[i].ticket)
            \/ \E j \in 1 .. Len(ring) : /\ ring[j].ticket = ring'[i].ticket
                                         /\ ~ring[j].settled
                                         /\ ~Owns(request[c], ring[j].ticket)
  PROVE  DiagInv'
  <1>1. request \in [Requesters -> CallType]
    BY DEF DiagInv, RingType
  <1>2. /\ request' \in [Requesters -> CallType] /\ request'[c] = r
        /\ \A d \in Requesters : d # c => request'[d] = request[d]
    BY <1>1
  <1>3. RingType'
    BY <1>2 DEF RingType
  <1>4. CallsHold'
    <2> SUFFICES ASSUME NEW d \in Requesters
                 PROVE  /\ request'[d].pc \notin {"idle", "end"} => request'[d].event \in Events
                        /\ request'[d].pc = "raise" => request'[d].raised # "none"
                        /\ request'[d].code = "abandoned" => request'[d].pc = "end"
      BY DEF CallsHold
    <2>1. CASE d = c
      BY <1>2, <2>1
    <2>2. CASE d # c
      BY <1>2, <2>2 DEF DiagInv, CallsHold
    <2> QED
      BY <2>1, <2>2
  <1>5. OpenAreOwned'
    <2> SUFFICES ASSUME NEW i \in 1 .. Len(ring'), ~ring'[i].settled
                 PROVE  \E d \in Requesters : Owns(request'[d], ring'[i].ticket)
      BY DEF OpenAreOwned, Owns
    <2>1. CASE Owns(r, ring'[i].ticket)
      BY <1>2, <2>1
    <2>2. ASSUME NEW j \in 1 .. Len(ring), ring[j].ticket = ring'[i].ticket,
                 ~ring[j].settled, ~Owns(request[c], ring[j].ticket)
          PROVE  \E d \in Requesters : Owns(request'[d], ring'[i].ticket)
      <3>1. PICK d \in Requesters : Owns(request[d], ring[j].ticket)
        BY <2>2 DEF DiagInv, OpenAreOwned
      <3>2. d # c
        BY <2>2, <3>1
      <3> QED
        BY <1>2, <2>2, <3>1, <3>2
    <2> QED
      BY <2>1, <2>2
  <1> QED
    BY <1>3, <1>4, <1>5 DEF DiagInv

\* A call that waits for nothing owns no record.
LEMMA QuietMoves ==
  ASSUME DiagInv, NEW c \in Requesters, NEW r \in CallType,
         request' = [request EXCEPT ![c] = r], UNCHANGED <<ring, tickets>>,
         request[c].pc \notin {"wait", "probe", "end"},
         r.pc \notin {"idle", "end"} => r.event \in Events,
         r.pc = "raise" => r.raised # "none",
         r.code = "abandoned" => r.pc = "end"
  PROVE  DiagInv'
  <1>1. ring \in Seq(RecordType) /\ tickets \in Nat /\ request[c].code # "abandoned"
    BY DEF DiagInv, RingType, CallsHold
  <1>2. \A t : ~Owns(request[c], t)
    BY <1>1 DEF Owns
  <1> QED
    BY <1>1, <1>2, CallMoves

LEMMA FunctionIsList ==
  ASSUME NEW S, NEW n \in Nat, NEW f \in [1 .. n -> S]
  PROVE  f \in Seq(S) /\ Len(f) = n
  OBVIOUS

\* What settling a ticket does to the ring.
Settled(q, t, p) ==
    /\ p \in Seq(RecordType) /\ Len(p) = Len(q)
    /\ \A i \in 1 .. Len(q) : /\ p[i].ticket = q[i].ticket
                              /\ p[i].settled <=> q[i].settled \/ q[i].ticket = t

LEMMA SettleIs ==
  ASSUME NEW q \in Seq(RecordType), NEW t, NEW timedOut \in BOOLEAN,
         NEW error \in {"none", "PPSSPP error", "no response", "CancelledError",
                        "ConnectionError"},
         NEW word \in {"unknown", "yes", "no"}
  PROVE  Settled(q, t, SettleIn(q, t, timedOut, error, word))
  <1> DEFINE s == SettleIn(q, t, timedOut, error, word)
             l == Len(q)
  <1>1. l \in Nat /\ DOMAIN q = 1 .. l /\ \A i \in 1 .. l : q[i] \in RecordType
    BY LenProperties, ElementOfSeq
  <1>2. DOMAIN s = 1 .. l
    BY <1>1 DEF SettleIn
  <1>3. ASSUME NEW i \in 1 .. l
        PROVE  /\ s[i] \in RecordType /\ s[i].ticket = q[i].ticket
               /\ s[i].settled <=> q[i].settled \/ q[i].ticket = t
    <2>1. s[i] = IF q[i].ticket = t
                 THEN [q[i] EXCEPT !.settled = TRUE, !.timedOut = timedOut, !.error = error,
                                   !.stepping = word]
                 ELSE q[i]
      BY <1>1, <1>3 DEF SettleIn
    <2>2. q[i] \in RecordType
      BY <1>1
    <2> DEFINE x == q[i]
    <2> HIDE DEF s, x
    <2>3. CASE x.ticket = t
      <3> DEFINE y == [x EXCEPT !.settled = TRUE, !.timedOut = timedOut, !.error = error,
                                !.stepping = word]
      <3>1. y \in RecordType /\ y.ticket = x.ticket /\ y.settled
        BY <2>2 DEF RecordType, x
      <3>2. s[i] = y
        BY <2>1, <2>3 DEF x
      <3> HIDE DEF y
      <3> QED
        BY <2>3, <3>1, <3>2 DEF x
    <2>4. CASE x.ticket # t
      <3>1. s[i] = x
        BY <2>1, <2>4 DEF x
      <3> QED
        BY <2>2, <2>4, <3>1 DEF x
    <2> QED
      BY <2>3, <2>4
  <1> HIDE DEF s, l
  <1>4. s \in Seq(RecordType) /\ Len(s) = l
    <2>1. s = [i \in 1 .. l |-> s[i]]
      BY <1>1, <1>2 DEF s, SettleIn
    <2>2. \A i \in 1 .. l : s[i] \in RecordType
      BY <1>3
    <2>3. s \in [1 .. l -> RecordType] /\ l \in Nat
      BY <1>1, <2>1, <2>2
    <2> QED
      BY <2>3, FunctionIsList, Zenon
  <1> QED
    <2>1. Settled(q, t, s)
      BY <1>3, <1>4 DEF l, Settled
    <2> QED
      BY <2>1 DEF s

\* A new record: what is in the ring was there, or is the new one.
LEMMA RecordIs ==
  ASSUME RingType, NEW event \in Events, Record(event)
  PROVE  /\ ring' \in Seq(RecordType) /\ tickets' = tickets + 1 /\ tickets' \in Nat
         /\ \A i \in 1 .. Len(ring') :
               \/ ring'[i].ticket = tickets + 1
               \/ \E j \in 1 .. Len(ring) : ring'[i] = ring[j]
  <1> DEFINE q == Append(ring, Open(event))
             l == Len(ring)
  <1>1. ring \in Seq(RecordType) /\ tickets \in Nat /\ l \in Nat
    BY DEF RingType
  <1>2. tickets' = tickets + 1 /\ ring' = IF Len(q) > RingCap THEN Tail(q) ELSE q
    BY DEF Record
  <1>3. tickets + 1 \in Nat
    BY <1>1
  <1>4. Open(event) \in RecordType /\ Open(event).ticket = tickets + 1
    BY <1>3 DEF Open, RecordType
  <1>5. /\ q \in Seq(RecordType) /\ Len(q) = l + 1 /\ q[l + 1] = Open(event)
        /\ \A i \in 1 .. l : q[i] = ring[i]
    BY <1>1, <1>4
  <1> HIDE DEF q, l
  <1>6. ASSUME NEW i \in 1 .. l + 1
        PROVE  q[i].ticket = tickets + 1 \/ \E j \in 1 .. l : q[i] = ring[j]
    <2>1. i = l + 1 \/ i \in 1 .. l
      BY <1>1
    <2> QED
      BY <1>4, <1>5, <2>1
  <1>7. CASE Len(q) > RingCap
    <2>1. q # <<>>
      BY <1>1, <1>5
    <2>2. /\ Tail(q) \in Seq(RecordType) /\ Len(Tail(q)) = Len(q) - 1
          /\ \A i \in 1 .. Len(q) - 1 : Tail(q)[i] = q[i + 1]
      BY <1>5, <2>1, HeadTailProperties
    <2>3. Len(q) - 1 = l
      BY <1>1, <1>5
    <2>4. \A i \in 1 .. l : i + 1 \in 1 .. l + 1
      BY <1>1
    <2> QED
      BY <1>2, <1>3, <1>6, <1>7, <2>2, <2>3, <2>4 DEF l
  <1>8. CASE ~(Len(q) > RingCap)
    BY <1>2, <1>3, <1>5, <1>6, <1>8 DEF l
  <1> QED
    BY <1>7, <1>8

\* A call whose exception is on its way, or that goes on.
RaisedCall(x, exc) == [x EXCEPT !.pc = "raise", !.raised = exc, !.stepping0 = FALSE,
                                !.moved = FALSE]
Faults == {"CPU_STATE_ERROR", "ConnectionError", "TimeoutError", "RuntimeError"}

LEMMA RaiseIs ==
  ASSUME DiagInv, NEW c \in Requesters, NEW exc \in Faults, Raise(c, exc)
  PROVE  LET r == RaisedCall(request[c], exc) IN
         /\ request' = [request EXCEPT ![c] = r] /\ r \in CallType /\ r.pc = "raise"
         /\ r.raised # "none" /\ r.event = request[c].event /\ r.code = request[c].code
  <1>1. request \in [Requesters -> CallType] /\ request[c] \in CallType
    BY DEF DiagInv, RingType
  <1>2. request' = [request EXCEPT ![c] = RaisedCall(request[c], exc)]
    BY <1>1 DEF Raise, RaisedCall
  <1>3. exc # "none" /\ exc \in {"none", "CPU_STATE_ERROR", "ConnectionError", "TimeoutError",
                                 "RuntimeError"}
    BY DEF Faults
  <1> DEFINE x == request[c]
  <1>4. x \in CallType
    BY <1>1
  <1> HIDE DEF x
  <1>5. LET r == RaisedCall(x, exc) IN
        /\ r \in CallType /\ r.pc = "raise" /\ r.raised # "none" /\ r.event = x.event
        /\ r.code = x.code
    BY <1>3, <1>4 DEF RaisedCall, CallType
  <1> QED
    BY <1>2, <1>5 DEF x

LEMMA RaiseKeeps ==
  ASSUME DiagInv, NEW c \in Requesters, NEW exc \in Faults, Raise(c, exc),
         UNCHANGED <<ring, tickets>>, request[c].pc \in {"probe0", "gap", "issue"}
  PROVE  DiagInv'
  <1> DEFINE r == RaisedCall(request[c], exc)
  <1>1. /\ request' = [request EXCEPT ![c] = r] /\ r \in CallType /\ r.pc = "raise"
        /\ r.raised # "none" /\ r.event = request[c].event /\ r.code = request[c].code
    BY RaiseIs
  <1> HIDE DEF r
  <1>2. request[c].event \in Events /\ request[c].code # "abandoned"
    BY DEF DiagInv, CallsHold
  <1> QED
    BY <1>1, <1>2, QuietMoves

LEMMA ToKeeps ==
  ASSUME DiagInv, NEW c \in Requesters, To(c, "issue"), UNCHANGED <<ring, tickets>>,
         request[c].pc \in {"probe0", "gap"}
  PROVE  DiagInv'
  <1> DEFINE r == [request[c] EXCEPT !.pc = "issue", !.stepping0 = FALSE, !.moved = FALSE]
  <1>1. request \in [Requesters -> CallType] /\ request[c] \in CallType
        /\ request[c].event \in Events /\ request[c].code # "abandoned"
    BY DEF DiagInv, RingType, CallsHold
  <1>2. request' = [request EXCEPT ![c] = r]
    BY <1>1 DEF To
  <1>3. r \in CallType /\ r.pc = "issue" /\ r.event = request[c].event
        /\ r.code = request[c].code
    BY <1>1 DEF CallType
  <1> HIDE DEF r
  <1> QED
    BY <1>1, <1>2, <1>3, QuietMoves

LEMMA AskKeeps ==
  ASSUME DiagInv, NEW c \in Requesters, NEW event \in Events, Ask(c, event)
  PROVE  DiagInv'
  <1> DEFINE pc == IF event \in FrameEvents THEN "probe0" ELSE "issue"
             r == [request[c] EXCEPT !.event = event, !.pc = pc]
  <1>1. request \in [Requesters -> CallType] /\ request[c] \in CallType
        /\ request[c].pc = "idle" /\ request[c].code # "abandoned"
    BY DEF DiagInv, RingType, CallsHold, Ask
  <1>2. request' = [request EXCEPT ![c] = r] /\ UNCHANGED <<ring, tickets>>
    BY <1>1 DEF Ask
  <1>3. pc \in {"probe0", "issue"}
    OBVIOUS
  <1> HIDE DEF pc
  <1>4. r \in CallType /\ r.pc \in {"probe0", "issue"} /\ r.event = event
        /\ r.code = request[c].code
    BY <1>1, <1>3 DEF CallType
  <1> HIDE DEF r
  <1> QED
    BY <1>1, <1>2, <1>4, QuietMoves

LEMMA FaultKeeps ==
  ASSUME DiagInv, NEW c \in Requesters, ProbeFault(c), UNCHANGED <<ring, tickets>>,
         request[c].pc \in {"probe0", "gap"}
  PROVE  DiagInv'
  <1>1. {"ConnectionError", "TimeoutError"} \subseteq Faults
    BY DEF Faults
  <1> QED
    BY <1>1, RaiseKeeps, ToKeeps DEF ProbeFault

LEMMA FirstKeeps ==
  ASSUME WorldInv, DiagInv, NEW c \in Requesters, FirstProbe(c)
  PROVE  DiagInv'
  <1>1. request[c].pc = "probe0" /\ UNCHANGED <<ring, tickets>>
    BY DEF FirstProbe
  <1>2. CASE request' = [request EXCEPT ![c].pc = "gap", ![c].stepping0 = emu.stepping]
    <2> DEFINE b == emu.stepping
               r == [request[c] EXCEPT !.pc = "gap", !.stepping0 = b]
    <2>1. b \in BOOLEAN
      BY DEF WorldInv, WorldType
    <2>2. request \in [Requesters -> CallType] /\ request[c] \in CallType
          /\ request[c].event \in Events /\ request[c].code # "abandoned"
      BY <1>1 DEF DiagInv, RingType, CallsHold
    <2>3. request' = [request EXCEPT ![c] = r]
      BY <1>2, <2>2
    <2> HIDE DEF b
    <2>4. r \in CallType /\ r.pc = "gap" /\ r.event = request[c].event
          /\ r.code = request[c].code
      BY <2>1, <2>2 DEF CallType
    <2> HIDE DEF r
    <2> QED
      BY <1>1, <2>2, <2>3, <2>4, QuietMoves
  <1> QED
    BY <1>1, <1>2, FaultKeeps DEF FirstProbe

LEMMA SecondKeeps ==
  ASSUME DiagInv, NEW c \in Requesters, SecondProbe(c)
  PROVE  DiagInv'
  <1>1. request[c].pc = "gap" /\ UNCHANGED <<ring, tickets>>
    BY DEF SecondProbe
  <1>2. "CPU_STATE_ERROR" \in Faults
    BY DEF Faults
  <1>3. Raise(c, "CPU_STATE_ERROR") \/ To(c, "issue") \/ ProbeFault(c)
    BY DEF SecondProbe
  <1> QED
    BY <1>1, <1>2, <1>3, RaiseKeeps, ToKeeps, FaultKeeps

LEMMA IssueKeeps ==
  ASSUME DiagInv, NEW c \in Requesters, Issue(c)
  PROVE  DiagInv'
  <1>1. request[c].pc = "issue" /\ request[c] \in CallType /\ RingType
        /\ request[c].event \in Events /\ request[c].code # "abandoned"
        /\ request \in [Requesters -> CallType]
    BY DEF Issue, DiagInv, RingType, CallsHold
  <1>2. CASE /\ Record(request[c].event)
             /\ request' = [request EXCEPT ![c].pc = "wait", ![c].ticket = tickets + 1]
    <2> DEFINE t == tickets + 1
               r == [request[c] EXCEPT !.pc = "wait", !.ticket = t]
    <2>1. /\ ring' \in Seq(RecordType) /\ tickets' \in Nat /\ t \in Nat
          /\ \A i \in 1 .. Len(ring') : \/ ring'[i].ticket = t
                                        \/ \E j \in 1 .. Len(ring) : ring'[i] = ring[j]
      BY <1>1, <1>2, RecordIs
    <2>2. request' = [request EXCEPT ![c] = r]
      BY <1>1, <1>2
    <2> HIDE DEF t
    <2>3. r \in CallType /\ r.pc = "wait" /\ r.ticket = t /\ r.event = request[c].event
          /\ r.code = request[c].code
      BY <1>1, <2>1 DEF CallType
    <2> HIDE DEF r
    <2>4. \A x : ~Owns(request[c], x)
      BY <1>1 DEF Owns
    <2>5. \A i \in 1 .. Len(ring') :
             \/ ring'[i].settled \/ Owns(r, ring'[i].ticket)
             \/ \E j \in 1 .. Len(ring) : /\ ring[j].ticket = ring'[i].ticket
                                          /\ ~ring[j].settled
                                          /\ ~Owns(request[c], ring[j].ticket)
      BY <2>1, <2>3, <2>4 DEF Owns
    <2> QED
      BY <1>1, <2>1, <2>2, <2>3, <2>5, CallMoves
  <1>3. CASE Raise(c, "ConnectionError") /\ UNCHANGED <<ring, tickets>>
    <2>1. "ConnectionError" \in Faults
      BY DEF Faults
    <2> QED
      BY <1>1, <1>3, <2>1, RaiseKeeps
  <1> QED
    BY <1>2, <1>3 DEF Issue

\* Settling what a call owns lets it go.
LEMMA SettledLetsGo ==
  ASSUME DiagInv, NEW c \in Requesters, NEW t, NEW timedOut \in BOOLEAN,
         NEW error \in {"none", "PPSSPP error", "no response", "CancelledError",
                        "ConnectionError"},
         NEW word \in {"unknown", "yes", "no"},
         ring' = SettleIn(ring, t, timedOut, error, word), UNCHANGED tickets,
         NEW r \in CallType, request' = [request EXCEPT ![c] = r],
         \A x : Owns(request[c], x) => x = t \/ Owns(r, x),
         r.pc \notin {"idle", "end"} => r.event \in Events,
         r.pc = "raise" => r.raised # "none",
         r.code = "abandoned" => r.pc = "end"
  PROVE  DiagInv'
  <1>1. ring \in Seq(RecordType) /\ tickets \in Nat
    BY DEF DiagInv, RingType
  <1>2. /\ ring' \in Seq(RecordType) /\ Len(ring') = Len(ring)
        /\ \A i \in 1 .. Len(ring) :
              /\ ring'[i].ticket = ring[i].ticket
              /\ ring'[i].settled <=> ring[i].settled \/ ring[i].ticket = t
    <2>1. Settled(ring, t, SettleIn(ring, t, timedOut, error, word))
      BY <1>1, SettleIs
    <2>2. Settled(ring, t, ring')
      BY <2>1
    <2> QED
      BY <2>2 DEF Settled
  <1>3. ASSUME NEW i \in 1 .. Len(ring')
        PROVE  \/ ring'[i].settled \/ Owns(r, ring'[i].ticket)
               \/ \E j \in 1 .. Len(ring) : /\ ring[j].ticket = ring'[i].ticket
                                            /\ ~ring[j].settled
                                            /\ ~Owns(request[c], ring[j].ticket)
    <2>1. i \in 1 .. Len(ring) /\ ring'[i].ticket = ring[i].ticket
          /\ (ring'[i].settled <=> ring[i].settled \/ ring[i].ticket = t)
      BY <1>2, <1>3
    <2>2. CASE ~ring'[i].settled /\ ~Owns(r, ring'[i].ticket)
      <3>1. ~ring[i].settled /\ ~Owns(request[c], ring[i].ticket)
        BY <2>1, <2>2
      <3> QED
        BY <2>1, <3>1, Zenon
    <2> QED
      BY <2>2, Zenon
  <1> QED
    BY <1>1, <1>2, <1>3, CallMoves

LEMMA AnswerKeeps ==
  ASSUME DiagInv, NEW c \in Requesters, Answer(c)
  PROVE  DiagInv'
  <1>1. request[c].pc = "wait" /\ request[c] \in CallType /\ request[c].event \in Events
        /\ request[c].code # "abandoned" /\ request \in [Requesters -> CallType]
        /\ UNCHANGED tickets
    BY DEF Answer, DiagInv, RingType, CallsHold
  <1> DEFINE t == request[c].ticket
  <1>2. PICK ok \in BOOLEAN :
          /\ ring' = SettleIn(ring, t, FALSE, IF ok THEN "none" ELSE "PPSSPP error", "unknown")
          /\ IF ok THEN request' = [request EXCEPT ![c].pc = "end", ![c].code = "ok"]
             ELSE Raise(c, "RuntimeError")
    BY DEF Answer
  <1>3. \A x : Owns(request[c], x) => x = t
    BY <1>1 DEF Owns
  <1>4. CASE ok
    <2> DEFINE r == [request[c] EXCEPT !.pc = "end", !.code = "ok"]
    <2>1. request' = [request EXCEPT ![c] = r] /\ ring' = SettleIn(ring, t, FALSE, "none", "unknown")
      BY <1>1, <1>2, <1>4
    <2>2. r \in CallType /\ r.pc = "end"
      BY <1>1 DEF CallType
    <2> HIDE DEF r, t
    <2> QED
      BY <1>1, <1>3, <2>1, <2>2, SettledLetsGo
  <1>5. CASE ~ok
    <2> DEFINE r == RaisedCall(request[c], "RuntimeError")
    <2>1. /\ request' = [request EXCEPT ![c] = r] /\ r \in CallType /\ r.pc = "raise"
          /\ r.raised # "none" /\ r.event = request[c].event /\ r.code = request[c].code
      BY <1>2, <1>5, RaiseIs DEF Faults
    <2>2. ring' = SettleIn(ring, t, FALSE, "PPSSPP error", "unknown")
      BY <1>2, <1>5
    <2> HIDE DEF r, t
    <2> QED
      BY <1>1, <1>3, <2>1, <2>2, SettledLetsGo
  <1> QED
    BY <1>4, <1>5

LEMMA LateKeeps ==
  ASSUME DiagInv, NEW event, LateAnswer(event)
  PROVE  DiagInv'
  <1>1. /\ ring \in Seq(RecordType) /\ UNCHANGED <<tickets, request>>
        /\ ring' = [i \in DOMAIN ring |->
                      IF ring[i].event = event /\ ~ring[i].settled
                      THEN [ring[i] EXCEPT !.seen = TRUE] ELSE ring[i]]
    BY DEF LateAnswer, NoteBroadcast, DiagInv, RingType
  <1> DEFINE l == Len(ring)
  <1>2. l \in Nat /\ DOMAIN ring = 1 .. l /\ \A i \in 1 .. l : ring[i] \in RecordType
    BY <1>1, LenProperties, ElementOfSeq
  <1> HIDE DEF l
  <1>3. ASSUME NEW i \in 1 .. l
        PROVE  ring'[i] \in RecordType /\ ring'[i].ticket = ring[i].ticket
               /\ ring'[i].settled = ring[i].settled
    <2>1. ring'[i] \in {[ring[i] EXCEPT !.seen = TRUE], ring[i]} /\ ring[i] \in RecordType
      BY <1>1, <1>2
    <2> DEFINE x == ring[i]
    <2> HIDE DEF x
    <2>2. LET y == [x EXCEPT !.seen = TRUE] IN
          x \in RecordType => y \in RecordType /\ y.ticket = x.ticket /\ y.settled = x.settled
      BY DEF RecordType
    <2> QED
      BY <2>1, <2>2 DEF x
  <1>4. ring' \in [1 .. l -> RecordType]
    BY <1>1, <1>2, <1>3
  <1>5. ring' \in Seq(RecordType) /\ Len(ring') = l
    BY <1>2, <1>4, FunctionIsList, Zenon
  <1>6. RingType' /\ CallsHold'
    BY <1>1, <1>5 DEF DiagInv, RingType, CallsHold
  <1>7. OpenAreOwned'
    BY <1>1, <1>3, <1>5 DEF DiagInv, OpenAreOwned, l
  <1> QED
    BY <1>6, <1>7 DEF DiagInv

LEMMA TimesOutKeeps ==
  ASSUME DiagInv, NEW c \in Requesters, CallTimesOut(c)
  PROVE  DiagInv'
  <1>1. request[c].pc = "wait" /\ request[c] \in CallType /\ request[c].event \in Events
        /\ request[c].code # "abandoned" /\ request \in [Requesters -> CallType] /\ RingType
    BY DEF CallTimesOut, DiagInv, RingType, CallsHold
  <1>2. \A x : Owns(request[c], x) => x = request[c].ticket
    BY <1>1 DEF Owns
  <1>3. CASE /\ ring' = SettleIn(ring, request[c].ticket, TRUE, "no response", "unknown")
             /\ Raise(c, "TimeoutError") /\ UNCHANGED tickets
    <2> DEFINE t == request[c].ticket
               r == RaisedCall(request[c], "TimeoutError")
    <2>1. /\ request' = [request EXCEPT ![c] = r] /\ r \in CallType /\ r.pc = "raise"
          /\ r.raised # "none" /\ r.event = request[c].event /\ r.code = request[c].code
      BY <1>3, RaiseIs DEF Faults
    <2>2. ring' = SettleIn(ring, t, TRUE, "no response", "unknown") /\ UNCHANGED tickets
      BY <1>3
    <2> HIDE DEF r, t
    <2> QED
      BY <1>1, <1>2, <2>1, <2>2, SettledLetsGo DEF t
  <1>4. CASE /\ Record("cpu.status")
             /\ request' = [request EXCEPT ![c].pc = "probe", ![c].probe = tickets + 1]
    <2> DEFINE t == tickets + 1
               r == [request[c] EXCEPT !.pc = "probe", !.probe = t]
    <2>1. /\ ring' \in Seq(RecordType) /\ tickets' \in Nat /\ t \in Nat
          /\ \A i \in 1 .. Len(ring') : \/ ring'[i].ticket = t
                                        \/ \E j \in 1 .. Len(ring) : ring'[i] = ring[j]
      BY <1>1, <1>4, RecordIs DEF Events
    <2>2. request' = [request EXCEPT ![c] = r]
      BY <1>1, <1>4
    <2> HIDE DEF t
    <2>3. r \in CallType /\ r.pc = "probe" /\ r.probe = t /\ r.event = request[c].event
          /\ r.code = request[c].code /\ r.ticket = request[c].ticket
      BY <1>1, <2>1 DEF CallType
    <2> HIDE DEF r
    <2>4. \A x : Owns(request[c], x) => Owns(r, x)
      BY <1>2, <2>3 DEF Owns
    <2>5. ASSUME NEW i \in 1 .. Len(ring'), ~ring'[i].settled, ~Owns(r, ring'[i].ticket)
          PROVE  \E j \in 1 .. Len(ring) : /\ ring[j].ticket = ring'[i].ticket
                                           /\ ~ring[j].settled
                                           /\ ~Owns(request[c], ring[j].ticket)
      <3>1. ring'[i].ticket # t
        BY <2>3, <2>5 DEF Owns
      <3>2. PICK j \in 1 .. Len(ring) : ring'[i] = ring[j]
        BY <2>1, <3>1
      <3>3. ~Owns(request[c], ring[j].ticket) /\ ~ring[j].settled
        BY <2>4, <2>5, <3>2
      <3> QED
        BY <3>2, <3>3, Zenon
    <2>6. \A i \in 1 .. Len(ring') :
             \/ ring'[i].settled \/ Owns(r, ring'[i].ticket)
             \/ \E j \in 1 .. Len(ring) : /\ ring[j].ticket = ring'[i].ticket
                                          /\ ~ring[j].settled
                                          /\ ~Owns(request[c], ring[j].ticket)
      BY <2>5, Zenon
    <2> QED
      BY <1>1, <2>1, <2>2, <2>3, <2>6, CallMoves
  <1> QED
    BY <1>3, <1>4 DEF CallTimesOut

\* The probe's record and the call's are both settled.
LEMMA SettlesKeeps ==
  ASSUME DiagInv, NEW c \in Requesters, ProbeSettles(c)
  PROVE  DiagInv'
  <1>1. request[c].pc = "probe" /\ request[c] \in CallType /\ request[c].event \in Events
        /\ request[c].code # "abandoned" /\ request \in [Requesters -> CallType]
        /\ ring \in Seq(RecordType) /\ tickets \in Nat /\ UNCHANGED tickets
        /\ Raise(c, "TimeoutError")
    BY DEF ProbeSettles, DiagInv, RingType, CallsHold
  <1> DEFINE t == request[c].ticket
             u == request[c].probe
             r == RaisedCall(request[c], "TimeoutError")
  <1>2. PICK answered \in BOOLEAN :
          ring' = SettleIn(SettleIn(ring, u, ~answered, "none", "unknown"), t, TRUE,
                           "no response",
                           IF ~answered THEN "unknown" ELSE IF emu.stepping THEN "yes" ELSE "no")
    BY DEF ProbeSettles
  <1> DEFINE late == ~answered
             word == IF ~answered THEN "unknown" ELSE IF emu.stepping THEN "yes" ELSE "no"
             p == SettleIn(ring, u, late, "none", "unknown")
  <1>3. late \in BOOLEAN /\ word \in {"unknown", "yes", "no"}
        /\ ring' = SettleIn(p, t, TRUE, "no response", word)
    BY <1>2
  <1>4. \A x : Owns(request[c], x) => x \in {t, u}
    BY <1>1 DEF Owns
  <1>5. /\ request' = [request EXCEPT ![c] = r] /\ r \in CallType /\ r.pc = "raise"
        /\ r.raised # "none" /\ r.event = request[c].event /\ r.code = request[c].code
    BY <1>1, RaiseIs DEF Faults
  <1> HIDE DEF late, word, t, u, r
  <1>6. /\ p \in Seq(RecordType) /\ Len(p) = Len(ring)
        /\ \A i \in 1 .. Len(ring) : /\ p[i].ticket = ring[i].ticket
                                     /\ p[i].settled <=> ring[i].settled \/ ring[i].ticket = u
    <2>1. Settled(ring, u, SettleIn(ring, u, late, "none", "unknown"))
      BY <1>1, <1>3, SettleIs
    <2>2. Settled(ring, u, p)
      BY <2>1
    <2> HIDE DEF p
    <2> QED
      BY <2>2 DEF Settled
  <1> HIDE DEF p
  <1>7. /\ ring' \in Seq(RecordType) /\ Len(ring') = Len(p)
        /\ \A i \in 1 .. Len(p) : /\ ring'[i].ticket = p[i].ticket
                                  /\ ring'[i].settled <=> p[i].settled \/ p[i].ticket = t
    <2>1. Settled(p, t, SettleIn(p, t, TRUE, "no response", word))
      BY <1>3, <1>6, SettleIs
    <2>2. Settled(p, t, ring')
      BY <1>3, <2>1
    <2> QED
      BY <2>2 DEF Settled
  <1>8. ASSUME NEW i \in 1 .. Len(ring')
        PROVE  \/ ring'[i].settled \/ Owns(r, ring'[i].ticket)
               \/ \E j \in 1 .. Len(ring) : /\ ring[j].ticket = ring'[i].ticket
                                            /\ ~ring[j].settled
                                            /\ ~Owns(request[c], ring[j].ticket)
    <2>1. i \in 1 .. Len(ring) /\ ring'[i].ticket = ring[i].ticket
          /\ (ring'[i].settled <=> ring[i].settled \/ ring[i].ticket \in {t, u})
      BY <1>6, <1>7, <1>8
    <2>2. CASE ~ring'[i].settled
      <3>1. ~ring[i].settled /\ ~Owns(request[c], ring[i].ticket)
        BY <1>4, <2>1, <2>2
      <3> QED
        BY <2>1, <3>1, Zenon
    <2> QED
      BY <2>2, Zenon
  <1> QED
    BY <1>1, <1>5, <1>7, <1>8, CallMoves

LEMMA CancelledKeeps ==
  ASSUME DiagInv, NEW c \in Requesters, CallCancelled(c)
  PROVE  DiagInv'
  <1> DEFINE t == request[c].ticket
             r == [request[c] EXCEPT !.pc = "end", !.code = "cancelled"]
  <1>1. request[c].pc = "wait" /\ request[c] \in CallType
        /\ request[c].code # "abandoned" /\ request \in [Requesters -> CallType]
        /\ UNCHANGED tickets /\ request' = [request EXCEPT ![c] = r]
        /\ ring' = SettleIn(ring, t, FALSE, "CancelledError", "unknown")
    BY DEF CallCancelled, DiagInv, RingType, CallsHold
  <1>2. \A x : Owns(request[c], x) => x = t
    BY <1>1 DEF Owns
  <1>3. r \in CallType /\ r.pc = "end"
    BY <1>1 DEF CallType
  <1> HIDE DEF r, t
  <1> QED
    BY <1>1, <1>2, <1>3, SettledLetsGo

\* The record of the call stays open, and its own: the call is abandoned.
LEMMA ProbeCancelledKeeps ==
  ASSUME DiagInv, NEW c \in Requesters, ProbeCancelled(c)
  PROVE  DiagInv'
  <1> DEFINE u == request[c].probe
             r == [request[c] EXCEPT !.pc = "end", !.code = "abandoned"]
  <1>1. request[c].pc = "probe" /\ request[c] \in CallType
        /\ request[c].code # "abandoned" /\ request \in [Requesters -> CallType]
        /\ UNCHANGED tickets /\ request' = [request EXCEPT ![c] = r]
        /\ ring' = SettleIn(ring, u, FALSE, "CancelledError", "unknown")
    BY DEF ProbeCancelled, DiagInv, RingType, CallsHold
  <1>2. r \in CallType /\ r.pc = "end" /\ r.code = "abandoned" /\ r.ticket = request[c].ticket
    BY <1>1 DEF CallType
  <1>3. \A x : Owns(request[c], x) => x = u \/ Owns(r, x)
    BY <1>1, <1>2 DEF Owns
  <1> HIDE DEF r, u
  <1> QED
    BY <1>1, <1>2, <1>3, SettledLetsGo

\* PPSSPP dies: the calls that wait are raised and their records settled.
LEMMA DiesKeeps ==
  ASSUME DiagInv, EmuDies
  PROVE  DiagInv'
  <1> DEFINE cut == {c \in Requesters : request[c].pc = "wait"}
             l == Len(ring)
  <1>1. /\ request \in [Requesters -> CallType] /\ ring \in Seq(RecordType) /\ tickets \in Nat
        /\ UNCHANGED tickets
        /\ ring' = [i \in DOMAIN ring |->
                      IF \E c \in cut : request[c].ticket = ring[i].ticket
                      THEN [ring[i] EXCEPT !.settled = TRUE, !.error = "ConnectionError"]
                      ELSE ring[i]]
        /\ request' = [c \in Requesters |->
                         IF c \in cut
                         THEN [request[c] EXCEPT !.pc = "raise", !.raised = "ConnectionError"]
                         ELSE request[c]]
    BY DEF EmuDies, DiagInv, RingType
  <1>2. l \in Nat /\ DOMAIN ring = 1 .. l /\ \A i \in 1 .. l : ring[i] \in RecordType
    BY <1>1, LenProperties, ElementOfSeq
  <1> HIDE DEF l
  <1>3. ASSUME NEW c \in Requesters
        PROVE  /\ request'[c] \in CallType
               /\ request'[c].event = request[c].event /\ request'[c].code = request[c].code
               /\ request'[c].ticket = request[c].ticket /\ request'[c].probe = request[c].probe
               /\ c \in cut => request'[c].pc = "raise" /\ request'[c].raised # "none"
               /\ c \notin cut => request'[c] = request[c]
    <2> DEFINE x == request[c]
    <2>1. x \in CallType
      BY <1>1
    <2>2. request'[c] = IF c \in cut
                        THEN [x EXCEPT !.pc = "raise", !.raised = "ConnectionError"] ELSE x
      BY <1>1
    <2> HIDE DEF x, cut
    <2>3. CASE c \in cut
      <3> DEFINE y == [x EXCEPT !.pc = "raise", !.raised = "ConnectionError"]
      <3>1. /\ y \in CallType /\ y.event = x.event /\ y.code = x.code /\ y.ticket = x.ticket
            /\ y.probe = x.probe /\ y.pc = "raise" /\ y.raised = "ConnectionError"
        BY <2>1 DEF CallType
      <3>2. request'[c] = y
        BY <2>2, <2>3
      <3> HIDE DEF y
      <3> QED
        BY <2>3, <3>1, <3>2 DEF x
    <2>4. CASE c \notin cut
      <3>1. request'[c] = x
        BY <2>2, <2>4
      <3> QED
        BY <2>1, <2>4, <3>1 DEF x
    <2> QED
      BY <2>3, <2>4
  <1>4. ASSUME NEW i \in 1 .. l
        PROVE  /\ ring'[i] \in RecordType /\ ring'[i].ticket = ring[i].ticket
               /\ ring[i].settled => ring'[i].settled
               /\ (\E c \in cut : request[c].ticket = ring[i].ticket) => ring'[i].settled
    <2> DEFINE x == ring[i]
               b == \E c \in cut : request[c].ticket = x.ticket
    <2>1. x \in RecordType
      BY <1>2
    <2>2. ring'[i] = IF b THEN [x EXCEPT !.settled = TRUE, !.error = "ConnectionError"] ELSE x
      BY <1>1, <1>2
    <2> HIDE DEF x, b, cut
    <2>3. CASE b
      <3> DEFINE y == [x EXCEPT !.settled = TRUE, !.error = "ConnectionError"]
      <3>1. y \in RecordType /\ y.ticket = x.ticket /\ y.settled
        BY <2>1 DEF RecordType
      <3>2. ring'[i] = y
        BY <2>2, <2>3
      <3> HIDE DEF y
      <3> QED
        BY <3>1, <3>2 DEF x
    <2>4. CASE ~b
      <3>1. ring'[i] = x
        BY <2>2, <2>4
      <3> QED
        BY <2>1, <2>4, <3>1 DEF x, b
    <2> QED
      BY <2>3, <2>4
  <1>5. ring' \in Seq(RecordType) /\ Len(ring') = l
    <2>1. ring' \in [1 .. l -> RecordType]
      BY <1>1, <1>2, <1>4
    <2> QED
      BY <1>2, <2>1, FunctionIsList, Zenon
  <1>6. RingType'
    <2>1. request' \in [Requesters -> CallType]
      BY <1>1, <1>3
    <2> QED
      BY <1>1, <1>5, <2>1 DEF RingType
  <1>7. CallsHold'
    <2> SUFFICES ASSUME NEW c \in Requesters
                 PROVE  /\ request'[c].pc \notin {"idle", "end"} => request'[c].event \in Events
                        /\ request'[c].pc = "raise" => request'[c].raised # "none"
                        /\ request'[c].code = "abandoned" => request'[c].pc = "end"
      BY DEF CallsHold
    <2>1. /\ request[c].pc \notin {"idle", "end"} => request[c].event \in Events
          /\ request[c].pc = "raise" => request[c].raised # "none"
          /\ request[c].code = "abandoned" => request[c].pc = "end"
      BY DEF DiagInv, CallsHold
    <2>2. CASE c \in cut
      <3>1. request[c].pc = "wait"
        BY <2>2
      <3> QED
        BY <1>3, <2>1, <2>2, <3>1
    <2>3. CASE c \notin cut
      BY <1>3, <2>1, <2>3
    <2> QED
      BY <2>2, <2>3
  <1>8. OpenAreOwned'
    <2> SUFFICES ASSUME NEW i \in 1 .. l, ~ring'[i].settled
                 PROVE  \E c \in Requesters : Owns(request'[c], ring'[i].ticket)
      BY <1>5 DEF OpenAreOwned, Owns
    <2>1. ~ring[i].settled /\ ring'[i].ticket = ring[i].ticket
          /\ ~\E c \in cut : request[c].ticket = ring[i].ticket
      BY <1>4
    <2>2. PICK c \in Requesters : Owns(request[c], ring[i].ticket)
      BY <2>1 DEF DiagInv, OpenAreOwned, l
    <2>3. CASE c \in cut
      <3>1. request[c].pc = "wait" /\ request[c].code # "abandoned"
        BY <2>3 DEF DiagInv, CallsHold
      <3>2. request[c].ticket = ring[i].ticket
        BY <2>2, <3>1 DEF Owns
      <3> QED
        BY <2>1, <2>3, <3>2
    <2>4. CASE c \notin cut
      BY <1>3, <2>1, <2>2, <2>4
    <2> QED
      BY <2>3, <2>4
  <1> QED
    BY <1>6, <1>7, <1>8 DEF DiagInv

LEMMA AdvancesKeeps ==
  ASSUME DiagInv, EmuAdvances
  PROVE  DiagInv'
  <1>1. /\ request \in [Requesters -> CallType] /\ UNCHANGED <<ring, tickets>>
        /\ request' = [c \in Requesters |->
                         IF request[c].pc = "gap" THEN [request[c] EXCEPT !.moved = TRUE]
                         ELSE request[c]]
    BY DEF EmuAdvances, DiagInv, RingType
  <1>2. ASSUME NEW c \in Requesters
        PROVE  /\ request'[c] \in CallType /\ request'[c].pc = request[c].pc
               /\ request'[c].event = request[c].event /\ request'[c].code = request[c].code
               /\ request'[c].ticket = request[c].ticket /\ request'[c].probe = request[c].probe
               /\ request'[c].raised = request[c].raised
    <2> DEFINE x == request[c]
    <2>1. x \in CallType
      BY <1>1
    <2>2. request'[c] = IF x.pc = "gap" THEN [x EXCEPT !.moved = TRUE] ELSE x
      BY <1>1
    <2> HIDE DEF x
    <2> QED
      BY <2>1, <2>2 DEF CallType, x
  <1>3. request' \in [Requesters -> CallType]
    BY <1>1, <1>2
  <1>4. RingType'
    BY <1>1, <1>3 DEF DiagInv, RingType
  <1>5. CallsHold'
    BY <1>2 DEF DiagInv, CallsHold
  <1>6. OpenAreOwned'
    BY <1>1, <1>2 DEF DiagInv, OpenAreOwned, Owns
  <1> QED
    BY <1>4, <1>5, <1>6 DEF DiagInv

\* The handlers of gpu_stats let pass what a request raises.
LEMMA HandledIsRaised ==
  ASSUME NEW c \in Requesters, request[c].raised \in Faults
  PROVE  Handled(c) = [exc |-> request[c].raised, cause |-> "none"]
  <1>1. request[c].raised \notin {"WS_TIMEOUT", "CPU_FREEZE_SUSPECTED"}
    BY DEF Faults
  <1> QED
    BY <1>1 DEF Handled

\* What a caller can be told.
LEMMA TellsOneOf ==
  ASSUME NEW exc \in Faults, NEW pid
  PROVE  ToToolError(exc, pid) \in {"WS_DISCONNECTED", "WS_TIMEOUT", "CPU_STATE_ERROR",
                                    "CPU_FREEZE_SUSPECTED", "PPSSPP_ERROR"}
  <1>1. TimeoutCode(pid) \in {"WS_DISCONNECTED", "WS_TIMEOUT", "CPU_STATE_ERROR",
                              "CPU_FREEZE_SUSPECTED"}
    BY DEF TimeoutCode
  <1>2. exc \in {"CPU_STATE_ERROR", "ConnectionError", "TimeoutError", "RuntimeError"}
    BY DEF Faults
  <1> QED
    BY <1>1, <1>2 DEF ToToolError, ToolErrors

LEMMA ReportKeeps ==
  ASSUME DiagInv, NEW c \in Requesters, Report(c)
  PROVE  DiagInv'
  <1>0. /\ request \in [Requesters -> CallType] /\ request[c] \in CallType
        /\ request[c].pc = "raise" /\ request[c].raised # "none"
        /\ UNCHANGED <<ring, tickets>>
    BY DEF Report, DiagInv, RingType, CallsHold
  <1>2. request[c].raised \in Faults
    BY <1>0 DEF CallType, Faults
  <1>h. Handled(c) = [exc |-> request[c].raised, cause |-> "none"]
    BY <1>2, HandledIsRaised
  <1>p. PICK pid \in PidStates :
          request' = [request EXCEPT ![c].pc = "end", ![c].told = "none",
                                     ![c].code = ToToolError(request[c].raised, pid)]
    <2>1. Handled(c).cause = "none" /\ Handled(c).exc = request[c].raised
      BY <1>h
    <2>2. PICK pid \in PidStates :
            request' = [request EXCEPT ![c].pc = "end", ![c].told = Handled(c).cause,
                                       ![c].code = ToToolError(Handled(c).exc, pid)]
      BY DEF Report
    <2> QED
      BY <2>1, <2>2
  <1> DEFINE told == "none"
             code == ToToolError(request[c].raised, pid)
             r == [request[c] EXCEPT !.pc = "end", !.told = told, !.code = code]
  <1>1. /\ request \in [Requesters -> CallType] /\ request[c] \in CallType
        /\ request[c].pc = "raise" /\ request[c].raised # "none"
        /\ UNCHANGED <<ring, tickets>> /\ request' = [request EXCEPT ![c] = r]
    BY <1>0, <1>p
  <1>3. /\ told \in {"none", "expected_stall", "unknown", "pairing_broken", "no_producer"}
        /\ code \in {"WS_DISCONNECTED", "WS_TIMEOUT", "CPU_STATE_ERROR",
                     "CPU_FREEZE_SUSPECTED", "PPSSPP_ERROR"}
    BY <1>2, TellsOneOf
  <1> HIDE DEF told, code
  <1>4. r \in CallType /\ r.pc = "end" /\ r.code # "abandoned"
    <2> DEFINE x == request[c]
    <2>1. x \in CallType
      BY <1>1
    <2> HIDE DEF x
    <2>2. LET y == [x EXCEPT !.pc = "end", !.told = told, !.code = code] IN
          y \in CallType /\ y.pc = "end" /\ y.code = code
      <3> DEFINE z == [x EXCEPT !.pc = "end", !.told = told]
      <3>1. z \in CallType /\ z.pc = "end"
        BY <1>3, <2>1 DEF CallType
      <3>2. [x EXCEPT !.pc = "end", !.told = told, !.code = code] = [z EXCEPT !.code = code]
        BY <2>1 DEF CallType
      <3> HIDE DEF z
      <3>3. [z EXCEPT !.code = code] \in CallType
        BY <1>3, <3>1 DEF CallType
      <3>4. [z EXCEPT !.code = code].pc = "end" /\ [z EXCEPT !.code = code].code = code
        BY <3>1 DEF CallType
      <3> QED
        BY <3>2, <3>3, <3>4
    <2>3. code # "abandoned"
      BY <1>3
    <2> QED
      BY <2>2, <2>3 DEF x
  <1> HIDE DEF r
  <1> QED
    BY <1>1, <1>4, QuietMoves

LEMMA DiagStep ==
  ASSUME WorldInv, DiagInv, [DiagNext]_diagVars
  PROVE  DiagInv'
  <1>1. ASSUME UNCHANGED <<ring, tickets, request>> PROVE DiagInv'
    BY <1>1 DEF DiagInv, RingType, CallsHold, OpenAreOwned
  <1>2. CASE EmuGame \/ EmuSteps \/ ApplyTransition \/ UNCHANGED diagVars
    BY <1>1, <1>2 DEF EmuGame, GameEvent, EmuSteps, ApplyTransition, StillCalls, diagVars
  <1>3. CASE EmuAdvances \/ EmuDies
    BY <1>3, AdvancesKeeps, DiesKeeps
  <1>4. ASSUME NEW event \in Events, LateAnswer(event) PROVE DiagInv'
    BY <1>4, LateKeeps
  <1>5. ASSUME NEW c \in Requesters, NEW event \in Events, Ask(c, event) PROVE DiagInv'
    BY <1>5, AskKeeps
  <1>6. ASSUME NEW c \in Requesters,
               \/ FirstProbe(c) \/ SecondProbe(c) \/ Issue(c) \/ Answer(c) \/ CallTimesOut(c)
               \/ ProbeSettles(c) \/ CallCancelled(c) \/ ProbeCancelled(c) \/ Report(c)
        PROVE  DiagInv'
    BY <1>6, FirstKeeps, SecondKeeps, IssueKeeps, AnswerKeeps, TimesOutKeeps, SettlesKeeps,
       CancelledKeeps, ProbeCancelledKeeps, ReportKeeps
  <1> QED
    BY <1>2, <1>3, <1>4, <1>5, <1>6 DEF DiagNext

\* Only Report ends a call whose exception is on its way.
LEMMA OnlyReported ==
  ASSUME DiagInv, [DiagNext]_diagVars, NEW c \in Requesters,
         request[c].pc = "raise", request'[c].pc = "end"
  PROVE  Report(c)
  <1>1. request \in [Requesters -> CallType]
    BY DEF DiagInv, RingType
  <1>2. request' # request
    OBVIOUS
  <1>3. ~(EmuGame \/ EmuSteps \/ ApplyTransition \/ UNCHANGED diagVars)
    BY <1>2 DEF EmuGame, GameEvent, EmuSteps, ApplyTransition, StillCalls, diagVars
  <1>4. ~\E event \in Events : LateAnswer(event)
    BY <1>2 DEF LateAnswer
  <1>5. ~(EmuAdvances \/ EmuDies)
    BY DEF EmuAdvances, EmuDies
  <1>6. ASSUME NEW d \in Requesters, NEW event \in Events PROVE ~Ask(d, event)
    BY <1>1 DEF Ask
  <1>7. ASSUME NEW d \in Requesters,
               \/ FirstProbe(d) \/ SecondProbe(d) \/ Issue(d) \/ Answer(d) \/ CallTimesOut(d)
               \/ ProbeSettles(d) \/ CallCancelled(d) \/ ProbeCancelled(d)
        PROVE  FALSE
    <2>1. CASE d = c
      BY <1>7, <2>1 DEF FirstProbe, SecondProbe, Issue, Answer, CallTimesOut, ProbeSettles,
         CallCancelled, ProbeCancelled
    <2>2. CASE d # c
      <3>1. request'[c] = request[c]
        BY <1>1, <1>7, <2>2 DEF FirstProbe, SecondProbe, Issue, Answer, CallTimesOut,
           ProbeSettles, CallCancelled, ProbeCancelled, ProbeFault, Raise, To
      <3> QED
        BY <3>1
    <2> QED
      BY <2>1, <2>2
  <1>8. ASSUME NEW d \in Requesters, Report(d) PROVE d = c
    BY <1>1, <1>8 DEF Report
  <1> QED
    BY <1>3, <1>4, <1>5, <1>6, <1>7, <1>8 DEF DiagNext

LEMMA FreezeIsTold ==
  ASSUME DiagInv, [DiagNext]_diagVars
  PROVE  \A c \in Requesters :
            /\ request[c].pc = "raise" /\ request'[c].pc = "end"
            /\ request[c].raised = "TimeoutError"
            /\ emu.alive /\ observer = "running"
            => request'[c].code = "CPU_FREEZE_SUSPECTED"
  <1> SUFFICES ASSUME NEW c \in Requesters, request[c].pc = "raise", request'[c].pc = "end",
                      request[c].raised = "TimeoutError", emu.alive, observer = "running"
               PROVE  request'[c].code = "CPU_FREEZE_SUSPECTED"
    OBVIOUS
  <1>1. Report(c) /\ request \in [Requesters -> CallType]
    BY OnlyReported DEF DiagInv, RingType
  <1>2. Handled(c) = [exc |-> "TimeoutError", cause |-> "none"]
    BY HandledIsRaised DEF Faults
  <1>3. PICK pid \in PidStates : request'[c].code = ToToolError("TimeoutError", pid)
    BY <1>1, <1>2 DEF Report, CallType
  <1>4. pid = "alive"
    BY DEF PidStates
  <1>5. TimeoutCode(pid) = "CPU_FREEZE_SUSPECTED"
    BY <1>4 DEF TimeoutCode, GameState
  <1>6. ToToolError("TimeoutError", pid) = TimeoutCode(pid)
    BY DEF ToToolError, ToolErrors
  <1> QED
    BY <1>3, <1>5, <1>6

LEMMA DiagInvariant ==
  ASSUME WorldInv, DiagInv
  PROVE  RunningIsTrue /\ RecordsSettle
  <1>1. RunningIsTrue
    BY DEF RunningIsTrue, WorldInv, RunningOrTold
  <1>2. DOMAIN ring = 1 .. Len(ring)
    BY LenProperties DEF DiagInv, RingType
  <1>3. RecordsSettle
    BY <1>2 DEF RecordsSettle, DiagInv, OpenAreOwned, Owns
  <1> QED
    BY <1>1, <1>3

(* The verdict on a request that was not answered is sound: `running' is only *)
(* said of a game that runs, an open record belongs to a call under way or    *)
(* to one cancelled during its probe, and a timeout while the process lives   *)
(* and the game runs is told as a suspected freeze (errors.py and             *)
(* core/call_diagnostics.py).                                                 *)
THEOREM DiagnosisCorrect == DiagSpec => DiagnosisIsSound
  <1>1. DiagInit => WorldInv /\ DiagInv
    BY WorldStarts, DiagStarts
  <1>2. WorldInv /\ DiagInv /\ [DiagNext]_diagVars => WorldInv' /\ DiagInv'
    BY WorldStep, DiagStep
  <1>3. WorldInv /\ DiagInv => RunningIsTrue /\ RecordsSettle
    BY DiagInvariant
  <1>4. DiagInv /\ [DiagNext]_diagVars =>
          [\A c \in Requesters :
              /\ request[c].pc = "raise" /\ request'[c].pc = "end"
              /\ request[c].raised = "TimeoutError"
              /\ emu.alive /\ observer = "running"
              => request'[c].code = "CPU_FREEZE_SUSPECTED"]_diagVars
    BY FreezeIsTold
  <1> QED
    BY <1>1, <1>2, <1>3, <1>4, PTL DEF DiagSpec, DiagnosisIsSound, FreezeIsNamed
=============================================================================
