-------------------------- MODULE ServerTools_proofs --------------------------
(***************************************************************************)
(* Proofs about seven parts of the server that share no state: the         *)
(* captures, the batches, the launcher, the edits of the breakpoint table,  *)
(* the front door, the recordings and the scripts.                          *)
(***************************************************************************)
EXTENDS BatchSteps, Capture, Launcher, BreakpointTable, FrontDoor, Playback,
        ScriptTools, FiniteSetTheorems, TLAPS

-----------------------------------------------------------------------------
(* Captures: for any number of windows, files and polls *)

\* The fields that matter here are fields of every capture.
IsFrame(f) == {"pc", "img", "res"} \subseteq DOMAIN f

WholeImage(img) == img = NoImage \/ img.size = WholeSize

\* What a capture holds is nothing or a whole image, what it returned is an
\* image, and one under way has returned nothing yet.
SoundFrame(f) ==
    /\ IsFrame(f)
    /\ WholeImage(f.img)
    /\ f.res = "ok" => f.img.size = WholeSize
    /\ f.pc # "idle" => f.res = "none"

CaptureInv ==
    /\ frame = [s \in Windows |-> frame[s]]
    /\ \A s \in Windows : SoundFrame(frame[s])

LEMMA SoundCaptured ==
  ASSUME NEW f, NEW img, WholeImage(img)
  PROVE  SoundFrame(Captured(f, img))
  <1>1. IsFrame(NoFrame)
    BY DEF IsFrame, NoFrame
  <1>2. /\ IsFrame(Captured(f, img))
        /\ Captured(f, img).pc = NoFrame.pc
        /\ Captured(f, img).img = img
        /\ Captured(f, img).res = IF img = NoImage THEN "empty" ELSE "ok"
    BY <1>1 DEF Captured, IsFrame
  <1>3. NoFrame.pc = "idle"
    BY DEF NoFrame
  <1> QED
    BY <1>2, <1>3 DEF SoundFrame, WholeImage

\* A frame under way with other fields than its result is sound when its
\* image is.
LEMMA SoundUnderWay ==
  ASSUME NEW f, IsFrame(f), f.res = "none", WholeImage(f.img)
  PROVE  SoundFrame(f)
  BY DEF SoundFrame

LEMMA SoundWithout ==
  ASSUME NEW f, IsFrame(f), f.res = "none", WholeImage(f.img)
  PROVE  SoundFrame(Without(f))
  <1>1. CASE f.way = "render"
    <2> DEFINE g == [f EXCEPT !.way = "auto", !.label = "fallback", !.pc = "enter"]
    <2>1. Without(f) = g
      BY <1>1 DEF Without
    <2>2. IsFrame(g) /\ g.res = f.res /\ g.img = f.img
      BY DEF IsFrame
    <2> QED
      BY <2>1, <2>2, SoundUnderWay
  <1>2. CASE f.way = "auto"
    <2> DEFINE g == [f EXCEPT !.stepped = FALSE, !.resumes = FALSE, !.pc = "wm_command",
                              !.tier = 1]
    <2>1. Without(f) = g
      BY <1>2 DEF Without
    <2>2. IsFrame(g) /\ g.res = f.res /\ g.img = f.img
      BY DEF IsFrame
    <2> QED
      BY <2>1, <2>2, SoundUnderWay
  <1>3. CASE f.way # "render" /\ f.way # "auto"
    <2>1. Without(f) = Captured(f, NoImage)
      BY <1>3 DEF Without
    <2> QED
      BY <2>1, SoundCaptured DEF WholeImage
  <1> QED
    BY <1>1, <1>2, <1>3

LEMMA SoundNext3 ==
  ASSUME NEW f, IsFrame(f), f.res = "none", WholeImage(f.img)
  PROVE  SoundFrame(Next3(f))
  <1>1. \A t, p : SoundFrame([f EXCEPT !.tier = t, !.pc = p])
    <2> TAKE t, p
    <2> DEFINE g == [f EXCEPT !.tier = t, !.pc = p]
    <2>1. IsFrame(g) /\ g.res = f.res /\ g.img = f.img
      BY DEF IsFrame
    <2> QED
      BY <2>1, SoundUnderWay
  <1>2. SoundFrame([f EXCEPT !.pc = "leave"])
    <2> DEFINE g == [f EXCEPT !.pc = "leave"]
    <2>1. IsFrame(g) /\ g.res = f.res /\ g.img = f.img
      BY DEF IsFrame
    <2> QED
      BY <2>1, SoundUnderWay
  <1>3. SoundFrame(Captured(f, NoImage))
    BY SoundCaptured DEF WholeImage
  <1>4. \/ Next3(f) = Captured(f, NoImage)
        \/ Next3(f) = [f EXCEPT !.tier = 2, !.pc = "printwindow"]
        \/ Next3(f) = [f EXCEPT !.tier = 3, !.pc = "vram"]
        \/ Next3(f) = [f EXCEPT !.pc = "leave"]
    BY DEF Next3
  <1>5. /\ SoundFrame([f EXCEPT !.tier = 2, !.pc = "printwindow"])
        /\ SoundFrame([f EXCEPT !.tier = 3, !.pc = "vram"])
    BY <1>1
  <1> QED
    BY <1>2, <1>3, <1>4, <1>5, Zenon

LEMMA SoundDelivered ==
  ASSUME NEW f, NEW img, IsFrame(f), f.res = "none", WholeImage(img)
  PROVE  SoundFrame(Delivered(f, img))
  <1> DEFINE g == [f EXCEPT !.img = img, !.pc = "leave"]
  <1>1. IsFrame(g) /\ g.res = f.res /\ g.img = img
    BY DEF IsFrame
  <1>2. SoundFrame(g) /\ SoundFrame(Captured(f, img))
    BY <1>1, SoundUnderWay, SoundCaptured
  <1> QED
    BY <1>2 DEF Delivered

\* An action that puts a sound capture in its place keeps the invariant.
LEMMA SoundStep ==
  ASSUME CaptureInv, NEW s \in Windows, NEW f, SoundFrame(f), SetFrame(s, f)
  PROVE  CaptureInv'
  <1>1. frame' = [t \in Windows |-> IF t = s THEN f ELSE frame[t]]
    BY DEF SetFrame, CaptureInv
  <1> QED
    BY <1>1 DEF CaptureInv

LEMMA CaptureInitial == CaptureInit => CaptureInv
  <1>1. SoundFrame(NoFrame)
    BY DEF NoFrame, SoundFrame, IsFrame, WholeImage
  <1> HIDE DEF NoFrame
  <1> QED
    BY <1>1 DEF CaptureInit, CaptureInv

LEMMA CaptureRequested ==
  ASSUME CaptureInv, NEW s \in Windows,
         \/ \E source \in {"none", "render", "output"},
               mode \in {"none", "auto", "wm_command", "printwindow", "vram"} :
              Screenshot(s, source, mode)
         \/ \E kind \in {"texture", "clut", "depth"} : Dump(s, kind)
  PROVE  CaptureInv'
  <1>1. \A w, p : SoundFrame([NoFrame EXCEPT !.way = w, !.label = w, !.pc = p])
    BY DEF NoFrame, SoundFrame, IsFrame, WholeImage
  <1>2. SoundFrame([NoFrame EXCEPT !.res = "invalid"])
    BY DEF NoFrame, SoundFrame, IsFrame, WholeImage
  <1>3. ASSUME NEW source, NEW mode, Screenshot(s, source, mode) PROVE CaptureInv'
    <2> DEFINE way == Strategy(source, mode)
               f == IF source # "none" /\ mode # "none" THEN [NoFrame EXCEPT !.res = "invalid"]
                    ELSE [NoFrame EXCEPT !.way = way, !.label = way,
                                         !.pc = IF way \in Stepping THEN "enter" ELSE way]
    <2>1. SetFrame(s, f)
      BY <1>3 DEF Screenshot
    <2>2. SoundFrame(f)
      BY <1>1, <1>2
    <2> HIDE DEF f
    <2> QED
      BY <2>1, <2>2, SoundStep
  <1>4. ASSUME NEW kind, Dump(s, kind) PROVE CaptureInv'
    BY <1>1, <1>4, SoundStep DEF Dump
  <1> QED
    BY <1>3, <1>4

LEMMA CaptureAroundHalt ==
  ASSUME CaptureInv, NEW s \in Windows, Enter(s) \/ Gpu(s) \/ Leave(s) \/ DumpTimesOut(s)
  PROVE  CaptureInv'
  <1> DEFINE f == frame[s]
  <1>1. IsFrame(f) /\ WholeImage(f.img) /\ f.res = "none"
    BY DEF CaptureInv, SoundFrame, Enter, Gpu, Leave, DumpTimesOut, FrameAt
  <1>2. SoundFrame(Without(f)) /\ SoundFrame(Captured(f, NoImage)) /\ SoundFrame(Captured(f, f.img))
    BY <1>1, SoundWithout, SoundCaptured DEF WholeImage
  <1>3. CASE Enter(s)
    <2>1. \A r, p : SoundFrame([f EXCEPT !.stepped = TRUE, !.resumes = r, !.tier = 1, !.pc = p])
      BY <1>1 DEF IsFrame, SoundFrame
    <2>2. PICK g : SetFrame(s, g) /\ SoundFrame(g)
      BY <1>2, <1>3, <2>1 DEF Enter
    <2> QED
      BY <2>2, SoundStep
  <1>4. CASE Gpu(s)
    <2>1. ASSUME NEW img \in {Whole(s), NoImage}
          PROVE  SoundFrame([f EXCEPT !.img = img, !.pc = "leave"])
      <3>1. WholeImage(img)
        BY <2>1 DEF Whole, WholeImage
      <3> QED
        BY <1>1, <3>1 DEF IsFrame, SoundFrame
    <2> QED
      BY <1>4, <2>1, SoundStep DEF Gpu
  <1>5. CASE Leave(s)
    <2> DEFINE g == [f EXCEPT !.img = NoImage]
               ended == IF f.way = "render" /\ f.img = NoImage THEN Without(f)
                        ELSE Captured(f, f.img)
    <2>1. IsFrame(g) /\ g.res = "none" /\ g.img = NoImage
      BY <1>1 DEF IsFrame
    <2>2. SoundFrame(Without(g))
      BY <2>1, SoundWithout DEF WholeImage
    <2>3. SoundFrame(ended)
      BY <1>2
    <2>4. SetFrame(s, ended) \/ SetFrame(s, Without(g))
      BY <1>5 DEF Leave
    <2> QED
      BY <2>2, <2>3, <2>4, SoundStep
  <1>6. CASE DumpTimesOut(s)
    BY <1>2, <1>6, SoundStep DEF DumpTimesOut
  <1> QED
    BY <1>3, <1>4, <1>5, <1>6

LEMMA CaptureByChain ==
  ASSUME CaptureInv, NEW s \in Windows,
         WmCommand(s) \/ Scan(s) \/ Settle(s) \/ PrintWindow(s) \/ Vram(s)
  PROVE  CaptureInv'
  <1> DEFINE f == frame[s]
  <1>1. IsFrame(f) /\ WholeImage(f.img) /\ f.res = "none"
    BY DEF CaptureInv, SoundFrame, WmCommand, Scan, Settle, PrintWindow, Vram, FrameAt
  <1>2. SoundFrame(Next3(f)) /\ SoundFrame(Delivered(f, Whole(s)))
    BY <1>1, SoundNext3, SoundDelivered DEF WholeImage, Whole
  <1>3. CASE WmCommand(s)
    <2>1. \A seen : SoundFrame([f EXCEPT !.pc = "scan", !.scans = 0, !.seen = seen])
      BY <1>1 DEF IsFrame, SoundFrame
    <2>2. PICK g : SetFrame(s, g) /\ SoundFrame(g)
      BY <1>2, <1>3, <2>1 DEF WmCommand
    <2> QED
      BY <2>2, SoundStep
  <1>4. CASE Scan(s)
    <2>1. \A no : SoundFrame([f EXCEPT !.pc = "settle", !.file = no, !.size = -1, !.same = 0])
      BY <1>1 DEF IsFrame, SoundFrame
    <2>2. SoundFrame([f EXCEPT !.scans = @ + 1])
      BY <1>1 DEF IsFrame, SoundFrame
    <2>3. SoundFrame(Next3([f EXCEPT !.seen = {}]))
      <3> DEFINE g == [f EXCEPT !.seen = {}]
      <3>1. IsFrame(g) /\ g.res = "none" /\ g.img = f.img
        BY <1>1 DEF IsFrame
      <3> QED
        BY <1>1, <3>1, SoundNext3
    <2>4. PICK g : SetFrame(s, g) /\ SoundFrame(g)
      BY <1>4, <2>1, <2>2, <2>3 DEF Scan
    <2> QED
      BY <2>4, SoundStep
  <1>5. CASE Settle(s)
    <2> DEFINE x == CHOOSE y \in shots : y.no = f.file
               g == [f EXCEPT !.seen = {}, !.file = 0]
    <2>1. IsFrame(g) /\ g.res = "none" /\ g.img = f.img
      BY <1>1 DEF IsFrame
    <2>2. SoundFrame(Next3(g))
      BY <1>1, <2>1, SoundNext3
    <2>3. ImageComplete(x) => SoundFrame(Delivered(g, [of |-> x.of, size |-> x.size]))
      <3>1. ImageComplete(x) => WholeImage([of |-> x.of, size |-> x.size])
        BY DEF ImageComplete, WholeImage
      <3> QED
        BY <2>1, <3>1, SoundDelivered
    <2>4. SoundFrame([f EXCEPT !.pc = "scan", !.scans = @ + 1, !.file = 0])
      BY <1>1 DEF IsFrame, SoundFrame
    <2>5. \A a, b : SoundFrame([f EXCEPT !.scans = @ + 1, !.size = a, !.same = b])
      BY <1>1 DEF IsFrame, SoundFrame
    <2>6. \/ SetFrame(s, Next3(g))
          \/ ImageComplete(x) /\ SetFrame(s, Delivered(g, [of |-> x.of, size |-> x.size]))
          \/ SetFrame(s, [f EXCEPT !.pc = "scan", !.scans = @ + 1, !.file = 0])
          \/ \E a, b : SetFrame(s, [f EXCEPT !.scans = @ + 1, !.size = a, !.same = b])
      BY <1>5 DEF Settle
    <2> HIDE DEF f, g, x
    <2> QED
      BY <2>2, <2>3, <2>4, <2>5, <2>6, SoundStep
  <1>6. CASE PrintWindow(s)
    BY <1>2, <1>6, SoundStep DEF PrintWindow
  <1>7. CASE Vram(s)
    BY <1>2, <1>7, SoundStep DEF Vram
  <1> QED
    BY <1>3, <1>4, <1>5, <1>6, <1>7

LEMMA CaptureKept == CaptureInv /\ [CaptureNext]_captureVars => CaptureInv'
  <1> SUFFICES ASSUME CaptureInv, [CaptureNext]_captureVars PROVE CaptureInv'
    OBVIOUS
  <1>1. CASE UNCHANGED frame
    BY <1>1 DEF CaptureInv
  <1>2. CASE FileGrows \/ UNCHANGED captureVars \/ \E s \in Windows : FileAppears(s)
    BY <1>1, <1>2 DEF FileGrows, FileAppears, captureVars
  <1> QED
    BY <1>2, CaptureRequested, CaptureAroundHalt, CaptureByChain DEF CaptureNext

(* However slowly an emulator writes its file and wherever it stops, and     *)
(* whatever fails around a capture, an image that is returned is whole: the  *)
(* samples of _await_stable_image and the end marker are needed for any      *)
(* number of windows that write into the one directory.                      *)
THEOREM ImageCorrect == CaptureSpec => []ImageIsWhole
  <1>1. CaptureInv => ImageIsWhole
    BY DEF CaptureInv, SoundFrame, ImageIsWhole
  <1> QED
    BY <1>1, CaptureInitial, CaptureKept, PTL DEF CaptureSpec

-----------------------------------------------------------------------------
(* Batches: for any step lists and budgets *)

StepResults == {"success", "failure", "skipped"}
PlanSteps == [type : StepKinds, size : Nat, bad : BOOLEAN]
FailuresOf(b) == {n \in DOMAIN b.results : b.results[n] = "failure"}
StallOf(b) == \E n \in FailuresOf(b) : b.plan[n].type = "cpu_step"
Looping(b) == b.pc \in {"lock", "replay", "step", "press", "stepping"}

\* There is one result for every step behind, and a batch that aborts has
\* none that failed before it turns to its report.
SoundBatch(b) ==
    /\ {"pc", "plan", "abort", "i", "results", "res", "paused"} \subseteq DOMAIN b
    /\ b.plan \in Seq(PlanSteps) /\ b.results \in Seq(StepResults)
    /\ b.i = Len(b.results) + 1 /\ Len(b.results) <= Len(b.plan)
    /\ b.pc = "press" => b.i <= Len(b.plan)
    /\ b.pc = "stepping" => b.i <= Len(b.plan) /\ b.plan[b.i].type = "cpu_step"
    /\ Looping(b) \/ b.pc = "report" => b.res = "none"
    /\ b.pc \in {"lock", "replay"} => b.results = <<>>
    /\ Looping(b) /\ b.abort => FailuresOf(b) = {}
    /\ b.pc = "report" => b.abort /\ FailuresOf(b) = {Len(b.results)}
    /\ b.pc = "end" =>
          /\ b.res = "ok" => Len(b.results) = Len(b.plan) /\ FailuresOf(b) = {}
          /\ b.res = "BATCH_STEP_FAILED" => FailuresOf(b) # {}
          /\ b.res \in {"ok", "BATCH_STEP_FAILED"} /\ Len(b.results) < Len(b.plan) =>
                b.abort /\ FailuresOf(b) = {Len(b.results)}

\* A batch that left the CPU paused told so, or is at the cpu_step that
\* paused it.
Thawed(b, cpu) ==
    cpu = "batch" /\ b.res # "cancelled" /\ (b.pc # "stepping" \/ ~b.paused) => StallOf(b)

StepsInv == SoundBatch(batch) /\ Thawed(batch, cpuBy)

LEMMA FailuresAppended ==
  ASSUME NEW b, NEW c, NEW status, b.results \in Seq(StepResults), status \in StepResults,
         c.results = Append(b.results, status)
  PROVE  /\ c.results \in Seq(StepResults)
         /\ Len(c.results) = Len(b.results) + 1
         /\ FailuresOf(c) = IF status = "failure" THEN FailuresOf(b) \cup {Len(b.results) + 1}
                            ELSE FailuresOf(b)
  <1> DEFINE s == b.results
             t == c.results
  <1>1. t \in Seq(StepResults) /\ s \in Seq(StepResults)
    OBVIOUS
  <1>2. /\ Len(s) \in Nat /\ Len(t) = Len(s) + 1
        /\ DOMAIN s = 1 .. Len(s) /\ DOMAIN t = 1 .. Len(s) + 1
    OBVIOUS
  <1>3. \A n \in 1 .. Len(s) : t[n] = s[n]
    OBVIOUS
  <1>4. t[Len(s) + 1] = status
    OBVIOUS
  <1>5. FailuresOf(c) = {n \in 1 .. Len(s) + 1 : t[n] = "failure"}
    BY <1>2 DEF FailuresOf
  <1>6. FailuresOf(b) = {n \in 1 .. Len(s) : s[n] = "failure"}
    BY <1>2 DEF FailuresOf
  <1> HIDE DEF s, t
  <1>7. FailuresOf(c) = IF status = "failure" THEN FailuresOf(b) \cup {Len(s) + 1}
                        ELSE FailuresOf(b)
    BY <1>2, <1>3, <1>4, <1>5, <1>6
  <1> QED
    BY <1>1, <1>2, <1>7 DEF s, t

\* A step that closes keeps a batch sound, and its failure is told.
LEMMA ClosedIsSound ==
  ASSUME SoundBatch(batch), batch.pc \in {"step", "press", "stepping"},
         batch.i <= Len(batch.plan), NEW status \in StepResults, NEW c,
         \/ c = Closed(status)
         \/ \E ticks : c = [Closed(status) EXCEPT !.spent = @ + ticks]
  PROVE  /\ SoundBatch(c)
         /\ c.pc # "stepping" /\ c.res = "none"
         /\ StallOf(batch) => StallOf(c)
         /\ status = "failure" /\ ThisStep.type = "cpu_step" => StallOf(c)
  <1> DEFINE pc == IF status = "failure" /\ batch.abort THEN "report" ELSE "step"
  <1>1. /\ {"pc", "plan", "abort", "i", "results", "res", "paused"} \subseteq DOMAIN c
        /\ c.pc = pc
        /\ c.plan = batch.plan /\ c.abort = batch.abort /\ c.res = batch.res
        /\ c.results = Append(batch.results, status)
        /\ c.i = batch.i + 1
    BY DEF Closed, SoundBatch
  <1>2. /\ batch.plan \in Seq(PlanSteps) /\ batch.results \in Seq(StepResults)
        /\ batch.i = Len(batch.results) + 1 /\ batch.res = "none"
        /\ batch.abort => FailuresOf(batch) = {}
    BY DEF SoundBatch, Looping
  <1>3. Len(batch.results) \in Nat /\ Len(batch.plan) \in Nat
    BY <1>2
  <1>4. /\ c.results \in Seq(StepResults)
        /\ Len(c.results) = Len(batch.results) + 1
        /\ FailuresOf(c) = IF status = "failure"
                           THEN FailuresOf(batch) \cup {Len(batch.results) + 1}
                           ELSE FailuresOf(batch)
    <2>1. status \in StepResults /\ c.results = Append(batch.results, status)
      BY <1>1
    <2> QED
      BY <1>2, <2>1, FailuresAppended
  <1>5. c.i = Len(c.results) + 1 /\ Len(c.results) <= Len(c.plan)
    BY <1>1, <1>2, <1>3, <1>4
  <1>6. Looping(c) /\ c.abort => FailuresOf(c) = {}
    BY <1>1, <1>2, <1>4 DEF Looping
  <1>7. c.pc = "report" => c.abort /\ FailuresOf(c) = {Len(c.results)}
    <2> SUFFICES ASSUME c.pc = "report" PROVE c.abort /\ FailuresOf(c) = {Len(c.results)}
      OBVIOUS
    <2>1. status = "failure" /\ batch.abort
      BY <1>1
    <2> QED
      BY <1>1, <1>2, <1>4, <2>1
  <1>8. c.pc \in {"step", "report"} /\ c.res = "none"
    BY <1>1, <1>2
  <1>9. SoundBatch(c)
    BY <1>1, <1>2, <1>4, <1>5, <1>6, <1>7, <1>8 DEF SoundBatch, Looping
  <1>10. StallOf(batch) => StallOf(c)
    BY <1>1, <1>4 DEF StallOf
  <1>11. status = "failure" /\ ThisStep.type = "cpu_step" => StallOf(c)
    BY <1>1, <1>2, <1>4 DEF StallOf, ThisStep
  <1> QED
    BY <1>8, <1>9, <1>10, <1>11

LEMMA StepsInitial == StepsInit => StepsInv
  <1> SUFFICES ASSUME StepsInit PROVE StepsInv
    OBVIOUS
  <1>1. <<>> \in Seq(PlanSteps) /\ <<>> \in Seq(StepResults) /\ Len(<<>>) = 0
    OBVIOUS
  <1>2. /\ {"pc", "plan", "abort", "i", "results", "res", "paused"} \subseteq DOMAIN batch
        /\ batch.pc = "idle" /\ batch.plan = <<>> /\ batch.results = <<>> /\ batch.i = 1
    BY DEF StepsInit, NoBatch
  <1>3. SoundBatch(batch)
    BY <1>1, <1>2 DEF SoundBatch, Looping
  <1> QED
    BY <1>3 DEF StepsInit, StepsInv, Thawed

LEMMA StepsArrive ==
  ASSUME StepsInv, BatchArrives
  PROVE  StepsInv'
  <1>1. PICK plan \in StepPlans, back \in BOOLEAN, abort \in BOOLEAN :
           \/ batch' = [NoBatch EXCEPT !.pc = "end", !.res = "STEP_INVALID"]
           \/ batch' = [NoBatch EXCEPT !.pc = "end", !.res = "BATCH_BUDGET_EXCEEDED"]
           \/ batch' = [NoBatch EXCEPT !.pc = "lock", !.plan = plan, !.back = back, !.abort = abort]
    BY DEF BatchArrives
  <1>2. <<>> \in Seq(PlanSteps) /\ <<>> \in Seq(StepResults) /\ Len(<<>>) = 0
    OBVIOUS
  <1>3. plan \in Seq(PlanSteps)
    BY StepsAssumption DEF PlanSteps
  <1>8. Len(plan) \in Nat
    BY <1>3
  <1>4. /\ {"pc", "plan", "abort", "i", "results", "res", "paused"} \subseteq DOMAIN batch'
        /\ batch'.results = <<>> /\ batch'.i = 1
        /\ \/ batch'.pc = "end" /\ batch'.plan = <<>>
              /\ batch'.res \in {"STEP_INVALID", "BATCH_BUDGET_EXCEEDED"}
           \/ batch'.pc = "lock" /\ batch'.plan = plan /\ batch'.res = "none"
    BY <1>1 DEF NoBatch
  <1>5. FailuresOf(batch') = {}
    BY <1>4 DEF FailuresOf
  <1>6. SoundBatch(batch')
    <2>1. CASE batch'.pc = "end"
      <3>1. batch'.plan = <<>> /\ batch'.res \in {"STEP_INVALID", "BATCH_BUDGET_EXCEEDED"}
        BY <1>4, <2>1
      <3> QED
        BY <1>2, <1>4, <1>5, <2>1, <3>1 DEF SoundBatch, Looping
    <2>2. CASE batch'.pc = "lock"
      <3>1. batch'.plan = plan /\ batch'.res = "none"
        BY <1>4, <2>2
      <3>2. Len(batch'.results) = 0 /\ Len(batch'.results) <= Len(batch'.plan)
        BY <1>2, <1>4, <1>8, <3>1
      <3> QED
        BY <1>2, <1>3, <1>4, <1>5, <2>2, <3>1, <3>2 DEF SoundBatch, Looping
    <2> QED
      BY <1>4, <2>1, <2>2
  <1>7. cpuBy' # "batch"
    BY DEF BatchArrives
  <1> QED
    BY <1>6, <1>7 DEF StepsInv, SoundBatch, Looping, FailuresOf, Thawed

\* A batch whose plan, results and position stay, and which goes to another
\* place of its loop.
LEMMA MovedIsSound ==
  ASSUME SoundBatch(batch), Looping(batch), NEW c,
         {"pc", "plan", "abort", "i", "results", "res", "paused"} \subseteq DOMAIN c,
         c.plan = batch.plan, c.abort = batch.abort, c.i = batch.i,
         c.results = batch.results, c.res = batch.res,
         \/ c.pc = "step"
         \/ c.pc = "replay" /\ batch.pc = "lock"
         \/ c.pc = "press" /\ batch.i <= Len(batch.plan)
         \/ c.pc = "stepping" /\ batch.i <= Len(batch.plan) /\ ThisStep.type = "cpu_step"
  PROVE  SoundBatch(c) /\ (StallOf(c) <=> StallOf(batch))
  <1>1. FailuresOf(c) = FailuresOf(batch)
    BY DEF FailuresOf
  <1>2. SoundBatch(c)
    BY <1>1 DEF SoundBatch, Looping, ThisStep
  <1> QED
    BY <1>1, <1>2 DEF StallOf

\* A batch that ends without having reported.
LEMMA EndedIsSound ==
  ASSUME SoundBatch(batch), NEW c, NEW r \in {"SESSION_BUSY", "cancelled"},
         c = [batch EXCEPT !.pc = "end", !.res = r]
  PROVE  SoundBatch(c) /\ c.res = r /\ (StallOf(c) <=> StallOf(batch))
  <1>1. /\ {"pc", "plan", "abort", "i", "results", "res", "paused"} \subseteq DOMAIN c
        /\ c.plan = batch.plan /\ c.abort = batch.abort /\ c.i = batch.i
        /\ c.results = batch.results /\ c.res = r /\ c.pc = "end"
    BY DEF SoundBatch
  <1>2. FailuresOf(c) = FailuresOf(batch)
    BY <1>1 DEF FailuresOf
  <1> QED
    BY <1>1, <1>2 DEF SoundBatch, Looping, StallOf

LEMMA StepsReport ==
  ASSUME StepsInv, Reports
  PROVE  StepsInv'
  <1> DEFINE r == IF Failures = {} THEN "ok" ELSE "BATCH_STEP_FAILED"
  <1>1. batch' = [batch EXCEPT !.pc = "end", !.res = r] /\ cpuBy' = cpuBy
    BY DEF Reports, Stays
  <1>2. /\ {"pc", "plan", "abort", "i", "results", "res", "paused"} \subseteq DOMAIN batch'
        /\ batch'.plan = batch.plan /\ batch'.abort = batch.abort /\ batch'.i = batch.i
        /\ batch'.results = batch.results /\ batch'.res = r /\ batch'.pc = "end"
    BY <1>1 DEF StepsInv, SoundBatch
  <1>3. FailuresOf(batch') = FailuresOf(batch) /\ Failures = FailuresOf(batch)
    BY <1>2 DEF FailuresOf, Failures
  <1>4. batch.pc = "report" \/ (batch.pc = "step" /\ batch.i > Len(batch.plan))
    BY DEF Reports, StepsAt
  <1>5. /\ Len(batch.results) \in Nat /\ Len(batch.plan) \in Nat
        /\ batch.i = Len(batch.results) + 1 /\ Len(batch.results) <= Len(batch.plan)
    BY DEF StepsInv, SoundBatch
  <1>6. batch.pc = "step" => Len(batch.results) = Len(batch.plan)
    BY <1>4, <1>5
  <1>7. batch.pc = "report" => batch.abort /\ FailuresOf(batch) = {Len(batch.results)}
    BY DEF StepsInv, SoundBatch
  <1>8. /\ r = "ok" => Len(batch.results) = Len(batch.plan) /\ FailuresOf(batch) = {}
        /\ r = "BATCH_STEP_FAILED" => FailuresOf(batch) # {}
        /\ Len(batch.results) < Len(batch.plan) =>
              batch.abort /\ FailuresOf(batch) = {Len(batch.results)}
    BY <1>3, <1>4, <1>5, <1>6, <1>7
  <1>9. batch'.plan \in Seq(PlanSteps) /\ batch'.results \in Seq(StepResults)
    BY <1>2 DEF StepsInv, SoundBatch
  <1>10. SoundBatch(batch')
    BY <1>2, <1>3, <1>5, <1>8, <1>9 DEF SoundBatch, Looping
  <1>11. Thawed(batch, cpuBy) /\ batch.res = "none" /\ batch.pc # "stepping"
    BY <1>4 DEF StepsInv, SoundBatch, Looping
  <1>12. Thawed(batch', cpuBy')
    BY <1>1, <1>2, <1>3, <1>11 DEF Thawed, StallOf
  <1> QED
    BY <1>10, <1>12 DEF StepsInv, SoundBatch, Looping, FailuresOf, Thawed, StallOf

LEMMA StepsStart ==
  ASSUME StepsInv, Locks \/ AsksRecording \/ BatchCancelled
  PROVE  SoundBatch(batch') /\ Thawed(batch', cpuBy')
  <1>0. SoundBatch(batch) /\ Looping(batch)
    BY DEF StepsInv, Locks, AsksRecording, BatchCancelled, StepsAt, Looping
  <1>1. CASE Locks
    <2>1. batch.pc = "lock" /\ cpuBy' = cpuBy
      BY <1>1 DEF Locks, StepsAt, Stays
    <2>2. CASE batch' = [batch EXCEPT !.pc = "end", !.res = "SESSION_BUSY"]
      <3>1. SoundBatch(batch') /\ (StallOf(batch') <=> StallOf(batch))
        BY <1>0, <2>2, EndedIsSound
      <3> QED
        BY <1>0, <2>1, <3>1 DEF StepsInv, Thawed, SoundBatch
    <2>3. CASE \E w \in 0 .. BusyWait : batch' = [batch EXCEPT !.pc = "replay", !.spent = w]
      <3>1. /\ {"pc", "plan", "abort", "i", "results", "res", "paused"} \subseteq DOMAIN batch'
            /\ batch'.plan = batch.plan /\ batch'.abort = batch.abort /\ batch'.i = batch.i
            /\ batch'.results = batch.results /\ batch'.res = batch.res /\ batch'.pc = "replay"
        BY <1>0, <2>3 DEF SoundBatch
      <3>2. SoundBatch(batch') /\ (StallOf(batch') <=> StallOf(batch))
        BY <1>0, <2>1, <3>1, MovedIsSound
      <3> QED
        BY <2>1, <3>1, <3>2 DEF StepsInv, Thawed
    <2> QED
      BY <1>1, <2>2, <2>3 DEF Locks
  <1>2. CASE AsksRecording
    <2>1. batch.pc = "replay" /\ cpuBy' = cpuBy
      BY <1>2 DEF AsksRecording, StepsAt, Stays
    <2>2. PICK seen : batch' = [batch EXCEPT !.pc = "step", !.seen = seen]
      BY <1>2 DEF AsksRecording
    <2>3. /\ {"pc", "plan", "abort", "i", "results", "res", "paused"} \subseteq DOMAIN batch'
          /\ batch'.plan = batch.plan /\ batch'.abort = batch.abort /\ batch'.i = batch.i
          /\ batch'.results = batch.results /\ batch'.res = batch.res /\ batch'.pc = "step"
      BY <1>0, <2>2 DEF SoundBatch
    <2>4. SoundBatch(batch') /\ (StallOf(batch') <=> StallOf(batch))
      BY <1>0, <2>3, MovedIsSound
    <2> QED
      BY <2>1, <2>3, <2>4 DEF StepsInv, Thawed
  <1>3. CASE BatchCancelled
    <2>1. batch' = [batch EXCEPT !.pc = "end", !.res = "cancelled"]
      BY <1>3 DEF BatchCancelled
    <2> QED
      BY <1>0, <2>1, EndedIsSound DEF Thawed
  <1> QED
    BY <1>1, <1>2, <1>3

\* Steps other than a cpu_step leave the CPU to whoever paused it.
LEMMA StepsOther ==
  ASSUME StepsInv,
         SkipsShot \/ TakesShot \/ Presses \/ PressAnswered \/ Waits \/ Observes
  PROVE  SoundBatch(batch') /\ Thawed(batch', cpuBy')
  <1>1. /\ SoundBatch(batch) /\ Thawed(batch, cpuBy) /\ cpuBy' = cpuBy
        /\ batch.pc \in {"step", "press"} /\ batch.res = "none"
        /\ batch.i <= Len(batch.plan)
    BY DEF StepsInv, SkipsShot, TakesShot, Presses, PressAnswered, Waits, Observes, Stays,
           AtStep, StepsAt, SoundBatch, Looping
  <1>2. CASE \E status \in StepResults :
                \/ batch' = Closed(status)
                \/ \E ticks : batch' = [Closed(status) EXCEPT !.spent = @ + ticks]
    <2>1. SoundBatch(batch') /\ (StallOf(batch) => StallOf(batch'))
      BY <1>1, <1>2, ClosedIsSound
    <2> QED
      BY <1>1, <2>1 DEF Thawed
  <1>3. CASE batch' = [batch EXCEPT !.pc = "press"]
    <2>1. /\ {"pc", "plan", "abort", "i", "results", "res", "paused"} \subseteq DOMAIN batch'
          /\ batch'.plan = batch.plan /\ batch'.abort = batch.abort /\ batch'.i = batch.i
          /\ batch'.results = batch.results /\ batch'.res = batch.res /\ batch'.pc = "press"
      BY <1>1, <1>3 DEF SoundBatch
    <2>2. SoundBatch(batch') /\ (StallOf(batch') <=> StallOf(batch))
      BY <1>1, <2>1, MovedIsSound DEF Looping
    <2> QED
      BY <1>1, <2>1, <2>2 DEF Thawed
  <1>4. {"success", "failure", "skipped"} \subseteq StepResults
    BY DEF StepResults
  <1>5. CASE SkipsShot \/ TakesShot
    BY <1>2, <1>4, <1>5 DEF SkipsShot, TakesShot, Spends
  <1>6. CASE Presses \/ PressAnswered
    BY <1>2, <1>3, <1>4, <1>6 DEF Presses, PressAnswered, Spends
  <1>7. CASE Waits \/ Observes
    BY <1>2, <1>4, <1>7 DEF Waits, Observes, Spends
  <1> QED
    BY <1>5, <1>6, <1>7

LEMMA StepsOfCpu ==
  ASSUME StepsInv, Enters \/ StepsOnce \/ StepsLeave
  PROVE  SoundBatch(batch') /\ Thawed(batch', cpuBy')
  <1>1. /\ SoundBatch(batch) /\ Thawed(batch, cpuBy)
        /\ batch.pc \in {"step", "stepping"} /\ batch.res = "none"
        /\ batch.i <= Len(batch.plan) /\ ThisStep.type = "cpu_step"
    BY DEF StepsInv, Enters, StepsOnce, StepsLeave, AtStep, StepsAt, ThisStep, SoundBatch, Looping
  <1>2. {"success", "failure"} \subseteq StepResults
    BY DEF StepResults
  <1>3. CASE Enters
    <2>0. batch.pc = "step"
      BY <1>3 DEF Enters, AtStep, StepsAt
    <2>1. CASE /\ batch' = [batch EXCEPT !.pc = "stepping", !.stepped = 0,
                                         !.paused = cpuBy = "nobody"]
               /\ cpuBy' = IF cpuBy = "nobody" THEN "batch" ELSE cpuBy
      <3>1. /\ {"pc", "plan", "abort", "i", "results", "res", "paused"} \subseteq DOMAIN batch'
            /\ batch'.plan = batch.plan /\ batch'.abort = batch.abort /\ batch'.i = batch.i
            /\ batch'.results = batch.results /\ batch'.res = batch.res
            /\ batch'.pc = "stepping" /\ batch'.paused = (cpuBy = "nobody")
        BY <1>1, <2>1 DEF SoundBatch
      <3>2. SoundBatch(batch') /\ (StallOf(batch') <=> StallOf(batch))
        BY <1>1, <3>1, MovedIsSound DEF Looping
      <3> QED
        BY <1>1, <2>0, <2>1, <3>1, <3>2 DEF Thawed
    <2>2. CASE Spends(1, "failure")
      <3>1. SoundBatch(batch') /\ StallOf(batch')
        BY <1>1, <1>2, <2>2, ClosedIsSound DEF Spends
      <3> QED
        BY <3>1 DEF Thawed
    <2> QED
      BY <1>3, <2>1, <2>2 DEF Enters
  <1>4. CASE StepsOnce
    <2>0. batch.pc = "stepping" /\ cpuBy' = cpuBy
      BY <1>4 DEF StepsOnce, StepsAt, Stays
    <2>1. /\ {"pc", "plan", "abort", "i", "results", "res", "paused"} \subseteq DOMAIN batch'
          /\ batch'.plan = batch.plan /\ batch'.abort = batch.abort /\ batch'.i = batch.i
          /\ batch'.results = batch.results /\ batch'.res = batch.res
          /\ batch'.pc = "stepping" /\ batch'.paused = batch.paused
      BY <1>1, <1>4, <2>0 DEF SoundBatch, StepsOnce
    <2>2. SoundBatch(batch') /\ (StallOf(batch') <=> StallOf(batch))
      BY <1>1, <2>1, MovedIsSound DEF Looping
    <2> QED
      BY <1>1, <2>0, <2>1, <2>2 DEF Thawed
  <1>5. CASE StepsLeave
    <2>0. batch.pc = "stepping"
      BY <1>5 DEF StepsLeave, StepsAt
    <2>1. PICK ok \in {TRUE, ~batch.paused}, status \in {"success", "failure"} :
             /\ \E ticks : Spends(ticks, status)
             /\ cpuBy' = Left(ok)
             /\ ~ok => status = "failure"
      <3>1. PICK ok \in {TRUE, ~batch.paused} :
               /\ \/ Spends(0, IF ok THEN "success" ELSE "failure")
                  \/ Spends(Allowance, "failure")
               /\ cpuBy' = Left(ok)
        BY <1>5 DEF StepsLeave
      <3>2. CASE Spends(0, IF ok THEN "success" ELSE "failure")
        <4>1. CASE ok
          BY <3>1, <3>2, <4>1
        <4>2. CASE ~ok
          BY <3>1, <3>2, <4>2
        <4> QED
          BY <4>1, <4>2
      <3>3. CASE Spends(Allowance, "failure")
        BY <3>1, <3>3
      <3> QED
        BY <3>1, <3>2, <3>3
    <2>2. /\ SoundBatch(batch') /\ batch'.pc # "stepping"
          /\ StallOf(batch) => StallOf(batch')
          /\ status = "failure" => StallOf(batch')
      BY <1>1, <1>2, <2>1, ClosedIsSound DEF Spends
    <2>3. cpuBy' = "batch" => cpuBy = "batch" /\ ~(batch.paused /\ ok)
      BY <2>1 DEF Left
    <2>4. cpuBy' = "batch" => StallOf(batch')
      <3>1. CASE ~batch.paused
        BY <1>1, <2>0, <2>2, <2>3, <3>1 DEF Thawed
      <3>2. CASE ~ok
        BY <2>1, <2>2, <3>2
      <3> QED
        BY <2>3, <3>1, <3>2
    <2> QED
      BY <2>2, <2>4 DEF Thawed
  <1> QED
    BY <1>3, <1>4, <1>5

LEMMA StepsKept == StepsInv /\ [StepsNext]_stepVars => StepsInv'
  <1> SUFFICES ASSUME StepsInv, [StepsNext]_stepVars PROVE StepsInv'
    OBVIOUS
  <1>1. SoundBatch(batch') /\ Thawed(batch', cpuBy') => StepsInv'
    BY DEF StepsInv, SoundBatch, Looping, FailuresOf, Thawed, StallOf
  <1>2. CASE UNCHANGED <<batch, cpuBy>>
    BY <1>1, <1>2 DEF StepsInv
  <1>3. CASE PadRuns \/ RecordingTurns \/ UNCHANGED stepVars
    BY <1>2, <1>3 DEF PadRuns, RecordingTurns, stepVars
  <1> QED
    BY <1>1, <1>3, StepsArrive, StepsReport, StepsStart, StepsOther, StepsOfCpu DEF StepsNext

(* A batch of any steps, under any budgets, with any of its requests failing *)
(* and cancelled at any await, tells of everything that went wrong in it;    *)
(* what it left paused it told as a failed cpu_step.                         *)
THEOREM BatchCorrect == StepsSpec => []BatchIsTold
  <1>1. StepsInv => BatchIsTold
    BY DEF StepsInv, SoundBatch, Looping, Thawed, StallOf, BatchIsTold, FreezeIsTold,
           FailureIsTold, Failures, FailuresOf, StepsAt
  <1> QED
    BY <1>1, StepsInitial, StepsKept, PTL DEF StepsSpec

-----------------------------------------------------------------------------
(* The launcher: for any hosts, ports and attempts *)

\* The launcher knows of the process and of the file that there are.
HeldInv ==
    /\ owner \in [Ports -> {"free", "emu", "other", "twin"}]
    /\ {"proc", "port", "ini"} \subseteq DOMAIN lnch
    /\ lnch.port \in Ports \cup {NoPort}
    /\ kept \in Nat
    /\ inis = IF lnch.ini THEN kept + 1 ELSE kept
    /\ emulator # "none" => lnch.proc
    /\ emulator = "none" => OwnPorts = {}

\* Where a start is, and what it has then.
CourseInv ==
    /\ {"pc", "attempt", "polls", "found", "sure", "blind", "res"} \subseteq DOMAIN boot
    /\ boot.pc \in {"idle", "check", "prepare", "heal"} => lnch = NoLauncher
    /\ boot.pc = "verify" => boot.found \in Ports
    /\ boot.pc = "exposure" => boot.found = lnch.port /\ lnch.port \in Ports
    /\ boot.sure => boot.pc \in {"started", "gate", "wedge", "heal", "session"}

\* Where nobody may be reached from outside, the port that was judged not to
\* be the emulator's belongs to someone else for good.
SealedInv ==
    boot.sure /\ ~boot.blind /\ ~site.allowed /\ site.wild =>
        \/ boot.pc = "heal"
        \/ lnch.port \in Ports /\ owner[lnch.port] \in {"other", "twin"}

LaunchInv == HeldInv /\ CourseInv /\ SealedInv

LEMMA NoPortNoPort == NoPort \notin Ports
  BY LauncherAssumption DEF NoPort

LEMMA LauncherInitial == LauncherInit => LaunchInv
  <1> SUFFICES ASSUME LauncherInit PROVE LaunchInv
    OBVIOUS
  <1>1. /\ {"proc", "port", "ini"} \subseteq DOMAIN lnch
        /\ lnch.port = NoPort /\ lnch.ini = FALSE /\ lnch = NoLauncher
    BY DEF LauncherInit, NoLauncher
  <1>2. /\ {"pc", "attempt", "polls", "found", "sure", "blind", "res"} \subseteq DOMAIN boot
        /\ boot.pc = "idle" /\ boot.sure = FALSE
    BY DEF LauncherInit, NoBoot
  <1>3. /\ owner \in [Ports -> {"free", "emu", "other", "twin"}] /\ OwnPorts = {}
        /\ emulator = "none" /\ inis = 0 /\ kept = 0
    BY DEF LauncherInit, OwnPorts
  <1> QED
    BY <1>1, <1>2, <1>3 DEF LaunchInv, HeldInv, CourseInv, SealedInv

\* What the emulator and the host do to ports.
LEMMA HostMoves ==
  ASSUME LaunchInv, EmuBinds \/ EmuBoots \/ EmuHangs \/ EmuExits \/ OtherBinds
  PROVE  LaunchInv'
  <1>1. UNCHANGED <<boot, lnch, inis, kept, site>>
    BY DEF EmuBinds, EmuBoots, EmuHangs, EmuExits, OtherBinds
  <1>2. owner \in [Ports -> {"free", "emu", "other", "twin"}]
    BY DEF LaunchInv, HeldInv
  <1>3. /\ owner' \in [Ports -> {"free", "emu", "other", "twin"}]
        /\ \A p \in Ports : owner[p] \in {"other", "twin"} => owner'[p] = owner[p]
    <2>1. CASE \E p \in Ports, who \in {"emu", "other", "twin"} :
                  owner[p] = "free" /\ owner' = [owner EXCEPT ![p] = who]
      BY <1>2, <2>1
    <2>2. CASE owner' = [p \in Ports |-> IF owner[p] = "emu" THEN "free" ELSE owner[p]]
      BY <1>2, <2>2
    <2>3. CASE owner' = owner
      BY <1>2, <2>3
    <2>4. CASE EmuBinds
      <3>1. PICK p \in IF site.honours /\ lnch.ini /\ owner[lnch.port] = "free"
                       THEN {lnch.port} ELSE {q \in Ports : owner[q] = "free"} :
               owner' = [owner EXCEPT ![p] = "emu"]
        BY <2>4 DEF EmuBinds
      <3>2. CASE p \in Ports /\ owner[p] = "free"
        BY <2>1, <3>1, <3>2
      <3>3. CASE p \notin Ports
        <4>1. owner' = owner
          BY <1>2, <3>1, <3>3
        <4> QED
          BY <2>3, <4>1
      <3> QED
        BY <3>1, <3>2, <3>3
    <2> QED
      BY <2>1, <2>2, <2>3, <2>4 DEF EmuBoots, EmuHangs, EmuExits, OtherBinds
  <1>4. /\ emulator' # "none" => lnch.proc
        /\ emulator' = "none" => OwnPorts' = {}
    <2>1. CASE EmuBinds \/ EmuBoots \/ EmuHangs
      BY <2>1 DEF EmuBinds, EmuBoots, EmuHangs, LaunchInv, HeldInv
    <2>2. CASE EmuExits
      BY <1>2, <2>2 DEF EmuExits, OwnPorts
    <2>3. CASE OtherBinds
      <3>1. PICK p \in Ports, who \in {"other", "twin"} :
               owner[p] = "free" /\ owner' = [owner EXCEPT ![p] = who]
        BY <2>3 DEF OtherBinds
      <3>2. OwnPorts' = OwnPorts /\ emulator' = emulator
        BY <1>2, <2>3, <3>1 DEF OtherBinds, OwnPorts
      <3> QED
        BY <3>2 DEF LaunchInv, HeldInv
    <2> QED
      BY <2>1, <2>2, <2>3
  <1>5. HeldInv'
    BY <1>1, <1>3, <1>4 DEF LaunchInv, HeldInv
  <1>6. CourseInv'
    BY <1>1 DEF LaunchInv, CourseInv
  <1>7. SealedInv'
    BY <1>1, <1>3 DEF LaunchInv, SealedInv
  <1> QED
    BY <1>5, <1>6, <1>7 DEF LaunchInv

\* stop leaves nothing, whatever the launcher held.
LEMMA StoppedLeavesNothing ==
  ASSUME LaunchInv, NEW next, Stopped(next)
  PROVE  HeldInv' /\ lnch' = NoLauncher /\ boot' = next
  <1>1. lnch' = NoLauncher /\ boot' = next
    BY DEF Stopped
  <1>2. /\ {"proc", "port", "ini"} \subseteq DOMAIN lnch'
        /\ lnch'.port = NoPort /\ lnch'.ini = FALSE /\ lnch'.proc = FALSE
    BY <1>1 DEF NoLauncher
  <1>3. kept' \in Nat /\ inis' = kept'
    BY DEF Stopped, LaunchInv, HeldInv
  <1>4. emulator' = "none" /\ OwnPorts' = {}
        /\ owner' \in [Ports -> {"free", "emu", "other", "twin"}]
    <2>1. CASE lnch.proc
      BY <2>1 DEF Stopped, LaunchInv, HeldInv, OwnPorts
    <2>2. CASE ~lnch.proc
      BY <2>2 DEF Stopped, LaunchInv, HeldInv, OwnPorts
    <2> QED
      BY <2>1, <2>2
  <1> QED
    BY <1>1, <1>2, <1>3, <1>4 DEF HeldInv

LEMMA StopMoves ==
  ASSUME LaunchInv, StartFails \/ WedgeStops \/ SessionStops
  PROVE  LaunchInv'
  <1>1. PICK next : /\ Stopped(next)
                    /\ \/ next = [boot EXCEPT !.pc = "heal"]
                       \/ \E res : next = Ended(res)
    BY DEF StartFails, WedgeStops, SessionStops
  <1>2. HeldInv' /\ lnch' = NoLauncher /\ boot' = next
    BY <1>1, StoppedLeavesNothing
  <1>3. CASE next = [boot EXCEPT !.pc = "heal"]
    <2>1. /\ {"pc", "attempt", "polls", "found", "sure", "blind", "res"} \subseteq DOMAIN boot'
          /\ boot'.pc = "heal"
      BY <1>2, <1>3 DEF LaunchInv, CourseInv
    <2> QED
      BY <1>2, <2>1 DEF LaunchInv, CourseInv, SealedInv
  <1>4. CASE \E res : next = Ended(res)
    <2>1. /\ {"pc", "attempt", "polls", "found", "sure", "blind", "res"} \subseteq DOMAIN boot'
          /\ boot'.pc = "idle" /\ boot'.sure = FALSE
      BY <1>2, <1>4 DEF Ended, NoBoot
    <2> QED
      BY <1>2, <2>1 DEF LaunchInv, CourseInv, SealedInv
  <1> QED
    BY <1>1, <1>3, <1>4

\* Before the port is known.
LEMMA StartMoves ==
  ASSUME LaunchInv, StartBegins \/ CheckPaths \/ Prepare \/ PrepareFails \/ ListFails \/ Spawn
            \/ Quarantine
  PROVE  LaunchInv'
  <1> DEFINE fields == {"pc", "attempt", "polls", "found", "sure", "blind", "res"}
  <1>0. HeldInv /\ CourseInv
    BY DEF LaunchInv
  <1>1. CASE StartBegins \/ Quarantine
    <2>1. UNCHANGED <<owner, emulator, inis, kept, lnch>> /\ lnch = NoLauncher
      BY <1>0, <1>1 DEF StartBegins, Quarantine, CourseInv, In
    <2>2. \/ \E n : boot' = [NoBoot EXCEPT !.pc = "check", !.attempt = n]
          \/ boot' = Ended("BOOT_TIMEOUT")
      BY <1>1 DEF StartBegins, Quarantine
    <2>3. fields \subseteq DOMAIN boot' /\ boot'.sure = FALSE /\ boot'.pc \in {"check", "idle"}
      BY <2>2 DEF NoBoot, Ended
    <2> QED
      BY <1>0, <2>1, <2>3 DEF LaunchInv, HeldInv, OwnPorts, CourseInv, SealedInv
  <1>2. CASE CheckPaths
    <2>1. UNCHANGED <<owner, emulator, inis, kept, lnch>> /\ lnch = NoLauncher
      BY <1>0, <1>2 DEF CheckPaths, CourseInv, In
    <2>2. \E p \in {"prepare", "failed"} : boot' = [boot EXCEPT !.pc = p]
      BY <1>2 DEF CheckPaths, Goto
    <2>3. ~boot.sure
      BY <1>0, <1>2 DEF CheckPaths, In, CourseInv
    <2>4. fields \subseteq DOMAIN boot' /\ ~boot'.sure /\ boot'.pc \in {"prepare", "failed"}
      BY <1>0, <2>2, <2>3 DEF CourseInv
    <2> QED
      BY <1>0, <2>1, <2>4 DEF LaunchInv, HeldInv, OwnPorts, CourseInv, SealedInv
  <1>3. CASE Prepare \/ ListFails
    <2>1. UNCHANGED <<owner, emulator, kept>> /\ lnch = NoLauncher /\ ~boot.sure
      BY <1>0, <1>3 DEF Prepare, ListFails, CourseInv, In
    <2>2. PICK p \in Ports : lnch' = [lnch EXCEPT !.port = p, !.ini = TRUE]
      BY <1>3 DEF Prepare, ListFails
    <2>3. /\ {"proc", "port", "ini"} \subseteq DOMAIN lnch'
          /\ lnch'.port = p /\ lnch'.ini = TRUE /\ lnch'.proc = lnch.proc
      BY <2>1, <2>2 DEF NoLauncher
    <2>4. inis' = kept' + 1 /\ kept' \in Nat
      <3>1. lnch.ini = FALSE
        BY <2>1 DEF NoLauncher
      <3>2. inis = kept /\ kept \in Nat
        BY <1>0, <3>1 DEF HeldInv
      <3>3. inis' = inis + 1
        BY <1>3 DEF Prepare, ListFails
      <3> QED
        BY <2>1, <3>2, <3>3
    <2>5. fields \subseteq DOMAIN boot' /\ ~boot'.sure /\ boot'.pc \in {"spawn", "failed"}
      BY <1>0, <1>3, <2>1 DEF Prepare, ListFails, Goto, CourseInv
    <2> QED
      BY <1>0, <2>1, <2>3, <2>4, <2>5 DEF LaunchInv, HeldInv, OwnPorts, CourseInv, SealedInv
  <1>5. CASE PrepareFails
    <2>1. UNCHANGED <<owner, emulator, lnch>> /\ lnch = NoLauncher /\ ~boot.sure
      BY <1>0, <1>5 DEF PrepareFails, CourseInv, In
    <2>2. inis' = kept' /\ kept' \in Nat /\ lnch.ini = FALSE
      BY <1>0, <1>5, <2>1 DEF PrepareFails, HeldInv, NoLauncher
    <2>3. fields \subseteq DOMAIN boot' /\ ~boot'.sure /\ boot'.pc = "failed"
      BY <1>0, <1>5, <2>1 DEF PrepareFails, Goto, CourseInv
    <2> QED
      BY <1>0, <2>1, <2>2, <2>3 DEF LaunchInv, HeldInv, OwnPorts, CourseInv, SealedInv
  <1>4. CASE Spawn
    <2>1. UNCHANGED <<owner, inis, kept>> /\ ~boot.sure
      BY <1>0, <1>4 DEF Spawn, CourseInv, In
    <2>2. CASE Goto("failed") /\ UNCHANGED <<emulator, lnch>>
      <3>1. fields \subseteq DOMAIN boot' /\ ~boot'.sure /\ boot'.pc = "failed"
        BY <1>0, <2>1, <2>2 DEF Goto, CourseInv
      <3> QED
        BY <1>0, <2>1, <2>2, <3>1 DEF LaunchInv, HeldInv, OwnPorts, CourseInv, SealedInv
    <2>3. CASE /\ emulator' = "booting" /\ lnch' = [lnch EXCEPT !.proc = TRUE]
               /\ boot' = [boot EXCEPT !.pc = "asked", !.polls = 0]
      <3>1. fields \subseteq DOMAIN boot' /\ ~boot'.sure /\ boot'.pc = "asked"
        BY <1>0, <2>1, <2>3 DEF CourseInv
      <3>2. /\ {"proc", "port", "ini"} \subseteq DOMAIN lnch'
            /\ lnch'.port = lnch.port /\ lnch'.ini = lnch.ini /\ lnch'.proc
        BY <1>0, <2>3 DEF HeldInv
      <3> QED
        BY <1>0, <2>1, <2>3, <3>1, <3>2 DEF LaunchInv, HeldInv, OwnPorts, CourseInv, SealedInv
    <2> QED
      BY <1>4, <2>2, <2>3 DEF Spawn
  <1> QED
    BY <1>1, <1>2, <1>3, <1>4, <1>5

\* A start goes on with what it holds.
LEMMA GoesOn ==
  ASSUME LaunchInv, UNCHANGED <<site, owner, emulator, inis, kept, lnch>>,
         {"pc", "attempt", "polls", "found", "sure", "blind", "res"} \subseteq DOMAIN boot',
         boot'.pc \notin {"idle", "check", "prepare", "heal", "verify", "exposure"},
         boot'.sure => boot'.pc \in {"started", "gate", "wedge", "session"},
         SealedInv'
  PROVE  LaunchInv'
  <1>1. HeldInv'
    BY DEF LaunchInv, HeldInv, OwnPorts
  <1> QED
    BY <1>1 DEF LaunchInv, CourseInv

\* The waits for the port.
LEMMA PortMoves ==
  ASSUME LaunchInv, Phase1 \/ Phase2 \/ Verify
  PROVE  LaunchInv'
  <1> DEFINE fields == {"pc", "attempt", "polls", "found", "sure", "blind", "res"}
  <1>1. /\ fields \subseteq DOMAIN boot /\ ~boot.sure
        /\ UNCHANGED <<site, owner, emulator, inis, kept>>
    BY DEF LaunchInv, CourseInv, Phase1, Phase2, Verify, In
  <1>2. CASE Phase1
    <2>1. CASE /\ Listening(lnch.port)
               /\ boot' = [boot EXCEPT !.pc = "exposure", !.found = lnch.port]
      <3>1. fields \subseteq DOMAIN boot' /\ ~boot'.sure /\ boot'.pc = "exposure"
            /\ boot'.found = lnch.port /\ lnch.port \in Ports
        BY <1>1, <2>1 DEF Listening, LaunchInv, HeldInv
      <3> QED
        BY <1>1, <1>2, <3>1
           DEF Phase1, LaunchInv, HeldInv, OwnPorts, CourseInv, SealedInv
    <2>2. CASE \/ boot' = [boot EXCEPT !.pc = "started"]
               \/ boot' = [boot EXCEPT !.polls = @ + 1]
               \/ boot' = [boot EXCEPT !.pc = "discover", !.polls = 0]
      <3>1. fields \subseteq DOMAIN boot' /\ ~boot'.sure
            /\ boot'.pc \in {"started", "asked", "discover"}
        BY <1>1, <1>2, <2>2 DEF Phase1, In
      <3> QED
        BY <1>1, <1>2, <3>1, GoesOn DEF Phase1, SealedInv
    <2> QED
      BY <1>2, <2>1, <2>2 DEF Phase1
  <1>3. CASE Phase2
    <2>1. CASE \E answers \in SUBSET site.tools : \E p \in ListedPorts(answers) :
                 boot' = [boot EXCEPT !.pc = "verify", !.found = p]
      <3>1. fields \subseteq DOMAIN boot' /\ ~boot'.sure /\ boot'.pc = "verify"
            /\ boot'.found \in Ports
        BY <1>1, <2>1 DEF ListedPorts, NamedPorts, OwnPorts
      <3> QED
        BY <1>1, <1>3, <3>1
           DEF Phase2, LaunchInv, HeldInv, OwnPorts, CourseInv, SealedInv
    <2>2. CASE \/ boot' = [boot EXCEPT !.pc = "started"]
               \/ boot' = [boot EXCEPT !.polls = @ + 1]
      <3>1. fields \subseteq DOMAIN boot' /\ ~boot'.sure
            /\ boot'.pc \in {"started", "discover"}
        BY <1>1, <1>3, <2>2 DEF Phase2, In
      <3> QED
        BY <1>1, <1>3, <3>1, GoesOn DEF Phase2, SealedInv
    <2> QED
      BY <1>3, <2>1, <2>2 DEF Phase2
  <1>4. CASE Verify
    <2>1. CASE Goto("started") /\ UNCHANGED lnch
      <3>1. fields \subseteq DOMAIN boot' /\ ~boot'.sure /\ boot'.pc = "started"
        BY <1>1, <2>1 DEF Goto
      <3> QED
        BY <1>1, <2>1, <3>1, GoesOn DEF SealedInv
    <2>2. CASE Goto("exposure") /\ lnch' = [lnch EXCEPT !.port = boot.found]
      <3>1. fields \subseteq DOMAIN boot' /\ ~boot'.sure /\ boot'.pc = "exposure"
            /\ boot'.found = boot.found
        BY <1>1, <2>2 DEF Goto
      <3>2. /\ {"proc", "port", "ini"} \subseteq DOMAIN lnch'
            /\ lnch'.port = boot.found /\ lnch'.ini = lnch.ini /\ lnch'.proc = lnch.proc
        BY <2>2 DEF LaunchInv, HeldInv
      <3>3. boot.found \in Ports
        BY <1>4 DEF Verify, In, LaunchInv, CourseInv
      <3> QED
        BY <1>1, <3>1, <3>2, <3>3 DEF LaunchInv, HeldInv, OwnPorts, CourseInv, SealedInv
    <2> QED
      BY <1>4, <2>1, <2>2 DEF Verify
  <1> QED
    BY <1>2, <1>3, <1>4

LEMMA ExposureMoves ==
  ASSUME LaunchInv, EnsureNotExposed
  PROVE  LaunchInv'
  <1> DEFINE fields == {"pc", "attempt", "polls", "found", "sure", "blind", "res"}
  <1>1. /\ fields \subseteq DOMAIN boot /\ ~boot.sure
        /\ boot.found = lnch.port /\ lnch.port \in Ports
        /\ owner[lnch.port] \in {"free", "emu", "other", "twin"}
        /\ UNCHANGED <<site, owner, emulator, inis, kept, lnch>>
    BY DEF LaunchInv, HeldInv, CourseInv, EnsureNotExposed, In
  <1>2. PICK answers \in SUBSET site.tools :
           boot' = IF Exposed(boot.found, answers) /\ ~site.allowed
                   THEN [boot EXCEPT !.pc = "failed"]
                   ELSE [boot EXCEPT !.pc = "started", !.sure = Listening(boot.found),
                                     !.blind = ~BindsKnown(answers)]
    BY DEF EnsureNotExposed
  <1>3. CASE Exposed(boot.found, answers) /\ ~site.allowed
    <2>1. fields \subseteq DOMAIN boot' /\ ~boot'.sure /\ boot'.pc = "failed"
      BY <1>1, <1>2, <1>3
    <2> QED
      BY <1>1, <2>1, GoesOn DEF SealedInv
  <1>4. CASE ~(Exposed(boot.found, answers) /\ ~site.allowed)
    <2>1. /\ fields \subseteq DOMAIN boot' /\ boot'.pc = "started"
          /\ boot'.sure = Listening(boot.found)
          /\ boot'.blind = ~BindsKnown(answers)
      BY <1>1, <1>2, <1>4
    <2>2. boot'.sure /\ ~boot'.blind /\ ~site.allowed /\ site.wild =>
             owner[lnch.port] \in {"other", "twin"}
      BY <1>1, <1>4, <2>1 DEF Listening, Exposed, OwnPorts
    <2> QED
      BY <1>1, <2>1, <2>2, GoesOn DEF SealedInv
  <1> QED
    BY <1>3, <1>4

LEMMA GateMoves ==
  ASSUME LaunchInv, Started \/ GatePoll \/ GateHearsOther
  PROVE  LaunchInv'
  <1> DEFINE fields == {"pc", "attempt", "polls", "found", "sure", "blind", "res"}
  <1>1. /\ fields \subseteq DOMAIN boot /\ boot.pc \in {"started", "gate"}
        /\ UNCHANGED <<site, owner, emulator, inis, kept, lnch>>
    BY DEF LaunchInv, CourseInv, Started, GatePoll, GateHearsOther, In
  <1>2. \/ \E p \in {"session", "wedge"} : boot' = [boot EXCEPT !.pc = p]
        \/ boot' = [boot EXCEPT !.pc = "gate", !.polls = 0]
        \/ boot' = [boot EXCEPT !.polls = @ + 1]
    BY DEF Started, GatePoll, GateHearsOther, Goto
  <1>3. /\ fields \subseteq DOMAIN boot'
        /\ boot'.sure = boot.sure /\ boot'.blind = boot.blind
        /\ boot'.pc \in {"started", "gate", "session", "wedge"}
    BY <1>1, <1>2
  <1>4. SealedInv'
    BY <1>1, <1>3 DEF LaunchInv, SealedInv
  <1> QED
    BY <1>1, <1>3, <1>4, GoesOn

LEMMA LaunchKept == LaunchInv /\ [LauncherNext]_launchVars => LaunchInv'
  <1> SUFFICES ASSUME LaunchInv, [LauncherNext]_launchVars PROVE LaunchInv'
    OBVIOUS
  <1>1. CASE UNCHANGED launchVars
    BY <1>1 DEF launchVars, LaunchInv, HeldInv, OwnPorts, CourseInv, SealedInv
  <1> QED
    BY <1>1, HostMoves, StopMoves, StartMoves, PortMoves, ExposureMoves, GateMoves
       DEF LauncherNext

(* Wherever a start fails or hangs, at any of its attempts, no process and   *)
(* no file of it stays; and a debugger found to listen for everyone is a     *)
(* session only where the operator allows it, by whichever of the two        *)
(* phases its port was found and whoever else takes ports meanwhile.         *)
THEOREM StartCorrect == LauncherSpec => []StartIsClean
  <1>1. LaunchInv => StartIsClean
    <2> SUFFICES ASSUME LaunchInv PROVE NothingLeftBehind /\ ExposureRefused
      BY DEF StartIsClean
    <2>1. NothingLeftBehind
      BY DEF LaunchInv, HeldInv, CourseInv, NothingLeftBehind, In, NoLauncher
    <2>2. ASSUME boot.sure, ~boot.blind, owner[Url] = "emu", ~site.allowed, site.wild
          PROVE  FALSE
      <3>1. CASE boot.pc = "heal"
        <4>1. emulator = "none"
          BY <3>1 DEF LaunchInv, CourseInv, HeldInv, NoLauncher
        <4>2. Url = ConfigPort /\ ConfigPort \in Ports
          BY <3>1, LauncherAssumption DEF LaunchInv, CourseInv, NoLauncher, Url
        <4> QED
          BY <2>2, <4>1, <4>2 DEF LaunchInv, HeldInv, OwnPorts
      <3>2. CASE lnch.port \in Ports /\ owner[lnch.port] \in {"other", "twin"}
        BY <2>2, <3>2, NoPortNoPort DEF Url
      <3> QED
        BY <2>2, <3>1, <3>2 DEF LaunchInv, SealedInv
    <2>3. ExposureRefused
      BY <2>2 DEF ExposureRefused
    <2> QED
      BY <2>1, <2>3
  <1> QED
    BY <1>1, LauncherInitial, LaunchKept, PTL DEF LauncherSpec

-----------------------------------------------------------------------------
(* Breakpoints: for any addresses, sizes and conditions *)

Twins(p, q) == p.kind = q.kind /\ p.at = q.at /\ p.size = q.size

SoundPoint(p) ==
    /\ {"kind", "at", "size", "on", "read", "write", "change", "asked"} \subseteq DOMAIN p
    /\ p.at \in Spots /\ p.kind \in {"cpu", "mem"}
    /\ p.kind = "cpu" => p.size = 0

\* PPSSPP holds one breakpoint of a kind, address and size, and two at one
\* address only where there is doubt.
PointsInv ==
    /\ IsFiniteSet(points)
    /\ \A p \in points : SoundPoint(p)
    /\ \A p, q \in points : Twins(p, q) => p = q
    /\ \A p, q \in points : p.at = q.at /\ p.at \notin doubt => p = q

LooksUp == {"remove", "mem_remove", "mem_update"}

\* A call past its checks names an address, and what it found there is there
\* still, or in doubt.
EditInv ==
    /\ {"pc", "act", "at", "size", "cond", "on", "read", "write", "found", "res"}
          \subseteq DOMAIN edit
    /\ edit.pc \in {"find", "request", "carried"} =>
          /\ edit.at \in Spots
          /\ edit.act \in CpuActs \cup MemActs
          /\ edit.act \in CpuActs => edit.size = 0
    /\ edit.pc = "request" /\ edit.act \in LooksUp =>
          /\ edit.found.at = edit.at
          /\ edit.found.kind = IF edit.act = "remove" THEN "cpu" ELSE "mem"
          /\ edit.found \in points \/ edit.at \in doubt

\* The condition held for an address is its breakpoint's, or will be when
\* the answer under way is filed.
ConditionInv ==
    /\ filters = [a \in Spots |-> filters[a]]
    /\ \A p \in points : p.at \notin doubt =>
          p.asked = IF EditAt("carried") /\ edit.at = p.at THEN FilterAfter ELSE filters[p.at]

TableInv == PointsInv /\ EditInv /\ ConditionInv

\* Two breakpoints at one address make it shared.
LEMMA TwoAreShared ==
  ASSUME NEW T, IsFiniteSet(T), NEW p \in T, NEW q \in T, p # q, p.at = q.at, p.at \in Spots
  PROVE  p.at \in Shared(T)
  <1> DEFINE U == {x \in T : x.at = p.at}
  <1>1. IsFiniteSet(U) /\ Cardinality(U) \in Nat
    BY FS_Subset, FS_CardinalityType
  <1>2. Cardinality(U) # 0
    BY <1>1, FS_EmptySet
  <1>3. Cardinality(U) # 1
    <2>1. p \in U /\ q \in U
      OBVIOUS
    <2> HIDE DEF U
    <2> QED
      BY <1>1, <2>1, FS_Singleton
  <1>4. Cardinality(U) > 1
    <2> HIDE DEF U
    <2> QED
      BY <1>1, <1>2, <1>3
  <1> QED
    BY <1>4 DEF Shared

LEMMA EditInitial == EditInit => TableInv
  <1> SUFFICES ASSUME EditInit PROVE TableInv
    OBVIOUS
  <1>1. points = {} /\ IsFiniteSet(points)
    BY FS_EmptySet DEF EditInit
  <1>2. EditInv
    BY DEF EditInit, NoEdit, EditInv
  <1> QED
    BY <1>1, <1>2 DEF EditInit, TableInv, PointsInv, ConditionInv

-----------------------------------------------------------------------------
(* The table after a request *)

LEMMA TargetOfUpdate ==
  ASSUME TableInv, EditAt("request"), edit.act \in {"update", "mem_update"}
  PROVE  /\ \A t \in Target : t \in points /\ t.at = edit.at
         /\ \A s, t \in Target : s = t
         /\ \A t \in Target : SoundPoint(Updated(t)) /\ Twins(Updated(t), t)
                              /\ Updated(t).asked = AskedAfter(t.asked)
  <1>1. \A t \in Target : t \in points /\ t.at = edit.at /\ SoundPoint(t)
    BY DEF Target, TableInv, PointsInv
  <1>2. \A s, t \in Target : s = t
    <2> SUFFICES ASSUME NEW s \in Target, NEW t \in Target PROVE s = t
      OBVIOUS
    <2>1. Twins(s, t)
      BY <1>1 DEF Target, Twins, SoundPoint
    <2> QED
      BY <1>1, <2>1 DEF TableInv, PointsInv
  <1>3. ASSUME NEW t \in Target
        PROVE  SoundPoint(Updated(t)) /\ Twins(Updated(t), t)
               /\ Updated(t).asked = AskedAfter(t.asked)
    <2>1. SoundPoint(t)
      BY <1>1
    <2>2. /\ DOMAIN Updated(t) = DOMAIN t
          /\ Updated(t).kind = t.kind /\ Updated(t).at = t.at /\ Updated(t).size = t.size
          /\ Updated(t).asked = AskedAfter(t.asked)
      <3>1. CASE edit.act = "update"
        BY <2>1, <3>1 DEF Updated, SoundPoint
      <3>2. CASE edit.act # "update"
        BY <2>1, <3>2 DEF Updated, SoundPoint
      <3> QED
        BY <3>1, <3>2
    <2> QED
      BY <2>1, <2>2 DEF SoundPoint, Twins
  <1> QED
    BY <1>1, <1>2, <1>3

\* What is new in the table is at the address of the call.
LEMMA TableAfterRequest ==
  ASSUME TableInv, EditAt("request")
  PROVE  /\ IsFiniteSet(TableAfter)
         /\ \A p \in TableAfter : SoundPoint(p)
         /\ \A p, q \in TableAfter : Twins(p, q) => p = q
         /\ \A p \in TableAfter : p \notin points => p.at = edit.at
  <1>1. /\ edit.at \in Spots /\ edit.act \in CpuActs \cup MemActs
        /\ edit.act \in CpuActs => edit.size = 0
    BY DEF TableInv, EditInv, EditAt
  <1>2. /\ IsFiniteSet(points) /\ \A p \in points : SoundPoint(p)
        /\ \A p, q \in points : Twins(p, q) => p = q
    BY DEF TableInv, PointsInv
  <1>3. CASE edit.act \in {"set", "mem_set"}
    <2> DEFINE rest == {p \in points : ~(p.kind = Added.kind /\ p.at = edit.at
                                         /\ p.size = edit.size)}
    <2>1. TableAfter = rest \cup {Added}
      BY <1>3 DEF TableAfter
    <2>2. IsFiniteSet(rest) /\ IsFiniteSet(rest \cup {Added})
      <3>1. IsFiniteSet(rest)
        BY <1>2, FS_Subset
      <3> QED
        BY <3>1, FS_AddElement
    <2>3. Added.at = edit.at /\ Added.size = edit.size
      BY DEF Added
    <2>4. SoundPoint(Added)
      BY <1>1, <1>3 DEF Added, SoundPoint, CpuActs
    <2>5. \A p \in rest : p \in points /\ ~Twins(p, Added) /\ ~Twins(Added, p)
      BY <2>3 DEF Twins
    <2> HIDE DEF rest
    <2> QED
      BY <1>2, <2>1, <2>2, <2>3, <2>4, <2>5
  <1>4. CASE edit.act \in {"remove", "mem_remove"}
    <2>1. TableAfter \subseteq points
      BY <1>4 DEF TableAfter
    <2>2. IsFiniteSet(TableAfter)
      BY <1>2, <2>1, FS_Subset
    <2> QED
      BY <1>2, <2>1, <2>2
  <1>5. CASE edit.act \in {"update", "mem_update"}
    <2>1. TableAfter = (points \ Target) \cup {Updated(p) : p \in Target}
      BY <1>5 DEF TableAfter
    <2>2. /\ \A t \in Target : t \in points /\ t.at = edit.at
          /\ \A s, t \in Target : s = t
          /\ \A t \in Target : SoundPoint(Updated(t)) /\ Twins(Updated(t), t)
      BY <1>5, TargetOfUpdate
    <2>3. IsFiniteSet(points \ Target)
      BY <1>2, FS_Subset
    <2>4. CASE Target = {}
      BY <1>2, <2>1, <2>4
    <2>5. CASE Target # {}
      <3>1. PICK t \in Target : Target = {t}
        BY <2>2, <2>5
      <3> DEFINE u == Updated(t)
      <3>2. TableAfter = (points \ {t}) \cup {u}
        BY <2>1, <3>1
      <3>3. SoundPoint(u) /\ Twins(u, t) /\ t \in points /\ t.at = edit.at
        BY <2>2
      <3>4. IsFiniteSet(TableAfter)
        BY <2>3, <3>1, <3>2, FS_AddElement
      <3>5. u.at = edit.at
        BY <3>3 DEF Twins
      <3>6. \A p \in points \ {t} : ~Twins(p, u) /\ ~Twins(u, p)
        BY <1>2, <3>3 DEF Twins
      <3> HIDE DEF u
      <3> QED
        BY <1>2, <3>2, <3>3, <3>4, <3>5, <3>6
    <2> QED
      BY <2>4, <2>5
  <1> QED
    BY <1>1, <1>3, <1>4, <1>5 DEF CpuActs, MemActs

LEMMA RequestKeeps ==
  ASSUME TableInv, Carries
  PROVE  TableInv'
  <1>1. /\ EditAt("request") /\ points' = TableAfter /\ filters' = filters
        /\ doubt \subseteq doubt' /\ Shared(points') \subseteq doubt'
        /\ Target = {} /\ edit.act \in {"update", "mem_update"} => edit.at \in doubt'
        /\ edit' = [edit EXCEPT !.pc = "carried"]
    BY DEF Carries
  <1>2. /\ {"pc", "act", "at", "size", "cond", "on", "read", "write", "found", "res"}
              \subseteq DOMAIN edit'
        /\ edit'.pc = "carried" /\ edit'.act = edit.act /\ edit'.at = edit.at
        /\ edit'.size = edit.size /\ edit'.cond = edit.cond
    BY <1>1 DEF TableInv, EditInv
  <1>3. /\ edit.at \in Spots /\ edit.act \in CpuActs \cup MemActs
        /\ edit.act \in CpuActs => edit.size = 0
    BY <1>1 DEF TableInv, EditInv, EditAt
  <1>4. EditInv'
    BY <1>2, <1>3 DEF EditInv, CpuActs, MemActs
  <1>5. /\ IsFiniteSet(points') /\ \A p \in points' : SoundPoint(p)
        /\ \A p, q \in points' : Twins(p, q) => p = q
        /\ \A p \in points' : p \notin points => p.at = edit.at
    BY <1>1, TableAfterRequest
  <1>6. \A p, q \in points' : p.at = q.at /\ p.at \notin doubt' => p = q
    BY <1>1, <1>5, TwoAreShared DEF SoundPoint
  <1>7. PointsInv'
    BY <1>5, <1>6 DEF PointsInv, SoundPoint, Twins
  <1>8. FilterAfter' = FilterAfter
    BY <1>1, <1>2 DEF FilterAfter
  <1>9. ASSUME NEW p \in points', p.at \notin doubt', p.at # edit.at
        PROVE  p.asked = filters[p.at]
    BY <1>1, <1>5, <1>9 DEF TableInv, ConditionInv, EditAt
  <1>10. ASSUME NEW p \in points', p.at \notin doubt', p.at = edit.at
         PROVE  p.asked = FilterAfter
    <2>1. CASE edit.act \in {"set", "mem_set"}
      <3>1. Added \in points' /\ Added.at = edit.at /\ Added.asked = AskedAfter("none")
        BY <1>1, <2>1 DEF TableAfter, Added
      <3>2. p = Added
        BY <1>6, <1>10, <3>1
      <3> QED
        BY <2>1, <3>1, <3>2 DEF AskedAfter, FilterAfter
    <2>2. CASE edit.act \in {"remove", "mem_remove"}
      <3>1. edit.found \in points /\ edit.found.at = edit.at
            /\ edit.found.kind = IF edit.act = "remove" THEN "cpu" ELSE "mem"
        BY <1>1, <1>10, <2>2 DEF TableInv, EditInv, EditAt, LooksUp
      <3>2. p \in points
        BY <1>1, <2>2 DEF TableAfter
      <3>3. p = edit.found
        BY <1>1, <1>10, <3>1, <3>2 DEF TableInv, PointsInv
      <3>4. edit.found \notin points'
        BY <1>1, <2>2, <3>1 DEF TableAfter, Target
      <3> QED
        BY <3>3, <3>4
    <2>3. CASE edit.act \in {"update", "mem_update"}
      <3>1. PICK t \in Target : TRUE
        BY <1>1, <1>10, <2>3
      <3>2. t \in points /\ t.at = edit.at /\ Twins(Updated(t), t)
            /\ Updated(t).asked = AskedAfter(t.asked)
        BY <1>1, <2>3, <3>1, TargetOfUpdate
      <3>3. Updated(t) \in points'
        BY <1>1, <2>3, <3>1 DEF TableAfter
      <3>4. p = Updated(t)
        BY <1>6, <1>10, <3>2, <3>3 DEF Twins
      <3>5. t.asked = filters[edit.at]
        BY <1>1, <1>10, <3>2 DEF TableInv, ConditionInv, EditAt
      <3> QED
        BY <2>3, <3>2, <3>4, <3>5 DEF AskedAfter, FilterAfter
    <2> QED
      BY <1>3, <2>1, <2>2, <2>3 DEF CpuActs, MemActs
  <1>11. \A p \in points' : p.at \notin doubt' =>
            p.asked = IF EditAt("carried")' /\ edit'.at = p.at
                      THEN FilterAfter' ELSE filters'[p.at]
    BY <1>1, <1>2, <1>8, <1>9, <1>10 DEF EditAt
  <1>12. ConditionInv'
    BY <1>1, <1>11 DEF TableInv, ConditionInv
  <1> QED
    BY <1>4, <1>7, <1>12 DEF TableInv

-----------------------------------------------------------------------------
(* The other steps *)

\* A call that goes on without touching the table.
LEMMA CallMoves ==
  ASSUME TableInv, points' = points, filters' = filters, doubt \subseteq doubt', EditInv',
         edit'.pc # "carried",
         EditAt("carried") => edit.at \in doubt'
  PROVE  TableInv'
  <1>1. PointsInv'
    BY DEF TableInv, PointsInv
  <1>2. ConditionInv'
    BY DEF TableInv, ConditionInv, EditAt
  <1> QED
    BY <1>1, <1>2 DEF TableInv

LEMMA CallEnds ==
  ASSUME TableInv, NEW res, EditEnds(res)
  PROVE  EditInv' /\ edit'.pc = "idle"
  <1>1. edit' = [NoEdit EXCEPT !.res = res]
    BY DEF EditEnds
  <1> QED
    BY <1>1 DEF NoEdit, EditInv

\* A call is refused, or goes to its request, its look-up or its answer.
LEMMA Arrival ==
  ASSUME EditArrives
  PROVE  \/ edit' = [NoEdit EXCEPT !.res = "ARGS_INVALID"]
         \/ /\ {"pc", "act", "at", "size", "cond", "on", "read", "write", "found", "res"}
                  \subseteq DOMAIN edit'
            /\ edit'.act \in CpuActs => edit'.size = 0
            /\ \/ edit'.act \in {"list", "mem_list"} /\ edit'.pc = "answer"
               \/ /\ edit'.at \in Spots /\ edit'.act \in CpuActs \cup MemActs
                  /\ edit'.pc = IF edit'.act \in LooksUp THEN "find" ELSE "request"
  <1>1. PICK act \in CpuActs \cup MemActs \cup {"list", "mem_list"},
             at \in Spots \cup {0}, size \in Sizes \cup {0},
             cond \in Conditions \cup {"none", ""}, on \in {"default", "no"},
             read \in Flags, write \in Flags :
         LET r == [NoEdit EXCEPT !.act = act, !.at = at, !.size = size, !.cond = cond,
                                 !.on = on, !.read = read, !.write = write] IN
         /\ act \notin MemActs => size = 0
         /\ act \notin {"mem_set", "mem_update"} => read = "default" /\ write = "default"
         /\ act \in {"remove", "mem_remove", "list", "mem_list"} => cond = "none" /\ on = "default"
         /\ act \in {"list", "mem_list"} => at = 0
         /\ edit' = IF ~Accepted(r) THEN [NoEdit EXCEPT !.res = "ARGS_INVALID"]
                    ELSE [r EXCEPT !.pc = CASE act \in {"list", "mem_list"} -> "answer"
                                            [] act \in {"remove", "mem_remove", "mem_update"} -> "find"
                                            [] OTHER -> "request"]
    BY DEF EditArrives
  <1> DEFINE r == [NoEdit EXCEPT !.act = act, !.at = at, !.size = size, !.cond = cond,
                                 !.on = on, !.read = read, !.write = write]
             fields == {"pc", "act", "at", "size", "cond", "on", "read", "write", "found", "res"}
             place == CASE act \in {"list", "mem_list"} -> "answer"
                        [] act \in {"remove", "mem_remove", "mem_update"} -> "find"
                        [] OTHER -> "request"
  <1>2. fields \subseteq DOMAIN r /\ r.act = act /\ r.at = at /\ r.size = size
    BY DEF NoEdit
  <1>3. \/ edit' = [NoEdit EXCEPT !.res = "ARGS_INVALID"]
        \/ Accepted(r) /\ edit' = [r EXCEPT !.pc = place]
    BY <1>1
  <1>4. act \in CpuActs => size = 0
    BY <1>1 DEF CpuActs, MemActs
  <1>5. place = IF act \in {"list", "mem_list"} THEN "answer"
                ELSE IF act \in LooksUp THEN "find" ELSE "request"
    BY DEF LooksUp
  <1>6. act \in {"list", "mem_list"} \/ act \in CpuActs \cup MemActs
    OBVIOUS
  <1> HIDE DEF r, place
  <1>7. CASE Accepted(r) /\ edit' = [r EXCEPT !.pc = place]
    <2>1. act \in CpuActs \cup MemActs => at \in Spots
      BY <1>2, <1>7 DEF Accepted, CpuActs, MemActs
    <2>2. /\ fields \subseteq DOMAIN edit' /\ edit'.act = act /\ edit'.at = at
          /\ edit'.size = size /\ edit'.pc = place
      BY <1>2, <1>7
    <2> QED
      BY <1>4, <1>5, <1>6, <2>1, <2>2
  <1> QED
    BY <1>3, <1>7

LEMMA ArrivalKeeps ==
  ASSUME TableInv, EditArrives
  PROVE  TableInv'
  <1>1. UNCHANGED <<points, filters, doubt>> /\ ~EditAt("carried")
    BY DEF EditArrives, EditAt
  <1>2. CASE edit' = [NoEdit EXCEPT !.res = "ARGS_INVALID"]
    <2>1. EditInv' /\ edit'.pc = "idle"
      BY <1>2 DEF NoEdit, EditInv
    <2> QED
      BY <1>1, <2>1, CallMoves
  <1>3. CASE edit' # [NoEdit EXCEPT !.res = "ARGS_INVALID"]
    <2>1. EditInv' /\ edit'.pc # "carried"
      BY <1>3, Arrival DEF EditInv
    <2> QED
      BY <1>1, <2>1, CallMoves
  <1> QED
    BY <1>2, <1>3

LEMMA FindKeeps ==
  ASSUME TableInv, Finds
  PROVE  TableInv'
  <1>1. EditAt("find") /\ UNCHANGED <<points, filters, doubt>>
    BY DEF Finds
  <1>2. CASE EditEnds("BREAKPOINT_ERROR")
    BY <1>1, <1>2, CallEnds, CallMoves DEF EditAt
  <1>3. CASE \E p \in Matches : edit' = [edit EXCEPT !.pc = "request", !.found = p]
    <2>1. PICK p \in Matches : edit' = [edit EXCEPT !.pc = "request", !.found = p]
      BY <1>3
    <2>2. /\ {"pc", "act", "at", "size", "cond", "on", "read", "write", "found", "res"}
                \subseteq DOMAIN edit'
          /\ edit'.pc = "request" /\ edit'.act = edit.act /\ edit'.at = edit.at
          /\ edit'.size = edit.size /\ edit'.found = p
      BY <2>1 DEF TableInv, EditInv
    <2>3. /\ p \in points' /\ p.at = edit.at
          /\ p.kind = IF edit.act = "remove" THEN "cpu" ELSE "mem"
      BY <1>1 DEF Matches
    <2>4. EditInv'
      BY <1>1, <2>2, <2>3 DEF TableInv, EditInv, EditAt
    <2> QED
      BY <1>1, <2>2, <2>4, CallMoves DEF EditAt
  <1> QED
    BY <1>2, <1>3 DEF Finds

LEMMA EndKeeps ==
  ASSUME TableInv, LookupFails \/ RequestLost \/ EditAnswered \/ AnswerFails
  PROVE  TableInv'
  <1>1. \E res : EditEnds(res)
    BY DEF LookupFails, RequestLost, EditAnswered, AnswerFails
  <1>2. EditInv' /\ edit'.pc = "idle"
    BY <1>1, CallEnds
  <1>3. /\ UNCHANGED <<points, filters>> /\ doubt \subseteq doubt'
        /\ EditAt("carried") => edit.at \in doubt'
    BY DEF LookupFails, RequestLost, EditAnswered, AnswerFails, EditAt
  <1> QED
    BY <1>2, <1>3, CallMoves

LEMMA FilingKeeps ==
  ASSUME TableInv, FilesCondition
  PROVE  TableInv'
  <1>1. /\ EditAt("carried") /\ UNCHANGED <<points, doubt>>
        /\ filters' = [filters EXCEPT ![edit.at] = FilterAfter]
        /\ edit' = [edit EXCEPT !.pc = "answer"]
    BY DEF FilesCondition
  <1>2. /\ {"pc", "act", "at", "size", "cond", "on", "read", "write", "found", "res"}
              \subseteq DOMAIN edit'
        /\ edit'.pc = "answer"
    BY <1>1 DEF TableInv, EditInv
  <1>3. edit.at \in Spots /\ filters = [a \in Spots |-> filters[a]]
    BY <1>1 DEF TableInv, EditInv, EditAt, ConditionInv
  <1>4. /\ filters' = [a \in Spots |-> filters'[a]]
        /\ \A a \in Spots : filters'[a] = IF a = edit.at THEN FilterAfter ELSE filters[a]
    BY <1>1, <1>3
  <1>5. \A p \in points : SoundPoint(p)
    BY DEF TableInv, PointsInv
  <1>6. ConditionInv'
    BY <1>1, <1>2, <1>4, <1>5 DEF TableInv, ConditionInv, EditAt, SoundPoint
  <1>7. EditInv' /\ PointsInv'
    BY <1>1, <1>2 DEF TableInv, EditInv, PointsInv
  <1> QED
    BY <1>6, <1>7 DEF TableInv

\* PPSSPP's user makes doubtful what he touches.
LEMMA MeddlingKeeps ==
  ASSUME TableInv, Vanishes \/ UserArms
  PROVE  TableInv'
  <1>1. UNCHANGED <<filters, edit>> /\ FilterAfter' = FilterAfter
    BY DEF Vanishes, UserArms, FilterAfter
  <1>2. PICK a \in Spots :
           /\ doubt' = doubt \cup {a}
           /\ \A p \in points \cup points' : p.at # a => (p \in points' <=> p \in points)
           /\ IsFiniteSet(points') /\ \A p \in points' : SoundPoint(p)
           /\ \A p, q \in points' : Twins(p, q) => p = q
    <2>1. CASE Vanishes
      <3>1. PICK p \in points : points' = points \ {p} /\ doubt' = doubt \cup {p.at}
        BY <2>1 DEF Vanishes
      <3>2. p.at \in Spots
        BY DEF TableInv, PointsInv, SoundPoint
      <3>3. IsFiniteSet(points')
        BY <3>1, FS_Subset DEF TableInv, PointsInv
      <3> QED
        BY <3>1, <3>2, <3>3 DEF TableInv, PointsInv
    <2>2. CASE UserArms
      <3> DEFINE New(a, n) ==
                   [NoPoint EXCEPT !.kind = "mem", !.at = a, !.size = n,
                                   !.on = TRUE, !.write = TRUE, !.change = TRUE]
      <3>1. PICK a \in Spots, n \in Sizes :
               /\ ~\E p \in points : p.kind = "mem" /\ p.at = a /\ p.size = n
               /\ points' = points \cup {New(a, n)} /\ doubt' = doubt \cup {a}
        BY <2>2 DEF UserArms
      <3>2. SoundPoint(New(a, n)) /\ New(a, n).kind = "mem"
            /\ New(a, n).at = a /\ New(a, n).size = n
        BY DEF NoPoint, SoundPoint
      <3> HIDE DEF New
      <3>3. IsFiniteSet(points')
        BY <3>1, FS_AddElement DEF TableInv, PointsInv
      <3>4. \A p \in points : ~Twins(p, New(a, n)) /\ ~Twins(New(a, n), p)
        BY <3>1, <3>2 DEF Twins
      <3> QED
        BY <3>1, <3>2, <3>3, <3>4 DEF TableInv, PointsInv
    <2> QED
      BY <2>1, <2>2
  <1>3. PointsInv'
    BY <1>2 DEF TableInv, PointsInv, SoundPoint, Twins
  <1>4. EditInv'
    <2>1. EditInv
      BY DEF TableInv
    <2>2. edit.found \in points /\ edit.found.at = edit.at =>
             edit.found \in points' \/ edit.at \in doubt'
      BY <1>2
    <2> QED
      BY <1>1, <1>2, <2>1, <2>2 DEF EditInv
  <1>5. ConditionInv'
    BY <1>1, <1>2 DEF TableInv, ConditionInv, EditAt
  <1> QED
    BY <1>3, <1>4, <1>5 DEF TableInv

LEMMA SessionEndKeeps ==
  ASSUME TableInv, EditedSessionEnds
  PROVE  TableInv'
  <1>1. /\ EditAt("idle") /\ points' = {} /\ edit' = edit
        /\ filters' = [a \in Spots |-> "none"] /\ IsFiniteSet(points')
    BY FS_EmptySet DEF EditedSessionEnds
  <1> QED
    BY <1>1 DEF TableInv, PointsInv, EditInv, EditAt, ConditionInv

LEMMA TableKept == TableInv /\ [EditNext]_editVars => TableInv'
  <1> SUFFICES ASSUME TableInv, [EditNext]_editVars PROVE TableInv'
    OBVIOUS
  <1>1. CASE UNCHANGED editVars
    BY <1>1 DEF editVars, TableInv, PointsInv, EditInv, ConditionInv, EditAt, FilterAfter
  <1> QED
    BY <1>1, ArrivalKeeps, FindKeeps, EndKeeps, RequestKeeps, FilingKeeps, MeddlingKeeps,
       SessionEndKeeps DEF EditNext

(* However many requests are lost and however often PPSSPP's user meddles,   *)
(* the condition held for an address between edits is the one its only       *)
(* breakpoint was last given.                                                *)
THEOREM ConditionsCorrect == EditSpec => []LoneConditionHolds
  <1>1. TableInv => LoneConditionHolds
    BY DEF TableInv, ConditionInv, LoneConditionHolds, EditAt
  <1> QED
    BY <1>1, EditInitial, TableKept, PTL DEF EditSpec

-----------------------------------------------------------------------------
(* The flags of watchpoints, while at most one fault happens *)

\* What a mem_update found is there still, or was taken away by the one fault.
FoundInv ==
    /\ faults \in Nat
    /\ EditAt("request") /\ edit.act = "mem_update" =>
          edit.found \in points \/ (faults >= 1 /\ Target = {})

LEMMA FoundKept ==
  ASSUME MaxFaults \in {0, 1}, TableInv, FoundInv, [EditNext]_editVars
  PROVE  FoundInv'
  <1>1. faults \in Nat
    BY DEF FoundInv
  <1>2. faults' \in Nat
    <2>1. CASE \/ EditArrives \/ Finds \/ Carries \/ FilesCondition \/ EditAnswered
               \/ EditedSessionEnds \/ UNCHANGED editVars
      <3>1. faults' = faults
        BY <2>1 DEF EditArrives, Finds, Carries, FilesCondition, EditAnswered,
           EditedSessionEnds, editVars
      <3> QED
        BY <1>1, <3>1
    <2>2. CASE LookupFails \/ RequestLost \/ AnswerFails \/ Vanishes \/ UserArms
      <3>1. faults' = faults + 1
        BY <2>2 DEF LookupFails, RequestLost, AnswerFails, Vanishes, UserArms
      <3> QED
        BY <1>1, <3>1
    <2> QED
      BY <2>1, <2>2 DEF EditNext
  <1>3. CASE EditAt("request")' /\ edit'.act = "mem_update"
    <2>1. CASE Finds
      <3>1. PICK p \in Matches : edit' = [edit EXCEPT !.pc = "request", !.found = p]
        <4>1. edit'.pc = "idle" \/
              \E p \in Matches : edit' = [edit EXCEPT !.pc = "request", !.found = p]
          BY <2>1, CallEnds DEF Finds
        <4> QED
          BY <1>3, <4>1 DEF EditAt
      <3>2. edit'.found = p
        BY <3>1 DEF TableInv, EditInv
      <3> QED
        BY <1>2, <2>1, <3>2 DEF FoundInv, Finds, Matches
    <2>2. CASE UNCHANGED <<edit, points, faults>>
      BY <1>2, <1>3, <2>2 DEF FoundInv, EditAt, Target
    <2>3. CASE Vanishes
      <3>1. PICK p \in points : points' = points \ {p}
        BY <2>3 DEF Vanishes
      <3>2. edit' = edit /\ faults < MaxFaults /\ faults' = faults + 1
        BY <2>3 DEF Vanishes
      <3>3. edit.found \in points
        BY <1>1, <1>3, <3>2 DEF FoundInv, EditAt
      <3>4. CASE p = edit.found
        <4>1. edit.found.kind = "mem" /\ edit.found.at = edit.at /\ edit.act = "mem_update"
          BY <1>3, <3>2 DEF TableInv, EditInv, EditAt, LooksUp
        <4>2. \A q \in points' : ~(q.kind = "mem" /\ q.at = edit.at /\ q.size = edit.found.size)
          BY <3>1, <3>3, <3>4, <4>1 DEF TableInv, PointsInv, Twins
        <4>3. Target' = {}
          BY <3>2, <4>1, <4>2 DEF Target
        <4> QED
          BY <1>1, <1>2, <3>2, <4>3 DEF FoundInv
      <3>5. CASE p # edit.found
        BY <1>2, <3>1, <3>2, <3>3, <3>5 DEF FoundInv
      <3> QED
        BY <3>4, <3>5
    <2>4. CASE UserArms
      <3>1. edit' = edit /\ faults < MaxFaults /\ points \subseteq points'
        BY <2>4 DEF UserArms
      <3>2. edit.found \in points
        BY <1>1, <1>3, <3>1 DEF FoundInv, EditAt
      <3> QED
        BY <1>2, <3>1, <3>2 DEF FoundInv
    <2>5. CASE EditArrives
      <3>1. edit'.pc = "request" => edit'.act # "mem_update"
        BY <2>5, Arrival DEF NoEdit, LooksUp
      <3> QED
        BY <1>3, <3>1 DEF EditAt
    <2>6. CASE Carries \/ FilesCondition
      <3>1. edit'.pc \in {"carried", "answer"}
        BY <2>6 DEF Carries, FilesCondition, TableInv, EditInv
      <3> QED
        BY <1>3, <3>1 DEF EditAt
    <2>7. CASE LookupFails \/ RequestLost \/ EditAnswered \/ AnswerFails
      <3>1. \E res : EditEnds(res)
        BY <2>7 DEF LookupFails, RequestLost, EditAnswered, AnswerFails
      <3>2. edit'.pc = "idle"
        BY <3>1, CallEnds
      <3> QED
        BY <1>3, <3>2 DEF EditAt
    <2>8. CASE EditedSessionEnds
      BY <1>3, <2>8 DEF EditedSessionEnds, EditAt
    <2> QED
      BY <2>1, <2>2, <2>3, <2>4, <2>5, <2>6, <2>7, <2>8 DEF EditNext, editVars
  <1>4. CASE ~(EditAt("request")' /\ edit'.act = "mem_update")
    BY <1>2, <1>4 DEF FoundInv
  <1> QED
    BY <1>3, <1>4

LEMMA UpdateKeeps ==
  ASSUME TableInv, FoundInv, Carries, edit.act = "mem_update",
         NEW p \in points, p.kind = "mem"
  PROVE  \E q \in points' :
            /\ q.kind = "mem" /\ q.at = p.at /\ q.size = p.size /\ q.change = p.change
            /\ q.read \in {p.read, Given(edit.read, p.read)}
            /\ q.write \in {p.write, Given(edit.write, p.write)}
            /\ (q # p => p.at = edit.at)
  <1>1. EditAt("request") /\ points' = (points \ Target) \cup {Updated(t) : t \in Target}
    BY DEF Carries, TableAfter
  <1>2. CASE p \notin Target
    BY <1>1, <1>2
  <1>3. CASE p \in Target
    <2>1. edit.found \in points /\ edit.found.kind = "mem" /\ edit.found.at = edit.at
      BY <1>1, <1>3 DEF TableInv, EditInv, FoundInv, EditAt, LooksUp
    <2>2. p.at = edit.at /\ p.size = edit.found.size
      BY <1>3 DEF Target
    <2>3. p = edit.found
      BY <2>1, <2>2 DEF TableInv, PointsInv, Twins
    <2>4. SoundPoint(p)
      BY DEF TableInv, PointsInv
    <2>5. /\ Updated(p).kind = "mem" /\ Updated(p).at = p.at /\ Updated(p).size = p.size
          /\ Updated(p).change = p.change
          /\ Updated(p).read = Given(edit.read, p.read)
          /\ Updated(p).write = Given(edit.write, p.write)
      BY <2>3, <2>4 DEF Updated, Merged, SoundPoint
    <2>6. Updated(p) \in points'
      BY <1>1, <1>3
    <2> QED
      BY <2>2, <2>5, <2>6
  <1> QED
    BY <1>2, <1>3

(* An edit changes the breakpoint and the condition it names, and no other,  *)
(* if at most one request is lost or one breakpoint changed by PPSSPP's user *)
(* meanwhile.  With two the flags are not safe: where he removes the         *)
(* watchpoint that mem_update has found and arms another of its address and  *)
(* size, the update gives it the flags of the old one.                       *)
THEOREM EditsCorrect ==
  ASSUME MaxFaults \in {0, 1}
  PROVE  EditSpec => EditsAreLocal
  <1> DEFINE Flagged ==
        edit.act = "mem_update" /\ EditAt("request") /\ edit'.pc = "carried" =>
         \A p \in points : p.kind = "mem" =>
            \E q \in points' :
                /\ q.kind = "mem" /\ q.at = p.at /\ q.size = p.size /\ q.change = p.change
                /\ q.read \in {p.read, Given(edit.read, p.read)}
                /\ q.write \in {p.write, Given(edit.write, p.write)}
                /\ (q # p => p.at = edit.at)
  <1>1. EditInit => FoundInv
    BY DEF EditInit, NoEdit, FoundInv, EditAt
  <1>2. TableInv /\ FoundInv /\ [EditNext]_editVars => FoundInv'
    BY FoundKept
  <1>3. TableInv /\ FoundInv /\ [EditNext]_editVars => [Flagged]_editVars
    <2> SUFFICES ASSUME TableInv, FoundInv, EditNext, edit.act = "mem_update",
                        EditAt("request"), edit'.pc = "carried"
                 PROVE  Carries
      BY UpdateKeeps
    <2>1. ~(LookupFails \/ EditAnswered \/ AnswerFails \/ FilesCondition \/ EditArrives
            \/ Finds \/ EditedSessionEnds)
      BY DEF LookupFails, EditAnswered, AnswerFails, FilesCondition, EditArrives, Finds,
             EditedSessionEnds, EditAt
    <2>2. ~RequestLost
      <3>1. RequestLost => edit'.pc = "idle"
        BY CallEnds DEF RequestLost
      <3> QED
        BY <3>1
    <2>3. ~(Vanishes \/ UserArms)
      BY DEF Vanishes, UserArms, EditAt
    <2> QED
      BY <2>1, <2>2, <2>3 DEF EditNext
  <1>4. EditSpec => []TableInv /\ []FoundInv
    BY <1>1, <1>2, EditInitial, TableKept, PTL DEF EditSpec
  <1>5. EditSpec => [][Flagged]_editVars
    BY <1>3, <1>4, PTL DEF EditSpec
  <1> QED
    BY <1>5, ConditionsCorrect DEF EditsAreLocal, UpdateKeepsFlags

-----------------------------------------------------------------------------
(* The token buckets: for any rates, names and lifetimes of buckets *)

\* The tokens of a key in a set of buckets at a time.
TokensAt(B, now, k) ==
    IF \E b \in B : b.key = k
    THEN LET b == CHOOSE x \in B : x.key = k
             sum == b.tokens + (now - b.last) IN
         IF sum < rate THEN sum ELSE rate
    ELSE rate

Within(calls, k, a, e) == {z \in calls : z.key = k /\ a <= z.at /\ z.at <= e}

\* There is one bucket of a key, and none was used later than now.
BucketsInv(B, now) ==
    /\ \A b \in B : b.tokens \in Nat /\ b.last \in Nat /\ b.last <= now
    /\ \A b, c \in B : b.key = c.key => b = c

\* The calls since any moment and the tokens left make no more than a full
\* bucket and what it regained; the calls of a span stay within its bound.
BudgetInv(B, now, calls) ==
    /\ \A k : \A a \in 0 .. now :
          Cardinality(Within(calls, k, a, now)) + TokensAt(B, now, k) <= rate + (now - a)
    /\ \A k : \A e \in 0 .. now : \A a \in 0 .. e :
          Cardinality(Within(calls, k, a, e)) <= rate + (e - a)

DoorInv ==
    /\ rate \in Rates /\ clock \in Nat
    /\ BucketsInv(buckets, clock)
    /\ IsFiniteSet(past)
    /\ \A z \in past : z.at \in Nat /\ z.at <= clock
    /\ rate <= 0 => past = {}
    /\ rate > 0 => BudgetInv(buckets, clock, past)

LEMMA RateTyped ==
  ASSUME DoorInv
  PROVE  rate \in Int /\ BucketTtl \in Nat /\ rate <= BucketTtl /\ clock \in Nat
  BY FrontAssumption DEF DoorInv

LEMMA SpanFinite ==
  ASSUME NEW calls, IsFiniteSet(calls), NEW k, NEW a, NEW e
  PROVE  IsFiniteSet(Within(calls, k, a, e)) /\ Cardinality(Within(calls, k, a, e)) \in Nat
  <1>1. Within(calls, k, a, e) \subseteq calls
    BY DEF Within
  <1> QED
    BY <1>1, FS_Subset, FS_CardinalityType

LEMMA TokensOfOne ==
  ASSUME NEW B, NEW now, BucketsInv(B, now), NEW b \in B
  PROVE  TokensAt(B, now, b.key) = IF b.tokens + (now - b.last) < rate
                                   THEN b.tokens + (now - b.last) ELSE rate
  <1> DEFINE c == CHOOSE x \in B : x.key = b.key
  <1>1. c \in B /\ c.key = b.key
    OBVIOUS
  <1>2. c = b
    BY <1>1 DEF BucketsInv
  <1> QED
    BY <1>2 DEF TokensAt

LEMMA TokensOfNone ==
  ASSUME NEW B, NEW now, NEW k, \A b \in B : b.key # k
  PROVE  TokensAt(B, now, k) = rate
  BY DEF TokensAt

LEMMA TokensTyped ==
  ASSUME NEW B, NEW now \in Nat, rate \in Int, BucketsInv(B, now), NEW k
  PROVE  /\ TokensAt(B, now, k) \in Int /\ TokensAt(B, now, k) <= rate
         /\ rate > 0 => TokensAt(B, now, k) >= 0
  <1>1. CASE \E b \in B : b.key = k
    <2>1. PICK b \in B : b.key = k
      BY <1>1
    <2>2. b.tokens \in Nat /\ b.last \in Nat /\ b.last <= now
      BY DEF BucketsInv
    <2>3. TokensAt(B, now, k) = IF b.tokens + (now - b.last) < rate
                                THEN b.tokens + (now - b.last) ELSE rate
      BY <2>1, TokensOfOne
    <2> QED
      BY <2>2, <2>3
  <1>2. CASE ~\E b \in B : b.key = k
    BY <1>2, TokensOfNone
  <1> QED
    BY <1>1, <1>2

LEMMA FrontInitial == FrontInit => DoorInv
  <1> SUFFICES ASSUME FrontInit PROVE DoorInv
    OBVIOUS
  <1>1. /\ rate \in Rates /\ rate \in Int /\ clock = 0 /\ buckets = {} /\ past = {}
        /\ IsFiniteSet(past)
    BY FrontAssumption, FS_EmptySet DEF FrontInit
  <1>2. \A k, a, e : Within(past, k, a, e) = {} /\ Cardinality(Within(past, k, a, e)) = 0
    BY <1>1, FS_EmptySet DEF Within
  <1>3. \A k : TokensAt(buckets, clock, k) = rate
    BY <1>1, TokensOfNone
  <1>4. ASSUME rate > 0 PROVE BudgetInv(buckets, clock, past)
    <2>1. ASSUME NEW k, NEW a \in 0 .. clock
          PROVE  Cardinality(Within(past, k, a, clock)) + TokensAt(buckets, clock, k)
                    <= rate + (clock - a)
      BY <1>1, <1>2, <1>3
    <2>2. ASSUME NEW k, NEW e \in 0 .. clock, NEW a \in 0 .. e
          PROVE  Cardinality(Within(past, k, a, e)) <= rate + (e - a)
      BY <1>1, <1>2, <1>4
    <2> QED
      BY <2>1, <2>2 DEF BudgetInv
  <1> QED
    BY <1>1, <1>4 DEF DoorInv, BucketsInv

-----------------------------------------------------------------------------
(* The steps *)

\* A bucket regains at most one token in a tick.
LEMMA TickKeeps ==
  ASSUME DoorInv, Ticks
  PROVE  DoorInv'
  <1>1. clock' = clock + 1 /\ UNCHANGED <<rate, buckets, past>>
    BY DEF Ticks
  <1>2. rate \in Int /\ clock \in Nat /\ clock' \in Nat
    BY <1>1, RateTyped
  <1>3. BucketsInv(buckets, clock) /\ BucketsInv(buckets, clock + 1)
    BY <1>2 DEF DoorInv, BucketsInv
  <1>4. IsFiniteSet(past) /\ \A z \in past : z.at \in Nat /\ z.at <= clock /\ z.at <= clock + 1
    BY <1>2 DEF DoorInv
  <1>5. ASSUME rate > 0 PROVE BudgetInv(buckets, clock + 1, past)
    <2>0. BudgetInv(buckets, clock, past)
      BY <1>5 DEF DoorInv
    <2>1. ASSUME NEW k
          PROVE  TokensAt(buckets, clock + 1, k) <= TokensAt(buckets, clock, k) + 1
      <3>1. CASE \E b \in buckets : b.key = k
        <4>1. PICK b \in buckets : b.key = k
          BY <3>1
        <4>2. b.tokens \in Nat /\ b.last \in Nat
          BY <1>3 DEF BucketsInv
        <4>3. TokensAt(buckets, clock, k) = IF b.tokens + (clock - b.last) < rate
                                            THEN b.tokens + (clock - b.last) ELSE rate
          BY <1>3, <4>1, TokensOfOne
        <4>4. TokensAt(buckets, clock + 1, k) = IF b.tokens + ((clock + 1) - b.last) < rate
                                                THEN b.tokens + ((clock + 1) - b.last) ELSE rate
          BY <1>3, <4>1, TokensOfOne
        <4> QED
          BY <1>2, <4>2, <4>3, <4>4
      <3>2. CASE ~\E b \in buckets : b.key = k
        BY <1>2, <3>2, TokensOfNone
      <3> QED
        BY <3>1, <3>2
    <2>2. \A k, a : Within(past, k, a, clock + 1) = Within(past, k, a, clock)
      BY <1>2, <1>4 DEF Within
    <2>3. \A k : Within(past, k, clock + 1, clock + 1) = {}
      BY <1>2, <1>4 DEF Within
    <2>4. ASSUME NEW k, NEW a \in 0 .. clock + 1
          PROVE  Cardinality(Within(past, k, a, clock + 1)) + TokensAt(buckets, clock + 1, k)
                    <= rate + ((clock + 1) - a)
      <3> DEFINE n == Cardinality(Within(past, k, a, clock + 1))
                 t == TokensAt(buckets, clock, k)
                 u == TokensAt(buckets, clock + 1, k)
      <3>1. n \in Nat /\ t \in Int /\ u \in Int /\ u <= rate /\ u <= t + 1
        BY <1>2, <1>3, <1>4, <2>1, SpanFinite, TokensTyped
      <3>2. CASE a <= clock
        <4>1. n + t <= rate + (clock - a)
          <5>1. a \in 0 .. clock
            BY <1>2, <3>2
          <5> QED
            BY <2>0, <2>2, <5>1 DEF BudgetInv
        <4>2. n + u <= rate + ((clock + 1) - a)
          <5> HIDE DEF n, t, u
          <5> QED
            BY <1>2, <3>1, <4>1
        <4> QED
          BY <4>2
      <3>3. CASE a = clock + 1
        <4>1. n = 0
          BY <2>3, <3>3, FS_EmptySet
        <4>2. n + u <= rate + ((clock + 1) - a)
          <5> HIDE DEF n, t, u
          <5> QED
            BY <1>2, <3>1, <3>3, <4>1
        <4> QED
          BY <4>2
      <3>4. a <= clock \/ a = clock + 1
        BY <1>2
      <3> QED
        BY <3>2, <3>3, <3>4
    <2>5. ASSUME NEW k, NEW e \in 0 .. clock + 1, NEW a \in 0 .. e
          PROVE  Cardinality(Within(past, k, a, e)) <= rate + (e - a)
      <3>1. CASE e <= clock
        <4>1. e \in 0 .. clock
          BY <1>2, <3>1
        <4> QED
          BY <2>0, <4>1 DEF BudgetInv
      <3>2. CASE e = clock + 1
        <4> DEFINE n == Cardinality(Within(past, k, a, clock + 1))
                   u == TokensAt(buckets, clock + 1, k)
        <4>1. a \in 0 .. clock + 1
          BY <1>2, <3>2
        <4>2. n + u <= rate + ((clock + 1) - a)
          BY <2>4, <4>1
        <4>3. n \in Nat /\ u \in Int /\ u >= 0
          BY <1>2, <1>3, <1>4, <1>5, SpanFinite, TokensTyped
        <4>4. n <= rate + ((clock + 1) - a)
          <5> HIDE DEF n, u
          <5> QED
            BY <1>2, <4>1, <4>2, <4>3
        <4> QED
          BY <3>2, <4>4
      <3>3. e <= clock \/ e = clock + 1
        BY <1>2
      <3> QED
        BY <3>1, <3>2, <3>3
    <2> QED
      BY <2>4, <2>5 DEF BudgetInv
  <1>6. rate <= 0 => past = {}
    BY DEF DoorInv
  <1>7. rate \in Rates
    BY DEF DoorInv
  <1> QED
    BY <1>1, <1>2, <1>3, <1>4, <1>5, <1>6, <1>7 DEF DoorInv, BucketsInv, BudgetInv, TokensAt

\* A bucket that is dropped was full again, so no key has more tokens or less.
LEMMA PruningKeepsTokens ==
  ASSUME DoorInv, NEW key
  PROVE  /\ BucketsInv(Pruned(key), clock)
         /\ \A k : TokensAt(Pruned(key), clock, k) = TokensAt(buckets, clock, k)
  <1>1. rate \in Int /\ BucketTtl \in Nat /\ rate <= BucketTtl /\ clock \in Nat
    BY RateTyped
  <1>2. Pruned(key) \subseteq buckets
    BY DEF Pruned
  <1>3. BucketsInv(buckets, clock) /\ BucketsInv(Pruned(key), clock)
    BY <1>2 DEF DoorInv, BucketsInv
  <1>4. ASSUME NEW k
        PROVE  TokensAt(Pruned(key), clock, k) = TokensAt(buckets, clock, k)
    <2>1. CASE \E b \in Pruned(key) : b.key = k
      <3>1. PICK b \in Pruned(key) : b.key = k
        BY <2>1
      <3> QED
        BY <1>2, <1>3, <3>1, TokensOfOne
    <2>2. CASE \E b \in buckets \ Pruned(key) : b.key = k
      <3>1. PICK b \in buckets \ Pruned(key) : b.key = k
        BY <2>2
      <3>2. b.tokens \in Nat /\ b.last \in Nat
        BY <1>3 DEF BucketsInv
      <3>3. clock - b.last >= BucketTtl
        <4>1. ~(clock - b.last < BucketTtl)
          BY <3>1 DEF Pruned
        <4> QED
          BY <1>1, <3>2, <4>1
      <3>4. TokensAt(buckets, clock, k) = rate
        <4>1. TokensAt(buckets, clock, k) = IF b.tokens + (clock - b.last) < rate
                                            THEN b.tokens + (clock - b.last) ELSE rate
          BY <1>3, <3>1, TokensOfOne
        <4> QED
          BY <1>1, <3>2, <3>3, <4>1
      <3>5. \A c \in Pruned(key) : c.key # k
        BY <1>2, <1>3, <3>1 DEF BucketsInv
      <3> QED
        BY <3>4, <3>5, TokensOfNone
    <2>3. CASE \A b \in buckets : b.key # k
      BY <1>2, <2>3, TokensOfNone
    <2> QED
      BY <2>1, <2>2, <2>3
  <1> QED
    BY <1>3, <1>4

\* An admitted call takes a token of its own bucket.
LEMMA AdmissionKeeps ==
  ASSUME DoorInv, rate > 0, NEW key, NEW call, call.key = key, call.at = clock,
         TokensOf(key) >= 1, UNCHANGED <<rate, clock>>,
         buckets' = {b \in Pruned(key) : b.key # key}
                    \cup {[key |-> key, tokens |-> TokensOf(key) - 1, last |-> clock]},
         past' = past \cup {call}
  PROVE  DoorInv'
  <1> DEFINE tokens == TokensOf(key)
             new == [key |-> key, tokens |-> tokens - 1, last |-> clock]
             rest == {b \in Pruned(key) : b.key # key}
  <1>1. rate \in Int /\ clock \in Nat /\ IsFiniteSet(past) /\ rate \in Rates
        /\ BucketsInv(buckets, clock) /\ BudgetInv(buckets, clock, past)
    BY RateTyped DEF DoorInv
  <1>2. tokens = TokensAt(buckets, clock, key)
    BY DEF TokensOf, TokensAt
  <1>3. tokens \in Int /\ tokens <= rate /\ tokens - 1 \in Nat
    BY <1>1, <1>2, TokensTyped
  <1>4. /\ BucketsInv(Pruned(key), clock)
        /\ \A k : TokensAt(Pruned(key), clock, k) = TokensAt(buckets, clock, k)
    BY PruningKeepsTokens
  <1>5. new.key = key /\ new.tokens = tokens - 1 /\ new.last = clock
    OBVIOUS
  <1>6. buckets' = rest \cup {new}
    OBVIOUS
  <1> HIDE DEF tokens, new
  <1>7. BucketsInv(buckets', clock)
    BY <1>1, <1>3, <1>4, <1>5, <1>6 DEF BucketsInv
  <1>8. TokensAt(buckets', clock, key) = tokens - 1
    <2>1. TokensAt(buckets', clock, new.key) = IF new.tokens + (clock - new.last) < rate
                                               THEN new.tokens + (clock - new.last) ELSE rate
      BY <1>6, <1>7, TokensOfOne
    <2> QED
      BY <1>1, <1>3, <1>5, <2>1
  <1>9. ASSUME NEW k, k # key
        PROVE  TokensAt(buckets', clock, k) = TokensAt(buckets, clock, k)
    <2>1. CASE \E b \in Pruned(key) : b.key = k
      <3>1. PICK b \in Pruned(key) : b.key = k
        BY <2>1
      <3>2. b \in buckets'
        BY <1>6, <1>9, <3>1
      <3>3. TokensAt(buckets', clock, k) = TokensAt(Pruned(key), clock, k)
        BY <1>4, <1>7, <3>1, <3>2, TokensOfOne
      <3> QED
        BY <1>4, <3>3
    <2>2. CASE \A b \in Pruned(key) : b.key # k
      <3>1. \A b \in buckets' : b.key # k
        BY <1>5, <1>6, <1>9, <2>2
      <3>2. TokensAt(Pruned(key), clock, k) = rate /\ TokensAt(buckets', clock, k) = rate
        BY <2>2, <3>1, TokensOfNone
      <3> QED
        BY <1>4, <3>2
    <2> QED
      BY <2>1, <2>2
  <1>10. IsFiniteSet(past') /\ \A z \in past' : z.at \in Nat /\ z.at <= clock
    BY <1>1, FS_AddElement DEF DoorInv
  <1>11. ASSUME NEW k, NEW a \in 0 .. clock
         PROVE  Cardinality(Within(past', k, a, clock)) + TokensAt(buckets', clock, k)
                   <= rate + (clock - a)
    <2> DEFINE n == Cardinality(Within(past, k, a, clock))
               m == Cardinality(Within(past', k, a, clock))
               t == TokensAt(buckets, clock, k)
               u == TokensAt(buckets', clock, k)
    <2>1. n + t <= rate + (clock - a)
      BY <1>1 DEF BudgetInv
    <2>2. n \in Nat /\ m \in Nat /\ t \in Int
      BY <1>1, <1>10, SpanFinite, TokensTyped
    <2>3. CASE k = key
      <3>1. Within(past', k, a, clock) = Within(past, k, a, clock) \cup {call}
        BY <1>1, <2>3 DEF Within
      <3>2. m <= n + 1
        <4>1. IsFiniteSet(Within(past, k, a, clock))
          BY <1>1, SpanFinite
        <4>2. m = n \/ m = n + 1
          BY <3>1, <4>1, FS_AddElement
        <4> HIDE DEF n, m
        <4> QED
          BY <2>2, <4>2
      <3>3. t = tokens /\ u = tokens - 1
        BY <1>2, <1>8, <2>3
      <3>4. m + u <= rate + (clock - a)
        <4> HIDE DEF n, m, t, u
        <4> QED
          BY <1>1, <1>3, <2>1, <2>2, <3>2, <3>3
      <3> QED
        BY <3>4
    <2>4. CASE k # key
      <3>1. Within(past', k, a, clock) = Within(past, k, a, clock)
        BY <2>4 DEF Within
      <3>2. m = n /\ u = t
        BY <1>9, <2>4, <3>1
      <3> QED
        BY <2>1, <3>2
    <2> QED
      BY <2>3, <2>4
  <1>12. ASSUME NEW k, NEW e \in 0 .. clock, NEW a \in 0 .. e
         PROVE  Cardinality(Within(past', k, a, e)) <= rate + (e - a)
    <2>1. CASE e = clock
      <3> DEFINE m == Cardinality(Within(past', k, a, clock))
                 u == TokensAt(buckets', clock, k)
      <3>1. a \in 0 .. clock
        BY <2>1
      <3>2. m + u <= rate + (clock - a)
        BY <1>11, <3>1
      <3>3. m \in Nat /\ u \in Int /\ u >= 0
        BY <1>1, <1>7, <1>10, SpanFinite, TokensTyped
      <3>4. m <= rate + (clock - a)
        <4> HIDE DEF m, u
        <4> QED
          BY <1>1, <3>1, <3>2, <3>3
      <3> QED
        BY <2>1, <3>4
    <2>2. CASE e # clock
      <3>1. e < clock /\ e \in Nat
        BY <1>1, <2>2
      <3>2. Within(past', k, a, e) = Within(past, k, a, e)
        BY <1>1, <3>1 DEF Within
      <3> QED
        BY <1>1, <3>2 DEF BudgetInv
    <2> QED
      BY <2>1, <2>2
  <1>13. BudgetInv(buckets', clock, past')
    BY <1>11, <1>12 DEF BudgetInv
  <1>14. rate' = rate /\ clock' = clock /\ ~(rate <= 0)
    BY <1>1
  <1>15. BucketsInv(buckets, clock)' /\ BudgetInv(buckets, clock, past)'
    <2>1. BucketsInv(buckets, clock)'
      BY <1>7, <1>14 DEF BucketsInv
    <2>2. ASSUME NEW k PROVE TokensAt(buckets, clock, k)' = TokensAt(buckets', clock, k)
      BY <1>14 DEF TokensAt
    <2>3. BudgetInv(buckets, clock, past)'
      BY <1>13, <1>14, <2>2 DEF BudgetInv, Within
    <2> QED
      BY <2>1, <2>3
  <1> QED
    BY <1>1, <1>10, <1>14, <1>15 DEF DoorInv

LEMMA LimitKeeps ==
  ASSUME DoorInv, NEW c \in Clients, Limit(c)
  PROVE  DoorInv'
  <1> DEFINE key == BucketKey(door[c])
  <1>1. rate > 0 /\ UNCHANGED <<rate, clock>>
    BY DEF Limit
  <1>2. CASE TokensOf(key) < 1
    <2>1. buckets' = Pruned(key) /\ past' = past
      BY <1>2 DEF Limit
    <2>2. /\ BucketsInv(Pruned(key), clock)
          /\ \A k : TokensAt(Pruned(key), clock, k) = TokensAt(buckets, clock, k)
      BY PruningKeepsTokens
    <2>3. BudgetInv(Pruned(key), clock, past)
      BY <1>1, <2>2 DEF DoorInv, BudgetInv
    <2> HIDE DEF key
    <2> QED
      BY <1>1, <2>1, <2>2, <2>3 DEF DoorInv, BucketsInv, BudgetInv, TokensAt
  <1>3. CASE ~(TokensOf(key) < 1)
    <2> DEFINE call == [no |-> Cardinality(past), at |-> clock, key |-> key,
                        sid |-> door[c].sid, name |-> door[c].name]
    <2>1. /\ buckets' = {b \in Pruned(key) : b.key # key}
                        \cup {[key |-> key, tokens |-> TokensOf(key) - 1, last |-> clock]}
          /\ past' = past \cup {call}
      BY <1>3 DEF Limit
    <2>2. TokensOf(key) \in Int
      <3>1. TokensOf(key) = TokensAt(buckets, clock, key)
        BY DEF TokensOf, TokensAt
      <3>2. TokensAt(buckets, clock, key) \in Int
        BY RateTyped, TokensTyped DEF DoorInv
      <3> QED
        BY <3>1, <3>2
    <2>3. TokensOf(key) >= 1
      BY <1>3, <2>2
    <2>4. call.key = key /\ call.at = clock
      OBVIOUS
    <2> HIDE DEF key, call
    <2> QED
      BY <1>1, <2>1, <2>3, <2>4, AdmissionKeeps
  <1> QED
    BY <1>2, <1>3

LEMMA DoorKept == DoorInv /\ [FrontNext]_frontVars => DoorInv'
  <1> SUFFICES ASSUME DoorInv, [FrontNext]_frontVars PROVE DoorInv'
    OBVIOUS
  <1>1. CASE UNCHANGED <<rate, clock, buckets, past>>
    BY <1>1 DEF DoorInv, BucketsInv, BudgetInv, TokensAt
  <1>2. CASE \/ ScriptsReload \/ GameBoots \/ GameDies \/ UNCHANGED frontVars
             \/ \E c \in Clients :
                  \/ CallArrives(c) \/ Unlimited(c) \/ CheckArguments(c) \/ Resolve(c)
                  \/ ToolRuns(c) \/ SessionList(c) \/ SessionRefused(c) \/ SessionGet(c)
                  \/ SessionStop(c) \/ SessionStart(c) \/ SessionWait(c) \/ ReadyPoll(c)
    BY <1>1, <1>2 DEF ScriptsReload, GameBoots, GameDies, frontVars, CallArrives, Unlimited,
       CheckArguments, Resolve, ToolRuns, SessionList, SessionRefused, SessionGet, SessionStop,
       SessionStart, SessionWait, ReadyPoll
  <1> QED
    BY <1>2, TickKeeps, LimitKeeps DEF FrontNext

(* In no span of time does a bucket admit more calls than a full one and the *)
(* tokens it regains meanwhile, at any rate and however buckets are pruned:  *)
(* a bucket idle for _BUCKET_TTL_S is full, so dropping it gives nothing.    *)
THEOREM AdmissionCorrect == FrontSpec => []AdmittedInSpan
  <1>1. DoorInv => AdmittedInSpan
    <2> SUFFICES ASSUME DoorInv, NEW x \in past, NEW y \in past, x.key = y.key, x.at <= y.at
                 PROVE  Cardinality({z \in past : z.key = x.key /\ x.at <= z.at /\ z.at <= y.at})
                           <= rate + (y.at - x.at)
      BY DEF AdmittedInSpan
    <2>1. x.at \in Nat /\ y.at \in Nat /\ y.at <= clock /\ clock \in Nat /\ rate \in Int
      BY RateTyped DEF DoorInv
    <2>2. rate > 0
      BY <2>1 DEF DoorInv
    <2>3. y.at \in 0 .. clock /\ x.at \in 0 .. y.at
      BY <2>1
    <2>4. Cardinality(Within(past, x.key, x.at, y.at)) <= rate + (y.at - x.at)
      BY <2>2, <2>3 DEF DoorInv, BudgetInv
    <2> QED
      BY <2>4 DEF Within
  <1> QED
    BY <1>1, FrontInitial, DoorKept, PTL DEF FrontSpec

-----------------------------------------------------------------------------
(* Recordings: for any names, lengths and polls *)

WithFrames == Tapes \ {0}

\* PPSSPP records from nothing.
PspSound ==
    /\ {"mode", "tape", "table", "shifted", "held", "pressed", "stick"} \subseteq DOMAIN psp
    /\ psp.tape \in Tapes

\* No file holds an empty recording.
DiskSound ==
    /\ disk = [f \in Files |-> disk[f]]
    /\ \A f \in Files : disk[f] \in {Absent, Partial} \cup WithFrames

\* A call that has a recording has a whole one, and one that was not refused
\* its look at PPSSPP found it idle or made it so.
CallSound ==
    /\ {"pc", "name", "tape", "rtc", "blind", "left", "res"} \subseteq DOMAIN play
    /\ play.pc \notin {"probe", "clear", "clock", "go"} => play.name \in Files
    /\ play.pc \in {"time", "write", "rescue"} => play.tape \in WithFrames
    /\ play.pc \in {"probe", "clear", "clock", "go"} =>
          play.name = "given" \/ play.tape \in WithFrames
    /\ play.pc \in {"clock", "go"} => play.blind \/ psp.mode = "idle"
    /\ play.pc # "idle" => play.res = "none"

PlayInv == PspSound /\ DiskSound /\ CallSound

LEMMA TapesApart ==
  /\ 0 \in Tapes /\ Absent \notin WithFrames /\ Partial \notin WithFrames /\ Absent # Partial
  /\ Absent \notin Tapes /\ Partial \notin Tapes /\ WithFrames \subseteq Tapes
  /\ \A n \in Tapes : n # 0 => n \in WithFrames
  BY PlaybackAssumption DEF Tapes, WithFrames, Absent, Partial

LEMMA PlaybackInitial == PlaybackInit => PlayInv
  BY TapesApart DEF PlaybackInit, PlayInv, PspSound, DiskSound, CallSound, NoPlay, Files

\* A call that has ended asks for nothing more.
LEMMA DoneIsSound ==
  ASSUME NEW res, PlayDone(res)
  PROVE  CallSound'
  BY DEF PlayDone, NoPlay, CallSound, Files

\* What the requests leave PPSSPP with.
LEMMA EffectsAreSound ==
  ASSUME PlayInv
  PROVE  /\ psp' = psp => PspSound'
         /\ psp' = Recording => PspSound'
         /\ psp' = Cleared => PspSound' /\ psp'.mode = "idle"
         /\ psp' = Flushed => PspSound'
         /\ psp' = Executing => PspSound'
         /\ psp' = [psp EXCEPT !.shifted = TRUE] => PspSound' /\ psp'.mode = psp.mode
  BY TapesApart DEF PlayInv, PspSound, Recording, Cleared, Flushed, Executing

LEMMA FailedKeeps ==
  ASSUME PlayInv, NEW effect, psp' = effect => PspSound', Failed(effect)
  PROVE  PlayInv'
  <1>1. psp' = psp => PspSound'
    BY EffectsAreSound
  <1>2. PspSound'
    BY <1>1 DEF Failed
  <1>3. CallSound'
    BY DoneIsSound DEF Failed
  <1> QED
    BY <1>2, <1>3 DEF Failed, PlayInv, DiskSound

LEMMA SentAndDone ==
  ASSUME PlayInv, NEW effect, psp' = effect => PspSound', Sent(effect),
         NEW res, PlayDone(res)
  PROVE  PlayInv'
  <1>1. CallSound'
    BY DoneIsSound
  <1> QED
    BY <1>1 DEF Sent, PlayInv, DiskSound

LEMMA SingleKeeps ==
  ASSUME PlayInv, NEW act, NEW effect, psp' = effect => PspSound', Single(act, effect)
  PROVE  PlayInv'
  BY FailedKeeps, SentAndDone DEF Single

\* The steps of PPSSPP and of the game, and the frame waits.
LEMMA GameKeeps ==
  ASSUME PlayInv, GamePlays \/ PressEnds \/ PlayedSessionEnds \/ WaitBegins \/ WaitChunk
  PROVE  PlayInv'
  <1>1. CASE GamePlays
    <2>1. psp.tape + 1 \in Tapes
      BY <1>1, PlaybackAssumption DEF GamePlays, PlayInv, PspSound, Tapes
    <2>2. psp.mode = "saving" /\ psp' = [psp EXCEPT !.tape = psp.tape + 1]
          /\ UNCHANGED <<disk, play>>
      BY <1>1 DEF GamePlays
    <2> QED
      BY <2>1, <2>2 DEF PlayInv, PspSound, DiskSound, CallSound
  <1>2. CASE PressEnds
    BY <1>2 DEF PressEnds, PlayInv, PspSound, DiskSound, CallSound
  <1>3. CASE PlayedSessionEnds \/ WaitBegins \/ WaitChunk
    BY <1>3 DEF PlayedSessionEnds, WaitBegins, WaitChunk, PlayInv, PspSound, DiskSound, CallSound
  <1> QED
    BY <1>1, <1>2, <1>3

LEMMA ReplayKeeps ==
  ASSUME PlayInv, NEW act, Replay(act)
  PROVE  PlayInv'
  <1>1. UNCHANGED <<psp, disk>>
    BY DEF Replay
  <1>2. CallSound'
    <2>1. CASE act \in {"begin", "abort", "flush", "status", "time_get", "time_set", "wait"}
               /\ play' = [NoPlay EXCEPT !.pc = act]
      BY <2>1 DEF NoPlay, CallSound, Files
    <2>2. CASE \E tape \in Tapes :
                  play' = [NoPlay EXCEPT !.pc = "probe", !.name = "given", !.tape = tape]
      BY <2>2 DEF NoPlay, CallSound
    <2>3. CASE \E name \in TapeNames : play' = [NoPlay EXCEPT !.pc = "take", !.name = name]
      BY <2>3 DEF NoPlay, CallSound, Files
    <2>4. CASE \E name \in Files, rtc \in BOOLEAN :
                  play' = [NoPlay EXCEPT !.pc = "read", !.name = name, !.rtc = rtc]
      BY <2>4 DEF NoPlay, CallSound
    <2>5. CASE play' = [NoPlay EXCEPT !.res = "invalid"]
      BY <2>5 DEF NoPlay, CallSound, Files
    <2> QED
      BY <2>1, <2>2, <2>3, <2>4, <2>5 DEF Replay
  <1> QED
    BY <1>1, <1>2 DEF PlayInv, PspSound, DiskSound

\* save.
LEMMA SavingKeeps ==
  ASSUME PlayInv, Take \/ TimeOfTape \/ Write \/ Rescue
  PROVE  PlayInv'
  <1>1. CASE Take
    <2>1. CASE Failed(Flushed)
      BY <2>1, EffectsAreSound, FailedKeeps
    <2>2. CASE Sent(Flushed) /\ PlayDone("REPLAY_EMPTY")
      BY <2>2, EffectsAreSound, SentAndDone
    <2>3. CASE Sent(Flushed) /\ psp.tape # 0
               /\ play' = [play EXCEPT !.tape = psp.tape, !.pc = "time"]
      <3>1. psp.tape \in WithFrames
        BY <2>3, TapesApart DEF PlayInv, PspSound
      <3>2. PspSound'
        BY <2>3, EffectsAreSound DEF Sent
      <3>3. CallSound'
        BY <1>1, <2>3, <3>1 DEF Take, At, PlayInv, CallSound
      <3> QED
        BY <2>3, <3>2, <3>3 DEF Sent, PlayInv, DiskSound
    <2> QED
      BY <1>1, <2>1, <2>2, <2>3 DEF Take
  <1>2. CASE TimeOfTape
    <2>1. CASE Failed(psp)
      BY <2>1, EffectsAreSound, FailedKeeps
    <2>2. CASE Sent(psp) /\ GoOn("write")
      BY <1>2, <2>2 DEF TimeOfTape, At, Sent, GoOn, PlayInv, PspSound, DiskSound, CallSound
    <2> QED
      BY <1>2, <2>1, <2>2 DEF TimeOfTape
  <1>3. CASE Write \/ Rescue
    <2>1. play.tape \in WithFrames /\ play.name \in Files /\ "rescue" \in Files
      BY <1>3 DEF Write, Rescue, At, PlayInv, CallSound, Files
    <2>2. PspSound'
      BY <1>3 DEF Write, Rescue, PlayInv, PspSound
    <2>3. CallSound'
      <3>1. CASE \E res : PlayDone(res)
        BY <3>1, DoneIsSound
      <3>2. CASE Write /\ GoOn("rescue")
        BY <3>2, <2>1 DEF Write, At, GoOn, PlayInv, CallSound
      <3> QED
        BY <1>3, <3>1, <3>2 DEF Write, Rescue
    <2>4. DiskSound'
      <3>1. \E f \in Files, v \in {Absent, Partial} \cup WithFrames : disk' = [disk EXCEPT ![f] = v]
        BY <1>3, <2>1 DEF Write, Rescue, PlayInv, DiskSound
      <3> QED
        BY <3>1 DEF PlayInv, DiskSound
    <2> QED
      BY <2>2, <2>3, <2>4 DEF PlayInv
  <1> QED
    BY <1>1, <1>2, <1>3

\* execute and load.
LEMMA LoadingKeeps ==
  ASSUME PlayInv, Read \/ ProbeIdle \/ Clear \/ Clock \/ Execute
  PROVE  PlayInv'
  <1>1. CASE Read
    <2>1. CASE disk[play.name] \in Tapes
               /\ play' = [play EXCEPT !.tape = disk[play.name], !.pc = "probe"]
      <3>1. disk[play.name] \in WithFrames
        BY <1>1, <2>1, TapesApart DEF Read, At, PlayInv, DiskSound, CallSound
      <3> QED
        BY <1>1, <2>1, <3>1 DEF Read, At, PlayInv, PspSound, DiskSound, CallSound
    <2>2. CASE PlayDone("invalid")
      BY <1>1, <2>2, DoneIsSound DEF Read, PlayInv, PspSound, DiskSound
    <2> QED
      BY <1>1, <2>1, <2>2 DEF Read
  <1>2. CASE ProbeIdle
    BY <1>2 DEF ProbeIdle, At, GoOn, PlayInv, PspSound, DiskSound, CallSound
  <1>3. CASE Clear
    <2>1. CASE Failed(Cleared)
      BY <2>1, EffectsAreSound, FailedKeeps
    <2>2. CASE Sent(Cleared) /\ GoOn("clock")
      <3>1. PspSound' /\ psp'.mode = "idle"
        BY <2>2, EffectsAreSound DEF Sent
      <3> QED
        BY <1>3, <2>2, <3>1 DEF Clear, Sent, At, GoOn, PlayInv, DiskSound, CallSound
    <2> QED
      BY <1>3, <2>1, <2>2 DEF Clear
  <1>4. CASE Clock
    <2> DEFINE moved == [psp EXCEPT !.shifted = TRUE]
    <2>1. CASE Failed(moved)
      BY <2>1, EffectsAreSound, FailedKeeps
    <2>2. CASE Sent(moved) /\ GoOn("go")
      <3>1. PspSound' /\ psp'.mode = psp.mode
        BY <2>2, EffectsAreSound DEF Sent
      <3> QED
        BY <1>4, <2>2, <3>1 DEF Clock, Sent, At, GoOn, PlayInv, DiskSound, CallSound
    <2>3. CASE GoOn("go") /\ UNCHANGED <<psp, disk>>
      BY <1>4, <2>3 DEF Clock, At, GoOn, PlayInv, PspSound, DiskSound, CallSound
    <2> QED
      BY <1>4, <2>1, <2>2, <2>3 DEF Clock
  <1>5. CASE Execute
    BY <1>5, EffectsAreSound, FailedKeeps, SentAndDone DEF Execute
  <1> QED
    BY <1>1, <1>2, <1>3, <1>4, <1>5

\* The write in a cancelled call's thread goes on.
LEMMA WaitingKeeps ==
  ASSUME PlayInv, PollStatus \/ PollTimesOut \/ PlayCancelled
  PROVE  PlayInv'
  <1>1. CASE PollStatus
    <2>1. CASE \E res : PlayDone(res)
      BY <1>1, <2>1, DoneIsSound DEF PollStatus, PlayInv, PspSound, DiskSound
    <2>2. CASE play' = [play EXCEPT !.left = @ + 1]
      BY <1>1, <2>2 DEF PollStatus, At, PlayInv, PspSound, DiskSound, CallSound
    <2> QED
      BY <1>1, <2>1, <2>2 DEF PollStatus
  <1>2. CASE PollTimesOut
    BY <1>2, DoneIsSound DEF PollTimesOut, PlayInv, PspSound, DiskSound
  <1>3. CASE PlayCancelled
    <2>1. CallSound' /\ UNCHANGED psp
      BY <1>3, DoneIsSound DEF PlayCancelled
    <2>2. \/ disk' = disk
          \/ \E left \in {Partial} \cup WithFrames, f \in Files : disk' = [disk EXCEPT ![f] = left]
      BY <1>3 DEF PlayCancelled, At, PlayInv, CallSound, Files
    <2>3. DiskSound'
      BY <2>2 DEF PlayInv, DiskSound
    <2> QED
      BY <2>1, <2>3 DEF PlayInv, PspSound
  <1> QED
    BY <1>1, <1>2, <1>3

LEMMA InputKeeps ==
  ASSUME PlayInv, NEW effect, psp' = effect => PspSound', Input(effect)
  PROVE  PlayInv'
  <1>1. psp' = psp => PspSound'
    BY EffectsAreSound
  <1>2. PspSound' /\ UNCHANGED disk
    BY <1>1 DEF Input
  <1>3. CallSound'
    BY DEF Input, NoPlay, CallSound, Files
  <1> QED
    BY <1>2, <1>3 DEF PlayInv, DiskSound

LEMMA PlayKept == PlayInv /\ [PlaybackNext]_playVars => PlayInv'
  <1> SUFFICES ASSUME PlayInv, [PlaybackNext]_playVars PROVE PlayInv'
    OBVIOUS
  <1>1. CASE UNCHANGED playVars
    BY <1>1 DEF playVars, PlayInv, PspSound, DiskSound, CallSound
  <1>2. CASE OneRequest
    BY <1>2, EffectsAreSound, SingleKeeps DEF OneRequest
  <1>3. CASE \E b \in Buttons : Press(b)
    <2>1. PICK b \in Buttons : Press(b)
      BY <1>3
    <2> DEFINE effect == [psp EXCEPT !.held = @ \cup {b}, !.pressed = {b}]
    <2>2. psp' = effect => PspSound'
      BY DEF PlayInv, PspSound
    <2> QED
      BY <2>1, <2>2, InputKeeps DEF Press
  <1>4. CASE \E S \in SUBSET Buttons : Hold(S)
    <2>1. PICK S \in SUBSET Buttons : Hold(S)
      BY <1>4
    <2> DEFINE effect == [psp EXCEPT !.held = IF S = {} THEN {} ELSE @ \cup S]
    <2>2. psp' = effect => PspSound'
      BY DEF PlayInv, PspSound
    <2> QED
      BY <2>1, <2>2, InputKeeps DEF Hold
  <1>5. CASE \E x \in Sticks : Analog(x)
    <2>1. PICK x \in Sticks : Analog(x)
      BY <1>5
    <2> DEFINE effect == [psp EXCEPT !.stick = x - 128]
    <2>2. psp' = effect => PspSound'
      BY DEF PlayInv, PspSound
    <2> QED
      BY <2>1, <2>2, InputKeeps DEF Analog
  <1> QED
    BY <1>1, <1>2, <1>3, <1>4, <1>5, GameKeeps, ReplayKeeps, SavingKeeps, LoadingKeeps,
       WaitingKeeps DEF PlaybackNext

\* Only the last request of execute and load, and the requests that empty it,
\* change PPSSPP's table; only a poll says that an execution ended.
LEMMA TablesAndVerdicts ==
  ASSUME PlayInv, PlaybackNext
  PROVE  /\ At("go") /\ psp'.table # psp.table => psp.mode = "idle" \/ play.blind
         /\ At("wait") /\ play'.res = "done" => psp.mode # "executing"
  <1>1. At("go") => psp.mode = "idle" \/ play.blind
    BY DEF At, PlayInv, CallSound
  <1>2. ASSUME At("wait"), play'.res = "done" PROVE psp.mode # "executing"
    <2>1. play.pc = "wait" /\ play.res = "none"
      BY <1>2 DEF At, PlayInv, CallSound
    <2>2. CASE PollStatus
      BY <1>2, <2>1, <2>2 DEF PollStatus, PlayDone, NoPlay, PlayInv, CallSound
    <2>3. CASE PollTimesOut \/ PlayCancelled
      BY <1>2, <2>3 DEF PollTimesOut, PlayCancelled, PlayDone, NoPlay
    <2>4. CASE UNCHANGED play
      BY <1>2, <2>1, <2>4
    <2>5. play' = play \/ PollStatus \/ PollTimesOut \/ PlayCancelled
      BY <2>1 DEF PlaybackNext, GamePlays, PressEnds, PlayedSessionEnds, Replay, OneRequest,
         Single, Take, TimeOfTape, Write, Rescue, Read, ProbeIdle, Clear, Clock, Execute,
         Press, Hold, Analog, Input, WaitBegins, WaitChunk, At
    <2> QED
      BY <2>2, <2>3, <2>4, <2>5
  <1> QED
    BY <1>1, <1>2

(* Whatever a save, a write or a load fails at, and wherever its client       *)
(* gives up, what a load gives PPSSPP is a recording with frames, no table is *)
(* put on top of another, and an execution is over when wait_complete says so. *)
THEOREM PlaybackCorrect == PlaybackSpec => PlaybackIsClean
  <1>1. PlayInv => PlayedHasFrames
    BY DEF PlayInv, CallSound, PlayedHasFrames, At, WithFrames
  <1>2. PlayInv /\ [PlaybackNext]_playVars =>
          /\ [At("go") /\ psp'.table # psp.table => psp.mode = "idle" \/ play.blind]_playVars
          /\ [At("wait") /\ play'.res = "done" => psp.mode # "executing"]_playVars
    BY TablesAndVerdicts
  <1> QED
    BY <1>1, <1>2, PlaybackInitial, PlayKept, PTL
    DEF PlaybackSpec, PlaybackIsClean, TablesDoNotMix, WaitIsHonest

-----------------------------------------------------------------------------
(* Scripts and their tools *)

SyncType == [pc : {"idle", "next", "import", "add"}, desired : SUBSET Scripts,
             current : SUBSET Scripts, todo : SUBSET Scripts, name : Scripts \cup {"none"},
             ver : Nat, failed : SUBSET Scripts, added : SUBSET Scripts, alone : BOOLEAN,
             res : {"none", "ok", "cancelled", "MANIFEST_ERROR"}]
RunType == [pc : {"idle", "load", "exec", "body"}, name : Scripts \cup {"none"}, stamp : Nat,
            ver : Nat, res : {"none", "ok", "cancelled", "MANIFEST_ERROR", "SCRIPT_NOT_FOUND",
                              "SCRIPT_CONTRACT_ERROR", "SESSION_NOT_FOUND"}]

CodeType == [ver : Nat \ {0}, ok : BOOLEAN, look : Nat \ {0}]
BytesType == [ver : Nat, ok : BOOLEAN, look : Nat]

ScriptType ==
    /\ sync \in [Syncs -> SyncType] /\ running \in RunType /\ registry \subseteq Scripts
    /\ tools \in [Scripts -> Nat]
    /\ code \in [Scripts -> CodeType] /\ pyc \in [Scripts -> BytesType]
    /\ cache \in [Scripts -> [stamp : Nat, ver : Nat]]

\* The book of the exposed tools.
Booked == \A n \in Scripts : n \in registry <=> tools[n] # 0

\* A reconciliation under way has a script in hand, and no outcome yet.
InHand ==
    \A r \in Syncs :
        /\ sync[r].pc # "idle" => sync[r].res = "none"
        /\ sync[r].pc \in {"import", "add"} => sync[r].name \in Scripts
        /\ sync[r].pc = "add" => sync[r].ver # 0

\* Bytecode is no older than the look of its file, nor is a module that is cached
\* under the stamp of its file as it is.
Aged ==
    \A n \in Scripts :
        /\ code[n].ver >= code[n].look /\ pyc[n].ver >= pyc[n].look
        /\ code[n].ver >= cache[n].stamp
        /\ cache[n].stamp = code[n].ver => cache[n].ver >= code[n].look

\* The call under way knows its script, and a stamp that the file had.
Fresh ==
    /\ running.pc \in {"load", "exec"} => running.name \in Scripts
    /\ running.pc = "exec" => running.stamp # 0 /\ code[running.name].ver >= running.stamp

\* Where a script stands in a reconciliation: what it wanted and was not there
\* is to do, in hand, added or failed, and only that.
Stands(s, n, book) ==
    LET hand == s.pc \in {"import", "add"} /\ n = s.name IN
    /\ n \in book <=> n \in s.current \/ n \in s.added
    /\ n \in s.desired /\ n \notin s.current
          <=> n \in s.todo \/ n \in s.added \/ n \in s.failed \/ hand
    /\ ~(n \in s.added /\ n \in s.failed)
    /\ n \in s.todo => n \notin s.added /\ n \notin s.failed
    /\ hand => n \notin s.added /\ n \notin s.failed /\ n \notin s.todo

\* No other reconciliation runs beside a lone one.
Lone ==
    \A r \in Syncs :
        sync[r].alone /\ sync[r].pc # "idle" =>
            /\ \A q \in Syncs : q # r => sync[q].pc = "idle"
            /\ \A n \in Scripts : Stands(sync[r], n, registry)

ScriptInv == ScriptType /\ Booked /\ InHand /\ Aged /\ Fresh /\ Lone

LEMMA ScriptsStart ==
  ASSUME ScriptInit
  PROVE  ScriptInv
  <1>1. NoSync \in SyncType /\ NoRun \in RunType
    BY DEF NoSync, SyncType, NoRun, RunType
  <1>2. ScriptType
    BY <1>1 DEF ScriptInit, ScriptType, NoModule, NoCode, CodeType, BytesType
  <1>3. Booked /\ InHand /\ Lone
    BY DEF ScriptInit, Booked, InHand, Lone, NoSync
  <1>4. Aged /\ Fresh
    BY DEF ScriptInit, Aged, Fresh, NoModule, NoCode, NoRun
  <1> QED
    BY <1>2, <1>3, <1>4 DEF ScriptInv

\* A reconciliation that begins.
LEMMA SnapshotIs ==
  ASSUME ScriptInv, NEW kinds, NEW r \in Syncs, sync[r].pc = "idle"
  PROVE  LET s == Snapshot(kinds) IN
         /\ s \in SyncType /\ s.pc = "next" /\ s.res = "none"
         /\ s.alone => \A q \in Syncs : sync[q].pc = "idle"
         /\ \A n \in Scripts : Stands(s, n, registry)
  <1> DEFINE s == Snapshot(kinds)
             desired == {n \in Scripts : kinds[n] = "exposed"}
             lone == \A q \in Syncs : sync[q].pc = "idle"
  <1>1. s = [NoSync EXCEPT !.pc = "next", !.desired = desired, !.current = registry,
                           !.todo = desired \ registry, !.alone = lone]
    BY DEF Snapshot
  <1>2. desired \subseteq Scripts /\ lone \in BOOLEAN /\ registry \subseteq Scripts
    BY DEF ScriptInv, ScriptType
  <1> HIDE DEF desired, lone, s
  <1>3. /\ s.pc = "next" /\ s.desired = desired /\ s.current = registry
        /\ s.todo = desired \ registry /\ s.failed = {} /\ s.added = {} /\ s.res = "none"
        /\ s.alone = lone
    BY <1>1 DEF NoSync
  <1>4. s \in SyncType
    BY <1>1, <1>2 DEF NoSync, SyncType
  <1>5. \A n \in Scripts : Stands(s, n, registry)
    BY <1>3 DEF Stands
  <1>6. s.alone => \A q \in Syncs : sync[q].pc = "idle"
    BY <1>3 DEF lone
  <1> QED
    BY <1>3, <1>4, <1>5, <1>6 DEF s

LEMMA BeginKeeps ==
  ASSUME ScriptInv, NEW kinds, NEW r \in Syncs, sync[r].pc = "idle",
         Begin(r, Snapshot(kinds)), UNCHANGED registry
  PROVE  sync' \in [Syncs -> SyncType] /\ InHand' /\ Lone'
  <1> DEFINE s == Snapshot(kinds)
  <1>1. /\ s \in SyncType /\ s.pc = "next" /\ s.res = "none"
        /\ s.alone => \A q \in Syncs : sync[q].pc = "idle"
        /\ \A n \in Scripts : Stands(s, n, registry)
    BY SnapshotIs
  <1>2. /\ DOMAIN sync' = Syncs /\ sync'[r] = s
        /\ \A q \in Syncs : q # r => sync'[q] = [sync[q] EXCEPT !.alone = FALSE]
    BY DEF Begin
  <1> HIDE DEF s
  <1>3. \A q \in Syncs : sync[q] \in SyncType
    BY DEF ScriptInv, ScriptType
  <1>4. ASSUME NEW q \in Syncs, q # r
        PROVE  /\ sync'[q] \in SyncType /\ sync'[q].pc = sync[q].pc /\ sync'[q].res = sync[q].res
               /\ sync'[q].name = sync[q].name /\ sync'[q].ver = sync[q].ver
               /\ sync'[q].alone = FALSE
    <2>1. sync'[q] = [sync[q] EXCEPT !.alone = FALSE] /\ sync[q] \in SyncType
      BY <1>2, <1>3, <1>4
    <2> QED
      BY <2>1 DEF SyncType
  <1>5. sync' \in [Syncs -> SyncType]
    <2>1. \A q \in Syncs : sync'[q] \in SyncType
      BY <1>1, <1>2, <1>4
    <2>2. sync' = [q \in Syncs |-> sync'[q]]
      BY DEF Begin
    <2> QED
      BY <2>1, <2>2, Zenon
  <1>6. InHand'
    <2> SUFFICES ASSUME NEW q \in Syncs
                 PROVE  /\ sync'[q].pc # "idle" => sync'[q].res = "none"
                        /\ sync'[q].pc \in {"import", "add"} => sync'[q].name \in Scripts
                        /\ sync'[q].pc = "add" => sync'[q].ver # 0
      BY DEF InHand
    <2>1. CASE q = r
      BY <1>1, <1>2, <2>1
    <2>2. CASE q # r
      BY <1>4, <2>2 DEF ScriptInv, InHand
    <2> QED
      BY <2>1, <2>2
  <1>7. Lone'
    <2> SUFFICES ASSUME NEW q \in Syncs, sync'[q].alone, sync'[q].pc # "idle"
                 PROVE  /\ \A p \in Syncs : p # q => sync'[p].pc = "idle"
                        /\ \A n \in Scripts : Stands(sync'[q], n, registry')
      BY DEF Lone
    <2>1. q = r
      BY <1>4
    <2>2. \A p \in Syncs : p # q => sync'[p].pc = "idle"
      <3>1. s.alone
        BY <1>2, <2>1
      <3>2. \A p \in Syncs : sync[p].pc = "idle"
        BY <1>1, <3>1
      <3> QED
        BY <1>4, <2>1, <3>2
    <2>3. ASSUME NEW n \in Scripts PROVE Stands(sync'[q], n, registry')
      <3>1. Stands(s, n, registry) /\ sync'[q] = s
        BY <1>1, <1>2, <2>1
      <3> QED
        BY <3>1 DEF Stands
    <2> QED
      BY <2>2, <2>3
  <1> QED
    BY <1>5, <1>6, <1>7

\* One reconciliation moves, or ends.
LEMMA MovesKeeps ==
  ASSUME ScriptInv, NEW r \in Syncs, NEW s \in SyncType, SetSync(r, s),
         s.pc # "idle" => s.res = "none" /\ sync[r].pc # "idle",
         s.pc \in {"import", "add"} => s.name \in Scripts,
         s.pc = "add" => s.ver # 0,
         s.pc # "idle" /\ s.alone =>
            sync[r].alone /\ \A n \in Scripts : Stands(s, n, registry'),
         sync[r].pc = "idle" => registry' = registry
  PROVE  sync' \in [Syncs -> SyncType] /\ InHand' /\ Lone'
  <1>1. sync \in [Syncs -> SyncType]
    BY DEF ScriptInv, ScriptType
  <1>2. sync' \in [Syncs -> SyncType] /\ sync'[r] = s
        /\ \A q \in Syncs : q # r => sync'[q] = sync[q]
    BY <1>1 DEF SetSync
  <1>3. InHand'
    <2> SUFFICES ASSUME NEW q \in Syncs
                 PROVE  /\ sync'[q].pc # "idle" => sync'[q].res = "none"
                        /\ sync'[q].pc \in {"import", "add"} => sync'[q].name \in Scripts
                        /\ sync'[q].pc = "add" => sync'[q].ver # 0
      BY DEF InHand
    <2>1. CASE q = r
      BY <1>2, <2>1
    <2>2. CASE q # r
      BY <1>2, <2>2 DEF ScriptInv, InHand
    <2> QED
      BY <2>1, <2>2
  <1>4. Lone'
    <2> SUFFICES ASSUME NEW q \in Syncs, sync'[q].alone, sync'[q].pc # "idle"
                 PROVE  /\ \A p \in Syncs : p # q => sync'[p].pc = "idle"
                        /\ \A n \in Scripts : Stands(sync'[q], n, registry')
      BY DEF Lone
    <2>1. CASE q = r
      <3>1. sync[r].alone /\ sync[r].pc # "idle" /\ \A n \in Scripts : Stands(s, n, registry')
        BY <1>2, <2>1
      <3>2. \A p \in Syncs : p # r => sync[p].pc = "idle"
        BY <3>1 DEF ScriptInv, Lone
      <3> QED
        BY <1>2, <2>1, <3>1, <3>2
    <2>2. CASE q # r
      <3>1. sync'[q] = sync[q]
        BY <1>2, <2>2
      <3>2. /\ \A p \in Syncs : p # q => sync[p].pc = "idle"
            /\ \A n \in Scripts : Stands(sync[q], n, registry)
        BY <3>1 DEF ScriptInv, Lone
      <3>3. sync[r].pc = "idle" /\ s.pc = "idle" /\ registry' = registry
        BY <2>2, <3>2
      <3> QED
        BY <1>2, <2>2, <3>1, <3>2, <3>3
    <2> QED
      BY <2>1, <2>2
  <1> QED
    BY <1>2, <1>3, <1>4

\* What an import finds to run: the file, or bytecode that looks like it.
LEMMA FoundIsRecent ==
  ASSUME ScriptInv, NEW n \in Scripts
  PROVE  Found(n) \in BytesType /\ Found(n).ver >= code[n].look /\ Found(n).ver # 0
         /\ Found(n).ver >= Found(n).look
  <1>1. /\ code[n] \in CodeType /\ pyc[n] \in BytesType
        /\ code[n].ver >= code[n].look /\ pyc[n].ver >= pyc[n].look
    BY DEF ScriptInv, ScriptType, Aged
  <1>2. CASE Found(n) = code[n]
    BY <1>1, <1>2 DEF CodeType, BytesType
  <1>3. CASE Found(n) = pyc[n] /\ pyc[n].look = code[n].look
    BY <1>1, <1>3 DEF CodeType, BytesType
  <1> QED
    BY <1>2, <1>3 DEF Found

\* What an import leaves behind: bytecode, and a module under the stamp.
LEMMA ModuleIsExecuted ==
  ASSUME ScriptInv, NEW n \in Scripts, NEW stamp \in Nat, code[n].ver >= stamp,
         ExecModule(n, stamp), UNCHANGED code
  PROVE  /\ pyc' \in [Scripts -> BytesType] /\ cache' \in [Scripts -> [stamp : Nat, ver : Nat]]
         /\ Aged'
  <1> DEFINE f == Found(n)
             v == f.ver
  <1>1. f \in BytesType /\ v \in Nat /\ v >= code[n].look /\ v >= f.look
    BY FoundIsRecent DEF BytesType
  <1>2. pyc \in [Scripts -> BytesType] /\ cache \in [Scripts -> [stamp : Nat, ver : Nat]]
    BY DEF ScriptInv, ScriptType
  <1>3. pyc' = pyc \/ pyc' = [pyc EXCEPT ![n] = f]
    BY DEF ExecModule
  <1>4. cache' = cache \/ cache' = [cache EXCEPT ![n] = [stamp |-> stamp, ver |-> v]]
    BY DEF ExecModule
  <1>h. v = f.ver
    OBVIOUS
  <1> HIDE DEF f, v
  <1>5. pyc' \in [Scripts -> BytesType] /\ \A m \in Scripts : pyc'[m] \in {pyc[m], f}
    BY <1>1, <1>2, <1>3
  <1>6. cache' \in [Scripts -> [stamp : Nat, ver : Nat]]
        /\ \A m \in Scripts :
             \/ cache'[m] = cache[m]
             \/ m = n /\ cache'[m] = [stamp |-> stamp, ver |-> v]
    BY <1>1, <1>2, <1>4
  <1>7. ASSUME NEW m \in Scripts
        PROVE  /\ code'[m].ver >= code'[m].look /\ pyc'[m].ver >= pyc'[m].look
               /\ code'[m].ver >= cache'[m].stamp
               /\ cache'[m].stamp = code'[m].ver => cache'[m].ver >= code'[m].look
    <2>1. /\ code[m].ver >= code[m].look /\ pyc[m].ver >= pyc[m].look
          /\ code[m].ver >= cache[m].stamp
          /\ cache[m].stamp = code[m].ver => cache[m].ver >= code[m].look
      BY DEF ScriptInv, Aged
    <2>2. pyc'[m].ver >= pyc'[m].look
      BY <1>1, <1>5, <1>h, <2>1
    <2>3. CASE cache'[m] = cache[m]
      BY <2>1, <2>2, <2>3
    <2>4. CASE m = n /\ cache'[m] = [stamp |-> stamp, ver |-> v]
      BY <1>1, <2>1, <2>2, <2>4
    <2> QED
      BY <1>6, <2>3, <2>4
  <1> QED
    BY <1>5, <1>6, <1>7 DEF Aged

LEMMA EditsKeep ==
  ASSUME ScriptInv, EditManifest \/ EditScript \/ ListScripts \/ Shutdown
  PROVE  ScriptInv'
  <1>1. CASE UNCHANGED <<code, pyc, cache, registry, tools, sync, running>>
    BY <1>1 DEF ScriptInv, ScriptType, Booked, InHand, Aged, Fresh, Lone
  <1>2. CASE EditScript
    <2>1. PICK n \in Scripts, ok \in BOOLEAN, alike \in BOOLEAN :
            code' = [code EXCEPT ![n] = [ver |-> @.ver + 1, ok |-> ok,
                                         look |-> IF alike THEN @.look ELSE @.ver + 1]]
      BY <1>2 DEF EditScript
    <2>2. UNCHANGED <<pyc, cache, registry, tools, sync, running>>
      BY <1>2 DEF EditScript
    <2>3. code \in [Scripts -> CodeType]
      BY DEF ScriptInv, ScriptType
    <2> DEFINE look == IF alike THEN code[n].look ELSE code[n].ver + 1
               new == [ver |-> code[n].ver + 1, ok |-> ok, look |-> look]
    <2>4. new \in CodeType /\ new.ver = code[n].ver + 1 /\ new.ver >= new.look
      <3>1. code[n] \in CodeType /\ code[n].ver >= code[n].look
        BY <2>3 DEF ScriptInv, Aged
      <3>2. /\ look \in Nat \ {0} /\ code[n].ver + 1 \in Nat \ {0}
            /\ code[n].ver + 1 >= look
        BY <3>1 DEF CodeType
      <3> HIDE DEF look
      <3> QED
        BY <3>2 DEF CodeType
    <2>5. code' = [code EXCEPT ![n] = new]
      BY <2>1
    <2> HIDE DEF new, look
    <2>6. code' \in [Scripts -> CodeType]
      BY <2>3, <2>4, <2>5
    <2>7. \A m \in Scripts : \/ code'[m] = code[m]
                             \/ code'[m] = new /\ code'[m].ver = code[m].ver + 1
      BY <2>3, <2>4, <2>5
    <2>8. ScriptType' /\ Booked' /\ InHand' /\ Lone'
      BY <2>2, <2>6 DEF ScriptInv, ScriptType, Booked, InHand, Lone
    <2>9. Aged'
      <3> SUFFICES ASSUME NEW m \in Scripts
                   PROVE  /\ code'[m].ver >= code'[m].look /\ pyc[m].ver >= pyc[m].look
                          /\ code'[m].ver >= cache[m].stamp
                          /\ cache[m].stamp = code'[m].ver => cache[m].ver >= code'[m].look
        BY <2>2 DEF Aged
      <3>1. /\ code[m].ver >= code[m].look /\ pyc[m].ver >= pyc[m].look
            /\ code[m].ver >= cache[m].stamp
            /\ cache[m].stamp = code[m].ver => cache[m].ver >= code[m].look
        BY DEF ScriptInv, Aged
      <3>2. code[m].ver \in Nat /\ cache[m].stamp \in Nat
        BY <2>3 DEF ScriptInv, ScriptType, CodeType
      <3>3. CASE code'[m] = code[m]
        BY <3>1, <3>3
      <3>4. CASE code'[m] = new /\ code'[m].ver = code[m].ver + 1
        BY <2>4, <3>1, <3>2, <3>4
      <3> QED
        BY <2>7, <3>3, <3>4
    <2>10. Fresh'
      <3>1. running.pc = "exec" => code'[running.name].ver >= running.stamp
        <4> SUFFICES ASSUME running.pc = "exec" PROVE code'[running.name].ver >= running.stamp
          OBVIOUS
        <4>1. running.name \in Scripts /\ code[running.name].ver >= running.stamp
          BY DEF ScriptInv, Fresh
        <4>2. running.stamp \in Nat /\ code[running.name].ver \in Nat
          BY <2>3, <4>1 DEF ScriptInv, ScriptType, RunType, CodeType
        <4>3. code'[running.name].ver \in {code[running.name].ver, code[running.name].ver + 1}
          BY <2>7, <4>1
        <4> QED
          BY <4>1, <4>2, <4>3
      <3> QED
        BY <2>2, <3>1 DEF ScriptInv, Fresh
    <2> QED
      BY <2>2, <2>8, <2>9, <2>10 DEF ScriptInv
  <1> QED
    BY <1>1, <1>2 DEF EditManifest, ListScripts, Shutdown

LEMMA LifespanKeeps ==
  ASSUME ScriptInv, Lifespan
  PROVE  ScriptInv'
  <1>1. UNCHANGED <<code, pyc, cache, registry, tools, running>>
        /\ sync["start"].pc = "idle" /\ "start" \in Syncs
    BY ScriptAssumption DEF Lifespan, SyncAt, Syncs
  <1>2. CASE UNCHANGED sync
    BY <1>1, <1>2 DEF ScriptInv, ScriptType, Booked, InHand, Aged, Fresh, Lone
  <1>3. CASE Begin("start", Snapshot(yaml_.text))
    <2>1. sync' \in [Syncs -> SyncType] /\ InHand' /\ Lone'
      BY <1>1, <1>3, BeginKeeps
    <2>2. ScriptType' /\ Booked' /\ Aged' /\ Fresh'
      BY <1>1, <2>1 DEF ScriptInv, ScriptType, Booked, Aged, Fresh
    <2> QED
      BY <2>1, <2>2 DEF ScriptInv
  <1> QED
    BY <1>2, <1>3 DEF Lifespan

\* A reload forgets every module.
LEMMA ReloadKeeps ==
  ASSUME ScriptInv, NEW r \in Syncs, Reload(r)
  PROVE  ScriptInv'
  <1>1. UNCHANGED <<code, pyc, registry, tools, running>> /\ sync[r].pc = "idle"
        /\ cache' = [n \in Scripts |-> NoModule]
    BY DEF Reload, SyncAt
  <1>2. sync' \in [Syncs -> SyncType] /\ InHand' /\ Lone'
    <2>1. CASE SetSync(r, [NoSync EXCEPT !.res = "MANIFEST_ERROR"])
      <3> DEFINE s == [NoSync EXCEPT !.res = "MANIFEST_ERROR"]
      <3>1. s \in SyncType /\ s.pc = "idle"
        BY DEF NoSync, SyncType
      <3> HIDE DEF s
      <3>2. SetSync(r, s)
        BY <2>1 DEF s
      <3> QED
        BY <1>1, <3>1, <3>2, MovesKeeps
    <2>2. CASE Begin(r, Snapshot(yaml_.text))
      BY <1>1, <2>2, BeginKeeps
    <2> QED
      BY <2>1, <2>2 DEF Reload
  <1>3. cache' \in [Scripts -> [stamp : Nat, ver : Nat]] /\ Aged'
    <2> SUFFICES ASSUME NEW n \in Scripts
                 PROVE  /\ cache'[n] \in [stamp : Nat, ver : Nat]
                        /\ code'[n].ver >= code'[n].look /\ pyc'[n].ver >= pyc'[n].look
                        /\ code'[n].ver >= cache'[n].stamp
                        /\ cache'[n].stamp = code'[n].ver => cache'[n].ver >= code'[n].look
      BY <1>1 DEF Aged
    <2>1. code[n] \in CodeType /\ cache'[n] = [stamp |-> 0, ver |-> 0]
      BY <1>1 DEF ScriptInv, ScriptType, NoModule
    <2> QED
      BY <1>1, <2>1 DEF ScriptInv, Aged, CodeType
  <1>4. ScriptType' /\ Booked' /\ Aged' /\ Fresh'
    BY <1>1, <1>2, <1>3 DEF ScriptInv, ScriptType, Booked, Aged, Fresh
  <1> QED
    BY <1>2, <1>4 DEF ScriptInv

LEMMA PreflightKeeps ==
  ASSUME ScriptInv, NEW r \in Syncs, Preflight(r)
  PROVE  ScriptInv'
  <1>1. PICK n \in sync[r].todo :
          SetSync(r, IF n \in registry
                     THEN [sync[r] EXCEPT !.todo = @ \ {n}, !.added = @ \cup {n}]
                     ELSE [sync[r] EXCEPT !.todo = @ \ {n}, !.name = n, !.pc = "import"])
    BY DEF Preflight
  <1>2. UNCHANGED <<code, pyc, cache, registry, tools, running>> /\ sync[r].pc = "next"
        /\ sync[r] \in SyncType
    BY DEF Preflight, SyncAt, ScriptInv, ScriptType
  <1> DEFINE o == sync[r]
  <1>3. o.res = "none" /\ n \in Scripts /\ (o.alone => \A m \in Scripts : Stands(o, m, registry))
    BY <1>1, <1>2 DEF ScriptInv, InHand, Lone, SyncType
  <1> HIDE DEF o
  <1>4. o \in SyncType /\ o.pc = "next" /\ n \in o.todo
    BY <1>1, <1>2 DEF o
  <1>5. sync' \in [Syncs -> SyncType] /\ InHand' /\ Lone'
    <2>1. CASE n \in registry
      <3> DEFINE s == [o EXCEPT !.todo = @ \ {n}, !.added = @ \cup {n}]
      <3>1. /\ s \in SyncType /\ s.pc = "next" /\ s.res = "none" /\ s.alone = o.alone
            /\ s.todo = o.todo \ {n} /\ s.added = o.added \cup {n} /\ s.failed = o.failed
            /\ s.desired = o.desired /\ s.current = o.current
        BY <1>3, <1>4 DEF SyncType
      <3>2. SetSync(r, s)
        BY <1>1, <2>1 DEF o
      <3> HIDE DEF s
      <3>3. ASSUME o.alone, NEW m \in Scripts PROVE Stands(s, m, registry')
        <4>1. Stands(o, m, registry) /\ Stands(o, n, registry)
          BY <1>3, <3>3
        <4> QED
          BY <1>2, <1>4, <2>1, <3>1, <4>1 DEF Stands
      <3> QED
        BY <1>2, <3>1, <3>2, <3>3, MovesKeeps DEF o
    <2>2. CASE n \notin registry
      <3> DEFINE s == [o EXCEPT !.todo = @ \ {n}, !.name = n, !.pc = "import"]
      <3>1. /\ s \in SyncType /\ s.pc = "import" /\ s.res = "none" /\ s.alone = o.alone
            /\ s.todo = o.todo \ {n} /\ s.added = o.added /\ s.failed = o.failed
            /\ s.desired = o.desired /\ s.current = o.current /\ s.name = n
        BY <1>3, <1>4 DEF SyncType
      <3>2. SetSync(r, s)
        BY <1>1, <2>2 DEF o
      <3> HIDE DEF s
      <3>3. ASSUME o.alone, NEW m \in Scripts PROVE Stands(s, m, registry')
        <4>1. Stands(o, m, registry) /\ Stands(o, n, registry)
          BY <1>3, <3>3
        <4> QED
          BY <1>2, <1>4, <2>2, <3>1, <4>1 DEF Stands
      <3> QED
        BY <1>2, <1>3, <3>1, <3>2, <3>3, MovesKeeps DEF o
    <2> QED
      BY <2>1, <2>2
  <1>6. ScriptType' /\ Booked' /\ Aged' /\ Fresh'
    BY <1>2, <1>5 DEF ScriptInv, ScriptType, Booked, Aged, Fresh
  <1> QED
    BY <1>5, <1>6 DEF ScriptInv

\* A script in hand that fails its contract, or is refused as a tool, is told as such.
LEMMA FailedMoves ==
  ASSUME ScriptInv, NEW r \in Syncs, sync[r].pc \in {"import", "add"}, sync[r].res = "none",
         sync[r].name \in Scripts, UNCHANGED registry,
         sync[r].alone => \A m \in Scripts : Stands(sync[r], m, registry),
         SetSync(r, [sync[r] EXCEPT !.failed = @ \cup {sync[r].name}, !.pc = "next"])
  PROVE  sync' \in [Syncs -> SyncType] /\ InHand' /\ Lone'
  <1> DEFINE o == sync[r]
             n == o.name
             s == [o EXCEPT !.failed = @ \cup {n}, !.pc = "next"]
  <1>1. o \in SyncType
    BY DEF ScriptInv, ScriptType
  <1>2. /\ s \in SyncType /\ s.pc = "next" /\ s.res = "none" /\ s.alone = o.alone
        /\ s.todo = o.todo /\ s.added = o.added /\ s.failed = o.failed \cup {n}
        /\ s.desired = o.desired /\ s.current = o.current
    BY <1>1 DEF SyncType
  <1>3. SetSync(r, s) /\ o.pc \in {"import", "add"} /\ n \in Scripts
    OBVIOUS
  <1> HIDE DEF s
  <1>4. ASSUME o.alone, NEW m \in Scripts PROVE Stands(s, m, registry')
    <2>1. Stands(o, m, registry) /\ Stands(o, n, registry)
      BY <1>4
    <2> HIDE DEF o
    <2> QED
      BY <1>2, <1>3, <2>1 DEF Stands
  <1> QED
    BY <1>2, <1>3, <1>4, MovesKeeps

LEMMA ImportKeeps ==
  ASSUME ScriptInv, NEW r \in Syncs, ImportForTool(r)
  PROVE  ScriptInv'
  <1> DEFINE o == sync[r]
             n == o.name
             known == cache[n].stamp = code[n].ver
             v == IF known THEN cache[n].ver ELSE Found(n).ver
  <1>1. /\ o \in SyncType /\ o.pc = "import" /\ o.res = "none" /\ n \in Scripts
        /\ UNCHANGED <<code, registry, tools, running>>
        /\ o.alone => \A m \in Scripts : Stands(o, m, registry)
    BY DEF ImportForTool, SyncAt, ScriptInv, ScriptType, InHand, Lone
  <1>2. code[n] \in CodeType /\ code[n].ver \in Nat \ {0} /\ code[n].ver >= code[n].ver
    BY <1>1 DEF ScriptInv, ScriptType, CodeType
  <1>3. v \in Nat \ {0}
    <2>1. CASE known
      <3>1. cache[n].ver \in Nat /\ cache[n].ver >= code[n].look
        BY <1>1, <2>1 DEF ScriptInv, ScriptType, Aged
      <3> QED
        BY <1>2, <2>1, <3>1 DEF CodeType
    <2>2. CASE ~known
      BY <1>1, <2>2, FoundIsRecent DEF BytesType
    <2> QED
      BY <2>1, <2>2
  <1>4. /\ pyc' \in [Scripts -> BytesType] /\ cache' \in [Scripts -> [stamp : Nat, ver : Nat]]
        /\ Aged'
    <2>1. CASE UNCHANGED <<cache, pyc>>
      BY <1>1, <2>1 DEF ScriptInv, ScriptType, Aged
    <2>2. CASE ExecModule(n, code[n].ver)
      BY <1>1, <1>2, <2>2, ModuleIsExecuted
    <2> QED
      BY <2>1, <2>2 DEF ImportForTool
  <1>5. \/ SetSync(r, [o EXCEPT !.ver = v, !.pc = "add"])
        \/ SetSync(r, [o EXCEPT !.failed = @ \cup {n}, !.pc = "next"])
    BY DEF ImportForTool
  <1> HIDE DEF known, v
  <1>6. sync' \in [Syncs -> SyncType] /\ InHand' /\ Lone'
    <2>1. CASE SetSync(r, [o EXCEPT !.ver = v, !.pc = "add"])
      <3> DEFINE s == [o EXCEPT !.ver = v, !.pc = "add"]
      <3>1. /\ s \in SyncType /\ s.pc = "add" /\ s.res = "none" /\ s.alone = o.alone
            /\ s.todo = o.todo /\ s.added = o.added /\ s.failed = o.failed
            /\ s.desired = o.desired /\ s.current = o.current /\ s.name = n /\ s.ver # 0
        BY <1>1, <1>3 DEF SyncType
      <3>2. SetSync(r, s)
        BY <2>1
      <3> HIDE DEF s
      <3>3. ASSUME o.alone, NEW m \in Scripts PROVE Stands(s, m, registry')
        <4>1. Stands(o, m, registry)
          BY <1>1, <3>3
        <4> QED
          BY <1>1, <3>1, <4>1 DEF Stands
      <3> QED
        BY <1>1, <3>1, <3>2, <3>3, MovesKeeps
    <2>2. CASE SetSync(r, [o EXCEPT !.failed = @ \cup {n}, !.pc = "next"])
      BY <1>1, <2>2, FailedMoves
    <2> QED
      BY <1>5, <2>1, <2>2
  <1>7. ScriptType' /\ Booked' /\ Fresh'
    BY <1>1, <1>4, <1>6 DEF ScriptInv, ScriptType, Booked, Fresh
  <1> QED
    BY <1>4, <1>6, <1>7 DEF ScriptInv

LEMMA RefusedKeeps ==
  ASSUME ScriptInv, NEW r \in Syncs, AddToolFails(r)
  PROVE  ScriptInv'
  <1>1. /\ SetSync(r, [sync[r] EXCEPT !.failed = @ \cup {sync[r].name}, !.pc = "next"])
        /\ UNCHANGED <<code, pyc, cache, registry, tools, running>> /\ sync[r].pc = "add"
    BY DEF AddToolFails, SyncAt
  <1>2. /\ sync[r] \in SyncType /\ sync[r].res = "none" /\ sync[r].name \in Scripts
        /\ sync[r].alone => \A m \in Scripts : Stands(sync[r], m, registry)
    BY <1>1 DEF ScriptInv, ScriptType, InHand, Lone
  <1>3. sync' \in [Syncs -> SyncType] /\ InHand' /\ Lone'
    BY <1>1, <1>2, FailedMoves
  <1>4. ScriptType' /\ Booked' /\ Aged' /\ Fresh'
    BY <1>1, <1>3 DEF ScriptInv, ScriptType, Booked, Aged, Fresh
  <1> QED
    BY <1>3, <1>4 DEF ScriptInv

LEMMA AddKeeps ==
  ASSUME ScriptInv, NEW r \in Syncs, AddTool(r)
  PROVE  ScriptInv'
  <1> DEFINE o == sync[r]
             n == o.name
  <1>1. /\ o \in SyncType /\ o.pc = "add" /\ o.res = "none" /\ n \in Scripts
        /\ UNCHANGED <<code, pyc, cache, running>> /\ o.ver \in Nat /\ o.ver # 0
        /\ o.alone => \A m \in Scripts : Stands(o, m, registry)
    BY DEF AddTool, SyncAt, ScriptInv, ScriptType, InHand, Lone, SyncType
  <1>2. /\ registry' = registry \cup {n}
        /\ tools' = IF n \in registry THEN tools ELSE [tools EXCEPT ![n] = o.ver]
        /\ SetSync(r, [o EXCEPT !.added = @ \cup {n}, !.pc = "next"])
    BY DEF AddTool
  <1> DEFINE s == [o EXCEPT !.added = @ \cup {n}, !.pc = "next"]
  <1>3. /\ s \in SyncType /\ s.pc = "next" /\ s.res = "none" /\ s.alone = o.alone
        /\ s.todo = o.todo /\ s.added = o.added \cup {n} /\ s.failed = o.failed
        /\ s.desired = o.desired /\ s.current = o.current
    BY <1>1 DEF SyncType
  <1>4. SetSync(r, s)
    BY <1>2
  <1> HIDE DEF s
  <1>5. ASSUME o.alone, NEW m \in Scripts PROVE Stands(s, m, registry')
    <2>1. Stands(o, m, registry) /\ Stands(o, n, registry)
      BY <1>1, <1>5
    <2> HIDE DEF o
    <2> QED
      BY <1>1, <1>2, <1>3, <2>1 DEF Stands
  <1>6. sync' \in [Syncs -> SyncType] /\ InHand' /\ Lone'
    BY <1>1, <1>3, <1>4, <1>5, MovesKeeps
  <1>7. registry \subseteq Scripts /\ tools \in [Scripts -> Nat] /\ Booked
    BY DEF ScriptInv, ScriptType
  <1>8. tools' \in [Scripts -> Nat] /\ registry' \subseteq Scripts
    BY <1>1, <1>2, <1>7
  <1>9. Booked'
    <2> SUFFICES ASSUME NEW m \in Scripts PROVE m \in registry' <=> tools'[m] # 0
      BY DEF Booked
    <2>1. m \in registry <=> tools[m] # 0
      BY <1>7 DEF Booked
    <2> HIDE DEF o, n
    <2> QED
      BY <1>1, <1>2, <1>7, <2>1 DEF n
  <1>10. ScriptType' /\ Aged' /\ Fresh'
    BY <1>1, <1>6, <1>8 DEF ScriptInv, ScriptType, Aged, Fresh
  <1> QED
    BY <1>6, <1>9, <1>10 DEF ScriptInv

LEMMA UnregisterKeeps ==
  ASSUME ScriptInv, NEW r \in Syncs, Unregister(r)
  PROVE  ScriptInv'
  <1> DEFINE o == sync[r]
             gone == o.current \ o.desired
             s == [o EXCEPT !.pc = "idle", !.res = "ok"]
  <1>1. /\ o \in SyncType /\ o.pc = "next" /\ UNCHANGED <<code, pyc, cache, running>>
        /\ registry' = registry \ gone
        /\ tools' = [n \in Scripts |-> IF n \in gone /\ n \in registry THEN 0 ELSE tools[n]]
        /\ SetSync(r, s)
    BY DEF Unregister, SyncAt, ScriptInv, ScriptType
  <1>2. s \in SyncType /\ s.pc = "idle"
    BY <1>1 DEF SyncType
  <1> HIDE DEF s
  <1>3. sync' \in [Syncs -> SyncType] /\ InHand' /\ Lone'
    BY <1>1, <1>2, MovesKeeps
  <1>4. registry \subseteq Scripts /\ tools \in [Scripts -> Nat] /\ Booked
    BY DEF ScriptInv, ScriptType
  <1>5. tools' \in [Scripts -> Nat] /\ registry' \subseteq Scripts
    BY <1>1, <1>4
  <1>6. Booked'
    BY <1>1, <1>4 DEF Booked
  <1>7. ScriptType' /\ Aged' /\ Fresh'
    BY <1>1, <1>3, <1>5 DEF ScriptInv, ScriptType, Aged, Fresh
  <1> QED
    BY <1>3, <1>6, <1>7 DEF ScriptInv

LEMMA CancelKeeps ==
  ASSUME ScriptInv, NEW r \in Syncs, ReloadCancelled(r)
  PROVE  ScriptInv'
  <1> DEFINE s == [NoSync EXCEPT !.res = "cancelled"]
  <1>1. s \in SyncType /\ s.pc = "idle"
    BY DEF NoSync, SyncType
  <1>2. SetSync(r, s) /\ UNCHANGED <<code, pyc, cache, registry, tools, running>>
    BY DEF ReloadCancelled
  <1> HIDE DEF s
  <1>3. sync' \in [Syncs -> SyncType] /\ InHand' /\ Lone'
    BY <1>1, <1>2, MovesKeeps
  <1>4. ScriptType' /\ Booked' /\ Aged' /\ Fresh'
    BY <1>2, <1>3 DEF ScriptInv, ScriptType, Booked, Aged, Fresh
  <1> QED
    BY <1>3, <1>4 DEF ScriptInv

\* A call of run_script leaves the tools and their reconciliations alone.
LEMMA RunKeeps ==
  ASSUME ScriptInv, UNCHANGED <<code, registry, tools, sync>>, running' \in RunType,
         pyc' \in [Scripts -> BytesType], cache' \in [Scripts -> [stamp : Nat, ver : Nat]],
         Aged', Fresh'
  PROVE  ScriptInv'
  BY DEF ScriptInv, ScriptType, Booked, InHand, Lone

LEMMA RunsKeep ==
  ASSUME ScriptInv, NEW n \in Scripts, RunScript(n) \/ RunTool(n)
  PROVE  ScriptInv'
  <1>1. RunScript(n)
    BY DEF RunTool
  <1>2. UNCHANGED <<code, pyc, cache, registry, tools, sync>>
    BY <1>1 DEF RunScript
  <1>3. \/ running' = [NoRun EXCEPT !.res = "MANIFEST_ERROR"]
        \/ running' = [NoRun EXCEPT !.res = "SCRIPT_NOT_FOUND"]
        \/ running' = [NoRun EXCEPT !.pc = "load", !.name = n]
    BY <1>1 DEF RunScript
  <1>4. running' \in RunType /\ running'.pc \in {"idle", "load"}
        /\ (running'.pc = "load" => running'.name = n)
    <2>1. ASSUME running' = [NoRun EXCEPT !.res = "MANIFEST_ERROR"]
                 \/ running' = [NoRun EXCEPT !.res = "SCRIPT_NOT_FOUND"]
          PROVE  running' \in RunType /\ running'.pc = "idle"
      BY <2>1 DEF NoRun, RunType
    <2>2. ASSUME running' = [NoRun EXCEPT !.pc = "load", !.name = n]
          PROVE  running' \in RunType /\ running'.pc = "load" /\ running'.name = n
      BY <2>2 DEF NoRun, RunType
    <2> QED
      BY <1>3, <2>1, <2>2
  <1>5. Fresh'
    BY <1>2, <1>4 DEF ScriptInv, Fresh
  <1>6. Aged'
    BY <1>2 DEF ScriptInv, Aged
  <1> QED
    BY <1>2, <1>4, <1>5, <1>6, RunKeeps DEF ScriptInv, ScriptType

LEMMA LoadKeeps ==
  ASSUME ScriptInv, Load
  PROVE  ScriptInv' /\ (running'.pc = "body" => running'.ver >= code[running.name].look
                                                 /\ running'.stamp # 0)
  <1> DEFINE n == running.name
  <1>1. /\ running \in RunType /\ running.pc = "load" /\ n \in Scripts
        /\ UNCHANGED <<code, pyc, cache, registry, tools, sync>>
    BY DEF Load, ScriptInv, ScriptType, Fresh
  <1>2. /\ code[n].ver \in Nat \ {0} /\ cache[n].ver \in Nat
        /\ cache[n].stamp = code[n].ver => cache[n].ver >= code[n].look
    BY <1>1 DEF ScriptInv, ScriptType, Aged, CodeType
  <1>a. Aged'
    BY <1>1 DEF ScriptInv, Aged
  <1> DEFINE v == code[n].ver
             w == cache[n].ver
  <1> HIDE DEF v, w
  <1>3. CASE cache[n].stamp = v
             /\ running' = [running EXCEPT !.pc = "body", !.stamp = v, !.ver = w]
    <2>1. /\ running' \in RunType /\ running'.pc = "body" /\ running'.stamp = v
          /\ running'.ver = w
      BY <1>1, <1>2, <1>3 DEF RunType, v, w
    <2>2. w >= code[n].look /\ v # 0
      BY <1>2, <1>3 DEF v, w
    <2>3. Fresh'
      BY <1>1, <2>1 DEF ScriptInv, Fresh
    <2> QED
      BY <1>1, <1>a, <2>1, <2>2, <2>3, RunKeeps DEF ScriptInv, ScriptType
  <1>4. CASE running' = [running EXCEPT !.pc = "exec", !.stamp = v]
    <2>1. /\ running' \in RunType /\ running'.pc = "exec" /\ running'.stamp = v
          /\ running'.name = n
      BY <1>1, <1>2, <1>4 DEF RunType, v
    <2>2. v # 0 /\ code'[n].ver >= v
      BY <1>1, <1>2 DEF v
    <2>3. Fresh'
      BY <1>1, <2>1, <2>2 DEF ScriptInv, Fresh
    <2> QED
      BY <1>1, <1>a, <2>1, <2>3, RunKeeps DEF ScriptInv, ScriptType
  <1> QED
    BY <1>3, <1>4 DEF Load, v, w

LEMMA ExecKeeps ==
  ASSUME ScriptInv, Exec
  PROVE  ScriptInv' /\ (running'.pc = "body" => running'.ver >= code[running.name].look
                                                 /\ running'.stamp # 0)
  <1> DEFINE n == running.name
             v == Found(n).ver
             t == running.stamp
  <1>1. /\ running \in RunType /\ running.pc = "exec" /\ n \in Scripts
        /\ UNCHANGED <<code, registry, tools, sync>> /\ t # 0 /\ code[n].ver >= t /\ t \in Nat
    BY DEF Exec, ScriptInv, ScriptType, Fresh, RunType
  <1>2. v \in Nat /\ v >= code[n].look
    BY <1>1, FoundIsRecent DEF BytesType
  <1>3. /\ pyc' \in [Scripts -> BytesType] /\ cache' \in [Scripts -> [stamp : Nat, ver : Nat]]
        /\ Aged'
    BY <1>1, ModuleIsExecuted DEF Exec
  <1>4. CASE running' = [running EXCEPT !.pc = "body", !.ver = v]
    <2> HIDE DEF v, t, n
    <2>1. /\ running' \in RunType /\ running'.pc = "body" /\ running'.stamp = t
          /\ running'.ver = v
      BY <1>1, <1>2, <1>4 DEF RunType, t
    <2>2. Fresh'
      BY <2>1 DEF Fresh
    <2> QED
      BY <1>1, <1>2, <1>3, <2>1, <2>2, RunKeeps DEF n
  <1>5. CASE running' = [NoRun EXCEPT !.res = "SCRIPT_CONTRACT_ERROR"]
    <2>1. running' \in RunType /\ running'.pc = "idle"
      BY <1>5 DEF NoRun, RunType
    <2>2. Fresh'
      BY <2>1 DEF Fresh
    <2> QED
      BY <1>1, <1>3, <2>1, <2>2, RunKeeps
  <1> QED
    BY <1>4, <1>5 DEF Exec

LEMMA BodyKeeps ==
  ASSUME ScriptInv, Body
  PROVE  ScriptInv'
  <1>1. UNCHANGED <<code, pyc, cache, registry, tools, sync>>
    BY DEF Body
  <1>2. running' \in RunType /\ running'.pc = "idle"
    BY DEF Body, NoRun, RunType
  <1>3. Aged' /\ Fresh'
    BY <1>1, <1>2 DEF ScriptInv, Aged, Fresh
  <1> QED
    BY <1>1, <1>2, <1>3, RunKeeps DEF ScriptInv, ScriptType

LEMMA ScriptStep ==
  ASSUME ScriptInv, [ScriptNext]_scriptVars
  PROVE  ScriptInv'
  <1>1. CASE EditManifest \/ EditScript \/ ListScripts \/ Shutdown
    BY <1>1, EditsKeep
  <1>2. CASE Lifespan
    BY <1>2, LifespanKeeps
  <1>3. CASE Load \/ Exec \/ Body
    BY <1>3, LoadKeeps, ExecKeeps, BodyKeeps
  <1>4. ASSUME NEW r \in Syncs,
               \/ Reload(r) \/ Preflight(r) \/ ImportForTool(r)
               \/ AddTool(r) \/ AddToolFails(r) \/ Unregister(r) \/ ReloadCancelled(r)
        PROVE  ScriptInv'
    BY <1>4, ReloadKeeps, PreflightKeeps, ImportKeeps, AddKeeps, RefusedKeeps, UnregisterKeeps,
       CancelKeeps
  <1>5. ASSUME NEW n \in Scripts, RunScript(n) \/ RunTool(n) PROVE ScriptInv'
    BY <1>5, RunsKeep
  <1>6. CASE UNCHANGED scriptVars
    BY <1>6 DEF scriptVars, ScriptInv, ScriptType, Booked, InHand, Aged, Fresh, Lone
  <1> QED
    BY <1>1, <1>2, <1>3, <1>4, <1>5, <1>6 DEF ScriptNext

\* What a reconciliation that begins does to the outcomes of all.
LEMMA BeginOutcomes ==
  ASSUME ScriptInv, NEW kinds, NEW q \in Syncs, Begin(q, Snapshot(kinds)), NEW r \in Syncs
  PROVE  sync'[r].res \in {"none", sync[r].res}
  <1>1. CASE r = q
    <2>1. sync'[r] = Snapshot(kinds)
      BY <1>1 DEF Begin
    <2>2. Snapshot(kinds).res = "none"
      BY DEF Snapshot, NoSync
    <2> QED
      BY <2>1, <2>2
  <1>2. CASE r # q
    <2>1. sync'[r] = [sync[r] EXCEPT !.alone = FALSE] /\ sync[r] \in SyncType
      BY <1>2 DEF Begin, ScriptInv, ScriptType
    <2> QED
      BY <2>1 DEF SyncType
  <1> QED
    BY <1>1, <1>2

LEMMA OthersStand ==
  ASSUME ScriptInv, NEW q \in Syncs, NEW s, SetSync(q, s), NEW r \in Syncs
  PROVE  sync'[r] = IF r = q THEN s ELSE sync[r]
  BY DEF SetSync, ScriptInv, ScriptType

\* Only the last step of a reconciliation reports its success.
LEMMA SuccessIsLast ==
  ASSUME ScriptInv, ScriptNext, NEW r \in Syncs, sync[r].pc = "next", sync'[r].res = "ok"
  PROVE  Unregister(r)
  <1>1. sync[r].res = "none" /\ sync[r] \in SyncType
    BY DEF ScriptInv, InHand, ScriptType
  <1>2. sync' # sync
    BY <1>1
  <1>3. ~(EditManifest \/ EditScript \/ ListScripts \/ Load \/ Exec \/ Body \/ Shutdown)
    BY <1>2 DEF EditManifest, EditScript, ListScripts, Load, Exec, Body, Shutdown
  <1>4. ASSUME NEW n \in Scripts PROVE ~(RunScript(n) \/ RunTool(n))
    BY <1>2 DEF RunScript, RunTool
  <1>5. ~Lifespan
    <2> SUFFICES ASSUME Begin("start", Snapshot(yaml_.text)) PROVE FALSE
      BY <1>2 DEF Lifespan
    <2>1. "start" \in Syncs
      BY ScriptAssumption DEF Syncs
    <2>2. sync'[r].res \in {"none", sync[r].res}
      BY <2>1, BeginOutcomes
    <2> QED
      BY <1>1, <2>2
  <1>6. ASSUME NEW q \in Syncs, Reload(q) PROVE FALSE
    <2>1. q # r
      BY <1>6 DEF Reload, SyncAt
    <2>2. CASE Begin(q, Snapshot(yaml_.text))
      <3>1. sync'[r].res \in {"none", sync[r].res}
        BY <2>2, BeginOutcomes
      <3> QED
        BY <1>1, <3>1
    <2>3. CASE SetSync(q, [NoSync EXCEPT !.res = "MANIFEST_ERROR"])
      <3>1. sync'[r] = sync[r]
        BY <2>1, <2>3, OthersStand
      <3> QED
        BY <1>1, <3>1
    <2> QED
      BY <1>6, <2>2, <2>3 DEF Reload
  <1>7. ASSUME NEW q \in Syncs,
               \/ Preflight(q) \/ ImportForTool(q) \/ AddTool(q) \/ AddToolFails(q)
               \/ ReloadCancelled(q)
        PROVE  FALSE
    <2>1. PICK s : SetSync(q, s) /\ (q = r => s.res # "ok")
      <3>1. CASE Preflight(q)
        <4>1. PICK n \in sync[q].todo :
                SetSync(q, IF n \in registry
                           THEN [sync[q] EXCEPT !.todo = @ \ {n}, !.added = @ \cup {n}]
                           ELSE [sync[q] EXCEPT !.todo = @ \ {n}, !.name = n, !.pc = "import"])
          BY <3>1 DEF Preflight
        <4> DEFINE s == IF n \in registry
                        THEN [sync[q] EXCEPT !.todo = @ \ {n}, !.added = @ \cup {n}]
                        ELSE [sync[q] EXCEPT !.todo = @ \ {n}, !.name = n, !.pc = "import"]
        <4>2. q = r => s.res = "none"
          BY <1>1 DEF SyncType
        <4> QED
          BY <4>1, <4>2
      <3>2. CASE ImportForTool(q)
        <4>1. q # r
          BY <3>2 DEF ImportForTool, SyncAt
        <4> QED
          BY <3>2, <4>1 DEF ImportForTool
      <3>3. CASE AddTool(q)
        <4>1. q # r
          BY <3>3 DEF AddTool, SyncAt
        <4> QED
          BY <3>3, <4>1 DEF AddTool
      <3>5. CASE AddToolFails(q)
        <4>1. q # r
          BY <3>5 DEF AddToolFails, SyncAt
        <4> QED
          BY <3>5, <4>1 DEF AddToolFails
      <3>4. CASE ReloadCancelled(q)
        <4>1. [NoSync EXCEPT !.res = "cancelled"].res = "cancelled"
          BY DEF NoSync
        <4> QED
          BY <3>4, <4>1 DEF ReloadCancelled
      <3> QED
        BY <1>7, <3>1, <3>2, <3>3, <3>4, <3>5
    <2>2. sync'[r] = IF r = q THEN s ELSE sync[r]
      BY <2>1, OthersStand
    <2> QED
      BY <1>1, <2>1, <2>2
  <1>8. ASSUME NEW q \in Syncs, Unregister(q), q # r PROVE FALSE
    <2>1. sync'[r] = sync[r]
      BY <1>8, OthersStand DEF Unregister
    <2> QED
      BY <1>1, <2>1
  <1> QED
    BY <1>3, <1>4, <1>5, <1>6, <1>7, <1>8 DEF ScriptNext

LEMMA LoneReconciles ==
  ASSUME ScriptInv, [ScriptNext]_scriptVars
  PROVE  \A r \in Syncs : sync[r].pc = "next" /\ sync'[r].res = "ok" /\ sync[r].alone
                          => registry' = sync[r].desired \ sync[r].failed
  <1> SUFFICES ASSUME NEW r \in Syncs, sync[r].pc = "next", sync'[r].res = "ok", sync[r].alone
               PROVE  registry' = sync[r].desired \ sync[r].failed
    OBVIOUS
  <1>1. sync[r].res = "none" /\ sync[r] \in SyncType
    BY DEF ScriptInv, InHand, ScriptType
  <1>2. ScriptNext
    BY <1>1 DEF scriptVars
  <1>3. Unregister(r)
    BY <1>2, SuccessIsLast
  <1> DEFINE o == sync[r]
  <1>4. o.todo = {} /\ registry' = registry \ (o.current \ o.desired)
    BY <1>3 DEF Unregister
  <1>5. \A n \in Scripts : Stands(o, n, registry)
    BY DEF ScriptInv, Lone
  <1>6. registry \subseteq Scripts /\ o.desired \subseteq Scripts /\ o.pc = "next"
    BY <1>1 DEF ScriptInv, ScriptType, SyncType
  <1> HIDE DEF o
  <1>7. \A n \in Scripts : n \in registry' <=> n \in o.desired \ o.failed
    BY <1>4, <1>5, <1>6 DEF Stands
  <1> QED
    BY <1>4, <1>6, <1>7 DEF o

LEMMA FailedLoadAct ==
  ASSUME ScriptInv, [ScriptNext]_scriptVars
  PROVE  \A r \in Syncs :
            /\ sync[r].pc = "idle" /\ sync[r].res # "MANIFEST_ERROR"
            /\ sync'[r].res = "MANIFEST_ERROR"
            => entries' = entries
  <1> SUFFICES ASSUME NEW r \in Syncs, sync[r].res # "MANIFEST_ERROR",
                      sync'[r].res = "MANIFEST_ERROR", entries' # entries
               PROVE  FALSE
    OBVIOUS
  <1>1. sync' # sync /\ ScriptNext
    BY DEF scriptVars
  <1>2. ASSUME NEW q \in Syncs, NEW kinds, Begin(q, Snapshot(kinds)) PROVE FALSE
    <2>1. sync'[r].res \in {"none", sync[r].res}
      BY <1>2, BeginOutcomes
    <2> QED
      BY <2>1
  <1>3. ~Lifespan
    <2>1. "start" \in Syncs
      BY ScriptAssumption DEF Syncs
    <2> QED
      BY <1>1, <1>2, <2>1 DEF Lifespan
  <1>4. ASSUME NEW q \in Syncs PROVE ~Reload(q)
    BY <1>2 DEF Reload
  <1>5. ~(EditManifest \/ EditScript \/ ListScripts \/ Load \/ Exec \/ Body \/ Shutdown)
    BY <1>1 DEF EditManifest, EditScript, ListScripts, Load, Exec, Body, Shutdown
  <1>6. ASSUME NEW n \in Scripts PROVE ~(RunScript(n) \/ RunTool(n))
    BY <1>1 DEF RunScript, RunTool
  <1>7. ASSUME NEW q \in Syncs
        PROVE  ~(Preflight(q) \/ ImportForTool(q) \/ AddTool(q) \/ AddToolFails(q)
                 \/ Unregister(q) \/ ReloadCancelled(q))
    BY DEF Preflight, ImportForTool, AddTool, AddToolFails, Unregister, ReloadCancelled
  <1> QED
    BY <1>1, <1>3, <1>4, <1>5, <1>6, <1>7 DEF ScriptNext

LEMMA RunsAreEdited ==
  ASSUME ScriptInv, [ScriptNext]_scriptVars
  PROVE  running.pc \in {"load", "exec"} /\ running'.pc = "body"
            => running'.ver >= code[running.name].look /\ running'.stamp # 0
  <1> SUFFICES ASSUME running.pc \in {"load", "exec"}, running'.pc = "body"
               PROVE  running'.ver >= code[running.name].look /\ running'.stamp # 0
    OBVIOUS
  <1>1. running' # running /\ ScriptNext
    BY DEF scriptVars
  <1>2. ~(EditManifest \/ EditScript \/ ListScripts \/ Lifespan \/ Shutdown)
    BY <1>1 DEF EditManifest, EditScript, ListScripts, Lifespan, Shutdown
  <1>3. ~Body
    BY DEF Body, NoRun
  <1>4. ASSUME NEW r \in Syncs
        PROVE  ~(\/ Reload(r) \/ Preflight(r) \/ ImportForTool(r) \/ AddTool(r)
                 \/ AddToolFails(r) \/ Unregister(r) \/ ReloadCancelled(r))
    BY <1>1 DEF Reload, Preflight, ImportForTool, AddTool, AddToolFails, Unregister,
       ReloadCancelled
  <1>5. ASSUME NEW n \in Scripts PROVE ~(RunScript(n) \/ RunTool(n))
    BY DEF RunScript, RunTool
  <1>6. Load \/ Exec
    BY <1>1, <1>2, <1>3, <1>4, <1>5 DEF ScriptNext
  <1> QED
    BY <1>6, LoadKeeps, ExecKeeps

(* However reloads overlap, fail or are cancelled, the exposed tools and      *)
(* their book agree, a lone sync_exposed_tools leaves exactly the exposed      *)
(* scripts that hold their contract, a manifest that does not parse takes      *)
(* nothing away, and run_script runs no code older than the last edit that     *)
(* changed the size or the whole-second mtime of the file.                     *)
THEOREM ScriptsCorrect == ScriptSpec => ScriptsFollow
  <1>1. ScriptInv => BookMatchesTools
    BY DEF ScriptInv, ScriptType, Booked, BookMatchesTools
  <1>2. ScriptSpec => []ScriptInv
    BY ScriptsStart, ScriptStep, PTL DEF ScriptSpec
  <1>3. ScriptSpec => LoneSyncReconciles
    BY <1>2, LoneReconciles, PTL DEF ScriptSpec, LoneSyncReconciles
  <1>4. ScriptSpec => RunsEdited
    BY <1>2, RunsAreEdited, PTL DEF ScriptSpec, RunsEdited
  <1>5. ScriptSpec => FailedReloadKeeps
    BY <1>2, FailedLoadAct, PTL DEF ScriptSpec, FailedReloadKeeps
  <1> QED
    BY <1>1, <1>2, <1>3, <1>4, <1>5, PTL DEF ScriptsFollow
=============================================================================
