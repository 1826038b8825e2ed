------------------------------ MODULE QueryTools ------------------------------
(***************************************************************************)
(* The contract table of PPSSPP's events (core/ws_contract.py), the request *)
(* methods of the debug client, and the tools that only string them        *)
(* together: query, evaluate, write_register, context, memory_map,         *)
(* search_memory_info, gpu_record and the buffer dumps.                     *)
(*                                                                         *)
(* PPSSPP refuses some events while its CPU runs and answers others only    *)
(* while it runs.  The tools must ask each event in its state, and leave    *)
(* the CPU as they found it; breakpoints, the emulator's user and lock-free *)
(* calls pause and resume it meanwhile.                                     *)
(***************************************************************************)
EXTENDS Integers, Sequences

CONSTANTS
    MaxMeddling,    \* bound: pauses and resumes by others during a call
    MaxLost         \* bound: requests whose answer is lost during a call

VARIABLES
    stepping,   \* PPSSPP: the emulated CPU is paused
    ask         \* the call

queryVars == <<stepping, ask>>

-----------------------------------------------------------------------------
\* Two tables as one; the first decides.
Merge(f, g) == [x \in DOMAIN f \cup DOMAIN g |-> IF x \in DOMAIN f THEN f[x] ELSE g[x]]
f ++ g == Merge(f, g)

(* WS_EVENT_CONTRACTS: what state of the CPU an event needs.                *)

All(events, need) == [e \in events |-> need]

MemoryEvents == All({"memory.read_u8", "memory.read_u16", "memory.read_u32", "memory.read",
    "memory.readString", "memory.write_u8", "memory.write_u16", "memory.write_u32",
    "memory.write"}, "auto")

CpuEvents == All({"cpu.getAllRegs", "cpu.getReg", "cpu.status"}, "none")
          ++ All({"cpu.setReg", "cpu.evaluate"}, "stepping")

SteppingEvents == All({"cpu.stepInto", "cpu.runUntil", "cpu.nextHLE", "cpu.stepping",
                       "cpu.resume"}, "none")
               ++ All({"cpu.stepOver", "cpu.stepOut"}, "stepping")

BreakpointEvents == All({"cpu.breakpoint.add", "cpu.breakpoint.remove", "cpu.breakpoint.list",
    "cpu.breakpoint.update", "memory.breakpoint.add", "memory.breakpoint.remove",
    "memory.breakpoint.list", "memory.breakpoint.update"}, "none")

HleEvents == All({"hle.thread.list", "hle.module.list", "hle.func.list"}, "none")
          ++ All({"hle.thread.wake", "hle.thread.stop", "hle.backtrace", "hle.func.scan",
                  "hle.func.add", "hle.func.remove"}, "stepping")

DisasmEvents == All({"memory.disasm", "memory.assemble", "memory.searchDisasm"}, "none")

InputEvents == All({"input.buttons.press", "input.buttons.send", "input.analog.send"}, "none")

SystemEvents == All({"game.status", "memory.mapping", "memory.base", "game.reset",
                     "memory.info.search"}, "none")

\* Stepping of the CPU or of the GPU; the tools only step the CPU.
BufferEvents == All({"gpu.buffer.renderColor", "gpu.buffer.renderDepth",
    "gpu.buffer.renderStencil", "gpu.buffer.texture", "gpu.buffer.clut"}, "stepping")

\* Answered on the next flip of the display, which a paused CPU never reaches.
FlipEvents == All({"gpu.stats.get", "gpu.record.dump"}, "running")

ReplayEvents == All({"replay.begin", "replay.abort", "replay.flush", "replay.execute",
    "replay.status", "replay.time.get", "replay.time.set"}, "none")

FeedEvents == All({"game.start", "game.pause", "game.resume", "game.quit", "log",
    "gpu.stats.feed", "broadcast.config.get", "broadcast.config.set", "version"}, "none")

Contract == MemoryEvents ++ CpuEvents ++ SteppingEvents ++ BreakpointEvents ++ HleEvents
         ++ DisasmEvents ++ InputEvents ++ SystemEvents ++ BufferEvents ++ FlipEvents
         ++ ReplayEvents ++ FeedEvents

-----------------------------------------------------------------------------
(* The client's methods, as the order of what they do: enter and leave       *)
(* with_stepping, probe for a running CPU, or ask an event.                  *)

AskAt(event) == <<[do |-> "ask", event |-> event]>>
\* A failure of this request is caught.
Try(event) == <<[do |-> "try", event |-> event]>>
Stepped(body) == <<[do |-> "enter"]>> \o body \o <<[do |-> "leave"]>>

RegisterCalls ==
    [get_reg |-> AskAt("cpu.getReg"), get_all_regs |-> AskAt("cpu.getAllRegs"),
     set_reg |-> Stepped(AskAt("cpu.setReg")), evaluate |-> Stepped(AskAt("cpu.evaluate"))]

FunctionCalls ==
    [backtrace |-> Stepped(AskAt("hle.backtrace")), module_list |-> AskAt("hle.module.list"),
     func_list |-> AskAt("hle.func.list"), func_scan |-> Stepped(AskAt("hle.func.scan")),
     func_add |-> Stepped(AskAt("hle.func.add")),
     func_remove |-> Stepped(AskAt("hle.func.remove"))]

ThreadCalls == [safe_get_threads |-> Stepped(AskAt("hle.thread.list")),
                safe_get_pc |-> Stepped(AskAt("cpu.getAllRegs"))]

DisasmCalls == [disasm |-> AskAt("memory.disasm"), assemble |-> AskAt("memory.assemble")]

SystemCalls == [game_status |-> AskAt("game.status"), memory_map |-> AskAt("memory.mapping"),
                reset |-> AskAt("game.reset")]

BufferCalls == [render_color |-> AskAt("gpu.buffer.renderColor"),
    texture |-> AskAt("gpu.buffer.texture"), render_depth |-> AskAt("gpu.buffer.renderDepth"),
    render_stencil |-> AskAt("gpu.buffer.renderStencil"), clut |-> AskAt("gpu.buffer.clut")]

\* require_running: two probes, 50 ms apart, before the request.
FlipCalls ==
    [gpu_record_dump |-> <<[do |-> "probe"], [do |-> "judge"]>> \o AskAt("gpu.record.dump")]

Search == AskAt("memory.info.search")

-----------------------------------------------------------------------------
(* The tools. *)

\* Mutant: a safe read of all registers does not pause.
QueryPlansRacy ==
    [register_safe |-> Stepped(RegisterCalls.get_reg),
     registers_safe |-> RegisterCalls.get_all_regs]

\* ppsspp_query: one body per action; safe reads are wrapped once more.
QueryPlans ==
    [register_safe |-> Stepped(RegisterCalls.get_reg),
     registers_safe |-> Stepped(RegisterCalls.get_all_regs)]

OtherQueryPlans ==
    [game_state |-> SystemCalls.game_status, register_raw |-> RegisterCalls.get_reg,
     registers_raw |-> RegisterCalls.get_all_regs, backtrace |-> FunctionCalls.backtrace,
     threads |-> ThreadCalls.safe_get_threads, modules |-> FunctionCalls.module_list,
     funcs |-> FunctionCalls.func_list,
     func_scan |-> FunctionCalls.func_scan \o FunctionCalls.func_list,
     func_add |-> FunctionCalls.func_add \o Try("hle.func.list"),
     func_remove |-> FunctionCalls.func_remove]

\* context: the stack is read in a block of its own around the client's.
ContextPlans ==
    LET around == SystemCalls.memory_map \o DisasmCalls.disasm IN
    [context |-> around, context_stack |-> around \o Stepped(FunctionCalls.backtrace)]

\* dump_buffer pauses for its one buffer.
BufferPlans == [b \in DOMAIN BufferCalls |-> Stepped(BufferCalls[b])]

\* The remaining tools are one method each.
EvaluatePlan == [evaluate |-> RegisterCalls.evaluate]
WriteRegisterPlan == [write_register |-> RegisterCalls.set_reg]
MemoryMapPlan == [memory_map |-> SystemCalls.memory_map]
SearchInfoPlan == [search_memory_info |-> Search]
GpuRecordPlan == [gpu_record |-> FlipCalls.gpu_record_dump]
\* The trusted pc that step and the workflows report.
SafePcPlan == [safe_get_pc |-> ThreadCalls.safe_get_pc]

Plan == QueryPlans ++ OtherQueryPlans ++ ContextPlans ++ BufferPlans ++ EvaluatePlan
     ++ WriteRegisterPlan ++ MemoryMapPlan ++ SearchInfoPlan ++ GpuRecordPlan ++ SafePcPlan

\* Reads whose answer is labelled trustworthy.
HighTrust == {"register_safe", "registers_safe", "threads", "safe_get_pc"}
Sampled == {"cpu.getReg", "cpu.getAllRegs", "hle.thread.list"}

-----------------------------------------------------------------------------

NoAsk == [pc |-> "idle", op |-> "none", at |-> 1, resumes |-> <<>>, seen |-> FALSE,
          blind |-> FALSE, halted |-> TRUE, met |-> 0, lost |-> 0, before |-> FALSE,
          misread |-> FALSE, res |-> "none"]

QueryInit == stepping \in BOOLEAN /\ ask = NoAsk

Todo == Plan[ask.op][ask.at]
Does(what) == ask.pc = "run" /\ ask.at <= Len(Plan[ask.op]) /\ Todo.do = what
Next1 == [ask EXCEPT !.at = @ + 1]
TopResume == ask.resumes[Len(ask.resumes)]
Popped(a) == [a EXCEPT !.resumes = SubSeq(@, 1, Len(@) - 1)]
\* An exception: the enclosing blocks are left first.
Raised(res) == [ask EXCEPT !.pc = "unwind", !.res = res]
MayLose == ask.lost < MaxLost
Lost(a) == [a EXCEPT !.lost = @ + 1]

AskArrives ==
    /\ ask.pc \in {"idle", "end"}
    /\ \E op \in DOMAIN Plan :
         ask' = [NoAsk EXCEPT !.pc = "run", !.op = op, !.before = stepping]
    /\ UNCHANGED stepping

\* with_stepping: cpu.status decides; a probe that fails counts as running.
EnterProbes ==
    /\ Does("enter")
    /\ \/ ask' = IF stepping THEN [Next1 EXCEPT !.resumes = Append(@, FALSE)]
                 ELSE [ask EXCEPT !.pc = "pausing"]
       \/ /\ MayLose
          /\ ask' = [Lost(ask) EXCEPT !.pc = "pausing", !.misread = @ \/ (stepping /\ ask.before)]
    /\ UNCHANGED stepping

EnterPauses ==
    /\ ask.pc = "pausing"
    /\ \/ stepping' = TRUE /\ ask' = [Next1 EXCEPT !.pc = "run", !.resumes = Append(@, TRUE)]
       \/ MayLose /\ stepping' \in {stepping, TRUE} /\ ask' = Lost(Raised("STEPPING_FAILED"))

\* require_running's probes; one that fails ends the check, not the call,
\* unless the connection is gone.
Probe ==
    /\ Does("probe")
    /\ \/ ask' = [Next1 EXCEPT !.seen = stepping]
       \/ MayLose /\ ask' = Lost([ask EXCEPT !.at = @ + 2, !.blind = TRUE])
       \/ MayLose /\ ask' = Lost(Raised("WS_DISCONNECTED"))
    /\ UNCHANGED stepping

\* Stepping at either probe is refused.
Judge ==
    /\ Does("judge")
    /\ \/ ask' = IF ask.seen \/ stepping THEN Raised("CPU_STATE_ERROR") ELSE Next1
       \/ MayLose /\ ask' = Lost([ask EXCEPT !.at = @ + 1, !.blind = TRUE])
       \/ MayLose /\ ask' = Lost(Raised("WS_DISCONNECTED"))
    /\ UNCHANGED stepping

\* PPSSPP on an event: does the CPU's state allow an answer?
AskAnswers(event) ==
    CASE Contract[event] = "stepping" -> IF stepping THEN "ok" ELSE "refused"
      [] Contract[event] = "running" -> IF stepping THEN "timeout" ELSE "ok"
      [] OTHER -> "ok"

\* hle.func.remove of a function it does not track has an error of its own.
Asks ==
    /\ Does("ask")
    /\ LET a == AskAnswers(Todo.event) IN
       \/ /\ a = "ok"
          /\ ask' = [Next1 EXCEPT !.halted = @ /\ (Todo.event \in Sampled => stepping)]
       \/ a # "ok" /\ ask' = Raised(a)
       \/ a = "ok" /\ Todo.event = "hle.func.remove" /\ ask' = Raised("FUNC_NOT_FOUND")
       \/ MayLose /\ ask' = Lost(Raised("lost"))
    /\ UNCHANGED stepping

Tries == Does("try") /\ ask' = Next1 /\ UNCHANGED stepping

\* The way out resumes if the way in paused.
AskLeaves ==
    /\ Does("leave")
    /\ \/ ask' = Popped(Next1) /\ stepping' = (stepping /\ ~TopResume)
       \/ TopResume /\ MayLose /\ ask' = Lost(Popped(Raised("RESUME_FAILED"))) /\ UNCHANGED stepping

\* After an exception, or a cancellation: a failed resume is only logged.
Unwinds ==
    /\ ask.pc = "unwind" /\ ask.resumes # <<>>
    /\ ask' = Popped(ask)
    /\ stepping' \in IF TopResume /\ MayLose THEN {FALSE, stepping} ELSE {stepping /\ ~TopResume}

AskEnds ==
    /\ \/ /\ ask.pc = "run" /\ ask.at > Len(Plan[ask.op])
          /\ ask' = [ask EXCEPT !.pc = "end", !.res = "ok"]
       \/ ask.pc = "unwind" /\ ask.resumes = <<>> /\ ask' = [ask EXCEPT !.pc = "end"]
    /\ UNCHANGED stepping

AskCancelled ==
    /\ ask.pc \in {"run", "pausing"}
    /\ ask' = Raised("cancelled") /\ UNCHANGED stepping

\* A breakpoint, the emulator's user, or a call without the lock.
Meddles ==
    /\ ask.pc \in {"idle", "end"} \/ ask.met < MaxMeddling
    /\ stepping' = ~stepping
    /\ ask' = IF ask.pc \in {"idle", "end"} THEN NoAsk ELSE [ask EXCEPT !.met = @ + 1]

QueryNext ==
    \/ AskArrives \/ EnterProbes \/ EnterPauses \/ Probe \/ Judge \/ Asks \/ Tries \/ AskLeaves
    \/ Unwinds \/ AskEnds \/ AskCancelled \/ Meddles

QuerySpec == QueryInit /\ [][QueryNext]_queryVars

-----------------------------------------------------------------------------
(* Properties. *)

(* `caller MUST ensure CPU is paused`, `MUST verify CPU is running before    *)
(* invoking`: unless somebody else pauses or resumes the CPU meanwhile, or   *)
(* a probe is lost, PPSSPP neither refuses a request nor leaves it waiting.  *)
AskedInState == ask.pc = "end" /\ ask.met = 0 /\ ~ask.blind => ask.res \notin {"refused", "timeout"}

(* `returning data marked as HIGH trust without the CPU actually being in    *)
(* stepping state` does not happen, whichever probe or answer was lost.      *)
TrustIsTrue ==
    ask.pc = "end" /\ ask.res = "ok" /\ ask.op \in HighTrust /\ ask.met = 0 => ask.halted

(* A call that succeeds leaves the CPU as it found it: paused only if it was *)
(* paused, and running again otherwise, through nested blocks and a lost     *)
(* probe inside another block; only a probe that misread a paused CPU on the *)
(* way in, which the code accepts, resumes what it did not pause.            *)
PutBack ==
    ask.pc = "end" /\ ask.res = "ok" /\ ask.met = 0 /\ ~ask.misread => stepping = ask.before

(* Every request of every tool meets PPSSPP in the state WS_EVENT_CONTRACTS  *)
(* asks for, is labelled by it, and leaves it as it was, through nested      *)
(* with_stepping blocks of which probes, pauses and resumes may fail.        *)
AsksAreInState == AskedInState /\ TrustIsTrue /\ PutBack
=============================================================================
