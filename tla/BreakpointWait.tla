--------------------------- MODULE BreakpointWait ---------------------------
(***************************************************************************)
(* The breakpoint tool over CpuControl: set and remove, the MCP-side       *)
(* condition filters (core/cond_filter.py), and the waits of               *)
(* tools/workflows.py.  wait and trace hold the session lock only to look  *)
(* at the CPU, to arm, to evaluate and to clean up; in between, any other  *)
(* call may run.                                                           *)
(***************************************************************************)
EXTENDS CpuControl

CONSTANTS StormHits     \* _STORM_HITS: fast falsy hits that disarm an address

ASSUME StormAssumption == StormHits \in Nat \ {0}

VARIABLES
    filters,    \* addresses with a registered condition
    heard       \* history: ticks of the last broadcast dispatched to stepQ

vars == <<cpuVars, filters, heard>>

Init == CpuInit /\ filters = {} /\ heard = 0

-----------------------------------------------------------------------------
(* set, update, remove and their mem_ forms. *)

\* add returns, and only then is the condition registered or dropped.
SetArm(t, b) ==
    /\ At(t, "edit") /\ task[t].op = "set"
    /\ armed' = armed \cup {b}
    /\ task' = [task EXCEPT ![t].pc = "register", ![t].bp = b]
    /\ UNCHANGED <<cpu, cmds, wire, observer, lock, filters>>

\* An update keeps or clears the enabled flag; one of nothing is refused.
Update(t, b) ==
    /\ At(t, "edit") /\ task[t].op = "update"
    /\ \/ /\ b \in armed
          /\ armed' \in {armed, armed \ {b}}
          /\ task' = [task EXCEPT ![t].pc = "register", ![t].bp = b]
       \/ /\ b \notin armed
          /\ task' = [task EXCEPT ![t].pc = "return", ![t].res = "no breakpoint"]
          /\ UNCHANGED armed
    /\ UNCHANGED <<cpu, cmds, wire, observer, lock, filters>>

\* An update without a condition keeps the registered one.
SetRegister(t) ==
    /\ At(t, "register")
    /\ \/ filters' = filters \cup {task[t].bp}
       \/ filters' = filters \ {task[t].bp}
       \/ task[t].op = "update" /\ UNCHANGED filters
    /\ Goto(t, "return")
    /\ UNCHANGED <<emulator, observer, lock>>

Remove(t, b) ==
    /\ At(t, "edit") /\ task[t].op = "remove"
    /\ IF b \in armed
       THEN /\ armed' = armed \ {b}
            /\ filters' = filters \ {b}
            /\ Goto(t, "return")
       ELSE /\ task' = [task EXCEPT ![t].pc = "return", ![t].res = "no breakpoint"]
            /\ UNCHANGED <<armed, filters>>
    /\ UNCHANGED <<cpu, cmds, wire, observer, lock>>

-----------------------------------------------------------------------------
(* wait_breakpoint. *)

\* Mutant: the subscription made after the look, not before the call's first step.
LookThenSubscribe(t) ==
    /\ At(t, "look") /\ Answered
    /\ IF cpu.stepping
       THEN /\ End(t, "already paused")
       ELSE /\ Goto(t, "waiting")
            /\ lock' = None
            /\ subs' = [subs EXCEPT ![t] = <<>>]
    /\ UNCHANGED <<emulator, resumeQ, stepQ, filters>>

\* An already paused CPU is reported as a hit, its condition not evaluated.
Look(t) ==
    /\ At(t, "look") /\ Answered
    /\ IF cpu.stepping
       THEN /\ End(t, "already paused")
       ELSE /\ Goto(t, "waiting")
            /\ lock' = None
            /\ UNCHANGED subs
    /\ UNCHANGED <<emulator, resumeQ, stepQ, filters>>

Take(t) == subs' = [subs EXCEPT ![t] = Tail(@)]

\* A hit without a condition ends the wait; a filtered one is evaluated, or
\* disarms the address when it is one of a storm.
WaitTakes(t) ==
    /\ At(t, "waiting") /\ subs[t] # <<>>
    /\ LET m == Head(subs[t]) IN
       IF m.by \notin filters
       THEN /\ task' = [task EXCEPT ![t].pc = "done", ![t].res = "hit", ![t].bp = m.by]
            /\ subs' = Closed(t)
       ELSE /\ Take(t)
            /\ task' = [task EXCEPT ![t].bp = m.by, ![t].rounds = @ + 1,
                    ![t].pc = IF task[t].rounds + 1 >= StormHits THEN "storm" ELSE "evaluate"]
    /\ UNCHANGED <<emulator, resumeQ, stepQ, lock, filters>>

\* The budget ends; after a falsy hit it may end with broadcasts buffered.
WaitTimesOut(t) ==
    /\ At(t, "waiting") /\ (subs[t] = <<>> \/ task[t].rounds > 0)
    /\ End(t, "no hit")
    /\ UNCHANGED <<emulator, resumeQ, stepQ, filters>>

\* _evaluate_condition: client.evaluate under the lock and with_stepping.
Evaluate(t) ==
    /\ At(t, "evaluate") /\ lock = None
    /\ lock' = t
    /\ task' = [task EXCEPT ![t].pc = "probe", ![t].out = "verdict"]
    /\ UNCHANGED <<emulator, observer, filters>>

\* False resumes and waits on; true and unknown surface the hit.
Verdict(t) ==
    /\ At(t, "verdict")
    /\ lock' = None
    /\ \E label \in {"falsy", "surface"} : Goto(t, label)
    /\ UNCHANGED <<emulator, observer, filters>>

Falsy(t) ==
    /\ At(t, "falsy") /\ lock = None
    /\ lock' = t
    /\ task' = [task EXCEPT ![t].pc = "leave", ![t].hold = TRUE, ![t].out = "again"]
    /\ UNCHANGED <<emulator, observer, filters>>

Again(t) ==
    /\ At(t, "again")
    /\ lock' = None
    /\ Goto(t, "waiting")
    /\ UNCHANGED <<emulator, observer, filters>>

Surface(t) ==
    /\ At(t, "surface")
    /\ End(t, "hit")
    /\ UNCHANGED <<emulator, resumeQ, stepQ, filters>>

\* _storm_break: the breakpoint removed, the CPU resumed, the filter dropped.
StormDisarm(t) ==
    /\ At(t, "storm") /\ lock = None
    /\ lock' = t
    /\ armed' = armed \ {task[t].bp}
    /\ task' = [task EXCEPT ![t].pc = "leave", ![t].hold = TRUE, ![t].out = "unfilter"]
    /\ UNCHANGED <<cpu, cmds, wire, observer, filters>>

StormUnfilter(t) ==
    /\ At(t, "unfilter")
    /\ filters' = filters \ {task[t].bp}
    /\ End(t, "storm")
    /\ UNCHANGED <<emulator, resumeQ, stepQ>>

-----------------------------------------------------------------------------
(* trace_memory_access. *)

TraceArm(t, b) ==
    /\ At(t, "arm") /\ Answered
    /\ IF cpu.stepping
       THEN /\ End(t, "already paused")
            /\ UNCHANGED armed
       ELSE /\ armed' = armed \cup {b}
            /\ task' = [task EXCEPT ![t].pc = "tracing", ![t].bp = b]
            /\ lock' = None
            /\ UNCHANGED subs
    /\ UNCHANGED <<cpu, cmds, wire, resumeQ, stepQ, filters>>

\* The first cpu.stepping broadcast, whatever stopped the CPU, is the hit.
TraceTakes(t) ==
    /\ At(t, "tracing") /\ subs[t] # <<>>
    /\ Take(t)
    /\ Goto(t, "capture")
    /\ UNCHANGED <<emulator, resumeQ, stepQ, lock, filters>>

\* The scene of the hit: a backtrace is taken under with_stepping, registers alone
\* are read as they are.
Capture(t) ==
    /\ At(t, "capture") /\ lock = None
    /\ lock' = t
    /\ \E label \in {"probe", "disarm"} :
          task' = [task EXCEPT ![t].pc = label, ![t].out = "disarm"]
    /\ UNCHANGED <<emulator, observer, filters>>

\* Mutant: the breakpoint is left to the cleanup after the resume.
DisarmLate(t) ==
    /\ At(t, "disarm")
    /\ task' = [task EXCEPT ![t].pc = "leave", ![t].hold = TRUE, ![t].out = "release",
                            ![t].res = "trace"]
    /\ UNCHANGED <<emulator, observer, lock, filters>>

\* The removal, then the resume.
Disarm(t) ==
    /\ At(t, "disarm")
    /\ armed' = armed \ {task[t].bp}
    /\ task' = [task EXCEPT ![t].pc = "leave", ![t].hold = TRUE, ![t].out = "traced"]
    /\ UNCHANGED <<cpu, cmds, wire, observer, lock, filters>>

Traced(t) ==
    /\ At(t, "traced")
    /\ End(t, "trace")
    /\ UNCHANGED <<emulator, resumeQ, stepQ, filters>>

\* The registers, a list or the removal fail, before or after the removal was
\* applied: bp_armed is still set.
CaptureFails(t) ==
    /\ At(t, "disarm")
    /\ armed' \in {armed, armed \ {task[t].bp}}
    /\ Goto(t, "failed")
    /\ UNCHANGED <<cpu, cmds, wire, observer, lock, filters>>

\* The exception leaves the locked region; the cleanup is still to come unless
\* only the resume failed, after a verified removal.
Fail(t) ==
    /\ At(t, "failed")
    /\ lock' = None
    /\ task' = [task EXCEPT ![t].pc = "recover", ![t].res = "trace failed",
                 ![t].out = IF task[t].out = "traced" THEN "return" ELSE "release"]
    /\ UNCHANGED <<emulator, observer, filters>>

\* The except handler resumes in a locked region of its own, or fails to get it.
Recover(t) ==
    /\ At(t, "recover")
    /\ \/ /\ lock = None
          /\ lock' = t
          /\ task' = [task EXCEPT ![t].pc = "leave", ![t].hold = TRUE]
       \/ /\ task' = [task EXCEPT ![t].res = "left paused",
                       ![t].pc = IF task[t].out = "release" THEN "cleanup" ELSE "return"]
          /\ UNCHANGED lock
    /\ UNCHANGED <<emulator, observer, filters>>

Release(t) ==
    /\ At(t, "release")
    /\ lock' = None
    /\ Goto(t, "cleanup")
    /\ UNCHANGED <<emulator, observer, filters>>

\* No broadcast within the budget: remove the breakpoint, leave the CPU alone.
TraceTimesOut(t) ==
    /\ At(t, "tracing") /\ subs[t] = <<>>
    /\ task' = [task EXCEPT ![t].pc = "cleanup", ![t].res = "no hit"]
    /\ UNCHANGED <<emulator, observer, lock, filters>>

\* The client cancels a trace: the removal is shielded, a resume is not made.
TraceCancelled(t) ==
    /\ Cancels < MaxCancels /\ task[t].res = None
    /\ task[t].pc \in {"tracing", "capture", "disarm"}
    /\ task' = [task EXCEPT ![t].pc = "cleanup", ![t].res = "cancelled"]
    /\ lock' = IF lock = t THEN None ELSE lock
    /\ UNCHANGED <<emulator, observer, filters>>

\* _remove_mem_bp_quietly, best effort.
Cleanup(t) ==
    /\ At(t, "cleanup")
    /\ \/ /\ lock = None
          /\ armed' = armed \ {task[t].bp}
          /\ End(t, task[t].res)
       \/ /\ End(t, "left armed")
          /\ UNCHANGED armed
    /\ UNCHANGED <<cpu, cmds, wire, resumeQ, stepQ, filters>>

-----------------------------------------------------------------------------
(* stats: hits counted until the window closes; no lock is taken. *)

StatsTakes(t) ==
    /\ At(t, "sampling") /\ subs[t] # <<>>
    /\ Take(t)
    /\ task' = [task EXCEPT ![t].rounds = @ + 1]
    /\ UNCHANGED <<emulator, resumeQ, stepQ, lock, filters>>

StatsEnds(t) ==
    /\ At(t, "sampling")
    /\ End(t, "stats")
    /\ UNCHANGED <<emulator, resumeQ, stepQ, filters>>

-----------------------------------------------------------------------------
WaitStep(t) ==
    \/ \E b \in Bps : SetArm(t, b) \/ Update(t, b) \/ Remove(t, b) \/ TraceArm(t, b)
    \/ SetRegister(t)
    \/ Look(t) \/ WaitTakes(t) \/ WaitTimesOut(t)
    \/ Evaluate(t) \/ Verdict(t) \/ Falsy(t) \/ Again(t) \/ Surface(t)
    \/ StormDisarm(t) \/ StormUnfilter(t)
    \/ TraceTakes(t) \/ Capture(t) \/ Disarm(t) \/ Traced(t)
    \/ CaptureFails(t) \/ Fail(t) \/ Recover(t) \/ Release(t)
    \/ TraceTimesOut(t) \/ TraceCancelled(t) \/ Cleanup(t)
    \/ StatsTakes(t) \/ StatsEnds(t)

Hear == heard' = IF wire # <<>> /\ Head(wire).event = "cpu.stepping"
                 THEN Head(wire).at ELSE heard

Next ==
    \/ Emulator /\ UNCHANGED <<filters, heard>>
    \/ Dispatch /\ Hear /\ UNCHANGED filters
    \/ \E t \in Tasks : \/ CpuStep(t) /\ UNCHANGED <<filters, heard>>
                        \/ WaitStep(t) /\ UNCHANGED heard

Spec == Init /\ [][Next]_vars

-----------------------------------------------------------------------------
(* Properties. *)

Labels == {"idle", "locking", "probe", "stop", "pausing", "body", "leave",
           "resuming", "prepare", "fire", "confirm", "return", "done",
           "sampling", "edit", "register", "look", "waiting", "evaluate",
           "verdict", "falsy", "again", "surface", "storm", "unfilter",
           "arm", "tracing", "capture", "disarm", "traced", "failed", "recover",
           "release", "cleanup"}

\* Every variable keeps its type: the queues of the observer their bound, the
\* lock a call or no one, each call a known place in its program.
TypeOK ==
    /\ cpu.ticks \in 0 .. MaxTicks /\ cpu.stepping \in BOOLEAN
    /\ armed \subseteq Bps \cup {Until} /\ filters \subseteq Bps
    /\ heard \in 0 .. MaxTicks
    /\ lock \in Tasks \cup {None}
    /\ Len(resumeQ) <= EventQueueMax /\ Len(stepQ) <= EventQueueMax
    /\ \A t \in Tasks : /\ task[t].pc \in Labels
                        /\ subs[t] # None => Len(subs[t]) <= SubQueueMax

\* Nothing is left to happen.
Quiet == cmds = <<>> /\ wire = <<>> /\ \A t \in Tasks : task[t].pc \in {"idle", "done"}

\* A CPU that a tool paused for its own sake runs again once the tool is done
\* (core/stepping.py, the finally of with_stepping; frame_snapshot; trace): it
\* stays paused only for pause, step and their failures, when a pause it gave up
\* on is applied late, or when the client cancelled a call before its pause was
\* confirmed or inside a snapshot, which undo nothing.
CpuReleased ==
    Quiet /\ cpu.stepping /\ cpu.cause \in Tasks =>
        LET c == task[cpu.cause] IN
        \/ c.op \in {"pause", "step", "until"} \/ c.late
        \/ c.res \in {"pause failed", "resume failed", "abandoned"}

\* The tools leave the CPU as they found it, in every typed state.
CpuSafe == TypeOK /\ CpuReleased

\* A trace that ended in its own terms, with the hit or with the failure of its
\* capture, leaves its breakpoint unarmed; one that reports the hit does not leave
\* the CPU stopped by it either (workflows.py: "Cleanup BEFORE resume so the (still
\* armed) breakpoint cannot re-hit").  When no other call armed a breakpoint.
Alone(t) == \A u \in Tasks \ {t} : task[u].op \notin {"set", "trace"}
Unarmed(t) == task[t].res \in {"trace", "trace failed"} => task[t].bp \notin armed
RunsOn(t) == task[t].res = "trace" /\ cpu.stepping => cpu.cause # task[t].bp
TraceReleases ==
    \A t \in Tasks : Quiet /\ Alone(t) /\ task[t].op = "trace" => Unarmed(t) /\ RunsOn(t)

\* A trace whose capture failed and whose recovery resumed the CPU does not leave
\* the CPU stopped by its breakpoint (workflows.py, the except handler of trace:
\* "do not leave the game frozen with our breakpoint logic half-done").
FailedTraceRunsOn ==
    \A t \in Tasks :
        Quiet /\ Alone(t) /\ task[t].op = "trace" /\ task[t].res = "trace failed"
        /\ cpu.stepping => cpu.cause # task[t].bp

\* A wait that times out without filtering anything has missed nothing: no
\* stop after it subscribed was dispatched while it waited.
WaitMissesNothing ==
    [][\A t \in Tasks : task[t].op = "wait" /\ task[t].res = None
                        /\ task'[t].res = "no hit" /\ task[t].rounds = 0
                        => heard <= task[t].since]_vars

\* A resume sent while nothing was in flight is confirmed by its own broadcast,
\* never by one an earlier cycle left in the queue (drain_resume).
ResumeIsFresh ==
    [][\A t \in Tasks : ResumedByBroadcast(t) /\ task[t].clean
                        => Head(resumeQ).at >= task[t].since]_vars

\* A confirmed step is confirmed by a broadcast from after the request, as the
\* filter's contract says: "favors false negatives ... over false positives
\* (fake success consuming a stale pause broadcast)".
StepIsFresh ==
    \A t \in Tasks : task[t].res = "stepped" => task[t].at > task[t].since
=============================================================================
