----------------------------- MODULE CpuControl -----------------------------
(***************************************************************************)
(* The CPU of one PPSSPP session as the tools drive it: the emulator and   *)
(* its broadcasts, the observer that sorts them into queues                *)
(* (core/game_state_observer.py), the stepping manager that pauses and     *)
(* resumes around a query (core/stepping.py) and the step methods that     *)
(* wait for a confirming broadcast (service/debug_client.py).              *)
(*                                                                         *)
(* A task is one tool call.  task[t] holds its program counter `pc', where *)
(* it goes once the CPU is paused (`ret') and once with_stepping is left   *)
(* (`out'), and the locals that outlive an await.  Time is abstract: a     *)
(* timeout may end any wait that has nothing to consume.                   *)
(***************************************************************************)
EXTENDS Naturals, Sequences, FiniteSets

CONSTANTS
    Tasks,          \* tool calls on the session, one operation each
    Ops,            \* the operations the calls are drawn from
    Bps,            \* the breakpoints a client may set, one per address
    None,
    MaxTicks,       \* bound: times the CPU stops or advances by a step
    EventQueueMax,  \* _EVENT_QUEUE_MAX
    SubQueueMax,    \* SteppingSubscription's maxsize
    MaxNoAdvance,   \* _STEP_MAX_NO_ADVANCE
    MaxFaults,      \* bound: failed cpu.status probes
    MaxCancels      \* bound: calls the client cancels

\* The target of cpu.runUntil is a temporary breakpoint of the emulator.
Until == "until"

\* What PPSSPP broadcasts: who stopped it is for the properties only.
Broadcasts == [event : {"cpu.stepping", "cpu.resume"}, at : Nat,
               by : Tasks \cup Bps \cup {Until, None}]

OpNames == {"read", "pause", "resume", "snapshot", "step", "until", "wait",
            "trace", "stats", "set", "update", "remove"}
\* How a call ends, when not with what it was asked.
Outcomes == {"pause failed", "resume failed", "cancelled", "abandoned", "stepped",
             "bad frame", "no advance", "polled", "step timeout", "no breakpoint",
             "already paused", "hit", "no hit", "storm", "trace failed", "left paused",
             "left armed"}

\* The requests that start and stop the CPU.
Events == {"cpu.stepping", "cpu.resume", "cpu.runUntil", "cpu.stepInto"}

ASSUME CpuAssumption ==
    /\ None \notin Tasks \cup Bps /\ Tasks \cap Bps = {} /\ Until \notin Tasks \cup Bps
    /\ None \notin OpNames \cup Outcomes \cup Events /\ None \notin Seq(Broadcasts)
    /\ Ops \subseteq OpNames
    /\ MaxTicks \in Nat /\ MaxFaults \in Nat /\ MaxCancels \in Nat
    /\ {EventQueueMax, SubQueueMax, MaxNoAdvance} \subseteq Nat \ {0}

VARIABLES
    cpu,        \* PPSSPP: [stepping, cause, ticks]; cause is a history variable
    armed,      \* PPSSPP: the breakpoints that can hit
    cmds,       \* PPSSPP: fire-and-forget requests not yet applied
    wire,       \* broadcasts emitted and not yet dispatched
    resumeQ,    \* the observer's cpu.resume queue
    stepQ,      \* the observer's cpu.stepping queue
    subs,       \* fan-out subscriptions: a queue per subscriber, or None
    lock,       \* the session lock's holder
    task        \* the tool calls

emulator == <<cpu, armed, cmds, wire>>
observer == <<resumeQ, stepQ, subs>>
cpuVars == <<cpu, armed, cmds, wire, resumeQ, stepQ, subs, lock, task>>

Stopped(at, by) == [event |-> "cpu.stepping", at |-> at, by |-> by]
Resumed(at) == [event |-> "cpu.resume", at |-> at, by |-> None]
Request(c, t) == [event |-> c, by |-> t]

Idle == [pc |-> "idle", op |-> None, ret |-> None, out |-> None,
         hold |-> FALSE, clean |-> FALSE, since |-> 0, at |-> 0, rounds |-> 0,
         bp |-> None, fault |-> FALSE, late |-> FALSE, res |-> None]

CpuInit ==
    /\ cpu = [stepping |-> FALSE, cause |-> None, ticks |-> 0]
    /\ armed = {} /\ cmds = <<>> /\ wire = <<>>
    /\ resumeQ = <<>> /\ stepQ = <<>>
    /\ subs = [t \in Tasks |-> None]
    /\ lock = None
    /\ task = [t \in Tasks |-> Idle]

At(t, label) == task[t].pc = label
Goto(t, label) == task' = [task EXCEPT ![t].pc = label]
Send(t, c) == cmds' = Append(cmds, Request(c, t))
\* The calls the client has cancelled.
Cancels == Cardinality({t \in Tasks : task[t].res \in {"cancelled", "abandoned"}})

-----------------------------------------------------------------------------
(* The emulator. *)

\* A stop at a new tick count: a breakpoint, a pause request or a step.
StopAt(n, by) ==
    /\ n <= MaxTicks
    /\ cpu' = [stepping |-> TRUE, cause |-> by, ticks |-> n]
    /\ wire' = Append(wire, Stopped(n, by))

EmuHit ==
    \E b \in armed :
        /\ ~cpu.stepping
        /\ StopAt(cpu.ticks + 1, b)
        /\ armed' = armed \ {Until}
        /\ UNCHANGED <<cmds, observer, lock, task>>

EmuApply ==
    /\ cmds # <<>>
    /\ cmds' = Tail(cmds)
    /\ LET r == Head(cmds) IN
       \/ /\ r.event = "cpu.stepping" /\ ~cpu.stepping
          /\ StopAt(cpu.ticks + 1, r.by)
          /\ UNCHANGED armed
       \/ /\ r.event \in {"cpu.resume", "cpu.runUntil"} /\ cpu.stepping
          /\ cpu' = [cpu EXCEPT !.stepping = FALSE, !.cause = None]
          /\ wire' = Append(wire, Resumed(cpu.ticks))
          /\ armed' = armed \cup (IF r.event = "cpu.runUntil" THEN {Until} ELSE {})
       \/ \* a step may be a silent no-op: the broadcast repeats the old ticks
          /\ r.event = "cpu.stepInto" /\ cpu.stepping
          /\ \E n \in {0, 1} : StopAt(cpu.ticks + n, r.by)
          /\ UNCHANGED armed
       \/ /\ cpu.stepping <=> r.event = "cpu.stepping"
          /\ UNCHANGED <<cpu, armed, wire>>
    /\ UNCHANGED <<observer, lock, task>>

\* A response follows on the socket every broadcast emitted before the request:
\* it overtakes at most the broadcast of the transition it reports.
Answered == Len(wire) <= 1

-----------------------------------------------------------------------------
(* The observer. *)

\* A bounded queue that drops its oldest entry to make room.
Offer(q, m, max) == Append(IF Len(q) >= max THEN Tail(q) ELSE q, m)

Dispatch ==
    /\ wire # <<>>
    /\ wire' = Tail(wire)
    /\ LET m == Head(wire) IN
       IF m.event = "cpu.resume"
       THEN /\ resumeQ' = Offer(resumeQ, m, EventQueueMax)
            /\ UNCHANGED <<stepQ, subs>>
       ELSE /\ stepQ' = Offer(stepQ, m, EventQueueMax)
            /\ subs' = [t \in Tasks |-> IF subs[t] = None THEN None
                                        ELSE Offer(subs[t], m, SubQueueMax)]
            /\ UNCHANGED resumeQ
    /\ UNCHANGED <<cpu, armed, cmds, lock, task>>

\* SteppingSubscription.close
Closed(t) == [subs EXCEPT ![t] = None]

-----------------------------------------------------------------------------
(* The session lock and the ends of a call. *)

Subscribers == {"wait", "trace", "stats"}

\* A call begins; a waiter subscribes before it looks at the CPU.
Begin(t, o) ==
    /\ At(t, "idle")
    /\ task' = [task EXCEPT ![t].op = o, ![t].since = cpu.ticks,
                            ![t].pc = IF o = "stats" THEN "sampling" ELSE "locking"]
    /\ subs' = IF o \in Subscribers THEN [subs EXCEPT ![t] = <<>>] ELSE subs
    /\ UNCHANGED <<emulator, resumeQ, stepQ, lock>>

\* The first step of each operation once it holds the session lock.
Entry == [read |-> "probe", pause |-> "stop", resume |-> "leave",
          snapshot |-> "prepare", step |-> "prepare", until |-> "prepare",
          wait |-> "look", trace |-> "arm", set |-> "edit", update |-> "edit", remove |-> "edit"]

Acquire(t) ==
    /\ At(t, "locking") /\ lock = None
    /\ lock' = t
    /\ task' = [task EXCEPT ![t].pc = Entry[task[t].op], ![t].out = "return",
                            ![t].hold = task[t].op = "resume"]
    /\ UNCHANGED <<emulator, observer>>

\* The end of a call: the lock freed, the subscription closed.
End(t, r) ==
    /\ task' = [task EXCEPT ![t].pc = "done", ![t].res = r]
    /\ lock' = IF lock = t THEN None ELSE lock
    /\ subs' = Closed(t)

Return(t) ==
    /\ At(t, "return")
    /\ End(t, IF task[t].res = None THEN task[t].op ELSE task[t].res)
    /\ UNCHANGED <<emulator, resumeQ, stepQ>>

-----------------------------------------------------------------------------
(* SteppingManager. *)

\* with_stepping: cpu.status decides whether this call pauses and resumes.
Probe(t) ==
    /\ At(t, "probe") /\ Answered
    /\ IF cpu.stepping
       THEN /\ task' = [task EXCEPT ![t].pc = "body", ![t].hold = FALSE]
            /\ UNCHANGED cmds
       ELSE /\ task' = [task EXCEPT ![t].pc = "pausing", ![t].ret = "body", ![t].hold = TRUE]
            /\ Send(t, "cpu.stepping")
    /\ UNCHANGED <<cpu, armed, wire, observer, lock>>

\* A failed probe counts as a running CPU: pause now, resume on exit.
ProbeFails(t) ==
    /\ At(t, "probe")
    /\ Cardinality({u \in Tasks : task[u].fault}) < MaxFaults
    /\ task' = [task EXCEPT ![t].pc = "pausing", ![t].ret = "body", ![t].hold = TRUE,
                            ![t].fault = TRUE]
    /\ Send(t, "cpu.stepping")
    /\ UNCHANGED <<cpu, armed, wire, observer, lock>>

\* The pause tool: a bare pause(), then safe_get_pc.
Stop(t) ==
    /\ At(t, "stop")
    /\ task' = [task EXCEPT ![t].pc = "pausing", ![t].ret = "probe"]
    /\ Send(t, "cpu.stepping")
    /\ UNCHANGED <<cpu, armed, wire, observer, lock>>

\* wait_for_state sees stepping = TRUE.
Paused(t) ==
    /\ At(t, "pausing") /\ cpu.stepping /\ Answered
    /\ Goto(t, task[t].ret)
    /\ UNCHANGED <<emulator, observer, lock>>

\* SteppingFailedError: the request may still be applied later.
PauseTimesOut(t) ==
    /\ At(t, "pausing") /\ ~cpu.stepping
    /\ IF task[t].out = "return" THEN End(t, "pause failed")
       ELSE /\ task' = [task EXCEPT ![t].late = TRUE,
                    ![t].pc = IF task[t].out = "verdict" THEN "surface" ELSE "failed"]
            /\ UNCHANGED <<lock, subs>>
    /\ UNCHANGED <<emulator, resumeQ, stepQ>>

\* The block under with_stepping, or the snapshot's capture; its failure takes
\* the same way out.
Body(t) ==
    /\ At(t, "body")
    /\ Goto(t, "leave")
    /\ UNCHANGED <<emulator, observer, lock>>

\* Mutant: a failed or cancelled body is not followed by a resume.
LeaveOnSuccess(t) ==
    /\ At(t, "leave")
    /\ IF task[t].hold /\ task[t].res = None
       THEN /\ task' = [task EXCEPT ![t].pc = "resuming", ![t].since = cpu.ticks,
                                    ![t].clean = cmds = <<>> /\ wire = <<>>]
            /\ resumeQ' = <<>>
            /\ Send(t, "cpu.resume")
       ELSE /\ Goto(t, task[t].out)
            /\ UNCHANGED <<resumeQ, cmds>>
    /\ UNCHANGED <<cpu, armed, wire, stepQ, subs, lock>>

\* Mutant: the queue of resume broadcasts is not drained first.
LeaveUndrained(t) ==
    /\ At(t, "leave")
    /\ IF task[t].hold
       THEN /\ task' = [task EXCEPT ![t].pc = "resuming", ![t].since = cpu.ticks,
                                    ![t].clean = cmds = <<>> /\ wire = <<>>]
            /\ Send(t, "cpu.resume")
       ELSE /\ Goto(t, task[t].out)
            /\ UNCHANGED cmds
    /\ UNCHANGED <<cpu, armed, wire, observer, lock>>

\* The way out: resume() drains the queue before it sends the request.
Leave(t) ==
    /\ At(t, "leave")
    /\ IF task[t].hold
       THEN /\ task' = [task EXCEPT ![t].pc = "resuming", ![t].since = cpu.ticks,
                                    ![t].clean = cmds = <<>> /\ wire = <<>>]
            /\ resumeQ' = <<>>
            /\ Send(t, "cpu.resume")
       ELSE /\ Goto(t, task[t].out)
            /\ UNCHANGED <<resumeQ, cmds>>
    /\ UNCHANGED <<cpu, armed, wire, stepQ, subs, lock>>

ResumedByBroadcast(t) ==
    /\ At(t, "resuming") /\ resumeQ # <<>>
    /\ resumeQ' = Tail(resumeQ)
    /\ Goto(t, task[t].out)
    /\ UNCHANGED <<emulator, stepQ, subs, lock>>

\* No broadcast within _RESUME_BROADCAST_WAIT_MS: poll for stepping = FALSE,
\* and give up at the poll's own timeout, which a trace takes for a failure.
ResumedByPoll(t) ==
    /\ At(t, "resuming") /\ resumeQ = <<>> /\ Answered
    /\ \/ /\ ~cpu.stepping
          /\ Goto(t, task[t].out)
       \/ /\ cpu.stepping
          /\ task' = [task EXCEPT ![t].pc = IF task[t].out \in {"disarm", "traced"}
                                           THEN "failed" ELSE task[t].out,
                                  ![t].res = IF task[t].out = "return" THEN "resume failed" ELSE @]
    /\ UNCHANGED <<emulator, observer, lock>>

-----------------------------------------------------------------------------
(* The step methods of PpssppDebugClient, and the snapshot tool's entry. *)

\* _prepare_for_step: stepping, and the ticks to compare broadcasts with.
Prepare(t) ==
    /\ At(t, "prepare") /\ Answered
    /\ IF cpu.stepping
       THEN /\ task' = [task EXCEPT ![t].pc = IF task[t].op = "snapshot" THEN "body" ELSE "fire",
                                    ![t].since = cpu.ticks]
            /\ UNCHANGED cmds
       ELSE /\ task' = [task EXCEPT ![t].pc = "pausing",
                                    ![t].ret = IF task[t].op = "snapshot" THEN "body" ELSE "prepare",
                                    ![t].hold = task[t].op = "snapshot"]
            /\ Send(t, "cpu.stepping")
    /\ UNCHANGED <<cpu, armed, wire, observer, lock>>

Fire(t) ==
    /\ At(t, "fire")
    /\ Send(t, IF task[t].op = "until" THEN "cpu.runUntil" ELSE "cpu.stepInto")
    /\ Goto(t, "confirm")
    /\ UNCHANGED <<cpu, armed, wire, observer, lock>>

\* build_step_filter: a broadcast with other ticks than before the step.
Advanced(t, m) == m.at # task[t].since

Confirm(t) ==
    /\ At(t, "confirm") /\ stepQ # <<>>
    /\ stepQ' = Tail(stepQ)
    /\ LET m == Head(stepQ)
           last == task[t].rounds + 1 = MaxNoAdvance IN
       \/ /\ Advanced(t, m)
          /\ \E r \in {"stepped", "bad frame"} :   \* _validate_step_out_pc
                 task' = [task EXCEPT ![t].pc = "return", ![t].res = r, ![t].at = m.at]
          /\ UNCHANGED cmds
       \/ \* run_until and next_hle drop it; a step is fired again, a few times
          /\ ~Advanced(t, m) /\ task[t].op = "until"
          /\ UNCHANGED <<task, cmds>>
       \/ /\ ~Advanced(t, m) /\ task[t].op = "step"
          /\ task' = [task EXCEPT ![t].rounds = @ + 1,
                                  ![t].pc = IF last THEN "return" ELSE @,
                                  ![t].res = IF last THEN "no advance" ELSE @]
          /\ IF last THEN UNCHANGED cmds ELSE Send(t, "cpu.stepInto")
    /\ UNCHANGED <<cpu, armed, wire, resumeQ, subs, lock>>

\* No broadcast in time.  A step that saw none polls cpu.status instead.
ConfirmTimesOut(t) ==
    /\ At(t, "confirm") /\ stepQ = <<>>
    /\ LET polled == task[t].op = "step" /\ task[t].rounds = 0 /\ cpu.stepping
       IN  task' = [task EXCEPT ![t].pc = "return",
                                ![t].res = IF polled THEN "polled" ELSE "step timeout"]
    /\ UNCHANGED <<emulator, observer, lock>>

-----------------------------------------------------------------------------
\* The client cancels.  The shielded resume of a with_stepping block survives;
\* a pause in progress, a snapshot and a confirmation do not undo anything.
CancelCpu(t) ==
    /\ Cancels < MaxCancels
    /\ task[t].res = None
    /\ \/ /\ At(t, "body") /\ task[t].op # "snapshot" /\ task[t].out = "return"
          /\ task' = [task EXCEPT ![t].pc = "leave", ![t].res = "cancelled"]
          /\ UNCHANGED <<lock, subs>>
       \/ /\ \/ At(t, "body") /\ task[t].op = "snapshot"
             \/ task[t].pc \in {"pausing", "confirm", "resuming"} /\ task[t].out = "return"
             \/ At(t, "locking") /\ task[t].op # "trace"
          /\ End(t, "abandoned")
    /\ UNCHANGED <<emulator, resumeQ, stepQ>>

Emulator == EmuHit \/ EmuApply

CpuStep(t) ==
    \/ \E o \in Ops : Begin(t, o)
    \/ Acquire(t) \/ Return(t)
    \/ Probe(t) \/ ProbeFails(t) \/ Stop(t) \/ Paused(t) \/ PauseTimesOut(t)
    \/ Body(t) \/ Leave(t) \/ ResumedByBroadcast(t) \/ ResumedByPoll(t)
    \/ Prepare(t) \/ Fire(t) \/ Confirm(t) \/ ConfirmTimesOut(t)
    \/ CancelCpu(t)
=============================================================================
