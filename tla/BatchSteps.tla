------------------------------ MODULE BatchSteps ------------------------------
(***************************************************************************)
(* What a batch does step by step (tools/batch_step.py): its validation and *)
(* the gate of its estimated time, the loop over press, wait, state_probe,  *)
(* cpu_step and screenshot steps under one deadline, the failure policy,    *)
(* and a cancellation at any await. BatchJobs has the registry around it.   *)
(*                                                                         *)
(* Time is counted in ticks of the batch's own clock.                       *)
(***************************************************************************)
EXTENDS Integers, Sequences, FiniteSets
LOCAL INSTANCE SequencesExt

CONSTANTS
    StepPlans,      \* step lists clients send: sequences of [type, size, bad]
    ForeBudget, BackBudget,     \* FOREGROUND_BUDGET_S, BACKGROUND_BUDGET_S
    StepCap,        \* PROBE_OBSERVE_BUDGET_S, _CPU_STEP_BUDGET_S
    BusyWait        \* bound: ticks spent waiting for the session lock

StepKinds == {"press", "wait", "state_probe", "cpu_step", "screenshot"}

ASSUME StepsAssumption ==
    /\ StepPlans \subseteq Seq([type : StepKinds, size : Nat, bad : BOOLEAN])
    /\ {ForeBudget, BackBudget, StepCap, BusyWait} \subseteq Nat

VARIABLES
    batch,      \* the batch (NoBatch)
    recording,  \* PPSSPP records a replay
    pad,        \* ticks for which PPSSPP still holds a pressed button
    cpuBy       \* who paused the emulated CPU: "nobody", "batch", "other"

stepVars == <<batch, recording, pad, cpuBy>>

NoBatch == [pc |-> "idle", plan |-> <<>>, back |-> FALSE, abort |-> FALSE, i |-> 1,
            spent |-> 0, seen |-> FALSE, paused |-> FALSE, stepped |-> 0,
            results |-> <<>>, progress |-> 0, res |-> "none"]

StepsInit ==
    /\ batch = NoBatch /\ pad = 0
    /\ recording \in BOOLEAN /\ cpuBy \in {"nobody", "other"}

Stays == UNCHANGED <<recording, pad, cpuBy>>
StepsAt(pc) == batch.pc = pc
ThisStep == batch.plan[batch.i]
Budget == IF batch.back THEN BackBudget ELSE ForeBudget
Failures == {n \in DOMAIN batch.results : batch.results[n] = "failure"}

-----------------------------------------------------------------------------
(* The call. *)

\* estimate_batch_seconds: what each step should take.
CostOf(s) ==
    CASE s.type = "press" -> s.size + 1
      [] s.type = "wait" -> s.size
      [] s.type = "cpu_step" -> s.size + 1
      [] OTHER -> 1
Estimate(plan) == FoldSeq(LAMBDA s, sum : CostOf(s) + sum, 0, plan)

\* _validate_step: the shape of every step, before any runs.
Invalid(plan) == plan = <<>> \/ \E n \in DOMAIN plan : plan[n].bad

\* A batch estimated too long is refused before any work.
BatchArrives ==
    /\ batch.pc \in {"idle", "end"}
    /\ \E plan \in StepPlans, back, abort \in BOOLEAN :
         batch' = IF Invalid(plan)
                  THEN [NoBatch EXCEPT !.pc = "end", !.res = "STEP_INVALID"]
                  ELSE IF Estimate(plan) > (IF back THEN BackBudget ELSE ForeBudget)
                  THEN [NoBatch EXCEPT !.pc = "end", !.res = "BATCH_BUDGET_EXCEEDED"]
                  ELSE [NoBatch EXCEPT !.pc = "lock", !.plan = plan, !.back = back, !.abort = abort]
    /\ cpuBy' = IF cpuBy = "batch" THEN "other" ELSE cpuBy     \* an earlier batch's
    /\ UNCHANGED <<recording, pad>>

\* The wait for the session lock is charged to the batch's deadline.
Locks ==
    /\ StepsAt("lock")
    /\ \/ \E w \in 0..BusyWait : batch' = [batch EXCEPT !.pc = "replay", !.spent = w]
       \/ batch' = [batch EXCEPT !.pc = "end", !.res = "SESSION_BUSY"]
    /\ Stays

\* Is a replay being recorded? A probe that fails counts as no.
AsksRecording ==
    /\ StepsAt("replay")
    /\ \E ok \in BOOLEAN : batch' = [batch EXCEPT !.pc = "step", !.seen = ok /\ recording]
    /\ Stays

-----------------------------------------------------------------------------
(* The steps. *)

\* max(1, min(cap, what is left of the deadline)).
Allowance == LET left == Budget - batch.spent
                 most == IF left < StepCap THEN left ELSE StepCap IN
             IF most < 1 THEN 1 ELSE most

AtStep(type) == StepsAt("step") /\ batch.i <= Len(batch.plan) /\ ThisStep.type = type

\* One result per step; the first failure ends the batch if it is to abort.
Closed(status) ==
    [batch EXCEPT !.results = Append(@, status), !.progress = batch.i, !.i = @ + 1,
                  !.pc = IF status = "failure" /\ batch.abort THEN "report" ELSE "step"]
Spends(ticks, status) == batch' = [Closed(status) EXCEPT !.spent = @ + ticks]

\* A screenshot would have to pause the CPU of a recording.
SkipsShot ==
    /\ AtStep("screenshot") /\ batch.seen
    /\ batch' = Closed("skipped") /\ Stays

TakesShot ==
    /\ AtStep("screenshot") /\ ~batch.seen
    /\ \E status \in {"success", "failure"} : Spends(1, status)
    /\ Stays

\* PPSSPP answers a press when the button is up again.
Presses ==
    /\ AtStep("press")
    /\ \/ pad' = ThisStep.size /\ batch' = [batch EXCEPT !.pc = "press"]
       \/ Spends(0, "failure") /\ UNCHANGED pad
    /\ UNCHANGED <<recording, cpuBy>>

PressAnswered ==
    /\ StepsAt("press")
    /\ \/ pad = 0 /\ Spends(ThisStep.size, "success")
       \/ Spends(ThisStep.size, "failure")           \* the connection fails meanwhile
    /\ Stays

PadRuns == pad > 0 /\ pad' = pad - 1 /\ UNCHANGED <<batch, recording, cpuBy>>

\* wait_frames_chunked: the session is looked up between the chunks.
Waits ==
    /\ AtStep("wait")
    /\ \/ Spends(ThisStep.size, "success")
       \/ \E t \in 0..ThisStep.size : Spends(t, "failure")
    /\ Stays

\* asyncio.wait_for with what is left of the deadline.
Observes ==
    /\ AtStep("state_probe")
    /\ \E t \in 0..Allowance, status \in {"success", "failure"} :
         (t = Allowance => status = "failure") /\ Spends(t, status)
    /\ Stays

\* with_stepping around all the instructions of a cpu_step.
Enters ==
    /\ AtStep("cpu_step")
    /\ \/ /\ batch' = [batch EXCEPT !.pc = "stepping", !.stepped = 0, !.paused = cpuBy = "nobody"]
          /\ cpuBy' = IF cpuBy = "nobody" THEN "batch" ELSE cpuBy
       \/ /\ Spends(1, "failure")                  \* the CPU does not pause in time
          /\ cpuBy' \in IF cpuBy = "nobody" THEN {"nobody", "batch"} ELSE {cpuBy}
    /\ UNCHANGED <<recording, pad>>

StepsOnce ==
    /\ StepsAt("stepping") /\ batch.stepped < ThisStep.size
    /\ batch' = [batch EXCEPT !.stepped = @ + 1, !.spent = @ + 1]
    /\ Stays

\* Mutant: only a cpu_step that stalled resumes.
LeftOnStall(ok) == IF batch.paused /\ ok /\ batch.stepped < ThisStep.size THEN "nobody" ELSE cpuBy

\* The CPU runs again if the step had to pause it and the resume succeeds.
Left(ok) == IF batch.paused /\ ok THEN "nobody" ELSE cpuBy

\* All confirmed, or one stalled for its allowance.
StepsLeave ==
    /\ StepsAt("stepping")
    /\ \E ok \in {TRUE, ~batch.paused} :
         /\ \/ batch.stepped = ThisStep.size /\ Spends(0, IF ok THEN "success" ELSE "failure")
            \/ batch.stepped < ThisStep.size /\ Spends(Allowance, "failure")
         /\ cpuBy' = Left(ok)
    /\ UNCHANGED <<recording, pad>>

-----------------------------------------------------------------------------
(* The end of a batch. *)

\* Failed steps make the call an error that lists them.
Reports ==
    /\ \/ StepsAt("report")
       \/ StepsAt("step") /\ batch.i > Len(batch.plan)
    /\ batch' = [batch EXCEPT !.pc = "end",
                              !.res = IF Failures = {} THEN "ok" ELSE "BATCH_STEP_FAILED"]
    /\ Stays

\* batch_cancel, or a client that gives up: the task is cancelled where it
\* awaits, and unwinds.
BatchCancelled ==
    /\ batch.pc \in {"lock", "replay", "step", "press", "stepping"}
    /\ batch' = [batch EXCEPT !.pc = "end", !.res = "cancelled"]
    /\ \E ok \in BOOLEAN : cpuBy' = IF StepsAt("stepping") THEN Left(ok) ELSE cpuBy
    /\ UNCHANGED <<recording, pad>>

\* A recording starts or ends between batches: its tools need the lock.
RecordingTurns ==
    /\ batch.pc \in {"idle", "end"} /\ recording' = ~recording
    /\ UNCHANGED <<batch, pad, cpuBy>>

StepsNext ==
    \/ BatchArrives \/ Locks \/ AsksRecording \/ SkipsShot \/ TakesShot \/ Presses
    \/ PressAnswered \/ PadRuns \/ Waits \/ Observes \/ Enters \/ StepsOnce \/ StepsLeave
    \/ Reports \/ BatchCancelled \/ RecordingTurns

StepsSpec == StepsInit /\ [][StepsNext]_stepVars

-----------------------------------------------------------------------------
(* Properties. *)

(* A batch runs on with the CPU paused by its own cpu_step only after that    *)
(* step is told as failed (the with_stepping of cpu_step).                   *)
FreezeIsTold ==
    cpuBy = "batch" /\ batch.pc # "stepping" /\ batch.res # "cancelled" =>
        \E n \in Failures : batch.plan[n].type = "cpu_step"

(* "later press/wait steps must not act on a frozen CPU" (cpu_step in          *)
(* _execute_batch): no button is pressed on a CPU the batch left paused.     *)
NoFrozenPress == StepsAt("press") => cpuBy # "batch"

(* A batch reports success exactly when no step failed and all ran, and one *)
(* that aborts runs nothing after its first failure.                       *)
FailureIsTold ==
    StepsAt("end") =>
        /\ batch.res = "ok" => Len(batch.results) = Len(batch.plan) /\ Failures = {}
        /\ batch.res = "BATCH_STEP_FAILED" => Failures # {}
        /\ batch.res \in {"ok", "BATCH_STEP_FAILED"} /\ Len(batch.results) < Len(batch.plan) =>
              batch.abort /\ Failures = {Len(batch.results)}

(* _execute_batch tells of everything that went wrong in it, under either    *)
(* failure policy, a CPU it left paused included.                            *)
BatchIsTold == FreezeIsTold /\ FailureIsTold
=============================================================================
