----------------------------- MODULE BatchJobs -----------------------------
(***************************************************************************)
(* Background batches: the registry of core/batch_jobs.py, the tools that  *)
(* submit to it and cancel (tools/batch_step.py, tools/scan.py), the task  *)
(* that runs each job, and the session lock the job shares with the tool   *)
(* calls of other clients (session/client_helper.py).                      *)
(*                                                                         *)
(* A job is named by its batch id before it exists: the request that may   *)
(* submit it is part of it.  Everything is on one event loop, so what runs *)
(* between two awaits is one step.                                         *)
(***************************************************************************)
EXTENDS Naturals, Sequences

CONSTANTS
    Sessions,   \* the sessions
    Jobs,       \* the batch ids, each requested at most once
    Callers,    \* foreground tool calls
    Retention,  \* FINISHED_JOB_RETENTION
    Steps,      \* steps of a batch, or chunks of a scan
    None        \* no status, no session, no lock owner

Active == {"queued", "running"}
Terminal == {"completed", "failed", "cancelled"}

ASSUME BatchAssumption == /\ Retention \in Nat
                          /\ Steps \in Nat
                          /\ Jobs \cap Callers = {}
                          /\ None \notin Jobs \cup Callers \cup Sessions
                          /\ None \notin Active \cup Terminal

VARIABLES
    job,       \* BatchJob, and where its request or its task is
    table,     \* BatchJobRegistry._jobs: the ids it knows
    finished,  \* BatchJobRegistry._finished_order
    call,      \* the foreground calls
    owner,     \* of each session's lock
    depth      \* of each session's lock: nested acquires of its owner

vars == <<job, table, finished, call, owner, depth>>

Init ==
    /\ job = [b \in Jobs |-> [pc |-> "new", sid |-> None, status |-> None,
                              executed |-> 0, bad |-> FALSE, cancel |-> FALSE]]
    /\ table = {}
    /\ finished = <<>>
    /\ call = [c \in Callers |-> [pc |-> "ready", sid |-> None]]
    /\ owner = [s \in Sessions |-> None]
    /\ depth = [s \in Sessions |-> 0]

Becomes(b, r) == job' = [job EXCEPT ![b] = r]

-----------------------------------------------------------------------------
(* Submitting *)

\* Mutant: queued jobs are not counted.
RunningJobs(s) == {b \in table : job[b].sid = s /\ job[b].status = "running"}

\* running_job_for_session
ActiveJobs(s) == {b \in table : job[b].sid = s /\ job[b].status \in Active}

\* The tool awaits validate_session_alive.
Request(b, s) ==
    /\ job[b].pc = "new"
    /\ Becomes(b, [job[b] EXCEPT !.pc = "validating", !.sid = s])
    /\ UNCHANGED <<table, finished, call, owner, depth>>

\* The session is gone, or has an active job.
Refuse(b) ==
    /\ job[b].pc = "validating"
    /\ Becomes(b, [job[b] EXCEPT !.pc = "refused", !.sid = None])
    /\ UNCHANGED <<table, finished, call, owner, depth>>

\* Past the await, the check and the submission are one step.
Submit(b) ==
    /\ job[b].pc = "validating"
    /\ ActiveJobs(job[b].sid) = {}
    /\ Becomes(b, [job[b] EXCEPT !.pc = "scheduled", !.status = "queued"])
    /\ table' = table \cup {b}
    /\ UNCHANGED <<finished, call, owner, depth>>

-----------------------------------------------------------------------------
(* Finishing *)

\* How many finished jobs _evict_finished drops, oldest first.
Overflow(f) == IF Len(f) > Retention THEN Len(f) - Retention ELSE 0

\* Mutant: the newest finished jobs are dropped.
EvictedNewest(f) == {f[i] : i \in (Len(f) - Overflow(f) + 1) .. Len(f)}

Evicted(f) == {f[i] : i \in 1 .. Overflow(f)}
Kept(f) == SubSeq(f, Overflow(f) + 1, Len(f))

\* The job turns terminal, joins the finished ones and the window is kept.
Finish(b, status) ==
    LET f == Append(finished, b)
    IN  /\ Becomes(b, [job[b] EXCEPT !.pc = "ended", !.status = status,
                                        !.cancel = FALSE])
        /\ finished' = Kept(f)
        /\ table' = table \ Evicted(f)

\* Mutant: one level of a nested lock is released.
UnlockOne(t, s) ==
    IF owner[s] = t
    THEN /\ depth' = [depth EXCEPT ![s] = @ - 1]
         /\ owner' = [owner EXCEPT ![s] = IF depth[s] = 1 THEN None ELSE @]
    ELSE UNCHANGED <<owner, depth>>

\* A task's contexts are unwound: every level it holds is released.
Unlock(t, s) ==
    IF owner[s] = t
    THEN /\ owner' = [owner EXCEPT ![s] = None]
         /\ depth' = [depth EXCEPT ![s] = 0]
    ELSE UNCHANGED <<owner, depth>>

Lock(t, s) == /\ owner[s] = None
              /\ owner' = [owner EXCEPT ![s] = t]
              /\ depth' = [depth EXCEPT ![s] = 1]

-----------------------------------------------------------------------------
(* The task of a job: BatchJobRegistry._run around the tool's runner.  A    *)
(* task with a cancel pending resumes only with the CancelledError.        *)

\* Mutant: a task cancelled before its first step runs.
StartCancelled(b) ==
    /\ job[b].pc = "scheduled"
    /\ Becomes(b, [job[b] EXCEPT !.pc = "waiting", !.status = "running"])
    /\ UNCHANGED <<table, finished, call, owner, depth>>

Start(b) ==
    /\ job[b].pc = "scheduled"
    /\ ~job[b].cancel
    /\ Becomes(b, [job[b] EXCEPT !.pc = "waiting", !.status = "running"])
    /\ UNCHANGED <<table, finished, call, owner, depth>>

\* A task cancelled before its first step: CancelledError is thrown at the
\* coroutine's entry, and none of _run's handlers runs.
NeverStarts(b) ==
    /\ job[b].pc = "scheduled"
    /\ job[b].cancel
    /\ Becomes(b, [job[b] EXCEPT !.pc = "ended", !.cancel = FALSE])
    /\ UNCHANGED <<table, finished, call, owner, depth>>

Acquire(b) ==
    /\ job[b].pc = "waiting"
    /\ ~job[b].cancel
    /\ Lock(b, job[b].sid)
    /\ Becomes(b, [job[b] EXCEPT !.pc = "body"])
    /\ UNCHANGED <<table, finished, call>>

\* Mutant: the steps are not counted against the list.
StepUnbounded(b) ==
    /\ job[b].pc = "body"
    /\ ~job[b].cancel
    /\ Becomes(b, [job[b] EXCEPT !.executed = @ + 1])
    /\ UNCHANGED <<table, finished, call, owner, depth>>

\* A step is over and reported, with success or, recorded, with a failure.
Step(b) ==
    /\ job[b].pc = "body"
    /\ ~job[b].cancel
    /\ job[b].executed < Steps
    /\ \E bad \in BOOLEAN :
         Becomes(b, [job[b] EXCEPT !.executed = @ + 1, !.bad = @ \/ bad])
    /\ UNCHANGED <<table, finished, call, owner, depth>>

\* A screenshot step opens the session's context again, in the same task.
Nest(b) ==
    /\ job[b].pc = "body"
    /\ ~job[b].cancel
    /\ job[b].executed < Steps
    /\ Becomes(b, [job[b] EXCEPT !.pc = "nested"])
    /\ depth' = [depth EXCEPT ![job[b].sid] = @ + 1]
    /\ UNCHANGED <<table, finished, call, owner>>

Unnest(b) ==
    /\ job[b].pc = "nested"
    /\ ~job[b].cancel
    /\ \E bad \in BOOLEAN :
         Becomes(b, [job[b] EXCEPT !.pc = "body", !.executed = @ + 1,
                                     !.bad = @ \/ bad])
    /\ depth' = [depth EXCEPT ![job[b].sid] = @ - 1]
    /\ UNCHANGED <<table, finished, call, owner>>

\* The runner ends: after the last step, or after a failed one with
\* on_failure="abort".  A batch with a failed step is a failed job.
End(b) ==
    /\ job[b].pc = "body"
    /\ ~job[b].cancel
    /\ job[b].executed = Steps \/ job[b].bad
    /\ Finish(b, IF job[b].bad THEN "failed" ELSE "completed")
    /\ Unlock(b, job[b].sid)
    /\ UNCHANGED call

\* Busy, session gone, connection refused, scan budget exceeded, or an error
\* while the context closes: the runner raises.
Fail(b) ==
    /\ job[b].pc \in {"waiting", "body"}
    /\ Finish(b, "failed")
    /\ Unlock(b, job[b].sid)
    /\ UNCHANGED call

\* The CancelledError of a cancel reaches _run.
Cancelled(b) ==
    /\ job[b].pc \in {"waiting", "body", "nested"}
    /\ job[b].cancel
    /\ Finish(b, "cancelled")
    /\ Unlock(b, job[b].sid)
    /\ UNCHANGED call

\* WsTransport.connect suppresses a CancelledError that meets it while it
\* waits for the old receive loop, and so does close: the job goes on.
CancelSwallowed(b) ==
    /\ job[b].pc \in {"body", "nested"}
    /\ job[b].cancel
    /\ Becomes(b, [job[b] EXCEPT !.cancel = FALSE])
    /\ UNCHANGED <<table, finished, call, owner, depth>>

-----------------------------------------------------------------------------
(* ppsspp_batch_cancel and other tool calls *)

\* Mutant: a queued job's status is left to its task.
CancelQueuedOnly(b) ==
    /\ b \in table
    /\ job[b].status = "queued"
    /\ ~job[b].cancel
    /\ Becomes(b, [job[b] EXCEPT !.cancel = TRUE])
    /\ UNCHANGED <<table, finished, call, owner, depth>>

\* A job that has not started is recorded as cancelled here.
CancelQueued(b) ==
    /\ b \in table
    /\ job[b].status = "queued"
    /\ LET f == Append(finished, b)
       IN  /\ Becomes(b, [job[b] EXCEPT !.status = "cancelled", !.cancel = TRUE])
           /\ finished' = Kept(f)
           /\ table' = table \ Evicted(f)
    /\ UNCHANGED <<call, owner, depth>>

CancelRunning(b) ==
    /\ b \in table
    /\ job[b].status = "running"
    /\ ~job[b].cancel
    /\ Becomes(b, [job[b] EXCEPT !.cancel = TRUE])
    /\ UNCHANGED <<table, finished, call, owner, depth>>

CallWait(c, s) ==
    /\ call[c].pc = "ready"
    /\ call' = [call EXCEPT ![c] = [pc |-> "waiting", sid |-> s]]
    /\ UNCHANGED <<job, table, finished, owner, depth>>

CallAcquire(c) ==
    /\ call[c].pc = "waiting"
    /\ Lock(c, call[c].sid)
    /\ call' = [call EXCEPT ![c].pc = "body"]
    /\ UNCHANGED <<job, table, finished>>

\* The call ends: its body is over, or it is busy, or it is cancelled.
CallEnd(c) ==
    /\ call[c].pc \in {"waiting", "body"}
    /\ Unlock(c, call[c].sid)
    /\ call' = [call EXCEPT ![c] = [pc |-> "done", sid |-> None]]
    /\ UNCHANGED <<job, table, finished>>

TaskStep(b) == \/ Start(b) \/ NeverStarts(b) \/ Acquire(b) \/ Step(b) \/ Nest(b)
               \/ Unnest(b) \/ End(b) \/ Fail(b) \/ Cancelled(b)

Next ==
    \/ \E b \in Jobs : \/ \E s \in Sessions : Request(b, s)
                       \/ Refuse(b) \/ Submit(b) \/ TaskStep(b)
                       \/ CancelSwallowed(b) \/ CancelQueued(b) \/ CancelRunning(b)
    \/ \E c \in Callers : \/ \E s \in Sessions : CallWait(c, s)
                          \/ CallAcquire(c) \/ CallEnd(c)

Spec == Init /\ [][Next]_vars

\* The event loop runs a task that can go on; every wait of a step is bounded
\* by a timeout, and an acquire by SESSION_BUSY_TIMEOUT_S.
FairSpec == Spec /\ \A b \in Jobs : WF_vars(TaskStep(b))
-----------------------------------------------------------------------------
(* Properties *)

JobType == [pc : {"new", "validating", "refused", "scheduled", "waiting",
                  "body", "nested", "ended"},
            sid : Sessions \cup {None}, status : Active \cup Terminal \cup {None},
            executed : 0 .. Steps, bad : BOOLEAN, cancel : BOOLEAN]

Placed(j) == /\ j.pc \notin {"new", "refused"} => j.sid \in Sessions
             /\ j.pc = "nested" => j.executed < Steps

JobsOK == /\ job \in [Jobs -> JobType]
          /\ \A b \in Jobs : Placed(job[b])

CallsOK == /\ call \in [Callers -> [pc : {"ready", "waiting", "body", "done"},
                                    sid : Sessions \cup {None}]]
           /\ \A c \in Callers :
                call[c].pc \in {"waiting", "body"} => call[c].sid \in Sessions

TablesOK == table \subseteq Jobs /\ finished \in Seq(Jobs)

LocksOK == /\ owner \in [Sessions -> Jobs \cup Callers \cup {None}]
           /\ depth \in [Sessions -> Nat]

\* Every variable stays in its type, and what is past its request knows its
\* session and its place in the list (the registry's tables, the locks and the tasks' locals).
TypeOK == JobsOK /\ CallsOK /\ TablesOK /\ LocksOK

\* At most one background job of a session is queued or running: the second
\* submission is refused, though both validated the session at the same time.
OneActivePerSession ==
    \A a, b \in Jobs :
        /\ job[a].status \in Active /\ job[b].status \in Active
        /\ job[a].sid = job[b].sid
        => a = b

\* The registry's two tables agree: an active job is always known, the
\* finished order lists each retained finished job once and nothing else, and
\* it never outgrows the window ("queued/running jobs are never evicted").
RegistryInv ==
    /\ \A b \in Jobs :
         /\ job[b].status \in Active => b \in table
         /\ b \in table => job[b].status # None
         /\ (b \in table /\ job[b].status \in Terminal)
              <=> \E i \in 1 .. Len(finished) : finished[i] = b
    /\ \A i, j \in 1 .. Len(finished) : finished[i] = finished[j] => i = j
    /\ Len(finished) <= Retention

\* What the status says of the task: a job is active from its submission to
\* the end of its task, and queued exactly until the task first runs.
StatusFollowsTask ==
    \A b \in Jobs :
        /\ job[b].pc \in {"waiting", "body", "nested"} <=> job[b].status = "running"
        /\ job[b].status = "queued" <=> job[b].pc = "scheduled" /\ ~job[b].cancel
        /\ job[b].pc = "scheduled" /\ job[b].cancel => job[b].status = "cancelled"
        /\ job[b].pc = "ended" => job[b].status \in Terminal
        /\ job[b].pc \in {"new", "validating", "refused"} =>
             job[b].status = None /\ ~job[b].cancel /\ b \notin table

\* The session lock is held by the job or the call whose body runs, twice
\* while a job's screenshot step nests: a finished or cancelled job holds
\* nothing, so other tools can use the session at once.
LockFollowsBody ==
    \A s \in Sessions :
        /\ \A b \in Jobs : owner[s] = b <=> /\ job[b].sid = s
                                            /\ job[b].pc \in {"body", "nested"}
        /\ \A c \in Callers : owner[s] = c <=> call[c].sid = s /\ call[c].pc = "body"
        /\ depth[s] = IF owner[s] = None THEN 0
                      ELSE IF \E b \in Jobs : owner[s] = b /\ job[b].pc = "nested"
                           THEN 2 ELSE 1

\* A terminal status is final: no late step of the task, no second cancel and
\* no start of a cancelled task changes what a poller has seen.
TerminalIsFinal ==
    [][\A b \in Jobs : job[b].status \in Terminal =>
         /\ job'[b].status = job[b].status
         /\ job'[b].executed = job[b].executed]_vars

\* A submitted job reaches a terminal status, cancelled before it started or
\* not, so it never blocks its session for ever.
JobsEnd == \A b \in Jobs : job[b].status = "queued" ~> job[b].status \in Terminal
=============================================================================
