# Formal model of ppsspp-dfx-mcp

ppsspp-dfx-mcp is an MCP server that lets clients debug games running in the
PPSSPP emulator. It launches emulator processes, keeps one debugging session
per process, speaks PPSSPP's WebSocket debugger protocol, and offers some forty
tools over it. It is one asyncio program: its races are between coroutines that
interleave at their awaits, between a coroutine and the worker threads it
started, and between the server and the emulator, which may crash, hang, drop
the connection, not answer, or be used by a person at the same time.

This directory holds TLA+ models of that program, TLC configurations that check
them on small instances, and TLAPS proofs for every instance. Paths below are
relative to `src/ppsspp_dfx_mcp/`, and line numbers are those of the commit the
models were written from. `PROJECT.json` maps every definition to its lines.

- [Inventory](#inventory) of the system
- [Modules](#modules) and how they correspond to the code
- [Runs](#runs), their bounds, and what they show
- [Fairness](#fairness)
- [Proofs](#proofs)
- [Observed disagreements](#observed-disagreements) between the code and what it says of itself
- [Not modelled](#not-modelled)
- [Plan](#plan)

## Inventory

### Components

| Component | State it keeps | Operations | Model |
|---|---|---|---|
| Session life cycle, `session/session_manager.py` | `sessions.json`; `_launchers`, `_transports`, `_observers`, `_session_locks`; `_lock` | `start_session` (plain, or resilient: probe, gate, tear down, relaunch), `stop_session` in three phases, `gc_idle_sessions`, `touch_session` | `SessionLifecycle`, `SessionStore` |
| Tool call context, `session/client_helper.py` | one lock per session with same-task reentrancy; an error context | liveness check, touch, lock with busy timeout, body; the choice of a session | `SessionLifecycle`, `BatchJobs`, `CallDiagnosis`, `FrontDoor` |
| WebSocket transport, `core/transport.py` | `ws`, `_recv_task`, `_pending`, `_reconnect_lock`, `_probing_stepping` | `call`, `send_version`, stepping probe, reconnect, `close`, receive loop | `WsTransport` |
| Background batches, `core/batch_jobs.py`, `tools/batch_step.py` | `_jobs`, `_finished_order`, one task per job; the results of its steps | submit, run step by step under a deadline, cancel, evict | `BatchJobs`, `BatchSteps` |
| Game state observer, `core/game_state_observer.py` | event queues, subscriptions, the life of the game | dispatch, subscribe, consume, drain | `CpuControl`, `CallDiagnosis` |
| CPU stepping, `core/stepping.py`, `service/stepping_service.py`, `tools/step.py` | the emulator's run state | pause, resume, `with_stepping`, step and run-until, each confirmed by a broadcast | `CpuControl` |
| Breakpoint wait and trace, `tools/workflows.py` | subscriptions; the breakpoint armed for one trace | look, wait, judge, resume, disarm on every path | `BreakpointWait` |
| Breakpoints, `tools/breakpoint.py`, `core/cond_filter.py` | PPSSPP's table; conditions by session and address | set, remove, update, list, of both kinds | `BreakpointTable` |
| Launcher and boot gate, `core/launcher.py`, `session/safe_boot.py`, `core/proc.py` | the process, its settings file, its port; the GPU lists | choose, write, spawn, wait for the port, check who listens, gate, heal, relaunch | `Launcher` |
| Wire contract and query tools, `core/ws_contract.py`, `tools/query.py` and others | none; the emulator's run state | requests in and out of pause blocks | `QueryTools` |
| GPU requests and call diagnosis, `service/gpu_service.py`, `core/call_diagnostics.py`, `core/call_attribution.py`, `errors.py` | the ring of call records | probe, ask, time out, attribute, translate | `CallDiagnosis` |
| Write guard, `service/memory_protection.py`, `tools/memory.py`, `tools/assemble.py` | memory | judge twice, write once, or instruction by instruction | `WriteGuard` |
| Scans, `service/scan_service.py`, `service/scan_engine.py`, `tools/scan.py`, `tools/watch_value.py` | a cursor over memory | pattern, value, string scans, narrowing, watch | `MemoryScan` |
| Side tables, `tools/scan.py`, `tools/diff.py`, `service/probe_observer.py`, `core/value_staleness.py` | candidates, snapshots, probes, zero streaks | read, insert with eviction, compare, register, clear | `SideTables` |
| Search, log and health, `tools/search_disasm.py`, `tools/analyze.py`, `tools/smoke.py`, `tools/introspect.py` | a list under construction | match loop, log filter, battery of checks | `SearchTools` |
| Replay and input, `tools/replay.py`, `tools/input.py`, `models/replay.py` | PPSSPP's recorder; `.ppr` files; held buttons | record, save, load, execute, wait, press, release | `Playback` |
| Captures, `service/capture.py`, `service/screenshot_service.py` | the screenshot directory | three methods in turn, polling for a file | `Capture` |
| Scripts and registry, `tools/script.py`, `spec/script_manifest.py`, `registry.py`, `server.py` | manifest entries, module cache, registered tools | list, run, reload, reconcile | `ScriptTools` |
| Middleware and session tool, `middleware.py`, `tools/session.py` | token buckets | admit, prune, validate, dispatch; start, stop, status | `FrontDoor` |
| Models, views, logging, prompts, resources | none | rendering | no |

### How they interact

A request passes the middleware (`FrontDoor`) and reaches a tool. A tool call
runs `session_client_with_transport`: it loads the record and looks whether the
recorded process lives, marks the session as used, takes the session's lock
(created on first use, replaced by a sentinel while a stop is under way), and
drives the emulator through the session's transport. Each request is a ticket
in the transport; broadcasts go through the observer into queues that the
stepping manager and the waits consume. A start launches a process, records it,
connects, and registers transport and observer. A stop and the collector take
those entries out of the tables, close the handles, kill the process and remove
the record, awaiting between these steps. A background batch is a task that
runs the same context as a tool call and holds the session's lock for its whole
length, up to an hour. Waits and traces give the lock up while they wait. The
side tables belong to the process and not to a session, and each call reads
memory between its look into a table and its change of it.

### What is hard, and what must hold

- *Life cycle.* A stop or a collector cycle reads its tables, then awaits a
  close and a kill, then writes; a start does the same over launch, probe,
  connect and bind. Every interleaving must leave each process with an owner
  that can still find and kill it, no open handle without an owner, no second
  lock object for one process, no lock entry or sentinel left behind; and a
  stop that returned must stay final. Kills and saves may fail, a process may
  die, a client may cancel, and starts, stops and calls must still end.
- *Store.* Load, change and save are three steps; the save is a thread that
  outlives its cancelled coroutine. No update may be lost, and the file must be
  a whole document at every instant, since the server may die at any.
- *Batches.* Two submissions validate at once; a task may be cancelled before
  its first step, in a nested context, or where the transport swallows the
  cancel; finished jobs leave a bounded window. At most one active job per
  session, final results, a lock that follows the running body, an end to each
  job, and within a job nothing that went wrong may pass as a success, a CPU
  left paused included.
- *Transport.* Calls contain calls: a call may start a reconnect, a reconnect
  makes a call, and a call that times out makes a call. Tickets must not leak,
  two loops must not read at once, an open socket must have a reader, and each
  call must end.
- *CPU.* Confirmations are broadcasts in bounded queues that may hold older
  ones; a pause may be given up on and applied late; a hit may fall between a
  look and a subscription, or between a cleanup and a resume. The tools must
  leave the CPU as they found it and miss nothing.
- *Emulated state.* Requests have CPU states in which PPSSPP refuses them or
  never answers; probes get lost inside nested pause blocks; an answer may be
  lost after its effect; memory has holes and reads are cut short; a search
  continues from a cursor that wraps around. What is reported must be what is
  there, or be marked as incomplete, and the verdict on a timeout must rest on
  true records.
- *Shared tables and files.* Several calls make room in one table at once; a
  configuration file changes under a cached copy; a recording or a screenshot
  is read while it is written; reloads of the script manifest overlap.

`PROJECT.json` lists these as hazards, each at its line with the properties
that cover it.

## Modules

Every module but the last kind states its variables, one action per handler or
per stretch between two awaits, a next-state relation, and its properties.
Definitions marked `Mutant` are plausible mistakes in the code, one for each
property of a run, under which the property fails: they are evidence that the
property can.

### `SessionLifecycle`

One start task per session, any number of stops and tool calls, and the
collector, as program counters over the manager's tables. An action is what a
coroutine does between two awaits, or one worker-thread effect.

| Variables | Code |
|---|---|
| `alive`, `open` | the operating system's processes; transports and observers whose loop runs |
| `record`, `idle` | `sessions.json`: the launch attempt whose pid it names, and which records are past the idle threshold |
| `launchers`, `handles`, `locks` | `_launchers`; `_transports` with `_observers`, always written together; `_session_locks` |
| `lockCount` | how many lock objects `session_lock` created for a session (an `asyncio.Lock` has an identity, a table entry has not) |
| `start`, `stop`, `gc`, `call` | the coroutines with their locals: what each has popped or snapshot |
| `budget` | what is left of the crashes, idle expiries and cancellations a run allows |

A process is `<<s, n>>`, attempt `n` of session `s`, so a relaunch under the same
id is a different process with the same table key. `Raise`, `Return` and
`Wedge` are the three ways out of a start attempt (between the bind and the gate's
verdict there is no await, so they are one step, and a wedged attempt leaves its
record behind); `StopLookup`, `StopClose`,
`StopKill`, `StopRemove` are the phases of `stop_session`; `GcScan` to
`GcRemove` those of the collector. A region under `_lock` is one step here,
which is what `SessionStore` is about. A launch is a success or a failure here;
`Launcher` is about what happens in one.

### `SessionStore` implements `AtomicSessionTable`

`AtomicSessionTable` says what a reader of `sessions.json` is promised: a table
that changes by whole updates. `SessionStore` is the code: the lock, the
request's load and change, the saving thread with its open, write and rename,
the temporary name shared by all saves of one server, failures, cancellation,
and the death of the server. Files are inodes, because a rename moves what the
name means at that moment. The refinement mapping is `table <- Stored`, what a
load would return now.

### `BatchJobs` and `BatchSteps`

In `BatchJobs`, `job[b]` is a `BatchJob` together with the place of its request
or task; `table` and `finished` are the registry's `_jobs` and
`_finished_order`; `owner` and `depth` are the session lock with its
reentrancy. A pending `CancelledError` is the flag `cancel`: a task that has one
resumes only to unwind (`Cancelled`), never starts (`NeverStarts`), or loses it
(`CancelSwallowed`: the transport suppresses a cancel that meets its wait for an
old receive loop). A step is a success or a failure there.

`BatchSteps` is what one job does: the validation of its list, the gate of its
estimated time, and the loop over press, wait, probe, CPU and screenshot steps
with the remaining time as each step's timeout (`Allowance`). `cpuBy` says who
paused the CPU; `Left` is how a CPU step may leave it, paused where its resume
failed or its pause came late. Such a step is told as failed, and unless the batch
aborts the steps behind it run on the paused CPU (`NoFrozenPress`, below).

### `WsTransport`

A tool call is a stack of `tool`, `version` and `probe` frames; the top one may
have a ticket. `loop[i]` is the receive loop started for socket `i`, `reader` is
`_recv_task`, which is not always the loop of the assigned socket. `Drop` and
`Lost` are the peer; `Close` to `CloseSocket` are `close()` as `stop_session`
calls it. One assumption about the `websockets` library is made explicit in
`Woken`: the loop that reads a closed socket is resumed before a new connection
has been opened, which needs several network round trips.

### `CpuControl` and `BreakpointWait`

`CpuControl` is the emulator (`cpu`, with a tick count and who caused the last
stop), the commands and broadcasts under way (`cmds`, `wire`), the observer's two
bounded queues `stepQ` and `resumeQ` and its subscriptions `subs`, the session
lock, and one program counter per tool call. `Probe`, `Stop`, `Paused` and `Leave`
are the awaits of `SteppingManager`; `Fire`, `Advanced` and `Confirm` are the step
methods with the filter of `service/stepping_service.py`. `BreakpointWait` extends
it with armed breakpoints and conditions and with the calls that give up the lock
while they wait; its next-state relation contains all of `CpuControl`'s steps. A
trace that hit takes one of two ways: `Capture`, `Disarm`, `Traced` remove the
breakpoint and then resume; `CaptureFails`, `Fail`, `Recover`, `Release` are the
handler of a failed capture (`tools/workflows.py:692-714`), which resumes first,
with the breakpoint armed, removes it in its `finally`, and raises.

### `BreakpointTable`

`points` is PPSSPP's table, `filters` the condition registry, `edit` the edit in
progress between its look (`find`) and its request. `doubt` holds the addresses
at which a lost answer, or PPSSPP's user, took the server's view apart from
PPSSPP's.

### `QueryTools`

`Contract` is `WS_EVENT_CONTRACTS`: the state of the CPU each event needs.
`RegisterCalls` to `FlipCalls` are the client's methods, `QueryPlans` to
`SafePcPlan` the tools, as the sequence of what they do: enter and leave a pause
block, probe, ask, or ask without caring. The actions run one plan, with nested
blocks in `ask.resumes`, while others pause and resume (`Meddles`).

### `CallDiagnosis`

`emu` is the game's life and whether it steps, `observer` what the server knows
of it, `wire` the broadcasts between. `ring` is the ring of call records,
`request[c]` a call from its probes to its translation: `SettleIn` ends a record,
`AttributeTimeout` judges by the records, `ToToolError` is the mapping of exceptions to
error codes with the context that outlives the session scope. `Report` is the way
of an exception out of a tool: first the handlers of `gpu_stats` (`Handled`), which
look for a `WsTimeout` or a suspected freeze and ask the frame heartbeat
(`IsRendering`, which is never started and says nothing), and only then the
decorator that makes a `WsTimeout` or a suspected freeze of a bare `TimeoutError`.

### `WriteGuard`, `MemoryScan`, `SideTables`

`WriteGuard` judges one write at a time, first by the configured extent, then by
the module list (or its absence), and lets `assemble` fail in the middle.
`MemoryScan` moves one cursor over a memory with a hole: a read is short, late,
refused or good, and `clean` says whether one that PPSSPP could have answered was
not. A narrowing drops the candidates of such a read (`NarrowRun`,
`tools/scan.py:719-735`). `SideTables` has several calls between their look into a table
and their insertion, with eviction, the lazily seeded probe registry and the
counts of zero readings.

### `Playback`, `Capture`, `SearchTools`

`Playback` is PPSSPP's recorder and pad (`psp`), the recordings on disk with their
half-written state, one call at a time, and a frame wait that holds no lock. A
`.ppr` file is absent, whole or partial; a cancelled write leaves its thread at
work, and with it any of the three. What `execute` is given is the caller's own
and may hold no frame. `Capture` has one emulator and one capture per session and
a directory shared by all. `SearchTools` has one job of the three that build a
list: matches, log lines, checks.

### `Launcher`

`site` is the configuration and the machine (what the environment variables of
`config.py` allow, whether PPSSPP listens on every interface, whether the wait
can name the owner of a port), `boot` the start, `lnch` the `PpssppLauncher`,
`owner` who listens on which port, `lists` the files of failed graphics backends,
`inis` the settings files in the temporary directory, of which `kept` are those
the file system did not let the server write whole or remove. Each await of
`start` and of the gate is a step at which it may fail, the choice of a port, the
settings file and the reading of the lists included. `lsof`, `ss` and `netstat` may
fail or time out anew at each call: a step that asks them chooses which `answers`
come.

### `ScriptTools`, `FrontDoor`

`ScriptTools` separates the code on disk, Python's bytecode beside it (`pyc`, with
the size and whole-second mtime it was made for, `look`), the cached module, the
entries of the manifest, the bookkeeping (`registry`) and the SDK's tools (`tools`), with
overlapping reloads. `FrontDoor` has the buckets with their clock, their
pruning, the chain of checks, and the session tool.

### MC modules

`MCSessionLifecycle`, `MCSessionStore`, `MCBatchJobs`, `MCWsTransport` and
`MCBreakpointWait` declare model values and the symmetry of interchangeable calls.
`MCTools` instantiates the thirteen modules that share no state: a behaviour picks
one `part` of those its cfg lists and takes its steps alone, so that one run
checks them side by side without the product of their states. Each of the thirteen
ends with one property that conjoins what it promises; the conjuncts have names
and comments of their own.

## Runs

Deadlock checking is off everywhere: each request is made a bounded number of
times, so a behaviour may come to its end. That the system stops only where it
should is what the liveness properties say.

| Run | Instance | States | Shows |
|---|---|---|---|
| `LifecyclePlain` | 2 plain sessions (one found in the file at start), 2 calls, 2 stops, one fixed port, 1 crash, 1 idle expiry | 129,462 | `OneCallPerProcess`, `StopIsFinal`, `LocksTransient`, `NoLateEntry`, `ProcessFindable` |
| `LifecycleCollect` | 2 plain sessions, 2 calls, 1 stop, 1 collector cycle, 1 idle expiry; launcher kills and the collector's save may fail | 553,092 | `ProcessFindable` |
| `LifecycleHeal` | 2 resilient sessions, up to 2 relaunches each, one port, 1 call, 1 crash; saves may fail | 395,278 | `TypeOK`, `NothingOrphaned` |
| `LifecycleLive` | a resilient session with 1 relaunch, a restored one, 1 call, 1 stop, 1 cancellation; every kind of failure outside the collector | 101,051 | `StartsEnd`, `StopsEnd`, `CallsEnd` |
| `StoreAtomic` | 3 requests of any kind on 2 sessions, failing saves, cancellation while loading, 1 server death | 339,611 | `StoreInv`, `LockFreed`, `StoreIsAtomic` |
| `BatchRegistry` | 3 jobs, 2 sessions, 1 foreground call, window of 1, 1 step | 409,872 | `TypeOK`, `OneActivePerSession`, `RegistryInv`, `LockFollowsBody`, `TerminalIsFinal`, `JobsEnd` |
| `TransportCalls` | 2 tool calls, 3 sockets, 2 losses, 1 cancellation, 1 `close()` | 161,572 | `TypeOK`, `SocketsAreServed`, `CallsEnd` |
| `CpuTools` | 2 calls of any of 12 operations, 1 breakpoint, queues of 2, 4 stops, 1 lost probe, 1 cancellation | 1,823,458 | `CpuSafe`, `TraceReleases`, `WaitMissesNothing`, `ResumeIsFresh` |
| `ServerTools` | the thirteen parts below | 2,655,236 | one property for each part |
| `LifecycleRelaunch` | 1 resilient session, 1 relaunch, 1 stop | 278 | a counterexample to `StopIsFinal` |
| `SessionBudgetIsOwn` | 2 sessions, 1 tool, a session id in the arguments | 576 | a counterexample to `SessionBudgetIsOwn` |
| `LoopIgnoresEnd` | code of 4 words, ends 0, 3 and 4 | 52,250 | a counterexample to `LoopIgnoresEnd` |

The states of a run that ends in a counterexample are those TLC had found by then,
and differ a little from one execution to the next.

The parts of `ServerTools`, by the module each is of:

| Part | States | Property | conjoins |
|---|---|---|---|
| `guard`, `WriteGuard` | 3,400 | `WritesAreAccounted` | `UnforcedIsClear`, `PartialIsReported` |
| `scan`, `MemoryScan` | 140,000 | `ScansAreExact` | `ScanFinds`, `ValueScanFinds`, `NarrowIsExact` |
| `tables`, `SideTables` | 116,000 | `TablesHold` | `TablesBounded`, `BaselineSurvives` |
| `breakpoints`, `BreakpointTable` | 160,000 | `EditsAreLocal` | `UpdateKeepsFlags`, `LoneConditionHolds` |
| `search`, `SearchTools` | 86,000 | `ReportsAreComplete` | `SearchFinds`, `TruncationIsTold`, `HeadlineIsHonest` |
| `query`, `QueryTools` | 6,200 | `AsksAreInState` | `AskedInState`, `TrustIsTrue`, `PutBack` |
| `diagnosis`, `CallDiagnosis` | 770,000 | `DiagnosisIsSound` | `FreezeIsNamed`, `RunningIsTrue`, `RecordsSettle` |
| `playback`, `Playback` | 511,000 | `PlaybackIsClean` | `TablesDoNotMix`, `WaitIsHonest`, `PlayedHasFrames` |
| `steps`, `BatchSteps` | 20,000 | `BatchIsTold` | `FreezeIsTold`, `FailureIsTold` |
| `capture`, `Capture` | 24,000 | `ImageIsWhole` | |
| `launcher`, `Launcher` | 214,000 | `StartIsClean` | `NothingLeftBehind`, `ExposureRefused` |
| `scripts`, `ScriptTools` | 414,000 | `ScriptsFollow` | `LoneSyncReconciles`, `RunsEdited`, `FailedReloadKeeps`, `BookMatchesTools` |
| `front`, `FrontDoor` | 192,000 | `AdmittedInSpan` | |

Why these bounds:

- *Life cycle.* Lock identity and handle ownership are per session; the second
  session is there for the port conflict, for the collector's loop over several
  sessions, and for a restored record without a launcher. A lock race needs two
  calls and one task that pops the lock; a second stop is what could find the
  first one's sentinel. The collector keeps no state between cycles but the
  record it did not remove, which `Restored` and an arbitrary initial `idle`
  already give. Two relaunches give an attempt with both a predecessor and a
  successor.
- *Store.* A lost update needs two requests; the third loads what they left.
- *Batches.* A window of 1 with 3 jobs fills, overflows and evicts; two jobs
  compete for one session while a third runs on the other. In `BatchSteps` the
  plans are an invalid one, one refused for its time, and two in which a step
  that may fail precedes one that must not run on its failure.
- *Transport.* The first socket, the one a reconnect opens, and one for a
  reconnect that lost it again; two losses (one to force each) and two calls
  contend for the reconnect lock.
- *CPU.* Queues of 2 drop their oldest with the third stop, and 4 stops leave one
  more. Two calls are the one that is disturbed and the one that disturbs it,
  besides the emulator's own hits.
- *Write guard.* The address space has a kernel of 4 bytes with an exempt one,
  code from 8, declared data at its end, and one module layout for each way the
  extent is decided; every write of up to 6 bytes anywhere.
- *Scans.* Five bytes of two values, a hole anywhere, patterns of up to three
  bytes with chunks of 1 and 2 and one or all results: a pattern spans three
  chunks, and a segment of 4 leaves a rest of 1.
- *Side tables.* A cap of 2 with three callers: two that made room at once and one
  that reads what was evicted.
- *Search.* Four words of code, so that a cursor can wrap below its start; a
  log of 3 lines with a match cap of 2 and one line written meanwhile.
- *Queries.* Two lost answers, one to lose a probe in the outer block and one in
  the inner; one meddling.
- *Diagnosis.* A ring of 2 with 3 tickets evicts; one caller with the lock and one
  without.
- *Playback, capture.* A recording is empty, partial, or of one frame; a file has
  size 0, partial or whole, and at most 2 appear while 4 polls are made.
- *Launcher.* Two attempts, each able to wedge; 2 ports of which one is the
  configured one; at most one settings file that cannot be removed (`MaxKept`), as
  a second one adds nothing that a property tells apart; six hosts with the
  combinations of what the machine can tell and the operator allows that the code
  tells apart.
- *Scripts, front.* The lifespan and one reload overlap, over an edit of the
  manifest and one of the code, which may keep the size and mtime of the text
  before it, so that bytecode of the first version serves for the second; three
  admitted calls over a rate of 1 and two ticks go past a refill and a pruning.

Where a property is checked without some failure, it is because the code does
not keep it there; each such case is listed among the
[observed disagreements](#observed-disagreements) with the instance that shows it.

## Fairness

The event loop runs every task that is ready, and every wait in the code is
bounded: worker threads end, `launcher.start`, probes, calls, closes and lock
acquires have timeouts, batches have a step list. So each step of a task that
has begun is weakly fair. Nothing makes a request arrive, a client cancel, a
process crash, a connection drop, a session turn idle or the collector begin:
these are unfair.

- `SessionLifecycle`: `WF` of each launched start, each stop past its lookup,
  the collector past its scan, and each call past its check. The choice
  between success and failure of a step is not fair: `StartsEnd` holds even if
  each attempt is wedged, because attempts are bounded.
- `SessionStore`: `WF` of each request's and its thread's steps.
- `BatchJobs`: `WF` of the steps of each job's task. Foreground calls are not
  fair: a job that waits behind one ends by its busy timeout.
- `WsTransport`: `SF` of the steps of a call, because a call that waits for the
  reconnect lock is enabled only between two owners and `asyncio.Lock` is first
  come, first served; `WF` of the loops and of a closing handshake.

The other modules state no fairness: their properties are of what has been
reported, and each of their waits ends by a timeout that is one of its steps.

## Proofs

The eight modules `*_proofs.tla` are checked by TLAPS, for every value of the
constants that the named assumptions of each module allow: 42 theorems over 472
lemmas. They state 34 of the 40 properties the passing runs check. Each module
starts from an inductive invariant whose parts have names and comments; what
follows says which part does the work, and what a theorem supposes.

**`SessionLifecycle_proofs`.** `TypeCorrect` holds with everything switched on,
resilient starts, failures, cancellation and the collector included; that every
task knows its session at the places where it uses it is part of `TypeOK`,
which is why that is inductive by itself. `LockCorrect` and `MutualExclusion`
assume `Resilient = {}`. `OneCallPerProcess` is not inductive: it says nothing
of calls that wait or are about to create a lock. `LockInv` is: a plain session
never has two lock objects (`lockCount <= 1`), because while it is recorded
its entry is never `None` again once created, and after its record is gone
nobody passes `touch_session`, whose check is in the same step as the creation.
Hence all bodies hold the same object, hence there is one.
Resilient sessions are excluded since `_teardown_wedged_attempt` pops the lock
of a session that stays recorded; the statement is false there (below).

The rest of the module is how plain sessions end. A start of a plain session has
one attempt, so whatever finds the session in the store comes after its only
record was written, and what it takes away does not come back (`OnceInv`): that
is why a stop that returned is final. The other hypotheses exclude steps of the
code that break the statement: with any one of them dropped, TLC finds a
counterexample with one session.

| Theorem | Supposes | Because |
|---|---|---|
| `NoLateEntryCorrect` | `Resilient = {}` | a teardown pops the sentinel with the lock |
| `StopFinalCorrect` | and `"pid" \notin MayFail` | a failing kill of a recorded pid is suppressed and the record removed |
| `SentinelCorrect` | no failing `launcher` or `save`, `MaxCancels = 0` | a stop cut short between its phases leaves its sentinel behind; resilient starts are included |
| `LocksCorrect` | those, `Resilient = {}`, `MaxGcCycles = 0` | the collector removes a record and leaves its lock |
| `FindableCorrect` | `Resilient = {}`, `MayFail \subseteq {"launcher", "reclaim"}`, `MaxCancels = 0` | a cancelled launch, a failing stop inside a failed launch, a suppressed failure to kill a pid, and a start that discards the record while a stop holds its launcher each lose the process or its record |

Crashes, idle expiry, concurrent stops and, but for `LocksCorrect`, any number of
collector cycles are in each of them.

`OrphansCorrect` (`NothingOrphaned`) is the complement: starts on their own, for
any number of sessions, plain, resilient and restored ones mixed, any number of
relaunches, and with crashes, failing saves and conflicts over the port. Its
invariant `CourseInv` is about one session at a time: the only process and the
only handles of a session are those of its last attempt (`OnlyAttempt`), which
holds across a relaunch because an attempt that reaches `wedge_cooldown` has
been stopped and closed; at every place of the start there is one variable,
table entry or local, through which the process is stopped (`ProcessHeld`) and one
through which the handles are closed (`LinkHeld`); and record and tables name
that attempt (`OnCourse`). The record a failed attempt leaves behind may name an
attempt that is gone, which is why the deletion of the record is safe only with
`OnlyAttempt`: whatever it names, nothing of the session runs. It supposes
`Stoppers = {}`, `MaxGcCycles = 0`, `MaxCancels = 0` and `"start" \notin MayFail`;
with any one of these dropped TLC finds a process or handles without an owner,
for a plain as for a resilient session: a stop or a reclaim between two steps of a start,
a cancelled launch, and a failing stop of a failed launch.

**`SessionStore_proofs`.** Assuming that no save is cancelled
(`NoSaveCancelled`): `StoreCorrect`, `FileCorrect` and the refinement
`StoreImplementsAtomic`. `StoreInv` adds to `FileIntact` what makes it
inductive: between load and save a request owns the lock (`OneSaver`), its
temporary file is an inode nobody else writes and not the one named
`sessions.json` (`OwnTemporary`), and the data its thread is going to store is
its change of what is stored *now* (`SavesLatest`). From the last one, the
rename is exactly one abstract update; all other steps, failures and the death
of the server are stutters.

**`BatchJobs_proofs`.** Without assumptions beyond those on the constants:
`BatchTypes`, `OneActive`, `RegistryCorrect`, `LockCorrect` and
`ResultsAreFinal`, all from `BatchCorrect`, the inductive invariant
`TypeOK /\ StatusFollowsTask /\ LockFollowsBody /\ RegistryInv /\
OneActivePerSession`. `OneActivePerSession` alone is not inductive: the check in
`Submit` looks at the registry, so one needs that an active job is never
evicted (`RegistryInv`), which in turn needs that only terminal jobs are in
`_finished_order`, each once; and that a cancelled task which has not started
never becomes active again needs `StatusFollowsTask`.

**`WsTransport_proofs`.** `TypeCorrect` and `ServedCorrect`, for any number of
tool calls, sockets, losses and cancels. `TransportInv` has three parts. A call is
a stack of frames, and only six stacks occur (`Stacks`): the call, with a version
handshake, with a probe, or with one inside the other; where a call is tells
which (`StackFollowsPc`), and that bounds the recursion. A call that connects or
shakes hands owns the reconnect lock (`LockHeld`), so there is one, and while it is
at it there is no open socket on which another could take a ticket
(`Reconnecting`, `ReconnectsExclude`): so the old loop is gone before the new one
starts, and a socket has one reader.

**`CpuTools_proofs`.** `CpuSafe`, `TraceReleases`, `WaitMissesNothing` and
`ResumeIsFresh`, for any number of calls, breakpoints, stops and faults and any
bound of the queues. Each place in the program belongs to an operation
(`InProgram`). A call's step is not looked at action by action: every one has a
shape (`Shape`) that names the record it moves to and the request it sends, and is
lawful (`Lawful`): it holds the CPU only until it sends its resume, drains before
it resumes, ends a trace by way of its disarming, hears stops in order. The
invariants follow from the shape, once: a pause has an owner who will resume or a
resume on the way (`Releases`), a lone trace's breakpoint is armed between its
arming and its disarming only, and one that reports its hit was disarmed before
its resume, so that a CPU it still stops has that resume to come (`Disarms`), a
dispatched stop is in the subscription or heard (`Listens`), and what a resume
with nothing in flight hears comes after it (`HearsAfter`).

**`MemoryTools_proofs`.** `WritesCorrect`: the extent the guard protects contains
the game's code whether the module list came or not (`CodeIsCovered`): it is the
largest entry of the list, or the extent assumed when there is none; a write that
is clear of it in the session is clear of the code. A partial report is right
because between two instructions memory holds exactly those that are done
(`InStep`). `TablesCorrect`: a table is in the order its handles were given out
(`HandlesInOrder`), so an eviction takes the oldest and makes the room for what is
inserted in the same step; and a registry that was seeded keeps the configured
probes as long as the file can be read (`YamlWhole`). `SearchCorrect`: of the
matches, those behind the cursor have been reported and no others; a search
without an end that has wrapped around has reported all from its start on
(`Covered`), so that a match seen before, or none, means there is nothing left. Of
a log, what lies behind the cursor has been filtered and what is behind it does
not change while the game appends (`LogInv`). A battery that has passed so far has
asked each of its checks once, and a game it found running is not asked again
(`HealthInv`). `ScansCorrect`: a pattern scan that read everything stands with the
occurrences that begin below its cursor, up to its limit (`PatternInv`), because a
chunk and its overlap of one byte less than the pattern hold exactly the
occurrences that begin in the chunk; a read that fails or comes back short can
only lose some (that the report is complete is stated for a scan whose every read
was answered). A value scan stands on an aligned address until it is through
(`ValueInv`): blocks are a multiple of the width, so no aligned value straddles
two of them. A narrowing has kept only what survives of the runs behind it, and
while every read that PPSSPP could have answered was answered all of it
(`NarrowInv`); every candidate is in the run that begins last at or below it
(`RunsCover`), and lies between the first and the last of its run, so a run that
can be read whole answers for each of its candidates. The proof needs no induction
over the lists: an ascending list is determined by its members, each at the place
its rank among them gives it.

**`CallTools_proofs`.** Two parts, which meet in the table of which event needs
which state of the CPU.

- `AsksCorrect`: what a tool does is a plan, and the proof looks at no tool. A plan
  is sound if what needs a paused CPU stands behind an entry of `with_stepping` and
  inside its block, and what needs a running one behind the two probes; that the
  plans of all tools are sound is a lemma of its own. The invariant says where
  a call is on its plan and inside how many blocks (`QPlace`), which state the
  CPU is in right behind an entry and behind a probe (`QState`), and what the
  blocks it is inside of will put back (`QPut`): none of them resumes a CPU that
  was paused before the call, and the outermost one resumes one that ran.
- `DiagnosisCorrect`: the broadcasts still under way lead, each from the state the
  one before it left, to the state the game is in (`WireLeads`); so an observer
  that says `running` is right or the next broadcast says why not
  (`RunningOrTold`). A record of the ring that is open is owned by a call
  (`OpenAreOwned`): a call that lets go of a ticket settles it in the same step,
  but for one cancelled during its probe, which stays its record's owner for good.

**`ServerTools_proofs`.** Seven parts of the server that share no state.

- `ImageCorrect`: what a capture holds is nothing or a whole image, from the
  sampling of the file's size and its end marker on.
- `BatchCorrect`: one result for each step behind, none failed before an abort
  turns to its report (`SoundBatch`), and a CPU left paused is told (`Thawed`). What
  it does not say is that nothing acts on that CPU: `NoFrozenPress` is false.
- `StartCorrect`: a start knows of whatever process there is, and of whatever file
  but those that could not be written or removed (`HeldInv`), where it is says
  what it has (`CourseInv`), and a port once judged not to be the emulator's is
  somebody else's for good (`SealedInv`), which is what lets the exposure check be
  done once.
- `ConditionsCorrect` and `EditsCorrect`: what an edit found in PPSSPP's table is
  there still or its address is in doubt (`EditInv`), and the condition filed for
  an address is its breakpoint's or will be when the answer under way is filed
  (`ConditionInv`). `ConditionsCorrect` holds under any number of faults.
  `EditsCorrect` supposes `MaxFaults \in {0, 1}`, and needs it: with two, a person
  at PPSSPP removes the watchpoint an update has found and arms another of the
  same address and size, and the update overwrites that one's flags with those it
  read from the first (TLC finds it in part `breakpoints` with `MaxFaults = 2`).
- `AdmissionCorrect`: the calls of a key since any moment and the tokens it has
  left are together at most a full bucket and the time that passed (`BudgetInv`).
  A tick adds one to both sides, a call moves one from the tokens to the calls,
  and a bucket idle for `_BUCKET_TTL_S` is full again, so that dropping it changes
  no key's tokens. That is where `FrontAssumption` is used: the lifetime of a
  bucket (an hour) is no shorter than the minute in which it fills up.
- `PlaybackCorrect`: no file holds an empty recording, whatever a write or a load
  fails at or is cancelled at (`DiskSound`), and a load that comes to its request
  has a recording with frames, and it or an execute has found PPSSPP idle or made
  it so, unless its look failed (`CallSound`); that holds to the request because
  in the model only the call itself starts a recording or an execution.
- `ScriptsCorrect`: between its awaits a reconciliation that is alone knows of every
  script whether it is to be removed, to be added, in hand, added or failed
  (`Stands`), and the book lists exactly the tools that are registered (`Booked`),
  so that the removal and the additions leave what the manifest says. A file, its
  bytecode and a module cached under the file's present stamp are no older than
  the last edit that changed the size or mtime of the file (`look`), since bytecode
  is taken only where it agrees with the file in both; and a call under way has a
  stamp that the file had (`Fresh`). A module may well be older than its stamp:
  that is `StampIsRun`, below.

The assumptions on constants say no more than what the code makes of them: a set
of ports is a set of positive numbers, a scan has a pattern (an empty one is
answered at once, `service/scan_service.py:37`) and 64 KiB are a multiple of every
width of a value, a plan is a sequence of steps of the five
kinds, budgets are natural numbers, names of places are not names of calls. TLC
evaluates them in every run.

**Only model-checked.** Liveness (`StartsEnd`, `StopsEnd`, both `CallsEnd`,
`LockFreed`, `JobsEnd`),
as `ENABLED` and fairness are outside what the prover does.

## Observed disagreements

Three runs each end in a counterexample to something the repository says of
itself.

1. `LifecycleRelaunch`, against `StopIsFinal`. An attempt of a resilient start
   wedges by itself; its record stays while it is torn down and the next attempt
   is launched (`session_manager.py:673-677`). A stop in that time finds the
   record and an empty launcher table, kills the pid of the dead attempt, removes
   the record and returns. The start holds no mark of it: the next attempt
   registers its launcher (773) and records itself again (821-823), and a session
   runs whose client was told that it stopped. The bind re-checks the record for
   this case (892-917); the record's own write does not.
2. `SessionBudgetIsOwn`. The rate limiter looks for the session id beside the
   arguments and not in them (`middleware.py:166`), so every session draws from
   one bucket per tool.
3. `LoopIgnoresEnd`. A disassembly search whose end lies before its start is a
   loop search only until its cursor has wrapped around below that end
   (`service/debug_client.py:1174`).
The following properties are stated in the modules and are part of no run.
Each is violated on the instance named, which is the cfg of a run with the
constants changed as given and the property in place of the run's; for the parts
of `ServerTools`, with `Parts` reduced to the part.

| Property | Instance that violates it | What happens |
|---|---|---|
| `FailedTraceRunsOn` | `CpuTools`, `Ops = {"read", "trace"}` and no faults or cancellations | when the capture after a hit fails, the handler resumes the CPU so as to "not leave the game frozen" (`tools/workflows.py:692-702`) with the breakpoint armed, and removes it only in its `finally` (703-714): the breakpoint hits in between, and the game stays frozen. The path of a good trace has the order right, and says why (662-663) |
| `NoFrozenPress` | part `steps` | "later press/wait steps must not act on a frozen CPU" (`tools/batch_step.py:350-352`): a `cpu_step` whose resume fails, or whose pause is applied after it gave up, is recorded as failed, and under the default `on_failure="continue"` the batch goes on and presses. What does hold is that the batch tells of it (`FreezeIsTold`) |
| `FreezeHasFrames` | part `diagnosis` | "A CPU_FREEZE_SUSPECTED is re-checked against the frame heartbeat first" (`tools/gpu_stats.py:142-143`): a timeout is a bare `TimeoutError`, passes the handlers (161-200), which look for `WsTimeout` and `ToolError`, and becomes `CPU_FREEZE_SUSPECTED` in the decorator outside them (`tools/_common.py:276`); and the heartbeat would not answer, as nothing calls `start_gpu_stats_feed`. A CPU paused after the pre-check, and found paused by the timeout's own probe, is told as a suspected freeze |
| `StampIsRun` | part `scripts` | "An edited script whose mtime/size did not change (or a same-second write) still reloads on the next call" (`tools/script.py:126-127`): the stamp sees the edit, but `exec_module` (200) runs the bytecode in `__pycache__` if its whole-second mtime and size are the file's: the old code runs, and is cached under the new stamp. What does hold is `RunsEdited`: no code older than the last edit that shows in size or mtime |
| `StepIsFresh` | `CpuTools` | a step takes the `cpu.stepping` broadcast of an earlier stop from a queue nobody drained (`service/debug_client.py:594`) and reports success before the CPU moved |
| `NoSelfWait` | `TransportCalls` | the version call of a reconnect times out, and the stepping probe of that timeout (`transport.py:428`, 467) waits for the reconnect lock its own task holds, for ever |
| `ClosedStaysClosed` | `TransportCalls` | `close()` leaves no mark, so a call in flight (392) reconnects the transport that `stop_session` has closed |
| `StoreIsAtomic`, `FileIntact` | `StoreAtomic`, `CancelAt = {"loading", "saving"}` | a request cancelled during its save gives `_lock` back, its thread goes on (243), and two saves share one temporary name: an update is lost, or a torn document renamed into place |
| `HealLeavesLists` | part `launcher` | `launcher.start` deletes the list of failed backends at every launch (`launcher.py:786`), also in a heal told not to touch it |
| `ImageIsOwn` | part `capture`, `Windows = {"s1", "s2"}`, `Platforms = {"win32"}` | the screenshot directory is shared by all emulators, and the first new file is taken (`capture.py:490`): a session gets another one's image |
| `ConditionIsOwn` | part `breakpoints` | conditions are kept by address: a CPU and a memory breakpoint at one address share theirs, and lose it together (`cond_filter.py:29`, `breakpoint.py:569`) |
| `TimeoutIsAttributed` | part `diagnosis` | "the error names WHY it timed out" (`gpu_stats.py:139`): it never does, since the handlers that add the cause (161-200) do not see the bare `TimeoutError`, which is translated outside them |
| `NarrowLosesNothing` | part `scan` | a candidate whose read failed or came back short is dropped (`scan.py:719-724`, 728-735) like one that does not hold, and the caller cannot tell |
| `ClearKeepsBaseline` | part `tables` | a clear decides what is configured by the names in `addresses.yaml` as it is now, which is none while the file cannot be read (`state_observer.py:245`, `probe_observer.py:134`) |
| `ToolsFollowScripts` | part `scripts` | a reload leaves a tool that is registered already as it is, with the Input model its script had when it was added (`registry.py:266-268`) |
| `ExemptionCovers` | part `guard` | an exempt span exempts a write that only overlaps it (`memory_protection.py:235`) |

And for the life cycle, each with one session `s1` and nothing that is not named
(every bound 0, every set empty), unless it says otherwise:

| Property | Instance that violates it | What happens |
|---|---|---|
| `HandlesOwned` | 1 stop | `_start_once` registers its transport and observer if the record exists (910); a stop removes the record only after its close and its kill. A bind in between leaves both open, with no owner |
| `HandlesOwned` | 1 crash, 1 collector cycle | the same, through the collector's snapshot |
| `GcRechecks` | `Restored = Sessions = {s1, s2}`, 1 call, 1 collector cycle | the fresh load is made once, before the loop; a call touches the second session while the first is being killed, and the collector begins to reclaim it all the same |
| `LocksReclaimed` | `Restored = {s1}`, 1 call, 1 collector cycle, 1 idle expiry | the collector never pops `_session_locks` (against the comment at 503-504) |
| `ProcessOwned` | 1 cancellation | cancelled during `launcher.start`: the spawned process is in no table |
| `ProcessOwned` | `Resilient = {s1}`, 1 relaunch, 1 collector cycle | a cycle that scans between the kill of one attempt and the record of the next removes the record of the new process |
| `ProcessOwned` | 1 stop, `MayFail = {"save", "launcher"}` | the stop has popped the launcher, a failing start discards the record, then the stop's kill fails |
| `OneCallPerProcess` | `Resilient = {s1}`, 1 relaunch, 2 calls | a teardown pops the lock while its process still runs: a second call creates another |
| `SentinelTransient` | `Restored = {s1}`, 1 stop, 1 cancellation | a cancelled stop leaves its sentinel: every later call is busy until the next stop |
| `RecordOutlivesProcess` | `Restored = {s1}`, 1 stop, `MayFail = {"pid"}` | a failing kill of a recorded pid is suppressed and the record removed |

Met while modelling, and stated by no property:

- A collector cycle may kill the process under a tool call that runs longer than
  the idle threshold: a batch touches its session only when it begins.
- A cancel that meets `connect` or `close` at its wait for the old receive loop
  is suppressed there, so a batch runs on though `ppsspp_batch_cancel` reported
  it as cancelled; `BatchJobs` has that step, and its properties hold with it.
- A batch gives a step at least a second, also past its deadline.
- `ppsspp_query` is annotated read-only, while its `func_add` and `func_remove`
  change PPSSPP's table of functions.
- `tools/context.py` says that the backtrace is skipped while the CPU runs; the
  code pauses the CPU for it.

## Not modelled

- Fake mode (sessions that tests run over a fake transport, without a process).
- Cancellation inside `_close_transport_and_observer`, whose steps each suppress
  their own errors.
- A failing read of an intact `sessions.json`, which `_load_sessions` answers
  with an empty table: a passing `OSError` followed by any save removes every
  record. This is by the design of that function and needs no model to see.
- Reuse of a dead process's pid by another program, against which
  `_kill_stale_pid_safe` checks the image name.
- `list_sessions`, the accessors, `list_addresses` and the plain reads of
  `tools/memory.py`, which read and forget.
- `fire_and_forget` of the transport (the connection check of `call` without a
  ticket), and the coalesced snapshot that the observer prints.
- A `.ppr` file without frames that was in `output/replays` before the server
  started: the saves of the server refuse to write one.
- An edit of a script between the look at its file and its read inside one import,
  which the operating system and not the server orders.
- The parsers of `netstat` and the Windows way of finding a port's owner (one tool
  that may answer or not, as `lsof` is); the marks at the end of a PNG or JPEG,
  which stand here for a file of full size.
- The language of conditions (`core/value_expr.py`): a function of values
  without state. A condition is true, false or an error here.
- The format of numbers, strings and instructions, pixels and PNG, argument
  schemas of scripts, the search for PPSSPP's executable, and all wording:
  parsing and printing in which the properties do not distinguish anything.
- Models, views, prompts, resources, completions and logging: rendering.
- `scripts/`: programs that test the server against a real emulator from
  outside, and hold nothing of its state.
- Interactions among the thirteen parts of `MCTools`: they share the session lock
  (whose order is in `SessionLifecycle` and `BatchJobs`), the transport and the
  emulator, and no variable. Where two of them do meet in the emulator, one has
  the other as its environment: `Meddles` in `QueryTools`, the lock-free caller in
  `CallDiagnosis`, PPSSPP's user in `BreakpointTable`.

## Plan

Done: the modules above, and the proofs listed. What would come next are the
parts that are listed as not modelled and keep state: fake sessions, and the
coalesced snapshot of the observer.
