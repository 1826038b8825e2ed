-------------------------- MODULE SessionLifecycle --------------------------
(***************************************************************************)
(* The life of debugging sessions in session/session_manager.py, and the   *)
(* tool calls that use them through session/client_helper.py.              *)
(*                                                                         *)
(* Tasks of one asyncio event loop interleave at their awaits: one start   *)
(* task per session (start_session), stop tasks (stop_session), the idle   *)
(* collector (gc_idle_sessions) and tool calls                             *)
(* (session_client_with_transport).  They share the sessions.json records, *)
(* the manager's in-memory tables and the operating system's processes.    *)
(* A region `async with self._lock` is one step: module SessionStore shows *)
(* what that lock makes of the load, modify, save inside it.               *)
(*                                                                         *)
(* A PPSSPP process is <<s, n>>: launch attempt n of session s.  The       *)
(* transport and observer of an attempt, registered, popped and closed     *)
(* together, are one pair of handles, also named by its attempt.           *)
(***************************************************************************)
EXTENDS Naturals, FiniteSets

CONSTANTS
    Sessions,     \* the session ids
    Resilient,    \* started with resilient=True
    Restored,     \* already in sessions.json when the server starts
    Callers,      \* tool calls, each made once
    Stoppers,     \* stop_session calls, each made once
    MaxRestarts,  \* relaunches of a resilient start
    SharedPort,   \* a fixed port is configured, so launches can collide
    MayFail,      \* what may raise: "start" (launcher.stop of a failed start),
                  \* "launcher" and "pid" (kills of a stop or the collector),
                  \* "save" and "reclaim" (saves of sessions.json, the latter
                  \* those of the collector)
    MaxCrashes,   \* bound: processes that die by themselves
    MaxIdle,      \* bound: times a session outlives the idle threshold
    MaxCancels,   \* bound: tasks the MCP client cancels
    MaxGcCycles,  \* bound: reclaim cycles of the idle collector
    None,         \* Python's None: no entry
    Closing       \* the sentinel _CLOSING_LOCK

ASSUME SessionsAssumption == /\ Resilient \subseteq Sessions
                             /\ Restored \subseteq Sessions \ Resilient
ASSUME BoundsAssumption == /\ MaxRestarts \in Nat
                           /\ MaxCrashes \in Nat
                           /\ MaxIdle \in Nat
                           /\ MaxCancels \in Nat
                           /\ MaxGcCycles \in Nat
ASSUME SwitchAssumption == /\ SharedPort \in BOOLEAN
                           /\ MayFail \subseteq {"start", "launcher", "pid", "save", "reclaim"}
ASSUME NoneAssumption == None \notin Nat /\ Closing \notin Nat /\ None # Closing

VARIABLES
    alive,      \* processes the operating system runs
    open,       \* handle pairs with a live receive loop and dispatcher
    record,     \* sessions.json: the attempt whose pid is recorded, or None
    idle,       \* recorded sessions past IDLE_GC_THRESHOLD_S
    launchers,  \* SessionManager._launchers
    handles,    \* SessionManager._transports and _observers
    locks,      \* SessionManager._session_locks: a lock, Closing or None
    lockCount,  \* lock objects session_lock has created for a session
    start,      \* the start task of each session
    stop,       \* the stop tasks
    gc,         \* the idle collector
    call,       \* the tool calls
    budget      \* what is left of MaxCrashes, MaxIdle and MaxCancels

vars == <<alive, open, record, idle, launchers, handles, locks, lockCount,
          start, stop, gc, call, budget>>
world == <<alive, open>>
store == <<record, idle>>
tables == <<launchers, handles, locks, lockCount>>

Attempts == 0 .. MaxRestarts
Slots == Attempts \cup {None}

StartPcs == {"new", "launching", "launched", "conflict", "probing",
             "connecting", "binding", "aborting", "gateload",
             "cpu", "recording", "teardown", "closing",
             "killing", "cooldown", "discard", "ok", "failed"}
StopPcs == {"ready", "closing", "killing", "removing", "done", "notfound",
            "error", "cancelled"}
GcPcs == {"sleep", "reload", "loop", "closing", "killing", "dropping"}
CallPcs == {"ready", "checked", "waiting", "body", "done"}

NoSnapshot == [launcher |-> None, handles |-> None, pid |-> None]
GcAsleep(n) == [pc |-> "sleep", todo |-> {},
                fresh |-> [s \in Sessions |-> None],
                snap |-> [s \in Sessions |-> NoSnapshot],
                sid |-> None, stopped |-> {}, cycles |-> n]

\* proc.is_pid_alive of the pid recorded for a session
RecordAlive(s) == <<s, record[s]>> \in alive

Init ==
    /\ \E up \in SUBSET Restored : alive = up \X {0}
    /\ open = {}
    /\ record = [s \in Sessions |-> IF s \in Restored THEN 0 ELSE None]
    /\ idle \in SUBSET Restored
    /\ launchers = [s \in Sessions |-> None]
    /\ handles = [s \in Sessions |-> None]
    /\ locks = [s \in Sessions |-> None]
    /\ lockCount = [s \in Sessions |-> 0]
    /\ start = [s \in Sessions |->
                  [pc |-> IF s \in Restored THEN "ok" ELSE "new", att |-> 0,
                   wedge |-> FALSE, launcher |-> None, handles |-> None]]
    /\ stop = [k \in Stoppers |-> [pc |-> "ready", sid |-> None, launcher |-> None,
                                   handles |-> None, pid |-> None]]
    /\ gc = GcAsleep(0)
    /\ call = [c \in Callers |-> [pc |-> "ready", sid |-> None, att |-> None,
                                  lock |-> 0]]
    /\ budget = [crash |-> MaxCrashes, idle |-> MaxIdle, cancel |-> MaxCancels]

-----------------------------------------------------------------------------
(* The start task: start_session, _start_once and _gate_boot. *)

\* The exception of a start attempt reaches start_session.  A plain start goes
\* to _abandon_launcher, which pops the launcher before its first await; a
\* resilient one goes to _teardown_wedged_attempt.
Raise(s) ==
    IF s \in Resilient
    THEN /\ start' = [start EXCEPT ![s].pc = "teardown", ![s].wedge = FALSE]
         /\ UNCHANGED launchers
    ELSE /\ start' = [start EXCEPT ![s].pc = "killing",
                                   ![s].launcher = launchers[s]]
         /\ launchers' = [launchers EXCEPT ![s] = None]

\* _BootWedge
Wedge(s) ==
    start' = [start EXCEPT ![s].pc = "teardown", ![s].wedge = TRUE]

\* The end of _start_once, h being what _transports then holds: a plain start is
\* done, and _gate_boot of a resilient one, with no await in between, takes a
\* missing transport for a wedged boot.
Return(s, h) ==
    IF s \in Resilient /\ h = None
    THEN Wedge(s)
    ELSE start' = [start EXCEPT ![s].pc = IF s \in Resilient THEN "gateload" ELSE "ok"]

\* launcher.stop of an attempt that failed.
Kill(s, n) == \/ alive' = alive \ {<<s, n>>}
              \/ "start" \in MayFail /\ UNCHANGED alive

\* launcher.start: the worker thread has spawned the process and waits for
\* its port; the coroutine waits for the thread.
Launch(s, n) ==
    /\ alive' = alive \cup {<<s, n>>}
    /\ start' = [start EXCEPT ![s] = [pc |-> "launching", att |-> n,
                                      wedge |-> FALSE, launcher |-> None,
                                      handles |-> None]]
    /\ UNCHANGED <<open, store, tables, stop, gc, call, budget>>

StartSession(s) == start[s].pc = "new" /\ Launch(s, 0)

\* launcher.start raises: what it spawned is stopped before the exception goes on.
LaunchFails(s) ==
    /\ start[s].pc = "launching"
    /\ Kill(s, start[s].att)
    /\ Raise(s)
    /\ UNCHANGED <<open, store, handles, locks, lockCount, stop, gc, call, budget>>

Register(s) ==
    /\ start[s].pc = "launching"
    /\ launchers' = [launchers EXCEPT ![s] = start[s].att]
    /\ start' = [start EXCEPT ![s].pc = "launched"]
    /\ UNCHANGED <<world, store, handles, locks, lockCount, stop, gc, call, budget>>

\* _check_port_conflict, with every launch on the one configured port
PortTaken(s) == SharedPort /\ \E t \in Sessions \ {s} : RecordAlive(t)

Persist(s) ==
    /\ start[s].pc = "launched"
    /\ ~PortTaken(s)
    /\ record' = [record EXCEPT ![s] = start[s].att]
    /\ idle' = idle \ {s}
    /\ start' = [start EXCEPT ![s].pc = "probing"]
    /\ UNCHANGED <<world, tables, stop, gc, call, budget>>

\* A save raises where nothing in _start_once catches it.
SaveFails(s) ==
    /\ "save" \in MayFail
    /\ start[s].pc \in {"launched", "connecting", "recording"}
    /\ Raise(s)
    /\ UNCHANGED <<world, store, handles, locks, lockCount, stop, gc, call, budget>>

PortConflict(s) ==
    /\ start[s].pc = "launched"
    /\ PortTaken(s)
    /\ launchers' = [launchers EXCEPT ![s] = None]
    /\ start' = [start EXCEPT ![s].pc = "conflict"]
    /\ UNCHANGED <<world, store, handles, locks, lockCount, stop, gc, call, budget>>

\* Mutant: the process of the refused start is not stopped.
StopConflictingForgets(s) ==
    /\ start[s].pc = "conflict"
    /\ Raise(s)
    /\ UNCHANGED <<world, store, handles, locks, lockCount, stop, gc, call, budget>>

StopConflicting(s) ==
    /\ start[s].pc = "conflict"
    /\ Kill(s, start[s].att)
    /\ Raise(s)
    /\ UNCHANGED <<open, store, handles, locks, lockCount, stop, gc, call, budget>>

\* _probe_ws_connection: a handshake on a connection of its own.
ProbeAnswers(s) ==
    /\ start[s].pc = "probing"
    /\ <<s, start[s].att>> \in alive
    /\ start' = [start EXCEPT ![s].pc = "connecting"]
    /\ UNCHANGED <<world, store, tables, stop, gc, call, budget>>

ProbeFails(s) ==
    /\ start[s].pc = "probing"
    /\ Return(s, handles[s])
    /\ UNCHANGED <<world, store, tables, stop, gc, call, budget>>

Connect(s) ==
    /\ start[s].pc = "connecting"
    /\ <<s, start[s].att>> \in alive
    /\ open' = open \cup {<<s, start[s].att>>}
    /\ start' = [start EXCEPT ![s].pc = "binding"]
    /\ UNCHANGED <<alive, store, tables, stop, gc, call, budget>>

\* The liveness re-check and the writes into the tables; the handles stay this
\* task's own when the record is gone.
Bind(s) ==
    /\ start[s].pc = "binding"
    /\ record[s] # None
    /\ handles' = [handles EXCEPT ![s] = start[s].att]
    /\ Return(s, start[s].att)
    /\ UNCHANGED <<world, store, launchers, locks, lockCount, stop, gc, call, budget>>

BindRefused(s) ==
    /\ start[s].pc = "binding"
    /\ record[s] = None
    /\ start' = [start EXCEPT ![s].pc = "aborting"]
    /\ UNCHANGED <<world, store, tables, stop, gc, call, budget>>

\* Mutant: only the registered handles are closed.
CloseRegistered(s) ==
    /\ open' = open \ {<<s, handles[s]>>}
    /\ handles' = [handles EXCEPT ![s] = None]

\* _close_transport_and_observer: the local handles and the registered ones.
CloseBoth(s) ==
    /\ open' = open \ {<<s, start[s].att>>, <<s, handles[s]>>}
    /\ handles' = [handles EXCEPT ![s] = None]

\* Connecting, the handshake or the save raises: swallowed, best effort.
EstablishFails(s) ==
    /\ start[s].pc \in {"connecting", "binding"}
    /\ CloseBoth(s)
    /\ Return(s, None)
    /\ UNCHANGED <<alive, store, launchers, locks, lockCount, stop, gc, call, budget>>

AbortBind(s) ==
    /\ start[s].pc = "aborting"
    /\ CloseBoth(s)
    /\ Raise(s)
    /\ UNCHANGED <<alive, store, locks, lockCount, stop, gc, call, budget>>

\* get_session_state in _gate_boot raises SessionNotFound or SessionExpired
\* for a record that is gone or whose process died.
GateLoad(s) ==
    /\ start[s].pc = "gateload"
    /\ IF RecordAlive(s)
       THEN start' = [start EXCEPT ![s].pc = "cpu"] /\ UNCHANGED launchers
       ELSE Raise(s)
    /\ UNCHANGED <<world, store, handles, locks, lockCount, stop, gc, call, budget>>

CpuReady(s) ==
    /\ start[s].pc = "cpu"
    /\ <<s, start[s].att>> \in alive
    /\ start' = [start EXCEPT ![s].pc = "recording"]
    /\ UNCHANGED <<world, store, tables, stop, gc, call, budget>>

CpuWedged(s) ==
    /\ start[s].pc = "cpu"
    /\ Wedge(s)
    /\ UNCHANGED <<world, store, tables, stop, gc, call, budget>>

\* The recovered count is folded into the record, if there still is one.
GateRecord(s) ==
    /\ start[s].pc = "recording"
    /\ start' = [start EXCEPT ![s].pc = "ok"]
    /\ UNCHANGED <<world, store, tables, stop, gc, call, budget>>

\* _teardown_wedged_attempt: pop everything, then close, then kill.
Teardown(s) ==
    /\ start[s].pc = "teardown"
    /\ start' = [start EXCEPT ![s].pc = "closing",
                              ![s].launcher = launchers[s],
                              ![s].handles = handles[s]]
    /\ launchers' = [launchers EXCEPT ![s] = None]
    /\ handles' = [handles EXCEPT ![s] = None]
    /\ locks' = [locks EXCEPT ![s] = None]
    /\ UNCHANGED <<world, store, lockCount, stop, gc, call, budget>>

CloseHeld(s) ==
    /\ start[s].pc = "closing"
    /\ open' = open \ {<<s, start[s].handles>>}
    /\ start' = [start EXCEPT ![s].pc = "killing", ![s].handles = None]
    /\ UNCHANGED <<alive, store, tables, stop, gc, call, budget>>

\* Mutant: one relaunch too many.
KillHeldOffByOne(s) ==
    /\ start[s].pc = "killing"
    /\ Kill(s, start[s].launcher)
    /\ start' = [start EXCEPT ![s].launcher = None,
                   ![s].pc = IF start[s].wedge /\ start[s].att <= MaxRestarts
                             THEN "cooldown" ELSE "discard"]
    /\ UNCHANGED <<open, store, tables, stop, gc, call, budget>>

\* launcher.stop in a thread; a failure is logged and swallowed.
KillHeld(s) ==
    /\ start[s].pc = "killing"
    /\ Kill(s, start[s].launcher)
    /\ start' = [start EXCEPT ![s].launcher = None,
                   ![s].pc = IF start[s].wedge /\ start[s].att < MaxRestarts
                             THEN "cooldown" ELSE "discard"]
    /\ UNCHANGED <<open, store, tables, stop, gc, call, budget>>

\* Mutant: the attempt counter is not advanced.
RelaunchUncounted(s) == start[s].pc = "cooldown" /\ Launch(s, start[s].att)

Relaunch(s) == start[s].pc = "cooldown" /\ Launch(s, start[s].att + 1)

\* _discard_session_entry
Discard(s) ==
    /\ start[s].pc = "discard"
    /\ record' = [record EXCEPT ![s] = None]
    /\ idle' = idle \ {s}
    /\ start' = [start EXCEPT ![s].pc = "failed"]
    /\ UNCHANGED <<world, tables, stop, gc, call, budget>>

DiscardFails(s) ==
    /\ "save" \in MayFail
    /\ start[s].pc = "discard"
    /\ record[s] # None
    /\ start' = [start EXCEPT ![s].pc = "failed"]
    /\ UNCHANGED <<world, store, tables, stop, gc, call, budget>>

StartStep(s) ==
    \/ StartSession(s) \/ LaunchFails(s) \/ Register(s) \/ Persist(s)
    \/ SaveFails(s) \/ PortConflict(s) \/ StopConflicting(s)
    \/ ProbeAnswers(s) \/ ProbeFails(s) \/ Connect(s) \/ Bind(s)
    \/ BindRefused(s) \/ EstablishFails(s) \/ AbortBind(s)
    \/ GateLoad(s) \/ CpuReady(s) \/ CpuWedged(s) \/ GateRecord(s)
    \/ Teardown(s) \/ CloseHeld(s) \/ KillHeld(s) \/ Relaunch(s) \/ Discard(s)
    \/ DiscardFails(s)

SpendCancel == /\ budget.cancel > 0
               /\ budget' = [budget EXCEPT !.cancel = @ - 1]

\* The client cancels the request: CancelledError at the task's await.  It is
\* not an Exception, so no handler inside _start_once runs.
CancelAttempt(s) ==
    /\ SpendCancel
    /\ start[s].pc \in {"launching", "launched", "probing", "connecting",
                        "binding", "gateload", "cpu", "recording"}
    /\ Raise(s)
    /\ UNCHANGED <<world, store, handles, locks, lockCount, stop, gc, call>>

\* Cancelled at the save in which Bind ends: the tables are written already.
CancelBind(s) ==
    /\ SpendCancel
    /\ start[s].pc = "binding"
    /\ record[s] # None
    /\ handles' = [handles EXCEPT ![s] = start[s].att]
    /\ Raise(s)
    /\ UNCHANGED <<world, store, locks, lockCount, stop, gc, call>>

\* Cancelled while the handler of an earlier failure awaits: what it had
\* popped is dropped, the offloaded kill still runs.  The handlers of a plain
\* start swallow it, and lose only the removal of the record.
CancelHealing(s) ==
    /\ SpendCancel
    /\ s \in Resilient \/ start[s].pc = "discard"
    /\ start[s].pc \in {"teardown", "closing", "killing", "cooldown", "discard"}
    /\ alive' = IF start[s].pc = "killing"
                THEN alive \ {<<s, start[s].launcher>>} ELSE alive
    /\ start' = [start EXCEPT ![s].pc = "failed", ![s].launcher = None,
                              ![s].handles = None]
    /\ UNCHANGED <<open, store, tables, stop, gc, call>>
-----------------------------------------------------------------------------
(* stop_session *)

\* Mutant: the lock entry is popped, with no sentinel in its place.
StopLookupPopsLock(k, s) ==
    /\ stop[k].pc = "ready"
    /\ record[s] # None
    /\ stop' = [stop EXCEPT ![k] = [pc |-> "closing", sid |-> s,
                                    launcher |-> launchers[s],
                                    handles |-> handles[s], pid |-> record[s]]]
    /\ launchers' = [launchers EXCEPT ![s] = None]
    /\ handles' = [handles EXCEPT ![s] = None]
    /\ locks' = [locks EXCEPT ![s] = None]
    /\ UNCHANGED <<world, store, lockCount, start, gc, call, budget>>

\* Phase 1: read the record, pop the tables, install the closing sentinel.
StopLookup(k, s) ==
    /\ stop[k].pc = "ready"
    /\ record[s] # None
    /\ stop' = [stop EXCEPT ![k] = [pc |-> "closing", sid |-> s,
                                    launcher |-> launchers[s],
                                    handles |-> handles[s], pid |-> record[s]]]
    /\ launchers' = [launchers EXCEPT ![s] = None]
    /\ handles' = [handles EXCEPT ![s] = None]
    /\ locks' = [locks EXCEPT ![s] = Closing]
    /\ UNCHANGED <<world, store, lockCount, start, gc, call, budget>>

StopNotFound(k, s) ==
    /\ stop[k].pc = "ready"
    /\ record[s] = None
    /\ stop' = [stop EXCEPT ![k].pc = "notfound", ![k].sid = s]
    /\ UNCHANGED <<world, store, tables, start, gc, call, budget>>

\* Phase 1.5
StopClose(k) ==
    /\ stop[k].pc = "closing"
    /\ open' = open \ {<<stop[k].sid, stop[k].handles>>}
    /\ stop' = [stop EXCEPT ![k].pc = "killing", ![k].handles = None]
    /\ UNCHANGED <<alive, store, tables, start, gc, call, budget>>

\* Mutant: the pid of a session without a launcher is not killed.
StopKillLauncherOnly(k) ==
    /\ stop[k].pc = "killing"
    /\ alive' = alive \ {<<stop[k].sid, stop[k].launcher>>}
    /\ stop' = [stop EXCEPT ![k].pc = "removing", ![k].launcher = None]
    /\ UNCHANGED <<open, store, tables, start, gc, call, budget>>

\* Phase 2: the launcher's process, or the recorded pid without a launcher.
StopTarget(k) ==
    <<stop[k].sid, IF stop[k].launcher # None THEN stop[k].launcher ELSE stop[k].pid>>

StopKill(k) ==
    /\ stop[k].pc = "killing"
    /\ alive' = alive \ {StopTarget(k)}
    /\ stop' = [stop EXCEPT ![k].pc = "removing", ![k].launcher = None]
    /\ UNCHANGED <<open, store, tables, start, gc, call, budget>>

\* launcher.stop raises: the exception leaves stop_session.
StopLauncherFails(k) ==
    /\ stop[k].pc = "killing"
    /\ stop[k].launcher # None
    /\ "launcher" \in MayFail
    /\ stop' = [stop EXCEPT ![k].pc = "error", ![k].launcher = None]
    /\ UNCHANGED <<world, store, tables, start, gc, call, budget>>

\* Mutant: the failed kill is retried without a bound.
StopPidRetries(k) ==
    /\ stop[k].pc = "killing"
    /\ stop[k].launcher = None
    /\ "pid" \in MayFail
    /\ stop' = [stop EXCEPT ![k].pc = "closing"]
    /\ UNCHANGED <<world, store, tables, start, gc, call, budget>>

\* _kill_stale_pid_safe raises, and that is suppressed.
StopPidFails(k) ==
    /\ stop[k].pc = "killing"
    /\ stop[k].launcher = None
    /\ "pid" \in MayFail
    /\ stop' = [stop EXCEPT ![k].pc = "removing"]
    /\ UNCHANGED <<world, store, tables, start, gc, call, budget>>

\* Mutant: the sentinel stays.
StopRemoveKeepsSentinel(k) ==
    /\ stop[k].pc = "removing"
    /\ record' = [record EXCEPT ![stop[k].sid] = None]
    /\ idle' = idle \ {stop[k].sid}
    /\ stop' = [stop EXCEPT ![k].pc = "done", ![k].pid = None]
    /\ UNCHANGED <<world, tables, start, gc, call, budget>>

\* Phase 3
StopRemove(k) ==
    /\ stop[k].pc = "removing"
    /\ LET s == stop[k].sid
       IN  /\ record' = [record EXCEPT ![s] = None]
           /\ idle' = idle \ {s}
           /\ locks' = [locks EXCEPT ![s] = IF @ = Closing THEN None ELSE @]
    /\ stop' = [stop EXCEPT ![k].pc = "done", ![k].pid = None]
    /\ UNCHANGED <<world, launchers, handles, lockCount, start, gc, call, budget>>

\* The save raises before the sentinel is popped.
StopRemoveFails(k) ==
    /\ "save" \in MayFail
    /\ stop[k].pc = "removing"
    /\ stop' = [stop EXCEPT ![k].pc = "error", ![k].pid = None]
    /\ UNCHANGED <<world, store, tables, start, gc, call, budget>>

StopStep(k) == \/ StopClose(k) \/ StopKill(k) \/ StopLauncherFails(k)
               \/ StopPidFails(k) \/ StopRemove(k) \/ StopRemoveFails(k)

\* Cancelled at an await after phase 1; the offloaded kill still runs.
CancelStop(k) ==
    /\ SpendCancel
    /\ stop[k].pc \in {"closing", "killing", "removing"}
    /\ alive' = IF stop[k].pc = "killing" THEN alive \ {StopTarget(k)} ELSE alive
    /\ stop' = [stop EXCEPT ![k].pc = "cancelled", ![k].launcher = None,
                            ![k].handles = None]
    /\ UNCHANGED <<open, store, tables, start, gc, call>>
-----------------------------------------------------------------------------
(* gc_idle_sessions *)

Expired == {s \in Sessions : record[s] # None /\ (~RecordAlive(s) \/ s \in idle)}

\* Phase 1: the expired sessions and a snapshot of their table entries.  A
\* scan that finds none changes nothing.
GcScan ==
    /\ gc.pc = "sleep"
    /\ gc.cycles < MaxGcCycles
    /\ Expired # {}
    /\ gc' = [gc EXCEPT !.pc = "reload", !.todo = Expired,
                        !.snap = [s \in Sessions |->
                           IF s \in Expired
                           THEN [launcher |-> launchers[s],
                                 handles |-> handles[s], pid |-> record[s]]
                           ELSE NoSnapshot]]
    /\ UNCHANGED <<world, store, tables, start, stop, call, budget>>

\* The loop's decision for one session: go on to the next when the fresh load
\* saw it active and its process lives, else begin to reclaim it.
Decision(g, s) ==
    IF g.fresh[s] # None /\ <<s, g.fresh[s]>> \in alive
    THEN [g EXCEPT !.todo = @ \ {s}, !.pc = "loop"]
    ELSE [g EXCEPT !.todo = @ \ {s}, !.pc = "closing", !.sid = s]

\* The fresh load, once and before the loop, keeps the pids of the records
\* that are not idle any more; no await separates it from the first decision.
GcReload ==
    /\ gc.pc = "reload"
    /\ \E s \in gc.todo :
         gc' = Decision([gc EXCEPT !.fresh = [t \in Sessions |->
                           IF t \in gc.todo \ idle THEN record[t] ELSE None]], s)
    /\ UNCHANGED <<world, store, tables, start, stop, call, budget>>

GcNext ==
    /\ gc.pc = "loop"
    /\ \E s \in gc.todo : gc' = Decision(gc, s)
    /\ UNCHANGED <<world, store, tables, start, stop, call, budget>>

GcClose ==
    /\ gc.pc = "closing"
    /\ open' = open \ {<<gc.sid, gc.snap[gc.sid].handles>>}
    /\ gc' = [gc EXCEPT !.pc = "killing"]
    /\ UNCHANGED <<alive, store, tables, start, stop, call, budget>>

GcRoute == IF gc.snap[gc.sid].launcher # None THEN "launcher" ELSE "pid"

GcKill ==
    /\ gc.pc = "killing"
    /\ alive' = alive \ {<<gc.sid, IF GcRoute = "launcher"
                                   THEN gc.snap[gc.sid].launcher
                                   ELSE gc.snap[gc.sid].pid>>}
    /\ gc' = [gc EXCEPT !.pc = "dropping"]
    /\ UNCHANGED <<open, store, tables, start, stop, call, budget>>

\* Mutant: a failed kill goes on to the deletion.
GcKillFailsAdvances ==
    /\ gc.pc = "killing"
    /\ GcRoute \in MayFail
    /\ gc' = [gc EXCEPT !.pc = "dropping"]
    /\ UNCHANGED <<world, store, tables, start, stop, call, budget>>

\* A failed kill keeps the entry for the next cycle.
GcKillFails ==
    /\ gc.pc = "killing"
    /\ GcRoute \in MayFail
    /\ gc' = [gc EXCEPT !.pc = "loop", !.sid = None]
    /\ UNCHANGED <<world, store, tables, start, stop, call, budget>>

Dropped(table, snapped) ==
    IF table[gc.sid] = snapped THEN [table EXCEPT ![gc.sid] = None] ELSE table

\* Table entries that are still the snapshot's are popped.
GcDrop ==
    /\ gc.pc = "dropping"
    /\ launchers' = Dropped(launchers, gc.snap[gc.sid].launcher)
    /\ handles' = Dropped(handles, gc.snap[gc.sid].handles)
    /\ gc' = [gc EXCEPT !.pc = "loop", !.sid = None,
                        !.stopped = @ \cup {gc.sid}]
    /\ UNCHANGED <<world, store, locks, lockCount, start, stop, call, budget>>

\* Phase 3
GcRemove ==
    /\ gc.pc = "loop"
    /\ gc.todo = {}
    /\ record' = [s \in Sessions |->
                    IF s \in gc.stopped THEN None ELSE record[s]]
    /\ idle' = idle \ gc.stopped
    /\ gc' = GcAsleep(gc.cycles + 1)
    /\ UNCHANGED <<world, tables, start, stop, call, budget>>

GcRemoveFails ==
    /\ "reclaim" \in MayFail
    /\ gc.pc = "loop"
    /\ gc.todo = {}
    /\ gc' = GcAsleep(gc.cycles + 1)
    /\ UNCHANGED <<world, store, tables, start, stop, call, budget>>

GcStep == \/ GcReload \/ GcNext \/ GcClose \/ GcKill \/ GcKillFails
          \/ GcDrop \/ GcRemove \/ GcRemoveFails
-----------------------------------------------------------------------------
(* Tool calls: session_client_with_transport *)

CallDone(c) ==
    call' = [call EXCEPT ![c] = [pc |-> "done", sid |-> None, att |-> None,
                                 lock |-> 0]]

\* get_session_state: a pure read outside the lock.
CallCheck(c, s) ==
    /\ call[c].pc = "ready"
    /\ record[s] # None /\ RecordAlive(s)
    /\ call' = [call EXCEPT ![c] = [pc |-> "checked", sid |-> s,
                                    att |-> record[s], lock |-> 0]]
    /\ UNCHANGED <<world, store, tables, start, stop, gc, budget>>

\* The lock is held by the one call inside its body with that lock.
Free(s, l) == \A c \in Callers :
    ~(call[c].pc = "body" /\ call[c].sid = s /\ call[c].lock = l)

\* Mutant: plain assignment instead of setdefault.
LockForFresh(s) == lockCount[s] + 1

\* session_lock: setdefault of a new lock object
LockFor(s) == IF locks[s] = None THEN lockCount[s] + 1 ELSE locks[s]

\* The process a body drives: the session's handles, or a connection of its
\* own to the ws_url of the record it read.
Driven(s, att) == IF handles[s] # None THEN handles[s] ELSE att

\* touch_session and, with no await in between, session_lock and the first
\* attempt of acquire.
CallTouch(c) ==
    LET s == call[c].sid
        l == LockFor(s)
    IN  /\ call[c].pc = "checked"
        /\ record[s] # None
        /\ idle' = idle \ {s}
        /\ locks' = [locks EXCEPT ![s] = l]
        /\ lockCount' = [lockCount EXCEPT ![s] = IF locks[s] = None THEN @ + 1 ELSE @]
        /\ IF l # Closing /\ Free(s, l)
           THEN call' = [call EXCEPT ![c].pc = "body", ![c].lock = l,
                                     ![c].att = Driven(s, @)]
           ELSE call' = [call EXCEPT ![c].pc = "waiting", ![c].lock = l]
        /\ UNCHANGED <<world, record, launchers, handles, start, stop, gc, budget>>

CallTouchFails(c) ==
    /\ call[c].pc = "checked"
    /\ record[call[c].sid] = None \/ "save" \in MayFail
    /\ CallDone(c)
    /\ UNCHANGED <<world, store, tables, start, stop, gc, budget>>

CallGrant(c) ==
    /\ call[c].pc = "waiting"
    /\ call[c].lock # Closing
    /\ Free(call[c].sid, call[c].lock)
    /\ call' = [call EXCEPT ![c].pc = "body",
                            ![c].att = Driven(call[c].sid, @)]
    /\ UNCHANGED <<world, store, tables, start, stop, gc, budget>>

\* Mutant: the acquire behind the sentinel has no timeout.
CallBusyUnlessClosing(c) ==
    /\ call[c].pc = "waiting"
    /\ call[c].lock # Closing
    /\ CallDone(c)
    /\ UNCHANGED <<world, store, tables, start, stop, gc, budget>>

\* SESSION_BUSY_TIMEOUT_S, or the request is cancelled, while waiting
CallBusy(c) ==
    /\ call[c].pc = "waiting"
    /\ CallDone(c)
    /\ UNCHANGED <<world, store, tables, start, stop, gc, budget>>

\* The body ends, by result, error or cancellation, and releases the lock.
CallEnd(c) ==
    /\ call[c].pc = "body"
    /\ CallDone(c)
    /\ UNCHANGED <<world, store, tables, start, stop, gc, budget>>

CallStep(c) == \/ CallTouch(c) \/ CallTouchFails(c) \/ CallGrant(c)
               \/ CallBusy(c) \/ CallEnd(c)
-----------------------------------------------------------------------------
(* The environment *)

Crash(p) ==
    /\ budget.crash > 0
    /\ p \in alive
    /\ alive' = alive \ {p}
    /\ budget' = [budget EXCEPT !.crash = @ - 1]
    /\ UNCHANGED <<open, store, tables, start, stop, gc, call>>

\* IDLE_GC_THRESHOLD_S passes after the last touch.  A start is much shorter;
\* a tool call need not be (a background batch may run for an hour).
GrowIdle(s) ==
    /\ budget.idle > 0
    /\ record[s] # None
    /\ s \notin idle
    /\ start[s].pc \in {"ok", "failed"}
    /\ idle' = idle \cup {s}
    /\ budget' = [budget EXCEPT !.idle = @ - 1]
    /\ UNCHANGED <<world, record, tables, start, stop, gc, call>>

Next ==
    \/ \E s \in Sessions : \/ StartStep(s) \/ CancelAttempt(s) \/ CancelBind(s)
                           \/ CancelHealing(s) \/ GrowIdle(s)
    \/ \E k \in Stoppers : \/ StopStep(k) \/ CancelStop(k)
                           \/ \E s \in Sessions : StopLookup(k, s) \/ StopNotFound(k, s)
    \/ GcScan \/ GcStep
    \/ \E c \in Callers : CallStep(c) \/ \E s \in Sessions : CallCheck(c, s)
    \/ \E p \in alive : Crash(p)

Spec == Init /\ [][Next]_vars

\* The event loop runs every task that is ready, every worker thread and
\* every wait ends (each is bounded by a timeout in the code), and a lock is
\* released because tool bodies end.  Nothing forces a request to arrive, a
\* process to crash or a client to cancel.
Fairness ==
    /\ \A s \in Sessions : WF_vars(start[s].pc # "new" /\ StartStep(s))
    /\ \A k \in Stoppers : WF_vars(StopStep(k))
    /\ WF_vars(GcStep)
    /\ \A c \in Callers : WF_vars(CallStep(c))

FairSpec == Spec /\ Fairness
-----------------------------------------------------------------------------
(* Properties *)

StartType == [pc : StartPcs, att : Attempts, wedge : BOOLEAN,
              launcher : Slots, handles : Slots]
StopType == [pc : StopPcs, sid : Sessions \cup {None},
             launcher : Slots, handles : Slots, pid : Slots]
SnapType == [launcher : Slots, handles : Slots, pid : Slots]
GcType == [pc : GcPcs, todo : SUBSET Sessions, fresh : [Sessions -> Slots],
           snap : [Sessions -> SnapType], sid : Sessions \cup {None},
           stopped : SUBSET Sessions, cycles : Nat]
CallType == [pc : CallPcs, sid : Sessions \cup {None}, att : Slots,
             lock : Nat \cup {Closing}]

WorldOK == alive \subseteq Sessions \X Attempts /\ open \subseteq Sessions \X Attempts
StoreOK == record \in [Sessions -> Slots] /\ idle \subseteq Sessions
TablesOK == /\ launchers \in [Sessions -> Slots]
            /\ handles \in [Sessions -> Slots]
            /\ locks \in [Sessions -> Nat \cup {None, Closing}]
            /\ lockCount \in [Sessions -> Nat]
StartOK == /\ start \in [Sessions -> StartType]
           /\ \A s \in Sessions :
                start[s].pc = "cooldown" => start[s].att < MaxRestarts
StopOK == /\ stop \in [Stoppers -> StopType]
          /\ \A k \in Stoppers : stop[k].pc # "ready" => stop[k].sid \in Sessions
GcOK == /\ gc \in GcType
        /\ gc.pc \in {"closing", "killing", "dropping"} => gc.sid \in Sessions
CallOK == /\ call \in [Callers -> CallType]
          /\ \A c \in Callers : call[c].pc \in {"checked", "waiting", "body"} =>
                                  call[c].sid \in Sessions
BudgetOK == budget \in [crash : Nat, idle : Nat, cancel : Nat]

\* Every variable stays in its type, and a task that works on a session has
\* one (the shapes of the manager's tables and of the tasks' locals).
TypeOK == /\ WorldOK /\ StoreOK /\ TablesOK /\ StartOK
          /\ StopOK /\ GcOK /\ CallOK /\ BudgetOK

InBody(c) == call[c].pc = "body"
Starting(s) == start[s].pc \notin {"new", "ok", "failed"}
Stopping(k, s) == stop[k].sid = s /\ stop[k].pc \in {"closing", "killing", "removing"}

\* client_helper's serialization: no two tool bodies drive one live PPSSPP
\* process, whatever the starts, stops and reclaims did to the lock table.
OneCallPerProcess ==
    \A c, d \in Callers :
        /\ c # d /\ InBody(c) /\ InBody(d)
        /\ call[c].sid = call[d].sid /\ call[c].att = call[d].att
        => <<call[c].sid, call[c].att>> \notin alive

\* Why the lock table serializes calls on sessions that are not resilient: a
\* session gets at most one lock object, because its entry is dropped only
\* together with its record, and nothing records the session again.
LockInv ==
    /\ \A s \in Sessions :
         /\ start[s].pc \notin {"gateload", "cpu", "recording",
                               "teardown", "closing", "cooldown"}
         /\ ~start[s].wedge
         /\ start[s].pc \in {"new", "launching", "launched"} =>
              /\ record[s] = None /\ locks[s] = None /\ lockCount[s] = 0
         /\ lockCount[s] \in {0, 1}
         /\ locks[s] \in {None, Closing, 1}
         /\ locks[s] = 1 => lockCount[s] = 1
         /\ record[s] # None /\ locks[s] = None => lockCount[s] = 0
    /\ \A c \in Callers :
         /\ call[c].pc = "waiting" => call[c].lock \in {1, Closing}
         /\ InBody(c) => call[c].lock = 1
    /\ \A c, d \in Callers :
         c # d /\ InBody(c) /\ InBody(d) => call[c].sid # call[d].sid

\* stop_session or gc_idle_sessions can still find and kill this process:
\* they start from a record and kill its launcher, or its pid without one.
Reachable(s, n) ==
    record[s] # None /\ n = IF launchers[s] # None THEN launchers[s] ELSE record[s]

\* A running task is going to kill this process, or to record it.
ProcessInHand(s, n) ==
    \/ Starting(s) /\ launchers[s] = n
    \/ start[s].pc \in {"launching", "conflict"} /\ start[s].att = n
    \/ start[s].launcher = n
    \/ \E k \in Stoppers :
         stop[k].pc \in {"closing", "killing"} /\ <<s, n>> = StopTarget(k)

\* No orphan PPSSPP: the comments of start_session and _start_once promise
\* that every process keeps an owner on every path.
ProcessOwned == \A p \in alive : Reachable(p[1], p[2]) \/ ProcessInHand(p[1], p[2])

\* No orphan handles: an open transport and observer belong to a recorded
\* session's table entry or to a task that is going to close them.
HandlesOwned ==
    \A p \in open : LET s == p[1]
                        n == p[2] IN
        \/ handles[s] = n /\ (record[s] # None \/ Starting(s))
        \/ start[s].pc \in {"binding", "aborting"} /\ start[s].att = n
        \/ start[s].handles = n
        \/ \E k \in Stoppers : Stopping(k, s) /\ stop[k].handles = n

\* A stop that returned is final: no process of the session runs, is recorded
\* or has a registered launcher afterwards (stop_session phases 1 to 3).
StopIsFinal ==
    \A k \in Stoppers : stop[k].pc = "done" =>
        LET s == stop[k].sid
        IN  /\ \A n \in Attempts : <<s, n>> \notin alive
            /\ record[s] = None /\ launchers[s] = None

\* _session_locks does not grow for ever: a session that is gone, with no
\* task and no call left on it, has no lock entry (SessionManager.__init__).
LocksReclaimed ==
    \A s \in Sessions :
        /\ record[s] = None /\ ~Starting(s)
        /\ \A k \in Stoppers : ~Stopping(k, s)
        /\ \A c \in Callers : call[c].sid # s
        => locks[s] = None

\* The closing sentinel is installed only while a stop is under way, so it
\* never makes a session permanently busy.
SentinelTransient ==
    \A s \in Sessions : locks[s] = Closing => \E k \in Stoppers : Stopping(k, s)

\* A call that arrives while a stop is between its phases 1 and 3 meets the
\* sentinel: it never enters its body on the dying session.
NoLateEntry ==
    [][\A c \in Callers, k \in Stoppers :
         Stopping(k, call[c].sid) => ~(call[c].pc = "checked" /\ InBody(c)')]_vars

\* A record disappears only after the process it names is dead: the record is
\* what lets the next stop or collector cycle find the process.
RecordsKept ==
    \A s \in Sessions : record[s] # None /\ record'[s] = None => ~RecordAlive(s)
RecordOutlivesProcess == [][RecordsKept]_vars

\* A live process can be found: every step leaves it with an owner, and its
\* record outlives it.
ProcessFindable == [][RecordsKept /\ ProcessOwned']_vars

\* No failed attempt, crash or failed save leaves a process or a handle behind.
NothingOrphaned == [][RecordsKept /\ ProcessOwned' /\ HandlesOwned']_vars

\* The lock table keeps neither a lock nor a sentinel of a session that ended.
LocksTransient == LocksReclaimed /\ SentinelTransient

\* The collector re-checks before it kills: a session it begins to reclaim is
\* idle or dead at that moment, whatever its snapshot said.
GcRechecks ==
    [][\A s \in Sessions :
         gc.pc # "closing" /\ gc'.pc = "closing" /\ gc'.sid = s => s \in Expired]_vars

\* A launched start ends in success or failure: the heal and relaunch loop is
\* bounded by max_restarts.
StartsEnd ==
    \A s \in Sessions : start[s].pc = "launching" ~> start[s].pc \in {"ok", "failed"}

\* A stop that found its session ends.
StopsEnd ==
    \A k \in Stoppers : stop[k].pc = "closing" ~>
                        stop[k].pc \in {"done", "error", "cancelled"}

\* A tool call that passed its liveness check ends, even behind the closing
\* sentinel whose acquire never returns.
CallsEnd == \A c \in Callers : call[c].pc = "checked" ~> call[c].pc = "done"
=============================================================================
