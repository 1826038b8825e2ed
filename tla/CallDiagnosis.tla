--------------------------- MODULE CallDiagnosis ---------------------------
(***************************************************************************)
(* What a caller is told when a request to PPSSPP is not answered: the two *)
(* probes before a frame-driven request (service/gpu_service.py), the ring *)
(* of call records (core/call_diagnostics.py), the attribution of a timeout*)
(* (core/call_attribution.py), the life of the game as the observer knows  *)
(* it (core/game_state_observer.py), the error context of a call           *)
(* (session/client_helper.py) and the translation of its exception         *)
(* (errors.py), as the tools gpu_stats and gpu_record use them.            *)
(*                                                                         *)
(* gpu.* requests hold the session lock, one at a time; a lock-free waiter *)
(* may ask for cpu.status beside them.  Probes before a request are taken  *)
(* as one step each.                                                       *)
(***************************************************************************)
EXTENDS Naturals, Sequences, FiniteSets

CONSTANTS
    Requesters,     \* tool calls
    RingCap,        \* DEFAULT_CAPACITY
    LockFree,       \* those that take no session lock: waiters
    MaxWire,        \* bound: game.* broadcasts under way at once
    MaxRequests     \* bound: tickets given out

ASSUME DiagnosisAssumption ==
    /\ LockFree \subseteq Requesters
    /\ RingCap \in Nat \ {0} /\ MaxWire \in Nat /\ MaxRequests \in Nat

FrameEvents == {"gpu.stats.get", "gpu.record.dump"}
Events == FrameEvents \cup {"cpu.status"}

VARIABLES
    emu,        \* PPSSPP: [game, stepping, alive]
    wire,       \* game.* broadcasts on their way to the dispatcher
    observer,   \* GameStateObserver._state, or "none": a per-call transport
    ring,       \* CallDiagnostics._records, oldest first
    tickets,    \* tickets given out
    owed,       \* events PPSSPP may still answer for a caller that gave up
    probing,    \* WsTransport._probing_stepping
    request     \* the calls

diagVars == <<emu, wire, observer, ring, tickets, owed, probing, request>>

Unasked == [pc |-> "idle", event |-> "none", stepping0 |-> FALSE, moved |-> FALSE,
            ticket |-> 0, probe |-> 0, raised |-> "none", told |-> "none", code |-> "none"]

\* A session's observer may be attached to a game that already runs.
DiagInit ==
    /\ emu \in [game : {"none", "running", "paused"}, stepping : BOOLEAN, alive : {TRUE}]
    /\ wire = <<>>
    /\ observer \in {"loading", "none"}
    /\ ring = <<>> /\ tickets = 0 /\ owed = {} /\ probing = FALSE
    /\ request = [c \in Requesters |-> Unasked]

StillWorld == UNCHANGED <<emu, wire, observer>>
StillCalls == UNCHANGED <<ring, tickets, owed, probing, request>>
Busy(c) == request[c].pc \notin {"idle", "end"}

-----------------------------------------------------------------------------
(* PPSSPP and the observer. *)

GameEvent(event, from, to) ==
    /\ emu.alive /\ emu.game \in from /\ Len(wire) < MaxWire
    /\ emu' = [emu EXCEPT !.game = to]
    /\ wire' = IF observer = "none" THEN wire ELSE Append(wire, event)
    /\ UNCHANGED observer /\ StillCalls

EmuGame ==
    \/ GameEvent("game.start", {"none", "quit"}, "running")
    \/ GameEvent("game.pause", {"running"}, "paused")
    \/ GameEvent("game.resume", {"paused"}, "running")
    \/ GameEvent("game.quit", {"running", "paused"}, "quit")

\* A breakpoint, a user or a lock-free tool stops or releases the CPU.
EmuSteps ==
    /\ emu.alive
    /\ emu' = [emu EXCEPT !.stepping = ~@]
    /\ UNCHANGED <<wire, observer>> /\ StillCalls

\* The CPU's ticks move between two probes.
EmuAdvances ==
    /\ emu.alive /\ ~emu.stepping
    /\ request' = [c \in Requesters |->
                      IF request[c].pc = "gap" THEN [request[c] EXCEPT !.moved = TRUE]
                      ELSE request[c]]
    /\ request' # request
    /\ UNCHANGED <<ring, tickets, owed, probing>> /\ StillWorld

\* _TRANSITIONS: anything else leaves the state alone.
Transition(state, event) ==
    CASE state = "loading" /\ event = "game.start" -> "running"
      [] state = "running" /\ event = "game.pause" -> "paused"
      [] state = "running" /\ event = "game.quit" -> "quit"
      [] state = "paused" /\ event = "game.resume" -> "running"
      [] OTHER -> state

ApplyTransition ==
    /\ wire # <<>>
    /\ observer' = Transition(observer, Head(wire))
    /\ wire' = Tail(wire)
    /\ UNCHANGED emu /\ StillCalls

-----------------------------------------------------------------------------
(* Records. *)

Open(event) ==
    [event |-> event, ticket |-> tickets + 1, settled |-> FALSE, timedOut |-> FALSE,
     error |-> "none", stepping |-> "unknown", seen |-> FALSE]

\* begin: the deque drops its oldest record.
Record(event) ==
    /\ tickets < MaxRequests
    /\ tickets' = tickets + 1
    /\ ring' = LET q == Append(ring, Open(event)) IN
               IF Len(q) > RingCap THEN Tail(q) ELSE q

SettleIn(q, ticket, timedOut, error, stepping) ==
    [i \in DOMAIN q |->
        IF q[i].ticket = ticket
        THEN [q[i] EXCEPT !.settled = TRUE, !.timedOut = timedOut, !.error = error,
                          !.stepping = stepping]
        ELSE q[i]]

\* note_broadcast: every open record of the event saw it.
NoteBroadcast(event) ==
    ring' = [i \in DOMAIN ring |->
                IF ring[i].event = event /\ ~ring[i].settled
                THEN [ring[i] EXCEPT !.seen = TRUE] ELSE ring[i]]

LastOf(event) ==
    LET q == SelectSeq(ring, LAMBDA r : r.event = event) IN
    IF q = <<>> THEN Open(event) ELSE q[Len(q)]

\* attribute_timeout, on the newest record of the event.
AttributeTimeout(r) ==
    CASE r.stepping = "yes" -> "expected_stall"
      [] r.stepping # "yes" /\ ~r.timedOut -> "unknown"
      [] r.stepping # "yes" /\ r.timedOut /\ r.seen -> "pairing_broken"
      [] OTHER -> "no_producer"

-----------------------------------------------------------------------------
(* A call. *)

Ask(c, event) ==
    /\ request[c].pc = "idle"
    /\ IF c \in LockFree THEN event = "cpu.status"
       ELSE event \in FrameEvents /\ \A d \in Requesters \ LockFree : ~Busy(d)
    /\ request' = [request EXCEPT ![c].event = event,
                                  ![c].pc = IF event \in FrameEvents THEN "probe0" ELSE "issue"]
    /\ UNCHANGED <<ring, tickets, owed, probing>> /\ StillWorld

To(c, pc) == request' = [request EXCEPT ![c].pc = pc, ![c].stepping0 = FALSE, ![c].moved = FALSE]
Raise(c, exc) == request' = [request EXCEPT ![c].pc = "raise", ![c].raised = exc,
                                           ![c].stepping0 = FALSE, ![c].moved = FALSE]

\* A refused or unanswered probe is raised (a TimeoutError is an OSError); an
\* error of PPSSPP lets the request go ahead.
ProbeFault(c) ==
    \/ ~emu.alive /\ Raise(c, "ConnectionError")
    \/ Raise(c, "TimeoutError")
    \/ emu.alive /\ To(c, "issue")

FirstProbe(c) ==
    /\ request[c].pc = "probe0"
    /\ \/ /\ emu.alive
          /\ request' = [request EXCEPT ![c].pc = "gap", ![c].stepping0 = emu.stepping]
       \/ ProbeFault(c)
    /\ UNCHANGED <<ring, tickets, owed, probing>> /\ StillWorld

SecondProbe(c) ==
    /\ request[c].pc = "gap"
    /\ \/ /\ emu.alive
          /\ IF request[c].stepping0 \/ emu.stepping \/ ~request[c].moved
             THEN Raise(c, "CPU_STATE_ERROR")
             ELSE To(c, "issue")
       \/ ProbeFault(c)
    /\ UNCHANGED <<ring, tickets, owed, probing>> /\ StillWorld

Issue(c) ==
    /\ request[c].pc = "issue"
    /\ IF emu.alive
       THEN /\ Record(request[c].event)
            /\ request' = [request EXCEPT ![c].pc = "wait", ![c].ticket = tickets + 1]
       ELSE Raise(c, "ConnectionError") /\ UNCHANGED <<ring, tickets>>
    /\ UNCHANGED <<owed, probing>> /\ StillWorld

\* A paused CPU renders no frame.
Answer(c) ==
    /\ request[c].pc = "wait" /\ emu.alive
    /\ \E ok \in BOOLEAN :
         /\ ok => ~(emu.stepping /\ request[c].event \in FrameEvents)
         /\ ring' = SettleIn(ring, request[c].ticket, FALSE,
                             IF ok THEN "none" ELSE "PPSSPP error", "unknown")
         /\ IF ok THEN request' = [request EXCEPT ![c].pc = "end", ![c].code = "ok"]
            ELSE Raise(c, "RuntimeError")
    /\ UNCHANGED <<tickets, owed, probing>> /\ StillWorld

\* The answer to a caller that gave up matches no ticket: it counts as a broadcast.
LateAnswer(event) ==
    /\ event \in owed /\ emu.alive
    /\ NoteBroadcast(event)
    /\ owed' = owed \ {event}
    /\ UNCHANGED <<tickets, probing, request>> /\ StillWorld

\* The CPU's state is asked for, unless another call's probe is under way.
CallTimesOut(c) ==
    /\ request[c].pc = "wait"
    /\ owed' = owed \cup {request[c].event}
    /\ IF probing
       THEN /\ ring' = SettleIn(ring, request[c].ticket, TRUE, "no response", "unknown")
            /\ Raise(c, "TimeoutError")
            /\ UNCHANGED <<tickets, probing>>
       ELSE /\ Record("cpu.status")
            /\ request' = [request EXCEPT ![c].pc = "probe", ![c].probe = tickets + 1]
            /\ probing' = TRUE
    /\ StillWorld

\* The probe's own timeout does not probe again.
ProbeSettles(c) ==
    /\ request[c].pc = "probe"
    /\ \E answered \in BOOLEAN :
         LET stepping == IF ~answered THEN "unknown" ELSE IF emu.stepping THEN "yes" ELSE "no" IN
         /\ answered => emu.alive
         /\ ring' = SettleIn(SettleIn(ring, request[c].probe, ~answered, "none", "unknown"),
                             request[c].ticket, TRUE, "no response", stepping)
         /\ owed' = IF answered THEN owed ELSE owed \cup {"cpu.status"}
    /\ Raise(c, "TimeoutError")
    /\ probing' = FALSE
    /\ UNCHANGED tickets /\ StillWorld

CallCancelled(c) ==
    /\ request[c].pc = "wait"
    /\ ring' = SettleIn(ring, request[c].ticket, FALSE, "CancelledError", "unknown")
    /\ request' = [request EXCEPT ![c].pc = "end", ![c].code = "cancelled"]
    /\ owed' = owed \cup {request[c].event}
    /\ UNCHANGED <<tickets, probing>> /\ StillWorld

\* A client that cancels during the probe: the probe's record is settled, the
\* record of the call is not.
ProbeCancelled(c) ==
    /\ request[c].pc = "probe"
    /\ ring' = SettleIn(ring, request[c].probe, FALSE, "CancelledError", "unknown")
    /\ request' = [request EXCEPT ![c].pc = "end", ![c].code = "abandoned"]
    /\ owed' = owed \cup {"cpu.status"}
    /\ probing' = FALSE
    /\ UNCHANGED tickets /\ StillWorld

\* PPSSPP dies: what waits for an answer fails at once.
EmuDies ==
    LET cut == {c \in Requesters : request[c].pc = "wait"} IN
    /\ emu.alive
    /\ emu' = [emu EXCEPT !.alive = FALSE]
    /\ ring' = [i \in DOMAIN ring |->
                  IF \E c \in cut : request[c].ticket = ring[i].ticket
                  THEN [ring[i] EXCEPT !.settled = TRUE, !.error = "ConnectionError"]
                  ELSE ring[i]]
    /\ request' = [c \in Requesters |->
                     IF c \in cut
                     THEN [request[c] EXCEPT !.pc = "raise", !.raised = "ConnectionError"]
                     ELSE request[c]]
    /\ owed' = {}
    /\ UNCHANGED <<wire, observer, tickets, probing>>

-----------------------------------------------------------------------------
(* What the caller is told. *)

ToolErrors == {"CPU_STATE_ERROR", "WS_TIMEOUT", "CPU_FREEZE_SUSPECTED"}

\* GameStateObserver.is_rendering: start_gpu_stats_feed has no caller, so the
\* frame heartbeat is never started and says nothing.
IsRendering == "unknown"

\* _attribution_suffix: a cause that is unknown is not told.
Suffix(event) ==
    LET cause == AttributeTimeout(LastOf(event)) IN
    IF cause = "unknown" THEN "none" ELSE cause

\* The handlers of gpu_stats: a suspected freeze without frames is told as a
\* timeout, and a timeout with its cause.
Handled(c) ==
    LET exc == request[c].raised IN
    CASE request[c].event # "gpu.stats.get" \/ exc \notin {"WS_TIMEOUT", "CPU_FREEZE_SUSPECTED"}
            -> [exc |-> exc, cause |-> "none"]
      [] exc = "CPU_FREEZE_SUSPECTED" /\ IsRendering = "no"
            -> [exc |-> "WS_TIMEOUT", cause |-> "no_producer"]
      [] OTHER -> [exc |-> exc, cause |-> Suffix("gpu.stats.get")]

\* The resolvers of the call's error context: a record read back from disk, whose
\* calls have no observer either, may be without a pid.
PidStates ==
    {IF emu.alive THEN "alive" ELSE "dead"} \cup (IF observer = "none" THEN {"none"} ELSE {})
GameState == observer

\* _translate_timeout_error: the process, then the game.
TimeoutCode(pid) ==
    CASE pid = "none" -> "WS_TIMEOUT"
      [] pid = "dead" -> "WS_DISCONNECTED"
      [] OTHER ->
           CASE GameState = "running" -> "CPU_FREEZE_SUSPECTED"
             [] GameState = "paused" -> "CPU_STATE_ERROR"
             [] GameState = "quit" -> "WS_DISCONNECTED"
             [] OTHER -> "WS_TIMEOUT"

\* Mutant: the error context is reset before the exception is translated.
ToToolErrorReset(exc, pid) ==
    CASE exc \in ToolErrors -> exc
      [] exc = "TimeoutError" -> TimeoutCode("none")
      [] exc = "ConnectionError" -> "WS_DISCONNECTED"
      [] exc = "RuntimeError" -> "PPSSPP_ERROR"

ToToolError(exc, pid) ==
    CASE exc \in ToolErrors -> exc
      [] exc = "TimeoutError" -> TimeoutCode(pid)
      [] exc = "ConnectionError" -> "WS_DISCONNECTED"
      [] exc = "RuntimeError" -> "PPSSPP_ERROR"

\* The exception leaves the session's scope and passes the tool's handlers as it
\* was raised; only the decorator around the tool translates it.
Report(c) ==
    /\ request[c].pc = "raise"
    /\ \E pid \in PidStates :
         request' = [request EXCEPT ![c].pc = "end", ![c].told = Handled(c).cause,
                                    ![c].code = ToToolError(Handled(c).exc, pid)]
    /\ UNCHANGED <<ring, tickets, owed, probing>> /\ StillWorld

DiagNext ==
    \/ EmuGame \/ EmuSteps \/ EmuAdvances \/ EmuDies \/ ApplyTransition
    \/ \E event \in Events : LateAnswer(event)
    \/ \E c \in Requesters, event \in Events : Ask(c, event)
    \/ \E c \in Requesters :
          \/ FirstProbe(c) \/ SecondProbe(c) \/ Issue(c) \/ Answer(c) \/ CallTimesOut(c)
          \/ ProbeSettles(c) \/ CallCancelled(c) \/ ProbeCancelled(c) \/ Report(c)

DiagSpec == DiagInit /\ [][DiagNext]_diagVars

-----------------------------------------------------------------------------
(* Properties. *)

(* An observer that has seen every broadcast and says `running' is right,    *)
(* also when it was attached late or missed a transition it does not know:  *)
(* the verdict CPU_FREEZE_SUSPECTED rests on it.                             *)
RunningIsTrue == wire = <<>> /\ observer = "running" => emu.game = "running"

(* A timeout while the process lives and the observer knows the game runs is *)
(* judged as a freeze and not as a plain WS_TIMEOUT: the error context      *)
(* outlives the session scope the exception leaves (client_helper.py).  This *)
(* is so of gpu_stats too, although its documentation promises a second look *)
(* at the frames first: FreezeHasFrames.                                     *)
FreezeIsNamed ==
    [][\A c \in Requesters :
          /\ request[c].pc = "raise" /\ request'[c].pc = "end"
          /\ request[c].raised = "TimeoutError"
          /\ emu.alive /\ observer = "running"
          => request'[c].code = "CPU_FREEZE_SUSPECTED"]_diagVars

(* A record stays open only while its call, or the probe a timed-out call    *)
(* made, is in flight, unless the call was cancelled during that probe: a    *)
(* later broadcast must not be credited to a dead call.                      *)
RecordsSettle ==
    \A i \in DOMAIN ring :
        ring[i].settled \/ \E c \in Requesters :
            \/ request[c].pc \in {"wait", "probe"} /\ request[c].ticket = ring[i].ticket
            \/ request[c].pc = "probe" /\ request[c].probe = ring[i].ticket
            \/ request[c].code = "abandoned" /\ request[c].ticket = ring[i].ticket

(* A gpu_stats call whose request timed out says why: `the error names WHY   *)
(* it timed out', tools/gpu_stats.py:139.  It never does: the handlers that   *)
(* would add the cause see the bare TimeoutError and let it pass.            *)
TimeoutIsAttributed ==
    \A c \in Requesters :
        /\ request[c].pc = "end" /\ request[c].event = "gpu.stats.get"
        /\ request[c].ticket # 0 /\ request[c].raised = "TimeoutError"
        => request[c].told # "none"

(* gpu_stats reports no freeze where the probe of its own timeout found the  *)
(* CPU paused, so that no frame could come: `if no frames are arriving it is  *)
(* reported as WS_TIMEOUT [...], NOT as a CPU freeze', tools/gpu_stats.py:    *)
(* 142-143.  The check is in the same handlers, and the heartbeat it would    *)
(* ask is never started.                                                     *)
FreezeHasFrames ==
    \A c \in Requesters, i \in DOMAIN ring :
        /\ request[c].event = "gpu.stats.get" /\ request[c].code = "CPU_FREEZE_SUSPECTED"
        /\ ring[i].ticket = request[c].ticket
        => ring[i].stepping # "yes"

(* The verdict on a timeout (to_tool_error and attribute_timeout) rests on   *)
(* true records, and is told although the scope it needs has been left.      *)
DiagnosisIsSound == FreezeIsNamed /\ [](RunningIsTrue /\ RecordsSettle)
=============================================================================
