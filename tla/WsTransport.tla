---------------------------- MODULE WsTransport ----------------------------
(***************************************************************************)
(* The WebSocket transport of a session, core/transport.py: calls matched  *)
(* to answers by ticket, the receive loop, the reconnect any call may      *)
(* start, and close().                                                     *)
(*                                                                         *)
(* A call may contain other calls: a reconnect sends the version           *)
(* handshake, and a call that times out probes whether the CPU is          *)
(* stepping.  A task is a stack of such calls, and only the top one has a  *)
(* ticket.  What runs between two awaits is one step.  Broadcasts, the     *)
(* version queue's contents and the call diagnostics are left out.         *)
(***************************************************************************)
EXTENDS Naturals, Sequences, SequencesExt

CONSTANTS
    Tasks,       \* tool calls
    None,        \* no owner of the reconnect lock
    MaxSockets,  \* sockets ever opened
    MaxDrops,    \* connections lost
    MaxCancels   \* tool calls cancelled

ASSUME WsAssumption == /\ None \notin Tasks
                       /\ MaxSockets \in Nat \ {0}
                       /\ MaxDrops \in Nat
                       /\ MaxCancels \in Nat

Sockets == 1 .. MaxSockets

VARIABLES
    ws,       \* WsTransport.ws, 0 for None
    socket,   \* the sockets' states
    loop,     \* the receive loop started for each socket
    reader,   \* WsTransport._recv_task: the loop of which socket, 0 for None
    pending,  \* WsTransport._pending: the tasks whose top call has a ticket in it
    lock,     \* owner of _reconnect_lock
    probing,  \* _probing_stepping
    task,     \* the tool calls
    closer,   \* the close() of stop_session, and the loop it waits for
    drops, cancels

link == <<ws, socket, loop, reader>>
vars == <<link, pending, lock, probing, task, closer, drops, cancels>>

\* A call without a ticket.
Idle(pc, stack) == [pc |-> pc, stack |-> stack, fut |-> "none", sock |-> 0]

Init ==
    /\ ws = 1
    /\ socket = [i \in Sockets |-> IF i = 1 THEN "open" ELSE "none"]
    /\ loop = [i \in Sockets |-> IF i = 1 THEN "run" ELSE "none"]
    /\ reader = 1
    /\ pending = {}
    /\ lock = None
    /\ probing = FALSE
    /\ task = [t \in Tasks |-> Idle("ready", <<>>)]
    /\ closer = [pc |-> "ready", loop |-> 0]
    /\ drops = 0
    /\ cancels = 0

\* is_connected
Connected == ws # 0 /\ socket[ws] = "open"

Top(t) == Last(task[t].stack)
Lower(t) == Front(task[t].stack)
Goto(t, pc) == task' = [task EXCEPT ![t].pc = pc]

-----------------------------------------------------------------------------
(* How a call begins and ends *)

\* call() with this stack past its connection check: it has a ticket, and its
\* frame is being sent.
Register(t, stack) ==
    /\ task' = [task EXCEPT ![t] = [pc |-> "sending", stack |-> stack,
                                    fut |-> "wait", sock |-> ws]]
    /\ pending' = pending \cup {t}

Begin(t, stack) ==
    IF Connected THEN Register(t, stack)
    ELSE /\ task' = [task EXCEPT ![t] = Idle("locking", stack)]
         /\ pending' = pending \ {t}

\* Mutant: a tool call that fails keeps the reconnect lock.
FinishLocked(t) ==
    /\ task' = [task EXCEPT ![t] = Idle("done", <<>>)]
    /\ pending' = pending \ {t}
    /\ lock' = lock
    /\ probing' = (probing /\ "probe" \notin ToSet(task[t].stack))

\* The whole tool call ends: its tickets, the lock and the probe latch go.
Finish(t) ==
    /\ task' = [task EXCEPT ![t] = Idle("done", <<>>)]
    /\ pending' = pending \ {t}
    /\ lock' = IF lock = t THEN None ELSE lock
    /\ probing' = (probing /\ "probe" \notin ToSet(task[t].stack))

\* send_version falls back to the version queue.
Fallback(t, stack) ==
    /\ task' = [task EXCEPT ![t] = Idle("fallback", stack)]
    /\ pending' = pending \ {t}
    /\ UNCHANGED lock

\* The handshake succeeded: the reconnect is over and the call below it goes
\* on with whatever self.ws is now.
Reconnected(t) ==
    /\ lock' = None
    /\ Register(t, Lower(t))
    /\ UNCHANGED probing

\* The probe is over and the call below it raises its TimeoutError.
ProbeEnds(t) ==
    IF Last(Lower(t)) = "version"
    THEN Fallback(t, Lower(t)) /\ probing' = FALSE
    ELSE Finish(t)

Call(t) ==
    /\ task[t].pc = "ready"
    /\ Begin(t, <<"tool">>)
    /\ UNCHANGED <<link, lock, probing, closer, drops, cancels>>

Sent(t) ==
    /\ task[t].pc = "sending"
    /\ Goto(t, "waiting")
    /\ UNCHANGED <<link, pending, lock, probing, closer, drops, cancels>>

\* ConnectionClosed, which send_version does not catch.
SendFails(t) ==
    /\ task[t].pc = "sending"
    /\ socket[task[t].sock] # "open"
    /\ IF Top(t) = "probe" THEN ProbeEnds(t) ELSE Finish(t)
    /\ UNCHANGED <<link, closer, drops, cancels>>

Answered(t) ==
    /\ task[t].pc = "waiting"
    /\ task[t].fut = "ok"
    /\ CASE Top(t) = "tool" -> Finish(t)
         [] Top(t) = "version" -> Reconnected(t)
         [] Top(t) = "probe" -> ProbeEnds(t)
    /\ UNCHANGED <<link, closer, drops, cancels>>

\* An error answer, or the ConnectionError of a lost connection.
Failed(t) ==
    /\ task[t].pc = "waiting"
    /\ task[t].fut = "err"
    /\ CASE Top(t) = "tool" -> Finish(t)
         [] Top(t) = "version" -> Fallback(t, task[t].stack) /\ UNCHANGED probing
         [] Top(t) = "probe" -> ProbeEnds(t)
    /\ UNCHANGED <<link, closer, drops, cancels>>

\* Mutant: a probe that times out probes again.
TimeoutRecursive(t) ==
    /\ task[t].pc = "waiting"
    /\ task[t].fut = "wait"
    /\ probing' = TRUE
    /\ Begin(t, Append(task[t].stack, "probe"))
    /\ UNCHANGED <<link, lock, closer, drops, cancels>>

\* No answer in time: the call probes the CPU, unless a probe runs.
Timeout(t) ==
    /\ task[t].pc = "waiting"
    /\ task[t].fut = "wait"
    /\ \/ /\ ~probing
          /\ probing' = TRUE
          /\ Begin(t, Append(task[t].stack, "probe"))
          /\ UNCHANGED lock
       \/ /\ probing
          /\ CASE Top(t) = "tool" -> Finish(t)
               [] Top(t) = "version" -> Fallback(t, task[t].stack) /\ UNCHANGED probing
               [] Top(t) = "probe" -> ProbeEnds(t)
    /\ UNCHANGED <<link, closer, drops, cancels>>

\* The version queue gives the reply, or the handshake's budget ends.
VersionReply(t) ==
    /\ task[t].pc = "fallback"
    /\ Reconnected(t) \/ Finish(t)
    /\ UNCHANGED <<link, closer, drops, cancels>>

-----------------------------------------------------------------------------
(* _ensure_connected and connect, under _reconnect_lock *)

\* Past the old loop: an assigned socket is closed before a new one is opened.
Replace(t) ==
    IF ws = 0 THEN Goto(t, "opening") /\ UNCHANGED socket
    ELSE /\ Goto(t, "oldsocket")
         /\ socket' = [socket EXCEPT ![ws] = IF @ = "open" THEN "closing" ELSE @]

\* Mutant: reconnects are not serialized.
EnterUnlocked(t) ==
    /\ task[t].pc = "locking"
    /\ IF Connected THEN Register(t, task[t].stack) /\ UNCHANGED <<link, lock>>
       ELSE /\ lock' = t
            /\ IF reader # 0 /\ loop[reader] # "done"
               THEN /\ Goto(t, "oldreader")
                    /\ loop' = [loop EXCEPT ![reader] = "cancelled"]
                    /\ UNCHANGED <<ws, socket, reader, pending>>
               ELSE Replace(t) /\ UNCHANGED <<ws, loop, reader, pending>>
    /\ UNCHANGED <<probing, closer, drops, cancels>>

\* The lock is free.  Someone else may have reconnected meanwhile; otherwise
\* a loop that still runs is cancelled first.
Enter(t) ==
    /\ task[t].pc = "locking"
    /\ lock = None
    /\ IF Connected THEN Register(t, task[t].stack) /\ UNCHANGED <<link, lock>>
       ELSE /\ lock' = t
            /\ IF reader # 0 /\ loop[reader] # "done"
               THEN /\ Goto(t, "oldreader")
                    /\ loop' = [loop EXCEPT ![reader] = "cancelled"]
                    /\ UNCHANGED <<ws, socket, reader, pending>>
               ELSE Replace(t) /\ UNCHANGED <<ws, loop, reader, pending>>
    /\ UNCHANGED <<probing, closer, drops, cancels>>

OldReaderEnds(t) ==
    /\ task[t].pc = "oldreader"
    /\ reader # 0 => loop[reader] = "done"
    /\ reader' = 0
    /\ Replace(t)
    /\ UNCHANGED <<ws, loop, pending, lock, probing, closer, drops, cancels>>

OldSocketCloses(t) ==
    /\ task[t].pc = "oldsocket"
    /\ socket' = [socket EXCEPT ![ws] = "closed"]
    /\ ws' = 0
    /\ Goto(t, "opening")
    /\ UNCHANGED <<loop, reader, pending, lock, probing, closer, drops, cancels>>

\* A socket that closes wakes its loop, long before another one is open.
Woken == \A i \in Sockets : socket[i] = "closed" => loop[i] \notin {"run", "cancelled"}

\* A new socket with its loop, and the version call on it.
Open(t) ==
    /\ task[t].pc = "opening"
    /\ Woken
    /\ \E i \in Sockets :
         /\ socket[i] = "none" /\ \A j \in 1 .. i - 1 : socket[j] # "none"
         /\ ws' = i
         /\ socket' = [socket EXCEPT ![i] = "open"]
         /\ loop' = [loop EXCEPT ![i] = "run"]
         /\ reader' = i
         /\ task' = [task EXCEPT ![t] = [pc |-> "sending", fut |-> "wait", sock |-> i,
                                         stack |-> Append(@.stack, "version")]]
         /\ pending' = pending \cup {t}
    /\ UNCHANGED <<lock, probing, closer, drops, cancels>>

OpenRefused(t) ==
    /\ task[t].pc = "opening"
    /\ Finish(t)
    /\ UNCHANGED <<link, closer, drops, cancels>>

\* PPSSPP does not select the subprotocol: the socket is closed again.
OpenRejected(t) ==
    /\ task[t].pc = "opening"
    /\ Woken
    /\ \E i \in Sockets :
         /\ socket[i] = "none" /\ \A j \in 1 .. i - 1 : socket[j] # "none"
         /\ ws' = i
         /\ socket' = [socket EXCEPT ![i] = "closing"]
    /\ Goto(t, "rejecting")
    /\ UNCHANGED <<loop, reader, pending, lock, probing, closer, drops, cancels>>

RejectedCloses(t) ==
    /\ task[t].pc = "rejecting"
    /\ socket' = [socket EXCEPT ![ws] = "closed"]
    /\ ws' = 0
    /\ Finish(t)
    /\ UNCHANGED <<loop, reader, closer, drops, cancels>>

\* A cancelled tool call unwinds, except where connect suppresses the cancel.
Cancel(t) ==
    /\ cancels < MaxCancels
    /\ cancels' = cancels + 1
    /\ task[t].pc \notin {"ready", "done"}
    /\ IF task[t].pc = "oldreader"
       THEN UNCHANGED <<task, pending, lock, probing>>
       ELSE Finish(t)
    /\ UNCHANGED <<link, closer, drops>>

-----------------------------------------------------------------------------
(* _recv_loop, close() and the peer *)

\* A future is resolved: only a call that still waits for it sees it.
Resolved(ts, fut) ==
    [t \in Tasks |-> IF t \in ts THEN [task[t] EXCEPT !.fut = fut] ELSE task[t]]

\* An answer, or an error, for a ticket sent on this socket.
Dispatch(i) ==
    /\ loop[i] = "run"
    /\ Connected
    /\ \E t \in pending, fut \in {"ok", "err"} :
         /\ task[t].sock = ws
         /\ pending' = pending \ {t}
         /\ task' = Resolved({t}, fut)
    /\ UNCHANGED <<link, lock, probing, closer, drops, cancels>>

\* The loop's condition, looked at every half second, is false: it leaves.
LoopLeaves(i) ==
    /\ loop[i] = "run"
    /\ ~Connected
    /\ loop' = [loop EXCEPT ![i] = "done"]
    /\ UNCHANGED <<ws, socket, reader, pending, lock, probing, task, closer, drops, cancels>>

\* ConnectionClosed: every pending call fails at once.
LoopClosed(i) ==
    /\ loop[i] = "run"
    /\ socket[i] = "closed"
    /\ loop' = [loop EXCEPT ![i] = "done"]
    /\ task' = Resolved(pending, "err")
    /\ pending' = {}
    /\ UNCHANGED <<ws, socket, reader, lock, probing, closer, drops, cancels>>

LoopCancelled(i) ==
    /\ loop[i] = "cancelled"
    /\ loop' = [loop EXCEPT ![i] = "done"]
    /\ UNCHANGED <<ws, socket, reader, pending, lock, probing, task, closer, drops, cancels>>

\* A closing handshake begins, or the connection is gone.
Drop(i) ==
    /\ drops < MaxDrops
    /\ drops' = drops + 1
    /\ socket[i] = "open"
    /\ \E to \in {"closing", "closed"} : socket' = [socket EXCEPT ![i] = to]
    /\ UNCHANGED <<ws, loop, reader, pending, lock, probing, task, closer, cancels>>

\* The handshake that Drop began ends.
Lost(i) ==
    /\ socket[i] = "closing"
    /\ socket' = [socket EXCEPT ![i] = "closed"]
    /\ UNCHANGED <<ws, loop, reader, pending, lock, probing, task, closer, drops, cancels>>

\* close(), after its loop: the pending calls fail and an open socket is closed.
CloseRest ==
    /\ task' = Resolved(pending, "err")
    /\ pending' = {}
    /\ IF Connected
       THEN /\ socket' = [socket EXCEPT ![ws] = "closing"]
            /\ closer' = [pc |-> "socket", loop |-> ws]
       ELSE /\ UNCHANGED socket
            /\ closer' = [pc |-> "done", loop |-> 0]

Close ==
    /\ closer.pc = "ready"
    /\ IF reader # 0 /\ loop[reader] # "done"
       THEN /\ loop' = [loop EXCEPT ![reader] = "cancelled"]
            /\ closer' = [pc |-> "reader", loop |-> reader]
            /\ UNCHANGED <<socket, reader, pending, task>>
       ELSE /\ reader' = 0
            /\ CloseRest
            /\ UNCHANGED loop
    /\ UNCHANGED <<ws, lock, probing, drops, cancels>>

CloseReaderEnds ==
    /\ closer.pc = "reader"
    /\ loop[closer.loop] = "done"
    /\ reader' = 0
    /\ CloseRest
    /\ UNCHANGED <<ws, loop, lock, probing, drops, cancels>>

CloseSocket ==
    /\ closer.pc = "socket"
    /\ socket' = [socket EXCEPT ![closer.loop] = "closed"]
    /\ closer' = [pc |-> "done", loop |-> 0]
    /\ UNCHANGED <<ws, loop, reader, pending, lock, probing, task, drops, cancels>>

TaskStep(t) ==
    \/ Sent(t) \/ SendFails(t) \/ Answered(t) \/ Failed(t) \/ Timeout(t)
    \/ VersionReply(t) \/ Enter(t) \/ OldReaderEnds(t) \/ OldSocketCloses(t)
    \/ Open(t) \/ OpenRefused(t) \/ OpenRejected(t) \/ RejectedCloses(t)

LoopStep(i) == Dispatch(i) \/ LoopLeaves(i) \/ LoopClosed(i) \/ LoopCancelled(i)

Next ==
    \/ \E t \in Tasks : Call(t) \/ TaskStep(t) \/ Cancel(t)
    \/ \E i \in Sockets : LoopStep(i) \/ Drop(i) \/ Lost(i)
    \/ Close \/ CloseReaderEnds \/ CloseSocket

Spec == Init /\ [][Next]_vars

\* Every await of a call has a timeout, the lock is handed over in order, and
\* the event loop runs the receive loops.
FairSpec ==
    /\ Spec
    /\ \A t \in Tasks : SF_vars(TaskStep(t))
    /\ \A i \in Sockets : WF_vars(LoopStep(i)) /\ WF_vars(Lost(i))
-----------------------------------------------------------------------------
(* Properties *)

Frames == {"tool", "version", "probe"}
Pcs == {"ready", "sending", "waiting", "fallback", "locking", "oldreader",
        "oldsocket", "opening", "rejecting", "done"}

\* Every variable stays in its type, and the calls of one tool call nest three
\* deep at most: neither the probe nor the handshake contains itself.
TypeOK ==
    /\ ws \in Sockets \cup {0}
    /\ socket \in [Sockets -> {"none", "open", "closing", "closed"}]
    /\ loop \in [Sockets -> {"none", "run", "cancelled", "done"}]
    /\ reader \in Sockets \cup {0}
    /\ pending \subseteq Tasks
    /\ lock \in Tasks \cup {None}
    /\ probing \in BOOLEAN
    /\ \A t \in Tasks :
         /\ task[t].pc \in Pcs
         /\ task[t].fut \in {"none", "wait", "ok", "err"}
         /\ task[t].sock \in Sockets \cup {0}
         /\ Len(task[t].stack) <= 3
         /\ \A i, j \in 1 .. Len(task[t].stack) :
              /\ task[t].stack[i] \in Frames
              /\ task[t].stack[i] = task[t].stack[j] => i = j
    /\ closer.pc \in {"ready", "reader", "socket", "done"}

\* _pending holds exactly the tickets somebody waits for: a call that ended,
\* failed to send, timed out or was cancelled leaves none, and no call waits
\* for a ticket that nobody would resolve.
NoStrandedTicket ==
    \A t \in Tasks :
        t \in pending <=> task[t].pc \in {"sending", "waiting"} /\ task[t].fut = "wait"

\* At most one loop reads, so no frame goes to the loop of another socket.
OneReader == \A i, j \in Sockets : loop[i] = "run" /\ loop[j] = "run" => i = j

\* An open assigned socket has its loop: else is_connected() would say True for
\* ever and every call would wait out its timeout.  close() alone stops the
\* loop first.
OpenIsRead == Connected => loop[ws] = "run" \/ closer.pc = "reader"

\* Every open socket has its one reader, and every ticket its caller.
SocketsAreServed == OneReader /\ OpenIsRead /\ NoStrandedTicket

\* A call never waits for the reconnect lock it holds: a timeout's probe cannot
\* stop the call ("diagnostics must never be the reason a call fails").
NoSelfWait == \A t \in Tasks : task[t].pc = "locking" => lock # t

\* A transport that was closed has no open socket again ("In-flight tool calls
\* ... fail fast on the closed transport", session_manager.py:1160).
ClosedStaysClosed == [][closer.pc = "done" => (Connected' => Connected)]_vars

\* Every tool call ends, whatever the peer does and does not answer, unless a
\* call waits for the lock it holds, the one way to block a transport.
CallsEnd ==
    \A t \in Tasks : task[t].pc # "ready" ~> task[t].pc = "done" \/ ~NoSelfWait
=============================================================================
