------------------------ MODULE WsTransport_proofs ------------------------
(***************************************************************************)
(* For any number of tool calls, sockets, lost connections and cancels:    *)
(* every variable of the transport keeps its type, which bounds the        *)
(* nesting of calls, and every open socket has one reader and every ticket *)
(* its caller.  The inductive invariant, TransportInv, is in three parts:  *)
(* what the calls know of each other (CallInv), what the sockets and their *)
(* loops do (LinkInv), and what a reconnect under way has done already     *)
(* (Reconnecting).                                                         *)
(***************************************************************************)
EXTENDS WsTransport, TLAPS

\* The stacks of calls a tool call can be: nothing, the call itself, the
\* version handshake of its reconnect, the CPU probe of its timeout, and each
\* of the two inside the other.
T   == <<"tool">>
TV  == <<"tool", "version">>
TP  == <<"tool", "probe">>
TVP == <<"tool", "version", "probe">>
TPV == <<"tool", "probe", "version">>
Stacks == {<<>>, T, TV, TP, TVP, TPV}

\* The stacks with a handshake, and those with a probe.
Handshakes == {TV, TVP, TPV}
Probes == {TP, TVP, TPV}

\* Inside connect() or the part of _ensure_connected before it.
Linking == {"oldreader", "oldsocket", "opening", "rejecting"}

TaskType == [pc : Pcs, stack : Stacks, fut : {"none", "wait", "ok", "err"},
             sock : Sockets \cup {0}]

CallTypes ==
    /\ task \in [Tasks -> TaskType]
    /\ pending \in SUBSET Tasks
    /\ lock \in Tasks \cup {None}
    /\ probing \in BOOLEAN

\* Where a tool call is says which calls it is made of.
StackFollowsPc ==
    \A t \in Tasks :
        /\ task[t].pc \in {"sending", "waiting"} => task[t].stack # <<>>
        /\ task[t].pc = "locking" => task[t].stack \in {T, TP, TVP}
        /\ task[t].pc \in Linking => task[t].stack \in {T, TP}
        /\ task[t].pc = "fallback" => task[t].stack \in {TV, TPV}

\* A call that connects or shakes hands holds the reconnect lock.
LockHeld ==
    \A t \in Tasks :
        task[t].pc \in Linking \/ task[t].stack \in Handshakes => lock = t

\* A probe has the latch _probing_stepping, for itself.
LatchHeld ==
    \A t \in Tasks : task[t].stack \in Probes =>
        probing /\ \A u \in Tasks : task[u].stack \in Probes => u = t

CallInv == CallTypes /\ StackFollowsPc /\ LockHeld /\ LatchHeld /\ NoStrandedTicket

LinkTypes ==
    /\ ws \in Sockets \cup {0}
    /\ socket \in [Sockets -> {"none", "open", "closing", "closed"}]
    /\ loop \in [Sockets -> {"none", "run", "cancelled", "done"}]
    /\ reader \in Sockets \cup {0}
    /\ closer \in [pc : {"ready", "reader", "socket", "done"}, loop : Sockets \cup {0}]
    /\ closer.pc \in {"reader", "socket"} => closer.loop # 0

\* No socket but the assigned one is alive, and no loop without a socket.
OneSocket ==
    \A i \in Sockets : /\ i # ws => socket[i] \in {"none", "closed"}
                       /\ socket[i] = "none" => loop[i] = "none"

\* _recv_task, where there is one, was started.
ReaderStarted == reader # 0 => loop[reader] # "none"

LinkInv == LinkTypes /\ OneSocket /\ ReaderStarted /\ OneReader /\ OpenIsRead

\* A reconnect under way has no usable socket, and none at all when it opens
\* the new one.
Reconnecting ==
    \A t \in Tasks :
        /\ task[t].pc \in Linking => ~Connected
        /\ task[t].pc = "opening" => ws = 0
        /\ task[t].pc \in {"oldsocket", "rejecting"} => ws # 0

TransportInv == CallInv /\ LinkInv /\ Reconnecting

-----------------------------------------------------------------------------
(* The stacks *)

\* A sequence is known by its elements.
LEMMA Single ==
  ASSUME NEW s \in Seq(Frames), NEW a, Len(s) = 1, s[1] = a
  PROVE  s = <<a>>
  OBVIOUS

LEMMA Pair ==
  ASSUME NEW s \in Seq(Frames), NEW a, NEW b, Len(s) = 2, s[1] = a, s[2] = b
  PROVE  s = <<a, b>>
  OBVIOUS

LEMMA Triple ==
  ASSUME NEW s \in Seq(Frames), NEW a, NEW b, NEW c,
         Len(s) = 3, s[1] = a, s[2] = b, s[3] = c
  PROVE  s = <<a, b, c>>
  OBVIOUS

\* A call that makes another call: the stack it has then, its top, and what is
\* left when the inner call is over.
LEMMA OnePush ==
  ASSUME NEW a \in Frames, NEW b \in Frames
  PROVE  /\ Append(<<a>>, b) = <<a, b>>
         /\ Last(<<a, b>>) = b
         /\ Front(<<a, b>>) = <<a>>
  <1>1. Append(<<a>>, b) \in Seq(Frames)
    OBVIOUS
  <1>2. /\ Len(Append(<<a>>, b)) = 2
        /\ Append(<<a>>, b)[1] = a
        /\ Append(<<a>>, b)[2] = b
    OBVIOUS
  <1>3. Append(<<a>>, b) = <<a, b>>
    BY <1>1, <1>2, Pair
  <1>4. Front(<<a, b>>) \in Seq(Frames)
    BY DEF Front
  <1>5. Len(Front(<<a, b>>)) = 1 /\ Front(<<a, b>>)[1] = a
    BY DEF Front
  <1>6. Last(<<a, b>>) = b
    BY DEF Last
  <1> QED
    BY <1>3, <1>4, <1>5, <1>6, Single

LEMMA TwoPush ==
  ASSUME NEW a \in Frames, NEW b \in Frames, NEW c \in Frames
  PROVE  /\ Append(<<a, b>>, c) = <<a, b, c>>
         /\ Last(<<a, b, c>>) = c
         /\ Front(<<a, b, c>>) = <<a, b>>
  <1>1. Append(<<a, b>>, c) \in Seq(Frames)
    OBVIOUS
  <1>2. /\ Len(Append(<<a, b>>, c)) = 3
        /\ Append(<<a, b>>, c)[1] = a
        /\ Append(<<a, b>>, c)[2] = b
        /\ Append(<<a, b>>, c)[3] = c
    OBVIOUS
  <1>3. Append(<<a, b>>, c) = <<a, b, c>>
    BY <1>1, <1>2, Triple
  <1>4. Front(<<a, b, c>>) \in Seq(Frames)
    BY DEF Front
  <1>5. /\ Len(Front(<<a, b, c>>)) = 2
        /\ Front(<<a, b, c>>)[1] = a
        /\ Front(<<a, b, c>>)[2] = b
    BY DEF Front
  <1>6. Last(<<a, b, c>>) = c
    BY DEF Last
  <1> QED
    BY <1>3, <1>4, <1>5, <1>6, Pair

\* The stacks this program makes.
LEMMA Nesting ==
  /\ Append(T, "version") = TV /\ Append(T, "probe") = TP
  /\ Append(TV, "probe") = TVP /\ Append(TP, "version") = TPV
  /\ Last(T) = "tool"
  /\ Last(TV) = "version" /\ Front(TV) = T
  /\ Last(TP) = "probe" /\ Front(TP) = T
  /\ Last(TVP) = "probe" /\ Front(TVP) = TV
  /\ Last(TPV) = "version" /\ Front(TPV) = TP
  <1>1. "tool" \in Frames /\ "version" \in Frames /\ "probe" \in Frames
    BY DEF Frames
  <1>2. Last(T) = "tool"
    BY DEF Last, T
  <1>3. Append(T, "version") = TV /\ Last(TV) = "version" /\ Front(TV) = T
    BY <1>1, OnePush DEF T, TV
  <1>4. Append(T, "probe") = TP /\ Last(TP) = "probe" /\ Front(TP) = T
    BY <1>1, OnePush DEF T, TP
  <1>5. Append(TV, "probe") = TVP /\ Last(TVP) = "probe" /\ Front(TVP) = TV
    BY <1>1, TwoPush DEF TV, TVP
  <1>6. Append(TP, "version") = TPV /\ Last(TPV) = "version" /\ Front(TPV) = TP
    BY <1>1, TwoPush DEF TP, TPV
  <1> QED
    BY <1>2, <1>3, <1>4, <1>5, <1>6

\* No two of them are equal.
LEMMA StacksDiffer ==
  /\ <<>> \notin {T, TV, TP, TVP, TPV}
  /\ T \notin {TV, TP, TVP, TPV}
  /\ TV \notin {TP, TVP, TPV}
  /\ TP \notin {TVP, TPV}
  /\ TVP # TPV
  BY DEF T, TV, TP, TVP, TPV

\* At most three calls, and no kind of call twice.
LEMMA StackDepth ==
  ASSUME NEW s \in Stacks
  PROVE  /\ Len(s) <= 3
         /\ \A i, j \in 1 .. Len(s) : s[i] \in Frames /\ (s[i] = s[j] => i = j)
  <1>1. \/ Len(s) = 0
        \/ Len(s) = 1 /\ s[1] = "tool"
        \/ Len(s) = 2 /\ s[1] = "tool" /\ s[2] = "version"
        \/ Len(s) = 2 /\ s[1] = "tool" /\ s[2] = "probe"
        \/ Len(s) = 3 /\ s[1] = "tool" /\ s[2] = "version" /\ s[3] = "probe"
        \/ Len(s) = 3 /\ s[1] = "tool" /\ s[2] = "probe" /\ s[3] = "version"
    BY DEF Stacks, T, TV, TP, TVP, TPV
  <1>2. Len(s) \in 0 .. 3
    BY <1>1
  <1>3. ASSUME NEW n \in 0 .. 3, NEW i \in 1 .. n
        PROVE  i = 1 \/ (i = 2 /\ n > 1) \/ (i = 3 /\ n > 2)
    OBVIOUS
  <1>4. \A i \in 1 .. Len(s) : i = 1 \/ (i = 2 /\ Len(s) > 1) \/ (i = 3 /\ Len(s) > 2)
    BY <1>2, <1>3
  <1> QED
    BY <1>1, <1>2, <1>4 DEF Frames

\* Finish's test for a probe anywhere in the stack.
LEMMA StackProbes ==
  ASSUME NEW s \in Stacks
  PROVE  "probe" \in ToSet(s) <=> s \in Probes
  <1>1. CASE s = <<>>
    BY <1>1 DEF Probes, T, TV, TP, TVP, TPV, ToSet
  <1>2. CASE s = T
    BY <1>2 DEF Probes, T, TV, TP, TVP, TPV, ToSet
  <1>3. CASE s = TV
    BY <1>3 DEF Probes, T, TV, TP, TVP, TPV, ToSet
  <1>4. CASE s \in Probes
    BY <1>4 DEF Probes, T, TV, TP, TVP, TPV, ToSet
  <1> QED
    BY <1>1, <1>2, <1>3, <1>4 DEF Stacks, Probes

-----------------------------------------------------------------------------
(* How calls begin and end *)

\* No tool call gets further into a reconnect by this step.
NoneLinks == \A u \in Tasks : task'[u].pc \in Linking => task'[u].pc = task[u].pc

\* The end of a tool call, whatever it was doing, keeps what the calls know of
\* each other: its ticket, the lock and the latch go with it.
LEMMA FinishKeeps ==
  ASSUME CallInv, NEW t \in Tasks, Finish(t)
  PROVE  CallInv' /\ NoneLinks
  <1> USE DEF CallInv, CallTypes
  <1>1. Idle("done", <<>>) \in TaskType
    BY DEF Idle, TaskType, Pcs, Stacks
  <1>2. /\ task' \in [Tasks -> TaskType]
        /\ task'[t] = Idle("done", <<>>)
        /\ \A u \in Tasks : u # t => task'[u] = task[u]
    BY <1>1 DEF Finish
  <1>3. CallTypes'
    BY <1>2, WsAssumption DEF Finish
  <1>4. StackFollowsPc' /\ NoneLinks
    BY <1>2 DEF StackFollowsPc, NoneLinks, Idle, Linking
  <1>5. LockHeld'
    BY <1>2, StacksDiffer DEF Finish, LockHeld, Idle, Linking, Handshakes
  <1>6. task[t].stack \in Stacks
    BY DEF TaskType
  <1>7. LatchHeld'
    BY <1>2, <1>6, StackProbes, StacksDiffer DEF Finish, LatchHeld, Idle, Probes
  <1>8. NoStrandedTicket'
    BY <1>2 DEF Finish, NoStrandedTicket, Idle
  <1> QED
    BY <1>3, <1>4, <1>5, <1>7, <1>8

\* A call that takes a ticket, for itself or, with one more call in its stack,
\* for the handshake or the probe it needs.
LEMMA RegisterKeeps ==
  ASSUME CallInv, NEW t \in Tasks, NEW s \in Stacks \ {<<>>}, Register(t, s),
         ws \in Sockets \cup {0}, LockHeld', LatchHeld',
         lock' \in Tasks \cup {None}, probing' \in BOOLEAN
  PROVE  CallInv' /\ NoneLinks
  <1> USE DEF CallInv, CallTypes
  <1> DEFINE new == [pc |-> "sending", stack |-> s, fut |-> "wait", sock |-> ws]
  <1>1. new \in TaskType
    BY DEF TaskType, Pcs
  <1>2. /\ task' \in [Tasks -> TaskType]
        /\ task'[t] = new
        /\ \A u \in Tasks : u # t => task'[u] = task[u]
    BY <1>1 DEF Register
  <1> HIDE DEF new
  <1>3. new.pc = "sending" /\ new.stack = s /\ new.fut = "wait"
    BY DEF new
  <1>4. CallTypes'
    BY <1>2 DEF Register
  <1>5. StackFollowsPc' /\ NoneLinks
    BY <1>2, <1>3 DEF StackFollowsPc, NoneLinks, Linking
  <1>6. NoStrandedTicket'
    BY <1>2, <1>3 DEF Register, NoStrandedTicket
  <1> QED
    BY <1>4, <1>5, <1>6

\* A call that begins on a lost connection waits for the reconnect lock.
LEMMA BeginKeeps ==
  ASSUME CallInv, NEW t \in Tasks, NEW s \in {T, TP, TVP}, Begin(t, s),
         ws \in Sockets \cup {0}, LockHeld', LatchHeld',
         lock' \in Tasks \cup {None}, probing' \in BOOLEAN
  PROVE  CallInv' /\ NoneLinks
  <1>1. CASE Connected
    BY <1>1, RegisterKeeps, StacksDiffer DEF Begin, Stacks
  <1>2. CASE ~Connected
    <2> USE DEF CallInv, CallTypes
    <2>1. Idle("locking", s) \in TaskType
      BY DEF Idle, TaskType, Pcs, Stacks
    <2>2. /\ task' \in [Tasks -> TaskType]
          /\ task'[t] = Idle("locking", s)
          /\ \A u \in Tasks : u # t => task'[u] = task[u]
      BY <1>2, <2>1 DEF Begin
    <2>3. CallTypes'
      BY <1>2, <2>2 DEF Begin
    <2>4. StackFollowsPc' /\ NoneLinks
      BY <2>2, StacksDiffer DEF StackFollowsPc, NoneLinks, Linking, Idle
    <2>5. NoStrandedTicket'
      BY <1>2, <2>2 DEF Begin, NoStrandedTicket, Idle
    <2> QED
      BY <2>3, <2>4, <2>5
  <1> QED
    BY <1>1, <1>2

\* send_version's fallback: the handshake goes on without a ticket.
LEMMA FallbackKeeps ==
  ASSUME CallInv, NEW t \in Tasks, NEW s \in {TV, TPV}, Fallback(t, s),
         task[t].stack \in Handshakes, LatchHeld', probing' \in BOOLEAN
  PROVE  CallInv' /\ NoneLinks
  <1> USE DEF CallInv, CallTypes
  <1>1. Idle("fallback", s) \in TaskType
    BY DEF Idle, TaskType, Pcs, Stacks
  <1>2. /\ task' \in [Tasks -> TaskType]
        /\ task'[t] = Idle("fallback", s)
        /\ \A u \in Tasks : u # t => task'[u] = task[u]
    BY <1>1 DEF Fallback
  <1>3. CallTypes'
    BY <1>2 DEF Fallback
  <1>4. StackFollowsPc' /\ NoneLinks
    BY <1>2, StacksDiffer DEF StackFollowsPc, NoneLinks, Linking, Idle
  <1>5. LockHeld'
    BY <1>2 DEF Fallback, LockHeld, Idle, Linking, Handshakes
  <1>6. NoStrandedTicket'
    BY <1>2 DEF Fallback, NoStrandedTicket, Idle
  <1> QED
    BY <1>3, <1>4, <1>5, <1>6

\* The handshake of the reconnect succeeded: the lock is free, and the call
\* below it has its ticket.
LEMMA ReconnectedKeeps ==
  ASSUME CallInv, NEW t \in Tasks, Reconnected(t), task[t].stack \in {TV, TPV},
         ws \in Sockets \cup {0}
  PROVE  CallInv' /\ NoneLinks
  <1> DEFINE s == Lower(t)
  <1>1. /\ task[t].stack = TV => s = T
        /\ task[t].stack = TPV => s = TP
    BY Nesting DEF Lower
  <1>2. s \in {T, TP} /\ s \in Stacks \ {<<>>} /\ s \notin Handshakes
    BY <1>1, StacksDiffer DEF Stacks, Handshakes
  <1>3. s \in Probes => task[t].stack \in Probes
    BY <1>1, StacksDiffer DEF Probes
  <1>4. Register(t, s) /\ lock' = None /\ probing' = probing
    BY DEF Reconnected
  <1> HIDE DEF s
  <1>5. /\ \A u \in Tasks : u # t => task'[u] = task[u]
        /\ task'[t].stack = s /\ task'[t].pc = "sending"
    BY <1>4 DEF Register, CallInv, CallTypes
  <1>6. lock = t
    BY DEF CallInv, LockHeld, Handshakes
  <1>7. LockHeld'
    BY <1>2, <1>5, <1>6 DEF CallInv, LockHeld, Linking
  <1>8. LatchHeld'
    BY <1>3, <1>4, <1>5 DEF CallInv, LatchHeld
  <1> QED
    BY <1>2, <1>4, <1>7, <1>8, RegisterKeeps DEF CallInv, CallTypes

\* A probe that is over gives the latch back; the handshake it was made for
\* goes on, any other call ends.
LEMMA ProbeEndsKeeps ==
  ASSUME CallInv, NEW t \in Tasks, ProbeEnds(t), task[t].stack \in {TP, TVP}
  PROVE  CallInv' /\ NoneLinks
  <1>1. CASE task[t].stack = TP
    <2>1. Last(Lower(t)) # "version"
      BY <1>1, Nesting DEF Lower
    <2> QED
      BY <2>1, FinishKeeps DEF ProbeEnds
  <1>2. CASE task[t].stack = TVP
    <2>1. Lower(t) = TV /\ Last(Lower(t)) = "version"
      BY <1>2, Nesting DEF Lower
    <2>2. Fallback(t, TV) /\ probing' = FALSE
      BY <2>1 DEF ProbeEnds
    <2>3. /\ \A u \in Tasks : u # t => task'[u] = task[u]
          /\ task'[t].stack = TV
      BY <2>2 DEF Fallback, Idle, CallInv, CallTypes
    <2>4. LatchHeld'
      BY <1>2, <2>2, <2>3, StacksDiffer DEF CallInv, LatchHeld, Probes
    <2> QED
      BY <1>2, <2>2, <2>4, FallbackKeeps DEF Handshakes
  <1> QED
    BY <1>1, <1>2

-----------------------------------------------------------------------------
(* Steps of the calls that leave sockets and loops alone *)

LEMMA CallFrame ==
  ASSUME CallInv, UNCHANGED <<pending, lock, probing, task>>
  PROVE  CallInv' /\ NoneLinks
  BY DEF CallInv, CallTypes, StackFollowsPc, LockHeld, LatchHeld, NoStrandedTicket, NoneLinks

LEMMA LinkFrame ==
  ASSUME LinkInv, UNCHANGED <<link, closer>>
  PROVE  LinkInv'
  BY DEF LinkInv, LinkTypes, OneSocket, ReaderStarted, OneReader, OpenIsRead, Connected, link

LEMMA ReconnectingFrame ==
  ASSUME Reconnecting, NoneLinks, Connected' => Connected, UNCHANGED ws
  PROVE  Reconnecting'
  BY DEF Reconnecting, NoneLinks, Linking

\* It is enough for such a step to keep what the calls know.
LEMMA CallStep ==
  ASSUME TransportInv, CallInv' /\ NoneLinks, UNCHANGED <<link, closer>>
  PROVE  TransportInv'
  <1>1. LinkInv'
    BY LinkFrame DEF TransportInv
  <1>2. Reconnecting'
    BY ReconnectingFrame DEF TransportInv, Connected, link
  <1> QED
    BY <1>1, <1>2 DEF TransportInv

LEMMA InvCall ==
  ASSUME TransportInv, NEW t \in Tasks, Call(t)
  PROVE  TransportInv'
  <1> USE DEF TransportInv, CallInv, CallTypes
  <1>1. /\ \A u \in Tasks : u # t => task'[u] = task[u]
        /\ task'[t].stack = T
    BY DEF Call, Begin, Register, Idle, T
  <1>2. LockHeld' /\ LatchHeld'
    <2>1. LockHeld'
      BY <1>1, StacksDiffer DEF Call, Begin, Register, Idle, LockHeld, Handshakes, Linking
    <2>2. LatchHeld'
      BY <1>1, StacksDiffer DEF Call, LatchHeld, Probes
    <2> QED
      BY <2>1, <2>2
  <1>3. CallInv' /\ NoneLinks
    BY <1>2, BeginKeeps DEF Call, T, LinkInv, LinkTypes
  <1> QED
    BY <1>3, CallStep DEF Call

LEMMA InvSent ==
  ASSUME TransportInv, NEW t \in Tasks, Sent(t)
  PROVE  TransportInv'
  <1> USE DEF TransportInv, CallInv, CallTypes
  <1>1. /\ \A u \in Tasks : u # t => task'[u] = task[u]
        /\ task'[t].stack = task[t].stack /\ task'[t].fut = task[t].fut
        /\ task'[t].pc = "waiting"
    BY DEF Sent, Goto, TaskType
  <1>2. CallTypes'
    BY DEF Sent, Goto, TaskType, Pcs
  <1>3. StackFollowsPc' /\ LockHeld' /\ LatchHeld' /\ NoStrandedTicket' /\ NoneLinks
    BY <1>1 DEF Sent, StackFollowsPc, LockHeld, LatchHeld, NoStrandedTicket, NoneLinks, Linking
  <1> QED
    BY <1>2, <1>3, CallStep DEF Sent

LEMMA InvSendFails ==
  ASSUME TransportInv, NEW t \in Tasks, SendFails(t)
  PROVE  TransportInv'
  <1>1. task[t].stack \in {T, TV, TP, TVP, TPV}
    BY DEF SendFails, TransportInv, CallInv, CallTypes, StackFollowsPc, TaskType, Stacks
  <1>2. CASE Top(t) = "probe"
    <2>1. task[t].stack \in {TP, TVP}
      BY <1>1, <1>2, Nesting DEF Top
    <2> QED
      BY <1>2, <2>1, ProbeEndsKeeps, CallStep DEF SendFails, TransportInv
  <1>3. CASE Top(t) # "probe"
    BY <1>3, FinishKeeps, CallStep DEF SendFails, TransportInv
  <1> QED
    BY <1>2, <1>3

\* The three outcomes a call that waits can have, by the call on top of it.
LEMMA TopOfWaiting ==
  ASSUME TransportInv, NEW t \in Tasks, task[t].pc = "waiting"
  PROVE  \/ Top(t) = "tool" /\ task[t].stack = T
         \/ Top(t) = "version" /\ task[t].stack \in {TV, TPV}
         \/ Top(t) = "probe" /\ task[t].stack \in {TP, TVP}
  BY Nesting DEF TransportInv, CallInv, CallTypes, StackFollowsPc, TaskType, Stacks, Top

LEMMA InvAnswered ==
  ASSUME TransportInv, NEW t \in Tasks, Answered(t)
  PROVE  TransportInv'
  <1>1. CASE Top(t) = "tool"
    BY <1>1, FinishKeeps, CallStep DEF Answered, TransportInv
  <1>2. CASE Top(t) = "version"
    <2>1. task[t].stack \in {TV, TPV} /\ Reconnected(t)
      BY <1>2, TopOfWaiting DEF Answered
    <2> QED
      BY <2>1, ReconnectedKeeps, CallStep DEF Answered, TransportInv, LinkInv, LinkTypes
  <1>3. CASE Top(t) = "probe"
    <2>1. task[t].stack \in {TP, TVP} /\ ProbeEnds(t)
      BY <1>3, TopOfWaiting DEF Answered
    <2> QED
      BY <2>1, ProbeEndsKeeps, CallStep DEF Answered, TransportInv
  <1> QED
    BY <1>1, <1>2, <1>3, TopOfWaiting DEF Answered

\* An answer that is an error, or none at all: the handshake falls back, the
\* probe is over, the tool call ends.
LEMMA UnansweredKeeps ==
  ASSUME TransportInv, NEW t \in Tasks, task[t].pc = "waiting",
         CASE Top(t) = "tool" -> Finish(t)
           [] Top(t) = "version" -> Fallback(t, task[t].stack) /\ UNCHANGED probing
           [] Top(t) = "probe" -> ProbeEnds(t)
  PROVE  CallInv' /\ NoneLinks
  <1>1. CASE Top(t) = "tool"
    BY <1>1, FinishKeeps DEF TransportInv
  <1>2. CASE Top(t) = "version"
    <2>1. task[t].stack \in {TV, TPV} /\ Fallback(t, task[t].stack) /\ UNCHANGED probing
      BY <1>2, TopOfWaiting
    <2>2. LatchHeld'
      BY <2>1 DEF TransportInv, CallInv, CallTypes, LatchHeld, Fallback, Idle
    <2> QED
      BY <2>1, <2>2, FallbackKeeps DEF TransportInv, CallInv, CallTypes, Handshakes
  <1>3. CASE Top(t) = "probe"
    <2>1. task[t].stack \in {TP, TVP} /\ ProbeEnds(t)
      BY <1>3, TopOfWaiting
    <2> QED
      BY <2>1, ProbeEndsKeeps DEF TransportInv
  <1> QED
    BY <1>1, <1>2, <1>3, TopOfWaiting

LEMMA InvFailed ==
  ASSUME TransportInv, NEW t \in Tasks, Failed(t)
  PROVE  TransportInv'
  BY UnansweredKeeps, CallStep DEF Failed

\* A timeout probes only when nobody does, so no probe is below the new one.
LEMMA InvTimeout ==
  ASSUME TransportInv, NEW t \in Tasks, Timeout(t)
  PROVE  TransportInv'
  <1>1. CASE probing
    BY <1>1, UnansweredKeeps, CallStep DEF Timeout
  <1>2. CASE ~probing
    <2> USE DEF TransportInv, CallInv, CallTypes
    <2> DEFINE s == Append(task[t].stack, "probe")
    <2>1. \A u \in Tasks : task[u].stack \notin Probes
      BY <1>2 DEF LatchHeld
    <2>2. task[t].stack \in {T, TV}
      BY <2>1, TopOfWaiting DEF Timeout, Probes
    <2>3. s \in {TP, TVP} /\ (s \in Handshakes => task[t].stack \in Handshakes)
      BY <2>2, Nesting, StacksDiffer DEF Handshakes
    <2>4. Begin(t, s) /\ probing' = TRUE /\ lock' = lock
      BY <1>2 DEF Timeout
    <2> HIDE DEF s
    <2>5. /\ \A u \in Tasks : u # t => task'[u] = task[u]
          /\ task'[t].stack = s /\ task'[t].pc \notin Linking
      BY <2>4 DEF Begin, Register, Idle, Linking
    <2>6. LockHeld' /\ LatchHeld'
      BY <2>1, <2>3, <2>4, <2>5 DEF LockHeld, LatchHeld
    <2>7. CallInv' /\ NoneLinks
      BY <2>3, <2>4, <2>6, BeginKeeps DEF LinkInv, LinkTypes
    <2> QED
      BY <2>7, CallStep DEF Timeout
  <1> QED
    BY <1>1, <1>2

LEMMA InvVersionReply ==
  ASSUME TransportInv, NEW t \in Tasks, VersionReply(t)
  PROVE  TransportInv'
  <1>1. task[t].stack \in {TV, TPV} /\ ws \in Sockets \cup {0}
    BY DEF VersionReply, TransportInv, CallInv, StackFollowsPc, LinkInv, LinkTypes
  <1>2. CallInv' /\ NoneLinks
    BY <1>1, ReconnectedKeeps, FinishKeeps DEF VersionReply, TransportInv
  <1> QED
    BY <1>2, CallStep DEF VersionReply

\* The opening of a socket fails.
LEMMA InvOpenRefused ==
  ASSUME TransportInv, NEW t \in Tasks, OpenRefused(t)
  PROVE  TransportInv'
  BY FinishKeeps, CallStep DEF OpenRefused, TransportInv

LEMMA InvCancel ==
  ASSUME TransportInv, NEW t \in Tasks, Cancel(t)
  PROVE  TransportInv'
  <1>1. CallInv' /\ NoneLinks
    BY FinishKeeps, CallFrame DEF Cancel, TransportInv
  <1> QED
    BY <1>1, CallStep DEF Cancel

-----------------------------------------------------------------------------
(* Steps of a reconnect *)

\* Where a call that reconnects goes next.
LEMMA GotoKeeps ==
  ASSUME CallInv, NEW t \in Tasks, NEW pc \in Linking, Goto(t, pc),
         task[t].pc \in Linking \cup {"locking"}, task[t].stack \in {T, TP},
         UNCHANGED <<pending, probing>>, lock' = t,
         \A u \in Tasks : u # t =>
             task[u].pc \notin Linking /\ task[u].stack \notin Handshakes
  PROVE  /\ CallInv'
         /\ task'[t].pc = pc
         /\ \A u \in Tasks : u # t => task'[u].pc \notin Linking
  <1> USE DEF CallInv, CallTypes
  <1>1. /\ \A u \in Tasks : u # t => task'[u] = task[u]
        /\ task'[t].stack = task[t].stack /\ task'[t].fut = task[t].fut
        /\ task'[t].pc = pc
    BY DEF Goto, TaskType
  <1>2. CallTypes'
    BY DEF Goto, TaskType, Pcs, Linking
  <1>3. StackFollowsPc'
    BY <1>1 DEF StackFollowsPc, Linking
  <1>4. LockHeld'
    BY <1>1 DEF LockHeld
  <1>5. LatchHeld' /\ NoStrandedTicket'
    BY <1>1 DEF LatchHeld, NoStrandedTicket, Linking
  <1> QED
    BY <1>1, <1>2, <1>3, <1>4, <1>5

\* Nobody but the holder of the lock reconnects or shakes hands.
LEMMA LockExcludes ==
  ASSUME TransportInv, NEW t \in Tasks, task[t].pc \in Linking \/ lock = None
  PROVE  \A u \in Tasks : u # t =>
             task[u].pc \notin Linking /\ task[u].stack \notin Handshakes
  BY WsAssumption DEF TransportInv, CallInv, CallTypes, LockHeld

\* A lost connection's socket is not touched again before its close.
LEMMA ReplaceKeeps ==
  ASSUME LinkInv, NEW t \in Tasks, Replace(t), ~Connected,
         UNCHANGED <<ws, loop, closer>>, reader' \in {0, reader}
  PROVE  LinkInv' /\ socket' = socket
  <1> USE DEF LinkInv, LinkTypes
  <1>1. socket' = socket
    BY DEF Replace, Connected
  <1> QED
    BY <1>1 DEF OneSocket, ReaderStarted, OneReader, OpenIsRead, Connected

\* A loop is cancelled by a reconnect, which has no usable socket, or by
\* close().
LEMMA CancelKeeps ==
  ASSUME LinkInv, reader # 0,
         loop' = [loop EXCEPT ![reader] = "cancelled"],
         UNCHANGED <<ws, socket, reader>>,
         \/ ~Connected /\ closer' = closer
         \/ closer' = [pc |-> "reader", loop |-> reader]
  PROVE  LinkInv'
  <1> USE DEF LinkInv, LinkTypes
  <1>1. reader \in Sockets /\ loop[reader] # "none"
    BY DEF ReaderStarted
  <1>2. LinkTypes'
    BY <1>1
  <1>3. OneSocket' /\ ReaderStarted' /\ OneReader'
    BY <1>1 DEF OneSocket, ReaderStarted, OneReader
  <1>4. OpenIsRead'
    BY DEF OpenIsRead, Connected
  <1> QED
    BY <1>2, <1>3, <1>4

LEMMA InvEnter ==
  ASSUME TransportInv, NEW t \in Tasks, Enter(t)
  PROVE  TransportInv'
  <1>1. CASE Connected
    <2> USE DEF TransportInv, CallInv, CallTypes
    <2>1. Register(t, task[t].stack) /\ UNCHANGED <<link, lock, probing, closer>>
      BY <1>1 DEF Enter
    <2>2. task[t].stack \in Stacks \ {<<>>}
      BY StacksDiffer DEF Enter, StackFollowsPc, Stacks
    <2>3. /\ \A u \in Tasks : u # t => task'[u] = task[u]
          /\ task'[t].stack = task[t].stack /\ task'[t].pc = "sending"
      BY <2>1 DEF Register
    <2>4. LockHeld' /\ LatchHeld'
      BY <2>1, <2>3 DEF LockHeld, LatchHeld, Linking
    <2>5. CallInv' /\ NoneLinks
      BY <2>1, <2>2, <2>4, RegisterKeeps DEF LinkInv, LinkTypes
    <2> QED
      BY <2>1, <2>5, CallStep
  <1>2. CASE ~Connected
    <2>1. \A u \in Tasks : u # t =>
             task[u].pc \notin Linking /\ task[u].stack \notin Handshakes
      BY LockExcludes DEF Enter
    <2>2. task[t].stack \in {T, TP}
      BY WsAssumption DEF Enter, TransportInv, CallInv, StackFollowsPc, LockHeld, Handshakes
    <2>3. CASE reader # 0 /\ loop[reader] # "done"
      <3>1. /\ Goto(t, "oldreader") /\ lock' = t
            /\ loop' = [loop EXCEPT ![reader] = "cancelled"]
            /\ UNCHANGED <<ws, socket, reader, pending, probing, closer>>
        BY <1>2, <2>3 DEF Enter
      <3>2. /\ CallInv' /\ task'[t].pc = "oldreader"
            /\ \A u \in Tasks : u # t => task'[u].pc \notin Linking
        BY <2>1, <2>2, <3>1, GotoKeeps DEF Enter, TransportInv, Linking
      <3>3. LinkInv'
        BY <1>2, <2>3, <3>1, CancelKeeps DEF TransportInv
      <3>4. Reconnecting'
        BY <1>2, <3>1, <3>2 DEF Reconnecting, Connected, Linking
      <3> QED
        BY <3>2, <3>3, <3>4 DEF TransportInv
    <2>4. CASE ~(reader # 0 /\ loop[reader] # "done")
      <3>1. /\ Replace(t) /\ lock' = t
            /\ UNCHANGED <<ws, loop, reader, pending, probing, closer>>
        BY <1>2, <2>4 DEF Enter
      <3>2. PICK pc \in {"opening", "oldsocket"} :
               Goto(t, pc) /\ (pc = "opening" <=> ws = 0)
        BY <3>1 DEF Replace
      <3>3. /\ CallInv' /\ task'[t].pc = pc
            /\ \A u \in Tasks : u # t => task'[u].pc \notin Linking
        BY <2>1, <2>2, <3>1, <3>2, GotoKeeps DEF Enter, TransportInv, Linking
      <3>4. LinkInv' /\ socket' = socket
        BY <1>2, <3>1, ReplaceKeeps DEF TransportInv
      <3>5. Reconnecting'
        BY <1>2, <3>1, <3>2, <3>3, <3>4 DEF Reconnecting, Connected, Linking
      <3> QED
        BY <3>3, <3>4, <3>5 DEF TransportInv
    <2> QED
      BY <2>3, <2>4
  <1> QED
    BY <1>1, <1>2

\* What a call that reconnects knows: the lock is its own, and what is below
\* it is the tool call or its probe.
LEMMA LinkingKnows ==
  ASSUME TransportInv, NEW t \in Tasks, task[t].pc \in Linking
  PROVE  /\ lock = t /\ task[t].stack \in {T, TP} /\ ~Connected
         /\ task[t].pc = "opening" => ws = 0
         /\ task[t].pc \in {"oldsocket", "rejecting"} => ws \in Sockets
         /\ \A u \in Tasks : u # t =>
              task[u].pc \notin Linking /\ task[u].stack \notin Handshakes
  <1>1. \A u \in Tasks : u # t =>
              task[u].pc \notin Linking /\ task[u].stack \notin Handshakes
    BY LockExcludes
  <1> QED
    BY <1>1 DEF TransportInv, CallInv, LockHeld, StackFollowsPc, Reconnecting,
                LinkInv, LinkTypes

LEMMA InvOldReaderEnds ==
  ASSUME TransportInv, NEW t \in Tasks, OldReaderEnds(t)
  PROVE  TransportInv'
  <1> task[t].pc \in Linking
    BY DEF OldReaderEnds, Linking
  <1>1. PICK pc \in {"opening", "oldsocket"} :
           Goto(t, pc) /\ (pc = "opening" <=> ws = 0)
    BY DEF OldReaderEnds, Replace
  <1>2. /\ CallInv' /\ task'[t].pc = pc
        /\ \A u \in Tasks : u # t => task'[u].pc \notin Linking
    BY <1>1, LinkingKnows, GotoKeeps DEF OldReaderEnds, TransportInv, Linking
  <1>3. LinkInv' /\ socket' = socket
    BY LinkingKnows, ReplaceKeeps DEF OldReaderEnds, TransportInv
  <1>4. ~Connected' /\ ws' = ws
    BY <1>3, LinkingKnows DEF OldReaderEnds, Connected
  <1>5. Reconnecting'
    BY <1>1, <1>2, <1>4 DEF Reconnecting, Linking
  <1> QED
    BY <1>2, <1>3, <1>5 DEF TransportInv

\* The assigned socket is closed and given up.
LEMMA GiveUpKeeps ==
  ASSUME LinkInv, ws \in Sockets, ~Connected,
         socket' = [socket EXCEPT ![ws] = "closed"], ws' = 0,
         UNCHANGED <<loop, reader, closer>>
  PROVE  LinkInv' /\ ~Connected'
  <1> USE DEF LinkInv, LinkTypes
  <1>1. LinkTypes' /\ ReaderStarted' /\ OneReader'
    BY DEF ReaderStarted, OneReader
  <1>2. OneSocket'
    BY DEF OneSocket
  <1>3. ~Connected'
    BY DEF Connected
  <1> QED
    BY <1>1, <1>2, <1>3 DEF OpenIsRead

LEMMA InvOldSocketCloses ==
  ASSUME TransportInv, NEW t \in Tasks, OldSocketCloses(t)
  PROVE  TransportInv'
  <1> task[t].pc \in Linking /\ "opening" \in Linking
    BY DEF OldSocketCloses, Linking
  <1>1. /\ CallInv' /\ task'[t].pc = "opening"
        /\ \A u \in Tasks : u # t => task'[u].pc \notin Linking
    BY LinkingKnows, GotoKeeps DEF OldSocketCloses, TransportInv
  <1>2. LinkInv' /\ ~Connected'
    BY LinkingKnows, GiveUpKeeps DEF OldSocketCloses, TransportInv
  <1>3. Reconnecting'
    BY <1>1, <1>2 DEF OldSocketCloses, Reconnecting, Linking
  <1> QED
    BY <1>1, <1>2, <1>3 DEF TransportInv

\* A new socket opens only when every old loop has ended: they were woken.
LEMMA InvOpen ==
  ASSUME TransportInv, NEW t \in Tasks, Open(t)
  PROVE  TransportInv'
  <1> task[t].pc \in Linking
    BY DEF Open, Linking
  <1>1. PICK i \in Sockets :
          /\ socket[i] = "none"
          /\ ws' = i
          /\ socket' = [socket EXCEPT ![i] = "open"]
          /\ loop' = [loop EXCEPT ![i] = "run"]
          /\ reader' = i
          /\ task' = [task EXCEPT ![t] = [pc |-> "sending", fut |-> "wait", sock |-> i,
                                          stack |-> Append(@.stack, "version")]]
          /\ pending' = pending \cup {t}
    BY DEF Open
  <1> DEFINE s == Append(task[t].stack, "version")
             new == [pc |-> "sending", fut |-> "wait", sock |-> i, stack |-> s]
  <1>2. /\ s \in {TV, TPV} /\ s # <<>>
        /\ s \in Probes => task[t].stack \in Probes
    BY LinkingKnows, Nesting, StacksDiffer DEF Probes
  <1> HIDE DEF s
  <1>3. new \in TaskType
    BY <1>2 DEF TaskType, Pcs, Stacks
  <1>4. /\ task' = [task EXCEPT ![t] = new]
        /\ new.pc = "sending" /\ new.stack = s /\ new.fut = "wait"
    BY <1>1 DEF s
  <1> HIDE DEF new
  <1>5. CallInv' /\ \A u \in Tasks : task'[u].pc \notin Linking
    <2> USE DEF TransportInv, CallInv, CallTypes
    <2>1. /\ task' \in [Tasks -> TaskType]
          /\ task'[t] = new
          /\ \A u \in Tasks : u # t => task'[u] = task[u]
      BY <1>3, <1>4
    <2>2. CallTypes'
      BY <1>1, <2>1 DEF Open
    <2>3. StackFollowsPc' /\ NoStrandedTicket'
      BY <1>1, <1>2, <1>4, <2>1 DEF StackFollowsPc, NoStrandedTicket, Linking
    <2>4. LockHeld' /\ \A u \in Tasks : task'[u].pc \notin Linking
      BY <1>4, <2>1, LinkingKnows DEF LockHeld, Open, Linking
    <2>5. LatchHeld'
      <3>1. LatchHeld /\ probing' = probing
        BY DEF Open
      <3>2. \A u \in Tasks : task'[u].stack \in Probes => task[u].stack \in Probes
        BY <1>2, <1>4, <2>1
      <3> HIDE DEF TransportInv, CallInv
      <3> QED
        BY <3>1, <3>2 DEF LatchHeld
    <2> QED
      BY <2>2, <2>3, <2>4, <2>5
  <1>6. LinkInv'
    <2> USE DEF LinkInv, LinkTypes
    <2>1. ws = 0
      BY LinkingKnows DEF Open
    <2>2. \A j \in Sockets : socket[j] \in {"none", "closed"}
      BY <2>1 DEF TransportInv, OneSocket, Sockets
    <2>3. \A j \in Sockets : loop[j] \notin {"run", "cancelled"}
      BY <2>2 DEF TransportInv, OneSocket, Open, Woken
    <2>4. LinkTypes'
      BY <1>1 DEF TransportInv, Open
    <2>5. OneSocket' /\ ReaderStarted'
      BY <1>1, <2>2 DEF TransportInv, OneSocket, ReaderStarted
    <2>6. OneReader' /\ OpenIsRead'
      BY <1>1, <2>3 DEF TransportInv, OneReader, OpenIsRead
    <2> QED
      BY <2>4, <2>5, <2>6
  <1>7. Reconnecting'
    BY <1>5 DEF Reconnecting, Linking
  <1> QED
    BY <1>5, <1>6, <1>7 DEF TransportInv

\* A socket without the subprotocol is assigned, and closes at once.
LEMMA InvOpenRejected ==
  ASSUME TransportInv, NEW t \in Tasks, OpenRejected(t)
  PROVE  TransportInv'
  <1> task[t].pc \in Linking /\ "rejecting" \in Linking
    BY DEF OpenRejected, Linking
  <1>1. PICK i \in Sockets :
          ws' = i /\ socket' = [socket EXCEPT ![i] = "closing"]
    BY DEF OpenRejected
  <1>2. /\ CallInv' /\ task'[t].pc = "rejecting"
        /\ \A u \in Tasks : u # t => task'[u].pc \notin Linking
    BY LinkingKnows, GotoKeeps DEF OpenRejected, TransportInv
  <1>3. ~Connected' /\ ws' # 0
    BY <1>1 DEF Connected, TransportInv, LinkInv, LinkTypes, Sockets
  <1>4. LinkInv'
    <2> USE DEF LinkInv, LinkTypes
    <2>1. ws = 0
      BY LinkingKnows DEF OpenRejected
    <2>2. LinkTypes' /\ ReaderStarted' /\ OneReader'
      BY <1>1 DEF TransportInv, OpenRejected, ReaderStarted, OneReader
    <2>3. OneSocket'
      BY <1>1, <2>1 DEF TransportInv, OpenRejected, OneSocket, Sockets
    <2> QED
      BY <1>3, <2>2, <2>3 DEF OpenIsRead
  <1>5. Reconnecting'
    BY <1>2, <1>3 DEF Reconnecting, Linking
  <1> QED
    BY <1>2, <1>4, <1>5 DEF TransportInv

LEMMA InvRejectedCloses ==
  ASSUME TransportInv, NEW t \in Tasks, RejectedCloses(t)
  PROVE  TransportInv'
  <1> task[t].pc \in Linking
    BY DEF RejectedCloses, Linking
  <1>1. CallInv' /\ NoneLinks
    BY FinishKeeps DEF RejectedCloses, TransportInv
  <1>2. LinkInv' /\ ~Connected'
    BY LinkingKnows, GiveUpKeeps DEF RejectedCloses, TransportInv
  <1>3. \A u \in Tasks : task'[u].pc \notin Linking
    <2>1. task'[t].pc = "done"
      BY DEF RejectedCloses, Finish, Idle, TransportInv, CallInv, CallTypes
    <2> QED
      BY <1>1, <2>1, LinkingKnows DEF NoneLinks, Linking
  <1> QED
    BY <1>1, <1>2, <1>3 DEF TransportInv, Reconnecting, Linking

-----------------------------------------------------------------------------
(* Steps of the receive loops, of the peer and of close() *)

\* Futures are resolved for calls whose ticket is taken out of _pending.
LEMMA ResolvedKeeps ==
  ASSUME CallInv, NEW ts \in SUBSET pending, NEW fut \in {"ok", "err"},
         task' = Resolved(ts, fut), pending' = pending \ ts,
         UNCHANGED <<lock, probing>>
  PROVE  CallInv' /\ NoneLinks
  <1> USE DEF CallInv, CallTypes
  <1>1. \A u \in Tasks :
          /\ task'[u].pc = task[u].pc /\ task'[u].stack = task[u].stack
          /\ u \in ts => task'[u].fut = fut
          /\ u \notin ts => task'[u].fut = task[u].fut
    BY DEF Resolved, TaskType
  <1>2. CallTypes'
    BY DEF Resolved, TaskType
  <1>3. StackFollowsPc' /\ LockHeld' /\ LatchHeld' /\ NoneLinks
    BY <1>1 DEF StackFollowsPc, LockHeld, LatchHeld, NoneLinks
  <1>4. NoStrandedTicket'
    BY <1>1 DEF NoStrandedTicket
  <1> QED
    BY <1>2, <1>3, <1>4

LEMMA InvDispatch ==
  ASSUME TransportInv, NEW i \in Sockets, Dispatch(i)
  PROVE  TransportInv'
  <1>1. PICK t \in pending, fut \in {"ok", "err"} :
          pending' = pending \ {t} /\ task' = Resolved({t}, fut)
    BY DEF Dispatch
  <1>2. CallInv' /\ NoneLinks
    BY <1>1, ResolvedKeeps DEF Dispatch, TransportInv
  <1> QED
    BY <1>2, CallStep DEF Dispatch

\* A loop ends because its socket is not the usable one any more, or because
\* it was cancelled.
LEMMA LoopEndKeeps ==
  ASSUME LinkInv, NEW i \in Sockets, loop[i] # "none",
         loop[i] = "cancelled" \/ ~Connected \/ i # ws,
         loop' = [loop EXCEPT ![i] = "done"],
         UNCHANGED <<ws, socket, reader, closer>>
  PROVE  LinkInv'
  <1> USE DEF LinkInv, LinkTypes
  <1>1. LinkTypes' /\ OneReader'
    BY DEF OneReader
  <1>2. OneSocket' /\ ReaderStarted'
    BY DEF OneSocket, ReaderStarted
  <1>3. OpenIsRead'
    BY DEF OpenIsRead, Connected
  <1> QED
    BY <1>1, <1>2, <1>3

LEMMA InvLoopLeaves ==
  ASSUME TransportInv, NEW i \in Sockets, LoopLeaves(i)
  PROVE  TransportInv'
  <1>1. LinkInv'
    BY LoopEndKeeps DEF LoopLeaves, TransportInv
  <1>2. CallInv' /\ NoneLinks
    BY CallFrame DEF LoopLeaves, TransportInv
  <1> QED
    BY <1>1, <1>2, ReconnectingFrame DEF LoopLeaves, TransportInv, Connected

LEMMA InvLoopClosed ==
  ASSUME TransportInv, NEW i \in Sockets, LoopClosed(i)
  PROVE  TransportInv'
  <1>1. ~Connected \/ i # ws
    BY DEF LoopClosed, Connected
  <1>2. LinkInv'
    BY <1>1, LoopEndKeeps DEF LoopClosed, TransportInv
  <1>3. CallInv' /\ NoneLinks
    <2>1. pending \ pending = {}
      OBVIOUS
    <2> QED
      BY <2>1, ResolvedKeeps DEF LoopClosed, TransportInv
  <1> QED
    BY <1>2, <1>3, ReconnectingFrame DEF LoopClosed, TransportInv, Connected

LEMMA InvLoopCancelled ==
  ASSUME TransportInv, NEW i \in Sockets, LoopCancelled(i)
  PROVE  TransportInv'
  <1>1. LinkInv'
    BY LoopEndKeeps DEF LoopCancelled, TransportInv
  <1>2. CallInv' /\ NoneLinks
    BY CallFrame DEF LoopCancelled, TransportInv
  <1> QED
    BY <1>1, <1>2, ReconnectingFrame DEF LoopCancelled, TransportInv, Connected

\* A socket that is not closed yet is only ever closed further.
LEMMA ClosingKeeps ==
  ASSUME LinkInv, NEW i \in Sockets, NEW to \in {"closing", "closed"},
         to = "closing" => socket[i] = "open",
         socket' = [socket EXCEPT ![i] = to],
         UNCHANGED <<ws, loop, reader>>,
         LinkTypes',
         closer' = closer \/ ~Connected'
  PROVE  LinkInv' /\ (Connected' => Connected)
  <1> USE DEF LinkInv, LinkTypes
  <1>1. Connected' => Connected
    BY DEF Connected
  <1>2. OneSocket' /\ ReaderStarted' /\ OneReader'
    BY DEF OneSocket, ReaderStarted, OneReader
  <1>3. OpenIsRead'
    BY <1>1 DEF OpenIsRead
  <1> QED
    BY <1>1, <1>2, <1>3

LEMMA InvDrop ==
  ASSUME TransportInv, NEW i \in Sockets, Drop(i)
  PROVE  TransportInv'
  <1>1. PICK to \in {"closing", "closed"} : socket' = [socket EXCEPT ![i] = to]
    BY DEF Drop
  <1>2. LinkTypes'
    BY <1>1 DEF Drop, TransportInv, LinkInv, LinkTypes
  <1>3. LinkInv' /\ (Connected' => Connected)
    BY <1>1, <1>2, ClosingKeeps DEF Drop, TransportInv
  <1>4. CallInv' /\ NoneLinks
    BY CallFrame DEF Drop, TransportInv
  <1> QED
    BY <1>3, <1>4, ReconnectingFrame DEF Drop, TransportInv

LEMMA InvLost ==
  ASSUME TransportInv, NEW i \in Sockets, Lost(i)
  PROVE  TransportInv'
  <1>1. LinkTypes'
    BY DEF Lost, TransportInv, LinkInv, LinkTypes
  <1>2. LinkInv' /\ (Connected' => Connected)
    BY <1>1, ClosingKeeps DEF Lost, TransportInv
  <1>3. CallInv' /\ NoneLinks
    BY CallFrame DEF Lost, TransportInv
  <1> QED
    BY <1>2, <1>3, ReconnectingFrame DEF Lost, TransportInv

\* The part of close() after the loop: nothing is left open or pending.
LEMMA InvCloseRest ==
  ASSUME TransportInv, CloseRest, UNCHANGED <<ws, loop, lock, probing>>, reader' = 0
  PROVE  TransportInv'
  <1>1. CallInv' /\ NoneLinks
    <2>1. pending \ pending = {}
      OBVIOUS
    <2> QED
      BY <2>1, ResolvedKeeps DEF CloseRest, TransportInv
  <1>2. ~Connected'
    BY DEF CloseRest, Connected, TransportInv, LinkInv, LinkTypes
  <1>3. LinkInv'
    <2> USE DEF TransportInv, LinkInv, LinkTypes
    <2>1. LinkTypes'
      BY DEF CloseRest, Connected
    <2>2. OneSocket' /\ ReaderStarted' /\ OneReader'
      BY DEF CloseRest, Connected, OneSocket, ReaderStarted, OneReader
    <2> QED
      BY <1>2, <2>1, <2>2 DEF OpenIsRead
  <1> QED
    BY <1>1, <1>2, <1>3, ReconnectingFrame DEF TransportInv

LEMMA InvClose ==
  ASSUME TransportInv, Close
  PROVE  TransportInv'
  <1>1. CASE reader # 0 /\ loop[reader] # "done"
    <2>1. /\ loop' = [loop EXCEPT ![reader] = "cancelled"]
          /\ closer' = [pc |-> "reader", loop |-> reader]
          /\ UNCHANGED <<ws, socket, reader, pending, lock, probing, task>>
      BY <1>1 DEF Close
    <2>2. LinkInv'
      BY <1>1, <2>1, CancelKeeps DEF TransportInv
    <2>3. CallInv' /\ NoneLinks
      BY <2>1, CallFrame DEF TransportInv
    <2> QED
      BY <2>1, <2>2, <2>3, ReconnectingFrame DEF TransportInv, Connected
  <1>2. CASE ~(reader # 0 /\ loop[reader] # "done")
    BY <1>2, InvCloseRest DEF Close
  <1> QED
    BY <1>1, <1>2

LEMMA InvCloseReaderEnds ==
  ASSUME TransportInv, CloseReaderEnds
  PROVE  TransportInv'
  BY InvCloseRest DEF CloseReaderEnds

LEMMA InvCloseSocket ==
  ASSUME TransportInv, CloseSocket
  PROVE  TransportInv'
  <1>1. closer.loop \in Sockets /\ LinkTypes'
    BY DEF CloseSocket, TransportInv, LinkInv, LinkTypes
  <1>2. OneSocket' /\ ReaderStarted' /\ OneReader' /\ (Connected' => Connected)
    BY <1>1 DEF CloseSocket, TransportInv, LinkInv, LinkTypes, OneSocket,
                ReaderStarted, OneReader, Connected
  <1>3. OpenIsRead'
    BY <1>2 DEF CloseSocket, TransportInv, LinkInv, OpenIsRead
  <1>4. CallInv' /\ NoneLinks
    BY CallFrame DEF CloseSocket, TransportInv
  <1> QED
    BY <1>1, <1>2, <1>3, <1>4, ReconnectingFrame DEF CloseSocket, TransportInv, LinkInv

-----------------------------------------------------------------------------
(* The theorems *)

LEMMA TransportInit == Init => TransportInv
  <1> SUFFICES ASSUME Init PROVE TransportInv
    OBVIOUS
  <1>1. Idle("ready", <<>>) \in TaskType
    BY DEF Idle, TaskType, Pcs, Stacks
  <1>2. CallTypes
    BY <1>1 DEF Init, CallTypes
  <1>3. StackFollowsPc /\ LockHeld /\ LatchHeld /\ NoStrandedTicket
    BY StacksDiffer DEF Init, Idle, StackFollowsPc, LockHeld, LatchHeld,
                        NoStrandedTicket, Linking, Handshakes, Probes
  <1>4. LinkInv
    BY WsAssumption DEF Init, LinkInv, LinkTypes, OneSocket, ReaderStarted, OneReader,
                        OpenIsRead, Connected, Sockets
  <1>5. Reconnecting
    BY DEF Init, Reconnecting, Idle, Linking
  <1> QED
    BY <1>2, <1>3, <1>4, <1>5 DEF TransportInv, CallInv

LEMMA TransportNext == TransportInv /\ [Next]_vars => TransportInv'
  <1> SUFFICES ASSUME TransportInv, [Next]_vars PROVE TransportInv'
    OBVIOUS
  <1>1. ASSUME NEW t \in Tasks, Call(t) \/ TaskStep(t) \/ Cancel(t)
        PROVE  TransportInv'
    BY <1>1, InvCall, InvSent, InvSendFails, InvAnswered, InvFailed, InvTimeout,
       InvVersionReply, InvEnter, InvOldReaderEnds, InvOldSocketCloses, InvOpen,
       InvOpenRefused, InvOpenRejected, InvRejectedCloses, InvCancel DEF TaskStep
  <1>2. ASSUME NEW i \in Sockets, LoopStep(i) \/ Drop(i) \/ Lost(i)
        PROVE  TransportInv'
    BY <1>2, InvDispatch, InvLoopLeaves, InvLoopClosed, InvLoopCancelled, InvDrop,
       InvLost DEF LoopStep
  <1>3. CASE UNCHANGED vars
    BY <1>3, CallFrame, CallStep DEF vars, TransportInv
  <1> QED
    BY <1>1, <1>2, <1>3, InvClose, InvCloseReaderEnds, InvCloseSocket DEF Next

\* Everything the proofs below use holds in every reachable state.
THEOREM TransportCorrect == Spec => []TransportInv
  BY TransportInit, TransportNext, PTL DEF Spec

\* Every variable of the transport keeps its type; the calls of one tool call
\* nest three deep at most, so neither the probe nor the handshake contains
\* itself.
THEOREM TypeCorrect == Spec => []TypeOK
  <1>1. TransportInv => TypeOK
    <2> SUFFICES ASSUME TransportInv PROVE TypeOK
      OBVIOUS
    <2> USE DEF TransportInv, CallInv, CallTypes, LinkInv, LinkTypes
    <2>1. \A t \in Tasks : task[t] \in TaskType
      OBVIOUS
    <2> QED
      BY <2>1, StackDepth DEF TypeOK, TaskType
  <1> QED
    BY <1>1, TransportCorrect, PTL

\* One loop reads at a time, an open assigned socket has its loop, and a ticket
\* is in _pending just while somebody waits for it.
THEOREM ServedCorrect == Spec => []SocketsAreServed
  <1>1. TransportInv => SocketsAreServed
    BY DEF TransportInv, CallInv, LinkInv, SocketsAreServed
  <1> QED
    BY <1>1, TransportCorrect, PTL

\* Two tool calls never reconnect at the same time, and while one does no call
\* can take a ticket on the socket it replaces (_reconnect_lock).
OneReconnect ==
    \A t \in Tasks : task[t].pc \in Linking =>
        ~Connected /\ \A u \in Tasks : task[u].pc \in Linking => u = t

THEOREM ReconnectsExclude == Spec => []OneReconnect
  <1>1. TransportInv => OneReconnect
    BY LinkingKnows DEF OneReconnect
  <1> QED
    BY <1>1, TransportCorrect, PTL
=============================================================================
