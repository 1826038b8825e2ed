--------------------------- MODULE CpuTools_proofs ---------------------------
(***************************************************************************)
(* The tools leave the CPU as they found it, a trace leaves no breakpoint,  *)
(* a wait misses no stop and a resume is confirmed by its own broadcast:   *)
(* for every number of calls, breakpoints, stops, faults and cancellations, *)
(* and every bound of the observer's queues.                               *)
(***************************************************************************)
EXTENDS BreakpointWait, SequenceTheorems, TLAPS

Bys == Tasks \cup Bps \cup {Until, None}
CmdType == [event : Events, by : Tasks]
CpuType == [stepping : BOOLEAN, cause : Bys, ticks : 0 .. MaxTicks]
Outs == {"return", "verdict", "again", "unfilter", "disarm", "traced", "release"}
TaskType == [pc : Labels, op : OpNames \cup {None},
             ret : {"body", "probe", "prepare", None}, out : Outs \cup {None},
             hold : BOOLEAN, clean : BOOLEAN, since : Nat, at : Nat, rounds : Nat,
             bp : Bys, fault : BOOLEAN, late : BOOLEAN, res : OpNames \cup Outcomes \cup {None}]

-----------------------------------------------------------------------------
(* The types, and the places of each program *)

EmulatorTyped == /\ cpu \in CpuType /\ armed \subseteq Bps \cup {Until}
                 /\ cmds \in Seq(CmdType) /\ wire \in Seq(Broadcasts)
ObserverTyped == /\ resumeQ \in Seq(Broadcasts) /\ stepQ \in Seq(Broadcasts)
                 /\ subs \in [Tasks -> Seq(Broadcasts) \cup {None}]
                 /\ Len(resumeQ) <= EventQueueMax /\ Len(stepQ) <= EventQueueMax
                 /\ \A t \in Tasks : subs[t] # None => Len(subs[t]) <= SubQueueMax
CallsTyped == /\ task \in [Tasks -> TaskType] /\ lock \in Tasks \cup {None}
              /\ filters \subseteq Bps

\* What was broadcast or heard happened at a tick the CPU has reached.
TicksInOrder == /\ heard \in Nat /\ heard <= cpu.ticks
                /\ \A i \in 1 .. Len(wire) : wire[i].at <= cpu.ticks

WaitPcs == {"look", "waiting", "evaluate", "verdict", "falsy", "again",
            "surface", "storm", "unfilter"}
TracePcs == {"arm", "tracing", "capture", "disarm", "traced", "failed", "recover",
             "release", "cleanup"}
\* with_stepping, from its probe to the end of its resume
WithPcs == {"probe", "pausing", "body", "leave", "resuming"}

\* Each place in the program belongs to an operation, and each way out of
\* with_stepping leads back to the operation that entered it.
InProgram(c) ==
    /\ c.pc = "idle" => c.op = None /\ c.res = None
    /\ c.pc \in WaitPcs => c.op = "wait"
    /\ c.pc \in TracePcs => c.op = "trace"
    /\ c.pc = "sampling" => c.op = "stats"
    /\ c.pc = "locking" => c.op \in OpNames \ {"stats"}
    /\ c.pc = "stop" => c.op = "pause" /\ c.out = "return"
    /\ c.pc \in {"fire", "confirm"} => c.op \in {"step", "until"}
    /\ c.pc = "prepare" =>
         c.op \in {"snapshot", "step", "until"} /\ c.out = "return"
    /\ c.pc = "edit" => c.op \in {"set", "update", "remove"}
    /\ c.pc = "register" => c.op \in {"set", "update"} /\ c.bp \in Bps
    /\ c.pc = "return" => /\ c.op \notin {None, "wait", "stats"}
                          /\ c.op = "trace" => c.out = "return"
    /\ c.pc = "disarm" => c.out = "disarm"
    /\ c.pc = "release" => c.out = "release"
    /\ c.pc = "failed" => c.out \in {"disarm", "traced"}
    /\ c.pc = "recover" => c.out \in {"release", "return"}
    /\ c.pc = "pausing" =>
         \/ c.ret = "body" /\ c.hold
         \/ c.ret \in {"probe", "prepare"} /\ c.op \in {"pause", "step", "until"}
    /\ c.pc = "pausing" /\ c.ret = "probe" => c.op = "pause"
    /\ c.pc = "pausing" /\ c.ret = "prepare" => c.op \in {"step", "until"}
    /\ c.pc \in WithPcs =>
         \/ c.op = "wait" /\ c.out = "verdict"
         \/ c.op = "wait" /\ c.out \in {"again", "unfilter"} /\ c.pc \in {"leave", "resuming"}
         \/ c.op = "trace" /\ c.out = "disarm"
         \/ /\ c.op = "trace" /\ c.out \in {"traced", "release", "return"}
            /\ c.pc \in {"leave", "resuming"}
         \/ c.op \notin {None, "wait", "trace", "stats"} /\ c.out = "return"

\* The calls that may leave the CPU paused.
Excuses(c) == \/ c.op \in {"pause", "step", "until"} \/ c.late
              \/ c.res \in {"pause failed", "resume failed", "abandoned"}

\* A call between its pause and its resume.
Holds(c) == c.pc \in {"pausing", "body", "leave"} /\ c.hold

\* A trace between its arming and its disarming, and one past its disarming.
Traces(c) == c.op = "trace" /\ \/ c.pc \in {"tracing", "capture", "disarm", "release", "cleanup"}
                               \/ /\ c.pc \in WithPcs \cup {"failed", "recover"}
                                  /\ c.out \in {"disarm", "release"}
                               \/ c.pc = "done" /\ c.res = "left armed"
HasTraced(c) == c.op = "trace" /\ \/ c.pc \in {"leave", "resuming"} /\ c.out = "traced"
                                  \/ c.pc = "traced"
                                  \/ c.pc = "done" /\ c.res = "trace"

\* What its result and its breakpoint say of a call.
Told(c) ==
    /\ c.res \in {"pause failed", "abandoned"} => c.pc = "done"
    /\ c.res = "resume failed" => c.pc \in {"return", "done"}
    /\ c.pc = "cleanup" => c.res # "trace"
    /\ c.res = "left armed" => c.pc = "done"
    /\ c.op = "trace" /\ c.out \in {"return", "release"}
       /\ c.pc \in {"recover", "leave", "resuming", "return", "release"}
         => c.res \in {"trace failed", "left paused", "resume failed"}
    /\ Traces(c) \/ HasTraced(c) => c.bp \in Bps
    /\ c.op = "trace" /\ (c.pc = "failed" \/ c.res = "trace failed") => c.bp \in Bps
    /\ HasTraced(c) /\ c.pc = "leave" => c.hold

\* A wait, a trace and a sampling are subscribed until they end.
Subscribed(t) == task[t].op \in Subscribers /\ task[t].pc \notin {"idle", "done"} => subs[t] # None

TypeInv == /\ EmulatorTyped /\ ObserverTyped /\ CallsTyped /\ TicksInOrder
           /\ \A t \in Tasks : InProgram(task[t]) /\ Told(task[t]) /\ Subscribed(t)

-----------------------------------------------------------------------------
(* The invariants of the four properties *)

\* A resume that found nothing in flight hears only what comes after it.
HearsAfter(t) ==
    task[t].pc = "resuming" /\ task[t].clean =>
        /\ task[t].since <= cpu.ticks
        /\ \A i \in 1 .. Len(resumeQ) : resumeQ[i].at >= task[t].since
        /\ \A i \in 1 .. Len(wire) : wire[i].at >= task[t].since

\* A stop dispatched while a wait is subscribed is in its subscription until the
\* wait takes it.
Listens(t) ==
    task[t].op = "wait" /\ task[t].pc \notin {"idle", "done"} /\ task[t].rounds = 0
    /\ subs[t] = <<>> => heard <= task[t].since

ResumeAfter(i) == \E j \in 1 .. Len(cmds) : j > i /\ cmds[j].event = "cpu.resume"

\* Who pauses the CPU is going to resume it, or has sent the resume after it.
Releases(t) ==
    ~Excuses(task[t]) /\ ~Holds(task[t]) =>
        /\ \A i \in 1 .. Len(cmds) :
             cmds[i].by = t /\ cmds[i].event \in {"cpu.stepping", "cpu.stepInto"} => ResumeAfter(i)
        /\ cpu.stepping /\ cpu.cause = t => ResumeAfter(0)

\* What a lone trace arms is its own, and gone once it is past the disarm; a
\* CPU its breakpoint stopped is then about to be resumed.
Disarms(t) ==
    Alone(t) =>
        /\ task[t].op # "set" =>
             armed \subseteq {Until} \cup {b \in {task[t].bp} : Traces(task[t])}
        /\ HasTraced(task[t]) /\ cpu.stepping /\ cpu.cause = task[t].bp =>
             task[t].pc = "leave" \/ ResumeAfter(0)

-----------------------------------------------------------------------------
(* One step of one call *)

\* From record c to record r, sending request e: a call goes on with its
\* operation, pauses the CPU for its own sake only to hold it until it sends the
\* resume, and ends a trace by way of its disarming.
Lawful(c, r, e) ==
    /\ c.pc # "idle" => r.op = c.op
    /\ Excuses(c) => Excuses(r)
    /\ ~Excuses(r) /\ ~Holds(r) => e = "cpu.resume" \/ (e = None /\ ~Holds(c))
    /\ HasTraced(r) => /\ r.bp = c.bp
                       /\ \/ Traces(c) /\ r.pc = "leave"
                          \/ /\ HasTraced(c) /\ r.pc # "leave"
                             /\ c.pc = "leave" /\ c.hold => e = "cpu.resume"

Moves(t, r, e) ==
    /\ task' = [task EXCEPT ![t] = r]
    /\ InProgram(r) /\ Told(r) /\ Lawful(task[t], r, e)
    /\ cmds' = IF e = None THEN cmds ELSE Append(cmds, Request(e, t))
    /\ UNCHANGED <<cpu, wire>>

\* It drains the queues; a resume is sent after its queue has been emptied.
Drains(r) ==
    /\ resumeQ' = resumeQ \/ resumeQ' = <<>> \/ (resumeQ # <<>> /\ resumeQ' = Tail(resumeQ))
    /\ stepQ' = stepQ \/ (stepQ # <<>> /\ stepQ' = Tail(stepQ))
    /\ r.pc = "resuming" =>
         r.since = cpu.ticks /\ resumeQ' = <<>> /\ (r.clean => wire = <<>>)

\* It arms what a set or its own trace arms, and disarms what it traced.
Arms(t, r) ==
    /\ armed' \subseteq Bps \cup {Until} /\ filters' \subseteq Bps /\ lock' \in Tasks \cup {None}
    /\ \/ armed' \subseteq armed \/ r.op = "set"
       \/ Traces(r) /\ armed' = armed \cup {r.bp}
    /\ Traces(task[t]) => (Traces(r) /\ r.bp = task[t].bp) \/ task[t].bp \notin armed'

\* A wait takes a stop, looks anew, or leaves its subscription as it is, until
\* it ends; it gives up when nothing is in it.
Hears(t, r) ==
    /\ \E q \in Seq(Broadcasts) \cup {None} :
         subs' = [subs EXCEPT ![t] = q] /\ (q # None => Len(q) <= SubQueueMax)
    /\ r.op \in Subscribers /\ r.pc \notin {"idle", "done"} => subs'[t] # None
    /\ r.op = "wait" /\ r.pc \notin {"idle", "done"} =>
         \/ r.since = cpu.ticks \/ r.rounds # 0
         \/ /\ task[t].op = "wait" /\ task[t].pc \notin {"idle", "done"}
            /\ r.since = task[t].since /\ r.rounds = task[t].rounds /\ subs' = subs
    /\ task[t].op = "wait" /\ task[t].res = None /\ r.res = "no hit" /\ task[t].rounds = 0 =>
         task[t].pc = "waiting" /\ subs[t] = <<>>

Shape(t) == \E r \in TaskType, e \in Events \cup {None} :
                Moves(t, r, e) /\ Hears(t, r) /\ Drains(r) /\ Arms(t, r)

\* The record of a call and its fields.
LEMMA TaskTyped ==
    ASSUME TypeInv, NEW t \in Tasks
    PROVE  /\ task[t] \in TaskType /\ InProgram(task[t]) /\ Told(task[t])
           /\ task \in [Tasks -> TaskType]
           /\ armed \subseteq Bps \cup {Until} /\ filters \subseteq Bps
           /\ lock \in Tasks \cup {None}
           /\ cpu.ticks \in Nat /\ cpu.stepping \in BOOLEAN
  BY CpuAssumption DEF TypeInv, CallsTyped, EmulatorTyped, CpuType

\* What each kind of step does to the subscription of its call.
LEMMA Hearing ==
    ASSUME TypeInv, NEW t \in Tasks,
           \/ subs' = subs \/ subs' = Closed(t) \/ subs' = [subs EXCEPT ![t] = <<>>]
           \/ Take(t) /\ subs[t] # <<>> /\ subs[t] # None
    PROVE  \E q \in Seq(Broadcasts) \cup {None} :
             subs' = [subs EXCEPT ![t] = q] /\ (q # None => Len(q) <= SubQueueMax)
<1>1. /\ subs \in [Tasks -> Seq(Broadcasts) \cup {None}]
      /\ subs[t] # None => Len(subs[t]) <= SubQueueMax
      /\ SubQueueMax \in Nat
  BY CpuAssumption DEF TypeInv, ObserverTyped
<1>2. CASE subs' = subs
  <2> subs' = [subs EXCEPT ![t] = subs[t]] BY <1>1, <1>2
  <2> QED BY <1>1
<1>3. CASE subs' = Closed(t)
  BY <1>3 DEF Closed
<1>4. CASE subs' = [subs EXCEPT ![t] = <<>>]
  <2>1. <<>> \in Seq(Broadcasts) /\ Len(<<>>) <= SubQueueMax BY <1>1, EmptySeq
  <2> QED BY <1>4, <2>1
<1>5. CASE Take(t) /\ subs[t] # <<>> /\ subs[t] # None
  <2>1. Tail(subs[t]) \in Seq(Broadcasts) /\ Len(Tail(subs[t])) <= SubQueueMax
    BY <1>1, <1>5, HeadTailProperties, LenProperties
  <2> QED BY <1>5, <2>1 DEF Take
<1> QED BY <1>2, <1>3, <1>4, <1>5

\* A call keeps its subscription until it ends.
LEMMA Keeping ==
    ASSUME TypeInv, NEW t \in Tasks, NEW r \in TaskType,
           \/ r.pc = "done" \/ r.op \notin Subscribers
           \/ subs' = [subs EXCEPT ![t] = <<>>]
           \/ /\ r.op = task[t].op /\ task[t].pc \notin {"idle", "done"}
              /\ subs' = subs \/ (Take(t) /\ subs[t] # <<>> /\ subs[t] # None)
    PROVE  r.op \in Subscribers /\ r.pc \notin {"idle", "done"} => subs'[t] # None
<1>1. /\ subs \in [Tasks -> Seq(Broadcasts) \cup {None}]
      /\ Subscribed(t) /\ None \notin Seq(Broadcasts)
  BY CpuAssumption DEF TypeInv, ObserverTyped, CallsTyped
<1>2. CASE subs' = [subs EXCEPT ![t] = <<>>]
  <2> subs'[t] = <<>> /\ <<>> \in Seq(Broadcasts) BY <1>1, <1>2, EmptySeq
  <2> QED BY <1>1
<1>3. CASE Take(t) /\ subs[t] # <<>> /\ subs[t] # None
  <2> subs'[t] \in Seq(Broadcasts) BY <1>1, <1>3, HeadTailProperties DEF Take
  <2> QED BY <1>1
<1> QED BY <1>1, <1>2, <1>3 DEF Subscribed

\* No name is None.
LEMMA NoName == \A o \in OpNames \cup Outcomes \cup Events : o # None
  BY CpuAssumption

\* A call that leaves its queue alone hears what it heard before.
LEMMA StillHears ==
    ASSUME TypeInv, NEW t \in Tasks, NEW r \in TaskType, subs' = subs,
           r.op = task[t].op, task[t].pc \notin {"idle", "done"},
           r.res = task[t].res \/ r.res # "no hit",
           \/ r.pc = "done" \/ r.since = cpu.ticks
           \/ r.since = task[t].since /\ r.rounds = task[t].rounds
    PROVE  Hears(t, r)
<1>1. "no hit" # None
  BY NoName DEF Outcomes
<1>2. /\ \E q \in Seq(Broadcasts) \cup {None} :
           subs' = [subs EXCEPT ![t] = q] /\ (q # None => Len(q) <= SubQueueMax)
      /\ r.op \in Subscribers /\ r.pc \notin {"idle", "done"} => subs'[t] # None
  BY Hearing, Keeping
<1> QED BY <1>1, <1>2 DEF Hears

\* Where with_stepping goes on.
LEMMA WayIn ==
    ASSUME NEW c \in TaskType, InProgram(c), c.pc = "pausing",
           NEW r \in TaskType, r.pc = c.ret, r.op = c.op, r.ret = c.ret, r.out = c.out,
           r.hold = c.hold, r.bp = c.bp, r.res = c.res
    PROVE  InProgram(r)
<1>1. CASE c.ret = "body"
  BY <1>1 DEF InProgram, WaitPcs, TracePcs, WithPcs
<1>2. CASE c.ret = "probe"
  <2>1. c.op = "pause" /\ c.out = "return" BY <1>2, CpuAssumption DEF InProgram, WithPcs
  <2> QED BY <1>2, <2>1 DEF InProgram, WaitPcs, TracePcs, WithPcs
<1>3. CASE c.ret = "prepare"
  <2>1. c.op \in {"step", "until"} /\ c.out = "return"
    BY <1>3, CpuAssumption DEF InProgram, WithPcs
  <2> QED BY <1>3, <2>1 DEF InProgram, WaitPcs, TracePcs, WithPcs
<1> QED BY <1>1, <1>2, <1>3 DEF InProgram

LEMMA WayOutLabel ==
    ASSUME NEW c \in TaskType, InProgram(c), c.pc \in {"pausing", "leave", "resuming"}
    PROVE  c.out \in Outs
  BY DEF InProgram, WithPcs, Outs

\* The same on the way to the failing end of a trace.
LEMMA WayOut ==
    ASSUME NEW c \in TaskType, InProgram(c), c.pc \in {"pausing", "leave", "resuming"},
           NEW r \in TaskType, r.op = c.op, r.out = c.out,
           r.pc = c.out \/ (c.out \in {"disarm", "traced"} /\ r.pc = "failed")
    PROVE  InProgram(r)
<1>1. CASE c.op = "wait" /\ c.out \in {"verdict", "again", "unfilter"}
  BY <1>1 DEF InProgram, WaitPcs, TracePcs, WithPcs, Labels
<1>2. CASE c.op = "trace" /\ c.out \in {"disarm", "traced", "release", "return"}
  <2>0. r.op = "trace" /\ "trace" # None BY <1>2, NoName DEF OpNames
  <2>1. CASE r.pc = "failed" /\ c.out \in {"disarm", "traced"}
    BY <2>0, <2>1 DEF InProgram, WaitPcs, TracePcs, WithPcs, Labels
  <2>2. CASE r.pc = c.out /\ c.out \in {"disarm", "traced", "release"}
    BY <2>0, <2>2 DEF InProgram, WaitPcs, TracePcs, WithPcs, Labels
  <2>3. CASE r.pc = c.out /\ c.out = "return"
    <3>1. r.pc = "return" BY <2>3
    <3> QED BY <2>0, <2>3, <3>1 DEF InProgram, WaitPcs, TracePcs, WithPcs, Labels
  <2> QED BY <1>2, <2>1, <2>2, <2>3
<1>3. CASE c.op \notin {None, "wait", "trace", "stats"} /\ c.out = "return"
  <2>1. r.pc = "return" /\ r.op \notin {None, "wait", "trace", "stats"} BY <1>3
  <2> QED BY <1>3, <2>1 DEF InProgram, WaitPcs, TracePcs, WithPcs, Labels
<1> QED BY <1>1, <1>2, <1>3 DEF InProgram, WithPcs

LEMMA Entries ==
    /\ Entry["read"] = "probe" /\ Entry["pause"] = "stop" /\ Entry["resume"] = "leave"
    /\ \A o \in {"snapshot", "step", "until"} : Entry[o] = "prepare"
    /\ Entry["wait"] = "look" /\ Entry["trace"] = "arm"
    /\ \A o \in {"set", "update", "remove"} : Entry[o] = "edit"
  BY DEF Entry

\* A subscriber's next broadcast.
LEMMA Taken ==
    ASSUME TypeInv, NEW t \in Tasks
    PROVE  /\ stepQ # <<>> => Head(stepQ) \in Broadcasts
           /\ task[t].op \in Subscribers /\ task[t].pc \notin {"idle", "done"} => subs[t] # None
           /\ subs[t] # None /\ subs[t] # <<>> => Head(subs[t]).by \in Bys
<1>1. /\ stepQ \in Seq(Broadcasts) /\ subs \in [Tasks -> Seq(Broadcasts) \cup {None}]
      /\ Subscribed(t)
  BY DEF TypeInv, ObserverTyped
<1>2. subs[t] # None /\ subs[t] # <<>> => Head(subs[t]) \in Broadcasts
  BY <1>1, HeadTailProperties
<1> QED BY <1>1, <1>2, HeadTailProperties DEF Subscribed, Broadcasts, Bys

\* with_stepping until its body has run.
LEMMA PauseShape ==
    ASSUME TypeInv, NEW t \in Tasks, UNCHANGED filters,
           Probe(t) \/ ProbeFails(t) \/ Stop(t) \/ Paused(t) \/ Body(t)
    PROVE  Shape(t)
<1>1. /\ task \in [Tasks -> TaskType] /\ task[t] \in TaskType
      /\ InProgram(task[t]) /\ Told(task[t])
      /\ armed \subseteq Bps \cup {Until} /\ filters \subseteq Bps /\ lock \in Tasks \cup {None}
      /\ cpu.ticks \in Nat /\ task[t].rounds \in Nat /\ task[t].rounds + 1 \in Nat
  BY TaskTyped DEF TaskType
<1>2. CASE Probe(t)
  <2>1. CASE cpu.stepping
    <3> DEFINE r == [task[t] EXCEPT !.pc = "body", !.hold = FALSE]
    <3>1. /\ task[t].pc = "probe"
          /\ task[t].op = "trace" => task[t].out = "disarm"
      BY <1>2, <2>1, <1>1 DEF Probe, At, InProgram, WaitPcs, TracePcs, WithPcs
    <3>2. task' = [task EXCEPT ![t] = r]
      BY <1>1, <1>2, <2>1, <3>1 DEF Probe, Send, observer, TaskType
    <3>3. r \in TaskType BY <1>1, <3>1 DEF TaskType, Labels
    <3>4. /\ r.pc = "body" /\ r.op = task[t].op /\ r.ret = task[t].ret /\ r.out = task[t].out
          /\ r.hold = FALSE /\ r.bp = task[t].bp /\ r.res = task[t].res /\ r.late = task[t].late
          /\ r.since = task[t].since /\ r.rounds = task[t].rounds /\ r.clean = task[t].clean
      BY <1>1 DEF TaskType
    <3> HIDE DEF r
    <3>5. InProgram(r) BY <1>1, <2>1, <3>1, <3>4 DEF InProgram, WaitPcs, TracePcs, WithPcs
    <3>6. Told(r) BY <1>1, <2>1, <3>1, <3>4 DEF Told, Traces, HasTraced, WithPcs
    <3>7. Lawful(task[t], r, None)
      BY <1>1, <2>1, <3>1, <3>4, NoName
         DEF Lawful, Told, Excuses, Holds, Traces, HasTraced, WithPcs, Outcomes
    <3>8. Hears(t, r)
      BY <1>2, <2>1, <1>1, <3>1, <3>3, <3>4, StillHears, NoName
         DEF Probe, Send, observer, Outcomes
    <3>9. Drains(r) /\ Arms(t, r)
      BY <1>2, <2>1, <1>1, <3>1, <3>4
         DEF Probe, Send, observer, Drains, Arms, Traces, WithPcs
    <3>10. Moves(t, r, None)
      BY <1>2, <2>1, <3>2, <3>5, <3>6, <3>7, <3>1 DEF Probe, Send, observer, Moves
    <3> QED BY <3>3, <3>8, <3>9, <3>10 DEF Shape
  <2>2. CASE ~cpu.stepping
    <3> DEFINE r == [task[t] EXCEPT !.pc = "pausing", !.ret = "body", !.hold = TRUE]
               e == "cpu.stepping"
    <3>1. /\ task[t].pc = "probe"
          /\ task[t].op = "trace" => task[t].out = "disarm"
      BY <1>2, <2>2, <1>1 DEF Probe, At, InProgram, WaitPcs, TracePcs, WithPcs
    <3>2. task' = [task EXCEPT ![t] = r]
      BY <1>1, <1>2, <2>2, <3>1 DEF Probe, Send, observer, TaskType
    <3>3. r \in TaskType BY <1>1, <3>1 DEF TaskType, Labels
    <3>4. /\ r.pc = "pausing" /\ r.op = task[t].op /\ r.ret = "body" /\ r.out = task[t].out
          /\ r.hold = TRUE /\ r.bp = task[t].bp /\ r.res = task[t].res /\ r.late = task[t].late
          /\ r.since = task[t].since /\ r.rounds = task[t].rounds /\ r.clean = task[t].clean
      BY <1>1 DEF TaskType
    <3> HIDE DEF r
    <3>5. InProgram(r) BY <1>1, <2>2, <3>1, <3>4 DEF InProgram, WaitPcs, TracePcs, WithPcs
    <3>6. Told(r) BY <1>1, <2>2, <3>1, <3>4 DEF Told, Traces, HasTraced, WithPcs
    <3>7. Lawful(task[t], r, e)
      BY <1>1, <2>2, <3>1, <3>4, NoName
         DEF Lawful, Told, Excuses, Holds, Traces, HasTraced, WithPcs, Outcomes
    <3>8. subs' = subs
      BY <1>2, <2>2, <1>1, <3>1 DEF Probe, Send, observer, Closed
    <3>9. Hears(t, r)
      BY <1>1, <3>1, <3>3, <3>4, <3>8, Hearing, Keeping, NoName
         DEF Hears, Closed, Subscribers, Outcomes
    <3>10. Drains(r) /\ Arms(t, r)
      BY <1>2, <2>2, <1>1, <3>1, <3>4
         DEF Probe, Send, observer, Drains, Arms, Traces, WithPcs
    <3>11. Moves(t, r, e)
      BY <1>2, <2>2, <3>2, <3>5, <3>6, <3>7, <3>1, NoName
         DEF Probe, Send, observer, Moves, Events
    <3> QED BY <3>3, <3>9, <3>10, <3>11 DEF Shape, Events
  <2> QED BY <2>1, <2>2, <1>2 DEF Probe
<1>3. CASE ProbeFails(t)
  <2> DEFINE r == [task[t] EXCEPT !.pc = "pausing", !.ret = "body", !.hold = TRUE, !.fault = TRUE]
             e == "cpu.stepping"
  <2>1. /\ task[t].pc = "probe"
        /\ task[t].op = "trace" => task[t].out = "disarm"
    BY <1>3, <1>1 DEF ProbeFails, At, InProgram, WaitPcs, TracePcs, WithPcs
  <2>2. task' = [task EXCEPT ![t] = r]
    BY <1>1, <1>3, <2>1 DEF ProbeFails, Send, observer, TaskType
  <2>3. r \in TaskType BY <1>1, <2>1 DEF TaskType, Labels
  <2>4. /\ r.pc = "pausing" /\ r.op = task[t].op /\ r.ret = "body" /\ r.out = task[t].out
        /\ r.hold = TRUE /\ r.bp = task[t].bp /\ r.res = task[t].res /\ r.late = task[t].late
        /\ r.since = task[t].since /\ r.rounds = task[t].rounds /\ r.clean = task[t].clean
    BY <1>1 DEF TaskType
  <2> HIDE DEF r
  <2>5. InProgram(r) BY <1>1, <2>1, <2>4 DEF InProgram, WaitPcs, TracePcs, WithPcs
  <2>6. Told(r) BY <1>1, <2>1, <2>4 DEF Told, Traces, HasTraced, WithPcs
  <2>7. Lawful(task[t], r, e)
    BY <1>1, <2>1, <2>4, NoName
       DEF Lawful, Told, Excuses, Holds, Traces, HasTraced, WithPcs, Outcomes
  <2>8. Hears(t, r)
    BY <1>3, <1>1, <2>1, <2>3, <2>4, StillHears, NoName
       DEF ProbeFails, Send, observer, Outcomes
  <2>9. Drains(r) /\ Arms(t, r)
    BY <1>3, <1>1, <2>1, <2>4 DEF ProbeFails, Send, observer, Drains, Arms, Traces, WithPcs
  <2>10. Moves(t, r, e)
    BY <1>3, <2>2, <2>5, <2>6, <2>7, <2>1, NoName
       DEF ProbeFails, Send, observer, Moves, Events
  <2> QED BY <2>3, <2>8, <2>9, <2>10 DEF Shape, Events
<1>4. CASE Stop(t)
  <2> DEFINE r == [task[t] EXCEPT !.pc = "pausing", !.ret = "probe"]
             e == "cpu.stepping"
  <2>1. task[t].pc = "stop" /\ task[t].op = "pause" /\ task[t].op # None /\ task[t].out = "return"
    BY <1>4, <1>1, NoName DEF Stop, At, InProgram, WithPcs, OpNames
  <2>2. task' = [task EXCEPT ![t] = r]
    BY <1>1, <1>4, <2>1 DEF Stop, Send, observer, TaskType
  <2>3. r \in TaskType BY <1>1, <2>1 DEF TaskType, Labels
  <2>4. /\ r.pc = "pausing" /\ r.op = task[t].op /\ r.ret = "probe" /\ r.out = task[t].out
        /\ r.hold = task[t].hold /\ r.bp = task[t].bp /\ r.res = task[t].res /\ r.late = task[t].late
        /\ r.since = task[t].since /\ r.rounds = task[t].rounds /\ r.clean = task[t].clean
    BY <1>1 DEF TaskType
  <2> HIDE DEF r
  <2>5. InProgram(r) BY <1>1, <2>1, <2>4 DEF InProgram, WaitPcs, TracePcs, WithPcs
  <2>6. Told(r) BY <1>1, <2>1, <2>4 DEF Told, Traces, HasTraced, WithPcs
  <2>7. Lawful(task[t], r, e)
    BY <1>1, <2>1, <2>4, NoName
       DEF Lawful, Told, Excuses, Holds, Traces, HasTraced, WithPcs, Outcomes
  <2>8. Hears(t, r)
    BY <1>4, <1>1, <2>1, <2>3, <2>4, StillHears, NoName
       DEF Stop, Send, observer, Outcomes
  <2>9. Drains(r) /\ Arms(t, r)
    BY <1>4, <1>1, <2>1, <2>4 DEF Stop, Send, observer, Drains, Arms, Traces, WithPcs
  <2>10. Moves(t, r, e)
    BY <1>4, <2>2, <2>5, <2>6, <2>7, <2>1, NoName DEF Stop, Send, observer, Moves, Events
  <2> QED BY <2>3, <2>8, <2>9, <2>10 DEF Shape, Events
<1>5. CASE Paused(t)
  <2> DEFINE r == [task[t] EXCEPT !.pc = task[t].ret]
  <2>1. /\ task[t].pc = "pausing" /\ task[t].ret \in {"body", "probe", "prepare"} /\ (task[t].ret # "body" => task[t].op \in {"pause", "step", "until"})
        /\ task[t].op = "trace" => task[t].out = "disarm"
    BY <1>5, <1>1 DEF Paused, At, InProgram, WaitPcs, TracePcs, WithPcs
  <2>2. task' = [task EXCEPT ![t] = r]
    BY <1>1, <1>5, <2>1 DEF Paused, Goto, emulator, observer, TaskType
  <2>3. r \in TaskType BY <1>1, <2>1 DEF TaskType, Labels
  <2>4. /\ r.pc = task[t].ret /\ r.op = task[t].op /\ r.ret = task[t].ret /\ r.out = task[t].out
        /\ r.hold = task[t].hold /\ r.bp = task[t].bp /\ r.res = task[t].res /\ r.late = task[t].late
        /\ r.since = task[t].since /\ r.rounds = task[t].rounds /\ r.clean = task[t].clean
    BY <1>1 DEF TaskType
  <2> HIDE DEF r
  <2>5. InProgram(r) BY <1>1, <2>1, <2>3, WayIn, <2>4
  <2>6. Told(r) BY <1>1, <2>1, <2>4 DEF Told, Traces, HasTraced, WithPcs
  <2>7. Lawful(task[t], r, None)
    BY <1>1, <2>1, <2>4, NoName
       DEF Lawful, Told, Excuses, Holds, Traces, HasTraced, WithPcs, Outcomes
  <2>8. Hears(t, r)
    BY <1>5, <1>1, <2>1, <2>3, <2>4, StillHears, NoName
       DEF Paused, Goto, emulator, observer, Outcomes
  <2>9. Drains(r) /\ Arms(t, r)
    BY <1>5, <1>1, <2>1, <2>4
       DEF Paused, Goto, emulator, observer, Drains, Arms, Traces, WithPcs
  <2>10. Moves(t, r, None)
    BY <1>5, <2>2, <2>5, <2>6, <2>7, <2>1 DEF Paused, Goto, emulator, observer, Moves
  <2> QED BY <2>3, <2>8, <2>9, <2>10 DEF Shape
<1>6. CASE Body(t)
  <2> DEFINE r == [task[t] EXCEPT !.pc = "leave"]
  <2>1. /\ task[t].pc = "body"
        /\ task[t].op = "trace" => task[t].out = "disarm"
    BY <1>6, <1>1 DEF Body, At, InProgram, WaitPcs, TracePcs, WithPcs
  <2>2. task' = [task EXCEPT ![t] = r]
    BY <1>1, <1>6, <2>1 DEF Body, Goto, emulator, observer, TaskType
  <2>3. r \in TaskType BY <1>1, <2>1 DEF TaskType, Labels
  <2>4. /\ r.pc = "leave" /\ r.op = task[t].op /\ r.ret = task[t].ret /\ r.out = task[t].out
        /\ r.hold = task[t].hold /\ r.bp = task[t].bp /\ r.res = task[t].res /\ r.late = task[t].late
        /\ r.since = task[t].since /\ r.rounds = task[t].rounds /\ r.clean = task[t].clean
    BY <1>1 DEF TaskType
  <2> HIDE DEF r
  <2>5. InProgram(r) BY <1>1, <2>1, <2>4 DEF InProgram, WaitPcs, TracePcs, WithPcs
  <2>6. Told(r) BY <1>1, <2>1, <2>4 DEF Told, Traces, HasTraced, WithPcs
  <2>7. Lawful(task[t], r, None)
    BY <1>1, <2>1, <2>4, NoName
       DEF Lawful, Told, Excuses, Holds, Traces, HasTraced, WithPcs, Outcomes
  <2>8. Hears(t, r)
    BY <1>6, <1>1, <2>1, <2>3, <2>4, StillHears, NoName
       DEF Body, Goto, emulator, observer, Outcomes
  <2>9. Drains(r) /\ Arms(t, r)
    BY <1>6, <1>1, <2>1, <2>4
       DEF Body, Goto, emulator, observer, Drains, Arms, Traces, WithPcs
  <2>10. Moves(t, r, None)
    BY <1>6, <2>2, <2>5, <2>6, <2>7, <2>1 DEF Body, Goto, emulator, observer, Moves
  <2> QED BY <2>3, <2>8, <2>9, <2>10 DEF Shape
<1> QED BY <1>2, <1>3, <1>4, <1>5, <1>6

\* Its resume.
LEMMA ResumeShape ==
    ASSUME TypeInv, NEW t \in Tasks, UNCHANGED filters,
           Leave(t) \/ ResumedByBroadcast(t) \/ ResumedByPoll(t)
    PROVE  Shape(t)
<1>1. /\ task \in [Tasks -> TaskType] /\ task[t] \in TaskType
      /\ InProgram(task[t]) /\ Told(task[t])
      /\ armed \subseteq Bps \cup {Until} /\ filters \subseteq Bps /\ lock \in Tasks \cup {None}
      /\ cpu.ticks \in Nat /\ task[t].rounds \in Nat /\ task[t].rounds + 1 \in Nat
  BY TaskTyped DEF TaskType
<1>2. CASE Leave(t)
  <2>1. CASE task[t].hold /\ cmds = <<>> /\ wire = <<>>
    <3> DEFINE r == [task[t] EXCEPT !.pc = "resuming", !.since = cpu.ticks, !.clean = TRUE]
               e == "cpu.resume"
    <3>1. task[t].pc = "leave"
      BY <1>2, <2>1, <1>1 DEF Leave, At
    <3>2. task' = [task EXCEPT ![t] = r]
      BY <1>1, <1>2, <2>1, <3>1 DEF Leave, Goto, Send, TaskType
    <3>3. r \in TaskType BY <1>1, <3>1 DEF TaskType, Labels
    <3>4. /\ r.pc = "resuming" /\ r.op = task[t].op /\ r.ret = task[t].ret /\ r.out = task[t].out
          /\ r.hold = task[t].hold /\ r.bp = task[t].bp /\ r.res = task[t].res /\ r.late = task[t].late
          /\ r.since = cpu.ticks /\ r.rounds = task[t].rounds /\ r.clean = TRUE
      BY <1>1 DEF TaskType
    <3> HIDE DEF r
    <3>5. InProgram(r) BY <1>1, <2>1, <3>1, <3>4 DEF InProgram, WaitPcs, TracePcs, WithPcs
    <3>6. Told(r) BY <1>1, <2>1, <3>1, <3>4 DEF Told, Traces, HasTraced, WithPcs
    <3>7. Lawful(task[t], r, e)
      BY <1>1, <2>1, <3>1, <3>4, NoName
         DEF Lawful, Told, Excuses, Holds, Traces, HasTraced, WithPcs, Outcomes
    <3>8. Hears(t, r)
      BY <1>2, <2>1, <1>1, <3>1, <3>3, <3>4, StillHears, NoName
         DEF Leave, Goto, Send, Outcomes
    <3>9. Drains(r) /\ Arms(t, r)
      BY <1>2, <2>1, <1>1, <3>1, <3>4 DEF Leave, Goto, Send, Drains, Arms, Traces, WithPcs
    <3>10. Moves(t, r, e)
      BY <1>2, <2>1, <3>2, <3>5, <3>6, <3>7, <3>1, NoName
         DEF Leave, Goto, Send, Moves, Events
    <3> QED BY <3>3, <3>8, <3>9, <3>10 DEF Shape, Events
  <2>2. CASE task[t].hold /\ ~(cmds = <<>> /\ wire = <<>>)
    <3> DEFINE r == [task[t] EXCEPT !.pc = "resuming", !.since = cpu.ticks, !.clean = FALSE]
               e == "cpu.resume"
    <3>1. task[t].pc = "leave"
      BY <1>2, <2>2, <1>1 DEF Leave, At
    <3>2. task' = [task EXCEPT ![t] = r]
      BY <1>1, <1>2, <2>2, <3>1 DEF Leave, Goto, Send, TaskType
    <3>3. r \in TaskType BY <1>1, <3>1 DEF TaskType, Labels
    <3>4. /\ r.pc = "resuming" /\ r.op = task[t].op /\ r.ret = task[t].ret /\ r.out = task[t].out
          /\ r.hold = task[t].hold /\ r.bp = task[t].bp /\ r.res = task[t].res /\ r.late = task[t].late
          /\ r.since = cpu.ticks /\ r.rounds = task[t].rounds /\ r.clean = FALSE
      BY <1>1 DEF TaskType
    <3> HIDE DEF r
    <3>5. InProgram(r) BY <1>1, <2>2, <3>1, <3>4 DEF InProgram, WaitPcs, TracePcs, WithPcs
    <3>6. Told(r) BY <1>1, <2>2, <3>1, <3>4 DEF Told, Traces, HasTraced, WithPcs
    <3>7. Lawful(task[t], r, e)
      BY <1>1, <2>2, <3>1, <3>4, NoName
         DEF Lawful, Told, Excuses, Holds, Traces, HasTraced, WithPcs, Outcomes
    <3>8. Hears(t, r)
      BY <1>2, <2>2, <1>1, <3>1, <3>3, <3>4, StillHears, NoName
         DEF Leave, Goto, Send, Outcomes
    <3>9. Drains(r) /\ Arms(t, r)
      BY <1>2, <2>2, <1>1, <3>1, <3>4 DEF Leave, Goto, Send, Drains, Arms, Traces, WithPcs
    <3>10. Moves(t, r, e)
      BY <1>2, <2>2, <3>2, <3>5, <3>6, <3>7, <3>1, NoName
         DEF Leave, Goto, Send, Moves, Events
    <3> QED BY <3>3, <3>8, <3>9, <3>10 DEF Shape, Events
  <2>3. CASE ~task[t].hold
    <3> DEFINE r == [task[t] EXCEPT !.pc = task[t].out]
    <3>1. task[t].pc = "leave" /\ task[t].out \in Outs
      BY <1>2, <2>3, <1>1, WayOutLabel DEF Leave, At, InProgram
    <3>2. task' = [task EXCEPT ![t] = r]
      BY <1>1, <1>2, <2>3, <3>1 DEF Leave, Goto, Send, TaskType
    <3>3. r \in TaskType BY <1>1, <3>1 DEF TaskType, Labels, Outs
    <3>4. /\ r.pc = task[t].out /\ r.op = task[t].op /\ r.ret = task[t].ret /\ r.out = task[t].out
          /\ r.hold = task[t].hold /\ r.bp = task[t].bp /\ r.res = task[t].res /\ r.late = task[t].late
          /\ r.since = task[t].since /\ r.rounds = task[t].rounds /\ r.clean = task[t].clean
      BY <1>1 DEF TaskType
    <3> HIDE DEF r
    <3>5. InProgram(r) BY <1>1, <2>3, <3>1, <3>3, WayOut, <3>4
    <3>6. Told(r) BY <1>1, <2>3, <3>1, <3>4 DEF Told, Traces, HasTraced, WithPcs, Outs
    <3>7. Lawful(task[t], r, None)
      BY <1>1, <2>3, <3>1, <3>4, NoName
         DEF Lawful, Told, Excuses, Holds, Traces, HasTraced, WithPcs, Outcomes, Outs
    <3>8. Hears(t, r)
      BY <1>2, <2>3, <1>1, <3>1, <3>3, <3>4, StillHears, NoName
         DEF Leave, Goto, Send, Outcomes
    <3>9. Drains(r) /\ Arms(t, r)
      BY <1>2, <2>3, <1>1, <3>1, <3>4
         DEF Leave, Goto, Send, Drains, Arms, Traces, WithPcs, Outs
    <3>10. Moves(t, r, None)
      BY <1>2, <2>3, <3>2, <3>5, <3>6, <3>7, <3>1 DEF Leave, Goto, Send, Moves
    <3> QED BY <3>3, <3>8, <3>9, <3>10 DEF Shape
  <2> QED BY <2>1, <2>2, <2>3, <1>2 DEF Leave
<1>3. CASE ResumedByBroadcast(t)
  <2> DEFINE r == [task[t] EXCEPT !.pc = task[t].out]
  <2>1. task[t].pc = "resuming" /\ task[t].out \in Outs
    BY <1>3, <1>1, WayOutLabel DEF ResumedByBroadcast, At, InProgram
  <2>2. task' = [task EXCEPT ![t] = r]
    BY <1>1, <1>3, <2>1 DEF ResumedByBroadcast, Goto, emulator, TaskType
  <2>3. r \in TaskType BY <1>1, <2>1 DEF TaskType, Labels, Outs
  <2>4. /\ r.pc = task[t].out /\ r.op = task[t].op /\ r.ret = task[t].ret /\ r.out = task[t].out
        /\ r.hold = task[t].hold /\ r.bp = task[t].bp /\ r.res = task[t].res /\ r.late = task[t].late
        /\ r.since = task[t].since /\ r.rounds = task[t].rounds /\ r.clean = task[t].clean
    BY <1>1 DEF TaskType
  <2> HIDE DEF r
  <2>5. InProgram(r) BY <1>1, <2>1, <2>3, WayOut, <2>4
  <2>6. Told(r) BY <1>1, <2>1, <2>4 DEF Told, Traces, HasTraced, WithPcs, Outs
  <2>7. Lawful(task[t], r, None)
    BY <1>1, <2>1, <2>4, NoName
       DEF Lawful, Told, Excuses, Holds, Traces, HasTraced, WithPcs, Outcomes, Outs
  <2>8. Hears(t, r)
    BY <1>3, <1>1, <2>1, <2>3, <2>4, StillHears, NoName
       DEF ResumedByBroadcast, Goto, emulator, Outcomes
  <2>9. Drains(r) /\ Arms(t, r)
    BY <1>3, <1>1, <2>1, <2>4
       DEF ResumedByBroadcast, Goto, emulator, Drains, Arms, Traces, WithPcs, Outs
  <2>10. Moves(t, r, None)
    BY <1>3, <2>2, <2>5, <2>6, <2>7, <2>1 DEF ResumedByBroadcast, Goto, emulator, Moves
  <2> QED BY <2>3, <2>8, <2>9, <2>10 DEF Shape
<1>4. CASE ResumedByPoll(t)
  <2>1. CASE ~cpu.stepping \/ task[t].out \notin {"return", "disarm", "traced"}
    <3> DEFINE r == [task[t] EXCEPT !.pc = task[t].out]
    <3>1. task[t].pc = "resuming" /\ task[t].out \in Outs
      BY <1>4, <2>1, <1>1, WayOutLabel DEF ResumedByPoll, At, InProgram
    <3>2. task' = [task EXCEPT ![t] = r]
      <4>1. CASE ~cpu.stepping
        BY <1>1, <1>4, <4>1, <3>1 DEF ResumedByPoll, Goto, TaskType
      <4>2. CASE cpu.stepping
        <5>1. task' = [task EXCEPT ![t].pc = task[t].out, ![t].res = @]
          BY <1>4, <2>1, <4>2 DEF ResumedByPoll
        <5> QED BY <1>1, <5>1, <3>1 DEF TaskType
      <4> QED BY <4>1, <4>2
    <3>3. r \in TaskType BY <1>1, <3>1 DEF TaskType, Labels, Outs
    <3>4. /\ r.pc = task[t].out /\ r.op = task[t].op /\ r.ret = task[t].ret /\ r.out = task[t].out
          /\ r.hold = task[t].hold /\ r.bp = task[t].bp /\ r.res = task[t].res /\ r.late = task[t].late
          /\ r.since = task[t].since /\ r.rounds = task[t].rounds /\ r.clean = task[t].clean
      BY <1>1 DEF TaskType
    <3> HIDE DEF r
    <3>5. InProgram(r) BY <1>1, <2>1, <3>1, <3>3, WayOut, <3>4
    <3>6. Told(r) BY <1>1, <2>1, <3>1, <3>4 DEF Told, Traces, HasTraced, WithPcs, Outs
    <3>7. Lawful(task[t], r, None)
      BY <1>1, <2>1, <3>1, <3>4, NoName
         DEF Lawful, Told, Excuses, Holds, Traces, HasTraced, WithPcs, Outcomes, Outs
    <3>8. Hears(t, r)
      BY <1>4, <2>1, <1>1, <3>1, <3>3, <3>4, StillHears, NoName
         DEF ResumedByPoll, Goto, emulator, observer, Outcomes
    <3>9. Drains(r) /\ Arms(t, r)
      BY <1>4, <2>1, <1>1, <3>1, <3>4
         DEF ResumedByPoll, Goto, emulator, observer, Drains, Arms, Traces, WithPcs, Outs
    <3>10. Moves(t, r, None)
      BY <1>4, <2>1, <3>2, <3>5, <3>6, <3>7, <3>1
         DEF ResumedByPoll, Goto, emulator, observer, Moves
    <3> QED BY <3>3, <3>8, <3>9, <3>10 DEF Shape
  <2>2. CASE cpu.stepping /\ task[t].out = "return"
    <3> DEFINE r == [task[t] EXCEPT !.pc = task[t].out, !.res = "resume failed"]
    <3>1. task[t].pc = "resuming" /\ task[t].out = "return"
      BY <1>4, <2>2, <1>1 DEF ResumedByPoll, At, InProgram, WithPcs
    <3>2. task' = [task EXCEPT ![t] = r]
      BY <1>1, <1>4, <2>2, <3>1 DEF ResumedByPoll, Goto, emulator, observer, TaskType
    <3>3. r \in TaskType BY <1>1, <2>2, <3>1 DEF TaskType, Labels, Outs, OpNames, Outcomes
    <3>4. /\ r.pc = task[t].out /\ r.op = task[t].op /\ r.ret = task[t].ret /\ r.out = task[t].out
          /\ r.hold = task[t].hold /\ r.bp = task[t].bp /\ r.res = "resume failed" /\ r.late = task[t].late
          /\ r.since = task[t].since /\ r.rounds = task[t].rounds /\ r.clean = task[t].clean
      BY <1>1 DEF TaskType
    <3> HIDE DEF r
    <3>5. InProgram(r) BY <1>1, <2>2, <3>1, <3>3, WayOut, <3>4
    <3>6. Told(r) BY <1>1, <2>2, <3>1, <3>4 DEF Told, Traces, HasTraced, WithPcs, Outs
    <3>7. Lawful(task[t], r, None)
      BY <1>1, <2>2, <3>1, <3>4, NoName
         DEF Lawful, Told, Excuses, Holds, Traces, HasTraced, WithPcs, Outcomes, Outs
    <3>8. Hears(t, r)
      BY <1>4, <2>2, <1>1, <3>1, <3>3, <3>4, StillHears, NoName
         DEF ResumedByPoll, Goto, emulator, observer, Outcomes
    <3>9. Drains(r) /\ Arms(t, r)
      BY <1>4, <2>2, <1>1, <3>1, <3>4
         DEF ResumedByPoll, Goto, emulator, observer, Drains, Arms, Traces, WithPcs, Outs
    <3>10. Moves(t, r, None)
      BY <1>4, <2>2, <3>2, <3>5, <3>6, <3>7, <3>1
         DEF ResumedByPoll, Goto, emulator, observer, Moves
    <3> QED BY <3>3, <3>8, <3>9, <3>10 DEF Shape
  <2>3. CASE cpu.stepping /\ task[t].out \in {"disarm", "traced"}
    <3> DEFINE r == [task[t] EXCEPT !.pc = "failed"]
    <3>1. task[t].pc = "resuming" /\ task[t].op = "trace"
      BY <1>4, <2>3, <1>1 DEF ResumedByPoll, At, InProgram, WithPcs
    <3>2. task' = [task EXCEPT ![t] = r]
      <4>1. task' = [task EXCEPT ![t].pc = "failed", ![t].res = @]
        BY <1>4, <2>3, <3>1 DEF ResumedByPoll
      <4> QED BY <1>1, <4>1, <3>1 DEF TaskType
    <3>3. r \in TaskType BY <1>1, <3>1 DEF TaskType, Labels, Outs
    <3>4. /\ r.pc = "failed" /\ r.op = task[t].op /\ r.ret = task[t].ret /\ r.out = task[t].out
          /\ r.hold = task[t].hold /\ r.bp = task[t].bp /\ r.res = task[t].res /\ r.late = task[t].late
          /\ r.since = task[t].since /\ r.rounds = task[t].rounds /\ r.clean = task[t].clean
      BY <1>1 DEF TaskType
    <3> HIDE DEF r
    <3>5. InProgram(r) BY <1>1, <2>3, <3>1, <3>3, WayOut, <3>4
    <3>6. Told(r) BY <1>1, <2>3, <3>1, <3>4 DEF Told, Traces, HasTraced, WithPcs, Outs
    <3>7. Lawful(task[t], r, None)
      BY <1>1, <2>3, <3>1, <3>4, NoName
         DEF Lawful, Told, Excuses, Holds, Traces, HasTraced, WithPcs, Outcomes, Outs
    <3>8. Hears(t, r)
      BY <1>4, <2>3, <1>1, <3>1, <3>3, <3>4, StillHears, NoName
         DEF ResumedByPoll, Goto, emulator, observer, Outcomes
    <3>9. Drains(r) /\ Arms(t, r)
      BY <1>4, <2>3, <1>1, <3>1, <3>4
         DEF ResumedByPoll, Goto, emulator, observer, Drains, Arms, Traces, WithPcs, Outs
    <3>10. Moves(t, r, None)
      BY <1>4, <2>3, <3>2, <3>5, <3>6, <3>7, <3>1
         DEF ResumedByPoll, Goto, emulator, observer, Moves
    <3> QED BY <3>3, <3>8, <3>9, <3>10 DEF Shape
  <2> QED BY <2>1, <2>2, <2>3, <1>4 DEF ResumedByPoll
<1> QED BY <1>2, <1>3, <1>4

\* The start of a call.
LEMMA BeginShape ==
    ASSUME TypeInv, NEW t \in Tasks, NEW o \in Ops, UNCHANGED filters,
           Begin(t, o)
    PROVE  Shape(t)
<1>1. /\ task \in [Tasks -> TaskType] /\ task[t] \in TaskType
      /\ InProgram(task[t]) /\ Told(task[t])
      /\ armed \subseteq Bps \cup {Until} /\ filters \subseteq Bps /\ lock \in Tasks \cup {None}
      /\ cpu.ticks \in Nat /\ task[t].rounds \in Nat /\ task[t].rounds + 1 \in Nat
  BY TaskTyped DEF TaskType
<1>2. CASE Begin(t, o)
  <2>1. CASE o = "stats"
    <3> DEFINE r == [task[t] EXCEPT !.pc = "sampling", !.op = o, !.since = cpu.ticks]
    <3>1. task[t].pc = "idle" /\ o \in OpNames /\ task[t].op = None /\ task[t].res = None
      BY <1>2, <2>1, <1>1, CpuAssumption DEF Begin, At, InProgram, OpNames
    <3>2. task' = [task EXCEPT ![t] = r]
      BY <1>1, <1>2, <2>1, <3>1 DEF Begin, emulator, TaskType
    <3>3. r \in TaskType
      <4>1. "sampling" \in Labels BY DEF Labels
      <4> QED BY <1>1, <3>1, <4>1 DEF TaskType
    <3>4. /\ r.pc = "sampling" /\ r.op = o /\ r.ret = task[t].ret /\ r.out = task[t].out
          /\ r.hold = task[t].hold /\ r.bp = task[t].bp /\ r.res = task[t].res /\ r.late = task[t].late
          /\ r.since = cpu.ticks /\ r.rounds = task[t].rounds /\ r.clean = task[t].clean
      BY <1>1 DEF TaskType
    <3> HIDE DEF r
    <3>5. InProgram(r) BY <1>1, <2>1, <3>1, <3>4 DEF InProgram, WaitPcs, TracePcs, WithPcs
    <3>6. Told(r)
      BY <1>1, <2>1, <3>1, <3>4, NoName DEF Told, Traces, HasTraced, WithPcs, Outcomes
    <3>7. Lawful(task[t], r, None)
      BY <1>1, <2>1, <3>1, <3>4, NoName
         DEF Lawful, Told, Excuses, Holds, Traces, HasTraced, WithPcs, Outcomes, OpNames
    <3>8. Hears(t, r)
      BY <1>2, <2>1, <1>1, <3>1, <3>3, <3>4, Hearing, Keeping, NoName
         DEF Begin, emulator, Hears, Subscribers, OpNames, Outcomes
    <3>9. Drains(r) /\ Arms(t, r)
      BY <1>2, <2>1, <1>1, <3>1, <3>4 DEF Begin, emulator, Drains, Arms, Traces, WithPcs
    <3>10. Moves(t, r, None)
      BY <1>2, <2>1, <3>2, <3>5, <3>6, <3>7, <3>1 DEF Begin, emulator, Moves
    <3> QED BY <3>3, <3>8, <3>9, <3>10 DEF Shape
  <2>2. CASE o # "stats"
    <3> DEFINE r == [task[t] EXCEPT !.pc = "locking", !.op = o, !.since = cpu.ticks]
    <3>1. task[t].pc = "idle" /\ o \in OpNames /\ task[t].op = None /\ task[t].res = None
      BY <1>2, <2>2, <1>1, CpuAssumption DEF Begin, At, InProgram, OpNames
    <3>2. task' = [task EXCEPT ![t] = r]
      BY <1>1, <1>2, <2>2, <3>1 DEF Begin, emulator, TaskType
    <3>3. r \in TaskType
      <4>1. "locking" \in Labels BY DEF Labels
      <4> QED BY <1>1, <3>1, <4>1 DEF TaskType
    <3>4. /\ r.pc = "locking" /\ r.op = o /\ r.ret = task[t].ret /\ r.out = task[t].out
          /\ r.hold = task[t].hold /\ r.bp = task[t].bp /\ r.res = task[t].res /\ r.late = task[t].late
          /\ r.since = cpu.ticks /\ r.rounds = task[t].rounds /\ r.clean = task[t].clean
      BY <1>1 DEF TaskType
    <3> HIDE DEF r
    <3>5. InProgram(r) BY <1>1, <2>2, <3>1, <3>4 DEF InProgram, WaitPcs, TracePcs, WithPcs
    <3>6. Told(r)
      BY <1>1, <2>2, <3>1, <3>4, NoName DEF Told, Traces, HasTraced, WithPcs, Outcomes
    <3>7. Lawful(task[t], r, None)
      BY <1>1, <2>2, <3>1, <3>4, NoName
         DEF Lawful, Told, Excuses, Holds, Traces, HasTraced, WithPcs, Outcomes, OpNames
    <3>8. Hears(t, r)
      BY <1>2, <2>2, <1>1, <3>1, <3>3, <3>4, Hearing, Keeping, NoName
         DEF Begin, emulator, Hears, Subscribers, OpNames, Outcomes
    <3>9. Drains(r) /\ Arms(t, r)
      BY <1>2, <2>2, <1>1, <3>1, <3>4 DEF Begin, emulator, Drains, Arms, Traces, WithPcs
    <3>10. Moves(t, r, None)
      BY <1>2, <2>2, <3>2, <3>5, <3>6, <3>7, <3>1 DEF Begin, emulator, Moves
    <3> QED BY <3>3, <3>8, <3>9, <3>10 DEF Shape
  <2> QED BY <2>1, <2>2, <1>2 DEF Begin
<1> QED BY <1>2

\* The session lock taken, and the end of a call.
LEMMA EndShape ==
    ASSUME TypeInv, NEW t \in Tasks, UNCHANGED filters,
           Acquire(t) \/ Return(t) \/ PauseTimesOut(t)
    PROVE  Shape(t)
<1>1. /\ task \in [Tasks -> TaskType] /\ task[t] \in TaskType
      /\ InProgram(task[t]) /\ Told(task[t])
      /\ armed \subseteq Bps \cup {Until} /\ filters \subseteq Bps /\ lock \in Tasks \cup {None}
      /\ cpu.ticks \in Nat /\ task[t].rounds \in Nat /\ task[t].rounds + 1 \in Nat
  BY TaskTyped DEF TaskType
<1>2. CASE Acquire(t)
  <2>1. CASE task[t].op = "read"
    <3> DEFINE r == [task[t] EXCEPT !.pc = "probe", !.out = "return", !.hold = FALSE]
    <3>1. task[t].pc = "locking" /\ task[t].op # None /\ Entry[task[t].op] = "probe"
      BY <1>2, <2>1, <1>1, NoName, Entries DEF Acquire, At, InProgram, OpNames
    <3>2. task' = [task EXCEPT ![t] = r]
      BY <1>1, <1>2, <2>1, <3>1 DEF Acquire, emulator, observer, TaskType
    <3>3. r \in TaskType BY <1>1, <3>1 DEF TaskType, Labels, Outs
    <3>4. /\ r.pc = "probe" /\ r.op = task[t].op /\ r.ret = task[t].ret /\ r.out = "return"
          /\ r.hold = FALSE /\ r.bp = task[t].bp /\ r.res = task[t].res /\ r.late = task[t].late
          /\ r.since = task[t].since /\ r.rounds = task[t].rounds /\ r.clean = task[t].clean
      BY <1>1 DEF TaskType
    <3> HIDE DEF r
    <3>5. InProgram(r) BY <1>1, <2>1, <3>1, <3>4 DEF InProgram, WaitPcs, TracePcs, WithPcs
    <3>6. Told(r) BY <1>1, <2>1, <3>1, <3>4 DEF Told, Traces, HasTraced, WithPcs
    <3>7. Lawful(task[t], r, None)
      BY <1>1, <2>1, <3>1, <3>4, NoName
         DEF Lawful, Told, Excuses, Holds, Traces, HasTraced, WithPcs, Outcomes
    <3>8. Hears(t, r)
      BY <1>2, <2>1, <1>1, <3>1, <3>3, <3>4, StillHears, NoName
         DEF Acquire, emulator, observer, Outcomes
    <3>9. Drains(r) /\ Arms(t, r)
      BY <1>2, <2>1, <1>1, <3>1, <3>4
         DEF Acquire, emulator, observer, Drains, Arms, Traces, WithPcs
    <3>10. Moves(t, r, None)
      BY <1>2, <2>1, <3>2, <3>5, <3>6, <3>7, <3>1 DEF Acquire, emulator, observer, Moves
    <3> QED BY <3>3, <3>8, <3>9, <3>10 DEF Shape
  <2>2. CASE task[t].op = "pause"
    <3> DEFINE r == [task[t] EXCEPT !.pc = "stop", !.out = "return", !.hold = FALSE]
    <3>1. task[t].pc = "locking" /\ task[t].op # None /\ Entry[task[t].op] = "stop"
      BY <1>2, <2>2, <1>1, NoName, Entries DEF Acquire, At, InProgram, OpNames
    <3>2. task' = [task EXCEPT ![t] = r]
      BY <1>1, <1>2, <2>2, <3>1 DEF Acquire, emulator, observer, TaskType
    <3>3. r \in TaskType BY <1>1, <3>1 DEF TaskType, Labels, Outs
    <3>4. /\ r.pc = "stop" /\ r.op = task[t].op /\ r.ret = task[t].ret /\ r.out = "return"
          /\ r.hold = FALSE /\ r.bp = task[t].bp /\ r.res = task[t].res /\ r.late = task[t].late
          /\ r.since = task[t].since /\ r.rounds = task[t].rounds /\ r.clean = task[t].clean
      BY <1>1 DEF TaskType
    <3> HIDE DEF r
    <3>5. InProgram(r) BY <1>1, <2>2, <3>1, <3>4 DEF InProgram, WaitPcs, TracePcs, WithPcs
    <3>6. Told(r) BY <1>1, <2>2, <3>1, <3>4 DEF Told, Traces, HasTraced, WithPcs
    <3>7. Lawful(task[t], r, None)
      BY <1>1, <2>2, <3>1, <3>4, NoName
         DEF Lawful, Told, Excuses, Holds, Traces, HasTraced, WithPcs, Outcomes
    <3>8. Hears(t, r)
      BY <1>2, <2>2, <1>1, <3>1, <3>3, <3>4, StillHears, NoName
         DEF Acquire, emulator, observer, Outcomes
    <3>9. Drains(r) /\ Arms(t, r)
      BY <1>2, <2>2, <1>1, <3>1, <3>4
         DEF Acquire, emulator, observer, Drains, Arms, Traces, WithPcs
    <3>10. Moves(t, r, None)
      BY <1>2, <2>2, <3>2, <3>5, <3>6, <3>7, <3>1 DEF Acquire, emulator, observer, Moves
    <3> QED BY <3>3, <3>8, <3>9, <3>10 DEF Shape
  <2>3. CASE task[t].op = "resume"
    <3> DEFINE r == [task[t] EXCEPT !.pc = "leave", !.out = "return", !.hold = TRUE]
    <3>1. task[t].pc = "locking" /\ task[t].op # None /\ Entry[task[t].op] = "leave"
      BY <1>2, <2>3, <1>1, NoName, Entries DEF Acquire, At, InProgram, OpNames
    <3>2. task' = [task EXCEPT ![t] = r]
      BY <1>1, <1>2, <2>3, <3>1 DEF Acquire, emulator, observer, TaskType
    <3>3. r \in TaskType BY <1>1, <3>1 DEF TaskType, Labels, Outs
    <3>4. /\ r.pc = "leave" /\ r.op = task[t].op /\ r.ret = task[t].ret /\ r.out = "return"
          /\ r.hold = TRUE /\ r.bp = task[t].bp /\ r.res = task[t].res /\ r.late = task[t].late
          /\ r.since = task[t].since /\ r.rounds = task[t].rounds /\ r.clean = task[t].clean
      BY <1>1 DEF TaskType
    <3> HIDE DEF r
    <3>5. InProgram(r) BY <1>1, <2>3, <3>1, <3>4 DEF InProgram, WaitPcs, TracePcs, WithPcs
    <3>6. Told(r) BY <1>1, <2>3, <3>1, <3>4 DEF Told, Traces, HasTraced, WithPcs
    <3>7. Lawful(task[t], r, None)
      BY <1>1, <2>3, <3>1, <3>4, NoName
         DEF Lawful, Told, Excuses, Holds, Traces, HasTraced, WithPcs, Outcomes
    <3>8. Hears(t, r)
      BY <1>2, <2>3, <1>1, <3>1, <3>3, <3>4, StillHears, NoName
         DEF Acquire, emulator, observer, Outcomes
    <3>9. Drains(r) /\ Arms(t, r)
      BY <1>2, <2>3, <1>1, <3>1, <3>4
         DEF Acquire, emulator, observer, Drains, Arms, Traces, WithPcs
    <3>10. Moves(t, r, None)
      BY <1>2, <2>3, <3>2, <3>5, <3>6, <3>7, <3>1 DEF Acquire, emulator, observer, Moves
    <3> QED BY <3>3, <3>8, <3>9, <3>10 DEF Shape
  <2>4. CASE task[t].op \in {"snapshot", "step", "until"}
    <3> DEFINE r == [task[t] EXCEPT !.pc = "prepare", !.out = "return", !.hold = FALSE]
    <3>1. task[t].pc = "locking" /\ task[t].op # None /\ Entry[task[t].op] = "prepare"
      BY <1>2, <2>4, <1>1, NoName, Entries DEF Acquire, At, InProgram, OpNames
    <3>2. task' = [task EXCEPT ![t] = r]
      BY <1>1, <1>2, <2>4, <3>1 DEF Acquire, emulator, observer, TaskType
    <3>3. r \in TaskType BY <1>1, <3>1 DEF TaskType, Labels, Outs
    <3>4. /\ r.pc = "prepare" /\ r.op = task[t].op /\ r.ret = task[t].ret /\ r.out = "return"
          /\ r.hold = FALSE /\ r.bp = task[t].bp /\ r.res = task[t].res /\ r.late = task[t].late
          /\ r.since = task[t].since /\ r.rounds = task[t].rounds /\ r.clean = task[t].clean
      BY <1>1 DEF TaskType
    <3> HIDE DEF r
    <3>5. InProgram(r) BY <1>1, <2>4, <3>1, <3>4 DEF InProgram, WaitPcs, TracePcs, WithPcs
    <3>6. Told(r) BY <1>1, <2>4, <3>1, <3>4 DEF Told, Traces, HasTraced, WithPcs
    <3>7. Lawful(task[t], r, None)
      BY <1>1, <2>4, <3>1, <3>4, NoName
         DEF Lawful, Told, Excuses, Holds, Traces, HasTraced, WithPcs, Outcomes
    <3>8. Hears(t, r)
      BY <1>2, <2>4, <1>1, <3>1, <3>3, <3>4, StillHears, NoName
         DEF Acquire, emulator, observer, Outcomes
    <3>9. Drains(r) /\ Arms(t, r)
      BY <1>2, <2>4, <1>1, <3>1, <3>4
         DEF Acquire, emulator, observer, Drains, Arms, Traces, WithPcs
    <3>10. Moves(t, r, None)
      BY <1>2, <2>4, <3>2, <3>5, <3>6, <3>7, <3>1 DEF Acquire, emulator, observer, Moves
    <3> QED BY <3>3, <3>8, <3>9, <3>10 DEF Shape
  <2>5. CASE task[t].op = "wait"
    <3> DEFINE r == [task[t] EXCEPT !.pc = "look", !.out = "return", !.hold = FALSE]
    <3>1. task[t].pc = "locking" /\ task[t].op # None /\ Entry[task[t].op] = "look"
      BY <1>2, <2>5, <1>1, NoName, Entries DEF Acquire, At, InProgram, OpNames
    <3>2. task' = [task EXCEPT ![t] = r]
      BY <1>1, <1>2, <2>5, <3>1 DEF Acquire, emulator, observer, TaskType
    <3>3. r \in TaskType BY <1>1, <3>1 DEF TaskType, Labels, Outs
    <3>4. /\ r.pc = "look" /\ r.op = task[t].op /\ r.ret = task[t].ret /\ r.out = "return"
          /\ r.hold = FALSE /\ r.bp = task[t].bp /\ r.res = task[t].res /\ r.late = task[t].late
          /\ r.since = task[t].since /\ r.rounds = task[t].rounds /\ r.clean = task[t].clean
      BY <1>1 DEF TaskType
    <3> HIDE DEF r
    <3>5. InProgram(r) BY <1>1, <2>5, <3>1, <3>4 DEF InProgram, WaitPcs, TracePcs, WithPcs
    <3>6. Told(r) BY <1>1, <2>5, <3>1, <3>4 DEF Told, Traces, HasTraced, WithPcs
    <3>7. Lawful(task[t], r, None)
      BY <1>1, <2>5, <3>1, <3>4, NoName
         DEF Lawful, Told, Excuses, Holds, Traces, HasTraced, WithPcs, Outcomes
    <3>8. Hears(t, r)
      BY <1>2, <2>5, <1>1, <3>1, <3>3, <3>4, StillHears, NoName
         DEF Acquire, emulator, observer, Outcomes
    <3>9. Drains(r) /\ Arms(t, r)
      BY <1>2, <2>5, <1>1, <3>1, <3>4
         DEF Acquire, emulator, observer, Drains, Arms, Traces, WithPcs
    <3>10. Moves(t, r, None)
      BY <1>2, <2>5, <3>2, <3>5, <3>6, <3>7, <3>1 DEF Acquire, emulator, observer, Moves
    <3> QED BY <3>3, <3>8, <3>9, <3>10 DEF Shape
  <2>6. CASE task[t].op = "trace"
    <3> DEFINE r == [task[t] EXCEPT !.pc = "arm", !.out = "return", !.hold = FALSE]
    <3>1. task[t].pc = "locking" /\ task[t].op # None /\ Entry[task[t].op] = "arm"
      BY <1>2, <2>6, <1>1, NoName, Entries DEF Acquire, At, InProgram, OpNames
    <3>2. task' = [task EXCEPT ![t] = r]
      BY <1>1, <1>2, <2>6, <3>1 DEF Acquire, emulator, observer, TaskType
    <3>3. r \in TaskType BY <1>1, <3>1 DEF TaskType, Labels, Outs
    <3>4. /\ r.pc = "arm" /\ r.op = task[t].op /\ r.ret = task[t].ret /\ r.out = "return"
          /\ r.hold = FALSE /\ r.bp = task[t].bp /\ r.res = task[t].res /\ r.late = task[t].late
          /\ r.since = task[t].since /\ r.rounds = task[t].rounds /\ r.clean = task[t].clean
      BY <1>1 DEF TaskType
    <3> HIDE DEF r
    <3>5. InProgram(r) BY <1>1, <2>6, <3>1, <3>4 DEF InProgram, WaitPcs, TracePcs, WithPcs
    <3>6. Told(r) BY <1>1, <2>6, <3>1, <3>4 DEF Told, Traces, HasTraced, WithPcs
    <3>7. Lawful(task[t], r, None)
      BY <1>1, <2>6, <3>1, <3>4, NoName
         DEF Lawful, Told, Excuses, Holds, Traces, HasTraced, WithPcs, Outcomes
    <3>8. Hears(t, r)
      BY <1>2, <2>6, <1>1, <3>1, <3>3, <3>4, StillHears, NoName
         DEF Acquire, emulator, observer, Outcomes
    <3>9. Drains(r) /\ Arms(t, r)
      BY <1>2, <2>6, <1>1, <3>1, <3>4
         DEF Acquire, emulator, observer, Drains, Arms, Traces, WithPcs
    <3>10. Moves(t, r, None)
      BY <1>2, <2>6, <3>2, <3>5, <3>6, <3>7, <3>1 DEF Acquire, emulator, observer, Moves
    <3> QED BY <3>3, <3>8, <3>9, <3>10 DEF Shape
  <2>7. CASE task[t].op \in {"set", "update", "remove"}
    <3> DEFINE r == [task[t] EXCEPT !.pc = "edit", !.out = "return", !.hold = FALSE]
    <3>1. task[t].pc = "locking" /\ task[t].op # None /\ Entry[task[t].op] = "edit"
      BY <1>2, <2>7, <1>1, NoName, Entries DEF Acquire, At, InProgram, OpNames
    <3>2. task' = [task EXCEPT ![t] = r]
      BY <1>1, <1>2, <2>7, <3>1 DEF Acquire, emulator, observer, TaskType
    <3>3. r \in TaskType BY <1>1, <3>1 DEF TaskType, Labels, Outs
    <3>4. /\ r.pc = "edit" /\ r.op = task[t].op /\ r.ret = task[t].ret /\ r.out = "return"
          /\ r.hold = FALSE /\ r.bp = task[t].bp /\ r.res = task[t].res /\ r.late = task[t].late
          /\ r.since = task[t].since /\ r.rounds = task[t].rounds /\ r.clean = task[t].clean
      BY <1>1 DEF TaskType
    <3> HIDE DEF r
    <3>5. InProgram(r) BY <1>1, <2>7, <3>1, <3>4 DEF InProgram, WaitPcs, TracePcs, WithPcs
    <3>6. Told(r) BY <1>1, <2>7, <3>1, <3>4 DEF Told, Traces, HasTraced, WithPcs
    <3>7. Lawful(task[t], r, None)
      BY <1>1, <2>7, <3>1, <3>4, NoName
         DEF Lawful, Told, Excuses, Holds, Traces, HasTraced, WithPcs, Outcomes
    <3>8. Hears(t, r)
      BY <1>2, <2>7, <1>1, <3>1, <3>3, <3>4, StillHears, NoName
         DEF Acquire, emulator, observer, Outcomes
    <3>9. Drains(r) /\ Arms(t, r)
      BY <1>2, <2>7, <1>1, <3>1, <3>4
         DEF Acquire, emulator, observer, Drains, Arms, Traces, WithPcs
    <3>10. Moves(t, r, None)
      BY <1>2, <2>7, <3>2, <3>5, <3>6, <3>7, <3>1 DEF Acquire, emulator, observer, Moves
    <3> QED BY <3>3, <3>8, <3>9, <3>10 DEF Shape
  <2> QED
    BY <2>1, <2>2, <2>3, <2>4, <2>5, <2>6, <2>7, <1>2, <1>1
       DEF Acquire, At, InProgram, OpNames
<1>3. CASE Return(t)
  <2>1. CASE task[t].res = None
    <3> DEFINE r == [task[t] EXCEPT !.pc = "done", !.res = task[t].op]
    <3>1. /\ task[t].pc = "return" /\ task[t].op # None
          /\ task[t].op \notin {"wait", "trace", "stats"}
      BY <1>3, <2>1, <1>1, NoName
         DEF Return, At, InProgram, Told, WaitPcs, TracePcs, WithPcs, OpNames, Outcomes
    <3>2. task' = [task EXCEPT ![t] = r]
      BY <1>1, <1>3, <2>1, <3>1 DEF Return, End, emulator, observer, TaskType
    <3>3. r \in TaskType
      <4>1. "done" \in Labels BY DEF Labels
      <4> QED BY <1>1, <2>1, <3>1, <4>1 DEF TaskType
    <3>4. /\ r.pc = "done" /\ r.op = task[t].op /\ r.ret = task[t].ret /\ r.out = task[t].out
          /\ r.hold = task[t].hold /\ r.bp = task[t].bp /\ r.res = task[t].op /\ r.late = task[t].late
          /\ r.since = task[t].since /\ r.rounds = task[t].rounds /\ r.clean = task[t].clean
      BY <1>1 DEF TaskType
    <3> HIDE DEF r
    <3>5. InProgram(r) BY <1>1, <2>1, <3>1, <3>4 DEF InProgram, WaitPcs, TracePcs, WithPcs
    <3>6. Told(r) BY <1>1, <2>1, <3>1, <3>4 DEF Told, Traces, HasTraced, WithPcs
    <3>7. Lawful(task[t], r, None)
      BY <1>1, <2>1, <3>1, <3>4, NoName
         DEF Lawful, Told, Excuses, Holds, Traces, HasTraced, WithPcs, Outcomes
    <3>8. Hears(t, r)
      BY <1>3, <2>1, <1>1, <3>1, <3>3, <3>4, Hearing, Keeping, NoName
         DEF Return, End, emulator, observer, Hears, Subscribers, OpNames, Outcomes
    <3>9. Drains(r) /\ Arms(t, r)
      BY <1>3, <2>1, <1>1, <3>1, <3>4
         DEF Return, End, emulator, observer, Drains, Arms, Traces, WithPcs
    <3>10. Moves(t, r, None)
      BY <1>3, <2>1, <3>2, <3>5, <3>6, <3>7, <3>1 DEF Return, End, emulator, observer, Moves
    <3> QED BY <3>3, <3>8, <3>9, <3>10 DEF Shape
  <2>2. CASE task[t].res # None
    <3> DEFINE r == [task[t] EXCEPT !.pc = "done", !.res = task[t].res]
    <3>1. /\ task[t].pc = "return"
          /\ task[t].op \notin {"wait", "stats"}
          /\ task[t].op = "trace" => task[t].res \in {"trace failed", "left paused", "resume failed"}
      BY <1>3, <2>2, <1>1 DEF Return, At, InProgram, Told, WaitPcs, TracePcs, WithPcs
    <3>2. task' = [task EXCEPT ![t] = r]
      BY <1>1, <1>3, <2>2, <3>1 DEF Return, End, emulator, observer, TaskType
    <3>3. r \in TaskType BY <1>1, <2>2, <3>1 DEF TaskType, Labels
    <3>4. /\ r.pc = "done" /\ r.op = task[t].op /\ r.ret = task[t].ret /\ r.out = task[t].out
          /\ r.hold = task[t].hold /\ r.bp = task[t].bp /\ r.res = task[t].res /\ r.late = task[t].late
          /\ r.since = task[t].since /\ r.rounds = task[t].rounds /\ r.clean = task[t].clean
      BY <1>1 DEF TaskType
    <3> HIDE DEF r
    <3>5. InProgram(r) BY <1>1, <2>2, <3>1, <3>4 DEF InProgram, WaitPcs, TracePcs, WithPcs
    <3>6. Told(r) BY <1>1, <2>2, <3>1, <3>4 DEF Told, Traces, HasTraced, WithPcs
    <3>7. Lawful(task[t], r, None)
      BY <1>1, <2>2, <3>1, <3>4, NoName
         DEF Lawful, Told, Excuses, Holds, Traces, HasTraced, WithPcs, Outcomes
    <3>8. Hears(t, r)
      BY <1>3, <2>2, <1>1, <3>1, <3>3, <3>4, Hearing, Keeping, NoName
         DEF Return, End, emulator, observer, Hears, Subscribers, OpNames, Outcomes
    <3>9. Drains(r) /\ Arms(t, r)
      BY <1>3, <2>2, <1>1, <3>1, <3>4
         DEF Return, End, emulator, observer, Drains, Arms, Traces, WithPcs
    <3>10. Moves(t, r, None)
      BY <1>3, <2>2, <3>2, <3>5, <3>6, <3>7, <3>1 DEF Return, End, emulator, observer, Moves
    <3> QED BY <3>3, <3>8, <3>9, <3>10 DEF Shape
  <2> QED BY <2>1, <2>2, <1>3 DEF Return
<1>4. CASE PauseTimesOut(t)
  <2>1. CASE task[t].out = "return"
    <3> DEFINE r == [task[t] EXCEPT !.pc = "done", !.res = "pause failed"]
    <3>1. /\ task[t].pc = "pausing"
          /\ task[t].op = "trace" => task[t].out = "disarm"
      BY <1>4, <2>1, <1>1 DEF PauseTimesOut, At, InProgram, WaitPcs, TracePcs, WithPcs
    <3>2. task' = [task EXCEPT ![t] = r]
      BY <1>1, <1>4, <2>1, <3>1 DEF PauseTimesOut, End, emulator, observer, Goto, TaskType
    <3>3. r \in TaskType BY <1>1, <2>1, <3>1 DEF TaskType, Labels, OpNames, Outcomes
    <3>4. /\ r.pc = "done" /\ r.op = task[t].op /\ r.ret = task[t].ret /\ r.out = task[t].out
          /\ r.hold = task[t].hold /\ r.bp = task[t].bp /\ r.res = "pause failed" /\ r.late = task[t].late
          /\ r.since = task[t].since /\ r.rounds = task[t].rounds /\ r.clean = task[t].clean
      BY <1>1 DEF TaskType
    <3> HIDE DEF r
    <3>5. InProgram(r) BY <1>1, <2>1, <3>1, <3>4 DEF InProgram, WaitPcs, TracePcs, WithPcs
    <3>6. Told(r) BY <1>1, <2>1, <3>1, <3>4 DEF Told, Traces, HasTraced, WithPcs
    <3>7. Lawful(task[t], r, None)
      BY <1>1, <2>1, <3>1, <3>4, NoName
         DEF Lawful, Told, Excuses, Holds, Traces, HasTraced, WithPcs, Outcomes
    <3>8. Hears(t, r)
      BY <1>4, <2>1, <1>1, <3>1, <3>3, <3>4, Hearing, Keeping, NoName
         DEF PauseTimesOut, End, emulator, observer, Goto, Hears, Subscribers, OpNames,
             Outcomes
    <3>9. Drains(r) /\ Arms(t, r)
      BY <1>4, <2>1, <1>1, <3>1, <3>4
         DEF PauseTimesOut, End, emulator, observer, Goto, Drains, Arms, Traces, WithPcs
    <3>10. Moves(t, r, None)
      BY <1>4, <2>1, <3>2, <3>5, <3>6, <3>7, <3>1
         DEF PauseTimesOut, End, emulator, observer, Goto, Moves
    <3> QED BY <3>3, <3>8, <3>9, <3>10 DEF Shape
  <2>2. CASE task[t].out = "verdict"
    <3> DEFINE r == [task[t] EXCEPT !.pc = "surface", !.late = TRUE]
    <3>1. /\ task[t].pc = "pausing" /\ task[t].op = "wait"
          /\ task[t].op = "trace" => task[t].out = "disarm"
      BY <1>4, <2>2, <1>1
         DEF PauseTimesOut, At, InProgram, WaitPcs, TracePcs, WithPcs, OpNames
    <3>2. task' = [task EXCEPT ![t] = r]
      BY <1>1, <1>4, <2>2, <3>1 DEF PauseTimesOut, End, emulator, observer, Goto, TaskType
    <3>3. r \in TaskType BY <1>1, <3>1 DEF TaskType, Labels
    <3>4. /\ r.pc = "surface" /\ r.op = task[t].op /\ r.ret = task[t].ret /\ r.out = task[t].out
          /\ r.hold = task[t].hold /\ r.bp = task[t].bp /\ r.res = task[t].res /\ r.late = TRUE
          /\ r.since = task[t].since /\ r.rounds = task[t].rounds /\ r.clean = task[t].clean
      BY <1>1 DEF TaskType
    <3> HIDE DEF r
    <3>5. InProgram(r) BY <1>1, <2>2, <3>1, <3>4 DEF InProgram, WaitPcs, TracePcs, WithPcs
    <3>6. Told(r) BY <1>1, <2>2, <3>1, <3>4 DEF Told, Traces, HasTraced, WithPcs
    <3>7. Lawful(task[t], r, None)
      BY <1>1, <2>2, <3>1, <3>4, NoName
         DEF Lawful, Told, Excuses, Holds, Traces, HasTraced, WithPcs, Outcomes
    <3>8. Hears(t, r)
      <4>1. subs' = subs BY <1>4, <2>2 DEF PauseTimesOut, End
      <4> QED BY <1>1, <3>1, <3>3, <3>4, <4>1, StillHears, NoName DEF OpNames, Outcomes
    <3>9. Drains(r) /\ Arms(t, r)
      BY <1>4, <2>2, <1>1, <3>1, <3>4
         DEF PauseTimesOut, End, emulator, observer, Goto, Drains, Arms, Traces, WithPcs
    <3>10. Moves(t, r, None)
      BY <1>4, <2>2, <3>2, <3>5, <3>6, <3>7, <3>1
         DEF PauseTimesOut, End, emulator, observer, Goto, Moves
    <3> QED BY <3>3, <3>8, <3>9, <3>10 DEF Shape
  <2>3. CASE task[t].out \notin {"return", "verdict"}
    <3> DEFINE r == [task[t] EXCEPT !.pc = "failed", !.late = TRUE]
    <3>1. task[t].pc = "pausing" /\ task[t].op = "trace" /\ task[t].out = "disarm"
      BY <1>4, <2>3, <1>1
         DEF PauseTimesOut, At, InProgram, WaitPcs, TracePcs, WithPcs
    <3>2. task' = [task EXCEPT ![t] = r]
      BY <1>1, <1>4, <2>3, <3>1 DEF PauseTimesOut, End, emulator, observer, Goto, TaskType
    <3>3. r \in TaskType BY <1>1, <3>1 DEF TaskType, Labels, Outs
    <3>4. /\ r.pc = "failed" /\ r.op = task[t].op /\ r.ret = task[t].ret /\ r.out = task[t].out
          /\ r.hold = task[t].hold /\ r.bp = task[t].bp /\ r.res = task[t].res /\ r.late = TRUE
          /\ r.since = task[t].since /\ r.rounds = task[t].rounds /\ r.clean = task[t].clean
      BY <1>1 DEF TaskType
    <3> HIDE DEF r
    <3>5. InProgram(r) BY <1>1, <2>3, <3>1, <3>3, WayOut, <3>4
    <3>6. Told(r) BY <1>1, <2>3, <3>1, <3>4 DEF Told, Traces, HasTraced, WithPcs, Outs
    <3>7. Lawful(task[t], r, None)
      BY <1>1, <2>3, <3>1, <3>4, NoName
         DEF Lawful, Told, Excuses, Holds, Traces, HasTraced, WithPcs, Outcomes, Outs
    <3>8. Hears(t, r)
      BY <1>4, <2>3, <1>1, <3>1, <3>3, <3>4, Hearing, Keeping, NoName
         DEF PauseTimesOut, End, emulator, observer, Goto, Hears, Subscribers, OpNames,
             Outcomes
    <3>9. Drains(r) /\ Arms(t, r)
      BY <1>4, <2>3, <1>1, <3>1, <3>4
         DEF PauseTimesOut, End, emulator, observer, Goto, Drains, Arms, Traces, WithPcs,
             Outs
    <3>10. Moves(t, r, None)
      BY <1>4, <2>3, <3>2, <3>5, <3>6, <3>7, <3>1
         DEF PauseTimesOut, End, emulator, observer, Goto, Moves
    <3> QED BY <3>3, <3>8, <3>9, <3>10 DEF Shape
  <2> QED BY <2>1, <2>2, <2>3, <1>4 DEF PauseTimesOut
<1> QED BY <1>2, <1>3, <1>4

\* The step methods, the entry of the snapshot tool, and a cancellation.
LEMMA StepShape ==
    ASSUME TypeInv, NEW t \in Tasks, UNCHANGED filters,
           Prepare(t) \/ Fire(t) \/ Confirm(t) \/ ConfirmTimesOut(t) \/ CancelCpu(t)
    PROVE  Shape(t)
<1>1. /\ task \in [Tasks -> TaskType] /\ task[t] \in TaskType
      /\ InProgram(task[t]) /\ Told(task[t])
      /\ armed \subseteq Bps \cup {Until} /\ filters \subseteq Bps /\ lock \in Tasks \cup {None}
      /\ cpu.ticks \in Nat /\ task[t].rounds \in Nat /\ task[t].rounds + 1 \in Nat
  BY TaskTyped DEF TaskType
<1>2. CASE Prepare(t)
  <2>1. CASE cpu.stepping /\ task[t].op = "snapshot"
    <3> DEFINE r == [task[t] EXCEPT !.pc = "body", !.since = cpu.ticks]
    <3>1. /\ task[t].pc = "prepare" /\ task[t].op # None
          /\ task[t].op \in {"snapshot", "step", "until"}
      BY <1>2, <2>1, <1>1, NoName DEF Prepare, At, InProgram, OpNames
    <3>2. task' = [task EXCEPT ![t] = r]
      BY <1>1, <1>2, <2>1, <3>1 DEF Prepare, Send, observer, TaskType
    <3>3. r \in TaskType BY <1>1, <3>1 DEF TaskType, Labels
    <3>4. /\ r.pc = "body" /\ r.op = task[t].op /\ r.ret = task[t].ret /\ r.out = task[t].out
          /\ r.hold = task[t].hold /\ r.bp = task[t].bp /\ r.res = task[t].res /\ r.late = task[t].late
          /\ r.since = cpu.ticks /\ r.rounds = task[t].rounds /\ r.clean = task[t].clean
      BY <1>1 DEF TaskType
    <3> HIDE DEF r
    <3>5. InProgram(r) BY <1>1, <2>1, <3>1, <3>4 DEF InProgram, WaitPcs, TracePcs, WithPcs
    <3>6. Told(r) BY <1>1, <2>1, <3>1, <3>4 DEF Told, Traces, HasTraced, WithPcs
    <3>7. Lawful(task[t], r, None)
      BY <1>1, <2>1, <3>1, <3>4, NoName
         DEF Lawful, Told, Excuses, Holds, Traces, HasTraced, WithPcs, Outcomes
    <3>8. Hears(t, r)
      BY <1>2, <2>1, <1>1, <3>1, <3>3, <3>4, StillHears, NoName
         DEF Prepare, Send, observer, Outcomes
    <3>9. Drains(r) /\ Arms(t, r)
      BY <1>2, <2>1, <1>1, <3>1, <3>4
         DEF Prepare, Send, observer, Drains, Arms, Traces, WithPcs
    <3>10. Moves(t, r, None)
      BY <1>2, <2>1, <3>2, <3>5, <3>6, <3>7, <3>1 DEF Prepare, Send, observer, Moves
    <3> QED BY <3>3, <3>8, <3>9, <3>10 DEF Shape
  <2>2. CASE cpu.stepping /\ task[t].op # "snapshot"
    <3> DEFINE r == [task[t] EXCEPT !.pc = "fire", !.since = cpu.ticks]
    <3>1. /\ task[t].pc = "prepare" /\ task[t].op # None
          /\ task[t].op \in {"snapshot", "step", "until"}
      BY <1>2, <2>2, <1>1, NoName DEF Prepare, At, InProgram, OpNames
    <3>2. task' = [task EXCEPT ![t] = r]
      BY <1>1, <1>2, <2>2, <3>1 DEF Prepare, Send, observer, TaskType
    <3>3. r \in TaskType BY <1>1, <3>1 DEF TaskType, Labels
    <3>4. /\ r.pc = "fire" /\ r.op = task[t].op /\ r.ret = task[t].ret /\ r.out = task[t].out
          /\ r.hold = task[t].hold /\ r.bp = task[t].bp /\ r.res = task[t].res /\ r.late = task[t].late
          /\ r.since = cpu.ticks /\ r.rounds = task[t].rounds /\ r.clean = task[t].clean
      BY <1>1 DEF TaskType
    <3> HIDE DEF r
    <3>5. InProgram(r) BY <1>1, <2>2, <3>1, <3>4 DEF InProgram, WaitPcs, TracePcs, WithPcs
    <3>6. Told(r) BY <1>1, <2>2, <3>1, <3>4 DEF Told, Traces, HasTraced, WithPcs
    <3>7. Lawful(task[t], r, None)
      BY <1>1, <2>2, <3>1, <3>4, NoName
         DEF Lawful, Told, Excuses, Holds, Traces, HasTraced, WithPcs, Outcomes
    <3>8. Hears(t, r)
      BY <1>2, <2>2, <1>1, <3>1, <3>3, <3>4, StillHears, NoName
         DEF Prepare, Send, observer, Outcomes
    <3>9. Drains(r) /\ Arms(t, r)
      BY <1>2, <2>2, <1>1, <3>1, <3>4
         DEF Prepare, Send, observer, Drains, Arms, Traces, WithPcs
    <3>10. Moves(t, r, None)
      BY <1>2, <2>2, <3>2, <3>5, <3>6, <3>7, <3>1 DEF Prepare, Send, observer, Moves
    <3> QED BY <3>3, <3>8, <3>9, <3>10 DEF Shape
  <2>3. CASE ~cpu.stepping /\ task[t].op = "snapshot"
    <3> DEFINE r == [task[t] EXCEPT !.pc = "pausing", !.ret = "body", !.hold = TRUE]
               e == "cpu.stepping"
    <3>1. /\ task[t].pc = "prepare" /\ task[t].op # None
          /\ task[t].op \in {"snapshot", "step", "until"}
      BY <1>2, <2>3, <1>1, NoName DEF Prepare, At, InProgram, OpNames
    <3>2. task' = [task EXCEPT ![t] = r]
      BY <1>1, <1>2, <2>3, <3>1 DEF Prepare, Send, observer, TaskType
    <3>3. r \in TaskType BY <1>1, <3>1 DEF TaskType, Labels
    <3>4. /\ r.pc = "pausing" /\ r.op = task[t].op /\ r.ret = "body" /\ r.out = task[t].out
          /\ r.hold = TRUE /\ r.bp = task[t].bp /\ r.res = task[t].res /\ r.late = task[t].late
          /\ r.since = task[t].since /\ r.rounds = task[t].rounds /\ r.clean = task[t].clean
      BY <1>1 DEF TaskType
    <3> HIDE DEF r
    <3>5. InProgram(r) BY <1>1, <2>3, <3>1, <3>4 DEF InProgram, WaitPcs, TracePcs, WithPcs
    <3>6. Told(r) BY <1>1, <2>3, <3>1, <3>4 DEF Told, Traces, HasTraced, WithPcs
    <3>7. Lawful(task[t], r, e)
      BY <1>1, <2>3, <3>1, <3>4, NoName
         DEF Lawful, Told, Excuses, Holds, Traces, HasTraced, WithPcs, Outcomes
    <3>8. Hears(t, r)
      BY <1>2, <2>3, <1>1, <3>1, <3>3, <3>4, StillHears, NoName
         DEF Prepare, Send, observer, Outcomes
    <3>9. Drains(r) /\ Arms(t, r)
      BY <1>2, <2>3, <1>1, <3>1, <3>4
         DEF Prepare, Send, observer, Drains, Arms, Traces, WithPcs
    <3>10. Moves(t, r, e)
      BY <1>2, <2>3, <3>2, <3>5, <3>6, <3>7, <3>1, NoName
         DEF Prepare, Send, observer, Moves, Events
    <3> QED BY <3>3, <3>8, <3>9, <3>10 DEF Shape, Events
  <2>4. CASE ~cpu.stepping /\ task[t].op # "snapshot"
    <3> DEFINE r == [task[t] EXCEPT !.pc = "pausing", !.ret = "prepare", !.hold = FALSE]
               e == "cpu.stepping"
    <3>1. /\ task[t].pc = "prepare" /\ task[t].op # None
          /\ task[t].op \in {"snapshot", "step", "until"}
      BY <1>2, <2>4, <1>1, NoName DEF Prepare, At, InProgram, OpNames
    <3>2. task' = [task EXCEPT ![t] = r]
      BY <1>1, <1>2, <2>4, <3>1 DEF Prepare, Send, observer, TaskType
    <3>3. r \in TaskType BY <1>1, <3>1 DEF TaskType, Labels
    <3>4. /\ r.pc = "pausing" /\ r.op = task[t].op /\ r.ret = "prepare" /\ r.out = task[t].out
          /\ r.hold = FALSE /\ r.bp = task[t].bp /\ r.res = task[t].res /\ r.late = task[t].late
          /\ r.since = task[t].since /\ r.rounds = task[t].rounds /\ r.clean = task[t].clean
      BY <1>1 DEF TaskType
    <3> HIDE DEF r
    <3>5. InProgram(r) BY <1>1, <2>4, <3>1, <3>4 DEF InProgram, WaitPcs, TracePcs, WithPcs
    <3>6. Told(r) BY <1>1, <2>4, <3>1, <3>4 DEF Told, Traces, HasTraced, WithPcs
    <3>7. Lawful(task[t], r, e)
      BY <1>1, <2>4, <3>1, <3>4, NoName
         DEF Lawful, Told, Excuses, Holds, Traces, HasTraced, WithPcs, Outcomes
    <3>8. Hears(t, r)
      BY <1>2, <2>4, <1>1, <3>1, <3>3, <3>4, StillHears, NoName
         DEF Prepare, Send, observer, Outcomes
    <3>9. Drains(r) /\ Arms(t, r)
      BY <1>2, <2>4, <1>1, <3>1, <3>4
         DEF Prepare, Send, observer, Drains, Arms, Traces, WithPcs
    <3>10. Moves(t, r, e)
      BY <1>2, <2>4, <3>2, <3>5, <3>6, <3>7, <3>1, NoName
         DEF Prepare, Send, observer, Moves, Events
    <3> QED BY <3>3, <3>8, <3>9, <3>10 DEF Shape, Events
  <2> QED BY <2>1, <2>2, <2>3, <2>4, <1>2 DEF Prepare
<1>3. CASE Fire(t)
  <2>1. CASE task[t].op = "until"
    <3> DEFINE r == [task[t] EXCEPT !.pc = "confirm"]
               e == "cpu.runUntil"
    <3>1. /\ task[t].pc = "fire"
          /\ task[t].op \in {"step", "until"}
      BY <1>3, <2>1, <1>1 DEF Fire, At, InProgram
    <3>2. task' = [task EXCEPT ![t] = r]
      BY <1>1, <1>3, <2>1, <3>1 DEF Fire, Goto, Send, observer, TaskType
    <3>3. r \in TaskType BY <1>1, <3>1 DEF TaskType, Labels
    <3>4. /\ r.pc = "confirm" /\ r.op = task[t].op /\ r.ret = task[t].ret /\ r.out = task[t].out
          /\ r.hold = task[t].hold /\ r.bp = task[t].bp /\ r.res = task[t].res /\ r.late = task[t].late
          /\ r.since = task[t].since /\ r.rounds = task[t].rounds /\ r.clean = task[t].clean
      BY <1>1 DEF TaskType
    <3> HIDE DEF r
    <3>5. InProgram(r) BY <1>1, <2>1, <3>1, <3>4 DEF InProgram, WaitPcs, TracePcs, WithPcs
    <3>6. Told(r) BY <1>1, <2>1, <3>1, <3>4 DEF Told, Traces, HasTraced, WithPcs
    <3>7. Lawful(task[t], r, e)
      BY <1>1, <2>1, <3>1, <3>4, NoName
         DEF Lawful, Told, Excuses, Holds, Traces, HasTraced, WithPcs, Outcomes
    <3>8. Hears(t, r)
      BY <1>3, <2>1, <1>1, <3>1, <3>3, <3>4, StillHears, NoName
         DEF Fire, Goto, Send, observer, Outcomes
    <3>9. Drains(r) /\ Arms(t, r)
      BY <1>3, <2>1, <1>1, <3>1, <3>4
         DEF Fire, Goto, Send, observer, Drains, Arms, Traces, WithPcs
    <3>10. Moves(t, r, e)
      BY <1>3, <2>1, <3>2, <3>5, <3>6, <3>7, <3>1, NoName
         DEF Fire, Goto, Send, observer, Moves, Events
    <3> QED BY <3>3, <3>8, <3>9, <3>10 DEF Shape, Events
  <2>2. CASE task[t].op # "until"
    <3> DEFINE r == [task[t] EXCEPT !.pc = "confirm"]
               e == "cpu.stepInto"
    <3>1. /\ task[t].pc = "fire"
          /\ task[t].op \in {"step", "until"}
      BY <1>3, <2>2, <1>1 DEF Fire, At, InProgram
    <3>2. task' = [task EXCEPT ![t] = r]
      BY <1>1, <1>3, <2>2, <3>1 DEF Fire, Goto, Send, observer, TaskType
    <3>3. r \in TaskType BY <1>1, <3>1 DEF TaskType, Labels
    <3>4. /\ r.pc = "confirm" /\ r.op = task[t].op /\ r.ret = task[t].ret /\ r.out = task[t].out
          /\ r.hold = task[t].hold /\ r.bp = task[t].bp /\ r.res = task[t].res /\ r.late = task[t].late
          /\ r.since = task[t].since /\ r.rounds = task[t].rounds /\ r.clean = task[t].clean
      BY <1>1 DEF TaskType
    <3> HIDE DEF r
    <3>5. InProgram(r) BY <1>1, <2>2, <3>1, <3>4 DEF InProgram, WaitPcs, TracePcs, WithPcs
    <3>6. Told(r) BY <1>1, <2>2, <3>1, <3>4 DEF Told, Traces, HasTraced, WithPcs
    <3>7. Lawful(task[t], r, e)
      BY <1>1, <2>2, <3>1, <3>4, NoName
         DEF Lawful, Told, Excuses, Holds, Traces, HasTraced, WithPcs, Outcomes
    <3>8. Hears(t, r)
      BY <1>3, <2>2, <1>1, <3>1, <3>3, <3>4, StillHears, NoName
         DEF Fire, Goto, Send, observer, Outcomes
    <3>9. Drains(r) /\ Arms(t, r)
      BY <1>3, <2>2, <1>1, <3>1, <3>4
         DEF Fire, Goto, Send, observer, Drains, Arms, Traces, WithPcs
    <3>10. Moves(t, r, e)
      BY <1>3, <2>2, <3>2, <3>5, <3>6, <3>7, <3>1, NoName
         DEF Fire, Goto, Send, observer, Moves, Events
    <3> QED BY <3>3, <3>8, <3>9, <3>10 DEF Shape, Events
  <2> QED BY <2>1, <2>2, <1>3 DEF Fire
<1>4. CASE Confirm(t)
  <2>1. CASE task' = [task EXCEPT ![t].pc = "return", ![t].res = "stepped", ![t].at = Head(stepQ).at] /\ UNCHANGED cmds
    <3> DEFINE r == [task[t] EXCEPT !.pc = "return", !.res = "stepped", !.at = Head(stepQ).at]
    <3>1. /\ task[t].pc = "confirm" /\ task[t].op # None /\ Head(stepQ).at \in Nat
          /\ task[t].op \in {"step", "until"}
      BY <1>4, <2>1, <1>1, NoName, Taken
         DEF Confirm, At, InProgram, OpNames, Subscribers, Broadcasts
    <3>2. task' = [task EXCEPT ![t] = r]
      BY <1>1, <1>4, <2>1, <3>1 DEF Confirm, Send, observer, TaskType
    <3>3. r \in TaskType BY <1>1, <2>1, <3>1 DEF TaskType, Labels, OpNames, Outcomes
    <3>4. /\ r.pc = "return" /\ r.op = task[t].op /\ r.ret = task[t].ret /\ r.out = task[t].out
          /\ r.hold = task[t].hold /\ r.bp = task[t].bp /\ r.res = "stepped" /\ r.late = task[t].late
          /\ r.since = task[t].since /\ r.rounds = task[t].rounds /\ r.clean = task[t].clean
      BY <1>1 DEF TaskType
    <3> HIDE DEF r
    <3>5. InProgram(r) BY <1>1, <2>1, <3>1, <3>4 DEF InProgram, WaitPcs, TracePcs, WithPcs
    <3>6. Told(r) BY <1>1, <2>1, <3>1, <3>4 DEF Told, Traces, HasTraced, WithPcs
    <3>7. Lawful(task[t], r, None)
      BY <1>1, <2>1, <3>1, <3>4, NoName
         DEF Lawful, Told, Excuses, Holds, Traces, HasTraced, WithPcs, Outcomes
    <3>8. Hears(t, r)
      BY <1>4, <2>1, <1>1, <3>1, <3>3, <3>4, StillHears, NoName
         DEF Confirm, Send, observer, Outcomes
    <3>9. Drains(r) /\ Arms(t, r)
      BY <1>4, <2>1, <1>1, <3>1, <3>4
         DEF Confirm, Send, observer, Drains, Arms, Traces, WithPcs
    <3>10. Moves(t, r, None)
      BY <1>4, <2>1, <3>2, <3>5, <3>6, <3>7, <3>1 DEF Confirm, Send, observer, Moves
    <3> QED BY <3>3, <3>8, <3>9, <3>10 DEF Shape
  <2>2. CASE task' = [task EXCEPT ![t].pc = "return", ![t].res = "bad frame", ![t].at = Head(stepQ).at] /\ UNCHANGED cmds
    <3> DEFINE r == [task[t] EXCEPT !.pc = "return", !.res = "bad frame", !.at = Head(stepQ).at]
    <3>1. /\ task[t].pc = "confirm" /\ task[t].op # None /\ Head(stepQ).at \in Nat
          /\ task[t].op \in {"step", "until"}
      BY <1>4, <2>2, <1>1, NoName, Taken
         DEF Confirm, At, InProgram, OpNames, Subscribers, Broadcasts
    <3>2. task' = [task EXCEPT ![t] = r]
      BY <1>1, <1>4, <2>2, <3>1 DEF Confirm, Send, observer, TaskType
    <3>3. r \in TaskType BY <1>1, <2>2, <3>1 DEF TaskType, Labels, OpNames, Outcomes
    <3>4. /\ r.pc = "return" /\ r.op = task[t].op /\ r.ret = task[t].ret /\ r.out = task[t].out
          /\ r.hold = task[t].hold /\ r.bp = task[t].bp /\ r.res = "bad frame" /\ r.late = task[t].late
          /\ r.since = task[t].since /\ r.rounds = task[t].rounds /\ r.clean = task[t].clean
      BY <1>1 DEF TaskType
    <3> HIDE DEF r
    <3>5. InProgram(r) BY <1>1, <2>2, <3>1, <3>4 DEF InProgram, WaitPcs, TracePcs, WithPcs
    <3>6. Told(r) BY <1>1, <2>2, <3>1, <3>4 DEF Told, Traces, HasTraced, WithPcs
    <3>7. Lawful(task[t], r, None)
      BY <1>1, <2>2, <3>1, <3>4, NoName
         DEF Lawful, Told, Excuses, Holds, Traces, HasTraced, WithPcs, Outcomes
    <3>8. Hears(t, r)
      BY <1>4, <2>2, <1>1, <3>1, <3>3, <3>4, StillHears, NoName
         DEF Confirm, Send, observer, Outcomes
    <3>9. Drains(r) /\ Arms(t, r)
      BY <1>4, <2>2, <1>1, <3>1, <3>4
         DEF Confirm, Send, observer, Drains, Arms, Traces, WithPcs
    <3>10. Moves(t, r, None)
      BY <1>4, <2>2, <3>2, <3>5, <3>6, <3>7, <3>1 DEF Confirm, Send, observer, Moves
    <3> QED BY <3>3, <3>8, <3>9, <3>10 DEF Shape
  <2>3. CASE UNCHANGED <<task, cmds>>
    <3> DEFINE r == task[t]
    <3>1. /\ task[t].pc = "confirm"
          /\ task[t].op \in {"step", "until"}
      BY <1>4, <2>3, <1>1 DEF Confirm, At, InProgram
    <3>2. task' = [task EXCEPT ![t] = r]
      BY <1>1, <1>4, <2>3, <3>1 DEF Confirm, Send, observer, TaskType
    <3>3. r \in TaskType BY <1>1, <3>1 DEF TaskType
    <3>4. /\ r.pc = task[t].pc /\ r.op = task[t].op /\ r.ret = task[t].ret /\ r.out = task[t].out
          /\ r.hold = task[t].hold /\ r.bp = task[t].bp /\ r.res = task[t].res /\ r.late = task[t].late
          /\ r.since = task[t].since /\ r.rounds = task[t].rounds /\ r.clean = task[t].clean
      BY <1>1 DEF TaskType
    <3> HIDE DEF r
    <3>5. InProgram(r) BY <1>1, <2>3, <3>1, <3>4 DEF InProgram, WaitPcs, TracePcs, WithPcs
    <3>6. Told(r) BY <1>1, <2>3, <3>1, <3>4 DEF Told, Traces, HasTraced, WithPcs
    <3>7. Lawful(task[t], r, None)
      BY <1>1, <2>3, <3>1, <3>4, NoName
         DEF Lawful, Told, Excuses, Holds, Traces, HasTraced, WithPcs, Outcomes
    <3>8. Hears(t, r)
      BY <1>4, <2>3, <1>1, <3>1, <3>3, <3>4, StillHears, NoName
         DEF Confirm, Send, observer, Outcomes
    <3>9. Drains(r) /\ Arms(t, r)
      BY <1>4, <2>3, <1>1, <3>1, <3>4
         DEF Confirm, Send, observer, Drains, Arms, Traces, WithPcs
    <3>10. Moves(t, r, None)
      BY <1>4, <2>3, <3>2, <3>5, <3>6, <3>7, <3>1 DEF Confirm, Send, observer, Moves
    <3> QED BY <3>3, <3>8, <3>9, <3>10 DEF Shape
  <2>4. CASE ~Advanced(t, Head(stepQ)) /\ task[t].op = "step" /\ task[t].rounds + 1 = MaxNoAdvance
    <3> DEFINE r == [task[t] EXCEPT !.pc = "return", !.rounds = task[t].rounds + 1, !.res = "no advance"]
    <3>1. /\ task[t].pc = "confirm" /\ task[t].op # None
          /\ task[t].op \in {"step", "until"}
      BY <1>4, <2>4, <1>1, NoName DEF Confirm, At, InProgram, OpNames
    <3>2. task' = [task EXCEPT ![t].rounds = @ + 1,
                            ![t].pc = IF task[t].rounds + 1 = MaxNoAdvance THEN "return" ELSE @,
                            ![t].res = IF task[t].rounds + 1 = MaxNoAdvance THEN "no advance" ELSE @]
      BY <1>4, <2>4, <3>1 DEF Confirm, Send, observer
    <3>3. task' = [task EXCEPT ![t] = r] BY <1>1, <2>4, <3>1, <3>2 DEF TaskType
    <3>4. r \in TaskType BY <1>1, <2>4, <3>1 DEF TaskType, Labels, OpNames, Outcomes
    <3>5. /\ r.pc = "return" /\ r.op = task[t].op /\ r.ret = task[t].ret /\ r.out = task[t].out
          /\ r.hold = task[t].hold /\ r.bp = task[t].bp /\ r.res = "no advance" /\ r.late = task[t].late
          /\ r.since = task[t].since /\ r.rounds = task[t].rounds + 1 /\ r.clean = task[t].clean
      BY <1>1 DEF TaskType
    <3> HIDE DEF r
    <3>6. InProgram(r) BY <1>1, <2>4, <3>1, <3>5 DEF InProgram, WaitPcs, TracePcs, WithPcs
    <3>7. Told(r) BY <1>1, <2>4, <3>1, <3>5 DEF Told, Traces, HasTraced, WithPcs
    <3>8. Lawful(task[t], r, None)
      BY <1>1, <2>4, <3>1, <3>5, NoName
         DEF Lawful, Told, Excuses, Holds, Traces, HasTraced, WithPcs, Outcomes
    <3>9. Hears(t, r)
      BY <1>4, <2>4, <1>1, <3>1, <3>4, <3>5, Hearing, Keeping, NoName
         DEF Confirm, Send, observer, Hears, Subscribers, OpNames, Outcomes
    <3>10. Drains(r) /\ Arms(t, r)
      BY <1>4, <2>4, <1>1, <3>1, <3>5
         DEF Confirm, Send, observer, Drains, Arms, Traces, WithPcs
    <3>11. Moves(t, r, None)
      BY <1>4, <2>4, <3>3, <3>6, <3>7, <3>8, <3>1 DEF Confirm, Send, observer, Moves
    <3> QED BY <3>4, <3>9, <3>10, <3>11 DEF Shape
  <2>5. CASE ~Advanced(t, Head(stepQ)) /\ task[t].op = "step" /\ task[t].rounds + 1 # MaxNoAdvance
    <3> DEFINE r == [task[t] EXCEPT !.rounds = task[t].rounds + 1]
               e == "cpu.stepInto"
    <3>1. /\ task[t].pc = "confirm" /\ task[t].op # None
          /\ task[t].op \in {"step", "until"}
      BY <1>4, <2>5, <1>1, NoName DEF Confirm, At, InProgram, OpNames
    <3>2. task' = [task EXCEPT ![t].rounds = @ + 1,
                            ![t].pc = IF task[t].rounds + 1 = MaxNoAdvance THEN "return" ELSE @,
                            ![t].res = IF task[t].rounds + 1 = MaxNoAdvance THEN "no advance" ELSE @]
      BY <1>4, <2>5, <3>1 DEF Confirm, Send, observer
    <3>3. task' = [task EXCEPT ![t] = r] BY <1>1, <2>5, <3>1, <3>2 DEF TaskType
    <3>4. r \in TaskType BY <1>1, <3>1 DEF TaskType
    <3>5. /\ r.pc = task[t].pc /\ r.op = task[t].op /\ r.ret = task[t].ret /\ r.out = task[t].out
          /\ r.hold = task[t].hold /\ r.bp = task[t].bp /\ r.res = task[t].res /\ r.late = task[t].late
          /\ r.since = task[t].since /\ r.rounds = task[t].rounds + 1 /\ r.clean = task[t].clean
      BY <1>1 DEF TaskType
    <3> HIDE DEF r
    <3>6. InProgram(r) BY <1>1, <2>5, <3>1, <3>5 DEF InProgram, WaitPcs, TracePcs, WithPcs
    <3>7. Told(r) BY <1>1, <2>5, <3>1, <3>5 DEF Told, Traces, HasTraced, WithPcs
    <3>8. Lawful(task[t], r, e)
      BY <1>1, <2>5, <3>1, <3>5, NoName
         DEF Lawful, Told, Excuses, Holds, Traces, HasTraced, WithPcs, Outcomes
    <3>9. Hears(t, r)
      BY <1>4, <2>5, <1>1, <3>1, <3>4, <3>5, Hearing, Keeping, NoName
         DEF Confirm, Send, observer, Hears, Subscribers, OpNames, Outcomes
    <3>10. Drains(r) /\ Arms(t, r)
      BY <1>4, <2>5, <1>1, <3>1, <3>5
         DEF Confirm, Send, observer, Drains, Arms, Traces, WithPcs
    <3>11. Moves(t, r, e)
      BY <1>4, <2>5, <3>3, <3>6, <3>7, <3>8, <3>1, NoName
         DEF Confirm, Send, observer, Moves, Events
    <3> QED BY <3>4, <3>9, <3>10, <3>11 DEF Shape, Events
  <2> QED BY <2>1, <2>2, <2>3, <2>4, <2>5, <1>4 DEF Confirm
<1>5. CASE ConfirmTimesOut(t)
  <2>1. CASE task[t].op = "step" /\ task[t].rounds = 0 /\ cpu.stepping
    <3> DEFINE r == [task[t] EXCEPT !.pc = "return", !.res = "polled"]
    <3>1. /\ task[t].pc = "confirm" /\ task[t].op # None
          /\ task[t].op \in {"step", "until"}
      BY <1>5, <2>1, <1>1, NoName DEF ConfirmTimesOut, At, InProgram, OpNames
    <3>2. task' = [task EXCEPT ![t] = r]
      BY <1>1, <1>5, <2>1, <3>1 DEF ConfirmTimesOut, emulator, observer, TaskType
    <3>3. r \in TaskType BY <1>1, <2>1, <3>1 DEF TaskType, Labels, OpNames, Outcomes
    <3>4. /\ r.pc = "return" /\ r.op = task[t].op /\ r.ret = task[t].ret /\ r.out = task[t].out
          /\ r.hold = task[t].hold /\ r.bp = task[t].bp /\ r.res = "polled" /\ r.late = task[t].late
          /\ r.since = task[t].since /\ r.rounds = task[t].rounds /\ r.clean = task[t].clean
      BY <1>1 DEF TaskType
    <3> HIDE DEF r
    <3>5. InProgram(r) BY <1>1, <2>1, <3>1, <3>4 DEF InProgram, WaitPcs, TracePcs, WithPcs
    <3>6. Told(r) BY <1>1, <2>1, <3>1, <3>4 DEF Told, Traces, HasTraced, WithPcs
    <3>7. Lawful(task[t], r, None)
      BY <1>1, <2>1, <3>1, <3>4, NoName
         DEF Lawful, Told, Excuses, Holds, Traces, HasTraced, WithPcs, Outcomes
    <3>8. Hears(t, r)
      BY <1>5, <2>1, <1>1, <3>1, <3>3, <3>4, StillHears, NoName
         DEF ConfirmTimesOut, emulator, observer, Outcomes
    <3>9. Drains(r) /\ Arms(t, r)
      BY <1>5, <2>1, <1>1, <3>1, <3>4
         DEF ConfirmTimesOut, emulator, observer, Drains, Arms, Traces, WithPcs
    <3>10. Moves(t, r, None)
      BY <1>5, <2>1, <3>2, <3>5, <3>6, <3>7, <3>1
         DEF ConfirmTimesOut, emulator, observer, Moves
    <3> QED BY <3>3, <3>8, <3>9, <3>10 DEF Shape
  <2>2. CASE ~(task[t].op = "step" /\ task[t].rounds = 0 /\ cpu.stepping)
    <3> DEFINE r == [task[t] EXCEPT !.pc = "return", !.res = "step timeout"]
    <3>1. /\ task[t].pc = "confirm" /\ task[t].op # None
          /\ task[t].op \in {"step", "until"}
      BY <1>5, <2>2, <1>1, NoName DEF ConfirmTimesOut, At, InProgram, OpNames
    <3>2. task' = [task EXCEPT ![t] = r]
      BY <1>1, <1>5, <2>2, <3>1 DEF ConfirmTimesOut, emulator, observer, TaskType
    <3>3. r \in TaskType BY <1>1, <2>2, <3>1 DEF TaskType, Labels, OpNames, Outcomes
    <3>4. /\ r.pc = "return" /\ r.op = task[t].op /\ r.ret = task[t].ret /\ r.out = task[t].out
          /\ r.hold = task[t].hold /\ r.bp = task[t].bp /\ r.res = "step timeout" /\ r.late = task[t].late
          /\ r.since = task[t].since /\ r.rounds = task[t].rounds /\ r.clean = task[t].clean
      BY <1>1 DEF TaskType
    <3> HIDE DEF r
    <3>5. InProgram(r) BY <1>1, <2>2, <3>1, <3>4 DEF InProgram, WaitPcs, TracePcs, WithPcs
    <3>6. Told(r) BY <1>1, <2>2, <3>1, <3>4 DEF Told, Traces, HasTraced, WithPcs
    <3>7. Lawful(task[t], r, None)
      BY <1>1, <2>2, <3>1, <3>4, NoName
         DEF Lawful, Told, Excuses, Holds, Traces, HasTraced, WithPcs, Outcomes
    <3>8. Hears(t, r)
      BY <1>5, <2>2, <1>1, <3>1, <3>3, <3>4, StillHears, NoName
         DEF ConfirmTimesOut, emulator, observer, Outcomes
    <3>9. Drains(r) /\ Arms(t, r)
      BY <1>5, <2>2, <1>1, <3>1, <3>4
         DEF ConfirmTimesOut, emulator, observer, Drains, Arms, Traces, WithPcs
    <3>10. Moves(t, r, None)
      BY <1>5, <2>2, <3>2, <3>5, <3>6, <3>7, <3>1
         DEF ConfirmTimesOut, emulator, observer, Moves
    <3> QED BY <3>3, <3>8, <3>9, <3>10 DEF Shape
  <2> QED BY <2>1, <2>2, <1>5 DEF ConfirmTimesOut
<1>6. CASE CancelCpu(t)
  <2>1. CASE At(t, "body") /\ task' = [task EXCEPT ![t].pc = "leave", ![t].res = "cancelled"] /\ UNCHANGED <<lock, subs>>
    <3> DEFINE r == [task[t] EXCEPT !.pc = "leave", !.res = "cancelled"]
    <3>1. /\ task[t].pc = "body"
          /\ task[t].op = "trace" => task[t].out = "disarm"
      BY <1>6, <2>1, <1>1 DEF CancelCpu, At, InProgram, WaitPcs, TracePcs, WithPcs
    <3>2. task' = [task EXCEPT ![t] = r]
      BY <1>1, <1>6, <2>1, <3>1 DEF CancelCpu, End, emulator, At, TaskType
    <3>3. r \in TaskType BY <1>1, <2>1, <3>1 DEF TaskType, Labels, OpNames, Outcomes
    <3>4. /\ r.pc = "leave" /\ r.op = task[t].op /\ r.ret = task[t].ret /\ r.out = task[t].out
          /\ r.hold = task[t].hold /\ r.bp = task[t].bp /\ r.res = "cancelled" /\ r.late = task[t].late
          /\ r.since = task[t].since /\ r.rounds = task[t].rounds /\ r.clean = task[t].clean
      BY <1>1 DEF TaskType
    <3> HIDE DEF r
    <3>5. InProgram(r) BY <1>1, <2>1, <3>1, <3>4 DEF InProgram, WaitPcs, TracePcs, WithPcs
    <3>6. Told(r) BY <1>1, <2>1, <3>1, <3>4 DEF Told, Traces, HasTraced, WithPcs
    <3>7. Lawful(task[t], r, None)
      BY <1>1, <2>1, <3>1, <3>4, NoName
         DEF Lawful, Told, Excuses, Holds, Traces, HasTraced, WithPcs, Outcomes
    <3>8. Hears(t, r)
      BY <1>6, <2>1, <1>1, <3>1, <3>3, <3>4, StillHears, NoName
         DEF CancelCpu, End, emulator, At, Outcomes
    <3>9. Drains(r) /\ Arms(t, r)
      BY <1>6, <2>1, <1>1, <3>1, <3>4
         DEF CancelCpu, End, emulator, At, Drains, Arms, Traces, WithPcs
    <3>10. Moves(t, r, None)
      BY <1>6, <2>1, <3>2, <3>5, <3>6, <3>7, <3>1 DEF CancelCpu, End, emulator, At, Moves
    <3> QED BY <3>3, <3>8, <3>9, <3>10 DEF Shape
  <2>2. CASE End(t, "abandoned")
    <3> DEFINE r == [task[t] EXCEPT !.pc = "done", !.res = "abandoned"]
    <3>1. task[t].op = "trace" /\ task[t].pc \in WithPcs => task[t].out = "return"
      BY <1>6, <2>2, <1>1 DEF CancelCpu, At, InProgram, WaitPcs, TracePcs, WithPcs
    <3>2. task' = [task EXCEPT ![t] = r]
      BY <1>1, <1>6, <2>2, <3>1 DEF CancelCpu, End, emulator, At, TaskType
    <3>3. r \in TaskType BY <1>1, <2>2, <3>1 DEF TaskType, Labels, OpNames, Outcomes
    <3>4. /\ r.pc = "done" /\ r.op = task[t].op /\ r.ret = task[t].ret /\ r.out = task[t].out
          /\ r.hold = task[t].hold /\ r.bp = task[t].bp /\ r.res = "abandoned" /\ r.late = task[t].late
          /\ r.since = task[t].since /\ r.rounds = task[t].rounds /\ r.clean = task[t].clean
      BY <1>1 DEF TaskType
    <3> HIDE DEF r
    <3>5. InProgram(r) BY <1>1, <2>2, <3>1, <3>4 DEF InProgram, WaitPcs, TracePcs, WithPcs
    <3>6. Told(r) BY <1>1, <2>2, <3>1, <3>4 DEF Told, Traces, HasTraced, WithPcs
    <3>7. Lawful(task[t], r, None)
      BY <1>1, <2>2, <3>1, <3>4, NoName
         DEF Lawful, Told, Excuses, Holds, Traces, HasTraced, WithPcs, Outcomes
    <3>8. Hears(t, r)
      BY <1>6, <2>2, <1>1, <3>1, <3>3, <3>4, Hearing, Keeping, NoName
         DEF CancelCpu, End, emulator, At, Hears, Subscribers, OpNames, Outcomes
    <3>9. Drains(r) /\ Arms(t, r)
      BY <1>6, <2>2, <1>1, <3>1, <3>4
         DEF CancelCpu, End, emulator, At, Drains, Arms, Traces, WithPcs
    <3>10. Moves(t, r, None)
      BY <1>6, <2>2, <3>2, <3>5, <3>6, <3>7, <3>1 DEF CancelCpu, End, emulator, At, Moves
    <3> QED BY <3>3, <3>8, <3>9, <3>10 DEF Shape
  <2> QED BY <2>1, <2>2, <1>6 DEF CancelCpu
<1> QED BY <1>2, <1>3, <1>4, <1>5, <1>6

\* The breakpoint tool.
LEMMA EditShape ==
    ASSUME TypeInv, NEW t \in Tasks, NEW b \in Bps,
           SetArm(t, b) \/ Update(t, b) \/ Remove(t, b) \/ TraceArm(t, b)
    PROVE  Shape(t)
<1>1. /\ task \in [Tasks -> TaskType] /\ task[t] \in TaskType
      /\ InProgram(task[t]) /\ Told(task[t])
      /\ armed \subseteq Bps \cup {Until} /\ filters \subseteq Bps /\ lock \in Tasks \cup {None}
      /\ cpu.ticks \in Nat /\ task[t].rounds \in Nat /\ task[t].rounds + 1 \in Nat
  BY TaskTyped DEF TaskType
<1>2. CASE SetArm(t, b)
  <2> DEFINE r == [task[t] EXCEPT !.pc = "register", !.bp = b]
  <2>1. /\ task[t].pc = "edit" /\ task[t].op = "set"
        /\ task[t].op \in {"set", "update", "remove"}
    BY <1>2, <1>1 DEF SetArm, At, InProgram
  <2>2. task' = [task EXCEPT ![t] = r] BY <1>1, <1>2, <2>1 DEF SetArm, observer, TaskType
  <2>3. r \in TaskType BY <1>1, <2>1 DEF TaskType, Labels, Bys
  <2>4. /\ r.pc = "register" /\ r.op = task[t].op /\ r.ret = task[t].ret /\ r.out = task[t].out
        /\ r.hold = task[t].hold /\ r.bp = b /\ r.res = task[t].res /\ r.late = task[t].late
        /\ r.since = task[t].since /\ r.rounds = task[t].rounds /\ r.clean = task[t].clean
    BY <1>1 DEF TaskType
  <2> HIDE DEF r
  <2>5. InProgram(r) BY <1>1, <2>1, <2>4 DEF InProgram, WaitPcs, TracePcs, WithPcs
  <2>6. Told(r) BY <1>1, <2>1, <2>4 DEF Told, Traces, HasTraced, WithPcs
  <2>7. Lawful(task[t], r, None)
    BY <1>1, <2>1, <2>4, NoName
       DEF Lawful, Told, Excuses, Holds, Traces, HasTraced, WithPcs, Outcomes
  <2>8. Hears(t, r)
    BY <1>2, <1>1, <2>1, <2>3, <2>4, StillHears, NoName
       DEF SetArm, observer, Outcomes
  <2>9. Drains(r) /\ Arms(t, r)
    BY <1>2, <1>1, <2>1, <2>4 DEF SetArm, observer, Drains, Arms, Traces, WithPcs
  <2>10. Moves(t, r, None)
    BY <1>2, <2>2, <2>5, <2>6, <2>7, <2>1 DEF SetArm, observer, Moves
  <2> QED BY <2>3, <2>8, <2>9, <2>10 DEF Shape
<1>3. CASE Update(t, b)
  <2>1. CASE b \in armed
    <3> DEFINE r == [task[t] EXCEPT !.pc = "register", !.bp = b]
    <3>1. /\ task[t].pc = "edit" /\ task[t].op = "update"
          /\ task[t].op \in {"set", "update", "remove"}
      BY <1>3, <2>1, <1>1 DEF Update, At, InProgram
    <3>2. task' = [task EXCEPT ![t] = r]
      BY <1>1, <1>3, <2>1, <3>1 DEF Update, observer, TaskType
    <3>3. r \in TaskType BY <1>1, <3>1 DEF TaskType, Labels, Bys
    <3>4. /\ r.pc = "register" /\ r.op = task[t].op /\ r.ret = task[t].ret /\ r.out = task[t].out
          /\ r.hold = task[t].hold /\ r.bp = b /\ r.res = task[t].res /\ r.late = task[t].late
          /\ r.since = task[t].since /\ r.rounds = task[t].rounds /\ r.clean = task[t].clean
      BY <1>1 DEF TaskType
    <3> HIDE DEF r
    <3>5. InProgram(r) BY <1>1, <2>1, <3>1, <3>4 DEF InProgram, WaitPcs, TracePcs, WithPcs
    <3>6. Told(r) BY <1>1, <2>1, <3>1, <3>4 DEF Told, Traces, HasTraced, WithPcs
    <3>7. Lawful(task[t], r, None)
      BY <1>1, <2>1, <3>1, <3>4, NoName
         DEF Lawful, Told, Excuses, Holds, Traces, HasTraced, WithPcs, Outcomes
    <3>8. Hears(t, r)
      BY <1>3, <2>1, <1>1, <3>1, <3>3, <3>4, StillHears, NoName
         DEF Update, observer, Outcomes
    <3>9. Drains(r) /\ Arms(t, r)
      BY <1>3, <2>1, <1>1, <3>1, <3>4 DEF Update, observer, Drains, Arms, Traces, WithPcs
    <3>10. Moves(t, r, None)
      BY <1>3, <2>1, <3>2, <3>5, <3>6, <3>7, <3>1 DEF Update, observer, Moves
    <3> QED BY <3>3, <3>8, <3>9, <3>10 DEF Shape
  <2>2. CASE b \notin armed
    <3> DEFINE r == [task[t] EXCEPT !.pc = "return", !.res = "no breakpoint"]
    <3>1. /\ task[t].pc = "edit" /\ task[t].op # None
          /\ task[t].op \in {"set", "update", "remove"}
      BY <1>3, <2>2, <1>1, NoName DEF Update, At, InProgram, OpNames
    <3>2. task' = [task EXCEPT ![t] = r]
      BY <1>1, <1>3, <2>2, <3>1 DEF Update, observer, TaskType
    <3>3. r \in TaskType BY <1>1, <2>2, <3>1 DEF TaskType, Labels, OpNames, Outcomes
    <3>4. /\ r.pc = "return" /\ r.op = task[t].op /\ r.ret = task[t].ret /\ r.out = task[t].out
          /\ r.hold = task[t].hold /\ r.bp = task[t].bp /\ r.res = "no breakpoint" /\ r.late = task[t].late
          /\ r.since = task[t].since /\ r.rounds = task[t].rounds /\ r.clean = task[t].clean
      BY <1>1 DEF TaskType
    <3> HIDE DEF r
    <3>5. InProgram(r) BY <1>1, <2>2, <3>1, <3>4 DEF InProgram, WaitPcs, TracePcs, WithPcs
    <3>6. Told(r) BY <1>1, <2>2, <3>1, <3>4 DEF Told, Traces, HasTraced, WithPcs
    <3>7. Lawful(task[t], r, None)
      BY <1>1, <2>2, <3>1, <3>4, NoName
         DEF Lawful, Told, Excuses, Holds, Traces, HasTraced, WithPcs, Outcomes
    <3>8. Hears(t, r)
      BY <1>3, <2>2, <1>1, <3>1, <3>3, <3>4, StillHears, NoName
         DEF Update, observer, Outcomes
    <3>9. Drains(r) /\ Arms(t, r)
      BY <1>3, <2>2, <1>1, <3>1, <3>4 DEF Update, observer, Drains, Arms, Traces, WithPcs
    <3>10. Moves(t, r, None)
      BY <1>3, <2>2, <3>2, <3>5, <3>6, <3>7, <3>1 DEF Update, observer, Moves
    <3> QED BY <3>3, <3>8, <3>9, <3>10 DEF Shape
  <2> QED BY <2>1, <2>2, <1>3 DEF Update
<1>4. CASE Remove(t, b)
  <2>1. CASE b \in armed
    <3> DEFINE r == [task[t] EXCEPT !.pc = "return"]
    <3>1. /\ task[t].pc = "edit" /\ task[t].op # None
          /\ task[t].op \in {"set", "update", "remove"}
      BY <1>4, <2>1, <1>1, NoName DEF Remove, At, InProgram, OpNames
    <3>2. task' = [task EXCEPT ![t] = r]
      BY <1>1, <1>4, <2>1, <3>1 DEF Remove, observer, Goto, TaskType
    <3>3. r \in TaskType BY <1>1, <3>1 DEF TaskType, Labels
    <3>4. /\ r.pc = "return" /\ r.op = task[t].op /\ r.ret = task[t].ret /\ r.out = task[t].out
          /\ r.hold = task[t].hold /\ r.bp = task[t].bp /\ r.res = task[t].res /\ r.late = task[t].late
          /\ r.since = task[t].since /\ r.rounds = task[t].rounds /\ r.clean = task[t].clean
      BY <1>1 DEF TaskType
    <3> HIDE DEF r
    <3>5. InProgram(r) BY <1>1, <2>1, <3>1, <3>4 DEF InProgram, WaitPcs, TracePcs, WithPcs
    <3>6. Told(r) BY <1>1, <2>1, <3>1, <3>4 DEF Told, Traces, HasTraced, WithPcs
    <3>7. Lawful(task[t], r, None)
      BY <1>1, <2>1, <3>1, <3>4, NoName
         DEF Lawful, Told, Excuses, Holds, Traces, HasTraced, WithPcs, Outcomes
    <3>8. Hears(t, r)
      BY <1>4, <2>1, <1>1, <3>1, <3>3, <3>4, StillHears, NoName
         DEF Remove, observer, Goto, Outcomes
    <3>9. Drains(r) /\ Arms(t, r)
      BY <1>4, <2>1, <1>1, <3>1, <3>4
         DEF Remove, observer, Goto, Drains, Arms, Traces, WithPcs
    <3>10. Moves(t, r, None)
      BY <1>4, <2>1, <3>2, <3>5, <3>6, <3>7, <3>1 DEF Remove, observer, Goto, Moves
    <3> QED BY <3>3, <3>8, <3>9, <3>10 DEF Shape
  <2>2. CASE b \notin armed
    <3> DEFINE r == [task[t] EXCEPT !.pc = "return", !.res = "no breakpoint"]
    <3>1. /\ task[t].pc = "edit" /\ task[t].op # None
          /\ task[t].op \in {"set", "update", "remove"}
      BY <1>4, <2>2, <1>1, NoName DEF Remove, At, InProgram, OpNames
    <3>2. task' = [task EXCEPT ![t] = r]
      BY <1>1, <1>4, <2>2, <3>1 DEF Remove, observer, Goto, TaskType
    <3>3. r \in TaskType BY <1>1, <2>2, <3>1 DEF TaskType, Labels, OpNames, Outcomes
    <3>4. /\ r.pc = "return" /\ r.op = task[t].op /\ r.ret = task[t].ret /\ r.out = task[t].out
          /\ r.hold = task[t].hold /\ r.bp = task[t].bp /\ r.res = "no breakpoint" /\ r.late = task[t].late
          /\ r.since = task[t].since /\ r.rounds = task[t].rounds /\ r.clean = task[t].clean
      BY <1>1 DEF TaskType
    <3> HIDE DEF r
    <3>5. InProgram(r) BY <1>1, <2>2, <3>1, <3>4 DEF InProgram, WaitPcs, TracePcs, WithPcs
    <3>6. Told(r) BY <1>1, <2>2, <3>1, <3>4 DEF Told, Traces, HasTraced, WithPcs
    <3>7. Lawful(task[t], r, None)
      BY <1>1, <2>2, <3>1, <3>4, NoName
         DEF Lawful, Told, Excuses, Holds, Traces, HasTraced, WithPcs, Outcomes
    <3>8. Hears(t, r)
      BY <1>4, <2>2, <1>1, <3>1, <3>3, <3>4, StillHears, NoName
         DEF Remove, observer, Goto, Outcomes
    <3>9. Drains(r) /\ Arms(t, r)
      BY <1>4, <2>2, <1>1, <3>1, <3>4
         DEF Remove, observer, Goto, Drains, Arms, Traces, WithPcs
    <3>10. Moves(t, r, None)
      BY <1>4, <2>2, <3>2, <3>5, <3>6, <3>7, <3>1 DEF Remove, observer, Goto, Moves
    <3> QED BY <3>3, <3>8, <3>9, <3>10 DEF Shape
  <2> QED BY <2>1, <2>2, <1>4 DEF Remove
<1>5. CASE TraceArm(t, b)
  <2>1. CASE cpu.stepping
    <3> DEFINE r == [task[t] EXCEPT !.pc = "done", !.res = "already paused"]
    <3>1. /\ task[t].pc = "arm"
          /\ task[t].op = "trace"
      BY <1>5, <2>1, <1>1 DEF TraceArm, At, InProgram, WaitPcs, TracePcs, WithPcs
    <3>2. task' = [task EXCEPT ![t] = r]
      BY <1>1, <1>5, <2>1, <3>1 DEF TraceArm, End, TaskType
    <3>3. r \in TaskType BY <1>1, <2>1, <3>1 DEF TaskType, Labels, OpNames, Outcomes
    <3>4. /\ r.pc = "done" /\ r.op = task[t].op /\ r.ret = task[t].ret /\ r.out = task[t].out
          /\ r.hold = task[t].hold /\ r.bp = task[t].bp /\ r.res = "already paused" /\ r.late = task[t].late
          /\ r.since = task[t].since /\ r.rounds = task[t].rounds /\ r.clean = task[t].clean
      BY <1>1 DEF TaskType
    <3> HIDE DEF r
    <3>5. InProgram(r) BY <1>1, <2>1, <3>1, <3>4 DEF InProgram, WaitPcs, TracePcs, WithPcs
    <3>6. Told(r) BY <1>1, <2>1, <3>1, <3>4 DEF Told, Traces, HasTraced, WithPcs
    <3>7. Lawful(task[t], r, None)
      BY <1>1, <2>1, <3>1, <3>4, NoName
         DEF Lawful, Told, Excuses, Holds, Traces, HasTraced, WithPcs, Outcomes
    <3>8. Hears(t, r)
      BY <1>5, <2>1, <1>1, <3>1, <3>3, <3>4, Hearing, Keeping, NoName
         DEF TraceArm, End, Hears, Subscribers, OpNames, Outcomes
    <3>9. Drains(r) /\ Arms(t, r)
      BY <1>5, <2>1, <1>1, <3>1, <3>4 DEF TraceArm, End, Drains, Arms, Traces, WithPcs
    <3>10. Moves(t, r, None)
      BY <1>5, <2>1, <3>2, <3>5, <3>6, <3>7, <3>1 DEF TraceArm, End, Moves
    <3> QED BY <3>3, <3>8, <3>9, <3>10 DEF Shape
  <2>2. CASE ~cpu.stepping
    <3> DEFINE r == [task[t] EXCEPT !.pc = "tracing", !.bp = b]
    <3>1. /\ task[t].pc = "arm"
          /\ task[t].op = "trace"
      BY <1>5, <2>2, <1>1 DEF TraceArm, At, InProgram, WaitPcs, TracePcs, WithPcs
    <3>2. task' = [task EXCEPT ![t] = r]
      BY <1>1, <1>5, <2>2, <3>1 DEF TraceArm, End, TaskType
    <3>3. r \in TaskType BY <1>1, <3>1 DEF TaskType, Labels, Bys
    <3>4. /\ r.pc = "tracing" /\ r.op = task[t].op /\ r.ret = task[t].ret /\ r.out = task[t].out
          /\ r.hold = task[t].hold /\ r.bp = b /\ r.res = task[t].res /\ r.late = task[t].late
          /\ r.since = task[t].since /\ r.rounds = task[t].rounds /\ r.clean = task[t].clean
      BY <1>1 DEF TaskType
    <3> HIDE DEF r
    <3>5. InProgram(r) BY <1>1, <2>2, <3>1, <3>4 DEF InProgram, WaitPcs, TracePcs, WithPcs
    <3>6. Told(r) BY <1>1, <2>2, <3>1, <3>4 DEF Told, Traces, HasTraced, WithPcs
    <3>7. Lawful(task[t], r, None)
      BY <1>1, <2>2, <3>1, <3>4, NoName
         DEF Lawful, Told, Excuses, Holds, Traces, HasTraced, WithPcs, Outcomes
    <3>8. Hears(t, r)
      BY <1>5, <2>2, <1>1, <3>1, <3>3, <3>4, StillHears, NoName
         DEF TraceArm, End, Outcomes
    <3>9. Drains(r) /\ Arms(t, r)
      BY <1>5, <2>2, <1>1, <3>1, <3>4 DEF TraceArm, End, Drains, Arms, Traces, WithPcs
    <3>10. Moves(t, r, None)
      BY <1>5, <2>2, <3>2, <3>5, <3>6, <3>7, <3>1 DEF TraceArm, End, Moves
    <3> QED BY <3>3, <3>8, <3>9, <3>10 DEF Shape
  <2> QED BY <2>1, <2>2, <1>5 DEF TraceArm
<1> QED BY <1>2, <1>3, <1>4, <1>5

\* The condition registered, and wait_breakpoint.
LEMMA WaitShape ==
    ASSUME TypeInv, NEW t \in Tasks,
           SetRegister(t) \/ Look(t) \/ WaitTakes(t) \/ WaitTimesOut(t) \/ Evaluate(t) \/ Verdict(t) \/ Falsy(t) \/ Again(t) \/ Surface(t) \/ StormDisarm(t) \/ StormUnfilter(t)
    PROVE  Shape(t)
<1>1. /\ task \in [Tasks -> TaskType] /\ task[t] \in TaskType
      /\ InProgram(task[t]) /\ Told(task[t])
      /\ armed \subseteq Bps \cup {Until} /\ filters \subseteq Bps /\ lock \in Tasks \cup {None}
      /\ cpu.ticks \in Nat /\ task[t].rounds \in Nat /\ task[t].rounds + 1 \in Nat
  BY TaskTyped DEF TaskType
<1>2. CASE SetRegister(t)
  <2> DEFINE r == [task[t] EXCEPT !.pc = "return"]
  <2>1. /\ task[t].pc = "register" /\ task[t].op # None /\ task[t].bp \in Bps
        /\ task[t].op \in {"set", "update"}
    BY <1>2, <1>1, NoName DEF SetRegister, At, InProgram, OpNames
  <2>2. task' = [task EXCEPT ![t] = r]
    BY <1>1, <1>2, <2>1 DEF SetRegister, Goto, emulator, observer, TaskType
  <2>3. r \in TaskType BY <1>1, <2>1 DEF TaskType, Labels
  <2>4. /\ r.pc = "return" /\ r.op = task[t].op /\ r.ret = task[t].ret /\ r.out = task[t].out
        /\ r.hold = task[t].hold /\ r.bp = task[t].bp /\ r.res = task[t].res /\ r.late = task[t].late
        /\ r.since = task[t].since /\ r.rounds = task[t].rounds /\ r.clean = task[t].clean
    BY <1>1 DEF TaskType
  <2> HIDE DEF r
  <2>5. InProgram(r) BY <1>1, <2>1, <2>4 DEF InProgram, WaitPcs, TracePcs, WithPcs
  <2>6. Told(r) BY <1>1, <2>1, <2>4 DEF Told, Traces, HasTraced, WithPcs
  <2>7. Lawful(task[t], r, None)
    BY <1>1, <2>1, <2>4, NoName
       DEF Lawful, Told, Excuses, Holds, Traces, HasTraced, WithPcs, Outcomes
  <2>8. Hears(t, r)
    BY <1>2, <1>1, <2>1, <2>3, <2>4, StillHears, NoName
       DEF SetRegister, Goto, emulator, observer, Outcomes
  <2>9. Drains(r) /\ Arms(t, r)
    BY <1>2, <1>1, <2>1, <2>4
       DEF SetRegister, Goto, emulator, observer, Drains, Arms, Traces, WithPcs
  <2>10. Moves(t, r, None)
    BY <1>2, <2>2, <2>5, <2>6, <2>7, <2>1 DEF SetRegister, Goto, emulator, observer, Moves
  <2> QED BY <2>3, <2>8, <2>9, <2>10 DEF Shape
<1>3. CASE Look(t)
  <2>1. CASE cpu.stepping
    <3> DEFINE r == [task[t] EXCEPT !.pc = "done", !.res = "already paused"]
    <3>1. /\ task[t].pc = "look"
          /\ task[t].op = "wait"
      BY <1>3, <2>1, <1>1 DEF Look, At, InProgram, WaitPcs, TracePcs, WithPcs
    <3>2. task' = [task EXCEPT ![t] = r]
      BY <1>1, <1>3, <2>1, <3>1 DEF Look, End, emulator, observer, Goto, TaskType
    <3>3. r \in TaskType BY <1>1, <2>1, <3>1 DEF TaskType, Labels, OpNames, Outcomes
    <3>4. /\ r.pc = "done" /\ r.op = task[t].op /\ r.ret = task[t].ret /\ r.out = task[t].out
          /\ r.hold = task[t].hold /\ r.bp = task[t].bp /\ r.res = "already paused" /\ r.late = task[t].late
          /\ r.since = task[t].since /\ r.rounds = task[t].rounds /\ r.clean = task[t].clean
      BY <1>1 DEF TaskType
    <3> HIDE DEF r
    <3>5. InProgram(r) BY <1>1, <2>1, <3>1, <3>4 DEF InProgram, WaitPcs, TracePcs, WithPcs
    <3>6. Told(r) BY <1>1, <2>1, <3>1, <3>4 DEF Told, Traces, HasTraced, WithPcs
    <3>7. Lawful(task[t], r, None)
      BY <1>1, <2>1, <3>1, <3>4, NoName
         DEF Lawful, Told, Excuses, Holds, Traces, HasTraced, WithPcs, Outcomes
    <3>8. Hears(t, r)
      BY <1>3, <2>1, <1>1, <3>1, <3>3, <3>4, Hearing, Keeping, NoName
         DEF Look, End, emulator, observer, Goto, Hears, Subscribers, OpNames, Outcomes
    <3>9. Drains(r) /\ Arms(t, r)
      BY <1>3, <2>1, <1>1, <3>1, <3>4
         DEF Look, End, emulator, observer, Goto, Drains, Arms, Traces, WithPcs
    <3>10. Moves(t, r, None)
      BY <1>3, <2>1, <3>2, <3>5, <3>6, <3>7, <3>1
         DEF Look, End, emulator, observer, Goto, Moves
    <3> QED BY <3>3, <3>8, <3>9, <3>10 DEF Shape
  <2>2. CASE ~cpu.stepping
    <3> DEFINE r == [task[t] EXCEPT !.pc = "waiting"]
    <3>1. /\ task[t].pc = "look"
          /\ task[t].op = "wait"
      BY <1>3, <2>2, <1>1 DEF Look, At, InProgram, WaitPcs, TracePcs, WithPcs
    <3>2. task' = [task EXCEPT ![t] = r]
      BY <1>1, <1>3, <2>2, <3>1 DEF Look, End, emulator, observer, Goto, TaskType
    <3>3. r \in TaskType BY <1>1, <3>1 DEF TaskType, Labels
    <3>4. /\ r.pc = "waiting" /\ r.op = task[t].op /\ r.ret = task[t].ret /\ r.out = task[t].out
          /\ r.hold = task[t].hold /\ r.bp = task[t].bp /\ r.res = task[t].res /\ r.late = task[t].late
          /\ r.since = task[t].since /\ r.rounds = task[t].rounds /\ r.clean = task[t].clean
      BY <1>1 DEF TaskType
    <3> HIDE DEF r
    <3>5. InProgram(r) BY <1>1, <2>2, <3>1, <3>4 DEF InProgram, WaitPcs, TracePcs, WithPcs
    <3>6. Told(r) BY <1>1, <2>2, <3>1, <3>4 DEF Told, Traces, HasTraced, WithPcs
    <3>7. Lawful(task[t], r, None)
      BY <1>1, <2>2, <3>1, <3>4, NoName
         DEF Lawful, Told, Excuses, Holds, Traces, HasTraced, WithPcs, Outcomes
    <3>8. Hears(t, r)
      BY <1>3, <2>2, <1>1, <3>1, <3>3, <3>4, StillHears, NoName
         DEF Look, End, emulator, observer, Goto, Outcomes
    <3>9. Drains(r) /\ Arms(t, r)
      BY <1>3, <2>2, <1>1, <3>1, <3>4
         DEF Look, End, emulator, observer, Goto, Drains, Arms, Traces, WithPcs
    <3>10. Moves(t, r, None)
      BY <1>3, <2>2, <3>2, <3>5, <3>6, <3>7, <3>1
         DEF Look, End, emulator, observer, Goto, Moves
    <3> QED BY <3>3, <3>8, <3>9, <3>10 DEF Shape
  <2> QED BY <2>1, <2>2, <1>3 DEF Look
<1>4. CASE WaitTakes(t)
  <2>1. CASE Head(subs[t]).by \notin filters
    <3> DEFINE r == [task[t] EXCEPT !.pc = "done", !.res = "hit", !.bp = Head(subs[t]).by]
    <3>1. /\ task[t].pc = "waiting" /\ Head(subs[t]).by \in Bys
          /\ task[t].op = "wait"
      BY <1>4, <2>1, <1>1, Taken
         DEF WaitTakes, At, InProgram, WaitPcs, TracePcs, WithPcs, Subscribers
    <3>2. task' = [task EXCEPT ![t] = r]
      BY <1>1, <1>4, <2>1, <3>1 DEF WaitTakes, Closed, emulator, TaskType
    <3>3. r \in TaskType BY <1>1, <2>1, <3>1 DEF TaskType, Labels, OpNames, Outcomes, Bys
    <3>4. /\ r.pc = "done" /\ r.op = task[t].op /\ r.ret = task[t].ret /\ r.out = task[t].out
          /\ r.hold = task[t].hold /\ r.bp = Head(subs[t]).by /\ r.res = "hit" /\ r.late = task[t].late
          /\ r.since = task[t].since /\ r.rounds = task[t].rounds /\ r.clean = task[t].clean
      BY <1>1 DEF TaskType
    <3> HIDE DEF r
    <3>5. InProgram(r) BY <1>1, <2>1, <3>1, <3>4 DEF InProgram, WaitPcs, TracePcs, WithPcs
    <3>6. Told(r) BY <1>1, <2>1, <3>1, <3>4 DEF Told, Traces, HasTraced, WithPcs
    <3>7. Lawful(task[t], r, None)
      BY <1>1, <2>1, <3>1, <3>4, NoName
         DEF Lawful, Told, Excuses, Holds, Traces, HasTraced, WithPcs, Outcomes
    <3>8. Hears(t, r)
      BY <1>4, <2>1, <1>1, <3>1, <3>3, <3>4, Hearing, Keeping, NoName
         DEF WaitTakes, Closed, emulator, Hears, Subscribers, OpNames, Outcomes
    <3>9. Drains(r) /\ Arms(t, r)
      BY <1>4, <2>1, <1>1, <3>1, <3>4
         DEF WaitTakes, Closed, emulator, Drains, Arms, Traces, WithPcs
    <3>10. Moves(t, r, None)
      BY <1>4, <2>1, <3>2, <3>5, <3>6, <3>7, <3>1 DEF WaitTakes, Closed, emulator, Moves
    <3> QED BY <3>3, <3>8, <3>9, <3>10 DEF Shape
  <2>2. CASE Head(subs[t]).by \in filters /\ task[t].rounds + 1 >= StormHits
    <3> DEFINE r == [task[t] EXCEPT !.pc = "storm", !.bp = Head(subs[t]).by, !.rounds = task[t].rounds + 1]
    <3>1. /\ task[t].pc = "waiting" /\ Head(subs[t]).by \in Bys /\ subs[t] # None
          /\ task[t].op = "wait"
      BY <1>4, <2>2, <1>1, Taken
         DEF WaitTakes, At, InProgram, WaitPcs, TracePcs, WithPcs, Subscribers
    <3>2. task' = [task EXCEPT ![t] = r]
      BY <1>1, <1>4, <2>2, <3>1 DEF WaitTakes, Closed, emulator, TaskType
    <3>3. r \in TaskType BY <1>1, <3>1 DEF TaskType, Labels, Bys
    <3>4. /\ r.pc = "storm" /\ r.op = task[t].op /\ r.ret = task[t].ret /\ r.out = task[t].out
          /\ r.hold = task[t].hold /\ r.bp = Head(subs[t]).by /\ r.res = task[t].res /\ r.late = task[t].late
          /\ r.since = task[t].since /\ r.rounds = task[t].rounds + 1 /\ r.clean = task[t].clean
      BY <1>1 DEF TaskType
    <3> HIDE DEF r
    <3>5. InProgram(r) BY <1>1, <2>2, <3>1, <3>4 DEF InProgram, WaitPcs, TracePcs, WithPcs
    <3>6. Told(r) BY <1>1, <2>2, <3>1, <3>4 DEF Told, Traces, HasTraced, WithPcs
    <3>7. Lawful(task[t], r, None)
      BY <1>1, <2>2, <3>1, <3>4, NoName
         DEF Lawful, Told, Excuses, Holds, Traces, HasTraced, WithPcs, Outcomes
    <3>8. Take(t) /\ subs[t] # <<>> /\ r.rounds # 0
      BY <1>4, <2>2, <1>1, <3>1, <3>4 DEF WaitTakes, Closed, emulator, Closed
    <3>9. Hears(t, r)
      BY <1>1, <3>1, <3>3, <3>4, <3>8, Hearing, Keeping, NoName
         DEF Hears, Closed, Subscribers, Outcomes
    <3>10. Drains(r) /\ Arms(t, r)
      BY <1>4, <2>2, <1>1, <3>1, <3>4
         DEF WaitTakes, Closed, emulator, Drains, Arms, Traces, WithPcs
    <3>11. Moves(t, r, None)
      BY <1>4, <2>2, <3>2, <3>5, <3>6, <3>7, <3>1 DEF WaitTakes, Closed, emulator, Moves
    <3> QED BY <3>3, <3>9, <3>10, <3>11 DEF Shape
  <2>3. CASE Head(subs[t]).by \in filters /\ ~(task[t].rounds + 1 >= StormHits)
    <3> DEFINE r == [task[t] EXCEPT !.pc = "evaluate", !.bp = Head(subs[t]).by, !.rounds = task[t].rounds + 1]
    <3>1. /\ task[t].pc = "waiting" /\ Head(subs[t]).by \in Bys /\ subs[t] # None
          /\ task[t].op = "wait"
      BY <1>4, <2>3, <1>1, Taken
         DEF WaitTakes, At, InProgram, WaitPcs, TracePcs, WithPcs, Subscribers
    <3>2. task' = [task EXCEPT ![t] = r]
      BY <1>1, <1>4, <2>3, <3>1 DEF WaitTakes, Closed, emulator, TaskType
    <3>3. r \in TaskType BY <1>1, <3>1 DEF TaskType, Labels, Bys
    <3>4. /\ r.pc = "evaluate" /\ r.op = task[t].op /\ r.ret = task[t].ret /\ r.out = task[t].out
          /\ r.hold = task[t].hold /\ r.bp = Head(subs[t]).by /\ r.res = task[t].res /\ r.late = task[t].late
          /\ r.since = task[t].since /\ r.rounds = task[t].rounds + 1 /\ r.clean = task[t].clean
      BY <1>1 DEF TaskType
    <3> HIDE DEF r
    <3>5. InProgram(r) BY <1>1, <2>3, <3>1, <3>4 DEF InProgram, WaitPcs, TracePcs, WithPcs
    <3>6. Told(r) BY <1>1, <2>3, <3>1, <3>4 DEF Told, Traces, HasTraced, WithPcs
    <3>7. Lawful(task[t], r, None)
      BY <1>1, <2>3, <3>1, <3>4, NoName
         DEF Lawful, Told, Excuses, Holds, Traces, HasTraced, WithPcs, Outcomes
    <3>8. Take(t) /\ subs[t] # <<>> /\ r.rounds # 0
      BY <1>4, <2>3, <1>1, <3>1, <3>4 DEF WaitTakes, Closed, emulator, Closed
    <3>9. Hears(t, r)
      BY <1>1, <3>1, <3>3, <3>4, <3>8, Hearing, Keeping, NoName
         DEF Hears, Closed, Subscribers, Outcomes
    <3>10. Drains(r) /\ Arms(t, r)
      BY <1>4, <2>3, <1>1, <3>1, <3>4
         DEF WaitTakes, Closed, emulator, Drains, Arms, Traces, WithPcs
    <3>11. Moves(t, r, None)
      BY <1>4, <2>3, <3>2, <3>5, <3>6, <3>7, <3>1 DEF WaitTakes, Closed, emulator, Moves
    <3> QED BY <3>3, <3>9, <3>10, <3>11 DEF Shape
  <2> QED BY <2>1, <2>2, <2>3, <1>4 DEF WaitTakes
<1>5. CASE WaitTimesOut(t)
  <2> DEFINE r == [task[t] EXCEPT !.pc = "done", !.res = "no hit"]
  <2>1. /\ task[t].pc = "waiting"
        /\ task[t].op = "wait"
    BY <1>5, <1>1 DEF WaitTimesOut, At, InProgram, WaitPcs, TracePcs, WithPcs
  <2>2. task' = [task EXCEPT ![t] = r]
    BY <1>1, <1>5, <2>1 DEF WaitTimesOut, End, emulator, observer, TaskType
  <2>3. r \in TaskType BY <1>1, <2>1 DEF TaskType, Labels, OpNames, Outcomes
  <2>4. /\ r.pc = "done" /\ r.op = task[t].op /\ r.ret = task[t].ret /\ r.out = task[t].out
        /\ r.hold = task[t].hold /\ r.bp = task[t].bp /\ r.res = "no hit" /\ r.late = task[t].late
        /\ r.since = task[t].since /\ r.rounds = task[t].rounds /\ r.clean = task[t].clean
    BY <1>1 DEF TaskType
  <2> HIDE DEF r
  <2>5. InProgram(r) BY <1>1, <2>1, <2>4 DEF InProgram, WaitPcs, TracePcs, WithPcs
  <2>6. Told(r) BY <1>1, <2>1, <2>4 DEF Told, Traces, HasTraced, WithPcs
  <2>7. Lawful(task[t], r, None)
    BY <1>1, <2>1, <2>4, NoName
       DEF Lawful, Told, Excuses, Holds, Traces, HasTraced, WithPcs, Outcomes
  <2>8. subs' = Closed(t) /\ (task[t].rounds = 0 => subs[t] = <<>>)
    <3>1. subs' = Closed(t) /\ (subs[t] = <<>> \/ task[t].rounds > 0)
      BY <1>5, <2>1 DEF WaitTimesOut, End
    <3> QED BY <1>1, <3>1
  <2>9. Hears(t, r)
    BY <1>1, <2>1, <2>3, <2>4, <2>8, Hearing, Keeping, NoName
       DEF Hears, Closed, Subscribers, Outcomes
  <2>10. Drains(r) /\ Arms(t, r)
    BY <1>5, <1>1, <2>1, <2>4
       DEF WaitTimesOut, End, emulator, observer, Drains, Arms, Traces, WithPcs
  <2>11. Moves(t, r, None)
    BY <1>5, <2>2, <2>5, <2>6, <2>7, <2>1 DEF WaitTimesOut, End, emulator, observer, Moves
  <2> QED BY <2>3, <2>9, <2>10, <2>11 DEF Shape
<1>6. CASE Evaluate(t)
  <2> DEFINE r == [task[t] EXCEPT !.pc = "probe", !.out = "verdict"]
  <2>1. /\ task[t].pc = "evaluate"
        /\ task[t].op = "wait"
    BY <1>6, <1>1 DEF Evaluate, At, InProgram, WaitPcs, TracePcs, WithPcs
  <2>2. task' = [task EXCEPT ![t] = r]
    BY <1>1, <1>6, <2>1 DEF Evaluate, emulator, observer, TaskType
  <2>3. r \in TaskType BY <1>1, <2>1 DEF TaskType, Labels, Outs
  <2>4. /\ r.pc = "probe" /\ r.op = task[t].op /\ r.ret = task[t].ret /\ r.out = "verdict"
        /\ r.hold = task[t].hold /\ r.bp = task[t].bp /\ r.res = task[t].res /\ r.late = task[t].late
        /\ r.since = task[t].since /\ r.rounds = task[t].rounds /\ r.clean = task[t].clean
    BY <1>1 DEF TaskType
  <2> HIDE DEF r
  <2>5. InProgram(r) BY <1>1, <2>1, <2>4 DEF InProgram, WaitPcs, TracePcs, WithPcs
  <2>6. Told(r) BY <1>1, <2>1, <2>4 DEF Told, Traces, HasTraced, WithPcs
  <2>7. Lawful(task[t], r, None)
    BY <1>1, <2>1, <2>4, NoName
       DEF Lawful, Told, Excuses, Holds, Traces, HasTraced, WithPcs, Outcomes
  <2>8. Hears(t, r)
    BY <1>6, <1>1, <2>1, <2>3, <2>4, StillHears, NoName
       DEF Evaluate, emulator, observer, Outcomes
  <2>9. Drains(r) /\ Arms(t, r)
    BY <1>6, <1>1, <2>1, <2>4
       DEF Evaluate, emulator, observer, Drains, Arms, Traces, WithPcs
  <2>10. Moves(t, r, None)
    BY <1>6, <2>2, <2>5, <2>6, <2>7, <2>1 DEF Evaluate, emulator, observer, Moves
  <2> QED BY <2>3, <2>8, <2>9, <2>10 DEF Shape
<1>7. CASE Verdict(t)
  <2>1. CASE Goto(t, "falsy")
    <3> DEFINE r == [task[t] EXCEPT !.pc = "falsy"]
    <3>1. /\ task[t].pc = "verdict"
          /\ task[t].op = "wait"
      BY <1>7, <2>1, <1>1 DEF Verdict, At, InProgram, WaitPcs, TracePcs, WithPcs
    <3>2. task' = [task EXCEPT ![t] = r]
      BY <1>1, <1>7, <2>1, <3>1 DEF Verdict, Goto, emulator, observer, TaskType
    <3>3. r \in TaskType BY <1>1, <3>1 DEF TaskType, Labels
    <3>4. /\ r.pc = "falsy" /\ r.op = task[t].op /\ r.ret = task[t].ret /\ r.out = task[t].out
          /\ r.hold = task[t].hold /\ r.bp = task[t].bp /\ r.res = task[t].res /\ r.late = task[t].late
          /\ r.since = task[t].since /\ r.rounds = task[t].rounds /\ r.clean = task[t].clean
      BY <1>1 DEF TaskType
    <3> HIDE DEF r
    <3>5. InProgram(r) BY <1>1, <2>1, <3>1, <3>4 DEF InProgram, WaitPcs, TracePcs, WithPcs
    <3>6. Told(r) BY <1>1, <2>1, <3>1, <3>4 DEF Told, Traces, HasTraced, WithPcs
    <3>7. Lawful(task[t], r, None)
      BY <1>1, <2>1, <3>1, <3>4, NoName
         DEF Lawful, Told, Excuses, Holds, Traces, HasTraced, WithPcs, Outcomes
    <3>8. Hears(t, r)
      BY <1>7, <2>1, <1>1, <3>1, <3>3, <3>4, StillHears, NoName
         DEF Verdict, Goto, emulator, observer, Outcomes
    <3>9. Drains(r) /\ Arms(t, r)
      BY <1>7, <2>1, <1>1, <3>1, <3>4
         DEF Verdict, Goto, emulator, observer, Drains, Arms, Traces, WithPcs
    <3>10. Moves(t, r, None)
      BY <1>7, <2>1, <3>2, <3>5, <3>6, <3>7, <3>1
         DEF Verdict, Goto, emulator, observer, Moves
    <3> QED BY <3>3, <3>8, <3>9, <3>10 DEF Shape
  <2>2. CASE Goto(t, "surface")
    <3> DEFINE r == [task[t] EXCEPT !.pc = "surface"]
    <3>1. /\ task[t].pc = "verdict"
          /\ task[t].op = "wait"
      BY <1>7, <2>2, <1>1 DEF Verdict, At, InProgram, WaitPcs, TracePcs, WithPcs
    <3>2. task' = [task EXCEPT ![t] = r]
      BY <1>1, <1>7, <2>2, <3>1 DEF Verdict, Goto, emulator, observer, TaskType
    <3>3. r \in TaskType BY <1>1, <3>1 DEF TaskType, Labels
    <3>4. /\ r.pc = "surface" /\ r.op = task[t].op /\ r.ret = task[t].ret /\ r.out = task[t].out
          /\ r.hold = task[t].hold /\ r.bp = task[t].bp /\ r.res = task[t].res /\ r.late = task[t].late
          /\ r.since = task[t].since /\ r.rounds = task[t].rounds /\ r.clean = task[t].clean
      BY <1>1 DEF TaskType
    <3> HIDE DEF r
    <3>5. InProgram(r) BY <1>1, <2>2, <3>1, <3>4 DEF InProgram, WaitPcs, TracePcs, WithPcs
    <3>6. Told(r) BY <1>1, <2>2, <3>1, <3>4 DEF Told, Traces, HasTraced, WithPcs
    <3>7. Lawful(task[t], r, None)
      BY <1>1, <2>2, <3>1, <3>4, NoName
         DEF Lawful, Told, Excuses, Holds, Traces, HasTraced, WithPcs, Outcomes
    <3>8. Hears(t, r)
      BY <1>7, <2>2, <1>1, <3>1, <3>3, <3>4, StillHears, NoName
         DEF Verdict, Goto, emulator, observer, Outcomes
    <3>9. Drains(r) /\ Arms(t, r)
      BY <1>7, <2>2, <1>1, <3>1, <3>4
         DEF Verdict, Goto, emulator, observer, Drains, Arms, Traces, WithPcs
    <3>10. Moves(t, r, None)
      BY <1>7, <2>2, <3>2, <3>5, <3>6, <3>7, <3>1
         DEF Verdict, Goto, emulator, observer, Moves
    <3> QED BY <3>3, <3>8, <3>9, <3>10 DEF Shape
  <2> QED BY <2>1, <2>2, <1>7 DEF Verdict
<1>8. CASE Falsy(t)
  <2> DEFINE r == [task[t] EXCEPT !.pc = "leave", !.hold = TRUE, !.out = "again"]
  <2>1. /\ task[t].pc = "falsy"
        /\ task[t].op = "wait"
    BY <1>8, <1>1 DEF Falsy, At, InProgram, WaitPcs, TracePcs, WithPcs
  <2>2. task' = [task EXCEPT ![t] = r]
    BY <1>1, <1>8, <2>1 DEF Falsy, emulator, observer, TaskType
  <2>3. r \in TaskType BY <1>1, <2>1 DEF TaskType, Labels, Outs
  <2>4. /\ r.pc = "leave" /\ r.op = task[t].op /\ r.ret = task[t].ret /\ r.out = "again"
        /\ r.hold = TRUE /\ r.bp = task[t].bp /\ r.res = task[t].res /\ r.late = task[t].late
        /\ r.since = task[t].since /\ r.rounds = task[t].rounds /\ r.clean = task[t].clean
    BY <1>1 DEF TaskType
  <2> HIDE DEF r
  <2>5. InProgram(r) BY <1>1, <2>1, <2>4 DEF InProgram, WaitPcs, TracePcs, WithPcs
  <2>6. Told(r) BY <1>1, <2>1, <2>4 DEF Told, Traces, HasTraced, WithPcs
  <2>7. Lawful(task[t], r, None)
    BY <1>1, <2>1, <2>4, NoName
       DEF Lawful, Told, Excuses, Holds, Traces, HasTraced, WithPcs, Outcomes
  <2>8. Hears(t, r)
    BY <1>8, <1>1, <2>1, <2>3, <2>4, StillHears, NoName
       DEF Falsy, emulator, observer, Outcomes
  <2>9. Drains(r) /\ Arms(t, r)
    BY <1>8, <1>1, <2>1, <2>4 DEF Falsy, emulator, observer, Drains, Arms, Traces, WithPcs
  <2>10. Moves(t, r, None)
    BY <1>8, <2>2, <2>5, <2>6, <2>7, <2>1 DEF Falsy, emulator, observer, Moves
  <2> QED BY <2>3, <2>8, <2>9, <2>10 DEF Shape
<1>9. CASE Again(t)
  <2> DEFINE r == [task[t] EXCEPT !.pc = "waiting"]
  <2>1. /\ task[t].pc = "again"
        /\ task[t].op = "wait"
    BY <1>9, <1>1 DEF Again, At, InProgram, WaitPcs, TracePcs, WithPcs
  <2>2. task' = [task EXCEPT ![t] = r]
    BY <1>1, <1>9, <2>1 DEF Again, Goto, emulator, observer, TaskType
  <2>3. r \in TaskType BY <1>1, <2>1 DEF TaskType, Labels
  <2>4. /\ r.pc = "waiting" /\ r.op = task[t].op /\ r.ret = task[t].ret /\ r.out = task[t].out
        /\ r.hold = task[t].hold /\ r.bp = task[t].bp /\ r.res = task[t].res /\ r.late = task[t].late
        /\ r.since = task[t].since /\ r.rounds = task[t].rounds /\ r.clean = task[t].clean
    BY <1>1 DEF TaskType
  <2> HIDE DEF r
  <2>5. InProgram(r) BY <1>1, <2>1, <2>4 DEF InProgram, WaitPcs, TracePcs, WithPcs
  <2>6. Told(r) BY <1>1, <2>1, <2>4 DEF Told, Traces, HasTraced, WithPcs
  <2>7. Lawful(task[t], r, None)
    BY <1>1, <2>1, <2>4, NoName
       DEF Lawful, Told, Excuses, Holds, Traces, HasTraced, WithPcs, Outcomes
  <2>8. Hears(t, r)
    BY <1>9, <1>1, <2>1, <2>3, <2>4, StillHears, NoName
       DEF Again, Goto, emulator, observer, Outcomes
  <2>9. Drains(r) /\ Arms(t, r)
    BY <1>9, <1>1, <2>1, <2>4
       DEF Again, Goto, emulator, observer, Drains, Arms, Traces, WithPcs
  <2>10. Moves(t, r, None)
    BY <1>9, <2>2, <2>5, <2>6, <2>7, <2>1 DEF Again, Goto, emulator, observer, Moves
  <2> QED BY <2>3, <2>8, <2>9, <2>10 DEF Shape
<1>10. CASE Surface(t)
  <2> DEFINE r == [task[t] EXCEPT !.pc = "done", !.res = "hit"]
  <2>1. /\ task[t].pc = "surface"
        /\ task[t].op = "wait"
    BY <1>10, <1>1 DEF Surface, At, InProgram, WaitPcs, TracePcs, WithPcs
  <2>2. task' = [task EXCEPT ![t] = r]
    BY <1>1, <1>10, <2>1 DEF Surface, End, emulator, observer, TaskType
  <2>3. r \in TaskType BY <1>1, <2>1 DEF TaskType, Labels, OpNames, Outcomes
  <2>4. /\ r.pc = "done" /\ r.op = task[t].op /\ r.ret = task[t].ret /\ r.out = task[t].out
        /\ r.hold = task[t].hold /\ r.bp = task[t].bp /\ r.res = "hit" /\ r.late = task[t].late
        /\ r.since = task[t].since /\ r.rounds = task[t].rounds /\ r.clean = task[t].clean
    BY <1>1 DEF TaskType
  <2> HIDE DEF r
  <2>5. InProgram(r) BY <1>1, <2>1, <2>4 DEF InProgram, WaitPcs, TracePcs, WithPcs
  <2>6. Told(r) BY <1>1, <2>1, <2>4 DEF Told, Traces, HasTraced, WithPcs
  <2>7. Lawful(task[t], r, None)
    BY <1>1, <2>1, <2>4, NoName
       DEF Lawful, Told, Excuses, Holds, Traces, HasTraced, WithPcs, Outcomes
  <2>8. Hears(t, r)
    BY <1>10, <1>1, <2>1, <2>3, <2>4, Hearing, Keeping, NoName
       DEF Surface, End, emulator, observer, Hears, Subscribers, OpNames, Outcomes
  <2>9. Drains(r) /\ Arms(t, r)
    BY <1>10, <1>1, <2>1, <2>4
       DEF Surface, End, emulator, observer, Drains, Arms, Traces, WithPcs
  <2>10. Moves(t, r, None)
    BY <1>10, <2>2, <2>5, <2>6, <2>7, <2>1 DEF Surface, End, emulator, observer, Moves
  <2> QED BY <2>3, <2>8, <2>9, <2>10 DEF Shape
<1>11. CASE StormDisarm(t)
  <2> DEFINE r == [task[t] EXCEPT !.pc = "leave", !.hold = TRUE, !.out = "unfilter"]
  <2>1. /\ task[t].pc = "storm"
        /\ task[t].op = "wait"
    BY <1>11, <1>1 DEF StormDisarm, At, InProgram, WaitPcs, TracePcs, WithPcs
  <2>2. task' = [task EXCEPT ![t] = r]
    BY <1>1, <1>11, <2>1 DEF StormDisarm, observer, TaskType
  <2>3. r \in TaskType BY <1>1, <2>1 DEF TaskType, Labels, Outs
  <2>4. /\ r.pc = "leave" /\ r.op = task[t].op /\ r.ret = task[t].ret /\ r.out = "unfilter"
        /\ r.hold = TRUE /\ r.bp = task[t].bp /\ r.res = task[t].res /\ r.late = task[t].late
        /\ r.since = task[t].since /\ r.rounds = task[t].rounds /\ r.clean = task[t].clean
    BY <1>1 DEF TaskType
  <2> HIDE DEF r
  <2>5. InProgram(r) BY <1>1, <2>1, <2>4 DEF InProgram, WaitPcs, TracePcs, WithPcs
  <2>6. Told(r) BY <1>1, <2>1, <2>4 DEF Told, Traces, HasTraced, WithPcs
  <2>7. Lawful(task[t], r, None)
    BY <1>1, <2>1, <2>4, NoName
       DEF Lawful, Told, Excuses, Holds, Traces, HasTraced, WithPcs, Outcomes
  <2>8. Hears(t, r)
    BY <1>11, <1>1, <2>1, <2>3, <2>4, StillHears, NoName
       DEF StormDisarm, observer, Outcomes
  <2>9. Drains(r) /\ Arms(t, r)
    BY <1>11, <1>1, <2>1, <2>4 DEF StormDisarm, observer, Drains, Arms, Traces, WithPcs
  <2>10. Moves(t, r, None)
    BY <1>11, <2>2, <2>5, <2>6, <2>7, <2>1 DEF StormDisarm, observer, Moves
  <2> QED BY <2>3, <2>8, <2>9, <2>10 DEF Shape
<1>12. CASE StormUnfilter(t)
  <2> DEFINE r == [task[t] EXCEPT !.pc = "done", !.res = "storm"]
  <2>1. /\ task[t].pc = "unfilter"
        /\ task[t].op = "wait"
    BY <1>12, <1>1 DEF StormUnfilter, At, InProgram, WaitPcs, TracePcs, WithPcs
  <2>2. task' = [task EXCEPT ![t] = r]
    BY <1>1, <1>12, <2>1 DEF StormUnfilter, End, emulator, observer, TaskType
  <2>3. r \in TaskType BY <1>1, <2>1 DEF TaskType, Labels, OpNames, Outcomes
  <2>4. /\ r.pc = "done" /\ r.op = task[t].op /\ r.ret = task[t].ret /\ r.out = task[t].out
        /\ r.hold = task[t].hold /\ r.bp = task[t].bp /\ r.res = "storm" /\ r.late = task[t].late
        /\ r.since = task[t].since /\ r.rounds = task[t].rounds /\ r.clean = task[t].clean
    BY <1>1 DEF TaskType
  <2> HIDE DEF r
  <2>5. InProgram(r) BY <1>1, <2>1, <2>4 DEF InProgram, WaitPcs, TracePcs, WithPcs
  <2>6. Told(r) BY <1>1, <2>1, <2>4 DEF Told, Traces, HasTraced, WithPcs
  <2>7. Lawful(task[t], r, None)
    BY <1>1, <2>1, <2>4, NoName
       DEF Lawful, Told, Excuses, Holds, Traces, HasTraced, WithPcs, Outcomes
  <2>8. Hears(t, r)
    BY <1>12, <1>1, <2>1, <2>3, <2>4, Hearing, Keeping, NoName
       DEF StormUnfilter, End, emulator, observer, Hears, Subscribers, OpNames, Outcomes
  <2>9. Drains(r) /\ Arms(t, r)
    BY <1>12, <1>1, <2>1, <2>4
       DEF StormUnfilter, End, emulator, observer, Drains, Arms, Traces, WithPcs
  <2>10. Moves(t, r, None)
    BY <1>12, <2>2, <2>5, <2>6, <2>7, <2>1 DEF StormUnfilter, End, emulator, observer, Moves
  <2> QED BY <2>3, <2>8, <2>9, <2>10 DEF Shape
<1> QED BY <1>2, <1>3, <1>4, <1>5, <1>6, <1>7, <1>8, <1>9, <1>10, <1>11, <1>12

\* trace_memory_access and stats.
LEMMA TraceShape ==
    ASSUME TypeInv, NEW t \in Tasks,
           \/ TraceTakes(t) \/ Capture(t) \/ Disarm(t) \/ Traced(t)
           \/ TraceTimesOut(t) \/ TraceCancelled(t) \/ Cleanup(t)
           \/ StatsTakes(t) \/ StatsEnds(t)
    PROVE  Shape(t)
<1>1. /\ task \in [Tasks -> TaskType] /\ task[t] \in TaskType
      /\ InProgram(task[t]) /\ Told(task[t])
      /\ armed \subseteq Bps \cup {Until} /\ filters \subseteq Bps /\ lock \in Tasks \cup {None}
      /\ cpu.ticks \in Nat /\ task[t].rounds \in Nat /\ task[t].rounds + 1 \in Nat
  BY TaskTyped DEF TaskType
<1>2. CASE TraceTakes(t)
  <2> DEFINE r == [task[t] EXCEPT !.pc = "capture"]
  <2>1. /\ task[t].pc = "tracing" /\ subs[t] # None
        /\ task[t].op = "trace"
    BY <1>2, <1>1, Taken
       DEF TraceTakes, At, InProgram, WaitPcs, TracePcs, WithPcs, Subscribers
  <2>2. task' = [task EXCEPT ![t] = r]
    BY <1>1, <1>2, <2>1 DEF TraceTakes, Goto, emulator, TaskType
  <2>3. r \in TaskType BY <1>1, <2>1 DEF TaskType, Labels
  <2>4. /\ r.pc = "capture" /\ r.op = task[t].op /\ r.ret = task[t].ret /\ r.out = task[t].out
        /\ r.hold = task[t].hold /\ r.bp = task[t].bp /\ r.res = task[t].res /\ r.late = task[t].late
        /\ r.since = task[t].since /\ r.rounds = task[t].rounds /\ r.clean = task[t].clean
    BY <1>1 DEF TaskType
  <2> HIDE DEF r
  <2>5. InProgram(r) BY <1>1, <2>1, <2>4 DEF InProgram, WaitPcs, TracePcs, WithPcs
  <2>6. Told(r) BY <1>1, <2>1, <2>4 DEF Told, Traces, HasTraced, WithPcs
  <2>7. Lawful(task[t], r, None)
    BY <1>1, <2>1, <2>4, NoName
       DEF Lawful, Told, Excuses, Holds, Traces, HasTraced, WithPcs, Outcomes
  <2>8. Hears(t, r)
    BY <1>2, <1>1, <2>1, <2>3, <2>4, Hearing, Keeping, NoName
       DEF TraceTakes, Goto, emulator, Hears, Subscribers, OpNames, Outcomes
  <2>9. Drains(r) /\ Arms(t, r)
    BY <1>2, <1>1, <2>1, <2>4 DEF TraceTakes, Goto, emulator, Drains, Arms, Traces, WithPcs
  <2>10. Moves(t, r, None)
    BY <1>2, <2>2, <2>5, <2>6, <2>7, <2>1 DEF TraceTakes, Goto, emulator, Moves
  <2> QED BY <2>3, <2>8, <2>9, <2>10 DEF Shape
<1>3. CASE Capture(t)
  <2>1. CASE task' = [task EXCEPT ![t].pc = "probe", ![t].out = "disarm"]
    <3> DEFINE r == [task[t] EXCEPT !.pc = "probe", !.out = "disarm"]
    <3>1. task[t].pc = "capture" /\ task[t].op = "trace"
      BY <1>3, <2>1, <1>1 DEF Capture, At, InProgram, WaitPcs, TracePcs, WithPcs
    <3>2. task' = [task EXCEPT ![t] = r]
      BY <1>1, <1>3, <2>1, <3>1 DEF Capture, emulator, observer, TaskType
    <3>3. r \in TaskType BY <1>1, <3>1 DEF TaskType, Labels, Outs, OpNames, Outcomes
    <3>4. /\ r.pc = "probe" /\ r.op = task[t].op /\ r.ret = task[t].ret /\ r.out = "disarm"
          /\ r.hold = task[t].hold /\ r.bp = task[t].bp /\ r.res = task[t].res /\ r.late = task[t].late
          /\ r.since = task[t].since /\ r.rounds = task[t].rounds /\ r.clean = task[t].clean
      BY <1>1 DEF TaskType
    <3> HIDE DEF r
    <3>5. InProgram(r) BY <1>1, <3>1, <3>4 DEF InProgram, WaitPcs, TracePcs, WithPcs
    <3>6. Told(r) BY <1>1, <3>1, <3>4 DEF Told, Traces, HasTraced, WithPcs
    <3>7. Lawful(task[t], r, None)
      BY <1>1, <3>1, <3>4, NoName
         DEF Lawful, Told, Excuses, Holds, Traces, HasTraced, WithPcs, Outcomes
    <3>8. Hears(t, r)
      BY <1>3, <2>1, <1>1, <3>1, <3>3, <3>4, StillHears, NoName DEF Capture, emulator, observer, Outcomes
    <3>9. Drains(r) /\ Arms(t, r)
      BY <1>3, <2>1, <1>1, <3>1, <3>4 DEF Capture, emulator, observer, Drains, Arms, Traces, WithPcs
    <3>10. Moves(t, r, None)
      BY <1>3, <2>1, <3>2, <3>5, <3>6, <3>7, <3>1 DEF Capture, emulator, observer, Moves
    <3> QED BY <3>3, <3>8, <3>9, <3>10 DEF Shape
  <2>2. CASE task' = [task EXCEPT ![t].pc = "disarm", ![t].out = "disarm"]
    <3> DEFINE r == [task[t] EXCEPT !.pc = "disarm", !.out = "disarm"]
    <3>1. task[t].pc = "capture" /\ task[t].op = "trace"
      BY <1>3, <2>2, <1>1 DEF Capture, At, InProgram, WaitPcs, TracePcs, WithPcs
    <3>2. task' = [task EXCEPT ![t] = r]
      BY <1>1, <1>3, <2>2, <3>1 DEF Capture, emulator, observer, TaskType
    <3>3. r \in TaskType BY <1>1, <3>1 DEF TaskType, Labels, Outs, OpNames, Outcomes
    <3>4. /\ r.pc = "disarm" /\ r.op = task[t].op /\ r.ret = task[t].ret /\ r.out = "disarm"
          /\ r.hold = task[t].hold /\ r.bp = task[t].bp /\ r.res = task[t].res /\ r.late = task[t].late
          /\ r.since = task[t].since /\ r.rounds = task[t].rounds /\ r.clean = task[t].clean
      BY <1>1 DEF TaskType
    <3> HIDE DEF r
    <3>5. InProgram(r) BY <1>1, <3>1, <3>4 DEF InProgram, WaitPcs, TracePcs, WithPcs
    <3>6. Told(r) BY <1>1, <3>1, <3>4 DEF Told, Traces, HasTraced, WithPcs
    <3>7. Lawful(task[t], r, None)
      BY <1>1, <3>1, <3>4, NoName
         DEF Lawful, Told, Excuses, Holds, Traces, HasTraced, WithPcs, Outcomes
    <3>8. Hears(t, r)
      BY <1>3, <2>2, <1>1, <3>1, <3>3, <3>4, StillHears, NoName DEF Capture, emulator, observer, Outcomes
    <3>9. Drains(r) /\ Arms(t, r)
      BY <1>3, <2>2, <1>1, <3>1, <3>4 DEF Capture, emulator, observer, Drains, Arms, Traces, WithPcs
    <3>10. Moves(t, r, None)
      BY <1>3, <2>2, <3>2, <3>5, <3>6, <3>7, <3>1 DEF Capture, emulator, observer, Moves
    <3> QED BY <3>3, <3>8, <3>9, <3>10 DEF Shape
  <2> QED BY <1>3, <2>1, <2>2 DEF Capture
<1>4. CASE Disarm(t)
  <2> DEFINE r == [task[t] EXCEPT !.pc = "leave", !.hold = TRUE, !.out = "traced"]
  <2>1. task[t].pc = "disarm" /\ task[t].op = "trace"
    BY <1>4, <1>1 DEF Disarm, At, InProgram, WaitPcs, TracePcs, WithPcs
  <2>2. task' = [task EXCEPT ![t] = r]
    BY <1>1, <1>4, <2>1 DEF Disarm, observer, TaskType
  <2>3. r \in TaskType BY <1>1, <2>1 DEF TaskType, Labels, Outs, OpNames, Outcomes
  <2>4. /\ r.pc = "leave" /\ r.op = task[t].op /\ r.ret = task[t].ret /\ r.out = "traced"
        /\ r.hold = TRUE /\ r.bp = task[t].bp /\ r.res = task[t].res /\ r.late = task[t].late
        /\ r.since = task[t].since /\ r.rounds = task[t].rounds /\ r.clean = task[t].clean
    BY <1>1 DEF TaskType
  <2> HIDE DEF r
  <2>5. InProgram(r) BY <1>1, <2>1, <2>4 DEF InProgram, WaitPcs, TracePcs, WithPcs
  <2>6. Told(r) BY <1>1, <2>1, <2>4 DEF Told, Traces, HasTraced, WithPcs
  <2>7. Lawful(task[t], r, None)
    BY <1>1, <2>1, <2>4, NoName
       DEF Lawful, Told, Excuses, Holds, Traces, HasTraced, WithPcs, Outcomes
  <2>8. Hears(t, r)
    BY <1>4, <1>1, <2>1, <2>3, <2>4, StillHears, NoName DEF Disarm, observer, Outcomes
  <2>9. Drains(r) /\ Arms(t, r)
    BY <1>4, <1>1, <2>1, <2>4 DEF Disarm, observer, Drains, Arms, Traces, WithPcs
  <2>10. Moves(t, r, None)
    BY <1>4, <2>2, <2>5, <2>6, <2>7, <2>1 DEF Disarm, observer, Moves
  <2> QED BY <2>3, <2>8, <2>9, <2>10 DEF Shape
<1>5. CASE TraceTimesOut(t)
  <2> DEFINE r == [task[t] EXCEPT !.pc = "cleanup", !.res = "no hit"]
  <2>1. /\ task[t].pc = "tracing"
        /\ task[t].op = "trace"
    BY <1>5, <1>1 DEF TraceTimesOut, At, InProgram, WaitPcs, TracePcs, WithPcs
  <2>2. task' = [task EXCEPT ![t] = r]
    BY <1>1, <1>5, <2>1 DEF TraceTimesOut, emulator, observer, TaskType
  <2>3. r \in TaskType BY <1>1, <2>1 DEF TaskType, Labels, OpNames, Outcomes
  <2>4. /\ r.pc = "cleanup" /\ r.op = task[t].op /\ r.ret = task[t].ret /\ r.out = task[t].out
        /\ r.hold = task[t].hold /\ r.bp = task[t].bp /\ r.res = "no hit" /\ r.late = task[t].late
        /\ r.since = task[t].since /\ r.rounds = task[t].rounds /\ r.clean = task[t].clean
    BY <1>1 DEF TaskType
  <2> HIDE DEF r
  <2>5. InProgram(r) BY <1>1, <2>1, <2>4 DEF InProgram, WaitPcs, TracePcs, WithPcs
  <2>6. Told(r) BY <1>1, <2>1, <2>4 DEF Told, Traces, HasTraced, WithPcs
  <2>7. Lawful(task[t], r, None)
    BY <1>1, <2>1, <2>4, NoName
       DEF Lawful, Told, Excuses, Holds, Traces, HasTraced, WithPcs, Outcomes
  <2>8. Hears(t, r)
    BY <1>5, <1>1, <2>1, <2>3, <2>4, Hearing, Keeping, NoName
       DEF TraceTimesOut, emulator, observer, Hears, Subscribers, OpNames, Outcomes
  <2>9. Drains(r) /\ Arms(t, r)
    BY <1>5, <1>1, <2>1, <2>4
       DEF TraceTimesOut, emulator, observer, Drains, Arms, Traces, WithPcs
  <2>10. Moves(t, r, None)
    BY <1>5, <2>2, <2>5, <2>6, <2>7, <2>1 DEF TraceTimesOut, emulator, observer, Moves
  <2> QED BY <2>3, <2>8, <2>9, <2>10 DEF Shape
<1>6. CASE TraceCancelled(t)
  <2> DEFINE r == [task[t] EXCEPT !.pc = "cleanup", !.res = "cancelled"]
  <2>1. task[t].pc \in {"tracing", "capture", "disarm"} /\ task[t].op = "trace"
    BY <1>6, <1>1 DEF TraceCancelled, At, InProgram, WaitPcs, TracePcs, WithPcs
  <2>2. task' = [task EXCEPT ![t] = r]
    BY <1>1, <1>6, <2>1 DEF TraceCancelled, emulator, observer, TaskType
  <2>3. r \in TaskType BY <1>1, <2>1 DEF TaskType, Labels, Outs, OpNames, Outcomes
  <2>4. /\ r.pc = "cleanup" /\ r.op = task[t].op /\ r.ret = task[t].ret /\ r.out = task[t].out
        /\ r.hold = task[t].hold /\ r.bp = task[t].bp /\ r.res = "cancelled" /\ r.late = task[t].late
        /\ r.since = task[t].since /\ r.rounds = task[t].rounds /\ r.clean = task[t].clean
    BY <1>1 DEF TaskType
  <2> HIDE DEF r
  <2>5. InProgram(r) BY <1>1, <2>1, <2>4 DEF InProgram, WaitPcs, TracePcs, WithPcs
  <2>6. Told(r) BY <1>1, <2>1, <2>4 DEF Told, Traces, HasTraced, WithPcs
  <2>7. Lawful(task[t], r, None)
    BY <1>1, <2>1, <2>4, NoName
       DEF Lawful, Told, Excuses, Holds, Traces, HasTraced, WithPcs, Outcomes
  <2>8. Hears(t, r)
    BY <1>6, <1>1, <2>1, <2>3, <2>4, StillHears, NoName DEF TraceCancelled, emulator, observer, Outcomes
  <2>9. Drains(r) /\ Arms(t, r)
    BY <1>6, <1>1, <2>1, <2>4 DEF TraceCancelled, emulator, observer, Drains, Arms, Traces, WithPcs
  <2>10. Moves(t, r, None)
    BY <1>6, <2>2, <2>5, <2>6, <2>7, <2>1 DEF TraceCancelled, emulator, observer, Moves
  <2> QED BY <2>3, <2>8, <2>9, <2>10 DEF Shape
<1>7. CASE Cleanup(t)
  <2>1. CASE armed' = armed \ {task[t].bp} /\ End(t, task[t].res)
    <3> DEFINE r == [task[t] EXCEPT !.pc = "done", !.res = task[t].res]
    <3>1. task[t].pc = "cleanup" /\ task[t].op = "trace"
      BY <1>7, <2>1, <1>1 DEF Cleanup, At, InProgram, WaitPcs, TracePcs, WithPcs
    <3>2. task' = [task EXCEPT ![t] = r]
      BY <1>1, <1>7, <2>1, <3>1 DEF Cleanup, End, emulator, observer, TaskType
    <3>3. r \in TaskType BY <1>1, <3>1 DEF TaskType, Labels, Outs, OpNames, Outcomes
    <3>4. /\ r.pc = "done" /\ r.op = task[t].op /\ r.ret = task[t].ret /\ r.out = task[t].out
          /\ r.hold = task[t].hold /\ r.bp = task[t].bp /\ r.res = task[t].res /\ r.late = task[t].late
          /\ r.since = task[t].since /\ r.rounds = task[t].rounds /\ r.clean = task[t].clean
      BY <1>1 DEF TaskType
    <3> HIDE DEF r
    <3>5. InProgram(r) BY <1>1, <3>1, <3>4 DEF InProgram, WaitPcs, TracePcs, WithPcs
    <3>6. Told(r) BY <1>1, <3>1, <3>4 DEF Told, Traces, HasTraced, WithPcs
    <3>7. Lawful(task[t], r, None)
      BY <1>1, <3>1, <3>4, NoName
         DEF Lawful, Told, Excuses, Holds, Traces, HasTraced, WithPcs, Outcomes
    <3>8. Hears(t, r)
      BY <1>7, <2>1, <1>1, <3>1, <3>3, <3>4, Hearing, Keeping, NoName
         DEF Cleanup, End, emulator, observer, Hears, Subscribers, OpNames, Outcomes
    <3>9. Drains(r) /\ Arms(t, r)
      BY <1>7, <2>1, <1>1, <3>1, <3>4 DEF Cleanup, End, emulator, observer, Drains, Arms, Traces, WithPcs
    <3>10. Moves(t, r, None)
      BY <1>7, <2>1, <3>2, <3>5, <3>6, <3>7, <3>1 DEF Cleanup, End, emulator, observer, Moves
    <3> QED BY <3>3, <3>8, <3>9, <3>10 DEF Shape
  <2>2. CASE armed' = armed /\ End(t, "left armed")
    <3> DEFINE r == [task[t] EXCEPT !.pc = "done", !.res = "left armed"]
    <3>1. task[t].pc = "cleanup" /\ task[t].op = "trace"
      BY <1>7, <2>2, <1>1 DEF Cleanup, At, InProgram, WaitPcs, TracePcs, WithPcs
    <3>2. task' = [task EXCEPT ![t] = r]
      BY <1>1, <1>7, <2>2, <3>1 DEF Cleanup, End, emulator, observer, TaskType
    <3>3. r \in TaskType BY <1>1, <3>1 DEF TaskType, Labels, Outs, OpNames, Outcomes
    <3>4. /\ r.pc = "done" /\ r.op = task[t].op /\ r.ret = task[t].ret /\ r.out = task[t].out
          /\ r.hold = task[t].hold /\ r.bp = task[t].bp /\ r.res = "left armed" /\ r.late = task[t].late
          /\ r.since = task[t].since /\ r.rounds = task[t].rounds /\ r.clean = task[t].clean
      BY <1>1 DEF TaskType
    <3> HIDE DEF r
    <3>5. InProgram(r) BY <1>1, <3>1, <3>4 DEF InProgram, WaitPcs, TracePcs, WithPcs
    <3>6. Told(r) BY <1>1, <3>1, <3>4 DEF Told, Traces, HasTraced, WithPcs
    <3>7. Lawful(task[t], r, None)
      BY <1>1, <3>1, <3>4, NoName
         DEF Lawful, Told, Excuses, Holds, Traces, HasTraced, WithPcs, Outcomes
    <3>8. Hears(t, r)
      BY <1>7, <2>2, <1>1, <3>1, <3>3, <3>4, Hearing, Keeping, NoName
         DEF Cleanup, End, emulator, observer, Hears, Subscribers, OpNames, Outcomes
    <3>9. Drains(r) /\ Arms(t, r)
      BY <1>7, <2>2, <1>1, <3>1, <3>4 DEF Cleanup, End, emulator, observer, Drains, Arms, Traces, WithPcs
    <3>10. Moves(t, r, None)
      BY <1>7, <2>2, <3>2, <3>5, <3>6, <3>7, <3>1 DEF Cleanup, End, emulator, observer, Moves
    <3> QED BY <3>3, <3>8, <3>9, <3>10 DEF Shape
  <2> QED BY <1>7, <2>1, <2>2 DEF Cleanup
<1>8. CASE StatsTakes(t)
  <2> DEFINE r == [task[t] EXCEPT !.rounds = task[t].rounds + 1]
  <2>1. /\ task[t].pc = "sampling" /\ subs[t] # None
        /\ task[t].op = "stats"
    BY <1>8, <1>1, Taken
       DEF StatsTakes, At, InProgram, WaitPcs, TracePcs, WithPcs, Subscribers
  <2>2. task' = [task EXCEPT ![t] = r]
    BY <1>1, <1>8, <2>1 DEF StatsTakes, emulator, TaskType
  <2>3. r \in TaskType BY <1>1, <2>1 DEF TaskType
  <2>4. /\ r.pc = task[t].pc /\ r.op = task[t].op /\ r.ret = task[t].ret /\ r.out = task[t].out
        /\ r.hold = task[t].hold /\ r.bp = task[t].bp /\ r.res = task[t].res /\ r.late = task[t].late
        /\ r.since = task[t].since /\ r.rounds = task[t].rounds + 1 /\ r.clean = task[t].clean
    BY <1>1 DEF TaskType
  <2> HIDE DEF r
  <2>5. InProgram(r) BY <1>1, <2>1, <2>4 DEF InProgram, WaitPcs, TracePcs, WithPcs
  <2>6. Told(r) BY <1>1, <2>1, <2>4 DEF Told, Traces, HasTraced, WithPcs
  <2>7. Lawful(task[t], r, None)
    BY <1>1, <2>1, <2>4, NoName
       DEF Lawful, Told, Excuses, Holds, Traces, HasTraced, WithPcs, Outcomes
  <2>8. Hears(t, r)
    BY <1>8, <1>1, <2>1, <2>3, <2>4, Hearing, Keeping, NoName
       DEF StatsTakes, emulator, Hears, Subscribers, OpNames, Outcomes
  <2>9. Drains(r) /\ Arms(t, r)
    BY <1>8, <1>1, <2>1, <2>4 DEF StatsTakes, emulator, Drains, Arms, Traces, WithPcs
  <2>10. Moves(t, r, None)
    BY <1>8, <2>2, <2>5, <2>6, <2>7, <2>1 DEF StatsTakes, emulator, Moves
  <2> QED BY <2>3, <2>8, <2>9, <2>10 DEF Shape
<1>9. CASE StatsEnds(t)
  <2> DEFINE r == [task[t] EXCEPT !.pc = "done", !.res = "stats"]
  <2>1. /\ task[t].pc = "sampling"
        /\ task[t].op = "stats"
    BY <1>9, <1>1 DEF StatsEnds, At, InProgram
  <2>2. task' = [task EXCEPT ![t] = r]
    BY <1>1, <1>9, <2>1 DEF StatsEnds, End, emulator, observer, TaskType
  <2>3. r \in TaskType BY <1>1, <2>1 DEF TaskType, Labels, OpNames, Outcomes
  <2>4. /\ r.pc = "done" /\ r.op = task[t].op /\ r.ret = task[t].ret /\ r.out = task[t].out
        /\ r.hold = task[t].hold /\ r.bp = task[t].bp /\ r.res = "stats" /\ r.late = task[t].late
        /\ r.since = task[t].since /\ r.rounds = task[t].rounds /\ r.clean = task[t].clean
    BY <1>1 DEF TaskType
  <2> HIDE DEF r
  <2>5. InProgram(r) BY <1>1, <2>1, <2>4 DEF InProgram, WaitPcs, TracePcs, WithPcs
  <2>6. Told(r) BY <1>1, <2>1, <2>4 DEF Told, Traces, HasTraced, WithPcs
  <2>7. Lawful(task[t], r, None)
    BY <1>1, <2>1, <2>4, NoName
       DEF Lawful, Told, Excuses, Holds, Traces, HasTraced, WithPcs, Outcomes
  <2>8. Hears(t, r)
    BY <1>9, <1>1, <2>1, <2>3, <2>4, Hearing, Keeping, NoName
       DEF StatsEnds, End, emulator, observer, Hears, Subscribers, OpNames, Outcomes
  <2>9. Drains(r) /\ Arms(t, r)
    BY <1>9, <1>1, <2>1, <2>4
       DEF StatsEnds, End, emulator, observer, Drains, Arms, Traces, WithPcs
  <2>10. Moves(t, r, None)
    BY <1>9, <2>2, <2>5, <2>6, <2>7, <2>1 DEF StatsEnds, End, emulator, observer, Moves
  <2> QED BY <2>3, <2>8, <2>9, <2>10 DEF Shape
<1>10. CASE Traced(t)
  <2> DEFINE r == [task[t] EXCEPT !.pc = "done", !.res = "trace"]
  <2>1. task[t].pc = "traced" /\ task[t].op = "trace"
    BY <1>10, <1>1 DEF Traced, At, InProgram, WaitPcs, TracePcs, WithPcs
  <2>2. task' = [task EXCEPT ![t] = r]
    BY <1>1, <1>10, <2>1 DEF Traced, End, emulator, observer, TaskType
  <2>3. r \in TaskType BY <1>1, <2>1 DEF TaskType, Labels, Outs, OpNames, Outcomes
  <2>4. /\ r.pc = "done" /\ r.op = task[t].op /\ r.ret = task[t].ret /\ r.out = task[t].out
        /\ r.hold = task[t].hold /\ r.bp = task[t].bp /\ r.res = "trace" /\ r.late = task[t].late
        /\ r.since = task[t].since /\ r.rounds = task[t].rounds /\ r.clean = task[t].clean
    BY <1>1 DEF TaskType
  <2> HIDE DEF r
  <2>5. InProgram(r) BY <1>1, <2>1, <2>4 DEF InProgram, WaitPcs, TracePcs, WithPcs
  <2>6. Told(r) BY <1>1, <2>1, <2>4 DEF Told, Traces, HasTraced, WithPcs
  <2>7. Lawful(task[t], r, None)
    BY <1>1, <2>1, <2>4, NoName
       DEF Lawful, Told, Excuses, Holds, Traces, HasTraced, WithPcs, Outcomes
  <2>8. Hears(t, r)
    BY <1>10, <1>1, <2>1, <2>3, <2>4, Hearing, Keeping, NoName
       DEF Traced, End, emulator, observer, Hears, Subscribers, OpNames, Outcomes
  <2>9. Drains(r) /\ Arms(t, r)
    BY <1>10, <1>1, <2>1, <2>4 DEF Traced, End, emulator, observer, Drains, Arms, Traces, WithPcs
  <2>10. Moves(t, r, None)
    BY <1>10, <2>2, <2>5, <2>6, <2>7, <2>1 DEF Traced, End, emulator, observer, Moves
  <2> QED BY <2>3, <2>8, <2>9, <2>10 DEF Shape
<1> QED BY <1>2, <1>3, <1>4, <1>5, <1>6, <1>7, <1>8, <1>9, <1>10

\* A trace whose capture fails.
LEMMA FailShape ==
    ASSUME TypeInv, NEW t \in Tasks, CaptureFails(t) \/ Fail(t) \/ Recover(t) \/ Release(t)
    PROVE  Shape(t)
<1>1. /\ task \in [Tasks -> TaskType] /\ task[t] \in TaskType
      /\ InProgram(task[t]) /\ Told(task[t])
      /\ armed \subseteq Bps \cup {Until} /\ filters \subseteq Bps /\ lock \in Tasks \cup {None}
      /\ cpu.ticks \in Nat /\ task[t].rounds \in Nat /\ task[t].rounds + 1 \in Nat
  BY TaskTyped DEF TaskType
<1>2. CASE CaptureFails(t)
  <2> DEFINE r == [task[t] EXCEPT !.pc = "failed"]
  <2>1. task[t].pc = "disarm" /\ task[t].op = "trace" /\ task[t].out = "disarm"
    BY <1>2, <1>1 DEF CaptureFails, At, InProgram, WaitPcs, TracePcs, WithPcs
  <2>2. task' = [task EXCEPT ![t] = r]
    BY <1>1, <1>2, <2>1 DEF CaptureFails, Goto, observer, TaskType
  <2>3. r \in TaskType BY <1>1, <2>1 DEF TaskType, Labels, Outs, OpNames, Outcomes
  <2>4. /\ r.pc = "failed" /\ r.op = task[t].op /\ r.ret = task[t].ret /\ r.out = task[t].out
        /\ r.hold = task[t].hold /\ r.bp = task[t].bp /\ r.res = task[t].res /\ r.late = task[t].late
        /\ r.since = task[t].since /\ r.rounds = task[t].rounds /\ r.clean = task[t].clean
    BY <1>1 DEF TaskType
  <2> HIDE DEF r
  <2>5. InProgram(r) BY <1>1, <2>1, <2>4 DEF InProgram, WaitPcs, TracePcs, WithPcs
  <2>6. Told(r) BY <1>1, <2>1, <2>4 DEF Told, Traces, HasTraced, WithPcs
  <2>7. Lawful(task[t], r, None)
    BY <1>1, <2>1, <2>4, NoName
       DEF Lawful, Told, Excuses, Holds, Traces, HasTraced, WithPcs, Outcomes
  <2>8. Hears(t, r)
    BY <1>2, <1>1, <2>1, <2>3, <2>4, StillHears, NoName DEF CaptureFails, Goto, observer, Outcomes
  <2>9. Drains(r) /\ Arms(t, r)
    BY <1>2, <1>1, <2>1, <2>4 DEF CaptureFails, Goto, observer, Drains, Arms, Traces, WithPcs
  <2>10. Moves(t, r, None)
    BY <1>2, <2>2, <2>5, <2>6, <2>7, <2>1 DEF CaptureFails, Goto, observer, Moves
  <2> QED BY <2>3, <2>8, <2>9, <2>10 DEF Shape
<1>3. CASE Fail(t)
  <2>1. CASE task[t].out = "traced"
    <3> DEFINE r == [task[t] EXCEPT !.pc = "recover", !.res = "trace failed", !.out = "return"]
    <3>1. task[t].pc = "failed" /\ task[t].op = "trace"
      BY <1>3, <2>1, <1>1 DEF Fail, At, InProgram, WaitPcs, TracePcs, WithPcs
    <3>2. task' = [task EXCEPT ![t] = r]
      BY <1>1, <1>3, <2>1, <3>1 DEF Fail, emulator, observer, TaskType
    <3>3. r \in TaskType BY <1>1, <3>1 DEF TaskType, Labels, Outs, OpNames, Outcomes
    <3>4. /\ r.pc = "recover" /\ r.op = task[t].op /\ r.ret = task[t].ret /\ r.out = "return"
          /\ r.hold = task[t].hold /\ r.bp = task[t].bp /\ r.res = "trace failed" /\ r.late = task[t].late
          /\ r.since = task[t].since /\ r.rounds = task[t].rounds /\ r.clean = task[t].clean
      BY <1>1 DEF TaskType
    <3> HIDE DEF r
    <3>5. InProgram(r) BY <1>1, <3>1, <3>4 DEF InProgram, WaitPcs, TracePcs, WithPcs
    <3>6. Told(r) BY <1>1, <3>1, <3>4 DEF Told, Traces, HasTraced, WithPcs
    <3>7. Lawful(task[t], r, None)
      BY <1>1, <3>1, <3>4, NoName
         DEF Lawful, Told, Excuses, Holds, Traces, HasTraced, WithPcs, Outcomes
    <3>8. Hears(t, r)
      BY <1>3, <2>1, <1>1, <3>1, <3>3, <3>4, StillHears, NoName DEF Fail, emulator, observer, Outcomes
    <3>9. Drains(r) /\ Arms(t, r)
      BY <1>3, <2>1, <1>1, <3>1, <3>4 DEF Fail, emulator, observer, Drains, Arms, Traces, WithPcs
    <3>10. Moves(t, r, None)
      BY <1>3, <2>1, <3>2, <3>5, <3>6, <3>7, <3>1 DEF Fail, emulator, observer, Moves
    <3> QED BY <3>3, <3>8, <3>9, <3>10 DEF Shape
  <2>2. CASE task[t].out # "traced"
    <3> DEFINE r == [task[t] EXCEPT !.pc = "recover", !.res = "trace failed", !.out = "release"]
    <3>1. task[t].pc = "failed" /\ task[t].op = "trace" /\ task[t].out = "disarm"
      BY <1>3, <2>2, <1>1 DEF Fail, At, InProgram, WaitPcs, TracePcs, WithPcs
    <3>2. task' = [task EXCEPT ![t] = r]
      BY <1>1, <1>3, <2>2, <3>1 DEF Fail, emulator, observer, TaskType
    <3>3. r \in TaskType BY <1>1, <3>1 DEF TaskType, Labels, Outs, OpNames, Outcomes
    <3>4. /\ r.pc = "recover" /\ r.op = task[t].op /\ r.ret = task[t].ret /\ r.out = "release"
          /\ r.hold = task[t].hold /\ r.bp = task[t].bp /\ r.res = "trace failed" /\ r.late = task[t].late
          /\ r.since = task[t].since /\ r.rounds = task[t].rounds /\ r.clean = task[t].clean
      BY <1>1 DEF TaskType
    <3> HIDE DEF r
    <3>5. InProgram(r) BY <1>1, <3>1, <3>4 DEF InProgram, WaitPcs, TracePcs, WithPcs
    <3>6. Told(r) BY <1>1, <3>1, <3>4 DEF Told, Traces, HasTraced, WithPcs
    <3>7. Lawful(task[t], r, None)
      BY <1>1, <3>1, <3>4, NoName
         DEF Lawful, Told, Excuses, Holds, Traces, HasTraced, WithPcs, Outcomes
    <3>8. Hears(t, r)
      BY <1>3, <2>2, <1>1, <3>1, <3>3, <3>4, StillHears, NoName DEF Fail, emulator, observer, Outcomes
    <3>9. Drains(r) /\ Arms(t, r)
      BY <1>3, <2>2, <1>1, <3>1, <3>4 DEF Fail, emulator, observer, Drains, Arms, Traces, WithPcs
    <3>10. Moves(t, r, None)
      BY <1>3, <2>2, <3>2, <3>5, <3>6, <3>7, <3>1 DEF Fail, emulator, observer, Moves
    <3> QED BY <3>3, <3>8, <3>9, <3>10 DEF Shape
  <2> QED BY <2>1, <2>2
<1>4. CASE Recover(t)
  <2>1. CASE lock' = t /\ task' = [task EXCEPT ![t].pc = "leave", ![t].hold = TRUE]
    <3> DEFINE r == [task[t] EXCEPT !.pc = "leave", !.hold = TRUE]
    <3>1. task[t].pc = "recover" /\ task[t].op = "trace" /\ task[t].out \in {"release", "return"}
      BY <1>4, <2>1, <1>1 DEF Recover, At, InProgram, WaitPcs, TracePcs, WithPcs
    <3>2. task' = [task EXCEPT ![t] = r]
      BY <1>1, <1>4, <2>1, <3>1 DEF Recover, emulator, observer, TaskType
    <3>3. r \in TaskType BY <1>1, <3>1 DEF TaskType, Labels, Outs, OpNames, Outcomes
    <3>4. /\ r.pc = "leave" /\ r.op = task[t].op /\ r.ret = task[t].ret /\ r.out = task[t].out
          /\ r.hold = TRUE /\ r.bp = task[t].bp /\ r.res = task[t].res /\ r.late = task[t].late
          /\ r.since = task[t].since /\ r.rounds = task[t].rounds /\ r.clean = task[t].clean
      BY <1>1 DEF TaskType
    <3> HIDE DEF r
    <3>5. InProgram(r) BY <1>1, <3>1, <3>4 DEF InProgram, WaitPcs, TracePcs, WithPcs
    <3>6. Told(r) BY <1>1, <3>1, <3>4 DEF Told, Traces, HasTraced, WithPcs
    <3>7. Lawful(task[t], r, None)
      BY <1>1, <3>1, <3>4, NoName
         DEF Lawful, Told, Excuses, Holds, Traces, HasTraced, WithPcs, Outcomes
    <3>8. Hears(t, r)
      <4>1. subs' = subs BY <1>4 DEF Recover, observer
      <4> QED BY <1>1, <3>1, <3>3, <3>4, <4>1, StillHears, NoName DEF Outcomes
    <3>9. Drains(r) /\ Arms(t, r)
      BY <1>4, <2>1, <1>1, <3>1, <3>4 DEF Recover, emulator, observer, Drains, Arms, Traces, WithPcs
    <3>10. Moves(t, r, None)
      BY <1>4, <2>1, <3>2, <3>5, <3>6, <3>7, <3>1 DEF Recover, emulator, observer, Moves
    <3> QED BY <3>3, <3>8, <3>9, <3>10 DEF Shape
  <2>2. CASE /\ task[t].out = "release" /\ lock' = lock
             /\ task' = [task EXCEPT ![t].res = "left paused", ![t].pc = "cleanup"]
    <3> DEFINE r == [task[t] EXCEPT !.pc = "cleanup", !.res = "left paused"]
    <3>1. task[t].pc = "recover" /\ task[t].op = "trace" /\ task[t].out = "release"
      BY <1>4, <2>2, <1>1 DEF Recover, At, InProgram, WaitPcs, TracePcs, WithPcs
    <3>2. task' = [task EXCEPT ![t] = r]
      BY <1>1, <1>4, <2>2, <3>1 DEF Recover, emulator, observer, TaskType
    <3>3. r \in TaskType BY <1>1, <3>1 DEF TaskType, Labels, Outs, OpNames, Outcomes
    <3>4. /\ r.pc = "cleanup" /\ r.op = task[t].op /\ r.ret = task[t].ret /\ r.out = task[t].out
          /\ r.hold = task[t].hold /\ r.bp = task[t].bp /\ r.res = "left paused" /\ r.late = task[t].late
          /\ r.since = task[t].since /\ r.rounds = task[t].rounds /\ r.clean = task[t].clean
      BY <1>1 DEF TaskType
    <3> HIDE DEF r
    <3>5. InProgram(r) BY <1>1, <3>1, <3>4 DEF InProgram, WaitPcs, TracePcs, WithPcs
    <3>6. Told(r) BY <1>1, <3>1, <3>4 DEF Told, Traces, HasTraced, WithPcs
    <3>7. Lawful(task[t], r, None)
      BY <1>1, <3>1, <3>4, NoName
         DEF Lawful, Told, Excuses, Holds, Traces, HasTraced, WithPcs, Outcomes
    <3>8. Hears(t, r)
      BY <1>4, <2>2, <1>1, <3>1, <3>3, <3>4, StillHears, NoName DEF Recover, emulator, observer, Outcomes
    <3>9. Drains(r) /\ Arms(t, r)
      BY <1>4, <2>2, <1>1, <3>1, <3>4 DEF Recover, emulator, observer, Drains, Arms, Traces, WithPcs
    <3>10. Moves(t, r, None)
      BY <1>4, <2>2, <3>2, <3>5, <3>6, <3>7, <3>1 DEF Recover, emulator, observer, Moves
    <3> QED BY <3>3, <3>8, <3>9, <3>10 DEF Shape
  <2>3. CASE /\ task[t].out # "release" /\ lock' = lock
             /\ task' = [task EXCEPT ![t].res = "left paused", ![t].pc = "return"]
    <3> DEFINE r == [task[t] EXCEPT !.pc = "return", !.res = "left paused"]
    <3>1. task[t].pc = "recover" /\ task[t].op = "trace" /\ task[t].out = "return"
      BY <1>4, <2>3, <1>1 DEF Recover, At, InProgram, WaitPcs, TracePcs, WithPcs
    <3>2. task' = [task EXCEPT ![t] = r]
      BY <1>1, <1>4, <2>3, <3>1 DEF Recover, emulator, observer, TaskType
    <3>3. r \in TaskType BY <1>1, <3>1 DEF TaskType, Labels, Outs, OpNames, Outcomes
    <3>4. /\ r.pc = "return" /\ r.op = task[t].op /\ r.ret = task[t].ret /\ r.out = task[t].out
          /\ r.hold = task[t].hold /\ r.bp = task[t].bp /\ r.res = "left paused" /\ r.late = task[t].late
          /\ r.since = task[t].since /\ r.rounds = task[t].rounds /\ r.clean = task[t].clean
      BY <1>1 DEF TaskType
    <3> HIDE DEF r
    <3>5. InProgram(r)
      BY <1>1, <3>1, <3>4, NoName DEF InProgram, WaitPcs, TracePcs, WithPcs, OpNames
    <3>6. Told(r) BY <1>1, <3>1, <3>4 DEF Told, Traces, HasTraced, WithPcs
    <3>7. Lawful(task[t], r, None)
      BY <1>1, <3>1, <3>4, NoName
         DEF Lawful, Told, Excuses, Holds, Traces, HasTraced, WithPcs, Outcomes
    <3>8. Hears(t, r)
      BY <1>4, <2>3, <1>1, <3>1, <3>3, <3>4, StillHears, NoName DEF Recover, emulator, observer, Outcomes
    <3>9. Drains(r) /\ Arms(t, r)
      BY <1>4, <2>3, <1>1, <3>1, <3>4 DEF Recover, emulator, observer, Drains, Arms, Traces, WithPcs
    <3>10. Moves(t, r, None)
      BY <1>4, <2>3, <3>2, <3>5, <3>6, <3>7, <3>1 DEF Recover, emulator, observer, Moves
    <3> QED BY <3>3, <3>8, <3>9, <3>10 DEF Shape
  <2> QED BY <1>4, <2>1, <2>2, <2>3 DEF Recover
<1>5. CASE Release(t)
  <2> DEFINE r == [task[t] EXCEPT !.pc = "cleanup"]
  <2>1. task[t].pc = "release" /\ task[t].op = "trace" /\ task[t].out = "release"
    BY <1>5, <1>1 DEF Release, At, InProgram, WaitPcs, TracePcs, WithPcs
  <2>2. task' = [task EXCEPT ![t] = r]
    BY <1>1, <1>5, <2>1 DEF Release, Goto, emulator, observer, TaskType
  <2>3. r \in TaskType BY <1>1, <2>1 DEF TaskType, Labels, Outs, OpNames, Outcomes
  <2>4. /\ r.pc = "cleanup" /\ r.op = task[t].op /\ r.ret = task[t].ret /\ r.out = task[t].out
        /\ r.hold = task[t].hold /\ r.bp = task[t].bp /\ r.res = task[t].res /\ r.late = task[t].late
        /\ r.since = task[t].since /\ r.rounds = task[t].rounds /\ r.clean = task[t].clean
    BY <1>1 DEF TaskType
  <2> HIDE DEF r
  <2>5. InProgram(r) BY <1>1, <2>1, <2>4 DEF InProgram, WaitPcs, TracePcs, WithPcs
  <2>6. Told(r) BY <1>1, <2>1, <2>4 DEF Told, Traces, HasTraced, WithPcs
  <2>7. Lawful(task[t], r, None)
    BY <1>1, <2>1, <2>4, NoName
       DEF Lawful, Told, Excuses, Holds, Traces, HasTraced, WithPcs, Outcomes
  <2>8. Hears(t, r)
    BY <1>5, <1>1, <2>1, <2>3, <2>4, StillHears, NoName DEF Release, Goto, emulator, observer, Outcomes
  <2>9. Drains(r) /\ Arms(t, r)
    BY <1>5, <1>1, <2>1, <2>4 DEF Release, Goto, emulator, observer, Drains, Arms, Traces, WithPcs
  <2>10. Moves(t, r, None)
    BY <1>5, <2>2, <2>5, <2>6, <2>7, <2>1 DEF Release, Goto, emulator, observer, Moves
  <2> QED BY <2>3, <2>8, <2>9, <2>10 DEF Shape
<1> QED BY <1>2, <1>3, <1>4, <1>5

LEMMA CallShape ==
    ASSUME TypeInv, NEW t \in Tasks, (CpuStep(t) /\ UNCHANGED filters) \/ WaitStep(t)
    PROVE  Shape(t)
<1>1. CASE UNCHANGED filters /\ \E o \in Ops : Begin(t, o)
  <2>1. PICK o \in Ops : Begin(t, o) BY <1>1
  <2> QED BY <1>1, <2>1, BeginShape
<1>2. CASE UNCHANGED filters /\ (Acquire(t) \/ Return(t) \/ PauseTimesOut(t))
  BY <1>2, EndShape
<1>3. CASE UNCHANGED filters /\ CpuStep(t)
  <2>1. CASE Probe(t) \/ ProbeFails(t) \/ Stop(t) \/ Paused(t) \/ Body(t)
    BY <1>3, <2>1, PauseShape
  <2>2. CASE Leave(t) \/ ResumedByBroadcast(t) \/ ResumedByPoll(t)
    BY <1>3, <2>2, ResumeShape
  <2>3. CASE Prepare(t) \/ Fire(t) \/ Confirm(t) \/ ConfirmTimesOut(t) \/ CancelCpu(t)
    BY <1>3, <2>3, StepShape
  <2> QED BY <1>1, <1>2, <1>3, <2>1, <2>2, <2>3 DEF CpuStep
<1>4. CASE \E b \in Bps : SetArm(t, b) \/ Update(t, b) \/ Remove(t, b) \/ TraceArm(t, b)
  <2>1. PICK b \in Bps : SetArm(t, b) \/ Update(t, b) \/ Remove(t, b) \/ TraceArm(t, b)
    BY <1>4
  <2> QED BY <2>1, EditShape
<1>5. CASE WaitStep(t)
  BY <1>4, <1>5, WaitShape, TraceShape, FailShape DEF WaitStep
<1> QED BY <1>3, <1>5

-----------------------------------------------------------------------------
(* The types *)

\* The first entry of a queue taken out of it, and one added at its end.
LEMMA Popped ==
    ASSUME NEW S, NEW q \in Seq(S), q # <<>>
    PROVE  /\ Len(q) \in Nat /\ Len(q) >= 1 /\ Head(q) \in S /\ Head(q) = q[1]
           /\ Tail(q) \in Seq(S) /\ Len(Tail(q)) = Len(q) - 1
           /\ \A i \in 1 .. Len(Tail(q)) : Tail(q)[i] = q[i + 1] /\ i + 1 \in 1 .. Len(q)
<1>1. Len(q) \in Nat \ {0} BY EmptySeq
<1>2. /\ Head(q) \in S /\ Tail(q) \in Seq(S) /\ Len(Tail(q)) = Len(q) - 1
      /\ \A i \in 1 .. Len(Tail(q)) : Tail(q)[i] = q[i + 1]
  BY HeadTailProperties
<1>3. Head(q) = q[1] OBVIOUS
<1> QED BY <1>1, <1>2, <1>3

LEMMA Pushed ==
    ASSUME NEW S, NEW q \in Seq(S), NEW m \in S
    PROVE  /\ Append(q, m) \in Seq(S) /\ Append(q, m) # <<>> /\ Len(q) \in Nat
           /\ Len(Append(q, m)) = Len(q) + 1 /\ Append(q, m)[Len(q) + 1] = m
           /\ \A i \in 1 .. Len(q) : Append(q, m)[i] = q[i] /\ i \in 1 .. Len(q) + 1
<1>1. Len(q) \in Nat BY LenProperties
<1>2. /\ Append(q, m) \in Seq(S) /\ Len(Append(q, m)) = Len(q) + 1
      /\ \A i \in 1 .. Len(q) : Append(q, m)[i] = q[i]
      /\ Append(q, m)[Len(q) + 1] = m
  BY AppendProperties
<1>3. Append(q, m) # <<>> BY <1>1, <1>2, EmptySeq
<1> QED BY <1>1, <1>2, <1>3

LEMMA InitTypes == Init => TypeInv
<1> SUFFICES ASSUME Init PROVE TypeInv
  OBVIOUS
<1> USE CpuAssumption DEF Init, CpuInit
<1>0. <<>> \in Seq(CmdType) /\ <<>> \in Seq(Broadcasts) /\ Len(<<>>) = 0 BY EmptySeq
<1>1. EmulatorTyped BY <1>0 DEF EmulatorTyped, CpuType, Bys
<1>2. ObserverTyped BY <1>0 DEF ObserverTyped
<1>3. Idle \in TaskType BY DEF Idle, TaskType, Labels, Bys
<1>4. CallsTyped BY <1>3 DEF CallsTyped
<1>5. TicksInOrder BY <1>0 DEF TicksInOrder
<1>6. InProgram(Idle) /\ Told(Idle)
  BY NoName
     DEF Idle, InProgram, Told, Traces, HasTraced, WaitPcs, TracePcs, WithPcs, OpNames,
         Outcomes
<1>7. \A t \in Tasks : task[t] = Idle /\ Subscribed(t)
  BY DEF Subscribed, Idle
<1> QED BY <1>1, <1>2, <1>4, <1>5, <1>6, <1>7 DEF TypeInv

LEMMA CallTypes ==
    ASSUME TypeInv, NEW t \in Tasks, Shape(t), UNCHANGED heard
    PROVE  TypeInv'
<1>1. PICK r \in TaskType, e \in Events \cup {None} :
           Moves(t, r, e) /\ Hears(t, r) /\ Drains(r) /\ Arms(t, r)
  BY DEF Shape
<1>2. /\ task \in [Tasks -> TaskType] /\ subs \in [Tasks -> Seq(Broadcasts) \cup {None}]
      /\ cmds \in Seq(CmdType) /\ resumeQ \in Seq(Broadcasts) /\ stepQ \in Seq(Broadcasts)
      /\ Len(resumeQ) <= EventQueueMax /\ Len(stepQ) <= EventQueueMax /\ EventQueueMax \in Nat
      /\ cpu \in CpuType /\ wire \in Seq(Broadcasts)
  BY CpuAssumption DEF TypeInv, CallsTyped, ObserverTyped, EmulatorTyped
<1>3. EmulatorTyped'
  <2>1. e # None => Request(e, t) \in CmdType BY DEF Request, CmdType
  <2>2. cmds' \in Seq(CmdType) BY <1>1, <1>2, <2>1, AppendProperties DEF Moves
  <2> QED BY <1>1, <1>2, <2>2 DEF Moves, EmulatorTyped, Arms
<1>4. ObserverTyped'
  <2>1. resumeQ' \in Seq(Broadcasts) /\ Len(resumeQ') <= EventQueueMax
    <3>1. CASE resumeQ' = resumeQ BY <1>2, <3>1
    <3>2. CASE resumeQ' = <<>> BY <1>2, <3>2, EmptySeq
    <3>3. CASE resumeQ # <<>> /\ resumeQ' = Tail(resumeQ) BY <1>2, <3>3, Popped
    <3> QED BY <1>1, <3>1, <3>2, <3>3 DEF Drains
  <2>2. stepQ' \in Seq(Broadcasts) /\ Len(stepQ') <= EventQueueMax
    <3>1. CASE stepQ' = stepQ BY <1>2, <3>1
    <3>2. CASE stepQ # <<>> /\ stepQ' = Tail(stepQ) BY <1>2, <3>2, Popped
    <3> QED BY <1>1, <3>1, <3>2 DEF Drains
  <2>3. PICK q \in Seq(Broadcasts) \cup {None} :
             subs' = [subs EXCEPT ![t] = q] /\ (q # None => Len(q) <= SubQueueMax)
    BY <1>1 DEF Hears
  <2>4. \A u \in Tasks : subs[u] # None => Len(subs[u]) <= SubQueueMax
    BY DEF TypeInv, ObserverTyped
  <2>5. \A u \in Tasks : subs'[u] = IF u = t THEN q ELSE subs[u] BY <1>2, <2>3
  <2>6. \A u \in Tasks : subs'[u] # None => Len(subs'[u]) <= SubQueueMax
    BY <2>3, <2>4, <2>5
  <2>7. subs' \in [Tasks -> Seq(Broadcasts) \cup {None}] BY <1>2, <2>3
  <2> QED BY <2>1, <2>2, <2>6, <2>7 DEF ObserverTyped
<1>5. CallsTyped' BY <1>1, <1>2 DEF CallsTyped, Moves, Arms
<1>6. TicksInOrder' BY <1>1 DEF TypeInv, TicksInOrder, Moves
<1>7. \A u \in Tasks : InProgram(task'[u]) /\ Told(task'[u]) /\ Subscribed(u)'
  <2> SUFFICES ASSUME NEW u \in Tasks
               PROVE  InProgram(task'[u]) /\ Told(task'[u]) /\ Subscribed(u)'
    OBVIOUS
  <2>1. CASE u = t
    <3>1. task'[u] = r BY <1>1, <1>2, <2>1 DEF Moves
    <3> QED BY <1>1, <2>1, <3>1 DEF Moves, Hears, Subscribed
  <2>2. CASE u # t
    <3>1. task'[u] = task[u] /\ subs'[u] = subs[u] BY <1>1, <1>2, <2>2 DEF Moves, Hears
    <3> QED BY <3>1 DEF TypeInv, Subscribed
  <2> QED BY <2>1, <2>2
<1> QED BY <1>3, <1>4, <1>5, <1>6, <1>7 DEF TypeInv

\* What the emulator and the dispatcher do to a queue.
LEMMA Offered ==
    ASSUME NEW q \in Seq(Broadcasts), NEW m \in Broadcasts, NEW max \in Nat \ {0}
    PROVE  /\ Offer(q, m, max) \in Seq(Broadcasts) /\ Offer(q, m, max) # <<>>
           /\ Len(q) <= max => Len(Offer(q, m, max)) <= max
           /\ \A i \in 1 .. Len(Offer(q, m, max)) :
                 Offer(q, m, max)[i] = m \/ \E j \in 1 .. Len(q) : Offer(q, m, max)[i] = q[j]
<1> DEFINE p == IF Len(q) >= max THEN Tail(q) ELSE q
<1>0. Len(q) \in Nat BY LenProperties
<1>1. /\ p \in Seq(Broadcasts) /\ (Len(q) <= max => Len(p) < max)
      /\ \A i \in 1 .. Len(p) : \E j \in 1 .. Len(q) : p[i] = q[j]
  <2>1. CASE Len(q) >= max
    <3>1. q # <<>> BY <1>0, <2>1, EmptySeq
    <3>2. p = Tail(q) BY <2>1
    <3> QED BY <1>0, <3>1, <3>2, Popped
  <2>2. CASE ~(Len(q) >= max)
    <3>1. p = q BY <2>2
    <3> QED BY <1>0, <2>2, <3>1
  <2> QED BY <2>1, <2>2
<1>2. Offer(q, m, max) = Append(p, m) BY DEF Offer
<1> HIDE DEF p
<1>3. /\ Append(p, m) \in Seq(Broadcasts) /\ Append(p, m) # <<>> /\ Len(p) \in Nat
      /\ Len(Append(p, m)) = Len(p) + 1 /\ Append(p, m)[Len(p) + 1] = m
      /\ \A i \in 1 .. Len(p) : Append(p, m)[i] = p[i]
  BY <1>1, Pushed
<1>4. Len(q) <= max => Len(Append(p, m)) <= max BY <1>0, <1>1, <1>3
<1>5. \A i \in 1 .. Len(Append(p, m)) :
         Append(p, m)[i] = m \/ \E j \in 1 .. Len(q) : Append(p, m)[i] = q[j]
  <2> SUFFICES ASSUME NEW i \in 1 .. Len(Append(p, m))
               PROVE  Append(p, m)[i] = m \/ \E j \in 1 .. Len(q) : Append(p, m)[i] = q[j]
    OBVIOUS
  <2>1. CASE i = Len(p) + 1 BY <1>3, <2>1
  <2>2. CASE i # Len(p) + 1
    <3>1. i \in 1 .. Len(p) BY <1>3, <2>2
    <3> QED BY <1>1, <1>3, <3>1
  <2> QED BY <2>1, <2>2
<1> QED BY <1>2, <1>3, <1>4, <1>5

\* What the emulator does: time goes on, what it broadcasts is of now, and the
\* CPU is stopped by a breakpoint or by the request that was applied.
EmuShape ==
    /\ cpu' \in CpuType /\ cpu'.ticks >= cpu.ticks
    /\ armed' \subseteq armed \cup {Until}
    /\ \/ wire' = wire
       \/ \E m \in Broadcasts : /\ wire' = Append(wire, m)
                                /\ m.at >= cpu.ticks /\ m.at <= cpu'.ticks
    /\ \/ cmds' = cmds /\ cpu'.cause \in armed
       \/ /\ cmds # <<>> /\ cmds' = Tail(cmds)
          /\ \/ ~cpu'.stepping
             \/ cpu' = cpu /\ Head(cmds).event # "cpu.resume"
             \/ /\ cpu'.cause = Head(cmds).by
                /\ Head(cmds).event \in {"cpu.stepping", "cpu.stepInto"}
    /\ UNCHANGED <<observer, lock, task, filters, heard>>

LEMMA Stops ==
    ASSUME TypeInv, NEW n \in Nat, n >= cpu.ticks, NEW by \in Bys, StopAt(n, by)
    PROVE  /\ cpu' \in CpuType /\ cpu'.ticks >= cpu.ticks /\ cpu'.cause = by
           /\ \E m \in Broadcasts : /\ wire' = Append(wire, m)
                                    /\ m.at >= cpu.ticks /\ m.at <= cpu'.ticks
<1>1. cpu' = [stepping |-> TRUE, cause |-> by, ticks |-> n] /\ n \in 0 .. MaxTicks
  BY CpuAssumption DEF StopAt
<1>2. Stopped(n, by) \in Broadcasts /\ Stopped(n, by).at = n BY DEF Stopped, Broadcasts, Bys
<1> QED BY <1>1, <1>2 DEF CpuType, StopAt

LEMMA EmulatorShape ==
    ASSUME TypeInv, Emulator, UNCHANGED <<filters, heard>>
    PROVE  EmuShape
<1>1. /\ cpu \in CpuType /\ cpu.ticks \in Nat /\ cpu.ticks + 1 \in Nat
      /\ armed \subseteq Bps \cup {Until} /\ cmds \in Seq(CmdType)
  BY CpuAssumption DEF TypeInv, EmulatorTyped, CpuType
<1>2. CASE EmuHit
  <2>1. PICK b \in armed : /\ StopAt(cpu.ticks + 1, b) /\ armed' = armed \ {Until}
                           /\ UNCHANGED <<cmds, observer, lock, task>>
    BY <1>2 DEF EmuHit
  <2>2. b \in Bys BY <1>1 DEF Bys
  <2>3. cpu.ticks + 1 >= cpu.ticks BY <1>1
  <2> QED BY <1>1, <2>1, <2>2, <2>3, Stops DEF EmuShape
<1>3. CASE EmuApply
  <2> DEFINE req == Head(cmds)
  <2>0. cmds # <<>> BY <1>3 DEF EmuApply
  <2>1. /\ cmds' = Tail(cmds) /\ UNCHANGED <<observer, lock, task>>
        /\ req.by \in Bys
    <3>1. Head(cmds) \in CmdType BY <1>1, <2>0, Popped
    <3> QED BY <1>3, <3>1 DEF EmuApply, CmdType, Bys
  <2>2. CASE /\ req.event \in {"cpu.stepping", "cpu.stepInto"}
             /\ \E n \in {0, 1} : StopAt(cpu.ticks + n, req.by) /\ UNCHANGED armed
    <3>1. PICK n \in {0, 1} : StopAt(cpu.ticks + n, req.by) /\ UNCHANGED armed BY <2>2
    <3>2. cpu.ticks + n \in Nat /\ cpu.ticks + n >= cpu.ticks BY <1>1
    <3>3. /\ cpu' \in CpuType /\ cpu'.ticks >= cpu.ticks /\ cpu'.cause = req.by
          /\ \E m \in Broadcasts : /\ wire' = Append(wire, m)
                                   /\ m.at >= cpu.ticks /\ m.at <= cpu'.ticks
      <4> HIDE DEF req
      <4> QED BY <2>1, <3>1, <3>2, Stops
    <3> QED BY <2>0, <2>1, <2>2, <3>1, <3>3 DEF EmuShape
  <2>3. CASE /\ cpu' = [cpu EXCEPT !.stepping = FALSE, !.cause = None]
             /\ wire' = Append(wire, Resumed(cpu.ticks))
             /\ armed' \subseteq armed \cup {Until}
    <3>1. cpu' \in CpuType /\ cpu'.ticks = cpu.ticks /\ ~cpu'.stepping
      BY <1>1, <2>3 DEF CpuType, Bys
    <3>2. Resumed(cpu.ticks) \in Broadcasts /\ Resumed(cpu.ticks).at = cpu.ticks
      BY <1>1 DEF Resumed, Broadcasts
    <3> QED BY <1>1, <2>0, <2>1, <2>3, <3>1, <3>2 DEF EmuShape
  <2>4. CASE (cpu.stepping <=> req.event = "cpu.stepping") /\ UNCHANGED <<cpu, armed, wire>>
    BY <1>1, <2>0, <2>1, <2>4 DEF EmuShape
  <2> QED BY <1>3, <2>2, <2>3, <2>4 DEF EmuApply
<1> QED BY <1>2, <1>3 DEF Emulator

\* What the dispatcher does: the oldest broadcast goes to its queues.
DispatchShape(m) ==
    /\ wire # <<>> /\ m = wire[1] /\ m \in Broadcasts /\ wire' = Tail(wire)
    /\ \/ /\ m.event = "cpu.resume"
          /\ resumeQ' = Offer(resumeQ, m, EventQueueMax)
          /\ UNCHANGED <<stepQ, subs, heard>>
       \/ /\ m.event # "cpu.resume" /\ heard' = m.at
          /\ stepQ' = Offer(stepQ, m, EventQueueMax)
          /\ subs' = [t \in Tasks |-> IF subs[t] = None THEN None
                                      ELSE Offer(subs[t], m, SubQueueMax)]
          /\ UNCHANGED resumeQ
    /\ UNCHANGED <<cpu, armed, cmds, lock, task, filters>>

LEMMA Dispatched ==
    ASSUME TypeInv, Dispatch, Hear, UNCHANGED filters
    PROVE  \E m \in Broadcasts : DispatchShape(m)
<1>1. wire \in Seq(Broadcasts) /\ wire # <<>> BY DEF TypeInv, EmulatorTyped, Dispatch
<1>2. wire[1] \in Broadcasts /\ Head(wire) = wire[1] BY <1>1, Popped
<1>3. wire[1].event = "cpu.stepping" <=> wire[1].event # "cpu.resume" BY <1>2 DEF Broadcasts
<1>4. DispatchShape(wire[1]) BY <1>1, <1>2, <1>3 DEF Dispatch, Hear, DispatchShape
<1> QED BY <1>2, <1>4

LEMMA EmulatorTypes ==
    ASSUME TypeInv, EmuShape
    PROVE  TypeInv'
<1>1. /\ cmds \in Seq(CmdType) /\ wire \in Seq(Broadcasts) /\ armed \subseteq Bps \cup {Until}
      /\ cpu \in CpuType
  BY DEF TypeInv, EmulatorTyped
<1>2. EmulatorTyped'
  <2>1. cmds' \in Seq(CmdType)
    <3>1. CASE cmds' = cmds BY <1>1, <3>1
    <3>2. CASE cmds # <<>> /\ cmds' = Tail(cmds) BY <1>1, <3>2, Popped
    <3> QED BY <3>1, <3>2 DEF EmuShape
  <2>2. wire' \in Seq(Broadcasts)
    <3>1. CASE wire' = wire BY <1>1, <3>1
    <3>2. CASE \E m \in Broadcasts : wire' = Append(wire, m) BY <1>1, <3>2, Pushed
    <3> QED BY <3>1, <3>2 DEF EmuShape
  <2> QED BY <1>1, <2>1, <2>2 DEF EmulatorTyped, EmuShape
<1>3. ObserverTyped' /\ CallsTyped'
  BY DEF TypeInv, ObserverTyped, CallsTyped, EmuShape, observer
<1>4. TicksInOrder'
  <2>1. /\ heard' \in Nat /\ heard' <= cpu.ticks /\ cpu.ticks \in Nat /\ cpu'.ticks \in Nat
        /\ cpu.ticks <= cpu'.ticks /\ \A i \in 1 .. Len(wire) : wire[i].at <= cpu.ticks
    BY <1>1, CpuAssumption DEF TypeInv, TicksInOrder, EmuShape, CpuType
  <2>2. \A i \in 1 .. Len(wire) : wire[i] \in Broadcasts BY <1>1, ElementOfSeq
  <2>3. \A i \in 1 .. Len(wire) : wire[i].at <= cpu'.ticks BY <2>1, <2>2 DEF Broadcasts
  <2>4. CASE wire' = wire BY <2>1, <2>3, <2>4 DEF TicksInOrder
  <2>5. CASE \E m \in Broadcasts : wire' = Append(wire, m) /\ m.at <= cpu'.ticks
    <3>1. PICK m \in Broadcasts : wire' = Append(wire, m) /\ m.at <= cpu'.ticks BY <2>5
    <3>2. /\ Len(wire) \in Nat /\ Len(wire') = Len(wire) + 1 /\ wire'[Len(wire) + 1] = m
          /\ \A i \in 1 .. Len(wire) : wire'[i] = wire[i]
      BY <1>1, <3>1, Pushed
    <3>3. \A i \in 1 .. Len(wire') : i \in 1 .. Len(wire) \/ i = Len(wire) + 1 BY <3>2
    <3>4. \A i \in 1 .. Len(wire') : wire'[i].at <= cpu'.ticks BY <2>3, <3>1, <3>2, <3>3
    <3> QED BY <2>1, <3>4 DEF TicksInOrder
  <2> QED BY <2>4, <2>5 DEF EmuShape
<1>5. \A t \in Tasks : InProgram(task'[t]) /\ Told(task'[t]) /\ Subscribed(t)'
  BY DEF TypeInv, EmuShape, observer, Subscribed
<1> QED BY <1>2, <1>3, <1>4, <1>5 DEF TypeInv

LEMMA DispatchTypes ==
    ASSUME TypeInv, NEW m \in Broadcasts, DispatchShape(m)
    PROVE  TypeInv'
<1>1. /\ wire \in Seq(Broadcasts) /\ wire # <<>>
      /\ resumeQ \in Seq(Broadcasts) /\ stepQ \in Seq(Broadcasts)
      /\ Len(resumeQ) <= EventQueueMax /\ Len(stepQ) <= EventQueueMax
      /\ subs \in [Tasks -> Seq(Broadcasts) \cup {None}]
      /\ \A t \in Tasks : subs[t] # None => Len(subs[t]) <= SubQueueMax
      /\ EventQueueMax \in Nat \ {0} /\ SubQueueMax \in Nat \ {0} /\ None \notin Seq(Broadcasts)
  BY CpuAssumption DEF TypeInv, EmulatorTyped, ObserverTyped, DispatchShape
<1>2. EmulatorTyped' BY <1>1, Popped DEF TypeInv, EmulatorTyped, DispatchShape
<1>3. resumeQ' \in Seq(Broadcasts) /\ Len(resumeQ') <= EventQueueMax
  BY <1>1, Offered DEF DispatchShape
<1>4. stepQ' \in Seq(Broadcasts) /\ Len(stepQ') <= EventQueueMax
  BY <1>1, Offered DEF DispatchShape
<1>5. /\ subs' \in [Tasks -> Seq(Broadcasts) \cup {None}]
      /\ \A t \in Tasks : subs'[t] # None => Len(subs'[t]) <= SubQueueMax
      /\ \A t \in Tasks : subs'[t] = None <=> subs[t] = None
  <2>1. CASE subs' = subs BY <1>1, <2>1
  <2>2. CASE subs' = [t \in Tasks |-> IF subs[t] = None THEN None
                                      ELSE Offer(subs[t], m, SubQueueMax)]
    <3>1. \A t \in Tasks : subs[t] # None =>
             /\ Offer(subs[t], m, SubQueueMax) \in Seq(Broadcasts)
             /\ Len(Offer(subs[t], m, SubQueueMax)) <= SubQueueMax
      BY <1>1, Offered
    <3> QED BY <1>1, <2>2, <3>1
  <2> QED BY <2>1, <2>2 DEF DispatchShape
<1>6. ObserverTyped' BY <1>3, <1>4, <1>5 DEF ObserverTyped
<1>7. CallsTyped' BY DEF TypeInv, CallsTyped, DispatchShape
<1>8. TicksInOrder'
  <2>1. /\ heard \in Nat /\ heard <= cpu.ticks
        /\ \A i \in 1 .. Len(wire) : wire[i].at <= cpu.ticks
        /\ cpu' = cpu /\ wire' = Tail(wire) /\ m = wire[1] /\ heard' \in {heard, m.at}
    BY DEF TypeInv, TicksInOrder, DispatchShape
  <2>2. /\ 1 \in 1 .. Len(wire)
        /\ \A i \in 1 .. Len(wire') : wire'[i] = wire[i + 1] /\ i + 1 \in 1 .. Len(wire)
    BY <1>1, <2>1, Popped
  <2>3. m.at \in Nat /\ m.at <= cpu.ticks BY <2>1, <2>2 DEF Broadcasts
  <2> QED BY <2>1, <2>2, <2>3 DEF TicksInOrder
<1>9. \A t \in Tasks : InProgram(task'[t]) /\ Told(task'[t]) /\ Subscribed(t)'
  BY <1>5 DEF TypeInv, DispatchShape, Subscribed
<1> QED BY <1>2, <1>6, <1>7, <1>8, <1>9 DEF TypeInv

\* A step of the system: the emulator's, the dispatcher's, or one call's.
LEMMA Steps ==
    ASSUME TypeInv, [Next]_vars
    PROVE  \/ UNCHANGED vars
           \/ EmuShape
           \/ \E m \in Broadcasts : DispatchShape(m)
           \/ \E t \in Tasks : /\ (CpuStep(t) /\ UNCHANGED filters) \/ WaitStep(t)
                               /\ Shape(t) /\ UNCHANGED heard
<1>1. CASE Emulator /\ UNCHANGED <<filters, heard>> BY <1>1, EmulatorShape
<1>2. CASE Dispatch /\ Hear /\ UNCHANGED filters BY <1>2, Dispatched
<1>3. CASE \E t \in Tasks : \/ CpuStep(t) /\ UNCHANGED <<filters, heard>>
                            \/ WaitStep(t) /\ UNCHANGED heard
  BY <1>3, CallShape
<1> QED BY <1>1, <1>2, <1>3 DEF Next

LEMMA NextTypes == TypeInv /\ [Next]_vars => TypeInv'
<1> SUFFICES ASSUME TypeInv, [Next]_vars PROVE TypeInv'
  OBVIOUS
<1>1. CASE UNCHANGED vars
  BY <1>1
     DEF vars, cpuVars, TypeInv, EmulatorTyped, ObserverTyped, CallsTyped, TicksInOrder,
         Subscribed
<1>2. CASE EmuShape BY <1>2, EmulatorTypes
<1>3. CASE \E m \in Broadcasts : DispatchShape(m) BY <1>3, DispatchTypes
<1>4. CASE \E t \in Tasks : Shape(t) /\ UNCHANGED heard BY <1>4, CallTypes
<1> QED BY <1>1, <1>2, <1>3, <1>4, Steps

-----------------------------------------------------------------------------
(* A resume still to be applied *)

\* It stays behind every request already there when another is added, moves up
\* when the first is applied, and is the first only if that one is a resume.
LEMMA Sent ==
    ASSUME cmds \in Seq(CmdType), NEW req \in CmdType, cmds' = Append(cmds, req),
           NEW i \in Nat
    PROVE  /\ ResumeAfter(i) => ResumeAfter(i)'
           /\ req.event = "cpu.resume" /\ i <= Len(cmds) => ResumeAfter(i)'
<1>1. /\ Len(cmds) \in Nat /\ Len(cmds') = Len(cmds) + 1 /\ cmds'[Len(cmds) + 1] = req
      /\ \A j \in 1 .. Len(cmds) : cmds'[j] = cmds[j] /\ j \in 1 .. Len(cmds')
  BY Pushed
<1>2. Len(cmds) + 1 \in 1 .. Len(cmds') BY <1>1
<1>3. i <= Len(cmds) => Len(cmds) + 1 > i BY <1>1
<1>4. ResumeAfter(i) => ResumeAfter(i)'
  <2>1. SUFFICES ASSUME NEW j \in 1 .. Len(cmds), j > i, cmds[j].event = "cpu.resume"
                 PROVE  ResumeAfter(i)'
    BY DEF ResumeAfter
  <2> QED BY <1>1, <2>1 DEF ResumeAfter
<1> QED BY <1>1, <1>2, <1>3, <1>4 DEF ResumeAfter

LEMMA Applied ==
    ASSUME cmds \in Seq(CmdType), cmds # <<>>, cmds' = Tail(cmds), NEW i \in Nat
    PROVE  /\ ResumeAfter(i + 1) => ResumeAfter(i)'
           /\ Head(cmds).event # "cpu.resume" /\ ResumeAfter(0) => ResumeAfter(0)'
<1>1. /\ Len(cmds) \in Nat /\ Len(cmds) >= 1 /\ Head(cmds) = cmds[1]
      /\ Len(cmds') = Len(cmds) - 1
      /\ \A j \in 1 .. Len(cmds') : cmds'[j] = cmds[j + 1]
  BY Popped
<1>2. \A k \in Nat, j \in 1 .. Len(cmds) :
         j > k + 1 /\ cmds[j].event = "cpu.resume" => ResumeAfter(k)'
  <2> SUFFICES ASSUME NEW k \in Nat, NEW j \in 1 .. Len(cmds), j > k + 1,
                      cmds[j].event = "cpu.resume"
               PROVE  ResumeAfter(k)'
    OBVIOUS
  <2>1. j - 1 \in 1 .. Len(cmds') /\ j - 1 > k /\ (j - 1) + 1 = j BY <1>1
  <2>2. cmds'[j - 1] = cmds[j] BY <1>1, <2>1
  <2> QED BY <2>1, <2>2 DEF ResumeAfter
<1>3. ResumeAfter(i + 1) => ResumeAfter(i)' BY <1>2 DEF ResumeAfter
<1>4. ASSUME Head(cmds).event # "cpu.resume", ResumeAfter(0)
      PROVE  ResumeAfter(0)'
  <2>1. PICK j \in 1 .. Len(cmds) : j > 0 /\ cmds[j].event = "cpu.resume"
    BY <1>4 DEF ResumeAfter
  <2>2. j # 1 BY <1>1, <1>4, <2>1
  <2>3. j > 0 + 1 BY <2>1, <2>2
  <2> QED BY <1>2, <2>1, <2>3
<1> QED BY <1>3, <1>4

-----------------------------------------------------------------------------
(* The four invariants under a step of call u *)

\* What the step of call u leaves to every other call, and to the queues.
LEMMA Others ==
    ASSUME TypeInv, NEW u \in Tasks, NEW r \in TaskType, NEW e \in Events \cup {None},
           Moves(u, r, e), Hears(u, r)
    PROVE  /\ task'[u] = r
           /\ \A t \in Tasks \ {u} : task'[t] = task[t] /\ subs'[t] = subs[t]
           /\ cpu' = cpu /\ wire' = wire
           /\ cmds \in Seq(CmdType)
           /\ \/ e = None /\ cmds' = cmds
              \/ /\ e # None /\ Request(e, u) \in CmdType /\ Request(e, u).event = e
                 /\ Request(e, u).by = u /\ cmds' = Append(cmds, Request(e, u))
<1>1. /\ task \in [Tasks -> TaskType] /\ cmds \in Seq(CmdType)
      /\ subs \in [Tasks -> Seq(Broadcasts) \cup {None}]
  BY DEF TypeInv, CallsTyped, EmulatorTyped, ObserverTyped
<1>2. task'[u] = r /\ \A t \in Tasks \ {u} : task'[t] = task[t] /\ subs'[t] = subs[t]
  BY <1>1 DEF Moves, Hears
<1>3. \/ e = None /\ cmds' = cmds
      \/ /\ e # None /\ Request(e, u) \in CmdType /\ Request(e, u).event = e
         /\ Request(e, u).by = u /\ cmds' = Append(cmds, Request(e, u))
  BY DEF Moves, Request, CmdType
<1> QED BY <1>1, <1>2, <1>3 DEF Moves

LEMMA CallHearsAfter ==
    ASSUME TypeInv, NEW u \in Tasks, NEW r \in TaskType, NEW e \in Events \cup {None},
           Moves(u, r, e), Hears(u, r), Drains(r), NEW t \in Tasks, HearsAfter(t)
    PROVE  HearsAfter(t)'
<1>1. /\ cpu.ticks \in Nat /\ resumeQ \in Seq(Broadcasts) /\ wire \in Seq(Broadcasts)
      /\ task'[u] = r /\ cpu' = cpu /\ wire' = wire /\ Len(<<>>) = 0
      /\ t # u => task'[t] = task[t]
  BY Others, CpuAssumption DEF TypeInv, EmulatorTyped, ObserverTyped, CpuType
<1>2. CASE t = u
  <2> SUFFICES ASSUME r.pc = "resuming", r.clean
               PROVE  HearsAfter(u)'
    BY <1>1, <1>2 DEF HearsAfter
  <2>1. r.since = cpu.ticks /\ resumeQ' = <<>> /\ wire' = <<>> BY <1>1 DEF Drains
  <2> QED BY <1>1, <2>1 DEF HearsAfter
<1>3. CASE t # u
  <2> SUFFICES ASSUME task[t].pc = "resuming", task[t].clean
               PROVE  HearsAfter(t)'
    BY <1>1, <1>3 DEF HearsAfter
  <2>1. /\ task[t].since <= cpu.ticks
        /\ \A i \in 1 .. Len(resumeQ) : resumeQ[i].at >= task[t].since
        /\ \A i \in 1 .. Len(wire) : wire[i].at >= task[t].since
    BY DEF HearsAfter
  <2>2. \A i \in 1 .. Len(resumeQ') : resumeQ'[i].at >= task[t].since
    <3>1. CASE resumeQ' = resumeQ BY <2>1, <3>1
    <3>2. CASE resumeQ' = <<>> BY <1>1, <3>2
    <3>3. CASE resumeQ # <<>> /\ resumeQ' = Tail(resumeQ) BY <1>1, <2>1, <3>3, Popped
    <3> QED BY <3>1, <3>2, <3>3 DEF Drains
  <2> QED BY <1>1, <1>3, <2>1, <2>2 DEF HearsAfter
<1> QED BY <1>2, <1>3

LEMMA CallListens ==
    ASSUME TypeInv, NEW u \in Tasks, NEW r \in TaskType, NEW e \in Events \cup {None},
           Moves(u, r, e), Hears(u, r), UNCHANGED heard, NEW t \in Tasks, Listens(t)
    PROVE  Listens(t)'
<1>1. /\ task'[u] = r /\ heard <= cpu.ticks
      /\ t # u => task'[t] = task[t] /\ subs'[t] = subs[t]
  BY Others DEF TypeInv, TicksInOrder
<1>2. CASE t = u
  <2> SUFFICES ASSUME r.op = "wait", r.pc \notin {"idle", "done"}, r.rounds = 0, subs'[u] = <<>>
               PROVE  heard <= r.since
    BY <1>1, <1>2 DEF Listens
  <2> QED BY <1>1, <1>2 DEF Hears, Listens
<1>3. CASE t # u BY <1>1, <1>3 DEF Listens
<1> QED BY <1>2, <1>3

LEMMA CallReleases ==
    ASSUME TypeInv, NEW u \in Tasks, NEW r \in TaskType, NEW e \in Events \cup {None},
           Moves(u, r, e), Hears(u, r), NEW t \in Tasks, Releases(t)
    PROVE  Releases(t)'
<1>1. /\ task'[u] = r /\ cpu' = cpu /\ (t # u => task'[t] = task[t])
      /\ cmds \in Seq(CmdType) /\ Len(cmds) \in Nat /\ 0 <= Len(cmds)
      /\ \/ e = None /\ cmds' = cmds
         \/ /\ e # None /\ Request(e, u) \in CmdType /\ Request(e, u).event = e
            /\ Request(e, u).by = u /\ cmds' = Append(cmds, Request(e, u))
  BY Others, LenProperties
<1>2. SUFFICES ASSUME ~Excuses(task'[t]), ~Holds(task'[t])
               PROVE  /\ \A i \in 1 .. Len(cmds') :
                           cmds'[i].by = t /\ cmds'[i].event \in {"cpu.stepping", "cpu.stepInto"}
                           => ResumeAfter(i)'
                      /\ cpu.stepping /\ cpu.cause = t => ResumeAfter(0)'
  BY <1>1 DEF Releases
\* Nobody's request, or another call's, or the resume of this one.
<1>3. \/ t = u /\ e = "cpu.resume"
      \/ /\ ~Excuses(task[t]) /\ ~Holds(task[t])
         /\ e = None \/ t # u
  BY <1>1, <1>2 DEF Moves, Lawful
<1>4. CASE e = None
  <2>1. cmds' = cmds /\ ~Excuses(task[t]) /\ ~Holds(task[t])
    BY <1>1, <1>3, <1>4, CpuAssumption DEF Events
  <2> QED BY <2>1 DEF Releases, ResumeAfter
<1>5. CASE e # None
  <2> DEFINE req == Request(e, u)
  <2>1. req \in CmdType /\ req.event = e /\ req.by = u /\ cmds' = Append(cmds, req)
    BY <1>1, <1>5
  <2> HIDE DEF req
  <2>2. /\ Len(cmds') = Len(cmds) + 1 /\ cmds'[Len(cmds) + 1] = req
        /\ \A i \in 1 .. Len(cmds) : cmds'[i] = cmds[i]
    BY <1>1, <2>1, Pushed
  <2>3. \A i \in Nat : /\ ResumeAfter(i) => ResumeAfter(i)'
                       /\ e = "cpu.resume" /\ i <= Len(cmds) => ResumeAfter(i)'
    BY <1>1, <2>1, Sent
  <2>4. \A i \in 1 .. Len(cmds') : i \in 1 .. Len(cmds) \/ i = Len(cmds) + 1 BY <1>1, <2>2
  <2>5. CASE t = u /\ e = "cpu.resume"
    <3>1. \A i \in 1 .. Len(cmds) : ResumeAfter(i)' BY <1>1, <2>3, <2>5
    <3>2. ResumeAfter(0)' BY <1>1, <2>3, <2>5
    <3> QED BY <2>1, <2>2, <2>4, <2>5, <3>1, <3>2
  <2>6. CASE t # u /\ ~Excuses(task[t]) /\ ~Holds(task[t])
    <3>1. /\ \A i \in 1 .. Len(cmds) :
               cmds[i].by = t /\ cmds[i].event \in {"cpu.stepping", "cpu.stepInto"} => ResumeAfter(i)
          /\ cpu.stepping /\ cpu.cause = t => ResumeAfter(0)
      BY <2>6 DEF Releases
    <3>2. \A i \in 1 .. Len(cmds) : ResumeAfter(i) => ResumeAfter(i)' BY <1>1, <2>3
    <3>3. ResumeAfter(0) => ResumeAfter(0)' BY <2>3
    <3> QED BY <2>1, <2>2, <2>4, <2>6, <3>1, <3>2, <3>3
  <2> QED BY <1>3, <1>5, <2>5, <2>6
<1> QED BY <1>4, <1>5

LEMMA CallDisarms ==
    ASSUME TypeInv, NEW u \in Tasks, NEW r \in TaskType, NEW e \in Events \cup {None},
           Moves(u, r, e), Hears(u, r), Arms(u, r), NEW t \in Tasks, Disarms(t)
    PROVE  Disarms(t)'
<1>1. /\ task'[u] = r /\ cpu' = cpu /\ \A v \in Tasks \ {u} : task'[v] = task[v]
      /\ cmds \in Seq(CmdType) /\ Len(cmds) \in Nat /\ 0 <= Len(cmds)
      /\ \/ e = None /\ cmds' = cmds
         \/ /\ e # None /\ Request(e, u) \in CmdType /\ Request(e, u).event = e
            /\ Request(e, u).by = u /\ cmds' = Append(cmds, Request(e, u))
  BY Others, LenProperties
<1>2. SUFFICES ASSUME Alone(t)'
               PROVE  /\ task'[t].op # "set" =>
                           armed' \subseteq {Until} \cup {b \in {task'[t].bp} : Traces(task'[t])}
                      /\ HasTraced(task'[t]) /\ cpu.stepping /\ cpu.cause = task'[t].bp =>
                           task'[t].pc = "leave" \/ ResumeAfter(0)'
  BY <1>1 DEF Disarms
<1>3. InProgram(task[u]) /\ Told(task[u]) /\ (task[u].pc # "idle" => r.op = task[u].op)
  BY DEF TypeInv, Moves, Lawful
<1>4. task[u].op = r.op \/ task[u].op \notin {"set", "trace"}
  BY <1>3, NoName DEF InProgram, OpNames
<1>5. Alone(t)
  <2> SUFFICES ASSUME NEW v \in Tasks \ {t} PROVE task[v].op \notin {"set", "trace"}
    BY DEF Alone
  <2> QED BY <1>1, <1>2, <1>4 DEF Alone
<1>6. /\ task[t].op # "set" => armed \subseteq {Until} \cup {b \in {task[t].bp} : Traces(task[t])}
      /\ HasTraced(task[t]) /\ cpu.stepping /\ cpu.cause = task[t].bp =>
           task[t].pc = "leave" \/ ResumeAfter(0)
  BY <1>5 DEF Disarms
<1>7. /\ ResumeAfter(0) => ResumeAfter(0)'
      /\ e = "cpu.resume" => ResumeAfter(0)'
  <2>1. CASE e = None
    <3>1. cmds' = cmds /\ e # "cpu.resume" BY <1>1, <2>1, NoName DEF Events
    <3> QED BY <3>1 DEF ResumeAfter
  <2>2. CASE e # None BY <1>1, <2>2, Sent
  <2> QED BY <2>1, <2>2
<1>8. CASE t = u
  <2>1. r.op # "set" => armed' \subseteq {Until} \cup {b \in {r.bp} : Traces(r)}
    <3> SUFFICES ASSUME r.op # "set"
                 PROVE  armed' \subseteq {Until} \cup {b \in {r.bp} : Traces(r)}
      OBVIOUS
    <3>1. armed \subseteq {Until} \cup {b \in {task[u].bp} : Traces(task[u])}
      BY <1>4, <1>6, <1>8
    <3> QED BY <3>1 DEF Arms
  <2>2. HasTraced(r) /\ cpu.stepping /\ cpu.cause = r.bp => r.pc = "leave" \/ ResumeAfter(0)'
    BY <1>3, <1>6, <1>7, <1>8 DEF Moves, Lawful, Told
  <2> QED BY <1>1, <1>8, <2>1, <2>2
<1>9. CASE t # u
  <2>1. task'[t] = task[t] /\ r.op \notin {"set", "trace"} BY <1>1, <1>2, <1>9 DEF Alone
  <2>2. armed' \subseteq armed BY <2>1 DEF Arms, Traces
  <2> QED BY <1>6, <1>7, <2>1, <2>2
<1> QED BY <1>8, <1>9

-----------------------------------------------------------------------------
(* The four invariants under a step of the emulator and of the dispatcher *)

\* The CPU is stopped by a breakpoint or by the call whose request was applied.
LEMMA EmulatorCause ==
    ASSUME TypeInv, EmuShape
    PROVE  /\ cmds \in Seq(CmdType) /\ armed \subseteq Bps \cup {Until}
           /\ task' = task /\ subs' = subs /\ heard' = heard /\ resumeQ' = resumeQ
           /\ \/ cmds' = cmds /\ cpu'.cause \in armed
              \/ /\ cmds # <<>> /\ cmds' = Tail(cmds)
                 /\ Head(cmds) = cmds[1] /\ 1 \in 1 .. Len(cmds) /\ Head(cmds).by \in Tasks
                 /\ \/ ~cpu'.stepping
                    \/ cpu' = cpu /\ Head(cmds).event # "cpu.resume"
                    \/ /\ cpu'.cause = Head(cmds).by
                       /\ Head(cmds).event \in {"cpu.stepping", "cpu.stepInto"}
<1>1. cmds \in Seq(CmdType) /\ armed \subseteq Bps \cup {Until}
  BY DEF TypeInv, EmulatorTyped
<1>2. cmds # <<>> => /\ Head(cmds) \in CmdType /\ Head(cmds) = cmds[1] /\ 1 \in 1 .. Len(cmds)
  BY <1>1, Popped
<1>3. cmds # <<>> => Head(cmds).by \in Tasks BY <1>2 DEF CmdType
<1> QED BY <1>1, <1>2, <1>3 DEF EmuShape, observer

LEMMA EmulatorHearsAfter ==
    ASSUME TypeInv, EmuShape, NEW t \in Tasks, HearsAfter(t)
    PROVE  HearsAfter(t)'
<1>1. task' = task /\ resumeQ' = resumeQ BY EmulatorCause
<1>2. SUFFICES ASSUME task[t].pc = "resuming", task[t].clean
               PROVE  /\ task[t].since <= cpu'.ticks
                      /\ \A i \in 1 .. Len(resumeQ) : resumeQ[i].at >= task[t].since
                      /\ \A i \in 1 .. Len(wire') : wire'[i].at >= task[t].since
  BY <1>1 DEF HearsAfter
<1>3. /\ cpu.ticks \in Nat /\ cpu'.ticks \in Nat /\ cpu.ticks <= cpu'.ticks /\ task[t].since \in Nat
      /\ wire \in Seq(Broadcasts)
  BY CpuAssumption DEF TypeInv, EmulatorTyped, CallsTyped, TaskType, CpuType, EmuShape
<1>4. /\ task[t].since <= cpu.ticks
      /\ \A i \in 1 .. Len(resumeQ) : resumeQ[i].at >= task[t].since
      /\ \A i \in 1 .. Len(wire) : wire[i].at >= task[t].since
  BY <1>2 DEF HearsAfter
<1>5. \A i \in 1 .. Len(wire') : wire'[i].at >= task[t].since
  <2>1. CASE wire' = wire BY <1>4, <2>1
  <2>2. CASE \E m \in Broadcasts : wire' = Append(wire, m) /\ m.at >= cpu.ticks
    <3>1. PICK m \in Broadcasts : wire' = Append(wire, m) /\ m.at >= cpu.ticks BY <2>2
    <3>2. m.at >= task[t].since BY <1>3, <1>4, <3>1 DEF Broadcasts
    <3>3. /\ Len(wire) \in Nat /\ Len(wire') = Len(wire) + 1 /\ wire'[Len(wire) + 1] = m
          /\ \A i \in 1 .. Len(wire) : wire'[i] = wire[i]
      BY <1>3, <3>1, Pushed
    <3>4. \A i \in 1 .. Len(wire') : i \in 1 .. Len(wire) \/ i = Len(wire) + 1 BY <3>3
    <3> QED BY <1>4, <3>2, <3>3, <3>4
  <2> QED BY <2>1, <2>2 DEF EmuShape
<1> QED BY <1>3, <1>4, <1>5

LEMMA EmulatorReleases ==
    ASSUME TypeInv, EmuShape, NEW t \in Tasks, Releases(t)
    PROVE  Releases(t)'
<1>1. task' = task BY EmulatorCause
<1>2. SUFFICES ASSUME ~Excuses(task[t]), ~Holds(task[t])
               PROVE  /\ \A i \in 1 .. Len(cmds') :
                           cmds'[i].by = t /\ cmds'[i].event \in {"cpu.stepping", "cpu.stepInto"}
                           => ResumeAfter(i)'
                      /\ cpu'.stepping /\ cpu'.cause = t => ResumeAfter(0)'
  BY <1>1 DEF Releases
<1>3. /\ \A i \in 1 .. Len(cmds) :
           cmds[i].by = t /\ cmds[i].event \in {"cpu.stepping", "cpu.stepInto"} => ResumeAfter(i)
      /\ cpu.stepping /\ cpu.cause = t => ResumeAfter(0)
  BY <1>2 DEF Releases
<1>4. CASE cmds' = cmds /\ cpu'.cause \in armed
  <2>1. cpu'.cause # t BY <1>4, EmulatorCause, CpuAssumption
  <2> QED BY <1>3, <1>4, <2>1 DEF ResumeAfter
<1>5. CASE cmds # <<>> /\ cmds' = Tail(cmds)
  <2>1. \A i \in Nat : /\ ResumeAfter(i + 1) => ResumeAfter(i)'
                       /\ Head(cmds).event # "cpu.resume" /\ ResumeAfter(0) => ResumeAfter(0)'
    BY <1>5, EmulatorCause, Applied
  <2>2. \A i \in 1 .. Len(cmds') : cmds'[i] = cmds[i + 1] /\ i + 1 \in 1 .. Len(cmds) /\ i \in Nat
    BY <1>5, EmulatorCause, Popped
  <2>3. \A i \in 1 .. Len(cmds') :
           cmds'[i].by = t /\ cmds'[i].event \in {"cpu.stepping", "cpu.stepInto"} => ResumeAfter(i)'
    BY <1>3, <2>1, <2>2
  <2>4. ASSUME cpu'.stepping, cpu'.cause = t
        PROVE  ResumeAfter(0)'
    <3>1. CASE cpu' = cpu /\ Head(cmds).event # "cpu.resume" BY <1>3, <2>1, <2>4, <3>1
    <3>2. CASE /\ cpu'.cause = Head(cmds).by
               /\ Head(cmds).event \in {"cpu.stepping", "cpu.stepInto"}
      <4>1. Head(cmds) = cmds[1] /\ 1 \in 1 .. Len(cmds) BY <1>5, EmulatorCause, Popped
      <4>2. ResumeAfter(0 + 1) BY <1>3, <2>4, <3>2, <4>1
      <4> QED BY <2>1, <4>2
    <3>3. CASE cmds' = cmds /\ cpu'.cause \in armed
      BY <1>4, <1>2, <2>4, <3>3, EmulatorCause, CpuAssumption
    <3> QED BY <2>4, <3>1, <3>2, <3>3, EmulatorCause
  <2> QED BY <2>3, <2>4
<1> QED BY <1>4, <1>5, EmulatorCause

LEMMA EmulatorDisarms ==
    ASSUME TypeInv, EmuShape, NEW t \in Tasks, Disarms(t)
    PROVE  Disarms(t)'
<1>1. task' = task /\ armed \subseteq Bps \cup {Until} BY EmulatorCause
<1>2. SUFFICES ASSUME Alone(t)
               PROVE  /\ task[t].op # "set" =>
                           armed' \subseteq {Until} \cup {b \in {task[t].bp} : Traces(task[t])}
                      /\ HasTraced(task[t]) /\ cpu'.stepping /\ cpu'.cause = task[t].bp =>
                           task[t].pc = "leave" \/ ResumeAfter(0)'
  BY <1>1 DEF Disarms, Alone
<1>3. /\ task[t].op # "set" => armed \subseteq {Until} \cup {b \in {task[t].bp} : Traces(task[t])}
      /\ HasTraced(task[t]) /\ cpu.stepping /\ cpu.cause = task[t].bp =>
           task[t].pc = "leave" \/ ResumeAfter(0)
  BY <1>2 DEF Disarms
<1>4. armed' \subseteq armed \cup {Until} BY DEF EmuShape
<1>5. ASSUME HasTraced(task[t]), cpu'.stepping, cpu'.cause = task[t].bp
      PROVE  task[t].pc = "leave" \/ ResumeAfter(0)'
  <2>1. task[t].bp \in Bps /\ Told(task[t]) BY <1>5 DEF TypeInv, Told
  <2>2. task[t].op # "set" /\ ~Traces(task[t]) BY <1>5 DEF HasTraced, Traces, WithPcs
  <2>3. armed \subseteq {Until} BY <1>3, <2>2
  <2>4. task[t].bp \notin armed /\ task[t].bp \notin Tasks BY <2>1, <2>3, CpuAssumption
  <2>5. cpu' = cpu /\ Head(cmds).event # "cpu.resume" /\ cmds # <<>> /\ cmds' = Tail(cmds)
    BY <1>5, <2>4, EmulatorCause
  <2>6. ResumeAfter(0) => ResumeAfter(0)' BY <2>5, EmulatorCause, Applied
  <2> QED BY <1>3, <1>5, <2>5, <2>6
<1> QED BY <1>3, <1>4, <1>5

LEMMA DispatchKeeps ==
    ASSUME TypeInv, NEW m \in Broadcasts, DispatchShape(m), NEW t \in Tasks
    PROVE  /\ HearsAfter(t) => HearsAfter(t)'
           /\ Listens(t) => Listens(t)'
           /\ Releases(t) => Releases(t)'
           /\ Disarms(t) => Disarms(t)'
<1>1. /\ task' = task /\ cpu' = cpu /\ cmds' = cmds /\ armed' = armed
      /\ wire \in Seq(Broadcasts) /\ wire # <<>> /\ m = wire[1] /\ wire' = Tail(wire)
      /\ resumeQ \in Seq(Broadcasts) /\ EventQueueMax \in Nat \ {0} /\ SubQueueMax \in Nat \ {0}
      /\ subs \in [Tasks -> Seq(Broadcasts) \cup {None}] /\ Subscribed(t)
  BY CpuAssumption DEF TypeInv, EmulatorTyped, ObserverTyped, DispatchShape
<1>2. ASSUME HearsAfter(t) PROVE HearsAfter(t)'
  <2>1. SUFFICES ASSUME task[t].pc = "resuming", task[t].clean
                 PROVE  /\ task[t].since <= cpu.ticks
                        /\ \A i \in 1 .. Len(resumeQ') : resumeQ'[i].at >= task[t].since
                        /\ \A i \in 1 .. Len(wire') : wire'[i].at >= task[t].since
    BY <1>1 DEF HearsAfter
  <2>2. /\ task[t].since <= cpu.ticks
        /\ \A i \in 1 .. Len(resumeQ) : resumeQ[i].at >= task[t].since
        /\ \A i \in 1 .. Len(wire) : wire[i].at >= task[t].since
    BY <1>2, <2>1 DEF HearsAfter
  <2>3. /\ 1 \in 1 .. Len(wire)
        /\ \A i \in 1 .. Len(wire') : wire'[i] = wire[i + 1] /\ i + 1 \in 1 .. Len(wire)
    BY <1>1, Popped
  <2>4. \A i \in 1 .. Len(resumeQ') : resumeQ'[i].at >= task[t].since
    <3>1. CASE resumeQ' = resumeQ BY <2>2, <3>1
    <3>2. CASE resumeQ' = Offer(resumeQ, m, EventQueueMax)
      <4>1. \A i \in 1 .. Len(resumeQ') :
               resumeQ'[i] = m \/ \E j \in 1 .. Len(resumeQ) : resumeQ'[i] = resumeQ[j]
        BY <1>1, <3>2, Offered
      <4> QED BY <1>1, <2>2, <2>3, <4>1
    <3> QED BY <3>1, <3>2 DEF DispatchShape
  <2> QED BY <2>2, <2>3, <2>4
<1>3. ASSUME Listens(t) PROVE Listens(t)'
  <2>1. SUFFICES ASSUME task[t].op = "wait", task[t].pc \notin {"idle", "done"},
                        task[t].rounds = 0, subs'[t] = <<>>
                 PROVE  heard' <= task[t].since
    BY <1>1 DEF Listens
  <2>2. subs[t] # None /\ subs[t] \in Seq(Broadcasts)
    BY <1>1, <2>1 DEF Subscribed, Subscribers
  <2>3. Offer(subs[t], m, SubQueueMax) # <<>> BY <1>1, <2>2, Offered
  <2>4. heard' = heard /\ subs' = subs BY <2>1, <2>2, <2>3 DEF DispatchShape
  <2> QED BY <1>3, <2>1, <2>4 DEF Listens
<1>4. (Releases(t) => Releases(t)') /\ (Disarms(t) => Disarms(t)')
  BY <1>1 DEF Releases, Disarms, ResumeAfter, Alone
<1> QED BY <1>2, <1>3, <1>4

-----------------------------------------------------------------------------
(* The theorems *)

CpuInv == /\ TypeInv
          /\ \A t \in Tasks : HearsAfter(t) /\ Listens(t) /\ Releases(t) /\ Disarms(t)

LEMMA InitInv == Init => CpuInv
<1> SUFFICES ASSUME Init PROVE CpuInv
  OBVIOUS
<1>1. TypeInv BY InitTypes
<1>2. /\ \A t \in Tasks : task[t] = Idle
      /\ ~cpu.stepping /\ armed = {} /\ cmds = <<>> /\ Len(<<>>) = 0
  BY DEF Init, CpuInit
<1>3. Idle.pc = "idle" /\ Idle.op = None BY DEF Idle
<1>4. \A t \in Tasks : HearsAfter(t) /\ Listens(t) BY <1>2, <1>3 DEF HearsAfter, Listens
<1>5. \A t \in Tasks : Releases(t) /\ Disarms(t) BY <1>2 DEF Releases, Disarms
<1> QED BY <1>1, <1>4, <1>5 DEF CpuInv

LEMMA NextInv == CpuInv /\ [Next]_vars => CpuInv'
<1> SUFFICES ASSUME CpuInv, [Next]_vars PROVE CpuInv'
  OBVIOUS
<1>1. TypeInv /\ TypeInv' BY NextTypes DEF CpuInv
<1>2. SUFFICES ASSUME NEW t \in Tasks
               PROVE  HearsAfter(t)' /\ Listens(t)' /\ Releases(t)' /\ Disarms(t)'
  BY <1>1 DEF CpuInv
<1>3. HearsAfter(t) /\ Listens(t) /\ Releases(t) /\ Disarms(t) BY DEF CpuInv
<1>4. CASE UNCHANGED vars
  BY <1>3, <1>4
     DEF vars, cpuVars, HearsAfter, Listens, Releases, Disarms, ResumeAfter, Alone
<1>5. CASE EmuShape
  <2>1. Listens(t)' BY <1>1, <1>3, <1>5, EmulatorCause DEF Listens
  <2> QED BY <1>1, <1>3, <1>5, <2>1, EmulatorHearsAfter, EmulatorReleases, EmulatorDisarms
<1>6. CASE \E m \in Broadcasts : DispatchShape(m)
  BY <1>1, <1>3, <1>6, DispatchKeeps
<1>7. CASE \E u \in Tasks : Shape(u) /\ UNCHANGED heard
  <2>1. PICK u \in Tasks, r \in TaskType, e \in Events \cup {None} :
             Moves(u, r, e) /\ Hears(u, r) /\ Drains(r) /\ Arms(u, r) /\ UNCHANGED heard
    BY <1>7 DEF Shape
  <2> QED BY <1>1, <1>3, <2>1, CallHearsAfter, CallListens, CallReleases, CallDisarms
<1> QED BY <1>1, <1>4, <1>5, <1>6, <1>7, Steps

\* In every reachable state each call is at a place of its own program, every
\* queue within its bound, and what is paused, armed, heard and queued belongs to
\* a call that will undo it (core/stepping.py, core/game_state_observer.py).
THEOREM InvCorrect == Spec => []CpuInv
  BY InitInv, NextInv, PTL DEF Spec

\* Nothing in flight, the CPU is paused only by the calls that mean it, fail, or
\* are cancelled before they could undo it (core/stepping.py, with_stepping;
\* service/debug_client.py, resume).
THEOREM CpuCorrect == Spec => []CpuSafe
<1>1. CpuInv => TypeOK
  <2> SUFFICES ASSUME CpuInv PROVE TypeOK
    OBVIOUS
  <2>1. /\ cpu \in CpuType /\ armed \subseteq Bps \cup {Until} /\ filters \subseteq Bps
        /\ lock \in Tasks \cup {None} /\ heard \in Nat /\ heard <= cpu.ticks
        /\ task \in [Tasks -> TaskType] /\ MaxTicks \in Nat
    BY CpuAssumption DEF CpuInv, TypeInv, EmulatorTyped, CallsTyped, TicksInOrder
  <2>2. cpu.ticks \in 0 .. MaxTicks /\ cpu.stepping \in BOOLEAN BY <2>1 DEF CpuType
  <2>3. heard \in 0 .. MaxTicks BY <2>1, <2>2
  <2>4. \A t \in Tasks : task[t].pc \in Labels BY <2>1 DEF TaskType
  <2> QED BY <2>1, <2>2, <2>3, <2>4 DEF CpuInv, TypeInv, ObserverTyped, TypeOK
<1>2. CpuInv => CpuReleased
  <2> SUFFICES ASSUME CpuInv, Quiet, cpu.stepping, cpu.cause \in Tasks
               PROVE  Excuses(task[cpu.cause])
    BY DEF CpuReleased, Excuses
  <2>1. Releases(cpu.cause) /\ ~Holds(task[cpu.cause]) BY DEF CpuInv, Quiet, Holds
  <2>2. Len(cmds) = 0 BY DEF Quiet
  <2>3. ~ResumeAfter(0) BY <2>2 DEF ResumeAfter
  <2> QED BY <2>1, <2>3 DEF Releases
<1> QED BY <1>1, <1>2, InvCorrect, PTL DEF CpuSafe

\* A trace that reports a hit, or the failure of its capture, leaves no breakpoint
\* armed, and one that reports a hit no CPU stopped by it (tools/workflows.py,
\* trace_memory_access: "Cleanup BEFORE resume").
THEOREM TraceCorrect == Spec => []TraceReleases
<1>1. CpuInv => TraceReleases
  <2> SUFFICES ASSUME CpuInv, NEW t \in Tasks, Quiet, Alone(t), task[t].op = "trace"
               PROVE  Unarmed(t) /\ RunsOn(t)
    BY DEF TraceReleases
  <2>1. Disarms(t) /\ InProgram(task[t]) /\ Told(task[t]) BY DEF CpuInv, TypeInv
  <2>2. task[t].pc = "done" BY <2>1, NoName DEF Quiet, InProgram, OpNames
  <2>3. Len(cmds) = 0 BY DEF Quiet
  <2>4. ~ResumeAfter(0) BY <2>3 DEF ResumeAfter
  <2>5. Unarmed(t)
    <3> SUFFICES ASSUME task[t].res \in {"trace", "trace failed"}
                 PROVE  task[t].bp \notin armed
      BY DEF Unarmed
    <3>1. ~Traces(task[t]) BY <2>2 DEF Traces, WithPcs
    <3>2. task[t].bp \in Bps
      <4>1. CASE task[t].res = "trace"
        <5>1. HasTraced(task[t]) BY <2>2, <4>1 DEF HasTraced
        <5> QED BY <2>1, <5>1 DEF Told
      <4>2. CASE task[t].res = "trace failed"
        BY <2>1, <4>2 DEF Told
      <4> QED BY <4>1, <4>2
    <3> QED BY <2>1, <3>1, <3>2, CpuAssumption DEF Disarms
  <2>6. RunsOn(t)
    <3> SUFFICES ASSUME task[t].res = "trace", cpu.stepping
                 PROVE  cpu.cause # task[t].bp
      BY DEF RunsOn
    <3>1. HasTraced(task[t]) BY <2>2 DEF HasTraced
    <3> QED BY <2>1, <2>2, <2>4, <3>1 DEF Disarms
  <2> QED BY <2>5, <2>6
<1> QED BY <1>1, InvCorrect, PTL

\* A wait that gives up without having filtered a hit was told of no stop since
\* it subscribed (tools/workflows.py, wait_breakpoint).
THEOREM WaitCorrect == Spec => WaitMissesNothing
<1>1. CpuInv /\ [Next]_vars =>
        [\A t \in Tasks : task[t].op = "wait" /\ task[t].res = None
                          /\ task'[t].res = "no hit" /\ task[t].rounds = 0
                          => heard <= task[t].since]_vars
  <2> SUFFICES ASSUME CpuInv, [Next]_vars, NEW t \in Tasks, task[t].op = "wait",
                      task[t].res = None, task'[t].res = "no hit", task[t].rounds = 0
               PROVE  heard <= task[t].since
    OBVIOUS
  <2>1. TypeInv /\ Listens(t) /\ None # "no hit" BY NoName DEF CpuInv, Outcomes
  <2>2. task' # task BY <2>1
  <2>3. PICK u \in Tasks, r \in TaskType, e \in Events \cup {None} :
             Moves(u, r, e) /\ Hears(u, r)
    BY <2>1, <2>2, Steps DEF vars, cpuVars, EmuShape, DispatchShape, Shape
  <2>4. task'[u] = r /\ (t # u => task'[t] = task[t])
    <3>1. task'[u] = r /\ \A v \in Tasks \ {u} : task'[v] = task[v] BY <2>1, <2>3, Others
    <3> QED BY <3>1
  <2>5. task[t].pc = "waiting" /\ subs[t] = <<>> BY <2>1, <2>3, <2>4 DEF Hears
  <2> QED BY <2>1, <2>5 DEF Listens
<1> QED BY <1>1, InvCorrect, PTL DEF Spec, WaitMissesNothing

\* A resume sent with nothing in flight is confirmed by its own broadcast
\* (core/game_state_observer.py, drain_resume, and core/stepping.py).
THEOREM ResumeCorrect == Spec => ResumeIsFresh
<1>1. CpuInv /\ [Next]_vars =>
        [\A t \in Tasks : ResumedByBroadcast(t) /\ task[t].clean
                          => Head(resumeQ).at >= task[t].since]_vars
  <2> SUFFICES ASSUME CpuInv, NEW t \in Tasks, ResumedByBroadcast(t), task[t].clean
               PROVE  Head(resumeQ).at >= task[t].since
    OBVIOUS
  <2>1. resumeQ \in Seq(Broadcasts) /\ HearsAfter(t) BY DEF CpuInv, TypeInv, ObserverTyped
  <2>2. resumeQ # <<>> /\ task[t].pc = "resuming" BY DEF ResumedByBroadcast, At
  <2>3. Head(resumeQ) = resumeQ[1] /\ 1 \in 1 .. Len(resumeQ) BY <2>1, <2>2, Popped
  <2> QED BY <2>1, <2>2, <2>3 DEF HearsAfter
<1> QED BY <1>1, InvCorrect, PTL DEF Spec, ResumeIsFresh
=============================================================================
