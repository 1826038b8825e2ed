----------------------- MODULE SessionLifecycle_proofs -----------------------
(* Theorems about SessionLifecycle, for every number of sessions, calls and  *)
(* stop tasks and every value of the bounds.                                 *)
EXTENDS SessionLifecycle, TLAPS

(***************************************************************************)
(* Type correctness.                                                       *)
(***************************************************************************)

\* The initial values of the tables, the store and the tasks are in their types.
LEMMA TypeInit == Init => TypeOK
  <1> USE BoundsAssumption, SessionsAssumption, NoneAssumption DEF Slots, Attempts
  <1> SUFFICES ASSUME Init PROVE TypeOK
    OBVIOUS
  <1>1. WorldOK
    BY DEF Init, WorldOK
  <1>2. StoreOK /\ TablesOK
    BY DEF Init, StoreOK, TablesOK
  <1>3. StartOK
    BY DEF Init, StartOK, StartType, StartPcs
  <1>4. StopOK
    BY DEF Init, StopOK, StopType, StopPcs
  <1>5. GcOK
    BY DEF Init, GcOK, GcType, GcPcs, GcAsleep, SnapType, NoSnapshot
  <1>6. CallOK
    BY DEF Init, CallOK, CallType, CallPcs
  <1>7. BudgetOK
    BY DEF Init, BudgetOK
  <1> QED
    BY <1>1, <1>2, <1>3, <1>4, <1>5, <1>6, <1>7 DEF TypeOK

\* A step that leaves a group of variables alone keeps its type.
LEMMA Frame ==
  /\ WorldOK /\ UNCHANGED world => WorldOK'
  /\ StoreOK /\ UNCHANGED store => StoreOK'
  /\ TablesOK /\ UNCHANGED tables => TablesOK'
  /\ StartOK /\ UNCHANGED start => StartOK'
  /\ StopOK /\ UNCHANGED stop => StopOK'
  /\ GcOK /\ UNCHANGED gc => GcOK'
  /\ CallOK /\ UNCHANGED call => CallOK'
  /\ BudgetOK /\ UNCHANGED budget => BudgetOK'
  BY DEF world, store, tables, WorldOK, StoreOK, TablesOK, StartOK, StopOK,
         GcOK, CallOK, BudgetOK

\* An exception that reaches start_session leaves its task and _launchers typed.
LEMMA RaiseType ==
  ASSUME NEW s \in Sessions, StartOK, launchers \in [Sessions -> Slots], Raise(s)
  PROVE  StartOK' /\ launchers' \in [Sessions -> Slots]
  BY DEF Raise, StartOK, StartType, StartPcs, Slots

\* Updating the local state of one start task, outside its wait between two
\* attempts (wedge_cooldown), and of one stop_session, keeps their types.
LEMMA StartMove ==
  ASSUME StartOK, NEW s \in Sessions, NEW r \in StartType, r.pc # "cooldown",
         start' = [start EXCEPT ![s] = r]
  PROVE  StartOK'
  BY DEF StartOK

LEMMA StopMove ==
  ASSUME StopOK, NEW k \in Stoppers, NEW r \in StopType, r.sid \in Sessions,
         stop' = [stop EXCEPT ![k] = r]
  PROVE  StopOK'
  BY DEF StopOK

\* Spawning a process (launcher.start) keeps every type.
LEMMA LaunchType ==
  ASSUME NEW s \in Sessions, NEW n \in Attempts, TypeOK, Launch(s, n)
  PROVE  TypeOK'
  <1>1. WorldOK'
    BY DEF TypeOK, WorldOK, Launch
  <1>2. StartOK'
    BY DEF TypeOK, StartOK, Launch, StartType, StartPcs, Slots
  <1> QED
    BY <1>1, <1>2, Frame DEF TypeOK, Launch, store, tables

\* Every step of start_session, _start_once and _gate_boot keeps every type.
LEMMA TypeStart ==
  ASSUME TypeOK, NEW s \in Sessions, StartStep(s)
  PROVE  TypeOK'
  <1>1. CASE StartSession(s) \/ Relaunch(s)
    BY <1>1, LaunchType, BoundsAssumption
       DEF StartSession, Relaunch, Attempts, TypeOK, StartOK, StartType
  <1>2. CASE LaunchFails(s) \/ StopConflicting(s)
    BY <1>2, RaiseType, Frame
       DEF LaunchFails, StopConflicting, Kill, TypeOK, WorldOK, TablesOK, store
  <1>3. CASE Register(s)
    <2>1. StartOK'
      BY <1>3 DEF TypeOK, Register, StartOK, StartType, StartPcs
    <2>2. TablesOK'
      BY <1>3 DEF TypeOK, Register, TablesOK, StartOK, StartType, Slots
    <2> QED
      BY <1>3, <2>1, <2>2, Frame DEF Register, TypeOK
  <1>4. CASE Persist(s)
    <2>1. StartOK'
      BY <1>4 DEF TypeOK, Persist, StartOK, StartType, StartPcs
    <2>2. StoreOK'
      BY <1>4 DEF TypeOK, Persist, StoreOK, StartOK, StartType, Slots
    <2> QED
      BY <1>4, <2>1, <2>2, Frame DEF Persist, TypeOK
  <1>5. CASE SaveFails(s)
    BY <1>5, RaiseType, Frame DEF SaveFails, TypeOK, TablesOK
  <1>6. CASE PortConflict(s)
    <2>1. StartOK'
      BY <1>6 DEF TypeOK, PortConflict, StartOK, StartType, StartPcs
    <2>2. TablesOK'
      BY <1>6 DEF TypeOK, PortConflict, TablesOK, StartOK, StartType, Slots
    <2> QED
      BY <1>6, <2>1, <2>2, Frame DEF PortConflict, TypeOK
  <1>7. CASE \/ ProbeAnswers(s) \/ ProbeFails(s) \/ BindRefused(s)
             \/ CpuReady(s) \/ CpuWedged(s) \/ GateRecord(s)
    <2>1. StartOK'
      BY <1>7 DEF ProbeAnswers, ProbeFails, BindRefused, CpuReady,
                  CpuWedged, GateRecord, Return, Wedge, TypeOK, StartOK,
                  StartType, StartPcs
    <2> QED
      BY <1>7, <2>1, Frame
         DEF ProbeAnswers, ProbeFails, BindRefused, CpuReady,
             CpuWedged, GateRecord, TypeOK
  <1>8. CASE Connect(s)
    <2>1. StartOK' /\ WorldOK'
      BY <1>8 DEF TypeOK, Connect, StartOK, WorldOK, StartType, StartPcs
    <2> QED
      BY <1>8, <2>1, Frame DEF Connect, TypeOK
  <1>9. CASE Bind(s)
    <2>1. StartOK' /\ TablesOK'
      BY <1>9 DEF TypeOK, Bind, Return, Wedge, StartOK, TablesOK, StartType, StartPcs, Slots
    <2> QED
      BY <1>9, <2>1, Frame DEF Bind, TypeOK
  <1>10. CASE EstablishFails(s)
    <2>1. StartOK'
      BY <1>10 DEF TypeOK, EstablishFails, Return, Wedge, StartOK, StartType, StartPcs
    <2>2. WorldOK' /\ TablesOK'
      BY <1>10 DEF TypeOK, EstablishFails, CloseBoth, WorldOK, TablesOK, Slots
    <2> QED
      BY <1>10, <2>1, <2>2, Frame DEF EstablishFails, TypeOK
  <1>11. CASE AbortBind(s)
    <2>1. StartOK' /\ launchers' \in [Sessions -> Slots]
      BY <1>11, RaiseType DEF AbortBind, TypeOK, TablesOK
    <2>2. WorldOK' /\ TablesOK'
      BY <1>11, <2>1 DEF TypeOK, AbortBind, CloseBoth, WorldOK, TablesOK, Slots
    <2> QED
      BY <1>11, <2>1, <2>2, Frame DEF AbortBind, TypeOK
  <1>12. CASE GateLoad(s)
    <2>1. StartOK' /\ launchers' \in [Sessions -> Slots]
      <3>1. CASE RecordAlive(s)
        <4> DEFINE r == [start[s] EXCEPT !.pc = "cpu"]
        <4>1. start' = [start EXCEPT ![s] = r] /\ launchers' = launchers
          BY <1>12, <3>1 DEF GateLoad
        <4>2. r \in StartType /\ r.pc = "cpu"
          BY DEF TypeOK, StartOK, StartType, StartPcs
        <4> QED
          BY <4>1, <4>2 DEF TypeOK, TablesOK, StartOK
      <3>2. CASE ~RecordAlive(s)
        BY <1>12, <3>2, RaiseType DEF GateLoad, TypeOK, TablesOK
      <3> QED
        BY <3>1, <3>2
    <2> QED
      BY <1>12, <2>1, Frame DEF GateLoad, TypeOK, TablesOK
  <1>13. CASE Teardown(s)
    <2>1. launchers[s] \in Slots /\ handles[s] \in Slots
      BY DEF TypeOK, TablesOK
    <2> DEFINE r == [start[s] EXCEPT !.pc = "closing",
                                     !.launcher = launchers[s],
                                     !.handles = handles[s]]
    <2>4. start' = [start EXCEPT ![s] = r]
      BY <1>13 DEF Teardown
    <2>5. r \in StartType /\ r.pc = "closing"
      BY <2>1 DEF TypeOK, StartOK, StartType, StartPcs
    <2>2. StartOK'
      BY <2>4, <2>5 DEF TypeOK, StartOK
    <2>3. TablesOK'
      BY <1>13 DEF TypeOK, Teardown, TablesOK, Slots
    <2> QED
      BY <1>13, <2>2, <2>3, Frame DEF Teardown, TypeOK
  <1>14. CASE CloseHeld(s)
    <2> DEFINE r == [start[s] EXCEPT !.pc = "killing", !.handles = None]
    <2>1. r \in StartType /\ r.pc # "cooldown"
      BY DEF TypeOK, StartOK, StartType, StartPcs, Slots
    <2>4. start' = [start EXCEPT ![s] = r]
      BY <1>14 DEF CloseHeld
    <2>2. StartOK'
      BY <2>1, <2>4, StartMove DEF TypeOK
    <2>3. WorldOK'
      BY <1>14 DEF TypeOK, CloseHeld, WorldOK
    <2> QED
      BY <1>14, <2>2, <2>3, Frame DEF CloseHeld, TypeOK
  <1>16. CASE KillHeld(s)
    <2>1. StartOK'
      BY <1>16 DEF TypeOK, KillHeld, StartOK, StartType, StartPcs, Slots
    <2>2. WorldOK'
      BY <1>16 DEF TypeOK, KillHeld, Kill, WorldOK
    <2> QED
      BY <1>16, <2>1, <2>2, Frame DEF KillHeld, TypeOK
  <1>15. CASE Discard(s)
    <2>1. StartOK' /\ StoreOK'
      BY <1>15 DEF TypeOK, Discard, StartOK, StoreOK, StartType, StartPcs, Slots
    <2> QED
      BY <1>15, <2>1, Frame DEF Discard, TypeOK
  <1>17. CASE DiscardFails(s)
    <2>1. StartOK'
      BY <1>17 DEF TypeOK, DiscardFails, StartOK, StartType, StartPcs
    <2> QED
      BY <1>17, <2>1, Frame DEF DiscardFails, TypeOK
  <1> QED
    BY <1>1, <1>2, <1>3, <1>4, <1>5, <1>6, <1>7, <1>8, <1>9, <1>10, <1>11,
       <1>12, <1>13, <1>14, <1>15, <1>16, <1>17 DEF StartStep

\* Cancelling a start task keeps every type.
LEMMA TypeCancelStart ==
  ASSUME TypeOK, NEW s \in Sessions,
         CancelAttempt(s) \/ CancelBind(s) \/ CancelHealing(s)
  PROVE  TypeOK'
  <1>1. BudgetOK'
    BY DEF CancelAttempt, CancelBind, CancelHealing, SpendCancel, TypeOK, BudgetOK
  <1>2. CASE CancelAttempt(s)
    BY <1>1, <1>2, RaiseType, Frame DEF CancelAttempt, TypeOK, TablesOK
  <1>3. CASE CancelHealing(s)
    <2> DEFINE r == [start[s] EXCEPT !.pc = "failed", !.launcher = None,
                                     !.handles = None]
    <2>1. r \in StartType /\ r.pc # "cooldown"
      BY DEF TypeOK, StartOK, StartType, StartPcs, Slots
    <2>4. start' = [start EXCEPT ![s] = r]
      BY <1>3 DEF CancelHealing
    <2>2. StartOK'
      BY <2>1, <2>4, StartMove DEF TypeOK
    <2>3. WorldOK'
      BY <1>3 DEF CancelHealing, TypeOK, WorldOK
    <2> QED
      BY <1>1, <1>3, <2>2, <2>3, Frame DEF CancelHealing, TypeOK
  <1>4. CASE CancelBind(s)
    <2>1. StartOK' /\ launchers' \in [Sessions -> Slots]
      BY <1>4, RaiseType DEF CancelBind, TypeOK, TablesOK
    <2>2. TablesOK'
      BY <1>4, <2>1 DEF TypeOK, CancelBind, TablesOK, StartOK, StartType, Slots
    <2> QED
      BY <1>1, <1>4, <2>1, <2>2, Frame DEF CancelBind, TypeOK
  <1> QED
    BY <1>2, <1>3, <1>4

\* Every step of stop_session, and its cancellation, keeps every type.
LEMMA TypeStop ==
  ASSUME TypeOK, NEW k \in Stoppers,
         \/ StopStep(k) \/ CancelStop(k)
         \/ \E s \in Sessions : StopLookup(k, s) \/ StopNotFound(k, s)
  PROVE  TypeOK'
  <1>1. CASE \E s \in Sessions : StopLookup(k, s)
    <2>1. PICK s \in Sessions : StopLookup(k, s)
      BY <1>1
    <2>2. StopOK'
      BY <2>1 DEF StopLookup, TypeOK, StopOK, StopType, StopPcs, StoreOK, TablesOK
    <2>3. TablesOK'
      BY <2>1 DEF StopLookup, TypeOK, TablesOK, Slots
    <2> QED
      BY <2>1, <2>2, <2>3, Frame DEF StopLookup, TypeOK
  <1>2. CASE \E s \in Sessions : StopNotFound(k, s)
    <2>2. PICK s \in Sessions : StopNotFound(k, s)
      BY <1>2
    <2> DEFINE r == [stop[k] EXCEPT !.pc = "notfound", !.sid = s]
    <2>3. stop' = [stop EXCEPT ![k] = r]
      BY <2>2 DEF StopNotFound
    <2>4. r \in StopType /\ r.sid = s
      BY DEF TypeOK, StopOK, StopType, StopPcs
    <2>1. StopOK'
      BY <2>3, <2>4 DEF TypeOK, StopOK
    <2> QED
      BY <1>2, <2>1, Frame DEF StopNotFound, TypeOK
  <1>3. CASE StopClose(k)
    <2> DEFINE r == [stop[k] EXCEPT !.pc = "killing", !.handles = None]
    <2>1. stop[k].pc # "ready" /\ stop' = [stop EXCEPT ![k] = r]
      BY <1>3 DEF StopClose
    <2>5. r \in StopType /\ r.sid \in Sessions
      BY <2>1 DEF TypeOK, StopOK, StopType, StopPcs, Slots
    <2>2. StopOK'
      BY <2>1, <2>5, StopMove DEF TypeOK
    <2>3. WorldOK'
      BY <1>3 DEF StopClose, TypeOK, WorldOK
    <2> QED
      BY <1>3, <2>2, <2>3, Frame DEF StopClose, TypeOK
  <1>4. CASE StopKill(k)
    <2> DEFINE r == [stop[k] EXCEPT !.pc = "removing", !.launcher = None]
    <2>3. stop[k].pc # "ready" /\ stop' = [stop EXCEPT ![k] = r]
      BY <1>4 DEF StopKill
    <2>5. r \in StopType /\ r.sid \in Sessions
      BY <2>3 DEF TypeOK, StopOK, StopType, StopPcs, Slots
    <2>1. StopOK'
      BY <2>3, <2>5, StopMove DEF TypeOK
    <2>2. WorldOK'
      BY <1>4 DEF StopKill, TypeOK, WorldOK
    <2> QED
      BY <1>4, <2>1, <2>2, Frame DEF StopKill, TypeOK
  <1>5. CASE StopLauncherFails(k) \/ StopPidFails(k) \/ StopRemoveFails(k)
    <2>1. StopOK'
      BY <1>5 DEF StopLauncherFails, StopPidFails, StopRemoveFails, TypeOK,
                  StopOK, StopType, StopPcs, Slots
    <2> QED
      BY <1>5, <2>1, Frame
         DEF StopLauncherFails, StopPidFails, StopRemoveFails, TypeOK
  <1>6. CASE StopRemove(k)
    <2> DEFINE r == [stop[k] EXCEPT !.pc = "done", !.pid = None]
    <2>4. stop[k].pc # "ready" /\ stop' = [stop EXCEPT ![k] = r]
      BY <1>6 DEF StopRemove
    <2>5. r \in StopType /\ r.sid \in Sessions
      BY <2>4 DEF TypeOK, StopOK, StopType, StopPcs, Slots
    <2>1. StopOK'
      BY <2>4, <2>5, StopMove DEF TypeOK
    <2>2. StoreOK'
      BY <1>6 DEF StopRemove, TypeOK, StoreOK, Slots
    <2>3. TablesOK'
      BY <1>6 DEF StopRemove, TypeOK, TablesOK
    <2> QED
      BY <1>6, <2>1, <2>2, <2>3, Frame DEF StopRemove, TypeOK
  <1>7. CASE CancelStop(k)
    <2> DEFINE r == [stop[k] EXCEPT !.pc = "cancelled", !.launcher = None,
                                   !.handles = None]
    <2>3. stop[k].pc # "ready" /\ stop' = [stop EXCEPT ![k] = r]
      BY <1>7 DEF CancelStop
    <2>5. r \in StopType /\ r.sid \in Sessions
      BY <2>3 DEF TypeOK, StopOK, StopType, StopPcs, Slots
    <2>1. StopOK'
      BY <2>3, <2>5, StopMove DEF TypeOK
    <2>2. WorldOK' /\ BudgetOK'
      BY <1>7 DEF CancelStop, SpendCancel, TypeOK, WorldOK, BudgetOK
    <2> QED
      BY <1>7, <2>1, <2>2, Frame DEF CancelStop, TypeOK
  <1> QED
    BY <1>1, <1>2, <1>3, <1>4, <1>5, <1>6, <1>7 DEF StopStep

\* The collector's decision for one session keeps the type of its state.
LEMMA DecisionType ==
  ASSUME NEW g \in GcType, NEW s \in Sessions
  PROVE  /\ Decision(g, s) \in GcType
         /\ Decision(g, s).pc # "loop" => Decision(g, s).sid \in Sessions
  <1>1. [g EXCEPT !.todo = @ \ {s}, !.pc = "loop"] \in GcType
    BY DEF GcType, GcPcs
  <1>2. [g EXCEPT !.todo = @ \ {s}, !.pc = "closing", !.sid = s] \in GcType
    BY DEF GcType, GcPcs
  <1> QED
    BY <1>1, <1>2 DEF Decision, GcType

\* Every step of gc_idle_sessions keeps every type.
LEMMA TypeGc ==
  ASSUME TypeOK, GcScan \/ GcStep
  PROVE  TypeOK'
  <1>1. CASE GcScan
    <2>1. GcOK'
      BY <1>1 DEF GcScan, Expired, NoSnapshot, TypeOK, GcOK, GcType, GcPcs,
                  SnapType, StoreOK, TablesOK, Slots
    <2> QED
      BY <1>1, <2>1, Frame DEF GcScan, TypeOK
  <1>2. CASE GcReload
    <2> DEFINE f == [t \in Sessions |->
                      IF t \in gc.todo \ idle THEN record[t] ELSE None]
    <2>2. [gc EXCEPT !.fresh = f] \in GcType
      <3>1. f \in [Sessions -> Slots]
        BY DEF TypeOK, StoreOK, Slots
      <3> QED
        BY <3>1 DEF TypeOK, GcOK, GcType
    <2>3. PICK s \in gc.todo : gc' = Decision([gc EXCEPT !.fresh = f], s)
      BY <1>2 DEF GcReload
    <2>4. s \in Sessions
      BY DEF TypeOK, GcOK, GcType
    <2>1. GcOK'
      BY <2>2, <2>3, <2>4, DecisionType DEF GcOK
    <2> QED
      BY <1>2, <2>1, Frame DEF GcReload, TypeOK
  <1>3. CASE GcNext
    <2>2. PICK s \in gc.todo : gc' = Decision(gc, s)
      BY <1>3 DEF GcNext
    <2>3. s \in Sessions
      BY DEF TypeOK, GcOK, GcType
    <2>1. GcOK'
      BY <2>2, <2>3, DecisionType DEF TypeOK, GcOK
    <2> QED
      BY <1>3, <2>1, Frame DEF GcNext, TypeOK
  <1>4. CASE GcClose \/ GcKill
    <2>1. GcOK'
      BY <1>4 DEF GcClose, GcKill, TypeOK, GcOK, GcType, GcPcs
    <2>2. WorldOK'
      BY <1>4 DEF GcClose, GcKill, TypeOK, WorldOK
    <2> QED
      BY <1>4, <2>1, <2>2, Frame DEF GcClose, GcKill, TypeOK
  <1>5. CASE GcKillFails
    <2>1. GcOK'
      BY <1>5 DEF GcKillFails, TypeOK, GcOK, GcType, GcPcs
    <2> QED
      BY <1>5, <2>1, Frame DEF GcKillFails, TypeOK
  <1>6. CASE GcDrop
    <2>1. GcOK'
      BY <1>6 DEF GcDrop, TypeOK, GcOK, GcType, GcPcs
    <2>2. TablesOK'
      BY <1>6 DEF GcDrop, Dropped, TypeOK, TablesOK, Slots
    <2> QED
      BY <1>6, <2>1, <2>2, Frame DEF GcDrop, TypeOK
  <1>7. CASE GcRemove \/ GcRemoveFails
    <2>1. GcOK'
      BY <1>7 DEF GcRemove, GcRemoveFails, GcAsleep, NoSnapshot, TypeOK, GcOK, GcType, GcPcs,
                  SnapType, Slots
    <2>2. StoreOK'
      BY <1>7, Frame DEF GcRemove, GcRemoveFails, TypeOK, StoreOK, Slots
    <2> QED
      BY <1>7, <2>1, <2>2, Frame DEF GcRemove, GcRemoveFails, TypeOK
  <1> QED
    BY <1>1, <1>2, <1>3, <1>4, <1>5, <1>6, <1>7 DEF GcStep

\* Every step of session_client_with_transport keeps every type.
LEMMA TypeCall ==
  ASSUME TypeOK, NEW c \in Callers,
         CallStep(c) \/ \E s \in Sessions : CallCheck(c, s)
  PROVE  TypeOK'
  <1>1. CASE \E s \in Sessions : CallCheck(c, s)
    <2>1. CallOK'
      BY <1>1 DEF CallCheck, TypeOK, CallOK, CallType, CallPcs, StoreOK
    <2> QED
      BY <1>1, <2>1, Frame DEF CallCheck, TypeOK
  <1>2. CASE CallTouch(c)
    <2> DEFINE s == call[c].sid
               l == LockFor(s)
    <2>1. s \in Sessions /\ call[c] \in CallType
      BY <1>2 DEF CallTouch, TypeOK, CallOK
    <2>2. l \in Nat \cup {Closing} /\ Driven(s, call[c].att) \in Slots
      BY <2>1 DEF LockFor, Driven, TypeOK, TablesOK, CallType, Slots
    <2>3. CallOK'
      BY <1>2, <2>1, <2>2 DEF CallTouch, TypeOK, CallOK, CallType, CallPcs
    <2>4. TablesOK'
      BY <1>2, <2>1, <2>2 DEF CallTouch, TypeOK, TablesOK
    <2>5. StoreOK'
      BY <1>2 DEF CallTouch, TypeOK, StoreOK
    <2> QED
      BY <1>2, <2>3, <2>4, <2>5, Frame DEF CallTouch, TypeOK
  <1>3. CASE CallGrant(c)
    <2>1. call[c] \in CallType /\ Driven(call[c].sid, call[c].att) \in Slots
      BY <1>3 DEF CallGrant, Driven, TypeOK, TablesOK, CallOK, CallType, Slots
    <2>2. CallOK'
      BY <1>3, <2>1 DEF CallGrant, TypeOK, CallOK, CallType, CallPcs
    <2> QED
      BY <1>3, <2>2, Frame DEF CallGrant, TypeOK
  <1>4. CASE CallTouchFails(c) \/ CallBusy(c) \/ CallEnd(c)
    <2>1. CallOK'
      BY <1>4 DEF CallTouchFails, CallBusy, CallEnd, CallDone, TypeOK,
                  CallOK, CallType, CallPcs, Slots
    <2> QED
      BY <1>4, <2>1, Frame DEF CallTouchFails, CallBusy, CallEnd, TypeOK
  <1> QED
    BY <1>1, <1>2, <1>3, <1>4 DEF CallStep

\* A crash, or idle time passing, keeps every type.
LEMMA TypeEnvironment ==
  ASSUME TypeOK, \/ \E p \in alive : Crash(p)
                 \/ \E s \in Sessions : GrowIdle(s)
  PROVE  TypeOK'
  <1>1. CASE \E p \in alive : Crash(p)
    <2>1. WorldOK' /\ BudgetOK'
      BY <1>1 DEF Crash, TypeOK, WorldOK, BudgetOK
    <2> QED
      BY <1>1, <2>1, Frame DEF Crash, TypeOK
  <1>2. CASE \E s \in Sessions : GrowIdle(s)
    <2>1. StoreOK' /\ BudgetOK'
      BY <1>2 DEF GrowIdle, TypeOK, StoreOK, BudgetOK
    <2> QED
      BY <1>2, <2>1, Frame DEF GrowIdle, TypeOK
  <1> QED
    BY <1>1, <1>2

\* Every step of the system keeps every type.
LEMMA TypeStep == TypeOK /\ [Next]_vars => TypeOK'
  <1> SUFFICES ASSUME TypeOK, [Next]_vars PROVE TypeOK'
    OBVIOUS
  <1>1. CASE Next
    BY <1>1, TypeStart, TypeCancelStart, TypeStop, TypeGc, TypeCall,
       TypeEnvironment DEF Next
  <1>2. CASE UNCHANGED vars
    BY <1>2, Frame DEF vars, world, store, tables, TypeOK
  <1> QED
    BY <1>1, <1>2

\* The tables, the store and every task keep their types in every reachable
\* state, whatever start, stop, collection, cancellation and call interleave.
THEOREM TypeCorrect == Spec => []TypeOK
  BY TypeInit, TypeStep, PTL DEF Spec

(***************************************************************************)
(* Mutual exclusion of tool bodies, when no start is resilient.            *)
(*                                                                         *)
(* LockInv is inductive together with TypeOK.  Its heart is that a session *)
(* is recorded once: no plain start comes back to "launched", so once the  *)
(* record is gone no call passes touch_session, and a lock entry that was  *)
(* dropped with the record is never replaced by a second lock object.      *)
(***************************************************************************)

\* The lock table and the calls start in LockInv.
LEMMA LockInit ==
  ASSUME Resilient = {}, Init
  PROVE  LockInv
  BY NoneAssumption, SessionsAssumption DEF Init, LockInv, InBody

\* What LockInv says of one session.
SessionLockInv(s) ==
    /\ start[s].pc \notin {"gateload", "cpu", "recording",
                           "teardown", "closing", "cooldown"}
    /\ ~start[s].wedge
    /\ start[s].pc \in {"new", "launching", "launched"} =>
         /\ record[s] = None /\ locks[s] = None /\ lockCount[s] = 0
    /\ lockCount[s] \in {0, 1}
    /\ locks[s] \in {None, Closing, 1}
    /\ locks[s] = 1 => lockCount[s] = 1
    /\ record[s] # None /\ locks[s] = None => lockCount[s] = 0

\* Dropping records, and nothing else it speaks of, keeps LockInv.
LEMMA LockFrame ==
  ASSUME TypeOK, LockInv, UNCHANGED <<start, call, locks, lockCount>>,
         \A s \in Sessions : record'[s] \in {record[s], None}
  PROVE  LockInv'
  BY DEF LockInv, InBody

\* A start task changes its own session only.
LEMMA StartIsLocal ==
  ASSUME TypeOK, NEW s \in Sessions,
         \/ StartStep(s) \/ CancelAttempt(s)
         \/ CancelBind(s) \/ CancelHealing(s)
  PROVE  /\ call' = call /\ lockCount' = lockCount
         /\ \E r : start' = [start EXCEPT ![s] = r]
         /\ \A t \in Sessions \ {s} : record'[t] = record[t]
         /\ start[s].pc # "teardown" => locks' = locks
  <1>1. call' = call /\ lockCount' = lockCount
    BY DEF StartStep, StartSession, Launch, LaunchFails, Register, Persist,
      SaveFails, PortConflict, StopConflicting, ProbeAnswers, ProbeFails,
      Connect, Bind, BindRefused, EstablishFails, AbortBind,
      GateLoad, CpuReady, CpuWedged, GateRecord, Teardown, CloseHeld, KillHeld,
      Relaunch, Discard, DiscardFails, CancelAttempt, CancelBind, CancelHealing, tables
  <1>2. \E r : start' = [start EXCEPT ![s] = r]
    BY DEF StartStep, StartSession, Launch, LaunchFails, Register, Persist,
      SaveFails, PortConflict, StopConflicting, ProbeAnswers, ProbeFails,
      Connect, Bind, BindRefused, EstablishFails, AbortBind,
      GateLoad, CpuReady, CpuWedged, GateRecord, Teardown, CloseHeld, KillHeld,
      Relaunch, Discard, DiscardFails, CancelAttempt, CancelBind, CancelHealing, Raise, Return, Wedge
  <1>3. \A t \in Sessions \ {s} : record'[t] = record[t]
    BY DEF StartStep, StartSession, Launch, LaunchFails, Register, Persist,
      SaveFails, PortConflict, StopConflicting, ProbeAnswers, ProbeFails,
      Connect, Bind, BindRefused, EstablishFails, AbortBind,
      GateLoad, CpuReady, CpuWedged, GateRecord, Teardown, CloseHeld, KillHeld,
      Relaunch, Discard, DiscardFails, CancelAttempt, CancelBind, CancelHealing, store, TypeOK, StoreOK
  <1>4. start[s].pc # "teardown" => locks' = locks
    BY DEF StartStep, StartSession, Launch, LaunchFails, Register, Persist,
      SaveFails, PortConflict, StopConflicting, ProbeAnswers, ProbeFails,
      Connect, Bind, BindRefused, EstablishFails, AbortBind,
      GateLoad, CpuReady, CpuWedged, GateRecord, Teardown, CloseHeld, KillHeld,
      Relaunch, Discard, DiscardFails, CancelAttempt, CancelBind, CancelHealing, tables
  <1> QED
    BY <1>1, <1>2, <1>3, <1>4

\* How a plain start task moves: it never wedges or heals, only Persist
\* records its session, and it is never about to record it a second time.
LEMMA PlainStart ==
  ASSUME Resilient = {}, TypeOK, LockInv, NEW s \in Sessions,
         \/ StartStep(s) \/ CancelAttempt(s)
         \/ CancelBind(s) \/ CancelHealing(s)
  PROVE  /\ ~start'[s].wedge
         /\ start'[s].pc \notin {"gateload", "cpu", "recording",
                                 "teardown", "closing", "cooldown"}
         /\ start'[s].pc \in {"new", "launching", "launched"} =>
              /\ start[s].pc \in {"new", "launching", "launched"}
              /\ record'[s] = record[s]
         /\ record'[s] # None =>
              record[s] # None \/ start[s].pc = "launched"
  <1> USE DEF TypeOK, StartOK, StartType, StoreOK, TablesOK, LockInv
  <1>1. CASE StartSession(s) \/ LaunchFails(s) \/ Register(s) \/ Relaunch(s)
    BY <1>1 DEF StartSession, LaunchFails, Register, Relaunch, Launch, Raise, store
  <1>2. CASE Persist(s) \/ SaveFails(s) \/ PortConflict(s) \/ StopConflicting(s)
    BY <1>2 DEF Persist, SaveFails, PortConflict, StopConflicting, Raise, store
  <1>3. CASE ProbeAnswers(s) \/ ProbeFails(s) \/ Connect(s) \/ Bind(s)
    BY <1>3 DEF ProbeAnswers, ProbeFails, Connect, Bind, Return, Wedge, store
  <1>4. CASE BindRefused(s) \/ EstablishFails(s) \/ AbortBind(s)
    BY <1>4 DEF BindRefused, EstablishFails, AbortBind, Return, Wedge, Raise, store
  <1>5. CASE \/ GateLoad(s) \/ CpuReady(s) \/ CpuWedged(s)
             \/ GateRecord(s) \/ Teardown(s) \/ CloseHeld(s)
    BY <1>5 DEF GateLoad, CpuReady, CpuWedged, GateRecord, Teardown, CloseHeld
  <1>6. CASE KillHeld(s) \/ Discard(s) \/ DiscardFails(s)
    BY <1>6 DEF KillHeld, Discard, DiscardFails, store
  <1>7. CASE CancelAttempt(s) \/ CancelBind(s) \/ CancelHealing(s)
    BY <1>7 DEF CancelAttempt, CancelBind, CancelHealing, Raise, store
  <1> QED
    BY <1>1, <1>2, <1>3, <1>4, <1>5, <1>6, <1>7 DEF StartStep

\* No step of a plain start touches the lock entry of its session.
LEMMA LockStart ==
  ASSUME Resilient = {}, TypeOK, LockInv, NEW s \in Sessions,
         \/ StartStep(s) \/ CancelAttempt(s)
         \/ CancelBind(s) \/ CancelHealing(s)
  PROVE  LockInv'
  <1>1. /\ call' = call /\ lockCount' = lockCount /\ locks' = locks
        /\ \A t \in Sessions \ {s} : start'[t] = start[t] /\ record'[t] = record[t]
    BY StartIsLocal DEF LockInv, TypeOK, StartOK
  <1>2. SessionLockInv(s)'
    BY <1>1, PlainStart DEF LockInv, SessionLockInv
  <1> QED
    BY <1>1, <1>2 DEF LockInv, SessionLockInv, InBody

\* stop_session's sentinel comes with a record and goes with it.
LEMMA LockStop ==
  ASSUME NEW k \in Stoppers, TypeOK, LockInv,
         \/ StopStep(k) \/ CancelStop(k)
         \/ \E s \in Sessions : StopLookup(k, s) \/ StopNotFound(k, s)
  PROVE  LockInv'
  <1>1. CASE \E s \in Sessions : StopLookup(k, s)
    <2>1. PICK s \in Sessions : StopLookup(k, s)
      BY <1>1
    <2>2. /\ start' = start /\ call' = call /\ lockCount' = lockCount
          /\ record' = record /\ record[s] # None
          /\ locks' = [locks EXCEPT ![s] = Closing]
      BY <2>1 DEF StopLookup, store
    <2> QED
      BY <2>2, NoneAssumption DEF LockInv, InBody, TypeOK, TablesOK
  <1>2. CASE StopRemove(k)
    <2> DEFINE s == stop[k].sid
    <2>1. /\ start' = start /\ call' = call /\ lockCount' = lockCount
          /\ record' = [record EXCEPT ![s] = None]
          /\ locks' = [locks EXCEPT ![s] = IF @ = Closing THEN None ELSE @]
      BY <1>2 DEF StopRemove
    <2> QED
      BY <2>1, NoneAssumption DEF LockInv, InBody, TypeOK, TablesOK, StoreOK
  <1>3. CASE \/ StopClose(k) \/ StopKill(k) \/ StopLauncherFails(k)
             \/ StopPidFails(k) \/ StopRemoveFails(k) \/ CancelStop(k)
             \/ \E s \in Sessions : StopNotFound(k, s)
    BY <1>3, LockFrame
       DEF StopClose, StopKill, StopLauncherFails, StopPidFails,
           StopRemoveFails, CancelStop, StopNotFound, store, tables
  <1> QED
    BY <1>1, <1>2, <1>3 DEF StopStep

\* gc_idle_sessions drops records and leaves the lock entries alone.
LEMMA LockGc ==
  ASSUME TypeOK, LockInv, GcScan \/ GcStep
  PROVE  LockInv'
  <1>1. UNCHANGED <<start, call, locks, lockCount>>
    BY DEF GcScan, GcStep, GcReload, GcNext, GcClose, GcKill, GcKillFails,
           GcDrop, GcRemove, GcRemoveFails, tables
  <1>2. \A s \in Sessions : record'[s] \in {record[s], None}
    BY DEF GcScan, GcStep, GcReload, GcNext, GcClose, GcKill, GcKillFails,
           GcDrop, GcRemove, GcRemoveFails, store
  <1> QED
    BY <1>1, <1>2, LockFrame

\* A call gets its lock only for a recorded session, and enters alone.
LEMMA LockCall ==
  ASSUME NEW c \in Callers, TypeOK, LockInv,
         CallStep(c) \/ \E s \in Sessions : CallCheck(c, s)
  PROVE  LockInv'
  <1>1. CASE CallTouch(c)
    <2> DEFINE s == call[c].sid
               l == LockFor(s)
    <2>1. s \in Sessions /\ record[s] # None /\ start' = start /\ record' = record
      BY <1>1 DEF CallTouch, TypeOK, CallOK
    <2>2. l \in {1, Closing}
      BY <2>1 DEF LockFor, LockInv
    <2>3. /\ locks' = [locks EXCEPT ![s] = l]
          /\ lockCount' = [lockCount EXCEPT ![s] = IF locks[s] = None THEN @ + 1 ELSE @]
      BY <1>1 DEF CallTouch
    <2>4. \A t \in Sessions : SessionLockInv(t)'
      BY <2>1, <2>2, <2>3, NoneAssumption
         DEF LockInv, LockFor, SessionLockInv, TypeOK, TablesOK
    <2>5. CASE l # Closing /\ Free(s, l)
      <3>1. call' = [call EXCEPT ![c].pc = "body", ![c].lock = l,
                                 ![c].att = Driven(s, @)]
        BY <1>1, <2>5 DEF CallTouch
      <3>2. \A d \in Callers \ {c} : InBody(d) => call[d].sid # s
        BY <2>2, <2>5 DEF Free, LockInv, InBody
      <3> QED
        BY <2>2, <2>4, <2>5, <3>1, <3>2
           DEF LockInv, SessionLockInv, InBody, TypeOK, CallOK, CallType
    <2>6. CASE ~(l # Closing /\ Free(s, l))
      <3>1. call' = [call EXCEPT ![c].pc = "waiting", ![c].lock = l]
        BY <1>1, <2>6 DEF CallTouch
      <3> QED
        BY <2>2, <2>4, <3>1
           DEF LockInv, SessionLockInv, InBody, TypeOK, CallOK, CallType
    <2> QED
      BY <2>5, <2>6
  <1>2. CASE CallGrant(c)
    <2>1. /\ call' = [call EXCEPT ![c].pc = "body", ![c].att = Driven(call[c].sid, @)]
          /\ UNCHANGED <<start, record, locks, lockCount>>
      BY <1>2 DEF CallGrant, store, tables
    <2>2. call[c].lock = 1
      BY <1>2 DEF CallGrant, LockInv
    <2>3. \A d \in Callers \ {c} : InBody(d) => call[d].sid # call[c].sid
      BY <1>2, <2>2 DEF CallGrant, Free, LockInv, InBody
    <2> QED
      BY <2>1, <2>2, <2>3 DEF LockInv, InBody, TypeOK, CallOK, CallType
  <1>3. CASE CallTouchFails(c) \/ CallBusy(c) \/ CallEnd(c)
    BY <1>3 DEF CallTouchFails, CallBusy, CallEnd, CallDone, store, tables,
                LockInv, InBody, TypeOK, CallOK, CallType
  <1>4. CASE \E s \in Sessions : CallCheck(c, s)
    BY <1>4 DEF CallCheck, store, tables, LockInv, InBody, TypeOK, CallOK, CallType
  <1> QED
    BY <1>1, <1>2, <1>3, <1>4 DEF CallStep

\* Every step of a system without resilient starts keeps LockInv.
LEMMA LockStep ==
  ASSUME Resilient = {}
  PROVE  TypeOK /\ LockInv /\ [Next]_vars => LockInv'
  <1> SUFFICES ASSUME TypeOK, LockInv, [Next]_vars PROVE LockInv'
    OBVIOUS
  <1>1. CASE (\E p \in alive : Crash(p)) \/ \E s \in Sessions : GrowIdle(s)
    BY <1>1, LockFrame DEF Crash, GrowIdle, store, tables
  <1>2. CASE UNCHANGED vars
    BY <1>2, LockFrame DEF vars
  <1> QED
    BY <1>1, <1>2, LockStart, LockStop, LockGc, LockCall DEF Next

\* The lock table keeps the invariant behind the serialization of tool calls.
THEOREM LockCorrect ==
  ASSUME Resilient = {}
  PROVE  Spec => []LockInv
  BY TypeCorrect, LockInit, LockStep, PTL DEF Spec

\* Without resilient starts no two tool bodies ever drive one live process,
\* for any number of sessions, calls, stops, crashes, reclaims and
\* cancellations: client_helper's per-session serialization.
THEOREM MutualExclusion ==
  ASSUME Resilient = {}
  PROVE  Spec => []OneCallPerProcess
  <1>1. LockInv => OneCallPerProcess
    BY DEF LockInv, OneCallPerProcess
  <1> QED
    BY <1>1, LockCorrect, PTL

(***************************************************************************)
(* How sessions that are not resilient end: what a stop that returned has  *)
(* ended, that every process can be found until it is dead, and that the   *)
(* lock table forgets a session.  For every number of sessions, calls,     *)
(* stops, crashes and reclaims; each theorem names the failures and the    *)
(* cancellations it holds without.                                         *)
(***************************************************************************)

Zero == {0, None}
Dead(s) == <<s, 0>> \notin alive

\* A session that was never recorded.
Early(s) == start[s].pc \in {"new", "launching", "launched", "conflict"}

\* A stop that found its session.
Engaged(k) == stop[k].pc \notin {"ready", "notfound"}

-----------------------------------------------------------------------------
(* The moves of a plain start *)

KeepsTables(s) == launchers' = launchers /\ record' = record

Launches(s) ==
    /\ start[s].pc = "new" /\ start'[s].pc = "launching"
    /\ start'[s].att = 0 /\ start'[s].launcher = None
    /\ alive' = alive \cup {<<s, 0>>} /\ KeepsTables(s)

Registers(s) ==
    /\ start[s].pc = "launching" /\ start'[s].pc = "launched"
    /\ start'[s].launcher = start[s].launcher
    /\ launchers'[s] = start[s].att /\ record' = record /\ alive' = alive

Records(s) ==
    /\ start[s].pc = "launched" /\ start'[s].pc = "probing"
    /\ start'[s].launcher = start[s].launcher
    /\ record'[s] = start[s].att /\ launchers' = launchers /\ alive' = alive

Refuses(s) ==
    /\ start[s].pc = "launched" /\ start'[s].pc = "conflict"
    /\ start'[s].launcher = start[s].launcher
    /\ launchers'[s] = None /\ record' = record /\ alive' = alive

\* _abandon_launcher begins.
Abandons(s) ==
    /\ start'[s].pc = "killing" /\ start'[s].launcher = launchers[s]
    /\ launchers'[s] = None /\ record' = record
    /\ \/ /\ start[s].pc \in {"launching", "conflict"} /\ alive' \subseteq alive
          /\ "start" \notin MayFail => <<s, start[s].att>> \notin alive'
       \/ start[s].pc = "aborting" /\ alive' = alive
       \/ /\ "save" \in MayFail \/ budget.cancel > 0
          /\ start[s].pc \in {"launching", "launched", "probing", "connecting", "binding"}
          /\ alive' = alive

\* The probe and the connection, up to the end of the start.
Establishes(s) ==
    /\ start[s].pc \in {"probing", "connecting", "binding"}
    /\ \/ start'[s].pc \in {"connecting", "binding", "ok"}
       \/ start'[s].pc = "aborting" /\ record[s] = None
    /\ start'[s].launcher = start[s].launcher
    /\ KeepsTables(s) /\ alive' = alive

Cleans(s) ==
    /\ start'[s].launcher \in {start[s].launcher, None}
    /\ launchers' = launchers /\ alive' \subseteq alive
    /\ \/ start[s].pc = "killing" /\ start'[s].pc = "discard" /\ record' = record
       \/ start[s].pc = "discard" /\ start'[s].pc = "failed" /\ record'[s] = None
       \/ /\ "save" \in MayFail \/ budget.cancel > 0
          /\ start[s].pc = "discard" /\ start'[s].pc = "failed" /\ record' = record

PlainMove(s) ==
    /\ UNCHANGED <<stop, gc, call, locks>>
    /\ budget'.cancel \in {budget.cancel, budget.cancel - 1}
    /\ \A t \in Sessions \ {s} :
          start'[t] = start[t] /\ record'[t] = record[t] /\ launchers'[t] = launchers[t]
    /\ start'[s].att \in {start[s].att, 0}
    /\ \/ Launches(s) \/ Registers(s) \/ Records(s) \/ Refuses(s)
       \/ Abandons(s) \/ Establishes(s) \/ Cleans(s)

\* Every step of a start task is one of these moves, if no start is resilient.
LEMMA PlainMoves ==
  ASSUME Resilient = {}, TypeOK, LockInv, NEW s \in Sessions,
         \/ StartStep(s) \/ CancelAttempt(s)
         \/ CancelBind(s) \/ CancelHealing(s)
  PROVE  PlainMove(s)
  <1>1. /\ start[s].pc \notin {"gateload", "cpu", "recording",
                               "teardown", "closing", "cooldown"}
        /\ ~start[s].wedge
    BY DEF LockInv
  <1>2. /\ start \in [Sessions -> StartType] /\ record \in [Sessions -> Slots]
        /\ launchers \in [Sessions -> Slots] /\ locks' = locks
        /\ budget \in [crash : Nat, idle : Nat, cancel : Nat]
    BY <1>1, StartIsLocal DEF TypeOK, StartOK, StoreOK, TablesOK, BudgetOK
  <1>3. /\ \A t \in Sessions \ {s} : start'[t] = start[t] /\ record'[t] = record[t]
        /\ call' = call
    BY <1>2, StartIsLocal
  <1> DEFINE Frames == /\ UNCHANGED <<stop, gc, call, locks>>
                       /\ budget'.cancel \in {budget.cancel, budget.cancel - 1}
                       /\ \A t \in Sessions \ {s} : /\ start'[t] = start[t]
                                                    /\ record'[t] = record[t]
                                                    /\ launchers'[t] = launchers[t]
  <1>4. CASE StartStep(s)
    <2>1. UNCHANGED <<stop, gc, budget>>
      BY <1>4 DEF StartStep, StartSession, Launch, LaunchFails, Register, Persist,
        SaveFails, PortConflict, StopConflicting, ProbeAnswers, ProbeFails,
        Connect, Bind, BindRefused, EstablishFails, AbortBind,
        GateLoad, CpuReady, CpuWedged, GateRecord, Teardown, CloseHeld, KillHeld,
        Relaunch, Discard, DiscardFails
    <2>2. \A t \in Sessions \ {s} : launchers'[t] = launchers[t]
      BY <1>2, <1>4 DEF StartStep, StartSession, Launch, LaunchFails, Register, Persist,
        SaveFails, PortConflict, StopConflicting, ProbeAnswers, ProbeFails,
        Connect, Bind, BindRefused, EstablishFails, AbortBind,
        GateLoad, CpuReady, CpuWedged, GateRecord, Teardown, CloseHeld, KillHeld,
        Relaunch, Discard, DiscardFails, Raise, tables
    <2>3. Frames
      BY <1>2, <1>3, <2>1, <2>2
    <2> HIDE DEF Frames
    <2>4. CASE StartSession(s)
      <3>1. Launches(s) /\ start'[s].att = 0
        BY <1>2, <2>4 DEF StartSession, Launch, Launches, KeepsTables, store, tables
      <3> QED
        BY <2>3, <3>1 DEF PlainMove, Frames
    <2>5. CASE Register(s)
      <3>1. Registers(s) /\ start'[s].att = start[s].att
        BY <1>2, <2>5 DEF Register, Registers, store, world
      <3> QED
        BY <2>3, <3>1 DEF PlainMove, Frames
    <2>6. CASE Persist(s)
      <3>1. Records(s) /\ start'[s].att = start[s].att
        BY <1>2, <2>6 DEF Persist, Records, tables, world
      <3> QED
        BY <2>3, <3>1 DEF PlainMove, Frames
    <2>7. CASE PortConflict(s)
      <3>1. Refuses(s) /\ start'[s].att = start[s].att
        BY <1>2, <2>7 DEF PortConflict, Refuses, store, world
      <3> QED
        BY <2>3, <3>1 DEF PlainMove, Frames
    <2>8. CASE LaunchFails(s) \/ StopConflicting(s)
      <3>1. Abandons(s) /\ start'[s].att = start[s].att
        BY <1>2, <2>8 DEF LaunchFails, StopConflicting, Kill, Raise, Abandons, store, StartType
      <3> QED
        BY <2>3, <3>1 DEF PlainMove, Frames
    <2>9. CASE SaveFails(s) \/ AbortBind(s)
      <3>1. Abandons(s) /\ start'[s].att = start[s].att
        BY <1>1, <1>2, <2>9 DEF SaveFails, AbortBind, Raise, Abandons, store, world, StartType
      <3> QED
        BY <2>3, <3>1 DEF PlainMove, Frames
    <2>10. CASE \/ ProbeAnswers(s) \/ ProbeFails(s) \/ Connect(s) \/ Bind(s)
                \/ BindRefused(s) \/ EstablishFails(s)
      <3>1. Establishes(s) /\ start'[s].att = start[s].att
        BY <1>2, <2>10 DEF ProbeAnswers, ProbeFails, Connect, Bind, BindRefused,
              EstablishFails, Return, Wedge, Establishes, KeepsTables, store, tables, world, StartType
      <3> QED
        BY <2>3, <3>1 DEF PlainMove, Frames
    <2>11. CASE KillHeld(s) \/ Discard(s) \/ DiscardFails(s)
      <3>1. start'[s].att = start[s].att /\ start'[s].launcher \in {start[s].launcher, None}
        BY <1>2, <2>11 DEF KillHeld, Discard, DiscardFails, StartType
      <3>2. CASE KillHeld(s)
        <4>1. Cleans(s)
          BY <1>1, <1>2, <3>1, <3>2 DEF KillHeld, Kill, Cleans, store, tables, StartType
        <4> QED
          BY <2>3, <3>1, <4>1 DEF PlainMove, Frames
      <3>3. CASE Discard(s) \/ DiscardFails(s)
        <4>1. Cleans(s)
          BY <1>1, <1>2, <3>1, <3>3 DEF Discard, DiscardFails, Cleans, store, tables, world, StartType
        <4> QED
          BY <2>3, <3>1, <4>1 DEF PlainMove, Frames
      <3> QED
        BY <2>11, <3>2, <3>3
    <2>12. ~(\/ GateLoad(s) \/ CpuReady(s) \/ CpuWedged(s) \/ GateRecord(s)
             \/ Teardown(s) \/ CloseHeld(s) \/ Relaunch(s))
      BY <1>1 DEF GateLoad, CpuReady, CpuWedged, GateRecord, Teardown, CloseHeld, Relaunch
    <2> QED
      BY <1>4, <2>4, <2>5, <2>6, <2>7, <2>8, <2>9, <2>10, <2>11, <2>12 DEF StartStep
  <1>5. CASE CancelAttempt(s) \/ CancelBind(s)
    <2>1. Abandons(s) /\ start'[s].att = start[s].att
      BY <1>1, <1>2, <1>5 DEF CancelAttempt, CancelBind, SpendCancel, Raise, Abandons, store, world, StartType
    <2>2. Frames
      BY <1>2, <1>3, <1>5 DEF CancelAttempt, CancelBind, SpendCancel, Raise
    <2> QED
      BY <2>1, <2>2 DEF PlainMove
  <1>6. CASE CancelHealing(s)
    <2>1. Cleans(s) /\ start'[s].att = start[s].att
      BY <1>1, <1>2, <1>6 DEF CancelHealing, SpendCancel, Cleans, store, tables
    <2>2. Frames
      BY <1>2, <1>3, <1>6 DEF CancelHealing, SpendCancel, tables
    <2> QED
      BY <2>1, <2>2 DEF PlainMove
  <1> QED
    BY <1>4, <1>5, <1>6

-----------------------------------------------------------------------------
(* A session is recorded once *)

\* A plain start has one attempt, number 0.  What finds a session in the store
\* (a stop, the collector) comes after its only record was written, so nothing
\* that it takes away comes back.
SessionOnce(s) ==
    /\ start[s].att = 0 /\ start[s].launcher \in Zero
    /\ record[s] \in Zero /\ launchers[s] \in Zero
    /\ Early(s) => record[s] = None
    /\ start[s].pc \in {"new", "launching", "conflict"} => launchers[s] = None
StopOnce(k) ==
    Engaged(k) =>
        /\ ~Early(stop[k].sid) /\ launchers[stop[k].sid] = None
        /\ stop[k].launcher \in Zero
        /\ stop[k].pc \in {"closing", "killing"} => stop[k].pid = 0

OnceInv ==
    /\ alive \subseteq Sessions \X {0}
    /\ \A s \in Sessions : SessionOnce(s)
    /\ \A k \in Stoppers : StopOnce(k)

PlainInv == TypeOK /\ LockInv /\ OnceInv

LEMMA OnceInit ==
  ASSUME Resilient = {}, Init
  PROVE  OnceInv
  <1>1. alive \subseteq Sessions \X {0}
    BY SessionsAssumption DEF Init
  <1>2. \A s \in Sessions : SessionOnce(s)
    BY NoneAssumption DEF Init, SessionOnce, Early, Zero
  <1>3. \A k \in Stoppers : StopOnce(k)
    BY DEF Init, StopOnce, Engaged
  <1> QED
    BY <1>1, <1>2, <1>3 DEF OnceInv

LEMMA OnceStart ==
  ASSUME Resilient = {}, PlainInv, NEW s \in Sessions,
         \/ StartStep(s) \/ CancelAttempt(s)
         \/ CancelBind(s) \/ CancelHealing(s)
  PROVE  OnceInv'
  <1>1. PlainMove(s)
    BY PlainMoves DEF PlainInv
  <1>2. SessionOnce(s)
    BY DEF PlainInv, OnceInv
  <1>3. alive' \subseteq Sessions \X {0}
    BY <1>1 DEF PlainInv, OnceInv, PlainMove, Launches, Registers, Records, Refuses,
                Abandons, Establishes, Cleans
  <1>4. SessionOnce(s)'
    BY <1>1, <1>2, NoneAssumption
       DEF SessionOnce, PlainMove, Launches, Registers, Records, Refuses,
           Abandons, Establishes, Cleans, KeepsTables, Early, Zero
  <1>5. \A t \in Sessions \ {s} : SessionOnce(t)'
    BY <1>1 DEF PlainMove, PlainInv, OnceInv, SessionOnce, Early
  <1>6. Early(s)' => Early(s)
    BY <1>1 DEF PlainMove, Launches, Registers, Records, Refuses,
           Abandons, Establishes, Cleans, Early
  <1>7. ~Early(s) => launchers'[s] \in {launchers[s], None}
    BY <1>1 DEF PlainMove, Launches, Registers, Records, Refuses,
           Abandons, Establishes, Cleans, KeepsTables, Early
  <1>8. ASSUME NEW k \in Stoppers
        PROVE  StopOnce(k)'
    <2>1. stop' = stop /\ StopOnce(k) /\ (Engaged(k) => stop[k].sid \in Sessions)
      BY <1>1 DEF PlainMove, PlainInv, OnceInv, TypeOK, StopOK, Engaged
    <2>2. CASE stop[k].sid = s
      BY <1>6, <1>7, <2>1, <2>2 DEF StopOnce, Engaged
    <2>3. CASE stop[k].sid # s
      BY <1>1, <2>1, <2>3 DEF StopOnce, Engaged, Early, PlainMove
    <2> QED
      BY <2>2, <2>3
  <1> QED
    BY <1>3, <1>4, <1>5, <1>8 DEF OnceInv

\* Taking processes, records and launchers away keeps OnceInv.
LEMMA OnceFrame ==
  ASSUME TypeOK, OnceInv, UNCHANGED <<start, stop>>, alive' \subseteq alive,
         \A s \in Sessions : /\ record'[s] \in {record[s], None}
                             /\ launchers'[s] \in {launchers[s], None}
  PROVE  OnceInv'
  <1>1. \A s \in Sessions : SessionOnce(s)'
    BY DEF OnceInv, SessionOnce, Early, Zero
  <1>2. \A k \in Stoppers : StopOnce(k)'
    <2> TAKE k \in Stoppers
    <2>1. StopOnce(k) /\ (Engaged(k) => stop[k].sid \in Sessions)
      BY DEF OnceInv, TypeOK, StopOK, Engaged
    <2> QED
      BY <2>1 DEF StopOnce, Engaged, Early
  <1> QED
    BY <1>1, <1>2 DEF OnceInv

\* A stop changes its own task, and takes away what it found.
LEMMA StopIsLocal ==
  ASSUME TypeOK, NEW k \in Stoppers,
         \/ StopStep(k) \/ CancelStop(k)
         \/ \E s \in Sessions : StopLookup(k, s) \/ StopNotFound(k, s)
  PROVE  /\ UNCHANGED <<start, gc, call>> /\ alive' \subseteq alive
         /\ \A j \in Stoppers \ {k} : stop'[j] = stop[j]
         /\ \A s \in Sessions : /\ record'[s] \in {record[s], None}
                                /\ launchers'[s] \in {launchers[s], None}
         /\ budget'.cancel \in {budget.cancel, budget.cancel - 1}
  <1> USE DEF TypeOK, StopOK, StoreOK, TablesOK, BudgetOK, StopType
  <1>1. CASE StopStep(k)
    BY <1>1 DEF StopStep, StopClose, StopKill, StopLauncherFails, StopPidFails, StopRemove,
                StopRemoveFails, store, tables, world
  <1>2. CASE CancelStop(k)
    BY <1>2 DEF CancelStop, SpendCancel, store, tables
  <1>3. ASSUME NEW s \in Sessions, StopLookup(k, s) \/ StopNotFound(k, s)
        PROVE  /\ UNCHANGED <<start, gc, call>> /\ alive' \subseteq alive
               /\ \A j \in Stoppers \ {k} : stop'[j] = stop[j]
               /\ \A t \in Sessions : /\ record'[t] \in {record[t], None}
                                      /\ launchers'[t] \in {launchers[t], None}
               /\ budget'.cancel \in {budget.cancel, budget.cancel - 1}
    BY <1>3 DEF StopLookup, StopNotFound, store, tables, world
  <1> QED
    BY <1>1, <1>2, <1>3

LEMMA OnceStop ==
  ASSUME PlainInv, NEW k \in Stoppers,
         \/ StopStep(k) \/ CancelStop(k)
         \/ \E s \in Sessions : StopLookup(k, s) \/ StopNotFound(k, s)
  PROVE  OnceInv'
  <1>1. /\ UNCHANGED <<start, gc, call>> /\ alive' \subseteq alive
        /\ \A j \in Stoppers \ {k} : stop'[j] = stop[j]
        /\ \A s \in Sessions : /\ record'[s] \in {record[s], None}
                               /\ launchers'[s] \in {launchers[s], None}
    BY StopIsLocal DEF PlainInv
  <1>2. \A s \in Sessions : SessionOnce(s)'
    BY <1>1 DEF PlainInv, OnceInv, SessionOnce, Early, Zero
  <1>3. \A j \in Stoppers : StopOnce(j) /\ (Engaged(j) => stop[j].sid \in Sessions)
    BY DEF PlainInv, OnceInv, TypeOK, StopOK, Engaged
  <1>4. \A j \in Stoppers \ {k} : StopOnce(j)'
    BY <1>1, <1>3 DEF StopOnce, Engaged, Early
  <1>5. StopOnce(k)'
    <2>1. stop \in [Stoppers -> StopType]
      BY DEF PlainInv, TypeOK, StopOK
    <2>2. ASSUME NEW s \in Sessions, StopLookup(k, s)
          PROVE  StopOnce(k)'
      <3>1. stop'[k] = [pc |-> "closing", sid |-> s, launcher |-> launchers[s],
                        handles |-> handles[s], pid |-> record[s]]
        BY <2>1, <2>2 DEF StopLookup
      <3>2. launchers'[s] = None /\ record[s] # None
        BY <2>2 DEF StopLookup, PlainInv, TypeOK, TablesOK
      <3>3. SessionOnce(s)
        BY DEF PlainInv, OnceInv
      <3> QED
        BY <1>1, <3>1, <3>2, <3>3 DEF StopOnce, SessionOnce, Early, Zero
    <2>3. ASSUME NEW s \in Sessions, StopNotFound(k, s)
          PROVE  StopOnce(k)'
      <3> DEFINE r == [stop[k] EXCEPT !.pc = "notfound", !.sid = s]
      <3>1. stop'[k] = r /\ stop[k] \in StopType
        BY <2>1, <2>3 DEF StopNotFound
      <3>2. r.pc = "notfound"
        BY <3>1 DEF StopType
      <3>3. stop'[k].pc = "notfound"
        BY <3>1, <3>2
      <3> QED
        BY <3>3 DEF StopOnce, Engaged
    <2>4. CASE StopStep(k) \/ CancelStop(k)
      <3>1. /\ Engaged(k) /\ stop'[k].sid = stop[k].sid
            /\ stop'[k].launcher \in {stop[k].launcher, None}
            /\ stop'[k].pc \in {"closing", "killing"} =>
                  stop[k].pc = "closing" /\ stop'[k].pid = stop[k].pid
        BY <2>1, <2>4
           DEF StopStep, StopClose, StopKill, StopLauncherFails, StopPidFails, StopRemove,
               StopRemoveFails, CancelStop, Engaged, StopType
      <3> QED
        BY <1>1, <1>3, <3>1 DEF StopOnce, Engaged, Early, Zero
    <2> QED
      BY <2>2, <2>3, <2>4
  <1> QED
    BY <1>1, <1>2, <1>4, <1>5 DEF PlainInv, OnceInv

LEMMA OnceStep ==
  ASSUME Resilient = {}, PlainInv, [Next]_vars
  PROVE  PlainInv'
  <1>1. TypeOK' /\ LockInv'
    BY TypeStep, LockStep DEF PlainInv
  <1>2. CASE GcScan \/ GcStep
    <2>1. /\ UNCHANGED <<start, stop>> /\ alive' \subseteq alive
          /\ \A s \in Sessions : /\ record'[s] \in {record[s], None}
                                 /\ launchers'[s] \in {launchers[s], None}
      BY <1>2 DEF GcScan, GcStep, GcReload, GcNext, GcClose, GcKill, GcKillFails,
           GcDrop, Dropped, GcRemove, GcRemoveFails, store, tables, world, PlainInv, TypeOK, TablesOK
    <2> QED
      BY <1>1, <2>1, OnceFrame DEF PlainInv
  <1>3. CASE \E c \in Callers : CallStep(c) \/ \E s \in Sessions : CallCheck(c, s)
    <2>1. UNCHANGED <<start, stop, alive, record, launchers>>
      BY <1>3 DEF CallStep, CallCheck, CallTouch, CallTouchFails, CallGrant, CallBusy, CallEnd,
                  world, store, tables
    <2> QED
      BY <1>1, <2>1, OnceFrame DEF PlainInv
  <1>4. CASE (\E p \in alive : Crash(p)) \/ \E s \in Sessions : GrowIdle(s)
    <2>1. UNCHANGED <<start, stop, record, launchers>> /\ alive' \subseteq alive
      BY <1>4 DEF Crash, GrowIdle, world, store, tables
    <2> QED
      BY <1>1, <2>1, OnceFrame DEF PlainInv
  <1>5. CASE UNCHANGED vars
    BY <1>1, <1>5, OnceFrame DEF vars, PlainInv
  <1>6. CASE (\E s \in Sessions : StartStep(s) \/ CancelAttempt(s) \/ CancelBind(s) \/ CancelHealing(s))
    BY <1>1, <1>6, OnceStart DEF PlainInv
  <1>7. CASE \E k \in Stoppers : \/ StopStep(k) \/ CancelStop(k)
                                \/ \E s \in Sessions : StopLookup(k, s) \/ StopNotFound(k, s)
    BY <1>1, <1>7, OnceStop DEF PlainInv
  <1> QED
    BY <1>2, <1>3, <1>4, <1>5, <1>6, <1>7 DEF Next

LEMMA PlainCorrect ==
  ASSUME Resilient = {}
  PROVE  Spec => []PlainInv
  <1>1. Init => PlainInv
    BY TypeInit, LockInit, OnceInit DEF PlainInv
  <1>2. PlainInv /\ [Next]_vars => PlainInv'
    BY OnceStep
  <1> QED
    BY <1>1, <1>2, PTL DEF Spec

-----------------------------------------------------------------------------
(* A stop that returned is final *)

\* A stop past its kill has killed the only process of its session.  The kill
\* of a recorded pid must not fail: stop_session suppresses that failure.
StopEnds(k) ==
    /\ stop[k].pc \in {"removing", "done"} => Dead(stop[k].sid)
    /\ stop[k].pc = "done" => record[stop[k].sid] = None

EndsInv == \A k \in Stoppers : StopEnds(k)

\* What a start step does to a session that was recorded before: it spawns
\* no process of it and writes no record.
LEMMA NothingComesBack ==
  ASSUME Resilient = {}, TypeOK, LockInv, NEW s \in Sessions,
         \/ StartStep(s) \/ CancelAttempt(s)
         \/ CancelBind(s) \/ CancelHealing(s)
  PROVE  \A t \in Sessions :
            ~Early(t) => /\ ~Early(t)'
                         /\ Dead(t) => Dead(t)'
                         /\ record'[t] \in {record[t], None}
                         /\ launchers'[t] \in {launchers[t], None}
  <1>1. PlainMove(s)
    BY PlainMoves
  <1>2. \A t \in Sessions : ~Early(t) => (Dead(t) => Dead(t)')
    BY <1>1 DEF PlainMove, Launches, Registers, Records, Refuses,
           Abandons, Establishes, Cleans, Early, Dead
  <1>3. \A t \in Sessions \ {s} : /\ Early(t)' = Early(t)
                                  /\ record'[t] = record[t]
                                  /\ launchers'[t] = launchers[t]
    BY <1>1 DEF PlainMove, Early
  <1>4. ~Early(s) => /\ ~Early(s)'
                     /\ record'[s] \in {record[s], None}
                     /\ launchers'[s] \in {launchers[s], None}
    BY <1>1 DEF PlainMove, Launches, Registers, Records, Refuses,
           Abandons, Establishes, Cleans, KeepsTables, Early
  <1> QED
    BY <1>2, <1>3, <1>4

LEMMA EndsInit == Init => EndsInv
  BY DEF Init, EndsInv, StopEnds

\* A step that leaves the stops alone, and brings back nothing of a session
\* that was recorded, keeps what they ended.
LEMMA EndsFrame ==
  ASSUME PlainInv, EndsInv, UNCHANGED stop,
         \A t \in Sessions : ~Early(t) => /\ Dead(t) => Dead(t)'
                                          /\ record'[t] \in {record[t], None}
  PROVE  EndsInv'
  <1> SUFFICES ASSUME NEW k \in Stoppers PROVE StopEnds(k)'
    BY DEF EndsInv
  <1>1. StopEnds(k) /\ StopOnce(k) /\ (Engaged(k) => stop[k].sid \in Sessions)
    BY DEF EndsInv, PlainInv, OnceInv, TypeOK, StopOK, Engaged
  <1> QED
    BY <1>1 DEF StopEnds, StopOnce, Engaged, Dead

LEMMA EndsStop ==
  ASSUME "pid" \notin MayFail, PlainInv, EndsInv, NEW k \in Stoppers,
         \/ StopStep(k) \/ CancelStop(k)
         \/ \E s \in Sessions : StopLookup(k, s) \/ StopNotFound(k, s)
  PROVE  EndsInv'
  <1>1. /\ alive' \subseteq alive /\ \A j \in Stoppers \ {k} : stop'[j] = stop[j]
        /\ \A s \in Sessions : record'[s] \in {record[s], None}
    BY StopIsLocal DEF PlainInv
  <1>2. \A j \in Stoppers : StopEnds(j) /\ (Engaged(j) => stop[j].sid \in Sessions)
    BY DEF EndsInv, PlainInv, TypeOK, StopOK, Engaged
  <1>3. \A j \in Stoppers \ {k} : StopEnds(j)'
    BY <1>1, <1>2 DEF StopEnds, Engaged, Dead
  <1>4. stop \in [Stoppers -> StopType] /\ StopOnce(k)
    BY DEF PlainInv, OnceInv, TypeOK, StopOK
  <1>5. StopEnds(k)'
    <2>1. CASE \E s \in Sessions : StopLookup(k, s) \/ StopNotFound(k, s)
      <3>1. stop'[k].pc \in {"closing", "notfound"}
        BY <1>4, <2>1 DEF StopLookup, StopNotFound, StopType
      <3> QED
        BY <3>1 DEF StopEnds
    <2>2. CASE StopClose(k) \/ StopLauncherFails(k) \/ StopRemoveFails(k) \/ CancelStop(k)
      <3>1. stop'[k].pc \in {"killing", "error", "cancelled"}
        BY <1>4, <2>2 DEF StopClose, StopLauncherFails, StopRemoveFails, CancelStop, StopType
      <3> QED
        BY <3>1 DEF StopEnds
    <2>3. CASE StopKill(k)
      <3>1. stop'[k].pc = "removing" /\ stop'[k].sid = stop[k].sid
        BY <1>4, <2>3 DEF StopKill, StopType
      <3>2. StopTarget(k) = <<stop[k].sid, 0>>
        BY <1>4, <2>3 DEF StopKill, StopTarget, StopOnce, Engaged, Zero
      <3> QED
        BY <2>3, <3>1, <3>2 DEF StopKill, StopEnds, Dead
    <2>4. CASE StopRemove(k)
      <3>1. stop'[k].pc = "done" /\ stop'[k].sid = stop[k].sid /\ alive' = alive
        BY <1>4, <2>4 DEF StopRemove, StopType, world
      <3>2. record'[stop[k].sid] = None
        BY <1>2, <2>4 DEF StopRemove, Engaged, PlainInv, TypeOK, StoreOK
      <3>3. <<stop[k].sid, 0>> \notin alive
        BY <1>2, <2>4 DEF StopRemove, StopEnds, Dead
      <3> QED
        BY <3>1, <3>2, <3>3 DEF StopEnds, Dead
    <2>5. ~StopPidFails(k)
      BY DEF StopPidFails
    <2> QED
      BY <2>1, <2>2, <2>3, <2>4, <2>5 DEF StopStep
  <1> QED
    BY <1>3, <1>5 DEF EndsInv

\* The steps of the collector, the tool calls and the environment take away.
Takes == /\ UNCHANGED <<start, stop>> /\ alive' \subseteq alive
         /\ \A s \in Sessions : /\ record'[s] \in {record[s], None}
                                /\ launchers'[s] \in {launchers[s], None}

LEMMA OthersTake ==
  ASSUME TypeOK, \/ GcScan \/ GcStep \/ UNCHANGED vars
                 \/ \E c \in Callers : CallStep(c) \/ \E s \in Sessions : CallCheck(c, s)
                 \/ \E p \in alive : Crash(p)
                 \/ \E s \in Sessions : GrowIdle(s)
  PROVE  Takes
  <1>1. CASE GcScan \/ GcStep
    BY <1>1 DEF GcScan, GcStep, GcReload, GcNext, GcClose, GcKill, GcKillFails,
         GcDrop, Dropped, GcRemove, GcRemoveFails, store, tables, world, TypeOK, TablesOK, Takes
  <1>2. CASE \E c \in Callers : CallStep(c) \/ \E s \in Sessions : CallCheck(c, s)
    BY <1>2 DEF CallStep, CallCheck, CallTouch, CallTouchFails, CallGrant, CallBusy, CallEnd,
                world, store, tables, Takes
  <1>3. CASE (\E p \in alive : Crash(p)) \/ \E s \in Sessions : GrowIdle(s)
    BY <1>3 DEF Crash, GrowIdle, world, store, tables, Takes
  <1>4. CASE UNCHANGED vars
    BY <1>4 DEF vars, Takes
  <1> QED
    BY <1>1, <1>2, <1>3, <1>4

LEMMA EndsStep ==
  ASSUME Resilient = {}, "pid" \notin MayFail, PlainInv, EndsInv, [Next]_vars
  PROVE  EndsInv'
  <1>1. CASE \E s \in Sessions : \/ StartStep(s) \/ CancelAttempt(s)
                                \/ CancelBind(s) \/ CancelHealing(s)
    <2>1. PICK s \in Sessions : \/ StartStep(s) \/ CancelAttempt(s)
                                \/ CancelBind(s) \/ CancelHealing(s)
      BY <1>1
    <2>2. UNCHANGED stop
      BY <2>1, PlainMoves DEF PlainInv, PlainMove
    <2> QED
      BY <2>1, <2>2, NothingComesBack, EndsFrame DEF PlainInv
  <1>2. CASE \E k \in Stoppers : \/ StopStep(k) \/ CancelStop(k)
                                \/ \E s \in Sessions : StopLookup(k, s) \/ StopNotFound(k, s)
    BY <1>2, EndsStop
  <1>3. CASE \/ GcScan \/ GcStep \/ UNCHANGED vars
             \/ \E c \in Callers : CallStep(c) \/ \E s \in Sessions : CallCheck(c, s)
             \/ \E p \in alive : Crash(p)
             \/ \E s \in Sessions : GrowIdle(s)
    <2>1. Takes
      BY <1>3, OthersTake DEF PlainInv
    <2> QED
      BY <2>1, EndsFrame DEF Takes, Dead
  <1> QED
    BY <1>1, <1>2, <1>3 DEF Next

\* StopIsFinal: when stop_session has returned, no process of the session
\* runs, none is recorded and no launcher is registered, whatever crashes,
\* cancellations, failed saves, failed launcher stops and collector cycles
\* came before or come after.
THEOREM StopFinalCorrect ==
  ASSUME Resilient = {}, "pid" \notin MayFail
  PROVE  Spec => []StopIsFinal
  <1>1. Init => EndsInv
    BY EndsInit
  <1>2. PlainInv /\ EndsInv /\ [Next]_vars => EndsInv'
    BY EndsStep
  <1>3. PlainInv /\ EndsInv => StopIsFinal
    <2> SUFFICES ASSUME PlainInv, EndsInv, NEW k \in Stoppers, stop[k].pc = "done"
                 PROVE  /\ \A n \in Attempts : <<stop[k].sid, n>> \notin alive
                        /\ record[stop[k].sid] = None /\ launchers[stop[k].sid] = None
      BY DEF StopIsFinal
    <2>1. StopEnds(k) /\ StopOnce(k) /\ alive \subseteq Sessions \X {0}
      BY DEF EndsInv, PlainInv, OnceInv
    <2> QED
      BY <2>1 DEF StopEnds, StopOnce, Engaged, Dead
  <1> QED
    BY <1>1, <1>2, <1>3, PlainCorrect, PTL DEF Spec

-----------------------------------------------------------------------------
(* Nobody enters a session that is being stopped *)

\* While a stop is between its phases 1 and 3, its session carries the closing
\* sentinel, or its record is gone already.
LateInv == \A k \in Stoppers, s \in Sessions :
              Stopping(k, s) => locks[s] = Closing \/ record[s] = None

LEMMA LateInit == Init => LateInv
  BY DEF Init, LateInv, Stopping

\* A call that takes a lock leaves a sentinel where it is.
LEMMA SentinelStays ==
  ASSUME TypeOK, NEW c \in Callers,
         CallStep(c) \/ \E s \in Sessions : CallCheck(c, s)
  PROVE  /\ UNCHANGED <<stop, record>>
         /\ \A s \in Sessions : /\ locks[s] = Closing => locks'[s] = Closing
                                /\ locks'[s] = Closing => locks[s] = Closing
                                /\ locks'[s] = locks[s] \/ record[s] # None
  <1>1. CASE CallTouch(c)
    <2>1. locks' = [locks EXCEPT ![call[c].sid] = LockFor(call[c].sid)]
          /\ record[call[c].sid] # None /\ UNCHANGED <<stop, record>>
      BY <1>1 DEF CallTouch
    <2>2. call[c].sid \in Sessions /\ locks \in [Sessions -> Nat \cup {None, Closing}]
          /\ lockCount \in [Sessions -> Nat]
      BY <1>1 DEF CallTouch, TypeOK, CallOK, TablesOK
    <2>3. LockFor(call[c].sid) = Closing <=> locks[call[c].sid] = Closing
      BY <2>2, NoneAssumption DEF LockFor
    <2> QED
      BY <2>1, <2>2, <2>3
  <1>2. CASE \/ CallTouchFails(c) \/ CallGrant(c) \/ CallBusy(c) \/ CallEnd(c)
             \/ \E s \in Sessions : CallCheck(c, s)
    BY <1>2 DEF CallTouchFails, CallGrant, CallBusy, CallEnd, CallCheck, store, tables
  <1> QED
    BY <1>1, <1>2 DEF CallStep

LEMMA LateStop ==
  ASSUME PlainInv, LateInv, NEW k \in Stoppers,
         \/ StopStep(k) \/ CancelStop(k)
         \/ \E s \in Sessions : StopLookup(k, s) \/ StopNotFound(k, s)
  PROVE  LateInv'
  <1>1. \A j \in Stoppers \ {k} : stop'[j] = stop[j]
    BY StopIsLocal DEF PlainInv
  <1>2. stop \in [Stoppers -> StopType] /\ record \in [Sessions -> Slots]
        /\ locks \in [Sessions -> Nat \cup {None, Closing}]
        /\ (Engaged(k) => stop[k].sid \in Sessions)
    BY DEF PlainInv, TypeOK, StopOK, StoreOK, TablesOK, Engaged
  <1>3. CASE \E s \in Sessions : StopLookup(k, s)
    <2>1. PICK s \in Sessions : StopLookup(k, s)
      BY <1>3
    <2>2. /\ locks'[s] = Closing /\ record' = record /\ stop'[k].sid = s
          /\ \A t \in Sessions \ {s} : locks'[t] = locks[t]
      BY <1>2, <2>1 DEF StopLookup, store
    <2> QED
      BY <1>1, <2>2 DEF LateInv, Stopping
  <1>4. CASE \/ StopClose(k) \/ StopKill(k) \/ StopLauncherFails(k) \/ StopPidFails(k)
             \/ StopRemoveFails(k) \/ CancelStop(k)
             \/ \E s \in Sessions : StopNotFound(k, s)
    <2>1. record' = record /\ locks' = locks
      BY <1>4 DEF StopClose, StopKill, StopLauncherFails, StopPidFails, StopRemoveFails,
                  CancelStop, StopNotFound, store, tables
    <2>2. \A s \in Sessions : Stopping(k, s)' => Stopping(k, s)
      BY <1>2, <1>4 DEF StopClose, StopKill, StopLauncherFails, StopPidFails, StopRemoveFails,
                  CancelStop, StopNotFound, Stopping, StopType
    <2> QED
      BY <1>1, <2>1, <2>2 DEF LateInv, Stopping
  <1>5. CASE StopRemove(k)
    <2>1. /\ stop'[k].pc = "done" /\ record'[stop[k].sid] = None
          /\ \A t \in Sessions \ {stop[k].sid} : locks'[t] = locks[t] /\ record'[t] = record[t]
      BY <1>2, <1>5 DEF StopRemove, StopType, Engaged
    <2> QED
      BY <1>1, <2>1 DEF LateInv, Stopping
  <1> QED
    BY <1>3, <1>4, <1>5 DEF StopStep

LEMMA LateStep ==
  ASSUME Resilient = {}, PlainInv, LateInv, [Next]_vars
  PROVE  LateInv'
  <1>1. CASE \E s \in Sessions : \/ StartStep(s) \/ CancelAttempt(s)
                                \/ CancelBind(s) \/ CancelHealing(s)
    <2>1. PICK s \in Sessions : \/ StartStep(s) \/ CancelAttempt(s)
                                \/ CancelBind(s) \/ CancelHealing(s)
      BY <1>1
    <2>2. UNCHANGED <<stop, locks>>
      BY <2>1, PlainMoves DEF PlainInv, PlainMove
    <2>3. ASSUME NEW k \in Stoppers, NEW t \in Sessions, Stopping(k, t)
          PROVE  record'[t] \in {record[t], None}
      <3>1. ~Early(t)
        BY <2>3 DEF PlainInv, OnceInv, StopOnce, Engaged, Stopping
      <3> QED
        BY <2>1, <3>1, NothingComesBack DEF PlainInv
    <2> QED
      BY <2>2, <2>3 DEF LateInv, Stopping
  <1>2. CASE \E k \in Stoppers : \/ StopStep(k) \/ CancelStop(k)
                                \/ \E s \in Sessions : StopLookup(k, s) \/ StopNotFound(k, s)
    BY <1>2, LateStop
  <1>3. CASE \E c \in Callers : CallStep(c) \/ \E s \in Sessions : CallCheck(c, s)
    BY <1>3, SentinelStays DEF PlainInv, LateInv, Stopping
  <1>4. CASE \/ GcScan \/ GcStep \/ UNCHANGED vars
             \/ \E p \in alive : Crash(p)
             \/ \E s \in Sessions : GrowIdle(s)
    <2>1. Takes
      BY <1>4, OthersTake DEF PlainInv
    <2>2. locks' = locks
      BY <1>4 DEF GcScan, GcStep, GcReload, GcNext, GcClose, GcKill, GcKillFails, GcDrop,
                  GcRemove, GcRemoveFails, Crash, GrowIdle, vars, tables
    <2> QED
      BY <2>1, <2>2 DEF Takes, LateInv, Stopping
  <1> QED
    BY <1>1, <1>2, <1>3, <1>4 DEF Next

\* Only touch_session followed by acquire takes a call from its check into its
\* body, and neither passes a session that is being stopped.
LEMMA NoEntry ==
  ASSUME TypeOK, LateInv, [Next]_vars,
         NEW c \in Callers, NEW k \in Stoppers, Stopping(k, call[c].sid),
         call[c].pc = "checked"
  PROVE  ~InBody(c)'
  <1>1. call \in [Callers -> CallType] /\ call[c].sid \in Sessions
    BY DEF TypeOK, CallOK
  <1>2. CASE \E d \in Callers : CallStep(d) \/ \E s \in Sessions : CallCheck(d, s)
    <2>1. PICK d \in Callers : CallStep(d) \/ \E s \in Sessions : CallCheck(d, s)
      BY <1>2
    <2>2. CASE d # c
      <3>1. call'[c] = call[c]
        BY <1>1, <2>1, <2>2 DEF CallStep, CallCheck, CallTouch, CallTouchFails, CallGrant,
                                CallBusy, CallEnd, CallDone
      <3> QED
        BY <3>1 DEF InBody
    <2>3. CASE d = c /\ CallTouch(c)
      <3>1. LockFor(call[c].sid) = Closing
        BY <1>1, <2>3, NoneAssumption DEF CallTouch, LateInv, LockFor
      <3>2. call' = [call EXCEPT ![c].pc = "waiting", ![c].lock = Closing]
        BY <2>3, <3>1 DEF CallTouch
      <3>3. call[c] \in CallType
        BY <1>1
      <3> DEFINE r == [call[c] EXCEPT !.pc = "waiting", !.lock = Closing]
      <3>4. r.pc = "waiting"
        BY <3>3 DEF CallType
      <3>5. call'[c] = r
        BY <1>1, <3>2
      <3> QED
        BY <3>4, <3>5 DEF InBody
    <2>4. CASE d = c /\ CallTouchFails(c)
      <3>1. call'[c].pc = "done"
        BY <1>1, <2>4 DEF CallTouchFails, CallDone
      <3> QED
        BY <3>1 DEF InBody
    <2>5. ~(CallGrant(c) \/ CallBusy(c) \/ CallEnd(c) \/ \E s \in Sessions : CallCheck(c, s))
      BY DEF CallGrant, CallBusy, CallEnd, CallCheck
    <2> QED
      BY <2>1, <2>2, <2>3, <2>4, <2>5 DEF CallStep
  <1>3. CASE call' = call
    BY <1>3 DEF InBody
  <1>4. CASE \E s \in Sessions : \/ StartStep(s) \/ CancelAttempt(s)
                                \/ CancelBind(s) \/ CancelHealing(s)
    BY <1>3, <1>4, StartIsLocal
  <1>5. CASE \E j \in Stoppers : \/ StopStep(j) \/ CancelStop(j)
                                \/ \E s \in Sessions : StopLookup(j, s) \/ StopNotFound(j, s)
    BY <1>3, <1>5, StopIsLocal
  <1>6. CASE \/ GcScan \/ GcStep \/ UNCHANGED vars
             \/ \E p \in alive : Crash(p)
             \/ \E s \in Sessions : GrowIdle(s)
    BY <1>3, <1>6 DEF GcScan, GcStep, GcReload, GcNext, GcClose, GcKill, GcKillFails, GcDrop,
                  GcRemove, GcRemoveFails, Crash, GrowIdle, vars
  <1> QED
    BY <1>2, <1>4, <1>5, <1>6 DEF Next

\* NoLateEntry: a tool call that arrives while stop_session is between its
\* phases 1 and 3 never enters its body, under every failure, crash,
\* cancellation and reclaim.
THEOREM NoLateEntryCorrect ==
  ASSUME Resilient = {}
  PROVE  Spec => NoLateEntry
  <1>1. Init => LateInv
    BY LateInit
  <1>2. PlainInv /\ LateInv /\ [Next]_vars => LateInv'
    BY LateStep
  <1>3. PlainInv /\ LateInv /\ [Next]_vars =>
           [\A c \in Callers, k \in Stoppers :
              Stopping(k, call[c].sid) => ~(call[c].pc = "checked" /\ InBody(c)')]_vars
    BY NoEntry DEF PlainInv
  <1> QED
    BY <1>1, <1>2, <1>3, PlainCorrect, PTL DEF Spec, NoLateEntry

-----------------------------------------------------------------------------
(* The lock table forgets a session that ended *)

\* Nobody cancels, and a sentinel has a stop that will take it away.
SentinelInv == budget.cancel = 0 /\ SentinelTransient

LEMMA SentinelStop ==
  ASSUME MayFail \cap {"launcher", "save"} = {}, TypeOK, SentinelInv, NEW k \in Stoppers,
         \/ StopStep(k) \/ CancelStop(k)
         \/ \E s \in Sessions : StopLookup(k, s) \/ StopNotFound(k, s)
  PROVE  SentinelInv'
  <1>1. /\ \A j \in Stoppers \ {k} : stop'[j] = stop[j]
        /\ ~CancelStop(k)
    BY StopIsLocal DEF CancelStop, SpendCancel, SentinelInv
  <1>2. stop \in [Stoppers -> StopType] /\ locks \in [Sessions -> Nat \cup {None, Closing}]
        /\ (stop[k].pc # "ready" => stop[k].sid \in Sessions)
    BY DEF TypeOK, StopOK, TablesOK
  <1>3. budget' = budget
    BY <1>1 DEF StopStep, StopClose, StopKill, StopLauncherFails, StopPidFails, StopRemove,
                StopRemoveFails, StopLookup, StopNotFound
  <1>4. SentinelTransient'
    <2>1. CASE \E s \in Sessions : StopLookup(k, s)
      <3>1. PICK s \in Sessions : StopLookup(k, s)
        BY <2>1
      <3>2. /\ stop'[k].pc = "closing" /\ stop'[k].sid = s
            /\ stop[k].pc = "ready"
            /\ \A t \in Sessions \ {s} : locks'[t] = locks[t]
        BY <1>2, <3>1 DEF StopLookup
      <3> QED
        BY <1>1, <3>2 DEF SentinelInv, SentinelTransient, Stopping
    <2>2. CASE \/ StopClose(k) \/ StopKill(k) \/ StopPidFails(k)
      <3>1. locks' = locks
        BY <2>2 DEF StopClose, StopKill, StopPidFails, tables
      <3>2. \A s \in Sessions : Stopping(k, s) => Stopping(k, s)'
        BY <1>2, <2>2 DEF StopClose, StopKill, StopPidFails, Stopping, StopType
      <3> QED
        BY <1>1, <3>1, <3>2 DEF SentinelInv, SentinelTransient, Stopping
    <2>3. CASE \E s \in Sessions : StopNotFound(k, s)
      <3>1. locks' = locks /\ stop[k].pc = "ready"
        BY <2>3 DEF StopNotFound, tables
      <3> QED
        BY <1>1, <3>1 DEF SentinelInv, SentinelTransient, Stopping
    <2>4. CASE StopRemove(k)
      <3>1. /\ stop[k].sid \in Sessions /\ locks'[stop[k].sid] # Closing
            /\ \A t \in Sessions \ {stop[k].sid} : locks'[t] = locks[t]
        BY <1>2, <2>4, NoneAssumption DEF StopRemove
      <3> QED
        BY <1>1, <3>1 DEF SentinelInv, SentinelTransient, Stopping
    <2>5. ~(StopLauncherFails(k) \/ StopRemoveFails(k))
      BY DEF StopLauncherFails, StopRemoveFails
    <2> QED
      BY <1>1, <2>1, <2>2, <2>3, <2>4, <2>5 DEF StopStep
  <1> QED
    BY <1>3, <1>4 DEF SentinelInv

LEMMA SentinelStart ==
  ASSUME TypeOK, SentinelInv, NEW s \in Sessions,
         \/ StartStep(s) \/ CancelAttempt(s)
         \/ CancelBind(s) \/ CancelHealing(s)
  PROVE  SentinelInv'
  <1>1. StartStep(s)
    BY DEF CancelAttempt, CancelBind, CancelHealing, SpendCancel, SentinelInv
  <1>2. UNCHANGED <<stop, budget>>
    BY <1>1 DEF StartStep, StartSession, Launch, LaunchFails, Register, Persist,
      SaveFails, PortConflict, StopConflicting, ProbeAnswers, ProbeFails,
      Connect, Bind, BindRefused, EstablishFails, AbortBind,
      GateLoad, CpuReady, CpuWedged, GateRecord, Teardown, CloseHeld, KillHeld,
      Relaunch, Discard, DiscardFails
  <1>3. CASE Teardown(s)
    <2>1. \A t \in Sessions : locks'[t] \in {locks[t], None}
      BY <1>3 DEF Teardown, TypeOK, TablesOK
    <2> QED
      BY <1>2, <2>1, NoneAssumption DEF SentinelInv, SentinelTransient, Stopping
  <1>4. CASE ~Teardown(s)
    <2>1. locks' = locks
      BY <1>1, <1>4 DEF StartStep, StartSession, Launch, LaunchFails, Register, Persist,
      SaveFails, PortConflict, StopConflicting, ProbeAnswers, ProbeFails,
      Connect, Bind, BindRefused, EstablishFails, AbortBind,
      GateLoad, CpuReady, CpuWedged, GateRecord, CloseHeld, KillHeld,
      Relaunch, Discard, DiscardFails, tables
    <2> QED
      BY <1>2, <2>1 DEF SentinelInv, SentinelTransient, Stopping
  <1> QED
    BY <1>3, <1>4

LEMMA SentinelStep ==
  ASSUME MayFail \cap {"launcher", "save"} = {}, TypeOK, SentinelInv, [Next]_vars
  PROVE  SentinelInv'
  <1>1. CASE \E s \in Sessions : \/ StartStep(s) \/ CancelAttempt(s)
                                \/ CancelBind(s) \/ CancelHealing(s)
    BY <1>1, SentinelStart
  <1>2. CASE \E k \in Stoppers : \/ StopStep(k) \/ CancelStop(k)
                                \/ \E s \in Sessions : StopLookup(k, s) \/ StopNotFound(k, s)
    BY <1>2, SentinelStop
  <1>3. CASE \E c \in Callers : CallStep(c) \/ \E s \in Sessions : CallCheck(c, s)
    <2>1. budget' = budget
      BY <1>3 DEF CallStep, CallCheck, CallTouch, CallTouchFails, CallGrant, CallBusy, CallEnd
    <2> QED
      BY <1>3, <2>1, SentinelStays DEF SentinelInv, SentinelTransient, Stopping
  <1>4. CASE \/ GcScan \/ GcStep \/ UNCHANGED vars
             \/ \E p \in alive : Crash(p)
             \/ \E s \in Sessions : GrowIdle(s)
    <2>1. UNCHANGED <<stop, locks>>
      BY <1>4 DEF GcScan, GcStep, GcReload, GcNext, GcClose, GcKill, GcKillFails, GcDrop,
                  GcRemove, GcRemoveFails, Crash, GrowIdle, vars, tables
    <2>2. budget'.cancel = budget.cancel
      BY <1>4 DEF GcScan, GcStep, GcReload, GcNext, GcClose, GcKill, GcKillFails, GcDrop,
                  GcRemove, GcRemoveFails, Crash, GrowIdle, vars, TypeOK, BudgetOK
    <2> QED
      BY <2>1, <2>2 DEF SentinelInv, SentinelTransient, Stopping
  <1> QED
    BY <1>1, <1>2, <1>3, <1>4 DEF Next

\* SentinelTransient: with resilient starts, crashes, reclaims and failing pid
\* kills, a session carries the closing sentinel only while a stop_session is
\* under way that will remove it.  A failed kill of the launcher, a failed
\* save and a cancelled stop leave it behind.
THEOREM SentinelCorrect ==
  ASSUME MayFail \cap {"launcher", "save"} = {}, MaxCancels = 0
  PROVE  Spec => []SentinelTransient
  <1>1. Init => SentinelInv
    BY NoneAssumption DEF Init, SentinelInv, SentinelTransient
  <1>2. TypeOK /\ SentinelInv /\ [Next]_vars => SentinelInv'
    BY SentinelStep
  <1>3. SentinelInv => SentinelTransient
    BY DEF SentinelInv
  <1> QED
    BY <1>1, <1>2, <1>3, TypeCorrect, PTL DEF Spec

\* A lock is held in the table for a recorded session only, and a start that
\* fails has no record to leave it to.
HeldInv ==
    /\ budget.cancel = 0 /\ gc.pc = "sleep"
    /\ \A s \in Sessions :
         /\ locks[s] \notin {None, Closing} => record[s] # None
         /\ start[s].pc \in {"aborting", "killing", "discard"} => record[s] = None

LEMMA HeldStart ==
  ASSUME Resilient = {}, "save" \notin MayFail, PlainInv, HeldInv, NEW s \in Sessions,
         \/ StartStep(s) \/ CancelAttempt(s)
         \/ CancelBind(s) \/ CancelHealing(s)
  PROVE  HeldInv'
  <1>1. PlainMove(s) /\ SessionOnce(s)
    BY PlainMoves DEF PlainInv, OnceInv
  <1>2. StartStep(s)
    BY DEF CancelAttempt, CancelBind, CancelHealing, SpendCancel, HeldInv
  <1>3. budget' = budget
    BY <1>2 DEF StartStep, StartSession, Launch, LaunchFails, Register, Persist,
      SaveFails, PortConflict, StopConflicting, ProbeAnswers, ProbeFails,
      Connect, Bind, BindRefused, EstablishFails, AbortBind,
      GateLoad, CpuReady, CpuWedged, GateRecord, Teardown, CloseHeld, KillHeld,
      Relaunch, Discard, DiscardFails
  <1>4. budget.cancel = 0 /\ ~(budget.cancel > 0)
    BY DEF HeldInv
  <1>5. start'[s].pc \in {"aborting", "killing", "discard"} => record'[s] = None
    <2>1. start[s].pc \in {"launching", "conflict", "aborting", "killing", "discard"} => record[s] = None
      BY <1>1 DEF HeldInv, SessionOnce, Early
    <2>2. CASE Abandons(s) \/ Establishes(s) \/ Cleans(s)
      BY <1>4, <2>1, <2>2 DEF Abandons, Establishes, Cleans, KeepsTables
    <2>3. CASE Launches(s) \/ Registers(s) \/ Records(s) \/ Refuses(s)
      BY <2>3 DEF Launches, Registers, Records, Refuses
    <2> QED
      BY <1>1, <2>2, <2>3 DEF PlainMove
  <1>6. record[s] # None => record'[s] # None
    <2>1. record \in [Sessions -> Slots] /\ start[s].att = 0
      BY <1>1 DEF PlainInv, TypeOK, StoreOK, SessionOnce
    <2> QED
      BY <1>1, <1>4, <2>1, NoneAssumption DEF PlainMove, HeldInv, SessionOnce, Early, Launches,
          Registers, Records, Refuses, Abandons, Establishes, Cleans, KeepsTables
  <1> QED
    BY <1>1, <1>3, <1>5, <1>6 DEF PlainMove, HeldInv

LEMMA HeldStop ==
  ASSUME PlainInv, LateInv, HeldInv, NEW k \in Stoppers,
         \/ StopStep(k) \/ CancelStop(k)
         \/ \E s \in Sessions : StopLookup(k, s) \/ StopNotFound(k, s)
  PROVE  HeldInv'
  <1>1. /\ UNCHANGED <<start, gc>> /\ ~CancelStop(k)
        /\ \A s \in Sessions : record'[s] \in {record[s], None}
    BY StopIsLocal DEF PlainInv, CancelStop, SpendCancel, HeldInv
  <1>2. budget' = budget
    BY <1>1 DEF StopStep, StopClose, StopKill, StopLauncherFails, StopPidFails, StopRemove,
                StopRemoveFails, StopLookup, StopNotFound
  <1>3. record \in [Sessions -> Slots] /\ locks \in [Sessions -> Nat \cup {None, Closing}]
        /\ (Engaged(k) => stop[k].sid \in Sessions)
    BY DEF PlainInv, TypeOK, StopOK, StoreOK, TablesOK, Engaged
  <1>4. \A s \in Sessions : locks'[s] \notin {None, Closing} => record'[s] # None
    <2>1. CASE \E s \in Sessions : StopLookup(k, s)
      BY <1>3, <2>1 DEF StopLookup, HeldInv, store
    <2>2. CASE \/ StopClose(k) \/ StopKill(k) \/ StopLauncherFails(k) \/ StopPidFails(k)
               \/ StopRemoveFails(k) \/ \E s \in Sessions : StopNotFound(k, s)
      <3>1. record' = record /\ locks' = locks
        BY <2>2 DEF StopClose, StopKill, StopLauncherFails, StopPidFails, StopRemoveFails,
                    StopNotFound, store, tables
      <3> QED
        BY <3>1 DEF HeldInv
    <2>3. CASE StopRemove(k)
      <3>1. stop[k].sid \in Sessions /\ Stopping(k, stop[k].sid)
        BY <1>3, <2>3 DEF StopRemove, Engaged, Stopping
      <3>2. locks[stop[k].sid] \in {None, Closing}
        BY <3>1 DEF LateInv, HeldInv
      <3>3. /\ locks'[stop[k].sid] = None
            /\ \A t \in Sessions \ {stop[k].sid} : locks'[t] = locks[t] /\ record'[t] = record[t]
        BY <1>3, <2>3, <3>1, <3>2 DEF StopRemove
      <3> QED
        BY <3>3 DEF HeldInv
    <2> QED
      BY <1>1, <2>1, <2>2, <2>3 DEF StopStep
  <1> QED
    BY <1>1, <1>2, <1>4 DEF HeldInv

LEMMA HeldStep ==
  ASSUME Resilient = {}, "save" \notin MayFail, MaxGcCycles = 0,
         PlainInv, LateInv, HeldInv, [Next]_vars
  PROVE  HeldInv'
  <1>1. CASE \E s \in Sessions : \/ StartStep(s) \/ CancelAttempt(s)
                                \/ CancelBind(s) \/ CancelHealing(s)
    BY <1>1, HeldStart
  <1>2. CASE \E k \in Stoppers : \/ StopStep(k) \/ CancelStop(k)
                                \/ \E s \in Sessions : StopLookup(k, s) \/ StopNotFound(k, s)
    BY <1>2, HeldStop
  <1>3. CASE \E c \in Callers : CallStep(c) \/ \E s \in Sessions : CallCheck(c, s)
    <2>1. UNCHANGED <<start, gc, budget>>
      BY <1>3 DEF CallStep, CallCheck, CallTouch, CallTouchFails, CallGrant, CallBusy, CallEnd
    <2> QED
      BY <1>3, <2>1, SentinelStays DEF PlainInv, HeldInv
  <1>4. CASE \/ UNCHANGED vars
             \/ \E p \in alive : Crash(p)
             \/ \E s \in Sessions : GrowIdle(s)
    <2>1. UNCHANGED <<start, gc, locks, record>>
      BY <1>4 DEF Crash, GrowIdle, vars, store, tables
    <2>2. budget'.cancel = budget.cancel
      BY <1>4 DEF Crash, GrowIdle, vars, PlainInv, TypeOK, BudgetOK
    <2> QED
      BY <2>1, <2>2 DEF HeldInv
  <1>5. CASE GcScan \/ GcStep
    <2>1. gc.cycles \in Nat
      BY DEF PlainInv, TypeOK, GcOK, GcType
    <2> QED
      BY <1>5, <2>1 DEF HeldInv, GcScan, GcStep, GcReload, GcNext, GcClose, GcKill, GcKillFails,
         GcDrop, GcRemove, GcRemoveFails
  <1> QED
    BY <1>1, <1>2, <1>3, <1>4, <1>5 DEF Next

\* LocksTransient: without reclaims, whose deletion of a record leaves the
\* lock of the session behind, and without the failures that leave the
\* sentinel, a session that is gone has no entry in _session_locks.
THEOREM LocksCorrect ==
  ASSUME Resilient = {}, MayFail \cap {"launcher", "save"} = {},
         MaxCancels = 0, MaxGcCycles = 0
  PROVE  Spec => []LocksTransient
  <1>1. Init => HeldInv
    BY SessionsAssumption DEF Init, HeldInv, GcAsleep
  <1>2. PlainInv /\ LateInv /\ HeldInv /\ [Next]_vars => HeldInv'
    BY HeldStep
  <1>3. Init => LateInv
    BY LateInit
  <1>4. PlainInv /\ LateInv /\ [Next]_vars => LateInv'
    BY LateStep
  <1>5. HeldInv /\ SentinelTransient => LocksTransient
    BY DEF HeldInv, SentinelTransient, LocksTransient, LocksReclaimed
  <1> QED
    BY <1>1, <1>2, <1>3, <1>4, <1>5, PlainCorrect, SentinelCorrect, PTL DEF Spec

-----------------------------------------------------------------------------
(* A live process can be found *)

\* A start without a record has no process left, once it is past the launch;
\* before, the start task itself has the process in hand.
StartFindable(s) ==
    /\ start[s].pc = "new" => Dead(s)
    /\ start[s].pc = "launched" => launchers[s] = 0
    /\ start[s].pc \in {"aborting", "killing", "discard"} => record[s] = None
    /\ ~Early(s) /\ record[s] = None => Dead(s)

\* What the collector works on had a record, and what it drops is dead.
Judged(s) == ~Early(s) /\ gc.snap[s].launcher \in Zero /\ gc.snap[s].pid = 0
GcFindable ==
    /\ \A s \in gc.todo : Judged(s)
    /\ gc.pc \in {"closing", "killing", "dropping"} => Judged(gc.sid)
    /\ gc.pc = "dropping" => Dead(gc.sid)
    /\ \A s \in gc.stopped : ~Early(s) /\ Dead(s)

FindInv == budget.cancel = 0 /\ GcFindable /\ \A s \in Sessions : StartFindable(s)

LEMMA FindInit ==
  ASSUME MaxCancels = 0, Init
  PROVE  FindInv
  <1>1. GcFindable
    BY DEF Init, GcFindable, GcAsleep
  <1>2. \A s \in Sessions : StartFindable(s)
    BY NoneAssumption DEF Init, StartFindable, Early, Dead
  <1> QED
    BY <1>1, <1>2 DEF Init, FindInv

\* The collector's work is not disturbed by a step that brings nothing back.
LEMMA GcFrame ==
  ASSUME TypeOK, GcFindable, UNCHANGED gc,
         \A t \in Sessions : ~Early(t) => ~Early(t)' /\ (Dead(t) => Dead(t)')
  PROVE  GcFindable'
  <1>1. /\ gc.todo \subseteq Sessions /\ gc.stopped \subseteq Sessions
        /\ gc.pc \in {"closing", "killing", "dropping"} => gc.sid \in Sessions
    BY DEF TypeOK, GcOK, GcType
  <1>2. \A t \in Sessions : Judged(t) => Judged(t)'
    BY DEF Judged
  <1> QED
    BY <1>1, <1>2 DEF GcFindable, Dead, Early, Judged

LEMMA FindStart ==
  ASSUME Resilient = {}, MayFail \subseteq {"launcher", "reclaim"}, PlainInv, FindInv,
         NEW s \in Sessions,
         \/ StartStep(s) \/ CancelAttempt(s)
         \/ CancelBind(s) \/ CancelHealing(s)
  PROVE  FindInv'
  <1>1. PlainMove(s) /\ SessionOnce(s) /\ StartFindable(s)
    BY PlainMoves DEF PlainInv, OnceInv, FindInv
  <1>2. ~(budget.cancel > 0) /\ "save" \notin MayFail /\ "start" \notin MayFail
    BY DEF FindInv
  <1>3. budget' = budget
    <2>1. StartStep(s)
      BY <1>2 DEF CancelAttempt, CancelBind, CancelHealing, SpendCancel
    <2> QED
      BY <2>1 DEF StartStep, StartSession, Launch, LaunchFails, Register, Persist,
        SaveFails, PortConflict, StopConflicting, ProbeAnswers, ProbeFails,
        Connect, Bind, BindRefused, EstablishFails, AbortBind,
        GateLoad, CpuReady, CpuWedged, GateRecord, Teardown, CloseHeld, KillHeld,
        Relaunch, Discard, DiscardFails
  <1>4. GcFindable'
    <2>1. gc' = gc
      BY <1>1 DEF PlainMove
    <2> QED
      BY <2>1, NothingComesBack, GcFrame DEF PlainInv, FindInv
  <1>5. StartFindable(s)'
    <2>1. start[s].att = 0 /\ record[s] \in Zero /\ launchers[s] \in Zero
          /\ record \in [Sessions -> Slots] /\ launchers \in [Sessions -> Slots] /\ None # 0
      BY <1>1, NoneAssumption DEF SessionOnce, PlainInv, TypeOK, StoreOK, TablesOK
    <2>2. Early(s) => record[s] = None
      BY <1>1 DEF SessionOnce
    <2>3. CASE Launches(s) \/ Registers(s) \/ Records(s) \/ Refuses(s)
      BY <2>1, <2>2, <2>3 DEF Launches, Registers, Records, Refuses, StartFindable, Early, Dead
    <2>4. CASE Abandons(s)
      <3>1. /\ start'[s].pc = "killing" /\ record' = record /\ record[s] = None
            /\ <<s, 0>> \notin alive'
        BY <1>1, <1>2, <2>1, <2>2, <2>4 DEF Abandons, StartFindable, Early, Dead
      <3> QED
        BY <3>1 DEF StartFindable, Early, Dead
    <2>5. CASE Establishes(s)
      BY <1>1, <2>5 DEF Establishes, KeepsTables, StartFindable, Early, Dead
    <2>6. CASE Cleans(s)
      <3>1. record[s] = None /\ record'[s] = None /\ Dead(s)
        BY <1>1, <1>2, <2>6 DEF Cleans, StartFindable, Early
      <3> QED
        BY <2>6, <3>1 DEF Cleans, StartFindable, Dead
    <2> QED
      BY <1>1, <2>3, <2>4, <2>5, <2>6 DEF PlainMove
  <1>6. \A t \in Sessions \ {s} : StartFindable(t)'
    <2> TAKE t \in Sessions \ {s}
    <2>1. StartFindable(t) /\ start'[t] = start[t] /\ record'[t] = record[t]
          /\ launchers'[t] = launchers[t]
      BY <1>1 DEF FindInv, PlainMove
    <2>2. Dead(t) => Dead(t)'
      BY <1>1 DEF PlainMove, Launches, Registers, Records, Refuses,
           Abandons, Establishes, Cleans, Dead
    <2> QED
      BY <2>1, <2>2 DEF StartFindable, Early, Dead
  <1> QED
    BY <1>3, <1>4, <1>5, <1>6 DEF FindInv

\* Removing the record of a session that is past its launch and dead.
LEMMA FindTakes ==
  ASSUME PlainInv, \A s \in Sessions : StartFindable(s),
         UNCHANGED start, alive' \subseteq alive,
         \A s \in Sessions :
            /\ record'[s] = record[s] \/ (record'[s] = None /\ Dead(s))
            /\ launchers'[s] = launchers[s] \/ ~Early(s)
  PROVE  \A s \in Sessions : StartFindable(s)'
  <1> TAKE s \in Sessions
  <1>1. StartFindable(s)
    OBVIOUS
  <1> QED
    BY <1>1 DEF StartFindable, Early, Dead

LEMMA FindStop ==
  ASSUME PlainInv, EndsInv, FindInv, NEW k \in Stoppers,
         \/ StopStep(k) \/ CancelStop(k)
         \/ \E s \in Sessions : StopLookup(k, s) \/ StopNotFound(k, s)
  PROVE  FindInv'
  <1>1. /\ UNCHANGED <<start, gc>> /\ ~CancelStop(k) /\ alive' \subseteq alive
    BY StopIsLocal DEF PlainInv, CancelStop, SpendCancel, FindInv
  <1>2. budget' = budget
    BY <1>1 DEF StopStep, StopClose, StopKill, StopLauncherFails, StopPidFails, StopRemove,
                StopRemoveFails, StopLookup, StopNotFound
  <1>3. GcFindable'
    BY <1>1, GcFrame DEF PlainInv, FindInv, Early, Dead
  <1>4. record \in [Sessions -> Slots] /\ launchers \in [Sessions -> Slots]
    BY DEF PlainInv, TypeOK, StoreOK, TablesOK
  <1>5. \A s \in Sessions : record'[s] = record[s] \/ (record'[s] = None /\ Dead(s))
    <2>1. CASE StopRemove(k)
      BY <1>4, <2>1 DEF StopRemove, EndsInv, StopEnds
    <2>2. CASE ~StopRemove(k)
      BY <1>1, <2>2 DEF StopStep, StopClose, StopKill, StopLauncherFails, StopPidFails,
                StopRemoveFails, StopLookup, StopNotFound, store
    <2> QED
      BY <2>1, <2>2
  <1>6. \A s \in Sessions : launchers'[s] = launchers[s] \/ ~Early(s)
    <2>1. ASSUME NEW s \in Sessions, StopLookup(k, s)
          PROVE  \A t \in Sessions : launchers'[t] = launchers[t] \/ ~Early(t)
      <3>1. ~Early(s)
        BY <2>1 DEF StopLookup, PlainInv, OnceInv, SessionOnce
      <3> QED
        BY <1>4, <2>1, <3>1 DEF StopLookup
    <2>2. CASE ~\E s \in Sessions : StopLookup(k, s)
      BY <1>1, <2>2 DEF StopStep, StopClose, StopKill, StopLauncherFails, StopPidFails,
                StopRemove, StopRemoveFails, StopNotFound, tables
    <2> QED
      BY <2>1, <2>2
  <1>7. \A s \in Sessions : StartFindable(s)'
    BY <1>1, <1>5, <1>6, FindTakes DEF FindInv
  <1> QED
    BY <1>2, <1>3, <1>7 DEF FindInv

\* A recorded session has been through its start, which recorded attempt 0.
LEMMA RecordedOnce ==
  ASSUME PlainInv, NEW s \in Sessions, record[s] # None
  PROVE  ~Early(s) /\ record[s] = 0 /\ launchers[s] \in Zero
  BY DEF PlainInv, OnceInv, SessionOnce, Zero

LEMMA FindGc ==
  ASSUME "pid" \notin MayFail, PlainInv, FindInv, GcScan \/ GcStep
  PROVE  FindInv'
  <1>1. UNCHANGED <<start, budget>>
    BY DEF GcScan, GcStep, GcReload, GcNext, GcClose, GcKill, GcKillFails, GcDrop,
           GcRemove, GcRemoveFails
  <1>2. gc \in GcType /\ GcFindable
        /\ (gc.pc \in {"closing", "killing", "dropping"} => gc.sid \in Sessions)
    BY DEF PlainInv, TypeOK, GcOK, FindInv
  <1>3. gc.todo \subseteq Sessions /\ gc.stopped \subseteq Sessions
    BY <1>2 DEF GcType
  <1>4. CASE GcScan
    <2>1. /\ alive' = alive /\ record' = record /\ launchers' = launchers
      BY <1>4 DEF GcScan, world, store, tables
    <2>2. /\ gc'.pc = "reload" /\ gc'.todo = Expired /\ gc'.stopped = gc.stopped
          /\ \A s \in Expired : /\ gc'.snap[s].launcher = launchers[s]
                                /\ gc'.snap[s].pid = record[s]
      BY <1>2, <1>4 DEF GcScan, GcType, Expired
    <2>3. \A s \in Expired : s \in Sessions /\ ~Early(s) /\ record[s] = 0 /\ launchers[s] \in Zero
      BY RecordedOnce DEF Expired
    <2>4. GcFindable'
      BY <1>1, <1>2, <2>1, <2>2, <2>3 DEF GcFindable, Judged, Early, Dead
    <2>5. \A s \in Sessions : StartFindable(s)'
      BY <1>1, <2>1, FindTakes DEF FindInv
    <2> QED
      BY <1>1, <2>4, <2>5 DEF FindInv
  <1>5. CASE GcReload \/ GcNext \/ GcClose
    <2>1. /\ alive' = alive /\ record' = record /\ launchers' = launchers
      BY <1>5 DEF GcReload, GcNext, GcClose, world, store, tables
    <2>2. /\ gc'.todo \subseteq gc.todo /\ gc'.snap = gc.snap /\ gc'.stopped = gc.stopped
          /\ gc'.pc \in {"loop", "closing", "killing"}
          /\ gc'.pc # "loop" => gc'.sid \in gc.todo \/ (gc.pc = "closing" /\ gc'.sid = gc.sid)
      <3>1. CASE GcReload
        <4> DEFINE g == [gc EXCEPT !.fresh = [t \in Sessions |->
                           IF t \in gc.todo \ idle THEN record[t] ELSE None]]
        <4>1. /\ g \in GcType /\ g.todo = gc.todo /\ g.snap = gc.snap /\ g.stopped = gc.stopped
          BY <1>2 DEF GcType, PlainInv, TypeOK, StoreOK, Slots
        <4>2. PICK s \in gc.todo : gc' = Decision(g, s)
          BY <3>1 DEF GcReload
        <4> HIDE DEF g
        <4> QED
          BY <4>1, <4>2 DEF Decision, GcType
      <3>2. CASE GcNext
        BY <1>2, <3>2 DEF GcNext, Decision, GcType
      <3>3. CASE GcClose
        BY <1>2, <3>3 DEF GcClose, GcType
      <3> QED
        BY <1>5, <3>1, <3>2, <3>3
    <2>3. GcFindable'
      BY <1>1, <1>2, <2>1, <2>2 DEF GcFindable, Judged, Early, Dead
    <2>4. \A s \in Sessions : StartFindable(s)'
      BY <1>1, <2>1, FindTakes DEF FindInv
    <2> QED
      BY <1>1, <2>3, <2>4 DEF FindInv
  <1>6. CASE GcKill
    <2>1. /\ record' = record /\ launchers' = launchers
      BY <1>6 DEF GcKill, store, tables
    <2>2. /\ gc'.pc = "dropping" /\ gc'.todo = gc.todo /\ gc'.snap = gc.snap
          /\ gc'.sid = gc.sid /\ gc'.stopped = gc.stopped
      BY <1>2, <1>6 DEF GcKill, GcType
    <2>3. alive' = alive \ {<<gc.sid, 0>>} /\ Judged(gc.sid)
      BY <1>2, <1>6 DEF GcKill, GcRoute, GcFindable, Judged, Zero
    <2>4. GcFindable'
      BY <1>1, <1>2, <2>2, <2>3 DEF GcFindable, Judged, Early, Dead
    <2>5. \A s \in Sessions : StartFindable(s)'
      BY <1>1, <2>1, <2>3, FindTakes DEF FindInv
    <2> QED
      BY <1>1, <2>4, <2>5 DEF FindInv
  <1>7. CASE GcKillFails \/ GcRemoveFails
    <2>1. /\ alive' = alive /\ record' = record /\ launchers' = launchers
      BY <1>7 DEF GcKillFails, GcRemoveFails, world, store, tables
    <2>2. /\ gc'.pc \in {"loop", "sleep"} /\ gc'.todo \subseteq gc.todo
          /\ gc'.stopped \subseteq gc.stopped
          /\ gc'.snap = gc.snap \/ gc'.todo = {}
      <3>1. CASE GcKillFails
        BY <1>2, <3>1 DEF GcKillFails, GcType
      <3>2. CASE GcRemoveFails
        BY <3>2 DEF GcRemoveFails, GcAsleep
      <3> QED
        BY <1>7, <3>1, <3>2
    <2>3. GcFindable'
      BY <1>1, <1>2, <2>1, <2>2 DEF GcFindable, Judged, Early, Dead
    <2>4. \A s \in Sessions : StartFindable(s)'
      BY <1>1, <2>1, FindTakes DEF FindInv
    <2> QED
      BY <1>1, <2>3, <2>4 DEF FindInv
  <1>8. CASE GcDrop
    <2>1. /\ alive' = alive /\ record' = record /\ gc.pc = "dropping"
          /\ gc.sid \in Sessions /\ ~Early(gc.sid) /\ Dead(gc.sid)
      BY <1>2, <1>8 DEF GcDrop, world, store, GcFindable, Judged
    <2>2. /\ gc'.pc = "loop" /\ gc'.todo = gc.todo /\ gc'.snap = gc.snap
          /\ gc'.stopped = gc.stopped \cup {gc.sid}
      BY <1>2, <1>8 DEF GcDrop, GcType
    <2>3. \A s \in Sessions : launchers'[s] = launchers[s] \/ ~Early(s)
      BY <1>8, <2>1 DEF GcDrop, Dropped, PlainInv, TypeOK, TablesOK
    <2>4. GcFindable'
      BY <1>1, <1>2, <2>1, <2>2 DEF GcFindable, Judged, Early, Dead
    <2>5. \A s \in Sessions : StartFindable(s)'
      BY <1>1, <2>1, <2>3, FindTakes DEF FindInv
    <2> QED
      BY <1>1, <2>4, <2>5 DEF FindInv
  <1>9. CASE GcRemove
    <2>1. /\ alive' = alive /\ launchers' = launchers
          /\ \A s \in Sessions : record'[s] = record[s] \/ (record'[s] = None /\ Dead(s))
      BY <1>2, <1>9 DEF GcRemove, world, tables, GcFindable
    <2>2. gc'.pc = "sleep" /\ gc'.todo = {} /\ gc'.stopped = {}
      BY <1>9 DEF GcRemove, GcAsleep
    <2>3. GcFindable'
      BY <2>2 DEF GcFindable
    <2>4. \A s \in Sessions : StartFindable(s)'
      BY <1>1, <2>1, FindTakes DEF FindInv
    <2> QED
      BY <1>1, <2>3, <2>4 DEF FindInv
  <1> QED
    BY <1>4, <1>5, <1>6, <1>7, <1>8, <1>9 DEF GcStep

LEMMA FindOthers ==
  ASSUME PlainInv, FindInv,
         \/ UNCHANGED vars
         \/ \E c \in Callers : CallStep(c) \/ \E s \in Sessions : CallCheck(c, s)
         \/ \E p \in alive : Crash(p)
         \/ \E s \in Sessions : GrowIdle(s)
  PROVE  FindInv'
  <1>1. UNCHANGED <<start, gc, record, launchers>> /\ alive' \subseteq alive
    BY DEF CallStep, CallCheck, CallTouch, CallTouchFails, CallGrant, CallBusy, CallEnd,
           Crash, GrowIdle, vars, world, store, tables
  <1>2. budget'.cancel = budget.cancel
    BY DEF CallStep, CallCheck, CallTouch, CallTouchFails, CallGrant, CallBusy, CallEnd,
           Crash, GrowIdle, vars, PlainInv, TypeOK, BudgetOK
  <1>3. GcFindable'
    BY <1>1, GcFrame DEF PlainInv, FindInv, Early, Dead
  <1>4. \A s \in Sessions : StartFindable(s)'
    BY <1>1, FindTakes DEF FindInv
  <1> QED
    BY <1>2, <1>3, <1>4 DEF FindInv

LEMMA FindStep ==
  ASSUME Resilient = {}, MayFail \subseteq {"launcher", "reclaim"},
         PlainInv, EndsInv, FindInv, [Next]_vars
  PROVE  FindInv'
  <1>1. CASE \E s \in Sessions : \/ StartStep(s) \/ CancelAttempt(s)
                                \/ CancelBind(s) \/ CancelHealing(s)
    BY <1>1, FindStart
  <1>2. CASE \E k \in Stoppers : \/ StopStep(k) \/ CancelStop(k)
                                \/ \E s \in Sessions : StopLookup(k, s) \/ StopNotFound(k, s)
    BY <1>2, FindStop
  <1>3. CASE GcScan \/ GcStep
    BY <1>3, FindGc
  <1>4. CASE \/ UNCHANGED vars
             \/ \E c \in Callers : CallStep(c) \/ \E s \in Sessions : CallCheck(c, s)
             \/ \E p \in alive : Crash(p)
             \/ \E s \in Sessions : GrowIdle(s)
    BY <1>4, FindOthers
  <1> QED
    BY <1>1, <1>2, <1>3, <1>4 DEF Next

\* Every process has an owner: before the record its start task, after it the
\* record itself.
LEMMA FindOwned ==
  ASSUME PlainInv, FindInv
  PROVE  ProcessOwned
  <1> SUFFICES ASSUME NEW p \in alive
               PROVE  Reachable(p[1], p[2]) \/ ProcessInHand(p[1], p[2])
    BY DEF ProcessOwned
  <1>1. PICK s \in Sessions : p = <<s, 0>>
    BY DEF PlainInv, OnceInv
  <1>2. StartFindable(s) /\ SessionOnce(s) /\ ~Dead(s)
    BY <1>1 DEF FindInv, PlainInv, OnceInv, Dead
  <1>3. CASE Early(s)
    BY <1>1, <1>2, <1>3 DEF StartFindable, SessionOnce, Early, ProcessInHand, Starting
  <1>4. CASE ~Early(s)
    <2>1. record[s] = 0 /\ launchers[s] \in Zero /\ record[s] # None
      BY <1>2, <1>4 DEF StartFindable, SessionOnce, Zero
    <2> QED
      BY <1>1, <2>1 DEF Reachable, Zero
  <1> QED
    BY <1>3, <1>4

\* A step that deletes the record of a session finds it dead: else the session
\* would have a live process and no record after the step.
LEMMA FindKept ==
  ASSUME Resilient = {}, MayFail \subseteq {"launcher", "reclaim"},
         PlainInv, EndsInv, FindInv, [Next]_vars
  PROVE  RecordsKept
  <1> SUFFICES ASSUME NEW s \in Sessions, record[s] # None, record'[s] = None
               PROVE  ~RecordAlive(s)
    BY DEF RecordsKept
  <1>1. record[s] = 0 /\ ~Early(s)
    BY RecordedOnce
  <1>2. Dead(s)
    <2>1. CASE \E t \in Sessions : \/ StartStep(t) \/ CancelAttempt(t)
                                  \/ CancelBind(t) \/ CancelHealing(t)
      <3>1. PICK t \in Sessions : \/ StartStep(t) \/ CancelAttempt(t)
                                  \/ CancelBind(t) \/ CancelHealing(t)
        BY <2>1
      <3>2. PlainMove(t) /\ StartFindable(t) /\ SessionOnce(t)
        BY <3>1, PlainMoves DEF PlainInv, OnceInv, FindInv
      <3>3. s = t
        BY <3>2 DEF PlainMove
      <3>4. start[s].pc = "discard"
        BY <1>1, <3>2, <3>3 DEF PlainMove, Launches, Registers, Records, Refuses,
           Abandons, Establishes, Cleans, KeepsTables, Early
      <3> QED
        BY <3>2, <3>3, <3>4 DEF StartFindable
    <2>2. CASE \E k \in Stoppers : \/ StopStep(k) \/ CancelStop(k)
                                  \/ \E t \in Sessions : StopLookup(k, t) \/ StopNotFound(k, t)
      <3>1. PICK k \in Stoppers : StopRemove(k)
        BY <2>2 DEF StopStep, StopClose, StopKill, StopLauncherFails, StopPidFails,
                StopRemoveFails, StopLookup, StopNotFound, CancelStop, store
      <3> QED
        BY <3>1 DEF StopRemove, EndsInv, StopEnds, PlainInv, TypeOK, StoreOK
    <2>3. CASE GcScan \/ GcStep
      <3>1. GcRemove
        BY <2>3 DEF GcScan, GcStep, GcReload, GcNext, GcClose, GcKill, GcKillFails,
                    GcDrop, GcRemoveFails, store
      <3> QED
        BY <3>1 DEF GcRemove, FindInv, GcFindable
    <2>4. CASE \/ UNCHANGED vars
               \/ \E c \in Callers : CallStep(c) \/ \E t \in Sessions : CallCheck(c, t)
               \/ \E p \in alive : Crash(p)
               \/ \E t \in Sessions : GrowIdle(t)
      BY <2>4 DEF CallStep, CallCheck, CallTouch, CallTouchFails, CallGrant, CallBusy, CallEnd,
           Crash, GrowIdle, vars, store
    <2> QED
      BY <2>1, <2>2, <2>3, <2>4 DEF Next
  <1> QED
    BY <1>1, <1>2 DEF RecordAlive, Dead

\* ProcessFindable: whatever crashes, whatever the collector reclaims and
\* however often the kill of a launcher or a save of the collector fails, every
\* live PPSSPP keeps an owner that can find it, and no record is deleted while
\* the process it names runs.
THEOREM FindableCorrect ==
  ASSUME Resilient = {}, MayFail \subseteq {"launcher", "reclaim"}, MaxCancels = 0
  PROVE  Spec => ProcessFindable
  <1>1. Init => EndsInv /\ FindInv
    BY EndsInit, FindInit
  <1>2. PlainInv /\ EndsInv /\ FindInv /\ [Next]_vars => EndsInv' /\ FindInv'
    BY EndsStep, FindStep
  <1>3. PlainInv /\ FindInv => ProcessOwned
    BY FindOwned
  <1>4. PlainInv /\ EndsInv /\ FindInv /\ [Next]_vars => [RecordsKept]_vars
    BY FindKept
  <1>5. [RecordsKept]_vars /\ ProcessOwned' => [RecordsKept /\ ProcessOwned']_vars
    OBVIOUS
  <1> QED
    BY <1>1, <1>2, <1>3, <1>4, <1>5, PlainCorrect, PTL DEF Spec, ProcessFindable

-----------------------------------------------------------------------------
(* Nothing is orphaned, whatever the starts, resilient ones included, go     *)
(* through: while no stop task and no reclaim interferes, the only process   *)
(* and the only handles of a session are those of its start's last attempt.  *)

Live(s) == <<s, start[s].att>> \in alive
Linked(s) == <<s, start[s].att>> \in open

\* The states in which an attempt may have open handles.
Bound == {"gateload", "cpu", "recording", "ok", "teardown"}

OnlyAttempt(s) ==
    \A n \in Attempts : <<s, n>> \in alive \/ <<s, n>> \in open => n = start[s].att

\* Who can stop the process of the attempt.
ProcessHeld(s) ==
    Live(s) => /\ start[s].pc \notin {"new", "cooldown", "discard", "failed"}
               /\ start[s].pc = "teardown" => launchers[s] = start[s].att
               /\ start[s].pc \in {"closing", "killing"} => start[s].launcher = start[s].att

\* Who can close the handles of the attempt.
LinkHeld(s) ==
    Linked(s) => /\ start[s].pc \in Bound \cup {"binding", "closing"}
                 /\ start[s].pc \in Bound => handles[s] = start[s].att
                 /\ start[s].pc = "closing" => start[s].handles = start[s].att

\* What the tables and sessions.json hold of the attempt on its way.
OnCourse(s) ==
    /\ start[s].pc \in {"probing", "connecting", "binding", "gateload", "cpu",
                        "recording", "ok"} => record[s] = start[s].att
    /\ start[s].pc \in {"launched", "probing", "connecting", "binding", "gateload",
                        "cpu", "recording"} => launchers[s] = start[s].att
    /\ start[s].pc = "ok" => launchers[s] \in {None, start[s].att}
    /\ start[s].pc # "aborting"
    /\ s \notin Resilient => start[s].pc \notin {"gateload", "cpu", "recording",
                                                 "teardown", "closing", "cooldown"}

CourseOf(s) == OnlyAttempt(s) /\ ProcessHeld(s) /\ LinkHeld(s) /\ OnCourse(s)

CourseInv == /\ budget.cancel = 0 /\ gc.pc = "sleep"
             /\ \A s \in Sessions : CourseOf(s)

LEMMA CourseInit ==
  ASSUME MaxCancels = 0, Init
  PROVE  CourseInv
  <1> SUFFICES ASSUME NEW s \in Sessions PROVE CourseOf(s)
    BY DEF Init, CourseInv, GcAsleep
  <1>1. OnlyAttempt(s)
    BY DEF Init, OnlyAttempt
  <1>2. ProcessHeld(s) /\ LinkHeld(s)
    BY DEF Init, ProcessHeld, LinkHeld, Live, Linked
  <1>3. OnCourse(s)
    BY DEF Init, OnCourse
  <1> QED
    BY <1>1, <1>2, <1>3 DEF CourseOf

\* A session that a step leaves alone, but for a process that dies, is as it was.
LEMMA CourseKept ==
  ASSUME NEW s \in Sessions, CourseOf(s),
         start'[s] = start[s], record'[s] = record[s],
         launchers'[s] = launchers[s], handles'[s] = handles[s],
         \A n \in Attempts : <<s, n>> \in alive' => <<s, n>> \in alive,
         \A n \in Attempts : <<s, n>> \in open' => <<s, n>> \in open,
         start[s].att \in Attempts
  PROVE  CourseOf(s)'
  <1>1. OnlyAttempt(s)'
    BY DEF CourseOf, OnlyAttempt
  <1>2. ProcessHeld(s)' /\ LinkHeld(s)'
    BY DEF CourseOf, ProcessHeld, LinkHeld, Live, Linked
  <1>3. OnCourse(s)'
    BY DEF CourseOf, OnCourse
  <1> QED
    BY <1>1, <1>2, <1>3 DEF CourseOf

\* A start task changes the table entries, processes and handles of its own
\* session only.
LEMMA StartTouchesOwn ==
  ASSUME TypeOK, NEW s \in Sessions, StartStep(s), NEW t \in Sessions \ {s}
  PROVE  /\ launchers'[t] = launchers[t] /\ handles'[t] = handles[t]
         /\ \A n \in Attempts : <<t, n>> \in alive' => <<t, n>> \in alive
         /\ \A n \in Attempts : <<t, n>> \in open' => <<t, n>> \in open
  <1>1. launchers'[t] = launchers[t] /\ handles'[t] = handles[t]
    BY DEF StartStep, StartSession, Launch, LaunchFails, Register, Persist,
      SaveFails, PortConflict, StopConflicting, ProbeAnswers, ProbeFails,
      Connect, Bind, BindRefused, EstablishFails, AbortBind,
      GateLoad, CpuReady, CpuWedged, GateRecord, Teardown, CloseHeld, KillHeld,
      Relaunch, Discard, DiscardFails, Raise, Return, Wedge, CloseBoth, tables, TypeOK, TablesOK
  <1>2. \A n \in Attempts : <<t, n>> \in alive' => <<t, n>> \in alive
    BY DEF StartStep, StartSession, Launch, LaunchFails, Register, Persist,
      SaveFails, PortConflict, StopConflicting, ProbeAnswers, ProbeFails,
      Connect, Bind, BindRefused, EstablishFails, AbortBind,
      GateLoad, CpuReady, CpuWedged, GateRecord, Teardown, CloseHeld, KillHeld,
      Relaunch, Discard, DiscardFails, Kill, world
  <1>3. \A n \in Attempts : <<t, n>> \in open' => <<t, n>> \in open
    BY DEF StartStep, StartSession, Launch, LaunchFails, Register, Persist,
      SaveFails, PortConflict, StopConflicting, ProbeAnswers, ProbeFails,
      Connect, Bind, BindRefused, EstablishFails, AbortBind,
      GateLoad, CpuReady, CpuWedged, GateRecord, Teardown, CloseHeld, KillHeld,
      Relaunch, Discard, DiscardFails, CloseBoth, world
  <1> QED
    BY <1>1, <1>2, <1>3

\* A start task, its failures included, keeps its attempt on course.
LEMMA CourseStart ==
  ASSUME "start" \notin MayFail, TypeOK, NEW s \in Sessions, CourseOf(s), StartStep(s)
  PROVE  CourseOf(s)'
  <1>1. /\ start \in [Sessions -> StartType] /\ start[s] \in StartType
        /\ record \in [Sessions -> Slots]
        /\ launchers \in [Sessions -> Slots] /\ handles \in [Sessions -> Slots]
        /\ start[s].att \in Attempts /\ None \notin Attempts
        /\ alive \subseteq Sessions \X Attempts /\ open \subseteq Sessions \X Attempts
    BY NoneAssumption DEF TypeOK, WorldOK, StoreOK, TablesOK, StartOK, StartType, Attempts
  <1> USE <1>1 DEF world, store, tables, StartType, CourseOf, OnlyAttempt, ProcessHeld, LinkHeld,
                   OnCourse, Live, Linked, Bound
  <1>2. CASE StartSession(s)
    BY <1>2 DEF StartSession, Launch
  <1>3. CASE LaunchFails(s)
    <2>1. OnlyAttempt(s)'
      BY <1>3 DEF LaunchFails, Kill, Raise
    <2>2. ProcessHeld(s)'
      BY <1>3 DEF LaunchFails, Kill, Raise
    <2>3. LinkHeld(s)'
      BY <1>3 DEF LaunchFails, Kill, Raise
    <2>4. OnCourse(s)'
      BY <1>3 DEF LaunchFails, Kill, Raise
    <2> QED
      BY <2>1, <2>2, <2>3, <2>4
  <1>4. CASE Register(s)
    BY <1>4 DEF Register
  <1>5. CASE Persist(s)
    BY <1>5 DEF Persist
  <1>6. CASE SaveFails(s)
    <2>1. OnlyAttempt(s)'
      BY <1>6 DEF SaveFails, Raise
    <2>2. ProcessHeld(s)'
      BY <1>6 DEF SaveFails, Raise
    <2>3. LinkHeld(s)'
      <3>1. CASE s \in Resilient
        <4>1. /\ start[s].pc \in {"launched", "connecting", "recording"}
              /\ start' = [start EXCEPT ![s].pc = "teardown", ![s].wedge = FALSE]
              /\ UNCHANGED <<open, handles>>
          BY <1>6, <3>1 DEF SaveFails, Raise
        <4>2. start'[s].pc = "teardown" /\ start'[s].att = start[s].att
          BY <4>1
        <4>3. Linked(s)' => Linked(s)
          BY <4>1, <4>2
        <4>4. Linked(s) => start[s].pc = "recording" /\ handles[s] = start[s].att
          BY <4>1
        <4> QED
          BY <4>1, <4>2, <4>3, <4>4
      <3>2. CASE s \notin Resilient
        BY <1>6, <3>2 DEF SaveFails, Raise
      <3> QED
        BY <3>1, <3>2
    <2>4. OnCourse(s)'
      BY <1>6 DEF SaveFails, Raise
    <2> QED
      BY <2>1, <2>2, <2>3, <2>4
  <1>7. CASE PortConflict(s)
    BY <1>7 DEF PortConflict
  <1>8. CASE StopConflicting(s)
    <2>1. OnlyAttempt(s)'
      BY <1>8 DEF StopConflicting, Kill, Raise
    <2>2. ProcessHeld(s)'
      BY <1>8 DEF StopConflicting, Kill, Raise
    <2>3. LinkHeld(s)'
      BY <1>8 DEF StopConflicting, Kill, Raise
    <2>4. OnCourse(s)'
      BY <1>8 DEF StopConflicting, Kill, Raise
    <2> QED
      BY <2>1, <2>2, <2>3, <2>4
  <1>9. CASE ProbeAnswers(s)
    BY <1>9 DEF ProbeAnswers
  <1>10. CASE ProbeFails(s)
    BY <1>10 DEF ProbeFails, Return, Wedge
  <1>11. CASE Connect(s)
    BY <1>11 DEF Connect
  <1>12. CASE Bind(s)
    BY <1>12 DEF Bind, Return
  <1>13. CASE BindRefused(s)
    BY <1>13 DEF BindRefused
  <1>14. CASE EstablishFails(s)
    BY <1>14 DEF EstablishFails, CloseBoth, Return, Wedge
  <1>15. CASE AbortBind(s)
    BY <1>15 DEF AbortBind
  <1>17. CASE GateLoad(s)
    <2>1. CASE RecordAlive(s)
      BY <1>17, <2>1 DEF GateLoad
    <2>2. CASE ~RecordAlive(s)
      <3>1. OnlyAttempt(s)'
        BY <1>17, <2>2 DEF GateLoad, Raise
      <3>2. ProcessHeld(s)'
        BY <1>17, <2>2 DEF GateLoad, Raise
      <3>3. LinkHeld(s)'
        <4>1. /\ start[s].pc = "gateload" /\ UNCHANGED <<open, handles>>
              /\ start'[s].att = start[s].att /\ start'[s].pc \in {"teardown", "killing"}
          BY <1>17, <2>2 DEF GateLoad, Raise
        <4>2. CASE start'[s].pc = "teardown"
          BY <4>1, <4>2
        <4>3. CASE start'[s].pc = "killing"
          <5>1. s \notin Resilient
            BY <1>17, <2>2, <4>3 DEF GateLoad, Raise
          <5> QED
            BY <4>1, <4>3, <5>1
        <4> QED
          BY <4>1, <4>2, <4>3
      <3>4. OnCourse(s)'
        BY <1>17, <2>2 DEF GateLoad, Raise
      <3> QED
        BY <3>1, <3>2, <3>3, <3>4
    <2> QED
      BY <2>1, <2>2
  <1>18. CASE CpuReady(s)
    BY <1>18 DEF CpuReady
  <1>19. CASE CpuWedged(s)
    BY <1>19 DEF CpuWedged, Wedge
  <1>20. CASE GateRecord(s)
    BY <1>20 DEF GateRecord
  <1>21. CASE Teardown(s)
    BY <1>21 DEF Teardown
  <1>22. CASE CloseHeld(s)
    BY <1>22 DEF CloseHeld
  <1>23. CASE KillHeld(s)
    BY <1>23 DEF KillHeld, Kill
  <1>24. CASE Relaunch(s)
    BY <1>24 DEF Relaunch, Launch
  <1>25. CASE Discard(s)
    BY <1>25 DEF Discard
  <1>26. CASE DiscardFails(s)
    BY <1>26 DEF DiscardFails
  <1> QED
    BY <1>2, <1>3, <1>4, <1>5, <1>6, <1>7, <1>8, <1>9, <1>10, <1>11, <1>12, <1>13, <1>14,
       <1>15, <1>17, <1>18, <1>19, <1>20, <1>21, <1>22, <1>23, <1>24, <1>25, <1>26
       DEF StartStep

\* Without stop tasks, reclaims and cancelled requests only start tasks move
\* sessions on; calls, crashes and idle time leave what the starts own.
LEMMA CourseStep ==
  ASSUME Stoppers = {}, MaxGcCycles = 0, "start" \notin MayFail,
         TypeOK, CourseInv, [Next]_vars
  PROVE  CourseInv'
  <1>1. \A s \in Sessions : CourseOf(s) /\ start[s].att \in Attempts
    BY DEF CourseInv, TypeOK, StartOK, StartType
  <1>2. CASE \E s \in Sessions : StartStep(s)
    <2>1. PICK s \in Sessions : StartStep(s)
      BY <1>2
    <2>2. UNCHANGED <<gc, budget>>
      BY <2>1 DEF StartStep, StartSession, Launch, LaunchFails, Register, Persist,
        SaveFails, PortConflict, StopConflicting, ProbeAnswers, ProbeFails,
        Connect, Bind, BindRefused, EstablishFails, AbortBind,
        GateLoad, CpuReady, CpuWedged, GateRecord, Teardown, CloseHeld, KillHeld,
        Relaunch, Discard, DiscardFails
    <2>3. CourseOf(s)'
      BY <1>1, <2>1, CourseStart
    <2>4. ASSUME NEW t \in Sessions \ {s}
          PROVE  CourseOf(t)'
      <3>1. start'[t] = start[t] /\ record'[t] = record[t]
        BY <2>1, StartIsLocal DEF TypeOK, StartOK
      <3>2. /\ launchers'[t] = launchers[t] /\ handles'[t] = handles[t]
            /\ \A n \in Attempts : <<t, n>> \in alive' => <<t, n>> \in alive
            /\ \A n \in Attempts : <<t, n>> \in open' => <<t, n>> \in open
        BY <2>1, StartTouchesOwn
      <3> QED
        BY <1>1, <3>1, <3>2, CourseKept
    <2> QED
      BY <2>2, <2>3, <2>4 DEF CourseInv
  <1>3. CASE \E s \in Sessions : CancelAttempt(s) \/ CancelBind(s) \/ CancelHealing(s)
    BY <1>3 DEF CancelAttempt, CancelBind, CancelHealing, SpendCancel, CourseInv
  <1>4. CASE GcScan \/ GcStep
    <2>1. gc.cycles \in Nat
      BY DEF TypeOK, GcOK, GcType
    <2> QED
      BY <1>4, <2>1 DEF CourseInv, GcScan, GcStep, GcReload, GcNext, GcClose, GcKill,
         GcKillFails, GcDrop, GcRemove, GcRemoveFails
  <1>5. CASE \/ UNCHANGED vars
             \/ \E c \in Callers : CallStep(c) \/ \E s \in Sessions : CallCheck(c, s)
             \/ \E p \in alive : Crash(p)
             \/ \E s \in Sessions : GrowIdle(s)
    <2>1. UNCHANGED <<start, gc, record, launchers, handles, open>> /\ alive' \subseteq alive
      BY <1>5 DEF CallStep, CallCheck, CallTouch, CallTouchFails, CallGrant, CallBusy, CallEnd,
         Crash, GrowIdle, vars, world, store, tables
    <2>2. budget'.cancel = budget.cancel
      BY <1>5 DEF CallStep, CallCheck, CallTouch, CallTouchFails, CallGrant, CallBusy, CallEnd,
         Crash, GrowIdle, vars, TypeOK, BudgetOK
    <2>3. \A s \in Sessions : CourseOf(s)'
      BY <1>1, <2>1, CourseKept
    <2> QED
      BY <2>1, <2>2, <2>3 DEF CourseInv
  <1> QED
    BY <1>2, <1>3, <1>4, <1>5 DEF Next

\* On course, the process and the handles of a session have an owner.
LEMMA CourseOwned ==
  ASSUME TypeOK, CourseInv
  PROVE  ProcessOwned /\ HandlesOwned
  <1>1. /\ None \notin Attempts
        /\ alive \subseteq Sessions \X Attempts /\ open \subseteq Sessions \X Attempts
        /\ \A s \in Sessions : start[s] \in StartType
    BY NoneAssumption DEF TypeOK, WorldOK, StartOK, Attempts
  <1>2. ASSUME NEW p \in alive
        PROVE  Reachable(p[1], p[2]) \/ ProcessInHand(p[1], p[2])
    <2>1. PICK s \in Sessions, n \in Attempts : p = <<s, n>>
      BY <1>1
    <2>2. CourseOf(s) /\ start[s].att = n /\ Live(s)
      BY <1>2, <2>1 DEF CourseInv, CourseOf, OnlyAttempt, Live
    <2>3. CASE start[s].pc = "ok"
      BY <1>1, <2>1, <2>2, <2>3 DEF CourseOf, OnCourse, Reachable
    <2>4. CASE start[s].pc # "ok"
      <3>1. start[s].pc \in StartPcs
        BY <1>1 DEF StartType
      <3> QED
        BY <1>1, <2>1, <2>2, <2>4, <3>1 DEF CourseOf, OnCourse, ProcessHeld, ProcessInHand,
           Starting, StartPcs
    <2> QED
      BY <2>3, <2>4
  <1>3. ASSUME NEW p \in open
        PROVE  \/ handles[p[1]] = p[2] /\ (record[p[1]] # None \/ Starting(p[1]))
               \/ start[p[1]].pc \in {"binding", "aborting"} /\ start[p[1]].att = p[2]
               \/ start[p[1]].handles = p[2]
    <2>1. PICK s \in Sessions, n \in Attempts : p = <<s, n>>
      BY <1>1
    <2>2. CourseOf(s) /\ start[s].att = n /\ Linked(s)
      BY <1>3, <2>1 DEF CourseInv, CourseOf, OnlyAttempt, Linked
    <2> QED
      BY <1>1, <2>1, <2>2 DEF CourseOf, OnCourse, LinkHeld, Bound, Starting
  <1> QED
    BY <1>2, <1>3 DEF ProcessOwned, HandlesOwned

\* Only the end of a failed start deletes a record, and nothing lives then.
LEMMA CourseKeepsRecords ==
  ASSUME Stoppers = {}, MaxGcCycles = 0, TypeOK, CourseInv, [Next]_vars
  PROVE  RecordsKept
  <1> SUFFICES ASSUME NEW s \in Sessions, record[s] # None, record'[s] = None
               PROVE  ~RecordAlive(s)
    BY DEF RecordsKept
  <1>1. /\ record \in [Sessions -> Slots] /\ None \notin Attempts
        /\ \A t \in Sessions : start[t].att \in Attempts
        /\ gc.cycles \in Nat
    BY NoneAssumption DEF TypeOK, StoreOK, StartOK, StartType, GcOK, GcType, Attempts
  <1>2. ~(GcScan \/ GcStep) /\ ~(budget.cancel > 0)
    BY <1>1 DEF CourseInv, GcScan, GcStep, GcReload, GcNext, GcClose, GcKill,
       GcKillFails, GcDrop, GcRemove, GcRemoveFails
  <1>3. PICK t \in Sessions : StartStep(t)
    BY <1>2 DEF Next, CancelAttempt, CancelBind, CancelHealing, SpendCancel, CallStep, CallCheck,
       CallTouch, CallTouchFails, CallGrant, CallBusy, CallEnd, Crash, GrowIdle, vars, store
  <1>4. s = t
    BY <1>3, StartIsLocal
  <1>5. Discard(s)
    BY <1>1, <1>3, <1>4 DEF StartStep, StartSession, Launch, LaunchFails, Register, Persist,
      SaveFails, PortConflict, StopConflicting, ProbeAnswers, ProbeFails,
      Connect, Bind, BindRefused, EstablishFails, AbortBind,
      GateLoad, CpuReady, CpuWedged, GateRecord, Teardown, CloseHeld, KillHeld,
      Relaunch, DiscardFails, store
  <1>6. ~Live(s) /\ OnlyAttempt(s)
    BY <1>5 DEF Discard, CourseInv, CourseOf, ProcessHeld
  <1> QED
    BY <1>1, <1>6 DEF Live, OnlyAttempt, RecordAlive, Slots

\* NothingOrphaned: however many relaunches a resilient start is allowed, and
\* whatever crashes, conflicts over the port and saves that fail it meets, every
\* process and every pair of handles keeps an owner after every step, and no
\* record is deleted while the process it names runs.
THEOREM OrphansCorrect ==
  ASSUME Stoppers = {}, MaxGcCycles = 0, MaxCancels = 0, "start" \notin MayFail
  PROVE  Spec => NothingOrphaned
  <1>1. Init => CourseInv
    BY CourseInit
  <1>2. TypeOK /\ CourseInv /\ [Next]_vars => CourseInv'
    BY CourseStep
  <1>3. TypeOK /\ CourseInv => ProcessOwned /\ HandlesOwned
    BY CourseOwned
  <1>4. TypeOK /\ CourseInv /\ [Next]_vars => [RecordsKept]_vars
    BY CourseKeepsRecords
  <1>5. [RecordsKept]_vars /\ ProcessOwned' /\ HandlesOwned'
        => [RecordsKept /\ ProcessOwned' /\ HandlesOwned']_vars
    OBVIOUS
  <1> QED
    BY <1>1, <1>2, <1>3, <1>4, <1>5, TypeCorrect, PTL DEF Spec, NothingOrphaned
=============================================================================
