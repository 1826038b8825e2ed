------------------------ MODULE SessionStore_proofs ------------------------
(***************************************************************************)
(* As long as no save is cancelled, sessions.json is an atomic table and a *)
(* whole document at every moment, for any number of sessions, requests    *)
(* and server restarts.  The inductive invariant is StoreInv: one request  *)
(* at a time is inside the region, its thread works on a temporary inode   *)
(* of its own, and what it will store is its change to the latest table.   *)
(***************************************************************************)
EXTENDS SessionStore, TLAPS

\* The premise of every theorem here: a request may be cancelled while it
\* loads and not while its thread saves.
NoSaveCancelled == "saving" \notin CancelAt

\* The change a request makes of a table is a table again.
LEMMA ChangedType ==
  ASSUME NEW r \in Requests, NEW T \in Tables, request \in [Requests -> RequestType],
         request[r].kind = "touch" => \A s \in request[r].on : T[s] # None
  PROVE  Changed(r, T) \in Tables
  BY DEF Changed, Tables, RequestType

\* _load_sessions returns a table whatever it finds.
LEMMA StoredType == TypeOK => Stored \in Tables
  BY DEF TypeOK, Stored, Tables, Empty

\* A request outside the region, and a thread at rest, are typed.
LEMMA EndedType ==
  /\ Idle \in SaverType
  /\ \A pc \in {"new", "done", "refused", "failed", "cancelled", "dead"} :
       Ended(pc) \in RequestType /\ Ended(pc).pc = pc
  BY DEF Idle, SaverType, Ended, RequestType, Kinds, Empty, Tables

\* The server's initial states satisfy the invariant.
LEMMA StoreInit == Init => StoreInv
  <1> SUFFICES ASSUME Init PROVE StoreInv
    OBVIOUS
  <1>1. content \in [Inodes -> Tables]
    BY DEF Init, Tables
  <1>2. TypeOK
    BY <1>1, EndedType DEF Init, TypeOK, Inodes
  <1>3. FileIntact
    BY <1>1, StoreAssumption DEF Init, FileIntact, Inodes, Tables
  <1>4. OneSaver /\ SavesLatest
    BY DEF Init, OneSaver, SavesLatest, Ended, Idle
  <1>5. OwnTemporary
    BY StoreAssumption DEF Init, OwnTemporary
  <1> QED
    BY <1>2, <1>3, <1>4, <1>5 DEF StoreInv

\* Entering the region (`async with self._lock`) keeps the invariant: nobody
\* else is inside, so no thread is saving and there is no temporary file.
LEMMA InvEnter ==
  ASSUME StoreInv, NEW r \in Requests, Enter(r)
  PROVE  StoreInv'
  <1>1. PICK kind \in Kinds : \E on \in Targets(kind) :
          request' = [request EXCEPT ![r] = [pc |-> "loading", kind |-> kind, on |-> on]]
    BY DEF Enter
  <1>2. PICK on \in Targets(kind) :
          request' = [request EXCEPT ![r] = [pc |-> "loading", kind |-> kind, on |-> on]]
    BY <1>1
  <1>3. on \in SUBSET Sessions
    BY DEF Targets
  <1>4. TypeOK'
    BY <1>2, <1>3 DEF Enter, StoreInv, TypeOK, RequestType
  <1>5. \A q \in Requests : q # r => request[q].pc \notin {"loading", "saving"}
    BY StoreAssumption DEF StoreInv, OneSaver, Enter
  <1>6. FileIntact'
    BY DEF StoreInv, Enter, FileIntact
  <1>7. OneSaver'
    BY <1>2, <1>5 DEF StoreInv, TypeOK, OneSaver, Enter
  <1>8. OwnTemporary'
    BY <1>2, StoreAssumption DEF StoreInv, TypeOK, OwnTemporary, Enter
  <1>9. SavesLatest'
    BY <1>2, <1>5 DEF StoreInv, TypeOK, SavesLatest, Enter
  <1> QED
    BY <1>4, <1>6, <1>7, <1>8, <1>9 DEF StoreInv

\* Loading and changing the table, or refusing (touch_session), keeps it.
LEMMA InvLoad ==
  ASSUME StoreInv, NEW r \in Requests, Load(r) \/ LoadRefuses(r)
  PROVE  StoreInv'
  <1>1. CASE Load(r)
    <2>1. Changed(r, Stored) \in Tables
      BY <1>1, ChangedType, StoredType DEF Load, Saves, StoreInv, TypeOK
    <2>8. /\ request' \in [Requests -> RequestType]
          /\ \A q \in Requests : request'[q].pc \in {"loading", "saving"} =>
                                  request'[q].on \in Targets(request'[q].kind)
      BY <1>1 DEF Load, StoreInv, TypeOK, RequestType
    <2>9. saver' \in [Requests -> SaverType]
      BY <1>1, <2>1 DEF Load, StoreInv, TypeOK, SaverType
    <2>2. TypeOK'
      BY <1>1, <2>8, <2>9 DEF Load, StoreInv, TypeOK
    <2>3. FileIntact'
      BY <1>1 DEF Load, StoreInv, FileIntact
    <2>4. OneSaver'
      BY <1>1 DEF Load, StoreInv, TypeOK, OneSaver
    <2>5. OwnTemporary'
      BY <1>1 DEF Load, StoreInv, TypeOK, OwnTemporary, OneSaver
    <2>6. Stored' = Stored /\ \A q \in Requests : Changed(q, Stored)' = Changed(q, Stored)
      BY <1>1 DEF Load, StoreInv, TypeOK, Stored, Changed, Empty
    <2>7. SavesLatest'
      BY <1>1, <2>6 DEF Load, StoreInv, TypeOK, SavesLatest, Saves, OneSaver
    <2> QED
      BY <2>2, <2>3, <2>4, <2>5, <2>7 DEF StoreInv
  <1>2. CASE LoadRefuses(r)
    <2>1. TypeOK'
      BY <1>2, EndedType DEF LoadRefuses, Ends, StoreInv, TypeOK
    <2>2. FileIntact'
      BY <1>2 DEF LoadRefuses, StoreInv, FileIntact
    <2>3. OneSaver'
      BY <1>2 DEF LoadRefuses, Ends, Ended, StoreInv, TypeOK, OneSaver
    <2>4. OwnTemporary'
      BY <1>2 DEF LoadRefuses, Ends, Ended, StoreInv, TypeOK, OwnTemporary, OneSaver
    <2>5. SavesLatest'
      BY <1>2 DEF LoadRefuses, Ends, Ended, StoreInv, TypeOK, SavesLatest, OneSaver,
                  Stored, Changed, Saves, Empty
    <2> QED
      BY <2>1, <2>2, <2>3, <2>4, <2>5 DEF StoreInv
  <1> QED
    BY <1>1, <1>2

\* What is stored, and so what every other request would make of it, depends
\* on sessions.json and the content of its inode only (_load_sessions).
LEMMA StoredFrame ==
  ASSUME UNCHANGED file, file # None => content'[file] = content[file]
  PROVE  /\ Stored' = Stored
         /\ FileIntact => FileIntact'
  BY DEF Stored, FileIntact, Empty

\* A thread that has work belongs to the request that holds the lock.
LEMMA SaverHolds ==
  ASSUME StoreInv, NEW r \in Requests, saver[r].io # "idle"
  PROVE  /\ request[r].pc = "saving" /\ lock = r
         /\ saver[r].io = "open" => tmp = None
         /\ saver[r].io \in {"write", "replace"} =>
              tmp = r /\ saver[r].fd = r /\ file # r
         /\ \A q \in Requests : q # r => /\ request[q].pc \notin {"loading", "saving"}
                                         /\ saver[q].io = "idle"
  BY StoreAssumption DEF StoreInv, TypeOK, OneSaver, OwnTemporary

\* Opening the temporary file creates it: no other save has one open.
LEMMA InvOpen ==
  ASSUME StoreInv, NEW r \in Requests, Open(r)
  PROVE  StoreInv' /\ Stored' = Stored
  <1>1. /\ request[r].pc = "saving" /\ lock = r /\ tmp = None
        /\ \A q \in Requests : q # r => saver[q].io = "idle"
    BY SaverHolds DEF Open
  <1>2. file # r
    BY <1>1 DEF StoreInv, OwnTemporary
  <1>3. /\ saver' = [saver EXCEPT ![r].io = "write", ![r].fd = r]
        /\ content' = [content EXCEPT ![r] = Torn]
        /\ tmp' = r
        /\ UNCHANGED <<lock, request, file, restarts>>
    BY <1>1 DEF Open
  <1>4. TypeOK'
    BY <1>3 DEF StoreInv, TypeOK, SaverType, Inodes
  <1>5. Stored' = Stored /\ FileIntact'
    BY <1>2, <1>3, StoredFrame DEF StoreInv, TypeOK, Inodes
  <1>6. OneSaver'
    BY <1>1, <1>3, StoreAssumption DEF StoreInv, TypeOK, OneSaver, Inodes
  <1>7. OwnTemporary'
    BY <1>1, <1>2, <1>3 DEF StoreInv, TypeOK, OwnTemporary
  <1>8. SavesLatest'
    BY <1>3, <1>5 DEF StoreInv, TypeOK, SavesLatest, Changed, Saves
  <1> QED
    BY <1>4, <1>5, <1>6, <1>7, <1>8 DEF StoreInv

\* Writing it leaves the thread's whole table in its own inode.
LEMMA InvWrite ==
  ASSUME StoreInv, NEW r \in Requests, Write(r)
  PROVE  StoreInv' /\ Stored' = Stored
  <1>1. /\ request[r].pc = "saving" /\ lock = r /\ tmp = r /\ saver[r].fd = r
        /\ file # r /\ \A q \in Requests : q # r => saver[q].io = "idle"
    BY SaverHolds DEF Write
  <1>2. PICK c \in {saver[r].data, Torn} :
          /\ c = Torn => content[r] # Torn
          /\ content' = [content EXCEPT ![r] = c]
    BY <1>1 DEF Write
  <1>3. /\ saver' = [saver EXCEPT ![r].io = "replace"]
        /\ UNCHANGED <<lock, request, file, tmp, restarts>>
    BY DEF Write
  <1>4. saver[r].data \in Tables /\ c = saver[r].data
    BY <1>1, <1>2 DEF Write, StoreInv, TypeOK, SaverType, OneSaver
  <1>5. TypeOK'
    BY <1>2, <1>3, <1>4 DEF StoreInv, TypeOK, SaverType
  <1>6. Stored' = Stored /\ FileIntact'
    BY <1>1, <1>2, <1>3, StoredFrame DEF StoreInv, TypeOK, Inodes
  <1>7. OneSaver'
    BY <1>1, <1>2, <1>3, <1>4, StoreAssumption DEF StoreInv, TypeOK, OneSaver, Inodes
  <1>8. OwnTemporary'
    BY <1>1, <1>3 DEF StoreInv, TypeOK, OwnTemporary
  <1>9. SavesLatest'
    BY <1>3, <1>6 DEF StoreInv, TypeOK, SavesLatest, Changed, Saves
  <1> QED
    BY <1>5, <1>6, <1>7, <1>8, <1>9 DEF StoreInv

\* The rename stores the thread's table, and ends its request.
LEMMA InvReplace ==
  ASSUME StoreInv, NEW r \in Requests, Replace(r)
  PROVE  StoreInv' /\ Stored' = Changed(r, Stored) /\ Saves(r)
  <1>1. /\ request[r].pc = "saving" /\ lock = r /\ tmp = r /\ saver[r].fd = r
        /\ \A q \in Requests : q # r => /\ request[q].pc \notin {"loading", "saving"}
                                        /\ saver[q].io = "idle"
    BY SaverHolds DEF Replace
  <1>2. content[r] = Changed(r, Stored) /\ Saves(r) /\ content[r] \in Tables
    BY <1>1 DEF Replace, StoreInv, TypeOK, OneSaver, SavesLatest, SaverType
  <1>3. /\ saver' = [saver EXCEPT ![r] = Idle]
        /\ request' = [request EXCEPT ![r] = Ended("done")]
        /\ lock' = None /\ file' = r /\ tmp' = None
        /\ UNCHANGED <<content, restarts>>
    BY <1>1 DEF Replace, SaveEnds, Ends
  <1>4. TypeOK'
    BY <1>3, EndedType DEF StoreInv, TypeOK, Inodes
  <1>5. Stored' = Changed(r, Stored) /\ FileIntact'
    BY <1>2, <1>3, StoreAssumption DEF Stored, FileIntact, Tables
  <1>6. OneSaver' /\ SavesLatest'
    BY <1>1, <1>3 DEF StoreInv, TypeOK, OneSaver, SavesLatest, Ended, Idle
  <1>7. OwnTemporary'
    BY <1>3 DEF StoreInv, TypeOK, OwnTemporary, Ended
  <1> QED
    BY <1>2, <1>4, <1>5, <1>6, <1>7 DEF StoreInv

\* A save that raises unlinks its temporary file and stores nothing.
LEMMA InvSaveFails ==
  ASSUME StoreInv, NEW r \in Requests, SaveFails(r)
  PROVE  StoreInv' /\ Stored' = Stored
  <1>1. /\ request[r].pc = "saving" /\ lock = r
        /\ \A q \in Requests : q # r => /\ request[q].pc \notin {"loading", "saving"}
                                        /\ saver[q].io = "idle"
    BY SaverHolds DEF SaveFails
  <1>2. /\ saver' = [saver EXCEPT ![r] = Idle]
        /\ request' = [request EXCEPT ![r] = Ended("failed")]
        /\ lock' = None /\ tmp' = None
        /\ UNCHANGED <<file, content, restarts>>
    BY <1>1 DEF SaveFails, SaveEnds, Ends
  <1>3. TypeOK'
    BY <1>2, EndedType DEF StoreInv, TypeOK
  <1>4. Stored' = Stored /\ FileIntact'
    BY <1>2, StoredFrame DEF StoreInv
  <1>5. OneSaver' /\ SavesLatest'
    BY <1>1, <1>2 DEF StoreInv, TypeOK, OneSaver, SavesLatest, Ended, Idle
  <1>6. OwnTemporary'
    BY <1>1, <1>2 DEF StoreInv, TypeOK, OwnTemporary, Ended
  <1> QED
    BY <1>3, <1>4, <1>5, <1>6 DEF StoreInv

\* A request cancelled while it loads leaves the region as it found it.
LEMMA InvCancel ==
  ASSUME NoSaveCancelled, StoreInv, NEW r \in Requests, Cancel(r)
  PROVE  StoreInv' /\ Stored' = Stored
  <1>1. request[r].pc = "loading" /\ saver[r].io = "idle" /\ lock = r
    BY StoreAssumption DEF NoSaveCancelled, Cancel, StoreInv, OneSaver
  <1>2. \A q \in Requests : q # r => request[q].pc \notin {"loading", "saving"}
    BY <1>1 DEF StoreInv, OneSaver
  <1>3. /\ request' = [request EXCEPT ![r] = Ended("cancelled")]
        /\ lock' = None
        /\ UNCHANGED <<saver, file, tmp, content, restarts>>
    BY <1>1 DEF Cancel, Ends
  <1>4. TypeOK'
    BY <1>3, EndedType DEF StoreInv, TypeOK
  <1>5. Stored' = Stored /\ FileIntact'
    BY <1>3, StoredFrame DEF StoreInv
  <1>6. OneSaver' /\ SavesLatest'
    BY <1>1, <1>2, <1>3 DEF StoreInv, TypeOK, OneSaver, SavesLatest, Ended
  <1>7. OwnTemporary'
    BY <1>1, <1>3 DEF StoreInv, TypeOK, OwnTemporary, Ended
  <1> QED
    BY <1>4, <1>5, <1>6, <1>7 DEF StoreInv

\* The server dies in the middle of anything and starts again.
LEMMA InvRestart ==
  ASSUME StoreInv, Restart
  PROVE  StoreInv' /\ Stored' = Stored
  <1>1. TypeOK'
    BY EndedType DEF Restart, StoreInv, TypeOK
  <1>2. Stored' = Stored /\ FileIntact'
    BY StoredFrame DEF Restart, StoreInv
  <1>3. \A r \in Requests : request'[r].pc \notin {"loading", "saving"} /\ saver'[r].io = "idle"
    BY DEF Restart, Ended, Idle
  <1>4. OneSaver' /\ SavesLatest'
    BY <1>3 DEF OneSaver, SavesLatest
  <1>5. OwnTemporary'
    BY DEF Restart, StoreInv, TypeOK, OwnTemporary, Ended
  <1> QED
    BY <1>1, <1>2, <1>4, <1>5 DEF StoreInv

\* The invariant holds at every step of a server whose saves are not cancelled:
\* the lock of SessionManager does what its comment asks of it.
THEOREM StoreCorrect ==
  ASSUME NoSaveCancelled
  PROVE  Spec => []StoreInv
  <1>1. StoreInv /\ [Next]_vars => StoreInv'
    <2> SUFFICES ASSUME StoreInv, [Next]_vars PROVE StoreInv'
      OBVIOUS
    <2>1. ASSUME NEW r \in Requests, Enter(r) \/ Step(r) \/ Cancel(r)
          PROVE  StoreInv'
      BY <2>1, InvEnter, InvLoad, InvOpen, InvWrite, InvReplace, InvSaveFails,
         InvCancel DEF Step
    <2>2. CASE UNCHANGED vars
      BY <2>2 DEF vars, StoreInv, TypeOK, FileIntact, OneSaver, OwnTemporary,
                  SavesLatest, Saves, Changed, Stored, Empty
    <2> QED
      BY <2>1, <2>2, InvRestart DEF Next
  <1> QED
    BY <1>1, StoreInit, PTL DEF Spec

\* sessions.json is never a torn document, whenever the server dies.
THEOREM FileCorrect ==
  ASSUME NoSaveCancelled
  PROVE  Spec => []FileIntact
  BY StoreCorrect, PTL DEF StoreInv

\* A step of the store is one update of the atomic table, or none: the lock
\* and the rename make each load, change and save of a request indivisible.
LEMMA StepIsAtomic ==
  ASSUME NoSaveCancelled, StoreInv, [Next]_vars
  PROVE  [Atomic!Next]_Stored
  <1>1. ASSUME NEW r \in Requests, Replace(r)
        PROVE  Atomic!Next
    <2>1. Stored' = Changed(r, Stored) /\ Saves(r)
      BY <1>1, InvReplace
    <2>2. /\ Stored \in Tables /\ request[r].kind \in Kinds
          /\ request[r].on \in Targets(request[r].kind)
      BY <1>1, StoredType, SaverHolds DEF Replace, StoreInv, TypeOK, RequestType
    <2>3. CASE request[r].kind = "create"
      <3>1. PICK s \in Sessions : request[r].on = {s}
        BY <2>2, <2>3 DEF Targets
      <3>2. Atomic!Create(s)
        BY <2>1, <2>2, <2>3, <3>1 DEF Changed, Tables, Atomic!Create
      <3> QED
        BY <3>2 DEF Atomic!Next
    <2>4. CASE request[r].kind = "touch"
      <3>1. PICK s \in Sessions : request[r].on = {s}
        BY <2>2, <2>4 DEF Targets
      <3>2. Atomic!Touch(s)
        BY <2>1, <2>2, <2>4, <3>1 DEF Changed, Saves, Tables, Atomic!Touch
      <3> QED
        BY <3>2 DEF Atomic!Next
    <2>5. CASE request[r].kind \in {"remove", "discard"}
      <3>1. request[r].on \in SUBSET Sessions
        BY <2>2 DEF Targets
      <3>2. Atomic!Remove(request[r].on)
        BY <2>1, <2>2, <2>5, <3>1 DEF Changed, Tables, Atomic!Remove
      <3> QED
        BY <3>1, <3>2 DEF Atomic!Next
    <2> QED
      BY <2>2, <2>3, <2>4, <2>5 DEF Kinds
  <1>2. ASSUME NEW r \in Requests, Enter(r) \/ Load(r) \/ LoadRefuses(r)
        PROVE  Stored' = Stored
    BY <1>2 DEF Enter, Load, LoadRefuses, Stored, Empty
  <1>3. CASE UNCHANGED vars
    BY <1>3 DEF vars, Stored, Empty
  <1> QED
    BY <1>1, <1>2, <1>3, InvOpen, InvWrite, InvSaveFails, InvCancel, InvRestart
       DEF Next, Step

\* Without cancelled saves the store implements the atomic table: "concurrent
\* tool calls cannot lose writes" (session_manager.py, module docstring).
THEOREM StoreImplementsAtomic ==
  ASSUME NoSaveCancelled
  PROVE  Spec => StoreIsAtomic
  <1>1. Init => Atomic!Init
    BY StoreInit, StoredType DEF StoreInv, Atomic!Init, Atomic!TypeOK, Tables
  <1>2. StoreInv /\ [Next]_vars => [Atomic!Next]_Stored
    BY StepIsAtomic
  <1> QED
    BY <1>1, <1>2, StoreCorrect, PTL DEF Spec, StoreIsAtomic, Atomic!Spec
=============================================================================
