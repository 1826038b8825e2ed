---------------------------- MODULE SessionStore ----------------------------
(***************************************************************************)
(* sessions.json and the requests that update it: session_manager.py's     *)
(* `async with self._lock:` regions, each one load, one change, one save.  *)
(*                                                                         *)
(* Load and save run in worker threads (asyncio.to_thread).  Cancelling a  *)
(* request ends its coroutine, which gives the lock back, and not the      *)
(* thread that saves for it.  The save writes a temporary file, one name   *)
(* per server process, and renames it; a file is an inode, since a rename  *)
(* moves whatever the name means at that moment.                           *)
(***************************************************************************)
EXTENDS Naturals

CONSTANTS
    Sessions,      \* the session ids
    Requests,      \* requests, each updating the file once
    CancelAt,      \* where a request may be cancelled: "loading", "saving"
    SaveMayFail,   \* writing or renaming the file may raise
    MaxRestarts,   \* bound: times the server process dies and starts again
    None,          \* no record, no inode, no lock holder
    Torn,          \* the content of a file that is not a whole JSON document
    Original       \* the inode of the file the server finds

ASSUME StoreAssumption ==
    /\ CancelAt \subseteq {"loading", "saving"}
    /\ SaveMayFail \in BOOLEAN
    /\ MaxRestarts \in Nat
    /\ None \notin Nat /\ Original \notin Requests
    /\ None \notin Requests \cup {Original}
    /\ Torn \notin [Sessions -> Nat \cup {None}]

VARIABLES
    lock,      \* SessionManager._lock: its holder, or None
    request,   \* the coroutines
    saver,     \* the worker thread of a save
    file,      \* the inode named sessions.json, or None
    tmp,       \* the inode named sessions.json.<pid>.tmp, or None
    content,   \* of each inode
    restarts

vars == <<lock, request, saver, file, tmp, content, restarts>>

Kinds == {"create", "touch", "remove", "discard"}
Tables == [Sessions -> Nat \cup {None}]
Empty == [s \in Sessions |-> None]
Inodes == Requests \cup {Original}

\* _load_sessions: a missing or malformed file is an empty table.
Stored == IF file = None THEN Empty
          ELSE IF content[file] = Torn THEN Empty ELSE content[file]

\* A request and a saver outside the region: their locals are gone.
Ended(pc) == [pc |-> pc, kind |-> "touch", on |-> {}]
Idle == [io |-> "idle", fd |-> None, data |-> Empty]

Init ==
    /\ lock = None
    /\ request = [r \in Requests |-> Ended("new")]
    /\ saver = [r \in Requests |-> Idle]
    /\ file \in {None, Original}
    /\ tmp = None
    /\ \E found \in [Sessions -> {0, None}] : content = [i \in Inodes |-> found]
    /\ restarts = 0

\* Which sessions a request of each kind is about: the collector removes many.
Targets(kind) == IF kind = "remove" THEN SUBSET Sessions
                 ELSE {{s} : s \in Sessions}

\* Mutant: the region is entered without the lock.
EnterUnlocked(r) ==
    /\ request[r].pc = "new"
    /\ lock' = r
    /\ \E kind \in Kinds : \E on \in Targets(kind) :
         request' = [request EXCEPT ![r] = [pc |-> "loading", kind |-> kind,
                                            on |-> on]]
    /\ UNCHANGED <<saver, file, tmp, content, restarts>>

\* `async with self._lock`, by a start, a touch, a stop, the collector...
Enter(r) ==
    /\ request[r].pc = "new"
    /\ lock = None
    /\ lock' = r
    /\ \E kind \in Kinds : \E on \in Targets(kind) :
         request' = [request EXCEPT ![r] = [pc |-> "loading", kind |-> kind,
                                            on |-> on]]
    /\ UNCHANGED <<saver, file, tmp, content, restarts>>

\* touch_session raises and _discard_session_entry returns when the session is
\* not recorded; the others save whatever they found.
Saves(r) == \/ request[r].kind \in {"create", "remove"}
            \/ \A s \in request[r].on : Stored[s] # None

\* The table a request makes of the one it loaded.
Changed(r, table) ==
    [s \in Sessions |->
        IF s \notin request[r].on THEN table[s]
        ELSE CASE request[r].kind = "create" -> 0
               [] request[r].kind = "touch" -> table[s] + 1
               [] OTHER -> None]

Ends(r, pc) == /\ request' = [request EXCEPT ![r] = Ended(pc)]
               /\ lock' = IF lock = r THEN None ELSE lock

Load(r) ==
    /\ request[r].pc = "loading"
    /\ Saves(r)
    /\ request' = [request EXCEPT ![r].pc = "saving"]
    /\ saver' = [saver EXCEPT ![r].io = "open", ![r].data = Changed(r, Stored)]
    /\ UNCHANGED <<lock, file, tmp, content, restarts>>

LoadRefuses(r) ==
    /\ request[r].pc = "loading"
    /\ ~Saves(r)
    /\ Ends(r, "refused")
    /\ UNCHANGED <<saver, file, tmp, content, restarts>>

\* Mutant: the file itself is opened, not a temporary one.
OpenInPlace(r) ==
    /\ saver[r].io = "open"
    /\ LET i == IF file = None THEN r ELSE file
       IN  /\ saver' = [saver EXCEPT ![r].io = "write", ![r].fd = i]
           /\ content' = [content EXCEPT ![i] = Torn]
           /\ tmp' = i
    /\ UNCHANGED <<lock, request, file, restarts>>

\* os.open with O_CREAT and O_TRUNC: the temporary file of another save that
\* is still running is the same file.
Open(r) ==
    /\ saver[r].io = "open"
    /\ LET i == IF tmp = None THEN r ELSE tmp
       IN  /\ saver' = [saver EXCEPT ![r].io = "write", ![r].fd = i]
           /\ content' = [content EXCEPT ![i] = Torn]
           /\ tmp' = i
    /\ UNCHANGED <<lock, request, file, restarts>>

\* json.dump and close: over another save's document, a tail of it may stay.
Write(r) ==
    /\ saver[r].io = "write"
    /\ saver' = [saver EXCEPT ![r].io = "replace"]
    /\ \E c \in {saver[r].data, Torn} :
         /\ c = Torn => content[saver[r].fd] # Torn
         /\ content' = [content EXCEPT ![saver[r].fd] = c]
    /\ UNCHANGED <<lock, request, file, tmp, restarts>>

\* The save is over; its request, unless it was cancelled, leaves the region.
SaveEnds(r, pc) ==
    /\ saver' = [saver EXCEPT ![r] = Idle]
    /\ IF request[r].pc = "saving" THEN Ends(r, pc) ELSE UNCHANGED <<lock, request>>

\* os.replace renames whatever the temporary name is now.
Replace(r) ==
    /\ saver[r].io = "replace"
    /\ tmp # None
    /\ file' = tmp
    /\ tmp' = None
    /\ SaveEnds(r, "done")
    /\ UNCHANGED <<content, restarts>>

\* Mutant: the exception of a save leaves the lock held.
SaveFailsKeepsLock(r) ==
    /\ saver[r].io # "idle"
    /\ SaveMayFail \/ (saver[r].io = "replace" /\ tmp = None)
    /\ tmp' = None
    /\ saver' = [saver EXCEPT ![r] = Idle]
    /\ request' = [request EXCEPT ![r] = Ended("failed")]
    /\ UNCHANGED <<lock, file, content, restarts>>

\* Opening, writing or renaming raises: the temporary name is unlinked.
SaveFails(r) ==
    /\ saver[r].io # "idle"
    /\ SaveMayFail \/ (saver[r].io = "replace" /\ tmp = None)
    /\ tmp' = None
    /\ SaveEnds(r, "failed")
    /\ UNCHANGED <<file, content, restarts>>

\* CancelledError at the await: the lock is released, and a thread that has
\* begun runs on.  One still queued in the executor never runs.
Cancel(r) ==
    /\ request[r].pc \in CancelAt
    /\ Ends(r, "cancelled")
    /\ \/ UNCHANGED saver
       \/ saver[r].io = "open" /\ saver' = [saver EXCEPT ![r] = Idle]
    /\ UNCHANGED <<file, tmp, content, restarts>>

\* The server dies and starts again, under another pid: whatever ran is gone
\* and its temporary file is not looked at any more.
Restart ==
    /\ restarts < MaxRestarts
    /\ restarts' = restarts + 1
    /\ lock' = None
    /\ tmp' = None
    /\ request' = [r \in Requests |->
                     IF request[r].pc \in {"loading", "saving"}
                     THEN Ended("dead") ELSE request[r]]
    /\ saver' = [r \in Requests |-> Idle]
    /\ UNCHANGED <<file, content>>

Step(r) == \/ Load(r) \/ LoadRefuses(r) \/ Open(r) \/ Write(r) \/ Replace(r)
           \/ SaveFails(r)

Next == (\E r \in Requests : Enter(r) \/ Step(r) \/ Cancel(r)) \/ Restart

Spec == Init /\ [][Next]_vars

\* Worker threads run and coroutines are resumed.
FairSpec == Spec /\ \A r \in Requests : WF_vars(Step(r))
-----------------------------------------------------------------------------
(* Properties *)

RequestType == [pc : {"new", "loading", "saving", "done", "refused", "failed",
                      "cancelled", "dead"},
                kind : Kinds, on : SUBSET Sessions]
SaverType == [io : {"idle", "open", "write", "replace"},
              fd : Inodes \cup {None}, data : Tables]

\* Every variable stays in its type (the lock, the requests, the two names).
TypeOK ==
    /\ lock \in Requests \cup {None}
    /\ request \in [Requests -> RequestType]
    /\ \A r \in Requests : request[r].pc \in {"loading", "saving"} =>
                            request[r].on \in Targets(request[r].kind)
    /\ saver \in [Requests -> SaverType]
    /\ file \in Inodes \cup {None} /\ tmp \in Inodes \cup {None}
    /\ content \in [Inodes -> Tables \cup {Torn}]
    /\ restarts \in Nat

\* sessions.json is a whole document at every moment, also when the server
\* dies between any two steps of a save (_save_sessions, "atomic write").
FileIntact == file # None => content[file] # Torn

\* A request that holds the lock gives it back, however its save ends.
LockFreed == \A r \in Requests : lock = r ~> lock # r

\* "concurrent tool calls cannot lose writes": what a load returns changes by
\* whole updates only, each made to the latest table.
Atomic == INSTANCE AtomicSessionTable WITH table <- Stored
StoreIsAtomic == Atomic!Spec

-----------------------------------------------------------------------------
(* Why the store is atomic when no save is cancelled *)

\* At most one request is between its load and the end of its save, and its
\* thread works on a temporary file of its own, never on sessions.json.
OneSaver ==
    \A r \in Requests :
        /\ request[r].pc \in {"loading", "saving"} => lock = r
        /\ saver[r].io # "idle" => request[r].pc = "saving"
        /\ saver[r].io \in {"write", "replace"} => tmp # None /\ saver[r].fd = tmp
        /\ saver[r].io = "write" => content[tmp] = Torn
        /\ saver[r].io = "replace" => content[tmp] = saver[r].data

OwnTemporary ==
    /\ tmp # None => /\ tmp # file
                     /\ \E r \in Requests : /\ lock = r /\ tmp = r
                                            /\ saver[r].io \in {"write", "replace"}
    /\ file \in Requests => request[file].pc = "done"

\* What the thread is going to store is the request's change to what is stored
\* now.
SavesLatest ==
    \A r \in Requests :
        request[r].pc = "saving" => saver[r].data = Changed(r, Stored) /\ Saves(r)

StoreInv == TypeOK /\ FileIntact /\ OneSaver /\ OwnTemporary /\ SavesLatest
=============================================================================
