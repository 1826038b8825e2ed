-------------------------- MODULE BatchJobs_proofs --------------------------
(***************************************************************************)
(* Proofs about BatchJobs, for every set of sessions, jobs and callers,    *)
(* every retention window and every number of steps.                       *)
(*                                                                         *)
(* None of the invariants is inductive alone.  The depth of a lock stays a *)
(* number because the lock follows the bodies; the tables agree because    *)
(* the status follows the task; and one job per session is active because  *)
(* the check for an active job looks in a table that knows all of them.    *)
(***************************************************************************)
EXTENDS BatchJobs, TLAPS

IInv == /\ TypeOK
        /\ StatusFollowsTask
        /\ LockFollowsBody
        /\ RegistryInv
        /\ OneActivePerSession

-----------------------------------------------------------------------------
(* The retention window *)

\* What a full window drops and keeps: the operators of _evict_finished split
\* a sequence of finished jobs, and what is kept fits the window.
LEMMA Window ==
    ASSUME NEW f \in Seq(Jobs)
    PROVE  /\ Overflow(f) \in 0 .. Len(f)
           /\ Kept(f) \in Seq(Jobs)
           /\ Len(Kept(f)) = Len(f) - Overflow(f)
           /\ Len(Kept(f)) <= Retention
           /\ \A i \in 1 .. Len(Kept(f)) : Kept(f)[i] = f[i + Overflow(f)]
           /\ Evicted(f) \subseteq Jobs
<1>1. Len(f) \in Nat /\ Retention \in Nat
  BY BatchAssumption
<1>2. Overflow(f) \in 0 .. Len(f) /\ Len(f) - Overflow(f) <= Retention
  BY <1>1 DEF Overflow
<1>3. \A i \in 1 .. Len(f) : f[i] \in Jobs
  OBVIOUS
<1>4. /\ Kept(f) \in Seq(Jobs)
      /\ Len(Kept(f)) = Len(f) - Overflow(f)
      /\ \A i \in 1 .. Len(Kept(f)) : Kept(f)[i] = f[i + Overflow(f)]
  BY <1>1, <1>2 DEF Kept
<1>5. Evicted(f) \subseteq Jobs
  BY <1>1, <1>2, <1>3 DEF Evicted
<1> QED BY <1>2, <1>4, <1>5

InOrder(f, x) == \E i \in 1 .. Len(f) : f[i] = x
NoRepeat(f) == \A i, j \in 1 .. Len(f) : f[i] = f[j] => i = j

\* A job that finishes joins the window: the new order lists, once each, the
\* jobs it listed and the new one, without the evicted ones.
LEMMA JoinWindow ==
    ASSUME NEW f \in Seq(Jobs), NEW b \in Jobs, NoRepeat(f), ~InOrder(f, b)
    PROVE  LET g == Append(f, b)
           IN  /\ NoRepeat(Kept(g))
               /\ \A x \in Jobs : InOrder(Kept(g), x)
                                    <=> (InOrder(f, x) \/ x = b) /\ x \notin Evicted(g)
               /\ \A x \in Evicted(g) : InOrder(f, x) \/ x = b
<1> DEFINE g == Append(f, b)
<1>1. /\ g \in Seq(Jobs) /\ Len(g) = Len(f) + 1 /\ Len(f) \in Nat
      /\ \A i \in 1 .. Len(f) : g[i] = f[i]
      /\ g[Len(g)] = b
  OBVIOUS
<1>2. NoRepeat(g)
  <2> SUFFICES ASSUME NEW i \in 1 .. Len(g), NEW j \in 1 .. Len(g), g[i] = g[j]
               PROVE  i = j
    BY DEF NoRepeat
  <2>1. CASE i = Len(g) /\ j = Len(g)
    BY <2>1
  <2>2. CASE i = Len(g) /\ j \in 1 .. Len(f)
    BY <1>1, <2>2 DEF InOrder
  <2>3. CASE i \in 1 .. Len(f) /\ j = Len(g)
    BY <1>1, <2>3 DEF InOrder
  <2>4. CASE i \in 1 .. Len(f) /\ j \in 1 .. Len(f)
    BY <1>1, <2>4 DEF NoRepeat
  <2> QED BY <1>1, <2>1, <2>2, <2>3, <2>4
<1>3. \A x : InOrder(g, x) <=> InOrder(f, x) \/ x = b
  <2> TAKE x
  <2>1. InOrder(f, x) => InOrder(g, x)
    BY <1>1 DEF InOrder
  <2>2. x = b => InOrder(g, x)
    <3>1. Len(g) \in 1 .. Len(g)
      BY <1>1
    <3> QED BY <1>1, <3>1 DEF InOrder
  <2>3. ASSUME InOrder(g, x) PROVE InOrder(f, x) \/ x = b
    <3>1. PICK i \in 1 .. Len(g) : g[i] = x
      BY <2>3 DEF InOrder
    <3>2. i = Len(g) \/ i \in 1 .. Len(f)
      BY <1>1
    <3> QED BY <1>1, <3>1, <3>2 DEF InOrder
  <2> QED BY <2>1, <2>2, <2>3
<1> DEFINE n == Overflow(g)
           k == Kept(g)
<1>4. /\ n \in 0 .. Len(g)
      /\ Len(k) = Len(g) - n
      /\ \A i \in 1 .. Len(k) : k[i] = g[i + n]
  BY <1>1, Window
<1>5. \A x : x \in Evicted(g) <=> \E i \in 1 .. n : g[i] = x
  BY DEF Evicted
<1> HIDE DEF g, n, k
<1>6. NoRepeat(k)
  <2> SUFFICES ASSUME NEW i \in 1 .. Len(k), NEW j \in 1 .. Len(k), k[i] = k[j]
               PROVE  i = j
    BY DEF NoRepeat
  <2>1. /\ i + n \in 1 .. Len(g) /\ j + n \in 1 .. Len(g)
        /\ g[i + n] = g[j + n]
    BY <1>1, <1>4
  <2>2. i + n = j + n
    BY <1>2, <2>1 DEF NoRepeat
  <2> QED BY <1>1, <1>4, <2>2
<1>7. ASSUME NEW x, InOrder(k, x) PROVE InOrder(g, x) /\ x \notin Evicted(g)
  <2>1. PICK i \in 1 .. Len(k) : k[i] = x
    BY <1>7 DEF InOrder
  <2>2. i + n \in 1 .. Len(g) /\ g[i + n] = x
    BY <1>1, <1>4, <2>1
  <2>3. ASSUME NEW j \in 1 .. n, g[j] = x PROVE FALSE
    <3>1. j \in 1 .. Len(g)
      BY <1>1, <1>4
    <3>2. j = i + n
      BY <1>2, <2>2, <2>3, <3>1 DEF NoRepeat
    <3> QED BY <1>1, <1>4, <3>2
  <2> QED BY <1>5, <2>2, <2>3 DEF InOrder
<1>8. ASSUME NEW x, InOrder(g, x), x \notin Evicted(g) PROVE InOrder(k, x)
  <2>1. PICK i \in 1 .. Len(g) : g[i] = x
    BY <1>8 DEF InOrder
  <2>2. i \notin 1 .. n
    BY <1>5, <1>8, <2>1
  <2>3. i - n \in 1 .. Len(k) /\ k[i - n] = g[(i - n) + n] /\ (i - n) + n = i
    BY <1>1, <1>4, <2>2
  <2> QED BY <2>1, <2>3 DEF InOrder
<1>9. \A x \in Evicted(g) : InOrder(g, x)
  BY <1>1, <1>4, <1>5 DEF InOrder
<1> QED BY <1>3, <1>6, <1>7, <1>8, <1>9 DEF g, k

-----------------------------------------------------------------------------
(* One job changes *)

\* No status, no session and no owner is a value of its own, and the statuses
\* are told apart.
LEMMA Values ==
    /\ None \notin Active \cup Terminal
    /\ None \notin Jobs /\ None \notin Callers /\ None \notin Sessions
    /\ Active \cap Terminal = {}
    /\ Jobs \cap Callers = {}
    /\ Retention \in Nat /\ Steps \in Nat
<1>1. Active \cap Terminal = {}
  BY DEF Active, Terminal
<1> QED BY <1>1, BatchAssumption

\* A change of one job leaves the others alone and keeps the jobs typed.
LEMMA JobMove ==
    ASSUME JobsOK, NEW b \in Jobs, NEW r \in JobType, Becomes(b, r),
           Placed(r)
    PROVE  /\ JobsOK'
           /\ job'[b] = r
           /\ \A x \in Jobs : x # b => job'[x] = job[x]
<1>1. job' = [job EXCEPT ![b] = r] /\ job \in [Jobs -> JobType]
  BY DEF Becomes, JobsOK
<1>2. job'[b] = r /\ \A x \in Jobs : x # b => job'[x] = job[x]
  BY <1>1
<1>3. job' \in [Jobs -> JobType]
  BY <1>1
<1>4. ASSUME NEW x \in Jobs PROVE Placed(job'[x])
  BY <1>2 DEF JobsOK
<1> QED BY <1>2, <1>3, <1>4 DEF JobsOK

\* StatusFollowsTask for one job, given whether the registry knows it.
StatusOK(j, known) ==
    /\ j.pc \in {"waiting", "body", "nested"} <=> j.status = "running"
    /\ j.status = "queued" <=> j.pc = "scheduled" /\ ~j.cancel
    /\ j.pc = "scheduled" /\ j.cancel => j.status = "cancelled"
    /\ j.pc = "ended" => j.status \in Terminal
    /\ j.pc \in {"new", "validating", "refused"} =>
         j.status = None /\ ~j.cancel /\ ~known

\* A step that changes one job and neither a table nor a lock keeps the
\* invariant if the job stays as active, as finished and as much inside its
\* body as it was.
LEMMA QuietMove ==
    ASSUME IInv, NEW b \in Jobs, NEW r \in JobType, Becomes(b, r),
           UNCHANGED <<table, finished, call, owner, depth>>,
           Placed(r),
           StatusOK(r, b \in table),
           r.pc = "nested" <=> job[b].pc = "nested",
           r.pc = "body" <=> job[b].pc = "body",
           r.status \in Active <=> job[b].status \in Active,
           r.status \in Terminal <=> job[b].status \in Terminal,
           r.pc \in {"body", "nested"} \/ r.status \in Active => r.sid = job[b].sid
    PROVE  IInv'
<1>1. /\ JobsOK'
      /\ job'[b] = r
      /\ \A x \in Jobs : x # b => job'[x] = job[x]
  BY JobMove DEF IInv, TypeOK
<1>2. TypeOK'
  BY <1>1 DEF IInv, TypeOK, CallsOK, TablesOK, LocksOK
<1>3. StatusFollowsTask'
  BY <1>1 DEF IInv, StatusFollowsTask, StatusOK
<1>4. LockFollowsBody'
  <2>1. \A x \in Jobs, s \in Sessions :
          /\ job'[x].pc = "nested" <=> job[x].pc = "nested"
          /\ job'[x].sid = s /\ job'[x].pc \in {"body", "nested"}
               <=> job[x].sid = s /\ job[x].pc \in {"body", "nested"}
    BY <1>1
  <2> QED BY <2>1 DEF IInv, LockFollowsBody
<1>5. \A x \in Jobs : /\ job'[x].status \in Active <=> job[x].status \in Active
                      /\ job'[x].status \in Terminal <=> job[x].status \in Terminal
                      /\ job'[x].status \in Active => job'[x].sid = job[x].sid
  BY <1>1
<1>6. RegistryInv'
  <2>1. \A x \in table : job'[x].status # None
    <3>1. ASSUME NEW x \in table PROVE job'[x].status # None
      <4>1. x \in Jobs /\ job[x] \in JobType /\ job[x].status # None
        BY DEF IInv, TypeOK, JobsOK, TablesOK, RegistryInv
      <4>2. job[x].status \in Active \cup Terminal
        BY <4>1 DEF JobType
      <4> QED BY <1>5, <4>1, <4>2, Values
    <3> QED BY <3>1
  <2> QED BY <1>5, <2>1 DEF IInv, RegistryInv
<1>7. OneActivePerSession'
  BY <1>5 DEF IInv, OneActivePerSession
<1> QED BY <1>2, <1>3, <1>4, <1>6, <1>7 DEF IInv

\* A job that ends joins the finished ones: the tables agree after it, and the
\* sessions with an active job are those of the other jobs.
LEMMA FinishTables ==
    ASSUME IInv, NEW b \in Jobs, NEW r \in JobType, Becomes(b, r),
           job[b].status \in Active, r.status \in Terminal,
           finished' = Kept(Append(finished, b)),
           table' = table \ Evicted(Append(finished, b))
    PROVE  /\ TablesOK'
           /\ RegistryInv'
           /\ OneActivePerSession'
<1> DEFINE g == Append(finished, b)
<1>0. finished \in Seq(Jobs) /\ g \in Seq(Jobs) /\ table \subseteq Jobs
  BY DEF IInv, TypeOK, TablesOK
<1>1. job'[b] = r /\ \A x \in Jobs : x # b => job'[x] = job[x]
  BY DEF Becomes, IInv, TypeOK, JobsOK
<1>2. \A x \in Jobs : InOrder(finished, x) <=> x \in table /\ job[x].status \in Terminal
  BY DEF IInv, RegistryInv, InOrder
<1>3. NoRepeat(finished)
  BY DEF IInv, RegistryInv, NoRepeat
<1>4. b \in table /\ ~InOrder(finished, b)
  BY <1>2, Values DEF IInv, RegistryInv
<1>5. /\ NoRepeat(Kept(g))
      /\ \A x \in Jobs : InOrder(Kept(g), x)
                           <=> (InOrder(finished, x) \/ x = b) /\ x \notin Evicted(g)
      /\ \A x \in Evicted(g) : InOrder(finished, x) \/ x = b
  BY <1>0, <1>3, <1>4, JoinWindow
<1>6. Kept(g) \in Seq(Jobs) /\ Len(Kept(g)) <= Retention /\ Evicted(g) \subseteq Jobs
  BY <1>0, Window
<1>7. TablesOK'
  BY <1>0, <1>6 DEF TablesOK
<1>8. \A x \in Jobs : job'[x].status \in Active => x # b /\ job[x].status \in Active
                                                  /\ job'[x].sid = job[x].sid
  BY <1>1, Values
<1>9. RegistryInv'
  <2>1. ASSUME NEW x \in Jobs, job'[x].status \in Active PROVE x \in table'
    <3>1. x # b /\ x \in table /\ job[x].status \notin Terminal
      BY <1>8, <2>1, Values DEF IInv, RegistryInv
    <3> QED BY <1>2, <1>5, <3>1
  <2>2. ASSUME NEW x \in Jobs, x \in table' PROVE job'[x].status # None
    BY <1>1, <2>2, Values DEF IInv, RegistryInv
  <2>3. ASSUME NEW x \in Jobs
        PROVE  x \in table' /\ job'[x].status \in Terminal <=> InOrder(finished', x)
    BY <1>1, <1>2, <1>4, <1>5
  <2>4. NoRepeat(finished') /\ Len(finished') <= Retention
    BY <1>5, <1>6
  <2> QED BY <2>1, <2>2, <2>3, <2>4 DEF RegistryInv, InOrder, NoRepeat
<1>10. OneActivePerSession'
  BY <1>8 DEF IInv, OneActivePerSession
<1> QED BY <1>7, <1>9, <1>10

\* A task that unwinds gives its session's lock back and no other.
LEMMA UnlockLocks ==
    ASSUME LocksOK, NEW t \in Jobs \cup Callers, NEW s \in Sessions, Unlock(t, s)
    PROVE  /\ LocksOK'
           /\ owner'[s] = IF owner[s] = t THEN None ELSE owner[s]
           /\ depth'[s] = IF owner[s] = t THEN 0 ELSE depth[s]
           /\ \A z \in Sessions : z # s => owner'[z] = owner[z] /\ depth'[z] = depth[z]
BY DEF Unlock, LocksOK

\* A free lock goes to whoever takes it, once.
LEMMA LockLocks ==
    ASSUME LocksOK, NEW t \in Jobs \cup Callers, NEW s \in Sessions, Lock(t, s)
    PROVE  /\ LocksOK'
           /\ owner[s] = None /\ owner'[s] = t /\ depth'[s] = 1
           /\ \A z \in Sessions : z # s => owner'[z] = owner[z] /\ depth'[z] = depth[z]
BY DEF Lock, LocksOK

-----------------------------------------------------------------------------
(* The steps *)

\* The initial state satisfies the invariant.
LEMMA InitInv == Init => IInv
<1> SUFFICES ASSUME Init PROVE IInv
  OBVIOUS
<1>0. /\ \A b \in Jobs : job[b] = [pc |-> "new", sid |-> None, status |-> None,
                                   executed |-> 0, bad |-> FALSE, cancel |-> FALSE]
      /\ \A c \in Callers : call[c] = [pc |-> "ready", sid |-> None]
      /\ \A s \in Sessions : owner[s] = None /\ depth[s] = 0
  BY DEF Init
<1>1. TypeOK
  BY Values DEF Init, TypeOK, JobsOK, Placed, CallsOK, TablesOK, LocksOK, JobType
<1>2. StatusFollowsTask
  BY <1>0, Values DEF Init, StatusFollowsTask, Active, Terminal
<1>3. LockFollowsBody
  <2>1. \A s \in Sessions, b \in Jobs : owner[s] # b /\ job[b].pc = "new"
    BY <1>0, Values
  <2>2. \A s \in Sessions, c \in Callers : owner[s] # c /\ call[c].pc = "ready"
    BY <1>0, Values
  <2>3. \A s \in Sessions :
          depth[s] = IF owner[s] = None THEN 0
                     ELSE IF \E b \in Jobs : owner[s] = b /\ job[b].pc = "nested"
                          THEN 2 ELSE 1
    BY <1>0
  <2>4. \A s \in Sessions, b \in Jobs :
          owner[s] = b <=> job[b].sid = s /\ job[b].pc \in {"body", "nested"}
    BY <2>1
  <2>5. \A s \in Sessions, c \in Callers :
          owner[s] = c <=> call[c].sid = s /\ call[c].pc = "body"
    BY <2>2
  <2> QED BY <2>3, <2>4, <2>5 DEF LockFollowsBody
<1>4. RegistryInv
  BY <1>0, Values DEF Init, RegistryInv
<1>5. OneActivePerSession
  BY <1>0, Values DEF OneActivePerSession
<1> QED BY <1>1, <1>2, <1>3, <1>4, <1>5 DEF IInv

\* Requests, starts, steps and cancels of a running job only move the job.
LEMMA QuietSteps ==
    ASSUME IInv, NEW b \in Jobs,
           \/ \E s \in Sessions : Request(b, s)
           \/ Refuse(b) \/ Start(b) \/ NeverStarts(b) \/ Step(b)
           \/ CancelSwallowed(b) \/ CancelRunning(b)
    PROVE  IInv'
<1>0. /\ job[b] \in JobType
      /\ StatusOK(job[b], b \in table)
      /\ Placed(job[b])
  BY DEF IInv, TypeOK, JobsOK, Placed, StatusFollowsTask, StatusOK
<1>1. ASSUME NEW s \in Sessions, Request(b, s) PROVE IInv'
  <2> DEFINE r == [job[b] EXCEPT !.pc = "validating", !.sid = s]
  <2>1. r \in JobType /\ r.pc = "validating" /\ r.sid = s /\ r.status = job[b].status
        /\ r.cancel = job[b].cancel
    BY <1>0 DEF JobType
  <2>2. job[b].pc = "new" /\ Becomes(b, r) /\ UNCHANGED <<table, finished, call, owner, depth>>
    BY <1>1 DEF Request
  <2> HIDE DEF r
  <2> QED BY <1>0, <2>1, <2>2, QuietMove, Values DEF StatusOK, Placed, Active, Terminal
<1>2. CASE Refuse(b)
  <2> DEFINE r == [job[b] EXCEPT !.pc = "refused", !.sid = None]
  <2>1. r \in JobType /\ r.pc = "refused" /\ r.status = job[b].status
        /\ r.cancel = job[b].cancel
    BY <1>0 DEF JobType
  <2>2. job[b].pc = "validating" /\ Becomes(b, r) /\ UNCHANGED <<table, finished, call, owner, depth>>
    BY <1>2 DEF Refuse
  <2>3. job[b].status = None /\ ~job[b].cancel /\ b \notin table
    BY <1>0, <2>2 DEF StatusOK
  <2> HIDE DEF r
  <2>4. StatusOK(r, b \in table) /\ Placed(r)
    BY <2>1, <2>3, Values DEF StatusOK, Placed, Active
  <2>5. r.status \notin Active \cup Terminal /\ job[b].status \notin Active \cup Terminal
    BY <2>1, <2>3, Values
  <2> QED BY <2>1, <2>2, <2>4, <2>5, QuietMove
<1>3. CASE Start(b)
  <2> DEFINE r == [job[b] EXCEPT !.pc = "waiting", !.status = "running"]
  <2>1. r \in JobType /\ r.pc = "waiting" /\ r.sid = job[b].sid /\ r.status = "running"
    BY <1>0 DEF JobType, Active
  <2>2. job[b].pc = "scheduled" /\ ~job[b].cancel /\ Becomes(b, r)
        /\ UNCHANGED <<table, finished, call, owner, depth>>
    BY <1>3 DEF Start
  <2> HIDE DEF r
  <2> QED BY <1>0, <2>1, <2>2, QuietMove DEF StatusOK, Placed, Active, Terminal
<1>4. CASE NeverStarts(b)
  <2> DEFINE r == [job[b] EXCEPT !.pc = "ended", !.cancel = FALSE]
  <2>1. r \in JobType /\ r.pc = "ended" /\ r.sid = job[b].sid /\ r.status = job[b].status
    BY <1>0 DEF JobType
  <2>2. job[b].pc = "scheduled" /\ job[b].cancel /\ Becomes(b, r)
        /\ UNCHANGED <<table, finished, call, owner, depth>>
    BY <1>4 DEF NeverStarts
  <2> HIDE DEF r
  <2> QED BY <1>0, <2>1, <2>2, QuietMove DEF StatusOK, Placed, Active, Terminal
<1>5. CASE Step(b)
  <2>1. PICK bad \in BOOLEAN :
          Becomes(b, [job[b] EXCEPT !.executed = @ + 1, !.bad = @ \/ bad])
    BY <1>5 DEF Step
  <2> DEFINE r == [job[b] EXCEPT !.executed = @ + 1, !.bad = @ \/ bad]
  <2>2. job[b].executed + 1 \in 0 .. Steps
    <3>1. job[b].executed \in 0 .. Steps
      BY <1>0 DEF JobType
    <3>2. job[b].executed < Steps
      BY <1>5 DEF Step
    <3> QED BY <3>1, <3>2, Values
  <2>3. r \in JobType /\ r.pc = job[b].pc /\ r.sid = job[b].sid
        /\ r.status = job[b].status /\ r.cancel = job[b].cancel
    BY <1>0, <2>2 DEF JobType
  <2>4. job[b].pc = "body" /\ Becomes(b, r) /\ UNCHANGED <<table, finished, call, owner, depth>>
    BY <1>5, <2>1 DEF Step
  <2> HIDE DEF r
  <2> QED BY <1>0, <2>3, <2>4, QuietMove DEF StatusOK, Placed, Active, Terminal
<1>6. CASE CancelSwallowed(b)
  <2> DEFINE r == [job[b] EXCEPT !.cancel = FALSE]
  <2>1. r \in JobType /\ r.pc = job[b].pc /\ r.sid = job[b].sid /\ r.status = job[b].status
        /\ r.executed = job[b].executed
    BY <1>0 DEF JobType
  <2>2. job[b].pc \in {"body", "nested"} /\ Becomes(b, r)
        /\ UNCHANGED <<table, finished, call, owner, depth>>
    BY <1>6 DEF CancelSwallowed
  <2> HIDE DEF r
  <2> QED BY <1>0, <2>1, <2>2, QuietMove DEF StatusOK, Placed, Active, Terminal
<1>7. CASE CancelRunning(b)
  <2> DEFINE r == [job[b] EXCEPT !.cancel = TRUE]
  <2>1. r \in JobType /\ r.pc = job[b].pc /\ r.sid = job[b].sid /\ r.status = job[b].status
        /\ r.executed = job[b].executed
    BY <1>0 DEF JobType
  <2>2. job[b].status = "running" /\ Becomes(b, r)
        /\ UNCHANGED <<table, finished, call, owner, depth>>
    BY <1>7 DEF CancelRunning
  <2> HIDE DEF r
  <2> QED BY <1>0, <2>1, <2>2, QuietMove DEF StatusOK, Placed, Active, Terminal
<1> QED BY <1>1, <1>2, <1>3, <1>4, <1>5, <1>6, <1>7

\* A submission: the check for an active job of the session, made in the same
\* step, covers every active job because the registry knows them all.
LEMMA SubmitStep ==
    ASSUME IInv, NEW b \in Jobs, Submit(b)
    PROVE  IInv'
<1> DEFINE r == [job[b] EXCEPT !.pc = "scheduled", !.status = "queued"]
<1>1. /\ job[b] \in JobType /\ job[b].pc = "validating" /\ job[b].sid \in Sessions
      /\ job[b].status = None /\ ~job[b].cancel /\ b \notin table
  BY DEF Submit, IInv, TypeOK, JobsOK, Placed, StatusFollowsTask
<1>2. r \in JobType /\ r.pc = "scheduled" /\ r.sid = job[b].sid /\ r.status = "queued"
      /\ ~r.cancel
  BY <1>1 DEF JobType, Active
<1>3. /\ Becomes(b, r) /\ table' = table \cup {b}
      /\ UNCHANGED <<finished, call, owner, depth>>
      /\ ActiveJobs(job[b].sid) = {}
  BY DEF Submit
<1>4. "queued" \in Active /\ "queued" # "running"
  BY DEF Active
<1> HIDE DEF r
<1>5. /\ JobsOK' /\ job'[b] = r /\ \A x \in Jobs : x # b => job'[x] = job[x]
  BY <1>1, <1>2, <1>3, JobMove DEF IInv, TypeOK, Placed
<1>6. TypeOK'
  BY <1>3, <1>5 DEF IInv, TypeOK, CallsOK, TablesOK, LocksOK
<1>7. StatusFollowsTask'
  BY <1>1, <1>2, <1>3, <1>4, <1>5, Values DEF IInv, StatusFollowsTask
<1>8. LockFollowsBody'
  BY <1>1, <1>2, <1>3, <1>5 DEF IInv, LockFollowsBody
<1>9. RegistryInv'
  BY <1>1, <1>2, <1>3, <1>4, <1>5, Values DEF IInv, RegistryInv
<1>10. OneActivePerSession'
  <2>1. \A x \in Jobs : x # b /\ job'[x].status \in Active => job'[x].sid # job[b].sid
    <3>1. ASSUME NEW x \in Jobs, x # b, job[x].status \in Active, job[x].sid = job[b].sid
          PROVE  FALSE
      <4>1. x \in table
        BY <3>1 DEF IInv, RegistryInv
      <4> QED BY <1>3, <3>1, <4>1 DEF ActiveJobs
    <3> QED BY <1>5, <3>1
  <2> QED BY <1>2, <1>5, <2>1 DEF IInv, OneActivePerSession
<1> QED BY <1>6, <1>7, <1>8, <1>9, <1>10 DEF IInv

\* The end of a task, whatever its outcome: the job is finished, the tables
\* keep their window and the session's lock is given back.
LEMMA EndSteps ==
    ASSUME IInv, NEW b \in Jobs, End(b) \/ Fail(b) \/ Cancelled(b)
    PROVE  IInv'
<1>1. PICK status \in Terminal : Finish(b, status)
  BY DEF End, Fail, Cancelled, Terminal
<1> DEFINE r == [job[b] EXCEPT !.pc = "ended", !.status = status, !.cancel = FALSE]
<1>2. /\ job[b] \in JobType /\ job[b].pc \in {"waiting", "body", "nested"}
      /\ job[b].sid \in Sessions /\ job[b].status = "running"
  BY DEF End, Fail, Cancelled, IInv, TypeOK, JobsOK, Placed, StatusFollowsTask
<1>3. r \in JobType /\ r.pc = "ended" /\ r.sid = job[b].sid /\ r.status = status
  BY <1>2 DEF JobType
<1>4. /\ Becomes(b, r)
      /\ finished' = Kept(Append(finished, b))
      /\ table' = table \ Evicted(Append(finished, b))
  BY <1>1 DEF Finish
<1>5. Unlock(b, job[b].sid) /\ UNCHANGED call
  BY DEF End, Fail, Cancelled
<1>6. "running" \in Active /\ status # "running" /\ status # "queued"
  BY DEF Active, Terminal
<1> HIDE DEF r
<1>7. /\ JobsOK' /\ job'[b] = r /\ \A x \in Jobs : x # b => job'[x] = job[x]
  BY <1>2, <1>3, <1>4, JobMove DEF IInv, TypeOK, Placed
<1>8. TablesOK' /\ RegistryInv' /\ OneActivePerSession'
  BY <1>2, <1>3, <1>4, <1>6, FinishTables
<1>9. /\ LocksOK'
      /\ owner'[job[b].sid] = IF owner[job[b].sid] = b THEN None ELSE owner[job[b].sid]
      /\ depth'[job[b].sid] = IF owner[job[b].sid] = b THEN 0 ELSE depth[job[b].sid]
      /\ \A z \in Sessions : z # job[b].sid => owner'[z] = owner[z] /\ depth'[z] = depth[z]
  BY <1>2, <1>5, UnlockLocks DEF IInv, TypeOK
<1>10. TypeOK'
  BY <1>5, <1>7, <1>8, <1>9 DEF IInv, TypeOK, CallsOK
<1>11. StatusFollowsTask'
  BY <1>3, <1>4, <1>6, <1>7 DEF IInv, StatusFollowsTask
<1>12. LockFollowsBody'
  BY <1>2, <1>3, <1>5, <1>7, <1>9, Values DEF IInv, LockFollowsBody
<1> QED BY <1>8, <1>10, <1>11, <1>12 DEF IInv

\* A queued job that is cancelled is finished by the canceller.
LEMMA CancelQueuedStep ==
    ASSUME IInv, NEW b \in Jobs, CancelQueued(b)
    PROVE  IInv'
<1> DEFINE r == [job[b] EXCEPT !.status = "cancelled", !.cancel = TRUE]
<1>1. job[b] \in JobType /\ job[b].status = "queued" /\ job[b].pc = "scheduled"
      /\ job[b].sid \in Sessions
  BY DEF CancelQueued, IInv, TypeOK, JobsOK, Placed, StatusFollowsTask
<1>2. r \in JobType /\ r.pc = "scheduled" /\ r.sid = job[b].sid
      /\ r.status = "cancelled" /\ r.cancel
  BY <1>1 DEF JobType, Terminal
<1>3. /\ Becomes(b, r)
      /\ finished' = Kept(Append(finished, b))
      /\ table' = table \ Evicted(Append(finished, b))
      /\ UNCHANGED <<call, owner, depth>>
  BY DEF CancelQueued
<1>4. "queued" \in Active /\ "cancelled" \in Terminal
  BY DEF Active, Terminal
<1> HIDE DEF r
<1>5. /\ JobsOK' /\ job'[b] = r /\ \A x \in Jobs : x # b => job'[x] = job[x]
  BY <1>1, <1>2, <1>3, JobMove DEF IInv, TypeOK, Placed
<1>6. TablesOK' /\ RegistryInv' /\ OneActivePerSession'
  BY <1>1, <1>2, <1>3, <1>4, FinishTables
<1>7. TypeOK'
  BY <1>3, <1>5, <1>6 DEF IInv, TypeOK, CallsOK, LocksOK
<1>8. StatusFollowsTask'
  BY <1>2, <1>3, <1>5 DEF IInv, StatusFollowsTask
<1>9. LockFollowsBody'
  BY <1>1, <1>2, <1>3, <1>5 DEF IInv, LockFollowsBody
<1> QED BY <1>6, <1>7, <1>8, <1>9 DEF IInv

\* Between a job and its session's lock: the lock is taken, taken again by a
\* nested screenshot, and given back once.
LEMMA LockSteps ==
    ASSUME IInv, NEW b \in Jobs, Acquire(b) \/ Nest(b) \/ Unnest(b)
    PROVE  IInv'
<1>0. /\ job[b] \in JobType /\ job[b].sid \in Sessions /\ job[b].status = "running"
      /\ b \in Jobs \cup Callers /\ b # None
  BY Values DEF Acquire, Nest, Unnest, IInv, TypeOK, JobsOK, Placed, StatusFollowsTask
<1> SUFFICES ASSUME NEW r \in JobType, Becomes(b, r), r.sid = job[b].sid,
                    r.status = "running", r.pc \in {"body", "nested"}, Placed(r),
                    UNCHANGED <<table, finished, call>>,
                    LocksOK',
                    owner'[job[b].sid] = b,
                    owner[job[b].sid] \in {None, b},
                    depth'[job[b].sid] = IF r.pc = "nested" THEN 2 ELSE 1,
                    \A z \in Sessions : z # job[b].sid =>
                      owner'[z] = owner[z] /\ depth'[z] = depth[z]
             PROVE  IInv'
  <2>1. CASE Acquire(b)
    <3> DEFINE r == [job[b] EXCEPT !.pc = "body"]
    <3>1. r \in JobType /\ r.pc = "body" /\ r.sid = job[b].sid /\ r.status = "running"
      BY <1>0 DEF JobType
    <3>2. Becomes(b, r) /\ Lock(b, job[b].sid) /\ UNCHANGED <<table, finished, call>>
      BY <2>1 DEF Acquire
    <3> HIDE DEF r
    <3>4. Placed(r)
      BY <1>0, <3>1 DEF Placed
    <3>3. /\ LocksOK'
          /\ owner[job[b].sid] = None /\ owner'[job[b].sid] = b /\ depth'[job[b].sid] = 1
          /\ \A z \in Sessions : z # job[b].sid =>
               owner'[z] = owner[z] /\ depth'[z] = depth[z]
      BY <1>0, <3>2, LockLocks DEF IInv, TypeOK
    <3> QED BY <3>1, <3>2, <3>3, <3>4
  <2>2. CASE Nest(b)
    <3> DEFINE r == [job[b] EXCEPT !.pc = "nested"]
    <3>1. r \in JobType /\ r.pc = "nested" /\ r.sid = job[b].sid /\ r.status = "running"
          /\ r.executed = job[b].executed
      BY <1>0 DEF JobType
    <3>6. Placed(r)
      BY <1>0, <2>2, <3>1 DEF Nest, Placed
    <3>2. /\ Becomes(b, r) /\ UNCHANGED <<table, finished, call, owner>>
          /\ depth' = [depth EXCEPT ![job[b].sid] = @ + 1]
          /\ job[b].pc = "body"
      BY <2>2 DEF Nest
    <3> HIDE DEF r
    <3>3. owner[job[b].sid] = b /\ depth[job[b].sid] = 1
      BY <1>0, <3>2 DEF IInv, LockFollowsBody
    <3>4. depth \in [Sessions -> Nat] /\ LocksOK
      BY DEF IInv, TypeOK, LocksOK
    <3>5. /\ LocksOK' /\ depth'[job[b].sid] = 2
          /\ \A z \in Sessions : z # job[b].sid => depth'[z] = depth[z]
      BY <1>0, <3>2, <3>3, <3>4 DEF LocksOK
    <3> QED BY <3>1, <3>2, <3>3, <3>5, <3>6
  <2>3. CASE Unnest(b)
    <3>1. PICK bad \in BOOLEAN :
            Becomes(b, [job[b] EXCEPT !.pc = "body", !.executed = @ + 1, !.bad = @ \/ bad])
      BY <2>3 DEF Unnest
    <3> DEFINE r == [job[b] EXCEPT !.pc = "body", !.executed = @ + 1, !.bad = @ \/ bad]
    <3>2. job[b].executed + 1 \in 0 .. Steps
      <4>1. job[b].executed \in 0 .. Steps
        BY <1>0 DEF JobType
      <4>2. job[b].executed < Steps
        BY <2>3 DEF Unnest, IInv, TypeOK, JobsOK, Placed
      <4> QED BY <4>1, <4>2, Values
    <3>3. r \in JobType /\ r.pc = "body" /\ r.sid = job[b].sid /\ r.status = "running"
      BY <1>0, <3>2 DEF JobType
    <3>4. /\ Becomes(b, r) /\ UNCHANGED <<table, finished, call, owner>>
          /\ depth' = [depth EXCEPT ![job[b].sid] = @ - 1]
          /\ job[b].pc = "nested"
      BY <2>3, <3>1 DEF Unnest
    <3> HIDE DEF r
    <3>8. Placed(r)
      BY <1>0, <3>3 DEF Placed
    <3>5. owner[job[b].sid] = b /\ depth[job[b].sid] = 2
      BY <1>0, <3>4 DEF IInv, LockFollowsBody
    <3>6. depth \in [Sessions -> Nat] /\ LocksOK
      BY DEF IInv, TypeOK, LocksOK
    <3>7. /\ LocksOK' /\ depth'[job[b].sid] = 1
          /\ \A z \in Sessions : z # job[b].sid => depth'[z] = depth[z]
      BY <1>0, <3>4, <3>5, <3>6 DEF LocksOK
    <3> QED BY <3>3, <3>4, <3>5, <3>7, <3>8
  <2> QED BY <2>1, <2>2, <2>3
<1>1. /\ JobsOK' /\ job'[b] = r /\ \A x \in Jobs : x # b => job'[x] = job[x]
  BY <1>0, JobMove DEF IInv, TypeOK, Placed
<1>2. TypeOK'
  BY <1>1 DEF IInv, TypeOK, CallsOK, TablesOK
<1>3. StatusFollowsTask'
  BY <1>1, Values DEF IInv, StatusFollowsTask, Active, Terminal
<1>4. LockFollowsBody'
  <2> SUFFICES ASSUME NEW s \in Sessions
               PROVE  /\ \A x \in Jobs : owner'[s] = x <=> /\ job'[x].sid = s
                                                           /\ job'[x].pc \in {"body", "nested"}
                      /\ \A c \in Callers : owner'[s] = c <=> call[c].sid = s /\ call[c].pc = "body"
                      /\ depth'[s] = IF owner'[s] = None THEN 0
                                     ELSE IF \E x \in Jobs : owner'[s] = x /\ job'[x].pc = "nested"
                                          THEN 2 ELSE 1
    BY DEF LockFollowsBody
  <2>1. CASE s = job[b].sid
    BY <1>0, <1>1, <2>1, Values DEF IInv, LockFollowsBody
  <2>2. CASE s # job[b].sid
    BY <1>0, <1>1, <2>2, Values DEF IInv, LockFollowsBody
  <2> QED BY <2>1, <2>2
<1>5. \A x \in Jobs : job'[x].status = job[x].status
                      /\ (job[x].status \in Active => job'[x].sid = job[x].sid)
  BY <1>0, <1>1
<1>6. RegistryInv'
  BY <1>5 DEF IInv, RegistryInv
<1>7. OneActivePerSession'
  BY <1>5 DEF IInv, OneActivePerSession
<1> QED BY <1>2, <1>3, <1>4, <1>6, <1>7 DEF IInv

\* The tool calls of other clients only move themselves and a lock.
LEMMA CallSteps ==
    ASSUME IInv, NEW c \in Callers,
           \/ \E s \in Sessions : CallWait(c, s)
           \/ CallAcquire(c) \/ CallEnd(c)
    PROVE  IInv'
<1>0. /\ UNCHANGED <<job, table, finished>> /\ c # None /\ c \notin Jobs
      /\ c \in Jobs \cup Callers /\ CallsOK /\ LocksOK
  BY Values DEF CallWait, CallAcquire, CallEnd, IInv, TypeOK
<1>1. CallsOK' /\ LocksOK' /\ LockFollowsBody'
  <2>1. ASSUME NEW s \in Sessions, CallWait(c, s) PROVE CallsOK' /\ LocksOK' /\ LockFollowsBody'
    BY <1>0, <2>1 DEF CallWait, CallsOK, LocksOK, IInv, LockFollowsBody
  <2>2. CASE CallAcquire(c)
    <3>1. CallsOK' /\ call[c].sid \in Sessions /\ call'[c].sid = call[c].sid
          /\ call'[c].pc = "body" /\ \A d \in Callers : d # c => call'[d] = call[d]
      BY <1>0, <2>2 DEF CallAcquire, CallsOK
    <3>2. /\ LocksOK'
          /\ owner[call[c].sid] = None /\ owner'[call[c].sid] = c /\ depth'[call[c].sid] = 1
          /\ \A z \in Sessions : z # call[c].sid =>
               owner'[z] = owner[z] /\ depth'[z] = depth[z]
      BY <1>0, <2>2, <3>1, LockLocks DEF CallAcquire
    <3> QED BY <1>0, <3>1, <3>2, <2>2, Values DEF IInv, LockFollowsBody, CallAcquire
  <2>3. CASE CallEnd(c)
    <3>1. CallsOK' /\ call[c].sid \in Sessions /\ call'[c].pc = "done"
          /\ \A d \in Callers : d # c => call'[d] = call[d]
      BY <1>0, <2>3 DEF CallEnd, CallsOK
    <3>2. /\ LocksOK'
          /\ owner'[call[c].sid] = IF owner[call[c].sid] = c THEN None ELSE owner[call[c].sid]
          /\ depth'[call[c].sid] = IF owner[call[c].sid] = c THEN 0 ELSE depth[call[c].sid]
          /\ \A z \in Sessions : z # call[c].sid =>
               owner'[z] = owner[z] /\ depth'[z] = depth[z]
      BY <1>0, <2>3, <3>1, UnlockLocks DEF CallEnd
    <3> QED BY <1>0, <3>1, <3>2, Values DEF IInv, LockFollowsBody
  <2> QED BY <2>1, <2>2, <2>3
<1>2. TypeOK' /\ StatusFollowsTask' /\ RegistryInv' /\ OneActivePerSession'
  BY <1>0, <1>1 DEF IInv, TypeOK, JobsOK, TablesOK, StatusFollowsTask,
                    RegistryInv, OneActivePerSession
<1> QED BY <1>1, <1>2 DEF IInv

\* Every step keeps the invariant.
LEMMA NextInv == IInv /\ [Next]_vars => IInv'
<1> SUFFICES ASSUME IInv, [Next]_vars PROVE IInv'
  OBVIOUS
<1>1. ASSUME NEW b \in Jobs,
             \/ \E s \in Sessions : Request(b, s)
             \/ Refuse(b) \/ Submit(b) \/ TaskStep(b)
             \/ CancelSwallowed(b) \/ CancelQueued(b) \/ CancelRunning(b)
      PROVE  IInv'
  BY <1>1, QuietSteps, SubmitStep, EndSteps, CancelQueuedStep, LockSteps DEF TaskStep
<1>2. ASSUME NEW c \in Callers,
             \/ \E s \in Sessions : CallWait(c, s)
             \/ CallAcquire(c) \/ CallEnd(c)
      PROVE  IInv'
  BY <1>2, CallSteps
<1>3. CASE UNCHANGED vars
  BY <1>3 DEF vars, IInv, TypeOK, JobsOK, CallsOK, TablesOK, LocksOK,
              StatusFollowsTask, LockFollowsBody, RegistryInv, OneActivePerSession
<1> QED BY <1>1, <1>2, <1>3 DEF Next

-----------------------------------------------------------------------------
(* The theorems *)

\* The registry, the tasks and the locks satisfy the inductive invariant.
THEOREM BatchCorrect == Spec => []IInv
BY InitInv, NextInv, PTL DEF Spec

\* Types: no lock is released more often than it was taken, and no batch
\* counts more steps than its list has.
THEOREM BatchTypes == Spec => []TypeOK
<1>1. IInv => TypeOK
  BY DEF IInv
<1> QED BY <1>1, BatchCorrect, PTL

\* At most one background job of a session is queued or running, however the
\* submissions, cancels and ends interleave.
THEOREM OneActive == Spec => []OneActivePerSession
<1>1. IInv => OneActivePerSession
  BY DEF IInv
<1> QED BY <1>1, BatchCorrect, PTL

\* The registry's tables agree: active jobs are never evicted, the retained
\* finished ones are listed once each and fit the window.
THEOREM RegistryCorrect == Spec => []RegistryInv
<1>1. IInv => RegistryInv
  BY DEF IInv
<1> QED BY <1>1, BatchCorrect, PTL

\* A session's lock is held exactly by the body that runs on the session, as
\* often as it was taken: a job that has ended holds nothing.
THEOREM LockCorrect == Spec => []LockFollowsBody
<1>1. IInv => LockFollowsBody
  BY DEF IInv
<1> QED BY <1>1, BatchCorrect, PTL

\* A terminal job never changes again in what a poller sees of it.
THEOREM ResultsAreFinal == Spec => TerminalIsFinal
<1>1. IInv /\ [Next]_vars =>
        \A b \in Jobs : job[b].status \in Terminal =>
          /\ job'[b].status = job[b].status
          /\ job'[b].executed = job[b].executed
  <2> SUFFICES ASSUME IInv, [Next]_vars, NEW b \in Jobs, job[b].status \in Terminal
               PROVE  /\ job'[b].status = job[b].status
                      /\ job'[b].executed = job[b].executed
    OBVIOUS
  <2>1. /\ job \in [Jobs -> JobType]
        /\ job[b].status \notin Active
        /\ job[b].pc \notin {"waiting", "body", "nested", "validating", "new"}
        /\ job[b].pc = "scheduled" => job[b].cancel
    BY Values DEF IInv, TypeOK, JobsOK, StatusFollowsTask, Active, Terminal
  <2>2. ASSUME NEW x \in Jobs, NEW r, Becomes(x, r),
               x = b => r.status = job[b].status /\ r.executed = job[b].executed
        PROVE  /\ job'[b].status = job[b].status
               /\ job'[b].executed = job[b].executed
    BY <2>1, <2>2 DEF Becomes
  <2>3. ASSUME NEW x \in Jobs, x # b, NEW r, Becomes(x, r)
        PROVE  job'[b] = job[b]
    BY <2>1, <2>3 DEF Becomes
  <2>4. ASSUME NEW x \in Jobs, Start(x) \/ Acquire(x) \/ Step(x) \/ Nest(x) \/ Unnest(x)
                               \/ Submit(x) \/ Refuse(x)
        PROVE  job'[b] = job[b]
    <3>1. x # b
      BY <2>1, <2>4 DEF Start, Acquire, Step, Nest, Unnest, Submit, Refuse
    <3> QED BY <2>3, <2>4, <3>1 DEF Start, Acquire, Step, Nest, Unnest, Submit, Refuse
  <2>5. ASSUME NEW x \in Jobs, NEW s \in Sessions, Request(x, s)
        PROVE  job'[b] = job[b]
    <3>1. x # b
      BY <2>1, <2>5 DEF Request
    <3> QED BY <2>3, <2>5, <3>1 DEF Request
  <2>6. ASSUME NEW x \in Jobs, End(x) \/ Fail(x) \/ Cancelled(x)
        PROVE  job'[b] = job[b]
    <3>1. x # b
      BY <2>1, <2>6 DEF End, Fail, Cancelled
    <3> QED BY <2>3, <2>6, <3>1 DEF End, Fail, Cancelled, Finish
  <2>7. ASSUME NEW x \in Jobs, CancelQueued(x)
        PROVE  job'[b] = job[b]
    <3>1. x # b
      BY <2>1, <2>7 DEF CancelQueued, Active
    <3> QED BY <2>3, <2>7, <3>1 DEF CancelQueued
  <2>8. ASSUME NEW x \in Jobs, CancelSwallowed(x) \/ CancelRunning(x)
        PROVE  job'[b] = job[b]
    <3>1. x # b
      BY <2>1, <2>8 DEF CancelSwallowed, CancelRunning, Active
    <3> QED BY <2>3, <2>8, <3>1 DEF CancelSwallowed, CancelRunning
  <2>9. ASSUME NEW x \in Jobs, NeverStarts(x)
         PROVE  /\ job'[b].status = job[b].status
                /\ job'[b].executed = job[b].executed
    <3> DEFINE r == [job[x] EXCEPT !.pc = "ended", !.cancel = FALSE]
    <3>1. Becomes(x, r)
      BY <2>9 DEF NeverStarts
    <3>2. job[x] \in JobType
      BY DEF IInv, TypeOK, JobsOK
    <3>3. r.status = job[x].status /\ r.executed = job[x].executed
      BY <3>2 DEF JobType
    <3> HIDE DEF r
    <3> QED BY <2>2, <3>1, <3>3
  <2>10. ASSUME NEW c \in Callers,
               \/ \E s \in Sessions : CallWait(c, s)
               \/ CallAcquire(c) \/ CallEnd(c)
        PROVE  job' = job
    BY <2>10 DEF CallWait, CallAcquire, CallEnd
  <2>11. CASE UNCHANGED vars
    BY <2>11 DEF vars
  <2> QED BY <2>4, <2>5, <2>6, <2>7, <2>8, <2>9, <2>10, <2>11 DEF Next, TaskStep
<1> QED BY <1>1, BatchCorrect, PTL DEF Spec, TerminalIsFinal
=============================================================================
