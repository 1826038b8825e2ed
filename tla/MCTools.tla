------------------------------ MODULE MCTools ------------------------------
(***************************************************************************)
(* Instances small enough for TLC of the parts of the server that share no *)
(* state with each other.  A behaviour is one of the part it starts as;    *)
(* the others stay in one of their initial states.                         *)
(***************************************************************************)
EXTENDS WriteGuard, MemoryScan, SideTables, BreakpointTable, SearchTools, QueryTools,
        CallDiagnosis, Playback, BatchSteps, Capture, Launcher, ScriptTools, FrontDoor

CONSTANT Parts      \* the parts a run checks

VARIABLE part

partVars == <<guardVars, scanVars, tableVars, editVars, searchVars,
              queryVars, diagVars, playVars, stepVars, captureVars,
              launchVars, scriptVars, frontVars>>
allVars == <<part, partVars>>

AnyOf(S) == CHOOSE x \in S : TRUE

MCInit ==
    /\ part \in Parts
    /\ GuardInit
    /\ part # "guard" => image = AnyOf(Images)
    /\ ScanInit
    /\ part # "scan" =>
        /\ mem = AnyOf([1 .. MemTop -> ByteValues])
        /\ hole = 0 /\ scan.job = AnyOf(ScanJobs)
    /\ TablesInit
    /\ EditInit
    /\ SearchInit
    /\ part # "search" => hitsIn = {}
    /\ QueryInit
    /\ part # "query" => stepping
    /\ DiagInit
    /\ part # "diagnosis" => emu.game = "none" /\ emu.stepping /\ observer = "none"
    /\ PlaybackInit
    /\ StepsInit
    /\ part # "steps" => recording /\ cpuBy = "nobody"
    /\ CaptureInit
    /\ part # "capture" => platform = AnyOf(Platforms) /\ \A s \in Windows : screen[s].halted
    /\ LauncherInit
    /\ part # "launcher" => site = AnyOf(Sites) /\ \A d \in Dirs : lists[d] = "absent"
    /\ ScriptInit
    /\ part # "scripts" => Malformed
    /\ FrontInit
    /\ part # "front" => rate = AnyOf(Rates) /\ offered = {}

\* A step of one part alone.
MCNext ==
    \/ /\ part = "guard" /\ GuardNext
       /\ UNCHANGED <<part, scanVars, tableVars, editVars, searchVars, queryVars, diagVars,
                      playVars, stepVars, captureVars, launchVars, scriptVars, frontVars>>
    \/ /\ part = "scan" /\ ScanNext
       /\ UNCHANGED <<part, guardVars, tableVars, editVars, searchVars, queryVars, diagVars,
                      playVars, stepVars, captureVars, launchVars, scriptVars, frontVars>>
    \/ /\ part = "tables" /\ TablesNext
       /\ UNCHANGED <<part, guardVars, scanVars, editVars, searchVars, queryVars, diagVars,
                      playVars, stepVars, captureVars, launchVars, scriptVars, frontVars>>
    \/ /\ part = "breakpoints" /\ EditNext
       /\ UNCHANGED <<part, guardVars, scanVars, tableVars, searchVars, queryVars, diagVars,
                      playVars, stepVars, captureVars, launchVars, scriptVars, frontVars>>
    \/ /\ part = "search" /\ SearchNext
       /\ UNCHANGED <<part, guardVars, scanVars, tableVars, editVars, queryVars, diagVars,
                      playVars, stepVars, captureVars, launchVars, scriptVars, frontVars>>
    \/ /\ part = "query" /\ QueryNext
       /\ UNCHANGED <<part, guardVars, scanVars, tableVars, editVars, searchVars, diagVars,
                      playVars, stepVars, captureVars, launchVars, scriptVars, frontVars>>
    \/ /\ part = "diagnosis" /\ DiagNext
       /\ UNCHANGED <<part, guardVars, scanVars, tableVars, editVars, searchVars, queryVars,
                      playVars, stepVars, captureVars, launchVars, scriptVars, frontVars>>
    \/ /\ part = "playback" /\ PlaybackNext
       /\ UNCHANGED <<part, guardVars, scanVars, tableVars, editVars, searchVars, queryVars,
                      diagVars, stepVars, captureVars, launchVars, scriptVars, frontVars>>
    \/ /\ part = "steps" /\ StepsNext
       /\ UNCHANGED <<part, guardVars, scanVars, tableVars, editVars, searchVars, queryVars,
                      diagVars, playVars, captureVars, launchVars, scriptVars, frontVars>>
    \/ /\ part = "capture" /\ CaptureNext
       /\ UNCHANGED <<part, guardVars, scanVars, tableVars, editVars, searchVars, queryVars,
                      diagVars, playVars, stepVars, launchVars, scriptVars, frontVars>>
    \/ /\ part = "launcher" /\ LauncherNext
       /\ UNCHANGED <<part, guardVars, scanVars, tableVars, editVars, searchVars, queryVars,
                      diagVars, playVars, stepVars, captureVars, scriptVars, frontVars>>
    \/ /\ part = "scripts" /\ ScriptNext
       /\ UNCHANGED <<part, guardVars, scanVars, tableVars, editVars, searchVars, queryVars,
                      diagVars, playVars, stepVars, captureVars, launchVars, frontVars>>
    \/ /\ part = "front" /\ FrontNext
       /\ UNCHANGED <<part, guardVars, scanVars, tableVars, editVars, searchVars, queryVars,
                      diagVars, playVars, stepVars, captureVars, launchVars, scriptVars>>

MCSpec == MCInit /\ [][MCNext]_allVars

-----------------------------------------------------------------------------
(* Values of the constants. *)

Job(kind, pat, lo, hi, chunk, max, width, from, bg) ==
    [kind |-> kind, pat |-> pat, lo |-> lo, hi |-> hi, chunk |-> chunk, max |-> max,
     width |-> width, from |-> from, bg |-> bg]

MCScanJobs ==
    \* patterns across chunk borders
    {Job("pattern", p, 1, 6, c, m, 1, {}, FALSE) :
        p \in {<<1>>, <<0, 1>>, <<1, 1>>, <<1, 0, 1>>}, c \in {1, 2}, m \in {1, 9}}
    \cup {Job("value", <<1>>, 1, 6, 2, m, w, {}, TRUE) : m \in {2, 9}, w \in {1, 2}}
    \cup {Job("strings", <<1>>, 1, 6, 2, 1, w, {}, FALSE) : w \in {1, 2}}
    \* narrows of every earlier finding
    \cup {Job("narrow", <<1>>, 1, 6, 2, 9, w, f, FALSE) : w \in {1, 2}, f \in SUBSET (1 .. 4)}
    \cup {Job("watch", <<1>>, 1, 3, 1, 9, 1, {}, FALSE), Job("narrow", <<1>>, 1, 6, 2, 9, 1, {1}, TRUE)}
    \cup {Job(k, <<1>>, 1, h, 1, m, 1, {}, FALSE) :
              k \in {"bytes", "string", "disasm"}, h \in {3, 6}, m \in {0, 3}}

\* Kernel [0, 4), scratchpad [1, 2), game code from 8, declared data [13, 14).
Module(lo, size, top) == [lo |-> lo, size |-> size, top |-> top]
MCImages == {{Module(8, 5, TRUE)},
             {Module(8, 3, FALSE), Module(5, 2, TRUE)},
             {Module(5, 2, FALSE), Module(8, 0, TRUE)},
             {}}
MCPlain == {Span(1, 1)}
MCDeclared == {Span(13, 1)}
MCWrites == [tool : {"write_memory"}, lo : 0 .. 16, bytes : 0 .. 2, force : BOOLEAN]
            \cup [tool : {"assemble"}, lo : 0 .. 16, bytes : {0, 2, 4, 6}, force : BOOLEAN]

MCLogLines == SUBSET {"severity", "filter"}

PlanStep(type, size, bad) == [type |-> type, size |-> size, bad |-> bad]
MCStepPlans == {
    <<>>,
    <<PlanStep("press", 2, TRUE)>>,
    <<PlanStep("wait", 9, FALSE)>>,
    <<PlanStep("press", 2, FALSE), PlanStep("wait", 1, FALSE), PlanStep("screenshot", 0, FALSE)>>,
    <<PlanStep("cpu_step", 2, FALSE), PlanStep("press", 1, FALSE), PlanStep("state_probe", 1, FALSE)>>}

\* Hosts: the tools that tell who listens, and what the environment asks.
MCSite(listers, rooted, honours, wild, allowed, quarantine) ==
    [tools |-> listers, rooted |-> rooted, honours |-> honours, wild |-> wild,
     allowed |-> allowed, quarantine |-> quarantine]
MCSites == {
    MCSite({"lsof", "ss"}, TRUE, TRUE, FALSE, FALSE, FALSE),
    MCSite({"lsof"}, FALSE, TRUE, TRUE, FALSE, TRUE),
    MCSite({"ss"}, TRUE, FALSE, TRUE, FALSE, FALSE),
    MCSite({"ss"}, FALSE, TRUE, TRUE, FALSE, FALSE),
    MCSite({}, FALSE, FALSE, TRUE, TRUE, TRUE),
    MCSite({"lsof"}, FALSE, TRUE, TRUE, TRUE, FALSE)}
=============================================================================
