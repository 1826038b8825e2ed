---------------------------- MODULE ScriptTools -----------------------------
(***************************************************************************)
(* The diagnostic scripts: their manifest (spec/script_manifest.py), the    *)
(* cache of their modules and the tools that list, run and reload them      *)
(* (tools/script.py), the tools made of the exposed ones and the life of    *)
(* the server (registry.py, server.py).                                     *)
(*                                                                         *)
(* A version of a script stands for its code and its Input model; no edit   *)
(* brings an earlier one back.                                              *)
(***************************************************************************)
EXTENDS Integers, FiniteSets

CONSTANTS
    Scripts,        \* script names
    Reloaders,      \* concurrent ppsspp_reload_scripts calls; "start" is the lifespan's
    MaxManifests,   \* bound: edits of the manifest
    MaxVersions     \* bound: versions of a script

ASSUME ScriptAssumption ==
    /\ MaxManifests \in Nat /\ MaxVersions \in Nat \ {0}
    /\ "start" \in Reloaders

Syncs == Reloaders

\* An entry of the manifest: exposed, or not, as one of a skeleton never is.
Kinds == {"exposed", "listed", "none"}

VARIABLES
    yaml_,      \* the file: [text (Scripts -> Kinds, or "malformed"), edits]
    code,       \* script -> [ver, ok, look]: the file; ok: whether it imports; look: its
                \* size and whole-second mtime, by the first version that had them
    pyc,        \* script -> [ver, ok, look]: __pycache__, as of the file it was made from
    entries,    \* script -> kind: what was loaded; "unread" before that
    cache,      \* _module_cache: script -> [stamp, ver], 0 for none
    registry,   \* _exposed_registry
    tools,      \* the SDK's tools: script -> version of its Input model, 0 for none
    sync,       \* reloader -> its reconciliation (NoSync)
    running,    \* one call of run_script: [pc, name, stamp, ver, res]
    server      \* "starting", "serving", "stopping", "stopped"

scriptVars == <<yaml_, code, pyc, entries, cache, registry, tools, sync, running, server>>

NoModule == [stamp |-> 0, ver |-> 0]
NoCode == [ver |-> 0, ok |-> FALSE, look |-> 0]
NoSync == [pc |-> "idle", desired |-> {}, current |-> {}, todo |-> {}, name |-> "none",
           ver |-> 0, failed |-> {}, added |-> {}, alone |-> TRUE, res |-> "none"]
NoRun == [pc |-> "idle", name |-> "none", stamp |-> 0, ver |-> 0, res |-> "none"]

ScriptInit ==
    /\ yaml_ \in [text : {[n \in Scripts |-> "exposed"], [n \in Scripts |-> "listed"]}
                         \cup {[n \in Scripts |-> "malformed"]}, edits : {0}]
    /\ code = [n \in Scripts |-> [ver |-> 1, ok |-> TRUE, look |-> 1]]
    /\ pyc = [n \in Scripts |-> NoCode]
    /\ entries = [n \in Scripts |-> "unread"]
    /\ cache = [n \in Scripts |-> NoModule]
    /\ registry = {}
    /\ tools = [n \in Scripts |-> 0]
    /\ sync = [r \in Syncs |-> NoSync]
    /\ running = NoRun
    /\ server = "starting"

Malformed == \E n \in Scripts : yaml_.text[n] = "malformed"
SyncAt(r, pc) == sync[r].pc = pc
SetSync(r, s) == sync' = [sync EXCEPT ![r] = s]

-----------------------------------------------------------------------------
(* The user's editor. *)

EditManifest ==
    /\ yaml_.edits < MaxManifests
    /\ \E text \in [Scripts -> Kinds] \cup {[n \in Scripts |-> "malformed"]} :
         yaml_' = [text |-> text, edits |-> yaml_.edits + 1]
    /\ UNCHANGED <<code, pyc, entries, cache, registry, tools, sync, running, server>>

\* An edit within the same second may also keep the size.
EditScript ==
    /\ \E n \in Scripts, ok, alike \in BOOLEAN :
         /\ code[n].ver < MaxVersions
         /\ code' = [code EXCEPT ![n] = [ver |-> @.ver + 1, ok |-> ok,
                                         look |-> IF alike THEN @.look ELSE @.ver + 1]]
    /\ UNCHANGED <<yaml_, pyc, entries, cache, registry, tools, sync, running, server>>

-----------------------------------------------------------------------------
(* sync_exposed_tools.  It gives way only while a script is imported.       *)

\* Mutant: what is registered and not desired any more is not looked for.
SnapshotAdds(kinds) ==
    LET desired == {n \in Scripts : kinds[n] = "exposed"} IN
    [NoSync EXCEPT !.pc = "next", !.desired = desired, !.todo = desired \ registry,
                   !.alone = \A r \in Syncs : sync[r].pc = "idle"]

\* The desired and the current tools, taken together.
Snapshot(kinds) ==
    LET desired == {n \in Scripts : kinds[n] = "exposed"} IN
    [NoSync EXCEPT !.pc = "next", !.desired = desired, !.current = registry,
                   !.todo = desired \ registry,
                   !.alone = \A r \in Syncs : sync[r].pc = "idle"]

\* Whoever reconciles at the time is not alone any more.
Begin(r, s) ==
    sync' = [q \in Syncs |-> IF q = r THEN s ELSE [sync[q] EXCEPT !.alone = FALSE]]

\* The lifespan: a manifest that cannot be loaded leaves the static tools.
Lifespan ==
    /\ server = "starting" /\ SyncAt("start", "idle")
    /\ server' = "serving"
    /\ IF Malformed THEN UNCHANGED <<entries, sync>>
       ELSE entries' = yaml_.text /\ Begin("start", Snapshot(yaml_.text))
    /\ UNCHANGED <<yaml_, code, pyc, cache, registry, tools, running>>

\* reload_scripts: the modules are forgotten first, without their lock; a
\* malformed manifest keeps the entries of the last good one.
Reload(r) ==
    /\ server = "serving" /\ r # "start" /\ SyncAt(r, "idle")
    /\ cache' = [n \in Scripts |-> NoModule]
    /\ IF Malformed THEN SetSync(r, [NoSync EXCEPT !.res = "MANIFEST_ERROR"]) /\ UNCHANGED entries
       ELSE entries' = yaml_.text /\ Begin(r, Snapshot(yaml_.text))
    /\ UNCHANGED <<yaml_, code, pyc, registry, tools, running, server>>

\* SourceFileLoader: bytecode whose recorded size and mtime are the file's is run
\* in place of the file.
Found(n) == IF pyc[n].look = code[n].look THEN pyc[n] ELSE code[n]

\* exec_module: what was compiled is written back, if the directory allows it and
\* the file parses; the module is cached under the stamp if it imports.
ExecModule(n, stamp) ==
    /\ pyc' = pyc \/ pyc' = [pyc EXCEPT ![n] = Found(n)]
    /\ cache' = IF Found(n).ok THEN [cache EXCEPT ![n] = [stamp |-> stamp, ver |-> Found(n).ver]]
                ELSE cache

\* _register_exposed_entry: the check of the contract imports the script.
Preflight(r) ==
    /\ SyncAt(r, "next")
    /\ \E n \in sync[r].todo :
         SetSync(r, IF n \in registry THEN [sync[r] EXCEPT !.todo = @ \ {n}, !.added = @ \cup {n}]
                    ELSE [sync[r] EXCEPT !.todo = @ \ {n}, !.name = n, !.pc = "import"])
    /\ UNCHANGED <<yaml_, code, pyc, entries, cache, registry, tools, running, server>>

ImportForTool(r) ==
    LET n == sync[r].name
        known == cache[n].stamp = code[n].ver
        ver == IF known THEN cache[n].ver ELSE Found(n).ver IN
    /\ SyncAt(r, "import")
    /\ IF known THEN UNCHANGED <<cache, pyc>> ELSE ExecModule(n, code[n].ver)
    /\ SetSync(r, IF known \/ Found(n).ok THEN [sync[r] EXCEPT !.ver = ver, !.pc = "add"]
                  ELSE [sync[r] EXCEPT !.failed = @ \cup {n}, !.pc = "next"])
    /\ UNCHANGED <<yaml_, code, entries, registry, tools, running, server>>

\* Back from the thread: a concurrent registration of the name wins.
AddTool(r) ==
    LET n == sync[r].name IN
    /\ SyncAt(r, "add")
    /\ registry' = registry \cup {n}
    /\ tools' = IF n \in registry THEN tools ELSE [tools EXCEPT ![n] = sync[r].ver]
    /\ SetSync(r, [sync[r] EXCEPT !.added = @ \cup {n}, !.pc = "next"])
    /\ UNCHANGED <<yaml_, code, pyc, entries, cache, running, server>>

\* The wrapper's model or the SDK refuses the tool.
AddToolFails(r) ==
    LET n == sync[r].name IN
    /\ SyncAt(r, "add") /\ n \notin registry
    /\ SetSync(r, [sync[r] EXCEPT !.failed = @ \cup {n}, !.pc = "next"])
    /\ UNCHANGED <<yaml_, code, pyc, entries, cache, registry, tools, running, server>>

\* _unregister_exposed_tool: both go in one critical section.
Unregister(r) ==
    LET gone == sync[r].current \ sync[r].desired IN
    /\ SyncAt(r, "next") /\ sync[r].todo = {}
    /\ registry' = registry \ gone
    /\ tools' = [n \in Scripts |-> IF n \in gone /\ n \in registry THEN 0 ELSE tools[n]]
    /\ SetSync(r, [sync[r] EXCEPT !.pc = "idle", !.res = "ok"])
    /\ UNCHANGED <<yaml_, code, pyc, entries, cache, running, server>>

\* The client of a reload gives up; what was done stays done.
ReloadCancelled(r) ==
    /\ ~SyncAt(r, "idle") /\ r # "start"
    /\ SetSync(r, [NoSync EXCEPT !.res = "cancelled"])
    /\ UNCHANGED <<yaml_, code, pyc, entries, cache, registry, tools, running, server>>

-----------------------------------------------------------------------------
(* run_script. *)

\* ensure_loaded: the first call that needs the manifest, and can, reads it.
Loaded ==
    IF ~Malformed /\ \E n \in Scripts : entries[n] = "unread" THEN yaml_.text ELSE entries

RunScript(n) ==
    /\ server = "serving" /\ running.pc = "idle"
    /\ entries' = Loaded
    /\ running' = CASE Loaded[n] = "unread" -> [NoRun EXCEPT !.res = "MANIFEST_ERROR"]
                    [] Loaded[n] = "none" -> [NoRun EXCEPT !.res = "SCRIPT_NOT_FOUND"]
                    [] OTHER -> [NoRun EXCEPT !.pc = "load", !.name = n]
    /\ UNCHANGED <<yaml_, code, pyc, cache, registry, tools, sync, server>>

\* A listing shows which of the exposed scripts are tools.
ListScripts ==
    /\ server = "serving"
    /\ entries' = Loaded
    /\ UNCHANGED <<yaml_, code, pyc, cache, registry, tools, sync, running, server>>

\* The wrapper of an exposed script runs the script of its name.
RunTool(n) == tools[n] # 0 /\ RunScript(n)

\* _load_script_module: the file is read for its stamp ...
Load ==
    LET n == running.name IN
    /\ running.pc = "load"
    /\ running' = IF cache[n].stamp = code[n].ver
                  THEN [running EXCEPT !.pc = "body", !.stamp = code[n].ver, !.ver = cache[n].ver]
                  ELSE [running EXCEPT !.pc = "exec", !.stamp = code[n].ver]
    /\ UNCHANGED <<yaml_, code, pyc, entries, cache, registry, tools, sync, server>>

\* ... and again to be executed, unless its bytecode will do.
Exec ==
    LET n == running.name IN
    /\ running.pc = "exec"
    /\ ExecModule(n, running.stamp)
    /\ running' = IF Found(n).ok THEN [running EXCEPT !.pc = "body", !.ver = Found(n).ver]
                  ELSE [NoRun EXCEPT !.res = "SCRIPT_CONTRACT_ERROR"]
    /\ UNCHANGED <<yaml_, code, entries, registry, tools, sync, server>>

\* The input, the session and the output are checked, whoever calls.
Body ==
    /\ running.pc = "body"
    /\ \E res \in {"ok", "SCRIPT_CONTRACT_ERROR", "SESSION_NOT_FOUND", "cancelled"} :
         running' = [NoRun EXCEPT !.res = res]
    /\ UNCHANGED <<yaml_, code, pyc, entries, cache, registry, tools, sync, server>>

-----------------------------------------------------------------------------
\* _shutdown_sessions tries every session once, for five seconds.
Shutdown ==
    /\ server = "serving" /\ running.pc = "idle" /\ \A r \in Syncs : SyncAt(r, "idle")
    /\ server' = "stopped"
    /\ UNCHANGED <<yaml_, code, pyc, entries, cache, registry, tools, sync, running>>

ScriptNext ==
    \/ EditManifest \/ EditScript \/ Lifespan \/ ListScripts \/ Load \/ Exec \/ Body \/ Shutdown
    \/ \E r \in Syncs : \/ Reload(r) \/ Preflight(r) \/ ImportForTool(r) \/ AddTool(r)
                        \/ AddToolFails(r) \/ Unregister(r) \/ ReloadCancelled(r)
    \/ \E n \in Scripts : RunScript(n) \/ RunTool(n)

ScriptSpec == ScriptInit /\ [][ScriptNext]_scriptVars

-----------------------------------------------------------------------------
(* Properties. *)

(* The bookkeeping of exposed tools and the SDK's own agree at every moment, *)
(* also between the steps of concurrent reloads: restart_required reports a *)
(* divergence that only a restart can mend.                                 *)
BookMatchesTools == registry = {n \in Scripts : tools[n] # 0}

(* A reload that no other overlapped leaves exactly the exposed, migrated    *)
(* scripts whose contract holds as tools.                                   *)
LoneSyncReconciles ==
    [][\A r \in Syncs : sync[r].pc = "next" /\ sync'[r].res = "ok" /\ sync[r].alone
         => registry' = sync[r].desired \ sync[r].failed]_scriptVars

(* A call runs no code older than the last edit that changed the size or the *)
(* whole-second mtime of the file, without a reload and also when the file   *)
(* is edited between its stamp and its execution.                            *)
RunsEdited == [][running.pc \in {"load", "exec"} /\ running'.pc = "body"
                   => running'.ver >= code[running.name].look /\ running'.stamp # 0]_scriptVars

(* `An edited script whose mtime/size did not change (or a same-second write) *)
(* still reloads on the next call' (tools/script.py:126-127): a call runs no  *)
(* code older than the content its stamp was taken of.                       *)
StampIsRun == running.pc = "body" => running.ver >= running.stamp

(* A manifest that cannot be parsed takes no script away.                    *)
FailedReloadKeeps ==
    [][\A r \in Syncs :
         /\ sync[r].pc = "idle" /\ sync[r].res # "MANIFEST_ERROR"
         /\ sync'[r].res = "MANIFEST_ERROR"
         => entries' = entries]_scriptVars

(* `manifest edits no longer require a server restart to reach the dynamic   *)
(* tool registry': after a lone reload a tool has the Input model its script *)
(* had when the reload began.                                               *)
ToolsFollowScripts ==
    [][\A r \in Syncs, n \in Scripts :
         /\ sync[r].pc = "next" /\ sync'[r].res = "ok" /\ sync[r].alone
         /\ sync[r].todo = {} /\ n \in sync[r].desired \ sync[r].failed
         /\ code[n].ok
         => tools'[n] = code[n].ver]_scriptVars

(* Through overlapping and cancelled runs of sync_exposed_tools, the tools   *)
(* follow the manifest and each call runs the script as it was edited, where  *)
(* the edit changed the file's size or mtime.                                *)
ScriptsFollow ==
    LoneSyncReconciles /\ RunsEdited /\ FailedReloadKeeps /\ []BookMatchesTools
=============================================================================
