------------------------------ MODULE Launcher ------------------------------
(***************************************************************************)
(* One start of a PPSSPP: core/launcher.py (the port it is asked to use, the *)
(* file that asks for it, the wait for it to listen, the checks on who     *)
(* listens there and for whom), the boot gate and the heal between         *)
(* attempts of session/safe_boot.py, and the environment variables of      *)
(* config.py that steer them.                                              *)
(*                                                                         *)
(* Cancellation of a start is in SessionLifecycle.                         *)
(***************************************************************************)
EXTENDS Integers, FiniteSets

CONSTANTS
    Sites,          \* the hosts, each with its tools and its environment
    Ports,          \* ports of this host that a debugger may listen on
    ConfigPort,     \* config.ws_port()
    Attempts,       \* max_restarts + 1
    PortPolls,      \* polls that fit a half of wait_seconds
    GatePolls,      \* polls that fit ready_timeout_s
    MaxOthers,      \* bound: ports other programs take
    MaxKept         \* bound: files the file system keeps

ASSUME LauncherAssumption ==
    /\ {Attempts, PortPolls, GatePolls} \subseteq Nat \ {0}
    /\ {MaxOthers, MaxKept} \subseteq Nat
    /\ \A s \in Sites : /\ s.tools \subseteq {"lsof", "ss"}
                        /\ {s.rooted, s.honours, s.wild, s.allowed, s.quarantine} \subseteq BOOLEAN
    /\ Ports \subseteq Nat \ {0} /\ ConfigPort \in Ports

NoPort == 0

\* Where PPSSPP keeps the graphics backends that failed it.
Dirs == {"exe", "home"}

VARIABLES
    site,       \* the host: [tools, rooted, honours, wild, allowed, quarantine]
    owner,      \* port -> who listens: "free", "emu", "other", or "twin", a
                \* process whose pid begins with the digits of the emulator's
    emulator,   \* the emulator: "none", "booting", "up", "ready", "wedged"
    lists,      \* FailedGraphicsBackends.txt: "absent", "failures", "IGNORE"
    backups,    \* a quarantined list is on disk
    inis,       \* appended configurations on disk
    kept,       \* those whose write or removal the file system refused
    lnch,       \* the launcher: [proc, port, ini]
    boot        \* the start: [pc, attempt, polls, found, sure, blind, res]

launchVars == <<site, owner, emulator, lists, backups, inis, kept, lnch, boot>>

NoBoot == [pc |-> "idle", attempt |-> 0, polls |-> 0, found |-> NoPort,
           sure |-> FALSE, blind |-> FALSE, res |-> "none"]
NoLauncher == [proc |-> FALSE, port |-> NoPort, ini |-> FALSE]

\* The environment is read at every start; here it stays what it is.
LauncherInit ==
    /\ site \in Sites
    /\ owner = [p \in Ports |-> "free"]
    /\ emulator = "none"
    /\ lists \in [Dirs -> {"absent", "failures", "IGNORE"}]
    /\ backups = FALSE
    /\ inis = 0 /\ kept = 0
    /\ lnch = NoLauncher
    /\ boot = NoBoot

In(pc) == boot.pc = pc
Goto(pc) == boot' = [boot EXCEPT !.pc = pc]

-----------------------------------------------------------------------------
(* What the host's tools say of ports.  A tool may be missing, and one that   *)
(* is there may at any call run out of its five seconds: `answers' are those *)
(* that printed something.  ss names the owners of sockets to root only.    *)

Listening(p) == p # NoPort /\ owner[p] # "free"
OwnPorts == {p \in Ports : owner[p] = "emu"}
\* _parse_ss_or_netstat_posix looks for `pid=` and the digits, wherever they end.
NamedPorts == {p \in Ports : owner[p] \in {"emu", "twin"}}

SsNames(answers) == "ss" \in answers /\ site.rooted

\* _port_owned_by_pid: ss is asked only where there is no lsof.
OwnedBy(p, answers) ==
    IF "lsof" \in site.tools
    THEN (IF "lsof" \notin answers THEN "unknown" ELSE IF p \in OwnPorts THEN "yes" ELSE "no")
    ELSE IF SsNames(answers) THEN (IF p \in NamedPorts THEN "yes" ELSE "no")
    ELSE "unknown"

\* _get_listening_ports_for_pid: the first tool that lists any.
ListedPorts(answers) ==
    IF SsNames(answers) /\ NamedPorts # {} THEN NamedPorts
    ELSE IF "lsof" \in answers THEN OwnPorts ELSE {}

\* _get_listening_binds_for_pid: here the pid is compared whole.
BindsKnown(answers) == "lsof" \in answers \/ SsNames(answers)

\* warn_if_debugger_exposed_externally
Exposed(p, answers) == BindsKnown(answers) /\ p \in OwnPorts /\ site.wild

-----------------------------------------------------------------------------
(* The emulator and the host. *)

\* PPSSPP listens where the appended configuration says, or where it likes.
EmuBinds ==
    /\ emulator = "booting" /\ OwnPorts = {}
    /\ LET asked == IF site.honours /\ lnch.ini /\ owner[lnch.port] = "free"
                    THEN {lnch.port} ELSE {p \in Ports : owner[p] = "free"} IN
       \E p \in asked : owner' = [owner EXCEPT ![p] = "emu"]
    /\ emulator' = "up"
    /\ UNCHANGED <<site, lists, backups, inis, kept, lnch, boot>>

\* With a failed backend on record there is a dialog to answer first.
EmuBoots ==
    /\ emulator = "up"
    /\ emulator' = IF \E d \in Dirs : lists[d] = "failures" THEN "wedged" ELSE "ready"
    /\ UNCHANGED <<site, owner, lists, backups, inis, kept, lnch, boot>>

\* A boot that hangs is put on record, by PPSSPP and in its own directory.
EmuHangs ==
    /\ emulator \in {"up", "booting"}
    /\ emulator' = "wedged"
    /\ \E d \in Dirs : lists' = [lists EXCEPT ![d] = IF @ = "IGNORE" THEN @ ELSE "failures"]
    /\ UNCHANGED <<site, owner, backups, inis, kept, lnch, boot>>

EmuExits ==
    /\ emulator # "none"
    /\ emulator' = "none"
    /\ owner' = [p \in Ports |-> IF owner[p] = "emu" THEN "free" ELSE owner[p]]
    /\ UNCHANGED <<site, lists, backups, inis, kept, lnch, boot>>

OtherBinds ==
    /\ Cardinality({p \in Ports : owner[p] \in {"other", "twin"}}) < MaxOthers
    /\ \E p \in Ports, who \in {"other", "twin"} :
         owner[p] = "free" /\ owner' = [owner EXCEPT ![p] = who]
    /\ UNCHANGED <<site, emulator, lists, backups, inis, kept, lnch, boot>>

-----------------------------------------------------------------------------
(* stop: the process is killed by ever harder means, then the file goes; one *)
(* that cannot be removed is forgotten all the same.                        *)

Stopped(next) ==
    /\ emulator' = IF lnch.proc THEN "none" ELSE emulator
    /\ owner' = IF lnch.proc THEN [p \in Ports |-> IF owner[p] = "emu" THEN "free" ELSE owner[p]]
                ELSE owner
    /\ \/ inis' = (IF lnch.ini THEN inis - 1 ELSE inis) /\ UNCHANGED kept
       \/ lnch.ini /\ kept < MaxKept /\ kept' = kept + 1 /\ UNCHANGED inis
    /\ lnch' = NoLauncher
    /\ boot' = next
    /\ UNCHANGED <<site, lists, backups>>

Ended(res) == [NoBoot EXCEPT !.res = res, !.attempt = boot.attempt]

\* _start_once: a start that raised is stopped before the error goes on.
StartFails == In("failed") /\ Stopped(Ended("failed"))

-----------------------------------------------------------------------------
(* start. *)

StartBegins ==
    /\ In("idle") /\ emulator = "none" /\ lnch = NoLauncher
    /\ boot' = [NoBoot EXCEPT !.pc = "check", !.attempt = 1]
    /\ UNCHANGED <<site, owner, emulator, lists, backups, inis, kept, lnch>>

\* The executable, and the path of the disc.
CheckPaths ==
    /\ In("check")
    /\ Goto("prepare") \/ Goto("failed")
    /\ UNCHANGED <<site, owner, emulator, lists, backups, inis, kept, lnch>>

\* _clear_failed_gpu_backends: both lists go, but for the operator's opt-out;
\* one that is held open by another program stays.
ClearedLists(stuck) ==
    [d \in Dirs |-> IF lists[d] = "IGNORE" \/ d \in stuck THEN lists[d] ELSE "absent"]

\* A free port, the file that asks for it, and the lists.
Prepare ==
    /\ In("prepare")
    /\ \E p \in Ports :
         owner[p] = "free" /\ lnch' = [lnch EXCEPT !.port = p, !.ini = TRUE]
    /\ inis' = inis + 1
    /\ \E stuck \in SUBSET Dirs : lists' = ClearedLists(stuck)
    /\ Goto("spawn")
    /\ UNCHANGED <<site, owner, emulator, backups, kept>>

\* No port, or a file that cannot be written: what there is of it stays, for
\* its path is not noted yet.
PrepareFails ==
    /\ In("prepare")
    /\ \/ UNCHANGED <<inis, kept>>
       \/ kept < MaxKept /\ inis' = inis + 1 /\ kept' = kept + 1
    /\ Goto("failed")
    /\ UNCHANGED <<site, owner, emulator, lists, backups, lnch>>

\* A list that cannot be read, the one beside the executable before the other.
ListFails ==
    /\ In("prepare")
    /\ \E p \in Ports :
         owner[p] = "free" /\ lnch' = [lnch EXCEPT !.port = p, !.ini = TRUE]
    /\ inis' = inis + 1
    /\ \/ lists["exe"] # "absent" /\ UNCHANGED lists
       \/ /\ lists["home"] # "absent"
          /\ \E stuck \in SUBSET Dirs : lists' = ClearedLists(stuck \cup {"home"})
    /\ Goto("failed")
    /\ UNCHANGED <<site, owner, emulator, backups, kept>>

Spawn ==
    /\ In("spawn")
    /\ \/ Goto("failed") /\ UNCHANGED <<emulator, lnch>>
       \/ /\ emulator' = "booting" /\ lnch' = [lnch EXCEPT !.proc = TRUE]
          /\ boot' = [boot EXCEPT !.pc = "asked", !.polls = 0]
    /\ UNCHANGED <<site, owner, lists, backups, inis, kept>>

\* Phase 1 of _wait_for_port: whoever listens on the port is asked for.  A
\* port of nobody known is accepted unverified.
Phase1 ==
    /\ In("asked")
    /\ \E answers \in SUBSET site.tools :
         boot' = IF Listening(lnch.port) /\ OwnedBy(lnch.port, answers) # "no"
                 THEN [boot EXCEPT !.pc = "exposure", !.found = lnch.port]
                 ELSE IF emulator = "none" THEN [boot EXCEPT !.pc = "started"]
                 ELSE IF boot.polls + 1 < PortPolls THEN [boot EXCEPT !.polls = @ + 1]
                 ELSE [boot EXCEPT !.pc = "discover", !.polls = 0]
    /\ UNCHANGED <<site, owner, emulator, lists, backups, inis, kept, lnch>>

\* Phase 2: any port that the process has.
Phase2 ==
    /\ In("discover")
    /\ \E answers \in SUBSET site.tools :
         \/ \E p \in ListedPorts(answers) :
              boot' = [boot EXCEPT !.pc = "verify", !.found = p]
         \/ /\ ListedPorts(answers) = {}
            /\ boot' = IF boot.polls + 1 < PortPolls THEN [boot EXCEPT !.polls = @ + 1]
                       ELSE [boot EXCEPT !.pc = "started"]
    /\ UNCHANGED <<site, owner, emulator, lists, backups, inis, kept, lnch>>

Verify ==
    /\ In("verify")
    /\ \E answers \in SUBSET site.tools :
         IF OwnedBy(boot.found, answers) = "no" THEN Goto("started") /\ UNCHANGED lnch
         ELSE Goto("exposure") /\ lnch' = [lnch EXCEPT !.port = boot.found]
    /\ UNCHANGED <<site, owner, emulator, lists, backups, inis, kept>>

\* Mutant: a port found in phase 1 is taken without the check.
EnsureNotExposedSlow ==
    /\ In("exposure")
    /\ boot' = [boot EXCEPT !.pc = "started", !.sure = Listening(boot.found)]
    /\ UNCHANGED <<site, owner, emulator, lists, backups, inis, kept, lnch>>

\* A debugger that others can reach is refused unless the operator allows it;
\* where the binding cannot be had nothing is refused.
EnsureNotExposed ==
    /\ In("exposure")
    /\ \E answers \in SUBSET site.tools :
         boot' = IF Exposed(boot.found, answers) /\ ~site.allowed
                 THEN [boot EXCEPT !.pc = "failed"]
                 ELSE [boot EXCEPT !.pc = "started", !.sure = Listening(boot.found),
                                   !.blind = ~BindsKnown(answers)]
    /\ UNCHANGED <<site, owner, emulator, lists, backups, inis, kept, lnch>>

\* _start_once does not look at what the wait for the port returned; without a
\* port the configured one is used.
Url == IF lnch.port = NoPort THEN ConfigPort ELSE lnch.port

Started ==
    /\ In("started")
    /\ \/ boot' = [boot EXCEPT !.pc = "gate", !.polls = 0]       \* resilient
       \/ Goto("session")
    /\ UNCHANGED <<site, owner, emulator, lists, backups, inis, kept, lnch>>

-----------------------------------------------------------------------------
(* The gate and the heal. *)

\* probe_cpu_ready: whoever answers on the port answers the probe; a process
\* that exited, or the end of the budget, is a wedge.
GatePoll ==
    /\ In("gate")
    /\ boot' = IF emulator = "none" \/ ~lnch.proc THEN [boot EXCEPT !.pc = "wedge"]
               ELSE IF owner[Url] = "emu" /\ emulator = "ready" THEN [boot EXCEPT !.pc = "session"]
               ELSE IF boot.polls + 1 < GatePolls THEN [boot EXCEPT !.polls = @ + 1]
               ELSE [boot EXCEPT !.pc = "wedge"]
    /\ UNCHANGED <<site, owner, emulator, lists, backups, inis, kept, lnch>>

\* Another emulator on that port answers as well.
GateHearsOther ==
    /\ In("gate") /\ owner[Url] \in {"other", "twin"}
    /\ Goto("session")
    /\ UNCHANGED <<site, owner, emulator, lists, backups, inis, kept, lnch>>

WedgeStops == In("wedge") /\ Stopped([boot EXCEPT !.pc = "heal"])

\* quarantine_gpu_backend_blacklist: the list beside the executable is renamed,
\* whatever it says; a rename that fails is only logged.
Quarantine ==
    /\ In("heal")
    /\ \/ /\ site.quarantine /\ lists["exe"] # "absent"
          /\ lists' = [lists EXCEPT !["exe"] = "absent"] /\ backups' = TRUE
       \/ UNCHANGED <<lists, backups>>
    /\ boot' = IF boot.attempt < Attempts
               THEN [NoBoot EXCEPT !.pc = "check", !.attempt = boot.attempt + 1]
               ELSE Ended("BOOT_TIMEOUT")
    /\ UNCHANGED <<site, owner, emulator, inis, kept, lnch>>

SessionStops == In("session") /\ Stopped(Ended("stopped"))

LauncherNext ==
    \/ EmuBinds \/ EmuBoots \/ EmuHangs \/ EmuExits \/ OtherBinds
    \/ StartBegins \/ CheckPaths \/ Prepare \/ PrepareFails \/ ListFails \/ Spawn
    \/ Phase1 \/ Phase2 \/ Verify \/ EnsureNotExposed \/ Started
    \/ GatePoll \/ GateHearsOther \/ WedgeStops \/ Quarantine
    \/ StartFails \/ SessionStops

LauncherSpec == LauncherInit /\ [][LauncherNext]_launchVars

-----------------------------------------------------------------------------
(* Properties. *)

(* Whatever step of a start fails, at whatever attempt, nothing of it stays: *)
(* neither the process nor the file of its configuration, unless the file    *)
(* system refused to write that file or to remove it.                       *)
NothingLeftBehind == In("idle") => emulator = "none" /\ inis = kept /\ lnch = NoLauncher

(* A debugger found listening for everyone is a session only where the       *)
(* operator allows it, by whichever phase its port was found: the fast path *)
(* `used to return before it'.                                              *)
ExposureRefused ==
    boot.sure /\ ~boot.blind /\ owner[Url] = "emu" => site.allowed \/ ~site.wild

(* `Set PPSSPP_DFX_BOOT_HEAL_QUARANTINE=0 to disable (boot wedge healing then *)
(* relaunches WITHOUT touching the file)': between a wedge and the boot of   *)
(* the next attempt the server leaves the lists alone.                      *)
HealLeavesLists ==
    [][ ~site.quarantine /\ boot.attempt > 1 /\ boot.pc \in {"check", "prepare", "spawn"}
          => lists' = lists ]_launchVars

(* Wherever a start, its gate or its heal fails, it leaves a session that    *)
(* may be exposed as it is, or nothing.                                     *)
StartIsClean == NothingLeftBehind /\ ExposureRefused
=============================================================================
