------------------------------ MODULE Playback ------------------------------
(***************************************************************************)
(* The replay tool (tools/replay.py with the replay_* requests of          *)
(* service/debug_client.py and the .ppr files of models/replay.py), and the*)
(* input tools (tools/input.py) with their frame waits (tools/_common.py). *)
(*                                                                         *)
(* Calls that reach PPSSPP hold the session lock, so one is in progress at *)
(* a time; each may fail, or be cancelled by its client, between any two   *)
(* of its requests.  A recording is the number of its frames.              *)
(***************************************************************************)
EXTENDS Integers, FiniteSets

CONSTANTS
    TapeNames,      \* names of .ppr files
    Buttons,
    Sticks,         \* the analog positions callers send
    MaxFrames,      \* bound: frames of a recording
    PollBudget,     \* polls that fit timeout_ms of wait_complete
    WaitFrames,     \* frames a wait asks for
    LivenessChunk   \* _LIVENESS_CHUNK_FRAMES

ASSUME PlaybackAssumption ==
    /\ {MaxFrames, PollBudget, LivenessChunk} \subseteq Nat \ {0}
    /\ WaitFrames \in Nat /\ Sticks \subseteq 0 .. 255
    /\ TapeNames \cap {"rescue", "given"} = {}

\* What is in a file, or in PPSSPP's event table, that is no whole recording.
Absent == -1
Partial == -2
Tapes == 0 .. MaxFrames
Files == TapeNames \cup {"rescue"}

VARIABLES
    psp,        \* PPSSPP: [mode, tape, table, shifted, held, pressed, stick]
    disk,       \* output/replays: file -> frames, Absent or Partial
    up,         \* the session lives
    play,       \* the call: [pc, name, tape, rtc, blind, left, res]
    sleeper     \* a frame wait, which holds no lock: [left, res]

playVars == <<psp, disk, up, play, sleeper>>

NoPlay == [pc |-> "idle", name |-> "rescue", tape |-> Absent,
           rtc |-> FALSE, blind |-> FALSE, left |-> 0, res |-> "none"]

PlaybackInit ==
    /\ psp = [mode |-> "idle", tape |-> 0, table |-> Absent, shifted |-> FALSE,
              held |-> {}, pressed |-> {}, stick |-> 0]
    /\ disk = [f \in Files |-> Absent]
    /\ up = TRUE
    /\ play = NoPlay
    /\ sleeper = [left |-> 0, res |-> "none"]

\* A finished call keeps only how it ended.
PlayDone(res) == play' = [NoPlay EXCEPT !.res = res]
At(pc) == play.pc = pc
GoOn(pc) == play' = [play EXCEPT !.pc = pc]

\* One request: answered, or failed with its effect in doubt.
Sent(effect) == up /\ psp' = effect /\ UNCHANGED <<disk, up, sleeper>>
Failed(effect) ==
    /\ psp' \in (IF up THEN {psp, effect} ELSE {psp})
    /\ PlayDone("failed")
    /\ UNCHANGED <<disk, up, sleeper>>

-----------------------------------------------------------------------------
(* PPSSPP's replay states, and the game. *)

Recording == [psp EXCEPT !.mode = "saving", !.tape = IF psp.mode = "saving" THEN @ ELSE 0]
Cleared == [psp EXCEPT !.mode = "idle", !.tape = 0, !.table = Absent]
Flushed == [psp EXCEPT !.tape = 0]
Executing == [psp EXCEPT !.mode = "executing", !.table = play.tape]

GamePlays ==
    /\ up /\ psp.mode = "saving" /\ psp.tape < MaxFrames
    /\ psp' = [psp EXCEPT !.tape = @ + 1]
    /\ UNCHANGED <<disk, up, play, sleeper>>

\* A pressed button is released by PPSSPP, whoever still waits for it.
PressEnds ==
    /\ up /\ psp.pressed # {}
    /\ psp' = [psp EXCEPT !.pressed = {}, !.held = @ \ psp.pressed]
    /\ UNCHANGED <<disk, up, play, sleeper>>

PlayedSessionEnds == up /\ up' = FALSE /\ UNCHANGED <<psp, disk, play, sleeper>>

-----------------------------------------------------------------------------
(* The replay tool. *)

\* The arguments are checked before the session is opened; save and load name a
\* file.  What execute is given is not empty and decodes, and no more is known
\* of it: it may hold no event.
Replay(act) ==
    /\ At("idle")
    /\ \/ act \in {"begin", "abort", "flush", "status", "time_get", "time_set", "wait"}
          /\ play' = [NoPlay EXCEPT !.pc = act]
       \/ act = "execute" /\ \E tape \in Tapes :
             play' = [NoPlay EXCEPT !.pc = "probe", !.name = "given", !.tape = tape]
       \/ act = "save" /\ \E name \in TapeNames :
             play' = [NoPlay EXCEPT !.pc = "take", !.name = name]
       \/ act = "load" /\ \E name \in Files, rtc \in BOOLEAN :
             play' = [NoPlay EXCEPT !.pc = "read", !.name = name, !.rtc = rtc]
       \/ play' = [NoPlay EXCEPT !.res = "invalid"]
    /\ UNCHANGED <<psp, disk, up, sleeper>>

\* The actions of one request each.
Single(act, effect) ==
    At(act) /\ (Failed(effect) \/ (Sent(effect) /\ PlayDone("ok")))

OneRequest ==
    \/ Single("begin", Recording)
    \/ Single("abort", Cleared)
    \/ Single("flush", Flushed)
    \/ Single("status", psp)
    \/ Single("time_get", psp)
    \/ Single("time_set", [psp EXCEPT !.shifted = TRUE])

\* save: flush takes the recording away from PPSSPP.
Take ==
    /\ At("take")
    /\ \/ Failed(Flushed)
       \/ /\ Sent(Flushed)
          /\ IF psp.tape = 0 THEN PlayDone("REPLAY_EMPTY")
             ELSE play' = [play EXCEPT !.tape = psp.tape, !.pc = "time"]

\* The base clock is asked for after the flush.
TimeOfTape == At("time") /\ (Failed(psp) \/ (Sent(psp) /\ GoOn("write")))

\* A write that fails may leave the file cut, whatever it held before.
Write ==
    /\ At("write")
    /\ \/ disk' = [disk EXCEPT ![play.name] = play.tape] /\ PlayDone("ok")
       \/ /\ \E left \in {disk[play.name], Partial} : disk' = [disk EXCEPT ![play.name] = left]
          /\ GoOn("rescue")
    /\ UNCHANGED <<psp, up, sleeper>>

Rescue ==
    /\ At("rescue")
    /\ \/ disk' = [disk EXCEPT !["rescue"] = play.tape] /\ PlayDone("rescued")
       \/ \E left \in {disk["rescue"], Partial} :
             disk' = [disk EXCEPT !["rescue"] = left] /\ PlayDone("lost")
    /\ UNCHANGED <<psp, up, sleeper>>

\* load: a file that is missing or does not parse is refused.
Read ==
    /\ At("read")
    /\ IF disk[play.name] \in Tapes
       THEN play' = [play EXCEPT !.tape = disk[play.name], !.pc = "probe"]
       ELSE PlayDone("invalid")
    /\ UNCHANGED <<psp, disk, up, sleeper>>

\* execute, load: a live recording or execution is aborted first; when its
\* status cannot be had the call goes on regardless.
ProbeIdle ==
    /\ At("probe")
    /\ \/ up /\ GoOn(IF psp.mode # "idle" THEN "clear" ELSE "clock")
       \/ play' = [play EXCEPT !.pc = "clock", !.blind = TRUE]
    /\ UNCHANGED <<psp, disk, up, sleeper>>

Clear == At("clear") /\ (Failed(Cleared) \/ (Sent(Cleared) /\ GoOn("clock")))

\* load with restore_rtc moves the clock of the running game.
Clock ==
    /\ At("clock")
    /\ IF play.rtc
       THEN LET moved == [psp EXCEPT !.shifted = TRUE] IN
            Failed(moved) \/ (Sent(moved) /\ GoOn("go"))
       ELSE GoOn("go") /\ UNCHANGED <<psp, disk, up, sleeper>>

\* The table is loaded; nothing plays it before a reset.
Execute == At("go") /\ (Failed(Executing) \/ (Sent(Executing) /\ PlayDone("ok")))

\* Mutant: a status without the flag counts as an execution that ended.
PollMissing ==
    /\ At("wait") /\ up
    /\ \E known \in BOOLEAN :
         IF ~known \/ psp.mode # "executing" THEN PlayDone("done")
         ELSE IF play.left + 1 >= PollBudget THEN PlayDone("timeout")
         ELSE play' = [play EXCEPT !.left = @ + 1]
    /\ UNCHANGED <<psp, disk, up, sleeper>>

\* wait_complete: polls until the flag is seen cleared or the budget is spent.
PollStatus ==
    /\ At("wait") /\ up
    /\ \E known \in BOOLEAN :
         IF known /\ psp.mode # "executing" THEN PlayDone("done")
         ELSE IF play.left + 1 >= PollBudget THEN PlayDone("timeout")
         ELSE play' = [play EXCEPT !.left = @ + 1]
    /\ UNCHANGED <<psp, disk, up, sleeper>>

PollTimesOut ==
    /\ At("wait") /\ (PlayDone("timeout") \/ PlayDone("failed"))
    /\ UNCHANGED <<psp, disk, up, sleeper>>

\* A client that gives up: the write in its thread goes on, to its end or to
\* its failure.
PlayCancelled ==
    /\ play.pc # "idle"
    /\ PlayDone("cancelled")
    /\ \/ UNCHANGED disk
       \/ \E left \in {play.tape, Partial} :
            \/ At("write") /\ disk' = [disk EXCEPT ![play.name] = left]
            \/ At("rescue") /\ disk' = [disk EXCEPT !["rescue"] = left]
    /\ UNCHANGED <<psp, up, sleeper>>

-----------------------------------------------------------------------------
(* Input. *)

\* A request of an input tool, with its own arguments.
Input(effect) ==
    /\ At("idle")
    /\ \/ up /\ psp' = effect /\ play' = [NoPlay EXCEPT !.res = "ok"]
       \/ /\ psp' \in (IF up THEN {psp, effect} ELSE {psp})
          /\ play' = [NoPlay EXCEPT !.res = "failed"]
       \/ psp' = psp /\ play' = [NoPlay EXCEPT !.res = "invalid"]
    /\ UNCHANGED <<disk, up, sleeper>>

\* The call is answered when the button is released.
Press(b) ==
    /\ psp.pressed = {}
    /\ Input([psp EXCEPT !.held = @ \cup {b}, !.pressed = {b}])

\* PPSSPP only sets the buttons it is sent; no button at all releases every one.
Hold(S) == Input([psp EXCEPT !.held = IF S = {} THEN {} ELSE @ \cup S])

\* From 0..255 to 128ths of full deflection.
Analog(x) == Input([psp EXCEPT !.stick = x - 128])

\* wait_frames sleeps in chunks and looks at the session between them.
WaitBegins ==
    /\ sleeper.left = 0
    /\ sleeper' = IF ~up THEN [left |-> 0, res |-> "expired"]
                  ELSE IF WaitFrames = 0 THEN [left |-> 0, res |-> "invalid"]
                  ELSE [left |-> WaitFrames, res |-> "none"]
    /\ UNCHANGED <<psp, disk, up, play>>

WaitChunk ==
    LET left == IF sleeper.left > LivenessChunk THEN sleeper.left - LivenessChunk ELSE 0 IN
    /\ sleeper.left > 0
    /\ sleeper' = IF left = 0 THEN [left |-> 0, res |-> "ok"]
                  ELSE IF ~up THEN [left |-> 0, res |-> "expired"]
                  ELSE [left |-> left, res |-> "none"]
    /\ UNCHANGED <<psp, disk, up, play>>

PlaybackNext ==
    \/ GamePlays \/ PressEnds \/ PlayedSessionEnds
    \/ \E act \in {"begin", "abort", "flush", "status", "time_get", "time_set",
                   "wait", "execute", "save", "load"} : Replay(act)
    \/ OneRequest \/ Take \/ TimeOfTape \/ Write \/ Rescue \/ Read \/ ProbeIdle
    \/ Clear \/ Clock \/ Execute \/ PollStatus \/ PollTimesOut \/ PlayCancelled
    \/ \E b \in Buttons : Press(b)
    \/ \E S \in SUBSET Buttons : Hold(S)
    \/ \E x \in Sticks : Analog(x)
    \/ WaitBegins \/ WaitChunk

PlaybackSpec == PlaybackInit /\ [][PlaybackNext]_playVars

-----------------------------------------------------------------------------
(* Properties. *)

(* A load gives PPSSPP a recording with frames, whatever an earlier save      *)
(* wrote, failed to write or was cancelled writing: an empty recording is    *)
(* refused at save time (REPLAY_EMPTY).  What execute is given is the        *)
(* caller's own.                                                            *)
PlayedHasFrames == At("go") /\ play.name # "given" => play.tape \in Tapes \ {0}

(* A table is only loaded into an idle PPSSPP: `A live executing/saving     *)
(* state must not mix with the new event table', unless its status was       *)
(* asked for and not answered.                                              *)
TablesDoNotMix ==
    [][At("go") /\ psp'.table # psp.table => psp.mode = "idle" \/ play.blind]_playVars

(* wait_complete says an execution ended only if it did: a status that lacks *)
(* the flag is no answer.                                                   *)
WaitIsHonest ==
    [][At("wait") /\ play'.res = "done" => psp.mode # "executing"]_playVars

(* Whatever the replay tool's calls fail at or are cancelled at, recordings  *)
(* are played whole, one at a time, and to the end.                         *)
PlaybackIsClean == TablesDoNotMix /\ WaitIsHonest /\ []PlayedHasFrames
=============================================================================
