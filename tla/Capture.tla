------------------------------ MODULE Capture -------------------------------
(***************************************************************************)
(* Screenshots and dumps: tools/screenshot.py, service/screenshot_service.py *)
(* and service/capture.py.  Each session has an emulator and at most one    *)
(* capture in progress (the session lock); sessions capture side by side,   *)
(* and their emulators write their screenshots into one directory.          *)
(***************************************************************************)
EXTENDS Integers, FiniteSets

CONSTANTS
    Windows,        \* sessions, each with the window of its emulator
    Platforms,      \* "win32", "posix"
    WholeSize,      \* the size of a complete image file
    MaxScans,       \* bound: polls that fit _WM_SCREENSHOT_WAIT_S
    MaxFiles        \* bound: screenshot files the emulators write

ASSUME CaptureAssumption ==
    /\ Platforms \subseteq {"win32", "posix"}
    /\ {WholeSize, MaxScans, MaxFiles} \subseteq Nat \ {0}

VARIABLES
    platform,
    shots,      \* PSP/SCREENSHOT: set of [no, of, size, grows]
    screen,     \* session -> its emulator: [halted, asked]
    frame       \* session -> its capture (NoFrame)

captureVars == <<platform, shots, screen, frame>>

NoImage == [of |-> "none", size |-> 0]
NoFrame == [pc |-> "idle", way |-> "none", label |-> "none", tier |-> 0, stepped |-> FALSE,
            resumes |-> FALSE, seen |-> {}, file |-> 0, size |-> -1, same |-> 0,
            scans |-> 0, img |-> NoImage, res |-> "none"]

CaptureInit ==
    /\ platform \in Platforms
    /\ shots = {}
    /\ screen \in [Windows -> [halted : BOOLEAN, asked : {FALSE}]]
    /\ frame = [s \in Windows |-> NoFrame]

FrameAt(s, pc) == frame[s].pc = pc
SetFrame(s, f) == frame' = [frame EXCEPT ![s] = f]
Halt(s, h) == screen' = [screen EXCEPT ![s].halted = h]
Whole(s) == [of |-> s, size |-> WholeSize]
Captured(f, img) == [NoFrame EXCEPT !.label = f.label, !.img = img,
                     !.res = IF img = NoImage THEN "empty" ELSE "ok"]

-----------------------------------------------------------------------------
(* The emulators. *)

\* A screenshot that was asked for through the window menu appears, empty.
FileAppears(s) ==
    /\ screen[s].asked /\ Cardinality(shots) < MaxFiles
    /\ shots' = shots \cup {[no |-> Cardinality(shots) + 1, of |-> s, size |-> 0, grows |-> TRUE]}
    /\ screen' = [screen EXCEPT ![s].asked = FALSE]
    /\ UNCHANGED <<platform, frame>>

\* It grows in steps, and may stay where it is: a full disk, a killed emulator.
FileGrows ==
    /\ \E x \in shots : /\ x.grows /\ x.size < WholeSize
                        /\ \E grown \in {[x EXCEPT !.size = @ + 1], [x EXCEPT !.grows = FALSE]} :
                             shots' = (shots \ {x}) \cup {grown}
    /\ UNCHANGED <<platform, screen, frame>>

-----------------------------------------------------------------------------
(* The request. *)

\* _resolve_capture_strategy: with neither parameter the legacy chain runs.
Strategy(source, mode) ==
    IF source # "none" THEN source ELSE IF mode # "none" THEN mode ELSE "auto"

Stepping == {"render", "output", "auto", "texture", "clut", "depth"}

Screenshot(s, source, mode) ==
    /\ FrameAt(s, "idle")
    /\ LET way == Strategy(source, mode) IN
       SetFrame(s, IF source # "none" /\ mode # "none" THEN [NoFrame EXCEPT !.res = "invalid"]
                   ELSE [NoFrame EXCEPT !.way = way, !.label = way,
                                        !.pc = IF way \in Stepping THEN "enter" ELSE way])
    /\ UNCHANGED <<platform, shots, screen>>

Dump(s, kind) ==
    /\ FrameAt(s, "idle")
    /\ SetFrame(s, [NoFrame EXCEPT !.way = kind, !.label = kind, !.pc = "enter"])
    /\ UNCHANGED <<platform, shots, screen>>

-----------------------------------------------------------------------------
(* The CPU is halted around a capture, and set running again if it ran. *)

\* What follows a body that could not be entered, or whose resume failed.
Without(f) ==
    CASE f.way = "render" -> [f EXCEPT !.way = "auto", !.label = "fallback", !.pc = "enter"]
      [] f.way = "auto" -> [f EXCEPT !.stepped = FALSE, !.resumes = FALSE, !.pc = "wm_command",
                                     !.tier = 1]
      [] OTHER -> Captured(f, NoImage)

Enter(s) ==
    LET f == frame[s] IN
    /\ FrameAt(s, "enter")
    /\ \/ /\ Halt(s, TRUE)
          /\ SetFrame(s, [f EXCEPT !.stepped = TRUE, !.resumes = ~screen[s].halted,
                                   !.tier = 1, !.pc = IF f.way = "auto" THEN "wm_command"
                                                      ELSE "gpu"])
       \/ \E h \in {screen[s].halted, TRUE} : Halt(s, h) /\ SetFrame(s, Without(f))
    /\ UNCHANGED <<platform, shots>>

\* One GPU request; an image that is not there yet comes back empty.
Gpu(s) ==
    /\ FrameAt(s, "gpu")
    /\ \E img \in {Whole(s), NoImage} :
         SetFrame(s, [frame[s] EXCEPT !.img = img, !.pc = "leave"])
    /\ UNCHANGED <<platform, shots, screen>>

\* An image is lost when the resume fails after it; an empty render goes on to
\* the legacy chain.
Leave(s) ==
    LET f == frame[s]
        ended == IF f.way = "render" /\ f.img = NoImage THEN Without(f)
                 ELSE Captured(f, f.img) IN
    /\ FrameAt(s, "leave")
    /\ \/ ~f.resumes /\ UNCHANGED screen /\ SetFrame(s, ended)
       \/ f.resumes /\ Halt(s, FALSE) /\ SetFrame(s, ended)
       \/ /\ f.resumes /\ \E h \in BOOLEAN : Halt(s, h)
          /\ SetFrame(s, Without([f EXCEPT !.img = NoImage]))
    /\ UNCHANGED <<platform, shots>>

\* _DUMP_TOTAL_BUDGET_S ends a dump wherever it is; the resume goes on shielded.
DumpTimesOut(s) ==
    LET f == frame[s] IN
    /\ f.pc \in {"enter", "gpu", "leave"} /\ f.way \in {"texture", "clut"}
    /\ \E h \in {screen[s].halted, IF FrameAt(s, "enter") THEN TRUE ELSE ~f.resumes} : Halt(s, h)
    /\ SetFrame(s, Captured(f, NoImage))
    /\ UNCHANGED <<platform, shots>>

-----------------------------------------------------------------------------
(* The legacy chain: the menu of the window, the window, the video memory.   *)

\* The next strategy of safe_screenshot, or its end.
Next3(f) ==
    CASE f.tier = 0 -> Captured(f, NoImage)
      [] f.tier = 1 -> [f EXCEPT !.tier = 2, !.pc = "printwindow"]
      [] f.tier = 2 -> [f EXCEPT !.tier = 3, !.pc = "vram"]
      [] OTHER -> IF f.stepped THEN [f EXCEPT !.pc = "leave"] ELSE Captured(f, NoImage)

Delivered(f, img) ==
    IF f.stepped THEN [f EXCEPT !.img = img, !.pc = "leave"] ELSE Captured(f, img)

\* The window of this session's own process is asked for a screenshot; what
\* was in the directory before is remembered.
WmCommand(s) ==
    LET f == frame[s] IN
    /\ FrameAt(s, "wm_command")
    /\ \/ /\ platform = "win32"
          /\ screen' = [screen EXCEPT ![s].asked = TRUE]
          /\ SetFrame(s, [f EXCEPT !.pc = "scan", !.scans = 0, !.seen = {x.no : x \in shots}])
       \/ UNCHANGED screen /\ SetFrame(s, Next3(f))
    /\ UNCHANGED <<platform, shots>>

\* The first file that was not there is waited for.
Scan(s) ==
    LET f == frame[s] IN
    /\ FrameAt(s, "scan")
    /\ \/ \E x \in shots : /\ x.no \notin f.seen
                           /\ SetFrame(s, [f EXCEPT !.pc = "settle", !.file = x.no,
                                                    !.size = -1, !.same = 0])
       \/ /\ \A x \in shots : x.no \in f.seen
          /\ f.scans < MaxScans
          /\ SetFrame(s, [f EXCEPT !.scans = @ + 1])
       \/ f.scans >= MaxScans /\ SetFrame(s, Next3([f EXCEPT !.seen = {}]))
    /\ UNCHANGED <<platform, shots, screen>>

\* Mutant: two samples of one size are enough.
ImageCompleteEnough(x) == x.size > 0

\* _image_complete: the end marker is there.
ImageComplete(x) == x.size = WholeSize

\* _await_stable_image: three samples of one size that is not zero, or the deadline.
Settle(s) ==
    LET f == frame[s]
        x == CHOOSE y \in shots : y.no = f.file
        alike == x.size > 0 /\ x.size = f.size IN
    /\ FrameAt(s, "settle")
    /\ SetFrame(s,
         IF f.scans >= MaxScans THEN Next3([f EXCEPT !.seen = {}, !.file = 0])
         ELSE IF alike /\ f.same = 1
              THEN IF ImageComplete(x)
                   THEN Delivered([f EXCEPT !.seen = {}, !.file = 0], [of |-> x.of, size |-> x.size])
                   ELSE [f EXCEPT !.pc = "scan", !.scans = @ + 1, !.file = 0]
              ELSE [f EXCEPT !.scans = @ + 1, !.size = x.size, !.same = IF alike THEN 1 ELSE 0])
    /\ UNCHANGED <<platform, shots, screen>>

PrintWindow(s) ==
    /\ FrameAt(s, "printwindow")
    /\ \/ platform = "win32" /\ SetFrame(s, Delivered(frame[s], Whole(s)))
       \/ SetFrame(s, Next3(frame[s]))
    /\ UNCHANGED <<platform, shots, screen>>

\* A candidate that cannot be read, or is blank, is passed over.
Vram(s) ==
    /\ FrameAt(s, "vram")
    /\ SetFrame(s, Delivered(frame[s], Whole(s))) \/ SetFrame(s, Next3(frame[s]))
    /\ UNCHANGED <<platform, shots, screen>>

CaptureNext ==
    \/ FileGrows
    \/ \E s \in Windows :
         \/ FileAppears(s)
         \/ \E source \in {"none", "render", "output"},
               mode \in {"none", "auto", "wm_command", "printwindow", "vram"} :
              Screenshot(s, source, mode)
         \/ \E kind \in {"texture", "clut", "depth"} : Dump(s, kind)
         \/ Enter(s) \/ Gpu(s) \/ Leave(s) \/ DumpTimesOut(s)
         \/ WmCommand(s) \/ Scan(s) \/ Settle(s) \/ PrintWindow(s) \/ Vram(s)

CaptureSpec == CaptureInit /\ [][CaptureNext]_captureVars

-----------------------------------------------------------------------------
(* Properties. *)

(* An image that is returned is a whole one, however slowly the emulator     *)
(* wrote its file and wherever it stopped: a cut image `still carries a      *)
(* valid IHDR so downstream decoders fail with no retry'.                    *)
ImageIsWhole == \A s \in Windows : frame[s].res = "ok" => frame[s].img.size = WholeSize

(* The image a session gets is of its own game.  The window is chosen by     *)
(* process, because `a WM_COMMAND screenshot would capture the wrong game    *)
(* with no warning'; the file is not.                                       *)
ImageIsOwn == \A s \in Windows : frame[s].res = "ok" => frame[s].img.of = s
=============================================================================
