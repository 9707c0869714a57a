------------------------------ MODULE Lifecycle ------------------------------
(***************************************************************************)
(* The life of the sysmodule: __appInit, main and __appExit                *)
(* (source/sysmodule/main.c) with the parts of source/core.c,              *)
(* source/capture.c and source/grcd.c they call. The main thread opens the *)
(* services one by one, any of which may be refused, starts the threads    *)
(* and sleeps.                                                             *)
(*                                                                         *)
(* g_running is cleared by __appExit and after main's loop only, so the    *)
(* loop, once entered, is never left: the lines behind it (263-269) are    *)
(* dead code, and __appExit runs when UvcDeviceInitialize has failed.      *)
(***************************************************************************)
EXTENDS FiniteSets

CONSTANTS
    LogOpens,       \* what opening the log may return; {FALSE}: no logging
    Video, Audio    \* g_videoThread, g_audioThread

VARIABLES
    main,           \* the next call of the main thread
    held,           \* the sessions and resources that are open
    hosKnown,       \* hosversionSet was called
    coreInitialized,\* g_coreInitialized
    threads         \* threads that have been started

vars == <<main, held, hosKnown, coreInitialized, threads>>

Init ==
    /\ main = "sm" /\ held = {} /\ hosKnown = FALSE
    /\ coreInitialized = FALSE /\ threads = {}

-----------------------------------------------------------------------------
(***************************************************************************)
(* Each call succeeds or fails.                                            *)
(***************************************************************************)
Goes(from, to) == main = from /\ main' = to
Acquire(what) == held' = held \union {what}

\* fatalThrow and R_THROW do not return: the console stops.
Fatal(from) ==
    /\ Goes(from, "fatal")
    /\ UNCHANGED <<held, hosKnown, coreInitialized, threads>>

InitSm ==
    /\ Goes("sm", "setsys") /\ Acquire("sm")
    /\ UNCHANGED <<hosKnown, coreInitialized, threads>>

\* setsys cannot be opened: the firmware version stays unknown.
SetsysFails ==
    /\ Goes("setsys", "log")
    /\ UNCHANGED <<held, hosKnown, coreInitialized, threads>>

InitSetsys ==
    /\ Goes("setsys", "version") /\ Acquire("setsys")
    /\ UNCHANGED <<hosKnown, coreInitialized, threads>>

\* setsysGetFirmwareVersion, which may fail, and setsysExit.
ReadVersion ==
    /\ Goes("version", "log")
    /\ hosKnown' \in BOOLEAN
    /\ held' = held \ {"setsys"}
    /\ UNCHANGED <<coreInitialized, threads>>

\* CoreInit: a log that cannot be opened stays silent.
InitLog ==
    /\ Goes("log", "serial")
    /\ \E opened \in LogOpens :
          held' = IF opened THEN held \union {"log"} ELSE held
    /\ UNCHANGED <<hosKnown, coreInitialized, threads>>

\* _getSerialNumber: the default serial number is kept when setsys fails.
SerialUnknown ==
    /\ Goes("serial", "grcVideo")
    /\ UNCHANGED <<held, hosKnown, coreInitialized, threads>>

OpenSerial ==
    /\ Goes("serial", "readSerial") /\ Acquire("setsys")
    /\ UNCHANGED <<hosKnown, coreInitialized, threads>>

ReadSerial ==
    /\ Goes("readSerial", "grcVideo")
    /\ held' = held \ {"setsys"}
    /\ UNCHANGED <<hosKnown, coreInitialized, threads>>

\* CaptureInitialize.
OpenGrcVideo ==
    /\ Goes("grcVideo", "grcAudio") /\ Acquire("grcVideo")
    /\ UNCHANGED <<hosKnown, coreInitialized, threads>>

OpenGrcAudio ==
    /\ Goes("grcAudio", "uvc") /\ Acquire("grcAudio")
    /\ coreInitialized' = TRUE
    /\ UNCHANGED <<hosKnown, threads>>

\* UvcDeviceInitialize: refused as incompatible when the version is unknown.
InitUvc ==
    /\ hosKnown
    /\ Goes("uvc", "video") /\ Acquire("usb")
    /\ UNCHANGED <<hosKnown, coreInitialized, threads>>

\* main returns 1, which leads to __appExit.
UvcFails ==
    /\ Goes("uvc", "appExit")
    /\ UNCHANGED <<held, hosKnown, coreInitialized, threads>>

LaunchThread(t, from, to) ==
    /\ Goes(from, to)
    /\ threads' = threads \union {t}
    /\ UNCHANGED <<held, hosKnown, coreInitialized>>

LaunchVideo == LaunchThread(Video, "video", "audio")
LaunchAudio == LaunchThread(Audio, "audio", "running")

\* Mutant: a thread that cannot be started is done without.
LaunchGoesOn ==
    \E next \in {<<"video", "audio">>, <<"audio", "running">>} :
        /\ Goes(next[1], next[2])
        /\ UNCHANGED <<held, hosKnown, coreInitialized, threads>>
LaunchFails == Fatal("video") \/ Fatal("audio")

\* Mutant: CaptureFinalize closes the video session only.
FinalizeVideo == {"grcVideo", "log"}
\* CoreExit closes what CoreInit opened: both sessions of grc:d, the log.
CoreOwned == {"grcVideo", "grcAudio", "log"}

\* UvcDeviceExit, CoreExit, smExit.
AppExit ==
    /\ Goes("appExit", "exited")
    /\ held' = held \ ({"usb", "sm"} \union (IF coreInitialized THEN CoreOwned
                                                                ELSE {}))
    /\ coreInitialized' = FALSE
    /\ UNCHANGED <<hosKnown, threads>>

\* smInitialize and CaptureInitialize failing are fatal.
BootFails == Fatal("sm") \/ Fatal("grcVideo") \/ Fatal("grcAudio")

Next ==
    \/ InitSm \/ SetsysFails \/ InitSetsys \/ ReadVersion
    \/ InitLog \/ SerialUnknown \/ OpenSerial \/ ReadSerial
    \/ OpenGrcVideo \/ OpenGrcAudio \/ InitUvc \/ UvcFails
    \/ LaunchVideo \/ LaunchAudio \/ LaunchFails \/ BootFails \/ AppExit

Spec == Init /\ [][Next]_vars

-----------------------------------------------------------------------------
(***************************************************************************)
(* Properties.                                                             *)
(***************************************************************************)
Resources == {"sm", "setsys", "log", "grcVideo", "grcAudio", "usb"}
Labels == {"sm", "setsys", "version", "log", "serial", "readSerial", "grcVideo",
           "grcAudio", "uvc", "video", "audio", "running", "appExit", "exited",
           "fatal"}

\* The type invariant.
TypeOK ==
    /\ main \in Labels /\ held \subseteq Resources
    /\ hosKnown \in BOOLEAN /\ coreInitialized \in BOOLEAN
    /\ threads \subseteq {Video, Audio}

\* grc:d sessions are scarce (grcd.c:8-9): whatever was refused on the way, a
\* process that exits has given back all it opened.
ReleasedOnExit == main = "exited" => held = {}

\* "Rather than leaving a half-started capture pipeline" (core.c:191-192): no
\* thread runs without the services it uses, and the main thread sleeps only
\* when both were started; everything else ends in a fatal error or an exit.
NeverHalfStarted ==
    /\ threads # {} => {"sm", "grcVideo", "grcAudio", "usb"} \subseteq held
    /\ main = "running" => threads = {Video, Audio}
    /\ main = "exited" => threads = {}

=============================================================================
