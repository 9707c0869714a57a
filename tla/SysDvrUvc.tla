------------------------------ MODULE SysDvrUvc ------------------------------
(***************************************************************************)
(* The running sysmodule: the boot sequence (Lifecycle), and then the      *)
(* video thread of source/sysmodule/main.c, which serves EP0 (UvcControl), *)
(* reads a frame from grc:d (GrcCapture) and sends it (UvcSendFrame), one  *)
(* after the other in one loop, against a host that uses both pipes.       *)
(*                                                                         *)
(* Each component is an instance of its module. They share state and       *)
(* configured; everything else a component keeps to itself, and a step of  *)
(* the loop is a step of the component it is in. The audio thread only     *)
(* waits, since UacDeviceIsStreaming is always false: it keeps no state.   *)
(***************************************************************************)
EXTENDS Integers, Sequences, FiniteSets

CONSTANTS
    VC, VS, NoRequest, Requests, ControlFaults,     \* UvcControl
    BusPacket, FrameNumbers, SendFaults,            \* UvcSendFrame
    Video, NoThread, DataSizes, Interval,           \* GrcCapture
    LogOpens, Audio                                 \* Lifecycle

ASSUME ThreadsAssumption == LogOpens \subseteq BOOLEAN /\ Video # Audio

VARIABLES
    at,             \* where the video thread is in its loop; "off": not started
    state, configured,
    controlPc, lastErrorCode, iface, serviced, setup, stages, ctrlUrb,
    setupEvent, mail, ctl, committed, outside, outcome,
    sendPc, frameId, frameNumber, size, src, remaining, success, urb, event,
    asserted, host, received,
    readPc, depth, synced, beginCalled, owner, begins, pipeline, inject,
    idrCount, frame, sinceInjected,
    main, held, hosKnown, coreInitialized, threads

C == INSTANCE UvcControl WITH
        pc <- controlPc, urb <- ctrlUrb, Faults <- ControlFaults
G == INSTANCE GrcCapture WITH pc <- readPc, Threads <- {Video}
L == INSTANCE Lifecycle

\* Sizes of the frames the capture may hand over, prefixed or not.
FrameSizes ==
    LET raw == {n \in DataSizes : n > 4}
    IN raw \union {n + G!PrefixLen : n \in {m \in raw : G!HasRoom(m)}}
S == INSTANCE UvcSendFrame WITH pc <- sendPc, Faults <- SendFaults

\* The constants are as each component asks of its own.
ASSUME ComponentsAssumption ==
    C!ConstantsAssumption /\ S!ConstantsAssumption /\ G!ConstantsAssumption

controlVars == <<controlPc, lastErrorCode, iface, serviced, setup, stages, ctrlUrb,
                 setupEvent, mail, ctl, committed, outside, outcome>>
bulkVars    == <<sendPc, frameId, frameNumber, size, src, remaining, success, urb,
                 event, asserted, host, received>>
captureVars == <<readPc, depth, synced, beginCalled, owner, begins, pipeline, inject,
                 idrCount, frame, sinceInjected>>
mainVars    == <<main, held, hosKnown, coreInitialized, threads>>
linkVars    == <<state, configured>>
vars == <<at, linkVars, controlVars, bulkVars, captureVars, mainVars>>

Init == at = "off" /\ C!Init /\ S!Init /\ G!Init /\ L!Init

-----------------------------------------------------------------------------
(***************************************************************************)
(* The main thread.                                                        *)
(***************************************************************************)
\* Starting the video thread lets it enter its loop. CaptureSetInjectSPSPPS
\* sets what is set already.
MainThread ==
    /\ L!Next
    /\ at' = IF at = "off" /\ Video \in threads' THEN "wait" ELSE at
    /\ UNCHANGED <<linkVars, controlVars, bulkVars, captureVars>>

-----------------------------------------------------------------------------
(***************************************************************************)
(* VideoStreamThread.                                                      *)
(***************************************************************************)
\* UvcDeviceWaitReady is repeated until the host has configured the device.
WaitReady ==
    /\ at = "wait" /\ configured
    /\ at' = "poll"
    /\ UNCHANGED <<linkVars, controlVars, bulkVars, captureVars, mainVars>>

\* Mutant: a second thread calls UvcDeviceProcessRequests as well.
PollsAlsoWhileSending == at \in {"poll", "sending"}
Polls == at = "poll"

\* UvcDeviceProcessRequests: no host, ...
PollGone ==
    /\ Polls /\ C!PollDisconnected
    /\ at' = "check"
    /\ UNCHANGED <<bulkVars, captureVars, mainVars>>

PollNothing ==
    /\ Polls /\ ~configured /\ state = "DISCONNECTED"
    /\ at' = "check"
    /\ UNCHANGED <<linkVars, controlVars, bulkVars, captureVars, mainVars>>

\* ...or a host, perhaps a new one...
ResetFrames ==
    /\ frameId' = 0 /\ frameNumber' = 0
    /\ UNCHANGED <<sendPc, size, src, remaining, success, urb, event, asserted,
                   host, received>>

PollConnected ==
    /\ Polls /\ C!PollConfigured
    /\ at' = "serve"
    /\ IF state = "DISCONNECTED" THEN ResetFrames ELSE UNCHANGED bulkVars
    /\ UNCHANGED <<captureVars, mainVars>>

\* ...whose requests are served until no more come.
\* Mutant: the follow-up requests are left to the next round.
LeavesEarly == IF controlPc' \in {"out", "follow"} THEN "check" ELSE "serve"
AfterServing == IF controlPc' = "out" THEN "check" ELSE "serve"

Serve ==
    /\ at = "serve" /\ C!Thread
    /\ at' = AfterServing
    /\ UNCHANGED <<bulkVars, captureVars, mainVars>>

\* UvcDeviceIsStreaming: back to the poll, or on to CaptureReadVideoFrame.
NotStreaming ==
    /\ at = "check" /\ state # "STREAMING"
    /\ at' = "poll"
    /\ UNCHANGED <<linkVars, controlVars, bulkVars, captureVars, mainVars>>

Streaming ==
    /\ at = "check" /\ state = "STREAMING" /\ G!Read(Video)
    /\ at' = "read"
    /\ UNCHANGED <<linkVars, controlVars, bulkVars, mainVars>>

\* The read goes on, returns FALSE, or...
Capture ==
    /\ at = "read" /\ G!Works(Video)
    /\ at' = IF readPc'[Video] = "idle" THEN "poll" ELSE "read"
    /\ UNCHANGED <<linkVars, controlVars, bulkVars, mainVars>>

\* ...has a frame for UvcDeviceSendFrame.
FrameArrives ==
    /\ at = "read" /\ G!Arrives(Video)
    /\ at' = "send"
    /\ UNCHANGED <<linkVars, controlVars, bulkVars, mainVars>>

Send ==
    /\ at = "send" /\ S!SendFrame(frame.size)
    /\ at' = "sending"
    /\ UNCHANGED <<controlVars, captureVars, mainVars>>

\* Mutant: a frame that could not be sent is sent again at once.
SendsAgain == IF success THEN "poll" ELSE "send"
\* Sent or not, the loop starts over.
AfterSending == "poll"

Sending ==
    /\ at = "sending" /\ S!Thread
    /\ at' = IF sendPc' = "idle" THEN AfterSending ELSE "sending"
    /\ UNCHANGED <<controlVars, captureVars, mainVars>>

-----------------------------------------------------------------------------
(***************************************************************************)
(* The host and the hardware under both pipes.                             *)
(***************************************************************************)
Unplug ==
    /\ C!Unplug /\ S!Unplug
    /\ UNCHANGED <<at, captureVars, mainVars>>

\* The device is on the bus once usbDsEnable returned. Enumeration takes longer
\* than a round of the loop, but not than a read or a send that blocks: the
\* thread may miss the disconnection.
Plug ==
    /\ "usb" \in held
    /\ state = "DISCONNECTED" \/ at \in {"read", "sending"}
    /\ C!Plug /\ S!Plug
    /\ UNCHANGED <<at, captureVars, mainVars>>

\* One transfer of EP0.
HostControls ==
    /\ (\E r \in Requests : C!HostSends(r)) \/ C!HostRunsStage \/ C!StageError
    /\ UNCHANGED <<at, state, bulkVars, captureVars, mainVars>>

\* The host reads the bulk pipe between a commit and closing the stream.
HostReads ==
    /\ committed /\ S!HostRead
    /\ UNCHANGED <<at, controlVars, captureVars, mainVars>>

\* It closes the stream: usb:ds tells the device nothing.
HostCloses ==
    /\ committed /\ ~asserted
    /\ committed' = FALSE /\ host' = S!FreshHost
    /\ UNCHANGED <<at, linkVars, controlPc, lastErrorCode, iface, serviced, setup,
                   stages, ctrlUrb, setupEvent, mail, ctl, outside, outcome,
                   sendPc, frameId, frameNumber, size, src, remaining, success,
                   urb, event, asserted, received, captureVars, mainVars>>

\* usb:ds gives a cancelled URB back; only a host that reads can have taken part
\* of it.
CompletesCancelled ==
    /\ S!CancelCompletes \/ (committed /\ S!CancelCompletesPartly)
    /\ UNCHANGED <<at, controlVars, captureVars, mainVars>>

-----------------------------------------------------------------------------
\* Nothing in this waits for grc:d.
VideoThread ==
    \/ WaitReady \/ PollGone \/ PollNothing \/ PollConnected \/ Serve
    \/ NotStreaming \/ Streaming \/ Send \/ Sending
    \/ readPc[Video] # "transfer" /\ Capture

GrcAnswers == readPc[Video] = "transfer" /\ (Capture \/ FrameArrives)

Host ==
    \/ Unplug \/ Plug \/ HostControls \/ HostReads \/ HostCloses
    \/ CompletesCancelled

\* After a fatal error the console is gone, threads and all.
Next ==
    \/ MainThread
    \/ main # "fatal" /\ (VideoThread \/ GrcAnswers \/ Host)

Spec == Init /\ [][Next]_vars

\* Both threads are scheduled and waits on usb:ds have timeouts; the host runs
\* the stages of its own control transfer; usb:ds completes what was cancelled.
\* Nothing makes grc:d answer or the host read.
Fairness ==
    /\ WF_vars(MainThread)
    /\ WF_vars(main # "fatal" /\ VideoThread)
    /\ WF_vars(main # "fatal" /\ C!HostRunsStage
                  /\ UNCHANGED <<at, state, bulkVars, captureVars, mainVars>>)
    /\ WF_vars(main # "fatal" /\ CompletesCancelled)
FairSpec == Spec /\ Fairness

-----------------------------------------------------------------------------
(***************************************************************************)
(* Properties.                                                             *)
(***************************************************************************)
\* The type invariant, the components' own included; the thread is inside at
\* most one of them, the one its place in the loop says.
TypeOK ==
    /\ at \in {"off", "wait", "poll", "serve", "check", "read", "send", "sending"}
    /\ at = "serve" <=> controlPc # "out"
    /\ at = "read" <=> readPc[Video] # "idle"
    /\ at = "sending" <=> sendPc # "idle"
    /\ at = "off" <=> Video \notin threads
    /\ C!TypeOK /\ S!TypeOK /\ G!TypeOK /\ L!TypeOK

\* What crashes the console, RESEARCH.md sections 1 and 4 and capture.c:19-22,
\* never happens in the sysmodule as a whole: no EP0 access outside a request,
\* no post over an unreaped URB and no second Begin, through disconnections at
\* any point of the loop, seen or missed. Holds while usb:ds reports what went
\* through, on either pipe, and in time: SendFaults and ControlFaults without
\* "report", "lateCancel" and "slow" (the code alone does not see to that).
ConsoleStaysUp == ~outside /\ ~asserted /\ begins <= 1

\* A host whose commit succeeded has a device that streams, also when it came
\* while the thread was away in a read or a send, or closed the stream and came
\* back, and however often it did not read for a second: a device that stops by
\* itself freezes the feed of a host that never closed it (uvc_device.c:996-1007).
\* The commit counts as succeeded for the host with its status stage, so that the
\* device must be told of that stage: ControlFaults without "report" and "slow".
CommittedStreams ==
    controlPc = "out" /\ configured /\ committed => state = "STREAMING"

\* A host that has just committed is never sent the middle of a frame first, so
\* the first thing it decodes is not garbage: commits are served between two
\* calls of UvcDeviceSendFrame only (main.c:81-83).
MidFrameNeverFirst ==
    [][host = S!FreshHost /\ host' # S!FreshHost => urb.src = 0]_vars

\* grc:d sessions, usb:ds and the log are given back by a process that exits.
ReleasedOnExit == L!ReleasedOnExit

\* Threads run with every service they use, or not at all.
NeverHalfStarted == L!NeverHalfStarted

\* The loop is the environment UvcSendFrame assumes: between two calls, and
\* only then, it notices hosts, resets the FID and starts to stream.
ImplementsSendFrame == S!Spec

\* EP0 requests are served as long as grc:d answers every read, whether the
\* answer is a frame or an error, and without grc:d while nothing streams, unless
\* their packet cannot be fetched (the fault "fetch", which is not stalled). When
\* no game runs, a thread that streams waits in grc:d and a request with it
\* (main.c:90-91): that is the premise.
EP0Served ==
    ([]<>(readPc[Video] # "transfer"))
        => (ctl.open ~> (~ctl.open \/ main = "fatal"))

\* "Declaring the stream stopped here freezes its feed permanently"
\* (uvc_device.c:998-1000): a host that stays, keeps its stream open and reads in
\* time from some point on gets whole frames again and again, as long as grc:d
\* produces some, whatever timeouts and reconnections came before. As for
\* CommittedStreams, the device must be told of the commit's status stage.
StreamFlows ==
    /\ SF_vars(main # "fatal" /\ FrameArrives)
    /\ <>[](committed /\ ~ctl.open /\ pipeline = "on" /\ main # "fatal"
              /\ sendPc # "cancel")
    => []<>(sendPc = "finish" /\ success)

=============================================================================
