--------------------------- MODULE SysDvrUvcProofs ---------------------------
(***************************************************************************)
(* Proofs about SysDvrUvc. What is proved of the components is carried     *)
(* over to the composition: every step of the sysmodule is a step of each  *)
(* component's module or leaves its variables alone, so the components'    *)
(* inductive invariants hold here, together with one about the loop that   *)
(* drives them.                                                            *)
(***************************************************************************)
EXTENDS SysDvrUvc, TLAPS

CP == INSTANCE UvcControlProofs WITH
        pc <- controlPc, urb <- ctrlUrb, Faults <- ControlFaults
SP == INSTANCE UvcSendFrameParserProofs WITH pc <- sendPc, Faults <- SendFaults
GP == INSTANCE GrcCaptureProofs WITH pc <- readPc, Threads <- {Video}
LP == INSTANCE LifecycleProofs

(***************************************************************************)
(* A component's module and its proofs' are two instances of one text: the *)
(* lemmas of this section only say so.                                     *)
(***************************************************************************)
LEMMA SameAssumptions ==
    CP!ConstantsAssumption /\ SP!ConstantsAssumption /\ GP!ConstantsAssumption
<1>1. CP!ConstantsAssumption
  BY ComponentsAssumption
  DEF C!ConstantsAssumption, CP!ConstantsAssumption, C!AllRequests, CP!AllRequests,
      C!VsRequests, CP!VsRequests, C!VcRequests, CP!VcRequests,
      C!StandardRequests, CP!StandardRequests, C!DeviceRequests, CP!DeviceRequests,
      C!Class, CP!Class, C!Standard, CP!Standard, C!Interfaces, CP!Interfaces,
      C!AllFaults, CP!AllFaults
<1>2. SP!ConstantsAssumption
  BY ComponentsAssumption
  DEF S!ConstantsAssumption, SP!ConstantsAssumption, S!AllFaults, SP!AllFaults
<1>3. GP!ConstantsAssumption
  <2>1. G!VbufSz = GP!VbufSz
    BY DEF G!VbufSz, GP!VbufSz
  <2>2. QED
    BY <2>1, ComponentsAssumption DEF G!ConstantsAssumption, GP!ConstantsAssumption
<1>4. QED
  BY <1>1, <1>2, <1>3

LEMMA SameInit ==
    (C!Init => CP!Init) /\ (S!Init => SP!Init) /\ (G!Init => GP!Init)
    /\ (L!Init => LP!Init)
<1>1. C!Init => CP!Init
  BY DEF C!Init, CP!Init, C!Interfaces, CP!Interfaces, C!NoTransfer, CP!NoTransfer
<1>2. S!Init => SP!Init
  BY DEF S!Init, SP!Init, S!NoUrb, SP!NoUrb, S!FreshHost, SP!FreshHost
<1>3. G!Init => GP!Init
  BY DEF G!Init, GP!Init
<1>4. L!Init => LP!Init
  BY DEF L!Init, LP!Init
<1>5. QED
  BY <1>1, <1>2, <1>3, <1>4

LEMMA SameFetch == \A r \in Requests : C!Fetch(r) => CP!Fetch(r)
BY DEF C!Fetch, CP!Fetch, C!NextInterface, CP!NextInterface,
       C!StallCtrl, CP!StallCtrl, C!HostSees, CP!HostSees,
       C!HandleSetupPacket, CP!HandleSetupPacket, C!HandleVsSetup, CP!HandleVsSetup,
       C!HandleVcSetup, CP!HandleVcSetup, C!HandleStandard, CP!HandleStandard,
       C!ForThisInterface, CP!ForThisInterface, C!Answer, CP!Answer, C!Keep, CP!Keep,
       C!StallError, CP!StallError, C!Stages, CP!Stages, C!NoTransfer, CP!NoTransfer,
       C!ReadsErrorCode, CP!ReadsErrorCode

LEMMA SameControlThread == C!Thread => CP!Thread
<1> USE DEF C!NextInterface, CP!NextInterface, C!usbVars, CP!usbVars,
            C!hostVars, CP!hostVars
<1>1. CASE \/ C!PollDisconnected \/ C!PollConfigured \/ C!NothingPending
           \/ C!TakeEvent \/ C!FollowUp \/ C!NoPacket
  BY <1>1
  DEF CP!Thread, C!PollDisconnected, CP!PollDisconnected, C!PollConfigured,
      CP!PollConfigured, C!NothingPending, CP!NothingPending, C!TakeEvent,
      CP!TakeEvent, C!FollowUp, CP!FollowUp, C!NoPacket, CP!NoPacket
<1>2. CASE C!PostStage \/ C!PostStageFails \/ C!StageFails \/ C!DataStageDone
  BY <1>2
  DEF CP!Thread, C!PostStage, CP!PostStage, C!InWindow, CP!InWindow,
      C!PostStageFails, CP!PostStageFails, C!StageFails, CP!StageFails,
      C!StageDue, CP!StageDue, C!DataStageDone, CP!DataStageDone
<1>3. C!StatusStageDone => CP!StatusStageDone
  BY DEF C!StatusStageDone, CP!StatusStageDone, C!IsCommit, CP!IsCommit,
      C!HandleSetupPacket, CP!HandleSetupPacket, C!HandleVsSetup, CP!HandleVsSetup,
      C!HandleVcSetup, CP!HandleVcSetup, C!HandleStandard, CP!HandleStandard,
      C!ForThisInterface, CP!ForThisInterface, C!Answer, CP!Answer, C!Keep, CP!Keep,
      C!StallError, CP!StallError
<1>4. C!StallFailed => CP!StallFailed
  BY DEF C!StallFailed, CP!StallFailed, C!StallCtrl, CP!StallCtrl,
      C!HostSees, CP!HostSees, C!InWindow, CP!InWindow, C!NoTransfer, CP!NoTransfer,
      C!ReadsErrorCode, CP!ReadsErrorCode,
      C!HandleSetupPacket, CP!HandleSetupPacket, C!HandleVsSetup, CP!HandleVsSetup,
      C!HandleVcSetup, CP!HandleVcSetup, C!HandleStandard, CP!HandleStandard,
      C!ForThisInterface, CP!ForThisInterface, C!Answer, CP!Answer, C!Keep, CP!Keep,
      C!StallError, CP!StallError
<1>5. QED
  BY <1>1, <1>2, <1>3, <1>4, SameFetch DEF C!Thread, CP!Thread

LEMMA SamePolls ==
    C!PollDisconnected \/ C!PollConfigured => C!Thread
BY DEF C!Thread

LEMMA SameHost ==
    /\ \A r \in Requests : C!HostSends(r) => CP!HostSends(r)
    /\ C!HostRunsStage => CP!HostRunsStage
    /\ C!StageError => CP!StageError
    /\ C!Unplug => CP!Unplug
    /\ C!Plug => CP!Plug
<1> USE DEF C!codeVars, CP!codeVars, C!usbVars, CP!usbVars, C!hostVars, CP!hostVars,
            C!NoTransfer, CP!NoTransfer, C!Interfaces, CP!Interfaces
<1>1. ASSUME NEW r \in Requests, C!HostSends(r) PROVE CP!HostSends(r)
  BY <1>1 DEF C!HostSends, CP!HostSends, C!HostStages, CP!HostStages,
              C!Signalled, CP!Signalled
<1>2. C!HostRunsStage => CP!HostRunsStage
  BY DEF C!HostRunsStage, CP!HostRunsStage, C!StageDue, CP!StageDue, C!IsCommit,
         CP!IsCommit, C!HostSees, CP!HostSees, C!ReadsErrorCode, CP!ReadsErrorCode
<1>3. C!StageError => CP!StageError
  BY DEF C!StageError, CP!StageError
<1>4. C!Unplug => CP!Unplug
  BY DEF C!Unplug, CP!Unplug
<1>5. C!Plug => CP!Plug
  BY DEF C!Plug, CP!Plug
<1>6. QED
  BY <1>1, <1>2, <1>3, <1>4, <1>5

LEMMA SameSendFrame == \A n \in FrameSizes : S!SendFrame(n) => SP!SendFrame(n)
BY DEF S!SendFrame, SP!SendFrame, S!linkVars, SP!linkVars, S!frameVars, SP!frameVars,
       S!urbVars, SP!urbVars

LEMMA SameSendThread == S!Thread => SP!Thread
<1> USE DEF S!linkVars, SP!linkVars, S!frameVars, SP!frameVars, S!callVars,
            SP!callVars, S!urbVars, SP!urbVars
<1>1. /\ S!PostPayload => SP!PostPayload
      /\ S!PostZlp => SP!PostZlp
  BY DEF S!PostPayload, SP!PostPayload, S!PostZlp, SP!PostZlp, S!Post, SP!Post,
       S!Payload, SP!Payload, S!Zlp, SP!Zlp, S!HeaderLen, SP!HeaderLen,
       S!HeaderEof, SP!HeaderEof, S!ChunkSize, SP!ChunkSize,
       S!IsLastChunk, SP!IsLastChunk, S!MaxPayload, SP!MaxPayload,
       S!MaxTransferSize, SP!MaxTransferSize
<1> USE DEF S!PostRefused, SP!PostRefused, S!Advance, SP!Advance,
            S!ChunkSize, SP!ChunkSize, S!IsLastChunk, SP!IsLastChunk,
            S!MaxPayload, SP!MaxPayload, S!MaxTransferSize, SP!MaxTransferSize,
            S!Completed, SP!Completed, S!NoUrb, SP!NoUrb
<1>2. /\ S!PostPayloadFails => SP!PostPayloadFails
      /\ S!PostZlpFails => SP!PostZlpFails
  BY DEF S!PostPayloadFails, SP!PostPayloadFails, S!PostZlpFails, SP!PostZlpFails
<1>3. /\ S!PayloadCompleted => SP!PayloadCompleted
      /\ S!PayloadReportFails => SP!PayloadReportFails
      /\ S!ZlpCompleted => SP!ZlpCompleted
  BY DEF S!PayloadCompleted, SP!PayloadCompleted, S!ParsedOk, SP!ParsedOk,
       S!NeedsZlp, SP!NeedsZlp, S!ZlpModulus, SP!ZlpModulus,
       S!PayloadReportFails, SP!PayloadReportFails, S!ZlpCompleted, SP!ZlpCompleted
<1>4. /\ S!Timeout => SP!Timeout
      /\ S!Cancel => SP!Cancel
      /\ S!ReapCancelled => SP!ReapCancelled
      /\ S!ReapTimeout => SP!ReapTimeout
      /\ S!Finish => SP!Finish
  BY DEF S!Timeout, SP!Timeout, S!Cancel, SP!Cancel, S!ReapCancelled, SP!ReapCancelled,
       S!ReapTimeout, SP!ReapTimeout, S!Finish, SP!Finish
<1>5. QED
  BY <1>1, <1>2, <1>3, <1>4 DEF S!Thread, SP!Thread

LEMMA SamePipe ==
    /\ S!HostRead => SP!HostRead
    /\ S!CancelCompletes => SP!CancelCompletes
    /\ S!CancelCompletesPartly => SP!CancelCompletesPartly
BY DEF S!HostRead, SP!HostRead, S!Receive, SP!Receive, S!ReceivePart, SP!ReceivePart,
       S!Parse, SP!Parse, S!Joined, SP!Joined, S!EndsShort, SP!EndsShort,
       S!Extend, SP!Extend, S!HeaderLen, SP!HeaderLen,
       S!OutstandingUrb, SP!OutstandingUrb, S!CancelCompletes, SP!CancelCompletes,
       S!CancelCompletesPartly, SP!CancelCompletesPartly,
       S!linkVars, SP!linkVars, S!frameVars, SP!frameVars, S!callVars, SP!callVars

LEMMA SameSend == S!Next => SP!Next
<1> USE DEF S!linkVars, SP!linkVars, S!frameVars, SP!frameVars, S!callVars,
            SP!callVars, S!urbVars, SP!urbVars
<1>1. /\ S!PollDisconnected => SP!PollDisconnected
      /\ S!Connect => SP!Connect
      /\ S!Commit => SP!Commit
      /\ S!Unplug => SP!Unplug
      /\ S!Plug => SP!Plug
      /\ S!TransferError => SP!TransferError
      /\ S!HostRestart => SP!HostRestart
  BY DEF S!PollDisconnected, SP!PollDisconnected, S!Connect, SP!Connect,
       S!Commit, SP!Commit, S!Unplug, SP!Unplug, S!Plug, SP!Plug,
       S!OutstandingUrb, SP!OutstandingUrb, S!FreshHost, SP!FreshHost,
       S!TransferError, SP!TransferError, S!HostRestart, SP!HostRestart
<1>2. QED
  BY <1>1, SamePipe, SameSendFrame, SameSendThread
  DEF S!Next, SP!Next, S!CompletesCancelled, SP!CompletesCancelled

LEMMA SameCapture ==
    /\ G!Read(Video) => GP!Read(Video)
    /\ G!Works(Video) => GP!Works(Video)
    /\ G!Arrives(Video) => GP!Arrives(Video)
<1> USE DEF G!initVars, GP!initVars, G!videoVars, GP!videoVars, G!Goto, GP!Goto,
            G!Return, GP!Return
<1>1. G!Read(Video) => GP!Read(Video)
  BY DEF G!Read, GP!Read
<1>2. G!Works(Video) => GP!Works(Video)
  BY DEF G!Works, GP!Works, G!TransferNotInitialized, GP!TransferNotInitialized,
         G!TransferFails, GP!TransferFails, G!FastPath, GP!FastPath,
         G!SlowPath, GP!SlowPath, G!MayReadClear, GP!MayReadClear, G!Lock, GP!Lock,
         G!AlreadyCalled, GP!AlreadyCalled, G!MarkCalled, GP!MarkCalled,
         G!BeginSucceeds, GP!BeginSucceeds, G!BeginFails, GP!BeginFails,
         G!UnlockFailed, GP!UnlockFailed, G!UnlockBegun, GP!UnlockBegun
<1>3. G!Arrives(Video) => GP!Arrives(Video)
  BY DEF G!Arrives, GP!Arrives, G!AudioArrives, GP!AudioArrives,
         G!VideoArrives, GP!VideoArrives, G!InjectionDue, GP!InjectionDue,
         G!HasRoom, GP!HasRoom, G!PrefixLen, GP!PrefixLen, G!VbufSz, GP!VbufSz,
         G!Saturated, GP!Saturated
<1>4. QED
  BY <1>1, <1>2, <1>3

LEMMA SameMain == L!Next => LP!Next
BY DEF L!Next, LP!Next, L!Goes, LP!Goes, L!Acquire, LP!Acquire, L!Fatal, LP!Fatal,
       L!InitSm, LP!InitSm, L!SetsysFails, LP!SetsysFails, L!InitSetsys, LP!InitSetsys,
       L!ReadVersion, LP!ReadVersion, L!InitLog, LP!InitLog,
       L!SerialUnknown, LP!SerialUnknown, L!OpenSerial, LP!OpenSerial,
       L!ReadSerial, LP!ReadSerial, L!OpenGrcVideo, LP!OpenGrcVideo,
       L!OpenGrcAudio, LP!OpenGrcAudio, L!InitUvc, LP!InitUvc,
       L!UvcFails, LP!UvcFails, L!LaunchThread, LP!LaunchThread,
       L!LaunchVideo, LP!LaunchVideo, L!LaunchAudio, LP!LaunchAudio,
       L!LaunchFails, LP!LaunchFails, L!BootFails, LP!BootFails,
       L!CoreOwned, LP!CoreOwned, L!AppExit, LP!AppExit

(***************************************************************************)
(* What each step of the loop does to the state two components share, and  *)
(* where it leaves the thread.                                             *)
(***************************************************************************)
\* EP0 between two calls of UvcDeviceProcessRequests, and inside of one: a
\* device that has seen a host is disconnected by a poll only.
LEMMA ServesOnly ==
    ASSUME C!Thread, controlPc # "out"
    PROVE  /\ state' \in {state, "STREAMING"}
           /\ UNCHANGED <<configured, committed>>
BY DEF C!Thread, C!PollDisconnected, C!PollConfigured, C!NothingPending, C!TakeEvent,
       C!FollowUp, C!NoPacket, C!Fetch, C!PostStage, C!PostStageFails, C!StageFails,
       C!DataStageDone, C!StatusStageDone, C!StallFailed, C!usbVars, C!hostVars

\* What the host does to EP0 is no business of the thread's place in it.
LEMMA HostLeavesThread ==
    ASSUME \/ \E r \in Requests : C!HostSends(r)
           \/ C!HostRunsStage \/ C!StageError
    PROVE  /\ UNCHANGED <<controlPc, configured, state>>
           /\ (ctrlUrb = "pending" \/ ctrlUrb' = ctrlUrb)
           /\ committed' # committed => ctrlUrb = "pending" /\ C!HostRunsStage
BY DEF C!HostSends, C!HostRunsStage, C!StageDue, C!StageError, C!codeVars, C!usbVars,
       C!hostVars

LEMMA SendLeavesLink == S!Thread \/ S!SendFrame(frame.size) => UNCHANGED linkVars
BY DEF S!Thread, S!SendFrame, S!PostPayload, S!PostPayloadFails, S!PostZlp, S!PostZlpFails,
       S!PayloadCompleted, S!PayloadReportFails, S!ZlpCompleted, S!Timeout, S!Cancel,
       S!ReapCancelled, S!ReapTimeout, S!Finish, S!linkVars, linkVars

(***************************************************************************)
(* The invariant of the loop. The thread is in the component its place in  *)
(* the loop says; it reads and sends only while it streams; and what is on *)
(* the bulk pipe belongs to a stream.                                      *)
(***************************************************************************)
Places == {"off", "wait", "poll", "serve", "check", "read", "send", "sending"}

Placed ==
    /\ at \in Places
    /\ at = "serve" <=> controlPc # "out"
    /\ at = "read" <=> readPc[Video] # "idle"
    /\ at = "sending" <=> sendPc # "idle"
    /\ at = "off" <=> Video \notin threads

Streams ==
    /\ at \in {"read", "send", "sending"} => state = "STREAMING"
    /\ at = "send" => frame.size \in FrameSizes

\* A served request has a device that has seen its host; EP0's URB is in use
\* only while a stage is.
Serves ==
    /\ controlPc # "out" => state # "DISCONNECTED"
    /\ controlPc \notin {"stage", "stall"} => ctrlUrb = "none"

\* A device that does not stream has nothing on the bulk pipe.
Flows == SP!OutstandingUrb \/ host # S!FreshHost => state = "STREAMING"

Loop == Placed /\ Streams /\ Serves /\ Flows

\* The components' own invariants.
Parts == /\ CP!Typed
         /\ SP!TypeOK /\ SP!Progress /\ SP!Slot
         /\ GP!IInv
         /\ LP!IInv

(***************************************************************************)
(* Every step of the sysmodule is one of each component, or none.          *)
(***************************************************************************)
LEMMA MainStep == [Next]_vars => [LP!Next]_(LP!vars)
<1> SUFFICES ASSUME [Next]_vars PROVE [LP!Next]_(LP!vars)
  OBVIOUS
<1>0. UNCHANGED mainVars => UNCHANGED LP!vars
  BY DEF mainVars, LP!vars
<1>1. CASE MainThread
  BY <1>1, SameMain DEF MainThread
<1>2. CASE VideoThread \/ GrcAnswers
  BY <1>2, <1>0
  DEF VideoThread, WaitReady, PollGone, PollNothing, PollConnected, Serve,
      NotStreaming, Streaming, Send, Sending, Capture, GrcAnswers, FrameArrives
<1>3. CASE Host
  BY <1>3, <1>0
  DEF Host, Unplug, Plug, HostControls, HostReads, HostCloses, CompletesCancelled
<1>4. CASE UNCHANGED vars
  BY <1>4, <1>0 DEF vars
<1>5. QED
  BY <1>1, <1>2, <1>3, <1>4 DEF Next

LEMMA CaptureStep == [Next]_vars => [GP!Next]_(GP!vars)
<1> SUFFICES ASSUME [Next]_vars PROVE [GP!Next]_(GP!vars)
  OBVIOUS
<1>0. UNCHANGED captureVars => UNCHANGED GP!vars
  BY DEF captureVars, GP!vars, GP!initVars, GP!videoVars
<1>1. CASE MainThread
  BY <1>1, <1>0 DEF MainThread
<1>2. CASE \/ WaitReady \/ PollGone \/ PollNothing \/ PollConnected \/ Serve
           \/ NotStreaming \/ Send \/ Sending
  BY <1>2, <1>0
  DEF WaitReady, PollGone, PollNothing, PollConnected, Serve, NotStreaming, Send,
      Sending
<1>3. CASE Streaming \/ Capture \/ FrameArrives
  BY <1>3, SameCapture
  DEF Streaming, Capture, FrameArrives, GP!Next, GP!Step
<1>4. CASE Host
  BY <1>4, <1>0
  DEF Host, Unplug, Plug, HostControls, HostReads, HostCloses, CompletesCancelled
<1>5. CASE UNCHANGED vars
  BY <1>5, <1>0 DEF vars
<1>6. QED
  BY <1>1, <1>2, <1>3, <1>4, <1>5 DEF Next, VideoThread, GrcAnswers

\* The host closes its stream: the one step EP0 has no part in.
LEMMA ControlStep == [Next]_vars => [CP!Next]_(CP!vars) \/ HostCloses
<1> SUFFICES ASSUME [Next]_vars, ~HostCloses PROVE [CP!Next]_(CP!vars)
  OBVIOUS
<1>0. UNCHANGED <<linkVars, controlVars>> => UNCHANGED CP!vars
  BY DEF linkVars, controlVars, CP!vars, CP!codeVars, CP!usbVars, CP!hostVars
<1>1. CASE MainThread
  BY <1>1, <1>0 DEF MainThread
<1>2. CASE WaitReady \/ PollNothing \/ NotStreaming \/ Streaming
  BY <1>2, <1>0 DEF WaitReady, PollNothing, NotStreaming, Streaming
<1>3. CASE PollGone \/ PollConnected \/ Serve
  BY <1>3, SamePolls, SameControlThread DEF PollGone, PollConnected, Serve, CP!Next
<1>4. CASE Capture \/ FrameArrives
  BY <1>4, <1>0 DEF Capture, FrameArrives
<1>5. CASE Send \/ Sending
  BY <1>5, <1>0, SendLeavesLink DEF Send, Sending
<1>6. CASE Unplug \/ Plug \/ HostControls
  BY <1>6, SameHost DEF Unplug, Plug, HostControls, CP!Next
<1>7. CASE HostReads \/ CompletesCancelled
  BY <1>7, <1>0
  DEF HostReads, CompletesCancelled, S!HostRead, S!CancelCompletes,
      S!CancelCompletesPartly, S!linkVars, linkVars
<1>8. CASE UNCHANGED vars
  BY <1>8, <1>0 DEF vars
<1>9. QED
  BY <1>1, <1>2, <1>3, <1>4, <1>5, <1>6, <1>7, <1>8
  DEF Next, VideoThread, GrcAnswers, Host

\* Between two calls, and only then, the loop notices hosts, resets the FID and
\* starts to stream; everything else it does is invisible to UvcSendFrame.
LEMMA SendStep ==
    ASSUME Loop, SP!TypeOK, [Next]_vars
    PROVE  [S!Next]_(S!vars)
<1>0. UNCHANGED <<linkVars, bulkVars>> => UNCHANGED S!vars
  BY DEF linkVars, bulkVars, S!vars, S!linkVars, S!frameVars, S!callVars, S!urbVars
<1>i. at # "sending" => sendPc = "idle"
  BY DEF Loop, Placed
<1> USE DEF S!linkVars, S!frameVars, S!callVars, S!urbVars
<1>1. CASE MainThread \/ WaitReady \/ PollNothing \/ NotStreaming \/ Streaming
  BY <1>1, <1>0 DEF MainThread, WaitReady, PollNothing, NotStreaming, Streaming
<1>2. CASE Capture \/ FrameArrives
  BY <1>2, <1>0 DEF Capture, FrameArrives
<1>3. CASE PollGone
  <2>1. S!PollDisconnected
    BY <1>3, <1>i
    DEF PollGone, Polls, C!PollDisconnected, C!usbVars, S!PollDisconnected, bulkVars
  <2>2. QED
    BY <2>1 DEF S!Next
<1>4. CASE PollConnected
  <2>1. at = "poll" /\ C!PollConfigured
    BY <1>4 DEF PollConnected, Polls
  <2>2. CASE state = "DISCONNECTED"
    <3>1. S!Connect
      BY <1>4, <1>i, <2>1, <2>2
      DEF PollConnected, ResetFrames, C!PollConfigured, C!usbVars, S!Connect
    <3>2. QED
      BY <3>1 DEF S!Next
  <2>3. CASE state # "DISCONNECTED"
    BY <1>0, <1>4, <2>1, <2>3
    DEF PollConnected, C!PollConfigured, C!usbVars, linkVars
  <2>4. QED
    BY <2>2, <2>3
<1>5. CASE Serve
  <2>1. /\ at = "serve" /\ controlPc # "out" /\ state # "DISCONNECTED"
        /\ UNCHANGED bulkVars
    BY <1>5 DEF Serve, Loop, Placed, Serves
  <2>2. state' \in {state, "STREAMING"} /\ UNCHANGED configured
    BY <1>5, <2>1, ServesOnly DEF Serve
  <2>3. CASE state' = state
    BY <1>0, <2>1, <2>2, <2>3 DEF linkVars
  <2>4. CASE state' # state
    <3>1. state = "CONNECTED"
      BY <2>1, <2>2, <2>4 DEF SP!TypeOK
    <3>2. S!Commit
      BY <1>i, <2>1, <2>2, <2>4, <3>1 DEF S!Commit, bulkVars
    <3>3. QED
      BY <3>2 DEF S!Next
  <2>5. QED
    BY <2>3, <2>4
<1>6. CASE Send
  <2>1. frame.size \in FrameSizes
    BY <1>6 DEF Send, Loop, Streams
  <2>2. QED
    BY <1>6, <2>1 DEF Send, S!Next
<1>7. CASE Sending
  BY <1>7 DEF Sending, S!Next
<1>8. CASE Unplug \/ Plug \/ HostReads \/ CompletesCancelled
  BY <1>8
  DEF Unplug, Plug, HostReads, CompletesCancelled, S!Next, S!CompletesCancelled
<1>9. CASE HostControls
  BY <1>0, <1>9, HostLeavesThread DEF HostControls, linkVars
<1>10. CASE HostCloses
  <2>1. CASE host = S!FreshHost
    BY <1>0, <1>10, <2>1 DEF HostCloses, linkVars, bulkVars
  <2>2. CASE host # S!FreshHost
    <3>1. S!HostRestart
      BY <1>10, <2>2 DEF HostCloses, linkVars, Loop, Flows, S!HostRestart
    <3>2. QED
      BY <3>1 DEF S!Next
  <2>3. QED
    BY <2>1, <2>2
<1>11. CASE UNCHANGED vars
  BY <1>11, <1>0 DEF vars
<1>12. QED
  BY <1>1, <1>2, <1>3, <1>4, <1>5, <1>6, <1>7, <1>8, <1>9, <1>10, <1>11
  DEF Next, VideoThread, GrcAnswers, Host

\* The host closes its stream: EP0 goes on as if nothing had happened.
LEMMA HostForgets == HostCloses => CP!Forgets
BY DEF HostCloses, CP!Forgets, CP!codeVars, CP!usbVars, linkVars

LEMMA SameSendVars == UNCHANGED S!vars => UNCHANGED SP!vars
BY DEF S!vars, SP!vars, S!linkVars, SP!linkVars, S!frameVars, SP!frameVars, S!callVars,
       SP!callVars, S!urbVars, SP!urbVars

\* The components keep their own invariants. The one step that is not EP0's
\* changes nothing its invariant is about.
LEMMA PartsStep ==
    ASSUME Loop, Parts, [Next]_vars
    PROVE  Parts'
<1>1. [SP!Next]_(SP!vars)
  BY SendStep, SameSend, SameSendVars DEF Parts
<1>2. SP!TypeOK' /\ SP!Progress' /\ SP!Slot'
  BY <1>1, SameAssumptions, SP!TypeStep, SP!ProgressStep, SP!SlotStep DEF Parts
<1>3. GP!IInv'
  BY CaptureStep, SameAssumptions, GP!InvStep DEF Parts
<1>4. LP!IInv'
  BY MainStep, LP!IInvStep DEF Parts
<1>5. CP!Typed'
  <2>1. CASE HostCloses
    BY <2>1, SameAssumptions, HostForgets, CP!ForgetStep DEF Parts
  <2>2. CASE [CP!Next]_(CP!vars)
    BY <2>2, SameAssumptions, CP!TypeStep DEF Parts
  <2>3. QED
    BY <2>1, <2>2, ControlStep
<1>6. QED
  BY <1>2, <1>3, <1>4, <1>5 DEF Parts

(***************************************************************************)
(* The loop keeps its own invariant, one conjunct at a time.               *)
(***************************************************************************)
\* Threads are started and never stopped.
LEMMA ThreadsGrow == L!Next => threads \subseteq threads'
BY DEF L!Next, L!Fatal, L!InitSm, L!SetsysFails, L!InitSetsys, L!ReadVersion, L!InitLog,
       L!SerialUnknown, L!OpenSerial, L!ReadSerial, L!OpenGrcVideo, L!OpenGrcAudio,
       L!InitUvc, L!UvcFails, L!LaunchThread, L!LaunchVideo, L!LaunchAudio,
       L!LaunchFails, L!BootFails, L!AppExit

\* A read begins, and ends with whatever it returns.
LEMMA ReadPlaces ==
    ASSUME Parts
    PROVE  /\ G!Read(Video) => readPc'[Video] = "transfer"
           /\ G!Arrives(Video) => readPc'[Video] = "idle"
<1>1. readPc \in [{Video} -> GP!Labels]
  BY DEF Parts, GP!IInv, GP!TypeOK
<1>2. G!Read(Video) => readPc'[Video] = "transfer"
  BY <1>1 DEF G!Read, G!Goto
<1>3. G!Arrives(Video) => readPc'[Video] = "idle"
  BY <1>1 DEF G!Arrives, G!AudioArrives, G!VideoArrives, G!Return, G!Goto
<1>4. QED
  BY <1>2, <1>3

LEMMA PlacedStep ==
    ASSUME Loop, Parts, [Next]_vars
    PROVE  Placed'
<1> USE DEF Loop, Placed, Places
<1>1. CASE MainThread
  BY <1>1, ThreadsGrow DEF MainThread, controlVars, bulkVars, captureVars
<1>2. CASE WaitReady \/ PollGone \/ PollNothing \/ NotStreaming
  BY <1>2
  DEF WaitReady, PollGone, C!PollDisconnected, PollNothing, Polls, NotStreaming,
      controlVars, bulkVars, captureVars, mainVars
<1>3. CASE PollConnected
  <2>1. /\ at = "poll" /\ at' = "serve" /\ controlPc' = "serve"
        /\ UNCHANGED <<sendPc, readPc, threads>>
    BY <1>3
    DEF PollConnected, Polls, C!PollConfigured, ResetFrames, bulkVars, captureVars,
        mainVars
  <2>2. QED
    BY <2>1
<1>4. CASE Serve
  BY <1>4 DEF Serve, AfterServing, bulkVars, captureVars, mainVars
<1>5. CASE Streaming
  <2>1. /\ at = "check" /\ at' = "read" /\ readPc'[Video] = "transfer"
        /\ UNCHANGED <<controlPc, sendPc, threads>>
    BY <1>5, ReadPlaces DEF Streaming, controlVars, bulkVars, mainVars
  <2>2. QED
    BY <2>1
<1>6. CASE Capture
  BY <1>6 DEF Capture, controlVars, bulkVars, mainVars
<1>7. CASE FrameArrives
  <2>1. /\ at = "read" /\ at' = "send" /\ readPc'[Video] = "idle"
        /\ UNCHANGED <<controlPc, sendPc, threads>>
    BY <1>7, ReadPlaces DEF FrameArrives, controlVars, bulkVars, mainVars
  <2>2. QED
    BY <2>1
<1>8. CASE Send
  <2>1. /\ at = "send" /\ at' = "sending" /\ sendPc' = "post"
        /\ UNCHANGED <<controlPc, readPc, threads>>
    BY <1>8 DEF Send, S!SendFrame, controlVars, captureVars, mainVars
  <2>2. QED
    BY <2>1
<1>9. CASE Sending
  BY <1>9 DEF Sending, AfterSending, controlVars, captureVars, mainVars
<1>10. CASE HostControls
  BY <1>10, HostLeavesThread DEF HostControls, bulkVars, captureVars, mainVars
<1>11. CASE Unplug \/ Plug
  BY <1>11
  DEF Unplug, Plug, C!Unplug, C!Plug, C!codeVars, S!Unplug, S!Plug, captureVars, mainVars
<1>12. CASE HostReads \/ HostCloses \/ CompletesCancelled
  BY <1>12
  DEF HostReads, S!HostRead, HostCloses, CompletesCancelled, S!CancelCompletes,
      S!CancelCompletesPartly, controlVars, captureVars, mainVars
<1>13. CASE UNCHANGED vars
  BY <1>13 DEF vars, controlVars, bulkVars, captureVars, mainVars
<1>14. QED
  BY <1>1, <1>2, <1>3, <1>4, <1>5, <1>6, <1>7, <1>8, <1>9, <1>10, <1>11, <1>12,
     <1>13
  DEF Next, VideoThread, GrcAnswers, Host

\* Frames the capture hands over are frames UvcSendFrame is ready for.
LEMMA FrameSize == G!Arrives(Video) => frame'.size \in FrameSizes
<1> SUFFICES ASSUME G!Arrives(Video) PROVE frame'.size \in FrameSizes
  OBVIOUS
<1>1. PICK n \in DataSizes, key \in BOOLEAN : G!VideoArrives(n, key)
  BY DEF G!Arrives, G!AudioArrives
<1> DEFINE prefix == inject /\ key /\ G!InjectionDue(idrCount + 1) /\ G!HasRoom(n)
<1>2. frame' = [key |-> key, prefixed |-> prefix, raw |-> n,
                size |-> IF prefix THEN n + G!PrefixLen ELSE n]
  BY <1>1 DEF G!VideoArrives
<1>3. n > 4 /\ (prefix => G!HasRoom(n))
  BY <1>1 DEF G!VideoArrives
<1> HIDE DEF prefix
<1>4. frame'.size = IF prefix THEN n + G!PrefixLen ELSE n
  BY <1>2
<1>5. QED
  BY <1>3, <1>4 DEF FrameSizes

LEMMA StreamsStep ==
    ASSUME Loop, Parts, [Next]_vars
    PROVE  Streams'
<1> USE DEF Loop, Streams
<1>1. CASE MainThread
  BY <1>1 DEF MainThread, linkVars, captureVars
<1>2. CASE WaitReady \/ PollGone \/ PollNothing \/ PollConnected \/ NotStreaming
  BY <1>2 DEF WaitReady, PollGone, PollNothing, PollConnected, NotStreaming
<1>3. CASE Serve
  BY <1>3 DEF Serve, AfterServing
<1>4. CASE Streaming \/ Capture
  BY <1>4 DEF Streaming, Capture, linkVars
<1>5. CASE FrameArrives
  BY <1>5, FrameSize DEF FrameArrives, linkVars
<1>6. CASE Send \/ Sending
  BY <1>6, SendLeavesLink DEF Send, Sending, AfterSending, linkVars
<1>7. CASE HostControls
  BY <1>7 DEF HostControls, captureVars
<1>8. CASE Unplug \/ Plug
  BY <1>8 DEF Unplug, Plug, C!Unplug, C!Plug, C!codeVars, captureVars
<1>9. CASE HostReads \/ HostCloses \/ CompletesCancelled
  BY <1>9
  DEF HostReads, S!HostRead, HostCloses, CompletesCancelled, S!CancelCompletes,
      S!CancelCompletesPartly, S!linkVars, linkVars, captureVars
<1>10. CASE UNCHANGED vars
  BY <1>10 DEF vars, linkVars, captureVars
<1>11. QED
  BY <1>1, <1>2, <1>3, <1>4, <1>5, <1>6, <1>7, <1>8, <1>9, <1>10
  DEF Next, VideoThread, GrcAnswers, Host


\* The control URB is reaped, or was never posted, when the thread leaves a stage.
LEMMA ServeReaps ==
    ASSUME C!Thread, controlPc \notin {"stage", "stall"} => ctrlUrb = "none"
    PROVE  controlPc' \notin {"stage", "stall"} => ctrlUrb' = "none"
<1>1. CASE \/ C!PollDisconnected \/ C!PollConfigured \/ C!NothingPending
           \/ C!TakeEvent \/ C!FollowUp \/ C!NoPacket
  BY <1>1 DEF C!PollDisconnected, C!PollConfigured, C!NothingPending, C!TakeEvent,
              C!FollowUp, C!NoPacket
<1>2. ASSUME NEW r \in Requests, C!Fetch(r)
      PROVE  controlPc' \notin {"stage", "stall"} => ctrlUrb' = "none"
  BY <1>2 DEF C!Fetch, C!StallCtrl
<1>3. CASE \/ C!PostStage \/ C!PostStageFails \/ C!StageFails \/ C!DataStageDone
           \/ C!StatusStageDone \/ C!StallFailed
  BY <1>3 DEF C!PostStage, C!PostStageFails, C!StageFails, C!DataStageDone,
              C!StatusStageDone, C!StallFailed, C!StallCtrl
<1>4. QED
  BY <1>1, <1>2, <1>3 DEF C!Thread

LEMMA ServesStep ==
    ASSUME Loop, Parts, [Next]_vars
    PROVE  Serves'
<1> USE DEF Loop, Serves
<1>1. CASE MainThread
  BY <1>1 DEF MainThread, linkVars, controlVars
<1>2. CASE WaitReady \/ PollNothing \/ NotStreaming \/ Streaming
  BY <1>2 DEF WaitReady, PollNothing, NotStreaming, Streaming, linkVars, controlVars
<1>3. CASE PollGone
  BY <1>3 DEF PollGone, C!PollDisconnected
<1>4. CASE PollConnected
  BY <1>4 DEF PollConnected, C!PollConfigured
<1>5. CASE Serve
  <2>1. controlPc # "out" /\ C!Thread
    BY <1>5 DEF Serve, Placed
  <2>2. state # "DISCONNECTED" /\ state' \in {state, "STREAMING"}
    BY <2>1, ServesOnly
  <2>3. QED
    BY <2>1, <2>2, ServeReaps
<1>6. CASE Capture \/ FrameArrives
  BY <1>6 DEF Capture, FrameArrives, linkVars, controlVars
<1>7. CASE Send \/ Sending
  BY <1>7, SendLeavesLink DEF Send, Sending, linkVars, controlVars
<1>8. CASE HostControls
  BY <1>8, HostLeavesThread DEF HostControls
<1>9. CASE Unplug \/ Plug
  BY <1>9 DEF Unplug, Plug, C!Unplug, C!Plug, C!codeVars
<1>10. CASE HostReads \/ HostCloses \/ CompletesCancelled
  BY <1>10
  DEF HostReads, S!HostRead, HostCloses, CompletesCancelled, S!CancelCompletes,
      S!CancelCompletesPartly, S!linkVars, linkVars, controlVars
<1>11. CASE UNCHANGED vars
  BY <1>11 DEF vars, linkVars, controlVars
<1>12. QED
  BY <1>1, <1>2, <1>3, <1>4, <1>5, <1>6, <1>7, <1>8, <1>9, <1>10, <1>11
  DEF Next, VideoThread, GrcAnswers, Host

\* Only a stream puts anything on the bulk pipe, and the host that stays without
\* one has read nothing.
LEMMA FlowsStep ==
    ASSUME Loop, Parts, [Next]_vars
    PROVE  Flows'
<1> USE DEF Loop, Flows, SP!OutstandingUrb, S!OutstandingUrb
<1>f. S!FreshHost = SP!FreshHost /\ S!FreshHost' = S!FreshHost
  BY DEF S!FreshHost, SP!FreshHost
<1>1. CASE MainThread \/ WaitReady \/ PollNothing \/ NotStreaming \/ Streaming
  BY <1>1, <1>f DEF MainThread, WaitReady, PollNothing, NotStreaming, Streaming, linkVars, bulkVars
<1>2. CASE Capture \/ FrameArrives
  BY <1>2, <1>f DEF Capture, FrameArrives, linkVars, bulkVars
<1>3. CASE PollGone
  <2>1. ~configured /\ UNCHANGED bulkVars
    BY <1>3 DEF PollGone, C!PollDisconnected
  <2>2. host = S!FreshHost /\ ~SP!OutstandingUrb
    BY <1>f, <2>1 DEF Parts, SP!Slot, SP!NoHost
  <2>3. QED
    BY <1>f, <2>1, <2>2 DEF bulkVars
<1>4. CASE PollConnected
  BY <1>4, <1>f DEF PollConnected, ResetFrames, C!PollConfigured, bulkVars
<1>5. CASE Serve
  <2>1. state' \in {state, "STREAMING"} /\ UNCHANGED bulkVars
    BY <1>5, ServesOnly DEF Serve, Placed
  <2>2. QED
    BY <1>f, <2>1 DEF bulkVars
<1>6. CASE Send \/ Sending
  <2>1. state = "STREAMING" /\ state' = state
    BY <1>6, SendLeavesLink DEF Send, Sending, Streams, linkVars
  <2>2. QED
    BY <2>1
<1>7. CASE HostControls
  BY <1>7, <1>f DEF HostControls, bulkVars
<1>8. CASE Unplug
  <2>1. urb' = [urb EXCEPT !.state = IF S!OutstandingUrb THEN "failed" ELSE @]
        /\ host' = S!FreshHost
    BY <1>8 DEF Unplug, S!Unplug
  <2>2. ~SP!OutstandingUrb'
    <3>1. urb \in SP!Urbs
      BY DEF Parts, SP!TypeOK
    <3>2. urb'.state = IF S!OutstandingUrb THEN "failed" ELSE urb.state
      BY <2>1, <3>1 DEF SP!Urbs
    <3>3. QED
      BY <3>2
  <2>3. QED
    BY <1>f, <2>1, <2>2
<1>9. CASE Plug
  BY <1>9, <1>f DEF Plug, C!Plug, C!codeVars, S!Plug, S!urbVars
<1>10. CASE HostReads \/ CompletesCancelled
  <2>1. S!OutstandingUrb /\ state' = state
    BY <1>10
    DEF HostReads, S!HostRead, CompletesCancelled, S!CancelCompletes,
        S!CancelCompletesPartly, S!linkVars
  <2>2. QED
    BY <2>1
<1>11. CASE HostCloses
  BY <1>11, <1>f DEF HostCloses, linkVars
<1>12. CASE UNCHANGED vars
  BY <1>12, <1>f DEF vars, linkVars, bulkVars
<1>13. QED
  BY <1>1, <1>2, <1>3, <1>4, <1>5, <1>6, <1>7, <1>8, <1>9, <1>10, <1>11, <1>12
  DEF Next, VideoThread, GrcAnswers, Host

(***************************************************************************)
(* The invariant of the sysmodule, under every fault.                      *)
(***************************************************************************)
IInv == Loop /\ Parts

LEMMA InvInit == Init => IInv
<1> SUFFICES ASSUME Init PROVE IInv
  OBVIOUS
<1>1. CP!Init /\ SP!Init /\ GP!Init /\ LP!Init
  BY SameInit DEF Init
<1>2. Parts
  BY <1>1, SameAssumptions, CP!TypeInit, SP!TypeInit, SP!ProgressInit, SP!SlotInit,
     GP!InvInit, LP!IInvInit
  DEF Parts
<1>3. /\ at = "off" /\ controlPc = "out" /\ readPc = [t \in {Video} |-> "idle"]
      /\ sendPc = "idle" /\ threads = {} /\ ctrlUrb = "none"
      /\ host = S!FreshHost /\ urb.state = "none"
  BY DEF Init, C!Init, S!Init, G!Init, L!Init, S!NoUrb
<1>4. Placed /\ Streams /\ Serves
  BY <1>3 DEF Placed, Places, Streams, Serves
<1>5. Flows
  BY <1>3 DEF Flows, SP!OutstandingUrb
<1>6. QED
  BY <1>2, <1>4, <1>5 DEF IInv, Loop

LEMMA InvStep == IInv /\ [Next]_vars => IInv'
<1> SUFFICES ASSUME Loop, Parts, [Next]_vars PROVE IInv'
  BY DEF IInv
<1>1. QED
  BY PartsStep, PlacedStep, StreamsStep, ServesStep, FlowsStep DEF IInv, Loop

LEMMA Invariance == Spec => []IInv
BY InvInit, InvStep, PTL DEF Spec


\* A component's invariant is about the instance of its module here as well.
LEMMA SameTypes ==
    ASSUME Parts
    PROVE  C!TypeOK /\ S!TypeOK /\ G!TypeOK /\ L!TypeOK
<1>1. C!TypeOK
  BY DEF Parts, CP!Typed, CP!TypeOK, C!TypeOK, CP!Codes, C!Codes, CP!Interfaces,
         C!Interfaces, CP!StageSeqs, C!StageSeqs, CP!Mail, C!Mail
<1>2. S!TypeOK
  <2>1. S!Urbs = SP!Urbs /\ S!Hosts = SP!Hosts /\ S!Numbers = SP!Numbers
        /\ S!Fids = SP!Fids
    BY DEF S!Urbs, SP!Urbs, S!Hosts, SP!Hosts, S!Numbers, SP!Numbers, S!Fids, SP!Fids,
           S!UrbStates, SP!UrbStates, S!HeaderLen, SP!HeaderLen,
           S!MaxTransferSize, SP!MaxTransferSize
  <2>2. QED
    BY <2>1 DEF Parts, SP!TypeOK, S!TypeOK
<1>3. G!TypeOK
  BY DEF Parts, GP!IInv, GP!TypeOK, G!TypeOK, GP!Labels, G!Labels, GP!Frames, G!Frames
<1>4. L!TypeOK
  BY DEF Parts, LP!IInv, LP!TypeOK, L!TypeOK, LP!Labels, L!Labels, LP!Resources,
         L!Resources
<1>5. QED
  BY <1>1, <1>2, <1>3, <1>4

(***************************************************************************)
(* Every variable keeps its type, and the thread is inside the component   *)
(* its place in the loop says and in no other.                             *)
(***************************************************************************)
THEOREM TypeCorrect == Spec => []TypeOK
<1>1. IInv => TypeOK
  BY SameTypes DEF IInv, Loop, Placed, Places, TypeOK
<1>2. QED
  BY Invariance, <1>1, PTL

(***************************************************************************)
(* The sysmodule implements UvcSendFrame's specification: the loop notices *)
(* hosts, resets the FID and starts to stream between two calls only, so   *)
(* what is proved of UvcDeviceSendFrame alone holds of it in the loop.     *)
(***************************************************************************)
THEOREM LoopImplementsSendFrame == Spec => ImplementsSendFrame
<1>1. Init => S!Init
  BY DEF Init
<1>2. IInv /\ [Next]_vars => [S!Next]_(S!vars)
  BY SendStep DEF IInv, Parts
<1>3. QED
  BY <1>1, <1>2, Invariance, PTL DEF Spec, ImplementsSendFrame, S!Spec

(***************************************************************************)
(* A process that exits has given back every session (__appExit).          *)
(***************************************************************************)
THEOREM AllReleased == Spec => []ReleasedOnExit
<1>1. IInv => ReleasedOnExit
  BY DEF IInv, Parts, LP!IInv, LP!ReleasedOnExit, ReleasedOnExit, L!ReleasedOnExit
<1>2. QED
  BY Invariance, <1>1, PTL

\* The threads run with every service they use or not at all, whatever the
\* loop is doing (main.c:175-270).
THEOREM PipelineWhole == Spec => []NeverHalfStarted
<1>1. IInv => NeverHalfStarted
  BY LP!WholeByIInv
  DEF IInv, Parts, NeverHalfStarted, L!NeverHalfStarted, LP!NeverHalfStarted
<1>2. QED
  BY Invariance, <1>1, PTL


(***************************************************************************)
(* Nothing the sysmodule does crashes the console, if the host runs the    *)
(* stages of a request within EP0's timeout and usb:ds keeps its own       *)
(* promises: it signals a device request on one interface, completes what  *)
(* was cancelled within 100 ms and hands out the report of what completed, *)
(* a stage of EP0 as well as a URB of the bulk pipe.                       *)
(***************************************************************************)
StagesReported == ControlFaults \intersect {"slow", "report"} = {}
ControlInTime == StagesReported /\ CP!OnlyInterfacesDoubled
UsbDsInTime == SendFaults \intersect {"report", "lateCancel"} = {}

\* A host comes back while the thread serves no request: it may be away in a
\* read or a send, but not in EP0.
LEMMA PlugsBetweenRequests ==
    ASSUME Loop, [Next]_vars, ~configured, configured'
    PROVE  controlPc = "out"
<1> USE DEF linkVars
<1>1. CASE \/ MainThread \/ WaitReady \/ PollNothing \/ NotStreaming \/ Streaming
           \/ Capture \/ FrameArrives \/ HostCloses
  BY <1>1 DEF MainThread, WaitReady, PollNothing, NotStreaming, Streaming, Capture,
              FrameArrives, HostCloses
<1>2. CASE PollGone \/ PollConnected
  BY <1>2 DEF PollGone, PollConnected, C!PollDisconnected, C!PollConfigured, C!usbVars
<1>3. CASE Serve
  BY <1>3, ServesOnly DEF Serve, Loop, Placed
<1>4. CASE Send \/ Sending
  BY <1>4, SendLeavesLink DEF Send, Sending
<1>5. CASE HostControls
  BY <1>5, HostLeavesThread DEF HostControls
<1>6. CASE Unplug
  BY <1>6 DEF Unplug, C!Unplug
<1>7. CASE Plug
  BY <1>7 DEF Plug, Loop, Placed, Serves
<1>8. CASE HostReads \/ CompletesCancelled
  BY <1>8
  DEF HostReads, S!HostRead, CompletesCancelled, S!CancelCompletes,
      S!CancelCompletesPartly, S!linkVars
<1>9. CASE UNCHANGED vars
  BY <1>9 DEF vars
<1>10. QED
  BY <1>1, <1>2, <1>3, <1>4, <1>5, <1>6, <1>7, <1>8, <1>9
  DEF Next, VideoThread, GrcAnswers, Host

\* EP0 keeps the invariants of its window and of its commits.
LEMMA RequestsStep ==
    ASSUME ControlInTime, IInv, CP!WindowInv, [Next]_vars
    PROVE  CP!WindowInv' /\ (CP!CommitServed => CP!CommitServed')
<1>1. configured' /\ ~configured => controlPc = "out"
  BY PlugsBetweenRequests DEF IInv
<1>2. CASE HostCloses
  BY <1>2, HostForgets, SameAssumptions, CP!ForgetStep DEF CP!Forgets, CP!CommitServed
<1>3. CASE [CP!Next]_(CP!vars)
  BY <1>1, <1>3, SameAssumptions, CP!WindowStep, CP!CommitServedStep
  DEF ControlInTime, StagesReported, CP!StagesReported
<1>4. QED
  BY <1>2, <1>3, ControlStep

LEMMA RequestsInit == Init => CP!WindowInv /\ CP!CommitServed
<1> SUFFICES ASSUME Init PROVE CP!WindowInv /\ CP!CommitServed
  OBVIOUS
<1>1. CP!Init
  BY SameInit DEF Init
<1>2. QED
  BY <1>1, SameAssumptions, CP!WindowInit DEF CP!Init, CP!CommitServed

\* The endpoint's slot is reaped before the next frame.
LEMMA SlotReaped ==
    ASSUME UsbDsInTime
    PROVE  Spec => [](SP!Reaped /\ SP!NeverAsserts)
<1>1. Init => SP!Reaped /\ SP!NeverAsserts
  <2> SUFFICES ASSUME Init PROVE SP!Reaped /\ SP!NeverAsserts
    OBVIOUS
  <2>1. SP!Init
    BY SameInit DEF Init
  <2>2. QED
    BY <2>1 DEF SP!Init, SP!NoUrb, SP!Reaped, SP!NeverAsserts
<1>2. SP!Reaped /\ SP!NeverAsserts /\ IInv /\ [Next]_vars
        => (SP!Reaped /\ SP!NeverAsserts)'
  <2> SUFFICES ASSUME SP!Reaped, SP!NeverAsserts, IInv, [Next]_vars
               PROVE  (SP!Reaped /\ SP!NeverAsserts)'
    OBVIOUS
  <2>1. [SP!Next]_(SP!vars) /\ SP!TypeOK
    BY SendStep, SameSend, SameSendVars DEF IInv, Parts
  <2>2. QED
    BY <2>1, SameAssumptions, SP!ReapedStep DEF UsbDsInTime
<1>3. QED
  BY <1>1, <1>2, Invariance, PTL DEF Spec

LEMMA RequestsKept ==
    ASSUME ControlInTime
    PROVE  Spec => [](CP!WindowInv /\ CP!CommitServed)
<1>1. CP!WindowInv /\ CP!CommitServed /\ IInv /\ [Next]_vars
        => (CP!WindowInv /\ CP!CommitServed)'
  BY RequestsStep
<1>2. QED
  BY RequestsInit, <1>1, Invariance, PTL DEF Spec

\* The loop of main.c never uses EP0 or the bulk pipe out of order, nor starts
\* grc:d twice, when the host leaves or stops reading, at any moment, and when it
\* returns. Without ControlInTime the stall after a status stage whose report is
\* late or lost would be outside a request's window (1109-1121, 1173-1176).
THEOREM NoCrash ==
    ASSUME ControlInTime, UsbDsInTime
    PROVE  Spec => []ConsoleStaysUp
<1>1. CP!WindowInv /\ SP!NeverAsserts /\ IInv => ConsoleStaysUp
  BY DEF CP!WindowInv, CP!TouchesInsideWindow, SP!NeverAsserts, IInv, Parts, GP!IInv,
         GP!BeginAtMostOnce, ConsoleStaysUp
<1>2. QED
  BY <1>1, Invariance, RequestsKept, SlotReaped, PTL

(***************************************************************************)
(* A host whose commit succeeded has a device that streams, also when the  *)
(* commit came after a disconnection the thread never saw. A commit whose  *)
(* status stage goes through while its report is late or lost is the case  *)
(* ControlInTime excludes: _ctrlRead fails and nothing starts (1251).      *)
(***************************************************************************)
THEOREM CommittedHostIsServed ==
    ASSUME ControlInTime
    PROVE  Spec => []CommittedStreams
<1>1. CP!CommitServed => CommittedStreams
  BY DEF CP!CommitServed, CP!Late, CP!Ended, CommittedStreams
<1>2. QED
  BY <1>1, RequestsKept, PTL


(***************************************************************************)
(* A host that has just committed is never sent the middle of a frame      *)
(* first. What the pipe holds for a host that has read nothing since its   *)
(* commit is the head of a frame: the commit was served between two calls, *)
(* with nothing left on the pipe, and a call that has sent nothing is at   *)
(* its first payload.                                                      *)
(***************************************************************************)
NoFrames == host.frames = {}
Unread ==
    /\ NoFrames => host = SP!FreshHost
    /\ committed /\ NoFrames /\ at = "sending" => received = 0
    /\ committed /\ NoFrames /\ SP!OutstandingUrb /\ urb.len > 0 => urb.src = 0

LEMMA FreshHasNoFrames ==
    S!FreshHost = SP!FreshHost /\ SP!FreshHost.frames = {}
BY DEF S!FreshHost, SP!FreshHost

\* A commit ends while the thread serves EP0, between two calls.
LEMMA CommitsWhileServing ==
    ASSUME Loop, [Next]_vars, ~committed, committed'
    PROVE  HostControls /\ at = "serve"
<1> USE DEF controlVars
<1>1. CASE \/ MainThread \/ WaitReady \/ PollNothing \/ NotStreaming \/ Streaming
           \/ Capture \/ FrameArrives \/ Send \/ Sending \/ HostReads \/ HostCloses
           \/ CompletesCancelled
  BY <1>1 DEF MainThread, WaitReady, PollNothing, NotStreaming, Streaming, Capture,
              FrameArrives, Send, Sending, HostReads, HostCloses, CompletesCancelled
<1>2. CASE PollGone \/ PollConnected
  BY <1>2 DEF PollGone, PollConnected, C!PollDisconnected, C!PollConfigured, C!hostVars
<1>3. CASE Serve
  BY <1>3, ServesOnly DEF Serve, Loop, Placed
<1>4. CASE HostControls
  <2>1. ctrlUrb = "pending"
    BY <1>4, HostLeavesThread DEF HostControls
  <2>2. QED
    BY <1>4, <2>1 DEF Loop, Serves, Placed
<1>5. CASE Unplug \/ Plug
  BY <1>5 DEF Unplug, Plug, C!Unplug, C!Plug, C!hostVars
<1>6. CASE UNCHANGED vars
  BY <1>6 DEF vars
<1>7. QED
  BY <1>1, <1>2, <1>3, <1>4, <1>5, <1>6 DEF Next, VideoThread, GrcAnswers, Host

LEMMA UnreadStep ==
    ASSUME IInv, SP!Reaped, Unread, [Next]_vars
    PROVE  /\ Unread'
           /\ host = S!FreshHost /\ host' # S!FreshHost => urb.src = 0
<1>t. urb \in SP!Urbs /\ host \in SP!Hosts /\ SP!TypeOK /\ SP!Progress
  BY DEF IInv, Parts, SP!TypeOK
<1>e. S!FreshHost' = S!FreshHost /\ SP!FreshHost' = SP!FreshHost
  BY DEF S!FreshHost, SP!FreshHost
<1> USE FreshHasNoFrames, <1>e DEF Unread, NoFrames
\* Steps that leave the pipe alone.
<1>1. ASSUME UNCHANGED <<host, received, urb>>, at' = "sending" => at = "sending",
             at # "sending" \/ committed' = committed \/ ~committed'
      PROVE  Unread'
  <2>1. SP!OutstandingUrb' = SP!OutstandingUrb
    BY <1>1 DEF SP!OutstandingUrb
  <2>2. CASE committed' => committed
    BY <1>1, <2>1, <2>2
  <2>3. CASE committed' /\ ~committed
    <3>1. at = "serve" /\ at' = at
      BY <2>3, CommitsWhileServing DEF IInv, HostControls
    <3>2. ~SP!OutstandingUrb
      BY <3>1 DEF IInv, Loop, Placed, SP!Reaped, SP!OutstandingUrb
    <3>3. QED
      BY <1>1, <2>1, <3>1, <3>2
  <2>4. QED
    BY <2>2, <2>3
<1>2. CASE \/ MainThread \/ WaitReady \/ PollGone \/ PollNothing \/ PollConnected
           \/ Serve \/ NotStreaming \/ Streaming \/ Capture \/ FrameArrives
           \/ HostControls \/ UNCHANGED vars
  <2>1. UNCHANGED <<host, received, urb>> /\ (at' = "sending" => at = "sending")
    BY <1>2
    DEF MainThread, WaitReady, PollGone, PollNothing, PollConnected, ResetFrames, Serve,
        AfterServing, NotStreaming, Streaming, Capture, FrameArrives, HostControls,
        vars, bulkVars
  <2>2. at # "sending" \/ committed' = committed \/ ~committed'
    BY CommitsWhileServing DEF IInv, Loop, Placed, HostControls
  <2>3. QED
    BY <1>1, <2>1, <2>2
<1>3. CASE Send
  <2>1. /\ received' = 0 /\ UNCHANGED <<urb, host, committed>>
    BY <1>3 DEF Send, S!SendFrame, S!urbVars, controlVars
  <2>2. QED
    BY <2>1 DEF SP!OutstandingUrb
<1>4. CASE Sending
  <2>1. /\ SP!Thread /\ at = "sending" /\ committed' = committed
    BY <1>4, SameSendThread DEF Sending, controlVars
  <2>2. UNCHANGED <<host, received>>
    BY <1>4
    DEF Sending, S!Thread, S!PostPayload, S!PostPayloadFails, S!PostZlp, S!PostZlpFails,
        S!PayloadCompleted, S!PayloadReportFails, S!ZlpCompleted, S!Timeout, S!Cancel,
        S!ReapCancelled, S!ReapTimeout, S!Finish
  <2>3. ASSUME SP!OutstandingUrb', urb'.len > 0
        PROVE  \/ SP!OutstandingUrb /\ urb.len > 0 /\ urb'.src = urb.src
               \/ urb'.src = received
    BY <1>t, <2>1, <2>3, SameAssumptions, SP!ThreadPosts
  <2>4. QED
    BY <2>1, <2>2, <2>3
<1>5. CASE Unplug \/ HostCloses
  BY <1>5 DEF Unplug, C!Unplug, S!Unplug, HostCloses
<1>6. CASE Plug
  <2>1. UNCHANGED <<host, received, urb, at, committed>>
    BY <1>6 DEF Plug, C!Plug, C!hostVars, S!Plug, S!urbVars
  <2>2. QED
    BY <1>1, <2>1
<1>7. CASE HostReads
  <2>1. SP!HostRead /\ committed /\ committed' = committed /\ at' = at
    BY <1>7, SamePipe DEF HostReads, controlVars
  <2>2. /\ urb' = [urb EXCEPT !.state = "complete"] /\ host' = SP!Receive(host, urb)
        /\ SP!OutstandingUrb
        /\ urb.len = 0 => received' = received
    BY <2>1 DEF SP!HostRead
  <2>3. ~SP!OutstandingUrb'
    BY <1>t, <2>2 DEF SP!OutstandingUrb, SP!Urbs
  <2>4. host'.frames = {} => urb.len = 0 /\ host = SP!FreshHost /\ host' = SP!FreshHost
    BY <1>t, <2>2, SameAssumptions, SP!ParserSees
  <2>5. ASSUME host = SP!FreshHost, host' # SP!FreshHost PROVE urb.src = 0
    <3>1. urb.len # 0
      <4>1. SUFFICES ASSUME urb.len = 0 PROVE host' = SP!FreshHost
        BY <2>5
      <4>2. QED
        BY <2>2, <2>5, <4>1 DEF SP!Receive, SP!FreshHost
    <3>2. urb.len > 0
      BY <1>t, <3>1 DEF SP!Urbs, SP!HeaderLen
    <3>3. QED
      BY <2>1, <2>2, <2>5, <3>2
  <2>6. QED
    BY <2>1, <2>2, <2>3, <2>4, <2>5
<1>8. CASE CompletesCancelled
  <2>1. /\ UNCHANGED <<committed, at>> /\ SP!OutstandingUrb
        /\ urb' = [urb EXCEPT !.state = "failed"]
    BY <1>8
    DEF CompletesCancelled, controlVars, S!CancelCompletes, S!CancelCompletesPartly,
        SP!OutstandingUrb
  <2>2. ~SP!OutstandingUrb'
    BY <1>t, <2>1 DEF SP!OutstandingUrb, SP!Urbs
  <2>3. CASE S!CancelCompletes
    <3>1. UNCHANGED <<host, received>>
      BY <2>3 DEF S!CancelCompletes
    <3>2. QED
      BY <2>1, <2>2, <3>1
  <2>4. CASE committed /\ S!CancelCompletesPartly
    <3>1. SP!CancelCompletesPartly
      BY <2>4, SamePipe
    <3>2. host' = SP!ReceivePart(host, urb) /\ urb.len > BusPacket
      BY <3>1 DEF SP!CancelCompletesPartly
    <3>3. host'.frames # {}
      BY <1>t, <3>2, SameAssumptions, SP!ParserSees
    <3>4. urb.len > 0
      BY <1>t, <3>2, SameAssumptions DEF SP!Urbs, SP!HeaderLen, SP!ConstantsAssumption
    <3>5. QED
      BY <2>1, <2>2, <2>4, <3>3, <3>4
  <2>5. QED
    BY <1>8, <2>3, <2>4 DEF CompletesCancelled
<1>9. QED
  BY <1>2, <1>3, <1>4, <1>5, <1>6, <1>7, <1>8 DEF Next, VideoThread, GrcAnswers, Host

\* A host that starts to read, however often it left, never has the middle of
\* a frame as its first payload.
THEOREM NeverMidFrameFirst ==
    ASSUME UsbDsInTime
    PROVE  Spec => MidFrameNeverFirst
<1>1. Init => Unread
  BY DEF Init, S!Init, S!FreshHost, S!NoUrb, SP!FreshHost, SP!OutstandingUrb, Unread,
         NoFrames
<1>2. IInv /\ SP!Reaped /\ Unread /\ [Next]_vars => Unread'
  BY UnreadStep
<1>3. IInv /\ SP!Reaped /\ Unread /\ [Next]_vars =>
        [host = S!FreshHost /\ host' # S!FreshHost => urb.src = 0]_vars
  BY UnreadStep
<1>4. QED
  BY <1>1, <1>2, <1>3, Invariance, SlotReaped, PTL DEF Spec, MidFrameNeverFirst

=============================================================================
