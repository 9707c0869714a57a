---------------------------- MODULE UvcSendFrame ----------------------------
(***************************************************************************)
(* The bulk video path of source/uvc/uvc_device.c: UvcDeviceSendFrame cuts *)
(* one H.264 frame into payloads, posts each on the bulk IN endpoint as a  *)
(* URB, waits for its completion, cancels and reaps it when the host does  *)
(* not read, terminates a payload that ends on a packet boundary with a    *)
(* zero-length packet (ZLP), and flips the frame id (FID) at the end of    *)
(* every attempt.                                                          *)
(*                                                                         *)
(* The thread is a program counter over the calls that can block or fail.  *)
(* What is outside src/ is modelled from how the code uses it: the usb:ds  *)
(* endpoint (one URB slot, a CompletionEvent, a report to reap) and the    *)
(* host's payload parser as the comments of uvc_device.c describe it.      *)
(* Payload bytes are offsets into the frame; lengths are the code's own.   *)
(***************************************************************************)
EXTENDS Integers

CONSTANTS
    FrameSizes,     \* DataSize values a captured frame may have
    BusPacket,      \* packet size of the bulk endpoint at the bus speed
    FrameNumbers,   \* values of the u32 frameNumber (2^32 in the code)
    Faults          \* what may go wrong besides a host that stops reading

AllFaults == {
    "post",         \* PostBufferAsync fails
    "report",       \* GetReportData fails
    "status",       \* the URB completes with an error status
    "lateCancel",   \* a cancelled URB completes later than 100 ms
    "partial"}      \* a cancelled URB had already sent some packets

\* CaptureReadVideoFrame only returns frames of more than 4 bytes; the
\* endpoint is 512 (high speed) or 1024 (super speed); a u32 wraps at an even
\* power of two.
ASSUME ConstantsAssumption ==
    /\ FrameSizes \subseteq {n \in Nat : n > 4}
    /\ BusPacket \in {512, 1024}
    /\ FrameNumbers \in Nat /\ FrameNumbers > 0 /\ FrameNumbers % 2 = 0
    /\ Faults \subseteq AllFaults

\* Literals of the code.
HeaderLen       == 2                \* UvcBuildPayloadHeader returns 2
MaxTransferSize == 16384            \* dwMaxPayloadTransferSize
MaxPayload      == MaxTransferSize - 12
ZlpModulus      == 512

VARIABLES
    pc,             \* where the video thread is in UvcDeviceSendFrame
    state,          \* g_uvcCtx.state
    configured,     \* usbDsGetState reports UsbState_Configured
    frameId,        \* g_uvcCtx.frameId
    frameNumber,    \* g_uvcCtx.frameNumber
    size,           \* size argument of the current (or last) call
    src,            \* srcData, as an offset into the frame
    remaining,      \* remaining
    success,        \* success
    urb,            \* the endpoint's one outstanding URB; live: it was posted
                    \* by the call in progress
    event,          \* the endpoint's CompletionEvent
    asserted,       \* the usb sysmodule has crashed the console
    host,           \* the host's payload parser
    received        \* length of the prefix of the frame the host was sent

linkVars  == <<state, configured>>
frameVars == <<frameId, frameNumber>>
callVars  == <<size, src, remaining, success>>
urbVars   == <<urb, event>>
vars == <<pc, linkVars, frameVars, callVars, urbVars, asserted, host, received>>

-----------------------------------------------------------------------------
(***************************************************************************)
(* The usb:ds endpoint and the host's parser.                              *)
(***************************************************************************)
UrbStates == {"none", "pending", "cancelling", "complete", "failed"}

NoUrb == [state |-> "none", len |-> 0, src |-> 0, fid |-> 0,
          eof |-> FALSE, frame |-> 0, live |-> FALSE]

\* A parser that has seen nothing: no frame open, no payload unfinished.
FreshHost == [tail |-> FALSE, open |-> FALSE, fid |-> 0, frames |-> {}]

EndsShort(len) == len % BusPacket # 0

\* The host takes all packets of a URB. A payload ends with a short packet,
\* so bytes that arrive while one is unfinished (tail) belong to it, header
\* included; a new payload joins the open frame when its FID is the same and
\* starts another otherwise; EOF closes the frame.
Joined(h, u) == IF h.open /\ h.fid = u.fid THEN h.frames ELSE {}
Parse(h, u) == [tail   |-> h.tail, open |-> ~u.eof, fid |-> u.fid,
                frames |-> Joined(h, u) \union {u.frame}]
Receive(h, u) ==
    [(IF h.tail \/ u.len = 0 THEN h ELSE Parse(h, u))
        EXCEPT !.tail = ~EndsShort(u.len) /\ u.len # 0]
ReceivePart(h, u) == [(IF h.tail THEN h ELSE Parse(h, u)) EXCEPT !.tail = TRUE]

\* The prefix grows only by bytes of the current frame that continue it.
Extend(bytes) ==
    IF urb.live /\ urb.src = received
    THEN received + bytes
    ELSE received

-----------------------------------------------------------------------------
(***************************************************************************)
(* UvcDeviceSendFrame.                                                     *)
(***************************************************************************)
ChunkSize(n)   == IF n > MaxPayload THEN MaxPayload ELSE n
IsLastChunk(n) == n <= MaxPayload
\* Mutant: a frame that fills its last payload exactly gets no EOF.
HeaderEofOffByOne(n) == n < MaxPayload
HeaderEof(n) == IsLastChunk(n)
\* Mutant: no payload is ever terminated.
NeverZlp(total) == FALSE
NeedsZlp(total) == total % ZlpModulus = 0

\* UvcBuildPayloadHeader's FID and EOF for the payload at the head of the
\* remaining bytes, and the URB that carries it.
Payload == [state |-> "pending", len |-> HeaderLen + ChunkSize(remaining),
            src |-> src, fid |-> frameId % 2, eof |-> HeaderEof(remaining),
            frame |-> frameNumber, live |-> TRUE]
Zlp == [state |-> "pending", len |-> 0, src |-> src, fid |-> frameId % 2,
        eof |-> FALSE, frame |-> frameNumber, live |-> TRUE]

Init ==
    /\ pc = "idle" /\ state = "DISCONNECTED" /\ configured = FALSE
    /\ frameId = 0 /\ frameNumber = 0
    /\ size = 0 /\ src = 0 /\ remaining = 0 /\ success = FALSE
    /\ urb = NoUrb /\ event = FALSE /\ asserted = FALSE
    /\ host = FreshHost /\ received = 0

\* Mutant: a frame that was cut off is resumed by the next call.
SendFrameResumes(n) ==
    /\ pc = "idle" /\ state = "STREAMING"
    /\ pc' = "post" /\ success' = FALSE
    /\ IF remaining > 0
       THEN UNCHANGED <<size, src, remaining, received>>
       ELSE size' = n /\ src' = 0 /\ remaining' = n /\ received' = 0
    /\ UNCHANGED <<linkVars, frameVars, urbVars, asserted, host>>

\* Entry: refused unless streaming, then the loop is set up.
SendFrame(n) ==
    /\ pc = "idle" /\ state = "STREAMING"
    /\ pc' = "post"
    /\ size' = n /\ src' = 0 /\ remaining' = n /\ success' = FALSE
    /\ received' = 0
    /\ UNCHANGED <<linkVars, frameVars, urbVars, asserted, host>>

\* Mutant: srcData is not moved past the chunk.
AdvanceKeepsSrc ==
    /\ src' = src
    /\ remaining' = remaining - ChunkSize(remaining)
    /\ success' = IsLastChunk(remaining)
    /\ pc' = IF remaining' > 0 THEN "post" ELSE "finish"
    /\ UNCHANGED size

\* srcData += chunkSize; remaining -= chunkSize; the last chunk is a success.
Advance ==
    /\ src' = src + ChunkSize(remaining)
    /\ remaining' = remaining - ChunkSize(remaining)
    /\ success' = IsLastChunk(remaining)
    /\ pc' = IF remaining' > 0 THEN "post" ELSE "finish"
    /\ UNCHANGED size

\* eventClear, then PostBufferAsync of u. Posting over a URB whose report
\* was never fetched is what usb:ds answers with an assertion.
Post(u) ==
    IF urb.state = "none"
    THEN urb' = u /\ event' = FALSE /\ pc' = "wait" /\ UNCHANGED asserted
    ELSE asserted' = TRUE /\ UNCHANGED <<urbVars, pc>>

\* Nothing can be posted while no host has configured the device.
PostRefused == ~configured \/ "post" \in Faults

PostPayload ==
    /\ pc = "post" /\ ~asserted /\ configured
    /\ Post(Payload)
    /\ UNCHANGED <<linkVars, frameVars, callVars, host, received>>

PostPayloadFails ==
    /\ pc = "post" /\ ~asserted /\ PostRefused
    /\ event' = FALSE /\ pc' = "finish"
    /\ UNCHANGED <<linkVars, frameVars, callVars, urb, asserted, host, received>>

PostZlp ==
    /\ pc = "zlp" /\ ~asserted /\ configured
    /\ Post(Zlp)
    /\ UNCHANGED <<linkVars, frameVars, callVars, host, received>>

\* A ZLP that cannot be posted is skipped silently.
PostZlpFails ==
    /\ pc = "zlp" /\ ~asserted /\ PostRefused
    /\ event' = FALSE
    /\ Advance
    /\ UNCHANGED <<linkVars, frameVars, urb, asserted, host, received>>

Completed == pc = "wait" /\ event /\ event' = FALSE

\* ParseReportData's verdict on the URB. Mutant: the status is not looked at.
AlwaysParsed(u) == TRUE
ParsedOk(u) == u.state = "complete"

\* eventWait, GetReportData and ParseReportData of a payload.
PayloadCompleted ==
    /\ Completed /\ urb.len > 0
    /\ urb' = NoUrb
    /\ IF ~ParsedOk(urb)
       THEN pc' = "finish" /\ UNCHANGED callVars
       ELSE IF NeedsZlp(urb.len)
            THEN pc' = "zlp" /\ UNCHANGED callVars
            ELSE Advance
    /\ UNCHANGED <<linkVars, frameVars, asserted, host, received>>

\* GetReportData fails: the loop is left with the URB unreaped.
PayloadReportFails ==
    /\ Completed /\ urb.len > 0 /\ "report" \in Faults
    /\ pc' = "finish"
    /\ UNCHANGED <<linkVars, frameVars, callVars, urb, asserted, host, received>>

\* The result of the ZLP's GetReportData is not looked at.
ZlpCompleted ==
    /\ Completed /\ urb.len = 0
    /\ urb' \in {NoUrb} \union (IF "report" \in Faults THEN {urb} ELSE {})
    /\ Advance
    /\ UNCHANGED <<linkVars, frameVars, asserted, host, received>>

\* Mutant: the wait for a ZLP has no timeout.
TimeoutOfPayloads ==
    /\ pc = "wait" /\ ~event /\ urb.len > 0
    /\ pc' = "cancel"
    /\ UNCHANGED <<linkVars, frameVars, callVars, urbVars, asserted, host, received>>

\* eventWait returns after one second without the event...
Timeout ==
    /\ pc = "wait" /\ ~event
    /\ pc' = "cancel"
    /\ UNCHANGED <<linkVars, frameVars, callVars, urbVars, asserted, host, received>>

\* ...and the URB, which may have completed meanwhile, is cancelled.
Cancel ==
    /\ pc = "cancel"
    /\ pc' = "reap"
    /\ urb' = [urb EXCEPT !.state = IF @ = "pending" THEN "cancelling" ELSE @]
    /\ UNCHANGED <<linkVars, frameVars, callVars, event, asserted, host, received>>

\* Mutant: the event of the cancelled URB is awaited, its report not fetched.
CancelWithoutReaping ==
    /\ pc = "reap" /\ event
    /\ event' = FALSE /\ pc' = "finish"
    /\ UNCHANGED <<linkVars, frameVars, callVars, urb, asserted, host, received>>

\* Mutant: a host that does not read for a second is taken to have stopped.
ReapStopsStreaming ==
    /\ pc = "reap" /\ event
    /\ event' = FALSE /\ pc' = "finish" /\ urb' = NoUrb
    /\ state' = "CONNECTED"
    /\ UNCHANGED <<configured, frameVars, callVars, asserted, host, received>>

\* The event of the cancelled URB arrives within 100 ms: reap, drop the frame.
ReapCancelled ==
    /\ pc = "reap" /\ event
    /\ event' = FALSE /\ pc' = "finish"
    /\ urb' \in {NoUrb} \union (IF "report" \in Faults THEN {urb} ELSE {})
    /\ UNCHANGED <<linkVars, frameVars, callVars, asserted, host, received>>

\* It does not: the frame is dropped and the URB stays unreaped.
ReapTimeout ==
    /\ pc = "reap" /\ ~event /\ "lateCancel" \in Faults
    /\ pc' = "finish"
    /\ UNCHANGED <<linkVars, frameVars, callVars, urbVars, asserted, host, received>>

\* Mutant: only a frame that was sent flips the FID.
FinishFlipsOnSuccess ==
    /\ pc = "finish"
    /\ pc' = "idle"
    /\ frameId' = IF success THEN 1 - frameId ELSE frameId
    /\ frameNumber' = (frameNumber + 1) % FrameNumbers
    /\ urb' = [urb EXCEPT !.live = FALSE]
    /\ UNCHANGED <<linkVars, callVars, event, asserted, host, received>>

\* Mutant: the FID is counted up, not flipped.
FinishCountsFid ==
    /\ pc = "finish"
    /\ pc' = "idle"
    /\ frameId' = frameId + 1
    /\ frameNumber' = (frameNumber + 1) % FrameNumbers
    /\ urb' = [urb EXCEPT !.live = FALSE]
    /\ UNCHANGED <<linkVars, callVars, event, asserted, host, received>>

\* Every attempt, sent or aborted, flips the FID.
Finish ==
    /\ pc = "finish"
    /\ pc' = "idle"
    /\ frameId' = 1 - frameId
    /\ frameNumber' = (frameNumber + 1) % FrameNumbers
    /\ urb' = [urb EXCEPT !.live = FALSE]
    /\ UNCHANGED <<linkVars, callVars, event, asserted, host, received>>

-----------------------------------------------------------------------------
(***************************************************************************)
(* What UvcDeviceProcessRequests does, on the same thread and so between   *)
(* two frames, to the state this module uses.                              *)
(***************************************************************************)
\* The disconnection is noticed, long after it happened perhaps...
PollDisconnected ==
    /\ pc = "idle" /\ ~configured /\ state # "DISCONNECTED"
    /\ state' = "DISCONNECTED"
    /\ UNCHANGED <<pc, configured, frameVars, callVars, urbVars, asserted, host,
                   received>>

\* ...and so is the next connection.
Connect ==
    /\ pc = "idle" /\ configured /\ state = "DISCONNECTED"
    /\ state' = "CONNECTED"
    /\ frameId' = 0 /\ frameNumber' = 0
    /\ UNCHANGED <<pc, configured, callVars, urbVars, asserted, host, received>>

\* SET_CUR(commit).
Commit ==
    /\ pc = "idle" /\ state = "CONNECTED"
    /\ state' = "STREAMING"
    /\ UNCHANGED <<pc, configured, frameVars, callVars, urbVars, asserted, host, received>>

-----------------------------------------------------------------------------
(***************************************************************************)
(* The environment: the endpoint hardware and the host. Nothing happens to *)
(* the endpoint once usb:ds has asserted.                                  *)
(***************************************************************************)
OutstandingUrb == urb.state \in {"pending", "cancelling"}

\* The host goes at any moment, in the middle of a frame too; usb:ds fails what
\* was outstanding. The next one finds a parser that has seen nothing.
Unplug ==
    /\ configured /\ ~asserted
    /\ configured' = FALSE /\ host' = FreshHost
    /\ urb' = [urb EXCEPT !.state = IF OutstandingUrb THEN "failed" ELSE @]
    /\ event' = (event \/ OutstandingUrb)
    /\ UNCHANGED <<pc, state, frameVars, callVars, asserted, received>>

Plug ==
    /\ ~configured /\ ~asserted
    /\ configured' = TRUE
    /\ UNCHANGED <<pc, state, frameVars, callVars, urbVars, asserted, host, received>>

\* The host reads the whole URB, possibly while it is being cancelled.
HostRead ==
    /\ OutstandingUrb /\ ~asserted
    /\ urb' = [urb EXCEPT !.state = "complete"] /\ event' = TRUE
    /\ host' = Receive(host, urb)
    /\ received' = IF urb.len = 0 THEN received ELSE Extend(urb.len - HeaderLen)
    /\ UNCHANGED <<pc, linkVars, frameVars, callVars, asserted>>

\* The cancelled URB completes without having been read...
CancelCompletes ==
    /\ urb.state = "cancelling" /\ ~asserted
    /\ urb' = [urb EXCEPT !.state = "failed"] /\ event' = TRUE
    /\ UNCHANGED <<pc, linkVars, frameVars, callVars, asserted, host, received>>

\* ...or after its first packet went out.
CancelCompletesPartly ==
    /\ urb.state = "cancelling" /\ ~asserted
    /\ "partial" \in Faults /\ urb.len > BusPacket
    /\ urb' = [urb EXCEPT !.state = "failed"] /\ event' = TRUE
    /\ host' = ReceivePart(host, urb)
    /\ received' = Extend(BusPacket - HeaderLen)
    /\ UNCHANGED <<pc, linkVars, frameVars, callVars, asserted>>

TransferError ==
    /\ urb.state = "pending" /\ ~asserted /\ "status" \in Faults
    /\ urb' = [urb EXCEPT !.state = "failed"] /\ event' = TRUE
    /\ UNCHANGED <<pc, linkVars, frameVars, callVars, asserted, host, received>>

\* The host closes the stream and opens it again: it stops reading, and
\* usb:ds does not tell us (CLEAR_FEATURE(HALT) is invisible).
HostRestart ==
    /\ state = "STREAMING" /\ host # FreshHost /\ ~asserted
    /\ host' = FreshHost
    /\ UNCHANGED <<pc, linkVars, frameVars, callVars, urbVars, asserted, received>>

-----------------------------------------------------------------------------
Thread ==
    \/ PostPayload      \/ PostPayloadFails  \/ PostZlp  \/ PostZlpFails
    \/ PayloadCompleted \/ PayloadReportFails \/ ZlpCompleted
    \/ Timeout \/ Cancel \/ ReapCancelled \/ ReapTimeout \/ Finish

CompletesCancelled == CancelCompletes \/ CancelCompletesPartly

Next ==
    \/ \E n \in FrameSizes : SendFrame(n)
    \/ Thread
    \/ PollDisconnected \/ Connect \/ Commit
    \/ Unplug \/ Plug
    \/ HostRead \/ CompletesCancelled \/ TransferError \/ HostRestart

Spec == Init /\ [][Next]_vars

\* The thread runs (its waits have timeouts) and usb:ds completes a URB it was
\* asked to cancel. Nothing makes the host read.
Fairness == WF_vars(Thread) /\ WF_vars(CompletesCancelled)
FairSpec == Spec /\ Fairness

-----------------------------------------------------------------------------
(***************************************************************************)
(* Properties.                                                             *)
(***************************************************************************)
Fids == {0, 1}
Numbers == 0 .. FrameNumbers - 1
Urbs == [state : UrbStates,
         len : {0} \union (HeaderLen .. MaxTransferSize - 1), src : Nat,
         fid : Fids, eof : BOOLEAN, frame : Numbers, live : BOOLEAN]
Hosts == [tail : BOOLEAN, open : BOOLEAN, fid : Fids, frames : SUBSET Numbers]

\* The type invariant: every variable keeps its type, a frame is cut without
\* remainder, and the staged transfer stays below dwMaxPayloadTransferSize.
TypeOK ==
    /\ pc \in {"idle", "post", "wait", "zlp", "cancel", "reap", "finish"}
    /\ state \in {"DISCONNECTED", "CONNECTED", "STREAMING"} /\ configured \in BOOLEAN
    /\ frameId \in Fids /\ frameNumber \in Numbers
    /\ size \in Nat /\ src \in Nat /\ remaining \in Nat
    /\ success \in BOOLEAN
    /\ urb \in Urbs /\ host \in Hosts
    /\ event \in BOOLEAN /\ asserted \in BOOLEAN
    /\ received \in Nat

\* "never re-post over an unreaped URB" (uvc_device.c:1001-1003, RESEARCH.md
\* section 4): no history of timeouts, cancels and late completions posts a
\* buffer while a report is still to be fetched, which crashes the console.
\* Holds when a cancelled URB completes within the 100 ms given to it and the
\* report of a URB that completed can be fetched; without "lateCancel" and
\* "report" excluded the code does NOT have it (1009, 1018-1022).
NeverAsserts == ~asserted

\* A frame reported as sent (the call returned TRUE) left the device whole,
\* its bytes once and in order, whichever calls failed on the way.
SuccessMeansDelivered == success => received = size

\* Two consecutive attempts, even when the first was aborted without EOF and
\* frameNumber wraps, are never taken by the host for one frame: their FIDs
\* differ (uvc_device.c:1062-1068).
AdjacentNeverMerge ==
    \A f \in host.frames : (f + 1) % FrameNumbers \notin host.frames

\* "one corrupted frame, then clean" (uvc_device.c:1067-1068): the host never
\* takes payloads of two attempts for one frame. The code does NOT have this:
\* an attempt aborted before its first payload is read uses up a FID.
NeverMerge == \A f, g \in host.frames : f = g

\* The host sees the boundary between any two payloads of a frame and after
\* the last payload of a frame that was sent: none of them ends in a full
\* packet with nothing to terminate it (uvc_device.c:1031-1034).
PayloadDelimited ==
    (pc = "post" /\ src > 0) \/ (pc = "finish" /\ success) => ~host.tail

\* A frame that was sent closes whatever frame the host had open, so what an
\* aborted attempt left behind never outlives the next frame sent. When a
\* cancelled URB can leave a payload cut off on a packet boundary, that payload
\* swallows the next header, which may be the only one of the next frame: the
\* one corrupted frame of uvc_device.c:1067-1068.
SuccessEndsFrame ==
    pc = "finish" /\ success /\ ("partial" \in Faults => size > MaxPayload)
        => ~host.open

\* However long the host does not read, a call returns: the video thread is
\* back to serve EP0 requests.
SendFrameReturns == (pc # "idle") ~> (pc = "idle")

\* UvcDeviceSendFrame keeps its promise to the caller under every fault.
Transfer == INSTANCE FrameTransfer WITH
    busy <- pc # "idle", delivered <- received, ok <- pc = "idle" /\ success
ImplementsTransfer == Transfer!Spec

=============================================================================
