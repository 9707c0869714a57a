----------------------------- MODULE UvcControl -----------------------------
(***************************************************************************)
(* EP0 of the UVC function: UvcDeviceProcessRequests                       *)
(* (source/uvc/uvc_device.c) polls the connection, takes the setup packets *)
(* of the VideoControl and VideoStreaming interfaces, answers each with    *)
(* its data and status stages or with a stall, and enters STREAMING on a   *)
(* commit. All of it runs on the video thread; a stage blocks that thread. *)
(*                                                                         *)
(* External: usb:ds (a SetupEvent and a mailbox per interface, one control *)
(* URB at a time) and the host, which runs one control transfer at a time. *)
(* Payload contents are left out: every answer has fixed contents.         *)
(***************************************************************************)
EXTENDS Sequences, Naturals

CONSTANTS
    VC, VS,         \* g_uvcCtx.controlInterface, g_uvcCtx.streamingInterface
    NoRequest,      \* an empty mailbox
    Requests,       \* the requests the host may send
    Faults          \* what may go wrong

AllFaults == {
    "double",       \* a request is signalled on both interfaces
    "xfer",         \* a stage fails or cannot be posted
    "report",       \* a stage goes through, but its report cannot be had
    "fetch",        \* GetSetupPacket fails although a packet is waiting
    "slow",         \* the host takes more than a second for a stage
    "bounce"}       \* the host reconnects between two polls

Interfaces == {VC, VS}

\* Requests as far as the handlers tell them apart: bmRequestType's type and
\* recipient, wIndex's interface and entity, bRequest and wValue's control.
\* GET stands for the VS GET_ requests, which are answered alike.
Class(iface, entities, controls, asks) ==
    [type : {"class"}, to : {"interface"}, iface : {iface},
     entity : entities, cs : controls, ask : asks]
Standard(asks) ==
    [type : {"standard"}, to : {"interface"}, iface : Interfaces,
     entity : {"none"}, cs : {"other"}, ask : asks]

VsRequests == Class(VS, {"none"}, {"probe", "commit", "other"},
                    {"GET", "SET_CUR", "OTHER"})
VcRequests == Class(VC, {"none", "terminal", "unit"},
                    {"errorCode", "powerMode", "other"},
                    {"GET_CUR", "GET_INFO", "SET_CUR", "OTHER"})
StandardRequests ==
    Standard({"GET_INTERFACE", "SET_INTERFACE_0", "SET_INTERFACE_1", "OTHER"})
DeviceRequests ==
    [type : {"vendor"}, to : {"device"}, iface : Interfaces,
     entity : {"none"}, cs : {"other"}, ask : {"OTHER"}]
AllRequests == VsRequests \union VcRequests \union StandardRequests
               \union DeviceRequests

ASSUME ConstantsAssumption ==
    /\ VC # VS
    /\ Requests \subseteq AllRequests /\ NoRequest \notin Requests
    /\ Faults \subseteq AllFaults

VARIABLES
    state,          \* g_uvcCtx.state
    lastErrorCode,  \* g_lastErrorCode
    pc,             \* where the thread is
    iface,          \* the interface being served
    serviced,       \* serviced
    setup,          \* the packet being handled
    stages,         \* the stages of its answer still to be run
    urb,            \* the control URB posted for the first of them
    setupEvent,     \* the interfaces whose SetupEvent is signalled
    mail,           \* interface -> packet waiting for GetSetupPacket
    configured,     \* usbDsGetState reports UsbState_Configured
    ctl,            \* the host's control transfer
    committed,      \* the host has seen its commit succeed
    outside,        \* EP0 was touched outside a request's window
    outcome         \* how the host saw its last class request end

codeVars == <<state, lastErrorCode, pc, iface, serviced, setup, stages>>
usbVars  == <<setupEvent, mail, configured>>
hostVars == <<ctl, committed, outside, outcome>>
vars == <<codeVars, urb, usbVars, hostVars>>

\* open: the transfer is under way; taken: its packet has been fetched;
\* expect: the stages the host has still to see.
NoTransfer == [open |-> FALSE, taken |-> FALSE, req |-> NoRequest, expect |-> << >>]

Init ==
    /\ state = "DISCONNECTED" /\ lastErrorCode = "NONE"
    /\ pc = "out" /\ iface = VC /\ serviced = FALSE
    /\ setup = NoRequest /\ stages = << >> /\ urb = "none"
    /\ setupEvent = {} /\ mail = [i \in Interfaces |-> NoRequest]
    /\ configured = FALSE /\ ctl = NoTransfer
    /\ committed = FALSE /\ outside = FALSE /\ outcome = "none"

-----------------------------------------------------------------------------
(***************************************************************************)
(* What each handler does with a packet: the kind of the answer, and what  *)
(* becomes of g_lastErrorCode: set with a stall, set after a write whether *)
(* or not its stages went through, set after a read that did.              *)
(***************************************************************************)
Answer(kind, error) == [kind |-> kind, error |-> error]
Keep == lastErrorCode

\* Mutant: the stall leaves the error code alone.
PlainStall(error) == Answer("stall", Keep)
StallError(error) == Answer("stall", error)

HandleVsSetup(r) ==
    CASE r.cs = "other"      -> StallError("INVALID_CONTROL")
      [] r.cs # "other" /\ r.ask = "GET"     -> Answer("write", "NONE")
      [] r.cs # "other" /\ r.ask = "SET_CUR" -> Answer("read", "NONE")
      [] OTHER               -> StallError("INVALID_REQUEST")

HandleVcSetup(r) ==
    LET asks(control, requests) ==
            r.entity = "none" /\ r.cs = control /\ r.ask \in requests
    IN CASE asks("errorCode", {"GET_CUR", "GET_INFO"}) -> Answer("write", Keep)
         [] asks("powerMode", {"GET_CUR", "GET_INFO"}) -> Answer("write", "NONE")
         [] asks("powerMode", {"SET_CUR"})             -> Answer("read", "NONE")
         [] r.entity = "unit" -> StallError("INVALID_UNIT")
         [] OTHER             -> StallError("INVALID_CONTROL")

HandleStandard(r) ==
    CASE r.ask = "SET_INTERFACE_0" -> Answer("ack", Keep)
      [] r.ask = "GET_INTERFACE"   -> Answer("write", Keep)
      [] OTHER                     -> Answer("stall", Keep)

\* Mutant: the wIndex test is left out.
AlwaysForThisInterface(i, r) == TRUE
\* Only requests whose recipient is an interface carry its number in wIndex.
ForThisInterface(i, r) == r.to = "interface" => r.iface = i

HandleSetupPacket(i, r) ==
    CASE ~ForThisInterface(i, r) -> Answer("ignore", Keep)
      [] ForThisInterface(i, r) /\ r.type = "class" /\ i = VS -> HandleVsSetup(r)
      [] ForThisInterface(i, r) /\ r.type = "class" /\ i = VC -> HandleVcSetup(r)
      [] OTHER -> HandleStandard(r)

\* _ctrlWrite, _ctrlRead, _ctrlAck: data stage and status stage.
Stages(kind) ==
    CASE kind = "write" -> <<"in", "out">>
      [] kind = "read"  -> <<"out", "in">>
      [] OTHER          -> <<"in">>

-----------------------------------------------------------------------------
(***************************************************************************)
(* UvcDeviceProcessRequests and _serviceSetup.                             *)
(***************************************************************************)
\* The connection poll. Nothing else happens while not configured.
PollDisconnected ==
    /\ pc = "out" /\ ~configured /\ state # "DISCONNECTED"
    /\ state' = "DISCONNECTED" /\ lastErrorCode' = "NONE"
    /\ UNCHANGED <<pc, iface, serviced, setup, stages, urb, usbVars, hostVars>>

PollConfigured ==
    /\ pc = "out" /\ configured
    /\ IF state = "DISCONNECTED"
       THEN state' = "CONNECTED" /\ lastErrorCode' = "NONE"
       ELSE UNCHANGED <<state, lastErrorCode>>
    /\ pc' = "serve" /\ iface' = VC /\ serviced' = FALSE
    /\ UNCHANGED <<setup, stages, urb, usbVars, hostVars>>

\* On to the other interface, or to the wait for a follow-up request.
NextInterface ==
    IF iface = VC THEN pc' = "serve" /\ iface' = VS
                  ELSE pc' = "follow" /\ UNCHANGED iface

NothingPending ==
    /\ pc = "serve" /\ iface \notin setupEvent
    /\ NextInterface
    /\ UNCHANGED <<state, lastErrorCode, serviced, setup, stages, urb, usbVars,
                   hostVars>>

TakeEvent ==
    /\ pc = "serve" /\ iface \in setupEvent
    /\ setupEvent' = setupEvent \ {iface}
    /\ serviced' = TRUE /\ pc' = "fetch"
    /\ UNCHANGED <<state, lastErrorCode, iface, setup, stages, urb, mail,
                   configured, hostVars>>

\* A 20 ms wait after a request has been served: serve again, or leave.
FollowUp ==
    /\ pc = "follow"
    /\ IF serviced /\ setupEvent # {}
       THEN pc' = "serve" /\ iface' = VC
       ELSE pc' = "out" /\ UNCHANGED iface
    /\ serviced' = FALSE
    /\ UNCHANGED <<state, lastErrorCode, setup, stages, urb, usbVars, hostVars>>

\* GetSetupPacket fails, as it does when the event was stale: the handler
\* returns, without a stall.
NoPacket ==
    /\ pc = "fetch" /\ (mail[iface] = NoRequest \/ "fetch" \in Faults)
    /\ NextInterface
    /\ UNCHANGED <<state, lastErrorCode, serviced, setup, stages, urb, usbVars,
                   hostVars>>

\* The window of a request: its packet has been fetched and the host has not
\* seen the end of its transfer.
InWindow == ctl.open /\ ctl.taken

\* What the host remembers of its class requests, the reads of the error code
\* itself apart.
ReadsErrorCode(r) == r.entity = "none" /\ r.cs = "errorCode"
                     /\ r.ask \in {"GET_CUR", "GET_INFO"}
HostSees(ended) ==
    outcome' = IF ctl.req.type = "class" /\ ~ReadsErrorCode(ctl.req)
               THEN ended ELSE outcome

\* StallCtrl ends whatever transfer the host is running; why tells a refusal
\* from a stall after a failed stage. Once the host has gone there is no
\* transfer to be inside or outside of, and usb:ds refuses the call as it
\* refuses a post.
StallCtrl(inWindow, why) ==
    /\ outside' = (outside \/ (configured /\ ~inWindow))
    /\ IF ctl.open THEN ctl' = NoTransfer /\ HostSees(why)
                   ELSE UNCHANGED <<ctl, outcome>>
    /\ urb' = "none"

\* GetSetupPacket returns r, and the handler ignores it, stalls it, or starts
\* the first stage of the answer.
Fetch(r) ==
    LET answer == HandleSetupPacket(iface, r)
        window == ctl.open /\ ctl.req = r
    IN /\ pc = "fetch" /\ mail[iface] = r
       /\ mail' = [mail EXCEPT ![iface] = NoRequest]
       /\ setup' = r
       /\ \/ /\ answer.kind = "ignore"
             /\ NextInterface
             /\ UNCHANGED <<lastErrorCode, stages, urb, ctl, outside, outcome>>
          \/ /\ answer.kind = "stall"
             /\ StallCtrl(window, "refused")
             /\ lastErrorCode' = answer.error
             /\ NextInterface
             /\ UNCHANGED stages
          \/ /\ answer.kind \notin {"ignore", "stall"}
             /\ stages' = Stages(answer.kind)
             /\ ctl' = [ctl EXCEPT !.taken = window]
             /\ pc' = "post"
             /\ UNCHANGED <<iface, lastErrorCode, urb, outside, outcome>>
       /\ UNCHANGED <<state, serviced, setupEvent, configured, committed>>

-----------------------------------------------------------------------------
(***************************************************************************)
(* _ctrlInXfer and _ctrlOutXfer.                                           *)
(***************************************************************************)
PostStage ==
    /\ pc = "post" /\ configured
    /\ urb' = "pending" /\ pc' = "stage"
    /\ outside' = (outside \/ ~InWindow)
    /\ UNCHANGED <<state, lastErrorCode, iface, serviced, setup, stages,
                   usbVars, ctl, committed, outcome>>

PostStageFails ==
    /\ pc = "post" /\ (~configured \/ "xfer" \in Faults)
    /\ pc' = "stall"
    /\ UNCHANGED <<state, lastErrorCode, iface, serviced, setup, stages, urb,
                   usbVars, hostVars>>

\* The host is about to run the stage that is posted.
StageDue == ctl.open /\ urb = "pending" /\ Head(ctl.expect) = Head(stages)

\* The stage did not go through, or not within EP0_XFER_TIMEOUT, or it did and
\* GetCtrlIn/OutReportData or ParseReportData fails.
StageFails ==
    /\ pc = "stage"
    /\ \/ urb = "failed"
       \/ urb = "pending" /\ (StageDue => "slow" \in Faults)
       \/ urb = "complete" /\ "report" \in Faults
    /\ pc' = "stall"
    /\ UNCHANGED <<state, lastErrorCode, iface, serviced, setup, stages, urb,
                   usbVars, hostVars>>

\* Mutant: the status stage is followed by one more.
OneStageTooMany ==
    /\ pc = "stage" /\ urb = "complete"
    /\ urb' = "none" /\ stages' = Tail(stages) /\ pc' = "post"
    /\ UNCHANGED <<state, lastErrorCode, iface, serviced, setup, usbVars,
                   hostVars>>

DataStageDone ==
    /\ pc = "stage" /\ urb = "complete" /\ Len(stages) > 1
    /\ urb' = "none" /\ stages' = Tail(stages) /\ pc' = "post"
    /\ UNCHANGED <<state, lastErrorCode, iface, serviced, setup, usbVars,
                   hostVars>>

\* The tail of the handler once the answer went through.
IsCommit(r) == r.type = "class" /\ r.cs = "commit" /\ r.ask = "SET_CUR"

StatusStageDone ==
    /\ pc = "stage" /\ urb = "complete" /\ Len(stages) = 1
    /\ urb' = "none" /\ stages' = << >>
    /\ lastErrorCode' = HandleSetupPacket(iface, setup).error
    /\ state' = IF IsCommit(setup) THEN "STREAMING" ELSE state
    /\ NextInterface
    /\ UNCHANGED <<serviced, setup, usbVars, hostVars>>

\* Mutant: a read whose stages failed is not told apart from one that worked.
StallAndGoOn ==
    /\ pc = "stall"
    /\ StallCtrl(InWindow, "failed") /\ stages' = << >>
    /\ lastErrorCode' = HandleSetupPacket(iface, setup).error
    /\ state' = IF IsCommit(setup) THEN "STREAMING" ELSE state
    /\ NextInterface
    /\ UNCHANGED <<serviced, setup, usbVars, committed>>

\* Mutant: a failed stage is left without a stall.
GiveUpSilently ==
    /\ pc = "stall"
    /\ stages' = << >> /\ urb' = "none"
    /\ NextInterface
    /\ UNCHANGED <<state, lastErrorCode, serviced, setup, usbVars, hostVars>>

\* A failed stage: stall, and only a write goes on to set the error code.
StallFailed ==
    LET answer == HandleSetupPacket(iface, setup)
    IN /\ pc = "stall"
       /\ StallCtrl(InWindow, "failed") /\ stages' = << >>
       /\ lastErrorCode' = IF answer.kind = "write" THEN answer.error
                                                    ELSE lastErrorCode
       /\ NextInterface
       /\ UNCHANGED <<state, serviced, setup, usbVars, committed>>

-----------------------------------------------------------------------------
(***************************************************************************)
(* The host and usb:ds.                                                    *)
(***************************************************************************)
\* The stages of r as the host runs them; a request that will be stalled has
\* at least one.
HostStages(r) ==
    CASE r.ask \in {"GET", "GET_CUR", "GET_INFO", "GET_INTERFACE"} -> <<"in", "out">>
      [] r.ask = "SET_CUR" -> <<"out", "in">>
      [] OTHER -> <<"in">>

Signalled(r) ==
    {{r.iface}} \union (IF "double" \in Faults THEN {Interfaces} ELSE {})

HostSends(r) ==
    /\ configured /\ ~ctl.open
    /\ ctl' = [open |-> TRUE, taken |-> FALSE, req |-> r, expect |-> HostStages(r)]
    /\ \E signalled \in Signalled(r) :
         /\ setupEvent' = setupEvent \union signalled
         /\ mail' = [i \in Interfaces |-> IF i \in signalled THEN r ELSE mail[i]]
    /\ UNCHANGED <<codeVars, urb, configured, committed, outside, outcome>>

\* The host runs the stage that is posted; the last one ends the transfer.
HostRunsStage ==
    /\ StageDue
    /\ urb' = "complete"
    /\ IF Len(ctl.expect) = 1
       THEN /\ ctl' = NoTransfer /\ HostSees("answered")
            /\ committed' = (committed \/ IsCommit(ctl.req))
       ELSE /\ ctl' = [ctl EXCEPT !.expect = Tail(@)]
            /\ UNCHANGED <<committed, outcome>>
    /\ UNCHANGED <<codeVars, usbVars, outside>>

StageError ==
    /\ urb = "pending" /\ "xfer" \in Faults
    /\ urb' = "failed"
    /\ UNCHANGED <<codeVars, usbVars, hostVars>>

\* usb:ds drops the packets and fails the URB, a completed one perhaps; the
\* events stay signalled.
Unplug ==
    /\ configured /\ configured' = FALSE
    /\ ctl' = NoTransfer /\ committed' = FALSE /\ outcome' = "none"
    /\ mail' = [i \in Interfaces |-> NoRequest]
    /\ \/ urb # "pending" /\ UNCHANGED urb
       \/ urb # "none" /\ urb' = "failed"
    /\ UNCHANGED <<codeVars, setupEvent, outside>>

\* Enumeration takes longer than a round of the thread's loop.
Plug ==
    /\ ~configured /\ (state = "DISCONNECTED" \/ "bounce" \in Faults)
    /\ configured' = TRUE
    /\ UNCHANGED <<codeVars, urb, setupEvent, mail, hostVars>>

-----------------------------------------------------------------------------
Thread ==
    \/ PollDisconnected \/ PollConfigured \/ NothingPending \/ TakeEvent
    \/ FollowUp \/ NoPacket \/ (\E r \in Requests : Fetch(r))
    \/ PostStage \/ PostStageFails \/ StageFails \/ DataStageDone
    \/ StatusStageDone \/ StallFailed

Next ==
    \/ Thread
    \/ \E r \in Requests : HostSends(r)
    \/ HostRunsStage \/ StageError \/ Unplug \/ Plug

Spec == Init /\ [][Next]_vars

\* The thread keeps calling UvcDeviceProcessRequests, and the host runs the
\* stages of its own transfer.
FairSpec == Spec /\ WF_vars(Thread) /\ WF_vars(HostRunsStage)

-----------------------------------------------------------------------------
(***************************************************************************)
(* Properties.                                                             *)
(***************************************************************************)
Codes == {"NONE", "INVALID_UNIT", "INVALID_CONTROL", "INVALID_REQUEST"}
StageSeqs == {<< >>, <<"in">>, <<"out">>, <<"in", "out">>, <<"out", "in">>}
Mail == Requests \union {NoRequest}

\* The type invariant.
TypeOK ==
    /\ state \in {"DISCONNECTED", "CONNECTED", "STREAMING"}
    /\ lastErrorCode \in Codes
    /\ pc \in {"out", "serve", "fetch", "follow", "post", "stage", "stall"}
    /\ iface \in Interfaces /\ serviced \in BOOLEAN /\ setup \in Mail
    /\ stages \in StageSeqs /\ (pc \in {"post", "stage"} => stages # << >>)
    /\ urb \in {"none", "pending", "complete", "failed"}
    /\ setupEvent \subseteq Interfaces /\ mail \in [Interfaces -> Mail]
    /\ configured \in BOOLEAN
    /\ ctl \in [open : BOOLEAN, taken : BOOLEAN, req : Mail, expect : StageSeqs]
    /\ committed \in BOOLEAN /\ outside \in BOOLEAN
    /\ outcome \in {"none", "answered", "refused", "failed"}

\* "Only touch EP0 inside the SetupEvent -> GetSetupPacket window"
\* (uvc_device.c:1081): no stage is posted and no stall issued except for the
\* fetched request the host is still waiting on, also when usb:ds signals one
\* request on both interfaces or leaves an event behind. The code does NOT have
\* this when a stage is late ("slow") or the report of a status stage is lost
\* ("report"): the stall that follows comes after the request is over.
TouchesInsideWindow == ~outside

\* The device streams exactly when the host in front of it has seen its commit
\* succeed: neither side waits for a stream the other does not know of, across
\* failed commits and reconnections (uvc_device.c:1265-1268, 1420-1436). Holds
\* as long as the thread learns of every stage that went through: when it is
\* told too late ("slow") or not at all ("report") it takes a commit the host
\* saw succeed for a failed one (1251).
StreamingAgreement ==
    pc = "out" /\ configured => (state = "STREAMING" <=> committed)

\* "Hosts read this after a stalled class request to learn why it failed"
\* (uvc_device.c:1091-1092): as long as the last class request the host made,
\* reads of the error code apart, is one that was refused, the code says why,
\* whatever standard requests, failures and reconnections come in between. (A
\* class request stalled because a stage failed leaves no code or an old one.)
StallIsExplained == outcome = "refused" => lastErrorCode # "NONE"

\* Every request the host sends is answered or stalled, as long as the thread
\* keeps polling and can fetch its packet: EP0 never stays busy.
RequestsAnswered == ctl.open ~> ~ctl.open

=============================================================================
