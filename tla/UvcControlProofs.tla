-------------------------- MODULE UvcControlProofs --------------------------
(***************************************************************************)
(* Theorems about UvcControl, for every set of requests and, where the     *)
(* statement does not say otherwise, every set of faults.                  *)
(*                                                                         *)
(* The lemmas about single steps do not mention Spec, so that a module     *)
(* that embeds this component in a larger system can cite them.            *)
(***************************************************************************)
EXTENDS UvcControl, TLAPS

(***************************************************************************)
(* What the handlers do with a request.                                    *)
(***************************************************************************)
Kinds == {"ignore", "stall", "ack", "write", "read"}

\* Every packet gets one kind of answer and a code.
LEMMA AnswerType ==
    ASSUME lastErrorCode \in Codes, NEW i, NEW r
    PROVE  /\ HandleSetupPacket(i, r).kind \in Kinds
           /\ HandleSetupPacket(i, r).error \in Codes
<1>1. ASSUME NEW a \in {HandleVsSetup(r), HandleVcSetup(r), HandleStandard(r)}
      PROVE  a.kind \in Kinds /\ a.error \in Codes
  BY DEF HandleVsSetup, HandleVcSetup, HandleStandard, StallError, Answer, Keep,
         Kinds, Codes
<1>2. HandleSetupPacket(i, r) \in
        {Answer("ignore", Keep), HandleVsSetup(r), HandleVcSetup(r), HandleStandard(r)}
  BY DEF HandleSetupPacket
<1>3. QED
  BY <1>1, <1>2 DEF Answer, Keep, Kinds

\* The stages of an answer, and what is left of them after the first.
LEMMA StagesTail ==
    ASSUME NEW s \in StageSeqs, s # << >>
    PROVE  /\ Tail(s) \in StageSeqs
           /\ Len(s) = 1 => Tail(s) = << >>
           /\ Len(s) # 1 => Tail(s) # << >>
           /\ Len(s) > 1 => Tail(s) # << >>
<1>1. CASE s = <<"in">>
  <2>1. Tail(s) = << >> /\ Len(s) = 1
    BY <1>1
  <2>2. QED
    BY <2>1 DEF StageSeqs
<1>2. CASE s = <<"out">>
  <2>1. Tail(s) = << >> /\ Len(s) = 1
    BY <1>2
  <2>2. QED
    BY <2>1 DEF StageSeqs
<1>3. CASE s = <<"in", "out">>
  <2>1. Tail(s) = <<"out">> /\ Len(s) = 2 /\ <<"out">> # << >>
    BY <1>3
  <2>2. QED
    BY <2>1 DEF StageSeqs
<1>4. CASE s = <<"out", "in">>
  <2>1. Tail(s) = <<"in">> /\ Len(s) = 2 /\ <<"in">> # << >>
    BY <1>4
  <2>2. QED
    BY <2>1 DEF StageSeqs
<1>5. QED
  BY <1>1, <1>2, <1>3, <1>4 DEF StageSeqs

LEMMA StagesType ==
    /\ \A kind : Stages(kind) \in StageSeqs \ {<< >>}
    /\ \A r : HostStages(r) \in StageSeqs \ {<< >>}
BY DEF Stages, HostStages, StageSeqs

(***************************************************************************)
(* Types. A transfer that is open has stages left.                         *)
(***************************************************************************)
OpenHasStages == ctl.open => ctl.expect # << >>
Typed == TypeOK /\ OpenHasStages

Transfers == [open : BOOLEAN, taken : BOOLEAN, req : Mail, expect : StageSeqs]

LEMMA NoTransferType ==
    NoTransfer \in Transfers /\ ~NoTransfer.open /\ ~NoTransfer.taken
BY DEF NoTransfer, Transfers, Mail, StageSeqs

LEMMA TypeInit == Init => Typed
<1>1. Init => mail \in [Interfaces -> Mail]
  BY DEF Init, Mail
<1>2. QED
  BY <1>1, NoTransferType
  DEF Init, Typed, TypeOK, OpenHasStages, Interfaces, Mail, Codes, StageSeqs, Transfers

\* NextInterface moves the thread on and keeps both its labels.
LEMMA NextInterfaceType ==
    ASSUME NextInterface, iface \in Interfaces
    PROVE  pc' \in {"serve", "follow"} /\ iface' \in Interfaces
BY DEF NextInterface, Interfaces

\* StallCtrl leaves no URB and types the host's side.
LEMMA StallCtrlType ==
    ASSUME Typed, NEW window \in BOOLEAN, NEW why \in {"refused", "failed"},
           StallCtrl(window, why)
    PROVE  /\ urb' = "none" /\ outside' \in BOOLEAN
           /\ ctl' \in Transfers /\ ~ctl'.open
           /\ outcome' \in {"none", "answered", "refused", "failed"}
BY NoTransferType DEF StallCtrl, HostSees, Typed, TypeOK, Transfers

\* Every step keeps every type, under every fault.
LEMMA TypeStep == Typed /\ [Next]_vars => Typed'
<1> SUFFICES ASSUME Typed, [Next]_vars PROVE Typed'
  OBVIOUS
<1> USE DEF Typed, TypeOK, OpenHasStages, codeVars, usbVars, hostVars
<1>t. ctl \in Transfers
  BY DEF Transfers
<1>1. CASE PollDisconnected \/ PollConfigured
  <2>1. CASE PollDisconnected
    BY <2>1 DEF PollDisconnected, Codes, Interfaces
  <2>2. CASE PollConfigured
    BY <2>2 DEF PollConfigured, Codes, Interfaces
  <2>3. QED
    BY <1>1, <2>1, <2>2
<1>2. CASE NothingPending \/ NoPacket
  <2>1. CASE NothingPending
    BY <2>1, NextInterfaceType DEF NothingPending
  <2>2. CASE NoPacket
    BY <2>2, NextInterfaceType DEF NoPacket
  <2>3. QED
    BY <1>2, <2>1, <2>2
<1>3. CASE TakeEvent \/ FollowUp
  <2>1. CASE TakeEvent
    BY <2>1 DEF TakeEvent, Interfaces
  <2>2. CASE FollowUp
    <3>1. iface' \in Interfaces
      BY <2>2 DEF FollowUp, Interfaces
    <3>2. QED
      BY <2>2, <3>1 DEF FollowUp
  <2>3. QED
    BY <1>3, <2>1, <2>2
<1>4. ASSUME NEW r \in Requests, Fetch(r) PROVE Typed'
  <2> DEFINE answer == HandleSetupPacket(iface, r)
             window == ctl.open /\ ctl.req = r
  <2>1. /\ mail' \in [Interfaces -> Mail] /\ setup' \in Mail
        /\ UNCHANGED <<state, serviced, setupEvent, configured, committed>>
    BY <1>4 DEF Fetch, Mail
  <2>2. CASE answer.kind = "ignore"
    BY <1>4, <2>1, <2>2, NextInterfaceType DEF Fetch
  <2>3. CASE answer.kind = "stall"
    <3>1. StallCtrl(window, "refused") /\ NextInterface /\ UNCHANGED stages
          /\ lastErrorCode' = answer.error
      BY <1>4, <2>3 DEF Fetch
    <3> HIDE DEF answer
    <3>2. lastErrorCode' \in Codes
      BY <3>1, AnswerType DEF answer
    <3>3. QED
      BY <2>1, <3>1, <3>2, StallCtrlType, NextInterfaceType DEF Transfers
  <2>4. CASE answer.kind \notin {"ignore", "stall"}
    <3>1. /\ stages' = Stages(answer.kind) /\ ctl' = [ctl EXCEPT !.taken = window]
          /\ pc' = "post" /\ UNCHANGED <<iface, lastErrorCode, urb, outside, outcome>>
      BY <1>4, <2>4 DEF Fetch
    <3>2. stages' \in StageSeqs \ {<< >>}
      BY <3>1, StagesType
    <3>3. ctl' \in Transfers /\ (ctl'.open => ctl'.expect # << >>)
      BY <1>t, <3>1 DEF Transfers
    <3>4. QED
      BY <2>1, <3>1, <3>2, <3>3 DEF Transfers
  <2>5. QED
    BY <2>2, <2>3, <2>4
<1>5. CASE PostStage \/ PostStageFails \/ StageFails
  <2>1. CASE PostStage
    BY <2>1 DEF PostStage, InWindow
  <2>2. CASE PostStageFails
    BY <2>2 DEF PostStageFails
  <2>3. CASE StageFails
    BY <2>3 DEF StageFails
  <2>4. QED
    BY <1>5, <2>1, <2>2, <2>3
<1>6. CASE DataStageDone
  <2>1. stages \in StageSeqs /\ stages # << >> /\ Len(stages) > 1
    BY <1>6 DEF DataStageDone
  <2>2. Tail(stages) \in StageSeqs /\ Tail(stages) # << >>
    BY <2>1, StagesTail
  <2>3. QED
    BY <1>6, <2>2 DEF DataStageDone
<1>7. CASE StatusStageDone
  BY <1>7, AnswerType, NextInterfaceType DEF StatusStageDone, StageSeqs
<1>8. CASE StallFailed
  <2>1. InWindow \in BOOLEAN
    BY <1>t DEF InWindow, Transfers
  <2>2. StallCtrl(InWindow, "failed") /\ NextInterface /\ stages' = << >>
    BY <1>8 DEF StallFailed
  <2>3. lastErrorCode' \in Codes
    BY <1>8, AnswerType DEF StallFailed
  <2>4. QED
    BY <1>8, <2>1, <2>2, <2>3, StallCtrlType, NextInterfaceType
    DEF StallFailed, StageSeqs, Transfers
<1>9. ASSUME NEW r \in Requests, HostSends(r) PROVE Typed'
  <2>1. ctl' \in Transfers /\ ctl'.expect # << >>
    BY <1>9, StagesType DEF HostSends, Transfers, Mail
  <2>2. setupEvent' \subseteq Interfaces
    BY <1>9, ConstantsAssumption
    DEF HostSends, Signalled, Interfaces, AllRequests, VsRequests, VcRequests,
        StandardRequests, DeviceRequests, Class, Standard
  <2>3. mail' \in [Interfaces -> Mail]
    BY <1>9 DEF HostSends, Mail
  <2>4. QED
    BY <1>9, <2>1, <2>2, <2>3 DEF HostSends, Transfers
<1>10. CASE HostRunsStage
  <2>1. ctl.open /\ ctl.expect \in StageSeqs /\ ctl.expect # << >>
    BY <1>10 DEF HostRunsStage, StageDue
  <2>2. CASE Len(ctl.expect) = 1
    BY <1>10, <2>2, NoTransferType DEF HostRunsStage, HostSees, Transfers
  <2>3. CASE Len(ctl.expect) # 1
    <3>1. ctl' = [ctl EXCEPT !.expect = Tail(ctl.expect)]
          /\ UNCHANGED <<committed, outcome>>
      BY <1>10, <2>3 DEF HostRunsStage
    <3>2. Tail(ctl.expect) \in StageSeqs /\ Tail(ctl.expect) # << >>
      BY <2>1, <2>3, StagesTail
    <3>3. ctl' \in Transfers /\ ctl'.expect # << >>
      BY <1>t, <3>1, <3>2 DEF Transfers
    <3>4. QED
      BY <1>10, <3>1, <3>3 DEF HostRunsStage, Transfers
  <2>4. QED
    BY <2>2, <2>3
<1>11. CASE StageError \/ Plug
  <2>1. CASE StageError
    BY <2>1 DEF StageError
  <2>2. CASE Plug
    BY <2>2 DEF Plug
  <2>3. QED
    BY <1>11, <2>1, <2>2
<1>12. CASE Unplug
  <2>1. mail' \in [Interfaces -> Mail]
    BY <1>12 DEF Unplug, Mail
  <2>2. QED
    BY <1>12, <2>1, NoTransferType DEF Unplug, Transfers
<1>13. CASE UNCHANGED vars
  BY <1>13 DEF vars
<1>14. QED
  BY <1>1, <1>2, <1>3, <1>4, <1>5, <1>6, <1>7, <1>8, <1>9, <1>10, <1>11, <1>12,
     <1>13
  DEF Next, Thread

(***************************************************************************)
(* The variables of EP0 keep their types, whatever fails.                  *)
(***************************************************************************)
THEOREM TypeCorrect == Spec => []TypeOK
<1>1. Typed => TypeOK
  BY DEF Typed
<1>2. QED
  BY TypeInit, TypeStep, <1>1, PTL DEF Spec

(***************************************************************************)
(* EP0 is only touched inside a request's window.                          *)
(*                                                                         *)
(* The invariant follows one transfer from the mailbox to its last stage.  *)
(* Before it is fetched, the packet in the mailbox of the interface it is  *)
(* addressed to is the one the host waits on; a copy in the other mailbox  *)
(* will be ignored. From then on, the stages the thread has still to run   *)
(* are the ones the host expects, so that the thread is never ahead of the *)
(* host, nor behind it.                                                    *)
(***************************************************************************)
\* The hypothesis on signalled requests: usb:ds copies only requests that name
\* an interface in wIndex to both.
OnlyInterfacesDoubled ==
    "double" \notin Faults \/ \A r \in Requests : r.to = "interface"

Addressed == \A i \in Interfaces :
    mail[i] # NoRequest => mail[i].iface = i \/ mail[i].to = "interface"

\* The packet at interface i is its own, and not a copy of the other's.
Own(i) == mail[i] # NoRequest /\ mail[i].iface = i

Waiting == \A i \in Interfaces :
    Own(i) => /\ ctl.open /\ ~ctl.taken /\ ctl.req = mail[i]
              /\ ctl.expect = HostStages(mail[i])

\* Without a host there is no transfer, and the thread serves EP0 only after it
\* has seen a host.
Attached ==
    /\ ctl.open \/ urb = "pending" => configured
    /\ pc # "out" => state # "DISCONNECTED"

Answered == InWindow /\ ctl.req = setup

Handling ==
    /\ pc \notin {"stage", "stall"} => urb = "none"
    /\ pc \in {"post", "stage", "stall"} => setup \in Requests
    /\ pc = "post" /\ configured => Answered /\ ctl.expect = stages
    /\ pc = "stage" => urb # "none"
    /\ pc = "stage" /\ configured /\ urb \in {"pending", "failed"}
          => Answered /\ ctl.expect = stages
    /\ pc = "stage" /\ configured /\ urb = "complete" /\ Len(stages) # 1
          => Answered /\ ctl.expect = Tail(stages)
    /\ pc = "stall" => urb \in {"none", "failed"} /\ (configured => Answered)

WindowInv == Typed /\ Addressed /\ Waiting /\ Attached /\ Handling
             /\ TouchesInsideWindow

(***************************************************************************)
(* The commit. Late: the host has seen the end of its transfer and the     *)
(* thread has not yet.                                                     *)
(***************************************************************************)
Ended(requests) ==
    pc = "stage" /\ urb = "complete" /\ Len(stages) = 1 /\ setup \in requests
Late == Ended({r \in Requests : IsCommit(r)})

CommitServed ==
    committed => configured /\ (state = "STREAMING" \/ Late)
StreamWanted ==
    configured /\ (state = "STREAMING" \/ Late) => committed

(***************************************************************************)
(* The error code.                                                         *)
(***************************************************************************)
Remembered == {r \in Requests : r.type = "class" /\ ~ReadsErrorCode(r)}

Explained ==
    /\ StallIsExplained
    /\ ~configured \/ state = "DISCONNECTED" => outcome = "none"
    /\ Ended(Remembered) => outcome # "refused"

\* A transfer that has more than one stage left is not at its last.
LEMMA NotLast == ASSUME NEW s, Len(s) > 1 PROVE Len(s) # 1
<1> DEFINE n == Len(s)
<1>1. n > 1
  OBVIOUS
<1> HIDE DEF n
<1>2. n # 1
  BY <1>1
<1>3. QED
  BY <1>2 DEF n

\* The host runs the stages the handler answers with.
LEMMA SameStages ==
    ASSUME NEW i \in Interfaces, NEW r \in Requests,
           HandleSetupPacket(i, r).kind \notin {"ignore", "stall"}
    PROVE  Stages(HandleSetupPacket(i, r).kind) = HostStages(r)
<1>1. /\ r.type = "class" /\ r.iface = VS =>
             r.cs \in {"probe", "commit", "other"} /\ r.ask \in {"GET", "SET_CUR", "OTHER"}
      /\ r.type = "class" /\ r.iface = VC =>
             r.ask \in {"GET_CUR", "GET_INFO", "SET_CUR", "OTHER"}
      /\ r.type # "class" =>
             r.ask \in {"GET_INTERFACE", "SET_INTERFACE_0", "SET_INTERFACE_1", "OTHER"}
      /\ r.type = "class" => r.to = "interface" /\ r.iface \in Interfaces
  BY ConstantsAssumption
  DEF AllRequests, VsRequests, VcRequests, StandardRequests, DeviceRequests, Class,
      Standard, Interfaces
<1>2. CASE HandleSetupPacket(i, r) = HandleVsSetup(r) /\ r.type = "class" /\ r.iface = VS
  BY <1>1, <1>2 DEF HandleVsSetup, StallError, Answer, Stages, HostStages
<1>3. CASE HandleSetupPacket(i, r) = HandleVcSetup(r) /\ r.type = "class" /\ r.iface = VC
  BY <1>1, <1>3 DEF HandleVcSetup, StallError, Answer, Stages, HostStages
<1>4. CASE HandleSetupPacket(i, r) = HandleStandard(r) /\ r.type # "class"
  BY <1>1, <1>4 DEF HandleStandard, Answer, Stages, HostStages
<1>5. CASE HandleSetupPacket(i, r) = Answer("ignore", Keep)
  BY <1>5 DEF Answer
<1>6. QED
  BY <1>1, <1>2, <1>3, <1>4, <1>5, ConstantsAssumption
  DEF HandleSetupPacket, ForThisInterface, Interfaces

\* A packet that is not ignored is the one the host is waiting on.
LEMMA FetchesOwn ==
    ASSUME WindowInv, NEW r \in Requests, Fetch(r),
           HandleSetupPacket(iface, r).kind # "ignore"
    PROVE  Own(iface) /\ r = mail[iface] /\ iface \in Interfaces
<1>1. mail[iface] = r /\ r # NoRequest /\ iface \in Interfaces
  BY ConstantsAssumption DEF Fetch, WindowInv, Typed, TypeOK
<1>2. ForThisInterface(iface, r)
  BY DEF HandleSetupPacket, Answer
<1>3. QED
  BY <1>1, <1>2 DEF WindowInv, Addressed, Own, ForThisInterface

LEMMA WindowInit == Init => WindowInv
<1> SUFFICES ASSUME Init PROVE WindowInv
  OBVIOUS
<1>1. Typed
  BY TypeInit
<1>2. \A i \in Interfaces : mail[i] = NoRequest
  BY DEF Init
<1>3. ~ctl.open
  BY NoTransferType DEF Init
<1>4. QED
  BY <1>1, <1>2, <1>3
  DEF Init, WindowInv, Addressed, Waiting, Own, Attached, Handling, TouchesInsideWindow

\* Nothing of this depends on what the host remembers of its commit, which it may
\* forget when it closes its stream (SysDvrUvc).
Forgets ==
    /\ committed' = FALSE
    /\ UNCHANGED <<codeVars, urb, usbVars, ctl, outside, outcome>>

LEMMA ForgetStep ==
    ASSUME Forgets
    PROVE  (Typed => Typed') /\ (WindowInv => WindowInv')
<1>1. ASSUME Typed PROVE Typed'
  <2>1. UNCHANGED <<state, lastErrorCode, pc, iface, serviced, setup, stages, urb,
                    setupEvent, mail, configured, ctl, outside, outcome>>
    BY DEF Forgets, codeVars, usbVars
  <2>2. committed' \in BOOLEAN
    BY DEF Forgets
  <2>3. QED
    BY <1>1, <2>1, <2>2 DEF Typed, TypeOK, OpenHasStages
<1>2. WindowInv => WindowInv'
  <2>1. UNCHANGED <<pc, setup, stages, state, iface, urb, setupEvent, mail, configured,
                    ctl, outside>>
    BY DEF Forgets, codeVars, usbVars
  <2>2. Addressed /\ Waiting => (Addressed /\ Waiting)'
    BY <2>1 DEF Addressed, Own, Waiting
  <2>3. Attached /\ Handling => (Attached /\ Handling)'
    BY <2>1 DEF Attached, Handling, Answered, InWindow
  <2>4. QED
    BY <1>1, <2>1, <2>2, <2>3 DEF WindowInv, TouchesInsideWindow
<1>3. QED
  BY <1>1, <1>2

\* The thread is told of every stage that goes through, and in time.
StagesReported == Faults \intersect {"slow", "report"} = {}

\* One step keeps the accounts of the transfer, provided that stages are reported
\* and that the device does not come back in the middle of a request.
LEMMA WindowStep ==
    ASSUME StagesReported, OnlyInterfacesDoubled,
           WindowInv, [Next]_vars, configured' /\ ~configured => pc = "out"
    PROVE  WindowInv'
<1>0. Typed'
  BY TypeStep DEF WindowInv
<1> SUFFICES (Addressed /\ Waiting /\ Attached /\ Handling /\ TouchesInsideWindow)'
  BY <1>0 DEF WindowInv
<1>t. /\ pc \in {"out", "serve", "fetch", "follow", "post", "stage", "stall"}
      /\ urb \in {"none", "pending", "complete", "failed"}
      /\ iface \in Interfaces /\ ctl \in Transfers /\ mail \in [Interfaces -> Mail]
  BY DEF WindowInv, Typed, TypeOK, Transfers
<1> USE DEF WindowInv, Addressed, Own, Waiting, Attached, Handling, Answered,
            InWindow, TouchesInsideWindow
<1>1. CASE PollDisconnected \/ PollConfigured
  BY <1>1 DEF PollDisconnected, PollConfigured, usbVars, hostVars
<1>2. CASE NothingPending \/ NoPacket
  BY <1>2, <1>t, NextInterfaceType DEF NothingPending, NoPacket, usbVars, hostVars
<1>3. CASE TakeEvent \/ FollowUp
  BY <1>3 DEF TakeEvent, FollowUp, usbVars, hostVars
<1>4. ASSUME NEW r \in Requests, Fetch(r)
      PROVE (Addressed /\ Waiting /\ Attached /\ Handling /\ TouchesInsideWindow)'
  <2> DEFINE answer == HandleSetupPacket(iface, r)
             window == ctl.open /\ ctl.req = r
  <2>1. /\ mail' = [mail EXCEPT ![iface] = NoRequest] /\ setup' = r /\ pc = "fetch"
        /\ UNCHANGED <<state, serviced, setupEvent, configured, committed>>
    BY <1>4 DEF Fetch
  <2>a. \A i \in Interfaces : mail'[i] = IF i = iface THEN NoRequest ELSE mail[i]
    BY <2>1, <1>t
  <2>2. CASE answer.kind = "ignore"
    <3>1. NextInterface /\ UNCHANGED <<lastErrorCode, stages, urb, ctl, outside, outcome>>
      BY <1>4, <2>2 DEF Fetch
    <3>2. QED
      BY <2>1, <2>a, <3>1, <1>t, NextInterfaceType
  <2>3. CASE answer.kind # "ignore"
    <3>1. Own(iface) /\ r = mail[iface]
      BY <1>4, <2>3, FetchesOwn
    <3>2. window /\ ~ctl.taken /\ ctl.expect = HostStages(r) /\ configured
      BY <3>1, <1>t
    <3>3. ASSUME NEW i \in Interfaces PROVE ~Own(i)'
      <4>1. i # iface => ~Own(i)
        BY <3>1, <1>t
      <4>2. QED
        BY <2>a, <4>1
    <3>4. CASE answer.kind = "stall"
      <4>1. StallCtrl(window, "refused") /\ NextInterface
        BY <1>4, <3>4 DEF Fetch
      <4>2. urb' = "none" /\ ~ctl'.open /\ ~outside'
        BY <3>2, <4>1, NoTransferType DEF StallCtrl
      <4>3. QED
        BY <2>1, <2>a, <3>3, <4>1, <4>2, <1>t, NextInterfaceType
    <3>5. CASE answer.kind # "stall"
      <4>1. /\ stages' = Stages(answer.kind) /\ ctl' = [ctl EXCEPT !.taken = window]
            /\ pc' = "post"
            /\ UNCHANGED <<iface, lastErrorCode, urb, outside, outcome>>
        BY <1>4, <2>3, <3>5 DEF Fetch
      <4>2. stages' = HostStages(r)
        BY <4>1, <2>3, <3>5, <1>t, SameStages
      <4>3. ctl'.open /\ ctl'.taken /\ ctl'.req = r /\ ctl'.expect = HostStages(r)
        BY <3>2, <4>1, <1>t DEF Transfers
      <4>4. QED
        BY <2>1, <2>a, <3>2, <3>3, <4>1, <4>2, <4>3
    <3>6. QED
      BY <3>4, <3>5
  <2>4. QED
    BY <2>2, <2>3
<1>5. CASE PostStage \/ PostStageFails
  <2>1. CASE PostStage
    BY <2>1 DEF PostStage, usbVars
  <2>2. CASE PostStageFails
    BY <2>2 DEF PostStageFails, usbVars, hostVars
  <2>3. QED
    BY <1>5, <2>1, <2>2
<1>6. CASE StageFails
  BY <1>6, <1>t DEF StageFails, StageDue, StagesReported, usbVars, hostVars
<1>7. CASE DataStageDone
  <2>1. Len(stages) # 1
    BY <1>7, NotLast DEF DataStageDone
  <2>2. QED
    BY <1>7, <2>1 DEF DataStageDone, usbVars, hostVars
<1>8. CASE StatusStageDone
  BY <1>8, <1>t, NextInterfaceType DEF StatusStageDone, usbVars, hostVars
<1>9. CASE StallFailed
  <2>1. /\ pc = "stall" /\ StallCtrl(InWindow, "failed") /\ NextInterface
        /\ UNCHANGED <<state, serviced, setup, setupEvent, mail, configured, committed>>
    BY <1>9 DEF StallFailed, usbVars
  <2>2. urb' = "none" /\ ~ctl'.open /\ ~outside'
    BY <2>1, NoTransferType DEF StallCtrl
  <2>3. \A i \in Interfaces : ~Own(i)
    BY <2>1
  <2>4. QED
    BY <2>1, <2>2, <2>3, <1>t, NextInterfaceType
<1>10. ASSUME NEW r \in Requests, HostSends(r)
       PROVE (Addressed /\ Waiting /\ Attached /\ Handling /\ TouchesInsideWindow)'
  <2>1. /\ configured /\ ~ctl.open /\ ctl'.open /\ ~ctl'.taken /\ ctl'.req = r
        /\ ctl'.expect = HostStages(r)
        /\ UNCHANGED <<codeVars, urb, configured, committed, outside, outcome>>
    BY <1>10 DEF HostSends
  <2>2. PICK signalled \in Signalled(r) :
          mail' = [i \in Interfaces |-> IF i \in signalled THEN r ELSE mail[i]]
    BY <1>10 DEF HostSends
  <2>3. /\ signalled = {r.iface} \/ "double" \in Faults
        /\ \A i \in Interfaces : i \in signalled => i = r.iface \/ r.to = "interface"
    BY <2>2 DEF Signalled, OnlyInterfacesDoubled
  <2>4. \A i \in Interfaces : ~Own(i)
    BY <2>1
  <2>5. QED
    BY <2>1, <2>2, <2>3, <2>4 DEF codeVars
<1>11. CASE HostRunsStage
  <2>1. /\ urb = "pending" /\ urb' = "complete" /\ configured /\ pc = "stage"
        /\ UNCHANGED <<codeVars, usbVars, outside>>
    BY <1>11, <1>t DEF HostRunsStage, StageDue
  <2>2. ctl.open /\ ctl.taken /\ ctl.req = setup /\ ctl.expect = stages
    BY <2>1
  <2>3. \A i \in Interfaces : ~Own(i)
    BY <2>2
  <2>4. CASE Len(stages) = 1
    <3>1. ctl' = NoTransfer
      BY <1>11, <2>2, <2>4 DEF HostRunsStage
    <3>2. QED
      BY <2>1, <2>2, <2>3, <2>4, <3>1, NoTransferType DEF codeVars, usbVars
  <2>5. CASE Len(stages) # 1
    <3>1. ctl' = [ctl EXCEPT !.expect = Tail(stages)]
      BY <1>11, <2>2, <2>5 DEF HostRunsStage
    <3>2. /\ ctl'.open /\ ctl'.taken /\ ctl'.req = ctl.req /\ ctl'.expect = Tail(stages)
      BY <2>2, <3>1, <1>t DEF Transfers
    <3>3. QED
      BY <2>1, <2>2, <2>3, <2>5, <3>2 DEF codeVars, usbVars
  <2>6. QED
    BY <2>4, <2>5
<1>12. CASE StageError
  BY <1>12 DEF StageError, codeVars, usbVars, hostVars
<1>13. CASE Unplug
  <2>1. \A i \in Interfaces : ~Own(i)' /\ mail'[i] = NoRequest
    BY <1>13 DEF Unplug
  <2>2. QED
    BY <1>13, <1>t, <2>1, NoTransferType DEF Unplug, codeVars
<1>14. CASE Plug
  <2>1. pc = "out"
    BY <1>14 DEF Plug
  <2>2. QED
    BY <1>14, <2>1 DEF Plug, codeVars, hostVars
<1>15. CASE UNCHANGED vars
  BY <1>15 DEF vars, codeVars, usbVars, hostVars
<1>16. QED
  BY <1>1, <1>2, <1>3, <1>4, <1>5, <1>6, <1>7, <1>8, <1>9, <1>10, <1>11, <1>12,
     <1>13, <1>14, <1>15
  DEF Next, Thread

\* The device comes back between two requests only: without the "bounce" fault
\* it is plugged in when the thread has seen the disconnection.
LEMMA PlugBetweenRequests ==
    ASSUME "bounce" \notin Faults, Attached, Typed, [Next]_vars
    PROVE  configured' /\ ~configured => pc = "out" /\ state = "DISCONNECTED"
<1>1. configured' # configured => Plug \/ Unplug
  BY DEF Next, Thread, vars, usbVars, codeVars, PollDisconnected, PollConfigured,
         NothingPending, TakeEvent, FollowUp, NoPacket, Fetch, PostStage,
         PostStageFails, StageFails, DataStageDone, StatusStageDone, StallFailed,
         HostSends, HostRunsStage, StageError
<1>2. QED
  BY <1>1 DEF Plug, Unplug, Attached

\* The assumptions of the three theorems about negotiation: the thread is told of
\* every stage that goes through, within EP0_XFER_TIMEOUT (without that, the
\* ControlUnreported run), no reconnection between two polls, and only requests to
\* an interface copied. Stages may fail, and packets not be fetched.
Punctual == StagesReported /\ "bounce" \notin Faults /\ OnlyInterfacesDoubled

LEMMA Windows ==
    ASSUME Punctual
    PROVE  Spec => []WindowInv
<1>1. WindowInv /\ [Next]_vars => WindowInv'
  BY WindowStep, PlugBetweenRequests DEF Punctual, WindowInv
<1>2. QED
  BY WindowInit, <1>1, PTL DEF Spec

(***************************************************************************)
(* "Only touch EP0 inside the SetupEvent -> GetSetupPacket window": every  *)
(* post and every stall of the thread belongs to a request the host is     *)
(* still waiting on, also when usb:ds signals one request twice, leaves an *)
(* event behind or does not hand the packet over, or stages do not go      *)
(* through. A status stage that does, and whose report comes late or never *)
(* (1109-1121), is what Punctual excludes: the code stalls outside.        *)
(***************************************************************************)
THEOREM OnlyInsideWindow ==
    ASSUME Punctual
    PROVE  Spec => []TouchesInsideWindow
<1>1. WindowInv => TouchesInsideWindow
  BY DEF WindowInv
<1>2. QED
  BY Windows, <1>1, PTL

\* What the host knows of its commit changes with the last stage of one, and
\* with a disconnection.
LEMMA CommitSteps ==
    ASSUME WindowInv, [Next]_vars
    PROVE  \/ UNCHANGED <<committed, configured>>
           \/ HostRunsStage \/ Unplug \/ Plug
<1> USE DEF vars, usbVars, codeVars, hostVars
<1>1. CASE Thread
  BY <1>1
  DEF Thread, PollDisconnected, PollConfigured, NothingPending, TakeEvent, FollowUp,
      NoPacket, Fetch, PostStage, PostStageFails, StageFails, DataStageDone,
      StatusStageDone, StallFailed
<1>2. CASE (\E r \in Requests : HostSends(r)) \/ StageError \/ UNCHANGED vars
  BY <1>2 DEF HostSends, StageError
<1>3. QED
  BY <1>1, <1>2 DEF Next

\* The thread reaches the end of every commit the host has seen the end of, since
\* it is told that the stage went through.
LEMMA LateStep ==
    ASSUME StagesReported, WindowInv, [Next]_vars, NEW requests \in SUBSET Requests, Ended(requests)
    PROVE  \/ Ended(requests)' /\ UNCHANGED <<state, outcome, lastErrorCode, setup>>
           \/ StatusStageDone
           \/ Unplug
<1> USE DEF Ended
<1>1. CASE Thread
  <2>1. pc = "stage" /\ urb = "complete" /\ Len(stages) = 1
    OBVIOUS
  <2>2. ~(Len(stages) > 1)
    BY <2>1, NotLast
  <2>3. QED
    BY <1>1, <2>1, <2>2
    DEF Thread, PollDisconnected, PollConfigured, NothingPending, TakeEvent, FollowUp,
        NoPacket, Fetch, PostStage, PostStageFails, StageFails, StagesReported,
        DataStageDone, StallFailed
<1>2. CASE \/ \E r \in Requests : HostSends(r)
           \/ Plug \/ UNCHANGED vars
  BY <1>2 DEF HostSends, Plug, vars, codeVars, hostVars
<1>3. CASE HostRunsStage \/ StageError
  BY <1>3 DEF HostRunsStage, StageDue, StageError
<1>4. QED
  BY <1>1, <1>2, <1>3 DEF Next

\* The last stage of a commit is the host's as well as the thread's.
LEMMA EndStep ==
    ASSUME WindowInv, HostRunsStage
    PROVE  /\ ctl.req = setup /\ setup \in Requests /\ configured
           /\ Len(ctl.expect) = 1 <=> (pc = "stage" /\ urb = "complete" /\ Len(stages) = 1)'
           /\ UNCHANGED <<state, configured, setup, lastErrorCode>>
<1>1. urb = "pending" /\ pc = "stage" /\ configured /\ urb' = "complete"
  BY DEF HostRunsStage, StageDue, WindowInv, Attached, Handling, Typed, TypeOK
<1>2. ctl.req = setup /\ ctl.expect = stages /\ setup \in Requests
  BY <1>1 DEF WindowInv, Handling, Answered
<1>3. UNCHANGED <<state, configured, setup, pc, stages, lastErrorCode>>
  BY DEF HostRunsStage, codeVars, usbVars
<1>4. QED
  BY <1>1, <1>2, <1>3

\* A host whose commit has ended has a device that streams, or is about to.
LEMMA CommitServedStep ==
    ASSUME StagesReported, WindowInv, CommitServed, [Next]_vars
    PROVE  CommitServed'
<1> USE DEF CommitServed
<1>1. CASE HostRunsStage
  <2>1. CASE Len(ctl.expect) = 1 /\ IsCommit(ctl.req)
    <3>1. Late'
      BY <1>1, <2>1, EndStep DEF Late, Ended, IsCommit
    <3>2. QED
      BY <1>1, <3>1, EndStep
  <2>2. CASE ~(Len(ctl.expect) = 1 /\ IsCommit(ctl.req))
    <3>1. committed' => committed
      BY <1>1, <2>2 DEF HostRunsStage
    <3>2. ~Late
      BY <1>1 DEF HostRunsStage, StageDue, Late, Ended
    <3>3. QED
      BY <1>1, <3>1, <3>2, EndStep
  <2>3. QED
    BY <2>1, <2>2
<1>2. CASE Unplug \/ Plug
  BY <1>2 DEF Unplug, Plug, codeVars, hostVars
<1>3. CASE UNCHANGED <<committed, configured>>
  <2>1. CASE Late /\ committed
    <3>1. CASE StatusStageDone
      BY <1>3, <2>1, <3>1 DEF StatusStageDone, Late, Ended
    <3>2. CASE Late' \/ Unplug
      BY <1>3, <2>1, <3>2 DEF Unplug
    <3>3. QED
      BY <2>1, <3>1, <3>2, LateStep DEF Late
  <2>2. CASE state = "STREAMING" /\ committed /\ configured
    <3>1. state' = "STREAMING"
      BY <2>2
      DEF Next, Thread, vars, codeVars, PollDisconnected, PollConfigured,
          NothingPending, TakeEvent, FollowUp, NoPacket, Fetch, PostStage,
          PostStageFails, StageFails, DataStageDone, StatusStageDone, StallFailed,
          HostSends, HostRunsStage, StageError, Unplug, Plug
    <3>2. QED
      BY <1>3, <2>2, <3>1
  <2>3. QED
    BY <1>3, <2>1, <2>2
<1>4. QED
  BY <1>1, <1>2, <1>3, CommitSteps

\* A device that streams, or is about to, has a host that committed: this
\* direction needs every disconnection to be seen.
LEMMA StreamWantedStep ==
    ASSUME WindowInv, StreamWanted, [Next]_vars,
           configured' /\ ~configured => state = "DISCONNECTED"
    PROVE  StreamWanted'
<1> USE DEF StreamWanted
<1>1. CASE HostRunsStage
  <2>1. committed => committed'
    BY <1>1 DEF HostRunsStage
  <2>2. Late' => committed'
    <3>1. ASSUME Late' PROVE Len(ctl.expect) = 1 /\ IsCommit(ctl.req)
      BY <1>1, <3>1, EndStep DEF Late, Ended, IsCommit
    <3>2. QED
      BY <1>1, <3>1 DEF HostRunsStage
  <2>3. QED
    BY <1>1, <2>1, <2>2, EndStep
<1>2. CASE Unplug
  BY <1>2 DEF Unplug
<1>3. CASE Plug
  BY <1>3 DEF Plug, codeVars, Late, Ended, WindowInv, Attached
<1>4. CASE UNCHANGED <<committed, configured>> /\ ~HostRunsStage
  <2>1. Late' => Late
    BY <1>4
    DEF Late, Ended, IsCommit, Next, Thread, vars, codeVars, PollDisconnected,
        PollConfigured, NothingPending, TakeEvent, FollowUp, NoPacket, NextInterface,
        Fetch, PostStage, PostStageFails, StageFails, DataStageDone, StatusStageDone,
        StallFailed, HostSends, StageError, Unplug, Plug
  <2>2. state' = "STREAMING" => state = "STREAMING" \/ Late
    BY DEF Late, Ended, WindowInv, Handling, Next, Thread, vars, codeVars,
        PollDisconnected, PollConfigured, NothingPending, TakeEvent, FollowUp, NoPacket,
        Fetch, PostStage, PostStageFails, StageFails, DataStageDone, StatusStageDone,
        StallFailed, HostSends, HostRunsStage, StageError, Unplug, Plug
  <2>3. QED
    BY <1>4, <2>1, <2>2
<1>5. QED
  BY <1>1, <1>2, <1>3, <1>4, CommitSteps

(***************************************************************************)
(* The device streams exactly when the host in front of it has seen its    *)
(* commit succeed, whenever the thread is not in the middle of a request   *)
(* and as long as it is told of every stage that went through (Punctual):  *)
(* a lost report of a commit's status stage (1251) is excluded there.      *)
(* The invariant adds the one step in which only the host knows.           *)
(***************************************************************************)
THEOREM StreamAgreed ==
    ASSUME Punctual
    PROVE  Spec => []StreamingAgreement
<1> DEFINE IInv == WindowInv /\ CommitServed /\ StreamWanted
<1>1. Init => IInv
  BY WindowInit DEF Init, CommitServed, StreamWanted, Late, Ended
<1>2. IInv /\ [Next]_vars => IInv'
  BY WindowStep, PlugBetweenRequests, CommitServedStep, StreamWantedStep
  DEF Punctual, WindowInv
<1>3. IInv => StreamingAgreement
  BY DEF CommitServed, StreamWanted, StreamingAgreement, Late, Ended
<1>4. QED
  BY <1>1, <1>2, <1>3, PTL DEF Spec

\* A stall of a class request sets a code, another one keeps it.
LEMMA StallCode ==
    ASSUME NEW i \in Interfaces, NEW r \in Requests,
           HandleSetupPacket(i, r).kind = "stall"
    PROVE  IF r.type = "class" THEN HandleSetupPacket(i, r).error # "NONE"
                               ELSE HandleSetupPacket(i, r).error = lastErrorCode
BY DEF HandleSetupPacket, HandleVsSetup, HandleVcSetup, HandleStandard, StallError,
       Answer, Keep, Interfaces

\* Only a class request other than a read of the code itself changes the code.
LEMMA KeepsCode ==
    ASSUME NEW i \in Interfaces, NEW r \in Requests
    PROVE  HandleSetupPacket(i, r).error = lastErrorCode \/ r \in Remembered
<1>1. CASE r.type = "class" /\ ReadsErrorCode(r)
  <2>1. r.iface # VS /\ r.to = "interface"
    BY <1>1, ConstantsAssumption
    DEF ReadsErrorCode, AllRequests, VsRequests, VcRequests, StandardRequests,
        DeviceRequests, Class, Standard
  <2>2. QED
    BY <1>1, <2>1
    DEF ReadsErrorCode, HandleSetupPacket, ForThisInterface, HandleVcSetup, Answer,
        Keep, Interfaces
<1>2. CASE r.type = "class" /\ ~ReadsErrorCode(r)
  BY <1>2 DEF Remembered
<1>3. CASE r.type # "class"
  BY <1>3 DEF HandleSetupPacket, HandleStandard, Answer, Keep
<1>4. QED
  BY <1>1, <1>2, <1>3

\* The steps between two ends of a transfer change neither the code nor what the
\* host remembers.
LEMMA ExplainedStep ==
    ASSUME WindowInv, Explained, [Next]_vars,
           configured' /\ ~configured => state = "DISCONNECTED"
    PROVE  Explained'
<1>t. iface \in Interfaces /\ pc \in {"out", "serve", "fetch", "follow", "post",
                                      "stage", "stall"}
  BY DEF WindowInv, Typed, TypeOK
<1> USE DEF Explained, StallIsExplained, Ended
<1>1. CASE PollDisconnected \/ PollConfigured
  BY <1>1 DEF PollDisconnected, PollConfigured, usbVars, hostVars
<1>2. CASE NothingPending \/ NoPacket \/ TakeEvent \/ FollowUp
  BY <1>2, <1>t, NextInterfaceType
  DEF NothingPending, NoPacket, TakeEvent, FollowUp, usbVars, hostVars
<1>3. ASSUME NEW r \in Requests, Fetch(r) PROVE Explained'
  <2> DEFINE answer == HandleSetupPacket(iface, r)
  <2>1. /\ pc = "fetch" /\ pc' # "stage" /\ UNCHANGED <<state, configured>>
        /\ state # "DISCONNECTED"
    BY <1>3, <1>t, NextInterfaceType DEF Fetch, WindowInv, Attached
  <2>2. CASE answer.kind # "stall"
    BY <1>3, <2>1, <2>2 DEF Fetch
  <2>3. CASE answer.kind = "stall"
    <3>1. r = mail[iface] /\ Own(iface)
      BY <1>3, <2>3, FetchesOwn
    <3>2. ctl.open /\ ctl.req = r /\ configured
      BY <1>t, <3>1 DEF WindowInv, Waiting, Attached
    <3>3. HostSees("refused") /\ lastErrorCode' = answer.error
      BY <1>3, <2>3, <3>2 DEF Fetch, StallCtrl
    <3>4. QED
      BY <2>1, <2>3, <3>2, <3>3, <1>t, StallCode DEF HostSees
  <2>4. QED
    BY <2>2, <2>3
<1>4. CASE PostStage \/ PostStageFails \/ StageFails
  <2>1. UNCHANGED <<state, lastErrorCode, configured, outcome>> /\ ~Ended(Remembered)'
    BY <1>4 DEF PostStage, PostStageFails, StageFails, usbVars, hostVars
  <2>2. QED
    BY <2>1
<1>5. CASE DataStageDone
  BY <1>5 DEF DataStageDone, usbVars, hostVars
<1>6. CASE StatusStageDone
  <2>1. /\ pc = "stage" /\ urb = "complete" /\ Len(stages) = 1 /\ setup \in Requests
        /\ state # "DISCONNECTED"
    BY <1>6 DEF StatusStageDone, WindowInv, Handling, Attached
  <2>2. lastErrorCode' = lastErrorCode \/ outcome # "refused"
    BY <1>6, <1>t, <2>1, KeepsCode DEF StatusStageDone
  <2>3. /\ pc' # "stage" /\ UNCHANGED <<configured, outcome>>
        /\ state' \in {state, "STREAMING"}
    BY <1>6, <1>t, NextInterfaceType DEF StatusStageDone, usbVars, hostVars
  <2>4. QED
    BY <2>1, <2>2, <2>3
<1>7. CASE StallFailed
  <2>1. /\ pc = "stall" /\ pc' # "stage" /\ setup \in Requests
        /\ StallCtrl(InWindow, "failed")
        /\ UNCHANGED <<state, configured>> /\ state # "DISCONNECTED"
    BY <1>7, <1>t, NextInterfaceType
    DEF StallFailed, usbVars, WindowInv, Handling, Attached
  <2>2. lastErrorCode' = lastErrorCode \/ setup \in Remembered
    BY <1>7, <1>t, <2>1, KeepsCode DEF StallFailed
  <2>3. CASE configured
    <3>1. ctl.open /\ ctl.req = setup
      BY <2>1, <2>3 DEF WindowInv, Handling, Answered, InWindow
    <3>2. outcome' = IF setup \in Remembered THEN "failed" ELSE outcome
      BY <2>1, <3>1 DEF StallCtrl, HostSees, Remembered
    <3>3. QED
      BY <2>1, <2>2, <2>3, <3>2
  <2>4. CASE ~configured
    <3>1. ~ctl.open
      BY <2>4 DEF WindowInv, Attached
    <3>2. outcome' = outcome
      BY <2>1, <3>1 DEF StallCtrl
    <3>3. QED
      BY <2>1, <2>4, <3>2
  <2>5. QED
    BY <2>3, <2>4
<1>8. CASE HostRunsStage
  <2>1. outcome' = IF Len(ctl.expect) = 1 /\ setup \in Remembered
                   THEN "answered" ELSE outcome
    BY <1>8, EndStep DEF HostRunsStage, HostSees, Remembered
  <2>2. Ended(Remembered)' => Len(ctl.expect) = 1 /\ setup \in Remembered
    BY <1>8, EndStep DEF Remembered, ReadsErrorCode
  <2>3. state # "DISCONNECTED"
    BY <1>8 DEF HostRunsStage, StageDue, WindowInv, Attached, Handling, Typed, TypeOK
  <2>4. QED
    BY <1>8, <2>1, <2>2, <2>3, EndStep
<1>9. CASE Unplug
  BY <1>9 DEF Unplug, codeVars
<1>10. CASE (\E r \in Requests : HostSends(r)) \/ StageError \/ Plug \/ UNCHANGED vars
  <2>1. UNCHANGED <<state, lastErrorCode, outcome, pc, setup, stages>>
    BY <1>10 DEF HostSends, StageError, Plug, vars, codeVars, hostVars
  <2>2. urb' \in {urb, "failed"}
    BY <1>10 DEF HostSends, StageError, Plug, vars
  <2>3. ~configured' => ~configured
    BY <1>10 DEF HostSends, StageError, Plug, vars, usbVars
  <2>4. Ended(Remembered)' => Ended(Remembered)
    BY <2>1, <2>2 DEF Remembered, ReadsErrorCode
  <2>5. QED
    BY <2>1, <2>3, <2>4
<1>11. QED
  BY <1>1, <1>2, <1>3, <1>4, <1>5, <1>6, <1>7, <1>8, <1>9, <1>10 DEF Next, Thread

(***************************************************************************)
(* "Hosts read this after a stalled class request to learn why it failed": *)
(* the code of a refusal stays until the host makes another class request, *)
(* whatever standard requests, failures and reconnections come in between. *)
(***************************************************************************)
THEOREM RefusalsExplained ==
    ASSUME Punctual
    PROVE  Spec => []StallIsExplained
<1> DEFINE IInv == WindowInv /\ Explained
<1>1. Init => IInv
  BY WindowInit DEF Init, Explained, StallIsExplained, Ended
<1>2. IInv /\ [Next]_vars => IInv'
  BY WindowStep, PlugBetweenRequests, ExplainedStep DEF Punctual, WindowInv
<1>3. IInv => StallIsExplained
  BY DEF Explained
<1>4. QED
  BY <1>1, <1>2, <1>3, PTL DEF Spec

=============================================================================
