------------------------- MODULE UvcSendFrameProofs -------------------------
(***************************************************************************)
(* Theorems about UvcSendFrame, for every set of frame sizes, both bus     *)
(* speeds, every (even) range of frameNumber and every set of faults the   *)
(* statement allows.                                                       *)
(***************************************************************************)
EXTENDS UvcSendFrame, TLAPS

(***************************************************************************)
(* Lemmas about the operators of the model.                                *)
(***************************************************************************)
\* A chunk is part of what remains and, with its header, stays below the
\* negotiated payload size.
LEMMA ChunkFits ==
    ASSUME NEW n \in Nat
    PROVE  /\ ChunkSize(n) \in 0 .. n
           /\ n > 0 => ChunkSize(n) > 0
           /\ HeaderLen + ChunkSize(n) \in HeaderLen .. MaxTransferSize - 1
           /\ IsLastChunk(n) <=> ChunkSize(n) = n
BY DEF ChunkSize, IsLastChunk, MaxPayload, MaxTransferSize, HeaderLen

\* The host's parser keeps its type whatever it receives.
LEMMA ParserType ==
    ASSUME NEW h \in Hosts, NEW u \in Urbs
    PROVE  Receive(h, u) \in Hosts /\ ReceivePart(h, u) \in Hosts
<1>1. Parse(h, u) \in Hosts
  BY DEF Parse, Joined, Hosts, Urbs
<1>2. QED
  BY <1>1 DEF Receive, ReceivePart, EndsShort, Hosts, Urbs

\* A posted buffer, and the absence of one, are URBs.
LEMMA UrbType ==
    ASSUME TypeOK
    PROVE  Payload \in Urbs /\ Zlp \in Urbs /\ NoUrb \in Urbs
<1>1. HeaderLen + ChunkSize(remaining) \in HeaderLen .. MaxTransferSize - 1
  BY ChunkFits DEF TypeOK
<1>2. frameId % 2 \in Fids
  BY DEF TypeOK, Fids
<1>3. 0 \in Fids /\ 0 \in Numbers
  BY ConstantsAssumption DEF Fids, Numbers
<1>4. HeaderEof(remaining) \in BOOLEAN
  BY DEF HeaderEof, IsLastChunk
<1>5. QED
  BY <1>1, <1>2, <1>3, <1>4
  DEF TypeOK, Payload, Zlp, NoUrb, Urbs, UrbStates

\* The initial state is typed.
LEMMA TypeInit == Init => TypeOK
<1>1. 0 \in Fids /\ 0 \in Numbers /\ 0 \in Nat
  BY ConstantsAssumption DEF Fids, Numbers
<1>2. NoUrb \in Urbs /\ FreshHost \in Hosts
  BY <1>1 DEF NoUrb, FreshHost, Urbs, UrbStates, Hosts
<1>3. QED
  BY <1>1, <1>2 DEF Init, TypeOK

\* One step keeps every type.
LEMMA TypeStep == TypeOK /\ [Next]_vars => TypeOK'
<1> SUFFICES ASSUME TypeOK, [Next]_vars PROVE TypeOK'
  OBVIOUS
<1>t. urb \in Urbs /\ host \in Hosts /\ Payload \in Urbs /\ Zlp \in Urbs
      /\ NoUrb \in Urbs
  BY UrbType DEF TypeOK
<1>a. Advance => src' \in Nat /\ remaining' \in Nat /\ success' \in BOOLEAN
                 /\ size' = size /\ pc' \in {"post", "finish"}
  BY ChunkFits DEF Advance, IsLastChunk, TypeOK
<1>r. FreshHost \in Hosts
  BY DEF FreshHost, Hosts, Fids
<1>1. ASSUME NEW n \in FrameSizes, SendFrame(n) PROVE TypeOK'
  BY <1>1, ConstantsAssumption DEF SendFrame, TypeOK, linkVars, frameVars, urbVars
<1>2. CASE PostPayload
  BY <1>2, <1>t DEF PostPayload, Post, TypeOK, linkVars, frameVars, callVars, urbVars
<1>3. CASE PostPayloadFails
  BY <1>3 DEF PostPayloadFails, TypeOK, linkVars, frameVars, callVars
<1>4. CASE PostZlp
  BY <1>4, <1>t DEF PostZlp, Post, TypeOK, linkVars, frameVars, callVars, urbVars
<1>5. CASE PostZlpFails
  BY <1>5, <1>a DEF PostZlpFails, TypeOK, linkVars, frameVars
<1>6. CASE PayloadCompleted
  BY <1>6, <1>a, <1>t DEF PayloadCompleted, Completed, TypeOK, linkVars, frameVars, callVars
<1>7. CASE PayloadReportFails
  BY <1>7 DEF PayloadReportFails, Completed, TypeOK, linkVars, frameVars, callVars
<1>8. CASE ZlpCompleted
  <2>1. urb' \in Urbs
    BY <1>8, <1>t DEF ZlpCompleted
  <2>2. QED
    BY <2>1, <1>8, <1>a DEF ZlpCompleted, Completed, TypeOK, linkVars, frameVars
<1>9. CASE Timeout
  BY <1>9 DEF Timeout, TypeOK, linkVars, frameVars, callVars, urbVars
<1>10. CASE Cancel
  <2>1. urb' \in Urbs
    BY <1>10, <1>t DEF Cancel, Urbs, UrbStates
  <2>2. QED
    BY <2>1, <1>10 DEF Cancel, TypeOK, linkVars, frameVars, callVars
<1>11. CASE ReapCancelled
  <2>1. urb' \in Urbs
    BY <1>11, <1>t DEF ReapCancelled
  <2>2. QED
    BY <2>1, <1>11 DEF ReapCancelled, TypeOK, linkVars, frameVars, callVars
<1>12. CASE ReapTimeout
  BY <1>12 DEF ReapTimeout, TypeOK, linkVars, frameVars, callVars, urbVars
<1>13. CASE Finish
  <2>1. urb' \in Urbs
    BY <1>13, <1>t DEF Finish, Urbs
  <2>2. frameId' \in Fids /\ frameNumber' \in Numbers
    BY <1>13, ConstantsAssumption DEF Finish, TypeOK, Fids, Numbers
  <2>3. QED
    BY <2>1, <2>2, <1>13 DEF Finish, TypeOK, linkVars, callVars
<1>14. CASE Unplug
  <2>1. urb' \in Urbs
    BY <1>14, <1>t DEF Unplug, Urbs, UrbStates
  <2>2. QED
    BY <2>1, <1>14, <1>r
    DEF Unplug, OutstandingUrb, TypeOK, linkVars, frameVars, callVars
<1>15. CASE Connect
  BY <1>15, ConstantsAssumption DEF Connect, TypeOK, Fids, Numbers, callVars, urbVars
<1>16. CASE Plug \/ PollDisconnected \/ Commit
  BY <1>16
  DEF Plug, PollDisconnected, Commit, TypeOK, linkVars, frameVars, callVars, urbVars
<1>17. CASE HostRead
  <2>1. urb' \in Urbs
    BY <1>17, <1>t DEF HostRead, Urbs, UrbStates
  <2>2. host' \in Hosts
    BY <1>17, <1>t, ParserType DEF HostRead
  <2>3. received' \in Nat
    BY <1>17, <1>t DEF HostRead, Extend, Urbs, HeaderLen, TypeOK
  <2>4. QED
    BY <2>1, <2>2, <2>3, <1>17 DEF HostRead, TypeOK, linkVars, frameVars, callVars
<1>18. CASE CompletesCancelled
  <2>1. urb' \in Urbs
    BY <1>18, <1>t
    DEF CompletesCancelled, CancelCompletes, CancelCompletesPartly, Urbs, UrbStates
  <2>2. host' \in Hosts
    BY <1>18, <1>t, ParserType
    DEF CompletesCancelled, CancelCompletes, CancelCompletesPartly
  <2>3. received' \in Nat
    BY <1>18, ConstantsAssumption
    DEF CompletesCancelled, CancelCompletes, CancelCompletesPartly, Extend,
        HeaderLen, TypeOK
  <2>4. QED
    BY <2>1, <2>2, <2>3, <1>18
    DEF CompletesCancelled, CancelCompletes, CancelCompletesPartly, TypeOK,
        linkVars, frameVars, callVars
<1>19. CASE TransferError
  <2>1. urb' \in Urbs
    BY <1>19, <1>t DEF TransferError, Urbs, UrbStates
  <2>2. QED
    BY <2>1, <1>19 DEF TransferError, TypeOK, linkVars, frameVars, callVars
<1>20. CASE HostRestart
  BY <1>20, <1>r DEF HostRestart, TypeOK, linkVars, frameVars, callVars, urbVars
<1>21. CASE UNCHANGED vars
  BY <1>21 DEF TypeOK, vars, linkVars, frameVars, callVars, urbVars
<1>22. QED
  BY <1>1, <1>2, <1>3, <1>4, <1>5, <1>6, <1>7, <1>8, <1>9, <1>10, <1>11,
     <1>12, <1>13, <1>14, <1>15, <1>16, <1>17, <1>18, <1>19, <1>20, <1>21
  DEF Next, Thread

(***************************************************************************)
(* Every variable keeps its type, and a payload never reaches the          *)
(* negotiated 16 KB.                                                       *)
(***************************************************************************)
THEOREM TypeCorrect == Spec => []TypeOK
BY TypeInit, TypeStep, PTL DEF Spec

(***************************************************************************)
(* The usb sysmodule never asserts, provided a cancelled URB completes     *)
(* within the 100 ms given to it and a completed URB's report can be       *)
(* fetched. The invariant behind it: wherever the thread may post, or      *)
(* leave the call, the endpoint's slot has been reaped.                    *)
(***************************************************************************)
Reaped == pc \in {"idle", "post", "zlp", "finish"} => urb.state = "none"

\* One step keeps the slot reaped when cancelled URBs are punctual.
LEMMA ReapedStep ==
    ASSUME Faults \intersect {"report", "lateCancel"} = {},
           TypeOK, Reaped, NeverAsserts, [Next]_vars
    PROVE  (Reaped /\ NeverAsserts)'
<1> USE DEF Reaped, NeverAsserts
<1>0. urb \in Urbs /\ "report" \notin Faults /\ "lateCancel" \notin Faults
  BY DEF TypeOK
<1>n. NoUrb.state = "none"
  BY DEF NoUrb
<1>1. ASSUME NEW n \in FrameSizes, SendFrame(n) PROVE (Reaped /\ NeverAsserts)'
  BY <1>1 DEF SendFrame, urbVars
<1>2. CASE PostPayload \/ PostZlp
  BY <1>2 DEF PostPayload, PostZlp, Post
<1>3. CASE PostPayloadFails \/ PostZlpFails
  BY <1>3 DEF PostPayloadFails, PostZlpFails, Advance
<1>4. CASE PayloadCompleted \/ ZlpCompleted
  BY <1>0, <1>n, <1>4 DEF PayloadCompleted, ZlpCompleted
<1>5. CASE PayloadReportFails \/ ReapTimeout
  BY <1>0, <1>5 DEF PayloadReportFails, ReapTimeout
<1>6. CASE Timeout \/ Cancel
  BY <1>6 DEF Timeout, Cancel
<1>7. CASE ReapCancelled
  BY <1>0, <1>n, <1>7 DEF ReapCancelled
<1>8. CASE Finish \/ Unplug
  <2>1. urb.state = "none" => urb'.state = "none"
    BY <1>0, <1>8 DEF Finish, Unplug, OutstandingUrb, Urbs
  <2>2. QED
    BY <2>1, <1>8 DEF Finish, Unplug
<1>9. CASE Plug \/ PollDisconnected \/ Connect \/ Commit
  BY <1>9 DEF Plug, PollDisconnected, Connect, Commit, urbVars
<1>10. CASE HostRead \/ CompletesCancelled \/ TransferError
  BY <1>10
  DEF HostRead, OutstandingUrb, CompletesCancelled, CancelCompletes,
      CancelCompletesPartly, TransferError
<1>11. CASE HostRestart \/ UNCHANGED vars
  BY <1>11 DEF HostRestart, vars, urbVars
<1>12. QED
  BY <1>1, <1>2, <1>3, <1>4, <1>5, <1>6, <1>7, <1>8, <1>9, <1>10, <1>11
  DEF Next, Thread

\* "Never re-post over an unreaped URB", when cancelled URBs are punctual.
THEOREM NoConsoleCrash ==
    ASSUME Faults \intersect {"report", "lateCancel"} = {}
    PROVE  Spec => []NeverAsserts
<1> DEFINE IInv == TypeOK /\ Reaped /\ NeverAsserts
<1>1. Init => IInv
  BY TypeInit DEF Init, NoUrb, Reaped, NeverAsserts
<1>2. IInv /\ [Next]_vars => IInv'
  BY TypeStep, ReapedStep
<1>3. QED
  BY <1>1, <1>2, PTL DEF Spec

(***************************************************************************)
(* Two consecutive attempts carry different FIDs, across aborted attempts, *)
(* reconnections and the wrap of frameNumber, so the host never takes them *)
(* for one frame. The invariant behind it: a FID is always the parity of   *)
(* the attempt it belongs to, in the device, on the wire and in the host.  *)
(***************************************************************************)
IdIsParity      == frameId = frameNumber % 2
UrbCarriesParity == urb.fid = urb.frame % 2
SameParity(h)   == \A f \in h.frames : f % 2 = h.fid

\* The next attempt has the other parity, also when frameNumber wraps.
LEMMA NextParity ==
    ASSUME NEW n \in Numbers
    PROVE  ((n + 1) % FrameNumbers) % 2 = 1 - (n % 2)
<1>1. CASE n + 1 = FrameNumbers
  BY <1>1, ConstantsAssumption DEF Numbers
<1>2. CASE n + 1 # FrameNumbers
  <2>1. (n + 1) % FrameNumbers = n + 1
    BY <1>2, ConstantsAssumption DEF Numbers
  <2>2. QED
    BY <2>1 DEF Numbers
<1>3. QED
  BY <1>1, <1>2

\* The parser collects attempts of one parity only.
LEMMA ParserParity ==
    ASSUME NEW h \in Hosts, NEW u \in Urbs,
           SameParity(h), u.fid = u.frame % 2
    PROVE  SameParity(Receive(h, u)) /\ SameParity(ReceivePart(h, u))
<1>1. SameParity(Parse(h, u))
  BY DEF SameParity, Parse, Joined, Hosts, Urbs
<1>2. Parse(h, u) \in Hosts
  BY DEF Parse, Joined, Hosts, Urbs
<1>3. QED
  BY <1>1, <1>2 DEF Receive, ReceivePart, SameParity, Hosts

\* Consecutive attempts are told apart by the host.
THEOREM AdjacentFramesNeverMerge == Spec => []AdjacentNeverMerge
<1> DEFINE IInv == TypeOK /\ IdIsParity /\ UrbCarriesParity /\ SameParity(host)
<1>1. Init => IInv
  BY TypeInit
  DEF Init, NoUrb, FreshHost, IdIsParity, UrbCarriesParity, SameParity
<1>2. IInv /\ [Next]_vars => IInv'
  <2> SUFFICES ASSUME IInv, [Next]_vars
               PROVE  (IdIsParity /\ UrbCarriesParity /\ SameParity(host))'
    BY TypeStep
  <2>0. urb \in Urbs /\ host \in Hosts /\ frameNumber \in Numbers /\ frameId \in Fids
    BY DEF TypeOK
  <2>n. NoUrb.fid = NoUrb.frame % 2
    BY DEF NoUrb
  <2>p. Payload.fid = Payload.frame % 2 /\ Zlp.fid = Zlp.frame % 2
    BY <2>0 DEF Payload, Zlp, IdIsParity, Fids, Numbers
  <2>f. SameParity(FreshHost)
    BY DEF SameParity, FreshHost
  <2> USE DEF IdIsParity, UrbCarriesParity
  <2>1. ASSUME NEW n \in FrameSizes, SendFrame(n)
        PROVE  (IdIsParity /\ UrbCarriesParity /\ SameParity(host))'
    BY <2>1 DEF SendFrame, frameVars, urbVars, SameParity
  <2>2. CASE PostPayload \/ PostZlp
    BY <2>2, <2>p DEF PostPayload, PostZlp, Post, frameVars, urbVars, SameParity
  <2>3. CASE PostPayloadFails \/ PostZlpFails
    BY <2>3 DEF PostPayloadFails, PostZlpFails, frameVars, SameParity
  <2>4. CASE PayloadCompleted \/ ZlpCompleted \/ ReapCancelled
    <3>1. urb' \in {NoUrb, urb}
      BY <2>4 DEF PayloadCompleted, ZlpCompleted, ReapCancelled
    <3>2. QED
      BY <3>1, <2>4, <2>n
      DEF PayloadCompleted, ZlpCompleted, ReapCancelled, frameVars, SameParity
  <2>5. CASE PayloadReportFails \/ ReapTimeout \/ Timeout
    BY <2>5 DEF PayloadReportFails, ReapTimeout, Timeout, frameVars, urbVars, SameParity
  <2>6. CASE Cancel
    BY <2>0, <2>6 DEF Cancel, frameVars, Urbs, SameParity
  <2>7. CASE Finish
    <3>1. frameId' = frameNumber' % 2
      BY <2>0, <2>7, NextParity DEF Finish, Numbers
    <3>2. QED
      BY <2>0, <2>7, <3>1 DEF Finish, Urbs, SameParity
  <2>8. CASE Unplug
    BY <2>0, <2>8, <2>f DEF Unplug, frameVars, Urbs
  <2>9. CASE Plug \/ PollDisconnected \/ Connect \/ Commit
    BY <2>9 DEF Plug, PollDisconnected, Connect, Commit, frameVars, urbVars, SameParity
  <2>10. CASE HostRead
    BY <2>0, <2>10, ParserParity DEF HostRead, frameVars, Urbs
  <2>11. CASE CompletesCancelled
    BY <2>0, <2>11, ParserParity
    DEF CompletesCancelled, CancelCompletes, CancelCompletesPartly, frameVars,
        Urbs, SameParity
  <2>12. CASE TransferError
    BY <2>0, <2>12 DEF TransferError, frameVars, Urbs, SameParity
  <2>13. CASE HostRestart
    BY <2>13, <2>f DEF HostRestart, frameVars, urbVars
  <2>14. CASE UNCHANGED vars
    BY <2>14 DEF vars, frameVars, urbVars, SameParity
  <2>15. QED
    BY <2>1, <2>2, <2>3, <2>4, <2>5, <2>6, <2>7, <2>8, <2>9, <2>10, <2>11,
       <2>12, <2>13, <2>14
    DEF Next, Thread
<1>3. IInv => AdjacentNeverMerge
  <2> SUFFICES ASSUME IInv, NEW f \in host.frames,
                      (f + 1) % FrameNumbers \in host.frames
               PROVE  FALSE
    BY DEF AdjacentNeverMerge
  <2>1. f \in Numbers
    BY DEF TypeOK, Hosts
  <2>2. ((f + 1) % FrameNumbers) % 2 = f % 2
    BY DEF SameParity
  <2>3. QED
    BY <2>1, <2>2, NextParity DEF Numbers
<1>4. QED
  BY <1>1, <1>2, <1>3, PTL DEF Spec

-----------------------------------------------------------------------------
(***************************************************************************)
(* UvcSendFrame implements FrameTransfer under every set of faults: what a *)
(* call has sent is a prefix of the frame that only grows, and a call that *)
(* returns TRUE has sent it all.                                           *)
(***************************************************************************)
(***************************************************************************)
(* The inductive invariant. Between two posts the host has exactly what    *)
(* srcData has moved past; while a payload is in flight it has the payload *)
(* too once the URB is complete; a URB of an earlier call that was never   *)
(* reaped (a late cancel) is no longer counted.                            *)
(***************************************************************************)
Cut == src + remaining = size

\* A URB of this call that may still be read stays inside the frame.
InFrame == OutstandingUrb /\ urb.live /\ urb.len > 0
              => urb.src + (urb.len - HeaderLen) <= size

Between == pc = "post" => ~success /\ received = src /\ ~(OutstandingUrb /\ urb.live)

InFlight == pc = "wait" =>
    /\ ~success
    /\ urb.state \in {"pending", "complete", "failed"}
    /\ event => urb.state # "pending"

PayloadInFlight == pc = "wait" /\ urb.len > 0 =>
    /\ urb.live /\ urb.src = src /\ urb.len = HeaderLen + ChunkSize(remaining)
    /\ urb.state = "pending"  => received = src
    /\ urb.state = "complete" => received = src + ChunkSize(remaining)

\* The payload a ZLP terminates is with the host.
ZlpPhase ==
    /\ pc = "zlp" => ~success /\ urb.state = "none"
    /\ pc = "zlp" \/ (pc = "wait" /\ urb.len = 0)
          => received = src + ChunkSize(remaining)

Aborting == pc \in {"cancel", "reap"} => ~success

Returned ==
    /\ success => received = size /\ ~(OutstandingUrb /\ urb.live)
    /\ pc = "idle" => ~urb.live

Progress == /\ Cut /\ InFrame /\ Between /\ InFlight
            /\ PayloadInFlight /\ ZlpPhase /\ Aborting /\ Returned

\* Moving past a delivered payload keeps the accounts straight.
LEMMA AdvanceStep ==
    ASSUME TypeOK, Cut, Advance, UNCHANGED received,
           received = src + ChunkSize(remaining)
    PROVE  /\ src' + remaining' = size'
           /\ received' = src'
           /\ pc' \in {"post", "finish"}
           /\ pc' = "post" => ~success'
           /\ success' => received' = size'
<1> DEFINE chunk == ChunkSize(remaining)
<1>1. /\ chunk \in 0 .. remaining
      /\ IsLastChunk(remaining) <=> chunk = remaining
  BY ChunkFits DEF TypeOK
<1>2. /\ src' = src + chunk /\ remaining' = remaining - chunk /\ size' = size
      /\ success' <=> IsLastChunk(remaining)
      /\ pc' = IF remaining' > 0 THEN "post" ELSE "finish"
  BY DEF Advance
<1>3. src + remaining = size /\ src \in Nat /\ remaining \in Nat /\ size \in Nat
  BY DEF Cut, TypeOK
<1> HIDE DEF chunk
<1>4. received' = src + chunk
  BY DEF chunk
<1>5. QED
  BY <1>1, <1>2, <1>3, <1>4

\* Initially nothing is in flight and nothing is promised.
LEMMA ProgressInit == Init => Progress
<1> SUFFICES ASSUME Init PROVE Progress
  OBVIOUS
<1>1. /\ pc = "idle" /\ ~success /\ src = 0 /\ remaining = 0 /\ size = 0
      /\ urb.state = "none" /\ ~urb.live
  BY DEF Init, NoUrb
<1>2. QED
  BY <1>1 DEF Progress, OutstandingUrb, Cut, InFrame, Between, InFlight,
              PayloadInFlight, ZlpPhase, Aborting, Returned

\* One step keeps the accounts straight, whatever fails.
LEMMA ProgressStep == TypeOK /\ Progress /\ [Next]_vars => Progress'
<1> SUFFICES ASSUME TypeOK, Progress, [Next]_vars PROVE Progress'
  OBVIOUS
<1>0. urb \in Urbs /\ src \in Nat /\ remaining \in Nat /\ size \in Nat
      /\ received \in Nat
  BY DEF TypeOK
<1>n. NoUrb.state = "none" /\ NoUrb.live = FALSE
  BY DEF NoUrb
<1> USE DEF Progress, OutstandingUrb, Cut, InFrame, Between, InFlight,
            PayloadInFlight, ZlpPhase, Aborting, Returned
<1>1. ASSUME NEW n \in FrameSizes, SendFrame(n) PROVE Progress'
  BY <1>1, ConstantsAssumption DEF SendFrame, urbVars
<1>2. CASE PostPayload
  <2>1. CASE urb.state = "none"
    <3>1. /\ Payload.state = "pending" /\ Payload.live /\ Payload.src = src
          /\ Payload.len = HeaderLen + ChunkSize(remaining)
      BY DEF Payload
    <3>2. /\ ChunkSize(remaining) \in 0 .. remaining
          /\ HeaderLen + ChunkSize(remaining) > 0
          /\ (HeaderLen + ChunkSize(remaining)) - HeaderLen = ChunkSize(remaining)
      BY <1>0, ChunkFits DEF HeaderLen
    <3>3. src + ChunkSize(remaining) <= size
      BY <1>0, <3>2
    <3>4. QED
      BY <1>2, <2>1, <3>1, <3>2, <3>3 DEF PostPayload, Post, callVars
  <2>2. CASE urb.state # "none"
    BY <1>2, <2>2 DEF PostPayload, Post, callVars, urbVars
  <2>3. QED
    BY <2>1, <2>2
<1>3. CASE PostPayloadFails
  BY <1>3 DEF PostPayloadFails, callVars
<1>4. CASE PostZlp
  <2>1. Zlp.state = "pending" /\ Zlp.len = 0
    BY DEF Zlp
  <2>2. QED
    BY <1>4, <2>1 DEF PostZlp, Post, callVars, urbVars
<1>5. CASE PostZlpFails
  BY <1>5, AdvanceStep DEF PostZlpFails
<1>6. CASE PayloadCompleted
  <2>1. CASE ~ParsedOk(urb)
    BY <1>6, <2>1, <1>n DEF PayloadCompleted, Completed, callVars
  <2>2. CASE ParsedOk(urb)
    <3>1. received = src + ChunkSize(remaining)
      BY <1>6, <2>2 DEF PayloadCompleted, Completed, ParsedOk
    <3>2. CASE NeedsZlp(urb.len)
      BY <1>6, <1>n, <2>2, <3>1, <3>2 DEF PayloadCompleted, Completed, callVars
    <3>3. CASE ~NeedsZlp(urb.len)
      BY <1>6, <1>n, <2>2, <3>1, <3>3, AdvanceStep DEF PayloadCompleted, Completed
    <3>4. QED
      BY <3>2, <3>3
  <2>3. QED
    BY <2>1, <2>2
<1>7. CASE PayloadReportFails
  BY <1>7 DEF PayloadReportFails, Completed, callVars
<1>8. CASE ZlpCompleted
  <2>1. urb' = NoUrb \/ urb' = urb
    BY <1>8 DEF ZlpCompleted
  <2>2. ~OutstandingUrb'
    BY <1>8, <1>n, <2>1 DEF ZlpCompleted, Completed
  <2>3. QED
    BY <1>8, <2>2, AdvanceStep DEF ZlpCompleted, Completed
<1>9. CASE Timeout
  BY <1>9 DEF Timeout, callVars, urbVars
<1>10. CASE Cancel
  BY <1>0, <1>10 DEF Cancel, callVars, Urbs
<1>11. CASE ReapCancelled
  <2>1. urb' = NoUrb \/ urb' = urb
    BY <1>11 DEF ReapCancelled
  <2>2. QED
    BY <1>11, <1>n, <2>1 DEF ReapCancelled, callVars
<1>12. CASE ReapTimeout
  BY <1>12 DEF ReapTimeout, callVars, urbVars
<1>13. CASE Finish
  BY <1>0, <1>13 DEF Finish, callVars, Urbs
<1>14. CASE Unplug
  BY <1>0, <1>14 DEF Unplug, callVars, Urbs
<1>15. CASE Plug \/ PollDisconnected \/ Connect \/ Commit
  BY <1>15 DEF Plug, PollDisconnected, Connect, Commit, callVars, urbVars
<1>16. CASE HostRead
  <2>1. urb' = [urb EXCEPT !.state = "complete"]
    BY <1>16 DEF HostRead
  <2>2. pc = "wait" /\ urb.len > 0 => received' = src + ChunkSize(remaining)
    BY <1>0, <1>16, ChunkFits DEF HostRead, Extend, HeaderLen
  <2>3. success \/ pc = "post" \/ urb.len = 0 => received' = received
    BY <1>16 DEF HostRead, Extend
  <2>4. QED
    BY <1>0, <1>16, <2>1, <2>2, <2>3 DEF HostRead, callVars, Urbs
<1>17. CASE CompletesCancelled
  <2>1. urb' = [urb EXCEPT !.state = "failed"] /\ urb.state = "cancelling"
    BY <1>17 DEF CompletesCancelled, CancelCompletes, CancelCompletesPartly
  <2>2. success \/ pc = "post" \/ urb.len = 0 => received' = received
    BY <1>17, ConstantsAssumption
    DEF CompletesCancelled, CancelCompletes, CancelCompletesPartly, Extend
  <2>3. QED
    BY <1>0, <1>17, <2>1, <2>2
    DEF CompletesCancelled, CancelCompletes, CancelCompletesPartly, callVars, Urbs
<1>18. CASE TransferError
  BY <1>0, <1>18 DEF TransferError, callVars, Urbs
<1>19. CASE HostRestart
  BY <1>19 DEF HostRestart, callVars, urbVars
<1>20. CASE UNCHANGED vars
  BY <1>20 DEF vars, callVars, urbVars
<1>21. QED
  BY <1>1, <1>2, <1>3, <1>4, <1>5, <1>6, <1>7, <1>8, <1>9, <1>10, <1>11,
     <1>12, <1>13, <1>14, <1>15, <1>16, <1>17, <1>18, <1>19, <1>20
  DEF Next, Thread

(***************************************************************************)
(* A call that returned TRUE has sent the whole frame.                     *)
(***************************************************************************)
THEOREM SuccessIsDelivery == Spec => []SuccessMeansDelivered
<1>1. Progress => SuccessMeansDelivered
  BY DEF Progress, Returned, SuccessMeansDelivered
<1>2. QED
  BY TypeInit, TypeStep, ProgressInit, ProgressStep, <1>1, PTL DEF Spec

(***************************************************************************)
(* The refinement: SendFrame is Call, the host's reads are Deliver, Finish *)
(* is Return, and everything else, every fault included, is invisible to   *)
(* the caller.                                                             *)
(***************************************************************************)
LEMMA TransferStep ==
    TypeOK /\ Progress /\ [Next]_vars => [Transfer!Next]_Transfer!vars
<1> SUFFICES ASSUME TypeOK, Progress, [Next]_vars
             PROVE  [Transfer!Next]_Transfer!vars
  OBVIOUS
<1>0. urb \in Urbs /\ src \in Nat /\ size \in Nat /\ received \in Nat
  BY DEF TypeOK
<1> USE DEF Transfer!vars
<1>1. ASSUME NEW n \in FrameSizes, SendFrame(n) PROVE Transfer!Call
  BY <1>1, ConstantsAssumption DEF SendFrame, Transfer!Call
<1>2. CASE Finish
  <2>1. success => received = size
    BY DEF Progress, Returned
  <2>2. success \in BOOLEAN
    BY DEF TypeOK
  <2>3. Transfer!Return
    BY <1>2, <2>1, <2>2 DEF Finish, callVars, Transfer!Return
  <2>4. QED
    BY <2>3 DEF Transfer!Next
<1>3. ASSUME received' # received, HostRead \/ CompletesCancelled
      PROVE  Transfer!Deliver
  <2>1. OutstandingUrb /\ urb.live /\ urb.src = received /\ urb.len > 0
    BY <1>0, <1>3, ConstantsAssumption
    DEF HostRead, CompletesCancelled, CancelCompletes, CancelCompletesPartly,
        Extend, OutstandingUrb, Urbs, HeaderLen
  <2>2. received + (urb.len - HeaderLen) <= size
    BY <2>1 DEF Progress, InFrame
  <2>3. received' \in received + 1 .. size
    BY <1>0, <1>3, <2>1, <2>2, ConstantsAssumption
    DEF HostRead, CompletesCancelled, CancelCompletes, CancelCompletesPartly,
        Extend, HeaderLen, Urbs
  <2>4. pc # "idle"
    BY <2>1 DEF Progress, Returned
  <2>5. QED
    BY <1>3, <2>3, <2>4
    DEF HostRead, CompletesCancelled, CancelCompletes, CancelCompletesPartly,
        callVars, Transfer!Deliver
<1>4. CASE UNCHANGED received /\ (HostRead \/ CompletesCancelled)
  BY <1>4
  DEF HostRead, CompletesCancelled, CancelCompletes, CancelCompletesPartly, callVars
<1>5. ASSUME pc # "idle", pc' # "idle", UNCHANGED <<size, received>>
      PROVE  UNCHANGED Transfer!vars
  BY <1>5
<1>6. CASE PostPayload \/ PostPayloadFails \/ PostZlp \/ PostZlpFails
  BY <1>5, <1>6
  DEF PostPayload, PostPayloadFails, PostZlp, PostZlpFails, Post, Advance, callVars
<1>7. CASE PayloadCompleted \/ PayloadReportFails \/ ZlpCompleted
  BY <1>5, <1>7
  DEF PayloadCompleted, PayloadReportFails, ZlpCompleted, Completed, Advance, callVars
<1>8. CASE Timeout \/ Cancel \/ ReapCancelled \/ ReapTimeout
  BY <1>5, <1>8 DEF Timeout, Cancel, ReapCancelled, ReapTimeout, callVars
<1>9. CASE \/ Unplug \/ Plug \/ PollDisconnected \/ Connect \/ Commit
           \/ TransferError \/ HostRestart
  BY <1>9
  DEF Unplug, Plug, PollDisconnected, Connect, Commit, TransferError, HostRestart,
      callVars
<1>10. CASE UNCHANGED vars
  BY <1>10 DEF vars, callVars
<1>11. QED
  BY <1>1, <1>2, <1>3, <1>4, <1>6, <1>7, <1>8, <1>9, <1>10
  DEF Next, Thread, Transfer!Next

\* UvcDeviceSendFrame keeps its promise for every frame size and fault.
THEOREM TransferRefined == Spec => ImplementsTransfer
<1>1. Init => Transfer!Init
  BY DEF Init, Transfer!Init
<1>2. QED
  BY <1>1, TypeInit, TypeStep, ProgressInit, ProgressStep, TransferStep, PTL
  DEF Spec, ImplementsTransfer, Transfer!Spec

=============================================================================
