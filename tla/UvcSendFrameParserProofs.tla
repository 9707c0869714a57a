---------------------- MODULE UvcSendFrameParserProofs ----------------------
(***************************************************************************)
(* What the host's parser makes of UvcSendFrame: a frame that was sent     *)
(* closes the host's open frame, and every payload boundary is visible to  *)
(* it. Both need the accounts of UvcSendFrameProofs (Progress) and         *)
(* three more conjuncts, about the slot, the boundaries and the EOF.       *)
(***************************************************************************)
EXTENDS UvcSendFrameProofs

(***************************************************************************)
(* The endpoint's slot and the parser, whatever fails.                     *)
(***************************************************************************)
\* A host that is gone reads nothing, and the next one starts afresh.
NoHost == ~configured => host = FreshHost /\ ~OutstandingUrb

\* Only the last payload of a frame may end in a full packet: an inner one has
\* 16374 bytes.
FullMeansLast == urb.len > 0 /\ ~EndsShort(urb.len) => urb.eof

\* A URB of an earlier call that may still be read never meets a payload after
\* the first, nor a success: usb:ds asserts first.
LeftOver ==
    OutstandingUrb /\ ~urb.live =>
        /\ pc \in {"idle", "post", "finish"}
        /\ pc = "post" => src = 0
        /\ pc = "finish" => ~success

Slot == NoHost /\ FullMeansLast /\ LeftOver

\* The wait for a ZLP, which only a last payload needs.
InZlp == pc = "zlp" \/ (pc = "wait" /\ urb.len = 0)
InPayload == pc = "wait" /\ urb.len > 0

\* Every payload after the first finds the parser at a boundary.
Boundary ==
    /\ pc = "post" /\ src > 0 => ~host.tail
    /\ InPayload /\ urb.state = "pending" /\ src > 0 => ~host.tail
    /\ InPayload /\ urb.state = "complete" /\ host.tail => ~EndsShort(urb.len)
    /\ InPayload => (urb.eof <=> IsLastChunk(remaining))
    /\ InZlp => IsLastChunk(remaining)

\* Where the last payload is sure to be parsed: it is not the first one, or no
\* payload is ever cut off. In the second case a parser that is inside a payload
\* has seen the last one of a frame.
Parsed == src > 0 \/ "partial" \notin Faults

Closing ==
    /\ "partial" \notin Faults /\ host.tail => ~host.open
    /\ InPayload /\ urb.state = "complete" /\ IsLastChunk(remaining) /\ Parsed
          => ~host.open
    /\ InZlp /\ Parsed => ~host.open
    /\ SuccessEndsFrame

\* What the ZLP adds when calls on the bus do not fail.
Terminated ==
    /\ pc = "wait" /\ urb.len = 0 /\ urb.state \in {"complete", "failed"} => ~host.tail
    /\ pc = "finish" /\ success => ~host.tail

(***************************************************************************)
(* Lemmas about the operators of the model.                                *)
(***************************************************************************)
\* The ZLP test of the code, which assumes 512-byte packets, covers both bus
\* speeds, and an inner payload is never its business.
LEMMA FullNeedsZlp ==
    /\ \A n \in Nat : ~EndsShort(n) => NeedsZlp(n)
    /\ \A n \in Nat : ~IsLastChunk(n) =>
          /\ EndsShort(HeaderLen + ChunkSize(n))
          /\ ~NeedsZlp(HeaderLen + ChunkSize(n))
<1>1. \A n \in Nat : ~EndsShort(n) => NeedsZlp(n)
  BY ConstantsAssumption DEF EndsShort, NeedsZlp, ZlpModulus
<1>2. ASSUME NEW n \in Nat, ~IsLastChunk(n)
      PROVE  HeaderLen + ChunkSize(n) = 16374
  BY <1>2 DEF IsLastChunk, ChunkSize, MaxPayload, MaxTransferSize, HeaderLen
<1>3. EndsShort(16374) /\ ~NeedsZlp(16374)
  BY ConstantsAssumption DEF EndsShort, NeedsZlp, ZlpModulus
<1>4. QED
  BY <1>1, <1>2, <1>3

\* What the parser makes of a whole URB and of a part of one.
LEMMA ParserFields ==
    ASSUME NEW h \in Hosts, NEW u \in Urbs
    PROVE  /\ Receive(h, u).tail = (~EndsShort(u.len) /\ u.len # 0)
           /\ Receive(h, u).open =
                 (IF h.tail \/ u.len = 0 THEN h.open ELSE ~u.eof)
           /\ ReceivePart(h, u).tail
           /\ FreshHost.tail = FALSE /\ FreshHost.open = FALSE
<1>1. Parse(h, u) \in Hosts /\ Parse(h, u).open = ~u.eof
  BY DEF Parse, Joined, Hosts, Urbs
<1>2. QED
  BY <1>1 DEF Receive, ReceivePart, FreshHost, EndsShort, Hosts, Urbs

\* The posted payload.
LEMMA PayloadFields ==
    ASSUME TypeOK
    PROVE  /\ Payload.state = "pending" /\ Payload.live
           /\ Payload.len = HeaderLen + ChunkSize(remaining) /\ Payload.len > 0
           /\ Payload.eof = IsLastChunk(remaining)
           /\ ~EndsShort(Payload.len) => Payload.eof
           /\ Zlp.state = "pending" /\ Zlp.live /\ Zlp.len = 0
           /\ NoUrb.state = "none" /\ NoUrb.len = 0
<1>1. /\ Payload.state = "pending" /\ Payload.live
      /\ Payload.len = HeaderLen + ChunkSize(remaining)
      /\ Payload.eof = IsLastChunk(remaining)
      /\ Zlp.state = "pending" /\ Zlp.live /\ Zlp.len = 0
      /\ NoUrb.state = "none" /\ NoUrb.len = 0
  BY DEF Payload, Zlp, NoUrb, HeaderEof
<1>2. remaining \in Nat /\ HeaderLen + ChunkSize(remaining) > 0
  BY ChunkFits DEF TypeOK, HeaderLen
<1>3. QED
  BY <1>1, <1>2, FullNeedsZlp

(***************************************************************************)
(* The invariants, one lemma each.                                         *)
(***************************************************************************)
\* Initially the slot is empty and the parser has seen nothing.
LEMMA SlotInit == Init => Slot /\ Boundary /\ Closing /\ Terminated
<1> SUFFICES ASSUME Init PROVE Slot /\ Boundary /\ Closing /\ Terminated
  OBVIOUS
<1>1. /\ pc = "idle" /\ urb.state = "none" /\ urb.len = 0 /\ host = FreshHost
      /\ host.tail = FALSE
  BY DEF Init, NoUrb, FreshHost
<1>2. QED
  BY <1>1
  DEF Slot, NoHost, FullMeansLast, LeftOver, OutstandingUrb, Boundary, Closing,
      Terminated, InPayload, InZlp, SuccessEndsFrame

\* One step keeps the slot's accounts: what may still be read belongs to the
\* call in progress, or to one that usb:ds lets post nothing more.
LEMMA SlotStep == TypeOK /\ Progress /\ Slot /\ [Next]_vars => Slot'
<1> SUFFICES ASSUME TypeOK, Progress, Slot, [Next]_vars PROVE Slot'
  OBVIOUS
<1>0. urb \in Urbs /\ src \in Nat /\ remaining \in Nat /\ size \in Nat
      /\ configured \in BOOLEAN /\ host \in Hosts
  BY DEF TypeOK
<1>n. NoUrb.state = "none" /\ NoUrb.len = 0
  BY DEF NoUrb
<1>i. pc = "post" => ~success
  BY DEF Progress, Between
<1>j. pc = "wait" => ~success /\ (event => urb.state # "pending")
                     /\ urb.state \in {"pending", "complete", "failed"}
  BY DEF Progress, InFlight
<1>k. pc \in {"cancel", "reap"} => ~success
  BY DEF Progress, Aborting
<1>z. pc = "zlp" => urb.state = "none"
  BY DEF Progress, ZlpPhase
<1> USE DEF Slot, NoHost, FullMeansLast, LeftOver, OutstandingUrb
<1>1. ASSUME NEW n \in FrameSizes, SendFrame(n) PROVE Slot'
  BY <1>1 DEF SendFrame, linkVars, urbVars, EndsShort
<1>2. CASE PostPayload \/ PostZlp
  <2>1. CASE urb.state = "none"
    <3>1. /\ urb' \in {Payload, Zlp} /\ configured' /\ pc' = "wait"
      BY <1>2, <2>1 DEF PostPayload, PostZlp, Post, linkVars
    <3>2. QED
      BY <3>1, PayloadFields DEF EndsShort
  <2>2. CASE urb.state # "none"
    BY <1>2, <2>2 DEF PostPayload, PostZlp, Post, linkVars, callVars, urbVars, EndsShort
  <2>3. QED
    BY <2>1, <2>2
<1>3. CASE PostPayloadFails
  BY <1>3, <1>i DEF PostPayloadFails, linkVars, callVars, EndsShort
<1>4. CASE PostZlpFails
  BY <1>4, <1>z DEF PostZlpFails, linkVars, EndsShort
<1>5. CASE PayloadCompleted \/ ZlpCompleted \/ PayloadReportFails
  <2>1. urb' \in {NoUrb, urb} /\ ~OutstandingUrb'
    BY <1>5, <1>n, <1>j
    DEF PayloadCompleted, ZlpCompleted, PayloadReportFails, Completed
  <2>2. UNCHANGED <<configured, host>>
    BY <1>5 DEF PayloadCompleted, ZlpCompleted, PayloadReportFails, linkVars
  <2>3. QED
    BY <2>1, <2>2, <1>n DEF EndsShort
<1>6. CASE Timeout \/ ReapTimeout
  BY <1>6, <1>k DEF Timeout, ReapTimeout, linkVars, callVars, urbVars, EndsShort
<1>7. CASE Cancel
  BY <1>0, <1>7 DEF Cancel, linkVars, callVars, EndsShort, Urbs
<1>8. CASE ReapCancelled
  <2>1. urb' \in {NoUrb, urb}
    BY <1>8 DEF ReapCancelled
  <2>2. QED
    BY <2>1, <1>8, <1>n, <1>k DEF ReapCancelled, linkVars, callVars, EndsShort
<1>9. CASE Finish
  BY <1>0, <1>9 DEF Finish, linkVars, callVars, EndsShort, Urbs
<1>10. CASE Plug \/ PollDisconnected \/ Connect \/ Commit
  BY <1>10
  DEF Plug, PollDisconnected, Connect, Commit, callVars, urbVars, EndsShort
<1>11. CASE Unplug
  BY <1>0, <1>11 DEF Unplug, callVars, EndsShort, Urbs
<1>12. CASE HostRead
  BY <1>0, <1>12 DEF HostRead, linkVars, callVars, EndsShort, Urbs
<1>13. CASE CompletesCancelled
  BY <1>0, <1>13
  DEF CompletesCancelled, CancelCompletes, CancelCompletesPartly, linkVars,
      callVars, EndsShort, Urbs
<1>14. CASE TransferError
  BY <1>0, <1>14 DEF TransferError, linkVars, callVars, EndsShort, Urbs
<1>15. CASE HostRestart \/ UNCHANGED vars
  BY <1>15 DEF HostRestart, vars, linkVars, callVars, urbVars, EndsShort
<1>16. QED
  BY <1>1, <1>2, <1>3, <1>4, <1>5, <1>6, <1>7, <1>8, <1>9, <1>10, <1>11,
     <1>12, <1>13, <1>14, <1>15
  DEF Next, Thread

\* What a step that moves past a delivered payload finds and leaves.
LEMMA AdvanceCloses ==
    ASSUME TypeOK, Progress, Advance
    PROVE  /\ pc' \in {"post", "finish"} /\ size' = size
           /\ success' => IsLastChunk(remaining)
           /\ IsLastChunk(remaining) => pc' = "finish"
           /\ IsLastChunk(remaining) /\ size > MaxPayload => src > 0
<1>1. src + remaining = size /\ src \in Nat /\ remaining \in Nat /\ size \in Nat
  BY DEF Progress, Cut, TypeOK
<1>2. IsLastChunk(remaining) => ChunkSize(remaining) = remaining
  BY <1>1, ChunkFits
<1>3. pc' \in {"post", "finish"} /\ size' = size
      /\ success' = IsLastChunk(remaining)
  BY DEF Advance
<1>4. ASSUME IsLastChunk(remaining) PROVE pc' = "finish"
  <2>1. remaining' = 0
    BY <1>1, <1>2, <1>4 DEF Advance
  <2>2. QED
    BY <2>1 DEF Advance
<1>5. IsLastChunk(remaining) /\ size > MaxPayload => src > 0
  BY <1>1 DEF IsLastChunk, MaxPayload, MaxTransferSize
<1>6. QED
  BY <1>3, <1>4, <1>5

\* One step keeps every payload after the first at a boundary of the parser.
LEMMA BoundaryStep ==
    TypeOK /\ Progress /\ Slot /\ Boundary /\ [Next]_vars => Boundary'
<1> SUFFICES ASSUME TypeOK, Progress, Slot, Boundary, [Next]_vars PROVE Boundary'
  OBVIOUS
<1>0. urb \in Urbs /\ src \in Nat /\ remaining \in Nat /\ host \in Hosts
  BY DEF TypeOK
<1>f. /\ FreshHost.tail = FALSE
      /\ Receive(host, urb).tail = (~EndsShort(urb.len) /\ urb.len # 0)
  BY <1>0, ParserFields
<1>a. Advance /\ IsLastChunk(remaining) => pc' = "finish"
  BY AdvanceCloses
<1>l. OutstandingUrb /\ ~urb.live => pc # "wait" /\ (pc = "post" => src = 0)
  BY DEF Slot, LeftOver
<1>b. pc = "post" => ~(OutstandingUrb /\ urb.live)
  BY DEF Progress, Between
<1>w. pc = "wait" => urb.state \in {"pending", "complete", "failed"}
                     /\ (event => urb.state # "pending")
  BY DEF Progress, InFlight
<1>p. /\ InPayload => urb.len = HeaderLen + ChunkSize(remaining)
      /\ InPayload /\ urb.state = "complete" => received = src + ChunkSize(remaining)
  BY DEF InPayload, Progress, PayloadInFlight
<1> USE DEF Boundary, InPayload, InZlp
<1>1. ASSUME NEW n \in FrameSizes, SendFrame(n) PROVE Boundary'
  BY <1>1 DEF SendFrame
<1>2. CASE PostPayload
  <2>1. CASE urb.state = "none"
    <3>1. /\ urb' = Payload /\ pc' = "wait" /\ UNCHANGED <<callVars, host>>
      BY <1>2, <2>1 DEF PostPayload, Post
    <3>2. QED
      BY <1>2, <3>1, PayloadFields DEF PostPayload, callVars
  <2>2. CASE urb.state # "none"
    <3>1. pc = "post" /\ UNCHANGED <<pc, urb, src, host>>
      BY <1>2, <2>2 DEF PostPayload, Post, callVars, urbVars
    <3>2. QED
      BY <3>1
  <2>3. QED
    BY <2>1, <2>2
<1>3. CASE PostZlp
  <2>1. pc = "zlp" /\ UNCHANGED <<remaining, host>>
    BY <1>3 DEF PostZlp, callVars
  <2>2. (urb' = Zlp /\ pc' = "wait") \/ UNCHANGED <<urb, pc>>
    BY <1>3 DEF PostZlp, Post, urbVars
  <2>3. (urb'.len = 0 /\ pc' = "wait") \/ pc' = "zlp"
    BY <2>1, <2>2, PayloadFields
  <2>4. QED
    BY <2>1, <2>3
<1>4. CASE PostPayloadFails \/ PayloadReportFails
  BY <1>4 DEF PostPayloadFails, PayloadReportFails
<1>5. CASE PostZlpFails \/ ZlpCompleted
  <2>1. Advance /\ IsLastChunk(remaining)
    BY <1>5 DEF PostZlpFails, ZlpCompleted, Completed
  <2>2. QED
    BY <2>1, <1>a
<1>6. CASE PayloadCompleted
  <2>1. CASE ~ParsedOk(urb)
    BY <1>6, <2>1 DEF PayloadCompleted
  <2>2. CASE ParsedOk(urb) /\ NeedsZlp(urb.len)
    <3>1. IsLastChunk(remaining)
      BY <1>0, <1>6, <1>p, <2>2, FullNeedsZlp DEF PayloadCompleted, Completed
    <3>2. QED
      BY <1>6, <2>2, <3>1 DEF PayloadCompleted, callVars
  <2>3. CASE ParsedOk(urb) /\ ~NeedsZlp(urb.len)
    <3>1. ~host.tail
      BY <1>0, <1>6, <2>3, FullNeedsZlp
      DEF PayloadCompleted, Completed, ParsedOk, Urbs, HeaderLen
    <3>2. Advance /\ UNCHANGED host
      BY <1>6, <2>3 DEF PayloadCompleted
    <3>3. pc' \in {"post", "finish"}
      BY <3>2 DEF Advance
    <3>4. QED
      BY <3>1, <3>2, <3>3
  <2>4. QED
    BY <2>1, <2>2, <2>3
<1>7. CASE Timeout \/ Cancel \/ ReapCancelled \/ ReapTimeout \/ Finish
  BY <1>7 DEF Timeout, Cancel, ReapCancelled, ReapTimeout, Finish
<1>8. CASE Plug \/ PollDisconnected \/ Connect \/ Commit
  BY <1>8 DEF Plug, PollDisconnected, Connect, Commit, callVars, urbVars, EndsShort
<1>9. CASE Unplug
  BY <1>0, <1>9, <1>f DEF Unplug, callVars, EndsShort, Urbs
<1>10. CASE HostRead
  <2>1. /\ urb' = [urb EXCEPT !.state = "complete"]
        /\ UNCHANGED <<pc, src, remaining>>
        /\ host'.tail = (~EndsShort(urb.len) /\ urb.len # 0)
    BY <1>10, <1>f DEF HostRead, callVars
  <2>2. urb'.len = urb.len /\ urb'.eof = urb.eof /\ urb'.state = "complete"
    BY <1>0, <2>1 DEF Urbs
  <2>3. ~(pc = "post" /\ src > 0)
    BY <1>0, <1>10, <1>l, <1>b DEF HostRead
  <2>4. EndsShort(urb'.len) <=> EndsShort(urb.len)
    BY <2>2
  <2>5. QED
    BY <2>1, <2>2, <2>3, <2>4 DEF EndsShort
<1>11. CASE CompletesCancelled
  BY <1>0, <1>11, <1>l, <1>b, <1>w
  DEF CompletesCancelled, CancelCompletes, CancelCompletesPartly, OutstandingUrb,
      callVars, EndsShort, Urbs
<1>12. CASE TransferError
  BY <1>0, <1>12 DEF TransferError, callVars, EndsShort, Urbs
<1>13. CASE HostRestart
  BY <1>13, <1>f DEF HostRestart, callVars, urbVars
<1>14. CASE UNCHANGED vars
  BY <1>14 DEF vars, callVars, urbVars, EndsShort
<1>15. QED
  BY <1>1, <1>2, <1>3, <1>4, <1>5, <1>6, <1>7, <1>8, <1>9, <1>10, <1>11,
     <1>12, <1>13, <1>14
  DEF Next, Thread

\* One step keeps the host's frame closed behind the last payload of a frame.
LEMMA ClosingStep ==
    TypeOK /\ Progress /\ Slot /\ Boundary /\ Closing /\ [Next]_vars => Closing'
<1> SUFFICES ASSUME TypeOK, Progress, Slot, Boundary, Closing, [Next]_vars
             PROVE  Closing'
  OBVIOUS
<1>0. urb \in Urbs /\ src \in Nat /\ remaining \in Nat /\ host \in Hosts
  BY DEF TypeOK
<1>f. FreshHost.tail = FALSE /\ FreshHost.open = FALSE
  BY <1>0, ParserFields
<1>r. /\ Receive(host, urb).tail = (~EndsShort(urb.len) /\ urb.len # 0)
      /\ Receive(host, urb).open =
            (IF host.tail \/ urb.len = 0 THEN host.open ELSE ~urb.eof)
  BY <1>0, ParserFields
<1>l. OutstandingUrb /\ ~urb.live => pc # "wait"
  BY DEF Slot, LeftOver
<1>w. pc = "wait" => urb.state \in {"pending", "complete", "failed"}
                     /\ (event => urb.state # "pending")
  BY DEF Progress, InFlight
<1>s. pc \in {"post", "zlp", "wait", "cancel", "reap"} => ~success
  BY DEF Progress, Between, InFlight, ZlpPhase, Aborting
\* The two places from which a call succeeds.
<1>a. ASSUME Advance, UNCHANGED host,
             IsLastChunk(remaining) /\ Parsed => ~host.open
      PROVE  Closing'
  <2>1. /\ pc' \in {"post", "finish"} /\ size' = size
        /\ success' => IsLastChunk(remaining)
        /\ IsLastChunk(remaining) /\ size > MaxPayload => src > 0
    BY <1>a, AdvanceCloses
  <2>2. SuccessEndsFrame'
    BY <1>a, <2>1 DEF SuccessEndsFrame, Parsed
  <2>3. QED
    BY <1>a, <2>1, <2>2 DEF Closing, InPayload, InZlp
<1> USE DEF Closing, InPayload, InZlp, SuccessEndsFrame, Parsed
<1>1. ASSUME NEW n \in FrameSizes, SendFrame(n) PROVE Closing'
  BY <1>1 DEF SendFrame
<1>2. CASE PostPayload \/ PostZlp
  <2>1. UNCHANGED <<remaining, src, host>>
    BY <1>2 DEF PostPayload, PostZlp, callVars
  <2>2. CASE pc' = pc
    <3>1. pc' \in {"post", "zlp"}
      BY <1>2, <2>2 DEF PostPayload, PostZlp
    <3>2. QED
      BY <1>2, <2>1, <2>2, <3>1
  <2>3. CASE pc' # pc
    <3>1. pc' = "wait" /\ \/ urb' = Payload
                          \/ urb' = Zlp /\ pc = "zlp"
      BY <1>2, <2>3 DEF PostPayload, PostZlp, Post
    <3>2. QED
      BY <1>2, <2>1, <3>1, PayloadFields
  <2>4. QED
    BY <2>2, <2>3
<1>3. CASE PostPayloadFails
  BY <1>3, <1>s DEF PostPayloadFails, callVars
<1>4. CASE PostZlpFails
  <2>1. InZlp /\ Advance /\ UNCHANGED host
    BY <1>4 DEF PostZlpFails
  <2>2. QED
    BY <2>1, <1>a
<1>5. CASE ZlpCompleted
  <2>1. InZlp /\ Advance /\ UNCHANGED host
    BY <1>5 DEF ZlpCompleted, Completed
  <2>2. QED
    BY <2>1, <1>a
<1>6. CASE PayloadReportFails
  BY <1>6, <1>s DEF PayloadReportFails, Completed, callVars
<1>7. CASE PayloadCompleted
  <2>1. CASE ~ParsedOk(urb)
    BY <1>7, <1>s, <2>1 DEF PayloadCompleted, Completed, callVars
  <2>2. CASE ParsedOk(urb) /\ NeedsZlp(urb.len)
    <3>1. IsLastChunk(remaining) /\ Parsed => ~host.open
      BY <1>7, <2>2 DEF PayloadCompleted, Completed, ParsedOk
    <3>2. IsLastChunk(remaining) /\ UNCHANGED <<host, remaining, src>> /\ pc' = "zlp"
      BY <1>0, <1>7, <2>2, FullNeedsZlp
      DEF PayloadCompleted, Completed, callVars, Progress, PayloadInFlight
    <3>3. QED
      BY <3>1, <3>2
  <2>3. CASE ParsedOk(urb) /\ ~NeedsZlp(urb.len)
    <3>1. IsLastChunk(remaining) /\ Parsed => ~host.open
      BY <1>7, <2>3 DEF PayloadCompleted, Completed, ParsedOk
    <3>2. Advance /\ UNCHANGED host
      BY <1>7, <2>3 DEF PayloadCompleted
    <3>3. QED
      BY <1>a, <3>1, <3>2
  <2>4. QED
    BY <2>1, <2>2, <2>3
<1>8. CASE Timeout \/ Cancel \/ ReapTimeout
  BY <1>8, <1>s DEF Timeout, Cancel, ReapTimeout, callVars
<1>9. CASE ReapCancelled \/ Finish
  BY <1>9, <1>s DEF ReapCancelled, Finish, callVars
<1>10. CASE Plug \/ PollDisconnected \/ Connect \/ Commit
  BY <1>10 DEF Plug, PollDisconnected, Connect, Commit, callVars, urbVars
<1>11. CASE Unplug
  BY <1>11, <1>f DEF Unplug
<1>12. CASE HostRead
  <2>1. /\ urb' = [urb EXCEPT !.state = "complete"]
        /\ UNCHANGED <<pc, src, remaining, size, success>>
        /\ host'.tail = (~EndsShort(urb.len) /\ urb.len # 0)
        /\ host'.open = (IF host.tail \/ urb.len = 0 THEN host.open ELSE ~urb.eof)
    BY <1>12, <1>r DEF HostRead, callVars
  <2>2. urb'.len = urb.len
    BY <1>0, <2>1 DEF Urbs
  <2>3. urb.len > 0 /\ ~EndsShort(urb.len) => urb.eof
    BY DEF Slot, FullMeansLast
  <2>4. pc = "wait" => urb.state = "pending" /\ urb.live
    BY <1>12, <1>l, <1>w DEF HostRead, OutstandingUrb
  <2>5. InPayload /\ src > 0 => ~host.tail
    BY <2>4 DEF Boundary
  <2>6. InPayload => (urb.eof <=> IsLastChunk(remaining))
    BY DEF Boundary
  <2>7. ~(pc = "finish" /\ success)
    BY <1>12 DEF HostRead, Slot, LeftOver, Progress, Returned
  <2>8. pc = "zlp" => FALSE
    BY <1>12 DEF HostRead, OutstandingUrb, Progress, ZlpPhase
  <2>9. urb.len \in Nat
    BY <1>0 DEF Urbs, HeaderLen
  <2>10. ("partial" \notin Faults /\ host.tail => ~host.open)'
    <3>1. ASSUME host'.tail PROVE urb.len > 0 /\ urb.eof
      <4>1. ~EndsShort(urb.len) /\ urb.len # 0
        BY <2>1, <3>1
      <4>2. QED
        BY <2>3, <2>9, <4>1
    <3>2. host'.open => (host.tail /\ host.open) \/ urb.len = 0 \/ ~urb.eof
      BY <2>1
    <3>3. QED
      BY <3>1, <3>2, <2>9
  <2>11. (InPayload /\ urb.state = "complete" /\ IsLastChunk(remaining) /\ Parsed
             => ~host.open)'
    <3> SUFFICES ASSUME pc = "wait", urb.len > 0, IsLastChunk(remaining), Parsed
                 PROVE  ~host'.open
      BY <2>1, <2>2
    <3>1. urb.eof /\ (host.tail => ~host.open)
      BY <2>5, <2>6
    <3>2. QED
      BY <2>1, <2>9, <3>1
  <2>12. (InZlp /\ Parsed => ~host.open)'
    BY <2>1, <2>2, <2>8
  <2>13. SuccessEndsFrame'
    BY <2>1, <2>7
  <2>14. QED
    BY <2>10, <2>11, <2>12, <2>13 DEF Closing
<1>13. CASE CancelCompletes
  BY <1>0, <1>13, <1>w DEF CancelCompletes, callVars, Urbs
<1>14. CASE CancelCompletesPartly
  <2>1. pc # "wait" /\ pc # "zlp"
    BY <1>14, <1>w DEF CancelCompletesPartly, Progress, ZlpPhase
  <2>2. ~(pc = "finish" /\ success)
    BY <1>14
    DEF CancelCompletesPartly, OutstandingUrb, Slot, LeftOver, Progress, Returned
  <2>3. QED
    BY <1>14, <2>1, <2>2 DEF CancelCompletesPartly, callVars
<1>15. CASE TransferError
  BY <1>0, <1>15 DEF TransferError, callVars, Urbs
<1>16. CASE HostRestart
  BY <1>16, <1>f DEF HostRestart
<1>17. CASE UNCHANGED vars
  BY <1>17 DEF vars, callVars, urbVars
<1>18. QED
  BY <1>1, <1>2, <1>3, <1>4, <1>5, <1>6, <1>7, <1>8, <1>9, <1>10, <1>11,
     <1>12, <1>13, <1>14, <1>15, <1>16, <1>17
  DEF Next, Thread, CompletesCancelled

(***************************************************************************)
(* A frame that was sent closes the host's frame, whatever fails: what an  *)
(* aborted attempt left open never outlives the next frame sent. A payload *)
(* cut off on a packet boundary swallows the next header, so then the      *)
(* frame must have a second payload.                                       *)
(***************************************************************************)
THEOREM SentFrameCloses == Spec => []SuccessEndsFrame
<1> DEFINE IInv == TypeOK /\ Progress /\ Slot /\ Boundary /\ Closing
<1>1. Init => IInv
  BY TypeInit, ProgressInit, SlotInit
<1>2. IInv /\ [Next]_vars => IInv'
  BY TypeStep, ProgressStep, SlotStep, BoundaryStep, ClosingStep
<1>3. IInv => SuccessEndsFrame
  BY DEF Closing
<1>4. QED
  BY <1>1, <1>2, <1>3, PTL DEF Spec

\* One step keeps a delivered payload terminated when posts and transfers do
\* not fail while the host is there: a ZLP can then be missing only because the
\* host has gone, and its parser with it.
LEMMA TerminatedStep ==
    ASSUME Faults \intersect {"post", "status"} = {},
           TypeOK, Progress, Slot, Boundary, Terminated, [Next]_vars
    PROVE  Terminated'
<1>0. /\ urb \in Urbs /\ src \in Nat /\ remaining \in Nat /\ host \in Hosts
      /\ "post" \notin Faults /\ "status" \notin Faults
  BY DEF TypeOK
<1>f. FreshHost.tail = FALSE
  BY <1>0, ParserFields
<1>r. Receive(host, urb).tail = (~EndsShort(urb.len) /\ urb.len # 0)
  BY <1>0, ParserFields
<1>w. pc = "wait" => urb.state \in {"pending", "complete", "failed"}
                     /\ (event => urb.state # "pending")
  BY DEF Progress, InFlight
<1>s. pc \in {"post", "zlp", "wait", "cancel", "reap"} => ~success
  BY DEF Progress, Between, InFlight, ZlpPhase, Aborting
\* The two places from which a call succeeds.
<1>a. ASSUME Advance, UNCHANGED host, ~host.tail PROVE Terminated'
  BY <1>a, AdvanceCloses DEF Terminated
<1> USE DEF Terminated
<1>1. ASSUME NEW n \in FrameSizes, SendFrame(n) PROVE Terminated'
  BY <1>1 DEF SendFrame
<1>2. CASE PostPayload \/ PostZlp
  <2>1. CASE pc' = pc
    BY <1>2, <2>1 DEF PostPayload, PostZlp
  <2>2. CASE pc' # pc
    <3>1. pc' = "wait" /\ urb' \in {Payload, Zlp}
      BY <1>2, <2>2 DEF PostPayload, PostZlp, Post
    <3>2. urb'.state = "pending"
      BY <3>1, PayloadFields
    <3>3. QED
      BY <3>1, <3>2
  <2>3. QED
    BY <2>1, <2>2
<1>3. CASE PostPayloadFails
  BY <1>3, <1>s DEF PostPayloadFails, callVars
<1>4. CASE PostZlpFails
  <2>1. ~host.tail
    BY <1>0, <1>4, <1>f DEF PostZlpFails, PostRefused, Slot, NoHost
  <2>2. QED
    BY <1>4, <2>1, <1>a DEF PostZlpFails
<1>5. CASE ZlpCompleted
  <2>1. ~host.tail
    BY <1>5, <1>w DEF ZlpCompleted, Completed
  <2>2. QED
    BY <1>5, <2>1, <1>a DEF ZlpCompleted
<1>6. CASE PayloadReportFails
  BY <1>6, <1>s DEF PayloadReportFails, Completed, callVars
<1>7. CASE PayloadCompleted
  <2>1. CASE ~ParsedOk(urb)
    BY <1>7, <1>s, <2>1 DEF PayloadCompleted, Completed, callVars
  <2>2. CASE ParsedOk(urb) /\ NeedsZlp(urb.len)
    BY <1>7, <2>2 DEF PayloadCompleted
  <2>3. CASE ParsedOk(urb) /\ ~NeedsZlp(urb.len)
    <3>1. ~host.tail
      BY <1>0, <1>7, <2>3, FullNeedsZlp
      DEF PayloadCompleted, Completed, ParsedOk, Urbs, HeaderLen, Boundary, InPayload
    <3>2. QED
      BY <1>7, <2>3, <3>1, <1>a DEF PayloadCompleted
  <2>4. QED
    BY <2>1, <2>2, <2>3
<1>8. CASE Timeout \/ Cancel \/ ReapTimeout
  BY <1>8, <1>s DEF Timeout, Cancel, ReapTimeout, callVars
<1>9. CASE ReapCancelled \/ Finish
  BY <1>9, <1>s DEF ReapCancelled, Finish, callVars
<1>10. CASE Plug \/ PollDisconnected \/ Connect \/ Commit
  BY <1>10 DEF Plug, PollDisconnected, Connect, Commit, callVars, urbVars
<1>11. CASE Unplug
  BY <1>11, <1>f DEF Unplug
<1>12. CASE HostRead
  <2>1. /\ urb' = [urb EXCEPT !.state = "complete"]
        /\ UNCHANGED <<pc, success>>
        /\ host'.tail = (~EndsShort(urb.len) /\ urb.len # 0)
    BY <1>12, <1>r DEF HostRead, callVars
  <2>2. urb'.len = urb.len
    BY <1>0, <2>1 DEF Urbs
  <2>3. ~(pc = "finish" /\ success)
    BY <1>12 DEF HostRead, Slot, LeftOver, Progress, Returned
  <2>4. QED
    BY <2>1, <2>2, <2>3
<1>13. CASE CompletesCancelled
  <2>1. urb.state = "cancelling" /\ UNCHANGED <<pc, success>>
    BY <1>13
    DEF CompletesCancelled, CancelCompletes, CancelCompletesPartly, callVars
  <2>2. pc # "wait"
    BY <1>w, <2>1
  <2>3. ~(pc = "finish" /\ success)
    BY <2>1 DEF OutstandingUrb, Slot, LeftOver, Progress, Returned
  <2>4. QED
    BY <2>1, <2>2, <2>3
<1>14. CASE TransferError
  BY <1>0, <1>14 DEF TransferError
<1>15. CASE HostRestart
  BY <1>15, <1>f DEF HostRestart
<1>16. CASE UNCHANGED vars
  BY <1>16 DEF vars, callVars, urbVars
<1>17. QED
  BY <1>1, <1>2, <1>3, <1>4, <1>5, <1>6, <1>7, <1>8, <1>9, <1>10, <1>11,
     <1>12, <1>13, <1>14, <1>15, <1>16
  DEF Next, Thread

(***************************************************************************)
(* The host sees every payload boundary of a frame, and the end of a frame *)
(* that was sent, when posts and transfers do not fail under it. Cancelled *)
(* and half-sent URBs, late cancels and lost reports are all allowed.      *)
(***************************************************************************)
THEOREM BoundariesVisible ==
    ASSUME Faults \intersect {"post", "status"} = {}
    PROVE  Spec => []PayloadDelimited
<1> DEFINE IInv == TypeOK /\ Progress /\ Slot /\ Boundary /\ Terminated
<1>1. Init => IInv
  BY TypeInit, ProgressInit, SlotInit
<1>2. IInv /\ [Next]_vars => IInv'
  BY TypeStep, ProgressStep, SlotStep, BoundaryStep, TerminatedStep
<1>3. IInv => PayloadDelimited
  BY DEF Boundary, Terminated, PayloadDelimited
<1>4. QED
  BY <1>1, <1>2, <1>3, PTL DEF Spec


(***************************************************************************)
(* What a host that has read nothing yet reads first. Only SysDvrUvc knows *)
(* when a host begins to read: these lemmas are about the pipe.            *)
(***************************************************************************)
\* A parser that has no frame has seen nothing, or ZLPs only.
LEMMA ParserSees ==
    ASSUME NEW h \in Hosts, NEW u \in Urbs, h.frames = {} => h = FreshHost
    PROVE  /\ Receive(h, u).frames = {} =>
                 u.len = 0 /\ h = FreshHost /\ Receive(h, u) = FreshHost
           /\ ReceivePart(h, u).frames # {}
<1>1. Parse(h, u).frames # {} /\ Parse(h, u) \in Hosts
  BY DEF Parse, Joined, Hosts, Urbs
<1>2. FreshHost.tail = FALSE /\ FreshHost.frames = {} /\ FreshHost \in Hosts
  BY DEF FreshHost, Hosts, Fids
<1>3. ReceivePart(h, u).frames # {}
  BY <1>1, <1>2 DEF ReceivePart, Hosts
<1>4. ASSUME Receive(h, u).frames = {}
      PROVE  u.len = 0 /\ h = FreshHost
  BY <1>1, <1>2, <1>4 DEF Receive, Hosts
<1>5. ASSUME u.len = 0, h = FreshHost PROVE Receive(h, u) = FreshHost
  BY <1>2, <1>5 DEF Receive, FreshHost
<1>6. QED
  BY <1>3, <1>4, <1>5

\* The thread puts nothing on the pipe but the continuation of what has been
\* received.
LEMMA ThreadPosts ==
    ASSUME TypeOK, Progress, Thread, OutstandingUrb', urb'.len > 0
    PROVE  \/ OutstandingUrb /\ urb.len > 0 /\ urb'.src = urb.src
           \/ urb'.src = received
<1>0. urb \in Urbs /\ NoUrb.state = "none"
  BY DEF TypeOK, NoUrb
<1> USE DEF OutstandingUrb, urbVars
<1>1. CASE PostPayload
  <2>1. received = src
    BY <1>1 DEF PostPayload, Progress, Between
  <2>2. urb' = Payload \/ urb' = urb
    BY <1>1 DEF PostPayload, Post
  <2>3. Payload.src = src
    BY DEF Payload
  <2>4. QED
    BY <2>1, <2>2, <2>3
<1>2. CASE PostZlp
  <2>1. urb' = Zlp \/ urb' = urb
    BY <1>2 DEF PostZlp, Post
  <2>2. Zlp.len = 0
    BY DEF Zlp
  <2>3. QED
    BY <2>1, <2>2
<1>3. CASE PostPayloadFails \/ PostZlpFails \/ PayloadReportFails \/ Timeout
           \/ ReapTimeout
  BY <1>3 DEF PostPayloadFails, PostZlpFails, PayloadReportFails, Timeout, ReapTimeout
<1>4. CASE PayloadCompleted \/ ZlpCompleted \/ ReapCancelled
  BY <1>0, <1>4 DEF PayloadCompleted, ZlpCompleted, ReapCancelled
<1>5. CASE Cancel
  BY <1>0, <1>5 DEF Cancel, Urbs
<1>6. CASE Finish
  BY <1>0, <1>6 DEF Finish, Urbs
<1>7. QED
  BY <1>1, <1>2, <1>3, <1>4, <1>5, <1>6 DEF Thread

=============================================================================
