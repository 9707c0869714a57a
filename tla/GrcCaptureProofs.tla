-------------------------- MODULE GrcCaptureProofs --------------------------
(***************************************************************************)
(* Theorems about GrcCapture for every set of reader threads.              *)
(***************************************************************************)
EXTENDS GrcCapture, TLAPS

(***************************************************************************)
(* The inductive invariant.                                                *)
(***************************************************************************)
Locked == {"recheck", "begin", "begun", "failed"}

\* Only the owner of the mutex is between lock and unlock.
Exclusive == \A t \in Threads : pc[t] \in Locked => owner = t

\* Whoever is about to call Begin is the first to do so.
FirstToBegin == \A t \in Threads : pc[t] = "begin" => beginCalled /\ begins = 0

\* A clear flag means that nobody has called Begin, nor is about to.
ClearMeansNever == ~beginCalled => begins = 0

\* Only a thread that has called Begin recurses, once, and finds the flag set
\* from then on.
RecursesAfterBegin == \A t \in Threads :
    /\ depth[t] > 0 => beginCalled
    /\ pc[t] \in {"begin", "begun", "failed"} => depth[t] = 0 /\ beginCalled

IInv == /\ TypeOK /\ Exclusive /\ FirstToBegin /\ ClearMeansNever
        /\ RecursesAfterBegin /\ BeginAtMostOnce /\ RecursionBounded /\ FrameFits

\* What every step of a read leaves of TypeOK once the labels and depths are
\* known to be typed.
LEMMA ReturnType ==
    ASSUME NEW t \in Threads, TypeOK, Return(t)
    PROVE  /\ pc' = [pc EXCEPT ![t] = "idle"] /\ depth' = [depth EXCEPT ![t] = 0]
           /\ pc' \in [Threads -> Labels] /\ depth' \in [Threads -> Nat]
BY DEF Return, Goto, TypeOK, Labels

\* The initial state satisfies the invariant.
LEMMA InvInit == Init => IInv
<1> SUFFICES ASSUME Init PROVE IInv
  OBVIOUS
<1>1. pc \in [Threads -> Labels] /\ depth \in [Threads -> Nat]
  BY DEF Init, Labels
<1>2. frame \in Frames /\ frame.size <= VbufSz
  BY DEF Init, Frames, VbufSz
<1>3. idrCount \in 0 .. 4 /\ sinceInjected \in 0 .. Interval /\ begins \in Nat
  BY ConstantsAssumption DEF Init
<1>4. TypeOK
  BY <1>1, <1>2, <1>3 DEF Init, TypeOK
<1>5. \A t \in Threads : pc[t] = "idle" /\ depth[t] = 0
  BY DEF Init
<1>6. begins = 0
  BY DEF Init
<1>7. QED
  BY <1>2, <1>4, <1>5, <1>6
  DEF IInv, Exclusive, Locked, FirstToBegin, ClearMeansNever,
      RecursesAfterBegin, BeginAtMostOnce, RecursionBounded, FrameFits

\* A step that takes one thread outside the locked section, or moves it there
\* between two labels that the invariant does not speak about.
LEMMA OutsideStep ==
    ASSUME IInv, NEW t \in Threads, NEW label \in Labels \ Locked,
           pc' = [pc EXCEPT ![t] = label],
           depth' \in {depth, [depth EXCEPT ![t] = 0]},
           UNCHANGED <<beginCalled, begins, owner>>,
           pc[t] \notin Locked
    PROVE  /\ pc' \in [Threads -> Labels] /\ depth' \in [Threads -> Nat]
           /\ (Exclusive /\ FirstToBegin /\ ClearMeansNever /\ RecursesAfterBegin
               /\ BeginAtMostOnce /\ RecursionBounded)'
BY DEF IInv, TypeOK, Labels, Locked, Exclusive, FirstToBegin, ClearMeansNever,
       RecursesAfterBegin, BeginAtMostOnce, RecursionBounded

\* One step preserves the invariant.
LEMMA InvStep == IInv /\ [Next]_vars => IInv'
<1> SUFFICES ASSUME IInv, [Next]_vars PROVE IInv'
  OBVIOUS
<1> USE DEF IInv, initVars, videoVars
<1>1. ASSUME NEW t \in Threads,
             Read(t) \/ TransferNotInitialized(t) \/ SlowPath(t)
      PROVE  IInv'
  <2>1. PICK label \in {"transfer", "ensure", "lock"} :
           pc' = [pc EXCEPT ![t] = label] /\ pc[t] \notin Locked
    BY <1>1 DEF Read, TransferNotInitialized, SlowPath, Goto, Locked
  <2>2. label \in Labels \ Locked
    BY <2>1 DEF Labels, Locked
  <2>3. UNCHANGED <<depth, synced, beginCalled, begins, pipeline, owner, inject,
                    idrCount, frame, sinceInjected>>
    BY <1>1 DEF Read, TransferNotInitialized, SlowPath
  <2>4. QED
    BY <2>1, <2>2, <2>3, OutsideStep DEF TypeOK, FrameFits
<1>2. ASSUME NEW t \in Threads,
             TransferFails(t) \/ AudioArrives(t) \/ FastPath(t)
      PROVE  IInv'
  <2>1. Return(t) /\ pc[t] \notin Locked
    BY <1>2 DEF TransferFails, AudioArrives, FastPath, Locked
  <2>2. UNCHANGED <<synced, beginCalled, begins, pipeline, owner, inject,
                    idrCount, frame, sinceInjected>>
    BY <1>2 DEF TransferFails, AudioArrives, FastPath
  <2>3. "idle" \in Labels \ Locked
    BY DEF Labels, Locked
  <2>4. QED
    BY <2>1, <2>2, <2>3, ReturnType, OutsideStep DEF TypeOK, FrameFits
<1>3. ASSUME NEW n \in DataSizes, NEW key \in BOOLEAN, VideoArrives(n, key)
      PROVE  IInv'
  <2>1. Return(Video) /\ pc[Video] \notin Locked /\ Video \in Threads
    BY <1>3, ConstantsAssumption DEF VideoArrives, Locked
  <2>2. UNCHANGED <<synced, beginCalled, begins, pipeline, owner, inject>>
    BY <1>3 DEF VideoArrives
  <2>3. "idle" \in Labels \ Locked
    BY DEF Labels, Locked
  <2>v. VbufSz \in Nat
    BY DEF VbufSz
  <2>4. n \in Nat /\ n <= VbufSz
    BY <2>v, ConstantsAssumption
  <2>5. idrCount' \in 0 .. 4
    BY <1>3 DEF VideoArrives, InjectionDue, TypeOK
  <2>6. frame' \in Frames /\ frame'.size <= VbufSz
    <3> DEFINE prefix == inject /\ key /\ InjectionDue(idrCount + 1) /\ HasRoom(n)
    <3>1. frame' = [key |-> key, prefixed |-> prefix, raw |-> n,
                    size |-> IF prefix THEN n + PrefixLen ELSE n]
      BY <1>3 DEF VideoArrives
    <3>2. prefix \in BOOLEAN
      BY DEF InjectionDue, HasRoom
    <3>3. prefix => n + PrefixLen <= VbufSz
      BY <2>4, <2>v DEF HasRoom, PrefixLen
    <3> HIDE DEF prefix
    <3>4. QED
      BY <2>4, <2>v, <3>1, <3>2, <3>3 DEF Frames, PrefixLen
  <2>7. sinceInjected' \in 0 .. Interval
    BY <1>3, ConstantsAssumption DEF VideoArrives, Saturated, TypeOK
  <2>8. QED
    BY <2>1, <2>2, <2>3, <2>5, <2>6, <2>7, ReturnType, OutsideStep
    DEF TypeOK, FrameFits
<1>4. ASSUME NEW t \in Threads, Lock(t) PROVE IInv'
  BY <1>4, ConstantsAssumption
  DEF Lock, Goto, TypeOK, Labels, Locked, Exclusive, FirstToBegin,
      ClearMeansNever, RecursesAfterBegin, BeginAtMostOnce, RecursionBounded, FrameFits
<1>5. ASSUME NEW t \in Threads, AlreadyCalled(t) \/ UnlockFailed(t) PROVE IInv'
  <2>1. owner = t /\ owner' = NoThread /\ Return(t)
    BY <1>5 DEF AlreadyCalled, UnlockFailed, Exclusive, Locked
  <2>2. UNCHANGED <<synced, beginCalled, begins, pipeline, inject,
                    idrCount, frame, sinceInjected>>
    BY <1>5 DEF AlreadyCalled, UnlockFailed
  <2>3. QED
    BY <2>1, <2>2, ReturnType, ConstantsAssumption
    DEF TypeOK, Locked, Exclusive, FirstToBegin, ClearMeansNever,
        RecursesAfterBegin, BeginAtMostOnce, RecursionBounded, FrameFits
<1>6. ASSUME NEW t \in Threads, MarkCalled(t) PROVE IInv'
  BY <1>6
  DEF MarkCalled, Goto, TypeOK, Labels, Locked, Exclusive, FirstToBegin,
      ClearMeansNever, RecursesAfterBegin, BeginAtMostOnce, RecursionBounded, FrameFits
<1>7. ASSUME NEW t \in Threads, BeginSucceeds(t) \/ BeginFails(t) PROVE IInv'
  <2>1. \A s \in Threads : pc[s] = "begin" => s = t
    BY <1>7 DEF BeginSucceeds, BeginFails, Exclusive, Locked
  <2>2. QED
    BY <1>7, <2>1
    DEF BeginSucceeds, BeginFails, Goto, TypeOK, Labels, Locked, Exclusive,
        FirstToBegin, ClearMeansNever, RecursesAfterBegin, BeginAtMostOnce,
        RecursionBounded, FrameFits
<1>8. ASSUME NEW t \in Threads, UnlockBegun(t) PROVE IInv'
  BY <1>8, ConstantsAssumption
  DEF UnlockBegun, Goto, TypeOK, Labels, Locked, Exclusive, FirstToBegin,
      ClearMeansNever, RecursesAfterBegin, BeginAtMostOnce, RecursionBounded, FrameFits
<1>9. ASSUME NEW b \in BOOLEAN, CaptureSetInjectSPSPPS(b) PROVE IInv'
  BY <1>9
  DEF CaptureSetInjectSPSPPS, TypeOK, Exclusive, FirstToBegin, ClearMeansNever,
      RecursesAfterBegin, BeginAtMostOnce, RecursionBounded, FrameFits
<1>10. CASE UNCHANGED vars
  BY <1>10
  DEF vars, TypeOK, Exclusive, FirstToBegin, ClearMeansNever,
      RecursesAfterBegin, BeginAtMostOnce, RecursionBounded, FrameFits
<1>11. QED
  BY <1>1, <1>2, <1>3, <1>4, <1>5, <1>6, <1>7, <1>8, <1>9, <1>10
  DEF Next, Step, Arrives, Works

(***************************************************************************)
(* Begin runs at most once, for any number of readers, with unsynchronised *)
(* reads of the flag and whatever grc:d answers.                           *)
(***************************************************************************)
THEOREM BeginOnce == Spec => []BeginAtMostOnce
<1>1. IInv => BeginAtMostOnce
  BY DEF IInv
<1>2. QED
  BY InvInit, InvStep, <1>1, PTL DEF Spec

(***************************************************************************)
(* A read recurses at most once, so no reader's stack overflows.           *)
(***************************************************************************)
THEOREM OneRecursion == Spec => []RecursionBounded
<1>1. IInv => RecursionBounded
  BY DEF IInv
<1>2. QED
  BY InvInit, InvStep, <1>1, PTL DEF Spec

(***************************************************************************)
(* The injected prefix stays inside the video buffer for every frame size  *)
(* grc:d may report up to the size of the buffer it was given.             *)
(***************************************************************************)
THEOREM PrefixFits == Spec => []FrameFits
<1>1. IInv => FrameFits
  BY DEF IInv
<1>2. QED
  BY InvInit, InvStep, <1>1, PTL DEF Spec

\* Every variable keeps its type: above all, g_idrCount never exceeds 4.
THEOREM TypeCorrect == Spec => []TypeOK
<1>1. IInv => TypeOK
  BY DEF IInv
<1>2. QED
  BY InvInit, InvStep, <1>1, PTL DEF Spec

(***************************************************************************)
(* A host can start decoding at any keyframe that had room for the prefix. *)
(* The invariant behind it: the counter is cleared by the keyframe that    *)
(* would have counted, so it is 0 between any two reads and every keyframe *)
(* is the first.                                                           *)
(***************************************************************************)
NeverCounts == idrCount = 0

\* Every keyframe is prefixed if there is room, and clears the counter again.
LEMMA KeyframeStep ==
    ASSUME IInv, NeverCounts, [Next]_vars
    PROVE  /\ NeverCounts'
           /\ frame' # frame /\ frame'.key /\ inject =>
                 frame'.prefixed \/ frame'.raw + PrefixLen > VbufSz
<1> USE DEF NeverCounts
<1>1. ASSUME NEW n \in DataSizes, NEW key \in BOOLEAN, VideoArrives(n, key)
      PROVE  /\ idrCount' = 0
             /\ frame'.key /\ inject =>
                   frame'.prefixed \/ frame'.raw + PrefixLen > VbufSz
  <2>1. InjectionDue(idrCount + 1)
    BY DEF InjectionDue
  <2>2. idrCount' = 0
    BY <1>1, <2>1 DEF VideoArrives
  <2>3. /\ frame'.key = key /\ frame'.raw = n
        /\ inject /\ key /\ HasRoom(n) => frame'.prefixed
    <3> DEFINE prefix == inject /\ key /\ InjectionDue(idrCount + 1) /\ HasRoom(n)
    <3>1. frame' = [key |-> key, prefixed |-> prefix, raw |-> n,
                    size |-> IF prefix THEN n + PrefixLen ELSE n]
      BY <1>1 DEF VideoArrives
    <3>2. inject /\ key /\ HasRoom(n) => prefix
      BY <2>1
    <3> HIDE DEF prefix
    <3>3. frame'.key = key /\ frame'.raw = n /\ frame'.prefixed = prefix
      BY <3>1, Zenon
    <3>4. QED
      BY <3>2, <3>3
  <2>4. n \in Nat /\ ~HasRoom(n) => n + PrefixLen > VbufSz
    BY DEF HasRoom, PrefixLen, VbufSz
  <2>v. VbufSz \in Nat
    BY DEF VbufSz
  <2>5. n \in Nat
    BY <2>v, ConstantsAssumption
  <2>6. QED
    BY <2>2, <2>3, <2>4, <2>5
<1>2. ASSUME NEW t \in Threads, Read(t) \/ Works(t) \/ AudioArrives(t)
      PROVE  UNCHANGED <<idrCount, frame>>
  BY <1>2
  DEF Read, Works, AudioArrives, TransferNotInitialized, TransferFails, FastPath,
      SlowPath, Lock, AlreadyCalled, MarkCalled, BeginSucceeds, BeginFails,
      UnlockFailed, UnlockBegun, videoVars
<1>3. ASSUME NEW b \in BOOLEAN, CaptureSetInjectSPSPPS(b)
      PROVE  UNCHANGED <<idrCount, frame>>
  BY <1>3 DEF CaptureSetInjectSPSPPS, videoVars
<1>4. CASE UNCHANGED vars
  BY <1>4 DEF vars, videoVars
<1>5. QED
  BY <1>1, <1>2, <1>3, <1>4 DEF Next, Step, Arrives

\* A keyframe without parameter sets had no room for them.
THEOREM DecodableKeyframes == Spec => KeyframesDecodable
<1>1. Init => IInv /\ NeverCounts
  BY InvInit DEF Init, NeverCounts
<1>2. IInv /\ NeverCounts /\ [Next]_vars => IInv' /\ NeverCounts'
  BY InvStep, KeyframeStep
<1>3. IInv /\ NeverCounts /\ [Next]_vars =>
        [frame' # frame /\ frame'.key /\ inject =>
            frame'.prefixed \/ frame'.raw + PrefixLen > VbufSz]_vars
  BY KeyframeStep
<1>4. QED
  BY <1>1, <1>2, <1>3, PTL DEF Spec, KeyframesDecodable

=============================================================================
