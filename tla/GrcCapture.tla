----------------------------- MODULE GrcCapture -----------------------------
(***************************************************************************)
(* source/capture.c: several threads read frames from grc:d, the console's *)
(* recorder. The first read that finds the pipeline not started starts it  *)
(* (_ensureGrcdInit, double-checked locking); the video reader prefixes    *)
(* keyframes with the SPS and PPS the stream lacks.                        *)
(*                                                                         *)
(* grc:d is external: a Transfer blocks, then fails or returns data; Begin *)
(* succeeds or fails, and a second Begin crashes the console.              *)
(***************************************************************************)
EXTENDS Integers

CONSTANTS
    Threads,        \* callers of the CaptureRead functions
    Video,          \* the one that reads video
    NoThread,       \* owner of a free mutex
    DataSizes,      \* sizes a successful Transfer may report
    Interval        \* where the ghost sinceInjected saturates

VbufSz == 344064        \* 0x54000
PrefixLen == 33 + 8     \* SPS_SIZE + PPS_SIZE

ASSUME ConstantsAssumption ==
    /\ Video \in Threads /\ NoThread \notin Threads
    /\ DataSizes \subseteq 0 .. VbufSz
    /\ Interval \in Nat /\ Interval > 0

VARIABLES
    pc,             \* thread -> where it is in its CaptureRead call
    depth,          \* thread -> recursive calls it is inside of
    synced,         \* threads that have held the mutex: their unlocked read
                    \* of g_grcdBeginCalled is no longer stale
    beginCalled,    \* g_grcdBeginCalled
    owner,          \* owner of g_grcdBeginMutex
    begins,         \* number of grcdServiceBegin calls so far
    pipeline,       \* "off", or "on" once a Begin succeeded
    inject,         \* g_injectSpsPps
    idrCount,       \* g_idrCount
    frame,          \* the last video frame returned
    sinceInjected   \* keyframes since the last prefix (0: none yet), saturating

initVars  == <<beginCalled, begins, pipeline>>
videoVars == <<idrCount, frame, sinceInjected>>
vars == <<pc, depth, synced, initVars, owner, inject, videoVars>>

Init ==
    /\ pc = [t \in Threads |-> "idle"] /\ depth = [t \in Threads |-> 0]
    /\ synced = {} /\ beginCalled = FALSE /\ owner = NoThread
    /\ begins = 0 /\ pipeline = "off"
    /\ inject = TRUE /\ idrCount = 0
    /\ frame = [key |-> FALSE, prefixed |-> FALSE, raw |-> 0, size |-> 0]
    /\ sinceInjected = 0

Goto(t, label) == pc' = [pc EXCEPT ![t] = label]

\* A CaptureRead call returns, from whatever depth of recursion.
Return(t) == Goto(t, "idle") /\ depth' = [depth EXCEPT ![t] = 0]

-----------------------------------------------------------------------------
(***************************************************************************)
(* CaptureReadVideoFrame and CaptureReadAudioFrame.                        *)
(***************************************************************************)
Read(t) ==
    /\ pc[t] = "idle" /\ Goto(t, "transfer")
    /\ UNCHANGED <<depth, synced, initVars, owner, inject, videoVars>>

\* grcdServiceTransfer answers GRCD_NOT_INITIALIZED, which it may also do
\* after a Begin...
TransferNotInitialized(t) ==
    /\ pc[t] = "transfer" /\ Goto(t, "ensure")
    /\ UNCHANGED <<depth, synced, initVars, owner, inject, videoVars>>

\* ...or another error, or too little data: the read fails.
TransferFails(t) ==
    /\ pc[t] = "transfer" /\ Return(t)
    /\ UNCHANGED <<synced, initVars, owner, inject, videoVars>>

\* Audio data is passed on as it is.
AudioArrives(t) ==
    /\ pc[t] = "transfer" /\ t # Video /\ pipeline = "on" /\ Return(t)
    /\ UNCHANGED <<synced, initVars, owner, inject, videoVars>>

\* The injection test, on the counter already incremented. Mutants: only
\* every second keyframe; only after five.
InjectsEverySecond(count) == count >= 5 \/ count = 2
InjectsAfterFive(count) == count > 5
InjectionDue(count) == count >= 5 \/ count = 1

\* Mutant: the prefix is written whatever the headroom.
AlwaysRoom(n) == TRUE
HasRoom(n) == VbufSz - n >= PrefixLen

Saturated(n) == IF n > Interval THEN Interval ELSE n

VideoArrives(n, key) ==
    LET counted == inject /\ key
        due     == counted /\ InjectionDue(idrCount + 1)
        prefix  == due /\ HasRoom(n)
    IN /\ pc[Video] = "transfer" /\ pipeline = "on" /\ n > 4
       /\ idrCount' = IF due THEN 0 ELSE IF counted THEN idrCount + 1 ELSE idrCount
       /\ frame' = [key |-> key, prefixed |-> prefix, raw |-> n,
                    size |-> IF prefix THEN n + PrefixLen ELSE n]
       /\ sinceInjected' = IF prefix THEN 1
                           ELSE IF key /\ sinceInjected > 0
                                THEN Saturated(sinceInjected + 1)
                                ELSE sinceInjected
       /\ Return(Video)
       /\ UNCHANGED <<synced, initVars, owner, inject>>

-----------------------------------------------------------------------------
(***************************************************************************)
(* _ensureGrcdInit. FALSE makes the read fail with the error it had.       *)
(***************************************************************************)
\* The unlocked test finds the flag set.
FastPath(t) ==
    /\ pc[t] = "ensure" /\ beginCalled /\ Return(t)
    /\ UNCHANGED <<synced, initVars, owner, inject, videoVars>>

\* It finds it clear, or reads an old value: the read is not synchronised.
MayReadClear(t) == ~beginCalled \/ t \notin synced

SlowPath(t) ==
    /\ pc[t] = "ensure" /\ MayReadClear(t) /\ Goto(t, "lock")
    /\ UNCHANGED <<depth, synced, initVars, owner, inject, videoVars>>

Lock(t) ==
    /\ pc[t] = "lock" /\ owner = NoThread
    /\ owner' = t /\ synced' = synced \union {t} /\ Goto(t, "recheck")
    /\ UNCHANGED <<depth, initVars, inject, videoVars>>

\* Another thread was first: unlock and fail.
AlreadyCalled(t) ==
    /\ pc[t] = "recheck" /\ beginCalled
    /\ owner' = NoThread /\ Return(t)
    /\ UNCHANGED <<synced, initVars, inject, videoVars>>

\* Mutant: the test is not repeated under the lock.
MarkCalledUnchecked(t) ==
    /\ pc[t] = "recheck"
    /\ beginCalled' = TRUE /\ Goto(t, "begin")
    /\ UNCHANGED <<depth, synced, begins, pipeline, owner, inject, videoVars>>

\* Mutant: the flag is never set.
MarkNothing(t) ==
    /\ pc[t] = "recheck" /\ ~beginCalled /\ Goto(t, "begin")
    /\ UNCHANGED <<depth, synced, initVars, owner, inject, videoVars>>

\* The flag is set before Begin is called and stays set if Begin fails.
MarkCalled(t) ==
    /\ pc[t] = "recheck" /\ ~beginCalled
    /\ beginCalled' = TRUE /\ Goto(t, "begin")
    /\ UNCHANGED <<depth, synced, begins, pipeline, owner, inject, videoVars>>

BeginSucceeds(t) ==
    /\ pc[t] = "begin"
    /\ begins' = begins + 1 /\ pipeline' = "on" /\ Goto(t, "begun")
    /\ UNCHANGED <<depth, synced, beginCalled, owner, inject, videoVars>>

BeginFails(t) ==
    /\ pc[t] = "begin"
    /\ begins' = begins + 1 /\ Goto(t, "failed")
    /\ UNCHANGED <<depth, synced, beginCalled, pipeline, owner, inject, videoVars>>

\* Mutant: the early return keeps the mutex.
UnlockForgotten(t) ==
    /\ pc[t] = "failed" /\ Return(t)
    /\ UNCHANGED <<synced, initVars, owner, inject, videoVars>>

\* Unlock and return TRUE: the read fails if Begin did...
UnlockFailed(t) ==
    /\ pc[t] = "failed" /\ owner' = NoThread /\ Return(t)
    /\ UNCHANGED <<synced, initVars, inject, videoVars>>

\* ...and calls itself otherwise.
UnlockBegun(t) ==
    /\ pc[t] = "begun" /\ owner' = NoThread
    /\ depth' = [depth EXCEPT ![t] = @ + 1] /\ Goto(t, "transfer")
    /\ UNCHANGED <<synced, initVars, inject, videoVars>>

-----------------------------------------------------------------------------
CaptureSetInjectSPSPPS(b) ==
    /\ inject' = b
    /\ UNCHANGED <<pc, depth, synced, initVars, owner, videoVars>>

\* A call that returns TRUE...
Arrives(t) ==
    \/ AudioArrives(t)
    \/ t = Video /\ \E n \in DataSizes, key \in BOOLEAN : VideoArrives(n, key)

\* ...and what a call does until then, or until it returns FALSE.
Works(t) ==
    \/ TransferNotInitialized(t) \/ TransferFails(t)
    \/ FastPath(t) \/ SlowPath(t) \/ Lock(t) \/ AlreadyCalled(t) \/ MarkCalled(t)
    \/ BeginSucceeds(t) \/ BeginFails(t) \/ UnlockFailed(t) \/ UnlockBegun(t)

Step(t) == Arrives(t) \/ Works(t)

Next ==
    \/ \E t \in Threads : Read(t) \/ Step(t)
    \/ \E b \in BOOLEAN : CaptureSetInjectSPSPPS(b)

Spec == Init /\ [][Next]_vars

\* Every thread is scheduled, and grc:d answers: a game is running.
FairSpec == Spec /\ \A t \in Threads : WF_vars(Step(t))

-----------------------------------------------------------------------------
(***************************************************************************)
(* Properties.                                                             *)
(***************************************************************************)
Labels == {"idle", "transfer", "ensure", "lock", "recheck", "begin", "begun", "failed"}
Frames == [key : BOOLEAN, prefixed : BOOLEAN, raw : Nat, size : Nat]

\* The type invariant.
TypeOK ==
    /\ pc \in [Threads -> Labels] /\ depth \in [Threads -> Nat]
    /\ synced \subseteq Threads /\ owner \in Threads \union {NoThread}
    /\ beginCalled \in BOOLEAN /\ begins \in Nat /\ pipeline \in {"off", "on"}
    /\ inject \in BOOLEAN /\ idrCount \in 0 .. 4
    /\ frame \in Frames /\ sinceInjected \in 0 .. Interval

\* "It must run EXACTLY once - calling Begin twice crashes the console"
\* (capture.c:21-22): however the readers interleave, whatever they read of
\* the flag outside the lock, and also when Begin or a later Transfer fails.
BeginAtMostOnce == begins <= 1

\* The recursion that retries a read after Begin is one call deep, so the
\* stack of a thread is bounded however often grc:d reports NOT_INITIALIZED.
RecursionBounded == \A t \in Threads : depth[t] <= 1

\* The prefix never writes past the static video buffer (capture.c:141-143).
FrameFits == frame.size <= VbufSz

\* A keyframe returned without parameter sets, while injection is on, had no
\* room for them; a host can start decoding at any other keyframe.
KeyframesDecodable ==
    [][frame' # frame /\ frame'.key /\ inject =>
          frame'.prefixed \/ frame'.raw + PrefixLen > VbufSz]_vars

\* "Re-inject on the first IDR and then every 5th [...] without paying the
\* prefix on every keyframe" (capture.c:136-137): an injection is the first
\* or comes at least four keyframes after the last. The code does NOT do this: it clears the
\* counter to 0, so that the next IDR counts as the first again.
EveryFifth ==
    [][frame' # frame /\ frame'.prefixed => sinceInjected = 0 \/ sinceInjected >= 4]_vars

\* Every read returns when grc:d answers, also while another thread is inside
\* Begin or has just failed in it: the mutex is always given back.
ReadReturns == \A t \in Threads : (pc[t] # "idle") ~> (pc[t] = "idle")

=============================================================================
