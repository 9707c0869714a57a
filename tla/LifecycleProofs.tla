--------------------------- MODULE LifecycleProofs ---------------------------
(***************************************************************************)
(* Proofs about Lifecycle, for any two threads and whether logging is      *)
(* compiled in or not.                                                     *)
(***************************************************************************)
EXTENDS Lifecycle, TLAPS

\* TypeOK is inductive.
LEMMA TypeInit == Init => TypeOK
BY DEF Init, TypeOK, Labels, Resources

LEMMA TypeStep == TypeOK /\ [Next]_vars => TypeOK'
<1> SUFFICES ASSUME TypeOK, [Next]_vars PROVE TypeOK'
    OBVIOUS
<1> USE DEF TypeOK, Labels, Resources, Goes, Acquire
<1>1. CASE InitSm \/ SetsysFails \/ InitSetsys \/ ReadVersion
      BY <1>1 DEF InitSm, SetsysFails, InitSetsys, ReadVersion
<1>2. CASE InitLog \/ SerialUnknown \/ OpenSerial \/ ReadSerial
      BY <1>2 DEF InitLog, SerialUnknown, OpenSerial, ReadSerial
<1>3. CASE OpenGrcVideo \/ OpenGrcAudio \/ InitUvc \/ UvcFails
      BY <1>3 DEF OpenGrcVideo, OpenGrcAudio, InitUvc, UvcFails
<1>4. CASE LaunchVideo \/ LaunchAudio
      BY <1>4 DEF LaunchVideo, LaunchAudio, LaunchThread
<1>5. CASE LaunchFails \/ BootFails
      BY <1>5 DEF LaunchFails, BootFails, Fatal
<1>6. CASE AppExit
      BY <1>6 DEF AppExit
<1>7. CASE UNCHANGED vars
      BY <1>7 DEF vars
<1> QED
    BY <1>1, <1>2, <1>3, <1>4, <1>5, <1>6, <1>7 DEF Next

\* The main thread's place tells which sessions may and which must be open:
\* grc:d's before the device, the device before the threads, and setsys only
\* where it is read (main.c:193-201, core.c:103-122).
Before(labels) == main \in labels

Opened ==
    /\ ~Before({"sm", "exited", "fatal"}) => "sm" \in held
    /\ Before({"grcAudio"}) => "grcVideo" \in held
    /\ Before({"uvc", "video", "audio", "running", "appExit"}) =>
          {"grcVideo", "grcAudio"} \subseteq held /\ coreInitialized
    /\ Before({"video", "audio", "running"}) => "usb" \in held

NotYetOpened ==
    /\ "setsys" \in held => Before({"version", "readSerial", "fatal"})
    /\ Before({"sm"}) => held = {}

Started ==
    /\ ~Before({"audio", "running", "fatal"}) => threads = {}
    /\ Before({"audio"}) => threads = {Video}
    /\ Before({"running"}) => threads = {Video, Audio}

\* What a fatal error stops was complete, or had no thread yet.
Stopped ==
    threads # {} => {"sm", "grcVideo", "grcAudio", "usb"} \subseteq held

\* The inductive invariant.
IInv == TypeOK /\ Opened /\ NotYetOpened /\ Started /\ Stopped /\ ReleasedOnExit

LEMMA IInvInit == Init => IInv
BY TypeInit DEF Init, IInv, Opened, NotYetOpened, Started, Stopped, ReleasedOnExit, Before

LEMMA IInvStep == IInv /\ [Next]_vars => IInv'
<1> SUFFICES ASSUME IInv, [Next]_vars PROVE IInv'
    OBVIOUS
<1>0. TypeOK'
      BY TypeStep DEF IInv
<1> USE <1>0 DEF IInv, Opened, NotYetOpened, Started, Stopped, ReleasedOnExit,
                 Before, Goes, Acquire
<1>1. CASE InitSm \/ SetsysFails \/ InitSetsys \/ ReadVersion
      BY <1>1 DEF InitSm, SetsysFails, InitSetsys, ReadVersion
<1>2. CASE InitLog \/ SerialUnknown \/ OpenSerial \/ ReadSerial
      BY <1>2 DEF InitLog, SerialUnknown, OpenSerial, ReadSerial
<1>3. CASE OpenGrcVideo \/ OpenGrcAudio \/ InitUvc \/ UvcFails
  <2>1. CASE OpenGrcVideo
        BY <2>1 DEF OpenGrcVideo
  <2>2. CASE OpenGrcAudio
        BY <2>2 DEF OpenGrcAudio
  <2>3. CASE InitUvc
        BY <2>3 DEF InitUvc
  <2>4. CASE UvcFails
        BY <2>4 DEF UvcFails
  <2> QED
      BY <1>3, <2>1, <2>2, <2>3, <2>4
<1>4. CASE LaunchVideo \/ LaunchAudio
      BY <1>4 DEF LaunchVideo, LaunchAudio, LaunchThread
<1>5. CASE LaunchFails \/ BootFails
      BY <1>5 DEF LaunchFails, BootFails, Fatal
\* The exit gives back all that can be open: what CoreInit opened, usb:ds, sm.
<1>6. CASE AppExit
  <2>1. held \subseteq {"sm", "log", "grcVideo", "grcAudio", "usb"}
        BY <1>6 DEF AppExit, TypeOK, Resources
  <2>2. coreInitialized
        BY <1>6 DEF AppExit
  <2>3. held' = {}
        BY <1>6, <2>1, <2>2 DEF AppExit, CoreOwned
  <2> QED
      BY <1>6, <2>3 DEF AppExit
<1>7. CASE UNCHANGED vars
      BY <1>7 DEF vars
<1> QED
    BY <1>1, <1>2, <1>3, <1>4, <1>5, <1>6, <1>7 DEF Next

LEMMA Invariance == Spec => []IInv
BY IInvInit, IInvStep, PTL DEF Spec

\* What the invariant says of a complete pipeline: no thread runs without the
\* services it uses, and main sleeps only when both do.
LEMMA WholeByIInv == IInv => NeverHalfStarted
BY DEF IInv, Stopped, Started, NeverHalfStarted, Before

\* A process that exits has given back every session, whichever calls were
\* refused (__appExit, CoreExit, CaptureFinalize); and its pipeline is whole.
THEOREM LifecycleSafe == Spec => [](ReleasedOnExit /\ NeverHalfStarted)
<1>1. IInv => ReleasedOnExit /\ NeverHalfStarted
      BY WholeByIInv DEF IInv
<1> QED
    BY Invariance, <1>1, PTL

=============================================================================
