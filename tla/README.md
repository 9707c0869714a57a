# TLA+ models of SysDVR-UVC

SysDVR-UVC is a Nintendo Switch sysmodule that presents the console as a USB
Video Class camera. It reads H.264 frames from `grc:d`, the console's recorder,
and sends them over USB through `usb:ds`. It is small, and nearly everything
that makes it hard is protocol: `usb:ds` takes the whole console down when it is
used out of order, the host hides from the device that it stopped reading, and a
single bit separates one frame from the next.

This directory holds TLA+ models of it, TLC configurations that check them on
small instances, and TLAPS proofs of what matters most for every instance.

## 1. Inventory

| part | source | state it keeps | operations |
|---|---|---|---|
| bulk video path | `source/uvc/uvc_device.c:951-1074`, `458-481` | `g_uvcCtx.frameId`, `frameNumber`; the endpoint's URB and CompletionEvent | `UvcDeviceSendFrame` |
| grc:d capture | `source/capture.c`, `source/grcd.c` | `g_grcdBeginCalled` and its mutex, `g_injectSpsPps`, `g_idrCount`, the static buffers | `CaptureReadVideoFrame`, `CaptureReadAudioFrame`, `_ensureGrcdInit`, `CaptureSetInjectSPSPPS`, open and close |
| EP0 and connection | `source/uvc/uvc_device.c:1076-1455` | `g_uvcCtx.state`, `g_lastErrorCode`, probe and commit structures; SetupEvents and control URBs | `UvcDeviceProcessRequests` and the handlers below it |
| main loops | `source/sysmodule/main.c:62-173` | `g_running` | video thread: poll EP0, read, send; audio thread: idles |
| device setup and exit | `source/uvc/uvc_device.c:487-920` | interfaces, endpoint, `initialized` | `UvcDeviceInitialize`, `UvcDeviceExit` |
| lifecycle, core | `source/core.c`, `source/sysmodule/main.c:175-270` | log socket or file, serial number, `g_coreInitialized` | `CoreInit`, `CoreExit`, `LaunchThread`, `JoinThread`, `__appInit`, `__appExit`, `main` |
| UAC audio | `source/uvc/uvc_device.c:268-430`, `654-803`, `1461-1548` | `g_uacCtx` | dead code: `_setupAudioInterfaces5x` is never called |
| SPS patch tool | `tools/patch_sps_vui.py` | none | Exp-Golomb reader and writer, the patch |
| scripts, build | `tools/switch-cam.*`, `Makefile`, `*.json` | none | |

How they interact. One thread does all USB work: it calls
`UvcDeviceProcessRequests`, and while the state is STREAMING reads a frame
(blocking in `grc:d`) and sends it (blocking on the endpoint, at most 1.1 s per
transfer). The capture module is shared by that thread and the audio thread
through `_ensureGrcdInit`. `UvcDeviceSendFrame` depends on the EP0 part through
`state`, which a commit sets and a disconnection clears, and which the
connection code resets together with `frameId` and `frameNumber`.

What is hard, and what makes each part correct:

* **Bulk path.** A transfer is posted, completes or not, is cancelled and must be
  reaped before anything else is posted, while its completion may race with the
  timeout and with the cancel. The host recognises payloads by short packets
  and frames by FID and EOF, so a frame cut off anywhere must not damage later
  ones. Correct: nothing posted over an unreaped URB; TRUE means the whole frame
  went out; payloads stay delimited; attempts are told apart; every call returns.
* **Capture.** A lazy start by double-checked locking with an unsynchronised read,
  a recursive retry, and an in-place prefix in a full buffer. Correct: one Begin,
  bounded recursion, no overflow, decodable keyframes, no lost mutex.
* **EP0.** Control requests may be signalled twice, late or spuriously; each has
  a data and a status stage that can fail or time out. Correct: EP0 is touched
  only for a request that is pending, each request ends, device and host agree
  on streaming, the error code tells the truth.
* **Main loop.** One thread does three things in turn. What it does not see while
  it is in one of them (a host that left and came back, a commit, a request) must
  not crash the console, stop a stream for good or show a host the middle of a
  frame; grc:d blocks it for as long as no game runs.
* **Boot and set-up.** Any call may be refused. Correct: one consistent
  configuration at each speed, also after failed attempts, no session left open,
  threads only with everything they use. The way out through the end of `main`
  cannot be reached: nothing clears `g_running` before it.
* **SPS tool.** A bit-level parser and writer that must agree for every alignment
  and emulation byte, and its self-check with both.

PROJECT.json lists each hazard at its line.

## 2. Plan

1. `UvcSendFrame`, with `FrameTransfer` as its abstract specification and proofs
   of both. *Done.*
2. `GrcCapture` and its proofs. *Done.*
3. `UvcControl` and the proofs of its invariants. *Done.*
4. `SysDvrUvc`: composition of the three as the video thread runs them, with the
   host as one actor, and the proof that it implements `UvcSendFrame`, which
   carries the theorems about that module over. *Done.*
5. `UvcSetup`: `UvcDeviceInitialize` and `UvcDeviceExit` with every call failing
   in turn, and the proofs of its properties. *Done.*
6. `Lifecycle`: `__appInit`, `main`, `__appExit`, `CoreInit`. *Done*, with the
   proofs of both its invariants.
7. `SpsPatch`: the patch tool, step by step over bounded inputs. *Done*, with the
   proofs, for any input, of what its output is and that it accepts it itself.

Abstract specifications worth stating: `FrameTransfer` (done); a control
transfer as request and single answer for `UvcControl`; the once-only start for
`GrcCapture`.

## 3. Modules

### UvcSendFrame, FrameTransfer

The video thread inside `UvcDeviceSendFrame` is a program counter over the calls
that block or fail:

| `pc` | code | leaves by |
|---|---|---|
| `idle` | between calls | `SendFrame` (951-976) |
| `post` | `PostBufferAsync` of a payload (977-993) | `PostPayload`, `PostPayloadFails` |
| `wait` | `eventWait` 1 s (995, 1040) | `PayloadCompleted`, `PayloadReportFails`, `ZlpCompleted`, `Timeout` |
| `zlp` | post of the ZLP (1035-1039) | `PostZlp`, `PostZlpFails` |
| `cancel` | `usbDsEndpoint_Cancel` (1008, 1044) | `Cancel` |
| `reap` | `eventWait` 100 ms (1009, 1045) | `ReapCancelled`, `ReapTimeout` |
| `finish` | FID flip (1069-1073) | `Finish` |

`size`, `src`, `remaining`, `success` are the locals of the function;
the lengths are the code's (`MaxPayload` = 16372, header 2, modulus 512).
Payload contents are offsets into the frame. `frameNumber`, a u32, wraps at the
constant `FrameNumbers`; the code never puts it on the wire, and here it doubles
as the name of an attempt. `streamingMutex` is left out: only the video thread
takes it.

External, from how the code uses it: the endpoint holds one URB (`urb`), raises
`event` when it completes, and asserts (`asserted`, after which nothing happens)
when a buffer is posted while a report is unreaped. `HostRead`,
`CancelCompletes`, `CancelCompletesPartly` and `TransferError` complete it in the
ways a bulk transfer can; a read may still come while the URB is being
cancelled. The host's parser (`host`) is the one the comments describe: payloads
end with a short packet or ZLP, a payload joins the open frame if its FID is the
same, EOF closes the frame. `HostRestart` is a host closing and reopening the
stream without the device being told (RESEARCH.md section 3). `Unplug` and `Plug`
are the cable, at any moment: `configured` is what `usbDsGetState` would say, and
nothing can be posted without it. `PollDisconnected`, `Connect` and `Commit` are
the effect of `UvcDeviceProcessRequests` on what this module uses; they happen
between calls because the same thread makes them, so a call may well go on after
the host has left, or for the next one.

`received` is the prefix of the current frame that left the device. It is the
history variable behind `FrameTransfer`, the contract of `uvc_device.h:103-111`
in three actions: a frame goes out front to back and TRUE is returned only when
all of it did. `ImplementsTransfer` is the refinement.

`PayloadDelimited` is about a bus on which calls do not fail: a ZLP that cannot be
posted, or whose status is an error, goes unnoticed in the code (1037-1042).

The constant `Faults` names what may go wrong besides a host that stops reading,
so that each property is checked under the weakest assumption under which the
code has it:

* `"post"`, `"report"`, `"status"`: a call fails, or the URB's status does;
* `"lateCancel"`: a cancelled URB completes after the 100 ms given to it;
* `"partial"`: a cancelled URB had already sent its first packet.

### GrcCapture

Threads run `CaptureReadVideoFrame` / `CaptureReadAudioFrame`, whose blocking
point is `transfer`. `_ensureGrcdInit` is split at each access to shared state:
unlocked test (`FastPath`, `SlowPath`), `Lock`, recheck (`AlreadyCalled`,
`MarkCalled`), Begin, unlock. The unlocked read of a plain `bool` is a data race:
`MayReadClear` lets a thread that has not yet held the mutex read the old value
for as long as it likes. `depth` counts recursive calls. `inject`, `idrCount` and
the headroom test are the injection of SPS and PPS; `frame` is the frame
returned. `sinceInjected` is a history variable, saturating at `Interval`.
grc:d may answer NOT_INITIALIZED at any time, before and after Begin, fail, or
return data of any size in `DataSizes`. Audio is currently disabled in `main.c`,
but the mutex exists for two readers and the model has them.

### UvcControl, MCUvcControl

`UvcDeviceProcessRequests` as a program counter: `out` (outside, or polling),
`serve` and `fetch` (`_serviceSetup` per interface), `post` and `stage` (one of
`_ctrlInXfer`, `_ctrlOutXfer`), `stall`, `follow` (the 20 ms `waitMulti`).
A request is a record of what the handlers look at; `HandleSetupPacket` maps it
to an answer: ignore, stall, acknowledge, write or read, together with what the
handler does to `g_lastErrorCode`. The contents of the answers are constants in
the code and are left out, and so is `activeFormat`. `iface`, `setup` and
`stages` are the locals of the call chain.

External: `setupEvent` and `mail` are usb:ds's per-interface SetupEvent and
packet; `ctl` is the host's control transfer with the stages it has still to
see; `committed` and `outcome` are what the host knows; `outside` records that
EP0 was touched outside a request's window, which crashes the console. A stall
after the host has gone is not counted: no transfer is left to be inside or
outside of, and usb:ds is taken to refuse the call as it refuses a post. A host
runs one control transfer at a time and does not give one up by itself: the
host's own timeout (5 s on Linux) is longer than all stages together.

What may go wrong is named in `Faults`:

* `"double"`: a request is signalled on both interfaces;
* `"xfer"`: a stage does not go through or cannot be posted;
* `"report"`: a stage goes through and the device is told that it failed, since
  `GetCtrlIn/OutReportData` or `usbDsParseReportData` fails (1113-1120, 1136-1143);
* `"slow"`: a stage takes the host more than a second, so that the device may give
  up on one that goes through after all;
* `"fetch"`: `GetSetupPacket` fails although a packet is waiting (1343-1348; no stall);
* `"bounce"`: a reconnection between two polls.

A stage the host is not going to run always times out. A status stage is the last
the host sees: when the device takes one that went through for a failed one
(`"report"`, `"slow"`), its stall comes after the request is over, and a commit the
host saw succeed does not start the stream. `TouchesInsideWindow`,
`StreamingAgreement` and `StallIsExplained` therefore exclude both, and the run
`ControlUnreported` shows what they do to the first. `Unplug` may leave a completed
URB completed: the thread may set STREAMING for a host that has gone.

### UvcSetup

`UvcDeviceInitialize` makes some twenty-five calls of usb:ds and patches static descriptors
between them. `Script` is that sequence in the order of the code
(`_setupDescriptors5x` as the one call `describe`, since nothing it sets is used
again; then `_setupInterfaces5x`; then `usbDsEnable`), `step` the place in it, and
there is one action per kind of call: `Open`, `Describe`, `RegisterInterface`,
`NumberDescriptors`, `AppendConfigurationData`, `SetPacketSize`,
`RegisterEndpoint`, `EnableInterface`, `Enable`. `OpenFails`, `CallFails` and
`IncompatibleFirmware` are the ways out; `Exit` is `UvcDeviceExit`.

`desc` holds the fields of the static descriptors that are patched. They are not
reset by an exit or a failure, so the packet size a second attempt finds is the
1024 of the first one. `ctx` is the interface number behind the two interface
pointers, which a failure leaves dangling. External: `usb` is the usb:ds session,
which copies what is appended, numbers interfaces consecutively from a number
in `Bases`, and forgets everything at `usbDsExit`. The two functions are called
by one thread, as in `main.c`, where the exit is reached only before there are
other threads.

### Lifecycle

`main` is the next call of the main thread from `__appInit` to its sleep; `held`
the sessions that are open. Each call succeeds or is refused: `fatalThrow` and
`R_THROW` (`Fatal`) end everything, the failures the code shrugs off (log, serial
number, firmware version) go on, and `UvcDeviceInitialize` failing (`UvcFails`)
is the only way to `__appExit` (`AppExit`). An unknown firmware version counts as
an old one. The loop behind `running` (259-261) is never left and lines 263-269
with `JoinThread` are dead code, so there is no action for them.

### SysDvrUvc, MCSysDvrUvc

The whole sysmodule: `Lifecycle` until the threads run, then the video thread.
`at` is its place in the loop of `main.c:68-105` (`wait`, `poll`, `serve`,
`check`, `read`, `send`, `sending`), and the components are instances of their
modules that share `state` and `configured`: a step at `serve` is a step of
`UvcControl`, one at `read` of `GrcCapture`, one at `sending` of `UvcSendFrame`,
and the others are UNCHANGED. Three things are taken from the code and not from a
component: connecting resets the FID (`ResetFrames`), a poll without a host does
nothing, and the frame sent is the one just read. The host is one actor for both
pipes: it reads the bulk pipe from a commit on (`HostReads`), may stop and go on,
closes the stream without the device being told (`HostCloses`), leaves at any
moment (`Unplug`) and comes back (`Plug`): once the thread has noticed that it
left, or while the thread is away in a read or a send, so that the disconnection
is missed. Enumeration is taken to be longer than any other part of the loop.
Sleeps have no length. The audio thread only sleeps (`UacDeviceIsStreaming` is always false) and
has no actions.

### SpsPatch, MCSpsPatch

`stage` says whether the tool parses its input, parses its output (`verify`), is
`done` or has `failed`; each step reads one syntax element at bit `pos` and adds
what its value calls for to `todo` (`Expands`), unless the bytes end or an
assertion fails (`Raises`). `Syntax` and `VuiSyntax` are `parse_sps` in order,
`Asserted` its assertions, `Patch` the copy and the appended VUI, `Emit` the
emulation prevention bytes. `vuiFlagPos` is the position `parse_sps` returns, taken
where the flag is read. `Decode` is one call of `BitReader`: the value and the
position behind it, or none. The loops over bytes and bits are recursive functions,
one value for each round of the loop (`Stripping`, `Adding`, `Reading`, `Shifted`).
`MCSpsPatch` builds the inputs from field values
with an encoder that follows the standard's syntax, not the tool's parser.

## 4. Runs

All bounds are constants of the cfg files. `TypeOK` of each module is checked in
its first or (UvcControl) most permissive run. A `violation` run checks one
statement of the repository that the code does not keep.

| run | shows |
|---|---|
| `SendFrame` | `NeverAsserts`, `PayloadDelimited`, `SuccessEndsFrame`, `SendFrameReturns` with `"partial"` at 512-byte packets |
| `SendFrameFaults` | `AdjacentNeverMerge`, `SuccessMeansDelivered`, `ImplementsTransfer` with every fault at 1024-byte packets |
| `SendFrameMerge` | *violated:* a FID flip per attempt does not separate A from C when B was never read |
| `SendFrameLateCancel` | *violated:* the code posts over a URB it could not reap in 100 ms |
| `Capture` | `BeginAtMostOnce`, `RecursionBounded`, `FrameFits`, `KeyframesDecodable`, `ReadReturns` for two readers |
| `CaptureEveryFifth` | *violated:* `g_idrCount = 0` makes every keyframe the first one, so all are prefixed |
| `SysDvrUvc` | `ConsoleStaysUp`, `CommittedStreams`, `MidFrameNeverFirst`, `EP0Served`, `StreamFlows`, `ReleasedOnExit`, `NeverHalfStarted`, `ImplementsSendFrame` for the sysmodule as a whole |
| `SpsPatch` | `OnlyVuiAdded`, `OnlyVuiAppended`, `EmulationSafe`, `HandledIsPatched`, `SelfCheckPasses` for SPSs of every syntax branch and alignment |
| `Control` | `TouchesInsideWindow`, `StreamingAgreement`, `StallIsExplained` over all requests addressed to an interface, with `"double"`, `"xfer"` and `"fetch"` |
| `ControlFaults` | `RequestsAnswered` with every fault except `"fetch"`, which leaves a request unanswered |
| `ControlUnreported` | *violated:* a status stage that went through is stalled, because the device is told of it too late or not at all (`"slow"`, `"report"`: either is enough) |
| `Setup` | `ConfigurationConsistent`, `NothingLeftBehind`, `NothingAppendedLate` over initialisation, failure at any call, exit and initialisation again |

Why the bounds are enough.
`FrameSizes` = 510 (one payload, exactly one full packet, so a ZLP), 16372 (one
maximal payload), 16882 (a maximal payload, then 512 bytes and a ZLP at the end),
32744 (two maximal payloads) and 33000 (three payloads): each combination of first, inner and last chunk with
and without a ZLP. No inner payload can end on a packet boundary, since a full
one has 16374 bytes. `FrameNumbers` = 4 is the smallest even wrap at which an
attempt, the next and the one after next differ. Two threads are enough for
`_ensureGrcdInit`, which tells only the first to lock from the others; the
`DataSizes` are the size tests' two sides (4 and 5; 344023 leaves exactly the
prefix's room, 344024 one byte less). `Interval` = 5 is one more than what
`EveryFifth` asks. `InterfaceRequests` has every request the handlers tell apart
with one stand-in for each kind of entity; `NegotiationRequests` has one per way of
answering, because under all faults at once the number of requests only
multiplies states that behave alike.

`Bases` = {0, 2}: the first interface of a session gets number 0, as the code expects
(571), or another one, which the code copes with; attempts repeat without bound,
because the state they leave is finite.

`SysDvrUvc`: two frame sizes, one payload with and two payloads without a ZLP;
the commit as the request that matters and one that is refused; a wrap of 2, with
which the FID alone tells attempts apart; `Interval` 1, since the injection is
`Capture`'s subject. A cancelled URB may have sent its
first packet (`"partial"`); otherwise calls on the bulk pipe fail there only because
the host is gone. Stages of EP0 fail to go through at any moment (`"xfer"`), but
every one that goes through is reported, and in time: `"report"`, `"slow"` and
`"fetch"` are `UvcControl`'s subject, and with the first two `ConsoleStaysUp`,
`CommittedStreams` and `StreamFlows` do not hold. A log that does not open only leaves
its name out of `held`, so it always opens there. `SpsPatch`: the values
of `log2_max_frame_num` and `frame_mbs_only_flag` give all eight alignments of
the VUI, each with every order count type, cropped or not; an offset above 2^20
puts emulation bytes into the input; the appended fields put them into every
output, for some alignments before a byte that is 3.

Deadlock is checked everywhere except in `SendFrameFaults`, where the console
really stops once usb:ds asserts, and `SysDvrUvc`, which stops after a fatal
error and after `__appExit`.

Fairness. `UvcSendFrame`: the thread (its waits have timeouts, 995, 1009, 1040,
1045) and the completion of a URB usb:ds was asked to cancel. Nothing makes the
host read. `GrcCapture`: every reader, including grc:d's answer: `ReadReturns`
holds while a game runs; without one the code blocks by design (`grcd.h:17`).
`UvcControl`: the thread, which calls `UvcDeviceProcessRequests` for ever, and
the host's own next stage once the device has posted it (with `"slow"` the device
may give up first). `SysDvrUvc`: the main
thread, the video thread except where it waits for grc:d, the host's own stages,
and the completion of what was cancelled. grc:d's answers and the host's reads
are premises of the properties that need them: `EP0Served` has grc:d answer each
read, `StreamFlows` has it deliver frames and the host keep its stream open and
read before a timeout is over.

## 5. Proofs

Every safety property a passing run checks is also a theorem, for all values of
the constants the assumptions admit, except two that speak of the inputs of
`MCSpsPatch`. The assumptions: frames of more than 4 bytes, as `CaptureReadVideoFrame` guarantees,
packets of 512 or 1024 and an even wrap, as 2^32 is (`UvcSendFrame`); two
distinct interfaces and requests of the kinds the handlers tell apart
(`UvcControl`), data no larger than the buffer (`GrcCapture`), interface numbers
that are numbers (`UvcSetup`): each module's `ConstantsAssumption`; and inputs that
are bytes (`SpsPatch`, `InputsAssumption`). `ComponentsAssumption` says that `SysDvrUvc` gives each of
its components what that component assumes. A theorem with hypotheses on
`Faults` names them below; where a hypothesis is left out a `violation` run or the
code shows why it cannot be.

A lemma about a step never mentions `Spec`, so that the proofs about the
composition can cite it for a component.

**The bulk path** (`UvcSendFrameProofs`, `UvcSendFrameParserProofs`).

* `TypeCorrect`: `TypeOK` is inductive; `ChunkFits` bounds a chunk and its header
  below 16 KB.
* `NoConsoleCrash`: if `"report"` and `"lateCancel"` do not happen,
  `NeverAsserts`. Strengthening: wherever the thread may post or leave, the
  endpoint's slot is reaped (`Reaped`). Both assumptions are needed: the
  `SendFrameLateCancel` run breaks it without the second, and a failing
  `GetReportData` leaves the loop at 1021 with the URB unreaped (section 6).
* `AdjacentFramesNeverMerge`, without assumption on faults. Strengthening: the FID
  of the device, of the URB and of the host's open frame are the parities of
  the attempts they belong to; an even wrap keeps that.
* `SuccessIsDelivery` and `TransferRefined`, without assumption on faults.
  Strengthening (`Progress`): `src + remaining = size`, what the host has is
  between `src` and the end of the payload in flight, and is at that end once
  the URB is complete; a URB left over from an earlier call (`live` is FALSE)
  never counts.
* `SentFrameCloses`, without assumption on faults, and `BoundariesVisible`, if
  `"post"` and `"status"` do not happen (the ZLP is fire and forget, 1037-1042).
  Strengthening: `Slot` says what the endpoint may hold from an earlier call,
  `Boundary` that the parser is at a boundary before every payload but the first,
  `Closing` that the last payload, once parsed, has closed the host's frame. It
  rests on `FullNeedsZlp`: the code's test for 512-byte packets covers 1024 too,
  and no inner payload is a multiple of either.

**Capture** (`GrcCaptureProofs`), for any set of readers: one invariant `IInv`
gives `TypeCorrect`, `BeginOnce`, `OneRecursion` and `PrefixFits`. Its core: only
the owner of the mutex is between `Lock` and unlock; while it is before
`MarkCalled`, or the flag is clear, no Begin has happened; a thread inside a
recursive call has seen the flag set under the mutex, so its own second test of
the flag cannot read the old value. `DecodableKeyframes` adds `NeverCounts`:
`g_idrCount` is 0 between frames for ever, which is why every keyframe gets its
parameter sets (and what `CaptureEveryFifth` objects to).

**EP0** (`UvcControlProofs`). `TypeCorrect` holds with every fault. The others assume
`Punctual`: the device is told of every stage that goes through
(`StagesReported`), within the time it waits and without losing the report
(`ControlUnreported` shows the crash otherwise); no reconnection goes
unnoticed by a poll (in `SysDvrUvc` it may happen while the thread is away, which
is proved there); and only requests addressed to an interface are signalled
twice (section 6). Stages may fail to go through and packets fail to be fetched.

* `OnlyInsideWindow`, from `WindowInv`: a packet at its own interface is the one the
  host still waits on, with all its stages (`Waiting`); the other copy of a
  doubled one is recognised by its interface; a handler works on the request of
  the transfer and the stages still due are the host's (`Handling`).
* `StreamAgreed`: the device streams, or is in the last step of a commit whose
  answer the host has already seen (`Late`), exactly when the host knows its
  commit succeeded. That the thread gets from there to STREAMING (`LateStep`) is
  what needs the report of the status stage.
* `RefusalsExplained`: as long as the host has not made another class request, the
  code is that of the refusal; a request just ended was not refused (`Explained`).

**Set-up** (`UvcSetupProofs`), for any number usb:ds gives the first interface. `IInv`
says that an attempt which has made its first calls has a session that is a
function of how many (`Session(n, base)`), whatever earlier attempts left in the
static descriptors. The script is a concatenation, so `ScriptCalls` and `CallAt`
first say which call is made where, and the lemmas `Session...` what one call
adds. `TypeCorrect`, `NothingStays`, `OneConsistentFunction` and
`AppendsPrecedeEnable` are read off it.

**Boot and exit** (`LifecycleProofs`), for any two threads and any log:
`LifecycleSafe`. The invariant `IInv` says which sessions are open at each place of
the main thread, at least (`Opened`) and at most (`NotYetOpened`), and which
threads run (`Started`). A fatal error may strike at any place, so that threads
have what they use is a conjunct of its own (`Stopped`).

**The sysmodule** (`SysDvrUvcProofs`). `IInv` is `Loop`, what the thread's place in the
loop says of the components (it is inside one at a time; a call to send is made
only while streaming; a pipe in use has a host), and `Parts`, the invariants of
the components. The step lemmas show that every step of the composition is a
step of each component or leaves its state alone.

* `TypeCorrect`, `AllReleased`, `PipelineWhole` follow.
* `LoopImplementsSendFrame`, without assumption on faults: connecting, committing and
  disconnecting happen between two calls of `UvcDeviceSendFrame` only, so all that
  is proved of it alone holds in the loop.
* `NoCrash`, if no stage of EP0 and no cancelled URB is reported late, and no
  report is lost on either pipe (`ControlInTime`, `UsbDsInTime`);
  `CommittedHostIsServed`, if no stage of EP0 is reported late or not at all. The
  host may leave at any moment and return once a poll has noticed it or, with
  `"bounce"`, while the thread is away in a read or a send.
* `NeverMidFrameFirst`, if no cancelled URB is late and no report is lost: for a
  host that has read nothing since its commit, what the pipe holds is the head
  of a frame (`Unread`).

**The SPS tool** (`SpsPatchProofs`), for any set of NAL units. Its loops are recursive
functions, and what they compute for every input takes induction. The library's
induction theorems take an operator as a parameter, which the provers cannot
instantiate; `Induction` states the principle about a set instead (one that has 0
and every successor has every natural number) and follows from
`NatLessThanWellFounded` and `WFMin`. For each loop a lemma shows that a function with
its recursive equation exists (`ReadingExists`, `StrippingExists`, `AddingExists`,
and within `ShiftedSteps`), which is what makes the definition an equation;
`ReadingSteps` and its like state that equation. On them rest `EmulationRoundTrip`
(`strip_emulation` undoes `add_emulation`), `AddedIsSafe`, `NumberOfU` and `NumberFits`
(a number reads as it was written), `ToBytesType` (what `tobytes` packs the reader
unpacks) and `DecodeUE` (an Exp-Golomb code reads as it was written).

* `Typed` and `OutputIsSafe`, from `TypeInv`. `TypeOK` alone is not inductive:
  `ue(max_num_ref_frames)` must be one the writer can write, which holds because the
  tool has read it as such a code, and an SPS cannot be through without that
  field, since it is either still in `todo` or already in `fields`.
* `EmitsTheSameWithVui`, from `FlagInv`: the flag is the last element of the first
  parse and is read once, so that `pos` behind it is `vuiFlagPos + 1`; from `Patch`
  on the flag of the input is clear and `rbsp` is what `Patched` writes from it.
* `NeverRefusesItsOwn`, from `CheckInv`. That the second parse succeeds is a matter of
  how the first one went, which the state does not keep: `CheckInv` says that there
  is a trace of it (`Trace`: the position and what was still to be read after each
  field). The second parse is where the first one was with as many fields
  (`Copying`), since the bits are the same up to the flag and no element in front
  of it reaches behind it; or it is behind the flag and `j` elements of the VUI
  (`InVui`), where `VuiLayout` says which code stands at which bit. `SelfCheckHolds`
  is then the end of both.

All three were checked with TLC on the inputs of the `SpsPatch` run before they were
proved, the third with the trace recomputed from `fields`. What the proofs asked of the
model: recursive functions in the place of folds, `vuiFlagPos` as a variable, and in
`Raises` three disjuncts instead of a CASE whose branches overlapped; its steps on
those inputs stayed the same.

Only model-checked: liveness (`SendFrameReturns`, `ReadReturns`,
`RequestsAnswered`, `EP0Served`, `StreamFlows`), since liveness under fairness
and ENABLED are out of the prover's reach; and `OnlyVuiAdded` and
`HandledIsPatched`, which compare the tool with the encoder of `MCSpsPatch` on the
inputs built there. The first says of those what `OnlyVuiAppended` says of any, with
the bits from the encoder in the place of those the tool has read; the second
that the first parse takes what it should, which an SPS from anywhere need not be.

## 6. Not modelled

UAC audio is dead code. Descriptor contents, probe and commit contents, log and
serial number formatting, and the PTS are data no property here is about. The
scripts and build files have no state.

Known divergences that no run shows:

* `_handleSetupPacket` only compares the interface of requests whose recipient is
  an interface (`uvc_device.c:1360`); any other request, if usb:ds signalled it
  on both interfaces, would be stalled by both handlers. `InterfaceRequests`
  leaves those out.
* A class request stalled because a stage failed leaves an old error code or none,
  while `uvc_device.c:1091-1092` promises the reason after any stall.
  `StallIsExplained` is about refusals.
* When the report of a commit's status stage is late or lost, the host has seen its
  commit succeed and waits for a stream the device does not start (1251, 1266). No
  line of the repository says what should happen then.
* A request whose packet `GetSetupPacket` does not hand over is neither answered nor
  stalled (1345-1348), against "On any failure, StallCtrl" (1088); a stall without
  the packet would break the rule about the window (1081) instead.
* A `GetReportData` that fails (1018-1022) leaves its URB unreaped and the next call
  posts over it, against "never re-post over an unreaped URB" (RESEARCH.md:56-58):
  `NeverAsserts` fails with `Faults` = {"report"} as it does in
  `SendFrameLateCancel`, which shows the rule broken at line 1009.
* `patch_sps_vui.py` refuses its own input: bit 71 of `ORIG_SPS_NAL`, the VUI flag,
  is set, so the assertion of line 181 fails, against the "NO VUI" of line 4.
  `OwnInput` is among the inputs of the `SpsPatch` run. `capture.c:39` says that the
  SPS of the sysmodule was "generated and field-verified" by this tool, and
  `capture.c:31` that it extends a VUI that was there: whatever produced it was not
  the tool as committed, and what the `SpsPatch` run and the proofs say of the tool
  does not carry over to those bytes.
