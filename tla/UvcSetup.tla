------------------------------ MODULE UvcSetup ------------------------------
(***************************************************************************)
(* UvcDeviceInitialize and UvcDeviceExit (source/uvc/uvc_device.c): the    *)
(* device is described to usb:ds call by call, any of which may fail. The  *)
(* descriptors it appends are static and patched on the way (interface     *)
(* numbers, endpoint address, packet size of the speed), so they keep what *)
(* an earlier attempt wrote.                                               *)
(*                                                                         *)
(* External: usb:ds copies what is appended, cannot take it back short of  *)
(* usbDsExit, and numbers the interfaces of a session consecutively. One   *)
(* thread calls both functions. Constant descriptor contents are left out. *)
(***************************************************************************)
EXTENDS Integers, Sequences, FiniteSets

CONSTANTS
    VC, VS,         \* controlInterface, streamingInterface
    Null,           \* no interface, no endpoint
    Bases           \* numbers the first interface of a session may get

ASSUME ConstantsAssumption == VC # VS /\ Bases \subseteq Nat /\ Null \notin Nat

Interfaces == {VC, VS}
Speeds == {"high", "super"}

VARIABLES
    pc,             \* "out", or "init" inside UvcDeviceInitialize
    step,           \* the next call of UvcDeviceInitialize, outside: 0
    result,         \* what the last call of UvcDeviceInitialize returned
    initialized,    \* g_uvcCtx.initialized
    ctx,            \* interface -> interface_index behind its pointer, or Null
    desc,           \* the fields of the static descriptors that are patched
    usb,            \* the usb:ds session
    hos5            \* hosversionAtLeast(5, 0, 0)

vars == <<pc, step, result, initialized, ctx, desc, usb, hos5>>

\* number of VC in the IAD and its own descriptor, of VS in its own and in
\* VC's header, the video endpoint's address (its own and VS's input header's)
\* and packet size.
StaticDescriptors ==
    [iad |-> 0, vc |-> 0, vcHeader |-> 1, vs |-> 1,
     address |-> 1, vsHeader |-> 1, packet |-> 512]

NoSession ==
    [open |-> FALSE, base |-> 0, registered |-> {}, enabled |-> {},
     data |-> [i \in Interfaces |-> [s \in Speeds |-> << >>]],
     endpoint |-> Null, on |-> FALSE]

Init ==
    /\ pc = "out" /\ step = 0 /\ result = "none" /\ initialized = FALSE
    /\ ctx = [i \in Interfaces |-> Null]
    /\ desc = StaticDescriptors /\ usb = NoSession /\ hos5 \in BOOLEAN

-----------------------------------------------------------------------------
(***************************************************************************)
(* The calls and assignments of UvcDeviceInitialize in their order.        *)
(***************************************************************************)
AppendAll(i, speed, kinds) ==
    [k \in DOMAIN kinds |->
        [do |-> "append", iface |-> i, speed |-> speed, kind |-> kinds[k]]]
On(i, what) == [do |-> what, iface |-> i, speed |-> "high", kind |-> "none"]
Packet(speed) ==
    [do |-> "packet", iface |-> VS, speed |-> speed, kind |-> "none"]

VcCalls ==
    AppendAll(VC, "high",  <<"iad", "vc", "vcHeader">>) \o
    AppendAll(VC, "super", <<"iad", "vc", "vcHeader">>) \o
    <<On(VC, "enableInterface")>>

VsData ==
    AppendAll(VS, "high",  <<"vs", "vsHeader">>) \o <<Packet("high")>> \o
    AppendAll(VS, "high",  <<"endpoint">>) \o
    AppendAll(VS, "super", <<"vs", "vsHeader">>) \o <<Packet("super")>> \o
    AppendAll(VS, "super", <<"endpoint", "companion">>)

\* Mutant: the interface is enabled before its descriptors are complete.
VsEnabledFirst ==
    <<On(VS, "registerEndpoint"), On(VS, "enableInterface")>> \o VsData
VsCalls == VsData \o <<On(VS, "registerEndpoint"), On(VS, "enableInterface")>>

\* _setupDescriptors5x, _setupInterfaces5x, usbDsEnable.
Script ==
    <<On(VC, "open"), On(VC, "describe"), On(VC, "register"), On(VS, "register"),
      On(VC, "number")>> \o VcCalls \o VsCalls \o <<On(VC, "enable")>>

At(what) == pc = "init" /\ Script[step].do = what
Current == Script[step]
Proceed == step' = step + 1 /\ UNCHANGED <<pc, result, initialized, hos5>>
Returns(value) ==
    pc' = "out" /\ step' = 0 /\ result' = value /\ UNCHANGED hos5

Initialize ==
    /\ pc = "out" /\ ~initialized
    /\ pc' = "init" /\ step' = 1
    /\ ctx' = [i \in Interfaces |-> Null]
    /\ UNCHANGED <<result, initialized, desc, usb, hos5>>

InitializeAgain ==
    /\ pc = "out" /\ initialized
    /\ Returns("alreadyInitialized")
    /\ UNCHANGED <<initialized, ctx, desc, usb>>

\* usbDsInitialize.
Open ==
    /\ At("open")
    /\ \E n \in Bases : usb' = [NoSession EXCEPT !.open = TRUE, !.base = n]
    /\ Proceed /\ UNCHANGED <<ctx, desc>>

\* Strings, device descriptors, BOS: nothing that is used again.
Describe ==
    /\ At("describe") /\ hos5
    /\ Proceed /\ UNCHANGED <<ctx, desc, usb>>

\* The interface gets the next number of the session.
RegisterInterface ==
    /\ At("register")
    /\ ctx' = [ctx EXCEPT ![Current.iface] =
                 usb.base + Cardinality(usb.registered)]
    /\ usb' = [usb EXCEPT !.registered = @ \union {Current.iface}]
    /\ Proceed /\ UNCHANGED desc

\* Interface number to endpoint number, which may not be 0.
AddressFor(n) == n + 1

NumberDescriptors ==
    /\ At("number")
    /\ desc' = [desc EXCEPT !.iad = ctx[VC], !.vc = ctx[VC],
                            !.vcHeader = ctx[VS], !.vs = ctx[VS],
                            !.address = AddressFor(ctx[VS]),
                            !.vsHeader = AddressFor(ctx[VS])]
    /\ Proceed /\ UNCHANGED <<ctx, usb>>

\* Mutant: 512, the static value, is not assigned again.
SetOnlySuper(speed) == IF speed = "super" THEN 1024 ELSE desc.packet
\* Mutant: full speed's packet size.
FullSpeedSize(speed) == IF speed = "super" THEN 1024 ELSE 64
PacketSizeOf(speed) == IF speed = "super" THEN 1024 ELSE 512

SetPacketSize ==
    /\ At("packet")
    /\ desc' = [desc EXCEPT !.packet = PacketSizeOf(Current.speed)]
    /\ Proceed /\ UNCHANGED <<ctx, usb>>

\* What usb:ds copies of a descriptor of the given kind.
Copy(kind) ==
    CASE kind = "endpoint"  -> <<kind, desc.address, desc.packet>>
      [] kind = "companion" -> <<kind>>
      [] OTHER              -> <<kind, desc[kind]>>

AppendConfigurationData ==
    /\ At("append")
    /\ LET c == Current
       IN usb' = [usb EXCEPT !.data[c.iface][c.speed] = @ \o <<Copy(c.kind)>>]
    /\ Proceed /\ UNCHANGED <<ctx, desc>>

RegisterEndpoint ==
    /\ At("registerEndpoint")
    /\ usb' = [usb EXCEPT !.endpoint = desc.address]
    /\ Proceed /\ UNCHANGED <<ctx, desc>>

EnableInterface ==
    /\ At("enableInterface")
    /\ usb' = [usb EXCEPT !.enabled = @ \union {Current.iface}]
    /\ Proceed /\ UNCHANGED <<ctx, desc>>

\* usbDsEnable, and the end of UvcDeviceInitialize.
Enable ==
    /\ At("enable")
    /\ usb' = [usb EXCEPT !.on = TRUE]
    /\ initialized' = TRUE /\ Returns("ok")
    /\ UNCHANGED <<ctx, desc>>

\* usbDsInitialize fails: there is nothing to clean up.
OpenFails ==
    /\ At("open")
    /\ Returns("failed")
    /\ UNCHANGED <<initialized, ctx, desc, usb>>

\* Mutant: the cleanup is left out.
ReturnsAtOnce(why) ==
    /\ Returns(why)
    /\ UNCHANGED <<initialized, ctx, desc, usb>>

\* goto cleanup.
CleanUp(why) ==
    /\ usb' = NoSession
    /\ Returns(why)
    /\ UNCHANGED <<initialized, ctx, desc>>

\* Any later call of usb:ds fails; the assignments cannot.
CallFails ==
    /\ pc = "init" /\ hos5 /\ Current.do \notin {"open", "number", "packet"}
    /\ CleanUp("failed")

\* Firmware older than 5.0 is noticed once usb:ds is open.
IncompatibleFirmware ==
    /\ At("describe") /\ ~hos5
    /\ CleanUp("incompatible")

\* The endpoint's pointer is left, the interfaces' are closed and cleared.
Exit ==
    /\ pc = "out" /\ initialized
    /\ ctx' = [i \in Interfaces |-> Null]
    /\ usb' = NoSession /\ initialized' = FALSE
    /\ UNCHANGED <<pc, step, result, desc, hos5>>

Next ==
    \/ Initialize \/ InitializeAgain \/ Exit
    \/ Open \/ OpenFails \/ Describe \/ IncompatibleFirmware
    \/ RegisterInterface \/ NumberDescriptors \/ AppendConfigurationData
    \/ SetPacketSize \/ RegisterEndpoint \/ EnableInterface \/ Enable \/ CallFails

Spec == Init /\ [][Next]_vars

-----------------------------------------------------------------------------
(***************************************************************************)
(* Properties.                                                             *)
(***************************************************************************)
\* The type invariant: an IN endpoint's number is never 0, which is EP0's.
TypeOK ==
    /\ pc \in {"out", "init"} /\ step \in 0 .. Len(Script)
    /\ result \in {"none", "ok", "failed", "incompatible", "alreadyInitialized"}
    /\ initialized \in BOOLEAN
    /\ ctx \in [Interfaces -> Nat \union {Null}]
    /\ DOMAIN desc = DOMAIN StaticDescriptors
    /\ \A field \in {"iad", "vc", "vcHeader", "vs"} : desc[field] \in Nat
    /\ desc.address \in Nat \ {0} /\ desc.vsHeader \in Nat \ {0}
    /\ desc.packet \in {512, 1024}
    /\ hos5 \in BOOLEAN /\ usb.open \in BOOLEAN /\ usb.on \in BOOLEAN
    /\ usb.registered \subseteq Interfaces /\ usb.enabled \subseteq usb.registered

\* The configuration the host reads at the given speed.
Configuration(speed) == usb.data[VC][speed] \o usb.data[VS][speed]

\* Once the device is on the bus, and whatever earlier attempts failed or
\* succeeded, the host reads one consistent function at each speed: IAD, VC
\* and VS with the numbers usb:ds gave them, VS right after VC as the IAD says,
\* one endpoint that is the registered one, with the packet size of the speed
\* (uvc_device.c:567-645).
ConfigurationConsistent ==
    usb.on =>
        /\ ctx[VS] = ctx[VC] + 1 /\ usb.endpoint = ctx[VS] + 1
        /\ usb.enabled = Interfaces
        /\ \A speed \in Speeds :
             Configuration(speed) =
                 <<<<"iad", ctx[VC]>>, <<"vc", ctx[VC]>>, <<"vcHeader", ctx[VS]>>,
                   <<"vs", ctx[VS]>>, <<"vsHeader", usb.endpoint>>,
                   <<"endpoint", usb.endpoint,
                     IF speed = "super" THEN 1024 ELSE 512>>>>
                 \o (IF speed = "super" THEN <<<<"companion">>>> ELSE << >>)

\* Outside a call the session is open exactly when the device is initialised:
\* an attempt that failed anywhere can be repeated and leaves the bus alone.
NothingLeftBehind == pc = "out" => (usb.open <=> initialized)

\* "Anything risky must happen before the first append" (docs/RESEARCH.md
\* section 6): nothing is added to an interface that has been enabled, nor
\* to any once the device is on the bus, because it cannot be taken back.
NothingAppendedLate ==
    [][\A i \in Interfaces :
          usb'.data[i] # usb.data[i] /\ usb'.open =>
              i \notin usb.enabled /\ ~usb.on]_vars

=============================================================================
