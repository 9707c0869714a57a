---------------------------- MODULE FrameTransfer ----------------------------
(***************************************************************************)
(* What UvcDeviceSendFrame (source/uvc/uvc_device.h:103-111) promises its  *)
(* caller, without URBs, events or payloads: one frame at a time goes out  *)
(* front to back, and the call returns TRUE ("successfully sent") only     *)
(* when all of it did. How much of a refused frame went out is not said.   *)
(***************************************************************************)
EXTENDS Integers

VARIABLES
    busy,       \* a call is in progress
    size,       \* length of the frame
    delivered,  \* length of the prefix that has left the device
    ok          \* the last call returned TRUE

vars == <<busy, size, delivered, ok>>

Init == busy = FALSE /\ size = 0 /\ delivered = 0 /\ ok = FALSE

Call ==
    /\ ~busy /\ busy' = TRUE
    /\ size' \in Nat /\ delivered' = 0 /\ ok' = FALSE

Deliver ==
    /\ busy
    /\ delivered' \in (delivered + 1) .. size
    /\ UNCHANGED <<busy, size, ok>>

Return ==
    /\ busy /\ busy' = FALSE
    /\ ok' \in BOOLEAN /\ (ok' => delivered = size)
    /\ UNCHANGED <<size, delivered>>

Next == Call \/ Deliver \/ Return

Spec == Init /\ [][Next]_vars

=============================================================================
