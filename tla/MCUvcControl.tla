---------------------------- MODULE MCUvcControl ----------------------------
(***************************************************************************)
(* Request sets for model-checking UvcControl.                             *)
(***************************************************************************)
EXTENDS UvcControl

\* Everything addressed to one of the two interfaces. The handlers look at
\* nothing but the entity of a request that has one: those stand for all.
InterfaceRequests ==
    {r \in AllRequests \ DeviceRequests :
        r.entity # "none" => r.cs = "errorCode" /\ r.ask = "GET_CUR"}

\* One request per way of answering: a write, the two reads of the
\* negotiation, a stall, and a write on the other interface.
NegotiationRequests ==
    {r \in VsRequests :
        \/ r.cs = "probe" /\ r.ask \in {"GET", "SET_CUR"}
        \/ r.cs = "commit" /\ r.ask = "SET_CUR"
        \/ r.cs = "other" /\ r.ask = "GET"}
    \union {r \in VcRequests :
        r.entity = "none" /\ r.cs = "errorCode" /\ r.ask = "GET_CUR"}

=============================================================================
