----------------------------- MODULE MCSysDvrUvc -----------------------------
(***************************************************************************)
(* Requests for model-checking SysDvrUvc.                                  *)
(***************************************************************************)
EXTENDS SysDvrUvc

\* The commit, which starts the stream, and a request that is refused.
StreamRequests ==
    {[type |-> "class", to |-> "interface", iface |-> VS, entity |-> "none",
      cs |-> p[1], ask |-> p[2]] :
        p \in {<<"commit", "SET_CUR">>, <<"other", "GET">>}}

=============================================================================
