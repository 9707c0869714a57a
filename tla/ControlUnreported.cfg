SPECIFICATION Spec
CONSTANTS
    VC = vc
    VS = vs
    NoRequest = none
    Requests <- NegotiationRequests
    Faults = {"slow", "report"}
INVARIANT TouchesInsideWindow
