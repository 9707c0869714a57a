SPECIFICATION Spec
CONSTANTS
    VC = vc
    VS = vs
    NoRequest = none
    Requests <- InterfaceRequests
    Faults = {"double", "xfer", "fetch"}
INVARIANT TouchesInsideWindow StreamingAgreement StallIsExplained
