SPECIFICATION FairSpec
CONSTANTS
    VC = vc
    VS = vs
    NoRequest = none
    Requests <- NegotiationRequests
    Faults = {"double", "xfer", "report", "slow", "bounce"}
INVARIANT TypeOK
PROPERTY RequestsAnswered
