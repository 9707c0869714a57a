SPECIFICATION FairSpec
CONSTANTS
    VC = vc
    VS = vs
    NoRequest = none
    Requests <- StreamRequests
    ControlFaults = {"xfer", "bounce"}
    BusPacket = 512
    FrameNumbers = 2
    SendFaults = {"partial"}
    Video = video
    Audio = audio
    NoThread = none
    DataSizes = {469, 16882}
    Interval = 1
    LogOpens = {TRUE}
INVARIANT TypeOK ConsoleStaysUp CommittedStreams ReleasedOnExit NeverHalfStarted
PROPERTY MidFrameNeverFirst ImplementsSendFrame EP0Served StreamFlows
CHECK_DEADLOCK FALSE
