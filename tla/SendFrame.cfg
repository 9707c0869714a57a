SPECIFICATION FairSpec
CONSTANTS
    FrameSizes = {510, 16372, 16882, 32744, 33000}
    BusPacket = 512
    FrameNumbers = 4
    Faults = {"partial"}
INVARIANT TypeOK NeverAsserts PayloadDelimited SuccessEndsFrame
PROPERTY SendFrameReturns
