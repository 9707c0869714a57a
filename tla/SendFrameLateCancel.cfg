SPECIFICATION Spec
CONSTANTS
    FrameSizes = {510}
    BusPacket = 512
    FrameNumbers = 4
    Faults = {"lateCancel"}
INVARIANT NeverAsserts
