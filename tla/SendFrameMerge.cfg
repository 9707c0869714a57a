SPECIFICATION Spec
CONSTANTS
    FrameSizes = {510, 33000}
    BusPacket = 512
    FrameNumbers = 4
    Faults = {}
INVARIANT NeverMerge
