SPECIFICATION Spec
CONSTANTS
    FrameSizes = {510, 16372, 16882, 33000}
    BusPacket = 1024
    FrameNumbers = 4
    Faults = {"post", "report", "status", "lateCancel", "partial"}
INVARIANT AdjacentNeverMerge SuccessMeansDelivered
PROPERTY ImplementsTransfer
CHECK_DEADLOCK FALSE
