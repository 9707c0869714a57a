SPECIFICATION FairSpec
CONSTANTS
    Threads = {video, audio}
    Video = video
    NoThread = none
    DataSizes = {4, 5, 344023, 344024}
    Interval = 5
INVARIANT TypeOK BeginAtMostOnce RecursionBounded FrameFits
PROPERTY KeyframesDecodable ReadReturns
