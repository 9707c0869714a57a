SPECIFICATION Spec
CONSTANTS
    Threads = {video, audio}
    Video = video
    NoThread = none
    DataSizes = {4, 5, 344023, 344024}
    Interval = 5
PROPERTY EveryFifth
