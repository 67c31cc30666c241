SPECIFICATION FairSpec

CONSTANTS
    MaxRuns = 2
    MaxCancels = 1
    MaxStreams = 3
    MaxExtras = 1
    QueueSize = 2

CHECK_DEADLOCK FALSE

INVARIANTS
    OneJob
    ReplayIsCurrent
    EveryStreamTold
    WindowAgrees

PROPERTIES
    WindowLearns
