SPECIFICATION FairSpec
CONSTANTS
    s1 = s1
    s2 = s2
    u1 = u1
    u2 = u2
    y1 = y1
    None = None
    Streamer <- OneStreamer
    User <- OneUser
    Sync <- OneSync
    Subscribed <- OneSubscribed
    MaxRegist = 0
    MaxBroadcast = 2
    MaxFaults = 2
    FaultKinds <- AllFaults
    LiveTitles <- OneTitle
    AnswerFields <- FullAnswer
INVARIANTS
    RecordedStatusWasReal
PROPERTIES
    KeepsPromise
    StatusConverges
