SPECIFICATION Spec
CONSTANTS
    s1 = s1
    s2 = s2
    u1 = u1
    u2 = u2
    y1 = y1
    None = None
    Streamer <- OneStreamer
    User <- OneUser
    Sync <- NoSync
    Subscribed <- OneSubscribed
    MaxRegist = 0
    MaxBroadcast = 2
    MaxFaults = 0
    FaultKinds <- NoFaults
    LiveTitles <- OneTitle
    AnswerFields <- FullAnswer
INVARIANTS
    ClosedChannelIsArmed
