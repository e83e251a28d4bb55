SPECIFICATION FairSpec
CONSTANTS
    s1 = s1
    s2 = s2
    u1 = u1
    u2 = u2
    y1 = y1
    None = None
    Streamer <- TwoStreamers
    User <- TwoUsers
    Sync <- NoSync
    Subscribed <- CrossSubscribed
    MaxRegist = 0
    MaxBroadcast = 1
    MaxFaults = 1
    FaultKinds <- HttpOnly
    LiveTitles <- OneTitle
    AnswerFields <- FullAnswer
PROPERTIES
    SubscribersNotified
