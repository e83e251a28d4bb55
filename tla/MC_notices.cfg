SPECIFICATION Spec
CONSTANTS
    s1 = s1
    s2 = s2
    u1 = u1
    u2 = u2
    y1 = y1
    None = None
    Streamer <- OneStreamer
    User <- TwoUsers
    Sync <- NoSync
    Subscribed <- NobodySubscribed
    MaxRegist = 2
    MaxBroadcast = 2
    MaxFaults = 1
    FaultKinds <- NoSignal
    LiveTitles <- TwoTitles
    AnswerFields <- PartialAnswer
SYMMETRY Users
INVARIANTS
    TypeOK
    AtMostOncePerBroadcast
    NoticeHasStreamer
    AtMostOneLateNotice
PROPERTIES
    ArmedOnlyWhenClosed
    KeepsPromise
