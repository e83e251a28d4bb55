SPECIFICATION ProcessSpec
CONSTANTS
    h1 = h1
    h2 = h2
    Main = Main
    Mysql = Mysql
    None = None
    Thread <- OneHandler
    Fd <- TwoDescriptors
    Garbage <- NoGarbage
    MaxNotice = 1
    FaultKinds <- NoFaults
INVARIANTS
    OnlyASignalStopsTheBot
CHECK_DEADLOCK FALSE
