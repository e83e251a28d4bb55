SPECIFICATION ProcessSpec
CONSTANTS
    h1 = h1
    h2 = h2
    Main = Main
    Mysql = Mysql
    None = None
    Thread <- TwoHandlers
    Fd <- TwoDescriptors
    Garbage <- AnyOfTwo
    MaxNotice = 2
    FaultKinds <- AllFaults
SYMMETRY Handlers
VIEW Seen
INVARIANTS
    ProcessTypeOK
    NothingLeaks
    OnlyEarlyFailuresTake
    ResultHasOwner
    StoresItsOwn
    HandleStaysUsable
CHECK_DEADLOCK FALSE
