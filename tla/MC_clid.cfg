SPECIFICATION Spec
CONSTANTS
    Conn = {c1, c2, c3}
    NoConn = NoConn
    MaxFd = 7
    MAX_NUM_SHELL_CLIENTS = 2
    JobIdMod = 3
    MAX_NUM_CMDS = 1
    Names = {1}
    Mbox = {m1}
    NoMbox = NoMbox
    CountMod = 65536
    MaxRegs = 1
    Requests = {0, 1}
    Deregs = {}
    MaxRequests = 2
    MaxPending = 0
    MaxItc = 1
SYMMETRY ConnSymmetry
INVARIANTS
    TypeOK
    JobHasTimer
    JobsDistinct
    StageHasInput
    FdsOwned
    ConnectedInTree
PROPERTIES
    AnswerReachesAsker
    ExitsForCause
    ImplementsJobService
CHECK_DEADLOCK FALSE
