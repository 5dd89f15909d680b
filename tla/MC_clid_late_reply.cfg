SPECIFICATION Spec
CONSTANTS
    Conn = {c1, c2}
    NoConn = NoConn
    MaxFd = 7
    MAX_NUM_SHELL_CLIENTS = 2
    JobIdMod = 3
    MAX_NUM_CMDS = 1
    Names = {1}
    Mbox = {m1}
    NoMbox = NoMbox
    CountMod = 65536
    MaxRegs = 1
    Requests = {1}
    Deregs = {}
    MaxRequests = 2
    MaxPending = 0
    MaxItc = 1
INVARIANT
    WaitedJobsAreFound
CHECK_DEADLOCK FALSE
