SPECIFICATION FairSpec
CONSTANTS
    Conn = {c1, c2}
    NoConn = NoConn
    MaxFd = 6
    MAX_NUM_SHELL_CLIENTS = 2
    JobIdMod = 2
    MAX_NUM_CMDS = 1
    Names = {1}
    Mbox = {m1}
    NoMbox = NoMbox
    CountMod = 65536
    MaxRegs = 1
    Requests = {0, 1}
    Deregs = {1}
    MaxRequests = 1
    MaxPending = 1
    MaxItc = 1
PROPERTIES
    Responsive
CHECK_DEADLOCK FALSE
