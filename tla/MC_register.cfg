\* The registration of commands between an application and the daemon.
SPECIFICATION RegFairSpec
CONSTANTS
    MAX_NUM_CMDS = 2
    Names = {1, 3, 4}
    Mbox <- MCMbox
    NoMbox = NoMbox
    CountMod = 65536
    MaxRegs = 6
    Thread = {t1, t2}
    NoThread = NoThread
    NoMsg = NoMsg
    AppNames = {1, 2, 4}
    LongNames = {2}
    ClippedName = 3
    MaxCalls = 3
    MaxMail = 2
    MaxRequests = 1
    MaxRestarts = 1
INVARIANTS
    RegTypeOK
    RegisteredInTree
    CountCoversEntries
    ExactUntilFirstDereg
    DaemonFollowsMap
PROPERTIES
    JobsFindHandlers
    Settles
CHECK_DEADLOCK FALSE
