SPECIFICATION CmdSpec
CONSTANTS
    MAX_NUM_CMDS = 3
    Names = {1, 2, 3, 4}
    Mbox = {m1, m2}
    NoMbox = NoMbox
    CountMod = 65536
    MaxRegs = 6
INVARIANT
    ListCountIsExact
CHECK_DEADLOCK FALSE
