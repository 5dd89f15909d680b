SPECIFICATION FairSpec
CONSTANTS
    MAX_NUM_REMOTE_HOSTS = 2
    Hosts = {1, 2, 3}
    Addr = {a}
    NoAddr = NoAddr
    MaxFd = 1
    MaxAnnounced = 3
INVARIANTS
    HostTypeOK
    TableAgrees
PROPERTIES
    NewHostsStay
    SilentHostsLeave
    CommandsReturn
CHECK_DEADLOCK FALSE
