SPECIFICATION FairSpec
CONSTANTS
    MAX_NUM_REMOTE_HOSTS = 2
    Hosts = {1}
    Addr = {a}
    NoAddr = NoAddr
    MaxFd = 1
    MaxAnnounced = 1
PROPERTY ListedConnects
CHECK_DEADLOCK FALSE
