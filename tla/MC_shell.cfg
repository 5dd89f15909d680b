SPECIFICATION Spec
CONSTANTS
    MAX_REMOTE_CMDS = 3
    Names = {1, 2, 3}
    MaxRequests = 4
    MaxListed = 3
    MaxJunk = 1
INVARIANTS
    SessionTypeOK
    RepliesInStep
    NoStrayPacket
    ListedIsFound
    LocalPromptIsClean
CHECK_DEADLOCK FALSE
