SPECIFICATION Spec
CONSTANTS
    MAX_REMOTE_CMDS = 1
    Names = {1}
    MaxRequests = 3
    MaxListed = 1
    MaxJunk = 0
INVARIANT GivenUpIsOver
CHECK_DEADLOCK FALSE
