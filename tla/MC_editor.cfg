\* The line editor and its history.  32 is Space; 65 is 'A', which also
\* ends the sequence of the Up key; 51 and 126 are '3' and '~'.
SPECIFICATION EditorSpec
CONSTANTS
    MAX_HISTORY_CMDS = 3
    Node = {n1, n2, n3, n4}
    NULL = NULL
    Typed = {32, 51, 65, 126}
    NoKey = NoKey
    MaxLine = 2
    MaxChars = 4
    MaxEntered = 4
INVARIANTS
    EditorTypeOK
    QueueIsList
    ShortHistoryOnly
PROPERTIES
    UpGoesBack
    ImplementsLineEditing
CHECK_DEADLOCK FALSE
