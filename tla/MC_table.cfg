\* The command table and its syntax graph.
SPECIFICATION TableSpec
CONSTANTS
    AnyNames = {"<v>", "<w>"}
    NoHandler = NoHandler
    CmdName = "a"
    Syntaxes <- MCSyntaxes
    Handlers = {h1, h2}
    ArgLists <- MCArgs
    MaxSyntaxes = 2
SYMMETRY HandlerSymmetry
INVARIANTS
    TableTypeOK
    RunsOnlySentences
    SentencesRun
    ValuesRun
    StuckOnlyInCycles
PROPERTY
    NeverLost
CHECK_DEADLOCK FALSE
