\* Two syntaxes that share the names c and d.
SPECIFICATION TableSpec
CONSTANTS
    AnyNames = {"<v>", "<w>"}
    NoHandler = NoHandler
    CmdName = "a"
    Syntaxes <- LinkSyntaxes
    Handlers = {h1, h2}
    ArgLists <- MCArgs
    MaxSyntaxes = 2
INVARIANT
    LinkedToAll
CHECK_DEADLOCK FALSE
