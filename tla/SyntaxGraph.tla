----------------------------- MODULE SyntaxGraph -----------------------------
(***************************************************************************)
(* The syntax graph of one command (cmdif: GraphNode, CmdSyntaxGraph):     *)
(* how a syntax such as "set { port | addr } <value>" is split into nodes, *)
(* how arguments find their way through them, and where a usage text ends. *)
(*                                                                         *)
(* A syntax is a sequence of tokens, names and brackets, as getNextToken   *)
(* returns them.  Nodes are numbered in the order of their creation, the   *)
(* first is that of the command itself and 0 is the null pointer; sub is   *)
(* m_subNodeList.                                                          *)
(***************************************************************************)
EXTENDS Naturals, FiniteSets, SequencesExt

CONSTANTS
    AnyNames,  \* names in < >, which stand for any argument
    NoHandler

Brackets == {"{", "[", "|", "]", "}"}

NewNode(g, name) == [name    |-> Append(g.name, name),
                     sub     |-> Append(g.sub, <<>>),
                     handler |-> Append(g.handler, NoHandler)]

FirstNode(cmdName) == NewNode([name |-> <<>>, sub |-> <<>>, handler |-> <<>>], cmdName)

HasHandler(g, k) == g.handler[k] # NoHandler
-----------------------------------------------------------------------------
\* The first position of the name among the subnodes of k, 0 if there is none.
Position(g, k, name) == SelectInSeq(g.sub[k], LAMBDA n : g.name[n] = name)

findSubnode(g, k, name) == IF Position(g, k, name) = 0 THEN 0 ELSE g.sub[k][Position(g, k, name)]

\* Mutant of addCreatedSubnodeIfNotExist: the name is not looked for.
LinkAnyway(g, k, n) == [g EXCEPT !.sub[k] = Append(@, n)]

addCreatedSubnodeIfNotExist(g, k, n) ==
    IF findSubnode(g, k, g.name[n]) # 0 THEN g ELSE [g EXCEPT !.sub[k] = Append(@, n)]

\* The graph and the node.
createAndAddNewSubnodeIfNotExist(g, k, name) ==
    IF findSubnode(g, k, name) # 0 THEN [graph |-> g, node |-> findSubnode(g, k, name)]
    ELSE LET n == Len(g.name) + 1
         IN  [graph |-> addCreatedSubnodeIfNotExist(NewNode(g, name), k, n), node |-> n]

\* r: the graph and the node, if there is one.
AppendTo(r, k, name) ==
    IF r.node \in {0, k} THEN createAndAddNewSubnodeIfNotExist(r.graph, k, name)
    ELSE [r EXCEPT !.graph = addCreatedSubnodeIfNotExist(@, k, r.node)]

\* One node is created below the first of the last nodes and then linked to
\* the others.
appendNewNodeToLastNodes(g, last, name) ==
    LET R[p \in 0..Len(last)] ==
          IF p = 0 THEN [graph |-> g, node |-> 0] ELSE AppendTo(R[p - 1], last[p], name)
    IN  R[Len(last)]
-----------------------------------------------------------------------------
(***************************************************************************)
(* Splitting a syntax.  s holds the graph, the last nodes, and for every   *)
(* bracket that is open, so for every call of splitOutSyntax but the first,*)
(* what the caller keeps: its last nodes, and newLastNodes.                *)
(***************************************************************************)

\* Mutant of PutName: the last nodes are not cleared.
PutNameKeepingLast(s, name) ==
    IF Len(s.last) = 1 /\ s.graph.name[s.last[1]] = name THEN s
    ELSE LET r == appendNewNodeToLastNodes(s.graph, s.last, name)
         IN  [s EXCEPT !.graph = r.graph, !.last = Append(@, r.node)]

\* A name that repeats the only last node is skipped: above all the name of
\* the command at the beginning.
PutName(s, name) ==
    IF Len(s.last) = 1 /\ s.graph.name[s.last[1]] = name THEN s
    ELSE LET r == appendNewNodeToLastNodes(s.graph, s.last, name)
         IN  [s EXCEPT !.graph = r.graph, !.last = <<r.node>>]

\* The brackets [ ] may be left out: then the last nodes stay.
OpenBracket(s, c) ==
    [s EXCEPT !.calls = Append(@, [last |-> s.last, newLast |-> IF c = "[" THEN s.last ELSE <<>>])]

\* newLastNodes with the last nodes of the alternative that ends.
Gathered(newLast, last) ==
    LET R[p \in 0..Len(last)] ==
          IF p = 0 THEN newLast
          ELSE IF Contains(R[p - 1], last[p]) THEN R[p - 1] ELSE Append(R[p - 1], last[p])
    IN  R[Len(last)]

\* An alternative ends, and the bracket or the next alternative begins where
\* the bracket began.  The two brackets are not compared.
EndAlternative(s, c) ==
    LET d       == Len(s.calls)
        newLast == Gathered(s.calls[d].newLast, s.last)
    IN  IF c = "|" THEN [s EXCEPT !.last = s.calls[d].last, !.calls[d].newLast = newLast]
                   ELSE [s EXCEPT !.last = newLast, !.calls = SubSeq(@, 1, d - 1)]

\* What ends the first call ends the splitting.
ReadToken(s, c) ==
    IF s.failed THEN s
    ELSE CASE c \in {"{", "["}      -> OpenBracket(s, c)
           [] c \in {"|", "}", "]"} -> IF s.calls = <<>> THEN [s EXCEPT !.failed = TRUE]
                                       ELSE EndAlternative(s, c)
           [] OTHER                 -> PutName(s, c)

splitOutSyntax(g, syntax) ==
    LET R[p \in 0..Len(syntax)] ==
          IF p = 0 THEN [graph |-> g, last |-> <<1>>, calls |-> <<>>, failed |-> FALSE]
          ELSE ReadToken(R[p - 1], syntax[p])
    IN  R[Len(syntax)]

\* Brackets are counted; their order is not looked at.
validateBrackets(syntax, open, close) ==
    Cardinality({p \in DOMAIN syntax : syntax[p] = open})
      = Cardinality({p \in DOMAIN syntax : syntax[p] = close})

\* Mutant of Attach: a handler that is there stays.
AttachFirst(g, last, h) ==
    [g EXCEPT !.handler = [k \in DOMAIN @ |-> IF Contains(last, k) /\ @[k] = NoHandler THEN h ELSE @[k]]]

\* A handler is its funcName: where the old one has the same, the code keeps
\* it, which makes no difference here.
Attach(g, last, h) ==
    [g EXCEPT !.handler = [k \in DOMAIN @ |-> IF Contains(last, k) THEN h ELSE @[k]]]

\* A syntax with unbalanced brackets changes nothing; one whose brackets do
\* not fit leaves its nodes behind, without a handler.
AddSyntax(g, syntax, h) ==
    LET s == splitOutSyntax(g, syntax)
    IN  IF ~(validateBrackets(syntax, "{", "}") /\ validateBrackets(syntax, "[", "]")) THEN g
        ELSE IF s.failed THEN s.graph
        ELSE Attach(s.graph, s.last, h)
-----------------------------------------------------------------------------
\* Mutant of getMatchingSubnodes: any values are looked for first.
MatchAnyFirst(g, k, arg) ==
    LET any == {p \in DOMAIN g.sub[k] : g.name[g.sub[k][p]] \in AnyNames}
    IN  IF any # {} THEN any ELSE {Position(g, k, arg)} \ {0}

\* The positions of the subnodes that match: the one of that name and no
\* other, or all that take any value.
getMatchingSubnodes(g, k, arg) ==
    IF arg \notin AnyNames /\ Position(g, k, arg) # 0 THEN {Position(g, k, arg)}
    ELSE {p \in DOMAIN g.sub[k] : g.name[g.sub[k][p]] \in AnyNames}

\* Mutant of Follow: of several values the first is taken, wherever it leads.
FollowFirst(g, k, arg, deeper) ==
    LET subs == getMatchingSubnodes(g, k, arg)
    IN  IF subs = {} THEN k ELSE deeper[g.sub[k][Min(subs)]]

\* The node that arg leads to from k, if the arguments after it lead from a
\* node n to deeper[n].  It is k itself if no subnode matches, and what is
\* left of the arguments is ignored.
Follow(g, k, arg, deeper) ==
    LET subs == getMatchingSubnodes(g, k, arg)
        good == {p \in subs : HasHandler(g, deeper[g.sub[k][p]])}
    IN  IF subs = {} THEN k
        ELSE IF Cardinality(subs) = 1 THEN deeper[g.sub[k][Min(subs)]]
        ELSE IF good = {} THEN g.sub[k][Min(subs)]
        ELSE deeper[g.sub[k][Min(good)]]

\* Where the last n arguments lead to, from each node.
evaluateCommandArguments(g, args) ==
    LET R[n \in 0..Len(args)] ==
          IF n = 0 THEN [k \in DOMAIN g.name |-> k]
          ELSE [k \in DOMAIN g.name |-> Follow(g, k, args[Len(args) - n + 1], R[n - 1])]
    IN  R[Len(args)][1]

\* Mutant of NextPrinted: the only subnode is printed and not entered.
NextPrintedStays(g, k) ==
    LET subs == g.sub[k]
    IN CASE Len(subs) = 1 -> {k}
         [] Len(subs) = 2 /\ g.sub[subs[1]] # <<>> /\ g.sub[subs[1]][1] = subs[2] -> {subs[2]}
         [] OTHER -> {}

\* The node printNextPossibleArguments goes on with, or none.
NextPrinted(g, k) ==
    LET subs == g.sub[k]
    IN CASE Len(subs) = 1 -> {subs[1]}
         [] Len(subs) = 2 /\ g.sub[subs[1]] # <<>> /\ g.sub[subs[1]][1] = subs[2] -> {subs[2]}
         [] OTHER -> {}

\* printNextPossibleArguments has a last node to print.
UsageEnds(g, k) ==
    LET R[n \in 0..Len(g.name)] ==
          IF n = 0 THEN {k} ELSE UNION {NextPrinted(g, j) : j \in R[n - 1]}
    IN  R[Len(g.name)] = {}
=============================================================================
