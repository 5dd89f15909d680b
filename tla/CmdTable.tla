------------------------------- MODULE CmdTable -------------------------------
(***************************************************************************)
(* The command table of an application (cmdif: CmdTableImpl over           *)
(* CmdSyntaxGraph) for one command.  registerCmdTable adds the syntaxes of *)
(* the command one by one while it holds the mutex, and publishes it in    *)
(* m_cmdMap at the end; executeCmd, in the thread of the event loop, looks *)
(* the handler for its arguments up under the same mutex, or prints a      *)
(* usage text under it.  What a handler does is left out.                  *)
(*                                                                         *)
(* A second table for a command that is in the map is ignored, which is a  *)
(* stuttering step; so is a command that is not in the map.                *)
(***************************************************************************)
EXTENDS SyntaxGraph

CONSTANTS
    CmdName,
    Syntaxes,     \* a list of syntaxes, without the command's name
    Handlers,
    ArgLists,     \* arguments of calls, without the command's name
    MaxSyntaxes   \* bound: syntaxes of a table

\* Syntaxes and arguments are sequences, and no syntax has the command's name
\* spelt as a bracket.
ASSUME SyntaxAssumption  ==
    /\ CmdName \notin Brackets
    /\ \A s \in DOMAIN Syntaxes : Syntaxes[s] \in Seq(ToSet(Syntaxes[s]))
ASSUME HandlerAssumption == NoHandler \notin Handlers
ASSUME ArgsAssumption    == \A args \in ArgLists : args \in Seq(ToSet(args))
ASSUME LimitAssumption   == MaxSyntaxes \in Nat

VARIABLES
    graph,     \* firstNode and all below
    added,     \* the definitions added so far: which of Syntaxes, which handler
    m_cmdMap,  \* TRUE: the command is in the map
    reply,     \* the call: its arguments and the handler that ran
    stuck      \* a usage text that does not end, under the mutex

tableVars == <<graph, added, m_cmdMap, reply, stuck>>

NoCall == [args |-> <<>>, handler |-> NoHandler]

TableInit ==
    /\ graph = FirstNode(CmdName) /\ added = <<>> /\ m_cmdMap = FALSE
    /\ reply = NoCall /\ stuck = FALSE

addSyntax(s, h) ==
    /\ ~m_cmdMap
    /\ Len(added) < MaxSyntaxes
    /\ graph' = AddSyntax(graph, <<CmdName>> \o Syntaxes[s], h)
    /\ added' = Append(added, [syntax |-> s, handler |-> h])
    /\ UNCHANGED <<m_cmdMap, reply, stuck>>

\* addCommand, called by registerCmdTable, gives the mutex back.
addCommand ==
    /\ ~m_cmdMap
    /\ added # <<>>
    /\ m_cmdMap' = TRUE
    /\ UNCHANGED <<graph, added, reply, stuck>>

\* findCmdHandler, and the handler it finds.  A call leaves nothing behind,
\* so one call is as good as many (bound: one).
executeCmd(args) ==
    /\ m_cmdMap /\ ~stuck
    /\ reply = NoCall
    /\ LET k == evaluateCommandArguments(graph, args) IN
         /\ reply' = [args |-> args, handler |-> graph.handler[k]]
         /\ stuck' = (~HasHandler(graph, k) /\ ~UsageEnds(graph, k))
    /\ UNCHANGED <<graph, added, m_cmdMap>>

TableNext ==
    \/ \E s \in DOMAIN Syntaxes, h \in Handlers : addSyntax(s, h)
    \/ addCommand
    \/ \E args \in ArgLists : executeCmd(args)

TableSpec == TableInit /\ [][TableNext]_tableVars
-----------------------------------------------------------------------------
TextOf(j) == Syntaxes[added[j].syntax]
NamesIn(text) == ToSet(text) \ Brackets

\* Some syntax of the table has the name m before the name n.
Before(m, n) ==
    \E j \in DOMAIN added : \E p, q \in DOMAIN TextOf(j) :
        p < q /\ TextOf(j)[p] = m /\ TextOf(j)[q] = n /\ {m, n} \cap Brackets = {}

\* Type correctness: the graph is well formed, and no node has two subnodes
\* of one name, of which the second could not be reached.
TableTypeOK ==
    /\ DOMAIN graph.sub = DOMAIN graph.name /\ DOMAIN graph.handler = DOMAIN graph.name
    /\ \A k \in DOMAIN graph.name : /\ ToSet(graph.sub[k]) \subseteq DOMAIN graph.name
                                    /\ \A m, n \in ToSet(graph.sub[k]) : graph.name[m] = graph.name[n] => m = n
                                    /\ graph.handler[k] \in Handlers \cup {NoHandler}
    /\ Len(added) \in 0..MaxSyntaxes /\ {m_cmdMap, stuck} \subseteq BOOLEAN
    /\ reply = NoCall \/ reply.args \in ArgLists

\* In any table: a list of names that runs something after some syntaxes
\* were added does so after more were, unless it ran only by way of < > or
\* because what followed was ignored.
Exact(g, args) ==
    LET Way[p \in 0..Len(args)] ==
          IF p = 0 THEN {1}
          ELSE {findSubnode(g, k, args[p]) : k \in Way[p - 1]} \ {0}
    IN  \E k \in Way[Len(args)] : HasHandler(g, k)

NeverLost ==
    [][\A args \in ArgLists :
         Exact(graph, args) => HasHandler(graph', evaluateCommandArguments(graph', args))]_graph

\* A usage text ends, and with it the mutex is given back, if the syntaxes
\* agree on an order of the names: then the graph has no cycle.  "[ b ] c"
\* beside "[ c ] b" has one.
StuckOnlyInCycles ==
    stuck => \E S \in SUBSET UNION {NamesIn(TextOf(j)) : j \in DOMAIN added} :
                S # {} /\ \A n \in S : \E m \in S : Before(m, n)
=============================================================================
