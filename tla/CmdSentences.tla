----------------------------- MODULE CmdSentences -----------------------------
(***************************************************************************)
(* The command table measured by what its syntaxes mean: a syntax is the   *)
(* set of its sentences, whatever graph it becomes.                        *)
(***************************************************************************)
EXTENDS CmdTable

(***************************************************************************)
(* The sentences of a text, token by token: ways holds the beginnings of   *)
(* sentences that end here, and open, for every bracket that is open, the  *)
(* ways before it and those through its alternatives so far.               *)
(***************************************************************************)
Token(r, c) ==
    LET d       == Len(r.open)
        through == r.open[d].through \cup r.ways
    IN  IF r.wrong THEN r
        ELSE CASE c \in {"{", "["} ->
                    [r EXCEPT !.open = Append(@, [before  |-> r.ways,
                                                  through |-> IF c = "[" THEN r.ways ELSE {}])]
               [] c \in {"|", "}", "]"} /\ r.open = <<>> -> [r EXCEPT !.wrong = TRUE]
               [] c = "|" /\ r.open # <<>> ->
                    [r EXCEPT !.ways = r.open[d].before, !.open[d].through = through]
               [] c \in {"}", "]"} /\ r.open # <<>> ->
                    [r EXCEPT !.ways = through, !.open = SubSeq(@, 1, d - 1)]
               [] OTHER -> [r EXCEPT !.ways = {Append(x, c) : x \in @}]

Meaning(text) ==
    LET R[p \in 0..Len(text)] ==
          IF p = 0 THEN [ways |-> {<<>>}, open |-> <<>>, wrong |-> FALSE]
          ELSE Token(R[p - 1], text[p])
    IN  R[Len(text)]

\* Either closing bracket closes either opening one, if their numbers agree.
BracketsFit(text) ==
    LET syntax == <<CmdName>> \o text
    IN  validateBrackets(syntax, "{", "}") /\ validateBrackets(syntax, "[", "]")

SentencesOf(text) == IF BracketsFit(text) /\ ~Meaning(text).wrong THEN Meaning(text).ways ELSE {}

Allowed(j) == SentencesOf(TextOf(j))

\* Arguments that are a sentence, and arguments that begin with one.
IsSentence(args, x) ==
    Len(args) = Len(x) /\ \A p \in DOMAIN x : x[p] \in {args[p]} \cup AnyNames
BeginsWith(args, x) == Len(x) <= Len(args) /\ IsSentence(SubSeq(args, 1, Len(x)), x)

\* No name, the command's included, occurs twice in the text.
NamesDiffer(text) ==
    \A p, q \in 0..Len(text) :
        p < q /\ text[q] \notin Brackets => text[q] # IF p = 0 THEN CmdName ELSE text[p]

\* The texts share some leading names and none after them.
ShareLeading(x, y) ==
    \E p \in 0..Len(x) :
        /\ p <= Len(y) /\ SubSeq(x, 1, p) = SubSeq(y, 1, p)
        /\ ToSet(SubSeq(x, 1, p)) \cap Brackets = {}
        /\ NamesIn(SubSeq(x, p + 1, Len(x))) \cap NamesIn(SubSeq(y, p + 1, Len(y))) = {}

Plain == \A j, k \in DOMAIN added : NamesDiffer(TextOf(j)) /\ (j < k => ShareLeading(TextOf(j), TextOf(k)))

\* In a table whose syntaxes repeat no name and share no more than leading
\* names, a handler runs only for arguments that begin with a sentence of a
\* syntax it was given for; what follows the sentence is ignored
\* (cmdSyntaxGraph.cc:338).
RunsOnlySentences ==
    reply # NoCall /\ reply.handler # NoHandler /\ Plain =>
        \E j \in DOMAIN added :
            /\ added[j].handler = reply.handler
            /\ \E x \in Allowed(j) : BeginsWith(reply.args, x)

\* In such a table a sentence of names runs the handler that was given for
\* it last, whatever else the table accepts and however it was written.
SentencesRun ==
    reply # NoCall /\ Plain /\ ToSet(reply.args) \cap AnyNames = {} =>
        LET with == {j \in DOMAIN added : reply.args \in Allowed(j)}
        IN with # {} => reply.handler = added[Max(with)].handler

\* What stands for the names in < > is no name of the table.
ValuesGiven(args, x) ==
    \A p \in DOMAIN x : x[p] \in AnyNames => \A k \in DOMAIN added : args[p] \notin NamesIn(TextOf(k))

\* "<abc>" is "any value" (shell.c:914): in such a table a sentence runs
\* something with all values but the table's names, which are looked for
\* first; where several names in < > stand side by side, the one that leads
\* on is found.
ValuesRun ==
    reply # NoCall /\ Plain =>
        \A j \in DOMAIN added : \A x \in Allowed(j) :
            IsSentence(reply.args, x) /\ ValuesGiven(reply.args, x) => reply.handler # NoHandler

\* cmdSyntaxGraph.cc:214: "A single successive node which should be linked
\* to all current last nodes": whatever was added before, the sentences of
\* a syntax run.
LinkedToAll ==
    \A j \in DOMAIN added : reply.args \in Allowed(j) /\ reply # NoCall =>
        reply.handler # NoHandler
=============================================================================
