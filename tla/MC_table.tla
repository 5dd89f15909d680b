------------------------------ MODULE MC_table ------------------------------
(***************************************************************************)
(* A table of up to two syntaxes, most of them made of one or two of the   *)
(* parts below.                                                            *)
(***************************************************************************)
EXTENDS CmdSentences, CmdSyntax

Names(list) == [k \in DOMAIN list |-> Arg(list[k])]

Parts == <<Arg("b"), Arg("c"), Arg("<v>"), Arg("<w>"),
           Opt(Names(<<"b">>)), Opt(Names(<<"c">>)), Alt(Names(<<"b", "c">>)),
           Opt(<<Row(Names(<<"b", "c">>))>>),
           Alt(<<Opt(Names(<<"c">>)), Row(Names(<<"<v>", "<w>">>))>>)>>

\* Each part, and each part after each other.
MCTrees ==
    LET N == Len(Parts)
        Made(first, second) == IF first = 0 THEN Parts[second] ELSE Row(<<Parts[first], Parts[second]>>)
    IN [k \in 1..(N * (N + 1)) |-> Made((k - 1) \div N, ((k - 1) % N) + 1)]
         \o <<Row(Names(<<"b", "c", "d">>)), Wrong(<<"c", "}", "b", "{">>)>>

Texts(trees) == [k \in DOMAIN trees |-> Text(trees[k])]
MCSyntaxes == Texts(MCTrees)

\* Handlers are told apart and nothing else.
HandlerSymmetry == Permutations(Handlers)

MCArgs == BoundedSeq({"b", "c"}, 3) \cup {<<"d">>, <<"b", "d">>, <<"c", "d">>, <<"b", "c", "d">>}

\* Two syntaxes that share a name after different ones.
LinkTrees ==
    <<Row(Names(<<"c", "d", "b">>)), Row(<<Alt(Names(<<"b", "c">>)), Arg("d")>>)>>
LinkSyntaxes == Texts(LinkTrees)

\* The sentences of a text are those of the tree it was written for, also
\* where trees are nested.
Right == {t \in ToSet(MCTrees) : t.form # "wrong"}
Nested == {Alt(<<t, Arg("d")>>) : t \in Right} \cup {Opt(<<Arg("d"), t>>) : t \in Right}
ASSUME TextsMeanTrees ==
    \A t \in ToSet(MCTrees) \cup ToSet(LinkTrees) \cup {Row(<<u, Opt(<<u, Arg("d")>>)>>) : u \in Nested} :
        SentencesOf(Text(t)) = Sentences(t)
=============================================================================
