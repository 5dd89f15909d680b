------------------------------ MODULE CmdSyntax ------------------------------
(***************************************************************************)
(* What a command syntax means to the one who writes it.  The shell's help *)
(* explains the forms: abc is itself, <abc> any value, { abc | def }       *)
(* alternatives, [ abc ] and [ abc | def ] optional.  A syntax is a tree   *)
(* of these forms; Text is how it is written, Sentences what it allows.    *)
(***************************************************************************)
EXTENDS Naturals, SequencesExt

\* Trees.  Wrong is a text that is no syntax.
Arg(name) == [form |-> "arg", name |-> name]
Row(list) == [form |-> "row", list |-> list]
Alt(list) == [form |-> "alt", list |-> list]
Opt(list) == [form |-> "opt", list |-> list]
Wrong(text) == [form |-> "wrong", text |-> text]

\* The elements of list with bar between them.
Separated(list, bar) ==
    FoldLeft(LAMBDA text, t : IF text = <<>> THEN t ELSE text \o bar \o t, <<>>, list)

RECURSIVE Text(_)
Text(s) ==
    CASE s.form = "arg"   -> <<s.name>>
      [] s.form = "row"   -> Separated([k \in DOMAIN s.list |-> Text(s.list[k])], <<>>)
      [] s.form = "alt"   -> <<"{">> \o Separated([k \in DOMAIN s.list |-> Text(s.list[k])], <<"|">>) \o <<"}">>
      [] s.form = "opt"   -> <<"[">> \o Separated([k \in DOMAIN s.list |-> Text(s.list[k])], <<"|">>) \o <<"]">>
      [] s.form = "wrong" -> s.text

RECURSIVE Sentences(_)
Sentences(s) ==
    LET OneOf == UNION {Sentences(s.list[k]) : k \in DOMAIN s.list}
    IN CASE s.form = "arg"   -> {<<s.name>>}
         [] s.form = "row"   -> FoldLeft(LAMBDA xs, t : {x \o y : x \in xs, y \in Sentences(t)}, {<<>>}, s.list)
         [] s.form = "alt"   -> OneOf
         [] s.form = "opt"   -> OneOf \cup {<<>>}
         [] s.form = "wrong" -> {}
=============================================================================
