---------------------------- MODULE LineEditing ----------------------------
(***************************************************************************)
(* What the shell's prompt promises its user: every key does what it says, *)
(* to one line and to a history of the last MaxHistory lines entered.      *)
(* How a terminal encodes keys, how the history is linked and where the    *)
(* arrows stand in it are LineEditor's business.                           *)
(*                                                                         *)
(* Two characters are not what they say.  '3' and '~' end the code of the  *)
(* Delete key: they are never inserted, a '3' swallows the character that  *)
(* is typed next, other than a space, and a '~' that comes next deletes.   *)
(***************************************************************************)
EXTENDS Integers, SequencesExt

CONSTANTS
    Plain,  \* keys that stand for a character
    Space, Three, Tilde,
    Up, Down, Left, Right, Home, End, Delete, Backspace, Enter,
    NoKey,
    MaxHistory

\* Keys the terminal sends as a sequence of characters.
Coded == {Up, Down, Left, Right, Home, End, Delete}
Key   == Plain \cup Coded \cup {Backspace, Enter}

VARIABLES
    line, cursor, history,
    key,        \* pressed and not yet acted on
    swallowing  \* a '3' was typed, and nothing but Space and Backspace since

editing == <<line, cursor, history, key, swallowing>>

EditInit ==
    line = <<>> /\ cursor = 0 /\ history = <<>> /\ key = NoKey /\ swallowing = FALSE

Press(k) ==
    /\ key = NoKey /\ key' = k
    /\ swallowing' = (swallowing /\ k \notin Coded)
    /\ UNCHANGED <<line, cursor, history>>

On(k) == key = k /\ key' = NoKey

Insert(k) ==
    /\ On(k) /\ k \notin {Three, Tilde} /\ (swallowing => k = Space)
    /\ line' = InsertAt(line, cursor + 1, k) /\ cursor' = cursor + 1
    /\ UNCHANGED <<history, swallowing>>

Swallow(k) ==
    /\ On(k) /\ k \notin {Three, Tilde, Space} /\ swallowing
    /\ swallowing' = FALSE
    /\ UNCHANGED <<line, cursor, history>>

TypeThree == On(Three) /\ swallowing' = TRUE /\ UNCHANGED <<line, cursor, history>>

\* The character at position p goes, if there is one.
Erases(p) == line' = IF p \in DOMAIN line THEN RemoveAt(line, p) ELSE line

TypeTilde ==
    /\ On(Tilde)
    /\ IF swallowing THEN Erases(cursor + 1) ELSE line' = line
    /\ swallowing' = FALSE
    /\ UNCHANGED <<cursor, history>>

Erase(k, p, to) ==
    /\ On(k)
    /\ Erases(p)
    /\ cursor' = to
    /\ UNCHANGED <<history, swallowing>>

Move(k, to) == On(k) /\ cursor' = to /\ UNCHANGED <<line, history, swallowing>>

\* An arrow shows a line of the history, or an empty one, or does nothing.
Recall(k) ==
    /\ On(k)
    /\ \/ UNCHANGED <<line, cursor>>
       \/ line' \in ToSet(history) \cup {<<>>} /\ cursor' = Len(line')
    /\ UNCHANGED <<history, swallowing>>

\* The line is taken, and the oldest of the history makes room for it.
Submit ==
    /\ On(Enter)
    /\ line' = <<>> /\ cursor' = 0 /\ swallowing' = FALSE
    /\ history' = IF line = <<>> THEN history
                  ELSE Append(IF Len(history) < MaxHistory THEN history ELSE Tail(history), line)

\* Ctrl-C drops the line and what was typed ahead.
Interrupt ==
    line' = <<>> /\ cursor' = 0 /\ key' = NoKey /\ swallowing' = FALSE /\ UNCHANGED history

EditNext ==
    \/ \E k \in Key : Press(k)
    \/ \E k \in Plain : Insert(k) \/ Swallow(k)
    \/ TypeThree \/ TypeTilde
    \/ Erase(Backspace, cursor, IF cursor > 0 THEN cursor - 1 ELSE 0)
    \/ Erase(Delete, cursor + 1, cursor)
    \/ Move(Left, IF cursor > 0 THEN cursor - 1 ELSE 0)
    \/ Move(Right, IF cursor < Len(line) THEN cursor + 1 ELSE cursor)
    \/ Move(Home, 0)
    \/ Move(End, Len(line))
    \/ Recall(Up) \/ Recall(Down)
    \/ Submit \/ Interrupt

EditSpec == EditInit /\ [][EditNext]_editing
=============================================================================
