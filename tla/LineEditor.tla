----------------------------- MODULE LineEditor -----------------------------
(***************************************************************************)
(* The shell's prompt (sw/shell/shell.c: read_input_cmd and the history    *)
(* queue).  The terminal turns a key into one or more characters; the      *)
(* editor takes them one at a time, recognises escape sequences with       *)
(* counters, and keeps the lines entered in a doubly linked list with a    *)
(* cursor, search, for the arrow keys.                                     *)
(*                                                                         *)
(* home_end_count is set and cleared wherever arrow_count is: one counter  *)
(* stands for both.  Prompt, screen and the command a line runs are left   *)
(* out: the next read starts when the last one returns.  Lines stay below  *)
(* max_len and below the 256 bytes of a history entry (MaxLine).           *)
(***************************************************************************)
EXTENDS Integers, Sequences, FiniteSets, SequencesExt

CONSTANTS
    MAX_HISTORY_CMDS,
    Node,        \* what malloc returns for history entries
    NULL,
    Typed,       \* the characters the user types
    NoKey,
    MaxLine,     \* bound: length of a line
    MaxChars,    \* bound: characters in line and history while one is typed
    MaxEntered   \* bound: lines entered, empty ones aside

ASSUME HistoryAssumption == MAX_HISTORY_CMDS \in Nat \ {0, 1}
ASSUME NodeAssumption    ==
    NULL \notin Node /\ IsFiniteSet(Node) /\ Cardinality(Node) > MAX_HISTORY_CMDS
\* What can be typed is what can be printed.
ASSUME TypedAssumption   == Typed \subseteq 32..126

\* A key is the sequence of characters the terminal sends for it.
Esc  == 27
Csi(c) == <<Esc, 91, c>>
UpKey == Csi(65)
DownKey == Csi(66)
RightKey == Csi(67)
LeftKey == Csi(68)
EndKey == Csi(70)
HomeKey == Csi(72)
DeleteKey == <<Esc, 91, 51, 126>>
BackspaceKey == <<8>>
EnterKey == <<10>>
PlainKeys == {<<c>> : c \in Typed}
CodedKeys == {UpKey, DownKey, LeftKey, RightKey, HomeKey, EndKey, DeleteKey}
Key == PlainKeys \cup CodedKeys \cup {BackspaceKey, EnterKey}
ASSUME NoKeyAssumption   == NoKey \notin Key

VARIABLES
    line, i,               \* the line, and the characters left of the cursor
    arrow_count,           \* ESC -> '[' -> a letter
    del_count,             \* '3' -> '~'
    is_reached_tail_head,
    key, rest,             \* the key pressed, and its characters to come
    head, tail, search,    \* m_hist_cmd_queue
    next, prev, cmd,       \* the entries
    allocated,             \* entries that are not freed
    m_num_hist_cmd,
    halted,                \* an invalid pointer has been followed
    entered,               \* lines entered, empty ones aside
    ups                    \* history: Up keys since the last Enter, or -1
                           \* when a Down came between

lineVars  == <<line, i>>
countVars == <<arrow_count, del_count>>
keyVars   == <<key, rest>>
queueVars == <<head, tail, next, prev, cmd, allocated, m_num_hist_cmd, entered>>
editorVars == <<lineVars, countVars, is_reached_tail_head, keyVars, search, queueVars,
                halted, ups>>

NewLine == line' = <<>> /\ i' = 0 /\ arrow_count' = 0 /\ del_count' = 0
             /\ is_reached_tail_head' = FALSE

EditorInit ==
    /\ line = <<>> /\ i = 0 /\ arrow_count = 0 /\ del_count = 0
    /\ is_reached_tail_head = FALSE
    /\ key = NoKey /\ rest = <<>>
    /\ head = NULL /\ tail = NULL /\ search = NULL
    /\ next = [n \in Node |-> NULL] /\ prev = [n \in Node |-> NULL]
    /\ cmd = [n \in Node |-> <<>>] /\ allocated = {} /\ m_num_hist_cmd = 0
    /\ halted = FALSE /\ entered = 0 /\ ups = 0

Chars == Len(line) + MapThenSumSet(LAMBDA n : Len(cmd[n]), allocated)

PressKey ==
    /\ rest = <<>>
    /\ \E k \in Key :
         /\ k \in PlainKeys => Len(line) < MaxLine /\ Chars < MaxChars
         /\ k = EnterKey => entered < MaxEntered
         /\ key' = k /\ rest' = k
    /\ UNCHANGED <<lineVars, countVars, is_reached_tail_head, search, queueVars, halted, ups>>

\* getchar returns c.
Get(c) ==
    /\ rest # <<>> /\ Head(rest) = c
    /\ rest' = Tail(rest)
    /\ key' = IF Len(rest) = 1 THEN NoKey ELSE key

\* The end of the loop: whatever was counted is over.
EndCounts == arrow_count' = 0 /\ del_count' = 0

Put(c) == line' = InsertAt(line, i + 1, c) /\ i' = i + 1

EditOnly == UNCHANGED <<is_reached_tail_head, search, queueVars, halted, ups>>
-----------------------------------------------------------------------------
GetEscape == Get(Esc) /\ arrow_count' = 1 /\ del_count' = 0 /\ UNCHANGED lineVars /\ EditOnly

GetBracket ==
    /\ Get(91)
    /\ arrow_count' = IF arrow_count = 1 THEN 2 ELSE arrow_count
    /\ del_count' = 0
    /\ IF arrow_count = 0 /\ del_count = 0 THEN Put(91) ELSE UNCHANGED lineVars
    /\ EditOnly

\* The letters that end an escape sequence.
Final == {65, 66, 67, 68, 70, 72}

GetPlain(c) ==
    /\ Get(c) /\ c \in 33..125 \ {51, 91}
    /\ ~(c \in Final /\ arrow_count = 2)
    /\ IF arrow_count = 0 /\ del_count = 0 THEN Put(c) ELSE UNCHANGED lineVars
    /\ EndCounts
    /\ EditOnly

\* Space goes on with the next character before the counters are cleared,
\* and so does Backspace.
GetSpace == Get(32) /\ Put(32) /\ UNCHANGED countVars /\ EditOnly

\* Mutant of GetBackspace: it does not stop at the beginning of the line.
GetBackspaceUnguarded ==
    /\ Get(8)
    /\ line' = RemoveAt(line, i) /\ i' = i - 1
    /\ UNCHANGED countVars
    /\ EditOnly

GetBackspace ==
    /\ Get(8)
    /\ IF i > 0 THEN line' = RemoveAt(line, i) /\ i' = i - 1 ELSE UNCHANGED lineVars
    /\ UNCHANGED countVars
    /\ EditOnly

\* '3', typed or as part of Delete: it is not inserted.
GetThree == Get(51) /\ del_count' = 1 /\ arrow_count' = 0 /\ UNCHANGED lineVars /\ EditOnly

GetTilde ==
    /\ Get(126)
    /\ line' = IF del_count = 1 /\ i < Len(line) THEN RemoveAt(line, i + 1) ELSE line
    /\ i' = i
    /\ EndCounts
    /\ EditOnly

\* Mutant of GetMove: the sequence is not over with its letter.
GetMoveCounting(c, to) ==
    /\ Get(c) /\ arrow_count = 2
    /\ i' = to /\ UNCHANGED line
    /\ UNCHANGED countVars
    /\ EditOnly

GetMove(c, to) ==
    /\ Get(c) /\ arrow_count = 2
    /\ i' = to /\ UNCHANGED line
    /\ EndCounts
    /\ EditOnly

MoveCursor ==
    \/ GetMove(67, IF i < Len(line) THEN i + 1 ELSE i)
    \/ GetMove(68, IF i > 0 THEN i - 1 ELSE i)
    \/ GetMove(72, 0)
    \/ GetMove(70, Len(line))
-----------------------------------------------------------------------------
(***************************************************************************)
(* The arrows                                                              *)
(***************************************************************************)
GetArrow(c) == Get(c) /\ arrow_count = 2 /\ EndCounts /\ UNCHANGED queueVars

\* The line shows entry n; following a null or freed pointer ends the shell.
ShowEntry(n) ==
    IF n \in allocated
    THEN line' = cmd[n] /\ i' = Len(cmd[n]) /\ UNCHANGED halted
    ELSE halted' = TRUE /\ UNCHANGED lineVars

\* Mutant of Step: the end of the list is not noticed.
StepPastEnd(n, end, to) == search' = to[n] /\ is_reached_tail_head' = FALSE

\* search goes one entry further, unless n is the last in that direction.
Step(n, end, to) ==
    IF n # end THEN search' = to[n] /\ is_reached_tail_head' = FALSE
               ELSE search' = n /\ is_reached_tail_head' = TRUE

NothingToSearch(c) ==
    /\ GetArrow(c)
    /\ search = NULL
    /\ UNCHANGED <<lineVars, is_reached_tail_head, search, halted, ups>>

UpArrow ==
    /\ GetArrow(65)
    /\ search # NULL
    /\ LET n == IF search = tail /\ is_reached_tail_head THEN prev[search] ELSE search IN
         /\ ShowEntry(n)
         /\ IF n \in allocated THEN Step(n, head, prev)
                               ELSE UNCHANGED <<search, is_reached_tail_head>>
    /\ ups' = IF ups = -1 \/ ups = m_num_hist_cmd THEN ups ELSE ups + 1

DownArrow ==
    /\ GetArrow(66)
    /\ search # NULL
    /\ \/ /\ search = head /\ is_reached_tail_head
          /\ LET n == next[search] IN
               /\ ShowEntry(n)
               /\ IF n \in allocated
                  THEN search' = next[n] /\ is_reached_tail_head' = FALSE
                  ELSE UNCHANGED <<search, is_reached_tail_head>>
       \/ /\ search # head /\ search = tail /\ is_reached_tail_head
          /\ line' = <<>> /\ i' = 0
          /\ UNCHANGED <<search, is_reached_tail_head, halted>>
       \/ /\ ~(is_reached_tail_head /\ search \in {head, tail})
          /\ ShowEntry(search)
          /\ Step(search, tail, next)
    /\ ups' = -1
-----------------------------------------------------------------------------
(***************************************************************************)
(* Enter, Ctrl-C                                                           *)
(***************************************************************************)
\* add_new_cmd_to_history_queue: the new entry n goes behind the tail; a
\* full queue frees what its second entry calls its predecessor.
AddFirst(n) ==
    /\ m_num_hist_cmd = 0
    /\ head' = n /\ tail' = n
    /\ next' = [next EXCEPT ![n] = NULL] /\ prev' = [prev EXCEPT ![n] = NULL]
    /\ cmd' = [cmd EXCEPT ![n] = line]
    /\ allocated' = allocated \cup {n} /\ m_num_hist_cmd' = 1

Link(n, freed) ==
    /\ next' = [k \in Node |-> IF k = tail THEN n ELSE IF k \in {n} \cup freed THEN NULL ELSE next[k]]
    /\ prev' = [k \in Node |-> IF k = n THEN tail ELSE IF k \in freed THEN NULL ELSE prev[k]]
    /\ cmd' = [k \in Node |-> IF k = n THEN line ELSE IF k \in freed THEN <<>> ELSE cmd[k]]
    /\ tail' = n
    /\ allocated' = (allocated \ freed) \cup {n}

AddLast(n) ==
    /\ m_num_hist_cmd \in 1..(MAX_HISTORY_CMDS - 1)
    /\ Link(n, {}) /\ head' = head
    /\ m_num_hist_cmd' = m_num_hist_cmd + 1

\* Mutant of AddDropping: the new head is freed instead of the old one.
AddDroppingSecond(n) ==
    /\ m_num_hist_cmd = MAX_HISTORY_CMDS
    /\ head' = next[head]
    /\ Link(n, {next[head]})
    /\ m_num_hist_cmd' = m_num_hist_cmd

AddDropping(n) ==
    /\ m_num_hist_cmd = MAX_HISTORY_CMDS
    /\ head' = next[head]
    /\ Link(n, {prev[next[head]]})
    /\ m_num_hist_cmd' = m_num_hist_cmd

\* Which free block malloc takes does not matter: addresses are compared
\* with each other only.
add_new_cmd_to_history_queue ==
    LET n == CHOOSE k \in Node : k \notin allocated IN AddFirst(n) \/ AddLast(n) \/ AddDropping(n)

\* Mutant of EnterLine: search is set only before the line is added.
EnterLineBeforeAdding ==
    /\ Get(10)
    /\ IF line = <<>> THEN UNCHANGED <<head, tail, next, prev, cmd, allocated, m_num_hist_cmd>>
                      ELSE add_new_cmd_to_history_queue
    /\ search' = tail
    /\ entered' = IF line = <<>> THEN entered ELSE entered + 1
    /\ NewLine
    /\ halted' = halted /\ ups' = 0

EnterLine ==
    /\ Get(10)
    /\ IF line = <<>> THEN UNCHANGED <<head, tail, next, prev, cmd, allocated, m_num_hist_cmd>>
                      ELSE add_new_cmd_to_history_queue
    /\ search' = tail'
    /\ entered' = IF line = <<>> THEN entered ELSE entered + 1
    /\ NewLine
    /\ halted' = halted /\ ups' = 0

\* Ctrl-C: getchar fails, the terminal drops what was typed ahead.  search
\* stays where the arrows left it.
GetInterrupt ==
    /\ NewLine
    /\ key' = NoKey /\ rest' = <<>>
    /\ UNCHANGED <<search, queueVars, halted, ups>>
-----------------------------------------------------------------------------
EditorNext ==
    /\ ~halted
    /\ \/ PressKey
       \/ GetEscape \/ GetBracket \/ GetSpace \/ GetBackspace \/ GetThree \/ GetTilde
       \/ \E c \in Typed \cup Final : GetPlain(c)
       \/ MoveCursor
       \/ NothingToSearch(65) \/ NothingToSearch(66) \/ UpArrow \/ DownArrow
       \/ EnterLine \/ GetInterrupt

EditorSpec == EditorInit /\ [][EditorNext]_editorVars
-----------------------------------------------------------------------------
\* The entries from the head on, as local_history walks them.
Walk(h, to, m) ==
    LET e[k \in 1..m] == IF k = 1 THEN h ELSE IF e[k - 1] \in Node THEN to[e[k - 1]] ELSE NULL
    IN  e

Entry == Walk(head, next, m_num_hist_cmd)

History == LET e == Entry IN [k \in 1..m_num_hist_cmd |-> cmd[e[k]]]

\* Type correctness.
EditorTypeOK ==
    /\ line \in Seq(Typed) /\ i \in 0..Len(line)
    /\ arrow_count \in 0..2 /\ del_count \in 0..1 /\ is_reached_tail_head \in BOOLEAN
    /\ key \in Key \cup {NoKey} /\ rest \in Seq(0..126)
    /\ {head, tail, search} \subseteq Node \cup {NULL}
    /\ next \in [Node -> Node \cup {NULL}] /\ prev \in [Node -> Node \cup {NULL}]
    /\ cmd \in [Node -> Seq(Typed)]
    /\ allocated \subseteq Node /\ m_num_hist_cmd \in 0..MAX_HISTORY_CMDS
    /\ halted \in BOOLEAN /\ entered \in Nat /\ ups \in -1..MAX_HISTORY_CMDS

\* The queue is a list: the walk from the head visits every entry that is
\* not freed, once, and ends at the tail; the way back visits the same; and
\* the arrows stand on one of them or nowhere, never on a freed entry.
QueueIsList ==
    LET e == Entry IN
    /\ allocated = {e[k] : k \in 1..m_num_hist_cmd}
    /\ Cardinality(allocated) = m_num_hist_cmd
    /\ m_num_hist_cmd > 0 => e[m_num_hist_cmd] = tail /\ next[tail] = NULL
    /\ \A k \in 2..m_num_hist_cmd : prev[e[k]] = e[k - 1]
    /\ search \in allocated \cup {NULL}

\* The arrows lose the end of the list only when it is very short: with one
\* line a second Up or Down follows a null pointer (shell.c:358, 398), with
\* two lines Down at the oldest steps behind the newest (402) and the
\* arrows stay dead until the next Enter.  With more lines neither happens.
ShortHistoryOnly ==
    /\ halted => m_num_hist_cmd = 1
    /\ search = NULL => m_num_hist_cmd \in {0, 2}

\* Since the last Enter, and with no Down between, every Up shows the next
\* older line, from the newest to the oldest, and stays there, as long as
\* there are two.  This counts on across a Ctrl-C: the line is dropped, the
\* place in the history is not (shell.c:591-603), so the first Up at the new
\* prompt shows the line before the one shown last, and never a freed one.
UpGoesBack ==
    [][UpArrow /\ ups >= 0 /\ m_num_hist_cmd > 1 =>
         line' = History[IF ups < m_num_hist_cmd THEN m_num_hist_cmd - ups ELSE 1]]_editorVars

\* The editor does to line and history what LineEditing says of the keys,
\* although it sees characters and keeps pointers: no counter of one key is
\* taken for the next, whatever is typed, but for the '3' and '~' that
\* LineEditing names.
AsKeys(text) == [k \in DOMAIN text |-> <<text[k]>>]

Editing == INSTANCE LineEditing WITH
    Plain <- PlainKeys, Space <- <<32>>, Three <- <<51>>, Tilde <- <<126>>,
    Up <- UpKey, Down <- DownKey, Left <- LeftKey, Right <- RightKey,
    Home <- HomeKey, End <- EndKey, Delete <- DeleteKey, Backspace <- BackspaceKey,
    Enter <- EnterKey, MaxHistory <- MAX_HISTORY_CMDS,
    line <- AsKeys(line), cursor <- i,
    history <- [k \in DOMAIN History |-> AsKeys(History[k])],
    swallowing <- del_count = 1 /\ key \notin CodedKeys

ImplementsLineEditing == Editing!EditSpec
=============================================================================
