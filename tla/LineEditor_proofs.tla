------------------------- MODULE LineEditor_proofs --------------------------
(***************************************************************************)
(* The line editor and its history for every length of the history, every  *)
(* set of characters and every number of lines: what the runs check on     *)
(* three entries, and that the editor implements LineEditing.              *)
(***************************************************************************)
EXTENDS LineEditor, SearchTree_proofs, FiniteSetTheorems

\* The counters say how much of an escape sequence has been read: what is
\* left of a key determines them, but del_count between two keys, which tells
\* of a '3' that was typed (shell.c:480).
KeyInv ==
    \/ /\ \/ key = NoKey /\ rest = <<>>
          \/ key \in Key /\ rest = key
       /\ arrow_count = 0
    \/ /\ \E c \in Final :
            /\ key = Csi(c)
            /\ \/ rest = <<91, c>> /\ arrow_count = 1
               \/ rest = <<c>> /\ arrow_count = 2
       /\ del_count = 0
    \/ /\ key = DeleteKey
       /\ \/ rest = <<91, 51, 126>> /\ arrow_count = 1 /\ del_count = 0
          \/ rest = <<51, 126>> /\ arrow_count = 2 /\ del_count = 0
          \/ rest = <<126>> /\ arrow_count = 0 /\ del_count = 1

\* e is the doubly linked list of m entries from h to t that holds exactly S.
\* Behind h, prev says nothing: it may be an entry freed or taken again.
Linked(e, h, t, to, back, m, S) ==
    /\ e \in [1..m -> Node]
    /\ \A j, k \in 1..m : e[j] = e[k] => j = k
    /\ S = {e[k] : k \in 1..m}
    /\ \A k \in 2..m : e[k] = to[e[k - 1]] /\ back[e[k]] = e[k - 1]
    /\ IF m = 0 THEN t = NULL ELSE e[1] = h /\ e[m] = t /\ to[t] = NULL

ListInv == Linked(Entry, head, tail, next, prev, m_num_hist_cmd, allocated)

\* Where the arrows stand, and that Up has come as far as ups says.
SearchInv ==
    /\ search \in allocated \cup {NULL}
    /\ ShortHistoryOnly
    /\ ups \in -1..m_num_hist_cmd
    /\ ups >= 0 /\ m_num_hist_cmd > 1 =>
         IF ups < m_num_hist_cmd
         THEN search = Entry[m_num_hist_cmd - ups] /\ ~is_reached_tail_head
         ELSE search = Entry[1]

EditorInv == EditorTypeOK /\ KeyInv /\ ListInv /\ SearchInv
-----------------------------------------------------------------------------
\* The least element of a set of numbers.
LEMMA LeastElement ==
    ASSUME NEW S \in SUBSET Nat, S # {}
    PROVE  \E x \in S : \A y \in S : x <= y
<1> DEFINE T == {1..x : x \in S}
           R == StrictSubsetOrdering(Nat)
<1>1. T \subseteq FiniteSubsetsOf(Nat) /\ T # {}
  <2>1. ASSUME NEW x \in S PROVE 1..x \in FiniteSubsetsOf(Nat)
    <3>1. x \in Int /\ 1 \in Int
      OBVIOUS
    <3>2. IsFiniteSet(1..x)
      BY <3>1, FS_Interval
    <3>3. 1..x \in SUBSET Nat
      BY <3>1
    <3> QED BY <3>2, <3>3 DEF FiniteSubsetsOf
  <2> QED BY <2>1
<1>2. \E X \in T : \A Y \in T : <<Y, X>> \notin R
  <2> HIDE DEF T, R
  <2> QED BY <1>1, FS_StrictSubsetOrderingWellFounded, WFMin DEF R
<1>3. PICK x \in S : \A y \in S : <<1..y, 1..x>> \notin R
  BY <1>2
<1>4. ASSUME NEW y \in S, y < x PROVE FALSE
  <2>1. 1..y \in SUBSET Nat /\ 1..x \in SUBSET Nat /\ 1..y \subseteq 1..x
    BY <1>4
  <2>2. x \in 1..x /\ x \notin 1..y
    BY <1>4
  <2> QED BY <2>1, <2>2, <1>3 DEF StrictSubsetOrdering
<1> QED BY <1>4

\* Whatever follows the pointers from h is the walk.
LEMMA WalkIs ==
    ASSUME NEW m \in Nat, NEW h, NEW to, NEW e,
           e = [k \in 1..m |-> IF k = 1 THEN h
                               ELSE IF e[k - 1] \in Node THEN to[e[k - 1]] ELSE NULL]
    PROVE  Walk(h, to, m) = e
<1> DEFINE IsWalk(f) == f = [k \in 1..m |-> IF k = 1 THEN h
                               ELSE IF f[k - 1] \in Node THEN to[f[k - 1]] ELSE NULL]
<1>1. PICK w : w = Walk(h, to, m)
  OBVIOUS
<1>2. IsWalk(w)
  BY <1>1 DEF Walk
<1>3. ASSUME NEW k \in 1..m, w[k] # e[k] PROVE FALSE
  <2> DEFINE D == {j \in 1..m : w[j] # e[j]}
  <2>1. PICK j \in D : \A y \in D : j <= y
    <3>1. D \in SUBSET Nat /\ D # {}
      BY <1>3
    <3> HIDE DEF D
    <3> QED BY <3>1, LeastElement
  <2>2. CASE j = 1
    BY <1>2, <2>2, <2>1
  <2>3. CASE j # 1
    <3>1. j - 1 \in 1..m /\ w[j - 1] = e[j - 1]
      BY <2>1, <2>3
    <3> QED BY <1>2, <2>1, <2>3, <3>1
  <2> QED BY <2>2, <2>3
<1>4. w = [k \in 1..m |-> w[k]] /\ e = [k \in 1..m |-> e[k]]
  BY <1>2
<1> QED BY <1>1, <1>3, <1>4

LEMMA LinkedIsWalk ==
    ASSUME NEW m \in Nat, NEW h, NEW t, NEW to, NEW back, NEW S, NEW e,
           Linked(e, h, t, to, back, m, S)
    PROVE  Walk(h, to, m) = e
<1>1. e \in [1..m -> Node] /\ (m > 0 => e[1] = h) /\ \A k \in 2..m : e[k] = to[e[k - 1]]
  BY DEF Linked
<1>2. ASSUME NEW k \in 1..m
      PROVE  e[k] = IF k = 1 THEN h ELSE IF e[k - 1] \in Node THEN to[e[k - 1]] ELSE NULL
  <2>1. CASE k = 1
    BY <1>1, <2>1
  <2>2. CASE k # 1
    <3>1. k \in 2..m /\ k - 1 \in 1..m
      BY <2>2
    <3> QED BY <1>1, <2>2, <3>1
  <2> QED BY <2>1, <2>2
<1>3. e = [k \in 1..m |-> IF k = 1 THEN h ELSE IF e[k - 1] \in Node THEN to[e[k - 1]] ELSE NULL]
  BY <1>1, <1>2
<1> QED BY <1>3, WalkIs

\* A list of m entries uses m blocks.
LEMMA LinkedSize ==
    ASSUME NEW m \in Nat, NEW h, NEW t, NEW to, NEW back, NEW S, NEW e,
           Linked(e, h, t, to, back, m, S)
    PROVE  S \subseteq Node /\ IsFiniteSet(S) /\ Cardinality(S) = m
<1>1. e \in Bijection(1..m, S)
  BY DEF Linked, Bijection, Injection, Surjection, IsInjective
<1>2. ExistsBijection(1..m, S)
  BY <1>1 DEF ExistsBijection
<1> QED BY <1>2, FS_NatBijection, FS_CountingElements DEF Linked

\* malloc finds a block: history entries are never more than MAX_HISTORY_CMDS.
LEMMA FreeBlock ==
    ASSUME NEW m \in 0..MAX_HISTORY_CMDS, NEW S \in SUBSET Node, IsFiniteSet(S), Cardinality(S) = m
    PROVE  (CHOOSE k \in Node : k \notin S) \in Node \ S
<1>1. ASSUME S = Node PROVE FALSE
  BY <1>1, NodeAssumption, HistoryAssumption
<1> QED BY <1>1

\* How add_new_cmd_to_history_queue links the first entry, and one behind the tail.
LEMMA LinkFirst ==
    ASSUME NEW n \in Node, NEW to, NEW back, to[n] = NULL
    PROVE  Linked([k \in 1..1 |-> n], n, n, to, back, 1, {n})
  BY DEF Linked

LEMMA LinkLast ==
    ASSUME NEW m \in Nat \ {0}, NEW h, NEW t, NEW to, NEW back, NEW S, NEW e,
           Linked(e, h, t, to, back, m, S),
           NEW n \in Node \ S, NEW to2, NEW back2,
           \A k \in Node : to2[k] = IF k = t THEN n ELSE IF k = n THEN NULL ELSE to[k],
           \A k \in Node : back2[k] = IF k = n THEN t ELSE back[k]
    PROVE  Linked([k \in 1..(m + 1) |-> IF k <= m THEN e[k] ELSE n], h, n, to2, back2, m + 1,
                  S \cup {n})
<1> DEFINE f == [k \in 1..(m + 1) |-> IF k <= m THEN e[k] ELSE n]
<1>1. /\ e \in [1..m -> Node] /\ e[1] = h /\ e[m] = t
      /\ \A j, k \in 1..m : e[j] = e[k] => j = k
      /\ S = {e[k] : k \in 1..m}
      /\ \A k \in 2..m : e[k] = to[e[k - 1]] /\ back[e[k]] = e[k - 1]
  BY DEF Linked
<1>2. f \in [1..(m + 1) -> Node] /\ f[1] = h /\ f[m + 1] = n /\ to2[n] = NULL
  <2>1. n # t
    BY <1>1
  <2> QED BY <1>1, <2>1
<1>3. ASSUME NEW j \in 1..(m + 1), NEW k \in 1..(m + 1), f[j] = f[k] PROVE j = k
  <2>1. \A l \in 1..m : e[l] # n
    BY <1>1
  <2> QED BY <1>1, <1>3, <2>1
<1>4. S \cup {n} = {f[k] : k \in 1..(m + 1)}
  <2>1. \A k \in 1..m : f[k] = e[k] /\ k \in 1..(m + 1)
    OBVIOUS
  <2>2. f[m + 1] = n /\ \A k \in 1..(m + 1) : k \in 1..m \/ k = m + 1
    OBVIOUS
  <2>3. m + 1 \in 1..(m + 1)
    OBVIOUS
  <2> HIDE DEF f
  <2> QED BY <1>1, <2>1, <2>2, <2>3
<1>5. ASSUME NEW k \in 2..(m + 1) PROVE f[k] = to2[f[k - 1]] /\ back2[f[k]] = f[k - 1]
  <2>1. CASE k = m + 1
    <3>1. f[k] = n /\ f[k - 1] = t
      BY <1>1, <2>1
    <3>2. t \in Node
      BY <1>1
    <3> HIDE DEF f
    <3> QED BY <3>1, <3>2
  <2>2. CASE k # m + 1
    <3>1. k \in 2..m /\ k - 1 \in 1..m /\ f[k] = e[k] /\ f[k - 1] = e[k - 1]
      BY <2>2
    <3>2. e[k - 1] # t /\ e[k - 1] # n /\ e[k] # n /\ e[k] \in Node /\ e[k - 1] \in Node
      BY <1>1, <3>1
    <3> HIDE DEF f
    <3> QED BY <1>1, <3>1, <3>2
  <2> QED BY <2>1, <2>2
<1> HIDE DEF f
<1>6. Linked(f, h, n, to2, back2, m + 1, S \cup {n})
  BY <1>2, <1>3, <1>4, <1>5 DEF Linked
<1> QED BY <1>6 DEF f
-----------------------------------------------------------------------------
\* What getchar can return, and what the counters are then: all of a key of
\* one character, or the next one of an escape sequence.
Reads(c) ==
    \/ /\ c \in Typed \cup {8, 10} /\ key = <<c>> /\ key' = NoKey /\ rest' = <<>>
       /\ arrow_count = 0
    \/ /\ c = Esc /\ key' = key
       /\ \/ \E d \in Final : key = Csi(d) /\ rest' = <<91, d>>
          \/ key = DeleteKey /\ rest' = <<91, 51, 126>>
    \/ /\ c = 91 /\ arrow_count = 1 /\ del_count = 0 /\ key' = key
       /\ \/ \E d \in Final : key = Csi(d) /\ rest' = <<d>>
          \/ key = DeleteKey /\ rest' = <<51, 126>>
    \/ c \in Final /\ arrow_count = 2 /\ key = Csi(c) /\ key' = NoKey /\ rest' = <<>>
    \/ c = 51 /\ arrow_count = 2 /\ key = DeleteKey /\ key' = key /\ rest' = <<126>>
    \/ c = 126 /\ del_count = 1 /\ key = DeleteKey /\ key' = NoKey /\ rest' = <<>>

LEMMA KeyForms ==
    ASSUME NEW k \in Key
    PROVE  \/ \E c \in Typed \cup {8, 10} : k = <<c>>
           \/ \E d \in Final : k = Csi(d)
           \/ k = DeleteKey
  BY DEF Key, PlainKeys, CodedKeys, UpKey, DownKey, RightKey, LeftKey, EndKey, HomeKey, Final,
         BackspaceKey, EnterKey

LEMMA KeysOfForm ==
    /\ \A c \in Typed \cup {8, 10} : <<c>> \in Key
    /\ \A d \in Final : Csi(d) \in Key
    /\ DeleteKey \in Key
  BY DEF Key, PlainKeys, CodedKeys, UpKey, DownKey, RightKey, LeftKey, EndKey, HomeKey, Final,
         BackspaceKey, EnterKey

LEMMA GetReads ==
    ASSUME KeyInv, NEW c, Get(c)
    PROVE  Reads(c)
<1>1. rest # <<>> /\ c = Head(rest) /\ rest' = Tail(rest)
      /\ key' = IF Len(rest) = 1 THEN NoKey ELSE key
  BY DEF Get
<1>2. CASE key \in Key /\ rest = key /\ arrow_count = 0
  <2>1. CASE \E d \in Typed \cup {8, 10} : key = <<d>>
    <3>1. PICK d \in Typed \cup {8, 10} : key = <<d>>
      BY <2>1
    <3>2. c = d /\ rest' = <<>> /\ key' = NoKey
      BY <1>1, <1>2, <3>1
    <3> QED BY <1>2, <3>1, <3>2 DEF Reads
  <2>2. CASE \E d \in Final : key = Csi(d)
    <3>1. PICK d \in Final : key = <<Esc, 91, d>>
      BY <2>2 DEF Csi
    <3>2. c = Esc /\ rest' = <<91, d>> /\ key' = key
      BY <1>1, <1>2, <3>1
    <3> QED BY <3>1, <3>2 DEF Reads, Csi
  <2>3. CASE key = DeleteKey
    <3>1. c = Esc /\ rest' = <<91, 51, 126>> /\ key' = key
      BY <1>1, <1>2, <2>3 DEF DeleteKey
    <3> QED BY <2>3, <3>1 DEF Reads
  <2> QED BY <1>2, <2>1, <2>2, <2>3, KeyForms
<1>3. ASSUME NEW d \in Final, key = Csi(d), del_count = 0,
             \/ rest = <<91, d>> /\ arrow_count = 1
             \/ rest = <<d>> /\ arrow_count = 2
      PROVE  Reads(c)
  <2>1. CASE rest = <<91, d>> /\ arrow_count = 1
    <3>1. c = 91 /\ rest' = <<d>> /\ key' = key
      BY <1>1, <2>1
    <3> QED BY <1>3, <2>1, <3>1 DEF Reads
  <2>2. CASE rest = <<d>> /\ arrow_count = 2
    <3>1. c = d /\ rest' = <<>> /\ key' = NoKey
      BY <1>1, <2>2
    <3> QED BY <1>3, <2>2, <3>1 DEF Reads
  <2> QED BY <1>3, <2>1, <2>2
<1>4. CASE key = DeleteKey /\ rest = <<91, 51, 126>> /\ arrow_count = 1 /\ del_count = 0
  <2>1. c = 91 /\ rest' = <<51, 126>> /\ key' = key
    BY <1>1, <1>4
  <2> QED BY <1>4, <2>1 DEF Reads
<1>5. CASE key = DeleteKey /\ rest = <<51, 126>> /\ arrow_count = 2
  <2>1. c = 51 /\ rest' = <<126>> /\ key' = key
    BY <1>1, <1>5
  <2> QED BY <1>5, <2>1 DEF Reads
<1>6. CASE key = DeleteKey /\ rest = <<126>> /\ del_count = 1
  <2>1. c = 126 /\ rest' = <<>> /\ key' = NoKey
    BY <1>1, <1>6
  <2> QED BY <1>6, <2>1 DEF Reads
<1> QED BY <1>1, <1>2, <1>3, <1>4, <1>5, <1>6 DEF KeyInv

LEMMA TypedCodes ==
    Typed \subseteq 32..126
  BY TypedAssumption

\* The key is over and so are its counts.
LEMMA KeyOver ==
    ASSUME key' = NoKey, rest' = <<>>, arrow_count' = 0
    PROVE  KeyInv'
  BY DEF KeyInv

LEMMA KeyInitially == EditorInit => KeyInv
  BY DEF EditorInit, KeyInv

LEMMA KeyPress == KeyInv /\ PressKey => KeyInv'
<1> SUFFICES ASSUME KeyInv, PressKey PROVE KeyInv'
  OBVIOUS
<1>1. rest = <<>> /\ key' \in Key /\ rest' = key' /\ UNCHANGED <<arrow_count, del_count>>
  BY DEF PressKey, countVars
<1>2. arrow_count = 0
  BY <1>1 DEF KeyInv
<1> QED BY <1>1, <1>2 DEF KeyInv

LEMMA KeyRead ==
    ASSUME KeyInv,
           \/ GetEscape \/ GetBracket \/ GetSpace \/ GetBackspace \/ GetThree \/ GetTilde
           \/ \E c \in Typed \cup Final : GetPlain(c)
           \/ MoveCursor
           \/ NothingToSearch(65) \/ NothingToSearch(66) \/ UpArrow \/ DownArrow
           \/ EnterLine \/ GetInterrupt
    PROVE  KeyInv'
<1>1. CASE GetEscape
  <2>1. Reads(Esc) /\ arrow_count' = 1 /\ del_count' = 0
    BY <1>1, GetReads DEF GetEscape
  <2>2. key' = key /\ \/ \E d \in Final : key = Csi(d) /\ rest' = <<91, d>>
                      \/ key = DeleteKey /\ rest' = <<91, 51, 126>>
    BY <2>1, TypedCodes DEF Reads, Esc, Final
  <2> QED BY <2>1, <2>2 DEF KeyInv
<1>2. CASE GetBracket
  <2>1. Reads(91) /\ arrow_count' = (IF arrow_count = 1 THEN 2 ELSE arrow_count) /\ del_count' = 0
    BY <1>2, GetReads DEF GetBracket
  <2>2. CASE arrow_count = 1
    <3>1. key' = key /\ \/ \E d \in Final : key = Csi(d) /\ rest' = <<d>>
                        \/ key = DeleteKey /\ rest' = <<51, 126>>
      BY <2>1, <2>2 DEF Reads, Esc, Final
    <3> QED BY <2>1, <2>2, <3>1 DEF KeyInv
  <2>3. CASE arrow_count # 1
    <3>1. key' = NoKey /\ rest' = <<>> /\ arrow_count = 0
      BY <2>1, <2>3 DEF Reads, Esc, Final
    <3> QED BY <2>1, <3>1, KeyOver
  <2> QED BY <2>2, <2>3
<1>3. ASSUME NEW c \in Typed \cup Final, GetPlain(c) PROVE KeyInv'
  <2>1. Reads(c) /\ c \in 33..125 \ {51, 91} /\ ~(c \in Final /\ arrow_count = 2) /\ EndCounts
    BY <1>3, GetReads DEF GetPlain
  <2>2. key' = NoKey /\ rest' = <<>>
    BY <2>1 DEF Reads, Esc
  <2> QED BY <2>1, <2>2, KeyOver DEF EndCounts
<1>4. CASE GetSpace \/ GetBackspace
  <2>1. PICK c \in {8, 32} : Reads(c) /\ UNCHANGED countVars
    BY <1>4, GetReads DEF GetSpace, GetBackspace
  <2>2. key' = NoKey /\ rest' = <<>> /\ arrow_count = 0
    BY <2>1 DEF Reads, Esc, Final
  <2> QED BY <2>1, <2>2, KeyOver DEF countVars
<1>5. CASE GetThree
  <2>1. Reads(51) /\ arrow_count' = 0 /\ del_count' = 1
    BY <1>5, GetReads DEF GetThree
  <2>2. CASE 51 \in Typed /\ key' = NoKey /\ rest' = <<>>
    BY <2>1, <2>2, KeyOver
  <2>3. CASE key' = DeleteKey /\ rest' = <<126>>
    BY <2>1, <2>3 DEF KeyInv
  <2> QED BY <2>1, <2>2, <2>3 DEF Reads, Esc, Final
<1>6. CASE GetTilde
  <2>1. Reads(126) /\ EndCounts
    BY <1>6, GetReads DEF GetTilde
  <2>2. key' = NoKey /\ rest' = <<>>
    BY <2>1 DEF Reads, Esc, Final
  <2> QED BY <2>1, <2>2, KeyOver DEF EndCounts
<1>7. CASE MoveCursor \/ NothingToSearch(65) \/ NothingToSearch(66) \/ UpArrow \/ DownArrow
  <2>1. PICK c \in Final : Get(c) /\ arrow_count = 2 /\ EndCounts
    BY <1>7 DEF MoveCursor, GetMove, NothingToSearch, UpArrow, DownArrow, GetArrow, Final
  <2>2. Reads(c)
    BY <2>1, GetReads
  <2>3. key' = NoKey /\ rest' = <<>>
    BY <2>1, <2>2 DEF Reads, Esc, Final
  <2> QED BY <2>1, <2>3, KeyOver DEF EndCounts
<1>8. CASE EnterLine
  <2>1. Reads(10) /\ NewLine
    BY <1>8, GetReads DEF EnterLine
  <2>2. key' = NoKey /\ rest' = <<>>
    BY <2>1 DEF Reads, Esc, Final
  <2> QED BY <2>1, <2>2, KeyOver DEF NewLine
<1>9. CASE GetInterrupt
  BY <1>9, KeyOver DEF GetInterrupt, NewLine
<1> QED BY <1>1, <1>2, <1>3, <1>4, <1>5, <1>6, <1>7, <1>8, <1>9

LEMMA KeyNext == KeyInv /\ EditorNext => KeyInv'
  BY KeyPress, KeyRead DEF EditorNext
-----------------------------------------------------------------------------
\* The list after a line has been added, entry by entry.
LEMMA QueueTypes ==
    ASSUME EditorTypeOK
    PROVE  /\ m_num_hist_cmd \in 0..MAX_HISTORY_CMDS /\ m_num_hist_cmd \in Nat
           /\ MAX_HISTORY_CMDS \in Nat \ {0, 1}
           /\ head \in Node \cup {NULL} /\ tail \in Node \cup {NULL} /\ search \in Node \cup {NULL}
           /\ next \in [Node -> Node \cup {NULL}] /\ prev \in [Node -> Node \cup {NULL}]
           /\ cmd \in [Node -> Seq(Typed)] /\ line \in Seq(Typed) /\ NULL \notin Node
  BY HistoryAssumption, NodeAssumption DEF EditorTypeOK

LEMMA EntriesListed ==
    ASSUME EditorTypeOK, ListInv
    PROVE  /\ Entry \in [1..m_num_hist_cmd -> Node]
           /\ \A j, k \in 1..m_num_hist_cmd : Entry[j] = Entry[k] => j = k
           /\ allocated = {Entry[k] : k \in 1..m_num_hist_cmd}
           /\ \A k \in 2..m_num_hist_cmd :
                Entry[k] = next[Entry[k - 1]] /\ prev[Entry[k]] = Entry[k - 1]
           /\ m_num_hist_cmd = 0 => tail = NULL /\ allocated = {}
           /\ m_num_hist_cmd > 0 => /\ Entry[1] = head /\ Entry[m_num_hist_cmd] = tail
                                   /\ next[tail] = NULL /\ head \in allocated /\ tail \in allocated
<1>1. m_num_hist_cmd \in Nat
  BY QueueTypes
<1>2. m_num_hist_cmd > 0 => 1 \in 1..m_num_hist_cmd /\ m_num_hist_cmd \in 1..m_num_hist_cmd
  BY <1>1
<1> QED BY <1>1, <1>2 DEF ListInv, Linked

LEMMA FirstAdded ==
    ASSUME EditorTypeOK, ListInv, NEW n \in Node \ allocated, AddFirst(n)
    PROVE  m_num_hist_cmd' = 1 /\ ListInv' /\ Entry' = [k \in 1..1 |-> n]
<1>1. Linked([k \in 1..1 |-> n], head', tail', next', prev', m_num_hist_cmd', allocated')
  <2>1. allocated = {} /\ next'[n] = NULL
    BY EntriesListed, QueueTypes DEF AddFirst
  <2> QED BY <2>1, LinkFirst DEF AddFirst
<1>2. m_num_hist_cmd' = 1 /\ 1 \in Nat
  BY DEF AddFirst
<1>3. Walk(head', next', m_num_hist_cmd') = [k \in 1..1 |-> n]
  BY <1>1, <1>2, LinkedIsWalk
<1> QED BY <1>1, <1>2, <1>3 DEF ListInv, Entry

LEMMA LastAdded ==
    ASSUME EditorTypeOK, ListInv, NEW n \in Node \ allocated, AddLast(n)
    PROVE  /\ m_num_hist_cmd' = m_num_hist_cmd + 1 /\ ListInv'
           /\ Entry' = [k \in 1..(m_num_hist_cmd + 1) |->
                          IF k <= m_num_hist_cmd THEN Entry[k] ELSE n]
<1> DEFINE f == [k \in 1..(m_num_hist_cmd + 1) |-> IF k <= m_num_hist_cmd THEN Entry[k] ELSE n]
<1>1. /\ m_num_hist_cmd \in Nat \ {0} /\ m_num_hist_cmd' = m_num_hist_cmd + 1
      /\ head' = head /\ tail' = n /\ allocated' = allocated \cup {n}
      /\ \A k \in Node : next'[k] = IF k = tail THEN n ELSE IF k = n THEN NULL ELSE next[k]
      /\ \A k \in Node : prev'[k] = IF k = n THEN tail ELSE prev[k]
  BY QueueTypes DEF AddLast, Link
<1>2. Linked(Entry, head, tail, next, prev, m_num_hist_cmd, allocated)
  BY DEF ListInv
<1>3. Linked(f, head', tail', next', prev', m_num_hist_cmd', allocated')
  BY <1>1, <1>2, LinkLast
<1>4. m_num_hist_cmd' \in Nat
  BY <1>1
<1>5. Walk(head', next', m_num_hist_cmd') = f
  BY <1>3, <1>4, LinkedIsWalk
<1> HIDE DEF f
<1>6. Entry' = f
  BY <1>5 DEF Entry
<1>7. ListInv'
  BY <1>3, <1>6 DEF ListInv
<1> QED BY <1>1, <1>6, <1>7 DEF f

LEMMA DroppingAdded ==
    ASSUME EditorTypeOK, ListInv, NEW n \in Node \ allocated, AddDropping(n)
    PROVE  /\ m_num_hist_cmd' = m_num_hist_cmd /\ ListInv'
           /\ head \in allocated /\ allocated' = (allocated \ {head}) \cup {n} /\ head' = next[head]
           /\ prev[next[head]] = head
           /\ Entry' = [k \in 1..m_num_hist_cmd |-> IF k < m_num_hist_cmd THEN Entry[k + 1] ELSE n]
<1> DEFINE m == m_num_hist_cmd
           e == Entry
           f == [k \in 1..m |-> IF k < m THEN e[k + 1] ELSE n]
<1>1. /\ m \in Nat \ {0, 1} /\ m_num_hist_cmd' = m
      /\ e \in [1..m -> Node] /\ e[1] = head /\ e[m] = tail
      /\ \A j, k \in 1..m : e[j] = e[k] => j = k
      /\ allocated = {e[k] : k \in 1..m}
      /\ \A k \in 2..m : e[k] = next[e[k - 1]] /\ prev[e[k]] = e[k - 1]
  BY QueueTypes, EntriesListed DEF AddDropping
<1>2. head \in allocated /\ prev[next[head]] = head
  <2>1. 2 \in 2..m /\ 2 - 1 = 1 /\ 1 \in 1..m
    BY <1>1
  <2>2. e[2] = next[e[2 - 1]] /\ prev[e[2]] = e[2 - 1]
    BY <1>1, <2>1
  <2> QED BY <1>1, <2>1, <2>2
<1>3. /\ head' = next[head] /\ tail' = n /\ allocated' = (allocated \ {head}) \cup {n}
      /\ \A k \in Node : next'[k] = IF k = tail THEN n ELSE IF k \in {n, head} THEN NULL ELSE next[k]
      /\ \A k \in Node : prev'[k] = IF k = n THEN tail ELSE IF k = head THEN NULL ELSE prev[k]
  BY <1>2 DEF AddDropping, Link
<1>4. \A k \in 1..m : e[k] # n /\ (e[k] = head => k = 1) /\ (e[k] = tail => k = m)
  BY <1>1
<1>5. \A k \in 1..(m - 1) : f[k] = e[k + 1] /\ k + 1 \in 2..m /\ k \in 1..m
  BY <1>1
<1>6. f[m] = n /\ m \in 1..m /\ \A k \in 1..m : k = m \/ k \in 1..(m - 1)
  BY <1>1
<1>7. f \in [1..m -> Node]
  BY <1>1
<1> HIDE DEF f
<1>8. f[1] = head' /\ next'[n] = NULL
  <2>1. 1 \in 1..(m - 1) /\ 2 \in 2..m /\ 2 - 1 = 1 /\ 1 + 1 = 2
    BY <1>1
  <2>2. f[1] = e[1 + 1] /\ e[2] = next[e[2 - 1]]
    BY <1>1, <1>5, <2>1
  <2>3. n # tail
    BY <1>1, <1>4
  <2> QED BY <1>1, <1>3, <2>1, <2>2, <2>3
<1>9. ASSUME NEW j \in 1..m, NEW k \in 1..m, f[j] = f[k] PROVE j = k
  <2>1. CASE j = m \/ k = m
    BY <1>1, <1>4, <1>5, <1>6, <1>9, <2>1
  <2>2. CASE j \in 1..(m - 1) /\ k \in 1..(m - 1)
    <3>1. e[j + 1] = e[k + 1] /\ j + 1 \in 1..m /\ k + 1 \in 1..m
      BY <1>1, <1>5, <1>9, <2>2
    <3>2. j + 1 = k + 1
      BY <1>1, <3>1
    <3> QED BY <3>2
  <2> QED BY <1>6, <2>1, <2>2
<1>10. allocated' = {f[k] : k \in 1..m}
  <2>1. ASSUME NEW x \in allocated \ {head} PROVE \E k \in 1..m : x = f[k]
    <3>1. PICK k \in 2..m : x = e[k]
      BY <1>1
    <3>2. k - 1 \in 1..(m - 1) /\ (k - 1) + 1 = k
      BY <1>1
    <3> QED BY <1>1, <1>5, <3>1, <3>2
  <2>2. ASSUME NEW k \in 1..(m - 1) PROVE f[k] \in allocated \ {head}
    <3>1. k + 1 \in 1..m /\ k + 1 # 1
      BY <1>1
    <3> QED BY <1>1, <1>4, <1>5, <3>1
  <2>3. ASSUME NEW k \in 1..m PROVE f[k] \in allocated'
    BY <1>1, <1>3, <1>6, <2>2
  <2> QED BY <1>3, <1>6, <2>1, <2>3
<1>11. ASSUME NEW k \in 2..m PROVE f[k] = next'[f[k - 1]] /\ prev'[f[k]] = f[k - 1]
  <2>1. CASE k = m
    <3>1. k - 1 \in 1..(m - 1) /\ (k - 1) + 1 = m
      BY <1>1, <2>1
    <3>2. f[k] = n /\ f[k - 1] = tail
      BY <1>1, <1>5, <1>6, <2>1, <3>1
    <3>3. tail \in Node
      BY <1>1
    <3> QED BY <1>3, <1>4, <3>2, <3>3
  <2>2. CASE k # m
    <3>1. k \in 1..(m - 1) /\ k - 1 \in 1..(m - 1) /\ (k - 1) + 1 = k /\ k + 1 \in 2..m /\ (k + 1) - 1 = k
      BY <1>1, <2>2
    <3>2. f[k] = e[k + 1] /\ f[k - 1] = e[k]
      BY <1>1, <1>5, <3>1
    <3>3. k \in 1..m /\ k + 1 \in 1..m /\ k # 1 /\ k + 1 # 1
      BY <1>1, <3>1
    <3>4. e[k] # tail /\ e[k] \notin {n, head} /\ e[k + 1] \notin {n, head} /\ e[k] \in Node /\ e[k + 1] \in Node
      BY <1>1, <1>4, <2>2, <3>3
    <3> QED BY <1>1, <1>3, <3>1, <3>2, <3>4
  <2> QED BY <2>1, <2>2
<1>12. Linked(f, head', tail', next', prev', m_num_hist_cmd', allocated')
  BY <1>1, <1>3, <1>6, <1>7, <1>8, <1>9, <1>10, <1>11 DEF Linked
<1>13. m_num_hist_cmd' \in Nat
  BY <1>1
<1>14. Walk(head', next', m_num_hist_cmd') = f
  BY <1>12, <1>13, LinkedIsWalk
<1>15. Entry' = f
  BY <1>14 DEF Entry
<1>16. ListInv'
  BY <1>12, <1>15 DEF ListInv
<1> QED BY <1>1, <1>2, <1>3, <1>15, <1>16 DEF f

\* malloc's block is not one of the entries.
LEMMA AddedWhat ==
    ASSUME EditorTypeOK, ListInv, add_new_cmd_to_history_queue
    PROVE  \E n \in Node \ allocated : AddFirst(n) \/ AddLast(n) \/ AddDropping(n)
<1>1. m_num_hist_cmd \in 0..MAX_HISTORY_CMDS /\ m_num_hist_cmd \in Nat
  BY QueueTypes
<1>2. allocated \subseteq Node /\ IsFiniteSet(allocated) /\ Cardinality(allocated) = m_num_hist_cmd
  BY <1>1, LinkedSize DEF ListInv
<1>3. (CHOOSE k \in Node : k \notin allocated) \in Node \ allocated
  BY <1>1, <1>2, FreeBlock
<1> QED BY <1>3 DEF add_new_cmd_to_history_queue
-----------------------------------------------------------------------------
\* The line holds what was typed, and the cursor stands in it.
LineOK == line \in Seq(Typed) /\ i \in 0..Len(line)

LEMMA PutTyped ==
    ASSUME LineOK, NEW c \in Typed, Put(c)
    PROVE  LineOK'
<1>1. Len(line) \in Nat /\ i + 1 \in 1..(Len(line) + 1)
  BY DEF LineOK
<1>2. line' \in Seq(Typed) /\ Len(line') = Len(line) + 1
  BY <1>1, InsertAtElements DEF LineOK, Put
<1> QED BY <1>1, <1>2 DEF LineOK, Put

LEMMA RemovedTyped ==
    ASSUME LineOK, NEW p \in 1..Len(line), line' = RemoveAt(line, p), i' \in 0..(Len(line) - 1)
    PROVE  LineOK'
<1>1. line' \in Seq(Typed) /\ Len(line') = Len(line) - 1
  BY RemoveAtElements DEF LineOK
<1> QED BY <1>1 DEF LineOK

LEMMA ShownTyped ==
    ASSUME LineOK, EditorTypeOK, NEW n, ShowEntry(n)
    PROVE  LineOK'
<1>1. CASE n \in allocated
  <2>1. cmd[n] \in Seq(Typed) /\ line' = cmd[n] /\ i' = Len(cmd[n])
    BY <1>1 DEF EditorTypeOK, ShowEntry
  <2>2. Len(cmd[n]) \in Nat
    BY <2>1
  <2> QED BY <2>1, <2>2 DEF LineOK
<1>2. CASE n \notin allocated
  BY <1>2 DEF ShowEntry, lineVars, LineOK
<1> QED BY <1>1, <1>2

LEMMA LineNext ==
    ASSUME EditorTypeOK, KeyInv, EditorNext
    PROVE  LineOK'
<1>1. LineOK /\ Len(line) \in Nat /\ i \in Nat /\ i <= Len(line)
  BY DEF EditorTypeOK, LineOK
<1>2. UNCHANGED lineVars => LineOK'
  BY <1>1 DEF lineVars, LineOK
<1>3. ASSUME NewLine \/ (line' = <<>> /\ i' = 0) PROVE LineOK'
  <2>1. line' = <<>> /\ i' = 0
    BY <1>3 DEF NewLine
  <2> QED BY <2>1, EmptySeq DEF LineOK
<1>4. CASE PressKey \/ GetEscape \/ GetThree \/ NothingToSearch(65) \/ NothingToSearch(66)
  BY <1>2, <1>4 DEF PressKey, GetEscape, GetThree, NothingToSearch
<1>5. CASE GetBracket
  <2>1. CASE arrow_count = 0 /\ del_count = 0
    <3>1. Reads(91) /\ Put(91)
      BY <1>5, <2>1, GetReads DEF GetBracket
    <3>2. 91 \in Typed
      BY <2>1, <3>1 DEF Reads, Esc, Final
    <3> QED BY <1>1, <3>1, <3>2, PutTyped
  <2> QED BY <1>2, <1>5, <2>1 DEF GetBracket
<1>6. ASSUME NEW c \in Typed \cup Final, GetPlain(c) PROVE LineOK'
  <2>1. CASE arrow_count = 0 /\ del_count = 0
    <3>1. Reads(c) /\ Put(c) /\ c \in 33..125
      BY <1>6, <2>1, GetReads DEF GetPlain
    <3>2. c \in Typed
      BY <2>1, <3>1 DEF Reads, Esc
    <3> QED BY <1>1, <3>1, <3>2, PutTyped
  <2> QED BY <1>2, <1>6, <2>1 DEF GetPlain
<1>7. CASE GetSpace
  <2>1. Reads(32) /\ Put(32)
    BY <1>7, GetReads DEF GetSpace
  <2>2. 32 \in Typed
    BY <2>1 DEF Reads, Esc, Final
  <2> QED BY <1>1, <2>1, <2>2, PutTyped
<1>8. CASE GetBackspace
  <2>1. CASE i > 0
    <3>1. line' = RemoveAt(line, i) /\ i' = i - 1 /\ i \in 1..Len(line) /\ i - 1 \in 0..(Len(line) - 1)
      BY <1>1, <1>8, <2>1 DEF GetBackspace
    <3> QED BY <1>1, <3>1, RemovedTyped
  <2> QED BY <1>2, <1>8, <2>1 DEF GetBackspace
<1>9. CASE GetTilde
  <2>1. CASE del_count = 1 /\ i < Len(line)
    <3>1. line' = RemoveAt(line, i + 1) /\ i' = i /\ i + 1 \in 1..Len(line) /\ i \in 0..(Len(line) - 1)
      BY <1>1, <1>9, <2>1 DEF GetTilde
    <3> QED BY <1>1, <3>1, RemovedTyped
  <2> QED BY <1>2, <1>9, <2>1 DEF GetTilde, lineVars
<1>10. CASE MoveCursor
  BY <1>1, <1>10 DEF MoveCursor, GetMove, LineOK
<1>11. CASE UpArrow
  BY <1>1, <1>11, ShownTyped DEF UpArrow
<1>12. CASE DownArrow
  BY <1>1, <1>3, <1>12, ShownTyped DEF DownArrow
<1>13. CASE EnterLine \/ GetInterrupt
  BY <1>3, <1>13 DEF EnterLine, GetInterrupt
<1> QED BY <1>4, <1>5, <1>6, <1>7, <1>8, <1>9, <1>10, <1>11, <1>12, <1>13 DEF EditorNext
-----------------------------------------------------------------------------
\* Type correctness, step by step.
QueueOK ==
    /\ head \in Node \cup {NULL} /\ tail \in Node \cup {NULL}
    /\ next \in [Node -> Node \cup {NULL}] /\ prev \in [Node -> Node \cup {NULL}]
    /\ cmd \in [Node -> Seq(Typed)]
    /\ allocated \subseteq Node /\ m_num_hist_cmd \in 0..MAX_HISTORY_CMDS

LEMMA KeyTypes ==
    ASSUME KeyInv'
    PROVE  key' \in Key \cup {NoKey} /\ rest' \in Seq(0..126)
<1>1. CASE rest' \in Key /\ key' = rest'
  <2>1. \A c \in Typed \cup {8, 10} : <<c>> \in Seq(0..126)
    BY TypedCodes
  <2>2. \A d \in Final : Csi(d) \in Seq(0..126)
    BY DEF Csi, Final, Esc
  <2>3. DeleteKey \in Seq(0..126)
    BY DEF DeleteKey, Esc
  <2> QED BY <1>1, <2>1, <2>2, <2>3, KeyForms
<1>2. CASE key' = NoKey /\ rest' = <<>>
  BY <1>2
<1>3. ASSUME NEW c \in Final, key' = Csi(c), rest' = <<91, c>> \/ rest' = <<c>>
      PROVE  key' \in Key /\ rest' \in Seq(0..126)
  <2>1. c \in 0..126
    BY DEF Final
  <2>2. <<91, c>> \in Seq(0..126) /\ <<c>> \in Seq(0..126)
    BY <2>1
  <2> QED BY <1>3, <2>2, KeysOfForm
<1>4. CASE key' = DeleteKey /\ rest' \in {<<91, 51, 126>>, <<51, 126>>, <<126>>}
  <2>1. <<91, 51, 126>> \in Seq(0..126) /\ <<51, 126>> \in Seq(0..126) /\ <<126>> \in Seq(0..126)
    OBVIOUS
  <2> QED BY <1>4, <2>1, KeysOfForm
<1>5. \/ key' = NoKey /\ rest' = <<>>
      \/ key' \in Key /\ rest' = key'
      \/ \E c \in Final : key' = Csi(c) /\ (rest' = <<91, c>> \/ rest' = <<c>>)
      \/ key' = DeleteKey /\ rest' \in {<<91, 51, 126>>, <<51, 126>>, <<126>>}
  BY DEF KeyInv
<1> QED BY <1>1, <1>2, <1>3, <1>4, <1>5

LEMMA AddedTypes ==
    ASSUME EditorTypeOK, ListInv, NEW n \in Node \ allocated,
           AddFirst(n) \/ AddLast(n) \/ AddDropping(n)
    PROVE  QueueOK' /\ m_num_hist_cmd' > 0
<1>1. MAX_HISTORY_CMDS \in Nat /\ MAX_HISTORY_CMDS > 1
  BY HistoryAssumption
<1>2. m_num_hist_cmd' \in 1..MAX_HISTORY_CMDS
  BY <1>1 DEF AddFirst, AddLast, AddDropping
<1>3. head' \in Node \cup {NULL} /\ tail' \in Node \cup {NULL}
  <2>1. CASE AddDropping(n)
    <3>1. head \in Node
      BY <2>1, DroppingAdded, QueueTypes DEF EditorTypeOK
    <3> QED BY <2>1, <3>1, QueueTypes DEF AddDropping, Link
  <2> QED BY <2>1, QueueTypes DEF AddFirst, AddLast, Link
<1>4. CASE AddFirst(n)
  BY <1>1, <1>2, <1>3, <1>4, QueueTypes DEF AddFirst, QueueOK, EditorTypeOK
<1>5. ASSUME NEW F, Link(n, F) PROVE QueueOK'
  <2>1. next' \in [Node -> Node \cup {NULL}] /\ prev' \in [Node -> Node \cup {NULL}]
    BY <1>5, QueueTypes DEF Link
  <2>2. cmd' \in [Node -> Seq(Typed)]
    <3>1. \A k \in Node :
            (IF k = n THEN line ELSE IF k \in F THEN <<>> ELSE cmd[k]) \in Seq(Typed)
      BY QueueTypes, EmptySeq
    <3> QED BY <1>5, <3>1 DEF Link
  <2>3. allocated' \subseteq Node
    BY <1>5 DEF Link, EditorTypeOK
  <2> QED BY <1>1, <1>2, <1>3, <2>1, <2>2, <2>3 DEF QueueOK
<1> QED BY <1>1, <1>2, <1>4, <1>5 DEF AddLast, AddDropping

LEMMA QueueFrame ==
    ASSUME EditorTypeOK, ListInv, UNCHANGED <<head, tail, next, prev, cmd, allocated, m_num_hist_cmd>>
    PROVE  QueueOK' /\ ListInv' /\ Entry' = Entry /\ History' = History
  BY DEF EditorTypeOK, QueueOK, ListInv, Entry, History

\* Only Enter touches the queue, and only with a line to add.
LEMMA QueueSteps ==
    ASSUME EditorNext
    PROVE  \/ UNCHANGED <<head, tail, next, prev, cmd, allocated, m_num_hist_cmd>>
           \/ EnterLine /\ line # <<>> /\ add_new_cmd_to_history_queue
<1>1. CASE EnterLine
  BY <1>1 DEF EnterLine
<1>2. CASE UNCHANGED queueVars
  BY <1>2 DEF queueVars
<1>3. CASE UpArrow \/ DownArrow \/ NothingToSearch(65) \/ NothingToSearch(66)
  BY <1>2, <1>3 DEF UpArrow, DownArrow, NothingToSearch, GetArrow
<1>4. CASE PressKey \/ GetInterrupt
  BY <1>2, <1>4 DEF PressKey, GetInterrupt
<1>5. CASE EditOnly
  BY <1>2, <1>5 DEF EditOnly
<1> QED BY <1>1, <1>3, <1>4, <1>5
        DEF EditorNext, GetEscape, GetBracket, GetSpace, GetBackspace, GetThree, GetTilde, GetPlain,
            MoveCursor, GetMove

LEMMA QueueNext ==
    ASSUME EditorTypeOK, ListInv, EditorNext
    PROVE  QueueOK' /\ ListInv'
<1>1. CASE add_new_cmd_to_history_queue
  <2>1. PICK n \in Node \ allocated : AddFirst(n) \/ AddLast(n) \/ AddDropping(n)
    BY <1>1, AddedWhat
  <2>2. QueueOK'
    BY <2>1, AddedTypes
  <2>3. ListInv'
    BY <2>1, FirstAdded, LastAdded, DroppingAdded
  <2> QED BY <2>2, <2>3
<1> QED BY <1>1, QueueSteps, QueueFrame

LEMMA CountsNext ==
    ASSUME EditorTypeOK, EditorNext
    PROVE  arrow_count' \in 0..2 /\ del_count' \in 0..1
<1>1. arrow_count \in 0..2 /\ del_count \in 0..1
  BY DEF EditorTypeOK
<1>2. \/ GetEscape \/ GetBracket \/ GetThree \/ UNCHANGED countVars \/ EndCounts \/ NewLine
  BY DEF EditorNext, PressKey, GetSpace, GetBackspace, GetTilde, GetPlain, MoveCursor, GetMove,
         NothingToSearch, UpArrow, DownArrow, GetArrow, EnterLine, GetInterrupt
<1> QED BY <1>1, <1>2 DEF GetEscape, GetBracket, GetThree, countVars, EndCounts, NewLine

\* What a step does to the flags, and who may do it.
LEMMA FlagsNext ==
    ASSUME EditorTypeOK, EditorNext
    PROVE  is_reached_tail_head' \in BOOLEAN /\ halted' \in BOOLEAN /\ entered' \in Nat
<1>1. is_reached_tail_head \in BOOLEAN /\ halted \in BOOLEAN /\ entered \in Nat
  BY DEF EditorTypeOK
<1>2. CASE UNCHANGED <<is_reached_tail_head, halted, queueVars>>
  BY <1>1, <1>2 DEF queueVars
<1>3. ASSUME NEW n, ShowEntry(n) PROVE halted' \in BOOLEAN
  BY <1>1, <1>3 DEF ShowEntry
<1>4. ASSUME NEW n, NEW end, NEW to, Step(n, end, to) PROVE is_reached_tail_head' \in BOOLEAN
  BY <1>4 DEF Step
<1>5. CASE UpArrow
  <2>1. is_reached_tail_head' \in BOOLEAN /\ halted' \in BOOLEAN
    BY <1>1, <1>3, <1>4, <1>5 DEF UpArrow
  <2>2. UNCHANGED queueVars
    BY <1>5 DEF UpArrow, GetArrow
  <2> QED BY <1>1, <2>1, <2>2 DEF queueVars
<1>6. CASE DownArrow
  <2>1. is_reached_tail_head' \in BOOLEAN /\ halted' \in BOOLEAN
    BY <1>1, <1>3, <1>4, <1>6 DEF DownArrow
  <2>2. UNCHANGED queueVars
    BY <1>6 DEF DownArrow, GetArrow
  <2> QED BY <1>1, <2>1, <2>2 DEF queueVars
<1>7. CASE EnterLine
  <2>1. is_reached_tail_head' = FALSE /\ halted' = halted
    BY <1>7 DEF EnterLine, NewLine
  <2>2. entered' \in {entered, entered + 1}
    BY <1>7 DEF EnterLine
  <2>3. is_reached_tail_head' \in BOOLEAN /\ halted' \in BOOLEAN
    BY <1>1, <2>1
  <2>4. entered' \in Nat
    BY <1>1, <2>2
  <2> QED BY <2>3, <2>4
<1>8. CASE GetInterrupt
  BY <1>1, <1>8 DEF GetInterrupt, NewLine, queueVars
<1>9. \/ UNCHANGED <<is_reached_tail_head, halted, queueVars>>
      \/ UpArrow \/ DownArrow \/ EnterLine \/ GetInterrupt
  BY DEF EditorNext, EditOnly, PressKey, NothingToSearch, GetArrow,
         GetEscape, GetBracket, GetSpace, GetBackspace, GetThree, GetTilde, GetPlain,
         MoveCursor, GetMove
<1> QED BY <1>2, <1>5, <1>6, <1>7, <1>8, <1>9
-----------------------------------------------------------------------------
\* Where the arrows go.
LEMMA Neighbours ==
    ASSUME EditorTypeOK, ListInv, NEW k \in 1..m_num_hist_cmd
    PROVE  /\ Entry[k] \in allocated /\ Entry[k] \in Node /\ Entry[k] # NULL
           /\ IF k = 1 THEN Entry[k] = head
                        ELSE Entry[k] # head /\ k - 1 \in 1..m_num_hist_cmd /\ prev[Entry[k]] = Entry[k - 1]
           /\ IF k = m_num_hist_cmd THEN Entry[k] = tail /\ next[Entry[k]] = NULL
              ELSE Entry[k] # tail /\ k + 1 \in 1..m_num_hist_cmd /\ next[Entry[k]] = Entry[k + 1]
<1>1. m_num_hist_cmd \in Nat /\ m_num_hist_cmd > 0 /\ 1 \in 1..m_num_hist_cmd
      /\ m_num_hist_cmd \in 1..m_num_hist_cmd
  BY QueueTypes
<1>2. Entry[k] \in allocated /\ Entry[k] \in Node /\ Entry[k] # NULL
  <2>1. Entry \in [1..m_num_hist_cmd -> Node] /\ allocated = {Entry[j] : j \in 1..m_num_hist_cmd}
    BY EntriesListed
  <2>2. NULL \notin Node
    BY NodeAssumption
  <2> QED BY <2>1, <2>2
<1>3. IF k = 1 THEN Entry[k] = head
               ELSE Entry[k] # head /\ k - 1 \in 1..m_num_hist_cmd /\ prev[Entry[k]] = Entry[k - 1]
  BY <1>1, EntriesListed
<1>4. CASE k = m_num_hist_cmd
  BY <1>1, <1>2, <1>3, <1>4, EntriesListed
<1>5. CASE k # m_num_hist_cmd
  <2>1. k + 1 \in 2..m_num_hist_cmd /\ (k + 1) - 1 = k /\ k + 1 \in 1..m_num_hist_cmd
    BY <1>1, <1>5
  <2>2. Entry[k] # tail /\ next[Entry[k]] = Entry[k + 1]
    BY <1>1, <1>5, <2>1, EntriesListed
  <2> QED BY <1>2, <1>3, <1>5, <2>1, <2>2
<1> QED BY <1>4, <1>5

LEMMA SearchFrame ==
    ASSUME EditorTypeOK, ListInv, SearchInv, UNCHANGED <<is_reached_tail_head, search, queueVars, halted, ups>>
    PROVE  SearchInv'
<1>1. Entry' = Entry
  BY QueueFrame DEF queueVars
<1> QED BY <1>1 DEF SearchInv, ShortHistoryOnly, queueVars

LEMMA SearchUp ==
    ASSUME EditorTypeOK, ListInv, SearchInv, ~halted, UpArrow
    PROVE  SearchInv'
<1> DEFINE m == m_num_hist_cmd
           n == IF search = tail /\ is_reached_tail_head THEN prev[search] ELSE search
<1>1. /\ search # NULL /\ ShowEntry(n) /\ UNCHANGED queueVars
      /\ IF n \in allocated THEN Step(n, head, prev) ELSE UNCHANGED <<search, is_reached_tail_head>>
      /\ ups' = IF ups = -1 \/ ups = m THEN ups ELSE ups + 1
  BY DEF UpArrow, GetArrow
<1>2. Entry' = Entry /\ m' = m /\ allocated' = allocated
  BY <1>1, QueueFrame DEF queueVars
<1>3. m \in Nat /\ ups \in -1..m
  BY QueueTypes DEF SearchInv
<1>4. PICK p \in 1..m : search = Entry[p]
  BY <1>1, EntriesListed DEF SearchInv
<1>5. ups' \in -1..m
  BY <1>1, <1>3
<1>6. CASE m = 1
  <2>1. allocated = {search}
    BY <1>4, <1>6, EntriesListed
  <2>2. search' = search
    BY <1>1, <1>4, <1>6, <2>1, Neighbours DEF Step
  <2>3. search' \in allocated /\ search' # NULL
    BY <1>1, <2>1, <2>2
  <2> QED BY <1>2, <1>5, <1>6, <2>3 DEF SearchInv, ShortHistoryOnly
<1>7. CASE m > 1
  <2>1. PICK q \in 1..m : n = Entry[q] /\ (~(search = tail /\ is_reached_tail_head) => q = p)
    BY <1>4, <1>7, Neighbours
  <2>2. n \in allocated /\ UNCHANGED halted
    BY <1>1, <2>1, Neighbours DEF ShowEntry
  <2>3. IF q = 1 THEN search' = Entry[1] /\ is_reached_tail_head' = TRUE
                 ELSE search' = Entry[q - 1] /\ is_reached_tail_head' = FALSE /\ q - 1 \in 1..m
    BY <1>1, <2>1, <2>2, Neighbours DEF Step
  <2>4. search' \in allocated /\ search' # NULL
    BY <1>3, <1>7, <2>3, Neighbours
  <2>5. ASSUME ups >= 0
        PROVE  /\ ups' = IF ups = m THEN m ELSE ups + 1
               /\ q = IF ups < m THEN m - ups ELSE 1
    <3>1. IF ups < m THEN search = Entry[m - ups] /\ ~is_reached_tail_head /\ m - ups \in 1..m
                     ELSE search = Entry[1] /\ 1 \in 1..m
      BY <1>3, <1>7, <2>5 DEF SearchInv
    <3>2. p = IF ups < m THEN m - ups ELSE 1
      BY <1>4, <3>1, EntriesListed
    <3>3. ~(search = tail /\ is_reached_tail_head)
      BY <1>3, <1>7, <3>1, Neighbours
    <3> QED BY <1>1, <1>3, <2>1, <2>5, <3>2, <3>3
  <2>6. ups' >= 0 => IF ups' < m THEN search' = Entry[m - ups'] /\ ~is_reached_tail_head'
                                 ELSE search' = Entry[1]
    <3>1. ups' >= 0 => ups >= 0
      BY <1>1, <1>3
    <3>2. CASE ups >= 0 /\ ups >= m - 1
      <4>1. q = 1 /\ ~(ups' < m)
        BY <1>3, <1>7, <2>5, <3>2
      <4> QED BY <2>3, <4>1
    <3>3. CASE ups >= 0 /\ ups < m - 1
      <4>1. q # 1 /\ ups' < m /\ q - 1 = m - ups'
        BY <1>3, <1>7, <2>5, <3>3
      <4> QED BY <2>3, <4>1
    <3> QED BY <1>3, <3>1, <3>2, <3>3
  <2> QED BY <1>2, <1>5, <1>7, <2>2, <2>4, <2>6 DEF SearchInv, ShortHistoryOnly
<1> QED BY <1>3, <1>4, <1>6, <1>7

LEMMA SearchDown ==
    ASSUME EditorTypeOK, ListInv, SearchInv, ~halted, DownArrow
    PROVE  SearchInv'
<1> DEFINE m == m_num_hist_cmd
<1>1. search # NULL /\ UNCHANGED queueVars /\ ups' = -1
  BY DEF DownArrow, GetArrow
<1>2. Entry' = Entry /\ m' = m /\ allocated' = allocated
  BY <1>1, QueueFrame DEF queueVars
<1>3. m \in Nat
  BY QueueTypes
<1>4. PICK p \in 1..m : search = Entry[p]
  BY <1>1, EntriesListed DEF SearchInv
<1>5. ASSUME search' \in allocated \cup {NULL}, halted' => m = 1, search' = NULL => m = 2
      PROVE  SearchInv'
  BY <1>1, <1>2, <1>3, <1>5 DEF SearchInv, ShortHistoryOnly
<1>6. CASE UNCHANGED <<search, halted>>
  BY <1>1, <1>4, <1>5, <1>6, Neighbours
<1>7. CASE search = head /\ ShowEntry(next[search])
           /\ IF next[search] \in allocated THEN search' = next[next[search]] ELSE UNCHANGED search
  <2>1. p = 1
    BY <1>4, <1>7, Neighbours
  <2>2. CASE m = 1
    <3>1. next[search] \notin allocated
      BY <1>4, <2>1, <2>2, Neighbours, EntriesListed, QueueTypes
    <3> QED BY <1>1, <1>4, <1>5, <1>7, <2>2, <3>1, Neighbours
  <2>3. CASE m > 1
    <3>1. 2 \in 1..m /\ next[search] = Entry[2] /\ Entry[2] \in allocated
      <4>1. 1 + 1 = 2 /\ p # m
        BY <2>1, <2>3
      <4>2. next[Entry[p]] = Entry[p + 1] /\ p + 1 \in 1..m
        BY <4>1, Neighbours
      <4> QED BY <1>4, <2>1, <4>1, <4>2, Neighbours
    <3>2. search' = next[Entry[2]] /\ UNCHANGED halted
      BY <1>7, <3>1 DEF ShowEntry
    <3>3. IF m = 2 THEN search' = NULL ELSE search' \in allocated /\ search' # NULL
      BY <1>3, <3>1, <3>2, Neighbours
    <3> QED BY <1>5, <3>2, <3>3
  <2> QED BY <1>3, <1>4, <2>2, <2>3
<1>8. CASE ShowEntry(search) /\ Step(search, tail, next)
  <2>1. UNCHANGED halted
    BY <1>4, <1>8, Neighbours DEF ShowEntry
  <2>2. search' \in allocated /\ search' # NULL
    BY <1>4, <1>8, Neighbours DEF Step
  <2> QED BY <1>5, <2>1, <2>2
<1> QED BY <1>6, <1>7, <1>8 DEF DownArrow

LEMMA SearchEnter ==
    ASSUME EditorTypeOK, ListInv, QueueOK', ListInv', ~halted, EnterLine
    PROVE  SearchInv'
<1>1. /\ search' = tail' /\ halted' = halted /\ ups' = 0 /\ is_reached_tail_head' = FALSE
  BY DEF EnterLine, NewLine
<1>2. m_num_hist_cmd' \in Nat /\ allocated' \subseteq Node /\ NULL \notin Node
  BY HistoryAssumption, NodeAssumption DEF QueueOK
<1>3. CASE m_num_hist_cmd' = 0
  <2>1. tail' = NULL
    BY <1>3 DEF ListInv, Linked
  <2> QED BY <1>1, <1>2, <1>3, <2>1 DEF SearchInv, ShortHistoryOnly
<1>4. CASE m_num_hist_cmd' > 0
  <2>1. \A m \in Nat : m > 0 => m \in 1..m /\ m - 0 = m
    OBVIOUS
  <2>2. tail' = Entry'[m_num_hist_cmd'] /\ tail' \in allocated'
    BY <1>2, <1>4, <2>1 DEF ListInv, Linked
  <2>3. search' # NULL
    BY <1>1, <1>2, <2>2
  <2> QED BY <1>1, <1>2, <1>4, <2>1, <2>2, <2>3 DEF SearchInv, ShortHistoryOnly
<1> QED BY <1>2, <1>3, <1>4

LEMMA SearchNext ==
    ASSUME EditorTypeOK, ListInv, SearchInv, QueueOK', ListInv', EditorNext
    PROVE  SearchInv'
<1>1. ~halted
  BY DEF EditorNext
<1>2. CASE GetInterrupt
  <2>1. UNCHANGED <<search, queueVars, halted, ups>> /\ is_reached_tail_head' = FALSE
    BY <1>2 DEF GetInterrupt, NewLine
  <2>2. Entry' = Entry /\ m_num_hist_cmd' = m_num_hist_cmd /\ allocated' = allocated
    BY <2>1, QueueFrame DEF queueVars
  <2> QED BY <2>1, <2>2, QueueTypes DEF SearchInv, ShortHistoryOnly
<1>3. CASE UNCHANGED <<is_reached_tail_head, search, queueVars, halted, ups>>
  BY <1>3, SearchFrame
<1>4. \/ UNCHANGED <<is_reached_tail_head, search, queueVars, halted, ups>>
      \/ UpArrow \/ DownArrow \/ EnterLine \/ GetInterrupt
  BY DEF EditorNext, EditOnly, PressKey, NothingToSearch, GetArrow,
         GetEscape, GetBracket, GetSpace, GetBackspace, GetThree, GetTilde, GetPlain,
         MoveCursor, GetMove
<1> QED BY <1>1, <1>2, <1>3, <1>4, SearchUp, SearchDown, SearchEnter
-----------------------------------------------------------------------------
(***************************************************************************)
(* The invariant                                                           *)
(***************************************************************************)
LEMMA EditorInitInv == EditorInit => EditorInv
<1> SUFFICES ASSUME EditorInit PROVE EditorInv
  OBVIOUS
<1>1. EditorTypeOK
  <2>1. line \in Seq(Typed) /\ rest \in Seq(0..126) /\ i \in 0..Len(line)
    BY EmptySeq DEF EditorInit
  <2>2. next \in [Node -> Node \cup {NULL}] /\ prev \in [Node -> Node \cup {NULL}]
    BY DEF EditorInit
  <2>3. cmd \in [Node -> Seq(Typed)]
    BY EmptySeq DEF EditorInit
  <2>4. /\ arrow_count \in 0..2 /\ del_count \in 0..1 /\ entered \in Nat
        /\ m_num_hist_cmd \in 0..MAX_HISTORY_CMDS /\ ups \in -1..MAX_HISTORY_CMDS
    BY HistoryAssumption DEF EditorInit
  <2>5. is_reached_tail_head \in BOOLEAN /\ halted \in BOOLEAN
    BY DEF EditorInit
  <2>6. /\ key \in Key \cup {NoKey} /\ allocated \subseteq Node
        /\ {head, tail, search} \subseteq Node \cup {NULL}
    BY DEF EditorInit
  <2> QED BY <2>1, <2>2, <2>3, <2>4, <2>5, <2>6, Zenon DEF EditorTypeOK
<1>2. ListInv
  <2>1. Linked(<<>>, head, tail, next, prev, 0, {}) /\ m_num_hist_cmd = 0 /\ allocated = {}
    BY DEF EditorInit, Linked
  <2>2. Walk(head, next, 0) = <<>>
    BY <2>1, LinkedIsWalk
  <2> QED BY <2>1, <2>2 DEF ListInv, Entry
<1>3. SearchInv
  BY DEF EditorInit, SearchInv, ShortHistoryOnly
<1> QED BY <1>1, <1>2, <1>3, KeyInitially DEF EditorInv

LEMMA EditorNextInv == EditorInv /\ [EditorNext]_editorVars => EditorInv'
<1> SUFFICES ASSUME EditorInv, [EditorNext]_editorVars PROVE EditorInv'
  OBVIOUS
<1>1. EditorTypeOK /\ KeyInv /\ ListInv /\ SearchInv
  BY DEF EditorInv
<1>2. CASE EditorNext
  <2>1. KeyInv' /\ QueueOK' /\ ListInv'
    BY <1>1, <1>2, KeyNext, QueueNext
  <2>2. SearchInv'
    BY <1>1, <1>2, <2>1, SearchNext
  <2>3. search' \in Node \cup {NULL} /\ ups' \in -1..MAX_HISTORY_CMDS
    BY <2>1, <2>2, HistoryAssumption DEF QueueOK, SearchInv
  <2>4. EditorTypeOK'
    <3>1. LineOK' /\ arrow_count' \in 0..2 /\ del_count' \in 0..1
      BY <1>1, <1>2, LineNext, CountsNext
    <3>2. is_reached_tail_head' \in BOOLEAN /\ halted' \in BOOLEAN /\ entered' \in Nat
      BY <1>1, <1>2, FlagsNext
    <3>3. key' \in Key \cup {NoKey} /\ rest' \in Seq(0..126)
      BY <2>1, KeyTypes
    <3> QED BY <2>1, <2>3, <3>1, <3>2, <3>3, Zenon DEF EditorTypeOK, LineOK, QueueOK
  <2> QED BY <2>1, <2>2, <2>4 DEF EditorInv
<1>3. CASE UNCHANGED editorVars
  <2>1. UNCHANGED <<line, i, arrow_count, del_count, is_reached_tail_head, key, rest>>
    BY <1>3 DEF editorVars, lineVars, countVars, keyVars
  <2>2. UNCHANGED <<head, tail, search, next, prev, cmd, allocated, m_num_hist_cmd, entered, halted, ups>>
    BY <1>3 DEF editorVars, queueVars
  <2>3. EditorTypeOK'
    BY <1>1, <2>1, <2>2 DEF EditorTypeOK
  <2>4. KeyInv'
    BY <1>1, <2>1 DEF KeyInv
  <2>5. ListInv' /\ SearchInv'
    BY <1>1, <2>1, <2>2, QueueFrame, SearchFrame DEF queueVars
  <2> QED BY <2>3, <2>4, <2>5 DEF EditorInv
<1> QED BY <1>2, <1>3

LEMMA EditorInductive == EditorSpec => []EditorInv
  BY EditorInitInv, EditorNextInv, PTL DEF EditorSpec

\* Type correctness: the line holds only what can be typed, and no counter,
\* pointer or cursor leaves its range.
THEOREM EditorTypeCorrect == EditorSpec => []EditorTypeOK
  BY EditorInductive, PTL DEF EditorInv

\* add_new_cmd_to_history_queue keeps the two-way list whole for a history of
\* any length, when it drops its oldest entry too, and the arrows never stand
\* on a freed one.
THEOREM HistoryStaysList == EditorSpec => []QueueIsList
<1>1. EditorInv => QueueIsList
  <2> SUFFICES ASSUME EditorInv PROVE QueueIsList
    OBVIOUS
  <2>1. EditorTypeOK /\ ListInv /\ SearchInv
    BY DEF EditorInv
  <2>2. Cardinality(allocated) = m_num_hist_cmd
    BY <2>1, LinkedSize, QueueTypes DEF ListInv
  <2> QED BY <2>1, <2>2, EntriesListed DEF QueueIsList, SearchInv
<1> QED BY <1>1, EditorInductive, PTL

\* However long the history may get, the arrows lose its end only while it
\* holds one line (shell.c:358, 398) or two (402).
THEOREM ArrowsFailOnShortHistory == EditorSpec => []ShortHistoryOnly
<1>1. EditorInv => ShortHistoryOnly
  BY DEF EditorInv, SearchInv
<1> QED BY <1>1, EditorInductive, PTL

\* From one Enter to the next, and as long as no Down comes between, Up shows
\* the lines from the newest to the oldest, in a history of any length and
\* whatever was dropped from it.  A Ctrl-C does not start again: Up at the
\* prompt after it goes on with the line before the one shown last.
THEOREM UpShowsHistory == EditorSpec => UpGoesBack
<1>1. ASSUME EditorInv, UpArrow, ups >= 0, m_num_hist_cmd > 1
      PROVE  line' = History[IF ups < m_num_hist_cmd THEN m_num_hist_cmd - ups ELSE 1]
  <2> DEFINE m == m_num_hist_cmd
             p == IF ups < m THEN m - ups ELSE 1
  <2>1. EditorTypeOK /\ ListInv /\ SearchInv
    BY <1>1 DEF EditorInv
  <2>2. m \in Nat /\ ups \in -1..m
    BY <2>1, QueueTypes DEF SearchInv
  <2>3. p \in 1..m /\ search = Entry[p] /\ (ups < m => ~is_reached_tail_head) /\ (ups = m => p = 1)
    BY <1>1, <2>1, <2>2 DEF SearchInv
  <2> HIDE DEF p
  <2>4. ~(search = tail /\ is_reached_tail_head)
    BY <1>1, <2>1, <2>2, <2>3, Neighbours
  <2>5. ShowEntry(search) /\ search \in allocated
    BY <1>1, <2>1, <2>3, <2>4, Neighbours DEF UpArrow
  <2>6. line' = cmd[Entry[p]]
    BY <2>3, <2>5 DEF ShowEntry
  <2>7. History[p] = cmd[Entry[p]]
    BY <2>3 DEF History
  <2> QED BY <2>6, <2>7 DEF p
<1>2. EditorInv /\ [EditorNext]_editorVars =>
        [UpArrow /\ ups >= 0 /\ m_num_hist_cmd > 1 =>
           line' = History[IF ups < m_num_hist_cmd THEN m_num_hist_cmd - ups ELSE 1]]_editorVars
  BY <1>1
<1> QED BY <1>2, EditorInductive, PTL DEF EditorSpec, UpGoesBack
-----------------------------------------------------------------------------
(***************************************************************************)
(* Refinement of LineEditing                                               *)
(***************************************************************************)
\* LineEditing's history.
Recorded == [k \in DOMAIN History |-> AsKeys(History[k])]

LEMMA AsKeysOf ==
    ASSUME NEW s \in Seq(Typed)
    PROVE  /\ AsKeys(s) \in Seq(PlainKeys) /\ Len(AsKeys(s)) = Len(s) /\ DOMAIN AsKeys(s) = 1..Len(s)
           /\ \A p \in 1..Len(s) : AsKeys(s)[p] = <<s[p]>>
<1>1. Len(s) \in Nat /\ DOMAIN s = 1..Len(s) /\ \A p \in 1..Len(s) : s[p] \in Typed
  OBVIOUS
<1>2. AsKeys(s) = [p \in 1..Len(s) |-> <<s[p]>>]
  BY <1>1 DEF AsKeys
<1>3. \A p \in 1..Len(s) : <<s[p]>> \in PlainKeys
  BY <1>1 DEF PlainKeys
<1>4. AsKeys(s) \in [1..Len(s) -> PlainKeys]
  BY <1>2, <1>3
<1>5. AsKeys(s) \in Seq(PlainKeys)
  BY <1>1, <1>4, SeqDef
<1> QED BY <1>1, <1>2, <1>4, <1>5

LEMMA AsKeysEmpty == AsKeys(<<>>) = <<>>
  BY DEF AsKeys

LEMMA AsKeysInsert ==
    ASSUME NEW s \in Seq(Typed), NEW p \in 1..(Len(s) + 1), NEW c \in Typed
    PROVE  AsKeys(InsertAt(s, p, c)) = InsertAt(AsKeys(s), p, <<c>>)
<1> DEFINE t == InsertAt(s, p, c)
           a == AsKeys(s)
           u == InsertAt(a, p, <<c>>)
<1>1. Len(s) \in Nat /\ <<c>> \in PlainKeys
  BY DEF PlainKeys
<1>2. /\ t \in Seq(Typed) /\ Len(t) = Len(s) + 1
      /\ \A q \in 1..(p - 1) : t[q] = s[q]
      /\ t[p] = c
      /\ \A q \in (p + 1)..(Len(s) + 1) : t[q] = s[q - 1]
  BY InsertAtElements
<1>3. /\ a \in Seq(PlainKeys) /\ p \in 1..(Len(a) + 1) /\ Len(a) = Len(s)
      /\ \A q \in 1..Len(s) : a[q] = <<s[q]>>
  BY AsKeysOf
<1>4. /\ u \in Seq(PlainKeys) /\ Len(u) = Len(s) + 1
      /\ \A q \in 1..(p - 1) : u[q] = a[q]
      /\ u[p] = <<c>>
      /\ \A q \in (p + 1)..(Len(s) + 1) : u[q] = a[q - 1]
  <2> HIDE DEF a
  <2>1. PICK k \in PlainKeys : k = <<c>>
    BY <1>1
  <2>2. /\ InsertAt(a, p, k) \in Seq(PlainKeys) /\ Len(InsertAt(a, p, k)) = Len(a) + 1
        /\ \A q \in 1..(p - 1) : InsertAt(a, p, k)[q] = a[q]
        /\ InsertAt(a, p, k)[p] = k
        /\ \A q \in (p + 1)..(Len(a) + 1) : InsertAt(a, p, k)[q] = a[q - 1]
    BY <1>3, InsertAtElements
  <2>3. InsertAt(a, p, k) = u
    BY <2>1
  <2> HIDE DEF u
  <2> QED BY <1>3, <2>1, <2>2, <2>3
<1> HIDE DEF t, u, a
<1>5. /\ AsKeys(t) \in Seq(PlainKeys) /\ Len(AsKeys(t)) = Len(s) + 1
      /\ \A q \in 1..(Len(s) + 1) : AsKeys(t)[q] = <<t[q]>>
  BY <1>2, AsKeysOf
<1>6. ASSUME NEW q \in 1..(Len(s) + 1) PROVE AsKeys(t)[q] = u[q]
  <2>0. AsKeys(t)[q] = <<t[q]>>
    BY <1>5
  <2>1. CASE q < p
    <3>1. q \in 1..(p - 1) /\ q \in 1..Len(s)
      BY <1>1, <2>1
    <3>2. t[q] = s[q] /\ u[q] = a[q] /\ a[q] = <<s[q]>>
      BY <1>2, <1>3, <1>4, <3>1
    <3> QED BY <2>0, <3>2
  <2>2. CASE q = p
    BY <1>2, <1>4, <2>0, <2>2
  <2>3. CASE q > p
    <3>1. q \in (p + 1)..(Len(s) + 1) /\ q - 1 \in 1..Len(s)
      BY <1>1, <2>3
    <3>2. t[q] = s[q - 1] /\ u[q] = a[q - 1] /\ a[q - 1] = <<s[q - 1]>>
      BY <1>2, <1>3, <1>4, <3>1
    <3> QED BY <2>0, <3>2
  <2> QED BY <1>1, <2>1, <2>2, <2>3
<1>7. AsKeys(t) = u
  BY <1>4, <1>5, <1>6, SeqEqual
<1> QED BY <1>7 DEF t, u, a

LEMMA AsKeysRemove ==
    ASSUME NEW s \in Seq(Typed), NEW p \in 1..Len(s)
    PROVE  AsKeys(RemoveAt(s, p)) = RemoveAt(AsKeys(s), p)
<1> DEFINE t == RemoveAt(s, p)
           u == RemoveAt(AsKeys(s), p)
<1>1. Len(s) \in Nat
  OBVIOUS
<1>2. /\ t \in Seq(Typed) /\ Len(t) = Len(s) - 1
      /\ \A q \in 1..(p - 1) : t[q] = s[q]
      /\ \A q \in p..(Len(s) - 1) : t[q] = s[q + 1]
  BY RemoveAtElements
<1>3. AsKeys(s) \in Seq(PlainKeys) /\ p \in 1..Len(AsKeys(s)) /\ Len(AsKeys(s)) = Len(s)
  BY AsKeysOf
<1>4. /\ u \in Seq(PlainKeys) /\ Len(u) = Len(s) - 1
      /\ \A q \in 1..(p - 1) : u[q] = AsKeys(s)[q]
      /\ \A q \in p..(Len(s) - 1) : u[q] = AsKeys(s)[q + 1]
  BY <1>1, <1>3, RemoveAtElements
<1> HIDE DEF t, u
<1>5. /\ AsKeys(t) \in Seq(PlainKeys) /\ Len(AsKeys(t)) = Len(s) - 1
      /\ \A q \in 1..(Len(s) - 1) : AsKeys(t)[q] = <<t[q]>>
  BY <1>2, AsKeysOf
<1>6. ASSUME NEW q \in 1..(Len(s) - 1) PROVE AsKeys(t)[q] = u[q]
  <2>1. CASE q < p
    <3>1. q \in 1..(p - 1) /\ q \in 1..Len(s)
      BY <1>1, <2>1
    <3> QED BY <1>2, <1>4, <1>5, <3>1, AsKeysOf
  <2>2. CASE q >= p
    <3>1. q \in p..(Len(s) - 1) /\ q + 1 \in 1..Len(s)
      BY <1>1, <2>2
    <3> QED BY <1>2, <1>4, <1>5, <3>1, AsKeysOf
  <2> QED BY <1>1, <2>1, <2>2
<1>7. AsKeys(t) = u
  BY <1>4, <1>5, <1>6, SeqEqual
<1> QED BY <1>7 DEF t, u

LEMMA RecordedNow ==
    ASSUME EditorTypeOK, ListInv
    PROVE  /\ Recorded \in Seq(Seq(PlainKeys)) /\ Len(Recorded) = m_num_hist_cmd
           /\ DOMAIN Recorded = 1..m_num_hist_cmd
           /\ \A k \in 1..m_num_hist_cmd : Recorded[k] = AsKeys(cmd[Entry[k]])
<1>1. m_num_hist_cmd \in Nat /\ Entry \in [1..m_num_hist_cmd -> Node] /\ cmd \in [Node -> Seq(Typed)]
  BY QueueTypes, EntriesListed
<1>2. DOMAIN History = 1..m_num_hist_cmd /\ \A k \in 1..m_num_hist_cmd : History[k] = cmd[Entry[k]]
  BY DEF History
<1>3. ASSUME NEW k \in 1..m_num_hist_cmd PROVE AsKeys(History[k]) \in Seq(PlainKeys)
  <2>1. History[k] \in Seq(Typed)
    BY <1>1, <1>2
  <2> QED BY <2>1, AsKeysOf
<1>4. Recorded \in [1..m_num_hist_cmd -> Seq(PlainKeys)]
  BY <1>2, <1>3 DEF Recorded
<1>5. Recorded \in Seq(Seq(PlainKeys))
  BY <1>1, <1>4, SeqDef
<1>6. \A k \in 1..m_num_hist_cmd : Recorded[k] = AsKeys(cmd[Entry[k]])
  BY <1>2 DEF Recorded
<1>7. DOMAIN Recorded = 1..m_num_hist_cmd
  BY <1>4
<1> HIDE DEF Recorded
<1> QED BY <1>1, <1>5, <1>6, <1>7

LEMMA RecordedThen ==
    ASSUME QueueOK', ListInv'
    PROVE  /\ Recorded' \in Seq(Seq(PlainKeys)) /\ Len(Recorded') = m_num_hist_cmd'
           /\ \A k \in 1..m_num_hist_cmd' : Recorded'[k] = AsKeys(cmd'[Entry'[k]])
<1>1. m_num_hist_cmd' \in Nat /\ Entry' \in [1..m_num_hist_cmd' -> Node] /\ cmd' \in [Node -> Seq(Typed)]
  BY HistoryAssumption DEF QueueOK, ListInv, Linked
<1>2. DOMAIN History' = 1..m_num_hist_cmd' /\ \A k \in 1..m_num_hist_cmd' : History'[k] = cmd'[Entry'[k]]
  BY DEF History
<1>3. ASSUME NEW k \in 1..m_num_hist_cmd' PROVE AsKeys(History'[k]) \in Seq(PlainKeys)
  <2>1. History'[k] \in Seq(Typed)
    BY <1>1, <1>2
  <2>2. PICK s \in Seq(Typed) : s = History'[k]
    BY <2>1
  <2>3. AsKeys(s) \in Seq(PlainKeys)
    BY AsKeysOf
  <2> QED BY <2>2, <2>3
<1>4. /\ Recorded' \in [1..m_num_hist_cmd' -> Seq(PlainKeys)]
      /\ \A k \in 1..m_num_hist_cmd' : Recorded'[k] = AsKeys(History'[k])
  BY <1>2, <1>3 DEF Recorded, AsKeys
<1>5. Recorded' \in Seq(Seq(PlainKeys))
  BY <1>1, <1>4, SeqDef
<1>6. \A k \in 1..m_num_hist_cmd' : Recorded'[k] = AsKeys(cmd'[Entry'[k]])
  BY <1>2, <1>4
<1>7. DOMAIN Recorded' = 1..m_num_hist_cmd'
  BY <1>4
<1> QED BY <1>1, <1>5, <1>6, <1>7

\* Whichever way the list is linked, the history gets the line at its end
\* and loses its first when it was full.
LEMMA RecordedAdds ==
    ASSUME EditorTypeOK, ListInv, add_new_cmd_to_history_queue
    PROVE  Recorded' = Append(IF Len(Recorded) < MAX_HISTORY_CMDS THEN Recorded ELSE Tail(Recorded),
                              AsKeys(line))
<1> DEFINE m == m_num_hist_cmd
           L == AsKeys(line)
           K == IF Len(Recorded) < MAX_HISTORY_CMDS THEN Recorded ELSE Tail(Recorded)
<1> SUFFICES Recorded' = Append(K, L)
  OBVIOUS
<1>1. PICK n \in Node \ allocated : AddFirst(n) \/ AddLast(n) \/ AddDropping(n)
  BY AddedWhat
<1>2. QueueOK' /\ ListInv'
  BY <1>1, AddedTypes, FirstAdded, LastAdded, DroppingAdded
<1>3. m \in Nat /\ MAX_HISTORY_CMDS \in Nat \ {0, 1} /\ L \in Seq(PlainKeys)
  BY QueueTypes, AsKeysOf
<1>4. /\ Recorded' \in Seq(Seq(PlainKeys)) /\ Len(Recorded') = m_num_hist_cmd'
      /\ \A k \in 1..m_num_hist_cmd' : Recorded'[k] = AsKeys(cmd'[Entry'[k]])
  BY <1>2, RecordedThen
<1>5. \A k \in 1..m : Entry[k] \in Node /\ Entry[k] # n /\ (Entry[k] = head => k = 1)
  BY Neighbours
<1> HIDE DEF K, L
<1>6. ASSUME K \in Seq(Seq(PlainKeys)), m_num_hist_cmd' = Len(K) + 1,
             \A k \in 1..Len(K) : Recorded'[k] = K[k],
             Recorded'[Len(K) + 1] = L
      PROVE  Recorded' = Append(K, L)
  <2>1. /\ Append(K, L) \in Seq(Seq(PlainKeys)) /\ Len(Append(K, L)) = Len(K) + 1
        /\ \A k \in 1..Len(K) : Append(K, L)[k] = K[k]
        /\ Append(K, L)[Len(K) + 1] = L
    BY <1>3, <1>6, AppendProperties
  <2>2. \A k \in 1..(Len(K) + 1) : k \in 1..Len(K) \/ k = Len(K) + 1
    BY <1>6
  <2>3. \A k \in 1..Len(Recorded') : Recorded'[k] = Append(K, L)[k]
    BY <1>4, <1>6, <2>1, <2>2
  <2>4. Len(Recorded') = Len(Append(K, L))
    BY <1>4, <1>6, <2>1
  <2> QED BY <1>4, <2>1, <2>3, <2>4, SeqEqual
<1>7. CASE AddFirst(n)
  <2>1. m = 0 /\ K = Recorded /\ Len(K) = 0
    BY <1>3, <1>7, RecordedNow DEF AddFirst, K
  <2>2. m_num_hist_cmd' = 1 /\ Entry' = [k \in 1..1 |-> n] /\ cmd'[n] = line
    BY <1>7, FirstAdded, QueueTypes DEF AddFirst
  <2>3. Recorded'[1] = L
    BY <1>4, <2>2 DEF L
  <2> QED BY <1>6, <2>1, <2>2, <2>3, RecordedNow
<1>8. CASE AddLast(n)
  <2>0. m > 0 /\ m < MAX_HISTORY_CMDS
    BY <1>3, <1>8 DEF AddLast
  <2>1. K = Recorded /\ Len(K) = m /\ K \in Seq(Seq(PlainKeys))
    BY <2>0, RecordedNow DEF K
  <2>2. /\ m_num_hist_cmd' = m + 1
        /\ Entry' = [k \in 1..(m + 1) |-> IF k <= m THEN Entry[k] ELSE n]
    BY <1>8, LastAdded
  <2>3. cmd'[n] = line /\ \A k \in 1..m : cmd'[Entry[k]] = cmd[Entry[k]]
    BY <1>5, <1>8 DEF AddLast, Link
  <2>4. Recorded'[m + 1] = L
    BY <1>3, <1>4, <2>2, <2>3 DEF L
  <2>5. ASSUME NEW k \in 1..m PROVE Recorded'[k] = Recorded[k]
    BY <1>3, <1>4, <2>2, <2>3, RecordedNow
  <2>6. \A k \in 1..m : Recorded'[k] = K[k]
    BY <2>1, <2>5
  <2> QED BY <1>6, <2>1, <2>2, <2>4, <2>6
<1>9. CASE AddDropping(n)
  <2>1. m = MAX_HISTORY_CMDS /\ K = Tail(Recorded) /\ Recorded # <<>>
    BY <1>3, <1>9, RecordedNow DEF AddDropping, K
  <2>2. K \in Seq(Seq(PlainKeys)) /\ Len(K) = m - 1 /\ \A k \in 1..(m - 1) : K[k] = Recorded[k + 1]
    BY <2>1, RecordedNow, HeadTailProperties
  <2>3. /\ m_num_hist_cmd' = m /\ prev[next[head]] = head
        /\ Entry' = [k \in 1..m |-> IF k < m THEN Entry[k + 1] ELSE n]
    BY <1>9, DroppingAdded
  <2>4. cmd'[n] = line /\ \A k \in 2..m : cmd'[Entry[k]] = cmd[Entry[k]]
    BY <1>3, <1>5, <1>9, <2>3 DEF AddDropping, Link
  <2>5. Recorded'[m] = L
    BY <1>3, <1>4, <2>1, <2>3, <2>4 DEF L
  <2>6. ASSUME NEW k \in 1..(m - 1) PROVE Recorded'[k] = K[k]
    <3>1. k \in 1..m /\ k + 1 \in 2..m /\ k + 1 \in 1..m /\ k < m
      BY <1>3
    <3> QED BY <1>4, <2>2, <2>3, <2>4, <3>1, RecordedNow
  <2>7. m - 1 + 1 = m
    BY <1>3
  <2> QED BY <1>6, <2>2, <2>3, <2>5, <2>6, <2>7
<1> QED BY <1>1, <1>7, <1>8, <1>9
-----------------------------------------------------------------------------
(***************************************************************************)
(* Every step of the editor is one of LineEditing, or changes nothing that *)
(* LineEditing sees.                                                       *)
(***************************************************************************)
Shown == AsKeys(line)

EditingStep == [Editing!EditNext]_(Editing!editing)

LEMMA RecordedKept ==
    ASSUME EditorTypeOK, ListInv, UNCHANGED <<head, tail, next, prev, cmd, allocated, m_num_hist_cmd>>
    PROVE  Recorded' = Recorded
  BY QueueFrame DEF Recorded, AsKeys

LEMMA ShownKept == line' = line => Shown' = Shown
  BY DEF Shown, AsKeys

LEMMA SameOperators ==
    /\ \A s, p, k : Editing!InsertAt(s, p, k) = InsertAt(s, p, k)
    /\ \A s, p : Editing!RemoveAt(s, p) = RemoveAt(s, p)
    /\ \A s : Editing!ToSet(s) = ToSet(s)
  BY DEF Editing!InsertAt, InsertAt, Editing!RemoveAt, RemoveAt, Editing!ToSet, ToSet

\* LineEditing's swallowing.
Swallowing == del_count = 1 /\ key \notin CodedKeys

\* Only between the keys, and at a key of one character, does del_count tell
\* of a '3' that was typed.
LEMMA Swallows ==
    /\ key \in CodedKeys => ~Swallowing
    /\ key' \in CodedKeys => ~Swallowing'
    /\ \A c : /\ <<c>> \notin CodedKeys
              /\ key \in {<<c>>, NoKey} => (Swallowing <=> del_count = 1)
              /\ key' \in {<<c>>, NoKey} => (Swallowing' <=> del_count' = 1)
    /\ NoKey \notin CodedKeys /\ DeleteKey \in CodedKeys
    /\ \A d \in Final : Csi(d) \in CodedKeys
    /\ (Swallowing' <=> Swallowing) => UNCHANGED Swallowing
<1>1. \A c : <<c>> \notin CodedKeys
  BY DEF CodedKeys, UpKey, DownKey, RightKey, LeftKey, EndKey, HomeKey, DeleteKey, Csi
<1>2. NoKey \notin CodedKeys
  BY NoKeyAssumption DEF Key
<1>3. DeleteKey \in CodedKeys /\ \A d \in Final : Csi(d) \in CodedKeys
  BY DEF CodedKeys, UpKey, DownKey, RightKey, LeftKey, EndKey, HomeKey, Final
<1> QED BY <1>1, <1>2, <1>3 DEF Swallowing

\* LineEditing's actions, in the editor's variables.
LEMMA EditingActions ==
    /\ UNCHANGED <<Shown, i, Recorded, key, Swallowing>> => EditingStep
    /\ \A k \in Key :
         key = NoKey /\ key' = k /\ UNCHANGED <<Shown, i, Recorded, del_count>> => EditingStep
    /\ \A k \in PlainKeys \ {<<51>>, <<126>>} :
         /\ key = k /\ key' = NoKey /\ UNCHANGED <<Recorded, Swallowing>>
         /\ Swallowing => k = <<32>>
         /\ Shown' = InsertAt(Shown, i + 1, k) /\ i' = i + 1
         => EditingStep
    /\ \A k \in PlainKeys \ {<<51>>, <<126>>, <<32>>} :
         key = k /\ key' = NoKey /\ Swallowing /\ ~Swallowing' /\ UNCHANGED <<Shown, i, Recorded>>
         => EditingStep
    /\ key = <<51>> /\ key' = NoKey /\ Swallowing' /\ UNCHANGED <<Shown, i, Recorded>> => EditingStep
    /\ /\ key = <<126>> /\ key' = NoKey /\ ~Swallowing' /\ UNCHANGED <<Recorded, i>>
       /\ Shown' = (IF Swallowing /\ i + 1 \in DOMAIN Shown THEN RemoveAt(Shown, i + 1) ELSE Shown)
       => EditingStep
    /\ /\ key = BackspaceKey /\ key' = NoKey /\ UNCHANGED <<Recorded, Swallowing>>
       /\ Shown' = (IF i \in DOMAIN Shown THEN RemoveAt(Shown, i) ELSE Shown)
       /\ i' = IF i > 0 THEN i - 1 ELSE 0
       => EditingStep
    /\ /\ key = DeleteKey /\ key' = NoKey /\ UNCHANGED <<Recorded, i, Swallowing>>
       /\ Shown' = (IF i + 1 \in DOMAIN Shown THEN RemoveAt(Shown, i + 1) ELSE Shown)
       => EditingStep
    /\ /\ key' = NoKey /\ UNCHANGED <<Recorded, Shown, Swallowing>>
       /\ \/ key = LeftKey /\ i' = IF i > 0 THEN i - 1 ELSE 0
          \/ key = RightKey /\ i' = IF i < Len(Shown) THEN i + 1 ELSE i
          \/ key = HomeKey /\ i' = 0
          \/ key = EndKey /\ i' = Len(Shown)
       => EditingStep
    /\ /\ key \in {UpKey, DownKey} /\ key' = NoKey /\ UNCHANGED <<Recorded, Swallowing>>
       /\ \/ UNCHANGED <<Shown, i>>
          \/ Shown' \in ToSet(Recorded) \cup {<<>>} /\ i' = Len(Shown')
       => EditingStep
    /\ /\ key = EnterKey /\ key' = NoKey /\ Shown' = <<>> /\ i' = 0 /\ ~Swallowing'
       /\ Recorded' = IF Shown = <<>> THEN Recorded
                      ELSE Append(IF Len(Recorded) < MAX_HISTORY_CMDS THEN Recorded ELSE Tail(Recorded),
                                  Shown)
       => EditingStep
    /\ key' = NoKey /\ Shown' = <<>> /\ i' = 0 /\ ~Swallowing' /\ UNCHANGED Recorded => EditingStep
<1>1. UNCHANGED <<Shown, i, Recorded, key, Swallowing>> => EditingStep
  BY DEF EditingStep, Editing!editing, Shown, Recorded, Swallowing
<1>2. ASSUME NEW k \in Key, key = NoKey, key' = k, UNCHANGED <<Shown, i, Recorded, del_count>>
      PROVE  EditingStep
  <2>1. k \in Editing!Key /\ Editing!Coded = CodedKeys
    BY <1>2 DEF Editing!Key, Editing!Coded, Key, CodedKeys
  <2>2. Swallowing' = (Swallowing /\ k \notin CodedKeys)
    BY <1>2, Swallows DEF Swallowing
  <2>3. Editing!Press(k)
    BY <1>2, <2>1, <2>2 DEF Editing!Press, Shown, Recorded, Swallowing
  <2> QED BY <2>1, <2>3 DEF EditingStep, Editing!EditNext
<1>3. ASSUME NEW k \in PlainKeys \ {<< 51 >>, << 126 >>}, key = k, key' = NoKey,
             UNCHANGED <<Recorded, Swallowing>>, Swallowing => k = << 32 >>,
             Shown' = InsertAt(Shown, i + 1, k), i' = i + 1
      PROVE  EditingStep
  <2>1. Editing!Insert(k)
    BY <1>3, SameOperators DEF Editing!Insert, Editing!On, Shown, Recorded, Swallowing
  <2> QED BY <2>1 DEF EditingStep, Editing!EditNext
<1>4. ASSUME NEW k \in PlainKeys \ {<< 51 >>, << 126 >>, << 32 >>}, key = k, key' = NoKey,
             Swallowing, ~Swallowing', UNCHANGED <<Shown, i, Recorded>>
      PROVE  EditingStep
  <2>1. Editing!Swallow(k)
    BY <1>4 DEF Editing!Swallow, Editing!On, Shown, Recorded, Swallowing
  <2> QED BY <2>1 DEF EditingStep, Editing!EditNext
<1>5. ASSUME key = << 51 >>, key' = NoKey, Swallowing', UNCHANGED <<Shown, i, Recorded>>
      PROVE  EditingStep
  <2>1. Editing!TypeThree
    BY <1>5 DEF Editing!TypeThree, Editing!On, Shown, Recorded, Swallowing
  <2> QED BY <2>1 DEF EditingStep, Editing!EditNext
<1>6. ASSUME key = << 126 >>, key' = NoKey, ~Swallowing', UNCHANGED <<Recorded, i>>,
             Shown' = (IF Swallowing /\ i + 1 \in DOMAIN Shown THEN RemoveAt(Shown, i + 1) ELSE Shown)
      PROVE  EditingStep
  <2>1. Editing!TypeTilde
    BY <1>6, SameOperators
    DEF Editing!TypeTilde, Editing!Erases, Editing!On, Shown, Recorded, Swallowing
  <2> QED BY <2>1 DEF EditingStep, Editing!EditNext
<1>7. ASSUME key = BackspaceKey, key' = NoKey, UNCHANGED <<Recorded, Swallowing>>,
             Shown' = (IF i \in DOMAIN Shown THEN RemoveAt(Shown, i) ELSE Shown),
             i' = IF i > 0 THEN i - 1 ELSE 0
      PROVE  EditingStep
  <2>1. Editing!Erase(BackspaceKey, i, IF i > 0 THEN i - 1 ELSE 0)
    BY <1>7, SameOperators
    DEF Editing!Erase, Editing!Erases, Editing!On, Shown, Recorded, Swallowing
  <2> QED BY <2>1 DEF EditingStep, Editing!EditNext
<1>8. ASSUME key = DeleteKey, key' = NoKey, UNCHANGED <<Recorded, i, Swallowing>>,
             Shown' = (IF i + 1 \in DOMAIN Shown THEN RemoveAt(Shown, i + 1) ELSE Shown)
      PROVE  EditingStep
  <2>1. Editing!Erase(DeleteKey, i + 1, i)
    BY <1>8, SameOperators
    DEF Editing!Erase, Editing!Erases, Editing!On, Shown, Recorded, Swallowing
  <2> QED BY <2>1 DEF EditingStep, Editing!EditNext
<1>9. ASSUME key' = NoKey, UNCHANGED <<Recorded, Shown, Swallowing>>,
             \/ key = LeftKey /\ i' = IF i > 0 THEN i - 1 ELSE 0
             \/ key = RightKey /\ i' = IF i < Len(Shown) THEN i + 1 ELSE i
             \/ key = HomeKey /\ i' = 0
             \/ key = EndKey /\ i' = Len(Shown)
      PROVE  EditingStep
  BY <1>9 DEF EditingStep, Editing!EditNext, Editing!Move, Editing!On, Shown, Recorded, Swallowing
<1>10. ASSUME key \in {UpKey, DownKey}, key' = NoKey, UNCHANGED <<Recorded, Swallowing>>,
              \/ UNCHANGED <<Shown, i>>
              \/ Shown' \in ToSet(Recorded) \cup {<<>>} /\ i' = Len(Shown')
       PROVE  EditingStep
  <2>1. Editing!Recall(key)
    BY <1>10, SameOperators DEF Editing!Recall, Editing!On, Shown, Recorded, Swallowing
  <2> QED BY <1>10, <2>1 DEF EditingStep, Editing!EditNext
<1>11. ASSUME key = EnterKey, key' = NoKey, Shown' = <<>>, i' = 0, ~Swallowing',
              Recorded' = IF Shown = <<>> THEN Recorded
                          ELSE Append(IF Len(Recorded) < MAX_HISTORY_CMDS THEN Recorded ELSE Tail(Recorded),
                                      Shown)
       PROVE  EditingStep
  <2>1. Editing!Submit
    BY <1>11 DEF Editing!Submit, Editing!On, Shown, Recorded, Swallowing
  <2> QED BY <2>1 DEF EditingStep, Editing!EditNext
<1>12. ASSUME key' = NoKey, Shown' = <<>>, i' = 0, ~Swallowing', UNCHANGED Recorded
       PROVE  EditingStep
  <2>1. Editing!Interrupt
    BY <1>12 DEF Editing!Interrupt, Shown, Recorded, Swallowing
  <2> QED BY <2>1 DEF EditingStep, Editing!EditNext
<1> QED BY <1>1, <1>2, <1>3, <1>4, <1>5, <1>6, <1>7, <1>8, <1>9, <1>10, <1>11, <1>12

\* What a character acts on is what its key acts on.
LEMMA ShownTypes ==
    ASSUME EditorTypeOK
    PROVE  /\ line \in Seq(Typed) /\ i \in 0..Len(line) /\ Len(line) \in Nat
           /\ Shown \in Seq(PlainKeys) /\ Len(Shown) = Len(line) /\ DOMAIN Shown = 1..Len(line)
           /\ line = <<>> <=> Shown = <<>>
<1>1. line \in Seq(Typed) /\ i \in 0..Len(line) /\ Len(line) \in Nat
  BY DEF EditorTypeOK
<1>2. Shown \in Seq(PlainKeys) /\ Len(Shown) = Len(line) /\ DOMAIN Shown = 1..Len(line)
  BY <1>1, AsKeysOf DEF Shown
<1>3. line = <<>> <=> Len(line) = 0
  BY <1>1, EmptySeq
<1>4. Shown = <<>> <=> Len(Shown) = 0
  BY <1>2, EmptySeq
<1> QED BY <1>1, <1>2, <1>3, <1>4

LEMMA PutShown ==
    ASSUME EditorTypeOK, NEW c \in Typed, Put(c)
    PROVE  Shown' = InsertAt(Shown, i + 1, <<c>>) /\ i' = i + 1
<1>1. line \in Seq(Typed) /\ i + 1 \in 1..(Len(line) + 1)
  BY ShownTypes
<1>2. AsKeys(InsertAt(line, i + 1, c)) = InsertAt(AsKeys(line), i + 1, <<c>>)
  BY <1>1, AsKeysInsert
<1>3. Shown' = AsKeys(InsertAt(line, i + 1, c)) /\ i' = i + 1
  BY DEF Put, Shown, AsKeys
<1> QED BY <1>2, <1>3 DEF Shown

LEMMA RemoveShown ==
    ASSUME EditorTypeOK, NEW p \in 1..Len(line), line' = RemoveAt(line, p)
    PROVE  Shown' = RemoveAt(Shown, p)
<1>1. AsKeys(RemoveAt(line, p)) = RemoveAt(AsKeys(line), p)
  BY ShownTypes, AsKeysRemove
<1>2. Shown' = AsKeys(RemoveAt(line, p))
  BY DEF Shown, AsKeys
<1> QED BY <1>1, <1>2 DEF Shown

LEMMA PressEdits ==
    ASSUME EditorInv, PressKey
    PROVE  EditingStep
<1>1. ASSUME NEW k \in Key PROVE k # <<>>
  <2>1. \A c, d : <<c>> # <<>> /\ Csi(d) # <<>> /\ DeleteKey # <<>>
    BY DEF Csi, DeleteKey
  <2> QED BY <2>1, KeyForms
<1>2. key = NoKey
  BY <1>1 DEF EditorInv, KeyInv, PressKey
<1>3. UNCHANGED <<Shown, i, Recorded>>
  BY ShownKept, RecordedKept DEF EditorInv, PressKey, lineVars, queueVars
<1> QED BY <1>2, <1>3, EditingActions DEF PressKey, countVars

LEMMA EditRecorded ==
    ASSUME EditorInv, EditOnly
    PROVE  Recorded' = Recorded
  BY RecordedKept DEF EditorInv, EditOnly, queueVars

LEMMA TypedNumbers == \A c \in Typed : c \in 32..126
  BY TypedAssumption

\* Characters of escape sequences before the last: no key is over.
LEMMA SequenceEdits ==
    ASSUME EditorInv, \/ GetEscape
                      \/ GetThree /\ key # << 51 >>
                      \/ GetBracket /\ arrow_count = 1
    PROVE  EditingStep
<1>1. key' = key /\ key \in CodedKeys
  <2>1. CASE GetEscape
    <3>1. Reads(27)
      BY <2>1, GetReads DEF EditorInv, GetEscape, Esc
    <3>2. 27 \notin Typed \cup {8, 10} /\ 27 \notin Final
      BY TypedNumbers DEF Final
    <3> QED BY <3>1, <3>2, Swallows DEF Reads
  <2>2. CASE GetThree /\ key # <<51>>
    <3>1. Reads(51)
      BY <2>2, GetReads DEF EditorInv, GetThree
    <3> QED BY <2>2, <3>1, Swallows DEF Reads, Esc, Final
  <2>3. CASE GetBracket /\ arrow_count = 1
    <3>1. Reads(91)
      BY <2>3, GetReads DEF EditorInv, GetBracket
    <3> QED BY <2>3, <3>1, Swallows DEF Reads, Esc, Final
  <2> QED BY <2>1, <2>2, <2>3
<1>2. UNCHANGED lineVars
  BY DEF GetEscape, GetThree, GetBracket, lineVars
<1>3. UNCHANGED Recorded
  BY EditRecorded DEF GetEscape, GetThree, GetBracket
<1>4. Swallowing' = Swallowing
  BY <1>1, Swallows
<1> QED BY <1>1, <1>2, <1>3, <1>4, ShownKept, EditingActions DEF lineVars

\* A '3' that is typed.
LEMMA ThreeEdits ==
    ASSUME EditorInv, GetThree, key = << 51 >>
    PROVE  EditingStep
<1>1. key' = NoKey
  <2>1. Reads(51)
    BY GetReads DEF EditorInv, GetThree
  <2>2. key # DeleteKey
    BY DEF DeleteKey
  <2> QED BY <2>1, <2>2 DEF Reads, Esc, Final
<1>2. Swallowing'
  BY <1>1, Swallows DEF GetThree
<1>3. UNCHANGED <<Shown, i, Recorded>>
  BY EditRecorded, ShownKept DEF GetThree, lineVars
<1> QED BY <1>1, <1>2, <1>3, EditingActions

\* A character other than '3' and '~': it is inserted, or a '3' typed before
\* it swallows it.
LEMMA InsertEdits ==
    ASSUME EditorInv,
           \/ GetBracket /\ arrow_count # 1
           \/ GetSpace
           \/ \E c \in Typed \cup Final : GetPlain(c)
    PROVE  EditingStep
<1>1. del_count \in 0..1
  BY DEF EditorInv, EditorTypeOK
<1>2. PICK c : /\ EditOnly /\ c \in Typed \ {51, 126} /\ key = <<c>> /\ key' = NoKey
               /\ \/ Put(c) /\ (c = 32 \/ del_count = 0) /\ del_count' = del_count
                  \/ UNCHANGED lineVars /\ c # 32 /\ del_count = 1 /\ del_count' = 0
  <2>1. CASE GetBracket /\ arrow_count # 1
    <3>1. Reads(91) /\ EditOnly
      BY <2>1, GetReads DEF EditorInv, GetBracket
    <3>2. 91 \in Typed /\ key = <<91>> /\ key' = NoKey /\ arrow_count = 0
      BY <2>1, <3>1 DEF Reads, Esc, Final
    <3>3. (Put(91) /\ del_count = 0) \/ (UNCHANGED lineVars /\ del_count = 1)
      BY <1>1, <2>1, <3>2 DEF GetBracket
    <3> QED BY <2>1, <3>1, <3>2, <3>3 DEF GetBracket
  <2>2. CASE GetSpace
    <3>1. Reads(32) /\ EditOnly /\ Put(32) /\ del_count' = del_count
      BY <2>2, GetReads DEF EditorInv, GetSpace, countVars
    <3>2. 32 \in Typed /\ key = <<32>> /\ key' = NoKey
      BY <3>1 DEF Reads, Esc, Final
    <3> QED BY <3>1, <3>2
  <2>3. CASE \E c \in Typed \cup Final : GetPlain(c)
    <3>1. PICK c : GetPlain(c)
      BY <2>3
    <3>2. Reads(c) /\ EditOnly /\ c \in 33..125 \ {51, 91} /\ ~(c \in Final /\ arrow_count = 2)
          /\ del_count' = 0
      BY <3>1, GetReads DEF EditorInv, GetPlain, EndCounts
    <3>3. c \in Typed /\ key = <<c>> /\ key' = NoKey /\ arrow_count = 0
      BY <3>2 DEF Reads, Esc
    <3>4. (Put(c) /\ del_count = 0) \/ (UNCHANGED lineVars /\ del_count = 1)
      BY <1>1, <3>1, <3>3 DEF GetPlain
    <3>5. c \notin {51, 126, 32}
      BY <3>2
    <3> QED BY <3>2, <3>3, <3>4, <3>5
  <2> QED BY <2>1, <2>2, <2>3
<1>3. PICK k \in PlainKeys : k = <<c>>
  BY <1>2 DEF PlainKeys
<1>4. k \notin {<<51>>, <<126>>} /\ (k = <<32>> <=> c = 32)
  BY <1>2, <1>3
<1>5. (Swallowing <=> del_count = 1) /\ (Swallowing' <=> del_count' = 1)
  BY <1>2, Swallows
<1>6. key = k /\ key' = NoKey /\ Recorded' = Recorded
  BY <1>2, <1>3, EditRecorded
<1>7. CASE Put(c) /\ (c = 32 \/ del_count = 0) /\ del_count' = del_count
  <2>1. Shown' = InsertAt(Shown, i + 1, k) /\ i' = i + 1
    BY <1>2, <1>3, <1>7, PutShown DEF EditorInv
  <2>2. Swallowing' = Swallowing /\ (Swallowing => k = <<32>>)
    BY <1>4, <1>5, <1>7, Swallows
  <2> QED BY <1>4, <1>6, <2>1, <2>2, EditingActions
<1>8. CASE UNCHANGED lineVars /\ c # 32 /\ del_count = 1 /\ del_count' = 0
  <2>1. UNCHANGED <<Shown, i>>
    BY <1>8, ShownKept DEF lineVars
  <2>2. Swallowing /\ ~Swallowing'
    BY <1>5, <1>8
  <2> QED BY <1>4, <1>6, <1>8, <2>1, <2>2, EditingActions
<1> QED BY <1>2, <1>7, <1>8

LEMMA BackspaceEdits ==
    ASSUME EditorInv, GetBackspace
    PROVE  EditingStep
<1>1. Reads(8) /\ EditOnly
  BY GetReads DEF EditorInv, GetBackspace
<1>2. /\ key = BackspaceKey /\ key' = NoKey /\ Recorded' = Recorded
      /\ Swallowing' = Swallowing
  <2>1. key = <<8>> /\ key' = NoKey
    BY <1>1 DEF Reads, Esc, Final
  <2>2. Swallowing' = Swallowing
    BY <2>1, Swallows DEF GetBackspace, countVars
  <2> QED BY <1>1, <2>1, <2>2, EditRecorded DEF BackspaceKey
<1>3. i \in 0..Len(line) /\ Len(line) \in Nat /\ DOMAIN Shown = 1..Len(line)
  BY ShownTypes DEF EditorInv
<1>4. CASE i > 0
  <2>1. i \in 1..Len(line) /\ line' = RemoveAt(line, i) /\ i' = i - 1
    BY <1>3, <1>4 DEF GetBackspace
  <2>2. PICK p \in 1..Len(line) : p = i
    BY <2>1
  <2>3. Shown' = RemoveAt(Shown, p)
    BY <2>1, <2>2, RemoveShown DEF EditorInv
  <2> QED BY <1>2, <1>3, <1>4, <2>1, <2>2, <2>3, EditingActions
<1>5. CASE ~(i > 0)
  <2>1. i \notin DOMAIN Shown /\ i' = 0 /\ Shown' = Shown
    BY <1>3, <1>5, ShownKept DEF GetBackspace, lineVars
  <2> QED BY <1>2, <1>5, <2>1, EditingActions
<1> QED BY <1>4, <1>5

\* The end of the Delete key, or a '~' that is typed.
LEMMA TildeEdits ==
    ASSUME EditorInv, GetTilde
    PROVE  EditingStep
<1>1. Reads(126) /\ EditOnly /\ del_count' = 0
  BY GetReads DEF EditorInv, GetTilde, EndCounts
<1>2. /\ (key = DeleteKey /\ del_count = 1) \/ key = <<126>>
      /\ key' = NoKey /\ Recorded' = Recorded
  BY <1>1, EditRecorded DEF Reads, Esc, Final
<1>3. i \in 0..Len(line) /\ Len(line) \in Nat /\ DOMAIN Shown = 1..Len(line) /\ i' = i
  BY ShownTypes DEF EditorInv, GetTilde
<1>4. Shown' = IF del_count = 1 /\ i + 1 \in DOMAIN Shown THEN RemoveAt(Shown, i + 1) ELSE Shown
  <2>1. CASE del_count = 1 /\ i < Len(line)
    <3>1. i + 1 \in 1..Len(line) /\ line' = RemoveAt(line, i + 1)
      BY <1>3, <2>1 DEF GetTilde
    <3>2. PICK p \in 1..Len(line) : p = i + 1
      BY <3>1
    <3>3. Shown' = RemoveAt(Shown, p)
      BY <3>1, <3>2, RemoveShown DEF EditorInv
    <3> QED BY <1>3, <2>1, <3>2, <3>3
  <2>2. CASE ~(del_count = 1 /\ i < Len(line))
    <3>1. Shown' = Shown
      BY <2>2, ShownKept DEF GetTilde
    <3>2. ~(del_count = 1 /\ i + 1 \in DOMAIN Shown)
      BY <1>3, <2>2
    <3> QED BY <3>1, <3>2
  <2> QED BY <2>1, <2>2
<1>5. ~Swallowing'
  BY <1>1 DEF Swallowing
<1>6. CASE key = DeleteKey /\ del_count = 1
  <2>1. Swallowing' = Swallowing
    BY <1>5, <1>6, Swallows
  <2>2. Shown' = IF i + 1 \in DOMAIN Shown THEN RemoveAt(Shown, i + 1) ELSE Shown
    BY <1>4, <1>6
  <2> QED BY <1>2, <1>3, <1>5, <1>6, <2>1, <2>2, EditingActions
<1>7. CASE key = <<126>>
  <2>1. Swallowing <=> del_count = 1
    BY <1>7, Swallows
  <2>2. Shown' = IF Swallowing /\ i + 1 \in DOMAIN Shown THEN RemoveAt(Shown, i + 1) ELSE Shown
    BY <1>4, <2>1
  <2> QED BY <1>2, <1>3, <1>5, <1>7, <2>2, EditingActions
<1> QED BY <1>2, <1>6, <1>7

LEMMA MoveEdits ==
    ASSUME EditorInv, MoveCursor
    PROVE  EditingStep
<1>1. ASSUME NEW c \in Final, NEW to, GetMove(c, to)
      PROVE  /\ key = Csi(c) /\ key' = NoKey /\ Recorded' = Recorded /\ Shown' = Shown /\ i' = to
             /\ Swallowing' = Swallowing
  <2>1. Reads(c) /\ EditOnly /\ arrow_count = 2 /\ line' = line /\ i' = to /\ del_count' = 0
    BY <1>1, GetReads DEF EditorInv, GetMove, EndCounts
  <2>2. key = Csi(c) /\ key' = NoKey
    BY <1>1, <2>1 DEF Reads, Esc, Final
  <2>3. Swallowing' = Swallowing
    BY <2>1, <2>2, Swallows DEF Swallowing
  <2> QED BY <2>1, <2>2, <2>3, EditRecorded, ShownKept
<1>2. Len(Shown) = Len(line)
  BY ShownTypes DEF EditorInv
<1>3. CASE GetMove(67, IF i < Len(line) THEN i + 1 ELSE i)
  <2>1. /\ key = RightKey /\ key' = NoKey /\ UNCHANGED <<Recorded, Shown, Swallowing>>
        /\ i' = IF i < Len(Shown) THEN i + 1 ELSE i
    BY <1>1, <1>2, <1>3 DEF Final, RightKey
  <2> QED BY <2>1, EditingActions
<1>4. CASE GetMove(68, IF i > 0 THEN i - 1 ELSE i)
  <2>1. /\ key = LeftKey /\ key' = NoKey /\ UNCHANGED <<Recorded, Shown, Swallowing>>
        /\ i' = IF i > 0 THEN i - 1 ELSE i
    BY <1>1, <1>4 DEF Final, LeftKey
  <2>2. i' = IF i > 0 THEN i - 1 ELSE 0
    BY <2>1, ShownTypes DEF EditorInv
  <2> QED BY <2>1, <2>2, EditingActions
<1>5. CASE GetMove(72, 0)
  <2>1. key = HomeKey /\ key' = NoKey /\ UNCHANGED <<Recorded, Shown, Swallowing>> /\ i' = 0
    BY <1>1, <1>5 DEF Final, HomeKey
  <2> QED BY <2>1, EditingActions
<1>6. CASE GetMove(70, Len(line))
  <2>1. key = EndKey /\ key' = NoKey /\ UNCHANGED <<Recorded, Shown, Swallowing>> /\ i' = Len(Shown)
    BY <1>1, <1>2, <1>6 DEF Final, EndKey
  <2> QED BY <2>1, EditingActions
<1> QED BY <1>3, <1>4, <1>5, <1>6 DEF MoveCursor

LEMMA ArrowKeys ==
    ASSUME EditorInv, NEW c \in {65, 66}, GetArrow(c)
    PROVE  /\ key \in {UpKey, DownKey} /\ key' = NoKey /\ Recorded' = Recorded
           /\ Swallowing' = Swallowing
<1>1. Reads(c) /\ arrow_count = 2 /\ del_count' = 0
  BY GetReads DEF EditorInv, GetArrow, EndCounts
<1>2. key = Csi(c) /\ key' = NoKey
  BY <1>1 DEF Reads, Esc, Final
<1>3. Recorded' = Recorded
  BY RecordedKept DEF EditorInv, GetArrow, queueVars
<1>4. Swallowing' = Swallowing
  BY <1>1, <1>2, Swallows DEF Swallowing, Final
<1> QED BY <1>2, <1>3, <1>4 DEF UpKey, DownKey

\* An entry that is not freed holds a line of the history.
LEMMA EntryEdits ==
    ASSUME EditorInv, NEW n, ShowEntry(n)
    PROVE  \/ UNCHANGED <<Shown, i>>
           \/ Shown' \in ToSet(Recorded) /\ i' = Len(Shown')
<1>1. CASE n \in allocated
  <2>1. PICK k \in 1..m_num_hist_cmd : n = Entry[k]
    BY <1>1, EntriesListed DEF EditorInv
  <2>2. Recorded[k] = AsKeys(cmd[n]) /\ DOMAIN Recorded = 1..m_num_hist_cmd
    BY <2>1, RecordedNow DEF EditorInv
  <2>3. cmd[n] \in Seq(Typed)
    BY <1>1 DEF EditorInv, EditorTypeOK
  <2>4. line' = cmd[n] /\ i' = Len(cmd[n])
    BY <1>1 DEF ShowEntry
  <2>5. Shown' = AsKeys(cmd[n])
    BY <2>4 DEF Shown, AsKeys
  <2>6. i' = Len(Shown')
    BY <2>3, <2>4, <2>5, AsKeysOf
  <2>7. Shown' \in ToSet(Recorded)
    BY <2>2, <2>5 DEF ToSet
  <2> QED BY <2>6, <2>7
<1>2. CASE n \notin allocated
  BY <1>2, ShownKept DEF ShowEntry, lineVars
<1> QED BY <1>1, <1>2

LEMMA ArrowEdits ==
    ASSUME EditorInv, NothingToSearch(65) \/ NothingToSearch(66) \/ UpArrow \/ DownArrow
    PROVE  EditingStep
<1>1. key \in {UpKey, DownKey} /\ key' = NoKey /\ UNCHANGED <<Recorded, Swallowing>>
  BY ArrowKeys DEF NothingToSearch, UpArrow, DownArrow
<1>2. \/ UNCHANGED <<Shown, i>>
      \/ Shown' \in ToSet(Recorded) \cup {<<>>} /\ i' = Len(Shown')
  <2>1. CASE NothingToSearch(65) \/ NothingToSearch(66)
    BY <2>1, ShownKept DEF NothingToSearch, lineVars
  <2>2. CASE \E n : ShowEntry(n)
    BY <2>2, EntryEdits
  <2>3. CASE line' = <<>> /\ i' = 0
    <3>1. Shown' = <<>>
      BY <2>3, AsKeysEmpty DEF Shown, AsKeys
    <3> QED BY <2>3, <3>1
  <2>4. UpArrow => \E n : ShowEntry(n)
    BY DEF UpArrow
  <2>5. DownArrow => (\E n : ShowEntry(n)) \/ (line' = <<>> /\ i' = 0)
    BY DEF DownArrow
  <2> QED BY <2>1, <2>2, <2>3, <2>4, <2>5
<1> QED BY <1>1, <1>2, EditingActions

LEMMA EnterEdits ==
    ASSUME EditorInv, EnterLine
    PROVE  EditingStep
<1>1. Reads(10)
  BY GetReads DEF EditorInv, EnterLine
<1>2. key = EnterKey /\ key' = NoKey
  BY <1>1 DEF Reads, Esc, Final, EnterKey
<1>3. Shown' = <<>> /\ i' = 0 /\ ~Swallowing'
  BY AsKeysEmpty DEF EnterLine, NewLine, Shown, AsKeys, Swallowing
<1>4. Recorded' = IF Shown = <<>> THEN Recorded
                  ELSE Append(IF Len(Recorded) < MAX_HISTORY_CMDS THEN Recorded ELSE Tail(Recorded),
                              Shown)
  <2>1. line = <<>> <=> Shown = <<>>
    BY ShownTypes DEF EditorInv
  <2>2. CASE line = <<>>
    BY <2>1, <2>2, RecordedKept DEF EditorInv, EnterLine
  <2>3. CASE line # <<>>
    <3>1. add_new_cmd_to_history_queue
      BY <2>3 DEF EnterLine
    <3>2. Recorded' = Append(IF Len(Recorded) < MAX_HISTORY_CMDS THEN Recorded ELSE Tail(Recorded),
                             AsKeys(line))
      BY <3>1, RecordedAdds DEF EditorInv
    <3> QED BY <2>1, <2>3, <3>2 DEF Shown
  <2> QED BY <2>2, <2>3
<1> QED BY <1>2, <1>3, <1>4, EditingActions

LEMMA InterruptEdits ==
    ASSUME EditorInv, GetInterrupt
    PROVE  EditingStep
<1>1. key' = NoKey /\ line' = <<>> /\ i' = 0 /\ ~Swallowing'
  BY DEF GetInterrupt, NewLine, Swallowing
<1>2. Shown' = <<>>
  BY <1>1, AsKeysEmpty DEF Shown, AsKeys
<1>3. Recorded' = Recorded
  BY RecordedKept DEF EditorInv, GetInterrupt, queueVars
<1> QED BY <1>1, <1>2, <1>3, EditingActions

LEMMA StepEdits ==
    ASSUME EditorInv, [EditorNext]_editorVars
    PROVE  EditingStep
<1>1. CASE UNCHANGED editorVars
  <2>1. UNCHANGED <<Shown, i, Recorded, key>>
    BY <1>1, ShownKept, RecordedKept DEF EditorInv, editorVars, lineVars, keyVars, queueVars
  <2>2. UNCHANGED Swallowing
    BY <1>1 DEF editorVars, countVars, keyVars, Swallowing
  <2> QED BY <2>1, <2>2, EditingActions
<1>2. CASE EditorNext
  BY <1>2, PressEdits, SequenceEdits, ThreeEdits, InsertEdits, BackspaceEdits, TildeEdits,
     MoveEdits, ArrowEdits, EnterEdits, InterruptEdits DEF EditorNext
<1> QED BY <1>1, <1>2

\* The editor, which sees characters and keeps counters, pointers and a freed
\* entry's remains, does to line and history what LineEditing says of the
\* keys (shell.c:310-609, 861-949), whatever is typed and in whatever order:
\* a '3' and a '~' too, which it takes for parts of the Delete key
\* (shell.c:480, 491) with the effect LineEditing states and no other.
THEOREM EditorImplementsLineEditing == EditorSpec => ImplementsLineEditing
<1>1. EditorInit => Editing!EditInit
  <2>1. EditorInit => History = <<>>
    BY DEF EditorInit, History
  <2> QED BY <2>1, AsKeysEmpty DEF EditorInit, Editing!EditInit
<1>2. EditorInv /\ [EditorNext]_editorVars => [Editing!EditNext]_(Editing!editing)
  BY StepEdits DEF EditingStep
<1>3. EditorSpec => Editing!EditSpec
  BY <1>1, <1>2, EditorInductive, PTL DEF EditorSpec, Editing!EditSpec
<1> QED BY <1>3 DEF ImplementsLineEditing
=============================================================================
