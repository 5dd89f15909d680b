--------------------------- MODULE CmdTable_proofs ---------------------------
(***************************************************************************)
(* The command table for every list of syntaxes, every set of handlers and *)
(* arguments of any length: its types, that nothing is lost, and where     *)
(* usage texts do not end; then, from "Ways" on, that a plain table runs   *)
(* what its syntaxes say.                                                  *)
(***************************************************************************)
EXTENDS CmdSentences, SequenceTheorems, FiniteSetTheorems, TLAPS

(***************************************************************************)
(* Induction up to n: what holds at 0 and goes on from each number to the  *)
(* next holds up to n.                                                     *)
(***************************************************************************)
LEMMA LeastIn ==
    ASSUME NEW B \in SUBSET Nat, B # {}
    PROVE  \E b \in B : \A y \in B : ~(y < b)
<1> DEFINE T == {1..b : b \in B}
           R == StrictSubsetOrdering(Nat)
<1>1. T \subseteq FiniteSubsetsOf(Nat) /\ T # {}
  <2>1. ASSUME NEW b \in B PROVE 1..b \in FiniteSubsetsOf(Nat)
    <3>1. b \in Int /\ 1 \in Int /\ 1..b \in SUBSET Nat
      OBVIOUS
    <3>2. IsFiniteSet(1..b)
      BY <3>1, FS_Interval
    <3> QED BY <3>1, <3>2 DEF FiniteSubsetsOf
  <2> QED BY <2>1
<1>2. \E X \in T : \A Y \in T : <<Y, X>> \notin R
  <2> HIDE DEF T, R
  <2> QED BY <1>1, FS_StrictSubsetOrderingWellFounded, WFMin DEF R
<1>3. PICK b \in B : \A y \in B : <<1..y, 1..b>> \notin R
  BY <1>2
<1>4. ASSUME NEW y \in B, y < b PROVE FALSE
  <2>1. 1..y \in SUBSET Nat /\ 1..b \in SUBSET Nat /\ 1..y \subseteq 1..b
    BY <1>4
  <2>2. b \in 1..b /\ b \notin 1..y
    BY <1>4
  <2> QED BY <2>1, <2>2, <1>3 DEF StrictSubsetOrdering
<1> QED BY <1>4

LEMMA UpTo ==
    ASSUME NEW n \in Nat, NEW D, 0 \in D, \A k \in 1..n : k - 1 \in D => k \in D
    PROVE  \A k \in 0..n : k \in D
<1> DEFINE B == {k \in 0..n : k \notin D}
<1>1. CASE B = {}
  BY <1>1
<1>2. CASE B # {}
  <2>1. PICK b \in B : \A y \in B : ~(y < b)
    <3>1. B \in SUBSET Nat
      OBVIOUS
    <3> HIDE DEF B
    <3> QED BY <1>2, <3>1, LeastIn
  <2>2. b \in 1..n /\ b - 1 \in 0..n /\ b - 1 < b
    BY <2>1
  <2>3. b - 1 \in D
    BY <2>1, <2>2
  <2> QED BY <2>1, <2>2, <2>3
<1> QED BY <1>1, <1>2
-----------------------------------------------------------------------------
(***************************************************************************)
(* Graphs over the names N and the handlers H.                             *)
(***************************************************************************)
Nodes(g) == 1..Len(g.name)

WellFormed(g) ==
    /\ Len(g.sub) = Len(g.name) /\ Len(g.handler) = Len(g.name) /\ 1 \in Nodes(g)
    /\ \A k \in Nodes(g) : ToSet(g.sub[k]) \subseteq Nodes(g)
    /\ \A k \in Nodes(g) : \A m, n \in ToSet(g.sub[k]) : g.name[m] = g.name[n] => m = n

Graphs(N, H) ==
    {g \in [name : Seq(N), sub : Seq(Seq(Nat)), handler : Seq(H)] : WellFormed(g)}

\* Nothing leads back to the first node, and every edge but those from the
\* first node leads from a name to one that comes after it.
Ordered(g, After) ==
    \A k \in Nodes(g) : \A n \in ToSet(g.sub[k]) :
        n # 1 /\ (k = 1 \/ <<g.name[k], g.name[n]>> \in After)

\* h has what g has.
Extends(g, h) ==
    /\ Len(g.name) <= Len(h.name)
    /\ \A k \in Nodes(g) : /\ h.name[k] = g.name[k]
                           /\ ToSet(g.sub[k]) \subseteq ToSet(h.sub[k])
                           /\ HasHandler(g, k) => HasHandler(h, k)

LEMMA GraphTypes ==
    ASSUME NEW N, NEW H, NEW g \in Graphs(N, H)
    PROVE  /\ Len(g.name) \in Nat /\ Nodes(g) = 1..Len(g.name) /\ 1 \in Nodes(g)
           /\ g = [name |-> g.name, sub |-> g.sub, handler |-> g.handler]
           /\ g.name \in [Nodes(g) -> N] /\ g.sub \in [Nodes(g) -> Seq(Nat)]
           /\ g.handler \in [Nodes(g) -> H]
           /\ g.name \in Seq(N) /\ g.sub \in Seq(Seq(Nat)) /\ g.handler \in Seq(H)
           /\ Len(g.sub) = Len(g.name) /\ Len(g.handler) = Len(g.name)
<1>1. /\ g.name \in Seq(N) /\ g.sub \in Seq(Seq(Nat)) /\ g.handler \in Seq(H)
      /\ g = [name |-> g.name, sub |-> g.sub, handler |-> g.handler]
      /\ WellFormed(g)
  BY DEF Graphs
<1>2. Len(g.sub) = Len(g.name) /\ Len(g.handler) = Len(g.name) /\ 1 \in Nodes(g)
  BY <1>1 DEF WellFormed
<1> QED BY <1>1, <1>2, LenProperties DEF Nodes

LEMMA ToSetOf ==
    ASSUME NEW S, NEW s \in Seq(S)
    PROVE  ToSet(s) = {s[p] : p \in 1..Len(s)} /\ ToSet(s) \subseteq S
  BY LenProperties DEF ToSet

LEMMA ToSetAppend ==
    ASSUME NEW S, NEW s \in Seq(S), NEW x \in S
    PROVE  ToSet(Append(s, x)) = ToSet(s) \cup {x}
<1>1. /\ Append(s, x) \in Seq(S) /\ Len(Append(s, x)) = Len(s) + 1 /\ Len(s) \in Nat
      /\ \A p \in 1..Len(s) : Append(s, x)[p] = s[p]
      /\ Append(s, x)[Len(s) + 1] = x
  BY AppendProperties, LenProperties
<1>2. \A p \in 1..(Len(s) + 1) : p \in 1..Len(s) \/ p = Len(s) + 1
  BY <1>1
<1>3. ToSet(Append(s, x)) = {Append(s, x)[p] : p \in 1..(Len(s) + 1)}
  BY <1>1, ToSetOf
<1>4. ToSet(s) = {s[p] : p \in 1..Len(s)}
  BY ToSetOf
<1> QED BY <1>1, <1>2, <1>3, <1>4

LEMMA ExtendsReflexive ==
    ASSUME NEW N, NEW H, NEW g \in Graphs(N, H)
    PROVE  Extends(g, g)
  BY GraphTypes DEF Extends

LEMMA ExtendsTransitive ==
    ASSUME NEW N, NEW H, NEW f \in Graphs(N, H), NEW g \in Graphs(N, H), NEW h \in Graphs(N, H),
           Extends(f, g), Extends(g, h)
    PROVE  Extends(f, h)
<1>1. Len(f.name) \in Nat /\ Len(g.name) \in Nat /\ Len(h.name) \in Nat
  BY GraphTypes
<1>2. Nodes(f) \subseteq Nodes(g)
  BY <1>1 DEF Extends, Nodes
<1>3. Len(f.name) <= Len(h.name)
  BY <1>1 DEF Extends
<1>4. ASSUME NEW k \in Nodes(f)
      PROVE  /\ h.name[k] = f.name[k]
             /\ ToSet(f.sub[k]) \subseteq ToSet(h.sub[k])
             /\ HasHandler(f, k) => HasHandler(h, k)
  <2>1. /\ g.name[k] = f.name[k] /\ ToSet(f.sub[k]) \subseteq ToSet(g.sub[k])
        /\ HasHandler(f, k) => HasHandler(g, k)
    BY DEF Extends
  <2>2. /\ h.name[k] = g.name[k] /\ ToSet(g.sub[k]) \subseteq ToSet(h.sub[k])
        /\ HasHandler(g, k) => HasHandler(h, k)
    BY <1>2 DEF Extends
  <2> QED BY <2>1, <2>2
<1> QED BY <1>3, <1>4 DEF Extends

\* A new node has no subnodes and nothing leads to it.
LEMMA NodeAdded ==
    ASSUME NEW N, NEW H, NoHandler \in H, NEW g \in Graphs(N, H), NEW name \in N
    PROVE  /\ NewNode(g, name) \in Graphs(N, H) /\ Extends(g, NewNode(g, name))
           /\ Len(NewNode(g, name).name) = Len(g.name) + 1
           /\ NewNode(g, name).name[Len(g.name) + 1] = name
           /\ \A k \in Nodes(g) : /\ NewNode(g, name).sub[k] = g.sub[k]
                                  /\ NewNode(g, name).name[k] = g.name[k]
           /\ \A After : Ordered(g, After) => Ordered(NewNode(g, name), After)
<1> DEFINE h == NewNode(g, name)
           m == Len(g.name)
<1>1. /\ m \in Nat /\ g.name \in Seq(N) /\ g.sub \in Seq(Seq(Nat)) /\ g.handler \in Seq(H)
      /\ Len(g.sub) = m /\ Len(g.handler) = m /\ Nodes(g) = 1..m /\ 1 \in 1..m
  BY GraphTypes
<1>2. h = [name |-> Append(g.name, name), sub |-> Append(g.sub, <<>>), handler |-> Append(g.handler, NoHandler)]
  BY DEF NewNode
<1>3. /\ h.name \in Seq(N) /\ Len(h.name) = m + 1 /\ h.name[m + 1] = name
      /\ \A k \in 1..m : h.name[k] = g.name[k]
  BY <1>1, <1>2, AppendProperties
<1>4. /\ h.sub \in Seq(Seq(Nat)) /\ Len(h.sub) = m + 1 /\ h.sub[m + 1] = <<>>
      /\ \A k \in 1..m : h.sub[k] = g.sub[k]
  <2>1. <<>> \in Seq(Nat)
    BY EmptySeq
  <2>2. PICK e \in Seq(Nat) : e = <<>>
    BY <2>1
  <2> QED BY <1>1, <1>2, <2>2, AppendProperties
<1>5. /\ h.handler \in Seq(H) /\ Len(h.handler) = m + 1 /\ h.handler[m + 1] = NoHandler
      /\ \A k \in 1..m : h.handler[k] = g.handler[k]
  BY <1>1, <1>2, AppendProperties
<1>6. Nodes(h) = 1..(m + 1) /\ h \in [name : Seq(N), sub : Seq(Seq(Nat)), handler : Seq(H)]
  BY <1>2, <1>3, <1>4, <1>5 DEF Nodes
<1> HIDE DEF h, m
<1>7. \A k \in 1..(m + 1) : k \in 1..m \/ (k = m + 1 /\ h.sub[k] = <<>> /\ ToSet(h.sub[k]) = {})
  BY <1>1, <1>4 DEF ToSet
<1>8. \A k \in 1..m : ToSet(g.sub[k]) \subseteq 1..m
                        /\ \A a, b \in ToSet(g.sub[k]) : g.name[a] = g.name[b] => a = b
  BY <1>1 DEF Graphs, WellFormed
<1>9. WellFormed(h)
  <2>1. ASSUME NEW k \in Nodes(h) PROVE ToSet(h.sub[k]) \subseteq Nodes(h)
    <3>1. 1..m \subseteq Nodes(h)
      BY <1>1, <1>6
    <3>2. CASE k \in 1..m
      <4>1. ToSet(h.sub[k]) = ToSet(g.sub[k]) /\ ToSet(g.sub[k]) \subseteq 1..m
        BY <1>4, <1>8, <3>2
      <4> QED BY <3>1, <4>1
    <3>3. CASE ToSet(h.sub[k]) = {}
      BY <3>3
    <3> QED BY <1>6, <1>7, <3>2, <3>3
  <2>2. ASSUME NEW k \in Nodes(h), NEW a \in ToSet(h.sub[k]), NEW b \in ToSet(h.sub[k]),
               h.name[a] = h.name[b]
        PROVE  a = b
    <3>1. k \in 1..m /\ ToSet(h.sub[k]) = ToSet(g.sub[k])
      BY <1>4, <1>6, <1>7
    <3>2. a \in 1..m /\ b \in 1..m
      BY <1>8, <3>1
    <3> QED BY <1>3, <1>8, <2>2, <3>1, <3>2
  <2>3. 1 \in Nodes(h)
    BY <1>1, <1>6
  <2> QED BY <1>3, <1>4, <1>5, <2>1, <2>2, <2>3 DEF WellFormed
<1>10. h \in Graphs(N, H)
  BY <1>6, <1>9 DEF Graphs
<1>11. Extends(g, h)
  <2>1. m <= Len(h.name)
    BY <1>1, <1>3
  <2>2. ASSUME NEW k \in Nodes(g)
        PROVE  /\ h.name[k] = g.name[k]
               /\ ToSet(g.sub[k]) \subseteq ToSet(h.sub[k])
               /\ HasHandler(g, k) => HasHandler(h, k)
    <3>1. h.name[k] = g.name[k] /\ h.sub[k] = g.sub[k] /\ h.handler[k] = g.handler[k]
      BY <1>1, <1>3, <1>4, <1>5
    <3> QED BY <3>1 DEF HasHandler
  <2> QED BY <2>1, <2>2 DEF Extends, m
<1>12. ASSUME NEW After, Ordered(g, After) PROVE Ordered(h, After)
  <2>1. ASSUME NEW k \in Nodes(h), NEW n \in ToSet(h.sub[k])
        PROVE  n # 1 /\ (k = 1 \/ <<h.name[k], h.name[n]>> \in After)
    <3>1. k \in 1..m /\ n \in ToSet(g.sub[k]) /\ n \in 1..m
      BY <1>4, <1>6, <1>7, <1>8
    <3> QED BY <1>1, <1>3, <1>12, <3>1 DEF Ordered
  <2> QED BY <2>1 DEF Ordered
<1> QED BY <1>1, <1>3, <1>4, <1>10, <1>11, <1>12 DEF h, m

\* What Extends(g, h) says of one node.
LEMMA NodeKept ==
    ASSUME NEW N, NEW H, NEW g \in Graphs(N, H), NEW h \in Graphs(N, H), Extends(g, h),
           NEW k \in Nodes(g)
    PROVE  /\ k \in Nodes(h) /\ h.name[k] = g.name[k]
           /\ ToSet(g.sub[k]) \subseteq ToSet(h.sub[k])
           /\ HasHandler(g, k) => HasHandler(h, k)
<1>1. Len(g.name) \in Nat /\ Len(h.name) \in Nat /\ Len(g.name) <= Len(h.name)
  BY GraphTypes DEF Extends
<1>2. k \in Nodes(h)
  BY <1>1 DEF Nodes
<1> QED BY <1>2 DEF Extends
-----------------------------------------------------------------------------
(***************************************************************************)
(* Looking for a subnode.                                                  *)
(***************************************************************************)
LEMMA MinIsIn ==
    ASSUME NEW S \in SUBSET Nat, S # {}
    PROVE  Min(S) \in S
<1>1. PICK b \in S : \A y \in S : ~(y < b)
  BY LeastIn
<1>2. \A y \in S : b <= y
  BY <1>1
<1> QED BY <1>2 DEF Min

\* The position is that of a subnode of the name, or there is none.
LEMMA PositionFound ==
    ASSUME NEW N, NEW H, NEW g \in Graphs(N, H), NEW k \in Nodes(g), NEW name
    PROVE  \/ /\ Position(g, k, name) \in 1..Len(g.sub[k])
              /\ g.name[g.sub[k][Position(g, k, name)]] = name
           \/ /\ Position(g, k, name) = 0
              /\ \A n \in ToSet(g.sub[k]) : g.name[n] # name
<1> DEFINE I == {i \in 1..Len(g.sub[k]) : g.name[g.sub[k][i]] = name}
<1>1. g.sub[k] \in Seq(Nat) /\ Len(g.sub[k]) \in Nat
  BY GraphTypes, LenProperties
<1>2. Position(g, k, name) = IF I # {} THEN Min(I) ELSE 0
  BY DEF Position, SelectInSeq
<1>3. I \in SUBSET Nat
  BY <1>1
<1>4. CASE I # {}
  <2>1. Min(I) \in I
    <3> HIDE DEF I
    <3> QED BY <1>3, <1>4, MinIsIn
  <2> QED BY <1>2, <1>4, <2>1
<1>5. CASE I = {}
  <2>1. \A i \in 1..Len(g.sub[k]) : g.name[g.sub[k][i]] # name
    BY <1>5
  <2>2. ToSet(g.sub[k]) = {g.sub[k][p] : p \in 1..Len(g.sub[k])}
    BY <1>1, ToSetOf
  <2>3. Position(g, k, name) = 0
    BY <1>2, <1>5
  <2> QED BY <2>1, <2>2, <2>3
<1> QED BY <1>4, <1>5

LEMMA SubnodeFound ==
    ASSUME NEW N, NEW H, NEW g \in Graphs(N, H), NEW k \in Nodes(g), NEW name
    PROVE  \/ /\ findSubnode(g, k, name) \in ToSet(g.sub[k]) /\ findSubnode(g, k, name) \in Nodes(g)
              /\ g.name[findSubnode(g, k, name)] = name
              /\ findSubnode(g, k, name) # 0
           \/ /\ findSubnode(g, k, name) = 0
              /\ \A n \in ToSet(g.sub[k]) : g.name[n] # name
<1>1. g.sub[k] \in Seq(Nat) /\ ToSet(g.sub[k]) = {g.sub[k][p] : p \in 1..Len(g.sub[k])}
  BY GraphTypes, ToSetOf
<1>2. ToSet(g.sub[k]) \subseteq Nodes(g)
  BY DEF Graphs, WellFormed
<1>3. CASE Position(g, k, name) = 0
  BY <1>3, PositionFound DEF findSubnode
<1>4. CASE Position(g, k, name) # 0
  <2>1. findSubnode(g, k, name) = g.sub[k][Position(g, k, name)]
    BY <1>4 DEF findSubnode
  <2>2. /\ Position(g, k, name) \in 1..Len(g.sub[k])
        /\ g.name[g.sub[k][Position(g, k, name)]] = name
    BY <1>4, PositionFound
  <2>3. findSubnode(g, k, name) \in ToSet(g.sub[k])
    BY <1>1, <2>1, <2>2
  <2>4. findSubnode(g, k, name) # 0
    BY <1>2, <2>3 DEF Nodes
  <2> QED BY <1>2, <2>1, <2>2, <2>3, <2>4
<1> QED BY <1>3, <1>4

\* An edge from k to a node of the name keeps the order.
May(g, k, name, After) == k = 1 \/ <<g.name[k], name>> \in After

NoneNamed(g, k, name) == \A m \in ToSet(g.sub[k]) : g.name[m] # name

WithEdge(g, k, n) == [g EXCEPT !.sub[k] = Append(@, n)]

\* An edge to a node whose name no subnode has.
LEMMA EdgeAdded ==
    ASSUME NEW N, NEW H, NEW g \in Graphs(N, H), NEW k \in Nodes(g), NEW n \in Nodes(g),
           NoneNamed(g, k, g.name[n]), NEW After, NEW h, h = WithEdge(g, k, n)
    PROVE  /\ h \in Graphs(N, H) /\ Extends(g, h) /\ h.name = g.name
           /\ Ordered(g, After) /\ n # 1 /\ May(g, k, g.name[n], After) => Ordered(h, After)
<1>1. /\ g = [name |-> g.name, sub |-> g.sub, handler |-> g.handler]
      /\ g.sub \in Seq(Seq(Nat)) /\ g.sub \in [Nodes(g) -> Seq(Nat)] /\ Len(g.sub) = Len(g.name)
      /\ g.name \in Seq(N) /\ g.handler \in Seq(H) /\ Len(g.handler) = Len(g.name)
      /\ Nodes(g) = 1..Len(g.name) /\ Len(g.name) \in Nat /\ 1 \in Nodes(g)
  BY GraphTypes
<1>2. g.sub[k] \in Seq(Nat) /\ n \in Nat
  BY <1>1
<1>3. PICK e \in Seq(Nat) : e = Append(g.sub[k], n) /\ ToSet(e) = ToSet(g.sub[k]) \cup {n}
  <2>1. Append(g.sub[k], n) \in Seq(Nat)
    BY <1>2, AppendProperties
  <2>2. ToSet(Append(g.sub[k], n)) = ToSet(g.sub[k]) \cup {n}
    BY <1>2, ToSetAppend
  <2> QED BY <2>1, <2>2
<1>4. h = [name |-> g.name, sub |-> [g.sub EXCEPT ![k] = e], handler |-> g.handler]
  BY <1>1, <1>3 DEF WithEdge
<1>5. /\ h.name = g.name /\ h.handler = g.handler /\ h.sub = [g.sub EXCEPT ![k] = e]
      /\ Nodes(h) = Nodes(g)
  <2>1. PICK x : x = [g.sub EXCEPT ![k] = e]
    OBVIOUS
  <2>2. h.name = g.name /\ h.handler = g.handler /\ h.sub = x
    BY <1>4, <2>1
  <2> QED BY <2>1, <2>2 DEF Nodes
<1>6. h.sub \in Seq(Seq(Nat)) /\ Len(h.sub) = Len(g.sub)
  BY <1>1, <1>3, <1>5, ExceptSeq
<1>7. /\ \A j \in Nodes(g) : j # k => h.sub[j] = g.sub[j]
      /\ h.sub[k] = e
  BY <1>1, <1>5
<1>8. \A j \in Nodes(g) : /\ ToSet(g.sub[j]) \subseteq Nodes(g)
                          /\ \A a, b \in ToSet(g.sub[j]) : g.name[a] = g.name[b] => a = b
  BY DEF Graphs, WellFormed
<1>9. \A j \in Nodes(g) : ToSet(h.sub[j]) \subseteq Nodes(g) /\ ToSet(g.sub[j]) \subseteq ToSet(h.sub[j])
  BY <1>3, <1>7, <1>8
<1>10. ASSUME NEW j \in Nodes(g), NEW a \in ToSet(h.sub[j]), NEW b \in ToSet(h.sub[j]),
              g.name[a] = g.name[b]
       PROVE  a = b
  <2>1. CASE j # k
    BY <1>7, <1>8, <1>10, <2>1
  <2>2. CASE j = k
    <3>1. /\ a \in ToSet(g.sub[k]) \/ a = n
          /\ b \in ToSet(g.sub[k]) \/ b = n
      BY <1>3, <1>7, <2>2
    <3> QED BY <1>8, <1>10, <3>1 DEF NoneNamed
  <2> QED BY <2>1, <2>2
<1>11. WellFormed(h)
  <2>1. \A j \in Nodes(h) : ToSet(h.sub[j]) \subseteq Nodes(h)
    BY <1>5, <1>9
  <2>2. ASSUME NEW j \in Nodes(h), NEW a \in ToSet(h.sub[j]), NEW b \in ToSet(h.sub[j]),
               h.name[a] = h.name[b]
        PROVE  a = b
    <3>1. j \in Nodes(g) /\ g.name[a] = g.name[b]
      BY <1>5, <2>2
    <3> QED BY <1>10, <3>1
  <2> QED BY <1>1, <1>5, <1>6, <2>1, <2>2 DEF WellFormed
<1>12. h \in Graphs(N, H)
  <2>1. h \in [name : Seq(N), sub : Seq(Seq(Nat)), handler : Seq(H)]
    BY <1>1, <1>4, <1>5, <1>6
  <2> QED BY <1>11, <2>1 DEF Graphs
<1>13. Extends(g, h)
  <2>1. Len(g.name) <= Len(h.name)
    BY <1>1, <1>5
  <2> QED BY <1>5, <1>9, <2>1 DEF Extends, HasHandler
<1>14. ASSUME Ordered(g, After), n # 1, May(g, k, g.name[n], After)
       PROVE  Ordered(h, After)
  <2>1. ASSUME NEW j \in Nodes(g), NEW a \in ToSet(h.sub[j])
        PROVE  a # 1 /\ (j = 1 \/ <<g.name[j], g.name[a]>> \in After)
    <3>1. CASE a \in ToSet(g.sub[j])
      BY <1>14, <3>1 DEF Ordered
    <3>2. CASE j = k /\ a = n
      BY <1>14, <3>2 DEF May
    <3>3. a \in ToSet(g.sub[j]) \/ (j = k /\ a = n)
      <4>1. CASE j # k
        BY <1>7, <4>1
      <4>2. CASE j = k
        BY <1>3, <1>7, <4>2
      <4> QED BY <4>1, <4>2
    <3> QED BY <3>1, <3>2, <3>3
  <2> QED BY <1>5, <2>1 DEF Ordered
<1> QED BY <1>5, <1>12, <1>13, <1>14
-----------------------------------------------------------------------------
(***************************************************************************)
(* Appending a node.                                                       *)
(***************************************************************************)

\* A graph and, if there is one yet, its node of the name.
Linked(N, H, name) ==
    {r \in [graph : Graphs(N, H), node : Nat] :
        r.node # 0 => r.node \in Nodes(r.graph) /\ r.graph.name[r.node] = name}

LEMMA NodeLinked ==
    ASSUME NEW N, NEW H, NEW g \in Graphs(N, H), NEW k \in Nodes(g), NEW n \in Nodes(g),
           NEW After, NEW h, h = addCreatedSubnodeIfNotExist(g, k, n)
    PROVE  /\ h \in Graphs(N, H) /\ Extends(g, h) /\ h.name = g.name
           /\ Ordered(g, After) /\ n # 1 /\ May(g, k, g.name[n], After) => Ordered(h, After)
<1>1. CASE findSubnode(g, k, g.name[n]) # 0
  <2>1. h = g
    BY <1>1 DEF addCreatedSubnodeIfNotExist
  <2> QED BY <2>1, ExtendsReflexive
<1>2. CASE findSubnode(g, k, g.name[n]) = 0
  <2>1. h = WithEdge(g, k, n)
    BY <1>2 DEF addCreatedSubnodeIfNotExist, WithEdge
  <2>2. NoneNamed(g, k, g.name[n])
    BY <1>2, SubnodeFound DEF NoneNamed
  <2> QED BY <2>1, <2>2, EdgeAdded
<1> QED BY <1>1, <1>2

LEMMA SubnodeCreated ==
    ASSUME NEW N, NEW H, NoHandler \in H, NEW g \in Graphs(N, H), NEW k \in Nodes(g), NEW name \in N,
           NEW After, NEW r, r = createAndAddNewSubnodeIfNotExist(g, k, name)
    PROVE  /\ r \in Linked(N, H, name) /\ r.node # 0 /\ Extends(g, r.graph)
           /\ Ordered(g, After) /\ May(g, k, name, After) => Ordered(r.graph, After) /\ r.node # 1
<1> DEFINE f == findSubnode(g, k, name)
           n == Len(g.name) + 1
           e == NewNode(g, name)
           h == addCreatedSubnodeIfNotExist(e, k, n)
<1>0. Len(g.name) \in Nat /\ Nodes(g) = 1..Len(g.name) /\ 1 \in Nodes(g)
  BY GraphTypes
<1>1. CASE f # 0
  <2>1. r = [graph |-> g, node |-> f]
    BY <1>1 DEF createAndAddNewSubnodeIfNotExist
  <2>2. f \in ToSet(g.sub[k]) /\ f \in Nodes(g) /\ g.name[f] = name
    BY <1>1, SubnodeFound
  <2> HIDE DEF f
  <2>3. f \in Nat
    BY <1>0, <2>2
  <2>3a. ASSUME Ordered(g, After) PROVE f # 1
    BY <2>2, <2>3a DEF Ordered
  <2>4. r.graph = g /\ r.node = f /\ r \in [graph : Graphs(N, H), node : Nat]
    BY <2>1, <2>3
  <2> QED BY <1>1, <2>2, <2>3, <2>3a, <2>4, ExtendsReflexive DEF Linked
<1>2. CASE f = 0
  <2>1. r = [graph |-> h, node |-> n]
    BY <1>2 DEF createAndAddNewSubnodeIfNotExist
  <2>2. /\ e \in Graphs(N, H) /\ Extends(g, e) /\ Len(e.name) = n /\ e.name[n] = name
        /\ \A j \in Nodes(g) : e.name[j] = g.name[j]
        /\ Ordered(g, After) => Ordered(e, After)
    BY NodeAdded
  <2>3. k \in Nodes(e) /\ n \in Nodes(e) /\ n # 1 /\ n # 0 /\ n \in Nat
    BY <1>0, <2>2 DEF Nodes
  <2>3a. h = addCreatedSubnodeIfNotExist(e, k, n)
    OBVIOUS
  <2>3b. e \in Graphs(N, H)
    BY <2>2
  <2> HIDE DEF e, n, h
  <2>4. /\ h \in Graphs(N, H) /\ Extends(e, h) /\ h.name = e.name
        /\ Ordered(e, After) /\ n # 1 /\ May(e, k, e.name[n], After) => Ordered(h, After)
    <3>1. k \in Nodes(e) /\ n \in Nodes(e)
      BY <2>3
    <3> QED BY <2>3a, <2>3b, <3>1, NodeLinked
  <2>5. Nodes(h) = Nodes(e)
    BY <2>4 DEF Nodes
  <2>6. Extends(g, h)
    BY <2>2, <2>4, ExtendsTransitive
  <2>7. May(g, k, name, After) => May(e, k, e.name[n], After)
    BY <2>2 DEF May
  <2>8. r.graph = h /\ r.node = n /\ r \in [graph : Graphs(N, H), node : Nat]
    BY <2>1, <2>3, <2>4
  <2>9. r \in Linked(N, H, name)
    BY <2>2, <2>3, <2>4, <2>5, <2>8 DEF Linked
  <2> QED BY <2>2, <2>3, <2>4, <2>6, <2>7, <2>8, <2>9
<1> QED BY <1>1, <1>2

LEMMA AppendedTo ==
    ASSUME NEW N, NEW H, NoHandler \in H, NEW name \in N, NEW q \in Linked(N, H, name),
           NEW k \in Nodes(q.graph), NEW After, NEW r, r = AppendTo(q, k, name)
    PROVE  /\ r \in Linked(N, H, name) /\ r.node # 0 /\ Extends(q.graph, r.graph)
           /\ Ordered(q.graph, After) /\ q.node # 1 /\ May(q.graph, k, name, After)
                => Ordered(r.graph, After) /\ r.node # 1
<1>1. /\ q = [graph |-> q.graph, node |-> q.node] /\ q.graph \in Graphs(N, H) /\ q.node \in Nat
      /\ q.node # 0 => q.node \in Nodes(q.graph) /\ q.graph.name[q.node] = name
  BY DEF Linked
<1>2. CASE q.node \in {0, k}
  <2>1. r = createAndAddNewSubnodeIfNotExist(q.graph, k, name)
    BY <1>2 DEF AppendTo
  <2> QED BY <1>1, <2>1, SubnodeCreated
<1>3. CASE q.node \notin {0, k}
  <2> DEFINE h == addCreatedSubnodeIfNotExist(q.graph, k, q.node)
  <2>1. r = [q EXCEPT !.graph = h]
    BY <1>3 DEF AppendTo
  <2>2. q.node \in Nodes(q.graph) /\ q.graph.name[q.node] = name /\ q.node # 0
    BY <1>1, <1>3
  <2>3. /\ h \in Graphs(N, H) /\ Extends(q.graph, h) /\ h.name = q.graph.name
        /\ Ordered(q.graph, After) /\ q.node # 1 /\ May(q.graph, k, q.graph.name[q.node], After)
             => Ordered(h, After)
    BY <1>1, <2>2, NodeLinked
  <2> HIDE DEF h
  <2>4. r = [graph |-> h, node |-> q.node]
    BY <1>1, <2>1
  <2>5. r.graph = h /\ r.node = q.node /\ r \in [graph : Graphs(N, H), node : Nat]
    BY <1>1, <2>3, <2>4
  <2>6. r \in Linked(N, H, name)
    BY <2>2, <2>3, <2>5 DEF Linked, Nodes
  <2> QED BY <2>2, <2>3, <2>5, <2>6
<1> QED BY <1>2, <1>3

\* The recursion over the last nodes.
LEMMA AppendedSoFar ==
    ASSUME NEW g, NEW last, NEW name, Len(last) \in Nat
    PROVE  \E R : /\ R = [p \in 0..Len(last) |->
                         IF p = 0 THEN [graph |-> g, node |-> 0] ELSE AppendTo(R[p - 1], last[p], name)]
                 /\ appendNewNodeToLastNodes(g, last, name) = R[Len(last)]
<1> DEFINE n == Len(last)
           Is(f, m) == f = [p \in 0..m |->
                          IF p = 0 THEN [graph |-> g, node |-> 0] ELSE AppendTo(f[p - 1], last[p], name)]
           D == {m \in 0..n : \E f : Is(f, m)}
           F == CHOOSE f : Is(f, n)
<1>1. 0 \in D
  <2> DEFINE f == [p \in 0..0 |-> [graph |-> g, node |-> 0]]
  <2>1. Is(f, 0)
    OBVIOUS
  <2>2. \E x : Is(x, 0)
    <3> HIDE DEF Is
    <3> QED BY <2>1
  <2> HIDE DEF Is
  <2> QED BY <2>2
<1>2. ASSUME NEW m \in 1..n, m - 1 \in D PROVE m \in D
  <2>1. PICK f : Is(f, m - 1)
    BY <1>2
  <2> DEFINE e == [p \in 0..m |-> IF p = m THEN AppendTo(f[m - 1], last[m], name) ELSE f[p]]
  <2>2. Is(e, m)
    <3> SUFFICES ASSUME NEW p \in 0..m
                 PROVE  e[p] = IF p = 0 THEN [graph |-> g, node |-> 0] ELSE AppendTo(e[p - 1], last[p], name)
      OBVIOUS
    <3>1. CASE p = m
      <4>1. m - 1 \in 0..m /\ m - 1 # m /\ m # 0
        OBVIOUS
      <4> QED BY <3>1, <4>1
    <3>2. CASE p \in 1..(m - 1)
      <4>1. p \in 0..(m - 1) /\ p - 1 \in 0..m /\ p - 1 # m /\ p # m /\ p # 0
        BY <3>2
      <4> QED BY <2>1, <4>1
    <3>3. CASE p = 0
      <4>1. p \in 0..(m - 1) /\ p # m
        BY <3>3
      <4> QED BY <2>1, <3>3, <4>1
    <3> QED BY <3>1, <3>2, <3>3
  <2> HIDE DEF e, Is
  <2> QED BY <2>2
<1>3. Is(F, n)
  <2>1. n \in D
    <3> HIDE DEF D
    <3>1. \A k \in 0..n : k \in D
      BY <1>1, <1>2, UpTo
    <3> QED BY <3>1
  <2> HIDE DEF Is
  <2> QED BY <2>1
<1>4. appendNewNodeToLastNodes(g, last, name) = F[n]
  BY DEF appendNewNodeToLastNodes
<1> HIDE DEF F
<1> QED BY <1>3, <1>4

\* Nodes of g are nodes of what g has become, with their names.
LEMMA StillNode ==
    ASSUME NEW N, NEW H, NEW g \in Graphs(N, H), NEW h \in Graphs(N, H), Extends(g, h),
           NEW k \in Nodes(g), NEW name, NEW After
    PROVE  k \in Nodes(h) /\ (May(g, k, name, After) => May(h, k, name, After))
<1>1. k \in Nodes(h) /\ h.name[k] = g.name[k]
  BY NodeKept
<1> QED BY <1>1 DEF May

LEMMA Appended ==
    ASSUME NEW N, NEW H, NoHandler \in H, NEW name \in N, NEW g \in Graphs(N, H),
           NEW last \in Seq(Nodes(g)), last # <<>>, NEW After,
           NEW r, r = appendNewNodeToLastNodes(g, last, name)
    PROVE  /\ r \in Linked(N, H, name) /\ r.node # 0 /\ Extends(g, r.graph)
           /\ Ordered(g, After) /\ (\A p \in 1..Len(last) : May(g, last[p], name, After))
                => Ordered(r.graph, After) /\ r.node # 1
<1> DEFINE n == Len(last)
           Keeps == Ordered(g, After) /\ \A p \in 1..n : May(g, last[p], name, After)
<1>1. n \in Nat /\ n # 0 /\ \A p \in 1..n : last[p] \in Nodes(g)
  BY EmptySeq, LenProperties
<1>2. PICK R : /\ R = [p \in 0..n |->
                      IF p = 0 THEN [graph |-> g, node |-> 0] ELSE AppendTo(R[p - 1], last[p], name)]
               /\ r = R[n]
  BY <1>1, AppendedSoFar
<1> HIDE DEF n
<1>3. R[0] = [graph |-> g, node |-> 0] /\ \A p \in 1..n : R[p] = AppendTo(R[p - 1], last[p], name)
  <2>1. 0 \in 0..n /\ \A p \in 1..n : p \in 0..n /\ p # 0
    BY <1>1
  <2> QED BY <1>2, <2>1
<1> DEFINE D == {p \in 0..n : /\ R[p] \in Linked(N, H, name) /\ Extends(g, R[p].graph)
                              /\ p # 0 => R[p].node # 0
                              /\ Keeps => Ordered(R[p].graph, After) /\ R[p].node # 1}
<1>4. 0 \in D
  <2>1. R[0].graph = g /\ R[0].node = 0 /\ R[0] \in [graph : Graphs(N, H), node : Nat]
    BY <1>3
  <2>2. R[0] \in Linked(N, H, name) /\ Extends(g, R[0].graph)
    BY <2>1, ExtendsReflexive DEF Linked
  <2> QED BY <1>1, <2>1, <2>2
<1>5. ASSUME NEW p \in 1..n, p - 1 \in D PROVE p \in D
  <2>0. p \in 0..n /\ p # 0
    BY <1>1
  <2> DEFINE q == R[p - 1]
             k == last[p]
  <2>1. /\ q \in Linked(N, H, name) /\ Extends(g, q.graph)
        /\ Keeps => Ordered(q.graph, After) /\ q.node # 1
    BY <1>5
  <2>2. R[p] = AppendTo(q, k, name)
    BY <1>3
  <2>3. k \in Nodes(g)
    BY <1>1
  <2> HIDE DEF q, k
  <2>4. q.graph \in Graphs(N, H)
    BY <2>1 DEF Linked
  <2>5. k \in Nodes(q.graph) /\ (May(g, k, name, After) => May(q.graph, k, name, After))
    BY <2>1, <2>3, <2>4, StillNode
  <2>6. /\ R[p] \in Linked(N, H, name) /\ R[p].node # 0 /\ Extends(q.graph, R[p].graph)
        /\ Ordered(q.graph, After) /\ q.node # 1 /\ May(q.graph, k, name, After)
             => Ordered(R[p].graph, After) /\ R[p].node # 1
    BY <2>1, <2>2, <2>5, AppendedTo
  <2>7. R[p].graph \in Graphs(N, H)
    BY <2>6 DEF Linked
  <2>8. Extends(g, R[p].graph)
    BY <2>1, <2>4, <2>6, <2>7, ExtendsTransitive
  <2>9. Keeps => May(g, k, name, After)
    BY DEF k
  <2>10. Keeps => Ordered(R[p].graph, After) /\ R[p].node # 1
    <3> HIDE DEF Keeps
    <3> QED BY <2>1, <2>5, <2>6, <2>9
  <2> HIDE DEF Keeps
  <2> QED BY <2>0, <2>6, <2>8, <2>10
<1>6. n \in D
  <2> HIDE DEF D
  <2>1. \A p \in 0..n : p \in D
    BY <1>1, <1>4, <1>5, UpTo
  <2> QED BY <1>1, <2>1
<1> QED BY <1>1, <1>2, <1>6 DEF n
-----------------------------------------------------------------------------
(***************************************************************************)
(* A recursion over positions stays in its set.                            *)
(***************************************************************************)
Steps(n, X) == [1..n -> [X -> X]]

\* R begins with a and goes on by the steps F.
Runs(R, n, X, a, F) == R \in [0..n -> X] /\ R[0] = a /\ \A p \in 1..n : R[p] = F[p][R[p - 1]]

LEMMA Recursion ==
    ASSUME NEW n \in Nat, NEW X, NEW a \in X, NEW F \in Steps(n, X)
    PROVE  \E R : Runs(R, n, X, a, F)
<1>0. F \in [1..n -> [X -> X]]
  BY DEF Steps
<1> DEFINE Is(f, m) == f \in [0..m -> X] /\ \A p \in 0..m : f[p] = IF p = 0 THEN a ELSE F[p][f[p - 1]]
           D == {m \in 0..n : \E f : Is(f, m)}
<1>1. 0 \in D
  <2> DEFINE f == [p \in 0..0 |-> a]
  <2>1. Is(f, 0)
    OBVIOUS
  <2>2. \E x : Is(x, 0)
    <3> HIDE DEF Is
    <3> QED BY <2>1
  <2> HIDE DEF Is
  <2> QED BY <2>2
<1>2. ASSUME NEW m \in 1..n, m - 1 \in D PROVE m \in D
  <2>1. PICK f : Is(f, m - 1)
    BY <1>2
  <2> DEFINE e == [p \in 0..m |-> IF p = m THEN F[m][f[m - 1]] ELSE f[p]]
  <2>2. Is(e, m)
    <3>0. \A p \in 0..m : p = m \/ p \in 0..(m - 1)
      OBVIOUS
    <3>1. F[m][f[m - 1]] \in X
      <4>1. f[m - 1] \in X /\ F[m] \in [X -> X]
        BY <1>0, <2>1
      <4> QED BY <4>1
    <3>2. e \in [0..m -> X]
      BY <2>1, <3>0, <3>1
    <3>3. ASSUME NEW p \in 0..m PROVE e[p] = IF p = 0 THEN a ELSE F[p][e[p - 1]]
      <4>1. CASE p = m
        <5>1. m - 1 \in 0..m /\ m - 1 # m /\ m # 0
          OBVIOUS
        <5> QED BY <4>1, <5>1
      <4>2. CASE p \in 1..(m - 1)
        <5>1. p \in 0..(m - 1) /\ p - 1 \in 0..m /\ p - 1 # m /\ p # m /\ p # 0
          BY <4>2
        <5> QED BY <2>1, <5>1
      <4>3. CASE p = 0
        <5>1. p \in 0..(m - 1) /\ p # m
          BY <4>3
        <5> QED BY <2>1, <4>3, <5>1
      <4> QED BY <4>1, <4>2, <4>3
    <3> HIDE DEF e
    <3> QED BY <3>2, <3>3
  <2>3. \E x : Is(x, m)
    <3> HIDE DEF e, Is
    <3> QED BY <2>2
  <2> HIDE DEF Is
  <2> QED BY <2>3
<1>3. n \in D
  <2> HIDE DEF D
  <2>1. \A k \in 0..n : k \in D
    BY <1>1, <1>2, UpTo
  <2> QED BY <2>1
<1>4. PICK R : Is(R, n)
  BY <1>3
<1>5. Runs(R, n, X, a, F)
  <2>1. R[0] = a
    BY <1>4
  <2>2. \A p \in 1..n : p \in 0..n /\ p # 0
    OBVIOUS
  <2>3. \A p \in 1..n : R[p] = F[p][R[p - 1]]
    BY <1>4, <2>2
  <2> QED BY <1>4, <2>1, <2>3 DEF Runs
<1> QED BY <1>5
-----------------------------------------------------------------------------
(***************************************************************************)
(* Splitting a syntax.                                                     *)
(***************************************************************************)

\* The nodes reached after the names S of a syntax.
Reached(g, S) == {k \in Nodes(g) : k = 1 \/ g.name[k] \in S}

Calls(V) == {c \in [last : Seq(V), newLast : Seq(V)] : c.last # <<>>}

\* A graph and nodes of it, the last nodes never none.
Splits(N, H, S) ==
    {s \in [graph : Graphs(N, H), last : Seq(Nat), calls : Seq([last : Seq(Nat), newLast : Seq(Nat)]),
            failed : BOOLEAN] :
        /\ s.last \in Seq(Reached(s.graph, S)) /\ s.last # <<>>
        /\ s.calls \in Seq(Calls(Reached(s.graph, S)))}

LEMMA CallsMonotonic ==
    ASSUME NEW V, NEW W, V \subseteq W
    PROVE  Seq(V) \subseteq Seq(W) /\ Seq(Calls(V)) \subseteq Seq(Calls(W))
<1>1. Seq(V) \subseteq Seq(W)
  BY SeqMonotonic
<1>2. Calls(V) \subseteq Calls(W)
  BY <1>1 DEF Calls
<1> QED BY <1>1, <1>2, SeqMonotonic

LEMMA ReachedMonotonic ==
    ASSUME NEW N, NEW H, NEW g \in Graphs(N, H), NEW h \in Graphs(N, H), Extends(g, h),
           NEW S, NEW T, S \subseteq T
    PROVE  Reached(g, S) \subseteq Reached(h, T)
<1>1. \A k \in Nodes(g) : k \in Nodes(h) /\ h.name[k] = g.name[k]
  BY NodeKept
<1> QED BY <1>1 DEF Reached

LEMMA GatheredIn ==
    ASSUME NEW V, NEW newLast \in Seq(V), NEW last \in Seq(V), last # <<>>
    PROVE  /\ Gathered(newLast, last) \in Seq(V) \ {<<>>}
           /\ ToSet(Gathered(newLast, last)) = ToSet(newLast) \cup ToSet(last)
<1> DEFINE n == Len(last)
           Step(x, e) == IF Contains(x, e) THEN x ELSE Append(x, e)
           F == [p \in 1..n |-> [x \in Seq(V) |-> Step(x, last[p])]]
           Is(f) == f = [p \in 0..n |-> IF p = 0 THEN newLast ELSE Step(f[p - 1], last[p])]
           R == CHOOSE f : Is(f)
<1>1. n \in Nat /\ n # 0 /\ \A p \in 1..n : last[p] \in V
  BY EmptySeq, LenProperties
<1>2. Gathered(newLast, last) = R[n]
  BY DEF Gathered
<1> HIDE DEF n
<1>3. ASSUME NEW x \in Seq(V), NEW e \in V
      PROVE  Step(x, e) \in Seq(V) /\ Step(x, e) # <<>> /\ ToSet(Step(x, e)) = ToSet(x) \cup {e}
  <2>1. CASE Contains(x, e)
    <3>1. PICK i \in 1..Len(x) : x[i] = e
      BY <2>1 DEF Contains
    <3>2. e \in ToSet(x)
      BY <3>1, ToSetOf
    <3>3. x # <<>>
      BY <2>1 DEF Contains
    <3> QED BY <2>1, <3>2, <3>3
  <2>2. CASE ~Contains(x, e)
    <3>1. ToSet(Append(x, e)) = ToSet(x) \cup {e}
      BY ToSetAppend
    <3> QED BY <2>2, <3>1, AppendProperties
  <2> QED BY <2>1, <2>2
<1> HIDE DEF Step
<1>4. F \in Steps(n, Seq(V))
  BY <1>1, <1>3 DEF Steps
<1>5. PICK f : Runs(f, n, Seq(V), newLast, F)
  <2> HIDE DEF F
  <2> QED BY <1>1, <1>4, Recursion
<1>6. Is(f)
  <2>1. ASSUME NEW p \in 0..n
        PROVE  f[p] = IF p = 0 THEN newLast ELSE Step(f[p - 1], last[p])
    <3>1. CASE p = 0
      BY <1>5, <3>1 DEF Runs
    <3>2. CASE p \in 1..n
      <4>1. f[p - 1] \in Seq(V) /\ p # 0
        <5> HIDE DEF F
        <5>1. p - 1 \in 0..n /\ p # 0
          BY <1>1, <3>2
        <5> QED BY <1>5, <5>1 DEF Runs
      <4>2. F[p][f[p - 1]] = Step(f[p - 1], last[p])
        BY <3>2, <4>1
      <4> HIDE DEF F
      <4> QED BY <1>5, <3>2, <4>1, <4>2 DEF Runs
    <3> QED BY <1>1, <3>1, <3>2
  <2> HIDE DEF F
  <2> QED BY <1>5, <2>1 DEF Runs
<1>7. Is(R)
  <2> HIDE DEF Is
  <2> QED BY <1>6
<1> HIDE DEF R
<1> DEFINE D == {p \in 0..n : /\ R[p] \in Seq(V) /\ (p # 0 => R[p] # <<>>)
                              /\ ToSet(R[p]) = ToSet(newLast) \cup {last[i] : i \in 1..p}}
<1>8. 0 \in D
  <2>1. R[0] = newLast /\ 0 \in 0..n /\ {last[i] : i \in 1..0} = {}
    BY <1>1, <1>7
  <2> QED BY <2>1
<1>9. ASSUME NEW p \in 1..n, p - 1 \in D PROVE p \in D
  <2>1. R[p] = Step(R[p - 1], last[p]) /\ p \in 0..n
    BY <1>1, <1>7
  <2>2. {last[i] : i \in 1..p} = {last[i] : i \in 1..(p - 1)} \cup {last[p]}
    <3>1. \A i \in 1..p : i \in 1..(p - 1) \/ i = p
      BY <1>1
    <3>2. \A i \in 1..(p - 1) : i \in 1..p
      BY <1>1
    <3> QED BY <3>1, <3>2
  <2>3. R[p - 1] \in Seq(V) /\ ToSet(R[p - 1]) = ToSet(newLast) \cup {last[i] : i \in 1..(p - 1)}
    BY <1>9
  <2>4. R[p] \in Seq(V) /\ R[p] # <<>> /\ ToSet(R[p]) = ToSet(R[p - 1]) \cup {last[p]}
    BY <1>1, <1>3, <2>1, <2>3
  <2> QED BY <2>1, <2>2, <2>3, <2>4
<1>10. n \in D
  <2> HIDE DEF D
  <2>1. \A p \in 0..n : p \in D
    BY <1>1, <1>8, <1>9, UpTo
  <2> QED BY <1>1, <2>1
<1>11. ToSet(last) = {last[i] : i \in 1..n}
  BY ToSetOf DEF n
<1> QED BY <1>1, <1>2, <1>10, <1>11

LEMMA NamePut ==
    ASSUME NEW N, NEW H, NoHandler \in H, NEW S, NEW T, S \subseteq T, NEW c \in N, c \in T,
           NEW After, \A m \in S : <<m, c>> \in After,
           NEW s \in Splits(N, H, S), NEW r, r = PutName(s, c)
    PROVE  /\ r \in Splits(N, H, T) /\ Extends(s.graph, r.graph)
           /\ Ordered(s.graph, After) => Ordered(r.graph, After)
<1>1. /\ s.graph \in Graphs(N, H) /\ s.last \in Seq(Reached(s.graph, S)) /\ s.last # <<>>
      /\ s.calls \in Seq(Calls(Reached(s.graph, S))) /\ s.failed \in BOOLEAN
      /\ s = [graph |-> s.graph, last |-> s.last, calls |-> s.calls, failed |-> s.failed]
      /\ s.calls \in Seq([last : Seq(Nat), newLast : Seq(Nat)]) /\ s.last \in Seq(Nat)
  BY DEF Splits
<1>2. CASE r = s
  <2>1. Extends(s.graph, s.graph)
    BY <1>1, ExtendsReflexive
  <2>2. Reached(s.graph, S) \subseteq Reached(s.graph, T)
    BY <1>1, <2>1, ReachedMonotonic
  <2>3. s \in Splits(N, H, T)
    BY <1>1, <2>2, CallsMonotonic DEF Splits
  <2> QED BY <1>2, <2>1, <2>3
<1>3. CASE r # s
  <2> DEFINE q == appendNewNodeToLastNodes(s.graph, s.last, c)
  <2>1. r = [s EXCEPT !.graph = q.graph, !.last = <<q.node>>]
    BY <1>3 DEF PutName
  <2>2. Reached(s.graph, S) \subseteq Nodes(s.graph)
    BY DEF Reached
  <2>3. s.last \in Seq(Nodes(s.graph))
    BY <1>1, <2>2, SeqMonotonic
  <2>3a. PICK g \in Graphs(N, H) : g = s.graph
    BY <1>1
  <2>3b. PICK last \in Seq(Nodes(g)) : last = s.last /\ last # <<>>
    BY <1>1, <2>3, <2>3a
  <2>3c. q = appendNewNodeToLastNodes(g, last, c)
    BY <2>3a, <2>3b
  <2> HIDE DEF q
  <2>3d. /\ q \in Linked(N, H, c) /\ q.node # 0 /\ Extends(g, q.graph)
         /\ Ordered(g, After) /\ (\A p \in 1..Len(last) : May(g, last[p], c, After))
              => Ordered(q.graph, After) /\ q.node # 1
    BY <2>3b, <2>3c, Appended
  <2>4. /\ q \in Linked(N, H, c) /\ q.node # 0 /\ Extends(s.graph, q.graph)
        /\ Ordered(s.graph, After) /\ (\A p \in 1..Len(s.last) : May(s.graph, s.last[p], c, After))
             => Ordered(q.graph, After) /\ q.node # 1
    BY <2>3a, <2>3b, <2>3d
  <2>5. \A p \in 1..Len(s.last) : May(s.graph, s.last[p], c, After)
    <3>1. \A p \in 1..Len(s.last) : s.last[p] \in Reached(s.graph, S)
      BY <1>1, ElementOfSeq
    <3> QED BY <3>1 DEF Reached, May
  <2>6. /\ q.graph \in Graphs(N, H) /\ q.node \in Nodes(q.graph) /\ q.graph.name[q.node] = c
        /\ q.node \in Nat
    BY <2>4 DEF Linked
  <2>7. Reached(s.graph, S) \subseteq Reached(q.graph, T)
    BY <1>1, <2>4, <2>6, ReachedMonotonic
  <2>8. <<q.node>> \in Seq(Reached(q.graph, T)) /\ <<q.node>> # <<>> /\ <<q.node>> \in Seq(Nat)
    BY <2>6 DEF Reached
  <2>9. PICK e : e = <<q.node>>
    OBVIOUS
  <2>10. r = [graph |-> q.graph, last |-> e, calls |-> s.calls, failed |-> s.failed]
    BY <1>1, <2>1, <2>9
  <2>11. s.calls \in Seq(Calls(Reached(q.graph, T)))
    BY <1>1, <2>7, CallsMonotonic
  <2>12. r.graph = q.graph /\ r.last = e /\ r.calls = s.calls
    BY <2>10
  <2>13. r \in [graph : Graphs(N, H), last : Seq(Nat), calls : Seq([last : Seq(Nat), newLast : Seq(Nat)]),
                failed : BOOLEAN]
    BY <1>1, <2>6, <2>8, <2>9, <2>10
  <2>14. r \in Splits(N, H, T)
    BY <2>8, <2>9, <2>11, <2>12, <2>13 DEF Splits
  <2> QED BY <2>4, <2>5, <2>12, <2>14
<1> QED BY <1>2, <1>3

IsBracketRead(s, c, r) ==
    \/ r = OpenBracket(s, c)
    \/ r = EndAlternative(s, c) /\ s.calls # <<>>
    \/ r = [s EXCEPT !.failed = TRUE]
    \/ r = s

\* Brackets leave the graph as it is.
LEMMA BracketRead ==
    ASSUME NEW N, NEW H, NEW S, NEW c, NEW s \in Splits(N, H, S), NEW r, IsBracketRead(s, c, r)
    PROVE  r \in Splits(N, H, S) /\ r.graph = s.graph
<1> DEFINE V == Reached(s.graph, S)
<1>1. /\ s.graph \in Graphs(N, H) /\ s.last \in Seq(V) /\ s.last # <<>>
      /\ s.calls \in Seq(Calls(V)) /\ s.failed \in BOOLEAN
      /\ s = [graph |-> s.graph, last |-> s.last, calls |-> s.calls, failed |-> s.failed]
  BY DEF Splits
<1>2. V \subseteq Nat
  <2>1. Len(s.graph.name) \in Nat
    BY <1>1, GraphTypes
  <2> QED BY <2>1 DEF Reached, Nodes
<1> HIDE DEF V
<1>3. ASSUME NEW last \in Seq(V), last # <<>>, NEW calls \in Seq(Calls(V)), NEW failed \in BOOLEAN,
             r = [graph |-> s.graph, last |-> last, calls |-> calls, failed |-> failed]
      PROVE  r \in Splits(N, H, S) /\ r.graph = s.graph
  <2>1. Seq(V) \subseteq Seq(Nat)
    BY <1>2, CallsMonotonic
  <2>2. Calls(V) \subseteq [last : Seq(Nat), newLast : Seq(Nat)]
    BY <2>1 DEF Calls
  <2>3. calls \in Seq([last : Seq(Nat), newLast : Seq(Nat)])
    BY <2>2, SeqMonotonic
  <2>4. r.graph = s.graph /\ r.last = last /\ r.calls = calls
    BY <1>3
  <2>5. r \in [graph : Graphs(N, H), last : Seq(Nat), calls : Seq([last : Seq(Nat), newLast : Seq(Nat)]),
               failed : BOOLEAN]
    BY <1>1, <1>3, <2>1, <2>3
  <2> QED BY <1>3, <2>4, <2>5 DEF Splits, V
<1>4. CASE r = OpenBracket(s, c)
  <2>1. PICK e : e = [last |-> s.last, newLast |-> IF c = "[" THEN s.last ELSE <<>>]
    OBVIOUS
  <2>2. e \in Calls(V)
    <3>1. <<>> \in Seq(V)
      BY EmptySeq
    <3>2. (IF c = "[" THEN s.last ELSE <<>>) \in Seq(V)
      BY <1>1, <3>1
    <3> QED BY <1>1, <2>1, <3>2 DEF Calls
  <2>3. PICK calls \in Seq(Calls(V)) : calls = Append(s.calls, e)
    BY <1>1, <2>2, AppendProperties
  <2>4. r = [graph |-> s.graph, last |-> s.last, calls |-> calls, failed |-> s.failed]
    BY <1>1, <1>4, <2>1, <2>3 DEF OpenBracket
  <2> QED BY <1>1, <1>3, <2>3, <2>4
<1>5. CASE r = EndAlternative(s, c) /\ s.calls # <<>>
  <2> DEFINE d == Len(s.calls)
             newLast == Gathered(s.calls[d].newLast, s.last)
  <2>1. d \in Nat /\ d \in 1..Len(s.calls) /\ s.calls[d] \in Calls(V)
    <3>1. d \in Nat \ {0}
      BY <1>1, <1>5, EmptySeq
    <3>2. d \in 1..Len(s.calls)
      BY <3>1
    <3> QED BY <1>1, <3>1, <3>2, ElementOfSeq
  <2> HIDE DEF d
  <2>2. /\ s.calls[d].last \in Seq(V) /\ s.calls[d].last # <<>> /\ s.calls[d].newLast \in Seq(V)
        /\ s.calls[d] = [last |-> s.calls[d].last, newLast |-> s.calls[d].newLast]
    BY <2>1 DEF Calls
  <2>3. newLast \in Seq(V) /\ newLast # <<>>
    <3>1. newLast \in Seq(V) \ {<<>>}
      BY <1>1, <2>2, GatheredIn
    <3> QED BY <3>1
  <2>4. r = IF c = "|" THEN [s EXCEPT !.last = s.calls[d].last, !.calls[d].newLast = newLast]
                       ELSE [s EXCEPT !.last = newLast, !.calls = SubSeq(@, 1, d - 1)]
    BY <1>5 DEF EndAlternative, d
  <2> HIDE DEF newLast
  <2>5. CASE c = "|"
    <3>1. PICK e \in Calls(V) : e = [last |-> s.calls[d].last, newLast |-> newLast]
      <4>1. [last |-> s.calls[d].last, newLast |-> newLast] \in Calls(V)
        BY <2>2, <2>3 DEF Calls
      <4> QED BY <4>1
    <3>2. [s.calls[d] EXCEPT !.newLast = newLast] = e
      BY <2>2, <3>1
    <3>3. PICK calls \in Seq(Calls(V)) : calls = [s.calls EXCEPT ![d] = e]
      BY <1>1, <2>1, ExceptSeq
    <3>4. [s EXCEPT !.last = s.calls[d].last, !.calls[d].newLast = newLast]
            = [s EXCEPT !.last = s.calls[d].last, !.calls = calls]
      BY <3>2, <3>3
    <3>5. r = [graph |-> s.graph, last |-> s.calls[d].last, calls |-> calls, failed |-> s.failed]
      BY <1>1, <2>4, <2>5, <3>4
    <3> QED BY <1>1, <1>3, <2>2, <3>3, <3>5
  <2>6. CASE c # "|"
    <3>1. \A i \in 1..(d - 1) : i \in 1..Len(s.calls)
      BY <2>1 DEF d
    <3>2. \A i \in 1..(d - 1) : s.calls[i] \in Calls(V)
      BY <1>1, <3>1, ElementOfSeq
    <3>3. PICK calls \in Seq(Calls(V)) : calls = SubSeq(s.calls, 1, d - 1)
      <4>1. 1 \in Int /\ d - 1 \in Int
        BY <2>1
      <4> QED BY <3>2, <4>1, SubSeqProperties
    <3>4. r = [graph |-> s.graph, last |-> newLast, calls |-> calls, failed |-> s.failed]
      BY <1>1, <2>4, <2>6, <3>3
    <3> QED BY <1>1, <1>3, <2>3, <3>3, <3>4
  <2> QED BY <2>5, <2>6
<1>6. CASE r = [s EXCEPT !.failed = TRUE]
  <2>1. r = [graph |-> s.graph, last |-> s.last, calls |-> s.calls, failed |-> TRUE]
    BY <1>1, <1>6
  <2> QED BY <1>1, <1>3, <2>1
<1>7. CASE r = s
  BY <1>7
<1> QED BY <1>4, <1>5, <1>6, <1>7 DEF IsBracketRead

\* c is a bracket, or a name of T that comes after those of S.
Follows(c, S, T, After) == c \notin Brackets => c \in T /\ \A m \in S : <<m, c>> \in After

LEMMA TokenRead ==
    ASSUME NEW N, NEW H, NoHandler \in H, NEW S, NEW T, S \subseteq T, NEW c \in N,
           NEW After, Follows(c, S, T, After),
           NEW s \in Splits(N, H, S), NEW r, r = ReadToken(s, c)
    PROVE  /\ r \in Splits(N, H, T) /\ Extends(s.graph, r.graph)
           /\ Ordered(s.graph, After) => Ordered(r.graph, After)
<1>1. s.graph \in Graphs(N, H)
  BY DEF Splits
<1>2. ASSUME r \in Splits(N, H, S), r.graph = s.graph
      PROVE  r \in Splits(N, H, T) /\ Extends(s.graph, r.graph)
  <2>1. Extends(s.graph, s.graph)
    BY <1>1, ExtendsReflexive
  <2>2. Reached(s.graph, S) \subseteq Reached(s.graph, T)
    BY <1>1, <2>1, ReachedMonotonic
  <2>3. r.last \in Seq(Reached(s.graph, T)) /\ r.calls \in Seq(Calls(Reached(s.graph, T)))
    <3>1. r.last \in Seq(Reached(s.graph, S)) /\ r.calls \in Seq(Calls(Reached(s.graph, S)))
      BY <1>2 DEF Splits
    <3> QED BY <2>2, <3>1, CallsMonotonic
  <2>4. r \in Splits(N, H, T)
    BY <1>2, <2>3 DEF Splits
  <2> QED BY <1>2, <2>1, <2>4
<1>3. CASE s.failed \/ c \in Brackets
  <2>1. IsBracketRead(s, c, r)
    BY <1>3 DEF ReadToken, Brackets, IsBracketRead
  <2>2. r \in Splits(N, H, S) /\ r.graph = s.graph
    BY <2>1, BracketRead
  <2> QED BY <1>2, <2>2
<1>4. CASE ~s.failed /\ c \notin Brackets
  <2>1. r = PutName(s, c)
    BY <1>4 DEF ReadToken, Brackets
  <2>2. c \in T /\ \A m \in S : <<m, c>> \in After
    BY <1>4 DEF Follows
  <2> QED BY <2>1, <2>2, NamePut
<1> QED BY <1>3, <1>4

\* The recursion over the tokens.
LEMMA SplitSoFar ==
    ASSUME NEW g, NEW syntax, Len(syntax) \in Nat
    PROVE  \E R : /\ R[0] = [graph |-> g, last |-> <<1>>, calls |-> <<>>, failed |-> FALSE]
                 /\ \A p \in 1..Len(syntax) : R[p] = ReadToken(R[p - 1], syntax[p])
                 /\ splitOutSyntax(g, syntax) = R[Len(syntax)]
<1> DEFINE n == Len(syntax)
           a == [graph |-> g, last |-> <<1>>, calls |-> <<>>, failed |-> FALSE]
           Is(f, m) == f = [p \in 0..m |-> IF p = 0 THEN a ELSE ReadToken(f[p - 1], syntax[p])]
           D == {m \in 0..n : \E f : Is(f, m)}
           F == CHOOSE f : Is(f, n)
<1>4. splitOutSyntax(g, syntax) = F[n]
  BY DEF splitOutSyntax
<1> HIDE DEF a
<1>1. 0 \in D
  <2> DEFINE f == [p \in 0..0 |-> a]
  <2>1. Is(f, 0)
    OBVIOUS
  <2>2. \E x : Is(x, 0)
    <3> HIDE DEF Is
    <3> QED BY <2>1
  <2> HIDE DEF Is
  <2> QED BY <2>2
<1>2. ASSUME NEW m \in 1..n, m - 1 \in D PROVE m \in D
  <2>1. PICK f : Is(f, m - 1)
    BY <1>2
  <2> DEFINE e == [p \in 0..m |-> IF p = m THEN ReadToken(f[m - 1], syntax[m]) ELSE f[p]]
  <2>2. Is(e, m)
    <3> SUFFICES ASSUME NEW p \in 0..m
                 PROVE  e[p] = IF p = 0 THEN a ELSE ReadToken(e[p - 1], syntax[p])
      OBVIOUS
    <3>1. CASE p = m
      <4>1. m - 1 \in 0..m /\ m - 1 # m /\ m # 0
        OBVIOUS
      <4> QED BY <3>1, <4>1
    <3>2. CASE p \in 1..(m - 1)
      <4>1. p \in 0..(m - 1) /\ p - 1 \in 0..m /\ p - 1 # m /\ p # m /\ p # 0
        BY <3>2
      <4> QED BY <2>1, <4>1
    <3>3. CASE p = 0
      <4>1. p \in 0..(m - 1) /\ p # m
        BY <3>3
      <4> QED BY <2>1, <3>3, <4>1
    <3> QED BY <3>1, <3>2, <3>3
  <2> HIDE DEF e, Is
  <2> QED BY <2>2
<1>3. Is(F, n)
  <2>1. n \in D
    <3> HIDE DEF D
    <3>1. \A k \in 0..n : k \in D
      BY <1>1, <1>2, UpTo
    <3> QED BY <3>1
  <2> HIDE DEF Is
  <2> QED BY <2>1
<1> HIDE DEF F
<1>5. F[0] = a /\ \A p \in 1..n : F[p] = ReadToken(F[p - 1], syntax[p])
  <2>1. 0 \in 0..n /\ \A p \in 1..n : p \in 0..n /\ p # 0
    OBVIOUS
  <2> QED BY <1>3, <2>1
<1> QED BY <1>4, <1>5 DEF a

\* The names of the syntax up to a position, the command's name left out, and
\* the pairs of them in the order of the syntax.
Seen(syntax, p) == {syntax[i] : i \in 2..p} \ Brackets

Pairs(syntax) ==
    {<<syntax[ij[1]], syntax[ij[2]]>> : ij \in {x \in (2..Len(syntax)) \X (2..Len(syntax)) :
        x[1] < x[2] /\ {syntax[x[1]], syntax[x[2]]} \cap Brackets = {}}}

LEMMA SyntaxSplit ==
    ASSUME NEW N, NEW H, NoHandler \in H, NEW g \in Graphs(N, H),
           NEW syntax \in Seq(N), syntax # <<>>, syntax[1] = g.name[1], syntax[1] \notin Brackets,
           NEW After, Pairs(syntax) \subseteq After, NEW s, s = splitOutSyntax(g, syntax)
    PROVE  /\ s.graph \in Graphs(N, H) /\ Extends(g, s.graph)
           /\ Ordered(g, After) => Ordered(s.graph, After)
<1> DEFINE n == Len(syntax)
<1>1. n \in Nat /\ n # 0 /\ \A p \in 1..n : syntax[p] \in N
  BY EmptySeq, LenProperties
<1>2. PICK R : /\ R[0] = [graph |-> g, last |-> <<1>>, calls |-> <<>>, failed |-> FALSE]
               /\ \A p \in 1..n : R[p] = ReadToken(R[p - 1], syntax[p])
               /\ s = R[n]
  BY <1>1, SplitSoFar
<1> HIDE DEF n
<1>3. R[0] \in Splits(N, H, {}) /\ R[0].graph = g /\ R[0].failed = FALSE
  <2>1. 1 \in Reached(g, {}) /\ 1 \in Nat
    BY GraphTypes DEF Reached
  <2>1a. <<1>> \in Seq(Reached(g, {})) /\ <<1>> # <<>> /\ <<1>> \in Seq(Nat)
    BY <2>1
  <2>2. PICK l : l = <<1>> /\ l \in Seq(Reached(g, {})) /\ l # <<>> /\ l \in Seq(Nat)
    BY <2>1a
  <2>3. PICK c : c = <<>> /\ c \in Seq(Calls(Reached(g, {}))) /\ c \in Seq([last : Seq(Nat), newLast : Seq(Nat)])
    BY EmptySeq
  <2>4. R[0] = [graph |-> g, last |-> l, calls |-> c, failed |-> FALSE]
    BY <1>2, <2>2, <2>3
  <2>5. /\ R[0].graph = g /\ R[0].last = l /\ R[0].calls = c /\ R[0].failed = FALSE
        /\ R[0] \in [graph : Graphs(N, H), last : Seq(Nat), calls : Seq([last : Seq(Nat), newLast : Seq(Nat)]),
                     failed : BOOLEAN]
    BY <2>2, <2>3, <2>4
  <2> QED BY <2>2, <2>3, <2>5 DEF Splits
<1>4. R[1] = R[0]
  <2>1. R[1] = ReadToken(R[0], syntax[1])
    <3>1. 1 \in 1..n /\ 1 - 1 = 0
      BY <1>1
    <3> QED BY <1>2, <3>1
  <2>2. Len(R[0].last) = 1 /\ R[0].last[1] = 1
    BY <1>2
  <2>3. ReadToken(R[0], syntax[1]) = PutName(R[0], syntax[1])
    BY <1>3 DEF ReadToken, Brackets
  <2> QED BY <1>3, <2>1, <2>2, <2>3 DEF PutName
<1> DEFINE D == {p \in 0..n : /\ R[p] \in Splits(N, H, Seen(syntax, p)) /\ Extends(g, R[p].graph)
                              /\ Ordered(g, After) => Ordered(R[p].graph, After)}
<1>5. \A p \in 0..1 : Seen(syntax, p) = {}
  BY DEF Seen
<1>6. 0 \in D
  <2>1. Seen(syntax, 0) = {} /\ 0 \in 0..n
    BY <1>1, <1>5
  <2>2. Extends(g, R[0].graph)
    BY <1>3, ExtendsReflexive
  <2>3. R[0] \in Splits(N, H, Seen(syntax, 0))
    BY <1>3, <2>1
  <2> QED BY <1>3, <2>1, <2>2, <2>3
<1>7. ASSUME NEW p \in 1..n, p - 1 \in D PROVE p \in D
  <2>0. p \in 0..n
    BY <1>1
  <2>1. CASE p = 1
    <3>1. Seen(syntax, 1) = {} /\ R[1] = R[0]
      BY <1>4, <1>5
    <3>2. Extends(g, R[1].graph)
      BY <1>3, <3>1, ExtendsReflexive
    <3>3. R[1] \in Splits(N, H, Seen(syntax, 1)) /\ R[1].graph = g
      BY <1>3, <3>1
    <3> QED BY <2>0, <2>1, <3>2, <3>3
  <2>2. CASE p # 1
    <3> DEFINE c == syntax[p]
               S == Seen(syntax, p - 1)
               T == Seen(syntax, p)
               q == R[p - 1]
    <3>1. p \in 2..n /\ p - 1 \in 1..n /\ \A i \in 2..(p - 1) : i \in 2..p /\ i \in 2..n /\ i < p
      BY <1>1, <2>2
    <3>2. S \subseteq T
      BY <3>1 DEF Seen
    <3>3. c \notin Brackets => c \in T
      BY <3>1 DEF Seen
    <3>4. ASSUME c \notin Brackets, NEW m \in S PROVE <<m, c>> \in After
      <4>1. PICK i \in 2..(p - 1) : m = syntax[i] /\ m \notin Brackets
        BY DEF Seen
      <4>2. {m, c} \cap Brackets = {}
        BY <3>4, <4>1
      <4>3. PICK x \in (2..n) \X (2..n) : x = <<i, p>>
        BY <3>1
      <4>4. x[1] = i /\ x[2] = p /\ x[1] < x[2]
        BY <3>1, <4>3
      <4>5. <<syntax[x[1]], syntax[x[2]]>> \in Pairs(syntax)
        BY <4>1, <4>2, <4>4 DEF Pairs, n
      <4> QED BY <4>1, <4>4, <4>5
    <3>5. q \in Splits(N, H, S) /\ R[p] = ReadToken(q, c) /\ c \in N
      BY <1>1, <1>2, <1>7
    <3>6. Extends(g, q.graph) /\ (Ordered(g, After) => Ordered(q.graph, After))
      BY <1>7
    <3>6a. Follows(c, S, T, After)
      BY <3>3, <3>4 DEF Follows
    <3> HIDE DEF c, S, T, q
    <3>7. /\ R[p] \in Splits(N, H, T) /\ Extends(q.graph, R[p].graph)
          /\ Ordered(q.graph, After) => Ordered(R[p].graph, After)
      BY <3>2, <3>5, <3>6a, TokenRead
    <3>8. q.graph \in Graphs(N, H) /\ R[p].graph \in Graphs(N, H)
      BY <3>5, <3>7 DEF Splits
    <3>9. Extends(g, R[p].graph)
      BY <3>6, <3>7, <3>8, ExtendsTransitive
    <3> QED BY <2>0, <3>6, <3>7, <3>9 DEF T
  <2> QED BY <2>1, <2>2
<1>8. n \in D
  <2> HIDE DEF D
  <2>1. \A p \in 0..n : p \in D
    BY <1>1, <1>6, <1>7, UpTo
  <2> QED BY <1>1, <2>1
<1>9. s \in Splits(N, H, Seen(syntax, n)) /\ Extends(g, s.graph)
      /\ (Ordered(g, After) => Ordered(s.graph, After))
  BY <1>2, <1>8
<1> QED BY <1>9 DEF Splits

\* A handler is attached to nodes that are there.
LEMMA Attached ==
    ASSUME NEW N, NEW H, NEW g \in Graphs(N, H), NEW last, NEW h \in H, h # NoHandler,
           NEW After, NEW r, r = Attach(g, last, h)
    PROVE  /\ r \in Graphs(N, H) /\ Extends(g, r)
           /\ Ordered(g, After) => Ordered(r, After)
<1>1. /\ g = [name |-> g.name, sub |-> g.sub, handler |-> g.handler]
      /\ g.sub \in Seq(Seq(Nat)) /\ Len(g.sub) = Len(g.name) /\ g.name \in Seq(N)
      /\ g.handler \in [1..Len(g.name) -> H] /\ DOMAIN g.handler = 1..Len(g.name)
      /\ Nodes(g) = 1..Len(g.name) /\ Len(g.name) \in Nat
  BY GraphTypes
<1> DEFINE f == [k \in 1..Len(g.name) |-> IF Contains(last, k) THEN h ELSE g.handler[k]]
<1>2. f \in Seq(H) /\ Len(f) = Len(g.name)
  <2>1. \A k \in 1..Len(g.name) : f[k] \in H
    BY <1>1
  <2>3. f \in Seq(H)
    <3>1. PICK n \in Nat : n = Len(g.name)
      BY <1>1
    <3>2. \A k \in 1..n : (IF Contains(last, k) THEN h ELSE g.handler[k]) \in H
      BY <1>1, <3>1
    <3>3. [k \in 1..n |-> IF Contains(last, k) THEN h ELSE g.handler[k]] \in Seq(H)
      BY <3>2
    <3> QED BY <3>1, <3>3
  <2> HIDE DEF f
  <2>2. f \in [1..Len(g.name) -> H]
    BY <2>1 DEF f
  <2>4. DOMAIN f = 1..Len(f) /\ DOMAIN f = 1..Len(g.name) /\ Len(f) \in Nat
    BY <2>2, <2>3, LenProperties
  <2> QED BY <1>1, <2>3, <2>4
<1>3. r = [name |-> g.name, sub |-> g.sub, handler |-> f]
  <2>1. r = [g EXCEPT !.handler = f]
    BY <1>1 DEF Attach
  <2> HIDE DEF f
  <2> QED BY <1>1, <2>1
<1>4. \A k \in Nodes(g) : HasHandler(g, k) => f[k] # NoHandler
  BY <1>1 DEF HasHandler
<1> HIDE DEF f
<1>5. r.name = g.name /\ r.sub = g.sub /\ r.handler = f /\ Nodes(r) = Nodes(g)
  <2>1. r.name = g.name /\ r.sub = g.sub /\ r.handler = f
    BY <1>3
  <2> QED BY <2>1 DEF Nodes
<1>6. WellFormed(g)
  BY DEF Graphs
<1>7. WellFormed(r)
  BY <1>2, <1>5, <1>6 DEF WellFormed
<1>8. r \in Graphs(N, H)
  BY <1>1, <1>2, <1>3, <1>7 DEF Graphs
<1>9. Extends(g, r)
  BY <1>1, <1>4, <1>5 DEF Extends, HasHandler
<1>10. Ordered(g, After) => Ordered(r, After)
  BY <1>5 DEF Ordered
<1> QED BY <1>8, <1>9, <1>10

\* A graph keeps what it has when a syntax is added.
LEMMA SyntaxAdded ==
    ASSUME NEW N, NEW H, NoHandler \in H, NEW g \in Graphs(N, H),
           NEW syntax \in Seq(N), syntax # <<>>, syntax[1] = g.name[1], syntax[1] \notin Brackets,
           NEW After, Pairs(syntax) \subseteq After, NEW h \in H, h # NoHandler,
           NEW r, r = AddSyntax(g, syntax, h)
    PROVE  /\ r \in Graphs(N, H) /\ Extends(g, r)
           /\ Ordered(g, After) => Ordered(r, After)
<1> DEFINE s == splitOutSyntax(g, syntax)
<1>0. s = splitOutSyntax(g, syntax)
  OBVIOUS
<1>1. r \in {g, s.graph, Attach(s.graph, s.last, h)}
  BY DEF AddSyntax
<1> HIDE DEF s
<1>2. /\ s.graph \in Graphs(N, H) /\ Extends(g, s.graph)
      /\ Ordered(g, After) => Ordered(s.graph, After)
  BY <1>0, SyntaxSplit
<1>3. CASE r = g
  BY <1>3, ExtendsReflexive
<1>4. CASE r = s.graph
  BY <1>2, <1>4
<1>5. CASE r = Attach(s.graph, s.last, h)
  <2>1. /\ r \in Graphs(N, H) /\ Extends(s.graph, r)
        /\ Ordered(s.graph, After) => Ordered(r, After)
    BY <1>2, <1>5, Attached
  <2>2. Extends(g, r)
    BY <1>2, <2>1, ExtendsTransitive
  <2> QED BY <1>2, <2>1, <2>2
<1> QED BY <1>1, <1>3, <1>4, <1>5
-----------------------------------------------------------------------------
(***************************************************************************)
(* Following arguments.                                                    *)
(***************************************************************************)
LEMMA MatchingSubnodes ==
    ASSUME NEW N, NEW H, NEW g \in Graphs(N, H), NEW k \in Nodes(g), NEW arg
    PROVE  /\ getMatchingSubnodes(g, k, arg) \in SUBSET Nat
           /\ \A p \in getMatchingSubnodes(g, k, arg) : p \in 1..Len(g.sub[k]) /\ g.sub[k][p] \in Nodes(g)
<1>1. g.sub[k] \in Seq(Nat) /\ Len(g.sub[k]) \in Nat /\ DOMAIN g.sub[k] = 1..Len(g.sub[k])
  BY GraphTypes, LenProperties
<1>2. \A p \in 1..Len(g.sub[k]) : g.sub[k][p] \in Nodes(g)
  <2>1. ToSet(g.sub[k]) \subseteq Nodes(g)
    BY DEF Graphs, WellFormed
  <2>2. ToSet(g.sub[k]) = {g.sub[k][p] : p \in 1..Len(g.sub[k])}
    BY <1>1, ToSetOf
  <2> QED BY <2>1, <2>2
<1>3. Position(g, k, arg) # 0 => Position(g, k, arg) \in 1..Len(g.sub[k])
  BY PositionFound
<1>4. getMatchingSubnodes(g, k, arg) \subseteq 1..Len(g.sub[k])
  BY <1>1, <1>3 DEF getMatchingSubnodes
<1> QED BY <1>1, <1>2, <1>4

LEMMA Followed ==
    ASSUME NEW N, NEW H, NEW g \in Graphs(N, H), NEW k \in Nodes(g), NEW arg,
           NEW deeper \in [Nodes(g) -> Nodes(g)]
    PROVE  Follow(g, k, arg, deeper) \in Nodes(g)
<1> DEFINE subs == getMatchingSubnodes(g, k, arg)
           good == {p \in subs : HasHandler(g, deeper[g.sub[k][p]])}
<1>1. subs \in SUBSET Nat /\ \A p \in subs : g.sub[k][p] \in Nodes(g)
  BY MatchingSubnodes
<1>2. Follow(g, k, arg, deeper) =
        IF subs = {} THEN k
        ELSE IF Cardinality(subs) = 1 THEN deeper[g.sub[k][Min(subs)]]
        ELSE IF good = {} THEN g.sub[k][Min(subs)]
        ELSE deeper[g.sub[k][Min(good)]]
  BY DEF Follow
<1>3. good \subseteq subs
  OBVIOUS
<1> HIDE DEF subs, good
<1>4. subs # {} => Min(subs) \in subs
  BY <1>1, MinIsIn
<1>5. good # {} => Min(good) \in subs
  <2>1. good \in SUBSET Nat
    BY <1>1, <1>3
  <2>2. good # {} => Min(good) \in good
    BY <2>1, MinIsIn
  <2> QED BY <1>3, <2>2
<1> QED BY <1>1, <1>2, <1>4, <1>5

\* The recursion over the arguments from the last on.
Evaluates(R, g, args) ==
    /\ R[0] = [k \in Nodes(g) |-> k]
    /\ \A n \in 0..Len(args) : R[n] \in [Nodes(g) -> Nodes(g)]
    /\ \A n \in 1..Len(args) : \A k \in Nodes(g) :
         R[n][k] = Follow(g, k, args[Len(args) - n + 1], R[n - 1])
    /\ evaluateCommandArguments(g, args) = R[Len(args)][1]

LEMMA Evaluated ==
    ASSUME NEW N, NEW H, NEW g \in Graphs(N, H), NEW args, Len(args) \in Nat
    PROVE  \E R : Evaluates(R, g, args)
<1> DEFINE m == Len(args)
           X == [Nodes(g) -> Nodes(g)]
           a == [k \in Nodes(g) |-> k]
           Step(x, n) == [k \in Nodes(g) |-> Follow(g, k, args[m - n + 1], x)]
           F == [n \in 1..m |-> [x \in X |-> Step(x, n)]]
           Is(f) == f = [n \in 0..m |-> IF n = 0 THEN a ELSE Step(f[n - 1], n)]
           R == CHOOSE f : Is(f)
<1>0. DOMAIN g.name = Nodes(g)
  BY GraphTypes
<1>1. evaluateCommandArguments(g, args) = R[m][1]
  BY <1>0 DEF evaluateCommandArguments
<1>2. m \in Nat
  OBVIOUS
<1> HIDE DEF m
<1>3. a \in X
  OBVIOUS
<1>4. ASSUME NEW n \in 1..m, NEW x \in X PROVE Step(x, n) \in X
  BY <1>4, Followed
<1> HIDE DEF a
<1>5. F \in Steps(m, X)
  <2> HIDE DEF Step, X
  <2> QED BY <1>4 DEF Steps
<1>6. PICK f : Runs(f, m, X, a, F)
  <2> HIDE DEF F, X
  <2> QED BY <1>2, <1>3, <1>5, Recursion
<1>7. Is(f)
  <2> HIDE DEF X
  <2>1. ASSUME NEW n \in 0..m
        PROVE  f[n] = IF n = 0 THEN a ELSE Step(f[n - 1], n)
    <3>1. CASE n = 0
      BY <1>6, <3>1 DEF Runs
    <3>2. CASE n \in 1..m
      <4> HIDE DEF Step
      <4>1. f[n - 1] \in X /\ n # 0
        <5> HIDE DEF F
        <5>1. n - 1 \in 0..m /\ n # 0
          BY <1>2, <3>2
        <5> QED BY <1>6, <5>1 DEF Runs
      <4>2. F[n][f[n - 1]] = Step(f[n - 1], n)
        BY <3>2, <4>1
      <4> HIDE DEF F
      <4> QED BY <1>6, <3>2, <4>1, <4>2 DEF Runs
    <3> QED BY <1>2, <3>1, <3>2
  <2> HIDE DEF F, Step
  <2> QED BY <1>6, <2>1 DEF Runs
<1>8. Is(R)
  <2> HIDE DEF Is
  <2> QED BY <1>7
<1> HIDE DEF R
<1>9. R[0] = a /\ \A n \in 1..m : R[n] = Step(R[n - 1], n)
  <2> HIDE DEF Step
  <2>1. 0 \in 0..m /\ \A n \in 1..m : n \in 0..m /\ n # 0
    BY <1>2
  <2> QED BY <1>8, <2>1
<1> DEFINE D == {n \in 0..m : R[n] \in X}
<1>10. \A n \in 0..m : R[n] \in X
  <2> HIDE DEF Step, X
  <2>1. 0 \in D
    BY <1>2, <1>3, <1>9
  <2>2. ASSUME NEW n \in 1..m, n - 1 \in D PROVE n \in D
    <3>1. n \in 0..m /\ R[n] = Step(R[n - 1], n)
      BY <1>2, <1>9
    <3> QED BY <1>4, <2>2, <3>1
  <2>3. \A n \in 0..m : n \in D
    <3> HIDE DEF D
    <3> QED BY <1>2, <2>1, <2>2, UpTo
  <2> QED BY <2>3
<1>11. \A n \in 1..m : \A k \in Nodes(g) : R[n][k] = Follow(g, k, args[m - n + 1], R[n - 1])
  BY <1>9
<1> HIDE DEF F, Is
<1> QED BY <1>1, <1>9, <1>10, <1>11 DEF m, a, Evaluates

\* The recursion of Exact over the arguments.
Leads(W, g, args) ==
    /\ W[0] = {1}
    /\ \A p \in 0..Len(args) : W[p] \in SUBSET Nodes(g)
    /\ \A p \in 1..Len(args) : W[p] = {findSubnode(g, k, args[p]) : k \in W[p - 1]} \ {0}
    /\ Exact(g, args) <=> \E k \in W[Len(args)] : HasHandler(g, k)

LEMMA WayFound ==
    ASSUME NEW N, NEW H, NEW g \in Graphs(N, H), NEW args, Len(args) \in Nat
    PROVE  \E W : Leads(W, g, args)
<1> DEFINE m == Len(args)
           X == SUBSET Nodes(g)
           a == {1}
           Step(x, p) == {findSubnode(g, k, args[p]) : k \in x} \ {0}
           F == [p \in 1..m |-> [x \in X |-> Step(x, p)]]
           Is(f) == f = [p \in 0..m |-> IF p = 0 THEN a ELSE Step(f[p - 1], p)]
           R == CHOOSE f : Is(f)
<1>1. Exact(g, args) <=> \E k \in R[m] : HasHandler(g, k)
  BY DEF Exact
<1>2. m \in Nat
  OBVIOUS
<1> HIDE DEF m
<1>3. a \in X
  BY GraphTypes
<1>4. ASSUME NEW p \in 1..m, NEW x \in X PROVE Step(x, p) \in X
  <2>1. \A k \in Nodes(g) : findSubnode(g, k, args[p]) = 0 \/ findSubnode(g, k, args[p]) \in Nodes(g)
    BY SubnodeFound
  <2> QED BY <2>1
<1> HIDE DEF a
<1>5. F \in Steps(m, X)
  <2> HIDE DEF Step, X
  <2> QED BY <1>4 DEF Steps
<1>6. PICK f : Runs(f, m, X, a, F)
  <2> HIDE DEF F, X
  <2> QED BY <1>2, <1>3, <1>5, Recursion
<1>7. Is(f)
  <2> HIDE DEF X
  <2>1. ASSUME NEW p \in 0..m
        PROVE  f[p] = IF p = 0 THEN a ELSE Step(f[p - 1], p)
    <3>1. CASE p = 0
      BY <1>6, <3>1 DEF Runs
    <3>2. CASE p \in 1..m
      <4> HIDE DEF Step
      <4>1. f[p - 1] \in X /\ p # 0
        <5> HIDE DEF F
        <5>1. p - 1 \in 0..m /\ p # 0
          BY <1>2, <3>2
        <5> QED BY <1>6, <5>1 DEF Runs
      <4>2. F[p][f[p - 1]] = Step(f[p - 1], p)
        BY <3>2, <4>1
      <4> HIDE DEF F
      <4> QED BY <1>6, <3>2, <4>1, <4>2 DEF Runs
    <3> QED BY <1>2, <3>1, <3>2
  <2> HIDE DEF F, Step
  <2> QED BY <1>6, <2>1 DEF Runs
<1>8. Is(R)
  <2> HIDE DEF Is
  <2> QED BY <1>7
<1> HIDE DEF R
<1>9. R[0] = a /\ \A p \in 1..m : R[p] = Step(R[p - 1], p)
  <2> HIDE DEF Step
  <2>1. 0 \in 0..m /\ \A p \in 1..m : p \in 0..m /\ p # 0
    BY <1>2
  <2> QED BY <1>8, <2>1
<1> DEFINE D == {p \in 0..m : R[p] \in X}
<1>10. \A p \in 0..m : R[p] \in X
  <2> HIDE DEF Step, X
  <2>1. 0 \in D
    BY <1>2, <1>3, <1>9
  <2>2. ASSUME NEW p \in 1..m, p - 1 \in D PROVE p \in D
    <3>1. p \in 0..m /\ R[p] = Step(R[p - 1], p)
      BY <1>2, <1>9
    <3> QED BY <1>4, <2>2, <3>1
  <2>3. \A p \in 0..m : p \in D
    <3> HIDE DEF D
    <3> QED BY <1>2, <2>1, <2>2, UpTo
  <2> QED BY <2>3
<1> HIDE DEF F, Is
<1> QED BY <1>1, <1>9, <1>10 DEF m, a, Leads

\* The recursion of UsageEnds over the length of the walk.
Prints(R, g, k) ==
    /\ R[0] = {k}
    /\ \A n \in 0..Len(g.name) : R[n] \in SUBSET Nodes(g)
    /\ \A n \in 1..Len(g.name) : R[n] = UNION {NextPrinted(g, j) : j \in R[n - 1]}
    /\ UsageEnds(g, k) <=> R[Len(g.name)] = {}

LEMMA UsageWalk ==
    ASSUME NEW N, NEW H, NEW g \in Graphs(N, H), NEW k \in Nodes(g)
    PROVE  \E R : Prints(R, g, k)
<1> DEFINE m == Len(g.name)
           X == SUBSET Nodes(g)
           a == {k}
           Step(x) == UNION {NextPrinted(g, j) : j \in x}
           F == [p \in 1..m |-> [x \in X |-> Step(x)]]
           Is(f) == f = [p \in 0..m |-> IF p = 0 THEN a ELSE Step(f[p - 1])]
           R == CHOOSE f : Is(f)
<1>1. UsageEnds(g, k) <=> R[m] = {}
  BY DEF UsageEnds
<1>2. m \in Nat
  BY GraphTypes
<1>3. a \in X
  OBVIOUS
<1>4. ASSUME NEW x \in X PROVE Step(x) \in X
  <2>1. ASSUME NEW j \in Nodes(g) PROVE NextPrinted(g, j) \subseteq Nodes(g)
    <3>1. g.sub[j] \in Seq(Nat) /\ Len(g.sub[j]) \in Nat
      BY GraphTypes, LenProperties
    <3>2. \A p \in 1..Len(g.sub[j]) : g.sub[j][p] \in Nodes(g)
      <4>1. ToSet(g.sub[j]) \subseteq Nodes(g)
        BY DEF Graphs, WellFormed
      <4>2. ToSet(g.sub[j]) = {g.sub[j][p] : p \in 1..Len(g.sub[j])}
        BY <3>1, ToSetOf
      <4> QED BY <4>1, <4>2
    <3> QED BY <3>1, <3>2 DEF NextPrinted
  <2> QED BY <2>1
<1> HIDE DEF a, m
<1>5. F \in Steps(m, X)
  <2> HIDE DEF Step, X
  <2> QED BY <1>4 DEF Steps
<1>6. PICK f : Runs(f, m, X, a, F)
  <2> HIDE DEF F, X
  <2> QED BY <1>2, <1>3, <1>5, Recursion
<1>7. Is(f)
  <2> HIDE DEF X
  <2>1. ASSUME NEW p \in 0..m
        PROVE  f[p] = IF p = 0 THEN a ELSE Step(f[p - 1])
    <3>1. CASE p = 0
      BY <1>6, <3>1 DEF Runs
    <3>2. CASE p \in 1..m
      <4> HIDE DEF Step
      <4>1. f[p - 1] \in X /\ p # 0
        <5> HIDE DEF F
        <5>1. p - 1 \in 0..m /\ p # 0
          BY <1>2, <3>2
        <5> QED BY <1>6, <5>1 DEF Runs
      <4>2. F[p][f[p - 1]] = Step(f[p - 1])
        BY <3>2, <4>1
      <4> HIDE DEF F
      <4> QED BY <1>6, <3>2, <4>1, <4>2 DEF Runs
    <3> QED BY <1>2, <3>1, <3>2
  <2> HIDE DEF F, Step
  <2> QED BY <1>6, <2>1 DEF Runs
<1>8. Is(R)
  <2> HIDE DEF Is
  <2> QED BY <1>7
<1> HIDE DEF R
<1>9. R[0] = a /\ \A p \in 1..m : R[p] = Step(R[p - 1])
  <2> HIDE DEF Step
  <2>1. 0 \in 0..m /\ \A p \in 1..m : p \in 0..m /\ p # 0
    BY <1>2
  <2> QED BY <1>8, <2>1
<1> DEFINE D == {p \in 0..m : R[p] \in X}
<1>10. \A p \in 0..m : R[p] \in X
  <2> HIDE DEF Step, X
  <2>1. 0 \in D
    BY <1>2, <1>3, <1>9
  <2>2. ASSUME NEW p \in 1..m, p - 1 \in D PROVE p \in D
    <3>1. p \in 0..m /\ R[p] = Step(R[p - 1])
      BY <1>2, <1>9
    <3> QED BY <1>4, <2>2, <3>1
  <2>3. \A p \in 0..m : p \in D
    <3> HIDE DEF D
    <3> QED BY <1>2, <2>1, <2>2, UpTo
  <2> QED BY <2>3
<1> HIDE DEF F, Is
<1> QED BY <1>1, <1>9, <1>10 DEF m, a, Prints

\* A name that is no value leads to what follows from the subnode of that name.
LEMMA FollowName ==
    ASSUME NEW N, NEW H, NEW g \in Graphs(N, H), NEW k \in Nodes(g), NEW n \in ToSet(g.sub[k]),
           NEW deeper \in [Nodes(g) -> Nodes(g)], g.name[n] \notin AnyNames
    PROVE  Follow(g, k, g.name[n], deeper) = deeper[n]
<1> DEFINE arg == g.name[n]
           subs == getMatchingSubnodes(g, k, arg)
           good == {p \in subs : HasHandler(g, deeper[g.sub[k][p]])}
           q == Position(g, k, arg)
<1>1. Follow(g, k, arg, deeper) =
        IF subs = {} THEN k
        ELSE IF Cardinality(subs) = 1 THEN deeper[g.sub[k][Min(subs)]]
        ELSE IF good = {} THEN g.sub[k][Min(subs)]
        ELSE deeper[g.sub[k][Min(good)]]
  BY DEF Follow
<1>2. g.sub[k] \in Seq(Nat) /\ ToSet(g.sub[k]) = {g.sub[k][p] : p \in 1..Len(g.sub[k])}
  <2>1. g.sub[k] \in Seq(Nat)
    BY GraphTypes
  <2> QED BY <2>1, ToSetOf
<1>3. q \in 1..Len(g.sub[k]) /\ g.name[g.sub[k][q]] = arg /\ q # 0
  <2>1. \/ q \in 1..Len(g.sub[k]) /\ g.name[g.sub[k][q]] = arg
        \/ q = 0 /\ \A x \in ToSet(g.sub[k]) : g.name[x] # arg
    BY PositionFound
  <2> HIDE DEF q
  <2> QED BY <1>2, <2>1
<1> HIDE DEF q
<1>4. g.sub[k][q] = n
  <2>1. g.sub[k][q] \in ToSet(g.sub[k])
    BY <1>2, <1>3
  <2> QED BY <1>3, <2>1 DEF Graphs, WellFormed
<1>5. subs = {q}
  BY <1>3 DEF getMatchingSubnodes, q
<1>6. Cardinality({q}) = 1 /\ Min({q}) = q
  <2>1. {q} \in SUBSET Nat
    BY <1>3
  <2>2. Min({q}) \in {q}
    BY <2>1, MinIsIn
  <2> QED BY <2>2, FS_Singleton
<1> HIDE DEF subs, good, arg
<1>7. Follow(g, k, arg, deeper) = deeper[n]
  BY <1>1, <1>4, <1>5, <1>6
<1> QED BY <1>7 DEF arg

\* The argument is the subnode's name, or a value for it and no subnode's name.
Answers(g, k, arg, j) ==
    \/ g.name[j] = arg
    \/ g.name[j] \in AnyNames /\ \A n \in ToSet(g.sub[k]) : g.name[n] # arg

\* A subnode that it answers has a handler further on: so has what Follow finds.
LEMMA FollowFinds ==
    ASSUME NEW N, NEW H, NEW g \in Graphs(N, H), NEW k \in Nodes(g), NEW j \in ToSet(g.sub[k]), NEW arg,
           NEW deeper \in [Nodes(g) -> Nodes(g)], Answers(g, k, arg, j), HasHandler(g, deeper[j])
    PROVE  HasHandler(g, Follow(g, k, arg, deeper))
<1>1. CASE g.name[j] \notin AnyNames
  <2>1. Follow(g, k, g.name[j], deeper) = deeper[j]
    BY <1>1, FollowName
  <2> QED BY <1>1, <2>1 DEF Answers
<1>2. CASE g.name[j] \in AnyNames
  <2> DEFINE subs == getMatchingSubnodes(g, k, arg)
             good == {p \in subs : HasHandler(g, deeper[g.sub[k][p]])}
  <2>1. Follow(g, k, arg, deeper) =
          IF subs = {} THEN k
          ELSE IF Cardinality(subs) = 1 THEN deeper[g.sub[k][Min(subs)]]
          ELSE IF good = {} THEN g.sub[k][Min(subs)]
          ELSE deeper[g.sub[k][Min(good)]]
    BY DEF Follow
  <2>2. subs \in SUBSET Nat /\ \A p \in subs : p \in 1..Len(g.sub[k]) /\ g.sub[k][p] \in Nodes(g)
    BY MatchingSubnodes
  <2>3. /\ g.sub[k] \in Seq(Nat) /\ Len(g.sub[k]) \in Nat /\ DOMAIN g.sub[k] = 1..Len(g.sub[k])
        /\ ToSet(g.sub[k]) = {g.sub[k][p] : p \in 1..Len(g.sub[k])}
    <3>1. g.sub[k] \in Seq(Nat)
      BY GraphTypes
    <3> QED BY <3>1, ToSetOf, LenProperties
  <2>4. arg \in AnyNames \/ Position(g, k, arg) = 0
    <3>1. CASE g.name[j] = arg
      BY <1>2, <3>1
    <3>2. CASE \A n \in ToSet(g.sub[k]) : g.name[n] # arg
      <4>1. Position(g, k, arg) \in 1..Len(g.sub[k]) => g.sub[k][Position(g, k, arg)] \in ToSet(g.sub[k])
        BY <2>3
      <4> QED BY <3>2, <4>1, PositionFound
    <3> QED BY <3>1, <3>2 DEF Answers
  <2>5. subs = {p \in DOMAIN g.sub[k] : g.name[g.sub[k][p]] \in AnyNames}
    BY <2>4 DEF getMatchingSubnodes
  <2>6. PICK p \in 1..Len(g.sub[k]) : g.sub[k][p] = j
    BY <2>3
  <2>7. p \in subs /\ p \in good
    BY <1>2, <2>3, <2>5, <2>6
  <2>8. IsFiniteSet(subs)
    <3>1. subs \in SUBSET (1..Len(g.sub[k])) /\ 1 \in Int /\ Len(g.sub[k]) \in Int
      BY <2>2, <2>3
    <3> QED BY <3>1, FS_Interval, FS_Subset
  <2>9. good \in SUBSET Nat /\ \A q \in good : HasHandler(g, deeper[g.sub[k][q]])
    BY <2>2
  <2> HIDE DEF subs, good
  <2>10. CASE Cardinality(subs) = 1
    <3>1. PICK x : subs = {x}
      BY <2>8, <2>10, FS_Singleton
    <3>2. Min(subs) \in subs
      BY <2>2, <2>7, MinIsIn
    <3>3. Min(subs) = p
      BY <2>7, <3>1, <3>2
    <3> QED BY <2>1, <2>6, <2>7, <2>10, <3>3
  <2>11. CASE Cardinality(subs) # 1
    <3>1. Min(good) \in good
      BY <2>7, <2>9, MinIsIn
    <3>2. Follow(g, k, arg, deeper) = deeper[g.sub[k][Min(good)]]
      BY <2>1, <2>7, <2>11
    <3> QED BY <2>9, <3>1, <3>2
  <2> QED BY <2>10, <2>11
<1> QED BY <1>1, <1>2

\* What runs in g runs in every graph that has more.
LEMMA NothingLost ==
    ASSUME NEW N, NEW H, NEW g \in Graphs(N, H), NEW h \in Graphs(N, H), Extends(g, h),
           NEW args, Len(args) \in Nat, Exact(g, args)
    PROVE  HasHandler(h, evaluateCommandArguments(h, args))
<1> DEFINE m == Len(args)
<1>01. PICK W : Leads(W, g, args)
  BY WayFound
<1>1. /\ W[0] = {1}
      /\ \A p \in 0..m : W[p] \in SUBSET Nodes(g)
      /\ \A p \in 1..m : W[p] = {findSubnode(g, k, args[p]) : k \in W[p - 1]} \ {0}
      /\ \E k \in W[m] : HasHandler(g, k)
  BY <1>01 DEF Leads
<1>02. PICK R : Evaluates(R, h, args)
  BY Evaluated
<1>2. /\ R[0] = [k \in Nodes(h) |-> k]
      /\ \A n \in 0..m : R[n] \in [Nodes(h) -> Nodes(h)]
      /\ \A n \in 1..m : \A k \in Nodes(h) : R[n][k] = Follow(h, k, args[m - n + 1], R[n - 1])
      /\ evaluateCommandArguments(h, args) = R[m][1]
  BY <1>02 DEF Evaluates
<1>3. m \in Nat
  OBVIOUS
<1> HIDE DEF m
<1> DEFINE D == {n \in 0..m : \E k \in W[m - n] : HasHandler(h, R[n][k])}
<1>4. 0 \in D
  <2>1. PICK k \in W[m] : HasHandler(g, k)
    BY <1>1
  <2>2. k \in Nodes(g)
    <3>1. m \in 0..m
      BY <1>3
    <3> QED BY <1>1, <2>1, <3>1
  <2>3. k \in Nodes(h) /\ HasHandler(h, k)
    BY <2>1, <2>2, NodeKept
  <2>4. R[0][k] = k
    BY <1>2, <2>3
  <2>5. m - 0 = m /\ 0 \in 0..m
    BY <1>3
  <2> QED BY <2>1, <2>3, <2>4, <2>5
<1>5. ASSUME NEW n \in 1..m, n - 1 \in D PROVE n \in D
  <2> DEFINE p == m - n + 1
  <2>1. p \in 1..m /\ m - (n - 1) = p /\ p - 1 = m - n /\ n \in 0..m /\ n - 1 \in 0..m /\ p - 1 \in 0..m
    BY <1>3
  <2>2. PICK j \in W[p] : HasHandler(h, R[n - 1][j])
    BY <1>5, <2>1
  <2> HIDE DEF p
  <2>3. PICK k \in W[p - 1] : j = findSubnode(g, k, args[p]) /\ j # 0
    BY <1>1, <2>1, <2>2
  <2>4. k \in Nodes(g)
    BY <1>1, <2>1, <2>3
  <2>5. j \in ToSet(g.sub[k]) /\ j \in Nodes(g) /\ g.name[j] = args[p]
    BY <2>3, <2>4, SubnodeFound
  <2>6. k \in Nodes(h) /\ j \in ToSet(h.sub[k]) /\ h.name[j] = args[p]
    <3>1. k \in Nodes(h) /\ ToSet(g.sub[k]) \subseteq ToSet(h.sub[k])
      BY <2>4, NodeKept
    <3>2. h.name[j] = g.name[j]
      BY <2>5, NodeKept
    <3> QED BY <2>5, <3>1, <3>2
  <2>7. PICK deeper \in [Nodes(h) -> Nodes(h)] : deeper = R[n - 1]
    BY <1>2, <2>1
  <2>8. HasHandler(h, Follow(h, k, h.name[j], deeper))
    BY <2>2, <2>6, <2>7, FollowFinds DEF Answers
  <2>9. R[n][k] = Follow(h, k, args[p], R[n - 1])
    BY <1>2, <2>6 DEF p
  <2>10. HasHandler(h, R[n][k])
    BY <2>6, <2>7, <2>8, <2>9
  <2>11. k \in W[m - n]
    BY <2>1, <2>3
  <2> QED BY <2>1, <2>10, <2>11
<1>6. m \in D
  <2> HIDE DEF D
  <2>1. \A n \in 0..m : n \in D
    BY <1>3, <1>4, <1>5, UpTo
  <2> QED BY <1>3, <2>1
<1>7. m - m = 0
  BY <1>3
<1> QED BY <1>1, <1>2, <1>6, <1>7

LEMMA EvaluatedIn ==
    ASSUME NEW N, NEW H, NEW g \in Graphs(N, H), NEW args, Len(args) \in Nat
    PROVE  evaluateCommandArguments(g, args) \in Nodes(g)
<1>0. PICK R : Evaluates(R, g, args)
  BY Evaluated
<1>1. /\ \A n \in 0..Len(args) : R[n] \in [Nodes(g) -> Nodes(g)]
      /\ evaluateCommandArguments(g, args) = R[Len(args)][1]
  BY <1>0 DEF Evaluates
<1>2. R[Len(args)] \in [Nodes(g) -> Nodes(g)] /\ 1 \in Nodes(g)
  <2>1. Len(args) \in 0..Len(args)
    OBVIOUS
  <2> QED BY <1>1, <2>1, GraphTypes
<1> QED BY <1>1, <1>2
-----------------------------------------------------------------------------
(***************************************************************************)
(* A usage text that does not end walks along a cycle.                     *)
(***************************************************************************)
LEMMA NextIsOne ==
    ASSUME NEW N, NEW H, NEW g \in Graphs(N, H), NEW j \in Nodes(g), NextPrinted(g, j) # {}
    PROVE  \E x \in ToSet(g.sub[j]) : NextPrinted(g, j) = {x}
<1>1. g.sub[j] \in Seq(Nat) /\ Len(g.sub[j]) \in Nat
  BY GraphTypes, LenProperties
<1>2. ToSet(g.sub[j]) = {g.sub[j][p] : p \in 1..Len(g.sub[j])}
  BY <1>1, ToSetOf
<1>3. CASE Len(g.sub[j]) = 1
  <2>1. NextPrinted(g, j) = {g.sub[j][1]} /\ 1 \in 1..Len(g.sub[j])
    BY <1>3 DEF NextPrinted
  <2> QED BY <1>2, <2>1
<1>4. CASE Len(g.sub[j]) = 2
  <2>1. NextPrinted(g, j) = {g.sub[j][2]} /\ 2 \in 1..Len(g.sub[j])
    BY <1>4 DEF NextPrinted
  <2> QED BY <1>2, <2>1
<1>5. CASE Len(g.sub[j]) \notin {1, 2}
  BY <1>5 DEF NextPrinted
<1> QED BY <1>3, <1>4, <1>5

\* A walk along the edges with more steps than there are nodes meets a node
\* again.
LEMMA WalkMeetsItself ==
    ASSUME NEW m \in Nat, NEW f \in [0..m -> 1..m]
    PROVE  \E a, b \in 0..m : a < b /\ f[a] = f[b]
<1>1. IsFiniteSet(0..m) /\ Cardinality(0..m) = m + 1 /\ IsFiniteSet(1..m) /\ Cardinality(1..m) = m
  <2>1. 0 \in Int /\ 1 \in Int /\ m \in Int
    OBVIOUS
  <2>2. IsFiniteSet(0..m) /\ Cardinality(0..m) = IF 0 > m THEN 0 ELSE m - 0 + 1
    BY <2>1, FS_Interval
  <2>3. IsFiniteSet(1..m) /\ Cardinality(1..m) = IF 1 > m THEN 0 ELSE m - 1 + 1
    BY <2>1, FS_Interval
  <2> QED BY <2>2, <2>3
<1>2. PICK a, b \in 0..m : a # b /\ f[a] = f[b]
  <2>1. Cardinality(1..m) < Cardinality(0..m)
    BY <1>1
  <2> QED BY <1>1, <2>1, FS_PigeonHole
<1>3. a < b \/ b < a
  BY <1>2
<1> QED BY <1>2, <1>3

LEMMA StuckWalk ==
    ASSUME NEW N, NEW H, NEW g \in Graphs(N, H), NEW k \in Nodes(g), ~UsageEnds(g, k)
    PROVE  \E f \in [0..Len(g.name) -> Nodes(g)] :
              \A n \in 1..Len(g.name) : f[n] \in ToSet(g.sub[f[n - 1]])
<1> DEFINE m == Len(g.name)
<1>0. PICK R : Prints(R, g, k)
  BY UsageWalk
<1>1. /\ R[0] = {k}
      /\ \A n \in 0..m : R[n] \in SUBSET Nodes(g)
      /\ \A n \in 1..m : R[n] = UNION {NextPrinted(g, j) : j \in R[n - 1]}
      /\ R[m] # {}
  BY <1>0 DEF Prints
<1>2. m \in Nat /\ Nodes(g) = 1..m
  BY GraphTypes
<1> HIDE DEF m
<1> DEFINE D == {n \in 0..m : R[n] = {} \/ \E x \in Nodes(g) : R[n] = {x}}
<1>3. ASSUME NEW n \in 1..m, NEW x \in Nodes(g), R[n - 1] = {x}
      PROVE  R[n] = {} \/ \E y \in Nodes(g) : y \in ToSet(g.sub[x]) /\ R[n] = {y}
  <2>1. R[n] = NextPrinted(g, x)
    BY <1>1, <1>3
  <2>2. ToSet(g.sub[x]) \subseteq Nodes(g)
    BY DEF Graphs, WellFormed
  <2> QED BY <2>1, <2>2, NextIsOne
<1>4. \A n \in 0..m : R[n] = {} \/ \E x \in Nodes(g) : R[n] = {x}
  <2>1. 0 \in D
    BY <1>1, <1>2
  <2>2. ASSUME NEW n \in 1..m, n - 1 \in D PROVE n \in D
    <3>1. n \in 0..m
      BY <1>2
    <3>2. CASE R[n - 1] = {}
      BY <1>1, <3>1, <3>2
    <3>3. CASE \E x \in Nodes(g) : R[n - 1] = {x}
      BY <1>3, <3>1, <3>3
    <3> QED BY <2>2, <3>2, <3>3
  <2>3. \A n \in 0..m : n \in D
    <3> HIDE DEF D
    <3> QED BY <1>2, <2>1, <2>2, UpTo
  <2> QED BY <2>3
<1>5. \A n \in 0..m : R[n] # {}
  <2> DEFINE E == {n \in 0..m : R[m - n] # {}}
  <2>1. 0 \in E
    <3>1. m - 0 = m /\ 0 \in 0..m
      BY <1>2
    <3> QED BY <1>1, <3>1
  <2>2. ASSUME NEW n \in 1..m, n - 1 \in E PROVE n \in E
    <3>1. m - (n - 1) \in 1..m /\ (m - (n - 1)) - 1 = m - n /\ n \in 0..m
      BY <1>2
    <3>2. R[m - (n - 1)] = UNION {NextPrinted(g, j) : j \in R[(m - (n - 1)) - 1]}
      BY <1>1, <3>1
    <3>3. R[m - (n - 1)] = UNION {NextPrinted(g, j) : j \in R[m - n]}
      BY <3>1, <3>2
    <3>4. R[m - n] # {}
      BY <2>2, <3>3
    <3> QED BY <3>1, <3>4
  <2>3. \A n \in 0..m : n \in E
    <3> HIDE DEF E
    <3> QED BY <1>2, <2>1, <2>2, UpTo
  <2>4. ASSUME NEW n \in 0..m PROVE R[n] # {}
    <3>1. m - n \in 0..m /\ m - (m - n) = n
      BY <1>2
    <3>2. R[m - (m - n)] # {}
      BY <2>3, <3>1
    <3> QED BY <3>1, <3>2
  <2> QED BY <2>4
<1> DEFINE f == [n \in 0..m |-> CHOOSE x \in Nodes(g) : R[n] = {x}]
<1>6. \A n \in 0..m : f[n] \in Nodes(g) /\ R[n] = {f[n]}
  BY <1>4, <1>5
<1>7. f \in [0..m -> Nodes(g)]
  BY <1>6
<1> HIDE DEF f
<1>8. ASSUME NEW n \in 1..m PROVE f[n] \in ToSet(g.sub[f[n - 1]])
  <2>1. n - 1 \in 0..m /\ n \in 0..m
    BY <1>2
  <2>2. f[n - 1] \in Nodes(g) /\ R[n - 1] = {f[n - 1]} /\ R[n] = {f[n]}
    BY <1>6, <2>1
  <2>3. PICK y \in Nodes(g) : y \in ToSet(g.sub[f[n - 1]]) /\ R[n] = {y}
    BY <1>3, <2>2
  <2> QED BY <2>2, <2>3
<1> QED BY <1>7, <1>8 DEF m

\* If the edges follow an order of the names, the names of the cycle stand in
\* a circle of it.
LEMMA StuckHasCycle ==
    ASSUME NEW N, NEW H, NEW g \in Graphs(N, H), NEW k \in Nodes(g), ~UsageEnds(g, k),
           NEW After, Ordered(g, After)
    PROVE  \E S \in SUBSET N : S # {} /\ \A n \in S : \E m \in S : <<m, n>> \in After
<1> DEFINE l == Len(g.name)
<1>1. PICK f \in [0..l -> Nodes(g)] : \A n \in 1..l : f[n] \in ToSet(g.sub[f[n - 1]])
  BY StuckWalk
<1>2. l \in Nat /\ Nodes(g) = 1..l /\ g.name \in [Nodes(g) -> N]
  BY GraphTypes
<1> HIDE DEF l
<1>3. PICK a, b \in 0..l : a < b /\ f[a] = f[b]
  <2>1. f \in [0..l -> 1..l]
    BY <1>2
  <2> QED BY <1>2, <2>1, WalkMeetsItself
<1> DEFINE S == {g.name[f[i]] : i \in (a + 1)..b}
<1>4. ASSUME NEW i \in (a + 1)..b PROVE i \in 1..l /\ i \in 0..l /\ i - 1 \in 0..l
  <2>1. a \in Int /\ b \in Int /\ 0 <= a /\ b <= l /\ l \in Int
    BY <1>2, <1>3
  <2> QED BY <2>1
<1>5. S \in SUBSET N
  BY <1>1, <1>2, <1>4
<1>6. S # {}
  <2>1. b \in (a + 1)..b
    BY <1>2, <1>3
  <2> QED BY <2>1
<1>7. \A i \in (a + 1)..b : f[i] # 1 /\ (f[i - 1] = 1 \/ <<g.name[f[i - 1]], g.name[f[i]]>> \in After)
  BY <1>1, <1>4 DEF Ordered
<1>8. ASSUME NEW n \in S PROVE \E m \in S : <<m, n>> \in After
  <2>1. PICK i \in (a + 1)..b : n = g.name[f[i]]
    OBVIOUS
  <2>2. PICK j \in (a + 1)..b : f[j] = f[i - 1]
    <3>1. CASE i - 1 \in (a + 1)..b
      BY <3>1
    <3>2. CASE i - 1 = a
      <4>1. b \in (a + 1)..b
        BY <1>2, <1>3
      <4> QED BY <1>3, <3>2, <4>1
    <3>3. i - 1 = a \/ i - 1 \in (a + 1)..b
      BY <1>2, <1>3
    <3> QED BY <3>1, <3>2, <3>3
  <2>3. f[i - 1] # 1
    BY <1>7, <2>2
  <2>4. <<g.name[f[i - 1]], g.name[f[i]]>> \in After
    BY <1>7, <2>1, <2>3
  <2>5. g.name[f[j]] \in S
    OBVIOUS
  <2> QED BY <2>1, <2>2, <2>4, <2>5
<1> HIDE DEF S
<1> QED BY <1>5, <1>6, <1>8
-----------------------------------------------------------------------------
(***************************************************************************)
(* The table.                                                              *)
(***************************************************************************)
TableNames == {CmdName} \cup UNION {ToSet(Syntaxes[s]) : s \in DOMAIN Syntaxes}
TableHandlers == Handlers \cup {NoHandler}
TableGraphs == Graphs(TableNames, TableHandlers)

\* The names of a text, two by two, in its order.
InOrder(text) ==
    {<<text[ij[1]], text[ij[2]]>> : ij \in {x \in (DOMAIN text) \X (DOMAIN text) :
        x[1] < x[2] /\ {text[x[1]], text[x[2]]} \cap Brackets = {}}}

Known == UNION {InOrder(TextOf(j)) : j \in DOMAIN added}

\* The graph is well formed and its edges follow the texts; what is stuck
\* walks from some node for ever.
TableInv ==
    /\ graph \in TableGraphs /\ graph.name[1] = CmdName
    /\ added \in Seq([syntax : DOMAIN Syntaxes, handler : Handlers]) /\ Len(added) <= MaxSyntaxes
    /\ m_cmdMap \in BOOLEAN /\ stuck \in BOOLEAN
    /\ reply = NoCall \/ reply.args \in ArgLists
    /\ Ordered(graph, Known)
    /\ stuck => m_cmdMap /\ \E k \in Nodes(graph) : ~UsageEnds(graph, k)

LEMMA OneElement ==
    ASSUME NEW S, NEW x \in S
    PROVE  \E c \in Seq(S) : c = <<x>> /\ Len(c) = 1 /\ c[1] = x
<1>1. <<x>> \in Seq(S) /\ Len(<<x>>) = 1 /\ <<x>>[1] = x
  OBVIOUS
<1>2. PICK c : c = <<x>>
  OBVIOUS
<1> QED BY <1>1, <1>2

LEMMA KnownBefore ==
    ASSUME NEW m, NEW n, <<m, n>> \in Known
    PROVE  Before(m, n)
<1>1. PICK j \in DOMAIN added : <<m, n>> \in InOrder(TextOf(j))
  BY DEF Known
<1>2. PICK x \in (DOMAIN TextOf(j)) \X (DOMAIN TextOf(j)) :
        /\ x[1] < x[2] /\ {TextOf(j)[x[1]], TextOf(j)[x[2]]} \cap Brackets = {}
        /\ <<m, n>> = <<TextOf(j)[x[1]], TextOf(j)[x[2]]>>
  BY <1>1 DEF InOrder
<1>3. m = TextOf(j)[x[1]] /\ n = TextOf(j)[x[2]] /\ x[1] \in DOMAIN TextOf(j) /\ x[2] \in DOMAIN TextOf(j)
  BY <1>2
<1> QED BY <1>2, <1>3 DEF Before

\* The tokens of a definition, the command's name first.
LEMMA FullSyntax ==
    ASSUME NEW s \in DOMAIN Syntaxes, NEW syntax, syntax = <<CmdName>> \o Syntaxes[s]
    PROVE  /\ syntax \in Seq(TableNames) /\ syntax # <<>> /\ syntax[1] = CmdName
           /\ syntax[1] \notin Brackets
           /\ Pairs(syntax) \subseteq InOrder(Syntaxes[s])
<1> DEFINE text == Syntaxes[s]
<1>1. text \in Seq(TableNames)
  <2>1. text \in Seq(ToSet(text)) /\ ToSet(text) \subseteq TableNames
    BY SyntaxAssumption DEF TableNames
  <2> QED BY <2>1, SeqMonotonic
<1>2. PICK c \in Seq(TableNames) : c = <<CmdName>> /\ Len(c) = 1 /\ c[1] = CmdName
  BY OneElement DEF TableNames
<1> HIDE DEF text
<1>3. /\ c \o text \in Seq(TableNames) /\ Len(c \o text) = Len(c) + Len(text)
      /\ \A i \in 1..Len(c) + Len(text) : (c \o text)[i] = IF i <= Len(c) THEN c[i] ELSE text[i - Len(c)]
  BY <1>1, <1>2, ConcatProperties
<1>4. syntax = c \o text
  BY <1>2 DEF text
<1>5. Len(text) \in Nat /\ DOMAIN text = 1..Len(text)
  BY <1>1, LenProperties
<1>6. /\ syntax \in Seq(TableNames) /\ Len(syntax) = Len(text) + 1 /\ syntax[1] = CmdName
      /\ \A i \in 2..Len(syntax) : syntax[i] = text[i - 1] /\ i - 1 \in DOMAIN text
  <2>1. syntax \in Seq(TableNames) /\ Len(syntax) = Len(text) + 1
    <3>1. Len(c \o text) = Len(text) + 1
      BY <1>2, <1>3, <1>5
    <3>2. c \o text \in Seq(TableNames)
      BY <1>3
    <3> HIDE <1>3
    <3> QED BY <1>4, <3>1, <3>2
  <2>2. syntax[1] = CmdName
    BY <1>2, <1>3, <1>4, <1>5
  <2>3. ASSUME NEW i \in 2..Len(syntax) PROVE syntax[i] = text[i - 1] /\ i - 1 \in DOMAIN text
    <3>1. i \in 1..Len(c) + Len(text) /\ ~(i <= Len(c)) /\ i - 1 \in 1..Len(text)
      BY <1>2, <1>5, <2>1
    <3> QED BY <1>2, <1>3, <1>4, <1>5, <3>1
  <2> QED BY <2>1, <2>2, <2>3
<1>7. syntax # <<>> /\ syntax[1] \notin Brackets
  <2>1. Len(syntax) # 0
    BY <1>5, <1>6
  <2> QED BY <1>6, <2>1, EmptySeq, SyntaxAssumption
<1>8. ASSUME NEW e \in Pairs(syntax) PROVE e \in InOrder(text)
  <2>1. PICK x \in (2..Len(syntax)) \X (2..Len(syntax)) :
          /\ x[1] < x[2] /\ {syntax[x[1]], syntax[x[2]]} \cap Brackets = {}
          /\ e = <<syntax[x[1]], syntax[x[2]]>>
    BY DEF Pairs
  <2>2. PICK p \in 2..Len(syntax), q \in 2..Len(syntax) : x = <<p, q>>
    BY <2>1
  <2>3. p < q /\ {syntax[p], syntax[q]} \cap Brackets = {} /\ e = <<syntax[p], syntax[q]>>
    BY <2>1, <2>2
  <2>4. /\ syntax[p] = text[p - 1] /\ p - 1 \in DOMAIN text
        /\ syntax[q] = text[q - 1] /\ q - 1 \in DOMAIN text
        /\ p - 1 < q - 1
    BY <1>6, <2>3
  <2>5. PICK y \in (DOMAIN text) \X (DOMAIN text) : y = <<p - 1, q - 1>>
    BY <2>4
  <2>6. y[1] = p - 1 /\ y[2] = q - 1
    BY <2>5
  <2>7. y[1] < y[2] /\ {text[y[1]], text[y[2]]} \cap Brackets = {} /\ e = <<text[y[1]], text[y[2]]>>
    BY <2>3, <2>4, <2>6
  <2> QED BY <2>7 DEF InOrder
<1> QED BY <1>6, <1>7, <1>8 DEF text

LEMMA FirstGraph ==
    /\ FirstNode(CmdName) \in TableGraphs
    /\ FirstNode(CmdName).name[1] = CmdName
    /\ \A After : Ordered(FirstNode(CmdName), After)
<1> DEFINE g == FirstNode(CmdName)
<1>1. PICK a \in Seq(TableNames) : a = <<CmdName>> /\ Len(a) = 1 /\ a[1] = CmdName
  BY OneElement DEF TableNames
<1>2. PICK e \in Seq(Nat) : e = <<>>
  BY EmptySeq
<1>3. PICK b \in Seq(Seq(Nat)) : b = <<e>> /\ Len(b) = 1 /\ b[1] = e
  BY OneElement
<1>4. PICK c \in Seq(TableHandlers) : c = <<NoHandler>> /\ Len(c) = 1
  BY OneElement DEF TableHandlers
<1>5. g = [name |-> a, sub |-> b, handler |-> c]
  <2>1. /\ Append(<<>>, CmdName) = <<CmdName>> /\ Append(<<>>, <<>>) = << <<>> >>
        /\ Append(<<>>, NoHandler) = <<NoHandler>>
    OBVIOUS
  <2> QED BY <1>1, <1>2, <1>3, <1>4, <2>1 DEF FirstNode, NewNode
<1> HIDE DEF g
<1>6. g.name = a /\ g.sub = b /\ g.handler = c /\ Nodes(g) = {1}
  <2>1. g.name = a /\ g.sub = b /\ g.handler = c
    BY <1>5
  <2> QED BY <1>1, <2>1 DEF Nodes
<1>7. ToSet(g.sub[1]) = {}
  BY <1>2, <1>3, <1>6 DEF ToSet
<1>8. WellFormed(g)
  BY <1>1, <1>3, <1>4, <1>6, <1>7 DEF WellFormed
<1>9. g \in TableGraphs
  BY <1>5, <1>8 DEF TableGraphs, Graphs
<1>10. \A After : Ordered(g, After)
  BY <1>6, <1>7 DEF Ordered
<1> QED BY <1>1, <1>6, <1>9, <1>10 DEF g

\* What addSyntax does to the graph.
LEMMA TableExtended ==
    ASSUME TableInv, NEW s \in DOMAIN Syntaxes, NEW h \in Handlers, addSyntax(s, h)
    PROVE  /\ graph' \in TableGraphs /\ Extends(graph, graph')
           /\ Known' = Known \cup InOrder(Syntaxes[s])
           /\ Ordered(graph', Known')
<1> DEFINE syntax == <<CmdName>> \o Syntaxes[s]
           After == Known \cup InOrder(Syntaxes[s])
           D == [syntax : DOMAIN Syntaxes, handler : Handlers]
<1>1. /\ graph \in Graphs(TableNames, TableHandlers) /\ graph.name[1] = CmdName
      /\ Ordered(graph, Known)
  BY DEF TableInv, TableGraphs
<1>2. /\ syntax \in Seq(TableNames) /\ syntax # <<>> /\ syntax[1] = CmdName
      /\ syntax[1] \notin Brackets /\ Pairs(syntax) \subseteq InOrder(Syntaxes[s])
  BY FullSyntax
<1>3. graph' = AddSyntax(graph, syntax, h)
  BY DEF addSyntax
<1>4. h \in TableHandlers /\ h # NoHandler /\ NoHandler \in TableHandlers
  BY HandlerAssumption DEF TableHandlers
<1>5. Ordered(graph, After)
  BY <1>1 DEF Ordered
<1>6. Pairs(syntax) \subseteq After
  BY <1>2
<1>7. Known' = After
  <2>1. PICK e \in D : e = [syntax |-> s, handler |-> h]
    OBVIOUS
  <2>2. added' = Append(added, e) /\ added \in Seq(D)
    BY <2>1 DEF addSyntax, TableInv
  <2>3. /\ added' \in Seq(D) /\ Len(added') = Len(added) + 1 /\ Len(added) \in Nat
        /\ DOMAIN added = 1..Len(added) /\ DOMAIN added' = 1..Len(added) + 1
        /\ \A j \in 1..Len(added) : added'[j] = added[j]
        /\ added'[Len(added) + 1] = e
    <3>1. Len(added) \in Nat /\ DOMAIN added = 1..Len(added)
      BY <2>2, LenProperties
    <3>2. /\ added' \in Seq(D) /\ Len(added') = Len(added) + 1
          /\ \A j \in 1..Len(added) : added'[j] = added[j]
          /\ added'[Len(added) + 1] = e
      BY <2>2, AppendProperties
    <3> QED BY <3>1, <3>2, LenProperties
  <2> DEFINE Then(j) == Syntaxes[added'[j].syntax]
  <2>4. \A j \in DOMAIN added : j \in DOMAIN added' /\ Then(j) = TextOf(j)
    BY <2>3 DEF TextOf
  <2>5. Len(added) + 1 \in DOMAIN added' /\ Then(Len(added) + 1) = Syntaxes[s]
    BY <2>1, <2>3
  <2>6. \A j \in DOMAIN added' : j \in DOMAIN added \/ j = Len(added) + 1
    BY <2>3
  <2>7. Known' = UNION {InOrder(Then(j)) : j \in DOMAIN added'}
    BY DEF Known, TextOf
  <2> HIDE DEF Then
  <2>8. ASSUME NEW mn \in Known' PROVE mn \in After
    <3>1. PICK j \in DOMAIN added' : mn \in InOrder(Then(j))
      BY <2>7, <2>8
    <3>2. CASE j \in DOMAIN added
      BY <2>4, <3>1, <3>2 DEF Known
    <3>3. CASE j = Len(added) + 1
      BY <2>5, <3>1, <3>3
    <3> QED BY <2>6, <3>2, <3>3
  <2>9. ASSUME NEW mn \in After PROVE mn \in Known'
    <3>1. CASE mn \in InOrder(Syntaxes[s])
      BY <2>5, <2>7, <3>1
    <3>2. CASE mn \in Known
      <4>1. PICK j \in DOMAIN added : mn \in InOrder(TextOf(j))
        BY <3>2 DEF Known
      <4> QED BY <2>4, <2>7, <4>1
    <3> QED BY <2>9, <3>1, <3>2
  <2> QED BY <2>8, <2>9
<1> HIDE DEF syntax, After
<1>8. /\ graph' \in Graphs(TableNames, TableHandlers) /\ Extends(graph, graph')
      /\ Ordered(graph, After) => Ordered(graph', After)
  BY <1>1, <1>2, <1>3, <1>4, <1>6, SyntaxAdded
<1>9. Ordered(graph', Known')
  BY <1>5, <1>7, <1>8
<1> QED BY <1>7, <1>8, <1>9 DEF TableGraphs, After

LEMMA TableInvInit == TableInit => TableInv
<1> SUFFICES ASSUME TableInit PROVE TableInv
  OBVIOUS
<1>1. /\ graph \in TableGraphs /\ graph.name[1] = CmdName /\ Ordered(graph, Known)
  BY FirstGraph DEF TableInit
<1>2. added \in Seq([syntax : DOMAIN Syntaxes, handler : Handlers]) /\ Len(added) <= MaxSyntaxes
  <2>1. added = <<>>
    BY DEF TableInit
  <2> QED BY <2>1, EmptySeq, LimitAssumption
<1>3. m_cmdMap \in BOOLEAN /\ stuck \in BOOLEAN /\ ~stuck /\ reply = NoCall
  BY DEF TableInit
<1> QED BY <1>1, <1>2, <1>3 DEF TableInv

LEMMA TableInvNext == TableInv /\ [TableNext]_tableVars => TableInv'
<1> SUFFICES ASSUME TableInv, [TableNext]_tableVars PROVE TableInv'
  OBVIOUS
<1>1. ASSUME NEW s \in DOMAIN Syntaxes, NEW h \in Handlers, addSyntax(s, h) PROVE TableInv'
  <2>1. graph' \in TableGraphs /\ Extends(graph, graph') /\ Ordered(graph', Known')
    BY <1>1, TableExtended
  <2>2. graph'.name[1] = CmdName
    <3>1. graph \in Graphs(TableNames, TableHandlers) /\ graph.name[1] = CmdName
      BY DEF TableInv, TableGraphs
    <3>2. 1 \in Nodes(graph)
      BY <3>1, GraphTypes
    <3> QED BY <2>1, <3>1, <3>2 DEF Extends
  <2>3. added' \in Seq([syntax : DOMAIN Syntaxes, handler : Handlers]) /\ Len(added') <= MaxSyntaxes
    <3>1. PICK D : D = [syntax : DOMAIN Syntaxes, handler : Handlers]
      OBVIOUS
    <3>2. PICK e \in D : e = [syntax |-> s, handler |-> h]
      BY <3>1
    <3>3. added \in Seq(D) /\ added' = Append(added, e) /\ Len(added) < MaxSyntaxes
      BY <1>1, <3>1, <3>2 DEF addSyntax, TableInv
    <3>4. added' \in Seq(D) /\ Len(added') = Len(added) + 1 /\ Len(added) \in Nat
      BY <3>3, AppendProperties, LenProperties
    <3> QED BY <3>1, <3>3, <3>4, LimitAssumption
  <2>4. ~m_cmdMap /\ UNCHANGED <<m_cmdMap, reply, stuck>>
    BY <1>1 DEF addSyntax
  <2>5. ~stuck' /\ m_cmdMap' \in BOOLEAN /\ stuck' \in BOOLEAN /\ (reply' = NoCall \/ reply'.args \in ArgLists)
    BY <2>4 DEF TableInv
  <2> QED BY <2>1, <2>2, <2>3, <2>5 DEF TableInv, NoCall
<1>2. CASE addCommand
  <2>1. m_cmdMap' = TRUE /\ UNCHANGED <<graph, added, reply, stuck>>
    BY <1>2 DEF addCommand
  <2>2. Known' = Known
    BY <2>1 DEF Known, TextOf
  <2> QED BY <2>1, <2>2 DEF TableInv, NoCall
<1>3. ASSUME NEW args \in ArgLists, executeCmd(args) PROVE TableInv'
  <2> DEFINE k == evaluateCommandArguments(graph, args)
  <2>1. /\ m_cmdMap /\ UNCHANGED <<graph, added, m_cmdMap>>
        /\ reply' = [args |-> args, handler |-> graph.handler[k]]
        /\ stuck' = (~HasHandler(graph, k) /\ ~UsageEnds(graph, k))
    BY <1>3 DEF executeCmd
  <2>2. k \in Nodes(graph)
    <3>1. Len(args) \in Nat
      BY ArgsAssumption, LenProperties
    <3>2. graph \in Graphs(TableNames, TableHandlers)
      BY DEF TableInv, TableGraphs
    <3> QED BY <3>1, <3>2, EvaluatedIn
  <2>3. Known' = Known
    BY <2>1 DEF Known, TextOf
  <2> HIDE DEF k
  <2>4. stuck' \in BOOLEAN /\ (stuck' => \E j \in Nodes(graph') : ~UsageEnds(graph', j))
    BY <2>1, <2>2
  <2>5. reply'.args \in ArgLists
    BY <2>1
  <2> QED BY <2>1, <2>3, <2>4, <2>5 DEF TableInv
<1>4. CASE UNCHANGED tableVars
  <2>1. UNCHANGED <<graph, added, m_cmdMap, reply, stuck>>
    BY <1>4 DEF tableVars
  <2>2. Known' = Known
    BY <2>1 DEF Known, TextOf
  <2> QED BY <2>1, <2>2 DEF TableInv, NoCall
<1> QED BY <1>1, <1>2, <1>3, <1>4 DEF TableNext

LEMMA TableInvAlways == TableSpec => []TableInv
  BY TableInvInit, TableInvNext, PTL DEF TableSpec

\* The graph stays well formed, and no node has two subnodes of one name, of
\* which createAndAddNewSubnodeIfNotExist would find only the first.
THEOREM TableTypeCorrect == TableSpec => []TableTypeOK
<1>1. ASSUME TableInv PROVE TableTypeOK
  <2>1. graph \in Graphs(TableNames, TableHandlers)
    BY <1>1 DEF TableInv, TableGraphs
  <2>2. /\ DOMAIN graph.name = Nodes(graph) /\ DOMAIN graph.sub = Nodes(graph)
        /\ DOMAIN graph.handler = Nodes(graph) /\ graph.handler \in [Nodes(graph) -> TableHandlers]
    BY <2>1, GraphTypes
  <2>3. \A k \in Nodes(graph) :
           /\ ToSet(graph.sub[k]) \subseteq Nodes(graph)
           /\ \A m, n \in ToSet(graph.sub[k]) : graph.name[m] = graph.name[n] => m = n
    BY <2>1 DEF Graphs, WellFormed
  <2>4. \A k \in Nodes(graph) : graph.handler[k] \in Handlers \cup {NoHandler}
    BY <2>2 DEF TableHandlers
  <2>5. Len(added) \in 0..MaxSyntaxes
    <3>1. Len(added) \in Nat
      BY <1>1, LenProperties DEF TableInv
    <3> QED BY <1>1, <3>1, LimitAssumption DEF TableInv
  <2>6. {m_cmdMap, stuck} \subseteq BOOLEAN /\ (reply = NoCall \/ reply.args \in ArgLists)
    BY <1>1 DEF TableInv
  <2> QED BY <2>2, <2>3, <2>4, <2>5, <2>6 DEF TableTypeOK
<1> QED BY <1>1, TableInvAlways, PTL

\* Arguments that run a handler by the names of a syntax run one whatever
\* addSyntax adds later.
THEOREM NothingIsLost == TableSpec => NeverLost
<1> DEFINE Kept == \A args \in ArgLists :
              Exact(graph, args) => HasHandler(graph', evaluateCommandArguments(graph', args))
<1>1. ASSUME TableInv, [TableNext]_tableVars PROVE [Kept]_graph
  <2> SUFFICES ASSUME graph' # graph, NEW args \in ArgLists, Exact(graph, args)
               PROVE  HasHandler(graph', evaluateCommandArguments(graph', args))
    OBVIOUS
  <2>1. PICK s \in DOMAIN Syntaxes, h \in Handlers : addSyntax(s, h)
    BY <1>1 DEF TableNext, tableVars, addCommand, executeCmd
  <2>2. graph' \in TableGraphs /\ Extends(graph, graph')
    BY <1>1, <2>1, TableExtended
  <2>3. graph \in TableGraphs
    BY <1>1 DEF TableInv
  <2>4. Len(args) \in Nat
    BY ArgsAssumption, LenProperties
  <2> QED BY <2>2, <2>3, <2>4, NothingLost DEF TableGraphs
<1> HIDE DEF Kept
<1>2. TableSpec => [][Kept]_graph
  BY <1>1, TableInvAlways, PTL DEF TableSpec
<1> QED BY <1>2 DEF NeverLost, Kept

\* A usage text that does not end, with the mutex held, shows that the
\* syntaxes of the command name things in a circle.
THEOREM StuckInCyclesOnly == TableSpec => []StuckOnlyInCycles
<1>1. ASSUME TableInv PROVE StuckOnlyInCycles
  <2> SUFFICES ASSUME stuck
               PROVE  \E S \in SUBSET UNION {NamesIn(TextOf(j)) : j \in DOMAIN added} :
                         S # {} /\ \A n \in S : \E m \in S : Before(m, n)
    BY DEF StuckOnlyInCycles
  <2>1. graph \in Graphs(TableNames, TableHandlers) /\ Ordered(graph, Known)
    BY <1>1 DEF TableInv, TableGraphs
  <2>2. PICK k \in Nodes(graph) : ~UsageEnds(graph, k)
    BY <1>1 DEF TableInv
  <2>3. PICK S : S # {} /\ \A n \in S : \E m \in S : <<m, n>> \in Known
    BY <2>1, <2>2, StuckHasCycle
  <2>4. \A n \in S : \E m \in S : Before(m, n)
    BY <2>3, KnownBefore
  <2>5. ASSUME NEW n \in S PROVE n \in UNION {NamesIn(TextOf(j)) : j \in DOMAIN added}
    <3>1. PICK m \in S : Before(m, n)
      BY <2>4
    <3>2. PICK j \in DOMAIN added : \E q \in DOMAIN TextOf(j) : TextOf(j)[q] = n /\ n \notin Brackets
      BY <3>1 DEF Before
    <3>3. n \in NamesIn(TextOf(j))
      BY <3>2 DEF NamesIn, ToSet
    <3> QED BY <3>3
  <2> QED BY <2>3, <2>4, <2>5
<1> QED BY <1>1, TableInvAlways, PTL
-----------------------------------------------------------------------------
(***************************************************************************)
(* Ways.  The names x lead from the first node of g to the node n by the   *)
(* nodes v.                                                                *)
(***************************************************************************)
Walks(g, v, x, n) ==
    /\ v \in [0..Len(x) -> Nodes(g)] /\ v[0] = 1 /\ v[Len(x)] = n
    /\ \A p \in 1..Len(x) : v[p] \in ToSet(g.sub[v[p - 1]]) /\ g.name[v[p]] = x[p]

IsWay(g, x, n) == \E v : Walks(g, v, x, n)

\* The ways over the names N that end at a node of S.
WaysTo(N, g, S) == {x \in Seq(N) : \E n \in S : IsWay(g, x, n)}

\* A subnode of k by that name.
IsEdge(g, k, c, n) == n \in ToSet(g.sub[k]) /\ g.name[n] = c

LEMMA EdgeNode ==
    ASSUME NEW N, NEW H, NEW g \in Graphs(N, H), NEW k \in Nodes(g), NEW c, NEW n, IsEdge(g, k, c, n)
    PROVE  n \in Nodes(g)
  BY DEF Graphs, WellFormed, IsEdge

LEMMA WayNil ==
    ASSUME NEW N, NEW H, NEW g \in Graphs(N, H), NEW x, Len(x) = 0, NEW n
    PROVE  IsWay(g, x, n) <=> n = 1
<1>1. ASSUME n = 1 PROVE IsWay(g, x, n)
  <2> DEFINE v == [p \in 0..0 |-> 1]
  <2>1. 1 \in Nodes(g)
    BY GraphTypes
  <2>2. v \in [0..0 -> Nodes(g)] /\ v[0] = 1
    BY <2>1
  <2> HIDE DEF v
  <2>3. Walks(g, v, x, n)
    BY <1>1, <2>2 DEF Walks
  <2> QED BY <2>3 DEF IsWay
<1>2. ASSUME IsWay(g, x, n) PROVE n = 1
  BY <1>2 DEF IsWay, Walks
<1> QED BY <1>1, <1>2

\* A way goes on along an edge.
LEMMA WayGoesOn ==
    ASSUME NEW N, NEW H, NEW g \in Graphs(N, H), NEW x, Len(x) \in Nat, NEW k, IsWay(g, x, k),
           NEW c, NEW n, IsEdge(g, k, c, n), NEW y, Len(y) = Len(x) + 1, y[Len(x) + 1] = c,
           \A p \in 1..Len(x) : y[p] = x[p]
    PROVE  IsWay(g, y, n)
<1> DEFINE m == Len(x)
<1>1. PICK v : Walks(g, v, x, k)
  BY DEF IsWay
<1>2. /\ v \in [0..m -> Nodes(g)] /\ v[0] = 1 /\ v[m] = k
      /\ \A p \in 1..m : v[p] \in ToSet(g.sub[v[p - 1]]) /\ g.name[v[p]] = x[p]
  BY <1>1 DEF Walks
<1>3. m \in Nat /\ m \in 0..m
  OBVIOUS
<1>4. n \in Nodes(g)
  BY <1>2, <1>3, EdgeNode
<1> DEFINE w == [p \in 0..(m + 1) |-> IF p = m + 1 THEN n ELSE v[p]]
<1>5. /\ Len(y) = m + 1 /\ y[m + 1] = c /\ \A p \in 1..m : y[p] = x[p]
  OBVIOUS
<1> HIDE DEF m
<1>6. \A p \in 0..(m + 1) : p \in 0..m \/ p = m + 1
  BY <1>3
<1>7. w \in [0..(m + 1) -> Nodes(g)]
  BY <1>2, <1>4, <1>6
<1>8. w[0] = 1 /\ w[m + 1] = n /\ \A p \in 0..m : w[p] = v[p]
  <2>1. 0 \in 0..(m + 1) /\ 0 # m + 1 /\ m + 1 \in 0..(m + 1) /\ \A p \in 0..m : p \in 0..(m + 1) /\ p # m + 1
    BY <1>3
  <2> QED BY <1>2, <2>1
<1> HIDE DEF w
<1>9. ASSUME NEW p \in 1..(m + 1) PROVE w[p] \in ToSet(g.sub[w[p - 1]]) /\ g.name[w[p]] = y[p]
  <2>1. CASE p = m + 1
    <3>1. p - 1 = m /\ w[m] = k /\ w[p] = n
      BY <1>2, <1>3, <1>8, <2>1
    <3> QED BY <1>5, <2>1, <3>1 DEF IsEdge
  <2>2. CASE p \in 1..m
    <3>1. p - 1 \in 0..m /\ p \in 0..m
      BY <1>3, <2>2
    <3> QED BY <1>2, <1>5, <1>8, <2>2, <3>1
  <2> QED BY <1>3, <2>1, <2>2
<1>10. Walks(g, w, y, n)
  BY <1>5, <1>7, <1>8, <1>9 DEF Walks
<1> QED BY <1>10 DEF IsWay

\* The last step of a way.
LEMMA WayEnds ==
    ASSUME NEW N, NEW H, NEW g \in Graphs(N, H), NEW x, Len(x) \in Nat, NEW y, Len(y) = Len(x) + 1,
           \A p \in 1..Len(x) : y[p] = x[p], NEW n, IsWay(g, y, n)
    PROVE  \E k \in Nodes(g) : IsWay(g, x, k) /\ IsEdge(g, k, y[Len(x) + 1], n)
<1> DEFINE m == Len(x)
<1>1. PICK w : Walks(g, w, y, n)
  BY DEF IsWay
<1>3. m \in Nat /\ m \in 0..(m + 1) /\ Len(y) = m + 1 /\ \A p \in 1..m : y[p] = x[p]
  OBVIOUS
<1> HIDE DEF m
<1>2. /\ w \in [0..(m + 1) -> Nodes(g)] /\ w[0] = 1 /\ w[m + 1] = n
      /\ \A p \in 1..(m + 1) : w[p] \in ToSet(g.sub[w[p - 1]]) /\ g.name[w[p]] = y[p]
  BY <1>1, <1>3 DEF Walks
<1> DEFINE v == [p \in 0..m |-> w[p]]
           k == w[m]
<1>4. k \in Nodes(g) /\ IsEdge(g, k, y[m + 1], n)
  <2>1. m + 1 \in 1..(m + 1) /\ (m + 1) - 1 = m
    BY <1>3
  <2> QED BY <1>2, <1>3, <2>1 DEF IsEdge
<1>5. v \in [0..m -> Nodes(g)] /\ v[0] = 1 /\ v[m] = k /\ \A p \in 0..m : v[p] = w[p]
  <2>1. \A p \in 0..m : p \in 0..(m + 1)
    BY <1>3
  <2>2. 0 \in 0..m /\ m \in 0..m
    BY <1>3
  <2> QED BY <1>2, <2>1, <2>2
<1> HIDE DEF v, k
<1>6. ASSUME NEW p \in 1..m PROVE v[p] \in ToSet(g.sub[v[p - 1]]) /\ g.name[v[p]] = x[p]
  <2>1. p \in 0..m /\ p - 1 \in 0..m /\ p \in 1..(m + 1)
    BY <1>3
  <2> QED BY <1>2, <1>3, <1>5, <2>1
<1>7. Walks(g, v, x, k)
  BY <1>5, <1>6 DEF Walks, m
<1> QED BY <1>4, <1>7 DEF IsWay, m

\* A sequence that is not empty is one that something is appended to.
LEMMA LastOff ==
    ASSUME NEW N, NEW y \in Seq(N), Len(y) # 0
    PROVE  \E x \in Seq(N) : \E c \in N : Len(x) = Len(y) - 1 /\ y = Append(x, c)
<1>0. PICK m \in Nat : Len(y) = m + 1
  <2>1. Len(y) \in Nat
    BY LenProperties
  <2>2. Len(y) - 1 \in Nat /\ Len(y) = (Len(y) - 1) + 1
    BY <2>1
  <2> QED BY <2>2
<1> DEFINE x == [p \in 1..m |-> y[p]]
           c == y[m + 1]
<1>1. \A p \in 1..(m + 1) : y[p] \in N
  BY <1>0, LenProperties
<1>2. \A p \in 1..m : p \in 1..(m + 1)
  OBVIOUS
<1>3. x \in Seq(N) /\ Len(x) = m
  BY <1>1, <1>2
<1>4. \A p \in 1..m : y[p] = x[p]
  OBVIOUS
<1>5. c \in N /\ c = y[m + 1]
  BY <1>1
<1> HIDE DEF x, c
<1>6. /\ Append(x, c) \in Seq(N) /\ Len(Append(x, c)) = m + 1
      /\ \A p \in 1..m : Append(x, c)[p] = x[p]
      /\ Append(x, c)[m + 1] = c
  BY <1>3, <1>5, AppendProperties
<1>7. y = Append(x, c)
  <2>1. \A p \in 1..(m + 1) : p \in 1..m \/ p = m + 1
    OBVIOUS
  <2>2. \A p \in 1..(m + 1) : y[p] = Append(x, c)[p]
    BY <1>4, <1>5, <1>6, <2>1
  <2> QED BY <1>0, <1>6, <2>2, SeqEqual
<1> QED BY <1>0, <1>3, <1>5, <1>7

LEMMA WayAppended ==
    ASSUME NEW N, NEW H, NEW g \in Graphs(N, H), NEW x \in Seq(N), NEW c \in N, NEW n
    PROVE  IsWay(g, Append(x, c), n) <=> \E k \in Nodes(g) : IsWay(g, x, k) /\ IsEdge(g, k, c, n)
<1>1. /\ Len(x) \in Nat /\ Len(Append(x, c)) = Len(x) + 1 /\ Append(x, c)[Len(x) + 1] = c
      /\ \A p \in 1..Len(x) : Append(x, c)[p] = x[p]
  BY AppendProperties, LenProperties
<1>2. PICK y : y = Append(x, c)
  OBVIOUS
<1>3. /\ Len(x) \in Nat /\ Len(y) = Len(x) + 1 /\ y[Len(x) + 1] = c
      /\ \A p \in 1..Len(x) : y[p] = x[p]
  BY <1>1, <1>2
<1>4. ASSUME IsWay(g, y, n) PROVE \E k \in Nodes(g) : IsWay(g, x, k) /\ IsEdge(g, k, c, n)
  BY <1>3, <1>4, WayEnds
<1>5. ASSUME NEW k \in Nodes(g), IsWay(g, x, k), IsEdge(g, k, c, n) PROVE IsWay(g, y, n)
  BY <1>3, <1>5, WayGoesOn
<1> QED BY <1>2, <1>4, <1>5

\* A way ends at a node, and at one only.
LEMMA WayNode ==
    ASSUME NEW g, NEW x, Len(x) \in Nat, NEW n, IsWay(g, x, n)
    PROVE  n \in Nodes(g)
<1>1. PICK v : v \in [0..Len(x) -> Nodes(g)] /\ v[Len(x)] = n
  BY DEF IsWay, Walks
<1>2. Len(x) \in 0..Len(x)
  OBVIOUS
<1> QED BY <1>1, <1>2

LEMMA WayUnique ==
    ASSUME NEW N, NEW H, NEW g \in Graphs(N, H), NEW x, Len(x) \in Nat,
           NEW m, IsWay(g, x, m), NEW n, IsWay(g, x, n)
    PROVE  m = n
<1>1. PICK v : Walks(g, v, x, m)
  BY DEF IsWay
<1>2. PICK w : Walks(g, w, x, n)
  BY DEF IsWay
<1> DEFINE l == Len(x)
           D == {p \in 0..l : v[p] = w[p]}
<1>3. 0 \in D
  BY <1>1, <1>2 DEF Walks
<1>4. ASSUME NEW p \in 1..l, p - 1 \in D PROVE p \in D
  <2>1. v[p - 1] = w[p - 1] /\ v[p - 1] \in Nodes(g)
    <3>1. p - 1 \in 0..l
      OBVIOUS
    <3> QED BY <1>1, <1>4, <3>1 DEF Walks
  <2>2. /\ v[p] \in ToSet(g.sub[v[p - 1]]) /\ g.name[v[p]] = x[p]
        /\ w[p] \in ToSet(g.sub[w[p - 1]]) /\ g.name[w[p]] = x[p]
    BY <1>1, <1>2 DEF Walks
  <2>3. v[p] = w[p]
    BY <2>1, <2>2 DEF Graphs, WellFormed
  <2>4. p \in 0..l
    OBVIOUS
  <2> QED BY <2>3, <2>4
<1>5. l \in D
  <2> HIDE DEF D
  <2>1. \A p \in 0..l : p \in D
    BY <1>3, <1>4, UpTo
  <2> QED BY <2>1
<1> QED BY <1>1, <1>2, <1>5 DEF Walks
-----------------------------------------------------------------------------
(***************************************************************************)
(* Growing.  h is g with more nodes, none of which has a handler or leads  *)
(* to a node of g: the ways to the nodes of g stay as they are.            *)
(***************************************************************************)
Grows(g, h) ==
    /\ Len(g.name) <= Len(h.name)
    /\ \A k \in Nodes(g) : h.name[k] = g.name[k] /\ h.handler[k] = g.handler[k]
    /\ \A k \in Nodes(h) : \A n \in Nodes(g) : n \in ToSet(h.sub[k]) <=> k \in Nodes(g) /\ n \in ToSet(g.sub[k])
    /\ \A k \in Nodes(h) : k \notin Nodes(g) => h.handler[k] = NoHandler

LEMMA GrowsReflexive ==
    ASSUME NEW N, NEW H, NEW g \in Graphs(N, H)
    PROVE  Grows(g, g)
  BY GraphTypes DEF Grows

LEMMA GrowsNodes ==
    ASSUME NEW N, NEW H, NEW g \in Graphs(N, H), NEW h \in Graphs(N, H), Grows(g, h)
    PROVE  Nodes(g) \subseteq Nodes(h)
<1>1. Len(g.name) \in Nat /\ Len(h.name) \in Nat
  BY GraphTypes
<1> QED BY <1>1 DEF Grows, Nodes

LEMMA GrowsTransitive ==
    ASSUME NEW N, NEW H, NEW f \in Graphs(N, H), NEW g \in Graphs(N, H), NEW h \in Graphs(N, H),
           Grows(f, g), Grows(g, h)
    PROVE  Grows(f, h)
<1>1. Len(f.name) \in Nat /\ Len(g.name) \in Nat /\ Len(h.name) \in Nat
  BY GraphTypes
<1>2. Nodes(f) \subseteq Nodes(g) /\ Nodes(g) \subseteq Nodes(h)
  BY GrowsNodes
<1>3. Len(f.name) <= Len(h.name)
  BY <1>1 DEF Grows
<1>4. \A k \in Nodes(f) : h.name[k] = f.name[k] /\ h.handler[k] = f.handler[k]
  BY <1>2 DEF Grows
<1>5. ASSUME NEW k \in Nodes(h), NEW n \in Nodes(f)
      PROVE  n \in ToSet(h.sub[k]) <=> k \in Nodes(f) /\ n \in ToSet(f.sub[k])
  <2>1. n \in ToSet(h.sub[k]) <=> k \in Nodes(g) /\ n \in ToSet(g.sub[k])
    BY <1>2 DEF Grows
  <2>2. k \in Nodes(g) => (n \in ToSet(g.sub[k]) <=> k \in Nodes(f) /\ n \in ToSet(f.sub[k]))
    BY DEF Grows
  <2> QED BY <1>2, <2>1, <2>2
<1>6. ASSUME NEW k \in Nodes(h), k \notin Nodes(f) PROVE h.handler[k] = NoHandler
  <2>1. CASE k \in Nodes(g)
    <3>1. g.handler[k] = NoHandler
      BY <1>6, <2>1 DEF Grows
    <3> QED BY <2>1, <3>1 DEF Grows
  <2>2. CASE k \notin Nodes(g)
    BY <2>2 DEF Grows
  <2> QED BY <2>1, <2>2
<1> QED BY <1>3, <1>4, <1>5, <1>6 DEF Grows

LEMMA EdgeGrows ==
    ASSUME NEW N, NEW H, NEW g \in Graphs(N, H), NEW h \in Graphs(N, H), Grows(g, h),
           NEW k \in Nodes(h), NEW n \in Nodes(g), NEW c
    PROVE  IsEdge(h, k, c, n) <=> k \in Nodes(g) /\ IsEdge(g, k, c, n)
  BY DEF Grows, IsEdge

\* The ways of length m to nodes of g are the same in g and in h.
SameWays(N, g, h, m) ==
    \A x \in Seq(N) : Len(x) = m => \A n \in Nodes(g) : IsWay(h, x, n) <=> IsWay(g, x, n)

LEMMA WayGrows ==
    ASSUME NEW N, NEW H, NEW g \in Graphs(N, H), NEW h \in Graphs(N, H), Grows(g, h),
           NEW x \in Seq(N), NEW n \in Nodes(g)
    PROVE  IsWay(h, x, n) <=> IsWay(g, x, n)
<1> DEFINE D == {m \in 0..Len(x) : SameWays(N, g, h, m)}
<1>1. Len(x) \in Nat /\ Nodes(g) \subseteq Nodes(h)
  BY LenProperties, GrowsNodes
<1>2. 0 \in D
  <2>1. SameWays(N, g, h, 0)
    BY WayNil DEF SameWays
  <2> QED BY <1>1, <2>1
<1>3. ASSUME NEW m \in 1..Len(x), m - 1 \in D PROVE m \in D
  <2>1. ASSUME NEW y \in Seq(N), Len(y) = m, NEW j \in Nodes(g)
        PROVE  IsWay(h, y, j) <=> IsWay(g, y, j)
    <3>1. Len(y) # 0 /\ Len(y) = m
      BY <1>1, <2>1
    <3>2. PICK z \in Seq(N) : \E c \in N : Len(z) = Len(y) - 1 /\ y = Append(z, c)
      BY <3>1, LastOff
    <3>3. PICK c \in N : y = Append(z, c) /\ Len(z) = m - 1
      BY <3>1, <3>2
    <3>4. \A k \in Nodes(g) : IsWay(h, z, k) <=> IsWay(g, z, k)
      BY <1>3, <3>3 DEF SameWays
    <3>5. IsWay(h, y, j) <=> \E k \in Nodes(h) : IsWay(h, z, k) /\ IsEdge(h, k, c, j)
      BY <3>3, WayAppended
    <3>6. IsWay(g, y, j) <=> \E k \in Nodes(g) : IsWay(g, z, k) /\ IsEdge(g, k, c, j)
      BY <3>3, WayAppended
    <3>7. \A k \in Nodes(h) : IsEdge(h, k, c, j) <=> k \in Nodes(g) /\ IsEdge(g, k, c, j)
      BY EdgeGrows
    <3> QED BY <1>1, <3>4, <3>5, <3>6, <3>7
  <2>2. SameWays(N, g, h, m)
    BY <2>1 DEF SameWays
  <2> QED BY <1>1, <2>2
<1>4. Len(x) \in D
  <2> HIDE DEF D
  <2>1. \A m \in 0..Len(x) : m \in D
    BY <1>1, <1>2, <1>3, UpTo
  <2> QED BY <1>1, <2>1
<1> QED BY <1>4 DEF SameWays

LEMMA WaysGrow ==
    ASSUME NEW N, NEW H, NEW g \in Graphs(N, H), NEW h \in Graphs(N, H), Grows(g, h),
           NEW S, S \subseteq Nodes(g)
    PROVE  WaysTo(N, h, S) = WaysTo(N, g, S)
<1>1. \A x \in Seq(N) : \A n \in S : IsWay(h, x, n) <=> IsWay(g, x, n)
  BY WayGrows
<1> QED BY <1>1 DEF WaysTo

\* h is g with a node c more, which the nodes of S lead to and no other.
NodeBelow(g, h, c, S) ==
    LET n == Len(g.name) + 1
    IN  /\ Len(h.name) = n /\ h.name[n] = c /\ h.handler[n] = NoHandler /\ ToSet(h.sub[n]) = {}
        /\ \A k \in Nodes(g) : /\ h.name[k] = g.name[k] /\ h.handler[k] = g.handler[k]
                               /\ ToSet(h.sub[k]) = ToSet(g.sub[k]) \cup (IF k \in S THEN {n} ELSE {})

\* r is such a graph over N and H with that node.
IsBelow(N, H, g, c, S, r) ==
    \E h \in Graphs(N, H) : NodeBelow(g, h, c, S) /\ r = [graph |-> h, node |-> Len(g.name) + 1]

Fresh(g, c) == \A k \in Nodes(g) : g.name[k] # c

LEMMA NilSet ==
    ASSUME NEW S
    PROVE  \E e \in Seq(S) : e = <<>> /\ ToSet(e) = {}
<1>1. PICK e \in Seq(S) : e = <<>> /\ Len(e) = 0
  BY EmptySeq
<1>2. ToSet(e) = {e[p] : p \in 1..Len(e)}
  BY ToSetOf
<1>3. ToSet(e) = {}
  BY <1>1, <1>2
<1> QED BY <1>1, <1>3

LEMMA NodeNew ==
    ASSUME NEW N, NEW H, NoHandler \in H, NEW g \in Graphs(N, H), NEW c \in N, NEW h, h = NewNode(g, c)
    PROVE  h \in Graphs(N, H) /\ NodeBelow(g, h, c, {})
<1> DEFINE m == Len(g.name)
<1>1. /\ m \in Nat /\ g.name \in Seq(N) /\ g.sub \in Seq(Seq(Nat)) /\ g.handler \in Seq(H)
      /\ Len(g.sub) = m /\ Len(g.handler) = m /\ Nodes(g) = 1..m
  BY GraphTypes
<1>2. PICK e \in Seq(Nat) : e = <<>> /\ ToSet(e) = {}
  BY NilSet
<1>3. /\ h.name = Append(g.name, c) /\ h.sub = Append(g.sub, e) /\ h.handler = Append(g.handler, NoHandler)
  BY <1>2 DEF NewNode
<1>4. /\ Len(h.name) = m + 1 /\ h.name[m + 1] = c /\ \A k \in 1..m : h.name[k] = g.name[k]
  <2>1. PICK s \in Seq(N) : s = g.name /\ Len(s) = m
    BY <1>1
  <2>2. /\ Len(Append(s, c)) = Len(s) + 1 /\ Append(s, c)[Len(s) + 1] = c
        /\ \A k \in 1..Len(s) : Append(s, c)[k] = s[k]
    BY AppendProperties
  <2> QED BY <1>3, <2>1, <2>2
<1>5. h.sub[m + 1] = e /\ \A k \in 1..m : h.sub[k] = g.sub[k]
  <2>1. PICK s \in Seq(Seq(Nat)) : s = g.sub /\ Len(s) = m
    BY <1>1
  <2>2. /\ Len(Append(s, e)) = Len(s) + 1 /\ Append(s, e)[Len(s) + 1] = e
        /\ \A k \in 1..Len(s) : Append(s, e)[k] = s[k]
    BY AppendProperties
  <2> QED BY <1>3, <2>1, <2>2
<1>6. h.handler[m + 1] = NoHandler /\ \A k \in 1..m : h.handler[k] = g.handler[k]
  <2>1. PICK s \in Seq(H) : s = g.handler /\ Len(s) = m
    BY <1>1
  <2>2. /\ Len(Append(s, NoHandler)) = Len(s) + 1 /\ Append(s, NoHandler)[Len(s) + 1] = NoHandler
        /\ \A k \in 1..Len(s) : Append(s, NoHandler)[k] = s[k]
    BY AppendProperties
  <2> QED BY <1>3, <2>1, <2>2
<1>7. h \in Graphs(N, H)
  BY NodeAdded
<1> QED BY <1>1, <1>2, <1>4, <1>5, <1>6, <1>7 DEF NodeBelow

\* One more node leads to it.
LEMMA NodeBelowMore ==
    ASSUME NEW N, NEW H, NEW g \in Graphs(N, H), NEW h \in Graphs(N, H), NEW c, Fresh(g, c),
           NEW S, NodeBelow(g, h, c, S), NEW k \in Nodes(g), NEW n, n = Len(g.name) + 1,
           NEW e, e = addCreatedSubnodeIfNotExist(h, k, n)
    PROVE  e \in Graphs(N, H) /\ NodeBelow(g, e, c, S \cup {k})
<1>1. Len(g.name) \in Nat /\ Nodes(g) = 1..Len(g.name) /\ Nodes(h) = 1..Len(h.name)
  BY GraphTypes
<1>2. /\ Len(h.name) = n /\ h.name[n] = c /\ h.handler[n] = NoHandler /\ ToSet(h.sub[n]) = {}
      /\ \A j \in Nodes(g) : /\ h.name[j] = g.name[j] /\ h.handler[j] = g.handler[j]
                             /\ ToSet(h.sub[j]) = ToSet(g.sub[j]) \cup (IF j \in S THEN {n} ELSE {})
  BY DEF NodeBelow
<1>3. k \in Nodes(h) /\ n \in Nodes(h) /\ k # n
  BY <1>1, <1>2
<1>4. e \in Graphs(N, H)
  BY <1>3, NodeLinked
<1>5. CASE findSubnode(h, k, c) # 0
  <2>1. e = h
    BY <1>2, <1>5 DEF addCreatedSubnodeIfNotExist
  <2>2. findSubnode(h, k, c) \in ToSet(h.sub[k]) /\ h.name[findSubnode(h, k, c)] = c
    BY <1>3, <1>5, SubnodeFound
  <2>3. findSubnode(h, k, c) \notin Nodes(g)
    BY <1>2, <2>2 DEF Fresh
  <2>4. ToSet(g.sub[k]) \subseteq Nodes(g)
    BY DEF Graphs, WellFormed
  <2>5. k \in S
    BY <1>2, <2>2, <2>3, <2>4
  <2>6. S \cup {k} = S
    BY <2>5
  <2> QED BY <1>4, <2>1, <2>6
<1>6. CASE findSubnode(h, k, c) = 0
  <2>1. e = WithEdge(h, k, n)
    BY <1>2, <1>6 DEF addCreatedSubnodeIfNotExist, WithEdge
  <2>2. /\ h = [name |-> h.name, sub |-> h.sub, handler |-> h.handler]
        /\ h.sub \in [Nodes(h) -> Seq(Nat)]
    BY GraphTypes
  <2>3. n \in Nat
    BY <1>1
  <2>4. PICK d \in Seq(Nat) : d = Append(h.sub[k], n) /\ ToSet(d) = ToSet(h.sub[k]) \cup {n}
    <3>1. h.sub[k] \in Seq(Nat)
      BY <1>3, <2>2
    <3>2. Append(h.sub[k], n) \in Seq(Nat)
      BY <2>3, <3>1, AppendProperties
    <3>3. ToSet(Append(h.sub[k], n)) = ToSet(h.sub[k]) \cup {n}
      BY <2>3, <3>1, ToSetAppend
    <3> QED BY <3>2, <3>3
  <2>5. PICK f : f = [h.sub EXCEPT ![k] = d]
    OBVIOUS
  <2>6. e = [name |-> h.name, sub |-> f, handler |-> h.handler]
    BY <2>1, <2>2, <2>4, <2>5 DEF WithEdge
  <2>7. e.name = h.name /\ e.handler = h.handler /\ e.sub = f
    BY <2>6
  <2>8. f[k] = d /\ \A j \in Nodes(h) : j # k => f[j] = h.sub[j]
    BY <1>3, <2>2, <2>5
  <2>9. ToSet(e.sub[n]) = {}
    BY <1>2, <1>3, <2>7, <2>8
  <2>10. ASSUME NEW j \in Nodes(g)
         PROVE  ToSet(e.sub[j]) = ToSet(g.sub[j]) \cup (IF j \in S \cup {k} THEN {n} ELSE {})
    <3>1. CASE j = k
      BY <1>2, <2>4, <2>7, <2>8, <3>1
    <3>2. CASE j # k
      <4>1. j \in Nodes(h)
        BY <1>1, <1>2
      <4> QED BY <1>2, <2>7, <2>8, <3>2, <4>1
    <3> QED BY <3>1, <3>2
  <2>11. NodeBelow(g, e, c, S \cup {k})
    BY <1>2, <2>7, <2>9, <2>10 DEF NodeBelow
  <2> QED BY <1>4, <2>11
<1> QED BY <1>5, <1>6

LEMMA NodeCreatedBelow ==
    ASSUME NEW N, NEW H, NoHandler \in H, NEW g \in Graphs(N, H), NEW c \in N, Fresh(g, c),
           NEW k \in Nodes(g), NEW r, r = createAndAddNewSubnodeIfNotExist(g, k, c)
    PROVE  IsBelow(N, H, g, c, {k}, r)
<1> DEFINE n == Len(g.name) + 1
           e == NewNode(g, c)
           h == addCreatedSubnodeIfNotExist(e, k, n)
<1>1. findSubnode(g, k, c) = 0
  <2>1. ToSet(g.sub[k]) \subseteq Nodes(g)
    BY DEF Graphs, WellFormed
  <2> QED BY <2>1, SubnodeFound DEF Fresh
<1>2. r = [graph |-> h, node |-> n]
  BY <1>1 DEF createAndAddNewSubnodeIfNotExist
<1>3. e \in Graphs(N, H) /\ NodeBelow(g, e, c, {})
  BY NodeNew
<1>4. e \in Graphs(N, H) /\ NodeBelow(g, e, c, {}) /\ n = Len(g.name) + 1 /\ h = addCreatedSubnodeIfNotExist(e, k, n)
  BY <1>3
<1> HIDE DEF n, e, h
<1>5. h \in Graphs(N, H) /\ NodeBelow(g, h, c, {} \cup {k})
  BY <1>4, NodeBelowMore
<1>6. {} \cup {k} = {k}
  OBVIOUS
<1> QED BY <1>2, <1>4, <1>5, <1>6 DEF IsBelow

\* A name that no node has gets a node below the last nodes.
LEMMA FreshAppended ==
    ASSUME NEW N, NEW H, NoHandler \in H, NEW g \in Graphs(N, H), NEW c \in N, Fresh(g, c),
           NEW last \in Seq(Nodes(g)), last # <<>>, NEW r, r = appendNewNodeToLastNodes(g, last, c)
    PROVE  IsBelow(N, H, g, c, ToSet(last), r)
<1> DEFINE l == Len(last)
           n == Len(g.name) + 1
<1>1. /\ l \in Nat /\ l # 0 /\ (\A p \in 1..l : last[p] \in Nodes(g)) /\ ToSet(last) = {last[p] : p \in 1..l}
      /\ Len(g.name) \in Nat
  BY EmptySeq, LenProperties, ToSetOf, GraphTypes
<1>2. PICK R : /\ R = [p \in 0..l |->
                      IF p = 0 THEN [graph |-> g, node |-> 0] ELSE AppendTo(R[p - 1], last[p], c)]
               /\ r = R[l]
  BY <1>1, AppendedSoFar
<1> HIDE DEF l
<1>3. R[0] = [graph |-> g, node |-> 0] /\ \A p \in 1..l : R[p] = AppendTo(R[p - 1], last[p], c)
  <2>1. 0 \in 0..l /\ \A p \in 1..l : p \in 0..l /\ p # 0
    BY <1>1
  <2> QED BY <1>2, <2>1
<1> DEFINE S(p) == {last[i] : i \in 1..p}
           Is(p) == IsBelow(N, H, g, c, S(p), R[p])
           D == {p \in 0..l : p # 0 => Is(p)}
<1>4. 0 \in D
  BY <1>1
<1>5. ASSUME NEW p \in 1..l, p - 1 \in D PROVE p \in D
  <2> DEFINE k == last[p]
  <2>1. k \in Nodes(g) /\ R[p] = AppendTo(R[p - 1], k, c) /\ p \in 0..l
    BY <1>1, <1>3
  <2>2. S(p) = S(p - 1) \cup {k}
    <3>1. \A i \in 1..p : i \in 1..(p - 1) \/ i = p
      BY <1>1
    <3>2. \A i \in 1..(p - 1) : i \in 1..p
      BY <1>1
    <3> QED BY <3>1, <3>2
  <2> HIDE DEF k
  <2>3. CASE p = 1
    <3>1. R[p - 1].graph = g /\ R[p - 1].node = 0
      BY <1>3, <2>3
    <3>2. R[p] = createAndAddNewSubnodeIfNotExist(g, k, c)
      BY <2>1, <3>1 DEF AppendTo
    <3>3. IsBelow(N, H, g, c, {k}, R[p])
      <4> HIDE DEF D
      <4> QED BY <2>1, <3>2, NodeCreatedBelow
    <3>4. S(p - 1) = {}
      BY <2>3
    <3> QED BY <2>1, <2>2, <3>3, <3>4
  <2>4. CASE p # 1
    <3>1. p - 1 \in 1..l /\ p - 1 # 0
      BY <1>1, <2>4
    <3>2. Is(p - 1)
      BY <1>5, <3>1
    <3>3. PICK q \in Graphs(N, H) : NodeBelow(g, q, c, S(p - 1)) /\ R[p - 1] = [graph |-> q, node |-> n]
      BY <3>2 DEF IsBelow
    <3>4. n # 0 /\ n # k
      <4>1. n # 0 /\ n \notin Nodes(g)
        BY <1>1 DEF Nodes
      <4> QED BY <2>1, <4>1
    <3> HIDE DEF S
    <3>5. R[p - 1].graph = q /\ R[p - 1].node = n
      BY <3>3
    <3>6. R[p] = [R[p - 1] EXCEPT !.graph = addCreatedSubnodeIfNotExist(@, k, R[p - 1].node)]
      BY <2>1, <3>4, <3>5 DEF AppendTo
    <3>7. PICK e : e = addCreatedSubnodeIfNotExist(q, k, n)
      OBVIOUS
    <3>8. e \in Graphs(N, H) /\ NodeBelow(g, e, c, S(p - 1) \cup {k})
      BY <2>1, <3>3, <3>7, NodeBelowMore
    <3>9. R[p] = [graph |-> e, node |-> n]
      BY <3>3, <3>5, <3>6, <3>7
    <3> QED BY <2>1, <2>2, <3>8, <3>9 DEF IsBelow
  <2> QED BY <2>3, <2>4
<1>6. l \in D
  <2> HIDE DEF D
  <2>1. \A p \in 0..l : p \in D
    BY <1>1, <1>4, <1>5, UpTo
  <2> QED BY <1>1, <2>1
<1> QED BY <1>1, <1>2, <1>6

LEMMA BelowGrows ==
    ASSUME NEW N, NEW H, NEW g \in Graphs(N, H), NEW h \in Graphs(N, H), NEW c, NEW S,
           NodeBelow(g, h, c, S)
    PROVE  /\ Grows(g, h) /\ Nodes(h) = Nodes(g) \cup {Len(g.name) + 1} /\ Len(g.name) + 1 \notin Nodes(g)
           /\ h.name[Len(g.name) + 1] = c
<1> DEFINE n == Len(g.name) + 1
<1>1. Len(g.name) \in Nat /\ Len(h.name) = n
  BY GraphTypes DEF NodeBelow
<1>2. /\ h.name[n] = c /\ h.handler[n] = NoHandler /\ ToSet(h.sub[n]) = {}
      /\ \A k \in Nodes(g) : /\ h.name[k] = g.name[k] /\ h.handler[k] = g.handler[k]
                             /\ ToSet(h.sub[k]) = ToSet(g.sub[k]) \cup (IF k \in S THEN {n} ELSE {})
  BY DEF NodeBelow
<1>3. Nodes(h) = Nodes(g) \cup {n} /\ n \notin Nodes(g) /\ Len(g.name) <= Len(h.name)
  BY <1>1 DEF Nodes
<1> HIDE DEF n
<1>4. ASSUME NEW k \in Nodes(h), NEW j \in Nodes(g)
      PROVE  j \in ToSet(h.sub[k]) <=> k \in Nodes(g) /\ j \in ToSet(g.sub[k])
  BY <1>2, <1>3
<1>5. Grows(g, h)
  BY <1>2, <1>3, <1>4 DEF Grows
<1> QED BY <1>2, <1>3, <1>5 DEF n

\* The ways to the new node.
LEMMA BelowWays ==
    ASSUME NEW N, NEW H, NEW g \in Graphs(N, H), NEW h \in Graphs(N, H), NEW c \in N,
           NEW S, S \subseteq Nodes(g), NodeBelow(g, h, c, S), NEW n, n = Len(g.name) + 1
    PROVE  WaysTo(N, h, {n}) = {Append(x, c) : x \in WaysTo(N, g, S)}
<1>1. Grows(g, h) /\ Nodes(h) = Nodes(g) \cup {n} /\ n \notin Nodes(g) /\ h.name[n] = c
  BY BelowGrows
<1>2. /\ ToSet(h.sub[n]) = {}
      /\ \A k \in Nodes(g) : ToSet(h.sub[k]) = ToSet(g.sub[k]) \cup (IF k \in S THEN {n} ELSE {})
  BY DEF NodeBelow
<1>3. \A k \in Nodes(g) : n \notin ToSet(g.sub[k])
  BY <1>1 DEF Graphs, WellFormed
<1>4. \A k \in Nodes(h) : n \in ToSet(h.sub[k]) <=> k \in S
  BY <1>1, <1>2, <1>3
<1>5. ASSUME NEW x \in WaysTo(N, g, S) PROVE Append(x, c) \in WaysTo(N, h, {n})
  <2>1. PICK k \in S : x \in Seq(N) /\ IsWay(g, x, k)
    BY <1>5 DEF WaysTo
  <2>2. k \in Nodes(g) /\ k \in Nodes(h) /\ IsWay(h, x, k)
    BY <1>1, <2>1, WayGrows
  <2>3. IsEdge(h, k, c, n)
    BY <1>1, <1>4, <2>2 DEF IsEdge
  <2>4. IsWay(h, Append(x, c), n) /\ Append(x, c) \in Seq(N)
    BY <2>1, <2>2, <2>3, WayAppended, AppendProperties
  <2> QED BY <2>4 DEF WaysTo
<1>6. ASSUME NEW y \in WaysTo(N, h, {n}) PROVE \E x \in WaysTo(N, g, S) : y = Append(x, c)
  <2>1. y \in Seq(N) /\ IsWay(h, y, n)
    BY DEF WaysTo
  <2>2. Len(y) # 0
    <3>1. 1 \in Nodes(g)
      BY GraphTypes
    <3> QED BY <1>1, <2>1, <3>1, WayNil
  <2>3. PICK x \in Seq(N), d \in N : y = Append(x, d)
    BY <2>1, <2>2, LastOff
  <2>4. PICK k \in Nodes(h) : IsWay(h, x, k) /\ IsEdge(h, k, d, n)
    BY <2>1, <2>3, WayAppended
  <2>5. d = c /\ k \in S
    BY <1>1, <1>4, <2>4 DEF IsEdge
  <2>6. IsWay(g, x, k)
    BY <1>1, <2>4, <2>5, WayGrows
  <2> QED BY <2>3, <2>5, <2>6 DEF WaysTo
<1> QED BY <1>5, <1>6
-----------------------------------------------------------------------------
(***************************************************************************)
(* A syntax and its meaning, token by token.                               *)
(***************************************************************************)
WaySets(N) == SUBSET Seq(N)

Readings(N) == [ways : WaySets(N), open : Seq([before : WaySets(N), through : WaySets(N)]), wrong : BOOLEAN]

\* What the splitting s has made and what the meaning r says.
SameCall(N, g, c, o) ==
    /\ WaysTo(N, g, ToSet(c.last)) = o.before
    /\ WaysTo(N, g, ToSet(c.newLast)) = o.through

Agree(N, s, r) ==
    /\ s.failed = r.wrong
    /\ WaysTo(N, s.graph, ToSet(s.last)) = r.ways
    /\ Len(s.calls) = Len(r.open)
    /\ \A d \in 1..Len(s.calls) : SameCall(N, s.graph, s.calls[d], r.open[d])

LEMMA WaysUnion ==
    ASSUME NEW N, NEW g, NEW S, NEW T
    PROVE  WaysTo(N, g, S \cup T) = WaysTo(N, g, S) \cup WaysTo(N, g, T) /\ WaysTo(N, g, {}) = {}
  BY DEF WaysTo

\* The parts of a splitting.
LEMMA SplitTypes ==
    ASSUME NEW N, NEW H, NEW S, NEW s \in Splits(N, H, S)
    PROVE  /\ s.graph \in Graphs(N, H) /\ s.failed \in BOOLEAN
           /\ s = [graph |-> s.graph, last |-> s.last, calls |-> s.calls, failed |-> s.failed]
           /\ s.last \in Seq(Nodes(s.graph)) /\ s.last # <<>>
           /\ s.calls \in Seq(Calls(Nodes(s.graph)))
<1>1. /\ s.graph \in Graphs(N, H) /\ s.failed \in BOOLEAN
      /\ s = [graph |-> s.graph, last |-> s.last, calls |-> s.calls, failed |-> s.failed]
      /\ s.last \in Seq(Reached(s.graph, S)) /\ s.last # <<>>
      /\ s.calls \in Seq(Calls(Reached(s.graph, S)))
  BY DEF Splits
<1>2. Reached(s.graph, S) \subseteq Nodes(s.graph)
  BY DEF Reached
<1> QED BY <1>1, <1>2, CallsMonotonic

LEMMA ReadingTypes ==
    ASSUME NEW N, NEW r \in Readings(N)
    PROVE  /\ r = [ways |-> r.ways, open |-> r.open, wrong |-> r.wrong]
           /\ r.ways \in WaySets(N) /\ r.wrong \in BOOLEAN
           /\ r.open \in Seq([before : WaySets(N), through : WaySets(N)])
  BY DEF Readings

OpenedReading(r, c) ==
    [r EXCEPT !.open = Append(@, [before  |-> r.ways, through |-> IF c = "[" THEN r.ways ELSE {}])]

LEMMA OpenAgrees ==
    ASSUME NEW N, NEW H, NEW S, NEW s \in Splits(N, H, S), NEW r \in Readings(N), Agree(N, s, r), NEW c,
           NEW s2, s2 = OpenBracket(s, c), NEW r2, r2 = OpenedReading(r, c)
    PROVE  r2 \in Readings(N) /\ Agree(N, s2, r2)
<1> DEFINE g == s.graph
           V == Nodes(g)
           O == [before : WaySets(N), through : WaySets(N)]
<1>1. /\ s = [graph |-> g, last |-> s.last, calls |-> s.calls, failed |-> s.failed]
      /\ s.last \in Seq(V) /\ s.last # <<>> /\ s.calls \in Seq(Calls(V))
  BY SplitTypes
<1>2. /\ r = [ways |-> r.ways, open |-> r.open, wrong |-> r.wrong]
      /\ r.ways \in WaySets(N) /\ r.wrong \in BOOLEAN /\ r.open \in Seq(O)
  BY ReadingTypes
<1>3. /\ s.failed = r.wrong /\ WaysTo(N, g, ToSet(s.last)) = r.ways /\ Len(s.calls) = Len(r.open)
      /\ \A d \in 1..Len(s.calls) : SameCall(N, g, s.calls[d], r.open[d])
  BY DEF Agree
<1>4. PICK nil \in Seq(V) : nil = <<>> /\ ToSet(nil) = {}
  BY NilSet
<1>5. PICK newLast \in Seq(V) : newLast = IF c = "[" THEN s.last ELSE nil
  BY <1>1, <1>4
<1>6. PICK through \in WaySets(N) : through = IF c = "[" THEN r.ways ELSE {}
  BY <1>2 DEF WaySets
<1>7. WaysTo(N, g, ToSet(newLast)) = through
  <2>1. CASE c = "["
    BY <1>3, <1>5, <1>6, <2>1
  <2>2. CASE c # "["
    BY <1>4, <1>5, <1>6, <2>2, WaysUnion
  <2> QED BY <2>1, <2>2
<1>8. PICK e \in Calls(V) : e = [last |-> s.last, newLast |-> newLast]
  BY <1>1 DEF Calls
<1>9. PICK o \in O : o = [before |-> r.ways, through |-> through]
  BY <1>2
<1>10. SameCall(N, g, e, o)
  <2>1. e.last = s.last /\ e.newLast = newLast /\ o.before = r.ways /\ o.through = through
    BY <1>8, <1>9
  <2> QED BY <1>3, <1>7, <2>1 DEF SameCall
<1>11. PICK calls : calls = Append(s.calls, e)
  OBVIOUS
<1>12. PICK open : open = Append(r.open, o)
  OBVIOUS
<1>13. s2 = [graph |-> g, last |-> s.last, calls |-> calls, failed |-> s.failed]
  <2>1. e = [last |-> s.last, newLast |-> IF c = "[" THEN s.last ELSE <<>>]
    BY <1>4, <1>5, <1>8
  <2> QED BY <1>1, <1>11, <2>1 DEF OpenBracket
<1>14. r2 = [ways |-> r.ways, open |-> open, wrong |-> r.wrong]
  <2>1. o = [before |-> r.ways, through |-> IF c = "[" THEN r.ways ELSE {}]
    BY <1>6, <1>9
  <2> QED BY <1>2, <1>12, <2>1 DEF OpenedReading
<1> HIDE DEF g, V, O
<1>15. /\ Len(calls) = Len(s.calls) + 1 /\ calls[Len(s.calls) + 1] = e
       /\ \A d \in 1..Len(s.calls) : calls[d] = s.calls[d]
  BY <1>1, <1>8, <1>11, AppendProperties
<1>16. /\ open \in Seq(O) /\ Len(open) = Len(r.open) + 1 /\ open[Len(r.open) + 1] = o
       /\ \A d \in 1..Len(r.open) : open[d] = r.open[d]
  BY <1>2, <1>9, <1>12, AppendProperties
<1>17. ASSUME NEW d \in 1..Len(calls) PROVE SameCall(N, g, calls[d], open[d])
  <2>1. Len(s.calls) \in Nat
    BY <1>1, LenProperties
  <2>2. d \in 1..Len(s.calls) \/ d = Len(s.calls) + 1
    BY <1>15, <2>1
  <2> QED BY <1>3, <1>10, <1>15, <1>16, <2>2
<1>18. r2 \in Readings(N)
  BY <1>2, <1>14, <1>16 DEF Readings, O
<1>19. s2.graph = g /\ s2.last = s.last /\ s2.calls = calls /\ s2.failed = s.failed
  BY <1>13
<1>20. r2.ways = r.ways /\ r2.open = open /\ r2.wrong = r.wrong
  BY <1>14
<1>21. Agree(N, s2, r2)
  BY <1>3, <1>15, <1>16, <1>17, <1>19, <1>20 DEF Agree
<1> QED BY <1>18, <1>21

EndedReading(r, c) ==
    LET d       == Len(r.open)
        through == r.open[d].through \cup r.ways
    IN  IF c = "|" THEN [r EXCEPT !.ways = r.open[d].before, !.open[d].through = through]
                   ELSE [r EXCEPT !.ways = through, !.open = SubSeq(@, 1, d - 1)]

LEMMA EndAgrees ==
    ASSUME NEW N, NEW H, NEW S, NEW s \in Splits(N, H, S), NEW r \in Readings(N), Agree(N, s, r), NEW c,
           s.calls # <<>>, NEW s2, s2 = EndAlternative(s, c), NEW r2, r2 = EndedReading(r, c)
    PROVE  r2 \in Readings(N) /\ Agree(N, s2, r2)
<1> DEFINE g == s.graph
           V == Nodes(g)
           O == [before : WaySets(N), through : WaySets(N)]
           d == Len(s.calls)
<1>1. /\ s = [graph |-> g, last |-> s.last, calls |-> s.calls, failed |-> s.failed]
      /\ s.last \in Seq(V) /\ s.last # <<>> /\ s.calls \in Seq(Calls(V))
  BY SplitTypes
<1>1a. PICK last0, calls0, failed0 : /\ s = [graph |-> g, last |-> last0, calls |-> calls0, failed |-> failed0]
                                     /\ failed0 = s.failed
  BY <1>1
<1>2. /\ r = [ways |-> r.ways, open |-> r.open, wrong |-> r.wrong]
      /\ r.ways \in WaySets(N) /\ r.wrong \in BOOLEAN /\ r.open \in Seq(O)
  BY ReadingTypes
<1>3. /\ s.failed = r.wrong /\ WaysTo(N, g, ToSet(s.last)) = r.ways /\ Len(r.open) = d
      /\ \A i \in 1..d : SameCall(N, g, s.calls[i], r.open[i])
  BY DEF Agree
<1>4. d \in Nat /\ d \in 1..d /\ s.calls[d] \in Calls(V) /\ r.open[d] \in O
  <2>1. d \in Nat \ {0}
    BY <1>1, EmptySeq
  <2>2. d \in 1..d
    BY <2>1
  <2> QED BY <1>1, <1>2, <1>3, <2>1, <2>2, ElementOfSeq
<1>4a. d = Len(s.calls)
  OBVIOUS
<1> HIDE DEF d
<1>5. PICK e \in Calls(V) : e = s.calls[d] /\ e = [last |-> e.last, newLast |-> e.newLast]
                            /\ e.last \in Seq(V) /\ e.newLast \in Seq(V)
  BY <1>4 DEF Calls
<1>6. PICK o \in O : o = r.open[d] /\ o = [before |-> o.before, through |-> o.through]
                     /\ o.before \in WaySets(N) /\ o.through \in WaySets(N)
  BY <1>4
<1>7. WaysTo(N, g, ToSet(e.last)) = o.before /\ WaysTo(N, g, ToSet(e.newLast)) = o.through
  BY <1>3, <1>4, <1>5, <1>6 DEF SameCall
<1>8. PICK newLast : newLast = Gathered(e.newLast, s.last)
  OBVIOUS
<1>9. newLast \in Seq(V) /\ newLast # <<>> /\ ToSet(newLast) = ToSet(e.newLast) \cup ToSet(s.last)
  <2>1. /\ Gathered(e.newLast, s.last) \in Seq(V) \ {<<>>}
        /\ ToSet(Gathered(e.newLast, s.last)) = ToSet(e.newLast) \cup ToSet(s.last)
    BY <1>1, <1>5, GatheredIn
  <2> QED BY <1>8, <2>1
<1>10. PICK through \in WaySets(N) : through = o.through \cup r.ways
  BY <1>2, <1>6 DEF WaySets
<1>11. WaysTo(N, g, ToSet(newLast)) = through
  BY <1>3, <1>7, <1>9, <1>10, WaysUnion
<1>12. s2 = IF c = "|" THEN [s EXCEPT !.last = e.last, !.calls[d].newLast = newLast]
                       ELSE [s EXCEPT !.last = newLast, !.calls = SubSeq(@, 1, d - 1)]
  BY <1>4a, <1>5, <1>8 DEF EndAlternative
<1>13. r2 = IF c = "|" THEN [r EXCEPT !.ways = o.before, !.open[d].through = through]
                       ELSE [r EXCEPT !.ways = through, !.open = SubSeq(@, 1, d - 1)]
  BY <1>3, <1>6, <1>10 DEF EndedReading
<1> HIDE DEF g, V, O
<1>14. ASSUME NEW last, NEW calls, NEW ways \in WaySets(N), NEW open \in Seq(O),
              s2 = [graph |-> g, last |-> last, calls |-> calls, failed |-> s.failed],
              r2 = [ways |-> ways, open |-> open, wrong |-> r.wrong],
              WaysTo(N, g, ToSet(last)) = ways, Len(calls) = Len(open),
              \A i \in 1..Len(calls) : SameCall(N, g, calls[i], open[i])
       PROVE  r2 \in Readings(N) /\ Agree(N, s2, r2)
  <2>1. r2 \in Readings(N)
    BY <1>2, <1>14 DEF Readings, O
  <2>2. s2.graph = g /\ s2.last = last /\ s2.calls = calls /\ s2.failed = s.failed
    BY <1>14
  <2>3. r2.ways = ways /\ r2.open = open /\ r2.wrong = r.wrong
    BY <1>14
  <2>4. Agree(N, s2, r2)
    BY <1>3, <1>14, <2>2, <2>3 DEF Agree
  <2> QED BY <2>1, <2>4
<1>15. CASE c = "|"
  <2>1. PICK e2 \in Calls(V) : e2 = [last |-> e.last, newLast |-> newLast]
    <3>1. e.last # <<>>
      BY <1>5 DEF Calls
    <3>2. [last |-> e.last, newLast |-> newLast] \in Calls(V)
      BY <1>5, <1>9, <3>1 DEF Calls
    <3> QED BY <3>2
  <2>2. PICK o2 \in O : o2 = [before |-> o.before, through |-> through]
    BY <1>6, <1>10 DEF O
  <2>3. SameCall(N, g, e2, o2)
    <3>1. e2.last = e.last /\ e2.newLast = newLast /\ o2.before = o.before /\ o2.through = through
      BY <2>1, <2>2
    <3> QED BY <1>7, <1>11, <3>1 DEF SameCall
  <2>4. PICK calls \in Seq(Calls(V)) : calls = [s.calls EXCEPT ![d] = e2]
    <3>1. d \in 1..Len(s.calls) /\ s.calls \in Seq(Calls(V))
      BY <1>1, <1>4, <1>4a
    <3>2. [s.calls EXCEPT ![d] = e2] \in Seq(Calls(V))
      BY <2>1, <3>1, ExceptSeq
    <3> QED BY <3>2
  <2>5. PICK open \in Seq(O) : open = [r.open EXCEPT ![d] = o2]
    BY <1>2, <1>3, <1>4, <2>2, ExceptSeq
  <2>6. s2 = [graph |-> g, last |-> e.last, calls |-> calls, failed |-> s.failed]
    <3>1. [s.calls[d] EXCEPT !.newLast = newLast] = e2
      <4>1. PICK last \in Seq(V), y \in Seq(V) : e = [last |-> last, newLast |-> y] /\ last = e.last
        BY <1>5
      <4>2. e2 = [last |-> last, newLast |-> newLast]
        BY <2>1, <4>1
      <4>3. [e EXCEPT !.newLast = newLast] = e2
        BY <4>1, <4>2
      <4> QED BY <1>5, <4>3
    <3>2. [s EXCEPT !.last = e.last, !.calls[d].newLast = newLast]
            = [s EXCEPT !.last = e.last, !.calls = calls]
      BY <2>4, <3>1
    <3>3. s2 = [s EXCEPT !.last = e.last, !.calls = calls]
      BY <1>12, <1>15, <3>2
    <3> QED BY <1>1a, <3>3
  <2>7. r2 = [ways |-> o.before, open |-> open, wrong |-> r.wrong]
    <3>1. [r.open[d] EXCEPT !.through = through] = o2
      <4>1. [o EXCEPT !.through = through] = o2
        BY <1>6, <2>2
      <4> QED BY <1>6, <4>1
    <3>2. [r EXCEPT !.ways = o.before, !.open[d].through = through]
            = [r EXCEPT !.ways = o.before, !.open = open]
      BY <2>5, <3>1
    <3>3. r2 = [r EXCEPT !.ways = o.before, !.open = open]
      BY <1>13, <1>15, <3>2
    <3> QED BY <1>2, <3>3
  <2>8. /\ Len(calls) = d /\ calls[d] = e2 /\ \A i \in 1..d : i # d => calls[i] = s.calls[i]
    BY <1>1, <1>4, <1>4a, <2>1, <2>4, ExceptSeq
  <2>9. /\ Len(open) = d /\ open[d] = o2 /\ \A i \in 1..d : i # d => open[i] = r.open[i]
    BY <1>2, <1>3, <1>4, <2>2, <2>5, ExceptSeq
  <2>10. \A i \in 1..Len(calls) : SameCall(N, g, calls[i], open[i])
    BY <1>3, <2>3, <2>8, <2>9
  <2> QED BY <1>6, <1>7, <1>14, <2>6, <2>7, <2>8, <2>9, <2>10
<1>16. CASE c # "|"
  <2>1. \A i \in 1..(d - 1) : i \in 1..d
    BY <1>4
  <2>2. 1 \in Int /\ d - 1 \in Int /\ d - 1 \in Nat
    BY <1>4
  <2>3. PICK calls : calls = SubSeq(s.calls, 1, d - 1)
    OBVIOUS
  <2>4. PICK open : open = SubSeq(r.open, 1, d - 1)
    OBVIOUS
  <2>5. Len(calls) = d - 1 /\ \A i \in 1..(d - 1) : calls[i] = s.calls[i]
    <3>1. \A i \in 1..(d - 1) : s.calls[i] \in Calls(V)
      BY <1>1, <1>4a, <2>1, ElementOfSeq
    <3> QED BY <1>1, <2>2, <2>3, <3>1, SubSeqProperties
  <2>6. open \in Seq(O) /\ Len(open) = d - 1 /\ \A i \in 1..(d - 1) : open[i] = r.open[i]
    <3>1. \A i \in 1..(d - 1) : r.open[i] \in O
      BY <1>2, <1>3, <2>1, ElementOfSeq
    <3> QED BY <1>2, <2>2, <2>4, <3>1, SubSeqProperties
  <2>7. s2 = [graph |-> g, last |-> newLast, calls |-> calls, failed |-> s.failed]
    <3>1. s2 = [s EXCEPT !.last = newLast, !.calls = calls]
      <4>1. s2 = [s EXCEPT !.last = newLast, !.calls = SubSeq(s.calls, 1, d - 1)]
        BY <1>12, <1>16
      <4> QED BY <2>3, <4>1
    <3> QED BY <1>1a, <3>1
  <2>8. r2 = [ways |-> through, open |-> open, wrong |-> r.wrong]
    BY <1>2, <1>13, <1>16, <2>4
  <2>9. \A i \in 1..Len(calls) : SameCall(N, g, calls[i], open[i])
    BY <1>3, <2>1, <2>5, <2>6
  <2> QED BY <1>11, <1>14, <2>5, <2>6, <2>7, <2>8, <2>9
<1> QED BY <1>15, <1>16

\* A bracket.
LEMMA BracketAgrees ==
    ASSUME NEW N, NEW H, NEW S, NEW s \in Splits(N, H, S), NEW r \in Readings(N), Agree(N, s, r),
           NEW c \in Brackets, NEW s2, s2 = ReadToken(s, c), NEW r2, r2 = Token(r, c)
    PROVE  r2 \in Readings(N) /\ Agree(N, s2, r2)
<1>1. s.failed = r.wrong /\ s.failed \in BOOLEAN /\ (s.calls = <<>> <=> r.open = <<>>)
  <2>1. s.calls \in Seq(Calls(Nodes(s.graph))) /\ s.failed \in BOOLEAN
    BY SplitTypes
  <2>2. r.open \in Seq([before : WaySets(N), through : WaySets(N)])
    BY ReadingTypes
  <2>3. Len(s.calls) = Len(r.open) /\ s.failed = r.wrong
    BY DEF Agree
  <2>4. s.calls = <<>> <=> Len(s.calls) = 0
    BY <2>1, EmptySeq
  <2>5. r.open = <<>> <=> Len(r.open) = 0
    BY <2>2, EmptySeq
  <2> QED BY <2>1, <2>3, <2>4, <2>5
<1>2. CASE s.failed
  <2>1. s2 = s
    BY <1>2 DEF ReadToken
  <2>2. r2 = r
    BY <1>1, <1>2 DEF Token
  <2> QED BY <2>1, <2>2
<1>3. CASE ~s.failed /\ c \in {"{", "["}
  <2>1. s2 = OpenBracket(s, c)
    BY <1>3 DEF ReadToken
  <2>2. r2 = OpenedReading(r, c)
    BY <1>1, <1>3 DEF Token, OpenedReading
  <2> QED BY <2>1, <2>2, OpenAgrees
<1>4. CASE ~s.failed /\ c \notin {"{", "["} /\ s.calls = <<>>
  <2>1. c \in {"|", "}", "]"}
    BY <1>4 DEF Brackets
  <2>2. s2 = [s EXCEPT !.failed = TRUE]
    BY <1>4, <2>1 DEF ReadToken
  <2>3. r2 = [r EXCEPT !.wrong = TRUE]
    BY <1>1, <1>4, <2>1 DEF Token
  <2>4. PICK g, last, calls, failed : s = [graph |-> g, last |-> last, calls |-> calls, failed |-> failed]
    BY SplitTypes
  <2>5. s2 = [graph |-> g, last |-> last, calls |-> calls, failed |-> TRUE]
    BY <2>2, <2>4
  <2>6. s2.graph = s.graph /\ s2.last = s.last /\ s2.calls = s.calls /\ s2.failed = TRUE
    BY <2>4, <2>5
  <2>7. PICK ways \in WaySets(N), open \in Seq([before : WaySets(N), through : WaySets(N)]), wrong \in BOOLEAN :
           r = [ways |-> ways, open |-> open, wrong |-> wrong]
    BY ReadingTypes
  <2>8. r2 = [ways |-> ways, open |-> open, wrong |-> TRUE]
    BY <2>3, <2>7
  <2>9. PICK q : q = r2 /\ q = [ways |-> ways, open |-> open, wrong |-> TRUE]
    BY <2>8
  <2>10. q.ways = ways /\ q.open = open /\ q.wrong = TRUE
    BY <2>9
  <2>11. q \in Readings(N)
    BY <2>7, <2>9 DEF Readings
  <2>12. r.ways = ways /\ r.open = open
    BY <2>7
  <2>13. Agree(N, s2, q)
    BY <2>6, <2>10, <2>12 DEF Agree
  <2> QED BY <2>9, <2>11, <2>13
<1>5. CASE ~s.failed /\ c \notin {"{", "["} /\ s.calls # <<>>
  <2>1. c \in {"|", "}", "]"}
    BY <1>5 DEF Brackets
  <2>2. s2 = EndAlternative(s, c)
    BY <1>5, <2>1 DEF ReadToken
  <2>3. r2 = EndedReading(r, c)
    BY <1>1, <1>5, <2>1 DEF Token, EndedReading
  <2> QED BY <1>5, <2>2, <2>3, EndAgrees
<1> QED BY <1>1, <1>2, <1>3, <1>4, <1>5

NameIsPut(s, h, n, s2)    == s2 = [s EXCEPT !.graph = h, !.last = <<n>>]
NameIsRead(r, ways, r2) == r2 = [r EXCEPT !.ways = ways]

\* A name, for which the graph grew and n is the only last node.
LEMMA GrowthAgrees ==
    ASSUME NEW N, NEW H, NEW S, NEW s \in Splits(N, H, S), NEW r \in Readings(N), Agree(N, s, r),
           NEW h \in Graphs(N, H), Grows(s.graph, h), NEW n \in Nat, NEW ways \in WaySets(N),
           WaysTo(N, h, {n}) = ways, NEW s2, NameIsPut(s, h, n, s2), NEW r2, NameIsRead(r, ways, r2)
    PROVE  r2 \in Readings(N) /\ Agree(N, s2, r2)
<1> DEFINE g == s.graph
           V == Nodes(g)
           O == [before : WaySets(N), through : WaySets(N)]
<1>1. PICK last0, calls, failed :
         /\ s = [graph |-> g, last |-> last0, calls |-> calls, failed |-> failed]
         /\ calls \in Seq(Calls(V))
  <2>1. /\ s = [graph |-> g, last |-> s.last, calls |-> s.calls, failed |-> s.failed]
        /\ s.calls \in Seq(Calls(V))
    BY SplitTypes
  <2> QED BY <2>1
<1>2. s.calls = calls /\ s.failed = failed
  BY <1>1
<1>3. PICK ways0, open, wrong :
         /\ r = [ways |-> ways0, open |-> open, wrong |-> wrong]
         /\ open \in Seq(O) /\ wrong \in BOOLEAN
  <2>1. /\ r = [ways |-> r.ways, open |-> r.open, wrong |-> r.wrong]
        /\ r.open \in Seq(O) /\ r.wrong \in BOOLEAN
    BY ReadingTypes
  <2> QED BY <2>1
<1>4. r.open = open /\ r.wrong = wrong
  BY <1>3
<1>5. failed = wrong /\ Len(calls) = Len(open) /\ \A d \in 1..Len(calls) : SameCall(N, g, calls[d], open[d])
  BY <1>2, <1>4 DEF Agree
<1>6. PICK last : last = <<n>> /\ ToSet(last) = {n}
  <2>1. PICK c \in Seq(Nat) : c = <<n>> /\ Len(c) = 1 /\ c[1] = n
    BY OneElement
  <2>2. ToSet(c) = {c[p] : p \in 1..Len(c)}
    BY ToSetOf
  <2>3. ToSet(c) = {n}
    BY <2>1, <2>2
  <2> QED BY <2>1, <2>3
<1>7. g \in Graphs(N, H) /\ Grows(g, h)
  BY SplitTypes
<1> HIDE DEF g, V, O
<1>8. s2 = [graph |-> h, last |-> last, calls |-> calls, failed |-> failed]
  BY <1>1, <1>6 DEF NameIsPut
<1>9. r2 = [ways |-> ways, open |-> open, wrong |-> wrong]
  BY <1>3 DEF NameIsRead
<1>10. s2.graph = h /\ s2.last = last /\ s2.calls = calls /\ s2.failed = failed
  BY <1>8
<1>11. r2.ways = ways /\ r2.open = open /\ r2.wrong = wrong
  BY <1>9
<1>11a. r2 \in Readings(N)
  BY <1>3, <1>9 DEF Readings, O
<1>12. ASSUME NEW d \in 1..Len(calls) PROVE SameCall(N, h, calls[d], open[d])
  <2>1. calls[d] \in Calls(V)
    BY <1>1, ElementOfSeq
  <2>2. calls[d].last \in Seq(V) /\ calls[d].newLast \in Seq(V)
    BY <2>1 DEF Calls
  <2>3. ToSet(calls[d].last) \subseteq Nodes(g) /\ ToSet(calls[d].newLast) \subseteq Nodes(g)
    BY <2>2, ToSetOf DEF V
  <2>4. WaysTo(N, h, ToSet(calls[d].last)) = WaysTo(N, g, ToSet(calls[d].last))
    BY <1>7, <2>3, WaysGrow
  <2>5. WaysTo(N, h, ToSet(calls[d].newLast)) = WaysTo(N, g, ToSet(calls[d].newLast))
    BY <1>7, <2>3, WaysGrow
  <2> QED BY <1>5, <2>4, <2>5 DEF SameCall
<1> QED BY <1>5, <1>6, <1>10, <1>11, <1>11a, <1>12 DEF Agree

\* The readings of a text: W[p] is that of its first p tokens.
IsFirstReading(r) == r = [ways |-> {<<>>}, open |-> <<>>, wrong |-> FALSE]

AreReadings(W, text) ==
    /\ IsFirstReading(W[0])
    /\ \A p \in 1..Len(text) : W[p] = Token(W[p - 1], text[p])
    /\ Meaning(text) = W[Len(text)]

LEMMA MeaningSoFar ==
    ASSUME NEW text, Len(text) \in Nat
    PROVE  \E W : AreReadings(W, text)
<1> DEFINE n == Len(text)
           a == [ways |-> {<<>>}, open |-> <<>>, wrong |-> FALSE]
           Is(f, m) == f = [p \in 0..m |-> IF p = 0 THEN a ELSE Token(f[p - 1], text[p])]
           D == {m \in 0..n : \E f : Is(f, m)}
           F == CHOOSE f : Is(f, n)
<1>4. Meaning(text) = F[n]
  BY DEF Meaning
<1>6. IsFirstReading(a)
  BY DEF IsFirstReading
<1> HIDE DEF a
<1>1. 0 \in D
  <2> DEFINE f == [p \in 0..0 |-> a]
  <2>1. Is(f, 0)
    OBVIOUS
  <2>2. \E x : Is(x, 0)
    <3> HIDE DEF Is
    <3> QED BY <2>1
  <2> HIDE DEF Is
  <2> QED BY <2>2
<1>2. ASSUME NEW m \in 1..n, m - 1 \in D PROVE m \in D
  <2>1. PICK f : Is(f, m - 1)
    BY <1>2
  <2> DEFINE e == [p \in 0..m |-> IF p = m THEN Token(f[m - 1], text[m]) ELSE f[p]]
  <2>2. Is(e, m)
    <3> SUFFICES ASSUME NEW p \in 0..m
                 PROVE  e[p] = IF p = 0 THEN a ELSE Token(e[p - 1], text[p])
      OBVIOUS
    <3>1. CASE p = m
      <4>1. m - 1 \in 0..m /\ m - 1 # m /\ m # 0
        OBVIOUS
      <4> QED BY <3>1, <4>1
    <3>2. CASE p \in 1..(m - 1)
      <4>1. p \in 0..(m - 1) /\ p - 1 \in 0..m /\ p - 1 # m /\ p # m /\ p # 0
        BY <3>2
      <4> QED BY <2>1, <4>1
    <3>3. CASE p = 0
      <4>1. p \in 0..(m - 1) /\ p # m
        BY <3>3
      <4> QED BY <2>1, <3>3, <4>1
    <3> QED BY <3>1, <3>2, <3>3
  <2> HIDE DEF e, Is
  <2> QED BY <2>2
<1>3. Is(F, n)
  <2>1. n \in D
    <3> HIDE DEF D
    <3>1. \A k \in 0..n : k \in D
      BY <1>1, <1>2, UpTo
    <3> QED BY <3>1
  <2> HIDE DEF Is
  <2> QED BY <2>1
<1> HIDE DEF F
<1>5. F[0] = a /\ \A p \in 1..n : F[p] = Token(F[p - 1], text[p])
  <2>1. 0 \in 0..n /\ \A p \in 1..n : p \in 0..n /\ p # 0
    OBVIOUS
  <2> QED BY <1>3, <2>1
<1>7. AreReadings(F, text)
  BY <1>4, <1>5, <1>6 DEF AreReadings
<1> QED BY <1>7

LEMMA Prefix ==
    ASSUME NEW N, NEW text \in Seq(N), NEW p \in 1..Len(text)
    PROVE  /\ SubSeq(text, 1, p) \in Seq(N) /\ SubSeq(text, 1, p - 1) \in Seq(N) /\ text[p] \in N
           /\ SubSeq(text, 1, p) = Append(SubSeq(text, 1, p - 1), text[p])
<1>1. Len(text) \in Nat /\ p \in Nat /\ p - 1 \in Nat /\ 1 \in Int /\ p \in Int /\ p - 1 \in Int
  BY LenProperties
<1>2. \A i \in 1..p : i \in 1..Len(text) /\ text[i] \in N
  BY <1>1, LenProperties
<1>3. \A i \in 1..(p - 1) : i \in 1..p /\ text[i] \in N
  BY <1>1, <1>2
<1>4. PICK y \in Seq(N) : /\ y = SubSeq(text, 1, p) /\ Len(y) = p
                          /\ \A i \in 1..p : y[i] = text[i]
  <2>1. /\ SubSeq(text, 1, p) \in Seq(N) /\ Len(SubSeq(text, 1, p)) = p
        /\ \A i \in 1..p : SubSeq(text, 1, p)[i] = text[i]
    BY <1>1, <1>2, SubSeqProperties
  <2> QED BY <2>1
<1>5. PICK x \in Seq(N) : /\ x = SubSeq(text, 1, p - 1) /\ Len(x) = p - 1
                          /\ \A i \in 1..(p - 1) : x[i] = text[i]
  <2>1. /\ SubSeq(text, 1, p - 1) \in Seq(N) /\ Len(SubSeq(text, 1, p - 1)) = p - 1
        /\ \A i \in 1..(p - 1) : SubSeq(text, 1, p - 1)[i] = text[i]
    BY <1>1, <1>3, SubSeqProperties
  <2> QED BY <2>1
<1>6. PICK c \in N : c = text[p]
  BY <1>1, <1>2
<1>7. PICK z \in Seq(N) : /\ z = Append(x, c) /\ Len(z) = p /\ z[p] = c
                          /\ \A i \in 1..(p - 1) : z[i] = x[i]
  <2>1. /\ Append(x, c) \in Seq(N) /\ Len(Append(x, c)) = Len(x) + 1 /\ Append(x, c)[Len(x) + 1] = c
        /\ \A i \in 1..Len(x) : Append(x, c)[i] = x[i]
    BY AppendProperties
  <2>2. Len(x) + 1 = p
    BY <1>1, <1>5
  <2> QED BY <1>5, <2>1, <2>2
<1>8. y = z
  <2>1. \A i \in 1..p : i \in 1..(p - 1) \/ i = p
    BY <1>1
  <2>2. \A i \in 1..p : y[i] = z[i]
    BY <1>1, <1>4, <1>5, <1>6, <1>7, <2>1
  <2> QED BY <1>4, <1>7, <2>2, SeqEqual
<1> QED BY <1>4, <1>5, <1>6, <1>7, <1>8

GoneOn(ways, c) == {Append(x, c) : x \in ways}

\* The graph g grew by no other name than c.
GrewBy(g, h, c) == Grows(g, h) /\ \A k \in Nodes(h) : k \in Nodes(g) \/ h.name[k] = c

\* The name c was read, and one node is last.
NameDone(s, c, r, s2, r2) ==
    /\ GrewBy(s.graph, s2.graph, c)
    /\ ~s2.failed /\ Len(s2.last) = 1 /\ r2.ways = GoneOn(r.ways, c)

LEMMA NameReading ==
    ASSUME NEW N, NEW r \in Readings(N), ~r.wrong, NEW c \in N, c \notin Brackets, NEW r2, r2 = Token(r, c)
    PROVE  NameIsRead(r, GoneOn(r.ways, c), r2) /\ GoneOn(r.ways, c) \in WaySets(N)
<1>1. NameIsRead(r, GoneOn(r.ways, c), r2)
  BY DEF Token, NameIsRead, GoneOn, Brackets
<1>2. \A x \in r.ways : Append(x, c) \in Seq(N)
  BY ReadingTypes, AppendProperties DEF WaySets
<1> QED BY <1>1, <1>2 DEF GoneOn, WaySets

\* What a step to the graph h and the last node n is.
LEMMA PutDone ==
    ASSUME NEW N, NEW H, NEW S, NEW s \in Splits(N, H, S), NEW r \in Readings(N), Agree(N, s, r), ~s.failed,
           NEW c \in N, c \notin Brackets, NEW h \in Graphs(N, H), GrewBy(s.graph, h, c), NEW n \in Nat,
           WaysTo(N, h, {n}) = GoneOn(r.ways, c), NEW s2, NameIsPut(s, h, n, s2),
           NEW r2, r2 = Token(r, c)
    PROVE  r2 \in Readings(N) /\ Agree(N, s2, r2) /\ NameDone(s, c, r, s2, r2)
<1>1. ~r.wrong
  BY DEF Agree
<1>2. PICK ways \in WaySets(N) : NameIsRead(r, ways, r2) /\ ways = GoneOn(r.ways, c)
  BY <1>1, NameReading
<1>3. r2 \in Readings(N) /\ Agree(N, s2, r2)
  BY <1>2, GrowthAgrees DEF GrewBy
<1>4. PICK g, last, calls, failed : s = [graph |-> g, last |-> last, calls |-> calls, failed |-> failed]
  BY SplitTypes
<1>5. PICK one : one = <<n>> /\ Len(one) = 1
  BY OneElement
<1>6. s2 = [graph |-> h, last |-> one, calls |-> calls, failed |-> failed]
  BY <1>4, <1>5 DEF NameIsPut
<1>7. s2.graph = h /\ s2.last = one /\ s2.failed = failed
  BY <1>6
<1>8. s.failed = failed
  BY <1>4
<1>9. r2.ways = ways
  <2>0. r = [ways |-> r.ways, open |-> r.open, wrong |-> r.wrong]
    BY ReadingTypes
  <2>1. PICK ways0, open, wrong : r = [ways |-> ways0, open |-> open, wrong |-> wrong]
    BY <2>0
  <2>2. r2 = [ways |-> ways, open |-> open, wrong |-> wrong]
    BY <1>2, <2>1 DEF NameIsRead
  <2>3. PICK q : q = r2 /\ q = [ways |-> ways, open |-> open, wrong |-> wrong]
    BY <2>2
  <2>4. q.ways = ways
    BY <2>3
  <2> QED BY <2>3, <2>4
<1> QED BY <1>2, <1>3, <1>5, <1>7, <1>8, <1>9 DEF NameDone

LEMMA FreshNameRead ==
    ASSUME NEW N, NEW H, NoHandler \in H, NEW S, NEW s \in Splits(N, H, S), NEW r \in Readings(N),
           Agree(N, s, r), ~s.failed, NEW c \in N, c \notin Brackets, Fresh(s.graph, c),
           NEW s2, s2 = ReadToken(s, c), NEW r2, r2 = Token(r, c)
    PROVE  r2 \in Readings(N) /\ Agree(N, s2, r2) /\ NameDone(s, c, r, s2, r2)
<1>1. PICK g \in Graphs(N, H) : g = s.graph
  BY SplitTypes
<1>2. PICK last \in Seq(Nodes(g)) : last = s.last /\ last # <<>>
  BY <1>1, SplitTypes
<1>3. ToSet(last) \subseteq Nodes(g)
  BY ToSetOf
<1>4. ~(Len(last) = 1 /\ g.name[last[1]] = c)
  <2>1. Len(last) = 1 => last[1] \in Nodes(g)
    BY ElementOfSeq
  <2> QED BY <1>1, <2>1 DEF Fresh
<1>5. PICK q : q = appendNewNodeToLastNodes(g, last, c)
  OBVIOUS
<1>6. IsBelow(N, H, g, c, ToSet(last), q)
  <2>1. Fresh(g, c)
    BY <1>1
  <2> QED BY <1>2, <1>5, <2>1, FreshAppended
<1>7. PICK h \in Graphs(N, H) : NodeBelow(g, h, c, ToSet(last)) /\ q = [graph |-> h, node |-> Len(g.name) + 1]
  BY <1>6 DEF IsBelow
<1>8. PICK n \in Nat : n = Len(g.name) + 1
  <2>1. Len(g.name) \in Nat
    BY GraphTypes
  <2> QED BY <2>1
<1>9. q.graph = h /\ q.node = n
  BY <1>7, <1>8
<1>10. NameIsPut(s, h, n, s2)
  <2>1. s2 = PutName(s, c)
    BY DEF ReadToken, Brackets
  <2>2. ~(Len(s.last) = 1 /\ s.graph.name[s.last[1]] = c)
    BY <1>1, <1>2, <1>4
  <2>3. PutName(s, c) = LET r0 == appendNewNodeToLastNodes(s.graph, s.last, c)
                        IN  [s EXCEPT !.graph = r0.graph, !.last = <<r0.node>>]
    BY <2>2 DEF PutName
  <2>4. PutName(s, c) = [s EXCEPT !.graph = q.graph, !.last = <<q.node>>]
    BY <1>1, <1>2, <1>5, <2>3
  <2> QED BY <1>9, <2>1, <2>4 DEF NameIsPut
<1>11. WaysTo(N, h, {n}) = GoneOn(r.ways, c)
  <2>1. WaysTo(N, h, {n}) = {Append(x, c) : x \in WaysTo(N, g, ToSet(last))}
    BY <1>3, <1>7, <1>8, BelowWays
  <2>2. WaysTo(N, g, ToSet(last)) = r.ways
    BY <1>1, <1>2 DEF Agree
  <2> QED BY <2>1, <2>2 DEF GoneOn
<1>12. GrewBy(s.graph, h, c)
  <2>1. /\ Grows(g, h) /\ Nodes(h) = Nodes(g) \cup {Len(g.name) + 1} /\ h.name[Len(g.name) + 1] = c
    BY <1>7, BelowGrows
  <2> QED BY <1>1, <2>1 DEF GrewBy
<1> QED BY <1>10, <1>11, <1>12, PutDone

\* A name that one subnode of the only last node has.
LEMMA KnownNameRead ==
    ASSUME NEW N, NEW H, NEW S, NEW s \in Splits(N, H, S), NEW r \in Readings(N),
           Agree(N, s, r), ~s.failed, NEW c \in N, c \notin Brackets,
           Len(s.last) = 1, NEW k, k = s.last[1], s.graph.name[k] # c, NEW n, IsEdge(s.graph, k, c, n),
           WaysTo(N, s.graph, {n}) = GoneOn(r.ways, c),
           NEW s2, s2 = ReadToken(s, c), NEW r2, r2 = Token(r, c)
    PROVE  r2 \in Readings(N) /\ Agree(N, s2, r2) /\ NameDone(s, c, r, s2, r2)
<1>1. PICK g \in Graphs(N, H) : g = s.graph
  BY SplitTypes
<1>2. PICK last \in Seq(Nodes(g)) : last = s.last /\ last # <<>> /\ Len(last) = 1 /\ last[1] = k
  BY <1>1, SplitTypes
<1>3. k \in Nodes(g)
  BY <1>2, ElementOfSeq
<1>4. n \in Nodes(g) /\ n \in ToSet(g.sub[k]) /\ g.name[n] = c
  BY <1>1, <1>3, EdgeNode DEF IsEdge
<1>5. findSubnode(g, k, c) = n /\ findSubnode(g, k, c) # 0 /\ n \in Nat
  <2>1. findSubnode(g, k, c) \in ToSet(g.sub[k]) /\ g.name[findSubnode(g, k, c)] = c /\ findSubnode(g, k, c) # 0
    BY <1>3, <1>4, SubnodeFound
  <2>2. findSubnode(g, k, c) = n
    BY <1>3, <1>4, <2>1 DEF Graphs, WellFormed
  <2>3. n \in Nat
    BY <1>4 DEF Nodes
  <2> QED BY <2>1, <2>2, <2>3
<1>6. appendNewNodeToLastNodes(g, last, c) = [graph |-> g, node |-> n]
  <2>1. PICK R : /\ R = [p \in 0..Len(last) |->
                        IF p = 0 THEN [graph |-> g, node |-> 0] ELSE AppendTo(R[p - 1], last[p], c)]
                 /\ appendNewNodeToLastNodes(g, last, c) = R[Len(last)]
    BY <1>2, AppendedSoFar
  <2>2. 0 \in 0..Len(last) /\ 1 \in 0..Len(last) /\ 1 - 1 = 0
    BY <1>2
  <2>3. R[0] = [graph |-> g, node |-> 0]
    BY <2>1, <2>2
  <2>4. R[1] = AppendTo(R[0], last[1], c)
    BY <2>1, <2>2
  <2>5. R[0].graph = g /\ R[0].node = 0
    BY <2>3
  <2>6. AppendTo(R[0], last[1], c) = createAndAddNewSubnodeIfNotExist(g, k, c)
    BY <1>2, <2>5 DEF AppendTo
  <2>7. createAndAddNewSubnodeIfNotExist(g, k, c) = [graph |-> g, node |-> n]
    BY <1>5 DEF createAndAddNewSubnodeIfNotExist
  <2> QED BY <1>2, <2>1, <2>4, <2>6, <2>7
<1>7. NameIsPut(s, g, n, s2)
  <2>1. s2 = PutName(s, c)
    BY DEF ReadToken, Brackets
  <2>2. ~(Len(s.last) = 1 /\ s.graph.name[s.last[1]] = c)
    OBVIOUS
  <2>3. PutName(s, c) = LET r0 == appendNewNodeToLastNodes(s.graph, s.last, c)
                        IN  [s EXCEPT !.graph = r0.graph, !.last = <<r0.node>>]
    BY <2>2 DEF PutName
  <2>4. PICK q : q = appendNewNodeToLastNodes(g, last, c) /\ q = [graph |-> g, node |-> n]
    BY <1>6
  <2>5. PutName(s, c) = [s EXCEPT !.graph = q.graph, !.last = <<q.node>>]
    BY <1>1, <1>2, <2>3, <2>4
  <2>6. q.graph = g /\ q.node = n
    BY <2>4
  <2> QED BY <2>1, <2>5, <2>6 DEF NameIsPut
<1>8. GrewBy(s.graph, g, c)
  BY <1>1, GrowsReflexive DEF GrewBy
<1>9. WaysTo(N, g, {n}) = GoneOn(r.ways, c)
  BY <1>1
<1> QED BY <1>5, <1>7, <1>8, <1>9, PutDone
-----------------------------------------------------------------------------
(***************************************************************************)
(* Reading a text.  Every name of it is new to the graph, or it is one of  *)
(* the leading names and the names up to it lead to a node of their own.   *)
(***************************************************************************)
TextSeen(text, p) == {text[i] : i \in 1..p} \ Brackets

OnlyNames(text, p) == \A i \in 1..p : text[i] \notin Brackets

\* x is the only way to some node.
Reaches(N, g, x) == \E n \in Nodes(g) : WaysTo(N, g, {n}) = {x}

IsPlaced(N, g, text, p) ==
    Fresh(g, text[p]) \/ (OnlyNames(text, p) /\ Reaches(N, g, SubSeq(text, 1, p)))

Placed(N, g, text) == \A p \in 1..Len(text) : text[p] \notin Brackets => IsPlaced(N, g, text, p)

\* The first p tokens were read: s is the splitting, r the meaning.
HasRead(N, H, g, text, p, s, r) ==
    /\ s \in Splits(N, H, TextSeen(text, p)) /\ r \in Readings(N) /\ Agree(N, s, r)
    /\ Grows(g, s.graph)
    /\ \A k \in Nodes(s.graph) : k \in Nodes(g) \/ s.graph.name[k] \in TextSeen(text, p)
    /\ OnlyNames(text, p) => ~s.failed /\ Len(s.last) = 1 /\ r.ways = {SubSeq(text, 1, p)}
    /\ \A q \in 1..p : OnlyNames(text, q) => Reaches(N, s.graph, SubSeq(text, 1, q))

LEMMA ReachesGrows ==
    ASSUME NEW N, NEW H, NEW g \in Graphs(N, H), NEW h \in Graphs(N, H), Grows(g, h),
           NEW x, Reaches(N, g, x)
    PROVE  Reaches(N, h, x)
<1>1. PICK n \in Nodes(g) : WaysTo(N, g, {n}) = {x}
  BY DEF Reaches
<1>2. WaysTo(N, h, {n}) = WaysTo(N, g, {n})
  BY WaysGrow
<1>3. n \in Nodes(h)
  BY GrowsNodes
<1> QED BY <1>1, <1>2, <1>3 DEF Reaches

LEMMA SeenStep ==
    ASSUME NEW N, NEW text \in Seq(N), NEW p \in 1..Len(text)
    PROVE  /\ TextSeen(text, p) = TextSeen(text, p - 1) \cup ({text[p]} \ Brackets)
           /\ OnlyNames(text, p) <=> OnlyNames(text, p - 1) /\ text[p] \notin Brackets
           /\ TextSeen(text, 0) = {}
<1>1. p \in Nat
  BY LenProperties
<1>2. \A i \in 1..p : i \in 1..(p - 1) \/ i = p
  BY <1>1
<1>3. \A i \in 1..(p - 1) : i \in 1..p
  BY <1>1
<1>4. p \in 1..p
  BY <1>1
<1> QED BY <1>2, <1>3, <1>4 DEF TextSeen, OnlyNames

LEMMA BracketStep ==
    ASSUME NEW N, NEW H, NoHandler \in H, NEW g \in Graphs(N, H), NEW text \in Seq(N), NEW p \in 1..Len(text),
           NEW s, NEW r, HasRead(N, H, g, text, p - 1, s, r), text[p] \in Brackets,
           NEW s2, s2 = ReadToken(s, text[p]), NEW r2, r2 = Token(r, text[p])
    PROVE  HasRead(N, H, g, text, p, s2, r2)
<1>1. PICK S : S = TextSeen(text, p - 1) /\ S = TextSeen(text, p)
  <2>1. TextSeen(text, p) = TextSeen(text, p - 1) \cup ({text[p]} \ Brackets)
    BY SeenStep
  <2>2. {text[p]} \ Brackets = {}
    OBVIOUS
  <2> QED BY <2>1, <2>2
<1>2. /\ s \in Splits(N, H, S) /\ r \in Readings(N) /\ Agree(N, s, r)
      /\ Grows(g, s.graph)
      /\ \A k \in Nodes(s.graph) : k \in Nodes(g) \/ s.graph.name[k] \in S
      /\ \A q \in 1..(p - 1) : OnlyNames(text, q) => Reaches(N, s.graph, SubSeq(text, 1, q))
  BY <1>1 DEF HasRead
<1>3. PICK c \in Brackets : c = text[p]
  OBVIOUS
<1>4. r2 \in Readings(N) /\ Agree(N, s2, r2)
  BY <1>2, <1>3, BracketAgrees
<1>5. s2 \in Splits(N, H, S) /\ s2.graph = s.graph
  <2>1. IsBracketRead(s, c, s2)
    BY <1>3 DEF ReadToken, Brackets, IsBracketRead
  <2> QED BY <1>2, <2>1, BracketRead
<1>6. ~OnlyNames(text, p)
  BY SeenStep
<1>7. ASSUME NEW q \in 1..p, OnlyNames(text, q) PROVE Reaches(N, s2.graph, SubSeq(text, 1, q))
  <2>1. q # p
    BY <1>6, <1>7
  <2>2. q \in 1..(p - 1)
    <3>1. p \in Nat
      BY LenProperties
    <3> QED BY <2>1, <3>1
  <2> QED BY <1>2, <1>5, <1>7, <2>2
<1> QED BY <1>1, <1>2, <1>4, <1>5, <1>6, <1>7 DEF HasRead

\* What a name changes besides the agreement.
LEMMA NameStep ==
    ASSUME NEW N, NEW H, NoHandler \in H, NEW g \in Graphs(N, H), NEW text \in Seq(N), NEW p \in 1..Len(text),
           NEW s, NEW r, HasRead(N, H, g, text, p - 1, s, r), text[p] \notin Brackets,
           NEW s2, s2 = ReadToken(s, text[p]), NEW r2, r2 \in Readings(N), Agree(N, s2, r2),
           NameDone(s, text[p], r, s2, r2)
    PROVE  HasRead(N, H, g, text, p, s2, r2)
<1>1. PICK S : S = TextSeen(text, p - 1)
  OBVIOUS
<1>2. PICK T : T = TextSeen(text, p) /\ T = S \cup {text[p]}
  BY <1>1, SeenStep
<1>3. /\ s \in Splits(N, H, S) /\ r \in Readings(N) /\ Agree(N, s, r)
      /\ Grows(g, s.graph)
      /\ \A k \in Nodes(s.graph) : k \in Nodes(g) \/ s.graph.name[k] \in S
      /\ OnlyNames(text, p - 1) => r.ways = {SubSeq(text, 1, p - 1)}
      /\ \A q \in 1..(p - 1) : OnlyNames(text, q) => Reaches(N, s.graph, SubSeq(text, 1, q))
  BY <1>1 DEF HasRead
<1>4. PICK c \in N : c = text[p]
  BY Prefix
<1>5. s2 \in Splits(N, H, T)
  <2>1. PICK After : After = {<<m, c>> : m \in S}
    OBVIOUS
  <2>2. Follows(c, S, T, After)
    BY <1>2, <1>4, <2>1 DEF Follows
  <2>3. S \subseteq T
    BY <1>2
  <2> QED BY <1>3, <1>4, <2>2, <2>3, TokenRead
<1>6. s.graph \in Graphs(N, H) /\ s2.graph \in Graphs(N, H)
  BY <1>3, <1>5, SplitTypes
<1>7. /\ Grows(s.graph, s2.graph)
      /\ \A k \in Nodes(s2.graph) : k \in Nodes(s.graph) \/ s2.graph.name[k] = c
      /\ ~s2.failed /\ Len(s2.last) = 1 /\ r2.ways = GoneOn(r.ways, c)
  BY <1>4 DEF NameDone, GrewBy
<1>8. Grows(g, s2.graph)
  BY <1>3, <1>6, <1>7, GrowsTransitive
<1>9. ASSUME NEW k \in Nodes(s2.graph) PROVE k \in Nodes(g) \/ s2.graph.name[k] \in T
  <2>1. CASE k \in Nodes(s.graph)
    <3>1. s2.graph.name[k] = s.graph.name[k]
      BY <1>7, <2>1 DEF Grows
    <3> QED BY <1>2, <1>3, <2>1, <3>1
  <2>2. CASE s2.graph.name[k] = c
    BY <1>2, <1>4, <2>2
  <2> QED BY <1>7, <2>1, <2>2
<1>10. ASSUME OnlyNames(text, p) PROVE r2.ways = {SubSeq(text, 1, p)}
  <2>1. OnlyNames(text, p - 1)
    BY <1>10, SeenStep
  <2>2. r.ways = {SubSeq(text, 1, p - 1)}
    BY <1>3, <2>1
  <2>3. SubSeq(text, 1, p) = Append(SubSeq(text, 1, p - 1), c)
    BY <1>4, Prefix
  <2> QED BY <1>7, <2>2, <2>3 DEF GoneOn
<1>11. ASSUME NEW q \in 1..p, OnlyNames(text, q) PROVE Reaches(N, s2.graph, SubSeq(text, 1, q))
  <2>1. CASE q = p
    <3>1. PICK n \in Nodes(s2.graph) : ToSet(s2.last) = {n}
      <4>1. s2.last \in Seq(Nodes(s2.graph))
        BY <1>5, SplitTypes
      <4>2. ToSet(s2.last) = {s2.last[i] : i \in 1..Len(s2.last)} /\ s2.last[1] \in Nodes(s2.graph)
        BY <1>7, <4>1, ToSetOf, ElementOfSeq
      <4>3. ToSet(s2.last) = {s2.last[1]}
        BY <1>7, <4>2
      <4> QED BY <4>2, <4>3
    <3>2. WaysTo(N, s2.graph, {n}) = r2.ways
      BY <3>1 DEF Agree
    <3> QED BY <1>10, <1>11, <2>1, <3>2 DEF Reaches
  <2>2. CASE q # p
    <3>1. q \in 1..(p - 1)
      <4>1. p \in Nat
        BY LenProperties
      <4> QED BY <2>2, <4>1
    <3>2. Reaches(N, s.graph, SubSeq(text, 1, q))
      BY <1>3, <1>11, <3>1
    <3> QED BY <1>6, <1>7, <3>2, ReachesGrows
  <2> QED BY <2>1, <2>2
<1> QED BY <1>2, <1>5, <1>7, <1>8, <1>9, <1>10, <1>11 DEF HasRead

\* A name differs from those before it and from the command's.
LEMMA NameIsNew ==
    ASSUME NEW N, NEW text \in Seq(N), NEW p \in 1..Len(text), NamesDiffer(text), text[p] \notin Brackets
    PROVE  text[p] # CmdName /\ text[p] \notin TextSeen(text, p - 1)
<1>1. Len(text) \in Nat /\ p \in 0..Len(text) /\ 0 \in 0..Len(text) /\ 0 < p
  BY LenProperties
<1>2. text[p] # CmdName
  BY <1>1 DEF NamesDiffer
<1>3. ASSUME NEW i \in 1..(p - 1) PROVE text[p] # text[i]
  <2>1. i \in 0..Len(text) /\ i < p /\ i # 0
    BY <1>1
  <2> QED BY <1>1, <2>1 DEF NamesDiffer
<1> QED BY <1>2, <1>3 DEF TextSeen

LEMMA FailedStep ==
    ASSUME NEW N, NEW H, NoHandler \in H, NEW g \in Graphs(N, H), NEW text \in Seq(N), NEW p \in 1..Len(text),
           NEW s, NEW r, HasRead(N, H, g, text, p - 1, s, r), s.failed
    PROVE  HasRead(N, H, g, text, p, s, r)
<1>1. PICK S : S = TextSeen(text, p - 1)
  OBVIOUS
<1>2. PICK T : T = TextSeen(text, p) /\ S \subseteq T
  <2>1. TextSeen(text, p) = TextSeen(text, p - 1) \cup ({text[p]} \ Brackets)
    BY SeenStep
  <2> QED BY <1>1, <2>1
<1>3. /\ s \in Splits(N, H, S) /\ r \in Readings(N) /\ Agree(N, s, r)
      /\ Grows(g, s.graph)
      /\ \A k \in Nodes(s.graph) : k \in Nodes(g) \/ s.graph.name[k] \in S
      /\ ~OnlyNames(text, p - 1)
      /\ \A q \in 1..(p - 1) : OnlyNames(text, q) => Reaches(N, s.graph, SubSeq(text, 1, q))
  BY <1>1 DEF HasRead
<1>4. s \in Splits(N, H, T)
  <2>1. Reached(s.graph, S) \subseteq Reached(s.graph, T)
    BY <1>2 DEF Reached
  <2>2. s.last \in Seq(Reached(s.graph, T)) /\ s.calls \in Seq(Calls(Reached(s.graph, T)))
    <3>1. s.last \in Seq(Reached(s.graph, S)) /\ s.calls \in Seq(Calls(Reached(s.graph, S)))
      BY <1>3 DEF Splits
    <3> QED BY <2>1, <3>1, CallsMonotonic
  <2> QED BY <1>3, <2>2 DEF Splits
<1>5. ~OnlyNames(text, p)
  BY <1>3, SeenStep
<1>6. ASSUME NEW q \in 1..p, OnlyNames(text, q) PROVE Reaches(N, s.graph, SubSeq(text, 1, q))
  <2>1. q # p
    BY <1>5, <1>6
  <2>2. q \in 1..(p - 1)
    <3>1. p \in Nat
      BY LenProperties
    <3> QED BY <2>1, <3>1
  <2> QED BY <1>3, <1>6, <2>2
<1>7. \A k \in Nodes(s.graph) : k \in Nodes(g) \/ s.graph.name[k] \in T
  BY <1>2, <1>3
<1> QED BY <1>2, <1>3, <1>4, <1>5, <1>6, <1>7 DEF HasRead

LEMMA TokenStep ==
    ASSUME NEW N, NEW H, NoHandler \in H, NEW g \in Graphs(N, H), g.name[1] = CmdName,
           NEW text \in Seq(N), NamesDiffer(text), Placed(N, g, text), NEW p \in 1..Len(text),
           NEW s, NEW r, HasRead(N, H, g, text, p - 1, s, r),
           NEW s2, s2 = ReadToken(s, text[p]), NEW r2, r2 = Token(r, text[p])
    PROVE  HasRead(N, H, g, text, p, s2, r2)
<1>1. PICK S : S = TextSeen(text, p - 1)
  OBVIOUS
<1>2. /\ s \in Splits(N, H, S) /\ r \in Readings(N) /\ Agree(N, s, r)
      /\ Grows(g, s.graph)
      /\ \A k \in Nodes(s.graph) : k \in Nodes(g) \/ s.graph.name[k] \in S
      /\ OnlyNames(text, p - 1) => ~s.failed /\ Len(s.last) = 1 /\ r.ways = {SubSeq(text, 1, p - 1)}
  BY <1>1 DEF HasRead
<1>3. s.graph \in Graphs(N, H) /\ Nodes(g) \subseteq Nodes(s.graph)
  BY <1>2, SplitTypes, GrowsNodes
<1>4. PICK c \in N : c = text[p]
  BY Prefix
<1>5. CASE c \in Brackets
  BY <1>4, <1>5, BracketStep
<1>6. CASE s.failed
  <2>1. s2 = s
    BY <1>6 DEF ReadToken
  <2>2. r2 = r
    <3>1. r.wrong
      BY <1>2, <1>6 DEF Agree
    <3> QED BY <3>1 DEF Token
  <2> QED BY <1>6, <2>1, <2>2, FailedStep
<1>7. CASE c \notin Brackets /\ ~s.failed /\ Fresh(g, c)
  <2>1. c \notin S
    BY <1>1, <1>4, <1>7, NameIsNew
  <2>2. \A k \in Nodes(g) : s.graph.name[k] = g.name[k]
    BY <1>2 DEF Grows
  <2>3. Fresh(s.graph, c)
    BY <1>2, <1>7, <2>1, <2>2 DEF Fresh
  <2>4. r2 \in Readings(N) /\ Agree(N, s2, r2) /\ NameDone(s, c, r, s2, r2)
    BY <1>2, <1>4, <1>7, <2>3, FreshNameRead
  <2> QED BY <1>4, <1>7, <2>4, NameStep
<1>8. CASE c \notin Brackets /\ ~s.failed /\ OnlyNames(text, p) /\ Reaches(N, g, SubSeq(text, 1, p))
  <2>1. PICK n \in Nodes(g) : WaysTo(N, g, {n}) = {SubSeq(text, 1, p)}
    BY <1>8 DEF Reaches
  <2>2. PICK x \in Seq(N) : /\ x = SubSeq(text, 1, p - 1) /\ Append(x, c) = SubSeq(text, 1, p)
                            /\ Len(x) \in Nat
    <3>1. SubSeq(text, 1, p - 1) \in Seq(N) /\ SubSeq(text, 1, p) = Append(SubSeq(text, 1, p - 1), text[p])
      BY Prefix
    <3>2. PICK x \in Seq(N) : x = SubSeq(text, 1, p - 1)
      BY <3>1
    <3>3. Append(x, c) = SubSeq(text, 1, p)
      BY <1>4, <3>1, <3>2
    <3> QED BY <3>2, <3>3, LenProperties
  <2>3. IsWay(g, Append(x, c), n)
    <3>1. Append(x, c) \in WaysTo(N, g, {n})
      BY <2>1, <2>2
    <3> QED BY <3>1 DEF WaysTo
  <2>4. PICK j \in Nodes(g) : IsWay(g, x, j) /\ IsEdge(g, j, c, n)
    BY <1>4, <2>2, <2>3, WayAppended
  <2>5. Len(s.last) = 1 /\ r.ways = {x}
    <3>1. OnlyNames(text, p - 1)
      BY <1>8, SeenStep
    <3> QED BY <1>2, <2>2, <3>1
  <2>6. PICK k \in Nodes(s.graph) : k = s.last[1] /\ ToSet(s.last) = {k} /\ k \in Reached(s.graph, S)
    <3>1. s.last \in Seq(Reached(s.graph, S))
      BY <1>2 DEF Splits
    <3>2. s.last[1] \in Reached(s.graph, S) /\ ToSet(s.last) = {s.last[i] : i \in 1..Len(s.last)}
      BY <2>5, <3>1, ElementOfSeq, ToSetOf
    <3>3. ToSet(s.last) = {s.last[1]}
      BY <2>5, <3>2
    <3> QED BY <3>2, <3>3 DEF Reached
  <2>7. j = k
    <3>1. x \in WaysTo(N, s.graph, {k})
      BY <1>2, <2>5, <2>6 DEF Agree
    <3>2. IsWay(s.graph, x, k)
      BY <3>1 DEF WaysTo
    <3>3. IsWay(s.graph, x, j)
      BY <1>2, <1>3, <2>4, WayGrows
    <3> QED BY <1>3, <2>2, <3>2, <3>3, WayUnique
  <2>8. IsEdge(s.graph, k, c, n)
    <3>1. IsEdge(s.graph, j, c, n)
      BY <1>2, <1>3, <2>4, EdgeGrows
    <3> QED BY <2>7, <3>1
  <2>9. WaysTo(N, s.graph, {n}) = GoneOn(r.ways, c)
    <3>1. WaysTo(N, s.graph, {n}) = WaysTo(N, g, {n})
      BY <1>2, <1>3, WaysGrow
    <3> QED BY <2>1, <2>2, <2>5, <3>1 DEF GoneOn
  <2>10. s.graph.name[k] # c
    <3>1. c # CmdName /\ c \notin S
      BY <1>1, <1>4, <1>8, NameIsNew
    <3>2. s.graph.name[1] = CmdName
      BY <1>2, GraphTypes DEF Grows
    <3> QED BY <2>6, <3>1, <3>2 DEF Reached
  <2>11. r2 \in Readings(N) /\ Agree(N, s2, r2) /\ NameDone(s, c, r, s2, r2)
    BY <1>2, <1>4, <1>8, <2>5, <2>6, <2>8, <2>9, <2>10, KnownNameRead
  <2> QED BY <1>4, <1>8, <2>11, NameStep
<1>9. c \notin Brackets => Fresh(g, c) \/ (OnlyNames(text, p) /\ Reaches(N, g, SubSeq(text, 1, p)))
  BY <1>4 DEF Placed, IsPlaced
<1>10. s.failed \in BOOLEAN
  BY <1>2, SplitTypes
<1> QED BY <1>5, <1>6, <1>7, <1>8, <1>9, <1>10

\* No node leads to the first.
Unentered(g) == \A k \in Nodes(g) : 1 \notin ToSet(g.sub[k])

LEMMA FirstWays ==
    ASSUME NEW N, NEW H, NEW g \in Graphs(N, H), Unentered(g)
    PROVE  WaysTo(N, g, {1}) = {<<>>}
<1>1. ASSUME NEW x \in Seq(N), IsWay(g, x, 1) PROVE x = <<>>
  <2>1. CASE Len(x) = 0
    BY <2>1, EmptySeq
  <2>2. CASE Len(x) # 0
    <3>1. PICK y \in Seq(N), c \in N : x = Append(y, c)
      BY <2>2, LastOff
    <3>2. PICK k \in Nodes(g) : IsEdge(g, k, c, 1)
      BY <1>1, <3>1, WayAppended
    <3> QED BY <3>2 DEF IsEdge, Unentered
  <2> QED BY <2>1, <2>2
<1>2. PICK x \in Seq(N) : x = <<>> /\ Len(x) = 0
  BY EmptySeq
<1>3. IsWay(g, x, 1)
  BY <1>2, WayNil
<1> QED BY <1>1, <1>2, <1>3 DEF WaysTo

LEMMA CommandFirst ==
    ASSUME NEW N, CmdName \in N, NEW text \in Seq(N), NEW syntax, syntax = <<CmdName>> \o text
    PROVE  /\ syntax \in Seq(N) /\ Len(text) \in Nat /\ Len(syntax) = Len(text) + 1 /\ syntax[1] = CmdName
           /\ \A i \in 1..Len(text) : syntax[i + 1] = text[i]
<1>1. PICK c \in Seq(N) : c = <<CmdName>> /\ Len(c) = 1 /\ c[1] = CmdName
  BY OneElement
<1>2. Len(text) \in Nat
  BY LenProperties
<1>3. /\ c \o text \in Seq(N) /\ Len(c \o text) = Len(c) + Len(text)
      /\ \A i \in 1..Len(c) + Len(text) : (c \o text)[i] = IF i <= Len(c) THEN c[i] ELSE text[i - Len(c)]
  BY <1>1, ConcatProperties
<1>4. PICK z : /\ z = syntax /\ z \in Seq(N) /\ Len(z) = Len(c) + Len(text)
               /\ \A i \in 1..Len(c) + Len(text) : z[i] = IF i <= Len(c) THEN c[i] ELSE text[i - Len(c)]
  BY <1>1, <1>3
<1>5. Len(z) = Len(text) + 1 /\ z[1] = CmdName
  BY <1>1, <1>2, <1>4
<1>6. ASSUME NEW i \in 1..Len(text) PROVE z[i + 1] = text[i]
  <2>1. i + 1 \in 1..Len(c) + Len(text) /\ ~(i + 1 <= Len(c)) /\ (i + 1) - Len(c) = i
    BY <1>1, <1>2
  <2> QED BY <1>4, <2>1
<1> QED BY <1>2, <1>4, <1>5, <1>6

IsFirstSplit(g, s) == s = [graph |-> g, last |-> <<1>>, calls |-> <<>>, failed |-> FALSE]

LEMMA NothingRead ==
    ASSUME NEW N, NEW H, NEW g \in Graphs(N, H), Unentered(g), NEW text \in Seq(N),
           NEW s, IsFirstSplit(g, s), NEW r, IsFirstReading(r)
    PROVE  HasRead(N, H, g, text, 0, s, r)
<1> DEFINE S == TextSeen(text, 0)
           O == [before : WaySets(N), through : WaySets(N)]
<1>1. 1 \in Reached(g, S) /\ 1 \in Nat
  BY GraphTypes DEF Reached
<1>2. PICK last \in Seq(Reached(g, S)) : last = <<1>> /\ Len(last) = 1 /\ last[1] = 1
  BY <1>1, OneElement
<1>3. last # <<>> /\ last \in Seq(Nat) /\ ToSet(last) = {1}
  <2>1. Reached(g, S) \subseteq Nat
    BY GraphTypes DEF Reached, Nodes
  <2>2. ToSet(last) = {last[i] : i \in 1..Len(last)}
    BY ToSetOf
  <2>3. ToSet(last) = {1}
    BY <1>2, <2>2
  <2>4. last # <<>>
    BY <1>2
  <2> QED BY <2>1, <2>3, <2>4, SeqMonotonic
<1>4. PICK calls \in Seq(Calls(Reached(g, S))) :
         calls = <<>> /\ Len(calls) = 0 /\ calls \in Seq([last : Seq(Nat), newLast : Seq(Nat)])
  BY EmptySeq
<1>5. PICK open \in Seq(O) : open = <<>> /\ Len(open) = 0
  BY EmptySeq
<1>6. PICK nil \in Seq(N) : nil = <<>> /\ SubSeq(text, 1, 0) = nil
  <2>1. SubSeq(text, 1, 0) = <<>>
    BY SubSeqEmpty
  <2> QED BY <2>1, EmptySeq
<1>7. PICK ways \in WaySets(N) : ways = {nil} /\ WaysTo(N, g, {1}) = ways
  BY <1>6, FirstWays DEF WaySets
<1>8. PICK t : t = s /\ t = [graph |-> g, last |-> last, calls |-> calls, failed |-> FALSE]
  BY <1>2, <1>4 DEF IsFirstSplit
<1>9. PICK q : q = r /\ q = [ways |-> ways, open |-> open, wrong |-> FALSE]
  BY <1>5, <1>6, <1>7 DEF IsFirstReading
<1> HIDE DEF S, O
<1>10. t.graph = g /\ t.last = last /\ t.calls = calls /\ t.failed = FALSE
  BY <1>8
<1>11. q.ways = ways /\ q.open = open /\ q.wrong = FALSE
  BY <1>9
<1>12. q \in Readings(N)
  BY <1>9 DEF Readings, O
<1>13. t \in Splits(N, H, S)
  <2>1. t \in [graph : Graphs(N, H), last : Seq(Nat), calls : Seq([last : Seq(Nat), newLast : Seq(Nat)]),
               failed : BOOLEAN]
    BY <1>3, <1>4, <1>8
  <2> QED BY <1>3, <1>10, <2>1 DEF Splits
<1>14. Agree(N, t, q)
  <2>1. WaysTo(N, g, ToSet(last)) = ways
    BY <1>3, <1>7
  <2>2. WaysTo(N, t.graph, ToSet(t.last)) = q.ways
    BY <1>10, <1>11, <2>1
  <2>3. Len(t.calls) = 0 /\ Len(q.open) = 0 /\ t.failed = q.wrong
    BY <1>4, <1>5, <1>10, <1>11
  <2>4. \A d \in 1..Len(t.calls) : FALSE
    BY <2>3
  <2> QED BY <2>2, <2>3, <2>4 DEF Agree
<1>15. Grows(g, t.graph) /\ \A k \in Nodes(t.graph) : k \in Nodes(g)
  BY <1>10, GrowsReflexive
<1>16. HasRead(N, H, g, text, 0, t, q)
  <2>1. ~t.failed /\ Len(t.last) = 1
    BY <1>2, <1>10
  <2>2. q.ways = {SubSeq(text, 1, 0)}
    BY <1>6, <1>7, <1>11
  <2>3. \A j \in 1..0 : FALSE
    OBVIOUS
  <2> QED BY <1>12, <1>13, <1>14, <1>15, <2>1, <2>2, <2>3 DEF HasRead, S
<1> QED BY <1>8, <1>9, <1>16

\* What the splitting has made of a text is what the text means.
LEMMA TextRead ==
    ASSUME NEW N, NEW H, NoHandler \in H, NEW g \in Graphs(N, H), g.name[1] = CmdName, CmdName \in N,
           Unentered(g), NEW text \in Seq(N), NamesDiffer(text), Placed(N, g, text),
           NEW s, s = splitOutSyntax(g, <<CmdName>> \o text)
    PROVE  HasRead(N, H, g, text, Len(text), s, Meaning(text))
<1>1. PICK syntax : syntax = <<CmdName>> \o text
  OBVIOUS
<1>2. /\ syntax \in Seq(N) /\ Len(text) \in Nat /\ Len(syntax) = Len(text) + 1 /\ syntax[1] = CmdName
      /\ \A i \in 1..Len(text) : syntax[i + 1] = text[i]
  BY <1>1, CommandFirst
<1>3. PICK n \in Nat : n = Len(text) /\ Len(syntax) = n + 1
  BY <1>2
<1>4. PICK R : /\ R[0] = [graph |-> g, last |-> <<1>>, calls |-> <<>>, failed |-> FALSE]
               /\ \A p \in 1..Len(syntax) : R[p] = ReadToken(R[p - 1], syntax[p])
               /\ splitOutSyntax(g, syntax) = R[Len(syntax)]
  BY <1>3, SplitSoFar
<1>5. PICK W : /\ IsFirstReading(W[0])
               /\ \A p \in 1..n : W[p] = Token(W[p - 1], text[p])
               /\ Meaning(text) = W[n]
  <2>1. PICK W : AreReadings(W, text)
    BY <1>2, MeaningSoFar
  <2> QED BY <1>3, <2>1 DEF AreReadings
<1>6. R[1] = R[0]
  <2>1. R[1] = ReadToken(R[0], CmdName)
    <3>1. 1 \in 1..Len(syntax) /\ 1 - 1 = 0
      BY <1>3
    <3> QED BY <1>2, <1>4, <3>1
  <2>2. PICK one \in Seq(Nat) : one = <<1>> /\ Len(one) = 1 /\ one[1] = 1
    BY OneElement
  <2>3. PICK t : t = R[0] /\ t = [graph |-> g, last |-> one, calls |-> <<>>, failed |-> FALSE]
    BY <1>4, <2>2
  <2>4. t.graph = g /\ t.last = one /\ t.failed = FALSE
    BY <2>3
  <2>5. ReadToken(t, CmdName) = PutName(t, CmdName)
    BY <2>4, SyntaxAssumption DEF ReadToken, Brackets
  <2>6. PutName(t, CmdName) = t
    BY <2>2, <2>4 DEF PutName
  <2> QED BY <2>1, <2>3, <2>5, <2>6
<1>7. \A p \in 1..n : R[p + 1] = ReadToken(R[p], text[p])
  <2> SUFFICES ASSUME NEW p \in 1..n PROVE R[p + 1] = ReadToken(R[p], text[p])
    OBVIOUS
  <2>1. p + 1 \in 1..Len(syntax) /\ (p + 1) - 1 = p
    BY <1>3
  <2>2. syntax[p + 1] = text[p]
    BY <1>2, <1>3
  <2> QED BY <1>4, <2>1, <2>2
<1> DEFINE D == {p \in 0..n : HasRead(N, H, g, text, p, R[p + 1], W[p])}
<1>8. 0 \in D
  <2>1. HasRead(N, H, g, text, 0, R[0], W[0])
    <3>1. IsFirstSplit(g, R[0])
      BY <1>4 DEF IsFirstSplit
    <3> QED BY <1>5, <3>1, NothingRead
  <2>2. 0 + 1 = 1 /\ 0 \in 0..n
    BY <1>3
  <2> QED BY <1>6, <2>1, <2>2
<1>9. ASSUME NEW p \in 1..n, p - 1 \in D PROVE p \in D
  <2>1. (p - 1) + 1 = p /\ p \in 0..n /\ p \in 1..Len(text)
    BY <1>3
  <2>2. HasRead(N, H, g, text, p - 1, R[p], W[p - 1])
    BY <1>9, <2>1
  <2>3. R[p + 1] = ReadToken(R[p], text[p]) /\ W[p] = Token(W[p - 1], text[p])
    BY <1>5, <1>7
  <2>4. HasRead(N, H, g, text, p, R[p + 1], W[p])
    BY <2>1, <2>2, <2>3, TokenStep
  <2> QED BY <2>1, <2>4
<1>10. n \in D
  <2> HIDE DEF D
  <2>1. \A p \in 0..n : p \in D
    BY <1>3, <1>8, <1>9, UpTo
  <2> QED BY <1>3, <2>1
<1>11. s = R[n + 1]
  BY <1>1, <1>3, <1>4
<1> QED BY <1>3, <1>5, <1>10, <1>11
-----------------------------------------------------------------------------
(***************************************************************************)
(* What a table means.  a is the list of the definitions that were added.  *)
(***************************************************************************)
Defs == [syntax : DOMAIN Syntaxes, handler : Handlers]

TextIn(a, j) == Syntaxes[a[j].syntax]

\* The definitions with the sentence x, and the handler of the last of them.
With(a, x) == {j \in DOMAIN a : x \in SentencesOf(TextIn(a, j))}

HandlerFor(a, x) == IF With(a, x) = {} THEN NoHandler ELSE a[Max(With(a, x))].handler

IsPlain(a) ==
    \A j, k \in DOMAIN a : NamesDiffer(TextIn(a, j)) /\ (j < k => ShareLeading(TextIn(a, j), TextIn(a, k)))

\* All names but the first come from texts that were not refused; the leading names of such a
\* text lead to a node of their own; what the names x lead to has the handler
\* of the last definition with that sentence, and a sentence leads somewhere.
NamesKnown(g, a) ==
    \A k \in Nodes(g) : \/ k = 1
                        \/ \E j \in DOMAIN a : BracketsFit(TextIn(a, j)) /\ g.name[k] \in NamesIn(TextIn(a, j))

LeadingReach(g, text) ==
    \A q \in 1..Len(text) : OnlyNames(text, q) => Reaches(TableNames, g, SubSeq(text, 1, q))

AllReach(g, a) == \A j \in DOMAIN a : BracketsFit(TextIn(a, j)) => LeadingReach(g, TextIn(a, j))

HandlersFit(g, a) == \A x \in Seq(TableNames) : \A n : IsWay(g, x, n) => g.handler[n] = HandlerFor(a, x)

SentencesLead(g, a) == \A x : With(a, x) # {} => x \in Seq(TableNames) /\ \E n : IsWay(g, x, n)

Means(g, a) == NamesKnown(g, a) /\ AllReach(g, a) /\ HandlersFit(g, a) /\ SentencesLead(g, a)

LEMMA MaxIsIn ==
    ASSUME NEW m \in Nat, NEW S, S \subseteq 1..m, S # {}
    PROVE  Max(S) \in S
<1> DEFINE B == {m - x : x \in S}
<1>1. B \in SUBSET Nat /\ B # {}
  <2>1. \A x \in S : x \in 1..m /\ m - x \in Nat /\ m - x \in B
    OBVIOUS
  <2>2. PICK x \in S : TRUE
    OBVIOUS
  <2>3. B # {}
    BY <2>1, <2>2
  <2>4. B \subseteq Nat
    BY <2>1
  <2> QED BY <2>3, <2>4
<1>2. PICK b \in B : \A y \in B : ~(y < b)
  <2> HIDE DEF B
  <2> QED BY <1>1, LeastIn
<1>3. PICK z \in S : b = m - z
  BY <1>2
<1>4. \A x \in S : z >= x
  <2> SUFFICES ASSUME NEW x \in S PROVE z >= x
    OBVIOUS
  <2>1. m - x \in B /\ x \in 1..m /\ z \in 1..m
    OBVIOUS
  <2>2. ~(m - x < m - z)
    BY <1>2, <1>3, <2>1
  <2> QED BY <2>1, <2>2
<1> HIDE DEF B
<1>5. \E y \in S : \A x \in S : y >= x
  BY <1>4
<1> QED BY <1>5 DEF Max

LEMMA MaxIsTop ==
    ASSUME NEW m \in Nat, NEW S, S \subseteq 1..m, m \in S
    PROVE  Max(S) = m
<1>1. \A x \in S : m >= x /\ x \in Nat
  OBVIOUS
<1>2. Max(S) \in S /\ \A x \in S : Max(S) >= x
  <2>1. \E y \in S : \A x \in S : y >= x
    BY <1>1
  <2> QED BY <2>1 DEF Max
<1>3. Max(S) >= m /\ m >= Max(S) /\ Max(S) \in Nat
  BY <1>1, <1>2
<1> QED BY <1>3

\* Ways depend on names and edges only.
SameShape(g, h) == h.name = g.name /\ h.sub = g.sub

LEMMA ShapeWays ==
    ASSUME NEW N, NEW g, NEW h, SameShape(g, h)
    PROVE  /\ \A x, n : IsWay(h, x, n) <=> IsWay(g, x, n)
           /\ \A x : Reaches(N, g, x) => Reaches(N, h, x)
<1>1. \A v, x, n : Walks(h, v, x, n) <=> Walks(g, v, x, n)
  BY DEF SameShape, Walks, Nodes
<1>2. \A x, n : IsWay(h, x, n) <=> IsWay(g, x, n)
  BY <1>1 DEF IsWay
<1>3. \A S : WaysTo(N, h, S) = WaysTo(N, g, S)
  BY <1>2 DEF WaysTo
<1>4. Nodes(h) = Nodes(g)
  BY DEF SameShape, Nodes
<1> QED BY <1>2, <1>3, <1>4 DEF Reaches

\* h is attached to the last nodes and to no other.
IsAttached(g, last, h, r) ==
    /\ SameShape(g, r)
    /\ \A k \in Nodes(g) : r.handler[k] = IF k \in ToSet(last) THEN h ELSE g.handler[k]

LEMMA AttachedTo ==
    ASSUME NEW N, NEW H, NEW g \in Graphs(N, H), NEW last \in Seq(Nodes(g)), NEW h
    PROVE  IsAttached(g, last, h, Attach(g, last, h))
<1>1. /\ g = [name |-> g.name, sub |-> g.sub, handler |-> g.handler]
      /\ DOMAIN g.handler = Nodes(g)
  BY GraphTypes
<1>2. PICK f : f = [k \in DOMAIN g.handler |-> IF Contains(last, k) THEN h ELSE g.handler[k]]
  OBVIOUS
<1>3. PICK name, sub, handler : /\ g = [name |-> name, sub |-> sub, handler |-> handler]
                                /\ g.name = name /\ g.sub = sub
  BY <1>1
<1>4. Attach(g, last, h) = [name |-> name, sub |-> sub, handler |-> f]
  BY <1>2, <1>3 DEF Attach
<1>5. PICK q : q = Attach(g, last, h) /\ q = [name |-> name, sub |-> sub, handler |-> f]
  BY <1>4
<1>6. q.name = name /\ q.sub = sub /\ q.handler = f
  BY <1>5
<1>7. ASSUME NEW k \in Nodes(g) PROVE Contains(last, k) <=> k \in ToSet(last)
  <2>1. ToSet(last) = {last[p] : p \in 1..Len(last)}
    BY ToSetOf
  <2> QED BY <2>1 DEF Contains
<1>8. \A k \in Nodes(g) : q.handler[k] = IF k \in ToSet(last) THEN h ELSE g.handler[k]
  BY <1>1, <1>2, <1>6, <1>7
<1> QED BY <1>3, <1>5, <1>6, <1>8 DEF SameShape, IsAttached

\* b is the list a and then, at m, the definition d.
OneMore(a, d, b, m) ==
    /\ b \in Seq(Defs) /\ m \in Nat \ {0} /\ DOMAIN b = 1..m /\ DOMAIN a \subseteq 1..m
    /\ DOMAIN b = DOMAIN a \cup {m} /\ m \notin DOMAIN a
    /\ \A j \in DOMAIN a : j < m /\ b[j] = a[j] /\ TextIn(b, j) = TextIn(a, j)
    /\ b[m] = d /\ TextIn(b, m) = Syntaxes[d.syntax]

LEMMA DefsAppended ==
    ASSUME NEW a \in Seq(Defs), NEW d \in Defs
    PROVE  \E m : OneMore(a, d, Append(a, d), m)
<1>1. PICK m : m = Len(a) + 1
  OBVIOUS
<1>2. Len(a) \in Nat /\ DOMAIN a = 1..Len(a) /\ m \in Nat \ {0}
  BY <1>1, LenProperties
<1>3. PICK b : b = Append(a, d)
  OBVIOUS
<1>4. /\ b \in Seq(Defs) /\ Len(b) = Len(a) + 1
      /\ \A j \in 1..Len(a) : b[j] = a[j]
      /\ b[Len(a) + 1] = d
  BY <1>3, AppendProperties
<1>5. DOMAIN b = 1..m
  BY <1>1, <1>4, LenProperties
<1>6. DOMAIN b = DOMAIN a \cup {m} /\ m \notin DOMAIN a /\ \A j \in DOMAIN a : j < m
  BY <1>1, <1>2, <1>5
<1>7. \A j \in DOMAIN a : b[j] = a[j] /\ TextIn(b, j) = TextIn(a, j)
  BY <1>2, <1>4 DEF TextIn
<1>8. b[m] = d /\ TextIn(b, m) = Syntaxes[d.syntax]
  BY <1>1, <1>4 DEF TextIn
<1>9. OneMore(a, d, b, m)
  BY <1>2, <1>4, <1>5, <1>6, <1>7, <1>8 DEF OneMore
<1> QED BY <1>3, <1>9

LEMMA WithAppended ==
    ASSUME NEW a, NEW d, NEW b, NEW m, OneMore(a, d, b, m), NEW x
    PROVE  /\ With(b, x) = {} <=> With(a, x) = {} /\ x \notin SentencesOf(Syntaxes[d.syntax])
           /\ HandlerFor(b, x) = IF x \in SentencesOf(Syntaxes[d.syntax]) THEN d.handler ELSE HandlerFor(a, x)
<1>1. /\ m \in Nat \ {0} /\ DOMAIN b = DOMAIN a \cup {m} /\ m \notin DOMAIN a /\ DOMAIN a \subseteq 1..m
      /\ \A j \in DOMAIN a : b[j] = a[j] /\ TextIn(b, j) = TextIn(a, j)
      /\ b[m] = d /\ TextIn(b, m) = Syntaxes[d.syntax]
  BY DEF OneMore
<1>2. PICK X : X = SentencesOf(Syntaxes[d.syntax])
  OBVIOUS
<1>3. With(a, x) \subseteq DOMAIN a
  BY DEF With
<1>4. \A j \in DOMAIN a : j \in With(b, x) <=> j \in With(a, x)
  BY <1>1 DEF With
<1>5. m \in With(b, x) <=> x \in X
  BY <1>1, <1>2 DEF With
<1>6. With(b, x) \subseteq DOMAIN a \cup {m}
  BY <1>1 DEF With
<1>7. CASE x \in X
  <2>1. With(b, x) \subseteq 1..m
    BY <1>1, <1>6
  <2>2. Max(With(b, x)) = m
    BY <1>1, <1>5, <1>7, <2>1, MaxIsTop
  <2>3. HandlerFor(b, x) = d.handler /\ With(b, x) # {}
    BY <1>1, <1>5, <1>7, <2>2 DEF HandlerFor
  <2> QED BY <1>2, <1>7, <2>3
<1>8. CASE x \notin X
  <2>1. With(b, x) = With(a, x)
    BY <1>3, <1>4, <1>5, <1>6, <1>8
  <2>2. CASE With(a, x) = {}
    BY <1>2, <1>8, <2>1, <2>2 DEF HandlerFor
  <2>3. CASE With(a, x) # {}
    <3>1. Max(With(a, x)) \in With(a, x)
      BY <1>1, <1>3, <2>3, MaxIsIn
    <3>2. b[Max(With(a, x))] = a[Max(With(a, x))]
      BY <1>1, <1>3, <3>1
    <3> QED BY <1>2, <1>8, <2>1, <2>3, <3>2 DEF HandlerFor
  <2> QED BY <2>2, <2>3
<1> QED BY <1>7, <1>8
-----------------------------------------------------------------------------
(***************************************************************************)
(* Where the names of one more text are.                                   *)
(***************************************************************************)
LEMMA TextTyped ==
    ASSUME NEW s \in DOMAIN Syntaxes
    PROVE  Syntaxes[s] \in Seq(TableNames)
<1>1. Syntaxes[s] \in Seq(ToSet(Syntaxes[s])) /\ ToSet(Syntaxes[s]) \subseteq TableNames
  BY SyntaxAssumption DEF TableNames
<1> QED BY <1>1, SeqMonotonic

\* The first l tokens are the same names, and no name is in both texts after
\* them.
Shares(x, y, l) ==
    /\ l \in 0..Len(x) /\ l <= Len(y)
    /\ \A i \in 1..l : x[i] = y[i] /\ x[i] \notin Brackets
    /\ \A i \in 1..Len(x), j \in 1..Len(y) : l < i /\ l < j /\ y[j] \notin Brackets => x[i] # y[j]

\* What is left of a text after l tokens.
LEMMA Rest ==
    ASSUME NEW N, NEW x \in Seq(N), NEW l \in 0..Len(x), NEW i \in 1..Len(x), l < i, x[i] \notin Brackets
    PROVE  x[i] \in NamesIn(SubSeq(x, l + 1, Len(x)))
<1>0. Len(x) \in Nat /\ l \in Nat /\ l + 1 \in Nat
  BY LenProperties
<1>1. PICK z : z = SubSeq(x, l + 1, Len(x))
  OBVIOUS
<1>2. l + 1 \in 1..Len(x) /\ l + 1 <= Len(x)
  BY <1>0
<1>3. /\ z \in Seq(N) /\ Len(z) = Len(x) - (l + 1) + 1
      /\ \A q \in 1..Len(x) - (l + 1) + 1 : z[q] = x[(l + 1) + q - 1]
  BY <1>0, <1>1, <1>2, SubSeqProperties
<1>4. i - l \in 1..Len(x) - (l + 1) + 1 /\ (l + 1) + (i - l) - 1 = i
  BY <1>0
<1>5. z[i - l] = x[i] /\ i - l \in 1..Len(z)
  BY <1>3, <1>4
<1>6. x[i] \in ToSet(z)
  BY <1>3, <1>5, ToSetOf
<1> QED BY <1>1, <1>6 DEF NamesIn

IsBeginning(x, p, z) == z = SubSeq(x, 1, p) /\ Len(z) = p /\ \A i \in 1..p : z[i] = x[i]

LEMMA Beginning ==
    ASSUME NEW N, NEW x \in Seq(N), NEW p \in 0..Len(x)
    PROVE  \E z \in Seq(N) : IsBeginning(x, p, z)
<1>1. Len(x) \in Nat /\ p \in Nat /\ 1 \in Int /\ p \in Int
  BY LenProperties
<1>2. \A i \in 1..p : x[i] \in N
  <2>1. \A i \in 1..p : i \in 1..Len(x)
    BY <1>1
  <2> QED BY <2>1, ElementOfSeq
<1>3. PICK z : z = SubSeq(x, 1, p)
  OBVIOUS
<1>4. z \in Seq(N) /\ Len(z) = (IF 1 <= p THEN p - 1 + 1 ELSE 0) /\ \A i \in 1..p - 1 + 1 : z[i] = x[1 + i - 1]
  BY <1>1, <1>2, <1>3, SubSeqProperties
<1>5. Len(z) = p
  BY <1>1, <1>4
<1>6. \A i \in 1..p : i \in 1..p - 1 + 1 /\ 1 + i - 1 = i
  BY <1>1
<1>7. \A i \in 1..p : z[i] = x[i]
  BY <1>4, <1>6
<1> QED BY <1>3, <1>4, <1>5, <1>7 DEF IsBeginning

LEMMA LeadingShared ==
    ASSUME NEW N, NEW x \in Seq(N), NEW y \in Seq(N), ShareLeading(x, y)
    PROVE  \E l : Shares(x, y, l)
<1>1. PICK l \in 0..Len(x) :
        /\ l <= Len(y) /\ SubSeq(x, 1, l) = SubSeq(y, 1, l)
        /\ ToSet(SubSeq(x, 1, l)) \cap Brackets = {}
        /\ NamesIn(SubSeq(x, l + 1, Len(x))) \cap NamesIn(SubSeq(y, l + 1, Len(y))) = {}
  BY DEF ShareLeading
<1>2. Len(x) \in Nat /\ Len(y) \in Nat /\ l \in Nat /\ l \in 0..Len(y)
  BY <1>1, LenProperties
<1>3. ASSUME NEW i \in 1..l PROVE x[i] = y[i] /\ x[i] \notin Brackets
  <2>1. PICK z : z = SubSeq(x, 1, l) /\ z = SubSeq(y, 1, l)
    BY <1>1
  <2>2. z \in Seq(N) /\ Len(z) = l /\ \A q \in 1..l : z[q] = x[q]
    BY <1>1, <2>1, Beginning DEF IsBeginning
  <2>3. \A q \in 1..l : z[q] = y[q]
    BY <1>2, <2>1, Beginning DEF IsBeginning
  <2>4. z[i] \in ToSet(z)
    BY <2>2, ToSetOf
  <2>5. ToSet(z) \cap Brackets = {}
    BY <1>1, <2>1
  <2> QED BY <2>2, <2>3, <2>4, <2>5
<1>4. ASSUME NEW i \in 1..Len(x), NEW j \in 1..Len(y), l < i, l < j, y[j] \notin Brackets, x[i] = y[j]
      PROVE  FALSE
  <2>1. x[i] \in NamesIn(SubSeq(x, l + 1, Len(x)))
    BY <1>4, Rest
  <2>2. y[j] \in NamesIn(SubSeq(y, l + 1, Len(y)))
    BY <1>2, <1>4, Rest
  <2> QED BY <1>1, <1>4, <2>1, <2>2
<1> QED BY <1>1, <1>2, <1>3, <1>4 DEF Shares

\* A name that another text has is among the leading names of both.
LEMMA LeadingName ==
    ASSUME NEW N, NEW g, NEW x \in Seq(N), NEW y \in Seq(N), ShareLeading(x, y), NamesDiffer(y),
           NEW p \in 1..Len(y), y[p] \notin Brackets, y[p] \in NamesIn(x), LeadingReach(g, x)
    PROVE  OnlyNames(y, p) /\ Reaches(TableNames, g, SubSeq(y, 1, p))
<1>1. PICK l : Shares(x, y, l)
  BY LeadingShared
<1>2. /\ l \in 0..Len(x) /\ l <= Len(y)
      /\ \A i \in 1..l : x[i] = y[i] /\ x[i] \notin Brackets
  BY <1>1 DEF Shares
<1>3. Len(x) \in Nat /\ Len(y) \in Nat /\ l \in Nat
  BY <1>2, LenProperties
<1>4. p <= l
  <2> SUFFICES ASSUME l < p PROVE FALSE
    BY <1>3
  <2>1. PICK i \in 1..Len(x) : x[i] = y[p]
    BY ToSetOf DEF NamesIn
  <2>2. i <= l
    BY <1>1, <1>3, <2>1 DEF Shares
  <2>3. i \in 1..l /\ x[i] = y[i]
    BY <1>2, <1>3, <2>2
  <2>4. y[p] \notin TextSeen(y, p - 1)
    BY NameIsNew
  <2>5. i \in 1..(p - 1)
    BY <1>3, <2>2
  <2>6. y[p] = y[i]
    BY <2>1, <2>3
  <2> QED BY <2>4, <2>5, <2>6 DEF TextSeen
<1>5. \A i \in 1..p : i \in 1..l
  BY <1>3, <1>4
<1>6. OnlyNames(y, p) /\ OnlyNames(x, p)
  BY <1>2, <1>5 DEF OnlyNames
<1>7. SubSeq(x, 1, p) = SubSeq(y, 1, p)
  <2>1. p \in 0..Len(x) /\ p \in 0..Len(y)
    BY <1>2, <1>3, <1>4
  <2>2. PICK u \in Seq(N) : IsBeginning(x, p, u)
    BY <2>1, Beginning
  <2>3. PICK w \in Seq(N) : IsBeginning(y, p, w)
    BY <2>1, Beginning
  <2>4. u = SubSeq(x, 1, p) /\ w = SubSeq(y, 1, p) /\ Len(u) = p /\ Len(w) = p
    BY <2>2, <2>3 DEF IsBeginning
  <2>5. \A i \in 1..p : u[i] = w[i]
    BY <1>2, <1>5, <2>2, <2>3 DEF IsBeginning
  <2>6. u = w
    BY <2>4, <2>5, SeqEqual
  <2> QED BY <2>4, <2>6
<1>8. Reaches(TableNames, g, SubSeq(x, 1, p))
  <2>1. p \in 1..Len(x)
    BY <1>2, <1>3, <1>4
  <2> QED BY <1>6, <2>1 DEF LeadingReach
<1> QED BY <1>6, <1>7, <1>8

LEMMA TextPlaced ==
    ASSUME NEW g, g.name[1] = CmdName, NEW a \in Seq(Defs), Means(g, a), NEW d \in Defs, NEW b, NEW m,
           OneMore(a, d, b, m), IsPlain(b), NEW text, text = Syntaxes[d.syntax]
    PROVE  text \in Seq(TableNames) /\ NamesDiffer(text) /\ Placed(TableNames, g, text) /\ IsPlain(a)
<1>1. /\ m \in DOMAIN b /\ TextIn(b, m) = text
      /\ \A j \in DOMAIN a : j \in DOMAIN b /\ j < m /\ TextIn(b, j) = TextIn(a, j)
  BY DEF OneMore
<1>2. IsPlain(a)
  BY <1>1 DEF IsPlain
<1>3. text \in Seq(TableNames)
  BY TextTyped DEF Defs
<1>4. NamesDiffer(text)
  BY <1>1 DEF IsPlain
<1>5. \A j \in DOMAIN a : ShareLeading(TextIn(a, j), text)
  BY <1>1 DEF IsPlain
<1>6. \A j \in DOMAIN a : TextIn(a, j) \in Seq(TableNames)
  <2> SUFFICES ASSUME NEW j \in DOMAIN a PROVE TextIn(a, j) \in Seq(TableNames)
    OBVIOUS
  <2>1. a[j] \in Defs
    BY LenProperties, ElementOfSeq
  <2>2. a[j].syntax \in DOMAIN Syntaxes
    BY <2>1 DEF Defs
  <2> QED BY <2>2, TextTyped DEF TextIn
<1>7. ASSUME NEW p \in 1..Len(text), text[p] \notin Brackets PROVE IsPlaced(TableNames, g, text, p)
  <2> SUFFICES ASSUME ~Fresh(g, text[p])
               PROVE  OnlyNames(text, p) /\ Reaches(TableNames, g, SubSeq(text, 1, p))
    BY DEF IsPlaced
  <2>1. PICK k \in Nodes(g) : g.name[k] = text[p]
    BY DEF Fresh
  <2>2. text[p] # CmdName
    BY <1>3, <1>4, <1>7, NameIsNew
  <2>3. PICK j \in DOMAIN a : BracketsFit(TextIn(a, j)) /\ text[p] \in NamesIn(TextIn(a, j))
    BY <2>1, <2>2 DEF Means, NamesKnown
  <2>4. LeadingReach(g, TextIn(a, j))
    BY <2>3 DEF Means, AllReach
  <2>5. PICK x \in Seq(TableNames) : x = TextIn(a, j) /\ ShareLeading(x, text)
    BY <1>5, <1>6
  <2> QED BY <1>3, <1>4, <1>7, <2>3, <2>4, <2>5, LeadingName
<1> QED BY <1>2, <1>3, <1>4, <1>7 DEF Placed
-----------------------------------------------------------------------------
(***************************************************************************)
(* One definition more.  s is the splitting of its text, r what the text   *)
(* means, and h the graph s has made, with the handler.                    *)
(***************************************************************************)
IsAdded(s, h, handler) ==
    /\ SameShape(s.graph, h)
    /\ \A k \in Nodes(s.graph) :
         h.handler[k] = IF ~s.failed /\ k \in ToSet(s.last) THEN handler ELSE s.graph.handler[k]

\* The text was read to its end, and its sentences are those r has found.
IsReadIn(g, text, s, r) ==
    /\ HasRead(TableNames, TableHandlers, g, text, Len(text), s, r)
    /\ SentencesOf(text) = IF r.wrong THEN {} ELSE r.ways

LEMMA ReadParts ==
    ASSUME NEW g, NEW text, NEW s, NEW r, IsReadIn(g, text, s, r)
    PROVE  /\ s.graph \in TableGraphs /\ Grows(g, s.graph) /\ s.last \in Seq(Nodes(s.graph))
           /\ ToSet(s.last) \subseteq Nodes(s.graph)
           /\ \A k \in Nodes(s.graph) : k \in Nodes(g) \/ s.graph.name[k] \in TextSeen(text, Len(text))
           /\ \A q \in 1..Len(text) : OnlyNames(text, q) => Reaches(TableNames, s.graph, SubSeq(text, 1, q))
           /\ \A x : x \in SentencesOf(text) <=> ~s.failed /\ x \in WaysTo(TableNames, s.graph, ToSet(s.last))
<1>1. PICK S : s \in Splits(TableNames, TableHandlers, S)
  BY DEF IsReadIn, HasRead
<1>2. s.graph \in TableGraphs /\ s.last \in Seq(Nodes(s.graph))
  BY <1>1, SplitTypes DEF TableGraphs
<1>3. ToSet(s.last) \subseteq Nodes(s.graph)
  BY <1>2, ToSetOf
<1>4. s.failed = r.wrong /\ WaysTo(TableNames, s.graph, ToSet(s.last)) = r.ways
  BY DEF IsReadIn, HasRead, Agree
<1>5. \A x : x \in SentencesOf(text) <=> ~s.failed /\ x \in WaysTo(TableNames, s.graph, ToSet(s.last))
  BY <1>4 DEF IsReadIn
<1> QED BY <1>2, <1>3, <1>5 DEF IsReadIn, HasRead

LEMMA KnownThen ==
    ASSUME NEW g \in TableGraphs, NEW a, NamesKnown(g, a), NEW d, NEW b, NEW m, OneMore(a, d, b, m),
           NEW text, text = Syntaxes[d.syntax], text \in Seq(TableNames), BracketsFit(text),
           NEW s, NEW r, IsReadIn(g, text, s, r), NEW h, IsAdded(s, h, d.handler)
    PROVE  NamesKnown(h, b)
<1> SUFFICES ASSUME NEW k \in Nodes(h)
             PROVE  \/ k = 1
                    \/ \E j \in DOMAIN b : BracketsFit(TextIn(b, j)) /\ h.name[k] \in NamesIn(TextIn(b, j))
  BY DEF NamesKnown
<1>1. k \in Nodes(s.graph) /\ h.name[k] = s.graph.name[k]
  BY DEF IsAdded, SameShape, Nodes
<1>2. CASE k \in Nodes(g)
  <2>1. h.name[k] = g.name[k]
    BY <1>1, <1>2, ReadParts DEF Grows
  <2>2. CASE k = 1
    BY <2>2
  <2>3. CASE k # 1
    <3>1. PICK j \in DOMAIN a : BracketsFit(TextIn(a, j)) /\ g.name[k] \in NamesIn(TextIn(a, j))
      BY <1>2, <2>3 DEF NamesKnown
    <3>2. j \in DOMAIN b /\ TextIn(b, j) = TextIn(a, j)
      BY DEF OneMore
    <3> QED BY <2>1, <3>1, <3>2
  <2> QED BY <2>2, <2>3
<1>3. CASE k \notin Nodes(g)
  <2>1. h.name[k] \in TextSeen(text, Len(text))
    BY <1>1, <1>3, ReadParts
  <2>2. h.name[k] \in NamesIn(text)
    <3>1. ToSet(text) = {text[i] : i \in 1..Len(text)}
      BY ToSetOf
    <3> QED BY <2>1, <3>1 DEF TextSeen, NamesIn
  <2>3. m \in DOMAIN b /\ TextIn(b, m) = text
    BY DEF OneMore
  <2> QED BY <2>2, <2>3
<1> QED BY <1>2, <1>3

LEMMA ReachThen ==
    ASSUME NEW g \in TableGraphs, NEW a, AllReach(g, a), NEW d, NEW b, NEW m, OneMore(a, d, b, m),
           NEW text, text = Syntaxes[d.syntax],
           NEW s, NEW r, IsReadIn(g, text, s, r), NEW h, IsAdded(s, h, d.handler)
    PROVE  AllReach(h, b)
<1> SUFFICES ASSUME NEW j \in DOMAIN b, BracketsFit(TextIn(b, j)),
                    NEW q \in 1..Len(TextIn(b, j)), OnlyNames(TextIn(b, j), q)
             PROVE  Reaches(TableNames, h, SubSeq(TextIn(b, j), 1, q))
  BY DEF AllReach, LeadingReach
<1>1. PICK x : x = SubSeq(TextIn(b, j), 1, q)
  OBVIOUS
<1>2. Reaches(TableNames, s.graph, x)
  <2>1. CASE j \in DOMAIN a
    <3>1. TextIn(b, j) = TextIn(a, j)
      BY <2>1 DEF OneMore
    <3>2. LeadingReach(g, TextIn(a, j))
      BY <2>1, <3>1 DEF AllReach
    <3>3. Reaches(TableNames, g, x)
      BY <1>1, <3>1, <3>2 DEF LeadingReach
    <3>4. s.graph \in TableGraphs /\ Grows(g, s.graph)
      BY ReadParts
    <3> QED BY <3>3, <3>4, ReachesGrows DEF TableGraphs
  <2>2. CASE j = m
    <3>1. TextIn(b, j) = text
      BY <2>2 DEF OneMore
    <3>2. \A i \in 1..Len(text) : OnlyNames(text, i) => Reaches(TableNames, s.graph, SubSeq(text, 1, i))
      BY ReadParts
    <3> QED BY <1>1, <3>1, <3>2
  <2> QED BY <2>1, <2>2 DEF OneMore
<1>3. SameShape(s.graph, h)
  BY DEF IsAdded
<1> QED BY <1>1, <1>2, <1>3, ShapeWays

LEMMA LeadThen ==
    ASSUME NEW g \in TableGraphs, NEW a, SentencesLead(g, a), NEW d, NEW b, NEW m, OneMore(a, d, b, m),
           NEW text, text = Syntaxes[d.syntax],
           NEW s, NEW r, IsReadIn(g, text, s, r), NEW h, IsAdded(s, h, d.handler)
    PROVE  SentencesLead(h, b)
<1> SUFFICES ASSUME NEW x, With(b, x) # {}
             PROVE  x \in Seq(TableNames) /\ \E n : IsWay(h, x, n)
  BY DEF SentencesLead
<1>1. SameShape(s.graph, h)
  BY DEF IsAdded
<1>2. x \in Seq(TableNames) /\ \E n : IsWay(s.graph, x, n)
  <2>1. CASE x \in SentencesOf(text)
    <3>1. x \in WaysTo(TableNames, s.graph, ToSet(s.last))
      BY <2>1, ReadParts
    <3> QED BY <3>1 DEF WaysTo
  <2>2. CASE x \notin SentencesOf(text)
    <3>1. With(a, x) # {}
      BY <2>2, WithAppended
    <3>2. x \in Seq(TableNames)
      BY <3>1 DEF SentencesLead
    <3>3. PICK n : IsWay(g, x, n)
      BY <3>1 DEF SentencesLead
    <3>4. n \in Nodes(g)
      BY <3>2, <3>3, WayNode, LenProperties
    <3>5. s.graph \in TableGraphs /\ Grows(g, s.graph)
      BY ReadParts
    <3>6. IsWay(s.graph, x, n)
      BY <3>2, <3>3, <3>4, <3>5, WayGrows DEF TableGraphs
    <3> QED BY <3>2, <3>6
  <2> QED BY <2>1, <2>2
<1> QED BY <1>1, <1>2, ShapeWays

LEMMA HandlersThen ==
    ASSUME NEW g \in TableGraphs, NEW a, SentencesLead(g, a), HandlersFit(g, a),
           NEW d, NEW b, NEW m, OneMore(a, d, b, m), NEW text, text = Syntaxes[d.syntax],
           NEW s, NEW r, IsReadIn(g, text, s, r), NEW h, IsAdded(s, h, d.handler)
    PROVE  HandlersFit(h, b)
<1> SUFFICES ASSUME NEW x \in Seq(TableNames), NEW n, IsWay(h, x, n)
             PROVE  h.handler[n] = HandlerFor(b, x)
  BY DEF HandlersFit
<1>1. s.graph \in TableGraphs /\ Grows(g, s.graph) /\ ToSet(s.last) \subseteq Nodes(s.graph)
  BY ReadParts
<1>2. PICK f \in Graphs(TableNames, TableHandlers) : f = s.graph
  BY <1>1 DEF TableGraphs
<1>3. IsWay(f, x, n)
  <2>1. SameShape(s.graph, h)
    BY DEF IsAdded
  <2> QED BY <1>2, <2>1, ShapeWays
<1>4. n \in Nodes(f)
  BY <1>3, WayNode, LenProperties
<1>5. x \in SentencesOf(text) <=> ~s.failed /\ n \in ToSet(s.last)
  <2>1. x \in WaysTo(TableNames, f, ToSet(s.last)) <=> \E k \in ToSet(s.last) : IsWay(f, x, k)
    BY DEF WaysTo
  <2>2. \A k : IsWay(f, x, k) => k = n
    BY <1>3, WayUnique, LenProperties
  <2>3. x \in WaysTo(TableNames, f, ToSet(s.last)) <=> n \in ToSet(s.last)
    BY <1>3, <2>1, <2>2
  <2> QED BY <1>2, <2>3, ReadParts
<1>6. CASE x \in SentencesOf(text)
  <2>1. h.handler[n] = d.handler
    BY <1>2, <1>4, <1>5, <1>6 DEF IsAdded
  <2>2. HandlerFor(b, x) = d.handler
    BY <1>6, WithAppended
  <2> QED BY <2>1, <2>2
<1>7. CASE x \notin SentencesOf(text)
  <2>1. h.handler[n] = f.handler[n]
    BY <1>2, <1>4, <1>5, <1>7 DEF IsAdded
  <2>2. HandlerFor(b, x) = HandlerFor(a, x)
    BY <1>7, WithAppended
  <2>3. CASE n \in Nodes(g)
    <3>1. IsWay(g, x, n)
      BY <1>1, <1>2, <1>3, <2>3, WayGrows DEF TableGraphs
    <3>2. g.handler[n] = HandlerFor(a, x)
      BY <3>1 DEF HandlersFit
    <3>3. f.handler[n] = g.handler[n]
      BY <1>1, <1>2, <2>3 DEF Grows
    <3> QED BY <2>1, <2>2, <3>2, <3>3
  <2>4. CASE n \notin Nodes(g)
    <3>1. f.handler[n] = NoHandler
      BY <1>1, <1>2, <1>4, <2>4 DEF Grows
    <3>2. With(a, x) = {}
      <4> SUFFICES ASSUME With(a, x) # {} PROVE FALSE
        OBVIOUS
      <4>1. PICK k : IsWay(g, x, k)
        BY DEF SentencesLead
      <4>2. k \in Nodes(g)
        BY <4>1, WayNode, LenProperties
      <4>3. IsWay(f, x, k)
        BY <1>1, <1>2, <4>1, <4>2, WayGrows DEF TableGraphs
      <4>4. k = n
        BY <1>3, <4>3, WayUnique, LenProperties
      <4> QED BY <2>4, <4>2, <4>4
    <3> QED BY <2>1, <2>2, <3>1, <3>2 DEF HandlerFor
  <2> QED BY <2>3, <2>4
<1> QED BY <1>6, <1>7

\* What AddSyntax makes of a text that was split.
LEMMA SplitAdded ==
    ASSUME NEW g, NEW text, BracketsFit(text), NEW s, s = splitOutSyntax(g, <<CmdName>> \o text),
           s.graph \in TableGraphs, s.last \in Seq(Nodes(s.graph)), NEW handler,
           NEW h, h = AddSyntax(g, <<CmdName>> \o text, handler)
    PROVE  IsAdded(s, h, handler)
<1>1. h = IF s.failed THEN s.graph ELSE Attach(s.graph, s.last, handler)
  BY DEF AddSyntax, BracketsFit
<1>2. CASE s.failed
  BY <1>1, <1>2 DEF IsAdded, SameShape
<1>3. CASE ~s.failed
  <2>1. PICK f \in Graphs(TableNames, TableHandlers) : f = s.graph
    BY DEF TableGraphs
  <2>2. PICK last \in Seq(Nodes(f)) : last = s.last
    BY <2>1
  <2>3. h = Attach(f, last, handler)
    BY <1>1, <1>3, <2>1, <2>2
  <2>4. IsAttached(f, last, handler, Attach(f, last, handler))
    BY AttachedTo
  <2>5. IsAttached(f, last, handler, h)
    BY <2>3, <2>4
  <2> QED BY <1>3, <2>1, <2>2, <2>5 DEF IsAdded, IsAttached
<1> QED BY <1>2, <1>3

\* A text that is refused adds no sentences.
LEMMA RefusedMeans ==
    ASSUME NEW g, NEW a, Means(g, a), NEW d, NEW b, NEW m, OneMore(a, d, b, m), ~BracketsFit(Syntaxes[d.syntax])
    PROVE  Means(g, b)
<1>1. PICK text : text = Syntaxes[d.syntax]
  OBVIOUS
<1>2. SentencesOf(text) = {}
  BY <1>1 DEF SentencesOf
<1>3. \A x : (With(b, x) = {} <=> With(a, x) = {}) /\ HandlerFor(b, x) = HandlerFor(a, x)
  BY <1>1, <1>2, WithAppended
<1>4. \A j \in DOMAIN b : BracketsFit(TextIn(b, j)) => j \in DOMAIN a /\ TextIn(b, j) = TextIn(a, j)
  BY DEF OneMore
<1>5. \A j \in DOMAIN a : j \in DOMAIN b /\ TextIn(b, j) = TextIn(a, j)
  BY DEF OneMore
<1>6. NamesKnown(g, b)
  BY <1>5 DEF Means, NamesKnown
<1>7. AllReach(g, b)
  BY <1>4 DEF Means, AllReach
<1>8. HandlersFit(g, b)
  BY <1>3 DEF Means, HandlersFit
<1>9. SentencesLead(g, b)
  BY <1>3 DEF Means, SentencesLead
<1> QED BY <1>6, <1>7, <1>8, <1>9 DEF Means

LEMMA MeansExtended ==
    ASSUME NEW g \in TableGraphs, g.name[1] = CmdName, Unentered(g), NEW a \in Seq(Defs), Means(g, a),
           NEW d \in Defs, NEW b, NEW m, OneMore(a, d, b, m), IsPlain(b),
           NEW h, h = AddSyntax(g, <<CmdName>> \o Syntaxes[d.syntax], d.handler)
    PROVE  Means(h, b)
<1>1. PICK text : text = Syntaxes[d.syntax]
  OBVIOUS
<1>2. text \in Seq(TableNames) /\ NamesDiffer(text) /\ Placed(TableNames, g, text)
  BY <1>1, TextPlaced
<1>3. h = AddSyntax(g, <<CmdName>> \o text, d.handler)
  BY <1>1
<1>4. CASE BracketsFit(text)
  <2>1. PICK s : s = splitOutSyntax(g, <<CmdName>> \o text)
    OBVIOUS
  <2>2. PICK r : r = Meaning(text)
    OBVIOUS
  <2>3. HasRead(TableNames, TableHandlers, g, text, Len(text), s, r)
    <3>1. CmdName \in TableNames /\ NoHandler \in TableHandlers
      BY DEF TableNames, TableHandlers
    <3>2. HasRead(TableNames, TableHandlers, g, text, Len(text), s, Meaning(text))
      BY <1>2, <2>1, <3>1, TextRead DEF TableGraphs
    <3> QED BY <2>2, <3>2
  <2>4. IsReadIn(g, text, s, r)
    <3>1. SentencesOf(text) = IF r.wrong THEN {} ELSE r.ways
      BY <1>4, <2>2 DEF SentencesOf
    <3> QED BY <2>3, <3>1 DEF IsReadIn
  <2>5. s.graph \in TableGraphs /\ s.last \in Seq(Nodes(s.graph))
    BY <2>4, ReadParts
  <2>6. IsAdded(s, h, d.handler)
    BY <1>3, <1>4, <2>1, <2>5, SplitAdded
  <2>7. NamesKnown(g, a) /\ AllReach(g, a) /\ HandlersFit(g, a) /\ SentencesLead(g, a)
    BY DEF Means
  <2>8. NamesKnown(h, b)
    BY <1>1, <1>2, <1>4, <2>4, <2>6, <2>7, KnownThen
  <2>9. AllReach(h, b)
    BY <1>1, <2>4, <2>6, <2>7, ReachThen
  <2>10. HandlersFit(h, b)
    BY <1>1, <2>4, <2>6, <2>7, HandlersThen
  <2>11. SentencesLead(h, b)
    BY <1>1, <2>4, <2>6, <2>7, LeadThen
  <2> QED BY <2>8, <2>9, <2>10, <2>11 DEF Means
<1>5. CASE ~BracketsFit(text)
  <2>1. h = g
    BY <1>3, <1>5 DEF AddSyntax, BracketsFit
  <2>2. Means(g, b)
    BY <1>1, <1>5, RefusedMeans
  <2> QED BY <2>1, <2>2
<1> QED BY <1>4, <1>5

LEMMA NothingMeans == Means(FirstNode(CmdName), <<>>)
<1>1. PICK g \in TableGraphs : g = FirstNode(CmdName) /\ g.name[1] = CmdName
  BY FirstGraph
<1>2. PICK a \in Seq(Defs) : a = <<>> /\ Len(a) = 0
  BY EmptySeq
<1>3. DOMAIN a = {}
  BY <1>2, LenProperties
<1>4. \A x : With(a, x) = {} /\ HandlerFor(a, x) = NoHandler
  BY <1>3 DEF With, HandlerFor
<1>5. Nodes(g) = {1} /\ g.handler[1] = NoHandler
  <2>1. PICK c \in Seq({CmdName}) : c = <<CmdName>> /\ Len(c) = 1
    BY OneElement
  <2>2. PICK e \in Seq({NoHandler}) : e = <<NoHandler>> /\ Len(e) = 1 /\ e[1] = NoHandler
    BY OneElement
  <2>3. PICK f : f = << <<>> >>
    OBVIOUS
  <2>4. Append(<<>>, CmdName) = <<CmdName>> /\ Append(<<>>, <<>>) = << <<>> >>
        /\ Append(<<>>, NoHandler) = <<NoHandler>>
    OBVIOUS
  <2>5. g = [name |-> c, sub |-> f, handler |-> e]
    BY <1>1, <2>1, <2>2, <2>3, <2>4 DEF FirstNode, NewNode
  <2>6. g.name = c /\ g.handler = e
    BY <2>5
  <2> QED BY <2>1, <2>2, <2>6 DEF Nodes
<1>6. NamesKnown(g, a)
  BY <1>1, <1>5 DEF NamesKnown
<1>7. AllReach(g, a)
  BY <1>3 DEF AllReach
<1>8. HandlersFit(g, a)
  <2> SUFFICES ASSUME NEW x \in Seq(TableNames), NEW n, IsWay(g, x, n) PROVE g.handler[n] = HandlerFor(a, x)
    BY DEF HandlersFit
  <2>1. n \in Nodes(g)
    BY WayNode, LenProperties
  <2> QED BY <1>4, <1>5, <2>1
<1>9. SentencesLead(g, a)
  BY <1>4 DEF SentencesLead
<1>10. Means(g, a)
  BY <1>6, <1>7, <1>8, <1>9 DEF Means
<1> QED BY <1>1, <1>2, <1>10
-----------------------------------------------------------------------------
(***************************************************************************)
(* The ways of arguments.                                                  *)
(***************************************************************************)
\* The first i arguments fit a way to k.
Fits(N, g, args, i, k) ==
    \E x \in Seq(N) : /\ Len(x) = i /\ IsWay(g, x, k)
                      /\ \A p \in 1..i : x[p] \in {args[p]} \cup AnyNames

\* Some of them, from the first on, fit a way to k.
FitsSome(N, g, args, k) == \E i \in 0..Len(args) : Fits(N, g, args, i, k)

LEMMA FitsOn ==
    ASSUME NEW N, NEW H, NEW g \in Graphs(N, H), NEW args, NEW i \in Nat, NEW k \in Nodes(g),
           Fits(N, g, args, i, k), NEW j \in ToSet(g.sub[k]), g.name[j] \in {args[i + 1]} \cup AnyNames
    PROVE  Fits(N, g, args, i + 1, j)
<1>1. PICK x \in Seq(N) : /\ Len(x) = i /\ IsWay(g, x, k)
                          /\ \A p \in 1..i : x[p] \in {args[p]} \cup AnyNames
  BY DEF Fits
<1>2. j \in Nodes(g)
  BY DEF Graphs, WellFormed
<1>3. PICK c \in N : c = g.name[j]
  BY <1>2, GraphTypes
<1>4. PICK y \in Seq(N) : /\ y = Append(x, c) /\ Len(y) = i + 1 /\ y[i + 1] = c
                          /\ \A p \in 1..i : y[p] = x[p]
  <2>1. /\ Append(x, c) \in Seq(N) /\ Len(Append(x, c)) = Len(x) + 1 /\ Append(x, c)[Len(x) + 1] = c
        /\ \A p \in 1..Len(x) : Append(x, c)[p] = x[p]
    BY AppendProperties
  <2> QED BY <1>1, <2>1
<1>5. IsWay(g, y, j)
  <2>1. IsEdge(g, k, c, j)
    BY <1>3 DEF IsEdge
  <2> QED BY <1>1, <1>4, <2>1, WayAppended
<1>6. \A p \in 1..(i + 1) : y[p] \in {args[p]} \cup AnyNames
  <2>1. \A p \in 1..(i + 1) : p \in 1..i \/ p = i + 1
    OBVIOUS
  <2> QED BY <1>1, <1>3, <1>4, <2>1
<1> QED BY <1>4, <1>5, <1>6 DEF Fits

\* An argument leads nowhere, to a subnode that it fits, or further from it.
LEMMA FollowFits ==
    ASSUME NEW N, NEW H, NEW g \in Graphs(N, H), NEW k \in Nodes(g), NEW arg,
           NEW deeper \in [Nodes(g) -> Nodes(g)], NEW r, r = Follow(g, k, arg, deeper)
    PROVE  \/ r = k
           \/ \E j \in ToSet(g.sub[k]) : g.name[j] \in {arg} \cup AnyNames /\ r \in {j, deeper[j]}
<1> DEFINE subs == getMatchingSubnodes(g, k, arg)
           good == {p \in subs : HasHandler(g, deeper[g.sub[k][p]])}
<1>1. subs \in SUBSET Nat /\ \A p \in subs : p \in 1..Len(g.sub[k]) /\ g.sub[k][p] \in Nodes(g)
  BY MatchingSubnodes
<1>2. r = IF subs = {} THEN k
          ELSE IF Cardinality(subs) = 1 THEN deeper[g.sub[k][Min(subs)]]
          ELSE IF good = {} THEN g.sub[k][Min(subs)]
          ELSE deeper[g.sub[k][Min(good)]]
  BY DEF Follow
<1>3. \A p \in subs : g.sub[k][p] \in ToSet(g.sub[k]) /\ g.name[g.sub[k][p]] \in {arg} \cup AnyNames
  <2>1. g.sub[k] \in Seq(Nat)
    BY GraphTypes
  <2>2. ToSet(g.sub[k]) = {g.sub[k][p] : p \in 1..Len(g.sub[k])}
    BY <2>1, ToSetOf
  <2>3. Position(g, k, arg) # 0 => g.name[g.sub[k][Position(g, k, arg)]] = arg
    BY PositionFound
  <2>4. \A p \in subs : g.name[g.sub[k][p]] \in {arg} \cup AnyNames
    BY <2>3 DEF getMatchingSubnodes
  <2> QED BY <1>1, <2>2, <2>4
<1>4. good \subseteq subs
  OBVIOUS
<1> HIDE DEF subs, good
<1>5. subs # {} => Min(subs) \in subs
  BY <1>1, MinIsIn
<1>6. good # {} => Min(good) \in subs
  <2>1. good \in SUBSET Nat
    BY <1>1, <1>4
  <2>2. good # {} => Min(good) \in good
    BY <2>1, MinIsIn
  <2> QED BY <1>4, <2>2
<1>7. r = k \/ \E p \in subs : r \in {g.sub[k][p], deeper[g.sub[k][p]]}
  BY <1>2, <1>5, <1>6
<1> QED BY <1>3, <1>7

\* Where arguments lead to, some of them fit a way to.
LEMMA EvaluatedFits ==
    ASSUME NEW N, NEW H, NEW g \in Graphs(N, H), NEW args, Len(args) \in Nat
    PROVE  FitsSome(N, g, args, evaluateCommandArguments(g, args))
<1> DEFINE m == Len(args)
<1>1. PICK R : Evaluates(R, g, args)
  BY Evaluated
<1>2. /\ R[0] = [k \in Nodes(g) |-> k]
      /\ \A n \in 0..m : R[n] \in [Nodes(g) -> Nodes(g)]
      /\ \A n \in 1..m : \A k \in Nodes(g) : R[n][k] = Follow(g, k, args[m - n + 1], R[n - 1])
      /\ evaluateCommandArguments(g, args) = R[m][1]
  BY <1>1 DEF Evaluates
<1>3. m \in Nat /\ m = Len(args)
  OBVIOUS
<1> HIDE DEF m
<1> DEFINE D == {n \in 0..m : \A k \in Nodes(g) : Fits(N, g, args, m - n, k) => FitsSome(N, g, args, R[n][k])}
<1>4. 0 \in D
  <2>1. ASSUME NEW k \in Nodes(g), Fits(N, g, args, m - 0, k) PROVE FitsSome(N, g, args, R[0][k])
    <3>1. R[0][k] = k /\ m - 0 = m /\ m \in 0..Len(args)
      BY <1>2, <1>3
    <3> QED BY <2>1, <3>1 DEF FitsSome
  <2> QED BY <1>3, <2>1
<1>5. ASSUME NEW n \in 1..m, n - 1 \in D PROVE n \in D
  <2>0. PICK i : i = m - n
    OBVIOUS
  <2>1. /\ i = m - n /\ i \in Nat /\ m - n + 1 = i + 1 /\ m - (n - 1) = i + 1 /\ i \in 0..Len(args)
        /\ i + 1 \in 0..Len(args) /\ n \in 0..m /\ n - 1 \in 0..m
    BY <1>3, <2>0
  <2>2. ASSUME NEW k \in Nodes(g), Fits(N, g, args, i, k) PROVE FitsSome(N, g, args, R[n][k])
    <3>1. PICK deeper \in [Nodes(g) -> Nodes(g)] : deeper = R[n - 1]
      BY <1>2, <2>1
    <3>2. R[n][k] = Follow(g, k, args[i + 1], deeper)
      BY <1>2, <2>1, <3>1
    <3>3. \/ R[n][k] = k
          \/ \E j \in ToSet(g.sub[k]) : g.name[j] \in {args[i + 1]} \cup AnyNames /\ R[n][k] \in {j, deeper[j]}
      BY <3>2, FollowFits
    <3>4. CASE R[n][k] = k
      BY <2>1, <2>2, <3>4 DEF FitsSome
    <3>5. ASSUME NEW j \in ToSet(g.sub[k]), g.name[j] \in {args[i + 1]} \cup AnyNames, R[n][k] \in {j, deeper[j]}
          PROVE  FitsSome(N, g, args, R[n][k])
      <4>1. Fits(N, g, args, i + 1, j)
        BY <2>1, <2>2, <3>5, FitsOn
      <4>2. FitsSome(N, g, args, j)
        BY <2>1, <4>1 DEF FitsSome
      <4>3. j \in Nodes(g)
        BY DEF Graphs, WellFormed
      <4>4. FitsSome(N, g, args, deeper[j])
        BY <1>5, <2>1, <3>1, <4>1, <4>3
      <4> QED BY <3>5, <4>2, <4>4
    <3> QED BY <3>3, <3>4, <3>5
  <2> QED BY <2>1, <2>2
<1>6. m \in D
  <2> HIDE DEF D
  <2>1. \A n \in 0..m : n \in D
    BY <1>3, <1>4, <1>5, UpTo
  <2> QED BY <1>3, <2>1
<1>7. Fits(N, g, args, 0, 1)
  <2>1. PICK x \in Seq(N) : x = <<>> /\ Len(x) = 0
    BY EmptySeq
  <2>2. IsWay(g, x, 1)
    BY <2>1, WayNil
  <2>3. \A p \in 1..0 : x[p] \in {args[p]} \cup AnyNames
    OBVIOUS
  <2> QED BY <2>1, <2>2, <2>3 DEF Fits
<1>8. m - m = 0 /\ 1 \in Nodes(g)
  BY <1>3, GraphTypes
<1> QED BY <1>2, <1>6, <1>7, <1>8

\* Arguments that are all names of a way lead to its end.
LEMMA EvaluatedNames ==
    ASSUME NEW N, NEW H, NEW g \in Graphs(N, H), NEW args, Len(args) \in Nat,
           \A p \in 1..Len(args) : args[p] \notin AnyNames, NEW n, IsWay(g, args, n)
    PROVE  evaluateCommandArguments(g, args) = n
<1> DEFINE m == Len(args)
<1>1. PICK R : Evaluates(R, g, args)
  BY Evaluated
<1>2. /\ R[0] = [k \in Nodes(g) |-> k]
      /\ \A i \in 0..m : R[i] \in [Nodes(g) -> Nodes(g)]
      /\ \A i \in 1..m : \A k \in Nodes(g) : R[i][k] = Follow(g, k, args[m - i + 1], R[i - 1])
      /\ evaluateCommandArguments(g, args) = R[m][1]
  BY <1>1 DEF Evaluates
<1>3. PICK v : Walks(g, v, args, n)
  BY DEF IsWay
<1>4. /\ v \in [0..m -> Nodes(g)] /\ v[0] = 1 /\ v[m] = n
      /\ \A p \in 1..m : v[p] \in ToSet(g.sub[v[p - 1]]) /\ g.name[v[p]] = args[p]
  BY <1>3 DEF Walks
<1>5. m \in Nat /\ m = Len(args)
  OBVIOUS
<1> HIDE DEF m
<1> DEFINE D == {i \in 0..m : R[i][v[m - i]] = n}
<1>6. 0 \in D
  <2>1. m - 0 = m /\ m \in 0..m /\ 0 \in 0..m
    BY <1>5
  <2>2. v[m] \in Nodes(g)
    BY <1>4, <2>1
  <2> QED BY <1>2, <1>4, <2>1, <2>2
<1>7. ASSUME NEW i \in 1..m, i - 1 \in D PROVE i \in D
  <2>0. PICK p : p = m - i + 1
    OBVIOUS
  <2>1. /\ p \in 1..m /\ p = m - i + 1 /\ p - 1 = m - i /\ m - (i - 1) = p /\ p - 1 \in 0..m
        /\ i \in 0..m /\ i - 1 \in 0..m
    BY <1>5, <2>0
  <2>2. v[p - 1] \in Nodes(g) /\ v[p] \in ToSet(g.sub[v[p - 1]]) /\ g.name[v[p]] = args[p]
    BY <1>4, <2>1
  <2>3. args[p] \notin AnyNames
    BY <1>5, <2>1
  <2>4. PICK deeper \in [Nodes(g) -> Nodes(g)] : deeper = R[i - 1]
    BY <1>2, <2>1
  <2>5. Follow(g, v[p - 1], g.name[v[p]], deeper) = deeper[v[p]]
    BY <2>2, <2>3, FollowName
  <2>6. R[i][v[p - 1]] = Follow(g, v[p - 1], args[p], R[i - 1])
    BY <1>2, <2>1, <2>2
  <2>7. R[i - 1][v[p]] = n
    BY <1>7, <2>1
  <2>8. R[i][v[p - 1]] = n
    BY <2>2, <2>4, <2>5, <2>6, <2>7
  <2> QED BY <2>1, <2>8
<1>8. m \in D
  <2> HIDE DEF D
  <2>1. \A i \in 0..m : i \in D
    BY <1>5, <1>6, <1>7, UpTo
  <2> QED BY <1>5, <2>1
<1>9. m - m = 0
  BY <1>5
<1> QED BY <1>2, <1>4, <1>8, <1>9

\* The arguments name what x names, and nothing of the graph where x has a value.
AnswersAll(g, args, x) ==
    /\ Len(args) = Len(x)
    /\ \A p \in 1..Len(x) :
         \/ args[p] = x[p]
         \/ x[p] \in AnyNames /\ \A k \in Nodes(g) \ {1} : g.name[k] # args[p]

\* Arguments for a way to a node with a handler lead to a node with one.
LEMMA EvaluatedFinds ==
    ASSUME NEW N, NEW H, NEW g \in Graphs(N, H), Unentered(g), NEW x \in Seq(N), NEW args,
           AnswersAll(g, args, x), NEW e, IsWay(g, x, e), HasHandler(g, e)
    PROVE  HasHandler(g, evaluateCommandArguments(g, args))
<1> DEFINE m == Len(args)
<1>0. Len(args) \in Nat /\ Len(args) = Len(x)
  BY LenProperties DEF AnswersAll
<1>1. PICK R : Evaluates(R, g, args)
  BY <1>0, Evaluated
<1>2. /\ R[0] = [k \in Nodes(g) |-> k]
      /\ \A i \in 0..m : R[i] \in [Nodes(g) -> Nodes(g)]
      /\ \A i \in 1..m : \A k \in Nodes(g) : R[i][k] = Follow(g, k, args[m - i + 1], R[i - 1])
      /\ evaluateCommandArguments(g, args) = R[m][1]
  BY <1>1 DEF Evaluates
<1>3. PICK v : Walks(g, v, x, e)
  BY DEF IsWay
<1>4. /\ v \in [0..m -> Nodes(g)] /\ v[0] = 1 /\ v[m] = e
      /\ \A p \in 1..m : v[p] \in ToSet(g.sub[v[p - 1]]) /\ g.name[v[p]] = x[p]
  BY <1>0, <1>3 DEF Walks
<1>5. m \in Nat /\ m = Len(args) /\ m = Len(x)
  BY <1>0
<1> HIDE DEF m
<1>6. ASSUME NEW p \in 1..m, p - 1 \in 0..m PROVE Answers(g, v[p - 1], args[p], v[p])
  <2>1. v[p - 1] \in Nodes(g) /\ g.name[v[p]] = x[p]
    BY <1>4, <1>6
  <2>2. ToSet(g.sub[v[p - 1]]) \subseteq Nodes(g) \ {1}
    BY <2>1 DEF Unentered, Graphs, WellFormed
  <2> QED BY <1>5, <2>1, <2>2 DEF AnswersAll, Answers
<1> DEFINE D == {i \in 0..m : HasHandler(g, R[i][v[m - i]])}
<1>7. 0 \in D
  <2>1. m - 0 = m /\ m \in 0..m /\ 0 \in 0..m
    BY <1>5
  <2>2. v[m] \in Nodes(g)
    BY <1>4, <2>1
  <2>3. R[0][v[m - 0]] = e
    BY <1>2, <1>4, <2>1, <2>2
  <2> QED BY <2>1, <2>3
<1>8. ASSUME NEW i \in 1..m, i - 1 \in D PROVE i \in D
  <2>0. PICK p : p = m - i + 1
    OBVIOUS
  <2>1. /\ p \in 1..m /\ p = m - i + 1 /\ p - 1 = m - i /\ m - (i - 1) = p /\ p - 1 \in 0..m
        /\ i \in 0..m /\ i - 1 \in 0..m
    BY <1>5, <2>0
  <2>2. v[p - 1] \in Nodes(g) /\ v[p] \in ToSet(g.sub[v[p - 1]])
    BY <1>4, <2>1
  <2>3. PICK k \in Nodes(g) : k = v[p - 1]
    BY <2>2
  <2>4. PICK j \in ToSet(g.sub[k]) : j = v[p]
    BY <2>2, <2>3
  <2>5. PICK deeper \in [Nodes(g) -> Nodes(g)] : deeper = R[i - 1]
    BY <1>2, <2>1
  <2>6. PICK arg : arg = args[p] /\ Answers(g, k, arg, j)
    BY <1>6, <2>1, <2>3, <2>4
  <2>7. HasHandler(g, deeper[j])
    BY <1>8, <2>1, <2>4, <2>5
  <2>8. HasHandler(g, Follow(g, k, arg, deeper))
    BY <2>6, <2>7, FollowFinds
  <2>9. R[i][k] = Follow(g, k, arg, deeper)
    BY <1>2, <2>1, <2>5, <2>6
  <2>10. HasHandler(g, R[i][v[m - i]])
    BY <2>1, <2>3, <2>8, <2>9
  <2> QED BY <2>1, <2>10
<1>9. m \in D
  <2> HIDE DEF D
  <2>1. \A i \in 0..m : i \in D
    BY <1>5, <1>7, <1>8, UpTo
  <2> QED BY <1>5, <2>1
<1>10. m - m = 0
  BY <1>5
<1>11. HasHandler(g, R[m][v[m - m]])
  BY <1>9
<1> QED BY <1>2, <1>4, <1>10, <1>11
-----------------------------------------------------------------------------
(***************************************************************************)
(* The call: the handler that ran is that of the node its arguments lead   *)
(* to, and in a plain table the graph means what the table says.           *)
(***************************************************************************)
CallInv ==
    /\ reply # NoCall =>
         /\ m_cmdMap /\ reply.args \in ArgLists
         /\ reply.handler = graph.handler[evaluateCommandArguments(graph, reply.args)]
    /\ Plain => Means(graph, added)

LEMMA PlainIs == Plain <=> IsPlain(added)
  BY DEF Plain, IsPlain, TextOf, TextIn

LEMMA NotEntered ==
    ASSUME TableInv
    PROVE  Unentered(graph)
<1>1. \A k \in Nodes(graph) : \A n \in ToSet(graph.sub[k]) : n # 1
  BY DEF TableInv, Ordered
<1> QED BY <1>1 DEF Unentered

LEMMA CallInvInit == TableInit => CallInv
<1> SUFFICES ASSUME TableInit PROVE CallInv
  OBVIOUS
<1>1. graph = FirstNode(CmdName) /\ added = <<>> /\ reply = NoCall
  BY DEF TableInit
<1>2. Means(graph, added)
  BY <1>1, NothingMeans
<1> QED BY <1>1, <1>2 DEF CallInv

LEMMA CallInvNext == TableInv /\ CallInv /\ [TableNext]_tableVars => CallInv'
<1> SUFFICES ASSUME TableInv, CallInv, [TableNext]_tableVars PROVE CallInv'
  OBVIOUS
<1>1. ASSUME NEW s \in DOMAIN Syntaxes, NEW h \in Handlers, addSyntax(s, h) PROVE CallInv'
  <2>1. /\ ~m_cmdMap /\ UNCHANGED <<m_cmdMap, reply, stuck>>
        /\ graph' = AddSyntax(graph, <<CmdName>> \o Syntaxes[s], h)
        /\ added' = Append(added, [syntax |-> s, handler |-> h])
    BY <1>1 DEF addSyntax
  <2>2. reply' = NoCall'
    <3>1. reply = NoCall
      BY <2>1 DEF CallInv
    <3> QED BY <2>1, <3>1 DEF NoCall
  <2>3. ASSUME Plain' PROVE Means(graph', added')
    <3>0. PICK e : e = [syntax |-> s, handler |-> h]
      OBVIOUS
    <3>1. PICK d \in Defs : d = e /\ d.syntax = s /\ d.handler = h
      BY <3>0 DEF Defs
    <3>2. PICK a \in Seq(Defs) : a = added
      BY DEF TableInv, Defs
    <3>3. PICK b : b = added' /\ b = Append(a, d)
      BY <2>1, <3>0, <3>1, <3>2
    <3>4. PICK m : OneMore(a, d, b, m)
      BY <3>3, DefsAppended
    <3>5. IsPlain(b)
      BY <2>3, <3>3 DEF Plain, IsPlain, TextOf, TextIn
    <3>6. PICK g \in TableGraphs : g = graph /\ g.name[1] = CmdName /\ Unentered(g)
      BY NotEntered DEF TableInv
    <3>7. Means(g, a)
      <4>1. m \in DOMAIN b /\ \A j \in DOMAIN a : j \in DOMAIN b /\ TextIn(b, j) = TextIn(a, j)
        BY <3>4 DEF OneMore
      <4>2. IsPlain(a)
        BY <3>5, <4>1 DEF IsPlain
      <4>3. Plain
        BY <3>2, <4>2, PlainIs
      <4> QED BY <3>2, <3>6, <4>3 DEF CallInv
    <3>8. PICK f : f = graph' /\ f = AddSyntax(g, <<CmdName>> \o Syntaxes[d.syntax], d.handler)
      BY <2>1, <3>1, <3>6
    <3>9. Means(f, b)
      BY <3>4, <3>5, <3>6, <3>7, <3>8, MeansExtended
    <3> QED BY <3>3, <3>8, <3>9
  <2> QED BY <2>2, <2>3 DEF CallInv
<1>2. CASE addCommand
  <2>1. m_cmdMap' = TRUE /\ UNCHANGED <<graph, added, reply, stuck>>
    BY <1>2 DEF addCommand
  <2> QED BY <2>1 DEF CallInv, NoCall, Plain, TextOf
<1>3. ASSUME NEW args \in ArgLists, executeCmd(args) PROVE CallInv'
  <2>1. /\ m_cmdMap /\ UNCHANGED <<graph, added, m_cmdMap>>
        /\ reply' = [args |-> args, handler |-> graph.handler[evaluateCommandArguments(graph, args)]]
    BY <1>3 DEF executeCmd
  <2>2. reply'.args = args /\ reply'.handler = graph.handler[evaluateCommandArguments(graph, args)]
    BY <2>1
  <2>3. Plain' = Plain /\ graph' = graph /\ added' = added /\ m_cmdMap'
    BY <2>1 DEF Plain, TextOf
  <2> QED BY <2>2, <2>3 DEF CallInv
<1>4. CASE UNCHANGED tableVars
  <2>1. UNCHANGED <<graph, added, m_cmdMap, reply, stuck>>
    BY <1>4 DEF tableVars
  <2> QED BY <2>1 DEF CallInv, NoCall, Plain, TextOf
<1> QED BY <1>1, <1>2, <1>3, <1>4 DEF TableNext

LEMMA CallInvAlways == TableSpec => [](TableInv /\ CallInv)
<1>1. TableInit => TableInv /\ CallInv
  BY TableInvInit, CallInvInit
<1>2. (TableInv /\ CallInv) /\ [TableNext]_tableVars => (TableInv /\ CallInv)'
  BY TableInvNext, CallInvNext
<1> QED BY <1>1, <1>2, PTL DEF TableSpec

\* In a table whose syntaxes repeat no name and share no more than leading
\* names, findCmdHandler finds a handler only for arguments that begin with a
\* sentence of a syntax the handler was given for.
THEOREM HandlersNeedSentences == TableSpec => []RunsOnlySentences
<1>1. ASSUME TableInv, CallInv PROVE RunsOnlySentences
  <2> SUFFICES ASSUME reply # NoCall, reply.handler # NoHandler, Plain
               PROVE  \E j \in DOMAIN added :
                         /\ added[j].handler = reply.handler
                         /\ \E x \in Allowed(j) : BeginsWith(reply.args, x)
    BY DEF RunsOnlySentences
  <2>1. PICK args : args = reply.args
    OBVIOUS
  <2>2. PICK k : k = evaluateCommandArguments(graph, args)
    OBVIOUS
  <2>3. args \in ArgLists /\ reply.handler = graph.handler[k] /\ Means(graph, added)
    BY <1>1, <2>1, <2>2 DEF CallInv
  <2>4. Len(args) \in Nat /\ DOMAIN args = 1..Len(args)
    BY <2>3, ArgsAssumption, LenProperties
  <2>5. graph \in Graphs(TableNames, TableHandlers)
    BY <1>1 DEF TableInv, TableGraphs
  <2>6. FitsSome(TableNames, graph, args, k)
    BY <2>2, <2>4, <2>5, EvaluatedFits
  <2>7. PICK i \in 0..Len(args) : Fits(TableNames, graph, args, i, k)
    BY <2>6 DEF FitsSome
  <2>8. PICK x \in Seq(TableNames) : /\ Len(x) = i /\ IsWay(graph, x, k)
                                     /\ \A p \in 1..i : x[p] \in {args[p]} \cup AnyNames
    BY <2>7 DEF Fits
  <2>9. graph.handler[k] = HandlerFor(added, x)
    BY <2>3, <2>8 DEF Means, HandlersFit
  <2>10. With(added, x) # {} /\ reply.handler = added[Max(With(added, x))].handler
    BY <2>3, <2>9 DEF HandlerFor
  <2>11. With(added, x) \subseteq DOMAIN added
    BY DEF With
  <2>12. Max(With(added, x)) \in With(added, x)
    <3>1. Len(added) \in Nat /\ DOMAIN added = 1..Len(added)
      BY <1>1, LenProperties DEF TableInv
    <3> QED BY <2>10, <2>11, <3>1, MaxIsIn
  <2>13. PICK j \in DOMAIN added : j \in With(added, x) /\ added[j].handler = reply.handler
    BY <2>10, <2>11, <2>12
  <2>14. x \in Allowed(j)
    BY <2>13 DEF With, Allowed, TextOf, TextIn
  <2>15. BeginsWith(args, x)
    <3>1. args \in Seq(ToSet(args))
      BY <2>3, ArgsAssumption
    <3>2. PICK z \in Seq(ToSet(args)) : IsBeginning(args, i, z)
      BY <3>1, Beginning
    <3>3. z = SubSeq(args, 1, Len(x)) /\ Len(z) = Len(x) /\ \A p \in 1..i : z[p] = args[p]
      BY <2>8, <3>2 DEF IsBeginning
    <3>4. DOMAIN x = 1..i
      BY <2>8, LenProperties
    <3>5. \A p \in DOMAIN x : x[p] \in {z[p]} \cup AnyNames
      BY <2>8, <3>3, <3>4
    <3>6. Len(x) <= Len(args)
      BY <2>4, <2>8
    <3> QED BY <3>3, <3>5, <3>6 DEF BeginsWith, IsSentence
  <2> QED BY <2>1, <2>13, <2>14, <2>15
<1> QED BY <1>1, CallInvAlways, PTL

\* In such a table a sentence of names runs the handler that was given for it
\* last: the syntaxes around it, their order and the alternatives they are
\* written with do not matter.
THEOREM SentencesAlwaysRun == TableSpec => []SentencesRun
<1>1. ASSUME TableInv, CallInv PROVE SentencesRun
  <2>1. PICK args : args = reply.args
    OBVIOUS
  <2>2. With(added, args) = {j \in DOMAIN added : reply.args \in Allowed(j)}
    BY <2>1 DEF With, Allowed, TextOf, TextIn
  <2> SUFFICES ASSUME reply # NoCall, Plain, ToSet(args) \cap AnyNames = {}, With(added, args) # {}
               PROVE  reply.handler = added[Max(With(added, args))].handler
    BY <2>1, <2>2 DEF SentencesRun
  <2>3. PICK k : k = evaluateCommandArguments(graph, args)
    OBVIOUS
  <2>4. args \in ArgLists /\ reply.handler = graph.handler[k] /\ Means(graph, added)
    BY <1>1, <2>1, <2>3 DEF CallInv
  <2>5. args \in Seq(TableNames) /\ \E n : IsWay(graph, args, n)
    BY <2>4 DEF Means, SentencesLead
  <2>6. PICK n : IsWay(graph, args, n)
    BY <2>5
  <2>7. k = n
    <3>1. graph \in Graphs(TableNames, TableHandlers)
      BY <1>1 DEF TableInv, TableGraphs
    <3>2. Len(args) \in Nat
      BY <2>5, LenProperties
    <3>3. \A p \in 1..Len(args) : args[p] \notin AnyNames
      <4>1. ToSet(args) = {args[p] : p \in 1..Len(args)}
        BY <2>5, ToSetOf
      <4> QED BY <4>1
    <3> QED BY <2>3, <2>6, <3>1, <3>2, <3>3, EvaluatedNames
  <2>8. graph.handler[n] = HandlerFor(added, args)
    BY <2>4, <2>5, <2>6 DEF Means, HandlersFit
  <2> QED BY <2>4, <2>7, <2>8 DEF HandlerFor
<1> QED BY <1>1, CallInvAlways, PTL

\* In such a table a sentence runs something with any values that are no
\* names of the table: a value that several names in < > would take goes to
\* one that leads to a handler.
THEOREM ValuesAlwaysRun == TableSpec => []ValuesRun
<1>1. ASSUME TableInv, CallInv PROVE ValuesRun
  <2> SUFFICES ASSUME reply # NoCall, Plain, NEW j \in DOMAIN added, NEW x \in Allowed(j),
                      IsSentence(reply.args, x), ValuesGiven(reply.args, x)
               PROVE  reply.handler # NoHandler
    BY DEF ValuesRun
  <2>1. PICK args : args = reply.args
    OBVIOUS
  <2>2. reply.handler = graph.handler[evaluateCommandArguments(graph, args)] /\ Means(graph, added)
    BY <1>1, <2>1 DEF CallInv
  <2>3. j \in With(added, x)
    BY DEF With, Allowed, TextOf, TextIn
  <2>4. x \in Seq(TableNames) /\ \E e : IsWay(graph, x, e)
    BY <2>2, <2>3 DEF Means, SentencesLead
  <2>5. PICK e : IsWay(graph, x, e)
    BY <2>4
  <2>6. HasHandler(graph, e)
    <3>1. graph.handler[e] = added[Max(With(added, x))].handler
      BY <2>2, <2>3, <2>4, <2>5 DEF Means, HandlersFit, HandlerFor
    <3>2. Max(With(added, x)) \in With(added, x)
      <4>1. With(added, x) \subseteq DOMAIN added
        BY DEF With
      <4>2. Len(added) \in Nat /\ DOMAIN added = 1..Len(added)
        BY <1>1, LenProperties DEF TableInv
      <4> QED BY <2>3, <4>1, <4>2, MaxIsIn
    <3>3. PICK i \in DOMAIN added : i = Max(With(added, x))
      BY <3>2 DEF With
    <3>4. added[i].handler \in Handlers
      <4>1. added[i] \in [syntax : DOMAIN Syntaxes, handler : Handlers]
        BY <1>1, LenProperties, ElementOfSeq DEF TableInv
      <4> QED BY <4>1
    <3> QED BY <3>1, <3>3, <3>4, HandlerAssumption DEF HasHandler
  <2>7. AnswersAll(graph, args, x)
    <3>1. Len(args) = Len(x) /\ DOMAIN x = 1..Len(x)
      BY <2>1, <2>4, LenProperties DEF IsSentence
    <3>2. ASSUME NEW p \in 1..Len(x), x[p] \in AnyNames, NEW k \in Nodes(graph) \ {1}
          PROVE  graph.name[k] # args[p]
      <4>1. \A i \in DOMAIN added : args[p] \notin NamesIn(TextOf(i))
        BY <2>1, <3>1, <3>2 DEF ValuesGiven
      <4>2. PICK i \in DOMAIN added : graph.name[k] \in NamesIn(TextIn(added, i))
        BY <2>2 DEF Means, NamesKnown
      <4>3. TextIn(added, i) = TextOf(i)
        BY DEF TextIn, TextOf
      <4> QED BY <4>1, <4>2, <4>3
    <3>3. \A p \in 1..Len(x) : x[p] \in {args[p]} \cup AnyNames
      BY <2>1, <3>1 DEF IsSentence
    <3> QED BY <3>1, <3>2, <3>3 DEF AnswersAll
  <2>8. graph \in Graphs(TableNames, TableHandlers) /\ Unentered(graph)
    BY <1>1, NotEntered DEF TableInv, TableGraphs
  <2>9. HasHandler(graph, evaluateCommandArguments(graph, args))
    BY <2>4, <2>5, <2>6, <2>7, <2>8, EvaluatedFinds
  <2> QED BY <2>2, <2>9 DEF HasHandler
<1> QED BY <1>1, CallInvAlways, PTL
=============================================================================
