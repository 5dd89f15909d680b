------------------------- MODULE ClidCommands_proofs -------------------------
(***************************************************************************)
(* The command registry for every number of slots, names, mailboxes and    *)
(* registrations.                                                          *)
(***************************************************************************)
EXTENDS ClidCommands, SearchTree_proofs, FiniteSetTheorems

LEMMA CmdConstants ==
    /\ MAX_NUM_CMDS \in Nat \ {0} /\ Names \subseteq Nat \ {0}
    /\ CountMod \in Nat /\ MaxRegs \in Nat /\ MaxRegs < CountMod
  BY CmdSlotsAssumption, NamesAssumption, CountAssumption

\* The registry's inductive invariant: besides what is claimed, cmd_count
\* never falls behind the number of named slots.
CmdInv == CmdTypeOK /\ RegisteredInTree /\ CountCoversEntries /\ ExactUntilFirstDereg

LEMMA CmdNameType ==
    ASSUME NEW table \in [CmdSlot -> Command]
    PROVE  CmdName(table) \in [CmdSlot -> Int]
<1>1. ASSUME NEW i \in CmdSlot PROVE table[i].name \in Int
  <2>1. table[i] \in Command
    OBVIOUS
  <2>2. table[i].name \in Names \cup {Unnamed}
    BY <2>1 DEF Command
  <2>3. Names \cup {Unnamed} \subseteq Int
    BY NamesAssumption DEF Unnamed
  <2> QED BY <2>2, <2>3, Zenon
<1> QED BY <1>1 DEF CmdName

LEMMA EntriesFinite ==
    IsFiniteSet(Entries) /\ Cardinality(Entries) \in Nat
<1>1. IsFiniteSet(CmdSlot)
  BY CmdConstants, FS_Interval DEF CmdSlot
<1>2. IsFiniteSet(Entries)
  BY <1>1, FS_Subset DEF Entries
<1> QED BY <1>2, FS_CardinalityType

-----------------------------------------------------------------------------
LEMMA CmdInitInv == CmdInit => CmdInv
<1> SUFFICES ASSUME CmdInit PROVE CmdInv
  OBVIOUS
<1>1. CmdTypeOK
  BY CmdConstants DEF CmdInit, CmdTypeOK, FreeCmd, Command, Unnamed
<1>2. Entries = {}
  BY DEF CmdInit, Entries, FreeCmd
<1>3. Cardinality(Entries) = 0
  BY <1>2, FS_EmptySet
<1>4. ToSet(cmd_tree) = {} /\ SortedBy(cmd_tree, CmdName(cmds))
  BY DEF CmdInit, ToSet, SortedBy
<1> QED BY <1>1, <1>2, <1>3, <1>4
        DEF CmdInv, RegisteredInTree, CountCoversEntries, ExactUntilFirstDereg, CmdInit

\* A registration that is accepted keeps the invariant.
LEMMA RegAcceptedInv ==
    ASSUME CmdInv, NEW n \in Names, NEW m \in Mbox, cmd_count < MaxRegs, RegAccepted(n, m)
    PROVE  CmdInv'
<1>1. PICK i \in CmdSlot :
        /\ FirstFreeCmd(i)
        /\ cmds' = [cmds EXCEPT ![i] = [name |-> n, mbox |-> m]]
        /\ cmd_tree' \in Inserts(cmd_tree, CmdName(cmds'), n, i)
  BY DEF RegAccepted
<1>2. /\ cmds \in [CmdSlot -> Command]
      /\ cmd_tree \in Seq(CmdSlot)
      /\ cmd_count \in 0..(CountMod - 1)
  BY DEF CmdInv, CmdTypeOK
<1>3. cmds' \in [CmdSlot -> Command]
  BY <1>1, <1>2 DEF Command
<1>4. n # Unnamed /\ cmds[i].name = Unnamed
  BY <1>1, CmdConstants DEF FirstFreeCmd, Unnamed
<1>5. Entries' = Entries \cup {i} /\ i \notin Entries
  BY <1>1, <1>2, <1>4 DEF Entries, Command
<1>6. cmd_tree' \in Seq(CmdSlot) /\ ToSet(cmd_tree') = ToSet(cmd_tree) \cup {i}
  BY <1>1, <1>2, InsertsElements
<1>7. cmd_count' = cmd_count + 1 /\ cmd_count' \in 0..(CountMod - 1)
  <2>1. cmd_count + 1 \in 0..(CountMod - 1)
    BY <1>2, CmdConstants
  <2>2. (cmd_count + 1) % CountMod = cmd_count + 1
    BY <2>1, CmdConstants
  <2> QED BY <2>1, <2>2 DEF RegAccepted
<1>8. Cardinality(Entries') = Cardinality(Entries) + 1
  BY <1>5, EntriesFinite, FS_AddElement
<1>9. CmdTypeOK'
  BY <1>3, <1>6, <1>7 DEF CmdTypeOK
<1>10. RegisteredInTree'
  BY <1>5, <1>6 DEF CmdInv, RegisteredInTree
<1>11. CountCoversEntries'
  BY <1>2, <1>7, <1>8, EntriesFinite DEF CmdInv, CountCoversEntries
<1>12. ASSUME cmd_count' = Cardinality(Entries')
       PROVE  ToSet(cmd_tree') = Entries' /\ SortedBy(cmd_tree', CmdName(cmds'))
  <2>1. cmd_count = Cardinality(Entries)
    BY <1>2, <1>7, <1>8, <1>12, EntriesFinite
  <2>2. ToSet(cmd_tree) = Entries /\ SortedBy(cmd_tree, CmdName(cmds))
    BY <2>1 DEF CmdInv, ExactUntilFirstDereg
  <2>3. CmdName(cmds') \in [CmdSlot -> Int] /\ CmdName(cmds')[i] = n
    BY <1>1, <1>2, <1>3, CmdNameType DEF CmdName
  <2>4. \A p \in 1..Len(cmd_tree) : CmdName(cmds')[cmd_tree[p]] = CmdName(cmds)[cmd_tree[p]]
    <3> TAKE p \in 1..Len(cmd_tree)
    <3>1. cmd_tree[p] \in CmdSlot /\ cmd_tree[p] # i
      BY <1>2, <1>5, <2>2, ToSetOfSeq
    <3> QED BY <1>1, <1>2, <3>1 DEF CmdName
  <2>5. SortedBy(cmd_tree, CmdName(cmds'))
    BY <2>2, <2>4 DEF SortedBy
  <2>6. SortedBy(cmd_tree', CmdName(cmds'))
    BY <1>1, <1>2, <1>5, <2>2, <2>3, <2>5, InsertKeepsSorted
  <2> QED BY <1>5, <1>6, <2>2, <2>6
<1> QED BY <1>9, <1>10, <1>11, <1>12 DEF CmdInv, ExactUntilFirstDereg

\* So does a deregistration that finds its name.
LEMMA DeregInv ==
    ASSUME CmdInv, NEW n \in Names, NEW i \in Found(cmd_tree, CmdName(cmds), n),
           cmds' = [cmds EXCEPT ![i] = FreeCmd],
           cmd_tree' \in Deletes(cmd_tree, CmdName(cmds'), Unnamed),
           cmd_count' = cmd_count
    PROVE  CmdInv'
<1>1. /\ cmds \in [CmdSlot -> Command]
      /\ cmd_tree \in Seq(CmdSlot)
      /\ cmd_count \in 0..(CountMod - 1)
  BY DEF CmdInv, CmdTypeOK
<1>2. i \in CmdSlot /\ cmds[i].name = n
  <2>1. PICK p \in 1..Len(cmd_tree) : cmd_tree[p] = i /\ CmdName(cmds)[cmd_tree[p]] = n
    BY DEF Found, Hits
  <2>2. i \in CmdSlot
    BY <1>1, <2>1
  <2> QED BY <2>1, <2>2 DEF CmdName
<1>3. n # Unnamed
  BY CmdConstants DEF Unnamed
<1>4. cmds' \in [CmdSlot -> Command]
  BY <1>1, <1>2 DEF Command, FreeCmd
<1>5. Entries' = Entries \ {i} /\ i \in Entries
  BY <1>1, <1>2, <1>3 DEF Entries, FreeCmd
<1>6. /\ cmd_tree' \in Seq(CmdSlot)
      /\ \A j \in ToSet(cmd_tree) : CmdName(cmds')[j] # Unnamed => j \in ToSet(cmd_tree')
  BY <1>1, DeletesElements
<1>7. Cardinality(Entries') = Cardinality(Entries) - 1
  BY <1>5, EntriesFinite, FS_RemoveElement
<1>8. CmdTypeOK'
  BY <1>1, <1>4, <1>6 DEF CmdTypeOK
<1>9. RegisteredInTree'
  <2> SUFFICES ASSUME NEW j \in Entries' PROVE j \in ToSet(cmd_tree')
    BY DEF RegisteredInTree
  <2>1. j \in ToSet(cmd_tree)
    BY <1>5 DEF CmdInv, RegisteredInTree
  <2>2. CmdName(cmds')[j] # Unnamed
    BY DEF Entries, CmdName
  <2> QED BY <1>6, <2>1, <2>2
<1>10. Cardinality(Entries') < cmd_count'
  BY <1>1, <1>7, EntriesFinite DEF CmdInv, CountCoversEntries
<1>11. Cardinality(Entries') \in Nat
  BY <1>7, <1>5, EntriesFinite, FS_RemoveElement, FS_CardinalityType
<1> QED BY <1>1, <1>8, <1>9, <1>10, <1>11
        DEF CmdInv, CountCoversEntries, ExactUntilFirstDereg

LEMMA CmdStutterInv == CmdInv /\ UNCHANGED cmdVars => CmdInv'
  BY DEF CmdInv, CmdTypeOK, RegisteredInTree, CountCoversEntries, ExactUntilFirstDereg,
         Entries, CmdName, cmdVars

LEMMA CmdNextInv == CmdInv /\ [CmdNext]_cmdVars => CmdInv'
<1> SUFFICES ASSUME CmdInv, [CmdNext]_cmdVars PROVE CmdInv'
  OBVIOUS
<1>1. CASE UNCHANGED cmdVars
  BY <1>1, CmdStutterInv
<1>2. ASSUME NEW n \in Names, NEW m \in Mbox,
             cmd_count < MaxRegs, handle_receive_reg_cmd_request(n, m)
      PROVE  CmdInv'
  <2>1. CASE RegIgnored(n)
    BY <2>1, CmdStutterInv DEF RegIgnored
  <2>2. CASE RegAccepted(n, m)
    BY <1>2, <2>2, RegAcceptedInv
  <2> QED BY <1>2, <2>1, <2>2 DEF handle_receive_reg_cmd_request
<1>3. ASSUME NEW n \in Names, handle_receive_dereg_cmd_request(n)
      PROVE  CmdInv'
  <2>1. CASE UNCHANGED cmdVars
    BY <2>1, CmdStutterInv
  <2>2. ASSUME NEW i \in Found(cmd_tree, CmdName(cmds), n),
               cmds' = [cmds EXCEPT ![i] = FreeCmd],
               cmd_tree' \in Deletes(cmd_tree, CmdName(cmds'), Unnamed),
               cmd_count' = cmd_count
        PROVE  CmdInv'
    BY <2>2, DeregInv
  <2> QED BY <1>3, <2>1, <2>2 DEF handle_receive_dereg_cmd_request
<1> QED BY <1>1, <1>2, <1>3 DEF CmdNext

LEMMA CmdInductive == CmdSpec => []CmdInv
  BY CmdInitInv, CmdNextInv, PTL DEF CmdSpec

-----------------------------------------------------------------------------
\* Type correctness of the registry.
THEOREM CmdTypeCorrect == CmdSpec => []CmdTypeOK
<1>1. CmdInv => CmdTypeOK
  BY DEF CmdInv
<1> QED BY <1>1, CmdInductive, PTL

\* Whatever the deregistrations unlink (clid.c:1061-1078), every registered
\* command keeps a node in the tree.
THEOREM RegisteredStaysInTree == CmdSpec => []RegisteredInTree
<1>1. CmdInv => RegisteredInTree
  BY DEF CmdInv
<1> QED BY <1>1, CmdInductive, PTL

\* The buffer of a command list (clid.c:797) has room for every named slot,
\* for any number of registrations below the counter's width.
THEOREM ListBufferSuffices == CmdSpec => []CountCoversEntries
<1>1. CmdInv => CountCoversEntries
  BY DEF CmdInv
<1> QED BY <1>1, CmdInductive, PTL

\* Until the first deregistration the tree is exact and lookups cannot miss.
THEOREM RegistryExactUntilFirstDereg == CmdSpec => []ExactUntilFirstDereg
<1>1. CmdInv => ExactUntilFirstDereg
  BY DEF CmdInv
<1> QED BY <1>1, CmdInductive, PTL
=============================================================================
