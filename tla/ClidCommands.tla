---------------------------- MODULE ClidCommands ----------------------------
(***************************************************************************)
(* The command registry of the clid daemon (sw/clid/clid.c): the array     *)
(* clid_inst.cmds, the tree cmd_tree over it, and the counter cmd_count.   *)
(* Applications register and deregister command names over ITC; a shell's  *)
(* request looks a name up to find the mailbox to forward to.              *)
(*                                                                         *)
(* A name is its rank in strcmp order; rank 0 is the empty name, which     *)
(* marks a free slot.  Descriptions are not modelled.                      *)
(***************************************************************************)
EXTENDS SearchTree

CONSTANTS
    MAX_NUM_CMDS,  \* length of the array cmds
    Names,         \* the names applications register (ranks)
    Mbox,          \* the applications' mailboxes
    NoMbox,        \* ITC_NO_MBOX_ID
    CountMod,      \* 2^16: cmd_count is a uint16_t
    MaxRegs        \* bound: registrations accepted in a behaviour

ASSUME CmdSlotsAssumption == MAX_NUM_CMDS \in Nat \ {0}
ASSUME NamesAssumption    == Names \subseteq Nat \ {0}
ASSUME MboxAssumption     == NoMbox \notin Mbox
\* The counter does not wrap: see CountCoversEntries.
ASSUME CountAssumption    == CountMod \in Nat /\ MaxRegs \in Nat /\ MaxRegs < CountMod

VARIABLES
    cmds,       \* [1..MAX_NUM_CMDS -> [name, mbox]]
    cmd_tree,   \* in-order sequence of slots of cmds
    cmd_count   \* registrations ever accepted (it is never decremented)

cmdVars == <<cmds, cmd_tree, cmd_count>>

CmdSlot == 1..MAX_NUM_CMDS
Unnamed == 0
Command == [name : Names \cup {Unnamed}, mbox : Mbox \cup {NoMbox}]
FreeCmd == [name |-> Unnamed, mbox |-> NoMbox]

\* What compare_cmdname_in_cmd_tree and compare_command_in_cmd_tree compare.
CmdName(table) == [i \in CmdSlot |-> table[i].name]

Entries == {i \in CmdSlot : cmds[i].name # Unnamed}

\* No free slot below i: the array is scanned from the front.
FirstFreeCmd(i) ==
    /\ cmds[i].name = Unnamed
    /\ \A k \in CmdSlot : k < i => cmds[k].name # Unnamed

CmdInit ==
    /\ cmds = [i \in CmdSlot |-> FreeCmd]
    /\ cmd_tree = <<>>
    /\ cmd_count = 0
-----------------------------------------------------------------------------
\* The name is found, or the array is full: the request is ignored.
RegIgnored(n) ==
    /\ \/ Hits(cmd_tree, CmdName(cmds), n) # {}
       \/ CanMiss(cmd_tree, CmdName(cmds), n) /\ Entries = CmdSlot
    /\ UNCHANGED cmdVars

\* Mutants of RegAccepted: the tsearch is forgotten; it runs before the
\* name has been copied into the slot.
RegUnlinked(n, m) ==
    /\ CanMiss(cmd_tree, CmdName(cmds), n)
    /\ \E i \in CmdSlot :
         /\ FirstFreeCmd(i)
         /\ cmds' = [cmds EXCEPT ![i] = [name |-> n, mbox |-> m]]
    /\ cmd_tree' = cmd_tree
    /\ cmd_count' = (cmd_count + 1) % CountMod

RegLinkedUnnamed(n, m) ==
    /\ CanMiss(cmd_tree, CmdName(cmds), n)
    /\ \E i \in CmdSlot :
         /\ FirstFreeCmd(i)
         /\ cmds' = [cmds EXCEPT ![i] = [name |-> n, mbox |-> m]]
         /\ cmd_tree' \in Inserts(cmd_tree, CmdName(cmds), Unnamed, i)
    /\ cmd_count' = (cmd_count + 1) % CountMod

\* The name is not found: it takes the first free slot and is linked.
RegAccepted(n, m) ==
    /\ CanMiss(cmd_tree, CmdName(cmds), n)
    /\ \E i \in CmdSlot :
         /\ FirstFreeCmd(i)
         /\ cmds' = [cmds EXCEPT ![i] = [name |-> n, mbox |-> m]]
         /\ cmd_tree' \in Inserts(cmd_tree, CmdName(cmds'), n, i)
    /\ cmd_count' = (cmd_count + 1) % CountMod

handle_receive_reg_cmd_request(n, m) == RegIgnored(n) \/ RegAccepted(n, m)

\* Mutant of the next: the counter is decremented, found or not.
DeregCounted(n) ==
    /\ \/ CanMiss(cmd_tree, CmdName(cmds), n) /\ UNCHANGED <<cmds, cmd_tree>>
       \/ \E i \in Found(cmd_tree, CmdName(cmds), n) :
            /\ cmds' = [cmds EXCEPT ![i] = FreeCmd]
            /\ cmd_tree' \in Deletes(cmd_tree, CmdName(cmds'), Unnamed)
    /\ cmd_count' = cmd_count - 1

\* The slot is cleared first, so tdelete searches for the empty name.
handle_receive_dereg_cmd_request(n) ==
    \/ /\ CanMiss(cmd_tree, CmdName(cmds), n)
       /\ UNCHANGED cmdVars
    \/ /\ \E i \in Found(cmd_tree, CmdName(cmds), n) :
            /\ cmds' = [cmds EXCEPT ![i] = FreeCmd]
            /\ cmd_tree' \in Deletes(cmd_tree, CmdName(cmds'), Unnamed)
       /\ UNCHANGED cmd_count

\* The mailboxes a request for n can be forwarded to; NoMbox when the
\* lookup can miss, in which case the request is dropped.
ForwardTargets(n) ==
    {cmds[i].mbox : i \in Found(cmd_tree, CmdName(cmds), n)}
        \cup (IF CanMiss(cmd_tree, CmdName(cmds), n) THEN {NoMbox} ELSE {})

\* The command list sent to a shell: the number it announces and the names
\* that follow, in slot order.
ListReply ==
    [num_cmds |-> cmd_count,
     names    |-> SelectSeq([i \in CmdSlot |-> cmds[i].name],
                            LAMBDA n : n # Unnamed)]

CmdNext ==
    \/ \E n \in Names, m \in Mbox :
         /\ cmd_count < MaxRegs
         /\ handle_receive_reg_cmd_request(n, m)
    \/ \E n \in Names : handle_receive_dereg_cmd_request(n)

CmdSpec == CmdInit /\ [][CmdNext]_cmdVars
-----------------------------------------------------------------------------
\* Type correctness of the registry's state.
CmdTypeOK ==
    /\ cmds \in [CmdSlot -> Command]
    /\ cmd_tree \in Seq(CmdSlot)
    /\ cmd_count \in 0..(CountMod - 1)

\* A registered command always has a node in cmd_tree: the tdelete that a
\* deregistration runs with an already cleared name (clid.c:1071-1075) may
\* unlink the wrong node, but never the node of another registered command.
RegisteredInTree == Entries \subseteq ToSet(cmd_tree)

\* The buffer of a command list is sized from cmd_count and filled from the
\* named slots (clid.c:797-815): it is large enough as long as the uint16_t
\* counter has not wrapped.
CountCoversEntries == Cardinality(Entries) <= cmd_count

\* Until the first deregistration cmd_tree is exact: it holds every named
\* slot once, in strict name order, so no lookup can miss a registered name
\* and no name is registered twice.  cmd_count equals the number of named
\* slots exactly as long as nothing was deregistered.
ExactUntilFirstDereg ==
    cmd_count = Cardinality(Entries) =>
        /\ ToSet(cmd_tree) = Entries
        /\ SortedBy(cmd_tree, CmdName(cmds))

\* tcp_proto.h:38: "num_cmds: first two bytes (uint16_t): number of cmds" -
\* the announced number is the number of commands that follow.
ListCountIsExact == ListReply.num_cmds = Len(ListReply.names)
=============================================================================
