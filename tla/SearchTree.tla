----------------------------- MODULE SearchTree -----------------------------
(***************************************************************************)
(* The binary search trees of <search.h> (tfind, tsearch, tdelete), as     *)
(* clid.c uses them for client_tree and cmd_tree.                          *)
(*                                                                         *)
(* A tree holds pointers to slots of an array; the slots' contents are the *)
(* search keys, and clid.c changes them while the nodes are linked.  The   *)
(* model is the in-order sequence of slots, `tree`, and the current key of *)
(* each slot, `key`.  The library fixes the order of the nodes but not the *)
(* shape of the tree (POSIX leaves balancing open), so an operation may    *)
(* take any root-to-leaf path that some shape with that order offers:      *)
(*   - it can stop at a node exactly when that node's key equals the one   *)
(*     searched for (a hit);                                               *)
(*   - it can fall off the tree exactly in a gap whose left neighbour is   *)
(*     smaller and whose right neighbour is larger.                        *)
(* In a tree sorted by the search key there is one outcome (proved in      *)
(* SearchTree_proofs).  When it is not sorted by that key - another        *)
(* comparator built it, or keys changed in place - both can be possible.   *)
(***************************************************************************)
EXTENDS Integers, Sequences, SequencesExt

\* The nodes at which a search for k can stop.
Hits(tree, key, k) == {p \in 1..Len(tree) : key[tree[p]] = k}

\* The gaps (after node g) into which a search for k can fall.
Gaps(tree, key, k) ==
    {g \in 0..Len(tree) : /\ g > 0         => key[tree[g]] < k
                          /\ g < Len(tree) => k < key[tree[g + 1]]}

\* tfind: the slots it can return, and whether it can return NULL.
Found(tree, key, k)   == {tree[p] : p \in Hits(tree, key, k)}
CanMiss(tree, key, k) == Gaps(tree, key, k) # {}

\* tsearch of slot s, whose key has just been set to k.  Both callers do it
\* right after a tfind of k returned NULL, on the same nodes, so the search
\* takes the same path and can only stop at an old node of s itself.
Inserts(tree, key, k, s) ==
    (IF s \in ToSet(tree) THEN {tree} ELSE {})
        \cup {InsertAt(tree, g + 1, s) : g \in Gaps(tree, key, k)}

\* tdelete of a slot whose key is k.
Deletes(tree, key, k) ==
    {RemoveAt(tree, p) : p \in Hits(tree, key, k)}
        \cup (IF CanMiss(tree, key, k) THEN {tree} ELSE {})

\* The order tsearch maintains as long as nobody changes a key in place.
SortedBy(tree, key) ==
    \A p, q \in 1..Len(tree) : p < q => key[tree[p]] < key[tree[q]]
=============================================================================
