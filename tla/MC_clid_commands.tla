-------------------------- MODULE MC_clid_commands --------------------------
(***************************************************************************)
(* The registry with three slots, up to four names and two mailboxes.      *)
(***************************************************************************)
EXTENDS ClidCommands

\* The code never compares mailboxes.
MboxSymmetry == Permutations(Mbox)
=============================================================================
