------------------------------ MODULE MC_clid -------------------------------
(***************************************************************************)
(* The daemon with two or three shells, one command and one application    *)
(* mailbox.  Fd leaves one descriptor more than the slots can hold, for    *)
(* the connection that finds the table full.                               *)
(***************************************************************************)
EXTENDS Clid

\* The daemon treats connections alike: it orders descriptors, not shells.
ConnSymmetry == Permutations(Conn)

\* One request more than this would wrap the job counter.
ASSUME MaxRequests < JobIdMod
=============================================================================
