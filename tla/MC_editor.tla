----------------------------- MODULE MC_editor -----------------------------
(***************************************************************************)
(* A history of three lines, so that a fourth drops the first, and lines   *)
(* of two characters, so that the cursor can stand in the middle.          *)
(***************************************************************************)
EXTENDS LineEditor

\* Enough lines to drop one, and enough characters for a line of two.
ASSUME MaxEntered > MAX_HISTORY_CMDS /\ MaxChars > MAX_HISTORY_CMDS /\ MaxLine > 1
=============================================================================
