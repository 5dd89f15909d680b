------------------------------ MODULE MC_shell ------------------------------
(***************************************************************************)
(* One shell session with lists longer than the table, entries that occur  *)
(* twice, and entries read from beyond the reply.                          *)
(***************************************************************************)
EXTENDS ShellSession
=============================================================================
