---------------------------- MODULE MC_register ----------------------------
(***************************************************************************)
(* An application with two threads and one restart, three names of which   *)
(* one is clipped, and a daemon with two slots.                            *)
(***************************************************************************)
EXTENDS CmdRegister

MCMbox == (0..MaxRestarts) \X Thread

\* The bound on registrations does not stop the daemon.
ASSUME MaxCalls < MaxRegs
=============================================================================
