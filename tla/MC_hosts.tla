------------------------------ MODULE MC_hosts ------------------------------
(***************************************************************************)
(* The host table with two slots: three hosts fill and overflow it, and    *)
(* timers, slots and descriptor numbers are used again.                    *)
(***************************************************************************)
EXTENDS HostTable
=============================================================================
