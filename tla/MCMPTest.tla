------------------------------ MODULE MCMPTest ------------------------------
(***************************************************************************)
(* Module MPTest for TLC: the system calls of the programs, and no limit   *)
(* on the processes they may kill or send to.                              *)
(***************************************************************************)
EXTENDS MPTest

Calls == {"fork", "exit", "kill", "waitpid", "read", "send", "receive", "keyboard"}

=============================================================================
