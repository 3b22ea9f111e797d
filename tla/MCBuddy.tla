------------------------------- MODULE MCBuddy -------------------------------
(***************************************************************************)
(* Module Buddy for TLC: an area of eight granules of two bytes.           *)
(***************************************************************************)
EXTENDS Buddy

(* One request for each order, powers of two among them, one that fits no  *)
(* block and one of no byte.                                               *)
MCRequests == {0, 2, 7, 8, 16}

=============================================================================
