------------------------------ MODULE MCPaging ------------------------------
(***************************************************************************)
(* Module Paging for TLC: eight pages of two bytes, two to a table.  Page  *)
(* 0 is the kernel's, 2 and 3 are text, 4 and 5 data, 6 is the stack.      *)
(***************************************************************************)
EXTENDS Paging

(* No page, a page and a half.                                             *)
MCFileSizes == {0, 3}

(* Part of the first page of data, and both.                               *)
MCBrkArgs   == {9, 12}

ASSUME BrkBelowStack == SafeBrk

=============================================================================
