-------------------------------- MODULE MCPmm -------------------------------
(***************************************************************************)
(* Small page lists for TLC: page 0 is the initial list page, the map has  *)
(* NumPages further pages.                                                 *)
(***************************************************************************)
EXTENDS Pmm

CONSTANT NumPages

MCListed == [i \in 1 .. NumPages |-> i]
=============================================================================
