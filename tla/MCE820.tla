------------------------------- MODULE MCE820 -------------------------------
(***************************************************************************)
(* BIOS memory maps for TLC: four entries of three types, apart,           *)
(* touching or overlapping, that end below, at or beyond the top.          *)
(***************************************************************************)
EXTENDS E820

Region(b, l, t) == [base |-> b, length |-> l, type |-> t]

MCMaps ==
  {<<Region(0, l[1], 1), Region(2, l[2], t[2]), Region(5, l[3], t[3]), Region(b, l[4], t[4])>> :
     l \in [1 .. 4 -> {2, 3, 10}], t \in [2 .. 4 -> 1 .. 3], b \in {6, 14, 16}}
=============================================================================
