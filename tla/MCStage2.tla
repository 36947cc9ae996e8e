------------------------------ MODULE MCStage2 ------------------------------
(***************************************************************************)
(* Memory maps and kernel images for TLC: pages of 4, so that regions can  *)
(* end inside a page, and tables of 4 pages.                               *)
(***************************************************************************)
EXTENDS Stage2

Region(b, n, t) == [base |-> b, length |-> n, type |-> t]

\* Low memory and RAM above it, each ending on or inside a page; the RAM may
\* reach the top, or the page that ends there.
MCMaps ==
  { <<Region(0, low, 1), Region(16, high, 1), Region(40, 8, 2)>> :
      low \in {7, 8, 10}, high \in {8, 13, 19, 24} }
  \cup
  { <<Region(0, low, 1), Region(28, high, 1), Region(12, 4, 2)>> :
      low \in {7, 8}, high \in {13, 18, 20} }

Bss(a, n)    == [nobits |-> TRUE, alloc |-> TRUE, addr |-> a, size |-> n]
Text(a, n)   == [nobits |-> FALSE, alloc |-> TRUE, addr |-> a, size |-> n]
Debug(n)     == [nobits |-> TRUE, alloc |-> FALSE, addr |-> 0, size |-> n]
Seg(a, f, m) == [load |-> TRUE, vaddr |-> a, filesz |-> f, memsz |-> m, plow |-> 0]
Note         == [load |-> FALSE, vaddr |-> 0, filesz |-> 0, memsz |-> 0, plow |-> 0]

\* One segment with text, data, which need not start on a page, and .bss.
OneSegment ==
  { [sections |-> <<Text(32, t - 1), Text(31 + t, 1), Bss(32 + 4 * ((t + 3) \div 4), b), Debug(3)>>,
     segments |-> <<Seg(32, t, 4 * ((t + 3) \div 4) + b), Note>>] : t \in {3, 4, 6}, b \in {0, 2, 4} }

\* Text and data in segments of their own.
TwoSegments ==
  { [sections |-> <<Text(32, 4), Text(36, 4)>>, segments |-> <<Seg(32, 4, 4), Seg(36, 4, 4)>>] }

\* A note comes first.
NoteFirst ==
  { [sections |-> <<Text(32, 4)>>, segments |-> <<Note, Seg(32, 4, 4)>>] }

MCImages == OneSegment \cup TwoSegments \cup NoteFirst
=============================================================================
