------------------------------- MODULE MCKvm -------------------------------
(***************************************************************************)
(* Four tables for TLC: the kernel's image, an empty one, the one with the *)
(* kernel's stack alone, and the recursive mapping; and arrays for sort.   *)
(***************************************************************************)
EXTENDS Kvm, Sort

MCBooted == [i \in Table |-> CASE i = 0 -> {0, 1}
                               [] i = 1 -> {}
                               [] i = NTables - 2 -> {Entries - 1}
                               [] i = NTables - 1 -> Entry]

\* The last of sort.h's gaps.
MCGaps == <<10, 4, 1>>

\* Six tables with up to two free entries each, and eleven with none or one of
\* which the gap of ten exchanges two; told apart by their numbers.
Arrays ==
  {[i \in DOMAIN f |-> [free |-> f[i], pdi |-> i]] :
     f \in [0 .. 5 -> 0 .. 2] \cup {g \in [0 .. 10 -> 0 .. 1] : g[0] > g[10]}}

\* Sorting puts ptmeta into one of the orders that vinit takes for granted: by
\* free entries, and every table is still there.
SortsByFree ==
  pc = "vinit" =>
    \A s \in Arrays :
      LET r == sort(s)
      IN  /\ \A i, j \in DOMAIN r : i < j => r[i].free <= r[j].free
          /\ \A i \in DOMAIN s : \E k \in DOMAIN r : r[k] = s[i]
=============================================================================
