-------------------------------- MODULE Sort --------------------------------
(***************************************************************************)
(* The Shell sort of stage3/include/crt/sort.h, with which vinit orders    *)
(* the page tables by their number of free entries.  An array is a         *)
(* function on 0 .. N - 1.  Module Kvm relies on the outcome only, and     *)
(* module MCKvm checks that this is the outcome.                           *)
(***************************************************************************)
EXTENDS Integers, Sequences, SequencesExt

CONSTANT Gaps   \* the gaps, descending, the last of them 1

ASSUME GapsAssumption == Len(Gaps) > 0 /\ Gaps[Len(Gaps)] = 1

Size(s) == Cardinality(DOMAIN s)

\* Element i takes the place `moves' gaps before it; those it passes move up.
Moved(s, i, gap, moves) ==
  [x \in DOMAIN s |-> CASE x = i - moves * gap -> s[i]
                        [] x \in {i - l * gap : l \in 0 .. moves - 1} -> s[x - gap]
                        [] OTHER -> s[x]]

\* It passes the elements that are greater, from the nearest on.
Passed(s, i, gap, least) ==
  Max({m \in 0 .. i : \A l \in 1 .. m : i - l * gap >= least /\ s[i].free < s[i - l * gap].free})

\* Mutant: j > gap.
Insert_late(s, i, gap) == Moved(s, i, gap, Passed(s, i, gap, 1))

Insert(s, i, gap) == Moved(s, i, gap, Passed(s, i, gap, 0))

\* A pass for each offset, over all elements from there on, not only those
\* that are a multiple of the gap away.
gap_sort(s, gap) ==
  LET from(t, offset) == FoldLeft(LAMBDA u, i : Insert(u, i, gap), t,
                                  [k \in 1 .. Size(s) - offset |-> offset + k - 1])
  IN  FoldLeft(from, s, [k \in 1 .. gap |-> k - 1])

sort(s) == FoldLeft(gap_sort, s, SelectSeq(Gaps, LAMBDA g : g <= Size(s)))
=============================================================================
