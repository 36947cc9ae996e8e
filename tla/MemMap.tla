------------------------------- MODULE MemMap -------------------------------
(***************************************************************************)
(* The memory map that one part of stage 2 leaves to the next: validate    *)
(* (module E820) delivers it, pt_init and palloc (module Stage2) rely on   *)
(* what MapOK says of it.                                                  *)
(***************************************************************************)
EXTENDS Integers, Sequences

CONSTANTS PageSize,   \* addresses of a page
          Top         \* 2^32: where addresses wrap

RoundUp(a) == ((a + PageSize - 1) \div PageSize) * PageSize

\* An entry of the memory map.
SMAP32_t == [base : Nat, length : Nat, type : Nat]

\* The regions of RAM come first, sorted, apart and not empty, and something
\* else follows them.  The last may reach the top, the first, which is low
\* memory, does not.  That a region starts on a page is up to the BIOS.
MapOK(map) ==
  /\ map \in Seq(SMAP32_t)
  /\ RoundUp(map[1].base + map[1].length) < Top
  /\ \A k \in 1 .. Len(map) : map[k].base + map[k].length <= Top
  /\ \E last \in 1 .. Len(map) - 1 :
       /\ map[last + 1].type # 1
       /\ \A k \in 1 .. last : map[k].type = 1 /\ map[k].base % PageSize = 0 /\ map[k].length > 0
       /\ \A j, k \in 1 .. last : j < k => map[j].base + map[j].length <= map[k].base
=============================================================================
