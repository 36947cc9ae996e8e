-------------------------------- MODULE E820 --------------------------------
(***************************************************************************)
(* Stage 2's validate (stage2/e820.c): the memory map the BIOS left at     *)
(* 0x7C00 is compressed to entries of half the size in the same place,     *)
(* sorted, and merged type by type.  Palloc, pt_init (module Stage2) and   *)
(* the kernel's pmm_init (module Pmm) rely on the result.                  *)
(*                                                                         *)
(* Addresses of the BIOS are 64 bits wide and here just numbers; those of  *)
(* the result are smaller than Top.  The ACPI field, which nobody reads,   *)
(* is left out.  What an access outside the map reads or writes is         *)
(* unknown: the step ends in "wild", and so does one that reads an entry   *)
(* of the BIOS that has been written over.                                 *)
(***************************************************************************)
EXTENDS MemMap, FiniteSets

CONSTANTS Types,    \* 5: typelengths has an element for each of 1 .. Types
          Maps      \* what the BIOS may leave: sequences of [base, length, type]

SMAP_entry == [base : Nat, length : Nat, type : Nat]

\* Ascending, as firmware lists memory, and starting with the least type: RAM
\* at address 0.
InputOK(map) ==
  /\ map \in Seq(SMAP_entry) /\ map # <<>>
  /\ \A k \in 1 .. Len(map) : map[k].length > 0 /\ map[k].type \in 1 .. Types
  /\ \A k, l \in 1 .. Len(map) : k < l => map[k].base < map[l].base
  /\ map[1].base = 0 /\ map[1].length < Top /\ map[1].type = 1

ASSUME E820Assumption ==
  /\ Top \in Nat \ {0, 1} /\ Types \in Nat \ {0}
  /\ \A map \in Maps : InputOK(map)

VARIABLES
  pc,           \* "compress", "sort", "count", "merge", "done" or "wild"
  in,           \* history: the BIOS's map
  mem,          \* 0x7C00: a BIOS entry takes two cells, an SMAP32_t one
  n,            \* entries: the BIOS's, then the compressed ones
  i, j,         \* loop variables
  typelengths,  \* entries of each type
  length, len   \* entries merged before this type, and of this type

vars == <<pc, in, mem, n, i, j, typelengths, length, len>>

\* Half of the BIOS's entry k.
Half(k) == [bios |-> k]
SMAP32 == [base : 0 .. Top - 1, length : 0 .. Top - 1, type : Nat]
Entries(map) == {Half(k) : k \in 0 .. Len(map) - 1}

TypeOK ==
  /\ pc \in {"compress", "sort", "count", "merge", "done", "wild"}
  /\ InputOK(in) /\ mem \in [0 .. 2 * Len(in) - 1 -> Entries(in) \cup SMAP32]
  /\ n \in 0 .. Len(in) /\ j \in 0 .. Len(in) /\ length \in 0 .. Len(in) /\ len \in 0 .. Len(in)
  /\ i \in IF pc \in {"merge", "done"} THEN 1 .. Types + 1 ELSE 0 .. Len(in)
  /\ typelengths \in [1 .. Types -> 0 .. Len(in)]

Init ==
  /\ pc = "compress" /\ in \in Maps
  /\ mem = [c \in 0 .. 2 * Len(in) - 1 |-> Half(c \div 2)]
  /\ n = Len(in) /\ i = 0 /\ j = 0
  /\ typelengths = [t \in 1 .. Types |-> 0] /\ length = 0 /\ len = 0

-----------------------------------------------------------------------------
\* Mutant: one that goes beyond the top keeps its length.
Clip_beyond(e) == [base |-> e.base, type |-> e.type, length |-> e.length % Top]

\* An entry in 32 bits: one that reaches the top ends there.
Clip(e) ==
  [base |-> e.base, type |-> e.type,
   length |-> (IF e.base + e.length > Top - 1 THEN Top - e.base ELSE e.length) % Top]

\* A round with entry r and output cell w.
Compress(r, w) ==
  IF mem[2 * r] # Half(r) \/ mem[2 * r + 1] # Half(r)
  THEN pc' = "wild" /\ UNCHANGED <<mem, i, j>>
  ELSE /\ i' = i + 1
       /\ IF in[r + 1].base < Top - 1
          THEN mem' = [mem EXCEPT ![w] = Clip(in[r + 1])] /\ j' = j + 1
          ELSE UNCHANGED <<mem, j>>
       /\ UNCHANGED pc

\* Mutant: from the last entry down.
compress_down == Compress(n - 1 - i, n - 1 - j)

\* compressE820, a round of its loop; j counts the entries kept.
compress_round == Compress(i, j)

compressE820 ==
  /\ pc = "compress" /\ i < n
  /\ compress_round
  /\ UNCHANGED <<in, n, typelengths, length, len>>

compress_done ==
  /\ pc = "compress" /\ i = n
  /\ pc' = "sort" /\ n' = j /\ i' = 1 /\ j' = 0
  /\ UNCHANGED <<in, mem, typelengths, length, len>>

\* Mutant: entries of the same type change places too.
compE820_le(a, b) == a.base < b.base \/ a.type <= b.type

compE820(a, b) == a.base < b.base \/ a.type < b.type

\* sortE820, a round: the entries that come after entry i move up, and it takes
\* their place.  The test j >= 0 is true of every uint16_t: were all of them to
\* move, the loop would go on at 65535.
sortE820 ==
  /\ pc = "sort" /\ i < n
  /\ LET stays == {k \in 0 .. i - 1 : ~ compE820(mem[i], mem[k])}
         p     == CHOOSE k \in stays : \A l \in stays : l <= k
     IN  IF stays = {} THEN pc' = "wild" /\ UNCHANGED <<mem, i>>
         ELSE /\ mem' = [c \in DOMAIN mem |-> CASE c = p + 1 -> mem[i]
                                                [] c > p + 1 /\ c <= i -> mem[c - 1]
                                                [] OTHER -> mem[c]]
              /\ i' = i + 1 /\ UNCHANGED pc
  /\ UNCHANGED <<in, n, j, typelengths, length, len>>

sort_done ==
  /\ pc = "sort" /\ i >= n
  /\ pc' = "count" /\ i' = 0
  /\ UNCHANGED <<in, mem, n, j, typelengths, length, len>>

\* validate counts the types; i is then the type that is merged.
count ==
  /\ pc = "count"
  /\ IF \E k \in 0 .. n - 1 : mem[k].type \notin 1 .. Types
     THEN pc' = "wild" /\ UNCHANGED <<i, j, typelengths, len>>
     ELSE LET of(t) == Cardinality({k \in 0 .. n - 1 : mem[k].type = t})
          IN  /\ typelengths' = [t \in 1 .. Types |-> of(t)]
              /\ pc' = "merge" /\ i' = 1 /\ j' = 1 /\ len' = of(1)
  /\ UNCHANGED <<in, mem, n, length>>

\* Mutant: a sum of 64 bits.
End_wide(e) == e.base + e.length

End(e) == (e.base + e.length) % Top

\* Mutant: the merged region ends where the first did.
Merged_first(a, b) == a

\* mergeE820's new entry for two that overlap.  What it compares with a length
\* is the address where the second ends.
Merged(a, b) == [a EXCEPT !.length = IF a.length > End(b) THEN a.length ELSE End(b)]

\* mergeE820, a round on the entries of type i, which start at length.
mergeE820 ==
  /\ pc = "merge" /\ i <= Types /\ j < len
  /\ LET a == mem[length + j - 1]
         b == mem[length + j]
         lost == length + j
     IN  IF End(a) > b.base
         THEN /\ mem' = [c \in DOMAIN mem |->
                           CASE c = lost - 1 -> Merged(a, b)
                             [] c >= lost /\ c < length + len - 1 -> mem[c + 1]
                             [] OTHER -> mem[c]]
              /\ len' = len - 1
         ELSE UNCHANGED <<mem, len>>
  /\ j' = j + 1
  /\ UNCHANGED <<pc, in, n, i, typelengths, length>>

\* The next type.  The number that merging has left is thrown away.
merge_next ==
  /\ pc = "merge" /\ i <= Types /\ j >= len
  /\ length' = length + typelengths[i] /\ i' = i + 1 /\ j' = 1
  /\ len' = IF i < Types THEN typelengths[i + 1] ELSE 0
  /\ UNCHANGED <<pc, in, mem, n, typelengths>>

validate ==
  /\ pc = "merge" /\ i > Types
  /\ pc' = "done"
  /\ UNCHANGED <<in, mem, n, i, j, typelengths, length, len>>

Next == \/ compressE820 \/ compress_done \/ sortE820 \/ sort_done \/ count
        \/ mergeE820 \/ merge_next \/ validate

Spec == Init /\ [][Next]_vars

-----------------------------------------------------------------------------
\* The map that validate returns.
Result == [k \in 1 .. length |-> mem[k - 1]]

\* The entries that start below the top, and entry x up to the top.
Kept == {x \in 1 .. Len(in) : in[x].base < Top - 1}
UpToTop(x) ==
  [in[x] EXCEPT !.length = IF in[x].base + @ > Top THEN Top - in[x].base ELSE @]

\* The place of entry x when those of each type in turn are listed, in the
\* BIOS's order.
Place(x) == Cardinality({y \in Kept : \/ in[y].type < in[x].type
                                      \/ in[y].type = in[x].type /\ y <= x})

Apart == \A k, l \in 1 .. Len(in) : k < l => in[k].base + in[k].length <= in[l].base

\* The addresses of a type of memory.
Area(map, t) ==
  UNION {map[k].base .. map[k].base + map[k].length - 1 : k \in {x \in DOMAIN map : map[x].type = t}}

\* Where regions of one type overlap, the merged one ends below the top: with
\* mergeE820's length that is where the second ends, and more.
NoWrap ==
  \A k, l \in 1 .. Len(in) :
    k < l /\ in[k].type = in[l].type /\ in[k].base + in[k].length > in[l].base =>
      in[k].base + in[l].base + in[l].length < Top

\* Compressing in place never reads an entry it has written over, sorting never
\* leaves the map by its low end although nothing stops it there, and the types
\* index their array.
NoWild == pc # "wild"

\* For a map without overlaps the result has every entry that starts below the
\* top, grouped by type with RAM first and in order of address: what pt_init,
\* palloc and pmm_init take for granted.  Merging leaves such a map alone.
GroupedByType ==
  pc = "done" /\ Apart =>
    /\ Len(Result) = Cardinality(Kept)
    /\ \A x \in Kept : Place(x) \in DOMAIN Result /\ Result[Place(x)] = UpToTop(x)

\* A BIOS's map without overlaps, with RAM on page boundaries, low memory that
\* ends below the last page, and memory of another type too.
Plain ==
  /\ Apart /\ RoundUp(in[1].base + in[1].length) < Top
  /\ \A x \in Kept : in[x].type = 1 => in[x].base % PageSize = 0
  /\ \E x \in Kept : in[x].type # 1

\* validate delivers what palloc, and every proof about it, takes for granted:
\* RAM first, in order, apart, with an entry of another type to stop at, and
\* no sum of an entry beyond the top.
DeliversMap == pc = "done" /\ Plain => MapOK(Result)

\* With overlaps too no memory of any type below the top is lost, unless a
\* merged region's sum overflows.  (Some may be invented: see Merged.)
NothingLost ==
  pc = "done" /\ NoWrap =>
    \A t \in 1 .. Types : Area([x \in Kept |-> UpToTop(x)], t) \subseteq Area(Result, t)

-----------------------------------------------------------------------------
(* Why they hold: the inductive invariant of the proofs.                   *)

\* The writer stays behind the reader.  Once an entry is left out, all are:
\* the BIOS lists them by address.
CompressInv ==
  pc = "compress" =>
    /\ n = Len(in) /\ j <= i
    /\ \A k \in i .. n - 1 : mem[2 * k] = Half(k) /\ mem[2 * k + 1] = Half(k)
    /\ \A k \in 0 .. j - 1 : k + 1 \in Kept /\ mem[k] = Clip(in[k + 1])
    /\ j < i => j + 1 \notin Kept

\* The order sortE820 leaves, by type and then by address.
Before(a, b) == a.type < b.type \/ (a.type = b.type /\ a.base < b.base)

\* The first m cells are the first m entries in this order.
Arranged(m) ==
  /\ \A k \in 0 .. m - 1 : \E x \in 1 .. m : mem[k] = Clip(in[x])
  /\ \A x \in 1 .. m : \E k \in 0 .. m - 1 : mem[k] = Clip(in[x])
  /\ \A k, l \in 0 .. m - 1 : k < l => Before(mem[k], mem[l])

\* compE820 is no order, but it compares an entry with others that start below
\* it: the first entry is one that nothing passes.
SortInv ==
  /\ pc # "compress" => n > 0 /\ Kept = 1 .. n
  /\ pc = "sort" => /\ i \in 1 .. n /\ Arranged(i) /\ mem[0] = Clip(in[1])
                    /\ \A k \in i .. n - 1 : mem[k] = Clip(in[k + 1])
  /\ pc = "count" => Arranged(n)
  /\ pc \in {"compress", "sort", "count"} => length = 0

\* validate goes through the map type by type.
BlockInv ==
  pc \in {"merge", "done"} =>
    /\ \A k \in 0 .. n - 1 : mem[k] \in SMAP32 /\ mem[k].type \in 1 .. Types
    /\ \A k, l \in 0 .. n - 1 : k < l => mem[k].type <= mem[l].type
    /\ \A t \in 1 .. Types : typelengths[t] = Cardinality({k \in 0 .. n - 1 : mem[k].type = t})
    /\ length = Cardinality({k \in 0 .. n - 1 : mem[k].type < i})
    /\ i <= Types => j \in 1 .. typelengths[i] + 1 /\ len <= typelengths[i]
    /\ pc = "done" => i = Types + 1

\* The cells that merging has not come to: the rest of this type's entries,
\* which move down by one when two are merged, and the types after it.
Ahead == {k \in 0 .. n - 1 : /\ i <= Types /\ k >= length + j - 1
                             /\ k < length + len \/ k >= length + typelengths[i]}

\* They are still entries of the BIOS in order.  Those before are too if
\* there was nothing to merge; if there was, an address that has lost its own
\* entry is in the one that took it up.
MergeInv ==
  pc \in {"merge", "done"} =>
    /\ \A k \in Ahead : \E x \in 1 .. n : mem[k] = Clip(in[x])
    /\ \A k, l \in Ahead : k < l => Before(mem[k], mem[l])
    /\ Apart => Arranged(n)
    /\ NoWrap => \A x \in 1 .. n :
                   \A a \in Clip(in[x]).base .. Clip(in[x]).base + Clip(in[x]).length - 1 :
                     \E k \in 0 .. n - 1 : /\ mem[k].type = in[x].type /\ mem[k].base <= a
                                           /\ a < mem[k].base + mem[k].length

IInv == TypeOK /\ NoWild /\ CompressInv /\ SortInv /\ BlockInv /\ MergeInv
=============================================================================
