----------------------------- MODULE E820Proofs -----------------------------
(***************************************************************************)
(* validate, for every width of an address, number of types and firmware   *)
(* map that ascends from RAM at address 0: it stays inside the map, groups *)
(* a map without overlaps by type, and loses no memory of one with them.   *)
(***************************************************************************)
EXTENDS E820, FiniteSetTheorems, FunctionTheorems, WellFoundedInduction, TLAPS

-----------------------------------------------------------------------------
(* The BIOS's entries and what compressing makes of them.                  *)

LEMMA InFacts ==
  ASSUME InputOK(in)
  PROVE  /\ Top \in Nat /\ Top > 1 /\ Types \in Nat /\ Types > 0
         /\ Len(in) \in Nat /\ Len(in) > 0
         /\ \A x \in 1 .. Len(in) :
              /\ in[x] \in SMAP_entry /\ in[x].base \in Nat /\ in[x].length \in Nat
              /\ in[x].length > 0 /\ in[x].type \in 1 .. Types /\ in[x].type \in Nat
         /\ \A x, y \in 1 .. Len(in) : x < y => in[x].base < in[y].base
         /\ in[1].base = 0 /\ in[1].length < Top /\ in[1].type = 1
<1>1. /\ Top \in Nat /\ Top > 1 /\ Types \in Nat /\ Types > 0
  BY E820Assumption
<1>2. in \in Seq(SMAP_entry) /\ in # <<>>
  BY DEF InputOK
<1>3. Len(in) \in Nat /\ Len(in) > 0 /\ \A x \in 1 .. Len(in) : in[x] \in SMAP_entry
  BY <1>2
<1>4. \A x \in 1 .. Len(in) : in[x].base \in Nat /\ in[x].length \in Nat /\ in[x].type \in Nat
  BY <1>3 DEF SMAP_entry
<1> QED
  BY <1>1, <1>3, <1>4 DEF InputOK

\* An entry that starts below the top keeps its address and type, and its
\* length if it ends below the top.
LEMMA ClipFacts ==
  ASSUME InputOK(in), NEW x \in Kept
  PROVE  /\ Clip(in[x]) \in SMAP32
         /\ Clip(in[x]).base = in[x].base /\ Clip(in[x]).type = in[x].type
         /\ in[x].base + in[x].length < Top => Clip(in[x]).length = in[x].length
         /\ Clip(in[x]) = UpToTop(x)
<1>0. x \in 1 .. Len(in) /\ in[x].base < Top - 1
  BY DEF Kept
<1>1. PICK b \in Nat, m \in Nat, t \in Nat : in[x] = [base |-> b, length |-> m, type |-> t]
  BY <1>0, InFacts DEF SMAP_entry
<1>2. /\ Top \in Nat /\ Top > 1 /\ b < Top - 1 /\ m > 0
      /\ (b = 0 => m < Top)
  <2>1. b = in[x].base /\ m = in[x].length
    BY <1>1
  <2>2. x = 1 \/ (1 < x /\ 1 \in 1 .. Len(in))
    BY <1>0, InFacts
  <2>3. x # 1 => b > 0
    BY <1>0, <2>1, <2>2, InFacts
  <2> QED
    BY <1>0, <2>1, <2>3, InFacts
<1>3. PICK v \in Nat : v = IF b + m > Top - 1 THEN Top - b ELSE m
  BY <1>2
<1>4. v < Top /\ v = IF b + m > Top THEN Top - b ELSE m
  BY <1>2, <1>3
<1>5. v % Top = v
  BY <1>2, <1>4
<1>6. Clip(in[x]) = [base |-> b, type |-> t, length |-> v]
  BY <1>1, <1>3, <1>5 DEF Clip
<1>7. UpToTop(x) = [base |-> b, length |-> v, type |-> t]
  BY <1>1, <1>4 DEF UpToTop
<1>8. [base |-> b, type |-> t, length |-> v] = [base |-> b, length |-> v, type |-> t]
  OBVIOUS
<1>9. Clip(in[x]) \in SMAP32
  BY <1>2, <1>4, <1>6 DEF SMAP32
<1> QED
  BY <1>1, <1>2, <1>3, <1>6, <1>7, <1>8, <1>9

\* The first entry is kept.
LEMMA FirstKept ==
  ASSUME InputOK(in)
  PROVE  1 \in Kept
  BY InFacts DEF Kept

LEMMA InitInv == Init => IInv
<1> SUFFICES ASSUME Init PROVE IInv
  OBVIOUS
<1>1. InputOK(in)
  BY E820Assumption DEF Init
<1>2. PICK L \in Nat : L = Len(in) /\ L > 0
  BY <1>1, InFacts
<1>3. mem = [c \in 0 .. 2 * L - 1 |-> Half(c \div 2)]
  BY <1>2 DEF Init
<1>4. \A k \in 0 .. L - 1 : mem[2 * k] = Half(k) /\ mem[2 * k + 1] = Half(k)
  <2> TAKE k \in 0 .. L - 1
  <2>1. 2 * k \in 0 .. 2 * L - 1 /\ 2 * k + 1 \in 0 .. 2 * L - 1
    BY <1>2
  <2>2. (2 * k) \div 2 = k /\ (2 * k + 1) \div 2 = k
    OBVIOUS
  <2> QED
    BY <1>3, <2>1, <2>2
<1>5. mem \in [0 .. 2 * Len(in) - 1 -> Entries(in) \cup SMAP32]
  <2>1. \A c \in 0 .. 2 * L - 1 : c \div 2 \in 0 .. L - 1
    BY <1>2
  <2>2. \A c \in 0 .. 2 * L - 1 : Half(c \div 2) \in Entries(in)
    BY <1>2, <2>1 DEF Entries
  <2> QED
    BY <1>2, <1>3, <2>2
<1>6. TypeOK
  <2>1. typelengths \in [1 .. Types -> 0 .. Len(in)]
    BY <1>2 DEF Init
  <2> QED
    BY <1>1, <1>2, <1>5, <2>1 DEF Init, TypeOK
<1>7. CompressInv
  BY <1>2, <1>4 DEF Init, CompressInv
<1> QED
  BY <1>6, <1>7 DEF Init, IInv, NoWild, SortInv, BlockInv, MergeInv

-----------------------------------------------------------------------------
(* Compressing.                                                            *)

LEMMA compressE820_Step ==
  ASSUME IInv, compressE820
  PROVE  IInv'
<1>0. TypeOK /\ CompressInv /\ SortInv
  BY DEF IInv
<1>1. pc = "compress" /\ i < n /\ UNCHANGED <<in, n, typelengths, length, len>>
  BY DEF compressE820
<1>2. InputOK(in)
  BY <1>0 DEF TypeOK
<1>3. PICK L \in Nat : L = Len(in) /\ n = L /\ L > 0
  BY <1>0, <1>1, <1>2, InFacts DEF CompressInv
<1>4. /\ i \in 0 .. L - 1 /\ j \in 0 .. L /\ j <= i
      /\ mem \in [0 .. 2 * L - 1 -> Entries(in) \cup SMAP32]
  BY <1>0, <1>1, <1>3 DEF TypeOK, CompressInv
<1>5. /\ \A k \in i .. L - 1 : mem[2 * k] = Half(k) /\ mem[2 * k + 1] = Half(k)
      /\ \A k \in 0 .. j - 1 : k + 1 \in Kept /\ mem[k] = Clip(in[k + 1])
      /\ j < i => j + 1 \notin Kept
  BY <1>0, <1>1, <1>3 DEF CompressInv
<1>6. mem[2 * i] = Half(i) /\ mem[2 * i + 1] = Half(i)
  BY <1>4, <1>5
<1>7. /\ i' = i + 1 /\ UNCHANGED pc
      /\ IF in[i + 1].base < Top - 1
         THEN mem' = [mem EXCEPT ![j] = Clip(in[i + 1])] /\ j' = j + 1
         ELSE UNCHANGED <<mem, j>>
  BY <1>6 DEF compressE820, compress_round, Compress
<1>8. i + 1 \in Kept <=> in[i + 1].base < Top - 1
  BY <1>3, <1>4 DEF Kept
<1>9. Kept' = Kept
  BY <1>1 DEF Kept
<1>10. i + 1 \in Kept => j = i
  <2> SUFFICES ASSUME i + 1 \in Kept, j < i PROVE FALSE
    BY <1>4
  <2>1. j + 1 \in 1 .. Len(in) /\ i + 1 \in 1 .. Len(in) /\ j + 1 < i + 1
    BY <1>3, <1>4
  <2>2. in[j + 1].base < in[i + 1].base /\ in[j + 1].base \in Nat /\ in[i + 1].base \in Nat
    BY <1>2, <2>1, InFacts
  <2>3. j + 1 \in Kept
    BY <1>2, <1>8, <2>1, <2>2, InFacts DEF Kept
  <2> QED
    BY <1>5, <2>3
<1>11. mem' \in [0 .. 2 * L - 1 -> Entries(in) \cup SMAP32]
  <2>1. CASE i + 1 \in Kept
    <3>1. Clip(in[i + 1]) \in SMAP32
      BY <1>2, <2>1, ClipFacts
    <3> QED
      BY <1>4, <1>7, <1>8, <2>1, <3>1
  <2>2. CASE i + 1 \notin Kept
    BY <1>4, <1>7, <1>8, <2>2
  <2> QED
    BY <2>1, <2>2
<1>12. TypeOK'
  <2>1. j' \in 0 .. L
    BY <1>4, <1>7, <1>8, <1>10
  <2>2. pc' \notin {"merge", "done"} /\ i' \in 0 .. L
    BY <1>1, <1>4, <1>7
  <2> QED
    BY <1>0, <1>1, <1>3, <1>7, <1>11, <2>1, <2>2 DEF TypeOK
<1>13. CompressInv'
  <2>1. j' <= i' /\ (j' < i' => j' + 1 \notin Kept)
    BY <1>4, <1>5, <1>7, <1>8, <1>10
  <2>2. \A k \in i' .. L - 1 : mem'[2 * k] = Half(k) /\ mem'[2 * k + 1] = Half(k)
    <3> TAKE k \in i' .. L - 1
    <3>1. k \in i .. L - 1 /\ 2 * k # j /\ 2 * k + 1 # j
          /\ 2 * k \in 0 .. 2 * L - 1 /\ 2 * k + 1 \in 0 .. 2 * L - 1
      BY <1>4, <1>7
    <3> QED
      BY <1>4, <1>5, <1>7, <3>1
  <2>3. \A k \in 0 .. j' - 1 : k + 1 \in Kept /\ mem'[k] = Clip(in[k + 1])
    <3> TAKE k \in 0 .. j' - 1
    <3>1. k \in 0 .. 2 * L - 1
      BY <1>4, <1>7
    <3>2. CASE i + 1 \in Kept
      <4>1. j = i /\ j' = j + 1 /\ mem' = [mem EXCEPT ![j] = Clip(in[i + 1])]
        BY <1>7, <1>8, <1>10, <3>2
      <4>2. CASE k = j
        BY <1>4, <3>1, <3>2, <4>1, <4>2
      <4>3. CASE k # j
        <5>1. k \in 0 .. j - 1
          BY <1>4, <4>1, <4>3
        <5> QED
          BY <1>4, <1>5, <3>1, <4>1, <4>3, <5>1
      <4> QED
        BY <4>2, <4>3
    <3>3. CASE i + 1 \notin Kept
      BY <1>5, <1>7, <1>8, <3>3
    <3> QED
      BY <3>2, <3>3
  <2> QED
    BY <1>1, <1>3, <1>9, <2>1, <2>2, <2>3 DEF CompressInv
<1> QED
  BY <1>0, <1>1, <1>7, <1>12, <1>13 DEF IInv, NoWild, SortInv, BlockInv, MergeInv

LEMMA compress_done_Step ==
  ASSUME IInv, compress_done
  PROVE  IInv'
<1>0. TypeOK /\ CompressInv /\ SortInv
  BY DEF IInv
<1>1. /\ pc = "compress" /\ i = n /\ pc' = "sort" /\ n' = j /\ i' = 1 /\ j' = 0
      /\ UNCHANGED <<in, mem, typelengths, length, len>>
  BY DEF compress_done
<1>2. InputOK(in)
  BY <1>0 DEF TypeOK
<1>3. PICK L \in Nat : L = Len(in) /\ n = L /\ L > 0
  BY <1>0, <1>1, <1>2, InFacts DEF CompressInv
<1>4. j \in 0 .. L
  BY <1>0, <1>3 DEF TypeOK
<1>5. /\ \A k \in 0 .. j - 1 : k + 1 \in Kept /\ mem[k] = Clip(in[k + 1])
      /\ j < L => j + 1 \notin Kept
  BY <1>0, <1>1, <1>3 DEF CompressInv
<1>6. j > 0
  BY <1>2, <1>3, <1>4, <1>5, FirstKept
<1>7. Kept' = 1 .. j
  <2>1. Kept' = Kept
    BY <1>1 DEF Kept
  <2>2. ASSUME NEW x \in 1 .. j PROVE x \in Kept
    <3>1. x - 1 \in 0 .. j - 1 /\ (x - 1) + 1 = x
      BY <1>4
    <3> QED
      BY <1>5, <3>1
  <2>3. ASSUME NEW x \in Kept PROVE x \in 1 .. j
    <3> SUFFICES ASSUME ~ (x <= j) PROVE FALSE
      BY <1>3, <1>4 DEF Kept
    <3>1. x \in 1 .. L /\ in[x].base < Top - 1 /\ j + 1 \in 1 .. L /\ j < L
      BY <1>3, <1>4 DEF Kept
    <3>2. j + 1 = x \/ in[j + 1].base < in[x].base
      BY <1>2, <1>3, <1>4, <3>1, InFacts
    <3>3. in[j + 1].base \in Nat /\ in[x].base \in Nat /\ Top \in Nat
      BY <1>2, <1>3, <3>1, InFacts
    <3>4. j + 1 \in Kept
      BY <1>3, <3>1, <3>2, <3>3 DEF Kept
    <3> QED
      BY <1>5, <3>1, <3>4
  <2> QED
    BY <2>1, <2>2, <2>3
<1>8. mem[0] = Clip(in[1]) /\ \A k \in 1 .. j - 1 : mem[k] = Clip(in[k + 1])
  BY <1>4, <1>5, <1>6
<1>9. Arranged(i)'
  <2>1. 0 .. i' - 1 = {0} /\ 1 .. i' = {1}
    BY <1>1
  <2>2. mem'[0] = Clip(in'[1])
    BY <1>1, <1>8
  <2>3. \A k, l \in {0} : ~ (k < l)
    OBVIOUS
  <2> QED
    BY <2>1, <2>2, <2>3 DEF Arranged
<1>10. TypeOK'
  BY <1>0, <1>1, <1>3, <1>4 DEF TypeOK
<1>11. SortInv'
  BY <1>0, <1>1, <1>4, <1>6, <1>7, <1>8, <1>9 DEF SortInv
<1> QED
  BY <1>1, <1>10, <1>11 DEF IInv, NoWild, CompressInv, BlockInv, MergeInv

-----------------------------------------------------------------------------
(* Sorting.                                                                *)

LEMMA Least ==
  ASSUME NEW S \in SUBSET Nat, S # {}
  PROVE  \E x \in S : \A y \in S : x <= y
<1> DEFINE Less == OpToRel(<, Nat)
<1>1. IsWellFoundedOn(Less, Nat)
  BY NatLessThanWellFounded
<1> HIDE DEF Less
<1>2. PICK x \in S : \A y \in S : ~ (<<y, x>> \in Less)
  BY <1>1, WFMin
<1>3. ASSUME NEW y \in S PROVE x <= y
  <2>1. ~ (y < x)
    BY <1>2 DEF Less, OpToRel
  <2>2. x \in Nat /\ y \in Nat
    OBVIOUS
  <2> QED
    BY <2>1, <2>2
<1> QED
  BY <1>3

LEMMA Greatest ==
  ASSUME NEW b \in Nat, NEW S \in SUBSET (0 .. b), S # {}
  PROVE  \E x \in S : \A y \in S : y <= x
<1> DEFINE T == {b - x : x \in S}
<1>0. \A x \in S : x \in Nat /\ x <= b /\ b - x \in Nat
  <2> TAKE x \in S
  <2>1. x \in 0 .. b
    OBVIOUS
  <2> QED
    BY <2>1
<1>1. T \in SUBSET Nat /\ T # {}
  BY <1>0
<1>2. PICK m \in T : \A y \in T : m <= y
  BY <1>1, Least
<1>3. PICK x \in S : m = b - x
  OBVIOUS
<1>4. ASSUME NEW y \in S PROVE y <= x
  <2>1. m <= b - y
    BY <1>2
  <2>2. x \in Nat /\ y \in Nat
    BY <1>0
  <2> QED
    BY <1>3, <2>1, <2>2
<1> QED
  BY <1>4

\* The cells of a part of the map that is arranged, as entries.
LEMMA ArrangedCells ==
  ASSUME InputOK(in), NEW m \in Nat, 1 .. m \subseteq Kept, Arranged(m), NEW k \in 0 .. m - 1
  PROVE  /\ mem[k] \in SMAP32 /\ mem[k].base \in Nat /\ mem[k].type \in 1 .. Types
         /\ mem[k].type \in Nat
<1>1. PICK x \in 1 .. m : mem[k] = Clip(in[x])
  BY DEF Arranged
<1>2. x \in Kept /\ x \in 1 .. Len(in)
  BY DEF Kept
<1>3. /\ mem[k] \in SMAP32 /\ mem[k].base = in[x].base /\ mem[k].type = in[x].type
  BY <1>1, <1>2, ClipFacts
<1> QED
  BY <1>2, <1>3, InFacts

\* Entry i goes behind the last entry p whose type is not greater.
LEMMA InsertArranged ==
  ASSUME InputOK(in), in' = in, i' = i + 1, i \in Nat \ {0},
         1 .. i + 1 \subseteq Kept, Arranged(i), mem[i] = Clip(in[i + 1]),
         NEW p \in 0 .. i - 1,
         mem[p].type <= mem[i].type,
         \A k \in p + 1 .. i - 1 : mem[i].type < mem[k].type,
         \A c \in 0 .. p : mem'[c] = mem[c],
         mem'[p + 1] = mem[i],
         \A c \in p + 2 .. i : mem'[c] = mem[c - 1]
  PROVE  Arranged(i)'
<1>1. /\ \A k \in 0 .. i - 1 : \E x \in 1 .. i : mem[k] = Clip(in[x])
      /\ \A x \in 1 .. i : \E k \in 0 .. i - 1 : mem[k] = Clip(in[x])
      /\ \A k, l \in 0 .. i - 1 : k < l => Before(mem[k], mem[l])
  BY DEF Arranged
<1>2. \A k \in 0 .. i - 1 : mem[k].base \in Nat /\ mem[k].type \in Nat
  BY ArrangedCells
<1>3. /\ mem[i].base = in[i + 1].base /\ mem[i].type = in[i + 1].type
      /\ mem[i].base \in Nat /\ mem[i].type \in Nat
  <2>1. i + 1 \in Kept /\ i + 1 \in 1 .. Len(in)
    BY DEF Kept
  <2>2. in[i + 1].base \in Nat /\ in[i + 1].type \in Nat
    BY <2>1, InFacts
  <2>3. mem[i].base = in[i + 1].base /\ mem[i].type = in[i + 1].type
    BY <2>1, ClipFacts
  <2> QED
    BY <2>2, <2>3
<1>4. \A k \in 0 .. i - 1 : mem[k].base < mem[i].base
  <2> TAKE k \in 0 .. i - 1
  <2>1. PICK x \in 1 .. i : mem[k] = Clip(in[x])
    BY <1>1
  <2>2. x \in Kept /\ i + 1 \in Kept /\ x < i + 1
    OBVIOUS
  <2>3. mem[k].base = in[x].base
    BY <2>1, <2>2, ClipFacts
  <2>4. in[x].base < in[i + 1].base
    BY <2>2, InFacts DEF Kept
  <2> QED
    BY <1>3, <2>3, <2>4
<1>5. \A k \in 0 .. i : \E x \in 1 .. i + 1 : mem'[k] = Clip(in[x])
  <2> TAKE k \in 0 .. i
  <2>1. CASE k \in 0 .. p
    <3>1. k \in 0 .. i - 1 /\ mem'[k] = mem[k]
      BY <2>1
    <3>2. PICK x \in 1 .. i : mem[k] = Clip(in[x])
      BY <1>1, <3>1
    <3>3. x \in 1 .. i + 1
      OBVIOUS
    <3> QED
      BY <3>1, <3>2, <3>3
  <2>2. CASE k = p + 1
    <3>1. i + 1 \in 1 .. i + 1
      OBVIOUS
    <3> QED
      BY <2>2, <3>1
  <2>3. CASE k \in p + 2 .. i
    <3>1. k - 1 \in 0 .. i - 1 /\ mem'[k] = mem[k - 1]
      BY <2>3
    <3>2. PICK x \in 1 .. i : mem[k - 1] = Clip(in[x])
      BY <1>1, <3>1
    <3> QED
      BY <3>1, <3>2
  <2> QED
    BY <2>1, <2>2, <2>3
<1>6. \A x \in 1 .. i + 1 : \E k \in 0 .. i : mem'[k] = Clip(in[x])
  <2> TAKE x \in 1 .. i + 1
  <2>1. CASE x = i + 1
    <3>1. p + 1 \in 0 .. i
      OBVIOUS
    <3> QED
      BY <2>1, <3>1
  <2>2. CASE x # i + 1
    <3>1. x \in 1 .. i
      BY <2>2
    <3>2. PICK k \in 0 .. i - 1 : mem[k] = Clip(in[x])
      BY <1>1, <3>1
    <3>3. CASE k <= p
      BY <3>2, <3>3
    <3>4. CASE k > p
      <4>1. k + 1 \in p + 2 .. i /\ k + 1 \in 0 .. i /\ (k + 1) - 1 = k
        BY <3>4
      <4>2. mem'[k + 1] = mem[k]
        BY <4>1
      <4> QED
        BY <3>2, <4>1, <4>2
    <3> QED
      BY <3>3, <3>4
  <2> QED
    BY <2>1, <2>2
<1>7. \A k, l \in 0 .. i : k < l => Before(mem'[k], mem'[l])
  <2> SUFFICES ASSUME NEW k \in 0 .. i, NEW l \in 0 .. i, k < l
               PROVE  Before(mem'[k], mem'[l])
    OBVIOUS
  <2>1. CASE l <= p
    BY <1>1, <2>1
  <2>2. CASE l = p + 1
    <3>1. k \in 0 .. p /\ mem'[k] = mem[k] /\ mem'[l] = mem[i]
      BY <2>2
    <3>2. mem[k].type <= mem[p].type
      <4>1. k \in 0 .. i - 1 /\ p \in 0 .. i - 1 /\ (k = p \/ k < p)
        BY <3>1
      <4>2. mem[k].type \in Nat /\ mem[p].type \in Nat
        BY <1>2, <4>1
      <4>3. k < p => Before(mem[k], mem[p])
        BY <1>1, <4>1
      <4> QED
        BY <4>1, <4>2, <4>3 DEF Before
    <3>3. mem[k].type <= mem[i].type /\ mem[k].base < mem[i].base
      BY <1>2, <1>3, <1>4, <3>1, <3>2
    <3> QED
      BY <1>2, <1>3, <3>1, <3>3 DEF Before
  <2>3. CASE l > p + 1 /\ k <= p
    <3>1. k \in 0 .. i - 1 /\ l - 1 \in 0 .. i - 1 /\ k < l - 1
          /\ mem'[k] = mem[k] /\ mem'[l] = mem[l - 1]
      BY <2>3
    <3> QED
      BY <1>1, <3>1
  <2>4. CASE l > p + 1 /\ k = p + 1
    <3>1. l - 1 \in p + 1 .. i - 1 /\ mem'[k] = mem[i] /\ mem'[l] = mem[l - 1]
      BY <2>4
    <3> QED
      BY <3>1 DEF Before
  <2>5. CASE l > p + 1 /\ k > p + 1
    <3>1. k - 1 \in 0 .. i - 1 /\ l - 1 \in 0 .. i - 1 /\ k - 1 < l - 1
          /\ mem'[k] = mem[k - 1] /\ mem'[l] = mem[l - 1]
      BY <2>5
    <3> QED
      BY <1>1, <3>1
  <2> QED
    BY <2>1, <2>2, <2>3, <2>4, <2>5
<1>8. 0 .. i' - 1 = 0 .. i /\ 1 .. i' = 1 .. i + 1
  OBVIOUS
<1> QED
  BY <1>5, <1>6, <1>7, <1>8 DEF Arranged

LEMMA sortE820_Step ==
  ASSUME IInv, sortE820
  PROVE  IInv'
<1> DEFINE stays == {k \in 0 .. i - 1 : ~ compE820(mem[i], mem[k])}
           p     == CHOOSE k \in stays : \A l \in stays : l <= k
<1>0. TypeOK /\ SortInv
  BY DEF IInv
<1>1. pc = "sort" /\ i < n /\ UNCHANGED <<in, n, j, typelengths, length, len>>
  BY DEF sortE820
<1>2. IF stays = {} THEN pc' = "wild" /\ UNCHANGED <<mem, i>>
      ELSE /\ mem' = [c \in DOMAIN mem |-> CASE c = p + 1 -> mem[i]
                                             [] c > p + 1 /\ c <= i -> mem[c - 1]
                                             [] OTHER -> mem[c]]
           /\ i' = i + 1 /\ UNCHANGED pc
  BY DEF sortE820
<1>3. InputOK(in)
  BY <1>0 DEF TypeOK
<1>4. PICK L \in Nat : L = Len(in) /\ L > 0
  BY <1>3, InFacts
<1>5. /\ n \in 1 .. L /\ i \in 1 .. n - 1 /\ Kept = 1 .. n /\ Arranged(i)
      /\ mem[0] = Clip(in[1]) /\ \A k \in i .. n - 1 : mem[k] = Clip(in[k + 1])
      /\ length = 0
  BY <1>0, <1>1, <1>4 DEF TypeOK, SortInv
<1>6. mem \in [0 .. 2 * L - 1 -> Entries(in) \cup SMAP32]
  BY <1>0, <1>4 DEF TypeOK
<1>7. /\ i \in Nat \ {0} /\ 1 .. i + 1 \subseteq Kept /\ 1 .. i \subseteq Kept /\ i + 1 \in Kept
      /\ i \in 0 .. 2 * L - 1 /\ mem[i] = Clip(in[i + 1])
  BY <1>5
<1>8. /\ mem[i].type = in[i + 1].type /\ mem[i].base = in[i + 1].base
      /\ mem[i].type \in Nat /\ mem[i].type >= 1
  <2>1. i + 1 \in 1 .. Len(in)
    BY <1>4, <1>5
  <2> QED
    BY <1>3, <1>7, <2>1, ClipFacts, InFacts
<1>9. \A k \in 0 .. i - 1 : /\ mem[k].type \in Nat
                            /\ ~ compE820(mem[i], mem[k]) <=> mem[k].type <= mem[i].type
  <2> TAKE k \in 0 .. i - 1
  <2>1. PICK x \in 1 .. i : mem[k] = Clip(in[x])
    BY <1>5 DEF Arranged
  <2>2. x \in Kept /\ x \in 1 .. Len(in) /\ i + 1 \in 1 .. Len(in) /\ x < i + 1
    BY <1>7 DEF Kept
  <2>3. mem[k].base = in[x].base /\ mem[k].type = in[x].type
    BY <1>3, <2>1, <2>2, ClipFacts
  <2>4. in[x].base < in[i + 1].base /\ in[x].base \in Nat /\ in[i + 1].base \in Nat /\ in[x].type \in Nat
    BY <1>3, <2>2, InFacts
  <2> QED
    BY <1>8, <2>3, <2>4 DEF compE820
<1>10. 0 \in stays
  <2>1. mem[0].type = 1
    BY <1>3, <1>5, FirstKept, ClipFacts, InFacts
  <2>2. 0 \in 0 .. i - 1
    BY <1>7
  <2> QED
    BY <1>8, <1>9, <2>1, <2>2
<1>11. p \in stays /\ \A l \in stays : l <= p
  <2>1. stays \in SUBSET (0 .. i - 1) /\ i - 1 \in Nat /\ stays # {}
    BY <1>7, <1>10
  <2> HIDE DEF stays
  <2>2. \E x \in stays : \A y \in stays : y <= x
    BY <2>1, Greatest
  <2> QED
    BY <2>2
<1>12. PICK q \in 0 .. i - 1 : q = p
  BY <1>11
<1>13. /\ mem[q].type <= mem[i].type
       /\ \A k \in q + 1 .. i - 1 : mem[i].type < mem[k].type
  <2>1. mem[q].type <= mem[i].type
    BY <1>9, <1>11, <1>12
  <2>2. ASSUME NEW k \in q + 1 .. i - 1 PROVE mem[i].type < mem[k].type
    <3>1. k \in 0 .. i - 1 /\ ~ (k <= q)
      BY <1>7
    <3>2. k \notin stays
      BY <1>11, <1>12, <3>1
    <3> QED
      BY <1>8, <1>9, <3>1, <3>2
  <2> QED
    BY <2>1, <2>2
<1>14. /\ mem' = [c \in DOMAIN mem |-> CASE c = q + 1 -> mem[i]
                                         [] c > q + 1 /\ c <= i -> mem[c - 1]
                                         [] OTHER -> mem[c]]
       /\ i' = i + 1 /\ UNCHANGED pc
  BY <1>2, <1>10, <1>12
<1> HIDE DEF stays, p
<1>15. /\ DOMAIN mem = 0 .. 2 * L - 1
       /\ \A c \in 0 .. q : mem'[c] = mem[c]
       /\ mem'[q + 1] = mem[i]
       /\ \A c \in q + 2 .. i : mem'[c] = mem[c - 1]
       /\ \A c \in i + 1 .. 2 * L - 1 : mem'[c] = mem[c]
  BY <1>6, <1>7, <1>14
<1>16. mem' \in [0 .. 2 * L - 1 -> Entries(in) \cup SMAP32]
  <2>1. \A c \in 0 .. 2 * L - 1 : mem'[c] \in Entries(in) \cup SMAP32
    <3> TAKE c \in 0 .. 2 * L - 1
    <3>1. CASE c \in 0 .. q \/ c \in i + 1 .. 2 * L - 1
      BY <1>6, <1>15, <3>1
    <3>2. CASE c = q + 1
      BY <1>6, <1>7, <1>15, <3>2
    <3>3. CASE c \in q + 2 .. i
      <4>1. c - 1 \in 0 .. 2 * L - 1
        BY <3>3
      <4> QED
        BY <1>6, <1>15, <3>3, <4>1
    <3> QED
      BY <1>7, <3>1, <3>2, <3>3
  <2>2. mem' = [c \in 0 .. 2 * L - 1 |-> mem'[c]]
    BY <1>14, <1>15
  <2> QED
    BY <2>1, <2>2
<1>17. TypeOK'
  <2>1. i' \in 0 .. L /\ pc' \notin {"merge", "done"}
    BY <1>1, <1>5, <1>14
  <2> QED
    BY <1>0, <1>1, <1>4, <1>14, <1>16, <2>1 DEF TypeOK
<1>18. Arranged(i)'
  BY <1>1, <1>3, <1>5, <1>7, <1>13, <1>14, <1>15, InsertArranged
<1>19. SortInv'
  <2>1. Kept' = 1 .. n' /\ n' > 0 /\ i' \in 1 .. n'
    BY <1>1, <1>5, <1>14 DEF Kept
  <2>2. mem'[0] = Clip(in'[1])
    BY <1>1, <1>5, <1>15
  <2>3. \A k \in i' .. n' - 1 : mem'[k] = Clip(in'[k + 1])
    <3> TAKE k \in i' .. n' - 1
    <3>1. k \in i .. n - 1 /\ k \in i + 1 .. 2 * L - 1
      BY <1>1, <1>5, <1>14
    <3> QED
      BY <1>1, <1>5, <1>15, <3>1
  <2> QED
    BY <1>1, <1>5, <1>14, <1>18, <2>1, <2>2, <2>3 DEF SortInv
<1> QED
  BY <1>1, <1>14, <1>17, <1>19 DEF IInv, NoWild, CompressInv, BlockInv, MergeInv

LEMMA sort_done_Step ==
  ASSUME IInv, sort_done
  PROVE  IInv'
<1>0. TypeOK /\ SortInv
  BY DEF IInv
<1>1. /\ pc = "sort" /\ i >= n /\ pc' = "count" /\ i' = 0
      /\ UNCHANGED <<in, mem, n, j, typelengths, length, len>>
  BY DEF sort_done
<1>2. i = n
  BY <1>0, <1>1 DEF TypeOK, SortInv
<1>3. Arranged(n)'
  BY <1>0, <1>1, <1>2 DEF SortInv, Arranged
<1>4. Len(in) \in Nat
  BY <1>0, InFacts DEF TypeOK
<1>5. TypeOK'
  BY <1>0, <1>1, <1>4 DEF TypeOK
<1>6. SortInv'
  BY <1>0, <1>1, <1>3 DEF SortInv, Kept
<1> QED
  BY <1>1, <1>5, <1>6 DEF IInv, NoWild, CompressInv, BlockInv, MergeInv

-----------------------------------------------------------------------------
(* Counting.                                                               *)

LEMMA CardBelow ==
  ASSUME NEW m \in Nat, NEW S \in SUBSET (0 .. m - 1)
  PROVE  IsFiniteSet(S) /\ Cardinality(S) \in 0 .. m
<1>1. 0 \in Int /\ m - 1 \in Int
  OBVIOUS
<1>2. IsFiniteSet(0 .. m - 1) /\ Cardinality(0 .. m - 1) = IF 0 > m - 1 THEN 0 ELSE (m - 1) - 0 + 1
  BY <1>1, FS_Interval, Zenon
<1>3. Cardinality(0 .. m - 1) = m
  BY <1>2
<1>4. IsFiniteSet(S) /\ Cardinality(S) <= Cardinality(0 .. m - 1)
  BY <1>2, FS_Subset
<1>5. Cardinality(S) \in Nat
  BY <1>4, FS_CardinalityType
<1> QED
  BY <1>3, <1>4, <1>5

\* A set of cells that has every cell below one it has.
LEMMA DownClosed ==
  ASSUME NEW m \in Nat, NEW S \in SUBSET (0 .. m - 1),
         \A k \in S : \A l \in 0 .. k : l \in S
  PROVE  S = 0 .. Cardinality(S) - 1
<1>1. CASE S = {}
  <2>1. Cardinality(S) = 0
    BY <1>1, FS_EmptySet
  <2>2. 0 .. 0 - 1 = {}
    OBVIOUS
  <2> QED
    BY <1>1, <2>1, <2>2
<1>2. CASE S # {}
  <2>1. S \in SUBSET (0 .. m) /\ m \in Nat
    OBVIOUS
  <2>2. PICK g \in S : \A y \in S : y <= g
    BY <1>2, <2>1, Greatest
  <2>3. g \in Nat /\ g \in Int /\ 0 \in Int
    OBVIOUS
  <2>4. S = 0 .. g
    <3>1. ASSUME NEW y \in S PROVE y \in 0 .. g
      <4>1. y \in 0 .. m - 1 /\ y <= g
        BY <2>2
      <4> QED
        BY <2>3, <4>1
    <3> QED
      BY <3>1
  <2>5. Cardinality(0 .. g) = IF 0 > g THEN 0 ELSE g - 0 + 1
    BY <2>3, FS_Interval, Zenon
  <2>6. Cardinality(S) = g + 1
    BY <2>3, <2>4, <2>5
  <2>7. Cardinality(S) - 1 = g
    BY <2>3, <2>6
  <2> QED
    BY <2>4, <2>7
<1> QED
  BY <1>1, <1>2

LEMMA count_Step ==
  ASSUME IInv, count
  PROVE  IInv'
<1> DEFINE of(t) == Cardinality({k \in 0 .. n - 1 : mem[k].type = t})
<1>0. TypeOK /\ SortInv
  BY DEF IInv
<1>1. pc = "count" /\ UNCHANGED <<in, mem, n, length>>
  BY DEF count
<1>2. InputOK(in)
  BY <1>0 DEF TypeOK
<1>3. PICK L \in Nat : L = Len(in) /\ L > 0
  BY <1>2, InFacts
<1>4. n \in 1 .. L /\ n \in Nat /\ Kept = 1 .. n /\ Arranged(n) /\ length = 0
  BY <1>0, <1>1, <1>3 DEF TypeOK, SortInv
<1>5. \A k \in 0 .. n - 1 : /\ mem[k] \in SMAP32 /\ mem[k].base \in Nat
                            /\ mem[k].type \in 1 .. Types /\ mem[k].type \in Nat
  BY <1>2, <1>4, ArrangedCells
<1>6. /\ typelengths' = [t \in 1 .. Types |-> of(t)]
      /\ pc' = "merge" /\ i' = 1 /\ j' = 1 /\ len' = of(1)
  BY <1>5 DEF count
<1>7. \A t : of(t) \in 0 .. n
  <2> TAKE t
  <2>1. {k \in 0 .. n - 1 : mem[k].type = t} \in SUBSET (0 .. n - 1)
    OBVIOUS
  <2> QED
    BY <1>4, <2>1, CardBelow
<1>8. \A t \in 1 .. Types :
        typelengths'[t] = Cardinality({k \in 0 .. n - 1 : mem[k].type = t})
  BY <1>6
<1>9. Types \in Nat /\ Types > 0
  BY <1>2, InFacts
<1> HIDE DEF of
<1>10. \A t \in 1 .. Types : typelengths'[t] \in 0 .. n
  BY <1>6, <1>7
<1>11. len' = typelengths'[1] /\ len' \in 0 .. n
  BY <1>6, <1>7, <1>9
<1>12. TypeOK'
  <2>1. typelengths' \in [1 .. Types -> 0 .. L]
    <3>1. \A t \in 1 .. Types : of(t) \in 0 .. L
      BY <1>4, <1>7
    <3> QED
      BY <1>6, <3>1
  <2>2. len' \in 0 .. L /\ j' \in 0 .. L /\ i' \in 1 .. Types + 1
    BY <1>3, <1>4, <1>6, <1>9, <1>11
  <2> QED
    BY <1>0, <1>1, <1>3, <1>6, <2>1, <2>2 DEF TypeOK
<1>13. \A k, l \in 0 .. n - 1 : k < l => Before(mem[k], mem[l])
  BY <1>4 DEF Arranged
<1>14. BlockInv'
  <2>1. \A k, l \in 0 .. n - 1 : k < l => mem[k].type <= mem[l].type
    BY <1>5, <1>13 DEF Before
  <2>2. length = Cardinality({k \in 0 .. n - 1 : mem[k].type < 1})
    <3>1. {k \in 0 .. n - 1 : mem[k].type < 1} = {}
      BY <1>5
    <3> QED
      BY <1>4, <3>1, FS_EmptySet
  <2>3. j' \in 1 .. typelengths'[i'] + 1 /\ len' <= typelengths'[i']
    BY <1>6, <1>9, <1>10, <1>11
  <2> QED
    BY <1>1, <1>5, <1>6, <1>8, <2>1, <2>2, <2>3 DEF BlockInv
<1>15. Ahead' \subseteq 0 .. n - 1
  BY <1>1 DEF Ahead
<1>16. Arranged(n)'
  BY <1>1, <1>4 DEF Arranged
<1>17. ASSUME NEW x \in 1 .. n,
              NEW a \in Clip(in[x]).base .. Clip(in[x]).base + Clip(in[x]).length - 1
       PROVE  \E k \in 0 .. n - 1 : /\ mem[k].type = in[x].type /\ mem[k].base <= a
                                    /\ a < mem[k].base + mem[k].length
  <2>1. PICK k \in 0 .. n - 1 : mem[k] = Clip(in[x])
    BY <1>4 DEF Arranged
  <2>2. x \in Kept /\ x \in 1 .. Len(in)
    BY <1>3, <1>4
  <2>3. /\ mem[k].type = in[x].type /\ mem[k].base \in Nat
        /\ mem[k].length \in Nat
    <3>1. mem[k] \in SMAP32 /\ Clip(in[x]).type = in[x].type
      BY <1>2, <1>5, <2>2, ClipFacts
    <3>2. Top \in Nat
      BY <1>2, InFacts
    <3> QED
      BY <2>1, <3>1, <3>2 DEF SMAP32
  <2>4. PICK c \in Nat, m \in Nat : c = mem[k].base /\ m = mem[k].length
    BY <2>3
  <2>5. a \in c .. c + m - 1
    BY <2>1, <2>4
  <2>6. c <= a /\ a < c + m
    BY <2>5
  <2> QED
    BY <2>3, <2>4, <2>6
<1>18. NoWrap' <=> NoWrap
  BY <1>1 DEF NoWrap
<1>19. MergeInv'
  <2>1. \A k \in Ahead' : \E x \in 1 .. n : mem[k] = Clip(in[x])
    BY <1>4, <1>15 DEF Arranged
  <2>2. \A k, l \in Ahead' : k < l => Before(mem[k], mem[l])
    BY <1>13, <1>15
  <2> QED
    BY <1>1, <1>16, <1>17, <1>18, <2>1, <2>2 DEF MergeInv
<1>20. SortInv'
  BY <1>0, <1>1, <1>4, <1>6 DEF SortInv, Kept
<1> QED
  BY <1>6, <1>12, <1>14, <1>19, <1>20 DEF IInv, NoWild, CompressInv

-----------------------------------------------------------------------------
(* Merging.                                                                *)

\* The entries of the type that is merged are those from length on.
LEMMA Block ==
  ASSUME IInv, pc = "merge", i <= Types
  PROVE  /\ InputOK(in) /\ n \in Nat /\ n <= Len(in) /\ Len(in) \in Nat
         /\ i \in 1 .. Types /\ Types \in Nat /\ Kept = 1 .. n
         /\ length \in Nat /\ typelengths[i] \in Nat /\ len \in Nat /\ j \in Nat
         /\ j >= 1 /\ j - 1 <= typelengths[i] /\ len <= typelengths[i]
         /\ length + typelengths[i] <= n
         /\ length + typelengths[i] = Cardinality({k \in 0 .. n - 1 : mem[k].type < i + 1})
         /\ \A k \in 0 .. n - 1 : mem[k].type = i <=> length <= k /\ k < length + typelengths[i]
<1>0. TypeOK /\ SortInv /\ BlockInv
  BY DEF IInv
<1>1. /\ InputOK(in) /\ Len(in) \in Nat /\ Types \in Nat
  BY <1>0, InFacts DEF TypeOK
<1>2. /\ n \in Nat /\ n <= Len(in) /\ i \in 1 .. Types /\ i \in Nat /\ length \in Nat
      /\ len \in Nat /\ j \in Nat /\ typelengths[i] \in Nat /\ Kept = 1 .. n
  BY <1>0, <1>1 DEF TypeOK, SortInv
<1>3. /\ \A k \in 0 .. n - 1 : mem[k].type \in 1 .. Types
      /\ \A k, l \in 0 .. n - 1 : k < l => mem[k].type <= mem[l].type
      /\ typelengths[i] = Cardinality({k \in 0 .. n - 1 : mem[k].type = i})
      /\ length = Cardinality({k \in 0 .. n - 1 : mem[k].type < i})
      /\ j \in 1 .. typelengths[i] + 1 /\ len <= typelengths[i]
  BY <1>0, <1>2 DEF BlockInv
<1>4. PICK A, B, C \in SUBSET (0 .. n - 1) :
        /\ A = {k \in 0 .. n - 1 : mem[k].type < i}
        /\ B = {k \in 0 .. n - 1 : mem[k].type = i}
        /\ C = {k \in 0 .. n - 1 : mem[k].type < i + 1}
  OBVIOUS
<1>5. IsFiniteSet(A) /\ IsFiniteSet(B) /\ IsFiniteSet(C) /\ Cardinality(C) \in 0 .. n
  BY <1>2, CardBelow
<1>6. \A k \in 0 .. n - 1 : mem[k].type \in Nat
  BY <1>1, <1>3
<1>7. C = A \cup B /\ A \cap B = {}
  BY <1>2, <1>4, <1>6
<1>8. Cardinality(C) = length + typelengths[i]
  <2>1. Cardinality(A \cup B) = Cardinality(A) + Cardinality(B) - Cardinality(A \cap B)
    BY <1>5, FS_Union
  <2>2. Cardinality(A \cap B) = 0
    BY <1>7, FS_EmptySet
  <2>3. Cardinality(A) = length /\ Cardinality(B) = typelengths[i]
    BY <1>3, <1>4
  <2> QED
    BY <1>2, <1>7, <2>1, <2>2, <2>3
<1>9. A = 0 .. length - 1
  <2>1. ASSUME NEW k \in A, NEW l \in 0 .. k PROVE l \in A
    <3>1. k \in 0 .. n - 1 /\ l \in 0 .. n - 1 /\ mem[k].type < i /\ (l = k \/ l < k)
      BY <1>2, <1>4
    <3>2. mem[l].type <= mem[k].type
      BY <1>3, <1>6, <3>1
    <3> QED
      BY <1>2, <1>4, <1>6, <3>1, <3>2
  <2>2. A = 0 .. Cardinality(A) - 1
    BY <1>2, <2>1, DownClosed
  <2> QED
    BY <1>3, <1>4, <2>2
<1>10. C = 0 .. (length + typelengths[i]) - 1
  <2>1. ASSUME NEW k \in C, NEW l \in 0 .. k PROVE l \in C
    <3>1. k \in 0 .. n - 1 /\ l \in 0 .. n - 1 /\ mem[k].type < i + 1 /\ (l = k \/ l < k)
      BY <1>2, <1>4
    <3>2. mem[l].type <= mem[k].type
      BY <1>3, <1>6, <3>1
    <3> QED
      BY <1>2, <1>4, <1>6, <3>1, <3>2
  <2>2. C = 0 .. Cardinality(C) - 1
    BY <1>2, <2>1, DownClosed
  <2> QED
    BY <1>8, <2>2
<1>11. ASSUME NEW k \in 0 .. n - 1
       PROVE  mem[k].type = i <=> length <= k /\ k < length + typelengths[i]
  <2>1. mem[k].type = i <=> k \in C /\ k \notin A
    BY <1>2, <1>4, <1>6
  <2> QED
    BY <1>2, <1>9, <1>10, <2>1
<1>12. j >= 1 /\ j - 1 <= typelengths[i] /\ length + typelengths[i] <= n
  BY <1>2, <1>3, <1>5, <1>8
<1> QED
  BY <1>1, <1>2, <1>3, <1>4, <1>8, <1>11, <1>12

LEMMA EndFacts ==
  ASSUME Top \in Nat, Top > 1, NEW e \in SMAP32
  PROVE  /\ End(e) \in 0 .. Top - 1
         /\ e.base + e.length < Top => End(e) = e.base + e.length
<1>1. e.base \in Nat /\ e.length \in Nat
  BY DEF SMAP32
<1>2. PICK s \in Nat : s = e.base + e.length
  BY <1>1
<1>3. s % Top \in 0 .. Top - 1 /\ (s < Top => s % Top = s)
  OBVIOUS
<1> QED
  BY <1>2, <1>3 DEF End

LEMMA MergedFacts ==
  ASSUME Top \in Nat, Top > 1, NEW a \in SMAP32, NEW b \in SMAP32
  PROVE  /\ Merged(a, b) \in SMAP32
         /\ Merged(a, b).base = a.base /\ Merged(a, b).type = a.type
         /\ Merged(a, b).length >= a.length /\ Merged(a, b).length >= End(b)
<1>1. PICK s \in 0 .. Top - 1, m \in 0 .. Top - 1, t \in Nat :
        a = [base |-> s, length |-> m, type |-> t]
  BY DEF SMAP32
<1>2. PICK v \in 0 .. Top - 1 : v = End(b)
  BY EndFacts
<1>3. PICK w \in 0 .. Top - 1 : w = (IF m > v THEN m ELSE v) /\ w >= m /\ w >= v
  OBVIOUS
<1>4. Merged(a, b) = [base |-> s, length |-> w, type |-> t]
  BY <1>1, <1>2, <1>3 DEF Merged
<1> QED
  BY <1>1, <1>2, <1>3, <1>4 DEF SMAP32

\* Two neighbours within the first u of the m cells from s on.
LEMMA TwoCells ==
  ASSUME NEW N \in Nat, NEW s \in Nat, NEW m \in Nat, NEW u \in Nat, NEW v \in Nat,
         v >= 1, v < u, u <= m, s + m <= N
  PROVE  /\ s + v - 1 \in 0 .. N - 1 /\ s + v \in 0 .. N - 1 /\ s + v - 1 < s + v
         /\ s <= s + v - 1 /\ s <= s + v /\ s + v < s + u
         /\ s + v - 1 < s + m /\ s + v < s + m /\ s + v - 1 < s + u
         /\ v + 1 \in 0 .. N /\ u - 1 \in 0 .. N /\ v + 1 \in 1 .. m + 1 /\ u - 1 <= m
  OBVIOUS

\* Two neighbours that merging looks at, as entries of the BIOS.
LEMMA Neighbours ==
  ASSUME IInv, pc = "merge", i <= Types, j < len
  PROVE  \E x, y \in 1 .. n :
           /\ mem[length + j - 1] = Clip(in[x]) /\ mem[length + j] = Clip(in[y])
           /\ x < y /\ in[x].type = i /\ in[y].type = i
<1>0. MergeInv
  BY DEF IInv
<1>1. PICK p, q : p = length + j - 1 /\ q = length + j
  OBVIOUS
<1>2. /\ p \in Ahead /\ q \in Ahead /\ p < q /\ p \in 0 .. n - 1 /\ q \in 0 .. n - 1
      /\ length <= p /\ q < length + typelengths[i] /\ length <= q /\ p < length + typelengths[i]
  <2>1. /\ n \in Nat /\ length \in Nat /\ typelengths[i] \in Nat /\ len \in Nat /\ j \in Nat
        /\ j >= 1 /\ len <= typelengths[i] /\ length + typelengths[i] <= n
    BY Block
  <2>2. /\ p \in 0 .. n - 1 /\ q \in 0 .. n - 1 /\ p < q
        /\ length <= p /\ length <= q /\ q < length + len
        /\ p < length + typelengths[i] /\ q < length + typelengths[i] /\ p < length + len
    BY <1>1, <2>1, TwoCells
  <2>3. p >= length + j - 1 /\ q >= length + j - 1
    BY <1>1, <2>1
  <2> QED
    BY <2>2, <2>3 DEF Ahead
<1>3. PICK x \in 1 .. n, y \in 1 .. n : mem[p] = Clip(in[x]) /\ mem[q] = Clip(in[y])
  BY <1>0, <1>2 DEF MergeInv
<1>4. Before(mem[p], mem[q])
  BY <1>0, <1>2 DEF MergeInv
<1>5. mem[p].type = i /\ mem[q].type = i
  BY <1>1, <1>2, Block
<1>6. x \in Kept /\ y \in Kept /\ x \in 1 .. Len(in) /\ y \in 1 .. Len(in)
  BY Block DEF Kept
<1>7. /\ mem[p].base = in[x].base /\ mem[q].base = in[y].base
      /\ in[x].type = i /\ in[y].type = i
  BY <1>3, <1>5, <1>6, Block, ClipFacts
<1>8. in[x].base < in[y].base
  BY <1>4, <1>5, <1>7, Block DEF Before
<1>9. in[x].base \in Nat /\ in[y].base \in Nat
  BY <1>6, Block, InFacts
<1>10. ~ (y < x) /\ x # y
  <2>1. y < x => in[y].base < in[x].base
    BY <1>6, Block, InFacts
  <2> QED
    BY <1>8, <1>9, <2>1
<1>11. x < y
  BY <1>6, <1>10
<1> QED
  BY <1>1, <1>3, <1>7, <1>11

LEMMA mergeE820_Step ==
  ASSUME IInv, mergeE820
  PROVE  IInv'
<1>0. TypeOK /\ SortInv /\ BlockInv /\ MergeInv
  BY DEF IInv
<1>1. /\ pc = "merge" /\ i <= Types /\ j < len /\ j' = j + 1
      /\ UNCHANGED <<pc, in, n, i, typelengths, length>>
  BY DEF mergeE820
<1>2. /\ InputOK(in) /\ n \in Nat /\ n <= Len(in) /\ Len(in) \in Nat
      /\ i \in 1 .. Types /\ Types \in Nat /\ Kept = 1 .. n
      /\ length \in Nat /\ typelengths[i] \in Nat /\ len \in Nat /\ j \in Nat
      /\ j >= 1 /\ len <= typelengths[i] /\ length + typelengths[i] <= n
      /\ \A k \in 0 .. n - 1 : mem[k].type = i <=> length <= k /\ k < length + typelengths[i]
  BY <1>1, Block
<1>3. Top \in Nat /\ Top > 1
  BY <1>2, InFacts
<1>4. PICK L \in Nat : L = Len(in)
  BY <1>2
<1>5. PICK p \in 0 .. n - 1, lost \in 0 .. n - 1 : p = length + j - 1 /\ lost = length + j
  BY <1>1, <1>2, TwoCells
<1>6. /\ mem \in [0 .. 2 * L - 1 -> Entries(in) \cup SMAP32] /\ n <= 2 * L
      /\ p \in 0 .. n - 1 /\ lost \in 0 .. n - 1 /\ lost - 1 = p
      /\ lost < length + len
  BY <1>0, <1>1, <1>2, <1>4, <1>5 DEF TypeOK
<1>7. \A k \in 0 .. n - 1 : k \in 0 .. 2 * L - 1
  BY <1>2, <1>6
<1>8. /\ j + 1 \in 0 .. L /\ len - 1 \in 0 .. L
      /\ j + 1 \in 1 .. typelengths[i] + 1 /\ len - 1 <= typelengths[i]
  BY <1>1, <1>2, <1>4
<1>9. \A k \in 0 .. n - 1 : mem[k] \in SMAP32 /\ mem[k].type \in 1 .. Types
  BY <1>0, <1>1 DEF BlockInv
<1>10. PICK a \in SMAP32, b \in SMAP32 :
        a = mem[p] /\ b = mem[lost] /\ a.type = i /\ b.type = i
  <2>1. length <= p /\ p < length + typelengths[i] /\ length <= lost /\ lost < length + typelengths[i]
    BY <1>1, <1>2, <1>5, TwoCells
  <2>2. mem[p] \in SMAP32 /\ mem[lost] \in SMAP32 /\ mem[p].type = i /\ mem[lost].type = i
    BY <1>2, <1>6, <1>9, <2>1
  <2> QED
    BY <2>2
<1>11. IF End(a) > b.base
       THEN /\ mem' = [c \in DOMAIN mem |->
                         CASE c = lost - 1 -> Merged(a, b)
                           [] c >= lost /\ c < length + len - 1 -> mem[c + 1]
                           [] OTHER -> mem[c]]
            /\ len' = len - 1
       ELSE UNCHANGED <<mem, len>>
  BY <1>5, <1>10 DEF mergeE820
<1>12. PICK x \in 1 .. n, y \in 1 .. n :
        a = Clip(in[x]) /\ b = Clip(in[y]) /\ x < y /\ in[x].type = i /\ in[y].type = i
  BY <1>1, <1>5, <1>10, Neighbours
<1>13. /\ x \in Kept /\ y \in Kept /\ x \in 1 .. Len(in) /\ y \in 1 .. Len(in)
       /\ in[x].base \in Nat /\ in[y].base \in Nat /\ in[x].length \in Nat /\ in[y].length \in Nat
       /\ in[x].base < in[y].base
  BY <1>2, <1>12, InFacts
<1>14. a.base = in[x].base /\ b.base = in[y].base
  BY <1>2, <1>12, <1>13, ClipFacts
<1>15. Kept' = Kept /\ (Apart' <=> Apart) /\ (NoWrap' <=> NoWrap)
  BY <1>1 DEF Kept, Apart, NoWrap
<1>16. SortInv'
  BY <1>0, <1>1, <1>15 DEF SortInv
<1>17. CASE ~ (End(a) > b.base)
  <2>1. UNCHANGED <<mem, len>>
    BY <1>11, <1>17
  <2>2. TypeOK'
    <3>1. j' \in 0 .. L
      BY <1>1, <1>8
    <3> QED
      BY <1>0, <1>1, <1>4, <2>1, <3>1 DEF TypeOK
  <2>3. BlockInv'
    <3>1. j' \in 1 .. typelengths[i] + 1
      BY <1>1, <1>2
    <3> QED
      BY <1>0, <1>1, <2>1, <3>1 DEF BlockInv
  <2>4. Ahead' \subseteq Ahead
    BY <1>1, <1>2, <2>1 DEF Ahead
  <2>5. Arranged(n)' <=> Arranged(n)
    BY <1>1, <2>1 DEF Arranged
  <2>6. MergeInv'
    BY <1>0, <1>1, <1>15, <2>1, <2>4, <2>5 DEF MergeInv
  <2> QED
    BY <1>1, <1>16, <2>2, <2>3, <2>6 DEF IInv, NoWild, CompressInv
<1>18. CASE End(a) > b.base
  <2>1. /\ len' = len - 1 /\ DOMAIN mem = 0 .. 2 * L - 1
        /\ mem' = [c \in 0 .. 2 * L - 1 |->
                        CASE c = p -> Merged(a, b)
                          [] c >= lost /\ c < length + len - 1 -> mem[c + 1]
                          [] OTHER -> mem[c]]
    BY <1>6, <1>11, <1>18
  <2>2. /\ mem'[p] = Merged(a, b)
        /\ \A c \in 0 .. 2 * L - 1 : c < p \/ c >= length + len - 1 => mem'[c] = mem[c]
        /\ \A c \in 0 .. 2 * L - 1 : c >= lost /\ c < length + len - 1 => mem'[c] = mem[c + 1]
    <3>1. p \in 0 .. 2 * L - 1
      BY <1>7
    <3>2. \A c \in 0 .. 2 * L - 1 : c >= length + len - 1 => c # p
      BY <1>2, <1>6
    <3>3. \A c \in 0 .. 2 * L - 1 : c >= lost => c # p
      BY <1>6
    <3>4. \A c \in 0 .. 2 * L - 1 : c >= length + len - 1 => ~ (c < length + len - 1)
      BY <1>2
    <3>5. \A c \in 0 .. 2 * L - 1 : c < p => c # p /\ ~ (c >= lost)
      BY <1>2, <1>6
    <3>9. ~ (p >= lost)
      BY <1>6
    <3>6. mem'[p] = Merged(a, b)
      BY <2>1, <3>1, <3>9
    <3>7. ASSUME NEW c \in 0 .. 2 * L - 1, c < p \/ c >= length + len - 1 PROVE mem'[c] = mem[c]
      BY <2>1, <3>2, <3>4, <3>5, <3>7
    <3>8. ASSUME NEW c \in 0 .. 2 * L - 1, c >= lost /\ c < length + len - 1
          PROVE  mem'[c] = mem[c + 1]
      BY <2>1, <3>3, <3>8
    <3> QED
      BY <3>6, <3>7, <3>8
  <2>3. /\ Merged(a, b) \in SMAP32
        /\ Merged(a, b).base = a.base /\ Merged(a, b).type = a.type
        /\ Merged(a, b).length >= a.length /\ Merged(a, b).length >= End(b)
    BY <1>3, <1>10, MergedFacts
  <2>4. \A c \in 0 .. 2 * L - 1 :
          c < p \/ c = p \/ c >= length + len - 1 \/ (c >= lost /\ c < length + len - 1)
    BY <1>2, <1>6
  <2>5. mem' \in [0 .. 2 * L - 1 -> Entries(in) \cup SMAP32]
    <3>1. ASSUME NEW c \in 0 .. 2 * L - 1 PROVE mem'[c] \in Entries(in) \cup SMAP32
      <4>1. CASE c < p \/ c >= length + len - 1
        BY <1>6, <2>2, <4>1
      <4>2. CASE c = p
        BY <2>2, <2>3, <4>2
      <4>3. CASE c >= lost /\ c < length + len - 1
        <5>1. c + 1 \in 0 .. 2 * L - 1
          BY <1>2, <1>6, <4>3
        <5> QED
          BY <1>6, <2>2, <4>3, <5>1
      <4> QED
        BY <2>4, <4>1, <4>2, <4>3
    <3>2. mem' = [c \in 0 .. 2 * L - 1 |-> mem'[c]]
      BY <2>1
    <3> QED
      BY <3>1, <3>2
  <2>6. TypeOK'
    <3>1. j' \in 0 .. L /\ len' \in 0 .. L
      BY <1>1, <1>8, <2>1
    <3> QED
      BY <1>0, <1>1, <1>4, <2>5, <3>1 DEF TypeOK
  <2>7. \A k \in 0 .. n - 1 : mem'[k] \in SMAP32 /\ mem'[k].type = mem[k].type
    <3> TAKE k \in 0 .. n - 1
    <3>0. k \in 0 .. 2 * L - 1
      BY <1>7
    <3>1. CASE k < p \/ k >= length + len - 1
      BY <1>9, <2>2, <3>0, <3>1
    <3>2. CASE k = p
      BY <1>10, <2>2, <2>3, <3>2
    <3>3. CASE k >= lost /\ k < length + len - 1
      <4>1. /\ k + 1 \in 0 .. n - 1 /\ length <= k /\ k < length + typelengths[i]
            /\ length <= k + 1 /\ k + 1 < length + typelengths[i]
        BY <1>2, <1>5, <3>3
      <4>2. mem[k].type = i /\ mem[k + 1].type = i /\ mem[k + 1] \in SMAP32
        BY <1>2, <1>9, <4>1
      <4> QED
        BY <2>2, <3>0, <3>3, <4>2
    <3> QED
      BY <2>4, <3>0, <3>1, <3>2, <3>3
  <2>8. BlockInv'
    <3>1. \A t : {k \in 0 .. n - 1 : mem'[k].type = t} = {k \in 0 .. n - 1 : mem[k].type = t}
      BY <2>7
    <3>2. {k \in 0 .. n - 1 : mem'[k].type < i} = {k \in 0 .. n - 1 : mem[k].type < i}
      BY <2>7
    <3>3. j' \in 1 .. typelengths[i] + 1 /\ len' <= typelengths[i]
      BY <1>1, <1>8, <2>1
    <3>4. \A t \in 1 .. Types : typelengths[t] = Cardinality({k \in 0 .. n - 1 : mem'[k].type = t})
      BY <1>0, <1>1, <3>1 DEF BlockInv
    <3>5. length = Cardinality({k \in 0 .. n - 1 : mem'[k].type < i})
      BY <1>0, <1>1, <3>2 DEF BlockInv
    <3>6. \A k, l \in 0 .. n - 1 : k < l => mem'[k].type <= mem'[l].type
      BY <1>0, <1>1, <2>7 DEF BlockInv
    <3>7. \A k \in 0 .. n - 1 : mem'[k] \in SMAP32 /\ mem'[k].type \in 1 .. Types
      BY <1>9, <2>7
    <3> QED
      BY <1>1, <3>3, <3>4, <3>5, <3>6, <3>7 DEF BlockInv
  <2>9. \A k \in Ahead' :
          \/ k \in Ahead /\ k >= length + typelengths[i] /\ mem'[k] = mem[k]
          \/ k + 1 \in Ahead /\ k < length + len - 1 /\ mem'[k] = mem[k + 1]
    <3> TAKE k \in Ahead'
    <3>1. /\ k \in 0 .. n - 1 /\ k >= length + j
          /\ k < length + (len - 1) \/ k >= length + typelengths[i]
      BY <1>1, <1>2, <2>1 DEF Ahead
    <3>2. CASE k >= length + typelengths[i]
      <4>1. k \in Ahead /\ k >= length + len - 1 /\ k \in 0 .. 2 * L - 1
        <5>1. /\ k \in Int /\ length \in Nat /\ typelengths[i] \in Nat /\ len \in Nat
              /\ j \in Nat /\ len <= typelengths[i]
          BY <1>2, <3>1
        <5>2. k >= length + j - 1 /\ k >= length + len - 1
          BY <3>1, <3>2, <5>1
        <5> QED
          BY <1>1, <1>7, <3>1, <3>2, <5>2 DEF Ahead
      <4> QED
        BY <2>2, <3>2, <4>1
    <3>3. CASE k < length + (len - 1)
      <4>0. /\ k + 1 \in 0 .. n - 1 /\ k + 1 >= length + j - 1 /\ k + 1 < length + len
            /\ k >= lost /\ k < length + len - 1
        BY <1>2, <1>5, <3>1, <3>3
      <4>1. k + 1 \in Ahead /\ k \in 0 .. 2 * L - 1
        BY <1>1, <1>7, <3>1, <4>0 DEF Ahead
      <4> QED
        BY <2>2, <4>0, <4>1
    <3> QED
      BY <3>1, <3>2, <3>3
  <2>10. \A k \in Ahead' : \E z \in 1 .. n : mem'[k] = Clip(in[z])
    BY <1>0, <1>1, <2>9 DEF MergeInv
  <2>11. \A k, l \in Ahead' : k < l => Before(mem'[k], mem'[l])
    <3> SUFFICES ASSUME NEW k \in Ahead', NEW l \in Ahead', k < l
                 PROVE  Before(mem'[k], mem'[l])
      OBVIOUS
    <3>1. k \in Nat /\ l \in Nat
      BY <1>1, <1>2 DEF Ahead
    <3>2. \A c, d \in Ahead : c < d => Before(mem[c], mem[d])
      BY <1>0, <1>1 DEF MergeInv
    <3>3. PICK c \in Ahead, d \in Ahead : c < d /\ mem'[k] = mem[c] /\ mem'[l] = mem[d]
      <4>1. CASE k >= length + typelengths[i] /\ k \in Ahead /\ mem'[k] = mem[k]
        <5>1. ~ (l < length + len - 1)
          BY <1>2, <3>1, <4>1
        <5> QED
          BY <2>9, <4>1, <5>1
      <4>2. CASE k + 1 \in Ahead /\ mem'[k] = mem[k + 1] /\ k < length + len - 1
        <5>1. l >= length + typelengths[i] => k + 1 < l
          BY <1>2, <3>1, <4>2
        <5>2. k + 1 < l + 1
          BY <3>1
        <5> QED
          BY <2>9, <4>2, <5>1, <5>2
      <4> QED
        BY <2>9, <4>1, <4>2
    <3> QED
      BY <3>2, <3>3
  <2>12. ~ Apart
    <3> SUFFICES ASSUME Apart PROVE FALSE
      OBVIOUS
    <3>1. in[x].base + in[x].length <= in[y].base /\ in[y].base < Top - 1
      BY <1>12, <1>13 DEF Apart, Kept
    <3>2. in[x].base + in[x].length < Top
      BY <1>3, <1>13, <3>1
    <3>3. a.length = in[x].length
      BY <1>2, <1>12, <1>13, <3>2, ClipFacts
    <3>4. End(a) = in[x].base + in[x].length
      BY <1>3, <1>10, <1>14, <3>2, <3>3, EndFacts
    <3> QED
      BY <1>13, <1>14, <1>18, <3>1, <3>4
  <2>13. ASSUME NoWrap, NEW z \in 1 .. n,
                NEW adr \in Clip(in[z]).base .. Clip(in[z]).base + Clip(in[z]).length - 1
         PROVE  \E k \in 0 .. n - 1 : /\ mem'[k].type = in[z].type /\ mem'[k].base <= adr
                                      /\ adr < mem'[k].base + mem'[k].length
    <3>0. adr \in Int
      OBVIOUS
    <3>1. PICK k \in 0 .. n - 1 : /\ mem[k].type = in[z].type /\ mem[k].base <= adr
                                  /\ adr < mem[k].base + mem[k].length
      BY <1>0, <1>1, <2>13 DEF MergeInv
    <3>2. k \in 0 .. 2 * L - 1
      BY <1>7
    <3>3. CASE k < p
      BY <2>2, <3>1, <3>2, <3>3
    <3>4. CASE k = p
      <4>1. /\ mem'[p].type = in[z].type /\ mem'[p].base <= adr
        BY <1>10, <2>2, <2>3, <3>1, <3>4
      <4>2. adr < mem'[p].base + mem'[p].length
        <5>1. adr < a.base + a.length /\ mem'[p].base = a.base /\ mem'[p].length >= a.length
          BY <1>10, <2>2, <2>3, <3>1, <3>4
        <5>2. a.base \in Nat /\ a.length \in Nat /\ mem'[p].length \in Nat
          BY <1>3, <2>2, <2>3 DEF SMAP32
        <5>3. PICK e \in Nat, f \in Nat, g \in Nat :
                e = a.base /\ f = a.length /\ g = mem'[p].length
          BY <5>2
        <5>4. adr < e + f /\ g >= f
          BY <5>1, <5>3
        <5>5. adr < e + g
          BY <3>0, <5>4
        <5> QED
          BY <5>1, <5>3, <5>5
      <4> QED
        BY <1>6, <4>1, <4>2
    <3>5. CASE k = lost
      <4>1. in[y].base + in[y].length < Top
        <5>1. PICK c \in Nat, d \in Nat, e \in Nat, f \in Nat :
                c = in[x].base /\ d = in[x].length /\ e = in[y].base /\ f = in[y].length
          BY <1>13
        <5>2. c + d > e
          <6>1. CASE c + d < Top
            <7>1. in[x].base + in[x].length < Top
              BY <5>1, <6>1
            <7>2. a.length = in[x].length
              BY <1>2, <1>12, <1>13, <7>1, ClipFacts
            <7>3. End(a) = in[x].base + in[x].length
              BY <1>3, <1>10, <1>14, <7>1, <7>2, EndFacts
            <7> QED
              BY <1>14, <1>18, <5>1, <7>3
          <6>2. CASE ~ (c + d < Top)
            <7>1. e < Top - 1
              BY <1>13, <5>1 DEF Kept
            <7> QED
              BY <1>3, <6>2, <7>1
          <6> QED
            BY <6>1, <6>2
        <5>3. c + e + f < Top
          BY <1>12, <1>13, <2>13, <5>1, <5>2 DEF NoWrap
        <5>4. e + f < Top
          BY <1>3, <5>3
        <5> QED
          BY <5>1, <5>4
      <4>2. b.length = in[y].length /\ b.base = in[y].base
        BY <1>2, <1>12, <1>13, <4>1, ClipFacts
      <4>3. End(b) = in[y].base + in[y].length
        BY <1>3, <1>10, <4>1, <4>2, EndFacts
      <4>4. in[y].base <= adr /\ adr < in[y].base + in[y].length /\ in[z].type = i
        BY <1>10, <3>1, <3>5, <4>2
      <4>5. /\ mem'[p].base = in[x].base /\ mem'[p].type = i
            /\ mem'[p].length >= in[y].base + in[y].length /\ mem'[p].length \in Nat
        BY <1>3, <1>10, <1>14, <2>2, <2>3, <4>3 DEF SMAP32
      <4>6. mem'[p].base <= adr /\ adr < mem'[p].base + mem'[p].length
        <5>1. PICK m \in Nat : m = mem'[p].length /\ m >= in[y].base + in[y].length
          BY <4>5
        <5>2. in[x].base <= adr
          BY <1>13, <3>0, <4>4
        <5>3. adr < in[x].base + m
          <6>1. PICK e \in Nat, f \in Nat : e = in[y].base + in[y].length /\ f = in[x].base
            <7>1. in[x].base \in Nat /\ in[y].base \in Nat /\ in[y].length \in Nat
              BY <1>13
            <7> QED
              BY <7>1
          <6>2. adr < e /\ m >= e
            BY <4>4, <5>1, <6>1
          <6>3. adr < f + m
            BY <3>0, <6>2
          <6> QED
            BY <6>1, <6>3
        <5> QED
          BY <4>5, <5>1, <5>2, <5>3
      <4> QED
        BY <1>6, <4>4, <4>5, <4>6
    <3>6. CASE k > lost /\ k < length + len
      <4>1. /\ k - 1 \in 0 .. n - 1 /\ k - 1 \in 0 .. 2 * L - 1 /\ k - 1 >= lost
            /\ k - 1 < length + len - 1 /\ (k - 1) + 1 = k
        BY <1>2, <1>6, <3>2, <3>6
      <4>2. mem'[k - 1] = mem[k]
        BY <2>2, <4>1
      <4> QED
        BY <3>1, <4>1, <4>2
    <3>7. CASE k >= length + len
      <4>1. mem'[k] = mem[k]
        BY <1>2, <2>2, <3>2, <3>7
      <4> QED
        BY <3>1, <4>1
    <3> QED
      BY <1>2, <1>6, <3>3, <3>4, <3>5, <3>6, <3>7
  <2>14. MergeInv'
    BY <1>1, <1>15, <2>10, <2>11, <2>12, <2>13 DEF MergeInv
  <2> QED
    BY <1>1, <1>16, <2>6, <2>8, <2>14 DEF IInv, NoWild, CompressInv
<1> QED
  BY <1>17, <1>18

LEMMA merge_next_Step ==
  ASSUME IInv, merge_next
  PROVE  IInv'
<1>0. TypeOK /\ SortInv /\ BlockInv /\ MergeInv
  BY DEF IInv
<1>1. /\ pc = "merge" /\ i <= Types /\ j >= len /\ j' = 1 /\ i' = i + 1
      /\ length' = length + typelengths[i]
      /\ len' = IF i < Types THEN typelengths[i + 1] ELSE 0
      /\ UNCHANGED <<pc, in, mem, n, typelengths>>
  BY DEF merge_next
<1>2. /\ InputOK(in) /\ n \in Nat /\ n <= Len(in) /\ Len(in) \in Nat
      /\ i \in 1 .. Types /\ Types \in Nat
      /\ length \in Nat /\ typelengths[i] \in Nat /\ length + typelengths[i] <= n
      /\ length + typelengths[i] = Cardinality({k \in 0 .. n - 1 : mem[k].type < i + 1})
  BY <1>1, Block
<1>3. PICK L \in Nat : L = Len(in) /\ L > 0
  BY <1>2, InFacts
<1>4. typelengths \in [1 .. Types -> 0 .. L]
  BY <1>0, <1>3 DEF TypeOK
<1>5. i < Types => i + 1 \in 1 .. Types
  BY <1>2
<1>6. /\ len' \in 0 .. L
      /\ i + 1 <= Types => len' = typelengths[i + 1] /\ typelengths[i + 1] \in 0 .. L
  <2>1. i + 1 <= Types <=> i < Types
    BY <1>2
  <2>2. 0 \in 0 .. L
    BY <1>3
  <2> QED
    BY <1>1, <1>4, <1>5, <2>1, <2>2
<1>7. TypeOK'
  <2>1. length' \in 0 .. L /\ j' \in 0 .. L /\ i' \in 1 .. Types + 1
    BY <1>1, <1>2, <1>3
  <2> QED
    BY <1>0, <1>1, <1>3, <1>6, <2>1 DEF TypeOK
<1>8. Kept' = Kept /\ (Apart' <=> Apart) /\ (NoWrap' <=> NoWrap) /\ (Arranged(n)' <=> Arranged(n))
  BY <1>1 DEF Kept, Apart, NoWrap, Arranged
<1>9. SortInv'
  BY <1>0, <1>1, <1>8 DEF SortInv
<1>10. BlockInv'
  <2>1. i + 1 <= Types => j' \in 1 .. typelengths[i + 1] + 1 /\ len' <= typelengths[i + 1]
    BY <1>1, <1>3, <1>6
  <2> QED
    BY <1>0, <1>1, <1>2, <2>1 DEF BlockInv
<1>11. Ahead' \subseteq Ahead
  <2> SUFFICES ASSUME NEW k \in Ahead' PROVE k \in Ahead
    OBVIOUS
  <2>1. k \in 0 .. n - 1 /\ k >= length + typelengths[i] + 1 - 1
    BY <1>1 DEF Ahead
  <2>2. j - 1 <= typelengths[i] /\ j \in Nat
    BY <1>1, Block
  <2>3. k >= length + j - 1 /\ k >= length + typelengths[i]
    BY <1>2, <2>1, <2>2
  <2> QED
    BY <1>1, <2>1, <2>3 DEF Ahead
<1>12. MergeInv'
  BY <1>0, <1>1, <1>8, <1>11 DEF MergeInv
<1> QED
  BY <1>1, <1>7, <1>9, <1>10, <1>12 DEF IInv, NoWild, CompressInv

LEMMA validate_Step ==
  ASSUME IInv, validate
  PROVE  IInv'
<1>0. TypeOK /\ SortInv /\ BlockInv /\ MergeInv
  BY DEF IInv
<1>1. /\ pc = "merge" /\ pc' = "done" /\ i > Types
      /\ UNCHANGED <<in, mem, n, i, j, typelengths, length, len>>
  BY DEF validate
<1>2. TypeOK'
  BY <1>0, <1>1 DEF TypeOK
<1>3. i = Types + 1
  <2>1. i \in 1 .. Types + 1 /\ Types \in Nat
    BY <1>0, <1>1, E820Assumption DEF TypeOK
  <2> QED
    BY <1>1, <2>1
<1>4. /\ Kept' = Kept /\ (Apart' <=> Apart) /\ (NoWrap' <=> NoWrap)
      /\ (Arranged(n)' <=> Arranged(n)) /\ Ahead' = Ahead
  BY <1>1 DEF Kept, Apart, NoWrap, Arranged, Ahead
<1>5. SortInv'
  BY <1>0, <1>1, <1>4 DEF SortInv
<1>6. BlockInv'
  BY <1>0, <1>1, <1>3 DEF BlockInv
<1>7. MergeInv'
  BY <1>0, <1>1, <1>4 DEF MergeInv
<1> QED
  BY <1>1, <1>2, <1>5, <1>6, <1>7 DEF IInv, NoWild, CompressInv

LEMMA StutterStep ==
  ASSUME IInv, UNCHANGED vars
  PROVE  IInv'
<1>0. UNCHANGED <<pc, in, mem, n, i, j, typelengths, length, len>>
  BY DEF vars
<1>1. TypeOK /\ NoWild /\ CompressInv /\ SortInv /\ BlockInv /\ MergeInv
  BY DEF IInv
<1>2. Kept' = Kept /\ (Apart' <=> Apart) /\ (NoWrap' <=> NoWrap) /\ Ahead' = Ahead
  BY <1>0 DEF Kept, Apart, NoWrap, Ahead
<1>3. (Arranged(n)' <=> Arranged(n)) /\ (Arranged(i)' <=> Arranged(i))
  BY <1>0 DEF Arranged
<1>4. TypeOK' /\ NoWild'
  BY <1>0, <1>1 DEF TypeOK, NoWild
<1>5. CompressInv'
  BY <1>0, <1>1, <1>2 DEF CompressInv
<1>6. SortInv'
  BY <1>0, <1>1, <1>2, <1>3 DEF SortInv
<1>7. BlockInv'
  BY <1>0, <1>1 DEF BlockInv
<1>8. MergeInv'
  BY <1>0, <1>1, <1>2, <1>3 DEF MergeInv
<1> QED
  BY <1>4, <1>5, <1>6, <1>7, <1>8 DEF IInv

-----------------------------------------------------------------------------
(* The map that validate returns.                                          *)

LEMMA Returned ==
  ASSUME IInv, pc = "done"
  PROVE  /\ InputOK(in) /\ n \in Nat /\ n <= Len(in) /\ Kept = 1 .. n /\ length = n
         /\ DOMAIN Result = 1 .. n /\ Len(Result) = n
         /\ \A k \in 0 .. n - 1 : k + 1 \in 1 .. n /\ Result[k + 1] = mem[k] /\ mem[k] \in SMAP32
<1>0. TypeOK /\ SortInv /\ BlockInv
  BY DEF IInv
<1>1. InputOK(in) /\ n \in 0 .. Len(in) /\ Kept = 1 .. n /\ i = Types + 1
  BY <1>0 DEF TypeOK, SortInv, BlockInv
<1>2. Len(in) \in Nat /\ Types \in Nat
  BY <1>1, InFacts
<1>3. n \in Nat /\ n <= Len(in)
  BY <1>1, <1>2
<1>4. \A k \in 0 .. n - 1 : mem[k] \in SMAP32 /\ mem[k].type \in 1 .. Types
  BY <1>0 DEF BlockInv
<1>5. {k \in 0 .. n - 1 : mem[k].type < i} = 0 .. n - 1
  BY <1>1, <1>2, <1>4
<1>6. length = n
  <2>1. length = Cardinality(0 .. n - 1)
    BY <1>0, <1>5 DEF BlockInv
  <2>2. 0 \in Int /\ n - 1 \in Int
    BY <1>3
  <2>3. Cardinality(0 .. n - 1) = IF 0 > n - 1 THEN 0 ELSE (n - 1) - 0 + 1
    BY <2>2, FS_Interval
  <2> QED
    BY <1>3, <2>1, <2>3
<1>7. Result = [k \in 1 .. n |-> mem[k - 1]]
  BY <1>6 DEF Result
<1>8. DOMAIN Result = 1 .. n /\ Len(Result) = n
  BY <1>3, <1>7
<1>9. ASSUME NEW k \in 0 .. n - 1
      PROVE  k + 1 \in 1 .. n /\ Result[k + 1] = mem[k]
  <2>1. k + 1 \in 1 .. n /\ (k + 1) - 1 = k
    BY <1>3
  <2> QED
    BY <1>7, <2>1
<1> QED
  BY <1>1, <1>3, <1>4, <1>6, <1>8, <1>9

\* In the order of sortE820 the cell of an entry is its place.
LEMMA PlaceOfCell ==
  ASSUME InputOK(in), n \in Nat, Kept = 1 .. n, Arranged(n),
         NEW k \in 0 .. n - 1, NEW x \in 1 .. n, mem[k] = Clip(in[x])
  PROVE  Place(x) = k + 1
<1> DEFINE S == {y \in Kept : \/ in[y].type < in[x].type
                              \/ in[y].type = in[x].type /\ y <= x}
           entry(l) == CHOOSE y \in 1 .. n : mem[l] = Clip(in[y])
           f == [l \in 0 .. k |-> entry(l)]
<1>1. \A y \in 1 .. n : y \in 1 .. Len(in) /\ in[y].base \in Nat /\ in[y].type \in Nat
  BY InFacts DEF Kept
<1>2. \A y \in 1 .. n : Clip(in[y]).base = in[y].base /\ Clip(in[y]).type = in[y].type
  BY ClipFacts
<1>3. \A y, z \in 1 .. n : y < z => in[y].base < in[z].base
  BY <1>1, InFacts
<1>4. \A y, z \in 1 .. n : Clip(in[y]) = Clip(in[z]) => y = z
  <2> SUFFICES ASSUME NEW y \in 1 .. n, NEW z \in 1 .. n, Clip(in[y]) = Clip(in[z]) PROVE y = z
    OBVIOUS
  <2>1. in[y].base = in[z].base /\ in[y].base \in Nat
    BY <1>1, <1>2
  <2>2. ~ (y < z) /\ ~ (z < y)
    BY <1>3, <2>1
  <2> QED
    BY <2>2
<1>5. \A l \in 0 .. n - 1 : entry(l) \in 1 .. n /\ mem[l] = Clip(in[entry(l)])
  BY DEF Arranged
<1> HIDE DEF entry
<1>6. \A l \in 0 .. k : l \in 0 .. n - 1 /\ (l = k \/ l < k)
  OBVIOUS
<1>7. \A l, m \in 0 .. n - 1 : l < m => Before(mem[l], mem[m])
  BY DEF Arranged
<1>8. ASSUME NEW l \in 0 .. k PROVE entry(l) \in S
  <2>1. PICK y \in 1 .. n : y = entry(l) /\ mem[l] = Clip(in[y])
    BY <1>5, <1>6
  <2>2. CASE l = k
    BY <1>4, <2>1, <2>2
  <2>3. CASE l < k
    <3>1. Before(mem[l], mem[k])
      BY <1>6, <1>7, <2>3
    <3>2. in[y].type < in[x].type \/ (in[y].type = in[x].type /\ in[y].base < in[x].base)
      BY <1>2, <2>1, <3>1 DEF Before
    <3>3. in[y].base < in[x].base => y <= x
      <4>1. ~ (y <= x) => x < y
        OBVIOUS
      <4>2. x < y => in[x].base < in[y].base
        BY <1>3
      <4> QED
        BY <1>1, <4>1, <4>2
    <3> QED
      BY <2>1, <3>2, <3>3
  <2> QED
    BY <1>6, <2>2, <2>3
<1>9. f \in [0 .. k -> S]
  BY <1>8
<1>10. ASSUME NEW l \in 0 .. k, NEW m \in 0 .. k, f[l] = f[m] PROVE l = m
  <2>1. mem[l] = mem[m] /\ mem[l] = Clip(in[entry(l)]) /\ entry(l) \in 1 .. n
    BY <1>5, <1>6, <1>10
  <2>2. mem[l].base \in Nat /\ mem[l].type \in Nat
    BY <1>1, <1>2, <2>1
  <2>3. ~ Before(mem[l], mem[m]) /\ ~ Before(mem[m], mem[l])
    BY <2>1, <2>2 DEF Before
  <2>4. ~ (l < m) /\ ~ (m < l)
    BY <1>6, <1>7, <2>3
  <2> QED
    BY <2>4
<1>11. ASSUME NEW y \in S PROVE \E l \in 0 .. k : f[l] = y
  <2>1. y \in 1 .. n /\ (in[y].type < in[x].type \/ (in[y].type = in[x].type /\ y <= x))
    OBVIOUS
  <2>2. PICK l \in 0 .. n - 1 : mem[l] = Clip(in[y])
    BY <2>1 DEF Arranged
  <2>3. entry(l) = y
    BY <1>4, <1>5, <2>1, <2>2
  <2>4. ~ (k < l)
    <3> SUFFICES ASSUME k < l PROVE FALSE
      OBVIOUS
    <3>1. Before(mem[k], mem[l])
      BY <1>7
    <3>2. in[x].type < in[y].type \/ (in[x].type = in[y].type /\ in[x].base < in[y].base)
      BY <1>2, <2>1, <2>2, <3>1 DEF Before
    <3>3. in[x].type = in[y].type /\ in[x].base < in[y].base /\ y <= x
      BY <1>1, <2>1, <3>2
    <3>4. y = x \/ y < x
      BY <2>1, <3>3
    <3> QED
      BY <1>1, <1>3, <2>1, <3>3, <3>4
  <2>5. l \in 0 .. k
    BY <2>4
  <2> QED
    BY <2>3, <2>5
<1> HIDE DEF f, S
<1>12. f \in Bijection(0 .. k, S)
  BY <1>9, <1>10, <1>11, Fun_IsBij
<1>13. ExistsBijection(0 .. k, S)
  BY <1>12, Fun_ExistsBij
<1>14. IsFiniteSet(0 .. k) /\ Cardinality(0 .. k) = k + 1
  <2>1. 0 \in Int /\ k \in Int /\ ~ (0 > k)
    OBVIOUS
  <2>2. IsFiniteSet(0 .. k) /\ Cardinality(0 .. k) = IF 0 > k THEN 0 ELSE k - 0 + 1
    BY <2>1, FS_Interval
  <2> QED
    BY <2>1, <2>2
<1>15. Cardinality(S) = k + 1
  BY <1>13, <1>14, FS_Bijection
<1> QED
  BY <1>15 DEF Place, S

-----------------------------------------------------------------------------
(* The theorems.                                                           *)

\* The inductive invariant: the writer of compressE820 stays behind its
\* reader, sortE820 groups the entries by type in order of address, and
\* validate's lengths mark the blocks that mergeE820 works in.
THEOREM Invariant == Spec => []IInv
<1>1. Init => IInv
  BY InitInv
<1>2. IInv /\ [Next]_vars => IInv'
  <2> SUFFICES ASSUME IInv, [Next]_vars PROVE IInv'
    OBVIOUS
  <2>1. CASE compressE820
    BY <2>1, compressE820_Step
  <2>2. CASE compress_done
    BY <2>2, compress_done_Step
  <2>3. CASE sortE820
    BY <2>3, sortE820_Step
  <2>4. CASE sort_done
    BY <2>4, sort_done_Step
  <2>5. CASE count
    BY <2>5, count_Step
  <2>6. CASE mergeE820
    BY <2>6, mergeE820_Step
  <2>7. CASE merge_next
    BY <2>7, merge_next_Step
  <2>8. CASE validate
    BY <2>8, validate_Step
  <2>9. CASE UNCHANGED vars
    BY <2>9, StutterStep
  <2> QED
    BY <2>1, <2>2, <2>3, <2>4, <2>5, <2>6, <2>7, <2>8, <2>9 DEF Next
<1> QED
  BY <1>1, <1>2, PTL DEF Spec

\* compressE820 never reads an entry of the BIOS it has written over, sortE820
\* never leaves the map by its low end, although its test j >= 0 is always
\* true, and every type validate counts indexes its array.
THEOREM NoWildHolds == Spec => []NoWild
<1>1. IInv => NoWild
  BY DEF IInv
<1> QED
  BY <1>1, Invariant, PTL

\* What pt_init, palloc and pmm_init take for granted: of a map without
\* overlaps validate returns every entry that starts below the top, each at
\* its place by type and then by address, and none of it merged.
THEOREM GroupedByTypeHolds == Spec => []GroupedByType
<1>1. IInv => GroupedByType
  <2> SUFFICES ASSUME IInv, pc = "done", Apart
               PROVE  /\ Len(Result) = Cardinality(Kept)
                      /\ \A x \in Kept : Place(x) \in DOMAIN Result /\ Result[Place(x)] = UpToTop(x)
    BY DEF GroupedByType
  <2>1. Arranged(n)
    BY DEF IInv, MergeInv
  <2>2. Len(Result) = Cardinality(Kept)
    <3>1. 1 \in Int /\ n \in Int /\ n \in Nat
      BY Returned
    <3>2. Cardinality(1 .. n) = IF 1 > n THEN 0 ELSE n - 1 + 1
      BY <3>1, FS_Interval
    <3>3. Cardinality(1 .. n) = n
      BY <3>1, <3>2
    <3> QED
      BY <3>3, Returned
  <2>3. ASSUME NEW x \in Kept PROVE Place(x) \in DOMAIN Result /\ Result[Place(x)] = UpToTop(x)
    <3>1. x \in 1 .. n
      BY Returned
    <3>2. PICK k \in 0 .. n - 1 : mem[k] = Clip(in[x])
      BY <2>1, <3>1 DEF Arranged
    <3>3. Place(x) = k + 1
      BY <2>1, <3>1, <3>2, Returned, PlaceOfCell
    <3>4. Clip(in[x]) = UpToTop(x)
      BY Returned, ClipFacts
    <3> QED
      BY <3>2, <3>3, <3>4, Returned
  <2> QED
    BY <2>2, <2>3
<1> QED
  BY <1>1, Invariant, PTL

\* validate delivers what palloc takes for granted, MapOK, so that what is
\* proved of Stage2 holds for the maps E820 leaves.  The entries of RAM are the
\* first typelengths[1], and one of another type follows them.
THEOREM DeliversMapHolds == Spec => []DeliversMap
<1>1. IInv => DeliversMap
  <2> SUFFICES ASSUME IInv, pc = "done", Plain PROVE MapOK(Result)
    BY DEF DeliversMap
  <2>1. /\ InputOK(in) /\ n \in Nat /\ Kept = 1 .. n
        /\ DOMAIN Result = 1 .. n /\ Len(Result) = n
        /\ \A k \in 0 .. n - 1 : k + 1 \in 1 .. n /\ Result[k + 1] = mem[k] /\ mem[k] \in SMAP32
    BY Returned
  <2>2. Arranged(n) /\ Apart
    BY DEF IInv, MergeInv, Plain
  <2>3. Top \in Nat /\ Len(in) \in Nat
    BY <2>1, InFacts
  <2>4. \A x \in Kept : /\ x \in 1 .. n /\ x \in 1 .. Len(in)
                        /\ in[x].base \in Nat /\ in[x].length \in Nat /\ in[x].type \in Nat
                        /\ in[x].length > 0 /\ in[x].type >= 1
                        /\ Clip(in[x]).base = in[x].base /\ Clip(in[x]).type = in[x].type
    <3> TAKE x \in Kept
    <3>1. x \in 1 .. n /\ x \in 1 .. Len(in)
      BY <2>1 DEF Kept
    <3> QED
      BY <2>1, <3>1, ClipFacts, InFacts
  <2>5. \A k \in 0 .. n - 1 : \E x \in Kept : mem[k] = Clip(in[x])
    BY <2>1, <2>2 DEF Arranged
  <2>6. Result \in Seq(SMAP32_t)
    <3>1. \A z \in 1 .. n : z - 1 \in 0 .. n - 1 /\ (z - 1) + 1 = z
      BY <2>1
    <3>2. \A z \in 1 .. n : Result[z] \in SMAP32
      BY <2>1, <3>1
    <3>3. SMAP32 \subseteq SMAP32_t
      BY <2>3 DEF SMAP32, SMAP32_t
    <3>4. \A z \in 1 .. n : Result[z] \in SMAP32_t
      BY <3>2, <3>3
    <3>5. Result = [z \in 1 .. n |-> Result[z]]
      <4>1. length = n
        BY Returned
      <4> QED
        BY <4>1 DEF Result
    <3> HIDE DEF Result
    <3> QED
      BY <2>1, <3>4, <3>5
  <2>7. ASSUME NEW x \in Kept
        PROVE  /\ Clip(in[x]).base + Clip(in[x]).length <= Top /\ Clip(in[x]).length > 0
               /\ Clip(in[x]).base + Clip(in[x]).length <= in[x].base + in[x].length
    <3>1. PICK b \in Nat, m \in Nat, t \in Nat : in[x] = [base |-> b, length |-> m, type |-> t]
      <4>1. in[x] \in SMAP_entry
        BY <2>1, <2>4, InFacts
      <4> QED
        BY <4>1 DEF SMAP_entry
    <3>2. m > 0 /\ b < Top - 1
      BY <2>4, <3>1 DEF Kept
    <3>3. PICK v \in Nat : v = IF b + m > Top THEN Top - b ELSE m
      <4>1. Top - b \in Nat
        BY <2>3, <3>2
      <4> QED
        BY <4>1
    <3>4. UpToTop(x) = [base |-> b, length |-> v, type |-> t]
      BY <3>1, <3>3 DEF UpToTop
    <3>5. Clip(in[x]) = [base |-> b, length |-> v, type |-> t]
      BY <2>1, <3>4, ClipFacts
    <3>6. b + v <= Top /\ v > 0 /\ b + v <= b + m
      BY <2>3, <3>2, <3>3
    <3> QED
      BY <3>1, <3>5, <3>6
  <2>8. mem[0] = Clip(in[1]) /\ 0 \in 0 .. n - 1 /\ 1 \in Kept
    <3>1. n > 0
      BY DEF IInv, SortInv
    <3>2. 0 \in 0 .. n - 1 /\ 1 \in 1 .. n
      BY <2>1, <3>1
    <3>3. PICK k \in 0 .. n - 1 : mem[k] = Clip(in[1])
      BY <2>2, <3>2 DEF Arranged
    <3>4. mem[k].type = 1 /\ mem[k].base = 0
      BY <2>1, <2>4, <3>2, <3>3, InFacts
    <3>5. PICK x \in Kept : mem[0] = Clip(in[x])
      BY <2>5, <3>2
    <3>6. mem[0].type \in Nat /\ mem[0].type >= 1 /\ mem[0].base \in Nat
      BY <2>4, <3>5
    <3>7. ~ Before(mem[0], mem[k])
      BY <3>4, <3>6 DEF Before
    <3>8. ~ (0 < k)
      BY <2>2, <3>2, <3>7 DEF Arranged
    <3>9. k = 0
      BY <2>1, <3>8
    <3> QED
      BY <2>1, <3>2, <3>3, <3>9
  <2>9. RoundUp(Result[1].base + Result[1].length) < Top
    <3>1. in[1].base + in[1].length < Top => Clip(in[1]).length = in[1].length
      BY <2>1, <2>8, ClipFacts
    <3>2. in[1].base = 0 /\ in[1].length < Top /\ in[1].length \in Nat
      BY <2>1, <2>4, <2>8, InFacts
    <3>3. in[1].base + in[1].length < Top
      BY <3>2
    <3>4. Result[0 + 1] = mem[0]
      BY <2>1, <2>8
    <3>5. Result[1].base = in[1].base /\ Result[1].length = in[1].length
      BY <2>4, <2>8, <3>1, <3>3, <3>4
    <3> HIDE DEF Result
    <3> QED
      BY <3>5 DEF Plain
  <2>10. \A z \in 1 .. n : Result[z].base + Result[z].length <= Top
    <3> TAKE z \in 1 .. n
    <3>1. z - 1 \in 0 .. n - 1 /\ (z - 1) + 1 = z
      BY <2>1
    <3>2. PICK x \in Kept : mem[z - 1] = Clip(in[x])
      BY <2>5, <3>1
    <3>3. Result[z] = Clip(in[x])
      BY <2>1, <3>1, <3>2
    <3> HIDE DEF Result
    <3> QED
      BY <2>7, <3>3
  <2> DEFINE R == {k \in 0 .. n - 1 : mem[k].type = 1}
  <2>11. PICK m \in 0 .. n : R = 0 .. m - 1
    <3>1. R \in SUBSET (0 .. n - 1)
      OBVIOUS
    <3>2. ASSUME NEW k \in R, NEW l \in 0 .. k PROVE l \in R
      <4>1. k \in 0 .. n - 1 /\ mem[k].type = 1 /\ l \in 0 .. n - 1 /\ (l = k \/ l < k)
        BY <2>1
      <4>2. l < k => Before(mem[l], mem[k])
        BY <2>2, <4>1 DEF Arranged
      <4>3. mem[l].type \in Nat /\ mem[l].type >= 1
        BY <2>4, <2>5, <4>1
      <4> QED
        BY <4>1, <4>2, <4>3 DEF Before
    <3> HIDE DEF R
    <3>3. R = 0 .. Cardinality(R) - 1
      BY <2>1, <3>1, <3>2, DownClosed
    <3>4. Cardinality(R) \in 0 .. n
      BY <2>1, <3>1, CardBelow
    <3> QED
      BY <3>3, <3>4
  <2>12. m \in 1 .. n - 1 /\ mem[m].type # 1 /\ m \in 0 .. n - 1
    <3>1. 0 \in R
      BY <2>1, <2>4, <2>8, InFacts
    <3>2. m > 0
      BY <2>11, <3>1
    <3>3. PICK x \in Kept : in[x].type # 1
      BY DEF Plain
    <3>4. PICK k \in 0 .. n - 1 : mem[k] = Clip(in[x])
      BY <2>2, <2>4, <3>3 DEF Arranged
    <3>5. k \notin R
      BY <2>4, <3>3, <3>4
    <3>6. ~ (k < m)
      BY <2>1, <2>11, <3>5
    <3>7. m <= n - 1
      BY <2>1, <3>6
    <3>8. m \in 0 .. n - 1 /\ m \notin R
      BY <2>1, <2>11, <3>2, <3>7
    <3> QED
      BY <2>1, <3>2, <3>7, <3>8
  <2>13. Result[m + 1].type # 1
    BY <2>1, <2>12
  <2>14. ASSUME NEW z \in 1 .. m
         PROVE  \E x \in Kept : /\ Result[z] = Clip(in[x]) /\ in[x].type = 1
                                /\ Result[z] = mem[z - 1] /\ z - 1 \in 0 .. n - 1
    <3>1. z - 1 \in 0 .. n - 1 /\ z - 1 \in 0 .. m - 1 /\ (z - 1) + 1 = z
      BY <2>1, <2>12
    <3>2. mem[z - 1].type = 1
      BY <2>11, <3>1
    <3>3. PICK x \in Kept : mem[z - 1] = Clip(in[x])
      BY <2>5, <3>1
    <3>4. in[x].type = 1
      BY <2>4, <3>2, <3>3
    <3>5. Result[z] = mem[z - 1]
      BY <2>1, <3>1
    <3> HIDE DEF Result
    <3> QED
      BY <3>1, <3>3, <3>4, <3>5
  <2> HIDE DEF Result, R
  <2>15. \A z \in 1 .. m : /\ Result[z].type = 1 /\ Result[z].base % PageSize = 0
                           /\ Result[z].length > 0
    <3> TAKE z \in 1 .. m
    <3>1. PICK x \in Kept : Result[z] = Clip(in[x]) /\ in[x].type = 1
      BY <2>14
    <3>2. in[x].base % PageSize = 0
      BY <3>1 DEF Plain
    <3> QED
      BY <2>4, <2>7, <3>1, <3>2
  <2>16. ASSUME NEW y \in 1 .. m, NEW z \in 1 .. m, y < z
         PROVE  Result[y].base + Result[y].length <= Result[z].base
    <3>1. PICK v \in Kept : /\ Result[y] = Clip(in[v]) /\ in[v].type = 1
                            /\ Result[y] = mem[y - 1] /\ y - 1 \in 0 .. n - 1
      BY <2>14
    <3>2. PICK w \in Kept : /\ Result[z] = Clip(in[w]) /\ in[w].type = 1
                            /\ Result[z] = mem[z - 1] /\ z - 1 \in 0 .. n - 1
      BY <2>14
    <3>3. Before(mem[y - 1], mem[z - 1])
      <4>1. y - 1 < z - 1
        BY <2>16
      <4> QED
        BY <2>2, <3>1, <3>2, <4>1 DEF Arranged
    <3>4. in[v].base < in[w].base
      <4>1. /\ mem[y - 1].type = 1 /\ mem[z - 1].type = 1
            /\ mem[y - 1].base = in[v].base /\ mem[z - 1].base = in[w].base
        BY <2>4, <3>1, <3>2
      <4> QED
        BY <3>3, <4>1 DEF Before
    <3>5. v < w
      <4>1. w < v => in[w].base < in[v].base
        BY <2>1, <2>4, InFacts
      <4>2. ~ (w < v) /\ v # w
        BY <2>4, <3>4, <4>1
      <4> QED
        BY <2>1, <4>2
    <3>6. in[v].base + in[v].length <= in[w].base
      BY <2>2, <2>4, <3>5 DEF Apart
    <3>7. PICK e \in Nat, c \in Nat, d \in Nat :
            /\ e = in[v].base + in[v].length /\ c = Clip(in[v]).base + Clip(in[v]).length
            /\ d = in[w].base
      <4>1. Clip(in[v]) \in SMAP32
        BY <2>1, ClipFacts
      <4>2. Clip(in[v]).base \in Nat /\ Clip(in[v]).length \in Nat
        BY <2>3, <4>1 DEF SMAP32
      <4>3. in[v].base \in Nat /\ in[v].length \in Nat /\ in[w].base \in Nat
        BY <2>4
      <4> QED
        BY <4>2, <4>3
    <3>8. c <= e /\ e <= d
      BY <2>7, <3>6, <3>7
    <3>9. c <= d
      BY <3>8
    <3> QED
      BY <2>4, <3>1, <3>2, <3>7, <3>9
  <2> QED
    BY <2>1, <2>6, <2>9, <2>10, <2>12, <2>13, <2>15, <2>16 DEF MapOK
<1> QED
  BY <1>1, Invariant, PTL

\* Whatever mergeE820 makes of regions that overlap, validate's result covers
\* every address below the top, of every type, that the firmware's map did,
\* as long as no two regions of a type overlap so high that their merged sum
\* leaves 32 bits.
THEOREM NothingLostHolds == Spec => []NothingLost
<1>1. IInv => NothingLost
  <2> DEFINE Low == [x \in Kept |-> UpToTop(x)]
  <2> SUFFICES ASSUME IInv, pc = "done", NoWrap, NEW t \in 1 .. Types, NEW adr \in Area(Low, t)
               PROVE  adr \in Area(Result, t)
    BY DEF NothingLost
  <2>1. InputOK(in)
    BY DEF IInv, TypeOK
  <2>2. PICK x \in Kept :
          UpToTop(x).type = t /\ adr \in UpToTop(x).base .. UpToTop(x).base + UpToTop(x).length - 1
    <3>1. PICK x \in DOMAIN Low : Low[x].type = t /\ adr \in Low[x].base .. Low[x].base + Low[x].length - 1
      BY DEF Area
    <3> QED
      BY <3>1
  <2>3. Clip(in[x]) = UpToTop(x) /\ Clip(in[x]).type = in[x].type
    BY <2>1, ClipFacts
  <2>4. x \in 1 .. n
    BY Returned
  <2>5. PICK k \in 0 .. n - 1 : /\ mem[k].type = t /\ mem[k].base <= adr
                                /\ adr < mem[k].base + mem[k].length
    <3>1. adr \in Clip(in[x]).base .. Clip(in[x]).base + Clip(in[x]).length - 1
      BY <2>2, <2>3
    <3>2. in[x].type = t
      BY <2>2, <2>3
    <3> QED
      BY <2>4, <3>1, <3>2 DEF IInv, MergeInv
  <2>6. /\ k + 1 \in DOMAIN Result /\ Result[k + 1] = mem[k]
        /\ mem[k].base \in Nat /\ mem[k].length \in Nat
    <3>1. k + 1 \in DOMAIN Result /\ Result[k + 1] = mem[k] /\ mem[k] \in SMAP32
      BY Returned
    <3>2. Top \in Nat
      BY <2>1, InFacts
    <3> QED
      BY <3>1, <3>2 DEF SMAP32
  <2>7. adr \in Int
    BY <2>2
  <2>8. adr \in Result[k + 1].base .. Result[k + 1].base + Result[k + 1].length - 1
    BY <2>5, <2>6, <2>7
  <2>9. k + 1 \in {z \in DOMAIN Result : Result[z].type = t}
    BY <2>5, <2>6
  <2> HIDE DEF Result
  <2> QED
    BY <2>8, <2>9 DEF Area
<1> QED
  BY <1>1, Invariant, PTL
=============================================================================
