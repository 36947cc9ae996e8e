----------------------------- MODULE SlabProofs -----------------------------
(***************************************************************************)
(* For every size of the page and of its blocks: slab.cpp never hands out  *)
(* a block twice or two blocks that overlap, and loses none.               *)
(***************************************************************************)
EXTENDS Slab, FiniteSetTheorems, TLAPS

\* A positive multiple of N is at least N.
LEMMA MulAtLeast ==
  ASSUME NEW N \in Nat \ {0}, NEW k \in Int, k >= 1
  PROVE  N * k >= N
  OBVIOUS


\* Multiples of s are at least s apart.
LEMMA MulOrder ==
  ASSUME NEW s \in Nat \ {0}, NEW a \in Int, NEW b \in Int, a < b
  PROVE  a * s + s <= b * s
<1>1. PICK k \in Int : k = b - a /\ k >= 1
  OBVIOUS
<1>2. s * k >= s
  BY <1>1, MulAtLeast
<1>3. s * k = b * s - a * s
  BY <1>1
<1> QED
  BY <1>2, <1>3

\* Different blocks have no word in common.
LEMMA BlocksApart ==
  ASSUME TypeOK, NEW b \in Blocks(free), NEW c \in Blocks(free), b # c
  PROVE  Apart(b, c)
<1>1. size \in Nat \ {0} /\ free \in Nat
  BY SlabAssumption DEF TypeOK, Word
<1>2. PICK k \in 0 .. free : b = k * size
  BY DEF Blocks
<1>3. PICK j \in 0 .. free : c = j * size
  BY DEF Blocks
<1>4. k \in Int /\ j \in Int /\ k # j
  BY <1>1, <1>2, <1>3
<1>5. CASE k < j
  BY <1>1, <1>2, <1>3, <1>4, <1>5, MulOrder DEF Apart
<1>6. CASE j < k
  BY <1>1, <1>2, <1>3, <1>4, <1>6, MulOrder DEF Apart
<1> QED
  BY <1>4, <1>5, <1>6

\* A block starts in the page.
LEMMA BlocksAreWords ==
  ASSUME TypeOK, NEW n \in Word, n * size < PageWords
  PROVE  Blocks(n) \subseteq Word
<1> SUFFICES ASSUME NEW k \in 0 .. n PROVE k * size \in Word
  BY DEF Blocks
<1>1. size \in Nat \ {0} /\ n \in Nat /\ PageWords \in Nat /\ k \in Int /\ k >= 0 /\ k <= n /\ n \in Int
  BY SlabAssumption DEF TypeOK, Word
<1>2. k * size <= n * size
  <2>1. CASE k = n
    BY <1>1, <2>1
  <2>2. CASE k < n
    <3>1. k * size + size <= n * size
      BY <1>1, <2>2, MulOrder
    <3> QED
      BY <1>1, <3>1
  <2> QED
    BY <1>1, <2>1, <2>2
<1>3. k * size >= 0
  BY <1>1
<1> QED
  BY <1>1, <1>2, <1>3 DEF Word

-----------------------------------------------------------------------------
LEMMA InitInv ==
  ASSUME Init
  PROVE  IInv
<1>1. PageWords \in Nat /\ PageWords > 0 /\ size \in 1 .. PageWords
  BY SlabAssumption DEF Init
<1>2. \A i \in Word : i * size \in Nat
  <2> SUFFICES ASSUME NEW i \in Word PROVE i * size \in Nat
    OBVIOUS
  <2>1. i \in Nat /\ size \in Nat
    BY <1>1 DEF Word
  <2> QED
    BY <2>1
<1>3. TypeOK
  BY <1>1, <1>2 DEF Init, TypeOK, Word
<1>4. BuildInv
  BY <1>1 DEF Init, BuildInv, Word
<1> QED
  BY <1>3, <1>4 DEF IInv, Init

\* A round of slabp_init links one more block.
LEMMA InitBlockInv ==
  ASSUME TypeOK, BuildInv, slabp_init_block
  PROVE  TypeOK' /\ BuildInv'
<1>0. /\ PageWords \in Nat /\ size \in Nat \ {0} /\ size' = size /\ free \in Nat
      /\ first_free = free * size /\ free' = free + 1 /\ first_free' = first_free + size
      /\ list' = list /\ held' = held /\ top' = top /\ phase' = phase
      /\ first_free + size < PageWords
  BY SlabAssumption DEF TypeOK, BuildInv, slabp_init_block, Word
<1>1. first_free \in Nat /\ first_free \in Word
  <2>1. free * size \in Nat
    BY <1>0
  <2> QED
    BY <1>0, <2>1 DEF Word
<1>2. first_free + size = (free + 1) * size /\ first_free' = free' * size
  BY <1>0
<1>3. free + 1 <= first_free + size
  <2>1. (free + 1) * size >= free + 1
    <3>1. PICK f \in Nat \ {0} : f = free + 1
      BY <1>0
    <3>2. size \in Int /\ size >= 1
      BY <1>0
    <3>3. f * size >= f
      BY <3>1, <3>2, MulAtLeast
    <3> QED
      BY <3>1, <3>3
  <2> QED
    BY <1>2, <2>1
<1>4. /\ data' = [data EXCEPT ![first_free] = first_free + size]
      /\ first_free + size \in Word /\ free + 1 \in Word
  BY <1>0, <1>1, <1>3 DEF slabp_init_block, Word
<1>5. TypeOK'
  BY <1>0, <1>1, <1>4 DEF TypeOK
<1>6. ASSUME NEW i \in Word, i < free' PROVE data'[i * size] = (i + 1) * size
  <2>0. i \in Int /\ i >= 0 /\ i <= free /\ free \in Int
    BY <1>0, <1>6 DEF Word
  <2>1. CASE i = free
    BY <1>0, <1>1, <1>2, <1>4, <2>1 DEF TypeOK
  <2>2. CASE i < free
    <3>1. i * size + size <= free * size
      BY <1>0, <2>0, <2>2, MulOrder
    <3>2. i * size >= 0
      BY <1>0, <2>0
    <3>3. i * size \in Word /\ i * size # first_free
      BY <1>0, <1>1, <2>0, <3>1, <3>2 DEF Word
    <3> QED
      BY <1>4, <2>2, <3>3 DEF TypeOK, BuildInv
  <2> QED
    BY <2>0, <2>1, <2>2
<1>7. BuildInv'
  BY <1>0, <1>2, <1>6 DEF BuildInv
<1> QED
  BY <1>5, <1>7

\* At the end of slabp_init every block is on the list.
LEMMA InitDoneInv ==
  ASSUME TypeOK, BuildInv, slabp_init
  PROVE  TypeOK' /\ (MemInv /\ PlaceInv /\ CountInv)'
<1>0. /\ PageWords \in Nat /\ size \in Nat \ {0} /\ size' = size /\ free \in Nat /\ free' = free
      /\ first_free = free * size /\ first_free' = 0 /\ free \in Word /\ phase' = "run"
      /\ list' = list /\ held' = {} /\ top' = 0 /\ held = {} /\ top = 0
      /\ first_free + size >= PageWords
      /\ PageWords > 0
  BY SlabAssumption DEF TypeOK, BuildInv, slabp_init, Word
<1>1. first_free \in Word /\ data' = [data EXCEPT ![first_free] = Sentinel]
  <2>1. first_free \in Nat
    BY <1>0
  <2> QED
    BY <1>0, <2>1 DEF BuildInv, slabp_init, Word
<1>2. TypeOK'
  BY <1>0, <1>1 DEF TypeOK, Word
<1>3. \A i \in Word : list'[i] = i * size
  BY <1>0 DEF BuildInv
<1>4. 0 .. free \subseteq Word
  BY <1>0 DEF Word
<1>5. MemInv'
  <2>1. list'[0] = 0
    BY <1>0, <1>3 DEF Word
  <2>2. first_free' = Entry(top)'
    BY <1>0, <2>1 DEF Entry
  <2>3. ASSUME NEW i \in 0 .. free PROVE data'[list'[i]] = Entry(i + 1)'
    <3>0. i \in Word /\ i \in Int /\ i >= 0 /\ i <= free /\ free \in Int
      BY <1>0, <1>4
    <3>1. CASE i = free
      BY <1>0, <1>1, <1>3, <3>0, <3>1 DEF Entry, TypeOK
    <3>2. CASE i < free
      <4>1. i * size + size <= free * size
        BY <1>0, <3>0, <3>2, MulOrder
      <4>2. i * size >= 0
        BY <1>0, <3>0
      <4>3. i * size \in Word /\ i * size # first_free
        BY <1>0, <1>1, <3>0, <4>1, <4>2 DEF Word
      <4>4. data'[i * size] = (i + 1) * size
        BY <1>1, <3>0, <3>2, <4>3 DEF TypeOK, BuildInv
      <4>5. i + 1 \in Word /\ ~ (i + 1 > free)
        BY <1>0, <3>0, <3>2, <1>4
      <4> QED
        BY <1>0, <1>3, <3>0, <4>4, <4>5 DEF Entry
    <3> QED
      BY <3>0, <3>1, <3>2
  <2> QED
    BY <1>0, <2>2, <2>3 DEF MemInv
<1>6. PlaceInv'
  <2>1. free * size < PageWords /\ (free + 1) * size >= PageWords
    <3>1. (free + 1) * size = free * size + size
      BY <1>0
    <3> QED
      BY <1>0, <1>1, <3>1 DEF Word
  <2>2. Blocks(free)' = Blocks(free)
    BY <1>0 DEF Blocks
  <2>3. \A i \in 0 .. free : list'[i] \in Blocks(free)
    BY <1>3, <1>4 DEF Blocks
  <2>4. \A b \in Blocks(free) : \E i \in 0 .. free : b = list'[i]
    BY <1>3, <1>4 DEF Blocks
  <2>5. ASSUME NEW i \in 0 .. free, NEW j \in 0 .. free, list'[i] = list'[j] PROVE i = j
    <3>1. i * size = j * size /\ i \in Int /\ j \in Int
      BY <1>3, <1>4, <2>5
    <3>2. ~ (i < j)
      <4>1. i < j => i * size + size <= j * size
        BY <1>0, <3>1, MulOrder
      <4> QED
        BY <1>0, <3>1, <4>1
    <3>3. ~ (j < i)
      <4>1. j < i => j * size + size <= i * size
        BY <1>0, <3>1, MulOrder
      <4> QED
        BY <1>0, <3>1, <4>1
    <3> QED
      BY <3>1, <3>2, <3>3
  <2> QED
    BY <1>0, <2>1, <2>2, <2>3, <2>4, <2>5 DEF PlaceInv
<1>7. CountInv'
  BY <1>0, FS_EmptySet DEF CountInv
<1> QED
  BY <1>2, <1>5, <1>6, <1>7

-----------------------------------------------------------------------------
\* The facts about the list that the steps use.
LEMMA Running ==
  ASSUME TypeOK, MemInv, PlaceInv, CountInv
  PROVE  /\ PageWords \in Nat /\ size \in Nat \ {0} /\ free \in Nat /\ free \in Word /\ top \in Nat
         /\ free < PageWords /\ top <= free + 1
         /\ Blocks(free) \subseteq Word /\ held \subseteq Blocks(free)
         /\ \A i \in top .. free : list[i] \in Word /\ i \in Word /\ list[i] \notin held
         /\ Sentinel \notin Word
         /\ slabp_full <=> top = free + 1
         /\ ~ slabp_full => top \in top .. free /\ first_free = list[top]
<1>1. /\ PageWords \in Nat /\ size \in Nat \ {0} /\ free \in Nat /\ free \in Word /\ top \in Nat
      /\ free < PageWords /\ top <= free + 1 /\ Sentinel \notin Word /\ free * size < PageWords
  BY SlabAssumption DEF TypeOK, Word, CountInv, PlaceInv
<1>2. Blocks(free) \subseteq Word
  BY <1>1, BlocksAreWords
<1>3. held \subseteq Blocks(free) /\ \A i \in top .. free : list[i] \in Word /\ list[i] \notin held
  BY <1>2 DEF PlaceInv
<1>4. \A i \in top .. free : i \in Word
  BY <1>1 DEF Word
<1>5. CASE top = free + 1
  BY <1>1, <1>2, <1>3, <1>4, <1>5 DEF MemInv, Entry, slabp_full
<1>6. CASE top <= free
  <2>1. top \in top .. free /\ ~ (top > free)
    BY <1>1, <1>6
  <2> QED
    BY <1>1, <1>2, <1>3, <1>4, <1>6, <2>1 DEF MemInv, Entry, slabp_full
<1> QED
  BY <1>1, <1>5, <1>6

\* slabp_alloc takes the head of the list.
LEMMA AllocInv ==
  ASSUME TypeOK, MemInv, PlaceInv, CountInv, slabp_alloc
  PROVE  /\ TypeOK' /\ (MemInv /\ PlaceInv /\ CountInv)'
         /\ first_free \in Blocks(free) \ held /\ held' = held \cup {first_free}
<1>0. /\ PageWords \in Nat /\ free \in Nat /\ free < PageWords /\ top \in Nat /\ top <= free /\ top' = top + 1
      /\ first_free = list[top] /\ top \in top .. free /\ top \in Word
      /\ list[top] \in Word /\ list[top] \notin held /\ list[top] \in Blocks(free)
      /\ phase' = phase /\ data' = data /\ size' = size /\ free' = free
      /\ held' = held \cup {first_free} /\ first_free' = data[list[top]]
      /\ list' = [list EXCEPT ![top] = 0]
  BY Running DEF slabp_alloc, PlaceInv
<1>1. \A i \in top' .. free : i \in top .. free /\ i # top /\ list'[i] = list[i] /\ i \in Word
  <2> SUFFICES ASSUME NEW i \in top' .. free
               PROVE  i \in top .. free /\ i # top /\ list'[i] = list[i] /\ i \in Word
    OBVIOUS
  <2>1. i \in top .. free /\ i # top
    BY <1>0
  <2>2. i \in Word
    BY <2>1, Running
  <2> QED
    BY <1>0, <2>1, <2>2 DEF TypeOK
<1>2. \A i \in top .. free : Entry(i + 1)' = Entry(i + 1)
  <2> SUFFICES ASSUME NEW i \in top .. free PROVE Entry(i + 1)' = Entry(i + 1)
    OBVIOUS
  <2>1. i + 1 > free \/ i + 1 \in top' .. free
    BY <1>0
  <2> QED
    BY <1>0, <1>1, <2>1 DEF Entry
<1>3. data[list[top]] = Entry(top + 1)
  BY <1>0 DEF MemInv
<1>4. MemInv'
  <2>1. first_free' = Entry(top)'
    BY <1>0, <1>2, <1>3
  <2>2. \A i \in top' .. free : data'[list'[i]] = Entry(i + 1)'
    BY <1>0, <1>1, <1>2 DEF MemInv
  <2> QED
    BY <1>0, <2>1, <2>2 DEF MemInv
<1>5. Entry(top + 1) \in Word \cup {Sentinel}
  <2>1. top + 1 > free \/ top + 1 \in top .. free
    BY <1>0
  <2> QED
    BY <2>1, Running DEF Entry
<1>6. TypeOK'
  <2>1. first_free' \in Word \cup {Sentinel} /\ list' \in [Word -> Nat]
    BY <1>0, <1>3, <1>5 DEF TypeOK
  <2>2. top' \in 0 .. PageWords
    BY <1>0
  <2>3. held' \subseteq Word
    BY <1>0 DEF TypeOK
  <2> QED
    BY <1>0, <2>1, <2>2, <2>3 DEF TypeOK
<1>7. PlaceInv'
  <2>1. Blocks(free)' = Blocks(free)
    BY <1>0 DEF Blocks
  <2>2. \A i \in top' .. free : list'[i] \in Blocks(free) \ held'
    BY <1>0, <1>1 DEF PlaceInv
  <2>3. \A i, j \in top' .. free : list'[i] = list'[j] => i = j
    BY <1>1 DEF PlaceInv
  <2>4. ASSUME NEW b \in Blocks(free) \ held' PROVE \E i \in top' .. free : b = list'[i]
    <3>1. PICK i \in top .. free : b = list[i]
      BY <1>0 DEF PlaceInv
    <3>2. i # top
      BY <1>0, <3>1
    <3>3. i \in top' .. free
      BY <1>0, <3>2
    <3> QED
      BY <1>1, <3>1, <3>3
  <2> QED
    BY <1>0, <2>1, <2>2, <2>3, <2>4 DEF PlaceInv
<1>8. CountInv'
  <2>1. IsFiniteSet(held') /\ Cardinality(held') = top'
    BY <1>0, FS_AddElement DEF CountInv
  <2> QED
    BY <1>0, <2>1 DEF CountInv
<1> QED
  BY <1>0, <1>4, <1>6, <1>7, <1>8

\* slabp_free puts the block before the head of the list.
LEMMA FreeInv ==
  ASSUME TypeOK, MemInv, PlaceInv, CountInv, NEW b, slabp_free(b)
  PROVE  TypeOK' /\ (MemInv /\ PlaceInv /\ CountInv)'
<1>0. /\ PageWords \in Nat /\ free \in Nat /\ free < PageWords /\ top \in Nat /\ top <= free + 1
      /\ b \in held /\ b \in Blocks(free) /\ b \in Word
      /\ phase' = phase /\ size' = size /\ free' = free
      /\ held' = held \ {b} /\ first_free' = b /\ top' = top - 1
      /\ list' = [list EXCEPT ![top - 1] = b] /\ data' = [data EXCEPT ![b] = first_free]
  BY Running DEF slabp_free
<1>1. PICK k \in Nat : k = top - 1 /\ top = k + 1 /\ k <= free /\ k \in Word
  <2>1. top # 0
    BY <1>0, FS_EmptySet DEF CountInv
  <2> QED
    BY <1>0, <2>1 DEF Word
<1>2. CountInv'
  <2>1. IsFiniteSet(held') /\ Cardinality(held') = k
    BY <1>0, <1>1, FS_RemoveElement DEF CountInv
  <2> QED
    BY <1>0, <1>1, <2>1 DEF CountInv
<1>3. TypeOK'
  <2>1. b \in Nat
    BY <1>0 DEF Word
  <2> QED
    BY <1>0, <1>1, <2>1 DEF TypeOK
<1>4. list'[k] = b /\ data'[b] = first_free
  BY <1>0, <1>1 DEF TypeOK
<1>5. \A i \in top .. free : i # k /\ list'[i] = list[i] /\ list[i] # b /\ data'[list[i]] = data[list[i]]
  <2> SUFFICES ASSUME NEW i \in top .. free
               PROVE  i # k /\ list'[i] = list[i] /\ list[i] # b /\ data'[list[i]] = data[list[i]]
    OBVIOUS
  <2>1. i # k
    BY <1>0, <1>1
  <2>2. i \in Word /\ list[i] \in Word /\ list[i] \notin held
    BY Running
  <2> QED
    BY <1>0, <1>1, <2>1, <2>2 DEF TypeOK
<1>6. \A i \in top' .. free : i = k \/ i \in top .. free
  BY <1>0, <1>1
<1>7. \A i \in top' .. free : Entry(i + 1)' = Entry(i + 1)
  <2> SUFFICES ASSUME NEW i \in top' .. free PROVE Entry(i + 1)' = Entry(i + 1)
    OBVIOUS
  <2>1. i + 1 > free \/ i + 1 \in top .. free
    BY <1>0, <1>1
  <2> QED
    BY <1>0, <1>5, <2>1 DEF Entry
<1>8. MemInv'
  <2>1. first_free' = Entry(top)'
    BY <1>0, <1>1, <1>4 DEF Entry
  <2>2. ASSUME NEW i \in top' .. free PROVE data'[list'[i]] = Entry(i + 1)'
    <3>1. CASE i = k
      BY <1>1, <1>4, <1>7, <3>1 DEF MemInv
    <3>2. CASE i \in top .. free
      BY <1>5, <1>7, <3>2 DEF MemInv
    <3> QED
      BY <1>6, <3>1, <3>2
  <2> QED
    BY <1>0, <2>1, <2>2 DEF MemInv
<1>9. PlaceInv'
  <2>1. Blocks(free)' = Blocks(free)
    BY <1>0 DEF Blocks
  <2>2. \A i \in top' .. free : list'[i] \in Blocks(free) \ held'
    BY <1>0, <1>4, <1>5, <1>6 DEF PlaceInv
  <2>3. \A i, j \in top' .. free : list'[i] = list'[j] => i = j
    BY <1>4, <1>5, <1>6 DEF PlaceInv
  <2>4. ASSUME NEW c \in Blocks(free) \ held' PROVE \E i \in top' .. free : c = list'[i]
    <3>1. CASE c = b
      <4>1. k \in top' .. free
        BY <1>0, <1>1
      <4> QED
        BY <1>4, <3>1, <4>1
    <3>2. CASE c # b
      <4>1. PICK i \in top .. free : c = list[i]
        BY <1>0, <3>2 DEF PlaceInv
      <4>2. i \in top' .. free
        BY <1>0
      <4> QED
        BY <1>5, <4>1, <4>2
    <3> QED
      BY <3>1, <3>2
  <2>5. free * size < PageWords /\ (free + 1) * size >= PageWords /\ held' \subseteq Blocks(free)
    BY <1>0 DEF PlaceInv
  <2> QED
    BY <1>0, <2>1, <2>2, <2>3, <2>4, <2>5 DEF PlaceInv
<1> QED
  BY <1>2, <1>3, <1>8, <1>9

\* What the owner of a block writes to it does not reach the list.
LEMMA ScribbleInv ==
  ASSUME TypeOK, MemInv, PlaceInv, CountInv, NEW b, Scribble(b)
  PROVE  TypeOK' /\ (MemInv /\ PlaceInv /\ CountInv)'
<1>0. /\ b \in held /\ b \in Blocks(free) /\ b \in Word /\ PageWords \in Nat /\ size \in Nat
      /\ UNCHANGED <<phase, size, first_free, free, held, top, list>>
      /\ data' = [w \in Word |-> IF b <= w /\ w < b + size THEN Junk ELSE data[w]]
  BY Running DEF Scribble
<1>1. TypeOK'
  BY <1>0 DEF TypeOK
<1>2. ASSUME NEW i \in top .. free PROVE data'[list[i]] = data[list[i]]
  <2>1. list[i] \in Blocks(free) /\ list[i] # b /\ list[i] \in Word
    BY <1>0, Running DEF PlaceInv
  <2>2. Apart(b, list[i])
    BY <1>0, <2>1, BlocksApart
  <2>3. PICK w \in Word : w = list[i]
    BY <2>1
  <2>4. ~ (b <= w /\ w < b + size)
    BY <1>0, <2>2, <2>3 DEF Apart, Word
  <2> QED
    BY <1>0, <2>3, <2>4
<1>3. MemInv'
  BY <1>0, <1>2 DEF MemInv, Entry
<1>4. PlaceInv' /\ CountInv'
  BY <1>0 DEF PlaceInv, CountInv, Blocks
<1> QED
  BY <1>1, <1>3, <1>4

-----------------------------------------------------------------------------
LEMMA NextInv ==
  ASSUME IInv, [Next]_vars
  PROVE  IInv'
<1>1. CASE slabp_init_block
  <2>1. TypeOK /\ BuildInv /\ phase' = "init"
    BY <1>1 DEF IInv, slabp_init_block
  <2> QED
    BY <1>1, <2>1, InitBlockInv DEF IInv
<1>2. CASE slabp_init
  <2>1. TypeOK /\ BuildInv /\ phase' = "run"
    BY <1>2 DEF IInv, slabp_init
  <2> QED
    BY <1>2, <2>1, InitDoneInv DEF IInv
<1>3. CASE slabp_alloc
  <2>1. TypeOK /\ MemInv /\ PlaceInv /\ CountInv /\ phase' = "run"
    BY <1>3 DEF IInv, slabp_alloc
  <2> QED
    BY <1>3, <2>1, AllocInv DEF IInv
<1>4. ASSUME NEW b \in held, slabp_free(b) \/ Scribble(b) PROVE IInv'
  <2>1. phase = "run"
    BY <1>4 DEF IInv, BuildInv, TypeOK
  <2>2. TypeOK /\ MemInv /\ PlaceInv /\ CountInv /\ phase' = "run"
    BY <1>4, <2>1 DEF IInv, slabp_free, Scribble
  <2> QED
    BY <1>4, <2>2, FreeInv, ScribbleInv DEF IInv
<1>5. CASE UNCHANGED vars
  BY <1>5 DEF vars, IInv, TypeOK, BuildInv, MemInv, PlaceInv, CountInv, Entry, Blocks
<1> QED
  BY <1>1, <1>2, <1>3, <1>4, <1>5 DEF Next

\* The inductive invariant of the slab page.
THEOREM Invariant == Spec => []IInv
<1>1. IInv /\ [Next]_vars => IInv'
  BY NextInv
<1> QED
  BY InitInv, <1>1, PTL DEF Spec

\* Every variable keeps its type: no offset leaves the page, which is what
\* slabp_free asserts of the block it is given.
THEOREM TypeCorrect == Spec => []TypeOK
<1>1. IInv => TypeOK
  BY DEF IInv
<1> QED
  BY Invariant, <1>1, PTL

\* slabp_full answers true only when every block is in somebody's hands.
THEOREM NothingLost == Spec => []NoLeak
<1>1. IInv => NoLeak
  <2> SUFFICES ASSUME IInv, phase = "run", slabp_full,
                      NEW k \in Word, k * size < PageWords
               PROVE  k * size \in held
    BY DEF NoLeak
  <2>1. TypeOK /\ MemInv /\ PlaceInv /\ CountInv
    BY DEF IInv
  <2>2. top = free + 1 /\ free \in Nat /\ size \in Nat \ {0} /\ PageWords \in Nat
    BY <2>1, Running
  <2>3. k \in Int /\ k >= 0 /\ free + 1 \in Int
    BY <2>2 DEF Word
  <2>4. k <= free
    <3> SUFFICES ASSUME free + 1 <= k PROVE FALSE
      BY <2>2, <2>3
    <3>1. PICK f \in Int : f = free + 1
      BY <2>3
    <3>2. f * size >= PageWords
      BY <2>1, <3>1 DEF PlaceInv
    <3>3. CASE f = k
      BY <2>2, <3>2, <3>3
    <3>4. CASE f < k
      <4>1. f * size + size <= k * size
        BY <2>2, <2>3, <3>4, MulOrder
      <4>2. f * size \in Int /\ k * size \in Int
        BY <2>2, <2>3
      <4> QED
        BY <2>2, <3>2, <4>1, <4>2
    <3> QED
      BY <2>3, <3>1, <3>3, <3>4
  <2>5. k * size \in Blocks(free)
    BY <2>2, <2>3, <2>4 DEF Blocks
  <2>6. ~ \E i \in top .. free : TRUE
    BY <2>2
  <2> QED
    BY <2>1, <2>5, <2>6 DEF PlaceInv
<1> QED
  BY Invariant, <1>1, PTL

\* No block is handed out twice, and no two that are held overlap.
THEOREM NoDoubleAllocation == Spec => AllocFresh
<1>1. IInv /\ [Next]_vars => [Fresh]_vars
  <2> SUFFICES ASSUME IInv, Next PROVE Fresh
    OBVIOUS
  <2>0. top \in Int /\ top + 1 # top /\ top - 1 # top + 1
    BY DEF IInv, TypeOK
  <2>1. CASE slabp_alloc
    <3>1. TypeOK /\ MemInv /\ PlaceInv /\ CountInv
      BY <2>1 DEF IInv, slabp_alloc
    <3>2. first_free \in Blocks(free) \ held /\ held' = held \cup {first_free}
      BY <2>1, <3>1, AllocInv
    <3>3. \A c \in held : Apart(first_free, c)
      BY <3>1, <3>2, BlocksApart, Running
    <3> QED
      BY <3>1, <3>2, <3>3, Running DEF Fresh
  <2>2. CASE slabp_init_block \/ slabp_init
    BY <2>0, <2>2 DEF Fresh, slabp_init_block, slabp_init
  <2>3. ASSUME NEW b \in held, slabp_free(b) \/ Scribble(b) PROVE Fresh
    BY <2>0, <2>3 DEF Fresh, slabp_free, Scribble
  <2> QED
    BY <2>1, <2>2, <2>3 DEF Next
<1> QED
  BY Invariant, <1>1, PTL DEF Spec, AllocFresh
=============================================================================
