---------------------------- MODULE Stage2Proofs ----------------------------
(***************************************************************************)
(* For every size of a page, memory map and kernel image: stage 2 and the  *)
(* kernel share out the memory without loss or overlap, no page is mapped  *)
(* twice, and the loader never touches an address it has not mapped.       *)
(***************************************************************************)
EXTENDS Stage2, FiniteSetTheorems, TLAPS

-----------------------------------------------------------------------------
(* Arithmetic with a symbolic divisor.                                     *)

\* Quotient and remainder rebuild the number.
LEMMA DivMod ==
  ASSUME NEW N \in Nat \ {0}, NEW a \in Int
  PROVE  /\ a \div N \in Int
         /\ a % N \in 0 .. N - 1
         /\ a = N * (a \div N) + (a % N)
  OBVIOUS

\* A positive multiple of N is at least N.
LEMMA MulAtLeast ==
  ASSUME NEW N \in Nat \ {0}, NEW k \in Int, k >= 1
  PROVE  N * k >= N
  OBVIOUS

\* They are the only ones that do.
LEMMA ModIs ==
  ASSUME NEW N \in Nat \ {0}, NEW x \in Int,
         NEW q \in Int, NEW r \in 0 .. N - 1, x = N * q + r
  PROVE  x % N = r /\ x \div N = q
  OBVIOUS

\* Multiples of N are in the order of their factors, and N apart.
LEMMA MulLess ==
  ASSUME NEW N \in Nat \ {0}, NEW a \in Int, NEW b \in Int
  PROVE  /\ N * a \in Int /\ N * b \in Int
         /\ a < b => N * a + N <= N * b
         /\ N * a < N * b => a < b
         /\ N * a = N * b => a = b
         /\ N * (b - 1) = N * b - N
         /\ N * (b + 1) = N * b + N
<1>0. /\ N * a \in Int /\ N * b \in Int /\ N * (b - 1) = N * b - N
      /\ N * (b + 1) = N * b + N
  OBVIOUS
<1>1. ASSUME NEW c \in Int, NEW d \in Int, c < d PROVE N * c + N <= N * d
  <2>1. PICK k \in Int : k = d - c /\ k >= 1
    BY <1>1
  <2>2. N * k >= N
    BY <2>1, MulAtLeast
  <2>3. N * k = N * d - N * c
    BY <2>1
  <2> QED
    BY <2>2, <2>3
<1>2. b < a => N * b + N <= N * a
  BY <1>1
<1>3. a < b => N * a + N <= N * b
  BY <1>1
<1> QED
  BY <1>0, <1>2, <1>3

\* The quotient of a multiple.
LEMMA DivOfMul ==
  ASSUME NEW N \in Nat \ {0}, NEW q \in Int
  PROVE  (N * q) \div N = q /\ (N * q) % N = 0
<1>1. N * q \in Int /\ 0 \in 0 .. N - 1 /\ N * q = N * q + 0
  OBVIOUS
<1> QED
  BY <1>1, ModIs

\* A quotient is below a bound when the number is below the bound's multiple.
LEMMA DivBounds ==
  ASSUME NEW N \in Nat \ {0}, NEW x \in Int, NEW q \in Int
  PROVE  /\ x < N * q => x \div N < q
         /\ x >= N * q => x \div N >= q
<1>1. PICK p \in Int, r \in 0 .. N - 1 : p = x \div N /\ x = N * p + r
  BY DivMod
<1>2. N * p \in Int /\ N * q \in Int /\ (N * p < N * q => p < q) /\ (p < q => N * p + N <= N * q)
  BY MulLess
<1>3. x < N * q => p < q
  BY <1>1, <1>2
<1>4. x >= N * q => p >= q
  BY <1>1, <1>2
<1> QED
  BY <1>1, <1>3, <1>4

\* Division is monotonic.
LEMMA DivMonotonic ==
  ASSUME NEW N \in Nat \ {0}, NEW x \in Int, NEW y \in Int, x <= y
  PROVE  x \div N <= y \div N
<1>1. PICK p \in Int, r \in 0 .. N - 1 : p = x \div N /\ x = N * p + r
  BY DivMod
<1>2. N * p \in Int /\ y >= N * p
  BY <1>1
<1>3. y \div N >= p
  BY <1>2, DivBounds
<1> QED
  BY <1>1, <1>3, DivMod
-----------------------------------------------------------------------------

\* A region of RAM as numbers of pages.
Aligned(r) == r \in SMAP32_t /\ r.base % PageSize = 0 /\ r.base + r.length <= Top

LEMMA Constants ==
  /\ PageSize \in Nat \ {0} /\ PageSize \in Int /\ PtEntries \in Nat \ {0}
  /\ Top \in Nat /\ Top > PageSize /\ Stack \in Nat
  /\ Top \div PageSize \in Nat /\ Top = PageSize * (Top \div PageSize)
<1>1. /\ PageSize \in Nat \ {0} /\ PtEntries \in Nat \ {0} /\ Top \in Nat /\ Top > PageSize
      /\ Top % PageSize = 0 /\ Stack \in Nat
  BY Stage2Assumption
<1>2. Top \div PageSize \in Int /\ Top = PageSize * (Top \div PageSize) + (Top % PageSize)
  BY <1>1, DivMod
<1>3. Top >= PageSize * 0
  BY <1>1
<1>4. Top \div PageSize >= 0
  BY <1>1, <1>3, DivBounds
<1> QED
  BY <1>1, <1>2, <1>4

\* Rounding up gives the one multiple of a page in a .. a + PageSize - 1.
LEMMA RoundUpIs ==
  ASSUME NEW a \in Nat
  PROVE  \E u \in Nat : /\ RoundUp(a) = PageSize * u /\ RoundUp(a) \div PageSize = u
                        /\ a <= PageSize * u /\ PageSize * u < a + PageSize
<1> DEFINE x == a + PageSize - 1
<1>1. PageSize \in Nat \ {0} /\ x \in Int /\ x >= 0
  BY Constants
<1>2. PICK u \in Int, r \in 0 .. PageSize - 1 : u = x \div PageSize /\ x = PageSize * u + r
  BY <1>1, DivMod
<1>3. PageSize * 0 = 0
  BY <1>1
<1>4. u >= 0
  BY <1>1, <1>2, <1>3, DivBounds
<1>5. RoundUp(a) = PageSize * u
  BY <1>1, <1>2 DEF RoundUp
<1>6. RoundUp(a) \div PageSize = u
  BY <1>1, <1>2, <1>5, DivOfMul
<1>7. PageSize * u \in Int
  BY <1>1, <1>2
<1>8. a <= PageSize * u /\ PageSize * u < a + PageSize
  BY <1>1, <1>2, <1>7
<1> QED
  BY <1>2, <1>4, <1>5, <1>6, <1>8

\* The pages of a region of RAM.
LEMMA RegionPages ==
  ASSUME NEW r, Aligned(r)
  PROVE  /\ Lo(r) \in Nat /\ Hi(r) \in Nat /\ r.base \in Nat /\ r.length \in Nat
         /\ r.base = PageSize * Lo(r) /\ RoundUp(r.base + r.length) = PageSize * Hi(r)
         /\ r.base + r.length <= PageSize * Hi(r)
         /\ PageSize * Hi(r) < r.base + r.length + PageSize
         /\ Lo(r) <= Hi(r) /\ (r.length > 0 <=> Lo(r) < Hi(r))
         /\ Hi(r) <= Top \div PageSize
<1>1. r.base \in Nat /\ r.length \in Nat /\ r.base % PageSize = 0 /\ r.base + r.length <= Top
  BY DEF Aligned, SMAP32_t
<1>2. Lo(r) \in Int /\ r.base = PageSize * Lo(r)
  <2>1. PICK b \in Int : b = r.base /\ b % PageSize = 0
    BY <1>1
  <2>2. b \div PageSize \in Int /\ b = PageSize * (b \div PageSize) + (b % PageSize)
    BY Constants, DivMod
  <2>3. PageSize * (b \div PageSize) \in Int
    BY <2>2, Constants
  <2>4. b = PageSize * (b \div PageSize)
    BY <2>1, <2>2, <2>3
  <2> QED
    BY <2>1, <2>2, <2>4 DEF Lo
<1>3. PICK u \in Nat : /\ RoundUp(r.base + r.length) = PageSize * u /\ Hi(r) = u
                       /\ r.base + r.length <= PageSize * u
                       /\ PageSize * u < r.base + r.length + PageSize
  BY <1>1, RoundUpIs DEF Hi
<1>4. Lo(r) >= 0
  <2>1. PageSize * 0 = 0
    BY Constants
  <2> QED
    BY <1>1, <2>1, Constants, DivBounds DEF Lo
<1> DEFINE lo == Lo(r)
           top == Top \div PageSize
<1>5. lo \in Int /\ r.base = PageSize * lo /\ lo >= 0
  BY <1>2, <1>4
<1>6. top \in Int /\ Top = PageSize * top
  BY Constants
<1> HIDE DEF lo, top
<1>7. /\ (u < lo => PageSize * u + PageSize <= PageSize * lo)
      /\ (lo < u => PageSize * lo + PageSize <= PageSize * u)
      /\ (top < u => PageSize * top + PageSize <= PageSize * u)
      /\ (PageSize * lo < PageSize * u => lo < u)
      /\ PageSize * u \in Int /\ PageSize * lo \in Int /\ PageSize * top \in Int
  BY <1>5, <1>6, Constants, MulLess
<1>8. lo <= u
  BY <1>1, <1>3, <1>5, <1>7, Constants
<1>9. r.length > 0 => lo < u
  BY <1>1, <1>3, <1>5, <1>7, Constants
<1>10. lo < u => r.length > 0
  BY <1>1, <1>3, <1>5, <1>7, Constants
<1>11. u <= top
  BY <1>1, <1>3, <1>6, <1>7, Constants
<1> QED
  BY <1>1, <1>3, <1>5, <1>8, <1>9, <1>10, <1>11 DEF lo, top

\* A page number is determined by the addresses it lies between.
LEMMA HiUnique ==
  ASSUME NEW r, Aligned(r), NEW u \in Int,
         r.base + r.length <= PageSize * u, PageSize * u < r.base + r.length + PageSize
  PROVE  Hi(r) = u
<1> DEFINE h == Hi(r)
<1>1. /\ h \in Int /\ r.base \in Nat /\ r.length \in Nat
      /\ r.base + r.length <= PageSize * h /\ PageSize * h < r.base + r.length + PageSize
  BY RegionPages
<1> HIDE DEF h
<1>2. /\ PageSize * u \in Int /\ PageSize * h \in Int
      /\ (u < h => PageSize * u + PageSize <= PageSize * h)
      /\ (h < u => PageSize * h + PageSize <= PageSize * u)
  BY <1>1, Constants, MulLess
<1>3. h = u
  BY <1>1, <1>2, Constants
<1> QED
  BY <1>3 DEF h

\* The region after palloc has taken a page from it has one page less.
Cut(r) == [base |-> r.base, length |-> Shorter(r.length), type |-> r.type]

LEMMA CutPages ==
  ASSUME NEW r, Aligned(r), r.length > 0
  PROVE  /\ Aligned(Cut(r)) /\ Lo(Cut(r)) = Lo(r) /\ Hi(Cut(r)) = Hi(r) - 1
         /\ Cut(r).length <= r.length /\ Cut(r).base + Cut(r).length <= Top - PageSize
<1>1. /\ Lo(r) \in Nat /\ Hi(r) \in Nat /\ r.base \in Nat /\ r.length \in Nat
      /\ r.base = PageSize * Lo(r)
      /\ r.base + r.length <= PageSize * Hi(r)
      /\ PageSize * Hi(r) < r.base + r.length + PageSize
      /\ Lo(r) < Hi(r) /\ r.type \in Nat /\ r.base % PageSize = 0 /\ r.base + r.length <= Top
  BY RegionPages DEF Aligned, SMAP32_t
<1> DEFINE c == Cut(r)
           lo == Lo(r)
           h == Hi(r)
           top == Top \div PageSize
<1>2. c.base = r.base /\ c.type = r.type /\ c.length = Shorter(r.length)
  BY DEF Cut
<1>3. /\ c.length \in Nat /\ c.length <= r.length
      /\ r.length >= PageSize => c.length = r.length - PageSize
      /\ r.length < PageSize => c.length = 0
  BY <1>1, <1>2, Constants DEF Shorter
<1>4. Aligned(c)
  BY <1>1, <1>2, <1>3, Constants DEF Aligned, SMAP32_t, Cut
<1>5. /\ PageSize * lo \in Int /\ PageSize * h \in Int /\ PageSize * (h - 1) = PageSize * h - PageSize
      /\ lo < h => PageSize * lo + PageSize <= PageSize * h
      /\ top \in Int /\ Top = PageSize * top /\ PageSize * top \in Int
      /\ lo < top => PageSize * lo + PageSize <= PageSize * top
      /\ PageSize * lo < PageSize * top => lo < top
  BY <1>1, Constants, MulLess
<1> HIDE DEF lo, h, top, c
<1>6. c.base + c.length <= PageSize * (h - 1) /\ PageSize * (h - 1) < c.base + c.length + PageSize
  BY <1>1, <1>2, <1>3, <1>5, Constants DEF lo, h
<1>7. Hi(c) = h - 1
  <2>1. h - 1 \in Int
    BY <1>1 DEF h
  <2> QED
    BY <1>4, <1>6, <2>1, HiUnique
<1>8. c.base + c.length <= Top - PageSize
  <2>1. lo < top
    BY <1>1, <1>5, Constants DEF lo
  <2>2. r.base + PageSize <= Top
    BY <1>1, <1>5, <2>1, Constants DEF lo
  <2> QED
    BY <1>1, <1>2, <1>3, <2>2, Constants
<1>9. Lo(c) = lo
  BY <1>2 DEF Lo, lo
<1> QED
  BY <1>3, <1>4, <1>7, <1>8, <1>9 DEF c, lo, h

\* pmm_init lists every page of a region that ends a page below the top.
LEMMA ListedIsPages ==
  ASSUME NEW r, Aligned(r), r.base + r.length <= Top - PageSize
  PROVE  ListedOf(r) = PagesOf(r)
<1>1. /\ Lo(r) \in Nat /\ Hi(r) \in Nat /\ r.base \in Nat /\ r.length \in Nat
      /\ PageSize * Hi(r) < r.base + r.length + PageSize
  BY RegionPages
<1> DEFINE end == r.base + r.length
<1>2. end \in Nat /\ end < Top
  BY <1>1, Constants
<1>3. end % Top = end
  <2>1. Top \in Nat \ {0} /\ end \in Int /\ end \in 0 .. Top - 1 /\ 0 \in Int /\ end = Top * 0 + end
    BY <1>2, Constants
  <2> QED
    BY <2>1, ModIs
<1>4. ASSUME NEW p \in PagesOf(r) PROVE p * PageSize < end
  <2> DEFINE h == Hi(r)
  <2>1. p \in Int /\ p <= h - 1 /\ h \in Int /\ PageSize * h < end + PageSize
    BY <1>1, <1>4 DEF PagesOf
  <2>2. PageSize * p \in Int /\ PageSize * h \in Int /\ (p < h => PageSize * p + PageSize <= PageSize * h)
    BY <2>1, Constants, MulLess
  <2>3. PageSize * p < end
    BY <1>2, <2>1, <2>2, Constants
  <2>4. p * PageSize = PageSize * p
    BY <2>1, Constants
  <2> QED
    BY <2>3, <2>4
<1>5. ~ (end > Top - PageSize)
  BY <1>2, Constants
<1> QED
  BY <1>3, <1>4, <1>5 DEF ListedOf

-----------------------------------------------------------------------------
(* Memory maps.                                                            *)

\* A shorter region ends no later.
LEMMA HiMonotonic ==
  ASSUME NEW r, NEW s, Aligned(r), Aligned(s), r.base = s.base, r.length <= s.length
  PROVE  Hi(r) <= Hi(s) /\ Lo(r) = Lo(s)
<1> DEFINE h == Hi(r)
           g == Hi(s)
<1>1. /\ h \in Int /\ r.base \in Nat /\ r.length \in Nat /\ PageSize * h < r.base + r.length + PageSize
      /\ g \in Int /\ s.base \in Nat /\ s.length \in Nat /\ s.base + s.length <= PageSize * g
  BY RegionPages
<1>2. PageSize * h \in Int /\ PageSize * g \in Int /\ (g < h => PageSize * g + PageSize <= PageSize * h)
  BY <1>1, Constants, MulLess
<1>3. h <= g
  <2> HIDE DEF h, g
  <2> QED
    BY <1>1, <1>2, Constants
<1> QED
  BY <1>3 DEF Lo

\* A region that ends where another begins, or before, has its pages before it.
LEMMA RegionsApart ==
  ASSUME NEW r, NEW s, Aligned(r), Aligned(s), r.base + r.length <= s.base
  PROVE  Hi(r) <= Lo(s)
<1> DEFINE h == Hi(r)
           l == Lo(s)
<1>1. /\ h \in Int /\ r.base \in Nat /\ r.length \in Nat /\ PageSize * h < r.base + r.length + PageSize
      /\ l \in Int /\ s.base \in Nat /\ s.base = PageSize * l
  BY RegionPages
<1>2. PageSize * h \in Int /\ PageSize * l \in Int /\ (l < h => PageSize * l + PageSize <= PageSize * h)
  BY <1>1, Constants, MulLess
<1>3. h <= l
  <2> HIDE DEF h, l
  <2> QED
    BY <1>1, <1>2, Constants
<1> QED
  BY <1>3

\* What MapOK says of the regions of RAM, in pages.
LEMMA MapPages ==
  ASSUME NEW map \in Maps
  PROVE  \E last \in 1 .. Len(map) - 1 :
           /\ map \in Seq(SMAP32_t) /\ Len(map) \in Nat
           /\ RamIndex(map) = 1 .. last /\ map[last + 1].type # 1
           /\ \A k \in 1 .. last : Aligned(map[k]) /\ map[k].length > 0 /\ map[k].type = 1
           /\ \A j, k \in 1 .. last : j < k => Hi(map[j]) <= Lo(map[k])
           /\ Hi(map[1]) < Top \div PageSize
           /\ \A j, k \in 1 .. last : j < k => map[j].base + map[j].length <= Top - PageSize
<1>1. MapOK(map)
  BY Stage2Assumption
<1>2. map \in Seq(SMAP32_t) /\ Len(map) \in Nat
  BY <1>1 DEF MapOK
<1>3. PICK last \in 1 .. Len(map) - 1 :
           /\ map[last + 1].type # 1
           /\ \A k \in 1 .. last : map[k].type = 1 /\ map[k].base % PageSize = 0 /\ map[k].length > 0
           /\ \A j, k \in 1 .. last : j < k => map[j].base + map[j].length <= map[k].base
  BY <1>1 DEF MapOK
<1>4. RamIndex(map) = 1 .. last
  BY <1>2, <1>3 DEF RamIndex
<1>5. \A k \in 1 .. last : Aligned(map[k]) /\ map[k].length > 0 /\ map[k].type = 1
  BY <1>1, <1>2, <1>3 DEF MapOK, Aligned
<1>6. ASSUME NEW j \in 1 .. last, NEW k \in 1 .. last, j < k
      PROVE  Hi(map[j]) <= Lo(map[k]) /\ map[j].base + map[j].length <= Top - PageSize
  <2>1. Aligned(map[j]) /\ Aligned(map[k]) /\ map[j].base + map[j].length <= map[k].base /\ map[k].length > 0
    BY <1>3, <1>5, <1>6
  <2>2. Hi(map[j]) <= Lo(map[k])
    BY <2>1, RegionsApart
  <2>3. Cut(map[k]).base + Cut(map[k]).length <= Top - PageSize /\ Aligned(Cut(map[k]))
    BY <2>1, CutPages
  <2>4. Cut(map[k]).base = map[k].base /\ Cut(map[k]).length \in Nat /\ map[k].base \in Nat
    BY <2>1, <2>3 DEF Cut, Aligned, SMAP32_t
  <2>5. map[j].base \in Nat /\ map[j].length \in Nat
    BY <2>1 DEF Aligned, SMAP32_t
  <2> QED
    BY <2>1, <2>2, <2>3, <2>4, <2>5, Constants, SMTT(20)
<1>7. Hi(map[1]) < Top \div PageSize
  <2>1. 1 \in 1 .. last
    BY <1>2, <1>3
  <2> DEFINE h == Hi(map[1])
             top == Top \div PageSize
  <2>2. h \in Int /\ RoundUp(map[1].base + map[1].length) = PageSize * h
    BY <1>5, <2>1, RegionPages
  <2>3. PageSize * h < PageSize * top /\ top \in Int
    BY <1>1, <2>2, Constants DEF MapOK
  <2>4. PageSize * h < PageSize * top => h < top
    BY <2>2, <2>3, Constants, MulLess
  <2> QED
    BY <2>3, <2>4
<1> QED
  BY <1>2, <1>3, <1>4, <1>5, <1>6, <1>7

\* palloc's end of a region is the number of its last page and one, unless that
\* is the top.
LEMMA EntryEndIs ==
  ASSUME NEW map, NEW k, Aligned(map[k])
  PROVE  EntryEnd(map, k) = IF Hi(map[k]) = Top \div PageSize THEN 0 ELSE PageSize * Hi(map[k])
<1> DEFINE h == Hi(map[k])
           top == Top \div PageSize
<1>1. /\ h \in Nat /\ RoundUp(map[k].base + map[k].length) = PageSize * h
      /\ h <= top /\ top \in Nat /\ Top = PageSize * top
  BY RegionPages, Constants
<1>2. EntryEnd(map, k) = (PageSize * h) % Top
  BY <1>1 DEF EntryEnd
<1> HIDE DEF h, top
<1>3. Top \in Nat \ {0} /\ PageSize * h \in Int /\ PageSize * h >= 0
  BY <1>1, Constants
<1>4. CASE h = top
  <2>1. PageSize * h = Top * 1 + 0 /\ 0 \in 0 .. Top - 1 /\ 1 \in Int
    BY <1>1, <1>3, <1>4
  <2>2. (PageSize * h) % Top = 0
    BY <1>3, <2>1, ModIs
  <2> QED
    BY <1>2, <1>4, <2>2 DEF h, top
<1>5. CASE h < top
  <2>1. PageSize * h + PageSize <= PageSize * top
    BY <1>1, <1>5, Constants, MulLess
  <2>2. PageSize * h = Top * 0 + PageSize * h /\ PageSize * h \in 0 .. Top - 1 /\ 0 \in Int
    BY <1>1, <1>3, <2>1, Constants
  <2>3. (PageSize * h) % Top = PageSize * h
    BY <1>3, <2>2, ModIs
  <2> QED
    BY <1>1, <1>2, <1>5, <2>3 DEF h, top
<1> QED
  BY <1>1, <1>4, <1>5

\* The page below an entry address.
LEMMA PageBelowIs ==
  ASSUME NEW h \in 1 .. (Top \div PageSize),
         entry_addr = IF h = Top \div PageSize THEN 0 ELSE PageSize * h
  PROVE  PageBelow = PageSize * (h - 1) /\ NextPage = h - 1
<1> DEFINE top == Top \div PageSize
<1>1. top \in Nat /\ Top = PageSize * top /\ h \in Int /\ h >= 1 /\ h <= top /\ h - 1 \in Int
  BY Constants
<1>2. /\ PageSize * h \in Int /\ PageSize * (h - 1) = PageSize * h - PageSize
      /\ h < top => PageSize * h + PageSize <= PageSize * top
  BY <1>1, Constants, MulLess
<1>3. PageSize * (h - 1) \in Int /\ PageSize * (h - 1) >= 0
  BY <1>1, Constants
<1>4. Top \in Nat \ {0} /\ entry_addr - PageSize \in Int
  BY <1>2, Constants
<1>5. PageSize * (h - 1) \in 0 .. Top - 1
  <2>1. CASE h = top
    BY <1>1, <1>2, <1>3, <2>1, Constants
  <2>2. CASE h < top
    BY <1>1, <1>2, <1>3, <2>2, Constants
  <2> QED
    BY <1>1, <2>1, <2>2
<1>6. PageBelow = PageSize * (h - 1)
  <2>1. CASE h = top
    <3>1. entry_addr - PageSize = Top * (0 - 1) + PageSize * (h - 1) /\ 0 - 1 \in Int
      BY <1>1, <1>2, <2>1, Constants
    <3> QED
      BY <1>4, <1>5, <3>1, ModIs DEF PageBelow
  <2>2. CASE h # top
    <3>1. entry_addr - PageSize = Top * 0 + PageSize * (h - 1) /\ 0 \in Int
      BY <1>1, <1>2, <2>2, Constants
    <3> QED
      BY <1>4, <1>5, <3>1, ModIs DEF PageBelow
  <2> QED
    BY <2>1, <2>2
<1>7. (PageSize * (h - 1)) \div PageSize = h - 1
  BY <1>1, Constants, DivOfMul
<1> QED
  BY <1>6, <1>7 DEF NextPage

-----------------------------------------------------------------------------
(* palloc.                                                                 *)

\* The regions of the map while palloc shortens it.
LEMMA RegionsNow ==
  ASSUME TypeOK, Shrunk, NEW k \in RamIndex(map0)
  PROVE  /\ Aligned(e820[k]) /\ Lo(e820[k]) = Lo(map0[k]) /\ Hi(e820[k]) <= Hi(map0[k])
         /\ Aligned(map0[k]) /\ k \in 1 .. Len(map0) /\ e820[k].type = 1
<1>1. map0 \in Maps /\ e820 \in Seq(SMAP32_t) /\ Len(e820) = Len(map0)
  BY DEF TypeOK
<1>2. PICK last \in 1 .. Len(map0) - 1 :
           /\ map0 \in Seq(SMAP32_t) /\ Len(map0) \in Nat
           /\ RamIndex(map0) = 1 .. last
           /\ \A l \in 1 .. last : Aligned(map0[l]) /\ map0[l].type = 1
  BY <1>1, MapPages
<1>3. k \in 1 .. Len(map0) /\ Aligned(map0[k]) /\ map0[k].type = 1
  BY <1>2
<1>4. e820[k] \in SMAP32_t
  BY <1>1, <1>3
<1>5. /\ e820[k].base = map0[k].base /\ e820[k].length <= map0[k].length
      /\ e820[k].type = map0[k].type
  BY <1>3 DEF Shrunk
<1>6. Aligned(e820[k])
  BY <1>3, <1>4, <1>5, Constants DEF Aligned, SMAP32_t
<1> QED
  BY <1>3, <1>5, <1>6, HiMonotonic

\* The page that palloc is about to return is the last page that is left.
LEMMA PallocPage ==
  ASSUME TypeOK, Shrunk, AllocInv, ~ Exhausted
  PROVE  /\ e820[entries_index].length > 0
         /\ NextPage = Hi(e820[entries_index]) - 1
         /\ PageBelow = PageSize * (Hi(e820[entries_index]) - 1)
<1> DEFINE e == entries_index
           r == e820[e]
           h == Hi(r)
           top == Top \div PageSize
<1>1. /\ e \in RamIndex(map0) /\ entry_addr = EntryEnd(e820, e) /\ (e > 1 => r.length > 0)
      /\ map0 \in Maps
  BY DEF AllocInv, TypeOK
<1>2. Aligned(r) /\ e \in 1 .. Len(map0) /\ h <= Hi(map0[e])
  BY <1>1, RegionsNow
<1>3. entry_addr = IF h = top THEN 0 ELSE PageSize * h
  BY <1>1, <1>2, EntryEndIs
<1>4. /\ h \in Nat /\ Lo(r) \in Nat /\ r.base = PageSize * Lo(r) /\ h <= top
      /\ (r.length > 0 <=> Lo(r) < h) /\ top \in Nat /\ Lo(r) <= h
  BY <1>2, RegionPages, Constants
<1>5. r.length > 0
  <2>1. CASE e > 1
    BY <1>1, <2>1
  <2>2. CASE e = 1
    <3>1. Hi(map0[1]) < top /\ Aligned(map0[1])
      BY <1>1, <2>2, MapPages, RegionsNow
    <3>2. entry_addr = PageSize * h
      BY <1>2, <1>3, <1>4, <2>2, <3>1, RegionPages
    <3>3. PageSize * h > PageSize * Lo(r)
      BY <1>4, <2>2, <3>2, Constants DEF Exhausted
    <3>4. Lo(r) # h
      BY <3>3, <1>4, Constants
    <3> QED
      BY <1>4, <3>4
  <2>3. Len(map0) \in Nat
    BY <1>1, MapPages
  <2> QED
    BY <1>2, <2>1, <2>2, <2>3
<1>6. h \in 1 .. top
  BY <1>4, <1>5
<1> HIDE DEF h
<1>7. PageBelow = PageSize * (h - 1) /\ NextPage = h - 1
  BY <1>3, <1>6, PageBelowIs
<1> QED
  BY <1>5, <1>7 DEF h

\* palloc keeps the map's invariant.
LEMMA PallocMap ==
  ASSUME TypeOK, Shrunk, AllocInv, ~ Exhausted, palloc, map0' = map0
  PROVE  /\ e820' = [e820 EXCEPT ![entries_index] = Cut(e820[entries_index])]
         /\ Shrunk' /\ AllocInv'
         /\ e820' \in Seq(SMAP32_t) /\ Len(e820') = Len(map0)
         /\ entries_index' \in 1 .. Len(map0) /\ entry_addr' \in 0 .. Top - 1
<1> DEFINE e == entries_index
           r == e820[e]
           c == Cut(r)
           h == Hi(r)
           top == Top \div PageSize
<1>1. /\ e \in RamIndex(map0) /\ map0 \in Maps /\ e820 \in Seq(SMAP32_t) /\ Len(e820) = Len(map0)
  BY DEF AllocInv, TypeOK
<1>2. PICK last \in 1 .. Len(map0) - 1 :
           /\ map0 \in Seq(SMAP32_t) /\ Len(map0) \in Nat
           /\ RamIndex(map0) = 1 .. last
           /\ \A k \in 1 .. last : Aligned(map0[k]) /\ map0[k].length > 0
           /\ Hi(map0[1]) < top
  BY <1>1, MapPages
<1>3. Aligned(r) /\ h <= Hi(map0[e]) /\ e \in 1 .. Len(map0)
  BY <1>1, RegionsNow
<1>4. r.length > 0 /\ NextPage = h - 1 /\ PageBelow = PageSize * (h - 1)
  BY PallocPage
<1>5. /\ Aligned(c) /\ Lo(c) = Lo(r) /\ Hi(c) = h - 1 /\ c.length <= r.length
  BY <1>3, <1>4, CutPages
<1>6. /\ e820' = [e820 EXCEPT ![e] = c]
      /\ IF PageBelow > r.base \/ e = 1
         THEN entry_addr' = PageBelow /\ entries_index' = e
         ELSE entries_index' = e - 1 /\ entry_addr' = EntryEnd(e820, e - 1)
  BY DEF palloc, PallocFrom, Cut
<1>7. /\ h \in Nat /\ Lo(r) \in Nat /\ r.base = PageSize * Lo(r) /\ h <= top /\ top \in Nat
      /\ Lo(r) < h /\ (c.length > 0 <=> Lo(r) < h - 1) /\ c.length \in Nat
  BY <1>3, <1>4, <1>5, RegionPages, Constants
<1>8. /\ e820'[e] = c /\ \A k \in 1 .. Len(map0) : k # e => e820'[k] = e820[k]
      /\ e820' \in Seq(SMAP32_t) /\ Len(e820') = Len(map0)
  <2>1. c \in SMAP32_t
    BY <1>5 DEF Aligned
  <2> HIDE DEF c, e
  <2> QED
    BY <1>1, <1>3, <1>6, <2>1
<1>9. Shrunk'
  <2>1. c.base = r.base /\ c.type = r.type
    BY DEF Cut
  <2>2. \A k \in 1 .. Len(map0) : e820[k] \in SMAP32_t /\ map0[k] \in SMAP32_t
    BY <1>1, <1>2
  <2>3. ASSUME NEW k \in 1 .. Len(map0)
        PROVE  /\ e820'[k].base = map0[k].base /\ e820'[k].type = map0[k].type
               /\ e820'[k].length <= map0[k].length
    <3>1. /\ e820[k].base = map0[k].base /\ e820[k].type = map0[k].type
          /\ e820[k].length <= map0[k].length
      BY <2>3 DEF Shrunk
    <3>2. e820[k].length \in Nat /\ map0[k].length \in Nat
      BY <2>2 DEF SMAP32_t
    <3>3. CASE k = e
      <4>1. e820'[k] = c
        BY <1>8, <3>3
      <4> HIDE DEF c
      <4> QED
        BY <1>5, <1>7, <2>1, <3>1, <3>2, <3>3, <4>1
    <3>4. CASE k # e
      BY <1>8, <3>1, <3>4
    <3> QED
      BY <3>3, <3>4
  <2> QED
    BY <2>3 DEF Shrunk
<1>10. PageBelow > r.base <=> Lo(r) < h - 1
  <2>1. PICK l \in Int, g \in Int : l = Lo(r) /\ g = h - 1
    BY <1>7
  <2>2. (l < g => PageSize * l + PageSize <= PageSize * g) /\ (PageSize * l < PageSize * g => l < g)
        /\ PageSize * l \in Int /\ PageSize * g \in Int
    BY Constants, MulLess
  <2>3. PageBelow = PageSize * g /\ r.base = PageSize * l
    BY <1>4, <1>7, <2>1
  <2>4. PageBelow > r.base <=> l < g
    BY <2>2, <2>3, Constants
  <2> QED
    BY <2>1, <2>4
<1>11. PageSize * (h - 1) = EntryEnd(e820', e)
  <2>1. EntryEnd(e820', e) = IF Hi(e820'[e]) = top THEN 0 ELSE PageSize * Hi(e820'[e])
    BY <1>5, <1>8, EntryEndIs
  <2> QED
    BY <1>5, <1>7, <1>8, <2>1
<1>12. entries_index' \in RamIndex(map0) /\ entry_addr' = EntryEnd(e820', entries_index')
  <2>1. CASE PageBelow > r.base \/ e = 1
    BY <1>1, <1>4, <1>6, <1>11, <2>1
  <2>2. CASE ~ (PageBelow > r.base \/ e = 1)
    <3>1. e - 1 \in RamIndex(map0) /\ e - 1 # e /\ e - 1 \in 1 .. Len(map0)
      BY <1>1, <1>2, <2>2
    <3>2. EntryEnd(e820, e - 1) = EntryEnd(e820', e - 1)
      BY <1>8, <3>1 DEF EntryEnd
    <3> QED
      BY <1>6, <2>2, <3>1, <3>2
  <2> QED
    BY <2>1, <2>2
<1>13. AllocInv'
  <2>1. \A k \in 1 .. e - 1 : e820[k] = map0[k]
    BY DEF AllocInv
  <2>2. \A k \in RamIndex(map0) : k > e => e820[k].length = 0
    BY DEF AllocInv
  <2>3. CASE PageBelow > r.base \/ e = 1
    <3>1. entries_index' = e
      BY <1>6, <2>3
    <3>2. \A k \in 1 .. e - 1 : e820'[k] = map0[k]
      BY <1>2, <1>3, <1>8, <2>1
    <3>3. \A k \in RamIndex(map0) : k > e => e820'[k].length = 0
      BY <1>2, <1>3, <1>8, <2>2
    <3>4. e > 1 => e820'[e].length > 0
      BY <1>2, <1>3, <1>7, <1>8, <1>10, <2>3
    <3> QED
      BY <1>12, <3>1, <3>2, <3>3, <3>4 DEF AllocInv
  <2>4. CASE ~ (PageBelow > r.base \/ e = 1)
    <3>1. entries_index' = e - 1 /\ e \in 2 .. last
      BY <1>1, <1>2, <1>6, <2>4
    <3>2. \A k \in 1 .. e - 1 : e820'[k] = map0[k]
      BY <1>2, <1>3, <1>8, <2>1
    <3>3. c.length = 0
      BY <1>7, <1>10, <2>4
    <3>4. \A k \in RamIndex(map0) : k > e - 1 => e820'[k].length = 0
      <4> HIDE DEF c
      <4> QED
        BY <1>2, <1>3, <1>8, <2>2, <3>3
    <3>5. e820'[e - 1].length > 0
      BY <1>2, <3>1, <3>2
    <3>6. \A k \in 1 .. e - 2 : e820'[k] = map0[k]
      BY <3>1, <3>2
    <3> QED
      BY <1>12, <3>1, <3>4, <3>5, <3>6 DEF AllocInv
  <2> QED
    BY <2>3, <2>4
<1>14. entries_index' \in 1 .. Len(map0) /\ entry_addr' \in 0 .. Top - 1
  <2>1. entries_index' \in 1 .. Len(map0)
    BY <1>2, <1>12
  <2>2. EntryEnd(e820', entries_index') \in 0 .. Top - 1
    <3>1. entries_index' \in 1 .. last
      BY <1>2, <1>12
    <3>2. e820'[entries_index'] \in SMAP32_t
      BY <1>8, <2>1
    <3>3. PICK b \in Nat, n \in Nat : b = e820'[entries_index'].base /\ n = e820'[entries_index'].length
      BY <3>2 DEF SMAP32_t
    <3>4. PICK u \in Nat : RoundUp(b + n) = PageSize * u
      <4>1. b + n \in Nat
        OBVIOUS
      <4> QED
        BY <4>1, RoundUpIs
    <3>5. PageSize * u \in Int /\ Top \in Nat \ {0}
      BY Constants
    <3>6. (PageSize * u) % Top \in 0 .. Top - 1
      BY <3>5, DivMod
    <3> QED
      BY <3>3, <3>4, <3>6 DEF EntryEnd
  <2> QED
    BY <1>12, <2>1, <2>2
<1> QED
  BY <1>6, <1>8, <1>9, <1>13, <1>14

LEMMA RangeAppend ==
  ASSUME NEW S, NEW s \in Seq(S), NEW x
  PROVE  /\ Range(Append(s, x)) = Range(s) \cup {x} /\ Append(s, x) # <<>>
         /\ (\A k, l \in 1 .. Len(s) : s[k] = s[l] => k = l) /\ x \notin Range(s) =>
              \A k, l \in 1 .. Len(Append(s, x)) : Append(s, x)[k] = Append(s, x)[l] => k = l
<1> DEFINE t == Append(s, x)
<1>1. /\ Len(s) \in Nat /\ Len(t) = Len(s) + 1 /\ t[Len(s) + 1] = x
      /\ \A k \in 1 .. Len(s) : t[k] = s[k]
  OBVIOUS
<1>2. t # <<>>
  BY <1>1
<1> HIDE DEF t
<1>3. Range(t) = Range(s) \cup {x}
  BY <1>1 DEF Range
<1>4. ASSUME \A k, l \in 1 .. Len(s) : s[k] = s[l] => k = l, x \notin Range(s),
             NEW k \in 1 .. Len(t), NEW l \in 1 .. Len(t), t[k] = t[l]
      PROVE  k = l
  <2>1. \A j \in 1 .. Len(s) : t[j] # x
    BY <1>1, <1>4 DEF Range
  <2> QED
    BY <1>1, <1>4, <2>1
<1> QED
  BY <1>2, <1>3, <1>4 DEF t

\* palloc returns a page of RAM that it has not returned before, and what it has
\* returned remains what the map has lost.
LEMMA PallocTaken ==
  ASSUME TypeOK, Shrunk, AllocInv, TakenInv, ~ Exhausted, palloc, map0' = map0
  PROVE  /\ NextPage \in Pages(map0) /\ NextPage \notin Range(taken)
         /\ Range(taken)' = Range(taken) \cup {NextPage}
         /\ TakenInv' /\ taken' \in Seq(Pages(map0)) /\ taken' # <<>>
<1> DEFINE e == entries_index
           r == e820[e]
           h == Hi(r)
<1>1. e \in RamIndex(map0) /\ map0 \in Maps /\ taken \in Seq(Pages(map0)) /\ Len(e820) = Len(map0)
      /\ e820 \in Seq(SMAP32_t)
  BY DEF AllocInv, TypeOK
<1>2. PICK last \in 1 .. Len(map0) - 1 :
           /\ map0 \in Seq(SMAP32_t) /\ Len(map0) \in Nat
           /\ RamIndex(map0) = 1 .. last
           /\ \A k \in 1 .. last : Aligned(map0[k]) /\ map0[k].length > 0
           /\ \A j, k \in 1 .. last : j < k => Hi(map0[j]) <= Lo(map0[k])
           /\ \A j, k \in 1 .. last : j < k => map0[j].base + map0[j].length <= Top - PageSize
  BY <1>1, MapPages
<1>3. \A k \in RamIndex(map0) : /\ Aligned(e820[k]) /\ Lo(e820[k]) = Lo(map0[k])
                                 /\ Hi(e820[k]) <= Hi(map0[k]) /\ Aligned(map0[k])
  BY RegionsNow
<1>4. \A k \in RamIndex(map0) :
         /\ Lo(map0[k]) \in Nat /\ Hi(map0[k]) \in Nat /\ Hi(e820[k]) \in Nat
         /\ Lo(map0[k]) <= Hi(e820[k])
  BY <1>3, RegionPages
<1>5. r.length > 0 /\ NextPage = h - 1
  BY PallocPage
<1>6. Lo(map0[e]) <= h - 1 /\ h <= Hi(map0[e])
  <2>1. Aligned(r) /\ Lo(r) = Lo(map0[e]) /\ h <= Hi(map0[e])
    BY <1>1, <1>3
  <2>2. Lo(r) < h /\ Lo(r) \in Nat /\ h \in Nat
    BY <1>5, <2>1, RegionPages
  <2> QED
    BY <2>1, <2>2
<1>7. NextPage \in Pages(map0)
  <2>1. h - 1 \in PagesOf(map0[e])
    BY <1>1, <1>4, <1>6 DEF PagesOf
  <2>2. map0[e] \in Ram(map0)
    BY <1>1 DEF Ram
  <2> QED
    BY <1>5, <2>1, <2>2 DEF Pages
<1>8. ASSUME NEW k \in RamIndex(map0) PROVE h - 1 \notin Hi(e820[k]) .. Hi(map0[k]) - 1
  <2>1. k \in Int /\ e \in Int /\ k \in 1 .. last /\ e \in 1 .. last
    BY <1>1, <1>2
  <2>2. CASE k = e
    BY <1>1, <1>4, <2>2
  <2>3. CASE k < e
    <3>1. Hi(map0[k]) <= Lo(map0[e])
      BY <1>2, <2>1, <2>3
    <3> QED
      BY <1>1, <1>4, <1>6, <1>8, <3>1
  <2>4. CASE e < k
    <3>1. Hi(map0[e]) <= Lo(map0[k])
      BY <1>2, <2>1, <2>4
    <3> QED
      BY <1>1, <1>4, <1>6, <1>8, <3>1
  <2> QED
    BY <2>1, <2>2, <2>3, <2>4
<1>9. NextPage \notin Range(taken)
  BY <1>5, <1>8 DEF TakenInv
<1>10. taken' = Append(taken, NextPage)
  BY DEF palloc, PallocFrom
<1>11. /\ Range(taken)' = Range(taken) \cup {NextPage} /\ taken' # <<>>
       /\ \A k, l \in 1 .. Len(taken') : taken'[k] = taken'[l] => k = l
  <2>1. \A k, l \in 1 .. Len(taken) : taken[k] = taken[l] => k = l
    BY DEF TakenInv
  <2>2. /\ Range(Append(taken, NextPage)) = Range(taken) \cup {NextPage}
        /\ Append(taken, NextPage) # <<>>
        /\ \A k, l \in 1 .. Len(Append(taken, NextPage)) :
             Append(taken, NextPage)[k] = Append(taken, NextPage)[l] => k = l
    BY <1>1, <1>9, <2>1, RangeAppend
  <2>3. Range(taken)' = Range(taken')
    BY DEF Range
  <2> QED
    BY <1>10, <2>2, <2>3
<1>12. /\ e820' = [e820 EXCEPT ![e] = Cut(r)]
  BY PallocMap
<1>13. /\ e820'[e] = Cut(r) /\ \A k \in RamIndex(map0) : k # e => e820'[k] = e820[k]
       /\ Hi(Cut(r)) = h - 1 /\ Cut(r).base + Cut(r).length <= Top - PageSize
  <2>1. \A k \in RamIndex(map0) : k \in 1 .. Len(e820)
    BY <1>1, <1>2
  <2>2. Hi(Cut(r)) = h - 1 /\ Cut(r).base + Cut(r).length <= Top - PageSize
    BY <1>1, <1>3, <1>5, CutPages
  <2>3. PICK x : x = Cut(r)
    OBVIOUS
  <2>4. e820' = [e820 EXCEPT ![e] = x]
    BY <1>12, <2>3
  <2>5. /\ e820'[e] = x /\ \A k \in RamIndex(map0) : k # e => e820'[k] = e820[k]
    BY <1>1, <2>1, <2>4
  <2> QED
    BY <2>2, <2>3, <2>5
<1>14. Range(taken') = UNION {Hi(e820'[k]) .. Hi(map0[k]) - 1 : k \in RamIndex(map0)}
  <2> DEFINE Lost(k) == Hi(e820[k]) .. Hi(map0[k]) - 1
             Lost2(k) == Hi(e820'[k]) .. Hi(map0[k]) - 1
  <2>1. \A x : x \in Range(taken) <=> \E k \in RamIndex(map0) : x \in Lost(k)
    BY DEF TakenInv
  <2>2. Lost2(e) = Lost(e) \cup {NextPage}
    BY <1>1, <1>4, <1>5, <1>6, <1>13
  <2>3. \A k \in RamIndex(map0) : k # e => Lost2(k) = Lost(k)
    BY <1>13
  <2>4. Range(taken') = Range(taken) \cup {NextPage}
    BY <1>11 DEF Range
  <2> HIDE DEF Lost, Lost2
  <2>5. \A x : x \in Range(taken') <=> \E k \in RamIndex(map0) : x \in Lost2(k)
    BY <1>1, <2>1, <2>2, <2>3, <2>4
  <2> QED
    BY <2>5 DEF Lost2
<1>15. ASSUME NEW k \in RamIndex(map0) PROVE e820'[k].base + e820'[k].length <= Top - PageSize
  <2>1. k \in 1 .. last /\ e \in 1 .. last /\ k \in 1 .. Len(map0)
    BY <1>1, <1>2
  <2>2. CASE k = e
    BY <1>13, <2>2
  <2>3. CASE k # e
    <3>1. /\ e820'[k] = e820[k] /\ e820[k].base = map0[k].base /\ e820[k].length <= map0[k].length
          /\ e820[k].base \in Nat /\ e820[k].length \in Nat /\ map0[k].length \in Nat
      <4>1. e820[k] \in SMAP32_t /\ map0[k] \in SMAP32_t
        BY <1>1, <1>2, <2>1
      <4>2. e820[k].base = map0[k].base /\ e820[k].length <= map0[k].length
        BY <2>1 DEF Shrunk
      <4>3. e820'[k] = e820[k]
        BY <1>13, <2>3
      <4> QED
        BY <4>1, <4>2, <4>3 DEF SMAP32_t
    <3>2. CASE k < last
      <4>1. map0[k].base + map0[k].length <= Top - PageSize
        BY <1>2, <2>1, <3>2
      <4>2. PICK b \in Nat, n \in Nat, m \in Nat :
               b = e820[k].base /\ n = e820[k].length /\ m = map0[k].length
        BY <3>1
      <4>3. n <= m /\ b + m <= Top - PageSize
        BY <3>1, <4>1, <4>2
      <4>4. b + n <= Top - PageSize
        BY <4>3, Constants
      <4> QED
        BY <3>1, <4>2, <4>4
    <3>3. CASE k = last
      <4>1. e820[k].length = 0
        BY <1>2, <2>1, <2>3, <3>3 DEF AllocInv
      <4>2. Cut(map0[k]).base + Cut(map0[k]).length <= Top - PageSize /\ Aligned(Cut(map0[k]))
        BY <1>2, <2>1, CutPages
      <4>3. Cut(map0[k]).base = map0[k].base /\ Cut(map0[k]).length \in Nat
        BY <4>2 DEF Aligned, SMAP32_t, Cut
      <4> QED
        BY <3>1, <4>1, <4>2, <4>3, Constants
    <3> QED
      BY <1>2, <2>1, <3>2, <3>3
  <2> QED
    BY <2>2, <2>3
<1>16. TakenInv'
  BY <1>11, <1>14, <1>15 DEF TakenInv, Range
<1>17. taken' \in Seq(Pages(map0))
  BY <1>1, <1>7, <1>10
<1> QED
  BY <1>7, <1>9, <1>11, <1>16, <1>17

-----------------------------------------------------------------------------
(* The loader's loops.                                                     *)

\* The file's headers are as ImageOK says.
LEMMA FileTypes ==
  ASSUME TypeOK
  PROVE  /\ file.sections \in Seq(Elf32_Shdr) /\ file.segments \in Seq(Elf32_Phdr)
         /\ Len(file.sections) \in Nat /\ Len(file.segments) \in Nat
         /\ \A s \in 1 .. Len(file.sections) :
              /\ file.sections[s].addr \in Nat /\ file.sections[s].size \in Nat
              /\ Empty(file.sections[s]) => file.sections[s].addr % PageSize = 0
         /\ \A s \in 1 .. Len(file.segments) :
              /\ file.segments[s].vaddr \in Nat /\ file.segments[s].filesz \in Nat
              /\ file.segments[s].memsz \in Nat /\ file.segments[s].plow \in Nat
              /\ file.segments[s].vaddr % PageSize = 0
              /\ file.segments[s].filesz <= file.segments[s].memsz
<1>1. file \in Images /\ ImageOK(file)
  BY Stage2Assumption DEF TypeOK
<1>2. file.sections \in Seq(Elf32_Shdr) /\ file.segments \in Seq(Elf32_Phdr)
  BY <1>1 DEF ImageOK, Elf32_Ehdr
<1>3. Len(file.sections) \in Nat /\ Len(file.segments) \in Nat
  BY <1>2
<1>4. ASSUME NEW s \in 1 .. Len(file.sections)
      PROVE  /\ file.sections[s].addr \in Nat /\ file.sections[s].size \in Nat
             /\ Empty(file.sections[s]) => file.sections[s].addr % PageSize = 0
  <2>1. file.sections[s] \in Elf32_Shdr
    BY <1>2
  <2> QED
    BY <1>1, <2>1 DEF ImageOK, Elf32_Shdr
<1>5. ASSUME NEW s \in 1 .. Len(file.segments)
      PROVE  /\ file.segments[s].vaddr \in Nat /\ file.segments[s].filesz \in Nat
             /\ file.segments[s].memsz \in Nat /\ file.segments[s].plow \in Nat
             /\ file.segments[s].vaddr % PageSize = 0
             /\ file.segments[s].filesz <= file.segments[s].memsz
  <2>1. file.segments[s] \in Elf32_Phdr
    BY <1>2
  <2> QED
    BY <1>1, <2>1 DEF ImageOK, Elf32_Phdr
<1> QED
  BY <1>2, <1>3, <1>4, <1>5

\* A page below the extent of an image is among VPages.
LEMMA BelowExtent ==
  ASSUME NEW x \in Nat, NEW y \in Nat, x <= y,
         (y \div PageSize) \in {Stack} \cup UNION {Extent(image) : image \in Images}
  PROVE  x \div PageSize \in VPages
<1>1. x \in Int /\ y \in Int
  OBVIOUS
<1>2. x \div PageSize <= y \div PageSize /\ x \div PageSize \in Int /\ y \div PageSize \in Int
  BY <1>1, Constants, DivMonotonic, DivMod
<1>3. x >= PageSize * 0
  BY Constants
<1>4. x \div PageSize >= 0
  BY <1>1, <1>3, Constants, DivBounds
<1>5. x \div PageSize \in 0 .. (y \div PageSize)
  BY <1>2, <1>4
<1> QED
  BY <1>5 DEF VPages

LEMMA SumOfMultiples ==
  ASSUME NEW x \in Nat, NEW y \in Nat, x % PageSize = 0, y % PageSize = 0
  PROVE  \E v \in Int : x + y = PageSize * v
<1>1. x \in Int /\ y \in Int
  OBVIOUS
<1>2. /\ x \div PageSize \in Int /\ x = PageSize * (x \div PageSize) + 0
      /\ y \div PageSize \in Int /\ y = PageSize * (y \div PageSize) + 0
  BY <1>1, Constants, DivMod
<1>3. PICK a \in Int, b \in Int : a = x \div PageSize /\ b = y \div PageSize
  BY <1>2
<1>4. PageSize * a \in Int /\ PageSize * b \in Int /\ PageSize * (a + b) = PageSize * a + PageSize * b
  BY Constants
<1>5. x + y = PageSize * (a + b) /\ a + b \in Int
  BY <1>2, <1>3, <1>4
<1> QED
  BY <1>5

\* What a loop maps next: whole pages, of the virtual pages accounted for.
LEMMA LoopPage ==
  ASSUME TypeOK, LoaderInv, pc \in LoopPcs
  PROVE  /\ VPage \in VPages /\ VPage \div PtEntries \in Tables
         /\ PageSize * VPage = start + bytesread /\ VPage \in Int
<1>1. start \in Nat /\ size \in Nat /\ bytesread \in Nat /\ i \in Nat /\ file \in Images
  BY DEF TypeOK
<1>2. bytesread <= size /\ bytesread % PageSize = 0
  BY DEF LoaderInv
<1>3. start % PageSize = 0 /\ VPage \in VPages
  <2>1. CASE pc = "mapsec"
    <3>1. i + 1 \in 1 .. Len(file.sections) /\ start = file.sections[i + 1].addr
          /\ size = file.sections[i + 1].size /\ Empty(file.sections[i + 1])
      BY <1>1, <2>1, FileTypes DEF LoaderInv
    <3>2. (start + size) \div PageSize \in Extent(file)
      BY <3>1 DEF Extent
    <3>3. start + bytesread \in Nat /\ start + size \in Nat /\ start + bytesread <= start + size
      BY <1>1, <1>2
    <3>4. VPage \in VPages
      BY <1>1, <3>2, <3>3, BelowExtent DEF VPage
    <3> QED
      BY <3>1, <3>4, FileTypes
  <2>2. CASE pc = "mapseg"
    <3>1. 1 \in 1 .. Len(file.segments) /\ start = file.segments[1].vaddr
          /\ size = file.segments[1].filesz
      BY <2>2, FileTypes DEF LoaderInv
    <3>2. (start + file.segments[1].memsz) \div PageSize \in Extent(file)
      BY <3>1 DEF Extent
    <3>3. /\ start + bytesread \in Nat /\ start + file.segments[1].memsz \in Nat
          /\ start + bytesread <= start + file.segments[1].memsz
      <4>1. file.segments[1].memsz \in Nat /\ size <= file.segments[1].memsz
        BY <3>1, FileTypes
      <4> QED
        BY <1>1, <1>2, <4>1
    <3>4. VPage \in VPages
      BY <1>1, <3>2, <3>3, BelowExtent DEF VPage
    <3> QED
      BY <3>1, <3>4, FileTypes
  <2>3. CASE pc = "mapstack"
    <3>1. start = PageSize * Stack /\ bytesread = 0
      BY <1>1, <1>2, <2>3, Constants DEF LoaderInv
    <3>2. start % PageSize = 0 /\ start \div PageSize = Stack
      BY <3>1, Constants, DivOfMul
    <3>3. VPage = Stack
      BY <1>1, <3>1, <3>2 DEF VPage
    <3>4. Stack \in 0 .. Stack
      BY Constants
    <3> QED
      BY <3>2, <3>3, <3>4 DEF VPages
  <2> QED
    BY <2>1, <2>2, <2>3 DEF LoopPcs
<1>4. PageSize * VPage = start + bytesread /\ VPage \in Int
  <2>1. PICK v \in Int : start + bytesread = PageSize * v
    BY <1>1, <1>2, <1>3, SumOfMultiples
  <2>2. VPage = v
    BY <2>1, Constants, DivOfMul DEF VPage
  <2> QED
    BY <2>1, <2>2
<1> QED
  BY <1>3, <1>4 DEF Tables

\* The addresses of a page.
LEMMA AddressesOfPage ==
  ASSUME NEW v \in Int, NEW x \in Int, PageSize * v <= x, x < PageSize * v + PageSize
  PROVE  x \div PageSize = v
<1>1. PageSize * v \in Int
  BY Constants
<1>2. PICK r \in 0 .. PageSize - 1 : x = PageSize * v + r
  <2>1. x - PageSize * v \in 0 .. PageSize - 1 /\ x = PageSize * v + (x - PageSize * v)
    BY <1>1, Constants
  <2> QED
    BY <2>1
<1> QED
  BY <1>2, Constants, ModIs

\* Mapping a page takes away none.
LEMMA MappedKept ==
  ASSUME NEW a, NEW n, NEW v \in VPages, NEW p, TypeOK, p # None,
         pt' = [pt EXCEPT ![v] = p], Mapped(a, n)
  PROVE  Mapped(a, n)'
<1>1. \A w \in VPages : pt[w] # None => pt'[w] # None
  BY DEF TypeOK
<1> QED
  BY <1>1 DEF Mapped

LEMMA SectionsKept ==
  ASSUME NEW m, NEW v \in VPages, NEW p, TypeOK, p # None,
         pt' = [pt EXCEPT ![v] = p], file' = file, SectionsMapped(m)
  PROVE  SectionsMapped(m)'
<1> SUFFICES ASSUME NEW s \in 1 .. m, Empty(file.sections[s])
             PROVE  Mapped(file.sections[s].addr, file.sections[s].size)'
  BY DEF SectionsMapped
<1>1. Mapped(file.sections[s].addr, file.sections[s].size)
  BY DEF SectionsMapped
<1> QED
  BY <1>1, MappedKept

-----------------------------------------------------------------------------
(* The inductive invariant, action by action.                              *)

LEMMA InitInv ==
  ASSUME Init
  PROVE  IInv
<1>1. map0 \in Maps /\ file \in Images /\ e820 = map0 /\ taken = <<>> /\ pc = "bmain"
  BY DEF Init
<1>2. PICK last \in 1 .. Len(map0) - 1 :
           /\ map0 \in Seq(SMAP32_t) /\ Len(map0) \in Nat /\ RamIndex(map0) = 1 .. last
           /\ \A k \in 1 .. last : Aligned(map0[k])
  BY <1>1, MapPages
<1>3. TypeOK
  <2>1. 1 \in 1 .. Len(map0) /\ 0 \in 0 .. Top - 1
    BY <1>2, Constants
  <2> QED
    BY <1>1, <1>2, <2>1 DEF Init, TypeOK
<1>4. MapInv
  <2>1. \A k \in 1 .. Len(map0) : map0[k] \in SMAP32_t
    BY <1>2
  <2>2. \A k \in 1 .. Len(map0) : map0[k].length <= map0[k].length
    BY <2>1 DEF SMAP32_t
  <2> QED
    BY <1>1, <2>2 DEF MapInv, Shrunk
<1>5. TakenInv
  <2>1. Range(taken) = {}
    BY <1>1 DEF Range
  <2>2. \A k \in RamIndex(map0) : Hi(e820[k]) .. Hi(map0[k]) - 1 = {}
    <3> SUFFICES ASSUME NEW k \in RamIndex(map0) PROVE Hi(map0[k]) .. Hi(map0[k]) - 1 = {}
      BY <1>1
    <3>1. Hi(map0[k]) \in Nat
      BY <1>2, RegionPages
    <3> QED
      BY <3>1
  <2>3. UNION {Hi(e820[k]) .. Hi(map0[k]) - 1 : k \in RamIndex(map0)} = {}
    BY <2>2
  <2> QED
    BY <1>1, <2>1, <2>3 DEF TakenInv
<1>6. MappedOnce
  BY DEF Init, MappedOnce
<1>7. LoaderInv
  BY <1>1 DEF LoaderInv, LoopPcs
<1> QED
  BY <1>3, <1>4, <1>5, <1>6, <1>7 DEF IInv

\* A step that takes no page keeps what is known of the memory.
LEMMA MemoryKept ==
  ASSUME UNCHANGED <<map0, memVars>>
  PROVE  (Shrunk => Shrunk') /\ (TakenInv => TakenInv') /\ (AllocInv => AllocInv')
<1>1. /\ map0' = map0 /\ e820' = e820 /\ entries_index' = entries_index
      /\ entry_addr' = entry_addr /\ taken' = taken
  BY DEF memVars
<1> QED
  BY <1>1 DEF Shrunk, TakenInv, AllocInv

LEMMA MappingKept ==
  ASSUME UNCHANGED <<pd, pt, taken>>, MappedOnce
  PROVE  MappedOnce'
BY DEF MappedOnce

\* A step of the loader that maps nothing.
LEMMA QuietStep ==
  ASSUME IInv, UNCHANGED <<file, map0, memVars, pd, pt>>,
         pc' \notin {"bmain", "init"} \/ pc \in {"bmain", "init"},
         pc' \in {"hang", "init"} \/ pc \notin {"bmain", "init", "hang"},
         TypeOK', LoaderInv'
  PROVE  IInv'
<1>1. TakenInv' /\ MappedOnce' /\ Shrunk'
  BY MemoryKept, MappingKept DEF IInv, MapInv, memVars
<1>2. e820' = e820 /\ taken' = taken /\ map0' = map0
  BY DEF memVars
<1>3. pc' \notin {"bmain", "init", "hang"} => AllocInv'
  BY MemoryKept DEF IInv, MapInv
<1>4. MapInv'
  BY <1>1, <1>2, <1>3 DEF IInv, MapInv
<1> QED
  BY <1>1, <1>4 DEF IInv

LEMMA SectionsSame ==
  ASSUME NEW m, UNCHANGED <<file, pt>>, SectionsMapped(m)
  PROVE  SectionsMapped(m)'
BY DEF SectionsMapped, Mapped

LEMMA StutterInv ==
  ASSUME IInv, UNCHANGED vars
  PROVE  IInv'
<1>1. /\ pc' = pc /\ file' = file /\ map0' = map0 /\ e820' = e820 /\ entries_index' = entries_index
      /\ entry_addr' = entry_addr /\ taken' = taken /\ pd' = pd /\ pt' = pt /\ i' = i
      /\ e_phnum' = e_phnum /\ start' = start /\ size' = size /\ bytesread' = bytesread
      /\ loaded' = loaded
  BY DEF vars, memVars, loopVars
<1>2. TypeOK'
  BY <1>1 DEF IInv, TypeOK
<1>3. Shrunk' /\ TakenInv' /\ (AllocInv => AllocInv')
  BY <1>1, MemoryKept DEF IInv, MapInv, memVars
<1>4. MapInv'
  BY <1>1, <1>3 DEF IInv, MapInv
<1>5. MappedOnce'
  BY <1>1, MappingKept DEF IInv
<1>6. LoaderInv'
  BY <1>1 DEF IInv, LoaderInv, SectionsMapped, Mapped
<1> QED
  BY <1>2, <1>3, <1>4, <1>5, <1>6 DEF IInv

\* pt_init finds the last region of RAM.
LEMMA PtInitInv ==
  ASSUME IInv, pt_init
  PROVE  IInv'
<1>1. /\ pc = "init" /\ pc' = "open" /\ e820 = map0 /\ taken = <<>> /\ map0 \in Maps
      /\ map0' = map0 /\ e820' = e820 /\ taken' = taken /\ pd' = pd /\ pt' = pt
      /\ entry_addr' = EntryEnd(e820, entries_index') /\ file' = file /\ i' = i /\ e_phnum' = e_phnum
      /\ start' = start /\ size' = size /\ bytesread' = bytesread /\ loaded' = loaded
  BY DEF IInv, MapInv, TypeOK, pt_init, loopVars
<1>2. PICK last \in 1 .. Len(map0) - 1 :
           /\ map0 \in Seq(SMAP32_t) /\ Len(map0) \in Nat
           /\ RamIndex(map0) = 1 .. last /\ map0[last + 1].type # 1
           /\ \A k \in 1 .. last : Aligned(map0[k]) /\ map0[k].length > 0 /\ map0[k].type = 1
  BY <1>1, MapPages
<1> DEFINE Last(k) == map0[k + 1].type # 1 /\ \A j \in 2 .. k : map0[j].type = 1
<1>3. last \in 1 .. Len(map0) /\ Last(last)
  BY <1>2
<1>4. ASSUME NEW k \in 1 .. Len(map0), Last(k) PROVE k = last
  <2>1. ~ (k < last)
    <3> SUFFICES ASSUME k < last PROVE FALSE
      OBVIOUS
    <3>1. k + 1 \in 1 .. last
      BY <1>2
    <3> QED
      BY <1>2, <1>4, <3>1
  <2>2. ~ (last < k)
    <3> SUFFICES ASSUME last < k PROVE FALSE
      OBVIOUS
    <3>1. last + 1 \in 2 .. k
      BY <1>2
    <3> QED
      BY <1>2, <1>4, <3>1
  <2> QED
    BY <1>2, <2>1, <2>2
<1>5. entries_index' = last
  <2>1. entries_index' = CHOOSE k \in 1 .. Len(map0) : Last(k)
    BY <1>1 DEF pt_init
  <2> HIDE DEF Last
  <2>2. entries_index' \in 1 .. Len(map0) /\ Last(entries_index')
    BY <1>3, <2>1
  <2> QED
    BY <1>4, <2>2
<1>6. AllocInv'
  <2>1. \A k \in 1 .. last - 1 : e820'[k] = map0[k]
    BY <1>1
  <2>2. \A k \in 1 .. last : ~ (k > last)
    BY <1>2
  <2> QED
    BY <1>1, <1>2, <1>5, <2>1, <2>2 DEF AllocInv
<1>7. entry_addr' \in 0 .. Top - 1
  <2>1. EntryEnd(map0, last) = IF Hi(map0[last]) = Top \div PageSize THEN 0 ELSE PageSize * Hi(map0[last])
    BY <1>2, EntryEndIs
  <2> DEFINE h == Hi(map0[last])
             top == Top \div PageSize
  <2>2. h \in Nat /\ h <= top /\ top \in Nat /\ Top = PageSize * top
    BY <1>2, RegionPages, Constants
  <2>3. PageSize * h \in Int /\ PageSize * h >= 0 /\ (h < top => PageSize * h + PageSize <= PageSize * top)
    BY <2>2, Constants, MulLess, SMTT(20)
  <2> HIDE DEF h, top
  <2>4. (IF h = top THEN 0 ELSE PageSize * h) \in 0 .. Top - 1
    BY <2>2, <2>3, Constants
  <2> QED
    BY <1>1, <1>5, <2>1, <2>4 DEF h, top
<1>8. TypeOK'
  <2>1. pc' \in LoopPcs \cup {"bmain", "init", "open", "section", "segment", "load", "enter", "kernel",
                          "hang", "wild"}
    BY <1>1
  <2>2. Len(e820) = Len(map0)
    BY <1>1
  <2>3. TypeOK
    BY DEF IInv
  <2> QED
    BY <1>1, <1>2, <1>3, <1>5, <1>7, <2>1, <2>3 DEF TypeOK
<1>9. Shrunk' /\ TakenInv'
  BY <1>1 DEF IInv, MapInv, Shrunk, TakenInv
<1>10. MapInv'
  BY <1>1, <1>6, <1>9 DEF MapInv
<1>11. MappedOnce'
  BY <1>1, MappingKept DEF IInv
<1>12. LoaderInv'
  BY <1>1 DEF LoaderInv, LoopPcs
<1> QED
  BY <1>8, <1>9, <1>10, <1>11, <1>12 DEF IInv

\* A page table from palloc.
LEMMA PtMapTableInv ==
  ASSUME IInv, pt_map_table
  PROVE  IInv'
<1>1. /\ TypeOK /\ Shrunk /\ AllocInv /\ TakenInv /\ ~ Exhausted /\ palloc /\ MappedOnce /\ LoaderInv
      /\ map0' = map0 /\ pc' = pc /\ file' = file /\ pt' = pt /\ i' = i /\ e_phnum' = e_phnum
      /\ start' = start /\ size' = size /\ bytesread' = bytesread /\ loaded' = loaded
      /\ pc \in LoopPcs /\ pd' = [pd EXCEPT ![VPage \div PtEntries] = NextPage]
  BY DEF IInv, MapInv, pt_map_table, loopVars, LoopPcs
<1>2. /\ Shrunk' /\ AllocInv' /\ e820' \in Seq(SMAP32_t) /\ Len(e820') = Len(map0)
      /\ entries_index' \in 1 .. Len(map0) /\ entry_addr' \in 0 .. Top - 1
  BY <1>1, PallocMap
<1>3. /\ NextPage \in Pages(map0) /\ NextPage \notin Range(taken)
      /\ Range(taken)' = Range(taken) \cup {NextPage}
      /\ TakenInv' /\ taken' \in Seq(Pages(map0)) /\ taken' # <<>>
  BY <1>1, PallocTaken
<1>4. VPage \div PtEntries \in Tables
  BY <1>1, LoopPage
<1>5. TypeOK'
  BY <1>1, <1>2, <1>3, <1>4 DEF TypeOK
<1>6. MapInv'
  BY <1>1, <1>2 DEF MapInv, LoopPcs
<1>7. MappedOnce'
  <2>1. PICK t \in Tables, p \in Pages(map0) : t = VPage \div PtEntries /\ p = NextPage
    BY <1>3, <1>4
  <2>2. pd' = [pd EXCEPT ![t] = p] /\ DOMAIN pd = Tables
    BY <1>1, <2>1 DEF TypeOK
  <2>3. pd'[t] = p /\ \A u \in Tables : u # t => pd'[u] = pd[u]
    BY <2>2
  <2>4. Range(taken') = Range(taken) \cup {p} /\ p \notin Range(taken)
    BY <1>3, <2>1 DEF Range
  <2> QED
    BY <1>1, <2>3, <2>4 DEF MappedOnce
<1>8. LoaderInv'
  BY <1>1 DEF LoaderInv, SectionsMapped, Mapped
<1> QED
  BY <1>3, <1>5, <1>6, <1>7, <1>8 DEF IInv

\* A page from palloc.
LEMMA PtMapInv ==
  ASSUME IInv, pt_map
  PROVE  IInv'
<1>1. /\ TypeOK /\ Shrunk /\ AllocInv /\ TakenInv /\ ~ Exhausted /\ palloc /\ MappedOnce /\ LoaderInv
      /\ map0' = map0 /\ file' = file /\ pd' = pd /\ e_phnum' = e_phnum
      /\ start' = start /\ size' = size /\ loaded' = loaded
      /\ pc \in LoopPcs /\ pt' = [pt EXCEPT ![VPage] = NextPage]
      /\ bytesread' = bytesread + PageSize
      /\ IF bytesread' <= size THEN pc' = pc /\ i' = i
         ELSE pc' = AfterLoop /\ i' = IF pc = "mapsec" THEN i + 1 ELSE i
  BY DEF IInv, MapInv, pt_map, LoopPcs
<1>2. /\ Shrunk' /\ AllocInv' /\ e820' \in Seq(SMAP32_t) /\ Len(e820') = Len(map0)
      /\ entries_index' \in 1 .. Len(map0) /\ entry_addr' \in 0 .. Top - 1
  BY <1>1, PallocMap
<1>3. /\ NextPage \in Pages(map0) /\ NextPage \notin Range(taken)
      /\ Range(taken)' = Range(taken) \cup {NextPage}
      /\ TakenInv' /\ taken' \in Seq(Pages(map0)) /\ taken' # <<>>
  BY <1>1, PallocTaken
<1>4. VPage \in VPages /\ PageSize * VPage = start + bytesread /\ VPage \in Int
  BY <1>1, LoopPage
<1>5. /\ start \in Nat /\ size \in Nat /\ bytesread \in Nat /\ i \in Nat /\ e_phnum \in Nat
      /\ map0 \in Maps /\ file \in Images
  BY <1>1 DEF TypeOK
<1>6. NextPage # None
  BY <1>3, <1>5, Stage2Assumption
<1>7. /\ pc' \in LoopPcs \cup {"section", "load", "enter"}
      /\ pc' \in LoopPcs => pc' = pc /\ i' = i /\ bytesread' <= size
      /\ pc' = "section" => pc = "mapsec" /\ i' = i + 1 /\ bytesread' > size
      /\ pc' = "load" => pc = "mapseg" /\ i' = i /\ bytesread' > size
      /\ i' \in Nat
  BY <1>1, <1>5, Constants DEF LoopPcs, AfterLoop
<1>8. TypeOK'
  <2>1. pt' \in [VPages -> Pages(map0) \cup {None}]
    BY <1>1, <1>3, <1>4 DEF TypeOK
  <2>2. bytesread' \in Nat
    BY <1>1, <1>5, Constants
  <2> QED
    BY <1>1, <1>2, <1>3, <1>7, <2>1, <2>2 DEF TypeOK
<1>9. MapInv'
  BY <1>2, <1>7 DEF MapInv, LoopPcs
<1>10. MappedOnce'
  <2>1. PICK v \in VPages, p \in Pages(map0) : v = VPage /\ p = NextPage
    BY <1>3, <1>4
  <2>2. pt' = [pt EXCEPT ![v] = p] /\ DOMAIN pt = VPages
    BY <1>1, <2>1 DEF TypeOK
  <2>3. pt'[v] = p /\ \A w \in VPages : w # v => pt'[w] = pt[w]
    BY <2>2
  <2>4. Range(taken') = Range(taken) \cup {p} /\ p \notin Range(taken)
    BY <1>3, <2>1 DEF Range
  <2> QED
    BY <1>1, <2>3, <2>4 DEF MappedOnce
<1>11. \A w \in VPages : pt[w] # None => pt'[w] # None
  BY <1>1, <1>4, <1>6 DEF TypeOK
<1>12. ASSUME NEW x \in start .. start + (bytesread + PageSize) - 1
       PROVE  x \div PageSize \in VPages /\ pt'[x \div PageSize] # None
  <2>1. CASE x \in start .. start + bytesread - 1
    <3>1. x \div PageSize \in VPages /\ pt[x \div PageSize] # None
      BY <1>1, <2>1 DEF LoaderInv, Mapped
    <3> QED
      BY <1>11, <3>1
  <2>2. CASE x \notin start .. start + bytesread - 1
    <3>1. x \in Int /\ PageSize * VPage <= x /\ x < PageSize * VPage + PageSize
      BY <1>4, <1>5, <2>2, Constants
    <3>2. x \div PageSize = VPage
      BY <1>4, <3>1, AddressesOfPage
    <3>3. pt'[VPage] = NextPage
      BY <1>1, <1>4 DEF TypeOK
    <3> QED
      BY <1>4, <1>6, <3>2, <3>3
  <2> QED
    BY <2>1, <2>2
<1>13. Mapped(start, bytesread)'
  BY <1>1, <1>12 DEF Mapped
<1>14. \A m : SectionsMapped(m) => SectionsMapped(m)'
  BY <1>1, <1>4, <1>6, SectionsKept
<1>15. bytesread' % PageSize = 0
  <2>1. PICK b \in Int : bytesread = PageSize * b
    <3>1. bytesread \in Int /\ bytesread % PageSize = 0
      BY <1>1, <1>5 DEF LoaderInv
    <3>2. bytesread \div PageSize \in Int /\ bytesread = PageSize * (bytesread \div PageSize) + 0
      BY <3>1, Constants, DivMod
    <3>3. PageSize * (bytesread \div PageSize) \in Int
      BY <3>2, Constants
    <3> QED
      BY <3>2, <3>3
  <2>2. bytesread' = PageSize * (b + 1) /\ b + 1 \in Int
    BY <1>1, <2>1, Constants
  <2> QED
    BY <2>2, Constants, DivOfMul
<1>16. ASSUME pc' \in LoopPcs PROVE LoaderInv'
  <2>1. pc' = pc /\ i' = i /\ bytesread' <= size
    BY <1>7, <1>16
  <2>2. \A m : SectionsMapped(m) => SectionsMapped(m)'
    BY <1>14
  <2>3. pc \in {"section", "mapsec"} => SectionsMapped(i)'
    BY <1>1, <2>1, <2>2 DEF LoaderInv
  <2>4. pc \in {"segment", "mapseg", "load"} => SectionsMapped(Len(file.sections))'
    BY <1>1, <2>2 DEF LoaderInv
  <2> QED
    BY <1>1, <1>13, <1>15, <1>16, <2>1, <2>3, <2>4 DEF LoaderInv, LoopPcs
<1>17. ASSUME pc' = "section" PROVE LoaderInv'
  <2>1. /\ pc = "mapsec" /\ i' = i + 1 /\ bytesread' > size /\ i < Len(file.sections)
        /\ start = file.sections[i + 1].addr /\ size = file.sections[i + 1].size
        /\ SectionsMapped(i) /\ e_phnum = Len(file.segments)
    BY <1>1, <1>7, <1>17 DEF LoaderInv
  <2>2. ASSUME NEW s \in 1 .. i + 1, Empty(file.sections[s]),
               NEW x \in file.sections[s].addr .. file.sections[s].addr + file.sections[s].size - 1
        PROVE  x \div PageSize \in VPages /\ pt'[x \div PageSize] # None
    <3>1. CASE s \in 1 .. i
      <4>1. x \div PageSize \in VPages /\ pt[x \div PageSize] # None
        BY <2>1, <2>2, <3>1 DEF SectionsMapped, Mapped
      <4> QED
        BY <1>11, <4>1
    <3>2. CASE s = i + 1
      <4>1. x \in start .. start + size - 1 /\ bytesread + PageSize > size
        BY <1>1, <2>1, <2>2, <3>2
      <4>2. x \in start .. start + (bytesread + PageSize) - 1
        BY <1>5, <4>1, Constants
      <4> QED
        BY <1>12, <4>2
    <3> QED
      BY <1>5, <3>1, <3>2
  <2>3. i' <= Len(file.sections)
    BY <1>1, <1>5, <2>1, FileTypes
  <2>4. SectionsMapped(i)'
    BY <1>1, <2>1, <2>2 DEF SectionsMapped, Mapped
  <2> QED
    BY <1>1, <1>17, <2>1, <2>3, <2>4 DEF LoaderInv, LoopPcs
<1>18. ASSUME pc' = "load" PROVE LoaderInv'
  <2>1. /\ pc = "mapseg" /\ i' = i /\ bytesread' > size
    BY <1>7, <1>18
  <2>2. /\ SectionsMapped(Len(file.sections))'
    BY <1>1, <1>14, <2>1 DEF LoaderInv
  <2> QED
    BY <1>1, <1>13, <1>15, <1>18, <2>1, <2>2 DEF LoaderInv, LoopPcs
<1>19. ASSUME pc' = "enter" PROVE LoaderInv'
  BY <1>19 DEF LoaderInv, LoopPcs
<1> QED
  BY <1>3, <1>7, <1>8, <1>9, <1>10, <1>16, <1>17, <1>18, <1>19 DEF IInv

\* The steps that take no page.
LEMMA LoaderSteps ==
  ASSUME IInv,
         \/ bmain \/ palloc_wild \/ elf_error \/ elf_open \/ elf_section \/ elf_sections_done
         \/ elf_segment \/ elf_load \/ elf_done \/ enter \/ Stopped
  PROVE  IInv'
<1>1. TypeOK /\ LoaderInv
  BY DEF IInv
<1>2. i \in Nat /\ e_phnum \in Nat /\ Len(file.sections) \in Nat /\ Len(file.segments) \in Nat
      /\ file \in Images
  BY <1>1, FileTypes DEF TypeOK
<1>3. CASE bmain
  <2>1. /\ pc = "bmain" /\ pc' \in {"init", "hang"} /\ UNCHANGED <<file, map0, memVars, pd, pt>>
        /\ UNCHANGED <<i, e_phnum, loopVars, loaded>>
    BY <1>3 DEF bmain, assert_fail
  <2>2. TypeOK'
    BY <1>1, <2>1 DEF TypeOK, memVars, loopVars
  <2>3. LoaderInv'
    BY <2>1 DEF LoaderInv, LoopPcs
  <2> QED
    BY <2>1, <2>2, <2>3, QuietStep
<1>4. CASE palloc_wild \/ elf_error
  <2>1. /\ pc' \in {"wild", "hang"} /\ UNCHANGED <<file, map0, memVars, pd, pt>>
        /\ UNCHANGED <<i, e_phnum, loopVars, loaded>> /\ pc \notin {"bmain", "init", "hang"}
    BY <1>4 DEF palloc_wild, elf_error, assert_fail, LoopPcs
  <2>2. TypeOK'
    BY <1>1, <2>1 DEF TypeOK, memVars, loopVars
  <2>3. LoaderInv'
    BY <2>1 DEF LoaderInv, LoopPcs
  <2> QED
    BY <2>1, <2>2, <2>3, QuietStep
<1>5. CASE elf_open
  <2>1. /\ pc = "open" /\ pc' = "section" /\ UNCHANGED <<file, map0, memVars, pd, pt>>
        /\ UNCHANGED <<loopVars, loaded>> /\ i' = 0 /\ e_phnum' = Len(file.segments)
    BY <1>5 DEF elf_open
  <2>2. TypeOK'
    BY <1>1, <1>2, <2>1 DEF TypeOK, memVars, loopVars
  <2>3. SectionsMapped(i)' /\ i' <= Len(file.sections)
    BY <1>2, <2>1 DEF SectionsMapped
  <2>4. LoaderInv'
    BY <2>1, <2>3 DEF LoaderInv, LoopPcs
  <2> QED
    BY <2>1, <2>2, <2>4, QuietStep
<1>6. CASE elf_section
  <2> DEFINE shdr == file.sections[i + 1]
  <2>1. /\ pc = "section" /\ i < Len(file.sections) /\ UNCHANGED <<file, map0, memVars, pd, pt>>
        /\ UNCHANGED <<e_phnum, loaded>>
        /\ IF Empty(shdr)
           THEN /\ pc' = "mapsec" /\ start' = shdr.addr /\ size' = shdr.size /\ bytesread' = 0
                /\ i' = i
           ELSE i' = i + 1 /\ pc' = pc /\ UNCHANGED loopVars
    BY <1>6 DEF elf_section, Loop
  <2>2. i + 1 \in 1 .. Len(file.sections)
    BY <1>2, <2>1
  <2>3. shdr.addr \in Nat /\ shdr.size \in Nat
    BY <1>1, <2>2, FileTypes
  <2>4. SectionsMapped(i) /\ e_phnum = Len(file.segments) /\ SectionsMapped(i)'
    <3>1. SectionsMapped(i) /\ e_phnum = Len(file.segments)
      BY <1>1, <2>1 DEF LoaderInv
    <3>2. ASSUME Empty(shdr) PROVE SectionsMapped(i)'
      BY <2>1, <3>1, <3>2 DEF SectionsMapped, Mapped
    <3>3. ASSUME ~ Empty(shdr) PROVE SectionsMapped(i)'
      <4>1. \A s \in 1 .. i + 1 : s \in 1 .. i \/ s = i + 1
        BY <1>2
      <4> HIDE DEF shdr
      <4> QED
        BY <2>1, <3>1, <3>3, <4>1 DEF SectionsMapped, Mapped, shdr
    <3> QED
      BY <3>1, <3>2, <3>3
  <2>5. CASE Empty(shdr)
    <3>1. TypeOK'
      BY <1>1, <1>2, <2>1, <2>3, <2>5 DEF TypeOK, memVars, LoopPcs
    <3>2. 0 % PageSize = 0
      BY Constants, DivOfMul
    <3>3. Mapped(start, bytesread)'
      BY <2>1, <2>3, <2>5 DEF Mapped
    <3>4. bytesread' <= size' /\ i' <= Len(file.sections)
      BY <1>2, <2>1, <2>3, <2>5
    <3>5. LoaderInv'
      BY <2>1, <2>4, <2>5, <3>2, <3>3, <3>4 DEF LoaderInv, LoopPcs
    <3> QED
      BY <2>1, <2>5, <3>1, <3>5, QuietStep
  <2>6. CASE ~ Empty(shdr)
    <3>1. TypeOK'
      BY <1>1, <1>2, <2>1, <2>6 DEF TypeOK, memVars, loopVars
    <3>2. i' <= Len(file.sections)
      BY <1>2, <2>1, <2>6
    <3>3. LoaderInv'
      BY <2>1, <2>4, <2>6, <3>2 DEF LoaderInv, LoopPcs
    <3> QED
      BY <2>1, <2>6, <3>1, <3>3, QuietStep
  <2> QED
    BY <2>5, <2>6
<1>7. CASE elf_sections_done
  <2>1. /\ pc = "section" /\ pc' = "segment" /\ i = Len(file.sections) /\ i' = 0
        /\ UNCHANGED <<file, map0, memVars, pd, pt>>
        /\ UNCHANGED <<e_phnum, loopVars, loaded>>
    BY <1>7 DEF elf_sections_done
  <2>2. TypeOK'
    BY <1>1, <2>1 DEF TypeOK, memVars, loopVars
  <2>3. SectionsMapped(Len(file.sections)) /\ e_phnum = Len(file.segments)
    BY <1>1, <2>1 DEF LoaderInv
  <2>4. SectionsMapped(Len(file.sections))'
    BY <2>1, <2>3 DEF SectionsMapped, Mapped
  <2>5. LoaderInv'
    BY <2>1, <2>3, <2>4 DEF LoaderInv, LoopPcs
  <2> QED
    BY <2>1, <2>2, <2>5, QuietStep
<1>8. CASE elf_segment
  <2> DEFINE phdr == file.segments[i + 1]
  <2>1. /\ pc = "segment" /\ i < e_phnum /\ UNCHANGED <<file, map0, memVars, pd, pt>>
        /\ e_phnum' = phdr.plow /\ UNCHANGED loaded
        /\ IF phdr.load
           THEN /\ pc' = "mapseg" /\ start' = phdr.vaddr /\ size' = phdr.filesz /\ bytesread' = 0
                /\ i' = i
           ELSE i' = i + 1 /\ pc' = pc /\ UNCHANGED loopVars
    BY <1>8 DEF elf_segment, Loop
  <2>2. i = 0 /\ e_phnum = Len(file.segments) /\ SectionsMapped(Len(file.sections))
    BY <1>1, <1>2, <2>1 DEF LoaderInv
  <2>3. 1 \in 1 .. Len(file.segments) /\ i + 1 = 1 /\ Len(file.segments) > 0
    BY <1>2, <2>1, <2>2
  <2>4. phdr.vaddr \in Nat /\ phdr.filesz \in Nat /\ phdr = file.segments[1]
    BY <1>1, <2>3, FileTypes
  <2>5. phdr.plow = 0
    BY <1>2, <2>3, Stage2Assumption DEF ImageOK
  <2>6. SectionsMapped(Len(file.sections))'
    BY <2>1, <2>2 DEF SectionsMapped, Mapped
  <2> HIDE DEF phdr
  <2>7. CASE phdr.load
    <3>1. TypeOK'
      BY <1>1, <1>2, <2>1, <2>4, <2>5, <2>7, SMTT(20) DEF TypeOK, memVars, LoopPcs
    <3>2. 0 % PageSize = 0
      BY Constants, DivOfMul
    <3>3. Mapped(start, bytesread)'
      BY <2>1, <2>4, <2>7 DEF Mapped
    <3>4. bytesread' <= size'
      BY <2>1, <2>4, <2>7
    <3>5. LoaderInv'
      BY <2>1, <2>2, <2>3, <2>4, <2>5, <2>6, <2>7, <3>2, <3>3, <3>4 DEF LoaderInv, LoopPcs
    <3> QED
      BY <2>1, <2>7, <3>1, <3>5, QuietStep
  <2>8. CASE ~ phdr.load
    <3>1. TypeOK'
      BY <1>1, <1>2, <2>1, <2>5, <2>8 DEF TypeOK, memVars, loopVars
    <3>2. LoaderInv'
      BY <2>1, <2>5, <2>6, <2>8 DEF LoaderInv, LoopPcs
    <3> QED
      BY <2>1, <2>8, <3>1, <3>2, QuietStep
  <2> QED
    BY <2>7, <2>8
<1>9. CASE elf_load
  <2>1. /\ pc = "load" /\ pc' = "segment" /\ i' = i + 1
        /\ UNCHANGED <<file, map0, memVars, pd, pt>>
        /\ UNCHANGED <<e_phnum, loopVars>> /\ loaded' \in {loaded, loaded \cup {i + 1}}
    BY <1>9 DEF elf_load
  <2>2. i = 0 /\ e_phnum = 0 /\ Len(file.segments) > 0 /\ SectionsMapped(Len(file.sections))
    BY <1>1, <2>1 DEF LoaderInv
  <2>3. i + 1 \in 1 .. Len(file.segments)
    BY <1>2, <2>2
  <2>4. TypeOK'
    BY <1>1, <1>2, <2>1, <2>3 DEF TypeOK, memVars, loopVars
  <2>5. SectionsMapped(Len(file.sections))'
    BY <2>1, <2>2 DEF SectionsMapped, Mapped
  <2>6. LoaderInv'
    BY <2>1, <2>2, <2>5 DEF LoaderInv, LoopPcs
  <2> QED
    BY <2>1, <2>4, <2>6, QuietStep
<1>10. CASE elf_done
  <2>1. /\ pc = "segment" /\ pc' = "mapstack" /\ start' = Stack * PageSize /\ size' = 0 /\ bytesread' = 0
        /\ UNCHANGED <<file, map0, memVars, pd, pt>> /\ UNCHANGED <<i, e_phnum, loaded>>
    BY <1>10 DEF elf_done
  <2>2. Stack * PageSize \in Nat
    BY Constants
  <2>3. TypeOK'
    BY <1>1, <2>1, <2>2 DEF TypeOK, memVars, LoopPcs
  <2>4. 0 % PageSize = 0
    BY Constants, DivOfMul
  <2>5. Mapped(start, bytesread)'
    BY <2>1, <2>2 DEF Mapped
  <2>6. LoaderInv'
    BY <2>1, <2>4, <2>5 DEF LoaderInv, LoopPcs
  <2> QED
    BY <2>1, <2>3, <2>6, QuietStep
<1>11. CASE enter
  <2>1. /\ pc = "enter" /\ pc' = "kernel" /\ UNCHANGED <<file, map0, memVars, pd, pt>>
        /\ UNCHANGED <<i, e_phnum, loopVars, loaded>>
    BY <1>11 DEF enter
  <2>2. TypeOK'
    BY <1>1, <2>1 DEF TypeOK, memVars, loopVars
  <2>3. LoaderInv'
    BY <2>1 DEF LoaderInv, LoopPcs
  <2> QED
    BY <2>1, <2>2, <2>3, QuietStep
<1>12. CASE Stopped
  <2>1. UNCHANGED vars
    BY <1>12 DEF Stopped
  <2> QED
    BY <2>1, StutterInv
<1> QED
  BY <1>3, <1>4, <1>5, <1>6, <1>7, <1>8, <1>9, <1>10, <1>11, <1>12

-----------------------------------------------------------------------------
(* Results.                                                                *)

\* The inductive invariant holds whatever the map, the image and the disk do.
THEOREM Invariant == Spec => []IInv
<1>1. Init => IInv
  BY InitInv
<1>2. IInv /\ [Next]_vars => IInv'
  <2> SUFFICES ASSUME IInv, [Next]_vars PROVE IInv'
    OBVIOUS
  <2>1. CASE pt_init
    BY <2>1, PtInitInv
  <2>2. CASE pt_map_table
    BY <2>2, PtMapTableInv
  <2>3. CASE pt_map
    BY <2>3, PtMapInv
  <2>4. CASE \/ bmain \/ palloc_wild \/ elf_error \/ elf_open \/ elf_section \/ elf_sections_done
             \/ elf_segment \/ elf_load \/ elf_done \/ enter \/ Stopped
    BY <2>4, LoaderSteps
  <2>5. CASE UNCHANGED vars
    BY <2>5, StutterInv
  <2> QED
    BY <2>1, <2>2, <2>3, <2>4, <2>5 DEF Next
<1> QED
  BY <1>1, <1>2, PTL DEF Spec

\* palloc's pages and the pages pmm_init lists share out the original map:
\* none is in both, none in neither once the first was taken, and palloc
\* returns none twice - although one counts from the end of a region, rounded
\* up, and the other from its base, and addresses wrap at the top.
THEOREM HandoverHolds == Spec => []Handover
<1>1. ASSUME IInv PROVE Handover
  <2>1. TypeOK /\ Shrunk /\ TakenInv /\ map0 \in Maps /\ taken \in Seq(Pages(map0))
    BY <1>1 DEF IInv, MapInv, TypeOK
  <2>2. PICK last \in 1 .. Len(map0) - 1 :
             /\ map0 \in Seq(SMAP32_t) /\ Len(map0) \in Nat /\ RamIndex(map0) = 1 .. last
             /\ \A j, k \in 1 .. last : j < k => Hi(map0[j]) <= Lo(map0[k])
    BY <2>1, MapPages
  <2>3. RamIndex(e820) = RamIndex(map0)
    <3>1. Len(e820) = Len(map0) /\ \A k \in 1 .. Len(map0) : e820[k].type = map0[k].type
      BY <2>1 DEF Shrunk, TypeOK
    <3>2. \A n \in 1 .. Len(map0) : \A k \in 1 .. n : k \in 1 .. Len(map0)
      BY <2>2
    <3>3. \A n \in 1 .. Len(map0) : (\A k \in 1 .. n : e820[k].type = 1) <=> (\A k \in 1 .. n : map0[k].type = 1)
      BY <3>1, <3>2
    <3> QED
      BY <3>1, <3>3 DEF RamIndex
  <2>4. \A k \in RamIndex(map0) :
           /\ Aligned(e820[k]) /\ Lo(e820[k]) = Lo(map0[k]) /\ Hi(e820[k]) <= Hi(map0[k])
           /\ Aligned(map0[k])
    BY <2>1, RegionsNow
  <2>5. \A k \in RamIndex(map0) :
           /\ Lo(map0[k]) \in Nat /\ Hi(map0[k]) \in Nat /\ Hi(e820[k]) \in Nat
           /\ Lo(map0[k]) <= Hi(e820[k])
    BY <2>4, RegionPages
  <2>6. \A p : p \in Range(taken) <=> \E k \in RamIndex(map0) : p \in Hi(e820[k]) .. Hi(map0[k]) - 1
    BY <2>1 DEF TakenInv
  <2>7. \A p : p \in Pages(map0) <=> \E k \in RamIndex(map0) : p \in Lo(map0[k]) .. Hi(map0[k]) - 1
    BY DEF Pages, Ram, PagesOf
  <2>8. ASSUME taken # <<>>, NEW p
        PROVE  p \in Listed(e820) <=> \E k \in RamIndex(map0) : p \in Lo(map0[k]) .. Hi(e820[k]) - 1
    <3>1. \A k \in RamIndex(map0) : ListedOf(e820[k]) = Lo(map0[k]) .. Hi(e820[k]) - 1
      <4> SUFFICES ASSUME NEW k \in RamIndex(map0)
                   PROVE  ListedOf(e820[k]) = Lo(map0[k]) .. Hi(e820[k]) - 1
        OBVIOUS
      <4>1. e820[k].base + e820[k].length <= Top - PageSize
        BY <2>1, <2>8 DEF TakenInv
      <4>2. ListedOf(e820[k]) = PagesOf(e820[k])
        BY <2>4, <4>1, ListedIsPages
      <4> QED
        BY <2>4, <4>2 DEF PagesOf
    <3>2. p \in Listed(e820) <=> \E k \in RamIndex(map0) : p \in ListedOf(e820[k])
      BY <2>3 DEF Listed, Ram
    <3> QED
      BY <3>1, <3>2
  <2>9. Range(taken) \cap Listed(e820) = {}
    <3>1. CASE taken = <<>>
      BY <3>1 DEF Range
    <3>2. CASE taken # <<>>
      <4> SUFFICES ASSUME NEW p, p \in Range(taken), p \in Listed(e820) PROVE FALSE
        OBVIOUS
      <4>1. PICK k \in RamIndex(map0) : p \in Hi(e820[k]) .. Hi(map0[k]) - 1
        BY <2>6
      <4>2. PICK l \in RamIndex(map0) : p \in Lo(map0[l]) .. Hi(e820[l]) - 1
        BY <2>8, <3>2
      <4>3. k \in 1 .. last /\ l \in 1 .. last /\ k \in Int /\ l \in Int
        BY <2>2
      <4>4. CASE k = l
        BY <2>5, <4>1, <4>2, <4>4
      <4>5. CASE k < l
        <5>1. Hi(map0[k]) <= Lo(map0[l])
          BY <2>2, <4>3, <4>5
        <5> QED
          BY <2>5, <4>1, <4>2, <5>1
      <4>6. CASE l < k
        <5>1. Hi(map0[l]) <= Lo(map0[k]) /\ Hi(e820[l]) <= Hi(map0[l])
          BY <2>2, <2>4, <4>3, <4>6
        <5> QED
          BY <2>5, <4>1, <4>2, <5>1
      <4> QED
        BY <4>3, <4>4, <4>5, <4>6
    <3> QED
      BY <3>1, <3>2
  <2>10. ASSUME taken # <<>> PROVE Range(taken) \cup Listed(e820) = Pages(map0)
    <3> SUFFICES ASSUME NEW p PROVE p \in Range(taken) \/ p \in Listed(e820) <=> p \in Pages(map0)
      OBVIOUS
    <3>1. ASSUME NEW k \in RamIndex(map0)
          PROVE  p \in Lo(map0[k]) .. Hi(map0[k]) - 1 <=>
                   \/ p \in Hi(e820[k]) .. Hi(map0[k]) - 1
                   \/ p \in Lo(map0[k]) .. Hi(e820[k]) - 1
      BY <2>4, <2>5, <3>1
    <3> QED
      BY <2>6, <2>7, <2>8, <2>10, <3>1
  <2>11. Cardinality(Range(taken)) = Len(taken)
    <3>1. Len(taken) \in Nat /\ DOMAIN taken = 1 .. Len(taken)
      BY <2>1
    <3>2. \A k, l \in 1 .. Len(taken) : taken[k] = taken[l] => k = l
      BY <2>1 DEF TakenInv
    <3>3. taken \in Bijection(1 .. Len(taken), Range(taken))
      BY <2>1, <3>1, <3>2 DEF Bijection, Injection, Surjection, IsInjective, Range
    <3>4. IsFiniteSet(1 .. Len(taken)) /\ Cardinality(1 .. Len(taken)) = Len(taken)
      <4>1. IsFiniteSet(1 .. Len(taken)) /\ Cardinality(1 .. Len(taken)) =
              IF 1 > Len(taken) THEN 0 ELSE Len(taken) - 1 + 1
        <5>1. 1 \in Int /\ Len(taken) \in Int
          BY <3>1
        <5> QED
          BY <5>1, FS_Interval, Zenon
      <4> QED
        BY <3>1, <4>1
    <3>5. ExistsBijection(1 .. Len(taken), Range(taken))
      BY <3>3 DEF ExistsBijection
    <3> QED
      BY <3>4, <3>5, FS_Bijection
  <2> QED
    BY <2>9, <2>10, <2>11 DEF Handover
<1> QED
  BY <1>1, Invariant, PTL

\* No page serves two purposes: every page a table maps and every page table is
\* a different page that palloc returned.
THEOREM MappedOnceHolds == Spec => []MappedOnce
<1>1. IInv => MappedOnce
  BY DEF IInv
<1> QED
  BY <1>1, Invariant, PTL

\* The copy of a segment and the memset of its rest touch only addresses that
\* the two loops have mapped.
THEOREM NoFaultHolds == Spec => []NoFault
<1>1. ASSUME IInv, pc = "load",
             NEW a \in file.segments[i + 1].vaddr ..
                        file.segments[i + 1].vaddr + file.segments[i + 1].memsz - 1
      PROVE  pt[a \div PageSize] # None
  <2>1. /\ TypeOK /\ i = 0 /\ Len(file.segments) > 0
        /\ start = file.segments[1].vaddr /\ size = file.segments[1].filesz
        /\ bytesread > size /\ bytesread % PageSize = 0 /\ Mapped(start, bytesread)
        /\ SectionsMapped(Len(file.sections))
    BY <1>1 DEF IInv, LoaderInv
  <2>2. start \in Nat /\ size \in Nat /\ bytesread \in Nat
    BY <2>1 DEF TypeOK
  <2>3. /\ i + 1 = 1 /\ 1 \in 1 .. Len(file.segments)
    BY <2>1, FileTypes
  <2> DEFINE phdr == file.segments[1]
  <2>4. phdr.memsz \in Nat /\ start % PageSize = 0
    BY <2>1, <2>3, FileTypes
  <2>5. a \in start .. start + phdr.memsz - 1 /\ a \in Int
    BY <1>1, <2>1, <2>2, <2>3, <2>4
  <2>6. CASE a < start + bytesread
    BY <2>1, <2>2, <2>5, <2>6 DEF Mapped
  <2>7. CASE a >= start + bytesread
    <3>1. PICK u \in Nat : RoundUp(start + size) = PageSize * u /\ PageSize * u < start + size + PageSize
      <4>1. start + size \in Nat
        BY <2>2
      <4> QED
        BY <4>1, RoundUpIs
    <3>2. PICK v \in Int : start + bytesread = PageSize * v
      BY <2>1, <2>2, <2>4, SumOfMultiples
    <3>3. PageSize * u \in Int /\ PageSize * v \in Int
          /\ (v < u => PageSize * v + PageSize <= PageSize * u)
      BY Constants, MulLess
    <3>4. RoundUp(start + size) <= start + bytesread
      <4>1. ~ (v < u)
        <5> SUFFICES ASSUME v < u PROVE FALSE
          OBVIOUS
        <5>1. PageSize * v + PageSize <= PageSize * u
          BY <3>3
        <5>2. start + bytesread + PageSize < start + size + PageSize
          BY <2>2, <3>1, <3>2, <3>3, <5>1, Constants
        <5> QED
          BY <2>1, <2>2, <5>2, Constants
      <4>2. CASE u = v
        BY <3>1, <3>2, <3>3, <4>2
      <4>3. CASE u < v
        <5>1. PageSize * u + PageSize <= PageSize * v
          BY <4>3, Constants, MulLess
        <5> QED
          BY <3>1, <3>2, <3>3, <5>1, Constants
      <4> QED
        BY <4>1, <4>2, <4>3
    <3>5. a \in RoundUp(start + size) .. start + phdr.memsz - 1
      BY <2>2, <2>4, <2>5, <2>7, <3>1, <3>3, <3>4
    <3>6. PICK k \in 1 .. Len(file.sections) :
             /\ Empty(file.sections[k])
             /\ a \in file.sections[k].addr .. file.sections[k].addr + file.sections[k].size - 1
      <4>1. ImageOK(file)
        BY <2>1, Stage2Assumption DEF TypeOK
      <4> QED
        BY <2>1, <2>3, <3>5, <4>1 DEF ImageOK
    <3> QED
      BY <2>1, <3>6 DEF SectionsMapped, Mapped
  <2> QED
    BY <2>2, <2>5, <2>6, <2>7
<1>2. IInv => NoFault
  BY <1>1 DEF NoFault
<1> QED
  BY <1>2, Invariant, PTL
=============================================================================
