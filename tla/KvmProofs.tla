----------------------------- MODULE KvmProofs -----------------------------
(***************************************************************************)
(* For every number of tables, entries and pages, and whatever stage 2 has *)
(* mapped: the virtual page allocator's counts are exact, its tables are   *)
(* kept while they are needed, the number of free pages is right, and what *)
(* stage 2 mapped stays.  Which page is where is not told: an address that *)
(* is mapped twice does lose the page it had.                              *)
(***************************************************************************)
EXTENDS Kvm, FiniteSetTheorems, WellFoundedInduction, TLAPS

(***************************************************************************)
(* Least and greatest elements.                                            *)
(***************************************************************************)
LEMMA MinExists ==
  ASSUME NEW S \in SUBSET Nat, S # {}
  PROVE  Min(S) \in S /\ \A y \in S : Min(S) <= y
<1> DEFINE Less == OpToRel(<, Nat)
<1>1. IsWellFoundedOn(Less, Nat)
  BY NatLessThanWellFounded
<1> HIDE DEF Less
<1>2. PICK x \in S : \A y \in S : ~ (<<y, x>> \in Less)
  BY <1>1, WFMin
<1>3. ASSUME NEW y \in S PROVE x <= y
  <2>1. ~ (y < x)
    BY <1>2 DEF Less, OpToRel
  <2>2. x \in Nat /\ y \in Nat
    OBVIOUS
  <2> QED
    BY <2>1, <2>2
<1> QED
  BY <1>3 DEF Min

LEMMA MaxExists ==
  ASSUME NEW a \in Int, NEW b \in Int, NEW S \in SUBSET (a .. b), S # {}
  PROVE  Max(S) \in S
<1> DEFINE T == {b - x : x \in S}
<1>1. T \in SUBSET Nat /\ T # {}
  OBVIOUS
<1>2. PICK m \in T : \A y \in T : m <= y
  BY <1>1, MinExists
<1>3. PICK x \in S : m = b - x
  OBVIOUS
<1>4. ASSUME NEW y \in S PROVE x >= y
  <2>1. m <= b - y
    BY <1>2
  <2>2. x \in Int /\ y \in Int
    OBVIOUS
  <2> QED
    BY <1>3, <2>1, <2>2
<1> QED
  BY <1>4 DEF Max

-----------------------------------------------------------------------------
(* The uses of addresses.                                                  *)

LEMMA Constants ==
  /\ NTables \in Nat /\ NTables >= 1 /\ Entries \in Nat /\ Entries >= 2 /\ Pages \in Nat
  /\ Booted \in [Table -> SUBSET Entry] /\ None \notin Addr
  /\ Table \subseteq Int /\ Entry \subseteq Int
  /\ IsFiniteSet(Table) /\ IsFiniteSet(Entry) /\ Cardinality(Entry) = Entries
  /\ Cardinality(Table) = NTables
<1>1. /\ NTables \in Nat /\ NTables >= 1 /\ Entries \in Nat /\ Entries >= 2 /\ Pages \in Nat
      /\ Booted \in [Table -> SUBSET Entry] /\ None \notin Addr
  BY KvmAssumption
<1>2. /\ NTables - 1 \in Int /\ Entries - 1 \in Int /\ 0 \in Int
  BY <1>1
<1>3. /\ IsFiniteSet(0 .. NTables - 1)
      /\ Cardinality(0 .. NTables - 1) = IF 0 > NTables - 1 THEN 0 ELSE NTables - 1 - 0 + 1
  BY <1>2, FS_Interval, Zenon
<1>4. /\ IsFiniteSet(0 .. Entries - 1)
      /\ Cardinality(0 .. Entries - 1) = IF 0 > Entries - 1 THEN 0 ELSE Entries - 1 - 0 + 1
  BY <1>2, FS_Interval, Zenon
<1>5. Cardinality(Table) = NTables /\ Cardinality(Entry) = Entries
  BY <1>1, <1>3, <1>4 DEF Table, Entry
<1> QED
  BY <1>1, <1>3, <1>4, <1>5 DEF Table, Entry

\* One use more or less of an address of S.
LEMMA UseOne ==
  ASSUME TypeOK, NEW S \in SUBSET Addr, NEW a \in S, IsFiniteSet(InUse(S)),
         held' = [held EXCEPT ![a] = @ + 1]
  PROVE  IsFiniteSet(InUse(S)') /\ Cardinality(InUse(S)') = Cardinality(InUse(S)) + 1
<1>1. held \in [Addr -> Nat] /\ a \in Addr
  BY DEF TypeOK
<1>2. held'[a] = held[a] + 1 /\ \A b \in S : b # a => held'[b] = held[b]
  BY <1>1
<1> DEFINE u == <<a, held[a] + 1>>
<1>3. u \notin InUse(S)
  BY <1>1 DEF InUse
<1>4. InUse(S)' = InUse(S) \cup {u}
  <2>1. \A x : x \in InUse(S) <=> \E b \in S : x \in {b} \X (1 .. held[b])
    BY DEF InUse
  <2>2. \A x : x \in InUse(S)' <=> \E b \in S : x \in {b} \X (1 .. held'[b])
    BY DEF InUse
  <2>3. {a} \X (1 .. held'[a]) = ({a} \X (1 .. held[a])) \cup {u}
    BY <1>1, <1>2
  <2> HIDE DEF u
  <2> QED
    BY <1>2, <2>1, <2>2, <2>3
<1> HIDE DEF u
<1> QED
  BY <1>3, <1>4, FS_AddElement

LEMMA UnuseOne ==
  ASSUME TypeOK, NEW S \in SUBSET Addr, NEW a \in S, IsFiniteSet(InUse(S)), held[a] > 0,
         held' = [held EXCEPT ![a] = @ - 1]
  PROVE  IsFiniteSet(InUse(S)') /\ Cardinality(InUse(S)') = Cardinality(InUse(S)) - 1
<1>1. held \in [Addr -> Nat] /\ a \in Addr
  BY DEF TypeOK
<1>2. held'[a] = held[a] - 1 /\ \A b \in S : b # a => held'[b] = held[b]
  BY <1>1
<1> DEFINE u == <<a, held[a]>>
<1>3. u \in InUse(S)
  <2>1. u \in {a} \X (1 .. held[a])
    BY <1>1
  <2> QED
    BY <2>1 DEF InUse
<1>4. InUse(S)' = InUse(S) \ {u}
  <2>1. \A x : x \in InUse(S) <=> \E b \in S : x \in {b} \X (1 .. held[b])
    BY DEF InUse
  <2>2. \A x : x \in InUse(S)' <=> \E b \in S : x \in {b} \X (1 .. held'[b])
    BY DEF InUse
  <2>3. {a} \X (1 .. held'[a]) = ({a} \X (1 .. held[a])) \ {u}
    BY <1>1, <1>2
  <2>4. \A b \in S : b # a => u \notin {b} \X (1 .. held[b])
    OBVIOUS
  <2> HIDE DEF u
  <2> QED
    BY <1>2, <2>1, <2>2, <2>3, <2>4
<1> HIDE DEF u
<1> QED
  BY <1>3, <1>4, FS_RemoveElement

\* The uses of other addresses do not change.
LEMMA UseOther ==
  ASSUME NEW S, \A b \in S : held'[b] = held[b]
  PROVE  InUse(S)' = InUse(S)
BY DEF InUse

\* The uses of a table's addresses are finitely many, none when none is held.
LEMMA HeldNat ==
  ASSUME TypeOK, IsFiniteSet(InUse(Addr)), NEW i \in Table
  PROVE  /\ IsFiniteSet(InUse({i} \X Entry)) /\ Held(i) \in Nat
         /\ \A e \in Entry : held[<<i, e>>] > 0 => Held(i) > 0
<1>1. InUse({i} \X Entry) \in SUBSET InUse(Addr)
  BY DEF InUse, Addr
<1>2. IsFiniteSet(InUse({i} \X Entry))
  BY <1>1, FS_Subset
<1>3. Held(i) \in Nat
  BY <1>2, FS_CardinalityType DEF Held
<1>4. ASSUME NEW e \in Entry, held[<<i, e>>] > 0 PROVE Held(i) > 0
  <2>1. <<i, e>> \in Addr /\ <<i, e>> \in {i} \X Entry
    BY DEF Addr
  <2>2. held[<<i, e>>] \in Nat
    BY <2>1 DEF TypeOK
  <2>3. <<<<i, e>>, 1>> \in {<<i, e>>} \X (1 .. held[<<i, e>>])
    BY <1>4, <2>2
  <2>4. InUse({i} \X Entry) # {}
    BY <2>1, <2>3 DEF InUse
  <2>5. Held(i) # 0
    BY <1>2, <2>4, FS_EmptySet DEF Held
  <2> QED
    BY <1>3, <2>5
<1> QED
  BY <1>2, <1>3, <1>4

-----------------------------------------------------------------------------
(* What the operators of the model return.                                 *)

\* set_ptinfo: more than one entry in use keeps a table from counting as
\* empty, and the first free entry is one that is not in use.
LEMMA PtInfo ==
  ASSUME NEW i \in Table
  PROVE  /\ set_ptinfo(i) \in InfoType /\ set_ptinfo(i).pdi = i
         /\ set_ptinfo(i).free \in Nat /\ set_ptinfo(i).free <= Entries
         /\ Cardinality(Booted[i]) > 1 => set_ptinfo(i).free < Entries
         /\ Booted[i] = {} => set_ptinfo(i).free = Entries \/ i = NTables - 1
         /\ i = NTables - 1 => set_ptinfo(i).free = 0
         /\ set_ptinfo(i).free > 0 /\ Booted[i] # {} => set_ptinfo(i).first_free \notin Booted[i]
<1> USE Constants
<1> DEFINE empty == Entry \ Booted[i]
           c == Cardinality(empty)
<1>1. Booted[i] \in SUBSET Entry /\ empty \in SUBSET Entry
  OBVIOUS
<1>2. IsFiniteSet(Booted[i]) /\ IsFiniteSet(empty)
  BY <1>1, FS_Subset
<1>3. c \in Nat /\ c <= Entries /\ Cardinality(Booted[i]) \in Nat
  BY <1>1, <1>2, FS_Subset, FS_CardinalityType
<1>4. Booted[i] # {} => c < Entries
  <2> HIDE DEF empty
  <2>1. Booted[i] # {} => empty # Entry
    BY <1>1 DEF empty
  <2>2. Cardinality(Entry) = Cardinality(empty) => Entry = empty
    BY <1>1, FS_Subset
  <2> QED
    BY <1>3, <2>1, <2>2
<1>5. Cardinality(Booted[i]) > 1 => c + 1 < Entries
  <2> SUFFICES ASSUME Cardinality(Booted[i]) > 1 PROVE c + 1 < Entries
    OBVIOUS
  <2>1. PICK x : x \in Booted[i]
    BY <1>2, FS_EmptySet
  <2>2. Booted[i] # {x}
    <3>1. Cardinality({x}) = 1
      BY FS_Singleton
    <3>2. ~ (1 > 1)
      OBVIOUS
    <3> QED
      BY <3>1, <3>2
  <2>3. PICK y \in Booted[i] : y # x
    BY <2>1, <2>2
  <2>4. IsFiniteSet(empty \cup {x}) /\ Cardinality(empty \cup {x}) = c + 1
    BY <1>2, <2>1, FS_AddElement
  <2>5. empty \cup {x} \in SUBSET Entry /\ empty \cup {x} # Entry
    BY <1>1, <2>1, <2>3
  <2>6. c + 1 <= Entries /\ c + 1 # Entries
    BY <2>4, <2>5, FS_Subset
  <2> QED
    BY <1>3, <2>6
<1>6. empty # {} => Min(empty) \in empty
  <2>1. empty \in SUBSET Nat
    BY DEF Entry
  <2> QED
    BY <2>1, MinExists
<1>7. 0 \in Entry /\ Entry \subseteq 0 .. Entries
  BY DEF Entry
<1>8. Booted[i] = {} => empty # {}
  BY <1>7
<1>9. set_ptinfo(i) = IF i = NTables - 1 \/ empty = {}
      THEN [free |-> 0, pdi |-> i, first_free |-> 0]
      ELSE IF Booted[i] = {}
           THEN [free |-> Entries, pdi |-> i, first_free |-> 0]
           ELSE [free |-> c + 1, pdi |-> i, first_free |-> Min(empty)]
  BY DEF set_ptinfo
<1> HIDE DEF c
<1>10. CASE i = NTables - 1 \/ empty = {}
  <2>1. set_ptinfo(i) = [free |-> 0, pdi |-> i, first_free |-> 0]
    BY <1>9, <1>10
  <2> QED
    BY <1>8, <1>10, <2>1 DEF InfoType
<1>11. CASE ~ (i = NTables - 1 \/ empty = {}) /\ Booted[i] = {}
  <2>1. set_ptinfo(i) = [free |-> Entries, pdi |-> i, first_free |-> 0]
    BY <1>9, <1>11
  <2>2. Cardinality(Booted[i]) = 0
    BY <1>11, FS_EmptySet
  <2> QED
    BY <1>11, <2>1, <2>2 DEF InfoType
<1>12. CASE ~ (i = NTables - 1 \/ empty = {}) /\ Booted[i] # {}
  <2>1. set_ptinfo(i) = [free |-> c + 1, pdi |-> i, first_free |-> Min(empty)]
    BY <1>9, <1>12
  <2>2. Min(empty) \in 0 .. Entries /\ Min(empty) \notin Booted[i]
    BY <1>6, <1>7, <1>12
  <2>3. c + 1 \in 0 .. Entries
    BY <1>3, <1>4, <1>12
  <2> QED
    BY <1>5, <1>12, <2>1, <2>2, <2>3 DEF InfoType
<1> QED
  BY <1>10, <1>11, <1>12

\* update_first_free's search finds an entry that is not present, or none.
LEMMA NextFreeIs ==
  ASSUME NEW E \in SUBSET Entry
  PROVE  NextFree(E) \in 0 .. Entries /\ NextFree(E) \notin E
<1> USE Constants
<1> DEFINE empty == {e \in Entry \ {0} : e \notin E}
<1>1. CASE empty = {}
  <2>1. NextFree(E) = Entries
    BY <1>1 DEF NextFree
  <2> QED
    BY <2>1 DEF Entry
<1>2. CASE empty # {}
  <2>1. NextFree(E) = Min(empty)
    BY <1>2 DEF NextFree
  <2>2. empty \in SUBSET Nat
    BY DEF Entry
  <2>3. Min(empty) \in empty
    BY <1>2, <2>2, MinExists
  <2> QED
    BY <2>1, <2>3 DEF Entry
<1> QED
  BY <1>1, <1>2

\* The loop of vfree leaves every entry of ptmeta where it was or moves it.
LEMMA SiftMoves ==
  ASSUME NEW meta \in [Table -> InfoType], NEW k \in Table
  PROVE  \E t \in [Table -> Table] :
           /\ Sift(meta, k) \in [Table -> InfoType]
           /\ \A j \in Table : Sift(meta, k)[j] = meta[t[j]]
           /\ \A x, y \in Table : t[x] = t[y] => x = y
           /\ \A y \in Table : \E x \in Table : t[x] = y
<1> USE Constants
<1> DEFINE S == {n \in k .. NTables - 1 : \A j \in k + 1 .. n : meta[j].free < meta[k].free}
           last == Max(S)
<1>1. k \in Int /\ NTables - 1 \in Int /\ 0 <= k /\ k <= NTables - 1
  BY DEF Table
<1>2. S \in SUBSET (k .. NTables - 1) /\ k \in S
  BY <1>1
<1>3. last \in S
  BY <1>1, <1>2, MaxExists
<1>4. last \in Int /\ k <= last /\ last <= NTables - 1
  <2> HIDE DEF S
  <2>1. last \in k .. NTables - 1
    BY <1>2, <1>3
  <2> QED
    BY <1>1, <2>1
<1>5. Sift(meta, k) = [j \in Table |-> CASE j \in k .. last - 1 -> meta[j + 1]
                         [] j = last -> meta[k]
                         [] OTHER -> meta[j]]
  BY DEF Sift
<1> HIDE DEF last
<1> DEFINE t == [j \in Table |-> IF j \in k .. last - 1 THEN j + 1
                                 ELSE IF j = last THEN k ELSE j]
<1>6. t \in [Table -> Table]
  BY <1>1, <1>4 DEF Table
<1>7. ASSUME NEW j \in Table
      PROVE  (CASE j \in k .. last - 1 -> meta[j + 1]
                [] j = last -> meta[k]
                [] OTHER -> meta[j]) = meta[t[j]]
  <2>1. j = last => ~ (j \in k .. last - 1)
    BY <1>1, <1>4
  <2> QED
    BY <2>1
<1>8. /\ Sift(meta, k) \in [Table -> InfoType]
      /\ \A j \in Table : Sift(meta, k)[j] = meta[t[j]]
  <2>1. Sift(meta, k) = [j \in Table |-> meta[t[j]]]
    BY <1>5, <1>7
  <2> HIDE DEF t
  <2> QED
    BY <1>6, <2>1
<1>9. \A x, y \in Table : t[x] = t[y] => x = y
  BY <1>1, <1>4 DEF Table
<1>10. ASSUME NEW y \in Table PROVE \E x \in Table : t[x] = y
  <2>1. CASE y \in k + 1 .. last
    <3>1. y - 1 \in Table /\ t[y - 1] = y
      BY <1>1, <1>4, <2>1 DEF Table
    <3> QED
      BY <3>1
  <2>2. CASE y = k
    <3>1. last \in Table /\ t[last] = k
      BY <1>1, <1>4 DEF Table
    <3> QED
      BY <2>2, <3>1
  <2>3. CASE y # k /\ ~ (y \in k + 1 .. last)
    <3>1. t[y] = y
      BY <1>1, <1>4, <2>3 DEF Table
    <3> QED
      BY <3>1
  <2> QED
    BY <2>1, <2>2, <2>3
<1> HIDE DEF t
<1> QED
  BY <1>6, <1>8, <1>9, <1>10

\* get_idx finds the table's entry.
LEMMA IdxIs ==
  ASSUME EveryTableFound, NEW i \in Table
  PROVE  get_idx(i) \in Table /\ ptmeta[get_idx(i)].pdi = i
BY DEF EveryTableFound, get_idx
-----------------------------------------------------------------------------
(* How ptmeta may change.                                                  *)

\* One entry is replaced by another, and the entries are put into any order.
Moved(idx, new) ==
  \E t \in [Table -> Table] :
    /\ \A j \in Table : ptmeta'[j] = IF t[j] = idx THEN new ELSE ptmeta[t[j]]
    /\ \A x, y \in Table : t[x] = t[y] => x = y
    /\ \A y \in Table : \E x \in Table : t[x] = y

\* Every entry is the new one or an old one of another table.
NewOrOld(new) ==
  \A k \in Table :
    \/ ptmeta'[k] = new
    \/ \E l \in Table : ptmeta'[k] = ptmeta[l] /\ ptmeta[l].pdi # new.pdi

LEMMA Reordered ==
  ASSUME TypeOK, Permuted, NEW idx \in Table, NEW new \in InfoType,
         new.pdi = ptmeta[idx].pdi, Moved(idx, new)
  PROVE  Permuted' /\ NewOrOld(new)
<1> PICK t \in [Table -> Table] :
    /\ \A j \in Table : ptmeta'[j] = IF t[j] = idx THEN new ELSE ptmeta[t[j]]
    /\ \A x, y \in Table : t[x] = t[y] => x = y
    /\ \A y \in Table : \E x \in Table : t[x] = y
  BY DEF Moved
<1>1. ptmeta \in [Table -> InfoType]
  BY DEF TypeOK
<1>2. \A k \in Table : t[k] = idx => ptmeta'[k] = new
  OBVIOUS
<1>3. \A k \in Table : ptmeta'[k].pdi = ptmeta[t[k]].pdi
  OBVIOUS
<1>5. \A k \in Table : t[k] \in Table /\ (t[k] # idx => ptmeta'[k] = ptmeta[t[k]])
  OBVIOUS
<1>7. ASSUME NEW i \in Table PROVE \E k \in Table : ptmeta'[k].pdi = i
  <2>1. PICK l \in Table : ptmeta[l].pdi = i
    BY DEF Permuted, EveryTableFound
  <2>2. PICK k \in Table : t[k] = l
    OBVIOUS
  <2> QED
    BY <1>3, <1>5, <2>1, <2>2
<1>8. ASSUME NEW k \in Table, NEW l \in Table, ptmeta'[k].pdi = ptmeta'[l].pdi PROVE k = l
  <2>1. ptmeta[t[k]].pdi = ptmeta[t[l]].pdi
    BY <1>3, <1>5, <1>8
  <2>2. t[k] = t[l]
    BY <1>5, <2>1 DEF Permuted
  <2> QED
    BY <2>2
<1>9. ASSUME NEW k \in Table, ptmeta'[k] # new
      PROVE  \E l \in Table : ptmeta'[k] = ptmeta[l] /\ ptmeta[l].pdi # new.pdi
  <2>1. t[k] # idx
    BY <1>2, <1>5, <1>9
  <2>2. ptmeta'[k] = ptmeta[t[k]]
    BY <1>2, <1>5, <2>1
  <2>3. ptmeta[t[k]].pdi # ptmeta[idx].pdi
    BY <1>5, <2>1 DEF Permuted
  <2> QED
    BY <1>5, <2>2, <2>3
<1> QED
  BY <1>7, <1>8, <1>9 DEF Permuted, EveryTableFound, NewOrOld

\* valloc only replaces the entry.
LEMMA Replaced ==
  ASSUME TypeOK, Permuted, NEW idx \in Table, NEW new \in InfoType,
         new.pdi = ptmeta[idx].pdi, ptmeta' = [ptmeta EXCEPT ![idx] = new]
  PROVE  ptmeta' \in [Table -> InfoType] /\ Permuted' /\ NewOrOld(new)
<1> DEFINE t == [j \in Table |-> j]
<1>1. t \in [Table -> Table] /\ \A x \in Table : t[x] = x
  OBVIOUS
<1>2. ptmeta \in [Table -> InfoType]
  BY DEF TypeOK
<1>3. ptmeta' \in [Table -> InfoType]
  BY <1>2
<1>4. \A j \in Table : ptmeta'[j] = IF t[j] = idx THEN new ELSE ptmeta[t[j]]
  BY <1>1, <1>2
<1> HIDE DEF t
<1>5. Moved(idx, new)
  BY <1>1, <1>4 DEF Moved
<1> QED
  BY <1>3, <1>5, Reordered

\* vfree then moves it.
LEMMA Sifted ==
  ASSUME TypeOK, Permuted, NEW idx \in Table, NEW new \in InfoType,
         new.pdi = ptmeta[idx].pdi, ptmeta' = Sift([ptmeta EXCEPT ![idx] = new], idx)
  PROVE  ptmeta' \in [Table -> InfoType] /\ Permuted' /\ NewOrOld(new)
<1> DEFINE M == [ptmeta EXCEPT ![idx] = new]
<1>1. M \in [Table -> InfoType] /\ M[idx] = new /\ \A j \in Table : j # idx => M[j] = ptmeta[j]
  BY DEF TypeOK
<1> HIDE DEF M
<1>2. ptmeta' = Sift(M, idx)
  BY DEF M
<1>3. PICK t \in [Table -> Table] :
           /\ Sift(M, idx) \in [Table -> InfoType]
           /\ \A j \in Table : Sift(M, idx)[j] = M[t[j]]
           /\ \A x, y \in Table : t[x] = t[y] => x = y
           /\ \A y \in Table : \E x \in Table : t[x] = y
  BY <1>1, SiftMoves
<1>4. ptmeta' \in [Table -> InfoType] /\ \A j \in Table : ptmeta'[j] = M[t[j]]
  BY <1>2, <1>3
<1>5. \A j \in Table : ptmeta'[j] = IF t[j] = idx THEN new ELSE ptmeta[t[j]]
  BY <1>1, <1>4
<1>6. Moved(idx, new)
  BY <1>3, <1>5 DEF Moved
<1> QED
  BY <1>4, <1>6, Reordered

\* The facts that are stated entry by entry: enough that they hold of the new
\* entry, when nothing but its table has changed.
LEMMA PerEntry ==
  ASSUME TypeOK, Counted, AbsentFree, FirstNotBooted,
         NEW i \in Table, NEW new \in InfoType, new.pdi = i,
         NewOrOld(new),
         \A j \in Table : j # i => /\ \A e \in Entry : held'[<<j, e>>] = held[<<j, e>>]
                                   /\ lost'[j] = lost[j] /\ kpd'[j] = kpd[j],
         new.free + Held(i)' + lost'[i] = set_ptinfo(i).free,
         ~ kpd'[i] => new.free = Entries \/ i = NTables - 1,
         new.free > 0 /\ Cardinality(Booted[i]) > 1 => new.first_free \notin Booted[i]
  PROVE  Counted' /\ AbsentFree' /\ FirstNotBooted'
<1>1. ptmeta \in [Table -> InfoType]
  BY DEF TypeOK
<1>2. \A l \in Table : ptmeta[l].pdi \in Table
  BY <1>1 DEF InfoType
<1> USE DEF NewOrOld
<1>3. \A j \in Table : j # i => Held(j)' = Held(j)
  <2> TAKE j \in Table
  <2> HAVE j # i
  <2>1. \A b \in {j} \X Entry : held'[b] = held[b]
    OBVIOUS
  <2>2. InUse({j} \X Entry)' = InUse({j} \X Entry)
    BY <2>1, UseOther
  <2> QED
    BY <2>2 DEF Held
<1>4. ASSUME NEW j \in Table, NEW k \in Table, ptmeta'[k].pdi = j
      PROVE  ptmeta'[k].free + Held(j)' + lost'[j] = set_ptinfo(j).free
  <2>1. CASE ptmeta'[k] = new
    <3>1. j = i
      BY <1>4, <2>1
    <3> QED
      BY <2>1, <3>1
  <2>2. CASE \E l \in Table : ptmeta'[k] = ptmeta[l] /\ ptmeta[l].pdi # new.pdi
    <3>1. PICK l \in Table : ptmeta'[k] = ptmeta[l] /\ ptmeta[l].pdi # new.pdi
      BY <2>2
    <3>2. j # i /\ ptmeta[l].pdi = j
      BY <1>4, <3>1
    <3>3. ptmeta[l].free + Held(j) + lost[j] = set_ptinfo(j).free
      BY <3>2 DEF Counted
    <3> QED
      BY <1>3, <3>1, <3>2, <3>3
  <2> QED
    BY <2>1, <2>2
<1>5. Counted'
  <2>1. \A j, k \in Table : ptmeta'[k].pdi = j =>
          ptmeta'[k].free + Held(j)' + lost'[j] = set_ptinfo(j).free
    BY <1>4
  <2> QED
    BY <2>1 DEF Counted, set_ptinfo
<1>6. AbsentFree'
  BY <1>2 DEF AbsentFree
<1>7. FirstNotBooted'
  BY <1>2 DEF FirstNotBooted
<1> QED
  BY <1>5, <1>6, <1>7
-----------------------------------------------------------------------------
(* How the counts change.                                                  *)

\* An address more is in use.
LEMMA UseMore ==
  ASSUME TypeOK, IsFiniteSet(InUse(Addr)), NEW i \in Table, NEW e \in Entry,
         held' = [held EXCEPT ![<<i, e>>] = @ + 1]
  PROVE  /\ IsFiniteSet(InUse(Addr)') /\ Cardinality(InUse(Addr)) \in Nat
         /\ Cardinality(InUse(Addr)') = Cardinality(InUse(Addr)) + 1
         /\ Held(i) \in Nat /\ Held(i)' = Held(i) + 1
         /\ held' \in [Addr -> Nat] /\ held'[<<i, e>>] > 0
         /\ \A b \in Addr : b # <<i, e>> => held'[b] = held[b]
<1> DEFINE a == <<i, e>>
           S == {i} \X Entry
<1>1. a \in Addr /\ a \in S /\ S \in SUBSET Addr
  BY DEF Addr
<1>2. held' = [held EXCEPT ![a] = @ + 1] /\ held \in [Addr -> Nat]
  BY DEF TypeOK
<1>3. IsFiniteSet(InUse(S)) /\ Held(i) \in Nat
  BY HeldNat
<1>4. Held(i)' = Cardinality(InUse(S)')
  BY DEF Held
<1>5. Held(i) = Cardinality(InUse(S))
  BY DEF Held
<1> HIDE DEF a, S
<1>6. Cardinality(InUse(S)') = Cardinality(InUse(S)) + 1
  BY <1>1, <1>2, <1>3, UseOne
<1>7. IsFiniteSet(InUse(Addr)') /\ Cardinality(InUse(Addr)') = Cardinality(InUse(Addr)) + 1
  BY <1>1, <1>2, UseOne
<1>8. Cardinality(InUse(Addr)) \in Nat
  BY FS_CardinalityType
<1>9. held' \in [Addr -> Nat] /\ held'[a] > 0 /\ \A b \in Addr : b # a => held'[b] = held[b]
  BY <1>1, <1>2
<1> QED
  BY <1>3, <1>4, <1>5, <1>6, <1>7, <1>8, <1>9 DEF a

\* An address less is in use.
LEMMA UseLess ==
  ASSUME TypeOK, IsFiniteSet(InUse(Addr)), NEW i \in Table, NEW e \in Entry,
         held[<<i, e>>] > 0, held' = [held EXCEPT ![<<i, e>>] = @ - 1]
  PROVE  /\ IsFiniteSet(InUse(Addr)') /\ Cardinality(InUse(Addr)) \in Nat
         /\ Cardinality(InUse(Addr)') = Cardinality(InUse(Addr)) - 1
         /\ Held(i) \in Nat /\ Held(i) > 0 /\ Held(i)' = Held(i) - 1
         /\ held' \in [Addr -> Nat] /\ \A b \in Addr : held'[b] <= held[b]
         /\ \A b \in Addr : b # <<i, e>> => held'[b] = held[b]
<1> DEFINE a == <<i, e>>
           S == {i} \X Entry
<1>1. a \in Addr /\ a \in S /\ S \in SUBSET Addr
  BY DEF Addr
<1>2. held' = [held EXCEPT ![a] = @ - 1] /\ held \in [Addr -> Nat] /\ held[a] > 0
  BY DEF TypeOK
<1>3. IsFiniteSet(InUse(S)) /\ Held(i) \in Nat /\ Held(i) > 0
  BY <1>2, HeldNat
<1>4. Held(i)' = Cardinality(InUse(S)')
  BY DEF Held
<1>5. Held(i) = Cardinality(InUse(S))
  BY DEF Held
<1> HIDE DEF a, S
<1>6. Cardinality(InUse(S)') = Cardinality(InUse(S)) - 1
  BY <1>1, <1>2, <1>3, UnuseOne
<1>7. IsFiniteSet(InUse(Addr)') /\ Cardinality(InUse(Addr)') = Cardinality(InUse(Addr)) - 1
  BY <1>1, <1>2, UnuseOne
<1>8. Cardinality(InUse(Addr)) \in Nat
  BY FS_CardinalityType
<1>9. /\ held' \in [Addr -> Nat] /\ \A b \in Addr : held'[b] <= held[b]
      /\ \A b \in Addr : b # a => held'[b] = held[b]
  BY <1>1, <1>2
<1> QED
  BY <1>3, <1>4, <1>5, <1>6, <1>7, <1>8, <1>9 DEF a

\* The page tables that are present.
Present == {i \in Table : kpd[i]}

LEMMA PresentNat ==
  IsFiniteSet(Present) /\ Cardinality(Present) \in Nat
BY Constants, FS_Subset, FS_CardinalityType DEF Present

LEMMA PresentMore ==
  ASSUME TypeOK, NEW i \in Table, kpd' = [kpd EXCEPT ![i] = TRUE]
  PROVE  Cardinality(Present') = IF kpd[i] THEN Cardinality(Present) ELSE Cardinality(Present) + 1
<1>1. kpd \in [Table -> BOOLEAN]
  BY DEF TypeOK
<1>2. Present' = Present \cup {i}
  BY <1>1, Zenon DEF Present
<1>3. i \in Present <=> kpd[i]
  BY Zenon DEF Present
<1> QED
  BY <1>2, <1>3, PresentNat, FS_AddElement

LEMMA PresentLess ==
  ASSUME TypeOK, NEW i \in Table, kpd[i], kpd' = [kpd EXCEPT ![i] = FALSE]
  PROVE  Cardinality(Present') = Cardinality(Present) - 1
<1>1. kpd \in [Table -> BOOLEAN]
  BY DEF TypeOK
<1>2. Present' = Present \ {i}
  BY <1>1, Zenon DEF Present
<1>3. i \in Present
  BY Zenon DEF Present
<1> QED
  BY <1>2, <1>3, PresentNat, FS_RemoveElement
-----------------------------------------------------------------------------
(* Each step keeps the invariant.                                          *)

\* The tables stage 2 leaves present.
Given == {i \in Table : Booted[i] # {}}

LEMMA GivenNat ==
  IsFiniteSet(Given) /\ Cardinality(Given) \in Nat
BY Constants, FS_Subset, FS_CardinalityType DEF Given

LEMMA AccountedIs ==
  Accounted <=> (~ failed => pfree + Cardinality(InUse(Addr)) + Cardinality(Present)
                               = Pages + Cardinality(Given))
BY DEF Accounted, Present, Given

LEMMA InitInv ==
  ASSUME Init
  PROVE  IInv
<1> USE Constants
<1>1. \A a \in Addr : held[a] = 0
  BY DEF Init
<1>2. ptmeta = [i \in Table |-> set_ptinfo(i)] /\ \A i \in Table : ptmeta[i] = set_ptinfo(i)
  BY DEF Init
<1>3. ptmeta \in [Table -> InfoType] /\ \A i \in Table : ptmeta[i].pdi = i
  BY <1>2, PtInfo
<1>4. TypeOK
  <2>1. pfree \in Nat /\ ptmeta_first_free \in 0 .. NTables
    BY DEF Init
  <2>2. kpd \in [Table -> BOOLEAN] /\ pt \in [Table -> SUBSET Entry]
    BY DEF Init
  <2>3. held \in [Addr -> Nat] /\ lost \in [Table -> Nat]
    BY DEF Init
  <2> QED
    BY <1>3, <2>1, <2>2, <2>3 DEF Init, TypeOK
<1>5. ASSUME NEW S \in SUBSET Addr PROVE InUse(S) = {}
  <2>1. \A a \in S : 1 .. held[a] = {}
    BY <1>1
  <2> QED
    BY <2>1 DEF InUse
<1>6. IsFiniteSet(InUse(Addr)) /\ Cardinality(InUse(Addr)) = 0
  BY <1>5, FS_EmptySet
<1>7. Permuted
  BY <1>3 DEF Permuted, EveryTableFound
<1>8. ASSUME NEW i \in Table, NEW k \in Table, ptmeta[k].pdi = i
      PROVE  ptmeta[k].free + Held(i) + lost[i] = set_ptinfo(i).free
  <2>1. k = i
    BY <1>3, <1>8
  <2>2. Held(i) = 0
    <3>1. {i} \X Entry \in SUBSET Addr
      BY DEF Addr
    <3> QED
      BY <1>5, <3>1, FS_EmptySet DEF Held
  <2>3. lost[i] = 0
    BY DEF Init
  <2>4. ptmeta[k].free = set_ptinfo(i).free /\ set_ptinfo(i).free \in Nat
    BY <1>2, <2>1, PtInfo
  <2> QED
    BY <2>2, <2>3, <2>4
<1>9. Counted
  BY <1>8 DEF Counted
<1>10. \A i \in Table : kpd[i] <=> Booted[i] # {}
  BY DEF Init
<1>11. AbsentFree
  BY <1>2, <1>3, <1>10, PtInfo DEF AbsentFree
<1>12. TableKept
  BY <1>1 DEF TableKept
<1>13. Accounted
  <2>1. Present = Given
    BY <1>10 DEF Present, Given
  <2>2. pfree = Pages
    BY DEF Init
  <2> QED
    BY <1>6, <2>1, <2>2, GivenNat, AccountedIs
<1>14. \A i \in Table : Cardinality(Booted[i]) > 1 => Booted[i] # {}
  <2>1. ~ (0 > 1)
    OBVIOUS
  <2> QED
    BY <2>1, FS_EmptySet
<1>15. FirstNotBooted
  BY <1>2, <1>3, <1>14, PtInfo DEF FirstNotBooted
<1>16. KernelKept
  <2>1. pt = Booted
    BY DEF Init
  <2>2. \A i \in Table, e \in Entry : held[<<i, e>>] = 0
    BY <1>1 DEF Addr
  <2> QED
    BY <1>10, <1>14, <2>1, <2>2 DEF KernelKept
<1>17. WindowHeld
  BY DEF Init, WindowHeld
<1> QED
  BY <1>4, <1>6, <1>7, <1>9, <1>11, <1>12, <1>13, <1>15, <1>16, <1>17 DEF IInv

\* What no change of the tables, the counts and the uses disturbs.
LEMMA Unmoved ==
  ASSUME IInv, UNCHANGED <<kpd, pt, pfree, held, lost, failed>>
  PROVE  /\ IsFiniteSet(InUse(Addr))' /\ TableKept' /\ Accounted' /\ KernelKept'
         /\ \A i \in Table : Held(i)' = Held(i)
<1>1. \A i \in Table : Held(i)' = Held(i)
  <2> TAKE i \in Table
  <2>1. InUse({i} \X Entry)' = InUse({i} \X Entry)
    BY UseOther
  <2> QED
    BY <2>1 DEF Held
<1>2. InUse(Addr)' = InUse(Addr)
  BY UseOther
<1>3. IsFiniteSet(InUse(Addr))'
  BY <1>2 DEF IInv
<1>4. Accounted'
  BY <1>2 DEF IInv, Accounted
<1>5. TableKept' /\ KernelKept'
  BY DEF IInv, TableKept, KernelKept
<1> QED
  BY <1>1, <1>3, <1>4, <1>5

\* A step of the control alone.
LEMMA Quiet ==
  ASSUME IInv, UNCHANGED <<ptmeta, kpd, pt, pfree, held, lost, failed>>, TypeOK', WindowHeld'
  PROVE  IInv'
<1>1. /\ IsFiniteSet(InUse(Addr))' /\ TableKept' /\ Accounted' /\ KernelKept'
      /\ \A i \in Table : Held(i)' = Held(i)
  BY Unmoved
<1>2. Permuted' /\ AbsentFree' /\ FirstNotBooted'
  BY DEF IInv, Permuted, EveryTableFound, AbsentFree, FirstNotBooted
<1>3. Counted'
  <2>1. \A j, k \in Table : ptmeta'[k].pdi = j =>
          ptmeta'[k].free + Held(j)' + lost'[j] = set_ptinfo(j).free
    BY <1>1 DEF IInv, Counted
  <2> QED
    BY <2>1 DEF Counted, set_ptinfo
<1> QED
  BY <1>1, <1>2, <1>3 DEF IInv

LEMMA VinitStep ==
  ASSUME IInv, vinit
  PROVE  IInv'
<1> USE Constants
<1>1. PICK p \in Bijection(Table, Table) :
       /\ ptmeta' = [i \in Table |-> ptmeta[p[i]]]
       /\ ptmeta_first_free' = Cardinality({i \in Table : ptmeta[i].free = 0})
  BY DEF vinit
<1>2. /\ p \in [Table -> Table] /\ \A x, y \in Table : p[x] = p[y] => x = y
      /\ \A y \in Table : \E x \in Table : p[x] = y
  BY DEF Bijection, Injection, Surjection, IsInjective
<1>3. ptmeta \in [Table -> InfoType]
  BY DEF IInv, TypeOK
<1>4. \A k \in Table : p[k] \in Table /\ ptmeta'[k] = ptmeta[p[k]]
  BY <1>1, <1>2
<1>5. ptmeta' \in [Table -> InfoType]
  BY <1>1, <1>2, <1>3
<1>6. ptmeta_first_free' \in 0 .. NTables
  <2>1. {i \in Table : ptmeta[i].free = 0} \in SUBSET Table
    OBVIOUS
  <2> QED
    BY <1>1, <2>1, FS_Subset, FS_CardinalityType
<1>7. TypeOK' /\ WindowHeld'
  BY <1>5, <1>6 DEF vinit, IInv, TypeOK, WindowHeld, histVars
<1>8. Permuted'
  <2>1. \A i \in Table : \E k \in Table : ptmeta'[k].pdi = i
    <3> TAKE i \in Table
    <3>1. PICK l \in Table : ptmeta[l].pdi = i
      BY DEF IInv, Permuted, EveryTableFound
    <3>2. PICK k \in Table : p[k] = l
      BY <1>2
    <3> QED
      BY <1>4, <3>1, <3>2
  <2>2. \A k, l \in Table : ptmeta'[k].pdi = ptmeta'[l].pdi => k = l
    <3> TAKE k, l \in Table
    <3> HAVE ptmeta'[k].pdi = ptmeta'[l].pdi
    <3>1. p[k] = p[l]
      <4>1. \A x, y \in Table : ptmeta[x].pdi = ptmeta[y].pdi => x = y
        BY DEF IInv, Permuted
      <4>2. ptmeta[p[k]].pdi = ptmeta[p[l]].pdi /\ p[k] \in Table /\ p[l] \in Table
        BY <1>4
      <4> QED
        BY <4>1, <4>2
    <3> QED
      BY <1>2, <3>1
  <2> QED
    BY <2>1, <2>2 DEF Permuted, EveryTableFound
<1>9. /\ IsFiniteSet(InUse(Addr))' /\ TableKept' /\ Accounted' /\ KernelKept'
      /\ \A i \in Table : Held(i)' = Held(i)
  BY Unmoved DEF vinit, histVars
<1>10. Counted'
  <2>1. \A j, k \in Table : ptmeta'[k].pdi = j =>
          ptmeta'[k].free + Held(j)' + lost'[j] = set_ptinfo(j).free
    <3> TAKE j, k \in Table
    <3> HAVE ptmeta'[k].pdi = j
    <3>1. p[k] \in Table /\ ptmeta'[k] = ptmeta[p[k]] /\ ptmeta[p[k]].pdi = j
      BY <1>4
    <3>2. ptmeta[p[k]].free + Held(j) + lost[j] = set_ptinfo(j).free
      BY <3>1 DEF IInv, Counted
    <3>3. Held(j)' = Held(j) /\ lost' = lost
      BY <1>9 DEF vinit, histVars
    <3> QED
      BY <3>1, <3>2, <3>3
  <2> QED
    BY <2>1 DEF Counted, set_ptinfo
<1>11. AbsentFree' /\ FirstNotBooted'
  <2>1. UNCHANGED kpd
    BY DEF vinit
  <2>2. AbsentFree'
    <3>1. AbsentFree
      BY DEF IInv
    <3> QED
      BY <1>4, <2>1, <3>1 DEF AbsentFree
  <2>3. FirstNotBooted'
    BY <1>4 DEF IInv, FirstNotBooted
  <2> QED
    BY <2>2, <2>3
<1> QED
  BY <1>7, <1>8, <1>9, <1>10, <1>11 DEF IInv
\* valloc: an entry more is in use; its table is there, or becomes one.
LEMMA VallocStep ==
  ASSUME IInv, valloc
  PROVE  IInv'
<1> USE Constants
<1>1. TypeOK /\ Permuted /\ Counted /\ AbsentFree /\ FirstNotBooted /\ IsFiniteSet(InUse(Addr))
  BY DEF IInv
<1>2. ptmeta_first_free \in Table
  <2>1. ptmeta_first_free \in 0 .. NTables /\ ptmeta_first_free < NTables
    BY <1>1 DEF TypeOK, valloc, Valloc
  <2> QED
    BY <2>1 DEF Table
<1>3. PICK m \in InfoType : m = ptmeta[ptmeta_first_free]
  BY <1>1, <1>2 DEF TypeOK
<1>4. PICK i \in Table, e \in 0 .. Entries : i = m.pdi /\ e = m.first_free
  BY DEF InfoType
<1>5. m.free \in 0 .. Entries
  BY DEF InfoType
<1>6. i \in Table /\ e \in Entry /\ m.free \in Nat /\ m.free >= 1 /\ m.free <= Entries
  <2>1. m.free # 0 /\ e < Entries
    BY <1>3, <1>4 DEF valloc, Valloc, Current
  <2> QED
    BY <1>5, <2>1 DEF Entry
<1>0. Current = m /\ m.pdi = i /\ m.first_free = e
  BY <1>3, <1>4 DEF Current
<1>7. held' = [held EXCEPT ![<<i, e>>] = @ + 1]
  BY <1>0 DEF valloc, Valloc
<1>8. /\ pfree' = IF pfree >= PagesOf(m) THEN pfree - PagesOf(m) ELSE 0
      /\ failed' = (failed \/ pfree < PagesOf(m))
      /\ UNCHANGED lost
  BY <1>0 DEF valloc, Valloc, PmmAlloc
<1>9. /\ pc' = CASE pc = "run" -> "run" [] pc = "vmap1" -> "vmap2" [] pc = "vmap2" -> "vmap3"
      /\ tmp' = IF pc = "vmap1" THEN <<i, e>> ELSE tmp
      /\ pc \in {"run", "vmap1", "vmap2"}
  BY <1>0 DEF valloc, Valloc, AfterAlloc, CallsValloc
<1>10. m.free + Held(i) + lost[i] = set_ptinfo(i).free
  BY <1>1, <1>2, <1>3, <1>4 DEF Counted
<1>11. kpd[i] \/ m.free = Entries
  <2>1. i = NTables - 1 => set_ptinfo(i).free = 0
    BY <1>6, PtInfo
  <2>2. Held(i) \in Nat /\ lost[i] \in Nat
    BY <1>1, <1>6, HeldNat DEF TypeOK
  <2>3. i # NTables - 1
    BY <1>6, <1>10, <2>1, <2>2
  <2> QED
    BY <1>1, <1>2, <1>3, <1>4, <2>3 DEF AbsentFree
<1>12. \E new \in InfoType :
          /\ new.pdi = i /\ new.free = m.free - 1
          /\ ptmeta' = [ptmeta EXCEPT ![ptmeta_first_free] = new]
          /\ ptmeta_first_free' \in 0 .. NTables
          /\ kpd' = [kpd EXCEPT ![i] = TRUE]
          /\ \E entries \in Found(i) :
               /\ pt' = [pt EXCEPT ![i] = entries \cup {e}]
               /\ new.free > 0 => new.first_free \notin entries
          /\ PagesOf(m) = IF kpd[i] THEN 1 ELSE 2
  <2>1. CASE m.free > 1
    <3>1. PICK entries \in Found(i) :
                   /\ ptmeta' = [ptmeta EXCEPT ![ptmeta_first_free] =
                        [free |-> m.free - 1, pdi |-> i, first_free |-> NextFree(entries)]]
                   /\ kpd' = [kpd EXCEPT ![i] = TRUE]
                   /\ pt' = [pt EXCEPT ![i] = entries \cup {e}]
                   /\ UNCHANGED ptmeta_first_free
      BY <1>0, <2>1 DEF valloc, Valloc
    <3>2. entries \in SUBSET Entry
      BY <1>1, <1>6 DEF Found, TypeOK
    <3>3. NextFree(entries) \in 0 .. Entries /\ NextFree(entries) \notin entries
      BY <3>2, NextFreeIs
    <3> DEFINE new == [free |-> m.free - 1, pdi |-> i, first_free |-> NextFree(entries)]
    <3>4. m.free - 1 \in 0 .. Entries
      BY <1>6
    <3>5. new \in InfoType /\ new.pdi = i /\ new.free = m.free - 1
          /\ new.first_free \notin entries
      BY <1>6, <3>3, <3>4 DEF InfoType
    <3>6. PagesOf(m) = IF kpd[i] THEN 1 ELSE 2
      BY <1>0, <2>1 DEF PagesOf, NeedsTable
    <3>7. ptmeta_first_free' \in 0 .. NTables
      BY <1>1, <3>1 DEF TypeOK
    <3>8. ptmeta' = [ptmeta EXCEPT ![ptmeta_first_free] = new]
      BY <3>1
    <3> HIDE DEF new
    <3> QED
      BY <3>1, <3>5, <3>6, <3>7, <3>8
  <2>2. CASE ~ (m.free > 1)
    <3>1. m.free = 1
      BY <1>6, <2>2
    <3>2. kpd[i]
      BY <1>11, <3>1
    <3>3. /\ ptmeta' = [ptmeta EXCEPT ![ptmeta_first_free] =
                        [free |-> 0, pdi |-> i, first_free |-> e]]
          /\ ptmeta_first_free' = ptmeta_first_free + 1
          /\ pt' = [pt EXCEPT ![i] = @ \cup {e}]
          /\ UNCHANGED kpd
      BY <1>0, <2>2 DEF valloc, Valloc
    <3> DEFINE new == [free |-> 0, pdi |-> i, first_free |-> e]
    <3>4. new \in InfoType /\ new.pdi = i /\ new.free = 0
      BY <1>6 DEF InfoType
    <3>5. ptmeta_first_free' \in 0 .. NTables
      BY <1>2, <3>3 DEF Table
    <3>6. kpd' = [kpd EXCEPT ![i] = TRUE]
      <4>1. kpd \in [Table -> BOOLEAN] /\ kpd[i] = TRUE
        BY <1>1, <1>6, <3>2 DEF TypeOK
      <4> QED
        BY <3>3, <4>1
    <3>7. pt[i] \in Found(i) /\ pt' = [pt EXCEPT ![i] = pt[i] \cup {e}]
      BY <3>2, <3>3 DEF Found
    <3>8. PagesOf(m) = IF kpd[i] THEN 1 ELSE 2
      BY <1>0, <2>2, <3>2 DEF PagesOf, NeedsTable
    <3>9. ptmeta' = [ptmeta EXCEPT ![ptmeta_first_free] = new]
      BY <3>3
    <3>10. new.free = m.free - 1 /\ ~ (new.free > 0)
      BY <3>1, <3>4
    <3> HIDE DEF new
    <3> QED
      BY <3>4, <3>5, <3>6, <3>7, <3>8, <3>9, <3>10
  <2> QED
    BY <2>1, <2>2
<1>13. PICK new \in InfoType :
          /\ new.pdi = i /\ new.free = m.free - 1
          /\ ptmeta' = [ptmeta EXCEPT ![ptmeta_first_free] = new]
          /\ ptmeta_first_free' \in 0 .. NTables
          /\ kpd' = [kpd EXCEPT ![i] = TRUE]
          /\ \E entries \in Found(i) :
               /\ pt' = [pt EXCEPT ![i] = entries \cup {e}]
               /\ new.free > 0 => new.first_free \notin entries
          /\ PagesOf(m) = IF kpd[i] THEN 1 ELSE 2
  BY <1>12
<1>14. PICK entries \in Found(i) :
               /\ pt' = [pt EXCEPT ![i] = entries \cup {e}]
               /\ new.free > 0 => new.first_free \notin entries
  BY <1>13
<1>15. ptmeta' \in [Table -> InfoType] /\ Permuted' /\ NewOrOld(new)
  BY <1>1, <1>2, <1>3, <1>4, <1>13, Replaced
<1>16. /\ IsFiniteSet(InUse(Addr)') /\ Cardinality(InUse(Addr)) \in Nat
       /\ Cardinality(InUse(Addr)') = Cardinality(InUse(Addr)) + 1
       /\ Held(i) \in Nat /\ Held(i)' = Held(i) + 1
       /\ held' \in [Addr -> Nat] /\ held'[<<i, e>>] > 0
       /\ \A b \in Addr : b # <<i, e>> => held'[b] = held[b]
  BY <1>1, <1>6, <1>7, UseMore
<1>17. entries \in SUBSET Entry /\ (kpd[i] => entries = pt[i])
  BY <1>1, <1>6, <1>14 DEF Found, TypeOK
<1>18. /\ kpd' \in [Table -> BOOLEAN] /\ kpd'[i]
       /\ \A j \in Table : (j # i => kpd'[j] = kpd[j]) /\ (kpd[j] => kpd'[j])
  BY <1>1, <1>6, <1>13, Zenon DEF TypeOK
<1>19. /\ pt' \in [Table -> SUBSET Entry] /\ pt'[i] = entries \cup {e}
       /\ \A j \in Table : j # i => pt'[j] = pt[j]
  BY <1>1, <1>6, <1>14, <1>17 DEF TypeOK
<1>20. PagesOf(m) \in Nat
  BY <1>13
<1>21. TypeOK'
  <2>1. pfree' \in Nat /\ failed' \in BOOLEAN /\ lost' \in [Table -> Nat]
    BY <1>1, <1>8, <1>20 DEF TypeOK
  <2>2. <<i, e>> \in Addr
    BY <1>6 DEF Addr
  <2>3. /\ pc' \in {"vinit", "run", "vmap1", "vmap2", "vmap3", "panic", "wild"}
        /\ tmp' \in Addr \cup {None}
    BY <1>1, <1>9, <2>2 DEF TypeOK
  <2> QED
    BY <1>13, <1>15, <1>16, <1>18, <1>19, <2>1, <2>3 DEF TypeOK
<1>22. Cardinality(Booted[i]) > 1 => kpd[i] /\ Booted[i] \subseteq pt[i] /\ e \notin Booted[i]
  <2>1. KernelKept
    BY DEF IInv
  <2>2. Cardinality(Booted[i]) > 1 => e \notin Booted[i]
    BY <1>1, <1>2, <1>3, <1>4, <1>6 DEF FirstNotBooted
  <2> QED
    BY <1>6, <2>1, <2>2 DEF KernelKept
<1>23. Counted' /\ AbsentFree' /\ FirstNotBooted'
  <2>1. \A j \in Table : j # i => /\ \A f \in Entry : held'[<<j, f>>] = held[<<j, f>>]
                                  /\ lost'[j] = lost[j] /\ kpd'[j] = kpd[j]
    BY <1>8, <1>16, <1>18 DEF Addr
  <2>2. new.free + Held(i)' + lost'[i] = set_ptinfo(i).free
    <3>1. lost[i] \in Nat /\ lost' = lost
      BY <1>1, <1>6, <1>8 DEF TypeOK
    <3>2. new.free = m.free - 1
      BY <1>13
    <3> QED
      BY <1>6, <1>10, <1>16, <3>1, <3>2
  <2>3. new.free > 0 /\ Cardinality(Booted[i]) > 1 => new.first_free \notin Booted[i]
    BY <1>14, <1>17, <1>22
  <2>4. new.pdi = i
    BY <1>13
  <2> QED
    BY <1>1, <1>6, <1>15, <1>18, <2>1, <2>2, <2>3, <2>4, PerEntry
<1>24. TableKept'
  <2> SUFFICES ASSUME NEW b \in Addr, held'[b] > 0
               PROVE  kpd'[b[1]]
    BY DEF TableKept
  <2>1. b[1] \in Table
    BY DEF Addr
  <2>2. CASE b = <<i, e>>
    BY <1>18, <2>2
  <2>3. CASE b # <<i, e>>
    <3>1. kpd[b[1]]
      BY <1>16, <2>3 DEF IInv, TableKept
    <3> QED
      BY <1>18, <2>1, <3>1
  <2> QED
    BY <2>2, <2>3
<1>25. Accounted'
  <2>1. Cardinality(Present') = IF kpd[i] THEN Cardinality(Present) ELSE Cardinality(Present) + 1
    BY <1>1, <1>6, <1>13, PresentMore
  <2>2. ~ failed => pfree + Cardinality(InUse(Addr)) + Cardinality(Present)
                      = Pages + Cardinality(Given)
    BY AccountedIs DEF IInv
  <2>3. Given' = Given
    BY DEF Given
  <2>4. pfree \in Nat /\ failed \in BOOLEAN
    BY <1>1 DEF TypeOK
  <2>5. ~ failed' => ~ failed /\ pfree' = pfree - PagesOf(m)
    <3>1. ~ failed' => ~ failed /\ ~ (pfree < PagesOf(m))
      BY <1>8, Zenon
    <3>2. ~ (pfree < PagesOf(m)) => pfree >= PagesOf(m)
      BY <1>20, <2>4
    <3> QED
      BY <1>8, <3>1, <3>2, Zenon
  <2>6. ~ failed' => pfree' + Cardinality(InUse(Addr)') + Cardinality(Present')
                       = Pages + Cardinality(Given)
    BY <1>13, <1>16, <2>1, <2>2, <2>4, <2>5, PresentNat, GivenNat
  <2> QED
    BY <2>6 DEF Accounted, Present, Given
<1>26. KernelKept'
  <2> SUFFICES ASSUME NEW j \in Table, Cardinality(Booted[j]) > 1
               PROVE  /\ kpd'[j] /\ Booted[j] \subseteq pt'[j]
                      /\ \A f \in Booted[j] : held'[<<j, f>>] = 0
    BY DEF KernelKept
  <2>1. kpd[j] /\ Booted[j] \subseteq pt[j] /\ \A f \in Booted[j] : held[<<j, f>>] = 0
    BY DEF IInv, KernelKept
  <2>2. kpd'[j]
    BY <1>18, <2>1
  <2>3. Booted[j] \subseteq pt'[j]
    BY <1>17, <1>19, <1>22, <2>1
  <2>4. \A f \in Booted[j] : <<j, f>> \in Addr /\ <<j, f>> # <<i, e>>
    BY <1>22 DEF Addr
  <2> QED
    BY <1>16, <2>1, <2>2, <2>3, <2>4
<1>27. WindowHeld'
  <2>1. <<i, e>> \in Addr
    BY <1>6 DEF Addr
  <2>2. CASE pc = "run"
    BY <1>9, <2>2 DEF WindowHeld
  <2>3. CASE pc = "vmap1"
    <3>1. tmp' = <<i, e>>
      BY <1>9, <2>3
    <3> QED
      BY <1>16, <2>1, <3>1 DEF WindowHeld
  <2>4. CASE pc = "vmap2"
    <3>1. tmp \in Addr /\ held[tmp] > 0 /\ tmp' = tmp
      BY <1>9, <2>4 DEF IInv, WindowHeld
    <3>2. held'[tmp] > 0
      BY <1>16, <3>1
    <3> QED
      BY <3>1, <3>2 DEF WindowHeld
  <2> QED
    BY <1>9, <2>2, <2>3, <2>4
<1> QED
  BY <1>15, <1>16, <1>21, <1>23, <1>24, <1>25, <1>26, <1>27 DEF IInv
\* An address is a table and an entry.
LEMMA AddrPair ==
  ASSUME NEW a \in Addr
  PROVE  \E i \in Table, e \in Entry : a = <<i, e>>
<1>1. a = <<a[1], a[2]>> /\ a[1] \in Table /\ a[2] \in Entry
  BY DEF Addr
<1> QED
  BY <1>1

\* A table with an address in use has uses.
HeldPositive == \A i \in Table, e \in Entry : held[<<i, e>>] > 0 => Held(i) > 0

LEMMA HeldIsPositive ==
  TypeOK /\ IsFiniteSet(InUse(Addr)) => HeldPositive
BY HeldNat DEF HeldPositive

\* vfree: an entry less is in use; its table goes with the last.
LEMMA VfreeStep ==
  ASSUME IInv, NEW a \in Addr, vfree(a)
  PROVE  IInv'
<1> USE Constants
<1>1. TypeOK /\ Permuted /\ Counted /\ AbsentFree /\ FirstNotBooted /\ IsFiniteSet(InUse(Addr))
  BY DEF IInv
<1>2. PICK i \in Table, e \in Entry : a = <<i, e>>
  BY AddrPair
<1>3. a[1] = i /\ a[2] = e
  BY <1>2
<1>4. PICK idx \in Table : idx = get_idx(i) /\ ptmeta[idx].pdi = i
  BY <1>1, IdxIs DEF Permuted
<1>5. PICK m \in InfoType : m = ptmeta[idx]
  BY <1>1 DEF TypeOK
<1>6. m.pdi = i /\ m.free \in Nat /\ m.first_free \in 0 .. Entries /\ e \in 0 .. Entries
  BY <1>4, <1>5 DEF InfoType, Entry
<1>7. held[<<i, e>>] > 0
  BY <1>2 DEF vfree, CallsVfree, IInv, WindowHeld
<1> DEFINE n == m.free + 1
           new == [free |-> n, pdi |-> i,
                   first_free |-> IF n = Entries THEN 0
                                  ELSE IF m.free = 0 \/ e < m.first_free THEN e ELSE m.first_free]
<1>8. /\ ptmeta_first_free' = IF m.free = 0 /\ idx < ptmeta_first_free THEN i ELSE ptmeta_first_free
      /\ ptmeta' = Sift([ptmeta EXCEPT ![idx] = new], idx)
      /\ kpd' = [kpd EXCEPT ![i] = @ /\ n # Entries]
      /\ pt' = [pt_unmap(a) EXCEPT ![i] = IF n = Entries THEN {} ELSE @]
      /\ pfree' = pfree + IF n = Entries THEN 2 ELSE 1
      /\ held' = [held EXCEPT ![<<i, e>>] = @ - 1]
  BY <1>2, <1>3, <1>4, <1>5, <1>6 DEF vfree, Vfree
<1>9. pc' = "run" /\ tmp' = None /\ UNCHANGED <<lost, failed>>
  BY DEF vfree
<1>10. /\ IsFiniteSet(InUse(Addr)') /\ Cardinality(InUse(Addr)) \in Nat
       /\ Cardinality(InUse(Addr)') = Cardinality(InUse(Addr)) - 1
       /\ Held(i) \in Nat /\ Held(i) > 0 /\ Held(i)' = Held(i) - 1
       /\ held' \in [Addr -> Nat] /\ \A b \in Addr : held'[b] <= held[b]
       /\ \A b \in Addr : b # <<i, e>> => held'[b] = held[b]
  BY <1>1, <1>7, <1>8, UseLess
<1>11. m.free + Held(i) + lost[i] = set_ptinfo(i).free /\ lost[i] \in Nat
  BY <1>1, <1>4, <1>5 DEF Counted, TypeOK
<1>12. set_ptinfo(i).free \in Nat /\ set_ptinfo(i).free <= Entries
       /\ (Cardinality(Booted[i]) > 1 => set_ptinfo(i).free < Entries)
  BY PtInfo
<1>13. n \in Nat /\ n >= 1 /\ n <= Entries
       /\ (n = Entries => Held(i)' = 0)
       /\ (Cardinality(Booted[i]) > 1 => n # Entries)
  BY <1>6, <1>10, <1>11, <1>12
<1>14. new \in InfoType /\ new.pdi = i /\ new.free = n
  BY <1>6, <1>13 DEF InfoType
<1>15. m.free > 0 /\ n # Entries => new.first_free \in {e, m.first_free}
  OBVIOUS
<1>16. m.free = 0 /\ n # Entries => new.first_free = e
  OBVIOUS
<1> HIDE DEF new, n
<1>17. ptmeta' \in [Table -> InfoType] /\ Permuted' /\ NewOrOld(new)
  BY <1>1, <1>4, <1>8, <1>14, Sifted
<1>18. kpd[i]
  BY <1>2, <1>3, <1>7 DEF IInv, TableKept
<1>19. kpd' = [kpd EXCEPT ![i] = (n # Entries)]
  <2>1. (kpd[i] /\ n # Entries) = (n # Entries)
    BY <1>18
  <2> QED
    BY <1>8, <2>1
<1>20. /\ kpd' \in [Table -> BOOLEAN] /\ (kpd'[i] <=> n # Entries)
       /\ \A j \in Table : j # i => kpd'[j] = kpd[j]
  <2>1. kpd \in [Table -> BOOLEAN]
    BY <1>1 DEF TypeOK
  <2> QED
    BY <1>19, <2>1, Zenon
<1>21. /\ pt' \in [Table -> SUBSET Entry] /\ (n # Entries => pt'[i] = pt[i] \ {e})
       /\ \A j \in Table : j # i => pt'[j] = pt[j]
  <2>1. pt_unmap(a) = [pt EXCEPT ![i] = pt[i] \ {e}]
    BY <1>3 DEF pt_unmap
  <2> QED
    BY <1>1, <1>8, <2>1 DEF TypeOK
<1>22. TypeOK'
  <2>1. pfree' \in Nat /\ failed' \in BOOLEAN /\ lost' \in [Table -> Nat]
    BY <1>1, <1>8, <1>9 DEF TypeOK
  <2>2. ptmeta_first_free' \in 0 .. NTables
    BY <1>1, <1>8 DEF TypeOK, Table
  <2> QED
    BY <1>9, <1>10, <1>17, <1>20, <1>21, <2>1, <2>2 DEF TypeOK
<1>23. KernelKept
  BY DEF IInv
<1>24. e \in Booted[i] => ~ (Cardinality(Booted[i]) > 1)
  BY <1>7, <1>23 DEF KernelKept
<1>25. Counted' /\ AbsentFree' /\ FirstNotBooted'
  <2>1. \A j \in Table : j # i => /\ \A f \in Entry : held'[<<j, f>>] = held[<<j, f>>]
                                  /\ lost'[j] = lost[j] /\ kpd'[j] = kpd[j]
    BY <1>9, <1>10, <1>20 DEF Addr
  <2>2. new.free + Held(i)' + lost'[i] = set_ptinfo(i).free
    <3>1. n = m.free + 1
      BY DEF n
    <3> QED
      BY <1>6, <1>9, <1>10, <1>11, <1>14, <3>1
  <2>3. new.free > 0 /\ Cardinality(Booted[i]) > 1 => new.first_free \notin Booted[i]
    <3>1. m.free > 0 /\ Cardinality(Booted[i]) > 1 => m.first_free \notin Booted[i]
      BY <1>1, <1>4, <1>5 DEF FirstNotBooted
    <3> QED
      BY <1>6, <1>13, <1>15, <1>16, <1>24, <3>1
  <2>4. ~ kpd'[i] => new.free = Entries \/ i = NTables - 1
    BY <1>14, <1>20
  <2> QED
    BY <1>1, <1>14, <1>17, <2>1, <2>2, <2>3, <2>4, PerEntry
<1>26. TableKept'
  <2> SUFFICES ASSUME NEW b \in Addr, held'[b] > 0
               PROVE  kpd'[b[1]]
    BY DEF TableKept
  <2>1. PICK j \in Table, f \in Entry : b = <<j, f>>
    BY AddrPair
  <2>2. b[1] = j
    BY <2>1
  <2>3. held[b] > 0
    <3>1. held[b] \in Nat /\ held'[b] \in Nat /\ held'[b] <= held[b]
      BY <1>1, <1>10 DEF TypeOK
    <3> QED
      BY <3>1
  <2>4. CASE j # i
    <3>1. kpd[j]
      BY <2>2, <2>3 DEF IInv, TableKept
    <3> QED
      BY <1>20, <2>2, <2>4, <3>1
  <2>5. CASE j = i
    <3>1. TypeOK' /\ IsFiniteSet(InUse(Addr))'
      BY <1>10, <1>22
    <3>2. Held(i)' > 0
      <4>1. held'[<<i, f>>] > 0
        BY <2>1, <2>5
      <4>2. HeldPositive'
        BY <3>1, HeldIsPositive, PTL
      <4>3. \A x \in Table, g \in Entry : held'[<<x, g>>] > 0 => Held(x)' > 0
        BY <4>2 DEF HeldPositive
      <4> QED
        BY <4>1, <4>3
    <3>3. n # Entries
      BY <1>10, <1>13, <3>2
    <3> QED
      BY <1>20, <2>2, <2>5, <3>3
  <2> QED
    BY <2>4, <2>5
<1>27. Accounted'
  <2>1. ~ failed => pfree + Cardinality(InUse(Addr)) + Cardinality(Present)
                      = Pages + Cardinality(Given)
    BY AccountedIs DEF IInv
  <2>2. n = Entries => Cardinality(Present') = Cardinality(Present) - 1
    <3> SUFFICES ASSUME n = Entries PROVE Cardinality(Present') = Cardinality(Present) - 1
      OBVIOUS
    <3>1. kpd' = [kpd EXCEPT ![i] = FALSE]
      <4>1. (n # Entries) = FALSE
        OBVIOUS
      <4> QED
        BY <1>19, <4>1
    <3> QED
      BY <1>1, <1>18, <3>1, PresentLess
  <2>3. n # Entries => Cardinality(Present') = Cardinality(Present)
    <3>1. n # Entries => Present' = Present
      BY <1>18, <1>20 DEF Present
    <3> QED
      BY <3>1
  <2>4. pfree \in Nat
    BY <1>1 DEF TypeOK
  <2>5. ~ failed => pfree' + Cardinality(InUse(Addr)') + Cardinality(Present')
                       = Pages + Cardinality(Given)
    BY <1>8, <1>10, <2>1, <2>2, <2>3, <2>4, PresentNat, GivenNat
  <2>6. failed' = failed
    BY <1>9
  <2> QED
    BY <2>5, <2>6 DEF Accounted, Present, Given
<1>28. KernelKept'
  <2> SUFFICES ASSUME NEW j \in Table, Cardinality(Booted[j]) > 1
               PROVE  /\ kpd'[j] /\ Booted[j] \subseteq pt'[j]
                      /\ \A f \in Booted[j] : held'[<<j, f>>] = 0
    BY DEF KernelKept
  <2>1. kpd[j] /\ Booted[j] \subseteq pt[j] /\ \A f \in Booted[j] : held[<<j, f>>] = 0
    BY <1>23 DEF KernelKept
  <2>2. kpd'[j]
    BY <1>13, <1>20, <2>1
  <2>3. Booted[j] \subseteq pt'[j]
    BY <1>13, <1>21, <1>24, <2>1
  <2>4. \A f \in Booted[j] : <<j, f>> \in Addr /\ <<j, f>> # <<i, e>>
    BY <1>24 DEF Addr
  <2> QED
    BY <1>10, <2>1, <2>2, <2>3, <2>4
<1>29. WindowHeld'
  BY <1>9 DEF WindowHeld
<1> QED
  BY <1>10, <1>17, <1>22, <1>25, <1>26, <1>27, <1>28, <1>29 DEF IInv
\* vunmap: an entry less is in use, and counted as lost.
LEMMA VunmapStep ==
  ASSUME IInv, NEW a \in Addr, vunmap(a)
  PROVE  IInv'
<1> USE Constants
<1>1. TypeOK /\ Permuted /\ Counted /\ AbsentFree /\ FirstNotBooted /\ IsFiniteSet(InUse(Addr))
  BY DEF IInv
<1>2. PICK i \in Table, e \in Entry : a = <<i, e>>
  BY AddrPair
<1>3. a[1] = i /\ a[2] = e
  BY <1>2
<1>4. /\ pc = "run" /\ held[<<i, e>>] > 0
      /\ pt' = [pt EXCEPT ![i] = pt[i] \ {e}]
      /\ pfree' = pfree + 1
      /\ held' = [held EXCEPT ![<<i, e>>] = @ - 1]
      /\ lost' = [lost EXCEPT ![i] = @ + 1]
      /\ UNCHANGED <<pc, ptmeta, ptmeta_first_free, kpd, tmp, failed>>
  BY <1>2, <1>3 DEF vunmap, pt_unmap
<1>5. PICK idx \in Table : ptmeta[idx].pdi = i
  BY <1>1 DEF Permuted, EveryTableFound
<1>6. PICK m \in InfoType : m = ptmeta[idx]
  BY <1>1 DEF TypeOK
<1>7. /\ IsFiniteSet(InUse(Addr)') /\ Cardinality(InUse(Addr)) \in Nat
      /\ Cardinality(InUse(Addr)') = Cardinality(InUse(Addr)) - 1
      /\ Held(i) \in Nat /\ Held(i) > 0 /\ Held(i)' = Held(i) - 1
      /\ held' \in [Addr -> Nat] /\ \A b \in Addr : held'[b] <= held[b]
      /\ \A b \in Addr : b # <<i, e>> => held'[b] = held[b]
  BY <1>1, <1>4, UseLess
<1>8. /\ lost' \in [Table -> Nat] /\ lost'[i] = lost[i] + 1 /\ lost[i] \in Nat
      /\ \A j \in Table : j # i => lost'[j] = lost[j]
  BY <1>1, <1>4 DEF TypeOK
<1>9. /\ pt' \in [Table -> SUBSET Entry] /\ pt'[i] = pt[i] \ {e}
      /\ \A j \in Table : j # i => pt'[j] = pt[j]
  BY <1>1, <1>4 DEF TypeOK
<1>10. TypeOK'
  <2>1. pfree' \in Nat
    BY <1>1, <1>4 DEF TypeOK
  <2> QED
    BY <1>1, <1>4, <1>7, <1>8, <1>9, <2>1 DEF TypeOK
<1>11. Permuted'
  BY <1>1, <1>4 DEF Permuted, EveryTableFound
<1>12. Counted' /\ AbsentFree' /\ FirstNotBooted'
  <2>1. \A j \in Table : j # i => /\ \A f \in Entry : held'[<<j, f>>] = held[<<j, f>>]
                                  /\ lost'[j] = lost[j] /\ kpd'[j] = kpd[j]
    BY <1>4, <1>7, <1>8 DEF Addr
  <2>2. m.free \in Nat /\ m.pdi = i
    BY <1>5, <1>6 DEF InfoType
  <2>3. m.free + Held(i) + lost[i] = set_ptinfo(i).free
    BY <1>1, <1>5, <1>6 DEF Counted
  <2>4. m.free + Held(i)' + lost'[i] = set_ptinfo(i).free
    BY <1>7, <1>8, <2>2, <2>3
  <2>5. m.free > 0 /\ Cardinality(Booted[i]) > 1 => m.first_free \notin Booted[i]
    BY <1>1, <1>5, <1>6 DEF FirstNotBooted
  <2>6. ~ kpd'[i] => m.free = Entries \/ i = NTables - 1
    BY <1>1, <1>4, <1>5, <1>6 DEF AbsentFree
  <2>7. NewOrOld(m)
    <3>1. \A k \in Table : k # idx => ptmeta[k].pdi # m.pdi
      BY <1>1, <1>6 DEF Permuted
    <3> QED
      BY <1>4, <1>6, <3>1 DEF NewOrOld
  <2> QED
    BY <1>1, <2>1, <2>2, <2>4, <2>5, <2>6, <2>7, PerEntry
<1>13. TableKept'
  <2> SUFFICES ASSUME NEW b \in Addr, held'[b] > 0
               PROVE  kpd'[b[1]]
    BY DEF TableKept
  <2>1. held[b] \in Nat /\ held'[b] \in Nat /\ held'[b] <= held[b]
    BY <1>1, <1>7 DEF TypeOK
  <2>2. held[b] > 0
    BY <2>1
  <2>3. kpd[b[1]]
    BY <2>2 DEF IInv, TableKept
  <2> QED
    BY <1>4, <2>3
<1>14. Accounted'
  <2>1. ~ failed => pfree + Cardinality(InUse(Addr)) + Cardinality(Present)
                      = Pages + Cardinality(Given)
    BY AccountedIs DEF IInv
  <2>2. Present' = Present /\ failed' = failed
    BY <1>4 DEF Present
  <2>3. pfree \in Nat
    BY <1>1 DEF TypeOK
  <2>4. ~ failed => pfree' + Cardinality(InUse(Addr)') + Cardinality(Present')
                      = Pages + Cardinality(Given)
    BY <1>4, <1>7, <2>1, <2>2, <2>3, PresentNat, GivenNat
  <2> QED
    BY <2>2, <2>4 DEF Accounted, Present, Given
<1>15. KernelKept'
  <2> SUFFICES ASSUME NEW j \in Table, Cardinality(Booted[j]) > 1
               PROVE  /\ kpd'[j] /\ Booted[j] \subseteq pt'[j]
                      /\ \A f \in Booted[j] : held'[<<j, f>>] = 0
    BY DEF KernelKept
  <2>1. kpd[j] /\ Booted[j] \subseteq pt[j] /\ \A f \in Booted[j] : held[<<j, f>>] = 0
    BY DEF IInv, KernelKept
  <2>2. j = i => e \notin Booted[j]
    BY <1>4, <2>1
  <2>3. \A f \in Booted[j] : <<j, f>> \in Addr /\ <<j, f>> # <<i, e>>
    BY <2>2 DEF Addr
  <2> QED
    BY <1>4, <1>7, <1>9, <2>1, <2>2, <2>3
<1>16. WindowHeld'
  BY <1>4 DEF WindowHeld
<1> QED
  BY <1>7, <1>10, <1>11, <1>12, <1>13, <1>14, <1>15, <1>16 DEF IInv

LEMMA StepInv ==
  ASSUME IInv, [Next]_vars
  PROVE  IInv'
<1> USE DEF histVars
<1>1. TypeOK /\ WindowHeld
  BY DEF IInv
<1>2. ASSUME valloc_none PROVE IInv'
  <2>1. TypeOK' /\ WindowHeld'
    BY <1>1, <1>2 DEF TypeOK, WindowHeld, valloc_none, CallsValloc
  <2> QED
    BY <1>2, <2>1, Quiet DEF valloc_none
<1>3. ASSUME valloc_assert PROVE IInv'
  <2>1. TypeOK' /\ WindowHeld'
    BY <1>1, <1>3 DEF TypeOK, WindowHeld, valloc_assert
  <2> QED
    BY <1>3, <2>1, Quiet DEF valloc_assert
<1>4. ASSUME valloc_wild PROVE IInv'
  <2>1. TypeOK' /\ WindowHeld'
    BY <1>1, <1>4 DEF TypeOK, WindowHeld, valloc_wild
  <2> QED
    BY <1>4, <2>1, Quiet DEF valloc_wild
<1>5. ASSUME vmap PROVE IInv'
  <2>1. TypeOK' /\ WindowHeld'
    BY <1>1, <1>5 DEF TypeOK, WindowHeld, vmap
  <2> QED
    BY <1>5, <2>1, Quiet DEF vmap
<1>6. ASSUME UNCHANGED vars PROVE IInv'
  <2>1. TypeOK' /\ WindowHeld'
    BY <1>1, <1>6 DEF TypeOK, WindowHeld, vars
  <2> QED
    BY <1>6, <2>1, Quiet DEF vars
<1> QED
  BY <1>2, <1>3, <1>4, <1>5, <1>6, VinitStep, VallocStep, VfreeStep, VunmapStep
  DEF Next, Stopped

-----------------------------------------------------------------------------
(* What holds in every state.                                              *)

\* The inductive invariant, for every number of tables and entries, every
\* layout stage 2 may leave and every number of pages.
THEOREM Invariant == Spec => []IInv
<1>1. Init => IInv
  BY InitInv
<1>2. IInv /\ [Next]_vars => IInv'
  BY StepInv
<1> QED
  BY <1>1, <1>2, PTL DEF Spec

\* get_idx's assert(0) is out of reach, and the counts of free entries are
\* exact, however vfree's loop reorders ptmeta and although vfree confuses an
\* index with a table's number.
THEOREM EveryTableCountedHolds == Spec => []EveryTableCounted
<1>1. IInv => EveryTableCounted
  BY DEF IInv, Permuted, EveryTableCounted
<1> QED
  BY <1>1, Invariant, PTL

\* No address in use loses its page table to vfree.
THEOREM TableKeptHolds == Spec => []TableKept
<1>1. IInv => TableKept
  BY DEF IInv
<1> QED
  BY <1>1, Invariant, PTL

\* kmain's comparison of page counts would succeed at any moment, unless the
\* page allocator has been empty.
THEOREM AccountedHolds == Spec => []Accounted
<1>1. IInv => Accounted
  BY DEF IInv
<1> QED
  BY <1>1, Invariant, PTL

\* vfree does not unmap, and valloc does not hand out, what stage 2 mapped in a
\* table with more than one entry in use.
THEOREM KernelKeptHolds == Spec => []KernelKept
<1>1. IInv => KernelKept
  BY DEF IInv
<1> QED
  BY <1>1, Invariant, PTL
=============================================================================
