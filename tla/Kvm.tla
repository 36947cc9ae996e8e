-------------------------------- MODULE Kvm --------------------------------
(***************************************************************************)
(* The virtual page allocator: vinit, valloc, vfree, vmap and vunmap of    *)
(* stage3/mem/kmalloc.cpp over the page tables (stage3/mem/vaddr.cpp) and  *)
(* the page allocator (Pmm, of which only the number of free pages is      *)
(* kept).                                                                  *)
(*                                                                         *)
(* An address is a table and an entry of it.  Page frames are not told     *)
(* apart.  The callers free what they were given, once; a page that        *)
(* becomes a page table is not cleared and may hold anything.              *)
(***************************************************************************)
EXTENDS Integers, FiniteSets, FiniteSetsExt, Functions

CONSTANTS
  NTables,   \* entries of ptmeta; the last is the recursive mapping
  Entries,   \* entries of a page table
  Booted,    \* what stage 2 has mapped: the entries in use of each table
  Pages,     \* pages the page allocator has free when vinit is called
  MaxUnmap,  \* bound on the calls of vunmap
  None       \* no address

Table == 0 .. NTables - 1
Entry == 0 .. Entries - 1
Addr  == Table \X Entry

ASSUME KvmAssumption ==
  /\ NTables \in Nat \ {0} /\ Entries \in Nat /\ Entries >= 2
  /\ Booted \in [Table -> SUBSET Entry]
  /\ Pages \in Nat /\ MaxUnmap \in Nat /\ None \notin Addr

VARIABLES
  pc,                  \* the caller, or how far vmap is
  ptmeta,              \* [free, pdi, first_free] for each table, by free
  ptmeta_first_free,   \* the index in ptmeta that valloc takes from
  kpd,                 \* whether a table is present
  pt,                  \* the present entries of each table
  pfree,               \* pages the page allocator counts as free
  tmp,                 \* vmap's window
  held,                \* history: how often each address is in use
  lost,                \* history: addresses of each table given to vunmap
  failed               \* history: whether the page allocator was ever empty

histVars == <<held, lost, failed>>
vars == <<pc, ptmeta, ptmeta_first_free, kpd, pt, pfree, tmp, histVars>>

InfoType == [free : 0 .. Entries, pdi : Table, first_free : 0 .. Entries]

TypeOK ==
  /\ pc \in {"vinit", "run", "vmap1", "vmap2", "vmap3", "panic", "wild"}
  /\ ptmeta \in [Table -> InfoType]
  /\ ptmeta_first_free \in 0 .. NTables
  /\ kpd \in [Table -> BOOLEAN] /\ pt \in [Table -> SUBSET Entry]
  /\ pfree \in Nat /\ tmp \in Addr \cup {None}
  /\ held \in [Addr -> Nat] /\ lost \in [Table -> Nat] /\ failed \in BOOLEAN

-----------------------------------------------------------------------------
(* vinit                                                                   *)

\* What set_ptinfo finds in a table.  The first free entry is counted by both
\* of its loops.
set_ptinfo(i) ==
  LET empty == Entry \ Booted[i]
  IN  IF i = NTables - 1 \/ empty = {}
      THEN [free |-> 0, pdi |-> i, first_free |-> 0]
      ELSE IF Booted[i] = {}
           THEN [free |-> Entries, pdi |-> i, first_free |-> 0]
           ELSE [free |-> Cardinality(empty) + 1, pdi |-> i, first_free |-> Min(empty)]

Init ==
  /\ pc = "vinit"
  /\ ptmeta = [i \in Table |-> set_ptinfo(i)] /\ ptmeta_first_free = 0
  /\ kpd = [i \in Table |-> Booted[i] # {}] /\ pt = Booted
  /\ pfree = Pages /\ tmp = None
  /\ held = [a \in Addr |-> 0] /\ lost = [i \in Table |-> 0] /\ failed = FALSE

\* The tables ordered by their free entries, equal ones in any order, as the
\* gap sequence leaves them; valloc starts at the first that has any.
vinit ==
  /\ pc = "vinit"
  /\ \E p \in Bijection(Table, Table) :
       /\ \A i, j \in Table : i < j => ptmeta[p[i]].free <= ptmeta[p[j]].free
       /\ ptmeta' = [i \in Table |-> ptmeta[p[i]]]
       /\ ptmeta_first_free' = Cardinality({i \in Table : ptmeta[i].free = 0})
  /\ pc' = "run"
  /\ UNCHANGED <<kpd, pt, pfree, tmp, histVars>>

-----------------------------------------------------------------------------
(* valloc                                                                  *)

\* Mutant: the search takes the first entry it looks at.
NextFree_blind(entries) == 1

\* The search of update_first_free starts at entry 1 and is made before the
\* page being allocated is mapped.
NextFree(entries) ==
  LET empty == {e \in Entry \ {0} : e \notin entries}
  IN  IF empty = {} THEN Entries ELSE Min(empty)

\* The entries update_first_free finds in a table: those of a page nobody has
\* cleared when it has just made it one.
Found(i) == IF kpd[i] THEN {pt[i]} ELSE SUBSET Entry

\* Where vmap goes on after an allocation.
AfterAlloc(a) ==
  /\ pc' = CASE pc = "run" -> "run" [] pc = "vmap1" -> "vmap2" [] pc = "vmap2" -> "vmap3"
  /\ tmp' = IF pc = "vmap1" THEN a ELSE tmp

CallsValloc == pc \in {"run", "vmap1", "vmap2"}
Current     == ptmeta[ptmeta_first_free]

\* pmm_alloc_ppage called n times: an empty allocator changes nothing.
PmmAlloc(n) ==
  /\ pfree' = IF pfree >= n THEN pfree - n ELSE 0
  /\ failed' = (failed \/ pfree < n)

\* A page table is needed for the rest of the entries and there is no page:
\* the table becomes whatever is at the last address.
NeedsTable(m) == m.free > 1 /\ ~ kpd[m.pdi]

\* valloc without its early return and failures: how many pages it takes, and
\* how many entries it leaves.
Valloc(pages, left) ==
  /\ CallsValloc /\ ptmeta_first_free < NTables
  /\ Current.free # 0 /\ Current.first_free < Entries
  /\ ~ (NeedsTable(Current) /\ pfree = 0)
  /\ LET m == Current
         a == <<m.pdi, m.first_free>>
     IN  /\ PmmAlloc(pages)
         /\ held' = [held EXCEPT ![a] = @ + 1]
         /\ AfterAlloc(a)
         /\ IF m.free > 1
            THEN \E entries \in Found(m.pdi) :
                   /\ ptmeta' = [ptmeta EXCEPT ![ptmeta_first_free] =
                        [free |-> left, pdi |-> m.pdi, first_free |-> NextFree(entries)]]
                   /\ kpd' = [kpd EXCEPT ![m.pdi] = TRUE]
                   /\ pt' = [pt EXCEPT ![m.pdi] = entries \cup {m.first_free}]
                   /\ UNCHANGED ptmeta_first_free
            ELSE /\ ptmeta' = [ptmeta EXCEPT ![ptmeta_first_free] =
                        [free |-> 0, pdi |-> m.pdi, first_free |-> m.first_free]]
                 /\ ptmeta_first_free' = ptmeta_first_free + 1
                 /\ pt' = [pt EXCEPT ![m.pdi] = @ \cup {m.first_free}]
                 /\ UNCHANGED kpd
  /\ UNCHANGED lost

PagesOf(m) == IF NeedsTable(m) THEN 2 ELSE 1

\* Mutants: the free entries are not counted down; the page of a new table is
\* not taken from the allocator.
valloc_kept == Valloc(PagesOf(Current), Current.free)
valloc_tableless == Valloc(1, Current.free - 1)

valloc == Valloc(PagesOf(Current), Current.free - 1)

\* No table has a free entry: valloc returns 0xFFFFFFFF, and vmap would go on
\* to map it, over the page directory's own entry.
valloc_none ==
  /\ CallsValloc /\ ptmeta_first_free = NTables
  /\ pc' = IF pc = "run" THEN "run" ELSE "wild"
  /\ UNCHANGED <<ptmeta, ptmeta_first_free, kpd, pt, pfree, tmp, histVars>>

\* The assertions of valloc.
valloc_assert ==
  /\ CallsValloc /\ ptmeta_first_free < NTables
  /\ Current.free = 0 \/ Current.first_free = Entries
  /\ pc' = "panic"
  /\ UNCHANGED <<ptmeta, ptmeta_first_free, kpd, pt, pfree, tmp, histVars>>

\* update_first_free without a page for the table.
valloc_wild ==
  /\ CallsValloc /\ ptmeta_first_free < NTables
  /\ Current.free # 0 /\ Current.first_free < Entries
  /\ NeedsTable(Current) /\ pfree = 0
  /\ pc' = "wild"
  /\ UNCHANGED <<ptmeta, ptmeta_first_free, kpd, pt, pfree, tmp, histVars>>

-----------------------------------------------------------------------------
(* vfree, vmap, vunmap                                                     *)

get_idx(i) == CHOOSE k \in Table : ptmeta[k].pdi = i

\* Mutant: the entry is copied down, and what it passes is forgotten.
Sift_copy(meta, k) ==
  LET last == Max({n \in k .. NTables - 1 : \A j \in k + 1 .. n : meta[j].free < meta[k].free})
  IN  [meta EXCEPT ![last] = meta[k]]

\* The loop that ends vfree: entry k moves behind those with fewer free ones.
Sift(meta, k) ==
  LET last == Max({n \in k .. NTables - 1 : \A j \in k + 1 .. n : meta[j].free < meta[k].free})
  IN  [j \in Table |-> CASE j \in k .. last - 1 -> meta[j + 1]
                         [] j = last -> meta[k]
                         [] OTHER -> meta[j]]

\* pt_unmap: the entry is no longer present.
pt_unmap(a) == [pt EXCEPT ![a[1]] = @ \ {a[2]}]

\* The effect of vfree, with the number of free entries at which the table is
\* given back.  An index of ptmeta is compared, a table's number stored.
\* vfree's assertion, that no more than Entries are free, is part of TypeOK.
Vfree(a, whole) ==
  LET i   == a[1]
      e   == a[2]
      idx == get_idx(i)
      m   == ptmeta[idx]
      n   == m.free + 1
      new == [free |-> n, pdi |-> m.pdi,
              first_free |-> IF n = whole THEN 0
                             ELSE IF m.free = 0 \/ e < m.first_free THEN e ELSE m.first_free]
  IN  /\ ptmeta_first_free' = IF m.free = 0 /\ idx < ptmeta_first_free THEN i
                              ELSE ptmeta_first_free
      /\ ptmeta' = Sift([ptmeta EXCEPT ![idx] = new], idx)
      /\ kpd' = [kpd EXCEPT ![i] = @ /\ n # whole]
      /\ pt' = [pt_unmap(a) EXCEPT ![i] = IF n = whole THEN {} ELSE @]
      /\ pfree' = pfree + IF n = whole THEN 2 ELSE 1
      /\ held' = [held EXCEPT ![a] = @ - 1]

\* vmap's own vfree, which ends it, is that of its window.
CallsVfree(a) == (pc = "run" /\ held[a] > 0) \/ (pc = "vmap3" /\ a = tmp)

\* Mutant: the table is given back with one entry still in use.
vfree_early(a) ==
  /\ CallsVfree(a)
  /\ Vfree(a, Entries - 1)
  /\ pc' = "run" /\ tmp' = None
  /\ UNCHANGED <<lost, failed>>

vfree(a) ==
  /\ CallsVfree(a)
  /\ Vfree(a, Entries)
  /\ pc' = "run" /\ tmp' = None
  /\ UNCHANGED <<lost, failed>>

\* vmap allocates a window and a page, copies the block through the window,
\* puts the window's own page back and frees it.
vmap ==
  /\ pc = "run" /\ pc' = "vmap1"
  /\ UNCHANGED <<ptmeta, ptmeta_first_free, kpd, pt, pfree, tmp, histVars>>

\* vunmap frees the page, and leaves ptmeta as it is.
vunmap(a) ==
  /\ pc = "run" /\ held[a] > 0
  /\ SumFunction(lost) < MaxUnmap
  /\ pt' = pt_unmap(a)
  /\ pfree' = pfree + 1
  /\ held' = [held EXCEPT ![a] = @ - 1]
  /\ lost' = [lost EXCEPT ![a[1]] = @ + 1]
  /\ UNCHANGED <<pc, ptmeta, ptmeta_first_free, kpd, tmp, failed>>

Stopped == pc \in {"panic", "wild"} /\ UNCHANGED vars

Next ==
  \/ vinit \/ valloc \/ valloc_none \/ valloc_assert \/ valloc_wild \/ vmap
  \/ \E a \in Addr : vfree(a)
  \/ \E a \in Addr : vunmap(a)
  \/ Stopped

Spec == Init /\ [][Next]_vars

-----------------------------------------------------------------------------
\* The uses of a set of addresses, told apart by a number, and how many of them
\* are in a table.
InUse(S) == UNION {{a} \X (1 .. held[a]) : a \in S}
Held(i) == Cardinality(InUse({i} \X Entry))

\* Every table is in ptmeta.
EveryTableFound == \A i \in Table : \E k \in Table : ptmeta[k].pdi = i

\* What it has there is off by exactly the addresses in use.
Counted ==
  \A i, k \in Table : ptmeta[k].pdi = i =>
    ptmeta[k].free + Held(i) + lost[i] = set_ptinfo(i).free

\* get_idx finds every table, whatever vfree's loop has moved, so that its final
\* assert(0) is out of reach, and a table's count of free entries is off by
\* exactly the addresses valloc has handed out and vfree has not taken back, in
\* whatever order, and although ptmeta is reordered under way.
EveryTableCounted == EveryTableFound /\ Counted

\* An address in use has a page table: vfree gives none back too early and
\* valloc maps nothing where pt_map would refuse.
TableKept == \A a \in Addr : held[a] > 0 => kpd[a[1]]

\* kmain's assert(free_pages == pmm_free_pages()), in every state: unless the
\* page allocator ran out, its pages are free, in use, or page tables - in
\* number, also where valloc hands out an address twice and vfree frees it
\* twice.  (Which pages they are is another matter: the first of two pages
\* mapped at one address is nowhere any more.)
Accounted ==
  ~ failed =>
    pfree + Cardinality(InUse(Addr)) + Cardinality({i \in Table : kpd[i]})
      = Pages + Cardinality({i \in Table : Booted[i] # {}})

\* What stage 2 mapped is not unmapped and not handed out, except where it is
\* the only entry of its table: vinit then counts the table as empty, and vfree
\* frees it.
KernelKept ==
  \A i \in Table : Cardinality(Booted[i]) > 1 =>
    /\ kpd[i] /\ Booted[i] \subseteq pt[i]
    /\ \A e \in Booted[i] : held[<<i, e>>] = 0

\* ptmeta has every table once, in whatever order.
Permuted == EveryTableFound /\ \A k, l \in Table : ptmeta[k].pdi = ptmeta[l].pdi => k = l

\* A table that is not present has nothing but free entries.  (The recursive
\* mapping's has none to give.)
AbsentFree == \A k \in Table :
  ~ kpd[ptmeta[k].pdi] => ptmeta[k].free = Entries \/ ptmeta[k].pdi = NTables - 1

\* What valloc would hand out next is not stage 2's.
FirstNotBooted == \A k \in Table :
  ptmeta[k].free > 0 /\ Cardinality(Booted[ptmeta[k].pdi]) > 1 =>
    ptmeta[k].first_free \notin Booted[ptmeta[k].pdi]

\* vmap's window is in use until vmap frees it.
WindowHeld == pc \in {"vmap2", "vmap3"} => tmp \in Addr /\ held[tmp] > 0

\* The invariant the proofs are by induction on.
IInv ==
  /\ TypeOK /\ IsFiniteSet(InUse(Addr))
  /\ Permuted /\ Counted /\ AbsentFree /\ TableKept /\ Accounted
  /\ FirstNotBooted /\ KernelKept /\ WindowHeld

\* kmalloc.h, "Allocate virtual page": an address valloc returns is not in use.
Fresh == \A a \in Addr : held'[a] > held[a] => held[a] = 0
AllocFresh == [][Fresh]_vars
=============================================================================
