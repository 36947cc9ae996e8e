------------------------------- MODULE Stage2 -------------------------------
(***************************************************************************)
(* Stage 2 from pt_init to the jump into the kernel: palloc and pt_map     *)
(* (stage2/pt.c), the ELF loader (stage2/elf.c) and bmain (stage2/stage2.c)*)
(* - and what the kernel's pmm_init (stage3/mem/pmm.cpp) then makes of the *)
(* memory map that palloc has been shrinking.                              *)
(*                                                                         *)
(* An address is a number, a page is PageSize of them and is named by its  *)
(* number.  A kernel image is the part of its headers the loader looks at. *)
(* Stage 2 is one thread with interrupts off; the file system may fail at  *)
(* any call.                                                               *)
(***************************************************************************)
EXTENDS MemMap, FiniteSets, Functions

CONSTANTS
  PtEntries,   \* pages that a page table maps
  Maps,        \* what validate may leave, see MapOK
  Images,      \* kernel.elf, see ImageOK
  Stack,       \* the page below NEW_STACK
  DiskErrors,  \* whether a call of the file system may fail
  None         \* an entry that is not present

\* What the loader looks at in a section header (SHT_NOBITS, SHF_ALLOC, sh_addr,
\* sh_size) and in a program header (PT_LOAD, p_vaddr, p_filesz, p_memsz, and
\* the low half of p_paddr), and the tables the ELF header points to.
Elf32_Shdr == [nobits : BOOLEAN, alloc : BOOLEAN, addr : Nat, size : Nat]
Elf32_Phdr == [load : BOOLEAN, vaddr : Nat, filesz : Nat, memsz : Nat, plow : Nat]
Elf32_Ehdr == [sections : Seq(Elf32_Shdr), segments : Seq(Elf32_Phdr)]

\* A section that has to be mapped although the file holds nothing of it.
Empty(shdr) == shdr.nobits /\ shdr.size # 0 /\ shdr.alloc

\* As stage3.ld links it: .bss and segments start on a page, what a segment has
\* in memory beyond the last page of its contents is .bss, and the low half of
\* the first segment's p_paddr is zero.  Other sections may start anywhere.
ImageOK(image) ==
  /\ image \in Elf32_Ehdr
  /\ \A s \in 1 .. Len(image.sections) :
       Empty(image.sections[s]) => image.sections[s].addr % PageSize = 0
  /\ \A s \in 1 .. Len(image.segments) :
       LET phdr == image.segments[s]
       IN  /\ phdr.vaddr % PageSize = 0 /\ phdr.filesz <= phdr.memsz
           /\ \A a \in RoundUp(phdr.vaddr + phdr.filesz) .. phdr.vaddr + phdr.memsz - 1 :
                \E k \in 1 .. Len(image.sections) :
                  LET shdr == image.sections[k]
                  IN  Empty(shdr) /\ a \in shdr.addr .. shdr.addr + shdr.size - 1
  /\ image.segments[1].plow = 0

\* The regions before the first that is not RAM, and their pages.
RamIndex(map) == {k \in 1 .. Len(map) : \A j \in 1 .. k : map[j].type = 1}
Ram(map) == {map[k] : k \in RamIndex(map)}
Lo(r) == r.base \div PageSize
Hi(r) == RoundUp(r.base + r.length) \div PageSize
PagesOf(r) == Lo(r) .. Hi(r) - 1
Pages(map) == UNION {PagesOf(r) : r \in Ram(map)}

\* The pages pmm_init lists: it steps through every region of RAM while the
\* address is below the end.  At the top the end wraps to 0, so that nothing is
\* listed, and just below the top the address does, so that the loop goes on
\* through all of memory and never ends.
ListedOf(r) ==
  LET end == (r.base + r.length) % Top
  IN  IF end > Top - PageSize /\ r.base < end
      THEN 0 .. (Top \div PageSize) - 1
      ELSE {p \in PagesOf(r) : p * PageSize < end}
Listed(map) == UNION {ListedOf(r) : r \in Ram(map)}

ASSUME Stage2Assumption ==
  /\ PageSize \in Nat \ {0} /\ PtEntries \in Nat \ {0}
  /\ Top \in Nat /\ Top > PageSize /\ Top % PageSize = 0
  /\ \A map \in Maps : MapOK(map) /\ None \notin Pages(map)
  /\ DiskErrors \in BOOLEAN /\ Stack \in Nat
  /\ \A image \in Images : ImageOK(image)

VARIABLES
  pc,              \* where stage 2 is
  file,            \* the kernel image on the disk
  map0,            \* history: the memory map that validate left
  e820,            \* the memory map
  entries_index,   \* the region palloc takes from
  entry_addr,      \* where in it
  pd, pt,          \* page directory and page tables: a page or None
  i, e_phnum,      \* the loader's loops: round, and the field of hdr
  start, size, bytesread,   \* the loop over pages: its base, bound and counter
  loaded,          \* history: segments copied in full
  taken            \* history: the pages palloc has returned

memVars  == <<e820, entries_index, entry_addr, taken>>
loopVars == <<start, size, bytesread>>
vars == <<pc, file, map0, memVars, pd, pt, i, e_phnum, loopVars, loaded>>

\* The virtual pages an image or the stack can need, and their tables.
Extent(image) ==
  {(s.addr + s.size) \div PageSize : s \in {image.sections[k] : k \in 1 .. Len(image.sections)}}
    \cup {(s.vaddr + s.memsz) \div PageSize : s \in {image.segments[k] : k \in 1 .. Len(image.segments)}}
VPages == UNION {0 .. v : v \in {Stack} \cup UNION {Extent(image) : image \in Images}}
Tables == {v \div PtEntries : v \in VPages}

LoopPcs == {"mapsec", "mapseg", "mapstack"}

TypeOK ==
  /\ pc \in LoopPcs \cup {"bmain", "init", "open", "section", "segment", "load", "enter", "kernel",
                          "hang", "wild"}
  /\ file \in Images /\ map0 \in Maps
  /\ e820 \in Seq(SMAP32_t) /\ Len(e820) = Len(map0)
  /\ entries_index \in 1 .. Len(map0) /\ entry_addr \in 0 .. Top - 1
  /\ taken \in Seq(Pages(map0))
  /\ pd \in [Tables -> Pages(map0) \cup {None}] /\ pt \in [VPages -> Pages(map0) \cup {None}]
  /\ i \in Nat /\ e_phnum \in Nat /\ start \in Nat /\ size \in Nat /\ bytesread \in Nat
  /\ loaded \subseteq 1 .. Len(file.segments)

Init ==
  /\ pc = "bmain"
  /\ file \in Images /\ map0 \in Maps /\ e820 = map0
  /\ entries_index = 1 /\ entry_addr = 0 /\ taken = <<>>
  /\ pd = [t \in Tables |-> None] /\ pt = [v \in VPages |-> None]
  /\ i = 0 /\ e_phnum = 0 /\ start = 0 /\ size = 0 /\ bytesread = 0
  /\ loaded = {}

-----------------------------------------------------------------------------
(* pt.c                                                                    *)

EntryEnd(map, k) == RoundUp(map[k].base + map[k].length) % Top

\* palloc starts at the end of the last region of RAM.  The two entries of the
\* directory that pt_init fills, the first (low memory as it is) and the last
\* (the directory itself), are left out: no page that pt_map is called for lies
\* there, stage3.ld and NEW_STACK being where they are.
pt_init ==
  /\ pc = "init"
  /\ entries_index' = CHOOSE k \in 1 .. Len(e820) :
                        /\ e820[k + 1].type # 1
                        /\ \A j \in 2 .. k : e820[j].type = 1
  /\ entry_addr' = EntryEnd(e820, entries_index')
  /\ pc' = "open"
  /\ UNCHANGED <<file, map0, e820, taken, pd, pt, i, e_phnum, loopVars, loaded>>

\* The region's length after a page is taken from it.
Shorter(len) == IF len >= PageSize THEN len - PageSize ELSE 0

\* The page palloc returns, and the rest of palloc.  When the first region is
\* used up, entries_index wraps and palloc reads far outside the map.
PageBelow == (entry_addr - PageSize) % Top
NextPage == PageBelow \div PageSize

\* Mutants of palloc: the map is not shortened; the region is left one page
\* too late; the address does not move.
PallocFrom(len, low, addr) ==
  /\ e820' = [e820 EXCEPT ![entries_index] =
                [base |-> @.base, length |-> len, type |-> @.type]]
  /\ taken' = Append(taken, NextPage)
  /\ IF addr > low \/ entries_index = 1
     THEN entry_addr' = addr /\ entries_index' = entries_index
     ELSE /\ entries_index' = entries_index - 1
          /\ entry_addr' = EntryEnd(e820, entries_index - 1)

palloc_kept ==
  PallocFrom(e820[entries_index].length, e820[entries_index].base, PageBelow)
palloc_late ==
  PallocFrom(Shorter(e820[entries_index].length), e820[entries_index].base - 1, PageBelow)
palloc_still ==
  PallocFrom(Shorter(e820[entries_index].length), e820[entries_index].base, entry_addr)

palloc ==
  PallocFrom(Shorter(e820[entries_index].length), e820[entries_index].base, PageBelow)

\* The first region is used up: the next palloc is the one that goes wild.
Exhausted == entries_index = 1 /\ entry_addr <= e820[1].base

VPage == (start + bytesread) \div PageSize

\* pt_map, first half: a page table for an empty entry of the directory.
pt_map_table ==
  /\ pc \in LoopPcs /\ pd[VPage \div PtEntries] = None /\ ~ Exhausted
  /\ palloc
  /\ pd' = [pd EXCEPT ![VPage \div PtEntries] = NextPage]
  /\ UNCHANGED <<pc, file, map0, pt, i, e_phnum, loopVars, loaded>>

\* Where the loader goes when the loop over pages has ended.
AfterLoop == CASE pc = "mapsec" -> "section" [] pc = "mapseg" -> "load" [] pc = "mapstack" -> "enter"

\* pt_map, second half: a new page whether or not there was one, and the end
\* of a round of the loop "bytesread <= size".
pt_map ==
  /\ pc \in LoopPcs /\ pd[VPage \div PtEntries] # None /\ ~ Exhausted
  /\ palloc
  /\ pt' = [pt EXCEPT ![VPage] = NextPage]
  /\ bytesread' = bytesread + PageSize
  /\ IF bytesread' <= size THEN pc' = pc /\ i' = i
                           ELSE pc' = AfterLoop /\ i' = IF pc = "mapsec" THEN i + 1 ELSE i
  /\ UNCHANGED <<file, map0, pd, e_phnum, start, size, loaded>>

palloc_wild ==
  /\ pc \in LoopPcs /\ Exhausted
  /\ pc' = "wild"
  /\ UNCHANGED <<file, map0, memVars, pd, pt, i, e_phnum, loopVars, loaded>>

-----------------------------------------------------------------------------
(* elf.c and bmain.                                                        *)

\* A failed assertion: a text on the screen, and bhang.
assert_fail == pc' = "hang"

\* bmain up to its assertion on pf_mount.  The map is the one validate leaves
\* (module E820).
bmain ==
  /\ pc = "bmain"
  /\ pc' = "init" \/ (DiskErrors /\ assert_fail)
  /\ UNCHANGED <<file, map0, memVars, pd, pt, i, e_phnum, loopVars, loaded>>

\* A failing pf_open, pf_lseek or pf_read: elf_load_file returns NULL and
\* bmain's assertion fails.
elf_error ==
  /\ DiskErrors /\ pc \in {"open", "section", "segment"}
  /\ pc = "segment" => i < e_phnum
  /\ pc = "section" => i < Len(file.sections)
  /\ assert_fail
  /\ UNCHANGED <<file, map0, memVars, pd, pt, i, e_phnum, loopVars, loaded>>

\* pf_open, the ELF header, and the checks it passes.
elf_open ==
  /\ pc = "open"
  /\ e_phnum' = Len(file.segments)
  /\ i' = 0 /\ pc' = "section"
  /\ UNCHANGED <<file, map0, memVars, pd, pt, loopVars, loaded>>

\* A round of the loop over the section headers: pages for .bss.
Loop(to, addr, n) == pc' = to /\ start' = addr /\ size' = n /\ bytesread' = 0

\* Mutant: sections without contents are passed over.
elf_section_skip ==
  /\ pc = "section" /\ i < Len(file.sections)
  /\ i' = i + 1
  /\ UNCHANGED <<pc, loopVars, file, map0, memVars, pd, pt, e_phnum, loaded>>

elf_section ==
  /\ pc = "section" /\ i < Len(file.sections)
  /\ LET shdr == file.sections[i + 1]
     IN  IF Empty(shdr)
         THEN Loop("mapsec", shdr.addr, shdr.size) /\ i' = i
         ELSE i' = i + 1 /\ UNCHANGED <<pc, loopVars>>
  /\ UNCHANGED <<file, map0, memVars, pd, pt, e_phnum, loaded>>

elf_sections_done ==
  /\ pc = "section" /\ i = Len(file.sections)
  /\ pc' = "segment" /\ i' = 0
  /\ UNCHANGED <<file, map0, memVars, pd, pt, e_phnum, loopVars, loaded>>

\* A round of the loop over the program headers.  elf_pheader places the
\* program header sizeof(Elf32_Phdr) after the start of the ELF header, which
\* is longer: reading it overwrites e_phnum with the low half of p_paddr.
elf_segment ==
  /\ pc = "segment" /\ i < e_phnum
  /\ LET phdr == file.segments[i + 1]
     IN  /\ e_phnum' = phdr.plow
         /\ IF phdr.load
            THEN Loop("mapseg", phdr.vaddr, phdr.filesz) /\ i' = i
            ELSE i' = i + 1 /\ UNCHANGED <<pc, loopVars>>
  /\ UNCHANGED <<file, map0, memVars, pd, pt, loaded>>

\* The copy of the segment and the memset of its rest.  The results of
\* pf_lseek and pf_read are not looked at: a copy that breaks off is filled
\* up with zeros.
elf_load ==
  /\ pc = "load"
  /\ \/ loaded' = loaded \cup {i + 1}
     \/ DiskErrors /\ loaded' = loaded
  /\ i' = i + 1 /\ pc' = "segment"
  /\ UNCHANGED <<file, map0, memVars, pd, pt, e_phnum, loopVars>>

\* elf_load_file returns the entry point, and bmain maps a page for the stack.
elf_done ==
  /\ pc = "segment" /\ i >= e_phnum
  /\ pc' = "mapstack" /\ start' = Stack * PageSize /\ size' = 0 /\ bytesread' = 0
  /\ UNCHANGED <<file, map0, memVars, pd, pt, i, e_phnum, loaded>>

\* The jump to the kernel with the memory map as palloc left it.
enter ==
  /\ pc = "enter"
  /\ pc' = "kernel"
  /\ UNCHANGED <<file, map0, memVars, pd, pt, i, e_phnum, loopVars, loaded>>

Stopped == pc \in {"kernel", "hang", "wild"} /\ UNCHANGED vars

Next ==
  \/ bmain \/ pt_init \/ pt_map_table \/ pt_map \/ palloc_wild
  \/ elf_error \/ elf_open \/ elf_section \/ elf_sections_done \/ elf_segment \/ elf_load
  \/ elf_done \/ enter \/ Stopped

Spec == Init /\ [][Next]_vars

-----------------------------------------------------------------------------
\* The two allocators share the map: the pages palloc has taken and the pages
\* pmm_init would list are, between them, the pages of the original map, none
\* of them twice - although palloc rounds a region's end up to a page and
\* shortens it by pages, and pmm_init counts from its base.  A region that
\* reaches the top is listed too: palloc has taken its last page by then.
Handover ==
  /\ Range(taken) \cap Listed(e820) = {}
  /\ taken # <<>> => Range(taken) \cup Listed(e820) = Pages(map0)
  /\ Cardinality(Range(taken)) = Len(taken)

\* No page serves two purposes: what the page tables map, and the tables
\* themselves, are different pages, all of them palloc's.
MappedOnce ==
  LET mapped == {v \in VPages : pt[v] # None}
      tables == {t \in Tables : pd[t] # None}
  IN  /\ \A v, w \in mapped : pt[v] = pt[w] => v = w
      /\ \A t, u \in tables : pd[t] = pd[u] => t = u
      /\ \A v \in mapped : pt[v] \in Range(taken) \ {pd[t] : t \in tables}
      /\ \A t \in tables : pd[t] \in Range(taken)

\* The copy and the memset of a segment find every one of their pages mapped,
\* the ones of .bss included, which only the section headers announce.
NoFault ==
  pc = "load" =>
    LET phdr == file.segments[i + 1]
    IN  \A a \in phdr.vaddr .. phdr.vaddr + phdr.memsz - 1 : pt[a \div PageSize] # None

\* palloc only shortens regions, and begins after pt_init.
Shrunk ==
  \A k \in 1 .. Len(map0) : /\ e820[k].base = map0[k].base /\ e820[k].type = map0[k].type
                            /\ e820[k].length <= map0[k].length

\* It works from the end: the regions before the one it takes from are whole,
\* those after it used up, and it goes on where that one ends.
AllocInv ==
  /\ entries_index \in RamIndex(map0)
  /\ \A k \in 1 .. entries_index - 1 : e820[k] = map0[k]
  /\ \A k \in RamIndex(map0) : k > entries_index => e820[k].length = 0
  /\ entries_index > 1 => e820[entries_index].length > 0
  /\ entry_addr = EntryEnd(e820, entries_index)

MapInv ==
  /\ Shrunk
  /\ pc \in {"bmain", "init"} => e820 = map0 /\ taken = <<>>
  /\ pc \notin {"bmain", "init", "hang"} => AllocInv

\* What palloc has taken is what the regions of the map have lost, no page of
\* it twice, and after the first page nothing reaches the top.
TakenInv ==
  /\ Range(taken) = UNION {Hi(e820[k]) .. Hi(map0[k]) - 1 : k \in RamIndex(map0)}
  /\ \A k, l \in 1 .. Len(taken) : taken[k] = taken[l] => k = l
  /\ taken # <<>> => \A k \in RamIndex(map0) : e820[k].base + e820[k].length <= Top - PageSize

\* The addresses a, ..., a + n - 1 are mapped.
Mapped(a, n) ==
  \A x \in a .. a + n - 1 : x \div PageSize \in VPages /\ pt[x \div PageSize] # None

\* Those of the first m sections that are to be mapped are.
SectionsMapped(m) ==
  \A s \in 1 .. m : LET shdr == file.sections[s] IN Empty(shdr) => Mapped(shdr.addr, shdr.size)

\* Where the loader is, and what it has mapped so far.
LoaderInv ==
  /\ pc \in {"section", "mapsec"} =>
       i <= Len(file.sections) /\ SectionsMapped(i) /\ e_phnum = Len(file.segments)
  /\ pc = "mapsec" =>
       /\ i < Len(file.sections) /\ Empty(file.sections[i + 1])
       /\ start = file.sections[i + 1].addr /\ size = file.sections[i + 1].size
  /\ pc \in {"segment", "mapseg", "load"} => SectionsMapped(Len(file.sections))
  /\ pc = "segment" => e_phnum = 0 \/ (i = 0 /\ e_phnum = Len(file.segments))
  /\ pc \in {"mapseg", "load"} =>
       /\ i = 0 /\ e_phnum = 0 /\ Len(file.segments) > 0
       /\ start = file.segments[1].vaddr /\ size = file.segments[1].filesz
  /\ pc = "mapstack" => start = Stack * PageSize /\ size = 0
  /\ pc \in LoopPcs => bytesread <= size
  /\ pc = "load" => bytesread > size
  /\ pc \in LoopPcs \cup {"load"} => bytesread % PageSize = 0 /\ Mapped(start, bytesread)

\* The invariant the proofs are by induction on: the state has its types, the
\* map and what was taken from it complement one another, page tables hold what
\* was taken, and the loader has mapped what it has passed.
IInv == TypeOK /\ MapInv /\ TakenInv /\ MappedOnce /\ LoaderInv

\* README.md: stage 2 "Loads the kernel [...] to `p_vaddr` in the ELF header":
\* when it jumps to the kernel, every PT_LOAD segment is in place.
AllLoaded ==
  pc = "kernel" => \A s \in 1 .. Len(file.segments) : file.segments[s].load => s \in loaded
=============================================================================
