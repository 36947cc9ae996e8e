# Boot32 in TLA+

This directory specifies the parts of Boot32 whose correctness depends on more
than one step at a time: the loader's memory map, file reader and sharing-out of
memory, the kernel's memory allocators, its interrupts, the lock-free ring buffer and
the interrupt-driven serial console built on it. TLC checks every module on small
instances; TLAPS proves the memory map, the allocators of both stages, the ELF loader, the
ring buffer, the serial console and the interrupts for every value of their constants.
`PROJECT.json` says for each definition which lines of the source it stands for.

    tlc -workers 2 -config MCSerial.cfg Serial      one run
    tlapm RingBufProofs.tla                         one module's proofs

## 1. Inventory

Boot32 is a BIOS boot loader in two stages and a test kernel ("stage 3").

| component | source | state it keeps | operations |
|---|---|---|---|
| boot sector | `boot.asm` | the raw e820 table at 7C00h, the loaded stage 2 | e820 BIOS calls, disk read, protected mode |
| stage 2 start-up | `stage2/crt0.S`, `util.c` | GDT, drive number, screen position | `readSector` by a detour through real mode (retries until the BIOS succeeds), `setGdt`, `enter`, printing |
| e820 map | `stage2/e820.c` | the table, compressed in place from 24 to 12 bytes an entry | `compressE820`, `sortE820`, `mergeE820`, `validate` |
| disk and FAT reader | `stage2/pff3a/source/*` | the mounted volume, the open file's position, a one-sector cache | `pf_mount`, `pf_open`, `pf_read`, `pf_lseek`, `disk_readp` |
| stage 2 paging | `stage2/pt.c`, `stage2.c` | page directory and tables; which region, and where in it, `palloc` takes from; the lengths in the map | `pt_init`, `palloc`, `pt_map`, `bmain` |
| ELF loader | `stage2/elf.c` | one buffer with the three headers | `elf_load_file` |
| kernel start-up | `stage3/crt/crt0.S`, `kmain.cpp` | - | the order in which the parts below are set up, and where interrupts are enabled |
| physical page allocator | `stage3/mem/pmm.cpp` | `pcount`, `pfree`, `pidx`, the window `curr_pages`, a stack of page addresses in the free pages | `pmm_init`, `pmm_alloc_ppage`, `pmm_free_ppage` |
| virtual page allocator | `stage3/mem/kmalloc.cpp`, `vaddr.cpp`, `crt/sort.h` | `ptmeta` (free entries of each page table, sorted), `ptmeta_first_free`, the page tables | `vinit`, `valloc`, `vfree`, `vmap`, `vunmap` |
| slab page | `stage3/mem/slab.cpp` | `first_free`, and the links in the free blocks | `slabp_init`, `slabp_full`, `slabp_alloc`, `slabp_free` |
| ring buffer | `stage3/mem/ringbuf.cpp`, `crt/atomic.h` | head and tail packed in one atomic word | `buf_write`, `buf_write_commit`, `buf_read`, `buf_read_commit`, `buf_elements` |
| serial console | `stage3/x86/serial.c`, `isrs.cc`, `kprint` | the ring, `fifo_empty`; UART and interrupt controller registers | `ser_init`, `ser_write`, `ser_flush`, `com1_isr`, `kprint` |
| assertions | `stage3/crt/assert.c` | - | `panic`: interrupts off, port set up again, message by polling |
| descriptor tables, interrupt controller | `stage3/x86/gdt.cc`, `pic.c`, `isrs.cc` | GDT, IDT, the two 8259As, what is in service | `GDT_init`, `IDT_init`, `IDT_setIRQ`, `pic_init`, `pic_irqmask`, `pic_read`, `pic_eoi`, the handlers |
| kernel page directory class | `stage3/mem/pagetable.cpp` | CR3, the recursive entry | `kmain` activates the directory of stage 2 |
| PIT, ATA, CPUID, MTRR, ACPI | `stage3/x86/*` | device and CPU registers | set-up at start, reads of firmware tables |
| formatting, strings | `stage3/crt/print.c`, `util.c` | none | pure functions |

How they interact. Stage 1 leaves the memory map at 7C00h; `validate` rewrites it in
place; `palloc` then *shortens* its regions as it takes pages for the kernel image, its
page tables and its stack; `pmm_init` in the kernel lists what the map still says is
RAM. The map is therefore the contract between the two allocators, and nothing else
carries it. In the kernel the virtual page allocator draws pages and page tables
from the physical one, and `vmap` copies firmware tables through it. The serial
console shares the ring's header word and the UART between `kprint` and `com1_isr`;
`panic` takes the port away from both. The ELF loader reads the kernel through the FAT
reader, whose one sector buffer serves the boot record, the FAT, directories and data;
every sector comes from `readSector`, which calls the BIOS until it succeeds. `kmain`
enables interrupts half-way: from then on a device line leads through the two 8259As
and the IDT to a handler, which must send the ends of interrupt the controllers wait for.

What is hard, and what makes each part correct:

- *Serial console, ring buffer*: real concurrency - an interrupt handler between any
  two instructions, a UART with its own pace, an edge-triggered controller that drops
  withdrawn requests. Bytes must come out once and in order, and the transmitter must
  never wait for an interrupt that nobody will raise.
- *Allocators*: the free lists live in memory their clients overwrite. After any
  sequence of allocations and frees nothing may be handed out twice, and nothing lost.
- *Stage 2*: two allocators with different rounding share one table; the disk may fail
  at every call; addresses wrap at 4 GiB. Their pages must make up the map, none twice.
- *e820 map*: rewritten in place, sorted by a relation that is no order in a loop whose
  bound is always true, merged with a mixture of lengths and addresses. It must stay
  inside the map, group it as its users expect, and lose nothing.
- *FAT reader*: a position kept in three variables (`fptr`, `curr_clust`, `dsect`) by
  calls in any order, over a BIOS that fails at will, on disks whose chains may be cut
  short or cyclic. A read must deliver the file's bytes or fail, and every call return.
- *Interrupts*: lines that rise and fall at any time, exceptions, a start-up order in
  which interrupts are enabled before the port is set up. Each must find its handler,
  each controller get as many ends of interrupt as it has interrupts in service.

`PROJECT.json` lists these as hazards at their lines, with the properties that would
catch them.

## 2. Modules

| module | models | uses |
|---|---|---|
| `RingHdr` | the packed header as two 16-bit halves, with the carries between them, and the arithmetic of each function of `ringbuf.cpp` | |
| `Fifo` | abstract specification: a bounded queue seen through its two counters | |
| `RingBuf` | a producer and a consumer on one ring, a step per header access and per byte | `RingHdr`, `Fifo` |
| `Serial` | `kprint`, `ser_init`, `ser_write`, `ser_flush`, `com1_isr`, IRQ 7, `panic`; the 16550 and the 8259A as external parts | `RingHdr` |
| `Pmm` | `pmm.cpp` on the memory that holds its list | |
| `Slab` | `slab.cpp` on the words of its page | |
| `MemMap` | the contract between the next two: the map `validate` leaves and `palloc` relies on | |
| `E820` | `e820.c`: `validate` from the table the BIOS left to the one its users read | `MemMap` |
| `Stage2` | `pt.c`, `elf.c`, `bmain` to the jump, and the pages `pmm_init` will list | `MemMap` |
| `Disk` | `diskio.c` and `readSector`: one sector buffer, a BIOS that fails at will | |
| `File` | abstract specification: a file with a position, and reads that deliver its bytes | |
| `Fat` | `pff.c` as `pffconf.h` configures it: `pf_mount`, `pf_open`, `pf_lseek`, `pf_read` | `Disk`, `File` |
| `Kvm` | `kmalloc.cpp` over the page tables and the count of free pages | |
| `Sort` | the Shell sort of `crt/sort.h`, as functions | |
| `Irq` | `gdt.cc`, `pic.c`, `isrs.cc` and the order of `kmain`'s calls; CPU, 8259As and devices as external parts | |
| `MCPmm`, `MCStage2`, `MCKvm`, `MCE820`, `MCFat`, `MCIrq` | page lists, memory maps, kernel images, boot mappings, arrays, firmware maps, disks and handler addresses for TLC | |
| `RingBufProofs`, `SerialProofs`, `PmmProofs`, `SlabProofs`, `E820Proofs`, `Stage2Proofs`, `KvmProofs`, `IrqProofs` | each the proofs about the module it is named for | |

Correspondence, where it is not evident from the names:

- **RingHdr.** `bufhdr_t` is a record `[lo, hi]`. `atomic_fetch_add` carries from `lo`
  to `hi` and wraps at 2^16, and `atomic_fetch_and` is what `crt/atomic.h:36` makes of
  it: another addition. `MaxElem` stands for `MAX_ELEM` (0x7FFF). `buf_write`'s load and
  `atomic_fetch_and` are one step; below `MAX_ELEM` the second does not happen.
- **RingBuf.** Its two clients are external: the most general users of the interface
  that avoid the one question it cannot answer (the answer 0 means both "index 0" and
  "nothing free"). Byte number *k* is the number *k*.
- **Serial.** `pc` is the main code, `inIsr` and `fpc` the handler and the `ser_flush`
  under way in whichever of the two called it. `ser_init`, `ser_write` and `panic` are
  cut where an interrupt can come; `save_intr`..`restore_intr` is the interval in which
  `IntrEnabled` is false. External assumptions: the 8259A latches a rising edge, and
  delivers IRQ 7 when the request is gone at the acknowledge; a write to DATA withdraws
  the 16550's THRE interrupt and is lost if the FIFO is full; enabling `IER_TX` with an
  empty transmitter raises the interrupt. When `buf_write`'s refusal is used as an index
  in front of the buffer, the model goes to `wild`.
- **Pmm, Slab.** `mem` (`data`) is real memory: an owner's `Scribble` overwrites all of
  what it holds. `held`, `list` and `top` are history variables. Callers free what they
  hold, as the code's users and tests do.
- **Stage2.** An address is a number, a page `PageSize` of them. The round of the loops
  `bytesread <= size` is one `pt_map` step (two if it needs a table). `e_phnum` is a
  variable because reading a program header overwrites it. Sums of addresses are taken
  modulo `Top` (2^32 in the code): a region that ends at the top ends at 0, and then
  `pmm_init` lists nothing of it. The directory's first and last entries, which `pt_init`
  fills (`pt.c:43`), are left out, since nothing is linked there. A page whose mapping
  `pt_map` replaces is mapped nowhere afterwards, and lost to the kernel too: `MappedOnce`
  and `Handover` allow it. `MapOK` is what `E820` delivers (`DeliversMap`) for a
  firmware map without overlaps in which three things hold that the code takes for
  granted: RAM starts on a page, there is some other kind of memory too, and the first
  region is low memory.
- **E820.** `mem` is the table in place: a BIOS entry takes two cells and an `SMAP32_t` one,
  so that a write may destroy an entry not yet read. A round of a loop is a step. An
  access outside the table, or of a destroyed entry, goes to `wild`. `InputOK`
  says what firmware is taken to deliver: ascending addresses, RAM at 0 first. `Place`
  says where in the result an entry belongs: after those of smaller types, and among
  its own in the firmware's order.
- **Disk, Fat.** A step is the code between two sector reads, and `Fetch` is a read:
  `disk_readp` asks for a sector unless `current_sector` says it is in the buffer, and
  `int13_ok` and `int13_error` are one BIOS call, which may fail and leave anything in the transfer buffer. The
  frame in `call` is the call under way with its locals. A sector is a record (boot
  record), a function of FAT links, of directory entries or of bytes, by the kind it has
  on the disk; a byte is known by its place. Names are values; the conversion of a
  name to its padded form is left out. `pf_read` and `pf_lseek` take their argument in a
  step of its own, so that `File`, in which a request waits until it takes effect, can
  hold a seek or a read to what the caller asked for; it is refined with that request and
  with `want` and `out` of the read under way. The files it promises are written down in `MCFat` apart from the FAT.
  Sizes are plain numbers: `VolumeAssumption` says that the disks' boot records give clusters
  a size and no fewer sectors than they use, without which the unsigned difference at
  `pff.c:862` wraps.
- **Irq.** `Boot` is the order of `kmain`'s calls, `stack` the interrupts and exceptions under
  way. The 8259As take their ICWs one at a time; a line's edge sets a request, the
  acknowledge moves it to the in-service register by priority and through the cascade,
  and a request gone at the acknowledge is a spurious IRQ 7 (the second controller's lines
  are all masked). A gate's halves are
  put together again when it is used. What `com1_isr` does to the console, and what can
  come in the middle of `ser_init`, is `Serial`.
- **Sort.** `gap_sort` for each gap of `Gaps`, an insertion sort of elements that far
  apart; `Kvm` needs only that the result is ordered by `free`.
- **Kvm.** Page frames are not told apart; `pfree` is what is left of `Pmm`. What is shown
  of pages (`Accounted`) is therefore their number: at an address that `valloc` returns twice
  the first page is no longer mapped by anything. `ptmeta`,
  `ptmeta_first_free` and the present bits are as in the code, and a page that becomes a
  page table holds any entries whatever, since nobody clears it. `sort` is any ordering
  by `free`, which `Sort` shows it to be. `vmap` is its two `valloc`s and its
  `vfree`, with the same failures. A failed assertion goes to `panic`; a mapping of memory
  that does not exist to `wild`.

## 3. Runs

| run | configuration | result |
|---|---|---|
| `ringbuf` | ring of 4, 10 bytes, `MAX_ELEM` 15 | `InOrder`, `IInv`, and `RingBuf` implements `Fifo` |
| `serial` | ring of 4, FIFO of 2, messages of 1, 3 and 4 bytes, 9 bytes in all | `IInv`, `InOrder`, `NoLostWakeup`, `FifoHasRoom`, and under fairness `Sent` |
| `serial_overrun` | the same | `Appended` fails: finding 1 |
| `pmm` | list pages of 2 entries, 4 pages and the initial one | `IInv`, `WindowIsFree`, `AllocFresh` |
| `slab` | a page of 6 words, every block size | `IInv`, `NoLeak`, `AllocFresh` |
| `stage2` | 18 memory maps, 11 kernel images, a disk that may fail | `IInv`, `Handover`, `MappedOnce`, `NoFault` |
| `stage2_segments` | the same, a disk that does not fail | `AllLoaded` fails: finding 2 |
| `kvm` | 4 tables of 3 entries, 4 pages, one `vunmap`; arrays of six and of eleven for the sort | `IInv`, `EveryTableCounted`, `TableKept`, `Accounted`, `KernelKept`, `SortsByFree` |
| `kvm_twice` | the same | `AllocFresh` fails: finding 3 |
| `e820` | 6561 firmware maps of four entries, three types, addresses below 16, pages of 2 | `IInv`, `NoWild`, `GroupedByType`, `DeliversMap`, `NothingLost` |
| `fat` | 14 disks, sectors of 2 bytes, offsets up to 8, directory index of 8 | `OpensWhatIsThere`, `AsksRightSector`, `Fat` implements `File`, and under fairness `Returns` |
| `irq` | lines 0, 4 and 14, exceptions 0, 2, 13 and 31 | `IInv`, `RightHandler`, `EoiBalance`, `NotReentered`, `PortReady`, and under fairness `Serviced` |

`TypeOK` is checked everywhere, by itself (`fat`) or as the first part of `IInv`, the
inductive invariant that section 4 explains.

Why the bounds are enough:

- *Ring*: 10 bytes go round a ring of 4 more than twice, with every split into requests;
  full, empty and wrapped positions occur with either side ahead. The run stays below
  `MAX_ELEM`, the range for which the theorems hold and past which they are false
  (section 5).
- *Serial*: messages longer than the FIFO, as long as the ring's capacity, and one longer
  than it, so that a message is cut, a flush is cut at the end of the ring, and the
  FIFO runs empty in every phase. The three properties hold as long as `ser_write` has
  found the room it counted on (`overrun` is false), and `serial_overrun` is what
  happens otherwise.
- *Pmm*: the stack crosses two ends of list pages, so pages change between the two roles
  in both directions; the last page's list is not full, so that the one
  allocation `AllocFresh` excepts, the entry nobody wrote, happens.
- *Slab*: block sizes that divide the page, that do not, and that fill it.
- *Stage2*: regions end on a page, inside one and at the top, where the end wraps to 0;
  the kernel needs more pages than the upper region has, so `palloc` changes regions and
  runs out.
- *E820*: entries that are apart, touch and overlap, of the same type and of different
  ones, that end below, at and beyond the top, and one that starts there. `GroupedByType`
  is about maps without overlap, `DeliversMap` about those of them that `palloc` can use,
  with up to three regions of RAM, `NothingLost` about all but those in which two regions
  of one type overlap so high that their merged end passes the top (`NoWrap`); what ends
  at or beyond the top otherwise, like a ROM below 4 GiB, is among them.
- *Fat*: FAT16 and FAT32, with a partition table and without, clusters of one and two
  sectors, files and directories over several clusters out of order, full directories,
  labels and long names, an empty file, chains that end too soon or are cyclic, and disks
  without a file system. Reads and seeks of every length from every position cross sector
  and cluster ends in both directions. `IndexLimit` stands for the 65536 at which a
  directory index wraps; it is reached on the cyclic disk.
- *Irq*: a line on each controller and the one that has a handler, so that priorities,
  the cascade and spurious requests of the first controller happen; exceptions with and
  without an error code, at any point. `FirmwareUart` is FALSE: the firmware has left
  COM1's own interrupt disabled, without which `PortReady` is false.
- *Kvm*: the three kinds of table there are at boot - the kernel's image, untouched ones,
  and the one that only holds the stack - each small enough to be filled and emptied
  repeatedly; all pages and all tables can run out. *Sort*: arrays of six use the gaps 4
  and 1, those of eleven 10 too; the larger gaps are the same loop.

Deadlock is checked everywhere but in `e820`, which is a function that ends, and in `irq`,
where the kernel hangs after `panic`. Elsewhere the states where the system stops (all bytes
delivered, `panic`, `hlt` with nothing to wake it, the jump to the kernel) are the
`Stopped` and `Finished` disjuncts.

**Fairness.** `Serial`: weak fairness of the main code's own steps, of the flush, of the
handler once entered, of a pending interrupt and of the UART. A CPU executes the
instruction it has come to, takes an interrupt that stays pending while interrupts are
enabled, and a UART shifts out what it holds. `Irq`: the same for `kmain`'s calls, the
handlers and a pending interrupt. `Fat`: weak fairness of the reader's own steps, and
strong fairness of a BIOS call that succeeds - a sector that is tried again and again is
read at last, which is what `readSector`'s endless loop counts on. Calls of `kprint`,
`panic` and of the file reader, exceptions and the devices' lines are choices and get none.

## 4. What is proved

The proofs hold for every value of the constants under the assumptions named in the
modules (`RingAssumption`, `SerialAssumption`, `PmmAssumption`, `SlabAssumption`,
`E820Assumption`, `Stage2Assumption`, `KvmAssumption`, `IrqAssumption`), which TLC evaluates for the
instances it checks. Each module proves `Invariant`, that its `IInv` always holds, and
derives the properties from it; what follows says what `IInv` has to add and why.

- **RingBufProofs**, for every power of two `Size` and all interleavings, while at most
  `MAX_ELEM` bytes go through (`MaxTotal <= MaxElem`; beyond it the addition at
  `ringbuf.cpp:25` makes them false): `TypeCorrect`, `Invariant`, `Delivery` (`InOrder`) and `Implements` (the
  refinement of `Fifo`). `InOrder` is not inductive: it needs to know that a slot granted
  stays granted while the other side moves. `IInv` says this in parts - the header's
  halves are the stream positions and one slot is free (`HdrInv`), what each client was
  granted still holds (`ProdInv`, `ConsInv`), and each byte not yet given back is in its
  slot (`DataInv`). The refinement maps the queue's counters to the header's halves.
- **PmmProofs**, for every page list and list page size: `Invariant`, `TypeCorrect`,
  `WindowFree` and `NoDoubleAllocation`. The invariant adds the history variable `list`,
  the intended contents of the stack by index, and says that memory agrees with it from
  the window on (`MemInv`), that live entries are distinct and not held (`DistinctInv`),
  and that the index counts what is out (`CountInv`); `BuildInv` is the same for the part
  of the list `pmm_init` has built.
- **SlabProofs**, for every page and block size: `Invariant`, `TypeCorrect`, `NothingLost`
  and `NoDoubleAllocation`, along the same lines; that two blocks share no word is
  arithmetic on multiples of the block size (`BlocksApart`).
- **SerialProofs**, for every FIFO depth, ring size and set of messages, while no more than
  `MAX_ELEM` bytes are written (`MaxBytes <= MaxElem`, the hypothesis of each theorem, for
  the reason given for the ring): `FifoHasRoomHolds`, `NoLostWakeupHolds` and
  `InOrderHolds`. None of the three is inductive. They need that at most one of the main
  code and the handler is in `ser_flush` (`CallerInv`), that the transmitter is empty
  whenever `ser_flush` is called, which is why it may write a whole FIFO without asking
  (`FlushInv`), how far `ser_init` has come when the UART may interrupt (`PortInv`), that
  an empty transmitter always has somebody who will refill it - a latched interrupt, a flush
  under way, or, when the ring is empty too, the next `ser_write`, which looks at
  `fifo_empty` (`WakeInv`) - and where in the ring, the FIFO or the output each byte is (`DataInv`).
- **E820Proofs**, for every address width, number of types and firmware map of any length
  that `InputOK` allows: `NoWildHolds`, `GroupedByTypeHolds`, `DeliversMapHolds` and
  `NothingLostHolds`. Each phase has its part of the invariant. The writer of
  `compressE820` stays behind its reader, and because the firmware lists by address the
  entries it keeps are the first ones (`CompressInv`). `sortE820` has arranged the entries
  it has passed by type and address (`Arranged`, `SortInv`): `compE820` is no order, but an
  entry is compared only with others that start below it, so what it tests is the type,
  and the first entry, RAM at 0, is one that nothing passes; that is what ends the loop.
  `length` and `typelengths` bound the block of a type because the types stay grouped
  (`BlockInv`). While `mergeE820` works, the cells it has not come to are still the
  firmware's entries in order (`Ahead`, `MergeInv`); without overlaps nothing is merged,
  and with them an address that has lost its entry is in the one that took it up. For that
  the sums of two regions that are merged have to stay within 32 bits, and only those.
  `DeliversMapHolds` ends in `MapOK`, the assumption of `Stage2`: it joins the two proofs.
- **Stage2Proofs**, for every memory map and kernel image that `MapOK` and `ImageOK` allow
  and every answer of the disk: `HandoverHolds`, `MappedOnceHolds` and `NoFaultHolds`.
  `Handover` is not inductive: it needs to know where `palloc` is in the map. `palloc`
  works from the end of the map, so the regions before the current one are whole and
  those after it used up, and `entry_addr` is where the current one now ends (`MapInv`); the pages taken are those the regions have lost (`TakenInv`);
  and the addresses the loops of `elf_load_file` have passed, first of the sections that
  are to be cleared and then of the segment, are mapped (`LoaderInv`), so that the copy
  and the clearing of a segment do not fault.
- **KvmProofs**, for every number of page tables and entries, every boot layout and number
  of pages: `EveryTableCountedHolds`, `TableKeptHolds`, `AccountedHolds` and
  `KernelKeptHolds`. The properties are inductive only together: a count is right because
  `ptmeta` has every table exactly once (`Permuted`), pages are accounted for because an
  address in use has its table, and a table is given back only when its count says it is
  empty. Three facts are added: a table that is not present has all its entries free
  (`AbsentFree`), the entry `valloc` would hand out next is none that stage 2 mapped
  (`FirstNotBooted`), and the window of a `vmap` under way is in use (`WindowHeld`). The
  counting rests on the library's facts on cardinalities.
- **IrqProofs**, for every set of lines and exceptions and every handler address:
  `RightHandlerHolds`, `EoiBalanceHolds`, `NotReenteredHolds` and, for a firmware that has
  left the UART's own interrupt disabled (`~ FirmwareUart`; it is false otherwise),
  `PortReadyHolds`. The invariant says what each of `kmain`'s calls has set up by the
  time the next is made, and that interrupts are enabled only after the tables and the
  controllers (`BootInv`); that at most one exception and one interrupt are on the stack and the
  interrupt keeps others off (`StackInv`); that a bit in service belongs to the `com1_isr`
  under way (`ServiceInv`); and that COM1 is quiet until it is set up (`PortInv`). That a
  gate's two halves give back the handler's address is arithmetic on 16-bit halves.

Facts on `*`, `\div` and `%` with a symbolic divisor, which the provers lack, are lemmas at
the head of the modules that need them.

Only model-checked:

- everything about liveness (`Sent`, `Returns`, `Serviced`), which the prover does not cover;
- `SortsByFree` of `Sort`: the sort is a recursive function over an array, and what a
  recursive function computes for every input needs induction over data, which the
  prover cannot do;
- `Fat`, with `TypeOK`, `OpensWhatIsThere`, `AsksRightSector` and the refinement of `File`:
  they depend on what is on the disk. `OpensWhatIsThere` and the refinement compare a walk
  along a FAT chain with a file given by the disk's author, which is induction along the
  chain; for the other two a proof has to say first what a well-formed volume is, down to
  the fields of a boot record (section 7).

## 5. Findings

1. `serial.c:133` asks `buf_write` for one slot more than there is when a message fills
   the buffer, and uses the refusal as an index.
2. `elf.c:29` puts the program header over the ELF header, so only the first program
   header is ever used.
3. `kmalloc.cpp:80` looks for the next free page before the current one is mapped: `valloc`
   returns the same address twice.

Met on the way, without a run of their own:

- `ringbuf.cpp:25` calls `atomic_fetch_and`, which `crt/atomic.h:36` defines as an addition:
  after 0x8000 bytes it moves both indices instead of clearing a bit.
- `pmm.cpp:28` counts a page that the list does not contain: the last allocation returns
  an entry nobody wrote. `AllocFresh` excepts it.
- `pmm.cpp:17` lists all of low memory, with stage 2's page directory, which is in use,
  its stack and the e820 table itself.
- `pmm.cpp:18` lists no page of a region that ends at 4 GiB, and never ends for one that
  ends inside the last page. `palloc` starts at the end of the last region, and a boot that
  has taken a page from it is safe: `Handover` says so.
- `e820.c:26` takes an end address for a length, so a merged region may reach too far, and
  the number of entries merging has left is thrown away, so the last of a type is
  repeated; `e820.c:43` tests an unsigned number for `>= 0`. Neither matters to a map
  that ascends without overlap.
- `elf.c:92` does not look at the result of reading a segment.
- `slab.cpp:14` may make a last block that reaches past the page, and the field `free` is
  not the number of free elements.
- `kmalloc.cpp:118` stores a table's number as an index, after which `valloc` may stop in
  its own assertion; `kmalloc.cpp:40` counts an entry twice, so the table with only the
  kernel's stack counts as empty and may be freed, which `KernelKept` excepts.
- `kmain.cpp:82` enables interrupts before `ser_subsystem_init` has set the port that
  `com1_isr` uses.
- `print.c:11` divides by 10 whatever the base.

## 6. Not modelled

- `boot.asm` and the mode switches of `stage2/crt0.S`: real-mode assembly; the table and
  the image they leave are inputs of `E820` and `Stage2`. `readSector` is in `Disk`.
- What `pffconf.h` configures out (`pf_write`, `pf_opendir`, `pf_readdir`, FAT12), and
  `create_name`, which builds the padded upper-case name: names are single values.
- `Stage2` does not read through `Fat`: it takes a read to deliver the file's bytes or to
  fail, which is what `Fat` is shown to implement.
- `pagetable.cpp`: a class of which `kmain` makes one object and calls nothing that changes a
  mapping.
- CPUID, MTRR, ACPI, ATA and PIT: register programming and table reads in a straight line,
  without state that two steps share. `timer_isr` and the masks of single lines have no
  caller; line 15 is masked and `spurious_irq15_isr` is not entered.
- `vunmap` has no caller and its declaration does not match; it is modelled all the same.
  `ser_avail` and `ser_read` have no caller and are not.
- `print.c` and `util.c`: pure functions on text.
- Weak memory: the steps of `RingBuf` are sequentially consistent, as locked
  instructions on x86 are.
- The text of messages, baud rates, the screen.

## 7. Plan

1. Proofs: `TypeOK` and `AsksRightSector` of `Fat`, from a predicate on disks that says where
   boot records, FATs, directories and data are and that links stay inside the volume.
2. Pure functions: `fmt_uint` and `hextostr` against the numbers they stand for.
