-------------------------------- MODULE Pmm --------------------------------
(***************************************************************************)
(* stage3/mem/pmm.cpp: the kernel's physical page allocator.               *)
(*                                                                         *)
(* The free pages are a stack kept in the free pages themselves.  The      *)
(* array curr_pages is a window onto one page of the list, which holds     *)
(* the addresses of Entries pages; the last entry of a list page is the    *)
(* next list page.  When the stack index leaves a list page, pt_map moves  *)
(* the window, and the page it leaves becomes the page that is allocated;  *)
(* when it enters one, the page being freed becomes the list page.         *)
(*                                                                         *)
(* A page is its number.  Junk is the contents of memory nobody has        *)
(* written for the allocator.  The owner of an allocated page may          *)
(* overwrite it at any time.                                               *)
(***************************************************************************)
EXTENDS Integers, Sequences, FiniteSets

CONSTANTS Entries,   \* entries of a list page, 1024 in the code
          Listed,    \* the pages of the e820 map, in the order of pmm_init
          Initial,   \* the page of the kernel image behind curr_pages
          Junk,      \* an address nobody wrote
          Invalid    \* 0xFFFFFFFF, the answer of a failed allocation

N == Len(Listed)

Frames == {Listed[i] : i \in 1 .. N} \cup {Initial}

\* The map lists no page twice, and stage 2 has taken the pages it gave to
\* the kernel image out of it (stage2/pt.c, palloc).
ASSUME PmmAssumption ==
  /\ Entries \in Nat /\ Entries > 1
  /\ N \in Nat
  /\ \A i, j \in 1 .. N : Listed[i] = Listed[j] => i = j
  /\ \A i \in 1 .. N : Listed[i] # Initial
  /\ Junk \notin Frames /\ Invalid \notin Frames /\ Junk # Invalid

VARIABLES phase,    \* "init" while pmm_init runs, then "run"
          mem,      \* the contents of every page, as entries of a list page
          win,      \* the page curr_pages is mapped to
          pcount,   \* pages counted by pmm_init
          pidx,     \* index of the top of the stack
          pfree,    \* number of free pages
          ret,      \* the last answer of pmm_alloc_ppage
          held,     \* history: pages allocated and not freed
          list      \* history: the stack, by index; see ListInv

vars == <<phase, mem, win, pcount, pidx, pfree, ret, held, list>>

\* The index of the last entry of the list page that entry i is on.
Top(i) == i + (Entries - 1 - (i % Entries))

\* Entry i links a list page to the next.
Link(i) == i % Entries = Entries - 1

\* The last list page's own place in the stack.
Last == Top(N)

Page == [0 .. Entries - 1 -> Frames \cup {Junk}]

TypeOK ==
  /\ phase \in {"init", "run"}
  /\ mem \in [Frames -> Page]
  /\ win \in Frames \cup {Junk}
  /\ pcount \in 0 .. N + 1 /\ pidx \in 0 .. N + 1 /\ pfree \in 0 .. N + 1
  /\ ret \in Frames \cup {Junk, Invalid}
  /\ held \subseteq Frames \cup {Junk}
  /\ list \in [0 .. N + 2 * Entries -> Frames \cup {Junk}]

Init ==
  /\ phase = "init"
  /\ mem = [f \in Frames |-> [e \in 0 .. Entries - 1 |-> Junk]]
  /\ win = Initial
  /\ pcount = 0 /\ pidx = 0 /\ pfree = 0
  /\ ret = Invalid /\ held = {}
  /\ list = [i \in 0 .. N + 2 * Entries |-> IF i = Entries - 1 THEN Initial ELSE Junk]

-----------------------------------------------------------------------------
\* curr_pages[e] = v
Store(w, e, v) == [mem EXCEPT ![w] = [mem[w] EXCEPT ![e] = v]]

\* One round of pmm_init's loop over the pages of the map.
pmm_init_page ==
  /\ phase = "init" /\ pcount < N
  /\ LET addr == Listed[pcount + 1]
     IN  /\ mem' = Store(win, pcount % Entries, addr)
         /\ IF Link(pcount)
            THEN win' = addr /\ list' = [list EXCEPT ![pcount + Entries] = addr]
            ELSE win' = win  /\ list' = [list EXCEPT ![pcount] = addr]
  /\ pcount' = pcount + 1
  /\ UNCHANGED <<phase, pidx, pfree, ret, held>>

\* The rest of pmm_init: the window goes back to the first list page, which
\* is counted as one more free page.
pmm_init ==
  /\ phase = "init" /\ pcount = N
  /\ phase' = "run"
  /\ win' = Initial
  /\ pcount' = pcount + 1 /\ pfree' = pcount + 1
  /\ UNCHANGED <<mem, pidx, ret, held, list>>

\* Mutant: the window is moved before the address is read.
pmm_alloc_ppage_moved ==
  /\ phase = "run" /\ pfree # 0
  /\ IF Link(pidx)
     THEN ret' = mem[win][Entries - 1] /\ win' = mem[win][Entries - 1]
     ELSE ret' = mem[win][pidx % Entries] /\ win' = win
  /\ pidx' = pidx + 1 /\ pfree' = pfree - 1
  /\ held' = held \cup {ret'}
  /\ list' = [list EXCEPT ![pidx] = Junk]
  /\ UNCHANGED <<phase, mem, pcount>>

pmm_alloc_ppage ==
  /\ phase = "run" /\ pfree # 0
  /\ IF Link(pidx)
     THEN ret' = win /\ win' = mem[win][Entries - 1]
     ELSE ret' = mem[win][pidx % Entries] /\ win' = win
  /\ pidx' = pidx + 1 /\ pfree' = pfree - 1
  /\ held' = held \cup {ret'}
  /\ list' = [list EXCEPT ![pidx] = Junk]
  /\ UNCHANGED <<phase, mem, pcount>>

pmm_alloc_ppage_none ==
  /\ phase = "run" /\ pfree = 0
  /\ ret' = Invalid
  /\ UNCHANGED <<phase, mem, win, pcount, pidx, pfree, held, list>>

\* Mutant: the link of the new list page is not written.
pmm_free_ppage_unlinked(p) ==
  /\ phase = "run" /\ p \in held /\ Junk \notin held
  /\ pidx' = pidx - 1
  /\ IF Link(pidx')
     THEN win' = p /\ mem' = mem
     ELSE win' = win /\ mem' = Store(win, pidx' % Entries, p)
  /\ pfree' = pfree + 1
  /\ held' = held \ {p}
  /\ list' = [list EXCEPT ![pidx'] = p]
  /\ UNCHANGED <<phase, pcount, ret>>

\* Pages are freed by who holds them; once junk has been handed out as a
\* page the model ends.
pmm_free_ppage(p) ==
  /\ phase = "run" /\ p \in held /\ Junk \notin held
  /\ pidx' = pidx - 1
  /\ IF Link(pidx')
     THEN win' = p /\ mem' = Store(p, Entries - 1, win)
     ELSE win' = win /\ mem' = Store(win, pidx' % Entries, p)
  /\ pfree' = pfree + 1
  /\ held' = held \ {p}
  /\ list' = [list EXCEPT ![pidx'] = p]
  /\ UNCHANGED <<phase, pcount, ret>>

\* The owner of a page uses it.
Scribble(p) ==
  /\ p \in held \cap Frames
  /\ mem' = [mem EXCEPT ![p] = [e \in 0 .. Entries - 1 |-> Junk]]
  /\ UNCHANGED <<phase, win, pcount, pidx, pfree, ret, held, list>>

Next ==
  \/ pmm_init_page \/ pmm_init
  \/ pmm_alloc_ppage \/ pmm_alloc_ppage_none
  \/ \E p \in held : pmm_free_ppage(p) \/ Scribble(p)

Spec == Init /\ [][Next]_vars

-----------------------------------------------------------------------------
\* A page is never handed out twice, nor is anything that is not a page,
\* whatever is freed in whatever order and whatever its owner writes to it.
\* The exception is the very last allocation: pmm_init counts the last list
\* page (pmm.cpp:28), which the list itself does not contain unless it is full.
Fresh ==
  pidx' = pidx + 1 =>
    /\ ret' \notin held
    /\ ret' \in Frames \/ (pfree = 1 /\ ~ Link(N))
AllocFresh == [][Fresh]_vars

\* The list page under the window is not in anybody's hands: what an owner
\* writes to its page cannot change the free list.
WindowIsFree == phase = "run" /\ pfree > 0 => win \in Frames \ held

-----------------------------------------------------------------------------
(* The inductive invariant.  `list' gives every stack index the page that  *)
(* an allocation at that index returns, list pages included: the place of  *)
(* a list page is the index of its own last entry.                         *)

\* Memory says what `list' says about entry i.
Linked(i) == IF Link(i) THEN mem[list[i]][Entries - 1] = list[i + Entries]
                        ELSE mem[list[Top(i)]][i % Entries] = list[i]

\* The indices that hold free pages.
Live == {i \in pidx .. Last : i < N \/ i = Last}

\* The free list can be followed from the window on.
MemInv ==
  /\ win = list[Top(pidx)]
  /\ \A i \in pidx .. Last : Linked(i)
  /\ \A i \in N .. Last - 1 : list[i] = Junk

\* No page is in two places.
DistinctInv ==
  /\ \A i \in Live : list[i] \in Frames /\ list[i] \notin held
  /\ \A i, j \in Live : list[i] = list[j] => i = j

\* The stack index counts the pages that are out.  Unless the list fits its
\* last page exactly, the last one to go out is junk.
CountInv ==
  /\ pfree = N + 1 - pidx
  /\ IsFiniteSet(held) /\ Cardinality(held) = pidx
  /\ Junk \in held <=> (pidx = N + 1 /\ N # Last)

\* The pages pmm_init has seen after k rounds, and the indices it has set.
Seen(k) == {Initial} \cup {Listed[j] : j \in 1 .. k}
Built == {i \in 0 .. Top(pcount) : i < pcount \/ i = Top(pcount)}

\* The same for the part of the list that pmm_init has built.
BuildInv ==
  /\ pidx = 0 /\ pfree = 0 /\ held = {} /\ pcount <= N
  /\ list[Entries - 1] = Initial /\ win = list[Top(pcount)]
  /\ \A i \in Built : list[i] \in Seen(pcount)
  /\ \A i \in 0 .. N + 2 * Entries : i \notin Built => list[i] = Junk
  /\ \A i, j \in Built : list[i] = list[j] => i = j
  /\ \A i \in 0 .. pcount - 1 : Linked(i)
  /\ \A f \in Frames \ Seen(pcount) : \A e \in 0 .. Entries - 1 : mem[f][e] = Junk
  /\ \A e \in pcount % Entries .. Entries - 1 : mem[win][e] = Junk

\* The inductive invariant: whatever pmm_init, allocations, frees and the
\* owners of pages do, memory holds the free list and nothing is on it twice.
IInv ==
  /\ TypeOK
  /\ phase = "init" => BuildInv
  /\ phase = "run" => MemInv /\ DistinctInv /\ CountInv
=============================================================================
