-------------------------------- MODULE Slab --------------------------------
(***************************************************************************)
(* stage3/mem/slab.cpp: one page cut into equal blocks, the free ones      *)
(* chained through their first word.                                       *)
(*                                                                         *)
(* A block is the offset of its first word.  The owner of a block may      *)
(* overwrite its words at any time.  The caller follows the tests          *)
(* (test/slabtest.cpp): it asks slabp_full before it allocates and frees   *)
(* what it was given.                                                      *)
(***************************************************************************)
EXTENDS Integers, FiniteSets

CONSTANTS PageWords,   \* SLABP_SIZE, the words of a page after its header
          Sentinel,    \* SLAB_SENTINEL
          Junk         \* what an owner writes, and what the page holds first

Word == 0 .. PageWords - 1

ASSUME SlabAssumption ==
  /\ PageWords \in Nat /\ PageWords > 0
  /\ Sentinel \notin Word /\ Junk \notin Word /\ Sentinel # Junk

VARIABLES phase,        \* "init" while slabp_init runs, then "run"
          data,         \* the words of the page
          size,         \* words of a block
          first_free,   \* offset of the first free block
          free,         \* the field free: the rounds of slabp_init's loop
          held,         \* history: blocks allocated and not freed
          top,          \* history: the number of allocated blocks
          list          \* history: the free blocks in order, from top on

vars == <<phase, data, size, first_free, free, held, top, list>>

TypeOK ==
  /\ phase \in {"init", "run"}
  /\ data \in [Word -> Word \cup {Sentinel, Junk}]
  /\ size \in 1 .. PageWords
  /\ first_free \in Word \cup {Sentinel}
  /\ free \in Word
  /\ held \subseteq Word
  /\ top \in 0 .. PageWords
  /\ list \in [Word -> Nat]

\* The entry of slabp_init: its assertion bounds size, and the fields are set.
Init ==
  /\ phase = "init"
  /\ data = [w \in Word |-> Junk]
  /\ size \in 1 .. PageWords
  /\ first_free = 0 /\ free = 0
  /\ held = {} /\ top = 0
  /\ list = [i \in Word |-> i * size]

-----------------------------------------------------------------------------
slabp_full == first_free = Sentinel

\* One round of slabp_init's loop.
slabp_init_block ==
  /\ phase = "init" /\ first_free + size < PageWords
  /\ data' = [data EXCEPT ![first_free] = first_free + size]
  /\ first_free' = first_free + size
  /\ free' = free + 1
  /\ UNCHANGED <<phase, size, held, top, list>>

\* Mutant: the end of the list is marked one block too early.
slabp_init_early ==
  /\ phase = "init" /\ first_free + size >= PageWords
  /\ data' = [data EXCEPT ![IF first_free = 0 THEN 0 ELSE first_free - size] = Sentinel]
  /\ first_free' = 0
  /\ phase' = "run"
  /\ UNCHANGED <<size, free, held, top, list>>

\* The loop has ended: the last block gets the end mark.
slabp_init ==
  /\ phase = "init" /\ first_free + size >= PageWords
  /\ data' = [data EXCEPT ![first_free] = Sentinel]
  /\ first_free' = 0
  /\ phase' = "run"
  /\ UNCHANGED <<size, free, held, top, list>>

slabp_alloc ==
  /\ phase = "run" /\ ~ slabp_full
  /\ first_free' = data[first_free]
  /\ held' = held \cup {first_free}
  /\ top' = top + 1
  /\ list' = [list EXCEPT ![top] = 0]
  /\ UNCHANGED <<phase, data, size, free>>

\* Mutant: the block is linked to the list after the list's head has moved.
slabp_free_late(b) ==
  /\ b \in held
  /\ data' = [data EXCEPT ![b] = b]
  /\ first_free' = b
  /\ held' = held \ {b}
  /\ top' = top - 1
  /\ list' = [list EXCEPT ![top - 1] = b]
  /\ UNCHANGED <<phase, size, free>>

\* The assertion of slabp_free, that the block lies in the page, is part of
\* TypeOK.
slabp_free(b) ==
  /\ b \in held
  /\ data' = [data EXCEPT ![b] = first_free]
  /\ first_free' = b
  /\ held' = held \ {b}
  /\ top' = top - 1
  /\ list' = [list EXCEPT ![top - 1] = b]
  /\ UNCHANGED <<phase, size, free>>

\* The owner of a block uses all of it; words past the page are not modelled.
Scribble(b) ==
  /\ b \in held
  /\ data' = [w \in Word |-> IF b <= w /\ w < b + size THEN Junk ELSE data[w]]
  /\ UNCHANGED <<phase, size, first_free, free, held, top, list>>

Next ==
  \/ slabp_init_block \/ slabp_init \/ slabp_alloc
  \/ \E b \in held : slabp_free(b) \/ Scribble(b)

Spec == Init /\ [][Next]_vars

-----------------------------------------------------------------------------
\* Two blocks have no word in common.
Apart(b, c) == b + size <= c \/ c + size <= b

\* slabp_alloc hands out a block that nobody holds and that shares no word
\* with one that is held, whatever was freed in whatever order and whatever
\* owners wrote ("Slab allocator allocates all unique elements").
Fresh ==
  top' = top + 1 => \E b \in Word \ held : held' = held \cup {b} /\ \A c \in held : Apart(b, c)
AllocFresh == [][Fresh]_vars

\* No block is lost: slabp_full answers true only when every block of the
\* page is in somebody's hands.
NoLeak ==
  phase = "run" /\ slabp_full => \A k \in Word : k * size < PageWords => k * size \in held

-----------------------------------------------------------------------------
(* The inductive invariant.  The free blocks are list[top] .. list[free],  *)
(* and the page holds that list.                                           *)

\* The blocks of the page, when slabp_init has counted n rounds.
Blocks(n) == {k * size : k \in 0 .. n}

\* What first_free, or the link before it, says of the list's entry i.
Entry(i) == IF i > free THEN Sentinel ELSE list[i]

\* slabp_init has linked the blocks below first_free.
BuildInv ==
  /\ first_free = free * size /\ first_free < PageWords
  /\ held = {} /\ top = 0
  /\ \A i \in Word : list[i] = i * size
  /\ \A i \in Word : i < free => data[i * size] = (i + 1) * size

\* The page holds the list.
MemInv ==
  /\ first_free = Entry(top)
  /\ \A i \in top .. free : data[list[i]] = Entry(i + 1)

\* Every block is on the list once, or held.
PlaceInv ==
  /\ free * size < PageWords /\ (free + 1) * size >= PageWords
  /\ held \subseteq Blocks(free)
  /\ \A i \in top .. free : list[i] \in Blocks(free) \ held
  /\ \A i, j \in top .. free : list[i] = list[j] => i = j
  /\ \A b \in Blocks(free) \ held : \E i \in top .. free : b = list[i]

CountInv ==
  /\ top <= free + 1
  /\ IsFiniteSet(held) /\ Cardinality(held) = top

\* The inductive invariant of the slab page: every block is free or held, and
\* the words of the free ones hold the list of them.
IInv ==
  /\ TypeOK
  /\ phase = "init" => BuildInv
  /\ phase = "run" => MemInv /\ PlaceInv /\ CountInv
=============================================================================
