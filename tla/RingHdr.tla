------------------------------ MODULE RingHdr ------------------------------
(***************************************************************************)
(* The packed header of stage3/mem/ringbuf.cpp and the functions computed  *)
(* from it.  The code keeps head and tail in one uint32_t: head in bits    *)
(* 0..14, a wrap bit in bit 15, tail in bits 16..31, so that one atomic    *)
(* access reads or advances either index.                                  *)
(*                                                                         *)
(* A header is modelled as its two 16-bit halves [lo, hi], which is the    *)
(* same word: the carry out of lo goes into hi, the carry out of hi is     *)
(* lost.  The width is a parameter (MaxElem = 16^4/2 - 1 in the code).     *)
(***************************************************************************)
EXTENDS Integers

CONSTANTS Size,     \* slots in the buffer; mask = Size - 1
          MaxElem   \* MAX_ELEM, 0x7FFF in the code

\* "All buffers must use power-of-two sizes" (ringbuf.h), so x & mask is
\* x % Size.
ASSUME RingAssumption ==
  /\ Size \in Nat \ {0}
  /\ \E k \in 0 .. Size : Size = 2^k
  /\ MaxElem \in Nat
  /\ Size <= MaxElem + 1

\* One more than the largest value of a half of the header (0x10000).
Half == 2 * (MaxElem + 1)

Header == [lo : 0 .. Half - 1, hi : 0 .. Half - 1]

\* x & MAX_ELEM, for a half x of the header.
Masked(x) == IF x > MaxElem THEN x - (MaxElem + 1) ELSE x

\* The two indices that GRAB_HEAD_TAIL extracts.
HeadOf(r) == Masked(r.lo)
TailOf(r) == Masked(r.hi)

WrapBit(r) == r.lo > MaxElem

-----------------------------------------------------------------------------
\* A sum of two halves, reduced to the width of a half.
Wrapped(x) == IF x >= Half THEN x - Half ELSE x

\* __atomic_fetch_add on the packed word.
atomic_fetch_add(r, v) ==
  LET carry == IF r.lo + v.lo >= Half THEN 1 ELSE 0
  IN  [lo |-> Wrapped(r.lo + v.lo), hi |-> Wrapped(r.hi + v.hi + carry)]

\* crt/atomic.h defines every read-modify-write, AND included, as
\* __atomic_fetch_add.
atomic_fetch_and(r, v) == atomic_fetch_add(r, v)

\* ~0x8000 as a packed word.
NotWrapBit == [lo |-> MaxElem, hi |-> Half - 1]

buf_init == [lo |-> 0, hi |-> 0]

-----------------------------------------------------------------------------
\* head - tail.  The code's uint32_t result is always used as, or converted
\* to, an int32_t, so the signed difference is exact.
buf_elements(r) == HeadOf(r) - TailOf(r)

Capacity(r) == (Size - buf_elements(r)) - 1

\* int32_t a compared to uint32_t n: a negative a is a large unsigned value.
UnsignedLess(a, n) == 0 <= a /\ a < n

\* The result of buf_write: the index of the first slot to fill, or
\* -capacity when fewer than num slots are free.
buf_write_ret(r, num) ==
  IF UnsignedLess(Capacity(r), num) THEN -Capacity(r) ELSE HeadOf(r) % Size

\* The header buf_write leaves, r being the header it loaded.  The load and the
\* atomic_fetch_and are one step here, between which the other side could come
\* in the code; below MaxElem the wrap bit is never set and there is no second.
buf_write_hdr(r) ==
  IF WrapBit(r) THEN atomic_fetch_and(r, NotWrapBit) ELSE r

\* The result of buf_read: the index of the first slot to drain, or
\* -elements when fewer than num slots are filled.
buf_read_ret(r, num) ==
  IF UnsignedLess(buf_elements(r), num) THEN -buf_elements(r)
                                        ELSE TailOf(r) % Size

\* Mutant: the commit of a write advances the tail.
buf_write_commit_swapped(r, num) == atomic_fetch_add(r, [lo |-> 0, hi |-> num])

buf_write_commit(r, num) == atomic_fetch_add(r, [lo |-> num, hi |-> 0])

buf_read_commit(r, num) == atomic_fetch_add(r, [lo |-> 0, hi |-> num])
=============================================================================
