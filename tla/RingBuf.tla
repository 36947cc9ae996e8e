------------------------------ MODULE RingBuf ------------------------------
(***************************************************************************)
(* stage3/mem/ringbuf.cpp as the lock-free single-producer, single-        *)
(* consumer queue it is written to be: one step per call that reads or     *)
(* advances the header and one step per byte copied, freely interleaved.   *)
(*                                                                         *)
(* The two clients are the most general ones the interface serves: look at *)
(* buf_elements, ask for any length, give up on a negative answer, copy    *)
(* byte by byte, commit.  They ask only when at least one slot (one byte)  *)
(* is there: the answer 0 means both "nothing free" and "index 0", and no  *)
(* client can tell the two apart.  ser_write does not take that care, and  *)
(* asks for one slot too many: module Serial models what it does.          *)
(*                                                                         *)
(* Byte number k is the number k, so that `out' shows loss, duplication    *)
(* and reordering.                                                         *)
(***************************************************************************)
EXTENDS RingHdr, Sequences

CONSTANT MaxTotal   \* bound: bytes written in a behaviour

ASSUME TotalAssumption == MaxTotal \in Nat

VARIABLES hdr,      \* the packed header
          slots,    \* the buffer
          ppc,      \* the producer: where it is
          pnum,     \*   the length it asks for
          ppos,     \*   the index it was given
          pdone,    \*   the bytes it has copied
          cpc,      \* the consumer, likewise
          cnum, cpos, cdone,
          total,    \* history: bytes committed by the producer
          out       \* history: bytes copied out by the consumer

prodVars == <<ppc, pnum, ppos, pdone>>
consVars == <<cpc, cnum, cpos, cdone>>
vars == <<hdr, slots, prodVars, consVars, total, out>>

Slot == 0 .. Size - 1

TypeOK ==
  /\ hdr \in Header
  /\ slots \in [Slot -> Nat]
  /\ ppc \in {"idle", "sized", "fill"}
  /\ pnum \in Nat /\ ppos \in Slot /\ pdone \in Nat
  /\ cpc \in {"idle", "sized", "drain"}
  /\ cnum \in Nat /\ cpos \in Slot /\ cdone \in Nat
  /\ total \in Nat
  /\ out \in Seq(Nat)

Init ==
  /\ hdr = buf_init
  /\ slots = [s \in Slot |-> 0]
  /\ ppc = "idle" /\ pnum = 0 /\ ppos = 0 /\ pdone = 0
  /\ cpc = "idle" /\ cnum = 0 /\ cpos = 0 /\ cdone = 0
  /\ total = 0
  /\ out = <<>>

-----------------------------------------------------------------------------
(* The producer.                                                           *)

\* It sees a free slot and settles on a length, which may be too long.
ProdLook ==
  /\ ppc = "idle"
  /\ Capacity(hdr) > 0
  /\ \E n \in 1 .. Size :
       /\ total + n <= MaxTotal
       /\ pnum' = n
  /\ ppc' = "sized"
  /\ pdone' = 0
  /\ UNCHANGED <<hdr, slots, ppos, consVars, total, out>>

\* buf_write: the load of the header and, with the wrap bit set, the
\* atomic_fetch_and.  A negative answer makes the caller give up.
ProdBufWrite ==
  /\ ppc = "sized"
  /\ LET ret == buf_write_ret(hdr, pnum)
     IN  IF ret < 0 THEN ppc' = "idle" /\ ppos' = ppos
                    ELSE ppc' = "fill" /\ ppos' = ret
  /\ hdr' = buf_write_hdr(hdr)
  /\ UNCHANGED <<slots, pnum, pdone, consVars, total, out>>

\* One byte of the copy into the buffer, which wraps at its end.
ProdFill ==
  /\ ppc = "fill"
  /\ pdone < pnum
  /\ slots' = [slots EXCEPT ![(ppos + pdone) % Size] = total + pdone + 1]
  /\ pdone' = pdone + 1
  /\ UNCHANGED <<hdr, ppc, pnum, ppos, consVars, total, out>>

\* Mutant: the commit may come before the last byte is in its slot.
ProdCommitEarly ==
  /\ ppc = "fill"
  /\ pdone + 1 >= pnum
  /\ hdr' = buf_write_commit(hdr, pnum)
  /\ total' = total + pnum
  /\ ppc' = "idle"
  /\ UNCHANGED <<slots, pnum, ppos, pdone, consVars, out>>

\* buf_write_commit.
ProdCommit ==
  /\ ppc = "fill"
  /\ pdone = pnum
  /\ hdr' = buf_write_commit(hdr, pnum)
  /\ total' = total + pnum
  /\ ppc' = "idle"
  /\ UNCHANGED <<slots, pnum, ppos, pdone, consVars, out>>

-----------------------------------------------------------------------------
(* The consumer.                                                           *)

\* It sees a byte and settles on a length, which may be too long.
ConsLook ==
  /\ cpc = "idle"
  /\ buf_elements(hdr) > 0
  /\ \E n \in 1 .. Size : cnum' = n
  /\ cpc' = "sized"
  /\ cdone' = 0
  /\ UNCHANGED <<hdr, slots, prodVars, cpos, total, out>>

\* buf_read: a load of the header.
ConsBufRead ==
  /\ cpc = "sized"
  /\ LET ret == buf_read_ret(hdr, cnum)
     IN  IF ret < 0 THEN cpc' = "idle" /\ cpos' = cpos
                    ELSE cpc' = "drain" /\ cpos' = ret
  /\ UNCHANGED <<hdr, slots, prodVars, cnum, cdone, total, out>>

\* One byte of the copy out of the buffer.
ConsDrain ==
  /\ cpc = "drain"
  /\ cdone < cnum
  /\ out' = Append(out, slots[(cpos + cdone) % Size])
  /\ cdone' = cdone + 1
  /\ UNCHANGED <<hdr, slots, prodVars, cpc, cnum, cpos, total>>

\* Mutant: the slots are given back with one byte still to copy, which is
\* then copied from a slot the producer may have reused.
ConsCommitEarly ==
  /\ cpc = "drain"
  /\ \/ cdone = cnum - 1 /\ hdr' = buf_read_commit(hdr, cnum)
        /\ cdone' = cnum /\ cpc' = "drain" /\ out' = out
     \/ cdone = cnum /\ hdr' = hdr
        /\ cdone' = cnum /\ cpc' = "idle"
        /\ out' = Append(out, slots[(cpos + cnum - 1) % Size])
  /\ UNCHANGED <<slots, prodVars, cnum, cpos, total>>

\* buf_read_commit.
ConsCommit ==
  /\ cpc = "drain"
  /\ cdone = cnum
  /\ hdr' = buf_read_commit(hdr, cnum)
  /\ cpc' = "idle"
  /\ UNCHANGED <<slots, prodVars, cnum, cpos, cdone, total, out>>

-----------------------------------------------------------------------------
\* Every byte has gone through: the producer is at its bound and the
\* consumer has nothing left.
Finished ==
  /\ ppc = "idle" /\ total = MaxTotal
  /\ cpc = "idle" /\ buf_elements(hdr) <= 0
  /\ UNCHANGED vars

Next == \/ ProdLook \/ ProdBufWrite \/ ProdFill \/ ProdCommit
        \/ ConsLook \/ ConsBufRead \/ ConsDrain \/ ConsCommit
        \/ Finished

Spec == Init /\ [][Next]_vars

-----------------------------------------------------------------------------
\* The consumer sees the bytes of the producer, all of them, in order and
\* once: buf_write never hands out a slot that the consumer has not given
\* back, and buf_read never one that the producer has not committed.
InOrder == \A i \in 1 .. Len(out) : out[i] = i

\* The promise of the abstract queue: with one slot left free, no more than
\* Size - 1 bytes are ever pending, the consumer sees the next byte of the
\* stream only once the producer has committed it, and its slot is given
\* back only once it is seen.
FifoSpec == INSTANCE Fifo WITH Bound <- Size - 1, written <- hdr.lo, read <- hdr.hi
Refinement == FifoSpec!Spec

-----------------------------------------------------------------------------
(* Why InOrder holds while at most MAX_ELEM bytes have gone through: the   *)
(* inductive invariant of the proofs.                                      *)

\* The halves of the header are the true stream positions, and at least one
\* slot is free.
HdrInv ==
  /\ hdr.lo = total /\ total <= MaxTotal
  /\ hdr.hi <= total /\ total - hdr.hi <= Size - 1

\* The free slot the producer saw is still free, and so are the slots it
\* has been granted.
ProdInv ==
  /\ ppc # "idle" => pnum >= 1 /\ total + pnum <= MaxTotal
  /\ ppc = "sized" => pdone = 0 /\ total - hdr.hi < Size - 1
  /\ ppc = "fill" => /\ ppos = total % Size
                     /\ total + pnum - hdr.hi <= Size - 1
                     /\ pdone <= pnum

\* The byte the consumer saw is still there, and so are the bytes it has
\* been granted.
ConsInv ==
  /\ cpc # "idle" => cnum >= 1
  /\ cpc = "sized" => cdone = 0 /\ hdr.hi < total
  /\ cpc = "drain" => /\ cpos = hdr.hi % Size
                      /\ hdr.hi + cnum <= total
                      /\ cdone <= cnum

\* The number of bytes that have entered the buffer, committed or not.
Filled == IF ppc = "fill" THEN total + pdone ELSE total

\* The number of bytes that have been copied out.
Drained == IF cpc = "drain" THEN hdr.hi + cdone ELSE hdr.hi

\* Every byte that is not given back is in its slot.
DataInv == \A i \in hdr.hi .. Filled - 1 : slots[i % Size] = i + 1

OutInv == Len(out) = Drained /\ InOrder

\* The inductive invariant: what the header, the two clients and the buffer
\* have to do with each other whenever a call of ringbuf.cpp takes effect.
IInv == TypeOK /\ HdrInv /\ ProdInv /\ ConsInv /\ DataInv /\ OutInv
=============================================================================
