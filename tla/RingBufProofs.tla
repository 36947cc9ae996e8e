--------------------------- MODULE RingBufProofs ---------------------------
(***************************************************************************)
(* For every buffer size and header width: as long as the stream is no     *)
(* longer than MAX_ELEM bytes, the ring buffer delivers it in order and    *)
(* implements the bounded queue of module Fifo.                            *)
(***************************************************************************)
EXTENDS RingBuf, TLAPS

-----------------------------------------------------------------------------
(* Arithmetic with a symbolic divisor.                                     *)

\* Quotient and remainder rebuild the number.
LEMMA DivMod ==
  ASSUME NEW N \in Nat \ {0}, NEW a \in Int
  PROVE  /\ a \div N \in Int
         /\ a % N \in 0 .. N - 1
         /\ a = N * (a \div N) + (a % N)
  OBVIOUS

\* A positive multiple of N is at least N.
LEMMA MulAtLeast ==
  ASSUME NEW N \in Nat \ {0}, NEW k \in Int, k >= 1
  PROVE  N * k >= N
  OBVIOUS

\* They are the only ones that do.
LEMMA ModIs ==
  ASSUME NEW N \in Nat \ {0}, NEW x \in Int,
         NEW q \in Int, NEW r \in 0 .. N - 1, x = N * q + r
  PROVE  x % N = r /\ x \div N = q
  OBVIOUS

\* An index may be reduced before or after an offset is added to it.
LEMMA ModAdd ==
  ASSUME NEW N \in Nat \ {0}, NEW a \in Nat, NEW d \in Nat
  PROVE  ((a % N) + d) % N = (a + d) % N
<1>1. PICK q \in Int, m \in 0 .. N - 1 : m = a % N /\ a = N * q + m
  <2>1. a \in Int
    OBVIOUS
  <2> QED
    BY <2>1, DivMod
<1>2. PICK p \in Int, r \in 0 .. N - 1 : r = (m + d) % N /\ m + d = N * p + r
  <2>1. m + d \in Int
    OBVIOUS
  <2> QED
    BY <2>1, DivMod
<1>3. a + d = N * (q + p) + r
  BY <1>1, <1>2
<1>4. a + d \in Int /\ q + p \in Int
  OBVIOUS
<1>5. (a + d) % N = r
  BY <1>3, <1>4, ModIs
<1> QED
  BY <1>1, <1>2, <1>5

\* Two indices less than N apart have different slots.
LEMMA ModDistinct ==
  ASSUME NEW N \in Nat \ {0}, NEW a \in Nat, NEW b \in Nat, a < b, b < a + N
  PROVE  a % N # b % N
<1> DEFINE qa == a \div N
           qb == b \div N
<1>1. a = N * qa + (a % N) /\ qa \in Int /\ a % N \in 0 .. N - 1
  BY DivMod
<1>2. b = N * qb + (b % N) /\ qb \in Int /\ b % N \in 0 .. N - 1
  BY DivMod
<1> HIDE DEF qa, qb
<1> SUFFICES ASSUME a % N = b % N PROVE FALSE
  OBVIOUS
<1>3. N * (qb - qa) = b - a
  <2>1. N * (qb - qa) = N * qb - N * qa
    BY <1>1, <1>2
  <2> QED
    BY <2>1, <1>1, <1>2
<1>4. qb - qa >= 1
  <2> SUFFICES ASSUME qa - qb >= 0 PROVE FALSE
    BY <1>1, <1>2
  <2>1. N * (qa - qb) >= 0
    BY <1>1, <1>2
  <2>2. N * (qa - qb) = a - b
    BY <1>3, <1>1, <1>2
  <2> QED
    BY <2>1, <2>2
<1>5. N * (qb - qa) >= N
  BY <1>1, <1>2, <1>4, MulAtLeast
<1> QED
  BY <1>3, <1>5
-----------------------------------------------------------------------------

\* Below the wrap bit the masks of GRAB_HEAD_TAIL change nothing.
LEMMA NoWrap ==
  ASSUME MaxTotal <= MaxElem, TypeOK, HdrInv
  PROVE  /\ HeadOf(hdr) = total /\ TailOf(hdr) = hdr.hi
         /\ buf_elements(hdr) = total - hdr.hi
         /\ ~ WrapBit(hdr)
         /\ buf_write_hdr(hdr) = hdr
  BY RingAssumption, TotalAssumption
  DEF TypeOK, HdrInv, HeadOf, TailOf, Masked, buf_elements, WrapBit, Header, Half,
      buf_write_hdr

\* A commit advances one half of the header and leaves the other alone.
LEMMA Commit ==
  ASSUME MaxTotal <= MaxElem, NEW r \in Header, NEW n \in Nat
  PROVE  /\ r.lo + n <= MaxTotal => buf_write_commit(r, n) = [lo |-> r.lo + n, hi |-> r.hi]
         /\ r.hi + n <= MaxTotal => buf_read_commit(r, n) = [lo |-> r.lo, hi |-> r.hi + n]
  BY RingAssumption, TotalAssumption
  DEF Header, Half, buf_write_commit, buf_read_commit, atomic_fetch_add, Wrapped

LEMMA InitInv == Init => IInv
<1> SUFFICES ASSUME Init PROVE IInv
  OBVIOUS
<1> USE RingAssumption, TotalAssumption DEF Init, buf_init
<1>1. TypeOK
  BY DEF TypeOK, Header, Half, Slot
<1>2. HdrInv /\ ProdInv /\ ConsInv
  BY DEF HdrInv, ProdInv, ConsInv
<1>3. DataInv /\ OutInv
  BY DEF DataInv, OutInv, Filled, Drained, InOrder
<1> QED
  BY <1>1, <1>2, <1>3 DEF IInv

-----------------------------------------------------------------------------
\* Every step of either client preserves the invariant.
LEMMA NextInv ==
  ASSUME MaxTotal <= MaxElem, IInv, [Next]_vars
  PROVE  IInv'
<1> USE RingAssumption, TotalAssumption DEF prodVars, consVars
<1>a. TypeOK /\ HdrInv /\ ProdInv /\ ConsInv /\ DataInv /\ OutInv
  BY DEF IInv
<1>0. /\ HeadOf(hdr) = total /\ TailOf(hdr) = hdr.hi
      /\ buf_elements(hdr) = total - hdr.hi
      /\ ~ WrapBit(hdr) /\ buf_write_hdr(hdr) = hdr
  BY <1>a, NoWrap
<1>t. /\ total \in Nat /\ hdr \in Header /\ hdr.hi \in Nat /\ hdr.lo \in Nat
      /\ pnum \in Nat /\ pdone \in Nat /\ cnum \in Nat /\ cdone \in Nat
      /\ Size \in Nat \ {0}
  BY <1>a DEF TypeOK, Header, Half
<1>c. Capacity(hdr) = Size - (total - hdr.hi) - 1
  BY <1>0, <1>t DEF Capacity
<1>1. CASE ProdLook
  <2>1. TypeOK'
    BY <1>1, <1>a DEF ProdLook, TypeOK
  <2>2. HdrInv' /\ ProdInv' /\ ConsInv'
    BY <1>1, <1>a, <1>t, <1>c DEF ProdLook, HdrInv, ProdInv, ConsInv
  <2>3. Filled' = Filled /\ Drained' = Drained
    BY <1>1 DEF ProdLook, Filled, Drained
  <2>4. DataInv' /\ OutInv'
    BY <1>1, <1>a, <2>3 DEF ProdLook, DataInv, OutInv, InOrder
  <2> QED
    BY <2>1, <2>2, <2>4 DEF IInv
<1>2. CASE ProdBufWrite
  <2>0. hdr' = hdr /\ ppc = "sized" /\ UNCHANGED <<slots, pnum, pdone, consVars, total, out>>
    BY <1>0, <1>2 DEF ProdBufWrite
  <2>1. \/ ppc' = "idle" /\ ppos' = ppos
        \/ /\ ppc' = "fill" /\ ppos' = total % Size /\ total % Size \in Slot
           /\ total + pnum - hdr.hi <= Size - 1
    <3>1. total % Size \in Nat /\ total % Size \in Slot
      BY <1>t, DivMod DEF Slot
    <3>2. CASE Capacity(hdr) < pnum
      <4>1. buf_write_ret(hdr, pnum) = - Capacity(hdr) /\ Capacity(hdr) > 0
        BY <1>a, <1>c, <1>t, <2>0, <3>2 DEF buf_write_ret, UnsignedLess, ProdInv
      <4> QED
        BY <4>1, <1>2, <1>c, <1>t DEF ProdBufWrite
    <3>3. CASE ~ (Capacity(hdr) < pnum)
      <4>1. buf_write_ret(hdr, pnum) = total % Size
        BY <1>0, <1>c, <1>t, <3>3 DEF buf_write_ret, UnsignedLess
      <4> QED
        BY <4>1, <3>1, <3>3, <1>2, <1>c, <1>t DEF ProdBufWrite
    <3> QED
      BY <3>2, <3>3
  <2>2. TypeOK'
    BY <1>a, <2>0, <2>1 DEF TypeOK
  <2>3. HdrInv' /\ ProdInv' /\ ConsInv'
    BY <1>a, <2>0, <2>1, <1>t DEF HdrInv, ProdInv, ConsInv
  <2>4. Filled' = Filled /\ Drained' = Drained
    BY <1>a, <2>0, <2>1, <1>t DEF Filled, Drained, ProdInv
  <2>5. DataInv' /\ OutInv'
    BY <1>a, <2>0, <2>4 DEF DataInv, OutInv, InOrder
  <2> QED
    BY <2>2, <2>3, <2>5 DEF IInv
<1>3. CASE ProdFill
  <2>1. PICK b \in Nat : b = total + pdone
    BY <1>t
  <2>2. pdone < pnum /\ ppos = total % Size /\ ppc = "fill"
    BY <1>a, <1>3 DEF ProdFill, ProdInv
  <2>3. (ppos + pdone) % Size = b % Size /\ b % Size \in Slot
    <3>1. b \in Int
      BY <2>1
    <3>2. b % Size \in Slot
      BY <3>1, <1>t, DivMod DEF Slot
    <3> QED
      BY <3>2, <2>1, <2>2, <1>t, ModAdd
  <2>4. slots' = [slots EXCEPT ![b % Size] = b + 1]
    BY <1>3, <2>1, <2>3 DEF ProdFill
  <2>5. TypeOK'
    BY <1>3, <1>a, <1>t, <2>3, <2>4 DEF ProdFill, TypeOK
  <2>6. HdrInv' /\ ProdInv' /\ ConsInv'
    BY <1>3, <1>a, <2>2, <1>t DEF ProdFill, HdrInv, ProdInv, ConsInv
  <2>7. Filled = b /\ Filled' = b + 1 /\ Drained' = Drained
    BY <1>3, <2>1, <2>2, <1>t DEF ProdFill, Filled, Drained
  <2>8. DataInv'
    <3> SUFFICES ASSUME NEW i \in hdr.hi .. b PROVE slots'[i % Size] = i + 1
      BY <1>3, <2>7, <1>t DEF DataInv, ProdFill
    <3>1. CASE i = b
      BY <3>1, <2>3, <2>4, <1>a DEF TypeOK
    <3>2. CASE i < b
      <4>1. i \in Nat /\ b < i + Size
        BY <1>a, <2>1, <2>2, <1>t DEF ProdInv
      <4>2. i % Size # b % Size
        BY <3>2, <4>1, <2>1, <1>t, ModDistinct
      <4>3. i % Size \in Slot
        <5>1. i \in Int
          BY <4>1
        <5> QED
          BY <5>1, <1>t, DivMod DEF Slot
      <4>4. slots[i % Size] = i + 1
        <5>1. i \in hdr.hi .. Filled - 1
          BY <3>2, <2>7, <4>1, <1>t
        <5> QED
          BY <5>1, <1>a DEF DataInv
      <4> QED
        BY <4>2, <4>3, <4>4, <2>4, <1>a DEF TypeOK
    <3> QED
      BY <3>1, <3>2, <1>t
  <2>9. OutInv'
    BY <1>3, <1>a, <2>7 DEF ProdFill, OutInv, InOrder
  <2> QED
    BY <2>5, <2>6, <2>8, <2>9 DEF IInv
<1>4. CASE ProdCommit
  <2>1. /\ pdone = pnum /\ hdr.lo = total /\ ppc = "fill"
        /\ total + pnum <= MaxTotal
    BY <1>4, <1>a DEF ProdCommit, ProdInv, HdrInv
  <2>2. hdr' = [lo |-> total + pnum, hi |-> hdr.hi]
    BY <1>4, <2>1, <1>t, Commit DEF ProdCommit
  <2>3. TypeOK'
    BY <1>4, <1>a, <2>1, <2>2, <1>t DEF ProdCommit, TypeOK, Header, Half
  <2>4. HdrInv' /\ ProdInv' /\ ConsInv'
    BY <1>4, <1>a, <2>1, <2>2, <1>t DEF ProdCommit, HdrInv, ProdInv, ConsInv
  <2>5. Filled' = Filled /\ Drained' = Drained /\ hdr'.hi = hdr.hi
    BY <1>4, <2>1, <2>2 DEF ProdCommit, Filled, Drained
  <2>6. DataInv' /\ OutInv'
    BY <1>4, <1>a, <2>5 DEF ProdCommit, DataInv, OutInv, InOrder
  <2> QED
    BY <2>3, <2>4, <2>6 DEF IInv
<1>5. CASE ConsLook
  <2>1. TypeOK'
    BY <1>5, <1>a DEF ConsLook, TypeOK
  <2>2. HdrInv' /\ ProdInv' /\ ConsInv'
    BY <1>5, <1>a, <1>t, <1>0 DEF ConsLook, HdrInv, ProdInv, ConsInv
  <2>3. Filled' = Filled /\ Drained' = Drained
    BY <1>5 DEF ConsLook, Filled, Drained
  <2>4. DataInv' /\ OutInv'
    BY <1>5, <1>a, <2>3 DEF ConsLook, DataInv, OutInv, InOrder
  <2> QED
    BY <2>1, <2>2, <2>4 DEF IInv
<1>6. CASE ConsBufRead
  <2>0. cpc = "sized" /\ UNCHANGED <<hdr, slots, prodVars, cnum, cdone, total, out>>
    BY <1>6 DEF ConsBufRead
  <2>1. \/ cpc' = "idle" /\ cpos' = cpos
        \/ /\ cpc' = "drain" /\ cpos' = hdr.hi % Size /\ hdr.hi % Size \in Slot
           /\ hdr.hi + cnum <= total
    <3>1. hdr.hi % Size \in Nat /\ hdr.hi % Size \in Slot
      <4>1. PICK a \in Int : a = hdr.hi
        BY <1>t
      <4>2. a % Size \in Nat /\ a % Size \in Slot
        BY <1>t, DivMod DEF Slot
      <4> QED
        BY <4>1, <4>2
    <3>2. CASE total - hdr.hi < cnum
      <4>1. buf_read_ret(hdr, cnum) = - (total - hdr.hi) /\ total - hdr.hi > 0
        BY <1>a, <1>0, <1>t, <2>0, <3>2 DEF buf_read_ret, UnsignedLess, ConsInv
      <4> QED
        BY <4>1, <1>6, <1>t DEF ConsBufRead
    <3>3. CASE ~ (total - hdr.hi < cnum)
      <4>1. buf_read_ret(hdr, cnum) = hdr.hi % Size
        BY <1>0, <1>t, <3>3 DEF buf_read_ret, UnsignedLess
      <4> QED
        BY <4>1, <3>1, <3>3, <1>6, <1>t DEF ConsBufRead
    <3> QED
      BY <3>2, <3>3
  <2>2. TypeOK'
    BY <1>a, <2>0, <2>1 DEF TypeOK
  <2>3. HdrInv' /\ ProdInv' /\ ConsInv'
    BY <1>a, <2>0, <2>1, <1>t DEF HdrInv, ProdInv, ConsInv
  <2>4. Filled' = Filled /\ Drained' = Drained
    BY <1>a, <2>0, <2>1, <1>t DEF Filled, Drained, ConsInv
  <2>5. DataInv' /\ OutInv'
    BY <1>a, <2>0, <2>4 DEF DataInv, OutInv, InOrder
  <2> QED
    BY <2>2, <2>3, <2>5 DEF IInv
<1>7. CASE ConsDrain
  <2>1. PICK b \in Nat : b = hdr.hi + cdone
    BY <1>t
  <2>2. cdone < cnum /\ cpos = hdr.hi % Size /\ cpc = "drain" /\ b < total
    BY <1>a, <1>7, <1>t, <2>1 DEF ConsDrain, ConsInv
  <2>3. (cpos + cdone) % Size = b % Size
    BY <2>1, <2>2, <1>t, ModAdd
  <2>4. slots[b % Size] = b + 1
    <3>1. b \in hdr.hi .. Filled - 1
      BY <2>1, <2>2, <1>t DEF Filled
    <3> QED
      BY <3>1, <1>a DEF DataInv
  <2>5. out' = Append(out, b + 1)
    BY <1>7, <2>3, <2>4 DEF ConsDrain
  <2>6. Len(out) = b /\ out \in Seq(Nat) /\ InOrder
    BY <1>a, <2>1, <2>2 DEF OutInv, Drained, TypeOK
  <2>7. TypeOK'
    BY <1>7, <1>a, <1>t, <2>5 DEF ConsDrain, TypeOK
  <2>8. HdrInv' /\ ProdInv' /\ ConsInv'
    BY <1>7, <1>a, <2>2, <1>t DEF ConsDrain, HdrInv, ProdInv, ConsInv
  <2>9. Filled' = Filled /\ Drained' = b + 1
    <3>1. Filled' = Filled
      BY <1>7 DEF ConsDrain, Filled
    <3>2. cpc' = "drain" /\ hdr' = hdr /\ cdone' = cdone + 1
      BY <1>7 DEF ConsDrain
    <3>3. Drained' = hdr.hi + (cdone + 1)
      BY <3>2 DEF Drained
    <3> QED
      BY <3>1, <3>3, <2>1, <1>t
  <2>10. DataInv'
    BY <1>7, <1>a, <2>9 DEF ConsDrain, DataInv
  <2>11. OutInv'
    BY <2>5, <2>6, <2>9 DEF OutInv, InOrder
  <2> QED
    BY <2>7, <2>8, <2>10, <2>11 DEF IInv
<1>8. CASE ConsCommit
  <2>1. cdone = cnum /\ cpc = "drain" /\ hdr.hi + cnum <= total /\ total <= MaxTotal
        /\ hdr.lo = total
    BY <1>8, <1>a DEF ConsCommit, ConsInv, HdrInv
  <2>2. hdr' = [lo |-> total, hi |-> hdr.hi + cnum]
    BY <1>8, <2>1, <1>t, Commit DEF ConsCommit
  <2>3. TypeOK'
    BY <1>8, <1>a, <2>1, <2>2, <1>t DEF ConsCommit, TypeOK, Header, Half
  <2>4. HdrInv' /\ ProdInv' /\ ConsInv'
    BY <1>8, <1>a, <2>1, <2>2, <1>t DEF ConsCommit, HdrInv, ProdInv, ConsInv
  <2>5. Filled' = Filled /\ Drained' = Drained
    BY <1>8, <2>1, <2>2 DEF ConsCommit, Filled, Drained
  <2>6. DataInv'
    <3>1. Filled \in Int
      BY <1>t DEF Filled
    <3>2. \A i \in hdr'.hi .. Filled - 1 : i \in hdr.hi .. Filled - 1
      BY <2>2, <1>t, <3>1
    <3> QED
      BY <1>8, <1>a, <2>5, <3>2 DEF ConsCommit, DataInv
  <2>7. OutInv'
    BY <1>8, <1>a, <2>5 DEF ConsCommit, OutInv, InOrder
  <2> QED
    BY <2>3, <2>4, <2>6, <2>7 DEF IInv
<1>9. CASE UNCHANGED vars
  BY <1>9, <1>a
  DEF vars, IInv, TypeOK, HdrInv, ProdInv, ConsInv, DataInv, OutInv, InOrder, Filled, Drained
<1> QED
  BY <1>1, <1>2, <1>3, <1>4, <1>5, <1>6, <1>7, <1>8, <1>9 DEF Next, Finished

-----------------------------------------------------------------------------
\* The inductive invariant holds of the specification: whatever the size of
\* the buffer and the interleaving, below the wrap of the head every granted
\* slot is the grantee's and every pending byte is in its slot.
THEOREM Invariant ==
  ASSUME MaxTotal <= MaxElem
  PROVE  Spec => []IInv
<1>1. IInv /\ [Next]_vars => IInv'
  BY NextInv
<1> QED
  BY InitInv, <1>1, PTL DEF Spec

\* Every variable keeps its type: in particular the header stays the packed
\* pair of two halves.
THEOREM TypeCorrect ==
  ASSUME MaxTotal <= MaxElem
  PROVE  Spec => []TypeOK
<1>1. IInv => TypeOK
  BY DEF IInv
<1> QED
  BY Invariant, <1>1, PTL

\* The consumer sees the bytes of the producer in order and once.
THEOREM Delivery ==
  ASSUME MaxTotal <= MaxElem
  PROVE  Spec => []InOrder
<1>1. IInv => InOrder
  BY DEF IInv, OutInv
<1> QED
  BY Invariant, <1>1, PTL

-----------------------------------------------------------------------------
\* Every step of the ring buffer is a step of the abstract queue or leaves
\* the queue alone.
LEMMA StepRefines ==
  ASSUME MaxTotal <= MaxElem, IInv, [Next]_vars
  PROVE  [FifoSpec!Next]_(FifoSpec!vars)
<1> USE RingAssumption, TotalAssumption DEF prodVars, consVars, FifoSpec!vars
<1>a. TypeOK /\ HdrInv /\ ProdInv /\ ConsInv /\ DataInv /\ OutInv
  BY DEF IInv
<1>t. /\ total \in Nat /\ hdr \in Header /\ hdr.hi \in Nat /\ hdr.lo = total
      /\ pnum \in Nat /\ pdone \in Nat /\ cnum \in Nat /\ cdone \in Nat
      /\ Size \in Nat \ {0}
  BY <1>a DEF TypeOK, HdrInv, Header, Half
<1>1. CASE ProdCommit
  <2>1. hdr' = [lo |-> hdr.lo + pnum, hi |-> hdr.hi] /\ out' = out
    BY <1>1, <1>a, <1>t, Commit DEF ProdCommit, ProdInv
  <2>2. pnum \in 1 .. Size - 1 /\ hdr.lo + pnum - hdr.hi <= Size - 1
    BY <1>1, <1>a, <1>t DEF ProdCommit, ProdInv, HdrInv
  <2>3. FifoSpec!Put
    BY <2>1, <2>2 DEF FifoSpec!Put
  <2> QED
    BY <2>3 DEF FifoSpec!Next
<1>2. CASE ConsDrain
  <2>1. hdr' = hdr /\ Len(out) = hdr.hi + cdone /\ Len(out) < hdr.lo
    BY <1>2, <1>a, <1>t DEF ConsDrain, OutInv, Drained, ConsInv
  <2>2. out' = Append(out, Len(out) + 1)
    <3>1. (cpos + cdone) % Size = (hdr.hi + cdone) % Size
      <4>1. cpos = hdr.hi % Size
        BY <1>2, <1>a DEF ConsDrain, ConsInv
      <4> QED
        BY <4>1, <1>t, ModAdd
    <3>2. hdr.hi + cdone \in hdr.hi .. Filled - 1
      BY <2>1, <1>t DEF Filled
    <3>3. slots[(hdr.hi + cdone) % Size] = hdr.hi + cdone + 1
      BY <3>2, <1>a DEF DataInv
    <3> QED
      BY <1>2, <2>1, <3>1, <3>3 DEF ConsDrain
  <2>3. FifoSpec!Take
    BY <2>1, <2>2 DEF FifoSpec!Take
  <2> QED
    BY <2>3 DEF FifoSpec!Next
<1>3. CASE ConsCommit
  <2>1. /\ cdone = cnum /\ cnum >= 1 /\ hdr.hi + cnum <= total /\ total <= MaxTotal
        /\ total - hdr.hi <= Size - 1 /\ Len(out) = hdr.hi + cnum
    BY <1>3, <1>a, <1>t DEF ConsCommit, ConsInv, HdrInv, OutInv, Drained
  <2>2. hdr' = [lo |-> hdr.lo, hi |-> hdr.hi + cnum] /\ out' = out
    BY <1>3, <2>1, <1>t, Commit DEF ConsCommit
  <2>3. cnum \in 1 .. Size - 1
    BY <2>1, <1>t
  <2>4. FifoSpec!Release
    BY <2>1, <2>2, <2>3 DEF FifoSpec!Release
  <2> QED
    BY <2>4 DEF FifoSpec!Next
<1>4. CASE ProdLook \/ ProdFill \/ ConsLook \/ ConsBufRead \/ Finished \/ UNCHANGED vars
  BY <1>4 DEF ProdLook, ProdFill, ConsLook, ConsBufRead, Finished, vars
<1>5. CASE ProdBufWrite
  BY <1>5, <1>a, NoWrap DEF ProdBufWrite
<1> QED
  BY <1>1, <1>2, <1>3, <1>4, <1>5 DEF Next

\* The ring buffer implements the bounded first-in first-out queue.
THEOREM Implements ==
  ASSUME MaxTotal <= MaxElem
  PROVE  Spec => Refinement
<1>1. Init => FifoSpec!Init
  BY DEF Init, buf_init, FifoSpec!Init
<1>2. IInv /\ [Next]_vars => [FifoSpec!Next]_(FifoSpec!vars)
  BY StepRefines
<1> QED
  BY Invariant, <1>1, <1>2, PTL DEF Spec, Refinement, FifoSpec!Spec
=============================================================================
