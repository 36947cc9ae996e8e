---------------------------- MODULE SerialProofs ----------------------------
(***************************************************************************)
(* The transmit path, for every depth of the UART's FIFO, every size of    *)
(* the ring and every sequence of messages, as long as no more than        *)
(* MAX_ELEM bytes have been printed (the header's wrap bit is not set):    *)
(* no byte is lost, repeated or reordered while ser_write finds the room   *)
(* it counted on, no wakeup is lost and the UART's FIFO never overflows.   *)
(***************************************************************************)
EXTENDS Serial, SequenceTheorems, TLAPS

-----------------------------------------------------------------------------
(* Arithmetic with a symbolic divisor.                                     *)

\* Quotient and remainder rebuild the number.
LEMMA DivMod ==
  ASSUME NEW N \in Nat \ {0}, NEW a \in Int
  PROVE  /\ a \div N \in Int
         /\ a % N \in 0 .. N - 1
         /\ a = N * (a \div N) + (a % N)
  OBVIOUS

\* They are the only ones that do.
LEMMA ModIs ==
  ASSUME NEW N \in Nat \ {0}, NEW x \in Int,
         NEW q \in Int, NEW r \in 0 .. N - 1, x = N * q + r
  PROVE  x % N = r /\ x \div N = q
  OBVIOUS

\* An index may be reduced before or after an offset is added to it.
LEMMA ModAdd ==
  ASSUME NEW N \in Nat \ {0}, NEW a \in Nat, NEW d \in Nat
  PROVE  ((a % N) + d) % N = (a + d) % N
<1>1. PICK q \in Int, m \in 0 .. N - 1 : m = a % N /\ a = N * q + m
  <2>1. a \in Int
    OBVIOUS
  <2> QED
    BY <2>1, DivMod
<1>2. PICK p \in Int, r \in 0 .. N - 1 : r = (m + d) % N /\ m + d = N * p + r
  <2>1. m + d \in Int
    OBVIOUS
  <2> QED
    BY <2>1, DivMod
<1>3. a + d = N * (q + p) + r
  BY <1>1, <1>2
<1>4. a + d \in Int /\ q + p \in Int
  OBVIOUS
<1>5. (a + d) % N = r
  BY <1>3, <1>4, ModIs
<1> QED
  BY <1>1, <1>2, <1>5
-----------------------------------------------------------------------------

\* While the wrap bit is clear the header's halves are the positions in the
\* stream, and buf_write leaves the header alone.
LEMMA NoWrap ==
  ASSUME MaxBytes <= MaxElem, TypeOK, HdrInv
  PROVE  /\ HeadOf(hdr) = accepted /\ TailOf(hdr) = hdr.hi
         /\ buf_elements(hdr) = accepted - hdr.hi
         /\ accepted - hdr.hi \in 0 .. Size
         /\ ~ WrapBit(hdr)
         /\ buf_write_hdr(hdr) = hdr
  BY RingAssumption, SerialAssumption, SMTT(20)
  DEF TypeOK, HdrInv, Header, Half, HeadOf, TailOf, Masked, buf_elements, WrapBit, buf_write_hdr

\* The commits advance their own half.
LEMMA Commit ==
  ASSUME NEW r \in Header, NEW k \in Nat
  PROVE  /\ r.lo + k <= MaxElem => buf_write_commit(r, k) = [lo |-> r.lo + k, hi |-> r.hi]
         /\ r.hi + k <= MaxElem => buf_read_commit(r, k) = [lo |-> r.lo, hi |-> r.hi + k]
  BY RingAssumption
  DEF Header, Half, buf_write_commit, buf_read_commit, atomic_fetch_add, Wrapped

\* The slot of a position, and of a position some bytes further on.
LEMMA Slots ==
  ASSUME NEW x \in Nat, NEW d \in Nat
  PROVE  /\ x % Size \in 0 .. Size - 1
         /\ ((x % Size) + d) % Size = (x + d) % Size
<1>1. Size \in Nat \ {0}
  BY RingAssumption
<1>2. PICK N \in Nat \ {0} : N = Size
  BY <1>1
<1>3. x % N \in 0 .. N - 1
  BY DivMod
<1>4. ((x % N) + d) % N = (x + d) % N
  BY ModAdd
<1> QED
  BY <1>2, <1>3, <1>4

\* While ser_flush has bytes to send, kprint has started.
LEMMA FlushPrints ==
  ASSUME IInv, fpc = "out"
  PROVE  pc \in PrintPcs
<1>1. TypeOK /\ HdrInv /\ CallerInv /\ FlushInv
  BY DEF IInv
<1>2. accepted > 0
  BY <1>1 DEF TypeOK, HdrInv, FlushInv, Header
<1>3. pc \notin InitPcs
  BY <1>1, <1>2 DEF HdrInv
<1> QED
  BY <1>1, <1>3 DEF TypeOK, CallerInv, InitPcs, PrintPcs

-----------------------------------------------------------------------------
(* Interrupts.                                                             *)

\* com1_isr is entered only when the transmitter has run empty.
LEMMA Irq4_Step ==
  ASSUME IInv, Irq4
  PROVE  IInv'
<1> USE SerialAssumption, RingAssumption
    DEF Irq4, serVars, flushVars, mainVars, picVars, uartVars, histVars, InitPcs, PrintPcs, Other, WakeUp, IntrEnabled, Line
<1>1. TypeOK /\ HdrInv /\ CallerInv /\ FlushInv /\ PortInv /\ WakeInv /\ DataInv
  BY DEF IInv
<1>2. TypeOK'
  BY <1>1 DEF TypeOK
<1>3. HdrInv'
  BY <1>1 DEF TypeOK, HdrInv, CallerInv, FlushInv, PortInv, WakeInv, DataInv, Drained
<1>4. CallerInv'
  BY <1>1 DEF TypeOK, HdrInv, CallerInv, FlushInv, PortInv, WakeInv, DataInv, Drained
<1>5. FlushInv'
  BY <1>1 DEF TypeOK, HdrInv, CallerInv, FlushInv, PortInv, WakeInv, DataInv, Drained
<1>6. PortInv'
  BY <1>1 DEF TypeOK, HdrInv, CallerInv, FlushInv, PortInv, WakeInv, DataInv, Drained
<1>7. WakeInv'
  BY <1>1 DEF TypeOK, HdrInv, CallerInv, FlushInv, PortInv, WakeInv, DataInv, Drained
<1>8. DataInv'
  BY <1>1 DEF TypeOK, HdrInv, CallerInv, FlushInv, PortInv, WakeInv, DataInv, Drained
<1> QED
  BY <1>2, <1>3, <1>4, <1>5, <1>6, <1>7, <1>8 DEF IInv

\* The request that is forgotten was not the one that is needed.
LEMMA Irq7_Step ==
  ASSUME IInv, Irq7
  PROVE  IInv'
<1> USE SerialAssumption, RingAssumption
    DEF Irq7, serVars, flushVars, mainVars, picVars, uartVars, histVars, InitPcs, PrintPcs, Other, WakeUp, IntrEnabled, Line
<1>1. TypeOK /\ HdrInv /\ CallerInv /\ FlushInv /\ PortInv /\ WakeInv /\ DataInv
  BY DEF IInv
<1>2. TypeOK'
  BY <1>1 DEF TypeOK
<1>3. HdrInv'
  BY <1>1 DEF TypeOK, HdrInv, CallerInv, FlushInv, PortInv, WakeInv, DataInv, Drained
<1>4. CallerInv'
  BY <1>1 DEF TypeOK, HdrInv, CallerInv, FlushInv, PortInv, WakeInv, DataInv, Drained
<1>5. FlushInv'
  BY <1>1 DEF TypeOK, HdrInv, CallerInv, FlushInv, PortInv, WakeInv, DataInv, Drained
<1>6. PortInv'
  BY <1>1 DEF TypeOK, HdrInv, CallerInv, FlushInv, PortInv, WakeInv, DataInv, Drained
<1>7. WakeInv'
  BY <1>1 DEF TypeOK, HdrInv, CallerInv, FlushInv, PortInv, WakeInv, DataInv, Drained
<1>8. DataInv'
  BY <1>1 DEF TypeOK, HdrInv, CallerInv, FlushInv, PortInv, WakeInv, DataInv, Drained
<1> QED
  BY <1>2, <1>3, <1>4, <1>5, <1>6, <1>7, <1>8 DEF IInv

LEMMA IrqWithdrawn_Step ==
  ASSUME IInv, IrqWithdrawn
  PROVE  IInv'
<1> USE SerialAssumption, RingAssumption
    DEF IrqWithdrawn, serVars, flushVars, mainVars, picVars, uartVars, histVars, InitPcs, PrintPcs, Other, Line
<1>1. TypeOK /\ HdrInv /\ CallerInv /\ FlushInv /\ PortInv /\ WakeInv /\ DataInv
  BY DEF IInv
<1>2. TypeOK'
  <2>1. hdr' \in Header /\ buffer' \in [0 .. Size - 1 -> Nat] /\ fifo_empty' \in {0, 1}
    BY <1>1 DEF TypeOK
  <2>2. fpc' \in {"off", "begin", "out"} /\ fnum' \in 0 .. Fifo /\ fdone' \in 0 .. Fifo /\ fpos' \in 0 .. Size - 1
    BY <1>1 DEF TypeOK
  <2>3. pc' \in InitPcs \cup PrintPcs \cup {"panic", "wild"}
    BY <1>1 DEF TypeOK
  <2>4. n' \in Nat /\ buflen' \in 0 .. Size
    BY <1>1 DEF TypeOK
  <2>5. inIsr' \in BOOLEAN /\ irr' \in BOOLEAN /\ isr' \in BOOLEAN
    BY <1>1 DEF TypeOK
  <2>6. tx' \in Seq(Nat) /\ Len(tx') <= Fifo
    BY <1>1 DEF TypeOK
  <2>7. thri' \in BOOLEAN /\ ier_tx' \in BOOLEAN /\ mcr' \in {"off", "irq", "loopback"}
    BY <1>1 DEF TypeOK
  <2>8. wire' \in Seq(Nat) /\ accepted' \in Nat /\ overrun' \in BOOLEAN
    BY <1>1 DEF TypeOK
  <2> QED
    BY <2>1, <2>2, <2>3, <2>4, <2>5, <2>6, <2>7, <2>8 DEF TypeOK
<1>3. HdrInv'
  BY <1>1 DEF TypeOK, HdrInv, CallerInv, FlushInv, PortInv, WakeInv, DataInv, Drained
<1>4. CallerInv'
  BY <1>1 DEF TypeOK, HdrInv, CallerInv, FlushInv, PortInv, WakeInv, DataInv, Drained
<1>5. FlushInv'
  BY <1>1 DEF TypeOK, HdrInv, CallerInv, FlushInv, PortInv, WakeInv, DataInv, Drained
<1>6. PortInv'
  BY <1>1 DEF TypeOK, HdrInv, CallerInv, FlushInv, PortInv, WakeInv, DataInv, Drained
<1>7. WakeInv'
  BY <1>1 DEF TypeOK, HdrInv, CallerInv, FlushInv, PortInv, WakeInv, DataInv, Drained
<1>8. DataInv'
  BY <1>1 DEF TypeOK, HdrInv, CallerInv, FlushInv, PortInv, WakeInv, DataInv, Drained
<1> QED
  BY <1>2, <1>3, <1>4, <1>5, <1>6, <1>7, <1>8 DEF IInv

LEMMA com1_isr_Step ==
  ASSUME IInv, com1_isr
  PROVE  IInv'
<1> USE SerialAssumption, RingAssumption
    DEF com1_isr, serVars, flushVars, mainVars, picVars, uartVars, histVars, InitPcs, PrintPcs, Other
<1>1. TypeOK /\ HdrInv /\ CallerInv /\ FlushInv /\ PortInv /\ WakeInv /\ DataInv
  BY DEF IInv
<1>2. TypeOK'
  <2>1. hdr' \in Header /\ buffer' \in [0 .. Size - 1 -> Nat] /\ fifo_empty' \in {0, 1}
    BY <1>1 DEF TypeOK
  <2>2. fpc' \in {"off", "begin", "out"} /\ fnum' \in 0 .. Fifo /\ fdone' \in 0 .. Fifo /\ fpos' \in 0 .. Size - 1
    BY <1>1 DEF TypeOK
  <2>3. pc' \in InitPcs \cup PrintPcs \cup {"panic", "wild"}
    BY <1>1 DEF TypeOK
  <2>4. n' \in Nat /\ buflen' \in 0 .. Size
    BY <1>1 DEF TypeOK
  <2>5. inIsr' \in BOOLEAN /\ irr' \in BOOLEAN /\ isr' \in BOOLEAN
    BY <1>1 DEF TypeOK
  <2>6. tx' \in Seq(Nat) /\ Len(tx') <= Fifo
    BY <1>1 DEF TypeOK
  <2>7. thri' \in BOOLEAN /\ ier_tx' \in BOOLEAN /\ mcr' \in {"off", "irq", "loopback"}
    BY <1>1 DEF TypeOK
  <2>8. wire' \in Seq(Nat) /\ accepted' \in Nat /\ overrun' \in BOOLEAN
    BY <1>1 DEF TypeOK
  <2> QED
    BY <2>1, <2>2, <2>3, <2>4, <2>5, <2>6, <2>7, <2>8 DEF TypeOK
<1>3. HdrInv'
  BY <1>1 DEF TypeOK, HdrInv, CallerInv, FlushInv, PortInv, WakeInv, DataInv, Drained
<1>4. CallerInv'
  BY <1>1 DEF TypeOK, HdrInv, CallerInv, FlushInv, PortInv, WakeInv, DataInv, Drained
<1>5. FlushInv'
  BY <1>1 DEF TypeOK, HdrInv, CallerInv, FlushInv, PortInv, WakeInv, DataInv, Drained
<1>6. PortInv'
  BY <1>1 DEF TypeOK, HdrInv, CallerInv, FlushInv, PortInv, WakeInv, DataInv, Drained
<1>7. WakeInv'
  BY <1>1 DEF TypeOK, HdrInv, CallerInv, FlushInv, PortInv, WakeInv, DataInv, Drained
<1>8. DataInv'
  BY <1>1 DEF TypeOK, HdrInv, CallerInv, FlushInv, PortInv, WakeInv, DataInv, Drained
<1> QED
  BY <1>2, <1>3, <1>4, <1>5, <1>6, <1>7, <1>8 DEF IInv

-----------------------------------------------------------------------------
(* ser_init.                                                               *)

LEMMA init_fields_Step ==
  ASSUME IInv, ~ inIsr, init_fields
  PROVE  IInv'
<1> USE SerialAssumption, RingAssumption
    DEF init_fields, serVars, flushVars, mainVars, picVars, uartVars, histVars, InitPcs, PrintPcs, Other, InitStep, LatchEdge, UartData, buf_init
<1>1. TypeOK /\ HdrInv /\ CallerInv /\ FlushInv /\ PortInv /\ WakeInv /\ DataInv
  BY DEF IInv
<1>2. TypeOK'
  <2>1. hdr' \in Header
    BY DEF Header, Half
  <2> QED
    BY <1>1, <2>1 DEF TypeOK
<1>3. HdrInv'
  BY <1>1 DEF TypeOK, HdrInv, CallerInv, FlushInv, PortInv, WakeInv, DataInv, Drained
<1>4. CallerInv'
  BY <1>1 DEF TypeOK, HdrInv, CallerInv, FlushInv, PortInv, WakeInv, DataInv, Drained
<1>5. FlushInv'
  BY <1>1 DEF TypeOK, HdrInv, CallerInv, FlushInv, PortInv, WakeInv, DataInv, Drained
<1>6. PortInv'
  BY <1>1 DEF TypeOK, HdrInv, CallerInv, FlushInv, PortInv, WakeInv, DataInv, Drained
<1>7. WakeInv'
  BY <1>1 DEF TypeOK, HdrInv, CallerInv, FlushInv, PortInv, WakeInv, DataInv, Drained
<1>8. DataInv'
  BY <1>1 DEF TypeOK, HdrInv, CallerInv, FlushInv, PortInv, WakeInv, DataInv, Drained
<1> QED
  BY <1>2, <1>3, <1>4, <1>5, <1>6, <1>7, <1>8 DEF IInv

LEMMA init_ier_Step ==
  ASSUME IInv, ~ inIsr, init_ier
  PROVE  IInv'
<1> USE SerialAssumption, RingAssumption
    DEF init_ier, serVars, flushVars, mainVars, picVars, uartVars, histVars, InitPcs, PrintPcs, Other, InitStep, LatchEdge, UartData, buf_init
<1>1. TypeOK /\ HdrInv /\ CallerInv /\ FlushInv /\ PortInv /\ WakeInv /\ DataInv
  BY DEF IInv
<1>2. TypeOK'
  BY <1>1 DEF TypeOK
<1>3. HdrInv'
  BY <1>1 DEF TypeOK, HdrInv, CallerInv, FlushInv, PortInv, WakeInv, DataInv, Drained
<1>4. CallerInv'
  BY <1>1 DEF TypeOK, HdrInv, CallerInv, FlushInv, PortInv, WakeInv, DataInv, Drained
<1>5. FlushInv'
  BY <1>1 DEF TypeOK, HdrInv, CallerInv, FlushInv, PortInv, WakeInv, DataInv, Drained
<1>6. PortInv'
  BY <1>1 DEF TypeOK, HdrInv, CallerInv, FlushInv, PortInv, WakeInv, DataInv, Drained
<1>7. WakeInv'
  BY <1>1 DEF TypeOK, HdrInv, CallerInv, FlushInv, PortInv, WakeInv, DataInv, Drained
<1>8. DataInv'
  BY <1>1 DEF TypeOK, HdrInv, CallerInv, FlushInv, PortInv, WakeInv, DataInv, Drained
<1> QED
  BY <1>2, <1>3, <1>4, <1>5, <1>6, <1>7, <1>8 DEF IInv

LEMMA init_fcr_Step ==
  ASSUME IInv, ~ inIsr, init_fcr
  PROVE  IInv'
<1> USE SerialAssumption, RingAssumption
    DEF init_fcr, serVars, flushVars, mainVars, picVars, uartVars, histVars, InitPcs, PrintPcs, Other, InitStep, LatchEdge, UartData, buf_init
<1>1. TypeOK /\ HdrInv /\ CallerInv /\ FlushInv /\ PortInv /\ WakeInv /\ DataInv
  BY DEF IInv
<1>2. TypeOK'
  BY <1>1 DEF TypeOK
<1>3. HdrInv'
  BY <1>1 DEF TypeOK, HdrInv, CallerInv, FlushInv, PortInv, WakeInv, DataInv, Drained
<1>4. CallerInv'
  BY <1>1 DEF TypeOK, HdrInv, CallerInv, FlushInv, PortInv, WakeInv, DataInv, Drained
<1>5. FlushInv'
  BY <1>1 DEF TypeOK, HdrInv, CallerInv, FlushInv, PortInv, WakeInv, DataInv, Drained
<1>6. PortInv'
  BY <1>1 DEF TypeOK, HdrInv, CallerInv, FlushInv, PortInv, WakeInv, DataInv, Drained
<1>7. WakeInv'
  BY <1>1 DEF TypeOK, HdrInv, CallerInv, FlushInv, PortInv, WakeInv, DataInv, Drained
<1>8. DataInv'
  BY <1>1 DEF TypeOK, HdrInv, CallerInv, FlushInv, PortInv, WakeInv, DataInv, Drained
<1> QED
  BY <1>2, <1>3, <1>4, <1>5, <1>6, <1>7, <1>8 DEF IInv

\* The way out of loopback raises the interrupt that the first message needs.
LEMMA init_mcr_Step ==
  ASSUME IInv, ~ inIsr, init_mcr
  PROVE  IInv'
<1> USE SerialAssumption, RingAssumption
    DEF init_mcr, serVars, flushVars, mainVars, picVars, uartVars, histVars, InitPcs, PrintPcs, Other, InitStep, LatchEdge, UartData, buf_init
<1>1. TypeOK /\ HdrInv /\ CallerInv /\ FlushInv /\ PortInv /\ WakeInv /\ DataInv
  BY DEF IInv
<1>2. TypeOK'
  BY <1>1 DEF TypeOK
<1>3. HdrInv'
  BY <1>1 DEF TypeOK, HdrInv, CallerInv, FlushInv, PortInv, WakeInv, DataInv, Drained
<1>4. CallerInv'
  BY <1>1 DEF TypeOK, HdrInv, CallerInv, FlushInv, PortInv, WakeInv, DataInv, Drained
<1>5. FlushInv'
  BY <1>1 DEF TypeOK, HdrInv, CallerInv, FlushInv, PortInv, WakeInv, DataInv, Drained
<1>6. PortInv'
  BY <1>1 DEF TypeOK, HdrInv, CallerInv, FlushInv, PortInv, WakeInv, DataInv, Drained
<1>7. WakeInv'
  <2>1. CASE InitStep("mcr", "loop")
    BY <1>1, <2>1 DEF WakeInv
  <2>2. CASE InitStep("normal", "ready")
    <3>1. pc = "normal" /\ tx = <<>> /\ thri /\ ier_tx /\ mcr = "loopback"
      BY <1>1, <2>2 DEF PortInv
    <3>2. ~ Line
      BY <3>1 DEF Line
    <3>3. thri' = thri /\ ier_tx' = ier_tx /\ mcr' = "irq"
      OBVIOUS
    <3>4. Line'
      BY <3>1, <3>3 DEF Line
    <3>5. irr'
      BY <3>2, <3>4, Zenon
    <3> QED
      BY <1>1, <3>1, <3>3, <3>5 DEF WakeInv
  <2> QED
    BY <2>1, <2>2
<1>8. DataInv'
  <2>1. CASE InitStep("mcr", "loop")
    BY <1>1, <2>1 DEF DataInv
  <2>2. CASE InitStep("normal", "ready")
    <3>1. accepted = 0 /\ wire = <<>> /\ tx = <<>> /\ fpc = "off" /\ hdr.hi = 0
      BY <1>1, <2>2 DEF HdrInv, PortInv, CallerInv, TypeOK, Header
    <3>2. UNCHANGED <<accepted, wire, tx, fpc, hdr, overrun>> /\ pc' = "ready"
      BY <2>2
    <3> QED
      BY <3>1, <3>2 DEF DataInv, Drained
  <2> QED
    BY <2>1, <2>2
<1> QED
  BY <1>2, <1>3, <1>4, <1>5, <1>6, <1>7, <1>8 DEF IInv

LEMMA init_loop_Step ==
  ASSUME IInv, ~ inIsr, init_loop
  PROVE  IInv'
<1> USE SerialAssumption, RingAssumption
    DEF init_loop, serVars, flushVars, mainVars, picVars, uartVars, histVars, InitPcs, PrintPcs, Other, InitStep, LatchEdge, UartData, buf_init
<1>1. TypeOK /\ HdrInv /\ CallerInv /\ FlushInv /\ PortInv /\ WakeInv /\ DataInv
  BY DEF IInv
<1>0. tx = <<>> /\ tx' = <<0>> /\ Len(tx') = 1 /\ tx' # <<>> /\ tx' \in Seq(Nat)
  <2>1. tx = <<>>
    BY <1>1 DEF PortInv
  <2>2. tx' = Append(<<>>, 0)
    BY <2>1
  <2> QED
    BY <2>1, <2>2
<1>2. TypeOK'
  <2>1. hdr' \in Header /\ buffer' \in [0 .. Size - 1 -> Nat] /\ fifo_empty' \in {0, 1}
    BY <1>1 DEF TypeOK
  <2>2. fpc' \in {"off", "begin", "out"} /\ fnum' \in 0 .. Fifo /\ fdone' \in 0 .. Fifo /\ fpos' \in 0 .. Size - 1
    BY <1>1 DEF TypeOK
  <2>3. pc' \in InitPcs \cup PrintPcs \cup {"panic", "wild"}
    BY <1>1 DEF TypeOK
  <2>4. n' \in Nat /\ buflen' \in 0 .. Size
    BY <1>1 DEF TypeOK
  <2>5. inIsr' \in BOOLEAN /\ irr' \in BOOLEAN /\ isr' \in BOOLEAN
    BY <1>1 DEF TypeOK
  <2>6. tx' \in Seq(Nat) /\ Len(tx') <= Fifo
    BY <1>0, <1>1 DEF TypeOK
  <2>7. thri' \in BOOLEAN /\ ier_tx' \in BOOLEAN /\ mcr' \in {"off", "irq", "loopback"}
    BY <1>1 DEF TypeOK
  <2>8. wire' \in Seq(Nat) /\ accepted' \in Nat /\ overrun' \in BOOLEAN
    BY <1>1 DEF TypeOK
  <2> QED
    BY <2>1, <2>2, <2>3, <2>4, <2>5, <2>6, <2>7, <2>8 DEF TypeOK
<1>3. HdrInv'
  BY <1>1 DEF TypeOK, HdrInv, CallerInv, FlushInv, PortInv, WakeInv, DataInv, Drained
<1>4. CallerInv'
  BY <1>1 DEF TypeOK, HdrInv, CallerInv, FlushInv, PortInv, WakeInv, DataInv, Drained
<1>5. FlushInv'
  BY <1>1 DEF TypeOK, HdrInv, CallerInv, FlushInv, PortInv, WakeInv, DataInv, Drained
<1>6. PortInv'
  BY <1>0, <1>1 DEF PortInv, TypeOK
<1>7. WakeInv'
  BY <1>1 DEF TypeOK, HdrInv, CallerInv, FlushInv, PortInv, WakeInv, DataInv, Drained
<1>8. DataInv'
  BY <1>1 DEF TypeOK, HdrInv, CallerInv, FlushInv, PortInv, WakeInv, DataInv, Drained
<1> QED
  BY <1>2, <1>3, <1>4, <1>5, <1>6, <1>7, <1>8 DEF IInv

LEMMA init_test_Step ==
  ASSUME IInv, ~ inIsr, init_test
  PROVE  IInv'
<1> USE SerialAssumption, RingAssumption
    DEF init_test, serVars, flushVars, mainVars, picVars, uartVars, histVars, InitPcs, PrintPcs, Other, InitStep, LatchEdge, UartData, buf_init
<1>1. TypeOK /\ HdrInv /\ CallerInv /\ FlushInv /\ PortInv /\ WakeInv /\ DataInv
  BY DEF IInv
<1>2. TypeOK'
  BY <1>1 DEF TypeOK
<1>3. HdrInv'
  BY <1>1 DEF TypeOK, HdrInv, CallerInv, FlushInv, PortInv, WakeInv, DataInv, Drained
<1>4. CallerInv'
  BY <1>1 DEF TypeOK, HdrInv, CallerInv, FlushInv, PortInv, WakeInv, DataInv, Drained
<1>5. FlushInv'
  BY <1>1 DEF TypeOK, HdrInv, CallerInv, FlushInv, PortInv, WakeInv, DataInv, Drained
<1>6. PortInv'
  BY <1>1 DEF TypeOK, HdrInv, CallerInv, FlushInv, PortInv, WakeInv, DataInv, Drained
<1>7. WakeInv'
  BY <1>1 DEF TypeOK, HdrInv, CallerInv, FlushInv, PortInv, WakeInv, DataInv, Drained
<1>8. DataInv'
  BY <1>1 DEF TypeOK, HdrInv, CallerInv, FlushInv, PortInv, WakeInv, DataInv, Drained
<1> QED
  BY <1>2, <1>3, <1>4, <1>5, <1>6, <1>7, <1>8 DEF IInv

-----------------------------------------------------------------------------
(* kprint and ser_write.                                                   *)

LEMMA kprint_Step ==
  ASSUME IInv, kprint
  PROVE  IInv'
<1> USE SerialAssumption, RingAssumption
    DEF kprint, serVars, flushVars, mainVars, picVars, uartVars, histVars, InitPcs, PrintPcs, Other
<1>1. TypeOK /\ HdrInv /\ CallerInv /\ FlushInv /\ PortInv /\ WakeInv /\ DataInv
  BY DEF IInv
<1>2. TypeOK'
  BY <1>1 DEF TypeOK
<1>3. HdrInv'
  BY <1>1 DEF TypeOK, HdrInv, CallerInv, FlushInv, PortInv, WakeInv, DataInv, Drained
<1>4. CallerInv'
  BY <1>1 DEF TypeOK, HdrInv, CallerInv, FlushInv, PortInv, WakeInv, DataInv, Drained
<1>5. FlushInv'
  BY <1>1 DEF TypeOK, HdrInv, CallerInv, FlushInv, PortInv, WakeInv, DataInv, Drained
<1>6. PortInv'
  BY <1>1 DEF TypeOK, HdrInv, CallerInv, FlushInv, PortInv, WakeInv, DataInv, Drained
<1>7. WakeInv'
  BY <1>1 DEF TypeOK, HdrInv, CallerInv, FlushInv, PortInv, WakeInv, DataInv, Drained
<1>8. DataInv'
  BY <1>1 DEF TypeOK, HdrInv, CallerInv, FlushInv, PortInv, WakeInv, DataInv, Drained
<1> QED
  BY <1>2, <1>3, <1>4, <1>5, <1>6, <1>7, <1>8 DEF IInv

LEMMA ser_write_look_Step ==
  ASSUME MaxBytes <= MaxElem, IInv, ser_write_look
  PROVE  IInv'
<1> USE SerialAssumption, RingAssumption
    DEF ser_write_look, serVars, flushVars, mainVars, picVars, uartVars, histVars, InitPcs, PrintPcs, Other
<1>1. TypeOK /\ HdrInv /\ CallerInv /\ FlushInv /\ PortInv /\ WakeInv /\ DataInv
  BY DEF IInv
<1>0. buflen' = accepted - hdr.hi /\ accepted - hdr.hi \in 0 .. Size
  BY <1>1, NoWrap
<1>2. TypeOK'
  BY <1>0, <1>1 DEF TypeOK
<1>3. HdrInv'
  BY <1>0, <1>1 DEF HdrInv, TypeOK
<1>4. CallerInv'
  BY <1>1 DEF TypeOK, HdrInv, CallerInv, FlushInv, PortInv, WakeInv, DataInv, Drained
<1>5. FlushInv'
  BY <1>1 DEF TypeOK, HdrInv, CallerInv, FlushInv, PortInv, WakeInv, DataInv, Drained
<1>6. PortInv'
  BY <1>1 DEF TypeOK, HdrInv, CallerInv, FlushInv, PortInv, WakeInv, DataInv, Drained
<1>7. WakeInv'
  BY <1>1 DEF TypeOK, HdrInv, CallerInv, FlushInv, PortInv, WakeInv, DataInv, Drained
<1>8. DataInv'
  BY <1>1 DEF TypeOK, HdrInv, CallerInv, FlushInv, PortInv, WakeInv, DataInv, Drained
<1> QED
  BY <1>2, <1>3, <1>4, <1>5, <1>6, <1>7, <1>8 DEF IInv

LEMMA ser_write_wild_Step ==
  ASSUME IInv, ser_write_wild
  PROVE  IInv'
<1> USE SerialAssumption, RingAssumption
    DEF ser_write_wild, serVars, flushVars, mainVars, picVars, uartVars, histVars, InitPcs, PrintPcs, Other
<1>1. TypeOK /\ HdrInv /\ CallerInv /\ FlushInv /\ PortInv /\ WakeInv /\ DataInv
  BY DEF IInv
<1>2. TypeOK'
  BY <1>1 DEF TypeOK
<1>3. HdrInv'
  BY <1>1 DEF TypeOK, HdrInv, CallerInv, FlushInv, PortInv, WakeInv, DataInv, Drained
<1>4. CallerInv'
  BY <1>1 DEF TypeOK, HdrInv, CallerInv, FlushInv, PortInv, WakeInv, DataInv, Drained
<1>5. FlushInv'
  BY <1>1 DEF TypeOK, HdrInv, CallerInv, FlushInv, PortInv, WakeInv, DataInv, Drained
<1>6. PortInv'
  BY <1>1 DEF TypeOK, HdrInv, CallerInv, FlushInv, PortInv, WakeInv, DataInv, Drained
<1>7. WakeInv'
  BY <1>1 DEF TypeOK, HdrInv, CallerInv, FlushInv, PortInv, WakeInv, DataInv, Drained
<1>8. DataInv'
  BY <1>1 DEF TypeOK, HdrInv, CallerInv, FlushInv, PortInv, WakeInv, DataInv, Drained
<1> QED
  BY <1>2, <1>3, <1>4, <1>5, <1>6, <1>7, <1>8 DEF IInv

LEMMA ser_write_end_Step ==
  ASSUME IInv, ser_write_end
  PROVE  IInv'
<1> USE SerialAssumption, RingAssumption
    DEF ser_write_end, serVars, flushVars, mainVars, picVars, uartVars, histVars, InitPcs, PrintPcs, Other, AfterWrite
<1>1. TypeOK /\ HdrInv /\ CallerInv /\ FlushInv /\ PortInv /\ WakeInv /\ DataInv
  BY DEF IInv
<1>2. TypeOK'
  BY <1>1 DEF TypeOK
<1>3. HdrInv'
  BY <1>1 DEF TypeOK, HdrInv, CallerInv, FlushInv, PortInv, WakeInv, DataInv, Drained
<1>4. CallerInv'
  BY <1>1 DEF TypeOK, HdrInv, CallerInv, FlushInv, PortInv, WakeInv, DataInv, Drained
<1>5. FlushInv'
  BY <1>1 DEF TypeOK, HdrInv, CallerInv, FlushInv, PortInv, WakeInv, DataInv, Drained
<1>6. PortInv'
  BY <1>1 DEF TypeOK, HdrInv, CallerInv, FlushInv, PortInv, WakeInv, DataInv, Drained
<1>7. WakeInv'
  BY <1>1 DEF TypeOK, HdrInv, CallerInv, FlushInv, PortInv, WakeInv, DataInv, Drained
<1>8. DataInv'
  BY <1>1 DEF TypeOK, HdrInv, CallerInv, FlushInv, PortInv, WakeInv, DataInv, Drained
<1> QED
  BY <1>2, <1>3, <1>4, <1>5, <1>6, <1>7, <1>8 DEF IInv

LEMMA halt_Step ==
  ASSUME IInv, halt
  PROVE  IInv'
<1> USE SerialAssumption, RingAssumption
    DEF halt, serVars, flushVars, mainVars, picVars, uartVars, histVars, InitPcs, PrintPcs, Other
<1>1. TypeOK /\ HdrInv /\ CallerInv /\ FlushInv /\ PortInv /\ WakeInv /\ DataInv
  BY DEF IInv
<1>2. TypeOK'
  BY <1>1 DEF TypeOK
<1>3. HdrInv'
  BY <1>1 DEF TypeOK, HdrInv, CallerInv, FlushInv, PortInv, WakeInv, DataInv, Drained
<1>4. CallerInv'
  BY <1>1 DEF TypeOK, HdrInv, CallerInv, FlushInv, PortInv, WakeInv, DataInv, Drained
<1>5. FlushInv'
  BY <1>1 DEF TypeOK, HdrInv, CallerInv, FlushInv, PortInv, WakeInv, DataInv, Drained
<1>6. PortInv'
  BY <1>1 DEF TypeOK, HdrInv, CallerInv, FlushInv, PortInv, WakeInv, DataInv, Drained
<1>7. WakeInv'
  BY <1>1 DEF TypeOK, HdrInv, CallerInv, FlushInv, PortInv, WakeInv, DataInv, Drained
<1>8. DataInv'
  BY <1>1 DEF TypeOK, HdrInv, CallerInv, FlushInv, PortInv, WakeInv, DataInv, Drained
<1> QED
  BY <1>2, <1>3, <1>4, <1>5, <1>6, <1>7, <1>8 DEF IInv

-----------------------------------------------------------------------------
(* panic.                                                                  *)

\* What panic cuts off is the end of the stream.
LEMMA panic_Step ==
  ASSUME IInv, panic
  PROVE  IInv'
<1> USE SerialAssumption, RingAssumption
    DEF panic, serVars, flushVars, mainVars, picVars, uartVars, histVars, InitPcs, PrintPcs, Other
<1>1. TypeOK /\ HdrInv /\ CallerInv /\ FlushInv /\ PortInv /\ WakeInv /\ DataInv
  BY DEF IInv
<1>2. TypeOK'
  <2>1. tx' \in Seq(Nat) /\ Len(tx') <= Fifo
    OBVIOUS
  <2> QED
    BY <1>1, <2>1 DEF TypeOK
<1>3. HdrInv'
  BY <1>1 DEF TypeOK, HdrInv, CallerInv, FlushInv, PortInv, WakeInv, DataInv, Drained
<1>4. CallerInv'
  BY <1>1 DEF TypeOK, HdrInv, CallerInv, FlushInv, PortInv, WakeInv, DataInv, Drained
<1>5. FlushInv'
  BY <1>1 DEF TypeOK, HdrInv, CallerInv, FlushInv, PortInv, WakeInv, DataInv, Drained
<1>6. PortInv'
  BY <1>1 DEF TypeOK, HdrInv, CallerInv, FlushInv, PortInv, WakeInv, DataInv, Drained
<1>7. WakeInv'
  BY <1>1 DEF TypeOK, HdrInv, CallerInv, FlushInv, PortInv, WakeInv, DataInv, Drained
<1>8. DataInv'
  <2> SUFFICES ASSUME ~ overrun
               PROVE  \E k \in 0 .. accepted :
                        /\ k <= Len(wire) /\ \A i \in 1 .. k : wire[i] = i
                        /\ \A i \in k + 1 .. Len(wire) : wire[i] = Other
    BY DEF DataInv
  <2>1. wire \in Seq(Nat) /\ Len(wire) \in Nat /\ accepted \in Nat /\ tx \in Seq(Nat) /\ Len(tx) \in Nat
    BY <1>1 DEF TypeOK
  <2>2. CASE pc = "ready"
    <3>1. fpc = "off"
      BY <1>1, <2>2 DEF CallerInv
    <3>2. Len(wire) + Len(tx) = hdr.hi /\ \A i \in 1 .. Len(wire) : wire[i] = i
      BY <1>1, <2>2, <3>1 DEF DataInv, Drained
    <3>3. hdr.hi \in Nat /\ hdr.hi <= accepted
      BY <1>1 DEF HdrInv, TypeOK, Header
    <3>4. Len(wire) \in 0 .. accepted
      BY <2>1, <3>2, <3>3
    <3> QED
      BY <2>1, <3>2, <3>4
  <2>3. CASE pc = "test"
    <3>1. wire = <<>> /\ 0 \in 0 .. accepted
      BY <1>1, <2>1, <2>3 DEF PortInv
    <3> QED
      BY <3>1
  <2> QED
    BY <2>2, <2>3
<1> QED
  BY <1>2, <1>3, <1>4, <1>5, <1>6, <1>7, <1>8 DEF IInv

LEMMA assert_ser_write_Step ==
  ASSUME IInv, assert_ser_write
  PROVE  IInv'
<1> USE SerialAssumption, RingAssumption
    DEF assert_ser_write, serVars, flushVars, mainVars, picVars, uartVars, histVars, InitPcs, PrintPcs, Other, UartData
<1>1. TypeOK /\ HdrInv /\ CallerInv /\ FlushInv /\ PortInv /\ WakeInv /\ DataInv
  BY DEF IInv
<1>0. tx' = <<0>> /\ tx' \in Seq(Nat) /\ Len(tx') = 1
  <2>1. tx' = Append(<<>>, 0)
    OBVIOUS
  <2> QED
    BY <2>1
<1>2. TypeOK'
  <2>1. hdr' \in Header /\ buffer' \in [0 .. Size - 1 -> Nat] /\ fifo_empty' \in {0, 1}
    BY <1>1 DEF TypeOK
  <2>2. fpc' \in {"off", "begin", "out"} /\ fnum' \in 0 .. Fifo /\ fdone' \in 0 .. Fifo /\ fpos' \in 0 .. Size - 1
    BY <1>1 DEF TypeOK
  <2>3. pc' \in InitPcs \cup PrintPcs \cup {"panic", "wild"}
    BY <1>1 DEF TypeOK
  <2>4. n' \in Nat /\ buflen' \in 0 .. Size
    BY <1>1 DEF TypeOK
  <2>5. inIsr' \in BOOLEAN /\ irr' \in BOOLEAN /\ isr' \in BOOLEAN
    BY <1>1 DEF TypeOK
  <2>6. tx' \in Seq(Nat) /\ Len(tx') <= Fifo
    BY <1>0, <1>1 DEF TypeOK
  <2>7. thri' \in BOOLEAN /\ ier_tx' \in BOOLEAN /\ mcr' \in {"off", "irq", "loopback"}
    BY <1>1 DEF TypeOK
  <2>8. wire' \in Seq(Nat) /\ accepted' \in Nat /\ overrun' \in BOOLEAN
    BY <1>1 DEF TypeOK
  <2> QED
    BY <2>1, <2>2, <2>3, <2>4, <2>5, <2>6, <2>7, <2>8 DEF TypeOK
<1>3. HdrInv'
  BY <1>1 DEF TypeOK, HdrInv, CallerInv, FlushInv, PortInv, WakeInv, DataInv, Drained
<1>4. CallerInv'
  BY <1>1 DEF TypeOK, HdrInv, CallerInv, FlushInv, PortInv, WakeInv, DataInv, Drained
<1>5. FlushInv'
  BY <1>1 DEF TypeOK, HdrInv, CallerInv, FlushInv, PortInv, WakeInv, DataInv, Drained
<1>6. PortInv'
  BY <1>1 DEF TypeOK, HdrInv, CallerInv, FlushInv, PortInv, WakeInv, DataInv, Drained
<1>7. WakeInv'
  BY <1>1 DEF TypeOK, HdrInv, CallerInv, FlushInv, PortInv, WakeInv, DataInv, Drained
<1>8. DataInv'
  BY <1>1, SMTT(20) DEF TypeOK, HdrInv, CallerInv, FlushInv, PortInv, WakeInv, DataInv, Drained
<1> QED
  BY <1>2, <1>3, <1>4, <1>5, <1>6, <1>7, <1>8 DEF IInv

-----------------------------------------------------------------------------
(* ser_flush.                                                              *)

\* It is called with an empty transmitter, and asks for what is there.
LEMMA ser_flush_Step ==
  ASSUME MaxBytes <= MaxElem, IInv, ser_flush
  PROVE  IInv'
<1> USE SerialAssumption, RingAssumption
    DEF ser_flush, serVars, flushVars, mainVars, picVars, uartVars, histVars, InitPcs, PrintPcs, Other, FlushStart, FlushLen
<1>1. TypeOK /\ HdrInv /\ CallerInv /\ FlushInv /\ PortInv /\ WakeInv /\ DataInv
  BY DEF IInv
<1>0. /\ buf_elements(hdr) = accepted - hdr.hi /\ TailOf(hdr) = hdr.hi
      /\ hdr.hi \in Nat /\ accepted \in Nat /\ hdr.hi <= accepted
  BY <1>1, NoWrap, SMTT(20) DEF TypeOK, HdrInv, Header
<1>9. ASSUME accepted - hdr.hi > 0
      PROVE  /\ fnum' \in 1 .. Fifo /\ hdr.hi + fnum' <= accepted
             /\ fpos' = hdr.hi % Size /\ fpos' \in 0 .. Size - 1
             /\ fdone' = 0 /\ fifo_empty' = 0 /\ fpc' = "out"
  <2>1. fnum' = (IF accepted - hdr.hi > Fifo THEN Fifo ELSE accepted - hdr.hi)
    BY <1>0, <1>9
  <2>2. fnum' \in 1 .. Fifo /\ hdr.hi + fnum' <= accepted
    BY <1>0, <1>9, <2>1
  <2>3. fpos' = buf_read_ret(hdr, fnum')
    BY <1>0, <1>9
  <2>4. fpos' = hdr.hi % Size
    BY <1>0, <2>2, <2>3 DEF buf_read_ret, UnsignedLess
  <2>5. hdr.hi % Size \in 0 .. Size - 1
    BY <1>0, Slots
  <2> QED
    BY <1>0, <1>9, <2>2, <2>4, <2>5
<1>10. ASSUME ~ (accepted - hdr.hi > 0)
       PROVE  fifo_empty' = 1 /\ fpc' = "off" /\ hdr.hi = accepted /\ UNCHANGED <<fnum, fpos, fdone>>
  BY <1>0, <1>10
<1>11. UNCHANGED <<hdr, buffer, mainVars, inIsr, picVars, uartVars, histVars>> /\ fpc = "begin"
  OBVIOUS
<1> HIDE DEF ser_flush
<1>2. TypeOK'
  BY <1>1, <1>9, <1>10, <1>11 DEF TypeOK
<1>3. HdrInv'
  BY <1>1, <1>11 DEF HdrInv
<1>4. CallerInv'
  BY <1>1, <1>11 DEF CallerInv
<1>5. FlushInv'
  BY <1>0, <1>1, <1>9, <1>10, <1>11 DEF FlushInv
<1>6. PortInv'
  BY <1>1, <1>11 DEF PortInv
<1>7. WakeInv'
  BY <1>0, <1>1, <1>9, <1>10, <1>11 DEF WakeInv
<1>8. DataInv'
  <2>1. Drained' = Drained
    BY <1>0, <1>9, <1>10, <1>11 DEF Drained
  <2> QED
    BY <1>1, <1>11, <2>1 DEF DataInv
<1> QED
  BY <1>2, <1>3, <1>4, <1>5, <1>6, <1>7, <1>8 DEF IInv

\* A byte goes to the FIFO, which has room for it.
LEMMA rep_outsb_Step ==
  ASSUME IInv, rep_outsb
  PROVE  IInv'
<1> USE SerialAssumption, RingAssumption
    DEF rep_outsb, serVars, flushVars, mainVars, picVars, uartVars, histVars, InitPcs, PrintPcs, Other
<1>1. TypeOK /\ HdrInv /\ CallerInv /\ FlushInv /\ PortInv /\ WakeInv /\ DataInv
  BY DEF IInv
<1>0. /\ fnum >= 1 /\ fdone < fnum /\ fnum <= Fifo /\ Len(tx) <= fdone /\ fifo_empty = 0
      /\ hdr.hi + fnum <= accepted /\ fpos = hdr.hi % Size /\ hdr.hi \in Nat /\ fdone \in Nat
      /\ fnum \in Nat /\ Len(tx) \in Nat /\ accepted \in Nat /\ fpc = "out" /\ tx \in Seq(Nat)
  BY <1>1 DEF TypeOK, FlushInv, Header
<1> DEFINE b == buffer[(fpos + fdone) % Size]
<1>9. (fpos + fdone) % Size = (hdr.hi + fdone) % Size /\ (hdr.hi + fdone) % Size \in 0 .. Size - 1
  <2>1. PICK x \in Nat : x = hdr.hi
    BY <1>0
  <2>2. x + fdone \in Nat
    BY <1>0
  <2> QED
    BY <1>0, <2>1, <2>2, Slots
<1>10. b = buffer[(hdr.hi + fdone) % Size] /\ b \in Nat
  BY <1>1, <1>9 DEF TypeOK
<1>11. /\ tx' = Append(tx, b) /\ thri' = FALSE /\ fdone' = fdone + 1
       /\ irr' \in BOOLEAN
       /\ UNCHANGED <<serVars, fpc, fnum, fpos, mainVars, inIsr, isr, histVars, ier_tx, mcr>>
  BY <1>0, SMTT(20) DEF UartData, LatchEdge
<1> HIDE DEF b, rep_outsb
<1>12. /\ tx' \in Seq(Nat) /\ Len(tx') = Len(tx) + 1 /\ tx' # <<>>
       /\ tx'[Len(tx) + 1] = b /\ \A i \in 1 .. Len(tx) : tx'[i] = tx[i]
  <2>1. /\ Append(tx, b) \in Seq(Nat) /\ Len(Append(tx, b)) = Len(tx) + 1
        /\ Append(tx, b)[Len(tx) + 1] = b /\ \A i \in 1 .. Len(tx) : Append(tx, b)[i] = tx[i]
    BY <1>0, <1>10, AppendProperties
  <2>2. Len(Append(tx, b)) # 0 /\ Len(<<>>) = 0
    BY <1>0, <2>1
  <2>3. Append(tx, b) # <<>>
    BY <2>2
  <2> QED
    BY <1>11, <2>1, <2>3
<1>13. pc \in PrintPcs
  BY <1>0, FlushPrints
<1>2. TypeOK'
  <2>1. fdone' \in 0 .. Fifo /\ Len(tx') <= Fifo
    BY <1>0, <1>11, <1>12
  <2>2. hdr' \in Header /\ buffer' \in [0 .. Size - 1 -> Nat] /\ fifo_empty' \in {0, 1}
    BY <1>1, <1>11 DEF TypeOK
  <2>3. fpc' \in {"off", "begin", "out"} /\ fnum' \in 0 .. Fifo /\ fpos' \in 0 .. Size - 1
    BY <1>1, <1>11 DEF TypeOK
  <2>4. pc' \in InitPcs \cup PrintPcs \cup {"panic", "wild"} /\ n' \in Nat /\ buflen' \in 0 .. Size
    BY <1>1, <1>11 DEF TypeOK
  <2>5. inIsr' \in BOOLEAN /\ irr' \in BOOLEAN /\ isr' \in BOOLEAN
    BY <1>1, <1>11 DEF TypeOK
  <2>6. thri' \in BOOLEAN /\ ier_tx' \in BOOLEAN /\ mcr' \in {"off", "irq", "loopback"}
    BY <1>1, <1>11 DEF TypeOK
  <2>7. wire' \in Seq(Nat) /\ accepted' \in Nat /\ overrun' \in BOOLEAN
    BY <1>1, <1>11 DEF TypeOK
  <2> QED
    BY <1>12, <2>1, <2>2, <2>3, <2>4, <2>5, <2>6, <2>7 DEF TypeOK
<1>3. HdrInv'
  BY <1>1, <1>11 DEF HdrInv
<1>4. CallerInv'
  BY <1>1, <1>11 DEF CallerInv
<1>5. FlushInv'
  BY <1>0, <1>1, <1>11, <1>12 DEF FlushInv
<1>6. PortInv'
  BY <1>1, <1>11, <1>12, <1>13 DEF PortInv
<1>7. WakeInv'
  BY <1>0, <1>1, <1>11, <1>12 DEF WakeInv
<1>8. DataInv'
  <2> SUFFICES ASSUME ~ overrun
               PROVE  /\ Len(wire) + Len(tx') = hdr.hi + fdone + 1
                      /\ \A i \in 1 .. Len(tx') : tx'[i] = Len(wire) + i
    BY <1>0, <1>1, <1>11, <1>13, SMTT(20) DEF DataInv, Drained
  <2>1. Len(wire) \in Nat
    BY <1>1 DEF TypeOK
  <2>2. /\ Len(wire) + Len(tx) = hdr.hi + fdone
        /\ \A i \in 1 .. Len(tx) : tx[i] = Len(wire) + i
        /\ \A p \in hdr.hi .. accepted - 1 : buffer[p % Size] = p + 1
    BY <1>0, <1>1, <1>13 DEF DataInv, Drained
  <2>3. b = hdr.hi + fdone + 1
    <3>1. hdr.hi + fdone \in hdr.hi .. accepted - 1
      BY <1>0
    <3> QED
      BY <1>10, <2>2, <3>1
  <2>4. ASSUME NEW i \in 1 .. Len(tx') PROVE tx'[i] = Len(wire) + i
    <3>1. CASE i \in 1 .. Len(tx)
      BY <1>12, <2>2, <3>1
    <3>2. CASE i = Len(tx) + 1
      BY <1>0, <1>12, <2>1, <2>2, <2>3, <3>2
    <3> QED
      BY <1>0, <1>12, <3>1, <3>2
  <2>5. Len(wire) + Len(tx') = hdr.hi + fdone + 1
    BY <1>0, <1>12, <2>1, <2>2
  <2> QED
    BY <2>4, <2>5
<1> QED
  BY <1>2, <1>3, <1>4, <1>5, <1>6, <1>7, <1>8 DEF IInv

\* The slots of the bytes it has sent are given back.
LEMMA ser_flush_end_Step ==
  ASSUME MaxBytes <= MaxElem, IInv, ser_flush_end
  PROVE  IInv'
<1> USE SerialAssumption, RingAssumption
    DEF ser_flush_end, serVars, flushVars, mainVars, picVars, uartVars, histVars, InitPcs, PrintPcs, Other
<1>1. TypeOK /\ HdrInv /\ CallerInv /\ FlushInv /\ PortInv /\ WakeInv /\ DataInv
  BY DEF IInv
<1>0. /\ fnum >= 1 /\ fdone = fnum /\ fifo_empty = 0 /\ hdr.hi + fnum <= accepted
      /\ hdr.hi \in Nat /\ hdr.lo \in Nat /\ fnum \in Nat /\ accepted \in Nat /\ hdr \in Header /\ fpc = "out"
      /\ accepted <= MaxElem /\ hdr.lo = accepted
  BY <1>1 DEF TypeOK, FlushInv, Header, HdrInv
<1>9. hdr' = [lo |-> hdr.lo, hi |-> hdr.hi + fnum]
  BY <1>0, Commit
<1>10. hdr'.lo = hdr.lo /\ hdr'.hi = hdr.hi + fnum
  BY <1>9
<1>11. hdr' \in Header
  BY <1>0, <1>9 DEF Header, Half
<1>12. /\ fpc' = "off"
       /\ UNCHANGED <<buffer, fifo_empty, fnum, fpos, fdone, mainVars, inIsr, picVars, uartVars, histVars>>
  OBVIOUS
<1> HIDE DEF ser_flush_end
<1>2. TypeOK'
  BY <1>1, <1>11, <1>12 DEF TypeOK
<1>3. HdrInv'
  BY <1>0, <1>1, <1>10, <1>12 DEF HdrInv, TypeOK
<1>4. CallerInv'
  BY <1>1, <1>12 DEF CallerInv
<1>5. FlushInv'
  BY <1>0, <1>1, <1>12 DEF FlushInv
<1>6. PortInv'
  BY <1>1, <1>12 DEF PortInv
<1>7. WakeInv'
  BY <1>0, <1>1, <1>12 DEF WakeInv
<1>8. DataInv'
  <2>1. Drained' = Drained
    BY <1>0, <1>10, <1>12 DEF Drained
  <2>2. \A p \in hdr'.hi .. accepted - 1 : p \in hdr.hi .. accepted - 1
    BY <1>0, <1>10
  <2> QED
    BY <1>1, <1>12, <2>1, <2>2 DEF DataInv
<1> QED
  BY <1>2, <1>3, <1>4, <1>5, <1>6, <1>7, <1>8 DEF IInv

-----------------------------------------------------------------------------
(* The UART.                                                               *)

\* The transmitter raises its interrupt with the last byte, and the byte that
\* leaves is the next of the stream.
LEMMA UartSend_Step ==
  ASSUME IInv, UartSend
  PROVE  IInv'
<1> USE SerialAssumption
    DEF serVars, flushVars, mainVars, InitPcs, PrintPcs, Other
<1>1. TypeOK /\ HdrInv /\ CallerInv /\ FlushInv /\ PortInv /\ WakeInv /\ DataInv
  BY DEF IInv
<1>2. tx # <<>> /\ pc # "wild" /\ tx' = Tail(tx)
      /\ wire' = (IF mcr = "loopback" THEN wire ELSE Append(wire, Head(tx)))
      /\ UNCHANGED <<ier_tx, mcr>>
      /\ UNCHANGED <<serVars, flushVars, mainVars, inIsr, isr, accepted, overrun>>
  BY DEF UartSend
<1>3. tx \in Seq(Nat) /\ wire \in Seq(Nat) /\ Len(tx) \in Nat /\ Len(wire) \in Nat /\ Len(tx) <= Fifo
  BY <1>1 DEF TypeOK
<1>4. /\ Head(tx) = tx[1] /\ Head(tx) \in Nat /\ tx' \in Seq(Nat)
      /\ Len(tx) >= 1 /\ Len(tx') = Len(tx) - 1
      /\ \A i \in 1 .. Len(tx') : tx'[i] = tx[i + 1]
  <2>1. Head(tx) \in Nat /\ Tail(tx) \in Seq(Nat) /\ Len(Tail(tx)) = Len(tx) - 1
        /\ \A i \in 1 .. Len(Tail(tx)) : Tail(tx)[i] = tx[i + 1]
    BY <1>2, <1>3, HeadTailProperties
  <2>2. Len(tx) # 0
    BY <1>2, <1>3, EmptySeq
  <2>3. Head(tx) = tx[1]
    BY <1>2, <1>3
  <2> QED
    BY <1>2, <1>3, <2>1, <2>2, <2>3
<1>5. ~ thri /\ fpc # "begin" /\ (fifo_empty = 1 => pc \in {"test", "panic"})
  BY <1>1, <1>2 DEF FlushInv
<1>6. thri' <=> tx' = <<>>
  <2>1. thri' = (thri \/ Tail(tx) = <<>>)
    BY DEF UartSend
  <2> QED
    BY <1>2, <1>5, <2>1, Zenon
<1>7. ~ Line
  BY <1>5 DEF Line
<1>8. irr' <=> irr \/ Line'
  <2>1. irr' = (irr \/ (~ Line /\ Line'))
    BY DEF UartSend, LatchEdge
  <2> QED
    BY <1>7, <2>1, Zenon
<1>9. thri' \in BOOLEAN /\ irr' \in BOOLEAN
  BY DEF UartSend, LatchEdge
<1>10. pc \in {"test", "panic"} \cup PrintPcs
  BY <1>1, <1>2 DEF PortInv, TypeOK
<1>11. wire' \in Seq(Nat)
  BY <1>2, <1>3, <1>4, AppendProperties
<1>12. TypeOK'
  <2>1. Len(tx') <= Fifo
    BY <1>3, <1>4
  <2>2. hdr' \in Header /\ buffer' \in [0 .. Size - 1 -> Nat] /\ fifo_empty' \in {0, 1}
    BY <1>1, <1>2 DEF TypeOK
  <2>3. /\ fpc' \in {"off", "begin", "out"} /\ fnum' \in 0 .. Fifo /\ fdone' \in 0 .. Fifo
        /\ fpos' \in 0 .. Size - 1
    BY <1>1, <1>2 DEF TypeOK
  <2>4. pc' \in InitPcs \cup PrintPcs \cup {"panic", "wild"} /\ n' \in Nat /\ buflen' \in 0 .. Size
    BY <1>1, <1>2 DEF TypeOK
  <2>5. inIsr' \in BOOLEAN /\ isr' \in BOOLEAN /\ overrun' \in BOOLEAN /\ accepted' \in Nat
    BY <1>1, <1>2 DEF TypeOK
  <2>6. ier_tx' \in BOOLEAN /\ mcr' \in {"off", "irq", "loopback"}
    BY <1>1, <1>2 DEF TypeOK
  <2> QED
    BY <1>4, <1>9, <1>11, <2>1, <2>2, <2>3, <2>4, <2>5, <2>6 DEF TypeOK
<1>13. HdrInv'
  BY <1>1, <1>2 DEF HdrInv
<1>14. CallerInv'
  BY <1>1, <1>2 DEF CallerInv
<1>15. FlushInv'
  <2>1. fdone \in Nat
    BY <1>1 DEF TypeOK
  <2> QED
    BY <1>1, <1>2, <1>3, <1>4, <1>5, <1>6, <2>1 DEF FlushInv
<1>16. PortInv'
  BY <1>1, <1>2, <1>6, <1>10 DEF PortInv
<1>17. WakeInv'
  <2>1. ASSUME pc \in PrintPcs, tx' = <<>> PROVE thri' /\ irr'
    <3>1. thri'
      BY <1>6, <2>1
    <3>2. ier_tx' /\ mcr' = "irq"
      BY <1>1, <1>2, <2>1 DEF PortInv
    <3>3. Line'
      BY <3>1, <3>2 DEF Line
    <3> QED
      BY <1>8, <3>1, <3>3
  <2>2. fifo_empty' = 1 /\ fpc' = "off" => hdr'.hi = accepted'
    BY <1>1, <1>2 DEF WakeInv
  <2> QED
    BY <1>2, <2>1, <2>2 DEF WakeInv
<1>18. DataInv'
  <2> SUFFICES ASSUME ~ overrun PROVE DataInv'
    BY <1>2 DEF DataInv
  <2>1. Drained' = Drained
    BY <1>2 DEF Drained
  <2>2. Append(wire, Head(tx)) \in Seq(Nat) /\ Len(Append(wire, Head(tx))) = Len(wire) + 1
        /\ Append(wire, Head(tx))[Len(wire) + 1] = Head(tx)
        /\ \A i \in 1 .. Len(wire) : Append(wire, Head(tx))[i] = wire[i]
    BY <1>3, <1>4, AppendProperties
  <2>3. CASE pc \in PrintPcs
    <3>1. wire' = Append(wire, Head(tx))
      BY <1>1, <1>2, <2>3 DEF PortInv
    <3>2. /\ Len(wire) + Len(tx) = Drained
          /\ \A i \in 1 .. Len(wire) : wire[i] = i
          /\ \A i \in 1 .. Len(tx) : tx[i] = Len(wire) + i
          /\ \A p \in hdr.hi .. accepted - 1 : buffer[p % Size] = p + 1
      BY <1>1, <2>3 DEF DataInv
    <3>3. Len(wire') = Len(wire) + 1 /\ Len(wire') + Len(tx') = Drained
      BY <1>3, <1>4, <2>2, <3>1, <3>2
    <3>4. tx[1] = Len(wire) + 1
      BY <1>3, <1>4, <3>2
    <3>5. \A i \in 1 .. Len(wire') : wire'[i] = i
      <4> TAKE i \in 1 .. Len(wire')
      <4>1. CASE i \in 1 .. Len(wire)
        BY <2>2, <3>1, <3>2, <4>1
      <4>2. CASE i = Len(wire) + 1
        BY <1>4, <2>2, <3>1, <3>4, <4>2
      <4> QED
        BY <1>3, <3>3, <4>1, <4>2
    <3>6. \A i \in 1 .. Len(tx') : tx'[i] = Len(wire') + i
      <4> TAKE i \in 1 .. Len(tx')
      <4>1. i + 1 \in 1 .. Len(tx) /\ tx'[i] = tx[i + 1]
        BY <1>3, <1>4
      <4> QED
        BY <1>3, <3>2, <3>3, <4>1
    <3> QED
      BY <1>2, <2>1, <2>3, <3>2, <3>3, <3>5, <3>6 DEF DataInv
  <2>4. CASE pc = "test"
    BY <1>2, <2>4 DEF DataInv
  <2>5. CASE pc = "panic"
    <3>1. PICK k \in 0 .. accepted :
            /\ k <= Len(wire) /\ \A i \in 1 .. k : wire[i] = i
            /\ \A i \in k + 1 .. Len(wire) : wire[i] = Other
            /\ \A i \in 1 .. Len(tx) : tx[i] = Other
      BY <1>1, <2>5 DEF DataInv
    <3>2. \A i \in 1 .. Len(tx') : tx'[i] = Other
      BY <1>3, <1>4, <3>1
    <3>3. Head(tx) = Other
      BY <1>3, <1>4, <3>1
    <3>4. CASE wire' = wire
      BY <1>2, <2>5, <3>1, <3>2, <3>4 DEF DataInv
    <3>5. CASE wire' = Append(wire, Head(tx))
      <4>1. k <= Len(wire') /\ \A i \in 1 .. k : wire'[i] = i
        BY <1>3, <2>2, <3>1, <3>5
      <4>2. \A i \in k + 1 .. Len(wire') : wire'[i] = Other
        <5> TAKE i \in k + 1 .. Len(wire')
        <5>1. CASE i \in k + 1 .. Len(wire)
          BY <1>3, <2>2, <3>1, <3>5, <5>1
        <5>2. CASE i = Len(wire) + 1
          BY <2>2, <3>3, <3>5, <5>2
        <5> QED
          BY <1>3, <2>2, <3>5, <5>1, <5>2
      <4> QED
        BY <1>2, <2>5, <3>2, <4>1, <4>2 DEF DataInv
    <3> QED
      BY <1>2, <3>4, <3>5
  <2> QED
    BY <1>10, <2>3, <2>4, <2>5
<1> QED
  BY <1>12, <1>13, <1>14, <1>15, <1>16, <1>17, <1>18 DEF IInv
-----------------------------------------------------------------------------
(* The critical section of ser_write.                                      *)

\* Which slots it fills: those of the next positions, and no other that is
\* in use.
LEMMA FillSlot ==
  ASSUME NEW p \in Nat, NEW q \in Nat, p - q < Size, q - p < Size
  PROVE  ((p % Size) - (q % Size)) % Size = IF p >= q THEN p - q ELSE p - q + Size
<1>1. PICK N \in Nat \ {0} : N = Size
  BY RingAssumption
<1>2. PICK a \in Int, b \in 0 .. N - 1 : b = p % N /\ p = N * a + b
  <2>1. p \in Int
    OBVIOUS
  <2>2. p \div N \in Int /\ p % N \in 0 .. N - 1 /\ p = N * (p \div N) + (p % N)
    BY <2>1, DivMod
  <2> QED
    BY <2>2
<1>3. PICK c \in Int, d \in 0 .. N - 1 : d = q % N /\ q = N * c + d
  <2>1. q \in Int
    OBVIOUS
  <2>2. q \div N \in Int /\ q % N \in 0 .. N - 1 /\ q = N * (q \div N) + (q % N)
    BY <2>1, DivMod
  <2> QED
    BY <2>2
<1>4. p - q = N * (a - c) + (b - d)
  BY <1>2, <1>3
<1>5. CASE p >= q
  <2>1. b - d = N * (c - a) + (p - q)
    BY <1>4
  <2>2. p - q \in 0 .. N - 1
    BY <1>1, <1>5
  <2>3. (b - d) % N = p - q
    BY <2>1, <2>2, ModIs
  <2> QED
    BY <1>1, <1>2, <1>3, <1>5, <2>3
<1>6. CASE ~ (p >= q)
  <2>0. PICK e \in Int : e = c - a - 1
    OBVIOUS
  <2>1. b - d = N * e + (p - q + N)
    <3>1. N * e = N * (c - a) - N
      BY <2>0
    <3> QED
      BY <1>4, <3>1
  <2>2. p - q + N \in 0 .. N - 1
    BY <1>1, <1>6
  <2>3. (b - d) % N = p - q + N
    <3>1. PICK x \in Int, y \in 0 .. N - 1 : x = b - d /\ y = p - q + N
      BY <2>2
    <3>2. x = N * e + y
      BY <2>1, <3>1
    <3> QED
      BY ONLY <3>1, <3>2, ModIs
  <2> QED
    BY <1>1, <1>2, <1>3, <1>6, <2>3
<1> QED
  BY <1>5, <1>6

LEMMA ser_write_Step ==
  ASSUME MaxBytes <= MaxElem, IInv, ser_write
  PROVE  IInv'
<1> USE SerialAssumption
    DEF serVars, flushVars, mainVars, picVars, uartVars, InitPcs, PrintPcs, Other
<1>1. TypeOK /\ HdrInv /\ CallerInv /\ FlushInv /\ PortInv /\ WakeInv /\ DataInv
  BY DEF IInv
<1>2. Size \in Nat /\ Size >= 1 /\ MaxElem \in Nat
  BY RingAssumption
<1>3. pc = "append" /\ ~ inIsr /\ fpc = "off"
  BY <1>1 DEF ser_write, Append_at, CallerInv
<1>4. /\ HeadOf(hdr) = accepted /\ buf_elements(hdr) = accepted - hdr.hi
      /\ buf_write_hdr(hdr) = hdr
  BY <1>1, NoWrap
<1>5. /\ hdr \in Header /\ hdr.lo = accepted /\ hdr.hi \in Nat /\ accepted \in Nat
      /\ hdr.hi <= accepted /\ accepted - hdr.hi <= buflen /\ buflen \in 0 .. Size
      /\ accepted + n <= MaxBytes /\ n \in Nat
      /\ (~ overrun => accepted - hdr.hi <= Size - 1)
  BY <1>1, <1>3 DEF TypeOK, HdrInv, Header
<1>6. PICK w \in Nat : w = Written /\ w <= n /\ w <= Size - buflen
  <2>1. Written \in Nat /\ Written <= n /\ Written <= Size - buflen
    BY <1>2, <1>5 DEF Written
  <2> QED
    BY <2>1
<1>7. hdr' = [lo |-> accepted + w, hi |-> hdr.hi]
  <2>1. hdr' = buf_write_commit(hdr, w)
    BY <1>4, <1>6 DEF ser_write, Append_at
  <2>2. accepted + w <= MaxElem
    BY <1>2, <1>5, <1>6
  <2> QED
    BY <1>5, <1>6, <2>1, <2>2, Commit
<1>8. hdr'.lo = accepted + w /\ hdr'.hi = hdr.hi
  BY <1>7
<1>9. hdr' \in Header
  BY <1>2, <1>5, <1>6, <1>7 DEF Header, Half
<1>10. /\ buffer' = Fill(buf_write_ret(hdr, w)) /\ accepted' = accepted + w
       /\ n' = n - w /\ buflen' = w
       /\ overrun' = (overrun \/ UnsignedLess(Capacity(hdr), w))
       /\ UNCHANGED <<fifo_empty, fnum, fpos, fdone, inIsr, picVars, uartVars, wire>>
  BY <1>6 DEF ser_write, Append_at
<1>11. fifo_empty = 1 => pc' = "flush" /\ fpc' = "begin"
  BY DEF ser_write, Append_at
<1>12. fifo_empty # 1 => pc' \in {"tohalt", "ready", "look"} /\ fpc' = "off"
  <2>1. fifo_empty # 1 => pc' = AfterWrite(Written, n - Written) /\ fpc' = fpc
    BY DEF ser_write, Append_at
  <2>2. AfterWrite(Written, n - Written) \in {"tohalt", "ready", "look"}
    BY DEF AfterWrite
  <2> QED
    BY <1>3, <2>1, <2>2
<1>13. pc' \in {"flush", "tohalt", "ready", "look"} /\ fpc' \in {"off", "begin"}
  BY <1>11, <1>12
<1>14. ~ overrun' => ~ overrun /\ accepted + w - hdr.hi <= Size - 1
  <2>1. ~ overrun' => ~ overrun /\ ~ UnsignedLess(Capacity(hdr), w)
    BY <1>10, Zenon
  <2>2. Capacity(hdr) = Size - (accepted - hdr.hi) - 1
    BY <1>2, <1>4, <1>5 DEF Capacity
  <2>3. ~ overrun /\ ~ UnsignedLess(Capacity(hdr), w) => accepted + w - hdr.hi <= Size - 1
    BY <1>2, <1>5, <1>6, <2>2 DEF UnsignedLess
  <2> QED
    BY <2>1, <2>3
<1>15. accepted + w - hdr.hi <= Size /\ accepted + w + (n - w) <= MaxBytes /\ accepted + w <= MaxBytes
  BY <1>2, <1>5, <1>6
<1>16. PICK r \in Int : r = buf_write_ret(hdr, w)
  <2>1. Capacity(hdr) \in Int
    BY <1>2, <1>4, <1>5 DEF Capacity
  <2>2. accepted % Size \in 0 .. Size - 1
    BY <1>5, Slots
  <2> QED
    BY <1>4, <2>1, <2>2 DEF buf_write_ret
<1>17. ASSUME NEW s \in 0 .. Size - 1
       PROVE  /\ (s - r) % Size \in 0 .. Size - 1
              /\ buffer'[s] = IF (s - r) % Size < w THEN accepted + ((s - r) % Size) + 1 ELSE buffer[s]
              /\ buffer'[s] \in Nat
  <2>1. PICK k \in 0 .. Size - 1 : k = (s - r) % Size
    <3>1. PICK N \in Nat \ {0} : N = Size
      BY <1>2
    <3>2. s - r \in Int
      BY <1>2
    <3>3. (s - r) % N \in 0 .. N - 1
      BY <3>2, DivMod
    <3> QED
      BY <3>1, <3>3
  <2>2. buffer'[s] = IF k < w THEN accepted + k + 1 ELSE buffer[s]
    BY <1>6, <1>10, <1>16, <2>1 DEF Fill
  <2>3. buffer[s] \in Nat
    BY <1>1 DEF TypeOK
  <2> QED
    BY <1>5, <2>1, <2>2, <2>3
<1>18. buffer' \in [0 .. Size - 1 -> Nat]
  <2>1. buffer' = [s \in 0 .. Size - 1 |-> buffer'[s]]
    BY <1>10 DEF Fill
  <2> QED
    BY <1>17, <2>1
<1>19. TypeOK'
  <2>1. fifo_empty' \in {0, 1} /\ fnum' \in 0 .. Fifo /\ fdone' \in 0 .. Fifo /\ fpos' \in 0 .. Size - 1
    BY <1>1, <1>10 DEF TypeOK
  <2>2. n' \in Nat /\ buflen' \in 0 .. Size /\ accepted' \in Nat
    BY <1>2, <1>5, <1>6, <1>10
  <2>3. inIsr' \in BOOLEAN /\ irr' \in BOOLEAN /\ isr' \in BOOLEAN /\ overrun' \in BOOLEAN
    BY <1>1, <1>10 DEF TypeOK
  <2>4. thri' \in BOOLEAN /\ ier_tx' \in BOOLEAN /\ mcr' \in {"off", "irq", "loopback"}
    BY <1>1, <1>10 DEF TypeOK
  <2>5. tx' \in Seq(Nat) /\ Len(tx') <= Fifo /\ wire' \in Seq(Nat)
    BY <1>1, <1>10 DEF TypeOK
  <2>6. pc' \in InitPcs \cup PrintPcs \cup {"panic", "wild"} /\ fpc' \in {"off", "begin", "out"}
    BY <1>13
  <2> QED
    BY <1>9, <1>18, <2>1, <2>2, <2>3, <2>4, <2>5, <2>6 DEF TypeOK
<1>20. HdrInv'
  <2>1. accepted' - hdr'.hi <= IF overrun' THEN Size ELSE Size - 1
    <3>1. hdr'.hi = hdr.hi /\ accepted' = accepted + w
      BY <1>8, <1>10
    <3>2. accepted' - hdr'.hi <= Size
      BY <1>5, <1>15, <3>1
    <3>3. ~ overrun' => accepted' - hdr'.hi <= Size - 1
      BY <1>5, <1>14, <3>1
    <3> QED
      BY <3>2, <3>3
  <2>2. hdr'.lo = accepted' /\ hdr'.hi <= accepted' /\ accepted' <= MaxBytes /\ accepted' + n' <= MaxBytes
    BY <1>5, <1>6, <1>8, <1>10, <1>15
  <2> QED
    BY <1>13, <2>1, <2>2 DEF HdrInv
<1>21. CallerInv'
  BY <1>3, <1>10, <1>11, <1>12, <1>13 DEF CallerInv
<1>22. FlushInv'
  BY <1>1, <1>3, <1>10, <1>11, <1>12, <1>13 DEF FlushInv
<1>23. PortInv'
  BY <1>1, <1>3, <1>10, <1>13 DEF PortInv
<1>24. WakeInv'
  BY <1>1, <1>3, <1>10, <1>11, <1>12, <1>13 DEF WakeInv
<1>25. ASSUME ~ overrun', NEW p \in hdr.hi .. accepted + w - 1
       PROVE  buffer'[p % Size] = p + 1
  <2>1. p \in Nat /\ p - accepted < Size /\ accepted - p < Size
    BY <1>2, <1>5, <1>6, <1>14, <1>25
  <2>2. p % Size \in 0 .. Size - 1
    BY <2>1, Slots
  <2>3. r = accepted % Size
    <3>1. ~ UnsignedLess(Capacity(hdr), w)
      BY <1>10, <1>25, Zenon
    <3> QED
      BY <1>4, <1>16, <3>1 DEF buf_write_ret
  <2>4. ((p % Size) - r) % Size = IF p >= accepted THEN p - accepted ELSE p - accepted + Size
    BY <1>5, <2>1, <2>3, FillSlot
  <2>5. PICK s \in 0 .. Size - 1, k \in Int : s = p % Size /\ k = (s - r) % Size
    BY <1>17, <2>2
  <2>6. k = IF p >= accepted THEN p - accepted ELSE p - accepted + Size
    BY <2>4, <2>5
  <2>7. buffer'[s] = IF k < w THEN accepted + k + 1 ELSE buffer[s]
    BY <1>17, <2>5
  <2>8. CASE p >= accepted
    <3>1. k = p - accepted /\ k < w
      BY <1>5, <1>6, <2>1, <2>6, <2>8
    <3>2. accepted + k + 1 = p + 1
      BY <1>5, <2>1, <3>1
    <3> QED
      BY <2>5, <2>7, <3>1, <3>2
  <2>9. CASE ~ (p >= accepted)
    <3>1. k = p - accepted + Size /\ ~ (k < w)
      BY <1>2, <1>5, <1>6, <1>14, <1>25, <2>1, <2>6, <2>9
    <3>2. buffer[p % Size] = p + 1
      <4>1. p \in hdr.hi .. accepted - 1
        BY <1>5, <2>1, <2>9
      <4> QED
        BY <1>1, <1>3, <1>14, <1>25, <4>1 DEF DataInv
    <3> QED
      BY <2>5, <2>7, <3>1, <3>2
  <2> QED
    BY <2>8, <2>9
<1>26. DataInv'
  <2> SUFFICES ASSUME ~ overrun' PROVE DataInv'
    BY DEF DataInv
  <2>1. /\ Len(wire) + Len(tx) = hdr.hi
        /\ \A i \in 1 .. Len(wire) : wire[i] = i
        /\ \A i \in 1 .. Len(tx) : tx[i] = Len(wire) + i
    BY <1>1, <1>3, <1>14 DEF DataInv, Drained
  <2>2. Drained' = hdr.hi
    BY <1>8, <1>13 DEF Drained
  <2>3. \A p \in hdr'.hi .. accepted' - 1 : buffer'[p % Size] = p + 1
    <3>1. \A p \in hdr.hi .. accepted + w - 1 : buffer'[p % Size] = p + 1
      BY <1>25
    <3>2. hdr'.hi = hdr.hi /\ accepted' = accepted + w
      BY <1>8, <1>10
    <3> TAKE p \in hdr'.hi .. accepted' - 1
    <3>3. p \in hdr.hi .. accepted + w - 1
      BY <1>5, <3>2
    <3> QED
      BY <3>1, <3>3
  <2> QED
    BY <1>10, <1>13, <2>1, <2>2, <2>3 DEF DataInv
<1> QED
  BY <1>19, <1>20, <1>21, <1>22, <1>23, <1>24, <1>26 DEF IInv
-----------------------------------------------------------------------------
(* What holds in every state.                                              *)

LEMMA InitInv == Init => IInv
<1> SUFFICES ASSUME Init PROVE IInv
  OBVIOUS
<1> USE SerialAssumption, RingAssumption DEF Init, buf_init, InitPcs, PrintPcs
<1>1. TypeOK
  <2>1. hdr \in Header
    BY DEF Header, Half
  <2>2. tx \in Seq(Nat) /\ wire \in Seq(Nat) /\ Len(tx) = 0
    OBVIOUS
  <2>3. buffer \in [0 .. Size - 1 -> Nat]
    OBVIOUS
  <2>4. fpos \in 0 .. Size - 1 /\ fnum \in 0 .. Fifo /\ fdone \in 0 .. Fifo /\ buflen \in 0 .. Size
    OBVIOUS
  <2>5. /\ fpc \in {"off", "begin", "out"} /\ fifo_empty \in {0, 1}
        /\ pc \in InitPcs \cup PrintPcs \cup {"panic", "wild"}
        /\ mcr \in {"off", "irq", "loopback"}
    OBVIOUS
  <2>6. n \in Nat /\ accepted \in Nat /\ Len(tx) <= Fifo
    BY <2>2
  <2>7. /\ inIsr \in BOOLEAN /\ irr \in BOOLEAN /\ isr \in BOOLEAN
        /\ thri \in BOOLEAN /\ ier_tx \in BOOLEAN /\ overrun \in BOOLEAN
    BY Zenon
  <2> QED
    BY <2>1, <2>2, <2>3, <2>4, <2>5, <2>6, <2>7 DEF TypeOK
<1>2. hdr.lo = 0 /\ hdr.hi = 0
  OBVIOUS
<1>3. HdrInv
  BY <1>2 DEF HdrInv
<1>4. CallerInv /\ FlushInv /\ PortInv
  BY DEF CallerInv, FlushInv, PortInv
<1>5. WakeInv /\ DataInv
  BY DEF WakeInv, DataInv
<1> QED
  BY <1>1, <1>3, <1>4, <1>5 DEF IInv

LEMMA NextInv ==
  ASSUME MaxBytes <= MaxElem, IInv, [Next]_vars
  PROVE  IInv'
<1>1. ASSUME UNCHANGED vars PROVE IInv'
  <2> USE <1>1 DEF vars, serVars, flushVars, mainVars, picVars, uartVars, histVars
  <2>1. TypeOK'
    BY DEF IInv, TypeOK
  <2>2. HdrInv' /\ CallerInv' /\ FlushInv'
    BY DEF IInv, HdrInv, CallerInv, FlushInv
  <2>3. PortInv' /\ WakeInv'
    BY DEF IInv, PortInv, WakeInv
  <2>4. DataInv'
    BY DEF IInv, DataInv, Drained
  <2> QED
    BY <2>1, <2>2, <2>3, <2>4 DEF IInv
<1>2. ASSUME ser_init PROVE IInv'
  BY <1>2, init_fields_Step, init_ier_Step, init_fcr_Step, init_mcr_Step, init_loop_Step,
     init_test_Step DEF ser_init
<1>3. ASSUME Main PROVE IInv'
  BY <1>2, <1>3, ser_write_look_Step, ser_write_Step, ser_write_wild_Step, ser_write_end_Step,
     halt_Step, assert_ser_write_Step DEF Main
<1>4. ASSUME Flush PROVE IInv'
  BY <1>4, ser_flush_Step, rep_outsb_Step, ser_flush_end_Step DEF Flush
<1>5. ASSUME Irq PROVE IInv'
  BY <1>5, Irq4_Step, Irq7_Step, IrqWithdrawn_Step DEF Irq
<1> QED
  BY <1>1, <1>3, <1>4, <1>5, com1_isr_Step, UartSend_Step, kprint_Step, panic_Step
  DEF Next, Stopped

\* The inductive invariant, for every FIFO depth, ring size and sequence of
\* messages.
THEOREM Invariant ==
  ASSUME MaxBytes <= MaxElem
  PROVE  Spec => []IInv
<1>1. IInv /\ [Next]_vars => IInv'
  BY NextInv
<1> QED
  BY InitInv, <1>1, PTL DEF Spec

\* ser_flush never writes to a full FIFO, whoever calls it.
THEOREM FifoHasRoomHolds ==
  ASSUME MaxBytes <= MaxElem
  PROVE  Spec => []FifoHasRoom
<1>1. IInv => FifoHasRoom
  <2> SUFFICES ASSUME IInv, fpc = "out", fdone < fnum PROVE Len(tx) < Fifo
    BY DEF FifoHasRoom
  <2>1. fnum \in 0 .. Fifo /\ fdone \in 0 .. Fifo /\ tx \in Seq(Nat) /\ Len(tx) <= fdone
    BY DEF IInv, TypeOK, FlushInv
  <2>2. Len(tx) \in Nat /\ Fifo \in Nat
    BY <2>1, SerialAssumption
  <2> QED
    BY <2>1, <2>2
<1> QED
  BY Invariant, <1>1, PTL

\* With interrupts enabled and bytes in the ring, the UART is busy or its
\* interrupt is on its way: com1_isr, ser_write and fifo_empty never leave the
\* transmitter idle between them.
THEOREM NoLostWakeupHolds ==
  ASSUME MaxBytes <= MaxElem
  PROVE  Spec => []NoLostWakeup
<1>1. IInv => NoLostWakeup
  <2> SUFFICES ASSUME IInv, pc \in PrintPcs, IntrEnabled, buf_elements(hdr) > 0, tx = <<>>
               PROVE  irr /\ Line
    BY DEF NoLostWakeup
  <2>1. fpc = "off"
    BY DEF IInv, CallerInv, IntrEnabled
  <2>2. fifo_empty # 1
    <3>1. accepted - hdr.hi > 0
      BY NoWrap DEF IInv
    <3>2. accepted \in Nat /\ hdr.hi \in Nat
      BY DEF IInv, TypeOK, Header
    <3>3. hdr.hi # accepted
      BY <3>1, <3>2
    <3> QED
      BY <2>1, <3>3 DEF IInv, WakeInv
  <2>3. thri /\ irr
    BY <2>1, <2>2 DEF IInv, WakeInv
  <2>4. ier_tx /\ mcr = "irq"
    BY DEF IInv, PortInv
  <2> QED
    BY <2>3, <2>4 DEF Line
<1> QED
  BY Invariant, <1>1, PTL

\* The pieces of the stream, put together again.
LEMMA AppendedHolds ==
  ASSUME MaxBytes <= MaxElem, IInv, ~ overrun, pc \in PrintPcs
  PROVE  wire \o tx \o Pending = Numbers(accepted)
<1>1. TypeOK /\ HdrInv /\ FlushInv /\ DataInv
  BY DEF IInv
<1>2. PICK h \in Nat : h = hdr.hi
  BY <1>1 DEF TypeOK, Header
<1>3. PICK f \in Nat : f = (IF fpc = "out" THEN fdone ELSE 0) /\ h + f <= accepted
  BY <1>1, <1>2 DEF TypeOK, FlushInv, HdrInv
<1>4. accepted \in Nat /\ h <= accepted /\ buf_elements(hdr) = accepted - h /\ TailOf(hdr) = h
  BY <1>1, <1>2, NoWrap DEF TypeOK, HdrInv
<1>5. PICK m \in Nat : m = accepted - h - f
  <2>1. f \in Nat /\ h + f <= accepted
    BY <1>3
  <2>2. h \in Nat /\ accepted \in Nat
    BY <1>4
  <2>3. accepted - h - f \in Nat
    BY <2>1, <2>2
  <2> QED
    BY <2>3
<1>6. Pending = [i \in 1 .. m |-> buffer[(h + f + i - 1) % Size]]
  <2>1. m = buf_elements(hdr) - f
    BY <1>3, <1>4, <1>5
  <2> QED
    BY <1>3, <1>4, <2>1 DEF Pending
<1>7. \A i \in 1 .. m : Pending[i] = h + f + i
  <2> TAKE i \in 1 .. m
  <2>1. PICK p \in Nat : p = h + f + i - 1
    BY <1>5
  <2>2. p \in hdr.hi .. accepted - 1
    BY <1>2, <1>3, <1>4, <1>5, <2>1
  <2>3. buffer[p % Size] = p + 1
    BY <1>1, <2>2 DEF DataInv
  <2>4. Pending[i] = buffer[p % Size]
    BY <1>6, <2>1
  <2> QED
    BY <2>1, <2>3, <2>4
<1>8. Pending \in Seq(Nat) /\ Len(Pending) = m
  <2>1. Pending \in [1 .. m -> Nat]
    <3>1. \A i \in 1 .. m : h + f + i \in Nat
      OBVIOUS
    <3>2. Pending = [i \in 1 .. m |-> Pending[i]]
      BY <1>6
    <3> QED
      BY <1>7, <3>1, <3>2
  <2> QED
    BY <2>1
<1>9. /\ wire \in Seq(Nat) /\ tx \in Seq(Nat) /\ Len(wire) \in Nat /\ Len(tx) \in Nat
      /\ Len(wire) + Len(tx) = h + f
      /\ \A i \in 1 .. Len(wire) : wire[i] = i
      /\ \A i \in 1 .. Len(tx) : tx[i] = Len(wire) + i
  <2>1. Drained = h + f
    BY <1>2, <1>3 DEF Drained
  <2> QED
    BY <1>1, <2>1 DEF TypeOK, DataInv
<1> DEFINE s == wire \o tx
           z == s \o Pending
<1>10. s \in Seq(Nat) /\ Len(s) = h + f /\ \A i \in 1 .. h + f : s[i] = i
  <2>1. /\ s \in Seq(Nat) /\ Len(s) = Len(wire) + Len(tx)
        /\ \A i \in 1 .. Len(wire) + Len(tx) : s[i] =
             IF i <= Len(wire) THEN wire[i] ELSE tx[i - Len(wire)]
    BY <1>9, ConcatProperties
  <2> HIDE DEF s
  <2>2. ASSUME NEW i \in 1 .. h + f PROVE s[i] = i
    <3>1. i \in 1 .. Len(wire) + Len(tx)
      BY <1>9
    <3>2. CASE i <= Len(wire)
      BY <1>9, <2>1, <3>1, <3>2, SMTT(20)
    <3>3. CASE ~ (i <= Len(wire))
      <4>1. i - Len(wire) \in 1 .. Len(tx)
        BY <1>9, <3>1, <3>3
      <4>2. tx[i - Len(wire)] = Len(wire) + (i - Len(wire))
        BY <1>9, <4>1
      <4> QED
        BY <1>9, <2>1, <3>1, <3>3, <4>2
    <3> QED
      BY <3>2, <3>3
  <2> QED
    BY <1>9, <2>1, <2>2
<1> HIDE DEF s
<1>11. z \in Seq(Nat) /\ Len(z) = accepted /\ \A i \in 1 .. accepted : z[i] = i
  <2>1. /\ z \in Seq(Nat) /\ Len(z) = Len(s) + Len(Pending)
        /\ \A i \in 1 .. Len(s) + Len(Pending) : z[i] =
             IF i <= Len(s) THEN s[i] ELSE Pending[i - Len(s)]
    BY <1>8, <1>10, ConcatProperties
  <2> HIDE DEF z
  <2>2. Len(s) + Len(Pending) = accepted
    BY <1>3, <1>4, <1>5, <1>8, <1>10
  <2>3. ASSUME NEW i \in 1 .. accepted PROVE z[i] = i
    <3>1. i \in 1 .. Len(s) + Len(Pending)
      BY <2>2
    <3>2. CASE i <= h + f
      BY <1>10, <2>1, <3>1, <3>2
    <3>3. CASE ~ (i <= h + f)
      <4>1. i - (h + f) \in 1 .. m
        BY <1>4, <1>5, <3>3
      <4>2. Pending[i - (h + f)] = h + f + (i - (h + f))
        BY <1>7, <4>1
      <4> QED
        BY <1>10, <2>1, <3>1, <3>3, <4>2
    <3> QED
      BY <3>2, <3>3
  <2> QED
    BY <2>1, <2>2, <2>3
<1>12. /\ Numbers(accepted) \in Seq(Nat) /\ Len(Numbers(accepted)) = accepted
       /\ \A i \in 1 .. accepted : Numbers(accepted)[i] = i
  <2>1. Numbers(accepted) \in [1 .. accepted -> Nat]
    BY <1>4 DEF Numbers
  <2> QED
    BY <1>4, <2>1 DEF Numbers
<1>13. z = Numbers(accepted)
  <2> HIDE DEF z
  <2> QED
    BY <1>11, <1>12, SeqEqual
<1> QED
  BY <1>13 DEF s, z

\* While ser_write has found the room it counted on, every byte it has
\* accepted is on the wire, in the FIFO or in the ring, once and in order; and
\* a panic only cuts the stream.
THEOREM InOrderHolds ==
  ASSUME MaxBytes <= MaxElem
  PROVE  Spec => []InOrder
<1>1. IInv => InOrder
  <2> SUFFICES ASSUME IInv, ~ overrun
               PROVE  /\ Appended
                      /\ pc = "panic" =>
                           \E k \in 0 .. accepted :
                              /\ Len(wire) >= k /\ SubSeq(wire, 1, k) = Numbers(k)
                              /\ \A i \in k + 1 .. Len(wire) : wire[i] = Other
    BY DEF InOrder
  <2>1. Appended
    BY AppendedHolds DEF Appended
  <2>2. ASSUME pc = "panic"
        PROVE  \E k \in 0 .. accepted :
                 /\ Len(wire) >= k /\ SubSeq(wire, 1, k) = Numbers(k)
                 /\ \A i \in k + 1 .. Len(wire) : wire[i] = Other
    <3>1. PICK k \in 0 .. accepted :
            /\ k <= Len(wire) /\ \A i \in 1 .. k : wire[i] = i
            /\ \A i \in k + 1 .. Len(wire) : wire[i] = Other
      BY <2>2 DEF IInv, DataInv
    <3>2. accepted \in Nat /\ wire \in Seq(Nat) /\ Len(wire) \in Nat
      BY DEF IInv, TypeOK
    <3>3. k \in Nat /\ k \in Int /\ 1 \in Int
      BY <3>2
    <3>4. \A i \in 1 .. k : wire[i] \in Nat
      BY <3>1, <3>3
    <3>5. /\ SubSeq(wire, 1, k) \in Seq(Nat)
          /\ Len(SubSeq(wire, 1, k)) = (IF 1 <= k THEN k - 1 + 1 ELSE 0)
          /\ \A i \in 1 .. k - 1 + 1 : SubSeq(wire, 1, k)[i] = wire[1 + i - 1]
      BY <3>3, <3>4, SubSeqProperties
    <3> DEFINE u == SubSeq(wire, 1, k)
    <3> HIDE DEF u
    <3>6. u \in Seq(Nat) /\ Len(u) = k /\ \A i \in 1 .. k : u[i] = i
      <4>1. u \in Seq(Nat) /\ Len(u) = k
        BY <3>3, <3>5 DEF u
      <4>2. ASSUME NEW i \in 1 .. k PROVE u[i] = i
        <5>1. i \in 1 .. k - 1 + 1 /\ 1 + i - 1 = i
          BY <3>3
        <5> QED
          BY <3>1, <3>5, <5>1 DEF u
      <4> QED
        BY <4>1, <4>2
    <3>7. /\ Numbers(k) \in Seq(Nat) /\ Len(Numbers(k)) = k
          /\ \A i \in 1 .. k : Numbers(k)[i] = i
      <4>1. Numbers(k) \in [1 .. k -> Nat]
        BY <3>3 DEF Numbers
      <4> QED
        BY <3>3, <4>1 DEF Numbers
    <3>8. u = Numbers(k)
      BY <3>6, <3>7, SeqEqual
    <3> QED
      BY <3>1, <3>2, <3>3, <3>8 DEF u
  <2> QED
    BY <2>1, <2>2
<1> QED
  BY Invariant, <1>1, PTL
=============================================================================
