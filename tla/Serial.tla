------------------------------- MODULE Serial -------------------------------
(***************************************************************************)
(* The interrupt-driven transmit path of the kernel: kprint (kmain.cpp),   *)
(* ser_init, ser_write and ser_flush (x86/serial.c), com1_isr and          *)
(* spurious_irq7_isr (x86/isrs.cc), panic (crt/assert.c), the ring buffer  *)
(* of module RingHdr, and, as external parts, the 16550 UART and the       *)
(* 8259A interrupt controller they drive.                                  *)
(*                                                                         *)
(* One CPU: main code runs a step at a time, an interrupt handler runs to  *)
(* its iret once entered, the UART sends a byte whenever it likes.  Byte   *)
(* number k that ser_write accepts is the number k.                        *)
(***************************************************************************)
EXTENDS RingHdr, Sequences, SequencesExt

CONSTANTS Fifo,       \* SERIAL_FIFO: the depth of the UART's transmit FIFO
          MaxBytes,   \* bound: bytes kprint is asked to print in a behaviour
          MsgLens,    \* lengths of the messages kprint is called with
          PanicLen    \* bound: length of the message panic prints

ASSUME SerialAssumption ==
  /\ Fifo \in Nat \ {0} /\ MaxBytes \in Nat /\ PanicLen \in Nat
  /\ MsgLens \subseteq Nat \ {0}

VARIABLES
  hdr, buffer, fifo_empty,     \* struct serial
  fpc, fnum, fpos, fdone,      \* ser_flush: progress of the call under way
  pc,                          \* where the main code is
  n, buflen,                   \* kprint's n; buflen and written of ser_write
  inIsr,                       \* com1_isr is running
  irr, isr,                    \* 8259A: COM1 request latched, in service
  tx, thri, ier_tx, mcr,       \* 16550: transmit FIFO, THRE interrupt pending,
                               \* IER_TX, modem control
  wire,                        \* history: what left the UART
  accepted,                    \* history: bytes ser_write reported as written
  overrun                      \* history: ser_write went on with fewer free
                               \* slots than it wrote

serVars   == <<hdr, buffer, fifo_empty>>
flushVars == <<fpc, fnum, fpos, fdone>>
mainVars  == <<pc, n, buflen>>
picVars   == <<irr, isr>>
uartVars  == <<tx, thri, ier_tx, mcr>>
histVars  == <<wire, accepted, overrun>>
vars == <<serVars, flushVars, mainVars, inIsr, picVars, uartVars, histVars>>

\* A byte of panic's message, and the byte of the loopback test.
Other == 0

InitPcs  == {"fields", "ier", "fcr", "mcr", "loop", "test", "normal"}
PrintPcs == {"ready", "look", "append", "flush", "tohalt", "halt"}

TypeOK ==
  /\ hdr \in Header /\ buffer \in [0 .. Size - 1 -> Nat]
  /\ fifo_empty \in {0, 1}
  /\ fpc \in {"off", "begin", "out"}
  /\ fnum \in 0 .. Fifo /\ fdone \in 0 .. Fifo /\ fpos \in 0 .. Size - 1
  /\ pc \in InitPcs \cup PrintPcs \cup {"panic", "wild"}
  /\ n \in Nat /\ buflen \in 0 .. Size
  /\ inIsr \in BOOLEAN /\ irr \in BOOLEAN /\ isr \in BOOLEAN
  /\ tx \in Seq(Nat) /\ Len(tx) <= Fifo
  /\ thri \in BOOLEAN /\ ier_tx \in BOOLEAN /\ mcr \in {"off", "irq", "loopback"}
  /\ wire \in Seq(Nat) /\ accepted \in Nat /\ overrun \in BOOLEAN

-----------------------------------------------------------------------------
(* The 16550 and the 8259A (external).                                     *)

\* The interrupt line: OUT2 gates it, and loopback disconnects OUT2.
Line == thri /\ ier_tx /\ mcr = "irq"

\* The 8259A latches a request on the rising edge of its input.
LatchEdge == irr' = (irr \/ (~ Line /\ Line'))

\* A byte goes out; the transmitter asks for more when that was the last.
\* In loopback it goes to the receiver instead of the wire.
UartSend ==
  /\ tx # <<>> /\ pc # "wild"
  /\ tx' = Tail(tx)
  /\ thri' = (thri \/ Tail(tx) = <<>>)
  /\ wire' = IF mcr = "loopback" THEN wire ELSE Append(wire, Head(tx))
  /\ UNCHANGED <<ier_tx, mcr>>
  /\ LatchEdge
  /\ UNCHANGED <<serVars, flushVars, mainVars, inIsr, isr, accepted, overrun>>

\* A write to the DATA register: it withdraws the THRE interrupt, and is
\* lost when the FIFO is full.
UartData(b) ==
  /\ tx' = IF Len(tx) < Fifo THEN Append(tx, b) ELSE tx
  /\ thri' = FALSE

-----------------------------------------------------------------------------
(* Interrupts.                                                             *)

\* EFLAGS.IF: clear in the critical section of ser_write, in a handler and
\* after panic's cli.
IntrEnabled == ~ inIsr /\ pc \notin {"flush", "panic", "wild"}

\* hlt ends with the interrupt that is delivered.
WakeUp == pc' = IF pc = "halt" THEN "look" ELSE pc

\* The CPU acknowledges a request whose line is still high: com1_isr.
Irq4 ==
  /\ irr /\ ~ isr /\ IntrEnabled /\ Line
  /\ irr' = FALSE /\ isr' = TRUE
  /\ inIsr' = TRUE /\ fpc' = "begin"
  /\ WakeUp
  /\ UNCHANGED <<serVars, fnum, fpos, fdone, n, buflen, uartVars, histVars>>

\* The line fell before the acknowledge: the 8259A answers with IRQ 7, whose
\* in-service bit is clear, so that spurious_irq7_isr sends no EOI.
Irq7 ==
  /\ irr /\ ~ isr /\ IntrEnabled /\ ~ Line
  /\ irr' = FALSE
  /\ WakeUp
  /\ UNCHANGED <<serVars, flushVars, n, buflen, inIsr, isr, uartVars, histVars>>

\* The line fell before the CPU noticed: no interrupt at all.
IrqWithdrawn ==
  /\ irr /\ ~ Line
  /\ irr' = FALSE
  /\ UNCHANGED <<serVars, flushVars, mainVars, inIsr, isr, uartVars, histVars>>

\* Mutant: com1_isr returns without its EOI.
com1_isr_no_eoi ==
  /\ inIsr /\ fpc = "off"
  /\ inIsr' = FALSE
  /\ UNCHANGED <<serVars, flushVars, mainVars, picVars, uartVars, histVars>>

\* The end of com1_isr, once its ser_flush has returned: pic_eoi and iret.
com1_isr ==
  /\ inIsr /\ fpc = "off"
  /\ isr' = FALSE
  /\ inIsr' = FALSE
  /\ UNCHANGED <<serVars, flushVars, mainVars, irr, uartVars, histVars>>

-----------------------------------------------------------------------------
(* ser_flush, called with interrupts off by ser_write and by com1_isr.     *)

\* Up to the first outsb: what to send, or that there is nothing to send,
\* and what that makes of fifo_empty.
FlushStart(num, busy, idle) ==
  /\ fpc = "begin"
  /\ IF buf_elements(hdr) > 0
     THEN /\ fnum' = num
          /\ fpos' = buf_read_ret(hdr, num)
          /\ fdone' = 0 /\ fifo_empty' = busy /\ fpc' = "out"
     ELSE /\ fifo_empty' = idle /\ fpc' = "off"
          /\ UNCHANGED <<fnum, fpos, fdone>>
  /\ UNCHANGED <<hdr, buffer, mainVars, inIsr, picVars, uartVars, histVars>>

\* if (buflen > SERIAL_FIFO) buflen = SERIAL_FIFO
FlushLen == IF buf_elements(hdr) > Fifo THEN Fifo ELSE buf_elements(hdr)

\* Mutants: the length is not cut to the depth of the FIFO; fifo_empty is not
\* cleared when bytes are sent; it is not set when there are none.
ser_flush_uncut  == FlushStart(buf_elements(hdr), 0, 1)
ser_flush_kept   == FlushStart(FlushLen, fifo_empty, 1)
ser_flush_unset  == FlushStart(FlushLen, 0, fifo_empty)

ser_flush == FlushStart(FlushLen, 0, 1)

\* One byte of rep_outsb; the two halves of the buffer are the index modulo
\* its size.
rep_outsb ==
  /\ fpc = "out" /\ fdone < fnum
  /\ UartData(buffer[(fpos + fdone) % Size])
  /\ fdone' = fdone + 1
  /\ UNCHANGED <<ier_tx, mcr>>
  /\ LatchEdge
  /\ UNCHANGED <<serVars, fpc, fnum, fpos, mainVars, inIsr, isr, histVars>>

\* buf_read_commit and the return to the caller.
ser_flush_end ==
  /\ fpc = "out" /\ fdone = fnum
  /\ hdr' = buf_read_commit(hdr, fnum)
  /\ fpc' = "off"
  /\ UNCHANGED <<buffer, fifo_empty, fnum, fpos, fdone, mainVars, inIsr, picVars,
                 uartVars, histVars>>

-----------------------------------------------------------------------------
(* ser_init, with interrupts enabled since kmain's sti.                    *)

InitStep(from, to) == pc = from /\ pc' = to /\ UNCHANGED <<n, buflen, inIsr, isr>>

\* The fields of the port and buf_init.
init_fields ==
  /\ InitStep("fields", "ier")
  /\ fifo_empty' = 0 /\ hdr' = buf_init
  /\ UNCHANGED <<buffer, flushVars, irr, uartVars, histVars>>

\* Enabling IER_TX with an empty transmitter raises the interrupt.
init_ier ==
  /\ InitStep("ier", "fcr")
  /\ ier_tx' = TRUE /\ thri' = (thri \/ tx = <<>>)
  /\ UNCHANGED <<tx, mcr>>
  /\ LatchEdge
  /\ UNCHANGED <<serVars, flushVars, histVars>>

\* Divisor, line mode, and the FIFOs enabled and cleared.
init_fcr ==
  /\ InitStep("fcr", "mcr")
  /\ tx' = <<>>
  /\ UNCHANGED <<serVars, flushVars, irr, thri, ier_tx, mcr, histVars>>

\* A write to the modem control register.
init_mcr ==
  /\ \/ InitStep("mcr", "loop") \/ InitStep("normal", "ready")
  /\ mcr' = "irq"
  /\ UNCHANGED <<tx, thri, ier_tx>>
  /\ LatchEdge
  /\ UNCHANGED <<serVars, flushVars, histVars>>

\* Loopback mode and the test byte 0xAE.
init_loop ==
  /\ InitStep("loop", "test")
  /\ mcr' = "loopback"
  /\ UartData(Other)
  /\ UNCHANGED ier_tx
  /\ LatchEdge
  /\ UNCHANGED <<serVars, flushVars, histVars>>

\* The test byte has come back.  (When it has not, or came back wrong,
\* ser_init returns false and kmain asserts: see panic.)
init_test ==
  /\ InitStep("test", "normal")
  /\ tx = <<>>
  /\ UNCHANGED <<serVars, flushVars, irr, uartVars, histVars>>

-----------------------------------------------------------------------------
(* kprint and ser_write.                                                   *)

\* Where kprint is once ser_write has returned: out of room, done, or in its
\* next round.
AfterWrite(written, left) ==
  CASE written = 0 -> "tohalt"
    [] written # 0 /\ left = 0 -> "ready"
    [] OTHER -> "look"

\* kmain prints a message.
kprint ==
  /\ pc = "ready" /\ ~ inIsr
  /\ \E m \in MsgLens : accepted + m <= MaxBytes /\ n' = m
  /\ pc' = "look"
  /\ UNCHANGED <<serVars, flushVars, buflen, inIsr, picVars, uartVars, histVars>>

\* ser_write reads buf_elements before its critical section.
ser_write_look ==
  /\ pc = "look" /\ ~ inIsr
  /\ buflen' = buf_elements(hdr)
  /\ pc' = "append"
  /\ UNCHANGED <<serVars, flushVars, n, inIsr, picVars, uartVars, histVars>>

\* The number of bytes it decides to append.
Written == IF n <= Size - buflen THEN n ELSE Size - buflen

\* Copies the next bytes of the message to the buffer from index head on.
Fill(head) ==
  [s \in 0 .. Size - 1 |->
     LET k == (s - head) % Size IN IF k < Written THEN accepted + k + 1 ELSE buffer[s]]

\* Mutants of the critical section: the bytes go one slot too far; a write
\* does not flush an idle transmitter.
Append_at(head, flush) ==
  /\ pc = "append" /\ ~ inIsr
  /\ buf_write_ret(hdr, Written) >= 0
  /\ buffer' = Fill(head)
  /\ hdr' = buf_write_commit(buf_write_hdr(hdr), Written)
  /\ accepted' = accepted + Written
  /\ overrun' = (overrun \/ UnsignedLess(Capacity(hdr), Written))
  /\ n' = n - Written
  /\ buflen' = Written
  /\ IF flush THEN pc' = "flush" /\ fpc' = "begin"
               ELSE pc' = AfterWrite(Written, n - Written) /\ UNCHANGED fpc
  /\ UNCHANGED <<fifo_empty, fnum, fpos, fdone, inIsr, picVars, uartVars, wire>>

ser_write_off  == Append_at(buf_write_ret(hdr, Written) + 1, fifo_empty = 1)
ser_write_lazy == Append_at(buf_write_ret(hdr, Written), FALSE)

\* The critical section: append, commit and, with fifo_empty set, call
\* ser_flush.  The result of buf_write is used as an index unchecked.
ser_write == Append_at(buf_write_ret(hdr, Written), fifo_empty = 1)

\* A negative result puts the bytes in front of the buffer, over the header
\* and the other fields of struct serial.
ser_write_wild ==
  /\ pc = "append" /\ ~ inIsr
  /\ buf_write_ret(hdr, Written) < 0
  /\ pc' = "wild" /\ overrun' = TRUE
  /\ UNCHANGED <<serVars, flushVars, n, buflen, inIsr, picVars, uartVars, wire, accepted>>

\* restore_intr after the flush, and the return to kprint.
ser_write_end ==
  /\ pc = "flush" /\ fpc = "off"
  /\ pc' = AfterWrite(buflen, n)
  /\ UNCHANGED <<serVars, flushVars, n, buflen, inIsr, picVars, uartVars, histVars>>

\* kprint's halt().
halt ==
  /\ pc = "tohalt" /\ ~ inIsr
  /\ pc' = "halt"
  /\ UNCHANGED <<serVars, flushVars, n, buflen, inIsr, picVars, uartVars, histVars>>

-----------------------------------------------------------------------------
(* panic, reached from kmain's assertions and from a failed ser_init.      *)

\* cli and ser_init_poll, which clears the FIFO.
panic ==
  /\ pc \in {"ready", "test"} /\ ~ inIsr
  /\ pc' = "panic" /\ n' = PanicLen
  /\ ier_tx' = FALSE /\ tx' = <<>> /\ mcr' = "off"
  /\ UNCHANGED <<serVars, flushVars, buflen, inIsr, picVars, thri, histVars>>

\* assert_ser_write: wait for the transmitter, write a byte.
assert_ser_write ==
  /\ pc = "panic" /\ n > 0
  /\ tx = <<>>
  /\ UartData(Other)
  /\ n' = n - 1
  /\ UNCHANGED <<ier_tx, mcr, serVars, flushVars, pc, buflen, inIsr, picVars, histVars>>

\* hang(), the unmodelled consequences of the wild write, or a hlt that no
\* interrupt will end: the transmitter ran empty between ser_write's return
\* and the hlt.
Stopped ==
  /\ \/ pc = "wild"
     \/ pc = "panic" /\ n = 0 /\ tx = <<>>
     \/ pc = "halt" /\ ~ inIsr /\ tx = <<>> /\ ~ irr
  /\ UNCHANGED vars

-----------------------------------------------------------------------------
Init ==
  /\ hdr = buf_init /\ buffer = [s \in 0 .. Size - 1 |-> 0] /\ fifo_empty = 0
  /\ fpc = "off" /\ fnum = 0 /\ fpos = 0 /\ fdone = 0
  /\ pc = "fields" /\ n = 0 /\ buflen = 0
  /\ inIsr = FALSE /\ irr = FALSE /\ isr = FALSE
  /\ tx = <<>> /\ thri = FALSE /\ ier_tx = FALSE
  /\ mcr \in {"off", "irq"}   \* as the firmware left it
  /\ wire = <<>> /\ accepted = 0 /\ overrun = FALSE

\* The main code's own steps, handlers excluded: they wait while one runs.
ser_init == ~ inIsr /\ (\/ init_fields \/ init_ier \/ init_fcr \/ init_mcr
                       \/ init_loop \/ init_test)

Main == \/ ser_init \/ ser_write_look \/ ser_write \/ ser_write_wild
        \/ ser_write_end \/ halt \/ assert_ser_write

Flush == ser_flush \/ rep_outsb \/ ser_flush_end

Irq == Irq4 \/ Irq7 \/ IrqWithdrawn

Next == Main \/ Flush \/ com1_isr \/ Irq \/ UartSend \/ kprint \/ panic \/ Stopped

\* The CPU executes what it has come to, takes an interrupt that stays
\* pending, and the UART sends what it holds.  Whether kmain prints again or
\* asserts is its own choice.
Fairness ==
  /\ WF_vars(Main) /\ WF_vars(Flush) /\ WF_vars(com1_isr)
  /\ WF_vars(Irq) /\ WF_vars(UartSend)

Spec == Init /\ [][Next]_vars /\ Fairness

-----------------------------------------------------------------------------
\* The bytes of the ring that ser_flush has not handed to the UART yet.
Pending ==
  LET f == IF fpc = "out" THEN fdone ELSE 0
  IN  [i \in 1 .. buf_elements(hdr) - f |-> buffer[(TailOf(hdr) + f + i - 1) % Size]]

Numbers(k) == [i \in 1 .. k |-> i]

\* Every byte ser_write has accepted is on the wire, in the FIFO or in the
\* ring, once and in order.
Appended == pc \in PrintPcs => wire \o tx \o Pending = Numbers(accepted)

\* While ser_write has found the room it counted on, interrupts, the
\* buffer's wrap and the UART's pace lose, repeat and reorder nothing; and a
\* panic cuts the stream without mixing anything into what went out before.
InOrder ==
  ~ overrun =>
    /\ Appended
    /\ pc = "panic" =>
         \E k \in 0 .. accepted :
            /\ Len(wire) >= k /\ SubSeq(wire, 1, k) = Numbers(k)
            /\ \A i \in k + 1 .. Len(wire) : wire[i] = Other

\* No lost wakeup: with interrupts enabled and bytes waiting, either the UART
\* still holds bytes or its interrupt is on its way.  com1_isr never reads
\* IIR, and fifo_empty decides who restarts the transmitter.
NoLostWakeup ==
  pc \in PrintPcs /\ IntrEnabled /\ buf_elements(hdr) > 0
    => tx # <<>> \/ (irr /\ Line)

\* ser_flush never writes to a full FIFO: whoever calls it, the transmitter
\* had run empty.
FifoHasRoom == fpc = "out" /\ fdone < fnum => Len(tx) < Fifo

\* An accepted byte reaches the wire, unless the kernel panics or ser_write
\* has overrun the buffer.
Sent ==
  \A k \in 1 .. MaxBytes :
    accepted >= k ~> \/ Contains(wire, k) \/ overrun \/ pc = "panic"

-----------------------------------------------------------------------------
(* Why they hold: the inductive invariant of the proofs.                   *)

\* The header counts what is accepted and what the ring has given back, and
\* the number of bytes ser_write looked at has only shrunk since.
HdrInv ==
  /\ hdr.lo = accepted /\ hdr.hi <= accepted /\ accepted <= MaxBytes
  /\ accepted - hdr.hi <= IF overrun THEN Size ELSE Size - 1
  /\ pc \notin {"panic", "wild"} => accepted + n <= MaxBytes
  /\ pc = "append" => accepted - hdr.hi <= buflen
  /\ pc \in InitPcs => accepted = 0

\* ser_flush has one caller at a time.
CallerInv ==
  /\ inIsr => pc \notin {"flush", "panic", "wild", "test", "normal"}
  /\ fpc # "off" => inIsr \/ pc = "flush"

\* The transmitter is empty when ser_flush is called: THRE is pending, or
\* fifo_empty says so.
FlushInv ==
  /\ thri => tx = <<>>
  /\ fifo_empty = 1 /\ pc \notin {"test", "panic"} => tx = <<>>
  /\ fpc = "begin" => tx = <<>>
  /\ fpc = "out" => /\ fnum >= 1 /\ fdone <= fnum /\ Len(tx) <= fdone
                    /\ fifo_empty = 0
                    /\ hdr.hi + fnum <= accepted /\ fpos = hdr.hi % Size

\* What ser_init has done to the port; its test byte never gets to the wire.
PortInv ==
  /\ pc \in {"fcr", "mcr", "loop", "test", "normal"} \cup PrintPcs => ier_tx
  /\ pc \in PrintPcs => mcr = "irq"
  /\ pc \in InitPcs \ {"test"} => tx = <<>>
  /\ pc \in {"test", "normal"} => mcr = "loopback" /\ (tx = <<>> => thri)
  /\ pc \in InitPcs => wire = <<>>

\* Whoever has to refill an empty transmitter is under way, or will be called
\* by the interrupt or by the next ser_write.
WakeInv ==
  /\ pc \in PrintPcs /\ tx = <<>> =>
       \/ thri /\ irr
       \/ fpc = "begin"
       \/ fpc = "out" /\ fdone = 0
       \/ fpc = "off" /\ fifo_empty = 1
  /\ fifo_empty = 1 /\ fpc = "off" => hdr.hi = accepted

\* The bytes ser_flush has handed to the UART.
Drained == IF fpc = "out" THEN hdr.hi + fdone ELSE hdr.hi

\* Each byte by its place: on the wire, in the FIFO, in its slot.
DataInv ==
  ~ overrun =>
    /\ pc \in PrintPcs =>
         /\ Len(wire) + Len(tx) = Drained
         /\ \A i \in 1 .. Len(wire) : wire[i] = i
         /\ \A i \in 1 .. Len(tx) : tx[i] = Len(wire) + i
         /\ \A p \in hdr.hi .. accepted - 1 : buffer[p % Size] = p + 1
    /\ pc = "panic" =>
         \E k \in 0 .. accepted :
            /\ k <= Len(wire) /\ \A i \in 1 .. k : wire[i] = i
            /\ \A i \in k + 1 .. Len(wire) : wire[i] = Other
            /\ \A i \in 1 .. Len(tx) : tx[i] = Other

IInv == TypeOK /\ HdrInv /\ CallerInv /\ FlushInv /\ PortInv /\ WakeInv /\ DataInv
=============================================================================
