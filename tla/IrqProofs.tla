----------------------------- MODULE IrqProofs -----------------------------
(***************************************************************************)
(* Interrupts and exceptions of the kernel, for every set of device lines, *)
(* every set of exceptions and every address of a handler.                 *)
(***************************************************************************)
EXTENDS Irq, SequenceTheorems, TLAPS

\* Quotient and remainder rebuild the number.
LEMMA DivMod ==
  ASSUME NEW N \in Nat \ {0}, NEW a \in Int
  PROVE  /\ a \div N \in Int
         /\ a % N \in 0 .. N - 1
         /\ a = N * (a \div N) + (a % N)
  OBVIOUS


\* Where kmain is when it makes a call.
LEMMA AtPos ==
  /\ At("GDT_init") => kpc = 1 /\ stack = <<>>
  /\ At("IDT_init") => kpc = 2 /\ stack = <<>>
  /\ At("pic_init") => kpc = 3 /\ stack = <<>>
  /\ At("pic_irqmask") => kpc = 4 /\ stack = <<>>
  /\ At("IDT_setIRQ") => kpc = 5 /\ stack = <<>>
  /\ At("sti") => kpc = 6 /\ stack = <<>>
  /\ At("ser_subsystem_init") => kpc = 7 /\ stack = <<>>
  /\ At("ser_init") => kpc = 8 /\ stack = <<>>
  /\ At("main") => kpc = 9 /\ stack = <<>>
  BY DEF At, Boot

\* The number of kmain's calls.
LEMMA BootLen == Len(Boot) = 9
  BY DEF Boot

-----------------------------------------------------------------------------
(* What a write does to a controller.                                      *)

\* pic_init leaves a controller initialised, with nothing pending.
LEMMA IcwsOf ==
  ASSUME NEW p \in PIC, NEW o, o \in Nat, NEW c, c \in Nat, NEW q, q = ICWs(p, o, c)
  PROVE  q \in PIC /\ q.icw = 4 /\ q.base = o /\ q.isr = {} /\ q.irr = {}
<1>1. PICK a : a = outb(p, "cmd", "ICW1")
  OBVIOUS
<1>2. a \in PIC /\ a.icw = 1 /\ a.isr = {} /\ a.irr = {}
  <2>1. a = [p EXCEPT !.icw = 1, !.imr = {}, !.irr = {}, !.isr = {}, !.ocw3 = "IRR"]
    BY <1>1 DEF outb
  <2>2. a = [icw |-> 1, base |-> p.base, cascade |-> p.cascade,
             imr |-> {}, irr |-> {}, isr |-> {}, ocw3 |-> "IRR"]
    BY <2>1 DEF PIC
  <2> QED
    BY <2>2 DEF PIC
<1>3. PICK b : b = outb(a, "data", o)
  OBVIOUS
<1>4. b \in PIC /\ b.icw = 2 /\ b.base = o /\ b.isr = {} /\ b.irr = {}
  <2>1. b = [a EXCEPT !.icw = 2, !.base = o]
    BY <1>2, <1>3 DEF outb
  <2>2. b = [icw |-> 2, base |-> o, cascade |-> a.cascade,
             imr |-> a.imr, irr |-> a.irr, isr |-> a.isr, ocw3 |-> a.ocw3]
    BY <1>2, <2>1 DEF PIC
  <2> QED
    BY <1>2, <2>2 DEF PIC
<1>5. PICK d : d = outb(b, "data", c)
  OBVIOUS
<1>6. d \in PIC /\ d.icw = 3 /\ d.base = o /\ d.isr = {} /\ d.irr = {}
  <2>1. d = [b EXCEPT !.icw = 3, !.cascade = c]
    BY <1>4, <1>5 DEF outb
  <2>2. d = [icw |-> 3, base |-> b.base, cascade |-> c,
             imr |-> b.imr, irr |-> b.irr, isr |-> b.isr, ocw3 |-> b.ocw3]
    BY <1>4, <2>1 DEF PIC
  <2> QED
    BY <1>4, <2>2 DEF PIC
<1>7. PICK e : e = outb(d, "data", "8086")
  OBVIOUS
<1>8. e \in PIC /\ e.icw = 4 /\ e.base = o /\ e.isr = {} /\ e.irr = {}
  BY <1>6, <1>7 DEF outb, PIC
<1>9. q = e
  BY <1>1, <1>3, <1>5, <1>7 DEF ICWs
<1> QED
  BY <1>8, <1>9

\* pic_irqmask changes the mask only.
LEMMA MaskOf ==
  ASSUME NEW p \in PIC, p.icw = 4, NEW m \in SUBSET (0 .. 7), NEW q, q = outb(p, "data", m)
  PROVE  /\ q \in PIC /\ q.icw = 4 /\ q.imr = m
         /\ q.base = p.base /\ q.irr = p.irr /\ q.isr = p.isr
  BY DEF outb, PIC

\* An end of interrupt for the only one in service.
LEMMA EoiOf ==
  ASSUME NEW p \in PIC, p.isr = {4}, NEW q, q = outb(p, "cmd", "EOI")
  PROVE  /\ q \in PIC /\ q.isr = {}
         /\ q.icw = p.icw /\ q.base = p.base /\ q.irr = p.irr /\ q.imr = p.imr
<1>1. Min({4}) = 4
  BY DEF Min
<1>2. q = [p EXCEPT !.isr = {}]
  BY <1>1 DEF outb
<1> QED
  BY <1>2 DEF PIC

\* pic_read selects a register and changes nothing else.
LEMMA SelectOf ==
  ASSUME NEW p \in PIC, NEW q, q = outb(p, "cmd", "ISR")
  PROVE  /\ q \in PIC /\ q.isr = p.isr
         /\ q.icw = p.icw /\ q.base = p.base /\ q.irr = p.irr /\ q.imr = p.imr
  BY DEF outb, PIC

\* Requests latched, withdrawn or acknowledged at one controller.
Requests(p, m, s) == [p EXCEPT !.irr = m, !.isr = s]

LEMMA RequestOf ==
  ASSUME NEW p \in PIC, NEW m \in SUBSET (0 .. 7), NEW s \in SUBSET (0 .. 7),
         NEW q, q = Requests(p, m, s)
  PROVE  /\ q \in PIC /\ q.irr = m /\ q.isr = s
         /\ q.icw = p.icw /\ q.base = p.base /\ q.imr = p.imr
<1>1. q = [icw |-> p.icw, base |-> p.base, cascade |-> p.cascade,
           imr |-> p.imr, irr |-> m, isr |-> s, ocw3 |-> p.ocw3]
  BY DEF PIC, Requests
<1> QED
  BY <1>1 DEF PIC

\* The other controller is left alone.
Latched(s, t, c, m, v) == t = [s EXCEPT ![c].irr = m, ![c].isr = v]

LEMMA OneOf ==
  ASSUME NEW s \in [1 .. 2 -> PIC], NEW c \in 1 .. 2, NEW m \in SUBSET (0 .. 7),
         NEW v \in SUBSET (0 .. 7), NEW t, Latched(s, t, c, m, v)
  PROVE  /\ t \in [1 .. 2 -> PIC]
         /\ t[c].irr = m /\ t[c].isr = v
         /\ t[c].icw = s[c].icw /\ t[c].base = s[c].base /\ t[c].imr = s[c].imr
         /\ \A p \in 1 .. 2 \ {c} : t[p] = s[p]
<1>1. PICK d \in PIC : d = s[c]
  OBVIOUS
<1>2. PICK q : q = Requests(d, m, v)
  OBVIOUS
<1>3. /\ q \in PIC /\ q.irr = m /\ q.isr = v
      /\ q.icw = d.icw /\ q.base = d.base /\ q.imr = d.imr
  BY <1>2, RequestOf
<1>4. t = [s EXCEPT ![c] = q]
  BY <1>1, <1>2 DEF Latched, Requests
<1> QED
  BY <1>1, <1>3, <1>4

-----------------------------------------------------------------------------
(* Gates.                                                                  *)

\* The halves of an address that a gate holds make up the address.
LEMMA EntryOK ==
  ASSUME NEW h \in Handlers, NEW a \in {"IRQ_INT", "IRQ_TRAP"}
  PROVE  /\ Entry(h, a) \in IDTEntry
         /\ Entry(h, a).kernel_cs = 8 /\ Entry(h, a).attribs = a
         /\ Entry(h, a).isr_high * Half + Entry(h, a).isr_low = Addr[h]
<1>1. PICK x \in Nat : x = Addr[h]
  BY IrqAssumption
<1>2. PICK N \in Nat \ {0} : N = Half
  BY IrqAssumption
<1>3. x % N \in 0 .. N - 1 /\ x \div N \in Int /\ x = N * (x \div N) + (x % N)
  BY DivMod
<1>4. PICK r \in 0 .. N - 1, d \in Nat : r = x % N /\ d = x \div N
  <2>1. x \div N >= 0
    <3>1. x >= N * 0
      OBVIOUS
    <3> QED
      BY <1>3, <3>1
  <2> QED
    BY <1>3, <2>1
<1>5. Entry(h, a) = [isr_low |-> r, isr_high |-> d, kernel_cs |-> 8, attribs |-> a]
  BY <1>1, <1>2, <1>4 DEF Entry
<1>6. d * N + r = x
  <2>1. N * d = d * N
    OBVIOUS
  <2>2. x = N * d + r
    BY <1>3, <1>4
  <2> QED
    BY <2>1, <2>2
<1> QED
  BY <1>1, <1>2, <1>5, <1>6 DEF IDTEntry

\* The CPU finds the handler whose address a gate was made from.
LEMMA GateOf ==
  ASSUME NEW h \in Handlers, NEW a \in {"IRQ_INT", "IRQ_TRAP"}, NEW v \in DOMAIN IDT,
         idtr, gdtr = 48, IDT[v] = Entry(h, a)
  PROVE  Gate(v).isr = h /\ Gate(v).attribs = a
<1>1. PICK g : g = Entry(h, a)
  OBVIOUS
<1>2. g.kernel_cs = 8 /\ g.attribs = a /\ g.isr_high * Half + g.isr_low = Addr[h]
  BY <1>1, EntryOK
<1>3. {x \in Handlers : Addr[x] = g.isr_high * Half + g.isr_low} = {h}
  BY <1>2, IrqAssumption
<1>4. (CHOOSE x \in {h} : TRUE) = h
  OBVIOUS
<1>5. Gate(v) = [isr |-> h, attribs |-> a]
  BY <1>1, <1>2, <1>3, <1>4 DEF Gate
<1> QED
  BY <1>5

\* The handlers are different from each other.
LEMMA HandlersDiffer ==
  /\ com1 \in Handlers /\ spurious7 \in Handlers /\ com1 # spurious7 /\ spurious15 \in Handlers
  /\ \A v \in 0 .. 31 : Stub(v) \in Handlers /\ Stub(v) # com1 /\ Stub(v) # spurious7 /\ Stub(v) # None
  /\ None # com1 /\ None # spurious7 /\ None \notin Handlers
  /\ <<"nobody", 0>> # com1 /\ <<"nobody", 0>> # spurious7 /\ <<"nobody", 0>> \notin Handlers
  BY DEF Handlers, Stub, com1, spurious7, spurious15, None

-----------------------------------------------------------------------------
(* The stack.                                                              *)

\* t is s with its last frame marked as done.
Marked(s, t) ==
  /\ t \in Seq(interrupt_frame) /\ Len(t) = Len(s) /\ t # <<>>
  /\ DOMAIN s = 1 .. Len(s) /\ DOMAIN t = 1 .. Len(s)
  /\ \A k \in 1 .. Len(s) :
       /\ t[k].cause = s[k].cause /\ t[k].num = s[k].num /\ t[k].isr = s[k].isr
       /\ t[k].flags = s[k].flags
       /\ k # Len(s) => t[k] = s[k]
  /\ t[Len(s)].done

\* The running handler has sent its end of interrupt.
LEMMA StackDone ==
  ASSUME NEW s \in Seq(interrupt_frame), s # <<>>, NEW t,
         t = [s EXCEPT ![Len(s)].done = TRUE]
  PROVE  Marked(s, t)
<1>1. PICK n \in Nat : n = Len(s)
  OBVIOUS
<1>2. s \in [1 .. n -> interrupt_frame] /\ n > 0
  BY <1>1
<1>3. PICK f \in interrupt_frame : f = s[n]
  BY <1>2
<1>4. PICK g : g = [f EXCEPT !.done = TRUE]
  OBVIOUS
<1>5. /\ g \in interrupt_frame /\ g.done
      /\ g.cause = f.cause /\ g.num = f.num /\ g.isr = f.isr /\ g.flags = f.flags
  BY <1>4 DEF interrupt_frame
<1>6. t = [s EXCEPT ![n] = g]
  BY <1>1, <1>3, <1>4
<1>7. t \in [1 .. n -> interrupt_frame]
  BY <1>2, <1>5, <1>6
<1>8. t \in Seq(interrupt_frame) /\ Len(t) = n
  BY <1>7
<1>9. \A k \in 1 .. n : t[k] = IF k = n THEN g ELSE s[k]
  BY <1>2, <1>6
<1> QED
  BY <1>1, <1>2, <1>3, <1>5, <1>7, <1>8, <1>9 DEF Marked

\* A frame is pushed ...
LEMMA StackPush ==
  ASSUME NEW s \in Seq(interrupt_frame), NEW f \in interrupt_frame, NEW t, t = Append(s, f)
  PROVE  /\ t \in Seq(interrupt_frame) /\ Len(t) = Len(s) + 1 /\ t # <<>>
         /\ DOMAIN s = 1 .. Len(s) /\ DOMAIN t = 1 .. Len(s) + 1 /\ Len(s) \in Nat
         /\ \A k \in 1 .. Len(s) : t[k] = s[k]
         /\ t[Len(s) + 1] = f
  OBVIOUS

\* ... and popped.
LEMMA StackPop ==
  ASSUME NEW s \in Seq(interrupt_frame), s # <<>>, NEW t, t = Front(s)
  PROVE  /\ t \in Seq(interrupt_frame) /\ Len(t) = Len(s) - 1
         /\ DOMAIN s = 1 .. Len(s) /\ DOMAIN t = 1 .. Len(s) - 1 /\ Len(s) \in Nat \ {0}
         /\ \A k \in 1 .. Len(s) - 1 : t[k] = s[k]
<1>1. PICK n \in Nat \ {0} : n = Len(s)
  OBVIOUS
<1>2. t = SubSeq(s, 1, n - 1) /\ n - 1 \in Int /\ 1 \in Int
  BY <1>1 DEF Front
<1>3. \A k \in 1 .. n - 1 : s[k] \in interrupt_frame
  BY <1>1
<1>4. /\ t \in Seq(interrupt_frame) /\ Len(t) = n - 1
      /\ \A k \in 1 .. n - 1 : t[k] = s[k]
  <2>1. /\ t \in Seq(interrupt_frame)
        /\ Len(t) = IF 1 <= n - 1 THEN n - 1 - 1 + 1 ELSE 0
        /\ \A k \in 1 .. n - 1 - 1 + 1 : t[k] = s[1 + k - 1]
    BY <1>2, <1>3, SubSeqProperties
  <2>2. \A k \in 1 .. n - 1 : 1 + k - 1 = k /\ k \in 1 .. n - 1 - 1 + 1
    OBVIOUS
  <2> QED
    BY <2>1, <2>2
<1> QED
  BY <1>1, <1>4

-----------------------------------------------------------------------------
(* kmain's calls.                                                          *)

LEMMA GDT_init_Step ==
  ASSUME IInv, GDT_init
  PROVE  IInv'
<1> USE IrqAssumption, AtPos, BootLen DEF GDT_init, tableVars, devVars, Hang
<1>1. TypeOK /\ BootInv /\ StackInv /\ ServiceInv /\ PortInv
  BY DEF IInv
<1>2. TypeOK'
  BY <1>1 DEF TypeOK
<1>3. BootInv'
  BY <1>1 DEF TypeOK, BootInv, Before
<1>4. StackInv'
  BY <1>1 DEF TypeOK, StackInv, BootInv, Before, IsExc, Top, Meant
<1>5. ServiceInv'
  BY <1>1 DEF TypeOK, StackInv, ServiceInv
<1>6. PortInv'
  BY <1>1 DEF TypeOK, StackInv, PortInv, Before, IsExc
<1> QED
  BY <1>2, <1>3, <1>4, <1>5, <1>6 DEF IInv

LEMMA IDT_init_Step ==
  ASSUME IInv, IDT_init
  PROVE  IInv'
<1> USE IrqAssumption, AtPos, BootLen DEF IDT_init, tableVars, devVars, Hang
<1>1. TypeOK /\ BootInv /\ StackInv /\ ServiceInv /\ PortInv
  BY DEF IInv
<1>2. DOMAIN IDT' = Stubs \cup DOMAIN IDT
  BY DEF SetIRQ
<1>3. \A v \in Stubs : IDT'[v] = Entry(Stub(v), StubGate(v))
  BY DEF SetIRQ
<1>4. \A v \in DOMAIN IDT \ Stubs : IDT'[v] = IDT[v]
  BY DEF SetIRQ
<1> HIDE DEF IDT_init
<1>5. \A v \in Stubs : Entry(Stub(v), StubGate(v)) \in IDTEntry
  <2> TAKE v \in Stubs
  <2>1. Stub(v) \in Handlers /\ StubGate(v) \in {"IRQ_INT", "IRQ_TRAP"}
    BY HandlersDiffer DEF Stubs, StubGate
  <2> QED
    BY <2>1, EntryOK
<1>6. kpc = 2 /\ kpc' = 3 /\ idtr' /\ stack = <<>>
  BY DEF IDT_init
<1>7. UNCHANGED <<IF_, gdtr, pics, lines, uart, stack, COM1>>
  BY DEF IDT_init
<1>8. TypeOK'
  <2>1. DOMAIN IDT' \subseteq 0 .. 255
    <3>1. Stubs \subseteq 0 .. 255 /\ DOMAIN IDT \subseteq 0 .. 255
      BY <1>1 DEF TypeOK, Stubs
    <3> QED
      BY ONLY <1>2, <3>1
  <2>2. \A v \in DOMAIN IDT' : IDT'[v] \in IDTEntry
    BY <1>1, <1>2, <1>3, <1>4, <1>5 DEF TypeOK
  <2>3. kpc' \in 0 .. Len(Boot)
    BY <1>6
  <2>4. idtr' \in BOOLEAN
    BY Zenon DEF IDT_init
  <2> QED
    BY <1>1, <1>7, <2>1, <2>2, <2>3, <2>4 DEF TypeOK
<1>9. BootInv'
  BY <1>1, <1>2, <1>3, <1>6, <1>7 DEF TypeOK, BootInv, Before
<1>10. StackInv'
  BY <1>1, <1>6, <1>7 DEF TypeOK, StackInv, BootInv, Before, IsExc, Top, Meant
<1>11. ServiceInv'
  BY <1>1, <1>7 DEF TypeOK, StackInv, ServiceInv
<1>12. PortInv'
  BY <1>1, <1>6, <1>7 DEF TypeOK, StackInv, PortInv, Before, IsExc
<1> QED
  BY <1>8, <1>9, <1>10, <1>11, <1>12 DEF IInv

LEMMA pic_init_Step ==
  ASSUME IInv, pic_init
  PROVE  IInv'
<1>1. TypeOK /\ BootInv /\ StackInv /\ ServiceInv /\ PortInv
  BY DEF IInv
<1>2. PICK a, b : a = ICWs(pics[1], 32, 4) /\ b = ICWs(pics[2], 32 + 8, 2)
  OBVIOUS
<1>3. /\ a \in PIC /\ a.icw = 4 /\ a.base = 32 /\ a.isr = {} /\ a.irr = {}
      /\ b \in PIC /\ b.icw = 4 /\ b.isr = {} /\ b.irr = {}
  <2>1. pics[1] \in PIC /\ pics[2] \in PIC
    BY <1>1 DEF TypeOK
  <2>3. a \in PIC /\ a.icw = 4 /\ a.base = 32 /\ a.isr = {} /\ a.irr = {}
    <3>1. PICK p \in PIC, o \in Nat, c \in Nat : p = pics[1] /\ o = 32 /\ c = 4
      BY <2>1
    <3>2. a = ICWs(p, o, c)
      BY <1>2, <3>1
    <3> QED
      BY <3>1, <3>2, IcwsOf
  <2>4. b \in PIC /\ b.icw = 4 /\ b.isr = {} /\ b.irr = {}
    <3>1. PICK p \in PIC, o \in Nat, c \in Nat : p = pics[2] /\ o = 32 + 8 /\ c = 2
      BY <2>1
    <3>2. b = ICWs(p, o, c) /\ p \in PIC /\ o \in Nat /\ c \in Nat
      BY <1>2, <3>1
    <3>3. b \in PIC /\ b.icw = 4 /\ b.base = o /\ b.isr = {} /\ b.irr = {}
      BY ONLY <3>2, IcwsOf
    <3> QED
      BY <3>3
  <2> QED
    BY <2>3, <2>4
<1>4. pics' = <<a, b>> /\ kpc = 3 /\ kpc' = 4 /\ stack = <<>> /\ stack' = stack
  BY <1>2, AtPos DEF pic_init
<1>5. pics' \in [1 .. 2 -> PIC] /\ pics'[1] = a /\ pics'[2] = b
  BY <1>3, <1>4
<1>6. UNCHANGED <<IF_, gdtr, IDT, idtr, lines, uart, COM1>>
  BY DEF pic_init, tableVars, devVars
<1> USE BootLen DEF Hang
<1>7. TypeOK'
  BY <1>1, <1>4, <1>5, <1>6 DEF TypeOK
<1>8. BootInv'
  BY <1>1, <1>3, <1>4, <1>5, <1>6 DEF TypeOK, BootInv, Before
<1>9. StackInv'
  BY <1>1, <1>4, <1>6 DEF TypeOK, StackInv, BootInv, Before, IsExc, Top, Meant
<1>10. ServiceInv'
  BY <1>3, <1>4, <1>5 DEF ServiceInv
<1>11. PortInv'
  BY <1>1, <1>3, <1>4, <1>5, <1>6 DEF TypeOK, PortInv, Before, IsExc
<1> QED
  BY <1>7, <1>8, <1>9, <1>10, <1>11 DEF IInv

LEMMA pic_irqmask_Step ==
  ASSUME IInv, pic_irqmask
  PROVE  IInv'
<1>1. TypeOK /\ BootInv /\ StackInv /\ ServiceInv /\ PortInv
  BY DEF IInv
<1>2. {l \in Mask : l < 8} = 0 .. 7 \ {4} /\ {l - 8 : l \in {x \in Mask : x >= 8}} = 0 .. 7
  <2>1. {l \in Mask : l < 8} = 0 .. 7 \ {4}
    BY DEF Mask
  <2>2. \A y \in 0 .. 7 : y + 8 \in {x \in Mask : x >= 8} /\ (y + 8) - 8 = y
    BY DEF Mask
  <2>3. \A l \in {x \in Mask : x >= 8} : l - 8 \in 0 .. 7
    BY DEF Mask
  <2> QED
    BY <2>1, <2>2, <2>3
<1>3. PICK a, b : a = outb(pics[1], "data", 0 .. 7 \ {4}) /\ b = outb(pics[2], "data", 0 .. 7)
  OBVIOUS
<1>4. /\ a \in PIC /\ a.icw = 4 /\ a.base = pics[1].base /\ a.isr = pics[1].isr
      /\ a.irr = pics[1].irr /\ a.imr = 0 .. 7 \ {4}
      /\ b \in PIC /\ b.icw = 4 /\ b.isr = pics[2].isr /\ b.imr = 0 .. 7
  <2>1. pics[1] \in PIC /\ pics[2] \in PIC /\ pics[1].icw = 4 /\ pics[2].icw = 4
    BY <1>1 DEF TypeOK, BootInv
  <2>2. 0 .. 7 \ {4} \in SUBSET (0 .. 7) /\ 0 .. 7 \in SUBSET (0 .. 7)
    OBVIOUS
  <2>3. /\ a \in PIC /\ a.icw = 4 /\ a.base = pics[1].base /\ a.isr = pics[1].isr
        /\ a.irr = pics[1].irr /\ a.imr = 0 .. 7 \ {4}
    BY <1>3, <2>1, <2>2, MaskOf
  <2>4. b \in PIC /\ b.icw = 4 /\ b.isr = pics[2].isr /\ b.imr = 0 .. 7
    BY <1>3, <2>1, <2>2, MaskOf
  <2> QED
    BY <2>3, <2>4
<1>5. pics' = <<a, b>> /\ kpc = 4 /\ kpc' = 5 /\ stack = <<>> /\ stack' = stack
  <2>1. pics' = <<a, b>>
    BY <1>2, <1>3, Zenon DEF pic_irqmask
  <2> QED
    BY <2>1, AtPos DEF pic_irqmask
<1>6. pics' \in [1 .. 2 -> PIC] /\ pics'[1] = a /\ pics'[2] = b
  BY <1>4, <1>5
<1>7. UNCHANGED <<IF_, gdtr, IDT, idtr, lines, uart, COM1>>
  BY DEF pic_irqmask, tableVars, devVars
<1> USE BootLen DEF Hang
<1>8. TypeOK'
  BY <1>1, <1>5, <1>6, <1>7 DEF TypeOK
<1>9. BootInv'
  BY <1>1, <1>4, <1>5, <1>6, <1>7 DEF TypeOK, BootInv, Before
<1>10. StackInv'
  BY <1>1, <1>5, <1>7 DEF TypeOK, StackInv, BootInv, Before, IsExc, Top, Meant
<1>11. ServiceInv'
  BY <1>1, <1>4, <1>5, <1>6 DEF ServiceInv
<1>12. PortInv'
  BY <1>1, <1>4, <1>5, <1>6, <1>7 DEF TypeOK, PortInv, Before, IsExc
<1> QED
  BY <1>8, <1>9, <1>10, <1>11, <1>12 DEF IInv

LEMMA IDT_setIRQ_Step ==
  ASSUME IInv, IDT_setIRQ
  PROVE  IInv'
<1> USE IrqAssumption, AtPos, BootLen DEF IDT_setIRQ, tableVars, devVars, Hang
<1>1. TypeOK /\ BootInv /\ StackInv /\ ServiceInv /\ PortInv
  BY DEF IInv
<1>2. DOMAIN IDT' = {36, 39, 47} \cup DOMAIN IDT
  BY DEF SetIRQ
<1>3. /\ IDT'[36] = Entry(com1, "IRQ_INT") /\ IDT'[39] = Entry(spurious7, "IRQ_INT")
      /\ IDT'[47] = Entry(spurious15, "IRQ_INT")
  BY DEF SetIRQ, IrqGate
<1>4. \A v \in DOMAIN IDT \ {36, 39, 47} : IDT'[v] = IDT[v]
  BY DEF SetIRQ
<1>5. IDT'[36] \in IDTEntry /\ IDT'[39] \in IDTEntry /\ IDT'[47] \in IDTEntry
  BY ONLY <1>3, HandlersDiffer, EntryOK
<1>6. kpc = 5 /\ kpc' = 6 /\ stack = <<>> /\ UNCHANGED <<IF_, gdtr, idtr, pics, lines, uart, stack, COM1>>
  OBVIOUS
<1> HIDE DEF IDT_setIRQ
<1>7. TypeOK'
  <2>1. DOMAIN IDT' \subseteq 0 .. 255
    BY <1>1, <1>2 DEF TypeOK
  <2>2. \A v \in DOMAIN IDT' : IDT'[v] \in IDTEntry
    BY <1>1, <1>2, <1>4, <1>5 DEF TypeOK
  <2> QED
    BY <1>1, <1>6, <2>1, <2>2, SMTT(20) DEF TypeOK
<1>8. BootInv'
  <2>1. idtr /\ idtr'
    BY <1>1, <1>6 DEF BootInv, Before
  <2>2. \A v \in Stubs : v \in DOMAIN IDT' /\ IDT'[v] = Entry(Stub(v), StubGate(v))
    <3> TAKE v \in Stubs
    <3>1. v \in DOMAIN IDT /\ IDT[v] = Entry(Stub(v), StubGate(v))
      BY <1>1, <2>1 DEF BootInv
    <3>2. v \notin {36, 39, 47}
      BY DEF Stubs
    <3> QED
      BY <1>2, <1>4, <3>1, <3>2
  <2> QED
    BY <1>1, <1>2, <1>3, <1>6, <2>1, <2>2 DEF TypeOK, BootInv, Before
<1>9. StackInv'
  BY <1>1, <1>6 DEF TypeOK, StackInv, BootInv, Before, IsExc, Top, Meant
<1>10. ServiceInv'
  BY <1>1, <1>6 DEF TypeOK, StackInv, ServiceInv
<1>11. PortInv'
  BY <1>1, <1>6 DEF TypeOK, StackInv, PortInv, Before, IsExc
<1> QED
  BY <1>7, <1>8, <1>9, <1>10, <1>11 DEF IInv

LEMMA sti_Step ==
  ASSUME IInv, sti
  PROVE  IInv'
<1> USE IrqAssumption, AtPos, BootLen DEF sti, tableVars, devVars, Hang
<1>1. TypeOK /\ BootInv /\ StackInv /\ ServiceInv /\ PortInv
  BY DEF IInv
<1>2. TypeOK'
  BY <1>1 DEF TypeOK
<1>3. BootInv'
  BY <1>1 DEF TypeOK, BootInv, Before
<1>4. StackInv'
  BY <1>1 DEF TypeOK, StackInv, BootInv, Before, IsExc, Top, Meant
<1>5. ServiceInv'
  BY <1>1 DEF TypeOK, StackInv, ServiceInv
<1>6. PortInv'
  BY <1>1 DEF TypeOK, StackInv, PortInv, Before, IsExc
<1> QED
  BY <1>2, <1>3, <1>4, <1>5, <1>6 DEF IInv

LEMMA ser_subsystem_init_Step ==
  ASSUME IInv, ser_subsystem_init
  PROVE  IInv'
<1> USE IrqAssumption, AtPos, BootLen DEF ser_subsystem_init, tableVars, devVars, Hang
<1>1. TypeOK /\ BootInv /\ StackInv /\ ServiceInv /\ PortInv
  BY DEF IInv
<1>2. TypeOK'
  BY <1>1 DEF TypeOK
<1>3. BootInv'
  BY <1>1 DEF TypeOK, BootInv, Before
<1>4. StackInv'
  BY <1>1 DEF TypeOK, StackInv, BootInv, Before, IsExc, Top, Meant
<1>5. ServiceInv'
  BY <1>1 DEF TypeOK, StackInv, ServiceInv
<1>6. PortInv'
  BY <1>1 DEF TypeOK, StackInv, PortInv, Before, IsExc
<1> QED
  BY <1>2, <1>3, <1>4, <1>5, <1>6 DEF IInv

LEMMA ser_init_Step ==
  ASSUME IInv, ser_init
  PROVE  IInv'
<1> USE IrqAssumption, AtPos, BootLen DEF ser_init, tableVars, devVars, Hang
<1>1. TypeOK /\ BootInv /\ StackInv /\ ServiceInv /\ PortInv
  BY DEF IInv
<1>2. TypeOK'
  BY <1>1 DEF TypeOK
<1>3. BootInv'
  BY <1>1 DEF TypeOK, BootInv, Before
<1>4. StackInv'
  BY <1>1 DEF TypeOK, StackInv, BootInv, Before, IsExc, Top, Meant
<1>5. ServiceInv'
  BY <1>1 DEF TypeOK, StackInv, ServiceInv
<1>6. PortInv'
  BY <1>1 DEF TypeOK, StackInv, PortInv, Before, IsExc
<1> QED
  BY <1>2, <1>3, <1>4, <1>5, <1>6 DEF IInv

LEMMA kmain_assert_Step ==
  ASSUME IInv, kmain_assert
  PROVE  IInv'
<1> USE IrqAssumption, AtPos, BootLen DEF kmain_assert, panic, tableVars, devVars, Hang
<1>1. TypeOK /\ BootInv /\ StackInv /\ ServiceInv /\ PortInv
  BY DEF IInv
<1>2. TypeOK'
  <2>1. kpc' \in 0 .. Len(Boot) /\ lines' \subseteq Lines
    BY <1>1 DEF TypeOK
  <2>2. IF_' \in BOOLEAN /\ uart' \in BOOLEAN /\ COM1' \in BOOLEAN
    BY Zenon
  <2> QED
    BY <1>1, <2>1, <2>2 DEF TypeOK
<1>3. BootInv'
  BY <1>1 DEF TypeOK, BootInv, Before
<1>4. StackInv'
  BY <1>1 DEF TypeOK, StackInv, BootInv, Before, IsExc, Top, Meant
<1>5. ServiceInv'
  BY <1>1 DEF TypeOK, StackInv, ServiceInv
<1>6. PortInv'
  BY <1>1 DEF TypeOK, StackInv, PortInv, Before, IsExc
<1> QED
  BY <1>2, <1>3, <1>4, <1>5, <1>6 DEF IInv

-----------------------------------------------------------------------------
(* The handlers.                                                           *)

LEMMA isr_stub_Step ==
  ASSUME IInv, isr_stub
  PROVE  IInv'
<1> USE IrqAssumption, AtPos, BootLen DEF isr_stub, panic, tableVars, devVars, Hang
<1>1. TypeOK /\ BootInv /\ StackInv /\ ServiceInv /\ PortInv
  BY DEF IInv
<1>2. TypeOK'
  <2>1. kpc' \in 0 .. Len(Boot) /\ lines' \subseteq Lines
    BY <1>1 DEF TypeOK
  <2>2. IF_' \in BOOLEAN /\ uart' \in BOOLEAN /\ COM1' \in BOOLEAN
    BY Zenon
  <2> QED
    BY <1>1, <2>1, <2>2 DEF TypeOK
<1>3. BootInv'
  BY <1>1 DEF TypeOK, BootInv, StackInv, Before
<1>4. StackInv'
  BY <1>1 DEF TypeOK, StackInv, BootInv, Before, IsExc, Top, Meant
<1>5. ServiceInv'
  BY <1>1 DEF TypeOK, StackInv, ServiceInv
<1>6. PortInv'
  BY <1>1 DEF TypeOK, StackInv, PortInv, Before, IsExc
<1> QED
  BY <1>2, <1>3, <1>4, <1>5, <1>6 DEF IInv

\* An interrupt's handler on top of the stack: there is no other, and kmain
\* has been interrupted after sti.
LEMMA Alone ==
  ASSUME IInv, stack # <<>>, ~ IsExc(Top)
  PROVE  /\ Len(stack) \in DOMAIN stack /\ Top = stack[Len(stack)]
         /\ kpc > 6 /\ ~ IF_ /\ Top.flags
         /\ \A k \in DOMAIN stack : ~ IsExc(stack[k]) => k = Len(stack)
<1>1. TypeOK /\ StackInv
  BY DEF IInv
<1>2. PICK n \in Nat \ {0} : n = Len(stack)
  BY <1>1 DEF TypeOK
<1>3. DOMAIN stack = 1 .. n
  BY <1>1, <1>2 DEF TypeOK
<1>4. kpc > 6
  BY <1>1, <1>2, <1>3 DEF TypeOK, StackInv, Before, Hang, Top
<1>5. ~ IF_ /\ Top.flags
  BY <1>1, <1>2, <1>3 DEF StackInv, Top
<1>6. \A k \in DOMAIN stack : ~ IsExc(stack[k]) => k = n
  BY <1>1, <1>2, <1>3 DEF StackInv, Top
<1> QED
  BY <1>2, <1>3, <1>4, <1>5, <1>6 DEF Top

\* The handler that runs tells what for.
LEMMA Cause ==
  ASSUME IInv, stack # <<>>
  PROVE  /\ Top.isr = com1 => Top.cause = "irq"
         /\ Top.isr = spurious7 => Top.cause = "spurious"
<1>1. TypeOK /\ StackInv
  BY DEF IInv
<1>2. Len(stack) \in DOMAIN stack
  BY <1>1 DEF TypeOK
<1>3. PICK f \in interrupt_frame : f = Top
  BY <1>1, <1>2 DEF TypeOK, Top
<1>4. f.isr = Meant(f)
  BY <1>1, <1>2, <1>3 DEF StackInv, Top
<1>5. f.cause \in {"irq", "spurious", "exception"} /\ f.num \in 0 .. 31
  BY <1>3 DEF interrupt_frame
<1> QED
  BY <1>3, <1>4, <1>5, HandlersDiffer DEF Meant

\* After a handler's last step but its iret, with the controllers as its end
\* of interrupt leaves them.
LEMMA DoneInv ==
  ASSUME IInv, stack # <<>>, ~ IsExc(Top), Done,
         UNCHANGED <<kpc, IF_, tableVars, uart, COM1>>,
         lines' \subseteq lines, pics' \in [1 .. 2 -> PIC],
         pics'[1].icw = 4, pics'[1].base = pics[1].base, pics'[1].irr = pics[1].irr,
         pics'[1].imr = pics[1].imr, pics'[1].isr = {},
         pics'[2].icw = 4, pics'[2].imr = pics[2].imr, pics'[2].isr = {}
  PROVE  IInv'
<1>1. TypeOK /\ BootInv /\ StackInv /\ ServiceInv /\ PortInv
  BY DEF IInv
<1>2. PICK n \in Nat : n = Len(stack)
  BY <1>1 DEF TypeOK
<1>3. /\ kpc > 6 /\ ~ IF_ /\ n \in DOMAIN stack
      /\ ~ IsExc(stack[n]) /\ stack[n].flags
      /\ \A k \in DOMAIN stack : ~ IsExc(stack[k]) => k = n
  BY <1>2, Alone
<1>4. /\ stack' \in Seq(interrupt_frame) /\ Len(stack') = n /\ stack' # <<>>
      /\ DOMAIN stack = 1 .. n /\ DOMAIN stack' = 1 .. n
      /\ \A k \in 1 .. n :
              /\ stack'[k].cause = stack[k].cause /\ stack'[k].num = stack[k].num
              /\ stack'[k].isr = stack[k].isr
              /\ stack'[k].flags = stack[k].flags
              /\ k # n => stack'[k] = stack[k]
      /\ stack'[n].done
  <2>1. stack \in Seq(interrupt_frame) /\ stack' = [stack EXCEPT ![Len(stack)].done = TRUE]
    BY <1>1 DEF TypeOK, Done
  <2>2. Marked(stack, stack')
    BY <2>1, StackDone
  <2> QED
    BY <1>2, <2>2 DEF Marked
<1> USE BootLen DEF tableVars, Hang
<1>5. TypeOK'
  BY <1>1, <1>4 DEF TypeOK
<1>6. BootInv'
  <2>1. \A p \in 1 .. 2 : pics'[p].icw = 4
    OBVIOUS
  <2> QED
    BY <1>1, <2>1 DEF TypeOK, BootInv, Before
<1>7. StackInv'
  <2>1. \A k \in 1 .. n : /\ IsExc(stack[k])' <=> IsExc(stack[k])
                          /\ Meant(stack'[k]) = Meant(stack[k])
    BY <1>4 DEF IsExc, Meant
  <2>2. Len(stack') <= 2 /\ idtr'
    BY <1>1, <1>2, <1>4 DEF StackInv
  <2>3. \A k \in 1 .. n :
          /\ stack'[k].isr = Meant(stack'[k])
          /\ stack'[k].cause = "irq" => stack'[k].num = 4
    BY <1>1, <1>4, <2>1 DEF StackInv
  <2>4. \A k \in 1 .. n :
          /\ IsExc(stack'[k]) => ~ stack'[k].done
          /\ ~ IsExc(stack'[k]) => ~ Before(6)' /\ stack'[k].flags /\ ~ IF_'
    <3> TAKE k \in 1 .. n
    <3>1. CASE k = n
      <4>1. ~ IsExc(stack'[k])
        BY <1>3, <1>4, <3>1 DEF IsExc
      <4>2. ~ Before(6)' /\ ~ IF_'
        BY <1>1, <1>3 DEF TypeOK, Before
      <4>3. stack'[k].flags
        BY <1>3, <1>4, <3>1
      <4> QED
        BY <4>1, <4>2, <4>3
    <3>2. CASE k # n
      BY <1>1, <1>3, <1>4, <3>2, SMTT(20) DEF StackInv, IsExc
    <3> QED
      BY <3>1, <3>2
  <2>5. \A k, l \in 1 .. n : k < l => (IsExc(stack'[k]) <=> ~ IsExc(stack'[l]))
    BY <1>1, <1>4 DEF StackInv, IsExc
  <2> QED
    BY <1>3, <1>4, <2>2, <2>3, <2>4, <2>5 DEF StackInv
<1>8. ServiceInv'
  <2>1. \A k \in 1 .. n : ~ (stack'[k].cause = "irq" /\ ~ stack'[k].done)
    BY <1>3, <1>4 DEF IsExc
  <2> QED
    BY <1>4, <2>1 DEF ServiceInv
<1>9. PortInv'
  <2>1. \A k \in DOMAIN stack' : k \in DOMAIN stack /\ (IsExc(stack'[k]) <=> IsExc(stack[k]))
    BY <1>4 DEF IsExc
  <2> QED
    BY <1>1, <2>1 DEF PortInv, Before
<1> QED
  BY <1>5, <1>6, <1>7, <1>8, <1>9 DEF IInv

LEMMA com1_isr_Step ==
  ASSUME IInv, com1_isr
  PROVE  IInv'
<1> USE DEF com1_isr, Running
<1>1. TypeOK /\ BootInv /\ StackInv /\ ServiceInv
  BY DEF IInv
<1>2. stack # <<>> /\ Top.cause = "irq" /\ ~ Top.done /\ ~ IsExc(Top)
  BY Cause DEF IsExc
<1>3. pics[1].isr = {4} /\ pics[2].isr = {}
  BY <1>1, <1>2, Alone DEF ServiceInv
<1>4. PICK a : a = outb(pics[1], "cmd", "EOI")
  OBVIOUS
<1>5. pics' = <<a, pics[2]>>
  BY <1>4 DEF com1_eoi, pic_eoi
<1>6. /\ a \in PIC /\ a.isr = {}
      /\ a.icw = pics[1].icw /\ a.base = pics[1].base /\ a.irr = pics[1].irr /\ a.imr = pics[1].imr
  BY <1>1, <1>3, <1>4, EoiOf DEF TypeOK
<1>7. pics' \in [1 .. 2 -> PIC] /\ pics'[1] = a /\ pics'[2] = pics[2]
  BY <1>1, <1>5, <1>6 DEF TypeOK
<1>8. pics[1].icw = 4 /\ pics[2].icw = 4
  BY <1>1 DEF BootInv
<1>9. lines' \subseteq lines /\ UNCHANGED <<kpc, IF_, tableVars, uart, COM1>> /\ Done
  OBVIOUS
<1> QED
  BY <1>2, <1>3, <1>6, <1>7, <1>8, <1>9, DoneInv

LEMMA spurious_irq7_isr_Step ==
  ASSUME IInv, spurious_irq7_isr
  PROVE  IInv'
<1> USE DEF spurious_irq7_isr, Running
<1>1. TypeOK /\ BootInv /\ StackInv /\ ServiceInv
  BY DEF IInv
<1>2. stack # <<>> /\ Top.cause = "spurious" /\ ~ IsExc(Top)
  BY Cause DEF IsExc
<1>3. pics[1].isr = {} /\ pics[2].isr = {}
  <2>1. \A k \in DOMAIN stack : stack[k].cause # "irq"
    BY <1>2, Alone DEF IsExc
  <2> QED
    BY <1>1, <2>1 DEF ServiceInv
<1>4. PICK a, b : a = outb(pics[1], "cmd", "ISR") /\ b = outb(pics[2], "cmd", "ISR")
  OBVIOUS
<1>5. /\ a \in PIC /\ a.isr = {} /\ a.icw = pics[1].icw /\ a.base = pics[1].base
      /\ a.irr = pics[1].irr /\ a.imr = pics[1].imr
      /\ b \in PIC /\ b.isr = {} /\ b.icw = pics[2].icw /\ b.imr = pics[2].imr
  <2>1. pics[1] \in PIC /\ pics[2] \in PIC
    BY <1>1 DEF TypeOK
  <2> QED
    BY <1>3, <1>4, <2>1, SelectOf
<1>6. Selected = <<a, b>>
  BY <1>4 DEF Selected
<1>7. 7 \notin InService
  BY <1>5, <1>6 DEF InService
<1>8. pics' \in [1 .. 2 -> PIC] /\ pics'[1] = a /\ pics'[2] = b
  BY <1>5, <1>6, <1>7
<1>9. pics[1].icw = 4 /\ pics[2].icw = 4
  BY <1>1 DEF BootInv
<1>10. lines' \subseteq lines /\ UNCHANGED <<kpc, IF_, tableVars, uart, COM1>> /\ Done
  BY DEF devVars
<1> QED
  BY <1>2, <1>5, <1>8, <1>9, <1>10, DoneInv

LEMMA iret_Step ==
  ASSUME IInv, iret
  PROVE  IInv'
<1> USE IrqAssumption, BootLen DEF iret, tableVars, devVars, Hang
<1>1. TypeOK /\ BootInv /\ StackInv /\ ServiceInv /\ PortInv
  BY DEF IInv
<1>2. PICK n \in Nat : n = Len(stack)
  BY <1>1 DEF TypeOK
<1>3. ~ IsExc(Top) /\ Top = stack[n] /\ n \in DOMAIN stack
  BY <1>1, <1>2 DEF TypeOK, StackInv, Top
<1>4. /\ kpc > 6 /\ ~ IF_ /\ Top.flags
      /\ \A k \in DOMAIN stack : ~ IsExc(stack[k]) => k = n
  BY <1>2, <1>3, Alone
<1>5. /\ stack' \in Seq(interrupt_frame) /\ Len(stack') = n - 1
      /\ DOMAIN stack = 1 .. n /\ DOMAIN stack' = 1 .. n - 1
      /\ \A k \in 1 .. n - 1 : stack'[k] = stack[k]
  BY <1>1, <1>2, StackPop DEF TypeOK
<1>6. \A k \in 1 .. n - 1 : k \in DOMAIN stack /\ stack'[k] = stack[k] /\ IsExc(stack'[k])
  BY ONLY <1>4, <1>5, <1>2
<1>7. TypeOK'
  <2>1. Top.flags \in BOOLEAN
    <3>1. Top \in interrupt_frame
      BY <1>1, <1>3 DEF TypeOK
    <3> QED
      BY <3>1 DEF interrupt_frame
  <2> QED
    BY <1>1, <1>5, <2>1 DEF TypeOK
<1>8. BootInv'
  BY <1>1, <1>4 DEF TypeOK, BootInv, Before
<1>9. StackInv'
  <2>1. n - 1 <= 2 /\ idtr'
    BY <1>1, <1>2 DEF StackInv
  <2>2. \A k \in 1 .. n - 1 :
          /\ stack'[k].isr = Meant(stack'[k])
          /\ ~ stack'[k].done
          /\ stack'[k].cause = "irq" => stack'[k].num = 4
    BY <1>1, <1>6 DEF StackInv
  <2>3. \A k, l \in 1 .. n - 1 : k < l => (IsExc(stack'[k]) <=> ~ IsExc(stack'[l]))
    BY <1>1, <1>6 DEF StackInv
  <2> QED
    BY <1>4, <1>5, <1>6, <2>1, <2>2, <2>3 DEF StackInv
<1>10. ServiceInv'
  <2>1. \A k \in DOMAIN stack : ~ (stack[k].cause = "irq" /\ ~ stack[k].done)
    BY <1>3, <1>4 DEF IsExc
  <2>2. \A k \in DOMAIN stack' : ~ (stack'[k].cause = "irq" /\ ~ stack'[k].done)
    BY <1>5, <1>6, <2>1
  <2> QED
    BY <1>1, <2>1, <2>2 DEF ServiceInv
<1>11. PortInv'
  BY <1>1, <1>5, <1>6 DEF PortInv, Before
<1> QED
  BY <1>7, <1>8, <1>9, <1>10, <1>11 DEF IInv

-----------------------------------------------------------------------------
(* Interrupts, exceptions and the devices' lines.                          *)

\* A new frame on the stack, with its right handler.
LEMMA EnterInv ==
  ASSUME IInv, NEW f \in interrupt_frame, stack' = Append(stack, f),
         f.isr = Meant(f), ~ f.done, f.cause = "irq" => f.num = 4, idtr, kpc # Hang,
         \A k \in DOMAIN stack : IsExc(stack[k]) <=> ~ IsExc(f),
         ~ IsExc(f) => kpc > 6 /\ f.flags /\ ~ IF_',
         IF_' \in BOOLEAN, IF_' => IF_,
         ~ FirmwareUart /\ ~ IsExc(f) => kpc > 8,
         UNCHANGED <<kpc, tableVars, devVars, COM1>>,
         pics' \in [1 .. 2 -> PIC],
         \A p \in 1 .. 2 : /\ pics'[p].icw = pics[p].icw /\ pics'[p].base = pics[p].base
                           /\ pics'[p].imr = pics[p].imr,
         pics'[1].irr \subseteq pics[1].irr, pics'[2].isr = pics[2].isr,
         pics'[1].isr = IF f.cause = "irq" THEN {4} ELSE pics[1].isr
  PROVE  IInv'
<1>1. TypeOK /\ BootInv /\ StackInv /\ ServiceInv /\ PortInv
  BY DEF IInv
<1>2. PICK n \in Nat : n = Len(stack)
  BY <1>1 DEF TypeOK
<1>3. /\ stack' \in Seq(interrupt_frame) /\ Len(stack') = n + 1 /\ stack' # <<>>
      /\ DOMAIN stack = 1 .. n /\ DOMAIN stack' = 1 .. n + 1
      /\ \A k \in 1 .. n : stack'[k] = stack[k]
      /\ stack'[n + 1] = f
  <2>1. stack \in Seq(interrupt_frame) /\ stack' = Append(stack, f) /\ f \in interrupt_frame
    BY <1>1 DEF TypeOK
  <2> QED
    BY ONLY <1>2, <2>1, StackPush
<1>4. n <= 1
  <2>1. n <= 2
    BY <1>1, <1>2 DEF StackInv
  <2>2. n # 2
    <3> SUFFICES ASSUME n = 2 PROVE FALSE
      OBVIOUS
    <3>1. 1 \in DOMAIN stack /\ 2 \in DOMAIN stack /\ 1 < 2
      BY <1>3
    <3> QED
      BY <1>1, <3>1 DEF StackInv
  <2> QED
    BY <2>1, <2>2
<1> USE BootLen DEF tableVars, devVars, Hang
<1>5. TypeOK'
  BY <1>1, <1>3 DEF TypeOK
<1>6. BootInv'
  <2>1. IF_' => kpc' > 6
    BY <1>1 DEF BootInv
  <2> QED
    BY <1>1, <2>1 DEF TypeOK, BootInv, Before
<1>7. StackInv'
  <2>1. Len(stack') <= 2 /\ idtr'
    BY <1>3, <1>4
  <2>2. \A k \in 1 .. n :
          /\ stack'[k].isr = Meant(stack'[k])
          /\ IsExc(stack'[k]) => ~ stack'[k].done
          /\ ~ IsExc(stack'[k]) => ~ Before(6)' /\ stack'[k].flags /\ ~ IF_'
          /\ stack'[k].cause = "irq" => stack'[k].num = 4
    BY <1>1, <1>3, SMTT(20) DEF StackInv, Before
  <2>3. /\ f.isr = Meant(f)
        /\ IsExc(f) => ~ f.done
        /\ ~ IsExc(f) => ~ Before(6)' /\ f.flags /\ ~ IF_'
        /\ f.cause = "irq" => f.num = 4
    BY <1>1 DEF TypeOK, Before
  <2>4. \A k, l \in 1 .. n + 1 : k < l => (IsExc(stack'[k]) <=> ~ IsExc(stack'[l]))
    <3> TAKE k, l \in 1 .. n + 1
    <3> HAVE k < l
    <3>1. k = 1 /\ l = n + 1 /\ k \in 1 .. n
      BY <1>4
    <3> QED
      BY <1>3, <3>1
  <2>5. \A k \in 1 .. n + 1 : k \in 1 .. n \/ k = n + 1
    OBVIOUS
  <2> QED
    BY <1>3, <2>1, <2>2, <2>3, <2>4, <2>5 DEF StackInv
<1>8. ServiceInv'
  <2>1. (\E k \in DOMAIN stack' : stack'[k].cause = "irq" /\ ~ stack'[k].done)
          <=> f.cause = "irq" \/ \E k \in DOMAIN stack : stack[k].cause = "irq" /\ ~ stack[k].done
    <3>1. \A k \in 1 .. n + 1 : k \in 1 .. n \/ k = n + 1
      OBVIOUS
    <3>2. n + 1 \in 1 .. n + 1 /\ \A k \in 1 .. n : k \in 1 .. n + 1
      OBVIOUS
    <3> QED
      BY <1>3, <3>1, <3>2
  <2> QED
    BY <1>1, <2>1 DEF ServiceInv
<1>9. PortInv'
  <2> SUFFICES ASSUME ~ FirmwareUart
               PROVE  /\ uart' => kpc' = Len(Boot)
                      /\ 4 \in lines' \cup pics'[1].irr => ~ Before(8)'
                      /\ \A k \in DOMAIN stack' : ~ IsExc(stack'[k]) => ~ Before(8)'
                      /\ ~ Before(7)' => COM1'
    BY DEF PortInv
  <2>1. \A k \in 1 .. n : ~ IsExc(stack'[k]) => ~ Before(8)'
    BY <1>1, <1>3 DEF PortInv, Before
  <2>2. ~ IsExc(f) => ~ Before(8)'
    BY <1>1 DEF TypeOK, Before
  <2>3. \A k \in 1 .. n + 1 : k \in 1 .. n \/ k = n + 1
    OBVIOUS
  <2>4. \A k \in DOMAIN stack' : ~ IsExc(stack'[k]) => ~ Before(8)'
    BY <1>3, <2>1, <2>2, <2>3
  <2>5. 4 \in lines' \cup pics'[1].irr => ~ Before(8)'
    BY <1>1 DEF PortInv, Before
  <2> QED
    BY <1>1, <2>4, <2>5 DEF PortInv, Before
<1> QED
  BY <1>5, <1>6, <1>7, <1>8, <1>9 DEF IInv

\* With all lines masked but COM1's, that is the one that is pending.
LEMMA OnlyCom1 ==
  ASSUME IInv, IF_, Intr
  PROVE  /\ Pending(Master) = {4} /\ Min(Pending(Master)) = 4
         /\ 4 \in pics[1].irr /\ pics[1].isr = {} /\ kpc > 6
         /\ \A k \in DOMAIN stack : IsExc(stack[k])
<1>1. TypeOK /\ BootInv /\ StackInv /\ ServiceInv
  BY DEF IInv
<1>2. kpc > 6
  BY <1>1 DEF BootInv
<1>3. pics[1] \in PIC /\ pics[2] \in PIC
  BY <1>1 DEF TypeOK
<1>4. pics[1].imr = 0 .. 7 \ {4} /\ pics[2].imr = 0 .. 7
  BY <1>1, <1>2 DEF TypeOK, BootInv
<1>5. pics[1].irr \subseteq 0 .. 7 /\ pics[2].irr \subseteq 0 .. 7
  BY <1>3 DEF PIC
<1>6. Pending(pics[2]) = {}
  BY <1>4, <1>5 DEF Pending
<1>7. Master = pics[1]
  BY <1>6 DEF Master
<1>8. \A k \in DOMAIN stack : IsExc(stack[k])
  BY <1>1 DEF StackInv
<1>9. pics[1].isr = {}
  BY <1>1, <1>8 DEF ServiceInv, IsExc
<1>10. Pending(pics[1]) # {} /\ Pending(pics[1]) \subseteq {4}
  BY <1>4, <1>5, <1>7 DEF Intr, Pending
<1>11. Pending(pics[1]) = {4}
  BY <1>10
<1>12. Min({4}) = 4
  BY DEF Min
<1>13. 4 \in pics[1].irr
  BY <1>11 DEF Pending
<1> QED
  BY <1>2, <1>7, <1>8, <1>9, <1>11, <1>12, <1>13

LEMMA Irq_Step ==
  ASSUME IInv, Irq
  PROVE  IInv'
<1>1. TypeOK /\ BootInv /\ StackInv /\ ServiceInv /\ PortInv
  BY DEF IInv
<1>2. IF_ /\ Intr
  BY DEF Irq
<1>3. /\ Min(Pending(Master)) = 4 /\ 4 \in pics[1].irr /\ pics[1].isr = {} /\ kpc > 6
      /\ \A k \in DOMAIN stack : IsExc(stack[k])
  BY <1>2, OnlyCom1
<1>4. idtr /\ gdtr = 48 /\ pics[1].base = 32
  BY <1>1, <1>3 DEF TypeOK, BootInv, Before
<1>5. /\ 36 \in DOMAIN IDT /\ IDT[36] = Entry(com1, "IRQ_INT") /\ com1 \in Handlers
       /\ 39 \in DOMAIN IDT /\ IDT[39] = Entry(spurious7, "IRQ_INT") /\ spurious7 \in Handlers
  <2>1. kpc > 5
    <3>1. kpc \in Int
      BY <1>1 DEF TypeOK, Hang
    <3> QED
      BY <1>3, <3>1
  <2>2. /\ 36 \in DOMAIN IDT /\ IDT[36] = Entry(com1, "IRQ_INT")
        /\ 39 \in DOMAIN IDT /\ IDT[39] = Entry(spurious7, "IRQ_INT")
    BY <1>1, <2>1 DEF BootInv
  <2> QED
    BY <2>2, HandlersDiffer
<1>6. Gate(36).isr = com1 /\ Gate(36).attribs = "IRQ_INT"
  <2>1. PICK v \in DOMAIN IDT : v = 36
    BY <1>5
  <2>2. IDT[v] = Entry(com1, "IRQ_INT")
    BY <1>5, <2>1
  <2>3. Gate(v).isr = com1 /\ Gate(v).attribs = "IRQ_INT"
    BY <1>4, <1>5, <2>2, GateOf
  <2> QED
    BY <2>1, <2>3
<1>7. Gate(39).isr = spurious7 /\ Gate(39).attribs = "IRQ_INT"
  <2>1. PICK v \in DOMAIN IDT : v = 39
    BY <1>5
  <2>2. IDT[v] = Entry(spurious7, "IRQ_INT")
    BY <1>5, <2>1
  <2>3. Gate(v).isr = spurious7 /\ Gate(v).attribs = "IRQ_INT"
    BY <1>4, <1>5, <2>2, GateOf
  <2> QED
    BY <2>1, <2>3
<1>8. ~ FirmwareUart => kpc > 8
  BY <1>1, <1>3 DEF TypeOK, PortInv, Before, Hang
<1>9. kpc # Hang
  BY <1>3 DEF Hang
<1>10. CASE 4 \in lines
  <2>1. /\ pics' = [pics EXCEPT ![1].irr = @ \ {4}, ![1].isr = @ \cup {4}]
        /\ Enter("irq", 4, pics[1].base + 4)
    BY <1>3, <1>10 DEF Irq
  <2>2. Enter("irq", 4, 36)
    BY <1>4, <2>1
  <2>3. PICK f : f = [cause |-> "irq", num |-> 4, isr |-> com1, flags |-> IF_, done |-> FALSE]
    OBVIOUS
  <2>4. f \in interrupt_frame /\ f.cause = "irq" /\ f.num = 4 /\ f.isr = com1 /\ f.flags /\ ~ f.done
    BY <1>1, <1>2, <2>3, HandlersDiffer DEF TypeOK, interrupt_frame
  <2>5. stack' = Append(stack, f) /\ UNCHANGED <<kpc, tableVars, devVars, COM1>>
    BY <1>6, <2>2, <2>3 DEF Enter
  <2>6. IF_' = FALSE
    BY <1>6, <2>2 DEF Enter
  <2>7. f.isr = Meant(f) /\ ~ IsExc(f)
    BY <2>4 DEF Meant, IsExc
  <2>8. /\ pics' \in [1 .. 2 -> PIC]
        /\ \A p \in 1 .. 2 : /\ pics'[p].icw = pics[p].icw /\ pics'[p].base = pics[p].base
                             /\ pics'[p].imr = pics[p].imr
        /\ pics'[1].irr \subseteq pics[1].irr /\ pics'[2].isr = pics[2].isr
        /\ pics'[1].isr = {4}
    <3>1. PICK v \in SUBSET (0 .. 7), c \in 1 .. 2 : v = {4} /\ c = 1
      <4>1. {4} \in SUBSET (0 .. 7) /\ 1 \in 1 .. 2
        OBVIOUS
      <4> QED
        BY <4>1
    <3>2. Latched(pics, pics', c, pics[c].irr \ {4}, v)
      BY <1>1, <1>3, <2>1, <3>1 DEF TypeOK, PIC, Latched
    <3>3. pics \in [1 .. 2 -> PIC] /\ pics[c].irr \ {4} \in SUBSET (0 .. 7)
      BY <1>1 DEF TypeOK, PIC
    <3>4. /\ pics' \in [1 .. 2 -> PIC] /\ \A p \in 1 .. 2 \ {c} : pics'[p] = pics[p]
          /\ pics'[c].irr = pics[c].irr \ {4} /\ pics'[c].isr = v
          /\ pics'[c].icw = pics[c].icw /\ pics'[c].base = pics[c].base
          /\ pics'[c].imr = pics[c].imr
      BY <3>2, <3>3, OneOf
    <3> QED
      BY <3>1, <3>4
  <2> QED
    BY <1>2, <1>3, <1>4, <1>8, <1>9, <2>4, <2>5, <2>6, <2>7, <2>8, EnterInv
<1>11. CASE 4 \notin lines
  <2>1. /\ pics' = [pics EXCEPT ![1].irr = @ \ {4}]
        /\ Enter("spurious", 7, pics[1].base + 7)
    BY <1>3, <1>11 DEF Irq
  <2>2. Enter("spurious", 7, 39)
    BY <1>4, <2>1
  <2>3. PICK f : f = [cause |-> "spurious", num |-> 7, isr |-> spurious7, flags |-> IF_, done |-> FALSE]
    OBVIOUS
  <2>4. f \in interrupt_frame /\ f.cause = "spurious" /\ f.isr = spurious7 /\ f.flags /\ ~ f.done
    BY <1>1, <1>2, <2>3, HandlersDiffer DEF TypeOK, interrupt_frame
  <2>5. stack' = Append(stack, f) /\ UNCHANGED <<kpc, tableVars, devVars, COM1>>
    BY <1>7, <2>2, <2>3 DEF Enter
  <2>6. IF_' = FALSE
    BY <1>7, <2>2 DEF Enter
  <2>7. f.isr = Meant(f) /\ ~ IsExc(f)
    BY <2>4 DEF Meant, IsExc
  <2>8. /\ pics' \in [1 .. 2 -> PIC]
        /\ \A p \in 1 .. 2 : /\ pics'[p].icw = pics[p].icw /\ pics'[p].base = pics[p].base
                             /\ pics'[p].imr = pics[p].imr
        /\ pics'[1].irr \subseteq pics[1].irr /\ pics'[2].isr = pics[2].isr
        /\ pics'[1].isr = pics[1].isr
    <3>1. Latched(pics, pics', 1, pics[1].irr \ {4}, pics[1].isr)
      BY <1>1, <2>1 DEF TypeOK, PIC, Latched
    <3>2. /\ pics \in [1 .. 2 -> PIC] /\ 1 \in 1 .. 2 /\ pics[1].isr \in SUBSET (0 .. 7)
          /\ pics[1].irr \ {4} \in SUBSET (0 .. 7)
      BY <1>1 DEF TypeOK, PIC
    <3>3. /\ pics' \in [1 .. 2 -> PIC] /\ pics'[2] = pics[2]
          /\ pics'[1].irr = pics[1].irr \ {4} /\ pics'[1].isr = pics[1].isr
          /\ pics'[1].icw = pics[1].icw /\ pics'[1].base = pics[1].base
          /\ pics'[1].imr = pics[1].imr
      BY ONLY <3>1, <3>2, OneOf
    <3> QED
      BY <3>3
  <2> QED
    BY <1>2, <1>3, <1>4, <1>8, <1>9, <2>4, <2>5, <2>6, <2>7, <2>8, EnterInv
<1> QED
  BY <1>10, <1>11

LEMMA Exception_Step ==
  ASSUME IInv, NEW v \in Exceptions, Exception(v)
  PROVE  IInv'
<1>1. TypeOK /\ BootInv /\ StackInv /\ ServiceInv /\ PortInv
  BY DEF IInv
<1>2. idtr /\ kpc # Hang /\ \A k \in DOMAIN stack : ~ IsExc(stack[k])
  BY DEF Exception, IsExc, Range
<1>3. v \in Stubs /\ v \in 0 .. 31
  BY IrqAssumption DEF Stubs
<1>4. Gate(v).isr = Stub(v)
  <2>1. Stub(v) \in Handlers /\ StubGate(v) \in {"IRQ_INT", "IRQ_TRAP"}
    BY <1>3, HandlersDiffer DEF StubGate
  <2>2. v \in DOMAIN IDT /\ IDT[v] = Entry(Stub(v), StubGate(v)) /\ gdtr = 48
    BY <1>1, <1>2, <1>3 DEF BootInv, Before
  <2> QED
    BY <1>2, <2>1, <2>2, GateOf
<1>5. PICK f : f = [cause |-> "exception", num |-> v, isr |-> Stub(v), flags |-> IF_, done |-> FALSE]
  OBVIOUS
<1>6. f \in interrupt_frame /\ f.cause = "exception" /\ f.num = v /\ f.isr = Stub(v) /\ ~ f.done
  BY <1>1, <1>3, <1>5, HandlersDiffer DEF TypeOK, interrupt_frame
<1>7. stack' = Append(stack, f) /\ UNCHANGED <<kpc, tableVars, devVars, COM1, pics>>
  BY <1>4, <1>5 DEF Exception, Enter
<1>8. IF_' \in BOOLEAN /\ (IF_' => IF_)
  BY Zenon DEF Exception, Enter
<1>9. f.isr = Meant(f) /\ IsExc(f)
  BY <1>6 DEF Meant, IsExc
<1>10. /\ pics' \in [1 .. 2 -> PIC]
       /\ \A p \in 1 .. 2 : /\ pics'[p].icw = pics[p].icw /\ pics'[p].base = pics[p].base
                            /\ pics'[p].imr = pics[p].imr
       /\ pics'[1].irr \subseteq pics[1].irr /\ pics'[2].isr = pics[2].isr
       /\ pics'[1].isr = pics[1].isr
  BY <1>1, <1>7 DEF TypeOK
<1> QED
  BY <1>2, <1>6, <1>7, <1>8, <1>9, <1>10, EnterInv

\* A line rises or falls: the requests change, and little else.
LEMMA LineInv ==
  ASSUME IInv, pics' \in [1 .. 2 -> PIC],
         \A p \in 1 .. 2 : /\ pics'[p].icw = pics[p].icw /\ pics'[p].base = pics[p].base
                           /\ pics'[p].imr = pics[p].imr /\ pics'[p].isr = pics[p].isr,
         lines' \subseteq Lines, 4 \in lines' \cup pics'[1].irr => 4 \in lines \cup pics[1].irr \/ uart,
         UNCHANGED <<kpc, IF_, tableVars, uart, stack, COM1>>
  PROVE  IInv'
<1> USE BootLen DEF tableVars, Hang
<1>1. TypeOK /\ BootInv /\ StackInv /\ ServiceInv /\ PortInv
  BY DEF IInv
<1>2. TypeOK'
  BY <1>1 DEF TypeOK
<1>3. BootInv'
  BY <1>1 DEF TypeOK, BootInv, Before
<1>4. StackInv'
  BY <1>1 DEF StackInv, Before, Top
<1>5. ServiceInv'
  BY <1>1 DEF ServiceInv
<1>6. PortInv'
  BY <1>1 DEF TypeOK, PortInv, Before
<1> QED
  BY <1>2, <1>3, <1>4, <1>5, <1>6 DEF IInv

LEMMA Rise_Step ==
  ASSUME IInv, NEW l \in Lines, Rise(l)
  PROVE  IInv'
<1>1. TypeOK
  BY DEF IInv
<1>2. l \in 0 .. 15 /\ l \div 8 \in 0 .. 1 /\ l % 8 \in 0 .. 7 /\ (l \div 8 = 0 => l % 8 = l)
  BY IrqAssumption
<1>3. PICK c \in 1 .. 2, b \in 0 .. 7 : c = 1 + l \div 8 /\ b = l % 8 /\ (c = 1 => b = l)
  BY <1>2
<1>4. pics' = [pics EXCEPT ![c].irr = @ \cup {b}]
  BY <1>3 DEF Rise, Latch
<1>5. /\ pics' \in [1 .. 2 -> PIC]
      /\ \A p \in 1 .. 2 : /\ pics'[p].icw = pics[p].icw /\ pics'[p].base = pics[p].base
                           /\ pics'[p].imr = pics[p].imr /\ pics'[p].isr = pics[p].isr
                           /\ pics'[p].irr = IF p = c THEN pics[p].irr \cup {b} ELSE pics[p].irr
  <2>1. Latched(pics, pics', c, pics[c].irr \cup {b}, pics[c].isr)
    BY <1>1, <1>4 DEF TypeOK, PIC, Latched
  <2>2. /\ pics \in [1 .. 2 -> PIC] /\ c \in 1 .. 2 /\ pics[c].isr \in SUBSET (0 .. 7)
        /\ pics[c].irr \cup {b} \in SUBSET (0 .. 7)
    BY <1>1 DEF TypeOK, PIC
  <2>3. /\ pics' \in [1 .. 2 -> PIC] /\ \A p \in 1 .. 2 \ {c} : pics'[p] = pics[p]
        /\ pics'[c].irr = pics[c].irr \cup {b} /\ pics'[c].isr = pics[c].isr
        /\ pics'[c].icw = pics[c].icw /\ pics'[c].base = pics[c].base
        /\ pics'[c].imr = pics[c].imr
    BY ONLY <2>1, <2>2, OneOf, SMTT(20)
  <2> QED
    BY <2>3
<1>6. 4 \in lines' \cup pics'[1].irr => 4 \in lines \cup pics[1].irr \/ uart
  BY <1>3, <1>5 DEF Rise
<1>7. lines' \subseteq Lines /\ UNCHANGED <<kpc, IF_, tableVars, uart, stack, COM1>>
  BY <1>1 DEF TypeOK, Rise
<1> QED
  BY <1>5, <1>6, <1>7, LineInv

LEMMA Fall_Step ==
  ASSUME IInv, NEW l \in Lines, Fall(l)
  PROVE  IInv'
<1>1. TypeOK
  BY DEF IInv
<1>2. l \in 0 .. 15 /\ l \div 8 \in 0 .. 1 /\ l % 8 \in 0 .. 7
  BY IrqAssumption
<1>3. PICK c \in 1 .. 2, b \in 0 .. 7 : c = 1 + l \div 8 /\ b = l % 8
  BY <1>2
<1>4. pics' = [pics EXCEPT ![c].irr = @ \ {b}] \/ pics' = pics
  BY <1>3 DEF Fall
<1>5. /\ pics' \in [1 .. 2 -> PIC]
      /\ \A p \in 1 .. 2 : /\ pics'[p].icw = pics[p].icw /\ pics'[p].base = pics[p].base
                           /\ pics'[p].imr = pics[p].imr /\ pics'[p].isr = pics[p].isr
                           /\ pics'[p].irr \subseteq pics[p].irr
  <2>1. CASE pics' = pics
    BY <1>1, <2>1 DEF TypeOK
  <2>2. CASE pics' = [pics EXCEPT ![c].irr = @ \ {b}]
    <3>1. Latched(pics, pics', c, pics[c].irr \ {b}, pics[c].isr)
      BY <1>1, <2>2 DEF TypeOK, PIC, Latched
    <3>2. /\ pics \in [1 .. 2 -> PIC] /\ c \in 1 .. 2 /\ pics[c].isr \in SUBSET (0 .. 7)
          /\ pics[c].irr \ {b} \in SUBSET (0 .. 7)
      BY <1>1 DEF TypeOK, PIC
    <3>3. /\ pics' \in [1 .. 2 -> PIC] /\ \A p \in 1 .. 2 \ {c} : pics'[p] = pics[p]
          /\ pics'[c].irr = pics[c].irr \ {b} /\ pics'[c].isr = pics[c].isr
          /\ pics'[c].icw = pics[c].icw /\ pics'[c].base = pics[c].base
          /\ pics'[c].imr = pics[c].imr
      BY ONLY <3>1, <3>2, OneOf
    <3> QED
      BY <3>3
  <2> QED
    BY <1>4, <2>1, <2>2
<1>6. 4 \in lines' \cup pics'[1].irr => 4 \in lines \cup pics[1].irr \/ uart
  BY <1>5 DEF Fall
<1>7. lines' \subseteq Lines /\ UNCHANGED <<kpc, IF_, tableVars, uart, stack, COM1>>
  BY <1>1 DEF TypeOK, Fall
<1> QED
  BY <1>5, <1>6, <1>7, LineInv

-----------------------------------------------------------------------------
(* What holds in every state.                                              *)

\* The state in which stage 2 leaves the machine.
LEMMA InitInv == Init => IInv
<1> SUFFICES ASSUME Init PROVE IInv
  OBVIOUS
<1> USE IrqAssumption, BootLen DEF Init, Hang
<1>1. Firmware(8) \in PIC /\ Firmware(112) \in PIC
  BY DEF Firmware, PIC
<1>2. pics \in [1 .. 2 -> PIC] /\ pics[1] = Firmware(8) /\ pics[2] = Firmware(112)
  BY <1>1
<1>3. \A p \in 1 .. 2 : pics[p].icw = 4 /\ pics[p].isr = {} /\ pics[p].irr = {}
  BY <1>2 DEF Firmware
<1>4. TypeOK
  <2>1. IF_ \in BOOLEAN /\ idtr \in BOOLEAN /\ COM1 \in BOOLEAN /\ uart \in BOOLEAN
    BY Zenon
  <2>2. DOMAIN IDT = {} /\ stack \in Seq(interrupt_frame)
    OBVIOUS
  <2> QED
    BY <1>2, <2>1, <2>2 DEF TypeOK
<1>5. BootInv
  BY <1>3 DEF BootInv, Before
<1>6. StackInv
  BY DEF StackInv
<1>7. ServiceInv
  BY <1>3 DEF ServiceInv
<1>8. PortInv
  BY <1>3 DEF PortInv, Before
<1> QED
  BY <1>4, <1>5, <1>6, <1>7, <1>8 DEF IInv

\* Every step preserves the invariant.
LEMMA NextInv ==
  ASSUME IInv, [Next]_vars
  PROVE  IInv'
<1>1. CASE UNCHANGED vars
  BY <1>1 DEF vars, tableVars, devVars, IInv, TypeOK, BootInv, StackInv, ServiceInv, PortInv,
              Before, Top
<1>2. CASE kmain
  BY <1>2, GDT_init_Step, IDT_init_Step, pic_init_Step, pic_irqmask_Step, IDT_setIRQ_Step,
     sti_Step, ser_subsystem_init_Step, ser_init_Step DEF kmain
<1>3. CASE Handler
  BY <1>3, com1_isr_Step, spurious_irq7_isr_Step, iret_Step, isr_stub_Step DEF Handler
<1>4. CASE Devices
  BY <1>4, Rise_Step, Fall_Step DEF Devices
<1>5. CASE kmain_assert
  BY <1>5, kmain_assert_Step
<1>6. CASE Irq
  BY <1>6, Irq_Step
<1>7. CASE \E v \in Exceptions : Exception(v)
  BY <1>7, Exception_Step
<1> QED
  BY <1>1, <1>2, <1>3, <1>4, <1>5, <1>6, <1>7 DEF Next

\* The inductive invariant: what kmain has set up by each of its calls
\* (kmain.cpp), and what can be on the stack and in service then.
THEOREM Invariant == Spec => []IInv
<1>1. IInv /\ [Next]_vars => IInv'
  BY NextInv
<1> QED
  BY InitInv, <1>1, PTL DEF Spec

\* Whatever comes, the CPU enters the handler that kmain meant for it.
THEOREM RightHandlerHolds == Spec => []RightHandler
<1>1. IInv => RightHandler
  BY DEF IInv, StackInv, RightHandler, Range
<1> QED
  BY Invariant, <1>1, PTL

\* Each end of interrupt ends its own interrupt, and none is missing.
THEOREM EoiBalanceHolds == Spec => []EoiBalance
<1>1. IInv => EoiBalance
  <2> SUFFICES ASSUME IInv PROVE EoiBalance
    OBVIOUS
  <2>1. TypeOK /\ StackInv /\ ServiceInv
    BY DEF IInv
  <2> DEFINE owed == {g \in Range(stack) : g.cause = "irq" /\ ~ g.done}
  <2>2. \A f \in owed : f.num = 4
    BY <2>1 DEF StackInv, Range
  <2>3. owed = {} <=> ~ \E k \in DOMAIN stack : stack[k].cause = "irq" /\ ~ stack[k].done
    BY DEF Range
  <2> HIDE DEF owed
  <2>4. CASE owed = {}
    <3>1. {f.num : f \in owed} = {}
      BY <2>4
    <3>2. pics[1].isr = {} /\ pics[2].isr = {}
      BY <2>1, <2>3, <2>4 DEF ServiceInv
    <3> QED
      BY <3>1, <3>2 DEF EoiBalance, owed
  <2>5. CASE owed # {}
    <3>1. {f.num : f \in owed} = {4}
      BY <2>2, <2>5
    <3>2. pics[1].isr = {4} /\ pics[2].isr = {}
      BY <2>1, <2>3, <2>5 DEF ServiceInv
    <3> QED
      BY <3>1, <3>2 DEF EoiBalance, owed
  <2> QED
    BY <2>4, <2>5
<1> QED
  BY Invariant, <1>1, PTL

\* com1_isr, behind an interrupt gate, is entered once at a time.
THEOREM NotReenteredHolds == Spec => []NotReentered
<1>1. IInv => NotReentered
  <2> SUFFICES ASSUME IInv, NEW i \in DOMAIN stack, NEW k \in DOMAIN stack,
                      stack[i].isr = com1, stack[k].isr = com1
               PROVE  i = k
    BY DEF NotReentered
  <2>1. TypeOK /\ StackInv
    BY DEF IInv
  <2>2. \A l \in {i, k} : ~ IsExc(stack[l])
    <3> TAKE l \in {i, k}
    <3>1. PICK f \in interrupt_frame : f = stack[l]
      BY <2>1 DEF TypeOK
    <3>2. f.isr = com1 /\ f.isr = Meant(f)
      BY <2>1, <3>1 DEF StackInv
    <3>3. f.num \in 0 .. 31
      BY DEF interrupt_frame
    <3> QED
      BY <3>1, <3>2, <3>3, HandlersDiffer DEF Meant, IsExc
  <2>3. i \in Nat /\ k \in Nat
    BY <2>1 DEF TypeOK
  <2>4. ~ (i < k) /\ ~ (k < i)
    BY <2>1, <2>2 DEF StackInv
  <2> QED
    BY <2>3, <2>4
<1> QED
  BY Invariant, <1>1, PTL

\* com1_isr finds COM1 set, if the firmware has left the UART's interrupt
\* disabled: kmain enables interrupts before it sets COM1.
THEOREM PortReadyHolds ==
  ASSUME ~ FirmwareUart
  PROVE  Spec => []PortReady
<1>1. IInv => PortReady
  <2> SUFFICES ASSUME IInv, NEW k \in DOMAIN stack, stack[k].isr = com1
               PROVE  COM1
    BY DEF PortReady, Range
  <2>1. TypeOK /\ StackInv /\ PortInv
    BY DEF IInv
  <2>2. ~ IsExc(stack[k])
    <3>1. PICK f \in interrupt_frame : f = stack[k]
      BY <2>1 DEF TypeOK
    <3>2. f.isr = com1 /\ f.isr = Meant(f)
      BY <2>1, <3>1 DEF StackInv
    <3>3. f.num \in 0 .. 31
      BY DEF interrupt_frame
    <3> QED
      BY <3>1, <3>2, <3>3, HandlersDiffer DEF Meant, IsExc
  <2>3. ~ Before(8)
    BY <2>1, <2>2 DEF PortInv
  <2> QED
    BY <2>1, <2>3 DEF TypeOK, PortInv, Before
<1> QED
  BY Invariant, <1>1, PTL
=============================================================================
