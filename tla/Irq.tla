--------------------------------- MODULE Irq ---------------------------------
(***************************************************************************)
(* Interrupts and exceptions of the kernel from kmain's first line on:     *)
(* GDT_init, IDT_init and IDT_setIRQ (x86/gdt.cc), pic_init, pic_irqmask,  *)
(* pic_read and pic_eoi (x86/pic.c), the handlers of x86/isrs.cc and of    *)
(* gdt.cc, and the order in which kmain calls them.  External: the CPU's   *)
(* descriptor tables, the pair of 8259As and the devices on their lines.   *)
(*                                                                         *)
(* kmain runs a call at a time, a handler up to its end of interrupt and   *)
(* then its iret.  A register of a 8259A and a mask are sets of lines.     *)
(* What the bytes on the console are is module Serial's business.          *)
(***************************************************************************)
EXTENDS Integers, Sequences, SequencesExt, FiniteSetsExt

CONSTANTS Half,           \* 2^16: what isr_low holds of an address
          Addr,           \* handler -> address
          Lines,          \* lines the devices use, of 0 .. 15
          FirmwareUart,   \* whether the firmware left COM1's interrupt enabled
          Exceptions      \* the exceptions that may happen

\* The handlers: a stub for each exception, and those of isrs.cc.
Stub(v) == <<"isr_stub", v>>
com1 == <<"com1_isr", 0>>
spurious7 == <<"spurious_irq7_isr", 0>>
spurious15 == <<"spurious_irq15_isr", 0>>
None == <<"none", 0>>
Handlers == {Stub(v) : v \in 0 .. 31} \cup {com1, spurious7, spurious15}

ASSUME IrqAssumption ==
  /\ Half \in Nat \ {0}
  /\ \A h, g \in Handlers : Addr[h] \in Nat /\ (Addr[h] = Addr[g] => h = g)
  /\ Lines \subseteq 0 .. 15 /\ Exceptions \subseteq 0 .. 31 /\ FirmwareUart \in BOOLEAN

VARIABLES
  kpc,      \* kmain: the number of the call it has come to, or Hang
  IF_,      \* EFLAGS.IF
  gdtr,     \* the limit of the kernel's GDT, or 0: stage 2's is loaded
  IDT, idtr,\* the gates that are set; whether lidt was executed
  pics,     \* the 8259As: ICW expected, base, cascade, mask, request,
            \* in service, and whether the in-service register is read
  lines,    \* lines that are high
  stack,    \* interrupts and exceptions under way
  COM1,     \* ser_subsystem_init has set it
  uart      \* COM1's interrupt is enabled

tableVars == <<gdtr, IDT, idtr>>
devVars == <<lines, uart>>
vars == <<kpc, IF_, tableVars, pics, devVars, stack, COM1>>

\* Mutants: sti before the mask is set; the port is programmed before COM1 is
\* set.
Boot_sti == <<"GDT_init", "IDT_init", "pic_init", "sti", "pic_irqmask", "IDT_setIRQ",
              "ser_subsystem_init", "ser_init", "main">>
Boot_ser == <<"GDT_init", "IDT_init", "pic_init", "pic_irqmask", "IDT_setIRQ", "sti",
              "ser_init", "ser_subsystem_init", "main">>

\* kmain's calls that matter here, in order.
Boot == <<"GDT_init", "IDT_init", "pic_init", "pic_irqmask", "IDT_setIRQ", "sti",
          "ser_subsystem_init", "ser_init", "main">>

Hang == 0

At(call) == kpc \in DOMAIN Boot /\ Boot[kpc] = call /\ stack = <<>>

\* A gate of the IDT, and what the CPU pushes for an interrupt (of it, only the
\* flags matter here), with what is known of the handler.
IDTEntry == [isr_low : 0 .. Half - 1, isr_high : Nat, kernel_cs : {8}, attribs : {"IRQ_INT", "IRQ_TRAP"}]
interrupt_frame ==
  [cause : {"irq", "spurious", "exception"}, num : 0 .. 31,
   isr : Handlers \cup {None}, flags : BOOLEAN, done : BOOLEAN]

PIC ==
  [icw : 1 .. 4, base : Nat, cascade : Nat, imr : SUBSET (0 .. 7), irr : SUBSET (0 .. 7),
   isr : SUBSET (0 .. 7), ocw3 : {"IRR", "ISR"}]

TypeOK ==
  /\ kpc \in 0 .. Len(Boot)
  /\ IF_ \in BOOLEAN /\ idtr \in BOOLEAN /\ COM1 \in BOOLEAN /\ uart \in BOOLEAN
  /\ gdtr \in Nat /\ DOMAIN IDT \subseteq 0 .. 255
  /\ \A v \in DOMAIN IDT : IDT[v] \in IDTEntry
  /\ pics \in [1 .. 2 -> PIC] /\ lines \subseteq Lines
  /\ stack \in Seq(interrupt_frame)

-----------------------------------------------------------------------------
(* The 8259As (external).  The firmware's mapping of the lines and its     *)
(* masks are in place when kmain begins, with interrupts disabled.         *)

Firmware(base) ==
  [icw |-> 4, base |-> base, cascade |-> 0, imr |-> {}, irr |-> {}, isr |-> {}, ocw3 |-> "IRR"]

\* outb to the command or the data port of a 8259A.
outb(p, port, val) ==
  CASE port = "cmd" /\ val = "ICW1" ->
         [p EXCEPT !.icw = 1, !.imr = {}, !.irr = {}, !.isr = {}, !.ocw3 = "IRR"]
    [] port = "cmd" /\ val = "EOI" -> [p EXCEPT !.isr = IF @ = {} THEN {} ELSE @ \ {Min(@)}]
    [] port = "cmd" /\ val \in {"IRR", "ISR"} -> [p EXCEPT !.ocw3 = val]
    [] port = "data" /\ p.icw = 1 -> [p EXCEPT !.icw = 2, !.base = val]
    [] port = "data" /\ p.icw = 2 -> [p EXCEPT !.icw = 3, !.cascade = val]
    [] port = "data" /\ p.icw = 3 -> [p EXCEPT !.icw = 4]
    [] port = "data" /\ p.icw = 4 -> [p EXCEPT !.imr = val]

\* The requests a 8259A passes on: unmasked, and above those in service.
Pending(p) == {k \in p.irr \ p.imr : \A s \in p.isr : k < s}

\* The first one's output is the CPU's interrupt pin; the second one's is
\* its line 2.
Master == IF Pending(pics[2]) # {} THEN [pics[1] EXCEPT !.irr = @ \cup {2}] ELSE pics[1]
Intr == pics[1].icw = 4 /\ Pending(Master) # {}

\* Edges of the devices' lines.  COM1's is high only when its interrupt is
\* enabled.
Latch(l) == [pics EXCEPT ![1 + l \div 8].irr = @ \cup {l % 8}]

Rise(l) ==
  /\ l \notin lines /\ (l = 4 => uart)
  /\ lines' = lines \cup {l} /\ pics' = Latch(l)
  /\ UNCHANGED <<kpc, IF_, tableVars, uart, stack, COM1>>

\* A request is withdrawn, at once or so late that the CPU has seen it (Irq7).
Fall(l) ==
  /\ l \in lines
  /\ lines' = lines \ {l}
  /\ \/ pics' = [pics EXCEPT ![1 + l \div 8].irr = @ \ {l % 8}]
     \/ UNCHANGED pics
  /\ UNCHANGED <<kpc, IF_, tableVars, uart, stack, COM1>>

-----------------------------------------------------------------------------
(* The CPU (external): a gate is read from the IDT, its code segment from  *)
(* the GDT; an interrupt gate clears IF, a trap gate leaves it.            *)

Gate(v) ==
  IF idtr /\ v \in DOMAIN IDT /\ gdtr >= IDT[v].kernel_cs + 7
  THEN LET g == IDT[v]
           h == {x \in Handlers : Addr[x] = g.isr_high * Half + g.isr_low}
       IN  [isr |-> IF h = {} THEN None ELSE CHOOSE x \in h : TRUE, attribs |-> g.attribs]
  ELSE [isr |-> None, attribs |-> "IRQ_INT"]

Enter(cause, num, vector) ==
  /\ stack' = Append(stack, [cause |-> cause, num |-> num, isr |-> Gate(vector).isr,
                             flags |-> IF_, done |-> FALSE])
  /\ IF_' = (IF_ /\ Gate(vector).attribs = "IRQ_TRAP")
  /\ UNCHANGED <<kpc, tableVars, devVars, COM1>>

\* The acknowledged request is the one of highest priority, or, if its line is
\* low again, a spurious IRQ 7.  (The second 8259A's would come on line 2.)
Irq ==
  /\ IF_ /\ Intr
  /\ LET k == Min(Pending(Master))
     IN  IF k \in lines \cup {2}
         THEN /\ pics' = [pics EXCEPT ![1].irr = @ \ {k}, ![1].isr = @ \cup {k}]
              /\ Enter("irq", k, pics[1].base + k)
         ELSE /\ pics' = [pics EXCEPT ![1].irr = @ \ {k}]
              /\ Enter("spurious", 7, pics[1].base + 7)

\* An exception or an NMI, at any time once there is an IDT; one at most,
\* for its handler does not return.
Exception(v) ==
  /\ idtr /\ kpc # Hang
  /\ \A f \in Range(stack) : f.cause # "exception"
  /\ Enter("exception", v, v)
  /\ UNCHANGED pics

-----------------------------------------------------------------------------
(* gdt.cc                                                                  *)

\* Every selector that is used, the TSS's among them, is below the limit.
GDT_init ==
  /\ At("GDT_init")
  /\ gdtr' = 40 + 8 /\ kpc' = kpc + 1
  /\ UNCHANGED <<IF_, IDT, idtr, pics, devVars, stack, COM1>>

\* Mutant: the low half is not cut.
Entry_whole(isr, flags) ==
  [isr_low |-> Addr[isr], isr_high |-> Addr[isr] \div Half, kernel_cs |-> 8, attribs |-> flags]

Entry(isr, flags) ==
  [isr_low |-> Addr[isr] % Half, isr_high |-> Addr[isr] \div Half, kernel_cs |-> 8, attribs |-> flags]

\* IDT_init and IDT_setIRQ for a set of vectors.
SetIRQ(idt, vectors, isr(_), flags(_)) ==
  [v \in vectors \cup DOMAIN idt |->
     IF v \in vectors THEN Entry(isr(v), flags(v)) ELSE idt[v]]

\* The exceptions IDT_init installs a stub for.
Stubs == 0 .. 31

\* Trap gates but for the NMI.
StubGate(v) == IF v = 2 THEN "IRQ_INT" ELSE "IRQ_TRAP"

IDT_init ==
  /\ At("IDT_init")
  /\ IDT' = SetIRQ(IDT, Stubs, Stub, StubGate)
  /\ idtr' = TRUE /\ kpc' = kpc + 1
  /\ UNCHANGED <<IF_, gdtr, pics, devVars, stack, COM1>>

\* Mutant: trap gates.
IrqGate_trap == "IRQ_TRAP"

IrqGate == "IRQ_INT"

IDT_setIRQ ==
  /\ At("IDT_setIRQ")
  /\ LET isr(v)  == CASE v = 36 -> com1 [] v = 39 -> spurious7 [] v = 47 -> spurious15
         kind(v) == IrqGate
     IN  IDT' = SetIRQ(IDT, {36, 39, 47}, isr, kind)
  /\ kpc' = kpc + 1
  /\ UNCHANGED <<IF_, gdtr, idtr, pics, devVars, stack, COM1>>

-----------------------------------------------------------------------------
(* pic.c                                                                   *)

\* The initialisation words of one controller: offset, cascade, mode.
ICWs(p, offset, cascade) ==
  LET icw1 == outb(p, "cmd", "ICW1")
      icw2 == outb(icw1, "data", offset)
      icw3 == outb(icw2, "data", cascade)
  IN  outb(icw3, "data", "8086")

pic_init ==
  /\ At("pic_init")
  /\ pics' = <<ICWs(pics[1], 32, 4), ICWs(pics[2], 32 + 8, 2)>> /\ kpc' = kpc + 1
  /\ UNCHANGED <<IF_, tableVars, devVars, stack, COM1>>

\* Mutant: COM2's line is left open.
Mask_com2 == 0 .. 15 \ {3}

\* All lines but COM1's.
Mask == 0 .. 15 \ {4}

pic_irqmask ==
  /\ At("pic_irqmask")
  /\ pics' = <<outb(pics[1], "data", {l \in Mask : l < 8}),
               outb(pics[2], "data", {l - 8 : l \in {x \in Mask : x >= 8}})>>
  /\ kpc' = kpc + 1
  /\ UNCHANGED <<IF_, tableVars, devVars, stack, COM1>>

pic_eoi(s, irq) ==
  <<outb(s[1], "cmd", "EOI"), IF irq >= 8 THEN outb(s[2], "cmd", "EOI") ELSE s[2]>>

\* pic_read(PIC_ISR): the command leaves the controllers' read register
\* selected.
Selected == <<outb(pics[1], "cmd", "ISR"), outb(pics[2], "cmd", "ISR")>>
InService == Selected[1].isr \cup {l + 8 : l \in Selected[2].isr}

-----------------------------------------------------------------------------
(* isrs.cc and panic                                                       *)

Top == stack[Len(stack)]
Running(h) == stack # <<>> /\ Top.isr = h /\ ~ Top.done
Done == stack' = [stack EXCEPT ![Len(stack)].done = TRUE]

\* Mutant: no end of interrupt.
com1_eoi_none == pics

com1_eoi == pic_eoi(pics, 4)

\* ser_flush refills the FIFO, and COM1's line falls, or has nothing to send.
com1_isr ==
  /\ Running(com1)
  /\ lines' \in {lines, lines \ {4}}
  /\ pics' = com1_eoi
  /\ Done
  /\ UNCHANGED <<kpc, IF_, tableVars, uart, COM1>>

\* A genuine IRQ 7 is in service, a spurious one is not.
spurious_irq7_isr ==
  /\ Running(spurious7)
  /\ pics' = IF 7 \in InService THEN pic_eoi(Selected, 7) ELSE Selected
  /\ Done
  /\ UNCHANGED <<kpc, IF_, tableVars, devVars, COM1>>

iret ==
  /\ stack # <<>> /\ Top.done
  /\ stack' = Front(stack) /\ IF_' = Top.flags
  /\ UNCHANGED <<kpc, tableVars, pics, devVars, COM1>>

\* panic disables interrupts and COM1's interrupt, and does not return.
panic ==
  /\ kpc' = Hang /\ IF_' = FALSE /\ uart' = FALSE /\ lines' = lines \ {4}
  /\ COM1' = TRUE
  /\ UNCHANGED <<tableVars, pics, stack>>

isr_stub ==
  /\ kpc # Hang
  /\ stack # <<>> /\ Top.cause = "exception" /\ Top.isr # None
  /\ panic

\* kmain's assertions: ser_init has failed, or kmain is at its end.
kmain_assert == (At("ser_init") \/ At("main")) /\ panic

sti ==
  /\ At("sti")
  /\ IF_' = TRUE /\ kpc' = kpc + 1
  /\ UNCHANGED <<tableVars, pics, devVars, stack, COM1>>

ser_subsystem_init ==
  /\ At("ser_subsystem_init")
  /\ COM1' = TRUE /\ kpc' = kpc + 1
  /\ UNCHANGED <<IF_, tableVars, pics, devVars, stack>>

\* The transmit interrupt is enabled; its edge may come at any time.  What can
\* come between ser_init's writes to the port is in module Serial.
ser_init ==
  /\ At("ser_init")
  /\ uart' = TRUE /\ kpc' = kpc + 1
  /\ UNCHANGED <<IF_, tableVars, pics, lines, stack, COM1>>

-----------------------------------------------------------------------------
Init ==
  /\ kpc = 1 /\ IF_ = FALSE /\ gdtr = 0 /\ IDT = <<>> /\ idtr = FALSE
  /\ pics = <<Firmware(8), Firmware(112)>> /\ lines = {}
  /\ stack = <<>> /\ COM1 = FALSE /\ uart = FirmwareUart

kmain == \/ GDT_init \/ IDT_init \/ pic_init \/ pic_irqmask \/ IDT_setIRQ
         \/ sti \/ ser_subsystem_init \/ ser_init

Handler == com1_isr \/ spurious_irq7_isr \/ iret \/ isr_stub

Devices == \E l \in Lines : Rise(l) \/ Fall(l)

Next == \/ kmain \/ Handler \/ kmain_assert \/ Irq \/ Devices
        \/ \E v \in Exceptions : Exception(v)

\* The CPU goes on, and takes an interrupt that stays pending.
Spec == Init /\ [][Next]_vars /\ WF_vars(kmain) /\ WF_vars(Handler) /\ WF_vars(Irq)

-----------------------------------------------------------------------------
\* What must handle an interrupt: the kernel's own handler of that device or
\* exception.
Meant(f) ==
  CASE f.cause = "irq" /\ f.num = 4 -> com1
    [] f.cause = "spurious" -> spurious7
    [] f.cause = "exception" -> Stub(f.num)
    [] OTHER -> <<"nobody", 0>>

\* Whatever the devices do and whenever an exception comes, the CPU finds the
\* handler that is meant for it: masks, vector offsets, gates and segments are
\* all set by the time that interrupts are enabled.
RightHandler == \A f \in Range(stack) : f.isr = Meant(f)

\* The in-service bits are those of the handlers that have not sent their end
\* of interrupt: none is left behind, and none is ended that is not its own.
EoiBalance ==
  /\ pics[1].isr = {f.num : f \in {g \in Range(stack) : g.cause = "irq" /\ ~ g.done}}
  /\ pics[2].isr = {}

\* com1_isr is never entered again before its iret, so that one ser_flush never
\* interrupts another.
NotReentered == \A i, k \in DOMAIN stack : stack[i].isr = com1 /\ stack[k].isr = com1 => i = k

\* com1_isr finds COM1 set.
PortReady == (\E f \in Range(stack) : f.isr = com1) => COM1

\* A request of COM1 that is not withdrawn is taken, or the kernel panics.
Serviced == 4 \in pics[1].irr /\ kpc = Len(Boot) ~> 4 \notin pics[1].irr \/ kpc = Hang

-----------------------------------------------------------------------------
(* Why these hold: what kmain has set up by each of its calls, and what the *)
(* stack can hold at all.                                                  *)

\* Positions of kmain's calls.
Before(calls) == kpc # Hang /\ kpc <= calls

\* By the time interrupts are enabled, everything that one needs is there.
BootInv ==
  /\ kpc # 1 => gdtr = 48
  /\ idtr <=> ~ Before(2)
  /\ idtr => \A v \in Stubs : v \in DOMAIN IDT /\ IDT[v] = Entry(Stub(v), StubGate(v))
  /\ \A p \in 1 .. 2 : pics[p].icw = 4
  /\ kpc > 3 => pics[1].base = 32
  /\ kpc > 4 => pics[1].imr = 0 .. 7 \ {4} /\ pics[2].imr = 0 .. 7
  /\ kpc > 5 => /\ 36 \in DOMAIN IDT /\ IDT[36] = Entry(com1, "IRQ_INT")
                /\ 39 \in DOMAIN IDT /\ IDT[39] = Entry(spurious7, "IRQ_INT")
  /\ IF_ => kpc > 6

IsExc(f) == f.cause = "exception"

\* One exception at most, whose handler does not return, and one interrupt,
\* which interrupts disabled keep alone; either may interrupt the other.
StackInv ==
  /\ Len(stack) <= 2
  /\ stack # <<>> => idtr
  /\ \A k \in DOMAIN stack :
       /\ stack[k].isr = Meant(stack[k])
       /\ IsExc(stack[k]) => ~ stack[k].done
       /\ ~ IsExc(stack[k]) => ~ Before(6) /\ stack[k].flags /\ ~ IF_
       /\ stack[k].cause = "irq" => stack[k].num = 4
  /\ \A k, l \in DOMAIN stack : k < l => (IsExc(stack[k]) <=> ~ IsExc(stack[l]))
  /\ kpc = Hang /\ stack # <<>> => IsExc(Top)

\* A bit of the first controller is in service while com1_isr owes its EOI.
ServiceInv ==
  /\ pics[1].isr = IF \E k \in DOMAIN stack : stack[k].cause = "irq" /\ ~ stack[k].done
                   THEN {4} ELSE {}
  /\ pics[2].isr = {}

\* COM1 stays quiet until kmain has set it up, if the firmware left it so.
PortInv ==
  ~ FirmwareUart =>
    /\ uart => kpc = Len(Boot)
    /\ 4 \in lines \cup pics[1].irr => ~ Before(8)
    /\ \A k \in DOMAIN stack : ~ IsExc(stack[k]) => ~ Before(8)
    /\ ~ Before(7) => COM1

IInv == TypeOK /\ BootInv /\ StackInv /\ ServiceInv /\ PortInv
=============================================================================
