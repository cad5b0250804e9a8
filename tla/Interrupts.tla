----------------------------- MODULE Interrupts -----------------------------
(***************************************************************************)
(* Interrupt delivery from sti in kmain on: the gates of idt_init and the   *)
(* stubs of idt.s, the request and in-service registers of the local APIC,  *)
(* the pins ioapic_init opens, the EOI of every handler, exceptions on top  *)
(* of all of it, and the ACPI power button.                                 *)
(*                                                                          *)
(* Everything runs on one stack.  A frame is the main flow, an interrupt's  *)
(* handler or an exception's, with the operation it is at; each of its      *)
(* calls of printk holds a buffer of 4 KiB while it lasts.                  *)
(***************************************************************************)
EXTENDS Integers, Sequences, FiniteSets

CONSTANTS
    Room,      \* printk buffers that fit on the stack next to the call frames
    MaxExc,    \* exceptions that occur
    MaxEvents  \* bound on the interrupts devices and timer raise

ASSUME RoomAssumption ==
    /\ Room \in Nat /\ MaxExc \in Nat /\ MaxEvents \in Nat
    /\ MaxExc + 2 <= Room

Timer == 32
Kbd   == 33
Sci   == 41  \* 32 + fadt->sci_interrupt
Mouse == 44
Vectors == {Timer, Kbd, Sci, Mouse}

\* Priority class of a vector in the local APIC.
Class(v) == v \div 16

-----------------------------------------------------------------------------
(* What main flow and handlers do, as far as interrupts are concerned.      *)

Handlers == {"default", "i8042", "kbd", "mouse", "power"}

\* kmain and what it calls: runs of printk, and the steps between them that
\* interrupts depend on.
Boot ==
    << "print", "print", "print", "lapic", "print", "ioapic", "sti",
       "print", "timer", "print", "pm1", "setPower",
       "print", "setI8042Kbd", "printMaybe", "setI8042Mouse", "printMaybe",
       "maskKbd", "setKbd", "printMaybe", "openKbd",
       "maskMouse", "setMouse", "printMaybe", "openMouse", "print", "idle" >>

HandlerProgramNoEoi(h) ==
    IF h = "power" THEN << "print", "status", "eoi" >>
    ELSE IF h = "default" THEN << "print", "eoi" >>
    ELSE IF h = "i8042" THEN << "eoi", "print" >>
    ELSE << "printMaybe" >>

\* The default handler acknowledges after it has printed, the drivers' before
\* they do; the power button's only if it does not stop the processor.
HandlerProgram(h) ==
    IF h = "power" THEN << "print", "status", "eoi" >>
    ELSE IF h = "default" THEN << "print", "eoi" >>
    ELSE IF h = "i8042" THEN << "eoi", "print" >>
    ELSE << "eoi", "printMaybe" >>

\* idt_exception_handler never returns.
Panic == << "print", "cli" >>

Program(f) ==
    IF f.kind = "irq" THEN HandlerProgram(f.code)
    ELSE IF f.kind = "exc" THEN Panic ELSE Boot

VARIABLES
    stack,     \* the frames, the running one last
    ifl,       \* the interrupt flag of the processor
    irr,       \* vectors requested in the local APIC
    isr,       \* vectors in service in the local APIC
    open,      \* vectors whose pin ioapic_init programmed and nobody masks
    lvt,       \* the LAPIC timer's entry is unmasked
    handler,   \* idt_gate_callback
    pm1,       \* the power button: fixed feature, event enabled, status bit
    off,       \* "no", "panic" or "power": the processor has stopped
    excs,      \* exceptions so far
    events     \* interrupts raised so far

vars == <<stack, ifl, irr, isr, open, lvt, handler, pm1, off, excs, events>>
apic == <<irr, isr>>
setup == <<open, lvt, handler, pm1>>
world == <<off, excs, events>>

Frame(kind, code, vec, saved) ==
    [kind |-> kind, code |-> code, vec |-> vec, at |-> 1,
     printing |-> FALSE, saved |-> saved]

Depth == Len(stack)
Top == stack[Depth]

-----------------------------------------------------------------------------
(* The processor executes the running frame.                                *)

\* The frame at the top is at operation op.
Runs(op) ==
    /\ off = "no"
    /\ Top.at \in 1 .. Len(Program(Top))
    /\ Program(Top)[Top.at] = op

\* It goes on to the next one, any buffer given back.
Moved(f) == [[f EXCEPT !.at = f.at + 1] EXCEPT !.printing = FALSE]
Advance == stack' = [stack EXCEPT ![Depth] = Moved(Top)]

\* printk takes its buffer ...
PrintEnter ==
    /\ Runs("print") \/ Runs("printMaybe")
    /\ ~Top.printing
    /\ stack' = [stack EXCEPT ![Depth] = [Top EXCEPT !.printing = TRUE]]
    /\ UNCHANGED <<ifl, apic, setup, world>>

\* ... and gives it back.
PrintLeave ==
    /\ Runs("print") \/ Runs("printMaybe")
    /\ Top.printing
    /\ Advance
    /\ UNCHANGED <<ifl, apic, setup, world>>

\* A driver's handler returns on an ACK byte without printing, and the boot
\* prints some lines only for a device or an ACK that it found.
SkipPrint ==
    /\ Runs("printMaybe") /\ ~Top.printing
    /\ Advance
    /\ UNCHANGED <<ifl, apic, setup, world>>

\* lapic_init masks LINT0, the line of the PIC; nothing else comes of it here.
LapicInit ==
    /\ Runs("lapic") /\ Advance
    /\ UNCHANGED <<ifl, apic, setup, world>>

\* ioapic_init: every entry but the last gets its vector, edge-triggered.
IoapicInit ==
    /\ Runs("ioapic") /\ Advance
    /\ open' = Vectors
    /\ UNCHANGED <<ifl, apic, lvt, handler, pm1, world>>

Sti ==
    /\ Runs("sti") /\ Advance
    /\ ifl' = TRUE
    /\ UNCHANGED <<apic, setup, world>>

\* lapic_timer_config: the last store unmasks the periodic timer.
TimerConfig ==
    /\ Runs("timer") /\ Advance
    /\ lvt' = TRUE
    /\ UNCHANGED <<ifl, apic, open, handler, pm1, world>>

\* The line of the power event is the status bit while the event is enabled.
Line(p) == p.status /\ p.enabled

\* An edge on an open pin becomes a request.
Request(v, rises) == irr' = IF rises /\ v \in open THEN irr \cup {v} ELSE irr

\* init_acpi_power_button enables the event, if it is a fixed feature ...
EnablePower ==
    /\ Runs("pm1") /\ Advance
    /\ pm1' = [pm1 EXCEPT !.enabled = @ \/ pm1.fixed]
    /\ Request(Sci, Line(pm1') /\ ~Line(pm1))
    /\ UNCHANGED <<ifl, isr, open, lvt, handler, world>>

Set(vs, h) ==
    /\ Advance
    /\ handler' = [v \in Vectors |-> IF v \in vs THEN h ELSE handler[v]]
    /\ UNCHANGED <<ifl, apic, open, lvt, pm1, world>>

\* ... and then registers the handler.
SetPower == Runs("setPower") /\ Set(IF pm1.fixed THEN {Sci} ELSE {}, "power")

\* i8042_init registers its handler for an interface that passed its test.
SetI8042(v, op) == Runs(op) /\ \E vs \in SUBSET {v} : Set(vs, "i8042")

SetKbd   == Runs("setKbd") /\ Set({Kbd}, "kbd")
SetMouse == Runs("setMouse") /\ Set({Mouse}, "mouse")

Mask(v, op) ==
    /\ Runs(op) /\ Advance
    /\ open' = open \ {v}
    /\ UNCHANGED <<ifl, apic, lvt, handler, pm1, world>>

Unmask(v, op) ==
    /\ Runs(op) /\ Advance
    /\ open' = open \cup {v}
    /\ UNCHANGED <<ifl, apic, lvt, handler, pm1, world>>

\* lapic_eio: the local APIC retires the highest vector in service, whatever
\* value is written.
Highest(S) == CHOOSE v \in S : \A w \in S : w <= v

Eoi ==
    /\ Runs("eoi") /\ Advance
    /\ isr' = IF isr = {} THEN {} ELSE isr \ {Highest(isr)}
    /\ UNCHANGED <<ifl, irr, setup, world>>

\* acpi_interrupt_handler_power: "cli; hlt" when the status bit is set.
TestStatus ==
    /\ Runs("status")
    /\ IF pm1.status
       THEN ifl' = FALSE /\ off' = "power" /\ UNCHANGED stack
       ELSE Advance /\ UNCHANGED <<ifl, off>>
    /\ UNCHANGED <<apic, setup, excs, events>>

\* The end of the panic: "cli; hlt", for ever.
PanicHalt ==
    /\ Runs("cli")
    /\ ifl' = FALSE /\ off' = "panic"
    /\ UNCHANGED <<stack, apic, setup, excs, events>>

UnwindTwice == SubSeq(stack, 1, Depth - 2)

\* The stub of idt.s takes what it pushed off the stack.
Unwind == SubSeq(stack, 1, Depth - 1)

\* ... and iret brings the interrupt flag back.
Iret ==
    /\ off = "no" /\ Top.kind # "main" /\ Top.at = Len(Program(Top)) + 1
    /\ stack' = Unwind
    /\ ifl' = Top.saved
    /\ UNCHANGED <<apic, setup, world>>

Cpu ==
    \/ PrintEnter \/ PrintLeave \/ SkipPrint \/ LapicInit \/ IoapicInit \/ Sti \/ TimerConfig
    \/ EnablePower \/ SetPower
    \/ SetI8042(Kbd, "setI8042Kbd") \/ SetI8042(Mouse, "setI8042Mouse")
    \/ SetKbd \/ SetMouse
    \/ Mask(Kbd, "maskKbd") \/ Unmask(Kbd, "openKbd")
    \/ Mask(Mouse, "maskMouse") \/ Unmask(Mouse, "openMouse")
    \/ Eoi \/ TestStatus \/ PanicHalt \/ Iret

-----------------------------------------------------------------------------
(* Interrupts and exceptions.                                               *)

IfInTrapGate == ifl

\* idt_init gives the vectors from 32 on interrupt gates ...
IfInInterruptGate == FALSE

\* The local APIC offers its highest request above the class in service.
Dispatch ==
    /\ off = "no" /\ ifl /\ irr # {}
    /\ LET v == Highest(irr)
       IN  /\ \A w \in isr : Class(v) > Class(w)
           /\ stack' = Append(stack, Frame("irq", handler[v], v, ifl))
           /\ irr' = irr \ {v}
           /\ isr' = isr \cup {v}
    /\ ifl' = IfInInterruptGate
    /\ UNCHANGED <<setup, world>>

\* ... and the exceptions, NMI among them, trap gates, which leave interrupts
\* enabled.
Exception ==
    /\ off = "no" /\ excs < MaxExc
    /\ stack' = Append(stack, Frame("exc", "panic", 0, ifl))
    /\ excs' = excs + 1
    /\ UNCHANGED <<ifl, apic, setup, off, events>>

-----------------------------------------------------------------------------
(* Devices, followed as long as the processor runs.                         *)

\* A device raises its pin.
Edge(v) ==
    /\ off = "no" /\ events < MaxEvents /\ events' = events + 1
    /\ v = Sci => ~Line(pm1)
    /\ Request(v, TRUE)
    /\ UNCHANGED <<stack, ifl, isr, setup, off, excs>>

\* The LAPIC timer comes round.
Period ==
    /\ off = "no" /\ lvt /\ events < MaxEvents /\ events' = events + 1
    /\ irr' = irr \cup {Timer}
    /\ UNCHANGED <<stack, ifl, isr, setup, off, excs>>

\* The power button is pressed: the status bit stays until software clears it.
Press ==
    /\ off = "no" /\ events < MaxEvents /\ events' = events + 1
    /\ pm1' = [pm1 EXCEPT !.status = TRUE]
    /\ Request(Sci, Line(pm1') /\ ~Line(pm1))
    /\ UNCHANGED <<stack, ifl, isr, open, lvt, handler, off, excs>>

-----------------------------------------------------------------------------
\* kmain begins: gates are set, interrupts disabled, pins masked.
Init ==
    /\ stack = << Frame("main", "kmain", 0, FALSE) >>
    /\ ifl = FALSE
    /\ irr = {} /\ isr = {}
    /\ open = {} /\ lvt = FALSE
    /\ handler = [v \in Vectors |-> "default"]
    /\ \E fixed \in BOOLEAN : pm1 = [fixed |-> fixed, enabled |-> FALSE, status |-> FALSE]
    /\ off = "no" /\ excs = 0 /\ events = 0

\* hlt in kmain's last loop, or for good.
Rest == (off # "no" \/ Runs("idle")) /\ UNCHANGED vars

Next ==
    \/ Cpu \/ Dispatch \/ Exception \/ Rest
    \/ \E v \in Vectors : Edge(v)
    \/ Period \/ Press

Spec == Init /\ [][Next]_vars

\* The processor executes, and takes an interrupt that stays offered.
FairSpec == Spec /\ WF_vars(Cpu) /\ WF_vars(Dispatch)

-----------------------------------------------------------------------------
(* Properties.                                                              *)

Kinds == {"main", "irq", "exc"}
Codes == Handlers \cup {"kmain", "panic"}

FrameType ==
    [kind : Kinds, code : Codes, vec : Vectors \cup {0}, at : Nat \ {0},
     printing : BOOLEAN, saved : BOOLEAN]

StackType ==
    /\ stack \in Seq(FrameType) /\ stack # << >>
    /\ \A i \in DOMAIN stack : (stack[i].kind = "main") <=> (i = 1)
    /\ \A i \in DOMAIN stack : stack[i].kind = "irq" =>
           stack[i].code \in Handlers /\ stack[i].vec \in Vectors

\* The bottom frame is kmain's and never leaves the stack; every other frame is
\* a handler's, at a place in its code.
TypeOK ==
    /\ StackType
    /\ ifl \in BOOLEAN
    /\ irr \subseteq Vectors /\ isr \subseteq Vectors /\ open \subseteq Vectors
    /\ lvt \in BOOLEAN
    /\ handler \in [Vectors -> Handlers]
    /\ pm1 \in [fixed : BOOLEAN, enabled : BOOLEAN, status : BOOLEAN]
    /\ off \in {"no", "panic", "power"}
    /\ excs \in 0 .. MaxExc /\ events \in 0 .. MaxEvents

Buffers == {i \in DOMAIN stack : stack[i].printing}

\* However interrupts and exceptions pile up on the main flow, the printk
\* buffers of the frames that print at the same time fit on the 16 KiB stack.
StackFits == Cardinality(Buffers) <= Room

Owes(f) ==
    /\ f.kind = "irq"
    /\ \E k \in f.at .. Len(Program(f)) : Program(f)[k] = "eoi"

\* A vector is in service exactly while its handler runs and has not yet
\* written its EOI: no EOI retires another handler's interrupt, and none is
\* missing, which would shut out every later interrupt of the class.
InServiceIsRunning ==
    isr = {stack[i].vec : i \in {j \in DOMAIN stack : Owes(stack[j])}}

\* A requested interrupt reaches its handler, unless the processor stops.
RequestsServed ==
    \A v \in Vectors : (v \in irr) ~> (v \notin irr \/ off # "no")

\* _kmain.c on acpi_init: "for now Justs Enable POWER BUTTONS": with the event
\* enabled and the system up, a button that was pressed stops the machine.
PowerButtonWorks ==
    (Runs("idle") /\ Line(pm1)) ~> (off # "no")
=============================================================================
