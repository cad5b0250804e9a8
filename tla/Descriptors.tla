---------------------------- MODULE Descriptors ----------------------------
(***************************************************************************)
(* The descriptors of ksrc/gdt.c, gdt.h, idt.c and idt.h: how the code     *)
(* packs them, and how the processor takes them apart again.               *)
(*                                                                         *)
(* A word is the set of its bits that are 1, a descriptor a set of bits    *)
(* 0..63, so that |, & and << of the code are union, intersection, shift.  *)
(***************************************************************************)
EXTENDS Integers

GDT_LIMIT  == 10
Vectors    == 0 .. 254

\* The word that is the number n, of the 13 bits an index into a table has.
Bits(n)   == {b \in 0 .. 12 : (n \div 2 ^ b) % 2 = 1}
Shl(w, n) == {b + n : b \in w}
Shr(w, n) == {b - n : b \in {c \in w : c >= n}}

GdtSetGateLimitLow(limit, base, type, flags) ==
    (limit \cap 0 .. 15) \cup Shl(base \cap 0 .. 15, 16)
      \cup Shl((Shr(base, 16) \cap 0 .. 7) \cup type \cup (Shr(limit, 16) \cap 0 .. 3)
                 \cup flags \cup (base \cap 24 .. 31), 32)

\* gdt_set_gate: the two words of an entry.
GdtSetGate(limit, base, type, flags) ==
    (limit \cap 0 .. 15) \cup Shl(base \cap 0 .. 15, 16)
      \cup Shl((Shr(base, 16) \cap 0 .. 7) \cup type \cup Shl(Shr(limit, 16) \cap 0 .. 3, 16)
                 \cup flags \cup (base \cap 24 .. 31), 32)

\* GDT_FLAG_S|GDT_FLAG_P|GDT_FLAG_DB|GDT_FLAG_G, GDT_TYPE_CODE_ER, GDT_TYPE_DATA_RW
GdtFlags == {12, 15, 22, 23}
CodeER   == {9, 11}
DataRW   == {9}

\* The table gdt_init builds: the null descriptor, kernel code, kernel data.
BuildGdt ==
    [n \in 0 .. GDT_LIMIT - 1 |->
        CASE n = 1 -> GdtSetGate(0 .. 19, {}, CodeER, GdtFlags)
          [] n = 2 -> GdtSetGate(0 .. 19, {}, DataRW, GdtFlags)
          [] OTHER -> {}]

\* What the processor takes from an entry (gdt_entry_t).
SegLimit(d) == (d \cap 0 .. 15) \cup Shr(d \cap 48 .. 51, 32)
SegBase(d)  == Shr(d \cap 16 .. 39, 16) \cup Shr(d \cap 56 .. 63, 32)
SegType(d)  == Shr(d \cap 40 .. 44, 40)
Present(d)  == 47 \in d

IdtSetGateLow(type, ss, offset, flags) ==
    (offset \cap 0 .. 15) \cup Shl(ss, 16) \cup Shl(type, 40) \cup Shl(flags, 32)

\* idt_set_gate_interrupt and idt_set_gate_trap differ in the type's low bit.
IdtSetGate(type, ss, offset, flags) ==
    (offset \cap 0 .. 15) \cup Shl(ss, 16) \cup Shl(type, 40) \cup Shl(flags, 32)
      \cup Shl(offset \cap 16 .. 31, 32)

\* IDT_FLAG_GATE_D|IDT_FLAG_GATE_P, the selector 0x8, and the two types.
IdtFlags      == {11, 15}
KernelCode    == {3}
KernelData    == {4}
InterruptGate == {1, 2}
TrapGate      == {0, 1, 2}

Reserved == {15} \cup 21 .. 31

\* The table idt_init builds: trap gates for the exceptions, interrupt gates
\* from vector 32 on, none for the reserved vectors.
BuildIdt(stubs) ==
    [v \in Vectors |->
        IF v \in Reserved THEN {}
        ELSE IdtSetGate(IF v < 32 THEN TrapGate ELSE InterruptGate,
                        KernelCode, stubs[v], IdtFlags)]

\* What the processor takes from a gate.
GateOffset(d)   == (d \cap 0 .. 15) \cup Shr(d \cap 48 .. 63, 32)
GateSelector(d) == Shr(d \cap 16 .. 31, 16)
GateType(d)     == Shr(d \cap 40 .. 44, 40)

\* The exceptions for which the stub of idt.s expects the processor to have
\* pushed an error code; for the others it pushes a 0.
StubSkipsPush == {8} \cup 10 .. 14 \cup {17}

\* The exceptions for which the processor does.
ErrorCodes == {8} \cup 10 .. 14 \cup {17, 21, 29, 30}
=============================================================================
