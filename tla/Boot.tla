-------------------------------- MODULE Boot --------------------------------
(***************************************************************************)
(* The way from the multiboot loader to kmain (ksrc/_entry.s), with the    *)
(* descriptor tables it installs (module Descriptors), on the page tables  *)
(* of module Paging, and the first part of kmain, up to sti, with the two  *)
(* interrupt controllers it silences (module Pic).                         *)
(*                                                                         *)
(* The kernel is linked at VMA + 1 MiB and starts at 1 MiB: "low" and      *)
(* "high" say at which of the two addresses code and stack are used.  The  *)
(* kernel's code, data, stack and tables are one page here.                *)
(***************************************************************************)
EXTENDS Paging, Descriptors, Pic

CONSTANTS
    KernelPage,   \* the page of region 0 with code, stack and tables
    StubTables    \* the values the table idt_gate_handler may have

ASSUME BootAssumption ==
    /\ KernelPage \in Pages
    /\ StubTables \subseteq [Vectors -> SUBSET (0 .. 31)]

VARIABLES
    pc,      \* the next step of _entry.s
    cpu,     \* the processor's registers
    stack,   \* the words on the kernel's stack, the last one on top
    gdt,     \* gdt_entry_t gdt[GDT_LIMIT]
    idt,     \* idt_gate_t idt_gate[255]
    stubs,   \* idt_gate_handler
    magic,   \* what the loader left in eax
    pics,    \* the two 8259A
    writes   \* the bytes kmain has written to them

bootVars == <<pc, cpu, stack, gdt, idt, stubs, magic, pics, writes>>

\* Of the registers: pg is CR0.PG; eip and esp "low" or "high", esp "loader"
\* before the kernel has a stack; eax and ebx the word they hold, by its origin
\* ("c" for what a C function leaves there); gdtr and idtr the limits loaded, -1
\* before; segs the selectors, {} for the loader's.

-----------------------------------------------------------------------------
(* Memory.                                                                 *)

Home == <<0, KernelPage>>

\* The kernel's page is where the code expects it, at the given address.
Reachable(side) ==
    LET lin == IF side = "high" THEN HighHalf(Home) ELSE Home
    IN  (IF cpu.pg THEN Linear(M, lin) ELSE {lin}) = {Home}

-----------------------------------------------------------------------------
(* _entry.s, in its order.                                                 *)

\* One step: the registers become c; memory is left alone but for what the
\* step itself says.
Step(from, to, c) == pc = from /\ pc' = to /\ cpu' = c /\ UNCHANGED <<stubs, magic, pics, writes>>

\* mov $(kernel_stack_top - VMA),%esp; push %ebp
EntryStack ==
    /\ Step("entry", "args", [cpu EXCEPT !.esp = "low"])
    /\ stack' = <<"ebp">> /\ UNCHANGED <<vars, gdt, idt>>

\* add $VMA,%ebx; push %ebx; push %eax
SaveArguments ==
    /\ Step("args", "entry_init_paging", [cpu EXCEPT !.ebx = "mbi + VMA"])
    /\ stack' = stack \o <<"mbi + VMA", cpu.eax>> /\ UNCHANGED <<vars, gdt, idt>>

\* entry_init_paging: CR3, CR4.PSE and CR0.PG by way of eax.
EntryInitPaging ==
    /\ Step("entry_init_paging", "gdt_gates", [cpu EXCEPT !.pg = TRUE, !.eax = "cr0"])
    /\ UNCHANGED <<vars, stack, gdt, idt>>

\* gdt_init, a C function: eax is lost, ebx is kept.
GdtGates ==
    /\ Step("gdt_gates", "lgdt", [cpu EXCEPT !.eax = "c"])
    /\ gdt' = BuildGdt /\ UNCHANGED <<vars, stack, idt>>

\* gdt_set_table, with limit 8*(GDT_LIMIT)
Lgdt ==
    /\ Step("lgdt", "gdt_flush", [cpu EXCEPT !.gdtr = 8 * GDT_LIMIT])
    /\ UNCHANGED <<vars, stack, gdt, idt>>

\* gdt_flush: the data segments, then cs with a far return to the linked, high
\* address ...
GdtFlush ==
    /\ Step("gdt_flush", "gdt_return",
            [cpu EXCEPT !.eip = "high",
                        !.segs = [s \in DOMAIN @ |-> IF s = "cs" THEN KernelCode ELSE KernelData]])
    /\ UNCHANGED <<vars, stack, gdt, idt>>

\* ... and back to callers that were called at the low one.
GdtReturn ==
    /\ Step("gdt_return", "idt_gates", [cpu EXCEPT !.eip = "low"])
    /\ UNCHANGED <<vars, stack, gdt, idt>>

\* idt_init: the gates, then lidt with limit sizeof(idt_gate)-1.
IdtGates ==
    /\ Step("idt_gates", "lidt", [cpu EXCEPT !.eax = "c"])
    /\ idt' = BuildIdt(stubs) /\ UNCHANGED <<vars, stack, gdt>>

Lidt ==
    /\ Step("lidt", "pop", [cpu EXCEPT !.idtr = 8 * Cardinality(Vectors) - 1])
    /\ UNCHANGED <<vars, stack, gdt, idt>>

Top(n) == stack[Len(stack) + 1 - n]

\* pop %eax; pop %ebx
RestoreArguments ==
    /\ Step("pop", "ljmp", [cpu EXCEPT !.eax = Top(1), !.ebx = Top(2)])
    /\ stack' = SubSeq(stack, 1, Len(stack) - 2) /\ UNCHANGED <<vars, gdt, idt>>

\* ljmp $0x08,$entry_higher_half
LongJump ==
    /\ Step("ljmp", "esp", [cpu EXCEPT !.eip = "high", !.segs["cs"] = KernelCode])
    /\ UNCHANGED <<vars, stack, gdt, idt>>

RaisedNever(side) == side

\* What adding VMA makes of the low stack pointer.
Raised(side) == "high"

\* add $VMA,%esp
RaiseStack ==
    /\ Step("esp", "paging_init", [cpu EXCEPT !.esp = Raised(@)])
    /\ UNCHANGED <<vars, stack, gdt, idt>>

\* call paging_init, which ends with CR4 and CR0 set by way of eax.
CallPagingInit ==
    /\ Step("paging_init", "push", [cpu EXCEPT !.eax = "cr0"])
    /\ PagingInit /\ UNCHANGED <<stack, gdt, idt>>

ArgumentsSwapped == <<cpu.eax, cpu.ebx>>

\* push %ebx; push %eax
Arguments == <<cpu.ebx, cpu.eax>>

CallKmain ==
    /\ Step("push", "kmain", cpu)
    /\ stack' = stack \o Arguments /\ UNCHANGED <<vars, gdt, idt>>

-----------------------------------------------------------------------------
(* kmain up to sti, and the default interrupt handler after it.             *)

InKmain(cs) ==
    /\ pics' = cs
    /\ UNCHANGED <<vars, cpu, stack, gdt, idt, stubs, magic>>

\* The next byte of pic_init and pic_mask_all.
PicWrite ==
    /\ pc = "kmain" /\ writes < Len(PicWrites)
    /\ writes' = writes + 1
    /\ InKmain(Write(pics, PicWrites[writes + 1])) /\ UNCHANGED pc

\* lapic_init and ioapic_init leave the 8259A alone.
Sti ==
    /\ pc = "kmain" /\ writes = Len(PicWrites) /\ pc' = "sti"
    /\ InKmain(pics) /\ UNCHANGED writes

\* idt_interrupt_handler: pic_eio for whatever vector the APICs delivered.
DefaultHandler(vector) ==
    pc = "sti" /\ InKmain(PicEio(pics, vector)) /\ UNCHANGED <<pc, writes>>

-----------------------------------------------------------------------------

\* The state a multiboot loader hands over: paging off, no stack, no tables, the
\* 8259A as the BIOS programmed them.
BootInit ==
    /\ Init
    /\ pc = "entry" /\ stack = <<>> /\ magic \in {"0x2BADB002", "other"}
    /\ cpu = [pg |-> FALSE, eip |-> "low", esp |-> "loader", eax |-> magic, ebx |-> "mbi",
              gdtr |-> -1, idtr |-> -1,
              segs |-> [s \in {"fs", "gs", "es", "ds", "ss", "cs"} |-> {}]]
    /\ gdt = [n \in 0 .. GDT_LIMIT - 1 |-> {}]
    /\ idt = [v \in Vectors |-> {}] /\ stubs \in StubTables
    /\ writes = 0
    /\ \E imr \in {0, 255} :
          pics = [c \in Chips |->
                    [next |-> 0, needs4 |-> TRUE, single |-> FALSE, mask |-> imr, mode |-> 1,
                     base |-> IF c = "master" THEN 8 ELSE 112,
                     cascade |-> IF c = "master" THEN 4 ELSE 2]]

BootNext ==
    \/ EntryStack \/ SaveArguments \/ EntryInitPaging
    \/ GdtGates \/ Lgdt \/ GdtFlush \/ GdtReturn
    \/ IdtGates \/ Lidt \/ RestoreArguments
    \/ LongJump \/ RaiseStack \/ CallPagingInit \/ CallKmain
    \/ PicWrite \/ Sti \/ \E v \in 32 .. 47 : DefaultHandler(v)

BootSpec == BootInit /\ [][BootNext]_<<vars, bootVars>>

-----------------------------------------------------------------------------
(* Properties.                                                             *)

\* From the moment paging is on, through the two page directories, the far
\* return to the high address inside gdt_flush and the way back, code and stack
\* in use are mapped at the addresses in use, and so are the linked addresses
\* all data has.
RunsMapped ==
    cpu.pg => Reachable(cpu.eip) /\ Reachable(cpu.esp) /\ Reachable("high")

\* The descriptor a selector names lies within the limit and within the table
\* (gdt_init's limit is the size of the table, not the size less one), is
\* present, flat, 32-bit and of the given type.
Flat(sel, type) ==
    \E n \in DOMAIN gdt \ {0} :
        /\ Shr(sel, 3) = Bits(n) /\ 8 * n + 7 <= cpu.gdtr
        /\ Present(gdt[n]) /\ SegBase(gdt[n]) = {} /\ SegLimit(gdt[n]) = 0 .. 19
        /\ SegType(gdt[n]) = type /\ {54, 55} \subseteq gdt[n]

\* The thirteen bits of a selector's index.
SelectorIndices == 0 .. 8191

\* From the load of the segment registers to kmain each of them names a flat
\* descriptor of its kind, and no selector within the limit reaches behind the
\* table.
SegmentsUsable ==
    /\ \A s \in DOMAIN cpu.segs : cpu.segs[s] # {} =>
          Flat(cpu.segs[s], IF s = "cs" THEN {1, 3, 4} ELSE {1, 4})
    /\ \A n \in SelectorIndices : 8 * n + 7 <= cpu.gdtr => n \in DOMAIN gdt

\* From lidt on, an exception or an NMI at any step of the boot finds its gate
\* within the limit and present, in the gate the address of its own stub, the
\* kernel's code segment and the kind of gate meant (trap for an exception,
\* interrupt above), and stub, tables and stack mapped; and whatever the vector,
\* the frame the handler sees has exactly one error code.
ExceptionsDelivered ==
    cpu.idtr # -1 =>
        /\ Reachable("high") /\ Reachable(cpu.esp)
        /\ \A v \in Vectors \ Reserved :
              /\ 8 * v + 7 <= cpu.idtr /\ Present(idt[v])
              /\ GateOffset(idt[v]) = stubs[v]
              /\ Flat(GateSelector(idt[v]), {1, 3, 4})
              /\ GateType(idt[v]) = IF v < 32 THEN {0, 1, 2, 3} ELSE {1, 2, 3}
              /\ v \in ErrorCodes <=> v \in StubSkipsPush

\* kmain's second argument is the high address of the loader's information
\* structure, wherever ebx was kept on the way.
MbiReachesKmain == pc = "kmain" => Top(2) = "mbi + VMA"

\* With interrupts enabled both 8259A have taken their four initialisation words
\* and the mask as what they are: every line is masked, also after any number of
\* pic_eio, the vectors stay clear of the exceptions', and the master expects
\* the slave where the slave says it is.
PicsQuiet ==
    pc = "sti" =>
        /\ \A c \in Chips : pics[c].next = 0 /\ pics[c].mask = 255 /\ pics[c].mode = 1
        /\ pics["master"].base >= 32 /\ pics["slave"].base = pics["master"].base + 8
        /\ pics["master"].cascade = 2 ^ pics["slave"].cascade

\* _entry.s on the word pushed last: "Arg 1: The Multiboot Magic".
MagicReachesKmain == pc = "kmain" => Top(1) = magic
=============================================================================
