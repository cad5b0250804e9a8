-------------------------------- MODULE Acpi --------------------------------
(***************************************************************************)
(* The search for the ACPI tables (acpi_init and acpi_find_rsdp of         *)
(* ksrc/acpi.c), a caller of paging_map_4kb with addresses that come from  *)
(* firmware.                                                               *)
(*                                                                         *)
(* acpi_init maps the page of the RSDT and the one after it at VMA +       *)
(* physical address, and then reads every table the RSDT lists at VMA +    *)
(* its physical address, mapped or not.  The module runs that code on the  *)
(* page tables of Paging, for every place firmware may have put things.    *)
(* Sizes are in units of one RSDT entry.                                   *)
(***************************************************************************)
EXTENDS Paging, Sequences

CONSTANTS
    EbdaRsdts,    \* where an RSDP in the extended BIOS data area may place the RSDT
    BiosRsdts,    \* ... and one in the BIOS
    TableFrames,  \* frames the tables it lists may start in
    PerPage,      \* units in a page
    Header,       \* units of struct acpi_SDTHeader
    Lengths,      \* values of the RSDT's length field
    Word          \* number of values of the length's word

\* A pointer that may be NULL: the set of the frame it points at, or {}.
Optional(S) == {{}} \cup {{f} : f \in S}

\* What the firmware left in memory.
Layouts ==
    [ebda   : Optional(EbdaRsdts),      \* the RSDT of the RSDP in the extended BIOS
     bios   : Optional(BiosRsdts),      \* data area, and of the one in the BIOS
     offset : 0 .. PerPage - 1,         \* of the RSDT in its page
     length : Lengths,
     ptr    : [0 .. 1 -> TableFrames],  \* the first two entries of the RSDT
     fadt   : TableFrames,              \* the table with the signature FACP
     spans  : BOOLEAN,                  \* its fields reach into the next page
     fixed  : BOOLEAN]                  \* the power button is a fixed feature

ASSUME AcpiAssumption ==
    /\ EbdaRsdts \cup BiosRsdts \subseteq Frames /\ TableFrames \subseteq Frames
    /\ PerPage \in Nat \ {0} /\ Header \in Nat \ {0} /\ Word \in Nat
    /\ Lengths \subseteq 0 .. Word - 1 /\ Header < Word

VARIABLES
    layout,  \* what the firmware left
    pc,      \* where the boot is: "paging", "find", "map1", "map2", "header", "loop", "done"
    rsdt,    \* the frame of the RSDT
    i,       \* the loop's counter
    fadt,    \* global_fadt
    armed    \* the power button's event is enabled and its handler registered

acpiVars == <<layout, pc, rsdt, i, fadt, armed>>
allVars  == <<vars, acpiVars>>

-----------------------------------------------------------------------------

\* The page n pages after f, n * 0x1000 further on; the addresses wrap around.
PageAfter(f, n) == <<(f[1] + (f[2] + n) \div NPage) % NDir, (f[2] + n) % NPage>>

NextPage(f) == PageAfter(f, 1)

\* The frames an access to VMA + f reaches: none, f, or something else that is
\* mapped there.
Sees(f) == Linear(M, HighHalf(f))

\* acpi_find_rsdp: the extended BIOS data area is searched first.
FindRsdp == IF layout.ebda # {} THEN layout.ebda ELSE layout.bios

PageFault == halted' = TRUE /\ UNCHANGED <<pgdir, pgtbls, cr3, tlb, stray, acpiVars>>

At(label) == pc = label /\ ~halted

Boot ==
    /\ At("paging") /\ PagingInit
    /\ pc' = "find" /\ UNCHANGED <<layout, rsdt, i, fadt, armed>>

\* (acpi_find_rsdp())->rsdt_address: NULL is dereferenced like any other
\* pointer, at a linear address that paging_init has left unmapped.
Find ==
    /\ At("find")
    /\ \/ /\ FindRsdp = {} /\ Linear(M, NullFrame) = {} /\ PageFault
       \/ /\ \E f \in FindRsdp : rsdt' = f
          /\ pc' = "map1"
          /\ UNCHANGED <<vars, layout, i, fadt, armed>>

VirtBaseLow(f) == <<VmaDir, f[2]>>

\* virt_base = phys_base + KERNEL_CONFIG_ACPI_RSDP_VIRTUAL_ADDRESS
VirtBase(f) == HighHalf(f)

RsdtPageFirst(n) == rsdt

\* phys_base for the first call, phys_base + 0x1000 for the second.
RsdtPage(n) == IF n = 1 THEN rsdt ELSE NextPage(rsdt)

\* The two calls of paging_map_4kb, with whatever address came from firmware.
MapPage(f, from, to) ==
    /\ At(from)
    /\ Becomes(Map4kb(M, f, VirtBase(f), TRUE))
    /\ pc' = to
    /\ UNCHANGED <<layout, rsdt, i, fadt, armed>>

\* The frame that holds unit u of the RSDT.
UnitFrame(u) == PageAfter(rsdt, (layout.offset + u) \div PerPage)

\* rsdt->length
ReadHeader ==
    /\ At("header")
    /\ \/ Sees(UnitFrame(0)) = {} /\ PageFault
       \/ /\ Sees(UnitFrame(0)) # {} /\ pc' = "loop"
          /\ UNCHANGED <<vars, layout, rsdt, i, fadt, armed>>

\* (rsdt->length - sizeof(struct acpi_SDTHeader)) / 4, an unsigned difference.
Entries(length) == (length - Header) % Word

\* pointers[i]: what lies behind the table, or in another frame that is mapped
\* there, may be any address.
Pointers ==
    LET f == UnitFrame(Header + i)
    IN  IF Sees(f) = {f} /\ i \in 0 .. 1 /\ Header + i < layout.length
        THEN {layout.ptr[i]} ELSE TableFrames

NextEntryWide(k) == k + 2

\* The entries are 32 bits wide.
NextEntry(k) == k + 1

\* The flag for the power button, or any where another frame is mapped there.
Fixed(f) ==
    IF layout.spans /\ Sees(NextPage(f)) # {NextPage(f)} THEN BOOLEAN ELSE {layout.fixed}

\* init_acpi_power_button: global_fadt is set in any case, the event only
\* enabled when no AML is needed.
InitPowerButton(f) ==
    \/ layout.spans /\ Sees(NextPage(f)) = {} /\ PageFault
    \/ /\ layout.spans => Sees(NextPage(f)) # {}
       /\ fadt' = {f} /\ i' = NextEntry(i)
       /\ \E fixed \in Fixed(f) : armed' = (armed \/ fixed)
       /\ UNCHANGED <<vars, layout, pc, rsdt>>

\* One turn of the loop: the entry, the header it points at, its signature.
Entry ==
    /\ At("loop") /\ i < Entries(layout.length)
    /\ \/ Sees(UnitFrame(Header + i)) = {} /\ PageFault
       \/ /\ Sees(UnitFrame(Header + i)) # {}
          /\ \E f \in Pointers :
                \/ Sees(f) = {} /\ PageFault
                \/ Sees(f) = {f} /\ f = layout.fadt /\ InitPowerButton(f)
                \/ /\ Sees(f) # {} /\ ~(Sees(f) = {f} /\ f = layout.fadt)
                   /\ i' = NextEntry(i) /\ UNCHANGED <<vars, layout, pc, rsdt, fadt, armed>>

Return ==
    /\ At("loop") /\ i >= Entries(layout.length)
    /\ pc' = "done" /\ UNCHANGED <<vars, layout, rsdt, i, fadt, armed>>

-----------------------------------------------------------------------------

AcpiInit ==
    /\ Init
    /\ layout \in Layouts
    /\ pc = "paging" /\ rsdt = NullFrame /\ i = 0 /\ fadt = {} /\ armed = FALSE

\* acpi_init, statement by statement.
AcpiStep ==
    \/ Find
    \/ MapPage(RsdtPage(1), "map1", "map2") \/ MapPage(RsdtPage(2), "map2", "header")
    \/ ReadHeader \/ Entry \/ Return

\* The function has returned, or "cli; hlt" has ended it.
Finished == (pc = "done" \/ halted) /\ UNCHANGED allVars

AcpiNext == Boot \/ AcpiStep \/ Finished

\* Once called, the processor executes the function: weak fairness of AcpiStep,
\* which is enabled exactly while the function runs.
Running  == pc \notin {"paging", "done"} /\ ~halted
Fairness == []<>~Running \/ []<><<AcpiStep>>_allVars

AcpiSpec == AcpiInit /\ [][AcpiNext]_allVars /\ Fairness

-----------------------------------------------------------------------------
(* Properties.                                                             *)

\* The structures of the page tables keep their types when the addresses come
\* from firmware, also where the caller breaks the contract, and acpi_init's
\* own variables theirs.
AcpiTypeOK ==
    /\ TypeOK
    /\ layout \in Layouts
    /\ pc \in {"paging", "find", "map1", "map2", "header", "loop", "done"}
    /\ rsdt \in Frames /\ i \in 0 .. Entries(layout.length)
    /\ fadt \subseteq Frames /\ Cardinality(fadt) <= 1
    /\ armed \in BOOLEAN

KernelRegions == 0 .. KernelEndWord
ApicShadow    == {f \in Frames : HighHalf(f) \in {<<ApicDir, IoApicPage>>, <<ApicDir, LApicPage>>}}
TwoPages      == FindRsdp \cup {NextPage(f) : f \in FindRsdp}
\* The directory entries whose page tables the pool must hold.
NeedTables    == {ApicDir} \cup {High(f[1]) : f \in TwoPages}
Covered(f)    == f \in TwoPages \/ f[1] \in KernelRegions
InRsdt(f)     == \E k \in 0 .. 1 : Header + k < layout.length /\ layout.ptr[k] = f

\* The machines acpi_init is made for: there is an RSDP; the two pages from
\* the RSDT on lie outside the memory mapped by 4 MiB pages and their high
\* addresses are not the APICs'; the pool has a table for each directory entry
\* they need; the RSDT ends in them; and so do the tables it lists, unless they
\* lie in the kernel's 4 MiB.
Fits ==
    /\ FindRsdp # {}
    /\ \A f \in TwoPages : f[1] \notin KernelRegions /\ f \notin ApicShadow
    /\ Cardinality(NeedTables) <= NTables
    /\ layout.length \in Header .. Header + 2
    /\ layout.offset + layout.length <= 2 * PerPage
    /\ \A k \in 0 .. 1 : Header + k < layout.length => Covered(layout.ptr[k])
    /\ layout.spans /\ InRsdt(layout.fadt) => Covered(NextPage(layout.fadt))

\* On such machines acpi_init touches no unmapped address and stores no
\* page-table entry outside the tables, whatever region the RSDT is in and
\* also where its two pages need two page tables.
SafeIfFits == Fits => ~halted /\ stray = {}

\* Wherever the RSDT is, the damage of mapping it is confined: a page-table
\* entry is never stored over the kernel, its directory or its tables, at most
\* in physical page 0; and kernel and APICs stay mapped unless the RSDT's
\* pages lie exactly 3 GiB below an APIC's.
DamageConfined ==
    /\ stray \subseteq {NullFrame}
    /\ ApicShadow \cap TwoPages = {} => BootMappingsHold

\* With such tables acpi_init is a caller Paging allows: its two calls of
\* paging_map_4kb, one for each of the two pages, keep the preconditions the
\* paging code does not test.
RespectsContract ==
    [][Fits => PagingInit \/ \E f \in TwoPages : PagingMap4kb(f, HighHalf(f))]_vars

\* And the search ends with the power button armed exactly when the RSDT lists
\* a fixed-feature FADT.
PowerButtonArmed ==
    Fits /\ pc = "find" ~> pc = "done" /\ armed = (layout.fixed /\ InRsdt(layout.fadt))
=============================================================================
