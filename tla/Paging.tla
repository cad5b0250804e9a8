------------------------------- MODULE Paging -------------------------------
(***************************************************************************)
(* The kernel's paging code (ksrc/mmu/paging.c, paging.h) together with    *)
(* the two hardware structures it drives: the page walk from CR3 and the   *)
(* TLB.                                                                    *)
(*                                                                         *)
(* A linear address is <<d, p>>: the directory index (bits 22..31) and the *)
(* page index (bits 12..21); the offset inside a page never matters.  A    *)
(* physical frame is <<r, q>>: its 4 MiB region and the page inside it.    *)
(* A 4 KiB entry holds a frame, a 4 MiB entry the frame <<r, 0>>.  Of the  *)
(* flag bits the model keeps PRESENT and SIZE, the two the code tests; the *)
(* others never change which frame an address reaches.                     *)
(***************************************************************************)
EXTENDS Integers, FiniteSets

CONSTANTS
    NDir,            \* entries of the page directory (1024)
    NPage,           \* entries of a page table (1024)
    NTables,         \* KERNEL_CONFIG_PAGING_PAGE_TABLES
    VmaDir,          \* directory index of KERNEL_CONFIG_VMA
    KernelLast,      \* last 4 MiB region the linked kernel occupies
    KernelEndWord,   \* the 32-bit word stored at __kernel_physical_end, in 4 MiB units
    PgdirPage,       \* page of region 0 that holds _pgdir
    FirstTablePage,  \* page of region 0 that holds _pgtbls[0]
    ApicDir,         \* directory index of 0xFEC00000 and of 0xFEE00000
    IoApicPage,      \* page index of 0xFEC00000
    LApicPage,       \* page index of 0xFEE00000
    CallLins,        \* linear addresses passed by later callers
    CallFrames,      \* physical frames passed by later callers
    MaxTlb           \* bound on the TLB entries a behaviour may load

Dirs   == 0 .. NDir - 1
Pages  == 0 .. NPage - 1
Tables == 0 .. NTables - 1
Frames == Dirs \X Pages
Lins   == Dirs \X Pages

ASSUME SizeAssumption ==
    /\ NDir \in Nat /\ NPage \in Nat
    /\ NTables \in Nat \ {0}
    /\ VmaDir \in 1 .. NDir - 1
    /\ KernelLast \in Nat
    /\ KernelEndWord \in Nat
    /\ MaxTlb \in Nat
    /\ CallLins \subseteq Lins /\ CallFrames \subseteq Frames

\* The kernel is linked in region 0: the BIOS data, the page directory and the
\* tables are distinct pages of it, and the window that maps the kernel high
\* neither wraps around nor reaches the directory entry of the two APICs.
ASSUME LayoutAssumption ==
    /\ PgdirPage \in 1 .. NPage - 1
    /\ FirstTablePage \in 1 .. NPage - 1
    /\ FirstTablePage + NTables <= NPage
    /\ PgdirPage < FirstTablePage
    /\ ApicDir \in Dirs
    /\ VmaDir + KernelEndWord < ApicDir
    /\ IoApicPage \in Pages /\ LApicPage \in Pages
    /\ IoApicPage # LApicPage

VARIABLES
    pgdir,   \* static paging_page_directory_t _pgdir
    pgtbls,  \* static paging_page_tables_t _pgtbls
    cr3,     \* "entry": entry_page_directory of _entry.s; "pgdir": _pgdir
    tlb,     \* the translations the CPU has cached
    stray,   \* frames that are no page table and yet received a page-table entry
    halted   \* a page fault was taken: idt_exception_handler stops the CPU

vars == <<pgdir, pgtbls, cr3, tlb, stray, halted>>

-----------------------------------------------------------------------------
(* Formats and addresses.                                                  *)

Pde == [present : BOOLEAN, size : BOOLEAN, base : Frames]
Pte == [present : BOOLEAN, base : Frames]

EmptyPde == [present |-> FALSE, size |-> FALSE, base |-> <<0, 0>>]
EmptyPte == [present |-> FALSE, base |-> <<0, 0>>]

\* Adding KERNEL_CONFIG_VMA to a 32-bit address, which wraps around.
High(r) == IF r + VmaDir < NDir THEN r + VmaDir ELSE r + VmaDir - NDir

TableFramePast(t) == <<0, FirstTablePage + t + 1>>

\* The physical address of _pgtbls[t], and of _pgdir.
TableFrame(t) == <<0, FirstTablePage + t>>
PgdirFrame    == <<0, PgdirPage>>
NullFrame     == <<0, 0>>

HighHalfForgotten(f) == f

\* What a pointer (frame) is as a linear address once VMA was added to it.
HighHalf(f) == <<High(f[1]), f[2]>>

\* entry_page_directory: 4 MiB pages, the identity below VMA and then from
\* physical 0 again; every entry is present.
EntryFrame(lin) ==
    <<IF lin[1] < VmaDir THEN lin[1] ELSE lin[1] - VmaDir, lin[2]>>

-----------------------------------------------------------------------------
(* The memory the code works on, as one value: m.dir, m.tbl, m.cr3, ...    *)

\* The hardware walk of directory m.dir: no frame when an entry on the way is
\* absent, or when the directory points at a frame that is no table of the
\* pool (what it would read there is not modelled).
Walked(m, lin) ==
    LET e == m.dir[lin[1]]
    IN  IF ~e.present THEN {}
        ELSE IF e.size THEN {<<e.base[1], lin[2]>>}
        ELSE {m.tbl[t][lin[2]].base :
                 t \in {u \in Tables : /\ TableFrame(u) = e.base
                                       /\ m.tbl[u][lin[2]].present}}

\* Where an access to lin ends up under the loaded page directory.
Linear(m, lin) == IF m.cr3 = "entry" THEN {EntryFrame(lin)} ELSE Walked(m, lin)

UnusedTablesByFirstEntry(m) == {t \in Tables : ~m.tbl[t][0].present}

\* The tables paging_get_page_table takes for unused: no entry present.
UnusedTables(m) == {t \in Tables : \A p \in Pages : ~m.tbl[t][p].present}

FirstOf(S) == CHOOSE t \in S : \A u \in S : t <= u

\* paging_get_page_table: the physical address of the first unused table, or
\* NULL.
GetPageTable(m) ==
    IF UnusedTables(m) = {} THEN NullFrame ELSE TableFrame(FirstOf(UnusedTables(m)))

\* The store of a page-table entry through the table's high-half address.
\* It lands in whatever frame that address is mapped to; with no mapping it
\* faults.
StorePte(m, tableframe, p, pte) ==
    LET hit == Linear(m, HighHalf(tableframe))
    IN  [m EXCEPT
            !.tbl = [t \in Tables |->
                        IF TableFrame(t) \in hit
                        THEN [m.tbl[t] EXCEPT ![p] = pte] ELSE m.tbl[t]],
            !.stray  = @ \cup (hit \ {TableFrame(t) : t \in Tables}),
            !.halted = @ \/ hit = {}]

InvlpgSmallOnly(cache, lin) == {e \in cache : e.size \/ e.lin # lin}

\* invlpg: drops the 4 KiB translation of the page and any 4 MiB one around it.
Invlpg(cache, lin) ==
    {e \in cache : IF e.size THEN e.lin[1] # lin[1] ELSE e.lin # lin}

Map4kbNewTable(m, phy, lin, flagP) ==
    LET table == GetPageTable(m)
        m1    == [m EXCEPT !.dir[lin[1]] =
                     [present |-> TRUE, size |-> FALSE, base |-> table]]
    IN  [StorePte(m1, table, lin[2], [present |-> flagP, base |-> phy])
            EXCEPT !.tlb = Invlpg(@, lin)]

\* paging_map_4kb: no test of SIZE in a present entry, none of NULL.
Map4kb(m, phy, lin, flagP) ==
    LET e     == m.dir[lin[1]]
        table == IF e.present THEN e.base ELSE GetPageTable(m)
        m1    == IF e.present THEN m
                 ELSE [m EXCEPT !.dir[lin[1]] =
                          [present |-> TRUE, size |-> FALSE, base |-> table]]
    IN  [StorePte(m1, table, lin[2], [present |-> flagP, base |-> phy])
            EXCEPT !.tlb = Invlpg(@, lin)]

\* paging_map_4mb: the directory entry is overwritten whatever it was.
Map4mb(m, phy, lin, flagP) ==
    [m EXCEPT !.dir[lin[1]] = [present |-> flagP, size |-> TRUE, base |-> <<phy[1], 0>>],
              !.tlb = Invlpg(@, lin)]

BootDirShort ==
    [d \in Dirs |->
        IF d \in VmaDir + 1 .. VmaDir + KernelEndWord
        THEN [present |-> TRUE, size |-> TRUE, base |-> <<d - VmaDir, 0>>]
        ELSE EmptyPde]

\* The directory after memset and the loop over the kernel's memory.  The
\* loop's bound is the word stored at __kernel_physical_end, not its address.
BootDir ==
    [d \in Dirs |->
        IF d \in VmaDir .. VmaDir + KernelEndWord
        THEN [present |-> TRUE, size |-> TRUE, base |-> <<d - VmaDir, 0>>]
        ELSE EmptyPde]

-----------------------------------------------------------------------------
(* State machine.                                                          *)

M == [dir |-> pgdir, tbl |-> pgtbls, cr3 |-> cr3, tlb |-> tlb,
      stray |-> stray, halted |-> halted]

Becomes(m) ==
    /\ pgdir' = m.dir /\ pgtbls' = m.tbl /\ cr3' = m.cr3
    /\ tlb' = m.tlb /\ stray' = m.stray /\ halted' = m.halted

\* _entry.s has turned paging on with entry_page_directory; .bss is zero.
Init ==
    /\ pgdir = [d \in Dirs |-> EmptyPde]
    /\ pgtbls = [t \in Tables |-> [p \in Pages |-> EmptyPte]]
    /\ cr3 = "entry"
    /\ tlb = {} /\ stray = {} /\ halted = FALSE

\* A load of CR3 empties the TLB: no entry of this kernel is global.
LoadCr3(m) == [m EXCEPT !.cr3 = "pgdir", !.tlb = {}]

\* The memory paging_init leaves: memset, the kernel's 4 MiB pages, the two
\* APIC pages 1:1, CR3.  (The invlpg of the 4 MiB calls are subsumed by the
\* load of CR3; PSE and PG are already set.)
InitialMapping(m) ==
    LET cleared == [m EXCEPT !.dir = BootDir,
                             !.tbl = [t \in Tables |-> [p \in Pages |-> EmptyPte]]]
        ioapic  == Map4kb(cleared, <<ApicDir, IoApicPage>>, <<ApicDir, IoApicPage>>, TRUE)
        lapic   == Map4kb(ioapic, <<ApicDir, LApicPage>>, <<ApicDir, LApicPage>>, TRUE)
    IN  LoadCr3(lapic)

\* paging_init, called once from entry_higher_half with interrupts off.
PagingInit ==
    /\ cr3 = "entry" /\ ~halted
    /\ Becomes(InitialMapping(M))

\* What a caller must respect, since the code tests none of it: the page is
\* mapped present, its directory entry is not a 4 MiB page, a table exists or
\* is left in the pool, and the two APIC pages are left alone.
MayMap4kb(lin) ==
    LET e == pgdir[lin[1]]
    IN  /\ cr3 = "pgdir"
        /\ IF e.present THEN ~e.size ELSE UnusedTables(M) # {}
        /\ lin \notin {<<ApicDir, IoApicPage>>, <<ApicDir, LApicPage>>}

\* ... and a 4 MiB page replaces neither a table nor the kernel's own memory.
MayMap4mb(lin) ==
    /\ cr3 = "pgdir"
    /\ pgdir[lin[1]].present => pgdir[lin[1]].size
    /\ lin[1] \notin VmaDir .. VmaDir + KernelEndWord

PagingMap4kb(phy, lin) ==
    /\ ~halted /\ MayMap4kb(lin)
    /\ Becomes(Map4kb(M, phy, lin, TRUE))

PagingMap4mb(phy, lin) ==
    /\ ~halted /\ MayMap4mb(lin)
    /\ Becomes(Map4mb(M, phy, lin, TRUE))

\* The translation the CPU caches when it walks the tables for lin.
TlbEntry(lin, frame) ==
    IF cr3 = "entry" \/ pgdir[lin[1]].size
    THEN [size |-> TRUE, lin |-> <<lin[1], 0>>, frame |-> <<frame[1], 0>>]
    ELSE [size |-> FALSE, lin |-> lin, frame |-> frame]

\* The CPU loads a translation: on an access or speculatively, at any time.
Walk(lin) ==
    /\ ~halted
    /\ Cardinality(tlb) < MaxTlb
    /\ \E f \in Linear(M, lin) : tlb' = tlb \cup {TlbEntry(lin, f)}
    /\ UNCHANGED <<pgdir, pgtbls, cr3, stray, halted>>

Next ==
    \/ PagingInit
    \/ \E phy \in CallFrames, lin \in CallLins : PagingMap4kb(phy, lin)
    \/ \E phy \in CallFrames, lin \in CallLins : PagingMap4mb(phy, lin)
    \/ \E lin \in Lins : Walk(lin)

Spec == Init /\ [][Next]_vars

-----------------------------------------------------------------------------
(* Properties.                                                             *)

TlbRecord == [size : BOOLEAN, lin : Lins, frame : Frames]

\* The directory and the tables hold entries of the declared formats, the TLB
\* holds translations (paging.h, paging_page_directory_t and _page_table_t).
TypeOK ==
    /\ pgdir \in [Dirs -> Pde]
    /\ pgtbls \in [Tables -> [Pages -> Pte]]
    /\ cr3 \in {"entry", "pgdir"}
    /\ tlb \subseteq TlbRecord
    /\ stray \subseteq Frames
    /\ halted \in BOOLEAN

IsTable(e) == e.present /\ ~e.size

PoolOwned(m) ==
    /\ \A d \in Dirs : IsTable(m.dir[d]) => \E t \in Tables : m.dir[d].base = TableFrame(t)
    /\ \A d, c \in Dirs :
          IsTable(m.dir[d]) /\ IsTable(m.dir[c]) /\ m.dir[d].base = m.dir[c].base => d = c
    /\ \A t \in Tables :
          (\E p \in Pages : m.tbl[t][p].present)
             <=> \E d \in Dirs : IsTable(m.dir[d]) /\ m.dir[d].base = TableFrame(t)

\* The ownership of the pool of page tables on which paging_get_page_table's
\* scan relies: every directory entry that is no 4 MiB page points at a table
\* of the pool, no two share one, and a table has an entry present exactly
\* when the directory references it.
PoolOwnership == PoolOwned(M)

\* Callers that respect the contract never make the code store a page-table
\* entry outside the pool (a NULL table, a 4 MiB page taken for a table) and
\* never make it touch a table through an address that is not mapped.
NoStrayStore == stray = {} /\ ~halted

\* From the moment CR3 is loaded the kernel's own memory (code, stack, the
\* tables themselves) and both APICs stay reachable at the addresses the rest
\* of the kernel uses, whatever is mapped later.
BootMappingsHold ==
    cr3 = "pgdir" =>
        /\ \A r \in 0 .. KernelLast, p \in Pages : Linear(M, <<High(r), p>>) = {<<r, p>>}
        /\ \A p \in {IoApicPage, LApicPage} :
              Linear(M, <<ApicDir, p>>) = {<<ApicDir, p>>}

\* No translation the CPU has cached differs from what a walk of the current
\* tables gives: the single invlpg of each map call and the load of CR3 are
\* enough, also across the change of directory and after a page is remapped.
TlbCoherent ==
    \A e \in tlb, lin \in Lins :
        IF e.size
        THEN e.lin[1] = lin[1] => Linear(M, lin) = {<<e.frame[1], lin[2]>>}
        ELSE e.lin = lin => Linear(M, lin) = {e.frame}

-----------------------------------------------------------------------------
(* The promise to the callers: module AddressSpace.                        *)

View == [lin \in Lins |-> Linear(M, lin)]

A == INSTANCE AddressSpace WITH map <- View, live <- (cr3 = "pgdir")

\* Seen through the page walk, the paging code implements the address space
\* its callers expect: paging_init installs exactly the boot mappings, a call
\* of paging_map_4kb changes the translation of its one page and of no other
\* (no table is shared, no stale entry surfaces in a newly taken table), and
\* a call of paging_map_4mb that of its 4 MiB.
ImplementsAddressSpace == A!Spec
=============================================================================
