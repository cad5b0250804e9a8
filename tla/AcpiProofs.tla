----------------------------- MODULE AcpiProofs -----------------------------
(***************************************************************************)
(* acpi_init on page tables of every size, wherever firmware has put the   *)
(* RSDT and the tables it lists.                                           *)
(***************************************************************************)
EXTENDS Acpi, PagingProofs, FiniteSetTheorems

-----------------------------------------------------------------------------
(* The inductive invariant.                                                *)

\* What is left of the pool's ownership when paging_map_4kb is called for any
\* address: a directory entry without SIZE holds a table of the pool or NULL,
\* a table is still referenced by one entry and only when it has an entry
\* present, 4 MiB entries are the kernel's, and an entry that missed the pool
\* went to the first page of a region of the kernel.
Hurt(m) ==
    /\ m \in Mem /\ KernelBig(m)
    /\ \A d \in Dirs : m.dir[d].present /\ m.dir[d].size => d \in KernelDirs
    /\ \A d \in Dirs : IsTable(m.dir[d]) =>
          \/ m.dir[d].base = NullFrame
          \/ \E t \in Tables : m.dir[d].base = TableFrame(t)
    /\ \A d, c \in Dirs :
          IsTable(m.dir[d]) /\ IsTable(m.dir[c]) /\ m.dir[d].base = m.dir[c].base
            /\ m.dir[d].base # NullFrame => d = c
    /\ \A d \in Dirs, t \in Tables :
          IsTable(m.dir[d]) /\ m.dir[d].base = TableFrame(t) => t \notin UnusedTables(m)
    /\ IsTable(m.dir[ApicDir]) /\ m.dir[ApicDir].base # NullFrame
    /\ m.stray \subseteq {<<r, 0>> : r \in KernelRegions}

TableDirs(m) == {d \in Dirs : IsTable(m.dir[d])}

\* On a machine acpi_init is made for, the calls are within the contract: at
\* most one page table for each of the two pages is taken from the pool, and
\* after the calls both pages are mapped.
Clean ==
    /\ ~halted /\ stray = {}
    /\ pc # "paging" => Sound(M)
    /\ pc \in {"find", "map1"} => TableDirs(M) \subseteq {ApicDir}
    /\ pc = "map2" => /\ TableDirs(M) \subseteq {ApicDir, High(rsdt[1])}
                      /\ Walked(M, HighHalf(rsdt)) = {rsdt}
    /\ pc \in {"header", "loop", "done"} =>
          \A f \in TwoPages : Walked(M, HighHalf(f)) = {f}

IInv ==
    /\ AcpiTypeOK
    /\ cr3 = IF pc = "paging" THEN "entry" ELSE "pgdir"
    /\ pc = "paging" => stray = {} /\ ~halted
    /\ pc # "paging" => Hurt(M)
    /\ pc # "paging" /\ ApicShadow \cap TwoPages = {} =>
          \A x \in {IoApic, LApic} : Walked(M, x) = {x}
    /\ pc \notin {"paging", "find"} => rsdt \in FindRsdp
    /\ Fits => Clean

-----------------------------------------------------------------------------
(* Addresses.                                                              *)

\* Adding VMA to physical addresses is a bijection that takes exactly the
\* regions of the kernel to the directory entries of its 4 MiB pages.
LEMMA HighHalfFacts ==
    /\ \A f \in Frames : /\ HighHalf(f) \in Lins
                         /\ HighHalf(f)[1] = High(f[1]) /\ HighHalf(f)[2] = f[2]
    /\ \A f, g \in Frames : HighHalf(f) = HighHalf(g) => f = g
    /\ \A f \in Frames : High(f[1]) \in KernelDirs <=> f[1] \in KernelRegions
    /\ \A r \in KernelRegions : r \in Dirs /\ High(r) = r + VmaDir /\ High(r) \in KernelDirs
<1>1. \A r \in Dirs : High(r) \in Dirs
  BY SizeAssumption DEF High, Dirs
<1>2. \A r, s \in Dirs : High(r) = High(s) => r = s
  BY SizeAssumption DEF High, Dirs
<1>3. \A r \in Dirs : High(r) \in KernelDirs <=> r \in KernelRegions
  BY SizeAssumption, LayoutAssumption DEF High, Dirs, KernelDirs, KernelRegions
<1>4. \A r \in KernelRegions : r \in Dirs /\ High(r) = r + VmaDir /\ High(r) \in KernelDirs
  BY SizeAssumption, LayoutAssumption DEF High, Dirs, KernelDirs, KernelRegions
<1> QED BY <1>1, <1>2, <1>3, <1>4 DEF HighHalf, Frames, Lins

\* The memory of the kernel is reached at its high address.
LEMMA KernelReached ==
    ASSUME NEW m \in Mem, KernelBig(m), NEW f \in Frames, f[1] \in KernelRegions
    PROVE  Walked(m, HighHalf(f)) = {f}
<1>1. High(f[1]) \in KernelDirs /\ High(f[1]) - VmaDir = f[1]
  BY HighHalfFacts, SizeAssumption DEF KernelRegions
<1>2. m.dir[High(f[1])] = [present |-> TRUE, size |-> TRUE, base |-> <<f[1], 0>>]
  BY <1>1 DEF KernelBig
<1>3. f = <<f[1], f[2]>>
  BY DEF Frames
<1> QED BY <1>2, <1>3 DEF Walked, HighHalf

\* The pages of an RSDT that ends in two pages.
LEMMA PageAfterFacts ==
    /\ \A f \in Frames : PageAfter(f, 0) = f
    /\ \A f \in Frames, n \in Nat : PageAfter(f, n) \in Frames
    /\ \A f \in Frames : NextPage(f) \in Frames
<1>1. ASSUME NEW f \in Frames
      PROVE  PageAfter(f, 0) = f
  <2>1. f = <<f[1], f[2]>> /\ f[1] \in 0 .. NDir - 1 /\ f[2] \in 0 .. NPage - 1
    BY DEF Frames, Dirs, Pages
  <2>2. f[2] \div NPage = 0 /\ f[2] % NPage = f[2] /\ f[1] % NDir = f[1]
    BY <2>1, SizeAssumption
  <2>3. PageAfter(f, 0) = <<f[1], f[2]>>
    BY <2>1, <2>2, SizeAssumption DEF PageAfter
  <2> QED BY <2>1, <2>3
<1>2. ASSUME NEW f \in Frames, NEW n \in Nat
      PROVE  PageAfter(f, n) \in Frames
  <2>1. f[1] \in 0 .. NDir - 1 /\ f[2] \in 0 .. NPage - 1 /\ NDir > 0 /\ NPage > 0
    BY SizeAssumption DEF Frames, Dirs, Pages
  <2>2. PICK x \in Nat, y \in Nat : x = f[2] + n /\ y = x \div NPage
    BY <2>1, SizeAssumption
  <2>3. (f[1] + y) % NDir \in Dirs /\ x % NPage \in Pages
    BY <2>1, <2>2, SizeAssumption DEF Dirs, Pages
  <2> QED BY <2>2, <2>3 DEF PageAfter, Frames
<1> QED BY <1>1, <1>2 DEF NextPage

-----------------------------------------------------------------------------
(* paging_map_4kb for any address.                                         *)

\* A "table" that is the first page of a region of the kernel: the entry is
\* stored there, in no table.
LEMMA StoreInKernel ==
    ASSUME NEW m \in Mem, KernelBig(m), m.cr3 = "pgdir",
           NEW r \in KernelRegions, NEW p \in Pages, NEW pte \in Pte
    PROVE  LET n == StorePte(m, <<r, 0>>, p, pte)
           IN  /\ n \in Mem /\ n.dir = m.dir /\ n.tbl = m.tbl /\ n.cr3 = m.cr3
               /\ n.stray = m.stray \cup {<<r, 0>>} /\ n.halted = m.halted
<1> DEFINE hit == Linear(m, HighHalf(<<r, 0>>))
           newtbl == [u \in Tables |-> IF TableFrame(u) \in hit
                        THEN [m.tbl[u] EXCEPT ![p] = pte] ELSE m.tbl[u]]
           n == StorePte(m, <<r, 0>>, p, pte)
<1>1. <<r, 0>> \in Frames
  BY HighHalfFacts, LayoutAssumption, SizeAssumption DEF Frames, Pages
<1>2. hit = {<<r, 0>>}
  BY <1>1, KernelReached DEF Linear
<1>3. \A u \in Tables : TableFrame(u) # <<r, 0>>
  BY LayoutAssumption, SizeAssumption DEF TableFrame, Tables
<1>4. n = [m EXCEPT !.tbl = newtbl,
                    !.stray = @ \cup (hit \ {TableFrame(u) : u \in Tables}),
                    !.halted = @ \/ hit = {}]
  BY DEF StorePte
<1> HIDE DEF hit, n
<1>5. newtbl = m.tbl
  BY <1>2, <1>3 DEF Mem
<1>6. hit \ {TableFrame(u) : u \in Tables} = {<<r, 0>>}
  BY <1>2, <1>3
<1>7. (m.halted \/ hit = {}) = m.halted
  BY <1>2 DEF Mem
<1> HIDE DEF newtbl
<1>8. n = [m EXCEPT !.tbl = m.tbl, !.stray = m.stray \cup {<<r, 0>>}, !.halted = m.halted]
  BY <1>4, <1>5, <1>6, <1>7 DEF Mem
<1>9. m.stray \cup {<<r, 0>>} \in SUBSET Frames
  BY <1>1 DEF Mem
<1> QED BY <1>8, <1>9 DEF Mem, n

\* Where a call of paging_map_4kb for any address puts its entry: in a table
\* of the pool, which the directory entry references or which was unused, or
\* in the first page of a region of the kernel.
LEMMA TableChosen ==
    ASSUME NEW m, Hurt(m), NEW d \in Dirs
    PROVE  LET e == m.dir[d]
               table == IF e.present THEN e.base ELSE GetPageTable(m)
           IN  \/ \E r \in KernelRegions : table = <<r, 0>> /\ (~e.present => r = 0)
               \/ \E t \in Tables : /\ table = TableFrame(t)
                                    /\ e.present => ~e.size
                                    /\ ~e.present => t \in UnusedTables(m)
<1> DEFINE e == m.dir[d]
           table == IF e.present THEN e.base ELSE GetPageTable(m)
<1>0. 0 \in KernelRegions /\ NullFrame = <<0, 0>>
  BY SizeAssumption DEF KernelRegions, NullFrame
<1>1. CASE e.present /\ e.size
  <2>1. d \in KernelDirs
    BY <1>1 DEF Hurt
  <2>2. e.base = <<d - VmaDir, 0>>
    <3>1. KernelBig(m)
      BY DEF Hurt
    <3>2. e = [present |-> TRUE, size |-> TRUE, base |-> <<d - VmaDir, 0>>]
      BY <2>1, <3>1 DEF KernelBig
    <3> QED BY <3>2
  <2>3. d - VmaDir \in KernelRegions
    BY <2>1, SizeAssumption DEF KernelDirs, KernelRegions
  <2> QED BY <1>1, <2>2, <2>3
<1>2. CASE IsTable(e)
  <2>1. e.present /\ ~e.size /\ table = e.base
    BY <1>2 DEF IsTable
  <2>2. e.base = NullFrame \/ \E t \in Tables : e.base = TableFrame(t)
    BY <1>2 DEF Hurt
  <2> QED BY <2>1, <2>2, <1>0
<1>3. CASE ~e.present /\ UnusedTables(m) = {}
  BY <1>3, <1>0 DEF GetPageTable
<1>4. CASE ~e.present /\ UnusedTables(m) # {}
  <2>1. UnusedTables(m) \subseteq Tables
    BY DEF UnusedTables
  <2>2. FirstOf(UnusedTables(m)) \in UnusedTables(m)
    BY <2>1, <1>4, FirstOfIn
  <2> QED BY <2>1, <2>2, <1>4 DEF GetPageTable
<1> QED BY <1>1, <1>2, <1>3, <1>4 DEF IsTable

\* What the call leaves: the directory with the entry filled in where it was
\* absent, the tables with at most one entry more, in the table of the
\* directory entry.
MappedSomewhere(m, n, f, lin) ==
    LET table == IF m.dir[lin[1]].present THEN m.dir[lin[1]].base ELSE GetPageTable(m)
        new   == [present |-> TRUE, size |-> FALSE, base |-> table]
    IN  /\ n \in Mem /\ n.cr3 = m.cr3 /\ n.halted = m.halted
        /\ \A d \in Dirs :
              n.dir[d] = IF d = lin[1] /\ ~m.dir[d].present THEN new ELSE m.dir[d]
        /\ \/ /\ \E r \in KernelRegions : table = <<r, 0>> /\ n.stray = m.stray \cup {<<r, 0>>}
              /\ n.tbl = m.tbl
              /\ ~m.dir[lin[1]].present => table = NullFrame
           \/ \E t \in Tables :
                 /\ table = TableFrame(t) /\ n.stray = m.stray
                 /\ m.dir[lin[1]].present => ~m.dir[lin[1]].size
                 /\ ~m.dir[lin[1]].present => t \in UnusedTables(m)
                 /\ \A u \in Tables, p \in Pages :
                       n.tbl[u][p] = IF u = t /\ p = lin[2] THEN PagePte(f) ELSE m.tbl[u][p]

\* paging_map_4kb for any frame and any linear address, outside its contract
\* too: what it may do to the structures.
LEMMA Map4kbAnywhere ==
    ASSUME NEW m, Hurt(m), m.cr3 = "pgdir", NEW f \in Frames, NEW lin \in Lins
    PROVE  MappedSomewhere(m, Map4kb(m, f, lin, TRUE), f, lin)
<1> DEFINE e == m.dir[lin[1]]
           table == IF e.present THEN e.base ELSE GetPageTable(m)
           new == [present |-> TRUE, size |-> FALSE, base |-> table]
           m1 == IF e.present THEN m ELSE [m EXCEPT !.dir[lin[1]] = new]
           n  == StorePte(m1, table, lin[2], PagePte(f))
           nn == [n EXCEPT !.tlb = Invlpg(@, lin)]
<1>0. m \in Mem /\ KernelBig(m) /\ lin[1] \in Dirs /\ lin[2] \in Pages /\ e \in Pde
  BY DEF Lins, Hurt, Mem
<1>1. Map4kb(m, f, lin, TRUE) = nn
  BY DEF Map4kb, PagePte
<1>2. \/ \E r \in KernelRegions : table = <<r, 0>> /\ (~e.present => r = 0)
      \/ \E t \in Tables : /\ table = TableFrame(t)
                           /\ e.present => ~e.size
                           /\ ~e.present => t \in UnusedTables(m)
  BY <1>0, TableChosen
<1>3. table \in Frames
  <2>1. \A r \in KernelRegions : <<r, 0>> \in Frames
    BY HighHalfFacts, LayoutAssumption, SizeAssumption DEF Frames, Pages
  <2> QED BY <1>2, <2>1, TableFrameFacts
<1>4. new \in Pde /\ PagePte(f) \in Pte
  BY <1>3 DEF Pde, Pte, PagePte
<1>5. /\ m1 \in Mem /\ m1.tbl = m.tbl /\ m1.cr3 = m.cr3 /\ m1.tlb = m.tlb
      /\ m1.stray = m.stray /\ m1.halted = m.halted
      /\ \A d \in Dirs : m1.dir[d] = IF d = lin[1] /\ ~m.dir[d].present THEN new ELSE m.dir[d]
  <2>1. CASE e.present
    BY <2>1, <1>0
  <2>2. CASE ~e.present
    <3> HIDE DEF new
    <3>1. m1 = [m EXCEPT !.dir = [m.dir EXCEPT ![lin[1]] = new]]
      BY <2>2, <1>0 DEF Mem
    <3> HIDE DEF m1
    <3>2. [m.dir EXCEPT ![lin[1]] = new] \in [Dirs -> Pde]
      BY <1>0, <1>4 DEF Mem
    <3> QED BY <3>1, <3>2, <2>2, <1>0 DEF Mem
  <2> QED BY <2>1, <2>2
<1>6. KernelBig(m1)
  <2>1. KernelDirs \subseteq Dirs
    BY SizeAssumption, LayoutAssumption DEF KernelDirs, Dirs
  <2> HIDE DEF m1
  <2> QED BY <1>0, <1>5, <2>1 DEF KernelBig
<1> HIDE DEF m1, new
<1>7. Invlpg(m.tlb, lin) \in SUBSET TlbRecord /\ n.tlb = m1.tlb
  BY <1>0 DEF Mem, Invlpg, StorePte
<1>8. CASE \E r \in KernelRegions : table = <<r, 0>> /\ (~e.present => r = 0)
  <2>1. PICK r \in KernelRegions : table = <<r, 0>> /\ (~e.present => r = 0)
    BY <1>8
  <2> HIDE DEF table
  <2>2. /\ n \in Mem /\ n.dir = m1.dir /\ n.tbl = m1.tbl /\ n.cr3 = m1.cr3
        /\ n.stray = m1.stray \cup {<<r, 0>>} /\ n.halted = m1.halted
    BY <2>1, <1>0, <1>4, <1>5, <1>6, StoreInKernel
  <2> HIDE DEF n
  <2>3. /\ nn \in Mem /\ nn.dir = n.dir /\ nn.tbl = n.tbl /\ nn.cr3 = n.cr3
        /\ nn.stray = n.stray /\ nn.halted = n.halted
    BY <2>2, <1>5, <1>7 DEF Mem
  <2> HIDE DEF nn
  <2>4. \A d \in Dirs : nn.dir[d] = IF d = lin[1] /\ ~m.dir[d].present THEN new ELSE m.dir[d]
    BY <2>2, <2>3, <1>5
  <2>5. nn.cr3 = m.cr3 /\ nn.halted = m.halted /\ nn.tbl = m.tbl /\ nn.stray = m.stray \cup {<<r, 0>>}
    BY <2>2, <2>3, <1>5
  <2>6. ~e.present => table = NullFrame
    BY <2>1 DEF NullFrame
  <2>7. MappedSomewhere(m, nn, f, lin)
    BY <2>1, <2>3, <2>4, <2>5, <2>6 DEF MappedSomewhere, table, new
  <2> QED BY <2>7, <1>1
<1>9. CASE \E t \in Tables : /\ table = TableFrame(t)
                             /\ e.present => ~e.size
                             /\ ~e.present => t \in UnusedTables(m)
  <2>1. PICK t \in Tables : /\ table = TableFrame(t)
                            /\ e.present => ~e.size
                            /\ ~e.present => t \in UnusedTables(m)
    BY <1>9
  <2> HIDE DEF table
  <2>2. /\ n \in Mem /\ n.dir = m1.dir /\ n.cr3 = m1.cr3
        /\ n.tbl = [m1.tbl EXCEPT ![t] = [m1.tbl[t] EXCEPT ![lin[2]] = PagePte(f)]]
        /\ n.stray = m1.stray /\ n.halted = m1.halted
    BY <2>1, <1>0, <1>4, <1>5, <1>6, StorePteEffect
  <2> HIDE DEF n
  <2>3. /\ nn \in Mem /\ nn.dir = n.dir /\ nn.tbl = n.tbl /\ nn.cr3 = n.cr3
        /\ nn.stray = n.stray /\ nn.halted = n.halted
    BY <2>2, <1>5, <1>7 DEF Mem
  <2> HIDE DEF nn
  <2>4. \A u \in Tables, p \in Pages :
           nn.tbl[u][p] = IF u = t /\ p = lin[2] THEN PagePte(f) ELSE m.tbl[u][p]
    BY <2>2, <2>3, <1>0, <1>5 DEF Mem
  <2>5. \A d \in Dirs : nn.dir[d] = IF d = lin[1] /\ ~m.dir[d].present THEN new ELSE m.dir[d]
    BY <2>2, <2>3, <1>5
  <2>6. nn.cr3 = m.cr3 /\ nn.halted = m.halted /\ nn.stray = m.stray
    BY <2>2, <2>3, <1>5
  <2>7. MappedSomewhere(m, nn, f, lin)
    BY <2>1, <2>3, <2>4, <2>5, <2>6 DEF MappedSomewhere, table, new
  <2> QED BY <2>7, <1>1
<1> QED BY <1>2, <1>8, <1>9

\* A call for any address keeps what is left of the ownership.
LEMMA HurtKept ==
    ASSUME NEW m, Hurt(m), NEW f \in Frames, NEW lin \in Lins,
           NEW n, MappedSomewhere(m, n, f, lin)
    PROVE  Hurt(n)
<1> DEFINE e == m.dir[lin[1]]
           table == IF e.present THEN e.base ELSE GetPageTable(m)
           new == [present |-> TRUE, size |-> FALSE, base |-> table]
<1>0. /\ lin[1] \in Dirs /\ lin[2] \in Pages /\ KernelBig(m) /\ ApicDir \in Dirs
      /\ KernelDirs \subseteq Dirs
  BY SizeAssumption, LayoutAssumption DEF Lins, Hurt, KernelDirs, Dirs
<1>1. \A d \in Dirs : n.dir[d] = IF d = lin[1] /\ ~m.dir[d].present THEN new ELSE m.dir[d]
  BY DEF MappedSomewhere
<1>2. new.present /\ ~new.size /\ new.base = table /\ IsTable(new)
  BY DEF IsTable
<1>3. \/ /\ \E r \in KernelRegions : table = <<r, 0>> /\ n.stray = m.stray \cup {<<r, 0>>}
         /\ n.tbl = m.tbl
         /\ ~e.present => table = NullFrame
      \/ \E t \in Tables :
            /\ table = TableFrame(t) /\ n.stray = m.stray
            /\ e.present => ~e.size
            /\ ~e.present => t \in UnusedTables(m)
            /\ \A u \in Tables, p \in Pages :
                  n.tbl[u][p] = IF u = t /\ p = lin[2] THEN PagePte(f) ELSE m.tbl[u][p]
  BY DEF MappedSomewhere
<1> HIDE DEF new, table
\* A table the call takes from the pool is not referenced yet.
<1>4. ASSUME ~e.present, table # NullFrame
      PROVE  /\ \E t \in Tables : table = TableFrame(t)
             /\ \A d \in Dirs : IsTable(m.dir[d]) => m.dir[d].base # table
  <2>1. PICK t \in Tables : table = TableFrame(t) /\ t \in UnusedTables(m)
    BY <1>3, <1>4
  <2> QED BY <2>1 DEF Hurt
\* Tables in use stay in use, and the table of the entry is in use.
<1>5. PagePte(f).present
  BY DEF PagePte
<1>6. UnusedTables(n) \subseteq UnusedTables(m)
  <2> SUFFICES ASSUME NEW u \in Tables, \A p \in Pages : ~n.tbl[u][p].present,
                      NEW p \in Pages
               PROVE  ~m.tbl[u][p].present
    BY DEF UnusedTables
  <2>1. CASE n.tbl = m.tbl
    BY <2>1
  <2>2. CASE \E t \in Tables : \A v \in Tables, q \in Pages :
                n.tbl[v][q] = IF v = t /\ q = lin[2] THEN PagePte(f) ELSE m.tbl[v][q]
    BY <2>2, <1>0, <1>5
  <2> QED BY <1>3, <2>1, <2>2
<1>7. \A t \in Tables : ~e.present /\ table = TableFrame(t) => t \notin UnusedTables(n)
  <2> SUFFICES ASSUME NEW t \in Tables, ~e.present, table = TableFrame(t)
               PROVE  n.tbl[t][lin[2]].present
    BY <1>0 DEF UnusedTables
  <2>1. table # NullFrame
    BY LayoutAssumption, SizeAssumption DEF TableFrame, NullFrame, Tables
  <2>2. PICK u \in Tables :
           /\ table = TableFrame(u)
           /\ \A v \in Tables, p \in Pages :
                 n.tbl[v][p] = IF v = u /\ p = lin[2] THEN PagePte(f) ELSE m.tbl[v][p]
    BY <2>1, <1>3
  <2>3. u = t
    BY <2>2, TableFrameFacts
  <2> QED BY <2>2, <2>3, <1>0, <1>5
<1>8. KernelBig(n)
  BY <1>0, <1>1 DEF KernelBig
<1>9. \A d \in Dirs : n.dir[d].present /\ n.dir[d].size => d \in KernelDirs
  BY <1>1, <1>2 DEF Hurt
<1>10. \A d \in Dirs : IsTable(n.dir[d]) =>
          \/ n.dir[d].base = NullFrame
          \/ \E t \in Tables : n.dir[d].base = TableFrame(t)
  BY <1>1, <1>2, <1>4 DEF Hurt
<1>11. ASSUME NEW d \in Dirs, NEW c \in Dirs, IsTable(n.dir[d]), IsTable(n.dir[c]),
              n.dir[d].base = n.dir[c].base, n.dir[d].base # NullFrame
       PROVE  d = c
  <2>1. CASE n.dir[d] = m.dir[d] /\ n.dir[c] = m.dir[c]
    BY <2>1, <1>11 DEF Hurt
  <2>2. CASE d = lin[1] /\ c # lin[1] /\ ~e.present
    BY <2>2, <1>1, <1>2, <1>4, <1>11
  <2>3. CASE c = lin[1] /\ d # lin[1] /\ ~e.present
    BY <2>3, <1>1, <1>2, <1>4, <1>11
  <2> QED BY <2>1, <2>2, <2>3, <1>1
<1>12. ASSUME NEW d \in Dirs, NEW t \in Tables, IsTable(n.dir[d]), n.dir[d].base = TableFrame(t)
       PROVE  t \notin UnusedTables(n)
  <2>1. CASE n.dir[d] = m.dir[d]
    BY <2>1, <1>6, <1>12 DEF Hurt
  <2>2. CASE d = lin[1] /\ ~e.present
    BY <2>2, <1>1, <1>2, <1>7, <1>12
  <2> QED BY <2>1, <2>2, <1>1
<1>13. IsTable(n.dir[ApicDir]) /\ n.dir[ApicDir].base # NullFrame
  <2>1. IsTable(m.dir[ApicDir]) /\ m.dir[ApicDir].base # NullFrame
    BY DEF Hurt
  <2>2. n.dir[ApicDir] = m.dir[ApicDir]
    BY <2>1, <1>0, <1>1 DEF IsTable
  <2> QED BY <2>1, <2>2
<1>14. n.stray \subseteq {<<r, 0>> : r \in KernelRegions}
  BY <1>3 DEF Hurt
<1>15. n \in Mem
  BY DEF MappedSomewhere
<1> QED BY <1>8, <1>9, <1>10, <1>11, <1>12, <1>13, <1>14, <1>15 DEF Hurt

\* ... and the translation of every other page that has a table.
LEMMA WalkKept ==
    ASSUME NEW m, Hurt(m), NEW f \in Frames, NEW lin \in Lins,
           NEW n, MappedSomewhere(m, n, f, lin),
           NEW x \in Lins, x # lin, IsTable(m.dir[x[1]]), m.dir[x[1]].base # NullFrame
    PROVE  Walked(n, x) = Walked(m, x)
<1> DEFINE e == m.dir[lin[1]]
           table == IF e.present THEN e.base ELSE GetPageTable(m)
<1>0. /\ lin[1] \in Dirs /\ lin[2] \in Pages /\ x[1] \in Dirs /\ x[2] \in Pages
      /\ (x[1] # lin[1] \/ x[2] # lin[2]) /\ m.dir[x[1]].present /\ ~m.dir[x[1]].size
  BY DEF Lins, IsTable
<1>1. n.dir[x[1]] = m.dir[x[1]]
  BY <1>0 DEF MappedSomewhere
<1>2. ASSUME NEW u \in Tables, TableFrame(u) = m.dir[x[1]].base
      PROVE  n.tbl[u][x[2]] = m.tbl[u][x[2]]
  <2>1. CASE n.tbl = m.tbl
    BY <2>1
  <2>2. CASE n.tbl # m.tbl
    <3>1. PICK t \in Tables :
             /\ table = TableFrame(t)
             /\ e.present => ~e.size
             /\ ~e.present => t \in UnusedTables(m)
             /\ \A v \in Tables, p \in Pages :
                   n.tbl[v][p] = IF v = t /\ p = lin[2] THEN PagePte(f) ELSE m.tbl[v][p]
      BY <2>2 DEF MappedSomewhere
    <3>2. ~(u = t /\ x[2] = lin[2])
      <4> SUFFICES ASSUME u = t, x[1] # lin[1] PROVE FALSE
        BY <1>0
      <4>1. CASE e.present
        <5>1. IsTable(e) /\ e.base = m.dir[x[1]].base
          BY <4>1, <3>1, <1>2 DEF IsTable
        <5> QED BY <5>1, <1>0 DEF Hurt
      <4>2. CASE ~e.present
        BY <4>2, <3>1, <1>0, <1>2 DEF Hurt
      <4> QED BY <4>1, <4>2
    <3> QED BY <3>1, <3>2, <1>0
  <2> QED BY <2>1, <2>2
<1>3. {n.tbl[u][x[2]].base : u \in {v \in Tables : TableFrame(v) = m.dir[x[1]].base
                                                 /\ n.tbl[v][x[2]].present}}
      = {m.tbl[u][x[2]].base : u \in {v \in Tables : TableFrame(v) = m.dir[x[1]].base
                                                 /\ m.tbl[v][x[2]].present}}
  BY <1>2
<1> QED BY <1>0, <1>1, <1>3 DEF Walked

\* paging_init leaves the ownership whole and one table in use, the APICs'.
LEMMA InitialHurt ==
    ASSUME NEW m \in Mem, m.stray = {}, ~m.halted
    PROVE  LET n == InitialMapping(m)
           IN  /\ Hurt(n) /\ Sound(n) /\ n.cr3 = "pgdir"
               /\ TableDirs(n) \subseteq {ApicDir}
               /\ \A x \in {IoApic, LApic} : Walked(n, x) = {x}
<1> DEFINE n == InitialMapping(m)
<1>1. /\ Sound(n) /\ n.cr3 = "pgdir" /\ IsTable(n.dir[ApicDir])
      /\ \A x \in Lins : Walked(n, x) = BootWalk(x)
  BY InitialMappingCorrect
<1> HIDE DEF n
<1>2. /\ IoApic \in Lins /\ LApic \in Lins /\ ApicDir \in Dirs /\ ApicDir \notin KernelDirs
      /\ IoApic[1] = ApicDir /\ LApic[1] = ApicDir /\ 0 \in Pages
  BY SizeAssumption, LayoutAssumption DEF IoApic, LApic, Lins, KernelDirs, Pages
<1>3. ASSUME NEW d \in Dirs, NEW p \in Pages, Walked(n, <<d, p>>) # {}
      PROVE  d \in KernelDirs \cup {ApicDir}
  <2>1. BootWalk(<<d, p>>) # {}
    BY <1>1, <1>3 DEF Lins
  <2> QED BY <2>1, <1>2 DEF BootWalk
<1>4. \A d \in Dirs : n.dir[d].present /\ n.dir[d].size => d \in KernelDirs
  <2> SUFFICES ASSUME NEW d \in Dirs, n.dir[d].present, n.dir[d].size
               PROVE  d \in KernelDirs
    OBVIOUS
  <2>1. Walked(n, <<d, 0>>) # {}
    BY DEF Walked
  <2> QED BY <2>1, <1>1, <1>2, <1>3 DEF IsTable
<1>5. PoolOwned(n) /\ KernelBig(n) /\ n \in Mem /\ n.stray = {}
  BY <1>1 DEF Sound
<1>6. TableDirs(n) \subseteq {ApicDir}
  <2> SUFFICES ASSUME NEW d \in Dirs, IsTable(n.dir[d])
               PROVE  d = ApicDir
    BY DEF TableDirs
  <2>1. PICK t \in Tables : n.dir[d].base = TableFrame(t)
    BY <1>5 DEF PoolOwned
  <2>2. PICK p \in Pages : n.tbl[t][p].present
    BY <1>5, <2>1 DEF PoolOwned
  <2>3. n.dir[d].present /\ ~n.dir[d].size
    BY DEF IsTable
  <2>4. n.tbl[t][p].base \in Walked(n, <<d, p>>)
    BY <2>1, <2>2, <2>3 DEF Walked
  <2>5. d \notin KernelDirs
    <3>1. d \in KernelDirs =>
             n.dir[d] = [present |-> TRUE, size |-> TRUE, base |-> <<d - VmaDir, 0>>]
      BY <1>5 DEF KernelBig
    <3> QED BY <3>1, <2>3
  <2> QED BY <2>4, <2>5, <1>3
<1>7. Hurt(n)
  <2>1. \A t \in Tables : TableFrame(t) # NullFrame
    BY LayoutAssumption, SizeAssumption DEF TableFrame, NullFrame, Tables
  <2>2. n.dir[ApicDir].base # NullFrame
    BY <2>1, <1>1, <1>2, <1>5 DEF PoolOwned
  <2>3. \A d \in Dirs, t \in Tables :
           IsTable(n.dir[d]) /\ n.dir[d].base = TableFrame(t) => t \notin UnusedTables(n)
    BY <1>5 DEF PoolOwned, UnusedTables
  <2> QED BY <2>2, <2>3, <1>1, <1>4, <1>5 DEF Hurt, PoolOwned
<1>8. \A x \in {IoApic, LApic} : Walked(n, x) = {x}
  BY <1>1, <1>2 DEF BootWalk
<1> QED BY <1>1, <1>6, <1>7, <1>8 DEF n

-----------------------------------------------------------------------------
(* paging_map_4kb on the machines acpi_init is made for.                   *)

\* The pool is not empty while fewer directory entries have a table than it
\* has tables: with every table in use, each is that of another entry.
LEMMA PoolSuffices ==
    ASSUME NEW m, Sound(m), NEW need, IsFiniteSet(need), Cardinality(need) <= NTables,
           TableDirs(m) \subseteq need, TableDirs(m) # need
    PROVE  UnusedTables(m) # {}
<1> SUFFICES ASSUME UnusedTables(m) = {} PROVE FALSE
  OBVIOUS
<1>1. \A t \in Tables : \E d \in TableDirs(m) : m.dir[d].base = TableFrame(t)
  <2> SUFFICES ASSUME NEW t \in Tables
               PROVE  \E d \in TableDirs(m) : m.dir[d].base = TableFrame(t)
    OBVIOUS
  <2>1. \E p \in Pages : m.tbl[t][p].present
    BY DEF UnusedTables
  <2> QED BY <2>1 DEF Sound, PoolOwned, TableDirs
<1> DEFINE owner == [t \in Tables |-> CHOOSE d \in TableDirs(m) : m.dir[d].base = TableFrame(t)]
<1>2. \A t \in Tables : owner[t] \in TableDirs(m) /\ m.dir[owner[t]].base = TableFrame(t)
  BY <1>1
<1>3. owner \in Injection(Tables, TableDirs(m))
  <2>1. owner \in [Tables -> TableDirs(m)]
    BY <1>2
  <2>2. ASSUME NEW t \in Tables, NEW u \in Tables, owner[t] = owner[u] PROVE t = u
    BY <1>2, <2>2, TableFrameFacts
  <2> HIDE DEF owner
  <2> QED BY <2>1, <2>2 DEF Injection, IsInjective
<1>4. /\ IsFiniteSet(TableDirs(m)) /\ Cardinality(TableDirs(m)) <= Cardinality(need)
      /\ Cardinality(TableDirs(m)) # Cardinality(need)
  BY FS_Subset
<1>5. Cardinality(Tables) <= Cardinality(TableDirs(m))
  BY <1>3, <1>4, FS_Injection
<1>6. Cardinality(Tables) = NTables
  BY FS_Interval, SizeAssumption DEF Tables
<1>7. Cardinality(TableDirs(m)) \in Nat /\ Cardinality(need) \in Nat /\ NTables \in Nat
  BY <1>4, FS_CardinalityType, SizeAssumption
<1> QED BY <1>4, <1>5, <1>6, <1>7

\* A page of the RSDT on such a machine may be mapped, and then it is mapped,
\* with at most one table more and nothing else changed.
LEMMA CleanMap ==
    ASSUME NEW m, Sound(m), Hurt(m), NEW f \in Frames, f[1] \notin KernelRegions,
           NEW need, IsFiniteSet(need), Cardinality(need) <= NTables,
           TableDirs(m) \subseteq need, High(f[1]) \in need
    PROVE  LET n == Map4kb(m, f, HighHalf(f), TRUE)
           IN  /\ Mappable(m, HighHalf(f))
               /\ Sound(n)
               /\ TableDirs(n) \subseteq TableDirs(m) \cup {High(f[1])}
               /\ \A x \in Lins : Walked(n, x) = IF x = HighHalf(f) THEN {f} ELSE Walked(m, x)
<1> DEFINE lin == HighHalf(f)
           n   == Map4kb(m, f, lin, TRUE)
<1>1. lin \in Lins /\ lin[1] = High(f[1]) /\ lin[1] \notin KernelDirs /\ lin[1] \in Dirs
  BY HighHalfFacts DEF Lins
<1>2. Mappable(m, lin)
  <2>1. m.dir[lin[1]].present => ~m.dir[lin[1]].size
    BY <1>1 DEF Hurt
  <2>2. ~m.dir[lin[1]].present => UnusedTables(m) # {}
    <3>1. ~m.dir[lin[1]].present => lin[1] \notin TableDirs(m)
      BY DEF TableDirs, IsTable
    <3> QED BY <1>1, <3>1, PoolSuffices
  <2> QED BY <2>1, <2>2 DEF Mappable
<1> HIDE DEF lin
<1>3. /\ Sound(n)
      /\ \A d \in Dirs : d # lin[1] => n.dir[d] = m.dir[d]
      /\ \A x \in Lins : Walked(n, x) = IF x = lin THEN {f} ELSE Walked(m, x)
  BY <1>1, <1>2, Map4kbCorrect, Zenon
<1> HIDE DEF n
<1>4. TableDirs(n) \subseteq TableDirs(m) \cup {lin[1]}
  BY <1>3 DEF TableDirs
<1> QED BY <1>1, <1>2, <1>3, <1>4 DEF lin, n

-----------------------------------------------------------------------------
(* The steps of acpi_init.                                                 *)

\* What the firmware's data are, as far as the code follows them.
LEMMA LayoutFacts ==
    ASSUME layout \in Layouts
    PROVE  /\ FindRsdp \subseteq Frames /\ \A f, g \in FindRsdp : f = g
           /\ TwoPages \subseteq Frames
           /\ layout.offset \in 0 .. PerPage - 1 /\ layout.length \in 0 .. Word - 1
           /\ \A k \in 0 .. 1 : layout.ptr[k] \in Frames
           /\ layout.fadt \in Frames /\ layout.spans \in BOOLEAN /\ layout.fixed \in BOOLEAN
           /\ Entries(layout.length) \in Nat
<1>1. /\ layout.ebda \in Optional(EbdaRsdts) /\ layout.bios \in Optional(BiosRsdts)
      /\ layout.offset \in 0 .. PerPage - 1 /\ layout.length \in Lengths
      /\ layout.ptr \in [0 .. 1 -> TableFrames]
      /\ layout.fadt \in TableFrames /\ layout.spans \in BOOLEAN /\ layout.fixed \in BOOLEAN
  BY DEF Layouts
<1>2. FindRsdp \subseteq Frames /\ \A f, g \in FindRsdp : f = g
  BY <1>1, AcpiAssumption DEF FindRsdp, Optional
<1>3. TwoPages \subseteq Frames
  BY <1>2, PageAfterFacts DEF TwoPages
<1>4. layout.length \in 0 .. Word - 1
  BY <1>1, AcpiAssumption
<1>5. Entries(layout.length) \in Nat
  <2>1. layout.length \in Int /\ Header \in Int /\ Word \in Nat /\ Word > 0
    BY <1>4, AcpiAssumption
  <2>2. (layout.length - Header) % Word \in 0 .. Word - 1
    BY <2>1
  <2> QED BY <2>2 DEF Entries
<1> QED BY <1>1, <1>2, <1>3, <1>4, <1>5, AcpiAssumption

\* The directory entries that need a table can be counted.
LEMMA NeedTablesFacts ==
    ASSUME layout \in Layouts
    PROVE  /\ IsFiniteSet(NeedTables) /\ ApicDir \in NeedTables
           /\ \A f \in TwoPages : High(f[1]) \in NeedTables
<1>1. \A f \in TwoPages : High(f[1]) \in Dirs
  BY LayoutFacts, HighHalfFacts DEF Lins
<1>2. ApicDir \in Dirs
  BY LayoutAssumption
<1>3. NeedTables \in SUBSET Dirs
  BY <1>1, <1>2 DEF NeedTables
<1>4. IsFiniteSet(Dirs)
  BY FS_Interval, SizeAssumption DEF Dirs
<1> QED BY <1>3, <1>4, FS_Subset DEF NeedTables

\* What depends on the firmware's data alone.
LEMMA LayoutKept ==
    ASSUME layout' = layout
    PROVE  FindRsdp' = FindRsdp /\ TwoPages' = TwoPages /\ Fits' = Fits
<1>1. FindRsdp' = FindRsdp
  BY DEF FindRsdp
<1>2. TwoPages' = TwoPages
  BY <1>1 DEF TwoPages
<1>3. NeedTables' = NeedTables
  BY <1>2 DEF NeedTables
<1> QED BY <1>1, <1>2, <1>3 DEF Fits, Covered, InRsdt

\* On a machine acpi_init is made for, what a table listed there occupies is
\* reached once the two pages are mapped.
LEMMA CoveredSeen ==
    ASSUME IInv, Fits, pc \in {"header", "loop"}, NEW f \in Frames, Covered(f)
    PROVE  Sees(f) = {f}
<1>1. Hurt(M) /\ Clean /\ cr3 = "pgdir"
  BY DEF IInv
<1>2. Linear(M, HighHalf(f)) = Walked(M, HighHalf(f))
  BY <1>1 DEF Linear, M
<1>3. CASE f \in TwoPages
  BY <1>1, <1>2, <1>3 DEF Clean, Sees
<1>4. CASE f[1] \in KernelRegions
  <2>1. M \in Mem /\ KernelBig(M)
    BY <1>1 DEF Hurt
  <2> QED BY <2>1, <1>2, <1>4, KernelReached DEF Sees
<1> QED BY <1>3, <1>4 DEF Covered

\* ... and so is the RSDT itself.
LEMMA UnitSeen ==
    ASSUME IInv, Fits, pc \in {"header", "loop"},
           NEW u \in Nat, layout.offset + u < 2 * PerPage
    PROVE  Sees(UnitFrame(u)) = {UnitFrame(u)}
<1>0. layout \in Layouts /\ rsdt \in FindRsdp
  BY DEF IInv, AcpiTypeOK
<1>1. rsdt \in Frames /\ layout.offset \in 0 .. PerPage - 1
  BY <1>0, LayoutFacts
<1>2. PICK x \in Nat : x = layout.offset + u
  BY <1>1, AcpiAssumption
<1>3. x \div PerPage \in {0, 1}
  BY <1>2, AcpiAssumption
<1>4. UnitFrame(u) \in {rsdt, NextPage(rsdt)}
  BY <1>1, <1>2, <1>3, PageAfterFacts DEF UnitFrame, NextPage
<1>5. UnitFrame(u) \in TwoPages
  BY <1>0, <1>4 DEF TwoPages
<1>6. UnitFrame(u) \in Frames
  BY <1>0, <1>5, LayoutFacts
<1> QED BY <1>5, <1>6, CoveredSeen DEF Covered

\* A page fault stops the processor and changes nothing else.
LEMMA FaultKeeps ==
    ASSUME IInv, PageFault, pc # "paging", ~Fits
    PROVE  IInv'
<1>1. /\ halted' = TRUE /\ pgdir' = pgdir /\ pgtbls' = pgtbls /\ cr3' = cr3 /\ tlb' = tlb
      /\ stray' = stray /\ layout' = layout /\ pc' = pc /\ rsdt' = rsdt /\ i' = i
      /\ fadt' = fadt /\ armed' = armed
  BY DEF PageFault, acpiVars
<1>2. AcpiTypeOK'
  BY <1>1 DEF IInv, AcpiTypeOK, TypeOK
<1>3. M' \in Mem
  BY <1>2, MType DEF AcpiTypeOK, TypeOK, M, Mem
<1>4. /\ M'.dir = M.dir /\ M'.tbl = M.tbl /\ M'.stray = M.stray
  BY <1>1 DEF M
<1>5. Hurt(M)'
  <2>1. Hurt(M)
    BY DEF IInv
  <2>2. UnusedTables(M)' = UnusedTables(M)
    BY <1>4 DEF UnusedTables
  <2> QED BY <2>1, <2>2, <1>3, <1>4 DEF Hurt, KernelBig
<1>6. \A x : Walked(M, x)' = Walked(M, x)
  BY <1>4 DEF Walked
<1> QED BY <1>1, <1>2, <1>5, <1>6, LayoutKept DEF IInv

\* A step that only reads leaves the page tables as they are.
LEMMA ReadKeeps ==
    ASSUME IInv, UNCHANGED <<vars, layout, rsdt>>, pc # "paging", pc' # "paging",
           AcpiTypeOK', pc = "find" => pc' = "find",
           Fits =>
              \/ pc' = pc
              \/ pc \in {"header", "loop"} /\ pc' \in {"header", "loop", "done"}
    PROVE  IInv'
<1>1. /\ M' = M /\ cr3' = cr3 /\ stray' = stray /\ halted' = halted
      /\ layout' = layout /\ rsdt' = rsdt
  BY DEF vars, M
<1>2. FindRsdp' = FindRsdp /\ TwoPages' = TwoPages /\ Fits' = Fits
  BY <1>1, LayoutKept
<1>3. Fits => Clean'
  BY <1>1, <1>2 DEF IInv, Clean
<1> QED BY <1>1, <1>2, <1>3 DEF IInv

\* The memory an action writes is the next state's.
LEMMA BecomesM ==
    ASSUME NEW n \in Mem, Becomes(n)
    PROVE  /\ M' = n /\ cr3' = n.cr3 /\ stray' = n.stray /\ halted' = n.halted
           /\ TypeOK'
<1>1. /\ n.dir \in [Dirs -> Pde] /\ n.tbl \in [Tables -> [Pages -> Pte]]
      /\ n.cr3 \in {"entry", "pgdir"} /\ n.tlb \subseteq TlbRecord
      /\ n.stray \subseteq Frames /\ n.halted \in BOOLEAN
  BY DEF Mem
<1> QED BY <1>1 DEF Becomes, M, Mem, TypeOK

\* acpi_init is entered after paging_init, in a clean machine.
LEMMA AcpiStart == AcpiInit => IInv
<1> SUFFICES ASSUME AcpiInit PROVE IInv
  OBVIOUS
<1>1. TypeOK /\ cr3 = "entry" /\ stray = {} /\ ~halted
  BY InvInit DEF AcpiInit, Init, Inv
<1>2. layout \in Layouts /\ pc = "paging" /\ rsdt = NullFrame /\ i = 0 /\ fadt = {} /\ armed = FALSE
  BY DEF AcpiInit
<1>3. NullFrame \in Frames
  BY SizeAssumption, LayoutAssumption DEF NullFrame, Frames, Dirs, Pages
<1>4. Entries(layout.length) \in Nat
  BY <1>2, LayoutFacts
<1>5. Cardinality(fadt) <= 1
  BY <1>2, FS_EmptySet
<1>6. i \in 0 .. Entries(layout.length)
  BY <1>2, <1>4
<1>7. AcpiTypeOK
  BY <1>1, <1>2, <1>3, <1>5, <1>6 DEF AcpiTypeOK
<1> QED BY <1>1, <1>2, <1>7 DEF IInv, Clean

\* paging_init.
LEMMA BootKeeps == IInv /\ Boot => IInv'
<1> SUFFICES ASSUME IInv, Boot PROVE IInv'
  OBVIOUS
<1> DEFINE n == InitialMapping(M)
<1>1. /\ pc = "paging" /\ pc' = "find" /\ Becomes(n)
      /\ layout' = layout /\ rsdt' = rsdt /\ i' = i /\ fadt' = fadt /\ armed' = armed
  BY DEF Boot, At, PagingInit
<1>2. M \in Mem /\ M.stray = {} /\ ~M.halted
  BY <1>1, MType DEF IInv, AcpiTypeOK, M
<1>3. /\ Hurt(n) /\ Sound(n) /\ n.cr3 = "pgdir"
      /\ TableDirs(n) \subseteq {ApicDir}
      /\ \A x \in {IoApic, LApic} : Walked(n, x) = {x}
  BY <1>2, InitialHurt
<1> HIDE DEF n
<1>4. n \in Mem /\ n.stray = {} /\ ~n.halted
  BY <1>3 DEF Sound
<1>5. M' = n /\ cr3' = "pgdir" /\ stray' = {} /\ ~halted' /\ TypeOK'
  BY <1>1, <1>3, <1>4, BecomesM
<1>6. AcpiTypeOK'
  BY <1>1, <1>5 DEF IInv, AcpiTypeOK
<1>7. Clean'
  BY <1>1, <1>3, <1>5 DEF Clean
<1> QED BY <1>1, <1>3, <1>5, <1>6, <1>7 DEF IInv

\* acpi_find_rsdp.
LEMMA FindKeeps == IInv /\ Find => IInv'
<1> SUFFICES ASSUME IInv, Find PROVE IInv'
  OBVIOUS
<1>1. pc = "find"
  BY DEF Find, At
<1>2. CASE FindRsdp = {} /\ PageFault
  BY <1>1, <1>2, FaultKeeps DEF Fits
<1>3. CASE /\ \E f \in FindRsdp : rsdt' = f
           /\ pc' = "map1" /\ UNCHANGED <<vars, layout, i, fadt, armed>>
  <2>1. /\ M' = M /\ cr3' = cr3 /\ stray' = stray /\ halted' = halted
        /\ pgdir' = pgdir /\ pgtbls' = pgtbls /\ tlb' = tlb
        /\ layout' = layout /\ i' = i /\ fadt' = fadt /\ armed' = armed /\ pc' = "map1"
    BY <1>3 DEF vars, M
  <2>2. FindRsdp' = FindRsdp /\ TwoPages' = TwoPages /\ Fits' = Fits
    BY <2>1, LayoutKept
  <2>3. rsdt' \in FindRsdp /\ rsdt' \in Frames
    BY <1>3, LayoutFacts DEF IInv, AcpiTypeOK
  <2>4. AcpiTypeOK'
    BY <2>1, <2>3 DEF IInv, AcpiTypeOK, TypeOK
  <2>5. Fits => Clean'
    BY <2>1, <2>2, <1>1 DEF IInv, Clean
  <2> QED BY <2>1, <2>2, <2>3, <2>4, <2>5, <1>1 DEF IInv
<1> QED BY <1>2, <1>3 DEF Find

\* The two calls of paging_map_4kb.
LEMMA MapKeeps ==
    ASSUME IInv, NEW f, NEW from, NEW to, MapPage(f, from, to),
           \/ from = "map1" /\ to = "map2" /\ f = rsdt
           \/ from = "map2" /\ to = "header" /\ f = NextPage(rsdt)
    PROVE  IInv'
<1> DEFINE n == Map4kb(M, f, HighHalf(f), TRUE)
<1>1. /\ pc = from /\ pc' = to /\ Becomes(n)
      /\ layout' = layout /\ rsdt' = rsdt /\ i' = i /\ fadt' = fadt /\ armed' = armed
  BY DEF MapPage, At, VirtBase
<1>2. /\ rsdt \in FindRsdp /\ Hurt(M) /\ cr3 = "pgdir" /\ M.cr3 = "pgdir" /\ layout \in Layouts
      /\ pc # "paging" /\ pc' # "paging"
  BY <1>1 DEF IInv, AcpiTypeOK, M
<1>3. f \in TwoPages /\ f \in Frames /\ HighHalf(f) \in Lins
  BY <1>2, LayoutFacts, HighHalfFacts DEF TwoPages
<1>4. MappedSomewhere(M, n, f, HighHalf(f))
  BY <1>2, <1>3, Map4kbAnywhere
<1> HIDE DEF n
<1>5. Hurt(n)
  BY <1>2, <1>3, <1>4, HurtKept
<1>6. n \in Mem /\ n.cr3 = "pgdir"
  BY <1>2, <1>4 DEF MappedSomewhere
<1>7. M' = n /\ cr3' = "pgdir" /\ stray' = n.stray /\ halted' = n.halted /\ TypeOK'
  BY <1>1, <1>6, BecomesM
<1>8. AcpiTypeOK'
  BY <1>1, <1>7 DEF IInv, AcpiTypeOK
<1>9. FindRsdp' = FindRsdp /\ TwoPages' = TwoPages /\ Fits' = Fits
  BY <1>1, LayoutKept
<1>10. ASSUME ApicShadow \cap TwoPages = {}, NEW x \in {IoApic, LApic}
       PROVE  Walked(n, x) = {x}
  <2>1. Walked(M, x) = {x}
    BY <1>2, <1>10 DEF IInv
  <2>2. x \in Lins /\ x[1] = ApicDir
    BY LayoutAssumption DEF IoApic, LApic, Lins
  <2>3. x # HighHalf(f)
    BY <1>3, <1>10 DEF ApicShadow, IoApic, LApic
  <2>4. IsTable(M.dir[ApicDir]) /\ M.dir[ApicDir].base # NullFrame
    BY <1>2 DEF Hurt
  <2> QED BY <2>1, <2>2, <2>3, <2>4, <1>2, <1>3, <1>4, WalkKept
<1>11. ASSUME Fits
       PROVE  Clean'
  <2>1. Sound(M) /\ Clean
    BY <1>2, <1>11 DEF IInv, Clean
  <2>2. f[1] \notin KernelRegions
    BY <1>3, <1>11 DEF Fits
  <2>3. /\ IsFiniteSet(NeedTables) /\ Cardinality(NeedTables) <= NTables
        /\ TableDirs(M) \subseteq NeedTables /\ High(f[1]) \in NeedTables
    <3>1. TableDirs(M) \subseteq {ApicDir, High(rsdt[1])}
      BY <2>1, <1>1 DEF Clean
    <3>2. rsdt \in TwoPages
      BY <1>2 DEF TwoPages
    <3> QED BY <3>1, <3>2, <1>2, <1>3, <1>11, NeedTablesFacts DEF Fits
  <2>4. /\ Sound(n)
        /\ TableDirs(n) \subseteq TableDirs(M) \cup {High(f[1])}
        /\ \A x \in Lins : Walked(n, x) = IF x = HighHalf(f) THEN {f} ELSE Walked(M, x)
    BY <2>1, <2>2, <2>3, <1>2, <1>3, <1>11, CleanMap DEF n
  <2>5. Walked(n, HighHalf(f)) = {f}
    BY <2>4, <1>3
  <2>6. ~n.halted /\ n.stray = {}
    BY <2>4 DEF Sound
  <2>7. CASE from = "map1" /\ to = "map2" /\ f = rsdt
    <3>1. TableDirs(M) \subseteq {ApicDir}
      BY <2>1, <2>7, <1>1 DEF Clean
    <3> QED BY <2>4, <2>5, <2>6, <2>7, <3>1, <1>1, <1>7, <1>9 DEF Clean
  <2>8. CASE from = "map2" /\ to = "header" /\ f = NextPage(rsdt)
    <3>1. Walked(M, HighHalf(rsdt)) = {rsdt}
      BY <2>1, <2>8, <1>1 DEF Clean
    <3>2. rsdt \in Frames /\ HighHalf(rsdt) \in Lins
      BY <1>2, LayoutFacts, HighHalfFacts
    <3>3. Walked(n, HighHalf(rsdt)) = {rsdt}
      BY <2>4, <3>1, <3>2, <1>3, HighHalfFacts
    <3>4. \A g \in TwoPages : g = rsdt \/ g = f
      BY <2>8, <1>2, LayoutFacts DEF TwoPages
    <3>5. \A g \in TwoPages : Walked(n, HighHalf(g)) = {g}
      BY <2>5, <3>3, <3>4
    <3> QED BY <2>4, <2>6, <2>8, <3>5, <1>1, <1>7, <1>9 DEF Clean
  <2> QED BY <2>7, <2>8
<1> QED BY <1>1, <1>2, <1>5, <1>7, <1>8, <1>9, <1>10, <1>11 DEF IInv

\* rsdt->length.
LEMMA ReadHeaderKeeps == IInv /\ ReadHeader => IInv'
<1> SUFFICES ASSUME IInv, ReadHeader PROVE IInv'
  OBVIOUS
<1>1. pc = "header" /\ layout \in Layouts
  BY DEF ReadHeader, At, IInv, AcpiTypeOK
<1>2. CASE Sees(UnitFrame(0)) = {} /\ PageFault
  <2>1. layout.offset + 0 < 2 * PerPage
    BY <1>1, LayoutFacts, AcpiAssumption
  <2>2. ~Fits
    BY <2>1, <1>1, <1>2, UnitSeen
  <2> QED BY <2>2, <1>1, <1>2, FaultKeeps
<1>3. CASE pc' = "loop" /\ UNCHANGED <<vars, layout, rsdt, i, fadt, armed>>
  <2>1. AcpiTypeOK'
    BY <1>3 DEF IInv, AcpiTypeOK, TypeOK, vars
  <2> QED BY <2>1, <1>1, <1>3, ReadKeeps
<1> QED BY <1>2, <1>3 DEF ReadHeader

\* On a machine acpi_init is made for, the loop only reads entries the RSDT
\* has, and follows pointers to memory that is mapped.
LEMMA EntryReads ==
    ASSUME IInv, Fits, pc = "loop", i < Entries(layout.length)
    PROVE  /\ Sees(UnitFrame(Header + i)) # {}
           /\ \A f \in Pointers :
                 /\ f \in Frames /\ Sees(f) = {f}
                 /\ f = layout.fadt /\ layout.spans => Sees(NextPage(f)) # {}
<1>1. /\ layout \in Layouts /\ layout.length \in Header .. Header + 2
      /\ layout.offset + layout.length <= 2 * PerPage
      /\ \A k \in 0 .. 1 : Header + k < layout.length => Covered(layout.ptr[k])
      /\ layout.spans /\ InRsdt(layout.fadt) => Covered(NextPage(layout.fadt))
  BY DEF IInv, AcpiTypeOK, Fits
<1>2. /\ layout.offset \in 0 .. PerPage - 1 /\ layout.length \in 0 .. Word - 1
      /\ \A k \in 0 .. 1 : layout.ptr[k] \in Frames
  BY <1>1, LayoutFacts
<1>3. Entries(layout.length) = layout.length - Header
  <2>1. PICK x \in Nat : x = layout.length - Header /\ x < Word
    BY <1>1, <1>2, AcpiAssumption
  <2>2. x % Word = x
    BY <2>1, AcpiAssumption
  <2> QED BY <2>1, <2>2 DEF Entries
<1>4. i \in Nat
  BY <1>1, LayoutFacts DEF IInv, AcpiTypeOK
<1>5. i \in 0 .. 1 /\ Header + i < layout.length /\ Header + i \in Nat
  BY <1>1, <1>3, <1>4, AcpiAssumption
<1>6. layout.offset + (Header + i) < 2 * PerPage
  BY <1>1, <1>2, <1>5, AcpiAssumption
<1>7. Sees(UnitFrame(Header + i)) = {UnitFrame(Header + i)}
  BY <1>5, <1>6, UnitSeen
<1>8. Pointers = {layout.ptr[i]}
  BY <1>5, <1>7 DEF Pointers
<1>9. layout.ptr[i] \in Frames /\ Sees(layout.ptr[i]) = {layout.ptr[i]}
  BY <1>1, <1>2, <1>5, CoveredSeen
<1>10. ASSUME layout.ptr[i] = layout.fadt, layout.spans
       PROVE  Sees(NextPage(layout.fadt)) # {}
  <2>1. InRsdt(layout.fadt)
    BY <1>5, <1>10 DEF InRsdt
  <2>2. NextPage(layout.fadt) \in Frames
    BY <1>9, <1>10, PageAfterFacts
  <2> QED BY <2>1, <2>2, <1>1, <1>10, CoveredSeen
<1> QED BY <1>7, <1>8, <1>9, <1>10

\* One turn of the loop, init_acpi_power_button included.
LEMMA EntryKeeps == IInv /\ Entry => IInv'
<1> SUFFICES ASSUME IInv, Entry PROVE IInv'
  OBVIOUS
<1>1. pc = "loop" /\ i < Entries(layout.length) /\ layout \in Layouts
  BY DEF Entry, At, IInv, AcpiTypeOK
<1>2. CASE Sees(UnitFrame(Header + i)) = {} /\ PageFault
  BY <1>1, <1>2, EntryReads, FaultKeeps
<1>3. CASE \E f \in Pointers : Sees(f) = {} /\ PageFault
  <2>1. ~Fits
    BY <1>1, <1>3, EntryReads
  <2> QED BY <2>1, <1>1, <1>3, FaultKeeps
<1>4. i' = NextEntry(i) => i' \in 0 .. Entries(layout.length)
  <2>1. i \in 0 .. Entries(layout.length) /\ Entries(layout.length) \in Nat
    BY <1>1, LayoutFacts DEF IInv, AcpiTypeOK
  <2> QED BY <2>1, <1>1 DEF NextEntry
<1>5. CASE \E f \in Pointers : f = layout.fadt /\ InitPowerButton(f)
  <2>1. CASE \E f \in Pointers : f = layout.fadt /\ layout.spans /\ Sees(NextPage(f)) = {} /\ PageFault
    <3>1. ~Fits
      BY <1>1, <2>1, EntryReads
    <3> QED BY <3>1, <2>1, <1>1, FaultKeeps
  <2>2. CASE /\ fadt' = {layout.fadt} /\ i' = NextEntry(i)
             /\ \E fixed \in Fixed(layout.fadt) : armed' = (armed \/ fixed)
             /\ UNCHANGED <<vars, layout, pc, rsdt>>
    <3>1. layout.fadt \in Frames /\ Fixed(layout.fadt) \subseteq BOOLEAN
      BY <1>1, LayoutFacts DEF Fixed
    <3>2. fadt' \subseteq Frames /\ Cardinality(fadt') <= 1
      <4>1. Cardinality({layout.fadt}) = 1
        BY FS_Singleton
      <4> QED BY <2>2, <3>1, <4>1
    <3>3. armed' \in BOOLEAN
      BY <2>2, <3>1
    <3>4. AcpiTypeOK'
      BY <2>2, <3>2, <3>3, <1>4 DEF IInv, AcpiTypeOK, TypeOK, vars
    <3> QED BY <2>2, <3>4, <1>1, ReadKeeps
  <2> QED BY <1>5, <2>1, <2>2 DEF InitPowerButton
<1>6. CASE i' = NextEntry(i) /\ UNCHANGED <<vars, layout, pc, rsdt, fadt, armed>>
  <2>1. AcpiTypeOK'
    BY <1>4, <1>6 DEF IInv, AcpiTypeOK, TypeOK, vars
  <2> QED BY <2>1, <1>1, <1>6, ReadKeeps
<1> QED BY <1>2, <1>3, <1>5, <1>6 DEF Entry

\* The end of the loop.
LEMMA ReturnKeeps == IInv /\ Return => IInv'
<1> SUFFICES ASSUME IInv, Return PROVE IInv'
  OBVIOUS
<1>1. pc = "loop" /\ pc' = "done" /\ UNCHANGED <<vars, layout, rsdt, i, fadt, armed>>
  BY DEF Return, At
<1>2. AcpiTypeOK'
  BY <1>1 DEF IInv, AcpiTypeOK, TypeOK, vars
<1> QED BY <1>1, <1>2, ReadKeeps

\* A step that changes nothing.
LEMMA StutterKeeps == IInv /\ UNCHANGED allVars => IInv'
<1> SUFFICES ASSUME IInv, UNCHANGED allVars PROVE IInv'
  OBVIOUS
<1>1. UNCHANGED <<vars, layout, pc, rsdt, i, fadt, armed>>
  BY DEF allVars, acpiVars
<1>2. AcpiTypeOK'
  BY <1>1 DEF IInv, AcpiTypeOK, TypeOK, vars
<1>3. CASE pc = "paging"
  <2>1. cr3' = cr3 /\ stray' = stray /\ halted' = halted /\ Fits' = Fits /\ pc' = pc
    BY <1>1, LayoutKept DEF vars
  <2> QED BY <1>2, <1>3, <2>1 DEF IInv, Clean
<1>4. CASE pc # "paging"
  BY <1>1, <1>2, <1>4, ReadKeeps
<1> QED BY <1>3, <1>4

-----------------------------------------------------------------------------
(* The theorems.                                                           *)

\* The invariant holds throughout paging_init and acpi_init, for every size
\* of the page tables and of the pool, and wherever the tables of the firmware
\* are.
THEOREM AcpiInvariance == AcpiSpec => []IInv
<1>1. IInv /\ [AcpiNext]_allVars => IInv'
  <2> SUFFICES ASSUME IInv, [AcpiNext]_allVars PROVE IInv'
    OBVIOUS
  <2>1. CASE Boot
    BY <2>1, BootKeeps
  <2>2. CASE Find
    BY <2>2, FindKeeps
  <2>3. CASE MapPage(RsdtPage(1), "map1", "map2")
    BY <2>3, MapKeeps DEF RsdtPage
  <2>4. CASE MapPage(RsdtPage(2), "map2", "header")
    <3>1. RsdtPage(2) = NextPage(rsdt)
      BY DEF RsdtPage
    <3> QED BY <2>4, <3>1, MapKeeps
  <2>5. CASE ReadHeader
    BY <2>5, ReadHeaderKeeps
  <2>6. CASE Entry
    BY <2>6, EntryKeeps
  <2>7. CASE Return
    BY <2>7, ReturnKeeps
  <2>8. CASE Finished
    BY <2>8, StutterKeeps DEF Finished
  <2>9. CASE UNCHANGED allVars
    BY <2>9, StutterKeeps
  <2> QED BY <2>1, <2>2, <2>3, <2>4, <2>5, <2>6, <2>7, <2>8, <2>9 DEF AcpiNext, AcpiStep
<1> QED BY <1>1, AcpiStart, PTL DEF AcpiSpec

\* Directory, tables and acpi_init's own variables keep their types, whatever
\* addresses firmware hands to paging_map_4kb.
THEOREM AcpiTypeCorrect == AcpiSpec => []AcpiTypeOK
<1>1. IInv => AcpiTypeOK
  BY DEF IInv
<1> QED BY <1>1, AcpiInvariance, PTL

\* For a kernel of at most 4 MiB, mapped by the one 4 MiB page: wherever the
\* RSDT is, a page-table entry that misses the pool lands in physical page 0,
\* and the kernel and, unless the RSDT lies 3 GiB below them, the APICs stay
\* mapped.
THEOREM DamageStaysConfined ==
    ASSUME KernelEndWord = 0, KernelLast = 0
    PROVE  AcpiSpec => []DamageConfined
<1>1. ASSUME IInv
      PROVE  DamageConfined
  <2>1. stray \subseteq {NullFrame}
    <3>1. \A r \in KernelRegions : r = 0
      BY DEF KernelRegions
    <3>2. pc # "paging" => M.stray \subseteq {<<r, 0>> : r \in KernelRegions}
      BY <1>1 DEF IInv, Hurt
    <3>3. pc # "paging" => M.stray \subseteq {NullFrame}
      BY <3>1, <3>2 DEF NullFrame
    <3>4. M.stray = stray
      BY DEF M
    <3> QED BY <3>3, <3>4, <1>1 DEF IInv
  <2>2. ASSUME ApicShadow \cap TwoPages = {}, cr3 = "pgdir"
        PROVE  /\ \A r \in 0 .. KernelLast, p \in Pages : Linear(M, <<High(r), p>>) = {<<r, p>>}
               /\ \A p \in {IoApicPage, LApicPage} :
                     Linear(M, <<ApicDir, p>>) = {<<ApicDir, p>>}
    <3>1. /\ Hurt(M) /\ \A x \in {IoApic, LApic} : Walked(M, x) = {x}
          /\ \A x : Linear(M, x) = Walked(M, x)
      BY <1>1, <2>2 DEF IInv, Linear, M
    <3>2. ASSUME NEW r \in 0 .. KernelLast, NEW p \in Pages
          PROVE  Linear(M, <<High(r), p>>) = {<<r, p>>}
      <4>1. r \in KernelRegions /\ <<r, p>> \in Frames
        BY HighHalfFacts DEF KernelRegions, Frames
      <4>2. M \in Mem /\ KernelBig(M)
        BY <3>1 DEF Hurt
      <4>3. Walked(M, HighHalf(<<r, p>>)) = {<<r, p>>}
        BY <4>1, <4>2, KernelReached
      <4> QED BY <4>3, <3>1 DEF HighHalf
    <3> QED BY <3>1, <3>2 DEF IoApic, LApic
  <2> QED BY <2>1, <2>2 DEF DamageConfined, BootMappingsHold
<1> QED BY <1>1, AcpiInvariance, PTL

\* On the machines acpi_init is made for, whatever the size of the pool that
\* suffices for them, no page fault is taken and no entry misses the pool.
THEOREM SafeOnMachinesThatFit == AcpiSpec => []SafeIfFits
<1>1. IInv => SafeIfFits
  BY DEF IInv, Clean, SafeIfFits
<1> QED BY <1>1, AcpiInvariance, PTL

\* ... and its two calls of paging_map_4kb keep the preconditions paging.c
\* does not test.
THEOREM ContractRespected == AcpiSpec => RespectsContract
<1>1. ASSUME IInv, IInv', [AcpiNext]_allVars
      PROVE  [Fits => PagingInit \/ \E f \in TwoPages : PagingMap4kb(f, HighHalf(f))]_vars
  <2> SUFFICES ASSUME Fits, vars' # vars
               PROVE  PagingInit \/ \E f \in TwoPages : PagingMap4kb(f, HighHalf(f))
    OBVIOUS
  <2>0. Clean
    BY <1>1 DEF IInv
  <2>1. CASE Boot
    BY <2>1 DEF Boot
  <2>2. ASSUME NEW f, NEW from, NEW to, MapPage(f, from, to),
               \/ from = "map1" /\ f = rsdt
               \/ from = "map2" /\ f = NextPage(rsdt)
        PROVE  \E g \in TwoPages : PagingMap4kb(g, HighHalf(g))
    <3>1. pc = from /\ ~halted /\ Becomes(Map4kb(M, f, HighHalf(f), TRUE))
      BY <2>2 DEF MapPage, At, VirtBase
    <3>2. /\ Hurt(M) /\ Sound(M) /\ cr3 = "pgdir" /\ layout \in Layouts /\ rsdt \in FindRsdp
          /\ TableDirs(M) \subseteq {ApicDir, High(rsdt[1])} /\ M.dir = pgdir
      BY <1>1, <2>0, <2>2, <3>1 DEF IInv, AcpiTypeOK, Clean, M
    <3>3. f \in TwoPages /\ f \in Frames
      BY <2>2, <3>2, LayoutFacts DEF TwoPages
    <3>4. f[1] \notin KernelRegions /\ f \notin ApicShadow
      BY <3>3 DEF Fits
    <3>5. Mappable(M, HighHalf(f))
      <4>1. /\ IsFiniteSet(NeedTables) /\ Cardinality(NeedTables) <= NTables
            /\ TableDirs(M) \subseteq NeedTables /\ High(f[1]) \in NeedTables
        BY <3>2, <3>3, NeedTablesFacts DEF Fits, TwoPages
      <4> QED BY <3>2, <3>3, <3>4, <4>1, CleanMap
    <3>6. MayMap4kb(HighHalf(f))
      BY <3>2, <3>3, <3>4, <3>5 DEF MayMap4kb, Mappable, ApicShadow
    <3> QED BY <3>1, <3>3, <3>6 DEF PagingMap4kb
  <2>3. CASE MapPage(RsdtPage(1), "map1", "map2") \/ MapPage(RsdtPage(2), "map2", "header")
    <3>1. RsdtPage(1) = rsdt /\ RsdtPage(2) = NextPage(rsdt)
      BY DEF RsdtPage
    <3> QED BY <2>2, <2>3, <3>1
  <2>4. layout' = layout => ~PageFault
    BY <1>1, LayoutKept DEF IInv, Clean, PageFault
  <2>5. ~PageFault
    BY <2>4 DEF PageFault, acpiVars
  <2>6. CASE Find \/ ReadHeader \/ Entry \/ Return \/ Finished \/ UNCHANGED allVars
    BY <2>5, <2>6 DEF Find, ReadHeader, Entry, InitPowerButton, Return, Finished, allVars
  <2> QED BY <1>1, <2>1, <2>3, <2>6 DEF AcpiNext, AcpiStep
<1> QED BY <1>1, AcpiInvariance, PTL DEF AcpiSpec, RespectsContract

-----------------------------------------------------------------------------
(* What the search has found.                                              *)

\* The FADT is among the first n entries of the RSDT.
Listed(n) ==
    \E k \in 0 .. 1 : k < n /\ Header + k < layout.length /\ layout.ptr[k] = layout.fadt

\* On a machine acpi_init is made for, global_fadt and the power button say
\* what the entries read so far hold, and the search ends with the last one.
SearchedSoFar ==
    Fits => /\ pc \in {"paging", "find", "map1", "map2", "header"} => i = 0
            /\ pc = "done" => i >= Entries(layout.length)
            /\ armed <=> layout.fixed /\ Listed(i)
            /\ fadt = IF Listed(i) THEN {layout.fadt} ELSE {}

\* With an RSDT that ends in two pages, the unsigned difference is the number
\* of its entries.
LEMMA EntriesCounted ==
    ASSUME layout \in Layouts, Fits
    PROVE  Entries(layout.length) = layout.length - Header
<1>1. layout.length \in Header .. Header + 2 /\ layout.length \in 0 .. Word - 1
  BY LayoutFacts DEF Fits
<1>2. PICK x \in Nat : x = layout.length - Header /\ x < Word
  BY <1>1, AcpiAssumption
<1>3. x % Word = x
  BY <1>2, AcpiAssumption
<1> QED BY <1>2, <1>3 DEF Entries

\* One turn of the loop takes the next entry into account: an entry that is
\* the FADT arms the power button as the flag in memory says, another one
\* changes nothing.
LEMMA EntrySearches ==
    ASSUME IInv, Fits, SearchedSoFar, Entry
    PROVE  SearchedSoFar'
<1>1. /\ pc = "loop" /\ i < Entries(layout.length) /\ layout \in Layouts
      /\ i \in 0 .. Entries(layout.length) /\ armed \in BOOLEAN
  BY DEF Entry, At, IInv, AcpiTypeOK
<1>2. /\ layout.length \in Header .. Header + 2 /\ layout.fadt \in Frames
      /\ layout.fixed \in BOOLEAN /\ layout.spans \in BOOLEAN
  BY <1>1, LayoutFacts DEF Fits
<1>3. i \in 0 .. 1 /\ Header + i < layout.length
  BY <1>1, <1>2, EntriesCounted, AcpiAssumption
<1>4. /\ Sees(UnitFrame(Header + i)) = {UnitFrame(Header + i)}
      /\ Pointers = {layout.ptr[i]} /\ Sees(layout.ptr[i]) = {layout.ptr[i]}
  <2>1. layout.offset \in 0 .. PerPage - 1 /\ layout.offset + layout.length <= 2 * PerPage
    BY <1>1, LayoutFacts DEF Fits
  <2>2. Header + i \in Nat /\ layout.offset + (Header + i) < 2 * PerPage
    BY <1>2, <1>3, <2>1, AcpiAssumption
  <2>3. Sees(UnitFrame(Header + i)) = {UnitFrame(Header + i)}
    BY <1>1, <2>2, UnitSeen
  <2>4. Pointers = {layout.ptr[i]}
    BY <1>3, <2>3 DEF Pointers
  <2> QED BY <1>1, <2>3, <2>4, EntryReads
<1>5. Listed(i + 1) <=> Listed(i) \/ layout.ptr[i] = layout.fadt
  BY <1>3 DEF Listed
<1>6. layout' = layout /\ pc' = pc /\ i' = i + 1 => /\ Fits' /\ pc' = "loop"
                                                    /\ Listed(i)' <=> Listed(i + 1)
  BY <1>1, LayoutKept DEF Listed
<1>7. ~(Sees(layout.ptr[i]) = {}) /\ ~(Sees(UnitFrame(Header + i)) = {})
  BY <1>4
<1>8. CASE layout.ptr[i] = layout.fadt
  <2>1. InitPowerButton(layout.fadt)
    BY <1>4, <1>7, <1>8 DEF Entry
  <2>2. layout.spans => Sees(NextPage(layout.fadt)) = {NextPage(layout.fadt)}
    <3>1. InRsdt(layout.fadt)
      BY <1>3, <1>8 DEF InRsdt
    <3>2. layout.spans => Covered(NextPage(layout.fadt))
      BY <3>1 DEF Fits
    <3> QED BY <3>2, <1>1, <1>2, CoveredSeen, PageAfterFacts
  <2>3. Fixed(layout.fadt) = {layout.fixed}
    BY <2>2 DEF Fixed
  <2>4. /\ fadt' = {layout.fadt} /\ i' = i + 1 /\ armed' = (armed \/ layout.fixed)
        /\ layout' = layout /\ pc' = pc
    BY <2>1, <2>2, <2>3 DEF InitPowerButton, NextEntry
  <2>5. Listed(i)' /\ Fits' /\ pc' = "loop" /\ layout'.fixed = layout.fixed
    BY <2>4, <1>5, <1>6, <1>8
  <2>6. armed' <=> layout.fixed
    BY <2>4, <1>1, <1>2 DEF SearchedSoFar
  <2> QED BY <2>4, <2>5, <2>6 DEF SearchedSoFar
<1>9. CASE layout.ptr[i] # layout.fadt
  <2>1. i' = i + 1 /\ layout' = layout /\ pc' = pc /\ fadt' = fadt /\ armed' = armed
    BY <1>4, <1>7, <1>9 DEF Entry, NextEntry
  <2>2. (Listed(i)' <=> Listed(i)) /\ Fits' /\ pc' = "loop"
    BY <2>1, <1>5, <1>6, <1>9
  <2> QED BY <2>1, <2>2 DEF SearchedSoFar
<1> QED BY <1>8, <1>9

\* The steps before and after the loop read no entry.
LEMMA RestSearches ==
    ASSUME SearchedSoFar, layout' = layout, i' = i, fadt' = fadt, armed' = armed,
           \/ pc' = pc
           \/ pc' \in {"find", "map1", "map2", "header"}
              /\ pc \in {"paging", "find", "map1", "map2"}
           \/ pc = "header" /\ pc' = "loop"
           \/ pc = "loop" /\ pc' = "done" /\ i >= Entries(layout.length)
    PROVE  SearchedSoFar'
<1>1. Fits' = Fits
  BY LayoutKept
<1>2. Listed(i)' <=> Listed(i)
  BY DEF Listed
<1>3. Entries(layout.length)' = Entries(layout.length)
  BY DEF Entries
<1>4. ASSUME Fits
      PROVE  /\ pc' \in {"paging", "find", "map1", "map2", "header"} => i' = 0
             /\ pc' = "done" => i' >= Entries(layout.length)
             /\ armed' <=> layout.fixed /\ Listed(i)'
             /\ fadt' = IF Listed(i)' THEN {layout.fadt} ELSE {}
  BY <1>2, <1>4 DEF SearchedSoFar
<1> QED BY <1>1, <1>3, <1>4 DEF SearchedSoFar

\* The search of acpi_init is right: on a machine it is made for, when the
\* loop has ended global_fadt is the FADT exactly when the RSDT lists one, and
\* the power button is armed exactly when moreover it is a fixed feature.
THEOREM SearchIsRight ==
    AcpiSpec => [](Fits /\ pc = "done" =>
                      /\ armed = (layout.fixed /\ InRsdt(layout.fadt))
                      /\ fadt = IF InRsdt(layout.fadt) THEN {layout.fadt} ELSE {})
<1>1. AcpiInit => SearchedSoFar
  <2> SUFFICES ASSUME AcpiInit PROVE SearchedSoFar
    OBVIOUS
  <2>1. pc = "paging" /\ i = 0 /\ fadt = {} /\ armed = FALSE
    BY DEF AcpiInit
  <2>2. ~Listed(0)
    BY DEF Listed
  <2> QED BY <2>1, <2>2 DEF SearchedSoFar
<1>2. IInv /\ SearchedSoFar /\ [AcpiNext]_allVars => SearchedSoFar'
  <2> SUFFICES ASSUME IInv, SearchedSoFar, [AcpiNext]_allVars PROVE SearchedSoFar'
    OBVIOUS
  <2>1. CASE PageFault \/ Finished \/ UNCHANGED allVars
    BY <2>1, RestSearches DEF PageFault, Finished, allVars, acpiVars
  <2>2. CASE Boot
    BY <2>2, RestSearches DEF Boot, At
  <2>3. CASE Find
    BY <2>1, <2>3, RestSearches DEF Find, At
  <2>4. CASE MapPage(RsdtPage(1), "map1", "map2") \/ MapPage(RsdtPage(2), "map2", "header")
    BY <2>4, RestSearches DEF MapPage, At
  <2>5. CASE ReadHeader
    BY <2>1, <2>5, RestSearches DEF ReadHeader, At
  <2>6. CASE Return
    BY <2>6, RestSearches DEF Return, At
  <2>7. CASE Entry
    <3>1. CASE Fits
      BY <2>7, <3>1, EntrySearches
    <3>2. CASE ~Fits
      <4>1. layout' = layout
        BY <2>7 DEF Entry, InitPowerButton, PageFault, acpiVars
      <4> QED BY <3>2, <4>1, LayoutKept DEF SearchedSoFar
    <3> QED BY <3>1, <3>2
  <2> QED BY <2>1, <2>2, <2>3, <2>4, <2>5, <2>6, <2>7 DEF AcpiNext, AcpiStep
<1>3. ASSUME IInv, SearchedSoFar, Fits, pc = "done"
      PROVE  /\ armed = (layout.fixed /\ InRsdt(layout.fadt))
             /\ fadt = IF InRsdt(layout.fadt) THEN {layout.fadt} ELSE {}
  <2>1. /\ layout \in Layouts /\ i \in 0 .. Entries(layout.length) /\ armed \in BOOLEAN
        /\ i >= Entries(layout.length) /\ layout.length \in Header .. Header + 2
    BY <1>3 DEF IInv, AcpiTypeOK, SearchedSoFar, Fits
  <2>2. i = layout.length - Header
    BY <2>1, <1>3, EntriesCounted, AcpiAssumption
  <2>3. \A k \in 0 .. 1 : Header + k < layout.length <=> k < i
    BY <2>1, <2>2, AcpiAssumption
  <2>4. InRsdt(layout.fadt) <=> Listed(i)
    BY <2>3 DEF InRsdt, Listed
  <2>5. armed <=> layout.fixed /\ InRsdt(layout.fadt)
    BY <1>3, <2>4 DEF SearchedSoFar
  <2>6. armed = (layout.fixed /\ InRsdt(layout.fadt))
    BY <2>1, <2>5
  <2>7. fadt = IF InRsdt(layout.fadt) THEN {layout.fadt} ELSE {}
    BY <1>3, <2>4 DEF SearchedSoFar
  <2> QED BY <2>6, <2>7
<1> QED BY <1>1, <1>2, <1>3, AcpiInvariance, PTL DEF AcpiSpec

=============================================================================
