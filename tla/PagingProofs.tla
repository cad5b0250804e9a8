---------------------------- MODULE PagingProofs ----------------------------
EXTENDS Paging, WellFoundedInduction, TLAPS

-----------------------------------------------------------------------------
(* The record on which the code works, its type and its invariant.         *)

Mem == [dir : [Dirs -> Pde], tbl : [Tables -> [Pages -> Pte]],
        cr3 : {"entry", "pgdir"}, tlb : SUBSET TlbRecord,
        stray : SUBSET Frames, halted : BOOLEAN]

KernelDirs == VmaDir .. VmaDir + KernelEndWord

KernelBig(m) ==
    \A d \in KernelDirs :
        m.dir[d] = [present |-> TRUE, size |-> TRUE, base |-> <<d - VmaDir, 0>>]

\* What every map call needs and preserves.
Sound(m) == m \in Mem /\ PoolOwned(m) /\ KernelBig(m) /\ m.stray = {} /\ ~m.halted

\* A nonempty set of tables has a first one: the scan of paging_get_page_table
\* ends at an element of the set it looks for.
LEMMA FirstOfIn ==
    ASSUME NEW S, S \subseteq Tables, S # {}
    PROVE  FirstOf(S) \in S
<1> DEFINE Less == {ss \in Nat \X Nat : ss[1] < ss[2]}
<1>1. IsWellFoundedOn(Less, Nat)
  BY NatLessThanWellFounded DEF OpToRel
<1>2. S \subseteq Nat
  BY SizeAssumption DEF Tables
<1> HIDE DEF Less
<1>3. PICK x \in S : \A y \in S : ~ (<<y, x>> \in Less)
  BY <1>1, <1>2, WFMin
<1>4. ASSUME NEW y \in S
      PROVE  x <= y
  <2>1. x \in Nat /\ y \in Nat
    BY <1>2
  <2>2. <<y, x>> \notin Less
    BY <1>3
  <2> QED BY <2>1, <2>2 DEF Less
<1> QED BY <1>4 DEF FirstOf

\* The frames of two tables are the same only for the same table, and they
\* are reached at their high-half address.
LEMMA TableFrameFacts ==
    /\ \A t \in Tables : TableFrame(t) \in Frames
    /\ \A t, u \in Tables : TableFrame(t) = TableFrame(u) => t = u
    /\ \A t \in Tables : HighHalf(TableFrame(t)) = <<VmaDir, FirstTablePage + t>>
    /\ \A t \in Tables : HighHalf(TableFrame(t)) \in Lins
  BY SizeAssumption, LayoutAssumption
     DEF Tables, Frames, Lins, Dirs, Pages, TableFrame, HighHalf, High

\* A table of the pool is always accessed in its own frame, under either
\* directory.
LEMMA TableReached ==
    ASSUME NEW m \in Mem, KernelBig(m), NEW t \in Tables
    PROVE  Linear(m, HighHalf(TableFrame(t))) = {TableFrame(t)}
<1>1. HighHalf(TableFrame(t)) = <<VmaDir, FirstTablePage + t>>
  BY TableFrameFacts
<1>2. VmaDir \in KernelDirs
  BY SizeAssumption DEF KernelDirs
<1>3. m.dir[VmaDir] = [present |-> TRUE, size |-> TRUE, base |-> <<VmaDir - VmaDir, 0>>]
  BY <1>2 DEF KernelBig
<1>4. Walked(m, <<VmaDir, FirstTablePage + t>>) = {<<0, FirstTablePage + t>>}
  BY <1>3, SizeAssumption DEF Walked
<1>5. EntryFrame(<<VmaDir, FirstTablePage + t>>) = <<0, FirstTablePage + t>>
  BY SizeAssumption DEF EntryFrame
<1> QED BY <1>1, <1>4, <1>5 DEF Linear, TableFrame

TablePde(t) == [present |-> TRUE, size |-> FALSE, base |-> TableFrame(t)]
PagePte(phy) == [present |-> TRUE, base |-> phy]

\* The contract of paging_map_4kb on the record m.
Mappable(m, lin) ==
    IF m.dir[lin[1]].present THEN ~m.dir[lin[1]].size ELSE UnusedTables(m) # {}

\* Table t is the one a contract-abiding call works on: the table the entry
\* references, or an unused one.
WorksOn(m, lin, t) ==
    IF m.dir[lin[1]].present THEN m.dir[lin[1]] = TablePde(t)
    ELSE t \in UnusedTables(m)

\* n differs from m in exactly the entries a contract-abiding call stores.
MappedIn(m, n, phy, lin, t) ==
    /\ n \in Mem
    /\ n.dir = [m.dir EXCEPT ![lin[1]] = TablePde(t)]
    /\ n.tbl = [m.tbl EXCEPT ![t] = [m.tbl[t] EXCEPT ![lin[2]] = PagePte(phy)]]
    /\ n.cr3 = m.cr3
    /\ n.tlb = Invlpg(m.tlb, lin)
    /\ n.stray = m.stray /\ n.halted = m.halted

\* A directory entry with PRESENT set and SIZE clear is the entry of its table.
LEMMA TablePdeShape ==
    ASSUME NEW e \in Pde, e.present, ~e.size, NEW t \in Tables, e.base = TableFrame(t)
    PROVE  e = TablePde(t)
  BY DEF Pde, TablePde

\* StorePte on a table of the pool stores that one entry.
LEMMA StorePteEffect ==
    ASSUME NEW m \in Mem, KernelBig(m), NEW t \in Tables, NEW p \in Pages, NEW pte \in Pte
    PROVE  LET n == StorePte(m, TableFrame(t), p, pte)
           IN  /\ n \in Mem
               /\ n.dir = m.dir
               /\ n.tbl = [m.tbl EXCEPT ![t] = [m.tbl[t] EXCEPT ![p] = pte]]
               /\ n.cr3 = m.cr3 /\ n.tlb = m.tlb
               /\ n.stray = m.stray /\ n.halted = m.halted
<1> DEFINE hit == Linear(m, HighHalf(TableFrame(t)))
           newtbl == [u \in Tables |-> IF TableFrame(u) \in hit
                        THEN [m.tbl[u] EXCEPT ![p] = pte] ELSE m.tbl[u]]
           n == StorePte(m, TableFrame(t), p, pte)
<1>1. hit = {TableFrame(t)}
  BY TableReached
<1>2. n = [m EXCEPT !.tbl = newtbl,
                    !.stray = @ \cup (hit \ {TableFrame(u) : u \in Tables}),
                    !.halted = @ \/ hit = {}]
  BY DEF StorePte
<1> HIDE DEF hit
<1>3. newtbl = [m.tbl EXCEPT ![t] = [m.tbl[t] EXCEPT ![p] = pte]]
  BY <1>1, TableFrameFacts DEF Mem
<1>4. newtbl \in [Tables -> [Pages -> Pte]]
  BY DEF Mem
<1>5. m.stray \cup (hit \ {TableFrame(u) : u \in Tables}) = m.stray
  BY <1>1
<1>6. (m.halted \/ hit = {}) = m.halted
  BY <1>1 DEF Mem
<1> HIDE DEF newtbl, n
<1>7. n = [m EXCEPT !.tbl = newtbl, !.stray = m.stray, !.halted = m.halted]
  BY <1>2, <1>5, <1>6 DEF Mem
<1>8. /\ n \in Mem /\ n.dir = m.dir /\ n.tbl = newtbl /\ n.cr3 = m.cr3
      /\ n.tlb = m.tlb /\ n.stray = m.stray /\ n.halted = m.halted
  BY <1>4, <1>7 DEF Mem
<1> QED BY <1>3, <1>8 DEF n

\* The table a contract-abiding call of paging_map_4kb works on exists.
LEMMA WorksOnSome ==
    ASSUME NEW m, Sound(m), NEW lin \in Lins, Mappable(m, lin)
    PROVE  \E t \in Tables :
              /\ WorksOn(m, lin, t)
              /\ TableFrame(t) = IF m.dir[lin[1]].present THEN m.dir[lin[1]].base
                                 ELSE GetPageTable(m)
<1> DEFINE e == m.dir[lin[1]]
<1>0. lin[1] \in Dirs /\ e \in Pde
  BY DEF Lins, Sound, Mem
<1>1. CASE e.present
  <2>1. ~e.size
    BY <1>1 DEF Mappable
  <2>2. PICK t \in Tables : e.base = TableFrame(t)
    BY <1>0, <1>1, <2>1 DEF Sound, PoolOwned, IsTable
  <2>3. e = TablePde(t)
    BY <1>0, <1>1, <2>1, <2>2, TablePdeShape
  <2> QED BY <1>1, <2>2, <2>3 DEF WorksOn
<1>2. CASE ~e.present
  <2>1. UnusedTables(m) # {} /\ UnusedTables(m) \subseteq Tables
    BY <1>2 DEF Mappable, UnusedTables
  <2>2. FirstOf(UnusedTables(m)) \in UnusedTables(m)
    BY <2>1, FirstOfIn
  <2>3. GetPageTable(m) = TableFrame(FirstOf(UnusedTables(m)))
    BY <2>1 DEF GetPageTable
  <2> QED BY <1>2, <2>1, <2>2, <2>3 DEF WorksOn
<1> QED BY <1>1, <1>2

\* paging_map_4kb, called within its contract, changes one directory entry
\* and one entry of the table it works on.
LEMMA Map4kbEffect ==
    ASSUME NEW m, Sound(m), NEW phy \in Frames, NEW lin \in Lins, Mappable(m, lin)
    PROVE  \E t \in Tables :
              WorksOn(m, lin, t) /\ MappedIn(m, Map4kb(m, phy, lin, TRUE), phy, lin, t)
<1> DEFINE e == m.dir[lin[1]]
           table == IF e.present THEN e.base ELSE GetPageTable(m)
           m1 == IF e.present THEN m
                 ELSE [m EXCEPT !.dir[lin[1]] =
                          [present |-> TRUE, size |-> FALSE, base |-> table]]
<1>0. m \in Mem /\ lin[1] \in Dirs /\ lin[2] \in Pages /\ e \in Pde
  BY DEF Lins, Sound, Mem
<1>1. PICK t \in Tables : WorksOn(m, lin, t) /\ TableFrame(t) = table
  BY WorksOnSome
<1>2. TablePde(t) \in Pde /\ PagePte(phy) \in Pte
  BY TableFrameFacts DEF TablePde, PagePte, Pde, Pte
<1>3. /\ m1 \in Mem
      /\ m1.dir = [m.dir EXCEPT ![lin[1]] = TablePde(t)]
      /\ m1.tbl = m.tbl /\ m1.cr3 = m.cr3 /\ m1.tlb = m.tlb
      /\ m1.stray = m.stray /\ m1.halted = m.halted
  <2>1. CASE e.present
    <3>1. e = TablePde(t)
      BY <2>1, <1>1 DEF WorksOn
    <3>2. m.dir = [m.dir EXCEPT ![lin[1]] = TablePde(t)]
      BY <3>1, <1>0 DEF Mem
    <3> QED BY <2>1, <3>2, <1>0
  <2>2. CASE ~e.present
    <3>1. m1 = [m EXCEPT !.dir = [m.dir EXCEPT ![lin[1]] = TablePde(t)]]
      BY <2>2, <1>0, <1>1 DEF TablePde, Mem
    <3> HIDE DEF m1
    <3> QED BY <3>1, <1>0, <1>2 DEF Mem
  <2> QED BY <2>1, <2>2
<1>4. KernelBig(m1)
  <2> SUFFICES ASSUME NEW d \in KernelDirs
               PROVE  m1.dir[d] = [present |-> TRUE, size |-> TRUE, base |-> <<d - VmaDir, 0>>]
    BY DEF KernelBig
  <2>1. d \in Dirs
    BY SizeAssumption, LayoutAssumption DEF KernelDirs, Dirs
  <2>2. m.dir[d] = [present |-> TRUE, size |-> TRUE, base |-> <<d - VmaDir, 0>>]
    BY DEF Sound, KernelBig
  <2>3. d # lin[1] \/ m.dir[d] = TablePde(t)
    BY <2>2, <1>1 DEF WorksOn, Mappable
  <2>4. m.dir[d] # TablePde(t)
    BY <2>2 DEF TablePde
  <2> HIDE DEF m1
  <2> QED BY <1>0, <1>3, <2>1, <2>2, <2>3, <2>4 DEF Mem
<1> DEFINE n == StorePte(m1, TableFrame(t), lin[2], PagePte(phy))
<1>5. Map4kb(m, phy, lin, TRUE) = [n EXCEPT !.tlb = Invlpg(@, lin)]
  BY <1>1 DEF Map4kb, PagePte
<1> HIDE DEF m1
<1>6. /\ n \in Mem
      /\ n.dir = m1.dir
      /\ n.tbl = [m1.tbl EXCEPT ![t] = [m1.tbl[t] EXCEPT ![lin[2]] = PagePte(phy)]]
      /\ n.cr3 = m1.cr3 /\ n.tlb = m1.tlb
      /\ n.stray = m1.stray /\ n.halted = m1.halted
  BY <1>0, <1>2, <1>3, <1>4, StorePteEffect
<1> HIDE DEF n
<1>7. Invlpg(m.tlb, lin) \in SUBSET TlbRecord
  BY <1>0 DEF Mem, Invlpg
<1>8. MappedIn(m, [n EXCEPT !.tlb = Invlpg(@, lin)], phy, lin, t)
  BY <1>3, <1>6, <1>7 DEF MappedIn, Mem
<1> QED BY <1>1, <1>5, <1>8

\* A call within its contract keeps the pool's ownership and the kernel's own
\* 4 MiB pages.
LEMMA MappedSound ==
    ASSUME NEW m, Sound(m), NEW phy \in Frames, NEW lin \in Lins,
           NEW t \in Tables, WorksOn(m, lin, t), NEW n, MappedIn(m, n, phy, lin, t)
    PROVE  Sound(n)
<1>0. /\ m \in Mem /\ n \in Mem /\ lin[1] \in Dirs /\ lin[2] \in Pages
      /\ m.dir \in [Dirs -> Pde] /\ m.tbl \in [Tables -> [Pages -> Pte]]
  BY DEF Lins, Sound, Mem, MappedIn
<1>1. \A d \in Dirs : n.dir[d] = IF d = lin[1] THEN TablePde(t) ELSE m.dir[d]
  BY <1>0 DEF MappedIn
<1>2. \A u \in Tables, p \in Pages :
         n.tbl[u][p] = IF u = t /\ p = lin[2] THEN PagePte(phy) ELSE m.tbl[u][p]
  BY <1>0 DEF MappedIn
<1>3. IsTable(TablePde(t)) /\ TablePde(t).base = TableFrame(t) /\ PagePte(phy).present
  BY DEF IsTable, TablePde, PagePte
\* No other directory entry references t.
<1>4. \A d \in Dirs : d # lin[1] /\ IsTable(m.dir[d]) => m.dir[d].base # TableFrame(t)
  <2>1. CASE m.dir[lin[1]].present
    BY <2>1, <1>0, <1>3 DEF WorksOn, Sound, PoolOwned
  <2>2. CASE ~m.dir[lin[1]].present
    <3>1. \A p \in Pages : ~m.tbl[t][p].present
      BY <2>2 DEF WorksOn, UnusedTables
    <3> QED BY <3>1 DEF Sound, PoolOwned
  <2> QED BY <2>1, <2>2
\* The entry that is replaced referenced t or nothing.
<1>5. IsTable(m.dir[lin[1]]) => m.dir[lin[1]].base = TableFrame(t)
  BY <1>3 DEF WorksOn, IsTable
<1>6. PoolOwned(n)
  <2>1. \A d \in Dirs : IsTable(n.dir[d]) => \E u \in Tables : n.dir[d].base = TableFrame(u)
    BY <1>1, <1>3 DEF Sound, PoolOwned
  <2>2. \A d, c \in Dirs :
           IsTable(n.dir[d]) /\ IsTable(n.dir[c]) /\ n.dir[d].base = n.dir[c].base => d = c
    <3> SUFFICES ASSUME NEW d \in Dirs, NEW c \in Dirs, IsTable(n.dir[d]),
                        IsTable(n.dir[c]), n.dir[d].base = n.dir[c].base, d # c
                 PROVE  FALSE
      OBVIOUS
    <3>1. CASE d # lin[1] /\ c # lin[1]
      BY <3>1, <1>1 DEF Sound, PoolOwned
    <3>2. CASE d = lin[1]
      BY <3>2, <1>1, <1>3, <1>4
    <3>3. CASE c = lin[1]
      BY <3>3, <1>1, <1>3, <1>4
    <3> QED BY <3>1, <3>2, <3>3
  <2>3. ASSUME NEW u \in Tables
        PROVE  (\E p \in Pages : n.tbl[u][p].present)
                  <=> \E d \in Dirs : IsTable(n.dir[d]) /\ n.dir[d].base = TableFrame(u)
    <3>1. CASE u = t
      BY <3>1, <1>0, <1>1, <1>2, <1>3
    <3>2. CASE u # t
      <4>1. TableFrame(u) # TableFrame(t)
        BY <3>2, TableFrameFacts
      <4>2. (\E p \in Pages : n.tbl[u][p].present) <=> (\E p \in Pages : m.tbl[u][p].present)
        BY <3>2, <1>2
      <4>3. (\E d \in Dirs : IsTable(n.dir[d]) /\ n.dir[d].base = TableFrame(u))
              <=> (\E d \in Dirs : IsTable(m.dir[d]) /\ m.dir[d].base = TableFrame(u))
        BY <4>1, <1>1, <1>3, <1>5
      <4> QED BY <4>2, <4>3 DEF Sound, PoolOwned
    <3> QED BY <3>1, <3>2
  <2> QED BY <2>1, <2>2, <2>3 DEF PoolOwned
<1>7. KernelBig(n)
  <2> SUFFICES ASSUME NEW d \in KernelDirs
               PROVE  n.dir[d] = [present |-> TRUE, size |-> TRUE, base |-> <<d - VmaDir, 0>>]
    BY DEF KernelBig
  <2>1. d \in Dirs
    BY SizeAssumption, LayoutAssumption DEF KernelDirs, Dirs
  <2>2. m.dir[d] = [present |-> TRUE, size |-> TRUE, base |-> <<d - VmaDir, 0>>]
    BY DEF Sound, KernelBig
  <2>3. d # lin[1]
    BY <2>2 DEF WorksOn, TablePde
  <2> QED BY <1>1, <2>1, <2>2, <2>3
<1> QED BY <1>0, <1>6, <1>7 DEF Sound, MappedIn

\* ... and changes the translation of its own page only.
LEMMA MappedWalk ==
    ASSUME NEW m, Sound(m), NEW phy \in Frames, NEW lin \in Lins,
           NEW t \in Tables, WorksOn(m, lin, t), NEW n, MappedIn(m, n, phy, lin, t),
           NEW x \in Lins
    PROVE  Walked(n, x) = IF x = lin THEN {phy} ELSE Walked(m, x)
<1>0. /\ m \in Mem /\ n \in Mem /\ lin[1] \in Dirs /\ lin[2] \in Pages
      /\ x[1] \in Dirs /\ x[2] \in Pages /\ (x = lin <=> x[1] = lin[1] /\ x[2] = lin[2])
      /\ m.dir \in [Dirs -> Pde] /\ m.tbl \in [Tables -> [Pages -> Pte]]
  BY DEF Lins, Sound, Mem, MappedIn
<1>1. n.dir[x[1]] = IF x[1] = lin[1] THEN TablePde(t) ELSE m.dir[x[1]]
  BY <1>0 DEF MappedIn
<1>2. \A u \in Tables, p \in Pages :
         n.tbl[u][p] = IF u = t /\ p = lin[2] THEN PagePte(phy) ELSE m.tbl[u][p]
  BY <1>0 DEF MappedIn
<1>3. TablePde(t).present /\ ~TablePde(t).size /\ TablePde(t).base = TableFrame(t)
  BY DEF TablePde
<1>4. CASE x[1] = lin[1]
  <2>1. Walked(n, x) = {n.tbl[u][x[2]].base :
                          u \in {v \in Tables : TableFrame(v) = TableFrame(t)
                                                /\ n.tbl[v][x[2]].present}}
    BY <1>1, <1>3, <1>4 DEF Walked
  <2>2. Walked(n, x) = IF n.tbl[t][x[2]].present THEN {n.tbl[t][x[2]].base} ELSE {}
    BY <2>1, TableFrameFacts
  <2>3. CASE x = lin
    BY <2>2, <2>3, <1>0, <1>2 DEF PagePte
  <2>4. CASE x # lin
    <3>1. n.tbl[t][x[2]] = m.tbl[t][x[2]]
      BY <2>4, <1>0, <1>2, <1>4
    <3>2. CASE m.dir[lin[1]].present
      <4>1. m.dir[x[1]] = TablePde(t)
        BY <3>2, <1>4 DEF WorksOn
      <4>2. Walked(m, x) = {m.tbl[u][x[2]].base :
                              u \in {v \in Tables : TableFrame(v) = TableFrame(t)
                                                    /\ m.tbl[v][x[2]].present}}
        BY <4>1, <1>3 DEF Walked
      <4>3. Walked(m, x) = IF m.tbl[t][x[2]].present THEN {m.tbl[t][x[2]].base} ELSE {}
        BY <4>2, TableFrameFacts
      <4> QED BY <2>2, <2>4, <3>1, <4>3
    <3>3. CASE ~m.dir[lin[1]].present
      <4>1. ~m.tbl[t][x[2]].present
        BY <3>3, <1>0 DEF WorksOn, UnusedTables
      <4>2. Walked(m, x) = {}
        BY <3>3, <1>4 DEF Walked
      <4> QED BY <2>2, <2>4, <3>1, <4>1, <4>2
    <3> QED BY <3>2, <3>3
  <2> QED BY <2>3, <2>4
<1>5. CASE x[1] # lin[1]
  <2>1. n.dir[x[1]] = m.dir[x[1]] /\ x # lin
    BY <1>0, <1>1, <1>5
  <2>2. ASSUME NEW u \in Tables, IsTable(m.dir[x[1]]), TableFrame(u) = m.dir[x[1]].base
        PROVE  n.tbl[u][x[2]] = m.tbl[u][x[2]]
    <3>1. u # t
      <4>1. CASE m.dir[lin[1]].present
        BY <4>1, <2>2, <1>0, <1>3, <1>5 DEF WorksOn, Sound, PoolOwned, IsTable
      <4>2. CASE ~m.dir[lin[1]].present
        BY <4>2, <2>2, <1>0 DEF WorksOn, UnusedTables, Sound, PoolOwned
      <4> QED BY <4>1, <4>2
    <3> QED BY <3>1, <1>0, <1>2
  <2>3. CASE IsTable(m.dir[x[1]])
    <3>1. {n.tbl[u][x[2]].base : u \in {v \in Tables : TableFrame(v) = m.dir[x[1]].base
                                                     /\ n.tbl[v][x[2]].present}}
          = {m.tbl[u][x[2]].base : u \in {v \in Tables : TableFrame(v) = m.dir[x[1]].base
                                                     /\ m.tbl[v][x[2]].present}}
      BY <2>2, <2>3
    <3> QED BY <2>1, <2>3, <3>1 DEF Walked, IsTable
  <2>4. CASE ~IsTable(m.dir[x[1]])
    BY <2>1, <2>4 DEF Walked, IsTable
  <2> QED BY <2>3, <2>4
<1> QED BY <1>4, <1>5

\* paging_map_4kb within its contract, in one statement.
LEMMA Map4kbCorrect ==
    ASSUME NEW m, Sound(m), NEW phy \in Frames, NEW lin \in Lins, Mappable(m, lin)
    PROVE  LET n == Map4kb(m, phy, lin, TRUE)
           IN  /\ Sound(n)
               /\ n.cr3 = m.cr3 /\ n.tlb = Invlpg(m.tlb, lin)
               /\ IsTable(n.dir[lin[1]])
               /\ \A d \in Dirs : d # lin[1] => n.dir[d] = m.dir[d]
               /\ \A x \in Lins : Walked(n, x) = IF x = lin THEN {phy} ELSE Walked(m, x)
<1> DEFINE n == Map4kb(m, phy, lin, TRUE)
<1> HIDE DEF n
<1>1. PICK t \in Tables : WorksOn(m, lin, t) /\ MappedIn(m, n, phy, lin, t)
  BY Map4kbEffect DEF n
<1>2. Sound(n)
  BY <1>1, MappedSound
<1>3. \A x \in Lins : Walked(n, x) = IF x = lin THEN {phy} ELSE Walked(m, x)
  BY <1>1, MappedWalk
<1>4. IsTable(n.dir[lin[1]])
  BY <1>1 DEF MappedIn, Sound, Mem, Lins, IsTable, TablePde
<1>5. \A d \in Dirs : d # lin[1] => n.dir[d] = m.dir[d]
  BY <1>1 DEF MappedIn, Sound, Mem
<1> QED BY <1>1, <1>2, <1>3, <1>4, <1>5 DEF n, MappedIn

\* paging_map_4mb within its contract.
LEMMA Map4mbCorrect ==
    ASSUME NEW m, Sound(m), NEW phy \in Frames, NEW lin \in Lins,
           ~IsTable(m.dir[lin[1]]), lin[1] \notin KernelDirs
    PROVE  LET n == Map4mb(m, phy, lin, TRUE)
           IN  /\ Sound(n)
               /\ n.cr3 = m.cr3 /\ n.tlb = Invlpg(m.tlb, lin)
               /\ \A d \in Dirs : d # lin[1] => n.dir[d] = m.dir[d]
               /\ \A x \in Lins :
                     Walked(n, x) = IF x[1] = lin[1] THEN {<<phy[1], x[2]>>} ELSE Walked(m, x)
<1> DEFINE n == Map4mb(m, phy, lin, TRUE)
           big == [present |-> TRUE, size |-> TRUE, base |-> <<phy[1], 0>>]
<1>0. m \in Mem /\ lin[1] \in Dirs /\ m.dir \in [Dirs -> Pde]
  BY DEF Sound, Mem, Lins
<1>1. big \in Pde /\ big.present /\ big.size /\ big.base = <<phy[1], 0>> /\ ~IsTable(big)
  BY SizeAssumption, LayoutAssumption DEF Pde, Frames, Pages, Dirs, IsTable
<1>2. Invlpg(m.tlb, lin) \in SUBSET TlbRecord
  BY <1>0 DEF Mem, Invlpg
<1>3. n = [m EXCEPT !.dir = [m.dir EXCEPT ![lin[1]] = big], !.tlb = Invlpg(m.tlb, lin)]
  BY <1>0 DEF Map4mb, Mem
<1> HIDE DEF n, big
<1>4. /\ n \in Mem /\ n.dir = [m.dir EXCEPT ![lin[1]] = big] /\ n.tbl = m.tbl
      /\ n.cr3 = m.cr3 /\ n.tlb = Invlpg(m.tlb, lin)
      /\ n.stray = m.stray /\ n.halted = m.halted
  BY <1>0, <1>1, <1>2, <1>3 DEF Mem
<1>5. \A d \in Dirs : n.dir[d] = IF d = lin[1] THEN big ELSE m.dir[d]
  BY <1>0, <1>4
<1>6. \A d \in Dirs : IsTable(n.dir[d]) => IsTable(m.dir[d]) /\ n.dir[d] = m.dir[d]
  BY <1>1, <1>5
<1>7. \A d \in Dirs : IsTable(m.dir[d]) => IsTable(n.dir[d]) /\ n.dir[d] = m.dir[d]
  BY <1>5
<1>8. PoolOwned(n)
  <2>1. \A d \in Dirs : IsTable(n.dir[d]) => \E u \in Tables : n.dir[d].base = TableFrame(u)
    BY <1>6 DEF Sound, PoolOwned
  <2>2. \A d, c \in Dirs :
           IsTable(n.dir[d]) /\ IsTable(n.dir[c]) /\ n.dir[d].base = n.dir[c].base => d = c
    BY <1>6 DEF Sound, PoolOwned
  <2>3. ASSUME NEW u \in Tables
        PROVE  (\E p \in Pages : n.tbl[u][p].present)
                  <=> \E d \in Dirs : IsTable(n.dir[d]) /\ n.dir[d].base = TableFrame(u)
    BY <1>4, <1>6, <1>7 DEF Sound, PoolOwned
  <2> QED BY <2>1, <2>2, <2>3 DEF PoolOwned
<1>9. KernelBig(n)
  <2>1. KernelDirs \subseteq Dirs
    BY SizeAssumption, LayoutAssumption DEF KernelDirs, Dirs
  <2> QED BY <1>5, <2>1 DEF Sound, KernelBig
<1>10. \A x \in Lins :
          Walked(n, x) = IF x[1] = lin[1] THEN {<<phy[1], x[2]>>} ELSE Walked(m, x)
  <2> SUFFICES ASSUME NEW x \in Lins
               PROVE  Walked(n, x) = IF x[1] = lin[1] THEN {<<phy[1], x[2]>>} ELSE Walked(m, x)
    OBVIOUS
  <2>0. x[1] \in Dirs
    BY DEF Lins
  <2>1. CASE x[1] = lin[1]
    <3>1. n.dir[x[1]] = big
      BY <2>0, <2>1, <1>5
    <3>2. Walked(n, x) = {<<big.base[1], x[2]>>}
      BY <3>1, <1>1 DEF Walked
    <3> QED BY <2>1, <3>2, <1>1
  <2>2. CASE x[1] # lin[1]
    <3>1. n.dir[x[1]] = m.dir[x[1]]
      BY <2>0, <2>2, <1>5
    <3> QED BY <2>2, <3>1, <1>4 DEF Walked
  <2> QED BY <2>1, <2>2
<1> QED BY <1>4, <1>5, <1>8, <1>9, <1>10 DEF Sound, n

-----------------------------------------------------------------------------
(* paging_init.                                                            *)

IoApic == <<ApicDir, IoApicPage>>
LApic  == <<ApicDir, LApicPage>>

\* The translations right after paging_init.
BootWalk(x) ==
    IF x[1] \in KernelDirs THEN {<<x[1] - VmaDir, x[2]>>}
    ELSE IF x \in {IoApic, LApic} THEN {x} ELSE {}

\* The cleared tables with the kernel's 4 MiB pages are sound.
LEMMA ClearedSound ==
    ASSUME NEW m \in Mem, m.stray = {}, ~m.halted,
           m.dir = BootDir, m.tbl = [t \in Tables |-> [p \in Pages |-> EmptyPte]]
    PROVE  /\ Sound(m)
           /\ UnusedTables(m) = Tables
           /\ ~m.dir[ApicDir].present
           /\ \A x \in Lins :
                 Walked(m, x) = IF x[1] \in KernelDirs THEN {<<x[1] - VmaDir, x[2]>>} ELSE {}
<1>1. \A d \in Dirs : ~IsTable(m.dir[d])
  BY DEF BootDir, IsTable, EmptyPde
<1>2. \A t \in Tables, p \in Pages : ~m.tbl[t][p].present
  BY DEF EmptyPte
<1>3. PoolOwned(m)
  BY <1>1, <1>2 DEF PoolOwned
<1>4. KernelDirs \subseteq Dirs /\ ApicDir \in Dirs /\ ApicDir \notin KernelDirs
  BY SizeAssumption, LayoutAssumption DEF KernelDirs, Dirs
<1>5. KernelBig(m)
  BY <1>4 DEF KernelBig, BootDir, KernelDirs
<1>6. ~m.dir[ApicDir].present
  BY <1>4 DEF BootDir, KernelDirs, EmptyPde
<1>7. ASSUME NEW x \in Lins
      PROVE  Walked(m, x) = IF x[1] \in KernelDirs THEN {<<x[1] - VmaDir, x[2]>>} ELSE {}
  <2>0. x[1] \in Dirs
    BY DEF Lins
  <2>1. CASE x[1] \in KernelDirs
    <3>1. m.dir[x[1]] = [present |-> TRUE, size |-> TRUE, base |-> <<x[1] - VmaDir, 0>>]
      BY <2>1, <1>5 DEF KernelBig
    <3> QED BY <2>1, <3>1 DEF Walked
  <2>2. CASE x[1] \notin KernelDirs
    <3>1. ~m.dir[x[1]].present
      BY <2>0, <2>2 DEF BootDir, KernelDirs, EmptyPde
    <3> QED BY <2>2, <3>1 DEF Walked
  <2> QED BY <2>1, <2>2
<1> QED BY <1>2, <1>3, <1>5, <1>6, <1>7 DEF Sound, UnusedTables

\* paging_init leaves sound tables, an empty TLB and exactly the boot mapping.
LEMMA InitialMappingCorrect ==
    ASSUME NEW m \in Mem, m.stray = {}, ~m.halted
    PROVE  LET n == InitialMapping(m)
           IN  /\ Sound(n) /\ n.cr3 = "pgdir" /\ n.tlb = {}
               /\ IsTable(n.dir[ApicDir])
               /\ \A x \in Lins : Walked(n, x) = BootWalk(x)
<1> DEFINE cleared == [m EXCEPT !.dir = BootDir,
                                !.tbl = [t \in Tables |-> [p \in Pages |-> EmptyPte]]]
           ioapic  == Map4kb(cleared, IoApic, IoApic, TRUE)
           lapic   == Map4kb(ioapic, LApic, LApic, TRUE)
           n       == LoadCr3(lapic)
<1>0. /\ IoApic \in Lins /\ LApic \in Lins /\ IoApic # LApic
      /\ IoApic \in Frames /\ LApic \in Frames
      /\ IoApic[1] = ApicDir /\ LApic[1] = ApicDir /\ ApicDir \notin KernelDirs
  BY SizeAssumption, LayoutAssumption DEF IoApic, LApic, Lins, Frames, KernelDirs
<1>1. EmptyPde \in Pde /\ EmptyPte \in Pte
  BY SizeAssumption, LayoutAssumption DEF EmptyPde, EmptyPte, Pde, Pte, Frames, Dirs, Pages
<1>2. BootDir \in [Dirs -> Pde]
  <2> SUFFICES ASSUME NEW d \in Dirs, d \in VmaDir .. VmaDir + KernelEndWord
               PROVE  [present |-> TRUE, size |-> TRUE, base |-> <<d - VmaDir, 0>>] \in Pde
    BY <1>1 DEF BootDir
  <2>1. <<d - VmaDir, 0>> \in Frames
    BY SizeAssumption, LayoutAssumption DEF Frames, Dirs, Pages
  <2> QED BY <2>1 DEF Pde
<1>3. InitialMapping(m) = n
  BY DEF InitialMapping, IoApic, LApic
<1>4. /\ cleared \in Mem /\ cleared.dir = BootDir /\ cleared.stray = {} /\ ~cleared.halted
      /\ cleared.tbl = [t \in Tables |-> [p \in Pages |-> EmptyPte]]
  BY <1>1, <1>2 DEF Mem
<1> HIDE DEF cleared
<1>5. /\ Sound(cleared)
      /\ UnusedTables(cleared) = Tables
      /\ ~cleared.dir[ApicDir].present
      /\ \A x \in Lins :
            Walked(cleared, x) = IF x[1] \in KernelDirs THEN {<<x[1] - VmaDir, x[2]>>} ELSE {}
  BY <1>4, ClearedSound
<1>6. Mappable(cleared, IoApic)
  <2>1. 0 \in Tables
    BY SizeAssumption DEF Tables
  <2> QED BY <2>1, <1>0, <1>5 DEF Mappable
<1>7. /\ Sound(ioapic) /\ IsTable(ioapic.dir[ApicDir])
      /\ \A x \in Lins : Walked(ioapic, x) = IF x = IoApic THEN {IoApic} ELSE Walked(cleared, x)
  <2>1. Sound(cleared)
    BY <1>5
  <2>2. /\ Sound(ioapic) /\ IsTable(ioapic.dir[IoApic[1]])
        /\ \A x \in Lins : Walked(ioapic, x) = IF x = IoApic THEN {IoApic} ELSE Walked(cleared, x)
    BY <2>1, <1>0, <1>6, Map4kbCorrect, Zenon
  <2> HIDE DEF ioapic
  <2> QED BY <2>2, <1>0
<1> HIDE DEF ioapic
<1>8. Mappable(ioapic, LApic)
  BY <1>0, <1>7 DEF Mappable, IsTable
<1>9. /\ Sound(lapic) /\ IsTable(lapic.dir[ApicDir])
      /\ \A x \in Lins : Walked(lapic, x) = IF x = LApic THEN {LApic} ELSE Walked(ioapic, x)
  <2>1. Sound(ioapic)
    BY <1>7
  <2>2. /\ Sound(lapic) /\ IsTable(lapic.dir[LApic[1]])
        /\ \A x \in Lins : Walked(lapic, x) = IF x = LApic THEN {LApic} ELSE Walked(ioapic, x)
    BY <2>1, <1>0, <1>8, Map4kbCorrect, Zenon
  <2> HIDE DEF lapic
  <2> QED BY <2>2, <1>0
<1> HIDE DEF lapic
<1>10. /\ n \in Mem /\ n.dir = lapic.dir /\ n.tbl = lapic.tbl /\ n.cr3 = "pgdir" /\ n.tlb = {}
       /\ n.stray = {} /\ ~n.halted
  BY <1>9 DEF LoadCr3, Sound, Mem
<1> HIDE DEF n
<1>11. Sound(n)
  BY <1>9, <1>10 DEF Sound, PoolOwned, KernelBig
<1>12. ASSUME NEW x \in Lins
       PROVE  Walked(n, x) = BootWalk(x)
  <2>1. Walked(n, x) = Walked(lapic, x)
    BY <1>10 DEF Walked
  <2>2. x \in {IoApic, LApic} => x[1] \notin KernelDirs
    BY <1>0
  <2> QED BY <2>1, <2>2, <1>0, <1>5, <1>7, <1>9 DEF BootWalk
<1> QED BY <1>3, <1>9, <1>10, <1>11, <1>12

-----------------------------------------------------------------------------
(* The inductive invariant.                                                *)

ApicsMapped ==
    /\ IsTable(pgdir[ApicDir])
    /\ \A x \in {IoApic, LApic} : Walked(M, x) = {x}

\* A 4 KiB translation is only ever cached from a table, so none is cached
\* for a directory entry that paging_map_4mb may replace.
TlbShape == cr3 = "pgdir" => \A e \in tlb : ~e.size => IsTable(pgdir[e.lin[1]])

\* The properties of the runs are not inductive one by one: that a map call
\* hits no stray frame needs the kernel's 4 MiB page and the ownership of the
\* pool, and that a cached translation stays right needs that no two entries
\* of the directory share a table.
Inv ==
    /\ TypeOK
    /\ stray = {} /\ ~halted
    /\ PoolOwnership
    /\ cr3 = "pgdir" => Sound(M) /\ ApicsMapped
    /\ TlbCoherent /\ TlbShape

\* The variables packed into M are a value of type Mem.
LEMMA MType == TypeOK => M \in Mem
  BY DEF TypeOK, M, Mem

\* With the bootstrap directory loaded the pool is empty.
LEMMA InvInit == Init => Inv
<1> SUFFICES ASSUME Init PROVE Inv
  OBVIOUS
<1>1. EmptyPde \in Pde /\ EmptyPte \in Pte
  BY SizeAssumption, LayoutAssumption DEF EmptyPde, EmptyPte, Pde, Pte, Frames, Dirs, Pages
<1>2. TypeOK
  BY <1>1 DEF Init, TypeOK
<1>3. PoolOwnership
  BY DEF Init, PoolOwnership, PoolOwned, M, IsTable, EmptyPde, EmptyPte
<1> QED BY <1>2, <1>3 DEF Init, Inv, TlbCoherent, TlbShape

\* paging_init establishes the invariant.
LEMMA InvPagingInit == Inv /\ PagingInit => Inv'
<1> SUFFICES ASSUME Inv, PagingInit PROVE Inv'
  OBVIOUS
<1> DEFINE n == InitialMapping(M)
<1>1. M \in Mem /\ M.stray = {} /\ ~M.halted
  BY MType DEF Inv, M
<1>2. /\ Sound(n) /\ n.cr3 = "pgdir" /\ n.tlb = {}
      /\ IsTable(n.dir[ApicDir])
      /\ \A x \in Lins : Walked(n, x) = BootWalk(x)
  BY <1>1, InitialMappingCorrect
<1>3. Becomes(n)
  BY DEF PagingInit
<1> HIDE DEF n
<1>4. n \in Mem /\ n.stray = {} /\ ~n.halted
  BY <1>2 DEF Sound
<1>5. M' = n
  BY <1>3, <1>4 DEF Becomes, M, Mem
<1>6. TypeOK'
  BY <1>3, <1>4 DEF Becomes, Mem, TypeOK
<1>7. /\ IoApic \in Lins /\ LApic \in Lins
      /\ IoApic[1] \notin KernelDirs /\ LApic[1] \notin KernelDirs
  BY SizeAssumption, LayoutAssumption DEF IoApic, LApic, Lins, KernelDirs
<1>8. ApicsMapped'
  <2>1. \A x \in {IoApic, LApic} : Walked(n, x) = {x}
    BY <1>2, <1>7 DEF BootWalk
  <2>2. IsTable(pgdir'[ApicDir])
    BY <1>2, <1>3 DEF Becomes
  <2> QED BY <2>1, <2>2, <1>5 DEF ApicsMapped
<1>9. TlbCoherent' /\ TlbShape'
  BY <1>2, <1>3 DEF Becomes, TlbCoherent, TlbShape
<1>10. Sound(M)'
  BY <1>2, <1>5
<1> QED BY <1>3, <1>4, <1>6, <1>8, <1>9, <1>10 DEF Inv, Becomes, PoolOwnership, Sound

\* TlbCoherent in terms of the walk alone, once CR3 is loaded.
Coherent(m) ==
    \A e \in m.tlb, x \in Lins :
        IF e.size THEN e.lin[1] = x[1] => Walked(m, x) = {<<e.frame[1], x[2]>>}
        ELSE e.lin = x => Walked(m, x) = {e.frame}

\* Coherence of the variables is coherence of the machine record.
LEMMA CoherentM == cr3 = "pgdir" => (TlbCoherent <=> Coherent(M))
<1> SUFFICES ASSUME cr3 = "pgdir" PROVE TlbCoherent <=> Coherent(M)
  OBVIOUS
<1>1. \A x : Linear(M, x) = Walked(M, x)
  BY DEF Linear, M
<1>2. M.tlb = tlb
  BY DEF M
<1> QED BY <1>1, <1>2 DEF TlbCoherent, Coherent

\* The cached translations that survive an invlpg are those of other pages,
\* which a map call does not change.
LEMMA TlbAfterMap ==
    ASSUME NEW m, NEW n, NEW lin \in Lins, n.tlb = Invlpg(m.tlb, lin),
           m.cr3 = "pgdir", n.cr3 = "pgdir", m.tlb \subseteq TlbRecord,
           \/ \A x \in Lins : x # lin => Walked(n, x) = Walked(m, x)
           \/ /\ \A x \in Lins : x[1] # lin[1] => Walked(n, x) = Walked(m, x)
              /\ \A e \in m.tlb : ~e.size => e.lin[1] # lin[1],
           Coherent(m)
    PROVE  Coherent(n)
<1> SUFFICES ASSUME NEW e \in n.tlb, NEW x \in Lins
             PROVE  IF e.size THEN e.lin[1] = x[1] => Walked(n, x) = {<<e.frame[1], x[2]>>}
                    ELSE e.lin = x => Walked(n, x) = {e.frame}
  BY DEF Coherent
<1>1. e \in m.tlb /\ (IF e.size THEN e.lin[1] # lin[1] ELSE e.lin # lin)
  BY DEF Invlpg
<1>2. CASE e.size
  BY <1>1, <1>2 DEF Coherent
<1>3. CASE ~e.size
  BY <1>1, <1>3 DEF Coherent
<1> QED BY <1>2, <1>3

\* A contract-abiding call of paging_map_4kb preserves the invariant.
LEMMA InvMap4kb ==
    ASSUME Inv, NEW phy \in CallFrames, NEW lin \in CallLins, PagingMap4kb(phy, lin)
    PROVE  Inv'
<1> DEFINE n == Map4kb(M, phy, lin, TRUE)
<1>0. /\ phy \in Frames /\ lin \in Lins /\ lin[1] \in Dirs /\ cr3 = "pgdir"
      /\ lin \notin {IoApic, LApic}
  BY SizeAssumption DEF PagingMap4kb, MayMap4kb, Lins, IoApic, LApic
<1>1. M \in Mem /\ Sound(M) /\ M.cr3 = "pgdir" /\ M.dir = pgdir /\ M.tlb = tlb
  BY <1>0, MType DEF Inv, M
<1>2. Mappable(M, lin)
  BY <1>1 DEF PagingMap4kb, MayMap4kb, Mappable
<1>3. /\ Sound(n)
      /\ n.cr3 = M.cr3 /\ n.tlb = Invlpg(M.tlb, lin)
      /\ IsTable(n.dir[lin[1]])
      /\ \A d \in Dirs : d # lin[1] => n.dir[d] = M.dir[d]
      /\ \A x \in Lins : Walked(n, x) = IF x = lin THEN {phy} ELSE Walked(M, x)
  BY <1>0, <1>1, <1>2, Map4kbCorrect, Zenon
<1>4. Becomes(n)
  BY DEF PagingMap4kb
<1> HIDE DEF n
<1>5. n \in Mem /\ n.stray = {} /\ ~n.halted
  BY <1>3 DEF Sound
<1>6. M' = n
  BY <1>4, <1>5 DEF Becomes, M, Mem
<1>7. TypeOK'
  BY <1>4, <1>5 DEF Becomes, Mem, TypeOK
<1>8. cr3' = "pgdir" /\ stray' = {} /\ ~halted' /\ pgdir' = n.dir /\ tlb' = n.tlb
  BY <1>1, <1>3, <1>4, <1>5 DEF Becomes
<1>9. ApicsMapped'
  <2>1. IsTable(pgdir'[ApicDir])
    BY <1>0, <1>1, <1>3, <1>8, LayoutAssumption DEF Inv, ApicsMapped
  <2>2. \A x \in {IoApic, LApic} : Walked(n, x) = {x}
    <3>1. IoApic \in Lins /\ LApic \in Lins
      BY LayoutAssumption DEF IoApic, LApic, Lins
    <3> QED BY <3>1, <1>0, <1>3 DEF Inv, ApicsMapped
  <2> QED BY <2>1, <2>2, <1>6 DEF ApicsMapped
<1>10. TlbCoherent'
  <2>1. Coherent(M)
    BY <1>0, CoherentM DEF Inv
  <2>2. M.tlb \subseteq TlbRecord
    BY <1>1 DEF Mem
  <2>3. Coherent(n)
    BY <2>1, <2>2, <1>0, <1>1, <1>3, TlbAfterMap
  <2>4. \A x : Linear(n, x) = Walked(n, x)
    BY <1>1, <1>3 DEF Linear
  <2> QED BY <2>3, <2>4, <1>6, <1>8 DEF TlbCoherent, Coherent
<1>11. TlbShape'
  <2> SUFFICES ASSUME NEW e \in tlb', ~e.size
               PROVE  IsTable(pgdir'[e.lin[1]])
    BY DEF TlbShape
  <2>1. e \in tlb /\ e.lin[1] \in Dirs
    BY <1>1, <1>3, <1>8 DEF Invlpg, Inv, TypeOK, TlbRecord, Lins
  <2> QED BY <2>1, <1>0, <1>1, <1>3, <1>8 DEF Inv, TlbShape
<1>12. Sound(M)'
  BY <1>3, <1>6
<1> QED BY <1>7, <1>8, <1>9, <1>10, <1>11, <1>12 DEF Inv, PoolOwnership, Sound

\* A contract-abiding call of paging_map_4mb preserves the invariant.
LEMMA InvMap4mb ==
    ASSUME Inv, NEW phy \in CallFrames, NEW lin \in CallLins, PagingMap4mb(phy, lin)
    PROVE  Inv'
<1> DEFINE n == Map4mb(M, phy, lin, TRUE)
<1>0. /\ phy \in Frames /\ lin \in Lins /\ lin[1] \in Dirs /\ cr3 = "pgdir"
      /\ lin[1] \notin KernelDirs /\ ~IsTable(pgdir[lin[1]])
  BY SizeAssumption DEF PagingMap4mb, MayMap4mb, Lins, KernelDirs, IsTable
<1>1. M \in Mem /\ Sound(M) /\ M.cr3 = "pgdir" /\ M.dir = pgdir /\ M.tlb = tlb
  BY <1>0, MType DEF Inv, M
<1>2. ~IsTable(M.dir[lin[1]])
  BY <1>0, <1>1
<1>3. /\ Sound(n)
      /\ n.cr3 = M.cr3 /\ n.tlb = Invlpg(M.tlb, lin)
      /\ \A d \in Dirs : d # lin[1] => n.dir[d] = M.dir[d]
      /\ \A x \in Lins :
            Walked(n, x) = IF x[1] = lin[1] THEN {<<phy[1], x[2]>>} ELSE Walked(M, x)
  BY <1>0, <1>1, <1>2, Map4mbCorrect, Zenon
<1>4. Becomes(n)
  BY DEF PagingMap4mb
<1> HIDE DEF n
<1>5. n \in Mem /\ n.stray = {} /\ ~n.halted
  BY <1>3 DEF Sound
<1>6. M' = n
  BY <1>4, <1>5 DEF Becomes, M, Mem
<1>7. TypeOK'
  BY <1>4, <1>5 DEF Becomes, Mem, TypeOK
<1>8. cr3' = "pgdir" /\ stray' = {} /\ ~halted' /\ pgdir' = n.dir /\ tlb' = n.tlb
  BY <1>1, <1>3, <1>4, <1>5 DEF Becomes
<1>9. ApicsMapped'
  <2>0. IsTable(pgdir[ApicDir]) /\ ApicDir # lin[1] /\ ApicDir \in Dirs
    BY <1>0, LayoutAssumption DEF Inv, ApicsMapped
  <2>1. IsTable(pgdir'[ApicDir])
    BY <2>0, <1>1, <1>3, <1>8
  <2>2. \A x \in {IoApic, LApic} : Walked(n, x) = {x}
    <3>1. /\ IoApic \in Lins /\ LApic \in Lins
          /\ IoApic[1] # lin[1] /\ LApic[1] # lin[1]
      BY <2>0, LayoutAssumption DEF IoApic, LApic, Lins
    <3> QED BY <3>1, <1>0, <1>3 DEF Inv, ApicsMapped
  <2> QED BY <2>1, <2>2, <1>6 DEF ApicsMapped
<1>10. TlbCoherent'
  <2>1. Coherent(M)
    BY <1>0, CoherentM DEF Inv
  <2>2. M.tlb \subseteq TlbRecord
    BY <1>1 DEF Mem
  <2>3. \A e \in M.tlb : ~e.size => e.lin[1] # lin[1]
    BY <1>0, <1>1 DEF Inv, TlbShape
  <2>4. \A x \in Lins : x[1] # lin[1] => Walked(n, x) = Walked(M, x)
    BY <1>3
  <2>5. Coherent(n)
    BY <2>1, <2>2, <2>3, <2>4, <1>0, <1>1, <1>3, TlbAfterMap
  <2>6. \A x : Linear(n, x) = Walked(n, x)
    BY <1>1, <1>3 DEF Linear
  <2> QED BY <2>5, <2>6, <1>6, <1>8 DEF TlbCoherent, Coherent
<1>11. TlbShape'
  <2> SUFFICES ASSUME NEW e \in tlb', ~e.size
               PROVE  IsTable(pgdir'[e.lin[1]])
    BY DEF TlbShape
  <2>1. e \in tlb /\ e.lin[1] \in Dirs
    BY <1>1, <1>3, <1>8 DEF Invlpg, Inv, TypeOK, TlbRecord, Lins
  <2>2. IsTable(pgdir[e.lin[1]])
    BY <2>1, <1>0 DEF Inv, TlbShape
  <2>3. e.lin[1] # lin[1]
    BY <2>2, <1>0
  <2> QED BY <2>1, <2>2, <2>3, <1>1, <1>3, <1>8
<1>12. Sound(M)'
  BY <1>3, <1>6
<1> QED BY <1>7, <1>8, <1>9, <1>10, <1>11, <1>12 DEF Inv, PoolOwnership, Sound

\* A translation loaded by the CPU is the one of the current tables, and for
\* a 4 MiB entry it is right for every page of it.
LEMMA InvWalk ==
    ASSUME Inv, NEW lin \in Lins, Walk(lin)
    PROVE  Inv'
<1>1. PICK f \in Linear(M, lin) : tlb' = tlb \cup {TlbEntry(lin, f)}
  BY DEF Walk
<1> DEFINE e == TlbEntry(lin, f)
<1>2. /\ pgdir' = pgdir /\ pgtbls' = pgtbls /\ cr3' = cr3 /\ stray' = stray /\ halted' = halted
  BY DEF Walk
<1>3. /\ M.dir = pgdir /\ M.cr3 = cr3 /\ M.tbl = pgtbls
      /\ M'.dir = pgdir /\ M'.cr3 = cr3 /\ M'.tbl = pgtbls
  BY <1>2 DEF M
<1>4. \A x : Walked(M, x)' = Walked(M, x) /\ Linear(M, x)' = Linear(M, x)
  BY <1>3 DEF Walked, Linear
<1>5. lin[1] \in Dirs /\ lin[2] \in Pages /\ pgdir[lin[1]] \in Pde /\ <<lin[1], lin[2]>> = lin
  BY DEF Lins, Inv, TypeOK
<1>6. f \in Frames
  <2>1. CASE cr3 = "entry"
    <3>1. f = EntryFrame(lin)
      BY <2>1, <1>1, <1>3 DEF Linear
    <3> QED BY <3>1, <1>5, SizeAssumption DEF EntryFrame, Frames, Dirs
  <2>2. CASE cr3 # "entry"
    <3>1. f \in Walked(M, lin)
      BY <2>2, <1>1, <1>3 DEF Linear
    <3>2. CASE pgdir[lin[1]].present /\ pgdir[lin[1]].size
      <4>1. f = <<pgdir[lin[1]].base[1], lin[2]>>
        BY <3>1, <3>2, <1>3 DEF Walked
      <4>2. pgdir[lin[1]].base \in Frames
        BY <1>5 DEF Pde
      <4> QED BY <4>1, <4>2, <1>5 DEF Frames
    <3>3. CASE pgdir[lin[1]].present /\ ~pgdir[lin[1]].size
      <4>1. PICK t \in Tables : f = pgtbls[t][lin[2]].base
        BY <3>1, <3>3, <1>3 DEF Walked
      <4> QED BY <4>1, <1>5 DEF Inv, TypeOK, Pte
    <3>4. pgdir[lin[1]].present
      BY <3>1, <1>3 DEF Walked
    <3> QED BY <3>2, <3>3, <3>4
  <2> QED BY <2>1, <2>2
<1>7. e \in TlbRecord
  <2>1. <<lin[1], 0>> \in Lins /\ <<f[1], 0>> \in Frames
    BY <1>5, <1>6, LayoutAssumption, SizeAssumption DEF Lins, Frames, Pages
  <2> QED BY <2>1, <1>6 DEF TlbEntry, TlbRecord
<1>8. TypeOK'
  BY <1>1, <1>2, <1>7 DEF Inv, TypeOK
<1>9. ASSUME NEW x \in Lins
      PROVE  IF e.size
             THEN e.lin[1] = x[1] => Linear(M, x) = {<<e.frame[1], x[2]>>}
             ELSE e.lin = x => Linear(M, x) = {e.frame}
  <2>1. CASE cr3 = "entry"
    <3>1. e = [size |-> TRUE, lin |-> <<lin[1], 0>>, frame |-> <<f[1], 0>>]
      BY <2>1 DEF TlbEntry
    <3>2. f = EntryFrame(lin) /\ Linear(M, x) = {EntryFrame(x)}
      BY <2>1, <1>1, <1>3 DEF Linear
    <3> QED BY <3>1, <3>2 DEF EntryFrame
  <2>2. CASE cr3 # "entry" /\ pgdir[lin[1]].size
    <3>1. e = [size |-> TRUE, lin |-> <<lin[1], 0>>, frame |-> <<f[1], 0>>]
      BY <2>2 DEF TlbEntry
    <3>2. pgdir[lin[1]].present /\ f = <<pgdir[lin[1]].base[1], lin[2]>>
      BY <2>2, <1>1, <1>3 DEF Linear, Walked
    <3>3. lin[1] = x[1] => Linear(M, x) = {<<pgdir[lin[1]].base[1], x[2]>>}
      BY <2>2, <3>2, <1>3 DEF Linear, Walked
    <3> QED BY <3>1, <3>2, <3>3
  <2>3. CASE cr3 # "entry" /\ ~pgdir[lin[1]].size
    <3>1. e = [size |-> FALSE, lin |-> lin, frame |-> f]
      BY <2>3 DEF TlbEntry
    <3>2. cr3 = "pgdir"
      BY <2>3 DEF Inv, TypeOK
    <3>3. PoolOwned(M) /\ Linear(M, lin) = Walked(M, lin)
      BY <3>2, <1>3 DEF Inv, Sound, Linear
    <3>4. Walked(M, lin) = {pgtbls[t][lin[2]].base :
                              t \in {u \in Tables : /\ TableFrame(u) = pgdir[lin[1]].base
                                                    /\ pgtbls[u][lin[2]].present}}
      BY <2>3, <3>3, <1>1, <1>3 DEF Walked
    <3>5. Walked(M, lin) = {f}
      BY <3>3, <3>4, <1>1, TableFrameFacts
    <3> QED BY <3>1, <3>3, <3>5
  <2> QED BY <2>1, <2>2, <2>3
<1>10. TlbCoherent'
  <2> SUFFICES ASSUME NEW g \in tlb', NEW x \in Lins
               PROVE  IF g.size
                      THEN g.lin[1] = x[1] => Linear(M, x) = {<<g.frame[1], x[2]>>}
                      ELSE g.lin = x => Linear(M, x) = {g.frame}
    BY <1>4 DEF TlbCoherent
  <2>1. CASE g \in tlb
    BY <2>1 DEF Inv, TlbCoherent
  <2>2. CASE g = e
    BY <2>2, <1>9
  <2> QED BY <2>1, <2>2, <1>1
<1>11. TlbShape'
  <2> SUFFICES ASSUME cr3 = "pgdir", NEW g \in tlb', ~g.size
               PROVE  IsTable(pgdir[g.lin[1]])
    BY <1>2 DEF TlbShape
  <2>1. CASE g \in tlb
    BY <2>1 DEF Inv, TlbShape
  <2>2. CASE g = e
    <3>1. ~pgdir[lin[1]].size /\ e.lin = lin
      BY <2>2 DEF TlbEntry
    <3>2. pgdir[lin[1]].present
      BY <1>1, <1>3 DEF Linear, Walked
    <3> QED BY <2>2, <3>1, <3>2 DEF IsTable
  <2> QED BY <2>1, <2>2, <1>1
<1>12. cr3 = "pgdir" => Sound(M)' /\ ApicsMapped'
  <2> SUFFICES ASSUME cr3 = "pgdir"
               PROVE  Sound(M)' /\ ApicsMapped'
    OBVIOUS
  <2>1. Sound(M) /\ ApicsMapped
    BY DEF Inv
  <2>2. M' \in Mem
    BY <1>8 DEF TypeOK, Mem, M
  <2>3. M'.stray = M.stray /\ M'.halted = M.halted
    BY <1>2 DEF M
  <2>4. Sound(M)'
    BY <2>1, <2>2, <2>3, <1>3 DEF Sound, PoolOwned, KernelBig
  <2>5. ApicsMapped'
    BY <2>1, <1>2, <1>4 DEF ApicsMapped
  <2> QED BY <2>4, <2>5
<1>13. PoolOwnership'
  BY <1>3 DEF Inv, PoolOwnership, PoolOwned
<1> QED BY <1>2, <1>8, <1>10, <1>11, <1>12, <1>13 DEF Inv

\* A step that changes nothing preserves the invariant.
LEMMA InvStutter == Inv /\ UNCHANGED vars => Inv'
<1> SUFFICES ASSUME Inv, UNCHANGED vars PROVE Inv'
  OBVIOUS
<1>1. M' = M /\ pgdir' = pgdir /\ pgtbls' = pgtbls /\ cr3' = cr3 /\ tlb' = tlb
      /\ stray' = stray /\ halted' = halted
  BY DEF vars, M
<1> QED BY <1>1 DEF Inv, TypeOK, PoolOwnership, TlbCoherent, TlbShape, ApicsMapped

-----------------------------------------------------------------------------
(* The theorems.                                                           *)

\* The invariant holds in every state paging.c can reach when its callers
\* respect the contract, for any number of tables, directory entries, pages
\* and cached translations.
THEOREM InvariantHolds == Spec => []Inv
<1>1. Inv /\ [Next]_vars => Inv'
  <2> SUFFICES ASSUME Inv, [Next]_vars PROVE Inv'
    OBVIOUS
  <2>1. CASE PagingInit
    BY <2>1, InvPagingInit
  <2>2. CASE \E phy \in CallFrames, lin \in CallLins : PagingMap4kb(phy, lin)
    BY <2>2, InvMap4kb
  <2>3. CASE \E phy \in CallFrames, lin \in CallLins : PagingMap4mb(phy, lin)
    BY <2>3, InvMap4mb
  <2>4. CASE \E lin \in Lins : Walk(lin)
    BY <2>4, InvWalk
  <2>5. CASE UNCHANGED vars
    BY <2>5, InvStutter
  <2> QED BY <2>1, <2>2, <2>3, <2>4, <2>5 DEF Next
<1> QED BY <1>1, InvInit, PTL DEF Spec

\* The directory, the tables and the TLB keep the formats of paging.h.
THEOREM TypeCorrect == Spec => []TypeOK
<1>1. Inv => TypeOK
  BY DEF Inv
<1> QED BY <1>1, InvariantHolds, PTL

\* No table of the pool is ever referenced twice, referenced while it looks
\* unused to paging_get_page_table, or in use while nothing references it.
THEOREM PoolOwnershipHolds == Spec => []PoolOwnership
<1>1. Inv => PoolOwnership
  BY DEF Inv
<1> QED BY <1>1, InvariantHolds, PTL

\* paging_map_4kb never writes an entry outside the pool and never faults.
THEOREM NoStrayStoreHolds == Spec => []NoStrayStore
<1>1. Inv => NoStrayStore
  BY DEF Inv, NoStrayStore
<1> QED BY <1>1, InvariantHolds, PTL

\* No cached translation is ever stale.
THEOREM TlbCoherentHolds == Spec => []TlbCoherent
<1>1. Inv => TlbCoherent
  BY DEF Inv
<1> QED BY <1>1, InvariantHolds, PTL

\* For a kernel that fits in the regions the loop of paging_init covers, its
\* memory and the APICs stay mapped where the kernel expects them.
THEOREM BootMappingsStay ==
    ASSUME KernelLast <= KernelEndWord
    PROVE  Spec => []BootMappingsHold
<1>1. ASSUME Inv, cr3 = "pgdir", NEW r \in 0 .. KernelLast, NEW p \in Pages
      PROVE  Linear(M, <<High(r), p>>) = {<<r, p>>}
  <2>1. High(r) = r + VmaDir /\ High(r) \in KernelDirs /\ High(r) - VmaDir = r
    BY SizeAssumption, LayoutAssumption DEF High, KernelDirs, Dirs
  <2>2. M.dir[High(r)] = [present |-> TRUE, size |-> TRUE, base |-> <<r, 0>>]
    BY <1>1, <2>1 DEF Inv, Sound, KernelBig
  <2>3. M.cr3 = "pgdir"
    BY <1>1 DEF M
  <2> QED BY <2>2, <2>3 DEF Linear, Walked
<1>2. ASSUME Inv, cr3 = "pgdir", NEW p \in {IoApicPage, LApicPage}
      PROVE  Linear(M, <<ApicDir, p>>) = {<<ApicDir, p>>}
  <2>1. <<ApicDir, p>> \in {IoApic, LApic}
    BY DEF IoApic, LApic
  <2>2. M.cr3 = "pgdir"
    BY <1>2 DEF M
  <2> QED BY <1>2, <2>1, <2>2 DEF Inv, ApicsMapped, Linear
<1>3. Inv => BootMappingsHold
  BY <1>1, <1>2 DEF BootMappingsHold
<1> QED BY <1>3, InvariantHolds, PTL

-----------------------------------------------------------------------------
(* paging.c implements AddressSpace.                                       *)

\* paging_init is the abstract Boot.
LEMMA BootRefines == Inv /\ PagingInit => A!Boot
<1> SUFFICES ASSUME Inv, PagingInit PROVE A!Boot
  OBVIOUS
<1> DEFINE n == InitialMapping(M)
<1>1. M \in Mem /\ M.stray = {} /\ ~M.halted
  BY MType DEF Inv, M
<1>2. /\ n \in Mem /\ n.cr3 = "pgdir"
      /\ \A x \in Lins : Walked(n, x) = BootWalk(x)
  BY <1>1, InitialMappingCorrect DEF Sound
<1>3. Becomes(n)
  BY DEF PagingInit
<1> HIDE DEF n
<1>4. M' = n /\ cr3' = "pgdir" /\ cr3 = "entry"
  BY <1>2, <1>3 DEF Becomes, M, Mem, PagingInit
<1>5. View' = [x \in Lins |-> BootWalk(x)]
  BY <1>2, <1>4 DEF View, Linear
<1> QED BY <1>4, <1>5 DEF A!Boot, A!Lin, Lins, Dirs, Pages, BootWalk, KernelDirs, IoApic, LApic

\* paging_map_4kb is the abstract MapPage.
LEMMA Map4kbRefines ==
    ASSUME Inv, NEW phy \in CallFrames, NEW lin \in CallLins, PagingMap4kb(phy, lin)
    PROVE  A!MapPage(phy, lin)
<1> DEFINE n == Map4kb(M, phy, lin, TRUE)
<1>0. phy \in Frames /\ lin \in Lins /\ cr3 = "pgdir"
  BY SizeAssumption DEF PagingMap4kb, MayMap4kb
<1>1. M \in Mem /\ Sound(M) /\ M.cr3 = "pgdir" /\ M.dir = pgdir
  BY <1>0, MType DEF Inv, M
<1>2. Mappable(M, lin)
  BY <1>1 DEF PagingMap4kb, MayMap4kb, Mappable
<1>3. /\ Sound(n) /\ n.cr3 = M.cr3
      /\ \A x \in Lins : Walked(n, x) = IF x = lin THEN {phy} ELSE Walked(M, x)
  BY <1>0, <1>1, <1>2, Map4kbCorrect, Zenon
<1>4. Becomes(n)
  BY DEF PagingMap4kb
<1> HIDE DEF n
<1>5. M' = n /\ cr3' = "pgdir"
  BY <1>1, <1>3, <1>4 DEF Becomes, M, Mem, Sound
<1>6. \A x \in Lins : Linear(n, x) = IF x = lin THEN {phy} ELSE Linear(M, x)
  BY <1>1, <1>3 DEF Linear
<1>7. View' = [View EXCEPT ![lin] = {phy}]
  BY <1>0, <1>5, <1>6 DEF View
<1> QED BY <1>0, <1>5, <1>7 DEF A!MapPage

\* paging_map_4mb is the abstract MapRegion.
LEMMA Map4mbRefines ==
    ASSUME Inv, NEW phy \in CallFrames, NEW lin \in CallLins, PagingMap4mb(phy, lin)
    PROVE  A!MapRegion(phy, lin)
<1> DEFINE n == Map4mb(M, phy, lin, TRUE)
<1>0. phy \in Frames /\ lin \in Lins /\ cr3 = "pgdir" /\ lin[1] \notin KernelDirs
  BY SizeAssumption DEF PagingMap4mb, MayMap4mb, KernelDirs
<1>1. M \in Mem /\ Sound(M) /\ M.cr3 = "pgdir" /\ M.dir = pgdir
  BY <1>0, MType DEF Inv, M
<1>2. ~IsTable(M.dir[lin[1]])
  BY <1>1 DEF PagingMap4mb, MayMap4mb, IsTable
<1>3. /\ Sound(n) /\ n.cr3 = M.cr3
      /\ \A x \in Lins :
            Walked(n, x) = IF x[1] = lin[1] THEN {<<phy[1], x[2]>>} ELSE Walked(M, x)
  BY <1>0, <1>1, <1>2, Map4mbCorrect, Zenon
<1>4. Becomes(n)
  BY DEF PagingMap4mb
<1> HIDE DEF n
<1>5. M' = n /\ cr3' = "pgdir"
  BY <1>1, <1>3, <1>4 DEF Becomes, M, Mem, Sound
<1>6. \A x \in Lins :
         Linear(n, x) = IF x[1] = lin[1] THEN {<<phy[1], x[2]>>} ELSE Linear(M, x)
  BY <1>1, <1>3 DEF Linear
<1>7. View' = [x \in Lins |-> IF x[1] = lin[1] THEN {<<phy[1], x[2]>>} ELSE View[x]]
  BY <1>5, <1>6 DEF View
<1> QED BY <1>0, <1>5, <1>7 DEF A!MapRegion, A!Lin, Lins, Dirs, Pages

\* A TLB fill is invisible in the address space, as is a stuttering step.
LEMMA WalkRefines ==
    ASSUME NEW lin \in Lins, Walk(lin)
    PROVE  UNCHANGED <<View, cr3 = "pgdir">>
<1>1. /\ M'.dir = M.dir /\ M'.cr3 = M.cr3 /\ M'.tbl = M.tbl /\ cr3' = cr3
  BY DEF Walk, M
<1>2. \A x : Linear(M, x)' = Linear(M, x)
  BY <1>1 DEF Linear, Walked
<1> QED BY <1>1, <1>2 DEF View

\* Seen through the page walk, paging.c is the address space its callers
\* expect, for every machine size: a page that is mapped disturbs no other.
THEOREM Implementation == Spec => ImplementsAddressSpace
<1>1. Init => A!Init
  <2> SUFFICES ASSUME Init PROVE A!Init
    OBVIOUS
  <2>1. M.cr3 = "entry" /\ cr3 = "entry"
    BY DEF Init, M
  <2>2. View = [x \in Lins |-> {EntryFrame(x)}]
    BY <2>1 DEF View, Linear
  <2> QED BY <2>1, <2>2 DEF A!Init, A!Lin, Lins, Dirs, Pages, EntryFrame
<1>2. Inv /\ [Next]_vars => [A!Next]_<<View, cr3 = "pgdir">>
  <2> SUFFICES ASSUME Inv, [Next]_vars PROVE [A!Next]_<<View, cr3 = "pgdir">>
    OBVIOUS
  <2>1. CASE PagingInit
    BY <2>1, BootRefines DEF A!Next
  <2>2. CASE \E phy \in CallFrames, lin \in CallLins : PagingMap4kb(phy, lin)
    BY <2>2, Map4kbRefines DEF A!Next
  <2>3. CASE \E phy \in CallFrames, lin \in CallLins : PagingMap4mb(phy, lin)
    BY <2>3, Map4mbRefines DEF A!Next
  <2>4. CASE \E lin \in Lins : Walk(lin)
    BY <2>4, WalkRefines
  <2>5. CASE UNCHANGED vars
    BY <2>5 DEF vars, View, Linear, Walked, M
  <2> QED BY <2>1, <2>2, <2>3, <2>4, <2>5 DEF Next
<1> QED BY <1>1, <1>2, InvariantHolds, PTL DEF Spec, ImplementsAddressSpace, A!Spec
=============================================================================
