---------------------------- MODULE AddressSpace ----------------------------
(***************************************************************************)
(* What the users of ksrc/mmu/paging.c rely on, without page directory,    *)
(* page tables or TLB: a map from linear pages to the frames they reach.   *)
(***************************************************************************)
EXTENDS Integers

CONSTANTS NDir, NPage, VmaDir, KernelEndWord, ApicDir, IoApicPage, LApicPage,
          CallLins, CallFrames

VARIABLES
    map,   \* [linear page -> {} (not mapped) or {frame}]
    live   \* paging_init has completed

Lin == (0 .. NDir - 1) \X (0 .. NPage - 1)

\* The bootstrap map of _entry.s: all of memory, low and again from VMA.
Init ==
    /\ live = FALSE
    /\ map = [lin \in Lin |->
                {<<IF lin[1] < VmaDir THEN lin[1] ELSE lin[1] - VmaDir, lin[2]>>}]

\* paging_init: the kernel's memory high, the two APIC pages 1:1, nothing else.
Boot ==
    /\ ~live /\ live' = TRUE
    /\ map' = [lin \in Lin |->
                 IF lin[1] \in VmaDir .. VmaDir + KernelEndWord
                 THEN {<<lin[1] - VmaDir, lin[2]>>}
                 ELSE IF lin \in {<<ApicDir, IoApicPage>>, <<ApicDir, LApicPage>>}
                      THEN {lin} ELSE {}]

\* paging_map_4kb: one page changes.
MapPage(phy, lin) ==
    /\ live /\ UNCHANGED live
    /\ map' = [map EXCEPT ![lin] = {phy}]

\* paging_map_4mb: the pages of one directory entry change.
MapRegion(phy, lin) ==
    /\ live /\ UNCHANGED live
    /\ map' = [x \in Lin |-> IF x[1] = lin[1] THEN {<<phy[1], x[2]>>} ELSE map[x]]

Next ==
    \/ Boot
    \/ \E phy \in CallFrames, lin \in CallLins :
          MapPage(phy, lin) \/ MapRegion(phy, lin)

Spec == Init /\ [][Next]_<<map, live>>
=============================================================================
