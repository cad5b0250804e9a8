------------------------------ MODULE MCPaging ------------------------------
(* Small instances of Paging: the kernel is linked at directory entry 2;  *)
(* later callers map two frames at pages of the other entries and at a page *)
(* inside the kernel's own.                                                 *)
EXTENDS Paging

MCCallLins   == {<<d, p>> : d \in {0, 1, 3}, p \in {0, 1}} \cup {<<2, 3>>}
MCCallFrames == {<<0, 3>>, <<1, 1>>}
=============================================================================
