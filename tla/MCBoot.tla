------------------------------- MODULE MCBoot -------------------------------
(* Stub addresses that exercise every bit of the offset, one at a time and  *)
(* all together; the page tables are those of MCPaging.                     *)
EXTENDS Boot

MCStubTables == {[v \in Vectors |-> {30, 31, b} \cup (IF v % 2 = 0 THEN {} ELSE {3})] :
                    b \in 0 .. 29}
                \cup {[v \in Vectors |-> 0 .. 31]}
NoCalls == {}
=============================================================================
