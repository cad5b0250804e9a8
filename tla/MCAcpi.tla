------------------------------- MODULE MCAcpi -------------------------------
(* The kernel is linked at directory entry 2 of 4, and the pool has two    *)
(* tables, one of them the APICs'.  The RSDT lies in the kernel's 4 MiB,   *)
(* below the I/O APIC, beside it, across two regions one of which shares   *)
(* the APICs' table, across two that do not and take more tables than the  *)
(* pool has, in an ordinary place, or in the last page of physical memory. *)
EXTENDS Acpi

MCEbdaRsdts   == {<<2, 1>>}
MCBiosRsdts   == {<<0, 5>>, <<1, 0>>, <<1, 5>>, <<1, 6>>, <<2, 1>>, <<2, 6>>,
                  <<3, 6>>}
MCTableFrames == {<<0, 6>>, <<1, 2>>, <<2, 1>>, <<2, 2>>}
NoCalls       == {}
=============================================================================
