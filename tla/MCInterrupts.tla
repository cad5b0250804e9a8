---------------------------- MODULE MCInterrupts ----------------------------
(* Small instances of Interrupts. *)
EXTENDS Interrupts
=============================================================================
