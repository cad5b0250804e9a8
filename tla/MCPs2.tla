------------------------------- MODULE MCPs2 -------------------------------
(* The PS/2 start-up with short counters.  A movement of the mouse may look *)
(* like an ACK.                                                            *)
EXTENDS Ps2

MCValues == [kbd |-> {28}, mouse |-> {8, Ack}]
=============================================================================
