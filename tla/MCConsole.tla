------------------------------ MODULE MCConsole ------------------------------
(* Console as it stands; the cfg gives the geometry of the screen.          *)
EXTENDS Console
=============================================================================
