------------------------------- MODULE MCTimer -------------------------------
(* Timer with words of 32 values: the cfg gives rates, gaps and amounts.    *)
EXTENDS Timer
=============================================================================
