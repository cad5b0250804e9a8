---------------------------- MODULE MCScreenText ----------------------------
(* ScreenText as it stands; the cfg gives the screen and the alphabet.      *)
EXTENDS ScreenText
=============================================================================
