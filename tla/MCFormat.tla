------------------------------ MODULE MCFormat ------------------------------
(* Format strings over 'b' and the characters of the four conversions;     *)
(* numbers at the edges of a byte and of the decimal and hexadecimal digits. *)
EXTENDS Format

MCChars     == {98, 37, 115, 117, 100, 120}
MCUnsigneds == {0, 9, 10, 100, 127, 255}
MCSigneds   == {-128, -10, -1, 0, 127}
MCStrings   == {<<>>, <<37>>, <<98, 117>>}
=============================================================================
