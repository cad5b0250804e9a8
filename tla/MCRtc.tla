------------------------------- MODULE MCRtc -------------------------------
(* The turn of a century, where every register changes in one update.      *)
EXTENDS Rtc

Second(h, m, s, d, mon, y, c) ==
    [hours |-> h, minutes |-> m, seconds |-> s, date_of_month |-> d,
     month |-> mon, year |-> y, century |-> c]

MCInstants == << Second(23, 59, 58, 31, 12, 99, 19), Second(23, 59, 59, 31, 12, 99, 19),
                 Second(0, 0, 0, 1, 1, 0, 20), Second(0, 0, 1, 1, 1, 0, 20) >>

MCModes == [bcd : BOOLEAN, h24 : BOOLEAN, century : BOOLEAN]
=============================================================================
