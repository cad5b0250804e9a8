-------------------------------- MODULE Pic --------------------------------
(***************************************************************************)
(* The pair of 8259A interrupt controllers and what ksrc/drivers/8259A.c   *)
(* writes to them.  Both ports of a chip take several kinds of words: what *)
(* a byte means depends on the bytes before it.                            *)
(***************************************************************************)
EXTENDS Integers, Sequences

Chips == {"master", "slave"}

\* next is the initialisation word the chip waits for next, 0 for none; needs4
\* and single are what the first of them said; base, cascade, mode and mask are
\* the registers.
Chip == [next : {0, 2, 3, 4}, needs4 : BOOLEAN, single : BOOLEAN,
         base : 0 .. 255, cascade : 0 .. 255, mode : 0 .. 255, mask : 0 .. 255]

BitOf(byte, k) == (byte \div 2 ^ k) % 2 = 1

\* A byte for the command port: with bit 4 it starts the initialisation, which
\* clears the mask; otherwise it is an EOI or a mode the kernel does not use.
Command(c, byte) ==
    IF BitOf(byte, 4)
    THEN [c EXCEPT !.next = 2, !.needs4 = BitOf(byte, 0), !.single = BitOf(byte, 1),
                   !.mask = 0, !.mode = 0]
    ELSE c

\* A byte for the data port: the initialisation word awaited, else the mask.
Data(c, byte) ==
    LET last == IF c.needs4 THEN 4 ELSE 0 IN
    CASE c.next = 2 -> [c EXCEPT !.base = byte, !.next = IF c.single THEN last ELSE 3]
      [] c.next = 3 -> [c EXCEPT !.cascade = byte, !.next = last]
      [] c.next = 4 -> [c EXCEPT !.mode = byte, !.next = 0]
      [] c.next = 0 -> [c EXCEPT !.mask = byte]

Write(cs, w) ==
    [cs EXCEPT ![w.chip] = IF w.port = "command" THEN Command(@, w.byte) ELSE Data(@, w.byte)]

-----------------------------------------------------------------------------

To(chip, port, byte) == [chip |-> chip, port |-> port, byte |-> byte]

IcwsThree(chip, vec, icw3) ==
    <<To(chip, "command", 17), To(chip, "data", vec), To(chip, "data", icw3)>>

\* PIC_ICW1_IC4, PIC_ICW2_VEC, PIC_ICW3_MASTER or PIC_ICW3_SLAVE, PIC_ICW4_PM
Icws(chip, vec, icw3) ==
    <<To(chip, "command", 17), To(chip, "data", vec), To(chip, "data", icw3),
      To(chip, "data", 1)>>

\* pic_unmask_all and pic_mask_all
MaskBoth(byte) == <<To("master", "data", byte), To("slave", "data", byte)>>

\* pic_init, and kmain's pic_mask_all after it.
PicWrites ==
    Icws("master", 32, 4) \o Icws("slave", 40, 2) \o MaskBoth(0) \o MaskBoth(255)

\* pic_eio(vector), as the default interrupt handler calls it.
PicEio(cs, vector) ==
    Write(IF vector >= 40 THEN Write(cs, To("slave", "command", 32)) ELSE cs,
          To("master", "command", 32))
=============================================================================
