-------------------------------- MODULE Rtc --------------------------------
(***************************************************************************)
(* cmos_read_rtc (ksrc/drivers/MC146818.c): the main flow reads the        *)
(* real-time clock register by register while the clock, which nothing     *)
(* stops, moves on to the next second.                                     *)
(*                                                                         *)
(* The chip announces an update: the update-in-progress bit is set, and    *)
(* the registers keep their values for a while yet (244 microseconds);     *)
(* then they are undefined until the bit is cleared with the next second   *)
(* in place.  Time is counted in register accesses of the main flow, which *)
(* runs with interrupts off: Lead is the number of accesses that fit       *)
(* between the bit and the update, Rest a number that certainly fits       *)
(* between one update and the announcement of the next.                    *)
(***************************************************************************)
EXTENDS Integers, Sequences

CONSTANTS
    Lead,       \* accesses between the update-in-progress bit and the update
    Rest,       \* accesses between an update and the next update-in-progress bit
    Instants,   \* the seconds the clock goes through, as a sequence of records
    Modes       \* the ways the firmware may have set up the chip

\* The order of the reads.  The century is read twice: the argument of the
\* macro cmos_bcd2dec is evaluated two times.
Order == <<"hours", "minutes", "seconds", "date_of_month", "month", "year",
           "century", "century">>

Fields == {Order[k] : k \in DOMAIN Order}

\* Every register holds a number of two digits, the hour one below 24.
ASSUME InstantsAssumption ==
    /\ Instants \in Seq([Fields -> 0 .. 99]) /\ Instants # <<>>
    /\ \A k \in DOMAIN Instants : Instants[k].hours < 24
    /\ Modes \subseteq [bcd : BOOLEAN, h24 : BOOLEAN, century : BOOLEAN]

\* What the reads after the one test of the bit rely on.
ASSUME LeadAssumption == Lead \in Nat /\ Lead >= Len(Order) /\ Rest \in Nat \ {0}

VARIABLES
    mode,   \* register B, and whether the century byte is kept
    now,    \* index of the current second
    uip,    \* register A, update in progress
    busy,   \* the registers are being changed
    left,   \* accesses still guaranteed before the clock's next move
    pc,     \* "poll", "read", "done": where cmos_read_rtc is
    raw,    \* the bytes read so far, in the order of Order
    rtc,    \* the structure the caller gets
    seen    \* the seconds during which the call was running

clock == <<mode, now, uip, busy, left>>
vars  == <<mode, now, uip, busy, left, pc, raw, rtc, seen>>

-----------------------------------------------------------------------------
(* The chip.                                                               *)

Dec2bcd(n) == (n \div 10) * 16 + (n % 10)

\* Hours in the twelve-hour mode: 1 to 12, and bit 7 set in the afternoon.
Hour12(h) == IF h % 12 = 0 THEN 12 ELSE h % 12

\* The byte register f holds at instant i; the firmware keeps the century in
\* BCD, or leaves its byte zero.
Stored(f, i) ==
    LET n      == Instants[i][f]
        enc(v) == IF mode.bcd THEN Dec2bcd(v) ELSE v
    IN  CASE f = "century" -> IF mode.century THEN Dec2bcd(n) ELSE 0
          [] f = "hours" /\ ~mode.h24 -> enc(Hour12(n)) + IF n >= 12 THEN 128 ELSE 0
          [] OTHER -> enc(n)

\* What a read may return: while the registers change, the old value, the new
\* one, or neither.
Readable(f) == IF busy THEN {Stored(f, now), Stored(f, now + 1), 255} ELSE {Stored(f, now)}

\* The update is announced ...
RaiseUip ==
    /\ ~uip /\ now < Len(Instants)
    /\ left = 0 \/ pc = "done"
    /\ uip' = TRUE /\ left' = Lead
    /\ UNCHANGED <<mode, now, busy, pc, raw, rtc, seen>>

\* ... begins ...
BeginUpdate ==
    /\ uip /\ ~busy
    /\ left = 0 \/ pc = "done"
    /\ busy' = TRUE
    /\ UNCHANGED <<mode, now, uip, left, pc, raw, rtc, seen>>

\* ... and ends with the next second in the registers.
EndUpdate ==
    /\ busy
    /\ busy' = FALSE /\ uip' = FALSE /\ now' = now + 1 /\ left' = Rest
    /\ seen' = IF pc = "done" THEN seen ELSE seen \cup {now + 1}
    /\ UNCHANGED <<mode, pc, raw, rtc>>

Clock == RaiseUip \/ BeginUpdate \/ EndUpdate

-----------------------------------------------------------------------------
(* The driver.                                                             *)

\* An access to the chip takes its time.
Access == left' = IF left = 0 THEN 0 ELSE left - 1

UpdateInProgressNever == FALSE
UpdateInProgressAlways == TRUE

\* cmos_read() & 0x80 of register A.
UpdateInProgress == uip

\* while( cmos_read() & 0x80 ): one turn of the loop.
Poll ==
    /\ pc = "poll"
    /\ pc' = IF UpdateInProgress THEN "poll" ELSE "read"
    /\ Access
    /\ UNCHANGED <<mode, now, uip, busy, raw, rtc, seen>>

\* cmos_select and cmos_read of the next register.
Read ==
    /\ pc = "read" /\ Len(raw) < Len(Order)
    /\ \E b \in Readable(Order[Len(raw) + 1]) : raw' = Append(raw, b)
    /\ Access
    /\ UNCHANGED <<mode, now, uip, busy, pc, rtc, seen>>

Bcd2decHex(low, high) == (low % 16) + (high \div 16) * 16

\* cmos_bcd2dec(CHAR), whose argument is read once for each digit.
Bcd2dec(low, high) == (low % 16) + (high \div 16) * 10

\* hours += 12 when the chip is in the twelve-hour mode: morning or afternoon,
\* and with the afternoon's bit in the byte.
Hours(h) == IF mode.h24 THEN h ELSE h + 12

\* year += century * 100, if there is a century.
Year(year, century) == IF century = 0 THEN year ELSE year + century * 100

\* Register B, the conversions it asks for, and the return.
Convert ==
    /\ pc = "read" /\ Len(raw) = Len(Order)
    /\ LET value(k) == IF mode.bcd THEN Bcd2dec(raw[k], raw[k]) ELSE raw[k]
           century  == Bcd2dec(raw[7], raw[8])
       IN  rtc' = [hours |-> Hours(value(1)), minutes |-> value(2), seconds |-> value(3),
                   date_of_month |-> value(4), month |-> value(5),
                   year |-> Year(value(6), century), century |-> century]
    /\ pc' = "done"
    /\ Access
    /\ UNCHANGED <<mode, now, uip, busy, raw, seen>>

Cpu == Poll \/ Read \/ Convert

-----------------------------------------------------------------------------

NoTime == [f \in Fields |-> 0]

\* The clock may be anywhere in its second when kmain calls.
Init ==
    /\ mode \in Modes
    /\ now \in 1 .. Len(Instants) /\ seen = {now}
    /\ \/ uip = FALSE /\ busy = FALSE /\ left \in 0 .. Rest
       \/ uip = TRUE /\ busy = FALSE /\ left \in 0 .. Lead /\ now < Len(Instants)
       \/ uip = TRUE /\ busy = TRUE /\ left = 0 /\ now < Len(Instants)
    /\ pc = "poll" /\ raw = <<>> /\ rtc = NoTime

Next == Clock \/ Cpu

Spec == Init /\ [][Next]_vars

\* The processor executes the function, the chip keeps time.
FairSpec == Spec /\ WF_vars(Cpu) /\ WF_vars(BeginUpdate) /\ WF_vars(EndUpdate)

-----------------------------------------------------------------------------
(* Properties.                                                             *)

\* The clock's registers are bytes, and what cmos_read_rtc stores for the
\* caller are numbers, the century one of two digits.
TypeOK ==
    /\ mode \in Modes
    /\ now \in 1 .. Len(Instants)
    /\ uip \in BOOLEAN /\ busy \in BOOLEAN
    /\ left \in Nat
    /\ pc \in {"poll", "read", "done"}
    /\ raw \in Seq(0 .. 255) /\ Len(raw) <= Len(Order)
    /\ rtc \in [Fields -> Nat] /\ rtc.century <= 99
    /\ seen \subseteq 1 .. Len(Instants)

\* The bytes cmos_read_rtc has read, the two reads of the century included,
\* are those of one second of the clock, although the update flag is tested
\* only before the first of them and the update may be announced right after
\* the test.
NotTorn == \E i \in seen : \A k \in DOMAIN raw : raw[k] = Stored(Order[k], i)

\* The date and time the caller gets are those of a second during which the
\* call was running, whichever of the BCD and binary modes the firmware has
\* chosen, with the full year where the firmware keeps the century.  The hour
\* is promised for the twenty-four-hour mode only.
ReadsOneInstant ==
    pc = "done" =>
        \E i \in seen :
            LET t == Instants[i] IN
            /\ \A f \in {"minutes", "seconds", "date_of_month", "month"} : rtc[f] = t[f]
            /\ mode.h24 => rtc.hours = t.hours
            /\ rtc.year = IF mode.century THEN t.century * 100 + t.year ELSE t.year

\* The wait for the end of an update ends: cmos_read_rtc returns, whenever it
\* is called.
CallReturns == <>(pc = "done")
=============================================================================
