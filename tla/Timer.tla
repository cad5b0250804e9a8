-------------------------------- MODULE Timer --------------------------------
(***************************************************************************)
(* The LAPIC timer as ksrc/drivers/82489DX.c calibrates and configures it, *)
(* and the busy-wait delays of ksrc/timer.c that poll its current count    *)
(* while it counts down and reloads.  timer_delay_us and timer_delay_ms    *)
(* run the same loop on different rates.                                   *)
(***************************************************************************)
EXTENDS Integers

CONSTANTS
    Word,         \* 2^32: the registers and the code's integers wrap around here
    Fallback,     \* ticks per ms when the calibration measured nothing
    CalWindow,    \* milliseconds the calibration measures (10)
    Ratio,        \* 1000: ms per period in the ICR, us per ms
    Measured,     \* ticks the LAPIC may count during the calibration
    Amounts,      \* arguments of the delay functions
    ZeroVisible,  \* the counter shows 0 for one tick before it is reloaded
    MaxGap,       \* most ticks between two polls of the loop
    MaxTicks      \* bound on the ticks followed during one delay

ASSUME TimerAssumption ==
    /\ Word \in Nat \ {0} /\ Fallback \in Nat \ {0}
    /\ CalWindow \in Nat \ {0} /\ Ratio \in Nat \ {0}
    /\ Measured \subseteq Nat /\ Amounts \subseteq Nat
    /\ ZeroVisible \in BOOLEAN
    /\ MaxGap \in Nat \ {0} /\ MaxTicks \in Nat

VARIABLES
    icr, ccr,      \* LAPIC initial count and current count
    mode,          \* LVTTR: "oneshot" or "periodic"
    perMs, perUs,  \* lapic_ticks_per_ms, lapic_ticks_per_us
    pc,            \* where the kernel is
    wait,          \* wait_ticks
    last,          \* last_count
    asked,         \* ticks asked for, before the product is cut to a word
    since,         \* ticks since the loop's first read of the count
    gap,           \* ticks since the loop's last read
    wrapped,       \* the counter was reloaded since the loop's last read
    laps           \* reloads since the loop's first read

loop  == <<wait, last, asked, since, gap, wrapped, laps>>
lapic == <<icr, ccr, mode>>
vars  == <<lapic, perMs, perUs, pc, loop>>

Init ==
    /\ icr = 0 /\ ccr = 0 /\ mode = "oneshot"
    /\ perMs = 0 /\ perUs = 0
    /\ pc = "boot"
    /\ wait = 0 /\ last = 0 /\ asked = 0
    /\ since = 0 /\ gap = 0 /\ wrapped = FALSE /\ laps = 0

-----------------------------------------------------------------------------
(* Calibration and configuration.                                          *)

\* lapic_timer_calibrate: the one-shot counter runs down from the largest
\* word during pit_wait_ms(10) and stays at 0 when it gets there; the quotient
\* is replaced by the fallback when it is 0.
RateOf(ticks) ==
    LET current == IF ticks < Word - 1 THEN Word - 1 - ticks ELSE 0
        rate    == (Word - 1 - current) \div CalWindow
    IN  IF rate = 0 THEN Fallback ELSE rate

LvtModeOneshot == "oneshot"

\* The mode lapic_timer_config programs in the LVT entry.
LvtMode == "periodic"

\* The count lapic_timer_config programs: a 32-bit product.
PeriodOf(rate) == (rate * Ratio) % Word

\* lapic_timer_config, with its call of lapic_timer_calibrate.
Configure(ticks) ==
    /\ pc = "boot" /\ pc' = "ready"
    /\ perMs' = RateOf(ticks)
    /\ perUs' = RateOf(ticks) \div Ratio
    /\ mode' = LvtMode
    /\ icr' = PeriodOf(RateOf(ticks))
    /\ ccr' = PeriodOf(RateOf(ticks))
    /\ UNCHANGED loop

-----------------------------------------------------------------------------
(* timer_delay_ms and timer_delay_us.                                      *)

\* Entry: the product, and the first read of the count.
Delay(rate, amount) ==
    /\ pc = "ready" /\ pc' = "loop"
    /\ asked' = rate * amount
    /\ wait' = (rate * amount) % Word
    /\ last' = ccr
    /\ since' = 0 /\ gap' = 0 /\ wrapped' = FALSE /\ laps' = 0
    /\ UNCHANGED <<lapic, perMs, perUs>>

DelayMs(ms) == Delay(perMs, ms)
DelayUs(us) == Delay(perUs, us)

CountedUnsigned(previous, current, initial) ==
    IF current <= previous THEN previous - current ELSE Word + previous - current

CountedNoWrap(previous, current, initial) ==
    IF current <= previous THEN previous - current ELSE 0

\* The ticks one turn of the loop believes to have passed.
Counted(previous, current, initial) ==
    IF current <= previous THEN previous - current
    ELSE previous + (initial - current)

RemainingUnclamped(left, delta) == left - delta

\* What is left of wait_ticks.
Remaining(left, delta) == IF delta >= left THEN 0 ELSE left - delta

\* One turn of the loop.
Poll ==
    /\ pc = "loop" /\ wait > 0
    /\ wait' = Remaining(wait, Counted(last, ccr, icr))
    /\ last' = ccr
    /\ gap' = 0 /\ wrapped' = FALSE
    /\ UNCHANGED <<lapic, perMs, perUs, pc, asked, since, laps>>

\* The loop ends; the caller goes on.
Return ==
    /\ pc = "loop" /\ wait = 0
    /\ pc' = "ready"
    /\ UNCHANGED <<lapic, perMs, perUs, loop>>

-----------------------------------------------------------------------------
(* The hardware counter (external).                                        *)

AtEnd == ccr = IF ZeroVisible THEN 0 ELSE 1

\* A tick of the counter.  A count of 0 in the ICR stops the timer, and so
\* does the end of a one-shot count.
Counts(next, reloaded) ==
    /\ ccr' = next
    /\ IF pc = "loop" /\ wait > 0
       THEN /\ gap < MaxGap /\ since < MaxTicks
            /\ since' = since + 1 /\ gap' = gap + 1
            /\ wrapped' = (wrapped \/ reloaded)
            /\ laps' = IF reloaded THEN laps + 1 ELSE laps
       ELSE UNCHANGED <<since, gap, wrapped, laps>>
    /\ UNCHANGED <<icr, mode, perMs, perUs, pc, wait, last, asked>>

Down   == ccr > 0 /\ ~(AtEnd /\ mode = "periodic") /\ Counts(ccr - 1, FALSE)
Reload == icr > 0 /\ AtEnd /\ mode = "periodic" /\ Counts(icr, TRUE)
Tick   == Down \/ Reload

Next ==
    \/ \E ticks \in Measured : Configure(ticks)
    \/ \E n \in Amounts : DelayMs(n)
    \/ \E n \in Amounts : DelayUs(n)
    \/ Poll \/ Return
    \/ Down \/ Reload

Spec == Init /\ [][Next]_vars

\* The CPU keeps executing the loop, and the counter keeps counting.
FairSpec == Spec /\ WF_vars(Poll \/ Return) /\ WF_vars(Tick)

-----------------------------------------------------------------------------
(* Properties.                                                             *)

\* Counts and rates are words; once configured the counter stays in its period.
TypeOK ==
    /\ icr \in 0 .. Word - 1 /\ ccr \in 0 .. icr
    /\ mode \in {"oneshot", "periodic"}
    /\ perMs \in Nat /\ perUs \in Nat
    /\ pc \in {"boot", "ready", "loop"}
    /\ wait \in 0 .. Word - 1 /\ last \in 0 .. icr
    /\ asked \in Nat /\ since \in Nat /\ gap \in Nat /\ laps \in Nat
    /\ wrapped \in BOOLEAN

Elapsed == pc = "loop" /\ wait = 0

\* No delay ends early: when the loop of timer_delay_ms or timer_delay_us ends,
\* at least the ticks asked for have gone by since it first read the count, no
\* matter how often the counter was reloaded, where in its period the loop
\* started, or how long an interrupt kept the loop from polling.  Only a
\* product that does not fit in 32 bits is outside the promise.
NeverEarly == Elapsed /\ asked < Word => since >= asked

\* A loop that polls at least once a period overshoots by less than one gap
\* between polls, plus one tick per reload on hardware whose counter shows 0.
Punctual ==
    Elapsed /\ MaxGap < icr
        => since < (asked % Word) + MaxGap + (IF ZeroVisible THEN laps ELSE 0)

\* Every delay ends, provided the loop polls at least once a period.
DelayReturns == (pc = "loop" /\ MaxGap < icr) ~> (pc = "ready")
=============================================================================
