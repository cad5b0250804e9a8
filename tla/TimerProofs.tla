----------------------------- MODULE TimerProofs -----------------------------
EXTENDS Timer, TLAPS

\* Cutting a product to a word.
LEMMA WordCut ==
    ASSUME NEW a \in Nat
    PROVE  a % Word \in 0 .. Word - 1 /\ (a < Word => a % Word = a)
  BY TimerAssumption

\* Rates and periods are words.
LEMMA RateType ==
    ASSUME NEW t \in Nat
    PROVE  RateOf(t) \in Nat /\ RateOf(t) \div Ratio \in Nat
           /\ PeriodOf(RateOf(t)) \in 0 .. Word - 1
<1> DEFINE current == IF t < Word - 1 THEN Word - 1 - t ELSE 0
<1>1. Word - 1 - current \in Nat
  BY TimerAssumption
<1>2. (Word - 1 - current) \div CalWindow \in Nat
  BY <1>1, TimerAssumption
<1>3. RateOf(t) \in Nat
  BY <1>2, TimerAssumption DEF RateOf
<1>4. RateOf(t) \div Ratio \in Nat
  BY <1>3, TimerAssumption
<1>5. RateOf(t) * Ratio \in Nat
  BY <1>3, TimerAssumption
<1> QED BY <1>3, <1>4, <1>5, WordCut DEF PeriodOf

\* The ticks asked for, as the loop sees them.
Want == asked % Word

\* Between two reads the count has either run down by the ticks that passed
\* or been reloaded at least once, in which case at least the rest of the old
\* period and the used part of the new one have passed.
ReadsAreSound ==
    pc = "loop" =>
        /\ gap <= since
        /\ wait > 0 =>
              /\ Want - wait <= since - gap
              /\ ~wrapped => ccr = last - gap
              /\ wrapped => gap >= last + (icr - ccr)
        /\ wait = 0 => since >= Want

\* Before the configuration the counter stands still at 0.
Stopped == pc = "boot" => icr = 0

IInv == TypeOK /\ ReadsAreSound /\ Stopped

\* No delay is running at first.
LEMMA IInvInit == Init => IInv
<1> SUFFICES ASSUME Init PROVE IInv
  OBVIOUS
<1>1. Word \in Nat /\ Word > 0
  BY TimerAssumption
<1>2. TypeOK
  <2>1. wrapped \in BOOLEAN
    BY Zenon DEF Init
  <2> QED BY <1>1, <2>1 DEF Init, TypeOK
<1> QED BY <1>2 DEF Init, IInv, ReadsAreSound, Stopped

\* What one turn of the loop counts has really passed.
LEMMA CountedIsPast ==
    ASSUME IInv, pc = "loop", wait > 0
    PROVE  Counted(last, ccr, icr) \in Nat /\ Counted(last, ccr, icr) <= gap
<1>1. /\ icr \in Nat /\ ccr \in Nat /\ ccr <= icr /\ last \in Nat /\ gap \in Nat
      /\ wrapped \in BOOLEAN /\ Word \in Nat
  BY TimerAssumption DEF IInv, TypeOK
<1>2. (~wrapped => ccr = last - gap) /\ (wrapped => gap >= last + (icr - ccr))
  BY DEF IInv, ReadsAreSound
<1>3. CASE wrapped
  BY <1>1, <1>2, <1>3 DEF Counted
<1>4. CASE ~wrapped
  BY <1>1, <1>2, <1>4 DEF Counted
<1> QED BY <1>3, <1>4

\* A poll of the counter inside the delay loop.
LEMMA PollKeeps == IInv /\ Poll => IInv'
<1> SUFFICES ASSUME IInv, Poll PROVE IInv'
  OBVIOUS
<1> DEFINE delta == Counted(last, ccr, icr)
<1>1. pc = "loop" /\ wait > 0 /\ wait' = Remaining(wait, delta) /\ last' = ccr
      /\ gap' = 0 /\ wrapped' = FALSE /\ icr' = icr /\ ccr' = ccr /\ mode' = mode
      /\ perMs' = perMs /\ perUs' = perUs /\ pc' = pc /\ asked' = asked
      /\ since' = since /\ laps' = laps
  BY DEF Poll, lapic
<1>2. delta \in Nat /\ delta <= gap
  BY <1>1, CountedIsPast
<1> HIDE DEF delta
<1>3. wait \in Nat /\ wait <= Word - 1 /\ Word \in Nat /\ since \in Nat /\ gap \in Nat
      /\ asked \in Nat /\ ccr \in Nat /\ icr \in Nat
  BY TimerAssumption DEF IInv, TypeOK
<1>4. Want \in Nat /\ Want' = Want
  BY <1>1, <1>3, WordCut DEF Want
<1> HIDE DEF Want
<1>5. wait' \in 0 .. Word - 1 /\ (wait' > 0 => wait' = wait - delta)
      /\ (wait' = 0 => delta >= wait)
  BY <1>1, <1>2, <1>3 DEF Remaining
<1>6. TypeOK'
  <2>1. wrapped' \in BOOLEAN
    BY <1>1, Zenon
  <2> QED BY <1>1, <1>5, <2>1 DEF IInv, TypeOK
<1>7. ReadsAreSound'
  <2>1. Want - wait <= since - gap /\ gap <= since
    BY <1>1 DEF IInv, ReadsAreSound
  <2>2. wait' > 0 => Want - wait' <= since
    BY <2>1, <1>2, <1>3, <1>4, <1>5
  <2>3. wait' = 0 => since >= Want
    BY <2>1, <1>2, <1>3, <1>4, <1>5
  <2> QED BY <2>2, <2>3, <1>1, <1>3, <1>4 DEF ReadsAreSound
<1> QED BY <1>1, <1>6, <1>7 DEF IInv, Stopped

\* A tick adds to the gap what it takes from the count.
LEMMA TickKeeps == IInv /\ Tick => IInv'
<1> SUFFICES ASSUME IInv, Tick PROVE IInv'
  OBVIOUS
<1>0. /\ icr \in Nat /\ ccr \in Nat /\ ccr <= icr /\ last \in Nat /\ gap \in Nat
      /\ since \in Nat /\ laps \in Nat /\ wait \in Nat /\ Word \in Nat /\ asked \in Nat
      /\ icr <= Word - 1
  BY TimerAssumption DEF IInv, TypeOK
<1>1. PICK next \in 0 .. icr, reloaded \in BOOLEAN :
         /\ Counts(next, reloaded)
         /\ \/ ~reloaded /\ ccr > 0 /\ next = ccr - 1
            \/ reloaded /\ next = icr /\ ccr <= 1
  <2>1. CASE Down
    <3>1. ccr > 0 /\ Counts(ccr - 1, FALSE)
      BY <2>1, Zenon DEF Down
    <3>2. ccr - 1 \in 0 .. icr
      BY <3>1, <1>0
    <3> QED BY <3>1, <3>2, Zenon
  <2>2. CASE Reload
    <3>1. AtEnd /\ Counts(icr, TRUE)
      BY <2>2, Zenon DEF Reload
    <3>2. icr \in 0 .. icr /\ ccr <= 1
      BY <3>1, <1>0 DEF AtEnd
    <3> QED BY <3>1, <3>2, Zenon
  <2> QED BY <2>1, <2>2 DEF Tick
<1>2. /\ ccr' = next /\ icr' = icr /\ mode' = mode /\ perMs' = perMs /\ perUs' = perUs
      /\ pc' = pc /\ wait' = wait /\ last' = last /\ asked' = asked
  BY <1>1 DEF Counts
<1>3. Want \in Nat /\ Want' = Want
  BY <1>0, <1>2, WordCut DEF Want
<1> HIDE DEF Want
<1>4. CASE pc = "loop" /\ wait > 0
  <2>1. /\ since' = since + 1 /\ gap' = gap + 1 /\ wrapped' = (wrapped \/ reloaded)
        /\ laps' = IF reloaded THEN laps + 1 ELSE laps
    BY <1>1, <1>4 DEF Counts
  <2>2. TypeOK'
    <3>1. wrapped' \in BOOLEAN
      BY <2>1, Zenon
    <3>2. ccr' \in 0 .. icr /\ since' \in Nat /\ gap' \in Nat /\ laps' \in Nat
      BY <1>0, <1>1, <1>2, <2>1
    <3> QED BY <1>2, <3>1, <3>2 DEF IInv, TypeOK
  <2>3. gap <= since /\ Want - wait <= since - gap
        /\ (~wrapped => ccr = last - gap) /\ (wrapped => gap >= last + (icr - ccr))
    BY <1>4 DEF IInv, ReadsAreSound
  <2>4. ~wrapped' => ccr' = last - gap'
    <3>1. CASE reloaded
      BY <3>1, <2>1
    <3>2. CASE ~reloaded
      <4>1. ccr' = ccr - 1 /\ (~wrapped' => ~wrapped)
        BY <3>2, <1>1, <1>2, <2>1
      <4> QED BY <4>1, <1>0, <2>1, <2>3
    <3> QED BY <3>1, <3>2
  <2>5. wrapped' => gap' >= last + (icr - ccr')
    <3>1. CASE reloaded
      <4>1. gap + 1 >= last
        BY <3>1, <1>0, <1>1, <2>3
      <4> QED BY <3>1, <4>1, <1>0, <1>1, <1>2, <2>1
    <3>2. CASE ~reloaded
      BY <3>2, <1>0, <1>1, <1>2, <2>1, <2>3
    <3> QED BY <3>1, <3>2
  <2>6. ReadsAreSound'
    BY <1>0, <1>2, <1>3, <1>4, <2>1, <2>3, <2>4, <2>5 DEF ReadsAreSound
  <2> QED BY <1>2, <2>2, <2>6 DEF IInv, Stopped
<1>5. CASE ~(pc = "loop" /\ wait > 0)
  <2>1. UNCHANGED <<since, gap, wrapped, laps>>
    BY <1>1, <1>5 DEF Counts
  <2>2. TypeOK'
    BY <1>1, <1>2, <2>1 DEF IInv, TypeOK
  <2>3. ReadsAreSound'
    BY <1>0, <1>2, <1>3, <1>5, <2>1 DEF IInv, ReadsAreSound
  <2> QED BY <1>2, <2>2, <2>3 DEF IInv, Stopped
<1> QED BY <1>4, <1>5

\* Configuration and the entry of a delay.
LEMMA EntryKeeps ==
    ASSUME IInv,
           \/ \E ticks \in Measured : Configure(ticks)
           \/ \E n \in Amounts : DelayMs(n)
           \/ \E n \in Amounts : DelayUs(n)
           \/ Return
    PROVE  IInv'
<1>0. Word \in Nat /\ Word > 0 /\ icr \in Nat /\ ccr \in Nat /\ last \in Nat /\ last <= icr
  BY TimerAssumption DEF IInv, TypeOK
<1>1. ASSUME NEW ticks \in Measured, Configure(ticks) PROVE IInv'
  <2>1. ticks \in Nat
    BY TimerAssumption
  <2>2. RateOf(ticks) \in Nat /\ RateOf(ticks) \div Ratio \in Nat
        /\ PeriodOf(RateOf(ticks)) \in 0 .. Word - 1
    BY <2>1, RateType
  <2>3. last = 0
    BY <1>0, <1>1 DEF Configure, IInv, Stopped
  <2>4. TypeOK'
    BY <1>0, <1>1, <2>2, <2>3 DEF Configure, loop, IInv, TypeOK, LvtMode
  <2> QED BY <1>1, <2>4 DEF Configure, IInv, ReadsAreSound, Stopped
<1>2. ASSUME NEW rate \in Nat, NEW n \in Nat, Delay(rate, n) PROVE IInv'
  <2>1. rate * n \in Nat
    OBVIOUS
  <2>2. (rate * n) % Word \in 0 .. Word - 1
    BY <2>1, WordCut
  <2>3. /\ asked' = rate * n /\ wait' = (rate * n) % Word /\ last' = ccr /\ since' = 0 /\ gap' = 0
        /\ wrapped' = FALSE /\ laps' = 0 /\ pc' = "loop" /\ icr' = icr /\ ccr' = ccr
        /\ mode' = mode /\ perMs' = perMs /\ perUs' = perUs
    BY <1>2 DEF Delay, lapic
  <2>4. TypeOK'
    <3>1. wrapped' \in BOOLEAN
      BY <2>3, Zenon
    <3>2. asked' \in Nat /\ wait' \in 0 .. Word - 1
      BY <2>1, <2>2, <2>3, Zenon
    <3> QED BY <2>3, <3>1, <3>2 DEF IInv, TypeOK
  <2>5. Want' = wait' /\ wait' \in Nat
    BY <1>0, <2>2, <2>3 DEF Want
  <2>6. ReadsAreSound'
    BY <1>0, <2>3, <2>5 DEF ReadsAreSound
  <2> QED BY <2>3, <2>4, <2>6 DEF IInv, Stopped
<1>3. CASE Return
  <2>1. /\ pc' = "ready" /\ UNCHANGED <<icr, ccr, mode, perMs, perUs, wait, last, asked, since,
                                       gap, wrapped, laps>>
    BY <1>3 DEF Return, lapic, loop
  <2> QED BY <2>1 DEF IInv, TypeOK, ReadsAreSound, Stopped
<1>4. perMs \in Nat /\ perUs \in Nat /\ Amounts \subseteq Nat
  BY TimerAssumption DEF IInv, TypeOK
<1> QED BY <1>1, <1>2, <1>3, <1>4 DEF DelayMs, DelayUs

\* The invariant holds for every word width, rate, amount and spacing of the
\* polls, and for both kinds of counter.
THEOREM TimerInvariant == Spec => []IInv
<1>1. IInv /\ [Next]_vars => IInv'
  <2> SUFFICES ASSUME IInv, [Next]_vars PROVE IInv'
    OBVIOUS
  <2>1. CASE Poll
    BY <2>1, PollKeeps
  <2>2. CASE Down \/ Reload
    BY <2>2, TickKeeps DEF Tick
  <2>3. CASE \/ \E ticks \in Measured : Configure(ticks)
             \/ \E n \in Amounts : DelayMs(n)
             \/ \E n \in Amounts : DelayUs(n)
             \/ Return
    BY <2>3, EntryKeeps
  <2>4. CASE UNCHANGED vars
    BY <2>4 DEF vars, lapic, loop, IInv, TypeOK, ReadsAreSound, Stopped, Want
  <2> QED BY <2>1, <2>2, <2>3, <2>4 DEF Next
<1> QED BY <1>1, IInvInit, PTL DEF Spec

\* Registers and rates stay words, the count within its period.
THEOREM TimerTypes == Spec => []TypeOK
<1>1. IInv => TypeOK
  BY DEF IInv
<1> QED BY <1>1, TimerInvariant, PTL

\* No delay of timer.c ends early.
THEOREM DelaysNeverEarly == Spec => []NeverEarly
<1>1. IInv => NeverEarly
  <2> SUFFICES ASSUME IInv, Elapsed, asked < Word PROVE since >= asked
    BY DEF NeverEarly
  <2>1. asked \in Nat
    BY DEF IInv, TypeOK
  <2>2. Want = asked
    BY <2>1, WordCut DEF Want
  <2>3. since >= Want
    BY DEF IInv, ReadsAreSound, Elapsed
  <2> QED BY <2>2, <2>3
<1> QED BY <1>1, TimerInvariant, PTL

-----------------------------------------------------------------------------
(* How late a delay can end.                                               *)

\* The ticks since the loop's first read, at its last read, at which the
\* counter stood at 0 and which the loop does not count.
ZerosRead == IF ZeroVisible THEN (IF wrapped THEN laps - 1 ELSE laps) ELSE 0
Zeros     == IF ZeroVisible THEN laps ELSE 0
Zero      == IF ZeroVisible THEN 1 ELSE 0

\* A counter that does not show 0 never holds it.
NoZero ==
    /\ pc # "boot" => mode = "periodic"
    /\ ~ZeroVisible /\ icr > 0 => ccr >= 1 /\ (pc = "loop" => last >= 1)

\* With a poll in every period the inequalities of ReadsAreSound are
\* equalities: between two reads the counter is reloaded at most once, and
\* the loop misses nothing but the ticks at 0.
Accounted ==
    pc = "loop" /\ MaxGap < icr =>
        /\ wait > 0 => /\ gap <= MaxGap
                       /\ wrapped => gap = last + (icr - ccr) + Zero
                       /\ since - gap = (Want - wait) + ZerosRead
        /\ wait = 0 => since < Want + MaxGap + Zeros

LateInv == NoZero /\ Accounted

\* One turn of the loop counts all ticks since the last one but the one at 0.
LEMMA CountedExactly ==
    ASSUME IInv, LateInv, pc = "loop", wait > 0, MaxGap < icr
    PROVE  Counted(last, ccr, icr) = IF wrapped THEN gap - Zero ELSE gap
<1>1. /\ icr \in Nat /\ ccr \in Nat /\ ccr <= icr /\ last \in Nat /\ gap \in Nat
      /\ wrapped \in BOOLEAN /\ MaxGap \in Nat /\ Zero \in Nat
  BY TimerAssumption DEF IInv, TypeOK, Zero
<1>2. gap <= MaxGap /\ (~wrapped => ccr = last - gap)
      /\ (wrapped => gap = last + (icr - ccr) + Zero)
  BY DEF IInv, ReadsAreSound, LateInv, Accounted
<1> HIDE DEF Zero
<1>3. CASE wrapped
  <2>1. ccr > last
    BY <1>1, <1>2, <1>3
  <2> QED BY <2>1, <1>1, <1>2, <1>3 DEF Counted
<1>4. CASE ~wrapped
  BY <1>1, <1>2, <1>4 DEF Counted
<1> QED BY <1>3, <1>4

\* A poll keeps the account of what the loop may overshoot.
LEMMA LatePoll == IInv /\ LateInv /\ Poll => LateInv'
<1> SUFFICES ASSUME IInv, LateInv, Poll PROVE LateInv'
  OBVIOUS
<1> DEFINE delta == Counted(last, ccr, icr)
<1>1. pc = "loop" /\ wait > 0 /\ wait' = Remaining(wait, delta) /\ last' = ccr
      /\ gap' = 0 /\ ~wrapped' /\ icr' = icr /\ ccr' = ccr /\ mode' = mode
      /\ pc' = pc /\ asked' = asked /\ since' = since /\ laps' = laps
  BY DEF Poll, lapic
<1>2. wait \in Nat /\ since \in Nat /\ gap \in Nat /\ laps \in Nat /\ MaxGap \in Nat
      /\ asked \in Nat /\ wrapped \in BOOLEAN /\ icr \in Nat
  BY TimerAssumption DEF IInv, TypeOK
<1>3. Want \in Nat /\ Want' = Want
  BY <1>1, <1>2, WordCut DEF Want
<1> HIDE DEF Want
<1>4. NoZero'
  BY <1>1 DEF LateInv, NoZero
<1>5. ASSUME MaxGap < icr
      PROVE  /\ wait' > 0 => since = (Want - wait') + ZerosRead'
             /\ wait' = 0 => since < Want + MaxGap + Zeros'
  <2>1. gap <= MaxGap /\ since - gap = (Want - wait) + ZerosRead
    BY <1>1, <1>5 DEF LateInv, Accounted
  <2>2. delta = IF wrapped THEN gap - Zero ELSE gap
    BY <1>1, <1>5, CountedExactly
  <2>3. ZerosRead' = Zeros /\ Zeros' = Zeros /\ Zeros \in Nat
    BY <1>1, <1>2 DEF ZerosRead, Zeros
  <2>4. ZerosRead = IF wrapped THEN Zeros - Zero ELSE Zeros
    BY <1>2 DEF ZerosRead, Zeros, Zero
  <2>5. Zero \in Nat /\ delta \in Int
    BY <1>2, <2>2 DEF Zero
  <2> HIDE DEF delta, Zero, Zeros, ZerosRead
  <2>6. CASE delta >= wait
    <3>1. wait' = 0
      BY <1>1, <2>6 DEF Remaining
    <3>2. ZerosRead <= Zeros /\ ZerosRead \in Int
      BY <2>3, <2>4, <2>5
    <3> QED BY <3>1, <3>2, <1>1, <1>2, <1>3, <2>1, <2>3
  <2>7. CASE delta < wait
    <3>1. wait' = wait - delta /\ wait' > 0
      BY <1>1, <1>2, <2>5, <2>7 DEF Remaining
    <3>2. since = (Want - wait) + ZerosRead + gap
      BY <1>2, <1>3, <2>1, <2>3, <2>4, <2>5
    <3>3. ZerosRead + gap = Zeros + delta
      BY <1>2, <2>2, <2>3, <2>4, <2>5
    <3> QED BY <3>1, <3>2, <3>3, <1>2, <1>3, <2>3, <2>4, <2>5
  <2> QED BY <2>6, <2>7, <2>5, <1>2
<1>6. Accounted'
  BY <1>1, <1>2, <1>3, <1>5 DEF Accounted
<1> QED BY <1>4, <1>6 DEF LateInv

\* A tick is counted by the next turn of the loop, or is the reload's.
LEMMA LateTick == IInv /\ LateInv /\ Tick => LateInv'
<1> SUFFICES ASSUME IInv, LateInv, Tick PROVE LateInv'
  OBVIOUS
<1>0. /\ icr \in Nat /\ ccr \in Nat /\ ccr <= icr /\ last \in Nat /\ gap \in Nat
      /\ since \in Nat /\ laps \in Nat /\ wait \in Nat /\ asked \in Nat /\ MaxGap \in Nat
      /\ wrapped \in BOOLEAN /\ ZeroVisible \in BOOLEAN
  BY TimerAssumption DEF IInv, TypeOK
<1>1. PICK next \in Int, reloaded \in BOOLEAN :
         /\ Counts(next, reloaded)
         /\ \/ ~reloaded /\ ccr > 0 /\ next = ccr - 1 /\ ~(AtEnd /\ mode = "periodic")
            \/ reloaded /\ next = icr /\ icr > 0 /\ AtEnd /\ mode = "periodic"
  <2>1. CASE Down
    <3>1. ccr > 0 /\ ~(AtEnd /\ mode = "periodic") /\ Counts(ccr - 1, FALSE)
      BY <2>1, Zenon DEF Down
    <3>2. ccr - 1 \in Int
      BY <1>0
    <3> QED BY <3>1, <3>2, Zenon
  <2>2. CASE Reload
    <3>1. icr > 0 /\ AtEnd /\ mode = "periodic" /\ Counts(icr, TRUE)
      BY <2>2, Zenon DEF Reload
    <3>2. icr \in Int
      BY <1>0
    <3> QED BY <3>1, <3>2, Zenon
  <2> QED BY <2>1, <2>2 DEF Tick
<1>2. /\ ccr' = next /\ icr' = icr /\ mode' = mode
      /\ pc' = pc /\ wait' = wait /\ last' = last /\ asked' = asked
  BY <1>1 DEF Counts
<1>3. Want \in Nat /\ Want' = Want
  BY <1>0, <1>2, WordCut DEF Want
<1> HIDE DEF Want
<1>4. NoZero'
  <2>1. pc' # "boot" => mode' = "periodic"
    BY <1>2 DEF LateInv, NoZero
  <2>2. ASSUME ~ZeroVisible, icr > 0
        PROVE  next >= 1 /\ (pc = "loop" => last >= 1)
    <3>1. ccr >= 1 /\ (pc = "loop" => last >= 1)
      BY <2>2 DEF LateInv, NoZero
    <3>2. mode = "periodic"
      BY <2>2, <1>0 DEF IInv, Stopped, LateInv, NoZero
    <3>3. ~reloaded => ccr # 1
      BY <1>1, <2>2, <3>2 DEF AtEnd
    <3> QED BY <3>1, <3>3, <1>0, <1>1, <2>2
  <2> QED BY <1>2, <2>1, <2>2 DEF NoZero
<1>5. ASSUME pc = "loop", MaxGap < icr, wait = 0
      PROVE  since' < Want + MaxGap + Zeros'
  <2>1. UNCHANGED <<since, laps>>
    BY <1>1, <1>5 DEF Counts
  <2>2. since < Want + MaxGap + Zeros
    BY <1>5 DEF LateInv, Accounted
  <2> QED BY <2>1, <2>2 DEF Zeros
<1>6. ASSUME pc = "loop", MaxGap < icr, wait > 0
      PROVE  /\ gap' <= MaxGap
             /\ wrapped' => gap' = last + (icr - ccr') + Zero
             /\ since' - gap' = (Want - wait) + ZerosRead'
  <2>1. /\ since' = since + 1 /\ gap' = gap + 1 /\ wrapped' = (wrapped \/ reloaded)
        /\ laps' = (IF reloaded THEN laps + 1 ELSE laps) /\ gap < MaxGap
    BY <1>1, <1>6 DEF Counts
  <2>2. /\ gap <= MaxGap /\ since - gap = (Want - wait) + ZerosRead
        /\ wrapped => gap = last + (icr - ccr) + Zero
    BY <1>6 DEF LateInv, Accounted
  <2>3. ~wrapped => ccr = last - gap
    BY <1>6 DEF IInv, ReadsAreSound
  <2>4. Zero \in Nat /\ (reloaded => ccr = 1 - Zero)
    BY <1>1 DEF Zero, AtEnd
  <2>5. reloaded => ~wrapped
    <3> SUFFICES ASSUME reloaded, wrapped PROVE FALSE
      OBVIOUS
    <3>1. gap = last + (icr - ccr) + Zero /\ ccr = 1 - Zero
      BY <2>2, <2>4
    <3>2. last >= 1 \/ Zero = 1
      BY <1>6, <1>0 DEF LateInv, NoZero, Zero
    <3> HIDE DEF Zero
    <3> QED BY <3>1, <3>2, <1>0, <1>6, <2>1, <2>4
  <2>6. ASSUME wrapped'
        PROVE  gap' = last + (icr - ccr') + Zero
    <3> HIDE DEF Zero
    <3>1. CASE reloaded
      <4>1. ccr = last - gap /\ ccr' = icr /\ ccr = 1 - Zero
        BY <3>1, <1>1, <1>2, <2>3, <2>4, <2>5
      <4> QED BY <4>1, <1>0, <2>1, <2>4
    <3>2. CASE ~reloaded
      <4>1. wrapped /\ ccr' = ccr - 1
        BY <3>2, <2>6, <2>1, <1>1, <1>2
      <4> QED BY <4>1, <1>0, <2>1, <2>2, <2>4
    <3> QED BY <3>1, <3>2
  <2>7. ZerosRead' = ZerosRead
    <3>1. CASE reloaded
      BY <3>1, <1>0, <2>1, <2>5 DEF ZerosRead
    <3>2. CASE ~reloaded
      <4>1. wrapped' = wrapped /\ laps' = laps
        BY <3>2, <1>0, <2>1
      <4> QED BY <4>1 DEF ZerosRead
    <3> QED BY <3>1, <3>2
  <2>8. since' - gap' = since - gap
    BY <1>0, <2>1
  <2>9. gap' <= MaxGap
    BY <1>0, <2>1
  <2> QED BY <2>2, <2>6, <2>7, <2>8, <2>9
<1>7. Accounted'
  BY <1>0, <1>2, <1>3, <1>5, <1>6 DEF Accounted, Zero
<1> QED BY <1>4, <1>7 DEF LateInv

\* A delay starts with nothing to account for.
LEMMA LateEntry ==
    ASSUME IInv, LateInv,
           \/ \E ticks \in Measured : Configure(ticks)
           \/ \E n \in Amounts : DelayMs(n)
           \/ \E n \in Amounts : DelayUs(n)
           \/ Return
    PROVE  LateInv'
<1>0. /\ Word \in Nat /\ Word > 0 /\ MaxGap \in Nat /\ MaxGap > 0
      /\ perMs \in Nat /\ perUs \in Nat /\ Amounts \subseteq Nat /\ laps \in Nat
  BY TimerAssumption DEF IInv, TypeOK
<1>1. ASSUME NEW ticks \in Measured, Configure(ticks) PROVE LateInv'
  <2>1. PeriodOf(RateOf(ticks)) \in 0 .. Word - 1
    BY RateType, TimerAssumption
  <2>2. pc' = "ready" /\ mode' = "periodic" /\ icr' = ccr' /\ icr' \in Nat
    BY <1>0, <1>1, <2>1 DEF Configure, LvtMode
  <2> QED BY <2>2 DEF LateInv, NoZero, Accounted
<1>2. ASSUME NEW rate \in Nat, NEW n \in Nat, Delay(rate, n) PROVE LateInv'
  <2>1. /\ asked' = rate * n /\ wait' = (rate * n) % Word /\ last' = ccr /\ since' = 0 /\ gap' = 0
        /\ ~wrapped' /\ laps' = 0 /\ pc = "ready" /\ pc' = "loop" /\ icr' = icr /\ ccr' = ccr
        /\ mode' = mode
    BY <1>2 DEF Delay, lapic
  <2>2. rate * n \in Nat
    OBVIOUS
  <2>3. wait' \in Nat /\ Want' = wait'
    BY <2>1, <2>2, <1>0, WordCut DEF Want
  <2>4. ZerosRead' = 0 /\ Zeros' = 0
    BY <2>1 DEF ZerosRead, Zeros
  <2>5. NoZero'
    BY <2>1 DEF LateInv, NoZero
  <2>6. Accounted'
    BY <2>1, <2>3, <2>4, <1>0 DEF Accounted
  <2> QED BY <2>5, <2>6 DEF LateInv
<1>3. CASE Return
  BY <1>3 DEF Return, lapic, loop, LateInv, NoZero, Accounted
<1> QED BY <1>0, <1>1, <1>2, <1>3 DEF DelayMs, DelayUs

\* A delay polled at least once a period ends less than one gap between polls
\* late, plus one tick per reload on a counter that shows 0.
THEOREM DelaysPunctual == Spec => []Punctual
<1>1. Init => LateInv
  BY DEF Init, LateInv, NoZero, Accounted
<1>2. IInv /\ LateInv /\ [Next]_vars => LateInv'
  <2> SUFFICES ASSUME IInv, LateInv, [Next]_vars PROVE LateInv'
    OBVIOUS
  <2>1. CASE Poll
    BY <2>1, LatePoll
  <2>2. CASE Down \/ Reload
    BY <2>2, LateTick DEF Tick
  <2>3. CASE \/ \E ticks \in Measured : Configure(ticks)
             \/ \E n \in Amounts : DelayMs(n)
             \/ \E n \in Amounts : DelayUs(n)
             \/ Return
    BY <2>3, LateEntry
  <2>4. CASE UNCHANGED vars
    BY <2>4 DEF vars, lapic, loop, LateInv, NoZero, Accounted, Want, Zeros, ZerosRead
  <2> QED BY <2>1, <2>2, <2>3, <2>4 DEF Next
<1>3. LateInv => Punctual
  BY DEF LateInv, Accounted, Punctual, Elapsed, Want, Zeros
<1> QED BY <1>1, <1>2, <1>3, TimerInvariant, PTL DEF Spec
=============================================================================
