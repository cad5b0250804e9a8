-------------------------- MODULE RtcFormatProofs --------------------------
(***************************************************************************)
(* Proofs about the two halves of kmain's first line, the date: how        *)
(* cmos_read_rtc reads it (Rtc) and how vsprintf prints it (Format).       *)
(*                                                                         *)
(* Rtc: for every length of the announcement that covers the eight reads,  *)
(* every sequence of seconds and every set-up of the chip, what the caller *)
(* gets is one second's date and time.                                     *)
(*                                                                         *)
(* Format: for every format string, every argument and every width of a    *)
(* word, vsprintf leaves the text meant, its terminator and nothing else.  *)
(***************************************************************************)
EXTENDS Rtc, Format, SequenceTheorems, NaturalsInduction, WellFoundedInduction, TLAPS

-----------------------------------------------------------------------------
(* The registers and their conversions.                                    *)

\* The elements of a sequence.
LEMMA SeqElements ==
    ASSUME NEW S, NEW s \in Seq(S)
    PROVE  \A k \in DOMAIN s : s[k] \in S
OBVIOUS

\* The order of the register reads in cmos_read_rtc.
LEMMA OrderFacts ==
    /\ Len(Order) = 8
    /\ DOMAIN Order = 1 .. 8
    /\ \A k \in 1 .. 8 : Order[k] \in Fields
    /\ Fields = {"hours", "minutes", "seconds", "date_of_month", "month", "year", "century"}
    /\ Order[1] = "hours" /\ Order[2] = "minutes" /\ Order[3] = "seconds"
    /\ Order[4] = "date_of_month" /\ Order[5] = "month" /\ Order[6] = "year"
    /\ Order[7] = "century" /\ Order[8] = "century"
<1>1. /\ Len(Order) = 8
      /\ DOMAIN Order = 1 .. 8
      /\ Order[1] = "hours" /\ Order[2] = "minutes" /\ Order[3] = "seconds"
      /\ Order[4] = "date_of_month" /\ Order[5] = "month" /\ Order[6] = "year"
      /\ Order[7] = "century" /\ Order[8] = "century"
  BY DEF Order
<1>2. \A k \in 1 .. 8 : Order[k] \in Fields
  BY <1>1 DEF Fields
<1>3. \A k \in 1 .. 8 : k = 1 \/ k = 2 \/ k = 3 \/ k = 4 \/ k = 5 \/ k = 6 \/ k = 7 \/ k = 8
  OBVIOUS
<1>4. Fields = {"hours", "minutes", "seconds", "date_of_month", "month", "year", "century"}
  BY <1>1, <1>3 DEF Fields
<1> QED
  BY <1>1, <1>2, <1>4

\* A number of two digits survives the way through BCD and back.
LEMMA BcdRoundTrip ==
    ASSUME NEW n \in 0 .. 99
    PROVE  /\ Dec2bcd(n) \in 0 .. 153
           /\ Bcd2dec(Dec2bcd(n), Dec2bcd(n)) = n
<1>1. PICK q \in 0 .. 9, r \in 0 .. 9 : n = 10 * q + r /\ n \div 10 = q /\ n % 10 = r
  <2>1. n \div 10 \in 0 .. 9 /\ n % 10 \in 0 .. 9 /\ n = 10 * (n \div 10) + (n % 10)
    OBVIOUS
  <2> QED
    BY <2>1
<1>2. Dec2bcd(n) = q * 16 + r
  BY <1>1 DEF Dec2bcd
<1>3. (q * 16 + r) % 16 = r /\ (q * 16 + r) \div 16 = q
  BY <1>1
<1> QED
  BY <1>1, <1>2, <1>3 DEF Bcd2dec

\* The ranges of the fields of an instant.
LEMMA InstantFacts ==
    ASSUME NEW k \in 1 .. Len(Instants), NEW f \in Fields
    PROVE  /\ Instants[k][f] \in 0 .. 99
           /\ Instants[k]["hours"] < 24
BY InstantsAssumption

\* The twelve-hour form of an hour, in both encodings.
LEMMA HourBytes ==
    ASSUME NEW n \in 0 .. 23
    PROVE  Hour12(n) \in 1 .. 12 /\ Dec2bcd(Hour12(n)) \in 0 .. 18
<1>1. n % 12 \in 0 .. 11
  OBVIOUS
<1>2. Hour12(n) \in 1 .. 12
  BY <1>1 DEF Hour12
<1>3. ASSUME NEW h \in 1 .. 12 PROVE Dec2bcd(h) \in 0 .. 18
  <2>1. CASE h < 10
    BY <2>1 DEF Dec2bcd
  <2>2. CASE h >= 10
    <3>1. h \div 10 = 1 /\ h % 10 = h - 10
      BY <2>2
    <3> QED
      BY <3>1, <2>2 DEF Dec2bcd
  <2> QED
    BY <2>1, <2>2
<1> QED
  BY <1>2, <1>3

\* What a register holds is a byte.
LEMMA StoredByte ==
    ASSUME NEW k \in 1 .. Len(Instants), NEW f \in Fields, mode \in Modes
    PROVE  Stored(f, k) \in 0 .. 255
<1>1. PICK n : n = Instants[k][f]
  OBVIOUS
<1>2. n \in 0 .. 99 /\ (f = "hours" => n \in 0 .. 23)
  <2>1. n \in 0 .. 99 /\ Instants[k]["hours"] < 24
    BY <1>1, InstantFacts
  <2>2. f = "hours" => n < 24
    BY <1>1, <2>1
  <2> QED
    BY <2>1, <2>2
<1>3. Dec2bcd(n) \in 0 .. 153
  BY <1>2, BcdRoundTrip
<1>4. PICK h, d : h = Hour12(n) /\ d = Dec2bcd(Hour12(n))
  OBVIOUS
<1>5. f = "hours" => h \in 1 .. 12 /\ d \in 0 .. 18
  BY <1>2, <1>4, HourBytes
<1>6. CASE f = "century"
  <2>1. Stored(f, k) = IF mode.century THEN Dec2bcd(n) ELSE 0
    BY <1>1, <1>6 DEF Stored
  <2> QED
    BY <2>1, <1>3
<1>7. CASE f = "hours" /\ ~mode.h24
  <2>1. PICK e, a : e = (IF mode.bcd THEN d ELSE h) /\ a = (IF n >= 12 THEN 128 ELSE 0)
    OBVIOUS
  <2>2. Stored(f, k) = e + a
    BY <1>1, <1>4, <1>7, <2>1 DEF Stored
  <2>3. e \in 0 .. 18 /\ a \in {0, 128}
    BY <2>1, <1>5, <1>7
  <2> QED
    BY <2>2, <2>3
<1>8. CASE f # "century" /\ ~(f = "hours" /\ ~mode.h24)
  <2>1. Stored(f, k) = IF mode.bcd THEN Dec2bcd(n) ELSE n
    BY <1>1, <1>8 DEF Stored
  <2> QED
    BY <2>1, <1>2, <1>3
<1> QED
  BY <1>6, <1>7, <1>8

\* The conversions undo the chip's encoding: every field but a twelve-hour
\* hour, and the century where it is kept.
LEMMA ConvertsBack ==
    ASSUME NEW k \in 1 .. Len(Instants), NEW f \in Fields \ {"century"}, mode \in Modes,
           f = "hours" => mode.h24,
           NEW b, b = Stored(f, k)
    PROVE  (IF mode.bcd THEN Bcd2dec(b, b) ELSE b) = Instants[k][f]
<1>1. Instants[k][f] \in 0 .. 99
  BY InstantFacts
<1>2. b = IF mode.bcd THEN Dec2bcd(Instants[k][f]) ELSE Instants[k][f]
  BY DEF Stored
<1> QED
  BY <1>1, <1>2, BcdRoundTrip

\* The century survives its two reads and the conversion.
LEMMA CenturyBack ==
    ASSUME NEW k \in 1 .. Len(Instants), NEW b, b = Stored("century", k)
    PROVE  Bcd2dec(b, b) = IF mode.century THEN Instants[k]["century"] ELSE 0
<1>1. Instants[k]["century"] \in 0 .. 99
  BY InstantFacts, OrderFacts
<1>2. b = IF mode.century THEN Dec2bcd(Instants[k]["century"]) ELSE 0
  BY DEF Stored
<1>3. Bcd2dec(0, 0) = 0
  BY DEF Bcd2dec
<1> QED
  BY <1>1, <1>2, <1>3, BcdRoundTrip

-----------------------------------------------------------------------------
(* The inductive invariant.                                                *)

\* An update in progress has a next second to go to, and is announced.
Announced == /\ busy => uip
             /\ uip => now < Len(Instants)

\* Before the last read the registers are not being changed, what has been
\* read is of the current second, and an update announced since the test of
\* the flag leaves time for the reads to come.
ReadsInTime ==
    /\ pc = "poll" => raw = <<>>
    /\ pc = "read" /\ Len(raw) < 8 =>
          /\ ~busy
          /\ uip => left >= 8 - Len(raw)
          /\ \A k \in DOMAIN raw : raw[k] = Stored(Order[k], now)
    /\ pc = "done" => Len(raw) = 8
    /\ pc # "done" => now \in seen

IInv == TypeOK /\ Announced /\ ReadsInTime /\ NotTorn /\ ReadsOneInstant

\* Before the call nothing is read.
LEMMA InitEstablishes == Init => IInv
<1> SUFFICES ASSUME Init PROVE IInv
  OBVIOUS
<1> USE DEF Init
<1>1. NoTime \in [Fields -> Nat] /\ NoTime.century <= 99
  BY OrderFacts DEF NoTime
<1>2. TypeOK
  <2>1. left \in Nat /\ uip \in BOOLEAN /\ busy \in BOOLEAN
    <3>1. 0 .. Rest \subseteq Nat /\ 0 .. Lead \subseteq Nat
      BY LeadAssumption
    <3>2. left \in 0 .. Rest \/ left \in 0 .. Lead \/ left = 0
      OBVIOUS
    <3>3. left \in Nat
      BY <3>1, <3>2
    <3>4. uip \in BOOLEAN /\ busy \in BOOLEAN
      BY Zenon
    <3> QED
      BY <3>3, <3>4
  <2>2. raw \in Seq(0 .. 255) /\ Len(raw) <= Len(Order)
    BY OrderFacts
  <2> QED
    BY <1>1, <2>1, <2>2 DEF TypeOK
<1>3. Announced
  BY DEF Announced
<1>4. ReadsInTime
  BY DEF ReadsInTime
<1>5. NotTorn
  BY DEF NotTorn
<1>6. ReadsOneInstant
  BY DEF ReadsOneInstant
<1> QED
  BY <1>2, <1>3, <1>4, <1>5, <1>6 DEF IInv

\* A step of the clock leaves what has been read, and every second seen, as
\* they are.
LEMMA ClockPreserves == IInv /\ Clock => IInv'
<1> SUFFICES ASSUME IInv, Clock PROVE IInv'
  OBVIOUS
<1> USE DEF IInv
<1>1. UNCHANGED <<mode, pc, raw, rtc>> /\ seen \subseteq seen'
  BY DEF Clock, RaiseUip, BeginUpdate, EndUpdate
<1>2. \A f, k : Stored(f, k)' = Stored(f, k)
  BY <1>1 DEF Stored
<1>3. NotTorn'
  BY <1>1, <1>2 DEF NotTorn
<1>4. ReadsOneInstant'
  BY <1>1 DEF ReadsOneInstant
<1>5. CASE RaiseUip
  <2>1. TypeOK'
    BY <1>5, LeadAssumption DEF RaiseUip, TypeOK
  <2>2. Announced'
    BY <1>5 DEF RaiseUip, Announced
  <2>3. ReadsInTime'
    BY <1>1, <1>2, <1>5, LeadAssumption, OrderFacts DEF RaiseUip, ReadsInTime, TypeOK
  <2> QED
    BY <2>1, <2>2, <2>3, <1>3, <1>4
<1>6. CASE BeginUpdate
  <2>1. TypeOK'
    BY <1>6 DEF BeginUpdate, TypeOK
  <2>2. Announced'
    BY <1>6 DEF BeginUpdate, Announced
  <2>3. ReadsInTime'
    BY <1>1, <1>2, <1>6, OrderFacts DEF BeginUpdate, ReadsInTime, TypeOK
  <2> QED
    BY <2>1, <2>2, <2>3, <1>3, <1>4
<1>7. CASE EndUpdate
  <2>1. now \in 1 .. Len(Instants) /\ now + 1 \in 1 .. Len(Instants)
    BY <1>7, InstantsAssumption DEF EndUpdate, Announced, TypeOK
  <2>2. TypeOK'
    BY <1>7, <2>1, LeadAssumption DEF EndUpdate, TypeOK
  <2>3. Announced'
    BY <1>7 DEF EndUpdate, Announced
  <2>4. ReadsInTime'
    BY <1>1, <1>2, <1>7 DEF EndUpdate, ReadsInTime
  <2> QED
    BY <2>2, <2>3, <2>4, <1>3, <1>4
<1> QED
  BY <1>5, <1>6, <1>7 DEF Clock

\* A look at the update-in-progress bit.
LEMMA PollPreserves == IInv /\ Poll => IInv'
<1> SUFFICES ASSUME IInv, Poll PROVE IInv'
  OBVIOUS
<1> USE DEF IInv
<1>1. UNCHANGED <<mode, now, uip, busy, raw, rtc, seen>> /\ left' \in Nat
  BY DEF Poll, Access, TypeOK
<1>2. \A f, k : Stored(f, k)' = Stored(f, k)
  BY <1>1 DEF Stored
<1>3. pc = "poll" /\ raw = <<>> /\ pc' = IF uip THEN "poll" ELSE "read"
  BY DEF Poll, UpdateInProgress, ReadsInTime
<1>4. TypeOK'
  BY <1>1, <1>3 DEF TypeOK
<1>5. Announced'
  BY <1>1 DEF Announced
<1>6. ReadsInTime'
  BY <1>1, <1>3 DEF ReadsInTime, Announced, TypeOK
<1>7. NotTorn'
  BY <1>1, <1>2 DEF NotTorn
<1>8. ReadsOneInstant'
  BY <1>1, <1>3 DEF ReadsOneInstant
<1> QED
  BY <1>4, <1>5, <1>6, <1>7, <1>8

\* The next byte is the current second's, whatever the clock has announced.
LEMMA ReadPreserves == IInv /\ Read => IInv'
<1> SUFFICES ASSUME IInv, Read PROVE IInv'
  OBVIOUS
<1> USE DEF IInv
<1>1. UNCHANGED <<mode, now, uip, busy, pc, rtc, seen>> /\ left' \in Nat
  BY DEF Read, Access, TypeOK
<1>2. \A f, k : Stored(f, k)' = Stored(f, k)
  BY <1>1 DEF Stored
<1>3. pc = "read" /\ raw \in Seq(0 .. 255)
  BY DEF Read, TypeOK
<1>4. PICK n \in 0 .. 7 : n = Len(raw)
  <2>1. PICK n \in Nat : n = Len(raw)
    BY <1>3
  <2>2. n < 8
    BY <2>1, OrderFacts DEF Read
  <2>3. n \in 0 .. 7
    BY <2>2
  <2> QED
    BY <2>1, <2>3
<1>5. n < 8 /\ n + 1 \in 1 .. 8 /\ n + 1 <= 8 /\ Order[n + 1] \in Fields
  BY OrderFacts
<1>6. ~busy /\ (uip => left >= 8 - n) /\ \A k \in DOMAIN raw : raw[k] = Stored(Order[k], now)
  BY <1>3, <1>4, <1>5 DEF ReadsInTime
<1>7. PICK b : b = Stored(Order[n + 1], now) /\ raw' = Append(raw, b)
  BY <1>4, <1>6 DEF Read, Readable
<1>8. b \in 0 .. 255
  BY <1>5, <1>7, StoredByte DEF TypeOK
<1>9. /\ raw' \in Seq(0 .. 255) /\ Len(raw') = n + 1
      /\ DOMAIN raw = 1 .. n /\ DOMAIN raw' = 1 .. n + 1
      /\ \A k \in 1 .. n : raw'[k] = raw[k]
      /\ raw'[n + 1] = b
  BY <1>3, <1>4, <1>7, <1>8
<1>10. \A k \in DOMAIN raw' : raw'[k] = Stored(Order[k], now)
  <2> SUFFICES ASSUME NEW k \in 1 .. n + 1 PROVE raw'[k] = Stored(Order[k], now)
    BY <1>9
  <2>1. CASE k = n + 1
    BY <2>1, <1>7, <1>9
  <2>2. CASE k \in 1 .. n
    BY <2>2, <1>6, <1>9
  <2> QED
    BY <2>1, <2>2
<1>11. TypeOK'
  BY <1>1, <1>3, <1>5, <1>9, OrderFacts DEF TypeOK
<1>12. Announced'
  BY <1>1 DEF Announced
<1>13. NotTorn'
  <2>1. now \in seen'
    BY <1>1, <1>3 DEF ReadsInTime
  <2> QED
    BY <2>1, <1>2, <1>10 DEF NotTorn
<1>14. ReadsInTime'
  <2>1. left \in Nat /\ left' = IF left = 0 THEN 0 ELSE left - 1
    BY DEF Read, Access, TypeOK
  <2>2. uip' => left' >= 8 - (n + 1)
    BY <2>1, <1>1, <1>6
  <2>3. \A k \in DOMAIN raw' : raw'[k] = Stored(Order[k], now)'
    BY <1>1, <1>2, <1>10
  <2> QED
    BY <2>2, <2>3, <1>1, <1>3, <1>6, <1>9 DEF ReadsInTime
<1>15. ReadsOneInstant'
  BY <1>1, <1>3 DEF ReadsOneInstant
<1> QED
  BY <1>11, <1>12, <1>13, <1>14, <1>15

\* The conversion of bytes that are all of one second gives that second.
LEMMA ConvertPreserves == IInv /\ Convert => IInv'
<1> SUFFICES ASSUME IInv, Convert PROVE IInv'
  OBVIOUS
<1> USE DEF IInv
<1>1. UNCHANGED <<mode, now, uip, busy, raw, seen>> /\ left' \in Nat /\ pc' = "done"
  BY DEF Convert, Access, TypeOK
<1>2. \A f, k : Stored(f, k)' = Stored(f, k)
  BY <1>1 DEF Stored
<1>3. raw \in Seq(0 .. 255) /\ Len(raw) = 8 /\ mode \in Modes /\ seen \subseteq 1 .. Len(Instants)
  BY OrderFacts DEF Convert, TypeOK
<1> DEFINE value(k) == IF mode.bcd THEN Bcd2dec(raw[k], raw[k]) ELSE raw[k]
           century  == Bcd2dec(raw[7], raw[8])
<1>4. rtc' = [hours |-> Hours(value(1)), minutes |-> value(2), seconds |-> value(3),
              date_of_month |-> value(4), month |-> value(5),
              year |-> Year(value(6), century), century |-> century]
  BY DEF Convert
<1>5. PICK i \in seen : \A k \in DOMAIN raw : raw[k] = Stored(Order[k], i)
  BY DEF NotTorn
<1>6. /\ raw[1] = Stored("hours", i) /\ raw[2] = Stored("minutes", i)
      /\ raw[3] = Stored("seconds", i) /\ raw[4] = Stored("date_of_month", i)
      /\ raw[5] = Stored("month", i) /\ raw[6] = Stored("year", i)
      /\ raw[7] = Stored("century", i) /\ raw[8] = Stored("century", i)
  BY <1>3, <1>5, OrderFacts
<1>7. /\ mode.h24 => value(1) = Instants[i]["hours"]
      /\ value(2) = Instants[i]["minutes"] /\ value(3) = Instants[i]["seconds"]
      /\ value(4) = Instants[i]["date_of_month"] /\ value(5) = Instants[i]["month"]
      /\ value(6) = Instants[i]["year"]
  <2>1. i \in 1 .. Len(Instants) /\ {"hours", "minutes", "seconds", "date_of_month",
                                     "month", "year"} \subseteq Fields \ {"century"}
    BY <1>3, OrderFacts
  <2> QED
    BY <2>1, <1>3, <1>6, ConvertsBack
<1>8. century = IF mode.century THEN Instants[i]["century"] ELSE 0
  BY <1>3, <1>6, CenturyBack
<1>9. \A k \in 1 .. 8 : value(k) \in Nat
  <2> SUFFICES ASSUME NEW k \in 1 .. 8 PROVE value(k) \in Nat
    OBVIOUS
  <2>1. DOMAIN raw = 1 .. 8
    BY <1>3
  <2>2. \A m \in DOMAIN raw : raw[m] \in 0 .. 255
    <3> DEFINE Byte == 0 .. 255
    <3>1. raw \in Seq(Byte)
      BY <1>3
    <3> HIDE DEF Byte
    <3>2. \A m \in DOMAIN raw : raw[m] \in Byte
      BY <3>1, SeqElements
    <3> QED
      BY <3>2 DEF Byte
  <2>3. raw[k] \in 0 .. 255
    BY <2>1, <2>2
  <2> QED
    BY <2>3 DEF Bcd2dec
<1>10. /\ Instants[i]["century"] \in 0 .. 99 /\ Instants[i]["year"] \in 0 .. 99
       /\ century \in 0 .. 99
  BY <1>3, <1>8, InstantFacts, OrderFacts
<1> HIDE DEF value, century
<1>11. rtc' \in [Fields -> Nat] /\ rtc'.century <= 99
  <2>1. Hours(value(1)) \in Nat
    BY <1>9 DEF Hours
  <2>2. Year(value(6), century) \in Nat
    BY <1>9, <1>10 DEF Year
  <2> QED
    BY <2>1, <2>2, <1>4, <1>9, <1>10, OrderFacts
<1>12. TypeOK'
  BY <1>1, <1>11 DEF TypeOK
<1>13. Announced'
  BY <1>1 DEF Announced
<1>14. ReadsInTime'
  BY <1>1, <1>3 DEF ReadsInTime
<1>15. NotTorn'
  BY <1>1, <1>2 DEF NotTorn
<1>16. ReadsOneInstant'
  <2>1. \A f \in {"minutes", "seconds", "date_of_month", "month"} : rtc'[f] = Instants[i][f]
    BY <1>4, <1>7
  <2>2. mode.h24 => rtc'.hours = Instants[i].hours
    BY <1>4, <1>7 DEF Hours
  <2>3. rtc'.year = IF mode.century THEN Instants[i].century * 100 + Instants[i].year
                    ELSE Instants[i].year
    <3>1. rtc'.year = Year(Instants[i].year, century)
      BY <1>4, <1>7
    <3>2. CASE mode.century
      <4>1. PICK c \in 0 .. 99, y \in 0 .. 99 : c = Instants[i].century /\ y = Instants[i].year
        BY <1>10
      <4>2. rtc'.year = Year(y, c)
        BY <3>1, <3>2, <4>1, <1>8
      <4>3. Year(y, c) = c * 100 + y
        BY DEF Year
      <4> QED
        BY <4>1, <4>2, <4>3, <3>2
    <3>3. CASE ~mode.century
      BY <3>1, <3>3, <1>8 DEF Year
    <3>4. mode.century \in BOOLEAN
      BY <1>3, InstantsAssumption
    <3> QED
      BY <3>2, <3>3, <3>4
  <2> QED
    BY <2>1, <2>2, <2>3, <1>1 DEF ReadsOneInstant
<1> QED
  BY <1>12, <1>13, <1>14, <1>15, <1>16

\* What the clock and cmos_read_rtc do in any order keeps the invariant: this
\* rests on Lead covering the eight reads and on nothing else about time.
THEOREM Invariance == Spec => []IInv
<1>1. IInv /\ [Next]_vars => IInv'
  <2> SUFFICES ASSUME IInv, [Next]_vars PROVE IInv'
    OBVIOUS
  <2>1. CASE UNCHANGED vars
    <3>1. \A f, k : Stored(f, k)' = Stored(f, k)
      BY <2>1 DEF vars, Stored
    <3> QED
      BY <2>1, <3>1 DEF vars, IInv, TypeOK, Announced, ReadsInTime, NotTorn, ReadsOneInstant
  <2>2. CASE Clock
    BY <2>2, ClockPreserves
  <2>3. CASE Poll
    BY <2>3, PollPreserves
  <2>4. CASE Read
    BY <2>4, ReadPreserves
  <2>5. CASE Convert
    BY <2>5, ConvertPreserves
  <2> QED
    BY <2>1, <2>2, <2>3, <2>4, <2>5 DEF Next, Cpu
<1> QED
  BY <1>1, InitEstablishes, PTL DEF Spec

\* The bytes the driver takes from the chip are bytes, the structure it fills
\* holds numbers, and the century one of two digits.
THEOREM TypeCorrect == Spec => []TypeOK
<1>1. IInv => TypeOK
  BY DEF IInv
<1> QED
  BY <1>1, Invariance, PTL

\* One test of the update flag is enough: the bytes read after it are those of
\* one second of the call, although the clock may announce the next second
\* between any two reads.
THEOREM NeverTorn == Spec => []NotTorn
<1>1. IInv => NotTorn
  BY DEF IInv
<1> QED
  BY <1>1, Invariance, PTL

\* The date and time cmos_read_rtc returns, BCD and century conversions
\* included, are those of a second during which it ran.
THEOREM OneInstant == Spec => []ReadsOneInstant
<1>1. IInv => ReadsOneInstant
  BY DEF IInv
<1> QED
  BY <1>1, Invariance, PTL

-----------------------------------------------------------------------------
(* Format: the loops over the digits of a number, as recursive functions.  A *)
(* recursive definition is a CHOOSE; that there is a function to choose is    *)
(* shown by extending one from 0 .. k - 1 to 0 .. k.                          *)

\* Course-of-values induction, on a set instead of a predicate.
LEMMA Descent ==
    ASSUME NEW n \in Nat, NEW T, \A m \in 0 .. n : (\A j \in 0 .. m - 1 : j \in T) => m \in T
    PROVE  0 .. n \subseteq T
<1> DEFINE Less == {ss \in Nat \X Nat : ss[1] < ss[2]}
           Bad == 0 .. n \ T
<1>1. IsWellFoundedOn(Less, Nat)
  BY NatLessThanWellFounded DEF OpToRel
<1>2. Bad \subseteq Nat
  OBVIOUS
<1> HIDE DEF Less
<1>3. SUFFICES ASSUME Bad # {} PROVE FALSE
  OBVIOUS
<1>4. PICK x \in Bad : \A y \in Bad : ~ (<<y, x>> \in Less)
  BY <1>1, <1>2, <1>3, WFMin
<1>5. PICK j \in 0 .. x - 1 : j \notin T
  BY <1>4
<1>6. j \in Bad
  BY <1>4, <1>5
<1>7. <<j, x>> \in Less
  BY <1>4, <1>5 DEF Less
<1> QED BY <1>4, <1>6, <1>7

Bases == {10, 16}

\* One turn of the loops over the digits of a number.
LEMMA Division ==
    ASSUME NEW m \in Nat, NEW base \in Bases
    PROVE  /\ base \in Nat /\ base >= 10 /\ base <= 16
           /\ m \div base \in Nat /\ m % base \in 0 .. 15
           /\ m \div base = 0 <=> m < base
           /\ m >= base => m \div base < m
           /\ m < base => m % base = m
<1>1. CASE base = 10
  BY <1>1
<1>2. CASE base = 16
  BY <1>2
<1> QED BY <1>1, <1>2 DEF Bases

\* Turns is well defined, by a function that obeys its recursion.
LEMMA TurnsFunction ==
    ASSUME NEW n \in Nat, NEW base \in Bases
    PROVE  \E t : /\ t = [m \in 0 .. n |-> IF m \div base = 0 THEN 0 ELSE 1 + t[m \div base]]
                  /\ Turns(n, base) = t[n]
<1> DEFINE Step(g, m) == IF m \div base = 0 THEN 0 ELSE 1 + g[m \div base]
           Upto(g, k) == [m \in 0 .. k |-> Step(g, m)]
           T == {k \in 0 .. n : \E g : g = Upto(g, k)}
           turns == CHOOSE t : t = Upto(t, n)
<1>1. ASSUME NEW k \in 0 .. n, \A j \in 0 .. k - 1 : j \in T PROVE k \in T
  <2>1. CASE k = 0
    <3> DEFINE g == [m \in 0 .. 0 |-> 0]
    <3>1. \A m \in 0 .. 0 : Step(g, m) = 0
      BY Division
    <3>2. g = Upto(g, 0)
      BY <3>1
    <3> QED BY <3>2, <2>1
  <2>2. CASE k # 0
    <3>0. k - 1 \in T
      <4>1. k - 1 \in 0 .. k - 1
        BY <2>2
      <4> HIDE DEF T
      <4> QED BY <1>1, <4>1
    <3>1. PICK g : g = Upto(g, k - 1)
      BY <3>0
    <3> DEFINE h == Upto(g, k)
    <3>2. ASSUME NEW m \in 0 .. k PROVE Step(h, m) = Step(g, m)
      <4>1. CASE m \div base # 0
        <5>1. m \div base \in 0 .. k - 1 /\ m \div base \in 0 .. k
          BY <4>1, Division
        <5>2. h[m \div base] = Step(g, m \div base) /\ g[m \div base] = Step(g, m \div base)
          BY <5>1, <3>1
        <5> QED BY <5>2
      <4> QED BY <4>1
    <3>3. h = Upto(h, k)
      BY <3>2
    <3> QED BY <3>3
  <2> QED BY <2>1, <2>2
<1>2. n \in T
  <2> HIDE DEF T
  <2> QED BY <1>1, Descent
<1>3. turns = Upto(turns, n)
  <2>1. (\E t : t = Upto(t, n)) => turns = Upto(turns, n)
    OBVIOUS
  <2> QED BY <2>1, <1>2
<1>4. Turns(n, base) = turns[n]
  BY DEF Turns
<1> HIDE DEF turns
<1> QED BY <1>3, <1>4

\* What Turns counts is a number.
LEMMA TurnsNat ==
    ASSUME NEW n \in Nat, NEW base \in Bases
    PROVE  Turns(n, base) \in Nat
<1>1. PICK t : /\ t = [m \in 0 .. n |-> IF m \div base = 0 THEN 0 ELSE 1 + t[m \div base]]
               /\ Turns(n, base) = t[n]
  BY TurnsFunction
<1> DEFINE T == {m \in 0 .. n : t[m] \in Nat}
<1>2. ASSUME NEW m \in 0 .. n, \A j \in 0 .. m - 1 : j \in T PROVE m \in T
  <2>1. t[m] = IF m \div base = 0 THEN 0 ELSE 1 + t[m \div base]
    BY <1>1
  <2>2. CASE m \div base # 0
    <3>1. m \div base \in 0 .. m - 1
      BY <2>2, Division
    <3> QED BY <1>2, <2>1, <2>2, <3>1
  <2> QED BY <2>1, <2>2
<1> HIDE DEF T
<1>3. n \in T
  BY <1>2, Descent
<1> QED BY <1>1, <1>3 DEF T

\* Quotient is well defined.
LEMMA QuotientFunction ==
    ASSUME NEW n \in Nat, NEW base \in Bases, NEW k \in Nat
    PROVE  \E r : /\ r = [i \in 0 .. k |-> IF i = 0 THEN n ELSE r[i - 1] \div base]
                  /\ Quotient(n, base, k) = r[k]
<1> DEFINE Step(g, i) == IF i = 0 THEN n ELSE g[i - 1] \div base
           Upto(g, l) == [i \in 0 .. l |-> Step(g, i)]
           T == {l \in 0 .. k : \E g : g = Upto(g, l)}
           num == CHOOSE r : r = Upto(r, k)
<1>1. ASSUME NEW l \in 0 .. k, \A j \in 0 .. l - 1 : j \in T PROVE l \in T
  <2>1. CASE l = 0
    <3> DEFINE g == [i \in 0 .. 0 |-> n]
    <3>1. \A i \in 0 .. 0 : Step(g, i) = n
      OBVIOUS
    <3>2. g = Upto(g, 0)
      BY <3>1
    <3> QED BY <3>2, <2>1
  <2>2. CASE l # 0
    <3>0. l - 1 \in T
      <4>1. l - 1 \in 0 .. l - 1
        BY <2>2
      <4> HIDE DEF T
      <4> QED BY <1>1, <4>1
    <3>1. PICK g : g = Upto(g, l - 1)
      BY <3>0
    <3> DEFINE h == Upto(g, l)
    <3>2. ASSUME NEW i \in 0 .. l PROVE Step(h, i) = Step(g, i)
      <4>1. CASE i # 0
        <5>1. i - 1 \in 0 .. l - 1 /\ i - 1 \in 0 .. l
          BY <4>1
        <5>2. h[i - 1] = Step(g, i - 1) /\ g[i - 1] = Step(g, i - 1)
          BY <5>1, <3>1
        <5> QED BY <5>2
      <4> QED BY <4>1
    <3>3. h = Upto(h, l)
      BY <3>2
    <3> QED BY <3>3
  <2> QED BY <2>1, <2>2
<1>2. k \in T
  <2> HIDE DEF T
  <2> QED BY <1>1, Descent
<1>3. num = Upto(num, k)
  <2>1. (\E r : r = Upto(r, k)) => num = Upto(num, k)
    OBVIOUS
  <2> QED BY <2>1, <1>2
<1>4. Quotient(n, base, k) = num[k]
  BY DEF Quotient
<1> HIDE DEF num
<1> QED BY <1>3, <1>4

\* num before the first turn of the loop.
LEMMA QuotientZero ==
    ASSUME NEW n \in Nat, NEW base \in Bases
    PROVE  Quotient(n, base, 0) = n
<1>1. PICK r : /\ r = [i \in 0 .. 0 |-> IF i = 0 THEN n ELSE r[i - 1] \div base]
               /\ Quotient(n, base, 0) = r[0]
  <2>1. 0 \in Nat
    OBVIOUS
  <2> QED BY <2>1, QuotientFunction, Zenon
<1> QED BY <1>1

\* The division comes last: a turn divides what the turns before it left.
LEMMA QuotientNext ==
    ASSUME NEW n \in Nat, NEW base \in Bases, NEW k \in Nat
    PROVE  Quotient(n, base, k + 1) = Quotient(n, base, k) \div base
<1>1. PICK r : /\ r = [i \in 0 .. k |-> IF i = 0 THEN n ELSE r[i - 1] \div base]
               /\ Quotient(n, base, k) = r[k]
  BY QuotientFunction
<1>2. PICK s : /\ s = [i \in 0 .. k + 1 |-> IF i = 0 THEN n ELSE s[i - 1] \div base]
               /\ Quotient(n, base, k + 1) = s[k + 1]
  <2>1. k + 1 \in Nat
    OBVIOUS
  <2> QED BY <2>1, QuotientFunction, Zenon
<1> DEFINE T == {i \in 0 .. k : r[i] = s[i]}
<1>3. ASSUME NEW i \in 0 .. k, \A j \in 0 .. i - 1 : j \in T PROVE i \in T
  <2>1. r[i] = IF i = 0 THEN n ELSE r[i - 1] \div base
    BY <1>1
  <2>2. s[i] = IF i = 0 THEN n ELSE s[i - 1] \div base
    BY <1>2
  <2>3. i # 0 => i - 1 \in 0 .. i - 1
    OBVIOUS
  <2>4. i # 0 => r[i - 1] = s[i - 1]
    BY <1>3, <2>3
  <2> QED BY <2>1, <2>2, <2>4
<1>4. k \in T
  <2> HIDE DEF T
  <2> QED BY <1>3, Descent
<1>5. s[k + 1] = s[k] \div base
  BY <1>2
<1> QED BY <1>1, <1>2, <1>4, <1>5

\* What is left is a number.
LEMMA QuotientNat ==
    ASSUME NEW n \in Nat, NEW base \in Bases, NEW k \in Nat
    PROVE  Quotient(n, base, k) \in Nat
<1> DEFINE T == {i \in 0 .. k : Quotient(n, base, i) \in Nat}
<1>1. ASSUME NEW i \in 0 .. k, \A j \in 0 .. i - 1 : j \in T PROVE i \in T
  <2>1. CASE i = 0
    BY <2>1, QuotientZero
  <2>2. CASE i # 0
    <3>1. i - 1 \in Nat /\ i - 1 \in T /\ (i - 1) + 1 = i
      BY <1>1, <2>2
    <3>2. Quotient(n, base, i) = Quotient(n, base, i - 1) \div base
      BY <3>1, QuotientNext
    <3>3. Quotient(n, base, i - 1) \in Nat
      BY <3>1
    <3> QED BY <3>2, <3>3, Division
  <2> QED BY <2>1, <2>2
<1> HIDE DEF T
<1>2. k \in T
  BY <1>1, Descent
<1> QED BY <1>2 DEF T

\* The division comes first: what the loop leaves of the quotient.
LEMMA QuotientFirst ==
    ASSUME NEW n \in Nat, NEW base \in Bases, NEW k \in Nat
    PROVE  Quotient(n, base, k + 1) = Quotient(n \div base, base, k)
<1> DEFINE T == {i \in 0 .. k : Quotient(n, base, i + 1) = Quotient(n \div base, base, i)}
<1>0. n \div base \in Nat
  BY Division
<1>1. ASSUME NEW i \in 0 .. k, \A j \in 0 .. i - 1 : j \in T PROVE i \in T
  <2>1. CASE i = 0
    <3>1. Quotient(n, base, 0 + 1) = Quotient(n, base, 0) \div base
      BY QuotientNext
    <3> QED BY <1>0, <2>1, <3>1, QuotientZero
  <2>2. CASE i # 0
    <3>1. i - 1 \in Nat /\ i - 1 \in T /\ (i - 1) + 1 = i
      BY <1>1, <2>2
    <3>2. Quotient(n, base, i + 1) = Quotient(n, base, i) \div base
      BY QuotientNext
    <3>3. Quotient(n \div base, base, i) = Quotient(n \div base, base, i - 1) \div base
      BY <1>0, <3>1, QuotientNext
    <3>4. Quotient(n, base, i) = Quotient(n \div base, base, i - 1)
      BY <3>1
    <3> QED BY <3>2, <3>3, <3>4
  <2> QED BY <2>1, <2>2
<1> HIDE DEF T
<1>2. k \in T
  BY <1>1, Descent
<1> QED BY <1>2 DEF T

\* The reference's Numeral is well defined.
LEMMA NumeralFunction ==
    ASSUME NEW n \in Nat, NEW base \in Bases
    PROVE  \E u : /\ u = [m \in 0 .. n |-> IF m < base THEN <<Glyphs[m + 1]>>
                                           ELSE Append(u[m \div base], Glyphs[(m % base) + 1])]
                  /\ Numeral(n, base) = u[n]
<1> DEFINE Step(g, m) == IF m < base THEN <<Glyphs[m + 1]>>
                         ELSE Append(g[m \div base], Glyphs[(m % base) + 1])
           Upto(g, k) == [m \in 0 .. k |-> Step(g, m)]
           T == {k \in 0 .. n : \E g : g = Upto(g, k)}
           num == CHOOSE u : u = Upto(u, n)
<1>1. ASSUME NEW k \in 0 .. n, \A j \in 0 .. k - 1 : j \in T PROVE k \in T
  <2>1. CASE k = 0
    <3> DEFINE g == [m \in 0 .. 0 |-> <<Glyphs[m + 1]>>]
    <3>1. \A m \in 0 .. 0 : Step(g, m) = <<Glyphs[m + 1]>>
      <4>1. 0 < base
        BY Division
      <4> QED BY <4>1
    <3>2. g = Upto(g, 0)
      BY <3>1
    <3> QED BY <3>2, <2>1
  <2>2. CASE k # 0
    <3>0. k - 1 \in T
      <4>1. k - 1 \in 0 .. k - 1
        BY <2>2
      <4> HIDE DEF T
      <4> QED BY <1>1, <4>1
    <3>1. PICK g : g = Upto(g, k - 1)
      BY <3>0
    <3> DEFINE h == Upto(g, k)
    <3>2. ASSUME NEW m \in 0 .. k PROVE Step(h, m) = Step(g, m)
      <4>1. CASE m >= base
        <5>1. m \div base \in 0 .. k - 1 /\ m \div base \in 0 .. k
          BY <4>1, Division
        <5>2. h[m \div base] = Step(g, m \div base) /\ g[m \div base] = Step(g, m \div base)
          BY <5>1, <3>1
        <5>3. h[m \div base] = g[m \div base]
          BY <5>2
        <5> HIDE DEF h
        <5> QED BY <5>3
      <4>2. CASE m < base
        BY <4>2
      <4> QED BY <4>1, <4>2, Division
    <3>3. h = Upto(h, k)
      BY <3>2, Zenon
    <3> QED BY <3>3
  <2> QED BY <2>1, <2>2
<1>2. n \in T
  <2> HIDE DEF T
  <2> QED BY <1>1, Descent
<1>3. num = Upto(num, n)
  <2>1. (\E u : u = Upto(u, n)) => num = Upto(num, n)
    OBVIOUS
  <2> QED BY <2>1, <1>2
<1>4. Numeral(n, base) = num[n]
  BY DEF Numeral
<1> HIDE DEF num
<1> QED BY <1>3, <1>4

-----------------------------------------------------------------------------
(* Format: a number is written as its numeral.                              *)

\* strfromu and strhex print the reference's glyphs, none of them a terminator.
LEMMA DigitGlyph ==
    ASSUME NEW d \in 0 .. 15
    PROVE  Digit(d) = Glyphs[d + 1] /\ Digit(d) \in Nat \ {0}
<1>1. d \in {0, 1, 2, 3, 4, 5, 6, 7, 8, 9, 10, 11, 12, 13, 14, 15}
  OBVIOUS
<1> QED BY <1>1 DEF Digit, Glyphs, Zero, UpperA

\* The digit the loop writes k turns before the end.
LEMMA LoopDigit ==
    ASSUME NEW n \in Nat, NEW base \in Bases, NEW k \in Nat
    PROVE  Digit(Quotient(n, base, k) % base) \in Nat \ {0}
<1>1. Quotient(n, base, k) \in Nat
  BY QuotientNat
<1>2. Quotient(n, base, k) % base \in 0 .. 15
  BY <1>1, Division
<1> QED BY <1>2, DigitGlyph

\* The loop that counts the digits and the loop that writes them agree with the
\* numeral: the digit i of the numeral is the one left after the turns that
\* write the digits behind it.
LEMMA NumeralDigits ==
    ASSUME NEW n \in Nat, NEW base \in Bases
    PROVE  /\ Numeral(n, base) \in Seq(Nat)
           /\ Len(Numeral(n, base)) = Turns(n, base) + 1
           /\ \A i \in 1 .. Turns(n, base) + 1 :
                 Numeral(n, base)[i] = Digit(Quotient(n, base, Turns(n, base) + 1 - i) % base)
<1>1. PICK t : /\ t = [m \in 0 .. n |-> IF m \div base = 0 THEN 0 ELSE 1 + t[m \div base]]
               /\ Turns(n, base) = t[n]
  BY TurnsFunction
<1>2. PICK u : /\ u = [m \in 0 .. n |-> IF m < base THEN <<Glyphs[m + 1]>>
                                        ELSE Append(u[m \div base], Glyphs[(m % base) + 1])]
               /\ Numeral(n, base) = u[n]
  BY NumeralFunction
<1> DEFINE Good(m) == /\ t[m] \in Nat /\ u[m] \in Seq(Nat) /\ Len(u[m]) = t[m] + 1
                      /\ \A i \in 1 .. t[m] + 1 : u[m][i] = Digit(Quotient(m, base, t[m] + 1 - i) % base)
           T == {m \in 0 .. n : Good(m)}
<1>3. ASSUME NEW m \in 0 .. n, \A j \in 0 .. m - 1 : j \in T PROVE m \in T
  <2>1. t[m] = IF m \div base = 0 THEN 0 ELSE 1 + t[m \div base]
    BY <1>1
  <2>2. u[m] = IF m < base THEN <<Glyphs[m + 1]>>
               ELSE Append(u[m \div base], Glyphs[(m % base) + 1])
    BY <1>2
  <2>3. m \in Nat
    OBVIOUS
  <2>4. m % base \in 0 .. 15
    BY <2>3, Division
  <2>5. Quotient(m, base, 0) = m
    BY <2>3, QuotientZero
  <2>6. CASE m < base
    <3>1. m % base = m /\ t[m] = 0
      BY <2>1, <2>3, <2>6, Division
    <3>2. Digit(m % base) = Glyphs[m + 1] /\ Glyphs[m + 1] \in Nat
      BY <2>4, <3>1, DigitGlyph
    <3>3. u[m] = <<Glyphs[m + 1]>>
      BY <2>2, <2>6
    <3>4. u[m] \in Seq(Nat) /\ Len(u[m]) = 1 /\ u[m][1] = Glyphs[m + 1]
      BY <3>2, <3>3
    <3>5. ASSUME NEW i \in 1 .. t[m] + 1
          PROVE  u[m][i] = Digit(Quotient(m, base, t[m] + 1 - i) % base)
      <4>1. i = 1 /\ t[m] + 1 - i = 0
        BY <3>1
      <4> QED BY <2>5, <3>2, <3>4, <4>1
    <3>6. t[m] \in Nat /\ Len(u[m]) = t[m] + 1
      BY <3>1, <3>4
    <3> QED BY <3>4, <3>5, <3>6
  <2>7. CASE m >= base
    <3> DEFINE q == m \div base
               d == m % base
    <3>1. q \in Nat /\ q # 0 /\ q \in 0 .. m - 1
      BY <2>3, <2>7, Division
    <3>2. Good(q)
      <4>1. q \in T
        <5> HIDE DEF T, q
        <5> QED BY <1>3, <3>1
      <4> QED BY <4>1
    <3>3. t[m] = 1 + t[q]
      BY <2>1, <3>1
    <3>4. u[m] = Append(u[q], Glyphs[d + 1])
      <4>1. ~ (m < base)
        BY <2>3, <2>7, Division
      <4> QED BY <2>2, <4>1
    <3>5. Digit(d) = Glyphs[d + 1] /\ Glyphs[d + 1] \in Nat
      BY <2>4, DigitGlyph
    <3>6. \A k \in Nat : Quotient(m, base, k + 1) = Quotient(q, base, k)
      BY <2>3, QuotientFirst
    <3> HIDE DEF q, d
    <3>7. /\ u[m] \in Seq(Nat) /\ Len(u[m]) = t[q] + 2
          /\ \A i \in 1 .. t[q] + 1 : u[m][i] = u[q][i]
          /\ u[m][t[q] + 2] = Glyphs[d + 1]
      <4>1. t[q] \in Nat /\ u[q] \in Seq(Nat) /\ Len(u[q]) = t[q] + 1
        BY <3>2
      <4> HIDE DEF Good
      <4> QED BY <3>4, <3>5, <4>1
    <3>8. ASSUME NEW i \in 1 .. t[m] + 1
          PROVE  u[m][i] = Digit(Quotient(m, base, t[m] + 1 - i) % base)
      <4>1. t[q] \in Nat
        BY <3>2
      <4>2. CASE i = t[q] + 2
        <5>1. t[m] + 1 - i = 0
          BY <3>3, <4>1, <4>2
        <5>2. m % base = d
          BY DEF d
        <5> QED BY <2>5, <3>5, <3>7, <4>2, <5>1, <5>2
      <4>3. CASE i # t[q] + 2
        <5>1. i \in 1 .. t[q] + 1
          BY <3>3, <4>1, <4>3
        <5>2. t[q] + 1 - i \in Nat /\ t[m] + 1 - i = (t[q] + 1 - i) + 1
          BY <3>3, <4>1, <5>1
        <5>3. Quotient(m, base, t[m] + 1 - i) = Quotient(q, base, t[q] + 1 - i)
          BY <3>6, <5>2
        <5>4. u[q][i] = Digit(Quotient(q, base, t[q] + 1 - i) % base)
          BY <3>2, <5>1
        <5> QED BY <3>7, <5>1, <5>3, <5>4
      <4> QED BY <4>2, <4>3
    <3>9. t[m] \in Nat /\ Len(u[m]) = t[m] + 1
      BY <3>2, <3>3, <3>7
    <3> QED BY <3>7, <3>8, <3>9
  <2>8. m < base \/ m >= base
    BY <2>3, Division
  <2> QED BY <2>6, <2>7, <2>8
<1>4. n \in T
  <2> HIDE DEF T
  <2> QED BY <1>3, Descent
<1>5. Good(n)
  BY <1>4
<1> QED BY <1>1, <1>2, <1>5

-----------------------------------------------------------------------------
(* Format: the conversion of a number.                                      *)

\* What strfromu and strhex leave: the numeral from cell s on, clear memory
\* behind it, the cells before it as they were; and strlen finds its length.
LEMMA DigitsWritten ==
    ASSUME NEW b \in [Cells -> Nat], NEW s \in Nat, NEW n \in Nat, NEW base \in Bases,
           s + Turns(n, base) + 1 \in Cells,
           \A j \in Cells : j >= s => b[j] = 0
    PROVE  /\ Digits(b, s, n, base) \in [Cells -> Nat]
           /\ \A j \in Cells : j < s => Digits(b, s, n, base)[j] = b[j]
           /\ \A i \in 1 .. Turns(n, base) + 1 :
                 Digits(b, s, n, base)[s + i - 1] = Numeral(n, base)[i]
           /\ \A j \in Cells : j >= s + Turns(n, base) + 1 => Digits(b, s, n, base)[j] = 0
           /\ Strlen(Digits(b, s, n, base), s) = Turns(n, base) + 1
<1> DEFINE w == Turns(n, base)
           Dig(k) == Digit(Quotient(n, base, k) % base)
           v == Digits(b, s, n, base)
           x == s + w + 1
<1>1. Room \in Nat /\ w \in Nat /\ x \in Nat
  <2>1. w \in Nat
    BY TurnsNat
  <2> HIDE DEF w
  <2> QED BY <2>1, FormatAssumption
<1>2. \A k \in Nat : Dig(k) \in Nat \ {0}
  BY LoopDigit
<1>3. v = [j \in Cells |-> IF j = s + w + 1 THEN 0
                           ELSE IF j \in s .. s + w THEN Dig((s + w) - j) ELSE b[j]]
  BY DEF Digits
<1>4. \A i \in 1 .. w + 1 : Numeral(n, base)[i] = Dig(w + 1 - i)
  BY NumeralDigits
<1> HIDE DEF w, Dig, v
<1>5. ASSUME NEW j \in Cells
      PROVE  /\ j < s => v[j] = b[j]
             /\ j \in s .. s + w => v[j] = Dig((s + w) - j)
             /\ j >= x => v[j] = 0
             /\ v[j] \in Nat
  <2>1. j \in Nat /\ j < Room
    BY <1>1 DEF Cells
  <2>2. v[j] = IF j = s + w + 1 THEN 0 ELSE IF j \in s .. s + w THEN Dig((s + w) - j) ELSE b[j]
    BY <1>3
  <2>3. j \in s .. s + w => (s + w) - j \in Nat
    BY <1>1, <2>1
  <2>4. j \in s .. s + w => Dig((s + w) - j) \in Nat
    BY <1>2, <2>3
  <2> QED BY <1>1, <2>1, <2>2, <2>4
<1>6. v \in [Cells -> Nat]
  BY <1>3, <1>5
<1>7. ASSUME NEW i \in 1 .. w + 1 PROVE v[s + i - 1] = Numeral(n, base)[i]
  <2>1. s + i - 1 \in s .. s + w /\ (s + w) - (s + i - 1) = w + 1 - i
    BY <1>1
  <2>2. s + i - 1 \in Cells
    BY <1>1, <2>1 DEF Cells, w
  <2> QED BY <1>4, <1>5, <2>1, <2>2
<1>8. Strlen(v, s) = w + 1
  <2> DEFINE Is(e) == e >= s /\ v[e] = 0 /\ \A j \in s .. e - 1 : v[j] # 0
             e0 == CHOOSE e \in Cells : Is(e)
  <2>1. x \in Cells
    BY DEF w
  <2>2. ASSUME NEW j \in s .. x - 1 PROVE j \in Cells /\ v[j] # 0
    <3>1. j \in Cells /\ j \in s .. s + w /\ (s + w) - j \in Nat
      BY <1>1, <2>1 DEF Cells
    <3>2. v[j] = Dig((s + w) - j) /\ Dig((s + w) - j) # 0
      BY <1>2, <1>5, <3>1
    <3> QED BY <3>1, <3>2
  <2>3. Is(x)
    <3>1. x >= s /\ v[x] = 0
      BY <1>1, <1>5, <2>1
    <3> QED BY <2>2, <3>1
  <2>4. e0 \in Cells /\ Is(e0)
    BY <2>1, <2>3
  <2>5. Strlen(v, s) = e0 - s
    BY DEF Strlen
  <2> HIDE DEF e0
  <2>6. e0 \in Nat
    BY <1>1, <2>4 DEF Cells
  <2>7. ~ (e0 < x)
    <3> SUFFICES ASSUME e0 < x PROVE FALSE
      OBVIOUS
    <3>1. e0 \in s .. x - 1
      BY <1>1, <2>4, <2>6
    <3> QED BY <2>2, <2>4, <3>1
  <2>8. ~ (x < e0)
    <3> SUFFICES ASSUME x < e0 PROVE FALSE
      OBVIOUS
    <3>1. x \in s .. e0 - 1
      BY <1>1, <2>6
    <3> QED BY <2>3, <2>4, <3>1
  <2>9. e0 = s + w + 1
    BY <1>1, <2>6, <2>7, <2>8
  <2> QED BY <1>1, <2>5, <2>9
<1> QED BY <1>5, <1>6, <1>7, <1>8 DEF v, w

-----------------------------------------------------------------------------
(* Format: the text.                                                        *)

\* The body of Text at character k of the format string.
Directives(form, args, k, a) ==
    IF k > Len(form) THEN <<>>
    ELSE IF form[k] # Percent \/ k = Len(form)
         THEN <<form[k]>> \o Text(form, args, k + 1, a)
    ELSE IF form[k + 1] \in {115, 117, 100, 120}
         THEN Image(form[k + 1], args[a]) \o Text(form, args, k + 2, a + 1)
    ELSE Text(form, args, k + 2, a)

\* Text is well defined: the rest of the format string gets shorter.
LEMMA TextStep ==
    ASSUME NEW form \in Seq(Chars), NEW args, NEW k \in Nat, NEW a \in Nat
    PROVE  Text(form, args, k, a) = Directives(form, args, k, a)
<1> DEFINE D == Nat \X Nat
           L == Len(form)
           Step(g, q) == IF q[1] > L THEN <<>>
                         ELSE IF form[q[1]] # Percent \/ q[1] = L
                              THEN <<form[q[1]]>> \o g[<<q[1] + 1, q[2]>>]
                         ELSE IF form[q[1] + 1] \in {115, 117, 100, 120}
                              THEN Image(form[q[1] + 1], args[q[2]]) \o g[<<q[1] + 2, q[2] + 1>>]
                         ELSE g[<<q[1] + 2, q[2]>>]
           Late(i) == {q \in D : q[1] + i > L}
           From(g, i) == [q \in Late(i) |-> Step(g, q)]
           T == {i \in 0 .. L + 1 : \E g : g = From(g, i)}
           text == CHOOSE g : g = [q \in D |-> Step(g, q)]
<1>1. L \in Nat
  OBVIOUS
<1> HIDE DEF L
<1>2. ASSUME NEW i \in 0 .. L + 1, \A j \in 0 .. i - 1 : j \in T PROVE i \in T
  <2>1. CASE i = 0
    <3> DEFINE g == [q \in Late(0) |-> <<>>]
    <3>1. ASSUME NEW q \in Late(0) PROVE Step(g, q) = <<>>
      <4>1. q[1] > L
        BY <1>1
      <4> QED BY <4>1
    <3>2. g = From(g, 0)
      BY <3>1, Zenon
    <3> QED BY <1>1, <3>2, <2>1
  <2>2. CASE i # 0
    <3>0. i - 1 \in T
      <4>1. i - 1 \in 0 .. i - 1
        BY <1>1, <2>2
      <4> HIDE DEF T
      <4> QED BY <1>2, <4>1
    <3>1. PICK g : g = From(g, i - 1)
      BY <3>0
    <3> DEFINE h == From(g, i)
    <3>2. ASSUME NEW q \in Late(i - 1) PROVE h[q] = g[q]
      <4>1. q \in Late(i)
        BY <1>1
      <4>2. h[q] = Step(g, q)
        BY <4>1
      <4>3. g[q] = Step(g, q)
        <5> HIDE DEF Step
        <5> QED BY <3>1
      <4> HIDE DEF h, Step
      <4> QED BY <4>2, <4>3
    <3>3. ASSUME NEW q \in Late(i) PROVE Step(h, q) = Step(g, q)
      <4>1. <<q[1] + 1, q[2]>> \in Late(i - 1)
        BY <1>1
      <4>2. <<q[1] + 2, q[2] + 1>> \in Late(i - 1)
        BY <1>1
      <4>3. <<q[1] + 2, q[2]>> \in Late(i - 1)
        BY <1>1
      <4>4. /\ h[<<q[1] + 1, q[2]>>] = g[<<q[1] + 1, q[2]>>]
            /\ h[<<q[1] + 2, q[2] + 1>>] = g[<<q[1] + 2, q[2] + 1>>]
            /\ h[<<q[1] + 2, q[2]>>] = g[<<q[1] + 2, q[2]>>]
        <5> HIDE DEF h, Late
        <5> QED BY <3>2, <4>1, <4>2, <4>3, Zenon
      <4> HIDE DEF h
      <4> QED BY <4>4, Zenon
    <3>4. h = From(h, i)
      <4>1. h = [q \in Late(i) |-> Step(g, q)]
        OBVIOUS
      <4> HIDE DEF h, Step, Late
      <4> QED BY <3>3, <4>1, Zenon
    <3> HIDE DEF h, From
    <3> QED BY <3>4
  <2> QED BY <2>1, <2>2
<1>3. L + 1 \in T
  <2>1. L + 1 \in Nat
    BY <1>1
  <2>2. L + 1 \in 0 .. L + 1
    BY <1>1
  <2> HIDE DEF T
  <2>3. 0 .. L + 1 \subseteq T
    BY <1>2, <2>1, Descent
  <2> QED BY <2>2, <2>3
<1>4. Late(L + 1) = D
  BY <1>1
<1>5. text = [q \in D |-> Step(text, q)]
  <2>1. PICK g : g = From(g, L + 1)
    BY <1>3
  <2>2. g = [q \in D |-> Step(g, q)]
    <3> HIDE DEF Step, Late, D
    <3> QED BY <1>4, <2>1, Zenon
  <2>3. (\E g1 : g1 = [q \in D |-> Step(g1, q)]) => text = [q \in D |-> Step(text, q)]
    <3> HIDE DEF Step, D
    <3> QED OBVIOUS
  <2> HIDE DEF text, Step, D
  <2> QED BY <2>2, <2>3
<1>6. \A i, j : Text(form, args, i, j) = text[<<i, j>>]
  BY DEF Text, L
<1> HIDE DEF text
<1>7. <<k, a>> \in D /\ <<k, a>>[1] = k /\ <<k, a>>[2] = a
  OBVIOUS
<1>8. text[<<k, a>>] = Step(text, <<k, a>>)
  <2> HIDE DEF Step, D
  <2> QED BY <1>5, <1>7, Zenon
<1>9. Step(text, <<k, a>>) =
        IF k > L THEN <<>>
        ELSE IF form[k] # Percent \/ k = L THEN <<form[k]>> \o text[<<k + 1, a>>]
        ELSE IF form[k + 1] \in {115, 117, 100, 120}
             THEN Image(form[k + 1], args[a]) \o text[<<k + 2, a + 1>>]
        ELSE text[<<k + 2, a>>]
  BY <1>7, Zenon
<1>10. /\ Text(form, args, k, a) = text[<<k, a>>]
       /\ Text(form, args, k + 1, a) = text[<<k + 1, a>>]
       /\ Text(form, args, k + 2, a) = text[<<k + 2, a>>]
       /\ Text(form, args, k + 2, a + 1) = text[<<k + 2, a + 1>>]
  BY <1>6, Zenon
<1> HIDE DEF Step
<1> QED BY <1>8, <1>9, <1>10 DEF L, Directives

\* Text at a character that starts no conversion.
LEMMA TextLiteral ==
    ASSUME NEW form \in Seq(Chars), NEW args, NEW k \in Nat, NEW a \in Nat,
           k <= Len(form), form[k] # Percent \/ k = Len(form)
    PROVE  Text(form, args, k, a) = <<form[k]>> \o Text(form, args, k + 1, a)
<1>1. ~ (k > Len(form))
  OBVIOUS
<1>2. Text(form, args, k, a) = Directives(form, args, k, a)
  BY TextStep
<1> QED BY <1>1, <1>2 DEF Directives

\* Text at a conversion.
LEMMA TextConversion ==
    ASSUME NEW form \in Seq(Chars), NEW args, NEW k \in Nat, NEW a \in Nat,
           k < Len(form), form[k] = Percent, form[k + 1] \in {115, 117, 100, 120}
    PROVE  Text(form, args, k, a)
             = Image(form[k + 1], args[a]) \o Text(form, args, k + 2, a + 1)
<1>1. ~ (k > Len(form)) /\ k # Len(form)
  OBVIOUS
<1>2. Text(form, args, k, a) = Directives(form, args, k, a)
  BY TextStep
<1> QED BY <1>1, <1>2 DEF Directives

\* Text at an unknown directive, which means nothing.
LEMMA TextSkip ==
    ASSUME NEW form \in Seq(Chars), NEW args, NEW k \in Nat, NEW a \in Nat,
           k < Len(form), form[k] = Percent, form[k + 1] \notin {115, 117, 100, 120}
    PROVE  Text(form, args, k, a) = Text(form, args, k + 2, a)
<1>1. ~ (k > Len(form)) /\ k # Len(form)
  OBVIOUS
<1>2. Text(form, args, k, a) = Directives(form, args, k, a)
  BY TextStep
<1> QED BY <1>1, <1>2 DEF Directives

\* Text at the end of the format string.
LEMMA TextEnd ==
    ASSUME NEW form \in Seq(Chars), NEW args, NEW k \in Nat, NEW a \in Nat, k > Len(form)
    PROVE  Text(form, args, k, a) = <<>>
<1>1. Text(form, args, k, a) = Directives(form, args, k, a)
  BY TextStep
<1> QED BY <1>1 DEF Directives

-----------------------------------------------------------------------------
(* Format: the inductive invariant.                                         *)

Args == Strings \cup Unsigneds \cup Signeds

\* The characters before cell t.
Printed(b, t) == [j \in 1 .. t |-> b[j - 1]]

\* args starts with the arguments taken.
Extends(args, taken) ==
    Len(taken) <= Len(args) /\ \A i \in 1 .. Len(taken) : args[i] = taken[i]

\* Whatever the arguments still to come: what is printed, followed by the text
\* the rest of the format string stands for, is the text meant.
SoFar(form, taken, k, b, t) ==
    \A args \in Seq(Args) :
        /\ Extends(args, taken)
        /\ Text(form, args, k, Len(taken) + 1) \in Seq(Nat)
        => Text(form, args, 1, 1) = Printed(b, t) \o Text(form, args, k, Len(taken) + 1)

FormatTypes ==
    /\ fmt \in Formats /\ pos \in 1 .. Len(fmt) + 1
    /\ buf \in [Cells -> Nat] /\ tmp \in Nat /\ reach \in Int
    /\ given \in Seq(Args) /\ result \in Int

Fits == 2 * tmp <= Widest * (pos - 1)

Returned == result # -1 => result = tmp /\ reach = tmp /\ pos = Len(fmt) + 1

FormatInv ==
    /\ FormatTypes /\ Fits /\ reach <= tmp /\ ClearAhead /\ Returned
    /\ SoFar(fmt, given, pos, buf, tmp)

\* The format strings.
LEMMA FormatsFacts ==
    ASSUME NEW s \in Formats
    PROVE  /\ s \in Seq(Chars) /\ Len(s) \in Nat /\ Len(s) <= MaxFmt
           /\ \A i \in 1 .. Len(s) : s[i] \in Nat \ {0}
<1>1. PICK n \in 0 .. MaxFmt : s \in [1 .. n -> Chars]
  BY DEF Formats
<1>2. n \in Nat /\ n <= MaxFmt
  BY FormatAssumption
<1>3. s \in Seq(Chars) /\ Len(s) = n
  BY <1>1, <1>2
<1>4. \A i \in 1 .. n : s[i] \in Chars
  BY <1>1
<1>5. Chars \subseteq Nat \ {0}
  BY FormatAssumption
<1> QED BY <1>2, <1>3, <1>4, <1>5

\* The cells a text so far can reach, and the one behind, are memory.
LEMMA WithinRoom ==
    ASSUME NEW t \in Nat, NEW p \in Nat, p <= MaxFmt, 2 * t <= Widest * p
    PROVE  t \in Cells /\ t + 1 \in Cells
<1>1. MaxFmt \in Nat /\ Room \in Nat /\ Widest \in Nat
  BY FormatAssumption
<1>2. Widest * MaxFmt + 2 < 2 * Room
  BY RoomAssumption
<1>3. Widest * p \in Nat /\ Widest * MaxFmt \in Nat /\ Widest * p <= Widest * MaxFmt
  BY <1>1
<1> DEFINE x == Widest * p
           y == Widest * MaxFmt
<1> HIDE DEF x, y
<1>4. x \in Nat /\ y \in Nat /\ x <= y /\ y + 2 < 2 * Room /\ 2 * t <= x
  BY <1>2, <1>3 DEF x, y
<1> QED BY <1>1, <1>4 DEF Cells

\* What is printed is a sequence of characters.
LEMMA PrintedSeq ==
    ASSUME NEW b \in [Cells -> Nat], NEW t \in Nat, t \in Cells
    PROVE  /\ Printed(b, t) \in Seq(Nat) /\ Len(Printed(b, t)) = t
           /\ \A j \in 1 .. t : Printed(b, t)[j] = b[j - 1]
<1>1. \A j \in 1 .. t : j - 1 \in Cells
  BY FormatAssumption DEF Cells
<1>2. \A j \in 1 .. t : b[j - 1] \in Nat
  BY <1>1
<1>3. Printed(b, t) \in [1 .. t -> Nat]
  BY <1>2 DEF Printed
<1>4. \A j \in 1 .. t : Printed(b, t)[j] = b[j - 1]
  BY DEF Printed
<1> HIDE DEF Printed
<1>5. Printed(b, t) \in Seq(Nat) /\ Len(Printed(b, t)) = t
  BY <1>3
<1> QED BY <1>4, <1>5

\* The characters written behind the printed ones are appended to them.
LEMMA PrintedMore ==
    ASSUME NEW b \in [Cells -> Nat], NEW c \in [Cells -> Nat], NEW t \in Nat,
           NEW s \in Seq(Nat), t \in Cells, t + Len(s) \in Cells,
           \A j \in Cells : j < t => c[j] = b[j],
           \A i \in 1 .. Len(s) : c[t + i - 1] = s[i]
    PROVE  Printed(c, t + Len(s)) = Printed(b, t) \o s
<1> DEFINE P == Printed(b, t)
           Q == Printed(c, t + Len(s))
           n == Len(s)
<1>1. n \in Nat /\ t + n \in Nat
  OBVIOUS
<1>2. P \in Seq(Nat) /\ Len(P) = t /\ \A j \in 1 .. t : P[j] = b[j - 1]
  BY PrintedSeq
<1>3. Q \in Seq(Nat) /\ Len(Q) = t + n /\ \A j \in 1 .. t + n : Q[j] = c[j - 1]
  BY <1>1, PrintedSeq
<1> HIDE DEF P, Q
<1>4. /\ P \o s \in Seq(Nat) /\ Len(P \o s) = t + n
      /\ \A j \in 1 .. t + n : (P \o s)[j] = IF j <= t THEN P[j] ELSE s[j - t]
  BY <1>2, ConcatProperties
<1>5. ASSUME NEW j \in 1 .. t + n PROVE Q[j] = (P \o s)[j]
  <2>1. CASE j <= t
    <3>1. j \in 1 .. t /\ j - 1 \in Cells /\ j - 1 < t
      BY <1>1, <2>1, FormatAssumption DEF Cells
    <3> QED BY <1>2, <1>3, <1>4, <2>1, <3>1
  <2>2. CASE ~ (j <= t)
    <3>1. j - t \in 1 .. n /\ t + (j - t) - 1 = j - 1
      BY <1>1, <2>2
    <3>2. c[j - 1] = s[j - t]
      BY <3>1
    <3> QED BY <1>3, <1>4, <2>2, <3>2
  <2> QED BY <2>1, <2>2
<1>6. Q = P \o s
  BY <1>3, <1>4, <1>5, SeqEqual
<1> QED BY <1>6 DEF P, Q

\* Concatenation is associative.
LEMMA Regroup ==
    ASSUME NEW p \in Seq(Nat), NEW q \in Seq(Nat), NEW r \in Seq(Nat)
    PROVE  (p \o q) \o r = p \o (q \o r)
OBVIOUS

\* Printing what the next directive stands for keeps SoFar.
LEMMA SoFarStep ==
    ASSUME NEW form, NEW taken \in Seq(Args), NEW more \in Seq(Args), NEW k, NEW m,
           NEW b \in [Cells -> Nat], NEW t \in Nat, t \in Cells, NEW c, NEW s \in Seq(Nat),
           SoFar(form, taken, k, b, t), Extends(more, taken),
           Printed(c, t + Len(s)) = Printed(b, t) \o s,
           \A args \in Seq(Args) :
               Extends(args, more) /\ Text(form, args, m, Len(more) + 1) \in Seq(Nat)
               => Text(form, args, k, Len(taken) + 1) = s \o Text(form, args, m, Len(more) + 1)
    PROVE  SoFar(form, more, m, c, t + Len(s))
<1> SUFFICES ASSUME NEW args \in Seq(Args), Extends(args, more),
                    Text(form, args, m, Len(more) + 1) \in Seq(Nat)
             PROVE  Text(form, args, 1, 1)
                      = Printed(c, t + Len(s)) \o Text(form, args, m, Len(more) + 1)
  BY DEF SoFar
<1> DEFINE R == Text(form, args, m, Len(more) + 1)
           P == Printed(b, t)
<1>1. P \in Seq(Nat)
  BY PrintedSeq
<1>2. Extends(args, taken)
  <2>1. Len(taken) \in Nat /\ Len(more) \in Nat /\ Len(args) \in Nat
    OBVIOUS
  <2>2. Len(taken) <= Len(more) /\ Len(more) <= Len(args)
    BY DEF Extends
  <2>3. ASSUME NEW i \in 1 .. Len(taken) PROVE args[i] = taken[i]
    <3>1. i \in 1 .. Len(more)
      BY <2>1, <2>2
    <3> QED BY <3>1 DEF Extends
  <2> QED BY <2>1, <2>2, <2>3 DEF Extends
<1>3. Text(form, args, k, Len(taken) + 1) = s \o R
  OBVIOUS
<1>4. s \o R \in Seq(Nat)
  BY ConcatProperties
<1>5. Text(form, args, 1, 1) = P \o (s \o R)
  BY <1>2, <1>3, <1>4 DEF SoFar
<1>0. R \in Seq(Nat)
  OBVIOUS
<1> HIDE DEF P, R
<1>6. (P \o s) \o R = P \o (s \o R)
  BY <1>0, <1>1, Regroup
<1> QED BY <1>5, <1>6 DEF P, R

-----------------------------------------------------------------------------
(* Format: the steps of vsprintf.                                           *)

\* The room for the n characters of a directive of d characters.
LEMMA Ahead ==
    ASSUME FormatInv, NEW n \in Nat, NEW d \in {1, 2}, pos + d <= Len(fmt) + 1, 2 * n <= Widest * d
    PROVE  /\ 2 * (tmp + n) <= Widest * ((pos + d) - 1)
           /\ tmp \in Cells /\ tmp + n \in Cells /\ tmp + n + 1 \in Cells
<1>1. /\ Len(fmt) \in Nat /\ Len(fmt) <= MaxFmt /\ pos \in 1 .. Len(fmt) + 1 /\ tmp \in Nat
      /\ MaxFmt \in Nat /\ Widest \in Nat
  BY FormatsFacts, FormatAssumption DEF FormatInv, FormatTypes
<1>2. 2 * tmp <= Widest * (pos - 1)
  BY DEF FormatInv, Fits
<1>3. /\ pos - 1 \in Nat /\ (pos + d) - 1 \in Nat /\ pos - 1 <= MaxFmt /\ (pos + d) - 1 <= MaxFmt
      /\ (pos + d) - 1 = (pos - 1) + d
  BY <1>1
<1>4. /\ Widest * (pos - 1) \in Nat /\ Widest * d \in Nat
      /\ Widest * ((pos - 1) + d) = Widest * (pos - 1) + Widest * d
  BY <1>1, <1>3
<1> DEFINE x == Widest * (pos - 1)
           y == Widest * d
<1>5. x \in Nat /\ y \in Nat /\ 2 * tmp <= x /\ 2 * n <= y /\ Widest * ((pos + d) - 1) = x + y
  BY <1>2, <1>3, <1>4
<1> HIDE DEF x, y
<1>6. 2 * (tmp + n) <= x + y
  BY <1>1, <1>5
<1>7. tmp \in Cells
  BY <1>1, <1>2, <1>3, WithinRoom
<1>8. tmp + n \in Nat /\ 2 * (tmp + n) <= Widest * ((pos + d) - 1)
  BY <1>1, <1>5, <1>6
<1>9. tmp + n \in Cells /\ (tmp + n) + 1 \in Cells
  BY <1>3, <1>8, WithinRoom
<1> QED BY <1>7, <1>8, <1>9

\* The buffer c is buf with s written behind the printed characters.
Appends(c, s) ==
    /\ c \in [Cells -> Nat]
    /\ \A j \in Cells : j < tmp => c[j] = buf[j]
    /\ \A i \in 1 .. Len(s) : c[tmp + i - 1] = s[i]
    /\ \A j \in Cells : j >= tmp + Len(s) => c[j] = 0

\* The d characters at pos and the arguments they take, up to more, mean s.
StandsFor(d, more, s) ==
    \A args \in Seq(Args) :
        Extends(args, more) /\ Text(fmt, args, pos + d, Len(more) + 1) \in Seq(Nat)
        => Text(fmt, args, pos, Len(given) + 1) = s \o Text(fmt, args, pos + d, Len(more) + 1)

\* What a step does with them.
Moves(c, s, d, more) ==
    /\ buf' = c /\ tmp' = tmp + Len(s) /\ reach' \in Int /\ reach' <= tmp + Len(s)
    /\ pos' = pos + d /\ given' = more /\ fmt' = fmt /\ result' = result

\* A directive of d characters that prints s and takes the arguments up to more.
LEMMA Directive ==
    ASSUME FormatInv, result = -1, NEW s \in Seq(Nat), NEW d \in {1, 2}, NEW more \in Seq(Args),
           pos + d <= Len(fmt) + 1, 2 * Len(s) <= Widest * d,
           NEW c, Appends(c, s), Extends(more, given), StandsFor(d, more, s), Moves(c, s, d, more)
    PROVE  FormatInv'
<1>0. /\ buf' = c /\ tmp' = tmp + Len(s) /\ reach' \in Int /\ reach' <= tmp + Len(s)
      /\ pos' = pos + d /\ given' = more /\ fmt' = fmt /\ result' = result
  BY DEF Moves
<1>1. /\ fmt \in Formats /\ Len(fmt) \in Nat /\ pos \in 1 .. Len(fmt) + 1 /\ tmp \in Nat
      /\ buf \in [Cells -> Nat] /\ given \in Seq(Args) /\ Len(s) \in Nat
  BY FormatsFacts DEF FormatInv, FormatTypes
<1>2. /\ 2 * (tmp + Len(s)) <= Widest * ((pos + d) - 1)
      /\ tmp \in Cells /\ tmp + Len(s) \in Cells
  BY <1>1, Ahead
<1>3. FormatTypes'
  <2>1. pos + d \in 1 .. Len(fmt) + 1 /\ tmp + Len(s) \in Nat /\ -1 \in Int
    BY <1>1
  <2> QED BY <1>0, <1>1, <2>1 DEF FormatTypes, Appends
<1>4. Fits'
  BY <1>0, <1>2 DEF Fits
<1>5. ClearAhead'
  BY <1>0 DEF ClearAhead, Appends
<1>6. Returned'
  BY <1>0 DEF Returned
<1>7. Printed(c, tmp + Len(s)) = Printed(buf, tmp) \o s
  BY <1>1, <1>2, PrintedMore DEF Appends
<1>8. SoFar(fmt, given, pos, buf, tmp)
  BY DEF FormatInv
<1>9. SoFar(fmt, more, pos + d, c, tmp + Len(s))
  BY <1>1, <1>2, <1>7, <1>8, SoFarStep DEF StandsFor
<1>10. SoFar(fmt, given, pos, buf, tmp)'
  BY <1>0, <1>9
<1>11. (reach <= tmp)'
  BY <1>0
<1> QED BY <1>3, <1>4, <1>5, <1>6, <1>10, <1>11 DEF FormatInv

\* A list of arguments extends itself.
LEMMA ExtendsItself ==
    ASSUME NEW s \in Seq(Args)
    PROVE  Extends(s, s)
  BY DEF Extends

\* A character that starts no conversion is copied.
LEMMA LiteralKeeps ==
    ASSUME FormatInv, Literal
    PROVE  FormatInv'
<1> DEFINE s == <<fmt[pos]>>
           c == Put(buf, tmp, fmt[pos])
<1>1. /\ fmt \in Seq(Chars) /\ Len(fmt) \in Nat /\ pos \in 1 .. Len(fmt) + 1 /\ tmp \in Nat
      /\ buf \in [Cells -> Nat] /\ given \in Seq(Args) /\ reach \in Int /\ reach <= tmp
      /\ \A i \in 1 .. Len(fmt) : fmt[i] \in Nat \ {0}
  BY FormatsFacts DEF FormatInv, FormatTypes
<1>2. /\ result = -1 /\ pos <= Len(fmt) /\ (fmt[pos] # Percent \/ pos = Len(fmt))
      /\ buf' = c /\ tmp' = tmp + 1 /\ pos' = pos + 1 /\ fmt' = fmt /\ given' = given /\ result' = result
      /\ reach' = IF tmp > reach THEN tmp ELSE reach
  BY <1>1 DEF Literal, More, IsConversion, Advance
<1>3. fmt[pos] \in Nat /\ pos \in Nat /\ pos + 1 <= Len(fmt) + 1
  BY <1>1, <1>2
<1>4. s \in Seq(Nat) /\ Len(s) = 1 /\ s[1] = fmt[pos]
  BY <1>3
<1>5. 2 * Len(s) <= Widest * 1
  BY <1>4, FormatAssumption, RoomAssumption
<1>6. tmp \in Cells
  BY <1>3, <1>4, <1>5, Ahead
<1>7. /\ c \in [Cells -> Nat] /\ c[tmp] = fmt[pos]
      /\ \A j \in Cells : j # tmp => c[j] = buf[j]
  BY <1>1, <1>3, <1>6 DEF Put
<1>8. StandsFor(1, given, s)
  <2>1. Len(given) + 1 \in Nat /\ ~ (pos > Len(fmt))
    BY <1>1, <1>2
  <2>2. ASSUME NEW args
        PROVE  Text(fmt, args, pos, Len(given) + 1) = s \o Text(fmt, args, pos + 1, Len(given) + 1)
    <3> DEFINE a == Len(given) + 1
    <3> HIDE DEF a
    <3>1. a \in Nat
      BY <2>1 DEF a
    <3>2. fmt \in Seq(Chars) /\ pos \in Nat /\ pos <= Len(fmt)
      BY <1>1, <1>2, <1>3
    <3>3. Text(fmt, args, pos, a) = <<fmt[pos]>> \o Text(fmt, args, pos + 1, a)
      BY <1>2, <3>1, <3>2, TextLiteral
    <3> QED BY <3>3 DEF a
  <2> QED BY <2>2 DEF StandsFor
<1> HIDE DEF c, s
<1>9. \A j \in Cells : j < tmp => c[j] = buf[j]
  BY <1>1, <1>7
<1>10. \A i \in 1 .. Len(s) : c[tmp + i - 1] = s[i]
  BY <1>1, <1>4, <1>7
<1>11. ASSUME NEW j \in Cells, j >= tmp + Len(s) PROVE c[j] = 0
  <2>1. j \in Nat
    BY FormatAssumption DEF Cells
  <2>2. j # tmp /\ j >= tmp
    BY <1>1, <1>4, <1>11, <2>1
  <2>3. buf[j] = 0
    BY <2>2 DEF FormatInv, ClearAhead
  <2> QED BY <1>7, <2>2, <2>3
<1>12. Appends(c, s)
  BY <1>7, <1>9, <1>10, <1>11 DEF Appends
<1>13. Moves(c, s, 1, given)
  BY <1>1, <1>2, <1>4 DEF Moves
<1>14. Extends(given, given)
  BY <1>1, ExtendsItself
<1>15. 1 \in {1, 2}
  OBVIOUS
<1> QED BY <1>1, <1>2, <1>3, <1>4, <1>5, <1>8, <1>12, <1>13, <1>14, <1>15, Directive

\* Taking an argument.
LEMMA ExtendsOne ==
    ASSUME NEW s \in Seq(Args), NEW x \in Args
    PROVE  Append(s, x) \in Seq(Args) /\ Len(Append(s, x)) = Len(s) + 1 /\ Extends(Append(s, x), s)
  BY DEF Extends

\* A conversion that takes arg and prints its image.
LEMMA Converts ==
    ASSUME FormatInv, More, IsConversion, fmt[pos + 1] \in {115, 117, 100, 120},
           NEW arg \in Args, NEW s \in Seq(Nat), s = Image(fmt[pos + 1], arg), Len(s) <= Widest,
           NEW c, Appends(c, s), Takes(arg),
           buf' = c, tmp' = tmp + Len(s), reach' \in Int, reach' <= tmp + Len(s)
    PROVE  FormatInv'
<1> DEFINE more == Append(given, arg)
<1>1. /\ fmt \in Seq(Chars) /\ Len(fmt) \in Nat /\ pos \in 1 .. Len(fmt) + 1 /\ tmp \in Nat
      /\ given \in Seq(Args) /\ Len(given) \in Nat
  BY FormatsFacts DEF FormatInv, FormatTypes
<1>2. result = -1 /\ pos < Len(fmt) /\ fmt[pos] = Percent
  BY DEF More, IsConversion
<1>3. pos \in Nat /\ pos + 2 <= Len(fmt) + 1
  BY <1>1, <1>2
<1>4. more \in Seq(Args) /\ Len(more) = Len(given) + 1 /\ Extends(more, given)
  BY <1>1, ExtendsOne
<1>5. more[Len(given) + 1] = arg
  BY <1>1
<1>6. given' = more /\ pos' = pos + 2 /\ fmt' = fmt /\ result' = result
  BY DEF Takes
<1> HIDE DEF more
<1>7. StandsFor(2, more, s)
  <2>1. ASSUME NEW args \in Seq(Args), Extends(args, more)
        PROVE  Text(fmt, args, pos, Len(given) + 1) = s \o Text(fmt, args, pos + 2, Len(more) + 1)
    <3> DEFINE a == Len(given) + 1
    <3>1. a \in Nat /\ a + 1 = Len(more) + 1 /\ a \in 1 .. Len(more)
      BY <1>1, <1>4
    <3>2. args[a] = more[a]
      BY <2>1, <3>1 DEF Extends
    <3>3. args[a] = arg
      BY <1>5, <3>2
    <3> HIDE DEF a
    <3>4. Text(fmt, args, pos, a) = Image(fmt[pos + 1], args[a]) \o Text(fmt, args, pos + 2, a + 1)
      <4>1. /\ fmt \in Seq(Chars) /\ pos \in Nat /\ a \in Nat /\ pos < Len(fmt)
            /\ fmt[pos] = Percent /\ fmt[pos + 1] \in {115, 117, 100, 120}
        BY <1>1, <1>2, <1>3, <3>1
      <4> QED BY <4>1, TextConversion, Zenon
    <3>5. Text(fmt, args, pos, a) = s \o Text(fmt, args, pos + 2, Len(more) + 1)
      BY <3>1, <3>3, <3>4
    <3> QED BY <3>5 DEF a
  <2> QED BY <2>1 DEF StandsFor
<1>8. Moves(c, s, 2, more)
  BY <1>6 DEF Moves
<1>9. 2 * Len(s) <= Widest * 2 /\ 2 \in {1, 2}
  BY FormatAssumption
<1> QED BY <1>2, <1>3, <1>4, <1>7, <1>8, <1>9, Directive

\* An unknown directive prints nothing and takes nothing.
LEMMA SkipKeeps ==
    ASSUME FormatInv, More, IsConversion, fmt[pos + 1] \notin {115, 117, 100, 120},
           pos' = pos + 2, UNCHANGED <<fmt, buf, tmp, reach, given, result>>
    PROVE  FormatInv'
<1>1. /\ fmt \in Seq(Chars) /\ Len(fmt) \in Nat /\ pos \in 1 .. Len(fmt) + 1 /\ tmp \in Nat
      /\ buf \in [Cells -> Nat] /\ given \in Seq(Args) /\ Len(given) \in Nat
      /\ reach \in Int /\ reach <= tmp
  BY FormatsFacts DEF FormatInv, FormatTypes
<1>2. result = -1 /\ pos < Len(fmt) /\ fmt[pos] = Percent
  BY DEF More, IsConversion
<1>3. pos \in Nat /\ pos + 2 <= Len(fmt) + 1
  BY <1>1, <1>2
<1>4. <<>> \in Seq(Nat) /\ Len(<<>>) = 0
  OBVIOUS
<1>5. StandsFor(2, given, <<>>)
  <2>1. ASSUME NEW args, Text(fmt, args, pos + 2, Len(given) + 1) \in Seq(Nat)
        PROVE  Text(fmt, args, pos, Len(given) + 1) = <<>> \o Text(fmt, args, pos + 2, Len(given) + 1)
    <3> DEFINE a == Len(given) + 1
               R == Text(fmt, args, pos + 2, a)
    <3>1. a \in Nat
      BY <1>1
    <3> HIDE DEF a
    <3>2. Text(fmt, args, pos, a) = R
      BY <1>1, <1>2, <1>3, <3>1, TextSkip
    <3>3. R \in Seq(Nat)
      BY <2>1 DEF a
    <3> HIDE DEF R
    <3>4. <<>> \o R = R
      BY <3>3
    <3> QED BY <3>2, <3>4 DEF R, a
  <2> QED BY <2>1 DEF StandsFor
<1>6. Appends(buf, <<>>)
  BY <1>1, <1>4 DEF Appends, FormatInv, ClearAhead
<1>7. Moves(buf, <<>>, 2, given)
  BY <1>1, <1>4 DEF Moves
<1>8. Extends(given, given)
  BY <1>1, ExtendsItself
<1>9. 2 * Len(<<>>) <= Widest * 2 /\ 2 \in {1, 2}
  BY <1>4, FormatAssumption
<1> QED BY <1>1, <1>2, <1>3, <1>4, <1>5, <1>6, <1>7, <1>8, <1>9, Directive

\* %s copies its argument; the cell behind the terminator is clear, so the
\* cursor steps back onto the terminator.
LEMMA FormatSKeeps ==
    ASSUME FormatInv, More, IsConversion, fmt[pos + 1] = 115, NEW arg \in Strings, FormatS(arg)
    PROVE  FormatInv'
<1> DEFINE n == Len(arg)
           c == [j \in Cells |->
                    IF j \in tmp .. tmp + n - 1 THEN arg[j - tmp + 1]
                    ELSE IF j = tmp + n THEN 0 ELSE buf[j]]
<1>1. arg \in Seq(Nat \ {0}) /\ arg \in Args
  BY FormatAssumption DEF Args
<1>2. arg \in Seq(Nat) /\ n \in Nat /\ \A i \in 1 .. n : arg[i] \in Nat
  BY <1>1
<1>3. Image(fmt[pos + 1], arg) = arg
  BY DEF Image
<1>4. n <= Widest
  <2>1. Len(Image(115, arg)) <= Widest
    BY RoomAssumption
  <2> QED BY <1>3, <2>1
<1>5. /\ Len(fmt) \in Nat /\ pos \in 1 .. Len(fmt) + 1 /\ tmp \in Nat /\ pos < Len(fmt)
      /\ buf \in [Cells -> Nat] /\ reach \in Int /\ reach <= tmp
  BY FormatsFacts DEF FormatInv, FormatTypes, IsConversion
<1>6. tmp + n \in Cells /\ tmp + n + 1 \in Cells
  <2>1. 2 * n <= Widest * 2 /\ 2 \in {1, 2} /\ pos + 2 <= Len(fmt) + 1
    BY <1>2, <1>4, <1>5, FormatAssumption
  <2> QED BY <1>2, <2>1, Ahead
<1>7. ASSUME NEW j \in Cells
      PROVE  /\ c[j] \in Nat /\ (j < tmp => c[j] = buf[j]) /\ (j >= tmp + n => c[j] = 0)
             /\ \A i \in 1 .. n : j = tmp + i - 1 => c[j] = arg[i]
  <2>1. j \in Nat
    BY FormatAssumption DEF Cells
  <2>2. c[j] = IF j \in tmp .. tmp + n - 1 THEN arg[j - tmp + 1]
               ELSE IF j = tmp + n THEN 0 ELSE buf[j]
    OBVIOUS
  <2>3. j >= tmp => buf[j] = 0
    BY DEF FormatInv, ClearAhead
  <2>4. buf[j] \in Nat
    BY <1>5
  <2> HIDE DEF c, n
  <2>5. CASE j \in tmp .. tmp + n - 1
    <3>1. c[j] = arg[j - tmp + 1] /\ j - tmp + 1 \in 1 .. n
      BY <1>2, <1>5, <2>1, <2>2, <2>5
    <3>2. \A i \in 1 .. n : j = tmp + i - 1 => i = j - tmp + 1
      BY <1>2, <1>5, <2>1
    <3>3. ~ (j < tmp) /\ ~ (j >= tmp + n)
      BY <1>2, <1>5, <2>1, <2>5
    <3> QED BY <1>2, <3>1, <3>2, <3>3
  <2>6. CASE ~ (j \in tmp .. tmp + n - 1)
    <3>1. \A i \in 1 .. n : j # tmp + i - 1
      BY <1>2, <1>5, <2>1, <2>6
    <3>2. c[j] = IF j = tmp + n THEN 0 ELSE buf[j]
      BY <2>2, <2>6
    <3> QED BY <1>2, <1>5, <2>1, <2>3, <2>4, <3>1, <3>2
  <2> QED BY <2>5, <2>6
<1>8. Appends(c, arg)
  <2>1. c \in [Cells -> Nat]
    BY <1>7
  <2>2. \A i \in 1 .. n : tmp + i - 1 \in Cells
    BY <1>2, <1>5, <1>6, FormatAssumption DEF Cells
  <2> HIDE DEF c
  <2> QED BY <1>7, <2>1, <2>2 DEF Appends
<1>9. StepBack(c, tmp + n + 1) = tmp + n
  <2>1. c[tmp + n + 1] = 0
    <3>1. tmp + n + 1 >= tmp + n
      BY <1>2, <1>5
    <3> HIDE DEF c, n
    <3> QED BY <1>6, <1>7, <3>1
  <2>2. (tmp + n + 1) - 1 = tmp + n
    BY <1>2, <1>5
  <2> HIDE DEF c, n
  <2> QED BY <2>1, <2>2 DEF StepBack
<1>10. /\ buf' = c /\ tmp' = tmp + (StepBack(c, tmp + n + 1) - tmp)
       /\ reach' = IF tmp + n > reach THEN tmp + n ELSE reach
       /\ Takes(arg)
  BY DEF FormatS, Advance
<1> HIDE DEF c
<1>11. tmp' = tmp + n /\ reach' \in Int /\ reach' <= tmp + n
  <2> HIDE DEF n
  <2> QED BY <1>2, <1>5, <1>9, <1>10
<1> QED BY <1>1, <1>2, <1>3, <1>4, <1>8, <1>10, <1>11, Converts

\* The number after the minus sign, the most negative number's too.
LEMMA NegatedIs ==
    ASSUME NEW n \in Signeds, n < 0
    PROVE  -n \in Nat /\ Negated(n) = -n
<1>1. Word \in Nat /\ n \in -(Word \div 2) .. Word \div 2 - 1
  BY FormatAssumption
<1>2. n \in Int /\ -n \in Nat /\ -n <= Word \div 2 /\ -n > 0
  BY <1>1
<1>3. -n < Word
  BY <1>1, <1>2
<1>4. (-n) % Word = -n
  BY <1>1, <1>2, <1>3
<1> QED BY <1>2, <1>4 DEF Negated

\* A number of the caller, without sign, written at the cursor.
LEMMA NumeralAppended ==
    ASSUME FormatInv, NEW n \in Nat, NEW base \in Bases, Turns(n, base) + 1 <= Widest,
           pos + 2 <= Len(fmt) + 1
    PROVE  /\ Appends(Digits(buf, tmp, n, base), Numeral(n, base))
           /\ Strlen(Digits(buf, tmp, n, base), tmp) = Turns(n, base) + 1
<1> DEFINE w == Turns(n, base)
<1>1. w \in Nat
  BY TurnsNat
<1>2. Len(Numeral(n, base)) = w + 1
  BY NumeralDigits
<1>3. tmp \in Nat /\ buf \in [Cells -> Nat] /\ \A j \in Cells : j >= tmp => buf[j] = 0
  BY DEF FormatInv, FormatTypes, ClearAhead
<1>4. tmp + (w + 1) \in Cells
  <2>1. w + 1 \in Nat /\ 2 * (w + 1) <= Widest * 2 /\ 2 \in {1, 2}
    <3> HIDE DEF w
    <3>1. w + 1 <= Widest
      BY DEF w
    <3> QED BY <1>1, <3>1, FormatAssumption
  <2> HIDE DEF w
  <2> QED BY <2>1, Ahead
<1>5. tmp + w + 1 \in Cells /\ tmp + w + 1 = tmp + (w + 1)
  <2> HIDE DEF w
  <2> QED BY <1>1, <1>3, <1>4
<1>6. /\ Digits(buf, tmp, n, base) \in [Cells -> Nat]
      /\ \A j \in Cells : j < tmp => Digits(buf, tmp, n, base)[j] = buf[j]
      /\ \A i \in 1 .. w + 1 : Digits(buf, tmp, n, base)[tmp + i - 1] = Numeral(n, base)[i]
      /\ \A j \in Cells : j >= tmp + w + 1 => Digits(buf, tmp, n, base)[j] = 0
      /\ Strlen(Digits(buf, tmp, n, base), tmp) = w + 1
  BY <1>3, <1>5, DigitsWritten
<1> HIDE DEF w
<1>7. Appends(Digits(buf, tmp, n, base), Numeral(n, base))
  BY <1>2, <1>5, <1>6 DEF Appends
<1> QED BY <1>6, <1>7 DEF w

\* %u and %x.
LEMMA FormatUKeeps ==
    ASSUME FormatInv, More, IsConversion, NEW n \in Unsigneds, NEW base \in Bases,
           \/ fmt[pos + 1] = 117 /\ base = 10
           \/ fmt[pos + 1] = 120 /\ base = 16,
           FormatU(n, base)
    PROVE  FormatInv'
<1> DEFINE w == Turns(n, base)
           s == Numeral(n, base)
           c == Digits(buf, tmp, n, base)
<1>1. n \in Nat /\ n \in Args
  BY FormatAssumption DEF Args
<1>2. s \in Seq(Nat) /\ Len(s) = w + 1 /\ w \in Nat
  BY <1>1, NumeralDigits, TurnsNat
<1>3. Image(fmt[pos + 1], n) = s
  BY DEF Image
<1>4. Len(s) <= Widest
  <2>1. Len(Image(117, n)) <= Widest /\ Len(Image(120, n)) <= Widest
    BY RoomAssumption
  <2> QED BY <1>3, <2>1
<1>5. /\ Len(fmt) \in Nat /\ pos \in 1 .. Len(fmt) + 1 /\ tmp \in Nat /\ pos < Len(fmt)
      /\ reach \in Int /\ reach <= tmp
  BY FormatsFacts DEF FormatInv, FormatTypes, IsConversion
<1>6. Appends(c, s) /\ Strlen(c, tmp) = w + 1
  <2>1. pos + 2 <= Len(fmt) + 1
    BY <1>5
  <2>2. Turns(n, base) + 1 <= Widest
    BY <1>2, <1>4
  <2> QED BY <1>1, <2>1, <2>2, NumeralAppended
<1>7. /\ buf' = c /\ tmp' = tmp + Strlen(c, tmp) /\ Takes(n)
      /\ reach' = IF tmp + w + 1 > reach THEN tmp + w + 1 ELSE reach
  BY DEF FormatU, Advance
<1> HIDE DEF w, s, c
<1>8. tmp' = tmp + Len(s) /\ reach' \in Int /\ reach' <= tmp + Len(s)
  BY <1>2, <1>5, <1>6, <1>7
<1>9. fmt[pos + 1] \in {115, 117, 100, 120}
  OBVIOUS
<1> QED BY <1>1, <1>2, <1>3, <1>4, <1>6, <1>7, <1>8, <1>9, Converts

\* %d of a number that is not negative.
LEMMA FormatDPositive ==
    ASSUME FormatInv, More, IsConversion, NEW n \in Signeds, n >= 0, fmt[pos + 1] = 100, FormatD(n)
    PROVE  FormatInv'
<1> DEFINE w == Turns(n, 10)
           s == Numeral(n, 10)
           c == Digits(buf, tmp, n, 10)
<1>1. n \in Nat /\ n \in Args /\ 10 \in Bases /\ ~ (n < 0)
  BY FormatAssumption DEF Args, Bases
<1>2. s \in Seq(Nat) /\ Len(s) = w + 1 /\ w \in Nat
  BY <1>1, NumeralDigits, TurnsNat
<1>3. Image(fmt[pos + 1], n) = s
  BY <1>1 DEF Image
<1>4. Len(s) <= Widest
  <2>1. Len(Image(100, n)) <= Widest
    BY RoomAssumption
  <2> QED BY <1>3, <2>1
<1>5. /\ Len(fmt) \in Nat /\ pos \in 1 .. Len(fmt) + 1 /\ tmp \in Nat /\ pos < Len(fmt)
      /\ reach \in Int /\ reach <= tmp
  BY FormatsFacts DEF FormatInv, FormatTypes, IsConversion
<1>6. Appends(c, s) /\ Strlen(c, tmp) = w + 1
  <2>1. pos + 2 <= Len(fmt) + 1
    BY <1>5
  <2>2. Turns(n, 10) + 1 <= Widest
    BY <1>2, <1>4
  <2> QED BY <1>1, <2>1, <2>2, NumeralAppended
<1>7. /\ buf' = c /\ tmp' = tmp + (0 + Strlen(c, tmp)) /\ Takes(n)
      /\ reach' = IF tmp + w + 1 > reach THEN tmp + w + 1 ELSE reach
  <2>1. tmp + 0 = tmp
    BY <1>5
  <2>2. /\ buf' = Digits(buf, tmp + 0, n, 10) /\ Takes(n)
        /\ tmp' = tmp + (0 + Strlen(Digits(buf, tmp + 0, n, 10), tmp + 0))
        /\ reach' = IF tmp + 0 + Turns(n, 10) + 1 > reach THEN tmp + 0 + Turns(n, 10) + 1 ELSE reach
    BY <1>1 DEF FormatD, Advance
  <2> QED BY <2>1, <2>2
<1> HIDE DEF w, s, c
<1>8. tmp' = tmp + Len(s) /\ reach' \in Int /\ reach' <= tmp + Len(s)
  BY <1>2, <1>5, <1>6, <1>7
<1>9. fmt[pos + 1] \in {115, 117, 100, 120}
  OBVIOUS
<1> QED BY <1>1, <1>2, <1>3, <1>4, <1>6, <1>7, <1>8, <1>9, Converts

\* %d of a negative number: the sign, and the conversion of the negated number
\* behind it.
LEMMA FormatDNegative ==
    ASSUME FormatInv, More, IsConversion, NEW n \in Signeds, n < 0, fmt[pos + 1] = 100, FormatD(n)
    PROVE  FormatInv'
<1> DEFINE m == -n
           w == Turns(m, 10)
           u == Numeral(m, 10)
           s == <<Minus>> \o u
           p == Put(buf, tmp, Minus)
           c == Digits(p, tmp + 1, m, 10)
<1>1. m \in Nat /\ Negated(n) = m /\ n \in Args /\ 10 \in Bases
  BY NegatedIs DEF Args, Bases
<1>2. u \in Seq(Nat) /\ Len(u) = w + 1 /\ w \in Nat
  BY <1>1, NumeralDigits, TurnsNat
<1>3. Image(fmt[pos + 1], n) = s
  BY DEF Image
<1>4. Len(s) <= Widest
  <2>1. Len(Image(100, n)) <= Widest
    BY RoomAssumption
  <2> QED BY <1>3, <2>1
<1>5. /\ Len(fmt) \in Nat /\ pos \in 1 .. Len(fmt) + 1 /\ tmp \in Nat /\ pos < Len(fmt)
      /\ reach \in Int /\ reach <= tmp /\ buf \in [Cells -> Nat]
      /\ \A j \in Cells : j >= tmp => buf[j] = 0
  BY FormatsFacts DEF FormatInv, FormatTypes, IsConversion, ClearAhead
<1>6. /\ buf' = c /\ tmp' = tmp + (1 + Strlen(c, tmp + 1)) /\ Takes(n)
      /\ reach' = IF tmp + 1 + w + 1 > reach THEN tmp + 1 + w + 1 ELSE reach
  <2> HIDE DEF m
  <2> QED BY <1>1 DEF FormatD, Advance
<1> HIDE DEF m, w, u
<1>7. /\ s \in Seq(Nat) /\ Len(s) = w + 2 /\ s[1] = Minus
      /\ \A i \in 2 .. w + 2 : s[i] = u[i - 1]
  <2>1. <<Minus>> \in Seq(Nat) /\ Len(<<Minus>>) = 1 /\ <<Minus>>[1] = Minus
    BY DEF Minus
  <2> QED BY <1>2, <2>1
<1> HIDE DEF s
<1>8. tmp \in Cells /\ tmp + (w + 2) \in Cells
  <2>1. w + 2 \in Nat /\ 2 * (w + 2) <= Widest * 2 /\ 2 \in {1, 2} /\ pos + 2 <= Len(fmt) + 1
    BY <1>2, <1>4, <1>5, <1>7, FormatAssumption
  <2> QED BY <2>1, Ahead
<1>9. /\ p \in [Cells -> Nat] /\ p[tmp] = Minus
      /\ \A j \in Cells : j # tmp => p[j] = buf[j]
  BY <1>5, <1>8 DEF Put, Minus
<1> HIDE DEF p
<1>10. \A j \in Cells : j \in Nat
  BY FormatAssumption DEF Cells
<1>11. \A j \in Cells : j >= tmp + 1 => p[j] = 0
  BY <1>5, <1>9, <1>10
<1>12. tmp + 1 \in Nat /\ tmp + 1 + w + 1 \in Cells /\ tmp + 1 + w + 1 = tmp + (w + 2)
  BY <1>2, <1>5, <1>8
<1>13. /\ c \in [Cells -> Nat]
       /\ \A j \in Cells : j < tmp + 1 => c[j] = p[j]
       /\ \A i \in 1 .. w + 1 : c[tmp + 1 + i - 1] = u[i]
       /\ \A j \in Cells : j >= tmp + 1 + w + 1 => c[j] = 0
       /\ Strlen(c, tmp + 1) = w + 1
  BY <1>1, <1>9, <1>11, <1>12, DigitsWritten DEF w, u
<1> HIDE DEF c
<1>14. Appends(c, s)
  <2>1. ASSUME NEW j \in Cells, j < tmp PROVE c[j] = buf[j]
    <3>1. j < tmp + 1 /\ j # tmp
      BY <1>5, <1>10, <2>1
    <3> QED BY <1>9, <1>13, <3>1
  <2>2. ASSUME NEW i \in 1 .. Len(s) PROVE c[tmp + i - 1] = s[i]
    <3>1. CASE i = 1
      <4>1. tmp + i - 1 = tmp /\ tmp < tmp + 1
        BY <1>5, <3>1
      <4>2. c[tmp] = Minus
        BY <1>8, <1>9, <1>13, <4>1
      <4> QED BY <1>7, <3>1, <4>1, <4>2
    <3>2. CASE i # 1
      <4>1. i - 1 \in 1 .. w + 1 /\ i \in 2 .. w + 2 /\ tmp + 1 + (i - 1) - 1 = tmp + i - 1
        BY <1>2, <1>5, <1>7, <3>2
      <4>2. c[tmp + 1 + (i - 1) - 1] = u[i - 1]
        BY <1>13, <4>1
      <4> QED BY <1>7, <4>1, <4>2
    <3> QED BY <3>1, <3>2
  <2>3. \A j \in Cells : j >= tmp + Len(s) => c[j] = 0
    BY <1>7, <1>12, <1>13
  <2> QED BY <1>13, <2>1, <2>2, <2>3 DEF Appends
<1>15. tmp' = tmp + Len(s) /\ reach' \in Int /\ reach' <= tmp + Len(s)
  BY <1>2, <1>5, <1>6, <1>7, <1>12, <1>13
<1>16. fmt[pos + 1] \in {115, 117, 100, 120}
  OBVIOUS
<1> QED BY <1>1, <1>3, <1>4, <1>6, <1>7, <1>14, <1>15, <1>16, Converts

\* The switch of vsprintf.
LEMMA ConversionKeeps ==
    ASSUME FormatInv, Conversion
    PROVE  FormatInv'
<1>0. More /\ IsConversion
  BY DEF Conversion
<1> DEFINE c == fmt[pos + 1]
<1>1. CASE c = 115
  <2>1. PICK s \in Strings : FormatS(s)
    BY <1>1 DEF Conversion
  <2> QED BY <1>0, <1>1, <2>1, FormatSKeeps
<1>2. CASE c = 117
  <2>1. PICK n \in Unsigneds : FormatU(n, 10)
    BY <1>2 DEF Conversion
  <2>2. 10 \in Bases
    BY DEF Bases
  <2> QED BY <1>0, <1>2, <2>1, <2>2, FormatUKeeps
<1>3. CASE c = 100
  <2>1. PICK n \in Signeds : FormatD(n)
    BY <1>3 DEF Conversion
  <2>2. n < 0 \/ n >= 0
    BY FormatAssumption
  <2> QED BY <1>0, <1>3, <2>1, <2>2, FormatDPositive, FormatDNegative
<1>4. CASE c = 120
  <2>1. PICK n \in Unsigneds : FormatU(n, 16)
    BY <1>4 DEF Conversion
  <2>2. 16 \in Bases
    BY DEF Bases
  <2> QED BY <1>0, <1>4, <2>1, <2>2, FormatUKeeps
<1>5. CASE c \notin {115, 117, 100, 120}
  <2>1. pos' = pos + 2 /\ UNCHANGED <<fmt, buf, tmp, reach, given, result>>
    BY <1>5 DEF Conversion
  <2> QED BY <1>0, <1>5, <2>1, SkipKeeps
<1> QED BY <1>1, <1>2, <1>3, <1>4, <1>5

\* The end of vsprintf.
LEMMA ReturnKeeps ==
    ASSUME FormatInv, Return
    PROVE  FormatInv'
<1>1. /\ fmt \in Formats /\ Len(fmt) \in Nat /\ Len(fmt) <= MaxFmt /\ pos \in 1 .. Len(fmt) + 1
      /\ tmp \in Nat /\ buf \in [Cells -> Nat] /\ reach \in Int /\ reach <= tmp
      /\ 2 * tmp <= Widest * (pos - 1)
  BY FormatsFacts DEF FormatInv, FormatTypes, Fits
<1>2. tmp \in Cells
  <2>1. pos - 1 \in Nat /\ pos - 1 <= MaxFmt
    BY <1>1, FormatAssumption
  <2> QED BY <1>1, <2>1, WithinRoom
<1>3. /\ buf' = Put(buf, tmp, 0) /\ tmp' = tmp + 0 /\ result' = tmp /\ pos > Len(fmt)
      /\ reach' = IF tmp > reach THEN tmp ELSE reach
      /\ fmt' = fmt /\ pos' = pos /\ given' = given
  BY DEF Return, Advance
<1>4. buf[tmp] = 0
  BY <1>1, <1>2 DEF FormatInv, ClearAhead
<1>5. buf' = buf
  BY <1>1, <1>2, <1>3, <1>4 DEF Put
<1>6. tmp' = tmp /\ reach' = tmp /\ pos = Len(fmt) + 1
  BY <1>1, <1>3
<1>7. FormatTypes'
  BY <1>1, <1>3, <1>5, <1>6 DEF FormatInv, FormatTypes
<1>8. Fits' /\ ClearAhead' /\ (reach <= tmp)'
  BY <1>1, <1>3, <1>5, <1>6 DEF FormatInv, Fits, ClearAhead
<1>9. Returned'
  BY <1>3, <1>6 DEF Returned
<1>10. SoFar(fmt, given, pos, buf, tmp)'
  BY <1>3, <1>5, <1>6 DEF FormatInv
<1> QED BY <1>7, <1>8, <1>9, <1>10 DEF FormatInv

\* printk starts vsprintf on a cleared buffer.
LEMMA FormatStarts ==
    ASSUME FormatInit
    PROVE  FormatInv
<1>1. /\ fmt \in Formats /\ pos = 1 /\ buf = [j \in Cells |-> 0] /\ tmp = 0 /\ reach = -1
      /\ given = <<>> /\ result = -1
  BY DEF FormatInit, Cleared
<1>2. Len(fmt) \in Nat
  BY <1>1, FormatsFacts
<1>3. FormatTypes
  BY <1>1, <1>2 DEF FormatTypes
<1>4. Fits /\ ClearAhead /\ reach <= tmp /\ Returned
  BY <1>1, FormatAssumption DEF Fits, ClearAhead, Returned
<1>5. SoFar(fmt, given, pos, buf, tmp)
  <2>1. Len(given) + 1 = 1
    BY <1>1
  <2>2. Printed(buf, tmp) = <<>>
    BY <1>1 DEF Printed
  <2>3. \A args : Text(fmt, args, 1, 1) \in Seq(Nat)
                  => Text(fmt, args, 1, 1) = <<>> \o Text(fmt, args, 1, 1)
    OBVIOUS
  <2> QED BY <1>1, <2>1, <2>2, <2>3 DEF SoFar
<1> QED BY <1>3, <1>4, <1>5 DEF FormatInv

\* What is printed, followed by what the rest of the format string means, is the
\* text meant, and the memory behind it is clear.
THEOREM FormatInvariant == FormatSpec => []FormatInv
<1>1. FormatInit => FormatInv
  BY FormatStarts
<1>2. FormatInv /\ [FormatNext]_formatVars => FormatInv'
  <2> SUFFICES ASSUME FormatInv, [FormatNext]_formatVars PROVE FormatInv'
    OBVIOUS
  <2>1. CASE Literal
    BY <2>1, LiteralKeeps
  <2>2. CASE Conversion
    BY <2>2, ConversionKeeps
  <2>3. CASE Return
    BY <2>3, ReturnKeeps
  <2>4. CASE UNCHANGED formatVars
    BY <2>4 DEF formatVars, FormatInv, FormatTypes, Fits, ClearAhead, Returned, SoFar, Printed
  <2> QED BY <2>1, <2>2, <2>3, <2>4 DEF FormatNext
<1> QED BY <1>1, <1>2, PTL DEF FormatSpec

\* What the text is when vsprintf has returned.
LEMMA ReturnedText ==
    ASSUME FormatInv, result # -1
    PROVE  /\ Text(fmt, given, 1, 1) = Printed(buf, tmp)
           /\ Len(Text(fmt, given, 1, 1)) = tmp /\ tmp \in Cells
           /\ \A j \in 1 .. tmp : Printed(buf, tmp)[j] = buf[j - 1]
<1>1. /\ fmt \in Seq(Chars) /\ Len(fmt) \in Nat /\ Len(fmt) <= MaxFmt /\ pos = Len(fmt) + 1
      /\ tmp \in Nat /\ buf \in [Cells -> Nat] /\ given \in Seq(Args) /\ Len(given) \in Nat
      /\ 2 * tmp <= Widest * (pos - 1)
  BY FormatsFacts DEF FormatInv, FormatTypes, Fits, Returned
<1>2. tmp \in Cells
  <2>1. pos - 1 \in Nat /\ pos - 1 <= MaxFmt
    BY <1>1
  <2> QED BY <1>1, <2>1, WithinRoom
<1>3. Text(fmt, given, pos, Len(given) + 1) = <<>>
  <2>1. pos \in Nat /\ Len(given) + 1 \in Nat /\ pos > Len(fmt)
    BY <1>1
  <2> QED BY <1>1, <2>1, TextEnd
<1>4. Extends(given, given)
  BY <1>1, ExtendsItself
<1>5. <<>> \in Seq(Nat)
  OBVIOUS
<1>6. Text(fmt, given, 1, 1) = Printed(buf, tmp) \o <<>>
  BY <1>1, <1>3, <1>4, <1>5 DEF FormatInv, SoFar
<1>7. /\ Printed(buf, tmp) \in Seq(Nat) /\ Len(Printed(buf, tmp)) = tmp
      /\ \A j \in 1 .. tmp : Printed(buf, tmp)[j] = buf[j - 1]
  BY <1>1, <1>2, PrintedSeq
<1>8. Printed(buf, tmp) \o <<>> = Printed(buf, tmp)
  BY <1>7
<1> QED BY <1>2, <1>6, <1>7, <1>8

\* What vsprintf leaves in the buffer, and the length it returns, are the text
\* the format string and its arguments mean: for every format string, every
\* string, and every number of a word of any width, the most negative one too.
THEOREM VsprintfPrintsText == FormatSpec => []PrintsText
<1>1. FormatInv => PrintsText
  <2> SUFFICES ASSUME FormatInv, result # -1
               PROVE  LET text == Text(fmt, given, 1, 1) IN
                      /\ result = Len(text)
                      /\ \A j \in 1 .. Len(text) : buf[j - 1] = text[j]
                      /\ buf[Len(text)] = 0
    BY DEF PrintsText
  <2>1. result = tmp
    BY DEF FormatInv, Returned
  <2>2. tmp \in Cells /\ tmp \in Nat
    BY ReturnedText DEF FormatInv, FormatTypes
  <2>3. buf[tmp] = 0
    BY <2>2 DEF FormatInv, ClearAhead
  <2> QED BY <2>1, <2>3, ReturnedText
<1> QED BY <1>1, FormatInvariant, PTL

\* vsprintf writes the text and its terminator and no cell behind them, not even
\* while it converts: the buffer of printk suffices for exactly the texts that
\* fit.
THEOREM VsprintfWritesOnlyText == FormatSpec => []WritesOnlyText
<1>1. FormatInv => WritesOnlyText
  BY ReturnedText DEF FormatInv, Returned, WritesOnlyText
<1> QED BY <1>1, FormatInvariant, PTL

\* The memory behind the cursor stays clear, so that the step back after %s
\* always lands on the terminator.
THEOREM BufferClearAhead == FormatSpec => []ClearAhead
<1>1. FormatInv => ClearAhead
  BY DEF FormatInv
<1> QED BY <1>1, FormatInvariant, PTL
=============================================================================
