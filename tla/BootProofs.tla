----------------------------- MODULE BootProofs -----------------------------
(***************************************************************************)
(* The properties of module Boot, for page tables of every size, every     *)
(* place of the kernel in region 0 and every table of stub addresses.      *)
(***************************************************************************)
EXTENDS Boot, PagingProofs, FiniteSetTheorems, SequenceTheorems

-----------------------------------------------------------------------------
(* The inductive invariant: what each step of _entry.s finds.              *)

Segments == {"fs", "gs", "es", "ds", "ss", "cs"}

PcUnpaged  == {"entry", "args", "entry_init_paging"}
PcNoGdt    == PcUnpaged \cup {"gdt_gates"}
PcNoGdtr   == PcNoGdt \cup {"lgdt"}
PcNoSegs   == PcNoGdtr \cup {"gdt_flush"}
PcNoIdt    == PcNoSegs \cup {"gdt_return", "idt_gates"}
PcNoIdtr   == PcNoIdt \cup {"lidt"}
PcSaved    == {"entry_init_paging", "gdt_gates", "lgdt", "gdt_flush", "gdt_return",
               "idt_gates", "lidt", "pop"}
PcNew      == {"push", "kmain", "sti"}
PcHighEsp  == {"paging_init"} \cup PcNew
PcHighEip  == {"gdt_return", "esp"} \cup PcHighEsp
PcRestored == {"ljmp", "esp", "paging_init", "push"}
PcAll      == PcNoIdtr \cup PcRestored \cup {"pop", "kmain", "sti"}

\* The words that reach eax, ebx and the stack.
Words == {"ebp", "mbi", "mbi + VMA", "cr0", "c", "0x2BADB002", "other"}

Cpu == [pg : BOOLEAN, eip : {"low", "high"}, esp : {"loader", "low", "high"},
        eax : Words, ebx : Words, gdtr : Int, idtr : Int,
        segs : [Segments -> {{}, KernelCode, KernelData}]]

BootTypeOK ==
    /\ pc \in PcAll /\ cpu \in Cpu
    /\ DOMAIN gdt = 0 .. GDT_LIMIT - 1
    /\ stubs \in StubTables /\ magic \in Words
    /\ pics \in [Chips -> Chip] /\ writes \in 0 .. 12

\* Where code and stack are, and under which page directory.
Addresses ==
    /\ cpu.pg <=> pc \notin PcUnpaged
    /\ cpu.eip = IF pc \in PcHighEip THEN "high" ELSE "low"
    /\ pc # "entry" => cpu.esp = IF pc \in PcHighEsp THEN "high" ELSE "low"
    /\ cr3 = IF pc \in PcNew THEN "pgdir" ELSE "entry"

\* Which of the tables and of the registers that name them are in place.
Tabled ==
    /\ pc \notin PcNoGdt => gdt = BuildGdt
    /\ cpu.gdtr = IF pc \in PcNoGdtr THEN -1 ELSE 8 * GDT_LIMIT
    /\ \A s \in Segments :
          cpu.segs[s] = IF pc \in PcNoSegs THEN {}
                        ELSE IF s = "cs" THEN KernelCode ELSE KernelData
    /\ pc \notin PcNoIdt => idt = BuildIdt(stubs)
    /\ cpu.idtr = IF pc \in PcNoIdtr THEN -1 ELSE 8 * 255 - 1

\* Where the high address of the loader's information structure is kept.
MbiKept ==
    /\ stack \in Seq(Words)
    /\ pc = "entry" => stack = <<>>
    /\ pc = "args" => Len(stack) = 1
    /\ pc \in PcSaved \cup {"kmain"} => Len(stack) = 3 /\ stack[2] = "mbi + VMA"
    /\ pc \in PcRestored => Len(stack) = 1 /\ cpu.ebx = "mbi + VMA"

\* What a chip has taken once k of the four words meant for it and vec, icw3
\* are written; k = 0 before the first and 4 after the last.
Taken(c, k, vec, icw3) ==
    /\ c.next = IF k \in {0, 4} THEN 0 ELSE k + 1
    /\ k >= 1 => c.needs4 /\ ~c.single
    /\ k >= 2 => c.base = vec
    /\ k >= 3 => c.cascade = icw3
    /\ k >= 4 => c.mode = 1

Programmed ==
    /\ pc \notin {"kmain", "sti"} => writes = 0
    /\ pc = "sti" => writes = 12
    /\ Taken(pics["master"], IF writes < 4 THEN writes ELSE 4, 32, 4)
    /\ Taken(pics["slave"],
             IF writes < 4 THEN 0 ELSE IF writes < 8 THEN writes - 4 ELSE 4, 40, 2)
    /\ writes >= 11 => pics["master"].mask = 255
    /\ writes >= 12 => pics["slave"].mask = 255

IInv == Inv /\ BootTypeOK /\ Addresses /\ Tabled /\ MbiKept /\ Programmed

-----------------------------------------------------------------------------
(* Words as sets of bits.                                                  *)

\* What is in a shifted word.
LEMMA Shifts ==
    ASSUME NEW w \in SUBSET Int, NEW n \in Int
    PROVE  /\ Shl(w, n) \in SUBSET Int /\ Shr(w, n) \in SUBSET Int
           /\ \A b \in Int : b \in Shl(w, n) <=> b - n \in w
           /\ \A b \in Int : b \in Shr(w, n) <=> b + n \in w /\ b >= 0
<1>1. Shl(w, n) \in SUBSET Int
  BY DEF Shl
<1>2. Shr(w, n) \in SUBSET Int
  BY DEF Shr
<1>3. ASSUME NEW b \in Int PROVE b \in Shl(w, n) <=> b - n \in w
  <2>1. ASSUME b - n \in w PROVE b \in Shl(w, n)
    <3>1. b = (b - n) + n
      OBVIOUS
    <3> QED BY <2>1, <3>1 DEF Shl
  <2>2. ASSUME b \in Shl(w, n) PROVE b - n \in w
    <3>1. PICK c \in w : b = c + n
      BY <2>2 DEF Shl
    <3>2. c = b - n
      BY <3>1
    <3> QED BY <3>2
  <2> QED BY <2>1, <2>2
<1>4. ASSUME NEW b \in Int PROVE b \in Shr(w, n) <=> b + n \in w /\ b >= 0
  <2>1. ASSUME b + n \in w, b >= 0 PROVE b \in Shr(w, n)
    <3>1. b = (b + n) - n /\ b + n >= n
      BY <2>1
    <3> QED BY <2>1, <3>1 DEF Shr
  <2>2. ASSUME b \in Shr(w, n) PROVE b + n \in w /\ b >= 0
    <3>1. PICK c \in w : c >= n /\ b = c - n
      BY <2>2 DEF Shr
    <3>2. c = b + n /\ b >= 0
      BY <3>1
    <3> QED BY <3>2
  <2> QED BY <2>1, <2>2
<1> QED BY <1>1, <1>2, <1>3, <1>4

\* Words with the same bits are the same.
LEMMA SameBits ==
    ASSUME NEW v \in SUBSET Int, NEW w \in SUBSET Int, \A b \in Int : b \in v <=> b \in w
    PROVE  v = w
  OBVIOUS

\* The indices of the two descriptors as words.
LEMMA Indices == Bits(1) = {0} /\ Bits(2) = {1}
<1>2. ASSUME NEW b \in 0 .. 12
      PROVE  /\ (1 \div 2^b) % 2 = 1 <=> b = 0
             /\ (2 \div 2^b) % 2 = 1 <=> b = 1
  <2>1. b = 0 => 2^b = 1
    OBVIOUS
  <2>2. b = 1 => 2^b = 2
    OBVIOUS
  <2>3. b = 2 => 2^b = 4
    OBVIOUS
  <2>4. b = 3 => 2^b = 8
    OBVIOUS
  <2>5. b = 4 => 2^b = 16
    OBVIOUS
  <2>6. b = 5 => 2^b = 32
    OBVIOUS
  <2>7. b = 6 => 2^b = 64
    OBVIOUS
  <2>8. b = 7 => 2^b = 128
    OBVIOUS
  <2>9. b = 8 => 2^b = 256
    OBVIOUS
  <2>10. b = 9 => 2^b = 512
    OBVIOUS
  <2>11. b = 10 => 2^b = 1024
    OBVIOUS
  <2>12. b = 11 => 2^b = 2048
    OBVIOUS
  <2>13. b = 12 => 2^b = 4096
    OBVIOUS
  <2>14. \/ b = 0 \/ b = 1 \/ b = 2 \/ b = 3 \/ b = 4 \/ b = 5 \/ b = 6 \/ b = 7
         \/ b = 8 \/ b = 9 \/ b = 10 \/ b = 11 \/ b = 12
    OBVIOUS
  <2>15. /\ 1 \div 1 = 1 /\ 2 \div 1 = 2 /\ 1 \div 2 = 0 /\ 2 \div 2 = 1
         /\ 0 % 2 = 0 /\ 1 % 2 = 1 /\ 2 % 2 = 0
    OBVIOUS
  <2>16. PICK k \in Nat : /\ k = 2^b
                          /\ \/ b = 0 /\ k = 1
                             \/ b = 1 /\ k = 2
                             \/ b > 1 /\ k > 2
    BY <2>1, <2>2, <2>3, <2>4, <2>5, <2>6, <2>7, <2>8, <2>9, <2>10, <2>11, <2>12,
       <2>13, <2>14
  <2>17. k > 2 => 1 \div k = 0 /\ 2 \div k = 0
    OBVIOUS
  <2>18. /\ (1 \div k) % 2 = 1 <=> b = 0
         /\ (2 \div k) % 2 = 1 <=> b = 1
    BY <2>15, <2>16, <2>17
  <2> QED BY <2>16, <2>18, Zenon
<1> DEFINE R == 0 .. 12
<1>3. /\ \A b \in R : b \in Bits(1) <=> b = 0
      /\ \A b \in R : b \in Bits(2) <=> b = 1
  BY <1>2 DEF Bits
<1>4. Bits(1) \subseteq R /\ Bits(2) \subseteq R
  BY DEF Bits
<1>5. 0 \in R /\ 1 \in R
  OBVIOUS
<1> HIDE DEF R
<1>6. Bits(1) = {0}
  BY <1>3, <1>4, <1>5
<1>7. Bits(2) = {1}
  BY <1>3, <1>4, <1>5
<1> QED BY <1>6, <1>7

\* The bits of the descriptor gdt_init packs for a flat segment.
LEMMA FlatBits ==
    ASSUME NEW type \in SUBSET (8 .. 11)
    PROVE  LET d == GdtSetGate(0 .. 19, {}, type, GdtFlags)
           IN  /\ d \in SUBSET Int
               /\ \A b \in Int : b \in d <=>
                     \/ b \in 0 .. 15 \/ b - 32 \in type
                     \/ b \in 48 .. 51 \/ b \in {44, 47, 54, 55}
<1> DEFINE high  == Shl(Shr(0 .. 19, 16) \cap 0 .. 3, 16)
           word  == (Shr({}, 16) \cap 0 .. 7) \cup type \cup high \cup GdtFlags
                      \cup ({} \cap 24 .. 31)
           d     == ((0 .. 19) \cap 0 .. 15) \cup Shl({} \cap 0 .. 15, 16) \cup Shl(word, 32)
<1>1. Shr({}, 16) = {} /\ Shl({} \cap 0 .. 15, 16) = {}
  BY DEF Shr, Shl
<1>2. high \in SUBSET Int /\ \A b \in Int : b \in high <=> b \in 16 .. 19
  <2>1. 0 .. 19 \in SUBSET Int /\ Shr(0 .. 19, 16) \cap 0 .. 3 \in SUBSET Int
    OBVIOUS
  <2>2. \A b \in Int : b \in Shr(0 .. 19, 16) <=> b + 16 \in 0 .. 19 /\ b >= 0
    BY <2>1, Shifts
  <2>3. /\ high \in SUBSET Int
        /\ \A b \in Int : b \in high <=> b - 16 \in Shr(0 .. 19, 16) \cap 0 .. 3
    BY <2>1, Shifts
  <2>4. ASSUME NEW b \in Int PROVE b - 16 \in Shr(0 .. 19, 16) \cap 0 .. 3 <=> b \in 16 .. 19
    BY <2>2
  <2> QED BY <2>3, <2>4
<1>3. word \in SUBSET Int /\ \A b \in Int : b \in word <=>
         b \in type \/ b \in 16 .. 19 \/ b \in {12, 15, 22, 23}
  <2> HIDE DEF high
  <2>1. type \in SUBSET Int /\ GdtFlags \in SUBSET Int
    BY DEF GdtFlags
  <2>2. word = type \cup high \cup GdtFlags
    BY <1>1
  <2> QED BY <1>2, <2>1, <2>2 DEF GdtFlags
<1> HIDE DEF word
<1>4. Shl(word, 32) \in SUBSET Int /\ \A b \in Int : b \in Shl(word, 32) <=> b - 32 \in word
  BY <1>3, Shifts
<1>5. d \in SUBSET Int
  BY <1>1, <1>4
<1>6. ASSUME NEW b \in Int
      PROVE  b \in d <=> \/ b \in 0 .. 15 \/ b - 32 \in type
                         \/ b \in 48 .. 51 \/ b \in {44, 47, 54, 55}
  <2>1. b - 32 \in word <=>
           b - 32 \in type \/ b - 32 \in 16 .. 19 \/ b - 32 \in {12, 15, 22, 23}
    BY <1>3
  <2>2. b \in d <=> b \in 0 .. 15 \/ b - 32 \in word
    BY <1>1, <1>4
  <2> QED BY <2>1, <2>2
<1>7. GdtSetGate(0 .. 19, {}, type, GdtFlags) = d
  BY DEF GdtSetGate, word
<1> QED BY <1>5, <1>6, <1>7

\* What the processor finds in such a descriptor.
LEMMA FlatRead ==
    ASSUME NEW type \in SUBSET (8 .. 11)
    PROVE  LET d == GdtSetGate(0 .. 19, {}, type, GdtFlags)
           IN  /\ Present(d) /\ SegBase(d) = {} /\ SegLimit(d) = 0 .. 19
               /\ \A b \in Int : b \in SegType(d) <=> b = 4 \/ b + 8 \in type
               /\ SegType(d) \in SUBSET Int
               /\ {54, 55} \subseteq d
<1> DEFINE d == GdtSetGate(0 .. 19, {}, type, GdtFlags)
<1>0. /\ d \in SUBSET Int
      /\ \A b \in Int : b \in d <=>
            \/ b \in 0 .. 15 \/ b - 32 \in type \/ b \in 48 .. 51 \/ b \in {44, 47, 54, 55}
  BY FlatBits
<1> HIDE DEF d
<1>1. Present(d) /\ {54, 55} \subseteq d
  BY <1>0 DEF Present
<1>2. SegBase(d) = {}
  <2>1. d \cap 16 .. 39 = {} /\ d \cap 56 .. 63 = {}
    BY <1>0
  <2>2. Shr({}, 16) = {} /\ Shr({}, 32) = {}
    BY DEF Shr
  <2> QED BY <2>1, <2>2 DEF SegBase
<1>3. SegLimit(d) = 0 .. 19
  <2>1. d \cap 48 .. 51 \in SUBSET Int
    BY <1>0
  <2>2. /\ Shr(d \cap 48 .. 51, 32) \in SUBSET Int
        /\ \A b \in Int : b \in Shr(d \cap 48 .. 51, 32) <=> b + 32 \in d \cap 48 .. 51 /\ b >= 0
    BY <2>1, Shifts
  <2>3. ASSUME NEW b \in Int PROVE b \in Shr(d \cap 48 .. 51, 32) <=> b \in 16 .. 19
    <3>1. b + 32 \in 48 .. 51 => b + 32 \in d
      BY <1>0
    <3>2. b + 32 \in d \cap 48 .. 51 /\ b >= 0 <=> b \in 16 .. 19
      BY <3>1
    <3> QED BY <2>2, <3>2
  <2>4. ASSUME NEW b \in Int PROVE b \in d \cap 0 .. 15 <=> b \in 0 .. 15
    BY <1>0
  <2>5. SegLimit(d) \in SUBSET Int /\ \A b \in Int : b \in SegLimit(d) <=> b \in 0 .. 19
    BY <2>2, <2>3, <2>4 DEF SegLimit
  <2> QED BY <2>5, SameBits
<1>4. SegType(d) \in SUBSET Int /\ \A b \in Int : b \in SegType(d) <=> b = 4 \/ b + 8 \in type
  <2>1. d \cap 40 .. 44 \in SUBSET Int
    BY <1>0
  <2>2. /\ SegType(d) \in SUBSET Int
        /\ \A b \in Int : b \in SegType(d) <=> b + 40 \in d \cap 40 .. 44 /\ b >= 0
    BY <2>1, Shifts DEF SegType
  <2>3. ASSUME NEW b \in Int
        PROVE  b + 40 \in d \cap 40 .. 44 /\ b >= 0 <=> b = 4 \/ b + 8 \in type
    <3>1. (b + 40) - 32 = b + 8
      OBVIOUS
    <3>2. b + 40 \in d <=> \/ b + 40 \in 0 .. 15 \/ b + 8 \in type
                           \/ b + 40 \in 48 .. 51 \/ b + 40 \in {44, 47, 54, 55}
      BY <1>0, <3>1
    <3> QED BY <3>2
  <2> QED BY <2>2, <2>3
<1> QED BY <1>1, <1>2, <1>3, <1>4 DEF d

\* The selectors the code uses name flat descriptors of the table gdt_init
\* builds, within the limit it loads.
LEMMA SelectorsFlat ==
    ASSUME gdt = BuildGdt, cpu.gdtr = 8 * GDT_LIMIT
    PROVE  Flat(KernelCode, {1, 3, 4}) /\ Flat(KernelData, {1, 4})
<1>1. Shr(KernelCode, 3) = Bits(1) /\ Shr(KernelData, 3) = Bits(2)
  <2>1. Shr({3}, 3) = {0} /\ Shr({4}, 3) = {1}
    BY DEF Shr
  <2> QED BY <2>1, Indices DEF KernelCode, KernelData
<1>2. /\ 1 \in DOMAIN gdt \ {0} /\ 2 \in DOMAIN gdt \ {0}
      /\ gdt[1] = GdtSetGate(0 .. 19, {}, CodeER, GdtFlags)
      /\ gdt[2] = GdtSetGate(0 .. 19, {}, DataRW, GdtFlags)
      /\ 8 * 1 + 7 <= cpu.gdtr /\ 8 * 2 + 7 <= cpu.gdtr
  BY DEF BuildGdt, GDT_LIMIT
<1>3. CodeER \in SUBSET (8 .. 11) /\ DataRW \in SUBSET (8 .. 11)
  BY DEF CodeER, DataRW
<1>4. SegType(gdt[1]) = {1, 3, 4}
  <2>1. /\ \A b \in Int : b \in SegType(gdt[1]) <=> b = 4 \/ b + 8 \in CodeER
        /\ SegType(gdt[1]) \in SUBSET Int
    BY <1>2, <1>3, FlatRead
  <2>2. \A b \in Int : b \in SegType(gdt[1]) <=> b \in {1, 3, 4}
    BY <2>1 DEF CodeER
  <2> QED BY <2>1, <2>2
<1>5. SegType(gdt[2]) = {1, 4}
  <2>1. /\ \A b \in Int : b \in SegType(gdt[2]) <=> b = 4 \/ b + 8 \in DataRW
        /\ SegType(gdt[2]) \in SUBSET Int
    BY <1>2, <1>3, FlatRead
  <2>2. \A b \in Int : b \in SegType(gdt[2]) <=> b \in {1, 4}
    BY <2>1 DEF DataRW
  <2> QED BY <2>1, <2>2
<1>6. \A n \in {1, 2} : /\ Present(gdt[n]) /\ SegBase(gdt[n]) = {} /\ SegLimit(gdt[n]) = 0 .. 19
                        /\ {54, 55} \subseteq gdt[n]
  BY <1>2, <1>3, FlatRead
<1> QED BY <1>1, <1>2, <1>4, <1>5, <1>6 DEF Flat

\* The bits of a gate idt_init packs.
LEMMA GateBits ==
    ASSUME NEW type \in SUBSET (0 .. 2), NEW offset \in SUBSET (0 .. 31)
    PROVE  LET g == IdtSetGate(type, KernelCode, offset, IdtFlags)
           IN  /\ g \in SUBSET Int
               /\ \A b \in Int : b \in g <=>
                     \/ b \in 0 .. 15 /\ b \in offset
                     \/ b = 19 \/ b - 40 \in type \/ b \in {43, 47}
                     \/ b \in 48 .. 63 /\ b - 32 \in offset
<1> DEFINE low  == offset \cap 0 .. 15
           high == offset \cap 16 .. 31
           g    == low \cup Shl(KernelCode, 16) \cup Shl(type, 40) \cup Shl(IdtFlags, 32)
                     \cup Shl(high, 32)
<1>1. /\ low \in SUBSET Int /\ high \in SUBSET Int /\ type \in SUBSET Int
      /\ KernelCode \in SUBSET Int /\ IdtFlags \in SUBSET Int
  BY DEF KernelCode, IdtFlags
<1> HIDE DEF low, high
<1>2. /\ Shl(KernelCode, 16) \in SUBSET Int /\ Shl(type, 40) \in SUBSET Int
      /\ Shl(IdtFlags, 32) \in SUBSET Int /\ Shl(high, 32) \in SUBSET Int
  BY <1>1, Shifts
<1>3. ASSUME NEW b \in Int
      PROVE  /\ b \in Shl(KernelCode, 16) <=> b - 16 \in KernelCode
             /\ b \in Shl(type, 40) <=> b - 40 \in type
             /\ b \in Shl(IdtFlags, 32) <=> b - 32 \in IdtFlags
             /\ b \in Shl(high, 32) <=> b - 32 \in high
  BY <1>1, Shifts
<1>4. g \in SUBSET Int
  BY <1>1, <1>2
<1>5. ASSUME NEW b \in Int
      PROVE  b \in g <=> \/ b \in 0 .. 15 /\ b \in offset
                         \/ b = 19 \/ b - 40 \in type \/ b \in {43, 47}
                         \/ b \in 48 .. 63 /\ b - 32 \in offset
  <2>1. /\ b - 16 \in KernelCode <=> b = 19
        /\ b - 32 \in IdtFlags <=> b \in {43, 47}
        /\ b - 32 \in high <=> b \in 48 .. 63 /\ b - 32 \in offset
        /\ b \in low <=> b \in 0 .. 15 /\ b \in offset
    BY DEF KernelCode, IdtFlags, low, high
  <2>2. b \in g <=> \/ b \in low \/ b - 16 \in KernelCode \/ b - 40 \in type
                    \/ b - 32 \in IdtFlags \/ b - 32 \in high
    BY <1>3
  <2> HIDE DEF g
  <2> QED BY <2>1, <2>2
<1>6. IdtSetGate(type, KernelCode, offset, IdtFlags) = g
  BY DEF IdtSetGate, low, high
<1> QED BY <1>4, <1>5, <1>6

\* What the processor finds in such a gate: what the code put in.
LEMMA GateRead ==
    ASSUME NEW type \in SUBSET (0 .. 2), NEW offset \in SUBSET (0 .. 31)
    PROVE  LET g == IdtSetGate(type, KernelCode, offset, IdtFlags)
           IN  /\ Present(g) /\ GateOffset(g) = offset /\ GateSelector(g) = KernelCode
               /\ GateType(g) = type \cup {3}
<1> DEFINE g == IdtSetGate(type, KernelCode, offset, IdtFlags)
<1>0. /\ g \in SUBSET Int
      /\ \A b \in Int : b \in g <=> \/ b \in 0 .. 15 /\ b \in offset
                                    \/ b = 19 \/ b - 40 \in type \/ b \in {43, 47}
                                    \/ b \in 48 .. 63 /\ b - 32 \in offset
  BY GateBits
<1> HIDE DEF g
<1>1. Present(g)
  BY <1>0 DEF Present
<1>2. GateOffset(g) = offset
  <2>1. g \cap 48 .. 63 \in SUBSET Int
    BY <1>0
  <2>2. /\ Shr(g \cap 48 .. 63, 32) \in SUBSET Int
        /\ \A b \in Int : b \in Shr(g \cap 48 .. 63, 32) <=> b + 32 \in g \cap 48 .. 63 /\ b >= 0
    BY <2>1, Shifts
  <2>3. ASSUME NEW b \in Int
        PROVE  b \in Shr(g \cap 48 .. 63, 32) <=> b \in 16 .. 31 /\ b \in offset
    <3>1. b + 32 \in 48 .. 63 <=> b \in 16 .. 31
      OBVIOUS
    <3>2. b + 32 \in 48 .. 63 => (b + 32 \in g <=> b \in offset)
      <4>1. (b + 32) - 32 = b /\ (b + 32) - 40 = b - 8
        OBVIOUS
      <4>2. b + 32 \in g <=>
               \/ b + 32 \in 0 .. 15 /\ b + 32 \in offset
               \/ b + 32 = 19 \/ b - 8 \in type \/ b + 32 \in {43, 47}
               \/ b + 32 \in 48 .. 63 /\ b \in offset
        BY <1>0, <4>1
      <4> QED BY <4>2
    <3> QED BY <2>2, <3>1, <3>2
  <2>4. ASSUME NEW b \in Int PROVE b \in g \cap 0 .. 15 <=> b \in 0 .. 15 /\ b \in offset
    BY <1>0
  <2>5. ASSUME NEW b \in Int PROVE b \in GateOffset(g) <=> b \in offset
    BY <2>3, <2>4 DEF GateOffset
  <2>6. GateOffset(g) \in SUBSET Int /\ offset \in SUBSET Int
    BY <2>2 DEF GateOffset
  <2> QED BY <2>5, <2>6, SameBits
<1>3. GateSelector(g) = KernelCode
  <2>1. g \cap 16 .. 31 \in SUBSET Int
    BY <1>0
  <2>2. /\ GateSelector(g) \in SUBSET Int
        /\ \A b \in Int : b \in GateSelector(g) <=> b + 16 \in g \cap 16 .. 31 /\ b >= 0
    <3>1. GateSelector(g) = Shr(g \cap 16 .. 31, 16)
      BY DEF GateSelector
    <3> QED BY <2>1, <3>1, Shifts
  <2>3. ASSUME NEW b \in Int PROVE b + 16 \in g \cap 16 .. 31 /\ b >= 0 <=> b = 3
    <3>1. b + 16 \in g <=> \/ b + 16 \in 0 .. 15 /\ b + 16 \in offset
                           \/ b + 16 = 19 \/ b + 16 - 40 \in type \/ b + 16 \in {43, 47}
                           \/ b + 16 \in 48 .. 63 /\ b + 16 - 32 \in offset
      BY <1>0
    <3> QED BY <3>1
  <2> QED BY <2>2, <2>3 DEF KernelCode
<1>4. GateType(g) = type \cup {3}
  <2>1. g \cap 40 .. 44 \in SUBSET Int
    BY <1>0
  <2>2. /\ GateType(g) \in SUBSET Int
        /\ \A b \in Int : b \in GateType(g) <=> b + 40 \in g \cap 40 .. 44 /\ b >= 0
    BY <2>1, Shifts DEF GateType
  <2>3. ASSUME NEW b \in Int PROVE b + 40 \in g \cap 40 .. 44 /\ b >= 0 <=> b \in type \cup {3}
    <3>1. (b + 40) - 40 = b
      OBVIOUS
    <3>2. b + 40 \in g <=> \/ b + 40 \in 0 .. 15 /\ b + 40 \in offset
                           \/ b + 40 = 19 \/ b \in type \/ b + 40 \in {43, 47}
                           \/ b + 40 \in 48 .. 63 /\ b + 40 - 32 \in offset
      BY <1>0, <3>1
    <3> QED BY <3>2
  <2>4. type \cup {3} \in SUBSET Int /\ \A b \in Int : b \in GateType(g) <=> b \in type \cup {3}
    BY <2>2, <2>3
  <2> QED BY <2>2, <2>4, SameBits
<1> QED BY <1>1, <1>2, <1>3, <1>4 DEF g

-----------------------------------------------------------------------------
(* What the invariant says of the properties.                              *)

\* The kernel's page is at its linked address under both page directories, and
\* at its low one under the first.
LEMMA HomeReached ==
    ASSUME Inv
    PROVE  /\ Linear(M, HighHalf(Home)) = {Home}
           /\ cr3 = "entry" => Linear(M, Home) = {Home}
<1>1. HighHalf(Home) = <<VmaDir, KernelPage>> /\ Home = <<0, KernelPage>>
  BY SizeAssumption DEF HighHalf, High, Home
<1>2. M.cr3 = cr3 /\ cr3 \in {"entry", "pgdir"}
  BY DEF M, Inv, TypeOK
<1>3. CASE cr3 = "entry"
  <2>1. EntryFrame(<<VmaDir, KernelPage>>) = Home /\ EntryFrame(Home) = Home
    BY <1>1, SizeAssumption DEF EntryFrame
  <2> QED BY <1>1, <1>2, <1>3, <2>1 DEF Linear
<1>4. CASE cr3 = "pgdir"
  <2>1. VmaDir \in KernelDirs /\ VmaDir - VmaDir = 0
    BY SizeAssumption DEF KernelDirs
  <2>2. M.dir[VmaDir] = [present |-> TRUE, size |-> TRUE, base |-> <<0, 0>>]
    BY <1>4, <2>1 DEF Inv, Sound, KernelBig
  <2> QED BY <1>1, <1>2, <1>4, <2>2 DEF Linear, Walked
<1> QED BY <1>2, <1>3, <1>4

\* With paging on the linked address is reached, and so is the low one before
\* paging_init.
LEMMA SidesReached ==
    ASSUME Inv, cpu.pg
    PROVE  /\ Reachable("high")
           /\ cr3 = "entry" => Reachable("low")
  BY HomeReached DEF Reachable

\* Code and stack are where the directory in force maps them.
LEMMA MappedByInvariant == IInv => RunsMapped
<1> SUFFICES ASSUME IInv, cpu.pg PROVE Reachable(cpu.eip) /\ Reachable(cpu.esp) /\ Reachable("high")
  BY DEF RunsMapped
<1>1. Reachable("high") /\ (cr3 = "entry" => Reachable("low"))
  BY SidesReached DEF IInv
<1>2. /\ cpu.eip = "high" \/ (cpu.eip = "low" /\ cr3 = "entry")
      /\ cpu.esp = "high" \/ (cpu.esp = "low" /\ cr3 = "entry")
  BY DEF IInv, Addresses, PcHighEip, PcHighEsp, PcNew, PcUnpaged
<1> QED BY <1>1, <1>2

\* The selectors in force name descriptors read back as gdt_init packed them.
LEMMA SegmentsByInvariant == IInv => SegmentsUsable
<1> DEFINE Usable(s) ==
             cpu.segs[s] # {} => Flat(cpu.segs[s], IF s = "cs" THEN {1, 3, 4} ELSE {1, 4})
           Within(n) == 8 * n + 7 <= cpu.gdtr => n \in DOMAIN gdt
<1> SUFFICES ASSUME IInv PROVE SegmentsUsable
  OBVIOUS
<1>1. ASSUME NEW s \in DOMAIN cpu.segs
      PROVE  Usable(s)
  <2> HAVE cpu.segs[s] # {}
  <2>1. s \in Segments
    BY DEF IInv, BootTypeOK, Cpu
  <2>2. pc \notin PcNoSegs
    BY <2>1 DEF IInv, Tabled
  <2>3. gdt = BuildGdt /\ cpu.gdtr = 8 * GDT_LIMIT
    BY <2>2 DEF IInv, Tabled, PcNoSegs, PcNoGdtr, PcNoGdt
  <2>4. cpu.segs[s] = IF s = "cs" THEN KernelCode ELSE KernelData
    BY <2>1, <2>2 DEF IInv, Tabled
  <2> QED BY <2>3, <2>4, SelectorsFlat
<1>2. ASSUME NEW n \in SelectorIndices PROVE Within(n)
  <2>1. DOMAIN gdt = 0 .. 9
    BY DEF IInv, BootTypeOK, GDT_LIMIT
  <2>2. cpu.gdtr = -1 \/ cpu.gdtr = 80
    BY DEF IInv, Tabled, GDT_LIMIT
  <2>3. n \in Int /\ 0 <= n /\ (8 * n + 7 <= cpu.gdtr => n <= 9)
    BY <2>2 DEF SelectorIndices
  <2>4. 8 * n + 7 <= cpu.gdtr => n \in 0 .. 9
    BY <2>3
  <2> QED BY <2>1, <2>4
<1>3. SUFFICES (\A s \in DOMAIN cpu.segs : Usable(s)) /\ (\A n \in SelectorIndices : Within(n))
  BY DEF SegmentsUsable
<1> HIDE DEF Usable, Within
<1>4. \A s \in DOMAIN cpu.segs : Usable(s)
  BY <1>1
<1>5. \A n \in SelectorIndices : Within(n)
  BY <1>2
<1> QED BY <1>4, <1>5

\* The gates are read back as idt_init packed them.
LEMMA GatesByInvariant == IInv => ExceptionsDelivered
<1> SUFFICES ASSUME IInv, cpu.idtr # -1
             PROVE  /\ Reachable("high") /\ Reachable(cpu.esp)
                    /\ \A v \in Vectors \ Reserved :
                          /\ 8 * v + 7 <= cpu.idtr /\ Present(idt[v])
                          /\ GateOffset(idt[v]) = stubs[v]
                          /\ Flat(GateSelector(idt[v]), {1, 3, 4})
                          /\ GateType(idt[v]) = IF v < 32 THEN {0, 1, 2, 3} ELSE {1, 2, 3}
                          /\ v \in ErrorCodes <=> v \in StubSkipsPush
  BY DEF ExceptionsDelivered
<1>1. pc \notin PcNoIdtr /\ cpu.idtr = 2039
  BY DEF IInv, Tabled
<1>2. /\ gdt = BuildGdt /\ cpu.gdtr = 8 * GDT_LIMIT /\ idt = BuildIdt(stubs) /\ cpu.pg
  BY <1>1 DEF IInv, Tabled, Addresses, PcNoIdtr, PcNoIdt, PcNoSegs, PcNoGdtr, PcNoGdt, PcUnpaged
<1>3. Reachable("high") /\ Reachable(cpu.esp)
  BY <1>2, MappedByInvariant DEF RunsMapped
<1>4. ASSUME NEW v \in Vectors \ Reserved
      PROVE  /\ 8 * v + 7 <= cpu.idtr /\ Present(idt[v])
             /\ GateOffset(idt[v]) = stubs[v]
             /\ Flat(GateSelector(idt[v]), {1, 3, 4})
             /\ GateType(idt[v]) = IF v < 32 THEN {0, 1, 2, 3} ELSE {1, 2, 3}
             /\ v \in ErrorCodes <=> v \in StubSkipsPush
  <2> DEFINE type == IF v < 32 THEN TrapGate ELSE InterruptGate
  <2>1. v \in 0 .. 254 /\ v \notin Reserved
    BY DEF Vectors
  <2>2. stubs[v] \in SUBSET (0 .. 31)
    BY BootAssumption DEF IInv, BootTypeOK
  <2>3. idt[v] = IdtSetGate(type, KernelCode, stubs[v], IdtFlags)
    BY <1>2 DEF BuildIdt
  <2>4. type \in SUBSET (0 .. 2)
    BY DEF TrapGate, InterruptGate
  <2>5. type \cup {3} = IF v < 32 THEN {0, 1, 2, 3} ELSE {1, 2, 3}
    BY DEF TrapGate, InterruptGate
  <2> HIDE DEF type
  <2>6. /\ Present(idt[v]) /\ GateOffset(idt[v]) = stubs[v]
        /\ GateSelector(idt[v]) = KernelCode /\ GateType(idt[v]) = type \cup {3}
    BY <2>2, <2>3, <2>4, GateRead
  <2>7. Flat(GateSelector(idt[v]), {1, 3, 4})
    BY <1>2, <2>6, SelectorsFlat
  <2>8. v \in ErrorCodes <=> v \in StubSkipsPush
    BY <2>1 DEF ErrorCodes, StubSkipsPush, Reserved
  <2>9. 8 * v + 7 <= cpu.idtr
    BY <1>1, <2>1
  <2> QED BY <2>5, <2>6, <2>7, <2>8, <2>9
<1> QED BY <1>3, <1>4

\* The loader's pointer is the second word kmain finds.
LEMMA MbiByInvariant == IInv => MbiReachesKmain
<1> SUFFICES ASSUME IInv, pc = "kmain" PROVE Top(2) = "mbi + VMA"
  BY DEF MbiReachesKmain
<1>1. Len(stack) = 3 /\ stack[2] = "mbi + VMA"
  BY DEF IInv, MbiKept
<1>2. 3 + 1 - 2 = 2
  OBVIOUS
<1> QED BY <1>1, <1>2, Zenon DEF Top

\* The twelve writes have left both controllers initialised and masked.
LEMMA PicsByInvariant == IInv => PicsQuiet
<1> SUFFICES ASSUME IInv, pc = "sti"
             PROVE  /\ \A c \in Chips : pics[c].next = 0 /\ pics[c].mask = 255 /\ pics[c].mode = 1
                    /\ pics["master"].base >= 32 /\ pics["slave"].base = pics["master"].base + 8
                    /\ pics["master"].cascade = 2 ^ pics["slave"].cascade
  BY DEF PicsQuiet
<1>1. /\ Taken(pics["master"], 4, 32, 4) /\ Taken(pics["slave"], 4, 40, 2)
      /\ pics["master"].mask = 255 /\ pics["slave"].mask = 255
  BY DEF IInv, Programmed
<1>2. /\ pics["master"].next = 0 /\ pics["slave"].next = 0
      /\ pics["master"].base = 32 /\ pics["slave"].base = 40
      /\ pics["master"].cascade = 4 /\ pics["slave"].cascade = 2
      /\ pics["master"].mode = 1 /\ pics["slave"].mode = 1
  BY <1>1 DEF Taken
<1>3. 2 ^ pics["slave"].cascade = 4
  BY <1>2
<1> QED BY <1>1, <1>2, <1>3 DEF Chips

-----------------------------------------------------------------------------
(* The invariant is established and kept.                                  *)

\* The words of the 8259A by number.
LEMMA PicWritesAre ==
    /\ Len(PicWrites) = 12
    /\ PicWrites[1] = To("master", "command", 17) /\ PicWrites[5] = To("slave", "command", 17)
    /\ PicWrites[2] = To("master", "data", 32) /\ PicWrites[6] = To("slave", "data", 40)
    /\ PicWrites[3] = To("master", "data", 4) /\ PicWrites[7] = To("slave", "data", 2)
    /\ PicWrites[4] = To("master", "data", 1) /\ PicWrites[8] = To("slave", "data", 1)
    /\ PicWrites[9] = To("master", "data", 0) /\ PicWrites[10] = To("slave", "data", 0)
    /\ PicWrites[11] = To("master", "data", 255) /\ PicWrites[12] = To("slave", "data", 255)
  BY DEF PicWrites, Icws, MaskBoth

\* Changing some fields of a record keeps the types of the fields.
LEMMA ChipUpdates ==
    ASSUME NEW Kinds, NEW Flags, NEW Bytes,
           NEW c \in [next : Kinds, needs4 : Flags, single : Flags,
                      base : Bytes, cascade : Bytes, mode : Bytes, mask : Bytes],
           NEW n \in Kinds, NEW x \in Flags, NEW y \in Flags, NEW v \in Bytes, NEW w \in Bytes
    PROVE  [c EXCEPT !.next = n, !.needs4 = x, !.single = y, !.mask = v, !.mode = w]
             \in [next : Kinds, needs4 : Flags, single : Flags,
                  base : Bytes, cascade : Bytes, mode : Bytes, mask : Bytes]
  OBVIOUS

\* What the words do to a chip.
LEMMA ChipTakes ==
    ASSUME NEW c \in Chip, NEW byte \in 0 .. 255
    PROVE  /\ Command(c, 17) = [c EXCEPT !.next = 2, !.needs4 = TRUE, !.single = FALSE,
                                         !.mask = 0, !.mode = 0]
           /\ Command(c, 32) = c
           /\ Command(c, 17) \in Chip /\ Data(c, byte) \in Chip
<1>1. BitOf(17, 4) = TRUE /\ BitOf(17, 0) = TRUE /\ BitOf(17, 1) = FALSE /\ BitOf(32, 4) = FALSE
  <2>1. 2^4 = 16 /\ 2^0 = 1 /\ 2^1 = 2
    OBVIOUS
  <2>2. /\ (17 \div 16) % 2 = 1 /\ (17 \div 1) % 2 = 1 /\ (17 \div 2) % 2 = 0
        /\ (32 \div 16) % 2 = 0
    OBVIOUS
  <2> QED BY <2>1, <2>2 DEF BitOf
<1>2. /\ Command(c, 17) = [c EXCEPT !.next = 2, !.needs4 = TRUE, !.single = FALSE,
                                    !.mask = 0, !.mode = 0]
      /\ Command(c, 32) = c
  BY <1>1 DEF Command
<1>3. Command(c, 17) \in Chip
  <2>1. 2 \in {0, 2, 3, 4} /\ 0 \in 0 .. 255
    OBVIOUS
  <2>2. TRUE \in BOOLEAN /\ FALSE \in BOOLEAN
    OBVIOUS
  <2>3. [c EXCEPT !.next = 2, !.needs4 = TRUE, !.single = FALSE, !.mask = 0, !.mode = 0] \in Chip
    <3> DEFINE Kinds == {0, 2, 3, 4}
               Flags == BOOLEAN
               Bytes == 0 .. 255
    <3>1. /\ 2 \in Kinds /\ 0 \in Bytes /\ TRUE \in Flags /\ FALSE \in Flags
          /\ c \in [next : Kinds, needs4 : Flags, single : Flags,
                    base : Bytes, cascade : Bytes, mode : Bytes, mask : Bytes]
      BY <2>1, <2>2 DEF Chip
    <3> HIDE DEF Kinds, Flags, Bytes
    <3>2. [c EXCEPT !.next = 2, !.needs4 = TRUE, !.single = FALSE, !.mask = 0, !.mode = 0]
             \in [next : Kinds, needs4 : Flags, single : Flags,
                  base : Bytes, cascade : Bytes, mode : Bytes, mask : Bytes]
      BY <3>1, ChipUpdates
    <3> QED BY <3>2 DEF Kinds, Flags, Bytes, Chip
  <2> QED BY <1>2, <2>3
<1>4. Data(c, byte) \in Chip
  BY DEF Data, Chip
<1> QED BY <1>2, <1>3, <1>4

\* Changing a register keeps the registers' types.
LEMMA CpuUpdates ==
    ASSUME NEW r \in Cpu
    PROVE  /\ \A x \in {"low", "high"} :
                 [r EXCEPT !.esp = x] \in Cpu /\ [r EXCEPT !.eip = x] \in Cpu
           /\ \A w \in Words :
                 /\ [r EXCEPT !.eax = w] \in Cpu /\ [r EXCEPT !.ebx = w] \in Cpu
                 /\ [r EXCEPT !.pg = TRUE, !.eax = w] \in Cpu
           /\ \A v, w \in Words : [r EXCEPT !.eax = v, !.ebx = w] \in Cpu
           /\ \A n \in Int : [r EXCEPT !.gdtr = n] \in Cpu /\ [r EXCEPT !.idtr = n] \in Cpu
  BY DEF Cpu

\* Two words pushed on a stack of one.
LEMMA TwoPushed ==
    ASSUME NEW s \in Seq(Words), Len(s) = 1, NEW x \in Words, NEW y \in Words
    PROVE  s \o <<x, y>> \in Seq(Words) /\ Len(s \o <<x, y>>) = 3 /\ (s \o <<x, y>>)[2] = x
<1> DEFINE t == <<x, y>>
<1>1. t \in Seq(Words) /\ Len(t) = 2 /\ t[1] = x
  OBVIOUS
<1> HIDE DEF t
<1>2. /\ s \o t \in Seq(Words) /\ Len(s \o t) = Len(s) + Len(t)
      /\ \A i \in 1 .. Len(s) + Len(t) : (s \o t)[i] = IF i <= Len(s) THEN s[i] ELSE t[i - Len(s)]
  BY <1>1, ConcatProperties
<1>3. Len(s \o t) = 3
  BY <1>1, <1>2
<1>4. (s \o t)[2] = t[2 - 1]
  BY <1>1, <1>2
<1> QED BY <1>1, <1>2, <1>3, <1>4 DEF t

\* ... and popped again.
LEMMA TwoPopped ==
    ASSUME NEW s \in Seq(Words), Len(s) = 3
    PROVE  /\ s[3] \in Words
           /\ SubSeq(s, 1, Len(s) - 2) \in Seq(Words) /\ Len(SubSeq(s, 1, Len(s) - 2)) = 1
<1>1. \A i \in 1 .. 3 : s[i] \in Words
  OBVIOUS
<1>2. Len(s) - 2 = 1
  OBVIOUS
<1>3. SubSeq(s, 1, 1) \in Seq(Words) /\ Len(SubSeq(s, 1, 1)) = 1
  <2>1. \A i \in 1 .. 1 : s[i] \in Words
    BY <1>1
  <2>2. /\ SubSeq(s, 1, 1) \in Seq(Words)
        /\ Len(SubSeq(s, 1, 1)) = IF 1 <= 1 THEN 1 - 1 + 1 ELSE 0
    BY <2>1, SubSeqProperties
  <2> QED BY <2>2
<1> QED BY <1>1, <1>2, <1>3

\* idt_gate has 255 entries.
LEMMA VectorCount == Cardinality(Vectors) = 255
<1>1. 0 \in Int /\ 254 \in Int
  OBVIOUS
<1>2. Cardinality(0 .. 254) = IF 0 > 254 THEN 0 ELSE 254 - 0 + 1
  BY <1>1, FS_Interval, Zenon
<1> QED BY <1>2 DEF Vectors

\* At the entry point nothing is loaded yet and the directory is entry's.
LEMMA Starts == BootInit => IInv
<1> SUFFICES ASSUME BootInit PROVE IInv
  OBVIOUS
<1>1. Inv
  BY InvInit DEF BootInit
<1>2. BootTypeOK
  <2>1. magic \in Words
    BY DEF BootInit, Words
  <2>2. [s \in Segments |-> {}] \in [Segments -> {{}, KernelCode, KernelData}]
    OBVIOUS
  <2>5. cpu = [pg |-> FALSE, eip |-> "low", esp |-> "loader", eax |-> magic, ebx |-> "mbi",
               gdtr |-> -1, idtr |-> -1, segs |-> [s \in Segments |-> {}]]
    BY DEF BootInit, Segments
  <2>6. "mbi" \in Words /\ -1 \in Int /\ FALSE \in BOOLEAN
    BY DEF Words
  <2>3. cpu \in Cpu
    BY <2>1, <2>2, <2>5, <2>6 DEF Cpu
  <2>4. pics \in [Chips -> Chip]
    BY DEF BootInit, Chips, Chip
  <2> QED BY <2>1, <2>3, <2>4 DEF BootInit, BootTypeOK, PcAll, PcNoIdtr, PcNoIdt, PcNoSegs,
     PcNoGdtr, PcNoGdt, PcUnpaged, GDT_LIMIT
<1>3. Addresses
  BY DEF BootInit, Init, Addresses, PcUnpaged, PcHighEip, PcHighEsp, PcNew
<1>4. Tabled
  BY DEF BootInit, Tabled, Segments, PcNoIdtr, PcNoIdt, PcNoSegs, PcNoGdtr, PcNoGdt, PcUnpaged
<1>5. MbiKept
  BY DEF BootInit, MbiKept, PcSaved, PcRestored
<1>6. Programmed
  BY DEF BootInit, Programmed, Taken, Chips
<1> QED BY <1>1, <1>2, <1>3, <1>4, <1>5, <1>6 DEF IInv

\* mov esp: the first stack.
LEMMA EntryStackKeeps == IInv /\ EntryStack => IInv'
<1> SUFFICES ASSUME IInv, EntryStack PROVE IInv'
  OBVIOUS
<1>1. Inv' /\ cr3' = cr3
  BY InvStutter DEF IInv, EntryStack, vars
<1>2. BootTypeOK'
  <2>1. cpu' = [cpu EXCEPT !.esp = "low"] /\ cpu \in Cpu
    BY DEF IInv, BootTypeOK, EntryStack, Step
  <2>3. cpu' \in Cpu
    BY <2>1, CpuUpdates
  <2> QED BY <2>3 DEF IInv, BootTypeOK, EntryStack, Step, PcAll, PcNoIdtr, PcNoIdt, PcNoSegs,
                      PcNoGdtr, PcNoGdt, PcUnpaged, PcRestored
<1>3. Addresses'
  BY <1>1 DEF IInv, BootTypeOK, Cpu, Addresses, EntryStack, Step, PcUnpaged, PcHighEip,
              PcHighEsp, PcNew
<1>4. Tabled'
  BY DEF IInv, BootTypeOK, Cpu, Tabled, EntryStack, Step, Segments, PcNoIdtr, PcNoIdt, PcNoSegs,
         PcNoGdtr, PcNoGdt, PcUnpaged
<1>5. MbiKept'
  <2>1. stack' = <<"ebp">> /\ pc' = "args" /\ "ebp" \in Words
    BY DEF EntryStack, Step, Words
  <2>2. stack' \in Seq(Words) /\ Len(stack') = 1
    BY <2>1
  <2> QED BY <2>1, <2>2 DEF MbiKept, PcSaved, PcRestored
<1>6. Programmed'
  BY DEF IInv, Programmed, EntryStack, Step
<1> QED BY <1>1, <1>2, <1>3, <1>4, <1>5, <1>6 DEF IInv

\* The pointer is moved to its high address and both registers are pushed.
LEMMA SaveArgumentsKeeps == IInv /\ SaveArguments => IInv'
<1> SUFFICES ASSUME IInv, SaveArguments PROVE IInv'
  OBVIOUS
<1>1. Inv' /\ cr3' = cr3
  BY InvStutter DEF IInv, SaveArguments, vars
<1>2. BootTypeOK'
  <2>1. cpu' = [cpu EXCEPT !.ebx = "mbi + VMA"] /\ cpu \in Cpu
    BY DEF IInv, BootTypeOK, SaveArguments, Step
  <2>2. "mbi + VMA" \in Words
    BY DEF Words, GDT_LIMIT
  <2>3. cpu' \in Cpu
    BY <2>1, <2>2, CpuUpdates
  <2> QED BY <2>3 DEF IInv, BootTypeOK, SaveArguments, Step, PcAll, PcNoIdtr, PcNoIdt, PcNoSegs,
                      PcNoGdtr, PcNoGdt, PcUnpaged, PcRestored
<1>3. Addresses'
  BY <1>1 DEF IInv, BootTypeOK, Cpu, Addresses, SaveArguments, Step, PcUnpaged, PcHighEip,
              PcHighEsp, PcNew
<1>4. Tabled'
  BY DEF IInv, BootTypeOK, Cpu, Tabled, SaveArguments, Step, Segments, PcNoIdtr, PcNoIdt,
         PcNoSegs, PcNoGdtr, PcNoGdt, PcUnpaged
<1>5. MbiKept'
  <2>1. /\ stack' = stack \o <<"mbi + VMA", cpu.eax>> /\ pc' = "entry_init_paging"
        /\ stack \in Seq(Words) /\ Len(stack) = 1 /\ cpu.eax \in Words
    BY DEF IInv, BootTypeOK, Cpu, MbiKept, SaveArguments, Step
  <2>2. "mbi + VMA" \in Words
    BY DEF Words
  <2>3. stack' \in Seq(Words) /\ Len(stack') = 3 /\ stack'[2] = "mbi + VMA"
    BY <2>1, <2>2, TwoPushed
  <2> QED BY <2>1, <2>3 DEF MbiKept, PcSaved, PcRestored
<1>6. Programmed'
  BY DEF IInv, Programmed, SaveArguments, Step
<1> QED BY <1>1, <1>2, <1>3, <1>4, <1>5, <1>6 DEF IInv

\* CR3, CR4 and CR0 are loaded with the bootstrap directory.
LEMMA EntryInitPagingKeeps == IInv /\ EntryInitPaging => IInv'
<1> SUFFICES ASSUME IInv, EntryInitPaging PROVE IInv'
  OBVIOUS
<1>1. Inv' /\ cr3' = cr3
  BY InvStutter DEF IInv, EntryInitPaging, vars
<1>2. BootTypeOK'
  <2>1. cpu' = [cpu EXCEPT !.pg = TRUE, !.eax = "cr0"] /\ cpu \in Cpu
    BY DEF IInv, BootTypeOK, EntryInitPaging, Step
  <2>2. "cr0" \in Words
    BY DEF Words, GDT_LIMIT
  <2>3. cpu' \in Cpu
    BY <2>1, <2>2, CpuUpdates
  <2> QED BY <2>3 DEF IInv, BootTypeOK, EntryInitPaging, Step, PcAll, PcNoIdtr, PcNoIdt,
                      PcNoSegs, PcNoGdtr, PcNoGdt, PcUnpaged, PcRestored
<1>3. Addresses'
  BY <1>1 DEF IInv, BootTypeOK, Cpu, Addresses, EntryInitPaging, Step, PcUnpaged, PcHighEip,
              PcHighEsp, PcNew
<1>4. Tabled'
  BY DEF IInv, BootTypeOK, Cpu, Tabled, EntryInitPaging, Step, Segments, PcNoIdtr, PcNoIdt,
         PcNoSegs, PcNoGdtr, PcNoGdt, PcUnpaged
<1>5. MbiKept'
  BY DEF IInv, BootTypeOK, Cpu, MbiKept, EntryInitPaging, Step, PcSaved, PcRestored
<1>6. Programmed'
  BY DEF IInv, Programmed, EntryInitPaging, Step
<1> QED BY <1>1, <1>2, <1>3, <1>4, <1>5, <1>6 DEF IInv

\* gdt_init packs the descriptors.
LEMMA GdtGatesKeeps == IInv /\ GdtGates => IInv'
<1> SUFFICES ASSUME IInv, GdtGates PROVE IInv'
  OBVIOUS
<1>1. Inv' /\ cr3' = cr3
  BY InvStutter DEF IInv, GdtGates, vars
<1>2. BootTypeOK'
  <2>1. cpu' = [cpu EXCEPT !.eax = "c"] /\ cpu \in Cpu
    BY DEF IInv, BootTypeOK, GdtGates, Step
  <2>2. "c" \in Words
    BY DEF Words, GDT_LIMIT
  <2>3. cpu' \in Cpu
    BY <2>1, <2>2, CpuUpdates
  <2> QED BY <2>3 DEF IInv, BootTypeOK, GdtGates, Step, PcAll, PcNoIdtr, PcNoIdt, PcNoSegs,
                      PcNoGdtr, PcNoGdt, PcUnpaged, PcRestored, BuildGdt
<1>3. Addresses'
  BY <1>1 DEF IInv, BootTypeOK, Cpu, Addresses, GdtGates, Step, PcUnpaged, PcHighEip, PcHighEsp,
              PcNew
<1>4. Tabled'
  BY DEF IInv, BootTypeOK, Cpu, Tabled, GdtGates, Step, Segments, PcNoIdtr, PcNoIdt, PcNoSegs,
         PcNoGdtr, PcNoGdt, PcUnpaged
<1>5. MbiKept'
  BY DEF IInv, BootTypeOK, Cpu, MbiKept, GdtGates, Step, PcSaved, PcRestored
<1>6. Programmed'
  BY DEF IInv, Programmed, GdtGates, Step
<1> QED BY <1>1, <1>2, <1>3, <1>4, <1>5, <1>6 DEF IInv

\* lgdt.
LEMMA LgdtKeeps == IInv /\ Lgdt => IInv'
<1> SUFFICES ASSUME IInv, Lgdt PROVE IInv'
  OBVIOUS
<1>1. Inv' /\ cr3' = cr3
  BY InvStutter DEF IInv, Lgdt, vars
<1>2. BootTypeOK'
  <2>1. cpu' = [cpu EXCEPT !.gdtr = 8 * GDT_LIMIT] /\ cpu \in Cpu
    BY DEF IInv, BootTypeOK, Lgdt, Step
  <2>2. 8 * GDT_LIMIT \in Int
    BY DEF Words, GDT_LIMIT
  <2>3. cpu' \in Cpu
    BY <2>1, <2>2, CpuUpdates
  <2> QED BY <2>3 DEF IInv, BootTypeOK, Lgdt, Step, PcAll, PcNoIdtr, PcNoIdt, PcNoSegs, PcNoGdtr,
                      PcNoGdt, PcUnpaged, PcRestored
<1>3. Addresses'
  BY <1>1 DEF IInv, BootTypeOK, Cpu, Addresses, Lgdt, Step, PcUnpaged, PcHighEip, PcHighEsp, PcNew
<1>4. Tabled'
  BY DEF IInv, BootTypeOK, Cpu, Tabled, Lgdt, Step, Segments, PcNoIdtr, PcNoIdt, PcNoSegs,
         PcNoGdtr, PcNoGdt, PcUnpaged
<1>5. MbiKept'
  BY DEF IInv, BootTypeOK, Cpu, MbiKept, Lgdt, Step, PcSaved, PcRestored
<1>6. Programmed'
  BY DEF IInv, Programmed, Lgdt, Step
<1> QED BY <1>1, <1>2, <1>3, <1>4, <1>5, <1>6 DEF IInv

\* The segment registers are loaded, cs by a far return to the high address.
LEMMA GdtFlushKeeps == IInv /\ GdtFlush => IInv'
<1> SUFFICES ASSUME IInv, GdtFlush PROVE IInv'
  OBVIOUS
<1>1. Inv' /\ cr3' = cr3
  BY InvStutter DEF IInv, GdtFlush, vars
<1>2. BootTypeOK'
  <2>3. cpu' \in Cpu
    BY DEF IInv, BootTypeOK, Cpu, Segments, GdtFlush, Step
  <2> QED BY <2>3 DEF IInv, BootTypeOK, GdtFlush, Step, PcAll, PcNoIdtr, PcNoIdt, PcNoSegs,
                      PcNoGdtr, PcNoGdt, PcUnpaged, PcRestored
<1>3. Addresses'
  BY <1>1 DEF IInv, BootTypeOK, Cpu, Addresses, GdtFlush, Step, PcUnpaged, PcHighEip, PcHighEsp,
              PcNew
<1>4. Tabled'
  BY DEF IInv, BootTypeOK, Cpu, Tabled, GdtFlush, Step, Segments, PcNoIdtr, PcNoIdt, PcNoSegs,
         PcNoGdtr, PcNoGdt, PcUnpaged
<1>5. MbiKept'
  BY DEF IInv, BootTypeOK, Cpu, MbiKept, GdtFlush, Step, PcSaved, PcRestored
<1>6. Programmed'
  BY DEF IInv, Programmed, GdtFlush, Step
<1> QED BY <1>1, <1>2, <1>3, <1>4, <1>5, <1>6 DEF IInv

\* The return to the caller at its low address.
LEMMA GdtReturnKeeps == IInv /\ GdtReturn => IInv'
<1> SUFFICES ASSUME IInv, GdtReturn PROVE IInv'
  OBVIOUS
<1>1. Inv' /\ cr3' = cr3
  BY InvStutter DEF IInv, GdtReturn, vars
<1>2. BootTypeOK'
  <2>1. cpu' = [cpu EXCEPT !.eip = "low"] /\ cpu \in Cpu
    BY DEF IInv, BootTypeOK, GdtReturn, Step
  <2>3. cpu' \in Cpu
    BY <2>1, CpuUpdates
  <2> QED BY <2>3 DEF IInv, BootTypeOK, GdtReturn, Step, PcAll, PcNoIdtr, PcNoIdt, PcNoSegs,
                      PcNoGdtr, PcNoGdt, PcUnpaged, PcRestored
<1>3. Addresses'
  BY <1>1 DEF IInv, BootTypeOK, Cpu, Addresses, GdtReturn, Step, PcUnpaged, PcHighEip, PcHighEsp,
              PcNew
<1>4. Tabled'
  BY DEF IInv, BootTypeOK, Cpu, Tabled, GdtReturn, Step, Segments, PcNoIdtr, PcNoIdt, PcNoSegs,
         PcNoGdtr, PcNoGdt, PcUnpaged
<1>5. MbiKept'
  BY DEF IInv, BootTypeOK, Cpu, MbiKept, GdtReturn, Step, PcSaved, PcRestored
<1>6. Programmed'
  BY DEF IInv, Programmed, GdtReturn, Step
<1> QED BY <1>1, <1>2, <1>3, <1>4, <1>5, <1>6 DEF IInv

\* idt_init packs the gates.
LEMMA IdtGatesKeeps == IInv /\ IdtGates => IInv'
<1> SUFFICES ASSUME IInv, IdtGates PROVE IInv'
  OBVIOUS
<1>1. Inv' /\ cr3' = cr3
  BY InvStutter DEF IInv, IdtGates, vars
<1>2. BootTypeOK'
  <2>1. cpu' = [cpu EXCEPT !.eax = "c"] /\ cpu \in Cpu
    BY DEF IInv, BootTypeOK, IdtGates, Step
  <2>2. "c" \in Words
    BY DEF Words, GDT_LIMIT
  <2>3. cpu' \in Cpu
    BY <2>1, <2>2, CpuUpdates
  <2> QED BY <2>3 DEF IInv, BootTypeOK, IdtGates, Step, PcAll, PcNoIdtr, PcNoIdt, PcNoSegs,
                      PcNoGdtr, PcNoGdt, PcUnpaged, PcRestored, BuildIdt
<1>3. Addresses'
  BY <1>1 DEF IInv, BootTypeOK, Cpu, Addresses, IdtGates, Step, PcUnpaged, PcHighEip, PcHighEsp,
              PcNew
<1>4. Tabled'
  BY DEF IInv, BootTypeOK, Cpu, Tabled, IdtGates, Step, Segments, PcNoIdtr, PcNoIdt, PcNoSegs,
         PcNoGdtr, PcNoGdt, PcUnpaged
<1>5. MbiKept'
  BY DEF IInv, BootTypeOK, Cpu, MbiKept, IdtGates, Step, PcSaved, PcRestored
<1>6. Programmed'
  BY DEF IInv, Programmed, IdtGates, Step
<1> QED BY <1>1, <1>2, <1>3, <1>4, <1>5, <1>6 DEF IInv

\* lidt.
LEMMA LidtKeeps == IInv /\ Lidt => IInv'
<1> SUFFICES ASSUME IInv, Lidt PROVE IInv'
  OBVIOUS
<1>1. Inv' /\ cr3' = cr3
  BY InvStutter DEF IInv, Lidt, vars
<1>2. BootTypeOK'
  <2>1. cpu' = [cpu EXCEPT !.idtr = 8 * 255 - 1] /\ cpu \in Cpu
    BY VectorCount DEF IInv, BootTypeOK, Lidt, Step
  <2>2. 8 * 255 - 1 \in Int
    BY DEF Words, GDT_LIMIT
  <2>3. cpu' \in Cpu
    BY <2>1, <2>2, CpuUpdates
  <2> QED BY <2>3 DEF IInv, BootTypeOK, Lidt, Step, PcAll, PcNoIdtr, PcNoIdt, PcNoSegs, PcNoGdtr,
                      PcNoGdt, PcUnpaged, PcRestored
<1>3. Addresses'
  BY <1>1 DEF IInv, BootTypeOK, Cpu, Addresses, Lidt, Step, PcUnpaged, PcHighEip, PcHighEsp, PcNew
<1>4. Tabled'
  BY VectorCount DEF IInv, BootTypeOK, Cpu, Tabled, Lidt, Step, Segments, PcNoIdtr, PcNoIdt,
                     PcNoSegs, PcNoGdtr, PcNoGdt, PcUnpaged
<1>5. MbiKept'
  BY DEF IInv, BootTypeOK, Cpu, MbiKept, Lidt, Step, PcSaved, PcRestored
<1>6. Programmed'
  BY DEF IInv, Programmed, Lidt, Step
<1> QED BY <1>1, <1>2, <1>3, <1>4, <1>5, <1>6 DEF IInv

\* The saved words are popped again.
LEMMA RestoreArgumentsKeeps == IInv /\ RestoreArguments => IInv'
<1> SUFFICES ASSUME IInv, RestoreArguments PROVE IInv'
  OBVIOUS
<1>1. Inv' /\ cr3' = cr3
  BY InvStutter DEF IInv, RestoreArguments, vars
<1>0. stack \in Seq(Words) /\ Len(stack) = 3 /\ stack[2] = "mbi + VMA"
  BY DEF IInv, MbiKept, RestoreArguments, Step, PcSaved
<1>7. Top(1) \in Words /\ Top(2) = "mbi + VMA" /\ Top(2) \in Words
  <2>1. 3 + 1 - 2 = 2 /\ 3 + 1 - 1 = 3
    OBVIOUS
  <2>2. stack[3] \in Words
    BY <1>0, TwoPopped
  <2>3. "mbi + VMA" \in Words
    BY DEF Words
  <2> QED BY <1>0, <2>1, <2>2, <2>3, Zenon DEF Top
<1>8. stack' \in Seq(Words) /\ Len(stack') = 1 /\ pc' = "ljmp"
  <2>1. stack' = SubSeq(stack, 1, Len(stack) - 2) /\ pc' = "ljmp"
    BY DEF RestoreArguments, Step
  <2>2. /\ SubSeq(stack, 1, Len(stack) - 2) \in Seq(Words)
        /\ Len(SubSeq(stack, 1, Len(stack) - 2)) = 1
    BY <1>0, TwoPopped
  <2> QED BY <2>1, <2>2
<1>2. BootTypeOK'
  <2>1. cpu' = [cpu EXCEPT !.eax = Top(1), !.ebx = Top(2)] /\ cpu \in Cpu
    BY DEF IInv, BootTypeOK, RestoreArguments, Step
  <2>2. Top(1) \in Words /\ Top(2) \in Words
    BY <1>7
  <2>3. cpu' \in Cpu
    BY <2>1, <2>2, CpuUpdates
  <2> QED BY <2>3 DEF IInv, BootTypeOK, RestoreArguments, Step, PcAll, PcNoIdtr, PcNoIdt,
                      PcNoSegs, PcNoGdtr, PcNoGdt, PcUnpaged, PcRestored
<1>3. Addresses'
  BY <1>1 DEF IInv, BootTypeOK, Cpu, Addresses, RestoreArguments, Step, PcUnpaged, PcHighEip,
              PcHighEsp, PcNew
<1>4. Tabled'
  BY DEF IInv, BootTypeOK, Cpu, Tabled, RestoreArguments, Step, Segments, PcNoIdtr, PcNoIdt,
         PcNoSegs, PcNoGdtr, PcNoGdt, PcUnpaged
<1>5. MbiKept'
  <2>1. cpu'.ebx = "mbi + VMA"
    BY <1>7 DEF IInv, BootTypeOK, Cpu, RestoreArguments, Step
  <2> QED BY <1>8, <2>1 DEF MbiKept, PcSaved, PcRestored
<1>6. Programmed'
  BY DEF IInv, Programmed, RestoreArguments, Step
<1> QED BY <1>1, <1>2, <1>3, <1>4, <1>5, <1>6 DEF IInv

\* The jump to the linked address.
LEMMA LongJumpKeeps == IInv /\ LongJump => IInv'
<1> SUFFICES ASSUME IInv, LongJump PROVE IInv'
  OBVIOUS
<1>1. Inv' /\ cr3' = cr3
  BY InvStutter DEF IInv, LongJump, vars
<1>2. BootTypeOK'
  <2>3. cpu' \in Cpu
    BY DEF IInv, BootTypeOK, Cpu, Segments, LongJump, Step
  <2> QED BY <2>3 DEF IInv, BootTypeOK, LongJump, Step, PcAll, PcNoIdtr, PcNoIdt, PcNoSegs,
                      PcNoGdtr, PcNoGdt, PcUnpaged, PcRestored
<1>3. Addresses'
  BY <1>1 DEF IInv, BootTypeOK, Cpu, Addresses, LongJump, Step, PcUnpaged, PcHighEip, PcHighEsp,
              PcNew
<1>4. Tabled'
  BY DEF IInv, BootTypeOK, Cpu, Tabled, LongJump, Step, Segments, PcNoIdtr, PcNoIdt, PcNoSegs,
         PcNoGdtr, PcNoGdt, PcUnpaged
<1>5. MbiKept'
  BY DEF IInv, BootTypeOK, Cpu, MbiKept, LongJump, Step, PcSaved, PcRestored
<1>6. Programmed'
  BY DEF IInv, Programmed, LongJump, Step
<1> QED BY <1>1, <1>2, <1>3, <1>4, <1>5, <1>6 DEF IInv

\* The second stack, at its high address.
LEMMA RaiseStackKeeps == IInv /\ RaiseStack => IInv'
<1> SUFFICES ASSUME IInv, RaiseStack PROVE IInv'
  OBVIOUS
<1>1. Inv' /\ cr3' = cr3
  BY InvStutter DEF IInv, RaiseStack, vars
<1>2. BootTypeOK'
  <2>1. cpu' = [cpu EXCEPT !.esp = "high"] /\ cpu \in Cpu
    BY DEF IInv, BootTypeOK, RaiseStack, Step, Raised
  <2>3. cpu' \in Cpu
    BY <2>1, CpuUpdates
  <2> QED BY <2>3 DEF IInv, BootTypeOK, RaiseStack, Step, PcAll, PcNoIdtr, PcNoIdt, PcNoSegs,
                      PcNoGdtr, PcNoGdt, PcUnpaged, PcRestored
<1>3. Addresses'
  BY <1>1 DEF IInv, BootTypeOK, Cpu, Addresses, RaiseStack, Step, Raised, PcUnpaged, PcHighEip,
              PcHighEsp, PcNew
<1>4. Tabled'
  BY DEF IInv, BootTypeOK, Cpu, Tabled, RaiseStack, Step, Segments, PcNoIdtr, PcNoIdt, PcNoSegs,
         PcNoGdtr, PcNoGdt, PcUnpaged
<1>5. MbiKept'
  BY DEF IInv, BootTypeOK, Cpu, MbiKept, RaiseStack, Step, PcSaved, PcRestored
<1>6. Programmed'
  BY DEF IInv, Programmed, RaiseStack, Step
<1> QED BY <1>1, <1>2, <1>3, <1>4, <1>5, <1>6 DEF IInv

\* paging_init replaces the bootstrap directory under the running code.
LEMMA CallPagingInitKeeps == IInv /\ CallPagingInit => IInv'
<1> SUFFICES ASSUME IInv, CallPagingInit PROVE IInv'
  OBVIOUS
<1>1. Inv' /\ cr3' = "pgdir"
  <2>1. M \in Mem /\ M.stray = {} /\ ~M.halted
    BY MType DEF IInv, Inv, M
  <2>2. InitialMapping(M).cr3 = "pgdir"
    BY <2>1, InitialMappingCorrect
  <2> QED BY <2>2, InvPagingInit DEF IInv, CallPagingInit, PagingInit, Becomes
<1>2. BootTypeOK'
  <2>1. cpu' = [cpu EXCEPT !.eax = "cr0"] /\ cpu \in Cpu
    BY DEF IInv, BootTypeOK, CallPagingInit, Step
  <2>2. "cr0" \in Words
    BY DEF Words, GDT_LIMIT
  <2>3. cpu' \in Cpu
    BY <2>1, <2>2, CpuUpdates
  <2> QED BY <2>3 DEF IInv, BootTypeOK, CallPagingInit, Step, PcAll, PcNoIdtr, PcNoIdt, PcNoSegs,
                      PcNoGdtr, PcNoGdt, PcUnpaged, PcRestored
<1>3. Addresses'
  BY <1>1 DEF IInv, BootTypeOK, Cpu, Addresses, CallPagingInit, Step, PcUnpaged, PcHighEip,
              PcHighEsp, PcNew
<1>4. Tabled'
  BY DEF IInv, BootTypeOK, Cpu, Tabled, CallPagingInit, Step, Segments, PcNoIdtr, PcNoIdt,
         PcNoSegs, PcNoGdtr, PcNoGdt, PcUnpaged
<1>5. MbiKept'
  BY DEF IInv, BootTypeOK, Cpu, MbiKept, CallPagingInit, Step, PcSaved, PcRestored
<1>6. Programmed'
  BY DEF IInv, Programmed, CallPagingInit, Step
<1> QED BY <1>1, <1>2, <1>3, <1>4, <1>5, <1>6 DEF IInv

\* The arguments are pushed and kmain is called.
LEMMA CallKmainKeeps == IInv /\ CallKmain => IInv'
<1> SUFFICES ASSUME IInv, CallKmain PROVE IInv'
  OBVIOUS
<1>1. Inv' /\ cr3' = cr3
  BY InvStutter DEF IInv, CallKmain, vars
<1>2. BootTypeOK'
  <2>3. cpu' \in Cpu
    BY DEF IInv, BootTypeOK, CallKmain, Step
  <2> QED BY <2>3 DEF IInv, BootTypeOK, CallKmain, Step, PcAll, PcNoIdtr, PcNoIdt, PcNoSegs,
                      PcNoGdtr, PcNoGdt, PcUnpaged, PcRestored
<1>3. Addresses'
  BY <1>1 DEF IInv, BootTypeOK, Cpu, Addresses, CallKmain, Step, PcUnpaged, PcHighEip, PcHighEsp,
              PcNew
<1>4. Tabled'
  BY DEF IInv, BootTypeOK, Cpu, Tabled, CallKmain, Step, Segments, PcNoIdtr, PcNoIdt, PcNoSegs,
         PcNoGdtr, PcNoGdt, PcUnpaged
<1>5. MbiKept'
  <2>1. /\ stack' = stack \o <<"mbi + VMA", cpu.eax>> /\ pc' = "kmain"
        /\ stack \in Seq(Words) /\ Len(stack) = 1 /\ cpu.eax \in Words
    BY DEF IInv, BootTypeOK, Cpu, MbiKept, CallKmain, Step, PcRestored, Arguments
  <2>2. "mbi + VMA" \in Words
    BY DEF Words
  <2>3. stack' \in Seq(Words) /\ Len(stack') = 3 /\ stack'[2] = "mbi + VMA"
    BY <2>1, <2>2, TwoPushed
  <2> QED BY <2>1, <2>3 DEF MbiKept, PcSaved, PcRestored
<1>6. Programmed'
  BY DEF IInv, Programmed, CallKmain, Step
<1> QED BY <1>1, <1>2, <1>3, <1>4, <1>5, <1>6 DEF IInv

\* How a chip goes through its four words: the first ...
LEMMA FirstWord ==
    ASSUME NEW c \in Chip, NEW vec, NEW icw3
    PROVE  Command(c, 17) \in Chip /\ Taken(Command(c, 17), 1, vec, icw3)
<1> DEFINE d == [c EXCEPT !.next = 2, !.needs4 = TRUE, !.single = FALSE, !.mask = 0, !.mode = 0]
<1>0. 0 \in 0 .. 255
  OBVIOUS
<1>1. Command(c, 17) = d /\ Command(c, 17) \in Chip
  BY <1>0, ChipTakes
<1>2. d.next = 2 /\ d.needs4 /\ ~d.single
  BY DEF Chip
<1> HIDE DEF d
<1> QED BY <1>1, <1>2 DEF Taken

\* ... the second, the third, the fourth ...
LEMMA VectorWord ==
    ASSUME NEW c \in Chip, NEW vec \in 0 .. 255, NEW icw3, Taken(c, 1, vec, icw3)
    PROVE  Data(c, vec) \in Chip /\ Taken(Data(c, vec), 2, vec, icw3)
<1> DEFINE d == [c EXCEPT !.base = vec, !.next = 3]
<1>1. c.next = 2 /\ c.needs4 /\ ~c.single
  BY DEF Taken
<1>2. Data(c, vec) = d
  BY <1>1 DEF Data
<1>3. d.next = 3 /\ d.base = vec /\ d.needs4 = c.needs4 /\ d.single = c.single
  BY DEF Chip
<1>4. Data(c, vec) \in Chip
  BY ChipTakes
<1> QED BY <1>1, <1>2, <1>3, <1>4 DEF Taken

\* The third word: where the slave is.
LEMMA CascadeWord ==
    ASSUME NEW c \in Chip, NEW vec, NEW icw3 \in 0 .. 255, Taken(c, 2, vec, icw3)
    PROVE  Data(c, icw3) \in Chip /\ Taken(Data(c, icw3), 3, vec, icw3)
<1> DEFINE d == [c EXCEPT !.cascade = icw3, !.next = 4]
<1>1. c.next = 3 /\ c.needs4 /\ ~c.single /\ c.base = vec
  BY DEF Taken
<1>2. Data(c, icw3) = d
  BY <1>1 DEF Data
<1>3. /\ d.next = 4 /\ d.base = c.base /\ d.cascade = icw3
      /\ d.needs4 = c.needs4 /\ d.single = c.single
  BY DEF Chip
<1>4. Data(c, icw3) \in Chip
  BY ChipTakes
<1> QED BY <1>1, <1>2, <1>3, <1>4 DEF Taken

\* The fourth word ends the initialisation.
LEMMA ModeWord ==
    ASSUME NEW c \in Chip, NEW vec, NEW icw3, Taken(c, 3, vec, icw3)
    PROVE  Data(c, 1) \in Chip /\ Taken(Data(c, 1), 4, vec, icw3)
<1> DEFINE d == [c EXCEPT !.mode = 1, !.next = 0]
<1>1. c.next = 4 /\ c.needs4 /\ ~c.single /\ c.base = vec /\ c.cascade = icw3
  BY DEF Taken
<1>2. Data(c, 1) = d
  BY <1>1 DEF Data
<1>3. /\ d.next = 0 /\ d.base = c.base /\ d.cascade = c.cascade /\ d.mode = 1
      /\ d.needs4 = c.needs4 /\ d.single = c.single
  BY DEF Chip
<1>4. Data(c, 1) \in Chip
  <2>1. 1 \in 0 .. 255
    OBVIOUS
  <2> QED BY <2>1, ChipTakes
<1> QED BY <1>1, <1>2, <1>3, <1>4 DEF Taken

\* ... and from then on the mask.
LEMMA MaskWord ==
    ASSUME NEW c \in Chip, NEW byte \in 0 .. 255, NEW vec, NEW icw3, Taken(c, 4, vec, icw3)
    PROVE  /\ Data(c, byte) \in Chip
           /\ Taken(Data(c, byte), 4, vec, icw3) /\ Data(c, byte).mask = byte
<1> DEFINE d == [c EXCEPT !.mask = byte]
<1>1. /\ c.next = 0 /\ c.needs4 /\ ~c.single /\ c.base = vec /\ c.cascade = icw3 /\ c.mode = 1
  BY DEF Taken
<1>2. Data(c, byte) = d
  BY <1>1 DEF Data
<1>3. /\ d.next = c.next /\ d.base = c.base /\ d.cascade = c.cascade /\ d.mode = c.mode
      /\ d.needs4 = c.needs4 /\ d.single = c.single /\ d.mask = byte
  BY DEF Chip
<1>4. Data(c, byte) \in Chip
  BY ChipTakes
<1> QED BY <1>1, <1>2, <1>3, <1>4 DEF Taken

\* A write reaches one chip.
LEMMA WriteEffect ==
    ASSUME NEW cs \in [Chips -> Chip], NEW chip \in Chips, NEW byte
    PROVE  /\ Write(cs, To(chip, "command", byte)) =
                 [cs EXCEPT ![chip] = Command(cs[chip], byte)]
           /\ Write(cs, To(chip, "data", byte)) = [cs EXCEPT ![chip] = Data(cs[chip], byte)]
  BY DEF Write, To

\* A step that changes nothing.
LEMMA StutterKeeps == IInv /\ UNCHANGED <<vars, bootVars>> => IInv'
<1> SUFFICES ASSUME IInv, UNCHANGED <<vars, bootVars>> PROVE IInv'
  OBVIOUS
<1>1. Inv' /\ cr3' = cr3
  BY InvStutter DEF IInv, vars
<1>2. UNCHANGED <<pc, cpu, stack, gdt, idt, stubs, magic, pics, writes>>
  BY DEF bootVars
<1>3. BootTypeOK' /\ Addresses'
  BY <1>1, <1>2 DEF IInv, BootTypeOK, Addresses
<1>4. Tabled' /\ MbiKept'
  BY <1>2 DEF IInv, Tabled, MbiKept
<1>5. Programmed'
  BY <1>2 DEF IInv, Programmed
<1> QED BY <1>1, <1>3, <1>4, <1>5 DEF IInv

\* Each of the twelve bytes of pic_init and pic_mask_all, in order.
LEMMA PicWriteKeeps == IInv /\ PicWrite => IInv'
<1> SUFFICES ASSUME IInv, PicWrite PROVE IInv'
  OBVIOUS
<1> DEFINE m == pics["master"]
           s == pics["slave"]
           w == PicWrites[writes + 1]
<1>1. /\ pc = "kmain" /\ pc' = "kmain" /\ writes' = writes + 1 /\ pics' = Write(pics, w)
      /\ UNCHANGED <<vars, cpu, stack, gdt, idt, stubs, magic>>
  BY DEF PicWrite, InKmain
<1>2. writes \in 0 .. 11 /\ pics \in [Chips -> Chip] /\ m \in Chip /\ s \in Chip
  BY PicWritesAre DEF IInv, BootTypeOK, PicWrite, Chips
<1>3. Inv' /\ cr3' = cr3
  BY <1>1, InvStutter DEF IInv, vars
<1>4. /\ Taken(m, IF writes < 4 THEN writes ELSE 4, 32, 4)
      /\ Taken(s, IF writes < 4 THEN 0 ELSE IF writes < 8 THEN writes - 4 ELSE 4, 40, 2)
      /\ writes >= 11 => m.mask = 255
  BY DEF IInv, Programmed
<1>5. /\ 0 \in 0 .. 255 /\ 2 \in 0 .. 255 /\ 4 \in 0 .. 255
      /\ 32 \in 0 .. 255 /\ 40 \in 0 .. 255 /\ 255 \in 0 .. 255
  OBVIOUS
<1>6. /\ pics' \in [Chips -> Chip]
      /\ Taken(pics'["master"], IF writes + 1 < 4 THEN writes + 1 ELSE 4, 32, 4)
      /\ Taken(pics'["slave"],
               IF writes + 1 < 4 THEN 0 ELSE IF writes + 1 < 8 THEN writes + 1 - 4 ELSE 4, 40, 2)
      /\ writes + 1 >= 11 => pics'["master"].mask = 255
      /\ writes + 1 >= 12 => pics'["slave"].mask = 255
  <2>1. CASE writes = 0
    <3>1. w = To("master", "command", 17)
      BY <2>1, PicWritesAre
    <3>2. pics' = [pics EXCEPT !["master"] = Command(m, 17)]
      BY <1>1, <3>1 DEF Write, To
    <3>3. Taken(m, 0, 32, 4) /\ Taken(s, 0, 40, 2)
      BY <1>4, <2>1
    <3>4. Command(m, 17) \in Chip /\ Taken(Command(m, 17), 1, 32, 4)
      BY <1>2, <1>5, <3>3, FirstWord
    <3>5. pics' \in [Chips -> Chip] /\ pics'["master"] = Command(m, 17) /\ pics'["slave"] = s
      BY <1>2, <1>5, <3>2, <3>4 DEF Chips
    <3> QED BY <2>1, <3>3, <3>4, <3>5
  <2>2. CASE writes = 1
    <3>1. w = To("master", "data", 32)
      BY <2>2, PicWritesAre
    <3>2. pics' = [pics EXCEPT !["master"] = Data(m, 32)]
      BY <1>1, <3>1 DEF Write, To
    <3>3. Taken(m, 1, 32, 4) /\ Taken(s, 0, 40, 2)
      BY <1>4, <2>2
    <3>4. Data(m, 32) \in Chip /\ Taken(Data(m, 32), 2, 32, 4)
      BY <1>2, <1>5, <3>3, VectorWord
    <3>5. pics' \in [Chips -> Chip] /\ pics'["master"] = Data(m, 32) /\ pics'["slave"] = s
      BY <1>2, <1>5, <3>2, <3>4 DEF Chips
    <3> QED BY <2>2, <3>3, <3>4, <3>5
  <2>3. CASE writes = 2
    <3>1. w = To("master", "data", 4)
      BY <2>3, PicWritesAre
    <3>2. pics' = [pics EXCEPT !["master"] = Data(m, 4)]
      BY <1>1, <3>1 DEF Write, To
    <3>3. Taken(m, 2, 32, 4) /\ Taken(s, 0, 40, 2)
      BY <1>4, <2>3
    <3>4. Data(m, 4) \in Chip /\ Taken(Data(m, 4), 3, 32, 4)
      BY <1>2, <1>5, <3>3, CascadeWord
    <3>5. pics' \in [Chips -> Chip] /\ pics'["master"] = Data(m, 4) /\ pics'["slave"] = s
      BY <1>2, <1>5, <3>2, <3>4 DEF Chips
    <3> QED BY <2>3, <3>3, <3>4, <3>5
  <2>4. CASE writes = 3
    <3>1. w = To("master", "data", 1)
      BY <2>4, PicWritesAre
    <3>2. pics' = [pics EXCEPT !["master"] = Data(m, 1)]
      BY <1>1, <3>1 DEF Write, To
    <3>3. Taken(m, 3, 32, 4) /\ Taken(s, 0, 40, 2)
      BY <1>4, <2>4
    <3>4. Data(m, 1) \in Chip /\ Taken(Data(m, 1), 4, 32, 4)
      BY <1>2, <1>5, <3>3, ModeWord
    <3>5. pics' \in [Chips -> Chip] /\ pics'["master"] = Data(m, 1) /\ pics'["slave"] = s
      BY <1>2, <1>5, <3>2, <3>4 DEF Chips
    <3> QED BY <2>4, <3>3, <3>4, <3>5
  <2>5. CASE writes = 4
    <3>1. w = To("slave", "command", 17)
      BY <2>5, PicWritesAre
    <3>2. pics' = [pics EXCEPT !["slave"] = Command(s, 17)]
      BY <1>1, <3>1 DEF Write, To
    <3>3. Taken(s, 0, 40, 2) /\ Taken(m, 4, 32, 4)
      BY <1>4, <2>5
    <3>4. Command(s, 17) \in Chip /\ Taken(Command(s, 17), 1, 40, 2)
      BY <1>2, <1>5, <3>3, FirstWord
    <3>5. pics' \in [Chips -> Chip] /\ pics'["slave"] = Command(s, 17) /\ pics'["master"] = m
      BY <1>2, <1>5, <3>2, <3>4 DEF Chips
    <3> QED BY <2>5, <3>3, <3>4, <3>5
  <2>6. CASE writes = 5
    <3>1. w = To("slave", "data", 40)
      BY <2>6, PicWritesAre
    <3>2. pics' = [pics EXCEPT !["slave"] = Data(s, 40)]
      BY <1>1, <3>1 DEF Write, To
    <3>3. Taken(s, 1, 40, 2) /\ Taken(m, 4, 32, 4)
      BY <1>4, <2>6
    <3>4. Data(s, 40) \in Chip /\ Taken(Data(s, 40), 2, 40, 2)
      BY <1>2, <1>5, <3>3, VectorWord
    <3>5. pics' \in [Chips -> Chip] /\ pics'["slave"] = Data(s, 40) /\ pics'["master"] = m
      BY <1>2, <1>5, <3>2, <3>4 DEF Chips
    <3> QED BY <2>6, <3>3, <3>4, <3>5
  <2>7. CASE writes = 6
    <3>1. w = To("slave", "data", 2)
      BY <2>7, PicWritesAre
    <3>2. pics' = [pics EXCEPT !["slave"] = Data(s, 2)]
      BY <1>1, <3>1 DEF Write, To
    <3>3. Taken(s, 2, 40, 2) /\ Taken(m, 4, 32, 4)
      BY <1>4, <2>7
    <3>4. Data(s, 2) \in Chip /\ Taken(Data(s, 2), 3, 40, 2)
      BY <1>2, <1>5, <3>3, CascadeWord
    <3>5. pics' \in [Chips -> Chip] /\ pics'["slave"] = Data(s, 2) /\ pics'["master"] = m
      BY <1>2, <1>5, <3>2, <3>4 DEF Chips
    <3> QED BY <2>7, <3>3, <3>4, <3>5
  <2>8. CASE writes = 7
    <3>1. w = To("slave", "data", 1)
      BY <2>8, PicWritesAre
    <3>2. pics' = [pics EXCEPT !["slave"] = Data(s, 1)]
      BY <1>1, <3>1 DEF Write, To
    <3>3. Taken(s, 3, 40, 2) /\ Taken(m, 4, 32, 4)
      BY <1>4, <2>8
    <3>4. Data(s, 1) \in Chip /\ Taken(Data(s, 1), 4, 40, 2)
      BY <1>2, <1>5, <3>3, ModeWord
    <3>5. pics' \in [Chips -> Chip] /\ pics'["slave"] = Data(s, 1) /\ pics'["master"] = m
      BY <1>2, <1>5, <3>2, <3>4 DEF Chips
    <3> QED BY <2>8, <3>3, <3>4, <3>5
  <2>9. CASE writes = 8
    <3>1. w = To("master", "data", 0)
      BY <2>9, PicWritesAre
    <3>2. pics' = [pics EXCEPT !["master"] = Data(m, 0)]
      BY <1>1, <3>1 DEF Write, To
    <3>3. Taken(m, 4, 32, 4) /\ Taken(s, 4, 40, 2)
      BY <1>4, <2>9
    <3>4. Data(m, 0) \in Chip /\ Taken(Data(m, 0), 4, 32, 4) /\ Data(m, 0).mask = 0
      BY <1>2, <1>5, <3>3, MaskWord
    <3>5. pics' \in [Chips -> Chip] /\ pics'["master"] = Data(m, 0) /\ pics'["slave"] = s
      BY <1>2, <1>5, <3>2, <3>4 DEF Chips
    <3> QED BY <2>9, <3>3, <3>4, <3>5
  <2>10. CASE writes = 9
    <3>1. w = To("slave", "data", 0)
      BY <2>10, PicWritesAre
    <3>2. pics' = [pics EXCEPT !["slave"] = Data(s, 0)]
      BY <1>1, <3>1 DEF Write, To
    <3>3. Taken(s, 4, 40, 2) /\ Taken(m, 4, 32, 4)
      BY <1>4, <2>10
    <3>4. Data(s, 0) \in Chip /\ Taken(Data(s, 0), 4, 40, 2) /\ Data(s, 0).mask = 0
      BY <1>2, <1>5, <3>3, MaskWord
    <3>5. pics' \in [Chips -> Chip] /\ pics'["slave"] = Data(s, 0) /\ pics'["master"] = m
      BY <1>2, <1>5, <3>2, <3>4 DEF Chips
    <3> QED BY <2>10, <3>3, <3>4, <3>5
  <2>11. CASE writes = 10
    <3>1. w = To("master", "data", 255)
      BY <2>11, PicWritesAre
    <3>2. pics' = [pics EXCEPT !["master"] = Data(m, 255)]
      BY <1>1, <3>1 DEF Write, To
    <3>3. Taken(m, 4, 32, 4) /\ Taken(s, 4, 40, 2)
      BY <1>4, <2>11
    <3>4. Data(m, 255) \in Chip /\ Taken(Data(m, 255), 4, 32, 4) /\ Data(m, 255).mask = 255
      BY <1>2, <1>5, <3>3, MaskWord
    <3>5. pics' \in [Chips -> Chip] /\ pics'["master"] = Data(m, 255) /\ pics'["slave"] = s
      BY <1>2, <1>5, <3>2, <3>4 DEF Chips
    <3> QED BY <2>11, <3>3, <3>4, <3>5
  <2>12. CASE writes = 11
    <3>1. w = To("slave", "data", 255)
      BY <2>12, PicWritesAre
    <3>2. pics' = [pics EXCEPT !["slave"] = Data(s, 255)]
      BY <1>1, <3>1 DEF Write, To
    <3>3. Taken(s, 4, 40, 2) /\ Taken(m, 4, 32, 4)
      BY <1>4, <2>12
    <3>4. Data(s, 255) \in Chip /\ Taken(Data(s, 255), 4, 40, 2) /\ Data(s, 255).mask = 255
      BY <1>2, <1>5, <3>3, MaskWord
    <3>5. pics' \in [Chips -> Chip] /\ pics'["slave"] = Data(s, 255) /\ pics'["master"] = m
      BY <1>2, <1>5, <3>2, <3>4 DEF Chips
    <3> QED BY <1>4, <2>12, <3>3, <3>4, <3>5
  <2> QED BY <1>2, <2>1, <2>2, <2>3, <2>4, <2>5, <2>6, <2>7, <2>8, <2>9, <2>10, <2>11, <2>12
<1>7. BootTypeOK'
  BY <1>1, <1>2, <1>6 DEF IInv, BootTypeOK
<1>8. Addresses' /\ Tabled' /\ MbiKept'
  BY <1>1, <1>3 DEF IInv, Addresses, Tabled, MbiKept
<1>9. Programmed'
  BY <1>1, <1>2, <1>6 DEF Programmed
<1> QED BY <1>3, <1>7, <1>8, <1>9 DEF IInv

\* Interrupts are enabled after the last byte, and pic_eio leaves the masks.
LEMMA StiKeeps == IInv /\ Sti => IInv'
<1> SUFFICES ASSUME IInv, Sti PROVE IInv'
  OBVIOUS
<1>1. /\ pc = "kmain" /\ pc' = "sti" /\ writes = 12
      /\ UNCHANGED <<vars, cpu, stack, gdt, idt, stubs, magic, pics, writes>>
  BY PicWritesAre DEF Sti, InKmain
<1>2. Inv' /\ cr3' = cr3
  BY <1>1, InvStutter DEF IInv, vars
<1>3. BootTypeOK'
  BY <1>1 DEF IInv, BootTypeOK, PcAll
<1>4. Addresses'
  BY <1>1, <1>2 DEF IInv, Addresses, PcUnpaged, PcHighEip, PcHighEsp, PcNew
<1>5. Tabled'
  BY <1>1 DEF IInv, Tabled, PcNoIdtr, PcNoIdt, PcNoSegs, PcNoGdtr, PcNoGdt, PcUnpaged
<1>6. MbiKept'
  BY <1>1 DEF IInv, MbiKept, PcSaved, PcRestored
<1>7. Programmed'
  BY <1>1 DEF IInv, Programmed
<1> QED BY <1>2, <1>3, <1>4, <1>5, <1>6, <1>7 DEF IInv

\* An EOI leaves both chips as they are.
LEMMA DefaultHandlerKeeps ==
    ASSUME NEW v \in 32 .. 47, IInv, DefaultHandler(v)
    PROVE  IInv'
<1>1. pics \in [Chips -> Chip] /\ "master" \in Chips /\ "slave" \in Chips /\ 32 \in 0 .. 255
  BY DEF IInv, BootTypeOK, Chips
<1>2. \A k \in Chips : Write(pics, To(k, "command", 32)) = pics
  <2> SUFFICES ASSUME NEW k \in Chips PROVE Write(pics, To(k, "command", 32)) = pics
    OBVIOUS
  <2>1. Write(pics, To(k, "command", 32)) = [pics EXCEPT ![k] = Command(pics[k], 32)]
    BY <1>1, WriteEffect
  <2>2. Command(pics[k], 32) = pics[k]
    BY <1>1, ChipTakes
  <2> QED BY <1>1, <2>1, <2>2
<1>3. PicEio(pics, v) = pics
  BY <1>1, <1>2 DEF PicEio
<1>4. UNCHANGED <<vars, bootVars>>
  BY <1>3 DEF DefaultHandler, InKmain, bootVars
<1> QED BY <1>4, StutterKeeps

-----------------------------------------------------------------------------
(* The theorems.                                                           *)

\* Every state of the boot path satisfies the invariant.
THEOREM BootInvariance == BootSpec => []IInv
<1>1. IInv /\ [BootNext]_<<vars, bootVars>> => IInv'
  <2> SUFFICES ASSUME IInv, [BootNext]_<<vars, bootVars>> PROVE IInv'
    OBVIOUS
  <2>1. CASE EntryStack \/ SaveArguments \/ EntryInitPaging
    BY <2>1, EntryStackKeeps, SaveArgumentsKeeps, EntryInitPagingKeeps
  <2>2. CASE GdtGates \/ Lgdt \/ GdtFlush \/ GdtReturn
    BY <2>2, GdtGatesKeeps, LgdtKeeps, GdtFlushKeeps, GdtReturnKeeps
  <2>3. CASE IdtGates \/ Lidt \/ RestoreArguments
    BY <2>3, IdtGatesKeeps, LidtKeeps, RestoreArgumentsKeeps
  <2>4. CASE LongJump \/ RaiseStack \/ CallPagingInit \/ CallKmain
    BY <2>4, LongJumpKeeps, RaiseStackKeeps, CallPagingInitKeeps, CallKmainKeeps
  <2>5. CASE PicWrite \/ Sti
    BY <2>5, PicWriteKeeps, StiKeeps
  <2>6. CASE \E v \in 32 .. 47 : DefaultHandler(v)
    BY <2>6, DefaultHandlerKeeps
  <2>7. CASE UNCHANGED <<vars, bootVars>>
    BY <2>7, StutterKeeps
  <2> QED BY <2>1, <2>2, <2>3, <2>4, <2>5, <2>6, <2>7 DEF BootNext
<1> QED BY <1>1, Starts, PTL DEF BootSpec

\* Whatever the size of the page tables and the place of the kernel, code and
\* stack are mapped where they are used at every step from CR0.PG on.
THEOREM AlwaysMapped == BootSpec => []RunsMapped
  BY BootInvariance, MappedByInvariant, PTL

\* Every segment register always names a flat descriptor of its kind, and the
\* limit of lgdt, one byte too large, still makes no further selector valid.
THEOREM SegmentsStayUsable == BootSpec => []SegmentsUsable
  BY BootInvariance, SegmentsByInvariant, PTL

\* Wherever the linker puts the stubs, every exception from lidt on is
\* delivered to its own, with one error code on the frame.
THEOREM AlwaysDelivered == BootSpec => []ExceptionsDelivered
  BY BootInvariance, GatesByInvariant, PTL

\* kmain is called with the address of the loader's information structure.
THEOREM MbiArrives == BootSpec => []MbiReachesKmain
  BY BootInvariance, MbiByInvariant, PTL

\* With interrupts on, both 8259A are programmed and silent, however many
\* EOIs the default handler sends them.
THEOREM PicsStayQuiet == BootSpec => []PicsQuiet
  BY BootInvariance, PicsByInvariant, PTL

=============================================================================
