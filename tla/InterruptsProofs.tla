-------------------------- MODULE InterruptsProofs --------------------------
(***************************************************************************)
(* Proofs about Interrupts: at most one interrupt handler is on the stack,  *)
(* so each EOI retires its own vector, and the printk buffers fit.          *)
(***************************************************************************)
EXTENDS Interrupts, TLAPS, FiniteSetTheorems, SequenceTheorems

IsIrq(i) == stack[i].kind = "irq"

\* At most one interrupt handler is on the stack,
OneIrq == \A i, j \in DOMAIN stack : IsIrq(i) /\ IsIrq(j) => i = j

\* interrupts are disabled while there is one,
IrqMasks == ifl => \A i \in DOMAIN stack : ~IsIrq(i)

\* and none lies below a frame that will enable them on its return.
SavedClean ==
    \A i, j \in DOMAIN stack : j < i /\ stack[i].saved => ~IsIrq(j)

\* The depth: kmain, the exceptions, and the one handler.
Shallow ==
    /\ Len(stack) <= 2 + excs
    /\ (\A i \in DOMAIN stack : ~IsIrq(i)) => Len(stack) <= 1 + excs

Shape == OneIrq /\ IrqMasks /\ SavedClean /\ Shallow /\ InServiceIsRunning

IInv == TypeOK /\ Shape

-----------------------------------------------------------------------------
(* The programs.                                                            *)

\* No handler enables interrupts or changes the set-up, and none writes a second EOI.
LEMMA HandlerOps ==
    ASSUME NEW h \in Handlers, NEW k \in 1 .. Len(HandlerProgram(h))
    PROVE  /\ HandlerProgram(h)[k] \in {"print", "printMaybe", "eoi", "status"}
           /\ Len(HandlerProgram(h)) \in 1 .. 3
           /\ HandlerProgram(h)[k] = "eoi" =>
                 \A m \in k + 1 .. Len(HandlerProgram(h)) : HandlerProgram(h)[m] # "eoi"
<1>1. CASE h = "default"
  BY <1>1 DEF HandlerProgram
<1>2. CASE h = "i8042"
  BY <1>2 DEF HandlerProgram
<1>3. CASE h = "kbd"
  BY <1>3 DEF HandlerProgram
<1>4. CASE h = "mouse"
  BY <1>4 DEF HandlerProgram
<1>5. CASE h = "power"
  BY <1>5 DEF HandlerProgram
<1> QED BY <1>1, <1>2, <1>3, <1>4, <1>5 DEF Handlers

\* Every handler writes an EOI.
LEMMA HandlerHasEoi ==
    ASSUME NEW h \in Handlers
    PROVE  \E k \in 1 .. Len(HandlerProgram(h)) : HandlerProgram(h)[k] = "eoi"
<1>1. CASE h \in {"i8042", "kbd", "mouse"}
  <2>1. 1 \in 1 .. Len(HandlerProgram(h)) /\ HandlerProgram(h)[1] = "eoi"
    BY <1>1 DEF HandlerProgram
  <2> QED BY <2>1
<1>2. CASE h = "default"
  <2>1. 2 \in 1 .. Len(HandlerProgram(h)) /\ HandlerProgram(h)[2] = "eoi"
    BY <1>2 DEF HandlerProgram
  <2> QED BY <2>1
<1>3. CASE h = "power"
  <2>1. 3 \in 1 .. Len(HandlerProgram(h)) /\ HandlerProgram(h)[3] = "eoi"
    BY <1>3 DEF HandlerProgram
  <2> QED BY <2>1
<1> QED BY <1>1, <1>2, <1>3 DEF Handlers

\* kmain writes no EOI.
LEMMA BootHasNoEoi ==
    ASSUME NEW k \in 1 .. Len(Boot)
    PROVE  Boot[k] # "eoi"
<1>1. Len(Boot) = 27
  BY DEF Boot
<1>2. CASE k \in 1 .. 8
  BY <1>2 DEF Boot
<1>3. CASE k \in 9 .. 18
  BY <1>3 DEF Boot
<1>4. CASE k \in 19 .. 27
  BY <1>4 DEF Boot
<1> QED BY <1>1, <1>2, <1>3, <1>4

\* The frame that runs an operation of kmain's own is the only one.
LEMMA MainRunsAlone ==
    ASSUME TypeOK, NEW op, Runs(op),
           op \notin {"print", "printMaybe", "eoi", "status", "cli"}
    PROVE  Len(stack) = 1 /\ Top.kind = "main"
<1>1. Depth \in DOMAIN stack /\ Top \in FrameType /\ DOMAIN stack = 1 .. Len(stack)
  BY DEF TypeOK, StackType, Depth, Top
<1>2. Top.kind # "irq"
  BY <1>1, HandlerOps DEF TypeOK, StackType, Runs, Program, Top
<1>3. Top.kind # "exc"
  BY <1>1 DEF TypeOK, StackType, Runs, Program, Panic
<1> QED BY <1>1, <1>2, <1>3 DEF TypeOK, StackType, FrameType, Kinds, Top, Depth

-----------------------------------------------------------------------------
(* Steps inside the running frame.                                          *)

\* The frames stay, and so does what they owe.
SameShape ==
    /\ stack' \in Seq(FrameType) /\ Len(stack') = Len(stack)
    /\ \A i \in DOMAIN stack :
          /\ stack'[i].kind = stack[i].kind /\ stack'[i].code = stack[i].code
          /\ stack'[i].vec = stack[i].vec /\ stack'[i].saved = stack[i].saved

SameDebts == \A i \in DOMAIN stack : Owes(stack'[i]) <=> Owes(stack[i])

\* The stack is a nonempty sequence of frames.
LEMMA Domains ==
    ASSUME TypeOK
    PROVE  /\ DOMAIN stack = 1 .. Len(stack) /\ Len(stack) \in Nat \ {0}
           /\ Depth \in DOMAIN stack /\ Top \in FrameType
           /\ \A i \in DOMAIN stack : stack[i] \in FrameType
<1>1. stack \in Seq(FrameType) /\ stack # << >>
  BY DEF TypeOK, StackType
<1>2. Len(stack) \in Nat \ {0} /\ DOMAIN stack = 1 .. Len(stack)
  BY <1>1
<1> QED BY <1>1, <1>2 DEF Depth, Top

\* A frame that goes on to its next operation changes nothing else.
LEMMA MovedFrame ==
    ASSUME NEW f \in FrameType
    PROVE  /\ Moved(f) \in FrameType /\ Moved(f).at = f.at + 1
           /\ Moved(f).kind = f.kind /\ Moved(f).code = f.code
           /\ Moved(f).vec = f.vec /\ Moved(f).saved = f.saved
<1>1. f.at + 1 \in Nat \ {0}
  BY DEF FrameType
<1>2. Moved(f) \in FrameType
  BY <1>1, Zenon DEF FrameType, Moved
<1>3. Moved(f).at = f.at + 1 /\ Moved(f).kind = f.kind /\ Moved(f).code = f.code
  BY SMT DEF FrameType, Moved
<1>4. Moved(f).vec = f.vec /\ Moved(f).saved = f.saved
  BY SMT DEF FrameType, Moved
<1> QED BY <1>2, <1>3, <1>4

\* Replacing the running frame by one of the same kind.
LEMMA Replaced ==
    ASSUME TypeOK, NEW f \in FrameType, stack' = [stack EXCEPT ![Depth] = f],
           f.kind = Top.kind, f.code = Top.code, f.vec = Top.vec, f.saved = Top.saved
    PROVE  /\ SameShape /\ stack'[Depth] = f
           /\ \A i \in DOMAIN stack \ {Depth} : stack'[i] = stack[i]
<1>1. DOMAIN stack = 1 .. Len(stack) /\ Depth \in DOMAIN stack
      /\ stack \in Seq(FrameType) /\ Top = stack[Depth]
  BY Domains DEF TypeOK, StackType, Top
<1>2. stack' \in Seq(FrameType) /\ Len(stack') = Len(stack)
  BY <1>1
<1>3. \A i \in DOMAIN stack : stack'[i] = IF i = Depth THEN f ELSE stack[i]
  BY <1>1
<1> QED BY <1>1, <1>2, <1>3, Zenon DEF SameShape

\* When the running frame moves on the frames below it stay.
LEMMA AdvanceShape ==
    ASSUME TypeOK, Advance
    PROVE  /\ SameShape
           /\ \A i \in DOMAIN stack \ {Depth} : stack'[i] = stack[i]
           /\ stack'[Depth].at = Top.at + 1
<1>1. Top \in FrameType
  BY Domains
<1> QED BY <1>1, MovedFrame, Replaced DEF Advance

\* Past any operation that is no EOI the same is owed.
LEMMA AdvanceDebts ==
    ASSUME TypeOK, Advance, NEW op, Runs(op), op # "eoi"
    PROVE  SameDebts
<1>1. /\ SameShape /\ stack'[Depth].at = Top.at + 1
      /\ \A i \in DOMAIN stack \ {Depth} : stack'[i] = stack[i]
  BY AdvanceShape
<1>2. /\ Program(stack'[Depth]) = Program(Top) /\ stack'[Depth].kind = Top.kind
      /\ Top.at \in 1 .. Len(Program(Top)) /\ Program(Top)[Top.at] # "eoi"
  BY <1>1, Domains DEF SameShape, Program, Top, Runs
<1>3. Owes(stack'[Depth]) <=> Owes(Top)
  BY <1>1, <1>2 DEF Owes
<1> QED BY <1>1, <1>3 DEF SameDebts, Top

\* A step that leaves the frames, their debts, the in-service register and the
\* interrupt flag keeps the shape of the stack.
LEMMA ShapeKept ==
    ASSUME TypeOK, Shape, SameShape, SameDebts,
           isr' = isr, ifl' \in BOOLEAN, ifl' => ifl, excs' = excs
    PROVE  Shape'
<1>1. DOMAIN stack' = DOMAIN stack /\ DOMAIN stack = 1 .. Len(stack)
  BY Domains DEF SameShape, TypeOK, StackType
<1>2. \A i \in DOMAIN stack :
          /\ stack'[i].kind = stack[i].kind /\ stack'[i].vec = stack[i].vec
          /\ stack'[i].saved = stack[i].saved /\ (Owes(stack'[i]) <=> Owes(stack[i]))
  BY DEF SameShape, SameDebts
<1>3. OneIrq' /\ IrqMasks' /\ SavedClean'
  <2>1. OneIrq' /\ IrqMasks'
    BY <1>1, <1>2 DEF Shape, OneIrq, IrqMasks, IsIrq
  <2>2. SavedClean'
    BY <1>1, <1>2, Zenon DEF Shape, SavedClean, IsIrq
  <2> QED BY <2>1, <2>2
<1>4. Shallow'
  BY <1>1, <1>2 DEF Shape, Shallow, IsIrq, SameShape
<1>5. InServiceIsRunning'
  <2>1. {j \in DOMAIN stack' : Owes(stack'[j])} = {j \in DOMAIN stack : Owes(stack[j])}
    BY <1>1, <1>2, Zenon
  <2>2. isr' = {stack'[i].vec : i \in {j \in DOMAIN stack' : Owes(stack'[j])}}
    BY <1>1, <1>2, <2>1 DEF Shape, InServiceIsRunning
  <2> QED BY <2>2 DEF InServiceIsRunning
<1> QED BY <1>3, <1>4, <1>5 DEF Shape

\* The part of the type invariant that speaks of the stack.
LEMMA StackTypeKept ==
    ASSUME TypeOK, SameShape
    PROVE  StackType'
<1>1. DOMAIN stack' = DOMAIN stack /\ Len(stack') # 0 /\ stack' \in Seq(FrameType)
  BY Domains DEF SameShape, TypeOK, StackType
<1>2. stack' # << >>
  BY <1>1
<1> QED BY <1>1, <1>2 DEF SameShape, TypeOK, StackType

\* A step past an operation that writes no EOI and enables no interrupts.
LEMMA AdvanceKeeps ==
    ASSUME IInv, Advance, NEW op, Runs(op), op # "eoi",
           isr' = isr, ifl' \in BOOLEAN, ifl' => ifl, excs' = excs
    PROVE  StackType' /\ Shape'
<1>1. SameShape /\ SameDebts
  BY AdvanceShape, AdvanceDebts DEF IInv
<1> QED BY <1>1, ShapeKept, StackTypeKept DEF IInv

\* The same with every register left alone.
LEMMA QuietAdvance ==
    ASSUME IInv, Advance, NEW op, Runs(op), op # "eoi",
           UNCHANGED <<ifl, isr, off, excs, events>>
    PROVE  StackType' /\ Shape'
BY AdvanceKeeps DEF IInv, TypeOK

\* A step that does not touch the stack.
LEMMA StackKept ==
    ASSUME IInv, stack' = stack, isr' = isr, excs' = excs,
           ifl' \in BOOLEAN, ifl' => ifl
    PROVE  StackType' /\ Shape'
<1>1. SameShape /\ SameDebts
  BY DEF IInv, TypeOK, StackType, SameShape, SameDebts
<1> QED BY <1>1, ShapeKept, StackTypeKept DEF IInv

-----------------------------------------------------------------------------
(* One lemma per group of actions.                                          *)

\* Entering and leaving printk, and a print not taken.
LEMMA PrintSteps ==
    ASSUME IInv, PrintEnter \/ PrintLeave \/ SkipPrint
    PROVE  IInv'
<1>1. CASE PrintEnter
  <2> DEFINE f == [Top EXCEPT !.printing = TRUE]
  <2>1. Top \in FrameType /\ TypeOK
    BY Domains DEF IInv
  <2>2. f \in FrameType
    BY <2>1, Zenon DEF FrameType
  <2>3. f.kind = Top.kind /\ f.code = Top.code /\ f.vec = Top.vec /\ f.at = Top.at
    BY <2>1, SMT DEF FrameType
  <2>4. f.saved = Top.saved
    BY <2>1, SMT DEF FrameType
  <2>5. stack' = [stack EXCEPT ![Depth] = f]
    BY <1>1 DEF PrintEnter
  <2> HIDE DEF f
  <2>6. /\ SameShape /\ stack'[Depth] = f
        /\ \A i \in DOMAIN stack \ {Depth} : stack'[i] = stack[i]
    BY <2>1, <2>2, <2>3, <2>4, <2>5, Replaced
  <2>7. Owes(f) <=> Owes(Top)
    BY <2>3 DEF Owes, Program
  <2>8. SameDebts
    BY <2>6, <2>7 DEF SameDebts, Top
  <2>9. UNCHANGED <<ifl, isr, excs, irr, open, lvt, handler, pm1, off, events>>
    BY <1>1 DEF PrintEnter, apic, setup, world
  <2>10. StackType' /\ Shape'
    BY <2>1, <2>6, <2>8, <2>9, ShapeKept, StackTypeKept DEF IInv, TypeOK
  <2> QED BY <2>1, <2>9, <2>10 DEF IInv, TypeOK
<1>2. CASE PrintLeave
  <2>1. UNCHANGED <<ifl, isr, excs, irr, open, lvt, handler, pm1, off, events>>
    BY <1>2 DEF PrintLeave, apic, setup, world
  <2>2. StackType' /\ Shape'
    BY <1>2, <2>1, QuietAdvance DEF PrintLeave
  <2> QED BY <2>1, <2>2 DEF IInv, TypeOK
<1>3. CASE SkipPrint
  <2>1. UNCHANGED <<ifl, isr, excs, irr, open, lvt, handler, pm1, off, events>>
    BY <1>3 DEF SkipPrint, apic, setup, world
  <2>2. StackType' /\ Shape'
    BY <1>3, <2>1, QuietAdvance DEF SkipPrint
  <2> QED BY <2>1, <2>2 DEF IInv, TypeOK
<1> QED BY <1>1, <1>2, <1>3

\* The initialisations but sti.
LEMMA SetupSteps ==
    ASSUME IInv,
           \/ LapicInit \/ IoapicInit \/ TimerConfig \/ EnablePower
           \/ SetPower \/ SetKbd \/ SetMouse
           \/ SetI8042(Kbd, "setI8042Kbd") \/ SetI8042(Mouse, "setI8042Mouse")
           \/ Mask(Kbd, "maskKbd") \/ Unmask(Kbd, "openKbd")
           \/ Mask(Mouse, "maskMouse") \/ Unmask(Mouse, "openMouse")
    PROVE  IInv'
<1> USE DEF apic, setup, world
<1>1. CASE LapicInit
  BY <1>1, QuietAdvance DEF LapicInit, IInv, TypeOK
<1>2. CASE IoapicInit
  BY <1>2, QuietAdvance DEF IoapicInit, IInv, TypeOK
<1>3. CASE TimerConfig
  BY <1>3, QuietAdvance DEF TimerConfig, IInv, TypeOK
<1>4. CASE EnablePower
  <2>1. StackType' /\ Shape'
    BY <1>4, QuietAdvance DEF EnablePower
  <2>2. pm1' \in [fixed : BOOLEAN, enabled : BOOLEAN, status : BOOLEAN]
    BY <1>4, Zenon DEF EnablePower, IInv, TypeOK
  <2>3. irr' \subseteq Vectors
    BY <1>4 DEF EnablePower, Request, IInv, TypeOK, Vectors
  <2> QED BY <1>4, <2>1, <2>2, <2>3 DEF EnablePower, IInv, TypeOK
<1>5. ASSUME NEW op, Runs(op), op # "eoi",
             NEW vs, NEW h \in Handlers, Set(vs, h)
      PROVE  IInv'
  BY <1>5, QuietAdvance DEF Set, IInv, TypeOK
<1>6. CASE \/ SetPower \/ SetKbd \/ SetMouse
           \/ SetI8042(Kbd, "setI8042Kbd") \/ SetI8042(Mouse, "setI8042Mouse")
  BY <1>5, <1>6 DEF SetPower, SetI8042, SetKbd, SetMouse, Handlers
<1>7. ASSUME NEW v \in Vectors, NEW op, op # "eoi", Mask(v, op) \/ Unmask(v, op)
      PROVE  IInv'
  BY <1>7, QuietAdvance DEF Mask, Unmask, IInv, TypeOK
<1>8. Kbd \in Vectors /\ Mouse \in Vectors
  BY DEF Vectors
<1> QED BY <1>1, <1>2, <1>3, <1>4, <1>6, <1>7, <1>8

\* kmain enables interrupts while it runs alone.
LEMMA StiStep ==
    ASSUME IInv, Sti
    PROVE  IInv'
<1>1. Runs("sti") /\ Advance /\ ifl' = TRUE
      /\ UNCHANGED <<irr, isr, open, lvt, handler, pm1, off, excs, events>>
  BY DEF Sti, apic, setup, world
<1>2. Len(stack) = 1 /\ DOMAIN stack = 1 .. Len(stack) /\ TypeOK
  BY <1>1, MainRunsAlone, Domains DEF IInv
<1>3. SameShape /\ SameDebts
  BY <1>1, AdvanceShape, AdvanceDebts DEF IInv
<1>4. DOMAIN stack' = {1} /\ Len(stack') = 1
  BY <1>2, <1>3 DEF SameShape
<1>5. StackType'
  BY <1>2, <1>3, StackTypeKept
<1>6. \A i \in DOMAIN stack' : stack'[i].kind # "irq"
  BY <1>4, <1>5 DEF StackType
<1>7. OneIrq' /\ IrqMasks' /\ SavedClean'
  BY <1>6 DEF OneIrq, IrqMasks, SavedClean, IsIrq
<1>8. Shallow'
  BY <1>1, <1>4, <1>2 DEF Shallow, TypeOK, RoomAssumption
<1>9. InServiceIsRunning'
  <2>1. {j \in DOMAIN stack' : Owes(stack'[j])} = {} /\ {j \in DOMAIN stack : Owes(stack[j])} = {}
    BY <1>2, <1>4, <1>6, <1>3 DEF Owes, SameShape
  <2> QED BY <1>1, <2>1 DEF IInv, Shape, InServiceIsRunning
<1> QED BY <1>1, <1>2, <1>5, <1>7, <1>8, <1>9 DEF IInv, Shape, TypeOK

\* An EOI is written by the one interrupt handler on the stack, whose vector is
\* the one in service.
LEMMA EoiStep ==
    ASSUME IInv, Eoi
    PROVE  IInv'
<1>1. /\ Runs("eoi") /\ Advance
      /\ isr' = IF isr = {} THEN {} ELSE isr \ {Highest(isr)}
      /\ UNCHANGED <<ifl, irr, open, lvt, handler, pm1, off, excs, events>>
  BY DEF Eoi, apic, setup, world
<1>2. /\ TypeOK /\ DOMAIN stack = 1 .. Len(stack) /\ Depth \in DOMAIN stack
      /\ Top \in FrameType /\ Top = stack[Depth]
  BY Domains DEF IInv, Top
<1>3. Top.kind = "irq"
  <2>1. Top.kind # "exc"
    BY <1>1 DEF Runs, Program, Panic
  <2>2. Top.kind # "main"
    BY <1>1, BootHasNoEoi DEF Runs, Program
  <2> QED BY <1>2, <2>1, <2>2 DEF FrameType, Kinds
<1>4. /\ Top.code \in Handlers /\ Top.vec \in Vectors
      /\ Program(Top) = HandlerProgram(Top.code)
  BY <1>2, <1>3 DEF TypeOK, StackType, Program
<1>5. /\ SameShape /\ stack'[Depth].at = Top.at + 1
      /\ \A i \in DOMAIN stack \ {Depth} : stack'[i] = stack[i]
  BY <1>1, <1>2, AdvanceShape
<1>6. \A i \in DOMAIN stack \ {Depth} : stack[i].kind # "irq"
  BY <1>2, <1>3 DEF IInv, Shape, OneIrq, IsIrq
<1>7. isr = {Top.vec}
  <2>1. Owes(Top)
    BY <1>1, <1>2, <1>3 DEF Owes, Runs, FrameType
  <2>2. {j \in DOMAIN stack : Owes(stack[j])} = {Depth}
    BY <1>2, <1>6, <2>1 DEF Owes
  <2> QED BY <1>2, <2>2 DEF IInv, Shape, InServiceIsRunning
<1>8. isr' = {}
  <2>1. Highest(isr) = Top.vec
    <3>1. \E v \in isr : \A w \in isr : w <= v
      BY <1>4, <1>7 DEF Vectors, Timer, Kbd, Sci, Mouse
    <3>2. Highest(isr) \in isr
      BY <3>1 DEF Highest
    <3> QED BY <1>7, <3>2
  <2> QED BY <1>1, <1>7, <2>1
<1>9. \A i \in DOMAIN stack' : ~Owes(stack'[i])
  <2>1. DOMAIN stack' = DOMAIN stack
    BY <1>2, <1>5 DEF SameShape
  <2>2. \A i \in DOMAIN stack \ {Depth} : ~Owes(stack'[i])
    BY <1>5, <1>6 DEF Owes
  <2>3. Program(stack'[Depth]) = HandlerProgram(Top.code)
    BY <1>2, <1>3, <1>5 DEF SameShape, Program
  <2>4. Top.at \in 1 .. Len(HandlerProgram(Top.code)) /\ HandlerProgram(Top.code)[Top.at] = "eoi"
    BY <1>1, <1>4 DEF Runs
  <2>5. \A m \in Top.at + 1 .. Len(HandlerProgram(Top.code)) :
            HandlerProgram(Top.code)[m] # "eoi"
    BY <1>4, <2>4, HandlerOps
  <2>6. ~Owes(stack'[Depth])
    BY <1>5, <2>3, <2>5 DEF Owes
  <2> QED BY <2>1, <2>2, <2>6
<1>10. StackType'
  BY <1>2, <1>5, StackTypeKept
<1>11. InServiceIsRunning'
  BY <1>8, <1>9 DEF InServiceIsRunning
<1>12. OneIrq' /\ IrqMasks' /\ Shallow'
  BY <1>1, <1>2, <1>5 DEF SameShape, IInv, Shape, OneIrq, IrqMasks, Shallow, IsIrq
<1>13. SavedClean'
  <2>1. DOMAIN stack' = DOMAIN stack
    BY <1>2, <1>5 DEF SameShape
  <2> QED BY <1>5, <2>1, Zenon DEF SameShape, IInv, Shape, SavedClean, IsIrq
<1> QED BY <1>1, <1>2, <1>8, <1>10, <1>11, <1>12, <1>13 DEF IInv, Shape, TypeOK

\* The ways to stop, and the test that may lead there.
LEMMA StopSteps ==
    ASSUME IInv, TestStatus \/ PanicHalt
    PROVE  IInv'
<1> USE DEF apic, setup, world
<1>1. CASE PanicHalt
  BY <1>1, StackKept DEF PanicHalt, IInv, TypeOK
<1>2. CASE TestStatus /\ pm1.status
  BY <1>2, StackKept DEF TestStatus, IInv, TypeOK
<1>3. CASE TestStatus /\ ~pm1.status
  BY <1>3, QuietAdvance DEF TestStatus, IInv, TypeOK
<1> QED BY <1>1, <1>2, <1>3

\* Devices touch requests and the power button only.
LEMMA DeviceSteps ==
    ASSUME IInv, NEW v \in Vectors, Edge(v) \/ Period \/ Press
    PROVE  IInv'
<1> USE DEF apic, setup, world
<1>0. UNCHANGED <<stack, ifl, isr, excs>>
  BY DEF Edge, Period, Press
<1>1. StackType' /\ Shape'
  BY <1>0, StackKept DEF IInv, TypeOK
<1>2. irr' \subseteq Vectors
  BY DEF Edge, Period, Press, Request, IInv, TypeOK, Vectors
<1>3. events' \in 0 .. MaxEvents
  <2>1. events < MaxEvents /\ events' = events + 1
    BY DEF Edge, Period, Press
  <2> QED BY <2>1, RoomAssumption DEF IInv, TypeOK
<1>4. pm1' \in [fixed : BOOLEAN, enabled : BOOLEAN, status : BOOLEAN]
  <2>1. CASE Press
    BY <2>1, Zenon DEF Press, IInv, TypeOK
  <2>2. CASE Edge(v) \/ Period
    BY <2>2 DEF Edge, Period, IInv, TypeOK
  <2> QED BY <2>1, <2>2
<1>5. UNCHANGED <<ifl, isr, open, lvt, handler, off, excs>>
  BY DEF Edge, Period, Press
<1> QED BY <1>1, <1>2, <1>3, <1>4, <1>5 DEF IInv, TypeOK

\* What an interrupt, an exception or the start pushes is a frame.
LEMMA NewFrame ==
    ASSUME NEW k \in Kinds, NEW c \in Codes, NEW v \in Vectors \cup {0}, NEW b \in BOOLEAN
    PROVE  Frame(k, c, v, b) \in FrameType
<1>1. 1 \in Nat \ {0}
  OBVIOUS
<1>2. FALSE \in BOOLEAN
  OBVIOUS
<1> QED BY <1>1, <1>2, Zenon DEF Frame, FrameType

\* A new frame on top of the others.
LEMMA Pushed ==
    ASSUME TypeOK, NEW f \in FrameType, stack' = Append(stack, f), f.kind # "main",
           f.kind = "irq" => f.code \in Handlers /\ f.vec \in Vectors
    PROVE  /\ Len(stack') = Len(stack) + 1 /\ stack'[Len(stack) + 1] = f
           /\ DOMAIN stack' = DOMAIN stack \cup {Len(stack) + 1}
           /\ Len(stack) + 1 \notin DOMAIN stack
           /\ \A i \in DOMAIN stack : stack'[i] = stack[i]
           /\ StackType'
<1>1. DOMAIN stack = 1 .. Len(stack) /\ Len(stack) \in Nat \ {0} /\ stack \in Seq(FrameType)
  BY Domains DEF TypeOK, StackType
<1>2. stack' \in Seq(FrameType) /\ Len(stack') = Len(stack) + 1 /\ stack'[Len(stack) + 1] = f
  BY <1>1
<1>3. DOMAIN stack' = DOMAIN stack \cup {Len(stack) + 1} /\ Len(stack) + 1 \notin DOMAIN stack
  BY <1>1, <1>2
<1>4. \A i \in DOMAIN stack : stack'[i] = stack[i]
  BY <1>1
<1>5. stack' # << >>
  BY <1>1, <1>2
<1>6. StackType'
  BY <1>1, <1>2, <1>3, <1>4, <1>5 DEF TypeOK, StackType
<1> QED BY <1>2, <1>3, <1>4, <1>6

\* An interrupt is taken when none is being handled.
LEMMA DispatchStep ==
    ASSUME IInv, Dispatch
    PROVE  IInv'
<1> DEFINE v == Highest(irr)
           f == Frame("irq", handler[v], v, ifl)
           n == Len(stack) + 1
<1>1. /\ ifl /\ irr # {} /\ stack' = Append(stack, f)
      /\ irr' = irr \ {v} /\ isr' = isr \cup {v} /\ ifl' = FALSE
      /\ UNCHANGED <<open, lvt, handler, pm1, off, excs, events>>
  BY DEF Dispatch, IfInInterruptGate, setup, world
<1>2. v \in Vectors
  <2>1. irr \subseteq Int /\ irr \subseteq Vectors
    BY DEF IInv, TypeOK, Vectors, Timer, Kbd, Sci, Mouse
  <2>2. \E x \in irr : \A w \in irr : w <= x
    <3>2. CASE Mouse \in irr
      BY <2>1, <3>2 DEF Vectors, Timer, Kbd, Sci, Mouse
    <3>3. CASE Mouse \notin irr /\ Sci \in irr
      BY <2>1, <3>3 DEF Vectors, Timer, Kbd, Sci, Mouse
    <3>4. CASE Mouse \notin irr /\ Sci \notin irr /\ Kbd \in irr
      BY <2>1, <3>4 DEF Vectors, Timer, Kbd, Sci, Mouse
    <3>5. CASE irr \subseteq {Timer}
      <4>1. irr = {Timer}
        BY <1>1, <3>5
      <4> QED BY <4>1 DEF Timer
    <3> QED BY <2>1, <3>2, <3>3, <3>4, <3>5 DEF Vectors
  <2>3. v \in irr
    BY <2>2 DEF Highest
  <2> QED BY <2>1, <2>3
<1>3. handler[v] \in Handlers /\ ifl \in BOOLEAN /\ TypeOK
  BY <1>2 DEF IInv, TypeOK
<1>4. f \in FrameType
  BY <1>2, <1>3, NewFrame, Zenon DEF Kinds, Codes
<1>5. f.kind = "irq" /\ f.code = handler[v] /\ f.vec = v /\ f.at = 1
  BY DEF Frame
<1>6. f.saved = ifl
  BY DEF Frame
<1>7. \A i \in DOMAIN stack : stack[i].kind # "irq"
  BY <1>1 DEF IInv, Shape, IrqMasks, IsIrq
<1>8. Owes(f)
  <2>1. \E k \in 1 .. Len(HandlerProgram(handler[v])) :
            HandlerProgram(handler[v])[k] = "eoi"
    BY <1>3, HandlerHasEoi
  <2> HIDE DEF f, v
  <2> QED BY <1>5, <2>1 DEF Owes, Program
<1> HIDE DEF f, v
<1>9. /\ Len(stack') = n /\ stack'[n] = f /\ DOMAIN stack' = DOMAIN stack \cup {n}
      /\ n \notin DOMAIN stack /\ StackType'
      /\ \A i \in DOMAIN stack : stack'[i] = stack[i]
  BY <1>1, <1>2, <1>3, <1>4, <1>5, Pushed
<1> HIDE DEF n
<1>10. OneIrq' /\ IrqMasks'
  BY <1>1, <1>7, <1>9 DEF OneIrq, IrqMasks, IsIrq
<1>11. SavedClean'
  <2>1. DOMAIN stack = 1 .. Len(stack) /\ n = Len(stack) + 1 /\ Len(stack) \in Nat
    BY <1>3, Domains DEF n
  <2>2. \A i, j \in DOMAIN stack' : j < i => j \in DOMAIN stack
    BY <1>9, <2>1
  <2> QED BY <1>7, <1>9, <2>2 DEF SavedClean, IsIrq
<1>12. Shallow'
  <2>1. Len(stack) <= 1 + excs
    BY <1>7 DEF IInv, Shape, Shallow, IsIrq
  <2>2. Len(stack) \in Nat /\ excs \in Nat /\ Len(stack') = Len(stack) + 1
    BY <1>3, <1>9, Domains DEF TypeOK, n
  <2>3. ~ \A i \in DOMAIN stack' : stack'[i].kind # "irq"
    BY <1>5, <1>9
  <2> QED BY <1>1, <2>1, <2>2, <2>3 DEF Shallow, IsIrq
<1>13. InServiceIsRunning'
  <2>1. {j \in DOMAIN stack : Owes(stack[j])} = {}
    BY <1>7 DEF Owes
  <2>2. isr = {}
    BY <2>1 DEF IInv, Shape, InServiceIsRunning
  <2>3. {j \in DOMAIN stack' : Owes(stack'[j])} = {n}
    BY <1>7, <1>8, <1>9 DEF Owes
  <2>4. {stack'[i].vec : i \in {n}} = {v}
    BY <1>5, <1>9
  <2> QED BY <1>1, <2>2, <2>3, <2>4 DEF InServiceIsRunning
<1> QED BY <1>1, <1>2, <1>3, <1>9, <1>10, <1>11, <1>12, <1>13 DEF IInv, Shape, TypeOK

\* An exception may be taken anywhere; its frame brings no enabled interrupts
\* back that were not enabled.
LEMMA ExceptionStep ==
    ASSUME IInv, Exception
    PROVE  IInv'
<1> DEFINE f == Frame("exc", "panic", 0, ifl)
           n == Len(stack) + 1
<1>1. /\ excs < MaxExc /\ excs' = excs + 1 /\ stack' = Append(stack, f)
      /\ UNCHANGED <<ifl, irr, isr, open, lvt, handler, pm1, off, events>>
  BY DEF Exception, apic, setup
<1>2. ifl \in BOOLEAN /\ TypeOK
  BY DEF IInv, TypeOK
<1>3. f \in FrameType
  BY <1>2, NewFrame, Zenon DEF Kinds, Codes
<1>4. f.kind = "exc"
  BY DEF Frame
<1>5. f.saved = ifl
  BY DEF Frame
<1> HIDE DEF f
<1>6. /\ Len(stack') = n /\ stack'[n] = f /\ DOMAIN stack' = DOMAIN stack \cup {n}
      /\ n \notin DOMAIN stack /\ StackType'
      /\ \A i \in DOMAIN stack : stack'[i] = stack[i]
  BY <1>1, <1>2, <1>3, <1>4, Pushed
<1>7. DOMAIN stack = 1 .. Len(stack) /\ n = Len(stack) + 1 /\ Len(stack) \in Nat
  BY <1>2, Domains
<1> HIDE DEF n
<1>8. OneIrq' /\ IrqMasks'
  BY <1>1, <1>4, <1>6 DEF IInv, Shape, OneIrq, IrqMasks, IsIrq
<1>9. SavedClean'
  <2>1. SUFFICES ASSUME NEW i \in DOMAIN stack', NEW j \in DOMAIN stack', j < i,
                        stack'[i].saved
                 PROVE  stack'[j].kind # "irq"
    BY DEF SavedClean, IsIrq
  <2>2. j \in DOMAIN stack
    BY <1>6, <1>7, <2>1
  <2>3. CASE i = n
    BY <1>5, <1>6, <2>1, <2>2, <2>3 DEF IInv, Shape, IrqMasks, IsIrq
  <2>4. CASE i # n
    BY <1>6, <2>1, <2>2, <2>4 DEF IInv, Shape, SavedClean, IsIrq
  <2> QED BY <2>3, <2>4
<1>10. excs' \in 0 .. MaxExc
  BY <1>1, <1>2, RoomAssumption DEF TypeOK
<1>11. Shallow'
  BY <1>1, <1>2, <1>6, <1>7 DEF IInv, Shape, Shallow, IsIrq, TypeOK
<1>12. InServiceIsRunning'
  <2>1. {j \in DOMAIN stack' : Owes(stack'[j])} = {j \in DOMAIN stack : Owes(stack[j])}
    BY <1>4, <1>6 DEF Owes
  <2>2. {stack'[i].vec : i \in {j \in DOMAIN stack' : Owes(stack'[j])}}
         = {stack[i].vec : i \in {j \in DOMAIN stack : Owes(stack[j])}}
    BY <1>6, <2>1
  <2> QED BY <1>1, <2>2 DEF IInv, Shape, InServiceIsRunning
<1> QED BY <1>1, <1>2, <1>6, <1>8, <1>9, <1>10, <1>11, <1>12 DEF IInv, Shape, TypeOK

\* A handler that returns owes no EOI, and enables interrupts only if there is
\* no interrupt handler below it.
LEMMA IretStep ==
    ASSUME IInv, Iret
    PROVE  IInv'
<1>1. /\ Top.kind # "main" /\ Top.at = Len(Program(Top)) + 1
      /\ stack' = SubSeq(stack, 1, Depth - 1) /\ ifl' = Top.saved
      /\ UNCHANGED <<irr, isr, open, lvt, handler, pm1, off, excs, events>>
  BY DEF Iret, Unwind, apic, setup, world
<1>2. /\ TypeOK /\ DOMAIN stack = 1 .. Len(stack) /\ Len(stack) \in Nat \ {0}
      /\ Depth \in DOMAIN stack /\ Top \in FrameType /\ Top = stack[Depth]
      /\ Depth = Len(stack) /\ stack \in Seq(FrameType)
  BY Domains DEF IInv, TypeOK, StackType, Top, Depth
<1>3. Depth > 1
  BY <1>1, <1>2 DEF TypeOK, StackType
<1>4. /\ stack' \in Seq(FrameType) /\ Len(stack') = Len(stack) - 1
      /\ \A i \in 1 .. Len(stack) - 1 : stack'[i] = stack[i]
  BY <1>1, <1>2, <1>3
<1>5. /\ DOMAIN stack' = 1 .. Len(stack) - 1 /\ stack' # << >>
      /\ DOMAIN stack = DOMAIN stack' \cup {Depth} /\ Depth \notin DOMAIN stack'
  BY <1>2, <1>3, <1>4
<1>6. \A i \in DOMAIN stack' : i \in DOMAIN stack /\ i < Depth /\ stack'[i] = stack[i]
  BY <1>2, <1>4, <1>5
<1>7. StackType'
  BY <1>2, <1>4, <1>5, <1>6 DEF TypeOK, StackType
<1>8. ifl' \in BOOLEAN
  BY <1>1, <1>2 DEF FrameType
<1>9. OneIrq' /\ SavedClean'
  BY <1>6 DEF IInv, Shape, OneIrq, SavedClean, IsIrq
<1>10. IrqMasks'
  BY <1>1, <1>2, <1>6 DEF IInv, Shape, SavedClean, IrqMasks, IsIrq
<1>11. Shallow'
  <2>1. excs \in Nat /\ Len(stack) <= 2 + excs
    BY <1>2 DEF IInv, Shape, Shallow, TypeOK
  <2> QED BY <1>1, <1>2, <1>4, <2>1 DEF Shallow
<1>12. InServiceIsRunning'
  <2>1. Len(Program(Top)) \in Nat
    <3>1. CASE Top.kind = "irq"
      <4>1. Top.code \in Handlers
        BY <1>2, <3>1 DEF TypeOK, StackType
      <4> QED BY <3>1, <4>1 DEF Program, HandlerProgram, Handlers
    <3>2. CASE Top.kind = "exc"
      BY <3>2 DEF Program, Panic
    <3> QED BY <1>1, <1>2, <3>1, <3>2 DEF FrameType, Kinds
  <2>2. ~Owes(stack[Depth])
    BY <1>1, <1>2, <2>1 DEF Owes
  <2>3. {j \in DOMAIN stack' : Owes(stack'[j])} = {j \in DOMAIN stack : Owes(stack[j])}
    BY <1>5, <1>6, <2>2
  <2>4. {stack'[i].vec : i \in {j \in DOMAIN stack' : Owes(stack'[j])}}
         = {stack[i].vec : i \in {j \in DOMAIN stack : Owes(stack[j])}}
    BY <1>6, <2>3
  <2> QED BY <1>1, <2>4 DEF IInv, Shape, InServiceIsRunning
<1> QED BY <1>1, <1>2, <1>7, <1>8, <1>9, <1>10, <1>11, <1>12 DEF IInv, Shape, TypeOK

-----------------------------------------------------------------------------

\* kmain starts alone on the stack, with interrupts disabled.
LEMMA InitHolds == Init => IInv
<1> SUFFICES ASSUME Init PROVE IInv
  OBVIOUS
<1> DEFINE f == Frame("main", "kmain", 0, FALSE)
<1>1. stack = << f >> /\ excs = 0 /\ events = 0 /\ isr = {} /\ ifl = FALSE
  BY DEF Init
<1>2. f \in FrameType
  BY NewFrame, Zenon DEF Kinds, Codes
<1>3. f.kind = "main"
  BY DEF Frame
<1> HIDE DEF f
<1>4. stack \in Seq(FrameType) /\ Len(stack) = 1 /\ DOMAIN stack = {1} /\ stack[1] = f
  BY <1>1, <1>2
<1>5. StackType
  BY <1>1, <1>3, <1>4 DEF StackType
<1>6. pm1 \in [fixed : BOOLEAN, enabled : BOOLEAN, status : BOOLEAN]
  <2>1. PICK b \in BOOLEAN : pm1 = [fixed |-> b, enabled |-> FALSE, status |-> FALSE]
    BY DEF Init
  <2>2. FALSE \in BOOLEAN
    OBVIOUS
  <2> QED BY <2>1, <2>2, Zenon
<1>7. handler \in [Vectors -> Handlers]
  BY DEF Init, Handlers
<1>8. TypeOK
  <2>1. excs \in 0 .. MaxExc /\ events \in 0 .. MaxEvents
    BY <1>1, RoomAssumption
  <2>2. irr = {} /\ open = {} /\ lvt = FALSE /\ off = "no"
    BY DEF Init
  <2> QED BY <1>1, <1>5, <1>6, <1>7, <2>1, <2>2 DEF TypeOK
<1>9. \A i \in DOMAIN stack : stack[i].kind # "irq"
  BY <1>3, <1>4
<1>10. OneIrq /\ IrqMasks /\ SavedClean
  BY <1>9 DEF OneIrq, IrqMasks, SavedClean, IsIrq
<1>11. Shallow
  BY <1>1, <1>4 DEF Shallow
<1>12. InServiceIsRunning
  BY <1>1, <1>9 DEF InServiceIsRunning, Owes
<1> QED BY <1>8, <1>10, <1>11, <1>12 DEF IInv, Shape

\* A step that changes nothing.
LEMMA StutterHolds == IInv /\ UNCHANGED vars => IInv'
<1> SUFFICES ASSUME IInv, UNCHANGED vars PROVE IInv'
  OBVIOUS
<1>1. UNCHANGED <<stack, ifl, irr, isr, open, lvt, handler, pm1, off, excs, events>>
  BY DEF vars
<1>2. StackType' /\ Shape'
  BY <1>1, StackKept DEF IInv, TypeOK
<1> QED BY <1>1, <1>2 DEF IInv, TypeOK

\* Every step of processor, devices and user keeps the invariant.
LEMMA NextHolds == IInv /\ [Next]_vars => IInv'
<1> SUFFICES ASSUME IInv, [Next]_vars PROVE IInv'
  OBVIOUS
<1>1. CASE Cpu
  BY <1>1, PrintSteps, SetupSteps, StiStep, EoiStep, StopSteps, IretStep DEF Cpu
<1>2. CASE Dispatch \/ Exception
  BY <1>2, DispatchStep, ExceptionStep
<1>3. CASE Rest \/ UNCHANGED vars
  BY <1>3, StutterHolds DEF Rest
<1>4. CASE (\E v \in Vectors : Edge(v)) \/ Period \/ Press
  <2>1. Timer \in Vectors
    BY DEF Vectors
  <2> QED BY <1>4, <2>1, DeviceSteps
<1> QED BY <1>1, <1>2, <1>3, <1>4 DEF Next

\* However many exceptions and interrupts there are and wherever they strike in
\* the boot, at most one interrupt handler is on the stack, interrupts are
\* disabled while it is, and no frame above it enables them when it returns.
THEOREM InterruptInvariant == Spec => []IInv
<1>1. Init => IInv
  BY InitHolds
<1>2. IInv /\ [Next]_vars => IInv'
  BY NextHolds
<1> QED BY <1>1, <1>2, PTL DEF Spec

\* The types of the state: kmain's frame stays at the bottom of the stack.
THEOREM InterruptTypes == Spec => []TypeOK
<1>1. IInv => TypeOK
  BY DEF IInv
<1> QED BY <1>1, InterruptInvariant, PTL

\* Every EOI written to the local APIC retires the interrupt of the handler that
\* writes it, and no handler leaves its vector in service.
THEOREM InServiceHolds == Spec => []InServiceIsRunning
<1>1. IInv => InServiceIsRunning
  BY DEF IInv, Shape
<1> QED BY <1>1, InterruptInvariant, PTL

\* If the stack has room for a printk buffer of kmain, one of an interrupt
\* handler and one of each exception, the buffers in use at the same time fit.
THEOREM StackFitsHolds == Spec => []StackFits
<1>1. IInv => StackFits
  <2> SUFFICES ASSUME IInv PROVE StackFits
    OBVIOUS
  <2>1. /\ Buffers \subseteq 1 .. Len(stack) /\ Len(stack) \in Nat
        /\ excs \in 0 .. MaxExc /\ Len(stack) <= 2 + excs
    BY Domains DEF Buffers, IInv, TypeOK, Shape, Shallow
  <2>2. IsFiniteSet(1 .. Len(stack)) /\ Cardinality(1 .. Len(stack)) = Len(stack)
    <3>1. 1 \in Int /\ Len(stack) \in Int
      BY <2>1
    <3>2. IsFiniteSet(1 .. Len(stack))
          /\ Cardinality(1 .. Len(stack)) = IF 1 > Len(stack) THEN 0 ELSE Len(stack) - 1 + 1
      BY <3>1, FS_Interval, Zenon
    <3> QED BY <2>1, <3>2
  <2>3. Cardinality(Buffers) <= Len(stack) /\ Cardinality(Buffers) \in Nat
    BY <2>1, <2>2, FS_Subset, FS_CardinalityType
  <2> QED BY <2>1, <2>3, RoomAssumption DEF StackFits
<1> QED BY <1>1, InterruptInvariant, PTL
=============================================================================
