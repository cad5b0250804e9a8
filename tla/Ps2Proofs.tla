----------------------------- MODULE Ps2Proofs -----------------------------
(***************************************************************************)
(* Proofs about the PS/2 start-up: for every length of the polling loops,  *)
(* every number of bytes the devices send of their own accord, of whatever *)
(* value, and whether or not commands get through, a byte in the output    *)
(* buffer is never forgotten but for a lost edge, and once the drivers     *)
(* have taken over a quiet controller each byte is printed once, by its    *)
(* own driver, or dropped because it equals an ACK.                        *)
(***************************************************************************)
EXTENDS Ps2, SequenceTheorems, TLAPS

USE DEF Given

-----------------------------------------------------------------------------
(* The inductive invariant.                                                *)

\* The boot code reads the data port only where it says so.
ReadLabels == {"flush", "readCb", "selfTest", "kbdTest", "mouseTest", "kbdWait", "mouseWait"}
Reading    == rd["main"].at # "idle" => pc \in ReadLabels

\* Each driver has its handler once it has registered it, and i8042's own
\* handler runs only where it is still registered: the boot code is not past
\* the registration of the mouse's while it does.
Late        == {"mouseWait", "mouseUnmask", "halt"}
MouseHolds  == {"mouseSend"} \cup Late
KbdHolds    == {"kbdSend", "kbdWait", "kbdUnmask", "mouseMask", "mouseHandler"} \cup MouseHolds
KbdOpen     == {"mouseMask", "mouseHandler"} \cup MouseHolds
Handlers ==
    /\ isr # "none" => handler[isr] = "i8042"
    /\ pc \in KbdHolds => handler["kbd"] = "device"
    /\ pc \in MouseHolds => handler["mouse"] = "device"

\* Both pins are open when the boot code is over.
Pins ==
    /\ pc \in KbdOpen => ~masked["kbd"]
    /\ pc = "halt" => ~masked["mouse"]

\* What the output buffer holds of a device's own is the last it has given.
Bytes ==
    out.n # 0 =>
        /\ out.src \in Ports /\ out.n = Given(out.src)
        /\ out.byte = own[out.src][out.n].byte

\* A byte that may raise its interrupt, but neither will nor has met a masked
\* pin: the default handler and i8042_read leave such bytes behind.
Forgotten ==
    LET p == Pin(out.src) IN Line(out, ctl, p) /\ ~irr[p] /\ ~missed

\* A read that finds the output buffer full takes the byte.
WillRead(r) == r.at = "inb" \/ (r.at = "poll" /\ r.retry = Retry)

\* The first read of mouse_init's wait takes what was forgotten before it.
Fresh ==
    pc \in Late /\ Forgotten =>
        /\ pc = "mouseWait"
        /\ (rd["main"].at = "idle" /\ timeout = Timeout) \/ WillRead(rd["main"])

MissedUnread == missed => out.full

\* A hand-over of a quiet controller: from then on an interrupt is waiting
\* exactly while its byte is unread.
Handed ==
    /\ since \in [Ports -> {Nothing} \cup Nat]
    /\ since["kbd"] = Nothing <=> since["mouse"] = Nothing
    /\ since["kbd"] # Nothing =>
          pc = "halt" /\ \A p \in Ports : irr[p] <=> Line(out, ctl, p)

IInv ==
    /\ TypeOK /\ Reading /\ Handlers /\ Pins /\ Bytes
    /\ Fresh /\ MissedUnread /\ Handed /\ EachByteOnce

-----------------------------------------------------------------------------
(* The type invariant, in parts.                                           *)

TypeMain == /\ pc \in Labels /\ step \in 1 .. 4 /\ timeout \in 0 .. UintMax
            /\ cb \in [int : PerPort, off : PerPort]
TypeRead == /\ rd \in [{"main", "isr"} -> Reads]
            /\ isr \in Ports \cup {"none"} /\ (isr = "none" <=> rd["isr"] = Idle)
TypePins == /\ handler \in [Ports -> {"default", "i8042", "device"}]
            /\ masked \in PerPort /\ irr \in PerPort /\ missed \in BOOLEAN
TypeCtl  == /\ out \in [full : BOOLEAN, byte : 0 .. 255, src : Sources, n : Nat]
            /\ ctl \in [int : PerPort, off : PerPort, dual : BOOLEAN]
            /\ reply \in [Sources -> {Nothing} \cup 0 .. 255]
TypeData == /\ born \in [Ports -> Nat] /\ own \in [Ports -> OwnBytes]
            /\ \A p \in Ports : Given(p) <= born[p] /\ born[p] <= MaxData[p]
            /\ live \subseteq attached /\ attached \subseteq Ports
TypeLog  == since # [p \in Ports |-> Nothing] => \A p \in Ports : since[p] \in 0 .. Given(p)

\* The script of kbd_init.
LEMMA ScriptLength == Len(Script) = 4 /\ \A k \in 1 .. 4 : Script[k].await \in {Ack, Echo}
BY DEF Script

\* The type invariant, variable group by variable group.
LEMMA TypeParts ==
    TypeOK <=> TypeMain /\ TypeRead /\ TypePins /\ TypeCtl /\ TypeData /\ TypeLog
BY ScriptLength DEF TypeOK, TypeMain, TypeRead, TypePins, TypeCtl, TypeData, TypeLog

\* The same for the next state.
LEMMA TypePartsNext ==
    TypeMain' /\ TypeRead' /\ TypePins' /\ TypeCtl' /\ TypeData' /\ TypeLog' => TypeOK'
BY ScriptLength DEF TypeOK, TypeMain, TypeRead, TypePins, TypeCtl, TypeData, TypeLog

\* The resting and the first state of an i8042_read.
LEMMA ReadStates == Idle \in Reads /\ Begin \in Reads /\ Idle.at = "idle" /\ Begin.at = "poll"
BY CountersFit DEF Idle, Begin, Reads

\* The boot code's read moves on, the handler's stays.
LEMMA MainRead ==
    ASSUME TypeRead, NEW r \in Reads, rd' = [rd EXCEPT !["main"] = r], UNCHANGED isr
    PROVE  TypeRead' /\ rd'["main"] = r
BY DEF TypeRead

\* A step that leaves the output buffer, the waiting interrupts, the devices
\* and the record of what was printed alone.
Quiet == UNCHANGED <<isr, irr, out, born, own, attached, live, missed, since>>

\* A step of the start-up that leaves controller, devices and pending
\* interrupts alone.
LEMMA QuietKeeps ==
    ASSUME IInv, Quiet, pc # "halt",
           TypeMain', TypeRead', Reading', Handlers', Pins', Fresh',
           handler' \in [Ports -> {"default", "i8042", "device"}], masked' \in PerPort,
           ctl' \in [int : PerPort, off : PerPort, dual : BOOLEAN],
           reply' \in [Sources -> {Nothing} \cup 0 .. 255]
    PROVE  IInv'
<1> USE DEF IInv, Quiet
<1>1. TypePins'
  BY TypeParts DEF TypePins
<1>2. TypeCtl'
  BY TypeParts DEF TypeCtl
<1>3. TypeData'
  BY TypeParts DEF TypeData
<1>4. TypeLog'
  BY TypeParts DEF TypeLog
<1>5. TypeOK'
  BY <1>1, <1>2, <1>3, <1>4, TypePartsNext
<1>6. Bytes'
  BY DEF Bytes
<1>7. MissedUnread'
  BY DEF MissedUnread
<1>8. Handed'
  BY DEF Handed
<1>9. EachByteOnce'
  BY DEF EachByteOnce, Unread
<1> QED
  BY <1>5, <1>6, <1>7, <1>8, <1>9

\* The type of whatever a step leaves alone.
LEMMA KeepTypes ==
    ASSUME IInv
    PROVE  /\ UNCHANGED <<pc, step, timeout, cb>> => TypeMain'
           /\ UNCHANGED <<rd, isr>> => TypeRead'
           /\ UNCHANGED handler => handler' \in [Ports -> {"default", "i8042", "device"}]
           /\ UNCHANGED masked => masked' \in PerPort
           /\ UNCHANGED ctl => ctl' \in [int : PerPort, off : PerPort, dual : BOOLEAN]
           /\ UNCHANGED reply => reply' \in [Sources -> {Nothing} \cup 0 .. 255]
           /\ reply \in [Sources -> {Nothing} \cup 0 .. 255]
<1>1. TypeMain /\ TypeRead /\ TypePins /\ TypeCtl
  BY TypeParts DEF IInv
<1>2. reply \in [Sources -> {Nothing} \cup 0 .. 255]
  BY <1>1 DEF TypeCtl
<1> QED
  BY <1>1, <1>2 DEF TypeMain, TypeRead, TypePins, TypeCtl

\* A record of the two ports is a function on them.
LEMMA PairType ==
    ASSUME NEW S, NEW a \in S, NEW b \in S
    PROVE  [kbd |-> a, mouse |-> b] \in [Ports -> S]
BY DEF Ports

\* The command byte is read back as the two flags of each port.
LEMMA CommandByteTypes ==
    /\ \A b : CommandByte(b) \in [int : PerPort, off : PerPort]
    /\ \A c \in [int : PerPort, off : PerPort, dual : BOOLEAN] : AsByte(c) \in 68 .. 119
<1>1. ASSUME NEW b PROVE CommandByte(b) \in [int : PerPort, off : PerPort]
  <2>1. \A k : Bit(b, k) \in BOOLEAN
    BY DEF Bit
  <2> QED
    BY <2>1 DEF CommandByte, PerPort, Ports
<1>2. ASSUME NEW c \in [int : PerPort, off : PerPort, dual : BOOLEAN] PROVE AsByte(c) \in 68 .. 119
  <2>1. \A p : One(p) \in {0, 1}
    BY DEF One
  <2> QED
    BY <2>1 DEF AsByte
<1> QED
  BY <1>1, <1>2

\* A controller command with its answer.
LEMMA CommandGetPreserves ==
    ASSUME IInv, NEW label \in {"readCb", "selfTest", "kbdTest", "mouseTest"},
           NEW answer \in 0 .. 255, CommandGet(label, answer)
    PROVE  IInv'
<1> USE DEF CommandGet, At, main
<1>1. Quiet /\ UNCHANGED <<pc, step, timeout, cb, handler, masked, ctl>>
  BY DEF Quiet
<1>2. TypeRead' /\ rd'["main"] = Begin
  BY MainRead, ReadStates, TypeParts DEF IInv
<1>3. reply' \in [Sources -> {Nothing} \cup 0 .. 255]
  BY KeepTypes
<1>4. pc' = label /\ pc \notin Late /\ pc # "halt" /\ pc \in ReadLabels
  BY DEF Late, ReadLabels
<1>5. Reading' /\ Fresh'
  BY <1>1, <1>4 DEF Reading, Fresh
<1>6. Handlers' /\ Pins'
  BY <1>1 DEF IInv, Handlers, Pins, Quiet
<1> QED
  BY <1>1, <1>2, <1>3, <1>4, <1>5, <1>6, KeepTypes, QuietKeeps

\* Flush, the first read of i8042_init.
LEMMA FlushPreserves == IInv /\ Flush => IInv'
<1> SUFFICES ASSUME IInv, Flush PROVE IInv'
  OBVIOUS
<1> USE DEF Flush, At, main, device
<1>1. Quiet /\ UNCHANGED <<pc, step, timeout, cb, handler, masked, ctl, reply>>
  BY DEF Quiet
<1>2. TypeRead' /\ rd'["main"] = Begin
  BY MainRead, ReadStates, TypeParts DEF IInv
<1>3. pc' = "flush" /\ pc \notin Late /\ pc # "halt" /\ pc \in ReadLabels
  BY DEF Late, ReadLabels
<1>4. Reading' /\ Fresh'
  BY <1>1, <1>3 DEF Reading, Fresh
<1>5. Handlers' /\ Pins'
  BY <1>1 DEF IInv, Handlers, Pins, Quiet
<1> QED
  BY <1>1, <1>2, <1>3, <1>4, <1>5, KeepTypes, QuietKeeps

\* The statements i8042_init goes on to after a read.
InitLabels == {"readCb", "selfTest", "kbdTest", "mouseTest", "writeCb", "kbdMask"}

\* The end of a read of i8042_init: on to the next command.
LEMMA ContinuePreserves ==
    ASSUME IInv, NEW label \in InitLabels, NEW hs \in [Ports -> {"default", "i8042", "device"}],
           NEW c \in [int : PerPort, off : PerPort], isr = "none", pc \notin Late,
           Continue(label, hs, c)
    PROVE  IInv'
<1> USE DEF Continue, Goto, device
<1>1. Quiet /\ UNCHANGED <<step, timeout, masked, ctl, reply>>
  BY DEF Quiet
<1>2. TypeRead' /\ rd'["main"] = Idle
  BY MainRead, ReadStates, TypeParts DEF IInv
<1>3. pc' = label /\ pc' \notin Late \cup KbdHolds \cup MouseHolds \cup KbdOpen /\ pc' \in Labels
  BY DEF InitLabels, Late, KbdHolds, MouseHolds, KbdOpen, Labels
<1>4. TypeMain'
  BY <1>3, TypeParts DEF IInv, TypeMain
<1>5. Reading' /\ Fresh' /\ Pins'
  BY <1>2, <1>3, ReadStates DEF Reading, Fresh, Pins, Late
<1>6. Handlers'
  BY <1>3 DEF Handlers
<1>7. pc # "halt"
  BY DEF Late
<1> QED
  BY <1>1, <1>2, <1>3, <1>4, <1>5, <1>6, <1>7, KeepTypes, QuietKeeps

\* The two interface commands around the tests.
LEMMA DisableInterfacesPreserves == IInv /\ DisableInterfaces => IInv'
<1> SUFFICES ASSUME IInv, DisableInterfaces PROVE IInv'
  OBVIOUS
<1> USE DEF DisableInterfaces, At, Goto
<1>1. Quiet /\ UNCHANGED <<step, timeout, cb, rd, handler, masked, reply>>
  BY DEF Quiet
<1>2. pc' = "flush" /\ pc # "halt"
  OBVIOUS
<1>3. ctl' \in [int : PerPort, off : PerPort, dual : BOOLEAN]
  <2>1. ctl \in [int : PerPort, off : PerPort, dual : BOOLEAN]
    BY TypeParts DEF IInv, TypeCtl
  <2>2. [kbd |-> TRUE, mouse |-> ctl.dual] \in PerPort
    BY <2>1, PairType DEF PerPort
  <2> QED
    BY <2>1, <2>2
<1>4. TypeMain' /\ TypeRead'
  BY <1>1, <1>2, TypeParts, KeepTypes DEF IInv, TypeMain, Labels, Quiet
<1>5. Reading' /\ Fresh' /\ Pins' /\ Handlers'
  BY <1>1, <1>2 DEF IInv, Reading, Fresh, Pins, Handlers, Late, KbdHolds, MouseHolds, KbdOpen,
                    ReadLabels, Quiet
<1> QED
  BY <1>1, <1>2, <1>3, <1>4, <1>5, KeepTypes, QuietKeeps

\* i8042_init enables the two interfaces.
LEMMA EnableInterfacesPreserves == IInv /\ EnableInterfaces => IInv'
<1> SUFFICES ASSUME IInv, EnableInterfaces PROVE IInv'
  OBVIOUS
<1> USE DEF EnableInterfaces, At, Goto
<1>1. Quiet /\ UNCHANGED <<step, timeout, cb, rd, handler, masked, reply>>
  BY DEF Quiet
<1>2. pc' = "kbdMask" /\ pc # "halt"
  OBVIOUS
<1>3. ctl' \in [int : PerPort, off : PerPort, dual : BOOLEAN]
  <2>1. ctl \in [int : PerPort, off : PerPort, dual : BOOLEAN]
    BY TypeParts DEF IInv, TypeCtl
  <2>2. [p \in Ports |-> ctl.off[p] /\ ~cb.int[p]] \in PerPort
    BY DEF PerPort
  <2> QED
    BY <2>1, <2>2
<1>4. TypeMain' /\ TypeRead'
  BY <1>1, <1>2, TypeParts, KeepTypes DEF IInv, TypeMain, Labels, Quiet
<1>5. Reading' /\ Fresh' /\ Pins' /\ Handlers'
  BY <1>1, <1>2 DEF IInv, Reading, Fresh, Pins, Handlers, Late, KbdHolds, MouseHolds, KbdOpen,
                    ReadLabels, Quiet
<1> QED
  BY <1>1, <1>2, <1>3, <1>4, <1>5, KeepTypes, QuietKeeps

\* The drivers mask their pin and register their handler.
LEMMA MaskPreserves == IInv /\ (KbdMask \/ MouseMask) => IInv'
<1> SUFFICES ASSUME IInv, KbdMask \/ MouseMask PROVE IInv'
  OBVIOUS
<1> USE DEF KbdMask, MouseMask, Mask, At, Goto, device
<1>1. Quiet /\ UNCHANGED <<step, timeout, cb, rd, handler, ctl, reply>>
  BY DEF Quiet
<1>2. /\ \/ pc = "kbdMask" /\ pc' = "kbdHandler"
         \/ pc = "mouseMask" /\ pc' = "mouseHandler"
      /\ isr = "none" /\ rd["main"].at = "idle"
  OBVIOUS
<1>3. masked' \in PerPort /\ (pc' = "mouseHandler" => masked'["kbd"] = masked["kbd"])
  BY TypeParts DEF IInv, TypePins, PerPort, Ports
<1>4. TypeMain' /\ TypeRead'
  BY <1>1, <1>2, TypeParts, KeepTypes DEF IInv, TypeMain, Labels, Quiet
<1>5. Reading' /\ Fresh' /\ Handlers'
  BY <1>1, <1>2 DEF IInv, Reading, Fresh, Handlers, Late, KbdHolds, MouseHolds, ReadLabels, Quiet
<1>6. Pins'
  BY <1>2, <1>3 DEF IInv, Pins, KbdOpen, MouseHolds, Late
<1> QED
  BY <1>1, <1>2, <1>3, <1>4, <1>5, <1>6, KeepTypes, QuietKeeps

\* idt_set_interrupt_handler of kbd_init and mouse_init.
LEMMA SetHandlerPreserves == IInv /\ (KbdHandler \/ MouseHandler) => IInv'
<1> SUFFICES ASSUME IInv, KbdHandler \/ MouseHandler PROVE IInv'
  OBVIOUS
<1> USE DEF KbdHandler, MouseHandler, SetHandler, At, Goto, device
<1>1. Quiet /\ UNCHANGED <<step, timeout, cb, rd, masked, ctl, reply>>
  BY DEF Quiet
<1>2. /\ \/ pc = "kbdHandler" /\ pc' = "kbdSend" /\ handler' = [handler EXCEPT !["kbd"] = "device"]
         \/ pc = "mouseHandler" /\ pc' = "mouseSend" /\ handler' = [handler EXCEPT !["mouse"] = "device"]
      /\ isr = "none" /\ rd["main"].at = "idle"
  OBVIOUS
<1>3. handler \in [Ports -> {"default", "i8042", "device"}]
  BY TypeParts DEF IInv, TypePins
<1>4. handler' \in [Ports -> {"default", "i8042", "device"}]
  BY <1>2, <1>3
<1>5. TypeMain' /\ TypeRead'
  BY <1>1, <1>2, TypeParts, KeepTypes DEF IInv, TypeMain, Labels, Quiet
<1>6. Reading' /\ Fresh' /\ Pins'
  BY <1>1, <1>2 DEF IInv, Reading, Fresh, Pins, Late, KbdOpen, MouseHolds, ReadLabels, Quiet
<1>7. Handlers'
  BY <1>1, <1>2, <1>3 DEF IInv, Handlers, KbdHolds, MouseHolds, Late, Quiet, Ports
<1> QED
  BY <1>1, <1>2, <1>4, <1>5, <1>6, <1>7, KeepTypes, QuietKeeps

-----------------------------------------------------------------------------
(* The commands of the two drivers and the waits for their replies.        *)

\* i8042_write to a device, written or not, changes its queue of replies only.
LEMMA SendTypes ==
    ASSUME IInv, NEW p \in Ports, NEW answer \in 0 .. 255, Send(p, answer)
    PROVE  /\ UNCHANGED <<isr, irr, out, born, own, attached, missed, since>>
           /\ UNCHANGED <<step, cb, rd, handler, masked>>
           /\ timeout' = Timeout
           /\ live \subseteq live' /\ live' \subseteq attached
           /\ ctl' \in [int : PerPort, off : PerPort, dual : BOOLEAN]
           /\ reply' \in [Sources -> {Nothing} \cup 0 .. 255]
<1> USE DEF Send
<1>1. ctl \in [int : PerPort, off : PerPort, dual : BOOLEAN] /\ live \subseteq attached
  BY TypeParts DEF IInv, TypeCtl, TypeData
<1>2. reply \in [Sources -> {Nothing} \cup 0 .. 255]
  BY KeepTypes
<1>3. PICK sent \in Written :
          IF sent
          THEN /\ ctl' = [ctl EXCEPT !.off[p] = FALSE]
               /\ reply' = IF p \in attached THEN [reply EXCEPT ![p] = answer] ELSE reply
               /\ live' = live \cup (attached \cap {p})
          ELSE UNCHANGED <<ctl, reply, live>>
  OBVIOUS
<1>4. ctl' \in [int : PerPort, off : PerPort, dual : BOOLEAN]
  <2>1. [ctl EXCEPT !.off[p] = FALSE] \in [int : PerPort, off : PerPort, dual : BOOLEAN]
    BY <1>1 DEF PerPort
  <2> QED
    BY <1>1, <1>3, <2>1
<1>5. reply' \in [Sources -> {Nothing} \cup 0 .. 255]
  BY <1>2, <1>3
<1>6. live \subseteq live' /\ live' \subseteq attached
  BY <1>1, <1>3
<1> QED
  BY <1>4, <1>5, <1>6

\* A command of kbd_init or mouse_init is sent.
LEMMA SendPreserves == IInv /\ (KbdSend \/ MouseSend) => IInv'
<1> SUFFICES ASSUME IInv, KbdSend \/ MouseSend PROVE IInv'
  OBVIOUS
<1>1. PICK p \in Ports, answer \in 0 .. 255 : Send(p, answer)
  <2>1. step \in 1 .. 4
    BY TypeParts DEF IInv, TypeMain
  <2>2. Ack \in 0 .. 255 /\ Echo \in 0 .. 255
    BY DEF Ack, Echo
  <2> QED
    BY <2>1, <2>2, ScriptLength DEF KbdSend, MouseSend, Ports
<1>2. /\ \/ pc = "kbdSend" /\ pc' = "kbdWait"
         \/ pc = "mouseSend" /\ pc' = "mouseWait"
      /\ isr = "none" /\ rd["main"].at = "idle"
  BY DEF KbdSend, MouseSend, At, Goto
<1>3. TypeMain' /\ TypeRead' /\ TypePins'
  <2>1. TypeMain /\ TypePins
    BY TypeParts DEF IInv
  <2>2. Timeout \in 0 .. UintMax
    BY CountersFit
  <2> QED
    BY <1>1, <1>2, <2>1, <2>2, SendTypes, KeepTypes DEF TypeMain, TypePins, Labels
<1>4. TypeCtl' /\ TypeData' /\ TypeLog'
  <2>1. TypeCtl /\ TypeData /\ TypeLog
    BY TypeParts DEF IInv
  <2>3. TypeCtl'
    BY <1>1, <2>1, SendTypes DEF TypeCtl
  <2>4. TypeData'
    BY <1>1, <2>1, SendTypes DEF TypeData
  <2>5. TypeLog'
    BY <1>1, <2>1, SendTypes DEF TypeLog
  <2> QED
    BY <2>3, <2>4, <2>5
<1>5. TypeOK'
  BY <1>3, <1>4, TypePartsNext
<1>6. Reading' /\ Handlers' /\ Pins'
  BY <1>1, <1>2, SendTypes DEF IInv, Reading, Handlers, Pins, ReadLabels, KbdHolds, KbdOpen,
                               MouseHolds, Late
<1>7. Fresh'
  BY <1>1, <1>2, SendTypes DEF Fresh, Late
<1>8. Bytes' /\ MissedUnread'
  BY <1>1, SendTypes DEF IInv, Bytes, MissedUnread
<1>9. Handed' /\ EachByteOnce'
  <2>1. UNCHANGED since /\ since["kbd"] = Nothing /\ since["mouse"] = Nothing
    BY <1>1, <1>2, SendTypes DEF IInv, Handed
  <2> QED
    BY <2>1 DEF IInv, Handed, EachByteOnce, Ports
<1> QED
  BY <1>5, <1>6, <1>7, <1>8, <1>9 DEF IInv

\* The wait counter stays an unsigned word, past zero too.
LEMMA DecrementType == \A n \in 0 .. UintMax : Decrement(n) \in 0 .. UintMax
BY CountersFit DEF Decrement

\* The wait for the keyboard's acknowledgement.
LEMMA KbdWaitPreserves == IInv /\ KbdWait => IInv'
<1> SUFFICES ASSUME IInv, KbdWait PROVE IInv'
  OBVIOUS
<1>1. /\ Quiet /\ UNCHANGED <<cb, handler, masked, ctl, reply>>
      /\ pc = "kbdWait" /\ isr = "none"
      /\ timeout' \in {timeout, Decrement(timeout)}
      /\ \/ rd' = rd /\ rd["main"].at = "idle" /\ KbdNext
         \/ rd' = [rd EXCEPT !["main"] = Idle] /\ (KbdNext \/ UNCHANGED <<pc, step>>)
         \/ rd' = [rd EXCEPT !["main"] = Begin] /\ UNCHANGED <<pc, step>>
  BY DEF KbdWait, Wait, Awaited, At, Returned, Quiet, device
<1>2. TypeMain /\ TypeRead
  BY TypeParts DEF IInv
<1>3. /\ KbdNext => pc' \in {"kbdSend", "kbdUnmask"} /\ step' \in 1 .. 4
      /\ step \in 1 .. 4
  BY <1>2, ScriptLength DEF KbdNext, Goto, TypeMain
<1>4. pc' \in {"kbdWait", "kbdSend", "kbdUnmask"} /\ step' \in 1 .. 4
  BY <1>1, <1>3
<1>5. TypeMain'
  BY <1>1, <1>2, <1>4, DecrementType DEF TypeMain, Labels
<1>6. TypeRead' /\ Reading'
  <2>1. CASE rd' = rd /\ rd["main"].at = "idle"
    BY <2>1, <1>1, <1>2 DEF TypeRead, Reading, Quiet
  <2>2. CASE rd' = [rd EXCEPT !["main"] = Begin] /\ UNCHANGED <<pc, step>>
    BY <2>2, <1>1, <1>2, MainRead, ReadStates DEF Reading, ReadLabels, Quiet
  <2>3. CASE rd' = [rd EXCEPT !["main"] = Idle]
    BY <2>3, <1>1, <1>2, MainRead, ReadStates DEF Reading, Quiet
  <2> QED
    BY <1>1, <2>1, <2>2, <2>3
<1>7. Handlers' /\ Pins' /\ Fresh'
  BY <1>1, <1>4 DEF IInv, Handlers, Pins, Fresh, KbdHolds, KbdOpen, MouseHolds, Late, Quiet
<1> QED
  BY <1>1, <1>5, <1>6, <1>7, KeepTypes, QuietKeeps

\* The wait of mouse_init ends with a reply or with its counter at zero; in
\* both cases a read has come before, so that nothing older is in the buffer.
LEMMA MouseWaitPreserves == IInv /\ MouseWait => IInv'
<1> SUFFICES ASSUME IInv, MouseWait PROVE IInv'
  OBVIOUS
<1>1. /\ Quiet /\ UNCHANGED <<step, cb, handler, masked, ctl, reply>>
      /\ pc = "mouseWait" /\ isr = "none"
      /\ timeout' \in {timeout, Decrement(timeout)}
      /\ \/ rd' = rd /\ rd["main"].at = "idle" /\ timeout = 0 /\ pc' = "mouseUnmask"
         \/ /\ rd["main"].at = "done" /\ rd' = [rd EXCEPT !["main"] = Idle]
            /\ pc' \in {pc, "mouseUnmask"}
         \/ rd' = [rd EXCEPT !["main"] = Begin] /\ UNCHANGED pc
  BY DEF MouseWait, MouseNext, Goto, Wait, Awaited, At, Returned, Quiet, device
<1>2. TypeMain /\ TypeRead
  BY TypeParts DEF IInv
<1>3. pc' \in {"mouseWait", "mouseUnmask"}
  BY <1>1
<1>4. TypeMain'
  BY <1>1, <1>2, <1>3, DecrementType DEF TypeMain, Labels
<1>5. TypeRead' /\ Reading'
  <2>1. CASE rd' = rd /\ rd["main"].at = "idle"
    BY <2>1, <1>1, <1>2 DEF TypeRead, Reading, Quiet
  <2>2. CASE rd' = [rd EXCEPT !["main"] = Begin] /\ UNCHANGED pc
    BY <2>2, <1>1, <1>2, MainRead, ReadStates DEF Reading, ReadLabels, Quiet
  <2>3. CASE rd' = [rd EXCEPT !["main"] = Idle]
    BY <2>3, <1>1, <1>2, MainRead, ReadStates DEF Reading, Quiet
  <2> QED
    BY <1>1, <2>1, <2>2, <2>3
<1>6. Handlers' /\ Pins'
  BY <1>1, <1>3 DEF IInv, Handlers, Pins, KbdHolds, KbdOpen, MouseHolds, Late, Quiet
<1>7. Fresh'
  <2>1. Forgotten' <=> Forgotten
    BY <1>1 DEF Forgotten, Line, Quiet
  <2>2. CASE rd["main"].at = "done" \/ (timeout = 0 /\ rd["main"].at = "idle")
    <3>1. ~Forgotten
      BY <2>2, <1>1, CountersFit DEF IInv, Fresh, WillRead, Late
    <3> QED
      BY <3>1, <2>1 DEF Fresh
  <2>3. CASE rd' = [rd EXCEPT !["main"] = Begin] /\ UNCHANGED pc
    <3>1. rd'["main"] = Begin
      BY <2>3, <1>1, <1>2, MainRead, ReadStates DEF Quiet
    <3> QED
      BY <3>1, <2>3, <1>1 DEF Fresh, WillRead, Begin
  <2> QED
    BY <1>1, <2>2, <2>3
<1> QED
  BY <1>1, <1>4, <1>5, <1>6, <1>7, KeepTypes, QuietKeeps

\* The next state of an i8042_read after a look at the status.
LEMMA AfterPollType ==
    ASSUME NEW r \in Reads, r.at = "poll"
    PROVE  /\ AfterPoll(r) \in Reads
           /\ AfterPoll(r).at \in {"poll", "inb", "done"}
           /\ r.retry = Retry /\ out.full => AfterPoll(r).at = "inb"
<1>1. PICK left \in 0 .. UintMax : left = Decrement(r.retry)
  BY DecrementType DEF Reads
<1>2. r.retry = Retry => left # 0
  BY <1>1, CountersFit DEF Decrement
<1>3. \/ AfterPoll(r) = [r EXCEPT !.retry = left] /\ ~out.full
      \/ AfterPoll(r) = [at |-> "done", retry |-> 0, got |-> 0] /\ left = 0
      \/ AfterPoll(r) = [r EXCEPT !.at = "inb", !.retry = left]
  BY <1>1 DEF AfterPoll
<1>4. 0 \in 0 .. UintMax
  BY CountersFit
<1>5. CASE AfterPoll(r) = [r EXCEPT !.retry = left] /\ ~out.full
  BY <1>5 DEF Reads
<1>6. CASE AfterPoll(r) = [at |-> "done", retry |-> 0, got |-> 0] /\ left = 0
  BY <1>2, <1>4, <1>6 DEF Reads
<1>7. CASE AfterPoll(r) = [r EXCEPT !.at = "inb", !.retry = left]
  BY <1>7 DEF Reads
<1> QED
  BY <1>3, <1>5, <1>6, <1>7

-----------------------------------------------------------------------------
(* i8042_read, as the boot code and as the handler runs it.                *)

\* A look at the status by the main flow.
LEMMA PollMainPreserves == IInv /\ isr = "none" /\ Poll("main") => IInv'
<1> SUFFICES ASSUME IInv, isr = "none", Poll("main") PROVE IInv'
  OBVIOUS
<1> USE DEF Poll, main, device
<1>1. Quiet /\ UNCHANGED <<pc, step, timeout, cb, handler, masked, ctl, reply>>
  BY DEF Quiet
<1>2. TypeRead /\ rd["main"] \in Reads /\ rd["main"].at = "poll"
  BY TypeParts DEF IInv, TypeRead
<1>3. AfterPoll(rd["main"]) \in Reads
  BY <1>2, AfterPollType
<1>4. TypeRead' /\ rd'["main"] = AfterPoll(rd["main"])
  BY <1>1, <1>2, <1>3, MainRead DEF Quiet
<1>5. pc \in ReadLabels /\ pc # "halt"
  BY <1>2 DEF IInv, Reading, ReadLabels
<1>6. Reading' /\ Handlers' /\ Pins'
  BY <1>1, <1>5 DEF IInv, Reading, Handlers, Pins, Quiet
<1>7. Fresh'
  <2>1. Forgotten' <=> Forgotten
    BY <1>1 DEF Forgotten, Line, Quiet
  <2>2. Forgotten => out.full
    BY DEF Forgotten, Line
  <2>3. SUFFICES ASSUME pc \in Late, Forgotten
                 PROVE  pc = "mouseWait" /\ rd'["main"].at = "inb"
    BY <1>1, <2>1, <2>3 DEF Fresh, WillRead
  <2>4. pc = "mouseWait" /\ rd["main"].retry = Retry
    BY <2>3, <1>2 DEF IInv, Fresh, WillRead
  <2> QED
    BY <2>2, <2>3, <2>4, <1>2, <1>4, AfterPollType
<1> QED
  BY <1>1, <1>4, <1>5, <1>6, <1>7, KeepTypes, QuietKeeps

\* Latch keeps the types, and with the output buffer left empty nothing is
\* waiting that was not before.
LEMMA LatchTypes ==
    ASSUME NEW taken, Latch(taken), TypePins
    PROVE  irr' \in PerPort /\ missed' \in BOOLEAN /\ (missed' => out'.full)
<1>1. irr' \in PerPort
  BY DEF Latch, PerPort
<1>2. missed' = (out'.full /\ (missed \/ \E p \in Ports : Rises(p) /\ masked[p]))
  BY DEF Latch
<1> QED
  BY <1>1, <1>2

\* The data port is read: whoever does it, the buffer is empty afterwards.
LEMMA ReadPortPreserves ==
    ASSUME IInv, NEW who \in {"main", "isr"}, ReadPort(who),
           who = "main" => isr = "none", who = "isr" => isr # "none"
    PROVE  IInv'
<1> USE DEF ReadPort, Inb, main, device
<1>1. TypeMain /\ TypeRead /\ TypePins /\ TypeCtl /\ TypeData /\ TypeLog
  BY TypeParts DEF IInv
<1>2. /\ UNCHANGED <<pc, step, timeout, cb, isr, handler, masked, ctl, reply, born, own,
                     attached, live, since>>
      /\ out' = [out EXCEPT !.full = FALSE] /\ rd[who].at = "inb"
      /\ rd' = [rd EXCEPT ![who] = [at |-> "done", retry |-> 0, got |-> out.byte]]
  OBVIOUS
<1>3. /\ out' \in [full : BOOLEAN, byte : 0 .. 255, src : Sources, n : Nat]
      /\ ~out'.full /\ out'.byte = out.byte /\ out'.src = out.src /\ out'.n = out.n
  BY <1>1, <1>2 DEF TypeCtl
<1>4. irr' \in PerPort /\ missed' = FALSE
  BY <1>1, <1>3, LatchTypes
<1>5. TypeRead'
  <2>1. [at |-> "done", retry |-> 0, got |-> out.byte] \in Reads
    BY <1>1, CountersFit DEF TypeCtl, Reads
  <2>2. rd' \in [{"main", "isr"} -> Reads]
    BY <1>1, <1>2, <2>1 DEF TypeRead
  <2>3. rd'["isr"] = Idle <=> rd["isr"] = Idle
    BY <1>1, <1>2 DEF TypeRead, Idle
  <2> QED
    BY <1>1, <1>2, <2>2, <2>3 DEF TypeRead
<1>6. TypeOK'
  <2>1. TypePins' /\ TypeMain' /\ TypeData' /\ TypeLog'
    BY <1>1, <1>2, <1>4 DEF TypePins, TypeMain, TypeData, TypeLog
  <2>2. TypeCtl'
    BY <1>1, <1>2, <1>3 DEF TypeCtl
  <2> QED
    BY <1>5, <2>1, <2>2, TypePartsNext
<1>7. pc # "halt"
  <2>1. CASE who = "main"
    BY <2>1, <1>2 DEF IInv, Reading, ReadLabels
  <2>2. CASE who = "isr"
    BY <2>2, <1>1 DEF IInv, Handlers, TypeRead, Ports, KbdHolds, MouseHolds, Late
  <2> QED
    BY <2>1, <2>2
<1>8. Reading'
  <2>1. who = "isr" => rd'["main"] = rd["main"]
    BY <1>1, <1>2 DEF TypeRead
  <2>2. who = "main" => pc \in ReadLabels
    BY <1>2 DEF IInv, Reading
  <2> QED
    BY <1>2, <2>1, <2>2 DEF IInv, Reading
<1>9. Handlers' /\ Pins'
  BY <1>2 DEF IInv, Handlers, Pins
<1>10. Fresh' /\ MissedUnread'
  BY <1>3, <1>4 DEF Fresh, Forgotten, Line, MissedUnread
<1>11. Bytes'
  BY <1>2, <1>3 DEF IInv, Bytes
<1>12. Handed' /\ EachByteOnce'
  BY <1>2, <1>7 DEF IInv, Handed, EachByteOnce, Unread, Ports
<1> QED
  BY <1>6, <1>8, <1>9, <1>10, <1>11, <1>12 DEF IInv

\* The command byte is written, if it is sent.
LEMMA WriteCommandBytePreserves == IInv /\ WriteCommandByte => IInv'
<1> SUFFICES ASSUME IInv, WriteCommandByte PROVE IInv'
  OBVIOUS
<1> USE DEF WriteCommandByte, At, Goto
<1>1. TypeMain /\ TypeRead /\ TypePins /\ TypeCtl /\ TypeData /\ TypeLog
  BY TypeParts DEF IInv
<1>2. /\ UNCHANGED <<step, timeout, cb, rd, isr, handler, masked, out, reply, born, own,
                     attached, live, since>>
      /\ pc = "writeCb" /\ pc' = "enable" /\ isr = "none" /\ rd["main"].at = "idle"
  OBVIOUS
<1>3. ctl' \in [int : PerPort, off : PerPort, dual : BOOLEAN]
  <2>1. [cb.off EXCEPT !["mouse"] = @ /\ ctl.dual] \in PerPort
    BY <1>1 DEF TypeMain, TypeCtl, PerPort, Ports
  <2>2. [ctl EXCEPT !.int = cb.int, !.off = [cb.off EXCEPT !["mouse"] = @ /\ ctl.dual]]
           \in [int : PerPort, off : PerPort, dual : BOOLEAN]
    BY <1>1, <2>1 DEF TypeMain, TypeCtl
  <2> QED
    BY <1>1, <2>2 DEF TypeCtl
<1>4. irr' \in PerPort /\ missed' \in BOOLEAN /\ MissedUnread'
  BY <1>1, LatchTypes DEF MissedUnread
<1>5. TypeOK'
  <2>1. TypePins' /\ TypeMain' /\ TypeRead' /\ TypeData' /\ TypeLog'
    BY <1>1, <1>2, <1>4 DEF TypePins, TypeMain, TypeRead, TypeData, TypeLog, Labels
  <2>2. TypeCtl'
    BY <1>1, <1>2, <1>3 DEF TypeCtl
  <2> QED
    BY <2>1, <2>2, TypePartsNext
<1>6. Reading' /\ Handlers' /\ Pins' /\ Fresh'
  BY <1>2 DEF IInv, Reading, Handlers, Pins, Fresh, KbdHolds, KbdOpen, MouseHolds, Late
<1>7. Bytes'
  BY <1>2 DEF IInv, Bytes
<1>8. Handed' /\ EachByteOnce'
  BY <1>2 DEF IInv, Handed, EachByteOnce, Unread, Ports
<1> QED
  BY <1>4, <1>5, <1>6, <1>7, <1>8 DEF IInv

\* The last unmasking hands the controller over, quiet or not.
LEMMA UnmaskPreserves == IInv /\ (KbdUnmask \/ MouseUnmask) => IInv'
<1> SUFFICES ASSUME IInv, KbdUnmask \/ MouseUnmask PROVE IInv'
  OBVIOUS
<1> USE DEF KbdUnmask, MouseUnmask, Unmask, At, Goto, device
<1>1. TypeMain /\ TypeRead /\ TypePins /\ TypeCtl /\ TypeData /\ TypeLog
  BY TypeParts DEF IInv
<1>2. /\ UNCHANGED <<step, timeout, cb, rd, isr, handler, irr, out, ctl, reply, born, own,
                     attached, live, missed>>
      /\ isr = "none" /\ rd["main"].at = "idle"
      /\ \/ /\ pc = "kbdUnmask" /\ pc' = "mouseMask" /\ since' = since
            /\ masked' = [masked EXCEPT !["kbd"] = FALSE]
         \/ /\ pc = "mouseUnmask" /\ pc' = "halt"
            /\ since' = since \/ (since' = [q \in Ports |-> Given(q)] /\ ~out.full /\ ~irr.kbd /\ ~irr.mouse)
            /\ masked' = [masked EXCEPT !["mouse"] = FALSE]
  OBVIOUS
<1>3. /\ masked' \in PerPort /\ (pc' = "mouseMask" => ~masked'["kbd"])
      /\ pc' = "halt" => ~masked'["mouse"] /\ masked'["kbd"] = masked["kbd"]
  BY <1>1, <1>2 DEF TypePins, PerPort, Ports
<1>4. since["kbd"] = Nothing /\ since["mouse"] = Nothing /\ since \in [Ports -> {Nothing} \cup Nat]
  BY <1>2 DEF IInv, Handed
<1>5. /\ since' \in [Ports -> {Nothing} \cup Nat]
      /\ since' # since => \A p \in Ports : since'[p] \in 0 .. Given(p)
  BY <1>1, <1>2, <1>4 DEF TypeData
<1>6. since = [p \in Ports |-> Nothing]
  BY <1>4 DEF Ports
<1>7. TypeOK'
  <2>1. TypePins' /\ TypeMain' /\ TypeRead' /\ TypeData' /\ TypeCtl'
    BY <1>1, <1>2, <1>3 DEF TypePins, TypeMain, TypeRead, TypeData, TypeCtl, Labels
  <2>2. TypeLog'
    BY <1>1, <1>2, <1>5, <1>6 DEF TypeLog
  <2> QED
    BY <2>1, <2>2, TypePartsNext
<1>8. Reading' /\ Handlers'
  BY <1>2 DEF IInv, Reading, Handlers, KbdHolds, MouseHolds, Late
<1>9. Pins'
  BY <1>2, <1>3 DEF IInv, Pins, KbdOpen, MouseHolds, Late
<1>10. Fresh'
  <2>1. Forgotten' <=> Forgotten
    BY <1>2 DEF Forgotten, Line
  <2> QED
    BY <1>2, <2>1 DEF IInv, Fresh, Late
<1>11. Bytes' /\ MissedUnread'
  BY <1>2 DEF IInv, Bytes, MissedUnread
<1>12. CASE since' = since
  <2>1. Handed' /\ EachByteOnce'
    BY <1>4, <1>12 DEF Handed, EachByteOnce, Unread, Ports
  <2> QED
    BY <2>1, <1>7, <1>8, <1>9, <1>10, <1>11 DEF IInv
<1>13. CASE since' = [q \in Ports |-> Given(q)] /\ ~out.full /\ ~irr.kbd /\ ~irr.mouse /\ pc' = "halt"
  <2>1. \A p \in Ports : ~irr[p] /\ ~Line(out, ctl, p)
    BY <1>13 DEF Ports, Line
  <2>2. \A p \in Ports : ~irr'[p] /\ ~Line(out, ctl, p)'
    BY <1>2, <2>1 DEF Line
  <2>3. since'["kbd"] \in Nat /\ since'["mouse"] \in Nat /\ Nothing \notin Nat
    BY <1>1, <1>13 DEF TypeData, Ports, Nothing
  <2>4. Handed'
    BY <1>5, <1>13, <2>2, <2>3 DEF Handed
  <2>5. EachByteOnce'
    <3>1. \A p \in Ports : (since'[p] + 1) .. Given(p)' = {}
      BY <1>1, <1>2, <1>13 DEF TypeData
    <3> QED
      BY <3>1 DEF EachByteOnce, Unread
  <2> QED
    BY <2>4, <2>5, <1>7, <1>8, <1>9, <1>10, <1>11 DEF IInv
<1> QED
  BY <1>2, <1>12, <1>13

-----------------------------------------------------------------------------
(* The handlers.                                                           *)

\* A look at the status inside i8042_irq_handler.
LEMMA PollIsrPreserves == IInv /\ Poll("isr") => IInv'
<1> SUFFICES ASSUME IInv, Poll("isr") PROVE IInv'
  OBVIOUS
<1> USE DEF Poll, main, device
<1>1. Quiet /\ UNCHANGED <<pc, step, timeout, cb, handler, masked, ctl, reply>>
  BY DEF Quiet
<1>2. TypeRead /\ rd["isr"] \in Reads /\ rd["isr"].at = "poll" /\ rd["isr"] # Idle /\ isr # "none"
  BY TypeParts DEF IInv, TypeRead, Idle
<1>3. AfterPoll(rd["isr"]) \in Reads /\ AfterPoll(rd["isr"]) # Idle
  BY <1>2, AfterPollType DEF Idle
<1>4. TypeRead' /\ rd'["main"] = rd["main"]
  BY <1>1, <1>2, <1>3 DEF TypeRead, Quiet
<1>5. pc \notin Late /\ pc # "halt"
  BY <1>2 DEF IInv, Handlers, TypeRead, Ports, KbdHolds, MouseHolds, Late
<1>6. Reading' /\ Handlers' /\ Pins' /\ Fresh'
  BY <1>1, <1>4, <1>5 DEF IInv, Reading, Handlers, Pins, Fresh, Quiet
<1> QED
  BY <1>1, <1>4, <1>5, <1>6, KeepTypes, QuietKeeps

\* i8042_irq_handler prints its byte and returns.
LEMMA LeavePreserves == IInv /\ LeaveI8042 => IInv'
<1> SUFFICES ASSUME IInv, LeaveI8042 PROVE IInv'
  OBVIOUS
<1> USE DEF LeaveI8042, main, device
<1>1. TypeMain /\ TypeRead /\ TypePins /\ TypeCtl /\ TypeData /\ TypeLog
  BY TypeParts DEF IInv
<1>2. /\ UNCHANGED <<pc, step, timeout, cb, handler, masked, irr, out, ctl, reply, born, own,
                     attached, live, since, missed>>
      /\ isr # "none" /\ isr' = "none" /\ rd' = [rd EXCEPT !["isr"] = Idle]
  OBVIOUS
<1>3. TypeRead' /\ rd'["main"] = rd["main"]
  BY <1>1, <1>2, ReadStates DEF TypeRead
<1>4. TypeOK'
  <2>1. TypePins' /\ TypeMain' /\ TypeData' /\ TypeCtl' /\ TypeLog'
    BY <1>1, <1>2 DEF TypePins, TypeMain, TypeData, TypeCtl, TypeLog
  <2> QED
    BY <2>1, <1>3, TypePartsNext
<1>5. pc \notin Late
  BY <1>1, <1>2 DEF IInv, Handlers, TypeRead, Ports, KbdHolds, MouseHolds, Late
<1>6. Reading' /\ Handlers' /\ Pins' /\ Fresh'
  BY <1>2, <1>3, <1>5 DEF IInv, Reading, Handlers, Pins, Fresh
<1>7. Bytes' /\ MissedUnread'
  BY <1>2 DEF IInv, Bytes, MissedUnread
<1>8. Handed' /\ EachByteOnce'
  BY <1>2, <1>5 DEF IInv, Handed, EachByteOnce, Unread, Ports, Late
<1> QED
  BY <1>4, <1>6, <1>7, <1>8 DEF IInv

\* An interrupt that finds i8042_irq_handler installed.
LEMMA EnterPreserves ==
    ASSUME IInv, NEW p \in Ports, EnterI8042(p)
    PROVE  IInv'
<1> USE DEF EnterI8042, main, device
<1>1. TypeMain /\ TypeRead /\ TypePins /\ TypeCtl /\ TypeData /\ TypeLog
  BY TypeParts DEF IInv
<1>2. /\ UNCHANGED <<pc, step, timeout, cb, handler, masked, out, ctl, reply, born, own,
                     attached, live, since, missed>>
      /\ isr = "none" /\ isr' = p /\ rd' = [rd EXCEPT !["isr"] = Begin]
      /\ handler[p] = "i8042" /\ irr' = [irr EXCEPT ![p] = FALSE]
  OBVIOUS
<1>3. TypeRead' /\ rd'["main"] = rd["main"]
  <2>1. Begin # Idle /\ p # "none"
    BY DEF Begin, Idle, Ports
  <2> QED
    BY <1>1, <1>2, <2>1, ReadStates DEF TypeRead
<1>4. TypeOK'
  <2>1. TypeMain' /\ TypeData' /\ TypeCtl' /\ TypeLog'
    BY <1>1, <1>2 DEF TypeMain, TypeData, TypeCtl, TypeLog
  <2>2. irr' \in PerPort
    BY <1>1, <1>2 DEF TypePins, PerPort
  <2>3. TypePins'
    BY <1>1, <1>2, <2>2 DEF TypePins
  <2> QED
    BY <2>1, <2>3, <1>3, TypePartsNext
<1>5. pc \notin Late
  BY <1>2 DEF IInv, Handlers, Ports, KbdHolds, MouseHolds, Late
<1>6. Reading' /\ Handlers' /\ Pins' /\ Fresh'
  BY <1>2, <1>3, <1>5 DEF IInv, Reading, Handlers, Pins, Fresh
<1>7. Bytes' /\ MissedUnread'
  BY <1>2 DEF IInv, Bytes, MissedUnread
<1>8. Handed' /\ EachByteOnce'
  BY <1>2, <1>5 DEF IInv, Handed, EachByteOnce, Unread, Ports, Late
<1> QED
  BY <1>4, <1>6, <1>7, <1>8 DEF IInv

\* The bound on a device's bytes is a number, and what a device has given is
\* counted by one.
LEMMA DataFacts ==
    /\ \A p \in Ports : MaxData[p] \in Nat
    /\ TypeData => \A p \in Ports : own[p] \in OwnBytes /\ Given(p) \in Nat
<1>1. \A p \in Ports : MaxData[p] \in {MaxKeys, MaxMoves}
  BY DEF MaxData, Ports
<1>2. ASSUME TypeData, NEW p \in Ports PROVE own[p] \in OwnBytes /\ Given(p) \in Nat
  <2>1. own[p] \in OwnBytes
    BY <1>2 DEF TypeData
  <2> QED
    BY <2>1 DEF OwnBytes
<1> QED
  BY <1>1, <1>2, CountersFit

\* A handler that prints adds itself to the byte in the buffer, and leaves
\* every other byte, and what it has read, as it was.
LEMMA PrintedFacts ==
    ASSUME TypeData, Bytes, NEW p \in Ports, own' = own \/ own' = Printed(p)
    PROVE  /\ own' \in [Ports -> OwnBytes]
           /\ \A q \in Ports : Given(q)' = Given(q)
           /\ \A q \in Ports : \A n \in 1 .. Given(q) :
                 /\ own'[q][n].byte = own[q][n].byte
                 /\ (q = out.src /\ n = out.n) \/ own'[q][n] = own[q][n]
           /\ own' = Printed(p) /\ out.n # 0 =>
                 own'[out.src][out.n].by = Append(own[out.src][out.n].by, p)
<1> DEFINE Entry == [byte : 0 .. 255, by : Seq(Ports)]
<1>1. own \in [Ports -> OwnBytes]
  BY DEF TypeData
<1>2. CASE own' = own /\ ~(own' = Printed(p) /\ out.n # 0)
  BY <1>1, <1>2
<1>3. CASE own' = Printed(p) /\ out.n # 0
  <2>1. PICK s \in Ports : s = out.src /\ out.n = Given(s)
    BY <1>3 DEF Bytes
  <2>2. own[s] \in Seq(Entry)
    BY <1>1 DEF OwnBytes
  <2>3. PICK k \in 1 .. Len(own[s]) : k = out.n
    BY <1>3, <2>1, <2>2
  <2>4. PICK e \in Entry : e = own[s][k]
    <3>1. own[s][k] \in Entry
      BY <2>2, <2>3, ElementOfSeq
    <3> QED
      BY <3>1
  <2>5. PICK f : f = [e EXCEPT !.by = Append(@, p)]
    OBVIOUS
  <2>6. f \in Entry /\ f.byte = e.byte /\ f.by = Append(e.by, p)
    <3>1. Append(e.by, p) \in Seq(Ports)
      BY <2>4
    <3> QED
      BY <2>4, <2>5, <3>1
  <2>7. PICK t : t = [own[s] EXCEPT ![k] = f]
    OBVIOUS
  <2>8. /\ t \in Seq(Entry) /\ Len(t) = Len(own[s]) /\ t[k] = f
        /\ \A n \in 1 .. Len(own[s]) : n # k => t[n] = own[s][n]
    BY <2>2, <2>3, <2>6, <2>7
  <2>9. own' = [own EXCEPT ![s] = t]
    BY <1>3, <2>1, <2>3, <2>4, <2>5, <2>7 DEF Printed
  <2>10. own'[s] = t /\ \A q \in Ports : q # s => own'[q] = own[q]
    BY <1>1, <2>9
  <2>11. own' \in [Ports -> OwnBytes]
    BY <1>1, <2>8, <2>9 DEF OwnBytes
  <2>12. \A q \in Ports : Given(q)' = Given(q)
    BY <2>8, <2>10
  <2>13. ASSUME NEW q \in Ports, NEW n \in 1 .. Given(q)
         PROVE  /\ own'[q][n].byte = own[q][n].byte
                /\ (q = out.src /\ n = out.n) \/ own'[q][n] = own[q][n]
    BY <2>1, <2>3, <2>4, <2>6, <2>8, <2>10
  <2>14. own'[out.src][out.n].by = Append(own[out.src][out.n].by, p)
    BY <2>1, <2>3, <2>4, <2>6, <2>8, <2>10
  <2> QED
    BY <2>11, <2>12, <2>13, <2>14
<1> QED
  BY <1>2, <1>3 DEF Printed

\* kbd_irq_handler, mouse_irq_handler and the default handler.
LEMMA HandlePreserves ==
    ASSUME IInv, NEW p \in Ports, Handle(p)
    PROVE  IInv'
<1> USE DEF Handle, main, device
<1>1. TypeMain /\ TypeRead /\ TypePins /\ TypeCtl /\ TypeData /\ TypeLog
  BY TypeParts DEF IInv
<1>2. /\ UNCHANGED <<pc, step, timeout, cb, rd, isr, handler, masked, ctl, reply, born, attached,
                     live, since>>
      /\ isr = "none" /\ irr[p]
      /\ own' = own \/ own' = Printed(p)
      /\ out' = out \/ out' = [out EXCEPT !.full = FALSE]
  BY DEF Inb
<1>3. /\ out' \in [full : BOOLEAN, byte : 0 .. 255, src : Sources, n : Nat]
      /\ out'.byte = out.byte /\ out'.src = out.src /\ out'.n = out.n
  BY <1>1, <1>2 DEF TypeCtl
<1>4. irr' \in PerPort /\ missed' \in BOOLEAN /\ MissedUnread'
  BY <1>1, LatchTypes DEF MissedUnread
<1>5. Bytes /\ own' \in [Ports -> OwnBytes] /\ \A q \in Ports : Given(q)' = Given(q)
  BY <1>1, <1>2, PrintedFacts DEF IInv
<1>6. TypeOK'
  <2>1. TypePins' /\ TypeMain' /\ TypeRead'
    BY <1>1, <1>2, <1>4 DEF TypePins, TypeMain, TypeRead
  <2>2. TypeCtl'
    BY <1>1, <1>2, <1>3 DEF TypeCtl
  <2>3. TypeData'
    BY <1>1, <1>2, <1>5 DEF TypeData
  <2>4. TypeLog'
    BY <1>1, <1>2, <1>5 DEF TypeLog
  <2> QED
    BY <2>1, <2>2, <2>3, <2>4, TypePartsNext
<1>7. Reading' /\ Handlers' /\ Pins'
  BY <1>2 DEF IInv, Reading, Handlers, Pins
<1>8. Bytes'
  <2>1. SUFFICES ASSUME out.n # 0
                 PROVE  /\ out.src \in Ports /\ out.n = Len(own'[out.src])
                        /\ out.byte = own'[out.src][out.n].byte
    BY <1>3 DEF Bytes
  <2>2. PICK q \in Ports : q = out.src /\ out.n = Given(q) /\ out.byte = own[q][out.n].byte
    BY <1>5, <2>1 DEF Bytes
  <2>3. out.n \in 1 .. Given(q)
    BY <1>1, <2>1, <2>2 DEF TypeCtl
  <2>4. own'[q][out.n].byte = own[q][out.n].byte
    BY <1>1, <1>2, <1>5, <2>3, PrintedFacts
  <2>5. Given(q)' = Given(q)
    BY <1>5
  <2> QED
    BY <2>2, <2>4, <2>5
<1>9. pc \in Late => handler[p] = "device" /\ ~out'.full
  <2>1. pc \in Late => handler[p] = "device"
    BY DEF IInv, Handlers, Ports, KbdHolds, MouseHolds, Late
  <2>2. handler[p] = "device" => out' = [out EXCEPT !.full = FALSE]
    BY DEF Inb
  <2> QED
    BY <2>1, <2>2, <1>1 DEF TypeCtl
<1>10. Fresh'
  BY <1>2, <1>9 DEF Fresh, Forgotten, Line
<1>11. CASE since["kbd"] = Nothing
  BY <1>2, <1>4, <1>5, <1>6, <1>7, <1>8, <1>10, <1>11 DEF IInv, Handed, EachByteOnce, Unread, Ports
<1>12. CASE since["kbd"] # Nothing
  <2>1. /\ pc = "halt" /\ since["mouse"] # Nothing /\ since \in [Ports -> {Nothing} \cup Nat]
        /\ \A q \in Ports : irr[q] <=> Line(out, ctl, q)
    BY <1>12 DEF IInv, Handed
  <2>2. out.full /\ Pin(out.src) = p /\ ~out'.full /\ handler[p] = "device"
    BY <1>2, <1>9, <2>1 DEF Line, Late
  <2>3. \A q \in Ports : ~irr'[q] /\ ~Line(out, ctl, q)'
    <3> SUFFICES ASSUME NEW q \in Ports PROVE ~irr'[q] /\ ~Line(out, ctl, q)'
      OBVIOUS
    <3>1. ~Line(out, ctl, q)'
      BY <2>2 DEF Line
    <3>2. ~Rises(q)
      BY <2>2 DEF Rises, Line
    <3>3. irr'[q] <=> (irr[q] /\ q \notin {p})
      BY <3>2 DEF Latch
    <3>4. irr[q] => q = p
      BY <2>1, <2>2 DEF Line
    <3> QED
      BY <3>1, <3>3, <3>4
  <2>4. Handed'
    BY <1>2, <1>12, <2>1, <2>3 DEF Handed
  <2>5. EachByteOnce'
    <3>1. SUFFICES ASSUME NEW q \in Ports, NEW n \in (since[q] + 1) .. Given(q)
                   PROVE  own'[q][n].by = IF own'[q][n].byte = Ack THEN <<>> ELSE <<q>>
      BY <1>2, <1>5, <2>2, <3>1 DEF EachByteOnce, Unread
    <3>2. since[q] \in Nat /\ Given(q) \in Nat /\ since[q] # Nothing
      BY <1>1, <2>1, <1>12, DataFacts DEF Ports
    <3>3. n \in 1 .. Given(q)
      BY <3>1, <3>2
    <3>4. own[q][n].by = IF Unread(q, n) \/ own[q][n].byte = Ack THEN <<>> ELSE <<q>>
      BY <3>1, <3>2 DEF IInv, EachByteOnce
    <3>5. own'[q][n].byte = own[q][n].byte
      BY <1>1, <1>2, <1>5, <3>3, PrintedFacts
    <3>6. CASE q = out.src /\ n = out.n
      <4>1. q = p /\ out.n # 0 /\ own[q][n].by = <<>>
        BY <2>2, <3>3, <3>4, <3>6 DEF Pin, Ports, Unread
      <4>2. out.byte = own[q][n].byte
        BY <1>5, <3>6, <4>1 DEF Bytes
      <4>3. CASE out.byte = Ack
        BY <3>5, <4>1, <4>2, <4>3
      <4>4. CASE out.byte # Ack
        <5>1. own' = Printed(p)
          BY <2>2, <4>4
        <5>2. own'[q][n].by = Append(own[q][n].by, p)
          BY <1>1, <1>5, <3>6, <4>1, <5>1, PrintedFacts
        <5> QED
          BY <3>5, <4>1, <4>2, <4>4, <5>2
      <4> QED
        BY <4>3, <4>4
    <3>7. CASE ~(q = out.src /\ n = out.n)
      BY <1>1, <1>2, <1>5, <3>3, <3>4, <3>5, <3>7, PrintedFacts DEF Unread
    <3> QED
      BY <3>6, <3>7
  <2> QED
    BY <1>4, <1>5, <1>6, <1>7, <1>8, <1>10, <2>4, <2>5 DEF IInv
<1> QED
  BY <1>11, <1>12

-----------------------------------------------------------------------------
(* The controller and the devices.                                         *)

\* A key is pressed or the mouse moved.
LEMMA ProducePreserves ==
    ASSUME IInv, NEW p \in Ports, Produce(p)
    PROVE  IInv'
<1> USE DEF Produce, main
<1>1. TypeMain /\ TypeRead /\ TypePins /\ TypeCtl /\ TypeData /\ TypeLog
  BY TypeParts DEF IInv
<1>2. /\ UNCHANGED <<pc, step, timeout, cb, rd, isr, handler, masked, irr, out, ctl, reply, own, attached, live, since, missed>>
      /\ born[p] < MaxData[p] /\ born' = [born EXCEPT ![p] = @ + 1]
  OBVIOUS
<1>3. TypeData'
  <2>1. born[p] \in Nat /\ MaxData[p] \in Nat /\ Given(p) <= born[p] /\ Given(p) \in Nat
    BY <1>1, DataFacts DEF TypeData
  <2>2. born' \in [Ports -> Nat]
    BY <1>1, <1>2, <2>1 DEF TypeData
  <2>3. \A q \in Ports : Given(q) <= born'[q] /\ born'[q] <= MaxData[q]
    BY <1>1, <1>2, <2>1, DataFacts DEF TypeData
  <2> QED
    BY <1>1, <1>2, <2>2, <2>3 DEF TypeData
<1>4. TypeOK'
  <2>1. TypePins' /\ TypeMain' /\ TypeRead'
    BY <1>1, <1>2 DEF TypePins, TypeMain, TypeRead
  <2>2. TypeCtl' /\ TypeLog'
    BY <1>1, <1>2 DEF TypeCtl, TypeLog
  <2> QED
    BY <2>1, <2>2, <1>3, TypePartsNext
<1>5. Reading' /\ Handlers' /\ Pins'
  BY <1>2 DEF IInv, Reading, Handlers, Pins
<1>6. Fresh'
  BY <1>2 DEF IInv, Fresh, Forgotten, Line
<1>7. Bytes' /\ MissedUnread'
  BY <1>2 DEF IInv, Bytes, MissedUnread
<1>8. Handed' /\ EachByteOnce'
  BY <1>2 DEF IInv, Handed, EachByteOnce, Unread, Line
<1> QED
  BY <1>4, <1>5, <1>6, <1>7, <1>8 DEF IInv

\* A byte that enters the empty buffer raises its line: the edge is latched,
\* or met a masked pin.
LEMMA DeliverEdge ==
    ASSUME IInv, NEW src \in Sources, NEW byte, NEW n, Deliver(src, byte, n)
    PROVE  /\ TypePins' /\ MissedUnread' /\ Fresh'
           /\ since["kbd"] # Nothing =>
                 pc = "halt" /\ \A p \in Ports : irr'[p] <=> Line(out, ctl, p)'
<1> USE DEF Deliver, main
<1>1. TypePins /\ MissedUnread /\ Pins
  BY TypeParts DEF IInv
<1>2. /\ UNCHANGED <<pc, rd, timeout, handler, masked, ctl, since>>
      /\ ~out.full /\ out' = [full |-> TRUE, byte |-> byte, src |-> src, n |-> n]
  OBVIOUS
<1>3. TypePins' /\ MissedUnread'
  BY <1>1, <1>2, LatchTypes DEF TypePins, MissedUnread
<1>4. \A p \in Ports : /\ ~Line(out, ctl, p)
                       /\ Rises(p) <=> Line(out, ctl, p)'
                       /\ irr'[p] <=> irr[p] \/ (Rises(p) /\ ~masked[p])
  BY <1>2 DEF Line, Rises, Latch
<1>5. \A p \in Ports : Rises(p) /\ masked[p] => missed'
  <2>1. out'.full
    BY <1>2
  <2>2. missed' = (out'.full /\ (missed \/ \E p \in Ports : Rises(p) /\ masked[p]))
    BY DEF Latch
  <2> QED
    BY <2>1, <2>2, Zenon
<1>6. ~Forgotten'
  <2>1. Pin(out'.src) \in Ports
    BY DEF Pin, Ports
  <2> QED
    BY <1>4, <1>5, <2>1 DEF Forgotten
<1>7. Fresh'
  BY <1>6 DEF Fresh
<1>8. since["kbd"] # Nothing =>
         pc = "halt" /\ \A p \in Ports : irr'[p] <=> Line(out, ctl, p)'
  <2>1. SUFFICES ASSUME since["kbd"] # Nothing
                 PROVE  pc = "halt" /\ \A p \in Ports : irr'[p] <=> Line(out, ctl, p)'
    OBVIOUS
  <2>2. pc = "halt" /\ \A p \in Ports : irr[p] <=> Line(out, ctl, p)
    BY <2>1 DEF IInv, Handed
  <2>3. \A p \in Ports : ~masked[p]
    BY <1>1, <2>2 DEF Pins, Ports, KbdOpen, MouseHolds, Late
  <2> QED
    BY <1>4, <2>2, <2>3
<1> QED
  BY <1>3, <1>7, <1>8

\* The controller passes a reply on to its output buffer.
LEMMA DeliverReplyPreserves ==
    ASSUME IInv, NEW src \in Sources, DeliverReply(src)
    PROVE  IInv'
<1> USE DEF DeliverReply
<1>1. TypeMain /\ TypeRead /\ TypePins /\ TypeCtl /\ TypeData /\ TypeLog
  BY TypeParts DEF IInv
<1>2. reply[src] \in 0 .. 255
  BY <1>1 DEF TypeCtl
<1>3. /\ UNCHANGED <<pc, step, timeout, cb, rd, isr, handler, masked, ctl, born, own,
                     attached, live, since>>
      /\ out' = [full |-> TRUE, byte |-> reply[src], src |-> src, n |-> 0]
      /\ reply' = [reply EXCEPT ![src] = Nothing] /\ ~out.full
      /\ Deliver(src, reply[src], 0)
  BY DEF Deliver, main
<1>4. TypePins' /\ MissedUnread' /\ Fresh'
  BY <1>2, <1>3, DeliverEdge
<1>5. TypeOK'
  <2>1. TypeMain' /\ TypeRead' /\ TypeData' /\ TypeLog'
    BY <1>1, <1>3 DEF TypeMain, TypeRead, TypeData, TypeLog
  <2>2. TypeCtl'
    BY <1>1, <1>2, <1>3 DEF TypeCtl
  <2> QED
    BY <2>1, <2>2, <1>4, TypePartsNext
<1>6. Reading' /\ Handlers' /\ Pins'
  BY <1>3 DEF IInv, Reading, Handlers, Pins
<1>7. Bytes'
  BY <1>3 DEF Bytes
<1>8. Handed'
  BY <1>2, <1>3, DeliverEdge DEF IInv, Handed
<1>9. EachByteOnce'
  <2>1. SUFFICES ASSUME NEW q \in Ports, since[q] # Nothing, NEW n \in (since[q] + 1) .. Given(q)
                 PROVE  /\ own[q][n].by = IF own[q][n].byte = Ack THEN <<>> ELSE <<q>>
                        /\ n # 0
    BY <1>3, <2>1 DEF EachByteOnce, Unread
  <2>2. since[q] \in Nat /\ Given(q) \in Nat
    BY <1>1, <2>1, DataFacts DEF IInv, Handed
  <2>3. n # 0
    BY <2>1, <2>2
  <2> QED
    BY <1>3, <2>1, <2>3 DEF IInv, EachByteOnce, Unread
<1> QED
  BY <1>4, <1>5, <1>6, <1>7, <1>8, <1>9 DEF IInv

\* The controller passes a device's byte on to its output buffer.
LEMMA DeliverDataPreserves ==
    ASSUME IInv, NEW p \in Ports, DeliverData(p)
    PROVE  IInv'
<1> USE DEF DeliverData
<1>1. TypeMain /\ TypeRead /\ TypePins /\ TypeCtl /\ TypeData /\ TypeLog
  BY TypeParts DEF IInv
<1>2. PICK b \in Values[p], m \in Nat \ {0} :
         /\ m = Given(p) + 1 /\ m <= born[p] /\ Deliver(p, b, m)
         /\ own' = [own EXCEPT ![p] = Append(@, [byte |-> b, by |-> <<>>])]
  <2>1. Given(p) \in Nat /\ born[p] \in Nat
    BY <1>1, DataFacts DEF TypeData
  <2>2. Given(p) + 1 \in Nat \ {0} /\ Given(p) + 1 <= born[p]
    BY <2>1
  <2> QED
    BY <2>2
<1>3. b \in 0 .. 255 /\ p \in Sources
  BY CountersFit DEF Sources, Ports
<1>4. /\ UNCHANGED <<pc, step, timeout, cb, rd, isr, handler, masked, ctl, born, reply,
                     attached, live, since>>
      /\ out' = [full |-> TRUE, byte |-> b, src |-> p, n |-> m] /\ ~out.full
  BY <1>2 DEF Deliver, main
<1>5. TypePins' /\ MissedUnread' /\ Fresh'
  BY <1>2, <1>3, DeliverEdge
<1>6. /\ own' \in [Ports -> OwnBytes] /\ Given(p)' = m
      /\ own'[p][m] = [byte |-> b, by |-> <<>>]
      /\ \A n \in 1 .. Given(p) : own'[p][n] = own[p][n]
      /\ \A q \in Ports : q # p => own'[q] = own[q]
      /\ \A q \in Ports : Given(q) <= Given(q)'
  <2> DEFINE Entry == [byte : 0 .. 255, by : Seq(Ports)]
  <2>1. PICK e \in Entry : e = [byte |-> b, by |-> <<>>]
    <3>1. <<>> \in Seq(Ports)
      BY EmptySeq
    <3>2. [byte |-> b, by |-> <<>>] \in Entry
      BY <1>3, <3>1
    <3> QED
      BY <3>2
  <2>2. own[p] \in Seq(Entry) /\ own \in [Ports -> OwnBytes]
    BY <1>1 DEF TypeData, OwnBytes
  <2>3. PICK t : t = Append(own[p], e)
    OBVIOUS
  <2>4. /\ t \in Seq(Entry) /\ Len(t) = Len(own[p]) + 1 /\ t[Len(own[p]) + 1] = e
        /\ \A n \in 1 .. Len(own[p]) : t[n] = own[p][n]
    BY <2>1, <2>2, <2>3, AppendProperties
  <2>5. own' = [own EXCEPT ![p] = t]
    BY <1>2, <2>1, <2>3
  <2>6. own'[p] = t /\ \A q \in Ports : q # p => own'[q] = own[q]
    BY <2>2, <2>5
  <2>7. own' \in [Ports -> OwnBytes]
    BY <2>2, <2>4, <2>5 DEF OwnBytes
  <2>8. Given(p)' = m /\ own'[p][m] = e
    BY <1>2, <2>4, <2>6
  <2>9. \A q \in Ports : Given(q) <= Given(q)'
    BY <1>1, <1>2, <2>6, <2>8, DataFacts
  <2> QED
    BY <2>1, <2>4, <2>6, <2>7, <2>8, <2>9
<1>7. TypeOK'
  <2>1. TypeMain' /\ TypeRead'
    BY <1>1, <1>4 DEF TypeMain, TypeRead
  <2>2. TypeCtl'
    BY <1>1, <1>3, <1>4 DEF TypeCtl
  <2>3. TypeData'
    <3>1. \A q \in Ports : Given(q)' <= born[q]
      BY <1>1, <1>2, <1>6 DEF TypeData
    <3> QED
      BY <1>1, <1>4, <1>6, <3>1 DEF TypeData
  <2>4. TypeLog'
    <3>1. \A q \in Ports : since[q] \in 0 .. Given(q) => since[q] \in 0 .. Given(q)'
      <4> SUFFICES ASSUME NEW q \in Ports, since[q] \in 0 .. Given(q)
                   PROVE  since[q] \in 0 .. Given(q)'
        OBVIOUS
      <4>1. Given(q) \in Nat /\ Given(q)' \in Nat /\ Given(q) <= Given(q)'
        BY <1>1, <1>2, <1>6, DataFacts
      <4> QED
        BY <4>1
    <3> QED
      BY <1>1, <1>4, <3>1 DEF TypeLog
  <2> QED
    BY <2>1, <2>2, <2>3, <2>4, <1>5, TypePartsNext
<1>8. Reading' /\ Handlers' /\ Pins'
  BY <1>4 DEF IInv, Reading, Handlers, Pins
<1>9. Bytes'
  BY <1>4, <1>6 DEF Bytes
<1>10. Handed'
  BY <1>2, <1>3, <1>4, DeliverEdge DEF IInv, Handed
<1>11. EachByteOnce'
  <2>1. SUFFICES ASSUME NEW q \in Ports, since[q] # Nothing, NEW n \in (since[q] + 1) .. Given(q)'
                 PROVE  own'[q][n].by = IF (q = p /\ n = m) \/ own'[q][n].byte = Ack
                                        THEN <<>> ELSE <<q>>
    BY <1>4, <2>1 DEF EachByteOnce, Unread
  <2>2. since[q] \in Nat /\ Given(q) \in Nat
    BY <1>1, <2>1, DataFacts DEF IInv, Handed
  <2>3. CASE q = p /\ n = m
    BY <1>6, <2>3
  <2>4. CASE ~(q = p /\ n = m)
    <3>1. n \in (since[q] + 1) .. Given(q) /\ n \in 1 .. Given(q)
      BY <1>2, <1>6, <2>1, <2>2, <2>4
    <3>2. own'[q][n] = own[q][n]
      BY <1>6, <3>1
    <3>3. own[q][n].by = IF own[q][n].byte = Ack THEN <<>> ELSE <<q>>
      BY <1>4, <2>1, <3>1 DEF IInv, EachByteOnce, Unread
    <3> QED
      BY <2>4, <3>2, <3>3
  <2> QED
    BY <2>3, <2>4
<1> QED
  BY <1>5, <1>7, <1>8, <1>9, <1>10, <1>11 DEF IInv

-----------------------------------------------------------------------------

\* Every step of the main flow.
LEMMA MainPreserves == IInv /\ Main => IInv'
<1> SUFFICES ASSUME IInv, Main PROVE IInv'
  OBVIOUS
<1>1. TypeMain /\ TypePins /\ TypeCtl
  BY TypeParts DEF IInv
<1>2. CASE isr = "none" /\ (Poll("main") \/ ReadPort("main"))
  BY <1>2, PollMainPreserves, ReadPortPreserves
<1>3. CASE DisableInterfaces \/ Flush \/ WriteCommandByte \/ EnableInterfaces
  BY <1>3, DisableInterfacesPreserves, FlushPreserves, WriteCommandBytePreserves,
     EnableInterfacesPreserves
<1>4. CASE ReadCommandByte \/ SelfTest \/ InterfaceTest
  <2>1. AsByte(ctl) \in 0 .. 255 /\ SelfTestOk \in 0 .. 255 /\ 0 \in 0 .. 255
    <3>1. AsByte(ctl) \in 68 .. 119
      BY <1>1, CommandByteTypes DEF TypeCtl
    <3> QED
      BY <3>1 DEF SelfTestOk
  <2> QED
    BY <1>4, <2>1, CommandGetPreserves DEF ReadCommandByte, SelfTest, InterfaceTest
<1>5. CASE Flushed \/ GotSelfTest \/ NoMouseTest
  BY <1>1, <1>5, ContinuePreserves
     DEF Flushed, GotSelfTest, NoMouseTest, At, Returned, InitLabels, Late, TypeMain, TypePins
<1>6. CASE GotCommandByte
  <2>1. CommandByte(Got) \in [int : PerPort, off : PerPort]
    BY CommandByteTypes
  <2>2. [CommandByte(Got) EXCEPT !.int = [p \in Ports |-> FALSE]] \in [int : PerPort, off : PerPort]
    BY <2>1 DEF PerPort
  <2> QED
    BY <1>1, <1>6, <2>2, ContinuePreserves
       DEF GotCommandByte, Returned, InitLabels, Late, TypePins
<1>7. CASE GotKbdTest \/ GotMouseTest
  <2>1. PICK p \in Ports, next \in InitLabels : Tested(p, next) /\ isr = "none" /\ pc \notin Late
    BY <1>7 DEF GotKbdTest, GotMouseTest, Returned, Ports, InitLabels, Late
  <2>2. [handler EXCEPT ![p] = "i8042"] \in [Ports -> {"default", "i8042", "device"}]
    BY <1>1 DEF TypePins
  <2>3. [cb EXCEPT !.int[p] = TRUE] \in [int : PerPort, off : PerPort]
    BY <1>1 DEF TypeMain, PerPort
  <2> QED
    BY <1>1, <2>1, <2>2, <2>3, ContinuePreserves DEF Tested, TypeMain, TypePins
<1>8. CASE KbdMask \/ MouseMask \/ KbdHandler \/ MouseHandler \/ KbdSend \/ MouseSend
  BY <1>8, MaskPreserves, SetHandlerPreserves, SendPreserves
<1>9. CASE KbdWait \/ MouseWait \/ KbdUnmask \/ MouseUnmask
  BY <1>9, KbdWaitPreserves, MouseWaitPreserves, UnmaskPreserves
<1> QED
  BY <1>2, <1>3, <1>4, <1>5, <1>6, <1>7, <1>8, <1>9 DEF Main

\* The bound on a device's bytes is a number.
LEMMA MaxDataRange == \A p \in Ports : 0 <= MaxData[p]
<1>1. \A p \in Ports : MaxData[p] \in Nat
  BY DataFacts
<1> QED
  BY <1>1

\* Before i8042_init nothing is read or printed.
LEMMA InitEstablishes == Init => IInv
<1> SUFFICES ASSUME Init PROVE IInv
  OBVIOUS
<1> USE DEF Init
<1>1. TypeMain
  <2>1. 0 \in 0 .. UintMax /\ 1 \in 1 .. 4
    BY CountersFit
  <2> QED
    BY <2>1, CommandByteTypes DEF TypeMain, Labels
<1>2. TypeRead /\ rd["main"].at = "idle"
  BY ReadStates DEF TypeRead
<1>3. TypePins
  BY DEF TypePins, PerPort
<1>4. PICK f \in BOOLEAN : out = [full |-> f, byte |-> 0, src |-> "kbd", n |-> 0]
  OBVIOUS
<1>5. TypeCtl
  <2>1. PICK j \in [Ports -> BOOLEAN], d \in BOOLEAN :
            ctl = [int |-> [j EXCEPT !["mouse"] = @ /\ d],
                   off |-> [p \in Ports |-> FALSE], dual |-> d]
    OBVIOUS
  <2>2. [j EXCEPT !["mouse"] = @ /\ d] \in PerPort /\ [p \in Ports |-> FALSE] \in PerPort
    BY DEF PerPort, Ports
  <2>3. ctl \in [int : PerPort, off : PerPort, dual : BOOLEAN]
    BY <2>1, <2>2
  <2>4. out \in [full : BOOLEAN, byte : 0 .. 255, src : Sources, n : Nat]
    BY <1>4 DEF Sources, Ports
  <2> QED
    BY <2>3, <2>4 DEF TypeCtl
<1>6. TypeData
  <2>1. attached \subseteq Ports /\ live \subseteq attached
    BY DEF Ports
  <2>2. \A p \in Ports : 0 <= MaxData[p]
    BY MaxDataRange
  <2>3. /\ born \in [Ports -> Nat] /\ own \in [Ports -> OwnBytes]
        /\ \A p \in Ports : Given(p) = 0 /\ born[p] = 0
    BY DEF OwnBytes
  <2> QED
    BY <2>1, <2>2, <2>3 DEF TypeData
<1>7. TypeLog
  BY DEF TypeLog
<1>8. TypeOK
  BY <1>1, <1>2, <1>3, <1>5, <1>6, <1>7, TypeParts
<1>9. Reading /\ Handlers /\ Pins /\ Fresh /\ MissedUnread
  BY <1>2 DEF Reading, Handlers, Pins, Fresh, MissedUnread, KbdHolds, KbdOpen, MouseHolds, Late
<1>10. Bytes
  BY <1>4 DEF Bytes
<1>11. Handed /\ EachByteOnce
  BY DEF Handed, EachByteOnce, Unread, Ports
<1> QED
  BY <1>8, <1>9, <1>10, <1>11 DEF IInv

\* What the boot code, the handlers, the controller and the devices do in any
\* order keeps the invariant.
THEOREM Invariance == Spec => []IInv
<1>1. IInv /\ [Next]_vars => IInv'
  <2> SUFFICES ASSUME IInv, [Next]_vars PROVE IInv'
    OBVIOUS
  <2>1. CASE UNCHANGED vars
    <3>1. TypeOK' /\ Reading' /\ Handlers' /\ Pins' /\ Bytes'
      BY <2>1 DEF vars, IInv, TypeOK, Reading, Handlers, Pins, Bytes
    <3>2. Fresh' /\ MissedUnread' /\ Handed' /\ EachByteOnce'
      BY <2>1 DEF vars, IInv, Fresh, Forgotten, Line, MissedUnread, Handed, EachByteOnce, Unread
    <3> QED
      BY <3>1, <3>2 DEF IInv
  <2>2. CASE Main
    BY <2>2, MainPreserves
  <2>3. CASE Hlt
    BY <2>1, <2>3 DEF Hlt
  <2>4. CASE Isr
    <3>1. rd["isr"].at = "inb" => isr # "none"
      BY TypeParts DEF IInv, TypeRead, Idle
    <3>2. ReadPort("isr") => IInv'
      BY <3>1, ReadPortPreserves DEF ReadPort
    <3> QED
      BY <2>4, <3>2, PollIsrPreserves, LeavePreserves DEF Isr
  <2>5. ASSUME NEW p \in Ports, Interrupt(p) \/ Produce(p) \/ DeliverData(p)
        PROVE  IInv'
    BY <2>5, HandlePreserves, EnterPreserves, ProducePreserves, DeliverDataPreserves
       DEF Interrupt
  <2>6. ASSUME NEW src \in Sources, DeliverReply(src)
        PROVE  IInv'
    BY <2>6, DeliverReplyPreserves
  <2> QED
    BY <2>1, <2>2, <2>3, <2>4, <2>5, <2>6 DEF Next
<1> QED
  BY <1>1, InitEstablishes, PTL DEF Spec

\* The counters of the polling loops of i8042_read, kbd_init and mouse_init
\* stay within a uint_t although they are decremented past zero, and a handler
\* runs exactly while its read is under way.
THEOREM TypeCorrect == Spec => []TypeOK
<1>1. IInv => TypeOK
  BY DEF IInv
<1> QED
  BY <1>1, Invariance, PTL

\* A byte left in the output buffer when the boot code is over has its
\* interrupt on the way, unless its edge met a masked pin: whatever the default
\* handler and the polling reads left behind, mouse_init's first read takes.
THEOREM NoByteForgotten == Spec => []StuckOnlyByLostEdge
<1>1. IInv => StuckOnlyByLostEdge
  BY DEF IInv, Fresh, Forgotten, Late, StuckOnlyByLostEdge
<1> QED
  BY <1>1, Invariance, PTL

\* After the hand-over of a quiet controller kbd_irq_handler and
\* mouse_irq_handler print each byte of their own device exactly once, but
\* for one that equals an ACK, which they drop: whatever values the devices
\* send, those of replies included.
THEOREM PrintedOnce == Spec => []EachByteOnce
<1>1. IInv => EachByteOnce
  BY DEF IInv
<1> QED
  BY <1>1, Invariance, PTL
=============================================================================
