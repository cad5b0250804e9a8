-------------------------------- MODULE Ps2 --------------------------------
(***************************************************************************)
(* The PS/2 start-up sequence of kmain: i8042_init, kbd_init, mouse_init,  *)
(* which poll the controller with interrupts enabled, against the three    *)
(* interrupt handlers that read the same data port, the 8042 controller,   *)
(* its two devices, and the masking of their pins in the IOAPIC.           *)
(*                                                                         *)
(* Bytes are numbers, since the drivers tell replies from data by their    *)
(* values alone.  The controller, the devices and the interrupt delivery   *)
(* are external: they answer after any delay, or not at all when no device *)
(* is attached.                                                            *)
(***************************************************************************)
EXTENDS Integers, Sequences

CONSTANTS
    Retry,      \* status polls of one i8042_read (500 in the code)
    Timeout,    \* reads of one wait for a reply (512 in the code)
    UintMax,    \* what a uint_t at zero is decremented to
    MaxKeys,    \* bytes the keyboard may send on its own account
    MaxMoves,   \* bytes the mouse may send on its own account
    Values,     \* what the bytes of each may be, the values of replies included
    Sent        \* whether a byte i8042_write was given is written

ASSUME CountersFit ==
    /\ Retry \in Nat \ {0, 1} /\ Timeout \in Nat \ {0}
    /\ UintMax \in Nat /\ UintMax > Retry /\ UintMax > Timeout
    /\ MaxKeys \in Nat /\ MaxMoves \in Nat
    /\ \A p \in {"kbd", "mouse"} : Values[p] \subseteq 0..255
    /\ TRUE \in Sent /\ Sent \subseteq BOOLEAN

Ports == {"kbd", "mouse"}          \* vectors 33 and 44, pins 1 and 12
Sources == Ports \cup {"ctl"}

Ack == 250                         \* 0xFA
Echo == 238                        \* 0xEE
SelfTestOk == 85                   \* 0x55
Nothing == -1                      \* no reply is owed
MaxData == [kbd |-> MaxKeys, mouse |-> MaxMoves]

VARIABLES
    pc,         \* the statement the boot code is at
    step,       \* which keyboard command kbd_init is at
    timeout,    \* the wait counter of kbd_init and mouse_init
    cb,         \* i8042_init's local copy of the command byte
    rd,         \* i8042_read as called by "main" and by "isr"
    isr,        \* the port whose handler is running, or "none"
    handler,    \* idt_gate_callback of vectors 33 and 44
    masked,     \* the mask bits of pins 1 and 12 in the IOAPIC
    irr,        \* vectors 33 and 44 waiting in the local APIC
    out,        \* the controller's output buffer: full, the byte, its source, and
                \* which of the source's own bytes it is, 0 for a reply
    ctl,        \* the controller's command byte
    reply,      \* the reply each source owes
    born,       \* how many bytes each device has produced of its own accord
    own,        \* those the controller has taken, each with the drivers' handlers
                \* that printed it, in order
    attached,   \* which devices exist
    live,       \* which of them report keys or moves
    missed,     \* an edge met a masked pin and its byte is still unread
    since       \* the bytes each device had sent when the drivers took over
                \* a quiet controller, Nothing if they have not

main == <<pc, step, timeout, cb>>
device == <<ctl, reply, born, own, attached, live>>
vars == <<pc, step, timeout, cb, rd, isr, handler, masked, irr, out, ctl,
          reply, born, own, attached, live, missed, since>>

\* How many bytes of its own device p has given the controller.
Given(p) == Len(own[p])

Bit(b, k) == (b \div 2^k) % 2 = 1

\* The fields of the command byte the drivers use: the two interrupt enables
\* and the two clock inhibits.
CommandByte(b) == [int |-> [kbd |-> Bit(b, 0), mouse |-> Bit(b, 1)],
                   off |-> [kbd |-> Bit(b, 4), mouse |-> Bit(b, 5)]]

One(p) == IF p THEN 1 ELSE 0

\* The byte a command byte is read as; translation and system flag are set.
AsByte(c) == 68 + One(c.int.kbd) + 2 * One(c.int.mouse)
                + 16 * One(c.off.kbd) + 32 * One(c.off.mouse)

\* As if the counters were signed.
DecrementSigned(n) == n - 1

Decrement(n) == IF n = 0 THEN UintMax ELSE n - 1

Idle == [at |-> "idle", retry |-> 0, got |-> 0]
Begin == [at |-> "poll", retry |-> Retry, got |-> 0]

-----------------------------------------------------------------------------
(* The interrupt line of a port follows the output buffer; the IOAPIC takes *)
(* its rising edges, and ignores those on a masked pin.                     *)

Pin(src) == IF src = "mouse" THEN "mouse" ELSE "kbd"
Line(o, c, p) == o.full /\ Pin(o.src) = p /\ c.int[p]
Rises(p) == Line(out', ctl', p) /\ ~Line(out, ctl, p)

\* Takes the edges of a step that changed the output buffer or command byte.
Latch(taken) ==
    /\ irr' = [p \in Ports |-> (irr[p] /\ p \notin taken) \/ (Rises(p) /\ ~masked[p])]
    /\ missed' = (out'.full /\ (missed \/ \E p \in Ports : Rises(p) /\ masked[p]))

-----------------------------------------------------------------------------
(* i8042_read.  A loop that runs out leaves retry at UintMax, so the data   *)
(* port is read all the same; one that succeeds on its last poll leaves it  *)
(* at zero, and the byte stays where it is.                                 *)

AfterPoll(r) ==
    LET left == Decrement(r.retry)
    IN  IF r.retry > 0 /\ ~out.full THEN [r EXCEPT !.retry = left]
        ELSE IF left = 0 THEN [at |-> "done", retry |-> 0, got |-> 0]
        ELSE [r EXCEPT !.at = "inb", !.retry = left]

Poll(who) ==
    /\ rd[who].at = "poll"
    /\ rd' = [rd EXCEPT ![who] = AfterPoll(rd[who])]
    /\ UNCHANGED <<main, isr, handler, masked, irr, out, device, since, missed>>

\* io_port_inb(0x60): an empty buffer gives its last byte once more.
Inb == out' = [out EXCEPT !.full = FALSE]

ReadPort(who) ==
    /\ rd[who].at = "inb"
    /\ rd' = [rd EXCEPT ![who] = [at |-> "done", retry |-> 0, got |-> out.byte]]
    /\ Inb
    /\ UNCHANGED <<main, isr, handler, masked, device, since>>
    /\ Latch({})

-----------------------------------------------------------------------------
(* Statements of the boot code.  Main is a step of it: it runs only while   *)
(* no handler does.                                                         *)

At(label) == pc = label /\ isr = "none" /\ rd["main"].at = "idle"
Returned(label) == pc = label /\ isr = "none" /\ rd["main"].at = "done"
Got == rd["main"].got
Goto(label) == pc' = label

\* A controller command that is answered, and the read of its answer.
CommandGet(label, answer) ==
    /\ At(label)
    /\ rd' = [rd EXCEPT !["main"] = Begin]
    /\ reply' = [reply EXCEPT !["ctl"] = answer]
    /\ UNCHANGED <<main, isr, handler, masked, irr, out, ctl, born, own, attached,
                   live, since, missed>>

\* The two commands that inhibit the interfaces; a controller with one
\* channel has no mouse clock to inhibit.
DisableInterfaces ==
    /\ At("disable")
    /\ ctl' = [ctl EXCEPT !.off = [kbd |-> TRUE, mouse |-> ctl.dual]]
    /\ Goto("flush")
    /\ UNCHANGED <<step, timeout, cb, rd, isr, handler, masked, irr, out, reply, born,
                   own, attached, live, since, missed>>

Flush ==
    /\ At("flush")
    /\ rd' = [rd EXCEPT !["main"] = Begin]
    /\ UNCHANGED <<main, isr, handler, masked, irr, out, device, since, missed>>

\* Leaves a read: the next statement, the callbacks and the local copy.
Continue(label, hs, c) ==
    /\ Goto(label)
    /\ handler' = hs
    /\ cb' = c
    /\ rd' = [rd EXCEPT !["main"] = Idle]
    /\ UNCHANGED <<step, timeout, isr, masked, irr, out, device, since, missed>>

Flushed == Returned("flush") /\ Continue("readCb", handler, cb)

ReadCommandByte == CommandGet("readCb", AsByte(ctl))

GotCommandByte ==
    /\ Returned("readCb")
    /\ Continue("selfTest", handler,
                [CommandByte(Got) EXCEPT !.int = [p \in Ports |-> FALSE]])

SelfTest == CommandGet("selfTest", SelfTestOk)

GotSelfTest ==
    /\ Returned("selfTest")
    /\ Continue(IF Got = SelfTestOk THEN "kbdTest" ELSE "kbdMask", handler, cb)

InterfaceTest == CommandGet("kbdTest", 0) \/ (cb.off.mouse /\ CommandGet("mouseTest", 0))

\* A passed test enables the port's interrupt and registers i8042_irq_handler.
Tested(p, next) ==
    IF Got = 0
    THEN Continue(next, [handler EXCEPT ![p] = "i8042"], [cb EXCEPT !.int[p] = TRUE])
    ELSE Continue(next, handler, cb)

GotKbdTest == Returned("kbdTest") /\ Tested("kbd", "mouseTest")
GotMouseTest == Returned("mouseTest") /\ Tested("mouse", "writeCb")

NoMouseTest ==
    /\ At("mouseTest") /\ ~cb.off.mouse
    /\ Continue("writeCb", handler, cb)

\* i8042_write: an input buffer that empties on the very last poll leaves
\* retry at zero, and the byte is not sent.
Written == Sent

WriteCommandByte ==
    /\ At("writeCb")
    /\ \E sent \in Written :
           ctl' = IF sent THEN [ctl EXCEPT !.int = cb.int,
                                           !.off = [cb.off EXCEPT !.mouse = @ /\ ctl.dual]]
                  ELSE ctl
    /\ Goto("enable")
    /\ UNCHANGED out
    /\ UNCHANGED <<step, timeout, cb, rd, isr, handler, masked, reply, born, own,
                   attached, live, since>>
    /\ Latch({})

EnableInterfaces ==
    /\ At("enable")
    /\ ctl' = [ctl EXCEPT !.off = [p \in Ports |-> @[p] /\ ~cb.int[p]]]
    /\ Goto("kbdMask")
    /\ UNCHANGED <<step, timeout, cb, rd, isr, handler, masked, irr, out, reply, born,
                   own, attached, live, since, missed>>

-----------------------------------------------------------------------------
(* kbd_init and mouse_init.                                                 *)

\* What kbd_init writes, and the reply it waits for.
Script == <<[send |-> 244, await |-> Ack],     \* 0xF4 enable scanning
            [send |-> 238, await |-> Echo],    \* 0xEE echo
            [send |-> 237, await |-> Ack],     \* 0xED set LEDs
            [send |-> 0,   await |-> Ack]>>    \* its argument

Mask(p, label, next) ==
    /\ At(label)
    /\ masked' = [masked EXCEPT ![p] = TRUE]
    /\ Goto(next)
    /\ UNCHANGED <<step, timeout, cb, rd, isr, handler, irr, out, device, since,
                   missed>>

Unmask(p, label, next) ==
    /\ At(label)
    /\ masked' = [masked EXCEPT ![p] = FALSE]
    /\ Goto(next)
    /\ since' = IF next = "halt" /\ ~out.full /\ ~irr.kbd /\ ~irr.mouse
                THEN [q \in Ports |-> Given(q)] ELSE since
    /\ UNCHANGED <<step, timeout, cb, rd, isr, handler, irr, out, device, missed>>

SetHandler(p, label, next) ==
    /\ At(label)
    /\ handler' = [handler EXCEPT ![p] = "device"]
    /\ Goto(next)
    /\ UNCHANGED <<step, timeout, cb, rd, isr, masked, irr, out, device, since,
                   missed>>

\* A byte for a device: its interface is enabled again, the device forgets
\* the reply it owed, owes the new one, and reports (each port's first byte is
\* the command that makes it).
Send(p, answer) ==
    /\ \E sent \in Written :
           IF sent
           THEN /\ ctl' = [ctl EXCEPT !.off[p] = FALSE]
                /\ reply' = IF p \in attached THEN [reply EXCEPT ![p] = answer] ELSE reply
                /\ live' = live \cup (attached \cap {p})
           ELSE UNCHANGED <<ctl, reply, live>>
    /\ timeout' = Timeout
    /\ UNCHANGED <<step, cb, rd, isr, handler, masked, irr, out, born, own, attached,
                   since, missed>>

KbdSend == At("kbdSend") /\ Send("kbd", Script[step].await) /\ Goto("kbdWait")
MouseSend == At("mouseSend") /\ Send("mouse", Ack) /\ Goto("mouseWait")

\* The wait without its timeout.
WaitForever(label, next) ==
    /\ At(label)
    /\ rd' = [rd EXCEPT !["main"] = Begin]
    /\ UNCHANGED <<main, isr, handler, masked, irr, out, device, since, missed>>

\* while( timeout-- && i8042_read() != ... ): the test, then the read.
Wait(label, next) ==
    /\ At(label)
    /\ timeout' = Decrement(timeout)
    /\ IF timeout = 0
       THEN next /\ UNCHANGED rd
       ELSE rd' = [rd EXCEPT !["main"] = Begin] /\ UNCHANGED <<pc, step>>
    /\ UNCHANGED <<cb, isr, handler, masked, irr, out, device, since, missed>>

\* The read inside the condition returned: leave the loop, or test again.
Awaited(label, byte, next) ==
    /\ Returned(label)
    /\ rd' = [rd EXCEPT !["main"] = Idle]
    /\ IF Got = byte THEN next ELSE UNCHANGED <<pc, step>>
    /\ UNCHANGED <<timeout, cb, isr, handler, masked, irr, out, device, since, missed>>

\* The wait is over, with a reply or without: the next command, or the end of
\* the function.  (What the ACK line says then is left out.)
KbdNext ==
    IF step < Len(Script)
    THEN step' = step + 1 /\ Goto("kbdSend")
    ELSE Goto("kbdUnmask") /\ UNCHANGED step

MouseNext == Goto("mouseUnmask") /\ UNCHANGED step

KbdWait ==
    \/ Wait("kbdWait", KbdNext)
    \/ Awaited("kbdWait", Script[step].await, KbdNext)

MouseWait ==
    \/ Wait("mouseWait", MouseNext)
    \/ Awaited("mouseWait", Ack, MouseNext)

KbdMask == Mask("kbd", "kbdMask", "kbdHandler")

\* The keyboard driver given the mouse's vector, or none.
KbdHandlerMisplaced == SetHandler("mouse", "kbdHandler", "kbdSend")
KbdHandlerForgotten == Mask("kbd", "kbdHandler", "kbdSend")

KbdHandler == SetHandler("kbd", "kbdHandler", "kbdSend")
KbdUnmask == Unmask("kbd", "kbdUnmask", "mouseMask")
MouseMask == Mask("mouse", "mouseMask", "mouseHandler")
MouseHandler == SetHandler("mouse", "mouseHandler", "mouseSend")
MouseUnmask == Unmask("mouse", "mouseUnmask", "halt")

Hlt == At("halt") /\ UNCHANGED vars

-----------------------------------------------------------------------------
(* The handlers.  Their gates are interrupt gates, so none interrupts       *)
(* another, and each runs to its iret.                                      *)

\* The handler of port p prints what it has read.
Printed(p) ==
    IF out.n = 0 THEN own ELSE [own EXCEPT ![out.src][out.n].by = Append(@, p)]

\* The default idt_interrupt_handler prints and acknowledges, and leaves the
\* data port alone; kbd_irq_handler and mouse_irq_handler read it once and
\* drop whatever equals an ACK.
Handle(p) ==
    /\ irr[p] /\ isr = "none" /\ handler[p] # "i8042"
    /\ IF handler[p] = "default" THEN UNCHANGED out ELSE Inb
    /\ own' = IF handler[p] = "default" \/ out.byte = Ack THEN own ELSE Printed(p)
    /\ UNCHANGED <<main, rd, isr, handler, masked, ctl, reply, born, attached, live, since>>
    /\ Latch({p})

\* i8042_irq_handler polls with i8042_read and prints whatever it returns.
EnterI8042(p) ==
    /\ irr[p] /\ isr = "none" /\ handler[p] = "i8042"
    /\ isr' = p
    /\ rd' = [rd EXCEPT !["isr"] = Begin]
    /\ irr' = [irr EXCEPT ![p] = FALSE]
    /\ UNCHANGED <<main, handler, masked, out, device, since, missed>>

LeaveI8042 ==
    /\ isr # "none" /\ rd["isr"].at = "done"
    /\ isr' = "none"
    /\ rd' = [rd EXCEPT !["isr"] = Idle]
    /\ UNCHANGED <<main, handler, masked, irr, out, device, since, missed>>

-----------------------------------------------------------------------------
(* The controller and the devices.                                          *)

\* A key is pressed, or the mouse moved while it reports.
Produce(p) ==
    /\ p \in live /\ born[p] < MaxData[p]
    /\ born' = [born EXCEPT ![p] = @ + 1]
    /\ UNCHANGED <<main, rd, isr, handler, masked, irr, out, ctl, reply, own, attached,
                   live, since, missed>>

Deliver(src, byte, n) ==
    /\ ~out.full
    /\ out' = [full |-> TRUE, byte |-> byte, src |-> src, n |-> n]
    /\ UNCHANGED <<main, rd, isr, handler, masked, ctl, born, attached, live, since>>
    /\ Latch({})

\* A reply reaches the output buffer; a device's needs its clock.
DeliverReply(src) ==
    /\ reply[src] # Nothing
    /\ src \in Ports => ~ctl.off[src]
    /\ Deliver(src, reply[src], 0)
    /\ reply' = [reply EXCEPT ![src] = Nothing]
    /\ UNCHANGED own

\* A data byte does, once the device owes no reply.  A scan code or a movement
\* may have any value, that of a reply too.
DeliverData(p) ==
    /\ Given(p) < born[p] /\ reply[p] = Nothing /\ ~ctl.off[p]
    /\ \E b \in Values[p] :
          /\ Deliver(p, b, Given(p) + 1)
          /\ own' = [own EXCEPT ![p] = Append(@, [byte |-> b, by |-> <<>>])]
    /\ UNCHANGED reply

-----------------------------------------------------------------------------
\* sti has been executed, ioapic_init left both pins unmasked, idt_init the
\* default handler; the firmware left the keyboard scanning and any
\* interrupt enables, perhaps with a byte unread.
Init ==
    /\ pc = "disable" /\ step = 1 /\ timeout = 0 /\ cb = CommandByte(0)
    /\ rd = [who \in {"main", "isr"} |-> Idle]
    /\ isr = "none"
    /\ handler = [p \in Ports |-> "default"]
    /\ masked = [p \in Ports |-> FALSE]
    /\ irr = [p \in Ports |-> FALSE]
    /\ \E f \in BOOLEAN : out = [full |-> f, byte |-> 0, src |-> "kbd", n |-> 0]
    /\ \E i \in [Ports -> BOOLEAN], d \in BOOLEAN :
           ctl = [int |-> [i EXCEPT !["mouse"] = @ /\ d],
                  off |-> [p \in Ports |-> FALSE], dual |-> d]
    /\ reply = [src \in Sources |-> Nothing]
    /\ born = [p \in Ports |-> 0] /\ own = [p \in Ports |-> <<>>]
    /\ attached \in SUBSET (IF ctl.dual THEN Ports ELSE {"kbd"})
    /\ live = attached \cap {"kbd"}
    /\ missed = FALSE /\ since = [p \in Ports |-> Nothing]

Main ==
    \/ isr = "none" /\ (Poll("main") \/ ReadPort("main"))
    \/ DisableInterfaces \/ Flush \/ Flushed
    \/ ReadCommandByte \/ GotCommandByte \/ SelfTest \/ GotSelfTest
    \/ InterfaceTest \/ GotKbdTest \/ GotMouseTest \/ NoMouseTest
    \/ WriteCommandByte \/ EnableInterfaces
    \/ KbdMask \/ KbdHandler \/ KbdSend \/ KbdWait \/ KbdUnmask
    \/ MouseMask \/ MouseHandler \/ MouseSend \/ MouseWait \/ MouseUnmask

Isr == Poll("isr") \/ ReadPort("isr") \/ LeaveI8042

Interrupt(p) == Handle(p) \/ EnterI8042(p)

Next ==
    \/ Main \/ Hlt \/ Isr
    \/ \E p \in Ports : Interrupt(p) \/ Produce(p) \/ DeliverData(p)
    \/ \E src \in Sources : DeliverReply(src)

Spec == Init /\ [][Next]_vars

(***************************************************************************)
(* The processor executes instructions and takes interrupts that stay      *)
(* requested, and a controller with an empty output buffer fills it.       *)
(***************************************************************************)
FairSpec ==
    /\ Spec
    /\ WF_vars(Main) /\ WF_vars(Isr)
    /\ \A p \in Ports : WF_vars(Interrupt(p)) /\ WF_vars(DeliverData(p))
    /\ \A src \in Sources : WF_vars(DeliverReply(src))

-----------------------------------------------------------------------------
Reads == [at : {"idle", "poll", "inb", "done"}, retry : 0..UintMax, got : 0..255]

Labels == {"disable", "flush", "readCb", "selfTest", "kbdTest", "mouseTest", "writeCb",
           "enable", "kbdMask", "kbdHandler", "kbdSend", "kbdWait", "kbdUnmask",
           "mouseMask", "mouseHandler", "mouseSend", "mouseWait", "mouseUnmask", "halt"}

PerPort == [Ports -> BOOLEAN]

OwnBytes == Seq([byte : 0..255, by : Seq(Ports)])

\* Types: the counters of the two polling loops stay unsigned, and a handler
\* is running exactly while its read is under way.
TypeOK ==
    /\ pc \in Labels /\ step \in 1..Len(Script) /\ timeout \in 0..UintMax
    /\ cb \in [int : PerPort, off : PerPort]
    /\ rd \in [{"main", "isr"} -> Reads]
    /\ isr \in Ports \cup {"none"} /\ (isr = "none" <=> rd["isr"] = Idle)
    /\ handler \in [Ports -> {"default", "i8042", "device"}]
    /\ masked \in PerPort /\ irr \in PerPort
    /\ out \in [full : BOOLEAN, byte : 0..255, src : Sources, n : Nat]
    /\ ctl \in [int : PerPort, off : PerPort, dual : BOOLEAN]
    /\ reply \in [Sources -> {Nothing} \cup 0..255]
    /\ born \in [Ports -> Nat] /\ own \in [Ports -> OwnBytes]
    /\ \A p \in Ports : Given(p) <= born[p] /\ born[p] <= MaxData[p]
    /\ live \subseteq attached /\ attached \subseteq Ports
    /\ since # [p \in Ports |-> Nothing] => \A p \in Ports : since[p] \in 0..Given(p)
    /\ missed \in BOOLEAN

\* Byte n of device p's own is in the output buffer.
Unread(p, n) == out.full /\ out.src = p /\ out.n = n

\* When the boot code hands a quiet controller over (nothing unread, no
\* interrupt waiting), every byte a device sends from then on is printed
\* exactly once, by that device's handler, and one that equals an ACK, which
\* the handlers drop whoever sent it and why, never: the handlers, which do
\* not look at whose byte they read, never take one another's and never read
\* a stale one.
EachByteOnce ==
    \A p \in Ports : since[p] # Nothing =>
        \A n \in (since[p] + 1)..Given(p) :
            own[p][n].by = IF Unread(p, n) \/ own[p][n].byte = Ack THEN <<>> ELSE <<p>>

\* With the boot code over, nothing but the handlers empties the output
\* buffer.  If its byte may raise its interrupt then the interrupt is on its
\* way, unless the edge came while the driver held the pin masked.
StuckOnlyByLostEdge ==
    pc = "halt" /\ isr = "none" /\ Line(out, ctl, Pin(out.src))
        => irr[Pin(out.src)] \/ missed

\* kmain reaches its idle loop whether or not the controller answers and the
\* devices exist: every wait is bounded.
BootCompletes == <>(pc = "halt")

\* The last key pressed has been read, and printed unless it looks like an ACK.
KeyArrived ==
    LET n == born["kbd"]
    IN  /\ n > 0 /\ Given("kbd") = n /\ ~Unread("kbd", n)
        /\ own["kbd"][n].byte = Ack \/ own["kbd"][n].by # <<>>

\* Once the boot has left both interrupts and the keyboard's interface enabled,
\* a key that is pressed is printed unless it looks like an ACK, however the
\* two devices' bytes and late replies take turns in the one output buffer,
\* and unless an edge was lost on a masked pin.
KeysArrive ==
    (pc = "halt" /\ ctl.int["kbd"] /\ ctl.int["mouse"] /\ ~ctl.off["kbd"]
                 /\ Given("kbd") < born["kbd"])
        ~> (missed \/ KeyArrived)
=============================================================================
