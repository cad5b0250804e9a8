# A verification project for basic-x86-kernel

The repository is a small 32-bit x86 kernel: a multiboot image linked at
3 GiB + 1 MiB that sets up descriptor tables and paging, prints on the text
screen, programs the interrupt controllers, the LAPIC timer, ACPI's power
button and the PS/2 keyboard and mouse, and then idles.  It has no processes:
the concurrency is one main flow (`kmain`) against its interrupt handlers,
against the devices, and against the processor's own caches of the page tables.
This directory holds TLA+ modules translated from its source, the TLC
configurations that check them, and TLAPS proofs.  `PROJECT.json` lists
components, runs, hazards, theorems and, for each definition, the source lines
it stands for.

    tlc -workers 2 -config Paging.cfg MCPaging     # one run
    tlapm PagingProofs.tla                         # one set of proofs

## 1. Inventory

Boot order: `_entry.s` loads a bootstrap page directory of 4 MiB pages (1:1
below 3 GiB, from physical 0 again above), calls `gdt_init` and `idt_init`,
jumps high, calls `paging_init`, then `kmain`: read the clock, `pic_init`, `pic_mask_all`, `lapic_init`,
`ioapic_init`, `sti`, `lapic_timer_config`, `acpi_init`, `i8042_init`,
`kbd_init`, `mouse_init`, and an idle loop.  Everything from `sti` on, the
whole PS/2 start-up included, runs with interrupts enabled.

| Component | State it keeps | Operations | What makes it correct | What is hard |
|---|---|---|---|---|
| Paging (`mmu/paging.c`) | `_pgdir`, the pool `_pgtbls`, CR3; the CPU's TLB | `paging_init`, `paging_map_4kb`, `paging_map_4mb`, `paging_get_page_table` | a call changes the translation of exactly the pages it names; no table has two owners; no stale translation | the pool has no ownership record: a table is free if no entry is present; tables are reached through the mapping they define; the TLB; the switch of directory |
| Console (`printk.c`) | static `row`, `column`; the video memory | `console_putc`, `console_puts`, `printk` | the screen shows the text; nothing outside the text memory is touched | handlers print in the middle of `console_putc`; full rows, late scrolling |
| Delays, LAPIC timer (`timer.c`, `drivers/82489DX.c`) | tick rates; ICR, CCR, LVT mode | `lapic_timer_calibrate`, `lapic_timer_config`, `timer_delay_us/ms` | no delay ends early; every delay ends | the counter reloads between polls; polls delayed by handlers; 32-bit products |
| PS/2 (`drivers/i8042.c`, `drivers/kbd.c`) | the controller's command byte and output buffer; registered handlers; pin masks | `i8042_init/read/write`, `kbd_init`, `mouse_init`, three handlers | the start-up ends; every byte reaches its driver once | polling and handlers share port 0x60; handlers are swapped and pins masked while bytes arrive; edges on masked pins |
| IDT, IOAPIC, PIC (`idt.c`, `drivers/82093AA.c`, `drivers/8259A.c`) | gates, callbacks, redirection entries, in-service state, the 8259A's registers | init, mask, unmask, set handler, dispatch, EOI | each accepted interrupt is served and acknowledged once; gates lead to their stubs; the 8259A stay silent | edges, EOI, spurious vector, nesting, stack depth; bytes whose meaning depends on those before |
| ACPI (`acpi.c`) | tables in firmware memory, PM1 registers | find RSDP/FADT, enable, power handler | reads only mapped memory; a power press is handled | pages mapped versus tables read; event enabled before its handler |
| Clock (`drivers/MC146818.c`) | CMOS registers | `cmos_read_rtc` | a consistent, converted time | an update during the reads; 12-hour and BCD forms |
| Formatting (`klib/`) | none | `vsprintf`, number conversions, `memcpy`, `memset` | equals its reference; writes not one cell more | ends of the number ranges; a terminator that is overwritten only if the buffer behind it is clear; overlapping copies |
| Boot path, GDT (`_entry.s`, `gdt.c`) | registers, stack, GDT, IDT, CR0, CR3 | `entry`, `gdt_init`, `idt_init`, `paging_init`, call of `kmain` | code and stack are mapped where they are used; the arguments reach `kmain`; limits match the tables | two address ranges, two directories, registers across C calls |
| Multiboot, BIOS data, cpu | none | declarations, single instructions | | |

Interactions: every handler prints, so the console is shared by all of them and
the main flow; ACPI is the one later caller of `paging_map_4kb`; the PS/2
drivers go through the IDT and the IOAPIC to swap handlers and mask pins; the
timer's calibration uses the PIT as its stop-watch.

## 2. Modules

| Module | Models | Used by |
|---|---|---|
| `AddressSpace` | abstract: a function from pages to frames that calls change page by page | `Paging` |
| `Paging` | `mmu/paging.c` with page walk and TLB | `MCPaging`, `PagingProofs`, `Acpi`, `Boot` |
| `ConsoleGeometry` | the arithmetic of `console_putc` | `Console`, `ScreenText` |
| `Console` | `console_putc` instruction by instruction, with interrupts | `MCConsole`, `ConsoleProofs` |
| `ScreenText` | `console_putc` as a whole against the text printed | `MCScreenText`, `ConsoleProofs` |
| `Timer` | calibration, configuration and delay loops against the counter | `MCTimer`, `TimerProofs` |
| `Ps2` | the PS/2 start-up, handlers, controller, devices, pins | `MCPs2`, `Ps2Proofs` |
| `Acpi` | `acpi_find_rsdp` and `acpi_init`, on the page tables of `Paging` | `MCAcpi`, `AcpiProofs` |
| `Descriptors` | packing and reading of GDT entries and gates | `Boot` |
| `Pic` | the two 8259A and what `8259A.c` writes to them | `Boot` |
| `Boot` | `_entry.s` and `kmain` up to `sti`, on `Paging`, `Descriptors` and `Pic` | `MCBoot`, `BootProofs` |
| `Rtc` | `cmos_read_rtc` against the clock | `MCRtc`, `RtcFormatProofs` |
| `Format` | `vsprintf` and the conversions against a reference | `MCFormat`, `RtcFormatProofs` |
| `Interrupts` | gates, stubs, local APIC, IOAPIC pins, EOI, exceptions, power button, on one stack | `MCInterrupts`, `InterruptsProofs` |

### Paging

A linear address is a pair of directory and page index, a frame a pair of
4 MiB region and page.  `pgdir`, `pgtbls`, `cr3` are the code's state, `tlb`
the processor's, `stray` records stores of page-table entries into memory that
is no page table, `halted` a page fault.  The operators `Map4kb`, `Map4mb`,
`GetPageTable`, `StorePte`, `Invlpg` take and return the machine as a record
and are the code's functions; `PagingInit` composes them exactly as
`paging_init` does (APIC pages, kernel pages, load of CR3).  Tables are written
through `VMA + physical address` with whatever translation is current, so that
a wrong order shows as a stray store or a fault.  `Walk` lets the CPU cache any
translation at any time.  `Spec` holds callers to a contract, `MayMap4kb` and
`MayMap4mb`, that no line of the code states or tests: a table is free when one
is needed, a 4 KiB page is not mapped inside a 4 MiB one, nothing maps over the
kernel or the APICs.  So no call of this module meets an empty pool; `Acpi`
makes the calls without the contract, and shows when the one caller with
addresses from firmware keeps it and what happens when it does not.

### Console and ScreenText

`Console` splits `console_putc` at every access to the static variables: tests,
read-modify-write of `row` and `column`, and the ranges given to `memcpy` and
`memset`, whose start and length come from separate reads.  `IrqPutc` is a
whole `console_putc` by a handler, between any two of those; handlers have
interrupt gates and do not nest.  `reach` is the end of the highest access so
far.  `ScreenText` keeps the video cells and the text typed as a sequence of
logical rows, for calls that are not interrupted; its `Memcpy` copies cell by
cell, because the scroll's two ranges overlap.

### Timer

One tick at a time, the counter runs down and reloads; the loop polls it at any
distance up to `MaxGap`.  `asked` is the product the caller means, `wait` the
32-bit product the code uses.  `ZeroVisible` says whether the hardware shows 0
for a tick before it reloads; both kinds exist.  `timer_delay_us` and
`timer_delay_ms` run the same loop on different rates.

### Ps2

`pc` walks through `i8042_init`, `kbd_init` and `mouse_init`; `rd` is an
`i8042_read` in progress in the main flow and one in `i8042_irq_handler`, with
the unsigned retry counter and its inverted test; a wait counter decremented past
zero becomes `UintMax`.  A handler may run between any two steps of the main
flow.  A pin is edge-triggered: a rising line on an unmasked pin requests its
vector, on a masked one it is lost (`missed`).  Controller, devices and
interrupt delivery are external and answer after any delay; devices may be
absent, and `Sent` says whether a byte handed to `i8042_write` may fail to be
written.  Bytes are numbers, because the drivers tell a reply from data by its
value alone: `Values` says what a device's own bytes may be, and a movement of
-6 is 0xFA, which a wait takes for the reply it awaits and the handlers drop as
an ACK.  `own` keeps, for the record, each byte a device gave and the handlers
that printed it.  `since` records how many each had sent when `mouse_init`
unmasked its pin with nothing unread and no interrupt waiting.

### Interrupts

`stack` is the kernel's one stack: kmain's frame and those of the handlers and
exceptions on top of it, each with its code, the operation it is at, the
interrupt flag it will bring back and whether it is inside `printk`, where it
holds a 4 KiB buffer.  A frame's code is a short sequence of the operations that
matter here (`Boot`, `HandlerProgram`, `Panic`), taken from `kmain`, the five
handlers and `idt_exception_handler` in their order; one `print` stands for
`printk` calls in a row.  `Dispatch` enters an interrupt gate, which clears the
flag; `Exception` enters a trap gate, which does not, at any point and whatever
the flag is, as an NMI does.  The local APIC's priorities and its EOI, which
retires the highest vector in service whatever is written, are external.  The
power button is two bits of PM1: its line is high while the event is enabled
and the status bit set, the pin is edge-triggered as `ioapic_init` programs it,
and nothing in the kernel clears the status bit.  `fixed = FALSE` stands for
firmware that wants AML, or has no FADT.  After the `cli; hlt` of a panic or a
power-off nothing more is followed.

### Acpi

A `layout` is everything the firmware decides: whether there is an RSDP in the
extended BIOS data area or in the BIOS, the frame and offset of the RSDT, its
length field, the frames its entries point at, which of them is the FADT,
whether its fields reach into the next page, and whether the power button is a
fixed feature.  `Find`, the two `MapPage`, `ReadHeader`, `Entry` and `Return`
are the statements of `acpi_init`; each memory access goes through the page
walk of `Paging`, so an address that is not mapped ends in `PageFault` and one
that is mapped to something else reads something else.  The two calls of
`paging_map_4kb` are `Paging`'s operator without the caller's contract.  `Fits`
says for which layouts the code is made: an RSDP exists, the RSDT's two pages
are outside the memory mapped by 4 MiB pages and not 3 GiB below an APIC, the
pool has a table for each directory entry they need, the RSDT ends in them, and so do the tables it lists, or they lie in the kernel's
4 MiB.  On other machines (no RSDP, a length below the header's, a pool that
runs empty and hands out NULL, ...) the kernel stops in a page fault, or worse;
what is worse is bounded by `DamageConfined`.

### Boot, Descriptors, Pic

`Boot` follows `_entry.s` through its two stacks, two page directories and two
address ranges: `cpu.eip` and `cpu.esp` say at which address code and stack are
used, `cpu.eax` and `cpu.ebx` which word is in the registers that carry the
loader's arguments.  A C function keeps ebx and loses eax.  `gdt_flush` loads
the data segments and then cs with a far return to the linked, high address;
its callers were called at the low one and go back there (`GdtReturn`).
Descriptors are sets of bits, so that the code's masks, shifts and ors are
intersections, shifts and unions, and are read back as the processor reads
them.  `Pic` holds the 8259A's rule that a byte's meaning depends on the bytes
before; `kmain` writes its twelve bytes one step at a time.  Bits the loader may
have left in CR3, which `_entry.s:64` keeps, are taken as zero.

### Rtc

The clock announces an update with the update-in-progress bit, keeps its
registers for at least `Lead` more accesses of the driver (244 microseconds, and
interrupts are still off in `kmain`), then changes them: a read may return the old value, the
new one or neither.  `raw` holds the bytes read, in order; the century's byte is
read twice because `cmos_bcd2dec` is a macro.  `seen` is the set of seconds
during which the call ran.  The century's byte is taken to be BCD in every mode
of the chip, as the driver takes it: the firmware keeps it, not the clock.

### Format

`Literal`, `Conversion` and `Return` are the turns of `vsprintf`'s loop and its
end; a conversion takes its argument from a set.  `buf` is the printk buffer and
the memory behind it, `reach` the highest cell written.  `Digits` fills the
cells as `strfromu` and `strhex` do, from the count of divisions (`Turns`) and
what they leave of the number (`Quotient`).  The memory is as large as the
longest text needs (`RoomAssumption`): a bound of the model, since the code tests
no size and `WritesOnlyText` says which cells it uses.  The
reference, `Text`, is written independently of cells and cursors.  `n *= -1` of
the smallest integer is undefined in C; the processor's `neg` leaves it as it
is, and the passage to unsigned makes the right number of it, with optimisation
or without.

## 3. Runs

| Run | Outcome | Shows |
|---|---|---|
| `paging` | pass | `PoolOwnership` (each table in use has one owner, each free one none), `NoStrayStore`, `BootMappingsHold` (kernel and APICs stay mapped), `TlbCoherent`, and `ImplementsAddressSpace`: through the page walk the code implements `AddressSpace` |
| `acpi` | pass | on the machines that fit, `acpi_init` touches only mapped memory (`SafeIfFits`), is a caller `Paging` allows (`RespectsContract`) and ends with the button armed exactly if the RSDT lists a fixed-feature FADT (`PowerButtonArmed`); on all machines, also where the pool runs empty, no page-table entry lands on the kernel (`DamageConfined`) |
| `boot` | pass | `RunsMapped`, `SegmentsUsable`, `ExceptionsDelivered` (from `lidt` on every exception finds its stub, with one error code in its frame), `MbiReachesKmain`, `PicsQuiet` |
| `console` | pass | under interrupts the cursor drifts at most three rows and one column past the screen (`TypeOK`), and no access leaves the text memory (`InWindow`) |
| `screen_text` | pass | the screen shows the end of the text through wraps, full rows and late scrolls (`ShowsText`), and what follows the text of a row is blank (`PrintedRowsClean`; row 0 and rows a newline leaves empty are excepted) |
| `format` | pass | the buffer holds the text meant (`PrintsText`), not one cell more is written (`WritesOnlyText`), and the cells ahead of the cursor stay clear (`ClearAhead`) |
| `rtc` | pass | the bytes read belong to one second (`NotTorn`), so does the date the caller gets (`ReadsOneInstant`), and the call returns (`CallReturns`) |
| `timer` | pass | `NeverEarly`, `Punctual` (the overshoot is below one gap between polls plus a tick per reload), `DelayReturns` |
| `ps2` | pass | `BootCompletes`: every wait of the start-up ends, without devices, replies or sent commands too; `EachByteOnce`: after a quiet hand-over each byte is printed once, by its own device's handler, and one with the value of an ACK never; `StuckOnlyByLostEdge`: a byte left in the buffer has its interrupt on the way unless an edge met a masked pin; `KeysArrive`: otherwise every key pressed is printed, unless it has that value |
| `interrupts` | pass | `StackFits`: kmain, an interrupt handler and an exception may print at the same time, never more; `InServiceIsRunning`: the in-service register is the set of handlers that still owe an EOI; `RequestsServed`: every request reaches a handler unless the processor stops |
| `power_button` | violation | a press between the enabling of the event and `idt_set_interrupt_handler`, or one pending from before, is acknowledged by the default handler; the status bit stays set, so the line never rises again and no later press is noticed |
| `boot_magic` | violation | the magic is kept in eax across the call of `paging_init`, which leaves CR0 there: `kmain` never sees 0x2BADB002 and never prints the loader's arguments |

More disagreements between comment and code were met and are not runs:

* `paging.c:100` bounds the loop that maps the kernel by the word stored at the
  end marker, which is 0, not by the marker's address: a kernel beyond 4 MiB
  would not be mapped.  `BootMappingsStay` has the remedy as its hypothesis.
* `paging_get_page_table` hands out a table whose pages were all mapped without
  PRESENT while the directory still references it; `paging.h:151` promises an
  unreferenced one.  No caller maps without PRESENT, and `MayMap4kb` requires it.
* A mouse byte that arrives between the last poll of `mouse_init` and the
  unmasking (`kbd.c:91`) raises its edge on a masked pin; nothing reads it and
  no key arrives any more.  This is the `missed` of `StuckOnlyByLostEdge` and
  `KeysArrive`.
* `kbd.c:15` and `kbd.c:29` call every byte 0xFA "AN ACK" and drop it: a mouse
  movement of -6 has the same value and is lost, and one that arrives while
  `mouse_init` waits (`kbd.c:86`) ends the wait.  `EachByteOnce` says what is
  dropped, exactly.
* A wait that runs out wraps its counter, which `kbd.c:63` reads as success:
  "ACK !" is printed for a device that is not there.
* In the clock's 12-hour mode 12 is added to every hour, and the PM bit stays in
  the byte: no hour comes out right (`ReadsOneInstant` leaves it out).
* With fewer than 1000 ticks per millisecond, the fallback rate included,
  `lapic_ticks_per_us` is 0 and `timer_delay_us` returns at once
  (`82489DX.c:45`); no text promises a resolution, and `NeverEarly` counts the
  ticks asked for.
* `paging_get_phyaddr`, which nothing calls, dereferences CR3's physical
  address, unmapped since `paging_init`, and would fault.
* The clearing of a new row has length `row * columns` (`printk.c:47`), so row 0
  keeps what the firmware left.
* `82489DX.h:284` says the LAPIC is enabled through the spurious-vector
  register, the code sets the enable bit of the MSR; `_entry.s:82` calls the
  16 KiB stack 18 KB; `82489DX.c:63` says "1ms interval" and programs a second;
  `gdt.h` says the limit is "Size - 1", `gdt.c:44` uses the size, which
  `SegmentsUsable` shows to be harmless; and `i8042_irq_handler`, which a remark
  in `kbd.c:40` asks to remove, may print a byte the keyboard's handler prints
  again.

### Bounds

* `paging`: 4 directory entries, 5 pages, 3 tables, one cached translation.
  One directory entry is the kernel's, one the APICs', two are free, so two
  callers compete for the two tables left and the pool runs empty.  Coherence
  speaks of one entry at a time, so one suffices to break it.  Two frames
  distinguish a page from its neighbour.
* `acpi`: the page tables of `paging` with seven pages, so that a region has
  room for the kernel's structures, a page that is none of them and its last
  page, and a pool of two, one of them the APICs'.  The RSDT may lie in the
  kernel's 4 MiB, 3 GiB below an APIC, beside it, across two regions one of which
  shares the APICs' table (both its tables fit), across two others (the second
  finds the pool empty and gets NULL), in an ordinary place or in the last page
  of memory; two entries, lengths below, at and above the header, and tables in and outside the
  two pages.  `Word = 8` units make the wrapped length longer than what is
  mapped.
* `boot`: the page tables of `paging`; stub addresses exercise each bit of the
  offset; the 8259A start masked or not.
* `rtc`: four seconds around the turn of a century, where every register
  changes; all modes; `Lead = 8` is the least the assumption allows, and with 7
  `NotTorn` fails.
* `format`: every format string of up to six characters over a letter and the
  characters of the conversions, which is three conversions in a row; bytes
  instead of words, with arguments at their ends and at the changes of length.
* `console`: 3 columns, 3 rows, where the limits of the drift are reached;
  `Window = 21` is the smallest the assumption allows, so one cell too many
  would show.
* `screen_text`: 2 columns, 4 rows, two characters; `ScreenText` keeps the rows
  still on screen, so the run covers texts of any length.
* `timer`: words of 32 values; the rates give periods 1 (a wrapped product), 6
  (the fallback rate), 9 and 15, below and above `MaxGap = 7`; the amounts give
  0, single periods, several, and products that wrap.  `MaxTicks = 60` is above
  any product with its overshoot, so it cuts no timely delay.
* `ps2`: two polls and one read instead of 500 and 512: since a device's latency
  is arbitrary, they already separate success at once, success on the last poll
  and exhaustion; both devices may be absent, any command may fail to be sent.
  One byte per device is enough to lose, repeat or misattribute one
  (the proofs have no such bound); the mouse's may be ordinary or 0xFA.
* `interrupts`: `Room = 3` is what 16 KiB hold of 4 KiB buffers beside the call
  frames.  One exception, because the panic it starts never returns: only a
  second fault inside the report of the first would bring another, and its
  buffer would not fit.  Two interrupts: one to be in service and one to wait
  for it; the proofs below have no such bound.  `power_button` needs two
  presses and no exception.

### Fairness

* `Timer`: the CPU executes the loop and the counter counts
  (`WF(Poll \/ Return)`, `WF(Tick)`).  `DelayReturns` is claimed where polls
  come at least once a period (`MaxGap < icr`); otherwise a loop that always polls at
  the same count waits for ever.
* `Ps2`: the CPU executes main flow and handlers, takes an interrupt that stays
  requested (handlers end, `sti` is in force), and a controller with an empty
  buffer passes on what a device has for it.  Nothing is assumed of the user or
  of absent devices.  `KeysArrive` is claimed where the boot left the keyboard's
  interface and both interrupts enabled: a command byte that was not sent leaves
  them as they were.
* `Rtc`: the CPU executes the function, and an update that was announced begins
  and ends.  `Acpi`: once called, the CPU executes `acpi_init`; the fairness of
  its step is written with `Running`, which says when the step is enabled.
* `Interrupts`: the CPU executes the running frame (`WF(Cpu)`) and takes an
  interrupt the local APIC keeps offering (`WF(Dispatch)`); devices and user
  owe nothing.

## 4. Proofs

For every value of the constants, under the named assumptions:

* `PagingProofs` (`SizeAssumption`, `LayoutAssumption`): `TypeCorrect`,
  `PoolOwnershipHolds`, `NoStrayStoreHolds`, `TlbCoherentHolds`,
  `BootMappingsStay` (the stored end word must cover the kernel's size:
  what `paging.c:100` does not see to), and `Implementation`, the refinement of
  `AddressSpace`.  They follow from `InvariantHolds`.  Its invariant joins what
  the pieces need of each other: a store through a table's high address hits
  that table only because the kernel's 4 MiB page is mapped; that page stays
  because no table overlaps it, which is pool ownership; ownership survives a
  call because a table with no present entry is referenced by nobody, which
  holds because every call maps a page present; and coherence needs the exact
  effect of the call on the walk, lemma by lemma.
* `ConsoleProofs` (`GeometryAssumption`): `CursorBounded` and `ConsoleInWindow`
  from `ConsoleInvariant`, which bounds row, column and the register copies at
  each instruction: a handler leaves the cursor on the screen or one past it,
  whatever it found, and the few steps between a load and its store can add only
  so much.
  For `ScreenText`, `ScreenShowsText` and `ScreenRowsClean` (a screen of at
  least two rows: what is cleared is as long as the rows above) follow from `ScreenInvariant`, which adds
  to the two properties that the text has at most one row more than the screen,
  an empty one, and that once scrolled the text fills the screen.  The scroll's
  `memcpy` is a recursive function; that it moves every cell as it was before
  the call, although source and destination overlap, is shown by a least turn
  at which it would not.
* `TimerProofs` (`TimerAssumption`): `TimerTypes` and `DelaysNeverEarly` from
  `TimerInvariant`: what the loop has counted is at most the ticks up to its
  last read; with no reload since, the count fell by exactly the gap; with a reload,
  at least last + ICR - CCR ticks went by, which is what the next poll will
  count.  `DelaysPunctual` is the other side, and needs a second invariant,
  `LateInv`: with a poll in every period the loop misses nothing but the tick
  during which some counters show 0, one per reload, so that ticks gone by,
  ticks counted and reloads balance exactly.
* `InterruptsProofs` (`RoomAssumption`: room for two buffers and one per
  exception): `InterruptTypes`, `StackFitsHolds` and `InServiceHolds` from
  `InterruptInvariant`, for any number of exceptions and interrupts.  None of
  them is inductive alone: that an EOI retires its own vector needs at most one
  interrupt frame on the stack; that needs interrupts disabled while there is
  one, also after an exception's frame above it returns (`SavedClean`: no frame
  over an interrupt's brings an enabled flag back); and the depth follows from
  both.
* `RtcFormatProofs`, for `Rtc` (`LeadAssumption`: the registers keep for at least eight accesses;
  `InstantsAssumption`: fields within their decimal ranges): `TypeCorrect`,
  `NeverTorn`, `OneInstant`.  `NotTorn` becomes inductive with `ReadsInTime`
  (accesses the clock still owes cover the registers left to read) and
  `Announced` (an update begins only after its announcement).  The rest is
  arithmetic: what BCD packing and the driver's unpacking make of a number below
  100, and the century's two reads.
* `RtcFormatProofs`, for `Format` (`FormatAssumption`, `RoomAssumption`):
  `VsprintfPrintsText`, `VsprintfWritesOnlyText`, `BufferClearAhead`, from
  `FormatInvariant`, for every set of characters, format strings of any length,
  arguments and width of a word.  `PrintsText` speaks of the end; what is
  inductive is `SoFar`: for every completion of the arguments taken so far, the
  characters printed followed by the `Text` of the rest of the format string are
  the whole `Text`.  It has to quantify over completions because the arguments to
  come are not chosen yet, and is restricted to those for which the rest is a
  text.  `Fits` bounds the cursor by the format characters read, so that `strlen`
  and the cell behind the terminator stay within memory; `ClearAhead` makes the
  step back after `%s` land on the terminator and `strlen` stop where the digits
  do.  `NumeralDigits` shows that the loop counting the divisions, the loop
  writing the digits backwards and the numeral of the reference agree, and
  `NegatedIs` that the negated number is right at the most negative integer too.
  The recursions (divisions, numerals, the format string) are functions, and
  every fact about them is shown on the set of arguments for which it holds
  (`Descent`): the least number outside the set would be inside.
* `Ps2Proofs` (`CountersFit`): `TypeCorrect`, `PrintedOnce`,
  `NoByteForgotten`, for any retry counts and any number of bytes of any values.
  The invariant says: what each label of the start-up implies for reads in progress,
  handlers and pins; which byte the output buffer can hold (`Bytes`: the last
  one its device gave, with its value); that `missed` speaks of an unread byte
  (`MissedUnread`); that a byte left
  without its interrupt before `mouse_init` waits is taken by the wait's first
  read (`Fresh`); and that after a quiet hand-over requests and lines agree
  (`Handed`).  `EachByteOnce` then survives a handler that reads without
  looking whose byte it is, because the byte that raised its line is the one in
  the buffer; that value 0xFA is dropped is part of the statement.
* `BootProofs` (`SizeAssumption`, `LayoutAssumption`, `BootAssumption`):
  `AlwaysMapped`, `SegmentsStayUsable`, `AlwaysDelivered`, `MbiArrives`,
  `PicsStayQuiet`, from `BootInvariance`, whose page-table part is the invariant
  of `PagingProofs`.  The other parts say for each point of `_entry.s` which
  tables are built and loaded, where code and stack run, where the loader's
  pointer is kept, and what the 8259A take the next byte for.  Lemmas on bit
  sets show that base, limit, type and offset are read back as they were packed.
* `AcpiProofs` (those of `Paging`, and `AcpiAssumption`): `AcpiTypeCorrect`,
  `SafeOnMachinesThatFit`, `ContractRespected`, `DamageStaysConfined`, from
  `AcpiInvariance`.  On a machine that fits, `Clean` holds: the invariant of
  `PagingProofs`, with tables only for the directory entries of the APICs and of
  the pages mapped so far.  Since `Fits` asks for a pool as large as their number,
  at most three (`_config.h:29` has 10), a call that needs a table finds one: were
  all in use, each would be another entry's (`PoolSuffices`).  On any machine, `Hurt` holds: what is
  left of pool ownership when `paging_map_4kb` is called for an address it is not
  made for.  `DamageStaysConfined` assumes `KernelEndWord = 0`, which is the word
  `paging.c:100` reads, and `KernelLast = 0`, a kernel within its first 4 MiB,
  without which `paging_init` itself leaves it unmapped.  `SearchIsRight` is the
  safety half of `PowerButtonArmed`: on a machine that fits, `global_fadt` and
  the power button are right when the loop has ended.  Its invariant
  `SearchedSoFar` says so of the entries read so far; it needs `Clean`, since only
  mapped pages make what the loop reads the table's own bytes.

Only model-checked: the liveness properties (`DelayReturns`, `BootCompletes`,
`KeysArrive`, `RequestsServed`, `CallReturns`, `PowerButtonArmed`), which are out
of the prover's reach; for `PowerButtonArmed` that leaves only that `acpi_init`
returns.  Every invariant, action property and refinement a passing
run checks is also a theorem.

## 5. What is left

Of the plan, inventory first, then the modules in the order of section 2, then
the theorems, nothing is open that the tools reach.  Two extensions would need
more model than proof: the IOAPIC's remaining entries with the spurious vector,
and `printk` as one action sequence, `Format`'s buffer handed to `Console`'s
cursor, which today meet only in that `Console` prints any characters.

## 6. Not modelled

The port protocol of the PIT: its wait is the calibration window of `Timer`, of
any length.  Of the IOAPIC's redirection entries only those with a source the
kernel uses are followed; the last one, which the loop of `ioapic_init` leaves
out, and spurious interrupts, for which vector 255 has no gate, are not.  `cpu.c`
and `io.h` wrap single instructions; multiboot and BIOS data are declarations,
of which the console's two fields are constants here and the information
structure's address is followed to `kmain`.  Attributes of characters, the
wording of messages and the flag bits other than PRESENT and SIZE do not appear
because no property distinguishes them.
