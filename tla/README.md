# ArkoiOS: a verification project

TLA+ models of the kernel in this repository, the TLC runs that check them on
small instances, and TLAPS proofs for every instance of the physical memory
manager, the keyboard from the wire to `kernel_main`, the virtual memory manager,
interrupts and timer, and the serial driver. Paths below are relative to the
repository.

## The system

ArkoiOS is a 32-bit x86 kernel with one CPU, no processes and no user mode.
After boot there is one thread, `kernel_main`, and the interrupt and exception
handlers that interrupt it. The gates are interrupt gates: a handler runs with
interrupts off, to its end. A page fault can still happen inside one.

| Part | State | Operations | Talks to |
|---|---|---|---|
| Early allocator, `lib/memory/emm.c` | a cursor in a heap of 512 KiB | `emm_alloc` | called by the PMM at boot |
| Physical memory manager (PMM), `lib/memory/pmm.c` | a list of regions, each with a block pool (one entry per page) and a free list per order | `pmm_init`, `pmm_add_region`, `pmm_alloc_order/pages/size`, `pmm_free` | takes the boot map from the Multiboot2 parser and memory from the EMM; serves the VMM |
| Virtual memory manager (VMM), `lib/memory/vmm.c` | page directory, page tables in frames of the PMM | `vmm_preinit`, `vmm_init`, `vmm_map_page`, `vmm_unmap_page`, the page fault handler | MMU and TLB; PMM; its handler interrupts whatever touches an unmapped page |
| Cyclic buffer, `lib/kbuffer.c` | slots, head, tail | init, push, pop, size, is_full, is_empty | used by the keyboard driver from both threads of control |
| Keyboard driver, `drivers/keyboard.c` | event buffer, prefix flag, modifier flags | `keyboard_init`, the IRQ 1 handler, `keyboard_has_event`, `keyboard_get_event`, `keyboard_scancode_to_ascii` | PS/2 controller, interrupt dispatch, `kernel_main` |
| Interrupt dispatch and PIC, `arch/x86/idt` | handler tables, masks | `isr_handler`, `irq_handler`, install, `pic_remap`, `pic_send_eoi`, masks | every driver |
| Timer, `drivers/pit.c` | a 32-bit tick counter | `pit_init`, its handler, `pit_wait` | interrupt dispatch |
| GDT, `arch/x86/gdt` | five descriptors | `gdt_init` | the processor |
| Multiboot2 parser, `arch/x86/boot/multiboot2.c` | lists of RAM and reserved regions, modules | `multiboot2_parse_boot_info`, `multiboot2_print_boot_info` | takes its elements from the EMM; produces the PMM's input |
| Serial driver, `drivers/serial.c` | a list of ports, a cached lookup | init and loopback test, read, write | polls two UARTs; `kernel_main` |
| Formatted output, `lib/kcursor.c`, `lib/kstdio.c` | a bounded cursor | `kvsnprintf`, `kprintf` | VGA |
| VGA, `drivers/vga.c` | cells, row and column, colour, cursor registers | write, scroll, clear, set cursor and colour | `kprintf`, `kpanic`, `kernel_main` |
| Boot assembly, linker script, port I/O | none | executed once, or one instruction | everything |

What makes each part correct:

* EMM: never hands out a byte past its end.
* PMM: no page lost, none in two blocks, buddies merged, an out-of-memory report
  only when it is true, its own consistency checks never fire.
* VMM: a mapping that was made stays until it is removed and no other page
  changes; a frame has one use; the TLB agrees with the tables; a faulting access
  completes or the kernel panics.
* Keyboard and buffer: what is typed appears once, in order, in the right case;
  nothing is stuck in a device or a buffer.
* Interrupts, PIC, GDT: a handler's frame is what its structure says, interrupted
  code gets its registers and its stack back, an interrupt is ended once at each
  controller that has it in service, and a request is served in the end.
* Timer: a wait is not too short and ends.
* Multiboot2: everything in the structure arrives, in order, and nothing else;
  the early heap suffices when the structure fits it.
* Serial: only a UART that echoes is a port, its line is set as the table says,
  bytes are not lost or mixed up, a print ends.
* Formatting and VGA: the text is the documented one, cut inside its buffer, and
  the screen shows the last rows of what was printed.

What is hard in this code: the interrupt handler and `kernel_main` share the
event buffer without a lock; the page fault handler can fault on its own stores;
pool entries of absorbed blocks are stale and still read by `pmm_free`; 64-bit
sizes meet 32-bit addresses; boot steps unmask and install in an order that
leaves gaps; the drivers poll devices that move on their own; one early heap
serves the parser, the serial table and the PMM. `PROJECT.json` lists each hazard at its line.

## The modules

| Module | Models | Composes |
|---|---|---|
| `Emm` | `emm.c`, as operators on its cursor | |
| `Pmm` | `pmm.c`, `kalign_up/down` | `Emm` |
| `PageAllocator` | the abstract allocator: regions, blocks in use, exact out-of-memory | |
| `PmmInductive` | the inductive invariant `PmmInv` | `Pmm` |
| `PmmLemmas`, `PmmProofs` | proofs: the bookkeeping | `PmmInductive` |
| `PmmCoalescing` | proofs: types, free buddies merged, nothing fragmented for good | `PmmProofs` |
| `PmmRefinement` | proofs: `PageAllocator` implemented, the managed pages | `PmmCoalescing` |
| `MCPmm`, `MCPmmDocs` | instances; documented behaviour the code does not have | `PmmInductive` |
| `KBuffer` | `kbuffer.c`, as operators on the record of its fields | |
| `Keyboard` | `keyboard.c`, `irq_handler`, the loop of `kernel_main`, and the devices | `KBuffer` |
| `KeyboardProofs` | proofs: types, the ring between the handler and `kernel_main`, the decoding of scan codes | `Keyboard` |
| `MCKeyboard` | instances and documented behaviour the code does not have | `Keyboard` |
| `Vmm` | `vmm.c` on an MMU with a TLB | |
| `AddressSpace` | the abstract address space: one mapping, changed a page at a time | |
| `VmmProofs` | proofs: types and the one use of a frame; with RAM inside the window also mappings, TLB and `AddressSpace` | `Vmm` |
| `MCVmm` | instances | `Vmm` |
| `Multiboot` | `multiboot2.c` | `Emm` |
| `Boot` | `kernel_main` from the structure to the running allocator | `Multiboot`, `Pmm` (by `INSTANCE`), on one early heap |
| `Serial` | `serial.c` and two UARTs with their peers | `Emm` |
| `SerialProofs` | proofs: types, bytes in order, strings, the table | `Serial` |
| `Format` | `kcursor.c`, `kvsnprintf` and its conversions, as operators | |
| `Vga` | `vga.c`, as operators on the record of its state | |
| `Console` | `kprintf`, `kpanic` and the kernel's other output, with a reference definition of both texts | `Format`, `Vga` |
| `Descriptors` | the tables of `gdt.c` and `idt.c`, encoded, and as the processor decodes them | |
| `Interrupts` | the stubs of `idt.s`, `idt.c`, `pic.c`, `pit.c` and the two controllers | `Descriptors` |
| `InterruptsProofs` | proofs: frames, types, controllers, the wait | `Interrupts` |
| `MCBoot`, `MCSerial`, `MCConsole`, `MCInterrupts` | instances | the module of that name |

`PROJECT.json` maps each definition to the lines it stands for.

### Pmm

A region is the record of `pmm_region_t`; a pointer into its block pool is the
page's index; the chain of `next` pointers from `free_lists[order]` is a
sequence. `pmm_init` reads one entry of the boot map per step; `pmm_add_region`
is that step up to its carve loop. Carving, splitting and coalescing take a step
per iteration (`carve`, `split`, `coalesce`) and `link_region`, `alloc_return`,
`free_return` end them. Panics are the state `pc = "panic"` with the reason in
`panic`; a store through NULL in the split is a state of its own, so that its
absence can be checked. `live` is a history variable: the blocks handed out and
not freed. The kernel frees what it owns, NULL, or pointers `pmm_free` refuses.

Addresses are taken modulo `ADDRESS_SPACE` wherever the code adds or stores a
32-bit value, so wrapping and the truncation of 64-bit sizes are in the model.
Page and structure sizes are those of the build.

### Keyboard

The keyboard, the PS/2 controller (one byte of output, an edge per byte) and
IRQ 1 of the interrupt controller are external. `irq_handler`,
`keyboard_handler` (one step per iteration of its loop) and `irq_return` are the
interrupt. `kernel_main` is cut where it touches shared state: the three checks
for an event, the address of the slot, the copy in two parts, the load and the
store of the tail. The interrupt can come between any two. Events carry a
number, so that a torn, lost or repeated event can be told apart.

### Vmm

A stack of activations, innermost first: the kernel's access or call, and above
it a page fault handler for each store that faulted. A step reads or writes
memory through `Walk` or the TLB, or it faults and pushes the handler. Page
tables are contents of frames, and frames start full of garbage that reads as
present entries, so a table that is not cleared matters. `pmm_alloc_pages(1)` is
any free frame, or a panic; frame 0 is NULL. CR0.WP is a constant, because the
boot loader may leave it either way. The boot stack of 4 KiB (`linker.ld:54`) has
room for `STACK_DEPTH` activations; how many that is depends on the compiler's
frames. A fault beyond it is `stack_overruns`, after which nothing is claimed: in
the code it writes over the early heap.

### Multiboot and Boot

The structure is a sequence of tags with sizes; `Offset` and `Layout` place them
in memory as a boot loader does, so that the parser's own arithmetic decides what
it reads, and a step into the padding reads zeros. A tag and an entry of a memory
map take a step each, `parse_module` two, because it links the element before it
allocates the string. Strings are lengths. `emm_alloc` is `Emm`, and running out
is `heap_exhausted` wherever the parser is. `Boot` runs the parser, the report
and then `pmm_init` of `Pmm` on the same cursor. `serial_init` has taken up to 24
bytes before; the instance's early heap is what is left.

### Serial

A port is a UART, floating (all ones) or grounded (zeros). The device's steps,
`Shift` and `PeerSends`, come between any two port accesses of the driver.
`serial_init_port` is three steps: settings, write of the test byte, read of it.
A poll that finds nothing is a disabled step. A string read into a buffer of no
bytes is refused. A history record for each port holds what was printed to it,
what the peer sent, what was read and the settings of the last set-up. The line
control register is packed with the masks and shifts of `serial.h` and read back
with the bits of a UART (`LineSettings`). Mark and space parity are not among the
settings: shifted by 4 they set the UART's break bit.

### Format, Vga and Console

`kvsnprintf` is a fold over the format with the cursor as its state; digits are
recursive functions. Words have `NIBBLES` hexadecimal digits. `Console` defines
the documented text of each conversion independently (`Numeral`, `Shows`, `Shown`)
and the rows of a text (`Rows`), and compares. Characters are their codes; `char`
is signed in the build, so that a code from 128 on spills into the colour byte
exactly as `vga_entry` computes it. The reference text has the colour that was
set: `console` types codes below 128, and `console_color` shows the others.
`FormatsText` speaks of the bytes in the buffer and not of the count returned,
about which code and header disagree.

### Descriptors and Interrupts

Segment descriptors and gates are built bit by bit as in the code and read back
bit by bit as the processor does (`Segment`, `GateOf`), so that the selector, the
type and the stub behind a vector are results. The stack is a sequence of words:
the processor pushes, the stub and the common stub push, `isr_frame_t` is an
offset into it, and the return pops. The code at each depth of nesting has
registers of its own, which makes a register that is not restored visible.
Exceptions nest inside a handler's body, to any depth; each costs a call, so
`MAX_CALLS` bounds the depth in the run. The `sti` before `iret` in the stubs takes
effect only after the next instruction, and `iret` restores the flags: the two are
one step. `idt_init` stands for the installation of the page fault handler by
`vmm_init` too. The controllers are external: requests, priorities, in-service
bits, spurious interrupts. The timer's line 0 pulses on; its divisor is left out.

## The runs

Passing runs:

| Run | Instance | Distinct states | Shows |
|---|---|---|---|
| `pmm` | 16 pages of addresses, orders 0 to 2, six boot maps: two regions with ragged ends, one from address 0, one up to the end of the address space, two that exhaust the early heap in either allocation, one entry without a whole page | 20 288 | all invariants of `Pmm`, `PmmInv`, termination, `PageAllocator` |
| `keyboard` | a letter, Shift, Caps Lock and the prefixed right Ctrl; three strokes, repeats included, some before `keyboard_init`; a ring of 3 slots | 51 814 | end to end: the screen shows the text; FIFO without an overrun; the check of `keyboard_has_event` stays true even with one; every stroke arrives if none was early |
| `vmm` | tables of 6 entries, pages of 2 bytes, 4 frames of RAM in the window, one of them frame 0 | 86 472 | lasting mappings, TLB coherence, one use of a frame, faults do not nest, calls return, `AddressSpace` |
| `boot` | structures with memory maps of entries of every type and of 24, 28 and 32 bytes, so that map tags need padding too, among strings, modules and tags of odd lengths, two maps, tags behind the END, none; ten that fill the early heap to within a byte at each allocation | 854 | the parse against the written tags, the heap's demand, the managed pages from end to end, each in the printed RAM, termination |
| `serial` | two ports of any kind, two settings, a receive FIFO of 2, buffers of 0, 1 and 3 bytes, five calls, two bytes from peers | 1 210 580 | the table true to the UARTs, bytes in order, strings in their buffers, prints end |
| `console` | words of 8 bits, a screen of 2 rows of 3, formats of up to two of 73 pieces with six buffer sizes, ASCII characters, three output calls | 128 648 | formatting against the reference; what the screen shows |
| `interrupts` | the timer, a device on each controller, exceptions with and without an error code, three calls, a counter of 3 values | 147 592 | frames, controllers, service of requests, the wait |

Why the bounds are enough. PMM: five and seven pages need blocks of every order
up to 2, a block whose buddy is past the end, and splits and merges over two
levels; orders interact only with their neighbours. Keyboard: a ring of two
usable events wraps, fills and overruns within three strokes, which also cover
press, repeat and release of a modifier around a letter. VMM: two tables, two
pages in one of them, and enough frames for a fault after every call; the sizes of
a table and of a page do not occur in the logic. Early heap, ring and table sizes
are constants of the models. Boot: the structures are read once, so the run
enumerates inputs; sizes leave every remainder that matters modulo 8. Serial: two
ports are all there are, and a FIFO of two fills. Console: 8 bits hold the
smallest and the largest signed value and numbers of one to three digits; five
characters wrap, scroll and leave the screen. Interrupts: lines 1 and 9 compete
within and across controllers, an exception comes in a handler and in another
exception's handler, and three tick values wrap within one wait.

What the instances leave out on purpose: `keyboard` uses one key of each
modifier and a letter with an entry in both tables. With both Shift keys or a space
under Shift, `ScreenShowsText` does not hold, and `StrokesArrive` has a start
without keys as its premise; see below. `vmm` has its RAM in the window,
so faults do not nest in it, unmaps no page of the identity range, and the kernel
maps only device frames; where faults nest, `OneUsePerFrame` is proved (`OneUseTheorem`), and `vmm_high_table` shows what goes
wrong. `boot` has tags of at least a header, none of size 0, and regions below the
end of the address space. `WaitsLongEnough` says nothing of a wait whose target or
product wraps, and `BytesInOrder` nothing of a port whose set-up failed.

Runs that end in a counterexample, each a disagreement between the code and the
quoted line of a comment or the README (`findings` in `PROJECT.json`):

* `pmm_high_ram`: RAM above 4 GiB is managed at a truncated address;
* `keyboard_overrun`: the handler and `cyclic_buffer_pop` both move the tail of a
  full buffer;
* `vmm_high_table`: a page table outside the window is filled in the wrong frame;
* `serial_parity`: `SERIAL_LCR_PARITY_SHIFT` is 4 (`serial.h:38`), while a UART has
  parity in bits 3 to 5 of its line control register and the break bit in 6: a port
  set up with odd parity has none;
* `console_color`: a code from 128 on is sign-extended into the colour byte of its
  cell (`vga.c:11`).

Smaller disagreements that the models show but no run is spent on:

* PMM: `pmm.h:84` promises NULL where `pmm_alloc_order` panics (`pmm.c:218`); the
  block at address 0 is a NULL that is no failure (`pmm.c:258`); `pmm.h:70` rounds
  a region's start down and its size up, and `pmm.c:147` the start up and the end
  down. The code is the safe one of the two, and `ManagedIsRam` sides with neither:
  it asks for every whole page of RAM and allows the pages that RAM touches. The
  double free check (`pmm.c:306`) misses the upper half of a merged pair, whose entry
  the merge marked as not free (`pmm.c:339`).
* Keyboard: releasing one of two Shift keys clears the flag of both
  (`keyboard.c:47`), which `keyboard.h:199` calls "whether the Shift key is
  currently held down"; the shifted table has no space, enter, tab or backspace
  (`keyboard.h:159`); a key used before `keyboard_init` has its interrupt
  acknowledged unread, and its byte blocks the port for good (`keyboard.c:34`),
  while `keyboard.h:212` says that the driver is then ready.
* VMM: `README.md:30` says that execution halts after the page fault, and the
  handler returns (`vmm.c:207`); the directory entry keeps the flags of the first
  page mapped in its table, which limit every later one (`vmm.c:77`); unmapping a
  page of the first 4 MiB also unmaps its twin in the kernel window and flushes
  only one of them (`vmm.c:177`).
* Serial: a failed set-up of a known port leaves its old baud rate in the table; the loopback test reads without waiting
  (`serial.c:131`), so a slow UART is not registered, its test byte goes out on the
  line, and the `KASSERT` of `SERIAL_PRINT` then panics.
* Formatting: `kvsnprintf` returns the count with its terminator
  (`kstdio.c:163`), and `kstdio.h:19` and `:35` say "excluding the null terminator"; a
  buffer of one byte stays without one; `%s` is written whole or not at all, numbers
  are cut.
* VGA: a newline that does not scroll leaves the hardware cursor behind
  (`vga.c:49`) until the next character.
* Timer: the product in `pit_wait` wraps after 71 minutes and the counter after 49
  days: the wait then ends at once, which `pit.h:30` does not allow. A wait may be
  short by a tick that was latched before.
* PIC: `pic_set_mask` and `pic_clear_mask` return the new mask; `pic.h:62` and
  `pic.h:74` say the previous one.

For `vmm_high_table` the PMM's order matters: it serves the first region first
and the top of the second region before its start, so the last frame outside the
window can be followed by frames inside it. The instance has one frame outside,
so every counterexample has that order.

Deadlock is checked in every run: a panic loops in `hlt`.

### Fairness

* `Pmm`, `Vmm`: weak fairness of the steps of a running function. There is one
  CPU and nothing else to run. No fairness for the kernel's decision to call.
* `Keyboard`: weak fairness of the device's transmission, of the interrupt and of
  `kernel_main`. Interrupts are enabled in `kernel_main` and the handler has a
  bounded number of steps per byte. No fairness for the user.
* `Boot`: weak fairness of the one thread's steps.
* `Serial`: weak fairness of the driver's steps and of a UART's shifting. None for
  the peer, so nothing says that a read ends.
* `Interrupts`: weak fairness of the running handler, of the timer's pulses and of
  taking its interrupt, which no other goes before; strong fairness of taking the
  others, since the processor takes the first request at its next instruction but
  the timer may go first for a while; strong fairness of the return of `pit_wait`,
  which compares many times between two ticks.

## The proofs

Eight modules hold proofs. Each theorem is about every value of the constants
that satisfies the assumptions named below; the runs check the same properties on
small instances, and TLC found each inductive invariant true there before it was
proved. A component's proof has one lemma per
action, and under it one step per conjunct of the invariant that the action can
disturb.

| Theorem | States |
|---|---|
| `PmmInvariant` | the inductive invariant `PmmInv` |
| `BookkeepingTheorem` | the allocator's checks of its own state never fire |
| `ConservationTheorem` | every page is in exactly one block |
| `DisjointTheorem` | blocks in use share no physical page |
| `CoalescedInvariant` | the inductive invariant `CoalescedInv` |
| `TypeTheorem` | `TypeOK` of `Pmm` |
| `CoalescedTheorem` | `FullyCoalesced` |
| `RestoredTheorem` | `AllFreedRestores` |
| `RefinementTheorem` | `ImplementsPageAllocator` |
| `ManagedTheorem` | `ManagedIsRam`: no page without RAM, every whole page of it |
| `KeyboardInvariant` | the inductive invariant `KeyboardInv` |
| `FifoTheorem`, `CheckTheorem` | `FifoUnlessOverrun`, `CheckStaysTrue` |
| `DecodeInvariant`, `KeyboardTypeTheorem` | the inductive invariant `DecodeInv`, `TypeOK` of `Keyboard` |
| `DecodeTheorem`, `DeliveryTheorem` | the k-th event pushed, and without overrun the k-th delivered, is the k-th stroke |
| `VmmInvariant` | the inductive invariant `VmmInv` |
| `VmmTypeTheorem`, `OneUseTheorem` | `TypeOK` of `Vmm`, `OneUsePerFrame` |
| `WindowInvariant` | with `InWindow`: the inductive invariant `WindowInv` |
| `MapTheorem`, `TlbTheorem` | with `InWindow`: `MapMeansMapped`, `TlbCoherent` |
| `OneFaultTheorem` | with `InWindow`: `FaultsDoNotNest` |
| `AddressSpaceTheorem` | with `InWindow`: `ImplementsAddressSpace` |
| `FramesTheorem` | `FramesTrue` |
| `InterruptsTypeTheorem` | `TypeOK` of `Interrupts` |
| `ControllersTheorem`, `WaitTheorem` | `ControllersInStep`, `WaitsLongEnough` (an action property) |
| `SerialInvariant` | the inductive invariant `SerialInv` |
| `SerialTypeTheorem`, `BytesTheorem`, `StringTheorem` | `TypeOK` of `Serial`, `BytesInOrder`, `StringFits` |
| `TableTheorem` | `TableTrue` |

### Physical memory manager

For every number and size of regions, every `MAX_ORDER` up to 10 and every
sequence of calls. Assumptions: `EmmAssumption` and `PmmAssumption` (sizes are
naturals, the address space is whole pages, the early heap is low enough that its
own sums do not wrap), and `SaneBootMap`, inside the properties or as a
hypothesis: the boot loader's regions are disjoint and end below the last page.
`pmm_high_ram` shows what happens without it.

None of the properties is inductive. Whether `pmm_free` may merge with a
buddy depends on the buddy's pool entry, and that may be a stale entry of a page
inside a larger block. The invariant (`RegionInv`) says that the blocks of a
region, on the lists, in use or in the hand of the running function, tile the
carved part of the region with aligned blocks; that lists hold no block twice;
and that the entry of the *first* page of each block is right. It says nothing of
the other entries. The argument that the stale ones do no harm: the buddy of an
aligned block of order `o` that lies in the region is covered by some block of the
tiling; were it not the first page of that block, the block would be larger than
`o`, aligned to its size, and would contain both buddies, so it would overlap the
block being freed. So the buddy starts a block, its entry is right, and if it says
free at order `o` then it is on list `o`.

`PmmLemmas` has the arithmetic of powers of two and buddies, the lists, and what
one carve, split and merge does to a tiling. `PmmProofs` has one lemma per action
and the theorems. TLC checks `PmmInv` as an invariant of `pmm` too.

`PmmCoalescing` adds `HalvesInv`: no region has both halves of a block on its free
lists, in the middle of an operation too. While a region is carved it is
strengthened: each block already cut is as large as its place allows, so that a
later one cannot be its other half. The split puts one half on a list and keeps
the other in hand; the coalescing loop goes on while the buddy is free.
`FullyCoalesced` follows. `AllFreedRestores` needs `FreeRun`: where no two halves are
free, an aligned run all of whose pages are free lies inside one free block.
Otherwise look at a smallest free block in the run: its buddy's place lies in the
run and is covered by free blocks, none of them smaller and none larger, which
would contain both; so the buddy is a free block, against `HalvesInv`.

`PmmRefinement` maps the code to `PageAllocator`: the return of an allocation is
the abstract allocation, `pmm_free` releases the block on entry, a panic is the
report, and everything else stutters. The step that takes work is "no free blocks":
the lists have nothing from the order on, so by `FreeRun` no aligned run of that
order is unused. `Calm` says that a panic is reported when the machine stops and not
before. `ManagedInv` says that `pmm_init` has made a region of each entry it has
read that holds a whole page, of exactly its whole pages, and of nothing else.

### Keyboard

For every `CAPACITY` from 1 on (`KBufferAssumption`) and every interleaving of
`keyboard_handler` with the cuts of `kernel_main`. `KeyboardInv`: the ring's
contents are the events pushed and not yet taken; in the middle of a pop the slot
in hand is the tail's, what is copied so far is its event's and a tail that was
loaded is still the current one, as long as there was no overrun; the check of
`keyboard_has_event` stays true in any case. The handler disturbs a pop only by
moving the tail, which only a push into a full ring does: `keyboard_overrun` shows
that the hypothesis is needed.

The decoding is proved for every set of keys. Assumptions: `KeyboardAssumption` and
`ScancodeAssumption` (a key's code has seven bits, with or without the prefix
0xE0, and is not 0x60, whose release would be the byte 0xE0; the table of
`keyboard.h` has none such). `DecodeInv`: the prefix that `g_extended_pending`
remembers, the byte in the controller and the bytes on the wire, one after the
other, are the bytes of the strokes that have no event yet. There is no recursive
definition in it: `Encodes` says that some division of the stream into parts has
the bytes of one stroke in each, and every step gives the new division. The
handler's step rests on `NextStroke`: it reads 0xE0 only when nothing is
remembered, and any other byte is, with what is remembered, all of the next stroke. A key used before the handler is
installed stays in the controller, so the statement holds with early keys too.
`TypeOK` follows, because an event has the key of a stroke, and `DeliveryTheorem`
from `DecodeInv` and `KeyboardInv` together.

### Virtual memory manager

For every table size, number of frames, depth of nested faults and of the boot
stack, with RAM anywhere and CR0.WP either way. Assumption: `VmmAssumption` (addresses are those of
two levels of tables, the window is aligned to a table, the frame of the identity
table is not the allocator's). `VmmInv` is `TypeOK` together with: a handler past
its allocation holds a frame of the allocator (`Handed`); a frame that an
activation holds, as a page or as a table not yet entered, is not unused, is no
table and is held by no other activation, and a table in the directory is entered
once and not unused (`Exclusive`); before `pmm_init` nothing is free and no handler
gets past its allocation (`NothingYet`).

The other theorems have the hypothesis `InWindow`: every frame of the allocator is
inside the kernel window (the first 4 MiB), the kernel maps only devices, not RAM
or the identity table, and it unmaps and uses no page of the window itself. The
mappings, tables and calls are otherwise any. The `vmm` instance satisfies it.
So `TlbTheorem` is about pages with one address, for which the flush of that address
is enough; it does not say that unmapping a page of the window, which has two, keeps
the TLB coherent, and it does not.
Without the first part they are false: `physical_to_virtual` of a table outside the
window is another page, and `vmm_high_table` shows a mapping that ends up in the
wrong frame. On a machine with more than 4 MiB of RAM the theorems say what holds as
long as the PMM hands out frames below that; `VmmInv` and `OneUsePerFrame` hold on
every machine.

`WindowInv` is stated on `Seen`, what the MMU sees: for each pair of indices the
translation through that entry, or none. A table that is not entered is not seen,
so clearing it or writing garbage over a page changes nothing (`TablesKept`); a
store into a table that is entered changes `Seen` at one pair (`OneChange`). The
invariant says that the window is as `vmm_preinit` made it; that a frame of RAM
behind a page is behind no other page, is no table, not free and not in the hand of
a running handler, so that clearing a fresh table cannot overwrite a table in use
(`PagesOK`); that the running call has found what it says it found, and that nothing
runs above a page fault handler (`StackOK`); and that the last mapping reported and
every TLB entry are seen. Each of the steps then either keeps `Seen` or changes it
at the page of the call. This is also the refinement: `AddressSpace`'s mapping is the
union of `Seen` outside the window, the step that enters or clears an entry is the
abstract one, and every other step stutters.

### Interrupts

For every placement of the stubs, every set of lines and exceptions, every tick
width and frequency. Assumptions: `DescriptorsAssumption` (the stubs lie in the
address space) and `InterruptsAssumption` (line 2 is the cascade, a millisecond is
a whole number of ticks, as 1000 Hz is). First, the descriptors and gates built by
`gdt.c` and `idt.c` decode to what the kernel means, and the stub behind a vector
pushes that vector. `FrameInv` then says that the stack is a pile of frames of 15
words, one per activation, that each tells the context of the code one level
below it, and that only the outermost activation can be a device's, since handlers
run with interrupts off; `KernelInv` says what the registers are at each depth.
`ServiceInv`: nothing is in service but for the outermost activation before its
EOI, and on the second controller the cascade with it. `Held` is the other
direction: until its EOI that line is in service, unless the interrupt was spurious. `MaskInv` ties the mask
registers to the calls. `WaitInv` counts: the ticks since `pit_wait` was called, with
those latched or on their way to `pit_handler`, are at most the pulses since then
and one more.

### Serial driver

For every set of settings, texts, buffer sizes and peers and every FIFO depth.
Assumption: `SerialAssumption` (bytes are bytes and not NUL, a baud rate is at least
1 and at most the base clock, the early heap has room for the table of two ports).
`SerialInv` has three parts. `PortInv`, for each port by the stage that
`serial_init_port` is at with it: loopback is on only between write and read of the
test byte; line and transmitter are what was printed, and what was read with the
FIFO is what the peer sent, except that during a test the registers of a clean port
hold at most the test byte. `TableInv`: the list's elements are of the early heap,
each a UART, each port once, and a port whose last set-up succeeded is set as its
element says. `CallInv`: a running call has found its port in the table, and the
buffer of a read is the end of what was read.

`TableTheorem` has no further hypothesis. A divisor is rounded down, so that the
line's rate is the nearest possible from above; the rate of 1 baud is excepted,
whose divisor does not fit 16 bits. Data and stop bits are as asked for. Of parity
it says only that there is none when none was asked for, as `kernel_main` does:
with one, `serial_parity` shows that the line is not as configured.

### Only model-checked

* Liveness: `CallsEnd`, `StrokesArrive`, `CallsReturn`, `BootEnds`, `PrintsEnd`,
  `RequestsServed`, `WaitEnds`. Fairness and `ENABLED` are outside the proofs.
* `MapMeansMapped`, `TlbCoherent` and `ImplementsAddressSpace` of `Vmm` outside
  `InWindow`: they do not hold for every set of mappings and every place of RAM.
* `ScreenShowsText` of `Keyboard`: it compares with `Text`, a fold over the strokes,
  and holds only for keys that do not share a flag.
* `Multiboot`, `Boot` and `Console`: they compare what a recursive function or a
  walk over a structure computes with a reference definition. That is an induction
  over data.

## Not modelled

The boot assembly and the C runtime are straight-line code that runs once. The
kernel image is not part of the boot maps: the PMM does not reserve it, which is
listed as a hazard. Port I/O appears as the state of the device behind it; the
divisor of the timer and the register numbers of the devices are left out. The
wording of messages is left out, except where the text is formatted in `Console`.
`kernel_main` is split: `Boot`, `Vmm`, `Keyboard`, `Console` and `Serial` have one
stretch of it each, and no module runs all of it.

## Plan

1. Composition: `Vmm` over `Pmm` in place of the abstract frames; `Keyboard` over
   `Interrupts` in place of its own controller; a boot map with the kernel image.
2. More proofs: the modifier flags of each event as a function of the strokes
   before it; `TakesItsDemand` and the cursor of the early heap in `Multiboot`; the
   position on the screen in `Vga` for every size of screen. What these compute over
   a sequence needs an induction over data that the installed provers do not do.
