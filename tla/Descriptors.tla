---------------------------- MODULE Descriptors ----------------------------
(***************************************************************************)
(* The segment and interrupt descriptors that gdt.c and idt.c encode, and  *)
(* how the processor reads them back (external).                           *)
(***************************************************************************)
EXTENDS Integers, Sequences

CONSTANTS
    HALF,           \* half of an address: 2^16
    STUBS,          \* address of the first entry stub
    STUB_SIZE       \* and the distance to the next

IDT_ENTRIES_AMOUNT == 48

ASSUME DescriptorsAssumption ==
    /\ HALF \in Nat \ {0} /\ STUBS \in Nat /\ STUB_SIZE \in Nat \ {0}
    /\ STUBS + STUB_SIZE * IDT_ENTRIES_AMOUNT <= HALF * HALF

(* Bit n of a value, and the field of `width' values from bit n on.        *)
Bit(value, n) == (value \div 2^n) % 2 = 1
Field(value, n, width) == (value \div 2^n) % width

(***************************************************************************)
(* The global descriptor table.                                            *)
(***************************************************************************)

GDT_SEGMENTS == 5
GDT_TO_SELECTOR_INDEX(index) == index * 8
GDT_KERNEL_CODE_SELECTOR == GDT_TO_SELECTOR_INDEX(1)
GDT_KERNEL_DATA_SELECTOR == GDT_TO_SELECTOR_INDEX(2)

GDT_GRAN_4KB == 2^15
GDT_GRAN_32BIT == 2^14
GDT_ACCESS_PRESENT == 2^7
GDT_ACCESS_PRIVILEGE(level) == (level % 4) * 2^5
GDT_ACCESS_CODE_DATA == 2^4
GDT_ACCESS_CODE == 2^3
GDT_ACCESS_READ == 2^1
GDT_ACCESS_WRITE == 2^1

GDT_CODE(ring) ==
    GDT_ACCESS_PRESENT + GDT_ACCESS_PRIVILEGE(ring) + GDT_ACCESS_CODE_DATA
        + GDT_ACCESS_CODE + GDT_ACCESS_READ
GDT_DATA(ring) ==
    GDT_ACCESS_PRESENT + GDT_ACCESS_PRIVILEGE(ring) + GDT_ACCESS_CODE_DATA + GDT_ACCESS_WRITE

(* The flags are in bits 12 to 15, their byte has them in bits 4 to 7.     *)
gdt_create_entry(base, limit, flags) ==
    [segment_limit |-> limit % 2^16,
     base_low |-> base % 2^16,
     base_middle |-> Field(base, 16, 2^8),
     access |-> flags % 2^8,
     granularity |-> Field(flags, 12, 16) * 2^4 + Field(limit, 16, 16),
     base_high |-> Field(base, 24, 2^8)]

g_gdt_entries ==
    LET flat(access) == gdt_create_entry(0, 16^5 - 1, access + GDT_GRAN_4KB + GDT_GRAN_32BIT)
    IN  [i \in 0..(GDT_SEGMENTS - 1) |->
            CASE i = 0 -> gdt_create_entry(0, 0, 0)
              [] i = 1 -> flat(GDT_CODE(0))
              [] i = 2 -> flat(GDT_DATA(0))
              [] i = 3 -> flat(GDT_CODE(3))
              [] i = 4 -> flat(GDT_DATA(3))]

(* sizeof(gdt_entry_t) and sizeof(idt_entry_t)                             *)
SIZEOF_ENTRY == 8
create_ptr(entries) == entries * SIZEOF_ENTRY - 1

(* External: what the processor makes of a selector.  Type "none" is a     *)
(* general protection fault.                                               *)
Segment(selector) ==
    LET e == g_gdt_entries[selector \div 8]
    IN  IF (selector % 8) # 0 \/ selector + 7 > create_ptr(GDT_SEGMENTS)
           \/ ~Bit(e.access, 7) \/ ~Bit(e.access, 4)
        THEN [type |-> "none"]
        ELSE [type |-> IF Bit(e.access, 3) THEN "code" ELSE "data",
              ring |-> Field(e.access, 5, 4),
              writable |-> Bit(e.access, 1),
              wide |-> Bit(e.granularity, 6),
              base |-> e.base_low + 2^16 * e.base_middle + 2^24 * e.base_high,
              limit |-> e.segment_limit + 2^16 * (e.granularity % 16),
              unit |-> IF Bit(e.granularity, 7) THEN 4096 ELSE 1]

(* All of the address space, with the privileges of the kernel.            *)
Flat(type) ==
    [type |-> type, ring |-> 0, writable |-> TRUE, wide |-> TRUE,
     base |-> 0, limit |-> 16^5 - 1, unit |-> 4096]

(***************************************************************************)
(* The interrupt descriptor table and the stubs of idt.s.                  *)
(***************************************************************************)

(* Where the linker put the stubs, and the tables of their addresses.      *)
g_isr_stub_table == [vector \in 0..31 |-> STUBS + STUB_SIZE * vector]
g_irq_stub_table == [irq \in 0..15 |-> STUBS + STUB_SIZE * (32 + irq)]

(* The isr_error_stub lines of idt.s, and with page faults left out.       *)
error_stubs_but_page_fault == {8, 10, 11, 12, 13, 17, 30}
error_stubs == {8, 10, 11, 12, 13, 14, 17, 30}

(* What the stub at an address does: its common part and its pushes.       *)
StubAt(address) ==
    IF \E v \in 0..31 : g_isr_stub_table[v] = address
    THEN LET v == CHOOSE v \in 0..31 : g_isr_stub_table[v] = address
         IN  [common |-> "isr", pushes |-> IF v \in error_stubs THEN <<v>> ELSE <<v, 0>>]
    ELSE IF \E irq \in 0..15 : g_irq_stub_table[irq] = address
    THEN LET irq == CHOOSE irq \in 0..15 : g_irq_stub_table[irq] = address
         IN  [common |-> "irq", pushes |-> <<irq + 32, 0>>]
    ELSE [common |-> "none", pushes |-> <<>>]

idt_create_entry(isr, attributes) ==
    [isr_low |-> isr % HALF, selector |-> GDT_KERNEL_CODE_SELECTOR, zero |-> 0,
     attributes |-> attributes, isr_high |-> (isr \div HALF) % HALF]

INTERRUPT_GATE == 142       \* 0x8E: present, ring 0, 32-bit interrupt gate

g_idt_entries ==
    [vector \in 0..(IDT_ENTRIES_AMOUNT - 1) |->
        idt_create_entry(IF vector < 32 THEN g_isr_stub_table[vector]
                         ELSE g_irq_stub_table[vector - 32], INTERRUPT_GATE)]

(* External: the stub the processor enters for a vector, if the gate is    *)
(* present, clears the interrupt flag and leads into ring 0 code.          *)
GateOf(vector) ==
    LET e == g_idt_entries[vector]
    IN  IF /\ vector * 8 + 7 <= create_ptr(IDT_ENTRIES_AMOUNT)
           /\ Bit(e.attributes, 7) /\ e.attributes % 16 = 14 /\ e.zero = 0
           /\ Segment(e.selector) = Flat("code")
        THEN StubAt(e.isr_low + HALF * e.isr_high)
        ELSE [common |-> "none", pushes |-> <<>>]

Gates == [vector \in DOMAIN g_idt_entries |-> GateOf(vector)]
=============================================================================
