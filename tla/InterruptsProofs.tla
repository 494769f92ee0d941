-------------------------- MODULE InterruptsProofs --------------------------
(***************************************************************************)
(* What TLAPS proves of Interrupts, for every placement of the stubs, all  *)
(* devices and exceptions and every width of the timer's counter: what the *)
(* processor makes of the descriptors, that every frame is the one its     *)
(* handler expects and every register comes back, that the controllers and *)
(* the handlers agree, and that pit_wait is not short.                     *)
(***************************************************************************)
EXTENDS Interrupts, SequenceTheorems, TLAPS

(***************************************************************************)
(* The descriptors.                                                        *)
(***************************************************************************)

(* The code segment's descriptor, from its macros.                         *)
LEMMA CodeFlags ==
    /\ GDT_CODE(0) = 154
    /\ GDT_KERNEL_CODE_SELECTOR = 8
    /\ GDT_KERNEL_DATA_SELECTOR = 16
<1>1. /\ 2^1 = 2 /\ 2^3 = 8 /\ 2^4 = 16 /\ 2^5 = 32 /\ 2^7 = 128
  OBVIOUS
<1>2. 0 % 4 = 0
  OBVIOUS
<1> QED
  BY <1>1, <1>2 DEF GDT_CODE, GDT_ACCESS_PRESENT, GDT_ACCESS_PRIVILEGE, GDT_ACCESS_CODE_DATA,
     GDT_ACCESS_CODE, GDT_ACCESS_READ, GDT_KERNEL_CODE_SELECTOR, GDT_KERNEL_DATA_SELECTOR,
     GDT_TO_SELECTOR_INDEX

(* The code segment's descriptor, byte by byte.                            *)
LEMMA CodeEntry ==
    g_gdt_entries[1] =
        [segment_limit |-> 65535, base_low |-> 0, base_middle |-> 0, access |-> 154,
         granularity |-> 207, base_high |-> 0]
<1> DEFINE flags == 154 + GDT_GRAN_4KB + GDT_GRAN_32BIT
<1>1. flags = 49306 /\ 16^5 - 1 = 1048575
  BY DEF GDT_GRAN_4KB, GDT_GRAN_32BIT
<1>2. g_gdt_entries[1] = gdt_create_entry(0, 1048575, 49306)
  BY <1>1, CodeFlags DEF g_gdt_entries, GDT_SEGMENTS
<1>3. /\ 1048575 % 2^16 = 65535 /\ 0 % 2^16 = 0 /\ 49306 % 2^8 = 154
      /\ Field(0, 16, 2^8) = 0 /\ Field(0, 24, 2^8) = 0
      /\ Field(49306, 12, 16) = 12 /\ Field(1048575, 16, 16) = 15 /\ 2^4 = 16
  BY DEF Field
<1> QED
  BY <1>2, <1>3 DEF gdt_create_entry

(* The selector that every gate holds is the flat code segment of ring 0.  *)
LEMMA CodeSegment == Segment(GDT_KERNEL_CODE_SELECTOR) = Flat("code")
<1>1. /\ Bit(154, 7) /\ Bit(154, 4) /\ Bit(154, 3) /\ Bit(154, 1)
      /\ Bit(207, 6) /\ Bit(207, 7)
      /\ Field(154, 5, 4) = 0 /\ 207 % 16 = 15
      /\ 0 + 2^16 * 0 + 2^24 * 0 = 0 /\ 65535 + 2^16 * 15 = 16^5 - 1
  BY DEF Bit, Field
<1>2. 8 \div 8 = 1 /\ 8 % 8 = 0 /\ ~(8 + 7 > create_ptr(GDT_SEGMENTS))
  BY DEF create_ptr, GDT_SEGMENTS, SIZEOF_ENTRY
<1> DEFINE e == g_gdt_entries[8 \div 8]
<1>3. /\ e.access = 154 /\ e.granularity = 207 /\ e.base_low = 0 /\ e.base_middle = 0
      /\ e.base_high = 0 /\ e.segment_limit = 65535
  BY <1>2, CodeEntry
<1>4. ~((8 % 8) # 0 \/ 8 + 7 > create_ptr(GDT_SEGMENTS)
           \/ ~Bit(e.access, 7) \/ ~Bit(e.access, 4))
  <2> HIDE DEF e
  <2> QED
    BY <1>1, <1>2, <1>3
<1>5. Segment(8) =
        [type |-> IF Bit(e.access, 3) THEN "code" ELSE "data",
         ring |-> Field(e.access, 5, 4),
         writable |-> Bit(e.access, 1),
         wide |-> Bit(e.granularity, 6),
         base |-> e.base_low + 2^16 * e.base_middle + 2^24 * e.base_high,
         limit |-> e.segment_limit + 2^16 * (e.granularity % 16),
         unit |-> IF Bit(e.granularity, 7) THEN 4096 ELSE 1]
  BY <1>4, Zenon DEF Segment
<1> HIDE DEF e
<1>6. /\ (IF Bit(e.access, 3) THEN "code" ELSE "data") = "code"
      /\ (IF Bit(e.granularity, 7) THEN 4096 ELSE 1) = 4096
      /\ e.segment_limit + 2^16 * (e.granularity % 16) = 16^5 - 1
      /\ e.base_low + 2^16 * e.base_middle + 2^24 * e.base_high = 0
      /\ Field(e.access, 5, 4) = 0
  BY <1>1, <1>3
<1>7. Bit(e.access, 1) = TRUE /\ Bit(e.granularity, 6) = TRUE
  BY <1>3 DEF Bit
<1> QED
  BY <1>5, <1>6, <1>7, CodeFlags DEF Flat

(***************************************************************************)
(* The gates.                                                              *)
(***************************************************************************)

(* The halves of an address make up the address.                           *)
LEMMA Halves ==
    ASSUME NEW x \in 0..(HALF * HALF - 1)
    PROVE  (x % HALF) + HALF * ((x \div HALF) % HALF) = x
<1> DEFINE q == x \div HALF
           r == x % HALF
<1>1. HALF \in Nat \ {0} /\ HALF * HALF \in Nat
  BY DescriptorsAssumption
<1>2. x \in Nat /\ x < HALF * HALF
  BY <1>1
<1>3. q \in Nat /\ r \in 0..(HALF - 1) /\ x = HALF * q + r
  BY <1>1, <1>2
<1> HIDE DEF q, r
<1>4. ASSUME q >= HALF PROVE FALSE
  <2>1. HALF * q >= HALF * HALF
    BY <1>1, <1>3, <1>4
  <2>2. HALF * q \in Nat
    BY <1>1, <1>3
  <2> QED
    BY <1>1, <1>2, <1>3, <2>1, <2>2
<1>5. q < HALF
  BY <1>1, <1>3, <1>4
<1>6. q % HALF = q
  BY <1>1, <1>3, <1>5
<1> QED
  BY <1>1, <1>3, <1>6 DEF q, r

(* What idt.s has at the address that gate v holds.                        *)
Stub(v) ==
    IF v < 32 THEN [common |-> "isr", pushes |-> IF v \in error_stubs THEN <<v>> ELSE <<v, 0>>]
              ELSE [common |-> "irq", pushes |-> <<v, 0>>]

StubAddress(v) == STUBS + STUB_SIZE * v

(* No two stubs share an address,                                          *)
LEMMA StubsApart ==
    ASSUME NEW v \in 0..47, NEW w \in 0..47, StubAddress(v) = StubAddress(w)
    PROVE  v = w
<1>1. STUBS \in Nat /\ STUB_SIZE \in Nat \ {0}
  BY DescriptorsAssumption
<1>2. STUB_SIZE * v = STUB_SIZE * w
  BY <1>1 DEF StubAddress
<1> QED
  BY <1>1, <1>2

(* so that the address of a stub names it.                                 *)
LEMMA StubsFound ==
    ASSUME NEW v \in 0..47
    PROVE  StubAt(StubAddress(v)) = Stub(v)
<1> DEFINE a == StubAddress(v)
<1>1. /\ \A w \in 0..31 : g_isr_stub_table[w] = StubAddress(w)
      /\ \A l \in 0..15 : g_irq_stub_table[l] = StubAddress(32 + l)
  BY DEF g_isr_stub_table, g_irq_stub_table, StubAddress
<1>2. CASE v < 32
  <2>1. v \in 0..31 /\ g_isr_stub_table[v] = a
    BY <1>1, <1>2
  <2>2. \A w \in 0..31 : g_isr_stub_table[w] = a => w = v
    BY <1>1, StubsApart
  <2> HIDE DEF a
  <2>3. (CHOOSE w \in 0..31 : g_isr_stub_table[w] = a) = v
    BY <2>1, <2>2
  <2>4. \E w \in 0..31 : g_isr_stub_table[w] = a
    BY <2>1
  <2>5. StubAt(a) = [common |-> "isr", pushes |-> IF v \in error_stubs THEN <<v>> ELSE <<v, 0>>]
    BY <2>3, <2>4, Zenon DEF StubAt
  <2> QED
    BY <1>2, <2>5, Zenon DEF Stub, a
<1>3. CASE ~(v < 32)
  <2>1. v - 32 \in 0..15 /\ g_irq_stub_table[v - 32] = a
    BY <1>1, <1>3
  <2>2. \A l \in 0..15 : g_irq_stub_table[l] = a => l = v - 32
    <3> SUFFICES ASSUME NEW l \in 0..15, g_irq_stub_table[l] = a PROVE l = v - 32
      OBVIOUS
    <3>1. 32 + l \in 0..47 /\ StubAddress(32 + l) = StubAddress(v)
      BY <1>1
    <3>2. 32 + l = v
      BY <3>1, StubsApart
    <3> QED
      BY <3>2
  <2>3. ~\E w \in 0..31 : g_isr_stub_table[w] = a
    BY <1>1, <1>3, StubsApart
  <2> HIDE DEF a
  <2>4. (CHOOSE l \in 0..15 : g_irq_stub_table[l] = a) = v - 32
    BY <2>1, <2>2
  <2>5. \E l \in 0..15 : g_irq_stub_table[l] = a
    BY <2>1
  <2>6. StubAt(a) = [common |-> "irq", pushes |-> <<(v - 32) + 32, 0>>]
    BY <2>3, <2>4, <2>5, Zenon DEF StubAt
  <2>7. (v - 32) + 32 = v
    OBVIOUS
  <2> QED
    BY <1>3, <2>6, <2>7, Zenon DEF Stub, a
<1> QED
  BY <1>2, <1>3

(* Every vector leads to its own stub.                                     *)
LEMMA GateIsStub ==
    ASSUME NEW v \in 0..47
    PROVE  Gates[v] = Stub(v)
<1> DEFINE a == StubAddress(v)
           e == g_idt_entries[v]
<1>1. DOMAIN g_idt_entries = 0..47
  BY DEF g_idt_entries, IDT_ENTRIES_AMOUNT
<1>2. e = idt_create_entry(a, 142)
  <2>1. 32 + (v - 32) = v
    OBVIOUS
  <2>2. v >= 32 => v - 32 \in 0..15
    OBVIOUS
  <2> QED
    BY <2>1, <2>2 DEF g_idt_entries, IDT_ENTRIES_AMOUNT, INTERRUPT_GATE, g_isr_stub_table,
       g_irq_stub_table, StubAddress
<1>3. a \in 0..(HALF * HALF - 1)
  <2>1. STUBS \in Nat /\ STUB_SIZE \in Nat \ {0} /\ HALF * HALF \in Nat
        /\ STUBS + STUB_SIZE * 48 <= HALF * HALF
    BY DescriptorsAssumption DEF IDT_ENTRIES_AMOUNT
  <2>2. STUB_SIZE * v \in Nat /\ STUB_SIZE * v < STUB_SIZE * 48
    BY <2>1
  <2> QED
    BY <2>1, <2>2 DEF StubAddress
<1> HIDE DEF a, e
<1>4. /\ e.attributes = 142 /\ e.zero = 0 /\ e.selector = GDT_KERNEL_CODE_SELECTOR
      /\ e.isr_low = a % HALF /\ e.isr_high = (a \div HALF) % HALF
  BY <1>2 DEF idt_create_entry
<1>5. Bit(142, 7) /\ 142 % 16 = 14 /\ v * 8 + 7 <= create_ptr(IDT_ENTRIES_AMOUNT)
  BY DEF Bit, create_ptr, IDT_ENTRIES_AMOUNT, SIZEOF_ENTRY
<1>6. e.isr_low + HALF * e.isr_high = a
  BY <1>3, <1>4, Halves
<1>7. GateOf(v) = StubAt(a)
  BY <1>4, <1>5, <1>6, CodeSegment, Zenon DEF GateOf, e
<1>8. Gates[v] = GateOf(v)
  BY <1>1, Zenon DEF Gates
<1> QED
  BY <1>7, <1>8, StubsFound DEF a

(***************************************************************************)
(* The stack.  A frame has FRAME words whatever the exception, and its     *)
(* activation's words are where isr_frame_t has them.                      *)
(***************************************************************************)

FRAME == 15

(* The registers of an interrupted context.                                *)
LEMMA Contexts ==
    ASSUME NEW d \in Nat
    PROVE  /\ Context(d).eip = 1000 + d /\ Context(d).cs = 8 /\ Context(d).ds = 16
           /\ Context(d).eflags = (IF d = 0 THEN 512 ELSE 0)
           /\ Context(d).regs \in [1..8 -> Nat]
  BY CodeFlags DEF Context, IF_FLAG

(* The words that the processor, the stub and the common stub push.        *)
Pushed(v, error, c) ==
    <<CR2, c.ds>> \o [i \in 1..8 |-> c.regs[i]] \o Stub(v).pushes
        \o (error \o <<c.eip, c.cs, c.eflags>>)

ErrorOf(v) == IF v \in HasErrorCode THEN <<ERROR_CODE>> ELSE <<>>

(* The words that pusha pushes.                                            *)
LEMMA EightWords ==
    ASSUME NEW g \in [1..8 -> Nat]
    PROVE  /\ [i \in 1..8 |-> g[i]] \in Seq(Nat)
           /\ Len([i \in 1..8 |-> g[i]]) = 8
           /\ \A i \in 1..8 : [j \in 1..8 |-> g[j]][i] = g[i]
<1> DEFINE f == [i \in 1..8 |-> g[i]]
<1>1. f \in [1..8 -> Nat] /\ DOMAIN f = 1..8
  OBVIOUS
<1>2. f \in Seq(Nat)
  BY <1>1, SeqDef
<1>3. Len(f) \in Nat /\ DOMAIN f = 1..Len(f)
  BY <1>2, LenProperties
<1>4. Len(f) = 8
  <2>1. Len(f) >= 8
    <3>1. 8 \in 1..Len(f)
      BY <1>1, <1>3
    <3> QED
      BY <1>3, <3>1
  <2>2. Len(f) <= 8
    <3> SUFFICES ASSUME Len(f) > 8 PROVE FALSE
      BY <1>3
    <3>1. 9 \in 1..Len(f) /\ 9 \notin 1..8
      BY <1>3
    <3> QED
      BY <1>1, <1>3, <3>1
  <2> QED
    BY <1>3, <2>1, <2>2
<1> QED
  BY <1>2, <1>4

(* Two sequences after one another.                                        *)
LEMMA Joined ==
    ASSUME NEW s \in Seq(Nat), NEW t \in Seq(Nat)
    PROVE  /\ s \o t \in Seq(Nat) /\ Len(s \o t) = Len(s) + Len(t)
           /\ \A i \in 1..Len(s) : (s \o t)[i] = s[i]
           /\ \A i \in 1..Len(t) : (s \o t)[Len(s) + i] = t[i]
<1>1. /\ s \o t \in Seq(Nat) /\ Len(s \o t) = Len(s) + Len(t)
      /\ \A i \in 1..(Len(s) + Len(t)) :
            (s \o t)[i] = IF i <= Len(s) THEN s[i] ELSE t[i - Len(s)]
  BY ConcatProperties, Zenon
<1>2. Len(s) \in Nat /\ Len(t) \in Nat
  BY LenProperties
<1> QED
  BY <1>1, <1>2

(* Joining stacks is associative,                                          *)
LEMMA NatConcat == \A r, s, t \in Seq(Nat) : (r \o s) \o t = r \o (s \o t)
  BY ConcatAssociative, SMTT(60)

(* also for four of them.                                                  *)
LEMMA Regroup ==
    \A r, s, t, u \in Seq(Nat) : (r \o s) \o (t \o u) = r \o ((s \o t) \o u)
<1> TAKE r, s, t, u \in Seq(Nat)
<1> DEFINE x == t \o u
<1>1. x \in Seq(Nat)
  BY Joined
<1> HIDE DEF x
<1>2. (r \o s) \o x = r \o (s \o x)
  BY <1>1, NatConcat
<1>3. s \o x = (s \o t) \o u
  BY NatConcat DEF x
<1> QED
  BY <1>2, <1>3 DEF x

(* The same, as a formula that is instantiated without being expanded.     *)
Regroups(r, s, t, u) == (r \o s) \o (t \o u) = r \o ((s \o t) \o u)

LEMMA RegroupStacks == \A r, s, t, u \in Seq(Nat) : Regroups(r, s, t, u)
  BY Regroup, Zenon DEF Regroups

(* The fields of isr_frame_t in what was pushed, error code or not.        *)
LEMMA FrameWords ==
    ASSUME NEW v \in 0..47, NEW d \in Nat
    PROVE  LET w == Pushed(v, ErrorOf(v), Context(d))
           IN  /\ w \in Seq(Nat) /\ Len(w) = FRAME
               /\ w[2] = Context(d).ds
               /\ \A r \in 1..8 : w[2 + r] = Context(d).regs[r]
               /\ w[11] = v
               /\ w[12] = (IF ErrorOf(v) = <<>> THEN 0 ELSE ERROR_CODE)
               /\ w[13] = Context(d).eip /\ w[14] = Context(d).cs /\ w[15] = Context(d).eflags
<1> DEFINE c == Context(d)
           g == [i \in 1..8 |-> c.regs[i]]
           p == <<CR2, c.ds>>
<1>1. g \in Seq(Nat) /\ Len(g) = 8 /\ \A r \in 1..8 : g[r] = c.regs[r]
  BY Contexts, EightWords
<1>2. c.ds \in Nat /\ c.eip \in Nat /\ c.cs \in Nat /\ c.eflags \in Nat
  <2>1. Context(d).ds = 16 /\ Context(d).cs = 8 /\ Context(d).eip = 1000 + d
    BY Contexts
  <2>2. Context(d).eflags = 0 \/ Context(d).eflags = 512
    BY Contexts
  <2> QED
    BY <2>1, <2>2
<1> HIDE DEF c
<1>3. p \in Seq(Nat) /\ Len(p) = 2 /\ p[2] = c.ds
  BY <1>2 DEF CR2
<1> DEFINE q == Stub(v).pushes \o ErrorOf(v)
           u == <<c.eip, c.cs, c.eflags>>
<1>4. /\ Stub(v).pushes \in Seq(Nat) /\ ErrorOf(v) \in Seq(Nat)
      /\ q \in Seq(Nat) /\ Len(q) = 2 /\ q[1] = v
      /\ q[2] = (IF ErrorOf(v) = <<>> THEN 0 ELSE ERROR_CODE)
  <2>1. CASE v \in HasErrorCode
    <3>1. v < 32 /\ v \in error_stubs
      BY <2>1 DEF HasErrorCode, error_stubs
    <3>2. Stub(v).pushes = <<v>>
      BY <3>1 DEF Stub
    <3>3. ErrorOf(v) = <<ERROR_CODE>> /\ ErrorOf(v) # <<>>
      BY <2>1 DEF ErrorOf
    <3>4. v \in Nat /\ ERROR_CODE \in Nat
      BY DEF ERROR_CODE
    <3> DEFINE s == <<v>>
               t == <<ERROR_CODE>>
    <3>5. s \in Seq(Nat) /\ Len(s) = 1 /\ s[1] = v /\ t \in Seq(Nat) /\ Len(t) = 1
          /\ t[1] = ERROR_CODE
      BY <3>4
    <3> HIDE DEF s, t
    <3>6. /\ s \o t \in Seq(Nat) /\ Len(s \o t) = Len(s) + Len(t)
          /\ \A i \in 1..Len(s) : (s \o t)[i] = s[i]
          /\ \A i \in 1..Len(t) : (s \o t)[Len(s) + i] = t[i]
      BY <3>5, Joined
    <3> DEFINE st == s \o t
    <3> HIDE DEF st
    <3>7. st \in Seq(Nat) /\ Len(st) = 2 /\ st[1] = v /\ st[2] = ERROR_CODE
      <4>1. /\ st \in Seq(Nat) /\ Len(st) = 1 + 1
            /\ \A i \in 1..1 : st[i] = s[i]
            /\ \A i \in 1..1 : st[1 + i] = t[i]
        BY <3>5, <3>6, Zenon DEF st
      <4>2. st[1] = s[1] /\ st[1 + 1] = t[1]
        BY <4>1
      <4> QED
        BY <3>5, <4>1, <4>2
    <3>8. q = st /\ Stub(v).pushes = s /\ ErrorOf(v) = t
      BY <3>2, <3>3 DEF s, t, st
    <3> HIDE DEF q
    <3> QED
      BY <3>3, <3>5, <3>7, <3>8, Zenon
  <2>2. CASE v \notin HasErrorCode
    <3>1. v \notin error_stubs
      BY <2>2 DEF HasErrorCode, error_stubs
    <3>2. Stub(v).pushes = <<v, 0>>
      BY <3>1 DEF Stub
    <3>3. ErrorOf(v) = <<>>
      BY <2>2 DEF ErrorOf
    <3>4. <<v, 0>> \in Seq(Nat) /\ <<>> \in Seq(Nat) /\ <<v, 0>> \o <<>> = <<v, 0>>
      OBVIOUS
    <3>5. q = <<v, 0>>
      BY <3>2, <3>3, <3>4
    <3> HIDE DEF q
    <3> QED
      BY <3>2, <3>3, <3>4, <3>5
  <2> QED
    BY <2>1, <2>2
<1>5. u \in Seq(Nat) /\ Len(u) = 3 /\ u[1] = c.eip /\ u[2] = c.cs /\ u[3] = c.eflags
  BY <1>2
<1>6. q \in Seq(Nat) /\ Len(q) = 2 /\ q[1] = v
      /\ q[2] = (IF ErrorOf(v) = <<>> THEN 0 ELSE ERROR_CODE)
  BY <1>4
<1> HIDE DEF g, p, q, u
<1>7. Pushed(v, ErrorOf(v), c) = (p \o g) \o (q \o u)
  <2>1. Pushed(v, ErrorOf(v), c) = ((p \o g) \o Stub(v).pushes) \o (ErrorOf(v) \o u)
    BY DEF Pushed, p, g, u
  <2>2. p \o g \in Seq(Nat)
    BY <1>1, <1>3
  <2>3. ((p \o g) \o Stub(v).pushes) \o (ErrorOf(v) \o u)
            = (p \o g) \o ((Stub(v).pushes \o ErrorOf(v)) \o u)
    <3> DEFINE a == p \o g
               b == Stub(v).pushes
               e == ErrorOf(v)
    <3>1. a \in Seq(Nat) /\ b \in Seq(Nat) /\ e \in Seq(Nat) /\ u \in Seq(Nat)
      BY <1>4, <1>5, <2>2
    <3> HIDE DEF a, b, e, u
    <3>2. Regroups(a, b, e, u)
      BY <3>1, RegroupStacks
    <3> QED
      BY <3>2, Zenon DEF Regroups, a, b, e, u
  <2> QED
    BY <1>4, <2>1, <2>3 DEF q
<1> DEFINE x == p \o g
           y == q \o u
<1>8. /\ x \in Seq(Nat) /\ Len(x) = 10 /\ x[2] = c.ds
      /\ \A r \in 1..8 : x[2 + r] = c.regs[r]
  <2>1. /\ x \in Seq(Nat) /\ Len(x) = Len(p) + Len(g)
        /\ \A i \in 1..Len(p) : x[i] = p[i]
        /\ \A i \in 1..Len(g) : x[Len(p) + i] = g[i]
    BY <1>1, <1>3, Joined
  <2> HIDE DEF x
  <2> QED
    BY <1>1, <1>3, <2>1
<1>9. /\ y \in Seq(Nat) /\ Len(y) = 5 /\ y[1] = q[1] /\ y[2] = q[2]
      /\ y[3] = u[1] /\ y[4] = u[2] /\ y[5] = u[3]
  <2>1. /\ y \in Seq(Nat) /\ Len(y) = Len(q) + Len(u)
        /\ \A i \in 1..Len(q) : y[i] = q[i]
        /\ \A i \in 1..Len(u) : y[Len(q) + i] = u[i]
    BY <1>5, <1>6, Joined
  <2> HIDE DEF y
  <2>2. /\ y \in Seq(Nat) /\ Len(y) = 5
        /\ \A i \in 1..2 : y[i] = q[i]
        /\ \A i \in 1..3 : y[2 + i] = u[i]
    BY <1>5, <1>6, <2>1
  <2>3. y[2 + 1] = u[1] /\ y[2 + 2] = u[2] /\ y[2 + 3] = u[3]
    BY <2>2
  <2> QED
    BY <2>2, <2>3
<1> HIDE DEF x, y
<1>10. /\ x \o y \in Seq(Nat) /\ Len(x \o y) = 15
       /\ \A i \in 1..10 : (x \o y)[i] = x[i]
       /\ \A i \in 1..5 : (x \o y)[10 + i] = y[i]
  <2>1. /\ x \o y \in Seq(Nat) /\ Len(x \o y) = Len(x) + Len(y)
        /\ \A i \in 1..Len(x) : (x \o y)[i] = x[i]
        /\ \A i \in 1..Len(y) : (x \o y)[Len(x) + i] = y[i]
    BY <1>8, <1>9, Joined
  <2>2. Len(x) + Len(y) = 15
    BY <1>8, <1>9
  <2> QED
    BY <1>8, <1>9, <2>1, <2>2, Zenon
<1> DEFINE w == x \o y
<1> HIDE DEF w
<1>11. /\ \A i \in 1..10 : w[i] = x[i]
       /\ \A i \in 1..5 : w[10 + i] = y[i]
  BY <1>10 DEF w
<1>12. /\ w[10 + 1] = y[1] /\ w[10 + 2] = y[2] /\ w[10 + 3] = y[3]
       /\ w[10 + 4] = y[4] /\ w[10 + 5] = y[5]
  BY <1>11
<1>13. w[2] = x[2] /\ \A r \in 1..8 : w[2 + r] = x[2 + r]
  BY <1>11
<1>14. /\ w \in Seq(Nat) /\ Len(w) = FRAME /\ w[2] = c.ds
       /\ \A r \in 1..8 : w[2 + r] = c.regs[r]
       /\ w[11] = v /\ w[12] = (IF ErrorOf(v) = <<>> THEN 0 ELSE ERROR_CODE)
       /\ w[13] = c.eip /\ w[14] = c.cs /\ w[15] = c.eflags
  <2>1. w \in Seq(Nat) /\ Len(w) = FRAME
    BY <1>10 DEF w, FRAME
  <2>2. w[11] = y[1] /\ w[12] = y[2] /\ w[13] = y[3] /\ w[14] = y[4] /\ w[15] = y[5]
    BY <1>12
  <2> QED
    BY <1>5, <1>6, <1>8, <1>9, <1>13, <2>1, <2>2, Zenon
<1> QED
  BY <1>7, <1>14 DEF w, x, y, c

(***************************************************************************)
(* The inductive invariant of the stack and the activations.               *)
(***************************************************************************)

Places == {"entered", "body", "eoi", "return"}

Activation ==
    [common : {"isr", "irq"}, vector : 0..47, at : Places, frame : Nat,
     error : {<<>>, <<ERROR_CODE>>}, saved : {Context(d) : d \in Nat}]

(* The frame of activation a, `below' words from the top of the stack s.   *)
Tells(s, below, a) ==
    /\ s[below + 2] = a.saved.ds
    /\ \A r \in 1..8 : s[below + 2 + r] = a.saved.regs[r]
    /\ s[below + 11] = a.vector
    /\ s[below + 12] = IF a.error = <<>> THEN 0 ELSE ERROR_CODE
    /\ s[below + 13] = a.saved.eip
    /\ s[below + 14] = a.saved.cs
    /\ s[below + 15] = a.saved.eflags

(* Activation i of n has its kind's common stub, has saved the context it  *)
(* interrupted and is where its place in the stack says.  Only the first   *)
(* to enter, the last of them, can be a device's.                          *)
FrameOK(a, i, n, s) ==
    /\ a.common = IF a.vector < 32 THEN "isr" ELSE "irq"
    /\ a.frame = FRAME * ((n - i) + 1)
    /\ a.saved = Context(n - i)
    /\ i < n => a.vector < 32
    /\ Tells(s, FRAME * (i - 1), a)

FrameInv ==
    /\ stack \in Seq(Nat)
    /\ active \in Seq(Activation)
    /\ Len(stack) = FRAME * Len(active)
    /\ \A i \in DOMAIN active : FrameOK(active[i], i, Len(active), stack)

PicState ==
    [irr : SUBSET Lines, isr : SUBSET (0..15), mask : [1..2 -> SUBSET (0..7)],
     offset : {<<8, 112>>, <<32, 40>>}]

(* Where the kernel is, and what the processor and the controllers then    *)
(* have.                                                                   *)
KernelInv ==
    /\ pic \in PicState
    /\ pc \in {"boot", "gdt", "run", "wait", "panic"}
    /\ pc \in {"run", "wait"} => cpu = Context(Len(active))
    /\ pc \in {"boot", "gdt"} => active = <<>> /\ cpu.eflags = 0
    /\ pc = "boot" => cpu = [Context(0) EXCEPT !.eflags = 0, !.cs = 0, !.ds = 0]
    /\ pc = "gdt" => cpu = [Context(0) EXCEPT !.eflags = 0]
    /\ pc \notin {"boot", "gdt"} => pic.offset = <<32, 40>>

(* The property, from the inductive invariants.                            *)
LEMMA FramesFromInv ==
    ASSUME FrameInv, KernelInv
    PROVE  FramesTrue
<1>1. active = <<>> => stack = <<>>
  <2> SUFFICES ASSUME active = <<>> PROVE stack = <<>>
    OBVIOUS
  <2>1. Len(stack) = 0 /\ stack \in Seq(Nat)
    BY DEF FrameInv, FRAME
  <2> QED
    BY <2>1, EmptySeq
<1>2. pc \in {"run", "wait"} => cpu = Context(Len(active))
  BY DEF KernelInv
<1>3. ASSUME NEW i \in DOMAIN active
      PROVE  LET a == active[i]
                 word(n) == stack[Len(stack) - a.frame + n]
             IN  /\ a.common = IF a.vector < 32 THEN "isr" ELSE "irq"
                 /\ word(11) = a.vector
                 /\ word(12) = IF a.error = <<>> THEN 0 ELSE ERROR_CODE
                 /\ a.saved = [ds |-> word(2), regs |-> [r \in 1..8 |-> word(2 + r)],
                               eip |-> word(13), cs |-> word(14), eflags |-> word(15)]
                 /\ a.saved.eflags = IF_FLAG <=> i = Len(active)
  <2> DEFINE a == active[i]
             n == Len(active)
             word(k) == stack[Len(stack) - a.frame + k]
  <2>1. FrameOK(a, i, n, stack) /\ n \in Nat /\ i \in 1..n /\ Len(stack) = FRAME * n
    BY <1>3 DEF FrameInv
  <2>2. Len(stack) - a.frame = FRAME * (i - 1)
    BY <2>1 DEF FrameOK, FRAME
  <2> HIDE DEF a, n
  <2> DEFINE b == FRAME * (i - 1)
  <2>3. \A k \in Nat : word(k) = stack[b + k]
    BY <2>2
  <2>4. b \in Nat /\ n - i \in Nat
    BY <2>1 DEF FRAME
  <2> HIDE DEF b, word
  <2>5. Tells(stack, b, a) /\ a.saved = Context(n - i)
    BY <2>1 DEF FrameOK, b
  <2>6. /\ word(2) = a.saved.ds /\ word(11) = a.vector
        /\ word(12) = (IF a.error = <<>> THEN 0 ELSE ERROR_CODE)
        /\ word(13) = a.saved.eip /\ word(14) = a.saved.cs /\ word(15) = a.saved.eflags
    BY <2>3, <2>5 DEF Tells
  <2>7. \A r \in 1..8 : word(2 + r) = a.saved.regs[r]
    <3> TAKE r \in 1..8
    <3>1. word(2 + r) = stack[b + (2 + r)] /\ b + (2 + r) = b + 2 + r
      BY <2>3, <2>4
    <3> QED
      BY <2>5, <3>1 DEF Tells
  <2>8. [r \in 1..8 |-> word(2 + r)] = a.saved.regs
    BY <2>4, <2>5, <2>7, Contexts
  <2>9. a.saved = [ds |-> a.saved.ds, regs |-> a.saved.regs, eip |-> a.saved.eip,
                   cs |-> a.saved.cs, eflags |-> a.saved.eflags]
    BY <2>5 DEF Context
  <2>10. a.saved.eflags = IF_FLAG <=> i = n
    <3>1. a.saved.eflags = (IF n - i = 0 THEN 512 ELSE 0)
      BY <2>4, <2>5, Contexts
    <3>2. n - i = 0 <=> i = n
      BY <2>1
    <3> QED
      BY <3>1, <3>2 DEF IF_FLAG
  <2>11. a.saved = [ds |-> word(2), regs |-> [r \in 1..8 |-> word(2 + r)],
                    eip |-> word(13), cs |-> word(14), eflags |-> word(15)]
    BY <2>6, <2>8, <2>9, Zenon
  <2>12. a.common = IF a.vector < 32 THEN "isr" ELSE "irq"
    BY <2>1 DEF FrameOK
  <2> QED
    BY <2>6, <2>10, <2>11, <2>12, Zenon DEF a, n, word
<1> QED
  BY <1>1, <1>2, <1>3, Zenon DEF FramesTrue

(***************************************************************************)
(* Entering and leaving.                                                   *)
(***************************************************************************)

(* The frame that a vector's entry puts on the stack.                      *)
LEMMA EnterFrames ==
    ASSUME FrameInv, cpu = Context(Len(active)), NEW v \in 0..47,
           v >= 32 => active = <<>>, enter(v, ErrorOf(v))
    PROVE  /\ FrameInv'
           /\ Len(active') = Len(active) + 1
           /\ active'[1].vector = v /\ active'[1].at = "entered"
           /\ \A i \in DOMAIN active : i + 1 \in DOMAIN active' /\ active'[i + 1] = active[i]
           /\ \A i \in DOMAIN active' : i = 1 \/ (i - 1 \in DOMAIN active
                                                   /\ active'[i] = active[i - 1])
           /\ cpu' = Context(Len(active'))
<1> DEFINE n == Len(active)
           w == Pushed(v, ErrorOf(v), Context(n))
           new == [common |-> Stub(v).common, vector |-> v, at |-> "entered",
                   frame |-> Len(w \o stack), error |-> ErrorOf(v), saved |-> cpu]
<1>1. n \in Nat /\ active \in Seq(Activation) /\ stack \in Seq(Nat) /\ Len(stack) = FRAME * n
  BY DEF FrameInv
<1>2. Gates[v] = Stub(v)
  BY GateIsStub
<1>3. stack' = w \o stack /\ active' = <<new>> \o active /\ cpu' = Context(n + 1)
  BY <1>2, Zenon DEF enter, Pushed
<1>4. /\ w \in Seq(Nat) /\ Len(w) = FRAME
      /\ w[2] = Context(n).ds
      /\ \A r \in 1..8 : w[2 + r] = Context(n).regs[r]
      /\ w[11] = v
      /\ w[12] = (IF ErrorOf(v) = <<>> THEN 0 ELSE ERROR_CODE)
      /\ w[13] = Context(n).eip /\ w[14] = Context(n).cs /\ w[15] = Context(n).eflags
  BY <1>1, FrameWords
<1> HIDE DEF w
<1>5. /\ w \o stack \in Seq(Nat) /\ Len(w \o stack) = FRAME + Len(stack)
      /\ \A k \in 1..FRAME : (w \o stack)[k] = w[k]
      /\ \A k \in 1..Len(stack) : (w \o stack)[FRAME + k] = stack[k]
  BY <1>1, <1>4, Joined
<1>6. Stub(v).common = (IF v < 32 THEN "isr" ELSE "irq")
  BY DEF Stub
<1>7. ErrorOf(v) \in {<<>>, <<ERROR_CODE>>}
  BY DEF ErrorOf
<1>8. /\ new.common = (IF v < 32 THEN "isr" ELSE "irq") /\ new.vector = v
      /\ new.at = "entered" /\ new.frame = FRAME + FRAME * n /\ new.error = ErrorOf(v)
      /\ new.saved = Context(n)
  BY <1>1, <1>5, <1>6
<1>9. new \in Activation
  <2>1. new.frame \in Nat
    BY <1>1, <1>8 DEF FRAME
  <2>2. Stub(v).common \in {"isr", "irq"}
    BY <1>6
  <2>3. cpu \in {Context(d) : d \in Nat}
    BY <1>1
  <2> QED
    BY <2>1, <2>2, <2>3, <1>7 DEF Activation, Places
<1> HIDE DEF new
<1>10. /\ active' \in Seq(Activation) /\ Len(active') = n + 1
       /\ active'[1] = new
       /\ \A i \in DOMAIN active : i + 1 \in DOMAIN active' /\ active'[i + 1] = active[i]
       /\ \A i \in DOMAIN active' : i \in 1..(n + 1)
                /\ (i = 1 \/ (i - 1 \in DOMAIN active /\ active'[i] = active[i - 1]))
  BY <1>1, <1>3, <1>9
<1>11. stack' \in Seq(Nat) /\ Len(stack') = FRAME * (n + 1)
  BY <1>1, <1>3, <1>5 DEF FRAME
<1>12. \A k \in 1..FRAME : stack'[k] = w[k]
  BY <1>3, <1>5
<1>13. \A k \in 1..Len(stack) : stack'[FRAME + k] = stack[k]
  BY <1>3, <1>5
<1>14. FrameOK(new, 1, n + 1, stack')
  <2>1. Tells(stack', 0, new)
    <3>1. /\ stack'[2] = w[2] /\ stack'[11] = w[11] /\ stack'[12] = w[12]
          /\ stack'[13] = w[13] /\ stack'[14] = w[14] /\ stack'[15] = w[15]
      BY <1>12 DEF FRAME
    <3>2. \A r \in 1..8 : stack'[2 + r] = w[2 + r]
      BY <1>12 DEF FRAME
    <3>3. /\ 0 + 2 = 2 /\ 0 + 11 = 11 /\ 0 + 12 = 12 /\ 0 + 13 = 13 /\ 0 + 14 = 14
          /\ 0 + 15 = 15
      OBVIOUS
    <3>4. /\ stack'[2] = new.saved.ds /\ stack'[11] = new.vector
          /\ stack'[12] = (IF new.error = <<>> THEN 0 ELSE ERROR_CODE)
          /\ stack'[13] = new.saved.eip /\ stack'[14] = new.saved.cs
          /\ stack'[15] = new.saved.eflags
      BY <1>4, <1>8, <3>1
    <3>5. \A r \in 1..8 : stack'[2 + r] = new.saved.regs[r]
      BY <1>4, <1>8, <3>2
    <3> QED
      BY <3>3, <3>4, <3>5, Zenon DEF Tells
  <2>2. FRAME * (1 - 1) = 0 /\ (n + 1) - 1 = n /\ FRAME * (((n + 1) - 1) + 1) = FRAME + FRAME * n
    BY <1>1 DEF FRAME
  <2>3. 1 < n + 1 => v < 32
    <3> SUFFICES ASSUME v >= 32 PROVE n = 0
      BY <1>1
    <3> QED
      OBVIOUS
  <2> QED
    BY <1>8, <2>1, <2>2, <2>3, Zenon DEF FrameOK
<1>15. ASSUME NEW i \in DOMAIN active', i # 1
       PROVE  FrameOK(active'[i], i, n + 1, stack')
  <2> DEFINE j == i - 1
             a == active[j]
             b == FRAME * (j - 1)
  <2>1. j \in DOMAIN active /\ active'[i] = a /\ i \in 1..(n + 1) /\ j \in 1..n
    BY <1>1, <1>10, <1>15
  <2>2. FrameOK(a, j, n, stack)
    BY <2>1 DEF FrameInv
  <2> HIDE DEF a
  <2>3. /\ (n + 1) - i = n - j /\ (i < n + 1 <=> j < n)
        /\ FRAME * (i - 1) = FRAME + b /\ b \in Nat /\ b + FRAME <= Len(stack)
    <3> HIDE DEF n
    <3>1. n \in Nat /\ Len(stack) = 15 * n /\ i \in 1..(n + 1) /\ i - 1 \in 1..n
      BY <1>1, <2>1 DEF FRAME
    <3>2. (n + 1) - i = n - (i - 1) /\ (i < n + 1 <=> i - 1 < n)
      BY <3>1
    <3>3. 15 * (i - 1) = 15 + 15 * ((i - 1) - 1) /\ 15 * ((i - 1) - 1) \in Nat
      BY <3>1
    <3>4. 15 * ((i - 1) - 1) + 15 <= 15 * n
      BY <3>1
    <3> QED
      BY <3>1, <3>2, <3>3, <3>4 DEF FRAME
  <2> HIDE DEF j, b
  <2>4. \A k \in 1..15 : stack'[FRAME + b + k] = stack[b + k]
    <3> TAKE k \in 1..15
    <3>1. b + k \in 1..Len(stack) /\ FRAME + (b + k) = FRAME + b + k
      BY <1>1, <2>3 DEF FRAME
    <3> QED
      BY <1>13, <3>1
  <2>5. Tells(stack, b, a)
    BY <2>2 DEF FrameOK, b
  <2>6. Tells(stack', FRAME + b, a)
    <3>1. \A r \in 1..8 : /\ FRAME + b + 2 + r = FRAME + b + (2 + r)
                          /\ b + 2 + r = b + (2 + r) /\ 2 + r \in 1..15
      BY <2>3 DEF FRAME
    <3>2. 2 \in 1..15 /\ 11 \in 1..15 /\ 12 \in 1..15 /\ 13 \in 1..15 /\ 14 \in 1..15 /\ 15 \in 1..15
      OBVIOUS
    <3>3. \A r \in 1..8 : stack'[FRAME + b + 2 + r] = stack[b + 2 + r]
      BY <2>4, <3>1
    <3> QED
      BY <2>4, <2>5, <3>2, <3>3, Zenon DEF Tells
  <2> QED
    BY <2>1, <2>2, <2>3, <2>6, Zenon DEF FrameOK
<1>16. \A i \in DOMAIN active' : FrameOK(active'[i], i, Len(active'), stack')
  BY <1>10, <1>14, <1>15, Zenon
<1>17. FrameInv'
  BY <1>10, <1>11, <1>16 DEF FrameInv
<1> QED
  BY <1>3, <1>8, <1>10, <1>17

(* The innermost activation is at the top of the stack.                    *)
LEMMA Innermost ==
    ASSUME FrameInv, active # <<>>
    PROVE  /\ 1 \in DOMAIN active /\ Head(active) = active[1] /\ active[1] \in Activation
           /\ Len(active) \in Nat \ {0} /\ DOMAIN active = 1..Len(active)
           /\ FrameOK(active[1], 1, Len(active), stack)
           /\ Tells(stack, 0, active[1])
           /\ int_no = active[1].vector
<1>1. /\ active \in Seq(Activation) /\ 1 \in DOMAIN active /\ Head(active) = active[1]
      /\ active[1] \in Activation /\ Len(active) \in Nat \ {0} /\ DOMAIN active = 1..Len(active)
  BY DEF FrameInv
<1>2. FrameOK(active[1], 1, Len(active), stack)
  BY <1>1 DEF FrameInv
<1> DEFINE n == Len(active)
<1> HIDE DEF n
<1>3. FRAME * (1 - 1) = 0 /\ FRAME * ((n - 1) + 1) = FRAME * n
  BY <1>1 DEF FRAME, n
<1>4. Tells(stack, 0, active[1])
  BY <1>2, <1>3, Zenon DEF FrameOK
<1>5. Len(stack) - Head(active).frame + 11 = 0 + 11
  BY <1>1, <1>2, <1>3 DEF FrameOK, FrameInv, FRAME, n
<1>6. int_no = active[1].vector
  BY <1>4, <1>5, Zenon DEF int_no, field, Tells
<1> QED
  BY <1>1, <1>2, <1>4, <1>6

(* A part of a sequence.                                                   *)
LEMMA Part ==
    ASSUME NEW s \in Seq(Nat), NEW m \in Nat, NEW l \in Nat, m + l <= Len(s)
    PROVE  /\ SubSeq(s, m + 1, m + l) \in Seq(Nat)
           /\ Len(SubSeq(s, m + 1, m + l)) = l
           /\ \A k \in 1..l : SubSeq(s, m + 1, m + l)[k] = s[m + k]
  OBVIOUS

(* The end of a stub: the context that was interrupted is back.            *)
LEMMA LeaveFrames ==
    ASSUME FrameInv, stub_return
    PROVE  /\ FrameInv'
           /\ Len(active) \in Nat \ {0}
           /\ Len(active') = Len(active) - 1
           /\ \A i \in DOMAIN active' : i + 1 \in DOMAIN active /\ active'[i] = active[i + 1]
           /\ cpu' = Context(Len(active'))
<1> DEFINE n == Len(active)
           rest == SubSeq(stack, 12 + 1, Len(stack))
           tail == SubSeq(rest, 4, Len(rest))
<1>1. active # <<>> /\ active' = Tail(active) /\ stack' = tail
      /\ cpu' = [ds |-> stack[2], regs |-> SubSeq(stack, 3, 10),
                 eip |-> rest[1], cs |-> rest[2], eflags |-> rest[3]]
  BY Zenon DEF stub_return, stub_words
<1>2. /\ n \in Nat \ {0} /\ active \in Seq(Activation) /\ stack \in Seq(Nat)
      /\ Len(stack) = 15 * n /\ Len(stack) >= 15 /\ Len(stack) \in Nat
  BY <1>1, Innermost DEF FrameInv, FRAME
<1>3. /\ active' \in Seq(Activation) /\ Len(active') = n - 1
      /\ \A i \in DOMAIN active' : /\ i \in 1..(n - 1) /\ i + 1 \in DOMAIN active
                                   /\ active'[i] = active[i + 1]
  BY <1>1, <1>2
<1> HIDE DEF n
<1>4. /\ rest \in Seq(Nat) /\ Len(rest) = Len(stack) - 12
      /\ \A k \in 1..(Len(stack) - 12) : rest[k] = stack[12 + k]
  BY <1>2
<1> HIDE DEF rest
<1>5. rest[1] = stack[13] /\ rest[2] = stack[14] /\ rest[3] = stack[15]
  <2>1. rest[1] = stack[12 + 1] /\ rest[2] = stack[12 + 2] /\ rest[3] = stack[12 + 3]
    BY <1>2, <1>4, SMTT(20)
  <2> QED
    BY <2>1
<1>6. /\ tail \in Seq(Nat) /\ Len(tail) = Len(stack) - 15
      /\ \A k \in 1..(Len(stack) - 15) : tail[k] = stack[15 + k]
  <2>1. Len(rest) \in Nat /\ Len(rest) >= 3
    BY <1>2, <1>4
  <2>2. /\ tail \in Seq(Nat) /\ Len(tail) = Len(rest) - 3
        /\ \A k \in 1..(Len(rest) - 3) : tail[k] = rest[3 + k]
    <3> DEFINE l == Len(rest) - 3
    <3>1. l \in Nat /\ 3 + l = Len(rest) /\ 3 + 1 = 4
      BY <2>1
    <3> HIDE DEF l
    <3>2. tail = SubSeq(rest, 3 + 1, 3 + l)
      BY <3>1 DEF tail
    <3>3. /\ tail \in Seq(Nat) /\ Len(tail) = l
          /\ \A k \in 1..l : tail[k] = rest[3 + k]
      BY <1>4, <2>1, <3>1, <3>2, Part
    <3> QED
      BY <3>3 DEF l
  <2> HIDE DEF tail
  <2>3. \A k \in 1..(Len(stack) - 15) : tail[k] = stack[15 + k]
    <3> TAKE k \in 1..(Len(stack) - 15)
    <3>1. k \in 1..(Len(rest) - 3) /\ 3 + k \in 1..(Len(stack) - 12) /\ 12 + (3 + k) = 15 + k
      BY <1>2, <1>4
    <3> QED
      BY <1>4, <2>2, <3>1
  <2> QED
    BY <1>2, <1>4, <2>2, <2>3
<1> HIDE DEF tail
<1>7. stack' \in Seq(Nat) /\ Len(stack') = FRAME * Len(active')
  <2>1. Len(stack) - 15 = 15 * (n - 1)
    BY <1>2
  <2> QED
    BY <1>1, <1>3, <1>6, <2>1 DEF FRAME
<1>8. ASSUME NEW i \in DOMAIN active'
      PROVE  FrameOK(active'[i], i, n - 1, stack')
  <2> DEFINE j == i + 1
             a == active[j]
             b == FRAME * (i - 1)
  <2>1. j \in DOMAIN active /\ active'[i] = a /\ i \in 1..(n - 1)
    BY <1>3, <1>8
  <2>2. FrameOK(a, j, n, stack)
    BY <2>1 DEF FrameInv, n
  <2> HIDE DEF a
  <2>3. /\ (n - 1) - i = n - j /\ (i < n - 1 <=> j < n)
        /\ FRAME * (j - 1) = FRAME + b /\ b \in Nat /\ FRAME + b + FRAME <= Len(stack)
    <3>1. (n - 1) - i = n - (i + 1) /\ (i < n - 1 <=> i + 1 < n)
      BY <1>2, <2>1
    <3>2. 15 * ((i + 1) - 1) = 15 + 15 * (i - 1) /\ 15 * (i - 1) \in Nat
      <4>1. i \in Nat \ {0}
        BY <1>2, <2>1
      <4> QED
        BY ONLY <4>1
    <3>3. 15 + 15 * (i - 1) + 15 <= 15 * n
      BY <1>2, <2>1
    <3> QED
      BY <1>2, <3>1, <3>2, <3>3 DEF FRAME
  <2> HIDE DEF j, b
  <2>4. \A k \in 1..15 : stack'[b + k] = stack[FRAME + b + k]
    <3> TAKE k \in 1..15
    <3>1. b + k \in 1..(Len(stack) - 15) /\ 15 + (b + k) = FRAME + b + k
      BY <1>2, <2>3 DEF FRAME
    <3> QED
      BY <1>1, <1>6, <3>1
  <2>5. Tells(stack, FRAME + b, a)
    BY <2>2, <2>3, Zenon DEF FrameOK
  <2>6. Tells(stack', b, a)
    <3>1. \A r \in 1..8 : /\ FRAME + b + 2 + r = FRAME + b + (2 + r)
                          /\ b + 2 + r = b + (2 + r) /\ 2 + r \in 1..15
      BY <2>3 DEF FRAME
    <3>2. 2 \in 1..15 /\ 11 \in 1..15 /\ 12 \in 1..15 /\ 13 \in 1..15 /\ 14 \in 1..15 /\ 15 \in 1..15
      OBVIOUS
    <3>3. \A r \in 1..8 : stack'[b + 2 + r] = stack[FRAME + b + 2 + r]
      BY <2>4, <3>1
    <3> QED
      BY <2>4, <2>5, <3>2, <3>3, Zenon DEF Tells
  <2>7. FRAME * (i - 1) = b
    BY DEF b
  <2> QED
    BY <2>1, <2>2, <2>3, <2>6, <2>7, Zenon DEF FrameOK
<1>9. FrameInv'
  BY <1>3, <1>7, <1>8 DEF FrameInv
<1>10. cpu' = Context(n - 1)
  <2> DEFINE c == Context(n - 1)
  <2>1. Tells(stack, 0, active[1]) /\ active[1].saved = c
    BY <1>1, Innermost DEF FrameOK, n
  <2>2. n - 1 \in Nat
    BY <1>2
  <2>3. c.regs \in [1..8 -> Nat]
    BY <2>2, Contexts
  <2>4. c = [ds |-> c.ds, regs |-> c.regs, eip |-> c.eip, cs |-> c.cs, eflags |-> c.eflags]
    BY DEF Context
  <2> HIDE DEF c
  <2>5. /\ stack[2] = c.ds /\ stack[13] = c.eip /\ stack[14] = c.cs /\ stack[15] = c.eflags
        /\ \A r \in 1..8 : stack[2 + r] = c.regs[r]
    BY <2>1 DEF Tells
  <2>6. SubSeq(stack, 3, 10) = c.regs
    <3> DEFINE f == SubSeq(stack, 3, 10)
    <3>1. f \in Seq(Nat) /\ Len(f) = 8 /\ \A r \in 1..8 : f[r] = stack[2 + r]
      <4>1. \A m, l \in Nat : m + l <= Len(stack) =>
                /\ SubSeq(stack, m + 1, m + l) \in Seq(Nat)
                /\ Len(SubSeq(stack, m + 1, m + l)) = l
                /\ \A k \in 1..l : SubSeq(stack, m + 1, m + l)[k] = stack[m + k]
        BY <1>2, Part
      <4>2. 2 \in Nat /\ 8 \in Nat /\ 2 + 8 <= Len(stack) /\ 2 + 1 = 3 /\ 2 + 8 = 10
        BY <1>2
      <4> QED
        BY <4>1, <4>2, Zenon
    <3>2. f \in [1..8 -> Nat] /\ c.regs \in [1..8 -> Nat]
      BY <2>3, <3>1, LenProperties
    <3> HIDE DEF f
    <3>3. \A r \in 1..8 : f[r] = c.regs[r]
      BY <2>5, <3>1
    <3>4. f = c.regs
      BY ONLY <3>2, <3>3
    <3> QED
      BY <3>4 DEF f
  <2> QED
    BY <1>1, <1>5, <2>4, <2>5, <2>6 DEF c
<1> QED
  BY <1>2, <1>3, <1>9, <1>10 DEF n

(* The innermost activation moves on.                                      *)
LEMMA GoFrames ==
    ASSUME FrameInv, active # <<>>, NEW place \in Places, Go(place), UNCHANGED stack
    PROVE  /\ FrameInv'
           /\ Len(active') = Len(active)
           /\ DOMAIN active' = DOMAIN active
           /\ active'[1].at = place /\ active'[1].vector = active[1].vector
           /\ \A i \in DOMAIN active : i # 1 => active'[i] = active[i]
<1> DEFINE new == [active[1] EXCEPT !.at = place]
<1>1. active[1] \in Activation /\ 1 \in DOMAIN active /\ active \in Seq(Activation)
  BY Innermost DEF FrameInv
<1>2. /\ new \in Activation /\ new.at = place /\ new.common = active[1].common
      /\ new.vector = active[1].vector /\ new.frame = active[1].frame
      /\ new.error = active[1].error /\ new.saved = active[1].saved
  BY <1>1 DEF Activation
<1>3. active' = [active EXCEPT ![1] = new]
  BY <1>1 DEF Go
<1> HIDE DEF new
<1>4. /\ active' \in Seq(Activation) /\ Len(active') = Len(active)
      /\ DOMAIN active' = DOMAIN active /\ active'[1] = new
      /\ \A i \in DOMAIN active : i # 1 => active'[i] = active[i]
  BY <1>1, <1>2, <1>3
<1>5. FrameOK(new, 1, Len(active), stack)
  <2> DEFINE a == active[1]  n == Len(active)
  <2>1. FrameOK(a, 1, n, stack)
    BY <1>1 DEF FrameInv
  <2> HIDE DEF a, n
  <2>2. /\ new.common = a.common /\ new.vector = a.vector /\ new.frame = a.frame
        /\ new.error = a.error /\ new.saved = a.saved
    BY <1>2 DEF a
  <2>3. Tells(stack, FRAME * (1 - 1), a)
    BY ONLY <2>1, Zenon DEF FrameOK
  <2>4. Tells(stack, FRAME * (1 - 1), new)
    BY ONLY <2>2, <2>3, Zenon DEF Tells
  <2>5. FrameOK(new, 1, n, stack)
    BY ONLY <2>1, <2>2, <2>4, Zenon DEF FrameOK
  <2> QED
    BY <2>5 DEF n
<1>6. FrameInv'
  BY <1>4, <1>5 DEF FrameInv
<1> QED
  BY <1>2, <1>4, <1>6

(* A device interrupts the kernel only, and with its own vector.           *)
LEMMA DeviceEnters ==
    ASSUME FrameInv, KernelInv, pc # "panic", NEW line \in Lines,
           acknowledge(line) \/ spurious(line)
    PROVE  /\ pc \in {"run", "wait"} /\ active = <<>>
           /\ \/ acknowledge(line) /\ enter(32 + line, ErrorOf(32 + line))
              \/ spurious(line) /\ line < 8 /\ enter(39, ErrorOf(39))
              \/ spurious(line) /\ line >= 8 /\ enter(47, ErrorOf(47))
<1>1. cpu.eflags = 512
  BY DEF acknowledge, spurious, IF_FLAG
<1>2. pc \in {"run", "wait"}
  BY <1>1 DEF KernelInv
<1>3. cpu = Context(Len(active)) /\ Len(active) \in Nat
  BY <1>2 DEF KernelInv, FrameInv
<1>4. Len(active) = 0
  <2> DEFINE n == Len(active)
  <2>1. n \in Nat /\ cpu = Context(n)
    BY <1>3
  <2> HIDE DEF n
  <2>2. Context(n).eflags = (IF n = 0 THEN 512 ELSE 0)
    BY <2>1, Contexts
  <2>3. n = 0
    BY <1>1, <2>1, <2>2
  <2> QED
    BY <2>3 DEF n
<1>5. active = <<>>
  BY <1>4, EmptySeq DEF FrameInv
<1>6. line \in 0..15 /\ pic.offset = <<32, 40>>
  BY <1>2, InterruptsAssumption DEF KernelInv
<1>7. pic.offset[Chip(line)] + (line % 8) = 32 + line
  BY <1>6 DEF Chip
<1>8. pic.offset[Chip(line)] + 7 = IF line < 8 THEN 39 ELSE 47
  BY <1>6 DEF Chip
<1>9. ErrorOf(32 + line) = <<>> /\ ErrorOf(39) = <<>> /\ ErrorOf(47) = <<>>
  BY <1>6 DEF ErrorOf, HasErrorCode
<1>10. acknowledge(line) => enter(32 + line, <<>>)
  BY <1>7, Zenon DEF acknowledge
<1>11. spurious(line) => enter(IF line < 8 THEN 39 ELSE 47, <<>>)
  BY <1>8, Zenon DEF spurious
<1>12. line < 8 \/ line >= 8
  BY <1>6
<1>13. line >= 8 => ~(line < 8)
  BY <1>6
<1> QED
  BY <1>2, <1>5, <1>9, <1>10, <1>11, <1>12, <1>13, Zenon

(* An exception interrupts the kernel or the body of a handler.            *)
LEMMA ExceptionEnters ==
    ASSUME FrameInv, KernelInv, pc # "panic", raise
    PROVE  /\ pc \in {"run", "wait"} /\ UNCHANGED <<pc, pic>>
           /\ active = <<>> \/ Head(active).at = "body"
           /\ \E v \in Exceptions : v \in 0..31 /\ enter(v, ErrorOf(v))
<1>1. \E v \in Exceptions : enter(v, ErrorOf(v))
  BY Zenon DEF raise, ErrorOf
<1>2. active # <<>> => pc \in {"run", "wait"}
  BY DEF KernelInv
<1>3. active = <<>> => pc = "run"
  BY Zenon DEF raise
<1>4. active = <<>> \/ Head(active).at = "body"
  BY Zenon DEF raise
<1>5. UNCHANGED <<pc, pic>>
  BY DEF raise
<1> QED
  BY <1>1, <1>2, <1>3, <1>4, <1>5, InterruptsAssumption

(* An entry, by an exception or a device, keeps the invariants.            *)
LEMMA EnterStep ==
    ASSUME FrameInv, KernelInv, pc # "panic",
           raise \/ \E line \in Lines : acknowledge(line) \/ spurious(line)
    PROVE  FrameInv' /\ KernelInv'
<1>1. ASSUME NEW v \in 0..47, v >= 32 => active = <<>>, enter(v, ErrorOf(v)),
             pc \in {"run", "wait"}, UNCHANGED <<pc, pic.offset>>, pic' \in PicState
      PROVE  FrameInv' /\ KernelInv'
  <2>1. cpu = Context(Len(active)) /\ pic.offset = <<32, 40>>
    BY <1>1 DEF KernelInv
  <2>2. FrameInv' /\ cpu' = Context(Len(active'))
    BY <1>1, <2>1, EnterFrames
  <2> QED
    BY <1>1, <2>1, <2>2 DEF KernelInv
<1>2. CASE raise
  <2>1. PICK v \in 0..31 : enter(v, ErrorOf(v))
    BY <1>2, ExceptionEnters
  <2>2. v \in 0..47 /\ ~(v >= 32)
    OBVIOUS
  <2>3. pc \in {"run", "wait"} /\ UNCHANGED pc /\ pic' = pic
    BY <1>2, ExceptionEnters
  <2> QED
    BY <1>1, <2>1, <2>2, <2>3 DEF KernelInv
<1>3. ASSUME NEW line \in Lines, acknowledge(line) \/ spurious(line)
      PROVE  FrameInv' /\ KernelInv'
  <2>1. UNCHANGED <<pc, pic.offset>> /\ pic' \in PicState
    <3>1. line \in 0..15
      BY InterruptsAssumption
    <3>2. pic \in PicState
      BY DEF KernelInv
    <3>3. PICK q \in {{line}, {2, line}, {}, {2}} :
            pic' = [pic EXCEPT !.irr = @ \ {line}, !.isr = @ \cup q]
      BY <1>3 DEF acknowledge, spurious
    <3>4. q \subseteq 0..15
      BY <3>1
    <3>5. UNCHANGED pic.offset /\ pic' \in PicState
      BY <3>2, <3>3, <3>4 DEF PicState
    <3>6. UNCHANGED pc
      BY <1>3 DEF acknowledge, spurious, kernel_vars
    <3> QED
      BY <3>5, <3>6
  <2>2. line \in 0..15 /\ 32 + line \in 0..47 /\ 39 \in 0..47 /\ 47 \in 0..47
    BY InterruptsAssumption
  <2> QED
    BY <1>1, <1>3, <2>1, <2>2, DeviceEnters
<1> QED
  BY <1>2, <1>3

(* A command to end a service ends none that is not there.                 *)
LEMMA EndsPart == pic_send_eoi(irq) \subseteq pic.isr
  BY DEF pic_send_eoi, End

(* So do the handlers and the return of a stub,                            *)
LEMMA HandlerStep ==
    ASSUME FrameInv, KernelInv, Handlers
    PROVE  FrameInv' /\ KernelInv'
<1>1. ASSUME active # <<>>, UNCHANGED <<stack, cpu>>, NEW place \in Places, Go(place),
             pic' \in PicState, UNCHANGED <<pc, pic.offset>>
      PROVE  FrameInv' /\ KernelInv'
  <2>1. FrameInv' /\ Len(active') = Len(active)
    BY <1>1, GoFrames
  <2>2. pc \in {"run", "wait", "panic"}
    BY <1>1 DEF KernelInv
  <2> QED
    BY <1>1, <2>1, <2>2 DEF KernelInv
<1>2. pic \in PicState
  BY DEF KernelInv
<1>3. CASE pc # "panic" /\ isr_handler
  <2>1. CASE Go("body") /\ UNCHANGED pc
    BY <1>1, <1>2, <1>3, <2>1 DEF isr_handler, At, Places
  <2>2. CASE pc' = "panic" /\ UNCHANGED active
    <3>1. active # <<>> /\ UNCHANGED <<stack, pic>>
      BY <1>3 DEF isr_handler, At
    <3>2. pic.offset = <<32, 40>>
      BY <3>1 DEF KernelInv
    <3> QED
      BY <2>2, <3>1, <3>2 DEF KernelInv, FrameInv
  <2> QED
    BY <1>3, <2>1, <2>2, Zenon DEF isr_handler
<1>4. CASE isr_body_ends
  BY <1>1, <1>2, <1>4 DEF isr_body_ends, At, Places, kernel_vars
<1>5. CASE irq_handler
  <2>1. PICK place \in {"body", "eoi"} : Go(place)
    BY <1>5, Zenon DEF irq_handler
  <2>2. active # <<>> /\ UNCHANGED <<stack, cpu, pic, pc>> /\ place \in Places
    BY <1>5 DEF irq_handler, At, kernel_vars, Places
  <2> QED
    BY <1>1, <1>2, <2>1, <2>2
<1>6. CASE irq_body_ends
  BY <1>1, <1>2, <1>6 DEF irq_body_ends, At, Places, kernel_vars
<1>7. CASE irq_handler_ends
  <2>1. /\ pic' = [pic EXCEPT !.isr = pic_send_eoi(irq)]
        /\ active # <<>> /\ Go("return") /\ UNCHANGED <<stack, cpu, pc>> /\ "return" \in Places
    BY <1>7 DEF irq_handler_ends, At, kernel_vars, Places
  <2>2. pic_send_eoi(irq) \in SUBSET (0..15)
    BY <1>2, EndsPart DEF PicState
  <2>3. pic' \in PicState /\ UNCHANGED pic.offset
    BY <1>2, <2>1, <2>2 DEF PicState
  <2> QED
    BY <1>1, <2>1, <2>3
<1>8. CASE pc # "panic" /\ stub_return
  <2>1. UNCHANGED <<pic, pc>> /\ active # <<>>
    BY <1>8 DEF stub_return, kernel_vars
  <2>2. FrameInv' /\ cpu' = Context(Len(active'))
    BY <1>8, LeaveFrames
  <2>3. pc \in {"run", "wait"}
    BY <1>8, <2>1 DEF KernelInv
  <2> QED
    BY <2>1, <2>2, <2>3 DEF KernelInv
<1> QED
  BY <1>3, <1>4, <1>5, <1>6, <1>7, <1>8 DEF Handlers

(* The kernel's own steps and the devices' leave the frames alone.         *)
KernelSteps ==
    \/ gdt_init \/ idt_init
    \/ isr_install \/ irq_install \/ masks \/ pic_disable
    \/ pit_init \/ pit_wait \/ pit_wait_returns
    \/ \E line \in Lines : request(line)

(* A mask register is a byte.                                              *)
LEMMA MaskTypes ==
    ASSUME pic \in PicState, NEW line \in 0..15
    PROVE  /\ pic_set_mask(line) \in [1..2 -> SUBSET (0..7)]
           /\ pic_clear_mask(line) \in [1..2 -> SUBSET (0..7)]
<1>1. mask_bit(line) \subseteq 0..7 /\ Chip(line) \in 1..2
  BY DEF mask_bit, Chip
<1>2. pic.mask \in [1..2 -> SUBSET (0..7)]
  BY DEF PicState
<1> QED
  BY <1>1, <1>2 DEF pic_set_mask, pic_clear_mask

(* The boot loader's context becomes the kernel's in two steps.            *)
LEMMA BootContext ==
    LET c == Context(0)
    IN  /\ [[c EXCEPT !.eflags = 0, !.cs = 0, !.ds = 0]
                EXCEPT !.cs = GDT_KERNEL_CODE_SELECTOR, !.ds = GDT_KERNEL_DATA_SELECTOR]
               = [c EXCEPT !.eflags = 0]
        /\ [[c EXCEPT !.eflags = 0] EXCEPT !.eflags = IF_FLAG] = c
        /\ [c EXCEPT !.eflags = 0].eflags = 0
<1> DEFINE r == [i \in 1..8 |-> 10 * 0 + i]
           s == GDT_KERNEL_CODE_SELECTOR
           t == GDT_KERNEL_DATA_SELECTOR
           c == Context(0)
           Only(f, x, y) ==
             [eip : {1000}, cs : {x}, ds : {y}, eflags : {f}, regs : {r}]
<1>1. c \in Only(IF_FLAG, s, t)
  BY DEF Context
<1> HIDE DEF r, s, t, c
<1>2. [c EXCEPT !.eflags = 0, !.cs = 0, !.ds = 0] \in Only(0, 0, 0)
  <2>1. [c EXCEPT !.eflags = 0, !.cs = 0, !.ds = 0]
            = [[[c EXCEPT !.eflags = 0] EXCEPT !.cs = 0] EXCEPT !.ds = 0]
    OBVIOUS
  <2>2. [c EXCEPT !.eflags = 0] \in Only(0, s, t)
    BY <1>1
  <2>3. \A d \in Only(0, s, t) : [d EXCEPT !.cs = 0] \in Only(0, 0, t)
    OBVIOUS
  <2>4. \A d \in Only(0, 0, t) : [d EXCEPT !.ds = 0] \in Only(0, 0, 0)
    OBVIOUS
  <2> HIDE DEF Only
  <2> QED
    BY <2>1, <2>2, <2>3, <2>4
<1>3. [c EXCEPT !.eflags = 0] \in Only(0, s, t)
  BY <1>1
<1>4. \A d \in Only(0, 0, 0) : [d EXCEPT !.cs = s, !.ds = t] \in Only(0, s, t)
  <2>1. \A d : [d EXCEPT !.cs = s, !.ds = t] = [[d EXCEPT !.cs = s] EXCEPT !.ds = t]
    OBVIOUS
  <2>2. \A d \in Only(0, 0, 0) : [d EXCEPT !.cs = s] \in Only(0, s, 0)
    OBVIOUS
  <2>3. \A d \in Only(0, s, 0) : [d EXCEPT !.ds = t] \in Only(0, s, t)
    OBVIOUS
  <2> HIDE DEF Only
  <2> QED
    BY <2>1, <2>2, <2>3
<1>5. \A d \in Only(0, s, t) :
        [d EXCEPT !.eflags = IF_FLAG] \in Only(IF_FLAG, s, t) /\ d.eflags = 0
  OBVIOUS
<1>6. \A f, x, y : \A d, e \in Only(f, x, y) : d = e
  OBVIOUS
<1> HIDE DEF Only
<1> QED
  BY <1>1, <1>2, <1>3, <1>4, <1>5, <1>6 DEF s, t, c

(* and the kernel's own steps.                                             *)
LEMMA KernelStep ==
    ASSUME FrameInv, KernelInv, KernelSteps
    PROVE  FrameInv' /\ KernelInv'
<1>1. UNCHANGED <<stack, active>>
  BY DEF KernelSteps, gdt_init, idt_init, isr_install, irq_install, masks, pic_disable, pit_init,
         pit_wait, pit_wait_returns, request, machine_vars
<1>2. FrameInv'
  BY <1>1 DEF FrameInv
<1>3. pic \in PicState
  BY DEF KernelInv
<1>4. CASE gdt_init
  <2>1. pc = "boot" /\ pc' = "gdt" /\ UNCHANGED pic
        /\ cpu' = [cpu EXCEPT !.cs = GDT_KERNEL_CODE_SELECTOR, !.ds = GDT_KERNEL_DATA_SELECTOR]
    BY <1>4 DEF gdt_init
  <2>2. cpu = [Context(0) EXCEPT !.eflags = 0, !.cs = 0, !.ds = 0] /\ active = <<>>
    BY <2>1 DEF KernelInv
  <2>3. cpu' = [Context(0) EXCEPT !.eflags = 0] /\ cpu'.eflags = 0
    BY <2>1, <2>2, BootContext, Zenon
  <2> QED
    BY <1>1, <1>2, <1>3, <2>1, <2>2, <2>3 DEF KernelInv
<1>5. CASE idt_init
  <2>1. pc = "gdt" /\ pc' = "run" /\ cpu' = [cpu EXCEPT !.eflags = IF_FLAG]
        /\ pic' = [irr |-> {}, isr |-> {}, mask |-> [chip \in 1..2 |-> {}],
                   offset |-> <<32, 40>>]
    BY <1>5 DEF idt_init, pic_remap
  <2>2. cpu = [Context(0) EXCEPT !.eflags = 0] /\ active = <<>>
    BY <2>1 DEF KernelInv
  <2>3. cpu' = Context(0)
    BY <2>1, <2>2, BootContext, Zenon
  <2>4. Len(active') = 0
    BY <1>1, <2>2
  <2>5. pic' \in PicState /\ pic'.offset = <<32, 40>>
    BY <2>1 DEF PicState
  <2> QED
    BY <1>2, <2>1, <2>3, <2>4, <2>5 DEF KernelInv
<1>6. ASSUME UNCHANGED cpu, pic' \in PicState, UNCHANGED pic.offset,
             pc' = pc \/ (pc \in {"run", "wait"} /\ pc' \in {"run", "wait"})
      PROVE  KernelInv'
  BY <1>1, <1>6 DEF KernelInv
<1>7. CASE isr_install \/ irq_install
  BY <1>2, <1>3, <1>6, <1>7 DEF isr_install, irq_install, machine_vars
<1>8. CASE masks
  <2>1. UNCHANGED <<cpu, pc>>
    BY <1>8 DEF masks, machine_vars
  <2>2. PICK line \in Lines \cup {2} :
            \/ pic' = [pic EXCEPT !.mask = pic_set_mask(line)]
            \/ pic' = [pic EXCEPT !.mask = pic_clear_mask(line)]
    BY <1>8, Zenon DEF masks
  <2>3. line \in 0..15
    BY InterruptsAssumption
  <2>4. pic' \in PicState /\ UNCHANGED pic.offset
    BY <1>3, <2>2, <2>3, MaskTypes DEF PicState
  <2> QED
    BY <1>2, <1>6, <2>1, <2>4
<1>9. CASE pic_disable
  <2>1. UNCHANGED <<cpu, pc>> /\ pic' = [pic EXCEPT !.mask = [chip \in 1..2 |-> 0..7]]
    BY <1>9 DEF pic_disable, machine_vars
  <2>2. pic' \in PicState /\ UNCHANGED pic.offset
    BY <1>3, <2>1 DEF PicState
  <2> QED
    BY <1>2, <1>6, <2>1, <2>2
<1>10. CASE pit_init
  <2>1. UNCHANGED <<cpu, pc>> /\ pic' = [pic EXCEPT !.mask = pic_clear_mask(0)]
    BY <1>10 DEF pit_init, machine_vars
  <2>2. pic' \in PicState /\ UNCHANGED pic.offset
    BY <1>3, <2>1, MaskTypes DEF PicState
  <2> QED
    BY <1>2, <1>6, <2>1, <2>2
<1>11. CASE pit_wait
  <2>1. UNCHANGED <<cpu, pic>> /\ pc = "run" /\ pc' = "wait"
    BY <1>11 DEF pit_wait, Client, machine_vars
  <2> QED
    BY <1>2, <1>3, <1>6, <2>1
<1>12. CASE pit_wait_returns
  <2>1. UNCHANGED <<cpu, pic>> /\ pc = "wait" /\ pc' = "run"
    BY <1>12 DEF pit_wait_returns, machine_vars
  <2> QED
    BY <1>2, <1>3, <1>6, <2>1
<1>13. ASSUME NEW line \in Lines, request(line)
       PROVE  FrameInv' /\ KernelInv'
  <2>1. UNCHANGED <<cpu, pc>> /\ pic' = [pic EXCEPT !.irr = @ \cup {line}]
    BY <1>13 DEF request, machine_vars, kernel_vars
  <2>2. pic' \in PicState /\ UNCHANGED pic.offset
    BY <1>3, <2>1 DEF PicState
  <2> QED
    BY <1>2, <1>6, <2>1, <2>2
<1> QED
  BY <1>4, <1>5, <1>7, <1>8, <1>9, <1>10, <1>11, <1>12, <1>13 DEF KernelSteps

(* What can happen, in three kinds.                                        *)
LEMMA Kinds ==
    ASSUME [Next]_vars
    PROVE  \/ UNCHANGED vars
           \/ KernelSteps
           \/ pc # "panic" /\ (raise \/ \E line \in Lines : acknowledge(line) \/ spurious(line))
           \/ Handlers
  BY Zenon DEF Next, KernelSteps, idle

(* The invariants of the frames are inductive.                             *)
LEMMA FrameStep ==
    ASSUME FrameInv, KernelInv, [Next]_vars
    PROVE  FrameInv' /\ KernelInv'
<1>1. CASE UNCHANGED vars
  BY <1>1 DEF vars, FrameInv, KernelInv
<1> QED
  BY <1>1, Kinds, KernelStep, EnterStep, HandlerStep
(* The boot loader's stack is empty and nothing is active.                 *)
LEMMA FrameInit == Init => FrameInv /\ KernelInv
<1> SUFFICES ASSUME Init PROVE FrameInv /\ KernelInv
  OBVIOUS
<1>1. stack \in Seq(Nat) /\ active \in Seq(Activation) /\ Len(stack) = 0 /\ Len(active) = 0
      /\ DOMAIN active = {}
  BY DEF Init
<1>2. FrameInv
  BY <1>1 DEF FrameInv, FRAME
<1>3. pic \in PicState
  BY DEF Init, PicState
<1>4. cpu.eflags = 0
  BY DEF Init, Context
<1> QED
  BY <1>2, <1>3, <1>4 DEF Init, KernelInv

(* The fairness of Spec is not needed below.                               *)
LEMMA Safety == Spec => Init /\ [][Next]_vars
  BY PTL DEF Spec

(* Whatever interrupts the kernel or a handler's body, isr_handler and     *)
(* irq_handler of idt.c get the frame that isr_frame_t describes, and the  *)
(* common stubs of idt.s give every register, the flags and the stack      *)
(* back: FramesTrue holds for every placement of the stubs and every       *)
(* sequence of interrupts.                                                 *)
THEOREM FramesTheorem == Spec => []FramesTrue
<1>1. FrameInv /\ KernelInv /\ [Next]_vars => FrameInv' /\ KernelInv'
  BY FrameStep
<1>2. FrameInv /\ KernelInv => FramesTrue
  BY FramesFromInv
<1> QED
  BY <1>1, <1>2, FrameInit, Safety, PTL

(***************************************************************************)
(* The inductive invariants of the controllers, of the types and of a wait.*)
(***************************************************************************)

(* Only the timer's line has the timer's handler.                          *)
HistType == [closed : SUBSET (0..15), waited : Nat, pulses : Nat, wraps : BOOLEAN]

TypeInv ==
    /\ g_isr_handlers \subseteq Exceptions
    /\ g_irq_handlers \in [0..15 -> {NO_HANDLER, "pit_handler", "driver"}]
    /\ \A line \in 1..15 : g_irq_handlers[line] # "pit_handler"
    /\ g_ticks \in 0..(TICKS - 1) /\ target_ticks \in 0..(TICKS - 1)
    /\ hist \in HistType

(* Nothing is in service but for a device's activation, the outermost one, *)
(* that has yet to say so.                                                 *)
InService(a, isr) ==
    /\ a.vector >= 32 /\ a.at # "return"
    /\ \/ a.vector < 40 /\ isr = {a.vector - 32}
       \/ a.vector >= 40 /\ isr \subseteq {2, a.vector - 32}

ServiceInv ==
    pc \in {"run", "wait"} =>
        pic.isr = {} \/ (active # <<>> /\ InService(active[Len(active)], pic.isr))

(* And a device's activation that has yet to say so is in service, but for *)
(* the line 7 or 15 of a spurious interrupt.                               *)
Held(a, isr) ==
    a.vector >= 32 /\ a.at # "return" =>
        /\ a.vector - 32 \notin {7, 15} => a.vector - 32 \in isr
        /\ a.vector - 32 >= 8 => 2 \in isr

HeldInv == pc \in {"run", "wait"} => \A i \in DOMAIN active : Held(active[i], pic.isr)

(* A register holds the masks that were asked for.                         *)
MaskInv ==
    /\ pc \in {"boot", "gdt"} => hist.closed = {}
    /\ pc \in {"run", "wait"} =>
        \A line \in Lines \cup {2} : line % 8 \in pic.mask[Chip(line)] <=> line \in hist.closed

(* Ticks that are on their way to pit_handler.                             *)
Latched == IF 0 \in pic.irr THEN 1 ELSE 0
Entered ==
    IF \E i \in DOMAIN active : active[i].vector = 32 /\ active[i].at = "entered" THEN 1 ELSE 0

(* Since a wait began, the counter has not gone further than the pulses of *)
(* the timer, one that was latched before and those not yet counted aside; *)
(* or the pulses suffice.                                                  *)
Counted(w) ==
    \/ hist.pulses + 1 >= w
    \/ /\ target_ticks - w <= g_ticks
       /\ (g_ticks - (target_ticks - w)) + (Latched + Entered) <= hist.pulses + 1

WaitInv ==
    pc = "wait" /\ ~hist.wraps =>
        LET w == wait_ticks(hist.waited)
        IN  /\ w \in 0..target_ticks
            /\ w * SECOND = hist.waited * PIT_FREQUENCY
            /\ Counted(w)

(***************************************************************************)
(* The types.                                                              *)
(***************************************************************************)

(* The types hold at boot.                                                 *)
LEMMA TypeInvInit == Init => TypeInv
<1> SUFFICES ASSUME Init PROVE TypeInv
  OBVIOUS
<1>1. hist \in HistType
  BY DEF Init, HistType
<1>2. 0 \in 0..(TICKS - 1)
  BY InterruptsAssumption
<1> QED
  BY <1>1, <1>2 DEF Init, TypeInv, NO_HANDLER

(* What entering does to the activations and what it leaves alone.         *)
LEMMA EnterEffect ==
    ASSUME FrameInv, KernelInv, pc # "panic",
           raise \/ \E line \in Lines : acknowledge(line) \/ spurious(line)
    PROVE  /\ UNCHANGED <<g_isr_handlers, g_irq_handlers, g_ticks, pc, target_ticks, hist>>
           /\ UNCHANGED pic.mask
           /\ Len(active) \in Nat /\ Len(active') = Len(active) + 1
           /\ DOMAIN active = 1..Len(active) /\ DOMAIN active' = 1..(Len(active) + 1)
           /\ \A i \in DOMAIN active : i + 1 \in DOMAIN active' /\ active'[i + 1] = active[i]
           /\ \A i \in DOMAIN active' : i = 1 \/ (i - 1 \in DOMAIN active
                                                   /\ active'[i] = active[i - 1])
           /\ active'[1].at = "entered"
           /\ \/ raise /\ active'[1].vector < 32 /\ UNCHANGED pic
              \/ active = <<>> /\ \E line \in Lines \cap pic.irr : \E q \in {{line}, {2, line}, {}, {2}} :
                    /\ pic' = [pic EXCEPT !.irr = @ \ {line}, !.isr = @ \cup q]
                    /\ \/ active'[1].vector = 32 + line
                          /\ q = (IF line < 8 THEN {line} ELSE {2, line})
                       \/ line # 0 /\ line < 8 /\ active'[1].vector = 39 /\ q = {}
                       \/ line # 0 /\ line >= 8 /\ active'[1].vector = 47 /\ q = {2}
<1>1. UNCHANGED <<g_isr_handlers, g_irq_handlers, g_ticks, pc, target_ticks, hist>>
  BY DEF raise, acknowledge, spurious, table_vars, kernel_vars
<1>2. active \in Seq(Activation) /\ Len(active) \in Nat /\ DOMAIN active = 1..Len(active)
  BY DEF FrameInv
<1>3. pc \in {"run", "wait"}
  BY ExceptionEnters, DeviceEnters
<1>4. cpu = Context(Len(active))
  BY <1>3 DEF KernelInv
<1> DEFINE Enters(v) ==
             /\ FrameInv'
             /\ Len(active') = Len(active) + 1
             /\ active'[1].vector = v /\ active'[1].at = "entered"
             /\ \A i \in DOMAIN active : i + 1 \in DOMAIN active' /\ active'[i + 1] = active[i]
             /\ \A i \in DOMAIN active' : i = 1 \/ (i - 1 \in DOMAIN active
                                                     /\ active'[i] = active[i - 1])
<1>5. ASSUME NEW v \in 0..47, v >= 32 => active = <<>>, enter(v, ErrorOf(v))
      PROVE  Enters(v) /\ DOMAIN active' = 1..(Len(active) + 1)
  <2>1. Enters(v)
    BY <1>4, <1>5, EnterFrames
  <2> QED
    BY <2>1 DEF FrameInv
<1>6. CASE raise
  <2>1. PICK v \in 0..31 : enter(v, ErrorOf(v))
    BY <1>6, ExceptionEnters
  <2>2. v \in 0..47 /\ ~(v >= 32) /\ v < 32
    OBVIOUS
  <2>3. Enters(v) /\ DOMAIN active' = 1..(Len(active) + 1)
    BY <1>5, <2>1, <2>2
  <2>4. UNCHANGED pic
    BY <1>6 DEF raise
  <2>5. active'[1].vector < 32
    BY <2>2, <2>3
  <2> HIDE DEF Enters
  <2>6. raise /\ active'[1].vector < 32 /\ UNCHANGED pic
    BY <1>6, <2>4, <2>5
  <2> QED
    BY <1>1, <1>2, <1>3, <2>3, <2>4, <2>6, Zenon DEF Enters
<1>7. ASSUME NEW line \in Lines, acknowledge(line) \/ spurious(line)
      PROVE  /\ active = <<>> /\ UNCHANGED pic.mask /\ line \in pic.irr
             /\ \E v \in 0..47 : Enters(v) /\ DOMAIN active' = 1..(Len(active) + 1)
             /\ \E q \in {{line}, {2, line}, {}, {2}} :
                    /\ pic' = [pic EXCEPT !.irr = @ \ {line}, !.isr = @ \cup q]
                    /\ \/ active'[1].vector = 32 + line
                          /\ q = (IF line < 8 THEN {line} ELSE {2, line})
                       \/ line # 0 /\ line < 8 /\ active'[1].vector = 39 /\ q = {}
                       \/ line # 0 /\ line >= 8 /\ active'[1].vector = 47 /\ q = {2}
  <2>1. active = <<>> /\ line \in pic.irr
    BY <1>7, DeviceEnters DEF acknowledge, spurious, First, Waiting
  <2>2. line \in 0..15 /\ 32 + line \in 0..47 /\ 39 \in 0..47 /\ 47 \in 0..47
    BY InterruptsAssumption
  <2>3. pic \in PicState
    BY DEF KernelInv
  <2>4. CASE acknowledge(line) /\ enter(32 + line, ErrorOf(32 + line))
    <3> DEFINE q == IF line < 8 THEN {line} ELSE {2, line}
    <3>1. pic' = [pic EXCEPT !.irr = @ \ {line}, !.isr = @ \cup q]
      BY <2>4 DEF acknowledge
    <3>2. q \in {{line}, {2, line}, {}, {2}}
      OBVIOUS
    <3> HIDE DEF q
    <3>3. UNCHANGED pic.mask
      BY <2>3, <3>1 DEF PicState
    <3>4. Enters(32 + line) /\ DOMAIN active' = 1..(Len(active) + 1)
      BY <1>5, <2>1, <2>2, <2>4
    <3>5. active'[1].vector = 32 + line
      BY <3>4
    <3> HIDE DEF Enters
    <3> QED
      BY <2>1, <2>2, <3>1, <3>2, <3>3, <3>4, <3>5, Zenon DEF q
  <2>5. ASSUME spurious(line), NEW w \in {39, 47}, enter(w, ErrorOf(w)),
               (line < 8 /\ w = 39) \/ (line >= 8 /\ w = 47)
        PROVE  /\ UNCHANGED pic.mask
               /\ Enters(w) /\ DOMAIN active' = 1..(Len(active) + 1)
               /\ \E q \in {{line}, {2, line}, {}, {2}} :
                    /\ pic' = [pic EXCEPT !.irr = @ \ {line}, !.isr = @ \cup q]
                    /\ \/ line # 0 /\ line < 8 /\ active'[1].vector = 39 /\ q = {}
                       \/ line # 0 /\ line >= 8 /\ active'[1].vector = 47 /\ q = {2}
    <3> DEFINE q == IF line < 8 THEN {} ELSE {2}
    <3>1. pic' = [pic EXCEPT !.irr = @ \ {line}, !.isr = @ \cup q] /\ line # 0
      BY <2>5 DEF spurious
    <3>2. q \in {{line}, {2, line}, {}, {2}}
      OBVIOUS
    <3>3. (line < 8 /\ q = {}) \/ (line >= 8 /\ q = {2})
      BY <2>2
    <3> HIDE DEF q
    <3>4. UNCHANGED pic.mask
      BY <2>3, <3>1 DEF PicState
    <3>5. Enters(w) /\ DOMAIN active' = 1..(Len(active) + 1)
      BY <1>5, <2>1, <2>2, <2>5
    <3>6. active'[1].vector = w
      BY <3>5
    <3> HIDE DEF Enters
    <3>7. \/ line # 0 /\ line < 8 /\ active'[1].vector = 39 /\ q = {}
          \/ line # 0 /\ line >= 8 /\ active'[1].vector = 47 /\ q = {2}
      BY <2>2, <2>5, <3>1, <3>3, <3>6
    <3> QED
      BY <3>1, <3>2, <3>4, <3>5, <3>7, Zenon
  <2>6. \/ acknowledge(line) /\ enter(32 + line, ErrorOf(32 + line))
        \/ spurious(line) /\ line < 8 /\ enter(39, ErrorOf(39))
        \/ spurious(line) /\ line >= 8 /\ enter(47, ErrorOf(47))
    BY <1>7, DeviceEnters
  <2>7. CASE spurious(line) /\ line < 8 /\ enter(39, ErrorOf(39))
    <3> HIDE DEF Enters
    <3> QED
      BY <2>1, <2>2, <2>5, <2>7, Zenon
  <2>8. CASE spurious(line) /\ line >= 8 /\ enter(47, ErrorOf(47))
    <3> HIDE DEF Enters
    <3> QED
      BY <2>1, <2>2, <2>5, <2>8, Zenon
  <2> QED
    BY <2>4, <2>6, <2>7, <2>8, Zenon
<1>8. ASSUME NEW line \in Lines, acknowledge(line) \/ spurious(line)
      PROVE  \E v \in 0..47 : Enters(v) /\ DOMAIN active' = 1..(Len(active) + 1)
  <2> HIDE DEF Enters
  <2> QED
    BY <1>7, <1>8, Zenon
<1>9. CASE \E line \in Lines : acknowledge(line) \/ spurious(line)
  <2>1. PICK line \in Lines : acknowledge(line) \/ spurious(line)
    BY <1>9
  <2>2. PICK v \in 0..47 : Enters(v) /\ DOMAIN active' = 1..(Len(active) + 1)
    BY <1>8, <2>1
  <2>3. /\ active = <<>> /\ UNCHANGED pic.mask /\ line \in Lines \cap pic.irr
        /\ \E q \in {{line}, {2, line}, {}, {2}} :
                    /\ pic' = [pic EXCEPT !.irr = @ \ {line}, !.isr = @ \cup q]
                    /\ \/ active'[1].vector = 32 + line
                          /\ q = (IF line < 8 THEN {line} ELSE {2, line})
                       \/ line # 0 /\ line < 8 /\ active'[1].vector = 39 /\ q = {}
                       \/ line # 0 /\ line >= 8 /\ active'[1].vector = 47 /\ q = {2}
    <3> HIDE DEF Enters
    <3> QED
      BY <1>7, <2>1, Zenon
  <2> QED
    BY <1>1, <1>2, <1>3, <2>2, <2>3, Zenon DEF Enters
<1> QED
  BY <1>6, <1>9

(* The innermost activation goes on to another place.                      *)
Moves(place) ==
    /\ active # <<>> /\ DOMAIN active' = DOMAIN active /\ Len(active') = Len(active)
    /\ active'[1].at = place /\ active'[1].vector = active[1].vector
    /\ \A i \in DOMAIN active : i # 1 => active'[i] = active[i]

(* What the handlers do to the activations, the controllers and the timer. *)
LEMMA HandlerEffect ==
    ASSUME FrameInv, KernelInv, Handlers
    PROVE  /\ UNCHANGED <<g_isr_handlers, g_irq_handlers, target_ticks, hist>>
           /\ Len(active) \in Nat \ {0} /\ DOMAIN active = 1..Len(active)
           /\ 1 \in DOMAIN active /\ active[1] \in Activation
           /\ active[1].vector >= 32 => Len(active) = 1
           /\ \/ pc' = "panic" /\ UNCHANGED <<active, pic, g_ticks>>
              \/ /\ UNCHANGED <<pc, pic, g_ticks>> /\ active[1].vector < 32
                 /\ Moves("body") \/ Moves("return")
              \/ /\ UNCHANGED <<pc, pic>> /\ active[1].vector >= 32
                 /\ active[1].at = "entered" /\ (Moves("body") \/ Moves("eoi"))
                 /\ g_ticks' = IF g_irq_handlers[active[1].vector - 32] = "pit_handler"
                               THEN (g_ticks + 1) % TICKS ELSE g_ticks
              \/ /\ UNCHANGED <<pc, pic, g_ticks>> /\ active[1].vector >= 32
                 /\ active[1].at = "body" /\ Moves("eoi")
              \/ /\ UNCHANGED <<pc, g_ticks>> /\ active[1].vector >= 32
                 /\ active[1].at = "eoi" /\ Moves("return")
                 /\ pic' = [pic EXCEPT !.isr = pic_send_eoi(active[1].vector - 32)]
              \/ /\ UNCHANGED <<pc, pic, g_ticks>> /\ active[1].at = "return"
                 /\ Len(active') = Len(active) - 1 /\ DOMAIN active' = 1..Len(active')
                 /\ \A i \in DOMAIN active' : i + 1 \in DOMAIN active /\ active'[i] = active[i + 1]
<1>1. UNCHANGED <<g_isr_handlers, g_irq_handlers, target_ticks, hist>>
  BY DEF Handlers, isr_handler, isr_body_ends, irq_handler, irq_body_ends, irq_handler_ends,
         stub_return, table_vars, kernel_vars
<1>2. active # <<>>
  BY DEF Handlers, isr_handler, isr_body_ends, irq_handler, irq_body_ends, irq_handler_ends,
         stub_return, At
<1> DEFINE a == active[1]
           n == Len(active)
<1>3. /\ Head(active) = a /\ a \in Activation /\ n \in Nat \ {0} /\ 1 \in DOMAIN active
      /\ DOMAIN active = 1..n /\ FrameOK(a, 1, n, stack) /\ int_no = a.vector
  BY <1>2, Innermost
<1> HIDE DEF a, n
<1>4. /\ a.vector \in 0..47 /\ a.common = (IF a.vector < 32 THEN "isr" ELSE "irq")
      /\ 1 < n => a.vector < 32
  BY <1>3 DEF FrameOK, Activation
<1>5. /\ a.common = "isr" => a.vector < 32
      /\ a.common = "irq" => a.vector >= 32
      /\ a.vector >= 32 => n = 1
  <2>1. a.vector < 32 <=> ~(a.vector >= 32)
    BY <1>4
  <2>2. "isr" # "irq"
    OBVIOUS
  <2>3. n = 1 \/ 1 < n
    BY <1>3
  <2> QED
    BY <1>4, <2>1, <2>2, <2>3, Zenon
<1>6. ASSUME NEW place \in Places, Go(place), UNCHANGED stack
      PROVE  Moves(place)
  BY <1>2, <1>6, GoFrames, Zenon DEF Moves
<1>7. CASE isr_handler
  <2>1. a.vector < 32 /\ UNCHANGED <<pic, g_ticks, stack>>
    BY <1>3, <1>5, <1>7 DEF isr_handler, At
  <2>2. (pc' = "panic" /\ UNCHANGED active) \/ (UNCHANGED pc /\ Go("body"))
    BY <1>7, Zenon DEF isr_handler
  <2>3. "body" \in Places
    BY DEF Places
  <2> QED
    BY <1>1, <1>3, <1>5, <1>6, <2>1, <2>2, <2>3, Zenon DEF a, n
<1>8. CASE isr_body_ends
  <2>1. a.vector < 32 /\ UNCHANGED <<pic, g_ticks, stack, pc>>
    BY <1>3, <1>5, <1>8 DEF isr_body_ends, At, kernel_vars
  <2>2. Go("return") /\ "return" \in Places
    BY <1>8 DEF isr_body_ends, Places
  <2> QED
    BY <1>1, <1>3, <1>5, <1>6, <2>1, <2>2, Zenon DEF a, n
<1>9. CASE irq_handler
  <2>1. a.vector >= 32 /\ a.at = "entered" /\ UNCHANGED <<pic, stack, pc>>
    BY <1>3, <1>5, <1>9 DEF irq_handler, At, kernel_vars
  <2>2. Go("body") \/ Go("eoi")
    BY <1>9, Zenon DEF irq_handler
  <2>3. g_ticks' = IF g_irq_handlers[a.vector - 32] = "pit_handler"
                   THEN (g_ticks + 1) % TICKS ELSE g_ticks
    BY <1>3, <1>9, Zenon DEF irq_handler, pit_handler, irq
  <2>4. "body" \in Places /\ "eoi" \in Places
    BY DEF Places
  <2> QED
    BY <1>1, <1>3, <1>5, <1>6, <2>1, <2>2, <2>3, <2>4, Zenon DEF a, n
<1>10. CASE irq_body_ends
  <2>1. a.vector >= 32 /\ a.at = "body" /\ UNCHANGED <<pic, g_ticks, stack, pc>>
    BY <1>3, <1>5, <1>10 DEF irq_body_ends, At, kernel_vars
  <2>2. Go("eoi") /\ "eoi" \in Places
    BY <1>10 DEF irq_body_ends, Places
  <2> QED
    BY <1>1, <1>3, <1>5, <1>6, <2>1, <2>2, Zenon DEF a, n
<1>11. CASE irq_handler_ends
  <2>1. a.vector >= 32 /\ a.at = "eoi" /\ UNCHANGED <<g_ticks, stack, pc>>
    BY <1>3, <1>5, <1>11 DEF irq_handler_ends, At, kernel_vars
  <2>2. Go("return") /\ "return" \in Places
    BY <1>11 DEF irq_handler_ends, Places
  <2>3. pic' = [pic EXCEPT !.isr = pic_send_eoi(a.vector - 32)]
    BY <1>3, <1>11, Zenon DEF irq_handler_ends, irq
  <2> QED
    BY <1>1, <1>3, <1>5, <1>6, <2>1, <2>2, <2>3, Zenon DEF a, n
<1>12. CASE stub_return
  <2>1. a.at = "return" /\ UNCHANGED <<pic, g_ticks, pc>>
    BY <1>3, <1>12 DEF stub_return, kernel_vars
  <2>2. /\ FrameInv' /\ Len(active') = n - 1
        /\ \A i \in DOMAIN active' : i + 1 \in DOMAIN active /\ active'[i] = active[i + 1]
    BY <1>12, LeaveFrames DEF n
  <2>3. DOMAIN active' = 1..Len(active')
    BY <2>2 DEF FrameInv
  <2> QED
    BY <1>1, <1>3, <1>5, <2>1, <2>2, <2>3, Zenon DEF a, n
<1> QED
  BY <1>7, <1>8, <1>9, <1>10, <1>11, <1>12 DEF Handlers

(* The kernel's own steps, one at a time.                                  *)
LEMMA KernelTypes ==
    ASSUME TypeInv, KernelSteps
    PROVE  TypeInv'
<1>2. hist \in HistType /\ TICKS \in Nat \ {0}
  BY InterruptsAssumption DEF TypeInv
<1>3. ASSUME UNCHANGED <<g_isr_handlers, g_irq_handlers, g_ticks, target_ticks>>, hist' \in HistType
      PROVE  TypeInv'
  BY <1>3 DEF TypeInv
<1>1. CASE idt_init
  BY <1>1 DEF idt_init, TypeInv
<1>4. CASE gdt_init
  BY <1>2, <1>3, <1>4 DEF gdt_init, table_vars
<1>5. CASE isr_install
  BY <1>5 DEF isr_install, TypeInv
<1>6. CASE irq_install
  <2>1. PICK line \in Lines, handler \in {"driver", NO_HANDLER} :
            g_irq_handlers' = [g_irq_handlers EXCEPT ![line] = handler]
    BY <1>6 DEF irq_install
  <2>2. handler # "pit_handler" /\ line \in 0..15
    BY InterruptsAssumption DEF NO_HANDLER
  <2>3. g_irq_handlers' \in [0..15 -> {NO_HANDLER, "pit_handler", "driver"}]
    BY <2>1, <2>2 DEF TypeInv
  <2>4. \A l \in 1..15 : g_irq_handlers'[l] # "pit_handler"
    BY <2>1, <2>2, SMTT(20) DEF TypeInv
  <2> QED
    BY <1>6, <2>2, <2>3, <2>4 DEF irq_install, TypeInv
<1>7. CASE masks
  <2>1. PICK line \in Lines \cup {2} : \/ hist' = [hist EXCEPT !.closed = @ \cup {line}]
                                       \/ hist' = [hist EXCEPT !.closed = @ \ {line}]
    BY <1>7, Zenon DEF masks
  <2>2. line \in 0..15
    BY InterruptsAssumption
  <2>3. hist' \in HistType
    BY <1>2, <2>1, <2>2 DEF HistType
  <2> QED
    BY <1>3, <1>7, <2>3 DEF masks, table_vars
<1>8. CASE pic_disable
  <2>1. hist' \in HistType
    BY <1>2, <1>8 DEF HistType, pic_disable
  <2> QED
    BY <1>3, <1>8, <2>1 DEF pic_disable, table_vars
<1>9. CASE pit_init
  <2>1. hist' \in HistType
    BY <1>2, <1>9 DEF HistType, pit_init
  <2> QED
    BY <1>9, <2>1 DEF pit_init, TypeInv
<1>10. CASE pit_wait
  <2>1. PICK m \in Waits :
            /\ target_ticks' = (g_ticks + wait_ticks(m)) % TICKS
            /\ hist' = [hist EXCEPT !.waited = m, !.pulses = 0,
                        !.wraps = g_ticks * SECOND + m * PIT_FREQUENCY >= TICKS * SECOND
                                  \/ m * PIT_FREQUENCY >= TICKS]
    BY <1>10 DEF pit_wait
  <2>2. m \in Nat
    BY InterruptsAssumption
  <2>3. hist' \in HistType
    <3> DEFINE b == g_ticks * SECOND + m * PIT_FREQUENCY >= TICKS * SECOND
                    \/ m * PIT_FREQUENCY >= TICKS
    <3>1. b \in BOOLEAN
      OBVIOUS
    <3>2. hist' = [hist EXCEPT !.waited = m, !.pulses = 0, !.wraps = b]
      BY <2>1
    <3> HIDE DEF b
    <3> QED
      BY <1>2, <2>2, <3>1, <3>2 DEF HistType
  <2>4. target_ticks' \in 0..(TICKS - 1)
    <3> DEFINE p == m * PIT_FREQUENCY
               w == (p % TICKS) \div SECOND
    <3>1. p \in Nat
      BY <2>2, InterruptsAssumption
    <3> HIDE DEF p
    <3>2. w \in Nat
      BY <1>2, <3>1, InterruptsAssumption
    <3> HIDE DEF w
    <3>3. g_ticks \in Nat
      BY <1>2 DEF TypeInv
    <3>4. target_ticks' = (g_ticks + w) % TICKS
      BY <2>1 DEF wait_ticks, w, p
    <3> QED
      BY <1>2, <3>2, <3>3, <3>4
  <2> QED
    BY <1>10, <2>3, <2>4 DEF pit_wait, TypeInv, table_vars
<1>11. CASE pit_wait_returns
  <2>1. hist' \in HistType
    BY <1>2, <1>11 DEF HistType, pit_wait_returns
  <2> QED
    BY <1>3, <1>11, <2>1 DEF pit_wait_returns, table_vars
<1>12. ASSUME NEW line \in Lines, request(line)
       PROVE  TypeInv'
  <2>1. hist' \in HistType
    BY <1>2, <1>12 DEF HistType, request
  <2> QED
    BY <1>3, <1>12, <2>1 DEF request, table_vars, kernel_vars
<1> QED
  BY <1>1, <1>4, <1>5, <1>6, <1>7, <1>8, <1>9, <1>10, <1>11, <1>12 DEF KernelSteps

(* The types are inductive.                                                *)
LEMMA TypeInvStep ==
    ASSUME FrameInv, KernelInv, TypeInv, [Next]_vars
    PROVE  TypeInv'
<1>1. CASE UNCHANGED vars
  BY <1>1 DEF vars, TypeInv
<1>2. CASE pc # "panic" /\ (raise \/ \E line \in Lines : acknowledge(line) \/ spurious(line))
  <2>1. UNCHANGED <<g_isr_handlers, g_irq_handlers, g_ticks, target_ticks, hist>>
    BY <1>2, EnterEffect
  <2> QED
    BY <2>1 DEF TypeInv
<1>3. CASE Handlers
  <2>1. UNCHANGED <<g_isr_handlers, g_irq_handlers, target_ticks, hist>>
    BY <1>3, HandlerEffect
  <2>2. g_ticks' = g_ticks \/ g_ticks' = (g_ticks + 1) % TICKS
    BY <1>3, HandlerEffect
  <2>3. g_ticks' \in 0..(TICKS - 1)
    BY <2>2, InterruptsAssumption, SMTT(20) DEF TypeInv
  <2> QED
    BY <2>1, <2>3 DEF TypeInv
<1> QED
  BY <1>1, <1>2, <1>3, Kinds, KernelTypes

(* However interrupts and exceptions nest: isr_install and irq_install     *)
(* keep the tables within their slots, only requests of lines that have a  *)
(* device are latched, and g_ticks of pit.c and the target of pit_wait     *)
(* stay within the counter's width when they wrap.                         *)
THEOREM InterruptsTypeTheorem == Spec => []TypeOK
<1> DEFINE Inv == FrameInv /\ KernelInv /\ TypeInv
<1>1. Init => Inv
  BY FrameInit, TypeInvInit
<1>2. Inv /\ [Next]_vars => Inv'
  BY FrameStep, TypeInvStep
<1>3. Inv => TypeOK
  BY DEF FrameInv, KernelInv, PicState, TypeInv, TypeOK
<1> QED
  BY <1>1, <1>2, <1>3, Safety, PTL

(***************************************************************************)
(* The controllers.                                                        *)
(***************************************************************************)

(* A line has a bit of its own.                                            *)
LEMMA MaskBits ==
    ASSUME NEW line \in 0..15
    PROVE  /\ mask_bit(line) = {line % 8} /\ Chip(line) \in 1..2
           /\ \A l \in 0..15 : Chip(l) = Chip(line) /\ l % 8 = line % 8 => l = line
<1>1. (line < 8 => line % 8 = line) /\ (line >= 8 => line % 8 = line - 8)
  OBVIOUS
<1>2. \A l \in 0..15 : (l < 8 => l % 8 = l) /\ (l >= 8 => l % 8 = l - 8)
  OBVIOUS
<1>3. line < 8 \/ line >= 8
  OBVIOUS
<1> QED
  BY <1>1, <1>2, <1>3 DEF mask_bit, Chip

(* The bits stand for the lines in `closed'.                               *)
Agree(mask, closed) ==
    \A line \in Lines \cup {2} : line % 8 \in mask[Chip(line)] <=> line \in closed

(* Setting or clearing a bit masks or opens its line and no other.         *)
LEMMA MasksAgree ==
    ASSUME pic \in PicState, NEW line \in 0..15, NEW closed, Agree(pic.mask, closed)
    PROVE  /\ Agree(pic_set_mask(line), closed \cup {line})
           /\ Agree(pic_clear_mask(line), closed \ {line})
<1>1. pic.mask \in [1..2 -> SUBSET (0..7)]
  BY DEF PicState
<1>2. /\ mask_bit(line) = {line % 8} /\ Chip(line) \in 1..2
      /\ \A l \in 0..15 : Chip(l) = Chip(line) /\ l % 8 = line % 8 => l = line
  BY MaskBits
<1> DEFINE s == pic_set_mask(line)
           t == pic_clear_mask(line)
<1>3. \A c \in 1..2 : /\ s[c] = IF c = Chip(line) THEN pic.mask[c] \cup {line % 8} ELSE pic.mask[c]
                      /\ t[c] = IF c = Chip(line) THEN pic.mask[c] \ {line % 8} ELSE pic.mask[c]
  BY <1>1, <1>2 DEF pic_set_mask, pic_clear_mask
<1> HIDE DEF s, t
<1>4. ASSUME NEW l \in Lines \cup {2}
      PROVE  /\ l % 8 \in s[Chip(l)] <=> l \in closed \cup {line}
             /\ l % 8 \in t[Chip(l)] <=> l \in closed \ {line}
  <2>1. l \in 0..15 /\ Chip(l) \in 1..2
    BY InterruptsAssumption, MaskBits
  <2>2. l % 8 \in pic.mask[Chip(l)] <=> l \in closed
    BY DEF Agree
  <2>3. Chip(l) = Chip(line) /\ l % 8 = line % 8 <=> l = line
    BY <1>2, <2>1
  <2>4. CASE Chip(l) = Chip(line)
    <3>1. s[Chip(l)] = pic.mask[Chip(l)] \cup {line % 8}
          /\ t[Chip(l)] = pic.mask[Chip(l)] \ {line % 8}
      BY <1>3, <2>1, <2>4
    <3>2. l % 8 = line % 8 <=> l = line
      BY <2>3, <2>4
    <3> QED
      BY <2>2, <3>1, <3>2
  <2>5. CASE Chip(l) # Chip(line)
    <3>1. s[Chip(l)] = pic.mask[Chip(l)] /\ t[Chip(l)] = pic.mask[Chip(l)]
      BY <1>3, <2>1, <2>5
    <3>2. l # line
      BY <2>3, <2>5
    <3> QED
      BY <2>2, <3>1, <3>2
  <2> QED
    BY <2>4, <2>5
<1> QED
  BY <1>4 DEF Agree, s, t

(* No other step touches a mask.                                           *)
LEMMA MaskStep ==
    ASSUME FrameInv, KernelInv, TypeInv, MaskInv, [Next]_vars
    PROVE  MaskInv'
<1>1. pic \in PicState /\ hist \in HistType
  BY DEF KernelInv, TypeInv
<1>2. ASSUME UNCHANGED <<hist.closed, pic.mask>>,
             pc' = pc \/ pc' = "panic" \/ (pc \in {"run", "wait"} /\ pc' \in {"run", "wait"})
      PROVE  MaskInv'
  BY <1>2 DEF MaskInv
<1>3. CASE UNCHANGED vars
  BY <1>2, <1>3 DEF vars
<1>4. CASE pc # "panic" /\ (raise \/ \E line \in Lines : acknowledge(line) \/ spurious(line))
  BY <1>2, <1>4, EnterEffect
<1>5. CASE Handlers
  <2>1. UNCHANGED hist /\ (pc' = pc \/ pc' = "panic")
    BY <1>5, HandlerEffect
  <2>2. pic' = pic \/ \E line \in Int : pic' = [pic EXCEPT !.isr = pic_send_eoi(line)]
    <3> DEFINE v == active[1].vector
    <3>1. v \in 0..47
      BY <1>5, HandlerEffect DEF Activation
    <3> HIDE DEF v
    <3>2. v - 32 \in Int
      BY <3>1
    <3> USE DEF v
    <3> QED
      BY <1>5, <3>2, HandlerEffect
  <2>3. UNCHANGED pic.mask
    BY <1>1, <2>2 DEF PicState
  <2> QED
    BY <1>2, <2>1, <2>3
<1>6. ASSUME pc = "run", pc' = "run", NEW line \in 0..15,
             \/ /\ pic' = [pic EXCEPT !.mask = pic_set_mask(line)]
                /\ hist' = [hist EXCEPT !.closed = @ \cup {line}]
             \/ /\ pic' = [pic EXCEPT !.mask = pic_clear_mask(line)]
                /\ hist' = [hist EXCEPT !.closed = @ \ {line}]
      PROVE  MaskInv'
  <2>1. Agree(pic.mask, hist.closed)
    BY <1>6 DEF MaskInv, Agree
  <2>2. \/ pic'.mask = pic_set_mask(line) /\ hist'.closed = hist.closed \cup {line}
        \/ pic'.mask = pic_clear_mask(line) /\ hist'.closed = hist.closed \ {line}
    BY <1>1, <1>6 DEF PicState, HistType
  <2>3. /\ Agree(pic_set_mask(line), hist.closed \cup {line})
        /\ Agree(pic_clear_mask(line), hist.closed \ {line})
    BY <1>1, <2>1, MasksAgree
  <2>4. Agree(pic'.mask, hist'.closed)
    BY <2>2, <2>3
  <2> QED
    BY <1>6, <2>4 DEF MaskInv, Agree
<1>7. CASE KernelSteps
  <2>1. CASE gdt_init
    BY <2>1 DEF gdt_init, MaskInv
  <2>2. CASE idt_init
    <3>1. pc = "gdt" /\ pc' = "run" /\ UNCHANGED hist /\ pic'.mask = [chip \in 1..2 |-> {}]
      BY <2>2 DEF idt_init, pic_remap
    <3>2. hist'.closed = {}
      BY <3>1 DEF MaskInv
    <3>3. \A line \in Lines \cup {2} : Chip(line) \in 1..2
      BY InterruptsAssumption DEF Chip
    <3> QED
      BY <3>1, <3>2, <3>3 DEF MaskInv
  <2>3. CASE isr_install \/ irq_install
    BY <1>2, <2>3 DEF isr_install, irq_install
  <2>4. CASE masks
    <3>1. pc = "run" /\ pc' = "run"
      BY <2>4 DEF masks, Client
    <3>2. \A line \in Lines \cup {2} : line \in 0..15
      BY InterruptsAssumption
    <3> QED
      BY <1>6, <2>4, <3>1, <3>2, Zenon DEF masks
  <2>5. CASE pic_disable
    <3>1. pc = "run" /\ pc' = "run" /\ pic'.mask = [chip \in 1..2 |-> 0..7]
          /\ hist'.closed = 0..15
      BY <1>1, <2>5 DEF pic_disable, Client, PicState, HistType
    <3>2. \A line \in Lines \cup {2} : Chip(line) \in 1..2 /\ line % 8 \in 0..7 /\ line \in 0..15
      BY InterruptsAssumption DEF Chip
    <3> QED
      BY <3>1, <3>2 DEF MaskInv
  <2>6. CASE pit_init
    <3>1. pc = "run" /\ pc' = "run" /\ 0 \in 0..15
      BY <2>6 DEF pit_init, Client
    <3> QED
      BY <1>6, <2>6, <3>1, Zenon DEF pit_init
  <2>7. CASE pit_wait
    <3>1. pc = "run" /\ pc' = "wait" /\ UNCHANGED pic
      BY <2>7 DEF pit_wait, Client
    <3>2. \E m, b : hist' = [hist EXCEPT !.waited = m, !.pulses = 0, !.wraps = b]
      BY <2>7, Zenon DEF pit_wait
    <3>3. UNCHANGED hist.closed
      BY <1>1, <3>2 DEF HistType
    <3> QED
      BY <1>2, <3>1, <3>3
  <2>8. CASE pit_wait_returns
    <3>1. UNCHANGED hist.closed
      BY <1>1, <2>8 DEF pit_wait_returns, HistType
    <3> QED
      BY <1>2, <2>8, <3>1 DEF pit_wait_returns
  <2>9. ASSUME NEW line \in Lines, request(line)
        PROVE  MaskInv'
    <3>1. UNCHANGED hist.closed /\ UNCHANGED pic.mask
      BY <1>1, <2>9 DEF request, HistType, PicState
    <3> QED
      BY <1>2, <2>9, <3>1 DEF request, kernel_vars
  <2> QED
    BY <1>7, <2>1, <2>2, <2>3, <2>4, <2>5, <2>6, <2>7, <2>8, <2>9 DEF KernelSteps
<1> QED
  BY <1>3, <1>4, <1>5, <1>7, Kinds

(* One command ends the service of a line that is alone.                   *)
LEMMA EndsAlone ==
    ASSUME NEW S, NEW x \in Int, S \subseteq {x}
    PROVE  End(S) = {}
<1>1. CASE S = {}
  BY <1>1 DEF End
<1>2. CASE S = {x}
  <2>1. Min(S) = x
    BY <1>2 DEF Min
  <2> QED
    BY <1>2, <2>1 DEF End
<1> QED
  BY <1>1, <1>2

(* What a device's handler acknowledges is all that is in service.         *)
LEMMA EndsService ==
    ASSUME pic \in PicState, NEW a \in Activation, pic.isr = {} \/ InService(a, pic.isr),
           a.vector >= 32
    PROVE  pic_send_eoi(a.vector - 32) = {}
<1> DEFINE l == a.vector - 32
           isr == pic.isr
<1>1. a.vector \in 0..47
  BY DEF Activation
<1>2. l \in 0..15 /\ (a.vector < 40 <=> l < 8) /\ (a.vector >= 40 <=> l >= 8)
  BY <1>1
<1>3. isr \subseteq 0..15
  BY DEF PicState
<1>4. \/ isr = {}
      \/ l < 8 /\ isr = {l}
      \/ l >= 8 /\ isr \subseteq {2, l}
  BY <1>2 DEF InService
<1> HIDE DEF l, isr
<1>5. CASE isr = {}
  <2>1. isr \cap (0..7) \subseteq {2} /\ isr \cap (8..15) \subseteq {2}
    BY <1>5
  <2>2. End(isr \cap (0..7)) = {} /\ End(isr \cap (8..15)) = {} /\ isr \cap (8..15) = {}
    BY <1>5, <2>1, EndsAlone
  <2> QED
    BY <2>2 DEF pic_send_eoi, l, isr
<1>6. CASE l < 8 /\ isr = {l}
  <2>1. isr \cap (0..7) \subseteq {l} /\ isr \cap (8..15) = {} /\ ~(l >= 8)
    BY <1>2, <1>6
  <2>2. End(isr \cap (0..7)) = {}
    BY <1>2, <2>1, EndsAlone
  <2> QED
    BY <2>1, <2>2 DEF pic_send_eoi, l, isr
<1>7. CASE l >= 8 /\ isr \subseteq {2, l}
  <2>1. isr \cap (0..7) \subseteq {2} /\ isr \cap (8..15) \subseteq {l}
    BY <1>2, <1>7
  <2>2. End(isr \cap (0..7)) = {} /\ End(isr \cap (8..15)) = {}
    BY <1>2, <2>1, EndsAlone
  <2> QED
    BY <1>7, <2>2 DEF pic_send_eoi, l, isr
<1> QED
  BY <1>4, <1>5, <1>6, <1>7

(* Nothing stays in service without a handler that will say so.            *)
LEMMA ServiceStep ==
    ASSUME FrameInv, KernelInv, ServiceInv, [Next]_vars
    PROVE  ServiceInv'
<1>1. pic \in PicState
  BY DEF KernelInv
<1> DEFINE n == Len(active)
<1>2. /\ active \in Seq(Activation) /\ n \in Nat /\ DOMAIN active = 1..n
      /\ active = <<>> <=> n = 0
  BY EmptySeq DEF FrameInv
<1>3. FrameInv'
  BY FrameStep
<1> DEFINE m == Len(active')
<1>4. m \in Nat /\ active' \in Seq(Activation) /\ (active' = <<>> <=> m = 0)
  <2>1. active' \in Seq(Activation)
    BY <1>3 DEF FrameInv
  <2> QED
    BY <2>1, EmptySeq
<1>5. CASE UNCHANGED vars
  BY <1>5 DEF vars, ServiceInv
<1>6. CASE KernelSteps
  <2>1. UNCHANGED active
    BY <1>6 DEF KernelSteps, gdt_init, idt_init, isr_install, irq_install, masks, pic_disable,
           pit_init, pit_wait, pit_wait_returns, request, machine_vars
  <2>2. CASE gdt_init
    BY <2>2 DEF gdt_init, ServiceInv
  <2>3. CASE idt_init
    BY <2>3 DEF idt_init, pic_remap, ServiceInv
  <2>4. ASSUME UNCHANGED pic.isr, pc' = pc \/ pc \in {"run", "wait"} PROVE ServiceInv'
    BY <2>1, <2>4 DEF ServiceInv
  <2>5. CASE isr_install \/ irq_install
    BY <2>4, <2>5 DEF isr_install, irq_install
  <2>6. CASE masks
    <3>1. \E r : pic' = [pic EXCEPT !.mask = r]
      BY <2>6, Zenon DEF masks
    <3>2. UNCHANGED pic.isr
      BY <1>1, <3>1 DEF PicState
    <3> QED
      BY <2>4, <2>6, <3>2 DEF masks
  <2>7. CASE pic_disable \/ pit_init
    <3>1. \E r : pic' = [pic EXCEPT !.mask = r]
      BY <2>7, Zenon DEF pic_disable, pit_init
    <3>2. UNCHANGED pic.isr
      BY <1>1, <3>1 DEF PicState
    <3> QED
      BY <2>4, <2>7, <3>2 DEF pic_disable, pit_init
  <2>8. CASE pit_wait \/ pit_wait_returns
    BY <2>4, <2>8 DEF pit_wait, pit_wait_returns, Client
  <2>9. ASSUME NEW line \in Lines, request(line) PROVE ServiceInv'
    <3>1. UNCHANGED pic.isr /\ UNCHANGED pc
      BY <1>1, <2>9 DEF request, PicState, kernel_vars
    <3> QED
      BY <2>4, <3>1
  <2> QED
    BY <1>6, <2>2, <2>3, <2>5, <2>6, <2>7, <2>8, <2>9 DEF KernelSteps
<1>7. CASE pc # "panic" /\ (raise \/ \E line \in Lines : acknowledge(line) \/ spurious(line))
  <2>1. /\ UNCHANGED pc /\ m = n + 1 /\ DOMAIN active' = 1..(n + 1)
        /\ \A i \in DOMAIN active : i + 1 \in DOMAIN active' /\ active'[i + 1] = active[i]
        /\ active'[1].at = "entered"
    BY <1>7, EnterEffect
  <2>2. CASE UNCHANGED pic
    <3> SUFFICES ASSUME pc \in {"run", "wait"}, pic.isr # {}
                 PROVE  active' # <<>> /\ InService(active'[m], pic.isr)
      BY <2>1, <2>2 DEF ServiceInv
    <3>1. active # <<>> /\ InService(active[n], pic.isr)
      BY DEF ServiceInv
    <3>2. n \in DOMAIN active /\ active'[n + 1] = active[n]
      BY <1>2, <2>1, <3>1
    <3>3. m # 0
      BY <1>2, <2>1
    <3> HIDE DEF m, n
    <3> QED
      BY <1>4, <2>1, <3>1, <3>2, <3>3
  <2>3. CASE active = <<>> /\ \E line \in Lines \cap pic.irr : \E q \in {{line}, {2, line}, {}, {2}} :
                    /\ pic' = [pic EXCEPT !.irr = @ \ {line}, !.isr = @ \cup q]
                    /\ \/ active'[1].vector = 32 + line
                          /\ q = (IF line < 8 THEN {line} ELSE {2, line})
                       \/ line # 0 /\ line < 8 /\ active'[1].vector = 39 /\ q = {}
                       \/ line # 0 /\ line >= 8 /\ active'[1].vector = 47 /\ q = {2}
    <3> SUFFICES ASSUME pc \in {"run", "wait"}
                 PROVE  pic'.isr = {} \/ (active' # <<>> /\ InService(active'[m], pic'.isr))
      BY <2>1 DEF ServiceInv
    <3>1. n = 0 /\ m = 1 /\ active' # <<>> /\ pic.isr = {}
      BY <1>2, <1>4, <2>1, <2>3 DEF ServiceInv
    <3>2. PICK line \in Lines \cap pic.irr : \E q \in {{line}, {2, line}, {}, {2}} :
                    /\ pic' = [pic EXCEPT !.irr = @ \ {line}, !.isr = @ \cup q]
                    /\ \/ active'[1].vector = 32 + line
                          /\ q = (IF line < 8 THEN {line} ELSE {2, line})
                       \/ line # 0 /\ line < 8 /\ active'[1].vector = 39 /\ q = {}
                       \/ line # 0 /\ line >= 8 /\ active'[1].vector = 47 /\ q = {2}
      BY <2>3
    <3>3. PICK q \in {{line}, {2, line}, {}, {2}} :
                    /\ pic' = [pic EXCEPT !.irr = @ \ {line}, !.isr = @ \cup q]
                    /\ \/ active'[1].vector = 32 + line
                          /\ q = (IF line < 8 THEN {line} ELSE {2, line})
                       \/ line # 0 /\ line < 8 /\ active'[1].vector = 39 /\ q = {}
                       \/ line # 0 /\ line >= 8 /\ active'[1].vector = 47 /\ q = {2}
      BY <3>2
    <3>4. pic'.isr = q
      BY <1>1, <3>1, <3>3 DEF PicState
    <3>5. line \in 0..15
      BY InterruptsAssumption
    <3>6. active'[1].at # "return"
      <4>1. active'[1].at = "entered"
        BY <2>1
      <4> QED
        BY ONLY <4>1
    <3> DEFINE w == active'[1].vector
    <3>7. \/ w = 32 + line /\ q = (IF line < 8 THEN {line} ELSE {2, line})
          \/ w = 39 /\ q = {}
          \/ w = 47 /\ q = {2}
      BY <3>3
    <3> HIDE DEF w
    <3>8. \/ q = {}
          \/ w >= 32 /\ w < 40 /\ q = {w - 32}
          \/ w >= 32 /\ w >= 40 /\ q \subseteq {2, w - 32}
      BY <3>5, <3>7
    <3> QED
      BY <3>1, <3>4, <3>6, <3>8 DEF InService, w
  <2> QED
    BY <1>7, <2>2, <2>3, EnterEffect
<1>8. CASE Handlers
  <2>1. /\ n \in Nat \ {0} /\ 1 \in DOMAIN active /\ active[1] \in Activation
        /\ active[1].vector >= 32 => n = 1
    BY <1>8, HandlerEffect
  <2> DEFINE a == active[1]
             b == active'[1]
  <2>2. CASE pc' = "panic"
    BY <2>2 DEF ServiceInv
  <2>3. ASSUME pc \in {"run", "wait"}, pic.isr # {}
        PROVE  InService(active[n], pic.isr) /\ active[n].vector >= 32
    BY <2>3 DEF ServiceInv, InService
  <2>4. ASSUME UNCHANGED <<pc, pic>>, m = n, NEW place \in Places, Moves(place),
               a.vector < 32 \/ place # "return"
        PROVE  ServiceInv'
    <3> SUFFICES ASSUME pc \in {"run", "wait"}, pic.isr # {}
                 PROVE  active' # <<>> /\ InService(active'[m], pic.isr)
      BY <2>4 DEF ServiceInv
    <3>1. InService(active[n], pic.isr) /\ active[n].vector >= 32
      BY <2>3
    <3>2. active' # <<>>
      BY <1>4, <2>1, <2>4
    <3>3. CASE n = 1
      <4>1. active[1].vector \in 0..47
        BY <2>1 DEF Activation
      <4>2. place # "return"
        BY <2>4, <3>1, <3>3, <4>1
      <4>3. b.at # "return" /\ b.vector = a.vector /\ active[n] = a /\ active'[m] = b
        BY <2>4, <3>3, <4>2 DEF Moves
      <4> HIDE DEF a, b, n, m
      <4> QED
        BY <3>1, <3>2, <4>3 DEF InService
    <3>4. CASE n # 1
      <4>1. n \in DOMAIN active
        BY <1>2, <2>1
      <4>2. active'[n] = active[n]
        BY <2>4, <3>4, <4>1 DEF Moves
      <4> QED
        BY <2>4, <3>1, <3>2, <4>2
    <3> QED
      BY <3>3, <3>4
  <2>5. \A place : Moves(place) => m = n
    BY DEF Moves
  <2>6. {"body", "return", "eoi"} \subseteq Places
    BY DEF Places
  <2>7. CASE UNCHANGED <<pc, pic>> /\ a.vector < 32 /\ (Moves("body") \/ Moves("return"))
    BY <2>4, <2>5, <2>6, <2>7
  <2>8. CASE UNCHANGED <<pc, pic>> /\ (Moves("body") \/ Moves("eoi"))
    BY <2>4, <2>5, <2>6, <2>8
  <2>9. CASE /\ UNCHANGED pc /\ a.vector >= 32
             /\ pic' = [pic EXCEPT !.isr = pic_send_eoi(a.vector - 32)]
    <3>1. pic'.isr = pic_send_eoi(a.vector - 32)
      BY <1>1, <2>9 DEF PicState
    <3>2. n = 1
      BY <2>1, <2>9
    <3>3. pc \in {"run", "wait"} => pic'.isr = {}
      <4> SUFFICES ASSUME pc \in {"run", "wait"} PROVE pic'.isr = {}
        OBVIOUS
      <4>1. pic.isr = {} \/ InService(a, pic.isr)
        BY <2>3, <3>2
      <4> HIDE DEF a
      <4>2. a \in Activation
        BY <2>1 DEF a
      <4> QED
        BY <1>1, <2>9, <3>1, <4>1, <4>2, EndsService
    <3> QED
      BY <2>9, <3>3 DEF ServiceInv
  <2>10. CASE /\ UNCHANGED <<pc, pic>> /\ a.at = "return"
              /\ m = n - 1 /\ DOMAIN active' = 1..m
              /\ \A i \in DOMAIN active' : i + 1 \in DOMAIN active /\ active'[i] = active[i + 1]
    <3> SUFFICES ASSUME pc \in {"run", "wait"}, pic.isr # {}
                 PROVE  active' # <<>> /\ InService(active'[m], pic.isr)
      BY <2>10 DEF ServiceInv
    <3>1. InService(active[n], pic.isr)
      BY <2>3
    <3>2. n # 1
      BY <2>10, <3>1 DEF InService
    <3>3. m \in DOMAIN active' /\ m # 0 /\ m + 1 = n
      BY <2>1, <2>10, <3>2
    <3>4. active'[m] = active[n]
      BY <2>10, <3>3
    <3> QED
      BY <1>4, <3>1, <3>3, <3>4
  <2> QED
    BY <1>8, <2>2, <2>7, <2>8, <2>9, <2>10, HandlerEffect
<1> QED
  BY <1>5, <1>6, <1>7, <1>8, Kinds

(* No line is opened again before its own handler says so.                 *)
LEMMA HeldStep ==
    ASSUME FrameInv, KernelInv, HeldInv, [Next]_vars
    PROVE  HeldInv'
<1>1. pic \in PicState
  BY DEF KernelInv
<1>2. CASE UNCHANGED vars
  BY <1>2 DEF vars, HeldInv
<1>3. CASE KernelSteps
  <2>1. UNCHANGED active
    BY <1>3 DEF KernelSteps, gdt_init, idt_init, isr_install, irq_install, masks, pic_disable,
           pit_init, pit_wait, pit_wait_returns, request, machine_vars
  <2>2. CASE gdt_init
    BY <2>2 DEF gdt_init, HeldInv
  <2>3. CASE idt_init
    <3>1. DOMAIN active' = {}
      BY <2>1, <2>3 DEF idt_init, KernelInv
    <3> QED
      BY <3>1 DEF HeldInv
  <2>4. ASSUME UNCHANGED pic.isr, pc' = pc \/ pc \in {"run", "wait"} PROVE HeldInv'
    BY <2>1, <2>4 DEF HeldInv
  <2>5. CASE isr_install \/ irq_install
    BY <2>4, <2>5 DEF isr_install, irq_install
  <2>6. CASE masks \/ pic_disable \/ pit_init
    <3>1. \E r : pic' = [pic EXCEPT !.mask = r]
      BY <2>6, Zenon DEF masks, pic_disable, pit_init
    <3>2. UNCHANGED pic.isr
      BY <1>1, <3>1 DEF PicState
    <3> QED
      BY <2>4, <2>6, <3>2 DEF masks, pic_disable, pit_init
  <2>7. CASE pit_wait \/ pit_wait_returns
    BY <2>4, <2>7 DEF pit_wait, pit_wait_returns, Client
  <2>8. ASSUME NEW line \in Lines, request(line) PROVE HeldInv'
    <3>1. UNCHANGED pic.isr /\ UNCHANGED pc
      BY <1>1, <2>8 DEF request, PicState, kernel_vars
    <3> QED
      BY <2>4, <3>1
  <2> QED
    BY <1>3, <2>2, <2>3, <2>5, <2>6, <2>7, <2>8 DEF KernelSteps
<1>4. CASE pc # "panic" /\ (raise \/ \E line \in Lines : acknowledge(line) \/ spurious(line))
  <2>1. /\ UNCHANGED pc
        /\ \A i \in DOMAIN active' : i = 1 \/ (i - 1 \in DOMAIN active
                                                /\ active'[i] = active[i - 1])
    BY <1>4, EnterEffect
  <2>2. CASE UNCHANGED pic /\ active'[1].vector < 32
    <3> SUFFICES ASSUME pc \in {"run", "wait"}, NEW i \in DOMAIN active'
                 PROVE  Held(active'[i], pic.isr)
      BY <2>1, <2>2 DEF HeldInv
    <3>1. CASE i = 1
      <4>1. active' \in Seq(Activation)
        BY FrameStep DEF FrameInv
      <4>2. active'[1].vector \in 0..47
        <5> DEFINE s == active'
        <5>1. s \in Seq(Activation) /\ 1 \in DOMAIN s
          BY <3>1, <4>1
        <5> HIDE DEF s
        <5>2. s[1] \in Activation
          BY <5>1
        <5> QED
          BY <5>2 DEF Activation, s
      <4>3. ~(active'[1].vector >= 32)
        BY <2>2, <4>2
      <4> QED
        BY <3>1, <4>3 DEF Held
    <3>2. CASE i # 1
      BY <2>1, <3>2 DEF HeldInv
    <3> QED
      BY <3>1, <3>2
  <2>3. ASSUME active = <<>>, NEW line \in Lines, NEW q \in {{line}, {2, line}, {}, {2}},
               pic' = [pic EXCEPT !.irr = @ \ {line}, !.isr = @ \cup q],
               \/ active'[1].vector = 32 + line /\ q = (IF line < 8 THEN {line} ELSE {2, line})
               \/ active'[1].vector = 39 /\ q = {}
               \/ active'[1].vector = 47 /\ q = {2}
        PROVE  HeldInv'
    <3> SUFFICES ASSUME NEW i \in DOMAIN active' PROVE Held(active'[i], pic'.isr)
      BY DEF HeldInv
    <3>1. i = 1
      BY <2>1, <2>3
    <3>2. pic'.isr = pic.isr \cup q /\ line \in 0..15
      BY <1>1, <2>3, InterruptsAssumption DEF PicState
    <3> DEFINE v == active'[1].vector
    <3>3. \/ v = 32 + line /\ q = (IF line < 8 THEN {line} ELSE {2, line})
          \/ v = 39 /\ q = {}
          \/ v = 47 /\ q = {2}
      BY <2>3
    <3> HIDE DEF v
    <3>4. /\ v - 32 \notin {7, 15} => v - 32 \in pic'.isr
          /\ v - 32 >= 8 => 2 \in pic'.isr
      BY <3>2, <3>3
    <3> QED
      BY <3>1, <3>4 DEF Held, v
  <2>4. \/ UNCHANGED pic /\ active'[1].vector < 32
        \/ active = <<>> /\ \E line \in Lines : \E q \in {{line}, {2, line}, {}, {2}} :
                    /\ pic' = [pic EXCEPT !.irr = @ \ {line}, !.isr = @ \cup q]
                    /\ \/ active'[1].vector = 32 + line
                          /\ q = (IF line < 8 THEN {line} ELSE {2, line})
                       \/ active'[1].vector = 39 /\ q = {}
                       \/ active'[1].vector = 47 /\ q = {2}
    <3>1. \/ raise /\ active'[1].vector < 32 /\ UNCHANGED pic
          \/ active = <<>> /\ \E line \in Lines \cap pic.irr : \E q \in {{line}, {2, line}, {}, {2}} :
                    /\ pic' = [pic EXCEPT !.irr = @ \ {line}, !.isr = @ \cup q]
                    /\ \/ active'[1].vector = 32 + line
                          /\ q = (IF line < 8 THEN {line} ELSE {2, line})
                       \/ line # 0 /\ line < 8 /\ active'[1].vector = 39 /\ q = {}
                       \/ line # 0 /\ line >= 8 /\ active'[1].vector = 47 /\ q = {2}
      BY <1>4, EnterEffect
    <3> QED
      BY <3>1, Zenon
  <2> QED
    BY <2>2, <2>3, <2>4, Zenon
<1>5. CASE Handlers
  <2> DEFINE a == active[1]
  <2>1. /\ Len(active) \in Nat \ {0} /\ DOMAIN active = 1..Len(active) /\ 1 \in DOMAIN active
        /\ a \in Activation
        /\ a.vector >= 32 => Len(active) = 1
    BY <1>5, HandlerEffect
  <2>2. a.vector \in 0..47
    BY <2>1 DEF Activation
  <2>3. CASE pc' = "panic"
    BY <2>3 DEF HeldInv
  <2>4. ASSUME UNCHANGED <<pc, pic>>, NEW place, Moves(place), a.vector < 32 \/ a.at # "return"
        PROVE  HeldInv'
    <3> SUFFICES ASSUME pc \in {"run", "wait"}, NEW i \in DOMAIN active'
                 PROVE  Held(active'[i], pic.isr)
      BY <2>4 DEF HeldInv
    <3>1. i \in DOMAIN active /\ Held(active[i], pic.isr)
      BY <2>4 DEF HeldInv, Moves
    <3>2. CASE i = 1
      <4>1. active'[1].vector = a.vector
        BY <2>4 DEF Moves
      <4>2. a.vector < 32 => ~(a.vector >= 32)
        BY <2>2
      <4> QED
        BY <2>4, <3>1, <3>2, <4>1, <4>2, Zenon DEF Held
    <3>3. CASE i # 1
      BY <2>4, <3>1, <3>3 DEF Moves
    <3> QED
      BY <3>2, <3>3
  <2>5. CASE UNCHANGED <<pc, pic>> /\ a.vector < 32 /\ (Moves("body") \/ Moves("return"))
    BY <2>4, <2>5
  <2>6. CASE UNCHANGED <<pc, pic>> /\ a.at \in {"entered", "body"} /\ (Moves("body") \/ Moves("eoi"))
    <3>1. a.at # "return"
      BY ONLY <2>6
    <3> QED
      BY <2>4, <2>6, <3>1
  <2>7. CASE a.vector >= 32 /\ Moves("return")
    <3> SUFFICES ASSUME NEW i \in DOMAIN active' PROVE Held(active'[i], pic'.isr)
      BY DEF HeldInv
    <3>1. i = 1
      BY <2>1, <2>7 DEF Moves
    <3> QED
      BY <2>7, <3>1 DEF Held, Moves
  <2>8. CASE /\ UNCHANGED <<pc, pic>>
             /\ \A i \in DOMAIN active' : i + 1 \in DOMAIN active /\ active'[i] = active[i + 1]
    BY <2>8 DEF HeldInv
  <2> QED
    BY <1>5, <2>3, <2>5, <2>6, <2>7, <2>8, HandlerEffect
<1> QED
  BY <1>2, <1>3, <1>4, <1>5, Kinds

(* The 8259A controllers and the handlers agree: nothing stays in service  *)
(* once its handler has called pic_send_eoi, spurious interrupts and those *)
(* of the second controller included, no line is opened again before its   *)
(* handler has, however deep exceptions nest, and pic_set_mask and         *)
(* pic_clear_mask mask the lines they are asked to.                        *)
THEOREM ControllersTheorem == Spec => []ControllersInStep
<1> DEFINE Inv == FrameInv /\ KernelInv /\ TypeInv /\ MaskInv /\ ServiceInv /\ HeldInv
<1>1. Init => Inv
  <2>1. Init => MaskInv /\ ServiceInv /\ HeldInv
    BY DEF Init, MaskInv, ServiceInv, HeldInv
  <2> QED
    BY <2>1, FrameInit, TypeInvInit
<1>2. Inv /\ [Next]_vars => Inv'
  BY FrameStep, TypeInvStep, MaskStep, ServiceStep, HeldStep
<1>3. Inv => ControllersInStep
  <2> SUFFICES ASSUME Inv, pc \in {"run", "wait"}
               PROVE  /\ \A s \in pic.isr \ {2} :
                            \E i \in DOMAIN active :
                                active[i].vector = 32 + s /\ active[i].at # "return"
                      /\ (active = <<>> \/ Last(active).vector < 32) => pic.isr = {}
    BY DEF ControllersInStep, MaskInv, HeldInv, Held
  <2> DEFINE n == Len(active)
  <2>1. n \in Nat /\ active \in Seq(Activation) /\ DOMAIN active = 1..n /\ Last(active) = active[n]
    BY DEF FrameInv, Last
  <2>2. CASE pic.isr = {}
    BY <2>2
  <2>3. CASE active # <<>> /\ InService(active[n], pic.isr)
    <3>1. n \in DOMAIN active /\ active[n] \in Activation
      BY <2>1, <2>3
    <3>2. active[n].vector \in 0..47
      BY <3>1 DEF Activation
    <3>3. active[n].vector >= 32 /\ active[n].at # "return"
          /\ pic.isr \subseteq {2, active[n].vector - 32}
      BY <2>3 DEF InService
    <3> DEFINE v == active[n].vector
    <3>4. Last(active).vector = v
      BY <2>1, Zenon
    <3>5. v \in 0..47 /\ v >= 32 /\ pic.isr \subseteq {2, v - 32}
      BY <3>2, <3>3
    <3> HIDE DEF v
    <3>6. ~(v < 32)
      BY <3>5
    <3>7. ASSUME NEW s \in pic.isr \ {2}
          PROVE  v = 32 + s
      BY <3>5
    <3> HIDE DEF n
    <3> QED
      BY <2>3, <3>1, <3>3, <3>4, <3>6, <3>7, Zenon DEF v
  <2> QED
    BY <2>2, <2>3 DEF ServiceInv
<1> QED
  BY <1>1, <1>2, <1>3, Safety, PTL

(***************************************************************************)
(* The timer.                                                              *)
(***************************************************************************)

(* One tick can be latched and one entered.                                *)
LEMMA PendingTypes == Latched \in 0..1 /\ Entered \in 0..1
  BY DEF Latched, Entered

(* Nothing of a wait changes but what is on its way to the counter.        *)
LEMMA WaitKept ==
    ASSUME TypeInv, WaitInv, UNCHANGED <<hist, target_ticks, g_ticks>>,
           pc' = pc \/ pc' # "wait",
           Latched' + Entered' <= Latched + Entered
    PROVE  WaitInv'
<1> SUFFICES ASSUME pc' = "wait", ~hist.wraps
             PROVE  LET w == wait_ticks(hist.waited)
                    IN  /\ w \in 0..target_ticks
                        /\ w * SECOND = hist.waited * PIT_FREQUENCY
                        /\ Counted(w)'
  BY Zenon DEF WaitInv
<1> DEFINE w == wait_ticks(hist.waited)
<1>1. /\ w \in 0..target_ticks /\ w * SECOND = hist.waited * PIT_FREQUENCY
      /\ Counted(w)
  BY Zenon DEF WaitInv
<1> HIDE DEF w
<1>2. /\ hist.pulses \in Nat /\ g_ticks \in Nat /\ target_ticks \in Nat /\ w \in Nat
  BY <1>1 DEF TypeInv, HistType
<1>3. Latched \in 0..1 /\ Entered \in 0..1 /\ Latched' \in 0..1 /\ Entered' \in 0..1
  BY PendingTypes DEF Latched, Entered
<1> DEFINE l == Latched
           e == Entered
           y == Latched'
           z == Entered'
<1>4. l \in 0..1 /\ e \in 0..1 /\ y \in 0..1 /\ z \in 0..1 /\ y + z <= l + e
  BY <1>3
<1>5. \/ hist.pulses + 1 >= w
      \/ /\ target_ticks - w <= g_ticks
         /\ (g_ticks - (target_ticks - w)) + (l + e) <= hist.pulses + 1
  BY <1>1 DEF Counted
<1> HIDE DEF l, e, y, z
<1>6. \/ hist.pulses + 1 >= w
      \/ /\ target_ticks - w <= g_ticks
         /\ (g_ticks - (target_ticks - w)) + (y + z) <= hist.pulses + 1
  BY <1>2, <1>4, <1>5
<1>7. w' = w
  BY DEF w, wait_ticks
<1>8. Counted(w)'
  BY <1>6, <1>7 DEF Counted, y, z
<1> QED
  BY <1>1, <1>8 DEF w

(* A whole number of ticks makes up a wait that does not wrap.             *)
LEMMA WholeTicks ==
    ASSUME NEW m \in Nat, m * PIT_FREQUENCY < TICKS
    PROVE  wait_ticks(m) \in Nat /\ wait_ticks(m) * SECOND = m * PIT_FREQUENCY
<1> DEFINE F == PIT_FREQUENCY
           S == SECOND
           c == F \div S
<1>1. F \in Nat /\ S \in Nat /\ S > 0 /\ F % S = 0 /\ TICKS \in Nat \ {0}
  BY InterruptsAssumption
<1>2. c \in Nat /\ F = S * c
  BY <1>1
<1> HIDE DEF F, S, c
<1> DEFINE k == m * c
<1>3. k \in Nat /\ m * F = S * k
  <2>1. m * (S * c) = S * (m * c)
    BY <1>1, <1>2
  <2> QED
    BY <1>2, <2>1
<1> HIDE DEF k
<1> DEFINE p == S * k
           d == p \div S
<1>4. p \in Nat /\ p = S * d + (p % S) /\ p % S \in 0..(S - 1) /\ d \in Nat
  BY <1>1, <1>3
<1>5. d = k
  <2> DEFINE r == p % S
  <2>1. r \in Nat /\ r < S /\ S * k = S * d + r
    BY <1>1, <1>4
  <2> HIDE DEF r, d
  <2>2. ASSUME k > d PROVE FALSE
    <3>1. S * k >= S * (d + 1)
      BY <1>1, <1>3, <1>4, <2>2
    <3>2. S * (d + 1) = S * d + S
      BY <1>1, <1>4
    <3> QED
      BY <1>1, <1>3, <1>4, <2>1, <3>1, <3>2
  <2>3. ASSUME k < d PROVE FALSE
    <3>1. S * d >= S * (k + 1)
      BY <1>1, <1>3, <1>4, <2>3
    <3>2. S * (k + 1) = S * k + S
      BY <1>1, <1>3
    <3> QED
      BY <1>1, <1>3, <1>4, <2>1, <3>1, <3>2
  <2> QED
    BY <1>3, <1>4, <2>2, <2>3
<1>6. (m * F) % TICKS = m * F
  <2>1. m * F \in Nat /\ m * F < TICKS
    BY <1>3, <1>4 DEF F
  <2> QED
    BY <1>1, <2>1
<1>7. wait_ticks(m) = ((m * F) % TICKS) \div S
  BY DEF wait_ticks, F, S
<1>8. wait_ticks(m) = k
  BY <1>3, <1>5, <1>6, <1>7
<1>9. k * S = S * k
  BY <1>1, <1>3
<1> QED
  BY <1>3, <1>8, <1>9 DEF F, S

(* A wait begins.                                                          *)
LEMMA WaitBegins ==
    ASSUME FrameInv, KernelInv, TypeInv, pit_wait
    PROVE  WaitInv'
<1>1. PICK m \in Waits :
            /\ target_ticks' = (g_ticks + wait_ticks(m)) % TICKS
            /\ hist' = [hist EXCEPT !.waited = m, !.pulses = 0,
                        !.wraps = g_ticks * SECOND + m * PIT_FREQUENCY >= TICKS * SECOND
                                  \/ m * PIT_FREQUENCY >= TICKS]
  BY DEF pit_wait
<1>2. active' = active /\ active = <<>> /\ g_ticks' = g_ticks
  BY DEF pit_wait, Client, machine_vars
<1>3. m \in Nat /\ TICKS \in Nat \ {0} /\ SECOND \in Nat \ {0} /\ PIT_FREQUENCY \in Nat
      /\ g_ticks \in 0..(TICKS - 1)
  BY InterruptsAssumption DEF TypeInv
<1> DEFINE b == g_ticks * SECOND + m * PIT_FREQUENCY >= TICKS * SECOND
                \/ m * PIT_FREQUENCY >= TICKS
           w == wait_ticks(m)
<1>4. hist'.waited = m /\ hist'.pulses = 0 /\ hist'.wraps = b
  <2> HIDE DEF b
  <2>1. hist' = [hist EXCEPT !.waited = m, !.pulses = 0, !.wraps = b]
    BY <1>1 DEF b
  <2> QED
    BY <2>1 DEF TypeInv, HistType
<1>5. SUFFICES ASSUME ~b PROVE w \in 0..target_ticks' /\ w * SECOND = m * PIT_FREQUENCY
                               /\ Counted(w)'
  <2> HIDE DEF b
  <2>1. b <=> hist'.wraps
    BY <1>4
  <2> QED
    BY <1>4, <1>5, <2>1, Zenon DEF WaitInv, w
<1> DEFINE p == m * PIT_FREQUENCY
           x == g_ticks * SECOND
           y == TICKS * SECOND
<1>6. p \in Nat /\ x \in Nat /\ y \in Nat
  BY <1>3
<1>7. p < TICKS /\ x + p < y
  <2>1. ~(x + p >= y) /\ ~(p >= TICKS)
    BY <1>5
  <2> HIDE DEF p, x, y
  <2> QED
    BY <1>3, <1>6, <2>1
<1>8. w \in Nat /\ w * SECOND = p
  BY <1>3, <1>7, WholeTicks
<1> HIDE DEF w
<1>9. g_ticks + w < TICKS
  <2>1. (g_ticks + w) * SECOND = x + p
    BY <1>3, <1>8
  <2>2. ASSUME g_ticks + w >= TICKS PROVE FALSE
    <3> DEFINE z == g_ticks + w
    <3>1. z \in Nat /\ z >= TICKS
      BY <1>3, <1>8, <2>2
    <3> HIDE DEF z
    <3>2. z * SECOND >= TICKS * SECOND
      BY <1>3, <3>1
    <3> QED
      BY <1>6, <1>7, <2>1, <3>2 DEF z
  <2> QED
    BY <1>3, <1>8, <2>2
<1>10. target_ticks' = g_ticks + w
  <2>1. (g_ticks + w) % TICKS = g_ticks + w
    BY <1>3, <1>8, <1>9
  <2> QED
    BY <1>1, <2>1 DEF w
<1>11. Entered' = 0 /\ Latched' \in 0..1
  BY <1>2 DEF Entered, Latched
<1>12. Counted(w)'
  <2> DEFINE l == Latched'
             e == Entered'
             t == target_ticks'
             q == hist'.pulses
  <2>1. l \in 0..1 /\ e = 0 /\ t = g_ticks + w /\ q = 0
    BY <1>4, <1>10, <1>11
  <2> HIDE DEF l, e, t, q
  <2>2. t - w <= g_ticks /\ (g_ticks - (t - w)) + (l + e) <= q + 1
    BY <1>3, <1>8, <2>1
  <2> QED
    BY <1>2, <2>2 DEF Counted, l, e, t, q
<1> QED
  BY <1>3, <1>8, <1>10, <1>12

(* A tick that was entered is counted, or the counter has no handler.      *)
LEMMA TickCounted ==
    ASSUME TypeInv, WaitInv, UNCHANGED <<hist, target_ticks, pc>>,
           Latched' = Latched, Entered = 1, Entered' = 0,
           g_ticks' = (g_ticks + 1) % TICKS
    PROVE  WaitInv'
<1> SUFFICES ASSUME pc = "wait", ~hist.wraps
             PROVE  LET w == wait_ticks(hist.waited)
                    IN  /\ w \in 0..target_ticks
                        /\ w * SECOND = hist.waited * PIT_FREQUENCY
                        /\ Counted(w)'
  BY Zenon DEF WaitInv
<1> DEFINE w == wait_ticks(hist.waited)
<1>1. /\ w \in 0..target_ticks /\ w * SECOND = hist.waited * PIT_FREQUENCY
      /\ Counted(w)
  BY Zenon DEF WaitInv
<1> HIDE DEF w
<1>2. /\ hist.pulses \in Nat /\ g_ticks \in 0..(TICKS - 1) /\ target_ticks \in 0..(TICKS - 1)
      /\ TICKS \in Nat \ {0}
  BY InterruptsAssumption DEF TypeInv, HistType
<1> DEFINE l == Latched
           t == target_ticks
           p == hist.pulses
           g == g_ticks
           h == (g + 1) % TICKS
<1>3. l \in 0..1 /\ t \in 0..(TICKS - 1) /\ p \in Nat /\ g \in 0..(TICKS - 1) /\ w \in 0..t
  BY <1>1, <1>2, PendingTypes
<1>4. p + 1 >= w \/ (t - w <= g /\ (g - (t - w)) + (l + 1) <= p + 1)
  BY <1>1 DEF Counted
<1>5. g_ticks' = h
  OBVIOUS
<1> HIDE DEF l, t, p, g, h
<1>6. g < TICKS - 1 => h = g + 1
  BY <1>2, <1>3 DEF h
<1>7. p + 1 >= w \/ (t - w <= h /\ (h - (t - w)) + (l + 0) <= p + 1)
  <2>1. CASE g < TICKS - 1
    BY <1>2, <1>3, <1>4, <1>6, <2>1
  <2>2. CASE g = TICKS - 1
    BY <1>2, <1>3, <1>4, <2>2
  <2> QED
    BY <1>2, <1>3, <2>1, <2>2
<1>8. w' = w
  BY DEF w, wait_ticks
<1>9. Counted(w)'
  BY <1>5, <1>7, <1>8 DEF Counted, l, t, p
<1> QED
  BY <1>1, <1>9 DEF w

(* A pulse of the timer.                                                   *)
LEMMA PulseCounted ==
    ASSUME KernelInv, TypeInv, WaitInv, request(0)
    PROVE  WaitInv'
<1>1. /\ 0 \notin pic.irr /\ pic' = [pic EXCEPT !.irr = @ \cup {0}]
      /\ UNCHANGED <<active, g_ticks, pc, target_ticks>>
      /\ hist' = IF pc = "wait" /\ hist.pulses < TICKS
                 THEN [hist EXCEPT !.pulses = @ + 1] ELSE hist
  BY DEF request, machine_vars, kernel_vars
<1>2. Latched = 0 /\ Latched' = 1 /\ Entered' = Entered
  <2>1. pic'.irr = pic.irr \cup {0}
    BY <1>1 DEF KernelInv, PicState
  <2> QED
    BY <1>1, <2>1 DEF Latched, Entered
<1>3. /\ hist.pulses \in Nat /\ g_ticks \in 0..(TICKS - 1) /\ target_ticks \in 0..(TICKS - 1)
      /\ TICKS \in Nat \ {0} /\ hist \in HistType
  BY InterruptsAssumption DEF TypeInv, HistType
<1>4. SUFFICES ASSUME pc = "wait", ~hist'.wraps
             PROVE  LET w == wait_ticks(hist.waited)
                    IN  /\ w \in 0..target_ticks
                        /\ w * SECOND = hist.waited * PIT_FREQUENCY
                        /\ hist'.waited = hist.waited
                        /\ Counted(w)'
  BY <1>1, Zenon DEF WaitInv, wait_ticks
<1>5. /\ hist'.wraps = hist.wraps /\ hist'.waited = hist.waited
      /\ hist'.pulses = IF hist.pulses < TICKS THEN hist.pulses + 1 ELSE hist.pulses
  BY <1>1, <1>3, <1>4 DEF HistType
<1> DEFINE w == wait_ticks(hist.waited)
<1>6. /\ w \in 0..target_ticks /\ w * SECOND = hist.waited * PIT_FREQUENCY
      /\ Counted(w)
  BY <1>4, <1>5, Zenon DEF WaitInv
<1> HIDE DEF w
<1> DEFINE e == Entered
           t == target_ticks
           p == hist.pulses
           g == g_ticks
           q == hist'.pulses
<1>7. e \in 0..1 /\ t \in 0..(TICKS - 1) /\ p \in Nat /\ g \in 0..(TICKS - 1) /\ w \in 0..t
      /\ q = IF p < TICKS THEN p + 1 ELSE p
  BY <1>3, <1>5, <1>6, PendingTypes
<1>8. p + 1 >= w \/ (t - w <= g /\ (g - (t - w)) + (0 + e) <= p + 1)
  BY <1>2, <1>6 DEF Counted
<1> HIDE DEF e, t, p, g, q
<1>9. q + 1 >= w \/ (t - w <= g /\ (g - (t - w)) + (1 + e) <= q + 1)
  BY <1>3, <1>7, <1>8
<1>10. w' = w
  BY <1>5 DEF w, wait_ticks
<1>11. Counted(w)'
  BY <1>1, <1>2, <1>9, <1>10 DEF Counted, e, t, g, q
<1> QED
  BY <1>5, <1>6, <1>11 DEF w

(* The count of a wait is inductive.                                       *)
LEMMA WaitStep ==
    ASSUME FrameInv, KernelInv, TypeInv, WaitInv, [Next]_vars
    PROVE  WaitInv'
<1>1. pic \in PicState
  BY DEF KernelInv
<1>2. CASE UNCHANGED vars
  <2>1. Latched' = Latched /\ Entered' = Entered
    BY <1>2 DEF vars, Latched, Entered
  <2>2. Latched' + Entered' <= Latched + Entered
    BY <2>1, PendingTypes
  <2> QED
    BY <1>2, <2>2, WaitKept DEF vars
<1>3. ASSUME UNCHANGED <<hist, target_ticks, g_ticks>>, pc' = pc \/ pc' # "wait",
             Latched' = Latched \/ Latched' = 0, Entered' = Entered \/ Entered' = 0
      PROVE  WaitInv'
  <2>1. Latched' + Entered' <= Latched + Entered
    BY <1>3, PendingTypes
  <2> QED
    BY <1>3, <2>1, WaitKept
<1>4. CASE KernelSteps
  <2>1. ASSUME pc' # "wait" PROVE WaitInv'
    BY <2>1 DEF WaitInv
  <2>2. CASE \/ gdt_init \/ idt_init \/ isr_install \/ irq_install \/ masks \/ pic_disable
             \/ pit_init \/ pit_wait_returns
    <3>1. pc' # "wait"
      BY <2>2 DEF gdt_init, idt_init, isr_install, irq_install, masks, pic_disable, pit_init,
             pit_wait_returns, Client
    <3> QED
      BY <2>1, <3>1
  <2>3. ASSUME NEW line \in Lines, line # 0, request(line) PROVE WaitInv'
    <3>1. UNCHANGED <<hist, target_ticks, g_ticks, pc, active>> /\ pic'.irr = pic.irr \cup {line}
      BY <1>1, <2>3 DEF request, machine_vars, kernel_vars, PicState
    <3>2. Latched' = Latched /\ Entered' = Entered
      BY <2>3, <3>1 DEF Latched, Entered
    <3> QED
      BY <1>3, <3>1, <3>2
  <2> QED
    BY <1>4, <2>2, <2>3, WaitBegins, PulseCounted DEF KernelSteps
<1>5. CASE pc # "panic" /\ (raise \/ \E line \in Lines : acknowledge(line) \/ spurious(line))
  <2>1. /\ UNCHANGED <<hist, target_ticks, g_ticks, pc>>
        /\ \A i \in DOMAIN active' : i = 1 \/ (i - 1 \in DOMAIN active
                                                   /\ active'[i] = active[i - 1])
    BY <1>5, EnterEffect
  <2>2. CASE active'[1].vector < 32 /\ UNCHANGED pic
    <3>1. active'[1].vector # 32
      BY <2>2
    <3>2. Entered' = Entered \/ Entered' = 0
      BY <2>1, <3>1 DEF Entered
    <3> QED
      BY <1>3, <2>1, <2>2, <3>2 DEF Latched
  <2>3. CASE active = <<>> /\ \E line \in Lines \cap pic.irr : \E q \in {{line}, {2, line}, {}, {2}} :
                    /\ pic' = [pic EXCEPT !.irr = @ \ {line}, !.isr = @ \cup q]
                    /\ \/ active'[1].vector = 32 + line
                          /\ q = (IF line < 8 THEN {line} ELSE {2, line})
                       \/ line # 0 /\ line < 8 /\ active'[1].vector = 39 /\ q = {}
                       \/ line # 0 /\ line >= 8 /\ active'[1].vector = 47 /\ q = {2}
    <3>1. PICK line \in Lines \cap pic.irr :
            /\ \E q : pic' = [pic EXCEPT !.irr = @ \ {line}, !.isr = @ \cup q]
            /\ active'[1].vector = 32 + line \/ (line # 0 /\ active'[1].vector \in {39, 47})
      BY <2>3
    <3>2. pic'.irr = pic.irr \ {line}
      BY <1>1, <3>1 DEF PicState
    <3>3. Entered = 0
      BY <2>3 DEF Entered
    <3>4. CASE line = 0
      <4>1. Latched = 1 /\ Latched' = 0
        BY <3>1, <3>2, <3>4 DEF Latched
      <4>2. Entered' \in 0..1
        BY DEF Entered
      <4>3. Latched' + Entered' <= Latched + Entered
        <5> DEFINE z == Entered'
        <5>1. z \in 0..1
          BY <4>2
        <5> HIDE DEF z
        <5>2. 0 + z <= 1 + 0
          BY <5>1
        <5> QED
          BY ONLY <3>3, <4>1, <5>2, Zenon DEF z
      <4> QED
        BY <2>1, <4>3, WaitKept
    <3>5. CASE line # 0
      <4>1. Latched' = Latched
        BY <3>2, <3>5 DEF Latched
      <4>2. active'[1].vector # 32
        <5>1. line \in 0..15
          BY InterruptsAssumption
        <5> QED
          BY <3>1, <3>5, <5>1
      <4>3. \A i \in DOMAIN active' : i = 1
        BY <2>1, <2>3
      <4>4. Entered' = 0
        BY <4>2, <4>3 DEF Entered
      <4> QED
        BY <1>3, <2>1, <4>1, <4>4
    <3> QED
      BY <3>4, <3>5
  <2> QED
    BY <1>5, <2>2, <2>3, EnterEffect
<1>6. CASE Handlers
  <2> DEFINE a == active[1]
             n == Len(active)
  <2>1. /\ UNCHANGED <<g_irq_handlers, target_ticks, hist>>
        /\ n \in Nat \ {0} /\ 1 \in DOMAIN active /\ a \in Activation /\ DOMAIN active = 1..n
        /\ a.vector >= 32 => n = 1
    BY <1>6, HandlerEffect
  <2>2. CASE pc' = "panic"
    BY <2>2 DEF WaitInv
  <2>3. ASSUME NEW place, place # "entered", Moves(place)
        PROVE  Entered' = Entered \/ Entered' = 0
    <3>1. /\ DOMAIN active' = DOMAIN active /\ active'[1].at # "entered"
          /\ \A i \in DOMAIN active : i # 1 => active'[i] = active[i]
      BY <2>3 DEF Moves
    <3>2. (\E i \in DOMAIN active' : active'[i].vector = 32 /\ active'[i].at = "entered")
            => \E i \in DOMAIN active : active[i].vector = 32 /\ active[i].at = "entered"
      BY <3>1, Zenon
    <3> QED
      BY <3>2 DEF Entered
  <2>4. CASE UNCHANGED <<pc, pic, g_ticks>> /\ (Moves("body") \/ Moves("return") \/ Moves("eoi"))
    <3>1. Latched' = Latched /\ (Entered' = Entered \/ Entered' = 0)
      BY <2>3, <2>4 DEF Latched
    <3> QED
      BY <1>3, <2>1, <2>4, <3>1
  <2>5. CASE /\ UNCHANGED <<pc, pic>> /\ a.vector >= 32
             /\ a.at = "entered" /\ (Moves("body") \/ Moves("eoi"))
             /\ g_ticks' = IF g_irq_handlers[a.vector - 32] = "pit_handler"
                           THEN (g_ticks + 1) % TICKS ELSE g_ticks
    <3>1. Latched' = Latched
      BY <2>5 DEF Latched
    <3>2. Entered' = 0
      <4>1. DOMAIN active' = DOMAIN active /\ active'[1].at # "entered"
        BY <2>5 DEF Moves
      <4>2. \A i \in DOMAIN active' : i = 1
        BY <2>1, <2>5, <4>1
      <4> QED
        BY <4>1, <4>2 DEF Entered
    <3>3. CASE g_ticks' = g_ticks
      BY <1>3, <2>1, <2>5, <3>1, <3>2, <3>3
    <3>4. CASE g_ticks' = (g_ticks + 1) % TICKS /\ g_irq_handlers[a.vector - 32] = "pit_handler"
      <4> DEFINE v == a.vector
      <4>1. v \in 0..47 /\ v >= 32
        BY <2>1, <2>5 DEF Activation
      <4>2. v - 32 \notin 1..15
        BY <3>4 DEF TypeInv
      <4>3. v = 32
        <5> HIDE DEF v
        <5> QED
          BY <4>1, <4>2
      <4>4. Entered = 1
        BY <2>1, <2>5, <4>3 DEF Entered
      <4> QED
        BY <2>1, <2>5, <3>1, <3>2, <3>4, <4>4, TickCounted
    <3> QED
      BY <2>5, <3>3, <3>4
  <2>6. CASE /\ UNCHANGED <<pc, g_ticks>> /\ Moves("return")
             /\ pic' = [pic EXCEPT !.isr = pic_send_eoi(a.vector - 32)]
    <3>1. pic'.irr = pic.irr
      BY <1>1, <2>6 DEF PicState
    <3>2. Latched' = Latched /\ (Entered' = Entered \/ Entered' = 0)
      BY <2>3, <2>6, <3>1 DEF Latched
    <3> QED
      BY <1>3, <2>1, <2>6, <3>2
  <2>7. CASE /\ UNCHANGED <<pc, pic, g_ticks>>
             /\ \A i \in DOMAIN active' : i + 1 \in DOMAIN active /\ active'[i] = active[i + 1]
    <3>1. Latched' = Latched
      BY <2>7 DEF Latched
    <3>2. Entered' = Entered \/ Entered' = 0
      BY <2>7 DEF Entered
    <3> QED
      BY <1>3, <2>1, <2>7, <3>1, <3>2
  <2> QED
    BY <1>6, <2>2, <2>4, <2>5, <2>6, <2>7, HandlerEffect
<1> QED
  BY <1>2, <1>4, <1>5, <1>6, Kinds

(* pit_wait of pit.c does not return before the timer has given the pulses *)
(* that the milliseconds stand for, one of which may have been latched     *)
(* before the call, whatever handlers run in between, unless the 32-bit    *)
(* counter or the product wraps.                                           *)
THEOREM WaitTheorem == Spec => WaitsLongEnough
<1> DEFINE Inv == FrameInv /\ KernelInv /\ TypeInv /\ WaitInv
           Long == pit_wait_returns =>
                     hist.wraps \/ (hist.pulses + 1) * SECOND >= hist.waited * PIT_FREQUENCY
<1>1. Init => Inv
  <2>1. Init => WaitInv
    BY DEF Init, WaitInv
  <2> QED
    BY <2>1, FrameInit, TypeInvInit
<1>2. Inv /\ [Next]_vars => Inv'
  BY FrameStep, TypeInvStep, WaitStep
<1>3. Inv => Long
  <2> SUFFICES ASSUME Inv, pit_wait_returns, ~hist.wraps
               PROVE  (hist.pulses + 1) * SECOND >= hist.waited * PIT_FREQUENCY
    OBVIOUS
  <2> DEFINE w == wait_ticks(hist.waited)
             p == hist.pulses
             s == SECOND
  <2>1. pc = "wait" /\ g_ticks >= target_ticks
    BY DEF pit_wait_returns, reached
  <2>2. w \in 0..target_ticks /\ w * s = hist.waited * PIT_FREQUENCY /\ Counted(w)
    BY <2>1, Zenon DEF WaitInv
  <2>3. /\ p \in Nat /\ g_ticks \in Nat /\ target_ticks \in Nat
        /\ s \in Nat /\ Latched \in 0..1 /\ Entered \in 0..1
    BY InterruptsAssumption, PendingTypes DEF TypeInv, HistType
  <2> HIDE DEF w, p, s
  <2>4. p + 1 >= w
    BY <2>1, <2>2, <2>3 DEF Counted, p
  <2>5. (p + 1) * s >= w * s
    BY <2>2, <2>3, <2>4
  <2> QED
    BY <2>2, <2>5 DEF p, s
<1>4. Inv /\ [Next]_vars => [Long]_vars
  BY <1>3
<1> HIDE DEF Inv, Long
<1>5. Spec => [][Long]_vars
  BY <1>1, <1>2, <1>4, Safety, PTL
<1> QED
  BY <1>5 DEF WaitsLongEnough, Long
=============================================================================
