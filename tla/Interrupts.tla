----------------------------- MODULE Interrupts -----------------------------
(***************************************************************************)
(* How an exception or a device reaches its handler and how the kernel     *)
(* gets back: the descriptors, the stubs of idt.s, isr_handler and         *)
(* irq_handler of idt.c, the two interrupt controllers of pic.c and the    *)
(* timer of pit.c, with the kernel as a client of all of them.             *)
(*                                                                         *)
(* The stack is a sequence of words, its top first.  Code that runs at     *)
(* depth d of nested interrupts has the registers of Context(d), so that a *)
(* register that is not restored shows.  A handler's body may itself raise *)
(* an exception; the controllers interrupt the kernel only.                *)
(***************************************************************************)
EXTENDS Descriptors, SequencesExt, FiniteSets, FiniteSetsExt

CONSTANTS
    Lines,          \* the lines with a device, the timer's 0 among them
    Exceptions,     \* the exceptions that may be raised
    Waits,          \* arguments of pit_wait
    TICKS,          \* the values of g_ticks: 2^32
    PIT_FREQUENCY,  \* 1000
    SECOND,         \* milliseconds of a second: 1000
    MAX_CALLS       \* bound on calls and exceptions, and so on nesting

ASSUME InterruptsAssumption ==
    /\ Lines \subseteq (0..15) \ {2} /\ 0 \in Lines
    /\ Exceptions \subseteq 0..31
    /\ Waits \subseteq Nat
    /\ TICKS \in Nat \ {0} /\ PIT_FREQUENCY \in Nat /\ SECOND \in Nat \ {0}
    \* a whole number of ticks in a millisecond
    /\ PIT_FREQUENCY % SECOND = 0

VARIABLES
    cpu,                \* the registers that an interrupt saves
    stack,
    active,             \* the stub activations, the innermost first
    pic,                \* external: irr, isr and the mask of each controller
    g_isr_handlers,     \* the exceptions that have one
    g_irq_handlers,
    g_ticks,
    pc, target_ticks,   \* the kernel, and the local variable of pit_wait
    calls,
    hist                \* history: masks asked for, the wait, its pulses

vars == <<cpu, stack, active, pic, g_isr_handlers, g_irq_handlers, g_ticks, pc,
          target_ticks, calls, hist>>
machine_vars == <<cpu, stack, active>>
table_vars == <<g_isr_handlers, g_irq_handlers>>
kernel_vars == <<pc, target_ticks, calls>>

IF_FLAG == 512
ERROR_CODE == 77        \* what the processor pushes for an exception
CR2 == 5000
EXCEPTION_PAGE_FAULT == 14
NO_HANDLER == "none"

Context(depth) ==
    [eip |-> 1000 + depth, cs |-> GDT_KERNEL_CODE_SELECTOR, ds |-> GDT_KERNEL_DATA_SELECTOR,
     eflags |-> IF depth = 0 THEN IF_FLAG ELSE 0, regs |-> [i \in 1..8 |-> 10 * depth + i]]

(* The boot loader enters with interrupts off and segments of its own; the *)
(* firmware has used the controllers.                                      *)
Init ==
    /\ cpu = [Context(0) EXCEPT !.eflags = 0, !.cs = 0, !.ds = 0]
    /\ stack = <<>>
    /\ active = <<>>
    /\ pic = [irr |-> {}, isr |-> {}, mask |-> [chip \in 1..2 |-> {0, 7}], offset |-> <<8, 112>>]
    /\ g_isr_handlers = {}
    /\ g_irq_handlers = [irq \in 0..15 |-> NO_HANDLER]
    /\ g_ticks = 0
    /\ pc = "boot"
    /\ target_ticks = 0
    /\ calls = 0
    /\ hist = [closed |-> {}, waited |-> 0, pulses |-> 0, wraps |-> FALSE]

(***************************************************************************)
(* External: two 8259A controllers, the second on line 2 of the first.  A  *)
(* request is latched by its edge, and the lower line goes first.          *)
(***************************************************************************)

Chip(line) == IF line < 8 THEN 1 ELSE 2
Masked(line) ==
    \/ line % 8 \in pic.mask[Chip(line)]
    \/ line >= 8 /\ 2 \in pic.mask[1]

Rank(line) == IF line >= 8 THEN 2 * 8 + line ELSE line * 8 + (IF line > 2 THEN 8 ELSE 0)

(* Lines that a line in service, or the first controller's line 2, blocks. *)
Blocked(line) ==
    \E s \in pic.isr : IF line < 8 THEN s <= line
                       ELSE s <= 2 \/ (s >= 8 /\ s <= line)

Waiting(line) == line \in pic.irr /\ ~Masked(line)
First(line) == Waiting(line) /\ \A l \in pic.irr : Waiting(l) => Rank(line) <= Rank(l)

request(line) ==
    /\ pc # "panic"
    /\ line \notin pic.irr
    /\ pic' = [pic EXCEPT !.irr = @ \cup {line}]
    /\ hist' = IF line = 0 /\ pc = "wait" /\ hist.pulses < TICKS
               THEN [hist EXCEPT !.pulses = @ + 1] ELSE hist
    /\ UNCHANGED <<machine_vars, table_vars, g_ticks, kernel_vars>>

(***************************************************************************)
(* Entry: the processor's pushes, the stub's and the common stub's, up to  *)
(* the frame that isr_handler and irq_handler get.                         *)
(***************************************************************************)

(* Exceptions for which the processor pushes an error code.                *)
HasErrorCode == {8, 10, 11, 12, 13, 14, 17, 30}

enter(vector, error) ==
    LET gate == Gates[vector]
        processor == error \o <<cpu.eip, cpu.cs, cpu.eflags>>
        pusha == [i \in 1..8 |-> cpu.regs[i]]
        frame == <<CR2, cpu.ds>> \o pusha \o gate.pushes \o processor \o stack
    IN  /\ gate.common # "none"
        /\ stack' = frame
        /\ active' = <<[common |-> gate.common, vector |-> vector, at |-> "entered",
                        frame |-> Len(frame), error |-> error, saved |-> cpu]>> \o active
        /\ cpu' = Context(Len(active) + 1)

(* A field of isr_frame_t of the innermost activation: cr2, ds, the eight  *)
(* of pusha, int_no, err_code, eip, cs, eflags.                            *)
field(n) == stack[Len(stack) - Head(active).frame + n]
int_no == field(11)

acknowledge(line) ==
    /\ cpu.eflags = IF_FLAG
    /\ First(line) /\ ~Blocked(line)
    /\ pic' = [pic EXCEPT !.irr = @ \ {line},
                          !.isr = @ \cup (IF line < 8 THEN {line} ELSE {2, line})]
    /\ enter(pic.offset[Chip(line)] + (line % 8), <<>>)
    /\ UNCHANGED <<table_vars, g_ticks, kernel_vars, hist>>

(* A request that is gone when the processor asks for its vector: the      *)
(* controller gives its line 7, with nothing of its own in service.        *)
spurious(line) ==
    /\ cpu.eflags = IF_FLAG
    /\ line # 0 /\ First(line) /\ ~Blocked(line)
    /\ pic' = [pic EXCEPT !.irr = @ \ {line}, !.isr = @ \cup (IF line < 8 THEN {} ELSE {2})]
    /\ enter(pic.offset[Chip(line)] + 7, <<>>)
    /\ UNCHANGED <<table_vars, g_ticks, kernel_vars, hist>>

(* The kernel, or the body of a handler, raises an exception, at any depth *)
(* of nested handlers.                                                     *)
raise ==
    /\ calls < MAX_CALLS
    /\ IF active = <<>> THEN pc = "run" ELSE Head(active).at = "body"
    /\ \E vector \in Exceptions :
        enter(vector, IF vector \in HasErrorCode THEN <<ERROR_CODE>> ELSE <<>>)
    /\ calls' = calls + 1
    /\ UNCHANGED <<pic, table_vars, g_ticks, pc, target_ticks, hist>>

(***************************************************************************)
(* The handlers.                                                           *)
(***************************************************************************)

At(common, place) == active # <<>> /\ Head(active).common = common /\ Head(active).at = place
Go(place) == active' = [active EXCEPT ![1].at = place]

(* An exception without a handler, or one that is none, ends in kpanic.    *)
isr_handler ==
    /\ At("isr", "entered")
    /\ \/ /\ int_no < 32 /\ int_no \in g_isr_handlers
          /\ Go("body")
          /\ UNCHANGED pc
       \/ /\ ~(int_no < 32 /\ int_no \in g_isr_handlers)
          /\ pc' = "panic"
          /\ UNCHANGED active
    /\ UNCHANGED <<cpu, stack, pic, table_vars, g_ticks, target_ticks, calls, hist>>

isr_body_ends ==
    /\ At("isr", "body")
    /\ Go("return")
    /\ UNCHANGED <<cpu, stack, pic, table_vars, g_ticks, kernel_vars, hist>>

(* A counter that is wider than its type.                                  *)
pit_handler_wide == g_ticks' = g_ticks + 1

pit_handler == g_ticks' = (g_ticks + 1) % TICKS

irq == int_no - 32

irq_handler ==
    /\ At("irq", "entered")
    /\ IF g_irq_handlers[irq] = "pit_handler" THEN pit_handler ELSE UNCHANGED g_ticks
    /\ Go(IF g_irq_handlers[irq] = "driver" THEN "body" ELSE "eoi")
    /\ UNCHANGED <<cpu, stack, pic, table_vars, kernel_vars, hist>>

irq_body_ends ==
    /\ At("irq", "body")
    /\ Go("eoi")
    /\ UNCHANGED <<cpu, stack, pic, table_vars, g_ticks, kernel_vars, hist>>

(* The command ends the first line in service of a controller, if any.     *)
End(lines) == lines \ (IF lines = {} THEN {} ELSE {Min(lines)})

(* Without the second controller.                                          *)
pic_send_eoi_first(line) == End(pic.isr \cap (0..7)) \cup (pic.isr \cap (8..15))

pic_send_eoi(line) ==
    LET second == pic.isr \cap (8..15)
    IN  End(pic.isr \cap (0..7)) \cup (IF line >= 8 THEN End(second) ELSE second)

irq_handler_ends ==
    /\ At("irq", "eoi")
    /\ pic' = [pic EXCEPT !.isr = pic_send_eoi(irq)]
    /\ Go("return")
    /\ UNCHANGED <<cpu, stack, table_vars, g_ticks, kernel_vars, hist>>

(* What the common stub takes off the frame: cr2, ds, popa, the interrupt  *)
(* number and the error code; then iret.  The sti before it has no effect  *)
(* until iret has restored the flags.                                      *)
stub_words == 12

stub_return ==
    LET rest == SubSeq(stack, stub_words + 1, Len(stack))
    IN  /\ active # <<>> /\ Head(active).at = "return"
        /\ cpu' = [ds |-> stack[2], regs |-> SubSeq(stack, 3, 10),
                   eip |-> rest[1], cs |-> rest[2], eflags |-> rest[3]]
        /\ stack' = SubSeq(rest, 4, Len(rest))
        /\ active' = Tail(active)
        /\ UNCHANGED <<pic, table_vars, g_ticks, kernel_vars, hist>>

(***************************************************************************)
(* The kernel.                                                             *)
(***************************************************************************)

(* gdt_load reloads every segment register.                                *)
gdt_init ==
    /\ pc = "boot"
    /\ Segment(GDT_KERNEL_DATA_SELECTOR) = Flat("data")
    /\ Segment(GDT_KERNEL_CODE_SELECTOR) = Flat("code")
    /\ cpu' = [cpu EXCEPT !.cs = GDT_KERNEL_CODE_SELECTOR, !.ds = GDT_KERNEL_DATA_SELECTOR]
    /\ pc' = "gdt"
    /\ UNCHANGED <<stack, active, pic, table_vars, g_ticks, target_ticks, calls, hist>>

(* ICW1 forgets what was latched or in service; every line is unmasked.    *)
pic_remap(offset_1, offset_2) ==
    pic' = [irr |-> {}, isr |-> {}, mask |-> [chip \in 1..2 |-> {}],
            offset |-> <<offset_1, offset_2>>]

(* idt_load enables the interrupts.  The call of vmm_init that follows     *)
(* installs the page fault handler before anything can raise that fault.   *)
idt_init ==
    /\ pc = "gdt"
    /\ pic_remap(32, 40)
    /\ cpu' = [cpu EXCEPT !.eflags = IF_FLAG]
    /\ g_isr_handlers' = {EXCEPTION_PAGE_FAULT} \cap Exceptions
    /\ pc' = "run"
    /\ UNCHANGED <<stack, active, g_irq_handlers, g_ticks, target_ticks, calls, hist>>

Client ==
    /\ pc = "run" /\ active = <<>>
    /\ calls < MAX_CALLS
    /\ calls' = calls + 1

isr_install ==
    /\ Client
    /\ \E isr \in Exceptions :
        g_isr_handlers' \in {g_isr_handlers \cup {isr}, g_isr_handlers \ {isr}}
    /\ UNCHANGED <<machine_vars, pic, g_irq_handlers, g_ticks, pc, target_ticks, hist>>

(* irq_install and irq_uninstall                                           *)
irq_install ==
    /\ Client
    /\ \E line \in Lines, handler \in {"driver", NO_HANDLER} :
        g_irq_handlers' = [g_irq_handlers EXCEPT ![line] = handler]
    /\ UNCHANGED <<machine_vars, pic, g_isr_handlers, g_ticks, pc, target_ticks, hist>>

(* The bit in the register of the line's controller; without the `irq -= 8'*)
(* the shift leaves the byte.                                              *)
mask_bit_unshifted(line) == IF line < 8 THEN {line} ELSE {}

mask_bit(line) == {IF line < 8 THEN line ELSE line - 8}

pic_set_mask(line) == [pic.mask EXCEPT ![Chip(line)] = @ \cup mask_bit(line)]
pic_clear_mask(line) == [pic.mask EXCEPT ![Chip(line)] = @ \ mask_bit(line)]

masks ==
    /\ Client
    /\ \E line \in Lines \cup {2} :
        \/ /\ pic' = [pic EXCEPT !.mask = pic_set_mask(line)]
           /\ hist' = [hist EXCEPT !.closed = @ \cup {line}]
        \/ /\ pic' = [pic EXCEPT !.mask = pic_clear_mask(line)]
           /\ hist' = [hist EXCEPT !.closed = @ \ {line}]
    /\ UNCHANGED <<machine_vars, table_vars, g_ticks, pc, target_ticks>>

pic_disable ==
    /\ Client
    /\ pic' = [pic EXCEPT !.mask = [chip \in 1..2 |-> 0..7]]
    /\ hist' = [hist EXCEPT !.closed = 0..15]
    /\ UNCHANGED <<machine_vars, table_vars, g_ticks, pc, target_ticks>>

(* An interrupt in the middle of it finds a handler or finds none.         *)
pit_init ==
    /\ Client
    /\ g_irq_handlers' = [g_irq_handlers EXCEPT ![0] = "pit_handler"]
    /\ pic' = [pic EXCEPT !.mask = pic_clear_mask(0)]
    /\ hist' = [hist EXCEPT !.closed = @ \ {0}]
    /\ UNCHANGED <<machine_vars, g_isr_handlers, g_ticks, pc, target_ticks>>

(* The ticks to wait for; half of them.                                    *)
wait_ticks_short(milliseconds) == (((milliseconds * PIT_FREQUENCY) % TICKS) \div SECOND) \div 2

wait_ticks(milliseconds) == ((milliseconds * PIT_FREQUENCY) % TICKS) \div SECOND

pit_wait ==
    /\ Client
    /\ \E milliseconds \in Waits :
        /\ target_ticks' = (g_ticks + wait_ticks(milliseconds)) % TICKS
        /\ hist' = [hist EXCEPT !.waited = milliseconds, !.pulses = 0,
                        !.wraps = g_ticks * SECOND + milliseconds * PIT_FREQUENCY >= TICKS * SECOND
                                  \/ milliseconds * PIT_FREQUENCY >= TICKS]
    /\ pc' = "wait"
    /\ UNCHANGED <<machine_vars, pic, table_vars, g_ticks>>

(* A strict comparison.                                                    *)
past_target == g_ticks > target_ticks

reached == g_ticks >= target_ticks

pit_wait_returns ==
    /\ pc = "wait" /\ active = <<>>
    /\ reached
    /\ pc' = "run"
    /\ hist' = [hist EXCEPT !.waited = 0, !.pulses = 0, !.wraps = FALSE]
    /\ UNCHANGED <<machine_vars, pic, table_vars, g_ticks, target_ticks, calls>>

(* The kernel goes about something else, spins in pit_wait or has halted.  *)
idle == (active = <<>> \/ pc = "panic") /\ UNCHANGED vars

Handlers ==
    \/ pc # "panic" /\ isr_handler
    \/ pc # "panic" /\ (isr_body_ends \/ irq_handler \/ irq_body_ends \/ irq_handler_ends \/ stub_return)

Next ==
    \/ gdt_init \/ idt_init
    \/ isr_install \/ irq_install \/ masks \/ pic_disable
    \/ pit_init \/ pit_wait \/ pit_wait_returns
    \/ \E line \in Lines : request(line) \/ (pc # "panic" /\ (acknowledge(line) \/ spurious(line)))
    \/ pc # "panic" /\ raise
    \/ Handlers
    \/ idle

(* Code runs on and the timer keeps ticking.  The processor takes the      *)
(* first request at the next instruction: the timer's, and another one if  *)
(* it is the first again and again.  The ticks are a millisecond apart, so *)
(* that pit_wait compares many times between two of them and cannot miss   *)
(* one for ever.                                                           *)
Spec ==
    /\ Init
    /\ [][Next]_vars
    /\ WF_vars(gdt_init \/ idt_init \/ Handlers)
    /\ WF_vars(pc # "panic" /\ acknowledge(0))
    /\ \A line \in Lines \ {0} : SF_vars(pc # "panic" /\ acknowledge(line))
    /\ WF_vars(request(0))
    /\ SF_vars(pit_wait_returns)

(***************************************************************************)
(* What it promises.                                                       *)
(***************************************************************************)

TypeOK ==
    /\ stack \in Seq(Nat)
    /\ pic.irr \subseteq Lines /\ pic.isr \subseteq 0..15
    /\ g_isr_handlers \subseteq Exceptions
    /\ g_irq_handlers \in [0..15 -> {NO_HANDLER, "pit_handler", "driver"}]
    /\ g_ticks \in 0..(TICKS - 1) /\ target_ticks \in 0..(TICKS - 1)
    /\ pc \in {"boot", "gdt", "run", "wait", "panic"}

(* Whatever interrupts whatever, with an error code or without: the frame  *)
(* that isr_frame_t describes tells the handler the vector, the error code *)
(* and the interrupted code, the vector goes to the common stub of its     *)
(* kind, and code that goes on has its registers, flags and stack back.    *)
FramesTrue ==
    /\ pc \in {"run", "wait"} => cpu = Context(Len(active))
    /\ active = <<>> => stack = <<>>
    /\ \A i \in DOMAIN active :
        LET a == active[i]
            word(n) == stack[Len(stack) - a.frame + n]
        IN  /\ a.common = IF a.vector < 32 THEN "isr" ELSE "irq"
            /\ word(11) = a.vector
            /\ word(12) = IF a.error = <<>> THEN 0 ELSE ERROR_CODE
            /\ a.saved = [ds |-> word(2), regs |-> [r \in 1..8 |-> word(2 + r)],
                          eip |-> word(13), cs |-> word(14), eflags |-> word(15)]
            /\ a.saved.eflags = IF_FLAG <=> i = Len(active)

(* A line is in service exactly while its handler has yet to acknowledge   *)
(* it: no line stays blocked, and none is opened again in the middle of    *)
(* its handler, whatever exceptions nest in it.  A spurious interrupt,     *)
(* which has the vector of line 7 or 15 and no service of that line, is    *)
(* ended like a real one and ends no other line.  And the lines that are   *)
(* masked are the ones asked for.                                          *)
ControllersInStep ==
    pc \in {"run", "wait"} =>
        /\ \A s \in pic.isr \ {2} :
            \E i \in DOMAIN active : active[i].vector = 32 + s /\ active[i].at # "return"
        /\ (active = <<>> \/ Last(active).vector < 32) => pic.isr = {}
        /\ \A i \in DOMAIN active :
            LET line == active[i].vector - 32
            IN  active[i].vector >= 32 /\ active[i].at # "return" =>
                    /\ line \notin {7, 15} => line \in pic.isr
                    /\ line >= 8 => 2 \in pic.isr
        /\ \A line \in Lines \cup {2} : line % 8 \in pic.mask[Chip(line)] <=> line \in hist.closed

(* A request of an unmasked line is taken in the end, or masked, if again  *)
(* and again no handler runs and no line before it waits.                  *)
RequestsServed ==
    \A line \in Lines :
        ([]<>(active = <<>> /\ \A l \in pic.irr : Rank(l) < Rank(line) => ~Waiting(l)))
            => (Waiting(line) ~> (~Waiting(line) \/ pc = "panic"))

(* pit_wait lasts for the ticks asked for, of which one may have been      *)
(* latched before, unless the counter or the product wraps.                *)
WaitsLongEnough ==
    [][pit_wait_returns => hist.wraps \/ (hist.pulses + 1) * SECOND >= hist.waited * PIT_FREQUENCY]_vars

(* It returns if the timer was set up and its line is open, wraps or not.  *)
WaitEnds ==
    (pc = "wait" /\ g_irq_handlers[0] = "pit_handler" /\ ~Masked(0))
        ~> (pc # "wait")
=============================================================================
