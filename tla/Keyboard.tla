------------------------------ MODULE Keyboard ------------------------------
(***************************************************************************)
(* The keyboard from the key to the screen: the PS/2 controller and the    *)
(* interrupt controller (external), irq_handler of idt.c, the driver       *)
(* keyboard.c with its cyclic buffer, and the loop of kernel_main that     *)
(* consumes the events.                                                    *)
(*                                                                         *)
(* Two threads of control share the buffer: kernel_main and the handler    *)
(* that interrupts it.  The gates are interrupt gates and the stubs run    *)
(* with interrupts off, so the handler runs to its end before kernel_main  *)
(* goes on; kernel_main can be interrupted between any two instructions.   *)
(* Each of its steps below makes one access to what is shared, but for the *)
(* comparison of head and tail: the handler never makes them equal, so a   *)
(* comparison torn by an interrupt has the outcome of one before or after  *)
(* it.  kmemcpy copies byte by byte: here in two parts, the scancode and   *)
(* the flags.                                                              *)
(***************************************************************************)
EXTENDS KBuffer, SequencesExt, FiniteSets

CONSTANTS
    KEYS,           \* scancodes of the keys that may be used
    REPEATING,      \* the keys that repeat while they are held down
    MAX_TYPED,      \* bound on the number of key strokes and releases
    EARLY_KEYS      \* whether keys may be used before the driver is ready

ASSUME KeyboardAssumption ==
    /\ KEYS \subseteq Nat
    /\ REPEATING \subseteq KEYS
    /\ MAX_TYPED \in Nat
    /\ EARLY_KEYS \in BOOLEAN

(* keyboard_scancode_t                                                     *)
SCANCODE_LEFT_CTRL == 29
SCANCODE_LEFT_SHIFT == 42
SCANCODE_RIGHT_SHIFT == 54
SCANCODE_LEFT_ALT == 56
SCANCODE_CAPS_LOCK == 58
EXTENDED_SCANCODE_PREFIX == 224
PREFIXED == EXTENDED_SCANCODE_PREFIX * 256
SCANCODE_RIGHT_CTRL == PREFIXED + 29
SCANCODE_RIGHT_ALT == PREFIXED + 56

RELEASED_SCANCODE_MASK == 128

(* The scancodes of keyboard_scancode_t: seven bits, with or without the   *)
(* prefix.  96 is none: its release would be the byte of the prefix.       *)
ASSUME ScancodeAssumption ==
    \A key \in KEYS :
        \E code \in (0..(RELEASED_SCANCODE_MASK - 1)) \ {96} :
            key \in {code, PREFIXED + code}

(* The scancodes with an entry in SCANCODE_TO_ASCII, and the ones that     *)
(* have one in SCANCODE_TO_ASCII_SHIFT.  Escape, backspace, tab, enter,    *)
(* space and the key pad are in the first only.                            *)
Shifted == (2..13) \cup (16..27) \cup (30..41) \cup (43..53)
Plain == Shifted \cup {1, 14, 15, 28, 57} \cup (71..73) \cup (75..77) \cup (79..83)

VARIABLES
    \* external: the keyboard and its controller, the interrupt controller
    wire,               \* bytes the keyboard has yet to send
    output,             \* PS2_DATA_PORT, -1 when the status bit is clear
    requested,          \* IRQ 1 latched by an edge
    in_service,         \* IRQ 1 delivered and not yet acknowledged
    \* keyboard.c and idt.c
    installed,          \* g_irq_handlers[1] is keyboard_handler
    g_keyboard_buffer,
    g_extended_pending,
    modifiers,          \* g_shift_held, g_ctrl_held, g_alt_held, g_caps_locked
    irq,                \* position of the interrupt handler, "off" outside
    \* kernel_main
    pc,
    slot,               \* where the copy of cyclic_buffer_pop reads
    event,              \* the local variable of kernel_main
    tail,               \* the register between the load and the store of tail
    screen,             \* what was written, as pairs of scancode and case
    \* history
    typed,              \* what happened to the keys
    pushed,             \* events put into the buffer
    delivered,          \* events taken out of it
    overrun             \* an event was put into a full buffer

device_vars == <<wire, output, requested, typed>>
driver_vars == <<installed, g_keyboard_buffer, g_extended_pending, modifiers>>
handler_vars == <<irq, in_service>>
main_vars == <<pc, slot, event, tail, screen, delivered>>
vars == <<device_vars, driver_vars, handler_vars, main_vars, pushed, overrun>>

NoEvent == [n |-> 0, scancode |-> 0, is_pressed |-> FALSE, shift_held |-> FALSE,
            ctrl_held |-> FALSE, alt_held |-> FALSE, caps_locked |-> FALSE]

Init ==
    /\ wire = <<>>
    /\ output = -1
    /\ requested = FALSE
    /\ in_service = FALSE
    /\ installed = FALSE
    /\ g_keyboard_buffer = cyclic_buffer_init([i \in Slots |-> NoEvent])
    /\ g_extended_pending = FALSE
    /\ modifiers = [shift |-> FALSE, ctrl |-> FALSE, alt |-> FALSE, caps |-> FALSE]
    /\ irq = "off"
    /\ pc = "boot"
    /\ slot = 0
    /\ event = NoEvent
    /\ tail = 0
    /\ screen = <<>>
    /\ typed = <<>>
    /\ pushed = <<>>
    /\ delivered = <<>>
    /\ overrun = FALSE

(***************************************************************************)
(* The hardware.                                                           *)
(***************************************************************************)

(* The keys that are down after a sequence of strokes and releases.        *)
Down(strokes) ==
    FoldLeft(LAMBDA down, s : IF s.pressed THEN down \cup {s.key} ELSE down \ {s.key},
             {}, strokes)

Bytes(key, pressed) ==
    (IF key >= PREFIXED THEN <<EXTENDED_SCANCODE_PREFIX>> ELSE <<>>)
        \o <<(key % 256) + (IF pressed THEN 0 ELSE RELEASED_SCANCODE_MASK)>>

(* A key goes down, up, or repeats.                                        *)
Type ==
    /\ Len(typed) < MAX_TYPED
    /\ EARLY_KEYS \/ installed
    /\ \E key \in KEYS, pressed \in BOOLEAN :
        /\ key \in Down(typed) => ~pressed \/ key \in REPEATING
        /\ key \notin Down(typed) => pressed
        /\ typed' = Append(typed, [key |-> key, pressed |-> pressed])
        /\ wire' = wire \o Bytes(key, pressed)
    /\ UNCHANGED <<output, requested, driver_vars, handler_vars, main_vars,
                   pushed, overrun>>

(* A byte arrives in the controller: only once the one before was read.    *)
Transmit ==
    /\ wire # <<>>
    /\ output = -1
    /\ output' = Head(wire)
    /\ wire' = Tail(wire)
    /\ requested' = TRUE
    /\ UNCHANGED <<typed, driver_vars, handler_vars, main_vars, pushed, overrun>>

(***************************************************************************)
(* The interrupt.                                                          *)
(***************************************************************************)

(* irq_handler calls the handler if there is one.                          *)
irq_handler ==
    /\ irq = "off"
    /\ requested
    /\ ~in_service
    /\ requested' = FALSE
    /\ in_service' = TRUE
    /\ irq' = IF installed THEN "keyboard_handler" ELSE "eoi"
    /\ UNCHANGED <<wire, output, typed, driver_vars, main_vars, pushed, overrun>>

(* A modifier handler that takes a release for a press.                    *)
modifiers_sticky(scancode, is_released) ==
    IF scancode \in {SCANCODE_LEFT_SHIFT, SCANCODE_RIGHT_SHIFT}
    THEN [modifiers EXCEPT !.shift = TRUE]
    ELSE modifiers

modifiers_after(scancode, is_released) ==
    IF scancode \in {SCANCODE_LEFT_SHIFT, SCANCODE_RIGHT_SHIFT}
    THEN [modifiers EXCEPT !.shift = ~is_released]
    ELSE IF scancode \in {SCANCODE_LEFT_CTRL, SCANCODE_RIGHT_CTRL}
    THEN [modifiers EXCEPT !.ctrl = ~is_released]
    ELSE IF scancode \in {SCANCODE_LEFT_ALT, SCANCODE_RIGHT_ALT}
    THEN [modifiers EXCEPT !.alt = ~is_released]
    ELSE IF scancode = SCANCODE_CAPS_LOCK /\ ~is_released
    THEN [modifiers EXCEPT !.caps = ~@]
    ELSE modifiers

handle_scancode(raw_scancode, extended) ==
    LET is_released == raw_scancode >= RELEASED_SCANCODE_MASK
        scancode == (IF extended THEN PREFIXED ELSE 0)
                        + (raw_scancode % RELEASED_SCANCODE_MASK)
        now == modifiers_after(scancode, is_released)
        new == [n |-> Len(pushed) + 1, scancode |-> scancode,
                is_pressed |-> ~is_released, shift_held |-> now.shift,
                ctrl_held |-> now.ctrl, alt_held |-> now.alt,
                caps_locked |-> now.caps]
    IN  /\ modifiers' = now
        /\ g_keyboard_buffer' = cyclic_buffer_push(g_keyboard_buffer, new)
        /\ pushed' = Append(pushed, new)
        /\ overrun' = (overrun \/ cyclic_buffer_is_full(g_keyboard_buffer))

(* One iteration of the loop: it ends when the controller has nothing, and *)
(* returns after a prefix byte.  The key code follows with an interrupt of *)
(* its own.                                                                *)
keyboard_handler ==
    /\ irq = "keyboard_handler"
    /\ output' = -1
    /\ \/ /\ output = -1
          /\ irq' = "eoi"
          /\ UNCHANGED <<driver_vars, pushed, overrun>>
       \/ /\ output = EXTENDED_SCANCODE_PREFIX
          /\ g_extended_pending' = TRUE
          /\ irq' = "eoi"
          /\ UNCHANGED <<installed, g_keyboard_buffer, modifiers, pushed, overrun>>
       \/ /\ output \notin {-1, EXTENDED_SCANCODE_PREFIX}
          /\ handle_scancode(output, g_extended_pending)
          /\ g_extended_pending' = FALSE
          /\ UNCHANGED <<installed, irq>>
    /\ UNCHANGED <<wire, requested, typed, in_service, main_vars>>

(* pic_send_eoi, and the return from the interrupt.                        *)
eoi_forgotten == irq = "eoi" /\ irq' = "off" /\ UNCHANGED in_service

pic_send_eoi == irq = "eoi" /\ irq' = "off" /\ in_service' = FALSE

irq_return ==
    /\ pic_send_eoi
    /\ UNCHANGED <<device_vars, driver_vars, main_vars, pushed, overrun>>

(***************************************************************************)
(* kernel_main: keyboard_init, then the loop.                              *)
(***************************************************************************)

(* keyboard_init in three steps.  pic_remap has left every line unmasked,  *)
(* so pic_clear_mask changes nothing.                                      *)
keyboard_init_buffer ==
    /\ pc = "boot"
    /\ g_keyboard_buffer' = cyclic_buffer_init(g_keyboard_buffer.buffer)
    /\ pc' = "irq_install"
    /\ UNCHANGED <<installed, g_extended_pending, modifiers, slot, event, tail,
                   screen, delivered>>

irq_install ==
    /\ pc = "irq_install"
    /\ installed' = TRUE
    /\ pc' = "has_event"
    /\ UNCHANGED <<g_keyboard_buffer, g_extended_pending, modifiers, slot, event,
                   tail, screen, delivered>>

(* The three checks in a row: of the loop, of keyboard_get_event and of    *)
(* cyclic_buffer_pop.  kernel_main ignores the results of the last two and *)
(* would go on with an event that was never written.                       *)
Checks == <<"has_event", "get_event", "pop">>

check_event ==
    /\ \E i \in 1..3 :
        /\ pc = Checks[i]
        /\ IF cyclic_buffer_is_empty(g_keyboard_buffer)
           THEN pc' = IF i = 1 THEN "has_event" ELSE "use"
           ELSE pc' = IF i = 3 THEN "copy" ELSE Checks[i + 1]
    /\ event' = NoEvent
    /\ UNCHANGED <<driver_vars, slot, tail, screen, delivered>>

(* The copy out of the buffer: its address, then its two parts.            *)
copy_source ==
    /\ pc = "copy"
    /\ slot' = g_keyboard_buffer.tail
    /\ pc' = "copy scancode"
    /\ UNCHANGED <<driver_vars, event, tail, screen, delivered>>

copy_scancode ==
    /\ pc = "copy scancode"
    /\ event' = [event EXCEPT !.scancode = g_keyboard_buffer.buffer[slot].scancode,
                              !.n = g_keyboard_buffer.buffer[slot].n]
    /\ pc' = "copy flags"
    /\ UNCHANGED <<driver_vars, slot, tail, screen, delivered>>

(* A copy with parts of two events is marked by the number 0.              *)
copy_flags ==
    /\ pc = "copy flags"
    /\ LET source == g_keyboard_buffer.buffer[slot]
       IN  event' = [source EXCEPT !.scancode = event.scancode,
                                   !.n = IF @ = event.n THEN @ ELSE 0]
    /\ pc' = "load tail"
    /\ UNCHANGED <<driver_vars, slot, tail, screen, delivered>>

load_tail ==
    /\ pc = "load tail"
    /\ tail' = g_keyboard_buffer.tail
    /\ pc' = "store tail"
    /\ UNCHANGED <<driver_vars, slot, event, screen, delivered>>

(* A pop that leaves the event in the buffer when the index wraps.         *)
tail_unwrapped(index) == IF index + 1 = CAPACITY THEN index ELSE index + 1

tail_after(index) == NextSlot(index)

store_tail ==
    /\ pc = "store tail"
    /\ g_keyboard_buffer' = [g_keyboard_buffer EXCEPT !.tail = tail_after(tail)]
    /\ delivered' = Append(delivered, event)
    /\ pc' = "use"
    /\ UNCHANGED <<installed, g_extended_pending, modifiers, slot, event, tail, screen>>

(* keyboard_scancode_to_ascii: which table, and whether it has an entry.   *)
UsesShift(e) == e.shift_held \/ e.caps_locked

HasAscii(e) ==
    /\ e.scancode < 128
    /\ e.scancode \in IF UsesShift(e) THEN Shifted ELSE Plain

(* The rest of the loop: releases and keys without a character are         *)
(* skipped.                                                                *)
use_event ==
    /\ pc = "use"
    /\ screen' = IF event.is_pressed /\ HasAscii(event)
                 THEN Append(screen, <<event.scancode, UsesShift(event)>>)
                 ELSE screen
    /\ pc' = "has_event"
    /\ UNCHANGED <<driver_vars, slot, event, tail, delivered>>

(* kernel_main runs when no interrupt handler does.                        *)
Main ==
    /\ irq = "off"
    /\ \/ keyboard_init_buffer
       \/ irq_install
       \/ check_event
       \/ copy_source
       \/ copy_scancode
       \/ copy_flags
       \/ load_tail
       \/ store_tail
       \/ use_event
    /\ UNCHANGED <<device_vars, handler_vars, pushed, overrun>>

Interrupt == irq_handler \/ keyboard_handler \/ irq_return

Next == Type \/ Transmit \/ Interrupt \/ Main

Spec == Init /\ [][Next]_vars

(* The controller sends what it has, a requested interrupt is taken (they  *)
(* are enabled outside the handler) and runs to its end, and kernel_main   *)
(* keeps running in between.                                               *)
FairSpec == Spec /\ WF_vars(Transmit) /\ WF_vars(Interrupt) /\ WF_vars(Main)

(***************************************************************************)
(* What the keyboard promises.                                             *)
(***************************************************************************)

Stroke == [key : KEYS, pressed : BOOLEAN]
Event == [n : 0..MAX_TYPED, scancode : KEYS \cup {0}, is_pressed : BOOLEAN,
          shift_held : BOOLEAN, ctrl_held : BOOLEAN, alt_held : BOOLEAN,
          caps_locked : BOOLEAN]

TypeOK ==
    /\ wire \in Seq(0..255)
    /\ output \in -1..255
    /\ requested \in BOOLEAN
    /\ in_service \in BOOLEAN
    /\ installed \in BOOLEAN
    /\ g_keyboard_buffer \in [buffer : [Slots -> Event], head : Slots, tail : Slots]
    /\ g_extended_pending \in BOOLEAN
    /\ modifiers \in [shift : BOOLEAN, ctrl : BOOLEAN, alt : BOOLEAN, caps : BOOLEAN]
    /\ irq \in {"off", "keyboard_handler", "eoi"}
    /\ pc \in {"boot", "irq_install", "has_event", "get_event", "pop", "copy",
               "copy scancode", "copy flags", "load tail", "store tail", "use"}
    /\ slot \in Slots
    /\ event \in Event
    /\ tail \in Slots
    /\ screen \in Seq(KEYS \X BOOLEAN)
    /\ typed \in Seq(Stroke)
    /\ pushed \in Seq(Event)
    /\ delivered \in Seq(Event)
    /\ overrun \in BOOLEAN

(* Whatever the interrupts interrupt: as long as no event was put into a   *)
(* full buffer, the events taken out and the events in it are the events   *)
(* put in, whole, in order, each once.                                     *)
FifoUnlessOverrun ==
    ~overrun => delivered \o Contents(g_keyboard_buffer) = pushed

(* The answer of keyboard_has_event is still true when keyboard_get_event  *)
(* and cyclic_buffer_pop check again, in a full buffer too, so kernel_main *)
(* never uses an event that was not written.                               *)
CheckStaysTrue ==
    pc \in {"get_event", "pop", "copy", "copy scancode", "copy flags",
            "load tail", "store tail"}
        => ~cyclic_buffer_is_empty(g_keyboard_buffer)

(* What a user expects to see: each stroke of a key with a character, in   *)
(* its case at the time of the stroke.                                     *)
CapsOn(strokes) ==
    Len(SelectSeq(strokes, LAMBDA s : s.key = SCANCODE_CAPS_LOCK /\ s.pressed)) % 2 = 1

ShiftDown(strokes) ==
    Down(strokes) \cap {SCANCODE_LEFT_SHIFT, SCANCODE_RIGHT_SHIFT} # {}

Character(strokes, i) ==
    <<strokes[i].key,
      LET before == SubSeq(strokes, 1, i) IN ShiftDown(before) \/ CapsOn(before)>>

Text(strokes) ==
    FoldLeft(LAMBDA text, i :
                IF strokes[i].pressed /\ strokes[i].key \in Plain
                THEN Append(text, Character(strokes, i))
                ELSE text,
             <<>>, [i \in 1..Len(strokes) |-> i])

(* From end to end: the screen shows what was typed so far, or the first   *)
(* part of it, across interrupts, prefixes and the buffer.                 *)
ScreenShowsText == ~overrun => IsPrefix(screen, Text(typed))

(* Every stroke gets through: none stays in the controller for want of an  *)
(* interrupt, and none stays in the buffer.  A key that is used before the *)
(* driver's handler is installed is another matter: its byte stays unread  *)
(* in the controller, which raises no further interrupt.                   *)
StrokesArrive ==
    [](~installed => typed = <<>>) =>
        \A n \in 1..MAX_TYPED :
            (Len(typed) >= n) ~> (Len(delivered) >= n \/ overrun)
=============================================================================
