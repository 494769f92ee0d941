------------------------------ MODULE KBuffer ------------------------------
(***************************************************************************)
(* The cyclic buffer of kernel/src/lib/kbuffer.c, as operators on the      *)
(* record of its fields.  The functions' NULL checks are left out: their   *)
(* only caller passes the addresses of variables.  cyclic_buffer_pop is    *)
(* not here: it can be interrupted between its loads and stores, so the    *)
(* module that uses the buffer takes it apart.                             *)
(***************************************************************************)
EXTENDS Integers, Sequences

CONSTANT CAPACITY       \* KEYBOARD_BUFFER_SIZE: 256 in keyboard.c

ASSUME KBufferAssumption == CAPACITY \in Nat \ {0}

Slots == 0..(CAPACITY - 1)

(* An index that does not wrap.                                            *)
slot_unwrapped(slot) == slot + 1

NextSlot(slot) == (slot + 1) % CAPACITY

cyclic_buffer_init(buffer) == [buffer |-> buffer, head |-> 0, tail |-> 0]

cyclic_buffer_is_full(cb) == NextSlot(cb.head) = cb.tail

cyclic_buffer_is_empty(cb) == cb.head = cb.tail

cyclic_buffer_size(cb) == ((cb.head + CAPACITY) - cb.tail) % CAPACITY

(* A push that lets the head run into the tail.                            *)
push_keeps_tail(cb, element) ==
    [buffer |-> [cb.buffer EXCEPT ![cb.head] = element],
     head |-> NextSlot(cb.head),
     tail |-> cb.tail]

(* A full buffer drops its oldest element.                                 *)
cyclic_buffer_push(cb, element) ==
    [buffer |-> [cb.buffer EXCEPT ![cb.head] = element],
     head |-> NextSlot(cb.head),
     tail |-> IF cyclic_buffer_is_full(cb) THEN NextSlot(cb.tail) ELSE cb.tail]

(* The elements, oldest first.                                             *)
Contents(cb) ==
    [i \in 1..cyclic_buffer_size(cb) |-> cb.buffer[(cb.tail + i - 1) % CAPACITY]]
=============================================================================
