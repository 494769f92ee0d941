--------------------------- MODULE KeyboardProofs ---------------------------
(***************************************************************************)
(* The driver turns every stroke into its event, and the buffer between    *)
(* the interrupt handler and kernel_main loses, repeats and tears none,    *)
(* for every capacity, every set of keys and every number of strokes.      *)
(*                                                                         *)
(* The argument for the buffer: the handler writes the slot at head and    *)
(* never makes the buffer empty, so while kernel_main is between the check *)
(* and the store of tail, the slot it reads is not the one that is         *)
(* written, and tail moves under its feet only when an event is put into a *)
(* full buffer.                                                            *)
(*                                                                         *)
(* The argument for the driver, in the second half: a prefix that is       *)
(* remembered, the byte in the controller and the bytes on the wire are at *)
(* any time those of the strokes that have no event yet, and no stroke     *)
(* ends with the byte of the prefix.                                       *)
(***************************************************************************)
EXTENDS Keyboard, SequenceTheorems, TLAPS

(* An event as keyboard_event_t has it, with the number of the history.    *)
AnyEvent == [n : Nat, scancode : Nat, is_pressed : BOOLEAN, shift_held : BOOLEAN,
             ctrl_held : BOOLEAN, alt_held : BOOLEAN, caps_locked : BOOLEAN]

AnyBuffer == [buffer : [Slots -> AnyEvent], head : Slots, tail : Slots]

Flags == [shift : BOOLEAN, ctrl : BOOLEAN, alt : BOOLEAN, caps : BOOLEAN]

(* As much of the types as the argument needs.                             *)
WeakTypes ==
    /\ wire \in Seq(Int)
    /\ output \in Int
    /\ g_keyboard_buffer \in AnyBuffer
    /\ modifiers \in Flags
    /\ slot \in Slots
    /\ event \in AnyEvent
    /\ tail \in Slots
    /\ pushed \in Seq(AnyEvent)
    /\ delivered \in Seq(AnyEvent)
    /\ overrun \in BOOLEAN

(* Before keyboard_init is done, nothing has been put into the buffer.     *)
Quiet ==
    /\ irq = "keyboard_handler" => installed
    /\ pc \in {"boot", "irq_install"} =>
        /\ ~installed
        /\ cyclic_buffer_is_empty(g_keyboard_buffer)
        /\ pushed = <<>> /\ delivered = <<>>

(* How far cyclic_buffer_pop has got: what it has copied is still in the   *)
(* slot at tail, and the register holds tail.                              *)
PopUndisturbed ==
    LET source == g_keyboard_buffer.buffer[slot]
    IN  /\ pc \in {"copy scancode", "copy flags", "load tail", "store tail"}
             => slot = g_keyboard_buffer.tail
        /\ pc = "copy flags" => event.scancode = source.scancode /\ event.n = source.n
        /\ pc \in {"load tail", "store tail"} => event = source
        /\ pc = "store tail" => tail = g_keyboard_buffer.tail

(* Inductive.                                                              *)
KeyboardInv ==
    /\ WeakTypes
    /\ Quiet
    /\ CheckStaysTrue
    /\ ~overrun => PopUndisturbed
    /\ FifoUnlessOverrun

(***************************************************************************)
(* The cyclic buffer.                                                      *)
(***************************************************************************)

(* One wrap of an index.                                                   *)
LEMMA Wrap ==
    ASSUME NEW x \in Nat, x < 2 * CAPACITY
    PROVE  x % CAPACITY = IF x < CAPACITY THEN x ELSE x - CAPACITY
BY KBufferAssumption

(* What NextSlot and cyclic_buffer_size compute.                           *)
LEMMA NextSlotIs ==
    ASSUME NEW i \in Slots
    PROVE  /\ NextSlot(i) = IF i = CAPACITY - 1 THEN 0 ELSE i + 1
           /\ NextSlot(i) \in Slots
           /\ CAPACITY > 1 => NextSlot(i) # i
BY Wrap, KBufferAssumption DEF NextSlot, Slots

(* The wrapped difference of the indices is the number of events.          *)
LEMMA SizeIs ==
    ASSUME NEW cb \in AnyBuffer
    PROVE  /\ cyclic_buffer_size(cb) =
                IF cb.head >= cb.tail THEN cb.head - cb.tail
                ELSE cb.head + CAPACITY - cb.tail
           /\ cyclic_buffer_size(cb) \in 0..(CAPACITY - 1)
<1>1. cb.head \in 0..(CAPACITY - 1) /\ cb.tail \in 0..(CAPACITY - 1)
  BY DEF AnyBuffer, Slots
<1>2. (cb.head + CAPACITY) - cb.tail \in Nat /\ (cb.head + CAPACITY) - cb.tail < 2 * CAPACITY
  BY <1>1, KBufferAssumption
<1>. QED BY <1>1, <1>2, Wrap, KBufferAssumption DEF cyclic_buffer_size

(* The slot of the i-th element.                                           *)
LEMMA SlotIs ==
    ASSUME NEW cb \in AnyBuffer, NEW i \in 1..cyclic_buffer_size(cb)
    PROVE  /\ (cb.tail + i - 1) % CAPACITY =
                IF cb.tail + i - 1 < CAPACITY THEN cb.tail + i - 1
                ELSE cb.tail + i - 1 - CAPACITY
           /\ (cb.tail + i - 1) % CAPACITY \in Slots
           /\ (cb.tail + i - 1) % CAPACITY # cb.head
<1>1. cb.head \in 0..(CAPACITY - 1) /\ cb.tail \in 0..(CAPACITY - 1)
  BY DEF AnyBuffer, Slots
<1>2. cb.tail + i - 1 \in Nat /\ cb.tail + i - 1 < 2 * CAPACITY
  BY <1>1, SizeIs, KBufferAssumption
<1>3. (cb.tail + i - 1) % CAPACITY =
        IF cb.tail + i - 1 < CAPACITY THEN cb.tail + i - 1 ELSE cb.tail + i - 1 - CAPACITY
  BY <1>1, <1>2, Wrap, KBufferAssumption
<1>. QED BY <1>1, <1>2, <1>3, SizeIs, KBufferAssumption DEF Slots

(* What is in the ring, read off its indices.                              *)
LEMMA ContentsTyped ==
    ASSUME NEW cb \in AnyBuffer
    PROVE  /\ Contents(cb) \in Seq(AnyEvent)
           /\ Len(Contents(cb)) = cyclic_buffer_size(cb)
           /\ cyclic_buffer_is_empty(cb) => Contents(cb) = <<>>
<1>1. cyclic_buffer_size(cb) \in Nat BY SizeIs, KBufferAssumption
<1>2. \A i \in 1..cyclic_buffer_size(cb) : cb.buffer[(cb.tail + i - 1) % CAPACITY] \in AnyEvent
  BY SlotIs DEF AnyBuffer
<1>3. Contents(cb) \in [1..cyclic_buffer_size(cb) -> AnyEvent] BY <1>2 DEF Contents
<1>4. Contents(cb) \in Seq(AnyEvent) /\ Len(Contents(cb)) = cyclic_buffer_size(cb)
  BY <1>1, <1>3
<1>5. ASSUME cyclic_buffer_is_empty(cb) PROVE Contents(cb) = <<>>
  <2>1. cyclic_buffer_size(cb) = 0
    BY <1>5, SizeIs DEF cyclic_buffer_is_empty, AnyBuffer, Slots
  <2>. QED BY <1>4, <2>1
<1>. QED BY <1>4, <1>5

(* cyclic_buffer_push into a buffer that is not full appends.              *)
LEMMA PushTyped ==
    ASSUME NEW cb \in AnyBuffer, NEW e \in AnyEvent,
           NEW new, new = cyclic_buffer_push(cb, e)
    PROVE  /\ new \in AnyBuffer
           /\ new.head = NextSlot(cb.head)
           /\ new.tail = IF cyclic_buffer_is_full(cb) THEN NextSlot(cb.tail) ELSE cb.tail
           /\ new.buffer[cb.head] = e
           /\ \A i \in Slots : i # cb.head => new.buffer[i] = cb.buffer[i]
<1>1. cb.head \in Slots /\ cb.tail \in Slots /\ cb.buffer \in [Slots -> AnyEvent]
  BY DEF AnyBuffer
<1>2. NextSlot(cb.head) \in Slots /\ NextSlot(cb.tail) \in Slots BY <1>1, NextSlotIs
<1>. QED BY <1>1, <1>2 DEF cyclic_buffer_push, AnyBuffer

(* A push into a ring with room appends to what is in it.                  *)
LEMMA PushAppends ==
    ASSUME NEW cb \in AnyBuffer, NEW e \in AnyEvent, ~cyclic_buffer_is_full(cb)
    PROVE  Contents(cyclic_buffer_push(cb, e)) = Append(Contents(cb), e)
<1> DEFINE new == cyclic_buffer_push(cb, e)
           k == cyclic_buffer_size(cb)
<1> HIDE DEF new
<1>1. /\ new \in AnyBuffer /\ new.head = NextSlot(cb.head) /\ new.tail = cb.tail
      /\ new.buffer[cb.head] = e
      /\ \A i \in Slots : i # cb.head => new.buffer[i] = cb.buffer[i]
  BY PushTyped DEF new
<1>2. cb.head \in 0..(CAPACITY - 1) /\ cb.tail \in 0..(CAPACITY - 1)
  BY DEF AnyBuffer, Slots
<1>3. NextSlot(cb.head) # cb.tail BY DEF cyclic_buffer_is_full
<1>4. NextSlot(cb.head) = IF cb.head = CAPACITY - 1 THEN 0 ELSE cb.head + 1
  BY <1>2, NextSlotIs DEF Slots
<1>5. k \in Nat /\ cyclic_buffer_size(new) = k + 1
  BY <1>1, <1>2, <1>3, <1>4, SizeIs, KBufferAssumption
<1>6. ASSUME NEW i \in 1..k
      PROVE  new.buffer[(new.tail + i - 1) % CAPACITY] = cb.buffer[(cb.tail + i - 1) % CAPACITY]
  BY <1>1, SlotIs
<1>7. (cb.tail + (k + 1) - 1) % CAPACITY = cb.head
  <2>1. (cb.tail + k) \in Nat /\ cb.tail + k < 2 * CAPACITY
    BY <1>2, <1>5, SizeIs, KBufferAssumption
  <2>2. (cb.tail + k) % CAPACITY = cb.head
    BY <1>2, <2>1, Wrap, SizeIs, KBufferAssumption
  <2>. QED BY <2>2, <1>5, <1>2
<1>8. new.buffer[(new.tail + (k + 1) - 1) % CAPACITY] = e BY <1>1, <1>7
<1>9. Contents(cb) \in Seq(AnyEvent) /\ Len(Contents(cb)) = k
  BY ContentsTyped
<1>10. Contents(new) \in Seq(AnyEvent) /\ Len(Contents(new)) = k + 1
  BY <1>1, <1>5, ContentsTyped
<1>11. \A i \in 1..k : Contents(cb)[i] = cb.buffer[(cb.tail + i - 1) % CAPACITY]
  BY DEF Contents
<1>12. \A i \in 1..(k + 1) : Contents(new)[i] = new.buffer[(new.tail + i - 1) % CAPACITY]
  BY <1>5 DEF Contents
<1>13. /\ Append(Contents(cb), e) \in Seq(AnyEvent)
       /\ Len(Append(Contents(cb), e)) = k + 1
       /\ \A i \in 1..k : Append(Contents(cb), e)[i] = Contents(cb)[i]
       /\ Append(Contents(cb), e)[k + 1] = e
  BY <1>9, <1>5
<1>14. \A i \in 1..(k + 1) : Contents(new)[i] = Append(Contents(cb), e)[i]
  <2> TAKE i \in 1..(k + 1)
  <2>1. CASE i = k + 1 BY <2>1, <1>8, <1>12, <1>13, <1>5
  <2>2. CASE i # k + 1
    <3>1. i \in 1..k BY <2>2, <1>5
    <3>. QED BY <3>1, <1>6, <1>11, <1>12, <1>13
  <2>. QED BY <2>1, <2>2
<1>. QED BY <1>10, <1>13, <1>14, <1>5 DEF new

(* The oldest element is the one at tail, and moving tail removes it.      *)
LEMMA PopRemovesFirst ==
    ASSUME NEW cb \in AnyBuffer, ~cyclic_buffer_is_empty(cb),
           NEW new, new = [cb EXCEPT !.tail = tail_after(cb.tail)]
    PROVE  /\ new \in AnyBuffer
           /\ Contents(cb) = <<cb.buffer[cb.tail]>> \o Contents(new)
<1> DEFINE k == cyclic_buffer_size(cb)
           e == cb.buffer[cb.tail]
<1>1. cb.head \in 0..(CAPACITY - 1) /\ cb.tail \in 0..(CAPACITY - 1) /\ cb.head # cb.tail
  BY DEF AnyBuffer, Slots, cyclic_buffer_is_empty
<1>2. NextSlot(cb.tail) \in Slots
      /\ NextSlot(cb.tail) = IF cb.tail = CAPACITY - 1 THEN 0 ELSE cb.tail + 1
  BY <1>1, NextSlotIs DEF Slots
<1>3. /\ new \in AnyBuffer /\ new.head = cb.head /\ new.tail = NextSlot(cb.tail)
      /\ new.buffer = cb.buffer
  BY <1>2 DEF AnyBuffer, tail_after
<1>4. k \in Nat /\ k > 0 /\ cyclic_buffer_size(new) = k - 1
  <2>1. k = IF cb.head >= cb.tail THEN cb.head - cb.tail ELSE cb.head + CAPACITY - cb.tail
    BY SizeIs
  <2>2. cyclic_buffer_size(new) =
          IF new.head >= new.tail THEN new.head - new.tail
          ELSE new.head + CAPACITY - new.tail
    BY <1>3, SizeIs
  <2>. QED BY <2>1, <2>2, <1>1, <1>2, <1>3, KBufferAssumption
<1>5. ASSUME NEW i \in 1..(k - 1)
      PROVE  (new.tail + i - 1) % CAPACITY = (cb.tail + (i + 1) - 1) % CAPACITY
  <2>1. i \in 1..cyclic_buffer_size(new) /\ i + 1 \in 1..cyclic_buffer_size(cb)
    BY <1>4
  <2>2. (new.tail + i - 1) % CAPACITY =
          IF new.tail + i - 1 < CAPACITY THEN new.tail + i - 1
          ELSE new.tail + i - 1 - CAPACITY
    BY <2>1, <1>3, SlotIs
  <2>3. (cb.tail + (i + 1) - 1) % CAPACITY =
          IF cb.tail + (i + 1) - 1 < CAPACITY THEN cb.tail + (i + 1) - 1
          ELSE cb.tail + (i + 1) - 1 - CAPACITY
    BY <2>1, SlotIs
  <2>4. cb.tail + (i + 1) - 1 < CAPACITY + CAPACITY - 1
    BY <2>1, <1>1, SizeIs, KBufferAssumption
  <2>. QED BY <2>2, <2>3, <2>4, <1>1, <1>2, <1>3, <1>4, KBufferAssumption
<1>6. cb.tail % CAPACITY = cb.tail BY <1>1, Wrap, KBufferAssumption
<1>7. Contents(cb) \in Seq(AnyEvent) /\ Len(Contents(cb)) = k BY ContentsTyped
<1>8. Contents(new) \in Seq(AnyEvent) /\ Len(Contents(new)) = k - 1
  BY <1>3, <1>4, ContentsTyped
<1>9. \A i \in 1..k : Contents(cb)[i] = cb.buffer[(cb.tail + i - 1) % CAPACITY]
  BY DEF Contents
<1>10. \A i \in 1..(k - 1) : Contents(new)[i] = cb.buffer[(new.tail + i - 1) % CAPACITY]
  BY <1>3, <1>4 DEF Contents
<1>11. e \in AnyEvent BY <1>1 DEF AnyBuffer, Slots
<1> HIDE DEF e, k
<1>12. /\ <<e>> \o Contents(new) \in Seq(AnyEvent)
       /\ Len(<<e>> \o Contents(new)) = k
       /\ (<<e>> \o Contents(new))[1] = e
       /\ \A i \in 2..k : (<<e>> \o Contents(new))[i] = Contents(new)[i - 1]
  BY <1>4, <1>8, <1>11, SMTT(20)
<1>13. \A i \in 1..k : Contents(cb)[i] = (<<e>> \o Contents(new))[i]
  <2> TAKE i \in 1..k
  <2>1. CASE i = 1
    <3>1. (cb.tail + i - 1) = cb.tail BY <2>1, <1>1
    <3>. QED BY <2>1, <3>1, <1>6, <1>9, <1>12 DEF e
  <2>2. CASE i # 1
    <3>1. i - 1 \in 1..(k - 1) /\ i \in 2..k /\ (i - 1) + 1 = i BY <2>2, <1>4
    <3>2. Contents(new)[i - 1] = cb.buffer[(new.tail + (i - 1) - 1) % CAPACITY]
      BY <3>1, <1>10
    <3>3. (new.tail + (i - 1) - 1) % CAPACITY = (cb.tail + ((i - 1) + 1) - 1) % CAPACITY
      BY <3>1, <1>5
    <3>4. (<<e>> \o Contents(new))[i] = Contents(new)[i - 1] BY <3>1, <1>12
    <3>5. Contents(cb)[i] = cb.buffer[(cb.tail + i - 1) % CAPACITY] BY <1>9
    <3>. QED BY <3>1, <3>2, <3>3, <3>4, <3>5
  <2>. QED BY <2>1, <2>2
<1>14. Contents(cb) = <<e>> \o Contents(new)
  <2> DEFINE rest == <<e>> \o Contents(new)
  <2>1. rest \in Seq(AnyEvent) /\ Len(rest) = k BY <1>12
  <2>2. \A i \in 1..k : Contents(cb)[i] = rest[i] BY <1>13
  <2> HIDE DEF rest
  <2>3. Contents(cb) = rest BY <1>7, <2>1, <2>2, SeqEqual
  <2>. QED BY <2>3 DEF rest
<1>. QED BY <1>3, <1>14 DEF e

(* The handler never empties the buffer.                                   *)
LEMMA PushKeepsNonempty ==
    ASSUME NEW cb \in AnyBuffer, NEW e \in AnyEvent, ~cyclic_buffer_is_empty(cb)
    PROVE  ~cyclic_buffer_is_empty(cyclic_buffer_push(cb, e))
<1>1. cb.head \in Slots /\ cb.tail \in Slots /\ cb.head # cb.tail
  BY DEF AnyBuffer, cyclic_buffer_is_empty
<1>2. CAPACITY > 1 BY <1>1, KBufferAssumption DEF Slots
<1>3. NextSlot(cb.tail) # cb.tail BY <1>1, <1>2, NextSlotIs
<1>. QED
  BY <1>3, PushTyped DEF cyclic_buffer_is_empty, cyclic_buffer_is_full

(***************************************************************************)
(* The steps.                                                              *)
(***************************************************************************)

(* An empty ring, and nobody has read or lost anything.                    *)
LEMMA InitKeyboard == Init => KeyboardInv
<1> SUFFICES ASSUME Init PROVE KeyboardInv OBVIOUS
<1> USE DEF Init
<1>1. NoEvent \in AnyEvent BY DEF NoEvent, AnyEvent
<1>2. 0 \in Slots BY KBufferAssumption DEF Slots
<1>3. g_keyboard_buffer \in AnyBuffer /\ cyclic_buffer_is_empty(g_keyboard_buffer)
  BY <1>1, <1>2 DEF cyclic_buffer_init, AnyBuffer, cyclic_buffer_is_empty
<1>4. WeakTypes BY <1>1, <1>2, <1>3 DEF WeakTypes, Flags
<1>5. Quiet BY <1>3 DEF Quiet
<1>6. CheckStaysTrue BY DEF CheckStaysTrue
<1>7. PopUndisturbed BY DEF PopUndisturbed
<1>8. FifoUnlessOverrun BY <1>3, ContentsTyped DEF FifoUnlessOverrun
<1>. QED BY <1>4, <1>5, <1>6, <1>7, <1>8 DEF KeyboardInv

(* The keyboard, its controller and the frame of the interrupt leave the   *)
(* buffer and kernel_main alone.                                           *)
LEMMA DeviceStep ==
    ASSUME KeyboardInv,
           UNCHANGED <<g_keyboard_buffer, modifiers, installed, main_vars, pushed, overrun>>,
           wire' \in Seq(Int), output' \in Int,
           irq' = "keyboard_handler" => installed
    PROVE  KeyboardInv'
<1> USE DEF KeyboardInv, main_vars
<1>1. WeakTypes' BY DEF WeakTypes
<1>2. Quiet' BY DEF Quiet
<1>3. CheckStaysTrue' BY DEF CheckStaysTrue
<1>4. ~overrun' => PopUndisturbed' BY DEF PopUndisturbed
<1>5. FifoUnlessOverrun' BY DEF FifoUnlessOverrun
<1>. QED BY <1>1, <1>2, <1>3, <1>4, <1>5

(* Typing fills the device, not the ring.                                  *)
LEMMA TypeStep == KeyboardInv /\ Type => KeyboardInv'
<1> SUFFICES ASSUME KeyboardInv, Type PROVE KeyboardInv' OBVIOUS
<1>1. PICK key \in KEYS, pressed \in BOOLEAN : wire' = wire \o Bytes(key, pressed)
  BY DEF Type
<1>2. Bytes(key, pressed) \in Seq(Int)
  <2>1. key \in Nat BY KeyboardAssumption
  <2>2. (key % 256) + (IF pressed THEN 0 ELSE RELEASED_SCANCODE_MASK) \in Int
    BY <2>1 DEF RELEASED_SCANCODE_MASK
  <2>3. (IF key >= PREFIXED THEN <<EXTENDED_SCANCODE_PREFIX>> ELSE <<>>) \in Seq(Int)
    BY DEF EXTENDED_SCANCODE_PREFIX
  <2>. QED BY <2>2, <2>3 DEF Bytes
<1>3. wire' \in Seq(Int) BY <1>1, <1>2 DEF KeyboardInv, WeakTypes
<1>. QED
  BY <1>3, DeviceStep
  DEF Type, KeyboardInv, WeakTypes, Quiet, driver_vars, handler_vars

(* Nor does a byte that the controller takes over.                         *)
LEMMA TransmitStep == KeyboardInv /\ Transmit => KeyboardInv'
<1> SUFFICES ASSUME KeyboardInv, Transmit PROVE KeyboardInv' OBVIOUS
<1>1. wire' \in Seq(Int) /\ output' \in Int
  BY DEF Transmit, KeyboardInv, WeakTypes
<1>. QED
  BY <1>1, DeviceStep DEF Transmit, KeyboardInv, Quiet, driver_vars, handler_vars

(* The entry and the end of an interrupt leave the ring alone.             *)
LEMMA IrqStep == KeyboardInv /\ (irq_handler \/ irq_return) => KeyboardInv'
<1> SUFFICES ASSUME KeyboardInv, irq_handler \/ irq_return PROVE KeyboardInv' OBVIOUS
<1>. QED
  BY DeviceStep
  DEF irq_handler, irq_return, pic_send_eoi, KeyboardInv, WeakTypes, driver_vars, device_vars

(* The record that handle_scancode pushes.                                 *)
LEMMA NewEvent ==
    ASSUME NEW raw \in Int, NEW extended, modifiers \in Flags, pushed \in Seq(AnyEvent),
           handle_scancode(raw, extended)
    PROVE  \E new \in AnyEvent :
             /\ modifiers' \in Flags
             /\ g_keyboard_buffer' = cyclic_buffer_push(g_keyboard_buffer, new)
             /\ pushed' = Append(pushed, new)
             /\ overrun' = (overrun \/ cyclic_buffer_is_full(g_keyboard_buffer))
<1> DEFINE is_released == raw >= RELEASED_SCANCODE_MASK
           scancode == (IF extended THEN PREFIXED ELSE 0) + (raw % RELEASED_SCANCODE_MASK)
           now == modifiers_after(scancode, is_released)
           new == [n |-> Len(pushed) + 1, scancode |-> scancode,
                   is_pressed |-> ~is_released, shift_held |-> now.shift,
                   ctrl_held |-> now.ctrl, alt_held |-> now.alt, caps_locked |-> now.caps]
<1>1. scancode \in Nat
  BY DEF PREFIXED, EXTENDED_SCANCODE_PREFIX, RELEASED_SCANCODE_MASK
<1>2. is_released \in BOOLEAN OBVIOUS
<1>3. ASSUME NEW s, NEW r \in BOOLEAN PROVE modifiers_after(s, r) \in Flags
  BY DEF modifiers_after, Flags
<1>4. now \in Flags BY <1>2, <1>3
<1>5. Len(pushed) + 1 \in Nat OBVIOUS
<1>6. /\ modifiers' = now
      /\ g_keyboard_buffer' = cyclic_buffer_push(g_keyboard_buffer, new)
      /\ pushed' = Append(pushed, new)
      /\ overrun' = (overrun \/ cyclic_buffer_is_full(g_keyboard_buffer))
  BY DEF handle_scancode
<1>7. new \in AnyEvent
  <2> HIDE DEF now, scancode
  <2>1. /\ now.shift \in BOOLEAN /\ now.ctrl \in BOOLEAN
        /\ now.alt \in BOOLEAN /\ now.caps \in BOOLEAN
    BY <1>4 DEF Flags
  <2>. QED BY <1>1, <1>2, <1>5, <2>1 DEF AnyEvent
<1> HIDE DEF new, now
<1>. QED BY <1>4, <1>6, <1>7

(* An event is put into the buffer, wherever kernel_main was interrupted.  *)
LEMMA PushStep ==
    ASSUME KeyboardInv, NEW new \in AnyEvent, installed,
           modifiers' \in Flags, wire' \in Seq(Int), output' \in Int,
           g_keyboard_buffer' = cyclic_buffer_push(g_keyboard_buffer, new),
           pushed' = Append(pushed, new),
           overrun' = (overrun \/ cyclic_buffer_is_full(g_keyboard_buffer)),
           UNCHANGED <<installed, main_vars>>
    PROVE  KeyboardInv'
<1> DEFINE cb == g_keyboard_buffer
<1> USE DEF KeyboardInv, main_vars
<1>0. cb \in AnyBuffer /\ slot \in Slots BY DEF WeakTypes
<1>1. /\ cb' \in AnyBuffer
      /\ cb'.tail = IF cyclic_buffer_is_full(cb) THEN NextSlot(cb.tail) ELSE cb.tail
      /\ \A i \in Slots : i # cb.head => cb'.buffer[i] = cb.buffer[i]
  BY <1>0, PushTyped
<1>2. WeakTypes' 
  <2>1. pushed' \in Seq(AnyEvent) BY DEF WeakTypes
  <2>2. overrun' \in BOOLEAN BY DEF WeakTypes, cyclic_buffer_is_full
  <2>. QED BY <1>1, <2>1, <2>2 DEF WeakTypes
<1>3. Quiet' BY DEF Quiet
<1>4. CheckStaysTrue' BY <1>0, PushKeepsNonempty DEF CheckStaysTrue
<1>5. ASSUME ~overrun' PROVE PopUndisturbed'
  <2>1. ~overrun /\ ~cyclic_buffer_is_full(cb) BY <1>5
  <2>2. PopUndisturbed /\ cb'.tail = cb.tail BY <1>1, <2>1
  <2>3. pc \in {"copy scancode", "copy flags", "load tail", "store tail"}
          => slot # cb.head
    BY <2>2 DEF PopUndisturbed, CheckStaysTrue, cyclic_buffer_is_empty
  <2>4. pc \in {"copy scancode", "copy flags", "load tail", "store tail"}
          => cb'.buffer[slot] = cb.buffer[slot]
    BY <2>3, <1>0, <1>1
  <2>. QED BY <2>2, <2>4 DEF PopUndisturbed
<1>6. ASSUME ~overrun' PROVE delivered' \o Contents(cb') = pushed'
  <2>1. ~overrun /\ ~cyclic_buffer_is_full(cb) BY <1>6
  <2>2. Contents(cb') = Append(Contents(cb), new) BY <1>0, <2>1, PushAppends
  <2>3. delivered \o Contents(cb) = pushed BY <2>1 DEF FifoUnlessOverrun
  <2>4. Contents(cb) \in Seq(AnyEvent) /\ delivered \in Seq(AnyEvent)
    BY <1>0, ContentsTyped DEF WeakTypes
  <2>5. delivered \o Append(Contents(cb), new) = Append(delivered \o Contents(cb), new)
    <3> DEFINE c == Contents(cb)
    <3> HIDE DEF c
    <3>1. c \in Seq(AnyEvent) BY <2>4 DEF c
    <3>2. delivered \o Append(c, new) = Append(delivered \o c, new)
      BY <2>4, <3>1, AppendIsConcat, ConcatAssociative, ConcatProperties
    <3>. QED BY <3>2 DEF c
  <2>. QED BY <2>2, <2>3, <2>5
<1>7. FifoUnlessOverrun' BY <1>6 DEF FifoUnlessOverrun
<1>. QED BY <1>2, <1>3, <1>4, <1>5, <1>7

(* The handler pushes the event of the byte it read.                       *)
LEMMA HandlerStep == KeyboardInv /\ keyboard_handler => KeyboardInv'
<1> SUFFICES ASSUME KeyboardInv, keyboard_handler PROVE KeyboardInv' OBVIOUS
<1>1. /\ irq = "keyboard_handler" /\ installed /\ output' \in Int /\ wire' \in Seq(Int)
      /\ UNCHANGED main_vars
  BY DEF keyboard_handler, KeyboardInv, WeakTypes, Quiet
<1>2. CASE irq' = "eoi" /\ UNCHANGED <<g_keyboard_buffer, modifiers, installed, pushed, overrun>>
  BY <1>1, <1>2, DeviceStep
<1>3. CASE handle_scancode(output, g_extended_pending) /\ UNCHANGED <<installed, irq>>
  <2>1. PICK new \in AnyEvent :
             /\ modifiers' \in Flags
             /\ g_keyboard_buffer' = cyclic_buffer_push(g_keyboard_buffer, new)
             /\ pushed' = Append(pushed, new)
             /\ overrun' = (overrun \/ cyclic_buffer_is_full(g_keyboard_buffer))
    BY <1>3, NewEvent DEF KeyboardInv, WeakTypes
  <2>. QED BY <1>1, <1>3, <2>1, PushStep
<1>. QED BY <1>2, <1>3 DEF keyboard_handler, driver_vars

(* keyboard_init.                                                          *)
LEMMA InstallStep ==
    ASSUME KeyboardInv, keyboard_init_buffer \/ irq_install,
           UNCHANGED <<device_vars, handler_vars, pushed, overrun>>, irq = "off"
    PROVE  KeyboardInv'
<1> USE DEF KeyboardInv, device_vars, handler_vars
<1>1. /\ cyclic_buffer_is_empty(g_keyboard_buffer)
      /\ pushed = <<>> /\ delivered = <<>>
      /\ g_keyboard_buffer \in AnyBuffer
  BY DEF keyboard_init_buffer, irq_install, Quiet, WeakTypes
<1>2. g_keyboard_buffer' \in AnyBuffer /\ cyclic_buffer_is_empty(g_keyboard_buffer')
  <2>1. CASE irq_install BY <1>1, <2>1 DEF irq_install
  <2>2. CASE keyboard_init_buffer
    <3>1. 0 \in Slots BY KBufferAssumption DEF Slots
    <3>. QED
      BY <1>1, <2>2, <3>1
      DEF keyboard_init_buffer, cyclic_buffer_init, AnyBuffer, cyclic_buffer_is_empty
  <2>. QED BY <2>1, <2>2
<1>3. WeakTypes' BY <1>2 DEF WeakTypes, keyboard_init_buffer, irq_install
<1>4. Quiet' BY <1>1, <1>2 DEF Quiet, keyboard_init_buffer, irq_install
<1>5. CheckStaysTrue' BY DEF CheckStaysTrue, keyboard_init_buffer, irq_install
<1>6. PopUndisturbed' BY DEF PopUndisturbed, keyboard_init_buffer, irq_install
<1>7. delivered' = <<>> /\ pushed' = <<>>
  BY <1>1 DEF keyboard_init_buffer, irq_install
<1>8. FifoUnlessOverrun' BY <1>2, <1>7, ContentsTyped DEF FifoUnlessOverrun
<1>. QED BY <1>3, <1>4, <1>5, <1>6, <1>8

(* The three checks, one by one.                                           *)
LEMMA CheckCases ==
    ASSUME check_event
    PROVE  /\ event' = NoEvent
           /\ UNCHANGED <<driver_vars, slot, tail, screen, delivered>>
           /\ pc \in {"has_event", "get_event", "pop"}
           /\ IF cyclic_buffer_is_empty(g_keyboard_buffer)
              THEN pc' \in {"has_event", "use"}
              ELSE pc' \in {"get_event", "pop", "copy"}
<1>1. PICK i \in 1..3 :
        /\ pc = Checks[i]
        /\ IF cyclic_buffer_is_empty(g_keyboard_buffer)
           THEN pc' = IF i = 1 THEN "has_event" ELSE "use"
           ELSE pc' = IF i = 3 THEN "copy" ELSE Checks[i + 1]
  BY DEF check_event
<1>2. Checks[1] = "has_event" /\ Checks[2] = "get_event" /\ Checks[3] = "pop" BY DEF Checks
<1>3. CASE i = 1 BY <1>1, <1>2, <1>3 DEF check_event
<1>4. CASE i = 2 BY <1>1, <1>2, <1>4 DEF check_event
<1>5. CASE i = 3 BY <1>1, <1>2, <1>5 DEF check_event
<1>. QED BY <1>1, <1>3, <1>4, <1>5

(* The steps of kernel_main that only read the buffer.                     *)
LEMMA ReadStep ==
    ASSUME KeyboardInv,
           check_event \/ copy_source \/ copy_scancode \/ copy_flags \/ load_tail \/ use_event,
           UNCHANGED <<device_vars, handler_vars, pushed, overrun>>
    PROVE  KeyboardInv'
<1> DEFINE source == g_keyboard_buffer.buffer[slot]
<1> USE DEF KeyboardInv, device_vars, handler_vars, driver_vars
<1>0. /\ UNCHANGED <<driver_vars, delivered>>
      /\ pc \notin {"boot", "irq_install"} /\ pc' \notin {"boot", "irq_install"}
  BY CheckCases DEF copy_source, copy_scancode, copy_flags, load_tail, use_event
<1>1. source \in AnyEvent /\ event \in AnyEvent BY DEF WeakTypes, AnyBuffer
<1>2. WeakTypes'
  <2>1. event' \in AnyEvent
    <3>1. NoEvent \in AnyEvent BY DEF NoEvent, AnyEvent
    <3>2. CASE check_event BY <3>1, <3>2 DEF check_event
    <3>3. CASE copy_scancode BY <1>1, <3>3 DEF copy_scancode, AnyEvent
    <3>4. CASE copy_flags BY <1>1, <3>4 DEF copy_flags, AnyEvent
    <3>. QED BY <1>1, <3>2, <3>3, <3>4 DEF copy_source, load_tail, use_event
  <2>2. slot' \in Slots /\ tail' \in Slots
    BY CheckCases DEF WeakTypes, AnyBuffer, copy_source, copy_scancode, copy_flags,
           load_tail, use_event
  <2>. QED BY <1>0, <2>1, <2>2 DEF WeakTypes
<1>3. Quiet' BY <1>0 DEF Quiet
<1>4. CheckStaysTrue'
  BY <1>0, CheckCases
  DEF CheckStaysTrue, copy_source, copy_scancode, copy_flags, load_tail, use_event
<1>5. ASSUME ~overrun' PROVE PopUndisturbed'
  <2>1. PopUndisturbed BY <1>5
  <2>2. CASE check_event BY <2>2, CheckCases DEF PopUndisturbed
  <2>3. CASE copy_source BY <1>0, <2>3 DEF PopUndisturbed, copy_source
  <2>4. CASE copy_scancode
    <3>1. event'.scancode = source.scancode /\ event'.n = source.n
      BY <1>1, <2>4 DEF copy_scancode, AnyEvent
    <3>. QED BY <1>0, <2>1, <2>4, <3>1 DEF PopUndisturbed, copy_scancode
  <2>5. CASE copy_flags
    <3>1. event.scancode = source.scancode /\ event.n = source.n
      BY <2>1, <2>5 DEF copy_flags, PopUndisturbed
    <3>2. event' = source BY <1>1, <2>5, <3>1 DEF copy_flags, AnyEvent
    <3>. QED BY <1>0, <2>1, <2>5, <3>2 DEF PopUndisturbed, copy_flags
  <2>6. CASE load_tail BY <1>0, <2>1, <2>6 DEF PopUndisturbed, load_tail
  <2>7. CASE use_event BY <2>7 DEF PopUndisturbed, use_event
  <2>. QED BY <2>2, <2>3, <2>4, <2>5, <2>6, <2>7
<1>6. FifoUnlessOverrun' BY <1>0 DEF FifoUnlessOverrun
<1>. QED BY <1>2, <1>3, <1>4, <1>5, <1>6

(* The first element of what follows, moved to the end of what precedes.   *)
LEMMA MoveFirst ==
    ASSUME NEW T, NEW d \in Seq(T), NEW e \in T, NEW c \in Seq(T)
    PROVE  /\ Append(d, e) \in Seq(T)
           /\ Append(d, e) \o c = d \o (<<e>> \o c)
<1>1. <<e>> \in Seq(T) OBVIOUS
<1>2. Append(d, e) = d \o <<e>> BY AppendIsConcat
<1>. QED BY <1>1, <1>2, ConcatAssociative

(* The end of cyclic_buffer_pop.                                           *)
LEMMA PopStep ==
    ASSUME KeyboardInv, store_tail,
           UNCHANGED <<device_vars, handler_vars, pushed, overrun>>
    PROVE  KeyboardInv'
<1> DEFINE cb == g_keyboard_buffer
<1> USE DEF KeyboardInv, device_vars, handler_vars
<1>0. /\ pc = "store tail" /\ pc' = "use" /\ ~cyclic_buffer_is_empty(cb)
      /\ cb \in AnyBuffer /\ tail \in Slots /\ event \in AnyEvent
      /\ delivered \in Seq(AnyEvent) /\ delivered' = Append(delivered, event)
      /\ cb' = [cb EXCEPT !.tail = tail_after(tail)]
  BY DEF store_tail, CheckStaysTrue, WeakTypes
<1>1. WeakTypes'
  <2>1. cb' \in AnyBuffer BY <1>0, NextSlotIs DEF tail_after, AnyBuffer
  <2>2. delivered' \in Seq(AnyEvent) BY <1>0, MoveFirst
  <2>. QED BY <1>0, <2>1, <2>2 DEF WeakTypes, store_tail
<1>2. Quiet' BY <1>0 DEF Quiet, store_tail
<1>3. CheckStaysTrue' BY <1>0 DEF CheckStaysTrue
<1>4. PopUndisturbed' BY <1>0 DEF PopUndisturbed
<1>5. ASSUME ~overrun' PROVE delivered' \o Contents(cb') = pushed'
  <2>1. /\ delivered \o Contents(cb) = pushed
        /\ event = cb.buffer[cb.tail] /\ tail = cb.tail
    BY <1>0, <1>5 DEF FifoUnlessOverrun, PopUndisturbed
  <2>2. Contents(cb) = <<event>> \o Contents(cb')
    BY <1>0, <2>1, PopRemovesFirst
  <2>3. Contents(cb') \in Seq(AnyEvent) BY <1>1, ContentsTyped DEF WeakTypes
  <2>4. event \in AnyEvent /\ delivered \in Seq(AnyEvent) BY <1>0
  <2>5. Append(delivered, event) \o Contents(cb') = delivered \o (<<event>> \o Contents(cb'))
    <3>1. ASSUME NEW c \in Seq(AnyEvent), NEW d \in Seq(AnyEvent), NEW e \in AnyEvent
          PROVE  Append(d, e) \o c = d \o (<<e>> \o c)
      BY ONLY <3>1, MoveFirst
    <3>. QED BY ONLY <3>1, <2>3, <2>4
  <2>. QED BY <1>0, <2>1, <2>2, <2>5
<1>6. FifoUnlessOverrun' BY <1>5 DEF FifoUnlessOverrun
<1>. QED BY <1>1, <1>2, <1>3, <1>4, <1>6

(* The invariant is inductive.                                             *)
LEMMA KeyboardStep == KeyboardInv /\ [Next]_vars => KeyboardInv'
<1> SUFFICES ASSUME KeyboardInv, [Next]_vars PROVE KeyboardInv' OBVIOUS
<1>1. CASE Type BY <1>1, TypeStep
<1>2. CASE Transmit BY <1>2, TransmitStep
<1>3. CASE Interrupt BY <1>3, IrqStep, HandlerStep DEF Interrupt
<1>4. CASE Main BY <1>4, InstallStep, ReadStep, PopStep DEF Main
<1>5. CASE UNCHANGED vars
  BY <1>5, DeviceStep
  DEF vars, device_vars, driver_vars, handler_vars, KeyboardInv, WeakTypes, Quiet
<1>. QED BY <1>1, <1>2, <1>3, <1>4, <1>5 DEF Next

(***************************************************************************)
(* The theorems.                                                           *)
(***************************************************************************)

(* The invariant holds from boot on.                                       *)
THEOREM KeyboardInvariant == Spec => []KeyboardInv
<1>1. Init => KeyboardInv BY InitKeyboard
<1>2. KeyboardInv /\ [Next]_vars => KeyboardInv' BY KeyboardStep
<1>. QED BY <1>1, <1>2, PTL DEF Spec

(* As long as keyboard_handler never pushes into a full buffer, what       *)
(* cyclic_buffer_pop has given to kernel_main, followed by what is in the  *)
(* buffer, is what was pushed: whole, in order, each event once.           *)
THEOREM FifoTheorem == Spec => []FifoUnlessOverrun
<1>1. KeyboardInv => FifoUnlessOverrun BY DEF KeyboardInv
<1>. QED BY <1>1, KeyboardInvariant, PTL

(* Once keyboard_has_event has said that there is an event, it stays true  *)
(* through keyboard_get_event and cyclic_buffer_pop, overrun or not.       *)
THEOREM CheckTheorem == Spec => []CheckStaysTrue
<1>1. KeyboardInv => CheckStaysTrue BY DEF KeyboardInv
<1>. QED BY <1>1, KeyboardInvariant, PTL

(***************************************************************************)
(* From the key to the event: the bytes on the way are those of the        *)
(* strokes that have no event yet.                                         *)
(***************************************************************************)

(* The bytes that keyboard_handler has yet to turn into events: a prefix   *)
(* that it remembers, the byte in the controller, and what follows.        *)
StreamOf(pending, byte, bytes) ==
    (IF pending THEN <<EXTENDED_SCANCODE_PREFIX>> ELSE <<>>)
        \o (IF byte = -1 THEN <<>> ELSE <<byte>>) \o bytes

Stream == StreamOf(g_extended_pending, output, wire)

(* What the keyboard sends.                                                *)
Byte == 0..255

StrokeBytes(strokes, j) == Bytes(strokes[j].key, strokes[j].pressed)

(* e[j] is where the bytes of the j-th stroke end, e[n] where they begin.  *)
Divides(e, stream, strokes, n) ==
    /\ e[n] = 0 /\ e[Len(strokes)] = Len(stream)
    /\ \A i, j \in n..Len(strokes) : i <= j => e[i] <= e[j]
    /\ \A j \in (n + 1)..Len(strokes) :
        /\ e[j] = e[j - 1] + Len(StrokeBytes(strokes, j))
        /\ \A i \in 1..Len(StrokeBytes(strokes, j)) :
            stream[e[j - 1] + i] = StrokeBytes(strokes, j)[i]

(* The stream is the bytes of the strokes after the n-th, one by one.      *)
Encodes(stream, strokes, n) ==
    \E e \in [n..Len(strokes) -> 0..Len(stream)] : Divides(e, stream, strokes, n)

(* The events are the strokes, and the rest is on its way.                 *)
EventsAreStrokes ==
    /\ Len(pushed) <= Len(typed)
    /\ \A k \in 1..Len(pushed) :
        /\ pushed[k].n = k
        /\ pushed[k].scancode = typed[k].key
        /\ pushed[k].is_pressed = typed[k].pressed

(* Inductive together with KeyboardInv.                                    *)
DecodeInv ==
    /\ TypeOK
    /\ Len(typed) <= MAX_TYPED
    /\ EventsAreStrokes
    /\ Encodes(Stream, typed, Len(pushed))

(* The values of PS2_DATA_PORT.                                            *)
LEMMA Port == Byte = 0..255 /\ Byte \cup {-1} = -1..255
BY DEF Byte

(* The bytes of a stroke, and how they are read back.                      *)
LEMMA BytesAre ==
    ASSUME NEW key \in KEYS, NEW pressed \in BOOLEAN,
           NEW b, b = Bytes(key, pressed)
    PROVE  /\ b \in Seq(Byte)
           /\ Len(b) = IF key >= PREFIXED THEN 2 ELSE 1
           /\ key >= PREFIXED => b[1] = EXTENDED_SCANCODE_PREFIX
           /\ b[Len(b)] # EXTENDED_SCANCODE_PREFIX
           /\ (b[Len(b)] >= RELEASED_SCANCODE_MASK) = ~pressed
           /\ key = (IF key >= PREFIXED THEN PREFIXED ELSE 0)
                        + (b[Len(b)] % RELEASED_SCANCODE_MASK)
<1> DEFINE last == (key % 256) + (IF pressed THEN 0 ELSE RELEASED_SCANCODE_MASK)
<1>1. PICK code \in (0..(RELEASED_SCANCODE_MASK - 1)) \ {96} : key \in {code, PREFIXED + code}
  BY ScancodeAssumption
<1>2. code \in 0..127 /\ code # 96 BY <1>1 DEF RELEASED_SCANCODE_MASK
<1>3. /\ key % 256 = code
      /\ (key >= PREFIXED) <=> (key = PREFIXED + code)
      /\ key = (IF key >= PREFIXED THEN PREFIXED ELSE 0) + code
  BY <1>1, <1>2 DEF PREFIXED, EXTENDED_SCANCODE_PREFIX
<1>4. /\ last \in 0..255 /\ last # EXTENDED_SCANCODE_PREFIX
      /\ (last >= RELEASED_SCANCODE_MASK) = ~pressed
      /\ last % RELEASED_SCANCODE_MASK = code
  BY <1>2, <1>3 DEF RELEASED_SCANCODE_MASK, EXTENDED_SCANCODE_PREFIX
<1>5. b = (IF key >= PREFIXED THEN <<EXTENDED_SCANCODE_PREFIX>> ELSE <<>>) \o <<last>>
  BY DEF Bytes
<1>6. EXTENDED_SCANCODE_PREFIX \in Byte /\ last \in Byte
  BY <1>4 DEF EXTENDED_SCANCODE_PREFIX, Byte
<1> HIDE DEF last
<1>7. /\ b \in Seq(Byte)
      /\ Len(b) = IF key >= PREFIXED THEN 2 ELSE 1
      /\ key >= PREFIXED => b[1] = EXTENDED_SCANCODE_PREFIX
      /\ b[Len(b)] = last
  <2>1. CASE key >= PREFIXED
    <3>1. b = <<EXTENDED_SCANCODE_PREFIX>> \o <<last>> BY <1>5, <2>1
    <3>. QED BY <1>6, <2>1, <3>1
  <2>2. CASE ~(key >= PREFIXED)
    <3>1. b = <<last>> BY <1>6, <1>5, <2>2
    <3>. QED BY <1>6, <2>2, <3>1
  <2>. QED BY <2>1, <2>2
<1>. QED BY <1>3, <1>4, <1>7

(* The same of a stroke in a sequence.                                     *)
LEMMA StrokeBytesAre ==
    ASSUME NEW strokes \in Seq(Stroke), NEW j \in 1..Len(strokes)
    PROVE  StrokeBytes(strokes, j) \in Seq(Byte) /\ Len(StrokeBytes(strokes, j)) \in {1, 2}
<1>1. strokes[j] \in Stroke OBVIOUS
<1>2. strokes[j].key \in KEYS /\ strokes[j].pressed \in BOOLEAN BY <1>1 DEF Stroke
<1>. QED BY <1>2, BytesAre DEF StrokeBytes

(* Another stroke is typed.                                                *)
LEMMA StrokeAppended ==
    ASSUME NEW stream \in Seq(Byte), NEW strokes \in Seq(Stroke),
           NEW n \in 0..Len(strokes), Encodes(stream, strokes, n),
           NEW stroke \in Stroke
    PROVE  Encodes(stream \o Bytes(stroke.key, stroke.pressed), Append(strokes, stroke), n)
<1> DEFINE b == Bytes(stroke.key, stroke.pressed)
           longer == stream \o b
           more == Append(strokes, stroke)
           m == Len(strokes)
<1>1. PICK e \in [n..m -> 0..Len(stream)] : Divides(e, stream, strokes, n) BY DEF Encodes
<1>2. b \in Seq(Byte) /\ Len(b) \in {1, 2}
  <2>1. stroke.key \in KEYS /\ stroke.pressed \in BOOLEAN BY DEF Stroke
  <2>2. b \in Seq(Byte) /\ Len(b) \in {1, 2} BY <2>1, BytesAre
  <2>. QED BY <2>2
<1> HIDE DEF b
<1>3. /\ longer \in Seq(Byte) /\ Len(longer) = Len(stream) + Len(b)
      /\ \A i \in 1..Len(stream) : longer[i] = stream[i]
      /\ \A i \in 1..Len(b) : longer[Len(stream) + i] = b[i]
  BY <1>2
<1>4. /\ m \in Nat /\ Len(more) = m + 1 /\ more[m + 1] = stroke
      /\ \A j \in 1..m : more[j] = strokes[j]
  OBVIOUS
<1> HIDE DEF longer, more
<1> DEFINE f == [j \in n..(m + 1) |-> IF j = m + 1 THEN Len(longer) ELSE e[j]]
<1>5. /\ f \in [n..Len(more) -> 0..Len(longer)]
      /\ f[m + 1] = Len(longer)
      /\ \A j \in n..m : f[j] = e[j] /\ e[j] \in 0..Len(stream)
  <2>1. \A j \in n..m : e[j] \in 0..Len(stream) BY <1>1
  <2>2. Len(longer) \in Nat /\ 0..Len(stream) \subseteq 0..Len(longer) BY <1>2, <1>3
  <2>3. ASSUME NEW j \in n..(m + 1) PROVE f[j] \in 0..Len(longer)
    <3>1. CASE j = m + 1 BY <3>1, <2>2
    <3>2. CASE j # m + 1
      <4>1. j \in n..m BY <3>2, <1>4
      <4>. QED BY <3>2, <4>1, <2>1, <2>2
    <3>. QED BY <3>1, <3>2
  <2>4. f \in [n..(m + 1) -> 0..Len(longer)] BY <2>3
  <2>5. m + 1 \in n..(m + 1) /\ \A j \in n..m : j \in n..(m + 1) /\ j # m + 1 BY <1>4
  <2>. QED BY <1>4, <2>1, <2>4, <2>5
<1>6. StrokeBytes(more, m + 1) = b BY <1>4 DEF StrokeBytes, b
<1>7. \A j \in 1..m : StrokeBytes(more, j) = StrokeBytes(strokes, j)
  BY <1>4 DEF StrokeBytes
<1> HIDE DEF f, m
<1>8. f[n] = 0 /\ f[Len(more)] = Len(longer)
  BY <1>1, <1>4, <1>5 DEF Divides, m
<1>9. \A i, j \in n..Len(more) : i <= j => f[i] <= f[j]
  <2> TAKE i, j \in n..Len(more)
  <2> HAVE i <= j
  <2>1. CASE j = m + 1 BY <2>1, <1>5
  <2>2. CASE j # m + 1
    <3>1. i \in n..m /\ j \in n..m BY <2>2, <1>4
    <3>2. e[i] <= e[j] BY <3>1, <1>1 DEF Divides, m
    <3>. QED BY <3>1, <3>2, <1>5
  <2>. QED BY <2>1, <2>2
<1>10. ASSUME NEW j \in (n + 1)..Len(more)
       PROVE  /\ f[j] = f[j - 1] + Len(StrokeBytes(more, j))
              /\ \A i \in 1..Len(StrokeBytes(more, j)) :
                  longer[f[j - 1] + i] = StrokeBytes(more, j)[i]
  <2>1. CASE j = m + 1
    <3>1. f[j - 1] = Len(stream) BY <2>1, <1>1, <1>4, <1>5 DEF Divides, m
    <3>. QED BY <2>1, <3>1, <1>3, <1>5, <1>6
  <2>2. CASE j # m + 1
    <3>1. j \in (n + 1)..m /\ j - 1 \in n..m /\ j \in 1..m BY <2>2, <1>4 DEF m
    <3>2. /\ e[j] = e[j - 1] + Len(StrokeBytes(strokes, j))
          /\ \A i \in 1..Len(StrokeBytes(strokes, j)) :
              stream[e[j - 1] + i] = StrokeBytes(strokes, j)[i]
      BY <3>1, <1>1 DEF Divides, m
    <3>3. f[j] = e[j] /\ f[j - 1] = e[j - 1] /\ e[j] \in 0..Len(stream)
          /\ e[j - 1] \in 0..Len(stream)
      BY <3>1, <1>5
    <3>4. Len(StrokeBytes(strokes, j)) \in Nat BY <3>1, StrokeBytesAre DEF m
    <3>5. \A i \in 1..Len(StrokeBytes(strokes, j)) : e[j - 1] + i \in 1..Len(stream)
      <4>1. e[j - 1] + Len(StrokeBytes(strokes, j)) <= Len(stream) BY <3>2, <3>3
      <4>2. ASSUME NEW x \in 0..Len(stream), NEW k \in Nat, x + k <= Len(stream)
            PROVE  \A i \in 1..k : x + i \in 1..Len(stream)
        BY <4>2
      <4>. QED BY <4>1, <4>2, <3>3, <3>4
    <3>. QED BY <3>1, <3>2, <3>3, <3>5, <1>3, <1>7
  <2>. QED BY <2>1, <2>2
<1>11. Divides(f, longer, more, n) BY <1>8, <1>9, <1>10 DEF Divides
<1>12. Encodes(longer, more, n) BY <1>5, <1>11 DEF Encodes
<1>. QED BY <1>12 DEF longer, more, b

(* The bytes of the next stroke come first, whole.                         *)
LEMMA StrokeFirst ==
    ASSUME NEW stream \in Seq(Byte), NEW strokes \in Seq(Stroke),
           NEW n \in 0..Len(strokes), Encodes(stream, strokes, n), Len(stream) > 0
    PROVE  /\ n < Len(strokes)
           /\ StrokeBytes(strokes, n + 1) \in Seq(Byte)
           /\ Len(StrokeBytes(strokes, n + 1)) <= Len(stream)
           /\ \A i \in 1..Len(StrokeBytes(strokes, n + 1)) :
                stream[i] = StrokeBytes(strokes, n + 1)[i]
<1>1. PICK e \in [n..Len(strokes) -> 0..Len(stream)] : Divides(e, stream, strokes, n)
  BY DEF Encodes
<1>2. n < Len(strokes) BY <1>1 DEF Divides
<1>4. StrokeBytes(strokes, n + 1) \in Seq(Byte) BY <1>2, StrokeBytesAre
<1>5. n + 1 \in (n + 1)..Len(strokes) /\ n + 1 \in n..Len(strokes) /\ (n + 1) - 1 = n
  BY <1>2
<1>6. /\ e[n + 1] = e[n] + Len(StrokeBytes(strokes, n + 1))
      /\ \A i \in 1..Len(StrokeBytes(strokes, n + 1)) :
          stream[e[n] + i] = StrokeBytes(strokes, n + 1)[i]
      /\ e[n] = 0 /\ e[n + 1] <= Len(stream)
  <2>1. e[n + 1] \in 0..Len(stream) BY <1>1, <1>5
  <2>. QED BY <1>1, <1>5, <2>1 DEF Divides
<1>. QED BY <1>2, <1>4, <1>6

(* And without them the stream is that of the strokes that follow.         *)
LEMMA StrokeRemoved ==
    ASSUME NEW stream \in Seq(Byte), NEW strokes \in Seq(Stroke),
           NEW n \in 0..Len(strokes), Encodes(stream, strokes, n), Len(stream) > 0,
           NEW rest \in Seq(Byte), NEW size \in Nat,
           size = Len(StrokeBytes(strokes, n + 1)),
           Len(rest) = Len(stream) - size,
           \A i \in 1..Len(rest) : rest[i] = stream[size + i]
    PROVE  Encodes(rest, strokes, n + 1)
<1> DEFINE m == Len(strokes)
<1>1. PICK e \in [n..m -> 0..Len(stream)] : Divides(e, stream, strokes, n)
  BY DEF Encodes
<1>2. n < m /\ m \in Nat BY StrokeFirst
<1>3. n + 1 \in (n + 1)..m /\ n + 1 \in n..m /\ (n + 1) - 1 = n BY <1>2
<1>4. e[n + 1] = size /\ e[m] = Len(stream)
  <2>1. e[n + 1] = e[n] + size /\ e[n] = 0 BY <1>1, <1>3 DEF Divides
  <2>. QED BY <1>1, <2>1 DEF Divides
<1>5. \A j \in (n + 1)..m : e[j] \in size..Len(stream)
  <2> TAKE j \in (n + 1)..m
  <2>0. j \in n..m BY <1>2
  <2>1. e[j] \in 0..Len(stream) BY <1>1, <2>0
  <2>2. e[n + 1] <= e[j] BY <1>1, <1>3 DEF Divides
  <2>. QED BY <2>1, <2>2, <1>4
<1> DEFINE f == [j \in (n + 1)..m |-> e[j] - size]
<1>6. f \in [(n + 1)..m -> 0..Len(rest)] BY <1>5
<1>7. \A j \in (n + 1)..m : f[j] = e[j] - size OBVIOUS
<1> HIDE DEF f
<1>8. f[n + 1] = 0 /\ f[m] = Len(rest)
  <2>1. m \in (n + 1)..m BY <1>2
  <2>2. f[n + 1] = size - size BY <1>3, <1>4, <1>7
  <2>3. f[m] = Len(stream) - size BY <1>4, <1>7, <2>1
  <2>. QED BY <2>2, <2>3
<1>9. \A i, j \in (n + 1)..m : i <= j => f[i] <= f[j]
  <2> TAKE i, j \in (n + 1)..m
  <2> HAVE i <= j
  <2>1. i \in n..m /\ j \in n..m BY <1>2
  <2>2. e[i] <= e[j] BY <1>1, <2>1 DEF Divides
  <2>3. e[i] \in Int /\ e[j] \in Int /\ f[i] = e[i] - size /\ f[j] = e[j] - size
    BY <1>5, <1>7
  <2>4. ASSUME NEW x \in Int, NEW y \in Int, NEW z \in Int, x <= y PROVE x - z <= y - z
    BY ONLY <2>4
  <2>. QED BY <2>2, <2>3, <2>4
<1>10. ASSUME NEW j \in ((n + 1) + 1)..m
       PROVE  /\ f[j] = f[j - 1] + Len(StrokeBytes(strokes, j))
              /\ \A i \in 1..Len(StrokeBytes(strokes, j)) :
                  rest[f[j - 1] + i] = StrokeBytes(strokes, j)[i]
  <2>1. j \in (n + 1)..m /\ j - 1 \in (n + 1)..m BY <1>2
  <2>2. /\ e[j] = e[j - 1] + Len(StrokeBytes(strokes, j))
        /\ \A i \in 1..Len(StrokeBytes(strokes, j)) :
            stream[e[j - 1] + i] = StrokeBytes(strokes, j)[i]
    BY <2>1, <1>1 DEF Divides
  <2>3. /\ f[j] = e[j] - size /\ f[j - 1] = e[j - 1] - size
        /\ e[j] \in size..Len(stream) /\ e[j - 1] \in size..Len(stream)
    BY <2>1, <1>5, <1>7
  <2>4. Len(StrokeBytes(strokes, j)) \in Nat BY <2>1, StrokeBytesAre
  <2>5. ASSUME NEW i \in 1..Len(StrokeBytes(strokes, j))
        PROVE  rest[f[j - 1] + i] = stream[e[j - 1] + i]
    <3> DEFINE k == Len(StrokeBytes(strokes, j))
    <3>1. k \in Nat /\ i \in 1..k BY <2>4
    <3>2. /\ e[j - 1] \in Nat /\ Len(stream) \in Nat /\ e[j - 1] >= size
          /\ e[j - 1] + k <= Len(stream)
      <4>1. e[j] <= Len(stream) BY <2>3
      <4>2. e[j - 1] + k <= Len(stream) BY <2>2, <4>1
      <4>3. Len(stream) \in Nat OBVIOUS
      <4>4. e[j - 1] \in Nat /\ e[j - 1] >= size BY <2>3, <4>3
      <4>. QED BY <4>2, <4>3, <4>4
    <3> HIDE DEF k
    <3>3. /\ (e[j - 1] - size) + i \in 1..(Len(stream) - size)
          /\ size + ((e[j - 1] - size) + i) = e[j - 1] + i
      <4> DEFINE x == e[j - 1]
                 l == Len(stream)
      <4>1. x \in Nat /\ l \in Nat /\ x >= size /\ x + k <= l BY <3>2
      <4> HIDE DEF x, l
      <4>2. (x - size) + i \in 1..(l - size) /\ size + ((x - size) + i) = x + i
        BY ONLY <3>1, <4>1, size \in Nat
      <4>. QED BY <4>2 DEF x, l
    <3>4. f[j - 1] + i \in 1..Len(rest) /\ size + (f[j - 1] + i) = e[j - 1] + i
      BY <2>3, <3>3
    <3>. QED BY <3>4
  <2>6. f[j] = f[j - 1] + Len(StrokeBytes(strokes, j)) BY <2>2, <2>3, <2>4
  <2>. QED BY <2>2, <2>5, <2>6
<1>11. Divides(f, rest, strokes, n + 1) BY <1>8, <1>9, <1>10 DEF Divides
<1>. QED BY <1>6, <1>11 DEF Encodes

(* An element before a sequence.                                           *)
LEMMA Prepended ==
    ASSUME NEW T, NEW x \in T, NEW c \in Seq(T), NEW s, s = <<x>> \o c
    PROVE  /\ <<x>> \in Seq(T)
           /\ s \in Seq(T) /\ Len(s) = 1 + Len(c) /\ s[1] = x
           /\ \A i \in 1..Len(c) : c[i] = s[1 + i]
<1>1. <<x>> \in Seq(T) /\ Len(<<x>>) = 1 /\ <<x>>[1] = x OBVIOUS
<1>2. /\ s \in Seq(T) /\ Len(s) = 1 + Len(c)
      /\ \A i \in 1..(1 + Len(c)) : s[i] = IF i <= 1 THEN <<x>>[i] ELSE c[i - 1]
  BY <1>1, ConcatProperties
<1>3. Len(c) \in Nat OBVIOUS
<1>4. s[1] = x BY <1>1, <1>2, <1>3
<1>5. ASSUME NEW i \in 1..Len(c) PROVE c[i] = s[1 + i]
  <2>1. 1 + i \in 1..(1 + Len(c)) /\ ~(1 + i <= 1) /\ (1 + i) - 1 = i BY <1>3
  <2>. QED BY <1>2, <2>1
<1>. QED BY <1>1, <1>2, <1>4, <1>5

(* What goes before the bytes on the wire.                                 *)
LEMMA FrontTyped ==
    ASSUME NEW pending \in BOOLEAN, NEW byte \in Byte \cup {-1}
    PROVE  /\ (IF pending THEN <<EXTENDED_SCANCODE_PREFIX>> ELSE <<>>) \in Seq(Byte)
           /\ (IF byte = -1 THEN <<>> ELSE <<byte>>) \in Seq(Byte)
<1>1. \A x \in Byte : <<x>> \in Seq(Byte) BY Prepended, EmptySeq
<1>2. <<>> \in Seq(Byte) BY EmptySeq
<1>3. EXTENDED_SCANCODE_PREFIX \in Byte BY DEF EXTENDED_SCANCODE_PREFIX, Byte
<1>4. byte # -1 => byte \in Byte OBVIOUS
<1>. QED BY <1>1, <1>2, <1>3, <1>4

(* The stream, byte by byte: without anything to remember or to read,      *)
LEMMA StreamIdle ==
    ASSUME NEW bytes \in Seq(Byte)
    PROVE  StreamOf(FALSE, -1, bytes) = bytes
<1>1. StreamOf(FALSE, -1, bytes) = (<<>> \o <<>>) \o bytes BY DEF StreamOf
<1>2. <<>> \o <<>> = <<>> BY EmptySeq, ConcatEmptySeq
<1>. QED BY <1>1, <1>2, ConcatEmptySeq

(* with a byte to read,                                                    *)
LEMMA StreamByte ==
    ASSUME NEW byte \in Byte, NEW bytes \in Seq(Byte)
    PROVE  LET s == StreamOf(FALSE, byte, bytes)
           IN  /\ s \in Seq(Byte)
               /\ Len(s) = 1 + Len(bytes) /\ s[1] = byte
               /\ \A i \in 1..Len(bytes) : bytes[i] = s[1 + i]
<1> DEFINE s == StreamOf(FALSE, byte, bytes)
<1>1. byte # -1 BY DEF Byte
<1>2. s = (<<>> \o <<byte>>) \o bytes BY <1>1 DEF StreamOf
<1>3. <<byte>> \in Seq(Byte) BY Prepended, EmptySeq
<1>4. s = <<byte>> \o bytes BY <1>2, <1>3, ConcatEmptySeq
<1>5. /\ <<byte>> \o bytes \in Seq(Byte) /\ Len(<<byte>> \o bytes) = 1 + Len(bytes)
      /\ (<<byte>> \o bytes)[1] = byte
      /\ \A i \in 1..Len(bytes) : bytes[i] = (<<byte>> \o bytes)[1 + i]
  BY Prepended
<1>. QED BY <1>4, <1>5, Zenon

(* and with a prefix to remember before it.                                *)
LEMMA StreamPrefixed ==
    ASSUME NEW byte \in Byte, NEW bytes \in Seq(Byte)
    PROVE  LET s == StreamOf(TRUE, byte, bytes)
           IN  /\ s \in Seq(Byte)
               /\ Len(s) = 2 + Len(bytes)
               /\ s[1] = EXTENDED_SCANCODE_PREFIX /\ s[2] = byte
               /\ \A i \in 1..Len(bytes) : bytes[i] = s[2 + i]
<1> DEFINE s == StreamOf(TRUE, byte, bytes)
           p == EXTENDED_SCANCODE_PREFIX
           r == <<byte>> \o bytes
<1>1. p \in Byte /\ byte # -1 BY DEF EXTENDED_SCANCODE_PREFIX, Byte
<1> HIDE DEF p
<1>2. s = (<<p>> \o <<byte>>) \o bytes BY <1>1 DEF StreamOf, p
<1> HIDE DEF s
<1>3. s = <<p>> \o r
  <2>1. <<p>> \in Seq(Byte) /\ <<byte>> \in Seq(Byte) BY <1>1, Prepended, EmptySeq
  <2>2. (<<p>> \o <<byte>>) \o bytes = <<p>> \o (<<byte>> \o bytes)
    BY <2>1, ConcatAssociative
  <2>. QED BY <1>2, <2>2, Zenon
<1>4. /\ r \in Seq(Byte) /\ Len(r) = 1 + Len(bytes) /\ r[1] = byte
      /\ \A i \in 1..Len(bytes) : bytes[i] = r[1 + i]
  BY Prepended
<1> HIDE DEF r
<1>5. /\ s \in Seq(Byte) /\ Len(s) = 1 + Len(r) /\ s[1] = p
      /\ \A i \in 1..Len(r) : r[i] = s[1 + i]
  <2>1. /\ <<p>> \o r \in Seq(Byte) /\ Len(<<p>> \o r) = 1 + Len(r) /\ (<<p>> \o r)[1] = p
        /\ \A i \in 1..Len(r) : r[i] = (<<p>> \o r)[1 + i]
    BY <1>1, <1>4, Prepended
  <2>. QED BY <1>3, <2>1, Zenon
<1>6. Len(bytes) \in Nat OBVIOUS
<1>7. Len(s) = 2 + Len(bytes) /\ s[2] = byte
  <2>1. 1 \in 1..Len(r) /\ 1 + 1 = 2 /\ 1 + (1 + Len(bytes)) = 2 + Len(bytes) BY <1>4, <1>6
  <2>. QED BY <1>4, <1>5, <2>1
<1>8. ASSUME NEW i \in 1..Len(bytes) PROVE bytes[i] = s[2 + i]
  <2>1. 1 + i \in 1..Len(r) /\ 1 + (1 + i) = 2 + i BY <1>4, <1>6
  <2>2. bytes[i] = r[1 + i] /\ r[1 + i] = s[1 + (1 + i)] BY <1>4, <1>5, <2>1
  <2>. QED BY <2>1, <2>2
<1>. QED BY <1>5, <1>7, <1>8 DEF p, s

(* It is a sequence of bytes in any case.                                  *)
LEMMA StreamTyped ==
    ASSUME NEW pending \in BOOLEAN, NEW byte \in Byte \cup {-1}, NEW bytes \in Seq(Byte)
    PROVE  StreamOf(pending, byte, bytes) \in Seq(Byte)
BY FrontTyped, ConcatProperties DEF StreamOf

(* What is typed goes to the end of the stream.                            *)
LEMMA StreamGrows ==
    ASSUME NEW pending \in BOOLEAN, NEW byte \in Byte \cup {-1}, NEW bytes \in Seq(Byte),
           NEW more \in Seq(Byte)
    PROVE  StreamOf(pending, byte, bytes \o more) = StreamOf(pending, byte, bytes) \o more
<1> DEFINE front == (IF pending THEN <<EXTENDED_SCANCODE_PREFIX>> ELSE <<>>)
                        \o (IF byte = -1 THEN <<>> ELSE <<byte>>)
<1>1. front \in Seq(Byte)
  BY FrontTyped, ConcatProperties
<1>2. \A x : StreamOf(pending, byte, x) = front \o x BY DEF StreamOf
<1> HIDE DEF front
<1>3. (front \o bytes) \o more = front \o (bytes \o more)
  BY <1>1, ConcatAssociative
<1>. QED BY <1>2, <1>3

(* A byte that the controller takes over stays where it was in the stream. *)
LEMMA StreamMoves ==
    ASSUME NEW pending \in BOOLEAN, NEW bytes \in Seq(Byte), bytes # <<>>
    PROVE  /\ StreamOf(pending, Head(bytes), Tail(bytes)) = StreamOf(pending, -1, bytes)
           /\ Head(bytes) \in Byte /\ Tail(bytes) \in Seq(Byte)
<1> DEFINE front == IF pending THEN <<EXTENDED_SCANCODE_PREFIX>> ELSE <<>>
           h == Head(bytes)
           t == Tail(bytes)
<1>1. front \in Seq(Byte)
  <2>1. -1 \in Byte \cup {-1} OBVIOUS
  <2>. QED BY <2>1, FrontTyped
<1>2. h \in Byte /\ t \in Seq(Byte) /\ bytes = <<h>> \o t /\ h # -1
  <2>1. /\ h \in Byte /\ t \in Seq(Byte) /\ Len(t) = Len(bytes) - 1
        /\ \A i \in 1..Len(t) : t[i] = bytes[i + 1]
    BY HeadTailProperties
  <2>2. Len(bytes) \in Nat \ {0} /\ h = bytes[1] BY EmptySeq
  <2> DEFINE u == <<h>> \o t
  <2>3. /\ u \in Seq(Byte) /\ Len(u) = 1 + Len(t) /\ u[1] = h
        /\ \A i \in 1..Len(t) : t[i] = u[1 + i]
    BY <2>1, Prepended
  <2> HIDE DEF u, h, t
  <2>4. Len(u) = Len(bytes) BY <2>1, <2>2, <2>3
  <2>5. ASSUME NEW i \in 1..Len(bytes) PROVE bytes[i] = u[i]
    <3>1. CASE i = 1 BY <3>1, <2>2, <2>3
    <3>2. CASE i # 1
      <4>1. i - 1 \in 1..Len(t) /\ 1 + (i - 1) = i /\ (i - 1) + 1 = i BY <3>2, <2>1, <2>2
      <4>. QED BY <4>1, <2>1, <2>3
    <3>. QED BY <3>1, <3>2
  <2>6. bytes = u BY <2>3, <2>4, <2>5, SeqEqual
  <2>7. h # -1 BY <2>1 DEF Byte
  <2>. QED BY <2>1, <2>6, <2>7 DEF u
<1>3. /\ StreamOf(pending, h, t) = (front \o <<h>>) \o t
      /\ StreamOf(pending, -1, bytes) = (front \o <<>>) \o bytes
  BY <1>2 DEF StreamOf
<1> HIDE DEF front, h, t
<1>4. front \o <<>> = front /\ <<h>> \in Seq(Byte) BY <1>1, <1>2
<1>5. (front \o <<h>>) \o t = front \o (<<h>> \o t) BY <1>1, <1>2, <1>4, ConcatAssociative
<1>6. StreamOf(pending, h, t) = StreamOf(pending, -1, bytes) BY <1>2, <1>3, <1>4, <1>5
<1>. QED BY <1>2, <1>6 DEF h, t

(* A prefix byte stays there when the handler remembers it.                *)
LEMMA StreamKeepsPrefix ==
    ASSUME NEW bytes \in Seq(Byte)
    PROVE  StreamOf(TRUE, -1, bytes) = StreamOf(FALSE, EXTENDED_SCANCODE_PREFIX, bytes)
<1> DEFINE p == EXTENDED_SCANCODE_PREFIX
<1>1. p \in Byte /\ p # -1 BY DEF EXTENDED_SCANCODE_PREFIX, Byte
<1> HIDE DEF p
<1>2. /\ StreamOf(TRUE, -1, bytes) = (<<p>> \o <<>>) \o bytes
      /\ StreamOf(FALSE, p, bytes) = (<<>> \o <<p>>) \o bytes
  BY <1>1 DEF StreamOf, p
<1>3. <<p>> \o <<>> = <<>> \o <<p>> BY <1>1
<1>. QED BY <1>2, <1>3 DEF p

(***************************************************************************)
(* The steps.                                                              *)
(***************************************************************************)

(* Nothing is on the way, and nothing has been typed.                      *)
LEMMA InitDecode == Init => DecodeInv
<1> SUFFICES ASSUME Init PROVE DecodeInv OBVIOUS
<1> USE DEF Init
<1>1. NoEvent \in Event BY KeyboardAssumption DEF NoEvent, Event
<1>2. 0 \in Slots BY KBufferAssumption DEF Slots
<1>3. TypeOK BY <1>1, <1>2 DEF TypeOK, cyclic_buffer_init
<1>4. Len(typed) <= MAX_TYPED BY KeyboardAssumption
<1>5. EventsAreStrokes BY DEF EventsAreStrokes
<1>6. Encodes(Stream, typed, Len(pushed))
  <2>1. Stream = <<>>
    <3>1. <<>> \in Seq(Byte) BY EmptySeq
    <3>. QED BY <3>1, StreamIdle DEF Stream
  <2> DEFINE e == [j \in 0..0 |-> 0]
  <2>2. e \in [0..0 -> 0..0] /\ e[0] = 0 OBVIOUS
  <2> HIDE DEF e
  <2>3. Divides(e, <<>>, <<>>, 0) BY <2>2 DEF Divides
  <2>. QED BY <2>1, <2>2, <2>3 DEF Encodes
<1>. QED BY <1>3, <1>4, <1>5, <1>6 DEF DecodeInv

(* A step that neither types nor pushes, and leaves the stream as it is.   *)
LEMMA StreamKept ==
    ASSUME DecodeInv, TypeOK', Stream' = Stream, UNCHANGED <<typed, pushed>>
    PROVE  DecodeInv'
<1>1. EventsAreStrokes' BY DEF DecodeInv, EventsAreStrokes
<1>2. Encodes(Stream', typed', Len(pushed')) BY DEF DecodeInv
<1>. QED BY <1>1, <1>2 DEF DecodeInv

(* The device and the frame of the interrupt leave the rest alone.         *)
LEMMA DeviceTypes ==
    ASSUME TypeOK, UNCHANGED <<driver_vars, main_vars, pushed, overrun>>,
           wire' \in Seq(Byte), output' \in Byte \cup {-1}, requested' \in BOOLEAN,
           in_service' \in BOOLEAN, typed' \in Seq(Stroke),
           irq' \in {"off", "keyboard_handler", "eoi"}
    PROVE  TypeOK'
<1>1. /\ UNCHANGED <<installed, g_keyboard_buffer, g_extended_pending, modifiers>>
      /\ UNCHANGED <<pc, slot, event, tail, screen, delivered>>
      /\ UNCHANGED <<pushed, overrun>>
  BY DEF driver_vars, main_vars
<1>2. /\ installed' \in BOOLEAN /\ g_extended_pending' \in BOOLEAN /\ overrun' \in BOOLEAN
      /\ g_keyboard_buffer' \in [buffer : [Slots -> Event], head : Slots, tail : Slots]
      /\ modifiers' \in [shift : BOOLEAN, ctrl : BOOLEAN, alt : BOOLEAN, caps : BOOLEAN]
      /\ slot' \in Slots /\ tail' \in Slots /\ event' \in Event
  BY <1>1 DEF TypeOK
<1>3. /\ screen' \in Seq(KEYS \X BOOLEAN)
      /\ pushed' \in Seq(Event) /\ delivered' \in Seq(Event)
  BY <1>1 DEF TypeOK
<1>4. pc' \in {"boot", "irq_install", "has_event", "get_event", "pop", "copy",
               "copy scancode", "copy flags", "load tail", "store tail", "use"}
  BY <1>1 DEF TypeOK
<1>. QED BY <1>2, <1>3, <1>4, Port DEF TypeOK

(* A stroke adds its bytes.                                                *)
LEMMA TypeDecode == DecodeInv /\ Type => DecodeInv'
<1> SUFFICES ASSUME DecodeInv, Type PROVE DecodeInv' OBVIOUS
<1> USE DEF DecodeInv
<1>1. PICK key \in KEYS, pressed \in BOOLEAN :
        /\ typed' = Append(typed, [key |-> key, pressed |-> pressed])
        /\ wire' = wire \o Bytes(key, pressed)
  BY DEF Type
<1> DEFINE stroke == [key |-> key, pressed |-> pressed]
           b == Bytes(key, pressed)
<1>2. /\ stroke \in Stroke /\ stroke.key = key /\ stroke.pressed = pressed
      /\ b \in Seq(Byte)
  BY BytesAre DEF Stroke
<1>3. /\ UNCHANGED <<output, requested, driver_vars, handler_vars, main_vars, pushed, overrun>>
      /\ Len(typed) < MAX_TYPED
  BY DEF Type
<1>4. /\ wire \in Seq(Byte) /\ output \in Byte \cup {-1} /\ g_extended_pending \in BOOLEAN
      /\ typed \in Seq(Stroke) /\ pushed \in Seq(Event)
  BY Port DEF TypeOK
<1> HIDE DEF stroke, b
<1>5. wire' = wire \o b /\ typed' = Append(typed, stroke) BY <1>1 DEF b, stroke
<1>6. wire' \in Seq(Byte) /\ typed' \in Seq(Stroke) BY <1>2, <1>4, <1>5
<1>7. TypeOK'
  <2>1. TypeOK /\ UNCHANGED <<driver_vars, main_vars, pushed, overrun>> BY <1>3
  <2>2. output' \in Byte \cup {-1} /\ requested' \in BOOLEAN /\ in_service' \in BOOLEAN
        /\ irq' \in {"off", "keyboard_handler", "eoi"}
    BY <1>3, Port DEF TypeOK, handler_vars
  <2>. QED BY <2>1, <2>2, <1>6, DeviceTypes
<1>8. Len(typed') = Len(typed) + 1 /\ \A k \in 1..Len(typed) : typed'[k] = typed[k]
  BY <1>4, <1>5, <1>2
<1>9. Len(typed) \in Nat /\ Len(pushed) \in Nat BY <1>4
<1>10. Len(typed') <= MAX_TYPED BY <1>3, <1>8, <1>9, KeyboardAssumption
<1>11. EventsAreStrokes'
  BY <1>3, <1>8, <1>9 DEF EventsAreStrokes
<1>12. Stream' = Stream \o b
  BY <1>2, <1>3, <1>4, <1>5, StreamGrows DEF Stream, driver_vars
<1>13. Encodes(Stream', typed', Len(pushed'))
  <2>1. Stream \in Seq(Byte) BY <1>4, StreamTyped DEF Stream
  <2>2. Len(pushed) \in 0..Len(typed) BY <1>9 DEF EventsAreStrokes
  <2>3. Encodes(Stream \o b, Append(typed, stroke), Len(pushed))
    BY <2>1, <2>2, <1>2, <1>4, StrokeAppended DEF b
  <2>. QED BY <2>3, <1>3, <1>5, <1>12
<1>. QED BY <1>7, <1>10, <1>11, <1>13

(* A byte moves into the controller.                                       *)
LEMMA TransmitDecode == DecodeInv /\ Transmit => DecodeInv'
<1> SUFFICES ASSUME DecodeInv, Transmit PROVE DecodeInv' OBVIOUS
<1>1. /\ wire # <<>> /\ output = -1 /\ output' = Head(wire) /\ wire' = Tail(wire)
      /\ requested' = TRUE
      /\ UNCHANGED <<typed, driver_vars, handler_vars, main_vars, pushed, overrun>>
  BY DEF Transmit
<1>2. wire \in Seq(Byte) /\ g_extended_pending \in BOOLEAN BY Port DEF DecodeInv, TypeOK
<1>3. /\ StreamOf(g_extended_pending, Head(wire), Tail(wire)) = StreamOf(g_extended_pending, -1, wire)
      /\ Head(wire) \in Byte /\ Tail(wire) \in Seq(Byte)
  BY <1>1, <1>2, StreamMoves
<1>4. Stream' = Stream BY <1>1, <1>3 DEF Stream, driver_vars
<1>5. output' \in Byte \cup {-1} /\ wire' \in Seq(Byte) BY <1>1, <1>3
<1>6. TypeOK'
  <2>1. requested' \in BOOLEAN /\ in_service' \in BOOLEAN /\ typed' \in Seq(Stroke)
        /\ irq' \in {"off", "keyboard_handler", "eoi"}
    BY <1>1, Port DEF DecodeInv, TypeOK, handler_vars
  <2>. QED BY <1>1, <1>5, <2>1, DeviceTypes DEF DecodeInv
<1>. QED BY <1>1, <1>4, <1>6, StreamKept

(* The entry and the end of an interrupt.                                  *)
LEMMA IrqDecode == DecodeInv /\ (irq_handler \/ irq_return) => DecodeInv'
<1> SUFFICES ASSUME DecodeInv, irq_handler \/ irq_return PROVE DecodeInv' OBVIOUS
<1>1. UNCHANGED <<wire, output, g_extended_pending, typed, pushed>>
  BY DEF irq_handler, irq_return, device_vars, driver_vars
<1>2. Stream' = Stream BY <1>1 DEF Stream
<1>3. TypeOK'
  <2>1. UNCHANGED <<driver_vars, main_vars, pushed, overrun>> BY DEF irq_handler, irq_return
  <2>2. /\ requested' \in BOOLEAN /\ in_service' \in BOOLEAN
        /\ irq' \in {"off", "keyboard_handler", "eoi"}
    BY DEF DecodeInv, TypeOK, irq_handler, irq_return, pic_send_eoi, device_vars
  <2>3. wire' \in Seq(Byte) /\ output' \in Byte \cup {-1} /\ typed' \in Seq(Stroke)
    BY <1>1, Port DEF DecodeInv, TypeOK
  <2>. QED BY <2>1, <2>2, <2>3, DeviceTypes DEF DecodeInv
<1>. QED BY <1>1, <1>2, <1>3, StreamKept

(* The byte in the controller is the prefix of the next stroke, or, with   *)
(* what g_extended_pending says, the stroke.                               *)
LEMMA NextStroke ==
    ASSUME DecodeInv, output # -1, NEW n, n = Len(pushed)
    PROVE  /\ n \in Nat /\ n < Len(typed) /\ typed[n + 1] \in Stroke
           /\ output = EXTENDED_SCANCODE_PREFIX => ~g_extended_pending
           /\ output # EXTENDED_SCANCODE_PREFIX =>
                /\ typed[n + 1].key = (IF g_extended_pending THEN PREFIXED ELSE 0)
                                        + (output % RELEASED_SCANCODE_MASK)
                /\ typed[n + 1].pressed = ~(output >= RELEASED_SCANCODE_MASK)
                /\ Encodes(wire, typed, n + 1)
<1> DEFINE s == Stream
           key == typed[n + 1].key
           pressed == typed[n + 1].pressed
           b == StrokeBytes(typed, n + 1)
<1>1. /\ wire \in Seq(Byte) /\ output \in Byte \cup {-1} /\ g_extended_pending \in BOOLEAN
      /\ typed \in Seq(Stroke) /\ pushed \in Seq(Event)
  BY Port DEF DecodeInv, TypeOK
<1>2. Len(wire) \in Nat /\ n \in 0..Len(typed)
  BY <1>1 DEF DecodeInv, EventsAreStrokes
<1>3. /\ s \in Seq(Byte)
      /\ ~g_extended_pending =>
           /\ Len(s) = 1 + Len(wire) /\ s[1] = output
           /\ \A i \in 1..Len(wire) : wire[i] = s[1 + i]
      /\ g_extended_pending =>
           /\ Len(s) = 2 + Len(wire)
           /\ s[1] = EXTENDED_SCANCODE_PREFIX /\ s[2] = output
           /\ \A i \in 1..Len(wire) : wire[i] = s[2 + i]
  <2>1. s = StreamOf(g_extended_pending, output, wire) BY DEF Stream
  <2> HIDE DEF s
  <2>2. output \in Byte /\ wire \in Seq(Byte) BY <1>1
  <2>3. CASE g_extended_pending = FALSE
    <3>1. s = StreamOf(FALSE, output, wire) BY <2>1, <2>3
    <3>2. /\ s \in Seq(Byte) /\ Len(s) = 1 + Len(wire) /\ s[1] = output
          /\ \A i \in 1..Len(wire) : wire[i] = s[1 + i]
      BY <2>2, <3>1, StreamByte, ZenonT(40)
    <3>. QED BY <2>3, <3>2
  <2>4. CASE g_extended_pending = TRUE
    <3>1. s = StreamOf(TRUE, output, wire) BY <2>1, <2>4
    <3>2. /\ s \in Seq(Byte) /\ Len(s) = 2 + Len(wire)
          /\ s[1] = EXTENDED_SCANCODE_PREFIX /\ s[2] = output
          /\ \A i \in 1..Len(wire) : wire[i] = s[2 + i]
      BY <2>2, <3>1, StreamPrefixed, ZenonT(40)
    <3>. QED BY <2>4, <3>2
  <2>. QED BY <1>1, <2>3, <2>4
<1>4. Encodes(s, typed, n) BY DEF DecodeInv
<1> HIDE DEF s
<1>5. Len(s) > 0 BY <1>1, <1>2, <1>3
<1>6. /\ n < Len(typed) /\ b \in Seq(Byte) /\ Len(b) <= Len(s)
      /\ \A i \in 1..Len(b) : s[i] = b[i]
  BY <1>1, <1>2, <1>3, <1>4, <1>5, StrokeFirst
<1>7. typed[n + 1] \in Stroke
  <2>1. n + 1 \in 1..Len(typed) BY <1>2, <1>6
  <2>. QED BY <1>1, <2>1, ElementOfSeq
<1>8. key \in KEYS /\ pressed \in BOOLEAN BY <1>7 DEF Stroke
<1> HIDE DEF key, pressed
<1>9. b = Bytes(key, pressed) BY DEF StrokeBytes, key, pressed
<1> HIDE DEF b
<1>10. /\ Len(b) = IF key >= PREFIXED THEN 2 ELSE 1
       /\ key >= PREFIXED => b[1] = EXTENDED_SCANCODE_PREFIX
       /\ b[Len(b)] # EXTENDED_SCANCODE_PREFIX
       /\ (b[Len(b)] >= RELEASED_SCANCODE_MASK) = ~pressed
       /\ key = (IF key >= PREFIXED THEN PREFIXED ELSE 0)
                    + (b[Len(b)] % RELEASED_SCANCODE_MASK)
  BY <1>8, <1>9, BytesAre
<1>11. s[1] = b[1] /\ (key >= PREFIXED => s[2] = b[2]) BY <1>6, <1>10
<1>12. output = EXTENDED_SCANCODE_PREFIX => ~g_extended_pending
  BY <1>3, <1>10, <1>11
<1>13. ASSUME output # EXTENDED_SCANCODE_PREFIX
       PROVE  /\ (key >= PREFIXED) <=> g_extended_pending
              /\ b[Len(b)] = output
  BY <1>3, <1>10, <1>11, <1>13
<1>14. ASSUME output # EXTENDED_SCANCODE_PREFIX
       PROVE  Encodes(wire, typed, n + 1)
  <2> DEFINE size == Len(b)
  <2>1. /\ size \in Nat /\ Len(wire) = Len(s) - size
        /\ \A i \in 1..Len(wire) : wire[i] = s[size + i]
    BY <1>2, <1>3, <1>10, <1>13, <1>14
  <2>2. size = Len(StrokeBytes(typed, n + 1)) BY DEF b
  <2> HIDE DEF size
  <2>. QED BY <2>1, <2>2, <1>1, <1>2, <1>3, <1>4, <1>5, StrokeRemoved
<1>15. ASSUME output # EXTENDED_SCANCODE_PREFIX
       PROVE  /\ key = (IF g_extended_pending THEN PREFIXED ELSE 0)
                        + (output % RELEASED_SCANCODE_MASK)
              /\ pressed = ~(output >= RELEASED_SCANCODE_MASK)
  <2>1. key = (IF g_extended_pending THEN PREFIXED ELSE 0) + (output % RELEASED_SCANCODE_MASK)
    BY <1>10, <1>13, <1>15
  <2>2. (output >= RELEASED_SCANCODE_MASK) = ~pressed BY <1>10, <1>13, <1>15
  <2>. QED BY <2>1, <2>2, <1>8
<1>. QED BY <1>2, <1>6, <1>7, <1>12, <1>14, <1>15 DEF key, pressed

(* The record that handle_scancode pushes for the next stroke.             *)
LEMMA NewStroke ==
    ASSUME DecodeInv, output # -1, output # EXTENDED_SCANCODE_PREFIX,
           handle_scancode(output, g_extended_pending), NEW n, n = Len(pushed)
    PROVE  \E new \in Event :
             /\ new.n = n + 1
             /\ new.scancode = typed[n + 1].key
             /\ new.is_pressed = typed[n + 1].pressed
             /\ modifiers' \in Flags
             /\ g_keyboard_buffer' = cyclic_buffer_push(g_keyboard_buffer, new)
             /\ pushed' = Append(pushed, new)
             /\ overrun' = (overrun \/ cyclic_buffer_is_full(g_keyboard_buffer))
<1> DEFINE is_released == output >= RELEASED_SCANCODE_MASK
           scancode == (IF g_extended_pending THEN PREFIXED ELSE 0)
                            + (output % RELEASED_SCANCODE_MASK)
           now == modifiers_after(scancode, is_released)
           new == [n |-> n + 1, scancode |-> scancode,
                   is_pressed |-> ~is_released, shift_held |-> now.shift,
                   ctrl_held |-> now.ctrl, alt_held |-> now.alt, caps_locked |-> now.caps]
<1>1. /\ n \in Nat /\ n < Len(typed) /\ typed[n + 1] \in Stroke
      /\ typed[n + 1].key = scancode /\ typed[n + 1].pressed = ~is_released
  BY NextStroke
<1>2. scancode \in KEYS /\ is_released \in BOOLEAN BY <1>1 DEF Stroke
<1>3. n + 1 \in 0..MAX_TYPED
  <2>1. Len(typed) <= MAX_TYPED /\ typed \in Seq(Stroke) BY DEF DecodeInv, TypeOK
  <2>. QED BY <1>1, <2>1, KeyboardAssumption
<1>4. modifiers \in Flags BY DEF DecodeInv, TypeOK, Flags
<1>5. ASSUME NEW c, NEW r \in BOOLEAN PROVE modifiers_after(c, r) \in Flags
  BY <1>4 DEF modifiers_after, Flags
<1>6. now \in Flags BY <1>2, <1>5
<1>7. /\ modifiers' = now
      /\ g_keyboard_buffer' = cyclic_buffer_push(g_keyboard_buffer, new)
      /\ pushed' = Append(pushed, new)
      /\ overrun' = (overrun \/ cyclic_buffer_is_full(g_keyboard_buffer))
  BY DEF handle_scancode
<1> HIDE DEF now, scancode, is_released
<1>8. /\ now.shift \in BOOLEAN /\ now.ctrl \in BOOLEAN
      /\ now.alt \in BOOLEAN /\ now.caps \in BOOLEAN
  BY <1>6 DEF Flags
<1>9. new \in Event BY <1>2, <1>3, <1>8 DEF Event
<1>10. new.n = n + 1 /\ new.scancode = scancode /\ new.is_pressed = ~is_released OBVIOUS
<1> HIDE DEF new
<1>. QED BY <1>1, <1>6, <1>7, <1>9, <1>10

(* One iteration of the loop of keyboard_handler.                          *)
LEMMA HandlerDecode == DecodeInv /\ keyboard_handler => DecodeInv'
<1> SUFFICES ASSUME DecodeInv, keyboard_handler PROVE DecodeInv' OBVIOUS
<1>1. /\ output' = -1 /\ irq = "keyboard_handler"
      /\ UNCHANGED <<wire, requested, typed, in_service, main_vars>>
  BY DEF keyboard_handler
<1>2. /\ wire \in Seq(Byte) /\ output \in Byte \cup {-1} /\ requested \in BOOLEAN
      /\ typed \in Seq(Stroke) /\ in_service \in BOOLEAN /\ g_extended_pending \in BOOLEAN
      /\ pushed \in Seq(Event) /\ TypeOK
  BY Port DEF DecodeInv, TypeOK
<1>3. output' \in Byte \cup {-1} /\ wire' \in Seq(Byte) BY <1>1, <1>2
<1>4. CASE output = -1 /\ irq' = "eoi" /\ UNCHANGED <<driver_vars, pushed, overrun>>
  <2>1. TypeOK' BY <1>1, <1>2, <1>3, <1>4, DeviceTypes
  <2>2. Stream' = Stream BY <1>1, <1>4 DEF Stream, driver_vars
  <2>. QED BY <1>1, <1>4, <2>1, <2>2, StreamKept
<1>5. CASE /\ output = EXTENDED_SCANCODE_PREFIX /\ g_extended_pending' = TRUE /\ irq' = "eoi"
           /\ UNCHANGED <<installed, g_keyboard_buffer, modifiers, pushed, overrun>>
  <2>1. TypeOK'
    <3>1. UNCHANGED <<pc, slot, event, tail, screen, delivered>> BY <1>1 DEF main_vars
    <3>2. /\ installed' \in BOOLEAN /\ overrun' \in BOOLEAN
          /\ g_keyboard_buffer' \in [buffer : [Slots -> Event], head : Slots, tail : Slots]
          /\ modifiers' \in [shift : BOOLEAN, ctrl : BOOLEAN, alt : BOOLEAN, caps : BOOLEAN]
      BY <1>2, <1>5 DEF TypeOK
    <3>. QED BY <1>1, <1>2, <1>3, <1>5, <3>1, <3>2, Port DEF TypeOK
  <2>2. output # -1 BY <1>5 DEF EXTENDED_SCANCODE_PREFIX
  <2>3. g_extended_pending = FALSE BY <1>2, <1>5, <2>2, NextStroke
  <2>4. Stream' = Stream BY <1>1, <1>2, <1>5, <2>3, StreamKeepsPrefix DEF Stream
  <2>. QED BY <1>1, <1>5, <2>1, <2>4, StreamKept
<1>6. CASE /\ output \notin {-1, EXTENDED_SCANCODE_PREFIX}
           /\ handle_scancode(output, g_extended_pending)
           /\ g_extended_pending' = FALSE /\ UNCHANGED <<installed, irq>>
  <2> DEFINE n == Len(pushed)
             cb == g_keyboard_buffer
  <2>1. /\ n \in Nat /\ n < Len(typed) /\ Encodes(wire, typed, n + 1)
    BY <1>6, NextStroke
  <2>2. PICK new \in Event :
             /\ new.n = n + 1
             /\ new.scancode = typed[n + 1].key
             /\ new.is_pressed = typed[n + 1].pressed
             /\ modifiers' \in Flags
             /\ g_keyboard_buffer' = cyclic_buffer_push(g_keyboard_buffer, new)
             /\ pushed' = Append(pushed, new)
             /\ overrun' = (overrun \/ cyclic_buffer_is_full(g_keyboard_buffer))
    BY <1>6, NewStroke
  <2>3. /\ pushed' \in Seq(Event) /\ Len(pushed') = n + 1 /\ pushed'[n + 1] = new
        /\ \A k \in 1..n : pushed'[k] = pushed[k]
    BY <1>2, <2>2
  <2>4. cb' \in [buffer : [Slots -> Event], head : Slots, tail : Slots]
    <3>1. cb.buffer \in [Slots -> Event] /\ cb.head \in Slots /\ cb.tail \in Slots
      BY <1>2 DEF TypeOK
    <3>2. NextSlot(cb.head) \in Slots /\ NextSlot(cb.tail) \in Slots BY <3>1, NextSlotIs
    <3>3. [cb.buffer EXCEPT ![cb.head] = new] \in [Slots -> Event] BY <3>1
    <3>. QED BY <2>2, <3>1, <3>2, <3>3 DEF cyclic_buffer_push
  <2>5. TypeOK'
    <3>1. UNCHANGED <<pc, slot, event, tail, screen, delivered>> BY <1>1 DEF main_vars
    <3>2. overrun' \in BOOLEAN BY <1>2, <2>2 DEF TypeOK, cyclic_buffer_is_full
    <3>. QED BY <1>1, <1>2, <1>3, <1>6, <2>2, <2>3, <2>4, <3>1, <3>2, Port DEF TypeOK, Flags
  <2>6. Stream' = wire
    <3>1. StreamOf(FALSE, -1, wire) = wire BY <1>2, StreamIdle
    <3>. QED BY <1>1, <1>6, <3>1 DEF Stream
  <2>7. EventsAreStrokes'
    <3>1. \A k \in 1..n : /\ pushed[k].n = k
                          /\ pushed[k].scancode = typed[k].key
                          /\ pushed[k].is_pressed = typed[k].pressed
      BY DEF DecodeInv, EventsAreStrokes
    <3>2. ASSUME NEW k \in 1..(n + 1)
          PROVE  /\ pushed'[k].n = k
                 /\ pushed'[k].scancode = typed[k].key
                 /\ pushed'[k].is_pressed = typed[k].pressed
      <4>1. CASE k = n + 1 BY <4>1, <2>2, <2>3
      <4>2. CASE k # n + 1
        <5>1. k \in 1..n BY <4>2, <2>1
        <5>. QED BY <5>1, <3>1, <2>3
      <4>. QED BY <4>1, <4>2
    <3>3. n + 1 <= Len(typed) BY <1>2, <2>1
    <3>. QED BY <1>1, <2>3, <3>2, <3>3 DEF EventsAreStrokes
  <2>8. Encodes(Stream', typed', Len(pushed')) BY <1>1, <2>1, <2>3, <2>6
  <2>9. Len(typed') <= MAX_TYPED BY <1>1 DEF DecodeInv
  <2>. QED BY <2>5, <2>7, <2>8, <2>9 DEF DecodeInv
<1>. QED BY <1>4, <1>5, <1>6 DEF keyboard_handler

(* keyboard_init and the steps of kernel_main touch nothing on the way.    *)
LEMMA MainDecode == DecodeInv /\ Main => DecodeInv'
<1> SUFFICES ASSUME DecodeInv, Main PROVE DecodeInv' OBVIOUS
<1> DEFINE cb == g_keyboard_buffer
           source == cb.buffer[slot]
<1>1. UNCHANGED <<wire, output, requested, typed, irq, in_service, pushed, overrun>>
  BY DEF Main, device_vars, handler_vars
<1>2. TypeOK BY DEF DecodeInv
<1>3. /\ cb.buffer \in [Slots -> Event] /\ cb.head \in Slots /\ cb.tail \in Slots
      /\ slot \in Slots /\ tail \in Slots /\ event \in Event /\ source \in Event
      /\ cb = [buffer |-> cb.buffer, head |-> cb.head, tail |-> cb.tail]
  BY <1>2 DEF TypeOK
<1>4. NoEvent \in Event BY KeyboardAssumption DEF NoEvent, Event
<1>5. 0 \in 0..MAX_TYPED BY KeyboardAssumption
<1>6. UNCHANGED <<g_extended_pending, modifiers>>
  BY DEF Main, keyboard_init_buffer, irq_install, check_event, copy_source, copy_scancode,
         copy_flags, load_tail, store_tail, use_event, driver_vars
<1>7. installed' \in BOOLEAN
  BY <1>2 DEF TypeOK, Main, keyboard_init_buffer, irq_install, check_event, copy_source,
         copy_scancode, copy_flags, load_tail, store_tail, use_event, driver_vars
<1>8. cb' \in [buffer : [Slots -> Event], head : Slots, tail : Slots]
  <2>1. CASE keyboard_init_buffer
    <3>1. 0 \in Slots BY KBufferAssumption DEF Slots
    <3>. QED BY <1>3, <2>1, <3>1 DEF keyboard_init_buffer, cyclic_buffer_init
  <2>2. CASE store_tail
    <3>1. tail_after(tail) \in Slots BY <1>3, NextSlotIs DEF tail_after
    <3>2. cb \in [buffer : [Slots -> Event], head : Slots, tail : Slots] BY <1>2 DEF TypeOK
    <3>3. cb' = [cb EXCEPT !.tail = tail_after(tail)] BY <2>2 DEF store_tail
    <3>. QED BY <3>1, <3>2, <3>3
  <2>3. CASE UNCHANGED g_keyboard_buffer BY <1>2, <2>3 DEF TypeOK
  <2>. QED
    BY <2>1, <2>2, <2>3
    DEF Main, irq_install, check_event, copy_source, copy_scancode, copy_flags, load_tail,
        use_event, driver_vars
<1>9. slot' \in Slots /\ tail' \in Slots
  BY <1>3 DEF Main, keyboard_init_buffer, irq_install, check_event, copy_source,
         copy_scancode, copy_flags, load_tail, store_tail, use_event, driver_vars
<1>10. event' \in Event
  <2>1. CASE check_event BY <1>4, <2>1 DEF check_event
  <2>2. CASE copy_scancode BY <1>3, <2>2 DEF copy_scancode, Event
  <2>3. CASE copy_flags BY <1>3, <1>5, <2>3 DEF copy_flags, Event
  <2>4. CASE UNCHANGED event BY <1>3, <2>4
  <2>. QED
    BY <2>1, <2>2, <2>3, <2>4
    DEF Main, keyboard_init_buffer, irq_install, copy_source, load_tail, store_tail, use_event
<1>11. delivered' \in Seq(Event)
  <2>0. delivered \in Seq(Event) BY <1>2 DEF TypeOK
  <2>1. CASE store_tail
    <3>1. delivered' = Append(delivered, event) BY <2>1 DEF store_tail
    <3>. QED BY <1>3, <2>0, <3>1, AppendProperties
  <2>2. CASE UNCHANGED delivered BY <2>0, <2>2
  <2>. QED
    BY <2>1, <2>2
    DEF Main, keyboard_init_buffer, irq_install, check_event, copy_source, copy_scancode,
        copy_flags, load_tail, use_event
<1>12. screen' \in Seq(KEYS \X BOOLEAN)
  <2>0. screen \in Seq(KEYS \X BOOLEAN) BY <1>2 DEF TypeOK
  <2>1. CASE use_event
    <3>1. event.is_pressed /\ HasAscii(event) => event.scancode \in KEYS
      <4>1. 0 \notin Shifted /\ 0 \notin Plain BY DEF Shifted, Plain
      <4>. QED BY <1>3, <4>1 DEF HasAscii, Event
    <3>2. UsesShift(event) \in BOOLEAN BY <1>3 DEF UsesShift, Event
    <3>3. event.is_pressed /\ HasAscii(event)
            => <<event.scancode, UsesShift(event)>> \in KEYS \X BOOLEAN
      BY <3>1, <3>2
    <3>4. \A x \in KEYS \X BOOLEAN : Append(screen, x) \in Seq(KEYS \X BOOLEAN)
      BY <2>0
    <3>. QED BY <2>0, <2>1, <3>3, <3>4 DEF use_event
  <2>2. CASE UNCHANGED screen BY <2>0, <2>2
  <2>. QED
    BY <2>1, <2>2
    DEF Main, keyboard_init_buffer, irq_install, check_event, copy_source, copy_scancode,
        copy_flags, load_tail, store_tail
<1>13. pc' \in {"boot", "irq_install", "has_event", "get_event", "pop", "copy",
                "copy scancode", "copy flags", "load tail", "store tail", "use"}
  BY CheckCases
  DEF Main, keyboard_init_buffer, irq_install, copy_source, copy_scancode, copy_flags,
      load_tail, store_tail, use_event
<1>14. /\ wire' \in Seq(Byte) /\ output' \in Byte \cup {-1} /\ typed' \in Seq(Stroke)
       /\ requested' \in BOOLEAN /\ in_service' \in BOOLEAN
       /\ irq' \in {"off", "keyboard_handler", "eoi"}
       /\ pushed' \in Seq(Event) /\ overrun' \in BOOLEAN
       /\ g_extended_pending' \in BOOLEAN
       /\ modifiers' \in [shift : BOOLEAN, ctrl : BOOLEAN, alt : BOOLEAN, caps : BOOLEAN]
  BY <1>1, <1>2, <1>6, Port DEF TypeOK
<1>15. TypeOK'
  BY <1>7, <1>8, <1>9, <1>10, <1>11, <1>12, <1>13, <1>14, Port DEF TypeOK
<1>16. Stream' = Stream BY <1>1, <1>6 DEF Stream
<1>. QED BY <1>1, <1>15, <1>16, StreamKept

(* The invariant is inductive.                                             *)
LEMMA DecodeStep == DecodeInv /\ [Next]_vars => DecodeInv'
<1> SUFFICES ASSUME DecodeInv, [Next]_vars PROVE DecodeInv' OBVIOUS
<1>1. CASE Type BY <1>1, TypeDecode
<1>2. CASE Transmit BY <1>2, TransmitDecode
<1>3. CASE Interrupt BY <1>3, IrqDecode, HandlerDecode DEF Interrupt
<1>4. CASE Main BY <1>4, MainDecode
<1>5. CASE UNCHANGED vars
  <2>1. UNCHANGED <<device_vars, driver_vars, handler_vars, main_vars, pushed, overrun>>
    BY <1>5 DEF vars
  <2>2. Stream' = Stream BY <2>1 DEF Stream, device_vars, driver_vars
  <2>3. /\ wire' \in Seq(Byte) /\ output' \in Byte \cup {-1} /\ typed' \in Seq(Stroke)
        /\ requested' \in BOOLEAN /\ in_service' \in BOOLEAN
        /\ irq' \in {"off", "keyboard_handler", "eoi"}
    BY <2>1, Port DEF DecodeInv, TypeOK, device_vars, handler_vars
  <2>4. TypeOK' BY <2>1, <2>3, DeviceTypes DEF DecodeInv
  <2>. QED BY <2>1, <2>2, <2>4, StreamKept DEF device_vars
<1>. QED BY <1>1, <1>2, <1>3, <1>4, <1>5 DEF Next

(* The invariant holds from boot on.                                       *)
THEOREM DecodeInvariant == Spec => []DecodeInv
<1>1. Init => DecodeInv BY InitDecode
<1>2. DecodeInv /\ [Next]_vars => DecodeInv' BY DecodeStep
<1>. QED BY <1>1, <1>2, PTL DEF Spec

(* Every variable of the driver, of cyclic_buffer_t and of kernel_main     *)
(* stays in its type: the bytes are bytes, the indices are in the buffer,  *)
(* and every scancode that an event carries is one of a key that was used. *)
THEOREM KeyboardTypeTheorem == Spec => []TypeOK
<1>1. DecodeInv => TypeOK BY DEF DecodeInv
<1>. QED BY <1>1, DecodeInvariant, PTL

(* keyboard_handler and handle_scancode decode what the keyboard sends:    *)
(* the k-th event has the key of the k-th stroke and says whether it was   *)
(* pressed or released, with or without a prefix, whatever the interrupts  *)
(* interrupt and whenever the driver is installed.                         *)
THEOREM DecodeTheorem == Spec => []EventsAreStrokes
<1>1. DecodeInv => EventsAreStrokes BY DEF DecodeInv
<1>. QED BY <1>1, DecodeInvariant, PTL

(* From end to end: what kernel_main has taken out of the buffer, unless   *)
(* an event was put into a full one.                                       *)
DeliveredAreStrokes ==
    ~overrun =>
        /\ Len(delivered) <= Len(typed)
        /\ \A k \in 1..Len(delivered) :
            /\ delivered[k].scancode = typed[k].key
            /\ delivered[k].is_pressed = typed[k].pressed

(* As long as no event was put into a full buffer, the k-th event that     *)
(* keyboard_get_event gives to kernel_main is the k-th stroke.             *)
THEOREM DeliveryTheorem == Spec => []DeliveredAreStrokes
<1>1. KeyboardInv /\ DecodeInv => DeliveredAreStrokes
  <2> SUFFICES ASSUME KeyboardInv, DecodeInv, ~overrun
               PROVE  /\ Len(delivered) <= Len(typed)
                      /\ \A k \in 1..Len(delivered) :
                          /\ delivered[k].scancode = typed[k].key
                          /\ delivered[k].is_pressed = typed[k].pressed
    BY DEF DeliveredAreStrokes
  <2> DEFINE c == Contents(g_keyboard_buffer)
  <2>1. delivered \o c = pushed BY DEF KeyboardInv, FifoUnlessOverrun
  <2>2. c \in Seq(AnyEvent) /\ delivered \in Seq(AnyEvent)
    BY ContentsTyped DEF KeyboardInv, WeakTypes
  <2> HIDE DEF c
  <2>3. /\ Len(pushed) = Len(delivered) + Len(c)
        /\ \A i \in 1..(Len(delivered) + Len(c)) :
            pushed[i] = IF i <= Len(delivered) THEN delivered[i] ELSE c[i - Len(delivered)]
    BY <2>1, <2>2, ConcatProperties
  <2>4. Len(delivered) \in Nat /\ Len(c) \in Nat /\ Len(typed) \in Nat
    <3>1. typed \in Seq(Stroke) BY DEF DecodeInv, TypeOK
    <3>. QED BY <2>2, <3>1
  <2>5. Len(delivered) <= Len(pushed) /\ Len(pushed) <= Len(typed)
    BY <2>3, <2>4 DEF DecodeInv, EventsAreStrokes
  <2>6. ASSUME NEW k \in 1..Len(delivered) PROVE k \in 1..Len(pushed) /\ pushed[k] = delivered[k]
    BY <2>3, <2>4
  <2>7. \A k \in 1..Len(pushed) : /\ pushed[k].scancode = typed[k].key
                                  /\ pushed[k].is_pressed = typed[k].pressed
    BY DEF DecodeInv, EventsAreStrokes
  <2>8. Len(delivered) <= Len(typed) BY <2>3, <2>4, <2>5
  <2>. QED BY <2>6, <2>7, <2>8
<1>. QED BY <1>1, KeyboardInvariant, DecodeInvariant, PTL
=============================================================================
