----------------------------- MODULE MCKeyboard -----------------------------
(* Instances of Keyboard for TLC, and what the documentation of the driver *)
(* says of it that the code does not do.                                   *)
EXTENDS Keyboard

(* The letter A, which also stands for every other key with a character in *)
(* both tables, a modifier of each kind, one of them with a prefix.        *)
KeysMC == {30, SCANCODE_LEFT_SHIFT, SCANCODE_CAPS_LOCK, SCANCODE_RIGHT_CTRL}
LetterMC == {30}

(* keyboard.h: keyboard_get_event "pops the next `keyboard_event_t` from   *)
(* the internal buffer".  When the buffer is full, the handler moves the   *)
(* tail and overwrites the slot that cyclic_buffer_pop is reading.         *)
DeliversInOrder ==
    \A i \in DOMAIN delivered :
        delivered[i].n > IF i = 1 THEN 0 ELSE delivered[i - 1].n
=============================================================================
