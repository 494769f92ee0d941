------------------------------- MODULE Format -------------------------------
(***************************************************************************)
(* kvsnprintf of kstdio.c and the cursor of kcursor.c it writes with, as   *)
(* functions of what they are given.  A character is its code, a string a  *)
(* sequence of them without the terminator.                                *)
(***************************************************************************)
EXTENDS Integers, Sequences, SequencesExt

CONSTANT NIBBLES        \* hexadecimal digits of a word: 8

ASSUME FormatAssumption == NIBBLES \in Nat \ {0}

(* The values of uint32_t.                                                 *)
WORD == 16^NIBBLES

NUL == 0
NULL_STRING == <<78, 85, 76, 76>>
(* The NULL pointer as an argument of %s.                                  *)
NULL == <<-1>>

(* Characters that the code names.                                         *)
PERCENT == 37
HASH == 35
MINUS == 45
ZERO == 48
Specifier == [d |-> 100, i |-> 105, u |-> 117, x |-> 120, X |-> 88, p |-> 112, s |-> 115, c |-> 99]

(***************************************************************************)
(* The cursor: what is before `current', and the bytes between `start' and *)
(* `end'.  Every caller stops at a write that fails, and `ok' says that    *)
(* none has.                                                               *)
(***************************************************************************)

kcursor_init(size) == [written |-> <<>>, size |-> size, ok |-> size # 0]

kcursor_remaining(cursor) == cursor.size - Len(cursor.written)

kcursor_write_byte(cursor, value) ==
    IF cursor.ok /\ kcursor_remaining(cursor) > 0
    THEN [cursor EXCEPT !.written = Append(@, value % 256)]
    ELSE [cursor EXCEPT !.ok = FALSE]

(* All or nothing.                                                         *)
kcursor_write(cursor, source) ==
    IF cursor.ok /\ Len(source) <= kcursor_remaining(cursor)
    THEN [cursor EXCEPT !.written = @ \o source]
    ELSE [cursor EXCEPT !.ok = FALSE]

(* Byte after byte, until one fails.                                       *)
write_bytes(cursor, bytes) == FoldLeft(kcursor_write_byte, cursor, bytes)

(***************************************************************************)
(* Numbers.                                                                *)
(***************************************************************************)

(* The divisor of the leading digit, and the digits from a divisor on.     *)
leading_divisor[temp \in Nat] == IF temp >= 10 THEN 10 * leading_divisor[temp \div 10] ELSE 1

digits[value \in Nat, divisor \in Nat] ==
    IF divisor = 0 THEN <<>>
    ELSE <<ZERO + value \div divisor>> \o digits[value % divisor, divisor \div 10]

write_u32_dec(cursor, value) == write_bytes(cursor, digits[value, leading_divisor[value]])

(* int32_t from the argument's bits; 0U - value for a negative one.        *)
is_negative(value) == value >= WORD \div 2

(* INT_MIN has no negative in int32_t: a value that stays what it was.     *)
write_i32_dec_signed(cursor, value) ==
    IF is_negative(value)
    THEN write_u32_dec(kcursor_write_byte(cursor, MINUS), (WORD - value) % (WORD \div 2))
    ELSE write_u32_dec(cursor, value)

write_i32_dec(cursor, value) ==
    IF is_negative(value)
    THEN write_u32_dec(kcursor_write_byte(cursor, MINUS), (WORD - value) % WORD)
    ELSE write_u32_dec(cursor, value)

hex_digit(digit, uppercase) ==
    IF digit < 10 THEN ZERO + digit ELSE (IF uppercase THEN 65 ELSE 97) + digit - 10

write_hex_nibbles(cursor, value, nibbles, uppercase, alternate_form) ==
    write_bytes(cursor,
        (IF alternate_form THEN <<ZERO, IF uppercase THEN Specifier.X ELSE Specifier.x>> ELSE <<>>)
        \o [i \in 1..nibbles |-> hex_digit((value \div 16^(nibbles - i)) % 16, uppercase)])

hex_digit_count[value \in Nat] == IF value \div 16 = 0 THEN 1 ELSE 1 + hex_digit_count[value \div 16]

write_u32_hex(cursor, value, uppercase, alternate_form) ==
    write_hex_nibbles(cursor, value, hex_digit_count[value], uppercase, alternate_form)

write_pointer(cursor, value) == write_hex_nibbles(cursor, value, NIBBLES, FALSE, TRUE)

(***************************************************************************)
(* kvsnprintf.  The loop over the format, with the arguments that are left *)
(* and what was read of a conversion.                                      *)
(***************************************************************************)

(* A specifier after '%' or, with alternate_form, after '%#'.              *)
convert(cursor, current, alternate_form, args) ==
    CASE current \in {Specifier.d, Specifier.i} -> write_i32_dec(cursor, Head(args))
      [] current = Specifier.u -> write_u32_dec(cursor, Head(args))
      [] current \in {Specifier.x, Specifier.X} ->
            write_u32_hex(cursor, Head(args), current = Specifier.X, alternate_form)
      [] current = Specifier.p -> write_pointer(cursor, Head(args))
      [] current = Specifier.s ->
            kcursor_write(cursor, IF Head(args) = NULL THEN NULL_STRING ELSE Head(args))
      [] current = Specifier.c -> kcursor_write_byte(cursor, Head(args))
      [] current = PERCENT -> kcursor_write_byte(cursor, PERCENT)
      [] OTHER -> write_bytes(cursor, <<PERCENT, current>>)

takes_argument(current) == \E s \in DOMAIN Specifier : Specifier[s] = current

scan(state, current) ==
    IF ~state.cursor.ok THEN state
    ELSE CASE state.seen = "text" /\ current # PERCENT ->
                [state EXCEPT !.cursor = kcursor_write_byte(@, current)]
           [] state.seen = "text" /\ current = PERCENT -> [state EXCEPT !.seen = "percent"]
           [] state.seen = "percent" /\ current = HASH -> [state EXCEPT !.seen = "alternate"]
           [] OTHER ->
                [cursor |-> convert(state.cursor, current, state.seen = "alternate", state.args),
                 seen |-> "text",
                 args |-> IF takes_argument(current) THEN Tail(state.args) ELSE state.args]

(* The bytes it puts into the buffer, and what it returns.  A size of one  *)
(* is a cursor of no bytes, which kcursor_init refuses.                    *)
kvsnprintf(size, format, args) ==
    LET cursor == kcursor_init(size - 1)
        written == FoldLeft(scan, [cursor |-> cursor, seen |-> "text", args |-> args],
                            format).cursor.written
    IN  IF size = 0 \/ ~cursor.ok
        THEN [bytes |-> <<>>, returns |-> 0]
        ELSE [bytes |-> Append(written, NUL), returns |-> Len(written) + 1]
=============================================================================
