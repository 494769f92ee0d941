-------------------------------- MODULE Vga ---------------------------------
(***************************************************************************)
(* The text console, kernel/src/drivers/vga.c, as functions of its state:  *)
(* the cells of the screen, the position of the next character, the colour *)
(* in use, and the two cursor registers of the CRT controller.             *)
(***************************************************************************)
EXTENDS Integers, Sequences, SequencesExt

CONSTANTS
    VGA_WIDTH,      \* 80
    VGA_HEIGHT,     \* 25
    BYTE            \* what a cursor register can hold: 256

ASSUME VgaAssumption ==
    /\ VGA_WIDTH \in Nat \ {0}
    /\ VGA_HEIGHT \in Nat \ {0}
    /\ BYTE \in Nat \ {0}
    /\ VGA_WIDTH * VGA_HEIGHT <= BYTE * BYTE

NEWLINE == 10
SPACE == 32
VGA_COLOR_BLACK == 0
VGA_COLOR_LIGHT_GREY == 7

Cells == 0..(VGA_WIDTH * VGA_HEIGHT - 1)

(* `char' is signed: a code above 127 is sign-extended into the colour.    *)
vga_entry(character, color) ==
    [character |-> character, color |-> IF character >= 128 THEN 255 ELSE color]

cursor_registers(position) == [low |-> position % BYTE, high |-> (position \div BYTE) % BYTE]

vga_set_cursor(vga, row, column) ==
    LET registers == cursor_registers(row * VGA_WIDTH + column)
    IN  IF row >= VGA_HEIGHT \/ column >= VGA_WIDTH THEN vga
        ELSE [vga EXCEPT !.g_row = row, !.g_column = column,
                         !.cursor_low = registers.low, !.cursor_high = registers.high]

(* A scroll that leaves the last row as it was.                            *)
vga_scroll_keeps(vga) ==
    vga_set_cursor(
        [vga EXCEPT !.g_vga_memory =
            [i \in Cells |-> IF i + VGA_WIDTH \in Cells THEN @[i + VGA_WIDTH] ELSE @[i]]],
        VGA_HEIGHT - 1, vga.g_column)

(* Rows move up, the last is blank.                                        *)
vga_scroll(vga) ==
    vga_set_cursor(
        [vga EXCEPT !.g_vga_memory =
            [i \in Cells |-> IF i + VGA_WIDTH \in Cells THEN @[i + VGA_WIDTH]
                             ELSE vga_entry(SPACE, vga.g_current_color)]],
        VGA_HEIGHT - 1, vga.g_column)

vga_set_color(vga, foreground, background) ==
    [vga EXCEPT !.g_current_color = foreground + 16 * background]

vga_clear(vga) ==
    vga_set_cursor(
        [vga EXCEPT !.g_vga_memory = [i \in Cells |-> vga_entry(SPACE, vga.g_current_color)]],
        0, 0)

vga_init(vga) == vga_clear(vga_set_color(vga, VGA_COLOR_LIGHT_GREY, VGA_COLOR_BLACK))

(* A new row that resets the column only after the scroll.                 *)
next_row_late(vga) ==
    LET down == [vga EXCEPT !.g_row = @ + 1]
    IN  [(IF down.g_row >= VGA_HEIGHT THEN vga_scroll(down) ELSE down) EXCEPT !.g_column = 0]

next_row(vga) ==
    LET down == [vga EXCEPT !.g_column = 0, !.g_row = @ + 1]
    IN  IF down.g_row >= VGA_HEIGHT THEN vga_scroll(down) ELSE down

(* A newline returns before the cursor registers are written.              *)
vga_write_char(vga, character) ==
    LET put == [vga EXCEPT !.g_vga_memory[vga.g_row * VGA_WIDTH + vga.g_column] =
                                vga_entry(character, vga.g_current_color),
                           !.g_column = @ + 1]
        moved == IF put.g_column >= VGA_WIDTH THEN next_row(put) ELSE put
    IN  IF character = NEWLINE THEN next_row(vga)
        ELSE vga_set_cursor(moved, moved.g_row, moved.g_column)

(* Up to the terminator.                                                   *)
vga_write_string(vga, data) ==
    FoldLeft(vga_write_char, vga, SubSeq(data, 1, SelectInSeq(data, LAMBDA c : c = 0) - 1))
=============================================================================
