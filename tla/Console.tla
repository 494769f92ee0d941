------------------------------ MODULE Console -------------------------------
(***************************************************************************)
(* What the kernel prints: kprintf and ksnprintf over Format, the text     *)
(* console over Vga, and kpanic, which ends in a halt.  A format is built  *)
(* of pieces; a piece carries the characters and arguments the code gets   *)
(* and, for the properties, what it should show.                           *)
(***************************************************************************)
EXTENDS Format, Vga

CONSTANTS
    Prints,                 \* formats for kprintf and kpanic, as pieces
    Pieces,                 \* pieces for ksnprintf, of which it gets
    MAX_PIECES,             \* at most so many
    Sizes,                  \* buffer sizes for ksnprintf
    PRINTF_BUFFER_SIZE,     \* 256
    Characters,             \* arguments of vga_write_char
    ForegroundColors,       \* arguments of vga_set_color
    MAX_TEXT,               \* bounds on the characters before the last print,
    MAX_CALLS               \* and on calls other than vga_write_char

ASSUME ConsoleAssumption == PRINTF_BUFFER_SIZE \in Nat \ {0, 1}

VARIABLES
    vga,
    running,        \* FALSE before vga_init and after a panic
    result,         \* of the last call, if it was ksnprintf
    calls,
    text,           \* history: characters and colours since the last clear
    placed,         \* history: vga_set_cursor was used since
    newline         \* history: a newline was the last to move the position

vars == <<vga, running, result, calls, text, placed, newline>>

NoResult == [size |-> 0, pieces |-> <<>>, bytes |-> <<>>]

(* The screen the firmware left.                                           *)
Init ==
    /\ vga = [g_vga_memory |-> [i \in Cells |-> [character |-> 66, color |-> 15]],
              g_row |-> 0, g_column |-> 0, g_current_color |-> 0,
              cursor_low |-> 1, cursor_high |-> 0]
    /\ running = FALSE
    /\ result = NoResult
    /\ calls = 0
    /\ text = <<>>
    /\ placed = FALSE
    /\ newline = FALSE

(***************************************************************************)
(* What a piece should show: numerals built from the last digit on.        *)
(***************************************************************************)

Numeral[v \in Nat, base \in {10, 16}, ten \in {65, 97}] ==
    LET digit == v % base
        last == <<IF digit < 10 THEN 48 + digit ELSE ten + digit - 10>>
    IN  IF v < base THEN last ELSE Numeral[v \div base, base, ten] \o last

SignedNumeral(v) ==
    IF v < WORD \div 2 THEN Numeral[v, 10, 97] ELSE <<45>> \o Numeral[WORD - v, 10, 97]

Padded(s) == [i \in 1..(NIBBLES - Len(s)) |-> 48] \o s

Shows(spec, alternate, arg) ==
    CASE spec \in {"d", "i"} -> SignedNumeral(arg)
      [] spec = "u" -> Numeral[arg, 10, 97]
      [] spec = "x" -> (IF alternate THEN <<48, 120>> ELSE <<>>) \o Numeral[arg, 16, 97]
      [] spec = "X" -> (IF alternate THEN <<48, 88>> ELSE <<>>) \o Numeral[arg, 16, 65]
      [] spec = "p" -> <<48, 120>> \o Padded(Numeral[arg, 16, 97])
      [] spec = "s" -> IF arg = NULL THEN <<78, 85, 76, 76>> ELSE arg
      [] spec = "c" -> <<arg % 256>>

Text(c) == [format |-> <<c>>, args |-> <<>>, shows |-> <<c>>, whole |-> FALSE]
Escape(c) == [format |-> <<PERCENT, c>>, args |-> <<>>,
              shows |-> IF c = PERCENT THEN <<c>> ELSE <<PERCENT, c>>, whole |-> FALSE]
(* A format that ends in the middle of a conversion.                       *)
Dangling(format) == [format |-> format, args |-> <<>>, shows |-> <<>>, whole |-> FALSE]
Conversion(spec, alternate, arg) ==
    [format |-> <<PERCENT>> \o (IF alternate THEN <<HASH>> ELSE <<>>) \o <<Specifier[spec]>>,
     args |-> <<arg>>, shows |-> Shows(spec, alternate, arg), whole |-> spec = "s"]

(* All of the pieces up to the first that does not fit, and of that one    *)
(* what fits, unless it is a string.                                       *)
Shown(pieces, room) ==
    FoldLeft(LAMBDA s, piece :
                LET left == room - Len(s.shown)
                IN  IF ~s.open THEN s
                    ELSE IF Len(piece.shows) <= left THEN [s EXCEPT !.shown = @ \o piece.shows]
                    ELSE [shown |-> s.shown \o (IF piece.whole THEN <<>>
                                                ELSE SubSeq(piece.shows, 1, left)),
                          open |-> FALSE],
             [shown |-> <<>>, open |-> TRUE], pieces).shown

Concat(pieces, Field(_)) == FoldLeft(LAMBDA s, piece : s \o Field(piece), <<>>, pieces)
format_of(pieces) == Concat(pieces, LAMBDA piece : piece.format)
args_of(pieces) == Concat(pieces, LAMBDA piece : piece.args)

(* What kprintf should add to the screen, with the colour in use; a zero   *)
(* character ends it.                                                      *)
Printed(pieces) ==
    LET shown == Shown(pieces, PRINTF_BUFFER_SIZE - 1)
        zero == SelectInSeq(shown, LAMBDA c : c = 0)
    IN  IF zero = 0 THEN shown ELSE SubSeq(shown, 1, zero - 1)

Colored(s) == [i \in DOMAIN s |-> [character |-> s[i], color |-> vga.g_current_color]]

(***************************************************************************)
(* The operations.                                                         *)
(***************************************************************************)

(* kernel_main's first use of the console.                                 *)
boot ==
    /\ ~running
    /\ calls = 0
    /\ vga' = vga_init(vga)
    /\ running' = TRUE
    /\ calls' = 1
    /\ UNCHANGED <<result, text, placed, newline>>

(* The buffer on kvprintf's stack goes to the screen if there is any.      *)
kvprintf(v, pieces) ==
    LET written == kvsnprintf(PRINTF_BUFFER_SIZE, format_of(pieces), args_of(pieces))
    IN  IF written.returns # 0 THEN vga_write_string(v, written.bytes) ELSE v

Adds(s) ==
    /\ Len(text) < MAX_TEXT
    /\ text' = text \o Colored(s)
    /\ newline' = IF s = <<>> THEN newline ELSE Last(s) = NEWLINE
    /\ UNCHANGED placed
    /\ result' = NoResult

Client ==
    /\ running
    /\ calls < MAX_CALLS
    /\ calls' = calls + 1

kprintf ==
    /\ Client
    /\ \E pieces \in Prints :
        /\ vga' = kvprintf(vga, pieces)
        /\ Adds(Printed(pieces))
    /\ UNCHANGED running

(* The place, the message and a newline; then cli and hlt for good.        *)
PANIC_PLACE == <<Conversion("s", FALSE, <<70>>), Text(58), Conversion("u", FALSE, 7), Text(NEWLINE)>>

kpanic ==
    /\ Client
    /\ \E pieces \in Prints :
        /\ vga' = kvprintf(kvprintf(kvprintf(vga, PANIC_PLACE), pieces), <<Text(NEWLINE)>>)
        /\ Adds(Printed(PANIC_PLACE) \o Printed(pieces) \o <<NEWLINE>>)
    /\ running' = FALSE

(* A key that kernel_main echoes.                                          *)
write_char ==
    /\ running
    /\ \E character \in Characters :
        /\ vga' = vga_write_char(vga, character)
        /\ Adds(<<character>>)
    /\ UNCHANGED <<running, calls>>

set_color ==
    /\ Client
    /\ \E foreground \in ForegroundColors :
        vga' = vga_set_color(vga, foreground, VGA_COLOR_BLACK)
    /\ result' = NoResult
    /\ UNCHANGED <<running, text, placed, newline>>

clear ==
    /\ Client
    /\ vga' = vga_clear(vga)
    /\ text' = <<>>
    /\ placed' = FALSE
    /\ newline' = FALSE
    /\ result' = NoResult
    /\ UNCHANGED running

(* The position afterwards, which vga_get_cursor reports, is the one asked *)
(* for or the one before.                                                  *)
set_cursor ==
    /\ Client
    /\ \E row \in 0..VGA_HEIGHT, column \in 0..VGA_WIDTH :
        /\ vga' = vga_set_cursor(vga, row, column)
        /\ LET ignored == row >= VGA_HEIGHT \/ column >= VGA_WIDTH
           IN  placed' = (placed \/ ~ignored) /\ newline' = (newline /\ ignored)
    /\ result' = NoResult
    /\ UNCHANGED <<running, text>>

(* It does not touch the console and keeps nothing, so one call of it, the *)
(* first, is enough.                                                       *)
ksnprintf ==
    /\ Client
    /\ calls = 1 /\ text = <<>>
    /\ \E size \in Sizes, n \in 0..MAX_PIECES : \E pieces \in [1..n -> Pieces] :
        \* only the last piece can be a format that ends too soon
        /\ \A i \in 1..n : Last(pieces[i].format) \in {PERCENT, HASH} => i = n \/ pieces[i].shows # <<>>
        /\ LET written == kvsnprintf(size, format_of(pieces), args_of(pieces))
           IN  result' = [size |-> size, pieces |-> pieces, bytes |-> written.bytes]
    /\ UNCHANGED <<vga, running, text, placed, newline>>

(* hlt, and a kernel that prints nothing more.                             *)
Quiet == (~running /\ calls > 0) \/ Len(text) >= MAX_TEXT

Next ==
    \/ boot \/ kprintf \/ kpanic \/ write_char \/ set_color \/ clear \/ set_cursor \/ ksnprintf
    \/ Quiet /\ UNCHANGED vars

Spec == Init /\ [][Next]_vars

(***************************************************************************)
(* What the console promises.                                              *)
(***************************************************************************)

(* The position is on the screen after every call, so that no character is *)
(* ever written past the last cell of the text buffer, and the screen has  *)
(* its cells only.                                                         *)
TypeOK ==
    /\ vga.g_vga_memory \in [Cells -> [character : 0..255, color : 0..255]]
    /\ vga.g_row \in 0..(VGA_HEIGHT - 1)
    /\ vga.g_column \in 0..(VGA_WIDTH - 1)
    /\ vga.cursor_low \in 0..(BYTE - 1) /\ vga.cursor_high \in 0..(BYTE - 1)
    /\ running \in BOOLEAN

(* For every format, every argument and every size of buffer, kvsnprintf   *)
(* writes nothing behind the buffer, and into one with room for a          *)
(* character the longest allowed part of the text that the specifiers      *)
(* stand for, terminated inside it.  Of the count it returns, and of a     *)
(* buffer of one byte, code and header say different things.               *)
FormatsText ==
    /\ Len(result.bytes) <= result.size
    /\ result.size >= 2 => result.bytes = Append(Shown(result.pieces, result.size - 1), NUL)

(* The rows of a text: a newline ends one, and so does the last column.    *)
Rows(s) ==
    FoldLeft(LAMBDA rows, c :
                LET row == Append(Last(rows), c)
                IN  IF c.character = NEWLINE THEN Append(rows, <<>>)
                    ELSE IF Len(row) = VGA_WIDTH THEN Append(Front(rows), row) \o << <<>> >>
                    ELSE Append(Front(rows), row),
             << <<>> >>, s)

(* Whatever was printed since the screen was cleared, in however many      *)
(* calls, the screen shows the last rows of it, each character in the      *)
(* colour that vga_set_color had set, with blanks after them; the next     *)
(* character goes to the end of the last row, or where vga_set_cursor put  *)
(* it.  The blinking cursor is there too; only a newline, which moves the  *)
(* position and leaves the registers, may come between.                    *)
ScreenShowsText ==
    LET rows == Rows(text)
        from == IF Len(rows) > VGA_HEIGHT THEN Len(rows) - VGA_HEIGHT ELSE 0
        shown == SubSeq(rows, from + 1, Len(rows))
        next == vga.g_row * VGA_WIDTH + vga.g_column
        cursor == vga.cursor_low + BYTE * vga.cursor_high
    IN  calls > 0 =>
        /\ ~placed =>
            /\ next = (Len(shown) - 1) * VGA_WIDTH + Len(Last(shown))
            /\ \A r \in 0..(VGA_HEIGHT - 1), c \in 0..(VGA_WIDTH - 1) :
                LET cell == vga.g_vga_memory[r * VGA_WIDTH + c]
                IN  IF r < Len(shown) /\ c < Len(shown[r + 1])
                    THEN cell = shown[r + 1][c + 1]
                    ELSE cell.character = SPACE
        /\ ~newline => cursor = next
=============================================================================
