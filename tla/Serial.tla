------------------------------- MODULE Serial -------------------------------
(***************************************************************************)
(* The serial driver, kernel/src/drivers/serial.c, against the UARTs it    *)
(* polls.  The device moves between any two port accesses: it shifts the   *)
(* byte in its holding register out (or, in loopback mode, back in), and   *)
(* takes what the peer sends.  A call is the record `call', `pc' its       *)
(* position; waiting for the line status is waiting for an enabled step.   *)
(***************************************************************************)
EXTENDS Emm, Sequences, SequencesExt, FiniteSets

CONSTANTS
    Kinds,          \* what may answer at a port's addresses
    Configs,        \* settings passed to serial_init_port
    Texts,          \* strings passed to SERIAL_PRINT
    BufferSizes,    \* sizes passed to serial_read_string
    PeerBytes,      \* what the other end may send
    FIFO,           \* depth of the receive FIFO: 16
    MAX_CALLS,      \* bounds on the calls,
    MAX_PEER        \* and on the bytes that peers send

SERIAL_BASE_CLOCK == 115200
SERIAL_PORT_COM1 == 1016
SERIAL_PORT_COM2 == 760
Ports == {SERIAL_PORT_COM1, SERIAL_PORT_COM2}
SERIAL_TEST_BYTE == 42
SERIAL_PARITY_NONE == 0
SERIAL_PARITY_ODD == 1
SERIAL_PARITY_EVEN == 3
NEWLINE == 10
NUL == 0
SIZEOF_PORT == 12       \* port, two bytes of padding, baudrate, next

Byte == 0..255
WORD_MAX == 65535
Word == 0..WORD_MAX

(* What is in no register or FIFO.                                         *)
NONE == -1

ASSUME SerialAssumption ==
    /\ Kinds \subseteq {"uart", "open bus", "zeros"}
    /\ PeerBytes \subseteq 1..255
    /\ Texts \subseteq Seq(1..255)
    /\ BufferSizes \subseteq Nat
    /\ FIFO \in Nat \ {0}
    \* mark and space parity are left out: see lcr_reg
    /\ Configs \subseteq [baudrate : 1..SERIAL_BASE_CLOCK, data_bits : 0..3,
                          parity : {SERIAL_PARITY_NONE, SERIAL_PARITY_ODD, SERIAL_PARITY_EVEN},
                          stop_bits : 0..1]
    \* the first thing kernel_main allocates from the early heap
    /\ EARLY_HEAP_START + SIZEOF_PORT * Cardinality(Ports) <= EARLY_HEAP_END

VARIABLES
    uart,                   \* external: a record for each port
    g_serial_ports,         \* the linked list, in order
    g_cached_lookup_result, \* an index into it, 0 for NULL
    pc, call,
    todo,                   \* the calls serial_init has yet to make
    hist                    \* history, a record for each port

vars == <<g_cursor, uart, g_serial_ports, g_cached_lookup_result, pc, call, todo, hist>>

(* The defaults of serial_init.                                            *)
Default == [baudrate |-> 115200, data_bits |-> 3, parity |-> 0, stop_bits |-> 0]

Init ==
    /\ EmmInit
    /\ \E kind \in [Ports -> Kinds] :
        uart = [p \in Ports |-> [kind |-> kind[p], lcr |-> 0, divisor |-> 0, loop |-> FALSE,
                                 thr |-> NONE, rx |-> <<>>, line |-> <<>>, peer |-> 0]]
    /\ g_serial_ports = <<>>
    /\ g_cached_lookup_result = 0
    /\ pc = "idle"
    /\ call = [name |-> "none", n |-> 0]
    /\ todo = <<SERIAL_PORT_COM1, SERIAL_PORT_COM2>>
    /\ hist = [p \in Ports |-> [config |-> Default, tuned |-> FALSE, clean |-> TRUE,
                                written |-> <<>>, fed |-> <<>>, taken |-> <<>>]]

driver_vars == <<g_cursor, g_serial_ports, g_cached_lookup_result, pc, call, todo>>

(***************************************************************************)
(* External: the UART.  Nothing behind a port reads as all ones, or zeros. *)
(***************************************************************************)

(* To the line, or in loopback mode back, unless the FIFO is full.         *)
shifted(u) ==
    IF ~u.loop THEN [u EXCEPT !.thr = NONE, !.line = Append(@, u.thr)]
    ELSE IF Len(u.rx) = FIFO THEN [u EXCEPT !.thr = NONE]
    ELSE [u EXCEPT !.thr = NONE, !.rx = Append(@, u.thr)]

Shift(p) ==
    /\ uart[p].kind = "uart"
    /\ uart[p].thr # NONE
    /\ uart' = [uart EXCEPT ![p] = shifted(@)]
    /\ UNCHANGED <<driver_vars, hist>>

(* The peer's bytes are lost in loopback mode and in a full FIFO.          *)
PeerSends(p) ==
    /\ uart[p].kind = "uart"
    /\ uart[SERIAL_PORT_COM1].peer + uart[SERIAL_PORT_COM2].peer < MAX_PEER
    /\ \E b \in PeerBytes :
        LET arrives == ~uart[p].loop /\ Len(uart[p].rx) < FIFO
        IN  /\ uart' = [uart EXCEPT ![p].peer = @ + 1,
                                    ![p].rx = IF arrives THEN Append(@, b) ELSE @]
            /\ hist' = [hist EXCEPT
                          ![p].fed = IF arrives THEN Append(@, b) ELSE @,
                          ![p].clean = @ /\ ~(pc = "loopback" /\ call.port = p)]
    /\ UNCHANGED driver_vars

serial_received(p) == uart[p].kind = "open bus" \/ (uart[p].kind = "uart" /\ uart[p].rx # <<>>)
is_transmit_empty(p) == uart[p].kind = "open bus" \/ (uart[p].kind = "uart" /\ uart[p].thr = NONE)
data(p) == IF uart[p].kind = "uart" THEN Head(uart[p].rx) ELSE 255
read_data(u) == IF u.kind = "uart" THEN [u EXCEPT !.rx = Tail(@)] ELSE u
write_data(u, byte) == IF u.kind = "uart" THEN [u EXCEPT !.thr = byte] ELSE u

(* The line settings a UART takes from its line control register: word     *)
(* length in bits 0 and 1, stop bits in 2, parity in 3 to 5.               *)
LineSettings(lcr) ==
    [data_bits |-> lcr % 4, stop_bits |-> (lcr \div 4) % 2, parity |-> (lcr \div 8) % 8]

(***************************************************************************)
(* The table of ports.                                                     *)
(***************************************************************************)

(* The index of the port's element, or of the free end of the list.        *)
slot_at_end(port) == Len(g_serial_ports) + 1

get_serial_slot(port) ==
    IF \E i \in DOMAIN g_serial_ports : g_serial_ports[i].port = port
    THEN CHOOSE i \in DOMAIN g_serial_ports : g_serial_ports[i].port = port
    ELSE Len(g_serial_ports) + 1

(* Through the cache, without a look at the port of the cached element.    *)
lookup_stale(port) ==
    IF g_cached_lookup_result # 0 THEN g_cached_lookup_result
    ELSE IF get_serial_slot(port) \in DOMAIN g_serial_ports THEN get_serial_slot(port) ELSE 0

(* serial_get_port's result, 0 for NULL.                                   *)
lookup(port) ==
    IF g_cached_lookup_result # 0 /\ g_serial_ports[g_cached_lookup_result].port = port
    THEN g_cached_lookup_result
    ELSE IF get_serial_slot(port) \in DOMAIN g_serial_ports THEN get_serial_slot(port) ELSE 0

serial_get_port(port) ==
    g_cached_lookup_result' =
        IF lookup(port) # 0 THEN lookup(port) ELSE g_cached_lookup_result

upsert_serial_config(port, baudrate) ==
    LET slot == get_serial_slot(port)
        config == [port |-> port, baudrate |-> baudrate]
    IN  IF slot \in DOMAIN g_serial_ports
        THEN /\ g_serial_ports' = [g_serial_ports EXCEPT ![slot] = config]
             /\ UNCHANGED g_cursor
        ELSE /\ g_serial_ports' = Append(g_serial_ports, config)
             /\ g_cursor' = next_cursor(g_cursor, SIZEOF_PORT)

(***************************************************************************)
(* serial_init_port, up to each access the device can answer differently.  *)
(***************************************************************************)

(* The low byte of the divisor only.                                       *)
divisor_low(baudrate) == (SERIAL_BASE_CLOCK \div baudrate) % 256

(* uint16_t, written as LSB and MSB.                                       *)
divisor_of(baudrate) == (SERIAL_BASE_CLOCK \div baudrate) % 65536

(* data_bits << 0 & 0b11, stop_bits << 2 & 0b100, parity << 4 & 0b1110000. *)
(* The parity of a UART is in bits 3 to 5: odd and even parity come out as *)
(* none, and mark and space would also set bit 6, the break that keeps the *)
(* line from sending, which this UART does not have.                       *)
lcr_reg(c) == (c.data_bits % 4) + 4 * (c.stop_bits % 2) + 16 * (c.parity % 8)

(* FCR 0xC7: both FIFOs are cleared.                                       *)
clear_fifos(u) == [u EXCEPT !.rx = <<>>, !.thr = NONE]

serial_init_port(p, c) ==
    /\ pc = "idle"
    /\ uart' = [uart EXCEPT ![p] =
                  clear_fifos([@ EXCEPT !.divisor = divisor_of(c.baudrate),
                                        !.lcr = lcr_reg(c), !.loop = FALSE])]
    /\ call' = [name |-> "init", n |-> call.n + 1, port |-> p, config |-> c]
    /\ pc' = "loopback"
    /\ hist' = [hist EXCEPT ![p].tuned = FALSE,
                            ![p].clean = @ /\ uart[p].rx = <<>> /\ uart[p].thr = NONE]
    /\ UNCHANGED <<g_cursor, g_serial_ports, g_cached_lookup_result>>

(* The MCR is reset and NULL returned.                                     *)
init_failed(p) ==
    /\ pc' = "idle"
    /\ hist' = [hist EXCEPT ![p].clean = FALSE]
    /\ UNCHANGED <<g_cursor, g_serial_ports>>

test_write ==
    LET p == call.port
    IN  /\ pc = "loopback"
        /\ \/ /\ is_transmit_empty(p)
              /\ uart' = [uart EXCEPT ![p] = [write_data(@, SERIAL_TEST_BYTE) EXCEPT !.loop = TRUE]]
              /\ pc' = "test"
              /\ UNCHANGED <<g_cursor, g_serial_ports, hist>>
           \/ /\ ~is_transmit_empty(p)
              /\ UNCHANGED uart
              /\ init_failed(p)
        /\ UNCHANGED <<g_cached_lookup_result, call, todo>>

(* A read-back that accepts any byte.                                      *)
any_byte(byte) == TRUE

echoed(byte) == byte = SERIAL_TEST_BYTE

test_read ==
    LET p == call.port
    IN  /\ pc = "test"
        /\ \/ /\ ~serial_received(p)
              /\ uart' = [uart EXCEPT ![p].loop = FALSE]
              /\ init_failed(p)
           \/ /\ serial_received(p)
              /\ uart' = [uart EXCEPT ![p] = [read_data(@) EXCEPT !.loop = FALSE]]
              /\ IF echoed(data(p))
                 THEN /\ upsert_serial_config(p, call.config.baudrate)
                      /\ pc' = "idle"
                      /\ hist' = [hist EXCEPT ![p].tuned = TRUE, ![p].config = call.config]
                 ELSE init_failed(p)
        /\ UNCHANGED <<g_cached_lookup_result, call, todo>>

(***************************************************************************)
(* Reading and writing.                                                    *)
(***************************************************************************)

(* SERIAL_PRINT asserts the result of serial_write_string, which is false  *)
(* for a port that is not in the table.                                    *)
SERIAL_PRINT(p, text) ==
    /\ pc = "idle"
    /\ serial_get_port(p)
    /\ call' = [name |-> "write", n |-> call.n + 1, port |-> p, text |-> text]
    /\ pc' = IF lookup(p) = 0 THEN "panic" ELSE IF text = <<>> THEN "idle" ELSE "write"
    /\ UNCHANGED <<g_cursor, uart, g_serial_ports, hist>>

(* The other bit of the line status.                                       *)
can_write_ready(p) == serial_received(p)

can_write(p) == is_transmit_empty(p)

write_char ==
    LET p == g_serial_ports[g_cached_lookup_result].port
    IN  /\ pc = "write"
        /\ can_write(p)
        /\ uart' = [uart EXCEPT ![p] = write_data(@, Head(call.text))]
        /\ hist' = [hist EXCEPT ![call.port].written = Append(@, Head(call.text))]
        /\ call' = [call EXCEPT !.text = Tail(@)]
        /\ pc' = IF Len(call.text) = 1 THEN "idle" ELSE "write"
        /\ UNCHANGED <<g_cursor, g_serial_ports, g_cached_lookup_result, todo>>

(* A string that has used up the whole buffer before its terminator.       *)
full_late(buffer, size) == Len(buffer) = size

string_full(buffer, size) == Len(buffer) = size - 1

serial_read_string(p, size) ==
    /\ pc = "idle"
    /\ serial_get_port(p)
    /\ LET refused == lookup(p) = 0 \/ size = 0
           empty == string_full(<<>>, size)
       IN  /\ call' = [name |-> IF refused THEN "refused" ELSE "read", n |-> call.n + 1,
                       port |-> p, size |-> size, buffer |-> IF empty THEN <<NUL>> ELSE <<>>]
           /\ pc' = IF refused \/ empty THEN "idle" ELSE "read"
    /\ UNCHANGED <<g_cursor, uart, g_serial_ports, hist>>

read_char ==
    LET p == g_serial_ports[g_cached_lookup_result].port
        buffer == Append(call.buffer, data(p))
        ends == data(p) = NEWLINE \/ string_full(buffer, call.size)
    IN  /\ pc = "read"
        /\ serial_received(p)
        /\ uart' = [uart EXCEPT ![p] = read_data(@)]
        /\ hist' = [hist EXCEPT ![call.port].taken = Append(@, data(p))]
        /\ call' = [call EXCEPT !.buffer = IF ends THEN Append(buffer, NUL) ELSE buffer]
        /\ pc' = IF ends THEN "idle" ELSE "read"
        /\ UNCHANGED <<g_cursor, g_serial_ports, g_cached_lookup_result, todo>>

(* serial_init first, then the kernel as a client.                         *)
Call ==
    \/ /\ todo # <<>>
       /\ serial_init_port(Head(todo), Default)
       /\ todo' = Tail(todo)
    \/ /\ todo = <<>>
       /\ call.n < MAX_CALLS
       /\ \E p \in Ports :
            \/ \E c \in Configs : serial_init_port(p, c)
            \/ \E text \in Texts : SERIAL_PRINT(p, text)
            \/ \E size \in BufferSizes : serial_read_string(p, size)
       /\ UNCHANGED todo

(* kpanic's hlt loop, a kernel that makes no more calls, and one that      *)
(* polls for a byte that has not come, or for room in the transmitter.     *)
Waits ==
    \/ pc = "panic"
    \/ pc = "idle" /\ call.n >= MAX_CALLS
    \/ pc = "read" /\ ~serial_received(call.port)
    \/ pc = "write" /\ ~can_write(call.port)

Driver == test_write \/ test_read \/ write_char \/ read_char

Next ==
    \/ Call
    \/ Driver
    \/ \E p \in Ports : Shift(p) \/ PeerSends(p)
    \/ Waits /\ UNCHANGED vars

(* A UART sends what it holds, and the one CPU keeps polling; nothing says *)
(* that a peer ever sends.                                                 *)
Spec ==
    /\ Init
    /\ [][Next]_vars
    /\ WF_vars(Driver)
    /\ \A p \in Ports : WF_vars(Shift(p))

(***************************************************************************)
(* What the driver promises.                                               *)
(***************************************************************************)

TypeOK ==
    /\ g_cursor \in EARLY_HEAP_START..EARLY_HEAP_END
    /\ \A p \in Ports :
        /\ uart[p].thr \in {NONE} \cup Byte
        /\ uart[p].rx \in Seq(Byte) /\ Len(uart[p].rx) <= FIFO
        /\ uart[p].divisor \in Word
        /\ uart[p].lcr \in 0..127
    /\ g_serial_ports \in Seq([port : Ports, baudrate : Nat])
    /\ g_cached_lookup_result \in 0..Len(g_serial_ports)
    /\ pc \in {"idle", "loopback", "test", "write", "read", "panic"}

(* The divisor of the rate that is nearest to the one asked for, from      *)
(* above.                                                                  *)
Nearest(divisor, baudrate) ==
    divisor * baudrate <= SERIAL_BASE_CLOCK /\ SERIAL_BASE_CLOCK < (divisor + 1) * baudrate

(* Only a UART that echoed is ever in the table, once.  Its element and    *)
(* the line agree on the rate, and the line has the word length and the    *)
(* stop bits that were asked for, and no parity when none was, whatever    *)
(* initialisations of either port came before, unless the last one of this *)
(* port failed.  A rate of 1 has no divisor of 16 bits.                    *)
TableTrue ==
    /\ \A i \in DOMAIN g_serial_ports : uart[g_serial_ports[i].port].kind = "uart"
    /\ \A i, j \in DOMAIN g_serial_ports :
        g_serial_ports[i].port = g_serial_ports[j].port => i = j
    /\ \A i \in DOMAIN g_serial_ports :
        LET p == g_serial_ports[i].port
            c == hist[p].config
            line == LineSettings(uart[p].lcr)
        IN  hist[p].tuned =>
                /\ ~uart[p].loop
                /\ g_serial_ports[i].baudrate > 1 =>
                    Nearest(uart[p].divisor, g_serial_ports[i].baudrate)
                /\ line.data_bits = c.data_bits
                /\ line.stop_bits = c.stop_bits
                /\ c.parity = SERIAL_PARITY_NONE => line.parity = SERIAL_PARITY_NONE

(* Between initialisations a port is two queues: what was printed to it is *)
(* on its line in order, or still in the transmitter, and what was read    *)
(* from it is what the peer sent.  The test byte is in neither.  A port    *)
(* stays `clean' while no initialisation of it failed, threw a byte away   *)
(* or was disturbed by the peer before the loopback mode was on.           *)
BytesInOrder ==
    \A p \in Ports :
        hist[p].clean /\ ~(pc \in {"loopback", "test"} /\ call.port = p) =>
            /\ uart[p].line \o (IF uart[p].thr = NONE THEN <<>> ELSE <<uart[p].thr>>)
                    = hist[p].written
            /\ hist[p].taken \o uart[p].rx = hist[p].fed

(* A string read is terminated inside its buffer, ends with the newline or *)
(* fills the buffer, and holds the last bytes that were read.              *)
StringFits ==
    pc = "idle" /\ call.name = "read" =>
        LET text == Front(call.buffer)
            taken == hist[call.port].taken
        IN  /\ Last(call.buffer) = NUL
            /\ Len(call.buffer) <= call.size
            /\ IsSuffix(text, taken)
            /\ NEWLINE \in ToSet(text) => Last(text) = NEWLINE /\ NEWLINE \notin ToSet(Front(text))
            /\ NEWLINE \notin ToSet(text) => Len(call.buffer) = call.size

(* Nothing bounds the wait in write_char, but a port in the table drains:  *)
(* a print returns, also after an initialisation that failed halfway.      *)
PrintsEnd == (pc \in {"loopback", "test", "write"}) ~> (pc \in {"idle", "panic"})
=============================================================================
