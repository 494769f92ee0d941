---------------------------- MODULE SerialProofs ----------------------------
(***************************************************************************)
(* A serial port is two queues and its table entry is true, for every      *)
(* depth of the receive FIFO, every setting, text and buffer size, and     *)
(* every interleaving of the driver with the UARTs and their peers.        *)
(*                                                                         *)
(* The argument: a port that serial_init_port is not at work on is in no   *)
(* loopback mode, so its bytes go where they should.  During the test of a *)
(* clean port nothing but the test byte is in its registers, and the read  *)
(* that succeeds takes it out again.                                       *)
(***************************************************************************)
EXTENDS Serial, SequenceTheorems, FiniteSetTheorems, TLAPS

Rate == 1..SERIAL_BASE_CLOCK

Setting == [baudrate : Rate, data_bits : 0..3, parity : {0, 1, 3}, stop_bits : 0..1]

(* What serial_init_port is ever called with.                              *)
Settings == Configs \cup {Default}

Uart == [kind : {"uart", "open bus", "zeros"}, lcr : 0..127, divisor : Word,
         loop : BOOLEAN, thr : {NONE} \cup Byte, rx : Seq(Byte), line : Seq(Byte), peer : Nat]

History == [config : Settings, tuned : BOOLEAN, clean : BOOLEAN,
            written : Seq(Byte), fed : Seq(Byte), taken : Seq(Byte)]

InitCall == [name : {"init"}, n : Nat, port : Ports, config : Settings]
WriteCall == [name : {"write"}, n : Nat, port : Ports, text : Seq(Byte)]
ReadCall == [name : {"read"}, n : Nat, port : Ports, size : Nat, buffer : Seq(Byte)]

Entry == [port : Ports, baudrate : Rate]

(* Where serial_init_port is with the port, "free" when it is not at it.   *)
Stage(p) == IF pc \in {"loopback", "test"} /\ call.port = p THEN pc ELSE "free"

Held(u) == IF u.thr = NONE THEN <<>> ELSE <<u.thr>>

(* The two queues of a clean port, and what is in its registers while it   *)
(* is being tested.                                                        *)
Queues(u, h, stage) ==
    /\ stage = "free" => u.line \o Held(u) = h.written /\ h.taken \o u.rx = h.fed
    /\ stage # "free" => u.line = h.written /\ h.taken = h.fed
    /\ stage = "loopback" => u.thr = NONE /\ u.rx = <<>>
    /\ stage = "test" => \/ u.kind # "uart"
                         \/ u.thr = SERIAL_TEST_BYTE /\ u.rx = <<>>
                         \/ u.thr = NONE /\ u.rx = <<SERIAL_TEST_BYTE>>

(* The settings in the device are c's.                                     *)
SetTo(u, c) == u.divisor = divisor_of(c.baudrate) /\ u.lcr = lcr_reg(c)

PortOK(u, h, stage) ==
    /\ u \in Uart
    /\ h \in History
    /\ Len(u.rx) <= FIFO
    /\ u.loop = (stage = "test")
    /\ h.clean => Queues(u, h, stage)
    /\ h.tuned => stage = "free" /\ SetTo(u, h.config)

PortInv ==
    /\ uart \in [Ports -> Uart]
    /\ hist \in [Ports -> History]
    /\ \A p \in Ports : PortOK(uart[p], hist[p], Stage(p))

(* Every element of the list is of the early heap, has a port of its own   *)
(* and says how a port that is tuned was set.                              *)
TableInv ==
    /\ g_serial_ports \in Seq(Entry)
    /\ g_cursor = EARLY_HEAP_START + SIZEOF_PORT * Len(g_serial_ports)
    /\ g_cached_lookup_result \in 0..Len(g_serial_ports)
    /\ \A i, j \in DOMAIN g_serial_ports :
        g_serial_ports[i].port = g_serial_ports[j].port => i = j
    /\ \A i \in DOMAIN g_serial_ports :
        LET p == g_serial_ports[i].port
        IN  /\ uart[p].kind = "uart"
            /\ hist[p].tuned => g_serial_ports[i].baudrate = hist[p].config.baudrate

(* The buffer holds the last bytes taken from the port.                    *)
HoldsLast(buffer, taken) ==
    /\ Len(buffer) <= Len(taken)
    /\ \A i \in 1..Len(buffer) : buffer[i] = taken[(Len(taken) - Len(buffer)) + i]

(* The running call.                                                       *)
CallInv ==
    /\ pc \in {"idle", "loopback", "test", "write", "read", "panic"}
    /\ todo \in Seq(Ports)
    /\ call.n \in Nat
    /\ pc \in {"loopback", "test"} => call \in InitCall /\ SetTo(uart[call.port], call.config)
    /\ pc \in {"write", "read"} =>
        /\ g_cached_lookup_result # 0
        /\ g_serial_ports[g_cached_lookup_result].port = call.port
    /\ pc = "write" => call \in WriteCall /\ call.text # <<>>
    /\ pc = "read" =>
        /\ call \in ReadCall
        /\ Len(call.buffer) < call.size - 1
        /\ \A i \in 1..Len(call.buffer) : call.buffer[i] # NEWLINE
        /\ HoldsLast(call.buffer, hist[call.port].taken)
    /\ pc = "idle" /\ call.name = "read" => call \in ReadCall
    /\ StringFits

(* Inductive.                                                              *)
SerialInv == PortInv /\ TableInv /\ CallInv

-----------------------------------------------------------------------------
(* A byte more at the end of the second queue is one more at the end of    *)
(* both.                                                                   *)
LEMMA AppendToBoth ==
    ASSUME NEW S, NEW s \in Seq(S), NEW t \in Seq(S), NEW e \in S
    PROVE  s \o Append(t, e) = Append(s \o t, e)
<1>1. /\ s \o t \in Seq(S) /\ <<e>> \in Seq(S)
      /\ Append(t, e) = t \o <<e>> /\ Append(s \o t, e) = (s \o t) \o <<e>>
  BY ConcatProperties, AppendIsConcat
<1> QED
  BY <1>1, ConcatAssociative

(* A byte that moves from the front of the second queue to the end of the  *)
(* first leaves the two together as they were.                             *)
LEMMA MoveHead ==
    ASSUME NEW S, NEW s \in Seq(S), NEW t \in Seq(S), t # <<>>
    PROVE  Append(s, Head(t)) \o Tail(t) = s \o t
<1>1. /\ Head(t) \in S /\ Tail(t) \in Seq(S) /\ Len(Tail(t)) = Len(t) - 1
      /\ \A i \in 1..Len(Tail(t)) : Tail(t)[i] = t[i + 1]
  BY HeadTailProperties
<1>2. Head(t) = t[1] /\ Len(t) \in Nat /\ Len(t) # 0
  BY EmptySeq
<1> DEFINE a == Append(s, Head(t))
           l == a \o Tail(t)
           r == s \o t
<1>3. /\ a \in Seq(S) /\ Len(a) = Len(s) + 1 /\ Len(s) \in Nat
      /\ \A i \in 1..Len(s) : a[i] = s[i]
      /\ a[Len(s) + 1] = t[1]
  BY <1>1, <1>2, AppendProperties
<1> HIDE DEF a
<1>4. /\ l \in Seq(S) /\ Len(l) = Len(a) + Len(Tail(t))
      /\ \A i \in 1..(Len(a) + Len(Tail(t))) :
            l[i] = IF i <= Len(a) THEN a[i] ELSE Tail(t)[i - Len(a)]
  BY <1>1, <1>3, ConcatProperties
<1>5. /\ r \in Seq(S) /\ Len(r) = Len(s) + Len(t)
      /\ \A i \in 1..(Len(s) + Len(t)) :
            r[i] = IF i <= Len(s) THEN s[i] ELSE t[i - Len(s)]
  BY ConcatProperties
<1> HIDE DEF l, r
<1>6. Len(l) = Len(r)
  BY <1>1, <1>2, <1>3, <1>4, <1>5
<1>7. ASSUME NEW i \in 1..Len(l) PROVE l[i] = r[i]
  <2>1. CASE i <= Len(s)
    <3>1. i \in 1..Len(s) /\ i <= Len(a) /\ i \in 1..(Len(s) + Len(t))
      BY <1>1, <1>2, <1>3, <1>4, <2>1
    <3>2. l[i] = a[i] /\ a[i] = s[i]
      BY <3>1, <1>3, <1>4
    <3>3. r[i] = s[i]
      BY <3>1, <1>5
    <3> QED
      BY <3>2, <3>3
  <2>2. CASE i = Len(s) + 1
    BY <1>1, <1>2, <1>3, <1>4, <1>5, <2>2
  <2>3. CASE i > Len(s) + 1
    <3>1. l[i] = Tail(t)[i - Len(a)] /\ i - Len(a) \in 1..Len(Tail(t))
      BY <1>1, <1>2, <1>3, <1>4, <2>3
    <3>2. Tail(t)[i - Len(a)] = t[(i - Len(a)) + 1]
      BY <3>1, <1>1
    <3>3. r[i] = t[i - Len(s)] /\ (i - Len(a)) + 1 = i - Len(s)
      BY <1>1, <1>2, <1>3, <1>4, <1>5, <2>3
    <3> QED
      BY <3>1, <3>2, <3>3
  <2> QED
    BY <1>3, <1>4, <2>1, <2>2, <2>3
<1>8. l = r
  BY <1>4, <1>5, <1>6, <1>7, SeqEqual
<1> QED
  BY <1>8 DEF l, r, a

(* The pointwise form is the library's suffix.                             *)
LEMMA LastIsSuffix ==
    ASSUME NEW S, NEW b \in Seq(S), NEW t \in Seq(S), HoldsLast(b, t)
    PROVE  IsSuffix(b, t)
<1> DEFINE m == Len(b)  n == Len(t)
           x == Reverse(b)
           y == Reverse(t)
<1>1. m \in Nat /\ n \in Nat /\ m <= n /\ b \in [1..m -> S] /\ t \in [1..n -> S]
  BY LenProperties DEF HoldsLast
<1>2. \A i \in 1..m : b[i] = t[(n - m) + i]
  BY DEF HoldsLast
<1> HIDE DEF m, n
<1>3. \A i \in 1..m : b[(m - i) + 1] \in S
  BY <1>1
<1>4. \A i \in 1..n : t[(n - i) + 1] \in S
  BY <1>1
<1>5. x \in Seq(S) /\ Len(x) = m /\ \A i \in 1..m : x[i] = b[(m - i) + 1]
  <2>1. x = [i \in 1..m |-> b[(m - i) + 1]]
    BY DEF Reverse, m
  <2>2. x \in [1..m -> S]
    BY <2>1, <1>3
  <2> QED
    BY <2>1, <2>2, <1>1
<1>6. y \in Seq(S) /\ Len(y) = n /\ \A i \in 1..n : y[i] = t[(n - i) + 1]
  <2>1. y = [i \in 1..n |-> t[(n - i) + 1]]
    BY DEF Reverse, n
  <2>2. y \in [1..n -> S]
    BY <2>1, <1>4
  <2> QED
    BY <2>1, <2>2, <1>1
<1> HIDE DEF x, y
<1>7. \A i \in 1..m : x[i] = y[i]
  <2> SUFFICES ASSUME NEW i \in 1..m PROVE x[i] = y[i]
    OBVIOUS
  <2>1. (m - i) + 1 \in 1..m /\ (n - m) + ((m - i) + 1) = (n - i) + 1 /\ i \in 1..n
    BY <1>1
  <2>2. x[i] = b[(m - i) + 1]
    BY <1>5
  <2>3. y[i] = t[(n - i) + 1]
    BY <2>1, <1>6
  <2>4. b[(m - i) + 1] = t[(n - m) + ((m - i) + 1)]
    BY <2>1, <1>2
  <2> QED
    BY <2>1, <2>2, <2>3, <2>4
<1>8. SubSeq(x, 1, m) = SubSeq(y, 1, m)
  <2>1. \A i \in 1..m : x[i] \in S /\ y[i] \in S
    BY <1>1, <1>5, <1>6, ElementOfSeq
  <2>2. /\ SubSeq(x, 1, m) \in Seq(S) /\ Len(SubSeq(x, 1, m)) = IF 1 <= m THEN m - 1 + 1 ELSE 0
        /\ \A i \in 1..(m - 1 + 1) : SubSeq(x, 1, m)[i] = x[1 + i - 1]
    BY <2>1, <1>1, SubSeqProperties
  <2>3. /\ SubSeq(y, 1, m) \in Seq(S) /\ Len(SubSeq(y, 1, m)) = IF 1 <= m THEN m - 1 + 1 ELSE 0
        /\ \A i \in 1..(m - 1 + 1) : SubSeq(y, 1, m)[i] = y[1 + i - 1]
    BY <2>1, <1>1, SubSeqProperties
  <2> DEFINE sx == SubSeq(x, 1, m)  sy == SubSeq(y, 1, m)
  <2>4. /\ sx \in Seq(S) /\ Len(sx) = m /\ \A i \in 1..m : sx[i] = x[i]
        /\ sy \in Seq(S) /\ Len(sy) = m /\ \A i \in 1..m : sy[i] = y[i]
    BY <2>2, <2>3, <1>1
  <2> HIDE DEF sx, sy
  <2>5. sx = sy
    BY <2>4, <1>7, SeqEqual
  <2> QED
    BY <2>5 DEF sx, sy
<1> QED
  BY <1>1, <1>5, <1>6, <1>8 DEF IsSuffix, IsPrefix, x, y, m, n

-----------------------------------------------------------------------------
(* The constants are of the types the invariant uses.                      *)
LEMMA SettingsTyped ==
    /\ Settings \subseteq Setting
    /\ Default \in Settings
    /\ \A c \in Setting : divisor_of(c.baudrate) \in Word /\ lcr_reg(c) \in 0..127
<1>1. Default \in Setting
  BY DEF Default, Setting, Rate, SERIAL_BASE_CLOCK
<1>2. Configs \subseteq Setting
  BY SerialAssumption
     DEF Setting, Rate, SERIAL_PARITY_NONE, SERIAL_PARITY_ODD, SERIAL_PARITY_EVEN
<1>3. ASSUME NEW c \in Setting
      PROVE  divisor_of(c.baudrate) \in Word /\ lcr_reg(c) \in 0..127
  <2>1. /\ c.baudrate \in Rate /\ c.data_bits \in Nat /\ c.parity \in Nat
        /\ c.stop_bits \in Nat
    BY DEF Setting
  <2>2. SERIAL_BASE_CLOCK \in Int
    BY SMT DEF SERIAL_BASE_CLOCK
  <2>3. divisor_of(c.baudrate) \in Word
    <3> DEFINE b == c.baudrate
               d == SERIAL_BASE_CLOCK \div b
    <3>1. b \in Int /\ b > 0
      BY <2>1, <2>2, SMT DEF Rate
    <3> HIDE DEF b
    <3>2. d \in Int
      BY <3>1, <2>2, SMT
    <3> HIDE DEF d
    <3>3. d % 65536 \in Word
      <4> DEFINE r == d % 65536
      <4>1. r \in Int /\ 0 <= r /\ r <= 65535
        BY <3>2, SMT
      <4> HIDE DEF r
      <4>2. WORD_MAX \in Int /\ r <= WORD_MAX
        BY <4>1, SMT DEF WORD_MAX
      <4>3. r \in Word
        BY ONLY <4>1, <4>2, SMT DEF Word
      <4> QED
        BY <4>3 DEF r
    <3>4. divisor_of(b) = d % 65536
      BY SMT DEF divisor_of, d
    <3> QED
      BY <3>3, <3>4, SMT DEF b
  <2>4. c.data_bits % 4 \in 0..3 /\ c.stop_bits % 2 \in 0..1 /\ c.parity % 8 \in 0..7
    BY <2>1
  <2>5. lcr_reg(c) \in 0..127
    BY <2>4 DEF lcr_reg
  <2> QED
    BY <2>3, <2>5, Zenon
<1>4. Settings \subseteq Setting /\ Default \in Settings
  BY <1>1, <1>2 DEF Settings
<1> QED
  BY <1>3, <1>4, Zenon

(* A step that touches the device and the history of one port only.        *)
LEMMA OnePort ==
    ASSUME PortInv, NEW p \in Ports, NEW u \in Uart, NEW h \in History, NEW stage,
           PortOK(u, h, stage), Stage(p)' = stage,
           uart' = [uart EXCEPT ![p] = u], hist' = [hist EXCEPT ![p] = h],
           \A q \in Ports : q # p => Stage(q)' = Stage(q)
    PROVE  /\ PortInv'
           /\ uart'[p] = u /\ hist'[p] = h
           /\ \A q \in Ports : q # p => uart'[q] = uart[q] /\ hist'[q] = hist[q]
<1>1. uart \in [Ports -> Uart] /\ hist \in [Ports -> History]
  BY DEF PortInv
<1>2. /\ uart' \in [Ports -> Uart] /\ uart'[p] = u
      /\ \A q \in Ports : q # p => uart'[q] = uart[q]
  BY <1>1
<1>3. /\ hist' \in [Ports -> History] /\ hist'[p] = h
      /\ \A q \in Ports : q # p => hist'[q] = hist[q]
  BY <1>1
<1>4. ASSUME NEW q \in Ports PROVE PortOK(uart'[q], hist'[q], Stage(q)')
  <2>1. CASE q = p
    BY <1>2, <1>3, <2>1
  <2>2. CASE q # p
    <3>1. PortOK(uart[q], hist[q], Stage(q))
      BY DEF PortInv
    <3>2. uart'[q] = uart[q] /\ hist'[q] = hist[q] /\ Stage(q)' = Stage(q)
      BY <1>2, <1>3, <2>2
    <3> QED
      BY ONLY <3>1, <3>2
  <2> QED
    BY <2>1, <2>2
<1>5. PortInv'
  BY <1>2, <1>3, <1>4 DEF PortInv
<1> QED
  BY <1>2, <1>3, <1>5

(* A step that leaves the list alone, and no port tuned that was not.      *)
LEMMA TableKept ==
    ASSUME PortInv, TableInv, UNCHANGED <<g_serial_ports, g_cursor>>,
           g_cached_lookup_result' \in 0..Len(g_serial_ports),
           \A p \in Ports : uart'[p].kind = uart[p].kind,
           \A p \in Ports : hist'[p].tuned => hist[p].tuned /\ hist'[p].config = hist[p].config
    PROVE  TableInv'
<1>1. \A i \in DOMAIN g_serial_ports : g_serial_ports[i].port \in Ports
  <2>1. \A i \in DOMAIN g_serial_ports : g_serial_ports[i] \in Entry
    BY DEF TableInv
  <2> QED
    BY <2>1 DEF Entry
<1>2. ASSUME NEW i \in DOMAIN g_serial_ports'
      PROVE  LET p == g_serial_ports'[i].port
             IN  /\ uart'[p].kind = "uart"
                 /\ hist'[p].tuned => g_serial_ports'[i].baudrate = hist'[p].config.baudrate
  <2>1. g_serial_ports[i].port \in Ports /\ i \in DOMAIN g_serial_ports
    BY <1>1
  <2> QED
    BY <2>1 DEF TableInv
<1> QED
  BY <1>2 DEF TableInv

-----------------------------------------------------------------------------
(* At the start every port is free and both its queues are empty.          *)
LEMMA SerialStart ==
    ASSUME Init
    PROVE  SerialInv
<1>1. PICK kind \in [Ports -> Kinds] :
        uart = [p \in Ports |-> [kind |-> kind[p], lcr |-> 0, divisor |-> 0, loop |-> FALSE,
                                 thr |-> NONE, rx |-> <<>>, line |-> <<>>, peer |-> 0]]
  BY DEF Init
<1>2. pc = "idle" /\ call = [name |-> "none", n |-> 0] /\ g_serial_ports = <<>>
  BY DEF Init
<1>3. ASSUME NEW p \in Ports PROVE PortOK(uart[p], hist[p], Stage(p))
  <2> DEFINE u == uart[p]  h == hist[p]
  <2>1. kind[p] \in {"uart", "open bus", "zeros"}
    BY SerialAssumption
  <2>2. u = [kind |-> kind[p], lcr |-> 0, divisor |-> 0, loop |-> FALSE,
             thr |-> NONE, rx |-> <<>>, line |-> <<>>, peer |-> 0]
    BY <1>1
  <2>3. 0 \in Word /\ 0 \in 0..127 /\ <<>> \in Seq(Byte)
    <3>1. WORD_MAX \in Nat
      BY DEF WORD_MAX
    <3> QED
      BY <3>1 DEF Word
  <2>4. u \in Uart /\ u.loop = FALSE /\ u.thr = NONE /\ u.rx = <<>> /\ u.line = <<>>
    <3> HIDE DEF u
    <3>1. /\ u.loop = FALSE /\ u.thr = NONE /\ u.rx = <<>> /\ u.line = <<>>
      BY ONLY <2>2
    <3>2. NONE \in {NONE} \cup Byte /\ FALSE \in BOOLEAN /\ 0 \in Nat
      OBVIOUS
    <3>3. u \in Uart
      BY ONLY <2>1, <2>2, <2>3, <3>2, Zenon DEF Uart
    <3> QED
      BY <3>1, <3>3
  <2>5. h = [config |-> Default, tuned |-> FALSE, clean |-> TRUE,
             written |-> <<>>, fed |-> <<>>, taken |-> <<>>]
    BY DEF Init
  <2>6. /\ h \in History /\ h.tuned = FALSE /\ h.clean = TRUE
        /\ h.written = <<>> /\ h.fed = <<>> /\ h.taken = <<>>
    BY <2>3, <2>5, SettingsTyped DEF History
  <2> HIDE DEF u, h
  <2>7. Stage(p) = "free"
    BY <1>2 DEF Stage
  <2>8. Queues(u, h, "free")
    <3>1. <<>> \o <<>> = <<>>
      BY <2>3, ConcatEmptySeq
    <3>2. Held(u) = <<>>
      BY <2>4 DEF Held
    <3> QED
      BY <2>4, <2>6, <3>1, <3>2 DEF Queues
  <2>9. Len(u.rx) <= FIFO
    <3>1. Len(u.rx) = 0
      BY <2>4, EmptySeq
    <3>2. FIFO \in Nat
      BY SerialAssumption
    <3> QED
      BY <3>1, <3>2
  <2>10. PortOK(u, h, Stage(p))
    BY <2>4, <2>6, <2>7, <2>8, <2>9 DEF PortOK
  <2> QED
    BY <2>10 DEF u, h
<1>4. uart \in [Ports -> Uart] /\ hist \in [Ports -> History]
  <2>1. \A p \in Ports : uart[p] \in Uart /\ hist[p] \in History
    BY <1>3 DEF PortOK
  <2> QED
    BY <2>1, <1>1 DEF Init
<1>5. PortInv
  BY <1>3, <1>4 DEF PortInv
<1>6. TableInv
  BY <1>2, EmmAssumption DEF Init, EmmInit, TableInv, SIZEOF_PORT
<1>7. CallInv
  <2>1. todo \in Seq(Ports)
    BY DEF Init, Ports
  <2> QED
    BY <1>2, <2>1 DEF CallInv, StringFits
<1> QED
  BY <1>5, <1>6, <1>7 DEF SerialInv

(* A device step does not disturb the driver's call or its table.          *)
LEMMA DeviceStep ==
    ASSUME SerialInv, PortInv', UNCHANGED driver_vars,
           \A p \in Ports : /\ uart'[p].kind = uart[p].kind
                            /\ uart'[p].divisor = uart[p].divisor
                            /\ uart'[p].lcr = uart[p].lcr,
           \A p \in Ports : /\ hist'[p].tuned = hist[p].tuned
                            /\ hist'[p].config = hist[p].config
                            /\ hist'[p].taken = hist[p].taken
    PROVE  SerialInv'
<1>1. UNCHANGED <<g_cursor, g_serial_ports, g_cached_lookup_result, pc, call, todo>>
  BY DEF driver_vars
<1>2. PortInv /\ TableInv /\ CallInv
  BY DEF SerialInv
<1>3. TableInv'
  BY <1>1, <1>2, TableKept DEF TableInv
<1>4. CallInv'
  <2>1. pc \in {"loopback", "test"} => /\ call.port \in Ports
                                       /\ SetTo(uart'[call.port], call.config)
    <3> SUFFICES ASSUME pc \in {"loopback", "test"}
                 PROVE  call.port \in Ports /\ SetTo(uart'[call.port], call.config)
      OBVIOUS
    <3>1. call.port \in Ports
      BY <1>2 DEF CallInv, InitCall
    <3>2. SetTo(uart[call.port], call.config)
      BY <1>2 DEF CallInv
    <3> QED
      BY <3>1, <3>2 DEF SetTo
  <2>2. pc = "read" \/ (pc = "idle" /\ call.name = "read") => call.port \in Ports
    BY <1>2 DEF CallInv, ReadCall
  <2>3. pc = "read" => HoldsLast(call.buffer, hist'[call.port].taken)
    BY <1>2, <2>2 DEF CallInv
  <2>4. StringFits'
    BY <1>1, <1>2, <2>2 DEF CallInv, StringFits
  <2> QED
    BY <1>1, <1>2, <2>1, <2>3, <2>4 DEF CallInv
<1> QED
  BY <1>2, <1>3, <1>4 DEF SerialInv

-----------------------------------------------------------------------------
(* A byte that is shifted out goes to the end of the line; in the loopback *)
(* mode it is the test byte, or the port is not clean.                     *)
LEMMA ShiftStep ==
    ASSUME SerialInv, NEW p \in Ports, Shift(p)
    PROVE  SerialInv'
<1> DEFINE u == uart[p]  h == hist[p]
           v == shifted(u)
<1>1. /\ uart \in [Ports -> Uart] /\ hist \in [Ports -> History]
      /\ PortOK(u, h, Stage(p))
  BY DEF SerialInv, PortInv
<1>2. uart' = [uart EXCEPT ![p] = v]
  BY Zenon DEF Shift
<1>3. hist' = [hist EXCEPT ![p] = h] /\ UNCHANGED driver_vars
  BY <1>1 DEF Shift
<1>4. \A q \in Ports : Stage(q)' = Stage(q)
  BY <1>3 DEF Stage, driver_vars
<1>5. u.kind = "uart" /\ u.thr # NONE
  BY DEF Shift
<1> HIDE DEF u, h
<1>6. u \in Uart /\ h \in History /\ Len(u.rx) <= FIFO
  BY <1>1 DEF PortOK
<1>7. /\ u.thr \in Byte /\ u.rx \in Seq(Byte) /\ u.line \in Seq(Byte) /\ u.loop \in BOOLEAN
      /\ h.written \in Seq(Byte) /\ h.taken \in Seq(Byte) /\ h.fed \in Seq(Byte)
  BY <1>5, <1>6 DEF Uart, History
<1>8. /\ v \in Uart /\ v.kind = u.kind /\ v.divisor = u.divisor /\ v.lcr = u.lcr
      /\ v.loop = u.loop /\ v.thr = NONE
      /\ ~u.loop => v.line = Append(u.line, u.thr) /\ v.rx = u.rx
      /\ u.loop => v.line = u.line
      /\ u.loop /\ Len(u.rx) = FIFO => v.rx = u.rx
      /\ u.loop /\ Len(u.rx) # FIFO => v.rx = Append(u.rx, u.thr)
  <2>1. CASE ~u.loop
    <3>1. v = [u EXCEPT !.thr = NONE, !.line = Append(@, u.thr)]
      BY <2>1 DEF shifted
    <3>2. Append(u.line, u.thr) \in Seq(Byte)
      BY <1>7, AppendProperties
    <3> DEFINE r == Append(u.line, u.thr)
    <3> HIDE DEF v
    <3>3. v = [u EXCEPT !.thr = NONE, !.line = r]
      BY <1>6, <3>1 DEF Uart
    <3> HIDE DEF r
    <3>4. /\ v \in Uart /\ v.kind = u.kind /\ v.divisor = u.divisor /\ v.lcr = u.lcr
          /\ v.loop = u.loop /\ v.thr = NONE /\ v.line = r /\ v.rx = u.rx
      BY <1>6, <3>2, <3>3 DEF Uart, r
    <3> QED
      BY <2>1, <3>4 DEF r
  <2>2. CASE u.loop /\ Len(u.rx) = FIFO
    <3>1. v = [u EXCEPT !.thr = NONE]
      BY <2>2 DEF shifted
    <3> HIDE DEF v
    <3>2. /\ v \in Uart /\ v.kind = u.kind /\ v.divisor = u.divisor /\ v.lcr = u.lcr
          /\ v.loop = u.loop /\ v.thr = NONE /\ v.line = u.line /\ v.rx = u.rx
      BY ONLY <1>6, <3>1 DEF Uart
    <3> QED
      BY <2>2, <3>2
  <2>3. CASE u.loop /\ Len(u.rx) # FIFO
    <3>1. v = [u EXCEPT !.thr = NONE, !.rx = Append(@, u.thr)]
      BY <2>3 DEF shifted
    <3>2. Append(u.rx, u.thr) \in Seq(Byte)
      BY <1>7, AppendProperties
    <3> DEFINE r == Append(u.rx, u.thr)
    <3> HIDE DEF v
    <3>3. v = [u EXCEPT !.thr = NONE, !.rx = r]
      BY <1>6, <3>1 DEF Uart
    <3> HIDE DEF r
    <3>4. /\ v \in Uart /\ v.kind = u.kind /\ v.divisor = u.divisor /\ v.lcr = u.lcr
          /\ v.loop = u.loop /\ v.thr = NONE /\ v.line = u.line /\ v.rx = r
      BY <1>6, <3>2, <3>3 DEF Uart, r
    <3> QED
      BY <2>3, <3>4 DEF r
  <2> QED
    BY <1>7, <2>1, <2>2, <2>3
<1> HIDE DEF v
<1>9. Len(v.rx) <= FIFO
  <2>1. FIFO \in Nat /\ Len(u.rx) \in Nat /\ Len(Append(u.rx, u.thr)) = Len(u.rx) + 1
    <3>1. FIFO \in Nat
      BY SerialAssumption
    <3> QED
      BY <1>7, <3>1, LenProperties, AppendProperties
  <2>2. v.rx = u.rx \/ (Len(u.rx) # FIFO /\ v.rx = Append(u.rx, u.thr))
    BY <1>7, <1>8
  <2> QED
    BY <1>6, <2>1, <2>2
<1>10. ASSUME h.clean PROVE Queues(v, h, Stage(p))
  <2>1. Queues(u, h, Stage(p)) /\ u.loop = (Stage(p) = "test")
    BY <1>1, <1>10 DEF PortOK
  <2>2. CASE Stage(p) = "free"
    <3>1. u.line \o <<u.thr>> = h.written /\ h.taken \o u.rx = h.fed
      BY <1>5, <2>1, <2>2 DEF Queues, Held
    <3>2. Held(v) = <<>> /\ v.line = Append(u.line, u.thr) /\ v.rx = u.rx
      BY <1>8, <2>1, <2>2 DEF Held
    <3>3. Append(u.line, u.thr) = u.line \o <<u.thr>>
      BY <1>7, AppendIsConcat
    <3>4. v.line \o <<>> = v.line
      BY <1>7, <3>2, AppendProperties, ConcatEmptySeq
    <3> QED
      BY <2>2, <3>1, <3>2, <3>3, <3>4 DEF Queues
  <2>3. CASE Stage(p) = "loopback"
    BY <1>5, <2>1, <2>3 DEF Queues
  <2>4. CASE Stage(p) = "test"
    <3>1. u.thr = SERIAL_TEST_BYTE /\ u.rx = <<>> /\ u.line = h.written /\ h.taken = h.fed
      BY <1>5, <2>1, <2>4 DEF Queues
    <3>2. Len(u.rx) # FIFO
      BY <3>1, SerialAssumption
    <3>3. u.loop
      BY <2>1, <2>4
    <3>4. v.rx = Append(<<>>, SERIAL_TEST_BYTE) /\ v.line = u.line
      BY <1>8, <3>1, <3>2, <3>3
    <3>5. v.rx = <<SERIAL_TEST_BYTE>>
      BY <3>4
    <3> QED
      BY <1>8, <2>4, <3>1, <3>4, <3>5 DEF Queues
  <2> QED
    BY <2>2, <2>3, <2>4 DEF Stage
<1>11. PortOK(v, h, Stage(p))
  <2>1. h.tuned => SetTo(u, h.config)
    BY <1>1 DEF PortOK
  <2>2. h.tuned => SetTo(v, h.config)
    BY <1>8, <2>1 DEF SetTo
  <2> QED
    BY <1>1, <1>8, <1>9, <1>10, <2>2 DEF PortOK
<1>12. /\ PortInv' /\ uart'[p] = v /\ hist'[p] = h
       /\ \A q \in Ports : q # p => uart'[q] = uart[q] /\ hist'[q] = hist[q]
  <2> DEFINE stage == Stage(p)
  <2>1. PortInv /\ Stage(p)' = stage /\ PortOK(v, h, stage)
    BY <1>4, <1>11 DEF SerialInv
  <2>2. v \in Uart /\ h \in History /\ hist' = [hist EXCEPT ![p] = h]
    BY <1>3, <1>6, <1>8
  <2>3. \A q \in Ports : q # p => Stage(q)' = Stage(q)
    BY <1>4
  <2> HIDE DEF stage
  <2> QED
    BY <1>2, <2>1, <2>2, <2>3, OnePort
<1>13. /\ \A q \in Ports : /\ uart'[q].kind = uart[q].kind
                           /\ uart'[q].divisor = uart[q].divisor
                           /\ uart'[q].lcr = uart[q].lcr
       /\ \A q \in Ports : hist'[q] = hist[q]
  BY <1>8, <1>12 DEF u, h
<1> QED
  BY <1>3, <1>12, <1>13, DeviceStep

(* A byte of the peer's goes to the end of both the FIFO and what it sent, *)
(* or to neither.                                                          *)
LEMMA PeerStep ==
    ASSUME SerialInv, NEW p \in Ports, PeerSends(p)
    PROVE  SerialInv'
<1> DEFINE u == uart[p]  h == hist[p]
           arrives == ~u.loop /\ Len(u.rx) < FIFO
           disturbs == pc = "loopback" /\ call.port = p
<1>1. /\ uart \in [Ports -> Uart] /\ hist \in [Ports -> History]
      /\ PortOK(u, h, Stage(p))
  BY DEF SerialInv, PortInv
<1>2. PICK b \in PeerBytes :
        /\ uart' = [uart EXCEPT ![p].peer = @ + 1, ![p].rx = IF arrives THEN Append(@, b) ELSE @]
        /\ hist' = [hist EXCEPT ![p].fed = IF arrives THEN Append(@, b) ELSE @,
                                ![p].clean = @ /\ ~disturbs]
  BY Zenon DEF PeerSends
<1> DEFINE r == IF arrives THEN Append(u.rx, b) ELSE u.rx
           f == IF arrives THEN Append(h.fed, b) ELSE h.fed
           v == [u EXCEPT !.peer = u.peer + 1, !.rx = r]
           g == [h EXCEPT !.fed = f, !.clean = h.clean /\ ~disturbs]
<1>3. u \in Uart /\ h \in History /\ Len(u.rx) <= FIFO
  BY <1>1 DEF PortOK
<1>4. /\ u.rx \in Seq(Byte) /\ u.peer \in Nat /\ u.loop \in BOOLEAN
      /\ h.fed \in Seq(Byte) /\ h.taken \in Seq(Byte) /\ h.clean \in BOOLEAN
  BY <1>3 DEF Uart, History
<1>5. b \in Byte
  <2>1. PeerBytes \subseteq 1..255
    BY SerialAssumption
  <2> QED
    BY <2>1 DEF Byte
<1>6. r \in Seq(Byte) /\ f \in Seq(Byte)
  BY <1>4, <1>5, AppendProperties
<1>7. uart' = [uart EXCEPT ![p] = v]
  BY <1>1, <1>2 DEF Uart
<1>8. hist' = [hist EXCEPT ![p] = g] /\ UNCHANGED driver_vars
  BY <1>1, <1>2 DEF History, PeerSends

<1>9. \A q \in Ports : Stage(q)' = Stage(q)
  BY <1>8 DEF Stage, driver_vars
<1>10. /\ v \in Uart /\ v.kind = u.kind /\ v.divisor = u.divisor /\ v.lcr = u.lcr
       /\ v.loop = u.loop /\ v.thr = u.thr /\ v.line = u.line /\ v.rx = r
  <2> DEFINE k == u.peer + 1
  <2>1. k \in Nat
    BY <1>4
  <2> HIDE DEF r, u, k
  <2>2. v = [u EXCEPT !.peer = k, !.rx = r]
    BY DEF k
  <2> HIDE DEF v
  <2> QED
    BY ONLY <1>3, <1>6, <2>1, <2>2 DEF Uart
<1>11. /\ g \in History /\ g.config = h.config /\ g.tuned = h.tuned /\ g.fed = f
       /\ g.written = h.written /\ g.taken = h.taken
       /\ g.clean = (h.clean /\ ~disturbs)
  <2> HIDE DEF f, h, disturbs
  <2> QED
    BY <1>3, <1>4, <1>6 DEF History
<1> HIDE DEF v, g, u, h
<1>12. Len(v.rx) <= FIFO
  <2>1. FIFO \in Nat
    BY SerialAssumption
  <2>2. Len(u.rx) \in Nat /\ Len(Append(u.rx, b)) = Len(u.rx) + 1
    BY <1>4, <1>5, LenProperties, AppendProperties
  <2> QED
    BY <1>3, <1>10, <2>1, <2>2
<1>13. ASSUME g.clean PROVE Queues(v, g, Stage(p))
  <2>1. h.clean /\ ~disturbs
    BY <1>11, <1>13
  <2>2. Queues(u, h, Stage(p)) /\ u.loop = (Stage(p) = "test")
    BY <1>1, <2>1 DEF PortOK
  <2>3. CASE Stage(p) = "free"
    <3>1. h.taken \o u.rx = h.fed /\ u.line \o Held(u) = h.written
      BY <2>2, <2>3 DEF Queues
    <3>2. h.taken \o Append(u.rx, b) = Append(h.taken \o u.rx, b)
      <4> DEFINE s == h.taken  t == u.rx
      <4>1. s \in Seq(Byte) /\ t \in Seq(Byte) /\ b \in Byte
        BY <1>4, <1>5
      <4> HIDE DEF s, t
      <4>2. s \o Append(t, b) = Append(s \o t, b)
        BY <4>1, AppendToBoth
      <4> QED
        BY <4>2 DEF s, t
    <3>3. h.taken \o r = f
      BY <3>1, <3>2
    <3>4. Held(v) = Held(u)
      BY <1>10 DEF Held
    <3> HIDE DEF r, f
    <3> QED
      BY <1>10, <1>11, <2>3, <3>1, <3>3, <3>4 DEF Queues
  <2>4. CASE Stage(p) = "loopback"
    BY <2>1, <2>4 DEF Stage
  <2>5. CASE Stage(p) = "test"
    <3>1. u.loop /\ r = u.rx /\ f = h.fed
      BY <2>2, <2>5
    <3> HIDE DEF r, f
    <3> QED
      BY <1>10, <1>11, <2>2, <2>5, <3>1 DEF Queues
  <2> QED
    BY <2>3, <2>4, <2>5 DEF Stage
<1>14. PortOK(v, g, Stage(p))
  <2>1. h.tuned => Stage(p) = "free" /\ SetTo(u, h.config)
    BY <1>1 DEF PortOK
  <2>2. g.tuned => Stage(p) = "free" /\ SetTo(v, g.config)
    BY <1>10, <1>11, <2>1 DEF SetTo
  <2>3. v.loop = (Stage(p) = "test")
    BY <1>1, <1>10 DEF PortOK
  <2> QED
    BY <1>10, <1>11, <1>12, <1>13, <2>2, <2>3 DEF PortOK
<1>15. /\ PortInv' /\ uart'[p] = v /\ hist'[p] = g
       /\ \A q \in Ports : q # p => uart'[q] = uart[q] /\ hist'[q] = hist[q]
  <2> DEFINE stage == Stage(p)
  <2>1. PortInv /\ Stage(p)' = stage /\ PortOK(v, g, stage)
    BY <1>9, <1>14 DEF SerialInv
  <2>2. v \in Uart /\ g \in History /\ hist' = [hist EXCEPT ![p] = g]
    BY <1>8, <1>10, <1>11
  <2>3. \A q \in Ports : q # p => Stage(q)' = Stage(q)
    BY <1>9
  <2> HIDE DEF stage, r, f, arrives, disturbs
  <2> QED
    BY <1>7, <2>1, <2>2, <2>3, OnePort
<1>16. /\ \A q \in Ports : /\ uart'[q].kind = uart[q].kind
                           /\ uart'[q].divisor = uart[q].divisor
                           /\ uart'[q].lcr = uart[q].lcr
       /\ \A q \in Ports : /\ hist'[q].tuned = hist[q].tuned
                           /\ hist'[q].config = hist[q].config
                           /\ hist'[q].taken = hist[q].taken
  BY <1>10, <1>11, <1>15 DEF u, h
<1> QED
  BY <1>8, <1>15, <1>16, DeviceStep

-----------------------------------------------------------------------------
(* Outside serial_init_port every port is free.                            *)
LEMMA AllFree ==
    ASSUME pc \notin {"loopback", "test"}
    PROVE  \A q \in Ports : Stage(q) = "free"
  BY DEF Stage

(* serial_init_port begins on a free port, sets its line and clears its    *)
(* FIFOs: the port stays clean only if they were empty.                    *)
LEMMA InitPortStep ==
    ASSUME SerialInv, NEW p \in Ports, NEW c \in Settings, serial_init_port(p, c),
           todo' \in Seq(Ports)
    PROVE  SerialInv'
<1> DEFINE u == uart[p]  h == hist[p]
           w == [u EXCEPT !.divisor = divisor_of(c.baudrate), !.lcr = lcr_reg(c), !.loop = FALSE]
           v == clear_fifos(w)
           empty == u.rx = <<>> /\ u.thr = NONE
           g == [h EXCEPT !.tuned = FALSE, !.clean = h.clean /\ empty]
<1>1. /\ uart \in [Ports -> Uart] /\ hist \in [Ports -> History]
      /\ PortOK(u, h, Stage(p))
  BY DEF SerialInv, PortInv
<1>2. /\ pc = "idle" /\ pc' = "loopback"
      /\ call' = [name |-> "init", n |-> call.n + 1, port |-> p, config |-> c]
      /\ UNCHANGED <<g_cursor, g_serial_ports, g_cached_lookup_result>>
  BY DEF serial_init_port
<1>3. \A q \in Ports : Stage(q) = "free"
  BY <1>2, AllFree
<1>4. call.n \in Nat
  BY DEF SerialInv, CallInv
<1>5. call' \in InitCall /\ call'.port = p /\ call'.config = c /\ call'.n \in Nat
  BY <1>2, <1>4 DEF InitCall
<1>6. Stage(p)' = "loopback" /\ \A q \in Ports : q # p => Stage(q)' = "free"
  BY <1>2, <1>5 DEF Stage
<1>7. u \in Uart /\ h \in History /\ u.loop = FALSE
  BY <1>1, <1>3 DEF PortOK
<1>8. uart' = [uart EXCEPT ![p] = v]
  BY Zenon DEF serial_init_port
<1>9. hist' = [hist EXCEPT ![p] = g]
  <2>1. hist' = [hist EXCEPT ![p].tuned = FALSE, ![p].clean = @ /\ empty]
    BY DEF serial_init_port
  <2> HIDE DEF empty
  <2> QED
    BY <1>1, <2>1 DEF History
<1>10. /\ v \in Uart /\ v.kind = u.kind /\ v.loop = FALSE /\ v.line = u.line
       /\ v.thr = NONE /\ v.rx = <<>> /\ SetTo(v, c)
  <2> DEFINE d == divisor_of(c.baudrate)  l == lcr_reg(c)
  <2>1. d \in Word /\ l \in 0..127
    BY SettingsTyped
  <2> HIDE DEF d, l, u
  <2>2. w = [u EXCEPT !.divisor = d, !.lcr = l, !.loop = FALSE]
    BY DEF d, l
  <2> HIDE DEF w
  <2>3. /\ w \in Uart /\ w.kind = u.kind /\ w.loop = FALSE /\ w.line = u.line
        /\ w.divisor = d /\ w.lcr = l
    BY ONLY <1>7, <2>1, <2>2 DEF Uart
  <2>4. v = [w EXCEPT !.rx = <<>>, !.thr = NONE]
    BY DEF clear_fifos
  <2> HIDE DEF v
  <2>5. <<>> \in Seq(Byte)
    OBVIOUS
  <2>6. /\ v \in Uart /\ v.kind = w.kind /\ v.loop = w.loop /\ v.line = w.line
        /\ v.divisor = w.divisor /\ v.lcr = w.lcr /\ v.thr = NONE /\ v.rx = <<>>
    BY ONLY <2>3, <2>4, <2>5 DEF Uart
  <2> QED
    BY <2>3, <2>6 DEF SetTo, d, l
<1>11. /\ g \in History /\ g.config = h.config /\ g.tuned = FALSE /\ g.fed = h.fed
       /\ g.written = h.written /\ g.taken = h.taken /\ g.clean = (h.clean /\ empty)
  <2> HIDE DEF h, empty
  <2> DEFINE k == h.clean /\ empty
  <2>1. k \in BOOLEAN
    BY Zenon
  <2>2. g = [h EXCEPT !.tuned = FALSE, !.clean = k]
    BY Zenon
  <2> HIDE DEF k, g
  <2>3. /\ g \in History /\ g.config = h.config /\ g.tuned = FALSE /\ g.fed = h.fed
        /\ g.written = h.written /\ g.taken = h.taken /\ g.clean = k
    BY ONLY <1>7, <2>1, <2>2 DEF History
  <2> QED
    BY <2>3, Zenon DEF k
<1> HIDE DEF u, h, v, w, g
<1>12. ASSUME g.clean PROVE Queues(v, g, "loopback")
  <2>1. h.clean /\ u.rx = <<>> /\ u.thr = NONE
    BY <1>11, <1>12
  <2>2. Queues(u, h, "free")
    BY <1>1, <1>3, <2>1 DEF PortOK
  <2>3. u.line \o <<>> = h.written /\ h.taken \o <<>> = h.fed
    BY <2>1, <2>2 DEF Queues, Held
  <2>4. u.line \in Seq(Byte) /\ h.taken \in Seq(Byte)
    BY <1>7 DEF Uart, History
  <2>5. u.line = h.written /\ h.taken = h.fed
    BY <2>3, <2>4, ConcatEmptySeq
  <2> QED
    BY <1>10, <1>11, <2>5 DEF Queues
<1>13. PortOK(v, g, "loopback")
  <2>1. Len(v.rx) <= FIFO
    <3>1. FIFO \in Nat
      BY SerialAssumption
    <3>2. Len(v.rx) = 0
      BY <1>10, EmptySeq
    <3> QED
      BY <3>1, <3>2
  <2> QED
    BY <1>10, <1>11, <1>12, <2>1 DEF PortOK
<1>14. /\ PortInv' /\ uart'[p] = v /\ hist'[p] = g
       /\ \A q \in Ports : q # p => uart'[q] = uart[q] /\ hist'[q] = hist[q]
  <2>1. PortInv /\ \A q \in Ports : q # p => Stage(q)' = Stage(q)
    BY <1>3, <1>6 DEF SerialInv
  <2> QED
    BY <1>6, <1>8, <1>9, <1>10, <1>11, <1>13, <2>1, OnePort, ZenonT(60)
<1>15. TableInv'
  <2>1. \A q \in Ports : uart'[q].kind = uart[q].kind
    BY <1>10, <1>14 DEF u
  <2>2. \A q \in Ports : hist'[q].tuned => hist[q].tuned /\ hist'[q].config = hist[q].config
    BY <1>11, <1>14 DEF h
  <2> QED
    BY <1>2, <2>1, <2>2, TableKept DEF SerialInv, TableInv
<1>16. CallInv'
  <2>1. SetTo(uart[call.port], call.config)'
    BY <1>5, <1>10, <1>14 DEF SetTo
  <2> QED
    BY <1>2, <1>5, <2>1 DEF CallInv, StringFits
<1> QED
  BY <1>14, <1>15, <1>16 DEF SerialInv

(* A failed initialisation leaves a free port that is neither clean nor    *)
(* tuned, whatever is in its registers, and the table alone.               *)
LEMMA FailedStep ==
    ASSUME SerialInv, pc \in {"loopback", "test"}, NEW v \in Uart,
           uart' = [uart EXCEPT ![call.port] = v],
           v.kind = uart[call.port].kind, v.loop = FALSE, Len(v.rx) <= FIFO,
           init_failed(call.port), UNCHANGED <<g_cached_lookup_result, call, todo>>
    PROVE  SerialInv'
<1> DEFINE p == call.port  h == hist[p]
           g == [h EXCEPT !.clean = FALSE]
<1>1. PortInv /\ TableInv /\ CallInv
  BY DEF SerialInv
<1>2. call \in InitCall /\ p \in Ports
  BY <1>1 DEF CallInv, InitCall
<1>3. /\ uart \in [Ports -> Uart] /\ hist \in [Ports -> History]
      /\ PortOK(uart[p], h, Stage(p))
  BY <1>1, <1>2 DEF PortInv
<1>4. Stage(p) # "free" /\ \A q \in Ports : q # p => Stage(q) = "free"
  BY DEF Stage
<1>5. pc' = "idle" /\ UNCHANGED <<g_cursor, g_serial_ports>>
  BY DEF init_failed
<1>6. \A q \in Ports : Stage(q)' = "free"
  BY <1>5 DEF Stage
<1>7. h \in History /\ h.tuned = FALSE
  BY <1>3, <1>4 DEF PortOK, History
<1>8. hist' = [hist EXCEPT ![p] = g]
  BY <1>3 DEF init_failed
<1>9. g \in History /\ g.tuned = FALSE /\ g.clean = FALSE /\ g.config = h.config
  <2> HIDE DEF h
  <2> QED
    BY <1>7 DEF History
<1> HIDE DEF g
<1>10. /\ uart' \in [Ports -> Uart] /\ uart'[p] = v
       /\ \A q \in Ports : q # p => uart'[q] = uart[q]
  BY <1>2, <1>3
<1>11. /\ hist' \in [Ports -> History] /\ hist'[p] = g
       /\ \A q \in Ports : q # p => hist'[q] = hist[q]
  BY <1>2, <1>3, <1>8, <1>9
<1>12. ASSUME NEW q \in Ports PROVE PortOK(uart'[q], hist'[q], Stage(q)')
  <2>1. CASE q = p
    BY <1>6, <1>9, <1>10, <1>11, <2>1 DEF PortOK
  <2>2. CASE q # p
    <3>1. PortOK(uart[q], hist[q], "free")
      BY <1>1, <1>4, <2>2 DEF PortInv
    <3> QED
      BY <1>6, <1>10, <1>11, <2>2, <3>1
  <2> QED
    BY <2>1, <2>2
<1>13. PortInv'
  BY <1>10, <1>11, <1>12 DEF PortInv
<1>14. TableInv'
  <2>1. \A q \in Ports : uart'[q].kind = uart[q].kind
    BY <1>10
  <2>2. \A q \in Ports : hist'[q].tuned => hist[q].tuned /\ hist'[q].config = hist[q].config
    BY <1>9, <1>11
  <2> QED
    BY <1>1, <1>5, <2>1, <2>2, TableKept DEF TableInv
<1>15. CallInv'
  <2>1. call.name = "init"
    BY <1>2 DEF InitCall
  <2> QED
    BY <1>1, <1>5, <2>1 DEF CallInv, StringFits
<1> QED
  BY <1>13, <1>14, <1>15 DEF SerialInv

(* The test byte is written to the emptied transmitter, in loopback mode.  *)
LEMMA TestWriteStep ==
    ASSUME SerialInv, test_write
    PROVE  SerialInv'
<1> DEFINE p == call.port  u == uart[p]  h == hist[p]
           w == write_data(u, SERIAL_TEST_BYTE)
           v == [w EXCEPT !.loop = TRUE]
<1>1. PortInv /\ TableInv /\ CallInv
  BY DEF SerialInv
<1>2. pc = "loopback" /\ UNCHANGED <<g_cached_lookup_result, call, todo>>
  BY DEF test_write
<1>3. call \in InitCall /\ p \in Ports /\ SetTo(u, call.config)
  BY <1>1, <1>2 DEF CallInv, InitCall
<1>4. /\ uart \in [Ports -> Uart] /\ hist \in [Ports -> History]
      /\ PortOK(u, h, "loopback")
  BY <1>1, <1>2, <1>3 DEF PortInv, Stage
<1>5. u \in Uart /\ h \in History /\ u.loop = FALSE /\ Len(u.rx) <= FIFO /\ h.tuned = FALSE
  BY <1>4 DEF PortOK, History
<1>6. CASE UNCHANGED uart /\ init_failed(p)
  <2>1. uart' = [uart EXCEPT ![p] = u]
    BY <1>3, <1>4, <1>6
  <2> QED
    BY <1>2, <1>5, <1>6, <2>1, FailedStep
<1>7. CASE /\ uart' = [uart EXCEPT ![p] = v]
           /\ pc' = "test"
           /\ UNCHANGED <<g_cursor, g_serial_ports, hist>>
  <2> HIDE DEF u, h
  <2>1. SERIAL_TEST_BYTE \in Byte
    BY DEF SERIAL_TEST_BYTE, Byte
  <2>2. /\ w \in Uart /\ w.kind = u.kind /\ w.divisor = u.divisor /\ w.lcr = u.lcr
        /\ w.line = u.line /\ w.rx = u.rx
        /\ u.kind = "uart" => w.thr = SERIAL_TEST_BYTE
    <3>1. CASE u.kind = "uart"
      <4>1. w = [u EXCEPT !.thr = SERIAL_TEST_BYTE]
        BY <3>1 DEF write_data
      <4> HIDE DEF w
      <4> QED
        BY <1>5, <2>1, <4>1 DEF Uart
    <3>2. CASE u.kind # "uart"
      BY <1>5, <3>2 DEF write_data
    <3> QED
      BY <3>1, <3>2
  <2> HIDE DEF w
  <2>3. /\ v \in Uart /\ v.kind = u.kind /\ v.divisor = u.divisor /\ v.lcr = u.lcr
        /\ v.line = u.line /\ v.rx = u.rx /\ v.loop = TRUE
        /\ u.kind = "uart" => v.thr = SERIAL_TEST_BYTE
    BY <2>2 DEF Uart
  <2> HIDE DEF v
  <2>4. ASSUME h.clean PROVE Queues(v, h, "test")
    <3>1. u.line = h.written /\ h.taken = h.fed /\ u.rx = <<>>
      BY <1>4, <2>4 DEF PortOK, Queues
    <3> QED
      BY <2>3, <3>1 DEF Queues
  <2>5. PortOK(v, h, "test")
    BY <1>5, <2>3, <2>4 DEF PortOK
  <2>6. /\ uart' \in [Ports -> Uart] /\ uart'[p] = v
        /\ \A q \in Ports : q # p => uart'[q] = uart[q]
    BY <1>3, <1>4, <1>7, <2>3
  <2>7. ASSUME NEW q \in Ports PROVE PortOK(uart'[q], hist'[q], Stage(q)')
    <3>1. CASE q = p
      <4>1. Stage(q)' = "test" /\ hist'[q] = h
        BY <1>2, <1>7, <3>1 DEF Stage, h
      <4> QED
        BY <2>5, <2>6, <3>1, <4>1
    <3>2. CASE q # p
      <4>1. Stage(q)' = "free" /\ Stage(q) = "free" /\ hist'[q] = hist[q]
        BY <1>2, <1>7, <3>2 DEF Stage
      <4>2. PortOK(uart[q], hist[q], "free")
        BY <1>1, <4>1 DEF PortInv
      <4> QED
        BY <2>6, <3>2, <4>1, <4>2
    <3> QED
      BY <3>1, <3>2
  <2>8. PortInv'
    BY <1>4, <1>7, <2>6, <2>7 DEF PortInv
  <2>9. TableInv'
    <3>1. \A q \in Ports : uart'[q].kind = uart[q].kind
      BY <2>3, <2>6 DEF u
    <3> QED
      BY <1>1, <1>2, <1>7, <3>1, TableKept DEF TableInv
  <2>10. CallInv'
    <3>1. SetTo(v, call.config)
      BY <1>3, <2>3 DEF SetTo, u
    <3> QED
      BY <1>1, <1>2, <1>3, <1>7, <2>6, <3>1 DEF CallInv, StringFits
  <2> QED
    BY <2>8, <2>9, <2>10 DEF SerialInv
<1> QED
  BY <1>6, <1>7 DEF test_write

(* Two ports are all there are.                                            *)
LEMMA TwoPorts == Cardinality(Ports) = 2
<1>1. IsFiniteSet({SERIAL_PORT_COM1}) /\ Cardinality({SERIAL_PORT_COM1}) = 1
  BY FS_Singleton
<1>2. SERIAL_PORT_COM2 \notin {SERIAL_PORT_COM1}
  BY DEF SERIAL_PORT_COM1, SERIAL_PORT_COM2
<1>3. Ports = {SERIAL_PORT_COM1} \cup {SERIAL_PORT_COM2}
  BY DEF Ports
<1>4. Cardinality({SERIAL_PORT_COM1} \cup {SERIAL_PORT_COM2}) = 1 + 1
  BY <1>1, <1>2, FS_AddElement
<1> QED
  BY <1>3, <1>4

(* upsert_serial_config changes the port's element, or adds one to a list  *)
(* of at most one: the early heap has room for it.                         *)
LEMMA Upserted ==
    ASSUME TableInv, NEW p \in Ports, NEW b \in Rate, upsert_serial_config(p, b)
    PROVE  /\ g_serial_ports' \in Seq(Entry)
           /\ g_cursor' = EARLY_HEAP_START + SIZEOF_PORT * Len(g_serial_ports')
           /\ g_cached_lookup_result \in 0..Len(g_serial_ports')
           /\ \A i \in DOMAIN g_serial_ports :
                i \in DOMAIN g_serial_ports' /\ g_serial_ports'[i].port = g_serial_ports[i].port
           /\ \A i \in DOMAIN g_serial_ports' :
                \/ g_serial_ports'[i] = [port |-> p, baudrate |-> b]
                \/ /\ i \in DOMAIN g_serial_ports /\ g_serial_ports'[i] = g_serial_ports[i]
                   /\ g_serial_ports[i].port # p
           /\ \A i, j \in DOMAIN g_serial_ports' :
                g_serial_ports'[i].port = g_serial_ports'[j].port => i = j
<1> DEFINE g == g_serial_ports
           n == Len(g)
           e == [port |-> p, baudrate |-> b]
           slot == get_serial_slot(p)
<1>1. /\ g \in Seq(Entry) /\ n \in Nat /\ DOMAIN g = 1..n
      /\ g_cursor = EARLY_HEAP_START + SIZEOF_PORT * n
      /\ g_cached_lookup_result \in 0..n
      /\ \A i, j \in 1..n : g[i].port = g[j].port => i = j
      /\ \A i \in 1..n : g[i] \in Entry
  <2>1. g \in Seq(Entry)
    BY DEF TableInv
  <2>2. n \in Nat /\ DOMAIN g = 1..n /\ \A i \in 1..n : g[i] \in Entry
    BY <2>1
  <2> QED
    BY <2>1, <2>2 DEF TableInv
<1>2. e \in Entry /\ e.port = p
  BY DEF Entry
<1>3. \A i \in 1..n : g[i].port \in Ports
  BY <1>1 DEF Entry
<1>4. CASE \E i \in DOMAIN g : g[i].port = p
  <2>1. slot \in 1..n /\ g[slot].port = p
    BY <1>1, <1>4 DEF get_serial_slot
  <2>2. g_serial_ports' = [g EXCEPT ![slot] = e] /\ g_cursor' = g_cursor
    BY <1>1, <2>1 DEF upsert_serial_config
  <2> HIDE DEF g, n, e, slot
  <2>3. /\ g_serial_ports' \in Seq(Entry) /\ Len(g_serial_ports') = n
        /\ DOMAIN g_serial_ports' = 1..n /\ g_serial_ports'[slot] = e
        /\ \A i \in 1..n : i # slot => g_serial_ports'[i] = g[i]
    BY <1>1, <1>2, <2>1, <2>2
  <2>4. \A i \in 1..n : i # slot => g[i].port # p
    BY <1>1, <2>1
  <2>5. \A i \in 1..n : g_serial_ports'[i].port = g[i].port
    BY <1>2, <2>1, <2>3
  <2>6. \A i, j \in 1..n : g_serial_ports'[i].port = g_serial_ports'[j].port => i = j
    BY <1>1, <2>5
  <2>7. \A i \in 1..n : g_serial_ports'[i] = e \/ (g_serial_ports'[i] = g[i] /\ g[i].port # p)
    BY <2>3, <2>4
  <2> QED
    BY <1>1, <2>2, <2>3, <2>5, <2>6, <2>7 DEF g, n, e
<1>5. CASE \A i \in DOMAIN g : g[i].port # p
  <2>1. slot = n + 1 /\ slot \notin DOMAIN g
    BY <1>1, <1>5 DEF get_serial_slot
  <2>2. g_serial_ports' = Append(g, e) /\ g_cursor' = next_cursor(g_cursor, SIZEOF_PORT)
    BY <2>1 DEF upsert_serial_config
  <2> HIDE DEF g, n, e, slot
  <2>3. n <= 1
    <3> SUFFICES ASSUME n >= 2 PROVE FALSE
      BY <1>1
    <3>1. 1 \in 1..n /\ 2 \in 1..n
      BY <1>1
    <3>2. g[1].port \in Ports /\ g[2].port \in Ports /\ g[1].port # g[2].port
      BY <1>1, <1>3, <3>1
    <3>3. g[1].port # p /\ g[2].port # p
      BY <1>1, <1>5, <3>1
    <3> QED
      BY <3>2, <3>3 DEF Ports
  <2>4. g_cursor' = EARLY_HEAP_START + SIZEOF_PORT * (n + 1)
    <3>1. EARLY_HEAP_START + SIZEOF_PORT * 2 <= EARLY_HEAP_END
      BY TwoPorts, SerialAssumption
    <3>2. EARLY_HEAP_START \in Nat /\ EARLY_HEAP_END \in Nat /\ ADDRESS_SPACE \in Nat
          /\ EARLY_HEAP_END < ADDRESS_SPACE
      BY EmmAssumption
    <3> DEFINE k == EARLY_HEAP_START + 12 * (n + 1)
    <3>3. k \in Nat /\ k < ADDRESS_SPACE
      BY <1>1, <2>3, <3>1, <3>2 DEF SIZEOF_PORT
    <3>4. g_cursor + SIZEOF_PORT = k
      BY <1>1, <3>2 DEF SIZEOF_PORT
    <3> HIDE DEF k
    <3>5. k % ADDRESS_SPACE = k
      BY <3>2, <3>3
    <3>6. g_cursor' = k
      BY <2>2, <3>4, <3>5 DEF next_cursor
    <3> QED
      BY <3>6 DEF k, SIZEOF_PORT
  <2>5. /\ g_serial_ports' \in Seq(Entry) /\ Len(g_serial_ports') = n + 1
        /\ g_serial_ports'[n + 1] = e
        /\ \A i \in 1..n : g_serial_ports'[i] = g[i]
    BY <1>1, <1>2, <2>2, AppendProperties DEF n
  <2>6. DOMAIN g_serial_ports' = 1..(n + 1)
    BY <2>5, LenProperties
  <2>7. \A i \in 1..(n + 1) : i \in 1..n \/ i = n + 1
    BY <1>1
  <2>8. \A i \in 1..n : g[i].port # p
    BY <1>1, <1>5
  <2>9. \A i, j \in 1..(n + 1) : g_serial_ports'[i].port = g_serial_ports'[j].port => i = j
    BY <1>1, <1>2, <2>5, <2>7, <2>8
  <2>10. \A i \in 1..(n + 1) :
            \/ g_serial_ports'[i] = e
            \/ i \in 1..n /\ g_serial_ports'[i] = g[i] /\ g[i].port # p
    BY <2>5, <2>7, <2>8
  <2>11. g_cached_lookup_result \in 0..(n + 1) /\ \A i \in 1..n : i \in 1..(n + 1)
    BY <1>1
  <2> QED
    BY <1>1, <2>4, <2>5, <2>6, <2>9, <2>10, <2>11 DEF g, e, n
<1> QED
  BY <1>4, <1>5

(* The data register read: a UART's first byte is gone, and nothing else   *)
(* of any device changes.                                                  *)
LEMMA DataRead ==
    ASSUME NEW p \in Ports, uart[p] \in Uart, Len(uart[p].rx) <= FIFO, serial_received(p)
    PROVE  LET u == uart[p]
               w == read_data(u)
           IN  /\ w \in Uart /\ w.kind = u.kind /\ w.divisor = u.divisor /\ w.lcr = u.lcr
               /\ w.loop = u.loop /\ w.thr = u.thr /\ w.line = u.line /\ Len(w.rx) <= FIFO
               /\ data(p) \in Byte
               /\ u.kind = "uart" => /\ u.rx # <<>> /\ data(p) = Head(u.rx)
                                     /\ w.rx = Tail(u.rx)
<1> DEFINE u == uart[p]
           w == read_data(u)
<1>1. CASE u.kind = "uart"
  <2>1. u.rx # <<>> /\ data(p) = Head(u.rx)
    BY <1>1 DEF serial_received, data
  <2>2. u \in Uart /\ u.rx \in Seq(Byte)
    BY DEF Uart
  <2>3. w = [u EXCEPT !.rx = Tail(u.rx)]
    BY <1>1 DEF read_data
  <2> HIDE DEF u, w
  <2> DEFINE t == Tail(u.rx)
  <2>4. /\ Head(u.rx) \in Byte /\ t \in Seq(Byte) /\ Len(t) = Len(u.rx) - 1
        /\ Len(u.rx) \in Nat
    BY <2>1, <2>2, HeadTailProperties, LenProperties
  <2>5. FIFO \in Nat /\ Len(u.rx) <= FIFO
    BY SerialAssumption DEF u
  <2>6. Len(t) <= FIFO
    BY <2>4, <2>5
  <2> HIDE DEF t
  <2>7. /\ w \in Uart /\ w.kind = u.kind /\ w.divisor = u.divisor /\ w.lcr = u.lcr
        /\ w.loop = u.loop /\ w.thr = u.thr /\ w.line = u.line /\ w.rx = t
    BY <2>2, <2>3, <2>4 DEF Uart, t
  <2> QED
    BY <2>1, <2>4, <2>6, <2>7 DEF u, w, t
<1>2. CASE u.kind # "uart"
  <2>1. w = u /\ data(p) = 255
    BY <1>2 DEF read_data, data
  <2> QED
    BY <1>2, <2>1 DEF Byte
<1> QED
  BY <1>1, <1>2

(* Only the test byte read back makes a port, and its element says how it  *)
(* was set.                                                                *)
LEMMA TestReadStep ==
    ASSUME SerialInv, test_read
    PROVE  SerialInv'
<1> DEFINE p == call.port  u == uart[p]  h == hist[p]
           w == read_data(u)
           v == [w EXCEPT !.loop = FALSE]
<1>1. PortInv /\ TableInv /\ CallInv
  BY DEF SerialInv
<1>2. pc = "test" /\ UNCHANGED <<g_cached_lookup_result, call, todo>>
  BY DEF test_read
<1>3. call \in InitCall /\ p \in Ports /\ SetTo(u, call.config) /\ call.config \in Settings
  BY <1>1, <1>2 DEF CallInv, InitCall
<1>4. /\ uart \in [Ports -> Uart] /\ hist \in [Ports -> History]
      /\ PortOK(u, h, "test")
  BY <1>1, <1>2, <1>3 DEF PortInv, Stage
<1>5. u \in Uart /\ h \in History /\ u.loop = TRUE /\ Len(u.rx) <= FIFO
  BY <1>4 DEF PortOK
<1>6. CASE ~serial_received(p)
  <2> DEFINE x == [u EXCEPT !.loop = FALSE]
  <2>1. uart' = [uart EXCEPT ![p] = x] /\ init_failed(p)
    BY <1>6 DEF test_read
  <2> HIDE DEF u
  <2>2. x \in Uart /\ x.kind = u.kind /\ x.loop = FALSE /\ x.rx = u.rx
    BY <1>5 DEF Uart
  <2> HIDE DEF x
  <2>3. x.kind = uart[p].kind /\ Len(x.rx) <= FIFO
    BY <1>5, <2>2 DEF u
  <2> QED
    BY <1>2, <2>1, <2>2, <2>3, FailedStep
<1>7. CASE serial_received(p)
  <2>1. /\ w \in Uart /\ w.kind = u.kind /\ w.divisor = u.divisor /\ w.lcr = u.lcr
        /\ w.thr = u.thr /\ w.line = u.line /\ Len(w.rx) <= FIFO
        /\ u.kind = "uart" => u.rx # <<>> /\ data(p) = Head(u.rx) /\ w.rx = Tail(u.rx)
    BY <1>3, <1>5, <1>7, DataRead
  <2>2. uart' = [uart EXCEPT ![p] = v]
    BY <1>7 DEF test_read
  <2> HIDE DEF w
  <2>3. /\ v \in Uart /\ v.kind = u.kind /\ v.divisor = u.divisor /\ v.lcr = u.lcr
        /\ v.thr = u.thr /\ v.line = u.line /\ v.rx = w.rx /\ v.loop = FALSE
    BY <2>1 DEF Uart
  <2> HIDE DEF v
  <2>4. /\ uart' \in [Ports -> Uart] /\ uart'[p] = v
        /\ \A q \in Ports : q # p => uart'[q] = uart[q]
    BY <1>3, <1>4, <2>2, <2>3
  <2>5. CASE ~echoed(data(p))
    <3>1. init_failed(p)
      BY <1>7, <2>5 DEF test_read
    <3>2. v.kind = uart[p].kind /\ Len(v.rx) <= FIFO
      BY <2>1, <2>3
    <3> QED
      BY <1>2, <2>2, <2>3, <3>1, <3>2, FailedStep
  <2>6. CASE echoed(data(p))
    <3> DEFINE c == call.config
               g == [h EXCEPT !.tuned = TRUE, !.config = c]
    <3>1. /\ upsert_serial_config(p, c.baudrate) /\ pc' = "idle"
          /\ hist' = [hist EXCEPT ![p].tuned = TRUE, ![p].config = c]
      BY <1>7, <2>6 DEF test_read
    <3>2. hist' = [hist EXCEPT ![p] = g]
      BY <1>3, <1>4, <3>1 DEF History
    <3>3. u.kind = "uart"
      BY <2>6 DEF echoed, data, SERIAL_TEST_BYTE
    <3> HIDE DEF h
    <3>4. /\ g \in History /\ g.tuned = TRUE /\ g.config = c /\ g.clean = h.clean
          /\ g.written = h.written /\ g.fed = h.fed /\ g.taken = h.taken
      BY <1>3, <1>5 DEF History
    <3> HIDE DEF g, u
    <3>5. \A q \in Ports : Stage(q)' = "free"
      BY <3>1 DEF Stage
    <3>6. ASSUME g.clean PROVE Queues(v, g, "free")
      <4>1. Queues(u, h, "test")
        BY <1>4, <3>4, <3>6 DEF PortOK
      <4>2. /\ u.line = h.written /\ h.taken = h.fed
            /\ u.thr = NONE /\ u.rx = <<SERIAL_TEST_BYTE>>
        BY <2>1, <3>3, <4>1 DEF Queues
      <4>3. v.thr = NONE /\ v.rx = <<>> /\ v.line = h.written
        BY <2>1, <2>3, <3>3, <4>2
      <4>4. h.written \in Seq(Byte) /\ h.taken \in Seq(Byte)
        BY <1>5 DEF History
      <4>5. h.written \o <<>> = h.written /\ h.taken \o <<>> = h.taken
        BY <4>4, ConcatEmptySeq
      <4> QED
        BY <3>4, <4>2, <4>3, <4>5 DEF Queues, Held
    <3>7. PortOK(v, g, "free")
      <4>1. SetTo(v, g.config)
        BY <1>3, <2>3, <3>4 DEF SetTo
      <4>2. Len(v.rx) <= FIFO
        BY <2>1, <2>3
      <4> QED
        BY <2>3, <3>4, <3>6, <4>1, <4>2 DEF PortOK
    <3>8. /\ hist' \in [Ports -> History] /\ hist'[p] = g
          /\ \A q \in Ports : q # p => hist'[q] = hist[q]
      BY <1>3, <1>4, <3>2, <3>4
    <3>9. ASSUME NEW q \in Ports PROVE PortOK(uart'[q], hist'[q], Stage(q)')
      <4>1. CASE q = p
        BY <2>4, <3>5, <3>7, <3>8, <4>1
      <4>2. CASE q # p
        <5>1. Stage(q) = "free"
          BY <4>2 DEF Stage
        <5>2. PortOK(uart[q], hist[q], "free")
          BY <1>1, <5>1 DEF PortInv
        <5> QED
          BY <2>4, <3>5, <3>8, <4>2, <5>2
      <4> QED
        BY <4>1, <4>2
    <3>10. PortInv'
      BY <2>4, <3>8, <3>9 DEF PortInv
    <3>11. c.baudrate \in Rate
      BY <1>3, SettingsTyped DEF Setting
    <3>12. TableInv'
      <4>1. \A i \in DOMAIN g_serial_ports : g_serial_ports[i].port \in Ports
        <5>1. \A i \in DOMAIN g_serial_ports : g_serial_ports[i] \in Entry
          BY <1>1 DEF TableInv
        <5> QED
          BY <5>1 DEF Entry
      <4>2. ASSUME NEW i \in DOMAIN g_serial_ports'
            PROVE  LET q == g_serial_ports'[i].port
                   IN  /\ uart'[q].kind = "uart"
                       /\ hist'[q].tuned => g_serial_ports'[i].baudrate = hist'[q].config.baudrate
        <5>1. CASE g_serial_ports'[i] = [port |-> p, baudrate |-> c.baudrate]
          BY <2>3, <2>4, <3>3, <3>4, <3>8, <5>1
        <5>2. CASE /\ i \in DOMAIN g_serial_ports /\ g_serial_ports'[i] = g_serial_ports[i]
                   /\ g_serial_ports[i].port # p
          BY <1>1, <2>4, <3>8, <4>1, <5>2 DEF TableInv
        <5> QED
          BY <1>1, <1>3, <3>1, <3>11, <5>1, <5>2, Upserted
      <4> QED
        BY <1>1, <1>2, <1>3, <3>1, <3>11, <4>2, Upserted DEF TableInv
    <3>13. CallInv'
      <4>1. call.name = "init"
        BY <1>3 DEF InitCall
      <4> QED
        BY <1>1, <1>2, <3>1, <4>1 DEF CallInv, StringFits
    <3> QED
      BY <3>10, <3>12, <3>13 DEF SerialInv
  <2> QED
    BY <2>5, <2>6
<1> QED
  BY <1>6, <1>7

-----------------------------------------------------------------------------
(* serial_get_port finds the port's element, through the cache or not.     *)
LEMMA Found ==
    ASSUME TableInv, NEW p \in Ports
    PROVE  /\ lookup(p) \in 0..Len(g_serial_ports)
           /\ lookup(p) # 0 => g_serial_ports[lookup(p)].port = p
<1>1. /\ Len(g_serial_ports) \in Nat /\ DOMAIN g_serial_ports = 1..Len(g_serial_ports)
      /\ g_cached_lookup_result \in 0..Len(g_serial_ports)
  BY DEF TableInv
<1>2. get_serial_slot(p) \in DOMAIN g_serial_ports => g_serial_ports[get_serial_slot(p)].port = p
  <2>1. CASE \E i \in DOMAIN g_serial_ports : g_serial_ports[i].port = p
    BY <2>1 DEF get_serial_slot
  <2>2. CASE ~\E i \in DOMAIN g_serial_ports : g_serial_ports[i].port = p
    BY <1>1, <2>2 DEF get_serial_slot
  <2> QED
    BY <2>1, <2>2
<1> QED
  BY <1>1, <1>2 DEF lookup

(* A call that has not touched a device or the table yet.                  *)
LEMMA CallBegins ==
    ASSUME SerialInv, NEW p \in Ports, pc = "idle", pc' \notin {"loopback", "test"},
           serial_get_port(p), UNCHANGED <<g_cursor, uart, g_serial_ports, hist>>
    PROVE  /\ PortInv' /\ TableInv'
           /\ lookup(p) # 0 => /\ g_cached_lookup_result' # 0
                               /\ g_serial_ports'[g_cached_lookup_result'].port = p
<1>1. PortInv /\ TableInv
  BY DEF SerialInv
<1>2. \A q \in Ports : Stage(q) = "free" /\ Stage(q)' = "free"
  BY DEF Stage
<1>3. PortInv'
  BY <1>1, <1>2 DEF PortInv
<1>4. lookup(p) # 0 => g_cached_lookup_result' = lookup(p)
  BY DEF serial_get_port
<1>5. g_cached_lookup_result' \in 0..Len(g_serial_ports)
  BY <1>1, Found DEF serial_get_port, TableInv
<1>6. TableInv'
  BY <1>1, <1>5, TableKept
<1> QED
  BY <1>1, <1>3, <1>4, <1>6, Found

(* SERIAL_PRINT finds its port, or panics.                                 *)
LEMMA PrintStep ==
    ASSUME SerialInv, NEW p \in Ports, NEW text \in Texts, SERIAL_PRINT(p, text),
           UNCHANGED todo
    PROVE  SerialInv'
<1>1. /\ pc = "idle" /\ serial_get_port(p)
      /\ call' = [name |-> "write", n |-> call.n + 1, port |-> p, text |-> text]
      /\ pc' = IF lookup(p) = 0 THEN "panic" ELSE IF text = <<>> THEN "idle" ELSE "write"
      /\ UNCHANGED <<g_cursor, uart, g_serial_ports, hist>>
  BY DEF SERIAL_PRINT
<1>2. pc' \in {"idle", "write", "panic"}
  BY <1>1
<1>3. /\ PortInv' /\ TableInv'
      /\ lookup(p) # 0 => /\ g_cached_lookup_result' # 0
                          /\ g_serial_ports'[g_cached_lookup_result'].port = p
  BY <1>1, <1>2, CallBegins
<1>4. text \in Seq(Byte)
  <2>1. text \in Seq(1..255)
    BY SerialAssumption
  <2>2. 1..255 \subseteq Byte
    BY DEF Byte
  <2> QED
    BY <2>1, <2>2, SeqMonotonic
<1>5. call.n \in Nat /\ todo \in Seq(Ports)
  BY DEF SerialInv, CallInv
<1>6. /\ call' \in WriteCall /\ call'.port = p /\ call'.text = text
      /\ call'.name = "write" /\ call'.n \in Nat
  BY <1>1, <1>4, <1>5 DEF WriteCall
<1>7. CallInv'
  BY <1>1, <1>2, <1>3, <1>5, <1>6 DEF CallInv, StringFits
<1> QED
  BY <1>3, <1>7 DEF SerialInv

(* A string that is read: it ends with the first newline, or fills its     *)
(* buffer.                                                                 *)
LEMMA Terminated ==
    ASSUME NEW b \in Seq(Byte), NEW t \in Seq(Byte), NEW size \in Nat,
           HoldsLast(b, t), Len(b) + 1 <= size,
           \A i \in 1..(Len(b) - 1) : b[i] # NEWLINE,
           Len(b) + 1 = size \/ (b # <<>> /\ b[Len(b)] = NEWLINE)
    PROVE  LET buffer == Append(b, NUL)
               text == Front(buffer)
           IN  /\ buffer \in Seq(Byte)
               /\ Last(buffer) = NUL
               /\ Len(buffer) <= size
               /\ IsSuffix(text, t)
               /\ NEWLINE \in ToSet(text) =>
                    Last(text) = NEWLINE /\ NEWLINE \notin ToSet(Front(text))
               /\ NEWLINE \notin ToSet(text) => Len(buffer) = size
<1> DEFINE n == Len(b)
           buffer == Append(b, NUL)
           text == Front(buffer)
<1>1. NUL \in Byte
  BY DEF NUL, Byte
<1>2. /\ n \in Nat /\ DOMAIN b = 1..n /\ buffer \in Seq(Byte) /\ Len(buffer) = n + 1
      /\ buffer[n + 1] = NUL /\ \A i \in 1..n : buffer[i] = b[i]
  BY <1>1, AppendProperties, LenProperties
<1>3. Last(buffer) = NUL
  BY <1>2 DEF Last
<1>4. text = b
  <2>1. text = SubSeq(buffer, 1, n)
    BY <1>2 DEF Front
  <2> HIDE DEF n, buffer, text
  <2>2. \A i \in 1..n : buffer[i] \in Byte
    BY <1>2, ElementOfSeq
  <2>3. /\ text \in Seq(Byte) /\ Len(text) = IF 1 <= n THEN n - 1 + 1 ELSE 0
        /\ \A i \in 1..(n - 1 + 1) : text[i] = buffer[1 + i - 1]
    BY <1>2, <2>1, <2>2, SubSeqProperties
  <2>4. Len(text) = n /\ \A i \in 1..n : text[i] = b[i]
    BY <1>2, <2>3
  <2> QED
    BY <2>3, <2>4, SeqEqual DEF n
<1> HIDE DEF n, buffer, text
<1>5. IsSuffix(text, t)
  BY <1>4, LastIsSuffix
<1>6. /\ \A i \in 1..(n - 1) : b[i] # NEWLINE
      /\ n + 1 = size \/ (b # <<>> /\ b[n] = NEWLINE)
      /\ n + 1 <= size
  BY DEF n
<1>7. ASSUME NEWLINE \in ToSet(text)
      PROVE  Last(text) = NEWLINE /\ NEWLINE \notin ToSet(Front(text))
  <2>1. PICK i \in 1..n : b[i] = NEWLINE
    BY <1>2, <1>4, <1>7 DEF ToSet
  <2>2. i = n
    BY <1>2, <1>6, <2>1
  <2>3. Last(text) = NEWLINE
    BY <1>4, <2>1, <2>2 DEF Last, n
  <2> DEFINE f == Front(b)
  <2>4. f = SubSeq(b, 1, n - 1)
    BY DEF Front, n
  <2> HIDE DEF f
  <2>5. \A k \in 1..(n - 1) : b[k] \in Byte
    BY <1>2, ElementOfSeq
  <2>6. n - 1 \in Int
    BY <1>2
  <2>7. /\ f \in Seq(Byte) /\ Len(f) = IF 1 <= n - 1 THEN n - 1 - 1 + 1 ELSE 0
        /\ \A k \in 1..(n - 1 - 1 + 1) : f[k] = b[1 + k - 1]
    BY <2>4, <2>5, <2>6, SubSeqProperties
  <2>8. DOMAIN f = 1..Len(f)
    BY <2>7, LenProperties
  <2>9. \A k \in DOMAIN f : f[k] # NEWLINE
    <3>1. \A k \in 1..(n - 1) : f[k] = b[k]
      BY <2>6, <2>7
    <3>2. \A k \in DOMAIN f : k \in 1..(n - 1)
      BY <2>6, <2>7, <2>8
    <3> QED
      BY <3>1, <3>2, <1>6
  <2>10. NEWLINE \notin ToSet(f)
    BY <2>9 DEF ToSet
  <2> QED
    BY <1>4, <2>3, <2>10 DEF f
<1>8. ASSUME NEWLINE \notin ToSet(text) PROVE Len(buffer) = size
  <2>1. b # <<>> => n \in 1..n
    BY <1>2, EmptySeq DEF n
  <2>2. b # <<>> => b[n] # NEWLINE
    BY <1>2, <1>4, <1>8, <2>1 DEF ToSet
  <2> QED
    BY <1>2, <1>6, <2>2
<1> QED
  BY <1>2, <1>3, <1>5, <1>6, <1>7, <1>8 DEF buffer, text

(* serial_read_string refuses, ends at once with a buffer of one byte, or  *)
(* begins to poll.                                                         *)
LEMMA ReadStringStep ==
    ASSUME SerialInv, NEW p \in Ports, NEW size \in BufferSizes, serial_read_string(p, size),
           UNCHANGED todo
    PROVE  SerialInv'
<1> DEFINE refused == lookup(p) = 0 \/ size = 0
           empty == string_full(<<>>, size)
           b == IF empty THEN <<NUL>> ELSE <<>>
<1>1. /\ pc = "idle" /\ serial_get_port(p)
      /\ call' = [name |-> IF refused THEN "refused" ELSE "read", n |-> call.n + 1,
                  port |-> p, size |-> size, buffer |-> b]
      /\ pc' = IF refused \/ empty THEN "idle" ELSE "read"
      /\ UNCHANGED <<g_cursor, uart, g_serial_ports, hist>>
  BY DEF serial_read_string
<1>2. size \in Nat
  <2>1. BufferSizes \subseteq Nat
    BY SerialAssumption
  <2> QED
    BY <2>1
<1>3. pc' \in {"idle", "read"}
  BY <1>1
<1>4. /\ PortInv' /\ TableInv'
      /\ lookup(p) # 0 => /\ g_cached_lookup_result' # 0
                          /\ g_serial_ports'[g_cached_lookup_result'].port = p
  BY <1>1, <1>3, CallBegins
<1>5. call.n \in Nat /\ todo \in Seq(Ports) /\ hist[p].taken \in Seq(Byte)
  <2>1. hist[p] \in History
    BY DEF SerialInv, PortInv
  <2> QED
    BY <2>1 DEF SerialInv, CallInv, History
<1>6. empty => size = 1
  BY <1>2 DEF string_full
<1>7. /\ <<>> \in Seq(Byte) /\ Len(<<>>) = 0 /\ Append(<<>>, NUL) = <<NUL>>
      /\ HoldsLast(<<>>, hist[p].taken)
  <2>1. <<>> \in Seq(Byte) /\ Len(<<>>) = 0
    BY EmptySeq
  <2>2. Len(hist[p].taken) \in Nat
    BY <1>5, LenProperties
  <2> QED
    BY <2>1, <2>2 DEF HoldsLast
<1>8. CASE refused
  <2>1. call'.name = "refused" /\ call'.n \in Nat /\ pc' = "idle"
    BY <1>1, <1>5, <1>8
  <2>2. CallInv'
    BY <1>1, <1>5, <2>1 DEF CallInv, StringFits
  <2> QED
    BY <1>4, <2>2 DEF SerialInv
<1>9. CASE ~refused /\ empty
  <2>1. /\ <<NUL>> \in Seq(Byte)
        /\ LET text == Front(<<NUL>>)
           IN  /\ Last(<<NUL>>) = NUL
               /\ Len(<<NUL>>) <= size
               /\ IsSuffix(text, hist[p].taken)
               /\ NEWLINE \in ToSet(text) =>
                    Last(text) = NEWLINE /\ NEWLINE \notin ToSet(Front(text))
               /\ NEWLINE \notin ToSet(text) => Len(<<NUL>>) = size
    <3> DEFINE e == <<>>
    <3>1. /\ e \in Seq(Byte) /\ HoldsLast(e, hist[p].taken) /\ Len(e) + 1 <= size
          /\ \A i \in 1..(Len(e) - 1) : e[i] # NEWLINE
          /\ Len(e) + 1 = size /\ Append(e, NUL) = <<NUL>>
      BY <1>2, <1>6, <1>7, <1>9
    <3> HIDE DEF e
    <3>2. LET buffer == Append(e, NUL)
              text == Front(buffer)
          IN  /\ buffer \in Seq(Byte)
              /\ Last(buffer) = NUL
              /\ Len(buffer) <= size
              /\ IsSuffix(text, hist[p].taken)
              /\ NEWLINE \in ToSet(text) =>
                   Last(text) = NEWLINE /\ NEWLINE \notin ToSet(Front(text))
              /\ NEWLINE \notin ToSet(text) => Len(buffer) = size
      BY <1>2, <1>5, <3>1, Terminated
    <3> QED
      BY <3>1, <3>2
  <2>2. /\ call' = [name |-> "read", n |-> call.n + 1, port |-> p, size |-> size,
                    buffer |-> <<NUL>>]
        /\ pc' = "idle"
    BY <1>1, <1>9
  <2>3. /\ call' \in ReadCall /\ call'.n \in Nat /\ call'.port = p /\ call'.size = size
        /\ call'.buffer = <<NUL>>
    BY <1>2, <1>5, <2>1, <2>2 DEF ReadCall
  <2>4. StringFits'
    BY <1>1, <2>1, <2>3 DEF StringFits
  <2>5. CallInv'
    BY <1>1, <1>5, <2>2, <2>3, <2>4 DEF CallInv
  <2> QED
    BY <1>4, <2>5 DEF SerialInv
<1>10. CASE ~refused /\ ~empty
  <2>1. /\ call' = [name |-> "read", n |-> call.n + 1, port |-> p, size |-> size,
                    buffer |-> <<>>]
        /\ pc' = "read" /\ lookup(p) # 0 /\ size # 0
    BY <1>1, <1>10
  <2>2. size # 1
    BY <1>2, <1>7, <1>10 DEF string_full
  <2>3. /\ call' \in ReadCall /\ call'.n \in Nat /\ call'.port = p /\ call'.size = size
        /\ call'.buffer = <<>>
    BY <1>2, <1>5, <1>7, <2>1 DEF ReadCall
  <2>4. 0 < size - 1
    BY <1>2, <2>1, <2>2
  <2>5. StringFits'
    BY <2>1 DEF StringFits
  <2>6. CallInv'
    BY <1>1, <1>4, <1>5, <1>7, <2>1, <2>3, <2>4, <2>5 DEF CallInv
  <2> QED
    BY <1>4, <2>6 DEF SerialInv
<1> QED
  BY <1>8, <1>9, <1>10

(* A step on a free port that changes neither its kind nor its settings.   *)
LEMMA FreePortStep ==
    ASSUME SerialInv, pc \notin {"loopback", "test"}, pc' \notin {"loopback", "test"},
           NEW p \in Ports, NEW v \in Uart, NEW g \in History, PortOK(v, g, "free"),
           uart' = [uart EXCEPT ![p] = v], hist' = [hist EXCEPT ![p] = g],
           v.kind = uart[p].kind, g.tuned = hist[p].tuned, g.config = hist[p].config,
           UNCHANGED <<g_cursor, g_serial_ports, g_cached_lookup_result>>
    PROVE  PortInv' /\ TableInv' /\ uart'[p] = v /\ hist'[p] = g
<1>1. /\ PortInv /\ TableInv
      /\ uart \in [Ports -> Uart] /\ hist \in [Ports -> History]
  BY DEF SerialInv, PortInv
<1>2. \A q \in Ports : Stage(q) = "free" /\ Stage(q)' = "free"
  BY DEF Stage
<1>3. /\ uart' \in [Ports -> Uart] /\ uart'[p] = v
      /\ \A q \in Ports : q # p => uart'[q] = uart[q]
  BY <1>1
<1>4. /\ hist' \in [Ports -> History] /\ hist'[p] = g
      /\ \A q \in Ports : q # p => hist'[q] = hist[q]
  BY <1>1
<1>5. ASSUME NEW q \in Ports PROVE PortOK(uart'[q], hist'[q], Stage(q)')
  <2>1. CASE q = p
    BY <1>2, <1>3, <1>4, <2>1
  <2>2. CASE q # p
    <3>1. PortOK(uart[q], hist[q], "free")
      BY <1>1, <1>2 DEF PortInv
    <3> QED
      BY <1>2, <1>3, <1>4, <2>2, <3>1
  <2> QED
    BY <2>1, <2>2
<1>6. PortInv'
  BY <1>3, <1>4, <1>5 DEF PortInv
<1>7. TableInv'
  <2>1. \A q \in Ports : uart'[q].kind = uart[q].kind
    BY <1>3
  <2>2. \A q \in Ports : hist'[q].tuned => hist[q].tuned /\ hist'[q].config = hist[q].config
    BY <1>4
  <2>3. g_cached_lookup_result' \in 0..Len(g_serial_ports)
    BY <1>1 DEF TableInv
  <2> QED
    BY <1>1, <2>1, <2>2, <2>3, TableKept
<1> QED
  BY <1>3, <1>4, <1>6, <1>7

(* The port of the running read or write is a UART that is free.           *)
LEMMA RunningPort ==
    ASSUME SerialInv, pc \in {"write", "read"}
    PROVE  LET p == g_serial_ports[g_cached_lookup_result].port
           IN  /\ p = call.port /\ p \in Ports /\ uart[p].kind = "uart"
               /\ uart[p] \in Uart /\ hist[p] \in History
               /\ PortOK(uart[p], hist[p], "free") /\ Stage(p) = "free"
<1> DEFINE i == g_cached_lookup_result
<1>1. PortInv /\ TableInv /\ CallInv
  BY DEF SerialInv
<1>2. i # 0 /\ g_serial_ports[i].port = call.port
  BY <1>1 DEF CallInv
<1>3. i \in DOMAIN g_serial_ports
  <2>1. /\ i \in 0..Len(g_serial_ports) /\ DOMAIN g_serial_ports = 1..Len(g_serial_ports)
        /\ Len(g_serial_ports) \in Nat
    BY <1>1 DEF TableInv
  <2> QED
    BY <1>2, <2>1
<1>4. g_serial_ports[i] \in Entry /\ uart[g_serial_ports[i].port].kind = "uart"
  BY <1>1, <1>3 DEF TableInv
<1>5. g_serial_ports[i].port \in Ports
  BY <1>4 DEF Entry
<1>6. Stage(g_serial_ports[i].port) = "free"
  BY DEF Stage
<1>7. PortOK(uart[g_serial_ports[i].port], hist[g_serial_ports[i].port], "free")
  BY <1>1, <1>5, <1>6 DEF PortInv
<1> QED
  BY <1>2, <1>4, <1>5, <1>6, <1>7 DEF PortOK

(* A byte that is written waits in the transmitter, behind the line.       *)
LEMMA WriteCharStep ==
    ASSUME SerialInv, write_char
    PROVE  SerialInv'
<1> DEFINE p == g_serial_ports[g_cached_lookup_result].port
           u == uart[p]  h == hist[p]
           c == Head(call.text)
           v == [u EXCEPT !.thr = c]
           g == [h EXCEPT !.written = Append(h.written, c)]
<1>1. pc = "write" /\ CallInv
  BY DEF write_char, SerialInv
<1>2. /\ p = call.port /\ p \in Ports /\ u.kind = "uart" /\ u \in Uart /\ h \in History
      /\ PortOK(u, h, "free")
  BY <1>1, RunningPort
<1>3. call \in WriteCall /\ call.text # <<>> /\ todo \in Seq(Ports)
  BY <1>1 DEF CallInv
<1>4. call.text \in Seq(Byte) /\ call.n \in Nat
  BY <1>3 DEF WriteCall
<1>5. /\ c \in Byte /\ Tail(call.text) \in Seq(Byte) /\ Len(Tail(call.text)) = Len(call.text) - 1
      /\ Len(call.text) \in Nat
  BY <1>3, <1>4, HeadTailProperties, LenProperties
<1>6. /\ uart \in [Ports -> Uart] /\ hist \in [Ports -> History]
      /\ h.written \in Seq(Byte) /\ u.line \in Seq(Byte)
  BY <1>2 DEF SerialInv, PortInv, Uart, History
<1>7. u.thr = NONE
  BY <1>2 DEF write_char, can_write, is_transmit_empty
<1>8. uart' = [uart EXCEPT ![p] = v]
  BY <1>2, <1>6 DEF write_char, write_data
<1>9. hist' = [hist EXCEPT ![p] = g]
  BY <1>2, <1>6 DEF write_char
<1>10. /\ call' = [call EXCEPT !.text = Tail(call.text)]
       /\ pc' = IF Len(call.text) = 1 THEN "idle" ELSE "write"
       /\ UNCHANGED <<g_cursor, g_serial_ports, g_cached_lookup_result, todo>>
  BY <1>3 DEF write_char, WriteCall
<1>11. /\ call' \in WriteCall /\ call'.n = call.n /\ call'.port = call.port
       /\ call'.text = Tail(call.text) /\ call'.name = "write"
  BY <1>3, <1>5, <1>10 DEF WriteCall
<1>12. Append(h.written, c) \in Seq(Byte)
  BY <1>5, <1>6, AppendProperties
<1> HIDE DEF u, h, c, p
<1>13. /\ v \in Uart /\ v.kind = u.kind /\ v.divisor = u.divisor /\ v.lcr = u.lcr
       /\ v.loop = u.loop /\ v.thr = c /\ v.line = u.line /\ v.rx = u.rx
  BY <1>2, <1>5 DEF Uart
<1>14. /\ g \in History /\ g.config = h.config /\ g.tuned = h.tuned /\ g.clean = h.clean
       /\ g.written = Append(h.written, c) /\ g.fed = h.fed /\ g.taken = h.taken
  BY <1>2, <1>12 DEF History
<1> HIDE DEF v, g
<1>15. ASSUME g.clean PROVE Queues(v, g, "free")
  <2>1. Queues(u, h, "free")
    BY <1>2, <1>14, <1>15 DEF PortOK
  <2>2. u.line \o <<>> = h.written /\ h.taken \o u.rx = h.fed
    BY <1>7, <2>1 DEF Queues, Held
  <2>3. u.line \o <<>> = u.line
    BY <1>6, ConcatEmptySeq
  <2>4. Append(h.written, c) = h.written \o <<c>>
    BY <1>5, <1>6, AppendIsConcat
  <2>5. Held(v) = <<c>>
    BY <1>5, <1>13 DEF Held, NONE, Byte
  <2> QED
    BY <1>13, <1>14, <2>2, <2>3, <2>4, <2>5 DEF Queues
<1>16. PortOK(v, g, "free")
  BY <1>2, <1>13, <1>14, <1>15 DEF PortOK, SetTo
<1>17. PortInv' /\ TableInv'
  <2>1. v.kind = uart[p].kind /\ g.tuned = hist[p].tuned /\ g.config = hist[p].config
    BY <1>13, <1>14 DEF u, h
  <2>2. pc' \notin {"loopback", "test"}
    BY <1>10
  <2> QED
    BY <1>1, <1>2, <1>8, <1>9, <1>10, <1>13, <1>14, <1>16, <2>1, <2>2, FreePortStep
<1>18. CallInv'
  <2>1. Len(call.text) # 1 => Tail(call.text) # <<>>
    <3>1. Tail(call.text) = <<>> => Len(Tail(call.text)) = 0
      BY EmptySeq
    <3> QED
      BY <1>5, <3>1
  <2>2. /\ g_cached_lookup_result # 0
        /\ g_serial_ports[g_cached_lookup_result].port = call.port
    BY <1>1 DEF CallInv
  <2>3. StringFits'
    BY <1>11 DEF StringFits
  <2> QED
    BY <1>3, <1>4, <1>10, <1>11, <2>1, <2>2, <2>3 DEF CallInv
<1> QED
  BY <1>17, <1>18 DEF SerialInv

(* A byte that is read moves from the FIFO to what was taken, and to the   *)
(* end of the buffer.                                                      *)
LEMMA ReadCharStep ==
    ASSUME SerialInv, read_char
    PROVE  SerialInv'
<1> DEFINE p == g_serial_ports[g_cached_lookup_result].port
           u == uart[p]  h == hist[p]
           c == data(p)
           v == read_data(u)
           g == [h EXCEPT !.taken = Append(h.taken, c)]
           b == Append(call.buffer, c)
           ends == c = NEWLINE \/ string_full(b, call.size)
           b2 == IF ends THEN Append(b, NUL) ELSE b
<1>1. pc = "read" /\ CallInv /\ serial_received(p)
  BY DEF read_char, SerialInv
<1>2. /\ p = call.port /\ p \in Ports /\ u.kind = "uart" /\ u \in Uart /\ h \in History
      /\ PortOK(u, h, "free")
  BY <1>1, RunningPort
<1>3. /\ call \in ReadCall /\ todo \in Seq(Ports)
      /\ Len(call.buffer) < call.size - 1
      /\ \A i \in 1..Len(call.buffer) : call.buffer[i] # NEWLINE
      /\ HoldsLast(call.buffer, h.taken)
  BY <1>1, <1>2 DEF CallInv
<1>4. call.buffer \in Seq(Byte) /\ call.n \in Nat /\ call.size \in Nat
  BY <1>3 DEF ReadCall
<1>5. /\ uart \in [Ports -> Uart] /\ hist \in [Ports -> History]
      /\ h.taken \in Seq(Byte) /\ u.rx \in Seq(Byte) /\ Len(u.rx) <= FIFO
  BY <1>2 DEF SerialInv, PortInv, PortOK, Uart, History
<1>6. /\ v \in Uart /\ v.kind = u.kind /\ v.divisor = u.divisor /\ v.lcr = u.lcr
      /\ v.loop = u.loop /\ v.thr = u.thr /\ v.line = u.line /\ Len(v.rx) <= FIFO
      /\ c \in Byte /\ u.rx # <<>> /\ c = Head(u.rx) /\ v.rx = Tail(u.rx)
  BY <1>1, <1>2, <1>5, DataRead
<1>7. uart' = [uart EXCEPT ![p] = v]
  BY Zenon DEF read_char
<1>8. hist' = [hist EXCEPT ![p] = g]
  <2>1. hist' = [hist EXCEPT ![call.port].taken = Append(@, c)]
    BY Zenon DEF read_char
  <2> HIDE DEF c, p
  <2> QED
    BY <1>2, <1>5, <2>1 DEF p
<1>9. /\ call' = [call EXCEPT !.buffer = b2]
      /\ pc' = IF ends THEN "idle" ELSE "read"
      /\ UNCHANGED <<g_cursor, g_serial_ports, g_cached_lookup_result, todo>>
  BY Zenon DEF read_char
<1> DEFINE t == Append(h.taken, c)
<1> HIDE DEF u, h, c, p, v
<1>10. t \in Seq(Byte) /\ b \in Seq(Byte)
  BY <1>4, <1>5, <1>6, AppendProperties
<1>11. /\ Len(b) = Len(call.buffer) + 1 /\ Len(call.buffer) \in Nat
       /\ b[Len(call.buffer) + 1] = c
       /\ \A i \in 1..Len(call.buffer) : b[i] = call.buffer[i]
  BY <1>4, <1>6, AppendProperties, LenProperties
<1>12. HoldsLast(b, t)
  <2> DEFINE m == Len(call.buffer)  n == Len(h.taken)
  <2>1. /\ m \in Nat /\ n \in Nat /\ m <= n
        /\ \A i \in 1..m : call.buffer[i] = h.taken[(n - m) + i]
    BY <1>3, <1>4, <1>5, LenProperties DEF HoldsLast
  <2>2. /\ Len(t) = n + 1 /\ t[n + 1] = c /\ \A i \in 1..n : t[i] = h.taken[i]
    BY <1>5, <1>6, AppendProperties
  <2>3. /\ Len(b) = m + 1 /\ b[m + 1] = c /\ \A i \in 1..m : b[i] = call.buffer[i]
    BY <1>11
  <2> HIDE DEF m, n, t, b
  <2>4. ASSUME NEW i \in 1..(m + 1) PROVE b[i] = t[((n + 1) - (m + 1)) + i]
    <3>1. CASE i = m + 1
      <4>1. ((n + 1) - (m + 1)) + i = n + 1
        BY <2>1, <3>1
      <4> QED
        BY <2>2, <2>3, <3>1, <4>1
    <3>2. CASE i # m + 1
      <4>1. /\ i \in 1..m /\ ((n + 1) - (m + 1)) + i = (n - m) + i /\ (n - m) + i \in 1..n
        BY <2>1, <3>2
      <4> QED
        BY <2>1, <2>2, <2>3, <4>1
    <3> QED
      BY <3>1, <3>2
  <2> QED
    BY <2>1, <2>2, <2>3, <2>4 DEF HoldsLast
<1> HIDE DEF t
<1>13. /\ g \in History /\ g.config = h.config /\ g.tuned = h.tuned /\ g.clean = h.clean
       /\ g.written = h.written /\ g.fed = h.fed /\ g.taken = t
  <2>1. g = [h EXCEPT !.taken = t]
    BY DEF t
  <2> HIDE DEF g
  <2> QED
    BY <1>2, <1>10, <2>1 DEF History
<1> HIDE DEF g
<1>14. ASSUME g.clean PROVE Queues(v, g, "free")
  <2>1. Queues(u, h, "free")
    BY <1>2, <1>13, <1>14 DEF PortOK
  <2>2. u.line \o Held(u) = h.written /\ h.taken \o u.rx = h.fed
    BY <2>1 DEF Queues
  <2>3. t \o v.rx = h.taken \o u.rx
    BY <1>5, <1>6, MoveHead DEF t
  <2>4. Held(v) = Held(u)
    BY <1>6 DEF Held
  <2> QED
    BY <1>6, <1>13, <2>2, <2>3, <2>4 DEF Queues
<1>15. PortOK(v, g, "free")
  BY <1>2, <1>6, <1>13, <1>14 DEF PortOK, SetTo
<1>16. PortInv' /\ TableInv' /\ hist'[p] = g
  <2>1. v.kind = uart[p].kind /\ g.tuned = hist[p].tuned /\ g.config = hist[p].config
    BY <1>6, <1>13 DEF u, h
  <2>2. pc' \notin {"loopback", "test"}
    BY <1>9
  <2> QED
    BY <1>1, <1>2, <1>6, <1>7, <1>8, <1>9, <1>13, <1>15, <2>1, <2>2, FreePortStep
<1>17. b2 \in Seq(Byte)
  <2>1. NUL \in Byte
    BY DEF NUL, Byte
  <2> QED
    BY <1>10, <2>1, AppendProperties
<1> HIDE DEF b, ends
<1>18. /\ call' \in ReadCall /\ call'.n = call.n /\ call'.port = p
       /\ call'.size = call.size /\ call'.buffer = b2
  <2> HIDE DEF b2
  <2> QED
    BY <1>2, <1>3, <1>9, <1>17 DEF ReadCall
<1>19. Len(b) + 1 <= call.size
  BY <1>3, <1>4, <1>11
<1>20. CASE ends
  <2>1. pc' = "idle" /\ call'.buffer = Append(b, NUL)
    BY <1>9, <1>18, <1>20
  <2>2. Len(b) + 1 = call.size \/ (b # <<>> /\ b[Len(b)] = NEWLINE)
    <3>1. CASE c = NEWLINE
      BY <1>4, <1>6, <1>11, <3>1, AppendProperties DEF b
    <3>2. CASE Len(b) = call.size - 1
      BY <1>4, <1>11, <3>2
    <3> QED
      BY <1>20, <3>1, <3>2 DEF ends, string_full
  <2>3. \A i \in 1..(Len(b) - 1) : b[i] # NEWLINE
    BY <1>3, <1>11
  <2>4. LET buffer == Append(b, NUL)
            text == Front(buffer)
        IN  /\ buffer \in Seq(Byte)
            /\ Last(buffer) = NUL
            /\ Len(buffer) <= call.size
            /\ IsSuffix(text, t)
            /\ NEWLINE \in ToSet(text) =>
                 Last(text) = NEWLINE /\ NEWLINE \notin ToSet(Front(text))
            /\ NEWLINE \notin ToSet(text) => Len(buffer) = call.size
    BY <1>4, <1>10, <1>12, <1>19, <2>2, <2>3, Terminated
  <2>5. hist'[call'.port].taken = t
    BY <1>13, <1>16, <1>18
  <2>6. StringFits'
    BY <1>18, <2>1, <2>4, <2>5 DEF StringFits
  <2>7. CallInv'
    BY <1>3, <1>4, <1>9, <1>18, <2>1, <2>6 DEF CallInv
  <2> QED
    BY <1>16, <2>7 DEF SerialInv
<1>21. CASE ~ends
  <2>1. pc' = "read" /\ call'.buffer = b
    BY <1>9, <1>18, <1>21
  <2>2. Len(b) < call.size - 1
    <3>1. Len(b) # call.size - 1
      BY <1>21 DEF ends, string_full
    <3> QED
      BY <1>4, <1>11, <1>19, <3>1
  <2>3. \A i \in 1..Len(b) : b[i] # NEWLINE
    <3>1. c # NEWLINE
      BY <1>21 DEF ends
    <3>2. \A i \in 1..Len(b) : i \in 1..Len(call.buffer) \/ i = Len(call.buffer) + 1
      BY <1>11
    <3> QED
      BY <1>3, <1>11, <3>1, <3>2
  <2>4. /\ g_cached_lookup_result # 0
        /\ g_serial_ports[g_cached_lookup_result].port = p
    BY <1>1, <1>2 DEF CallInv
  <2>5. HoldsLast(call'.buffer, hist'[call'.port].taken)
    BY <1>12, <1>13, <1>16, <1>18, <2>1
  <2>6. StringFits'
    BY <2>1 DEF StringFits
  <2>7. CallInv'
    BY <1>3, <1>4, <1>9, <1>18, <2>1, <2>2, <2>3, <2>4, <2>5, <2>6 DEF CallInv
  <2> QED
    BY <1>16, <2>7 DEF SerialInv
<1> QED
  BY <1>20, <1>21

-----------------------------------------------------------------------------
(* Every step preserves the invariant.                                     *)
LEMMA SerialStep ==
    ASSUME SerialInv, [Next]_vars
    PROVE  SerialInv'
<1>1. CASE Call
  <2>1. CASE /\ todo # <<>> /\ serial_init_port(Head(todo), Default) /\ todo' = Tail(todo)
    <3>1. todo \in Seq(Ports)
      BY DEF SerialInv, CallInv
    <3>2. Head(todo) \in Ports /\ todo' \in Seq(Ports)
      BY <2>1, <3>1, HeadTailProperties
    <3> QED
      BY <2>1, <3>2, SettingsTyped, InitPortStep
  <2>2. ASSUME NEW p \in Ports, NEW c \in Configs, serial_init_port(p, c), UNCHANGED todo
        PROVE  SerialInv'
    <3>1. todo' \in Seq(Ports) /\ c \in Settings
      BY <2>2 DEF SerialInv, CallInv, Settings
    <3> QED
      BY <2>2, <3>1, InitPortStep
  <2>3. ASSUME NEW p \in Ports, NEW text \in Texts, SERIAL_PRINT(p, text), UNCHANGED todo
        PROVE  SerialInv'
    BY <2>3, PrintStep
  <2>4. ASSUME NEW p \in Ports, NEW size \in BufferSizes, serial_read_string(p, size),
               UNCHANGED todo
        PROVE  SerialInv'
    BY <2>4, ReadStringStep
  <2> QED
    BY <1>1, <2>1, <2>2, <2>3, <2>4 DEF Call
<1>2. CASE Driver
  BY <1>2, TestWriteStep, TestReadStep, WriteCharStep, ReadCharStep DEF Driver
<1>3. CASE \E p \in Ports : Shift(p) \/ PeerSends(p)
  BY <1>3, ShiftStep, PeerStep
<1>4. CASE UNCHANGED vars
  <2>1. UNCHANGED <<g_cursor, uart, g_serial_ports, g_cached_lookup_result, pc, call, todo, hist>>
    BY <1>4 DEF vars
  <2>2. \A q \in Ports : Stage(q)' = Stage(q)
    BY <2>1 DEF Stage
  <2>3. PortInv'
    BY <2>1, <2>2 DEF SerialInv, PortInv
  <2>4. TableInv'
    BY <2>1 DEF SerialInv, TableInv
  <2>5. CallInv'
    BY <2>1 DEF SerialInv, CallInv, StringFits
  <2> QED
    BY <2>3, <2>4, <2>5 DEF SerialInv
<1> QED
  BY <1>1, <1>2, <1>3, <1>4 DEF Next

(* The inductive invariant holds in every reachable state: a port is two   *)
(* queues, the table is true, and the running call knows its port.         *)
THEOREM SerialInvariant == Spec => []SerialInv
<1>1. Init => SerialInv
  BY SerialStart
<1>2. SerialInv /\ [Next]_vars => SerialInv'
  BY SerialStep
<1> QED
  BY <1>1, <1>2, PTL DEF Spec

(* Type correctness: registers keep their width, the FIFO its depth, and   *)
(* the table fits in the early heap.                                       *)
THEOREM SerialTypeTheorem == Spec => []TypeOK
<1>1. SerialInv => TypeOK
  <2> SUFFICES ASSUME SerialInv PROVE TypeOK
    OBVIOUS
  <2>1. PortInv /\ TableInv /\ CallInv
    BY DEF SerialInv
  <2>2. ASSUME NEW p \in Ports
        PROVE  /\ uart[p].thr \in {NONE} \cup Byte
               /\ uart[p].rx \in Seq(Byte) /\ Len(uart[p].rx) <= FIFO
               /\ uart[p].divisor \in Word
               /\ uart[p].lcr \in 0..127
    <3>1. PortOK(uart[p], hist[p], Stage(p))
      BY <2>1 DEF PortInv
    <3>2. uart[p] \in Uart /\ Len(uart[p].rx) <= FIFO
      BY <3>1 DEF PortOK
    <3> QED
      BY <3>2 DEF Uart
  <2>3. g_serial_ports \in Seq([port : Ports, baudrate : Nat])
    <3>1. Entry \subseteq [port : Ports, baudrate : Nat]
      BY DEF Entry, Rate
    <3> QED
      BY <2>1, <3>1, SeqMonotonic DEF TableInv
  <2>4. g_cursor \in EARLY_HEAP_START..EARLY_HEAP_END
    <3> DEFINE n == Len(g_serial_ports)
    <3>1. n \in Nat /\ g_cursor = EARLY_HEAP_START + SIZEOF_PORT * n
      BY <2>1 DEF TableInv
    <3>2. n <= 2
      <4> SUFFICES ASSUME n > 2 PROVE FALSE
        BY <3>1
      <4>1. g_serial_ports \in Seq(Entry) /\ DOMAIN g_serial_ports = 1..n
        BY <2>1 DEF TableInv
      <4>2. 1 \in 1..n /\ 2 \in 1..n /\ 3 \in 1..n
        BY <3>1
      <4>3. /\ g_serial_ports[1].port \in Ports /\ g_serial_ports[2].port \in Ports
            /\ g_serial_ports[3].port \in Ports
        <5>1. /\ g_serial_ports[1] \in Entry /\ g_serial_ports[2] \in Entry
              /\ g_serial_ports[3] \in Entry
          BY <4>1, <4>2, ElementOfSeq
        <5> QED
          BY <5>1 DEF Entry
      <4>4. /\ g_serial_ports[1].port # g_serial_ports[2].port
            /\ g_serial_ports[1].port # g_serial_ports[3].port
            /\ g_serial_ports[2].port # g_serial_ports[3].port
        BY <2>1, <4>1, <4>2 DEF TableInv
      <4> QED
        BY <4>3, <4>4 DEF Ports
    <3>3. EARLY_HEAP_START + SIZEOF_PORT * 2 <= EARLY_HEAP_END
      BY TwoPorts, SerialAssumption
    <3>4. EARLY_HEAP_START \in Nat /\ EARLY_HEAP_END \in Nat
      BY EmmAssumption
    <3> HIDE DEF n
    <3> QED
      BY <3>1, <3>2, <3>3, <3>4 DEF SIZEOF_PORT
  <2>5. g_cached_lookup_result \in 0..Len(g_serial_ports)
    BY <2>1 DEF TableInv
  <2>6. pc \in {"idle", "loopback", "test", "write", "read", "panic"}
    BY <2>1 DEF CallInv
  <2> QED
    BY <2>2, <2>3, <2>4, <2>5, <2>6 DEF TypeOK
<1> QED
  BY <1>1, SerialInvariant, PTL

(* Bytes are neither lost nor mixed up: between initialisations what was   *)
(* printed is on the line in order, and what was read is what came.        *)
THEOREM BytesTheorem == Spec => []BytesInOrder
<1>1. SerialInv => BytesInOrder
  <2> SUFFICES ASSUME SerialInv, NEW p \in Ports,
                      hist[p].clean, ~(pc \in {"loopback", "test"} /\ call.port = p)
               PROVE  /\ uart[p].line \o (IF uart[p].thr = NONE THEN <<>> ELSE <<uart[p].thr>>)
                            = hist[p].written
                      /\ hist[p].taken \o uart[p].rx = hist[p].fed
    BY DEF BytesInOrder
  <2>1. PortOK(uart[p], hist[p], "free")
    BY DEF SerialInv, PortInv, Stage
  <2>2. Queues(uart[p], hist[p], "free")
    BY <2>1 DEF PortOK
  <2> QED
    BY <2>2 DEF Queues, Held
<1> QED
  BY <1>1, SerialInvariant, PTL

(* A string read is terminated inside its buffer, for every buffer size.   *)
THEOREM StringTheorem == Spec => []StringFits
<1>1. SerialInv => StringFits
  BY DEF SerialInv, CallInv
<1> QED
  BY <1>1, SerialInvariant, PTL

(* The divisor that is written is the nearest one.                         *)
LEMMA NearestDivisor ==
    ASSUME NEW b \in Rate, b > 1
    PROVE  Nearest(divisor_of(b), b)
<1> DEFINE k == SERIAL_BASE_CLOCK
           q == k \div b
<1>1. k \in Int /\ k = 115200
  BY SMT DEF SERIAL_BASE_CLOCK
<1>2. b \in Int /\ b >= 2
  <2>1. SERIAL_BASE_CLOCK \in Int
    BY <1>1
  <2> QED
    BY <2>1 DEF Rate
<1>3. divisor_of(b) = q % 65536
  BY SMT DEF divisor_of
<1> HIDE DEF k
<1>4. q \in Int /\ k = b * q + (k % b) /\ k % b \in 0..(b - 1)
  BY <1>1, <1>2
<1> DEFINE r == k % b
<1> HIDE DEF q, r
<1>5. k = b * q + r /\ r >= 0 /\ r < b /\ r \in Int /\ b * q \in Int
  BY <1>2, <1>4 DEF r
<1>6. q >= 0
  <2> SUFFICES ASSUME q <= -1 PROVE FALSE
    BY <1>4
  <2>1. b * (q + 1) <= 0 /\ b * (q + 1) = b * q + b
    BY ONLY <1>2, <1>4, q <= -1
  <2> QED
    BY <1>1, <1>2, <1>5, <2>1
<1>7. q < 65536
  <2> SUFFICES ASSUME q >= 65536 PROVE FALSE
    BY <1>4
  <2>1. (b - 2) * q >= 0 /\ b * q = (b - 2) * q + 2 * q
    BY ONLY <1>2, <1>4, <1>6
  <2>2. (b - 2) * q \in Int
    BY <1>2, <1>4
  <2>3. b * q >= 2 * q
    BY <1>4, <1>5, <2>1, <2>2
  <2> QED
    BY <1>1, <1>4, <1>5, <2>3
<1>8. q % 65536 = q
  BY <1>4, <1>6, <1>7
<1>9. q * b = b * q /\ (q + 1) * b = b * q + b
  BY <1>2, <1>4
<1> QED
  BY <1>2, <1>3, <1>5, <1>8, <1>9 DEF Nearest, k

(* A UART reads word length and stop bits as they were meant, and no       *)
(* parity when none was.                                                   *)
LEMMA LineRead ==
    ASSUME NEW c \in Setting
    PROVE  /\ LineSettings(lcr_reg(c)).data_bits = c.data_bits
           /\ LineSettings(lcr_reg(c)).stop_bits = c.stop_bits
           /\ c.parity = 0 => LineSettings(lcr_reg(c)).parity = 0
<1> DEFINE d == c.data_bits
           s == c.stop_bits
           y == c.parity
           l == lcr_reg(c)
<1>1. d \in 0..3 /\ s \in 0..1 /\ y \in {0, 1, 3}
  BY DEF Setting
<1>2. l = d + 4 * s + 16 * y
  BY <1>1 DEF lcr_reg
<1> HIDE DEF d, s, y, l
<1>3. l % 4 = d /\ (l \div 4) % 2 = s /\ (y = 0 => (l \div 8) % 8 = 0)
  BY <1>1, <1>2
<1> QED
  BY <1>3 DEF LineSettings, d, s, y, l

(* The table is true: only a UART that echoed is in it, once, and it tells *)
(* how the line is set, unless the last initialisation of the port failed, *)
(* for every sequence of initialisations with any settings.  What the line *)
(* makes of a parity is no part of it.                                     *)
THEOREM TableTheorem == Spec => []TableTrue
<1>1. SerialInv => TableTrue
  <2> SUFFICES ASSUME SerialInv PROVE TableTrue
    OBVIOUS
  <2>1. PortInv /\ TableInv
    BY DEF SerialInv
  <2>2. ASSUME NEW i \in DOMAIN g_serial_ports, hist[g_serial_ports[i].port].tuned
        PROVE  LET p == g_serial_ports[i].port
                   c == hist[p].config
                   line == LineSettings(uart[p].lcr)
               IN  /\ ~uart[p].loop
                   /\ g_serial_ports[i].baudrate > 1 =>
                       Nearest(uart[p].divisor, g_serial_ports[i].baudrate)
                   /\ line.data_bits = c.data_bits
                   /\ line.stop_bits = c.stop_bits
                   /\ c.parity = 0 => line.parity = 0
    <3> DEFINE p == g_serial_ports[i].port
               c == hist[p].config
    <3>1. p \in Ports
      <4>1. g_serial_ports[i] \in Entry
        BY <2>1 DEF TableInv
      <4> QED
        BY <4>1 DEF Entry
    <3>2. PortOK(uart[p], hist[p], Stage(p))
      BY <2>1, <3>1 DEF PortInv
    <3>3. Stage(p) = "free" /\ SetTo(uart[p], c) /\ ~uart[p].loop /\ c \in Settings
      BY <2>2, <3>2 DEF PortOK, History
    <3>4. g_serial_ports[i].baudrate = c.baudrate
      BY <2>1, <2>2 DEF TableInv
    <3>5. c \in Setting /\ c.baudrate \in Rate
      BY <3>3, SettingsTyped DEF Setting
    <3> HIDE DEF c
    <3>6. /\ c.baudrate > 1 => Nearest(divisor_of(c.baudrate), c.baudrate)
          /\ LineSettings(lcr_reg(c)).data_bits = c.data_bits
          /\ LineSettings(lcr_reg(c)).stop_bits = c.stop_bits
          /\ c.parity = 0 => LineSettings(lcr_reg(c)).parity = 0
      BY <3>5, NearestDivisor, LineRead
    <3>7. uart[p].divisor = divisor_of(c.baudrate) /\ uart[p].lcr = lcr_reg(c)
      BY <3>3 DEF SetTo
    <3> QED
      BY <3>3, <3>4, <3>6, <3>7 DEF c
  <2>3. /\ \A i \in DOMAIN g_serial_ports : uart[g_serial_ports[i].port].kind = "uart"
        /\ \A i, j \in DOMAIN g_serial_ports :
            g_serial_ports[i].port = g_serial_ports[j].port => i = j
    BY <2>1 DEF TableInv
  <2> QED
    BY <2>2, <2>3 DEF TableTrue, SERIAL_PARITY_NONE
<1> QED
  BY <1>1, SerialInvariant, PTL
=============================================================================
