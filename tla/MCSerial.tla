------------------------------ MODULE MCSerial ------------------------------
(* An instance of Serial for TLC: two ports, a receive FIFO of two bytes.  *)
EXTENDS Serial

(* A setting that differs from the default one in every part and whose     *)
(* divisor has two bytes.                                                  *)
ConfigsMC == { [baudrate |-> 300, data_bits |-> 2, parity |-> SERIAL_PARITY_ODD, stop_bits |-> 1] }

TextsMC == { <<>>, <<65, 66>> }

(* serial.h: serial_init_port "sets up the specified serial port with the  *)
(* provided baud rate, data bits, parity, and stop bits".  The driver puts *)
(* the parity one bit too far to the left in the line control register.    *)
LineAsConfigured ==
    \A i \in DOMAIN g_serial_ports :
        LET p == g_serial_ports[i].port
            c == hist[p].config
        IN  hist[p].tuned =>
                LineSettings(uart[p].lcr) =
                    [data_bits |-> c.data_bits, stop_bits |-> c.stop_bits, parity |-> c.parity]
=============================================================================
