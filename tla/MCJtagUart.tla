------------------------------ MODULE MCJtagUart -----------------------------
(* Two tasks read the console or two write to it, through rings and FIFOs  *)
(* small enough to fill and to wrap.                                       *)
EXTENDS JtagUart, TLC

CONSTANTS r1, r2, w1, w2

TwoReaders == {r1, r2}
TwoWriters == {w1, w2}
OneReader == {r1}
EitherPair == {TwoReaders, TwoWriters}
OneWriter == {w1}
ReaderAndWriter == {{r1, w1}}
Two == {2}
OneOrThree == {1, 3}

(* Only the distances between bytes matter, and only the bytes that wait.  *)
Waiting(buf, in, out, first) ==
    [k \in 0 .. Held(in, out) - 1 |-> Later(buf[(out + k) % BUF_LEN], Modulus - first)]

Seen == <<rx_in, rx_out, Waiting(rx_buf, rx_in, rx_out, taken),
          tx_in, tx_out, Waiting(tx_buf, tx_in, tx_out, got),
          [k \in DOMAIN rfifo |-> Later(rfifo[k], Modulus - taken)],
          [k \in DOMAIN wfifo |-> Later(wfifo[k], Modulus - got)],
          Later(sent, Modulus - taken), Later(given, Modulus - got),
          irq_enable, host_inactive, read_lock, write_lock, events, local, isr, ac>>

=============================================================================
