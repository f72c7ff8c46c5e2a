------------------------------- MODULE JtagUart -----------------------------
(***************************************************************************)
(* The driver of the console (altera_avalon_jtag_uart_*.c, the fast one):  *)
(* two rings between the tasks that read and write and the interrupt       *)
(* routine, the interrupt enable bits, and the flag group on which tasks   *)
(* sleep.  The host at the other end of the cable may come and go.         *)
(*                                                                         *)
(* Tasks take one access to the shared variables at a time, in any order   *)
(* among themselves; the interrupt routine and the alarm run between two   *)
(* of them, and only the host goes on meanwhile.                           *)
(*                                                                         *)
(* A byte is its place in the stream, modulo Modulus.                      *)
(***************************************************************************)
EXTENDS Integers, Sequences

CONSTANTS Readers, Writers,
          Crews,          \* the sets of tasks that may use the console together
          BUF_LEN,        \* ALTERA_AVALON_JTAG_UART_BUF_LEN
          RxFifoLen,      \* of the FIFOs of the core; 0 where the host sends nothing
          TxFifoLen,
          Timeout,        \* sp->timeout, and the bound of host_inactive
          Counts,         \* bound: the lengths of the calls
          Modulus,        \* at least what can be on the way, to tell the streams; or 1, not to
          NoTask

ASSUME UartAssumption ==
    /\ BUF_LEN \in Nat \ {0, 1} /\ RxFifoLen \in Nat /\ TxFifoLen \in Nat \ {0}
    /\ Timeout \in Nat \ {0} /\ Counts \subseteq Nat \ {0} /\ Modulus \in Nat \ {0}
    /\ Readers \cap Writers = {} /\ NoTask \notin Readers \cup Writers
    /\ \A crew \in Crews : crew \subseteq Readers \cup Writers

Callers == Readers \cup Writers

VARIABLES
    rx_in, rx_out, rx_buf, tx_in, tx_out, tx_buf,
    irq_enable,                 \* of "RE", "WE"
    host_inactive,
    read_lock, write_lock,      \* who holds the semaphore
    events,                     \* of "READ_RDY", "WRITE_RDY", "TIMEOUT"
    local,                      \* of each caller: where it is and its variables
    isr,                        \* of the interrupt routine
    rfifo, wfifo, ac,           \* the core: its FIFOs, and the host was there
    sent, taken, given, got     \* bytes: that the host sent and a reader took, that a
                                \* writer gave and the host got

ring   == <<rx_in, rx_out, rx_buf, tx_in, tx_out, tx_buf>>
core   == <<rfifo, wfifo, ac>>
stream == <<sent, taken, given, got>>
uartVars == <<ring, irq_enable, host_inactive, read_lock, write_lock, events, local, isr,
              core, stream>>

Slots == 0 .. BUF_LEN - 1

Later(k, n) == (k + n) % Modulus

(* left: what the call has still to move; some: it has moved a byte.       *)
Idle == [at |-> "idle", left |-> 0, some |-> FALSE, in |-> 0, out |-> 0, n |-> 0,
         block |-> TRUE, rdy |-> {}]

NoIsr == [at |-> "none", wi |-> FALSE, space |-> 0, avail |-> FALSE]
Round == [NoIsr EXCEPT !.at = "control"]

(* altera_avalon_jtag_uart_init. *)
Init ==
    /\ rx_in = 0 /\ rx_out = 0 /\ rx_buf = [i \in Slots |-> 0]
    /\ tx_in = 0 /\ tx_out = 0 /\ tx_buf = [i \in Slots |-> 0]
    /\ irq_enable = {"RE"}
    /\ host_inactive = 0
    /\ read_lock = NoTask /\ write_lock = NoTask
    /\ events = {}
    /\ \E crew \in Crews :
         local = [t \in Callers |-> IF t \in crew THEN Idle ELSE [Idle EXCEPT !.at = "absent"]]
    /\ isr = NoIsr
    /\ rfifo = <<>> /\ wfifo = <<>> /\ ac = FALSE
    /\ sent = 0 /\ taken = 0 /\ given = 0 /\ got = 0

-----------------------------------------------------------------------------
(* Tasks run while no interrupt is served. *)
Goes(t, at) == isr.at = "none" /\ local[t].at = at

To(t, at) == local' = [local EXCEPT ![t].at = at]

(* Flags: OSFlagPend with OS_FLAG_WAIT_SET_ANY + OS_FLAG_CONSUME.  A task  *)
(* that had to sleep consumes what woke it when it runs again.             *)
Wants(t) == {IF t \in Readers THEN "READ_RDY" ELSE "WRITE_RDY", "TIMEOUT"}

FlagPend(t, next) ==
    IF events \cap Wants(t) # {}
      THEN events' = events \ Wants(t) /\ To(t, next)
      ELSE UNCHANGED events /\ To(t, "asleep")

Wake(t, next) ==
    /\ Goes(t, "woken")
    /\ events' = events \ local[t].rdy
    /\ local' = [local EXCEPT ![t].at = next, ![t].rdy = {}]
    /\ UNCHANGED <<ring, irq_enable, host_inactive, read_lock, write_lock, isr, core, stream>>

(* ALT_FLAG_POST *)
FlagPost(flag) ==
    /\ events' = events \cup {flag}
    /\ local' = [t \in Callers |->
           IF local[t].at = "asleep" /\ flag \in Wants(t)
             THEN [local[t] EXCEPT !.at = "woken", !.rdy = (events \cup {flag}) \cap Wants(t)]
             ELSE local[t]]

Call(t, count, block) ==
    /\ Goes(t, "idle")
    /\ local' = [local EXCEPT ![t] = [Idle EXCEPT !.at = "lock", !.left = count, !.block = block]]
    /\ UNCHANGED <<ring, irq_enable, host_inactive, read_lock, write_lock, events, isr, core, stream>>

Enable(bit, t, next) ==
    /\ irq_enable' = irq_enable \cup {bit}
    /\ To(t, next)
    /\ UNCHANGED <<ring, host_inactive, read_lock, write_lock, events, isr, core, stream>>

-----------------------------------------------------------------------------
(* altera_avalon_jtag_uart_read *)

(* Seeded fault: the second reader is let in. *)
FaultyReadLock(t) ==
    /\ Goes(t, "lock") /\ To(t, "look")
    /\ UNCHANGED <<ring, irq_enable, host_inactive, read_lock, write_lock, events, isr, core, stream>>

ReadLock(t) ==
    /\ Goes(t, "lock") /\ read_lock = NoTask
    /\ read_lock' = t
    /\ To(t, "look")
    /\ UNCHANGED <<ring, irq_enable, host_inactive, write_lock, events, isr, core, stream>>

(* What lies in one piece. *)
InOnePiece == IF rx_in >= rx_out THEN rx_in - rx_out ELSE BUF_LEN - rx_out

Least(a, b) == IF a <= b THEN a ELSE b

(* A blocking read with nothing to return waits; a read of nothing, or one *)
(* that may not wait, returns.                                             *)
ReadLook(t) ==
    /\ Goes(t, "look")
    /\ local' = [local EXCEPT ![t] =
          IF InOnePiece > 0
            THEN [@ EXCEPT !.at = "copy", !.in = rx_in, !.out = rx_out,
                           !.n = Least(InOnePiece, local[t].left)]
            ELSE [@ EXCEPT !.at = IF ~local[t].some /\ local[t].block
                                    THEN "pend" ELSE "unlock",
                           !.in = rx_in]]
    /\ UNCHANGED <<ring, irq_enable, host_inactive, read_lock, write_lock, events, isr, core, stream>>

(* memcpy. *)
ReadCopy(t) ==
    /\ Goes(t, "copy")
    /\ taken' = Later(taken, local[t].n)
    /\ To(t, "advance")
    /\ UNCHANGED <<ring, irq_enable, host_inactive, read_lock, write_lock, events, isr, core,
                   sent, given, got>>

ReadAdvance(t) ==
    LET m == local[t] IN
    /\ Goes(t, "advance")
    /\ rx_out' = (m.out + m.n) % BUF_LEN
    /\ local' = [local EXCEPT ![t] = [m EXCEPT !.left = @ - m.n, !.some = TRUE, !.out = 0,
                    !.n = 0, !.at = IF m.left > m.n THEN "look" ELSE "unlock"]]
    /\ UNCHANGED <<rx_in, rx_buf, tx_in, tx_out, tx_buf, irq_enable, host_inactive, read_lock,
                   write_lock, events, isr, core, stream>>

ReadPend(t) ==
    /\ Goes(t, "pend")
    /\ FlagPend(t, "again")
    /\ UNCHANGED <<ring, irq_enable, host_inactive, read_lock, write_lock, isr, core, stream>>

ReadAgain(t) ==
    /\ Goes(t, "again")
    /\ To(t, IF local[t].in = rx_in THEN "unlock" ELSE "look")
    /\ UNCHANGED <<ring, irq_enable, host_inactive, read_lock, write_lock, events, isr, core, stream>>

ReadUnlock(t) ==
    /\ Goes(t, "unlock")
    /\ read_lock' = NoTask
    /\ local' = [local EXCEPT ![t] = [Idle EXCEPT !.at = IF local[t].some THEN "enable" ELSE "idle"]]
    /\ UNCHANGED <<ring, irq_enable, host_inactive, write_lock, events, isr, core, stream>>

(* Seeded fault: the interrupt is not enabled again. *)
FaultyReadEnable(t) ==
    /\ Goes(t, "enable") /\ To(t, "idle")
    /\ UNCHANGED <<ring, irq_enable, host_inactive, read_lock, write_lock, events, isr, core, stream>>

ReadEnable(t) == Goes(t, "enable") /\ Enable("RE", t, "idle")

Read(t) ==
    \/ \E space \in Counts, block \in BOOLEAN : Call(t, space, block)
    \/ ReadLock(t) \/ ReadLook(t) \/ ReadCopy(t) \/ ReadAdvance(t)
    \/ ReadPend(t) \/ Wake(t, "again") \/ ReadAgain(t) \/ ReadUnlock(t) \/ ReadEnable(t)

-----------------------------------------------------------------------------
(* altera_avalon_jtag_uart_write *)

WriteLock(t) ==
    /\ Goes(t, "lock") /\ write_lock = NoTask
    /\ write_lock' = t
    /\ To(t, "look")
    /\ UNCHANGED <<ring, irq_enable, host_inactive, read_lock, events, isr, core, stream>>

(* What is free in one piece; one slot always stays free. *)
RoomInOnePiece ==
    IF tx_in < tx_out THEN tx_out - 1 - tx_in
    ELSE IF tx_out > 0 THEN BUF_LEN - tx_in
    ELSE BUF_LEN - 1 - tx_in

WriteLook(t) ==
    /\ Goes(t, "look")
    /\ local' = [local EXCEPT ![t] =
          IF RoomInOnePiece > 0
            THEN [@ EXCEPT !.at = "copy", !.in = tx_in, !.n = Least(RoomInOnePiece, local[t].left)]
            ELSE [@ EXCEPT !.at = "enable"]]
    /\ UNCHANGED <<ring, irq_enable, host_inactive, read_lock, write_lock, events, isr, core, stream>>

WriteCopy(t) ==
    LET m == local[t] IN
    /\ Goes(t, "copy")
    /\ tx_buf' = [i \in Slots |-> IF i \in m.in .. m.in + m.n - 1 THEN Later(given, i - m.in) ELSE tx_buf[i]]
    /\ given' = Later(given, m.n)
    /\ To(t, "advance")
    /\ UNCHANGED <<rx_in, rx_out, rx_buf, tx_in, tx_out, irq_enable, host_inactive, read_lock,
                   write_lock, events, isr, core, sent, taken, got>>

WriteAdvance(t) ==
    LET m == local[t] IN
    /\ Goes(t, "advance")
    /\ tx_in' = (m.in + m.n) % BUF_LEN
    /\ local' = [local EXCEPT ![t] = [m EXCEPT !.left = @ - m.n, !.in = 0, !.n = 0, !.at =
                    IF m.left > m.n THEN "look" ELSE "enable"]]
    /\ UNCHANGED <<rx_in, rx_out, rx_buf, tx_out, tx_buf, irq_enable, host_inactive, read_lock,
                   write_lock, events, isr, core, stream>>

WriteEnable(t) ==
    Goes(t, "enable")
        /\ Enable("WE", t, IF local[t].left > 0 /\ local[t].block THEN "pend" ELSE "unlock")

WritePend(t) ==
    /\ Goes(t, "pend")
    /\ FlagPend(t, "again")
    /\ UNCHANGED <<ring, irq_enable, host_inactive, read_lock, write_lock, isr, core, stream>>

(* It gives up when the host has been missed once. *)
WriteAgain(t) ==
    /\ Goes(t, "again")
    /\ To(t, IF host_inactive > 0 THEN "unlock" ELSE "look")
    /\ UNCHANGED <<ring, irq_enable, host_inactive, read_lock, write_lock, events, isr, core, stream>>

WriteUnlock(t) ==
    /\ Goes(t, "unlock")
    /\ write_lock' = NoTask
    /\ local' = [local EXCEPT ![t] = Idle]
    /\ UNCHANGED <<ring, irq_enable, host_inactive, read_lock, events, isr, core, stream>>

Write(t) ==
    \/ \E count \in Counts, block \in BOOLEAN : Call(t, count, block)
    \/ WriteLock(t) \/ WriteLook(t) \/ WriteCopy(t) \/ WriteAdvance(t) \/ WriteEnable(t)
    \/ WritePend(t) \/ Wake(t, "again") \/ WriteAgain(t) \/ WriteUnlock(t)

-----------------------------------------------------------------------------
(* altera_avalon_jtag_uart_irq *)

RI == "RE" \in irq_enable /\ rfifo # <<>>
WI == "WE" \in irq_enable /\ Len(wfifo) < TxFifoLen

(* The register is read on entry and in each round; what it says may be    *)
(* old when it is used.                                                    *)
IsrControl ==
    /\ \/ isr.at = "none" /\ (RI \/ WI)
       \/ isr.at = "control"
    /\ isr' = IF RI \/ WI
                THEN [at |-> IF RI THEN "receive" ELSE "transmit", wi |-> WI,
                      space |-> IF WI THEN TxFifoLen - Len(wfifo) ELSE 0, avail |-> RI]
                ELSE NoIsr
    /\ UNCHANGED <<ring, irq_enable, host_inactive, read_lock, write_lock, events, local, core, stream>>

NextIn == (rx_in + 1) % BUF_LEN

IsrReceive ==
    /\ isr.at = "receive"
    /\ NextIn # rx_out /\ rfifo # <<>>
    /\ rx_buf' = [rx_buf EXCEPT ![rx_in] = Head(rfifo)]
    /\ rx_in' = NextIn
    /\ rfifo' = Tail(rfifo)
    /\ isr' = [isr EXCEPT !.avail = Tail(rfifo) # <<>>]
    /\ FlagPost("READ_RDY")
    /\ UNCHANGED <<rx_out, tx_in, tx_out, tx_buf, irq_enable, host_inactive, read_lock, write_lock,
                   wfifo, ac, stream>>

(* The ring is full, or there was nothing more: avail says which.          *)
IsrReceived ==
    /\ isr.at = "receive"
    /\ NextIn = rx_out \/ rfifo = <<>>
    /\ irq_enable' = IF isr.avail /\ NextIn = rx_out THEN irq_enable \ {"RE"} ELSE irq_enable
    /\ isr' = IF isr.wi THEN [isr EXCEPT !.at = "transmit", !.avail = FALSE] ELSE Round
    /\ UNCHANGED <<ring, host_inactive, read_lock, write_lock, events, local, core, stream>>

IsrTransmit ==
    /\ isr.at = "transmit"
    /\ isr.space > 0 /\ tx_out # tx_in
    /\ wfifo' = Append(wfifo, tx_buf[tx_out])
    /\ tx_out' = (tx_out + 1) % BUF_LEN
    /\ isr' = [isr EXCEPT !.space = @ - 1]
    /\ FlagPost("WRITE_RDY")
    /\ UNCHANGED <<rx_in, rx_out, rx_buf, tx_in, tx_buf, irq_enable, host_inactive, read_lock,
                   write_lock, rfifo, ac, stream>>

IsrTransmitted ==
    /\ isr.at = "transmit"
    /\ isr.space = 0 \/ tx_out = tx_in
    /\ irq_enable' = IF isr.space > 0 THEN irq_enable \ {"WE"} ELSE irq_enable
    /\ isr' = Round
    /\ UNCHANGED <<ring, host_inactive, read_lock, write_lock, events, local, core, stream>>

Isr == IsrControl \/ IsrReceive \/ IsrReceived \/ IsrTransmit \/ IsrTransmitted

(* Seeded fault: nobody is told that the host is missed. *)
FaultyAlarm ==
    /\ isr.at = "none"
    /\ IF ac THEN ac' = FALSE /\ host_inactive' = 0
             ELSE host_inactive' = Least(host_inactive + 1, Timeout) /\ UNCHANGED ac
    /\ UNCHANGED <<ring, irq_enable, read_lock, write_lock, events, local, isr, rfifo, wfifo, stream>>

(* altera_avalon_jtag_uart_timeout, once a second. *)
Alarm ==
    /\ isr.at = "none"
    /\ IF ac
         THEN ac' = FALSE /\ host_inactive' = 0 /\ UNCHANGED <<events, local>>
         ELSE /\ host_inactive' = Least(host_inactive + 1, Timeout)
              /\ IF host_inactive' >= Timeout THEN FlagPost("TIMEOUT") ELSE UNCHANGED <<events, local>>
              /\ UNCHANGED ac
    /\ UNCHANGED <<ring, irq_enable, read_lock, write_lock, isr, rfifo, wfifo, stream>>

-----------------------------------------------------------------------------
(* The host: it sends, receives, and shows that it is there. *)
HostSends ==
    /\ Len(rfifo) < RxFifoLen
    /\ rfifo' = Append(rfifo, sent)
    /\ sent' = Later(sent, 1)
    /\ ac' = TRUE
    /\ UNCHANGED <<ring, irq_enable, host_inactive, read_lock, write_lock, events, local, isr,
                   wfifo, taken, given, got>>

HostReceives ==
    /\ wfifo # <<>>
    /\ wfifo' = Tail(wfifo)
    /\ got' = Later(got, 1)
    /\ ac' = TRUE
    /\ UNCHANGED <<ring, irq_enable, host_inactive, read_lock, write_lock, events, local, isr,
                   rfifo, sent, taken, given>>

HostPolls ==
    /\ ~ac /\ ac' = TRUE
    /\ UNCHANGED <<ring, irq_enable, host_inactive, read_lock, write_lock, events, local, isr,
                   rfifo, wfifo, stream>>

Host == HostSends \/ HostReceives \/ HostPolls

-----------------------------------------------------------------------------
Next ==
    \/ \E t \in Readers : Read(t)
    \/ \E t \in Writers : Write(t)
    \/ Isr \/ Alarm \/ Host

Spec == Init /\ [][Next]_uartVars

(* Interrupts leave the tasks time to run, a task that holds a semaphore   *)
(* hands it to one that waits, and the second passes.  Nothing makes the   *)
(* host send, come or stay: it is away for good from some moment on, or it *)
(* comes back again and again and then takes, in the end, what waits.      *)
ReaderStep(t) ==
    \/ Wake(t, "again")
    \/ ReadLook(t) \/ ReadCopy(t) \/ ReadAdvance(t) \/ ReadPend(t) \/ ReadAgain(t)
    \/ ReadUnlock(t) \/ ReadEnable(t)

WriterStep(t) ==
    \/ Wake(t, "again")
    \/ WriteLook(t) \/ WriteCopy(t) \/ WriteAdvance(t) \/ WriteEnable(t) \/ WritePend(t)
    \/ WriteAgain(t) \/ WriteUnlock(t)

HostLeaves == <>[][~Host]_uartVars

Fairness ==
    /\ \A t \in Readers : SF_uartVars(ReaderStep(t)) /\ SF_uartVars(ReadLock(t))
    /\ \A t \in Writers : SF_uartVars(WriterStep(t)) /\ SF_uartVars(WriteLock(t))
    /\ WF_uartVars(Isr) /\ SF_uartVars(Alarm)
    /\ HostLeaves \/ WF_uartVars(HostReceives)

FairSpec == Spec /\ Fairness

-----------------------------------------------------------------------------
(* Properties *)

Steps == {"absent", "idle", "lock", "look", "copy", "advance", "pend", "asleep", "woken", "again",
          "enable", "unlock"}
Bytes == 0 .. Modulus - 1

Flags == {"READ_RDY", "WRITE_RDY", "TIMEOUT"}
Locals == [at : Steps, left : Nat, some : BOOLEAN, in : Slots, out : Slots,
           n : 0 .. BUF_LEN, block : BOOLEAN, rdy : SUBSET Flags]
IsrStates == [at : {"none", "control", "receive", "transmit"}, wi : BOOLEAN,
              space : 0 .. TxFifoLen, avail : BOOLEAN]

(* Every variable has its type: the pointers stay inside the rings, and    *)
(* the FIFOs are never overrun.                                            *)
TypeOK ==
    /\ rx_in \in Slots /\ rx_out \in Slots /\ tx_in \in Slots /\ tx_out \in Slots
    /\ rx_buf \in [Slots -> Bytes] /\ tx_buf \in [Slots -> Bytes]
    /\ irq_enable \subseteq {"RE", "WE"}
    /\ host_inactive \in 0 .. Timeout
    /\ read_lock \in Readers \cup {NoTask} /\ write_lock \in Writers \cup {NoTask}
    /\ events \subseteq Flags
    /\ local \in [Callers -> Locals]
    /\ isr \in IsrStates
    /\ rfifo \in Seq(Bytes) /\ wfifo \in Seq(Bytes)
    /\ Len(rfifo) <= RxFifoLen /\ Len(wfifo) <= TxFifoLen
    /\ ac \in BOOLEAN
    /\ sent \in Bytes /\ taken \in Bytes /\ given \in Bytes /\ got \in Bytes

Held(in, out) == (in - out + BUF_LEN) % BUF_LEN

(* What a task has copied and not yet moved its pointer over. *)
Copied(S) ==
    IF \E t \in S : local[t].at = "advance"
      THEN local[CHOOSE t \in S : local[t].at = "advance"].n ELSE 0

(* What the host sends reaches the readers, and what the writers give the  *)
(* host, whole and in order, however tasks and interrupts share the rings: *)
(* after the last byte taken come those of the ring and those of the FIFO, *)
(* up to the last byte sent, and likewise on the way out.                  *)
ReceivedInOrder ==
    LET c == Copied(Readers)
        h == Held(rx_in, rx_out) IN
    /\ \A k \in c .. h - 1 : rx_buf[(rx_out + k) % BUF_LEN] = Later(taken, k - c)
    /\ \A j \in DOMAIN rfifo : rfifo[j] = Later(taken, h - c + j - 1)
    /\ sent = Later(taken, h - c + Len(rfifo))

SentInOrder ==
    LET w == Len(wfifo)
        h == Held(tx_in, tx_out) + Copied(Writers) IN
    /\ \A j \in 1 .. w : wfifo[j] = Later(got, j - 1)
    /\ \A k \in 0 .. h - 1 : tx_buf[(tx_out + k) % BUF_LEN] = Later(got, w + k)
    /\ given = Later(got, w + h)

BytesInOrder == ReceivedInOrder /\ SentInOrder

(* No byte waits for an interrupt that is off: while there is something to *)
(* send, the write interrupt is on or the writer is about to turn it on;   *)
(* the read interrupt is off only with the ring full, or with a reader     *)
(* that has made room and will turn it on.                                 *)
InterruptsOwed ==
    /\ tx_in # tx_out => \/ "WE" \in irq_enable
                         \/ \E t \in Writers : local[t].at \in {"look", "copy", "advance", "enable"}
    /\ "RE" \notin irq_enable =>
         \/ NextIn = rx_out
         \/ \E t \in Readers : local[t].at = "enable" \/ local[t].some

(* A write returns, sooner or later: the host takes bytes and so makes     *)
(* room, or it is away and the alarm wakes the writer to give up.          *)
WriteReturns == \A t \in Writers : local[t].at = "lock" ~> local[t].at = "idle"

=============================================================================
