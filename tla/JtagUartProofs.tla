--------------------------- MODULE JtagUartProofs --------------------------
(***************************************************************************)
(* The console driver, for every number of readers and writers, every size *)
(* of rings and FIFOs and every timeout.                                   *)
(***************************************************************************)
EXTENDS JtagUart, TLAPS

(* A call that has not begun has moved nothing, and only readers remember. *)
Outside == {"absent", "idle", "lock", "enable"}
IdleIsClean ==
    \A t \in Callers : local[t].at \in Outside \/ t \in Writers => ~local[t].some

(* A copy is never longer than what the call asks for. *)
CopyFits == \A t \in Callers : local[t].at \in {"copy", "advance"} => local[t].n <= local[t].left

(* The FIFO has the room that the interrupt routine read. *)
SpaceFits == isr.at \in {"receive", "transmit"} => isr.space + Len(wfifo) <= TxFifoLen

(* Who works on a ring holds its semaphore. *)
Inside == {"look", "copy", "advance", "pend", "asleep", "woken", "again", "unlock"}
LocksHeld ==
    /\ \A t \in Readers : local[t].at \in Inside => read_lock = t
    /\ \A t \in Writers : local[t].at \in Inside \cup {"enable"} => write_lock = t

UartInv == TypeOK /\ IdleIsClean /\ CopyFits /\ SpaceFits /\ LocksHeld /\ InterruptsOwed

-----------------------------------------------------------------------------
LEMMA PiecesFit ==
    ASSUME TypeOK
    PROVE  InOnePiece \in 0 .. BUF_LEN /\ RoomInOnePiece \in 0 .. BUF_LEN
<1>1. /\ rx_in \in 0 .. BUF_LEN - 1 /\ rx_out \in 0 .. BUF_LEN - 1
      /\ tx_in \in 0 .. BUF_LEN - 1 /\ tx_out \in 0 .. BUF_LEN - 1
    BY DEF TypeOK, Slots
<1>2. BUF_LEN \in Nat
    BY UartAssumption
<1> QED BY <1>1, <1>2 DEF InOnePiece, RoomInOnePiece

LEMMA LeastType ==
    ASSUME NEW a \in Nat, NEW b \in Nat
    PROVE  Least(a, b) \in Nat /\ Least(a, b) <= a /\ Least(a, b) <= b
BY DEF Least

LEMMA LaterType ==
    ASSUME NEW k \in Int, NEW n \in Int
    PROVE  Later(k, n) \in Bytes
BY UartAssumption DEF Later, Bytes

LEMMA PointerType ==
    ASSUME NEW k \in Int
    PROVE  k % BUF_LEN \in Slots
BY UartAssumption DEF Slots

-----------------------------------------------------------------------------
LEMMA InitInv == Init => UartInv
<1> USE UartAssumption
<1> SUFFICES ASSUME Init PROVE UartInv
    OBVIOUS
<1>1. TypeOK
    <2>1. 0 \in Slots /\ 0 \in Bytes /\ 0 \in 0 .. BUF_LEN /\ 0 \in 0 .. TxFifoLen
        BY DEF Slots, Bytes
    <2>2. Idle \in Locals /\ [Idle EXCEPT !.at = "absent"] \in Locals
        BY <2>1 DEF Idle, Locals, Steps, Flags
    <2>3. local \in [Callers -> Locals]
        BY <2>2 DEF Init
    <2>4. isr \in IsrStates
        BY <2>1 DEF Init, NoIsr, IsrStates
    <2>5. /\ rfifo \in Seq(Bytes) /\ wfifo \in Seq(Bytes)
          /\ Len(rfifo) <= RxFifoLen /\ Len(wfifo) <= TxFifoLen
        BY DEF Init
    <2>6. /\ rx_buf \in [Slots -> Bytes] /\ tx_buf \in [Slots -> Bytes]
          /\ irq_enable \subseteq {"RE", "WE"} /\ events \subseteq Flags
        BY <2>1 DEF Init
    <2>7. host_inactive \in 0 .. Timeout
        BY DEF Init
    <2>9. ac \in BOOLEAN
        BY Zenon DEF Init
    <2>8. read_lock \in Readers \cup {NoTask} /\ write_lock \in Writers \cup {NoTask}
        BY DEF Init
    <2> QED BY <2>1, <2>3, <2>4, <2>5, <2>6, <2>7, <2>8, <2>9 DEF Init, TypeOK
<1>2. IdleIsClean /\ CopyFits /\ LocksHeld
    <2>1. \A t \in Callers : local[t].at \in {"idle", "absent"} /\ local[t].some = FALSE
        BY DEF Init, Idle
    <2> QED BY <2>1 DEF IdleIsClean, CopyFits, LocksHeld, Callers, Inside, Outside
<1>3. SpaceFits /\ InterruptsOwed
    BY DEF Init, SpaceFits, InterruptsOwed, NoIsr
<1> QED BY <1>1, <1>2, <1>3 DEF UartInv

-----------------------------------------------------------------------------
(* A task takes a step: what it has to respect for the invariant to hold.  *)
Filling == {"look", "copy", "advance", "enable"}
Pledged(m) == m.at = "enable" \/ m.some

LEMMA TaskMoves ==
    ASSUME UartInv, NEW t \in Callers, NEW m \in Locals,
           local' = [local EXCEPT ![t] = m],
           UNCHANGED <<isr, wfifo, rx_in, tx_out>>,
           m.at \in Outside \/ t \in Writers => ~m.some,
           m.at \in {"copy", "advance"} => m.n <= m.left,
           read_lock' = read_lock \/ read_lock \in {NoTask, t},
           write_lock' = write_lock \/ write_lock \in {NoTask, t},
           t \in Readers /\ m.at \in Inside => read_lock' = t,
           t \in Writers /\ m.at \in Inside \cup {"enable"} => write_lock' = t,
           irq_enable \subseteq irq_enable',
           tx_in' = tx_in \/ (t \in Writers /\ m.at \in Filling),
           rx_out' = rx_out \/ (t \in Readers /\ Pledged(m)),
           t \in Writers /\ local[t].at \in Filling => m.at \in Filling \/ "WE" \in irq_enable',
           t \in Readers /\ Pledged(local[t]) => Pledged(m) \/ "RE" \in irq_enable'
    PROVE  /\ local' \in [Callers -> Locals]
           /\ IdleIsClean' /\ CopyFits' /\ SpaceFits' /\ LocksHeld' /\ InterruptsOwed'
<1> USE DEF UartInv
<1>1. /\ local' \in [Callers -> Locals]
      /\ local'[t] = m
      /\ \A u \in Callers : u # t => local'[u] = local[u]
    BY DEF TypeOK
<1>2. IdleIsClean'
    BY <1>1 DEF IdleIsClean
<1>3. CopyFits'
    BY <1>1 DEF CopyFits
<1>4. SpaceFits'
    BY DEF SpaceFits
<1>5. LocksHeld'
    <2>1. ASSUME NEW u \in Readers, local'[u].at \in Inside
          PROVE  read_lock' = u
        <3>1. CASE u = t
            BY <2>1, <3>1, <1>1
        <3>2. CASE u # t
            <4>1. read_lock = u
                BY <2>1, <3>2, <1>1 DEF LocksHeld, Callers
            <4>2. u # NoTask
                BY UartAssumption
            <4> QED BY <4>1, <4>2, <3>2
        <3> QED BY <3>1, <3>2
    <2>2. ASSUME NEW u \in Writers, local'[u].at \in Inside \cup {"enable"}
          PROVE  write_lock' = u
        <3>1. CASE u = t
            BY <2>2, <3>1, <1>1
        <3>2. CASE u # t
            <4>1. write_lock = u
                BY <2>2, <3>2, <1>1 DEF LocksHeld, Callers
            <4>2. u # NoTask
                BY UartAssumption
            <4> QED BY <4>1, <4>2, <3>2
        <3> QED BY <3>1, <3>2
    <2> QED BY <2>1, <2>2 DEF LocksHeld
<1>6. ASSUME tx_in' # tx_out', "WE" \notin irq_enable'
      PROVE  \E u \in Writers : local'[u].at \in Filling
    <2>1. CASE tx_in' = tx_in
        <3>1. PICK u \in Writers : local[u].at \in Filling
            BY <1>6, <2>1 DEF InterruptsOwed, Filling
        <3> QED BY <1>1, <1>6, <3>1 DEF Callers
    <2>2. CASE t \in Writers /\ m.at \in Filling
        BY <2>2, <1>1
    <2> QED BY <2>1, <2>2
<1>7. ASSUME "RE" \notin irq_enable', NextIn' # rx_out'
      PROVE  \E u \in Readers : Pledged(local'[u])
    <2>1. CASE rx_out' = rx_out
        <3>1. PICK u \in Readers : Pledged(local[u])
            BY <1>7, <2>1 DEF InterruptsOwed, Pledged, NextIn
        <3> QED BY <1>1, <1>7, <3>1 DEF Callers
    <2>2. CASE t \in Readers /\ Pledged(m)
        BY <2>2, <1>1
    <2> QED BY <2>1, <2>2
<1>8. InterruptsOwed'
    BY <1>6, <1>7 DEF InterruptsOwed, Filling, Pledged
<1> QED BY <1>1, <1>2, <1>3, <1>4, <1>5, <1>8

Moved(t, at) == [local[t] EXCEPT !.at = at]

LEMMA MovedType ==
    ASSUME TypeOK, NEW t \in Callers, NEW at \in Steps
    PROVE  /\ Moved(t, at) \in Locals
           /\ Moved(t, at).at = at
           /\ Moved(t, at).some = local[t].some
           /\ Moved(t, at).left = local[t].left
           /\ Moved(t, at).n = local[t].n
           /\ To(t, at) => local' = [local EXCEPT ![t] = Moved(t, at)]
<1>1. local \in [Callers -> Locals] /\ local[t] \in Locals
    BY DEF TypeOK
<1> QED BY <1>1 DEF Moved, Locals, To

LEMMA CallKeeps ==
    ASSUME UartInv, NEW t \in Callers, NEW count \in Counts, NEW block \in BOOLEAN,
           Call(t, count, block)
    PROVE  UartInv'
<1> DEFINE m == [Idle EXCEPT !.at = "lock", !.left = count, !.block = block]
<1>1. m \in Locals /\ m.at = "lock" /\ m.some = FALSE
    <2>1. 0 \in Slots /\ 0 \in 0 .. BUF_LEN /\ count \in Nat
        BY UartAssumption DEF Slots
    <2> QED BY <2>1 DEF Idle, Locals, Steps, Flags
<1>2. local' = [local EXCEPT ![t] = m] /\ local[t].at = "idle"
    BY DEF Call, Goes
<1>3. local[t].some = FALSE
    BY <1>2 DEF UartInv, IdleIsClean, Outside, TypeOK, Locals
<1>4. /\ local' \in [Callers -> Locals]
      /\ IdleIsClean' /\ CopyFits' /\ SpaceFits' /\ LocksHeld' /\ InterruptsOwed'
    <2> HIDE DEF m
    <2> QED BY <1>1, <1>2, <1>3, TaskMoves
            DEF Call, ring, core, stream, Inside, Outside, Filling, Pledged
<1>5. TypeOK'
    BY <1>4 DEF UartInv, TypeOK, Call, ring, core, stream
<1> QED BY <1>4, <1>5 DEF UartInv

LEMMA WakeKeeps ==
    ASSUME UartInv, NEW t \in Callers, Wake(t, "again")
    PROVE  UartInv'
<1> DEFINE m == [local[t] EXCEPT !.at = "again", !.rdy = {}]
<1>1. /\ m \in Locals /\ m.at = "again" /\ m.some = local[t].some
      /\ local' = [local EXCEPT ![t] = m] /\ local[t].at = "woken"
    <2>1. local \in [Callers -> Locals] /\ local[t] \in Locals
        BY DEF UartInv, TypeOK
    <2> QED BY <2>1 DEF Wake, Goes, Locals, Steps, Flags
<1>2. /\ local' \in [Callers -> Locals]
      /\ IdleIsClean' /\ CopyFits' /\ SpaceFits' /\ LocksHeld' /\ InterruptsOwed'
    <2>1. /\ t \in Readers => read_lock = t
          /\ t \in Writers => write_lock = t /\ ~local[t].some
        BY <1>1 DEF UartInv, LocksHeld, Inside, IdleIsClean
    <2> HIDE DEF m
    <2> QED BY <1>1, <2>1, TaskMoves
            DEF Wake, ring, core, stream, Inside, Outside, Filling, Pledged
<1>3. TypeOK'
    BY <1>2 DEF UartInv, TypeOK, Wake, ring, core, stream
<1> QED BY <1>2, <1>3 DEF UartInv

LEMMA EnableKeeps ==
    ASSUME UartInv, NEW t \in Callers, NEW bit \in {"RE", "WE"}, NEW next \in Steps,
           Enable(bit, t, next), local[t].at = "enable",
           next \in {"idle", "pend", "unlock"},
           t \in Readers => bit = "RE" /\ next = "idle",
           t \in Writers => bit = "WE"
    PROVE  UartInv'
<1> DEFINE m == Moved(t, next)
<1>1. /\ m \in Locals /\ m.at = next /\ m.some = local[t].some
      /\ local' = [local EXCEPT ![t] = m]
    BY MovedType DEF Enable, UartInv
<1>2. /\ local' \in [Callers -> Locals]
      /\ IdleIsClean' /\ CopyFits' /\ SpaceFits' /\ LocksHeld' /\ InterruptsOwed'
    <2>1. (t \in Writers => write_lock = t) /\ ~local[t].some
        BY DEF UartInv, LocksHeld, IdleIsClean, Outside
    <2>2. t \in Readers => t \notin Writers
        BY UartAssumption
    <2> HIDE DEF m
    <2> QED BY <1>1, <2>1, <2>2, TaskMoves
            DEF Enable, ring, core, stream, Inside, Outside, Filling, Pledged, Callers
<1>3. TypeOK'
    BY <1>2 DEF UartInv, TypeOK, Enable, ring, core, stream
<1> QED BY <1>2, <1>3 DEF UartInv

LEMMA ReadLockKeeps ==
    ASSUME UartInv, NEW t \in Readers, ReadLock(t)
    PROVE  UartInv'
<1> DEFINE m == Moved(t, "look")
<1>1. /\ m \in Locals /\ m.at = "look" /\ m.some = local[t].some
      /\ local' = [local EXCEPT ![t] = m] /\ local[t].at = "lock"
    BY MovedType DEF ReadLock, Goes, UartInv, Callers, Steps
<1>2. /\ local' \in [Callers -> Locals]
      /\ IdleIsClean' /\ CopyFits' /\ SpaceFits' /\ LocksHeld' /\ InterruptsOwed'
    <2>1. t \in Callers /\ ~local[t].some /\ t \notin Writers
        BY <1>1, UartAssumption DEF Callers, UartInv, IdleIsClean, Outside
    <2> HIDE DEF m
    <2> QED BY <1>1, <2>1, TaskMoves
            DEF ReadLock, ring, core, stream, Inside, Outside, Filling, Pledged
<1>3. TypeOK'
    BY <1>2 DEF UartInv, TypeOK, ReadLock, ring, core, stream
<1> QED BY <1>2, <1>3 DEF UartInv

LEMMA WriteLockKeeps ==
    ASSUME UartInv, NEW t \in Writers, WriteLock(t)
    PROVE  UartInv'
<1> DEFINE m == Moved(t, "look")
<1>1. /\ m \in Locals /\ m.at = "look" /\ m.some = local[t].some
      /\ local' = [local EXCEPT ![t] = m] /\ local[t].at = "lock"
    BY MovedType DEF WriteLock, Goes, UartInv, Callers, Steps
<1>2. /\ local' \in [Callers -> Locals]
      /\ IdleIsClean' /\ CopyFits' /\ SpaceFits' /\ LocksHeld' /\ InterruptsOwed'
    <2>1. t \in Callers /\ ~local[t].some /\ t \notin Readers
        BY <1>1, UartAssumption DEF Callers, UartInv, IdleIsClean, Outside
    <2> HIDE DEF m
    <2> QED BY <1>1, <2>1, TaskMoves
            DEF WriteLock, ring, core, stream, Inside, Outside, Filling, Pledged
<1>3. TypeOK'
    BY <1>2 DEF UartInv, TypeOK, WriteLock, ring, core, stream
<1> QED BY <1>2, <1>3 DEF UartInv

(* What is known of a task that works on a ring. *)
LEMMA Insider ==
    ASSUME UartInv, NEW t \in Callers, local[t].at \in Inside
    PROVE  /\ local[t] \in Locals
           /\ t \in Readers => read_lock = t /\ t \notin Writers
           /\ t \in Writers => write_lock = t /\ t \notin Readers /\ ~local[t].some
BY UartAssumption DEF UartInv, TypeOK, LocksHeld, IdleIsClean

LEMMA PendKeeps ==
    ASSUME UartInv, NEW t \in Callers, local[t].at = "pend", FlagPend(t, "again"),
           UNCHANGED <<ring, irq_enable, host_inactive, read_lock, write_lock, isr, core, stream>>
    PROVE  UartInv'
<1>1. PICK at \in {"again", "asleep"} : To(t, at)
    BY DEF FlagPend
<1> DEFINE m == Moved(t, at)
<1>2. /\ m \in Locals /\ m.at = at /\ m.some = local[t].some
      /\ local' = [local EXCEPT ![t] = m]
    BY <1>1, MovedType DEF UartInv, Steps
<1>3. /\ local' \in [Callers -> Locals]
      /\ IdleIsClean' /\ CopyFits' /\ SpaceFits' /\ LocksHeld' /\ InterruptsOwed'
    <2>1. local[t].at \in Inside
        BY DEF Inside
    <2> HIDE DEF m
    <2> QED BY <1>2, <2>1, Insider, TaskMoves
            DEF ring, core, stream, Inside, Outside, Filling, Pledged
<1>4. events' \subseteq Flags
    BY DEF UartInv, TypeOK, FlagPend
<1>5. TypeOK'
    BY <1>3, <1>4 DEF UartInv, TypeOK, ring, core, stream
<1> QED BY <1>3, <1>5 DEF UartInv

(* Steps that only move the task on, to a place inside. *)
LEMMA GoingKeeps ==
    ASSUME UartInv, NEW t \in Callers, local[t].at = "again", NEW at \in {"look", "unlock"},
           To(t, at),
           UNCHANGED <<ring, irq_enable, host_inactive, read_lock, write_lock, events, isr, core, stream>>
    PROVE  UartInv'
<1> DEFINE m == Moved(t, at)
<1>1. /\ m \in Locals /\ m.at = at /\ m.some = local[t].some
      /\ local' = [local EXCEPT ![t] = m]
    BY MovedType DEF UartInv, Steps
<1>2. /\ local' \in [Callers -> Locals]
      /\ IdleIsClean' /\ CopyFits' /\ SpaceFits' /\ LocksHeld' /\ InterruptsOwed'
    <2>1. local[t].at \in Inside
        BY DEF Inside
    <2> HIDE DEF m
    <2> QED BY <1>1, <2>1, Insider, TaskMoves
            DEF ring, core, stream, Inside, Outside, Filling, Pledged
<1>3. TypeOK'
    BY <1>2 DEF UartInv, TypeOK, ring, core, stream
<1> QED BY <1>2, <1>3 DEF UartInv

LEMMA ReadLookKeeps ==
    ASSUME UartInv, NEW t \in Readers, ReadLook(t)
    PROVE  UartInv'
<1> DEFINE m == IF InOnePiece > 0
                  THEN [local[t] EXCEPT !.at = "copy", !.in = rx_in, !.out = rx_out,
                                        !.n = Least(InOnePiece, local[t].left)]
                  ELSE [local[t] EXCEPT !.at = IF ~local[t].some /\ local[t].block
                                                 THEN "pend" ELSE "unlock",
                                        !.in = rx_in]
<1>1. t \in Callers /\ local[t].at \in Inside /\ local[t].at = "look"
    BY DEF Callers, ReadLook, Goes, Inside
<1>2. local' = [local EXCEPT ![t] = m]
    BY DEF ReadLook
<1>3. /\ m \in Locals /\ m.some = local[t].some /\ m.at \in {"copy", "pend", "unlock"}
      /\ m.at = "copy" => m.n <= m.left
    <2>1. local[t] \in Locals /\ rx_in \in Slots /\ rx_out \in Slots
        BY <1>1, Insider DEF UartInv, TypeOK
    <2>2. InOnePiece \in 0 .. BUF_LEN
        BY PiecesFit DEF UartInv
    <2>3. local[t].left \in Nat
        BY <2>1 DEF Locals
    <2>4. Least(InOnePiece, local[t].left) \in 0 .. BUF_LEN
        BY <2>2, <2>3, UartAssumption DEF Least
    <2>5. Least(InOnePiece, local[t].left) <= local[t].left
        BY <2>2, <2>3 DEF Least
    <2>6. CASE InOnePiece > 0
        BY <2>1, <2>4, <2>5, <2>6 DEF Locals, Steps
    <2>7. CASE ~(InOnePiece > 0)
        BY <2>1, <2>7 DEF Locals, Steps
    <2> QED BY <2>6, <2>7
<1>4. /\ local' \in [Callers -> Locals]
      /\ IdleIsClean' /\ CopyFits' /\ SpaceFits' /\ LocksHeld' /\ InterruptsOwed'
    <2> HIDE DEF m
    <2> QED BY <1>1, <1>2, <1>3, Insider, TaskMoves, ZenonT(60)
            DEF ReadLook, ring, core, stream, Inside, Outside, Filling, Pledged
<1>5. TypeOK'
    BY <1>4 DEF UartInv, TypeOK, ReadLook, ring, core, stream
<1> QED BY <1>4, <1>5 DEF UartInv

LEMMA ReadCopyKeeps ==
    ASSUME UartInv, NEW t \in Readers, ReadCopy(t)
    PROVE  UartInv'
<1> DEFINE m == Moved(t, "advance")
<1>1. t \in Callers /\ local[t].at \in Inside /\ local[t].at = "copy"
    BY DEF Callers, ReadCopy, Goes, Inside
<1>2. /\ m \in Locals /\ m.at = "advance" /\ m.some = local[t].some
      /\ m.n = local[t].n /\ m.left = local[t].left
      /\ local' = [local EXCEPT ![t] = m]
    BY <1>1, MovedType DEF ReadCopy, UartInv, Steps
<1>3. /\ local' \in [Callers -> Locals]
      /\ IdleIsClean' /\ CopyFits' /\ SpaceFits' /\ LocksHeld' /\ InterruptsOwed'
    <2>1. local[t].n <= local[t].left
        BY <1>1 DEF UartInv, CopyFits
    <2> HIDE DEF m
    <2> QED BY <1>1, <1>2, <2>1, Insider, TaskMoves
            DEF ReadCopy, ring, core, stream, Inside, Outside, Filling, Pledged
<1>4. taken' \in Bytes
    <2>1. taken \in Int /\ local[t].n \in Int
        BY <1>1, Insider DEF UartInv, TypeOK, Bytes, Locals
    <2> QED BY <2>1, LaterType DEF ReadCopy
<1>5. TypeOK'
    BY <1>3, <1>4 DEF UartInv, TypeOK, ReadCopy, ring, core, stream
<1> QED BY <1>3, <1>5 DEF UartInv

LEMMA ReadAdvanceKeeps ==
    ASSUME UartInv, NEW t \in Readers, ReadAdvance(t)
    PROVE  UartInv'
<1> DEFINE m == [local[t] EXCEPT !.left = @ - local[t].n, !.some = TRUE, !.out = 0, !.n = 0,
                                 !.at = IF local[t].left > local[t].n THEN "look" ELSE "unlock"]
<1>1. t \in Callers /\ local[t].at \in Inside /\ local[t].at = "advance"
    BY DEF Callers, ReadAdvance, Goes, Inside
<1>2. /\ local[t] \in Locals /\ local[t].n \in Nat /\ local[t].left \in Nat
      /\ local[t].n <= local[t].left /\ local[t].out \in Int
    BY <1>1, Insider DEF UartInv, CopyFits, Locals, Slots
<1>3. /\ m \in Locals /\ m.some = TRUE /\ m.at \in {"look", "unlock"}
      /\ local' = [local EXCEPT ![t] = m]
    <2>1. 0 \in Slots /\ 0 \in 0 .. BUF_LEN /\ local[t].left - local[t].n \in Nat
        BY <1>2, UartAssumption DEF Slots
    <2>2. m \in Locals /\ m.some = TRUE /\ m.at \in {"look", "unlock"}
        BY <1>2, <2>1 DEF Locals, Steps
    <2> QED BY <2>2 DEF ReadAdvance
<1>4. /\ local' \in [Callers -> Locals]
      /\ IdleIsClean' /\ CopyFits' /\ SpaceFits' /\ LocksHeld' /\ InterruptsOwed'
    <2> HIDE DEF m
    <2> QED BY <1>1, <1>3, Insider, TaskMoves
            DEF ReadAdvance, ring, core, stream, Inside, Outside, Filling, Pledged
<1>5. rx_out' \in Slots
    BY <1>2, PointerType DEF ReadAdvance
<1>6. TypeOK'
    BY <1>4, <1>5 DEF UartInv, TypeOK, ReadAdvance, ring, core, stream
<1> QED BY <1>4, <1>6 DEF UartInv

LEMMA ReadUnlockKeeps ==
    ASSUME UartInv, NEW t \in Readers, ReadUnlock(t)
    PROVE  UartInv'
<1> DEFINE m == [Idle EXCEPT !.at = IF local[t].some THEN "enable" ELSE "idle"]
<1>1. t \in Callers /\ local[t].at \in Inside /\ local[t].at = "unlock"
    BY DEF Callers, ReadUnlock, Goes, Inside
<1>2. /\ m \in Locals /\ m.some = FALSE /\ m.at \in {"enable", "idle"}
      /\ local[t].some => m.at = "enable"
      /\ local' = [local EXCEPT ![t] = m]
    <2>1. 0 \in Slots /\ 0 \in 0 .. BUF_LEN
        BY UartAssumption DEF Slots
    <2>2. /\ m \in Locals /\ m.some = FALSE /\ m.at \in {"enable", "idle"}
          /\ local[t].some => m.at = "enable"
        BY <2>1 DEF Idle, Locals, Steps, Flags
    <2> QED BY <2>2 DEF ReadUnlock
<1>3. /\ local' \in [Callers -> Locals]
      /\ IdleIsClean' /\ CopyFits' /\ SpaceFits' /\ LocksHeld' /\ InterruptsOwed'
    <2> HIDE DEF m
    <2> QED BY <1>1, <1>2, Insider, TaskMoves
            DEF ReadUnlock, ring, core, stream, Inside, Outside, Filling, Pledged
<1>4. TypeOK'
    BY <1>3 DEF UartInv, TypeOK, ReadUnlock, ring, core, stream
<1> QED BY <1>3, <1>4 DEF UartInv

LEMMA WriteLookKeeps ==
    ASSUME UartInv, NEW t \in Writers, WriteLook(t)
    PROVE  UartInv'
<1> DEFINE m == IF RoomInOnePiece > 0
                  THEN [local[t] EXCEPT !.at = "copy", !.in = tx_in,
                                        !.n = Least(RoomInOnePiece, local[t].left)]
                  ELSE [local[t] EXCEPT !.at = "enable"]
<1>1. t \in Callers /\ local[t].at \in Inside
    BY DEF Callers, WriteLook, Goes, Inside
<1>2. local' = [local EXCEPT ![t] = m]
    BY DEF WriteLook
<1>3. /\ m \in Locals /\ m.some = local[t].some /\ m.at \in {"copy", "enable"}
      /\ m.at = "copy" => m.n <= m.left
    <2>1. local[t] \in Locals /\ tx_in \in Slots
        BY <1>1, Insider DEF UartInv, TypeOK
    <2>2. RoomInOnePiece \in 0 .. BUF_LEN
        BY PiecesFit DEF UartInv
    <2>3. local[t].left \in Nat
        BY <2>1 DEF Locals
    <2>4. Least(RoomInOnePiece, local[t].left) \in 0 .. BUF_LEN
        BY <2>2, <2>3, UartAssumption DEF Least
    <2>5. Least(RoomInOnePiece, local[t].left) <= local[t].left
        BY <2>2, <2>3 DEF Least
    <2>6. CASE RoomInOnePiece > 0
        BY <2>1, <2>4, <2>5, <2>6 DEF Locals, Steps
    <2>7. CASE ~(RoomInOnePiece > 0)
        BY <2>1, <2>7 DEF Locals, Steps
    <2> QED BY <2>6, <2>7
<1>4. /\ local' \in [Callers -> Locals]
      /\ IdleIsClean' /\ CopyFits' /\ SpaceFits' /\ LocksHeld' /\ InterruptsOwed'
    <2> HIDE DEF m
    <2> QED BY <1>1, <1>2, <1>3, Insider, TaskMoves
            DEF WriteLook, ring, core, stream, Inside, Outside, Filling, Pledged
<1>5. TypeOK'
    BY <1>4 DEF UartInv, TypeOK, WriteLook, ring, core, stream
<1> QED BY <1>4, <1>5 DEF UartInv

LEMMA WriteCopyKeeps ==
    ASSUME UartInv, NEW t \in Writers, WriteCopy(t)
    PROVE  UartInv'
<1> DEFINE m == Moved(t, "advance")
<1>1. t \in Callers /\ local[t].at \in Inside /\ local[t].at = "copy"
    BY DEF Callers, WriteCopy, Goes, Inside
<1>2. /\ m \in Locals /\ m.at = "advance" /\ m.some = local[t].some
      /\ m.n = local[t].n /\ m.left = local[t].left
      /\ local' = [local EXCEPT ![t] = m]
    BY <1>1, MovedType DEF WriteCopy, UartInv, Steps
<1>3. /\ local' \in [Callers -> Locals]
      /\ IdleIsClean' /\ CopyFits' /\ SpaceFits' /\ LocksHeld' /\ InterruptsOwed'
    <2>1. local[t].n <= local[t].left
        BY <1>1 DEF UartInv, CopyFits
    <2> HIDE DEF m
    <2> QED BY <1>1, <1>2, <2>1, Insider, TaskMoves
            DEF WriteCopy, ring, core, stream, Inside, Outside, Filling, Pledged
<1>4. given \in Int /\ local[t].n \in Int /\ local[t].in \in Int
    <2>1. local[t] \in Locals
        BY <1>1, Insider
    <2>2. given \in Int
        BY DEF UartInv, TypeOK, Bytes
    <2> QED BY <2>1, <2>2 DEF Locals, Slots
<1>5. given' \in Bytes
    BY <1>4, LaterType DEF WriteCopy
<1>6. tx_buf' \in [Slots -> Bytes]
    <2>1. \A i \in Slots : i - local[t].in \in Int
        BY <1>4 DEF Slots
    <2>2. \A i \in Slots : Later(given, i - local[t].in) \in Bytes
        BY <1>4, <2>1, LaterType
    <2> QED BY <2>2 DEF WriteCopy, UartInv, TypeOK
<1>7. TypeOK'
    BY <1>3, <1>5, <1>6 DEF UartInv, TypeOK, WriteCopy, ring, core, stream
<1> QED BY <1>3, <1>7 DEF UartInv

LEMMA WriteAdvanceKeeps ==
    ASSUME UartInv, NEW t \in Writers, WriteAdvance(t)
    PROVE  UartInv'
<1> DEFINE m == [local[t] EXCEPT !.left = @ - local[t].n, !.in = 0, !.n = 0,
                                 !.at = IF local[t].left > local[t].n THEN "look" ELSE "enable"]
<1>1. t \in Callers /\ local[t].at \in Inside /\ local[t].at = "advance"
    BY DEF Callers, WriteAdvance, Goes, Inside
<1>2. /\ local[t] \in Locals /\ local[t].n \in Nat /\ local[t].left \in Nat
      /\ local[t].n <= local[t].left /\ local[t].in \in Int
    BY <1>1, Insider DEF UartInv, CopyFits, Locals, Slots
<1>3. /\ m \in Locals /\ m.some = local[t].some /\ m.at \in {"look", "enable"}
      /\ local' = [local EXCEPT ![t] = m]
    <2>1. 0 \in Slots /\ 0 \in 0 .. BUF_LEN /\ local[t].left - local[t].n \in Nat
        BY <1>2, UartAssumption DEF Slots
    <2>2. m \in Locals /\ m.some = local[t].some /\ m.at \in {"look", "enable"}
        BY <1>2, <2>1 DEF Locals, Steps
    <2> QED BY <2>2 DEF WriteAdvance
<1>4. /\ local' \in [Callers -> Locals]
      /\ IdleIsClean' /\ CopyFits' /\ SpaceFits' /\ LocksHeld' /\ InterruptsOwed'
    <2> HIDE DEF m
    <2> QED BY <1>1, <1>3, Insider, TaskMoves
            DEF WriteAdvance, ring, core, stream, Inside, Outside, Filling, Pledged
<1>5. tx_in' \in Slots
    BY <1>2, PointerType DEF WriteAdvance
<1>6. TypeOK'
    BY <1>4, <1>5 DEF UartInv, TypeOK, WriteAdvance, ring, core, stream
<1> QED BY <1>4, <1>6 DEF UartInv

LEMMA WriteUnlockKeeps ==
    ASSUME UartInv, NEW t \in Writers, WriteUnlock(t)
    PROVE  UartInv'
<1>1. t \in Callers /\ local[t].at \in Inside /\ local[t].at = "unlock"
    BY DEF Callers, WriteUnlock, Goes, Inside
<1>2. /\ Idle \in Locals /\ Idle.some = FALSE /\ Idle.at = "idle"
      /\ local' = [local EXCEPT ![t] = Idle]
    <2>1. 0 \in Slots /\ 0 \in 0 .. BUF_LEN
        BY UartAssumption DEF Slots
    <2>2. /\ Idle \in Locals /\ Idle.some = FALSE /\ Idle.at = "idle"
        BY <2>1 DEF Idle, Locals, Steps, Flags
    <2> QED BY <2>2 DEF WriteUnlock
<1>3. /\ local' \in [Callers -> Locals]
      /\ IdleIsClean' /\ CopyFits' /\ SpaceFits' /\ LocksHeld' /\ InterruptsOwed'
    BY <1>1, <1>2, Insider, TaskMoves
       DEF WriteUnlock, ring, core, stream, Inside, Outside, Filling, Pledged
<1>4. TypeOK'
    BY <1>3 DEF UartInv, TypeOK, WriteUnlock, ring, core, stream
<1> QED BY <1>3, <1>4 DEF UartInv

-----------------------------------------------------------------------------
(* Steps of the others leave the tasks where they are, or wake them. *)
Woken ==
    \A u \in Callers :
        /\ local'[u].some = local[u].some
        /\ local'[u].n = local[u].n /\ local'[u].left = local[u].left
        /\ \/ local'[u].at = local[u].at
           \/ local[u].at = "asleep" /\ local'[u].at = "woken"

LEMMA PostWakes ==
    ASSUME UartInv, NEW flag \in Flags, FlagPost(flag)
    PROVE  Woken /\ local' \in [Callers -> Locals] /\ events' \subseteq Flags
<1>1. events \subseteq Flags /\ local \in [Callers -> Locals]
    BY DEF UartInv, TypeOK
<1>2. ASSUME NEW u \in Callers
      PROVE  /\ local'[u] \in Locals
             /\ local'[u].some = local[u].some
             /\ local'[u].n = local[u].n /\ local'[u].left = local[u].left
             /\ \/ local'[u].at = local[u].at
                \/ local[u].at = "asleep" /\ local'[u].at = "woken"
    <2>1. local[u] \in Locals
        BY <1>1
    <2>2. (events \cup {flag}) \cap Wants(u) \in SUBSET Flags
        BY <1>1
    <2>3. CASE local[u].at = "asleep" /\ flag \in Wants(u)
        <3>1. local'[u] = [local[u] EXCEPT !.at = "woken", !.rdy = (events \cup {flag}) \cap Wants(u)]
            BY <2>3 DEF FlagPost
        <3> QED BY <2>1, <2>2, <2>3, <3>1 DEF Locals, Steps
    <2>4. CASE ~(local[u].at = "asleep" /\ flag \in Wants(u))
        BY <2>1, <2>4 DEF FlagPost
    <2> QED BY <2>3, <2>4
<1>3. events' \subseteq Flags
    BY <1>1 DEF FlagPost
<1>4. local' \in [Callers -> Locals]
    BY <1>2 DEF FlagPost
<1> QED BY <1>2, <1>3, <1>4 DEF Woken

LEMMA OthersMove ==
    ASSUME UartInv, Woken \/ UNCHANGED local, UNCHANGED <<read_lock, write_lock>>
    PROVE  /\ IdleIsClean' /\ CopyFits' /\ LocksHeld'
           /\ \A u \in Writers : local[u].at \in Filling => local'[u].at \in Filling
           /\ \A u \in Readers : Pledged(local[u]) => Pledged(local'[u])
<1>1. Woken
    BY DEF Woken
<1>2. IdleIsClean'
    BY <1>1 DEF UartInv, IdleIsClean, Woken, Outside
<1>3. CopyFits'
    BY <1>1 DEF UartInv, CopyFits, Woken
<1>4. LocksHeld'
    BY <1>1 DEF UartInv, LocksHeld, Woken, Inside, Callers
<1>5. \A u \in Writers : local[u].at \in Filling => local'[u].at \in Filling
    BY <1>1 DEF Woken, Filling, Callers
<1>6. \A u \in Readers : Pledged(local[u]) => Pledged(local'[u])
    BY <1>1 DEF Woken, Pledged, Callers
<1> QED BY <1>2, <1>3, <1>4, <1>5, <1>6

(* What InterruptsOwed says, with the names of these proofs. *)
LEMMA Owed ==
    InterruptsOwed <=>
        /\ tx_in # tx_out /\ "WE" \notin irq_enable => \E u \in Writers : local[u].at \in Filling
        /\ "RE" \notin irq_enable /\ NextIn # rx_out => \E u \in Readers : Pledged(local[u])
BY DEF InterruptsOwed, Filling, Pledged

LEMMA OwedNext ==
    InterruptsOwed' <=>
        /\ tx_in' # tx_out' /\ "WE" \notin irq_enable' => \E u \in Writers : local'[u].at \in Filling
        /\ "RE" \notin irq_enable' /\ NextIn' # rx_out' => \E u \in Readers : Pledged(local'[u])
BY DEF InterruptsOwed, Filling, Pledged

LEMMA FifoLength == TypeOK => Len(wfifo) \in Nat /\ Len(rfifo) \in Nat
BY DEF TypeOK

LEMMA IsrControlKeeps ==
    ASSUME UartInv, IsrControl
    PROVE  UartInv'
<1>1. Len(wfifo) \in Nat /\ Len(wfifo) <= TxFifoLen /\ TxFifoLen \in Nat
    BY FifoLength, UartAssumption DEF UartInv, TypeOK
<1>2. isr' \in IsrStates /\ SpaceFits'
    <2>1. CASE RI \/ WI
        <3> DEFINE next == [at |-> IF RI THEN "receive" ELSE "transmit", wi |-> WI,
                            space |-> IF WI THEN TxFifoLen - Len(wfifo) ELSE 0, avail |-> RI]
        <3>1. isr' = next /\ wfifo' = wfifo
            BY <2>1 DEF IsrControl, core
        <3>2. WI \in BOOLEAN /\ RI \in BOOLEAN
            BY DEF WI, RI
        <3>3. next.space \in 0 .. TxFifoLen /\ next.space + Len(wfifo) <= TxFifoLen
            BY <1>1
        <3>4. next \in IsrStates
            BY <3>2, <3>3 DEF IsrStates
        <3> HIDE DEF next
        <3> QED BY <3>1, <3>3, <3>4 DEF SpaceFits
    <2>2. CASE ~(RI \/ WI)
        <3>1. isr' = NoIsr
            BY <2>2 DEF IsrControl
        <3> QED BY <1>1, <3>1 DEF NoIsr, IsrStates, SpaceFits
    <2> QED BY <2>1, <2>2
<1>3. IdleIsClean' /\ CopyFits' /\ LocksHeld' /\ InterruptsOwed'
    BY OthersMove, Owed, OwedNext DEF UartInv, IsrControl, ring, NextIn
<1>4. TypeOK'
    BY <1>2 DEF UartInv, TypeOK, IsrControl, ring, core, stream
<1> QED BY <1>2, <1>3, <1>4 DEF UartInv

LEMMA IsrReceiveKeeps ==
    ASSUME UartInv, IsrReceive
    PROVE  UartInv'
<1>1. Woken /\ local' \in [Callers -> Locals] /\ events' \subseteq Flags
    BY PostWakes DEF IsrReceive, Flags
<1>2. /\ rfifo \in Seq(Bytes) /\ rfifo # <<>>
      /\ rx_in \in Slots /\ rx_buf \in [Slots -> Bytes] /\ Len(rfifo) <= RxFifoLen
    BY DEF UartInv, TypeOK, IsrReceive
<1>3. /\ Head(rfifo) \in Bytes /\ Tail(rfifo) \in Seq(Bytes)
      /\ Len(Tail(rfifo)) <= RxFifoLen
    BY <1>2, UartAssumption
<1>4. rx_in' \in Slots /\ rx_buf' \in [Slots -> Bytes]
    <2>1. rx_in + 1 \in Int
        BY <1>2 DEF Slots
    <2> QED BY <1>2, <1>3, <2>1, PointerType DEF IsrReceive, NextIn
<1>5. isr' \in IsrStates /\ isr'.space = isr.space /\ isr'.at = isr.at
    BY DEF UartInv, TypeOK, IsrReceive, IsrStates
<1>6. SpaceFits'
    BY <1>5 DEF UartInv, SpaceFits, IsrReceive
<1>7. IdleIsClean' /\ CopyFits' /\ LocksHeld' /\ InterruptsOwed'
    BY <1>1, OthersMove, Owed, OwedNext DEF UartInv, IsrReceive
<1>8. TypeOK'
    BY <1>1, <1>3, <1>4, <1>5 DEF UartInv, TypeOK, IsrReceive, stream
<1> QED BY <1>6, <1>7, <1>8 DEF UartInv

LEMMA RoundType == Round \in IsrStates /\ Round.at = "control"
<1>1. 0 \in 0 .. TxFifoLen
    BY UartAssumption
<1> QED BY <1>1 DEF Round, NoIsr, IsrStates

LEMMA IsrReceivedKeeps ==
    ASSUME UartInv, IsrReceived
    PROVE  UartInv'
<1>1. isr' \in IsrStates /\ (isr'.at = "transmit" => isr'.space = isr.space)
      /\ isr'.at \in {"transmit", "control"}
    <2>1. isr \in IsrStates /\ Round \in IsrStates /\ Round.at = "control"
        BY RoundType DEF UartInv, TypeOK
    <2> QED BY <2>1 DEF IsrReceived, IsrStates
<1>2. SpaceFits'
    BY <1>1 DEF UartInv, SpaceFits, IsrReceived, core
<1>3. irq_enable' \subseteq {"RE", "WE"} /\ ("WE" \in irq_enable => "WE" \in irq_enable')
      /\ ("RE" \notin irq_enable' => "RE" \notin irq_enable \/ NextIn = rx_out)
    BY DEF UartInv, TypeOK, IsrReceived
<1>4. IdleIsClean' /\ CopyFits' /\ LocksHeld' /\ InterruptsOwed'
    BY <1>3, OthersMove, Owed, OwedNext DEF UartInv, IsrReceived, ring, NextIn
<1>5. TypeOK'
    BY <1>1, <1>3 DEF UartInv, TypeOK, IsrReceived, ring, core, stream
<1> QED BY <1>2, <1>4, <1>5 DEF UartInv

LEMMA IsrTransmitKeeps ==
    ASSUME UartInv, IsrTransmit
    PROVE  UartInv'
<1>1. Woken /\ local' \in [Callers -> Locals] /\ events' \subseteq Flags
    BY PostWakes DEF IsrTransmit, Flags
<1>2. /\ wfifo \in Seq(Bytes) /\ tx_buf[tx_out] \in Bytes /\ tx_out \in Slots
      /\ isr \in IsrStates /\ isr.space + Len(wfifo) <= TxFifoLen /\ isr.space > 0
      /\ TxFifoLen \in Nat
    BY UartAssumption DEF UartInv, TypeOK, SpaceFits, IsrTransmit
<1>3. isr.space \in 0 .. TxFifoLen
    BY <1>2 DEF IsrStates
<1>4. /\ wfifo' \in Seq(Bytes) /\ Len(wfifo') = Len(wfifo) + 1 /\ Len(wfifo) \in Nat
    BY <1>2 DEF IsrTransmit
<1>5. isr' \in IsrStates /\ isr'.space = isr.space - 1
    <2>1. isr.space - 1 \in 0 .. TxFifoLen
        BY <1>2, <1>3
    <2> QED BY <1>2, <2>1 DEF IsrTransmit, IsrStates
<1>6. SpaceFits' /\ Len(wfifo') <= TxFifoLen
    BY <1>2, <1>3, <1>4, <1>5 DEF SpaceFits
<1>7. tx_out' \in Slots
    <2>1. tx_out + 1 \in Int
        BY <1>2 DEF Slots
    <2> QED BY <2>1, PointerType DEF IsrTransmit
<1>8. IdleIsClean' /\ CopyFits' /\ LocksHeld' /\ InterruptsOwed'
    BY <1>1, OthersMove, Owed, OwedNext DEF UartInv, IsrTransmit, NextIn
<1>9. TypeOK'
    BY <1>1, <1>4, <1>5, <1>6, <1>7 DEF UartInv, TypeOK, IsrTransmit, stream
<1> QED BY <1>6, <1>8, <1>9 DEF UartInv

LEMMA IsrTransmittedKeeps ==
    ASSUME UartInv, IsrTransmitted
    PROVE  UartInv'
<1>1. isr' \in IsrStates /\ isr'.at = "control"
    BY RoundType DEF IsrTransmitted, UartInv
<1>2. SpaceFits'
    BY <1>1 DEF SpaceFits
<1>3. isr.space \in 0 .. TxFifoLen
    BY DEF UartInv, TypeOK, IsrStates
<1>4. irq_enable' \subseteq {"RE", "WE"} /\ ("RE" \in irq_enable => "RE" \in irq_enable')
      /\ ("WE" \notin irq_enable' => "WE" \notin irq_enable \/ tx_in = tx_out)
    BY <1>3 DEF UartInv, TypeOK, IsrTransmitted
<1>5. IdleIsClean' /\ CopyFits' /\ LocksHeld' /\ InterruptsOwed'
    BY <1>4, OthersMove, Owed, OwedNext DEF UartInv, IsrTransmitted, ring, NextIn
<1>6. TypeOK'
    BY <1>1, <1>4 DEF UartInv, TypeOK, IsrTransmitted, ring, core, stream
<1> QED BY <1>2, <1>5, <1>6 DEF UartInv

LEMMA AlarmKeeps ==
    ASSUME UartInv, Alarm
    PROVE  UartInv'
<1>1. host_inactive' \in 0 .. Timeout
    <2>1. host_inactive \in 0 .. Timeout /\ Timeout \in Nat
        BY UartAssumption DEF UartInv, TypeOK
    <2> QED BY <2>1 DEF Alarm, Least
<1>2. ac' \in BOOLEAN
    <2>1. ac \in BOOLEAN
        BY DEF UartInv, TypeOK
    <2>2. ac' = FALSE \/ ac' = ac
        BY DEF Alarm
    <2> QED BY <2>1, <2>2, Zenon
<1>3. \/ UNCHANGED <<events, local>>
      \/ Woken /\ local' \in [Callers -> Locals] /\ events' \subseteq Flags
    BY PostWakes DEF Alarm, Flags
<1>4. IdleIsClean' /\ CopyFits' /\ LocksHeld' /\ InterruptsOwed'
    BY <1>3, OthersMove, Owed, OwedNext DEF UartInv, Alarm, ring, NextIn
<1>5. SpaceFits'
    BY DEF UartInv, SpaceFits, Alarm
<1>6. TypeOK'
    BY <1>1, <1>2, <1>3 DEF UartInv, TypeOK, Alarm, ring, stream
<1> QED BY <1>4, <1>5, <1>6 DEF UartInv

LEMMA HostKeeps ==
    ASSUME UartInv, Host
    PROVE  UartInv'
<1>1. /\ rfifo \in Seq(Bytes) /\ wfifo \in Seq(Bytes) /\ sent \in Bytes /\ got \in Bytes
      /\ Len(rfifo) \in Nat /\ Len(wfifo) \in Nat /\ RxFifoLen \in Nat /\ TxFifoLen \in Nat
      /\ Len(rfifo) <= RxFifoLen /\ Len(wfifo) <= TxFifoLen /\ isr.space \in 0 .. TxFifoLen
    BY UartAssumption DEF UartInv, TypeOK, IsrStates
<1>2. /\ rfifo' \in Seq(Bytes) /\ Len(rfifo') <= RxFifoLen
    <2>1. CASE HostSends
        BY <1>1, <2>1 DEF HostSends
    <2>2. CASE ~HostSends
        BY <1>1, <2>2 DEF Host, HostReceives, HostPolls
    <2> QED BY <2>1, <2>2
<1>3. wfifo' \in Seq(Bytes) /\ Len(wfifo') \in Nat /\ Len(wfifo') <= Len(wfifo)
    <2>1. CASE HostReceives
        BY <1>1, <2>1 DEF HostReceives
    <2>2. CASE ~HostReceives
        BY <1>1, <2>2 DEF Host, HostSends, HostPolls
    <2> QED BY <2>1, <2>2
<1>4. sent' \in Bytes /\ got' \in Bytes /\ taken' = taken /\ given' = given
    <2>1. Later(sent, 1) \in Bytes /\ Later(got, 1) \in Bytes
        <3>1. sent \in Int /\ got \in Int
            BY <1>1 DEF Bytes
        <3> QED BY <3>1, LaterType
    <2> QED BY <1>1, <2>1 DEF Host, HostSends, HostReceives, HostPolls, stream
<1>5. ac' \in BOOLEAN
    <2>1. ac' = TRUE
        BY DEF Host, HostSends, HostReceives, HostPolls
    <2> QED BY <2>1, Zenon
<1>6. UNCHANGED <<ring, irq_enable, host_inactive, read_lock, write_lock, events, local, isr>>
    BY DEF Host, HostSends, HostReceives, HostPolls
<1>7. IdleIsClean' /\ CopyFits' /\ LocksHeld' /\ InterruptsOwed'
    BY <1>6, OthersMove, Owed, OwedNext DEF UartInv, ring, NextIn
<1>8. SpaceFits'
    BY <1>1, <1>3, <1>6 DEF UartInv, SpaceFits
<1>9. TypeOK'
    BY <1>1, <1>2, <1>3, <1>4, <1>5, <1>6 DEF UartInv, TypeOK, ring
<1> QED BY <1>7, <1>8, <1>9 DEF UartInv

-----------------------------------------------------------------------------
LEMMA ReadKeeps ==
    ASSUME UartInv, NEW t \in Readers, Read(t)
    PROVE  UartInv'
<1>1. t \in Callers /\ t \notin Writers
    BY UartAssumption DEF Callers
<1>2. ASSUME ReadEnable(t) PROVE UartInv'
    BY <1>1, <1>2, EnableKeeps DEF ReadEnable, Goes, Steps
<1>3. ASSUME ReadPend(t) PROVE UartInv'
    BY <1>1, <1>3, PendKeeps DEF ReadPend, Goes
<1>4. ASSUME ReadAgain(t) PROVE UartInv'
    BY <1>1, <1>4, GoingKeeps DEF ReadAgain, Goes
<1> QED BY <1>1, <1>2, <1>3, <1>4, CallKeeps, WakeKeeps, ReadLockKeeps, ReadLookKeeps,
           ReadCopyKeeps, ReadAdvanceKeeps, ReadUnlockKeeps DEF Read

LEMMA WriteKeeps ==
    ASSUME UartInv, NEW t \in Writers, Write(t)
    PROVE  UartInv'
<1>1. t \in Callers /\ t \notin Readers
    BY UartAssumption DEF Callers
<1>2. ASSUME WriteEnable(t) PROVE UartInv'
    BY <1>1, <1>2, EnableKeeps DEF WriteEnable, Goes, Steps
<1>3. ASSUME WritePend(t) PROVE UartInv'
    BY <1>1, <1>3, PendKeeps DEF WritePend, Goes
<1>4. ASSUME WriteAgain(t) PROVE UartInv'
    BY <1>1, <1>4, GoingKeeps DEF WriteAgain, Goes
<1> QED BY <1>1, <1>2, <1>3, <1>4, CallKeeps, WakeKeeps, WriteLockKeeps, WriteLookKeeps,
           WriteCopyKeeps, WriteAdvanceKeeps, WriteUnlockKeeps DEF Write

LEMMA StutterKeeps ==
    ASSUME UartInv, UNCHANGED uartVars
    PROVE  UartInv'
<1> USE DEF UartInv, uartVars, ring, core, stream
<1>1. TypeOK'
    BY DEF TypeOK
<1>2. IdleIsClean' /\ CopyFits' /\ SpaceFits' /\ LocksHeld'
    BY DEF IdleIsClean, CopyFits, SpaceFits, LocksHeld
<1>3. InterruptsOwed'
    BY DEF InterruptsOwed, NextIn
<1> QED BY <1>1, <1>2, <1>3

(* The inductive invariant. *)
THEOREM UartInvHolds == Spec => []UartInv
<1>1. Init => UartInv
    BY InitInv
<1>2. UartInv /\ [Next]_uartVars => UartInv'
    BY ReadKeeps, WriteKeeps, IsrControlKeeps, IsrReceiveKeeps, IsrReceivedKeeps,
       IsrTransmitKeeps, IsrTransmittedKeeps, AlarmKeeps, HostKeeps, StutterKeeps
       DEF Next, Isr
<1> QED BY <1>1, <1>2, PTL DEF Spec

(* No byte waits for an interrupt that is off (altera_avalon_jtag_uart_     *)
(* read.c and _write.c turn them on, the interrupt routine turns them off). *)
THEOREM InterruptsAreOwed == Spec => []InterruptsOwed
<1>1. UartInv => InterruptsOwed
    BY DEF UartInv
<1> QED BY <1>1, UartInvHolds, PTL

(* The pointers stay inside the rings and the FIFOs of the core are never  *)
(* overrun, although the room in them is read before it is used.           *)
THEOREM TypesHold == Spec => []TypeOK
<1>1. UartInv => TypeOK
    BY DEF UartInv
<1> QED BY <1>1, UartInvHolds, PTL

(* One task at a time works on a ring (read_lock and write_lock). *)
OneInside ==
    \A S \in {Readers, Writers} : \A t, u \in S :
        local[t].at \in Inside /\ local[u].at \in Inside => t = u

THEOREM OneTaskInside == Spec => []OneInside
<1>1. UartInv => OneInside
    BY DEF UartInv, LocksHeld, OneInside
<1> QED BY <1>1, UartInvHolds, PTL

-----------------------------------------------------------------------------
(* Bytes arrive whole and in order: the refinement of the invariant that   *)
(* this needs.                                                             *)


(* What a task has read of its pointers still holds: the other end of the  *)
(* ring only moves away from it.                                           *)
Copying == {"copy", "advance"}
ReaderPieceHolds ==
    \A t \in Readers : local[t].at \in Copying =>
        local[t].out = rx_out /\ local[t].n <= Held(rx_in, rx_out)
WriterPieceHolds ==
    \A t \in Writers : local[t].at \in Copying =>
        /\ local[t].in = tx_in /\ tx_in + local[t].n <= BUF_LEN
        /\ Held(tx_in, tx_out) + local[t].n < BUF_LEN

ByteInv == UartInv /\ ReaderPieceHolds /\ WriterPieceHolds /\ BytesInOrder

-----------------------------------------------------------------------------
(* Remainders *)

LEMMA ModDef ==
    ASSUME NEW m \in Nat \ {0}, NEW a \in Int
    PROVE  /\ a \div m \in Int /\ a % m \in 0 .. m - 1
           /\ a = m * (a \div m) + (a % m)
BY SMT

LEMMA MultiplesApart ==
    ASSUME NEW m \in Nat \ {0}, NEW p \in Int, NEW q \in Int, p < q
    PROVE  m * p + m <= m * q
<1>1. p + 1 <= q
    OBVIOUS
<1>2. m * (p + 1) <= m * q
    BY <1>1
<1> QED BY <1>2

LEMMA ModUnique ==
    ASSUME NEW m \in Nat \ {0}, NEW a \in Int, NEW q \in Int, NEW r \in 0 .. m - 1,
           a = m * q + r
    PROVE  a % m = r
<1> DEFINE p == a \div m
           s == a % m
<1>1. p \in Int /\ s \in 0 .. m - 1 /\ a = m * p + s /\ m * p \in Int /\ m * q \in Int
    BY ModDef
<1> HIDE DEF p, s
<1>2. p = q
    BY <1>1, MultiplesApart
<1>3. s = r
    BY <1>1, <1>2
<1> QED BY <1>3 DEF s

(* A remainder may be taken before or after the addition. *)
LEMMA ModSum ==
    ASSUME NEW m \in Nat \ {0}, NEW a \in Int, NEW b \in Int
    PROVE  ((a % m) + b) % m = (a + b) % m
<1> DEFINE p == a \div m
           s == a % m
           t == (s + b) % m
           u == (s + b) \div m
<1>1. p \in Int /\ s \in 0 .. m - 1 /\ a = m * p + s
    BY ModDef
<1>2. t \in 0 .. m - 1 /\ u \in Int /\ s + b = m * u + t
    BY <1>1, ModDef, SMTT(30)
<1> HIDE DEF p, s, t, u
<1>3. m * p \in Int /\ m * u \in Int /\ m * (p + u) = m * p + m * u /\ p + u \in Int
    BY <1>1, <1>2
<1>4. a + b \in Int /\ a + b = m * (p + u) + t
    BY <1>1, <1>2, <1>3
<1> DEFINE c == a + b
           q == p + u
<1>5. c % m = t
    <2>1. c \in Int /\ q \in Int /\ c = m * q + t /\ t \in 0 .. m - 1
        BY <1>2, <1>3, <1>4
    <2> HIDE DEF c, q
    <2> QED BY <2>1, ModUnique
<1> QED BY <1>5 DEF t, s

LEMMA ModSmall ==
    ASSUME NEW m \in Nat \ {0}, NEW a \in 0 .. m - 1
    PROVE  a % m = a
BY SMT

LEMMA ModOver ==
    ASSUME NEW m \in Nat \ {0}, NEW a \in m .. 2 * m - 1
    PROVE  a % m = a - m
BY SMT

LEMMA LaterSum ==
    ASSUME NEW k \in Int, NEW a \in Int, NEW b \in Int
    PROVE  Later(Later(k, a), b) = Later(k, a + b)
<1> DEFINE c == k + a
<1>1. ((c % Modulus) + b) % Modulus = (c + b) % Modulus
    <2>1. c \in Int /\ Modulus \in Nat \ {0}
        BY UartAssumption
    <2> HIDE DEF c
    <2> QED BY <2>1, ModSum
<1>2. (k + a) + b = k + (a + b)
    OBVIOUS
<1> QED BY <1>1, <1>2 DEF Later

-----------------------------------------------------------------------------
(* Rings *)

LEMMA SlotRange ==
    /\ BUF_LEN \in Nat \ {0} /\ BUF_LEN > 1
    /\ \A i \in Slots : i \in 0 .. BUF_LEN - 1
BY UartAssumption DEF Slots

LEMMA HeldIs ==
    ASSUME NEW i \in Slots, NEW o \in Slots
    PROVE  /\ Held(i, o) \in 0 .. BUF_LEN - 1
           /\ Held(i, o) = IF i >= o THEN i - o ELSE i - o + BUF_LEN
<1> DEFINE d == i - o + BUF_LEN
<1>1. /\ BUF_LEN \in Nat \ {0} /\ i \in 0 .. BUF_LEN - 1 /\ o \in 0 .. BUF_LEN - 1
    BY SlotRange
<1>2. CASE i >= o
    <2>1. d \in BUF_LEN .. 2 * BUF_LEN - 1 /\ d - BUF_LEN = i - o
        BY <1>1, <1>2
    <2> HIDE DEF d
    <2>2. d % BUF_LEN = d - BUF_LEN
        BY <1>1, <2>1, ModOver
    <2> QED BY <1>1, <1>2, <2>1, <2>2 DEF Held, d
<1>3. CASE ~(i >= o)
    <2>1. d \in 0 .. BUF_LEN - 1
        BY <1>1, <1>3
    <2> HIDE DEF d
    <2>2. d % BUF_LEN = d
        BY <1>1, <2>1, ModSmall
    <2> QED BY <1>1, <1>3, <2>1, <2>2 DEF Held, d
<1> QED BY <1>2, <1>3

(* A slot counted from another: at most one turn. *)
LEMMA SlotIs ==
    ASSUME NEW o \in Slots, NEW k \in 0 .. BUF_LEN
    PROVE  /\ (o + k) % BUF_LEN \in Slots
           /\ (o + k) % BUF_LEN = IF o + k < BUF_LEN THEN o + k ELSE o + k - BUF_LEN
<1> DEFINE a == o + k
<1>1. /\ BUF_LEN \in Nat \ {0} /\ o \in 0 .. BUF_LEN - 1 /\ a \in 0 .. 2 * BUF_LEN - 1
    BY SlotRange
<1>2. CASE a < BUF_LEN
    <2> HIDE DEF a
    <2>1. a % BUF_LEN = a
        BY <1>1, <1>2, ModSmall
    <2> QED BY <1>1, <1>2, <2>1 DEF a, Slots
<1>3. CASE ~(a < BUF_LEN)
    <2> HIDE DEF a
    <2>1. a \in BUF_LEN .. 2 * BUF_LEN - 1
        BY <1>1, <1>3
    <2>2. a % BUF_LEN = a - BUF_LEN
        BY <1>1, <2>1, ModOver
    <2> QED BY <1>1, <1>3, <2>2 DEF a, Slots
<1> QED BY <1>2, <1>3

(* The bytes held end where the next goes. *)
LEMMA HeldEnds ==
    ASSUME NEW i \in Slots, NEW o \in Slots
    PROVE  (o + Held(i, o)) % BUF_LEN = i
<1> DEFINE h == Held(i, o)
<1>1. /\ h \in 0 .. BUF_LEN - 1 /\ h = IF i >= o THEN i - o ELSE i - o + BUF_LEN
      /\ BUF_LEN \in Nat \ {0} /\ i \in 0 .. BUF_LEN - 1 /\ o \in 0 .. BUF_LEN - 1
    BY HeldIs, SlotRange
<1> HIDE DEF h
<1>2. h \in 0 .. BUF_LEN
    BY <1>1
<1>3. (o + h) % BUF_LEN = IF o + h < BUF_LEN THEN o + h ELSE o + h - BUF_LEN
    BY <1>2, SlotIs
<1> QED BY <1>1, <1>3 DEF h

LEMMA TakenOut ==
    ASSUME NEW i \in Slots, NEW o \in Slots, NEW n \in 0 .. Held(i, o)
    PROVE  Held(i, (o + n) % BUF_LEN) = Held(i, o) - n
<1> DEFINE h == Held(i, o)
           p == (o + n) % BUF_LEN
           g == Held(i, p)
<1>1. /\ h \in 0 .. BUF_LEN - 1 /\ h = IF i >= o THEN i - o ELSE i - o + BUF_LEN
      /\ BUF_LEN \in Nat \ {0} /\ i \in 0 .. BUF_LEN - 1 /\ o \in 0 .. BUF_LEN - 1
      /\ n \in 0 .. h
    BY HeldIs, SlotRange
<1>2. /\ n \in 0 .. BUF_LEN
    BY <1>1
<1>3. p \in Slots /\ p = IF o + n < BUF_LEN THEN o + n ELSE o + n - BUF_LEN
    BY <1>2, SlotIs
<1>4. g = IF i >= p THEN i - p ELSE i - p + BUF_LEN
    BY <1>3, HeldIs
<1> HIDE DEF h, p, g
<1>5. g = h - n
    BY <1>1, <1>2, <1>3, <1>4
<1> QED BY <1>5 DEF h, p, g

LEMMA PutIn ==
    ASSUME NEW i \in Slots, NEW o \in Slots, NEW n \in Nat, Held(i, o) + n < BUF_LEN
    PROVE  (i + n) % BUF_LEN \in Slots /\ Held((i + n) % BUF_LEN, o) = Held(i, o) + n
<1> DEFINE h == Held(i, o)
           p == (i + n) % BUF_LEN
           g == Held(p, o)
<1>1. /\ h \in 0 .. BUF_LEN - 1 /\ h = IF i >= o THEN i - o ELSE i - o + BUF_LEN
      /\ BUF_LEN \in Nat \ {0} /\ i \in 0 .. BUF_LEN - 1 /\ o \in 0 .. BUF_LEN - 1
      /\ h + n < BUF_LEN
    BY HeldIs, SlotRange
<1>2. /\ n \in 0 .. BUF_LEN
    BY <1>1
<1>3. p \in Slots /\ p = IF i + n < BUF_LEN THEN i + n ELSE i + n - BUF_LEN
    BY <1>2, SlotIs
<1>4. g = IF p >= o THEN p - o ELSE p - o + BUF_LEN
    BY <1>3, HeldIs
<1>6. p \in 0 .. BUF_LEN - 1
    BY <1>3, SlotRange
<1> HIDE DEF h, p, g
<1>5. g = h + n
    BY <1>1, <1>2, <1>3, <1>4, <1>6
<1> QED BY <1>3, <1>5 DEF h, p, g

(* A full ring is one slot short of empty. *)
LEMMA NotFull ==
    ASSUME NEW i \in Slots, NEW o \in Slots, (i + 1) % BUF_LEN # o
    PROVE  Held(i, o) + 1 < BUF_LEN
<1>1. /\ Held(i, o) \in 0 .. BUF_LEN - 1
      /\ Held(i, o) = IF i >= o THEN i - o ELSE i - o + BUF_LEN
      /\ BUF_LEN \in Nat \ {0} /\ BUF_LEN > 1 /\ i \in 0 .. BUF_LEN - 1 /\ o \in 0 .. BUF_LEN - 1
    BY HeldIs, SlotRange
<1>2. 1 \in 0 .. BUF_LEN
    BY <1>1
<1>3. (i + 1) % BUF_LEN = IF i + 1 < BUF_LEN THEN i + 1 ELSE i + 1 - BUF_LEN
    BY <1>2, SlotIs
<1> QED BY <1>1, <1>3

(* What lies or is free in one piece is part of what is held or free. *)
LEMMA PiecesAreParts ==
    ASSUME TypeOK
    PROVE  /\ InOnePiece <= Held(rx_in, rx_out)
           /\ Held(tx_in, tx_out) + RoomInOnePiece < BUF_LEN
           /\ tx_in + RoomInOnePiece <= BUF_LEN
<1>1. rx_in \in Slots /\ rx_out \in Slots /\ tx_in \in Slots /\ tx_out \in Slots
    BY DEF TypeOK
<1>2. /\ Held(rx_in, rx_out) = IF rx_in >= rx_out THEN rx_in - rx_out
                                                  ELSE rx_in - rx_out + BUF_LEN
      /\ Held(tx_in, tx_out) = IF tx_in >= tx_out THEN tx_in - tx_out
                                                  ELSE tx_in - tx_out + BUF_LEN
    BY <1>1, HeldIs
<1>3. /\ rx_in \in 0 .. BUF_LEN - 1 /\ rx_out \in 0 .. BUF_LEN - 1
      /\ tx_in \in 0 .. BUF_LEN - 1 /\ tx_out \in 0 .. BUF_LEN - 1 /\ BUF_LEN \in Nat
    BY <1>1, SlotRange
<1> QED BY <1>2, <1>3 DEF InOnePiece, RoomInOnePiece

-----------------------------------------------------------------------------
(* The streams *)

(* b: ring, o: its end, h: bytes held, c: of these copied, f: FIFO, k and  *)
(* s: the bytes taken and sent.                                            *)
Received(b, o, h, c, f, k, s) ==
    /\ \A j \in c .. h - 1 : b[(o + j) % BUF_LEN] = Later(k, j - c)
    /\ \A j \in DOMAIN f : f[j] = Later(k, h - c + j - 1)
    /\ s = Later(k, h - c + Len(f))

LEMMA ReceivedCopied ==
    ASSUME NEW b, NEW o, NEW h \in Nat, NEW n \in 0 .. h, NEW f \in Seq(Bytes),
           NEW k \in Bytes, NEW s, Received(b, o, h, 0, f, k, s)
    PROVE  Received(b, o, h, n, f, Later(k, n), s)
<1>1. k \in Int /\ n \in Int /\ Len(f) \in Nat /\ DOMAIN f = 1 .. Len(f)
    BY UartAssumption DEF Bytes
<1>2. \A a \in Int : Later(Later(k, n), a) = Later(k, n + a)
    BY <1>1, LaterSum
<1>3. ASSUME NEW j \in n .. h - 1
      PROVE  b[(o + j) % BUF_LEN] = Later(Later(k, n), j - n)
    <2>1. j \in 0 .. h - 1 /\ j - 0 = j /\ n + (j - n) = j /\ j - n \in Int
        BY <1>1
    <2> QED BY <1>2, <2>1 DEF Received
<1>4. ASSUME NEW j \in DOMAIN f
      PROVE  f[j] = Later(Later(k, n), h - n + j - 1)
    <2>1. h - n + j - 1 \in Int /\ n + (h - n + j - 1) = h - 0 + j - 1
        BY <1>1
    <2> QED BY <1>2, <2>1 DEF Received
<1>5. s = Later(Later(k, n), h - n + Len(f))
    <2>1. h - n + Len(f) \in Int /\ n + (h - n + Len(f)) = h - 0 + Len(f)
        BY <1>1
    <2> QED BY <1>2, <2>1 DEF Received
<1> QED BY <1>3, <1>4, <1>5 DEF Received

LEMMA ReceivedAdvanced ==
    ASSUME NEW b, NEW o \in Slots, NEW h \in 0 .. BUF_LEN - 1, NEW n \in 0 .. h,
           NEW f \in Seq(Bytes), NEW k \in Bytes, NEW s, Received(b, o, h, n, f, k, s)
    PROVE  Received(b, (o + n) % BUF_LEN, h - n, 0, f, k, s)
<1>1. /\ k \in Int /\ n \in Int /\ h \in Int /\ Len(f) \in Nat /\ DOMAIN f = 1 .. Len(f)
      /\ o \in Int /\ BUF_LEN \in Nat \ {0}
    BY UartAssumption DEF Bytes, Slots
<1>2. ASSUME NEW j \in 0 .. h - n - 1
      PROVE  b[(((o + n) % BUF_LEN) + j) % BUF_LEN] = Later(k, j - 0)
    <2>1. j + n \in n .. h - 1 /\ (j + n) - n = j - 0 /\ j \in Int
        BY <1>1
    <2> DEFINE a == o + n
    <2>2. ((a % BUF_LEN) + j) % BUF_LEN = (a + j) % BUF_LEN
        <3>1. a \in Int
            BY <1>1
        <3> HIDE DEF a
        <3> QED BY <1>1, <2>1, <3>1, ModSum
    <2>3. a + j = o + (j + n)
        BY <1>1, <2>1
    <2>4. b[(o + (j + n)) % BUF_LEN] = Later(k, (j + n) - n)
        BY <2>1 DEF Received
    <2> QED BY <2>1, <2>2, <2>3, <2>4
<1>3. \A j \in DOMAIN f : f[j] = Later(k, h - n - 0 + j - 1)
    BY <1>1 DEF Received
<1>4. s = Later(k, h - n - 0 + Len(f))
    BY <1>1 DEF Received
<1> QED BY <1>2, <1>3, <1>4 DEF Received

LEMMA ReceivedByte ==
    ASSUME NEW b \in [Slots -> Bytes], NEW o \in Slots, NEW h \in Nat, h + 1 < BUF_LEN,
           NEW c \in 0 .. h, NEW f \in Seq(Bytes), f # <<>>, NEW k \in Bytes, NEW s,
           Received(b, o, h, c, f, k, s)
    PROVE  Received([b EXCEPT ![(o + h) % BUF_LEN] = Head(f)], o, h + 1, c, Tail(f), k, s)
<1> DEFINE i == (o + h) % BUF_LEN
           d == [b EXCEPT ![i] = Head(f)]
<1>1. /\ Len(f) \in Nat \ {0} /\ DOMAIN f = 1 .. Len(f) /\ o \in 0 .. BUF_LEN - 1
      /\ Head(f) = f[1] /\ Len(Tail(f)) = Len(f) - 1
      /\ \A j \in 1 .. Len(f) - 1 : Tail(f)[j] = f[j + 1]
      /\ DOMAIN Tail(f) = 1 .. Len(f) - 1 /\ BUF_LEN \in Nat
    BY UartAssumption DEF Slots
<1>2. h \in 0 .. BUF_LEN
    BY <1>1
<1>3. i \in Slots /\ i = IF o + h < BUF_LEN THEN o + h ELSE o + h - BUF_LEN
    BY <1>2, SlotIs
<1>4. d[i] = Head(f) /\ \A j \in Slots : j # i => d[j] = b[j]
    BY <1>3
<1>5. Head(f) = Later(k, h - c)
    <2>1. h - c + 1 - 1 = h - c /\ 1 \in DOMAIN f
        BY <1>1
    <2> QED BY <1>1, <2>1 DEF Received
<1> HIDE DEF d
<1>6. ASSUME NEW j \in c .. h + 1 - 1
      PROVE  d[(o + j) % BUF_LEN] = Later(k, j - c)
    <2>1. CASE j = h
        BY <1>4, <1>5, <2>1
    <2>2. CASE j # h
        <3>1. j \in c .. h - 1 /\ j \in 0 .. BUF_LEN /\ j < h
            BY <1>1, <2>2
        <3> DEFINE p == (o + j) % BUF_LEN
        <3>2. p \in Slots /\ p = IF o + j < BUF_LEN THEN o + j ELSE o + j - BUF_LEN
            BY <3>1, SlotIs
        <3>3. b[p] = Later(k, j - c)
            BY <3>1 DEF Received
        <3> HIDE DEF p, i
        <3>4. p # i
            BY <1>1, <1>3, <3>1, <3>2
        <3>5. d[p] = Later(k, j - c)
            BY <1>4, <3>2, <3>3, <3>4
        <3> QED BY <3>5 DEF p
    <2> QED BY <2>1, <2>2
<1>7. ASSUME NEW j \in DOMAIN Tail(f)
      PROVE  Tail(f)[j] = Later(k, h + 1 - c + j - 1)
    <2>1. j + 1 \in DOMAIN f /\ h - c + (j + 1) - 1 = h + 1 - c + j - 1
        BY <1>1
    <2>2. f[j + 1] = Later(k, h - c + (j + 1) - 1)
        BY <2>1 DEF Received
    <2> QED BY <1>1, <2>1, <2>2
<1>8. s = Later(k, h + 1 - c + Len(Tail(f)))
    <2>1. h - c + Len(f) = h + 1 - c + Len(Tail(f))
        BY <1>1
    <2> QED BY <2>1 DEF Received
<1>9. Received(d, o, h + 1, c, Tail(f), k, s)
    BY <1>6, <1>7, <1>8 DEF Received
<1> QED BY <1>9 DEF d

LEMMA ReceivedFromHost ==
    ASSUME NEW b, NEW o, NEW h \in Nat, NEW c \in 0 .. h, NEW f \in Seq(Bytes),
           NEW k \in Bytes, NEW s \in Bytes, Received(b, o, h, c, f, k, s)
    PROVE  Received(b, o, h, c, Append(f, s), k, Later(s, 1))
<1> DEFINE g == Append(f, s)
<1>1. /\ Len(f) \in Nat /\ DOMAIN f = 1 .. Len(f) /\ k \in Int /\ h - c + Len(f) \in Int
      /\ DOMAIN g = 1 .. Len(f) + 1 /\ Len(g) = Len(f) + 1 /\ g[Len(f) + 1] = s
      /\ \A j \in 1 .. Len(f) : g[j] = f[j]
    BY UartAssumption DEF Bytes
<1> HIDE DEF g
<1>2. ASSUME NEW j \in DOMAIN g
      PROVE  g[j] = Later(k, h - c + j - 1)
    <2>1. CASE j = Len(f) + 1
        <3>1. h - c + Len(f) = h - c + j - 1
            BY <1>1, <2>1
        <3> QED BY <1>1, <2>1, <3>1 DEF Received
    <2>2. CASE j # Len(f) + 1
        <3>1. j \in 1 .. Len(f)
            BY <1>1, <2>2
        <3> QED BY <1>1, <3>1 DEF Received
    <2> QED BY <2>1, <2>2
<1>3. Later(s, 1) = Later(k, h - c + Len(g))
    <2>1. h - c + Len(g) = (h - c + Len(f)) + 1
        BY <1>1
    <2>2. s = Later(k, h - c + Len(f))
        BY DEF Received
    <2> QED BY <1>1, <2>1, <2>2, LaterSum
<1>4. \A j \in c .. h - 1 : b[(o + j) % BUF_LEN] = Later(k, j - c)
    BY DEF Received
<1>5. Received(b, o, h, c, g, k, Later(s, 1))
    BY <1>2, <1>3, <1>4 DEF Received
<1> QED BY <1>5 DEF g

(* f: FIFO, h: bytes given that the FIFO has not, k and s: bytes that the  *)
(* host got and that were given.                                           *)
Sent(b, o, h, f, k, s) ==
    /\ \A j \in 1 .. Len(f) : f[j] = Later(k, j - 1)
    /\ \A j \in 0 .. h - 1 : b[(o + j) % BUF_LEN] = Later(k, Len(f) + j)
    /\ s = Later(k, Len(f) + h)

LEMMA SentCopied ==
    ASSUME NEW b \in [Slots -> Bytes], NEW i \in Slots, NEW o \in Slots, NEW n \in Nat,
           Held(i, o) + n < BUF_LEN, i + n <= BUF_LEN,
           NEW f \in Seq(Bytes), NEW k \in Bytes, NEW s \in Bytes,
           Sent(b, o, Held(i, o), f, k, s)
    PROVE  Sent([j \in Slots |-> IF j \in i .. i + n - 1 THEN Later(s, j - i) ELSE b[j]],
                o, Held(i, o) + n, f, k, Later(s, n))
<1> DEFINE h == Held(i, o)
           d == [j \in Slots |-> IF j \in i .. i + n - 1 THEN Later(s, j - i) ELSE b[j]]
<1>1. /\ h \in 0 .. BUF_LEN - 1 /\ h = IF i >= o THEN i - o ELSE i - o + BUF_LEN
      /\ BUF_LEN \in Nat /\ i \in 0 .. BUF_LEN - 1 /\ o \in 0 .. BUF_LEN - 1
      /\ h + n < BUF_LEN /\ Sent(b, o, h, f, k, s) /\ Len(f) \in Nat /\ k \in Int
    BY HeldIs, SlotRange DEF Bytes
<1>2. \A j \in Slots : d[j] = IF j \in i .. i + n - 1 THEN Later(s, j - i) ELSE b[j]
    OBVIOUS
<1> HIDE DEF d, h
<1>3. s = Later(k, Len(f) + h)
    BY <1>1 DEF Sent
<1>4. ASSUME NEW j \in 0 .. h + n - 1
      PROVE  d[(o + j) % BUF_LEN] = Later(k, Len(f) + j)
    <2> DEFINE p == (o + j) % BUF_LEN
    <2>1. j \in 0 .. BUF_LEN
        BY <1>1
    <2>2. p \in Slots /\ p = IF o + j < BUF_LEN THEN o + j ELSE o + j - BUF_LEN
        BY <2>1, SlotIs
    <2>3. CASE j < h
        <3>1. b[p] = Later(k, Len(f) + j)
            <4>1. j \in 0 .. h - 1
                BY <1>1, <2>3
            <4> QED BY <1>1, <4>1 DEF Sent
        <3> HIDE DEF p
        <3>2. p \notin i .. i + n - 1
            BY <1>1, <2>2, <2>3
        <3>3. d[p] = Later(k, Len(f) + j)
            BY <1>2, <2>2, <3>1, <3>2
        <3> QED BY <3>3 DEF p
    <2>4. CASE ~(j < h)
        <3> HIDE DEF p
        <3>1. p = i + (j - h) /\ p \in i .. i + n - 1 /\ p - i = j - h
            BY <1>1, <2>2, <2>4
        <3>2. d[p] = Later(s, j - h)
            BY <1>2, <2>2, <3>1
        <3>3. Later(s, j - h) = Later(k, (Len(f) + h) + (j - h))
            <4>1. Len(f) + h \in Int /\ j - h \in Int
                BY <1>1
            <4> QED BY <1>1, <1>3, <4>1, LaterSum, ZenonT(40)
        <3>4. (Len(f) + h) + (j - h) = Len(f) + j
            BY <1>1
        <3>5. d[p] = Later(k, Len(f) + j)
            BY <3>2, <3>3, <3>4
        <3> QED BY <3>5 DEF p
    <2> QED BY <2>3, <2>4
<1>5. Later(s, n) = Later(k, Len(f) + (h + n))
    <2>1. Len(f) + h \in Int /\ n \in Int /\ (Len(f) + h) + n = Len(f) + (h + n)
        BY <1>1
    <2>2. Later(Later(k, Len(f) + h), n) = Later(k, (Len(f) + h) + n)
        BY <1>1, <2>1, LaterSum
    <2> QED BY <1>3, <2>1, <2>2
<1>6. Sent(d, o, h + n, f, k, Later(s, n))
    BY <1>1, <1>4, <1>5 DEF Sent
<1> QED BY <1>6 DEF d, h

LEMMA SentByte ==
    ASSUME NEW b \in [Slots -> Bytes], NEW o \in Slots, NEW h \in Nat \ {0},
           NEW f \in Seq(Bytes), NEW k \in Bytes, NEW s, Sent(b, o, h, f, k, s)
    PROVE  Sent(b, (o + 1) % BUF_LEN, h - 1, Append(f, b[o]), k, s)
<1> DEFINE g == Append(f, b[o])
<1>1. /\ Len(f) \in Nat /\ Len(g) = Len(f) + 1 /\ g[Len(f) + 1] = b[o]
      /\ \A j \in 1 .. Len(f) : g[j] = f[j]
    OBVIOUS
<1>2. o \in 0 .. BUF_LEN - 1 /\ BUF_LEN \in Nat \ {0}
    BY SlotRange
<1> HIDE DEF g
<1>3. b[o] = Later(k, Len(f))
    <2>1. o + 0 = o /\ 0 \in 0 .. h - 1 /\ Len(f) + 0 = Len(f)
        BY <1>1, <1>2
    <2>3. o % BUF_LEN = o
        BY <1>2, ModSmall
    <2>2. b[(o + 0) % BUF_LEN] = Later(k, Len(f) + 0)
        BY <2>1 DEF Sent
    <2> QED BY <2>1, <2>2, <2>3
<1>4. ASSUME NEW j \in 1 .. Len(g)
      PROVE  g[j] = Later(k, j - 1)
    <2>1. CASE j = Len(f) + 1
        <3>1. j - 1 = Len(f)
            BY <1>1, <2>1
        <3> QED BY <1>1, <1>3, <2>1, <3>1
    <2>2. CASE j # Len(f) + 1
        <3>1. j \in 1 .. Len(f)
            BY <1>1, <2>2
        <3> QED BY <1>1, <3>1 DEF Sent
    <2> QED BY <2>1, <2>2
<1>5. ASSUME NEW j \in 0 .. h - 1 - 1
      PROVE  b[(((o + 1) % BUF_LEN) + j) % BUF_LEN] = Later(k, Len(g) + j)
    <2> DEFINE a == o + 1
    <2>1. a \in Int /\ j \in Int /\ a + j = o + (j + 1) /\ j + 1 \in 0 .. h - 1
        BY <1>2
    <2>2. ((a % BUF_LEN) + j) % BUF_LEN = (a + j) % BUF_LEN
        <3> HIDE DEF a
        <3> QED BY <1>2, <2>1, ModSum
    <2>3. b[(o + (j + 1)) % BUF_LEN] = Later(k, Len(f) + (j + 1))
        BY <2>1 DEF Sent
    <2>4. Len(f) + (j + 1) = Len(g) + j
        BY <1>1
    <2> QED BY <2>1, <2>2, <2>3, <2>4
<1>6. s = Later(k, Len(g) + (h - 1))
    <2>1. Len(g) + (h - 1) = Len(f) + h
        BY <1>1
    <2> QED BY <2>1 DEF Sent
<1>7. Sent(b, (o + 1) % BUF_LEN, h - 1, g, k, s)
    BY <1>4, <1>5, <1>6 DEF Sent
<1> QED BY <1>7 DEF g

LEMMA SentToHost ==
    ASSUME NEW b, NEW o, NEW h \in Nat, NEW f \in Seq(Bytes), f # <<>>,
           NEW k \in Bytes, NEW s, Sent(b, o, h, f, k, s)
    PROVE  Sent(b, o, h, Tail(f), Later(k, 1), s)
<1>1. /\ Len(f) \in Nat \ {0} /\ Len(Tail(f)) = Len(f) - 1 /\ k \in Int
      /\ \A j \in 1 .. Len(f) - 1 : Tail(f)[j] = f[j + 1]
    BY UartAssumption DEF Bytes
<1>2. \A a \in Int : Later(Later(k, 1), a) = Later(k, 1 + a)
    BY <1>1, LaterSum
<1>3. ASSUME NEW j \in 1 .. Len(Tail(f))
      PROVE  Tail(f)[j] = Later(Later(k, 1), j - 1)
    <2>1. j + 1 \in 1 .. Len(f) /\ 1 + (j - 1) = (j + 1) - 1 /\ j - 1 \in Int
        BY <1>1
    <2>2. f[j + 1] = Later(k, (j + 1) - 1)
        BY <2>1 DEF Sent
    <2> QED BY <1>1, <1>2, <2>1, <2>2
<1>4. ASSUME NEW j \in 0 .. h - 1
      PROVE  b[(o + j) % BUF_LEN] = Later(Later(k, 1), Len(Tail(f)) + j)
    <2>1. Len(Tail(f)) + j \in Int /\ 1 + (Len(Tail(f)) + j) = Len(f) + j
        BY <1>1
    <2> QED BY <1>2, <2>1 DEF Sent
<1>5. s = Later(Later(k, 1), Len(Tail(f)) + h)
    <2>1. Len(Tail(f)) + h \in Int /\ 1 + (Len(Tail(f)) + h) = Len(f) + h
        BY <1>1
    <2> QED BY <1>2, <2>1 DEF Sent
<1> QED BY <1>3, <1>4, <1>5 DEF Sent

-----------------------------------------------------------------------------
(* The invariant in these terms, before and after a step *)

LEMMA ReceivedNow ==
    ReceivedInOrder <=>
        Received(rx_buf, rx_out, Held(rx_in, rx_out), Copied(Readers), rfifo, taken, sent)
BY DEF ReceivedInOrder, Received

LEMMA ReceivedNext ==
    ReceivedInOrder' <=>
        Received(rx_buf', rx_out', Held(rx_in', rx_out'), Copied(Readers)', rfifo', taken', sent')
BY DEF ReceivedInOrder, Received, Held

LEMMA SentNow ==
    SentInOrder <=>
        Sent(tx_buf, tx_out, Held(tx_in, tx_out) + Copied(Writers), wfifo, got, given)
BY DEF SentInOrder, Sent

LEMMA SentNext ==
    SentInOrder' <=>
        Sent(tx_buf', tx_out', Held(tx_in', tx_out') + Copied(Writers)', wfifo', got', given')
BY DEF SentInOrder, Sent, Held

(* The one that has copied is the one inside. *)
LEMMA CopiedIs ==
    ASSUME LocksHeld, NEW S \in {Readers, Writers}
    PROVE  /\ \A t \in S : local[t].at = "advance" => Copied(S) = local[t].n
           /\ (\A t \in S : local[t].at # "advance") => Copied(S) = 0
<1>1. ASSUME NEW t \in S, local[t].at = "advance"
      PROVE  Copied(S) = local[t].n
    <2> DEFINE u == CHOOSE v \in S : local[v].at = "advance"
    <2>1. u \in S /\ local[u].at = "advance"
        BY <1>1
    <2> HIDE DEF u
    <2>2. u = t
        BY <1>1, <2>1 DEF LocksHeld, Inside
    <2> QED BY <1>1, <2>2 DEF Copied, u
<1>2. (\A t \in S : local[t].at # "advance") => Copied(S) = 0
    BY DEF Copied
<1> QED BY <1>1, <1>2

LEMMA CopiedIsNext ==
    ASSUME LocksHeld', NEW S \in {Readers, Writers}
    PROVE  /\ \A t \in S : local'[t].at = "advance" => Copied(S)' = local'[t].n
           /\ (\A t \in S : local'[t].at # "advance") => Copied(S)' = 0
<1>1. ASSUME NEW t \in S, local'[t].at = "advance"
      PROVE  Copied(S)' = local'[t].n
    <2>1. PICK u \in S : /\ local'[u].at = "advance" 
                         /\ u = CHOOSE v \in S : local'[v].at = "advance"
        BY <1>1
    <2>2. u = t
        BY <1>1, <2>1 DEF LocksHeld, Inside
    <2> QED BY <1>1, <2>1, <2>2 DEF Copied
<1>2. (\A t \in S : local'[t].at # "advance") => Copied(S)' = 0
    BY DEF Copied
<1> QED BY <1>1, <1>2

LEMMA CopiedRange ==
    ASSUME ByteInv
    PROVE  /\ Copied(Readers) \in 0 .. Held(rx_in, rx_out)
           /\ Copied(Writers) \in Nat /\ Held(tx_in, tx_out) + Copied(Writers) < BUF_LEN
<1>1. /\ Held(rx_in, rx_out) \in 0 .. BUF_LEN - 1 /\ Held(tx_in, tx_out) \in 0 .. BUF_LEN - 1
      /\ \A t \in Callers : local[t].n \in 0 .. BUF_LEN
    BY HeldIs DEF ByteInv, UartInv, TypeOK, Locals
<1>2. LocksHeld /\ BUF_LEN \in Nat
    BY UartAssumption DEF ByteInv, UartInv
<1>3. Copied(Readers) \in 0 .. Held(rx_in, rx_out)
    <2>1. CASE \E t \in Readers : local[t].at = "advance"
        <3>1. PICK t \in Readers : local[t].at = "advance"
            BY <2>1
        <3>2. Copied(Readers) = local[t].n
            BY <1>2, <3>1, CopiedIs
        <3>3. local[t].n \in 0 .. BUF_LEN /\ local[t].n <= Held(rx_in, rx_out)
            BY <1>1, <3>1 DEF ByteInv, ReaderPieceHolds, Copying, Callers
        <3> QED BY <1>1, <1>2, <3>2, <3>3
    <2>2. CASE ~(\E t \in Readers : local[t].at = "advance")
        <3>1. Copied(Readers) = 0
            BY <1>2, <2>2, CopiedIs
        <3> QED BY <1>1, <1>2, <3>1
    <2> QED BY <2>1, <2>2
<1>4. Copied(Writers) \in Nat /\ Held(tx_in, tx_out) + Copied(Writers) < BUF_LEN
    <2>1. CASE \E t \in Writers : local[t].at = "advance"
        <3>1. PICK t \in Writers : local[t].at = "advance"
            BY <2>1
        <3>2. Copied(Writers) = local[t].n
            BY <1>2, <3>1, CopiedIs
        <3>3. local[t].n \in 0 .. BUF_LEN /\ Held(tx_in, tx_out) + local[t].n < BUF_LEN
            BY <1>1, <3>1 DEF ByteInv, WriterPieceHolds, Copying, Callers
        <3> QED BY <1>2, <3>2, <3>3
    <2>2. CASE ~(\E t \in Writers : local[t].at = "advance")
        <3>1. Copied(Writers) = 0
            BY <1>2, <2>2, CopiedIs
        <3> QED BY <1>1, <1>2, <3>1
    <2> QED BY <2>1, <2>2
<1> QED BY <1>3, <1>4

-----------------------------------------------------------------------------
(* Steps that leave a side as it is *)

(* Who is copying goes on as it was, and nobody begins to. *)
Same(S) ==
    \A u \in S : local'[u].at \in Copying \/ local[u].at \in Copying =>
        /\ local'[u].at = local[u].at
        /\ local'[u].in = local[u].in /\ local'[u].out = local[u].out /\ local'[u].n = local[u].n

LEMMA CopiedSame ==
    ASSUME LocksHeld, LocksHeld', NEW S \in {Readers, Writers}, Same(S)
    PROVE  Copied(S)' = Copied(S)
<1>1. CASE \E t \in S : local[t].at = "advance"
    <2>1. PICK t \in S : local[t].at = "advance"
        BY <1>1
    <2>2. local'[t].at = "advance" /\ local'[t].n = local[t].n
        BY <2>1 DEF Same, Copying
    <2> QED BY <2>1, <2>2, CopiedIs, CopiedIsNext
<1>2. CASE ~(\E t \in S : local[t].at = "advance")
    <2>1. \A t \in S : local'[t].at # "advance"
        BY <1>2 DEF Same, Copying
    <2> QED BY <1>2, <2>1, CopiedIs, CopiedIsNext
<1> QED BY <1>1, <1>2

LEMMA ReceivingStays ==
    ASSUME ByteInv, UartInv', Same(Readers),
           UNCHANGED <<rx_in, rx_out, rx_buf, rfifo, taken, sent>>
    PROVE  ReceivedInOrder' /\ ReaderPieceHolds'
<1>1. Copied(Readers)' = Copied(Readers)
    BY CopiedSame DEF ByteInv, UartInv
<1>2. ReceivedInOrder'
    BY <1>1, ReceivedNow, ReceivedNext DEF ByteInv, BytesInOrder
<1>3. ReaderPieceHolds'
    BY DEF ByteInv, ReaderPieceHolds, Same, Held
<1> QED BY <1>2, <1>3

LEMMA SendingStays ==
    ASSUME ByteInv, UartInv', Same(Writers),
           UNCHANGED <<tx_in, tx_out, tx_buf, wfifo, given, got>>
    PROVE  SentInOrder' /\ WriterPieceHolds'
<1>1. Copied(Writers)' = Copied(Writers)
    BY CopiedSame DEF ByteInv, UartInv
<1>2. SentInOrder'
    BY <1>1, SentNow, SentNext DEF ByteInv, BytesInOrder
<1>3. WriterPieceHolds'
    BY DEF ByteInv, WriterPieceHolds, Same, Held
<1> QED BY <1>2, <1>3

LEMMA QuietKeeps ==
    ASSUME ByteInv, UartInv', Same(Readers), Same(Writers),
           UNCHANGED <<ring, rfifo, wfifo, stream>>
    PROVE  ByteInv'
BY ReceivingStays, SendingStays DEF ByteInv, BytesInOrder, ring, stream

LEMMA OneMoves ==
    ASSUME TypeOK, NEW t \in Callers, NEW m, local' = [local EXCEPT ![t] = m]
    PROVE  /\ local'[t] = m
           /\ t \notin Readers => Same(Readers)
           /\ t \notin Writers => Same(Writers)
           /\ local[t].at \notin Copying /\ m.at \notin Copying => Same(Readers) /\ Same(Writers)
<1>1. local' \in [Callers -> {local'[u] : u \in Callers}] /\ local'[t] = m
      /\ \A u \in Callers : u # t => local'[u] = local[u]
    BY DEF TypeOK
<1> QED BY <1>1 DEF Same, Callers

LEMMA PostSame ==
    ASSUME TypeOK, NEW flag, FlagPost(flag)
    PROVE  Same(Readers) /\ Same(Writers)
<1>1. ASSUME NEW u \in Callers
      PROVE  local'[u] = local[u] \/ (local[u].at = "asleep" /\ local'[u].at = "woken")
    <2>1. local[u] \in Locals
        BY DEF TypeOK
    <2>2. CASE local[u].at = "asleep" /\ flag \in Wants(u)
        <3>1. local'[u] = [local[u] EXCEPT !.at = "woken", !.rdy = (events \cup {flag}) \cap Wants(u)]
            BY <2>2 DEF FlagPost
        <3> QED BY <2>1, <2>2, <3>1 DEF Locals
    <2>3. CASE ~(local[u].at = "asleep" /\ flag \in Wants(u))
        BY <2>3 DEF FlagPost
    <2> QED BY <2>2, <2>3
<1> QED BY <1>1 DEF Same, Copying, Callers

-----------------------------------------------------------------------------
(* Readers *)

LEMMA ReaderLeavesSending ==
    ASSUME TypeOK, NEW t \in Readers, Read(t)
    PROVE  UNCHANGED <<tx_in, tx_out, tx_buf, wfifo, given, got>> /\ Same(Writers)
<1>1. t \in Callers /\ t \notin Writers
    BY UartAssumption DEF Callers
<1>2. UNCHANGED <<tx_in, tx_out, tx_buf, wfifo, given, got>>
    BY DEF Read, Call, ReadLock, ReadLook, ReadCopy, ReadAdvance, ReadPend, Wake, ReadAgain,
           ReadUnlock, ReadEnable, Enable, ring, core, stream
<1>3. \E m : local' = [local EXCEPT ![t] = m]
    BY DEF Read, Call, ReadLock, ReadLook, ReadCopy, ReadAdvance, ReadPend, Wake, ReadAgain,
           ReadUnlock, ReadEnable, Enable, To, FlagPend
<1> QED BY <1>1, <1>2, <1>3, OneMoves

LEMMA ReadLookBytes ==
    ASSUME ByteInv, UartInv', NEW t \in Readers, ReadLook(t)
    PROVE  ReceivedInOrder' /\ ReaderPieceHolds'
<1>1. /\ t \in Callers /\ local[t] \in Locals /\ local[t].left \in Nat /\ local[t].at = "look"
      /\ local \in [Callers -> Locals]
      /\ UNCHANGED <<rx_in, rx_out, rx_buf, rfifo, taken, sent>>
    BY DEF ByteInv, UartInv, TypeOK, Callers, Locals, ReadLook, Goes, ring, core, stream
<1>2. CASE InOnePiece > 0
    <2> DEFINE m == [local[t] EXCEPT !.at = "copy", !.in = rx_in, !.out = rx_out,
                                     !.n = Least(InOnePiece, local[t].left)]
    <2>1. local' = [local EXCEPT ![t] = m]
        BY <1>2 DEF ReadLook
    <2>2. m.at = "copy" /\ m.out = rx_out /\ m.n = Least(InOnePiece, local[t].left)
        BY <1>1 DEF Locals
    <2>3. Least(InOnePiece, local[t].left) <= Held(rx_in, rx_out)
        <3>1. InOnePiece \in 0 .. BUF_LEN /\ InOnePiece <= Held(rx_in, rx_out)
              /\ Held(rx_in, rx_out) \in 0 .. BUF_LEN - 1
            BY PiecesFit, PiecesAreParts, HeldIs DEF ByteInv, UartInv, TypeOK
        <3> QED BY <1>1, <3>1, UartAssumption DEF Least
    <2> HIDE DEF m
    <2>4. \A u \in Readers : local'[u] = IF u = t THEN m ELSE local[u]
        BY <1>1, <2>1 DEF Callers
    <2>5. ReaderPieceHolds'
        BY <1>1, <2>2, <2>3, <2>4 DEF ByteInv, ReaderPieceHolds, Held
    <2>6. \A u \in Readers : local'[u].at = "advance" => local[u].at = "advance"
                                                         /\ local'[u].n = local[u].n
        BY <2>2, <2>4
    <2>7. \A u \in Readers : local[u].at = "advance" => local'[u].at = "advance"
        BY <1>1, <2>4
    <2>8. Copied(Readers)' = Copied(Readers)
        <3>1. CASE \E u \in Readers : local[u].at = "advance"
            BY <2>6, <2>7, <3>1, CopiedIs, CopiedIsNext DEF ByteInv, UartInv
        <3>2. CASE ~(\E u \in Readers : local[u].at = "advance")
            BY <2>6, <3>2, CopiedIs, CopiedIsNext DEF ByteInv, UartInv
        <3> QED BY <3>1, <3>2
    <2>9. ReceivedInOrder'
        BY <1>1, <2>8, ReceivedNow, ReceivedNext DEF ByteInv, BytesInOrder
    <2> QED BY <2>5, <2>9
<1>3. CASE ~(InOnePiece > 0)
    <2> DEFINE m == [local[t] EXCEPT !.at = IF ~local[t].some /\ local[t].block
                                              THEN "pend" ELSE "unlock", !.in = rx_in]
    <2>1. local' = [local EXCEPT ![t] = m] /\ m.at \in {"pend", "unlock"}
        BY <1>1, <1>3 DEF ReadLook, Locals
    <2> HIDE DEF m
    <2>2. Same(Readers)
        BY <1>1, <2>1, OneMoves DEF ByteInv, UartInv, Copying
    <2> QED BY <1>1, <2>2, ReceivingStays
<1> QED BY <1>2, <1>3

LEMMA ReadCopyBytes ==
    ASSUME ByteInv, UartInv', NEW t \in Readers, ReadCopy(t)
    PROVE  ReceivedInOrder' /\ ReaderPieceHolds'
<1> DEFINE m == Moved(t, "advance")
           n == local[t].n
           h == Held(rx_in, rx_out)
<1>1. /\ t \in Callers /\ local \in [Callers -> Locals] /\ local[t].at = "copy"
      /\ local' = [local EXCEPT ![t] = m] /\ taken' = Later(taken, n)
      /\ UNCHANGED <<rx_in, rx_out, rx_buf, rfifo, sent>>
    BY MovedType DEF ByteInv, UartInv, TypeOK, Callers, ReadCopy, Goes, ring, core, Steps
<1>2. m.at = "advance" /\ m.out = local[t].out /\ m.n = n /\ n \in 0 .. BUF_LEN
    BY <1>1 DEF Moved, Locals
<1> HIDE DEF m
<1>3. \A u \in Readers : local'[u] = IF u = t THEN m ELSE local[u]
    BY <1>1 DEF Callers
<1>4. n <= h /\ local[t].out = rx_out
    BY <1>1 DEF ByteInv, ReaderPieceHolds, Copying
<1>5. ReaderPieceHolds'
    BY <1>1, <1>2, <1>3, <1>4 DEF ByteInv, ReaderPieceHolds, Copying, Held
<1>6. Copied(Readers) = 0
    <2>1. \A u \in Readers : local[u].at # "advance"
        BY <1>1 DEF ByteInv, UartInv, LocksHeld, Inside
    <2> QED BY <2>1, CopiedIs DEF ByteInv, UartInv
<1>7. Copied(Readers)' = n
    BY <1>2, <1>3, CopiedIsNext DEF UartInv
<1>8. h \in 0 .. BUF_LEN - 1 /\ rfifo \in Seq(Bytes) /\ taken \in Bytes
    BY HeldIs DEF ByteInv, UartInv, TypeOK
<1>9. Received(rx_buf, rx_out, h, 0, rfifo, taken, sent)
    BY <1>6, ReceivedNow DEF ByteInv, BytesInOrder
<1> HIDE DEF n, h
<1>10. n \in 0 .. h /\ h \in Nat
    BY <1>2, <1>4, <1>8, UartAssumption
<1>11. Received(rx_buf, rx_out, h, n, rfifo, Later(taken, n), sent)
    BY <1>8, <1>9, <1>10, ReceivedCopied
<1>12. ReceivedInOrder'
    BY <1>1, <1>7, <1>11, ReceivedNext DEF h
<1> QED BY <1>5, <1>12

LEMMA ReadAdvanceBytes ==
    ASSUME ByteInv, UartInv', NEW t \in Readers, ReadAdvance(t)
    PROVE  ReceivedInOrder' /\ ReaderPieceHolds'
<1> DEFINE n == local[t].n
           h == Held(rx_in, rx_out)
<1>1. /\ t \in Callers /\ local \in [Callers -> Locals] /\ local[t].at = "advance"
      /\ rx_out' = (local[t].out + n) % BUF_LEN /\ n \in 0 .. BUF_LEN
      /\ UNCHANGED <<rx_in, rx_buf, rfifo, taken, sent>>
    BY DEF ByteInv, UartInv, TypeOK, Callers, ReadAdvance, Goes, core, stream, Locals
<1>2. local'[t].at \in {"look", "unlock"} /\ \A u \in Readers : u # t => local'[u] = local[u]
    BY <1>1 DEF ReadAdvance, Callers, Locals
<1>3. \A u \in Readers : u # t => local[u].at \notin Copying
    BY <1>1 DEF ByteInv, UartInv, LocksHeld, Inside, Copying
<1>4. \A u \in Readers : local'[u].at \notin Copying
    BY <1>2, <1>3 DEF Copying
<1>5. n <= h /\ local[t].out = rx_out
    BY <1>1 DEF ByteInv, ReaderPieceHolds, Copying
<1>6. Copied(Readers) = n /\ Copied(Readers)' = 0
    BY <1>1, <1>4, CopiedIs, CopiedIsNext DEF ByteInv, UartInv, Copying
<1>7. h \in 0 .. BUF_LEN - 1 /\ rfifo \in Seq(Bytes) /\ taken \in Bytes /\ rx_in \in Slots
      /\ rx_out \in Slots
    BY HeldIs DEF ByteInv, UartInv, TypeOK
<1>8. Received(rx_buf, rx_out, h, n, rfifo, taken, sent)
    BY <1>6, ReceivedNow DEF ByteInv, BytesInOrder
<1>9. n \in 0 .. h
    BY <1>1, <1>5, <1>7, UartAssumption
<1>10. Held(rx_in', rx_out') = h - n
    BY <1>1, <1>5, <1>7, <1>9, TakenOut
<1> HIDE DEF n, h
<1>11. Received(rx_buf, (rx_out + n) % BUF_LEN, h - n, 0, rfifo, taken, sent)
    BY <1>7, <1>8, <1>9, ReceivedAdvanced
<1>12. ReceivedInOrder'
    BY <1>1, <1>5, <1>6, <1>10, <1>11, ReceivedNext
<1> QED BY <1>4, <1>12 DEF ReaderPieceHolds

LEMMA ReadBytes ==
    ASSUME ByteInv, UartInv', NEW t \in Readers, Read(t)
    PROVE  ByteInv'
<1>1. t \in Callers /\ TypeOK
    BY DEF Callers, ByteInv, UartInv
<1>2. SentInOrder' /\ WriterPieceHolds'
    BY <1>1, ReaderLeavesSending, SendingStays
<1>3. ASSUME NEW m, local' = [local EXCEPT ![t] = m], m.at \notin Copying,
             local[t].at \notin Copying, UNCHANGED <<rx_in, rx_out, rx_buf, rfifo, taken, sent>>
      PROVE  ReceivedInOrder' /\ ReaderPieceHolds'
    BY <1>1, <1>3, OneMoves, ReceivingStays
<1>4. ASSUME NEW at \in Steps \ Copying, To(t, at), local[t].at \notin Copying,
             UNCHANGED <<rx_in, rx_out, rx_buf, rfifo, taken, sent>>
      PROVE  ReceivedInOrder' /\ ReaderPieceHolds'
    <2>1. local' = [local EXCEPT ![t] = Moved(t, at)] /\ Moved(t, at).at = at
        BY <1>1, <1>4, MovedType
    <2> QED BY <1>3, <1>4, <2>1
<1>5. ASSUME NEW count, NEW block, Call(t, count, block)
      PROVE  ReceivedInOrder' /\ ReaderPieceHolds'
    <2> DEFINE m == [Idle EXCEPT !.at = "lock", !.left = count, !.block = block]
    <2>1. m.at = "lock" /\ local' = [local EXCEPT ![t] = m] /\ local[t].at = "idle"
        BY <1>5 DEF Call, Goes, Idle
    <2> HIDE DEF m
    <2> QED BY <1>3, <1>5, <2>1 DEF Call, ring, core, stream, Copying
<1>6. ASSUME Wake(t, "again")
      PROVE  ReceivedInOrder' /\ ReaderPieceHolds'
    <2> DEFINE m == [local[t] EXCEPT !.at = "again", !.rdy = {}]
    <2>1. m.at = "again" /\ local' = [local EXCEPT ![t] = m] /\ local[t].at = "woken"
        <3>1. local[t] \in Locals
            BY <1>1 DEF TypeOK
        <3> QED BY <1>6, <3>1 DEF Wake, Goes, Locals
    <2> HIDE DEF m
    <2> QED BY <1>3, <1>6, <2>1 DEF Wake, ring, core, stream, Copying
<1>7. ASSUME ReadUnlock(t)
      PROVE  ReceivedInOrder' /\ ReaderPieceHolds'
    <2> DEFINE m == [Idle EXCEPT !.at = IF local[t].some THEN "enable" ELSE "idle"]
    <2>1. /\ m.at \in {"enable", "idle"} /\ local' = [local EXCEPT ![t] = m]
          /\ local[t].at = "unlock"
        BY <1>7 DEF ReadUnlock, Goes, Idle
    <2> HIDE DEF m
    <2> QED BY <1>3, <1>7, <2>1 DEF ReadUnlock, ring, core, stream, Copying
<1>8. ASSUME ReadLock(t)
      PROVE  ReceivedInOrder' /\ ReaderPieceHolds'
    BY <1>4, <1>8 DEF ReadLock, Goes, Steps, Copying, ring, core, stream
<1>9. ASSUME ReadPend(t)
      PROVE  ReceivedInOrder' /\ ReaderPieceHolds'
    BY <1>4, <1>9 DEF ReadPend, FlagPend, Goes, Steps, Copying, ring, core, stream
<1>10. ASSUME ReadAgain(t)
       PROVE  ReceivedInOrder' /\ ReaderPieceHolds'
    BY <1>4, <1>10 DEF ReadAgain, Goes, Steps, Copying, ring, core, stream
<1>11. ASSUME ReadEnable(t)
       PROVE  ReceivedInOrder' /\ ReaderPieceHolds'
    BY <1>4, <1>11 DEF ReadEnable, Enable, Goes, Steps, Copying, ring, core, stream
<1>12. ReceivedInOrder' /\ ReaderPieceHolds'
    BY <1>5, <1>6, <1>7, <1>8, <1>9, <1>10, <1>11, ReadLookBytes, ReadCopyBytes, ReadAdvanceBytes
       DEF Read
<1> QED BY <1>2, <1>12 DEF ByteInv, BytesInOrder

-----------------------------------------------------------------------------
(* Writers *)

LEMMA WriterLeavesReceiving ==
    ASSUME TypeOK, NEW t \in Writers, Write(t)
    PROVE  UNCHANGED <<rx_in, rx_out, rx_buf, rfifo, taken, sent>> /\ Same(Readers)
<1>1. t \in Callers /\ t \notin Readers
    BY UartAssumption DEF Callers
<1>2. UNCHANGED <<rx_in, rx_out, rx_buf, rfifo, taken, sent>>
    BY DEF Write, Call, WriteLock, WriteLook, WriteCopy, WriteAdvance, WritePend, Wake, WriteAgain,
           WriteUnlock, WriteEnable, Enable, ring, core, stream
<1>3. \E m : local' = [local EXCEPT ![t] = m]
    BY DEF Write, Call, WriteLock, WriteLook, WriteCopy, WriteAdvance, WritePend, Wake, WriteAgain,
           WriteUnlock, WriteEnable, Enable, To, FlagPend
<1> QED BY <1>1, <1>2, <1>3, OneMoves

LEMMA WriteLookBytes ==
    ASSUME ByteInv, UartInv', NEW t \in Writers, WriteLook(t)
    PROVE  SentInOrder' /\ WriterPieceHolds'
<1>1. /\ t \in Callers /\ local[t] \in Locals /\ local[t].left \in Nat /\ local[t].at = "look"
      /\ local \in [Callers -> Locals]
      /\ UNCHANGED <<tx_in, tx_out, tx_buf, wfifo, given, got>>
    BY DEF ByteInv, UartInv, TypeOK, Callers, Locals, WriteLook, Goes, ring, core, stream
<1>2. CASE RoomInOnePiece > 0
    <2> DEFINE n == Least(RoomInOnePiece, local[t].left)
               m == [local[t] EXCEPT !.at = "copy", !.in = tx_in, !.n = n]
    <2>1. local' = [local EXCEPT ![t] = m]
        BY <1>2 DEF WriteLook
    <2>2. m.at = "copy" /\ m.in = tx_in /\ m.n = n
        BY <1>1 DEF Locals
    <2>3. Held(tx_in, tx_out) + n < BUF_LEN /\ tx_in + n <= BUF_LEN
        <3>1. /\ RoomInOnePiece \in 0 .. BUF_LEN
              /\ Held(tx_in, tx_out) + RoomInOnePiece < BUF_LEN
              /\ tx_in + RoomInOnePiece <= BUF_LEN
              /\ Held(tx_in, tx_out) \in 0 .. BUF_LEN - 1 /\ tx_in \in 0 .. BUF_LEN - 1
            BY PiecesFit, PiecesAreParts, HeldIs, SlotRange DEF ByteInv, UartInv, TypeOK
        <3> QED BY <1>1, <3>1, UartAssumption DEF Least
    <2> HIDE DEF m, n
    <2>4. \A u \in Writers : local'[u] = IF u = t THEN m ELSE local[u]
        BY <1>1, <2>1 DEF Callers
    <2>5. WriterPieceHolds'
        BY <1>1, <2>2, <2>3, <2>4 DEF ByteInv, WriterPieceHolds, Held
    <2>6. \A u \in Writers : local'[u].at = "advance" => local[u].at = "advance"
                                                         /\ local'[u].n = local[u].n
        BY <2>2, <2>4
    <2>7. \A u \in Writers : local[u].at = "advance" => local'[u].at = "advance"
        BY <1>1, <2>4
    <2>8. Copied(Writers)' = Copied(Writers)
        <3>1. CASE \E u \in Writers : local[u].at = "advance"
            BY <2>6, <2>7, <3>1, CopiedIs, CopiedIsNext DEF ByteInv, UartInv
        <3>2. CASE ~(\E u \in Writers : local[u].at = "advance")
            BY <2>6, <3>2, CopiedIs, CopiedIsNext DEF ByteInv, UartInv
        <3> QED BY <3>1, <3>2
    <2>9. SentInOrder'
        BY <1>1, <2>8, SentNow, SentNext DEF ByteInv, BytesInOrder
    <2> QED BY <2>5, <2>9
<1>3. CASE ~(RoomInOnePiece > 0)
    <2> DEFINE m == [local[t] EXCEPT !.at = "enable"]
    <2>1. local' = [local EXCEPT ![t] = m] /\ m.at = "enable"
        BY <1>1, <1>3 DEF WriteLook, Locals
    <2> HIDE DEF m
    <2>2. Same(Writers)
        BY <1>1, <2>1, OneMoves DEF ByteInv, UartInv, Copying
    <2> QED BY <1>1, <2>2, SendingStays
<1> QED BY <1>2, <1>3

LEMMA WriteCopyBytes ==
    ASSUME ByteInv, UartInv', NEW t \in Writers, WriteCopy(t)
    PROVE  SentInOrder' /\ WriterPieceHolds'
<1> DEFINE m == Moved(t, "advance")
           n == local[t].n
           h == Held(tx_in, tx_out)
           d == [j \in Slots |-> IF j \in tx_in .. tx_in + n - 1 THEN Later(given, j - tx_in)
                                                                 ELSE tx_buf[j]]
<1>1. /\ t \in Callers /\ local \in [Callers -> Locals] /\ local[t].at = "copy"
      /\ local' = [local EXCEPT ![t] = m] /\ given' = Later(given, n)
      /\ UNCHANGED <<tx_in, tx_out, wfifo, got>>
    BY MovedType DEF ByteInv, UartInv, TypeOK, Callers, WriteCopy, Goes, ring, core, Steps
<1>2. m.at = "advance" /\ m.in = local[t].in /\ m.n = n /\ n \in 0 .. BUF_LEN
    BY <1>1 DEF Moved, Locals
<1>4. local[t].in = tx_in /\ tx_in + n <= BUF_LEN /\ h + n < BUF_LEN
    BY <1>1 DEF ByteInv, WriterPieceHolds, Copying
<1>5. tx_buf' = d
    BY <1>4 DEF WriteCopy
<1> HIDE DEF m, d
<1>3. \A u \in Writers : local'[u] = IF u = t THEN m ELSE local[u]
    BY <1>1 DEF Callers
<1>6. WriterPieceHolds'
    BY <1>1, <1>2, <1>3, <1>4 DEF ByteInv, WriterPieceHolds, Copying, Held
<1>7. Copied(Writers) = 0
    <2>1. \A u \in Writers : local[u].at # "advance"
        BY <1>1 DEF ByteInv, UartInv, LocksHeld, Inside
    <2> QED BY <2>1, CopiedIs DEF ByteInv, UartInv
<1>8. Copied(Writers)' = n
    BY <1>2, <1>3, CopiedIsNext DEF UartInv
<1>9. /\ h \in 0 .. BUF_LEN - 1 /\ wfifo \in Seq(Bytes) /\ got \in Bytes /\ given \in Bytes
      /\ tx_in \in Slots /\ tx_out \in Slots /\ tx_buf \in [Slots -> Bytes] /\ n \in Nat
    <2>1. /\ wfifo \in Seq(Bytes) /\ got \in Bytes /\ given \in Bytes
          /\ tx_in \in Slots /\ tx_out \in Slots /\ tx_buf \in [Slots -> Bytes]
        BY DEF ByteInv, UartInv, TypeOK
    <2>2. n \in Nat
        BY <1>2, UartAssumption
    <2> QED BY <2>1, <2>2, HeldIs
<1>10. Sent(tx_buf, tx_out, h, wfifo, got, given)
    <2>1. h + Copied(Writers) = h
        BY <1>7, <1>9
    <2> QED BY <2>1, SentNow DEF ByteInv, BytesInOrder
<1>11. Sent(d, tx_out, h + n, wfifo, got, Later(given, n))
    <2> HIDE DEF n
    <2> QED BY <1>4, <1>9, <1>10, SentCopied DEF d
<1>12. SentInOrder'
    BY <1>1, <1>5, <1>8, <1>11, SentNext DEF h
<1> QED BY <1>6, <1>12

LEMMA WriteAdvanceBytes ==
    ASSUME ByteInv, UartInv', NEW t \in Writers, WriteAdvance(t)
    PROVE  SentInOrder' /\ WriterPieceHolds'
<1> DEFINE n == local[t].n
           h == Held(tx_in, tx_out)
<1>1. /\ t \in Callers /\ local \in [Callers -> Locals] /\ local[t].at = "advance"
      /\ tx_in' = (local[t].in + n) % BUF_LEN /\ n \in 0 .. BUF_LEN
      /\ UNCHANGED <<tx_out, tx_buf, wfifo, given, got>>
    BY DEF ByteInv, UartInv, TypeOK, Callers, WriteAdvance, Goes, core, stream, Locals
<1>2. local'[t].at \in {"look", "enable"} /\ \A u \in Writers : u # t => local'[u] = local[u]
    BY <1>1 DEF WriteAdvance, Callers, Locals
<1>3. \A u \in Writers : u # t => local[u].at \notin Copying
    BY <1>1 DEF ByteInv, UartInv, LocksHeld, Inside, Copying
<1>4. \A u \in Writers : local'[u].at \notin Copying
    BY <1>2, <1>3 DEF Copying
<1>5. h + n < BUF_LEN /\ local[t].in = tx_in
    BY <1>1 DEF ByteInv, WriterPieceHolds, Copying
<1>6. Copied(Writers) = n /\ Copied(Writers)' = 0
    BY <1>1, <1>4, CopiedIs, CopiedIsNext DEF ByteInv, UartInv, Copying
<1>7. h \in 0 .. BUF_LEN - 1 /\ tx_in \in Slots /\ tx_out \in Slots /\ n \in Nat
    <2>1. tx_in \in Slots /\ tx_out \in Slots
        BY DEF ByteInv, UartInv, TypeOK
    <2>2. n \in Nat
        BY <1>1, UartAssumption
    <2> QED BY <2>1, <2>2, HeldIs
<1>8. Sent(tx_buf, tx_out, h + n, wfifo, got, given)
    BY <1>6, SentNow DEF ByteInv, BytesInOrder
<1>9. Held(tx_in', tx_out') = h + n
    BY <1>1, <1>5, <1>7, PutIn
<1> HIDE DEF n, h
<1>10. h + n + 0 = h + n
    BY <1>7
<1>11. SentInOrder'
    BY <1>1, <1>6, <1>8, <1>9, <1>10, SentNext
<1> QED BY <1>4, <1>11 DEF WriterPieceHolds

LEMMA WriteBytes ==
    ASSUME ByteInv, UartInv', NEW t \in Writers, Write(t)
    PROVE  ByteInv'
<1>1. t \in Callers /\ TypeOK
    BY DEF Callers, ByteInv, UartInv
<1>2. ReceivedInOrder' /\ ReaderPieceHolds'
    BY <1>1, WriterLeavesReceiving, ReceivingStays
<1>3. ASSUME NEW m, local' = [local EXCEPT ![t] = m], m.at \notin Copying,
             local[t].at \notin Copying, UNCHANGED <<tx_in, tx_out, tx_buf, wfifo, given, got>>
      PROVE  SentInOrder' /\ WriterPieceHolds'
    BY <1>1, <1>3, OneMoves, SendingStays
<1>4. ASSUME NEW at \in Steps \ Copying, To(t, at), local[t].at \notin Copying,
             UNCHANGED <<tx_in, tx_out, tx_buf, wfifo, given, got>>
      PROVE  SentInOrder' /\ WriterPieceHolds'
    <2>1. local' = [local EXCEPT ![t] = Moved(t, at)] /\ Moved(t, at).at = at
        BY <1>1, <1>4, MovedType
    <2> QED BY <1>3, <1>4, <2>1
<1>5. ASSUME NEW count, NEW block, Call(t, count, block)
      PROVE  SentInOrder' /\ WriterPieceHolds'
    <2> DEFINE m == [Idle EXCEPT !.at = "lock", !.left = count, !.block = block]
    <2>1. m.at = "lock" /\ local' = [local EXCEPT ![t] = m] /\ local[t].at = "idle"
        BY <1>5 DEF Call, Goes, Idle
    <2> HIDE DEF m
    <2> QED BY <1>3, <1>5, <2>1 DEF Call, ring, core, stream, Copying
<1>6. ASSUME Wake(t, "again")
      PROVE  SentInOrder' /\ WriterPieceHolds'
    <2> DEFINE m == [local[t] EXCEPT !.at = "again", !.rdy = {}]
    <2>1. m.at = "again" /\ local' = [local EXCEPT ![t] = m] /\ local[t].at = "woken"
        <3>1. local[t] \in Locals
            BY <1>1 DEF TypeOK
        <3> QED BY <1>6, <3>1 DEF Wake, Goes, Locals
    <2> HIDE DEF m
    <2> QED BY <1>3, <1>6, <2>1 DEF Wake, ring, core, stream, Copying
<1>7. ASSUME WriteUnlock(t)
      PROVE  SentInOrder' /\ WriterPieceHolds'
    <2>1. Idle.at = "idle" /\ local' = [local EXCEPT ![t] = Idle] /\ local[t].at = "unlock"
        BY <1>7 DEF WriteUnlock, Goes, Idle
    <2> QED BY <1>3, <1>7, <2>1 DEF WriteUnlock, ring, core, stream, Copying
<1>8. ASSUME WriteLock(t)
      PROVE  SentInOrder' /\ WriterPieceHolds'
    BY <1>4, <1>8 DEF WriteLock, Goes, Steps, Copying, ring, core, stream
<1>9. ASSUME WritePend(t)
      PROVE  SentInOrder' /\ WriterPieceHolds'
    BY <1>4, <1>9 DEF WritePend, FlagPend, Goes, Steps, Copying, ring, core, stream
<1>10. ASSUME WriteAgain(t)
       PROVE  SentInOrder' /\ WriterPieceHolds'
    BY <1>4, <1>10 DEF WriteAgain, Goes, Steps, Copying, ring, core, stream
<1>11. ASSUME WriteEnable(t)
       PROVE  SentInOrder' /\ WriterPieceHolds'
    BY <1>4, <1>11 DEF WriteEnable, Enable, Goes, Steps, Copying, ring, core, stream
<1>12. SentInOrder' /\ WriterPieceHolds'
    BY <1>5, <1>6, <1>7, <1>8, <1>9, <1>10, <1>11, WriteLookBytes, WriteCopyBytes,
       WriteAdvanceBytes DEF Write
<1> QED BY <1>2, <1>12 DEF ByteInv, BytesInOrder

-----------------------------------------------------------------------------
(* The interrupt routine, the alarm and the host *)

LEMMA IsrReceiveBytes ==
    ASSUME ByteInv, UartInv', IsrReceive
    PROVE  ByteInv'
<1> DEFINE h == Held(rx_in, rx_out)
           c == Copied(Readers)
<1>1. Same(Readers) /\ Same(Writers)
    BY PostSame DEF IsrReceive, ByteInv, UartInv
<1>2. /\ rx_in \in Slots /\ rx_out \in Slots /\ rx_buf \in [Slots -> Bytes]
      /\ rfifo \in Seq(Bytes) /\ rfifo # <<>> /\ taken \in Bytes /\ BUF_LEN \in Nat
    BY UartAssumption DEF ByteInv, UartInv, TypeOK, IsrReceive
<1>3. h \in 0 .. BUF_LEN - 1 /\ h + 1 < BUF_LEN /\ c \in 0 .. h /\ (rx_out + h) % BUF_LEN = rx_in
    BY <1>2, HeldIs, NotFull, CopiedRange, HeldEnds DEF IsrReceive, NextIn
<1>4. rx_in' = (rx_in + 1) % BUF_LEN /\ rx_buf' = [rx_buf EXCEPT ![rx_in] = Head(rfifo)]
      /\ rfifo' = Tail(rfifo) /\ UNCHANGED <<rx_out, taken, sent>>
      /\ UNCHANGED <<tx_in, tx_out, tx_buf, wfifo, given, got>>
    BY DEF IsrReceive, NextIn, stream
<1>5. Held(rx_in', rx_out') = h + 1
    BY <1>2, <1>3, <1>4, PutIn
<1>6. Copied(Readers)' = c
    BY <1>1, CopiedSame DEF ByteInv, UartInv
<1>7. Received(rx_buf, rx_out, h, c, rfifo, taken, sent)
    BY ReceivedNow DEF ByteInv, BytesInOrder
<1>8. ReaderPieceHolds'
    <2>1. ASSUME NEW u \in Readers, local'[u].at \in Copying
          PROVE  local'[u].out = rx_out' /\ local'[u].n <= Held(rx_in', rx_out')
        <3>1. /\ local[u].at \in Copying /\ local'[u].out = local[u].out
              /\ local'[u].n = local[u].n
            BY <1>1, <2>1 DEF Same
        <3>2. local[u].out = rx_out /\ local[u].n <= h
            BY <3>1 DEF ByteInv, ReaderPieceHolds
        <3>3. local[u].n \in 0 .. BUF_LEN
            BY DEF ByteInv, UartInv, TypeOK, Locals, Callers
        <3> HIDE DEF h
        <3> QED BY <1>3, <1>4, <1>5, <3>1, <3>2, <3>3
    <2> QED BY <2>1 DEF ReaderPieceHolds, Held
<1> HIDE DEF h, c
<1>9. Received([rx_buf EXCEPT ![rx_in] = Head(rfifo)], rx_out, h + 1, c, Tail(rfifo), taken, sent)
    <2>1. h \in Nat
        BY <1>2, <1>3
    <2>2. Received([rx_buf EXCEPT ![(rx_out + h) % BUF_LEN] = Head(rfifo)],
                   rx_out, h + 1, c, Tail(rfifo), taken, sent)
        BY <1>2, <1>3, <1>7, <2>1, ReceivedByte
    <2> QED BY <1>3, <2>2
<1>10. ReceivedInOrder'
    BY <1>4, <1>5, <1>6, <1>9, ReceivedNext
<1> QED BY <1>1, <1>4, <1>8, <1>10, SendingStays DEF ByteInv, BytesInOrder

LEMMA IsrTransmitBytes ==
    ASSUME ByteInv, UartInv', IsrTransmit
    PROVE  ByteInv'
<1> DEFINE h == Held(tx_in, tx_out)
           c == Copied(Writers)
           g == Held(tx_in', tx_out')
<1>1. Same(Readers) /\ Same(Writers)
    BY PostSame DEF IsrTransmit, ByteInv, UartInv
<1>2. /\ tx_in \in Slots /\ tx_out \in Slots /\ tx_buf \in [Slots -> Bytes]
      /\ wfifo \in Seq(Bytes) /\ got \in Bytes /\ BUF_LEN \in Nat /\ tx_in # tx_out
    BY UartAssumption DEF ByteInv, UartInv, TypeOK, IsrTransmit
<1>3. h \in 0 .. BUF_LEN - 1 /\ h > 0 /\ c \in Nat /\ h + c < BUF_LEN
    <2>1. h \in 0 .. BUF_LEN - 1 /\ h = IF tx_in >= tx_out THEN tx_in - tx_out
                                                           ELSE tx_in - tx_out + BUF_LEN
        BY <1>2, HeldIs
    <2>2. tx_in \in 0 .. BUF_LEN - 1 /\ tx_out \in 0 .. BUF_LEN - 1
        BY <1>2, SlotRange
    <2> HIDE DEF h
    <2>3. h > 0
        BY <1>2, <2>1, <2>2
    <2> QED BY <2>1, <2>3, CopiedRange DEF h
<1>4. tx_out' = (tx_out + 1) % BUF_LEN /\ wfifo' = Append(wfifo, tx_buf[tx_out])
      /\ UNCHANGED <<tx_in, tx_buf, given, got>>
      /\ UNCHANGED <<rx_in, rx_out, rx_buf, rfifo, taken, sent>>
    BY DEF IsrTransmit, stream
<1>5. g = h - 1
    <2>1. 1 \in 0 .. h
        BY <1>2, <1>3
    <2> QED BY <1>2, <1>4, <2>1, TakenOut
<1>6. Copied(Writers)' = c
    BY <1>1, CopiedSame DEF ByteInv, UartInv
<1>7. Sent(tx_buf, tx_out, h + c, wfifo, got, given)
    BY SentNow DEF ByteInv, BytesInOrder
<1>8. WriterPieceHolds'
    <2>1. ASSUME NEW u \in Writers, local'[u].at \in Copying
          PROVE  /\ local'[u].in = tx_in' /\ tx_in' + local'[u].n <= BUF_LEN
                 /\ g + local'[u].n < BUF_LEN
        <3>1. /\ local[u].at \in Copying /\ local'[u].in = local[u].in
              /\ local'[u].n = local[u].n
            BY <1>1, <2>1 DEF Same
        <3>2. local[u].in = tx_in /\ tx_in + local[u].n <= BUF_LEN /\ h + local[u].n < BUF_LEN
            BY <3>1 DEF ByteInv, WriterPieceHolds
        <3>3. local[u].n \in 0 .. BUF_LEN
            BY DEF ByteInv, UartInv, TypeOK, Locals, Callers
        <3> HIDE DEF h, g
        <3> QED BY <1>2, <1>3, <1>4, <1>5, <3>1, <3>2, <3>3
    <2> QED BY <2>1 DEF WriterPieceHolds, Held
<1> HIDE DEF h, c, g
<1>9. Sent(tx_buf, (tx_out + 1) % BUF_LEN, (h + c) - 1, Append(wfifo, tx_buf[tx_out]), got, given)
    <2> DEFINE e == h + c
    <2>1. e \in Nat \ {0} /\ Sent(tx_buf, tx_out, e, wfifo, got, given)
        BY <1>2, <1>3, <1>7
    <2> HIDE DEF e
    <2>2. Sent(tx_buf, (tx_out + 1) % BUF_LEN, e - 1, Append(wfifo, tx_buf[tx_out]), got, given)
        BY <1>2, <2>1, SentByte
    <2> QED BY <2>2 DEF e
<1>10. SentInOrder'
    <2>1. (h + c) - 1 = g + c
        BY <1>2, <1>3, <1>5
    <2> QED BY <1>4, <1>6, <1>9, <2>1, SentNext DEF g
<1> QED BY <1>1, <1>4, <1>8, <1>10, ReceivingStays DEF ByteInv, BytesInOrder

LEMMA HostBytes ==
    ASSUME ByteInv, UartInv', Host
    PROVE  ByteInv'
<1>1. Same(Readers) /\ Same(Writers) /\ UNCHANGED <<ring, local>>
    BY DEF Host, HostSends, HostReceives, HostPolls, Same
<1>2. /\ rfifo \in Seq(Bytes) /\ wfifo \in Seq(Bytes)
      /\ sent \in Bytes /\ taken \in Bytes /\ got \in Bytes /\ given \in Bytes
      /\ Held(rx_in, rx_out) \in 0 .. BUF_LEN - 1 /\ Held(tx_in, tx_out) \in 0 .. BUF_LEN - 1
      /\ BUF_LEN \in Nat
    BY HeldIs, UartAssumption DEF ByteInv, UartInv, TypeOK
<1>3. ASSUME HostSends PROVE ByteInv'
    <2>1. SentInOrder' /\ WriterPieceHolds'
        BY <1>1, <1>3, SendingStays DEF HostSends, ring
    <2>2. ReaderPieceHolds'
        BY <1>1 DEF ring, ByteInv, ReaderPieceHolds, Held
    <2>3. Received(rx_buf, rx_out, Held(rx_in, rx_out), Copied(Readers), Append(rfifo, sent),
                   taken, Later(sent, 1))
        <3>1. Received(rx_buf, rx_out, Held(rx_in, rx_out), Copied(Readers), rfifo, taken, sent)
            BY ReceivedNow DEF ByteInv, BytesInOrder
        <3> QED BY <1>2, <3>1, CopiedRange, ReceivedFromHost
    <2>4. ReceivedInOrder'
        BY <1>1, <1>3, <2>3, ReceivedNext, CopiedSame DEF ring, HostSends, ByteInv, UartInv
    <2> QED BY <2>1, <2>2, <2>4 DEF ByteInv, BytesInOrder
<1>4. ASSUME HostReceives PROVE ByteInv'
    <2>1. ReceivedInOrder' /\ ReaderPieceHolds'
        BY <1>1, <1>4, ReceivingStays DEF HostReceives, ring
    <2>2. WriterPieceHolds'
        BY <1>1 DEF ring, ByteInv, WriterPieceHolds, Held
    <2>3. Sent(tx_buf, tx_out, Held(tx_in, tx_out) + Copied(Writers), Tail(wfifo), Later(got, 1),
               given)
        <3>1. Sent(tx_buf, tx_out, Held(tx_in, tx_out) + Copied(Writers), wfifo, got, given)
            BY SentNow DEF ByteInv, BytesInOrder
        <3>2. Held(tx_in, tx_out) + Copied(Writers) \in Nat
            BY <1>2, CopiedRange
        <3> QED BY <1>2, <1>4, <3>1, <3>2, SentToHost DEF HostReceives
    <2>4. SentInOrder'
        BY <1>1, <1>4, <2>3, SentNext, CopiedSame DEF ring, HostReceives, ByteInv, UartInv
    <2> QED BY <2>1, <2>2, <2>4 DEF ByteInv, BytesInOrder
<1>5. ASSUME HostPolls PROVE ByteInv'
    BY <1>1, <1>5, QuietKeeps DEF HostPolls
<1> QED BY <1>3, <1>4, <1>5 DEF Host

LEMMA OthersBytes ==
    ASSUME ByteInv, UartInv', IsrControl \/ IsrReceived \/ IsrTransmitted \/ Alarm \/ UNCHANGED uartVars
    PROVE  ByteInv'
<1>1. UNCHANGED <<ring, rfifo, wfifo, stream>>
    BY DEF IsrControl, IsrReceived, IsrTransmitted, Alarm, core, uartVars
<1>2. UNCHANGED local \/ FlagPost("TIMEOUT")
    BY DEF IsrControl, IsrReceived, IsrTransmitted, Alarm, uartVars
<1>3. Same(Readers) /\ Same(Writers)
    <2>1. CASE UNCHANGED local
        BY <2>1 DEF Same
    <2>2. CASE FlagPost("TIMEOUT")
        BY <2>2, PostSame DEF ByteInv, UartInv
    <2> QED BY <1>2, <2>1, <2>2
<1> QED BY <1>1, <1>3, QuietKeeps

-----------------------------------------------------------------------------
LEMMA InitBytes == Init => ByteInv
<1> SUFFICES ASSUME Init PROVE ByteInv
    OBVIOUS
<1>1. UartInv
    BY InitInv
<1>2. \A t \in Callers : local[t].at \in {"idle", "absent"}
    BY DEF Init, Idle
<1>3. ReaderPieceHolds /\ WriterPieceHolds
    BY <1>2 DEF ReaderPieceHolds, WriterPieceHolds, Copying, Callers
<1>4. Copied(Readers) = 0 /\ Copied(Writers) = 0
    BY <1>2 DEF Copied, Callers
<1>5. Held(rx_in, rx_out) = 0 /\ Held(tx_in, tx_out) = 0
    BY <1>1, HeldIs DEF Init, UartInv, TypeOK
<1>6. Later(0, 0) = 0
    BY ModSmall, UartAssumption DEF Later
<1>7. ReceivedInOrder
    <2>1. rfifo = <<>> /\ taken = 0 /\ sent = 0
        BY DEF Init
    <2>2. Received(rx_buf, rx_out, 0, 0, rfifo, taken, sent)
        BY <1>6, <2>1 DEF Received
    <2> QED BY <1>4, <1>5, <2>2, ReceivedNow
<1>8. SentInOrder
    <2>1. wfifo = <<>> /\ got = 0 /\ given = 0
        BY DEF Init
    <2>2. Sent(tx_buf, tx_out, 0, wfifo, got, given)
        BY <1>6, <2>1 DEF Sent
    <2> QED BY <1>4, <1>5, <2>2, SentNow
<1> QED BY <1>1, <1>3, <1>7, <1>8 DEF ByteInv, BytesInOrder

(* The inductive invariant. *)
THEOREM ByteInvHolds == Spec => []ByteInv
<1>1. Init => ByteInv
    BY InitBytes
<1>2. ByteInv /\ UartInv' /\ [Next]_uartVars => ByteInv'
    BY ReadBytes, WriteBytes, IsrReceiveBytes, IsrTransmitBytes, HostBytes, OthersBytes
       DEF Next, Isr
<1> QED BY <1>1, <1>2, UartInvHolds, PTL DEF Spec

(* What the host sends reaches the readers and what the writers give       *)
(* reaches the host, whole and in order, although tasks and the interrupt  *)
(* routine move the two ends of each ring at their own times               *)
(* (altera_avalon_jtag_uart_read.c, _write.c and _init.c).                 *)
THEOREM BytesStayInOrder == Spec => []BytesInOrder
<1>1. ByteInv => BytesInOrder
    BY DEF ByteInv
<1> QED BY <1>1, ByteInvHolds, PTL
=============================================================================
