--------------------------- MODULE TisStackProofs ---------------------------
(***************************************************************************)
(* The invariants of a stack node, for every buffer length, every          *)
(* behaviour of the neighbours and every sequence of bus accesses.         *)
(***************************************************************************)
EXTENDS TisStack, Sequences, TLAPS

-----------------------------------------------------------------------------
(* Operators. *)

LEMMA PortsOfPhases ==
    ASSUME NEW p \in Phases
    PROVE  ReadPort(p) \in Ports /\ WritePort(p) \in Ports /\ NextPhase(p) \in Phases
BY DEF Phases, Ports, ReadPort, WritePort, NextPhase

LEMMA PointersStay ==
    ASSUME NEW ptr \in Slots
    PROVE  IncrementPTR(ptr) \in Slots /\ DecrementPTR(ptr) \in Slots
BY BufferLengthAssumption DEF Slots, IncrementPTR, DecrementPTR

LEMMA Clamped ==
    ASSUME NEW v \in Int
    PROVE  ToTisInteger(v) \in TisInteger
BY DEF ToTisInteger, TisInteger

LEMMA TisIntegers == TisInteger \subseteq Int /\ 0 \in TisInteger
BY DEF TisInteger

LEMMA RaiseType == \A S : Raise(S) \in [Ports -> BOOLEAN]
BY DEF Raise

LEMMA QuietType == Quiet \in [Ports -> BOOLEAN] /\ \A p \in Ports : ~Quiet[p]
BY DEF Quiet

(* 65536 stays folded: the solver is slow with literals of that size. *)
LEMMA HalfwordsType == Halfwords \in Nat \ {0}
BY DEF Halfwords

LEMMA HalfwordType ==
    /\ \A v \in Int : Halfword(v) \in Word16
    /\ \A w \in Word16 : SignedHalfword(w) \in Int
    /\ EmptyAnswer \in Word16
    /\ 0 \in Word16
BY HalfwordsType DEF Halfword, SignedHalfword, EmptyAnswer, Word16

(* The two lines of a phase are different lines. *)
LEMMA LinesOfPhases ==
    ASSUME NEW p \in {"RIGHT", "UP", "DOWN", "FINISH"}
    PROVE  ReadPort(p) \in Ports /\ WritePort(p) \in Ports /\ ReadPort(p) # WritePort(p)
BY DEF Ports, ReadPort, WritePort

(* Before FINISH, Offer raises the two lines of the next phase as asked. *)
LEMMA OfferRaises ==
    ASSUME node_state \in {"LEFT", "RIGHT", "UP", "DOWN"}, 
           NEW readable \in BOOLEAN, NEW writable \in BOOLEAN,
           Offer(readable, writable)
    PROVE  /\ o_active' \in [Ports -> BOOLEAN]
           /\ o_active'[ReadPort(NextPhase(node_state))] = readable
           /\ o_active'[WritePort(NextPhase(node_state))] = writable
<1>1. NextPhase(node_state) \in {"RIGHT", "UP", "DOWN", "FINISH"}
    BY DEF NextPhase
<1> QED BY <1>1, LinesOfPhases DEF Offer, Lines

-----------------------------------------------------------------------------
(* Types and promises belong together: the counter stays in its range      *)
(* because a transfer is only ever completed on a line that was raised,    *)
(* and a line is only raised when the counter leaves room for it.          *)
StackInv == TypeOK /\ PromisesKept

LEMMA BusKeepsStackInv ==
    ASSUME StackInv, NEW bus \in Access, NEW gate \in Gates, BusEdge(gate, bus)
    PROVE  StackInv'
<1> USE BufferLengthAssumption, StackAssumption
<1>1. /\ values' \in [Slots -> TisInteger] /\ tail_ptr' \in Slots
      /\ head_ptr' = head_ptr /\ count' \in 0 .. BufferLength
      /\ node_config' \in Word16 /\ readdata' \in Word16
    <2>1. CASE BusPop
        <3>1. CASE count = 0
            BY <2>1, <3>1, HalfwordType DEF BusPop, StackInv, TypeOK
        <3>2. CASE count # 0
            <4>1. IncrementPTR(tail_ptr) \in Slots
                BY PointersStay DEF StackInv, TypeOK
            <4>2. values[IncrementPTR(tail_ptr)] \in Int
                BY <4>1, TisIntegers DEF StackInv, TypeOK
            <4>3. readdata' \in Word16
                BY <2>1, <3>2, <4>2, HalfwordType DEF BusPop
            <4> QED BY <2>1, <3>2, <4>1, <4>3 DEF BusPop, StackInv, TypeOK
        <3> QED BY <3>1, <3>2
    <2>2. CASE BusReadConfig
        BY <2>2 DEF BusReadConfig, StackInv, TypeOK, ring
    <2>3. CASE bus.op = "write" /\ bus.address = 1 /\ BusPush(bus.data)
        <3>1. bus.data \in Word16
            BY <2>3 DEF Access
        <3>2. SignedHalfword(bus.data) \in Int
            BY <3>1, HalfwordType
        <3>3. ToTisInteger(SignedHalfword(bus.data)) \in TisInteger
            BY <3>2, Clamped
        <3> QED BY <2>3, <3>3, PointersStay DEF BusPush, StackInv, TypeOK
    <2>4. CASE bus.op = "write" /\ bus.address = 0 /\ BusWriteConfig(bus.data)
        <3>1. bus.data \in Word16
            BY <2>4 DEF Access
        <3> QED BY <2>4, <3>1 DEF BusWriteConfig, StackInv, TypeOK, ring
    <2> QED BY <2>1, <2>2, <2>3, <2>4 DEF BusEdge, Bus
<1>2. CASE gate
    BY <1>1, <1>2, PortsOfPhases, QuietType
       DEF BusEdge, StackInv, TypeOK, PromisesKept, Settling, Phases
<1>3. CASE ~gate
    <2>1. node_state = "RUN" /\ UNCHANGED <<node_state, o_active, node_output>>
        BY <1>3 DEF BusEdge, Gates
    <2> QED BY <1>1, <2>1 DEF StackInv, TypeOK, PromisesKept, Settling
<1> QED BY <1>2, <1>3 DEF Gates

LEMMA ConduitKeepsStackInv ==
    ASSUME StackInv, NEW i_active \in [Ports -> BOOLEAN],
           NEW i_value \in [Ports -> Int], ConduitEdge(i_active, i_value)
    PROVE  StackInv'
<1> USE BufferLengthAssumption
<1>1. /\ node_state' = NextPhase(node_state) /\ node_state' \in Phases
      /\ node_config' \in Word16 /\ readdata' \in Word16
      /\ node_output' \in TisInteger
    BY PortsOfPhases DEF ConduitEdge, StackInv, TypeOK
<1>2. Arriving(i_value) \in TisInteger
    BY PortsOfPhases, Clamped DEF Arriving, StackInv, TypeOK
<1>3. /\ values' \in [Slots -> TisInteger] /\ tail_ptr' \in Slots
      /\ head_ptr' \in Slots /\ count' \in 0 .. BufferLength
    <2> USE DEF StackInv, TypeOK
    <2>1. CASE RunPhase
        BY <2>1 DEF RunPhase, ring
    <2>2. CASE LeftPhase
        BY <2>2 DEF LeftPhase, ring
    <2>3. CASE Exchange(i_active, i_value)
        BY <2>3, <1>2 DEF Exchange
    <2>4. CASE Receive(i_active, i_value)
        BY <2>4, <1>2, PointersStay DEF Receive, Received, PromisesKept
    <2>5. CASE Send(i_active)
        BY <2>5, PointersStay DEF Send, Sent, PromisesKept
    <2>6. CASE Settle(i_active)
        BY <2>6 DEF Settle, ring
    <2> QED BY <2>1, <2>2, <2>3, <2>4, <2>5, <2>6 DEF ConduitEdge
<1>4. CASE node_state \in {"RUN", "FINISH"}
    <2>1. o_active' = Quiet /\ ~Settling'
        BY <1>1, <1>4 DEF ConduitEdge, RunPhase, LeftPhase, Exchange, Receive, Send,
                          Settle, Offer, Settling, NextPhase
    <2> QED BY <1>1, <1>3, <2>1, QuietType DEF StackInv, TypeOK, PromisesKept
<1>5. CASE node_state \in {"LEFT", "RIGHT", "UP", "DOWN"}
    <2>1. Settling' /\ node_state' \in {"RIGHT", "UP", "DOWN", "FINISH"}
        BY <1>1, <1>5 DEF Settling, NextPhase
    <2>2. /\ o_active' \in [Ports -> BOOLEAN]
          /\ o_active'[ReadPort(node_state')] => count' < BufferLength
          /\ o_active'[WritePort(node_state')] => count' > 0
        <3>1. count \in Nat
            BY DEF StackInv, TypeOK
        <3>2. CASE LeftPhase
            <4> DEFINE readable == ReadsLeft(node_config) /\ count < BufferLength
                       writable == WritesRight(node_config) /\ count > 0
            <4>1. Offer(readable, writable)
                BY <3>2, Zenon DEF LeftPhase, ring
            <4>2. readable \in BOOLEAN /\ writable \in BOOLEAN
                OBVIOUS
            <4>3. (readable => count' < BufferLength) /\ (writable => count' > 0)
                BY <3>2 DEF LeftPhase, ring
            <4> HIDE DEF readable, writable
            <4> QED BY <1>1, <1>5, <4>1, <4>2, <4>3, OfferRaises
        <3>3. CASE Exchange(i_active, i_value)
            BY <1>1, <1>5, <3>3, OfferRaises
               DEF Exchange, Received, Sent, PromisesKept, StackInv
        <3>4. CASE Receive(i_active, i_value)
            <4> DEFINE readable == count < BufferLength - 1
                       writable == TRUE
            <4>1. Offer(readable, writable)
                BY <3>4, Zenon DEF Receive
            <4>2. readable \in BOOLEAN /\ writable \in BOOLEAN
                OBVIOUS
            <4>3. (readable => count' < BufferLength) /\ (writable => count' > 0)
                BY <3>4, <3>1 DEF Receive
            <4> HIDE DEF readable, writable
            <4> QED BY <1>1, <1>5, <4>1, <4>2, <4>3, OfferRaises
        <3>5. CASE Send(i_active)
            <4> DEFINE readable == TRUE
                       writable == count > 1
            <4>1. Offer(readable, writable)
                BY <3>5, Zenon DEF Send
            <4>2. readable \in BOOLEAN /\ writable \in BOOLEAN
                OBVIOUS
            <4>3. (readable => count' < BufferLength) /\ (writable => count' > 0)
                BY <3>5, <3>1 DEF Send, Sent, PromisesKept, StackInv, TypeOK
            <4> HIDE DEF readable, writable
            <4> QED BY <1>1, <1>5, <4>1, <4>2, <4>3, OfferRaises
        <3>6. CASE Settle(i_active) /\ node_state = "DOWN"
            <4> DEFINE readable == count # BufferLength
                       writable == count # 0
            <4>1. o_active' = Lines("DOWN", readable, "RIGHT", writable)
                BY <3>6, Zenon DEF Settle
            <4>2. readable \in BOOLEAN /\ writable \in BOOLEAN
                OBVIOUS
            <4>3. (readable => count' < BufferLength) /\ ReadPort(node_state') = "DOWN"
                  /\ WritePort(node_state') = "UP"
                BY <3>6, <3>1, <1>1 DEF Settle, ring, NextPhase, ReadPort, WritePort,
                                        StackInv, TypeOK
            <4> HIDE DEF readable, writable
            <4> QED BY <4>1, <4>2, <4>3 DEF Lines, Ports
        <3>7. CASE Settle(i_active) /\ node_state # "DOWN"
            <4> DEFINE readable == count # BufferLength
                       writable == count # 0
            <4>1. Offer(readable, writable)
                BY <3>7, Zenon DEF Settle
            <4>2. readable \in BOOLEAN /\ writable \in BOOLEAN
                OBVIOUS
            <4>3. (readable => count' < BufferLength) /\ (writable => count' > 0)
                BY <3>7, <3>1 DEF Settle, ring, StackInv, TypeOK
            <4> HIDE DEF readable, writable
            <4> QED BY <1>1, <1>5, <4>1, <4>2, <4>3, OfferRaises
        <3> QED BY <1>5, <3>2, <3>3, <3>4, <3>5, <3>6, <3>7 DEF ConduitEdge, RunPhase
    <2> QED BY <1>1, <1>3, <2>1, <2>2 DEF StackInv, TypeOK, PromisesKept
<1> QED BY <1>4, <1>5 DEF StackInv, TypeOK, Phases

LEMMA NextKeepsStackInv == StackInv /\ [Next]_stackVars => StackInv'
<1> SUFFICES ASSUME StackInv, [Next]_stackVars PROVE StackInv'
    OBVIOUS
<1>1. CASE StackReset
    <2>1. TypeOK'
        BY <1>1, BufferLengthAssumption, QuietType, HalfwordType
           DEF StackReset, StackInv, TypeOK, Slots, Phases, TisInteger
    <2>2. PromisesKept'
        BY <1>1 DEF StackReset, PromisesKept, Settling
    <2> QED BY <2>1, <2>2 DEF StackInv
<1>2. CASE Clock
    <2>1. PICK gate \in Gates :
            \/ \E bus \in Access : StackEdge(gate, bus, Quiet, [p \in Ports |-> 0])
            \/ \E S \in SUBSET Wired, v \in NeighbourValues :
                   StackEdge(gate, NoAccess, Raise(S), [p \in Ports |-> v])
        BY <1>2 DEF Clock
    <2>2. ASSUME NEW bus \in Access, StackEdge(gate, bus, Quiet, [p \in Ports |-> 0])
          PROVE  StackInv'
        BY <2>2, BusKeepsStackInv DEF StackEdge, Access
    <2>3. ASSUME NEW S \in SUBSET Wired, NEW v \in NeighbourValues,
                 StackEdge(gate, NoAccess, Raise(S), [p \in Ports |-> v])
          PROVE  StackInv'
        <3>1. [p \in Ports |-> v] \in [Ports -> Int]
            BY StackAssumption DEF Word11
        <3>2. CASE ConduitEdge(Raise(S), [p \in Ports |-> v])
            BY <3>1, <3>2, RaiseType, ConduitKeepsStackInv
        <3>3. CASE UNCHANGED stackVars
            BY <3>3 DEF stackVars, StackInv, TypeOK, PromisesKept, Settling
        <3> QED BY <2>3, <3>2, <3>3 DEF StackEdge, NoAccess
    <2> QED BY <2>1, <2>2, <2>3
<1>3. CASE UNCHANGED stackVars
    BY <1>3 DEF stackVars, StackInv, TypeOK, PromisesKept, Settling
<1> QED BY <1>1, <1>2, <1>3 DEF Next

(* Every raised line can be honoured and the counter never leaves its      *)
(* range, for every configuration word, the ones that read LEFT included.  *)
THEOREM PromisesAreKept == Spec => [](TypeOK /\ PromisesKept)
<1>1. Init => StackInv
    <2> SUFFICES ASSUME Init PROVE TypeOK /\ PromisesKept
        BY DEF StackInv
    <2>1. TypeOK
        BY BufferLengthAssumption, QuietType, HalfwordType
           DEF Init, StackInit, TypeOK, Slots, Phases, TisInteger
    <2>2. PromisesKept
        BY DEF Init, StackInit, PromisesKept, Settling
    <2> QED BY <2>1, <2>2
<1> QED BY <1>1, NextKeepsStackInv, PTL DEF Spec, StackInv

(* The pointers address a slot of the buffer and the counter counts at     *)
(* most its slots: IncrementPTR and DecrementPTR wrap by comparing with    *)
(* one value only, and would run away past it.                             *)
THEOREM TypesHold == Spec => []TypeOK
BY PromisesAreKept, PTL

-----------------------------------------------------------------------------
(* The ring.  A stack that is never configured to read LEFT never raises   *)
(* that line, so the branch of phase RIGHT that moves the head to the slot *)
(* after the tail is not reached, and head, tail and count agree.          *)
NoReadLeft == \A config \in Configs : ~ReadsLeft(config)

RingInv ==
    /\ RingOK
    /\ ~ReadsLeft(node_config)
    /\ node_state = "RIGHT" => ~o_active["LEFT"]

LEMMA ZeroConfig == ~ReadsLeft(0)
BY DEF ReadsLeft

LEMMA NextKeepsRingInv ==
    ASSUME NoReadLeft, StackInv, RingInv, [Next]_stackVars
    PROVE  RingInv'
<1> USE BufferLengthAssumption
<1>1. CASE StackReset
    BY <1>1, ZeroConfig DEF StackReset, RingInv, RingOK, Slot
<1>2. CASE UNCHANGED stackVars
    BY <1>2 DEF stackVars, RingInv, RingOK, Slot
<1>3. ASSUME NEW bus \in Access, NEW gate \in Gates, BusEdge(gate, bus)
      PROVE  RingInv'
    <2>1. ~ReadsLeft(node_config')
        BY <1>3 DEF BusEdge, Bus, BusPop, BusReadConfig, BusPush, BusWriteConfig, Access,
                    NoReadLeft, RingInv
    <2>2. RingOK'
        <3> USE DEF StackInv, TypeOK, RingInv, RingOK, Slot, Slots
        <3>1. CASE BusPop
            BY <3>1 DEF BusPop, IncrementPTR
        <3>2. CASE BusReadConfig
            BY <3>2 DEF BusReadConfig, ring
        <3>3. CASE BusPush(bus.data)
            BY <3>3 DEF BusPush, DecrementPTR
        <3>4. CASE BusWriteConfig(bus.data)
            BY <3>4 DEF BusWriteConfig, ring
        <3> QED BY <1>3, <3>1, <3>2, <3>3, <3>4 DEF BusEdge, Bus
    <2>3. node_state' = "RIGHT" => ~o_active'["LEFT"]
        BY <1>3, QuietType DEF BusEdge, RingInv, Ports
    <2> QED BY <2>1, <2>2, <2>3 DEF RingInv
<1>4. ASSUME NEW i_active \in [Ports -> BOOLEAN], NEW i_value \in [Ports -> Int],
             ConduitEdge(i_active, i_value)
      PROVE  RingInv'
    <2>1. ~ReadsLeft(node_config')
        BY <1>4 DEF ConduitEdge, RingInv
    <2>2. RingOK'
        <3>1. CASE UNCHANGED ring \/ Exchange(i_active, i_value)
            BY <3>1 DEF ring, Exchange, RingInv, RingOK, Slot
        <3>2. CASE Receive(i_active, i_value)
            <4>1. node_state # "RIGHT" /\ count < BufferLength
                BY <3>2 DEF Receive, Received, ReadPort, RingInv, StackInv, PromisesKept
            <4> QED BY <3>2, <4>1
                    DEF Receive, IncrementPTR, StackInv, TypeOK, RingInv, RingOK, Slot, Slots
        <3>3. CASE Send(i_active)
            <4>1. count > 0
                BY <3>3 DEF Send, Sent, StackInv, PromisesKept
            <4> QED BY <3>3, <4>1
                    DEF Send, DecrementPTR, StackInv, TypeOK, RingInv, RingOK, Slot, Slots
        <3> QED BY <1>4, <3>1, <3>2, <3>3 DEF ConduitEdge, RunPhase, LeftPhase, Settle
    <2>3. node_state' = "RIGHT" => ~o_active'["LEFT"]
        <3> SUFFICES ASSUME node_state' = "RIGHT" PROVE ~o_active'["LEFT"]
            OBVIOUS
        <3>1. node_state = "LEFT"
            BY <1>4 DEF ConduitEdge, NextPhase, StackInv, TypeOK, Phases
        <3>2. LeftPhase
            BY <1>4, <3>1 DEF ConduitEdge, RunPhase, Exchange, Receive, Send, Settle, Settling
        <3> DEFINE readable == ReadsLeft(node_config) /\ count < BufferLength
                   writable == WritesRight(node_config) /\ count > 0
        <3>3. o_active' = Lines("LEFT", readable, "RIGHT", writable)
            BY <3>1, <3>2, Zenon DEF LeftPhase, Offer, NextPhase, ReadPort, WritePort
        <3>4. ~readable
            BY DEF RingInv
        <3> HIDE DEF readable, writable
        <3> QED BY <3>3, <3>4 DEF Lines, Ports
    <2> QED BY <2>1, <2>2, <2>3 DEF RingInv
<1>5. CASE Clock
    <2>1. PICK gate \in Gates :
            \/ \E bus \in Access : StackEdge(gate, bus, Quiet, [p \in Ports |-> 0])
            \/ \E S \in SUBSET Wired, v \in NeighbourValues :
                   StackEdge(gate, NoAccess, Raise(S), [p \in Ports |-> v])
        BY <1>5 DEF Clock
    <2>2. ASSUME NEW bus \in Access, StackEdge(gate, bus, Quiet, [p \in Ports |-> 0])
          PROVE  RingInv'
        BY <2>2, <1>3 DEF StackEdge, Access
    <2>3. ASSUME NEW S \in SUBSET Wired, NEW v \in NeighbourValues,
                 StackEdge(gate, NoAccess, Raise(S), [p \in Ports |-> v])
          PROVE  RingInv'
        <3>1. [p \in Ports |-> v] \in [Ports -> Int]
            BY StackAssumption DEF Word11
        <3> QED BY <2>3, <3>1, <1>2, <1>4, RaiseType DEF StackEdge, NoAccess
    <2> QED BY <2>1, <2>2, <2>3
<1> QED BY <1>1, <1>2, <1>5 DEF Next

(* Whatever the length of the buffer, the neighbours and the master do,    *)
(* the pointers and the counter of a stack that is never told to read LEFT *)
(* describe one run of slots.                                              *)
THEOREM RingHolds ==
    ASSUME NoReadLeft
    PROVE  Spec => []RingOK
<1>1. Init => RingInv
    BY ZeroConfig, BufferLengthAssumption DEF Init, StackInit, RingInv, RingOK, Slot
<1>2. StackInv /\ RingInv /\ [Next]_stackVars => RingInv'
    BY NextKeepsRingInv
<1> QED BY <1>1, <1>2, PromisesAreKept, PTL DEF Spec, StackInv, RingInv
-----------------------------------------------------------------------------
(* The deque.  n values of the ring v from the slot after t. *)
SlotAfter(t, i) == IF t + i < BufferLength THEN t + i ELSE t + i - BufferLength
Run(v, t, n) == [i \in 1 .. n |-> v[SlotAfter(t, i)]]
Rings == [Slots -> TisInteger]

LEMMA ContentsAreARun ==
    /\ Contents = Run(values, tail_ptr, count)
    /\ Contents' = Run(values', tail_ptr', count')
BY DEF Contents, Run, Slot, SlotAfter

LEMMA SlotsApart ==
    ASSUME NEW t \in Slots
    PROVE  /\ \A i \in 0 .. BufferLength : SlotAfter(t, i) \in Slots
           /\ \A i, j \in 0 .. BufferLength - 1 : SlotAfter(t, i) = SlotAfter(t, j) => i = j
           /\ SlotAfter(t, 0) = t /\ SlotAfter(t, 1) = IncrementPTR(t)
           /\ SlotAfter(DecrementPTR(t), 1) = t
           /\ \A i \in 0 .. BufferLength - 1 :
                 /\ SlotAfter(IncrementPTR(t), i) = SlotAfter(t, i + 1)
                 /\ SlotAfter(DecrementPTR(t), i + 1) = SlotAfter(t, i)
                 /\ IncrementPTR(SlotAfter(t, i)) = SlotAfter(t, i + 1)
BY BufferLengthAssumption DEF Slots, SlotAfter, IncrementPTR, DecrementPTR

LEMMA RunType ==
    ASSUME NEW v \in Rings, NEW t \in Slots, NEW n \in 0 .. BufferLength
    PROVE  /\ Run(v, t, n) \in Seq(TisInteger) /\ Len(Run(v, t, n)) = n
           /\ \A i \in 1 .. n : Run(v, t, n)[i] = v[SlotAfter(t, i)]
           /\ n = 0 <=> Run(v, t, n) = <<>>
<1>1. n \in Nat
    BY BufferLengthAssumption
<1>2. \A i \in 1 .. n : v[SlotAfter(t, i)] \in TisInteger
    BY <1>1, SlotsApart, BufferLengthAssumption DEF Rings
<1>3. Run(v, t, n) \in [1 .. n -> TisInteger]
    BY <1>2 DEF Run
<1>4. Run(v, t, n) \in Seq(TisInteger) /\ Len(Run(v, t, n)) = n
    BY <1>1, <1>3
<1>5. n = 0 <=> Run(v, t, n) = <<>>
    BY <1>4
<1> QED BY <1>4, <1>5 DEF Run

LEMMA SameSequence ==
    ASSUME NEW s \in Seq(TisInteger), NEW r \in Seq(TisInteger), Len(s) = Len(r),
           \A i \in 1 .. Len(s) : s[i] = r[i]
    PROVE  s = r
OBVIOUS

(* The master's end. *)
LEMMA RunPushed ==
    ASSUME NEW v \in Rings, NEW t \in Slots, NEW n \in 0 .. BufferLength - 1, NEW x \in TisInteger
    PROVE  LET s == Run([v EXCEPT ![t] = x], DecrementPTR(t), n + 1)
           IN s # <<>> /\ Tail(s) = Run(v, t, n) /\ Head(s) = x
<1> DEFINE u == [v EXCEPT ![t] = x]
           s == Run(u, DecrementPTR(t), n + 1)
           r == Run(v, t, n)
<1>1. /\ u \in Rings /\ DecrementPTR(t) \in Slots /\ n + 1 \in 0 .. BufferLength
      /\ n \in 0 .. BufferLength /\ u[t] = x
    BY PointersStay, BufferLengthAssumption DEF Rings
<1>2. /\ s \in Seq(TisInteger) /\ Len(s) = n + 1
      /\ \A i \in 1 .. n + 1 : s[i] = u[SlotAfter(DecrementPTR(t), i)]
    BY <1>1, RunType
<1>3. r \in Seq(TisInteger) /\ Len(r) = n /\ \A i \in 1 .. n : r[i] = v[SlotAfter(t, i)]
    BY <1>1, RunType
<1>4. \A i \in 1 .. n : u[SlotAfter(DecrementPTR(t), i + 1)] = v[SlotAfter(t, i)]
    <2>1. \A i \in 1 .. n : /\ SlotAfter(DecrementPTR(t), i + 1) = SlotAfter(t, i)
                            /\ SlotAfter(t, i) \in Slots /\ SlotAfter(t, i) # t
        BY SlotsApart, BufferLengthAssumption
    <2> QED BY <2>1 DEF Rings
<1>5. u[SlotAfter(DecrementPTR(t), 1)] = x
    BY <1>1, SlotsApart
<1> HIDE DEF u, s, r
<1>6. s # <<>> /\ Head(s) = x
    BY <1>2, <1>5, BufferLengthAssumption
<1>7. Tail(s) \in Seq(TisInteger) /\ Len(Tail(s)) = n /\ \A i \in 1 .. n : Tail(s)[i] = s[i + 1]
    BY <1>2, <1>6, BufferLengthAssumption
<1>8. Tail(s) = r
    BY <1>2, <1>3, <1>4, <1>7, SameSequence, BufferLengthAssumption
<1> QED BY <1>6, <1>8 DEF s, r, u

LEMMA RunPopped ==
    ASSUME NEW v \in Rings, NEW t \in Slots, NEW n \in 1 .. BufferLength
    PROVE  LET s == Run(v, t, n)
           IN /\ s # <<>> /\ Head(s) = v[IncrementPTR(t)]
              /\ Run(v, IncrementPTR(t), n - 1) = Tail(s)
<1> DEFINE s == Run(v, t, n)
           r == Run(v, IncrementPTR(t), n - 1)
<1>1. IncrementPTR(t) \in Slots /\ n - 1 \in 0 .. BufferLength /\ n \in 0 .. BufferLength
    BY PointersStay, BufferLengthAssumption
<1>2. s \in Seq(TisInteger) /\ Len(s) = n /\ \A i \in 1 .. n : s[i] = v[SlotAfter(t, i)]
    BY <1>1, RunType
<1>3. /\ r \in Seq(TisInteger) /\ Len(r) = n - 1
      /\ \A i \in 1 .. n - 1 : r[i] = v[SlotAfter(IncrementPTR(t), i)]
    BY <1>1, RunType
<1>4. \A i \in 1 .. n - 1 : SlotAfter(IncrementPTR(t), i) = SlotAfter(t, i + 1)
    BY SlotsApart, BufferLengthAssumption
<1>5. SlotAfter(t, 1) = IncrementPTR(t)
    BY SlotsApart
<1> HIDE DEF s, r
<1>6. s # <<>> /\ Head(s) = v[IncrementPTR(t)]
    BY <1>2, <1>5, BufferLengthAssumption
<1>7. Tail(s) \in Seq(TisInteger) /\ Len(Tail(s)) = n - 1
      /\ \A i \in 1 .. n - 1 : Tail(s)[i] = s[i + 1]
    BY <1>2, <1>6, BufferLengthAssumption
<1>8. \A i \in 1 .. n - 1 : Tail(s)[i] = r[i]
    BY <1>2, <1>3, <1>4, <1>7, BufferLengthAssumption, SMTT(30)
<1>9. Tail(s) = r
    BY <1>3, <1>7, <1>8, SameSequence
<1> QED BY <1>6, <1>9 DEF s, r

(* The neighbours' end. *)
LEMMA RunFront ==
    ASSUME NEW v \in Rings, NEW t \in Slots, NEW n \in 1 .. BufferLength,
           NEW w \in Rings, \A i \in 1 .. n - 1 : w[SlotAfter(t, i)] = v[SlotAfter(t, i)]
    PROVE  LET s == Run(v, t, n)
           IN /\ s # <<>> /\ Deque!Last(s) = v[SlotAfter(t, n)]
              /\ Deque!Front(s) = Run(w, t, n - 1)
<1> DEFINE s == Run(v, t, n)
           r == Run(w, t, n - 1)
           f == SubSeq(s, 1, Len(s) - 1)
<1>1. n - 1 \in 0 .. BufferLength /\ n \in 0 .. BufferLength
    BY BufferLengthAssumption
<1>2. s \in Seq(TisInteger) /\ Len(s) = n /\ \A i \in 1 .. n : s[i] = v[SlotAfter(t, i)]
    BY <1>1, RunType
<1>3. /\ r \in Seq(TisInteger) /\ Len(r) = n - 1
      /\ \A i \in 1 .. n - 1 : r[i] = w[SlotAfter(t, i)]
    BY <1>1, RunType
<1> HIDE DEF s, r
<1>4. s # <<>> /\ s[Len(s)] = v[SlotAfter(t, n)]
    BY <1>2, BufferLengthAssumption
<1>5. f \in Seq(TisInteger) /\ Len(f) = n - 1 /\ \A i \in 1 .. n - 1 : f[i] = s[i]
    BY <1>2, BufferLengthAssumption
<1> HIDE DEF f
<1>6. \A i \in 1 .. n - 1 : f[i] = r[i]
    BY <1>2, <1>3, <1>5, BufferLengthAssumption
<1>7. f = r
    BY <1>3, <1>5, <1>6, SameSequence
<1> QED BY <1>4, <1>7 DEF s, r, f, Deque!Last, Deque!Front

(* What the invariants say of the ring in these terms. *)
LEMMA RingNow ==
    ASSUME StackInv, RingInv
    PROVE  /\ values \in Rings /\ tail_ptr \in Slots /\ count \in 0 .. BufferLength
           /\ head_ptr \in Slots /\ head_ptr = SlotAfter(tail_ptr, count)
           /\ Contents \in Seq(TisInteger) /\ Len(Contents) = count
           /\ count = 0 <=> Contents = <<>>
<1>1. /\ values \in Rings /\ tail_ptr \in Slots /\ count \in 0 .. BufferLength
      /\ head_ptr \in Slots /\ head_ptr = SlotAfter(tail_ptr, count)
    BY DEF StackInv, TypeOK, RingInv, RingOK, Rings, Slot, SlotAfter
<1> QED BY <1>1, ContentsAreARun, RunType

DequeStep == Deque!Next \/ UNCHANGED Deque!dequeVars

LEMMA SameWords ==
    /\ Deque!Word16 = Word16 /\ Deque!TisInteger = TisInteger /\ Deque!EmptyAnswer = EmptyAnswer
    /\ \A v : Deque!Halfword(v) = Halfword(v)
<1>1. Deque!Halfwords = Halfwords
    BY DEF Deque!Halfwords, Halfwords
<1> QED BY <1>1 DEF Deque!Word16, Word16, Deque!TisInteger, TisInteger, Deque!EmptyAnswer,
                    EmptyAnswer, Deque!Halfword, Halfword

LEMMA BusIsADequeStep ==
    ASSUME StackInv, StackInv', RingInv, NEW bus \in Access, Bus(bus)
    PROVE  DequeStep
<1>1. /\ values \in Rings /\ tail_ptr \in Slots /\ count \in 0 .. BufferLength
      /\ Contents = Run(values, tail_ptr, count) /\ Len(Contents) = count
      /\ count = 0 <=> Contents = <<>>
      /\ Contents' = Run(values', tail_ptr', count') /\ readdata' \in Word16
    BY RingNow, ContentsAreARun DEF StackInv, TypeOK
<1>2. CASE BusPop
    <2>1. CASE count = 0
        <3>1. Contents' = Contents
            BY <1>1, <1>2, <2>1 DEF BusPop
        <3> QED BY <1>1, <3>1, SameWords DEF DequeStep, Deque!Next, Deque!MasterLooks
    <2>2. CASE count # 0
        <3>1. /\ Contents # <<>> /\ Head(Contents) = values[IncrementPTR(tail_ptr)]
              /\ Contents' = Tail(Contents)
            <4>1. count \in 1 .. BufferLength
                BY <1>1, <2>2, BufferLengthAssumption
            <4>2. Contents' = Run(values, IncrementPTR(tail_ptr), count - 1)
                BY <1>1, <1>2, <2>2 DEF BusPop
            <4> QED BY <1>1, <4>1, <4>2, RunPopped
        <3>2. readdata' = Halfword(Head(Contents))
            BY <1>2, <2>2, <3>1 DEF BusPop
        <3>3. Deque!MasterPop
            BY <3>1, <3>2, SameWords DEF Deque!MasterPop
        <3> QED BY <3>3 DEF DequeStep, Deque!Next
    <2> QED BY <2>1, <2>2
<1>3. CASE BusReadConfig
    <2>1. Contents' = Contents
        BY <1>1, <1>3 DEF BusReadConfig, ring
    <2> QED BY <1>1, <2>1, SameWords DEF DequeStep, Deque!Next, Deque!MasterLooks
<1>4. CASE BusWriteConfig(bus.data)
    <2>1. Contents' = Contents /\ readdata' = readdata
        BY <1>1, <1>4 DEF BusWriteConfig, ring
    <2> QED BY <2>1 DEF DequeStep, Deque!dequeVars
<1>5. CASE bus.op = "write" /\ BusPush(bus.data)
    <2>1. CASE count < BufferLength
        <3> DEFINE x == ToTisInteger(SignedHalfword(bus.data))
        <3>1. x \in TisInteger
            <4>1. bus.data \in Word16
                BY <1>5, StackAssumption, HalfwordType DEF Access
            <4> QED BY <4>1, HalfwordType, Clamped
        <3>2. Contents' = Run([values EXCEPT ![tail_ptr] = x], DecrementPTR(tail_ptr), count + 1)
              /\ readdata' = readdata
            BY <1>1, <1>5, <2>1 DEF BusPush
        <3> HIDE DEF x
        <3>3. Contents' # <<>> /\ Tail(Contents') = Contents /\ Head(Contents') = x
            <4>1. count \in 0 .. BufferLength - 1
                BY <1>1, <2>1, BufferLengthAssumption
            <4> DEFINE s == Run([values EXCEPT ![tail_ptr] = x], DecrementPTR(tail_ptr), count + 1)
            <4>2. s # <<>> /\ Tail(s) = Run(values, tail_ptr, count) /\ Head(s) = x
                BY <1>1, <3>1, <4>1, RunPushed
            <4> HIDE DEF s
            <4>3. Contents' = s
                BY <3>2 DEF s
            <4> QED BY <1>1, <4>2, <4>3
        <3>4. Deque!MasterPush
            BY <1>1, <2>1, <3>1, <3>2, <3>3, SameWords DEF Deque!MasterPush
        <3> QED BY <3>4 DEF DequeStep, Deque!Next
    <2>2. CASE ~(count < BufferLength)
        <3>1. Contents' = Contents /\ readdata' = readdata
            BY <1>1, <1>5, <2>2 DEF BusPush
        <3> QED BY <3>1 DEF DequeStep, Deque!dequeVars
    <2> QED BY <2>1, <2>2
<1> QED BY <1>2, <1>3, <1>4, <1>5 DEF Bus

LEMMA ConduitIsADequeStep ==
    ASSUME StackInv, StackInv', RingInv, NEW i_active \in [Ports -> BOOLEAN],
           NEW i_value \in [Ports -> Int], ConduitEdge(i_active, i_value)
    PROVE  DequeStep
<1> DEFINE x == Arriving(i_value)
<1>1. /\ values \in Rings /\ tail_ptr \in Slots /\ count \in 0 .. BufferLength
      /\ head_ptr \in Slots /\ head_ptr = SlotAfter(tail_ptr, count)
      /\ Contents = Run(values, tail_ptr, count) /\ Len(Contents) = count
      /\ Contents' = Run(values', tail_ptr', count')
    BY RingNow, ContentsAreARun
<1>2. values' \in Rings /\ readdata' = readdata /\ x \in TisInteger
    <2>1. x \in TisInteger
        BY PortsOfPhases, Clamped DEF Arriving, StackInv, TypeOK
    <2> QED BY <2>1 DEF StackInv, TypeOK, Rings, ConduitEdge
<1> HIDE DEF x
<1>3. CASE UNCHANGED ring
    <2>1. Contents' = Contents
        BY <1>1, <1>3 DEF ring
    <2> QED BY <1>2, <2>1 DEF DequeStep, Deque!dequeVars
<1>4. CASE Exchange(i_active, i_value)
    <2>1. count \in 1 .. BufferLength /\ tail_ptr' = tail_ptr /\ count' = count
        BY <1>1, <1>4, BufferLengthAssumption DEF Exchange, Sent, StackInv, PromisesKept
    <2>2. values' = [values EXCEPT ![head_ptr] = x]
        BY <1>4 DEF Exchange, x
    <2>3. \A i \in 1 .. count - 1 : values'[SlotAfter(tail_ptr, i)] = values[SlotAfter(tail_ptr, i)]
        <3>1. ASSUME NEW i \in 1 .. count - 1
              PROVE  SlotAfter(tail_ptr, i) # head_ptr /\ SlotAfter(tail_ptr, i) \in Slots
            BY <1>1, <2>1, BufferLengthAssumption DEF SlotAfter, Slots
        <3> QED BY <1>1, <2>2, <3>1 DEF Rings
    <2>4. values'[head_ptr] = x
        BY <1>1, <2>2 DEF Rings
    <2>5. Contents # <<>> /\ Deque!Front(Contents) = Run(values, tail_ptr, count - 1)
        BY <1>1, <2>1, RunFront
    <2>6. /\ Contents' # <<>> /\ Deque!Last(Contents') = x
          /\ Deque!Front(Contents') = Run(values, tail_ptr, count - 1)
        <3>1. Contents' = Run(values', tail_ptr, count)
            BY <1>1, <2>1
        <3>2. \A i \in 1 .. count - 1 :
                  values[SlotAfter(tail_ptr, i)] = values'[SlotAfter(tail_ptr, i)]
            BY <2>3
        <3>3. LET s == Run(values', tail_ptr, count)
              IN /\ s # <<>> /\ Deque!Last(s) = values'[SlotAfter(tail_ptr, count)]
                 /\ Deque!Front(s) = Run(values, tail_ptr, count - 1)
            BY <1>1, <1>2, <2>1, <3>2, RunFront
        <3> QED BY <1>1, <2>4, <3>1, <3>3
    <2>7. Deque!NeighbourSwap
        BY <1>2, <2>5, <2>6, SameWords DEF Deque!NeighbourSwap
    <2> QED BY <2>7 DEF DequeStep, Deque!Next
<1>5. CASE Receive(i_active, i_value)
    <2>1. node_state # "RIGHT" /\ count < BufferLength
        BY <1>5 DEF Receive, Received, ReadPort, RingInv, StackInv, PromisesKept
    <2>2. /\ values' = [values EXCEPT ![IncrementPTR(head_ptr)] = x] /\ tail_ptr' = tail_ptr
          /\ count' = count + 1
        BY <1>5 DEF Receive, x
    <2>3. count + 1 \in 1 .. BufferLength /\ (count + 1) - 1 = count
        BY <1>1, <2>1, BufferLengthAssumption
    <2>4. IncrementPTR(head_ptr) = SlotAfter(tail_ptr, count + 1)
          /\ IncrementPTR(head_ptr) \in Slots
        <3>1. count \in 0 .. BufferLength - 1
            BY <1>1, <2>1, BufferLengthAssumption
        <3> QED BY <1>1, <3>1, SlotsApart, PointersStay
    <2>5. ASSUME NEW i \in 1 .. count
          PROVE  values[SlotAfter(tail_ptr, i)] = values'[SlotAfter(tail_ptr, i)]
        <3>1. SlotAfter(tail_ptr, i) # SlotAfter(tail_ptr, count + 1)
              /\ SlotAfter(tail_ptr, i) \in Slots
            BY <1>1, <2>1, BufferLengthAssumption DEF SlotAfter, Slots
        <3> QED BY <2>2, <2>4, <3>1, <1>1 DEF Rings
    <2>6. values'[SlotAfter(tail_ptr, count + 1)] = x
        BY <1>1, <2>2, <2>4 DEF Rings
    <2>7. LET s == Run(values', tail_ptr, count + 1)
          IN /\ s # <<>> /\ Deque!Last(s) = values'[SlotAfter(tail_ptr, count + 1)]
             /\ Deque!Front(s) = Run(values, tail_ptr, (count + 1) - 1)
        <3> DEFINE n == count + 1
        <3>1. n \in 1 .. BufferLength /\ n - 1 = count
            BY <2>3
        <3> HIDE DEF n
        <3>2. \A i \in 1 .. n - 1 :
                  values[SlotAfter(tail_ptr, i)] = values'[SlotAfter(tail_ptr, i)]
            BY <2>5, <3>1
        <3>3. LET s == Run(values', tail_ptr, n)
              IN /\ s # <<>> /\ Deque!Last(s) = values'[SlotAfter(tail_ptr, n)]
                 /\ Deque!Front(s) = Run(values, tail_ptr, n - 1)
            BY <1>1, <1>2, <3>1, <3>2, RunFront
        <3> QED BY <3>3 DEF n
    <2>8. /\ Contents' # <<>> /\ Deque!Last(Contents') = x /\ Deque!Front(Contents') = Contents
        BY <1>1, <2>2, <2>3, <2>6, <2>7
    <2>9. Deque!NeighbourPush
        BY <1>1, <1>2, <2>1, <2>8, SameWords DEF Deque!NeighbourPush
    <2> QED BY <2>9 DEF DequeStep, Deque!Next
<1>6. CASE Send(i_active)
    <2>1. count \in 1 .. BufferLength /\ values' = values /\ tail_ptr' = tail_ptr
          /\ count' = count - 1
        BY <1>1, <1>6, BufferLengthAssumption DEF Send, Sent, StackInv, PromisesKept
    <2>2. Contents # <<>> /\ Deque!Front(Contents) = Contents'
        BY <1>1, <2>1, RunFront
    <2>3. Deque!NeighbourPop
        BY <1>2, <2>2 DEF Deque!NeighbourPop
    <2> QED BY <2>3 DEF DequeStep, Deque!Next
<1> QED BY <1>3, <1>4, <1>5, <1>6 DEF ConduitEdge, RunPhase, LeftPhase, Settle

LEMMA StepIsADequeStep ==
    ASSUME StackInv, StackInv', RingInv, [Next]_stackVars
    PROVE  DequeStep
<1>1. CASE StackReset
    <2>1. Contents' = <<>> /\ readdata' = EmptyAnswer
        BY <1>1 DEF StackReset, Contents
    <2>2. Deque!Clear
        BY <2>1, SameWords DEF Deque!Clear
    <2> QED BY <2>2 DEF DequeStep, Deque!Next
<1>2. ASSUME UNCHANGED stackVars PROVE DequeStep
    <2>1. Contents' = Contents /\ readdata' = readdata
        BY <1>2 DEF stackVars, Contents, Slot
    <2> QED BY <2>1 DEF DequeStep, Deque!dequeVars
<1>3. CASE Clock
    <2>1. PICK gate \in Gates :
            \/ \E bus \in Access : StackEdge(gate, bus, Quiet, [p \in Ports |-> 0])
            \/ \E S \in SUBSET Wired, v \in NeighbourValues :
                   StackEdge(gate, NoAccess, Raise(S), [p \in Ports |-> v])
        BY <1>3 DEF Clock
    <2>2. ASSUME NEW bus \in Access, StackEdge(gate, bus, Quiet, [p \in Ports |-> 0])
          PROVE  DequeStep
        BY <2>2, BusIsADequeStep DEF StackEdge, Access, BusEdge
    <2>3. ASSUME NEW S \in SUBSET Wired, NEW v \in NeighbourValues,
                 StackEdge(gate, NoAccess, Raise(S), [p \in Ports |-> v])
          PROVE  DequeStep
        <3>1. [p \in Ports |-> v] \in [Ports -> Int]
            BY StackAssumption DEF Word11
        <3> QED BY <2>3, <3>1, <1>2, ConduitIsADequeStep, RaiseType DEF StackEdge, NoAccess
    <2> QED BY <2>1, <2>2, <2>3
<1> QED BY <1>1, <1>2, <1>3 DEF Next

(* A stack node that is never told to read LEFT is the bounded deque of    *)
(* TisDeque, whatever its length: pointers, phases and handshakes of       *)
(* tis_stack_node.vhd lose, repeat or move no value, and the master and    *)
(* the neighbours only ever touch the two ends.                            *)
THEOREM ImplementsDeque ==
    ASSUME NoReadLeft
    PROVE  Spec => DequeSpec
<1>1. Init => RingInv
    BY ZeroConfig, BufferLengthAssumption DEF Init, StackInit, RingInv, RingOK, Slot
<1>2. Init => Deque!Init
    BY SameWords DEF Init, StackInit, Deque!Init, Contents
<1>3. StackInv /\ RingInv /\ [Next]_stackVars => RingInv'
    BY NextKeepsRingInv
<1>4. StackInv /\ StackInv' /\ RingInv /\ [Next]_stackVars => [Deque!Next]_(Deque!dequeVars)
    BY StepIsADequeStep DEF DequeStep
<1> QED BY <1>1, <1>2, <1>3, <1>4, PromisesAreKept, PTL
        DEF Spec, StackInv, DequeSpec, Deque!Spec
=============================================================================
