-------------------------- MODULE TisSystemProofs --------------------------
(***************************************************************************)
(* What the whole fabric does to the values that go through it, for every  *)
(* buffer length, any number of inputs and outputs, and every program of   *)
(* the shape the demo applications load: read UP, compute, write DOWN.     *)
(***************************************************************************)
EXTENDS TisSystem, SequenceTheorems, TLAPS

-----------------------------------------------------------------------------
(* The programs.  The word executed with the program counter at k is p[k + 1]. *)
LastOf(p) == Bits(p[0], 3, 0)

Moves(w, from, to) == Group(w) = "mov_register" /\ Source(w) = from /\ Destination(w) = to

(* A word that looks at the registers alone and goes on to the next. *)
Plain(w) ==
    /\ Operation(w) \notin {"JRO", "JMP"}
    /\ \/ Group(w) \in {"no_operand", "alu_immediate"}
       \/ Group(w) = "alu_register" /\ Source(w) \in {"NIL", "ACC"}

OperandOf(w, acc) == IF Group(w) = "alu_immediate" THEN AluImmediate(w)
                     ELSE IF Source(w) = "ACC" THEN acc ELSE 0

Files == [acc : Word11, bak : Word11]

(* What such a word makes of ACC and BAK. *)
Computed(w, r) ==
    [acc |-> CASE Operation(w) = "ADD" -> Wrap11(r.acc + OperandOf(w, r.acc))
               [] Operation(w) = "SUB" -> Wrap11(r.acc - OperandOf(w, r.acc))
               [] Operation(w) = "NEG" -> Wrap11(-r.acc)
               [] Operation(w) = "SWP" -> r.bak
               [] OTHER -> r.acc,
     bak |-> IF Operation(w) \in {"SAV", "SWP"} THEN r.acc ELSE r.bak]

(* MOV UP,DOWN alone. *)
Copies(p) ==
    /\ LastOf(p) = 0
    /\ Moves(p[1], "UP", "DOWN")
    /\ \A v \in 1 .. Inputs : Outcome(p, v) = v

(* f is what the registers hold before each word, once v has been read and *)
(* BAK was left at b by the value before it.                               *)
Traces(p, f, v, b) ==
    /\ f \in [1 .. LastOf(p) -> Files]
    /\ f[1] = [acc |-> v, bak |-> b]
    /\ \A k \in 1 .. LastOf(p) - 1 : f[k + 1] = Computed(p[k + 1], f[k])
    /\ f[LastOf(p)].acc = Outcome(p, v)

(* MOV UP,ACC, then arithmetic, then MOV ACC,DOWN. *)
Computes(p) ==
    /\ LastOf(p) \in 1 .. 14
    /\ Moves(p[1], "UP", "ACC")
    /\ \A k \in 1 .. LastOf(p) - 1 : Plain(p[k + 1])
    /\ Moves(p[LastOf(p) + 1], "ACC", "DOWN")
    /\ \A v \in 1 .. Inputs, b \in Word11 : \E f : Traces(p, f, v, b)

(* The programs make of every input a number that fits a stack. *)
Served ==
    /\ Inputs <= 999
    /\ \A p \in Programs :
           /\ p \in [0 .. 15 -> Word16]
           /\ Copies(p) \/ Computes(p)
           /\ \A v \in 1 .. Inputs : Outcome(p, v) \in TisInteger

(* And the greater of two inputs does not give the smaller result. *)
Monotone ==
    \A p \in Programs, v, w \in 1 .. Inputs : v <= w => Outcome(p, v) <= Outcome(p, w)

-----------------------------------------------------------------------------
(* The invariant, part by part.                                            *)

(* Nodes and controller share the phase while the gate is open. *)
Gated == IF active THEN ctl_state ELSE "RUN"

InStep ==
    /\ ctl_state \in Phases /\ active \in BOOLEAN
    /\ in_state = Gated /\ exec_state = Gated /\ out_state = Gated

(* The host pushes 1, 2, 3 ... *)
HostInv ==
    /\ \/ bus = NoAccess
       \/ bus = Pop
       \/ Len(pushed) < Inputs /\ bus = Push(Len(pushed) + 1)
    /\ pushed \in Seq(Int) /\ Len(pushed) <= Inputs
    /\ \A i \in 1 .. Len(pushed) : pushed[i] = i
    /\ popped \in Seq(Int)

Slots == 0 .. BufferLength - 1
SlotAfter(t, i) == IF t + i < BufferLength THEN t + i ELSE t + i - BufferLength

(* The input stack holds the last in_count inputs, the latest at the tail; *)
(* a line it raises to the node shows the one at the head.                 *)
InputInv ==
    /\ in_values \in [Slots -> TisInteger]
    /\ in_tail_ptr \in Slots /\ in_count \in 0 .. BufferLength
    /\ in_count <= Len(pushed)
    /\ in_head_ptr = SlotAfter(in_tail_ptr, in_count)
    /\ \A i \in 1 .. in_count : in_values[SlotAfter(in_tail_ptr, i)] = Len(pushed) + 1 - i
    /\ in_config = 0
    /\ in_active \in [Ports -> BOOLEAN]
    /\ in_state = "DOWN" /\ in_active["DOWN"] =>
           in_count > 0 /\ in_output = in_values[in_head_ptr]

(* The output stack has room for what it asks for. *)
OutputInv ==
    /\ out_values \in [Slots -> TisInteger]
    /\ out_tail_ptr \in Slots /\ out_count \in 0 .. BufferLength
    /\ out_head_ptr = SlotAfter(out_tail_ptr, out_count)
    /\ out_config = 0
    /\ out_active \in [Ports -> BOOLEAN]
    /\ out_state = "DOWN" /\ out_active["UP"] => out_count < BufferLength

(* The node raises a line for the phase that settles it and no longer.     *)
LinesInv ==
    /\ exec_active \in [Ports -> BOOLEAN]
    /\ exec_active["UP"] <=>
           (exec_state = "DOWN" /\ node_io_read /\ node_src_reg = "UP")
    /\ exec_active["DOWN"] <=>
           (exec_state = "DOWN" /\ ~node_io_read /\ node_io_write /\ node_dst_reg = "DOWN")

RegistersInv ==
    /\ memory \in Programs
    /\ node_io_read \in BOOLEAN /\ node_io_write \in BOOLEAN
    /\ node_bak \in Word11

Idle == ~node_io_read /\ ~node_io_write

(* Between two values: the last one delivered, the next not yet asked for, *)
(* or asked for.                                                           *)
Asking ==
    \/ node_pc = LastOf(memory) /\ exec_state = "FINISH" /\ Idle
    \/ node_pc = 0 /\ exec_state = "RUN" /\ Idle
    \/ /\ node_pc = 0 /\ node_io_read /\ node_io_write
       /\ node_src_reg = "UP" /\ node_dst_reg = Destination(memory[1])

(* With the result x on its way out. *)
Sending(x) ==
    /\ node_pc = LastOf(memory) /\ ~node_io_read /\ node_io_write
    /\ node_dst_reg = "DOWN" /\ node_io_value = x

(* v has just been read into the register it is for. *)
JustRead(v) ==
    /\ node_pc = 0 /\ exec_state = "FINISH" /\ ~node_io_read /\ node_io_write
    /\ node_dst_reg = "ACC" /\ node_io_value = v

(* The registers are what the trace f has for the word that is next. *)
At(f, v, b) ==
    /\ Traces(memory, f, v, b)
    /\ node_pc \in 1 .. LastOf(memory)
    /\ node_acc = f[node_pc].acc /\ node_bak = f[node_pc].bak

PlainNext ==
    /\ node_pc < LastOf(memory) /\ Idle
    /\ exec_state # "RUN" /\ Group(memory[node_pc + 1]) # "no_operand" =>
           node_io_value = OperandOf(memory[node_pc + 1], node_acc)

MoveNext == node_pc = LastOf(memory) /\ exec_state = "RUN" /\ Idle

MoveDecoded ==
    /\ node_pc = LastOf(memory) /\ exec_state # "RUN"
    /\ node_io_read /\ node_io_write
    /\ node_src_reg = "ACC" /\ node_dst_reg = "DOWN"
    /\ node_io_value = node_acc

(* Not there yet: v has been read and something is being made of it. *)
Computing(v) ==
    /\ Computes(memory)
    /\ \/ JustRead(v)
       \/ \E b \in Word11 : \E f :
              At(f, v, b) /\ (PlainNext \/ MoveNext \/ MoveDecoded)

BusyWith(v) == Sending(Outcome(memory, v)) \/ Computing(v)

(* What has left the input stack, and what has reached the output stack:   *)
(* first what the host has popped, then the ring from its tail.            *)
Left == Len(pushed) - in_count
Arrived == Len(popped) + out_count
Seen(i) == IF i <= Len(popped) THEN popped[i]
           ELSE out_values[SlotAfter(out_tail_ptr, i - Len(popped))]

(* Without a collision the i-th result is that of the i-th input. *)
Balanced ==
    /\ \/ Asking /\ Arrived = Left
       \/ \E v \in 1 .. Inputs : BusyWith(v) /\ v = Left /\ Arrived = v - 1
    /\ \A i \in 1 .. Arrived : Seen(i) = Outcome(memory, i)

(* With collisions an input may be read twice and a result be lost: what   *)
(* has been seen are results of inputs up to the current one.              *)
SeenUpTo(u) == \A i \in 1 .. Arrived :
                   \E v \in 1 .. Inputs : v <= u /\ Seen(i) = Outcome(memory, v)

InOrder == \A i, j \in 1 .. Arrived : i < j => Seen(i) <= Seen(j)

Behind ==
    \/ Asking /\ SeenUpTo(Left + 1)
    \/ \E v \in 1 .. Inputs : BusyWith(v) /\ v \in {Left, Left + 1} /\ SeenUpTo(v)

Parts == InStep /\ HostInv /\ InputInv /\ OutputInv /\ LinesInv /\ RegistersInv

FabricInv ==
    /\ Parts
    /\ Behind
    /\ collided \in BOOLEAN
    /\ ~collided => Balanced
    /\ Monotone => InOrder

-----------------------------------------------------------------------------
(* Numbers and places. *)

LEMMA PhasesNext == \A p \in Phases : NextPhase(p) \in Phases
BY DEF Phases, NextPhase

LEMMA QuietType == Quiet \in [Ports -> BOOLEAN] /\ \A p \in Ports : ~Quiet[p]
BY DEF Quiet

LEMMA Slotted ==
    ASSUME NEW t \in Slots
    PROVE  /\ \A i \in 0 .. BufferLength : SlotAfter(t, i) \in Slots
           /\ \A i, j \in 0 .. BufferLength - 1 : SlotAfter(t, i) = SlotAfter(t, j) => i = j
           /\ SlotAfter(t, 0) = t
BY SystemAssumption DEF Slots, SlotAfter

(* The pointers of both stacks move by one slot. *)
LEMMA Neighbours ==
    ASSUME NEW t \in Slots
    PROVE  /\ Input!DecrementPTR(t) \in Slots
           /\ Output!IncrementPTR(t) \in Slots
           /\ Output!IncrementPTR(t) = SlotAfter(t, 1)
           /\ SlotAfter(Input!DecrementPTR(t), 1) = t
           /\ \A i \in 0 .. BufferLength - 1 :
                 /\ SlotAfter(Input!DecrementPTR(t), i + 1) = SlotAfter(t, i)
                 /\ SlotAfter(Output!IncrementPTR(t), i) = SlotAfter(t, i + 1)
                 /\ Output!IncrementPTR(SlotAfter(t, i)) = SlotAfter(t, i + 1)
                 /\ Input!DecrementPTR(SlotAfter(t, i + 1)) = SlotAfter(t, i)
BY SystemAssumption DEF Slots, SlotAfter, Input!DecrementPTR, Output!IncrementPTR

(* What an input of this size becomes on its way through the bus. *)
LEMMA SmallHalfword ==
    ASSUME NEW v \in 1 .. 999
    PROVE  ToTisInteger(SignedHalfword(v)) = v
BY DEF ToTisInteger, SignedHalfword, Halfwords

LEMMA IntegersAreInt == \A v \in TisInteger : v \in Int
BY DEF TisInteger

LEMMA ThroughTheBus ==
    ASSUME NEW v \in TisInteger
    PROVE  SignedHalfword(Halfword(v)) = v
<1>1. CASE v >= 0
    <2>1. v % 65536 = v
        BY <1>1 DEF TisInteger
    <2> QED BY <1>1, <2>1 DEF TisInteger, SignedHalfword, Halfword, Halfwords
<1>2. CASE v < 0
    <2>1. v % 65536 = v + 65536
        BY <1>2 DEF TisInteger
    <2> QED BY <1>2, <2>1 DEF TisInteger, SignedHalfword, Halfword, Halfwords
<1> QED BY <1>1, <1>2 DEF TisInteger

LEMMA InRange ==
    ASSUME NEW v \in TisInteger
    PROVE  ToTisInteger(v) = v
BY DEF TisInteger, ToTisInteger

-----------------------------------------------------------------------------
(* One edge, part by part.  First the phases. *)

LEMMA NodesStep ==
    ASSUME ClockEdge
    PROVE  /\ in_state' = IF active THEN NextPhase(in_state) ELSE in_state
           /\ exec_state' = IF active THEN NextPhase(exec_state) ELSE exec_state
           /\ out_state' = IF active THEN NextPhase(out_state) ELSE out_state
<1>1. in_state' = IF active THEN NextPhase(in_state) ELSE in_state
    BY DEF ClockEdge, Input!StackEdge, Input!BusEdge, Input!ConduitEdge, Input!stackVars,
           Input!NextPhase, NextPhase
<1>2. out_state' = IF active THEN NextPhase(out_state) ELSE out_state
    BY DEF ClockEdge, Output!StackEdge, Output!BusEdge, Output!ConduitEdge, Output!stackVars,
           Output!NextPhase, NextPhase
<1>3. exec_state' = IF active THEN NextPhase(exec_state) ELSE exec_state
    BY DEF ClockEdge, Node!ExecEdge, Node!Processor, Node!NextPhase, NextPhase
<1> QED BY <1>1, <1>2, <1>3

LEMMA StaysInStep ==
    ASSUME InStep, ClockEdge
    PROVE  InStep'
<1>1. /\ ctl_state' \in Phases /\ active' \in BOOLEAN
      /\ (active => ctl_state' = NextPhase(ctl_state))
      /\ (~active /\ active' => ctl_state' = "RUN")
      /\ (~active' => ~active \/ ctl_state' = "RUN")
    <2> USE DEF InStep
    <2>1. CASE Controller!Start(enable, step)
        BY <2>1 DEF Controller!Start, Phases
    <2>2. CASE Controller!Go(enable, step)
        BY <2>2 DEF Controller!Go, Phases, NextPhase
    <2>3. CASE Controller!Count
        BY <2>3, PhasesNext DEF Controller!Count, Controller!NextPhase, NextPhase
    <2>4. CASE Controller!Finish(enable, step)
        BY <2>4 DEF Controller!Finish, Phases, NextPhase
    <2> QED BY <2>1, <2>2, <2>3, <2>4 DEF ClockEdge, Controller!Edge
<1>2. Gated' = IF active THEN NextPhase(Gated) ELSE Gated
    BY <1>1 DEF Gated, InStep, NextPhase
<1> QED BY <1>1, <1>2, NodesStep DEF InStep

-----------------------------------------------------------------------------
(* What an edge does to the input stack: the host pushes at the tail, or   *)
(* the node takes from the head, or neither.                               *)
Pushing == bus.op = "write" /\ in_count < BufferLength
Popping == bus.op = "read" /\ out_count > 0
HandedOver == HandsOver /\ bus.op # "write"
TakenOver == TakesOver /\ bus.op # "read"

LEMMA Accesses ==
    ASSUME HostInv
    PROVE  /\ bus.op = "write" => bus = Push(Len(pushed) + 1) /\ Len(pushed) < Inputs
           /\ bus.op = "read" => bus = Pop
           /\ InputBus = IF bus.op = "write" THEN Push(Len(pushed) + 1) ELSE NoAccess
           /\ OutputBus = IF bus.op = "read" THEN Pop ELSE NoAccess
BY DEF HostInv, NoAccess, Pop, Push, InputBus, OutputBus

(* No line of a stack is answered but the one the node is wired to.        *)
LEMMA InputAnswers ==
    ASSUME InStep, LinesInv, InputInv, active
    PROVE  /\ ~Input!Received(InputLines)
           /\ in_state # "RUN" => (Input!Sent(InputLines) <=> HandsOver)
<1>1. CASE in_state = "FINISH"
    BY <1>1 DEF InStep, LinesInv, HandsOver, Input!Received, Input!Sent, Input!ReadPort,
                Input!WritePort, InputLines, Ports
<1>2. CASE in_state = "DOWN"
    BY <1>2 DEF InStep, LinesInv, HandsOver, Input!Received, Input!Sent, Input!ReadPort,
                Input!WritePort, InputLines, Ports
<1>3. CASE in_state \in {"LEFT", "RIGHT", "UP", "RUN"}
    BY <1>3 DEF InStep, LinesInv, HandsOver, Input!Received, Input!Sent, Input!ReadPort,
                Input!WritePort, InputLines, Ports, Gated, Phases
<1> QED BY <1>1, <1>2, <1>3 DEF InStep, Gated, Phases

(* The same of the output stack. *)
LEMMA OutputAnswers ==
    ASSUME InStep, LinesInv, OutputInv, active
    PROVE  /\ ~Output!Sent(OutputLines)
           /\ out_state # "RUN" => (Output!Received(OutputLines) <=> TakesOver)
<1>1. CASE out_state = "FINISH"
    BY <1>1 DEF InStep, LinesInv, TakesOver, Output!Received, Output!Sent, Output!ReadPort,
                Output!WritePort, OutputLines, Ports
<1>2. CASE out_state = "DOWN"
    BY <1>2 DEF InStep, LinesInv, TakesOver, Output!Received, Output!Sent, Output!ReadPort,
                Output!WritePort, OutputLines, Ports
<1>3. CASE out_state \in {"LEFT", "RIGHT", "UP", "RUN"}
    BY <1>3 DEF InStep, LinesInv, TakesOver, Output!Received, Output!Sent, Output!ReadPort,
                Output!WritePort, OutputLines, Ports, Gated, Phases
<1> QED BY <1>1, <1>2, <1>3 DEF InStep, Gated, Phases

InputPushed ==
    /\ Pushing
    /\ in_values' = [in_values EXCEPT ![in_tail_ptr] =
                         ToTisInteger(SignedHalfword(Len(pushed) + 1))]
    /\ in_tail_ptr' = Input!DecrementPTR(in_tail_ptr)
    /\ in_count' = in_count + 1
    /\ UNCHANGED in_head_ptr

InputSent ==
    /\ HandedOver
    /\ in_head_ptr' = Input!DecrementPTR(in_head_ptr)
    /\ in_count' = in_count - 1
    /\ UNCHANGED <<in_values, in_tail_ptr>>

inRing == <<in_values, in_tail_ptr, in_head_ptr, in_count>>

LEMMA InputWrites ==
    ASSUME HostInv, InputInv, InStep, ClockEdge, bus.op = "write"
    PROVE  /\ InputPushed \/ (~Pushing /\ UNCHANGED inRing)
           /\ in_config' = 0
           /\ IF active THEN in_active' = Quiet ELSE in_active' = in_active
<1>1. InputBus = Push(Len(pushed) + 1)
    BY Accesses
<1>2. /\ InputBus.op = "write" /\ InputBus.address = 1 /\ InputBus.data = Len(pushed) + 1
    BY <1>1 DEF Push
<1>3. Input!BusEdge(active, InputBus)
    BY <1>2 DEF ClockEdge, Input!StackEdge
<1>4. Input!BusPush(Len(pushed) + 1)
    BY <1>2, <1>3 DEF Input!BusEdge, Input!Bus
<1>5. IF active THEN in_active' = Quiet ELSE in_active' = in_active
    BY <1>3 DEF Input!BusEdge, Input!Quiet, Quiet, Input!Ports, Ports
<1>6. in_config' = 0
    BY <1>4 DEF Input!BusPush, InputInv
<1>7. CASE in_count < BufferLength
    <2>1. in_values' = [in_values EXCEPT ![in_tail_ptr] =
                         ToTisInteger(SignedHalfword(Len(pushed) + 1))]
        <3>1. \A v : Input!ToTisInteger(Input!SignedHalfword(v)) = ToTisInteger(SignedHalfword(v))
            BY DEF Input!ToTisInteger, Input!SignedHalfword, ToTisInteger, SignedHalfword,
                   Input!Halfwords, Halfwords
        <3> QED BY <1>4, <1>7, <3>1 DEF Input!BusPush
    <2>2. InputPushed
        BY <1>4, <1>7, <2>1 DEF Input!BusPush, InputPushed, Pushing
    <2> QED BY <2>2, <1>5, <1>6
<1>8. CASE ~(in_count < BufferLength)
    BY <1>4, <1>5, <1>6, <1>8 DEF Input!BusPush, Pushing, inRing
<1> QED BY <1>7, <1>8

LEMMA InputRests ==
    ASSUME InputInv, InStep, ClockEdge, HostInv, bus.op # "write", ~active
    PROVE  UNCHANGED inRing /\ in_config' = 0 /\ in_active' = in_active
<1>1. InputBus.op = "none"
    BY Accesses DEF NoAccess
<1>2. UNCHANGED Input!stackVars
    BY <1>1 DEF ClockEdge, Input!StackEdge
<1> QED BY <1>2 DEF Input!stackVars, inRing, InputInv

LEMMA InputConveys ==
    ASSUME InputInv, InStep, LinesInv, ClockEdge, HostInv, bus.op # "write", active
    PROVE  /\ InputSent \/ (~HandedOver /\ UNCHANGED inRing)
           /\ in_config' = 0 /\ in_active' \in [Ports -> BOOLEAN]
           /\ in_state' = "DOWN" /\ in_active'["DOWN"] =>
                  in_count > 0 /\ in_output' = in_values[in_head_ptr]
<1>1. InputBus.op = "none"
    BY Accesses DEF NoAccess
<1>2. Input!ConduitEdge(InputLines, InputData)
    BY <1>1 DEF ClockEdge, Input!StackEdge
<1>3. in_config' = 0 /\ in_output' = in_values[in_head_ptr]
    BY <1>2 DEF Input!ConduitEdge, InputInv
<1>4. /\ ~Input!Exchange(InputLines, InputData) /\ ~Input!Receive(InputLines, InputData)
      /\ in_state # "RUN" => (Input!Sent(InputLines) <=> HandsOver)
    BY InputAnswers DEF Input!Exchange, Input!Receive
<1>5. in_active' \in [Ports -> BOOLEAN]
    <2>1. in_active' \in [Input!Ports -> BOOLEAN]
        BY <1>2 DEF Input!ConduitEdge, Input!RunPhase, Input!LeftPhase, Input!Exchange,
                    Input!Receive, Input!Send, Input!Settle, Input!Offer, Input!Lines, Input!Quiet
    <2> QED BY <2>1 DEF Input!Ports, Ports
<1>6. CASE Input!RunPhase \/ Input!LeftPhase
    <2>1. ~HandedOver /\ in_state # "UP"
        BY <1>6 DEF Input!RunPhase, Input!LeftPhase, HandedOver, HandsOver
    <2>2. in_state' # "DOWN"
        BY <2>1, NodesStep DEF NextPhase, InStep
    <2> QED BY <1>3, <1>5, <1>6, <2>1, <2>2 DEF Input!RunPhase, Input!LeftPhase, Input!ring, inRing
<1>7. CASE Input!Send(InputLines)
    <2>1. HandsOver
        BY <1>4, <1>7 DEF Input!Send, Input!Settling
    <2>2. in_state' # "DOWN"
        BY <2>1, NodesStep DEF NextPhase, HandsOver
    <2> QED BY <1>3, <1>5, <1>7, <2>1, <2>2 DEF Input!Send, InputSent, HandedOver
<1>8. CASE Input!Settle(InputLines)
    <2>1. ~HandsOver /\ UNCHANGED inRing
        BY <1>4, <1>8 DEF Input!Settle, Input!Settling, Input!ring, inRing
    <2>2. ASSUME in_state' = "DOWN", in_active'["DOWN"] PROVE in_count > 0
        <3>1. in_state = "UP"
            BY <2>2, NodesStep DEF NextPhase, InStep, Gated, Phases
        <3>2. in_active' = Input!Lines("UP", in_count # BufferLength, "DOWN", in_count # 0)
            BY <1>8, <3>1, Zenon DEF Input!Settle, Input!Offer, Input!NextPhase, Input!ReadPort,
                                     Input!WritePort
        <3>3. in_count # 0
            BY <2>2, <3>2 DEF Input!Lines, Input!Ports
        <3> QED BY <3>3, SystemAssumption DEF InputInv
    <2> QED BY <1>3, <1>5, <2>1, <2>2 DEF HandedOver
<1> QED BY <1>2, <1>4, <1>6, <1>7, <1>8 DEF Input!ConduitEdge

(* The two together. *)
LEMMA InputMoves ==
    ASSUME InputInv, InStep, LinesInv, ClockEdge, HostInv
    PROVE  /\ InputPushed \/ InputSent \/ (~Pushing /\ ~HandedOver /\ UNCHANGED inRing)
           /\ in_config' = 0 /\ in_active' \in [Ports -> BOOLEAN]
           /\ in_state' = "DOWN" /\ in_active'["DOWN"] =>
                  /\ in_count > 0 /\ in_output' = in_values[in_head_ptr]
                  /\ UNCHANGED inRing
<1>1. ~active => in_state' # "DOWN"
    BY NodesStep DEF InStep, Gated
<1>2. CASE bus.op = "write"
    BY <1>1, <1>2, InputWrites, QuietType DEF HandedOver, InputInv, Ports
<1>3. CASE bus.op # "write" /\ ~active
    BY <1>1, <1>3, InputRests DEF Pushing, HandedOver, HandsOver, InputInv
<1>4. CASE bus.op # "write" /\ active
    <2>1. InputSent => in_state' # "DOWN"
        BY NodesStep DEF NextPhase, InputSent, HandedOver, HandsOver
    <2> QED BY <1>4, <2>1, InputConveys DEF Pushing
<1> QED BY <1>2, <1>3, <1>4

-----------------------------------------------------------------------------
(* What an edge does to the output stack: the host pops at the tail, or    *)
(* the node delivers at the head, or neither.                              *)
OutputPopped ==
    /\ Popping
    /\ out_readdata' = Halfword(out_values[Output!IncrementPTR(out_tail_ptr)])
    /\ out_tail_ptr' = Output!IncrementPTR(out_tail_ptr)
    /\ out_count' = out_count - 1
    /\ UNCHANGED <<out_values, out_head_ptr>>

OutputTook ==
    /\ TakenOver
    /\ out_values' = [out_values EXCEPT ![Output!IncrementPTR(out_head_ptr)] =
                          ToTisInteger(node_io_value)]
    /\ out_head_ptr' = Output!IncrementPTR(out_head_ptr)
    /\ out_count' = out_count + 1
    /\ UNCHANGED out_tail_ptr

outRing == <<out_values, out_tail_ptr, out_head_ptr, out_count>>

LEMMA OutputReads ==
    ASSUME HostInv, OutputInv, InStep, ClockEdge, bus.op = "read"
    PROVE  /\ OutputPopped \/ (~Popping /\ UNCHANGED outRing)
           /\ out_config' = 0
           /\ IF active THEN out_active' = Quiet ELSE out_active' = out_active
<1>1. OutputBus.op = "read" /\ OutputBus.address = 1
    BY Accesses DEF Pop
<1>2. Output!BusEdge(active, OutputBus)
    BY <1>1 DEF ClockEdge, Output!StackEdge
<1>3. Output!BusPop
    BY <1>1, <1>2 DEF Output!BusEdge, Output!Bus
<1>4. IF active THEN out_active' = Quiet ELSE out_active' = out_active
    BY <1>2 DEF Output!BusEdge, Output!Quiet, Quiet, Output!Ports, Ports
<1>5. out_config' = 0
    BY <1>3 DEF Output!BusPop, OutputInv
<1>6. CASE out_count = 0
    BY <1>3, <1>4, <1>5, <1>6 DEF Output!BusPop, Popping, outRing
<1>7. CASE out_count # 0
    <2>1. out_count > 0
        BY <1>7, SystemAssumption DEF OutputInv
    <2>2. \A v : Output!Halfword(v) = Halfword(v)
        BY DEF Output!Halfword, Halfword, Output!Halfwords, Halfwords
    <2> QED BY <1>1, <1>3, <1>4, <1>5, <1>7, <2>1, <2>2
            DEF Output!BusPop, OutputPopped, Popping, OutputBus, NoAccess
<1> QED BY <1>6, <1>7

LEMMA OutputRests ==
    ASSUME OutputInv, InStep, ClockEdge, HostInv, bus.op # "read", ~active
    PROVE  UNCHANGED outRing /\ out_config' = 0 /\ out_active' = out_active
<1>1. OutputBus.op = "none"
    BY Accesses DEF NoAccess
<1>2. UNCHANGED Output!stackVars
    BY <1>1 DEF ClockEdge, Output!StackEdge
<1> QED BY <1>2 DEF Output!stackVars, outRing, OutputInv

LEMMA OutputConveys ==
    ASSUME OutputInv, InStep, LinesInv, ClockEdge, HostInv, bus.op # "read", active
    PROVE  /\ OutputTook \/ (~TakenOver /\ UNCHANGED outRing)
           /\ out_config' = 0 /\ out_active' \in [Ports -> BOOLEAN]
           /\ out_state' = "DOWN" /\ out_active'["UP"] => out_count < BufferLength
<1>1. OutputBus.op = "none"
    BY Accesses DEF NoAccess
<1>2. Output!ConduitEdge(OutputLines, OutputData)
    BY <1>1 DEF ClockEdge, Output!StackEdge
<1>3. out_config' = 0
    BY <1>2 DEF Output!ConduitEdge, OutputInv
<1>4. /\ ~Output!Exchange(OutputLines, OutputData) /\ ~Output!Send(OutputLines)
      /\ out_state # "RUN" => (Output!Received(OutputLines) <=> TakesOver)
    BY OutputAnswers DEF Output!Exchange, Output!Send
<1>5. out_active' \in [Ports -> BOOLEAN]
    <2>1. out_active' \in [Output!Ports -> BOOLEAN]
        BY <1>2 DEF Output!ConduitEdge, Output!RunPhase, Output!LeftPhase, Output!Exchange,
                    Output!Receive, Output!Send, Output!Settle, Output!Offer, Output!Lines,
                    Output!Quiet
    <2> QED BY <2>1 DEF Output!Ports, Ports
<1>6. CASE Output!RunPhase \/ Output!LeftPhase
    <2>1. ~TakenOver /\ out_state # "UP"
        BY <1>6 DEF Output!RunPhase, Output!LeftPhase, TakenOver, TakesOver
    <2>2. out_state' # "DOWN"
        BY <2>1, NodesStep DEF NextPhase, InStep
    <2> QED BY <1>3, <1>5, <1>6, <2>1, <2>2 DEF Output!RunPhase, Output!LeftPhase, Output!ring, outRing
<1>7. CASE Output!Receive(OutputLines, OutputData)
    <2>1. TakesOver
        BY <1>4, <1>7 DEF Output!Receive, Output!Settling
    <2>2. out_state = "DOWN" /\ out_state' # "DOWN"
        BY <2>1, NodesStep DEF NextPhase, TakesOver
    <2>3. Output!Arriving(OutputData) = ToTisInteger(node_io_value)
        BY <2>2 DEF Output!Arriving, Output!ReadPort, OutputData, Ports, Output!ToTisInteger,
                    ToTisInteger
    <2> QED BY <1>3, <1>5, <1>7, <2>1, <2>2, <2>3 DEF Output!Receive, OutputTook, TakenOver
<1>8. CASE Output!Settle(OutputLines)
    <2>1. ~TakesOver /\ UNCHANGED outRing
        BY <1>4, <1>8 DEF Output!Settle, Output!Settling, Output!ring, outRing
    <2>2. ASSUME out_state' = "DOWN", out_active'["UP"] PROVE out_count < BufferLength
        <3>1. out_state = "UP"
            BY <2>2, NodesStep DEF NextPhase, InStep, Gated, Phases
        <3>2. out_active' = Output!Lines("UP", out_count # BufferLength, "DOWN", out_count # 0)
            BY <1>8, <3>1, Zenon DEF Output!Settle, Output!Offer, Output!NextPhase,
                                     Output!ReadPort, Output!WritePort
        <3>3. out_count # BufferLength
            BY <2>2, <3>2 DEF Output!Lines, Output!Ports
        <3> QED BY <3>3, SystemAssumption DEF OutputInv
    <2> QED BY <1>3, <1>5, <2>1, <2>2 DEF TakenOver
<1> QED BY <1>2, <1>4, <1>6, <1>7, <1>8 DEF Output!ConduitEdge

LEMMA OutputMoves ==
    ASSUME OutputInv, InStep, LinesInv, ClockEdge, HostInv
    PROVE  /\ OutputPopped \/ OutputTook \/ (~Popping /\ ~TakenOver /\ UNCHANGED outRing)
           /\ out_config' = 0 /\ out_active' \in [Ports -> BOOLEAN]
           /\ out_state' = "DOWN" /\ out_active'["UP"] =>
                  out_count < BufferLength /\ UNCHANGED outRing
<1>1. ~active => out_state' # "DOWN"
    BY NodesStep DEF InStep, Gated
<1>2. CASE bus.op = "read"
    BY <1>1, <1>2, OutputReads, QuietType DEF TakenOver, OutputInv, Ports
<1>3. CASE bus.op # "read" /\ ~active
    BY <1>1, <1>3, OutputRests DEF Popping, TakenOver, TakesOver, OutputInv
<1>4. CASE bus.op # "read" /\ active
    <2>1. OutputTook => out_state' # "DOWN"
        BY NodesStep DEF NextPhase, OutputTook, TakenOver, TakesOver
    <2> QED BY <1>4, <2>1, OutputConveys DEF Popping
<1> QED BY <1>2, <1>3, <1>4

-----------------------------------------------------------------------------
(* The host and the input stack after the edge. *)
LEMMA HostKept ==
    ASSUME InStep, HostInv, InputInv, OutputInv, LinesInv, ClockEdge
    PROVE  /\ HostInv'
           /\ pushed' = IF Pushing THEN Append(pushed, Len(pushed) + 1) ELSE pushed
           /\ Len(pushed') = IF Pushing THEN Len(pushed) + 1 ELSE Len(pushed)
<1>1. pushed' = IF Pushing THEN Append(pushed, Len(pushed) + 1) ELSE pushed
    BY Accesses DEF ClockEdge, Record, Pushing, Push
<1>2. Len(pushed') = IF Pushing THEN Len(pushed) + 1 ELSE Len(pushed)
    BY <1>1 DEF HostInv
<1>3. /\ pushed' \in Seq(Int) /\ Len(pushed') <= Inputs
      /\ \A i \in 1 .. Len(pushed') : pushed'[i] = i
    <2>1. CASE Pushing
        <3>1. Len(pushed) < Inputs
            BY <2>1, Accesses DEF Pushing
        <3> QED BY <1>1, <1>2, <2>1, <3>1, SystemAssumption DEF HostInv
    <2>2. CASE ~Pushing
        BY <1>1, <2>2 DEF HostInv
    <2> QED BY <2>1, <2>2
<1>4. popped' \in Seq(Int)
    <2>1. CASE Popping
        <3>1. out_readdata' = Halfword(out_values[Output!IncrementPTR(out_tail_ptr)])
            BY <2>1, OutputMoves DEF OutputPopped, OutputTook, TakenOver, Popping
        <3>2. Output!IncrementPTR(out_tail_ptr) \in Slots
            BY Neighbours DEF OutputInv
        <3>3. out_values[Output!IncrementPTR(out_tail_ptr)] \in TisInteger
            BY <3>2 DEF OutputInv
        <3>4. SignedHalfword(out_readdata') \in Int
            <4>1. PICK x \in TisInteger : out_readdata' = Halfword(x)
                BY <3>1, <3>3
            <4>2. SignedHalfword(out_readdata') = x
                BY <4>1, ThroughTheBus
            <4> QED BY <4>2 DEF TisInteger
        <3>5. Node!SignedHalfword(out_readdata') = SignedHalfword(out_readdata')
            BY DEF Node!SignedHalfword, SignedHalfword, Node!Halfwords, Halfwords
        <3> QED BY <2>1, <3>4, <3>5 DEF ClockEdge, Record, HostInv, Popping
    <2>2. CASE ~Popping
        BY <2>2 DEF ClockEdge, Record, HostInv, Popping
    <2> QED BY <2>1, <2>2
<1>5. bus' = NoAccess
    BY DEF ClockEdge
<1> QED BY <1>1, <1>2, <1>3, <1>4, <1>5 DEF HostInv, NoAccess

(* A line the input stack holds out shows the next input in turn. *)
LEMMA HeadIsNext ==
    ASSUME HostInv, InputInv, HandsOver
    PROVE  in_count > 0 /\ in_output = Left + 1 /\ Left + 1 \in 1 .. Len(pushed)
<1>1. in_count > 0 /\ in_output = in_values[SlotAfter(in_tail_ptr, in_count)]
    BY DEF HandsOver, InputInv
<1>2. in_count \in 1 .. in_count
    BY <1>1, SystemAssumption DEF InputInv
<1>3. in_output = Len(pushed) + 1 - in_count
    BY <1>1, <1>2 DEF InputInv
<1> QED BY <1>1, <1>3, SystemAssumption DEF InputInv, HostInv, Left

LEMMA FewInputs == Served => Inputs <= 999
BY Zenon DEF Served

LEMMA InputKept ==
    ASSUME Served, InStep, HostInv, InputInv, LinesInv, OutputInv, ClockEdge
    PROVE  InputInv' /\ Left' = IF HandedOver THEN Left + 1 ELSE Left
<1> DEFINE n == Len(pushed)
<1> USE SystemAssumption
<1>0. n \in Nat /\ n <= Inputs /\ Len(pushed') = IF Pushing THEN n + 1 ELSE n
    BY HostKept DEF HostInv
<1>1. /\ InputPushed \/ InputSent \/ (~Pushing /\ ~HandedOver /\ UNCHANGED inRing)
      /\ in_config' = 0 /\ in_active' \in [Ports -> BOOLEAN]
      /\ in_state' = "DOWN" /\ in_active'["DOWN"] =>
             /\ in_count > 0 /\ in_output' = in_values[in_head_ptr]
             /\ UNCHANGED inRing
    BY InputMoves
<1>2. in_state' = "DOWN" /\ in_active'["DOWN"] => in_count' > 0 /\ in_output' = in_values'[in_head_ptr']
    BY <1>1 DEF inRing
<1>3. CASE InputPushed
    <2> DEFINE t == in_tail_ptr
               d == Input!DecrementPTR(in_tail_ptr)
    <2>0. in_count < BufferLength /\ Pushing /\ ~HandedOver /\ n < Inputs
        BY <1>3, Accesses DEF InputPushed, Pushing, HandedOver
    <2>1. ToTisInteger(SignedHalfword(n + 1)) = n + 1 /\ n + 1 \in TisInteger
        <3> HIDE DEF n
        <3>1. n + 1 \in 1 .. 999
            BY <1>0, <2>0, FewInputs
        <3> QED BY <3>1, SmallHalfword DEF TisInteger
    <2>2. /\ t \in Slots /\ d \in Slots /\ SlotAfter(d, 1) = t
          /\ \A i \in 0 .. BufferLength - 1 : SlotAfter(d, i + 1) = SlotAfter(t, i)
        BY Neighbours DEF InputInv
    <2>3. /\ in_values' = [in_values EXCEPT ![t] = n + 1] /\ in_tail_ptr' = d
          /\ in_count' = in_count + 1 /\ in_head_ptr' = in_head_ptr
        BY <1>3, <2>1 DEF InputPushed
    <2>4. in_head_ptr' = SlotAfter(in_tail_ptr', in_count')
        BY <2>0, <2>2, <2>3 DEF InputInv
    <2>5. ASSUME NEW i \in 1 .. in_count'
          PROVE  in_values'[SlotAfter(in_tail_ptr', i)] = Len(pushed') + 1 - i
        <3>1. CASE i = 1
            BY <1>0, <2>0, <2>2, <2>3, <3>1 DEF InputInv
        <3>2. CASE i # 1
            <4> DEFINE j == i - 1
            <4>1. j \in 1 .. in_count /\ j \in 0 .. BufferLength - 1 /\ i = j + 1
                BY <2>0, <2>3, <3>2 DEF InputInv
            <4> HIDE DEF j
            <4>2. SlotAfter(d, i) = SlotAfter(t, j) /\ SlotAfter(t, j) \in Slots
                BY <2>2, <4>1, Slotted
            <4>3. SlotAfter(t, j) # t
                BY <4>1, <2>0, <2>2, Slotted
            <4>4. in_values'[SlotAfter(in_tail_ptr', i)] = in_values[SlotAfter(t, j)]
                BY <2>3, <4>2, <4>3 DEF InputInv
            <4> QED BY <1>0, <2>0, <4>1, <4>4 DEF InputInv
        <3> QED BY <3>1, <3>2
    <2>6. /\ in_values' \in [Slots -> TisInteger] /\ in_tail_ptr' \in Slots
          /\ in_count' \in 0 .. BufferLength /\ in_count' <= Len(pushed')
        BY <1>0, <2>0, <2>1, <2>2, <2>3 DEF InputInv
    <2>7. Left' = Left
        BY <1>0, <2>0, <2>3 DEF Left, InputInv
    <2> QED BY <1>1, <1>2, <2>0, <2>4, <2>5, <2>6, <2>7 DEF InputInv
<1>4. CASE InputSent
    <2>0. in_count > 0 /\ HandedOver /\ ~Pushing /\ Len(pushed') = n
        BY <1>0, <1>4, HeadIsNext DEF InputSent, HandedOver, Pushing
    <2>1. /\ in_head_ptr' = Input!DecrementPTR(in_head_ptr) /\ in_count' = in_count - 1
          /\ in_values' = in_values /\ in_tail_ptr' = in_tail_ptr
        BY <1>4 DEF InputSent
    <2>2. in_count - 1 \in 0 .. BufferLength - 1 /\ (in_count - 1) + 1 = in_count
        BY <2>0 DEF InputInv
    <2>3. in_head_ptr' = SlotAfter(in_tail_ptr', in_count')
        <3>1. in_tail_ptr \in Slots /\ in_head_ptr = SlotAfter(in_tail_ptr, (in_count - 1) + 1)
            BY <2>2 DEF InputInv
        <3>2. Input!DecrementPTR(in_head_ptr) = SlotAfter(in_tail_ptr, in_count - 1)
            BY <2>2, <3>1, Neighbours
        <3> QED BY <2>1, <3>2
    <2>4. /\ in_values' \in [Slots -> TisInteger] /\ in_tail_ptr' \in Slots
          /\ in_count' \in 0 .. BufferLength /\ in_count' <= Len(pushed')
          /\ \A i \in 1 .. in_count' : in_values'[SlotAfter(in_tail_ptr', i)] = Len(pushed') + 1 - i
        BY <1>0, <2>0, <2>1, <2>2 DEF InputInv
    <2>5. Left' = Left + 1
        BY <1>0, <2>0, <2>1 DEF Left, InputInv
    <2> QED BY <1>1, <1>2, <2>0, <2>3, <2>4, <2>5 DEF InputInv
<1>5. CASE ~Pushing /\ ~HandedOver /\ UNCHANGED inRing
    <2>1. Len(pushed') = n
        BY <1>0, <1>5
    <2> QED BY <1>1, <1>2, <1>5, <2>1 DEF InputInv, inRing, Left
<1> QED BY <1>1, <1>3, <1>4, <1>5

-----------------------------------------------------------------------------
(* The output stack and what the host has, in terms of what has been seen. *)
LEMMA OutputKept ==
    ASSUME InStep, HostInv, OutputInv, InputInv, LinesInv, ClockEdge,
           TakesOver => node_io_value \in TisInteger
    PROVE  /\ OutputInv'
           /\ Arrived' = IF TakenOver THEN Arrived + 1 ELSE Arrived
           /\ \A i \in 1 .. Arrived : Seen(i)' = Seen(i)
           /\ TakenOver => Seen(Arrived)' = node_io_value
<1> USE SystemAssumption
<1> DEFINE t == out_tail_ptr
           k == Len(popped)
<1>1. /\ OutputPopped \/ OutputTook \/ (~Popping /\ ~TakenOver /\ UNCHANGED outRing)
      /\ out_config' = 0 /\ out_active' \in [Ports -> BOOLEAN]
      /\ out_state' = "DOWN" /\ out_active'["UP"] => out_count < BufferLength /\ UNCHANGED outRing
    BY OutputMoves
<1>2. out_state' = "DOWN" /\ out_active'["UP"] => out_count' < BufferLength
    BY <1>1 DEF outRing
<1>3. k \in Nat /\ out_count \in Nat /\ out_count <= BufferLength /\ popped \in Seq(Int)
    BY DEF HostInv, OutputInv
<1>4. popped' = IF Popping THEN Append(popped, SignedHalfword(out_readdata')) ELSE popped
    BY DEF ClockEdge, Record, Popping, Node!SignedHalfword, SignedHalfword, Node!Halfwords, Halfwords
<1>5. CASE OutputPopped
    <2> DEFINE d == Output!IncrementPTR(out_tail_ptr)
    <2>0. Popping /\ ~TakenOver /\ out_count > 0
        BY <1>5 DEF OutputPopped, Popping, TakenOver
    <2>1. /\ t \in Slots /\ d \in Slots /\ d = SlotAfter(t, 1)
          /\ \A i \in 0 .. BufferLength - 1 : SlotAfter(d, i) = SlotAfter(t, i + 1)
        BY Neighbours DEF OutputInv
    <2>2. /\ out_readdata' = Halfword(out_values[d]) /\ out_tail_ptr' = d
          /\ out_count' = out_count - 1 /\ out_values' = out_values /\ out_head_ptr' = out_head_ptr
        BY <1>5 DEF OutputPopped
    <2>3. SignedHalfword(out_readdata') = out_values[d] /\ out_values[d] \in Int
        <3>1. out_values[d] \in TisInteger
            BY <2>1 DEF OutputInv
        <3>2. out_values[d] \in Int
            BY <3>1, IntegersAreInt
        <3> QED BY <3>1, <3>2, <2>2, ThroughTheBus
    <2>4. popped' = Append(popped, out_values[d])
        BY <1>4, <2>0, <2>3
    <2>5. /\ Len(popped') = k + 1 /\ popped'[k + 1] = out_values[d]
          /\ \A i \in 1 .. k : popped'[i] = popped[i]
        BY <1>3, <2>3, <2>4
    <2>6. Arrived' = Arrived
        BY <1>3, <2>2, <2>5 DEF Arrived
    <2>7. OutputInv'
        <3>1. out_count - 1 \in 0 .. BufferLength - 1 /\ (out_count - 1) + 1 = out_count
            BY <1>3, <2>0
        <3>2. out_head_ptr' = SlotAfter(out_tail_ptr', out_count')
            BY <2>1, <2>2, <3>1 DEF OutputInv
        <3> QED BY <1>1, <1>2, <2>1, <2>2, <3>1, <3>2 DEF OutputInv
    <2>8. ASSUME NEW i \in 1 .. Arrived PROVE Seen(i)' = Seen(i)
        <3>1. CASE i <= k
            BY <1>3, <2>5, <3>1 DEF Seen
        <3>2. CASE i = k + 1
            BY <1>3, <2>1, <2>5, <3>2 DEF Seen
        <3>3. CASE i > k + 1
            <4> DEFINE j == i - (k + 1)
            <4>1. j \in 0 .. BufferLength - 1 /\ j + 1 = i - k
                BY <1>3, <3>3 DEF Arrived
            <4>2. SlotAfter(d, j) = SlotAfter(t, j + 1)
                BY <2>1, <4>1
            <4>3. Seen(i)' = out_values[SlotAfter(d, j)]
                BY <1>3, <2>2, <2>5, <3>3 DEF Seen
            <4>4. Seen(i) = out_values[SlotAfter(t, i - k)]
                BY <1>3, <3>3 DEF Seen
            <4> QED BY <4>1, <4>2, <4>3, <4>4
        <3> QED BY <1>3, <3>1, <3>2, <3>3
    <2> QED BY <2>0, <2>6, <2>7, <2>8
<1>6. CASE OutputTook
    <2> DEFINE h == Output!IncrementPTR(out_head_ptr)
    <2>0. TakenOver /\ ~Popping /\ popped' = popped /\ node_io_value \in TisInteger
        BY <1>4, <1>6 DEF OutputTook, Popping, TakenOver
    <2>1. out_count \in 0 .. BufferLength - 1 /\ out_count + 1 \in 0 .. BufferLength
        BY <1>3, <2>0 DEF TakenOver, TakesOver, OutputInv
    <2>2. /\ t \in Slots /\ h = SlotAfter(t, out_count + 1) /\ h \in Slots
        <3>1. t \in Slots /\ out_head_ptr = SlotAfter(t, out_count)
            BY DEF OutputInv
        <3>2. SlotAfter(t, out_count + 1) \in Slots
            BY <3>1, <2>1, Slotted
        <3>3. Output!IncrementPTR(SlotAfter(t, out_count)) = SlotAfter(t, out_count + 1)
            BY <3>1, <2>1, Neighbours
        <3> QED BY <3>1, <3>2, <3>3
    <2>3. /\ out_values' = [out_values EXCEPT ![h] = node_io_value] /\ out_head_ptr' = h
          /\ out_count' = out_count + 1 /\ out_tail_ptr' = t
        BY <1>6, <2>0, InRange DEF OutputTook
    <2>4. Arrived' = Arrived + 1
        BY <1>3, <2>0, <2>3 DEF Arrived
    <2>5. OutputInv'
        BY <1>1, <1>2, <2>0, <2>1, <2>2, <2>3 DEF OutputInv
    <2>6. Seen(Arrived)' = node_io_value
        <3>1. Arrived' - k = out_count + 1 /\ ~(Arrived' <= k)
            BY <1>3, <2>4 DEF Arrived
        <3>2. Seen(Arrived)' = out_values'[SlotAfter(t, Arrived' - k)]
            BY <2>0, <2>3, <3>1 DEF Seen
        <3> QED BY <2>2, <2>3, <3>1, <3>2 DEF OutputInv
    <2>7. ASSUME NEW i \in 1 .. Arrived PROVE Seen(i)' = Seen(i)
        <3>1. CASE i <= k
            BY <2>0, <3>1 DEF Seen
        <3>2. CASE ~(i <= k)
            <4> DEFINE j == i - k
            <4>1. j \in 1 .. out_count /\ j \in 0 .. BufferLength /\ j # out_count + 1
                BY <1>3, <3>2 DEF Arrived
            <4>2. SlotAfter(t, j) # SlotAfter(t, out_count + 1)
                BY <2>1, <2>2, <4>1 DEF SlotAfter, Slots
            <4>3. out_values'[SlotAfter(t, j)] = out_values[SlotAfter(t, j)]
                BY <2>2, <2>3, <4>1, <4>2, Slotted DEF OutputInv
            <4> QED BY <2>0, <2>3, <3>2, <4>3 DEF Seen
        <3> QED BY <3>1, <3>2
    <2> QED BY <2>0, <2>4, <2>5, <2>6, <2>7
<1>7. CASE ~Popping /\ ~TakenOver /\ UNCHANGED outRing
    <2>1. popped' = popped
        BY <1>4, <1>7
    <2> QED BY <1>1, <1>2, <1>7, <2>1 DEF OutputInv, outRing, Arrived, Seen
<1> QED BY <1>1, <1>5, <1>6, <1>7

-----------------------------------------------------------------------------
(* The words of the node. *)

LEMMA SameFields ==
    ASSUME NEW w
    PROVE  /\ Node!Group(w) = Group(w) /\ Node!Operation(w) = Operation(w)
           /\ Node!Source(w) = Source(w) /\ Node!Destination(w) = Destination(w)
           /\ Node!AluImmediate(w) = AluImmediate(w)
           /\ Node!last_instruction_address = LastOf(memory)
<1>1. \A high, low : Node!Bits(w, high, low) = Bits(w, high, low)
    BY DEF Node!Bits, Bits
<1>2. Node!Group(w) = Group(w)
    BY <1>1 DEF Node!Group, Group
<1>3. Node!Operation(w) = Operation(w)
    BY <1>1 DEF Node!Operation, Operation
<1>4. Node!Source(w) = Source(w) /\ Node!Destination(w) = Destination(w)
    BY <1>1 DEF Node!Source, Source, Node!Destination, Destination, Node!Register, Register
<1>5. Node!AluImmediate(w) = AluImmediate(w)
    BY <1>1 DEF Node!AluImmediate, AluImmediate
<1>6. Node!last_instruction_address = LastOf(memory)
    BY DEF Node!last_instruction_address, LastOf, Node!Bits, Bits
<1> QED BY <1>2, <1>3, <1>4, <1>5, <1>6

LEMMA WordRange == \A w : w \in Word16 <=> w \in Int /\ 0 <= w /\ w < 65536
<1>1. Halfwords \in Int /\ Halfwords <= 65536 /\ Halfwords >= 65536
    BY DEF Halfwords
<1> QED BY <1>1 DEF Word16

LEMMA GroupBits ==
    ASSUME NEW w, Group(w) = "mov_register"
    PROVE  Bits(w, 15, 14) = 3
BY DEF Group

LEMMA NoPattern ==
    ASSUME NEW w, w # 18432, w # 16384, w # 20480,
           Bits(w, 15, 3) # 3072, Bits(w, 15, 9) # 56, Bits(w, 15, 12) # 0
    PROVE  Operation(w) = "other"
BY DEF Operation

(* Phase FINISH finds no operation in a MOV. *)
LEMMA MovesAreOther ==
    ASSUME NEW w \in Word16, Group(w) = "mov_register"
    PROVE  Operation(w) = "other"
<1>1. w \in Int /\ 0 <= w /\ w < 65536
    BY WordRange
<1>2. w >= 49152
    <2>1. (w \div 16384) % 4 = 3
        BY GroupBits DEF Bits
    <2> QED BY <1>1, <2>1
<1>3. Bits(w, 15, 3) # 3072
    BY <1>1, <1>2 DEF Bits
<1>4. Bits(w, 15, 9) # 56
    BY <1>1, <1>2 DEF Bits
<1>5. Bits(w, 15, 12) # 0
    BY <1>1, <1>2 DEF Bits
<1>6. w # 18432 /\ w # 16384 /\ w # 20480
    BY <1>1, <1>2
<1> QED BY <1>3, <1>4, <1>5, <1>6, NoPattern

(* What the rest of the proof needs to know of the program. *)
LEMMA ProgramShape ==
    ASSUME Served, memory \in Programs
    PROVE  /\ memory \in [0 .. 15 -> Word16]
           /\ LastOf(memory) \in 0 .. 14
           /\ Copies(memory) \/ Computes(memory)
           /\ \A v \in 1 .. Inputs : Outcome(memory, v) \in TisInteger
           /\ Group(memory[1]) = "mov_register" /\ Source(memory[1]) = "UP"
           /\ \/ Copies(memory) /\ Destination(memory[1]) = "DOWN" /\ LastOf(memory) = 0
              \/ Computes(memory) /\ Destination(memory[1]) = "ACC" /\ LastOf(memory) > 0
           /\ Operation(memory[LastOf(memory) + 1]) = "other"
<1>1. /\ memory \in [0 .. 15 -> Word16] /\ (Copies(memory) \/ Computes(memory))
      /\ \A v \in 1 .. Inputs : Outcome(memory, v) \in TisInteger
    BY Zenon DEF Served
<1>2. CASE Copies(memory)
    <2>1. LastOf(memory) = 0 /\ Moves(memory[1], "UP", "DOWN")
        BY <1>2, Zenon DEF Copies
    <2>2. memory[1] \in Word16
        BY <1>1
    <2>3. Operation(memory[1]) = "other"
        BY <2>1, <2>2, MovesAreOther DEF Moves
    <2> QED BY <1>1, <1>2, <2>1, <2>3 DEF Moves
<1>3. CASE Computes(memory)
    <2>1. LastOf(memory) \in 1 .. 14 /\ Moves(memory[1], "UP", "ACC")
          /\ Moves(memory[LastOf(memory) + 1], "ACC", "DOWN")
        BY <1>3, Zenon DEF Computes
    <2>2. memory[LastOf(memory) + 1] \in Word16
        BY <1>1, <2>1
    <2>3. Operation(memory[LastOf(memory) + 1]) = "other"
        BY <2>1, <2>2, MovesAreOther DEF Moves
    <2> QED BY <1>1, <1>3, <2>1, <2>3 DEF Moves
<1> QED BY <1>1, <1>2, <1>3

LEMMA Fetched ==
    ASSUME node_pc \in 0 .. 14
    PROVE  Node!current_instruction = memory[node_pc + 1]
<1>1. (node_pc + 1) % 16 = node_pc + 1
    OBVIOUS
<1> QED BY <1>1 DEF Node!current_instruction

-----------------------------------------------------------------------------
(* One edge of the node, phase by phase. *)

LEMMA NodePorts ==
    /\ Node!ReadPort("RIGHT") = "LEFT" /\ Node!ReadPort("UP") = "RIGHT"
    /\ Node!ReadPort("DOWN") = "UP" /\ Node!ReadPort("FINISH") = "DOWN"
    /\ Node!WritePort("RIGHT") = "RIGHT" /\ Node!WritePort("UP") = "LEFT"
    /\ Node!WritePort("DOWN") = "DOWN" /\ Node!WritePort("FINISH") = "UP"
    /\ Node!NextPhase("LEFT") = "RIGHT" /\ Node!NextPhase("RIGHT") = "UP"
    /\ Node!NextPhase("UP") = "DOWN" /\ Node!NextPhase("DOWN") = "FINISH"
    /\ Node!NextPhase("RUN") = "LEFT" /\ Node!NextPhase("FINISH") = "RUN"
BY DEF Node!ReadPort, Node!WritePort, Node!NextPhase

LEMMA NodeWires ==
    ASSUME InputInv, OutputInv
    PROVE  /\ ~NodeLines["LEFT"] /\ ~NodeLines["RIGHT"]
           /\ NodeLines["UP"] = in_active["DOWN"] /\ NodeLines["DOWN"] = out_active["UP"]
           /\ NodeData["UP"] = in_output
BY DEF InputInv, OutputInv, NodeLines, NodeData, Ports

LEMMA Raised ==
    ASSUME NEW port, NEW register, NEW lines,
           lines = Node!Raise({p \in {port} : Node!Uses(register, p)})
    PROVE  /\ lines \in [Ports -> BOOLEAN]
           /\ lines["UP"] <=> port = "UP" /\ Node!Uses(register, "UP")
           /\ lines["DOWN"] <=> port = "DOWN" /\ Node!Uses(register, "DOWN")
<1> DEFINE S == {p \in {port} : Node!Uses(register, p)}
<1>1. \A p : p \in S <=> p = port /\ Node!Uses(register, p)
    OBVIOUS
<1> HIDE DEF S
<1>2. /\ Node!Raise(S) \in [Ports -> BOOLEAN]
      /\ \A p \in Ports : Node!Raise(S)[p] = (p \in S)
    BY DEF Node!Raise, Node!Ports, Ports
<1>3. "UP" \in Ports /\ "DOWN" \in Ports
    BY DEF Ports
<1>4. /\ Node!Raise(S)["UP"] <=> "UP" = port /\ Node!Uses(register, "UP")
      /\ Node!Raise(S)["DOWN"] <=> "DOWN" = port /\ Node!Uses(register, "DOWN")
    BY <1>1, <1>2, <1>3
<1> QED BY <1>2, <1>4 DEF S

LEMMA NodeQuiet ==
    Node!Quiet \in [Ports -> BOOLEAN] /\ ~Node!Quiet["UP"] /\ ~Node!Quiet["DOWN"]
BY DEF Node!Quiet, Node!Ports, Ports

Works == Node!Processor(NodeLines, NodeData)
keptCpu == <<node_pc, node_acc, node_bak>>

(* While an operand is read over UP, or is there already. *)
LEMMA ReadsOn ==
    ASSUME InputInv, OutputInv, Works, node_io_read, node_src_reg \in {"UP", "ACC"},
           exec_state \in {"LEFT", "RIGHT", "UP", "DOWN"}
    PROVE  /\ UNCHANGED <<keptCpu, node_io_write, node_src_reg, node_dst_reg>>
           /\ IF exec_state = "DOWN" /\ node_src_reg = "UP" /\ in_active["DOWN"]
                THEN node_io_value' = in_output /\ node_io_read' = FALSE
                ELSE UNCHANGED <<node_io_value, node_io_read>>
           /\ exec_active' \in [Ports -> BOOLEAN]
           /\ exec_active'["UP"] <=> (exec_state = "UP" /\ node_src_reg = "UP")
           /\ ~exec_active'["DOWN"]
<1>1. Node!ReadMet(NodeLines) <=> exec_state = "DOWN" /\ node_src_reg = "UP" /\ in_active["DOWN"]
    BY NodePorts, NodeWires DEF Node!ReadMet, Node!Uses
<1>2. Node!ReadDone(NodeLines, NodeData) \/ Node!Try(NodeLines)
    BY DEF Works, Node!Processor, Node!Decode, Node!WriteDone, Node!Finish, Node!Writing
<1>3. CASE Node!ReadDone(NodeLines, NodeData)
    <2>1. exec_state = "DOWN" /\ node_src_reg = "UP" /\ in_active["DOWN"]
        BY <1>1, <1>3 DEF Node!ReadDone
    <2> QED BY <1>3, <2>1, NodePorts, NodeWires, NodeQuiet
            DEF Node!ReadDone, Node!cpuVars, keptCpu
<1>4. CASE Node!Try(NodeLines)
    <2>1. ~Node!ReadMet(NodeLines)
        BY <1>4 DEF Node!Try, Node!Reading, Node!Writing
    <2>2. exec_active' = Node!Raise({p \in {Node!ReadPort(Node!NextPhase(exec_state))} :
                                         Node!Uses(node_src_reg, p)})
        BY <1>4 DEF Node!Try, Node!Reading, Node!Writing
    <2>3. /\ exec_active' \in [Ports -> BOOLEAN]
          /\ exec_active'["UP"] <=> (exec_state = "UP" /\ node_src_reg = "UP")
          /\ ~exec_active'["DOWN"]
        <3> DEFINE port == Node!ReadPort(Node!NextPhase(exec_state))
        <3>1. exec_active' = Node!Raise({p \in {port} : Node!Uses(node_src_reg, p)})
            BY <2>2
        <3>2. port = IF exec_state = "LEFT" THEN "LEFT" ELSE IF exec_state = "RIGHT" THEN "RIGHT"
                      ELSE IF exec_state = "UP" THEN "UP" ELSE "DOWN"
            BY NodePorts
        <3> HIDE DEF port
        <3>3. exec_active' \in [Ports -> BOOLEAN]
            BY <3>1, Raised
        <3>4. exec_active'["UP"] <=> port = "UP" /\ Node!Uses(node_src_reg, "UP")
            BY <3>1, Raised
        <3>5. exec_active'["DOWN"] <=> port = "DOWN" /\ Node!Uses(node_src_reg, "DOWN")
            BY <3>1, Raised
        <3> QED BY <3>2, <3>3, <3>4, <3>5 DEF Node!Uses
    <2> QED BY <1>1, <1>4, <2>1, <2>3 DEF Node!Try, Node!cpuVars, Node!ioVars, keptCpu
<1> QED BY <1>2, <1>3, <1>4

(* While a result is written to DOWN. *)
LEMMA WritesOn ==
    ASSUME InputInv, OutputInv, Works, ~node_io_read, node_io_write, node_dst_reg = "DOWN",
           exec_state \in {"LEFT", "RIGHT", "UP", "DOWN"}
    PROVE  /\ UNCHANGED <<keptCpu, node_io_value, node_io_read, node_src_reg, node_dst_reg>>
           /\ IF exec_state = "DOWN" /\ out_active["UP"]
                THEN node_io_write' = FALSE ELSE UNCHANGED node_io_write
           /\ exec_active' \in [Ports -> BOOLEAN]
           /\ exec_active'["DOWN"] <=> (exec_state = "UP")
           /\ ~exec_active'["UP"]
<1>1. Node!WriteMet(NodeLines) <=> exec_state = "DOWN" /\ out_active["UP"]
    BY NodePorts, NodeWires DEF Node!WriteMet, Node!Uses
<1>2. Node!WriteDone(NodeLines) \/ Node!Try(NodeLines)
    BY DEF Works, Node!Processor, Node!Decode, Node!ReadDone, Node!Finish, Node!Reading
<1>3. CASE Node!WriteDone(NodeLines)
    <2>1. exec_state = "DOWN" /\ out_active["UP"]
        BY <1>1, <1>3 DEF Node!WriteDone
    <2> QED BY <1>3, <2>1, NodeQuiet DEF Node!WriteDone, Node!cpuVars, keptCpu
<1>4. CASE Node!Try(NodeLines)
    <2>1. ~Node!WriteMet(NodeLines)
        BY <1>4 DEF Node!Try, Node!Reading, Node!Writing
    <2>2. exec_active' = Node!Raise({p \in {Node!WritePort(Node!NextPhase(exec_state))} :
                                         Node!Uses(node_dst_reg, p)})
        BY <1>4 DEF Node!Try, Node!Reading, Node!Writing
    <2>3. /\ exec_active' \in [Ports -> BOOLEAN]
          /\ exec_active'["DOWN"] <=> (exec_state = "UP")
          /\ ~exec_active'["UP"]
        <3> DEFINE port == Node!WritePort(Node!NextPhase(exec_state))
        <3>0. PICK register : register = node_dst_reg
            OBVIOUS
        <3>1. exec_active' = Node!Raise({p \in {port} : Node!Uses(register, p)})
            BY <2>2, <3>0
        <3>2. port = IF exec_state = "LEFT" THEN "RIGHT" ELSE IF exec_state = "RIGHT" THEN "LEFT"
                      ELSE IF exec_state = "UP" THEN "DOWN" ELSE "UP"
            BY NodePorts
        <3> HIDE DEF port
        <3>3. exec_active' \in [Ports -> BOOLEAN]
            BY <3>1, Raised
        <3>4. exec_active'["UP"] <=> port = "UP" /\ Node!Uses(register, "UP")
            BY <3>1, Raised
        <3>5. exec_active'["DOWN"] <=> port = "DOWN" /\ Node!Uses(register, "DOWN")
            BY <3>1, Raised
        <3> QED BY <3>0, <3>2, <3>3, <3>4, <3>5 DEF Node!Uses
    <2> QED BY <1>1, <1>4, <2>1, <2>3 DEF Node!Try, Node!cpuVars, Node!ioVars, keptCpu
<1> QED BY <1>2, <1>3, <1>4

(* While nothing is moved. *)
LEMMA IdlesOn ==
    ASSUME Works, Idle, exec_state \in {"LEFT", "RIGHT", "UP", "DOWN"}
    PROVE  /\ UNCHANGED <<keptCpu, node_io_value, node_io_read, node_io_write,
                          node_src_reg, node_dst_reg>>
           /\ exec_active' \in [Ports -> BOOLEAN]
           /\ ~exec_active'["UP"] /\ ~exec_active'["DOWN"]
<1>1. Node!Try(NodeLines)
    BY DEF Idle, Works, Node!Processor, Node!Decode, Node!ReadDone, Node!WriteDone, Node!Finish,
           Node!Reading, Node!Writing
<1>2. exec_active' = Node!Quiet
    BY <1>1 DEF Idle, Node!Try, Node!Reading, Node!Writing
<1> QED BY <1>1, <1>2, NodeQuiet DEF Node!Try, Node!cpuVars, Node!ioVars, keptCpu

LEMMA NodeWorks ==
    ASSUME Parts, ClockEdge, active
    PROVE  /\ Works /\ exec_state \in Phases /\ memory' = memory
           /\ exec_state' = NextPhase(exec_state)
           /\ HandsOver => in_active["DOWN"] /\ exec_active["UP"] /\ exec_state = "DOWN"
           /\ TakesOver => out_active["UP"] /\ exec_active["DOWN"] /\ exec_state = "DOWN"
           /\ exec_state = "DOWN" /\ in_active["DOWN"] /\ exec_active["UP"] => HandsOver
           /\ exec_state = "DOWN" /\ out_active["UP"] /\ exec_active["DOWN"] => TakesOver
<1>1. Works /\ memory' = memory
    BY DEF ClockEdge, Node!ExecEdge, Works
<1>2. exec_state \in Phases /\ in_state = exec_state /\ out_state = exec_state
    BY DEF Parts, InStep, Gated
<1> QED BY <1>1, <1>2, NodesStep DEF HandsOver, TakesOver

(* Outside the conveying phases the lines stay as they are, which is down. *)
LEMMA LinesDown ==
    ASSUME LinesInv, exec_active' = exec_active, exec_state # "DOWN", exec_state' # "DOWN"
    PROVE  LinesInv'
BY DEF LinesInv

(* A word that does not jump is passed. *)
LEMMA Passed ==
    ASSUME NEW v, NEW acc, NEW pc, node_pc \in 0 .. 14, Node!Execute(v, acc, pc),
           Operation(memory[node_pc + 1]) \notin {"JRO", "JMP"}
    PROVE  LET op == Operation(memory[node_pc + 1])
           IN /\ node_pc' = IF node_pc = LastOf(memory) THEN 0 ELSE node_pc + 1
              /\ node_acc' = Node!Result(op, v, acc)
              /\ node_bak' = IF op \in {"SAV", "SWP"} THEN node_acc ELSE node_bak
<1> DEFINE w == memory[node_pc + 1]
<1>1. Node!current_instruction = w /\ (node_pc + 1) % 16 = node_pc + 1
    BY Fetched
<1>2. Node!Operation(w) = Operation(w) /\ Node!last_instruction_address = LastOf(memory)
    BY SameFields
<1>3. Node!IncrementPC = IF node_pc = LastOf(memory) THEN 0 ELSE node_pc + 1
    BY <1>1, <1>2 DEF Node!IncrementPC
<1> HIDE DEF w
<1> DEFINE op == Operation(w)
<1>4. /\ node_acc' = Node!Result(op, v, acc)
      /\ node_bak' = IF op \in {"SAV", "SWP"} THEN node_acc ELSE node_bak
    BY <1>1, <1>2 DEF Node!Execute
<1>5. node_pc' = CASE op = "JRO" -> Node!OffsetPC(v)
                   [] op = "JMP" /\ Node!Condition(w) = "none" -> pc
                   [] op = "JMP" /\ Node!Holds(Node!Condition(w), node_acc) ->
                          Node!SetPC(Node!Target(w))
                   [] OTHER -> Node!IncrementPC
    BY <1>1, <1>2, Zenon DEF Node!Execute
<1>6. op # "JRO" /\ op # "JMP"
    BY DEF w
<1> HIDE DEF op
<1>7. node_pc' = Node!IncrementPC
    BY <1>5, <1>6
<1> QED BY <1>3, <1>4, <1>7 DEF w, op

LEMMA PassedMove ==
    ASSUME NEW v, NEW acc, NEW pc, node_pc \in 0 .. 14, Node!Execute(v, acc, pc),
           Operation(memory[node_pc + 1]) = "other"
    PROVE  /\ node_pc' = IF node_pc = LastOf(memory) THEN 0 ELSE node_pc + 1
           /\ node_acc' = acc /\ node_bak' = node_bak
<1>1. Node!Result("other", v, acc) = acc
    BY DEF Node!Result
<1> QED BY <1>1, Passed

(* Between two values. *)
LEMMA AskingGoesOn ==
    ASSUME Served, Parts, ClockEdge, active, Asking
    PROVE  /\ LinesInv' /\ RegistersInv' /\ ~TakesOver
           /\ IF HandsOver THEN \A v : v = in_output => BusyWith(v)' ELSE Asking'
<1>1. /\ Works /\ exec_state \in Phases /\ memory' = memory
      /\ exec_state' = NextPhase(exec_state)
      /\ HandsOver => in_active["DOWN"] /\ exec_active["UP"] /\ exec_state = "DOWN"
      /\ TakesOver => out_active["UP"] /\ exec_active["DOWN"] /\ exec_state = "DOWN"
      /\ exec_state = "DOWN" /\ in_active["DOWN"] /\ exec_active["UP"] => HandsOver
    BY NodeWorks
<1>2. /\ LastOf(memory) \in 0 .. 14
      /\ Group(memory[1]) = "mov_register" /\ Source(memory[1]) = "UP"
      /\ \/ Copies(memory) /\ Destination(memory[1]) = "DOWN" /\ LastOf(memory) = 0
         \/ Computes(memory) /\ Destination(memory[1]) = "ACC" /\ LastOf(memory) > 0
      /\ Operation(memory[LastOf(memory) + 1]) = "other"
      /\ LastOf(memory)' = LastOf(memory) /\ Destination(memory[1])' = Destination(memory[1])
    BY <1>1, ProgramShape DEF Parts, RegistersInv
<1>3. /\ InputInv /\ OutputInv /\ LinesInv /\ memory \in Programs
      /\ node_io_read \in BOOLEAN /\ node_io_write \in BOOLEAN /\ node_bak \in Word11
    BY DEF Parts, RegistersInv
<1>4. CASE node_pc = LastOf(memory) /\ exec_state = "FINISH" /\ Idle
    <2>1. Node!FinishInstruction /\ exec_active' = exec_active
        BY <1>1, <1>4 DEF Works, Node!Processor, Node!Decode, Node!ReadDone, Node!WriteDone,
               Node!Try, Node!Conveying, Node!Finish, Node!FinishOperand, Node!FinishRead,
               Node!FinishNoRead, Node!FinishWrite, Node!Reading, Node!Writing, Idle
    <2>2. node_pc' = 0 /\ node_bak' = node_bak
        BY <1>2, <1>4, <2>1, PassedMove DEF Node!FinishInstruction
    <2>3. exec_state' = "RUN" /\ node_io_read' = node_io_read /\ node_io_write' = node_io_write
        BY <1>1, <1>4, <2>1 DEF NextPhase, Node!FinishInstruction, Node!ioVars
    <2>4. LinesInv'
        BY <1>3, <1>4, <2>1, <2>3, LinesDown
    <2> QED BY <1>1, <1>3, <1>4, <2>2, <2>3, <2>4 DEF Asking, Idle, RegistersInv
<1>5. CASE node_pc = 0 /\ exec_state = "RUN" /\ Idle
    <2>1. Node!Decode
        BY <1>1, <1>5 DEF Works, Node!Processor, Node!ReadDone, Node!WriteDone,
               Node!Try, Node!Conveying, Node!Finish
    <2>2. /\ Node!current_instruction = memory[1] /\ Node!Group(memory[1]) = "mov_register"
          /\ Node!Source(memory[1]) = "UP" /\ Node!Destination(memory[1]) = Destination(memory[1])
        BY <1>2, <1>5, Fetched, SameFields
    <2>3. Node!DecodeMov(memory[1]) /\ UNCHANGED <<keptCpu, exec_active>>
        BY <1>5, <2>1, <2>2 DEF Node!Decode, Idle, Node!cpuVars, keptCpu
    <2>4. /\ node_io_read' = TRUE /\ node_io_write' = TRUE /\ node_src_reg' = "UP"
          /\ node_dst_reg' = Destination(memory[1])
        BY <1>2, <2>2, <2>3 DEF Node!DecodeMov
    <2>5. exec_state' = "LEFT" /\ LinesInv'
        BY <1>1, <1>3, <1>5, <2>3, LinesDown DEF NextPhase
    <2>6. Asking' /\ RegistersInv'
        BY <1>1, <1>2, <1>3, <1>5, <2>3, <2>4 DEF Asking, RegistersInv, keptCpu
    <2> QED BY <1>1, <1>5, <2>5, <2>6
<1>6. CASE /\ node_pc = 0 /\ node_io_read /\ node_io_write
           /\ node_src_reg = "UP" /\ node_dst_reg = Destination(memory[1])
    <2>1. CASE exec_state = "RUN"
        <3>1. Node!Decode
            BY <1>1, <2>1 DEF Works, Node!Processor, Node!ReadDone, Node!WriteDone,
                   Node!Try, Node!Conveying, Node!Finish
        <3>2. UNCHANGED <<keptCpu, node_io_read, node_io_write, node_src_reg, node_dst_reg, exec_active>>
            BY <1>6, <3>1 DEF Node!Decode, Node!cpuVars, Node!ioVars, keptCpu
        <3>3. LinesInv'
            BY <1>1, <1>3, <2>1, <3>2, LinesDown DEF NextPhase
        <3> QED BY <1>1, <1>2, <1>3, <1>6, <2>1, <3>2, <3>3 DEF Asking, RegistersInv, keptCpu
    <2>2. CASE exec_state = "FINISH"
        <3>1. ~NodeLines["DOWN"] \/ ~Node!Uses(node_src_reg, "DOWN")
            BY <1>6 DEF Node!Uses
        <3>2. Node!FinishNoRead(NodeLines) /\ exec_active' = exec_active
            BY <1>1, <1>6, <2>2, <3>1 DEF Works, Node!Processor, Node!Decode, Node!ReadDone,
                   Node!WriteDone, Node!Try, Node!Conveying, Node!Finish, Node!FinishOperand,
                   Node!FinishRead, Node!FinishWrite, Node!FinishInstruction, Node!Reading,
                   Node!Writing
        <3>3. UNCHANGED <<keptCpu, node_io_read, node_io_write, node_src_reg, node_dst_reg>>
            BY <3>2 DEF Node!FinishNoRead, Node!cpuVars, Node!ioVars, keptCpu
        <3>4. LinesInv'
            BY <1>1, <1>3, <2>2, <3>2, LinesDown DEF NextPhase
        <3> QED BY <1>1, <1>2, <1>3, <1>6, <2>2, <3>3, <3>4 DEF Asking, RegistersInv, keptCpu
    <2>3. CASE exec_state \in {"LEFT", "RIGHT", "UP", "DOWN"}
        <3>1. /\ UNCHANGED <<keptCpu, node_io_write, node_src_reg, node_dst_reg>>
              /\ IF exec_state = "DOWN" /\ in_active["DOWN"]
                   THEN node_io_value' = in_output /\ node_io_read' = FALSE
                   ELSE UNCHANGED <<node_io_value, node_io_read>>
              /\ exec_active' \in [Ports -> BOOLEAN]
              /\ exec_active'["UP"] <=> (exec_state = "UP")
              /\ ~exec_active'["DOWN"]
            BY <1>1, <1>3, <1>6, <2>3, ReadsOn
        <3>2. exec_state' = "DOWN" <=> exec_state = "UP"
            BY <1>1 DEF NextPhase, Phases
        <3>3. LinesInv'
            BY <1>6, <3>1, <3>2 DEF LinesInv
        <3>4. HandsOver <=> exec_state = "DOWN" /\ in_active["DOWN"]
            BY <1>1, <1>3, <1>6 DEF LinesInv
        <3>5. RegistersInv' /\ ~TakesOver
            BY <1>1, <1>3, <1>6, <3>1 DEF RegistersInv, LinesInv, keptCpu
        <3>6. CASE ~HandsOver
            BY <1>2, <1>6, <3>1, <3>3, <3>4, <3>5, <3>6 DEF Asking, keptCpu
        <3>7. CASE HandsOver
            <4> SUFFICES ASSUME NEW v, v = in_output PROVE BusyWith(v)'
                BY <3>3, <3>5, <3>7
            <4>1. node_io_value' = v /\ ~node_io_read' /\ node_io_write' /\ node_pc' = 0
                BY <1>6, <3>1, <3>4, <3>7 DEF keptCpu
            <4>2. exec_state' = "FINISH"
                BY <1>1, <3>7 DEF NextPhase
            <4>3. node_dst_reg' = Destination(memory[1])
                BY <1>6, <3>1
            <4>4. CASE Copies(memory) /\ Destination(memory[1]) = "DOWN" /\ LastOf(memory) = 0
                <5>1. v \in 1 .. Inputs
                    BY <3>7, HeadIsNext, SystemAssumption DEF Parts, HostInv
                <5>2. Outcome(memory, v) = v
                    BY <4>4, <5>1, Zenon DEF Copies
                <5>3. Sending(Outcome(memory, v))'
                    BY <1>1, <1>2, <4>1, <4>3, <4>4, <5>2 DEF Sending
                <5> QED BY <5>3 DEF BusyWith
            <4>5. CASE Computes(memory) /\ Destination(memory[1]) = "ACC" /\ LastOf(memory) > 0
                <5>1. Computes(memory)'
                    BY <1>1, <4>5 DEF Computes, Traces, LastOf
                <5>2. Computing(v)'
                    BY <4>1, <4>2, <4>3, <4>5, <5>1 DEF Computing, JustRead
                <5> QED BY <5>2 DEF BusyWith
            <4> QED BY <1>2, <4>4, <4>5
        <3> QED BY <3>6, <3>7
    <2> QED BY <1>1, <2>1, <2>2, <2>3 DEF Phases
<1> QED BY <1>4, <1>5, <1>6 DEF Asking

(* With a result on its way out. *)
LEMMA SendingGoesOn ==
    ASSUME Served, Parts, ClockEdge, active, NEW x, Sending(x)
    PROVE  /\ LinesInv' /\ RegistersInv' /\ ~HandsOver /\ node_io_value = x
           /\ IF TakesOver THEN Asking' ELSE Sending(x)'
<1>1. /\ Works /\ exec_state \in Phases /\ memory' = memory
      /\ exec_state' = NextPhase(exec_state)
      /\ HandsOver => in_active["DOWN"] /\ exec_active["UP"] /\ exec_state = "DOWN"
      /\ TakesOver => out_active["UP"] /\ exec_active["DOWN"] /\ exec_state = "DOWN"
      /\ exec_state = "DOWN" /\ out_active["UP"] /\ exec_active["DOWN"] => TakesOver
    BY NodeWorks
<1>2. LastOf(memory)' = LastOf(memory)
    BY <1>1 DEF LastOf
<1>3. /\ InputInv /\ OutputInv /\ LinesInv /\ memory \in Programs
      /\ node_io_read \in BOOLEAN /\ node_io_write \in BOOLEAN /\ node_bak \in Word11
    BY DEF Parts, RegistersInv
<1>4. /\ node_pc = LastOf(memory) /\ ~node_io_read /\ node_io_write
      /\ node_dst_reg = "DOWN" /\ node_io_value = x
    BY DEF Sending
<1>5. ~HandsOver
    BY <1>1, <1>3, <1>4 DEF LinesInv
<1>6. CASE exec_state \in {"RUN", "FINISH"}
    <2>1. UNCHANGED <<node_pc, node_bak, node_io_read, node_io_write, node_dst_reg, node_io_value, exec_active>>
        <3>1. CASE exec_state = "RUN"
            <4>1. Node!Decode
                BY <1>1, <3>1 DEF Works, Node!Processor, Node!ReadDone, Node!WriteDone,
                       Node!Try, Node!Conveying, Node!Finish
            <4> QED BY <1>4, <4>1 DEF Node!Decode, Node!cpuVars, Node!ioVars
        <3>2. CASE exec_state = "FINISH"
            <4>1. ~(NodeLines["UP"] /\ Node!Uses(node_dst_reg, "UP")) /\ node_dst_reg \notin {"ACC", "NIL"}
                BY <1>4 DEF Node!Uses
            <4>2. Node!FinishWrite(NodeLines) /\ exec_active' = exec_active
                BY <1>1, <1>4, <3>2 DEF Works, Node!Processor, Node!Decode, Node!ReadDone,
                       Node!WriteDone, Node!Try, Node!Conveying, Node!Finish, Node!FinishOperand,
                       Node!FinishRead, Node!FinishNoRead, Node!FinishInstruction, Node!Reading,
                       Node!Writing
            <4> QED BY <4>1, <4>2 DEF Node!FinishWrite
        <3> QED BY <1>6, <3>1, <3>2
    <2>2. exec_state' # "DOWN" /\ LinesInv'
        BY <1>1, <1>3, <1>6, <2>1, LinesDown DEF NextPhase
    <2>3. ~TakesOver
        BY <1>1, <1>6
    <2> QED BY <1>1, <1>2, <1>3, <1>4, <1>5, <2>1, <2>2, <2>3 DEF Sending, RegistersInv
<1>7. CASE exec_state \in {"LEFT", "RIGHT", "UP", "DOWN"}
    <2>1. /\ UNCHANGED <<keptCpu, node_io_value, node_io_read, node_src_reg, node_dst_reg>>
          /\ IF exec_state = "DOWN" /\ out_active["UP"]
               THEN node_io_write' = FALSE ELSE UNCHANGED node_io_write
          /\ exec_active' \in [Ports -> BOOLEAN]
          /\ exec_active'["DOWN"] <=> (exec_state = "UP")
          /\ ~exec_active'["UP"]
        BY <1>1, <1>3, <1>4, <1>7, WritesOn
    <2>2. exec_state' = "DOWN" <=> exec_state = "UP"
        BY <1>1 DEF NextPhase, Phases
    <2>3. LinesInv'
        BY <1>4, <2>1, <2>2 DEF LinesInv
    <2>4. TakesOver <=> exec_state = "DOWN" /\ out_active["UP"]
        BY <1>1, <1>3, <1>4 DEF LinesInv
    <2>5. RegistersInv'
        BY <1>1, <1>3, <2>1 DEF RegistersInv, keptCpu
    <2>6. CASE ~TakesOver
        BY <1>2, <1>4, <1>5, <2>1, <2>3, <2>4, <2>5, <2>6 DEF Sending, keptCpu
    <2>7. CASE TakesOver
        <3>1. exec_state' = "FINISH"
            BY <1>1, <2>7 DEF NextPhase
        <3> QED BY <1>2, <1>4, <1>5, <2>1, <2>3, <2>4, <2>5, <2>7, <3>1 DEF Asking, Idle, keptCpu
    <2> QED BY <2>6, <2>7
<1> QED BY <1>1, <1>6, <1>7 DEF Phases

-----------------------------------------------------------------------------
(* In between. *)

LEMMA SumsHaveOperands ==
    ASSUME NEW w \in Word16, Operation(w) \in {"ADD", "SUB"}
    PROVE  Group(w) # "no_operand"
<1>1. Bits(w, 15, 12) = 0
    BY DEF Operation
<1>2. w \in Int
    BY WordRange
<1>3. Bits(w, 15, 14) = 0
    <2>1. (w \div 4096) % 16 = 0
        BY <1>1 DEF Bits
    <2>2. (w \div 16384) % 4 = 0
        BY <1>2, <2>1
    <2> QED BY <2>2 DEF Bits
<1> QED BY <1>3 DEF Group

(* The registers after a plain word are those the trace has next. *)
LEMMA PlainComputes ==
    ASSUME NEW w \in Word16, NEW r \in Files, node_acc = r.acc, node_bak = r.bak, NEW v,
           Group(w) # "no_operand" => v = OperandOf(w, node_acc)
    PROVE  LET op == Operation(w)
               s == Computed(w, r)
           IN /\ Node!Result(op, v, node_acc) = s.acc
              /\ (IF op \in {"SAV", "SWP"} THEN node_acc ELSE node_bak) = s.bak
<1> DEFINE op == Operation(w)
           s == Computed(w, r)
<1>1. \A x : Node!Wrap11(x) = Wrap11(x)
    BY DEF Node!Wrap11, Wrap11
<1>2. op \in {"ADD", "SUB"} => v = OperandOf(w, node_acc)
    BY SumsHaveOperands
<1> HIDE DEF op
<1>3. /\ s.acc = CASE op = "ADD" -> Wrap11(r.acc + OperandOf(w, r.acc))
                   [] op = "SUB" -> Wrap11(r.acc - OperandOf(w, r.acc))
                   [] op = "NEG" -> Wrap11(-r.acc)
                   [] op = "SWP" -> r.bak
                   [] OTHER -> r.acc
      /\ s.bak = IF op \in {"SAV", "SWP"} THEN r.acc ELSE r.bak
    BY DEF Computed, op
<1> HIDE DEF s
<1>4. Node!Result(op, v, node_acc) = s.acc
    <2>1. CASE op = "ADD"
        BY <1>1, <1>2, <1>3, <2>1 DEF Node!Result
    <2>2. CASE op = "SUB"
        BY <1>1, <1>2, <1>3, <2>2 DEF Node!Result
    <2>3. CASE op = "NEG"
        BY <1>1, <1>3, <2>3 DEF Node!Result
    <2>4. CASE op = "SWP"
        BY <1>3, <2>4 DEF Node!Result
    <2>5. CASE op \notin {"ADD", "SUB", "NEG", "SWP"}
        BY <1>3, <2>5 DEF Node!Result
    <2> QED BY <2>1, <2>2, <2>3, <2>4, <2>5
<1> QED BY <1>3, <1>4 DEF s, op

(* A computing node neither asks nor offers. *)
LEMMA ComputingIsQuiet ==
    ASSUME Parts, ClockEdge, active, NEW v, Computing(v)
    PROVE  ~HandsOver /\ ~TakesOver
<1>1. /\ HandsOver => exec_active["UP"]
      /\ TakesOver => exec_active["DOWN"]
      /\ LinesInv
    BY NodeWorks DEF Parts
<1>2. CASE JustRead(v)
    BY <1>1, <1>2 DEF JustRead, LinesInv
<1>3. CASE PlainNext
    BY <1>1, <1>3 DEF PlainNext, LinesInv, Idle
<1>4. CASE MoveNext
    BY <1>1, <1>4 DEF MoveNext, LinesInv, Idle
<1>5. CASE MoveDecoded
    BY <1>1, <1>5 DEF MoveDecoded, LinesInv
<1> QED BY <1>2, <1>3, <1>4, <1>5 DEF Computing

LEMMA JustReadGoesOn ==
    ASSUME Served, Parts, ClockEdge, active, NEW v \in 1 .. Inputs, Computes(memory), JustRead(v)
    PROVE  LinesInv' /\ node_bak' \in Word11 /\ node_io_read' \in BOOLEAN
           /\ node_io_write' \in BOOLEAN /\ BusyWith(v)'
<1>1. Works /\ memory' = memory /\ exec_state' = "RUN"
    BY NodeWorks DEF JustRead, NextPhase
<1>2. ~(NodeLines["UP"] /\ Node!Uses(node_dst_reg, "UP"))
    BY DEF Node!Uses, JustRead
<1>3. Node!FinishWrite(NodeLines) /\ exec_active' = exec_active
    BY <1>1 DEF JustRead, Works, Node!Processor, Node!Decode,
           Node!ReadDone, Node!WriteDone, Node!Try, Node!Conveying, Node!Finish,
           Node!FinishOperand, Node!FinishRead, Node!FinishNoRead, Node!FinishInstruction,
           Node!Reading, Node!Writing
<1>4. /\ node_io_write' = FALSE /\ node_io_read' = node_io_read /\ node_acc' = v
      /\ node_bak' = node_bak /\ node_pc' = Node!IncrementPC
    BY <1>2, <1>3 DEF Node!FinishWrite, JustRead
<1>5. LastOf(memory) \in 1 .. 14 /\ node_bak \in Word11 /\ node_io_read \in BOOLEAN /\ ~node_io_read
    <2>1. LastOf(memory) \in 1 .. 14
        BY Zenon DEF Computes
    <2> QED BY <2>1 DEF Parts, RegistersInv, JustRead
<1>6. node_pc' = 1
    <2>1. Node!last_instruction_address # 0
        BY <1>5, SameFields
    <2> QED BY <1>4, <2>1 DEF JustRead, Node!IncrementPC
<1>7. PICK b \in Word11 : b = node_bak
    BY <1>5
<1>8. PICK f : Traces(memory, f, v, b)
    BY Zenon DEF Computes
<1>9. f[1] = [acc |-> v, bak |-> b]
    BY <1>8, Zenon DEF Traces
<1>10. /\ LastOf(memory)' = LastOf(memory) /\ Computes(memory)'
       /\ Traces(memory, f, v, b)'
    BY <1>1, <1>8 DEF Computes, Traces, LastOf
<1>11. At(f, v, b)'
    BY <1>4, <1>5, <1>6, <1>7, <1>9, <1>10 DEF At
<1>12. PlainNext' \/ MoveNext'
    BY <1>1, <1>4, <1>5, <1>6, <1>10 DEF PlainNext, MoveNext, Idle
<1>13. Computing(v)'
    BY <1>10, <1>11, <1>12 DEF Computing
<1>14. LinesInv'
    BY <1>1, <1>3, LinesDown DEF Parts, JustRead
<1> QED BY <1>4, <1>5, <1>13, <1>14 DEF BusyWith

(* What a node that computes knows of its program, this edge and the next. *)
LEMMA ComputesShape ==
    ASSUME Served, Parts, Computes(memory), memory' = memory
    PROVE  /\ LastOf(memory) \in 1 .. 14 /\ LastOf(memory)' = LastOf(memory)
           /\ Computes(memory)'
           /\ memory \in [0 .. 15 -> Word16]
           /\ \A k \in 1 .. LastOf(memory) - 1 : Plain(memory[k + 1])
           /\ Moves(memory[LastOf(memory) + 1], "ACC", "DOWN")
           /\ InputInv /\ OutputInv /\ LinesInv
           /\ node_io_read \in BOOLEAN /\ node_io_write \in BOOLEAN /\ node_bak \in Word11
<1>1. /\ LastOf(memory) \in 1 .. 14 
      /\ \A k \in 1 .. LastOf(memory) - 1 : Plain(memory[k + 1])
      /\ Moves(memory[LastOf(memory) + 1], "ACC", "DOWN")
    BY Zenon DEF Computes
<1>2. LastOf(memory)' = LastOf(memory) /\ Computes(memory)'
    BY DEF Computes, Traces, LastOf
<1> QED BY <1>1, <1>2, ProgramShape DEF Parts, RegistersInv

(* If the registers do not move, their place in the trace stays. *)
LEMMA StaysAt ==
    ASSUME NEW f, NEW v, NEW b, At(f, v, b), memory' = memory, UNCHANGED keptCpu,
           Computes(memory)
    PROVE  At(f, v, b)'
<1>1. Traces(memory, f, v, b)' /\ LastOf(memory)' = LastOf(memory)
    BY DEF At, Traces, LastOf
<1> QED BY <1>1 DEF At, keptCpu

LEMMA PlainGoesOn ==
    ASSUME Served, Parts, ClockEdge, active, NEW v, Computes(memory),
           NEW b \in Word11, NEW f, At(f, v, b), PlainNext
    PROVE  LinesInv' /\ node_bak' \in Word11 /\ node_io_read' \in BOOLEAN
           /\ node_io_write' \in BOOLEAN /\ Computing(v)'
<1> DEFINE w == memory[node_pc + 1]
           last == LastOf(memory)
<1>1. Works /\ memory' = memory /\ exec_state \in Phases /\ exec_state' = NextPhase(exec_state)
    BY NodeWorks
<1>2. /\ last \in 1 .. 14 /\ LastOf(memory)' = last /\ Computes(memory)'
      /\ memory \in [0 .. 15 -> Word16] /\ \A k \in 1 .. last - 1 : Plain(memory[k + 1])
      /\ InputInv /\ OutputInv /\ LinesInv
      /\ node_io_read \in BOOLEAN /\ node_io_write \in BOOLEAN /\ node_bak \in Word11
    BY <1>1, ComputesShape
<1>3. node_pc \in 1 .. last - 1 /\ node_pc \in 0 .. 14 /\ Idle
    BY <1>2 DEF At, PlainNext
<1>4. w \in Word16 /\ Plain(w)
    BY <1>2, <1>3
<1>5. Node!current_instruction = w
    BY <1>3, Fetched
<1>6. /\ f \in [1 .. last -> Files] /\ f[node_pc + 1] = Computed(w, f[node_pc])
    BY <1>3, Zenon DEF At, Traces
<1>7. f[node_pc] \in Files /\ node_acc \in Word11 /\ f[node_pc + 1] \in Files
    BY <1>2, <1>3, <1>6 DEF At, Files
<1>8. CASE exec_state = "RUN"
    <2>1. Node!Decode
        BY <1>1, <1>8 DEF Works, Node!Processor, Node!ReadDone, Node!WriteDone,
               Node!Try, Node!Conveying, Node!Finish
    <2>2. /\ Node!Group(w) = Group(w) /\ Node!Source(w) = Source(w)
          /\ Node!AluImmediate(w) = AluImmediate(w)
        BY SameFields
    <2>3. /\ UNCHANGED <<keptCpu, exec_active>> /\ node_io_read' = FALSE /\ node_io_write' = FALSE
          /\ Group(w) # "no_operand" => node_io_value' = OperandOf(w, node_acc)
        <3>1. CASE Group(w) = "no_operand"
            BY <1>3, <1>5, <2>1, <2>2, <3>1
               DEF Node!Decode, Idle, Node!cpuVars, Node!ioVars, keptCpu, Parts, RegistersInv
        <3>2. CASE Group(w) # "no_operand"
            <4>1. \/ Group(w) = "alu_immediate"
                  \/ Group(w) = "alu_register" /\ Source(w) \in {"NIL", "ACC"}
                BY <1>4, <3>2 DEF Plain
            <4>2. Node!DecodeAlu(w) /\ UNCHANGED <<keptCpu, exec_active>>
                BY <1>3, <1>5, <2>1, <2>2, <4>1 DEF Node!Decode, Idle, Node!cpuVars, keptCpu
            <4>3. Node!AluOperand(w) = OperandOf(w, node_acc)
                BY <2>2 DEF Node!AluOperand, OperandOf
            <4> QED BY <2>2, <4>1, <4>2, <4>3 DEF Node!DecodeAlu
        <3> QED BY <3>1, <3>2
    <2>4. At(f, v, b)'
        BY <1>1, <2>3, StaysAt
    <2>5. PlainNext'
        <3>1. node_pc' = node_pc /\ node_acc' = node_acc
            BY <2>3 DEF keptCpu
        <3>2. memory'[node_pc' + 1] = w
            BY <1>1, <3>1
        <3>3. Group(memory[node_pc + 1])' = Group(w)
            BY <1>1, <3>1
        <3>4. OperandOf(memory[node_pc + 1], node_acc)' = OperandOf(w, node_acc)
            BY <1>1, <3>1
        <3> QED BY <1>2, <1>3, <2>3, <3>1, <3>3, <3>4 DEF PlainNext, Idle
    <2>6. LinesInv'
        BY <1>1, <1>2, <1>8, <2>3, LinesDown DEF NextPhase
    <2> QED BY <1>2, <2>3, <2>4, <2>5, <2>6 DEF Computing, keptCpu
<1>9. CASE exec_state \in {"LEFT", "RIGHT", "UP", "DOWN"}
    <2>1. /\ UNCHANGED <<keptCpu, node_io_value, node_io_read, node_io_write>>
          /\ exec_active' \in [Ports -> BOOLEAN]
          /\ ~exec_active'["UP"] /\ ~exec_active'["DOWN"]
        BY <1>1, <1>3, <1>9, IdlesOn
    <2>2. At(f, v, b)'
        BY <1>1, <2>1, StaysAt
    <2>3. PlainNext'
        <3>1. node_pc' = node_pc /\ node_acc' = node_acc
            BY <2>1 DEF keptCpu
        <3>2. Group(memory[node_pc + 1])' = Group(w)
            BY <1>1, <3>1
        <3>3. OperandOf(memory[node_pc + 1], node_acc)' = OperandOf(w, node_acc)
            BY <1>1, <3>1
        <3> QED BY <1>2, <1>3, <1>9, <2>1, <3>1, <3>2, <3>3 DEF PlainNext, Idle
    <2>4. LinesInv'
        BY <1>3, <2>1 DEF LinesInv, Idle
    <2> QED BY <1>2, <2>1, <2>2, <2>3, <2>4 DEF Computing, keptCpu
<1>10. CASE exec_state = "FINISH"
    <2>1. Node!FinishInstruction /\ exec_active' = exec_active
        BY <1>1, <1>3, <1>10 DEF Works, Node!Processor, Node!Decode, Node!ReadDone,
               Node!WriteDone, Node!Try, Node!Conveying, Node!Finish, Node!FinishOperand,
               Node!FinishRead, Node!FinishNoRead, Node!FinishWrite, Node!Reading, Node!Writing, Idle
    <2>2. /\ node_pc' = node_pc + 1
          /\ node_acc' = Node!Result(Operation(w), node_io_value, node_acc)
          /\ node_bak' = IF Operation(w) \in {"SAV", "SWP"} THEN node_acc ELSE node_bak
        <3>1. Node!Execute(node_io_value, node_acc, node_pc) /\ Operation(w) \notin {"JRO", "JMP"}
            BY <1>4, <2>1 DEF Node!FinishInstruction, Plain
        <3>2. node_pc # last
            BY <1>2, <1>3
        <3> QED BY <1>3, <3>1, <3>2, Passed
    <2>3. node_acc' = f[node_pc + 1].acc /\ node_bak' = f[node_pc + 1].bak
        <3>1. node_acc = f[node_pc].acc /\ node_bak = f[node_pc].bak
            BY DEF At
        <3>2. Group(w) # "no_operand" => node_io_value = OperandOf(w, node_acc)
            BY <1>10 DEF PlainNext
        <3> HIDE DEF w
        <3> QED BY <1>4, <1>6, <1>7, <2>2, <3>1, <3>2, PlainComputes
    <2>4. /\ node_io_read' = FALSE /\ node_io_write' = FALSE /\ exec_state' = "RUN"
        BY <1>1, <1>2, <1>3, <1>10, <2>1 DEF Node!FinishInstruction, Node!ioVars, Idle, NextPhase
    <2>5. Traces(memory, f, v, b)'
        BY <1>1 DEF At, Traces, LastOf
    <2>6. At(f, v, b)'
        BY <1>2, <1>3, <2>2, <2>3, <2>5 DEF At
    <2>7. PlainNext' \/ MoveNext'
        BY <1>2, <1>3, <2>2, <2>4 DEF PlainNext, MoveNext, Idle
    <2>8. node_bak' \in Word11
        BY <1>7, <2>3 DEF Files
    <2>9. LinesInv'
        BY <1>2, <1>10, <2>1, <2>4, LinesDown
    <2> QED BY <1>2, <2>4, <2>6, <2>7, <2>8, <2>9 DEF Computing
<1> QED BY <1>1, <1>8, <1>9, <1>10 DEF Phases

LEMMA MoveNextGoesOn ==
    ASSUME Served, Parts, ClockEdge, active, NEW v, Computes(memory),
           NEW b \in Word11, NEW f, At(f, v, b), MoveNext
    PROVE  LinesInv' /\ node_bak' \in Word11 /\ node_io_read' \in BOOLEAN
           /\ node_io_write' \in BOOLEAN /\ Computing(v)'
<1> DEFINE w == memory[node_pc + 1]
           last == LastOf(memory)
<1>1. Works /\ memory' = memory /\ exec_state' = "LEFT" /\ exec_state = "RUN"
    BY NodeWorks DEF MoveNext, NextPhase
<1>2. /\ last \in 1 .. 14 /\ LastOf(memory)' = last /\ Computes(memory)'
      /\ Moves(memory[last + 1], "ACC", "DOWN")
      /\ InputInv /\ OutputInv /\ LinesInv
      /\ node_io_read \in BOOLEAN /\ node_io_write \in BOOLEAN /\ node_bak \in Word11
    BY <1>1, ComputesShape
<1>3. node_pc = last /\ node_pc \in 0 .. 14 /\ Idle
    BY <1>2 DEF MoveNext
<1>4. Node!Decode
    BY <1>1 DEF Works, Node!Processor, Node!ReadDone, Node!WriteDone,
           Node!Try, Node!Conveying, Node!Finish
<1>5. /\ Node!current_instruction = w /\ Node!Group(w) = "mov_register"
      /\ Node!Source(w) = "ACC" /\ Node!Destination(w) = "DOWN"
    BY <1>2, <1>3, Fetched, SameFields DEF Moves
<1>6. Node!DecodeMov(w) /\ UNCHANGED <<keptCpu, exec_active>>
    BY <1>3, <1>4, <1>5 DEF Node!Decode, Idle, Node!cpuVars, keptCpu
<1>7. /\ node_io_read' = TRUE /\ node_io_write' = TRUE /\ node_src_reg' = "ACC"
      /\ node_dst_reg' = "DOWN" /\ node_io_value' = node_acc
    BY <1>5, <1>6 DEF Node!DecodeMov
<1>8. At(f, v, b)'
    BY <1>1, <1>6, StaysAt
<1>9. MoveDecoded'
    BY <1>1, <1>2, <1>3, <1>6, <1>7 DEF MoveDecoded, keptCpu
<1>10. LinesInv'
    BY <1>1, <1>2, <1>6, LinesDown
<1> QED BY <1>2, <1>6, <1>7, <1>8, <1>9, <1>10 DEF Computing, keptCpu

LEMMA MoveDecodedGoesOn ==
    ASSUME Served, Parts, ClockEdge, active, NEW v, Computes(memory),
           NEW b \in Word11, NEW f, At(f, v, b), MoveDecoded
    PROVE  LinesInv' /\ node_bak' \in Word11 /\ node_io_read' \in BOOLEAN
           /\ node_io_write' \in BOOLEAN /\ BusyWith(v)'
<1> DEFINE last == LastOf(memory)
<1>1. Works /\ memory' = memory /\ exec_state \in Phases /\ exec_state' = NextPhase(exec_state)
    BY NodeWorks
<1>2. /\ last \in 1 .. 14 /\ LastOf(memory)' = last /\ Computes(memory)'
      /\ InputInv /\ OutputInv /\ LinesInv
      /\ node_io_read \in BOOLEAN /\ node_io_write \in BOOLEAN /\ node_bak \in Word11
    BY <1>1, ComputesShape
<1>3. /\ node_pc = last /\ exec_state # "RUN" /\ node_io_read /\ node_io_write
      /\ node_src_reg = "ACC" /\ node_dst_reg = "DOWN" /\ node_io_value = node_acc
    BY DEF MoveDecoded
<1>4. CASE exec_state \in {"LEFT", "RIGHT", "UP", "DOWN"}
    <2>1. /\ UNCHANGED <<keptCpu, node_io_write, node_src_reg, node_dst_reg, node_io_value, node_io_read>>
          /\ exec_active' \in [Ports -> BOOLEAN]
          /\ ~exec_active'["UP"] /\ ~exec_active'["DOWN"]
        BY <1>1, <1>2, <1>3, <1>4, ReadsOn
    <2>2. At(f, v, b)'
        BY <1>1, <2>1, StaysAt
    <2>3. exec_state' # "RUN"
        BY <1>1, <1>4 DEF NextPhase
    <2>4. MoveDecoded'
        BY <1>2, <1>3, <2>1, <2>3 DEF MoveDecoded, keptCpu
    <2>5. LinesInv'
        BY <1>3, <2>1 DEF LinesInv
    <2> QED BY <1>2, <2>1, <2>2, <2>4, <2>5 DEF Computing, BusyWith, keptCpu
<1>5. CASE exec_state = "FINISH"
    <2>1. ~(NodeLines["DOWN"] /\ Node!Uses(node_src_reg, "DOWN"))
        BY <1>3 DEF Node!Uses
    <2>2. Node!FinishOperand /\ exec_active' = exec_active
        BY <1>1, <1>3, <1>5, <2>1 DEF Works, Node!Processor, Node!Decode, Node!ReadDone,
               Node!WriteDone, Node!Try, Node!Conveying, Node!Finish, Node!FinishRead,
               Node!FinishNoRead, Node!FinishWrite, Node!FinishInstruction, Node!Reading,
               Node!Writing
    <2>3. /\ node_io_read' = FALSE
          /\ UNCHANGED <<node_pc, node_bak, node_io_write, node_io_value, node_dst_reg>>
        BY <1>3, <2>2 DEF Node!FinishOperand
    <2>4. node_io_value = Outcome(memory, v)
        <3>1. f[last].acc = Outcome(memory, v)
            BY Zenon DEF At, Traces
        <3> QED BY <1>3, <3>1 DEF At
    <2>5. PICK x : x = Outcome(memory, v)
        OBVIOUS
    <2>6. Outcome(memory, v)' = x
        BY <1>1, <2>5
    <2>7. Sending(x)'
        BY <1>2, <1>3, <2>3, <2>4, <2>5 DEF Sending
    <2>8. BusyWith(v)'
        BY <2>6, <2>7 DEF BusyWith
    <2>9. LinesInv'
        BY <1>1, <1>2, <1>5, <2>2, LinesDown DEF NextPhase
    <2> QED BY <1>2, <2>3, <2>8, <2>9
<1> QED BY <1>1, <1>3, <1>4, <1>5 DEF Phases

(* All together, with the gate open or closed. *)
LEMMA BusyGoesOn ==
    ASSUME Served, Parts, ClockEdge, NEW v \in 1 .. Inputs, BusyWith(v)
    PROVE  /\ LinesInv' /\ RegistersInv' /\ ~HandsOver
           /\ TakesOver => node_io_value = Outcome(memory, v)
           /\ IF TakesOver THEN Asking' ELSE BusyWith(v)'
<1>1. CASE active /\ Sending(Outcome(memory, v))
    <2>1. PICK x : x = Outcome(memory, v)
        OBVIOUS
    <2>2. Sending(x)
        BY <1>1, <2>1
    <2>3. /\ LinesInv' /\ RegistersInv' /\ ~HandsOver /\ node_io_value = x
          /\ IF TakesOver THEN Asking' ELSE Sending(x)'
        BY <1>1, <2>2, SendingGoesOn
    <2>4. Outcome(memory, v)' = x
        BY <1>1, <2>1, NodeWorks
    <2> QED BY <2>1, <2>3, <2>4 DEF BusyWith
<1>2. CASE active /\ Computing(v)
    <2>1. ~HandsOver /\ ~TakesOver
        BY <1>2, ComputingIsQuiet
    <2>2. /\ LinesInv' /\ node_bak' \in Word11 /\ node_io_read' \in BOOLEAN
          /\ node_io_write' \in BOOLEAN /\ BusyWith(v)'
        BY <1>2, JustReadGoesOn, PlainGoesOn, MoveNextGoesOn, MoveDecodedGoesOn
           DEF Computing, BusyWith
    <2>3. memory' = memory
        BY <1>2, NodeWorks
    <2> QED BY <2>1, <2>2, <2>3 DEF RegistersInv, Parts
<1>3. CASE ~active
    <2>1. UNCHANGED <<memory, exec_state, keptCpu, node_io_value, node_io_read, node_io_write,
                      node_src_reg, node_dst_reg, exec_active>>
        BY <1>3 DEF ClockEdge, Node!ExecEdge, Node!cpuVars, Node!ioVars, keptCpu
    <2>2. ~HandsOver /\ ~TakesOver
        BY <1>3 DEF HandsOver, TakesOver
    <2>3. LinesInv' /\ RegistersInv'
        BY <2>1 DEF Parts, LinesInv, RegistersInv, keptCpu
    <2>4. BusyWith(v)'
        <3>1. Sending(Outcome(memory, v)) => Sending(Outcome(memory, v))'
            BY <2>1 DEF Sending, LastOf, keptCpu
        <3>2. ASSUME Computing(v) PROVE Computing(v)'
            <4>1. Computes(memory)' /\ (JustRead(v) => JustRead(v)')
                BY <2>1, <3>2 DEF Computing, Computes, LastOf, Traces, JustRead, keptCpu
            <4>2. ASSUME NEW b \in Word11, NEW f, At(f, v, b) PROVE At(f, v, b)'
                BY <2>1, <3>2, <4>2, StaysAt DEF Computing
            <4>3. /\ PlainNext => PlainNext'
                  /\ MoveNext => MoveNext'
                  /\ MoveDecoded => MoveDecoded'
                BY <2>1 DEF PlainNext, MoveNext, MoveDecoded, Idle, LastOf, keptCpu
            <4> QED BY <3>2, <4>1, <4>2, <4>3 DEF Computing
        <3> QED BY <3>1, <3>2 DEF BusyWith
    <2> QED BY <2>2, <2>3, <2>4
<1> QED BY <1>1, <1>2, <1>3 DEF BusyWith

LEMMA AskingGoesOnEver ==
    ASSUME Served, Parts, ClockEdge, Asking
    PROVE  /\ LinesInv' /\ RegistersInv' /\ ~TakesOver
           /\ IF HandsOver THEN \A v : v = in_output => BusyWith(v)' ELSE Asking'
<1>1. CASE active
    BY <1>1, AskingGoesOn
<1>2. CASE ~active
    <2>1. UNCHANGED <<memory, exec_state, keptCpu, node_io_value, node_io_read, node_io_write,
                      node_src_reg, node_dst_reg, exec_active>>
        BY <1>2 DEF ClockEdge, Node!ExecEdge, Node!cpuVars, Node!ioVars, keptCpu
    <2>2. ~HandsOver /\ ~TakesOver
        BY <1>2 DEF HandsOver, TakesOver
    <2>3. LinesInv' /\ RegistersInv'
        BY <2>1 DEF Parts, LinesInv, RegistersInv, keptCpu
    <2>4. Asking'
        BY <2>1 DEF Asking, Idle, LastOf, keptCpu
    <2> QED BY <2>2, <2>3, <2>4
<1> QED BY <1>1, <1>2

-----------------------------------------------------------------------------
(* The accounts after an edge. *)

LEMMA ResultsFit ==
    ASSUME Served, Parts, ClockEdge, Behind, TakesOver
    PROVE  node_io_value \in TisInteger
<1>1. PICK v \in 1 .. Inputs : BusyWith(v)
    BY AskingGoesOnEver DEF Behind
<1>2. node_io_value = Outcome(memory, v)
    BY <1>1, BusyGoesOn
<1> QED BY <1>1, <1>2, ProgramShape DEF Parts, RegistersInv

LEMMA PartsKept ==
    ASSUME Served, FabricInv, ClockEdge
    PROVE  /\ Parts'
           /\ Left' = IF HandedOver THEN Left + 1 ELSE Left
           /\ Arrived' = IF TakenOver THEN Arrived + 1 ELSE Arrived
           /\ \A i \in 1 .. Arrived : Seen(i)' = Seen(i)
           /\ TakenOver => Seen(Arrived)' = node_io_value
           /\ Left \in Nat /\ Arrived \in Nat /\ Left <= Inputs /\ memory' = memory
<1>1. InStep /\ HostInv /\ InputInv /\ OutputInv /\ LinesInv /\ Parts /\ Behind
    BY DEF FabricInv, Parts
<1>2. InStep'
    BY <1>1, StaysInStep
<1>3. HostInv'
    BY <1>1, HostKept
<1>4. InputInv' /\ Left' = IF HandedOver THEN Left + 1 ELSE Left
    BY <1>1, InputKept
<1>5. /\ OutputInv'
      /\ Arrived' = IF TakenOver THEN Arrived + 1 ELSE Arrived
      /\ \A i \in 1 .. Arrived : Seen(i)' = Seen(i)
      /\ TakenOver => Seen(Arrived)' = node_io_value
    BY <1>1, ResultsFit, OutputKept
<1>6. LinesInv' /\ RegistersInv'
    BY <1>1, AskingGoesOnEver, BusyGoesOn DEF Behind
<1>7. Left \in Nat /\ Arrived \in Nat /\ Left <= Inputs
    BY <1>1, SystemAssumption DEF HostInv, InputInv, OutputInv, Left, Arrived
<1>8. memory' = memory
    BY DEF ClockEdge
<1> QED BY <1>2, <1>3, <1>4, <1>5, <1>6, <1>7, <1>8 DEF Parts

LEMMA BehindKept ==
    ASSUME Served, FabricInv, ClockEdge
    PROVE  Behind'
<1>1. /\ Left' = IF HandedOver THEN Left + 1 ELSE Left
      /\ Arrived' = IF TakenOver THEN Arrived + 1 ELSE Arrived
      /\ \A i \in 1 .. Arrived : Seen(i)' = Seen(i)
      /\ TakenOver => Seen(Arrived)' = node_io_value
      /\ Left \in Nat /\ Arrived \in Nat /\ Left <= Inputs /\ memory' = memory
    BY PartsKept
<1>2. Parts /\ Behind /\ HostInv /\ InputInv
    BY DEF FabricInv, Parts
<1>3. HandedOver => HandsOver
    BY DEF HandedOver
<1>4. TakenOver => TakesOver
    BY DEF TakenOver
<1>5. \A v : Outcome(memory, v)' = Outcome(memory, v)
    BY <1>1
<1>6. ASSUME Asking, SeenUpTo(Left + 1) PROVE Behind'
    <2>1. /\ ~TakesOver
          /\ IF HandsOver THEN \A v : v = in_output => BusyWith(v)' ELSE Asking'
        BY <1>2, <1>6, AskingGoesOnEver
    <2>2. \A u : u = Left + 1 => SeenUpTo(u)'
        BY <1>1, <1>4, <1>5, <1>6, <2>1 DEF SeenUpTo
    <2>3. CASE HandsOver
        <3>1. PICK v \in 1 .. Inputs : v = Left + 1 /\ v = in_output
            BY <1>2, <2>3, HeadIsNext, SystemAssumption DEF HostInv
        <3>2. BusyWith(v)' /\ SeenUpTo(v)'
            BY <2>1, <2>2, <2>3, <3>1
        <3> QED BY <1>1, <3>1, <3>2 DEF Behind
    <2>4. CASE ~HandsOver
        <3>1. Left' = Left
            BY <1>1, <1>3, <2>4
        <3>2. PICK u : u = Left + 1
            OBVIOUS
        <3>3. (Left + 1)' = u /\ SeenUpTo(u)'
            BY <2>2, <3>1, <3>2
        <3>4. SeenUpTo(Left + 1)'
            BY <3>3
        <3> QED BY <2>1, <2>4, <3>4 DEF Behind
    <2> QED BY <2>3, <2>4
<1>7. ASSUME NEW v \in 1 .. Inputs, BusyWith(v), v \in {Left, Left + 1}, SeenUpTo(v)
      PROVE  Behind'
    <2>1. /\ ~HandsOver /\ (TakesOver => node_io_value = Outcome(memory, v))
          /\ IF TakesOver THEN Asking' ELSE BusyWith(v)'
        BY <1>2, <1>7, BusyGoesOn
    <2>2. Left' = Left
        BY <1>1, <1>3, <2>1
    <2>3. SeenUpTo(v)'
        <3> SUFFICES ASSUME NEW i \in 1 .. Arrived'
                     PROVE  \E u \in 1 .. Inputs : u <= v /\ Seen(i)' = Outcome(memory, u)'
            BY DEF SeenUpTo
        <3>1. CASE i \in 1 .. Arrived
            BY <1>1, <1>5, <1>7, <3>1 DEF SeenUpTo
        <3>2. CASE i \notin 1 .. Arrived
            <4>1. TakenOver /\ i = Arrived'
                BY <1>1, <3>2
            <4>2. Seen(i)' = Outcome(memory, v)
                BY <1>1, <1>4, <2>1, <4>1
            <4> QED BY <1>5, <4>2
        <3> QED BY <3>1, <3>2
    <2>4. CASE TakesOver
        <3>1. PICK u : u = Left + 1
            OBVIOUS
        <3>2. (Left + 1)' = u
            BY <2>2, <3>1
        <3>3. v <= u
            BY <1>1, <1>7, <3>1
        <3>4. SeenUpTo(u)'
            BY <1>1, <2>3, <3>1, <3>3 DEF SeenUpTo
        <3>5. SeenUpTo(Left + 1)'
            BY <3>2, <3>4
        <3> QED BY <2>1, <2>4, <3>5 DEF Behind
    <2>5. CASE ~TakesOver
        BY <1>7, <2>1, <2>2, <2>3, <2>5 DEF Behind
    <2> QED BY <2>4, <2>5
<1> QED BY <1>2, <1>6, <1>7 DEF Behind

LEMMA BalancedKept ==
    ASSUME Served, FabricInv, ClockEdge, ~collided'
    PROVE  Balanced'
<1>1. /\ Left' = IF HandedOver THEN Left + 1 ELSE Left
      /\ Arrived' = IF TakenOver THEN Arrived + 1 ELSE Arrived
      /\ \A i \in 1 .. Arrived : Seen(i)' = Seen(i)
      /\ TakenOver => Seen(Arrived)' = node_io_value
      /\ Left \in Nat /\ Arrived \in Nat /\ Left <= Inputs /\ memory' = memory
    BY PartsKept
<1>2. ~collided /\ (HandsOver <=> HandedOver) /\ (TakesOver <=> TakenOver)
    BY DEF ClockEdge, Record, HandedOver, TakenOver
<1>3. Parts /\ Balanced /\ HostInv /\ InputInv
    BY <1>2 DEF FabricInv, Parts
<1>4. \A v : Outcome(memory, v)' = Outcome(memory, v)
    BY <1>1
<1>5. CASE Asking /\ Arrived = Left
    <2>1. /\ ~TakesOver
          /\ IF HandsOver THEN \A v : v = in_output => BusyWith(v)' ELSE Asking'
        BY <1>3, <1>5, AskingGoesOnEver
    <2>2. (\A i \in 1 .. Arrived : Seen(i) = Outcome(memory, i))'
        BY <1>1, <1>2, <1>3, <1>4, <2>1 DEF Balanced
    <2>3. CASE HandsOver
        <3>1. PICK v \in 1 .. Inputs : v = Left + 1 /\ v = in_output
            BY <1>3, <2>3, HeadIsNext, SystemAssumption DEF HostInv
        <3>2. BusyWith(v)' /\ v = Left' /\ Arrived' = v - 1
            BY <1>1, <1>2, <1>5, <2>1, <2>3, <3>1
        <3> QED BY <2>2, <3>2 DEF Balanced
    <2>4. CASE ~HandsOver
        BY <1>1, <1>2, <1>5, <2>1, <2>2, <2>4 DEF Balanced
    <2> QED BY <2>3, <2>4
<1>6. ASSUME NEW v \in 1 .. Inputs, BusyWith(v), v = Left, Arrived = v - 1
      PROVE  Balanced'
    <2>1. /\ ~HandsOver /\ (TakesOver => node_io_value = Outcome(memory, v))
          /\ IF TakesOver THEN Asking' ELSE BusyWith(v)'
        BY <1>3, <1>6, BusyGoesOn
    <2>2. ASSUME NEW i \in 1 .. Arrived' PROVE Seen(i)' = Outcome(memory, i)'
        <3>1. CASE i \in 1 .. Arrived
            BY <1>1, <1>3, <1>4, <3>1 DEF Balanced
        <3>2. CASE i \notin 1 .. Arrived
            <4>1. TakenOver /\ i = Arrived' /\ i = v
                BY <1>1, <1>6, <3>2
            <4> QED BY <1>1, <1>2, <1>4, <2>1, <4>1
        <3> QED BY <3>1, <3>2
    <2>3. CASE TakesOver
        <3>1. Asking' /\ Arrived' = Left'
            BY <1>1, <1>2, <1>6, <2>1, <2>3
        <3> QED BY <2>2, <3>1 DEF Balanced
    <2>4. CASE ~TakesOver
        <3>1. BusyWith(v)' /\ v = Left' /\ Arrived' = v - 1
            BY <1>1, <1>2, <1>6, <2>1, <2>4
        <3> QED BY <2>2, <3>1 DEF Balanced
    <2> QED BY <2>3, <2>4
<1> QED BY <1>3, <1>5, <1>6 DEF Balanced

LEMMA InOrderKept ==
    ASSUME Served, FabricInv, ClockEdge, Monotone
    PROVE  InOrder'
<1>1. /\ Arrived' = IF TakenOver THEN Arrived + 1 ELSE Arrived
      /\ \A i \in 1 .. Arrived : Seen(i)' = Seen(i)
      /\ TakenOver => Seen(Arrived)' = node_io_value
      /\ Arrived \in Nat
    BY PartsKept
<1>2. Parts /\ Behind /\ InOrder /\ memory \in Programs
    BY DEF FabricInv, Parts, RegistersInv
<1>3. CASE ~TakenOver
    BY <1>1, <1>2, <1>3 DEF InOrder
<1>4. CASE TakenOver
    <2>1. TakesOver
        BY <1>4 DEF TakenOver
    <2>2. PICK v \in 1 .. Inputs : BusyWith(v) /\ SeenUpTo(v)
        BY <1>2, <2>1, AskingGoesOnEver DEF Behind
    <2>3. node_io_value = Outcome(memory, v)
        BY <1>2, <2>1, <2>2, BusyGoesOn
    <2>4. \A i \in 1 .. Arrived : Seen(i) <= node_io_value
        BY <1>2, <2>2, <2>3 DEF SeenUpTo, Monotone
    <2>5. Arrived' = Arrived + 1 /\ Seen(Arrived)' = node_io_value
        BY <1>1, <1>4
    <2> SUFFICES ASSUME NEW i \in 1 .. Arrived', NEW j \in 1 .. Arrived', i < j
                 PROVE  Seen(i)' <= Seen(j)'
        BY DEF InOrder
    <2>6. i \in 1 .. Arrived /\ Seen(i)' = Seen(i)
        BY <1>1, <2>5
    <2>7. CASE j \in 1 .. Arrived
        BY <1>1, <1>2, <2>6, <2>7 DEF InOrder
    <2>8. CASE j \notin 1 .. Arrived
        <3>1. j = Arrived'
            BY <1>1, <2>5, <2>8
        <3> QED BY <2>4, <2>5, <2>6, <3>1
    <2> QED BY <2>7, <2>8
<1> QED BY <1>3, <1>4

LEMMA InitHolds == Served /\ Init => FabricInv
<1> SUFFICES ASSUME Served, Init PROVE FabricInv
    OBVIOUS
<1> USE SystemAssumption
<1>1. PICK program \in Programs : Node!ExecInit(program)
    BY DEF Init
<1>2. InStep
    BY <1>1 DEF Init, InStep, Gated, Controller!CtlInit, Input!StackInit, Output!StackInit,
                Node!ExecInit, Phases
<1>3. HostInv
    BY DEF Init, HostInv
<1>4. InputInv
    BY <1>3 DEF Init, InputInv, Input!StackInit, Input!Slots, Slots, SlotAfter, Input!Quiet,
           Input!Ports, Ports, TisInteger
<1>5. OutputInv
    BY DEF Init, OutputInv, Output!StackInit, Output!Slots, Slots, SlotAfter, Output!Quiet,
           Output!Ports, Ports, TisInteger
<1>6. LinesInv /\ RegistersInv /\ Asking
    <2>1. /\ memory = program /\ exec_state = "RUN" /\ node_pc = 0 /\ node_bak = 0
          /\ node_io_read = FALSE /\ node_io_write = FALSE /\ exec_active = Node!Quiet
        BY <1>1 DEF Node!ExecInit
    <2>2. exec_active \in [Ports -> BOOLEAN] /\ ~exec_active["UP"] /\ ~exec_active["DOWN"]
        BY <2>1, NodeQuiet, Zenon
    <2>3. LinesInv
        BY <2>1, <2>2 DEF LinesInv
    <2>4. RegistersInv
        <3>1. node_bak \in Word11
            BY <2>1 DEF Word11
        <3>2. node_io_read \in BOOLEAN /\ node_io_write \in BOOLEAN
            BY <2>1, Zenon
        <3> QED BY <1>1, <2>1, <3>1, <3>2, Zenon DEF RegistersInv
    <2>5. Asking
        BY <2>1, Zenon DEF Asking, Idle
    <2> QED BY <2>3, <2>4, <2>5
<1>7. Left = 0 /\ Arrived = 0
    BY DEF Init, Left, Arrived, Input!StackInit, Output!StackInit
<1>8. 1 .. Arrived = {}
    BY <1>7
<1>9. Behind
    BY <1>6, <1>8, Zenon DEF Behind, SeenUpTo
<1>10. Balanced
    BY <1>6, <1>7, <1>8, Zenon DEF Balanced
<1>11. InOrder
    BY <1>8, Zenon DEF InOrder
<1> QED BY <1>2, <1>3, <1>4, <1>5, <1>6, <1>9, <1>10, <1>11 DEF FabricInv, Parts, Init

LEMMA NextHolds == Served /\ FabricInv /\ [Next]_sysVars => FabricInv'
<1> SUFFICES ASSUME Served, FabricInv, [Next]_sysVars PROVE FabricInv'
    OBVIOUS
<1>1. CASE ClockEdge
    <2>1. collided' \in BOOLEAN
        BY <1>1 DEF ClockEdge, Record
    <2> QED BY <1>1, <2>1, PartsKept, BehindKept, BalancedKept, InOrderKept DEF FabricInv
<1>2. ASSUME UNCHANGED fabricVars, HostInv' PROVE FabricInv'
    <2> USE <1>2 DEF fabricVars
    <2>1. InStep' /\ InputInv' /\ OutputInv'
        BY DEF FabricInv, Parts, ctlVars, inVars, nodeVars, outVars, history, InStep, Gated,
               InputInv, OutputInv
    <2>2. LinesInv' /\ RegistersInv'
        BY DEF FabricInv, Parts, nodeVars, LinesInv, RegistersInv
    <2>3. /\ Left' = Left /\ Arrived' = Arrived /\ \A i : Seen(i)' = Seen(i)
          /\ memory' = memory /\ collided' = collided
        BY DEF inVars, outVars, history, nodeVars, Left, Arrived, Seen
    <2>4. Asking => Asking'
        BY DEF nodeVars, Asking, Idle, LastOf
    <2>5. ASSUME NEW v, BusyWith(v) PROVE BusyWith(v)'
        <3>1. Sending(Outcome(memory, v)) => Sending(Outcome(memory, v))'
            BY DEF nodeVars, Sending, LastOf
        <3>2. ASSUME Computing(v) PROVE Computing(v)'
            <4>1. Computes(memory)' /\ (JustRead(v) => JustRead(v)')
                BY <3>2 DEF nodeVars, Computing, Computes, LastOf, Traces, JustRead
            <4>2. ASSUME NEW b \in Word11, NEW f, At(f, v, b) PROVE At(f, v, b)'
                BY <3>2, <4>2, StaysAt DEF nodeVars, keptCpu, Computing
            <4>3. /\ PlainNext => PlainNext'
                  /\ MoveNext => MoveNext'
                  /\ MoveDecoded => MoveDecoded'
                BY DEF nodeVars, PlainNext, MoveNext, MoveDecoded, Idle, LastOf
            <4> QED BY <3>2, <4>1, <4>2, <4>3 DEF Computing
        <3> QED BY <2>5, <3>1, <3>2 DEF BusyWith
    <2>6. Behind' /\ (~collided' => Balanced') /\ (Monotone => InOrder')
        BY <2>3, <2>4, <2>5 DEF FabricInv, Behind, SeenUpTo, Balanced, InOrder
    <2> QED BY <2>1, <2>2, <2>3, <2>6 DEF FabricInv, Parts
<1>3. HostInv
    BY DEF FabricInv, Parts
<1>4. CASE Switch \/ Key \/ UNCHANGED sysVars
    <2>1. UNCHANGED fabricVars /\ bus' = bus
        BY <1>4 DEF Switch, Key, sysVars
    <2>2. HostInv'
        BY <1>3, <2>1 DEF HostInv, fabricVars, history
    <2> QED BY <1>2, <2>1, <2>2
<1>5. CASE HostWrite \/ HostRead
    <2>1. UNCHANGED fabricVars
        BY <1>5 DEF HostWrite, HostRead
    <2>2. HostInv'
        BY <1>3, <1>5, <2>1 DEF HostInv, HostWrite, HostRead, fabricVars, history
    <2> QED BY <1>2, <2>1, <2>2
<1> QED BY <1>1, <1>4, <1>5 DEF Next

LEMMA FabricHolds ==
    ASSUME Served
    PROVE  Spec => []FabricInv
BY InitHolds, NextHolds, PTL DEF Spec

-----------------------------------------------------------------------------
(* The host's side of it: what it has been given, then what waits for it.  *)

LEMMA ModSmall ==
    ASSUME NEW m \in Nat \ {0}, NEW a \in 0 .. m - 1
    PROVE  a % m = a
BY SMT

LEMMA ModOver ==
    ASSUME NEW m \in Nat \ {0}, NEW a \in m .. 2 * m - 1
    PROVE  a % m = a - m
BY SMT

LEMMA SlotAfterIs ==
    ASSUME NEW t \in Slots, NEW i \in 0 .. BufferLength
    PROVE  (t + i) % BufferLength = SlotAfter(t, i)
<1> DEFINE a == t + i
<1>1. BufferLength \in Nat \ {0} /\ a \in 0 .. 2 * BufferLength - 1
    BY SystemAssumption DEF Slots
<1>2. CASE a < BufferLength
    <2> HIDE DEF a
    <2>1. a % BufferLength = a
        BY <1>1, <1>2, ModSmall
    <2> QED BY <1>2, <2>1 DEF a, SlotAfter
<1>3. CASE ~(a < BufferLength)
    <2> HIDE DEF a
    <2>1. a % BufferLength = a - BufferLength
        BY <1>1, <1>3, ModOver
    <2>2. a - BufferLength = SlotAfter(t, i)
        BY <1>3, SystemAssumption DEF a, SlotAfter, Slots
    <2> QED BY <2>1, <2>2, Zenon DEF a
<1> QED BY <1>2, <1>3

LEMMA SeenIs ==
    ASSUME HostInv, OutputInv
    PROVE  /\ popped \o InOutput \in Seq(Int)
           /\ Len(popped \o InOutput) = Arrived
           /\ \A i \in 1 .. Arrived : (popped \o InOutput)[i] = Seen(i)
           /\ Arrived \in Nat
<1> DEFINE t == out_tail_ptr
           n == out_count
           k == Len(popped)
<1>1. t \in Slots /\ n \in 0 .. BufferLength /\ n \in Nat
    BY SystemAssumption DEF OutputInv
<1>2. \A i \in 1 .. n : /\ out_values[(t + i) % BufferLength] = out_values[SlotAfter(t, i)]
                        /\ out_values[SlotAfter(t, i)] \in Int
    <2> TAKE i \in 1 .. n
    <2>1. i \in 0 .. BufferLength
        BY <1>1, SystemAssumption
    <2>2. (t + i) % BufferLength = SlotAfter(t, i) /\ SlotAfter(t, i) \in Slots
        BY <1>1, <2>1, SlotAfterIs, Slotted
    <2>3. out_values[SlotAfter(t, i)] \in TisInteger
        BY <2>2 DEF OutputInv
    <2>4. \A x \in TisInteger : x \in Int
        BY DEF TisInteger
    <2> QED BY <2>2, <2>3, <2>4
<1>3. InOutput = [i \in 1 .. n |-> out_values[(t + i) % BufferLength]]
    BY DEF InOutput, Stored
<1> HIDE DEF t, n
<1>4. /\ InOutput \in Seq(Int) /\ Len(InOutput) = n
      /\ \A i \in 1 .. n : InOutput[i] = out_values[SlotAfter(t, i)]
    BY <1>1, <1>2, <1>3
<1>5. popped \in Seq(Int) /\ k \in Nat
    BY DEF HostInv
<1>6. Arrived = k + n
    BY DEF Arrived, n
<1>7. popped \o InOutput \in Seq(Int) /\ Len(popped \o InOutput) = k + n
    <2>1. InOutput \in Seq(Int) /\ Len(InOutput) = n
        BY <1>4
    <2> QED BY <1>5, <2>1, ConcatProperties
<1>8. ASSUME NEW i \in 1 .. k + n PROVE (popped \o InOutput)[i] = Seen(i)
    <2>1. CASE i <= k
        BY <1>4, <1>5, <2>1 DEF Seen
    <2>2. CASE ~(i <= k)
        <3>1. (popped \o InOutput)[i] = InOutput[i - k] /\ i - k \in 1 .. n
            BY <1>1, <1>4, <1>5, <2>2
        <3> QED BY <1>4, <2>2, <3>1 DEF Seen, t
    <2> QED BY <2>1, <2>2
<1> QED BY <1>1, <1>5, <1>6, <1>7, <1>8

LEMMA PrefixOf ==
    ASSUME NEW s \in Seq(Int), NEW t \in Seq(Int), Len(s) <= Len(t),
           \A i \in 1 .. Len(s) : s[i] = t[i]
    PROVE  IsPrefix(s, t)
<1> DEFINE n == Len(s)
<1>1. n \in Nat /\ n \in Int /\ 1 \in Int /\ \A i \in 1 .. n : s[i] \in Int /\ t[i] \in Int
    OBVIOUS
<1>2. /\ SubSeq(s, 1, n) \in Seq(Int) /\ Len(SubSeq(s, 1, n)) = n
      /\ \A i \in 1 .. n : SubSeq(s, 1, n)[i] = s[i]
    BY <1>1, SubSeqProperties
<1>3. /\ SubSeq(t, 1, n) \in Seq(Int) /\ Len(SubSeq(t, 1, n)) = n
      /\ \A i \in 1 .. n : SubSeq(t, 1, n)[i] = t[i]
    BY <1>1, SubSeqProperties
<1> HIDE DEF n
<1>4. SubSeq(s, 1, n) = SubSeq(t, 1, n)
    <2> DEFINE u == SubSeq(s, 1, n)
               w == SubSeq(t, 1, n)
    <2>1. u \in Seq(Int) /\ w \in Seq(Int) /\ Len(u) = Len(w) /\ \A i \in 1 .. Len(u) : u[i] = w[i]
        BY <1>2, <1>3 DEF n
    <2> HIDE DEF u, w
    <2>2. u = w
        BY <2>1, SeqEqual
    <2> QED BY <2>2 DEF u, w
<1> QED BY <1>4 DEF IsPrefix, n

LEMMA ExactFrom ==
    ASSUME Served, FabricInv
    PROVE  ExactUnlessCollided
<1> SUFFICES ASSUME ~collided
             PROVE  Exact /\ Len(pushed) - Len(popped) - in_count - out_count \in {0, 1}
    BY DEF ExactUnlessCollided
<1> DEFINE s == popped \o InOutput
<1>1. Parts /\ Balanced
    BY DEF FabricInv
<1>2. /\ Left \in Nat /\ Left <= Len(pushed) /\ Len(pushed) <= Inputs /\ Len(pushed) \in Nat
      /\ pushed \in Seq(Int) /\ \A i \in 1 .. Len(pushed) : pushed[i] = i
    BY <1>1, SystemAssumption DEF Parts, HostInv, InputInv, Left
<1>3. s \in Seq(Int) /\ Len(s) = Arrived /\ Arrived \in Nat /\ \A i \in 1 .. Arrived : s[i] = Seen(i)
    BY <1>1, SeenIs DEF Parts
<1>4. Arrived <= Left /\ Left - Arrived \in {0, 1}
    BY <1>1, <1>2, <1>3 DEF Balanced
<1>5. Results \in Seq(Int) /\ Len(Results) = Len(pushed)
      /\ \A i \in 1 .. Len(pushed) : Results[i] = Outcome(memory, i)
    <2>1. memory \in Programs
        BY <1>1 DEF Parts, RegistersInv
    <2>2. \A v \in 1 .. Inputs : Outcome(memory, v) \in TisInteger
        BY <2>1, Zenon DEF Served
    <2>3. \A v \in 1 .. Inputs : Outcome(memory, v) \in Int
        <3> TAKE v \in 1 .. Inputs
        <3>1. PICK x \in TisInteger : x = Outcome(memory, v)
            BY <2>2
        <3> QED BY <3>1 DEF TisInteger
    <2> DEFINE n == Len(pushed)
               r == [i \in 1 .. n |-> Outcome(memory, i)]
    <2>4. Results = r
        <3>1. \A i \in 1 .. n : Outcome(memory, pushed[i]) = Outcome(memory, i)
            BY <1>2
        <3> QED BY <3>1, Zenon DEF Results
    <2>5. \A i \in 1 .. n : i \in 1 .. Inputs
        BY <1>2, SystemAssumption
    <2>6. \A i \in 1 .. n : r[i] = Outcome(memory, i) /\ r[i] \in Int
        BY <2>3, <2>5
    <2>7. r \in [1 .. n -> Int] /\ DOMAIN r = 1 .. n
        BY <2>6
    <2> HIDE DEF r
    <2>8. r \in Seq(Int) /\ Len(r) = n
        BY <1>2, <2>7
    <2> QED BY <2>4, <2>6, <2>8
<1>6. \A i \in 1 .. Len(s) : s[i] = Results[i]
    <2>1. \A i \in 1 .. Arrived : Seen(i) = Outcome(memory, i)
        BY <1>1, Zenon DEF Balanced
    <2>2. \A i \in 1 .. Arrived : i \in 1 .. Len(pushed)
        BY <1>2, <1>3, <1>4
    <2> HIDE DEF s
    <2> QED BY <1>3, <1>5, <2>1, <2>2
<1>7. IsPrefix(s, Results)
    <2> HIDE DEF s
    <2>1. Len(s) <= Len(Results)
        BY <1>2, <1>3, <1>4, <1>5
    <2> QED BY <1>3, <1>5, <1>6, <2>1, PrefixOf
<1>8. Len(pushed) - Len(popped) - in_count - out_count = Left - Arrived
    BY <1>1, SystemAssumption DEF Left, Arrived, Parts, HostInv, InputInv, OutputInv
<1> QED BY <1>4, <1>7, <1>8 DEF Exact

LEMMA OrderFrom ==
    ASSUME Served, Monotone, FabricInv
    PROVE  NeverReordered
<1> DEFINE s == popped \o InOutput
<1>1. Len(s) = Arrived /\ \A i \in 1 .. Arrived : s[i] = Seen(i)
    BY SeenIs DEF FabricInv, Parts
<1> HIDE DEF s
<1>2. \A i, j \in 1 .. Len(s) : i < j => s[i] <= s[j]
    BY <1>1 DEF FabricInv, InOrder
<1> QED BY <1>2 DEF NeverReordered, s

(* As long as no access of the host takes the edge of a handshake, what    *)
(* the host has been given, followed by what waits in the output stack, is *)
(* the results of the first inputs, each once and in order, and no input   *)
(* is lost on the way (tis_stack_node.vhd:128-173, 174-330;                *)
(* tis_execution_node.vhd:391-545).                                        *)
THEOREM ExactHolds ==
    ASSUME Served
    PROVE  Spec => []ExactUnlessCollided
BY FabricHolds, ExactFrom, PTL

(* However the accesses collide with the handshakes, results may be lost   *)
(* or repeated but never come out of order, of a program that does not     *)
(* reverse the order of its inputs.                                        *)
THEOREM OrderHolds ==
    ASSUME Served, Monotone
    PROVE  Spec => []NeverReordered
BY FabricHolds, OrderFrom, PTL

-----------------------------------------------------------------------------
(* The parts do in the fabric what they may do on their own.  First, that  *)
(* the names under which TisSystem has a part twice are the same process.  *)

LEMMA InputLike ==
    ASSUME NEW gate, NEW access, NEW lines, NEW data
    PROVE  Input!StackEdge(gate, access, lines, data)
               => InputPart!StackEdge(gate, access, lines, data)
<1>1. Input!BusEdge(gate, access) => InputPart!BusEdge(gate, access)
    BY DEF
           Input!BusEdge, Input!Bus, Input!BusPop, Input!BusPush, Input!BusReadConfig,
           Input!BusWriteConfig, Input!ring, Input!Quiet, Input!Ports, Input!NextPhase,
           Input!IncrementPTR, Input!DecrementPTR, Input!ToTisInteger, Input!SignedHalfword,
           Input!Halfword, Input!Halfwords, Input!EmptyAnswer,
           InputPart!BusEdge, InputPart!Bus, InputPart!BusPop, InputPart!BusPush,
           InputPart!BusReadConfig, InputPart!BusWriteConfig, InputPart!ring, InputPart!Quiet,
           InputPart!Ports, InputPart!NextPhase, InputPart!IncrementPTR,
           InputPart!DecrementPTR, InputPart!ToTisInteger, InputPart!SignedHalfword,
           InputPart!Halfword, InputPart!Halfwords, InputPart!EmptyAnswer
<1>2. Input!ConduitEdge(lines, data) => InputPart!ConduitEdge(lines, data)
    BY Zenon DEF
           Input!ConduitEdge, Input!RunPhase, Input!LeftPhase, Input!Exchange, Input!Receive,
           Input!Send, Input!Settle, Input!Settling, Input!Received, Input!Sent,
           Input!Arriving, Input!Offer, Input!Lines, Input!ring, Input!Quiet, Input!Ports,
           Input!NextPhase, Input!ReadPort, Input!WritePort, Input!IncrementPTR,
           Input!DecrementPTR, Input!ReadsLeft, Input!WritesRight, Input!ToTisInteger,
           InputPart!ConduitEdge, InputPart!RunPhase, InputPart!LeftPhase, InputPart!Exchange,
           InputPart!Receive, InputPart!Send, InputPart!Settle, InputPart!Settling,
           InputPart!Received, InputPart!Sent, InputPart!Arriving, InputPart!Offer,
           InputPart!Lines, InputPart!ring, InputPart!Quiet, InputPart!Ports,
           InputPart!NextPhase, InputPart!ReadPort, InputPart!WritePort,
           InputPart!IncrementPTR, InputPart!DecrementPTR, InputPart!ReadsLeft,
           InputPart!WritesRight, InputPart!ToTisInteger
<1> QED
    BY <1>1, <1>2 DEF Input!StackEdge, Input!stackVars, InputPart!StackEdge, InputPart!stackVars

LEMMA OutputLike ==
    ASSUME NEW gate, NEW access, NEW lines, NEW data
    PROVE  Output!StackEdge(gate, access, lines, data)
               => OutputPart!StackEdge(gate, access, lines, data)
<1>1. Output!BusEdge(gate, access) => OutputPart!BusEdge(gate, access)
    BY DEF
           Output!BusEdge, Output!Bus, Output!BusPop, Output!BusPush, Output!BusReadConfig,
           Output!BusWriteConfig, Output!ring, Output!Quiet, Output!Ports, Output!NextPhase,
           Output!IncrementPTR, Output!DecrementPTR, Output!ToTisInteger,
           Output!SignedHalfword, Output!Halfword, Output!Halfwords, Output!EmptyAnswer,
           OutputPart!BusEdge, OutputPart!Bus, OutputPart!BusPop, OutputPart!BusPush,
           OutputPart!BusReadConfig, OutputPart!BusWriteConfig, OutputPart!ring,
           OutputPart!Quiet, OutputPart!Ports, OutputPart!NextPhase, OutputPart!IncrementPTR,
           OutputPart!DecrementPTR, OutputPart!ToTisInteger, OutputPart!SignedHalfword,
           OutputPart!Halfword, OutputPart!Halfwords, OutputPart!EmptyAnswer
<1>2. Output!ConduitEdge(lines, data) => OutputPart!ConduitEdge(lines, data)
    BY Zenon DEF
           Output!ConduitEdge, Output!RunPhase, Output!LeftPhase, Output!Exchange,
           Output!Receive, Output!Send, Output!Settle, Output!Settling, Output!Received,
           Output!Sent, Output!Arriving, Output!Offer, Output!Lines, Output!ring, Output!Quiet,
           Output!Ports, Output!NextPhase, Output!ReadPort, Output!WritePort,
           Output!IncrementPTR, Output!DecrementPTR, Output!ReadsLeft, Output!WritesRight,
           Output!ToTisInteger,
           OutputPart!ConduitEdge, OutputPart!RunPhase, OutputPart!LeftPhase,
           OutputPart!Exchange, OutputPart!Receive, OutputPart!Send, OutputPart!Settle,
           OutputPart!Settling, OutputPart!Received, OutputPart!Sent, OutputPart!Arriving,
           OutputPart!Offer, OutputPart!Lines, OutputPart!ring, OutputPart!Quiet,
           OutputPart!Ports, OutputPart!NextPhase, OutputPart!ReadPort, OutputPart!WritePort,
           OutputPart!IncrementPTR, OutputPart!DecrementPTR, OutputPart!ReadsLeft,
           OutputPart!WritesRight, OutputPart!ToTisInteger
<1> QED
    BY <1>1, <1>2 DEF Output!StackEdge, Output!stackVars, OutputPart!StackEdge, OutputPart!stackVars

(* The same word is the same instruction. *)
LEMMA SameIsa ==
    /\ \A w, h, l : Node!Bits(w, h, l) = NodePart!Bits(w, h, l)
    /\ \A w : Node!Source(w) = NodePart!Source(w)
    /\ \A w : Node!Destination(w) = NodePart!Destination(w)
    /\ \A w : Node!Group(w) = NodePart!Group(w)
    /\ \A w : Node!AluImmediate(w) = NodePart!AluImmediate(w)
    /\ \A w : Node!MovImmediate(w) = NodePart!MovImmediate(w)
    /\ \A w : Node!Operation(w) = NodePart!Operation(w)
    /\ \A w : Node!Condition(w) = NodePart!Condition(w)
    /\ \A w : Node!Target(w) = NodePart!Target(w)
    /\ \A w : Node!Wrap11(w) = NodePart!Wrap11(w)
    /\ \A w, l : Node!Holds(w, l) = NodePart!Holds(w, l)
    /\ \A p : Node!NextPhase(p) = NodePart!NextPhase(p)
    /\ \A p : Node!ReadPort(p) = NodePart!ReadPort(p)
    /\ \A p : Node!WritePort(p) = NodePart!WritePort(p)
    /\ \A w, p : Node!Uses(w, p) = NodePart!Uses(w, p)
    /\ \A w : Node!Raise(w) = NodePart!Raise(w)
    /\ Node!Quiet = NodePart!Quiet
BY DEF
       Node!Bits, Node!Register, Node!Source, Node!Destination, Node!Group, Node!AluImmediate,
       Node!MovImmediate, Node!Operation, Node!Condition, Node!Target, Node!Wrap11, Node!Holds,
       Node!NextPhase, Node!ReadPort, Node!WritePort, Node!Uses, Node!Raise, Node!Quiet,
       Node!Ports,
       NodePart!Bits, NodePart!Register, NodePart!Source, NodePart!Destination, NodePart!Group,
       NodePart!AluImmediate, NodePart!MovImmediate, NodePart!Operation, NodePart!Condition,
       NodePart!Target, NodePart!Wrap11, NodePart!Holds, NodePart!NextPhase, NodePart!ReadPort,
       NodePart!WritePort, NodePart!Uses, NodePart!Raise, NodePart!Quiet, NodePart!Ports

LEMMA NodeLike ==
    ASSUME NEW gate, NEW lines, NEW data
    PROVE  Node!ExecEdge(gate, lines, data) => NodePart!ExecEdge(gate, lines, data)
<1>1. /\ Node!current_instruction = NodePart!current_instruction
      /\ Node!last_instruction_address = NodePart!last_instruction_address
      /\ Node!IncrementPC = NodePart!IncrementPC
      /\ \A v : Node!OffsetPC(v) = NodePart!OffsetPC(v)
      /\ \A v : Node!SetPC(v) = NodePart!SetPC(v)
      /\ \A op, v, acc : Node!Result(op, v, acc) = NodePart!Result(op, v, acc)
    BY SameIsa DEF
           Node!current_instruction, Node!last_instruction_address, Node!IncrementPC,
           Node!OffsetPC, Node!SetPC, Node!Result,
           NodePart!current_instruction, NodePart!last_instruction_address,
           NodePart!IncrementPC, NodePart!OffsetPC, NodePart!SetPC, NodePart!Result
<1>2. Node!Decode => NodePart!Decode
    BY <1>1, SameIsa DEF
           Node!Decode, Node!DecodeAlu, Node!DecodeMov, Node!AluOperand, Node!cpuVars,
           Node!ioVars,
           NodePart!Decode, NodePart!DecodeAlu, NodePart!DecodeMov, NodePart!AluOperand,
           NodePart!cpuVars, NodePart!ioVars
<1>3. Node!ReadDone(lines, data) => NodePart!ReadDone(lines, data)
    BY <1>1, SameIsa DEF
           Node!ReadDone, Node!Conveying, Node!Reading, Node!ReadMet, Node!Remember,
           Node!cpuVars,
           NodePart!ReadDone, NodePart!Conveying, NodePart!Reading, NodePart!ReadMet,
           NodePart!Remember, NodePart!cpuVars
<1>4. Node!WriteDone(lines) => NodePart!WriteDone(lines)
    BY <1>1, SameIsa DEF
           Node!WriteDone, Node!Conveying, Node!Writing, Node!WriteMet, Node!Remember,
           Node!cpuVars,
           NodePart!WriteDone, NodePart!Conveying, NodePart!Writing, NodePart!WriteMet,
           NodePart!Remember, NodePart!cpuVars
<1>5. Node!Try(lines) => NodePart!Try(lines)
    BY <1>1, SameIsa DEF
           Node!Try, Node!Conveying, Node!Reading, Node!Writing, Node!ReadMet, Node!WriteMet,
           Node!cpuVars, Node!ioVars,
           NodePart!Try, NodePart!Conveying, NodePart!Reading, NodePart!Writing,
           NodePart!ReadMet, NodePart!WriteMet, NodePart!cpuVars, NodePart!ioVars
<1>6. \A v, acc, pc : Node!Execute(v, acc, pc) => NodePart!Execute(v, acc, pc)
    BY <1>1, SameIsa DEF Node!Execute, NodePart!Execute
<1>7. Node!Finish(lines, data) => NodePart!Finish(lines, data)
    BY <1>1, <1>6, SameIsa DEF
           Node!Finish, Node!FinishOperand, Node!FinishRead, Node!FinishNoRead,
           Node!FinishWrite, Node!FinishInstruction, Node!Reading, Node!Writing, Node!Remember,
           Node!cpuVars, Node!ioVars,
           NodePart!Finish, NodePart!FinishOperand, NodePart!FinishRead, NodePart!FinishNoRead,
           NodePart!FinishWrite, NodePart!FinishInstruction, NodePart!Reading,
           NodePart!Writing, NodePart!Remember, NodePart!cpuVars, NodePart!ioVars
<1> QED
    BY <1>2, <1>3, <1>4, <1>5, <1>7, SameIsa DEF
           Node!ExecEdge, Node!Processor, Node!cpuVars, Node!ioVars,
           NodePart!ExecEdge, NodePart!Processor, NodePart!cpuVars, NodePart!ioVars

LEMMA PartsInit ==
    ASSUME Init
    PROVE  InputPart!Init /\ OutputPart!Init /\ NodePart!Init
<1>1. Input!StackInit => InputPart!StackInit
    BY DEF Input!StackInit, Input!Slots, Input!Quiet, Input!Ports, Input!EmptyAnswer,
           Input!Halfwords, InputPart!StackInit, InputPart!Slots, InputPart!Quiet,
           InputPart!Ports, InputPart!EmptyAnswer, InputPart!Halfwords
<1>2. Output!StackInit => OutputPart!StackInit
    BY DEF Output!StackInit, Output!Slots, Output!Quiet, Output!Ports, Output!EmptyAnswer,
           Output!Halfwords, OutputPart!StackInit, OutputPart!Slots, OutputPart!Quiet,
           OutputPart!Ports, OutputPart!EmptyAnswer, OutputPart!Halfwords
<1>3. \A p : Node!ExecInit(p) => NodePart!ExecInit(p)
    BY DEF Node!ExecInit, Node!Quiet, Node!Ports, NodePart!ExecInit, NodePart!Quiet, NodePart!Ports
<1> QED BY <1>1, <1>2, <1>3 DEF Init, InputPart!Init, OutputPart!Init, NodePart!Init

(* The gate is one a part allows for: never withdrawn inside a cycle. *)
LEMMA GatesAllowed ==
    ASSUME InStep
    PROVE  active \in InputPart!Gates /\ active \in OutputPart!Gates /\ active \in NodePart!Gates
BY DEF InStep, Gated, InputPart!Gates, OutputPart!Gates, NodePart!Gates

(* The input stack: its host writes some of 1 .. Inputs, and its neighbour *)
(* answers and never sends.                                                *)
LEMMA InputStep ==
    ASSUME Parts, ClockEdge
    PROVE  InputPart!Next
<1> DEFINE nothing == [p \in InputPart!Ports |-> 0]
           lines(S) == InputPart!Raise(S)
<1> USE DEF Parts
<1>1. CASE bus.op = "write"
    <2>1. InputBus = Push(Len(pushed) + 1) /\ Len(pushed) + 1 \in 1 .. Inputs
        BY <1>1, Accesses, SystemAssumption DEF HostInv
    <2>2. InputBus \in InputPart!Access /\ InputBus.op # "none"
        BY <2>1 DEF InputPart!Access, Push
    <2>3. Input!StackEdge(active, InputBus, InputPart!Quiet, nothing)
        BY <2>2 DEF ClockEdge, Input!StackEdge
    <2>4. InputPart!StackEdge(active, InputBus, InputPart!Quiet, nothing)
        BY <2>3, InputLike
    <2> QED BY <2>2, <2>4, GatesAllowed DEF InputPart!Next, InputPart!Clock
<1>2. CASE bus.op # "write"
    <2> DEFINE S == {p \in {"DOWN"} : exec_active["UP"]}
    <2>1. InputBus = InputPart!NoAccess /\ InputBus.op = "none"
        BY <1>2 DEF InputBus, NoAccess, InputPart!NoAccess
    <2>2. InputLines = InputPart!Raise(S) /\ S \in SUBSET {"DOWN"}
        BY DEF InputLines, InputPart!Raise, InputPart!Ports, Ports
    <2> HIDE DEF S
    <2>3. Input!StackEdge(active, InputBus, InputLines, nothing)
        <3>1. CASE active
            <4>1. Input!ConduitEdge(InputLines, InputData)
                BY <2>1, <3>1 DEF ClockEdge, Input!StackEdge
            <4>2. ~Input!Exchange(InputLines, InputData) /\ ~Input!Receive(InputLines, InputData)
                BY <3>1, InputAnswers DEF Input!Exchange, Input!Receive
            <4>3. Input!ConduitEdge(InputLines, nothing)
                BY <4>1, <4>2 DEF Input!ConduitEdge
            <4> QED BY <2>1, <3>1, <4>3 DEF Input!StackEdge
        <3>2. CASE ~active
            BY <2>1, <3>2 DEF ClockEdge, Input!StackEdge
        <3> QED BY <3>1, <3>2
    <2>4. InputPart!StackEdge(active, InputPart!NoAccess, InputPart!Raise(S), nothing)
        BY <2>1, <2>2, <2>3, InputLike
    <2> QED BY <2>2, <2>4, GatesAllowed DEF InputPart!Next, InputPart!Clock
<1> QED BY <1>1, <1>2

LEMMA ResultsSent ==
    ASSUME NEW p \in Programs, NEW v \in 1 .. Inputs
    PROVE  Outcome(p, v) \in Sent
BY DEF Sent

(* The output stack: its host reads and its neighbour sends results. *)
LEMMA OutputStep ==
    ASSUME Served, FabricInv, ClockEdge
    PROVE  OutputPart!Next
<1> USE DEF FabricInv, Parts
<1>1. CASE bus.op = "read"
    <2>1. OutputBus = Pop
        BY <1>1, Accesses
    <2>2. OutputBus \in OutputPart!Access /\ OutputBus.op # "none"
        BY <2>1 DEF OutputPart!Access, Pop
    <2> DEFINE nothing == [p \in OutputPart!Ports |-> 0]
    <2>3. Output!StackEdge(active, OutputBus, OutputPart!Quiet, nothing)
        BY <2>2 DEF ClockEdge, Output!StackEdge
    <2>4. OutputPart!StackEdge(active, OutputBus, OutputPart!Quiet, nothing)
        BY <2>3, OutputLike
    <2> QED BY <2>2, <2>4, GatesAllowed DEF OutputPart!Next, OutputPart!Clock
<1>2. CASE bus.op # "read"
    <2> DEFINE S == {p \in {"UP"} : exec_active["DOWN"]}
               x == IF TakesOver THEN node_io_value ELSE 0
               data == [p \in OutputPart!Ports |-> x]
    <2>1. OutputBus = OutputPart!NoAccess /\ OutputBus.op = "none"
        BY <1>2 DEF OutputBus, NoAccess, OutputPart!NoAccess
    <2>2. OutputLines = OutputPart!Raise(S) /\ S \in SUBSET {"UP"}
        BY DEF OutputLines, OutputPart!Raise, OutputPart!Ports, Ports
    <2>3. x \in Sent
        <3>1. CASE TakesOver
            <4>1. PICK v \in 1 .. Inputs : BusyWith(v)
                BY <3>1, AskingGoesOnEver DEF Behind
            <4>2. node_io_value = Outcome(memory, v) /\ memory \in Programs
                BY <3>1, <4>1, BusyGoesOn DEF RegistersInv
            <4>3. x = Outcome(memory, v)
                BY <3>1, <4>2, Zenon
            <4>4. Outcome(memory, v) \in Sent
                BY <4>2, ResultsSent
            <4> HIDE DEF x
            <4> QED BY <4>3, <4>4
        <3>2. CASE ~TakesOver
            <4>1. x = 0
                BY <3>2, Zenon
            <4>2. 0 \in Sent
                BY DEF Sent
            <4> HIDE DEF x
            <4> QED BY <4>1, <4>2
        <3> QED BY <3>1, <3>2
    <2>4. TakesOver => data = OutputData
        BY DEF OutputData, OutputPart!Ports, Ports
    <2> HIDE DEF S, x, data
    <2>5. Output!StackEdge(active, OutputBus, OutputLines, data)
        <3>1. CASE active
            <4>1. Output!ConduitEdge(OutputLines, OutputData)
                BY <2>1, <3>1 DEF ClockEdge, Output!StackEdge
            <4>2. Output!ConduitEdge(OutputLines, data)
                <5>1. CASE TakesOver
                    BY <2>4, <4>1, <5>1
                <5>2. CASE ~TakesOver
                    <6>1. ~Output!Exchange(OutputLines, OutputData)
                          /\ ~Output!Receive(OutputLines, OutputData)
                        BY <3>1, <5>2, OutputAnswers
                        DEF Output!Exchange, Output!Receive, Output!Settling
                    <6> QED BY <4>1, <6>1 DEF Output!ConduitEdge
                <5> QED BY <5>1, <5>2
            <4> QED BY <2>1, <3>1, <4>2 DEF Output!StackEdge
        <3>2. CASE ~active
            BY <2>1, <3>2 DEF ClockEdge, Output!StackEdge
        <3> QED BY <3>1, <3>2
    <2>6. OutputPart!StackEdge(active, OutputPart!NoAccess, OutputPart!Raise(S), data)
        BY <2>1, <2>2, <2>5, OutputLike
    <2>7. \E gate \in OutputPart!Gates, T \in SUBSET {"UP"}, v \in Sent :
              OutputPart!StackEdge(gate, OutputPart!NoAccess, OutputPart!Raise(T),
                                   [p \in OutputPart!Ports |-> v])
        BY <2>2, <2>3, <2>6, GatesAllowed DEF data
    <2> QED BY <2>7 DEF OutputPart!Next, OutputPart!Clock
<1> QED BY <1>1, <1>2

(* The node: the operand it takes is the input whose turn it is. *)
LEMMA OperandSource ==
    ASSUME FabricInv
    PROVE  node_io_read => node_src_reg \in {"UP", "ACC"}
BY Zenon DEF FabricInv, Behind, Asking, Idle, BusyWith, Sending, Computing, JustRead, PlainNext,
          MoveNext, MoveDecoded

LEMMA NodeStep ==
    ASSUME Served, FabricInv, ClockEdge
    PROVE  NodePart!Clock
<1> USE DEF FabricInv, Parts
<1> DEFINE S == {p \in {"UP"} : in_active["DOWN"]} \cup {p \in {"DOWN"} : out_active["UP"]}
           x == IF HandsOver THEN in_output ELSE 0
           data == [p \in NodePart!Ports |-> x]
<1>1. NodeLines = NodePart!Raise(S) /\ S \in SUBSET {"UP", "DOWN"}
    <2>1. S \in SUBSET {"UP", "DOWN"}
        OBVIOUS
    <2>2. ASSUME NEW p
          PROVE  ((p = "UP" /\ in_active["DOWN"]) \/ (p = "DOWN" /\ out_active["UP"])) = (p \in S)
        OBVIOUS
    <2> HIDE DEF S
    <2>3. NodeLines = NodePart!Raise(S)
        BY <2>2, Zenon DEF NodeLines, NodePart!Raise, NodePart!Ports, Ports
    <2> QED BY <2>1, <2>3
<1>2. x \in 0 .. Inputs
    BY HeadIsNext, SystemAssumption DEF HostInv
<1>3. /\ "UP" \in NodePart!Ports /\ NodeData["UP"] = in_output
      /\ \A p \in NodePart!Ports : data[p] = x
    BY DEF NodeData, NodePart!Ports, Ports
<1> HIDE DEF S, x, data
<1>4. Node!ExecEdge(active, NodeLines, data)
    <2>1. CASE active
        <3>1. Node!Processor(NodeLines, NodeData)
            BY <2>1 DEF ClockEdge, Node!ExecEdge
        <3>2. ASSUME Node!ReadDone(NodeLines, NodeData) PROVE Node!ReadDone(NodeLines, data)
            <4>1. node_io_read /\ exec_state # "LEFT" /\ exec_state # "FINISH"
                BY <3>2 DEF Node!ReadDone, Node!Reading, Node!ReadMet, Node!Conveying
            <4>2. NodeLines[Node!ReadPort(exec_state)] /\ Node!Uses(node_src_reg, Node!ReadPort(exec_state))
                BY <3>2, Zenon DEF Node!ReadDone, Node!ReadMet
            <4>3. exec_state = "DOWN" /\ node_src_reg = "UP" /\ Node!ReadPort(exec_state) = "UP"
                BY <3>2, <4>1, <4>2, OperandSource
                DEF Node!ReadDone, Node!Conveying, Node!ReadPort, Node!Uses
            <4>4. HandsOver
                BY <2>1, <4>1, <4>2, <4>3 DEF HandsOver, NodeLines, Ports, LinesInv, InStep
            <4>5. NodeData["UP"] = data["UP"]
                BY <1>3, <4>4 DEF x
            <4> QED BY <3>2, <4>3, <4>5 DEF Node!ReadDone
        <3>3. ~Node!FinishRead(NodeLines, NodeData)
            BY OperandSource DEF Node!FinishRead, Node!Reading, Node!Uses
        <3>4. Node!Processor(NodeLines, data)
            BY <3>1, <3>2, <3>3 DEF Node!Processor, Node!Finish
        <3> QED BY <2>1, <3>4 DEF Node!ExecEdge
    <2>2. CASE ~active
        BY <2>2 DEF ClockEdge, Node!ExecEdge
    <2> QED BY <2>1, <2>2
<1>5. NodePart!ExecEdge(active, NodePart!Raise(S), data)
    BY <1>1, <1>4, NodeLike
<1>6. \E v \in 0 .. Inputs : NodePart!ExecEdge(active, NodePart!Raise(S), [p \in NodePart!Ports |-> v])
    BY <1>2, <1>5 DEF data
<1>7. UNCHANGED memory
    BY DEF ClockEdge
<1> QED BY <1>1, <1>6, <1>7, GatesAllowed DEF NodePart!Clock

LEMMA PartsStep ==
    ASSUME Served, FabricInv, [Next]_sysVars
    PROVE  /\ [InputPart!Next]_(InputPart!stackVars)
           /\ [OutputPart!Next]_(OutputPart!stackVars)
           /\ [NodePart!Clock]_(NodePart!execVars)
<1>1. CASE ClockEdge
    BY <1>1, InputStep, OutputStep, NodeStep DEF FabricInv
<1>2. CASE UNCHANGED fabricVars
    BY <1>2 DEF fabricVars, inVars, outVars, nodeVars, InputPart!stackVars, OutputPart!stackVars,
                NodePart!execVars, NodePart!cpuVars, NodePart!ioVars
<1> QED BY <1>1, <1>2 DEF Next, Switch, Key, HostWrite, HostRead, sysVars

(* Every behaviour of a part in the fabric is one of the behaviours its    *)
(* own module lets it have among neighbours, hosts and gates that do as    *)
(* they like, so what is proved of the parts there holds of them here      *)
(* (tis_controller.vhd:50-111, tis_system.qsys).                           *)
THEOREM PartsHold ==
    ASSUME Served
    PROVE  Spec => PartsAsAssumed
<1>1. Spec => []FabricInv
    BY FabricHolds
<1>2. Init => InputPart!Init /\ OutputPart!Init /\ NodePart!Init
    BY PartsInit
<1>3. FabricInv /\ [Next]_sysVars =>
          /\ [InputPart!Next]_(InputPart!stackVars)
          /\ [OutputPart!Next]_(OutputPart!stackVars)
          /\ [NodePart!Clock]_(NodePart!execVars)
    BY PartsStep
<1> QED
    BY <1>1, <1>2, <1>3, PTL
    DEF Spec, PartsAsAssumed, InputPart!Spec, OutputPart!Spec, NodePart!RunSpec

-----------------------------------------------------------------------------
(* The programs the demo applications load are among those.                *)

(* D802 MOV UP,DOWN *)
CopyProgram(p) ==
    /\ p[0] = 0 /\ p[1] = 55298
    /\ \A v \in 1 .. Inputs : Outcome(p, v) = v

(* C802 MOV UP,ACC   0801 ADD ACC   D801 MOV ACC,DOWN *)
DoubleProgram(p) ==
    /\ p[0] = 2 /\ p[1] = 51202 /\ p[2] = 2049 /\ p[3] = 55297
    /\ \A v \in 1 .. Inputs : Outcome(p, v) = 2 * v

LEMMA MoveWords ==
    /\ Moves(55298, "UP", "DOWN")
    /\ Moves(51202, "UP", "ACC")
    /\ Moves(55297, "ACC", "DOWN")
<1>1. /\ Bits(55298, 15, 14) = 3 /\ Bits(55298, 2, 0) = 2 /\ Bits(55298, 13, 11) = 3
      /\ Bits(51202, 15, 14) = 3 /\ Bits(51202, 2, 0) = 2 /\ Bits(51202, 13, 11) = 1
      /\ Bits(55297, 15, 14) = 3 /\ Bits(55297, 2, 0) = 1 /\ Bits(55297, 13, 11) = 3
    BY DEF Bits
<1> QED BY <1>1 DEF Moves, Group, Source, Destination, Register

LEMMA AddWord ==
    /\ Group(2049) = "alu_register" /\ Source(2049) = "ACC" /\ Operation(2049) = "ADD"
    /\ Plain(2049)
<1>1. /\ Bits(2049, 15, 14) = 0 /\ Bits(2049, 11, 11) = 1 /\ Bits(2049, 2, 0) = 1
      /\ Bits(2049, 15, 3) = 256 /\ Bits(2049, 15, 9) = 4 /\ Bits(2049, 15, 12) = 0
      /\ Bits(2049, 10, 10) = 0
    BY DEF Bits
<1>2. Group(2049) = "alu_register" /\ Source(2049) = "ACC"
    BY <1>1 DEF Group, Source, Register
<1>3. Operation(2049) = "ADD"
    BY <1>1 DEF Operation
<1> QED BY <1>2, <1>3 DEF Plain

LEMMA CopyCopies ==
    ASSUME NEW p, CopyProgram(p)
    PROVE  Copies(p)
<1>1. LastOf(p) = 0
    <2>1. Bits(0, 3, 0) = 0
        BY DEF Bits
    <2> QED BY <2>1 DEF LastOf, CopyProgram
<1> QED BY <1>1, MoveWords DEF Copies, CopyProgram

LEMMA DoubleComputes ==
    ASSUME Inputs <= 499, NEW p, DoubleProgram(p)
    PROVE  Computes(p)
<1>1. LastOf(p) = 2
    <2>1. Bits(2, 3, 0) = 2
        BY DEF Bits
    <2> QED BY <2>1 DEF LastOf, DoubleProgram
<1>2. /\ p[1] = 51202 /\ p[2] = 2049 /\ p[3] = 55297
      /\ \A v \in 1 .. Inputs : Outcome(p, v) = 2 * v
    BY DEF DoubleProgram
<1>3. ASSUME NEW v \in 1 .. Inputs, NEW b \in Word11
      PROVE  \E f : Traces(p, f, v, b)
    <2> DEFINE first == [acc |-> v, bak |-> b]
               second == [acc |-> 2 * v, bak |-> b]
               f == [k \in 1 .. 2 |-> IF k = 1 THEN first ELSE second]
    <2>1. v \in Word11 /\ 2 * v \in Word11 /\ v + v = 2 * v
        BY <1>3, SystemAssumption DEF Word11
    <2>2. Wrap11(v + v) = 2 * v
        BY <2>1 DEF Word11, Wrap11
    <2>3. first \in Files /\ second \in Files
        BY <2>1 DEF Files
    <2>4. OperandOf(2049, v) = v
        BY AddWord DEF OperandOf
    <2>5. Computed(2049, first) = second
        BY <2>2, <2>4, AddWord DEF Computed
    <2> HIDE DEF first, second
    <2>6. f \in [1 .. 2 -> Files] /\ f[1] = first /\ f[2] = second
        BY <2>3
    <2> HIDE DEF f
    <2>7. \A k \in 1 .. 2 - 1 : f[k + 1] = Computed(p[k + 1], f[k])
        BY <1>2, <2>5, <2>6
    <2>8. f[2].acc = Outcome(p, v)
        BY <1>2, <2>6 DEF second
    <2>9. Traces(p, f, v, b)
        BY <1>1, <2>6, <2>7, <2>8, Zenon DEF Traces, first
    <2> QED BY <2>9
<1>4. \A k \in 1 .. 2 - 1 : Plain(p[k + 1])
    BY <1>2, AddWord
<1>5. Moves(p[1], "UP", "ACC") /\ Moves(p[2 + 1], "ACC", "DOWN")
    BY <1>2, MoveWords
<1>6. 2 \in 1 .. 14
    OBVIOUS
<1> QED BY <1>1, <1>3, <1>4, <1>5, <1>6, Zenon DEF Computes

(* What ExactHolds, OrderHolds and PartsHold assume is so for the programs *)
(* of the demo applications, copying and doubling                          *)
(* (hello_ucosii.c:91-96, fpga_monitoring/main.c:14), for any number of    *)
(* inputs whose doubles a stack can hold.                                  *)
THEOREM DemosServed ==
    ASSUME Inputs <= 499,
           \A p \in Programs : /\ p \in [0 .. 15 -> Word16]
                               /\ CopyProgram(p) \/ DoubleProgram(p)
    PROVE  Served /\ Monotone
<1>1. ASSUME NEW p \in Programs, NEW v \in 1 .. Inputs
      PROVE  Outcome(p, v) = v \/ Outcome(p, v) = 2 * v
    BY DEF CopyProgram, DoubleProgram
<1>2. ASSUME NEW p \in Programs, NEW v \in 1 .. Inputs
      PROVE  Outcome(p, v) \in TisInteger
    BY <1>1, SystemAssumption DEF TisInteger
<1>3. ASSUME NEW p \in Programs
      PROVE  Copies(p) \/ Computes(p)
    BY CopyCopies, DoubleComputes
<1>4. Inputs <= 999
    BY SystemAssumption
<1>5. Served
    BY <1>2, <1>3, <1>4, Zenon DEF Served
<1>6. ASSUME NEW p \in Programs, NEW v \in 1 .. Inputs, NEW w \in 1 .. Inputs, v <= w
      PROVE  Outcome(p, v) <= Outcome(p, w)
    BY <1>6 DEF CopyProgram, DoubleProgram
<1>7. Monotone
    BY <1>6, Zenon DEF Monotone
<1> QED BY <1>5, <1>7
=============================================================================
