------------------------- MODULE TisExecutionProofs -------------------------
(***************************************************************************)
(* What TisExecution promises of an execution node, for every program, for *)
(* every word the host may patch it with and for every set of neighbours.  *)
(***************************************************************************)
EXTENDS TisExecution, TLAPS

(* The fields of an instruction have the width of their place. *)
LEMMA FieldRanges ==
    ASSUME NEW w \in Word16
    PROVE  /\ Bits(w, 3, 0) \in Addresses
           /\ AluImmediate(w) \in Word11
           /\ MovImmediate(w) \in Word11
           /\ Target(w) \in Addresses
           /\ Source(w) \in Registers /\ Destination(w) \in Registers
<1>1. Bits(w, 3, 0) \in 0 .. 15
    BY SMTT(30) DEF Bits, Word16, Halfwords
<1>2. Bits(w, 9, 0) \in 0 .. 1023
    BY SMTT(30) DEF Bits, Word16, Halfwords
<1>3. Bits(w, 10, 0) \in 0 .. 2047
    BY SMTT(30) DEF Bits, Word16, Halfwords
<1>4. Wrap11(Bits(w, 10, 0)) \in Word11
    BY <1>3, SMTT(30) DEF Wrap11, Word11
<1>5. \A code : Register(code) \in Registers
    BY DEF Register, Registers
<1> QED BY <1>1, <1>2, <1>4, <1>5, SMTT(30)
        DEF Addresses, AluImmediate, MovImmediate, Word11, Target, Source, Destination

LEMMA WrapRange == \A v \in Int : Wrap11(v) \in Word11
BY DEF Wrap11, Word11

LEMMA FetchType ==
    ASSUME TypeOK
    PROVE  last_instruction_address \in Addresses /\ current_instruction \in Word16
<1>1. memory[0] \in Word16 /\ memory[(node_pc + 1) % 16] \in Word16
    BY DEF TypeOK, Addresses
<1> QED BY <1>1, FieldRanges DEF last_instruction_address, current_instruction

LEMMA PortTypes ==
    ASSUME NEW p
    PROVE  ReadPort(p) \in Ports /\ WritePort(p) \in Ports /\ Ports \subseteq Registers
BY DEF ReadPort, WritePort, Ports, Registers

-----------------------------------------------------------------------------
(* The three ways the program counter moves stay in the program. *)
InProgram(pc) == pc \in Addresses /\ pc <= last_instruction_address

LEMMA CounterMoves ==
    ASSUME TypeOK
    PROVE  /\ InProgram(node_pc) => InProgram(IncrementPC)
           /\ \A value \in Addresses : InProgram(SetPC(value))
           /\ \A offset \in Int : InProgram(OffsetPC(offset))
<1>1. last_instruction_address \in Addresses /\ node_pc \in Addresses
    BY FetchType DEF TypeOK
<1>2. InProgram(node_pc) => InProgram(IncrementPC)
    BY <1>1 DEF IncrementPC, InProgram, Addresses
<1>3. \A value \in Addresses : InProgram(SetPC(value))
    BY <1>1 DEF SetPC, InProgram, Addresses
<1>4. \A offset \in Int : InProgram(OffsetPC(offset))
    BY <1>1 DEF OffsetPC, InProgram, Addresses
<1> QED BY <1>2, <1>3, <1>4

LEMMA IncrementType ==
    ASSUME TypeOK
    PROVE  IncrementPC \in Addresses
BY FetchType DEF TypeOK, IncrementPC, Addresses

(* An instruction leaves the accumulator in its width and the counter in   *)
(* the program.                                                            *)
LEMMA ExecuteResult ==
    ASSUME TypeOK, NEW v \in Word11, NEW acc \in Word11, NEW pc \in Addresses, Execute(v, acc, pc)
    PROVE  /\ node_acc' \in Word11 /\ node_bak' \in Word11 /\ node_pc' \in Addresses
           /\ InProgram(node_pc) /\ InProgram(pc) => InProgram(node_pc')
<1> DEFINE w == current_instruction
           op == Operation(w)
<1>1. node_acc \in Word11 /\ node_bak \in Word11 /\ node_pc \in Addresses /\ v \in Int
    BY DEF TypeOK, Word11
<1>2. Target(w) \in Addresses
    BY FetchType, FieldRanges
<1>3. node_acc' \in Word11
    <2>1. node_acc + v \in Int /\ node_acc - v \in Int /\ -node_acc \in Int
        BY <1>1 DEF Word11
    <2>2. Result(op, v, acc) \in Word11
        BY <1>1, <2>1, WrapRange DEF Result
    <2> QED BY <2>2 DEF Execute
<1>4. node_bak' \in Word11
    BY <1>1 DEF Execute
<1>5. node_pc' \in {OffsetPC(v), pc, SetPC(Target(w)), IncrementPC}
    BY DEF Execute
<1>6. InProgram(node_pc) /\ InProgram(pc) => InProgram(node_pc')
    BY <1>1, <1>2, <1>5, CounterMoves
<1>7. node_pc' \in Addresses
    BY <1>1, <1>2, <1>5, CounterMoves, IncrementType DEF InProgram
<1> QED BY <1>3, <1>4, <1>6, <1>7

-----------------------------------------------------------------------------
(* One edge of the processor. *)
LEMMA DecodeTypes ==
    ASSUME TypeOK, Decode
    PROVE  /\ node_io_value' \in Word11 /\ node_io_read' \in BOOLEAN /\ node_io_write' \in BOOLEAN
           /\ node_src_reg' \in Registers /\ node_dst_reg' \in Registers
           /\ node_last' \in Ports \cup {"NIL"}
<1> DEFINE w == current_instruction
<1>1. /\ Source(w) \in Registers /\ Destination(w) \in Registers
      /\ AluImmediate(w) \in Word11 /\ MovImmediate(w) \in Word11
    BY FetchType, FieldRanges
<1>2. node_last \in Registers /\ "NIL" \in Registers /\ "LAST" \in Registers /\ 0 \in Word11
    BY DEF TypeOK, Registers, Ports, Word11
<1>3. CASE UNCHANGED ioVars
    BY <1>3 DEF ioVars, TypeOK
<1>4. CASE DecodeAlu(w) /\ UNCHANGED node_last
    <2>1. AluOperand(w) \in Word11
        BY <1>1, <1>2 DEF AluOperand, TypeOK
    <2> QED BY <1>1, <1>2, <1>4, <2>1 DEF DecodeAlu, TypeOK
<1>5. CASE DecodeMov(w) /\ UNCHANGED node_last
    BY <1>1, <1>2, <1>5 DEF DecodeMov, TypeOK
<1> QED BY <1>3, <1>4, <1>5 DEF Decode

LEMMA FinishTypes ==
    ASSUME TypeOK, NEW i_active, NEW i_value \in [Ports -> Word11], Finish(i_active, i_value)
    PROVE  /\ node_pc' \in Addresses /\ node_acc' \in Word11 /\ node_bak' \in Word11
           /\ node_io_value' \in Word11 /\ node_io_read' \in BOOLEAN /\ node_io_write' \in BOOLEAN
           /\ node_src_reg' \in Registers /\ node_dst_reg' \in Registers
           /\ node_last' \in Ports \cup {"NIL"}
           /\ InProgram(node_pc) => InProgram(node_pc')
<1>1. /\ "DOWN" \in Ports /\ "UP" \in Ports /\ i_value["DOWN"] \in Word11
      /\ IncrementPC \in Addresses
      /\ InProgram(node_pc) => InProgram(IncrementPC)
    BY IncrementType, CounterMoves DEF Ports
<1>2. CASE FinishOperand
    <2>1. /\ node_pc' \in {node_pc, IncrementPC} /\ node_acc' \in {node_acc, node_io_value}
          /\ node_io_write' \in {node_io_write, FALSE} /\ node_io_read' = FALSE
          /\ UNCHANGED <<node_bak, node_io_value, node_src_reg, node_dst_reg, node_last>>
        BY <1>2 DEF FinishOperand
    <2> QED BY <1>1, <2>1 DEF TypeOK
<1>3. CASE FinishRead(i_active, i_value)
    <2> DEFINE v == i_value["DOWN"]
               acc == IF node_io_write /\ node_dst_reg = "ACC" THEN i_value["DOWN"] ELSE node_acc
               pc == IF node_io_write /\ node_dst_reg \in {"ACC", "NIL"} THEN IncrementPC ELSE node_pc
    <2>1. /\ v \in Word11 /\ acc \in Word11 /\ pc \in Addresses
          /\ InProgram(node_pc) => InProgram(pc)
        BY <1>1 DEF TypeOK
    <2>2. Execute(v, acc, pc)
        BY <1>3 DEF FinishRead
    <2> HIDE DEF v, acc, pc
    <2>3. /\ node_acc' \in Word11 /\ node_bak' \in Word11 /\ node_pc' \in Addresses
          /\ InProgram(node_pc) => InProgram(node_pc')
        BY <2>1, <2>2, ExecuteResult
    <2>4. node_last' \in Ports \cup {"NIL"}
        BY <1>1, <1>3 DEF FinishRead, Remember, TypeOK
    <2> QED BY <1>3, <2>3, <2>4 DEF FinishRead, TypeOK
<1>4. CASE FinishNoRead(i_active)
    BY <1>4 DEF FinishNoRead, cpuVars, ioVars, TypeOK, InProgram, last_instruction_address
<1>5. CASE FinishWrite(i_active)
    <2>1. /\ node_pc' \in {node_pc, IncrementPC} /\ node_acc' \in {node_acc, node_io_value}
          /\ node_io_write' \in {node_io_write, FALSE} /\ node_last' \in {node_last, "UP"}
          /\ UNCHANGED <<node_bak, node_io_value, node_io_read, node_src_reg, node_dst_reg>>
        BY <1>5 DEF FinishWrite
    <2> QED BY <1>1, <2>1 DEF TypeOK
<1>6. CASE FinishInstruction
    <2>1. node_io_value \in Word11 /\ node_acc \in Word11 /\ node_pc \in Addresses
        BY DEF TypeOK
    <2>2. Execute(node_io_value, node_acc, node_pc)
        BY <1>6 DEF FinishInstruction
    <2>3. /\ node_acc' \in Word11 /\ node_bak' \in Word11 /\ node_pc' \in Addresses
          /\ InProgram(node_pc) => InProgram(node_pc')
        BY <2>1, <2>2, ExecuteResult
    <2> QED BY <1>6, <2>3 DEF FinishInstruction, ioVars, TypeOK
<1> QED BY <1>2, <1>3, <1>4, <1>5, <1>6 DEF Finish

LEMMA LinesAreOne ==
    ASSUME NEW S \in SUBSET Ports, NEW r \in Ports, S \subseteq {r}
    PROVE  /\ Raise(S) \in [Ports -> BOOLEAN]
           /\ \A p \in Ports : Raise(S)[p] => p = r /\ p \in S
<1>1. Raise(S) \in [Ports -> BOOLEAN]
    BY SMT DEF Raise
<1>2. \A p \in Ports : Raise(S)[p] <=> p \in S
    BY Zenon DEF Raise
<1> QED BY <1>1, <1>2

(* A node that is let through its gate. *)
LEMMA ProcessorKeepsInv ==
    ASSUME TypeOK, OneLine, memory' \in [Addresses -> Word16],
           NEW i_active \in [Ports -> BOOLEAN], NEW i_value \in [Ports -> Word11],
           Processor(i_active, i_value)
    PROVE  /\ TypeOK' /\ OneLine'
           /\ InProgram(node_pc) => InProgram(node_pc')
<1>1. node_state \in Phases /\ node_state' = NextPhase(node_state) /\ node_state' \in Phases
    BY DEF Processor, TypeOK, NextPhase, Phases
<1>2. Quiet \in [Ports -> BOOLEAN] /\ \A p \in Ports : ~Quiet[p]
    BY DEF Quiet
<1>3. CASE Decode
    <2>1. TypeOK'
        BY <1>1, <1>3, DecodeTypes DEF Decode, cpuVars, TypeOK
    <2>2. OneLine'
        BY <1>1, <1>3 DEF Decode, OneLine, NextPhase
    <2>3. node_pc' = node_pc
        BY <1>3 DEF Decode, cpuVars
    <2> QED BY <2>1, <2>2, <2>3
<1>4. CASE ReadDone(i_active, i_value)
    <2>1. i_value[ReadPort(node_state)] \in Word11 /\ node_last' \in Ports \cup {"NIL"}
        BY <1>4, PortTypes DEF ReadDone, Remember, TypeOK
    <2>2. TypeOK'
        BY <1>1, <1>2, <1>4, <2>1 DEF ReadDone, cpuVars, TypeOK
    <2>3. OneLine'
        BY <1>2, <1>4 DEF ReadDone, OneLine
    <2> QED BY <1>4, <2>2, <2>3 DEF ReadDone, cpuVars
<1>5. CASE WriteDone(i_active)
    <2>1. node_last' \in Ports \cup {"NIL"}
        BY <1>5, PortTypes DEF WriteDone, Remember, TypeOK
    <2>2. TypeOK'
        BY <1>1, <1>2, <1>5, <2>1 DEF WriteDone, cpuVars, TypeOK
    <2>3. OneLine'
        BY <1>2, <1>5 DEF WriteDone, OneLine
    <2> QED BY <1>5, <2>2, <2>3 DEF WriteDone, cpuVars
<1>6. CASE Try(i_active)
    <2> DEFINE line == IF node_io_read THEN ReadPort(node_state') ELSE WritePort(node_state')
               register == IF node_io_read THEN node_src_reg ELSE node_dst_reg
    <2>1. line \in Ports
        BY PortTypes
    <2>2. /\ UNCHANGED <<cpuVars, ioVars>> /\ node_io_read' = node_io_read
          /\ \/ o_active' = Quiet
             \/ \E S \in SUBSET Ports : /\ S \subseteq {line} /\ \A p \in S : Uses(register, p)
                                       /\ o_active' = Raise(S)
        <3>1. CASE Reading
            <4>1. o_active' = Raise({p \in {ReadPort(node_state')} : Uses(node_src_reg, p)})
                BY <1>1, <1>6, <3>1 DEF Try, Reading, Writing
            <4> QED BY <1>6, <2>1, <3>1, <4>1 DEF Try, Reading, ioVars
        <3>2. CASE Writing
            <4>1. o_active' = Raise({p \in {WritePort(node_state')} : Uses(node_dst_reg, p)})
                BY <1>1, <1>6, <3>2 DEF Try, Reading, Writing
            <4> QED BY <1>6, <2>1, <3>2, <4>1 DEF Try, Writing, ioVars
        <3>3. CASE ~Reading /\ ~Writing
            BY <1>6, <3>3 DEF Try, ioVars
        <3> QED BY <3>1, <3>2, <3>3
    <2>3. /\ o_active' \in [Ports -> BOOLEAN]
          /\ \A p \in Ports : o_active'[p] => p = line /\ Uses(register, p)
        BY <1>2, <2>1, <2>2, LinesAreOne
    <2>4. TypeOK'
        BY <1>1, <2>2, <2>3 DEF cpuVars, ioVars, TypeOK
    <2>5. OneLine'
        <3>1. node_io_read' = node_io_read /\ node_src_reg' = node_src_reg /\ node_dst_reg' = node_dst_reg
            BY <2>2 DEF ioVars
        <3> QED BY <2>3, <3>1 DEF OneLine, Uses
    <2> QED BY <2>2, <2>4, <2>5 DEF cpuVars
<1>7. CASE Finish(i_active, i_value)
    <2>1. node_state' = "RUN" /\ o_active' = o_active
        BY <1>1, <1>7 DEF Finish, NextPhase
    <2>2. TypeOK'
        BY <1>1, <1>7, <2>1, FinishTypes DEF TypeOK
    <2>3. OneLine'
        BY <2>1 DEF OneLine
    <2> QED BY <1>7, <2>2, <2>3, FinishTypes
<1> QED BY <1>3, <1>4, <1>5, <1>6, <1>7 DEF Processor

-----------------------------------------------------------------------------
LEMMA Zeros ==
    /\ 0 \in Addresses /\ 0 \in Word11 /\ 0 \in Word16
    /\ "NIL" \in Registers /\ "RUN" \in Phases
BY DEF Addresses, Word11, Word16, Halfwords, Registers, Phases

LEMMA InitKeepsInv == Init => TypeOK /\ OneLine /\ PcInProgram
<1> SUFFICES ASSUME NEW program \in Programs, ExecInit(program)
             PROVE  TypeOK /\ OneLine /\ PcInProgram
    BY DEF Init
<1>1. memory \in [Addresses -> Word16]
    BY ExecutionAssumption DEF ExecInit
<1>2. Quiet \in [Ports -> BOOLEAN] /\ \A p \in Ports : ~Quiet[p]
    BY DEF Quiet
<1>3. TypeOK
    BY <1>1, <1>2, Zeros DEF ExecInit, TypeOK
<1>4. OneLine
    BY <1>2 DEF ExecInit, OneLine
<1>5. PcInProgram
    BY <1>3, FetchType DEF ExecInit, PcInProgram, Addresses
<1> QED BY <1>3, <1>4, <1>5

(* One edge of the node and of its memory, or one of the reset. *)
LEMMA StepKeepsInv ==
    ASSUME TypeOK, OneLine, [Clock \/ ExecReset]_execVars
    PROVE  /\ TypeOK' /\ OneLine'
           /\ InProgram(node_pc) => InProgram(node_pc') \/ ExecReset
<1>1. CASE ExecReset
    <2>1. TypeOK'
        BY <1>1, Zeros DEF ExecReset, TypeOK
    <2>2. OneLine'
        BY <1>1 DEF ExecReset, OneLine
    <2> QED BY <1>1, <2>1, <2>2
<1>2. CASE UNCHANGED execVars
    <2>1. TypeOK' /\ OneLine'
        BY <1>2 DEF execVars, cpuVars, ioVars, TypeOK, OneLine
    <2> QED BY <1>2, <2>1 DEF execVars, cpuVars, TypeOK
<1>3. CASE Clock
    <2>1. memory' \in [Addresses -> Word16]
        BY <1>3, ExecutionAssumption DEF Clock, MemoryWrite, TypeOK
    <2>2. PICK gate \in Gates, S \in SUBSET Wired, v \in NeighbourValues :
              ExecEdge(gate, Raise(S), [p \in Ports |-> v])
        BY <1>3 DEF Clock
    <2>3. CASE gate
        <3>1. Raise(S) \in [Ports -> BOOLEAN] /\ [p \in Ports |-> v] \in [Ports -> Word11]
            BY ExecutionAssumption DEF Raise
        <3>2. Processor(Raise(S), [p \in Ports |-> v])
            BY <2>2, <2>3 DEF ExecEdge
        <3> QED BY <2>1, <3>1, <3>2, ProcessorKeepsInv DEF TypeOK
    <2>4. CASE ~gate
        <3>1. UNCHANGED <<node_state, cpuVars, ioVars, o_active>>
            BY <2>2, <2>4 DEF ExecEdge
        <3>2. TypeOK' /\ OneLine'
            BY <2>1, <3>1 DEF cpuVars, ioVars, TypeOK, OneLine
        <3> QED BY <3>1, <3>2 DEF cpuVars, TypeOK
    <2> QED BY <2>3, <2>4
<1> QED BY <1>1, <1>2, <1>3

(* The registers keep to their widths, whatever the program and the        *)
(* neighbours do: JRO adds an operand of eleven bits to a counter of four, *)
(* and a jump may name an address that the program does not have.          *)
THEOREM TypesHold == Spec => []TypeOK
<1>1. Init => TypeOK /\ OneLine
    BY InitKeepsInv
<1>2. TypeOK /\ OneLine /\ [Clock \/ ExecReset]_execVars => (TypeOK /\ OneLine)'
    BY StepKeepsInv
<1> QED BY <1>1, <1>2, PTL DEF Spec

(* No two neighbours are ever offered the same transfer: of a node's four  *)
(* lines one is up at most, and it is the one of the transfer that is      *)
(* still to be made.                                                       *)
THEOREM OneLineHolds == Spec => []OneLine
<1>1. Init => TypeOK /\ OneLine
    BY InitKeepsInv
<1>2. TypeOK /\ OneLine /\ [Clock \/ ExecReset]_execVars => (TypeOK /\ OneLine)'
    BY StepKeepsInv
<1> QED BY <1>1, <1>2, PTL DEF Spec

(* As long as the host leaves the length of the program alone, no jump and *)
(* no operand of JRO takes the counter past its end.                       *)
THEOREM CounterStaysInProgram ==
    ASSUME \A patch \in Patches : patch[1] # 0
    PROVE  Spec => []PcInProgram
<1> DEFINE Inv == TypeOK /\ OneLine /\ PcInProgram
<1>1. Init => Inv
    BY InitKeepsInv
<1>2. Inv /\ [Clock \/ ExecReset]_execVars => Inv'
    <2> SUFFICES ASSUME Inv, [Clock \/ ExecReset]_execVars PROVE Inv'
        OBVIOUS
    <2>1. TypeOK' /\ OneLine'
        BY StepKeepsInv
    <2>2. CASE ExecReset
        <3>1. node_pc' = 0 /\ last_instruction_address' = 0
            BY <2>2 DEF ExecReset, last_instruction_address, Bits, Addresses
        <3> QED BY <2>1, <3>1 DEF PcInProgram
    <2>3. CASE ~ExecReset
        <3>1. memory'[0] = memory[0]
            BY <2>3, ExecutionAssumption DEF Clock, MemoryWrite, execVars, TypeOK, Addresses
        <3>2. last_instruction_address' = last_instruction_address
            BY <3>1 DEF last_instruction_address
        <3>3. InProgram(node_pc)
            BY DEF PcInProgram, TypeOK, InProgram
        <3>4. InProgram(node_pc')
            BY <2>3, <3>3, StepKeepsInv
        <3> QED BY <2>1, <3>2, <3>4 DEF PcInProgram, InProgram
    <2> QED BY <2>2, <2>3
<1> QED BY <1>1, <1>2, PTL DEF Spec
-----------------------------------------------------------------------------
(* Transfers *)

(* A node that is about to look for an answer has its own line up. *)
LineIsUp ==
    node_state \in {"RIGHT", "UP", "DOWN", "FINISH"} /\ node_io_read
        /\ Uses(node_src_reg, ReadPort(node_state))
      => o_active[ReadPort(node_state)]

LEMMA TryRaises ==
    ASSUME NEW i_active, Try(i_active), node_state' = NextPhase(node_state)
    PROVE  LineIsUp'
<1> DEFINE r == ReadPort(NextPhase(node_state))
<1>1. UNCHANGED ioVars /\ r \in Ports
    BY PortTypes DEF Try
<1>2. CASE Reading
    <2>1. o_active' = Raise({p \in {r} : Uses(node_src_reg, p)})
        BY <1>2 DEF Try, Reading, Writing
    <2>2. Uses(node_src_reg, r) => o_active'[r]
        BY <1>1, <2>1 DEF Raise
    <2> QED BY <1>1, <2>2 DEF LineIsUp, ioVars, Uses
<1>3. CASE ~Reading
    BY <1>1, <1>3 DEF Reading, LineIsUp, ioVars
<1> QED BY <1>2, <1>3

LEMMA StepKeepsLine ==
    ASSUME LineIsUp, [Clock \/ ExecReset]_execVars
    PROVE  LineIsUp'
<1>1. CASE ExecReset
    BY <1>1 DEF ExecReset, LineIsUp
<1>2. CASE UNCHANGED <<node_state, cpuVars, ioVars, o_active>>
    BY <1>2 DEF ioVars, LineIsUp, Uses
<1>3. ASSUME NEW i_active, NEW i_value, Processor(i_active, i_value)
      PROVE  LineIsUp'
    <2>1. node_state' = NextPhase(node_state)
        BY <1>3 DEF Processor
    <2>2. CASE Decode
        BY <2>1, <2>2 DEF Decode, LineIsUp, NextPhase
    <2>3. CASE ReadDone(i_active, i_value)
        BY <2>3 DEF ReadDone, LineIsUp
    <2>4. CASE WriteDone(i_active)
        BY <2>4 DEF WriteDone, Writing, LineIsUp
    <2>5. CASE Try(i_active)
        BY <2>1, <2>5, TryRaises
    <2>6. CASE Finish(i_active, i_value)
        BY <2>1, <2>6 DEF Finish, LineIsUp, NextPhase
    <2> QED BY <1>3, <2>2, <2>3, <2>4, <2>5, <2>6 DEF Processor
<1> QED BY <1>1, <1>2, <1>3 DEF Clock, ExecEdge, execVars

(* A transfer that is settled in a step, and the step that settles it. *)
LEMMA Settling ==
    ASSUME TypeOK, [Clock \/ ExecReset]_execVars
    PROVE  \/ ExecReset
           \/ UNCHANGED ioVars
           \/ /\ ~node_io_read /\ ~node_io_write /\ UNCHANGED node_last
           \/ \E i_active, i_value :
                  \/ ReadDone(i_active, i_value) \/ WriteDone(i_active)
                  \/ /\ node_state = "FINISH"
                     /\ FinishOperand \/ FinishRead(i_active, i_value) \/ FinishWrite(i_active)
<1>1. ASSUME NEW i_active, NEW i_value, Processor(i_active, i_value)
      PROVE  \/ UNCHANGED ioVars
             \/ ~node_io_read /\ ~node_io_write /\ UNCHANGED node_last
             \/ ReadDone(i_active, i_value) \/ WriteDone(i_active)
             \/ /\ node_state = "FINISH"
                /\ FinishOperand \/ FinishRead(i_active, i_value) \/ FinishWrite(i_active)
    BY <1>1 DEF Processor, Decode, Try, Finish, FinishNoRead, FinishInstruction
<1>2. CASE Clock
    BY <1>1, <1>2 DEF Clock, ExecEdge
<1>3. CASE UNCHANGED execVars
    BY <1>3 DEF execVars
<1> QED BY <1>2, <1>3

(* A read is completed only over a conduit whose line this node holds up   *)
(* (tis_execution_node.vhd, the phases RIGHT .. FINISH) and raised before  *)
(* that edge, so that the neighbour sees it there.                         *)
THEOREM NoReadIsPhantom == Spec => NoPhantomRead
<1> DEFINE Inv == TypeOK /\ OneLine /\ LineIsUp
           Real == node_io_read /\ ~node_io_read' /\ node_src_reg \notin {"ACC", "NIL"}
                       => o_active[ReadPort(node_state)]
<1>1. Init => Inv
    BY InitKeepsInv DEF Init, ExecInit, LineIsUp
<1>2. Inv /\ [Clock \/ ExecReset]_execVars => Inv'
    BY StepKeepsInv, StepKeepsLine
<1>3. Inv /\ [Clock \/ ExecReset]_execVars => [Real]_execVars
    <2> SUFFICES ASSUME Inv, [Clock \/ ExecReset]_execVars,
                        node_io_read, ~node_io_read', node_src_reg \notin {"ACC", "NIL"}
                 PROVE  o_active[ReadPort(node_state)]
        OBVIOUS
    <2>1. PICK i_active, i_value :
              \/ ReadDone(i_active, i_value) \/ WriteDone(i_active)
              \/ /\ node_state = "FINISH"
                 /\ FinishOperand \/ FinishRead(i_active, i_value) \/ FinishWrite(i_active)
        BY Settling DEF ExecReset, ioVars
    <2>2. CASE ReadDone(i_active, i_value)
        BY <2>2 DEF ReadDone, Conveying, ReadMet, LineIsUp
    <2>3. CASE node_state = "FINISH" /\ FinishRead(i_active, i_value)
        BY <2>3 DEF FinishRead, ReadPort, LineIsUp
    <2> QED BY <2>1, <2>2, <2>3 DEF WriteDone, Writing, FinishOperand, FinishWrite
<1> QED BY <1>1, <1>2, <1>3, PTL DEF Spec, NoPhantomRead

(* node_last, which every later instruction may use as LAST, is set by     *)
(* every read of ANY and every write to ANY over LEFT, RIGHT or DOWN, to   *)
(* the port of the transfer.  A write over UP sets it when the SOURCE is   *)
(* ANY (tis_execution_node.vhd:532).  Nothing else but the reset changes   *)
(* it, whatever the neighbours do.                                         *)
THEOREM LastIsThePortOfAny == Spec => LastFollowsAny
<1> DEFINE Follows ==
        LET read == node_io_read /\ ~node_io_read'
            written == ~read /\ node_io_write /\ ~node_io_write'
            over_up == WritePort(node_state) = "UP"
        IN /\ read /\ node_src_reg = "ANY" => node_last' = ReadPort(node_state)
           /\ written /\ node_dst_reg = "ANY" /\ ~over_up
                  => node_last' = WritePort(node_state)
           /\ \/ read /\ node_src_reg = "ANY"
              \/ /\ written /\ "ANY" = IF over_up THEN node_src_reg ELSE node_dst_reg
                 /\ node_last' = WritePort(node_state)
              \/ ExecReset
              \/ UNCHANGED node_last
<1>1. Init => TypeOK /\ OneLine
    BY InitKeepsInv
<1>2. TypeOK /\ OneLine /\ [Clock \/ ExecReset]_execVars => (TypeOK /\ OneLine)'
    BY StepKeepsInv
<1>3. TypeOK /\ [Clock \/ ExecReset]_execVars => [Follows]_execVars
    <2> SUFFICES ASSUME TypeOK, [Clock \/ ExecReset]_execVars PROVE Follows
        OBVIOUS
    <2>1. CASE ExecReset
        BY <2>1 DEF ExecReset
    <2>2. CASE UNCHANGED ioVars
        BY <2>2 DEF ioVars
    <2>3. CASE ~node_io_read /\ ~node_io_write /\ UNCHANGED node_last
        BY <2>3
    <2>4. ASSUME NEW i_active, NEW i_value,
                 \/ ReadDone(i_active, i_value) \/ WriteDone(i_active)
                 \/ /\ node_state = "FINISH"
                    /\ FinishOperand \/ FinishRead(i_active, i_value) \/ FinishWrite(i_active)
          PROVE  Follows
        <3>1. CASE ReadDone(i_active, i_value)
            BY <3>1 DEF ReadDone, Remember, Reading
        <3>2. CASE WriteDone(i_active)
            BY <3>2 DEF WriteDone, Remember, Writing, Conveying, WriteMet, WritePort
        <3>3. CASE FinishOperand
            BY <3>3 DEF FinishOperand, Reading
        <3>4. CASE node_state = "FINISH" /\ FinishRead(i_active, i_value)
            BY <3>4 DEF FinishRead, Remember, Reading, ReadPort
        <3>5. CASE node_state = "FINISH" /\ FinishWrite(i_active)
            BY <3>5 DEF FinishWrite, Writing, WritePort, TypeOK
        <3> QED BY <2>4, <3>1, <3>2, <3>3, <3>4, <3>5
    <2> QED BY <2>1, <2>2, <2>3, <2>4, Settling
<1> QED BY <1>1, <1>2, <1>3, PTL DEF Spec, LastFollowsAny
-----------------------------------------------------------------------------
(* The one-step processor *)

(* An encoding that both phases of the processor understand alike: not one *)
(* of those that are no instruction, not JRO, whose operand nothing loads, *)
(* and not MOV to a conduit from a register that may be served over DOWN,  *)
(* which passes the instruction before its value is written.               *)
Regular(w) ==
    /\ Group(w) = "no_operand" =>
           /\ Operation(w) \in {"NEG", "SAV", "SWP", "JMP"}
           /\ Operation(w) = "JMP" => Condition(w) # "none"
    /\ Group(w) \in {"alu_immediate", "alu_register"} => Operation(w) \in {"ADD", "SUB"}
    /\ Group(w) = "mov_register" /\ Source(w) \in {"DOWN", "ANY", "LAST"} =>
           Destination(w) \in {"ACC", "NIL"}

RegularProgram(program) ==
    \A a \in 0 .. Bits(program[0], 3, 0) : Regular(program[(a + 1) % 16])

(* What the operand registers hold of an instruction w that phase RUN has  *)
(* decoded and that is not carried out yet.                                *)
AluUnderWay(w) ==
    /\ ~node_io_write
    /\ IF node_io_read
         THEN /\ Group(w) = "alu_register" /\ Source(w) \notin {"NIL", "ACC"}
              /\ node_src_reg \notin {"NIL", "ACC"}
         ELSE Cpu!IsOperand(w, node_io_value)

MovUnderWay(w) ==
    IF ~node_io_read /\ ~node_io_write
      THEN Destination(w) # "ACC"
      ELSE /\ node_io_write
           /\ Destination(w) \in {"ACC", "NIL"} => node_dst_reg = Destination(w)
           /\ node_dst_reg = "ACC" => Destination(w) = "ACC"
           /\ IF ~node_io_read \/ node_src_reg \in {"NIL", "ACC"}
                THEN Cpu!IsOperand(w, node_io_value)
                ELSE /\ Group(w) = "mov_register" /\ Source(w) \notin {"NIL", "ACC"}
                     /\ Uses(node_src_reg, "DOWN") => Source(w) \in {"DOWN", "ANY", "LAST"}

Started == node_state # "RUN" \/ node_io_read \/ node_io_write

UnderWayOf(w) ==
    Started => CASE Group(w) = "no_operand" -> ~node_io_read /\ ~node_io_write
                 [] Group(w) \in {"alu_immediate", "alu_register"} -> AluUnderWay(w)
                 [] OTHER -> MovUnderWay(w)

UnderWay == UnderWayOf(current_instruction)

(* The words of the abstract processor are those of this one. *)
LEMMA SameFields ==
    ASSUME NEW w
    PROVE  /\ Cpu!Group(w) = Group(w) /\ Cpu!Operation(w) = Operation(w)
           /\ Cpu!Source(w) = Source(w) /\ Cpu!Destination(w) = Destination(w)
           /\ Cpu!AluImmediate(w) = AluImmediate(w) /\ Cpu!MovImmediate(w) = MovImmediate(w)
           /\ Cpu!Condition(w) = Condition(w) /\ Cpu!Target(w) = Target(w)
<1>1. \A high, low : Cpu!Bits(w, high, low) = Bits(w, high, low)
    BY DEF Cpu!Bits, Bits
<1>2. Cpu!Group(w) = Group(w)
    BY <1>1 DEF Cpu!Group, Group
<1>3. Cpu!Operation(w) = Operation(w)
    BY <1>1 DEF Cpu!Operation, Operation
<1>4. Cpu!Source(w) = Source(w) /\ Cpu!Destination(w) = Destination(w)
    BY <1>1 DEF Cpu!Source, Source, Cpu!Destination, Destination, Cpu!Register, Register
<1>5. Cpu!AluImmediate(w) = AluImmediate(w) /\ Cpu!MovImmediate(w) = MovImmediate(w)
    BY <1>1 DEF Cpu!AluImmediate, AluImmediate, Cpu!MovImmediate, MovImmediate, Cpu!Wrap11, Wrap11
<1>6. Cpu!Condition(w) = Condition(w) /\ Cpu!Target(w) = Target(w)
    BY <1>1 DEF Cpu!Condition, Condition, Cpu!Target, Target
<1> QED BY <1>2, <1>3, <1>4, <1>5, <1>6

LEMMA SameNumbers ==
    /\ Cpu!Word11 = Word11
    /\ \A v : Cpu!Wrap11(v) = Wrap11(v)
    /\ \A condition, acc : Cpu!Holds(condition, acc) <=> Holds(condition, acc)
    /\ Cpu!LastAddress = last_instruction_address
    /\ Cpu!Instruction = current_instruction
BY DEF Cpu!Word11, Word11, Cpu!Wrap11, Wrap11, Cpu!Holds, Holds, Cpu!LastAddress, Cpu!Bits,
       Bits, last_instruction_address, Cpu!Instruction, current_instruction

LEMMA WordRange == \A w \in Word16 : w \in Int /\ 0 <= w /\ w < Halfwords
<1>1. Halfwords \in Int
    BY DEF Halfwords
<1> QED BY <1>1 DEF Word16

LEMMA GroupBits ==
    ASSUME NEW w, Group(w) = "mov_immediate" \/ Group(w) = "mov_register"
    PROVE  Bits(w, 15, 14) = 2 \/ Bits(w, 15, 14) = 3
BY DEF Group

(* What phase FINISH makes of a word that phase RUN takes for a MOV. *)
LEMMA NoPattern ==
    ASSUME NEW w, w # 18432, w # 16384, w # 20480,
           Bits(w, 15, 3) # 3072, Bits(w, 15, 9) # 56, Bits(w, 15, 12) # 0
    PROVE  Operation(w) = "other"
BY DEF Operation

LEMMA HighOther ==
    ASSUME NEW w \in Int, 0 <= w, w < Halfwords, Bits(w, 15, 14) = 2 \/ Bits(w, 15, 14) = 3
    PROVE  Operation(w) = "other"
<1>1. w >= 2^15
    <2>1. Bits(w, 15, 14) = (w \div 16384) % 4
        BY DEF Bits
    <2>2. (w \div 16384) % 4 = 2 \/ (w \div 16384) % 4 = 3
        BY <2>1
    <2>3. w >= 32768
        BY <2>2
    <2> QED BY <2>3
<1>2. Bits(w, 15, 3) # 3072
    BY <1>1 DEF Bits, Halfwords
<1>3. Bits(w, 15, 9) # 56
    BY <1>1 DEF Bits, Halfwords
<1>4. Bits(w, 15, 12) # 0
    BY <1>1 DEF Bits, Halfwords
<1>5. w # 18432 /\ w # 16384 /\ w # 20480
    BY <1>1
<1> QED BY <1>2, <1>3, <1>4, <1>5, NoPattern

LEMMA MovesAreOther ==
    ASSUME NEW w \in Word16, Group(w) = "mov_immediate" \/ Group(w) = "mov_register"
    PROVE  Operation(w) = "other"
<1>1. Bits(w, 15, 14) = 2 \/ Bits(w, 15, 14) = 3
    BY GroupBits
<1>2. w \in Int /\ 0 <= w /\ w < Halfwords
    BY WordRange
<1> QED BY <1>1, <1>2, HighOther

LEMMA SumUndone ==
    ASSUME NEW a \in Word11, NEW v \in Word11
    PROVE  Wrap11(Wrap11(a + v) - a) = v /\ Wrap11(a - Wrap11(a - v)) = v
BY DEF Wrap11, Word11

LEMMA Groups ==
    ASSUME NEW w
    PROVE  Group(w) \in {"no_operand", "alu_immediate", "alu_register", "mov_immediate", "mov_register"}
BY DEF Group

LEMMA IncrementAdvances == Cpu!Advance = IncrementPC
BY SameNumbers DEF Cpu!Advance, IncrementPC

(* What carries an instruction out is a step of the abstract processor. *)
LEMMA MoveIsAStep ==
    ASSUME NEW w, w = current_instruction,
           Group(w) = "mov_immediate" \/ Group(w) = "mov_register",
           IF Destination(w) = "ACC" THEN Cpu!IsOperand(w, node_acc') ELSE node_acc' = node_acc,
           node_pc' = IncrementPC, node_bak' = node_bak, memory' = memory
    PROVE  Cpu!Step
<1>1. Cpu!Move
    BY SameFields, SameNumbers, IncrementAdvances DEF Cpu!Move
<1> QED BY <1>1 DEF Cpu!Step

LEMMA SumIsAStep ==
    ASSUME TypeOK, NEW w, w = current_instruction, Operation(w) = "ADD" \/ Operation(w) = "SUB",
           NEW v \in Word11, Cpu!IsOperand(w, v),
           Execute(v, node_acc, node_pc), memory' = memory
    PROVE  Cpu!Step
<1> DEFINE a == node_acc
<1>1. a \in Word11 /\ a \in Int /\ v \in Int
    BY DEF TypeOK, Word11
<1>2. node_bak' = node_bak /\ node_pc' = Cpu!Advance
    BY IncrementAdvances DEF Execute
<1>3. CASE Operation(w) = "ADD"
    <2>1. node_acc' = Wrap11(a + v)
        BY <1>3 DEF Execute, Result
    <2>2. node_acc' \in Word11 /\ Wrap11(node_acc' - a) = v
        BY <1>1, <2>1, WrapRange, SumUndone
    <2>3. Cpu!Add
        BY <1>2, <1>3, <2>2, SameFields, SameNumbers DEF Cpu!Add
    <2> QED BY <2>3 DEF Cpu!Step
<1>4. CASE Operation(w) = "SUB"
    <2>1. node_acc' = Wrap11(a - v)
        BY <1>4 DEF Execute, Result
    <2>2. node_acc' \in Word11 /\ Wrap11(a - node_acc') = v
        BY <1>1, <2>1, WrapRange, SumUndone
    <2>3. Cpu!Subtract
        BY <1>2, <1>4, <2>2, SameFields, SameNumbers DEF Cpu!Subtract
    <2> QED BY <2>3 DEF Cpu!Step
<1> QED BY <1>3, <1>4

LEMMA JumpsAgree ==
    ASSUME TypeOK, NEW target \in Addresses
    PROVE  Cpu!Within(target) = SetPC(target)
<1>1. last_instruction_address \in Addresses
    BY FetchType
<1> QED BY <1>1, SameNumbers DEF Cpu!Within, SetPC, Addresses

LEMMA PlainIsAStep ==
    ASSUME TypeOK, NEW w, w = current_instruction, NEW v,
           \/ Operation(w) = "NEG" \/ Operation(w) = "SAV" \/ Operation(w) = "SWP"
           \/ Operation(w) = "JMP" /\ Condition(w) # "none",
           Execute(v, node_acc, node_pc), memory' = memory
    PROVE  Cpu!Step
<1>1. CASE Operation(w) = "NEG"
    <2>1. Cpu!Negate
        BY <1>1, SameFields, SameNumbers, IncrementAdvances DEF Cpu!Negate, Execute, Result
    <2> QED BY <2>1 DEF Cpu!Step
<1>2. CASE Operation(w) = "SAV"
    <2>1. Cpu!Save
        BY <1>2, SameFields, SameNumbers, IncrementAdvances DEF Cpu!Save, Execute, Result
    <2> QED BY <2>1 DEF Cpu!Step
<1>3. CASE Operation(w) = "SWP"
    <2>1. Cpu!Swap
        BY <1>3, SameFields, SameNumbers, IncrementAdvances DEF Cpu!Swap, Execute, Result
    <2> QED BY <2>1 DEF Cpu!Step
<1>4. CASE Operation(w) = "JMP" /\ Condition(w) # "none"
    <2>1. Target(w) \in Addresses
        BY FetchType, FieldRanges
    <2>2. Cpu!Within(Target(w)) = SetPC(Target(w))
        BY <2>1, JumpsAgree
    <2>3. node_acc' = node_acc /\ node_bak' = node_bak
        BY <1>4 DEF Execute, Result
    <2>4. node_pc' = IF Holds(Condition(w), node_acc) THEN SetPC(Target(w)) ELSE IncrementPC
        BY <1>4 DEF Execute
    <2>5. Cpu!Jump
        BY <1>4, <2>2, <2>3, <2>4, SameFields, SameNumbers, IncrementAdvances DEF Cpu!Jump
    <2> QED BY <2>5 DEF Cpu!Step
<1> QED BY <1>1, <1>2, <1>3, <1>4

-----------------------------------------------------------------------------
(* A step that leaves the instruction under way, and one that ends it. *)
LEMMA StillUnderWay ==
    ASSUME NEW w, w = current_instruction, UNCHANGED memory, UNCHANGED cpuVars, UnderWayOf(w)'
    PROVE  UnderWay' /\ UNCHANGED Cpu!archVars
<1>1. current_instruction' = w
    BY DEF current_instruction, cpuVars
<1> QED BY <1>1 DEF UnderWay, cpuVars, Cpu!archVars

LEMMA Ended ==
    ASSUME node_state' = "RUN", ~node_io_read', ~node_io_write'
    PROVE  UnderWay'
BY DEF UnderWay, UnderWayOf, Started

LEMMA OperandNext ==
    ASSUME NEW w
    PROVE  /\ Group(w) = "alu_immediate" =>
                  (Cpu!IsOperand(w, node_io_value)' <=> node_io_value' = AluImmediate(w))
           /\ Group(w) = "mov_immediate" =>
                  (Cpu!IsOperand(w, node_io_value)' <=> node_io_value' = MovImmediate(w))
           /\ Group(w) = "alu_register" \/ Group(w) = "mov_register" =>
                  (Cpu!IsOperand(w, node_io_value)' <=>
                       IF Source(w) = "NIL" THEN node_io_value' = 0
                       ELSE IF Source(w) = "ACC" THEN node_io_value' = node_acc'
                       ELSE node_io_value' \in Word11)
<1>1. /\ Cpu!Group(w) = Group(w) /\ Cpu!Source(w) = Source(w)
      /\ Cpu!AluImmediate(w) = AluImmediate(w) /\ Cpu!MovImmediate(w) = MovImmediate(w)
      /\ Cpu!Word11 = Word11
    BY SameFields, SameNumbers
<1>2. CASE Group(w) = "alu_immediate"
    BY <1>1, <1>2 DEF Cpu!IsOperand
<1>3. CASE Group(w) = "mov_immediate"
    BY <1>1, <1>3 DEF Cpu!IsOperand
<1>4. CASE (Group(w) = "alu_register" \/ Group(w) = "mov_register") /\ Source(w) = "NIL"
    BY <1>1, <1>4 DEF Cpu!IsOperand
<1>5. CASE (Group(w) = "alu_register" \/ Group(w) = "mov_register") /\ Source(w) = "ACC"
    BY <1>1, <1>5 DEF Cpu!IsOperand
<1>6. CASE (Group(w) = "alu_register" \/ Group(w) = "mov_register") /\ Source(w) # "NIL" /\ Source(w) # "ACC"
    BY <1>1, <1>6 DEF Cpu!IsOperand
<1> QED BY <1>2, <1>3, <1>4, <1>5, <1>6

LEMMA NothingMoves ==
    ASSUME NEW w, w = current_instruction, UnderWayOf(w), Started,
           UNCHANGED memory, UNCHANGED cpuVars, UNCHANGED ioVars
    PROVE  UnderWay' /\ UNCHANGED Cpu!archVars
<1>1. /\ node_io_read' = node_io_read /\ node_io_write' = node_io_write
      /\ node_src_reg' = node_src_reg /\ node_dst_reg' = node_dst_reg
      /\ node_io_value' = node_io_value /\ node_acc' = node_acc
    BY DEF ioVars, cpuVars
<1>2. Cpu!IsOperand(w, node_io_value)' <=> Cpu!IsOperand(w, node_io_value)
    BY <1>1 DEF Cpu!IsOperand
<1>3. AluUnderWay(w)' <=> AluUnderWay(w)
    BY <1>1, <1>2 DEF AluUnderWay
<1>4. MovUnderWay(w)' <=> MovUnderWay(w)
    BY <1>1, <1>2 DEF MovUnderWay, Uses
<1>5. UnderWayOf(w)'
    BY <1>1, <1>3, <1>4 DEF UnderWayOf
<1> QED BY <1>5, StillUnderWay

LEMMA DecodeStarts ==
    ASSUME TypeOK, UnderWay, Decode, node_state' = NextPhase(node_state), UNCHANGED memory
    PROVE  UnderWay' /\ UNCHANGED Cpu!archVars
<1>1. PICK w : w = current_instruction
    OBVIOUS
<1>2. UNCHANGED cpuVars /\ node_acc' = node_acc /\ node_last \in Ports \cup {"NIL"}
    BY DEF Decode, cpuVars, TypeOK
<1>3. UnderWayOf(w)
    BY <1>1 DEF UnderWay
<1>4. CASE node_io_read \/ node_io_write
    BY <1>1, <1>2, <1>3, <1>4, NothingMoves DEF Decode, Started
<1>5. CASE ~node_io_read /\ ~node_io_write /\ Group(w) = "no_operand"
    <2>1. node_io_read' = node_io_read /\ node_io_write' = node_io_write
        BY <1>1, <1>5 DEF Decode, ioVars
    <2>2. UnderWayOf(w)'
        BY <1>5, <2>1 DEF UnderWayOf
    <2> QED BY <1>1, <1>2, <2>2, StillUnderWay
<1>6. CASE ~node_io_read /\ ~node_io_write /\ (Group(w) = "alu_immediate" \/ Group(w) = "alu_register")
    <2>1. DecodeAlu(w)
        BY <1>1, <1>6 DEF Decode
    <2>2. AluUnderWay(w)'
        <3>1. CASE Group(w) = "alu_immediate" \/ Source(w) = "NIL" \/ Source(w) = "ACC"
            <4>1. node_io_value' = AluOperand(w) /\ ~node_io_read' /\ ~node_io_write'
                BY <1>6, <2>1, <3>1 DEF DecodeAlu
            <4>2. Cpu!IsOperand(w, node_io_value)'
                BY <1>2, <1>6, <3>1, <4>1, OperandNext DEF AluOperand
            <4> QED BY <4>1, <4>2 DEF AluUnderWay
        <3>2. CASE Group(w) = "alu_register" /\ Source(w) = "LAST"
            <4>1. /\ node_io_value' = IF node_last = "NIL" THEN 0 ELSE node_io_value
                  /\ node_io_read' = (node_last # "NIL") /\ ~node_io_write'
                  /\ node_src_reg' = node_last
                BY <2>1, <3>2 DEF DecodeAlu
            <4>2. node_io_value' \in Word11
                BY <4>1, Zeros DEF TypeOK
            <4>3. Cpu!IsOperand(w, node_io_value)'
                BY <3>2, <4>2, SameFields, SameNumbers DEF Cpu!IsOperand
            <4>4. node_io_read' => node_src_reg' \notin {"NIL", "ACC"}
                BY <1>2, <4>1 DEF Ports
            <4> QED BY <3>2, <4>1, <4>3, <4>4 DEF AluUnderWay
        <3>3. CASE Group(w) = "alu_register" /\ Source(w) \notin {"NIL", "ACC", "LAST"}
            BY <2>1, <3>3 DEF DecodeAlu, AluUnderWay
        <3> QED BY <1>6, <3>1, <3>2, <3>3
    <2>3. UnderWayOf(w)'
        BY <1>6, <2>2 DEF UnderWayOf
    <2> QED BY <1>1, <1>2, <2>3, StillUnderWay
<1>7. CASE ~node_io_read /\ ~node_io_write /\ (Group(w) = "mov_immediate" \/ Group(w) = "mov_register")
    <2>1. DecodeMov(w)
        BY <1>1, <1>7 DEF Decode
    <2>2. /\ node_io_read' /\ node_io_write'
          /\ node_dst_reg' = IF Destination(w) = "LAST" THEN node_last ELSE Destination(w)
        BY <2>1 DEF DecodeMov
    <2>3. /\ Destination(w) \in {"ACC", "NIL"} => node_dst_reg' = Destination(w)
          /\ node_dst_reg' = "ACC" => Destination(w) = "ACC"
        BY <1>2, <2>2 DEF Ports
    <2>4. IF node_src_reg' \in {"NIL", "ACC"}
            THEN Cpu!IsOperand(w, node_io_value)'
            ELSE /\ Group(w) = "mov_register" /\ Source(w) \notin {"NIL", "ACC"}
                 /\ Uses(node_src_reg', "DOWN") => Source(w) \in {"DOWN", "ANY", "LAST"}
        <3>1. CASE Group(w) = "mov_immediate"
            <4>1. node_src_reg' = "NIL" /\ node_io_value' = MovImmediate(w)
                BY <2>1, <3>1 DEF DecodeMov
            <4> QED BY <3>1, <4>1, OperandNext
        <3>2. CASE Group(w) = "mov_register"
            <4>1. /\ node_src_reg' = IF Source(w) = "LAST" THEN node_last ELSE Source(w)
                  /\ node_io_value' = IF Source(w) = "ACC" THEN node_acc
                                      ELSE IF Source(w) = "NIL" \/ (Source(w) = "LAST" /\ node_last = "NIL")
                                        THEN 0 ELSE node_io_value
                BY <2>1, <3>2 DEF DecodeMov
            <4>2. CASE node_src_reg' \in {"NIL", "ACC"}
                <5>1. \/ Source(w) = "ACC" /\ node_io_value' = node_acc'
                      \/ Source(w) = "NIL" /\ node_io_value' = 0
                      \/ Source(w) = "LAST" /\ node_io_value' = 0
                    BY <1>2, <4>1, <4>2 DEF Ports
                <5> QED BY <3>2, <4>2, <5>1, Zeros, SameFields, SameNumbers DEF Cpu!IsOperand
            <4>3. CASE node_src_reg' \notin {"NIL", "ACC"}
                <5>1. Source(w) \notin {"NIL", "ACC"}
                    BY <4>1, <4>3
                <5>2. Uses(node_src_reg', "DOWN") => Source(w) \in {"DOWN", "ANY", "LAST"}
                    BY <4>1 DEF Uses
                <5> QED BY <3>2, <4>3, <5>1, <5>2
            <4> QED BY <4>2, <4>3
        <3> QED BY <1>7, <3>1, <3>2
    <2>5. MovUnderWay(w)'
        BY <2>2, <2>3, <2>4 DEF MovUnderWay, Uses
    <2>6. UnderWayOf(w)'
        BY <1>7, <2>5 DEF UnderWayOf
    <2> QED BY <1>1, <1>2, <2>6, StillUnderWay
<1> QED BY <1>4, <1>5, <1>6, <1>7, Groups

(* What a decoded instruction waits for, said for its group. *)
LEMMA ReadsOfItsGroup ==
    ASSUME NEW w, UnderWayOf(w), Started, node_io_read
    PROVE  /\ ~node_io_write => Group(w) = "alu_register"
           /\ node_io_write => Group(w) = "mov_immediate" \/ Group(w) = "mov_register"
           /\ AluUnderWay(w) \/ MovUnderWay(w)
           /\ ~node_io_write => AluUnderWay(w)
           /\ node_io_write => MovUnderWay(w)
<1>1. CASE Group(w) = "no_operand"
    BY <1>1 DEF UnderWayOf
<1>2. CASE Group(w) = "alu_immediate" \/ Group(w) = "alu_register"
    <2>1. AluUnderWay(w)
        BY <1>2 DEF UnderWayOf
    <2> QED BY <1>2, <2>1 DEF AluUnderWay
<1>3. CASE Group(w) = "mov_immediate" \/ Group(w) = "mov_register"
    <2>1. MovUnderWay(w)
        BY <1>3 DEF UnderWayOf
    <2> QED BY <1>3, <2>1 DEF MovUnderWay
<1> QED BY <1>1, <1>2, <1>3, Groups

LEMMA WritesAreMoves ==
    ASSUME NEW w, UnderWayOf(w), Started, Writing
    PROVE  /\ Group(w) = "mov_immediate" \/ Group(w) = "mov_register"
           /\ MovUnderWay(w)
<1>1. ~node_io_read /\ node_io_write
    BY DEF Writing
<1>2. CASE Group(w) = "no_operand"
    BY <1>1, <1>2 DEF UnderWayOf
<1>3. CASE Group(w) = "alu_immediate" \/ Group(w) = "alu_register"
    BY <1>1, <1>3 DEF UnderWayOf, AluUnderWay
<1>4. CASE Group(w) = "mov_immediate" \/ Group(w) = "mov_register"
    BY <1>4 DEF UnderWayOf
<1> QED BY <1>2, <1>3, <1>4, Groups

LEMMA ReadDoneStays ==
    ASSUME TypeOK, UnderWay, NEW i_active, NEW i_value \in [Ports -> Word11],
           ReadDone(i_active, i_value), node_state' = NextPhase(node_state), UNCHANGED memory
    PROVE  UnderWay' /\ UNCHANGED Cpu!archVars
<1>1. PICK w : w = current_instruction
    OBVIOUS
<1>2. UnderWayOf(w) /\ Started /\ node_io_read
    BY <1>1 DEF UnderWay, ReadDone, Conveying, Reading, Started
<1>3. /\ UNCHANGED cpuVars /\ node_io_write' = node_io_write /\ node_dst_reg' = node_dst_reg
      /\ ~node_io_read' /\ node_io_value' = i_value[ReadPort(node_state)]
    BY DEF ReadDone
<1>4. node_io_value' \in Word11
    BY <1>3, PortTypes
<1>5. node_src_reg \notin {"NIL", "ACC"}
    <2>1. Uses(node_src_reg, ReadPort(node_state))
        BY DEF ReadDone, ReadMet
    <2> QED BY <2>1 DEF Uses, ReadPort
<1>6. CASE ~node_io_write
    <2>1. Group(w) = "alu_register" /\ AluUnderWay(w)
        BY <1>2, <1>6, ReadsOfItsGroup
    <2>2. Source(w) \notin {"NIL", "ACC"}
        BY <1>2, <2>1 DEF AluUnderWay
    <2>3. Cpu!IsOperand(w, node_io_value)'
        BY <1>4, <2>1, <2>2, OperandNext
    <2>4. AluUnderWay(w)'
        BY <1>3, <1>6, <2>3 DEF AluUnderWay
    <2>5. UnderWayOf(w)'
        BY <2>1, <2>4 DEF UnderWayOf
    <2> QED BY <1>1, <1>3, <2>5, StillUnderWay
<1>7. CASE node_io_write
    <2>1. MovUnderWay(w)
        BY <1>2, <1>7, ReadsOfItsGroup
    <2>2. Group(w) = "mov_register" /\ Source(w) \notin {"NIL", "ACC"}
        BY <1>2, <1>5, <1>7, <2>1 DEF MovUnderWay
    <2>3. Cpu!IsOperand(w, node_io_value)'
        BY <1>4, <2>2, OperandNext
    <2>4. MovUnderWay(w)'
        BY <1>2, <1>3, <1>7, <2>1, <2>3 DEF MovUnderWay
    <2>5. UnderWayOf(w)'
        BY <2>2, <2>4 DEF UnderWayOf
    <2> QED BY <1>1, <1>3, <2>5, StillUnderWay
<1> QED BY <1>6, <1>7

LEMMA WriteDoneStays ==
    ASSUME TypeOK, UnderWay, NEW i_active,
           WriteDone(i_active), node_state' = NextPhase(node_state), UNCHANGED memory
    PROVE  UnderWay' /\ UNCHANGED Cpu!archVars
<1>1. PICK w : w = current_instruction
    OBVIOUS
<1>2. UnderWayOf(w) /\ Started /\ Writing
    BY <1>1 DEF UnderWay, WriteDone, Conveying, Started
<1>3. UNCHANGED cpuVars /\ ~node_io_read' /\ ~node_io_write'
    BY DEF WriteDone, Writing
<1>4. /\ Group(w) = "mov_immediate" \/ Group(w) = "mov_register"
      /\ MovUnderWay(w)
    BY <1>2, WritesAreMoves
<1>5. node_dst_reg # "ACC"
    <2>1. Uses(node_dst_reg, WritePort(node_state))
        BY DEF WriteDone, WriteMet
    <2> QED BY <2>1 DEF Uses, WritePort
<1>6. Destination(w) # "ACC"
    BY <1>2, <1>4, <1>5 DEF MovUnderWay, Writing
<1>7. MovUnderWay(w)'
    BY <1>3, <1>6 DEF MovUnderWay
<1>8. UnderWayOf(w)'
    BY <1>4, <1>7 DEF UnderWayOf
<1> QED BY <1>1, <1>3, <1>8, StillUnderWay

(* Phase FINISH: what it does not carry out it leaves as it is, and what   *)
(* it does carry out is a step of the abstract processor.                  *)
LEMMA OperandFinishes ==
    ASSUME TypeOK, UnderWay, FinishOperand, node_state = "FINISH", node_state' = "RUN", UNCHANGED memory
    PROVE  UnderWay' /\ (Cpu!Step \/ UNCHANGED Cpu!archVars)
<1>1. PICK w : w = current_instruction
    OBVIOUS
<1>2. UnderWayOf(w) /\ Started /\ node_io_read /\ node_src_reg \in {"ACC", "NIL"}
    BY <1>1 DEF UnderWay, FinishOperand, Reading, Started
<1>3. node_io_write /\ MovUnderWay(w)
    <2>1. ~AluUnderWay(w)
        BY <1>2 DEF AluUnderWay
    <2> QED BY <1>2, <2>1, ReadsOfItsGroup
<1>4. Group(w) = "mov_immediate" \/ Group(w) = "mov_register"
    BY <1>2, <1>3, ReadsOfItsGroup
<1>5. /\ Cpu!IsOperand(w, node_io_value)
      /\ Destination(w) \in {"ACC", "NIL"} => node_dst_reg = Destination(w)
      /\ node_dst_reg = "ACC" => Destination(w) = "ACC"
    BY <1>2, <1>3 DEF MovUnderWay
<1>6. CASE node_dst_reg \in {"ACC", "NIL"}
    <2>1. /\ ~node_io_read' /\ ~node_io_write' /\ node_pc' = IncrementPC /\ node_bak' = node_bak
          /\ node_acc' = IF node_dst_reg = "ACC" THEN node_io_value ELSE node_acc
        BY <1>6 DEF FinishOperand
    <2>2. IF Destination(w) = "ACC" THEN Cpu!IsOperand(w, node_acc') ELSE node_acc' = node_acc
        BY <1>5, <2>1
    <2>3. Cpu!Step
        BY <1>1, <1>4, <2>1, <2>2, MoveIsAStep
    <2> QED BY <2>1, <2>3, Ended
<1>7. CASE node_dst_reg \notin {"ACC", "NIL"}
    <2>1. /\ ~node_io_read' /\ node_io_write' = node_io_write /\ node_io_value' = node_io_value
          /\ node_dst_reg' = node_dst_reg /\ node_acc' = node_acc /\ UNCHANGED cpuVars
        BY <1>7 DEF FinishOperand, cpuVars
    <2>2. Cpu!IsOperand(w, node_io_value)'
        BY <1>5, <2>1 DEF Cpu!IsOperand
    <2>3. MovUnderWay(w)'
        BY <1>3, <1>5, <2>1, <2>2 DEF MovUnderWay
    <2>4. UnderWayOf(w)'
        BY <1>4, <2>3 DEF UnderWayOf
    <2> QED BY <1>1, <2>1, <2>4, StillUnderWay
<1> QED BY <1>6, <1>7

LEMMA ReadFinishes ==
    ASSUME TypeOK, UnderWay, Regular(current_instruction),
           NEW i_active, NEW i_value \in [Ports -> Word11], FinishRead(i_active, i_value),
           node_state = "FINISH", node_state' = "RUN", UNCHANGED memory
    PROVE  UnderWay' /\ (Cpu!Step \/ UNCHANGED Cpu!archVars)
<1>1. PICK w : w = current_instruction
    OBVIOUS
<1>2. PICK v \in Word11 : v = i_value["DOWN"]
    BY DEF Ports
<1>3. UnderWayOf(w) /\ Started /\ node_io_read /\ Uses(node_src_reg, "DOWN")
    BY <1>1 DEF UnderWay, FinishRead, Reading, Started
<1>4. node_src_reg \notin {"NIL", "ACC"}
    BY <1>3 DEF Uses
<1>5. Regular(w)
    BY <1>1
<1>6. CASE ~node_io_write
    <2>1. Group(w) = "alu_register" /\ AluUnderWay(w)
        BY <1>3, <1>6, ReadsOfItsGroup
    <2>2. Source(w) \notin {"NIL", "ACC"}
        BY <1>3, <2>1 DEF AluUnderWay
    <2>3. Cpu!IsOperand(w, v)
        BY <2>1, <2>2, SameFields, SameNumbers DEF Cpu!IsOperand
    <2>4. Operation(w) = "ADD" \/ Operation(w) = "SUB"
        BY <1>5, <2>1 DEF Regular
    <2>5. Execute(v, node_acc, node_pc) /\ ~node_io_read' /\ ~node_io_write'
        BY <1>2, <1>6 DEF FinishRead
    <2>6. Cpu!Step
        BY <1>1, <2>3, <2>4, <2>5, SumIsAStep
    <2> QED BY <2>5, <2>6, Ended
<1>7. CASE node_io_write
    <2>1. MovUnderWay(w)
        BY <1>3, <1>7, ReadsOfItsGroup
    <2>2. /\ Group(w) = "mov_register" /\ Source(w) \notin {"NIL", "ACC"}
          /\ Source(w) \in {"DOWN", "ANY", "LAST"}
          /\ Destination(w) \in {"ACC", "NIL"} => node_dst_reg = Destination(w)
        BY <1>3, <1>4, <1>7, <2>1 DEF MovUnderWay
    <2>3. Destination(w) \in {"ACC", "NIL"} /\ node_dst_reg = Destination(w)
        BY <1>5, <2>2 DEF Regular
    <2>4. /\ Execute(v, IF node_dst_reg = "ACC" THEN v ELSE node_acc, IncrementPC)
          /\ ~node_io_read' /\ ~node_io_write'
        BY <1>2, <1>7, <2>3 DEF FinishRead
    <2>5. Operation(w) = "other"
        BY <1>1, <2>2, FetchType, MovesAreOther
    <2>6. /\ node_acc' = IF node_dst_reg = "ACC" THEN v ELSE node_acc
          /\ node_pc' = IncrementPC /\ node_bak' = node_bak
        BY <1>1, <2>4, <2>5 DEF Execute, Result
    <2>7. Cpu!IsOperand(w, v)
        BY <2>2, SameFields, SameNumbers DEF Cpu!IsOperand
    <2>8. IF Destination(w) = "ACC" THEN Cpu!IsOperand(w, node_acc') ELSE node_acc' = node_acc
        BY <2>3, <2>6, <2>7
    <2>9. Cpu!Step
        BY <1>1, <2>2, <2>6, <2>8, MoveIsAStep
    <2> QED BY <2>4, <2>9, Ended
<1> QED BY <1>6, <1>7

LEMMA WriteFinishes ==
    ASSUME TypeOK, UnderWay, NEW i_active, FinishWrite(i_active),
           node_state = "FINISH", node_state' = "RUN", UNCHANGED memory
    PROVE  UnderWay' /\ (Cpu!Step \/ UNCHANGED Cpu!archVars)
<1>1. PICK w : w = current_instruction
    OBVIOUS
<1>2. UnderWayOf(w) /\ Started /\ Writing
    BY <1>1 DEF UnderWay, FinishWrite, Started
<1>3. /\ Group(w) = "mov_immediate" \/ Group(w) = "mov_register"
      /\ MovUnderWay(w)
    BY <1>2, WritesAreMoves
<1>4. CASE node_io_write' = node_io_write /\ UNCHANGED <<node_acc, node_last, node_pc>>
    <2>1. UNCHANGED cpuVars /\ UNCHANGED ioVars
        BY <1>4 DEF FinishWrite, cpuVars, ioVars
    <2> QED BY <1>1, <1>2, <2>1, NothingMoves
<1>5. CASE /\ node_io_write' = FALSE /\ node_pc' = IncrementPC
           /\ node_acc' = IF node_dst_reg = "ACC" THEN node_io_value ELSE node_acc
    <2>1. ~node_io_read' /\ ~node_io_write' /\ node_bak' = node_bak
        BY <1>2, <1>5 DEF FinishWrite, Writing
    <2>2. /\ Cpu!IsOperand(w, node_io_value)
          /\ node_dst_reg = "ACC" <=> Destination(w) = "ACC"
        BY <1>2, <1>3 DEF MovUnderWay, Writing
    <2>3. IF Destination(w) = "ACC" THEN Cpu!IsOperand(w, node_acc') ELSE node_acc' = node_acc
        BY <1>5, <2>2
    <2>4. Cpu!Step
        BY <1>1, <1>3, <1>5, <2>1, <2>3, MoveIsAStep
    <2> QED BY <2>1, <2>4, Ended
<1> QED BY <1>4, <1>5 DEF FinishWrite

LEMMA InstructionFinishes ==
    ASSUME TypeOK, UnderWay, Regular(current_instruction), FinishInstruction,
           node_state = "FINISH", node_state' = "RUN", UNCHANGED memory
    PROVE  UnderWay' /\ (Cpu!Step \/ UNCHANGED Cpu!archVars)
<1>1. PICK w : w = current_instruction
    OBVIOUS
<1>2. PICK v \in Word11 : v = node_io_value
    BY DEF TypeOK
<1>3. UnderWayOf(w) /\ Started /\ ~node_io_read /\ ~node_io_write /\ Regular(w)
    BY <1>1 DEF UnderWay, FinishInstruction, Reading, Writing, Started
<1>4. Execute(v, node_acc, node_pc)
    BY <1>2 DEF FinishInstruction
<1>5. UnderWay'
    BY <1>3, Ended DEF FinishInstruction, ioVars
<1>6. CASE Group(w) = "no_operand"
    <2>1. \/ Operation(w) = "NEG" \/ Operation(w) = "SAV" \/ Operation(w) = "SWP"
          \/ Operation(w) = "JMP" /\ Condition(w) # "none"
        BY <1>3, <1>6 DEF Regular
    <2> QED BY <1>1, <1>4, <1>5, <2>1, PlainIsAStep
<1>7. CASE Group(w) = "alu_immediate" \/ Group(w) = "alu_register"
    <2>1. AluUnderWay(w) /\ (Operation(w) = "ADD" \/ Operation(w) = "SUB")
        BY <1>3, <1>7 DEF UnderWayOf, Regular
    <2>2. Cpu!IsOperand(w, v)
        BY <1>2, <1>3, <2>1 DEF AluUnderWay
    <2> QED BY <1>1, <1>4, <1>5, <2>1, <2>2, SumIsAStep
<1>8. CASE Group(w) = "mov_immediate" \/ Group(w) = "mov_register"
    <2>1. MovUnderWay(w)
        BY <1>3, <1>8 DEF UnderWayOf
    <2>2. Destination(w) # "ACC"
        BY <1>3, <2>1 DEF MovUnderWay
    <2>3. Operation(w) = "other"
        BY <1>1, <1>8, FetchType, MovesAreOther
    <2>4. node_acc' = node_acc /\ node_pc' = IncrementPC /\ node_bak' = node_bak
        BY <1>1, <1>4, <2>3 DEF Execute, Result
    <2> QED BY <1>1, <1>5, <1>8, <2>2, <2>4, MoveIsAStep
<1> QED BY <1>3, <1>6, <1>7, <1>8, Groups

(* One edge of a node that is let through its gate. *)
LEMMA ProcessorIsACpu ==
    ASSUME TypeOK, UnderWay, Regular(current_instruction),
           NEW i_active, NEW i_value \in [Ports -> Word11],
           Processor(i_active, i_value), UNCHANGED memory
    PROVE  UnderWay' /\ (Cpu!Step \/ UNCHANGED Cpu!archVars)
<1>1. node_state' = NextPhase(node_state)
    BY DEF Processor
<1>2. CASE Decode
    BY <1>1, <1>2, DecodeStarts
<1>3. CASE ReadDone(i_active, i_value)
    BY <1>1, <1>3, ReadDoneStays
<1>4. CASE WriteDone(i_active)
    BY <1>1, <1>4, WriteDoneStays
<1>5. CASE Try(i_active)
    <2>1. UNCHANGED cpuVars /\ UNCHANGED ioVars /\ Started
        BY <1>5 DEF Try, Conveying, Started
    <2> QED BY <2>1, NothingMoves DEF UnderWay
<1>6. CASE Finish(i_active, i_value)
    <2>1. node_state = "FINISH" /\ node_state' = "RUN"
        BY <1>1, <1>6 DEF Finish, NextPhase
    <2>2. CASE FinishNoRead(i_active)
        <3>1. UNCHANGED cpuVars /\ UNCHANGED ioVars /\ Started
            BY <2>1, <2>2 DEF FinishNoRead, Started
        <3> QED BY <3>1, NothingMoves DEF UnderWay
    <2> QED BY <1>6, <2>1, <2>2, OperandFinishes, ReadFinishes, WriteFinishes, InstructionFinishes
            DEF Finish
<1> QED BY <1>2, <1>3, <1>4, <1>5, <1>6 DEF Processor

-----------------------------------------------------------------------------
LEMMA FetchedIsRegular ==
    ASSUME TypeOK, PcInProgram, RegularProgram(memory)
    PROVE  Regular(current_instruction)
<1>1. node_pc \in 0 .. Bits(memory[0], 3, 0)
    BY DEF TypeOK, PcInProgram, last_instruction_address, Addresses
<1> QED BY <1>1 DEF RegularProgram, current_instruction

(* Laps, phases and handshakes, whatever the neighbours do and however     *)
(* long they make the node wait, implement the one-step processor of       *)
(* TisCpu: every program of instructions that the encoding means is        *)
(* carried out instruction for instruction, in the order of the program.   *)
THEOREM ImplementsProcessor ==
    ASSUME Patches = {}, \A program \in Programs : RegularProgram(program)
    PROVE  RunSpec => CpuSpec
<1> DEFINE Inv == TypeOK /\ OneLine /\ PcInProgram /\ UnderWay /\ RegularProgram(memory)
<1>1. Init => Inv /\ Cpu!Init
    <2> SUFFICES ASSUME Init PROVE Inv /\ Cpu!Init
        OBVIOUS
    <2>1. TypeOK /\ OneLine /\ PcInProgram
        BY InitKeepsInv
    <2>2. RegularProgram(memory)
        BY DEF Init, ExecInit
    <2>3. UnderWay /\ Cpu!Init
        BY DEF Init, ExecInit, UnderWay, UnderWayOf, Started, Cpu!Init
    <2> QED BY <2>1, <2>2, <2>3
<1>2. Inv /\ [Clock]_execVars => Inv' /\ [Cpu!Step]_(Cpu!archVars)
    <2> SUFFICES ASSUME Inv, [Clock]_execVars PROVE Inv' /\ [Cpu!Step]_(Cpu!archVars)
        OBVIOUS
    <2>1. memory' = memory
        BY DEF Clock, execVars
    <2>2. TypeOK' /\ OneLine' /\ PcInProgram'
        <3>1. TypeOK' /\ OneLine' /\ (InProgram(node_pc) => InProgram(node_pc') \/ ExecReset)
            BY StepKeepsInv
        <3>2. /\ InProgram(node_pc) /\ last_instruction_address' = last_instruction_address
              /\ last_instruction_address \in Addresses
            BY <2>1, FetchType DEF PcInProgram, TypeOK, InProgram, last_instruction_address
        <3>3. ExecReset => node_pc' = 0
            BY DEF ExecReset
        <3>4. PcInProgram'
            BY <3>1, <3>2, <3>3 DEF PcInProgram, InProgram, Addresses
        <3> QED BY <3>1, <3>4
    <2>3. RegularProgram(memory)'
        BY <2>1
    <2>4. CASE UNCHANGED <<node_state, cpuVars, ioVars, o_active>>
        <3>1. UNCHANGED Cpu!archVars /\ UNCHANGED ioVars /\ UNCHANGED cpuVars /\ node_state' = node_state
            BY <2>1, <2>4 DEF Cpu!archVars, cpuVars
        <3>2. UnderWay'
            <4>1. CASE Started
                BY <2>1, <3>1, <4>1, NothingMoves DEF UnderWay
            <4>2. CASE ~Started
                BY <3>1, <4>2 DEF UnderWay, UnderWayOf, Started, ioVars
            <4> QED BY <4>1, <4>2
        <3> QED BY <2>2, <2>3, <3>1, <3>2
    <2>5. ASSUME NEW i_active, NEW i_value \in [Ports -> Word11], Processor(i_active, i_value)
          PROVE  UnderWay' /\ (Cpu!Step \/ UNCHANGED Cpu!archVars)
        BY <2>1, <2>5, FetchedIsRegular, ProcessorIsACpu
    <2>6. CASE ~UNCHANGED <<node_state, cpuVars, ioVars, o_active>>
        <3>1. PICK S \in SUBSET Wired, v \in NeighbourValues :
                  Processor(Raise(S), [p \in Ports |-> v])
            BY <2>6 DEF Clock, ExecEdge, execVars
        <3>2. [p \in Ports |-> v] \in [Ports -> Word11]
            BY ExecutionAssumption
        <3>3. UnderWay' /\ (Cpu!Step \/ UNCHANGED Cpu!archVars)
            BY <2>5, <3>1, <3>2
        <3> QED BY <2>2, <2>3, <3>3
    <2> QED BY <2>4, <2>6
<1> QED BY <1>1, <1>2, PTL DEF RunSpec, CpuSpec, Cpu!Spec
=============================================================================
