-------------------------- MODULE TisExecutionNode --------------------------
(***************************************************************************)
(* tis_execution_node.vhd: a processor that takes one lap of the six       *)
(* phases to fetch an instruction, move its operand over a conduit and     *)
(* carry it out, or as many laps as the neighbour on that conduit makes it *)
(* wait.  The memory of the program is on the bus of the host and can be   *)
(* written at any edge.                                                    *)
(*                                                                         *)
(* As in TisStackNode the inputs of an edge are parameters: i_active and   *)
(* i_value are the lines and data of the neighbours, gate is tis_active.   *)
(***************************************************************************)
EXTENDS TisIsa

VARIABLES
    memory,           \* regs, as sixteen halfwords: 0 is the configuration
    node_state,       \* the phase
    node_pc,
    node_acc,
    node_bak,
    node_io_value,    \* the operand; also the register behind o_left .. o_down
    node_io_read,     \* an operand is still to be read
    node_io_write,    \* the operand is still to be written
    node_src_reg,     \* where from
    node_dst_reg,     \* where to
    node_last,        \* the port the last ANY was served by
    o_active          \* the lines o_*_active

cpuVars == <<node_pc, node_acc, node_bak>>
ioVars == <<node_io_value, node_io_read, node_io_write, node_src_reg,
            node_dst_reg, node_last>>
execVars == <<memory, node_state, cpuVars, ioVars, o_active>>

-----------------------------------------------------------------------------
Addresses == 0 .. 15

last_instruction_address == Bits(memory[0], 3, 0)

(* The instruction after the 15th would be in regs(8), one past the array; *)
(* the three address bits the array has select regs(0).                    *)
current_instruction == memory[(node_pc + 1) % 16]

IncrementPC == IF node_pc = last_instruction_address THEN 0 ELSE (node_pc + 1) % 16

(* Seeded fault: a jump goes wherever its address says. *)
FaultySetPC(value) == value

(* A program counter that would leave the program stops at its edge. *)
SetPC(value) ==
    IF value < last_instruction_address THEN value ELSE last_instruction_address

OffsetPC(offset) ==
    IF node_pc + offset > last_instruction_address THEN last_instruction_address
    ELSE IF node_pc + offset < 0 THEN 0
    ELSE node_pc + offset

-----------------------------------------------------------------------------
(* Phase RUN: find the operand of the next instruction. *)

(* Seeded fault: a zero is not loaded. *)
FaultyAluOperand(w) ==
    IF Group(w) = "alu_immediate"
      THEN IF AluImmediate(w) = 0 THEN node_io_value ELSE AluImmediate(w)
      ELSE IF Source(w) = "ACC" THEN node_acc ELSE 0

AluOperand(w) ==
    IF Group(w) = "alu_immediate" THEN AluImmediate(w)
    ELSE IF Source(w) = "ACC" THEN node_acc ELSE 0

(* ADD and SUB.  An operand at hand leaves node_src_reg at "LAST", which   *)
(* no phase reads from.                                                    *)
DecodeAlu(w) ==
    /\ node_io_write' = FALSE
    /\ \/ /\ Group(w) = "alu_immediate" \/ Source(w) \in {"NIL", "ACC"}
          /\ node_io_value' = AluOperand(w)
          /\ node_io_read' = FALSE
          /\ node_src_reg' = "LAST"
       \/ /\ Group(w) = "alu_register" /\ Source(w) = "LAST"
          /\ node_io_value' = IF node_last = "NIL" THEN 0 ELSE node_io_value
          /\ node_io_read' = (node_last # "NIL")
          /\ node_src_reg' = node_last
       \/ /\ Group(w) = "alu_register" /\ Source(w) \notin {"NIL", "ACC", "LAST"}
          /\ node_io_read' = TRUE
          /\ node_src_reg' = Source(w)
          /\ UNCHANGED node_io_value
    /\ UNCHANGED node_dst_reg

(* MOV: even an operand at hand is "read", in phase FINISH. *)
DecodeMov(w) ==
    /\ node_io_read' = TRUE
    /\ node_io_write' = TRUE
    /\ node_dst_reg' = IF Destination(w) = "LAST" THEN node_last ELSE Destination(w)
    /\ IF Group(w) = "mov_immediate"
         THEN node_src_reg' = "NIL" /\ node_io_value' = MovImmediate(w)
         ELSE /\ node_src_reg' = IF Source(w) = "LAST" THEN node_last ELSE Source(w)
              /\ node_io_value' =
                     IF Source(w) = "ACC" THEN node_acc
                     ELSE IF Source(w) = "NIL" \/ (Source(w) = "LAST" /\ node_last = "NIL")
                       THEN 0
                     ELSE node_io_value

(* The other instructions leave the operand registers as they are, and so  *)
(* does an instruction whose operand is still under way.                   *)
Decode ==
    /\ node_state = "RUN"
    /\ LET w == current_instruction IN
       IF node_io_read \/ node_io_write \/ Group(w) = "no_operand"
         THEN UNCHANGED ioVars
         ELSE /\ IF Group(w) \in {"alu_register", "alu_immediate"}
                   THEN DecodeAlu(w) ELSE DecodeMov(w)
              /\ UNCHANGED node_last
    /\ UNCHANGED <<cpuVars, o_active>>

-----------------------------------------------------------------------------
(* Phases LEFT .. DOWN: settle what was tried, or try the next conduit.    *)

Uses(register, port) == register = port \/ register = "ANY"

Conveying == node_state \in {"LEFT", "RIGHT", "UP", "DOWN"}

(* Seeded fault: phase LEFT, before which no line can be up, settles too. *)
FaultyReadMet(i_active) ==
    LET r == ReadPort(node_state) IN i_active[r] /\ Uses(node_src_reg, r)

(* The node takes a line of the neighbour as the answer.  Its own line,    *)
(* the other half of the handshake, is not looked at.                      *)
ReadMet(i_active) ==
    LET r == ReadPort(node_state) IN
    node_state # "LEFT" /\ i_active[r] /\ Uses(node_src_reg, r)

WriteMet(i_active) ==
    LET w == WritePort(node_state) IN
    node_state # "LEFT" /\ i_active[w] /\ Uses(node_dst_reg, w)

(* Seeded fault: every transfer is remembered. *)
FaultyRemember(register, p) == node_last' = p

(* node_last after a transfer over port p for register. *)
Remember(register, p) ==
    node_last' = IF register = "ANY" THEN p ELSE node_last

Reading == node_io_read
Writing == ~node_io_read /\ node_io_write

ReadDone(i_active, i_value) ==
    /\ Conveying /\ Reading /\ ReadMet(i_active)
    /\ node_io_value' = i_value[ReadPort(node_state)]
    /\ node_io_read' = FALSE
    /\ Remember(node_src_reg, ReadPort(node_state))
    /\ o_active' = Quiet
    /\ UNCHANGED <<cpuVars, node_io_write, node_src_reg, node_dst_reg>>

WriteDone(i_active) ==
    /\ Conveying /\ Writing /\ WriteMet(i_active)
    /\ node_io_write' = FALSE
    /\ Remember(node_dst_reg, WritePort(node_state))
    /\ o_active' = Quiet
    /\ UNCHANGED <<cpuVars, node_io_value, node_io_read, node_src_reg, node_dst_reg>>

(* Seeded fault: offers what it has while it still waits for the operand. *)
FaultyTry(i_active) ==
    /\ Conveying
    /\ LET r == ReadPort(NextPhase(node_state))
           w == WritePort(NextPhase(node_state))
       IN \/ /\ Reading /\ ~ReadMet(i_active)
             /\ o_active' = Raise(   {p \in {r} : Uses(node_src_reg, p)}
                                 \cup {p \in {w} : node_io_write /\ Uses(node_dst_reg, p)})
          \/ /\ Writing /\ ~WriteMet(i_active)
             /\ o_active' = Raise({p \in {w} : Uses(node_dst_reg, p)})
          \/ ~Reading /\ ~Writing /\ o_active' = Quiet
    /\ UNCHANGED <<cpuVars, ioVars>>

(* Raise the line of the conduit the next phase settles, if wanted. *)
Try(i_active) ==
    /\ Conveying
    /\ LET r == ReadPort(NextPhase(node_state))
           w == WritePort(NextPhase(node_state))
       IN \/ /\ Reading /\ ~ReadMet(i_active)
             /\ o_active' = Raise({p \in {r} : Uses(node_src_reg, p)})
          \/ /\ Writing /\ ~WriteMet(i_active)
             /\ o_active' = Raise({p \in {w} : Uses(node_dst_reg, p)})
          \/ ~Reading /\ ~Writing /\ o_active' = Quiet
    /\ UNCHANGED <<cpuVars, ioVars>>

-----------------------------------------------------------------------------
(* Phase FINISH: settle the last conduit, or carry the instruction out.    *)

(* Seeded fault: sums are not cut to the width of the register. *)
FaultyWideResult(op, v, acc) ==
    CASE op = "ADD" -> node_acc + v
      [] op = "SUB" -> node_acc - v
      [] op = "NEG" -> -node_acc
      [] op = "SWP" -> node_bak
      [] OTHER      -> acc

(* Seeded fault: SUB the other way round. *)
FaultySubResult(op, v, acc) ==
    CASE op = "ADD" -> Wrap11(node_acc + v)
      [] op = "SUB" -> Wrap11(v - node_acc)
      [] op = "NEG" -> Wrap11(-node_acc)
      [] op = "SWP" -> node_bak
      [] OTHER      -> acc

(* What node_acc becomes by the operation op with operand v; acc, if op    *)
(* does not compute it.                                                    *)
Result(op, v, acc) ==
    CASE op = "ADD" -> Wrap11(node_acc + v)
      [] op = "SUB" -> Wrap11(node_acc - v)
      [] op = "NEG" -> Wrap11(-node_acc)
      [] op = "SWP" -> node_bak
      [] OTHER      -> acc

(* The instruction at node_pc with operand v; acc and pc are for what it   *)
(* does not set: a jump of no known condition goes nowhere.                *)
Execute(v, acc, pc) ==
    LET w == current_instruction
        op == Operation(w)
    IN /\ node_acc' = Result(op, v, acc)
       /\ node_bak' = IF op \in {"SAV", "SWP"} THEN node_acc ELSE node_bak
       /\ node_pc' = CASE op = "JRO" -> OffsetPC(v)
                       [] op = "JMP" /\ Condition(w) = "none" -> pc
                       [] op = "JMP" /\ Holds(Condition(w), node_acc) -> SetPC(Target(w))
                       [] OTHER -> IncrementPC

(* MOV from a register or an immediate: into ACC or NIL it is done, for a  *)
(* port it is now ready to be written.                                     *)
FinishOperand ==
    /\ Reading /\ node_src_reg \in {"ACC", "NIL"}
    /\ node_io_read' = FALSE
    /\ IF node_dst_reg \in {"ACC", "NIL"}
         THEN /\ node_io_write' = FALSE
              /\ node_acc' = IF node_dst_reg = "ACC" THEN node_io_value ELSE node_acc
              /\ node_pc' = IncrementPC
         ELSE UNCHANGED <<node_io_write, node_acc, node_pc>>
    /\ UNCHANGED <<node_bak, node_io_value, node_src_reg, node_dst_reg, node_last>>

(* The operand arrives over DOWN.  It is used at once and not kept: the    *)
(* instruction is carried out and passed, even a MOV to another port.      *)
FinishRead(i_active, i_value) ==
    /\ Reading /\ i_active["DOWN"] /\ Uses(node_src_reg, "DOWN")
    /\ node_io_read' = FALSE
    /\ Remember(node_src_reg, "DOWN")
    /\ node_io_write' = (node_io_write /\ node_dst_reg \notin {"ACC", "NIL"})
    /\ Execute(i_value["DOWN"],
               IF node_io_write /\ node_dst_reg = "ACC" THEN i_value["DOWN"] ELSE node_acc,
               IF node_io_write /\ node_dst_reg \in {"ACC", "NIL"} THEN IncrementPC ELSE node_pc)
    /\ UNCHANGED <<node_io_value, node_src_reg, node_dst_reg>>

FinishNoRead(i_active) ==
    /\ Reading /\ node_src_reg \notin {"ACC", "NIL"}
    /\ ~(i_active["DOWN"] /\ Uses(node_src_reg, "DOWN"))
    /\ UNCHANGED <<cpuVars, ioVars>>

(* A value that was read in this lap goes into ACC or NIL, or is met on UP.*)
(* In the second case it is the SOURCE register that is compared with ANY. *)
FinishWrite(i_active) ==
    /\ Writing
    /\ LET met == i_active["UP"] /\ Uses(node_dst_reg, "UP") IN
       IF met \/ node_dst_reg \in {"ACC", "NIL"}
         THEN /\ node_io_write' = FALSE
              /\ node_acc' = IF node_dst_reg = "ACC" THEN node_io_value ELSE node_acc
              /\ node_last' = IF met /\ node_src_reg = "ANY" THEN "UP" ELSE node_last
              /\ node_pc' = IncrementPC
         ELSE UNCHANGED <<node_io_write, node_acc, node_last, node_pc>>
    /\ UNCHANGED <<node_bak, node_io_value, node_io_read, node_src_reg, node_dst_reg>>

FinishInstruction ==
    /\ ~Reading /\ ~Writing
    /\ Execute(node_io_value, node_acc, node_pc)
    /\ UNCHANGED ioVars

Finish(i_active, i_value) ==
    /\ node_state = "FINISH"
    /\ \/ FinishOperand
       \/ FinishRead(i_active, i_value)
       \/ FinishNoRead(i_active)
       \/ FinishWrite(i_active)
       \/ FinishInstruction
    /\ UNCHANGED o_active

-----------------------------------------------------------------------------
(* Power-up, with a program already in place. *)
ExecInit(program) ==
    /\ memory = program
    /\ node_state = "RUN"
    /\ node_pc = 0 /\ node_acc = 0 /\ node_bak = 0
    /\ node_io_value = 0
    /\ node_io_read = FALSE /\ node_io_write = FALSE
    /\ node_src_reg = "NIL" /\ node_dst_reg = "NIL" /\ node_last = "NIL"
    /\ o_active = Quiet

(* resetn = '0'.  The pending-transfer flags and the lines keep what they  *)
(* have; the memory does not.                                              *)
ExecReset ==
    /\ memory' = [a \in Addresses |-> 0]
    /\ node_state' = "RUN"
    /\ node_pc' = 0 /\ node_acc' = 0 /\ node_bak' = 0
    /\ node_io_value' = 0
    /\ node_src_reg' = "NIL" /\ node_dst_reg' = "NIL" /\ node_last' = "NIL"
    /\ UNCHANGED <<node_io_read, node_io_write, o_active>>

Processor(i_active, i_value) ==
    /\ \/ Decode
       \/ ReadDone(i_active, i_value)
       \/ WriteDone(i_active)
       \/ Try(i_active)
       \/ Finish(i_active, i_value)
    /\ node_state' = NextPhase(node_state)

(* One rising clock edge: the process memory_bus beside the processor,     *)
(* which still sees the memory as it was.                                  *)
ExecEdge(gate, i_active, i_value) ==
    IF gate THEN Processor(i_active, i_value)
            ELSE UNCHANGED <<node_state, cpuVars, ioVars, o_active>>

MemoryWrite(address, word) == memory' = [memory EXCEPT ![address] = word]
=============================================================================
