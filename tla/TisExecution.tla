---------------------------- MODULE TisExecution ----------------------------
(***************************************************************************)
(* An execution node among neighbours that do as they like: any line may   *)
(* be up at any edge.  The host may rewrite words of the program while it  *)
(* runs.  As for the stack node, tis_active is never withdrawn inside a    *)
(* cycle (Lockstep of TisClocking).                                        *)
(***************************************************************************)
EXTENDS TisExecutionNode

CONSTANTS
    Programs,          \* memories the node may start with
    Patches,           \* <<address, word>> pairs the host may write
    NeighbourValues,   \* what may be on the neighbours' data wires
    Wired              \* the conduits that have a neighbour

ASSUME ExecutionAssumption ==
    /\ Programs \subseteq [Addresses -> Word16]
    /\ Patches \subseteq Addresses \X Word16
    /\ NeighbourValues \subseteq Word11
    /\ Wired \subseteq Ports

Gates == IF node_state = "RUN" THEN BOOLEAN ELSE {TRUE}

(* At one edge the node takes in the data of at most one conduit, so one   *)
(* value v stands for all four.                                            *)
Clock ==
    /\ \E gate \in Gates, S \in SUBSET Wired, v \in NeighbourValues :
           ExecEdge(gate, Raise(S), [p \in Ports |-> v])
    /\ UNCHANGED memory \/ \E patch \in Patches : MemoryWrite(patch[1], patch[2])

Init == \E program \in Programs : ExecInit(program)

Spec == Init /\ [][Clock \/ ExecReset]_execVars

(* Without the reset key. *)
RunSpec == Init /\ [][Clock]_execVars

-----------------------------------------------------------------------------
TypeOK ==
    /\ memory \in [Addresses -> Word16]
    /\ node_state \in Phases
    /\ node_pc \in Addresses
    /\ node_acc \in Word11
    /\ node_bak \in Word11
    /\ node_io_value \in Word11
    /\ node_io_read \in BOOLEAN
    /\ node_io_write \in BOOLEAN
    /\ node_src_reg \in Registers
    /\ node_dst_reg \in Registers
    /\ node_last \in Ports \cup {"NIL"}
    /\ o_active \in [Ports -> BOOLEAN]

(* A node holds out one line at most, so a neighbour that answers on one   *)
(* side never takes what another neighbour takes too; and between two      *)
(* phases only the line of the phase that will settle it, and only for a   *)
(* register that asks for it: the line of a transfer that a reset has cut  *)
(* short is gone before a phase that looks at lines.                       *)
OneLine ==
    /\ \A p, q \in Ports : o_active[p] /\ o_active[q] => p = q
    /\ node_state \in {"RIGHT", "UP", "DOWN", "FINISH"} =>
           \A p \in Ports : o_active[p] =>
               /\ p = IF node_io_read THEN ReadPort(node_state) ELSE WritePort(node_state)
               /\ Uses(IF node_io_read THEN node_src_reg ELSE node_dst_reg, p)

(* The program counter stays in the program, whatever jump is taken and    *)
(* whatever operand JRO uses: none of the patches rewrites the length.     *)
PcInProgram == node_pc <= last_instruction_address

(* A read is only completed over a conduit whose line this node had raised *)
(* one edge before, so that the neighbour completes its write too.         *)
NoPhantomRead ==
    [][node_io_read /\ ~node_io_read' /\ node_src_reg \notin {"ACC", "NIL"}
         => o_active[ReadPort(node_state)]]_execVars

(* node_last, but for the reset, is only ever changed by a transfer, and   *)
(* then names the port it went over: always by a read of ANY and by a      *)
(* write to ANY over LEFT, RIGHT or DOWN, so that LAST leads back to the   *)
(* neighbour that answered.  A write over UP looks at the source register  *)
(* (l.532): it may forget the port of an ANY, or remember UP without one.  *)
LastFollowsAny ==
    [][LET read == node_io_read /\ ~node_io_read'
           written == ~read /\ node_io_write /\ ~node_io_write'
           over_up == WritePort(node_state) = "UP"
       IN /\ read /\ node_src_reg = "ANY" => node_last' = ReadPort(node_state)
          /\ written /\ node_dst_reg = "ANY" /\ ~over_up
                 => node_last' = WritePort(node_state)
          /\ \/ read /\ node_src_reg = "ANY"
             \/ /\ written /\ "ANY" = IF over_up THEN node_src_reg ELSE node_dst_reg
                /\ node_last' = WritePort(node_state)
             \/ ExecReset
             \/ UNCHANGED node_last]_execVars

(* Laps, phases and handshakes implement the one-step processor. *)
Cpu == INSTANCE TisCpu WITH
    program <- memory, pc <- node_pc, acc <- node_acc, bak <- node_bak

CpuSpec == Cpu!Spec
=============================================================================
