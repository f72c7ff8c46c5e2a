------------------------------ MODULE TisSystem ------------------------------
(***************************************************************************)
(* tis_system.qsys: a stack for input above an execution node above a      *)
(* stack for output, gated by the controller, and the bus by which a host  *)
(* feeds the one stack and empties the other.                              *)
(*                                                                         *)
(*     host --push--> input | DOWN --> UP | node | DOWN --> UP | output    *)
(*     host <--pop--- output                                               *)
(*                                                                         *)
(* Every part has one clock: an edge is an edge of all four processes,     *)
(* each of which sees what the others' registers were before it.           *)
(***************************************************************************)
EXTENDS TisIsa, SequencesExt

CONSTANTS
    BufferLength,   \* of both stacks (buffer_length of the .qsys is 15)
    Programs,       \* memories the node may have
    Outcome(_, _),   \* what a program makes of one input
    Inputs,         \* bound: the host pushes 1 .. Inputs, in this order
    Outputs         \* bound: the host asks for no more once it has so many values

ASSUME SystemAssumption ==
    /\ BufferLength \in Nat \ {0}
    /\ Inputs \in Nat /\ Outputs \in Nat

VARIABLES
    ctl_state, active, tis_step_done,                         \* controller
    enable, step,                                             \* switch, key
    bus,                                                      \* the access at the next edge
    in_values, in_tail_ptr, in_head_ptr, in_count, in_state,  \* input stack
    in_config, in_output, in_active, in_readdata,
    memory, node_pc, node_acc, node_bak, node_io_value,       \* execution node
    node_io_read, node_io_write, node_src_reg, node_dst_reg,
    node_last, exec_state, exec_active,
    out_values, out_tail_ptr, out_head_ptr, out_count,        \* output stack
    out_state, out_config, out_output, out_active, out_readdata,
    pushed,      \* history: the values the input stack has accepted
    popped,      \* history: the values the host has been given
    collided     \* history: an access took the edge of a handshake

ctlVars == <<ctl_state, active, tis_step_done>>
boardVars == <<enable, step>>
inVars == <<in_values, in_tail_ptr, in_head_ptr, in_count, in_state,
            in_config, in_output, in_active, in_readdata>>
nodeVars == <<memory, node_pc, node_acc, node_bak, node_io_value, node_io_read,
              node_io_write, node_src_reg, node_dst_reg, node_last, exec_state, exec_active>>
outVars == <<out_values, out_tail_ptr, out_head_ptr, out_count, out_state,
             out_config, out_output, out_active, out_readdata>>
history == <<pushed, popped, collided>>
fabricVars == <<ctlVars, inVars, nodeVars, outVars, history>>
sysVars == <<fabricVars, boardVars, bus>>

Controller == INSTANCE TisController WITH node_state <- ctl_state

Input == INSTANCE TisStackNode WITH
    values <- in_values, tail_ptr <- in_tail_ptr, head_ptr <- in_head_ptr,
    count <- in_count, node_state <- in_state, node_config <- in_config,
    node_output <- in_output, o_active <- in_active, readdata <- in_readdata

Node == INSTANCE TisExecutionNode WITH
    node_state <- exec_state, o_active <- exec_active

Output == INSTANCE TisStackNode WITH
    values <- out_values, tail_ptr <- out_tail_ptr, head_ptr <- out_head_ptr,
    count <- out_count, node_state <- out_state, node_config <- out_config,
    node_output <- out_output, o_active <- out_active, readdata <- out_readdata

-----------------------------------------------------------------------------
(* The wires of the two conduits.  A conduit that is not connected reads   *)
(* '0', the default of its port.                                           *)
InputLines == [p \in Ports |-> p = "DOWN" /\ exec_active["UP"]]
InputData == [p \in Ports |-> node_io_value]

NodeLines == [p \in Ports |-> \/ p = "UP" /\ in_active["DOWN"]
                              \/ p = "DOWN" /\ out_active["UP"]]
NodeData == [p \in Ports |-> IF p = "UP" THEN in_output ELSE out_output]

OutputLines == [p \in Ports |-> p = "UP" /\ exec_active["DOWN"]]
OutputData == [p \in Ports |-> node_io_value]

NoAccess == [op |-> "none", address |-> 0, data |-> 0]
Push(v) == [op |-> "write", address |-> 1, data |-> v]
Pop == [op |-> "read", address |-> 1, data |-> 0]

(* The address decoder: writes go to TIS_INPUT, reads to TIS_OUTPUT. *)
InputBus == IF bus.op = "write" THEN bus ELSE NoAccess
OutputBus == IF bus.op = "read" THEN bus ELSE NoAccess

-----------------------------------------------------------------------------
Init ==
    /\ Controller!CtlInit
    /\ Input!StackInit
    /\ \E program \in Programs : Node!ExecInit(program)
    /\ Output!StackInit
    /\ enable = FALSE /\ step = FALSE
    /\ bus = NoAccess
    /\ pushed = <<>> /\ popped = <<>> /\ collided = FALSE

(* Between two edges somebody moves the switch or the key, or the host     *)
(* puts an access on the bus.                                              *)
Switch == enable' = ~enable /\ UNCHANGED <<fabricVars, step, bus>>

Key == step' = ~step /\ UNCHANGED <<fabricVars, enable, bus>>

HostWrite ==
    /\ bus = NoAccess
    /\ Len(pushed) < Inputs
    /\ bus' = Push(Len(pushed) + 1)
    /\ UNCHANGED <<fabricVars, boardVars>>

HostRead ==
    /\ bus = NoAccess
    /\ Len(popped) < Outputs
    /\ bus' = Pop
    /\ UNCHANGED <<fabricVars, boardVars>>

(* The edge would settle a handshake in which both lines are up.           *)
HandsOver == active /\ in_state = "DOWN" /\ in_active["DOWN"] /\ exec_active["UP"]
TakesOver == active /\ out_state = "DOWN" /\ out_active["UP"] /\ exec_active["DOWN"]

Record ==
    /\ pushed' = IF bus.op = "write" /\ in_count < BufferLength
                   THEN Append(pushed, bus.data) ELSE pushed
    /\ popped' = IF bus.op = "read" /\ out_count > 0
                   THEN Append(popped, Node!SignedHalfword(out_readdata'))
                   ELSE popped
    /\ collided' = \/ collided
                   \/ bus.op = "write" /\ HandsOver
                   \/ bus.op = "read" /\ TakesOver

ClockEdge ==
    /\ Controller!Edge(enable, step)
    /\ Input!StackEdge(active, InputBus, InputLines, InputData)
    /\ Node!ExecEdge(active, NodeLines, NodeData)
    /\ Output!StackEdge(active, OutputBus, OutputLines, OutputData)
    /\ bus' = NoAccess
    /\ Record
    /\ UNCHANGED <<memory, boardVars>>

Next == Switch \/ Key \/ HostWrite \/ HostRead \/ ClockEdge

Spec == Init /\ [][Next]_sysVars

(* The oscillator never stops; person and host owe nothing. *)
FairSpec == Spec /\ WF_sysVars(ClockEdge)

-----------------------------------------------------------------------------
(* The open specifications that the parts are checked against in their own *)
(* modules are honest: every behaviour of a part in this fabric is one of  *)
(* theirs, so their neighbours, their host and above all their gates allow *)
(* at least what the real ones do.                                         *)
InputPart == INSTANCE TisStack WITH
    values <- in_values, tail_ptr <- in_tail_ptr, head_ptr <- in_head_ptr,
    count <- in_count, node_state <- in_state, node_config <- in_config,
    node_output <- in_output, o_active <- in_active, readdata <- in_readdata,
    HostWords <- 1 .. Inputs, Configs <- {}, NeighbourValues <- {0}, Wired <- {"DOWN"}

Sent == {0} \cup {Outcome(p, v) : p \in Programs, v \in 1 .. Inputs}

OutputPart == INSTANCE TisStack WITH
    values <- out_values, tail_ptr <- out_tail_ptr, head_ptr <- out_head_ptr,
    count <- out_count, node_state <- out_state, node_config <- out_config,
    node_output <- out_output, o_active <- out_active, readdata <- out_readdata,
    HostWords <- {}, Configs <- {}, Wired <- {"UP"}, NeighbourValues <- Sent

NodePart == INSTANCE TisExecution WITH
    node_state <- exec_state, o_active <- exec_active,
    Programs <- Programs, Patches <- {},
    NeighbourValues <- 0 .. Inputs, Wired <- {"UP", "DOWN"}

PartsAsAssumed == InputPart!Spec /\ OutputPart!Spec /\ NodePart!RunSpec

(* Ring contents, host end first. *)
Stored(values, tail, n) == [i \in 1 .. n |-> values[(tail + i) % BufferLength]]

InOutput == Stored(out_values, out_tail_ptr, out_count)

Results == [i \in 1 .. Len(pushed) |-> Outcome(memory, pushed[i])]

(* As long as no access takes the edge of a handshake, what the host has   *)
(* been given, followed by what waits for it in the output stack, is the   *)
(* results of the first inputs, each once and in order: both handshakes    *)
(* are completed by both their nodes or by neither, at whatever edges the  *)
(* host works on the other end of the stacks and the gate is closed.       *)
Exact == IsPrefix(popped \o InOutput, Results)

(* And nothing is lost on the way: an input that has left the input stack  *)
(* and not reached the output stack is the one the node is busy with.      *)
ExactUnlessCollided ==
    ~collided => /\ Exact
                 /\ Len(pushed) - Len(popped) - in_count - out_count \in {0, 1}

(* Accesses that do collide lose results or repeat them; they never        *)
(* reorder them.                                                           *)
NeverReordered ==
    LET seen == popped \o InOutput
    IN \A i, j \in 1 .. Len(seen) : i < j => seen[i] <= seen[j]

(* With the switch left on and the host off the bus, the fabric passes on  *)
(* everything it can: the input stack empties or the output stack fills.   *)
Drains ==
    <>[](enable /\ bus = NoAccess) => <>[](in_count = 0 \/ out_count = BufferLength)
=============================================================================
