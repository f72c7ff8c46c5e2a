---------------------------- MODULE TisStackNode ----------------------------
(***************************************************************************)
(* tis_stack_node.vhd: a ring buffer with two ends.  The memory master     *)
(* pushes and pops at the tail, one bus access per clock edge; the four    *)
(* neighbours push and pop at the head, by the conduit handshake: a line   *)
(* o_active[p] raised by one edge and met by i_active[p] at the next edge  *)
(* is a transfer, which the node carries out at that next edge.            *)
(*                                                                         *)
(* This module is the node's process, one action per branch.  Its inputs   *)
(* are parameters of the actions: bus is the access the master makes at    *)
(* this edge, i_active and i_value the lines and data of the neighbours as *)
(* the edge samples them, gate is tis_active.                              *)
(***************************************************************************)
EXTENDS TisTypes

CONSTANT BufferLength    \* generic buffer_length

ASSUME BufferLengthAssumption == BufferLength \in Nat \ {0}

VARIABLES
    values,        \* the ring buffer
    tail_ptr,      \* the free slot the master writes next
    head_ptr,      \* the slot the neighbours read next
    count,         \* how many values are stored
    node_state,    \* the phase
    node_config,   \* 16-bit configuration word
    node_output,   \* register behind o_left, o_right, o_up and o_down
    o_active,      \* the lines o_*_active
    readdata       \* the 16-bit word the master has read

stackVars == <<values, tail_ptr, head_ptr, count, node_state, node_config,
               node_output, o_active, readdata>>
ring == <<values, tail_ptr, head_ptr, count>>

-----------------------------------------------------------------------------
Slots == 0 .. BufferLength - 1

IncrementPTR(ptr) == IF ptr = BufferLength - 1 THEN 0 ELSE ptr + 1

(* Seeded fault: wraps one slot past the end. *)
FaultyDecrementPTR(ptr) == IF ptr = 0 THEN BufferLength ELSE ptr - 1

DecrementPTR(ptr) == IF ptr = 0 THEN BufferLength - 1 ELSE ptr - 1

(* node_config(0) and node_config(1). *)
WritesRight(config) == config % 2 = 1

ReadsLeft(config) == (config \div 2) % 2 = 1

-----------------------------------------------------------------------------
(* The lines this edge raises for the transfers of the next phase.         *)
Lines(r, readable, w, writable) ==
    [p \in Ports |-> (p = r /\ readable) \/ (p = w /\ writable)]

Offer(readable, writable) ==
    o_active' = IF node_state = "FINISH" THEN Quiet
                ELSE Lines(ReadPort(NextPhase(node_state)), readable,
                           WritePort(NextPhase(node_state)), writable)

(* What happened on the conduits since the last edge. *)
Received(i_active) ==
    LET r == ReadPort(node_state) IN o_active[r] /\ i_active[r]

Sent(i_active) ==
    LET w == WritePort(node_state) IN o_active[w] /\ i_active[w]

Arriving(i_value) == ToTisInteger(i_value[ReadPort(node_state)])

-----------------------------------------------------------------------------
StackInit ==
    /\ values = [s \in Slots |-> 0]
    /\ tail_ptr = 0
    /\ head_ptr = 0
    /\ count = 0
    /\ node_state = "RUN"
    /\ node_config = 0
    /\ node_output = 0
    /\ o_active = Quiet
    /\ readdata = EmptyAnswer

(* resetn = '0'; node_output is the one register it leaves. *)
StackReset ==
    /\ values' = [s \in Slots |-> 0]
    /\ tail_ptr' = 0
    /\ head_ptr' = 0
    /\ count' = 0
    /\ node_state' = "RUN"
    /\ node_config' = 0
    /\ o_active' = Quiet
    /\ readdata' = EmptyAnswer
    /\ UNCHANGED node_output

(* Seeded fault: reads the slot before moving to it. *)
FaultyBusPop ==
    /\ IF count = 0
         THEN readdata' = EmptyAnswer /\ UNCHANGED <<tail_ptr, count>>
         ELSE /\ readdata' = Halfword(values[tail_ptr])
              /\ tail_ptr' = IncrementPTR(tail_ptr)
              /\ count' = count - 1
    /\ UNCHANGED <<values, head_ptr, node_config>>

(* The four accesses of the memory master: address 1 is the buffer,        *)
(* address 0 the configuration.                                            *)
BusPop ==
    /\ IF count = 0
         THEN readdata' = EmptyAnswer /\ UNCHANGED <<tail_ptr, count>>
         ELSE /\ readdata' = Halfword(values[IncrementPTR(tail_ptr)])
              /\ tail_ptr' = IncrementPTR(tail_ptr)
              /\ count' = count - 1
    /\ UNCHANGED <<values, head_ptr, node_config>>

BusReadConfig == readdata' = node_config /\ UNCHANGED <<ring, node_config>>

BusPush(word) ==
    /\ IF count < BufferLength
         THEN /\ values' = [values EXCEPT ![tail_ptr] = ToTisInteger(SignedHalfword(word))]
              /\ tail_ptr' = DecrementPTR(tail_ptr)
              /\ count' = count + 1
         ELSE UNCHANGED <<values, tail_ptr, count>>
    /\ UNCHANGED <<head_ptr, node_config, readdata>>

BusWriteConfig(word) == node_config' = word /\ UNCHANGED <<ring, readdata>>

Bus(bus) ==
    \/ bus.op = "read"  /\ bus.address = 1 /\ BusPop
    \/ bus.op = "read"  /\ bus.address = 0 /\ BusReadConfig
    \/ bus.op = "write" /\ bus.address = 1 /\ BusPush(bus.data)
    \/ bus.op = "write" /\ bus.address = 0 /\ BusWriteConfig(bus.data)

(* An access takes the edge from the conduits: an active node still moves  *)
(* to its next phase, but drops its lines and looks at no neighbour.       *)
BusEdge(gate, bus) ==
    /\ Bus(bus)
    /\ IF gate THEN /\ node_state' = NextPhase(node_state)
                    /\ o_active' = Quiet
                    /\ node_output' = values[head_ptr]
               ELSE UNCHANGED <<node_state, o_active, node_output>>

-----------------------------------------------------------------------------
(* The conduit side, on the edges without a bus access. *)

RunPhase ==
    /\ node_state = "RUN"
    /\ o_active' = Quiet
    /\ UNCHANGED ring

LeftPhase ==
    /\ node_state = "LEFT"
    /\ Offer(ReadsLeft(node_config) /\ count < BufferLength,
             WritesRight(node_config) /\ count > 0)
    /\ UNCHANGED ring

(* RIGHT .. FINISH first settle the transfers of the lines raised before.  *)
Settling == node_state \in {"RIGHT", "UP", "DOWN", "FINISH"}

(* Seeded fault: the head moves as if nothing had been handed over. *)
FaultyExchange(i_active, i_value) ==
    /\ Settling
    /\ Received(i_active) /\ Sent(i_active)
    /\ values' = [values EXCEPT ![IncrementPTR(head_ptr)] = Arriving(i_value)]
    /\ head_ptr' = IncrementPTR(head_ptr)
    /\ Offer(TRUE, TRUE)
    /\ UNCHANGED <<tail_ptr, count>>

(* Both at once: the new value takes the place of the one handed over. *)
Exchange(i_active, i_value) ==
    /\ Settling
    /\ Received(i_active) /\ Sent(i_active)
    /\ values' = [values EXCEPT ![head_ptr] = Arriving(i_value)]
    /\ Offer(TRUE, TRUE)
    /\ UNCHANGED <<tail_ptr, head_ptr, count>>

(* Seeded fault: the next read is offered without looking at the space. *)
FaultyOfferReceive(i_active, i_value) ==
    /\ Settling
    /\ Received(i_active) /\ ~Sent(i_active)
    /\ values' = [values EXCEPT ![IncrementPTR(head_ptr)] = Arriving(i_value)]
    /\ head_ptr' = IncrementPTR(IF node_state = "RIGHT" THEN tail_ptr ELSE head_ptr)
    /\ count' = count + 1
    /\ Offer(TRUE, TRUE)
    /\ UNCHANGED tail_ptr

(* Seeded fault: every phase takes the tail for the head, as RIGHT does. *)
FaultyHeadReceive(i_active, i_value) ==
    /\ Settling
    /\ Received(i_active) /\ ~Sent(i_active)
    /\ values' = [values EXCEPT ![IncrementPTR(head_ptr)] = Arriving(i_value)]
    /\ head_ptr' = IncrementPTR(tail_ptr)
    /\ count' = count + 1
    /\ Offer(count < BufferLength - 1, TRUE)
    /\ UNCHANGED tail_ptr

(* Phase RIGHT alone moves the head to the slot after the TAIL. *)
Receive(i_active, i_value) ==
    /\ Settling
    /\ Received(i_active) /\ ~Sent(i_active)
    /\ values' = [values EXCEPT ![IncrementPTR(head_ptr)] = Arriving(i_value)]
    /\ head_ptr' = IncrementPTR(IF node_state = "RIGHT" THEN tail_ptr ELSE head_ptr)
    /\ count' = count + 1
    /\ Offer(count < BufferLength - 1, TRUE)
    /\ UNCHANGED tail_ptr

Send(i_active) ==
    /\ Settling
    /\ Sent(i_active) /\ ~Received(i_active)
    /\ head_ptr' = DecrementPTR(head_ptr)
    /\ count' = count - 1
    /\ Offer(TRUE, count > 1)
    /\ UNCHANGED <<values, tail_ptr>>

(* Nothing was met.  Phase DOWN, in this branch alone, announces the value *)
(* on RIGHT, and not on UP where the next phase would look for an answer.  *)
Settle(i_active) ==
    /\ Settling
    /\ ~Received(i_active) /\ ~Sent(i_active)
    /\ IF node_state = "DOWN"
         THEN o_active' = Lines("DOWN", count # BufferLength, "RIGHT", count # 0)
         ELSE Offer(count # BufferLength, count # 0)
    /\ UNCHANGED ring

(* Seeded fault: the output register is loaded once a lap. *)
FaultyConduitEdge(i_active, i_value) ==
    /\ \/ RunPhase
       \/ LeftPhase
       \/ Exchange(i_active, i_value)
       \/ Receive(i_active, i_value)
       \/ Send(i_active)
       \/ Settle(i_active)
    /\ node_state' = NextPhase(node_state)
    /\ node_output' = IF node_state = "RUN" THEN values[head_ptr] ELSE node_output
    /\ UNCHANGED <<node_config, readdata>>

ConduitEdge(i_active, i_value) ==
    /\ \/ RunPhase
       \/ LeftPhase
       \/ Exchange(i_active, i_value)
       \/ Receive(i_active, i_value)
       \/ Send(i_active)
       \/ Settle(i_active)
    /\ node_state' = NextPhase(node_state)
    /\ node_output' = values[head_ptr]
    /\ UNCHANGED <<node_config, readdata>>

(* One rising clock edge.  bus.op = "none" is an edge without an access.   *)
StackEdge(gate, bus, i_active, i_value) ==
    \/ bus.op # "none" /\ BusEdge(gate, bus)
    \/ bus.op = "none" /\ gate /\ ConduitEdge(i_active, i_value)
    \/ bus.op = "none" /\ ~gate /\ UNCHANGED stackVars
=============================================================================
