------------------------------ MODULE TisStack ------------------------------
(***************************************************************************)
(* A stack node among neighbours and a memory master that do as they like: *)
(* any line may be up at any edge, any access may come at any edge.  The   *)
(* one thing assumed of the rest of the fabric is that tis_active is never *)
(* withdrawn inside a cycle, which is Lockstep of TisClocking.             *)
(***************************************************************************)
EXTENDS TisStackNode

CONSTANTS
    HostWords,         \* halfwords the master may push
    Configs,           \* configuration words it may write
    NeighbourValues,   \* what may be on the neighbours' data wires
    Wired              \* the conduits that have a neighbour

ASSUME StackAssumption ==
    /\ HostWords \subseteq Word16
    /\ Configs \subseteq Word16
    /\ NeighbourValues \subseteq Word11
    /\ Wired \subseteq Ports

Access ==
         [op : {"read"}, address : {0, 1}, data : {0}]
    \cup [op : {"write"}, address : {1}, data : HostWords]
    \cup [op : {"write"}, address : {0}, data : Configs]

NoAccess == [op |-> "none", address |-> 0, data |-> 0]

Gates == IF node_state = "RUN" THEN BOOLEAN ELSE {TRUE}

(* At one edge the node takes in the data of at most one conduit, so one   *)
(* value v stands for all four.                                            *)
Clock ==
    \E gate \in Gates :
        \/ \E bus \in Access : StackEdge(gate, bus, Quiet, [p \in Ports |-> 0])
        \/ \E S \in SUBSET Wired, v \in NeighbourValues :
               StackEdge(gate, NoAccess, Raise(S), [p \in Ports |-> v])

Init == StackInit
Next == StackReset \/ Clock
Spec == Init /\ [][Next]_stackVars

-----------------------------------------------------------------------------
TypeOK ==
    /\ values \in [Slots -> TisInteger]
    /\ tail_ptr \in Slots
    /\ head_ptr \in Slots
    /\ count \in 0 .. BufferLength
    /\ node_state \in Phases
    /\ node_config \in Word16
    /\ node_output \in TisInteger
    /\ o_active \in [Ports -> BOOLEAN]
    /\ readdata \in Word16

(* The slot i places after the tail, for i in 1 .. BufferLength. *)
Slot(i) == IF tail_ptr + i < BufferLength THEN tail_ptr + i
                                          ELSE tail_ptr + i - BufferLength

(* The two pointers and the counter are three separate registers, moved in *)
(* eight different places by two masters; they always describe one run of  *)
(* count slots from just after the tail up to the head.                    *)
RingOK == head_ptr = Slot(count)

(* A line is a promise the next edge may have to keep.  While the node is  *)
(* between two phases a raised read line means there is still a free slot, *)
(* and a raised write line that there is still a value, whatever the       *)
(* master and the neighbours did in the edges before.  The three "The      *)
(* assumption was wrong!" assertions (l.185, 236, 288) follow, and so do   *)
(* the declared ranges of count.                                           *)
PromisesKept ==
    /\ Settling =>
         /\ o_active[ReadPort(node_state)] => count < BufferLength
         /\ o_active[WritePort(node_state)] => count > 0
    /\ ~Settling => o_active = Quiet

(* The ring, read from the slot after the tail up to the head. *)
Contents == [i \in 1 .. count |-> values[Slot(i)]]

(* The node implements the deque. *)
Deque == INSTANCE TisDeque WITH
    Capacity <- BufferLength, contents <- Contents, answer <- readdata

DequeSpec == Deque!Spec
=============================================================================
