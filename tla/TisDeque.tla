------------------------------ MODULE TisDeque ------------------------------
(***************************************************************************)
(* What a stack node promises, without pointers, phases or handshakes: a   *)
(* bounded double-ended sequence.  The memory master works at its front,   *)
(* the neighbours at its back, and no operation ever touches a value that  *)
(* is not at the end it works on.  One operation happens at a time.        *)
(***************************************************************************)
EXTENDS TisTypes, SequencesExt

CONSTANT Capacity

VARIABLES contents, answer   \* answer: the halfword last read by the master

dequeVars == <<contents, answer>>

Init == contents = <<>> /\ answer = EmptyAnswer

Clear == contents' = <<>> /\ answer' = EmptyAnswer

(* contents' is contents with one more value, at the front or at the back. *)
MasterPush ==
    /\ Len(contents) < Capacity
    /\ contents' # <<>> /\ Tail(contents') = contents
    /\ Head(contents') \in TisInteger
    /\ UNCHANGED answer

NeighbourPush ==
    /\ Len(contents) < Capacity
    /\ contents' # <<>> /\ Front(contents') = contents
    /\ Last(contents') \in TisInteger
    /\ UNCHANGED answer

MasterPop ==
    /\ contents # <<>>
    /\ answer' = Halfword(Head(contents))
    /\ contents' = Tail(contents)

NeighbourPop ==
    /\ contents # <<>>
    /\ contents' = Front(contents)
    /\ UNCHANGED answer

(* A neighbour's pop and push at once. *)
NeighbourSwap ==
    /\ contents # <<>> /\ contents' # <<>>
    /\ Front(contents') = Front(contents)
    /\ Last(contents') \in TisInteger
    /\ UNCHANGED answer

(* An empty buffer, or the configuration, is read. *)
MasterLooks == answer' \in Word16 /\ UNCHANGED contents

Next ==
    \/ Clear
    \/ MasterPush \/ MasterPop \/ MasterLooks
    \/ NeighbourPush \/ NeighbourPop \/ NeighbourSwap

Spec == Init /\ [][Next]_dequeVars
=============================================================================
