------------------------------ MODULE TisTypes ------------------------------
(***************************************************************************)
(* The vocabulary the hardware modules share: the six clock phases of an   *)
(* instruction cycle, the four conduits of a node, and the two widths a    *)
(* TIS number lives in (an 11-bit signed wire, and the declared range      *)
(* -999 .. 999).                                                           *)
(***************************************************************************)
EXTENDS Integers

(* type tis_state, declared alike by the controller and by both nodes. *)
Phases == {"RUN", "LEFT", "RIGHT", "UP", "DOWN", "FINISH"}

(* Definitions named "Faulty..." are seeded faults: what the operator after *)
(* them could plausibly have been.  They are used by nothing; putting one  *)
(* in the place of its original makes a property fail.  This one forgets   *)
(* the way back from FINISH.                                               *)
FaultyNextPhase(p) ==
    CASE p = "RUN"   -> "LEFT"
      [] p = "LEFT"  -> "RIGHT"
      [] p = "RIGHT" -> "UP"
      [] p = "UP"    -> "DOWN"
      [] OTHER       -> "FINISH"

(* The phase that follows p: every process that has a tis_state steps      *)
(* through it in this order.                                               *)
NextPhase(p) ==
    CASE p = "RUN"   -> "LEFT"
      [] p = "LEFT"  -> "RIGHT"
      [] p = "RIGHT" -> "UP"
      [] p = "UP"    -> "DOWN"
      [] p = "DOWN"  -> "FINISH"
      [] OTHER       -> "RUN"

Ports == {"LEFT", "RIGHT", "UP", "DOWN"}

(* The conduit a node reads, and the one it writes, in the transfers that  *)
(* phase p settles.  The lines for them go up one edge earlier.  All nodes *)
(* keep to this order, and it is what makes a reader and a writer meet: a  *)
(* node reads UP in the phase in which the node above writes DOWN.         *)
ReadPort(p) ==
    CASE p = "RIGHT" -> "LEFT"
      [] p = "UP"    -> "RIGHT"
      [] p = "DOWN"  -> "UP"
      [] OTHER       -> "DOWN"

(* Seeded fault: DOWN and UP in each other's place. *)
FaultyWritePort(p) ==
    CASE p = "RIGHT" -> "RIGHT"
      [] p = "UP"    -> "LEFT"
      [] p = "DOWN"  -> "UP"
      [] OTHER       -> "DOWN"

WritePort(p) ==
    CASE p = "RIGHT" -> "RIGHT"
      [] p = "UP"    -> "LEFT"
      [] p = "DOWN"  -> "DOWN"
      [] OTHER       -> "UP"

(* No o_*_active line raised. *)
Quiet == [p \in Ports |-> FALSE]

(* The lines named in S raised, every other line low. *)
Raise(S) == [p \in Ports |-> p \in S]

(* subtype tis_integer and the saturating conversion of the stack node. *)
TisInteger == -999 .. 999

ToTisInteger(v) == IF v > 999 THEN 999 ELSE IF v < -999 THEN -999 ELSE v

(* The values an 11-bit signed wire or register holds, and the value a     *)
(* wider result has once only its low 11 bits are kept.                    *)
Word11 == -1024 .. 1023

Wrap11(v) == ((v + 1024) % 2048) - 1024

(* The halfwords of the memory bus, unsigned, the halfword that            *)
(* std_logic_vector(to_signed(v, 16)) is, and signed(w), its inverse.      *)
Halfwords == 65536

Word16 == 0 .. Halfwords - 1

Halfword(v) == v % Halfwords

SignedHalfword(w) == IF 2 * w < Halfwords THEN w ELSE w - Halfwords

(* x"FFFF", what a stack node answers when it is empty: also Halfword(-1). *)
EmptyAnswer == Halfwords - 1
=============================================================================
