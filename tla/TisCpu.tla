------------------------------- MODULE TisCpu -------------------------------
(***************************************************************************)
(* A TIS-100 processor as its programmer knows it: one instruction is one  *)
(* step.  What a port supplies is anything; what every other operand is,   *)
(* and what each instruction does with it, is fixed.  There are no phases, *)
(* no lines and no waiting (a waiting processor stutters).                 *)
(***************************************************************************)
EXTENDS TisIsa

VARIABLES program, pc, acc, bak

archVars == <<program, pc, acc, bak>>

LastAddress == Bits(program[0], 3, 0)

Instruction == program[(pc + 1) % 16]

(* The values operand v of the instruction w may have. *)
IsOperand(w, v) ==
    CASE Group(w) = "alu_immediate" -> v = AluImmediate(w)
      [] Group(w) = "mov_immediate" -> v = MovImmediate(w)
      [] OTHER -> CASE Source(w) = "NIL" -> v = 0
                    [] Source(w) = "ACC" -> v = acc
                    [] OTHER             -> v \in Word11

Advance == IF pc = LastAddress THEN 0 ELSE (pc + 1) % 16

(* Jumps stop at the two ends of the program. *)
Within(address) ==
    IF address < 0 THEN 0 ELSE IF address > LastAddress THEN LastAddress ELSE address

(* acc' comes before the operand it is computed from: for a port it is     *)
(* what tells which value came in.                                         *)
Move ==
    /\ Group(Instruction) \in {"mov_immediate", "mov_register"}
    /\ IF Destination(Instruction) = "ACC" THEN IsOperand(Instruction, acc')
                                           ELSE UNCHANGED acc
    /\ pc' = Advance /\ UNCHANGED bak

Add ==
    /\ Operation(Instruction) = "ADD"
    /\ acc' \in Word11 /\ IsOperand(Instruction, Wrap11(acc' - acc))
    /\ pc' = Advance /\ UNCHANGED bak

Subtract ==
    /\ Operation(Instruction) = "SUB"
    /\ acc' \in Word11 /\ IsOperand(Instruction, Wrap11(acc - acc'))
    /\ pc' = Advance /\ UNCHANGED bak

Negate ==
    /\ Operation(Instruction) = "NEG"
    /\ acc' = Wrap11(-acc)
    /\ pc' = Advance /\ UNCHANGED bak

Save ==
    /\ Operation(Instruction) = "SAV"
    /\ bak' = acc
    /\ pc' = Advance /\ UNCHANGED acc

Swap ==
    /\ Operation(Instruction) = "SWP"
    /\ acc' = bak /\ bak' = acc
    /\ pc' = Advance

Jump ==
    /\ Operation(Instruction) = "JMP"
    /\ pc' = IF Holds(Condition(Instruction), acc) THEN Within(Target(Instruction))
                                                   ELSE Advance
    /\ UNCHANGED <<acc, bak>>

(* JRO <SRC>: the distance is what the source register holds. *)
JumpRelative ==
    /\ Operation(Instruction) = "JRO"
    /\ \E v \in Word11 : IsOperand(Instruction, v) /\ pc' = Within(pc + v)
    /\ UNCHANGED <<acc, bak>>

Step ==
    /\ Move \/ Add \/ Subtract \/ Negate \/ Save \/ Swap \/ Jump \/ JumpRelative
    /\ UNCHANGED program

Init == pc = 0 /\ acc = 0 /\ bak = 0

Spec == Init /\ [][Step]_archVars
=============================================================================
